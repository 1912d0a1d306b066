--------------------------- MODULE MCTailCommand ----------------------------
(***************************************************************************)
(* What a run of MCFunctions takes as its input, and TailCommand in it, of *)
(* the sizes that the configuration gives its windows and blocks: a module *)
(* of its own, for the proofs about tail.                                  *)
(***************************************************************************)
EXTENDS Integers

CONSTANTS
  MMAP_MAXSIZE,    \* the bytes in a window of tail
  BLOCK            \* and in its blocks

ASSUME TailSizes == MMAP_MAXSIZE \in Nat \ {0} /\ BLOCK \in Nat \ {0}

VARIABLE input     \* [of |-> which function, ...]

Command == INSTANCE TailCommand WITH NL <- "nl", LINES <- 2

Is(function) == input.of = function

(* tail shows the part of the file its option asks for (tail.c, forward.c). *)
ShowsWhatIsAsked ==
  Is("tail") => Command!ShowsWhatIsAsked(input.letter, input.sign, input.n, input.data)
=============================================================================
