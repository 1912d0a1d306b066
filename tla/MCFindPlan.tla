---------------------------- MODULE MCFindPlan ----------------------------
(***************************************************************************)
(* FindMeaning for TLC: every expression of up to MaxTokens tokens, and of *)
(* MaxOperators tokens among the operators and one kind of primary, so     *)
(* that two "!" before an "-o" in parentheses are among them.              *)
(***************************************************************************)
EXTENDS FindMeaning

CONSTANTS MaxTokens, MaxOperators

(* A plan is made without regard to which action it is. *)
OneAction == {"(", ")", "!", "-o", "-a", "test", "act"}
Short == UNION {[1 .. n -> OneAction] : n \in 0 .. MaxTokens}
Operators == [1 .. MaxOperators -> {"(", ")", "!", "-o", "test"}]
ShortExpressions == Short \cup Operators
=============================================================================
