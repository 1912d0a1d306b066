--------------------------- MODULE MCFindExecute ---------------------------
(***************************************************************************)
(* FindExecute for TLC: hierarchies of up to three files, one of them too  *)
(* long to be collected with another, and expressions with an exec in      *)
(* every kind of place.                                                    *)
(***************************************************************************)
EXTENDS FindExecute

CONSTANTS top, one, two

Files == {top, one, two}
Lengths == [path \in Files |-> IF path = two THEN 4 ELSE 1]

Of(path, info) == [path |-> path, info |-> info, badch |-> FALSE]
Bad(path, info) == [path |-> path, info |-> info, badch |-> TRUE]

SomeStreams ==
  {<<Of(top, "D"), Of(one, "F"), Of(two, "F"), Of(top, "DP")>>,
   <<Of(top, "D"), Of(one, "D"), Of(one, "DNR"), Bad(two, "F"), Of(top, "DP")>>,
   <<Of(top, "D"), Of(one, "NS"), Of(two, "F"), Of(top, "DP")>>,
   <<Of(one, "NS"), Of(two, "F"), Bad(top, "F")>>}

SomeExpressions ==
  {<<"exec">>,
   <<"test", "exec">>,
   <<"test", "-a", "(", "exec", "exec", ")", "act">>,
   <<"!", "!", "(", "(", "exec", ")", ")">>,
   <<"(", "exec", "-o", "test", ")">>,
   <<"!", "test", "exit", "exec">>,
   <<"exec", "(", "exit", ")">>,
   <<"test", "!", "exec">>,
   <<"exec", "-o", "-o", "exec">>}

Room == {7}
Succeeds == {0, 1}
=============================================================================
