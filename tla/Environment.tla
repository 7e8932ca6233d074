----------------------------- MODULE Environment -----------------------------
(***************************************************************************)
(* What SET and PATH promise: a value for each variable.  A variable whose  *)
(* value is empty is not set.                                               *)
(***************************************************************************)
EXTENDS Sequences

CONSTANTS Vars, Vals

VARIABLE env

Init == env = [v \in Vars |-> <<>>]

Set(v, x) == env' = [env EXCEPT ![v] = x]

Next == \E v \in Vars, x \in Vals \cup {<<>>} : Set(v, x)

Spec == Init /\ [][Next]_env
=============================================================================
