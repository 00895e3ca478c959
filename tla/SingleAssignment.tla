--------------------------- MODULE SingleAssignment ---------------------------
(***************************************************************************)
(* What a dataflow variable promises: it is bound once, and whoever reads  *)
(* it gets, when it is bound, the value that it is bound to.  Nothing is   *)
(* said of the actors that this takes.                                     *)
(***************************************************************************)
CONSTANTS Thread, Var, Value, None

VARIABLES
  value,   \* value[v]: the value of v, or None
  got      \* got[t]: the variable that t has read and what it got, or None

Init ==
  /\ value = [v \in Var |-> None]
  /\ got = [t \in Thread |-> None]

Bind(v, x) ==
  /\ value[v] = None
  /\ value' = [value EXCEPT ![v] = x]
  /\ UNCHANGED got

Read(t, v) ==
  /\ got[t] = None
  /\ value[v] # None
  /\ got' = [got EXCEPT ![t] = <<v, value[v]>>]
  /\ UNCHANGED value

Next ==
  \E v \in Var :
    \/ \E x \in Value : Bind(v, x)
    \/ \E t \in Thread : Read(t, v)

Spec == Init /\ [][Next]_<<value, got>>
===============================================================================
