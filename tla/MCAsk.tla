-------------------------------- MODULE MCAsk --------------------------------
(***************************************************************************)
(* An instance of Ask for TLC: a client, an active object whose methods    *)
(* may call a second actor, and as many threads as actors.                 *)
(***************************************************************************)
EXTENDS Ask

CONSTANTS c1, a1, a2

MCClient == {c1}
MCActor  == {a1, a2}
MCWrapper == {a1}
MCCallee  == [a \in {a1, a2} |-> IF a = a1 THEN {a2} ELSE {}]
==============================================================================
