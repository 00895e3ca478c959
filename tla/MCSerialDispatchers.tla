------------------------- MODULE MCSerialDispatchers -------------------------
(***************************************************************************)
(* Instances of SerialDispatchers for TLC: two actors that share a thread  *)
(* and one with a thread of its own.                                       *)
(***************************************************************************)
EXTENDS SerialDispatchers

CONSTANTS s1, s2, d1

MCShared    == {s1, s2}
MCDedicated == {d1}
MCMaxSend   == [a \in {s1, s2, d1} |-> IF a = s2 THEN 1 ELSE 2]

\* For the restart of a dedicated actor.
MCNoShared      == {}
MCDedicatedSend == [a \in {d1} |-> 2]
==============================================================================
