---------------------------- MODULE MCSupervision ----------------------------
(***************************************************************************)
(* Instances of Supervision for TLC.                                       *)
(*                                                                         *)
(* The tree: g restarts one for one what fails below it; s, below g, traps *)
(* the failures of the application only; it has a permanent actor a1 and   *)
(* an actor a2 that is temporary or without a life cycle.  g and s may     *)
(* both try to link a1, and a1 may try to link a2.                         *)
(***************************************************************************)
EXTENDS Supervision, TLC

CONSTANTS g, s, a1, a2

MCActor == {g, s, a1, a2}

MCConfigured == (g :> {s}) @@ (s :> {a1, a2}) @@ (a1 :> {}) @@ (a2 :> {})

MCMayLink == (g :> {s, a1}) @@ (s :> {a1}) @@ (a1 :> {a2}) @@ (a2 :> {})

MCTrapExit == (g :> Reason) @@ (s :> {"app"}) @@ (a1 :> {}) @@ (a2 :> {})

MCFaultHandlers ==
  {(g :> "oneForOne") @@ (s :> f) @@ (a1 :> "none") @@ (a2 :> "none") :
     f \in {"allForOne", "none"}}

MCLifeCycles ==
  {(g :> "none") @@ (s :> "permanent") @@ (a1 :> "permanent") @@ (a2 :> l) :
     l \in {"temporary", "none"}}
==============================================================================
