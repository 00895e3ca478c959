------------------------------- MODULE MCRemote -------------------------------
(***************************************************************************)
(* Instances of Remote for TLC.                                            *)
(*                                                                         *)
(* Three calls: host h1 has two actors of one supervisor, one called by    *)
(* `!!' and the other by `!?'; h2 has an actor without a supervisor,       *)
(* called by `!'.  All are of one class, and both hosts use the id 0.  The *)
(* first actor may be unlinked, and be linked by a second supervisor, as   *)
(* long as h2 has no connection: links and second host are both explored,  *)
(* and not their product.                                                  *)
(*                                                                         *)
(* Two calls: `!!' from h1 on a supervised actor, and `!?' from h2.        *)
(***************************************************************************)
EXTENDS Remote, TLC

CONSTANTS h1, h2, c1, c2, c3, p1, p2, p3, t, s1, s2

OneClass == [p \in Proxy |-> t]

Hosts      == (p1 :> h1) @@ (p2 :> h1) @@ (p3 :> h2)
Supervised == (p1 :> s1) @@ (p2 :> s1) @@ (p3 :> None)
Relinks    == (p1 :> {s2}) @@ (p2 :> {}) @@ (p3 :> {})
Calls      == (c1 :> p1) @@ (c2 :> p2) @@ (c3 :> p3)
Kinds      == (c1 :> "ask") @@ (c2 :> "forever") @@ (c3 :> "oneway")

\* Bound: the links have changed, or the second host has connected, but not both.
\* It holds back Unlink, Link and Connect only, of which none has fairness.
LinksOrTwoHosts == supervisor = SupervisorOf \/ connection[h2] = "none"

TwoHosts      == (p1 :> h1) @@ (p2 :> h2)
OneSupervised == (p1 :> s1) @@ (p2 :> None)
TwoCalls      == (c1 :> p1) @@ (c2 :> p2)
TwoKinds      == (c1 :> "ask") @@ (c2 :> "forever")
NoLinks       == (p1 :> {}) @@ (p2 :> {})
==============================================================================
