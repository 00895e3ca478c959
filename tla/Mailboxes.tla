------------------------------ MODULE Mailboxes ------------------------------
(***************************************************************************)
(* What a message dispatcher promises the actors that share it, whatever   *)
(* threads it uses: the messages sent to an actor are numbered in the      *)
(* order of their sending, the actor's invoker is entered with one message *)
(* at a time, and the messages it is entered with are those sent, in that  *)
(* order, none twice and none out of turn.  A message for an actor whose   *)
(* handler is not registered may be discarded.  Nothing here says that a   *)
(* message is ever delivered: each dispatcher states its own progress.     *)
(*                                                                         *)
(* This is the contract of MessageDispatcher and MessageInvoker (Reactor.  *)
(* scala) that Actor.invoke relies on; the dispatchers implement it.       *)
(***************************************************************************)
EXTENDS Naturals

CONSTANT Actor

VARIABLES
  sent,        \* sent[a]: how many messages were appended to the queue for a
  last,        \* last[a]: the number of the last message of a that was begun
  running,     \* the actors whose invoker is being executed
  registered   \* the actors whose handler is registered

vars == <<sent, last, running, registered>>

TypeOK ==
  /\ sent \in [Actor -> Nat]
  /\ last \in [Actor -> Nat]
  /\ running \subseteq Actor
  /\ registered \subseteq Actor

Init ==
  /\ sent = [a \in Actor |-> 0]
  /\ last = [a \in Actor |-> 0]
  /\ running = {}
  /\ registered = Actor

Send(a) ==
  /\ sent' = [sent EXCEPT ![a] = @ + 1]
  /\ UNCHANGED <<last, running, registered>>

\* The oldest message not yet begun enters the invoker, which must be free.
Begin(a) ==
  /\ a \notin running
  /\ last[a] < sent[a]
  /\ last' = [last EXCEPT ![a] = @ + 1]
  /\ running' = running \cup {a}
  /\ UNCHANGED <<sent, registered>>

Finish(a) ==
  /\ a \in running
  /\ running' = running \ {a}
  /\ UNCHANGED <<sent, last, registered>>

Discard(a) ==
  /\ a \notin registered
  /\ last[a] < sent[a]
  /\ last' = [last EXCEPT ![a] = @ + 1]
  /\ UNCHANGED <<sent, running, registered>>

\* Handlers are registered and unregistered at any time.
Rebind ==
  /\ registered' \in SUBSET Actor
  /\ UNCHANGED <<sent, last, running>>

Next ==
  \/ \E a \in Actor : Send(a) \/ Begin(a) \/ Finish(a) \/ Discard(a)
  \/ Rebind

Spec == Init /\ [][Next]_vars
==============================================================================
