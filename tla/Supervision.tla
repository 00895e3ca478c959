----------------------------- MODULE Supervision -----------------------------
(***************************************************************************)
(* Links, exits and restarts: link, unlink and startLink of Actor, what    *)
(* invoke does when a handler throws, handleTrapExit with its two fault    *)
(* handling strategies, restart, and the start and stop messages of        *)
(* Supervisor.                                                             *)
(*                                                                         *)
(* Every actor handles one message at a time (Mailboxes) and holds its own *)
(* monitor while it does, because Actor.invoke is synchronized; start,     *)
(* stop and restart of another actor wait for that actor's monitor.  All   *)
(* other fields of an actor are read and written without a lock by         *)
(* whichever thread comes along.                                           *)
(*                                                                         *)
(* An operator whose comment begins with `Mutant' is not part of the       *)
(* model: it is a mistake that the properties are shown to detect.         *)
(***************************************************************************)
EXTENDS Naturals, Sequences, FiniteSets

CONSTANTS
  Actor,
  None,          \* no actor
  MayLink,       \* MayLink[s]: the actors that handlers of s link and unlink
  Configured,    \* Configured[s]: the actors linked when the system starts
  TrapExit,      \* trapExit[s]: the reasons that s traps
  FaultHandlers, \* the values of faultHandler that are considered
  LifeCycles,    \* the values of lifeCycle that are considered
  Fragile,       \* the actors whose preRestart or postRestart may throw
  MaxSend,       \* bound of the model: user messages sent in all
  MaxFail,       \* bound of the model: failures of user code in all
  MaxOps         \* bound of the model: links, stops, ... by user code in all

\* What a handler may throw: an exception of the application, or the
\* IllegalStateException of the code modelled here.
Reason == {"app", "illegal"}

ASSUME NoneAssumption       == None \notin Actor
ASSUME LinkAssumption       == /\ MayLink \in [Actor -> SUBSET Actor]
                               /\ Configured \in [Actor -> SUBSET Actor]
\* configure links an actor to one supervisor.
ASSUME ConfiguredAssumption ==
  \A s, t \in Actor : s # t => Configured[s] \cap Configured[t] = {}
ASSUME TrapAssumption       == TrapExit \in [Actor -> SUBSET Reason]
ASSUME FaultAssumption      ==
  FaultHandlers \subseteq [Actor -> {"allForOne", "oneForOne", "none"}]
ASSUME LifeCycleAssumption  ==
  LifeCycles \subseteq [Actor -> {"permanent", "temporary", "none"}]
ASSUME BoundsAssumption     ==
  Fragile \subseteq Actor /\ {MaxSend, MaxFail, MaxOps} \subseteq Nat

Exit    == [type : {"exit"}, dead : Actor, reason : Reason]
Message == [type : {"user", "start", "stop"}] \cup Exit

VARIABLES
  faultHandler, \* faultHandler[s]: its fault handling strategy; never changed
  lifeCycle,   \* lifeCycle[a]: the scope of its life cycle; never changed
  running,     \* the actors with _isRunning
  served,      \* the actors whose messages the dispatcher still hands out
  taken,       \* the actors whose next message a thread of the pool has
  linked,      \* linked[s]: _linkedActors
  supervisor,  \* supervisor[a]: _supervisor
  mailbox,     \* mailbox[a]: the messages not yet received
  at,          \* at[a]: what a's own thread is doing with a message
  todo,        \* todo[s]: the actors s still has to restart, start or stop
  target,      \* target[s]: the actor that s is linking, unlinking or restarting
  exit,        \* exit[a]: what a is about to report to its supervisor
  sends, fails, ops,  \* how much of the bounds is used up
  owed         \* ghost: <<a, s>> when s has to restart a after a failure

settings   == <<faultHandler, lifeCycle>>
actorVars  == <<running, served, taken>>
linkVars   == <<linked, supervisor>>
threadVars == <<at, todo, target, exit>>
boundVars  == <<sends, fails, ops>>
vars == <<faultHandler, lifeCycle, running, served, taken, linked, supervisor,
          mailbox, at, todo, target, exit, sends, fails, ops, owed>>

\* SupervisorFactory.newSupervisor: every actor is started, and linked by the
\* supervisor it is configured for.
SupervisorOf(a) ==
  IF \E s \in Actor : a \in Configured[s]
  THEN CHOOSE s \in Actor : a \in Configured[s]
  ELSE None

NoExit == [type |-> "exit", dead |-> None, reason |-> "app"]

Init ==
  /\ faultHandler \in FaultHandlers
  /\ lifeCycle \in LifeCycles
  /\ running = Actor
  /\ served = Actor
  /\ taken = {}
  /\ linked = Configured
  /\ supervisor = [a \in Actor |-> SupervisorOf(a)]
  /\ mailbox = [a \in Actor |-> <<>>]
  /\ at = [a \in Actor |-> "idle"]
  /\ todo = [a \in Actor |-> {}]
  /\ target = [a \in Actor |-> None]
  /\ exit = [a \in Actor |-> NoExit]
  /\ sends = 0 /\ fails = 0 /\ ops = 0
  /\ owed = {}

------------------------------------------------------------------------------
(* Monitors and failures *)

\* Mutant of MonitorFree: restart is not synchronized.
MonitorOfInvoke(a) == at[a] = "idle"

\* Nobody executes a synchronized method of a.
MonitorFree(a) ==
  /\ at[a] = "idle"
  /\ \A s \in Actor : at[s] = "restarting" => target[s] # a

Goto(a, l) == at' = [at EXCEPT ![a] = l]

\* The catch block of dispatch and transactionalDispatch is entered.
Throw(a, reason) ==
  /\ Goto(a, "failed")
  /\ exit' = [exit EXCEPT ![a] =
                [type |-> "exit", dead |-> a, reason |-> reason]]

\* The end of invoke.
Leave(a) ==
  /\ Goto(a, "idle")
  /\ exit' = [exit EXCEPT ![a] = NoExit]

\* The failure x obliges s to restart the actor that failed.
Obliges(s, x) ==
  /\ x.reason \in TrapExit[s]
  /\ lifeCycle[x.dead] = "permanent"
  /\ \/ faultHandler[s] = "oneForOne"
     \/ faultHandler[s] = "allForOne" /\ x.dead \in linked[s]

\* s ! x, by the thread of actor a; it succeeds only if s is running.
Report(s, x) ==
  /\ mailbox' = [mailbox EXCEPT ![s] = Append(@, x)]
  /\ owed' = IF Obliges(s, x) THEN owed \cup {<<x.dead, s>>} ELSE owed

\* `if (_supervisor.isDefined)' in the catch block
Failed(a) ==
  /\ at[a] = "failed"
  /\ \/ /\ supervisor[a] = None
        /\ Leave(a)
     \/ /\ supervisor[a] # None
        /\ Goto(a, "report")
        /\ UNCHANGED exit
  /\ UNCHANGED <<actorVars, linkVars, mailbox, todo, target, boundVars, owed>>

\* `_supervisor.get ! Exit(this, e)'.  By now an unlink may have reset the
\* field, or the supervisor may have been stopped: then the exception leaves
\* invoke, and the dispatcher never frees this actor (ThreadPoolDispatcher).
ReportFailure(a) ==
  /\ at[a] = "report"
  /\ Leave(a)
  /\ \/ /\ supervisor[a] \in running
        /\ Report(supervisor[a], exit[a])
        /\ UNCHANGED served
     \/ /\ supervisor[a] \notin running
        /\ served' = served \ {a}
        /\ UNCHANGED <<mailbox, owed>>
  /\ UNCHANGED <<running, taken, linkVars, todo, target, boundVars>>

------------------------------------------------------------------------------
(* The outside *)

Send(a, type) ==
  /\ sends < MaxSend
  /\ a \in running
  /\ type = "user" \/ Configured[a] # {}
  /\ mailbox' = [mailbox EXCEPT ![a] = Append(@, [type |-> type])]
  /\ sends' = sends + 1
  /\ UNCHANGED <<actorVars, linkVars, threadVars, fails, ops, owed>>

Starting(a) == running' = running \cup {a} /\ UNCHANGED <<served, taken>>

\* The handler is unregistered and start does not register it again; a message
\* that a thread has already taken is still executed.
Stopping(a) ==
  /\ running' = running \ {a}
  /\ served' = IF a \in running THEN served \ {a} ELSE served
  /\ UNCHANGED taken

\* Any thread may start or stop an actor; its own handler may stop it, too.
Start(a) ==
  /\ ops < MaxOps
  /\ a \notin running
  /\ MonitorFree(a)
  /\ Starting(a)
  /\ ops' = ops + 1
  /\ UNCHANGED <<linkVars, mailbox, threadVars, sends, fails, owed>>

Stop(a) ==
  /\ ops < MaxOps
  /\ a \in running
  /\ MonitorFree(a) \/ at[a] = "user"
  /\ Stopping(a)
  /\ ops' = ops + 1
  /\ UNCHANGED <<linkVars, mailbox, threadVars, sends, fails, owed>>

------------------------------------------------------------------------------
(* User code of an actor: receive, and what it calls *)

\* The dispatcher hands the next message of a to a thread, which then waits
\* for the monitor of a.
Take(a) ==
  /\ a \in served \ taken
  /\ at[a] = "idle"
  /\ mailbox[a] # <<>>
  /\ taken' = taken \cup {a}
  /\ UNCHANGED <<running, served, linkVars, mailbox, threadVars, boundVars, owed>>

Receives(a, type) ==
  /\ MonitorFree(a)
  /\ a \in taken
  /\ Head(mailbox[a]).type = type
  /\ mailbox' = [mailbox EXCEPT ![a] = Tail(@)]
  /\ taken' = taken \ {a}
  /\ UNCHANGED <<running, served>>

ReceiveUser(a) ==
  /\ Receives(a, "user")
  /\ Goto(a, "user")
  /\ UNCHANGED <<linkVars, todo, target, exit, boundVars, owed>>

UserReturns(a) ==
  /\ at[a] = "user"
  /\ Goto(a, "idle")
  /\ UNCHANGED <<actorVars, linkVars, mailbox, todo, target, exit, boundVars,
                 owed>>

UserThrows(a) ==
  /\ at[a] = "user"
  /\ fails < MaxFail
  /\ Throw(a, "app")
  /\ fails' = fails + 1
  /\ UNCHANGED <<actorVars, linkVars, mailbox, todo, target, sends, ops, owed>>

\* Mutant of BeginLink: the actor is not put into _linkedActors.
BeginLinkHalf(s, a) ==
  IF s \notin running \/ supervisor[a] # None
  THEN /\ Throw(s, "illegal")
       /\ UNCHANGED <<linked, target>>
  ELSE /\ Goto(s, "link")
       /\ target' = [target EXCEPT ![s] = a]
       /\ UNCHANGED <<linked, exit>>

\* link adds the actor to _linkedActors before it looks at its _supervisor.
BeginLink(s, a) ==
  \/ /\ s \notin running
     /\ Throw(s, "illegal")
     /\ UNCHANGED <<linked, target>>
  \/ /\ s \in running
     /\ linked' = [linked EXCEPT ![s] = @ \cup {a}]
     /\ IF supervisor[a] # None
        THEN Throw(s, "illegal") /\ UNCHANGED target
        ELSE /\ Goto(s, "link")
             /\ target' = [target EXCEPT ![s] = a]
             /\ UNCHANGED exit

Link(s, a) ==
  /\ at[s] = "user"
  /\ ops < MaxOps
  /\ a \in MayLink[s]
  /\ BeginLink(s, a)
  /\ ops' = ops + 1
  /\ UNCHANGED <<actorVars, supervisor, mailbox, todo, sends, fails, owed>>

StartLink(s, a) ==
  /\ at[s] = "user"
  /\ ops < MaxOps
  /\ a \in MayLink[s] \ running
  /\ MonitorFree(a)
  /\ Starting(a)
  /\ BeginLink(s, a)
  /\ ops' = ops + 1
  /\ UNCHANGED <<supervisor, mailbox, todo, sends, fails, owed>>

\* actor._supervisor = Some(this)
EndLink(s) ==
  /\ at[s] = "link"
  /\ supervisor' = [supervisor EXCEPT ![target[s]] = s]
  /\ target' = [target EXCEPT ![s] = None]
  /\ Goto(s, "user")
  /\ UNCHANGED <<actorVars, linked, mailbox, todo, exit, boundVars, owed>>

\* unlink takes the actor out of _linkedActors; its _supervisor is still set.
BeginUnlink(s, a) ==
  /\ at[s] = "user"
  /\ ops < MaxOps
  /\ a \in MayLink[s]
  /\ IF s \in running /\ a \in linked[s]
     THEN /\ linked' = [linked EXCEPT ![s] = @ \ {a}]
          /\ Goto(s, "unlink")
          /\ target' = [target EXCEPT ![s] = a]
          /\ owed' = owed \ {<<a, s>>}
          /\ UNCHANGED exit
     ELSE /\ Throw(s, "illegal")
          /\ UNCHANGED <<linked, target, owed>>
  /\ ops' = ops + 1
  /\ UNCHANGED <<actorVars, supervisor, mailbox, todo, sends, fails>>

\* actor._supervisor = None, whoever it is by now
EndUnlink(s) ==
  /\ at[s] = "unlink"
  /\ supervisor' = [supervisor EXCEPT ![target[s]] = None]
  /\ target' = [target EXCEPT ![s] = None]
  /\ Goto(s, "user")
  /\ UNCHANGED <<actorVars, linked, mailbox, todo, exit, boundVars, owed>>

------------------------------------------------------------------------------
(* handleTrapExit *)

Traps(s, x) == x.reason \in TrapExit[s]

\* The actors that the fault handler restarts: the linked ones at this moment,
\* or the one that failed.
ReceiveTrapped(s) ==
  /\ Receives(s, "exit")
  /\ LET x == Head(mailbox[s])
     IN  /\ Traps(s, x)
         /\ \/ /\ faultHandler[s] = "none"
               /\ Throw(s, "illegal")
               /\ UNCHANGED todo
            \/ /\ faultHandler[s] # "none"
               /\ Goto(s, "restart")
               /\ todo' = [todo EXCEPT ![s] =
                             IF faultHandler[s] = "allForOne" THEN linked[s]
                                                              ELSE {x.dead}]
               /\ UNCHANGED exit
  /\ UNCHANGED <<linkVars, target, boundVars, owed>>

\* `if (_supervisor.isDefined)' in handleTrapExit
ReceiveUntrapped(s) ==
  /\ Receives(s, "exit")
  /\ LET x == Head(mailbox[s])
     IN  /\ ~Traps(s, x)
         /\ \/ supervisor[s] = None /\ Leave(s)
            \/ /\ supervisor[s] # None
               /\ Goto(s, "forward")
               /\ exit' = [exit EXCEPT ![s] = x]
  /\ UNCHANGED <<linkVars, todo, target, boundVars, owed>>

\* `_supervisor.get ! Exit(dead, reason)': an exception here is one of s.
Forward(s) ==
  /\ at[s] = "forward"
  /\ \/ /\ supervisor[s] \in running
        /\ Report(supervisor[s], exit[s])
        /\ Leave(s)
     \/ /\ supervisor[s] \notin running
        /\ Throw(s, "illegal")
        /\ UNCHANGED <<mailbox, owed>>
  /\ UNCHANGED <<actorVars, linkVars, todo, target, boundVars>>

ByLifeCycle(s) == faultHandler[s] = "allForOne"

Done(s, a) == todo' = [todo EXCEPT ![s] = @ \ {a}]

\* Mutant of BeginRestart: which actor is restarted is forgotten.
BeginRestartOfNone(s, a) ==
  /\ at[s] = "restart"
  /\ a \in todo[s]
  /\ MonitorFree(a)
  /\ Goto(s, "restarting")
  /\ UNCHANGED <<actorVars, linkVars, mailbox, todo, target, exit, boundVars,
                 owed>>

\* actor.restart waits for the actor's monitor.
BeginRestart(s, a) ==
  /\ at[s] = "restart"
  /\ a \in todo[s]
  /\ ByLifeCycle(s) => lifeCycle[a] = "permanent"
  /\ MonitorFree(a)
  /\ Goto(s, "restarting")
  /\ target' = [target EXCEPT ![s] = a]
  /\ UNCHANGED <<actorVars, linkVars, mailbox, todo, exit, boundVars, owed>>

\* preRestart and postRestart have returned.
EndRestart(s) ==
  /\ at[s] = "restarting"
  /\ target' = [target EXCEPT ![s] = None]
  /\ Done(s, target[s])
  /\ Goto(s, "restart")
  /\ owed' = {o \in owed : o[1] # target[s]}
  /\ UNCHANGED <<actorVars, linkVars, mailbox, exit, boundVars>>

\* The rest of the actors is not restarted.
GiveUp(s, reason) ==
  /\ Throw(s, reason)
  /\ todo' = [todo EXCEPT ![s] = {}]
  /\ owed' = owed \ (todo[s] \X {s})

\* preRestart or postRestart has thrown.
RestartThrows(s) ==
  /\ at[s] = "restarting"
  /\ target[s] \in Fragile
  /\ target' = [target EXCEPT ![s] = None]
  /\ GiveUp(s, "app")
  /\ UNCHANGED <<actorVars, linkVars, mailbox, boundVars>>

WithoutLifeCycle(s, a) ==
  /\ at[s] = "restart"
  /\ a \in todo[s]
  /\ ByLifeCycle(s) /\ lifeCycle[a] = "none"
  /\ GiveUp(s, "illegal")
  /\ UNCHANGED <<actorVars, linkVars, mailbox, target, boundVars>>

\* Mutant of DropTemporary: the loop ends at the temporary actor.
DropTemporaryLast(s, a) ==
  /\ at[s] = "restart"
  /\ a \in todo[s]
  /\ ByLifeCycle(s) /\ lifeCycle[a] = "temporary"
  /\ linked' = [linked EXCEPT ![s] = @ \ {a}]
  /\ todo' = [todo EXCEPT ![s] = {}]
  /\ UNCHANGED <<actorVars, supervisor, mailbox, at, target, exit, boundVars,
                 owed>>

\* _linkedActors forgets the actor; the actor's _supervisor stays.
DropTemporary(s, a) ==
  /\ at[s] = "restart"
  /\ a \in todo[s]
  /\ ByLifeCycle(s) /\ lifeCycle[a] = "temporary"
  /\ linked' = [linked EXCEPT ![s] = @ \ {a}]
  /\ Done(s, a)
  /\ UNCHANGED <<actorVars, supervisor, mailbox, at, target, exit, boundVars,
                 owed>>

AllRestarted(s) ==
  /\ at[s] = "restart"
  /\ todo[s] = {}
  /\ Goto(s, "idle")
  /\ UNCHANGED <<actorVars, linkVars, mailbox, todo, target, exit, boundVars,
                 owed>>

------------------------------------------------------------------------------
(* Supervisor.receive: StartSupervisor and StopSupervisor *)

ReceiveStartStop(s, type) ==
  /\ Receives(s, type)
  /\ Goto(s, type)
  /\ todo' = [todo EXCEPT ![s] = linked[s]]
  /\ UNCHANGED <<linkVars, target, exit, boundVars, owed>>

\* actor.start and actor.stop of a linked actor wait for its monitor.
StartChild(s, a) ==
  /\ at[s] = "start"
  /\ a \in todo[s]
  /\ MonitorFree(a)
  /\ Starting(a)
  /\ Done(s, a)
  /\ UNCHANGED <<linkVars, mailbox, at, target, exit, boundVars, owed>>

\* Mutant of StopChild: the loop hangs on an actor that is already stopped.
StopRunningChild(s, a) ==
  /\ at[s] = "stop"
  /\ a \in todo[s] \cap running
  /\ MonitorFree(a)
  /\ Stopping(a)
  /\ Done(s, a)
  /\ UNCHANGED <<linkVars, mailbox, at, target, exit, boundVars, owed>>

StopChild(s, a) ==
  /\ at[s] = "stop"
  /\ a \in todo[s]
  /\ MonitorFree(a)
  /\ Stopping(a)
  /\ Done(s, a)
  /\ UNCHANGED <<linkVars, mailbox, at, target, exit, boundVars, owed>>

AllStarted(s) ==
  /\ at[s] = "start"
  /\ todo[s] = {}
  /\ Goto(s, "idle")
  /\ UNCHANGED <<actorVars, linkVars, mailbox, todo, target, exit, boundVars,
                 owed>>

\* The supervisor stops itself last.
AllStopped(s) ==
  /\ at[s] = "stop"
  /\ todo[s] = {}
  /\ Stopping(s)
  /\ Goto(s, "idle")
  /\ UNCHANGED <<linkVars, mailbox, todo, target, exit, boundVars, owed>>

------------------------------------------------------------------------------
Receive(a) ==
  \/ ReceiveUser(a)
  \/ ReceiveTrapped(a)
  \/ ReceiveUntrapped(a)
  \/ \E type \in {"start", "stop"} : ReceiveStartStop(a, type)

RestartLoop(s) ==
  \/ \E a \in Actor : BeginRestart(s, a)
  \/ \E a \in Actor : WithoutLifeCycle(s, a)
  \/ \E a \in Actor : DropTemporary(s, a)
  \/ EndRestart(s)
  \/ RestartThrows(s)
  \/ AllRestarted(s)

StartStopLoop(s) ==
  \/ \E a \in Actor : StartChild(s, a)
  \/ \E a \in Actor : StopChild(s, a)
  \/ AllStarted(s)
  \/ AllStopped(s)

\* The thread that executes a message of a, up to the end of invoke.
Handle(a) ==
  \/ UserReturns(a)
  \/ UserThrows(a)
  \/ EndLink(a)
  \/ EndUnlink(a)
  \/ Failed(a)
  \/ ReportFailure(a)
  \/ Forward(a)
  \/ RestartLoop(a)
  \/ StartStopLoop(a)

ThreadStep(a) == UNCHANGED settings /\ (Take(a) \/ Receive(a) \/ Handle(a))

UserActs ==
  /\ UNCHANGED settings
  /\ \/ \E a \in Actor, type \in {"user", "start", "stop"} : Send(a, type)
     \/ \E a \in Actor : Start(a) \/ Stop(a)
     \/ \E s, a \in Actor : Link(s, a) \/ StartLink(s, a) \/ BeginUnlink(s, a)

Next == UserActs \/ \E a \in Actor : ThreadStep(a)

Spec == Init /\ [][Next]_vars

\* Threads are scheduled and get the monitors they wait for (nobody can keep
\* one busy for ever: the messages are bounded), and user code ends.
Fairness == \A a \in Actor : WF_vars(ThreadStep(a))

FairSpec == Spec /\ Fairness

------------------------------------------------------------------------------
TypeOK ==
  /\ faultHandler \in FaultHandlers
  /\ lifeCycle \in LifeCycles
  /\ running \subseteq Actor
  /\ served \subseteq Actor
  /\ taken \subseteq Actor
  /\ \A a \in taken : mailbox[a] # <<>>
  /\ linked \in [Actor -> SUBSET Actor]
  /\ supervisor \in [Actor -> Actor \cup {None}]
  /\ mailbox \in [Actor -> Seq(Message)]
  /\ at \in [Actor -> {"idle", "user", "link", "unlink", "restart", "restarting",
                       "start", "stop", "forward", "failed", "report"}]
  /\ todo \in [Actor -> SUBSET Actor]
  /\ target \in [Actor -> Actor \cup {None}]
  /\ \A a \in Actor :
       at[a] \in {"link", "unlink", "restarting"} => target[a] \in Actor
  /\ exit \in [Actor -> Exit \cup {NoExit}]
  /\ \A a \in Actor : at[a] \in {"failed", "report", "forward"} => exit[a] \in Exit
  /\ {sends, fails, ops} \subseteq Nat
  /\ owed \subseteq Actor \X Actor

\* preRestart and postRestart never overlap the handling of a message of the
\* same actor, or another restart of it by a second supervisor.
RestartsAlone ==
  \A s \in Actor :
    at[s] = "restarting" =>
      /\ at[target[s]] = "idle"
      /\ \A t \in Actor : at[t] = "restarting" /\ target[t] = target[s] => t = s

\* s has taken a out of _linkedActors, and is about to reset its _supervisor.
Unlinking(s, a) == at[s] = "unlink" /\ target[s] = a

\* An actor that reports its failures to s is among those s restarts, starts
\* and stops, or s is in the middle of unlinking it, however links, failed links
\* and unlinks of several supervisors interleave; only a temporary actor may have
\* been dropped (Actor.scala:411-413, 426-427, 663).
ReportsToItsSupervisor ==
  \A a, s \in Actor :
    supervisor[a] = s /\ lifeCycle[a] # "temporary" =>
      a \in linked[s] \/ Unlinking(s, a)

Trapping       == {s \in Actor : TrapExit[s] # {}}
MaybePermanent == {a \in Actor : \E l \in LifeCycles : l[a] = "permanent"}

\* Every reported failure of a permanent actor leads to its restart, unless
\* the supervisor is stopped, is wedged, gives up a round of restarts that
\* fails, or unlinks the actor first.
FailureLeadsToRestart ==
  \A s \in Trapping : \A a \in MaybePermanent \ {s} :
    <<a, s>> \in owed ~> <<a, s>> \notin owed \/ s \notin served

\* What a supervisor does with a message ends, though it waits for the monitors
\* of others, which wait for more: supervisors in a tree do not deadlock.
HandlingEnds ==
  \A s \in Actor : Configured[s] # {} => (at[s] # "idle" ~> at[s] = "idle")

\* link: "Actor can only have one supervisor"
OneSupervisor ==
  \A a, s, t \in Actor : a \in linked[s] /\ a \in linked[t] => s = t
==============================================================================
