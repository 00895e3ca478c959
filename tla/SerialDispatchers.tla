--------------------------- MODULE SerialDispatchers ---------------------------
(***************************************************************************)
(* The two dispatchers that use no pool, side by side as in an application *)
(* that uses both: one EventBasedSingleThreadDispatcher shared by several  *)
(* actors, and a ThreadBasedDispatcher of its own for each other actor.    *)
(*                                                                         *)
(* Actor.start and Actor.stop are part of the module, because they start   *)
(* and shut down the dispatcher of a dedicated actor.  A shared dispatcher *)
(* is never shut down by the actors, so it is not shut down here.          *)
(*                                                                         *)
(* An operator whose comment begins with `Mutant' is not part of the       *)
(* model: it is a mistake that the properties are shown to detect.         *)
(***************************************************************************)
EXTENDS Naturals, Sequences

CONSTANTS
  Shared,      \* the actors of the event-based dispatcher
  Dedicated,   \* the actors with a thread of their own
  Faulty,      \* the actors whose invoker may throw
  MaxSend,     \* bound of the model: MaxSend[a] messages are sent to actor a
  MaxStart     \* bound of the model: how often an actor is started

ASSUME ActorsAssumption == Shared \cap Dedicated = {}

Actor       == Shared \cup Dedicated
Incarnation == 1 .. MaxStart
Invocation  == [to : Shared, n : Nat]

ASSUME BoundsAssumption == MaxSend \in [Actor -> Nat] /\ MaxStart \in Nat

VARIABLES
  running,      \* Actor._isRunning
  starts,       \* how often the actor was started
  sent,         \* ghost: messages appended for each actor
  last,         \* ghost: the last message each actor was invoked with
  \* EventBasedSingleThreadDispatcher
  queue,        \* ReactiveMessageQueue.queue
  selected,     \* the demultiplexer's selectedQueue
  selector,     \* where the selector thread is
  handlers,     \* the keys of messageHandlers
  registering,  \* the actor whose `put' into messageHandlers is going on
  \* ThreadBasedDispatcher, of every dedicated actor
  mailbox,      \* BlockingMessageQueue.queue
  active,       \* ThreadBasedDispatcher.active
  at,           \* at[a][i]: where the i-th thread of a is
  got,          \* got[a][i]: the message that thread took
  interrupt     \* interrupt[a][i]: the thread's interrupt status

sharedVars    == <<queue, selected, selector>>
handlerVars   == <<handlers, registering>>
dedicatedVars == <<mailbox, active, at, got, interrupt>>
vars == <<running, starts, sent, last, queue, selected, selector, handlers,
          registering, mailbox, active, at, got, interrupt>>

Init ==
  /\ running = {}
  /\ starts = [a \in Actor |-> 0]
  /\ sent = [a \in Actor |-> 0]
  /\ last = [a \in Actor |-> 0]
  /\ queue = <<>>
  /\ selected = <<>>
  /\ selector = "new"
  /\ handlers = Shared
  /\ registering = {}
  /\ mailbox = [a \in Dedicated |-> <<>>]
  /\ active = [a \in Dedicated |-> FALSE]
  /\ at = [a \in Dedicated |-> [i \in Incarnation |-> "none"]]
  /\ got = [a \in Dedicated |-> [i \in Incarnation |-> 0]]
  /\ interrupt = [a \in Dedicated |-> [i \in Incarnation |-> FALSE]]

------------------------------------------------------------------------------
(* Actor.start, Actor.stop and the senders *)

\* `!' reads _isRunning and then appends: the actor may be stopped in between.
Send(a) ==
  /\ starts[a] > 0
  /\ sent[a] < MaxSend[a]
  /\ sent' = [sent EXCEPT ![a] = @ + 1]
  /\ \/ /\ a \in Shared
        /\ queue' = Append(queue, [to |-> a, n |-> sent[a] + 1])
        /\ UNCHANGED mailbox
     \/ /\ a \in Dedicated
        /\ mailbox' = [mailbox EXCEPT ![a] = Append(@, sent[a] + 1)]
        /\ UNCHANGED queue
  /\ UNCHANGED <<running, starts, last, selected, selector, handlerVars, active,
                 at, got, interrupt>>

\* EventBasedSingleThreadDispatcher.start: a later call finds it active.
StartShared(a) ==
  /\ selector' = IF selector = "new" THEN "select" ELSE selector
  /\ UNCHANGED dedicatedVars

\* Mutant of StartDedicated: `active' is set before it is tested.
StartDedicatedTooLate(a) ==
  /\ active' = [active EXCEPT ![a] = TRUE]
  /\ UNCHANGED <<selector, mailbox, at, got, interrupt>>

\* ThreadBasedDispatcher.start: a new thread, unless `active' is still set.
StartDedicated(a) ==
  /\ active' = [active EXCEPT ![a] = TRUE]
  /\ at' = IF active[a] THEN at ELSE [at EXCEPT ![a][starts[a] + 1] = "test"]
  /\ UNCHANGED <<selector, mailbox, got, interrupt>>

Start(a) ==
  /\ a \notin running
  /\ starts[a] < MaxStart
  /\ running' = running \cup {a}
  /\ starts' = [starts EXCEPT ![a] = @ + 1]
  /\ \/ a \in Shared /\ StartShared(a)
     \/ a \in Dedicated /\ StartDedicated(a)
  /\ UNCHANGED <<sent, last, queue, selected, handlerVars>>

\* unregisterHandler; the handler map is guarded, so it waits for a `put'.
StopShared(a) ==
  /\ registering = {}
  /\ handlers' = handlers \ {a}
  /\ UNCHANGED <<active, interrupt>>

\* ThreadBasedDispatcher.shutdown interrupts the thread started last.
StopDedicated(a) ==
  /\ active' = [active EXCEPT ![a] = FALSE]
  /\ interrupt' = IF active[a] THEN [interrupt EXCEPT ![a][starts[a]] = TRUE]
                               ELSE interrupt
  /\ UNCHANGED handlers

Stop(a) ==
  /\ a \in running
  /\ running' = running \ {a}
  /\ \/ a \in Shared /\ StopShared(a)
     \/ a \in Dedicated /\ StopDedicated(a)
  /\ UNCHANGED <<starts, sent, last, sharedVars, registering, mailbox, at, got>>

------------------------------------------------------------------------------
(* EventBasedSingleThreadDispatcher *)

\* registerHandler holds the guard; the selector looks a handler up without it.
RegisterBegin(a) ==
  /\ registering = {}
  /\ registering' = {a}
  /\ UNCHANGED <<running, starts, sent, last, sharedVars, handlers, dedicatedVars>>

RegisterEnd ==
  /\ registering # {}
  /\ handlers' = handlers \cup registering
  /\ registering' = {}
  /\ UNCHANGED <<running, starts, sent, last, sharedVars, dedicatedVars>>

\* messageDemultiplexer.select; nobody interrupts this queue.
Select ==
  /\ selector = "select"
  /\ queue # <<>>
  /\ selected' = selected \o queue
  /\ queue' = <<>>
  /\ selector' = "deliver"
  /\ UNCHANGED <<running, starts, sent, last, handlerVars, dedicatedVars>>

Invoke ==
  /\ selector = "deliver"
  /\ selected # <<>>
  /\ Head(selected).to \in handlers
  /\ selector' = "invoke"
  /\ last' = [last EXCEPT ![Head(selected).to] = Head(selected).n]
  /\ UNCHANGED <<running, starts, sent, queue, selected, handlerVars,
                 dedicatedVars>>

\* messageHandlers.get returns null: the message is skipped.  While a `put'
\* enlarges the map's table, an unguarded `get' may miss any key.
Skip ==
  /\ selector = "deliver"
  /\ selected # <<>>
  /\ Head(selected).to \notin handlers \/ registering # {}
  /\ selected' = Tail(selected)
  /\ last' = [last EXCEPT ![Head(selected).to] = Head(selected).n]
  /\ UNCHANGED <<running, starts, sent, queue, selector, handlerVars,
                 dedicatedVars>>

\* Mutant of InvokeReturns: the next message is invoked without hasNext.
InvokeReturnsGreedily ==
  /\ selector = "invoke"
  /\ selected' = Tail(selected)
  /\ UNCHANGED <<running, starts, sent, last, queue, selector, handlerVars,
                 dedicatedVars>>

\* Mutant of InvokeReturns: iter.remove is missing.
InvokeReturnsKeeping ==
  /\ selector = "invoke"
  /\ selector' = "deliver"
  /\ UNCHANGED <<running, starts, sent, last, queue, selected, handlerVars,
                 dedicatedVars>>

InvokeReturns ==
  /\ selector = "invoke"
  /\ selected' = Tail(selected)
  /\ selector' = "deliver"
  /\ UNCHANGED <<running, starts, sent, last, queue, handlerVars, dedicatedVars>>

\* Nothing catches the exception: the only thread of the dispatcher ends.
InvokeThrows ==
  /\ selector = "invoke"
  /\ Head(selected).to \in Faulty
  /\ selector' = "dead"
  /\ UNCHANGED <<running, starts, sent, last, queue, selected, handlerVars,
                 dedicatedVars>>

NextRound ==
  /\ selector = "deliver"
  /\ selected = <<>>
  /\ selector' = "select"
  /\ UNCHANGED <<running, starts, sent, last, queue, selected, handlerVars,
                 dedicatedVars>>

------------------------------------------------------------------------------
(* ThreadBasedDispatcher: the i-th thread started for actor a *)

Goto(a, i, l) == at' = [at EXCEPT ![a][i] = l]

\* while (active)
Test(a, i) ==
  /\ at[a][i] = "test"
  /\ Goto(a, i, IF active[a] THEN "take" ELSE "done")
  /\ UNCHANGED <<running, starts, sent, last, sharedVars, handlerVars, mailbox,
                 active, got, interrupt>>

TakeMessage(a, i) ==
  /\ at[a][i] = "take"
  /\ ~interrupt[a][i]
  /\ mailbox[a] # <<>>
  /\ got' = [got EXCEPT ![a][i] = Head(mailbox[a])]
  /\ mailbox' = [mailbox EXCEPT ![a] = Tail(@)]
  /\ Goto(a, i, "enter")
  /\ UNCHANGED <<running, starts, sent, last, sharedVars, handlerVars, active,
                 interrupt>>

\* LinkedBlockingQueue.take tests the interrupt status before anything else;
\* the loop answers the exception with active = false, whoever set it last.
TakeInterrupted(a, i) ==
  /\ at[a][i] = "take"
  /\ interrupt[a][i]
  /\ interrupt' = [interrupt EXCEPT ![a][i] = FALSE]
  /\ active' = [active EXCEPT ![a] = FALSE]
  /\ Goto(a, i, "test")
  /\ UNCHANGED <<running, starts, sent, last, sharedVars, handlerVars, mailbox,
                 got>>

\* Actor.invoke is synchronized: two threads of one actor exclude each other.
Enter(a, i) ==
  /\ at[a][i] = "enter"
  /\ \A j \in Incarnation : at[a][j] # "invoke"
  /\ last' = [last EXCEPT ![a] = got[a][i]]
  /\ Goto(a, i, "invoke")
  /\ UNCHANGED <<running, starts, sent, sharedVars, handlerVars, mailbox, active,
                 got, interrupt>>

\* User code that blocks may consume the thread's interrupt status.
Return(a, i) ==
  /\ at[a][i] = "invoke"
  /\ \E consumed \in BOOLEAN :
       interrupt' =
         [interrupt EXCEPT ![a][i] = IF consumed THEN FALSE ELSE @]
  /\ Goto(a, i, "test")
  /\ UNCHANGED <<running, starts, sent, last, sharedVars, handlerVars, mailbox,
                 active, got>>

Throw(a, i) ==
  /\ at[a][i] = "invoke"
  /\ a \in Faulty
  /\ Goto(a, i, "dead")
  /\ UNCHANGED <<running, starts, sent, last, sharedVars, handlerVars, mailbox,
                 active, got, interrupt>>

------------------------------------------------------------------------------
SelectorStep ==
  Select \/ Invoke \/ Skip \/ InvokeReturns \/ InvokeThrows \/ NextRound

ThreadStep(a, i) ==
  \/ Test(a, i)
  \/ TakeMessage(a, i)
  \/ TakeInterrupted(a, i)
  \/ Enter(a, i)
  \/ Return(a, i)
  \/ Throw(a, i)

Next ==
  \/ \E a \in Actor : Send(a) \/ Start(a) \/ Stop(a)
  \/ \E a \in Shared : RegisterBegin(a)
  \/ RegisterEnd
  \/ SelectorStep
  \/ \E a \in Dedicated, i \in Incarnation : ThreadStep(a, i)

Spec == Init /\ [][Next]_vars

\* Every started thread is scheduled and user code ends.
Fairness ==
  /\ WF_vars(SelectorStep)
  /\ \A a \in Dedicated, i \in Incarnation : WF_vars(ThreadStep(a, i))

FairSpec == Spec /\ Fairness

------------------------------------------------------------------------------
TypeOK ==
  /\ running \subseteq Actor
  /\ starts \in [Actor -> 0 .. MaxStart]
  /\ sent \in [Actor -> Nat]
  /\ last \in [Actor -> Nat]
  /\ queue \in Seq(Invocation)
  /\ selected \in Seq(Invocation)
  /\ selector \in {"new", "select", "deliver", "invoke", "dead"}
  /\ selector = "invoke" => selected # <<>>
  /\ handlers \subseteq Shared
  /\ registering \subseteq Shared
  /\ mailbox \in [Dedicated -> Seq(Nat)]
  /\ active \in [Dedicated -> BOOLEAN]
  /\ at \in [Dedicated -> [Incarnation ->
              {"none", "test", "take", "enter", "invoke", "done", "dead"}]]
  /\ got \in [Dedicated -> [Incarnation -> Nat]]
  /\ interrupt \in [Dedicated -> [Incarnation -> BOOLEAN]]

Executing ==
  {a \in Shared : selector = "invoke" /\ Head(selected).to = a} \cup
  {a \in Dedicated : \E i \in Incarnation : at[a][i] = "invoke"}

\* Both dispatchers keep the promise of Mailboxes as long as no actor is
\* started twice.  While a handler is being put into the map, none counts as
\* registered: see Skip.
Promise == INSTANCE Mailboxes WITH
  running    <- Executing,
  registered <- Dedicated \cup (IF registering = {} THEN handlers ELSE {})

ImplementsMailboxes == Promise!Spec

Died(a) ==
  \/ a \in Shared /\ selector = "dead"
  \/ a \in Dedicated /\ \E i \in Incarnation : at[a][i] = "dead"

\* A message sent to a running actor is taken from its mailbox unless the
\* actor is stopped or the thread that serves it has died of an exception.
Progress ==
  \A a \in Actor : \A k \in 1 .. MaxSend[a] :
    a \in running /\ sent[a] >= k ~>
      last[a] >= k \/ a \notin running \/ Died(a)

\* Actor.start: "Starts up the actor and its message queue".  After a stop and
\* a second start too, a running actor with a thread of its own is served.
RestartedIsServed ==
  \A a \in Dedicated :
    a \in running /\ mailbox[a] # <<>> ~>
      mailbox[a] = <<>> \/ a \notin running \/ Died(a)
==============================================================================
