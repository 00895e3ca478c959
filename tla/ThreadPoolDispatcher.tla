------------------------- MODULE ThreadPoolDispatcher -------------------------
(***************************************************************************)
(* The default dispatcher of akka: EventBasedThreadPoolDispatcher with its *)
(* ReactiveMessageQueue and its EventBasedThreadPoolDemultiplexer, in the  *)
(* default (not concurrent) mode.                                          *)
(*                                                                         *)
(* Senders append invocations to one shared queue.  A selector thread      *)
(* drains the queue into its list of selected invocations, reserves one    *)
(* invocation of every receiver that is not busy, and submits it to a      *)
(* thread pool.  The thread that executes it invokes the receiver, frees   *)
(* it and wakes the selector up.                                           *)
(*                                                                         *)
(* The queue and the selected list are kept per receiver: the code only    *)
(* ever depends on the order of the invocations of one receiver (the pass  *)
(* over the list in `reserve' looks at every receiver, and the reserved    *)
(* ones are submitted in the order of a HashMap).  A message is its number *)
(* among the messages sent to its receiver.  The tasks of the pool are a   *)
(* set: its queue is first in first out, but a thread that the pool starts *)
(* for a new task begins with that task, before older ones that wait.      *)
(* A dispatcher is followed from its first start on; it is not started     *)
(* again after a shutdown.                                                 *)
(*                                                                         *)
(* An operator whose comment begins with `Mutant' is not part of the       *)
(* model: it is a mistake that the properties are shown to detect.         *)
(***************************************************************************)
EXTENDS Integers, FiniteSets, Sequences

CONSTANTS
  Actor,      \* the receivers registered with this dispatcher
  Thread,     \* the threads of the pool
  Selector,   \* the selector thread
  Capacity,   \* bound of the pool's queue of tasks
  Faulty,     \* the actors whose invoker may throw (see Actor.dispatch)
  MaxSend,    \* bound of the model: messages sent to each actor
  None        \* no task

ASSUME SelectorAssumption == Selector \notin Thread
ASSUME CapacityAssumption == Capacity \in Nat \ {0}
ASSUME FaultyAssumption   == Faulty \subseteq Actor
ASSUME MaxSendAssumption  == MaxSend \in Nat

Invocation == [to : Actor, n : Nat]

ASSUME NoneAssumption == None \notin Invocation

\* CallerRunsPolicy makes the selector execute a task the pool rejects.
Runner == Thread \cup {Selector}

VARIABLES
  queue,        \* ReactiveMessageQueue.queue, per receiver
  interrupted,  \* ReactiveMessageQueue.interrupted
  selected,     \* EventBasedThreadPoolDemultiplexer.selectedInvocations
  selector,     \* where the selector thread is in its loop
  reserved,     \* reservedInvocations not yet submitted to the pool
  busy,         \* busyInvokers
  handlers,     \* the keys of messageHandlers
  active,       \* MessageDispatcherBase.active
  stopping,     \* how far `shutdown' went
  pool,         \* tasks submitted and not yet begun
  phase,        \* phase[r]: where runner r is in the task's `run'
  task,         \* task[r]: the invocation r executes
  sent,         \* ghost: messages appended for each actor
  last          \* ghost: the last message each actor was invoked with

dispatcherVars == <<selector, active, stopping>>
queueVars      == <<queue, interrupted, sent>>
poolVars       == <<pool, phase, task, last>>
vars == <<queue, interrupted, selected, selector, reserved, busy, handlers,
          active, stopping, pool, phase, task, sent, last>>

\* The thread is between `invoke' and the end of `free'.
Holding(r) == phase[r] \in {"invoke", "free"}

InFlight(a) ==
  \/ \E x \in reserved \cup pool : x.to = a
  \/ \E r \in Runner : Holding(r) /\ task[r].to = a

Init ==
  /\ queue = [a \in Actor |-> <<>>]
  /\ interrupted = FALSE
  /\ selected = [a \in Actor |-> <<>>]
  /\ selector = "new"
  /\ reserved = {}
  /\ busy = {}
  /\ handlers = Actor
  /\ active = FALSE
  /\ stopping = "no"
  /\ pool = {}
  /\ phase = [r \in Runner |-> "idle"]
  /\ task = [r \in Runner |-> None]
  /\ sent = [a \in Actor |-> 0]
  /\ last = [a \in Actor |-> 0]

------------------------------------------------------------------------------
(* The senders and the owners of the actors *)

\* ReactiveMessageQueue.append, called by MessageInvocation.send.
Send(a) ==
  /\ sent[a] < MaxSend
  /\ queue' = [queue EXCEPT ![a] = Append(@, sent[a] + 1)]
  /\ sent' = [sent EXCEPT ![a] = @ + 1]
  /\ UNCHANGED <<interrupted, selected, reserved, busy, handlers,
                 dispatcherVars, poolVars>>

\* Actor.start calls it for every actor; only the first call does anything.
Start ==
  /\ selector = "new"
  /\ active' = TRUE
  /\ selector' = "select"
  /\ UNCHANGED <<selected, reserved, busy, handlers, stopping,
                 queueVars, poolVars>>

Register(a) ==
  /\ handlers' = handlers \cup {a}
  /\ UNCHANGED <<selected, reserved, busy, dispatcherVars, queueVars, poolVars>>

\* Actor.stop: the messages of a stay where they are.
Unregister(a) ==
  /\ handlers' = handlers \ {a}
  /\ UNCHANGED <<selected, reserved, busy, dispatcherVars, queueVars, poolVars>>

\* shutdown: active = false; selectorThread.interrupt
Shutdown ==
  /\ active
  /\ active' = FALSE
  /\ stopping' = "interrupted"
  /\ UNCHANGED <<selected, reserved, busy, handlers, selector,
                 queueVars, poolVars>>

\* doShutdown: executor.shutdownNow drops the tasks that have not begun.
DoShutdown ==
  /\ stopping = "interrupted"
  /\ stopping' = "terminated"
  /\ pool' = {}
  /\ UNCHANGED <<selected, reserved, busy, handlers, selector, active,
                 queueVars, phase, task, last>>

------------------------------------------------------------------------------
(* The selector thread *)

\* Mutant of Read: the list is replaced by what was drained.
ReadReplacing ==
  /\ selector = "select"
  /\ \/ /\ interrupted
        /\ interrupted' = FALSE
        /\ UNCHANGED <<queue, selected>>
     \/ /\ ~interrupted
        /\ \E a \in Actor : queue[a] # <<>>
        /\ selected' = queue
        /\ queue' = [a \in Actor |-> <<>>]
        /\ UNCHANGED interrupted
  /\ selector' = "reserve"
  /\ UNCHANGED <<reserved, busy, handlers, active, stopping, sent, poolVars>>

\* messageDemultiplexer.select, which returns from ReactiveMessageQueue.read:
\* a pending wake-up is consumed and then nothing is drained.
Read ==
  /\ selector = "select"
  /\ \/ /\ interrupted
        /\ interrupted' = FALSE
        /\ UNCHANGED <<queue, selected>>
     \/ /\ ~interrupted
        /\ \E a \in Actor : queue[a] # <<>>
        /\ selected' = [a \in Actor |-> selected[a] \o queue[a]]
        /\ queue' = [a \in Actor |-> <<>>]
        /\ UNCHANGED interrupted
  /\ selector' = "reserve"
  /\ UNCHANGED <<reserved, busy, handlers, active, stopping, sent, poolVars>>

\* queue.wait throws InterruptedException, which the loop catches.
ReadInterrupted ==
  /\ selector = "select"
  /\ stopping # "no"
  /\ ~interrupted
  /\ \A a \in Actor : queue[a] = <<>>
  /\ active' = FALSE
  /\ selector' = "reserve"
  /\ UNCHANGED <<selected, reserved, busy, handlers, stopping,
                 queueVars, poolVars>>

\* Mutant of Ready: busyInvokers is not looked at.
ReadyOrBusy == {a \in Actor : selected[a] # <<>>}

\* The receivers of which `reserve' takes an invocation: the first of each that
\* is not in busyInvokers.
Ready == {a \in Actor : selected[a] # <<>> /\ a \notin busy}

FirstOf(S) == {[to |-> a, n |-> Head(selected[a])] : a \in S}

\* Mutant of RemoveFirst: iterator.remove is forgotten.
RemoveNothing(S) == selected

RemoveFirst(S) ==
  [a \in Actor |-> IF a \in S THEN Tail(selected[a]) ELSE selected[a]]

\* reserve, when every invocation it looks up has an invoker.
Reserve ==
  /\ selector = "reserve"
  /\ Ready \subseteq handlers
  /\ reserved' = FirstOf(Ready)
  /\ busy' = busy \cup Ready
  /\ selected' = RemoveFirst(Ready)
  /\ selector' = "submit"
  /\ UNCHANGED <<handlers, active, stopping, queueVars, poolVars>>

\* reserve, when an invoker is missing: the IllegalStateException ends the
\* selector thread.  The receivers met before it in the list were already
\* marked busy and their invocations removed; `result' is lost with them.
ReserveFails ==
  /\ selector = "reserve"
  /\ ~(Ready \subseteq handlers)
  /\ \E S \in SUBSET (Ready \cap handlers) :
       /\ busy' = busy \cup S
       /\ selected' = RemoveFirst(S)
  /\ selector' = "dead"
  /\ UNCHANGED <<reserved, handlers, active, stopping, queueVars, poolVars>>

\* invoker.invoke is entered by runner r.
Enter(r, x) ==
  /\ phase' = [phase EXCEPT ![r] = "invoke"]
  /\ task' = [task EXCEPT ![r] = x]
  /\ last' = [last EXCEPT ![x.to] = x.n]

\* threadPoolBuilder.execute.  A pool that is shut down discards the task
\* (so does CallerRunsPolicy); a full pool makes the selector run it.
Submit(x) ==
  /\ selector = "submit"
  /\ phase[Selector] = "idle"
  /\ x \in reserved
  /\ reserved' = reserved \ {x}
  /\ \/ /\ stopping = "terminated"
        /\ UNCHANGED poolVars
     \/ /\ stopping # "terminated"
        /\ Cardinality(pool) < Capacity
        /\ pool' = pool \cup {x}
        /\ UNCHANGED <<phase, task, last>>
     \/ /\ stopping # "terminated"
        /\ Cardinality(pool) >= Capacity
        /\ Enter(Selector, x)
        /\ UNCHANGED pool
  /\ UNCHANGED <<selected, busy, handlers, dispatcherVars, queueVars>>

\* The end of the loop's body and the test `while (active)'.
NextRound ==
  /\ selector = "submit"
  /\ phase[Selector] = "idle"
  /\ reserved = {}
  /\ selector' = IF active THEN "select" ELSE "stopped"
  /\ UNCHANGED <<selected, reserved, busy, handlers, active, stopping,
                 queueVars, poolVars>>

------------------------------------------------------------------------------
(* The task: invoker.invoke(invocation); free(receiver); wakeUp *)

Take(t) ==
  /\ phase[t] = "idle"
  /\ \E x \in pool :
       /\ pool' = pool \ {x}
       /\ Enter(t, x)
  /\ UNCHANGED <<selected, reserved, busy, handlers, dispatcherVars, queueVars>>

\* Mutant of InvokeReturns: the receiver to free is forgotten.
InvokeReturnsForgetting(r) ==
  /\ phase[r] = "invoke"
  /\ phase' = [phase EXCEPT ![r] = "free"]
  /\ task' = [task EXCEPT ![r] = None]
  /\ UNCHANGED <<selected, reserved, busy, handlers, dispatcherVars, queueVars,
                 pool, last>>

InvokeReturns(r) ==
  /\ phase[r] = "invoke"
  /\ phase' = [phase EXCEPT ![r] = "free"]
  /\ UNCHANGED <<selected, reserved, busy, handlers, dispatcherVars, queueVars,
                 pool, task, last>>

\* The exception skips `free' and `wakeUp'.  The pool replaces its thread; in
\* the selector it leaves the loop, with what was still to be submitted.
InvokeThrows(r) ==
  /\ phase[r] = "invoke"
  /\ task[r].to \in Faulty
  /\ phase' = [phase EXCEPT ![r] = "idle"]
  /\ task' = [task EXCEPT ![r] = None]
  /\ \/ /\ r = Selector
        /\ selector' = "dead"
        /\ reserved' = {}
     \/ /\ r # Selector
        /\ UNCHANGED <<selector, reserved>>
  /\ UNCHANGED <<selected, busy, handlers, active, stopping, queueVars, pool,
                 last>>

\* Mutant of Free: the selector is not woken up afterwards.
FreeSilently(r) ==
  /\ phase[r] = "free"
  /\ busy' = busy \ {task[r].to}
  /\ phase' = [phase EXCEPT ![r] = "idle"]
  /\ task' = [task EXCEPT ![r] = None]
  /\ UNCHANGED <<selected, reserved, handlers, dispatcherVars, queueVars, pool,
                 last>>

Free(r) ==
  /\ phase[r] = "free"
  /\ busy' = busy \ {task[r].to}
  /\ phase' = [phase EXCEPT ![r] = "wake"]
  /\ task' = [task EXCEPT ![r] = None]
  /\ UNCHANGED <<selected, reserved, handlers, dispatcherVars, queueVars, pool,
                 last>>

\* Mutant of WakeUp: notifyAll without the flag.
WakeUpNotifying(r) ==
  /\ phase[r] = "wake"
  /\ phase' = [phase EXCEPT ![r] = "idle"]
  /\ UNCHANGED <<queueVars, selected, reserved, busy, handlers, dispatcherVars,
                 pool, task, last>>

\* messageDemultiplexer.wakeUp: ReactiveMessageQueue.interrupt
WakeUp(r) ==
  /\ phase[r] = "wake"
  /\ interrupted' = TRUE
  /\ phase' = [phase EXCEPT ![r] = "idle"]
  /\ UNCHANGED <<queue, sent, selected, reserved, busy, handlers,
                 dispatcherVars, pool, task, last>>

------------------------------------------------------------------------------
SelectorStep ==
  \/ Read
  \/ ReadInterrupted
  \/ Reserve
  \/ ReserveFails
  \/ \E x \in reserved : Submit(x)
  \/ NextRound

Run(r) == InvokeReturns(r) \/ InvokeThrows(r) \/ Free(r) \/ WakeUp(r)

Next ==
  \/ \E a \in Actor : Send(a) \/ Register(a) \/ Unregister(a)
  \/ Start
  \/ Shutdown
  \/ DoShutdown
  \/ SelectorStep
  \/ \E t \in Thread : Take(t)
  \/ \E r \in Runner : Run(r)

Spec == Init /\ [][Next]_vars

\* The JVM schedules every runnable thread, an idle pool thread takes a
\* waiting task and user code called by `invoke' ends.  Nothing makes anyone
\* send, start, stop or shut down.
Fairness ==
  /\ WF_vars(SelectorStep)
  /\ WF_vars(\E t \in Thread : Take(t))
  /\ \A r \in Runner : WF_vars(Run(r))

FairSpec == Spec /\ Fairness

------------------------------------------------------------------------------
TypeOK ==
  /\ queue \in [Actor -> Seq(Nat)]
  /\ interrupted \in BOOLEAN
  /\ selected \in [Actor -> Seq(Nat)]
  /\ selector \in {"new", "select", "reserve", "submit", "stopped", "dead"}
  /\ reserved \in SUBSET Invocation
  /\ busy \in SUBSET Actor
  /\ handlers \in SUBSET Actor
  /\ active \in BOOLEAN
  /\ stopping \in {"no", "interrupted", "terminated"}
  /\ pool \in SUBSET Invocation
  /\ phase \in [Runner -> {"idle", "invoke", "free", "wake"}]
  /\ task \in [Runner -> Invocation \cup {None}]
  /\ \A r \in Runner : Holding(r) => task[r] \in Invocation
  /\ sent \in [Actor -> Nat]
  /\ last \in [Actor -> Nat]

\* An actor is never invoked by two threads at once, nor is a second message
\* of it on its way to a thread: what `busyInvokers' is for.
OneAtATime ==
  /\ \A r, s \in Runner :
       Holding(r) /\ Holding(s) /\ task[r].to = task[s].to => r = s
  /\ \A x \in reserved \cup pool, r \in Runner :
       Holding(r) => task[r].to # x.to
  /\ \A x, y \in reserved \cup pool : x.to = y.to => x = y

\* The number of the last message of a that left the two lists.
Due(a) == sent[a] - Len(queue[a]) - Len(selected[a])

\* How the messages of an actor are accounted for: the lists hold the latest
\* ones without a gap; at most one message, and none of an actor that is not
\* busy, is between the lists and the threads; an invocation on its way to a
\* thread is the next one to begin; one being executed is the last begun; a
\* reserved invocation is handed to the pool once.  With TypeOK and OneAtATime
\* this is inductive.
ListsInOrder ==
  \A a \in Actor :
    /\ \A i \in 1 .. Len(queue[a]) :
         queue[a][i] = sent[a] - Len(queue[a]) + i
    /\ \A i \in 1 .. Len(selected[a]) : selected[a][i] = Due(a) + i

NothingBetween ==
  \A a \in Actor :
    /\ Due(a) \in {last[a], last[a] + 1}
    /\ a \notin busy => last[a] = Due(a)
    /\ selector = "new" => selected[a] = <<>>

WaitingIsNext ==
  \A x \in reserved \cup pool :
    x.to \in busy /\ x.n = last[x.to] + 1 /\ x.n = Due(x.to)

HeldIsLast ==
  \A r \in Runner :
    Holding(r) =>
      /\ task[r].to \in busy
      /\ task[r].n = last[task[r].to]
      /\ task[r].n = Due(task[r].to)

HandedOverOnce ==
  /\ reserved \cap pool = {}
  /\ selector # "submit" => reserved = {}

Accounting ==
  ListsInOrder /\ NothingBetween /\ WaitingIsNext /\ HeldIsLast /\ HandedOverOnce

\* The wake-up protocol loses nothing: whenever the selector is about to wait
\* (or on its way there) without a pending wake-up, every receiver that has a
\* selected invocation is busy, or a thread is about to wake the selector up.
NoLostWakeup ==
  selector \in {"submit", "select"} /\ ~interrupted =>
    \A a \in Actor :
      selected[a] # <<>> =>
        a \in busy \/ \E r \in Runner : phase[r] = "wake"

\* The dispatcher implements the mailboxes its actors are promised: it begins
\* the messages of an actor in the order of their sending, one at a time.
Promise == INSTANCE Mailboxes WITH
  running    <- {task[r].to : r \in {s \in Runner : phase[s] = "invoke"}},
  registered <- handlers

ImplementsMailboxes == Promise!Spec

\* busyInvokers holds the actor though nothing will ever free it.
Wedged(a) == a \in busy /\ ~InFlight(a)

\* A message that was sent and not begun is in the queue, in the selected list,
\* reserved or in the pool.  The one exception is the message of a wedged actor
\* that left the lists: its task was dropped by the pool that is shut down, or
\* was lost with the selector thread.
NothingForgotten ==
  \A a \in Actor : \A k \in last[a] + 1 .. sent[a] :
    \/ \E i \in 1 .. Len(queue[a]) : queue[a][i] = k
    \/ \E i \in 1 .. Len(selected[a]) : selected[a][i] = k
    \/ [to |-> a, n |-> k] \in reserved \cup pool
    \/ Wedged(a) /\ k = last[a] + 1

\* Every message reaches its actor unless the dispatcher was shut down, the
\* selector died or an invocation of this actor was lost: messages are not
\* forgotten in the selected list while the selector sleeps.
Progress ==
  \A a \in Actor : \A k \in 1 .. MaxSend :
    active /\ sent[a] >= k ~>
      last[a] >= k \/ ~active \/ selector = "dead" \/ Wedged(a)

\* Actor.scala: "It is beneficial to have actors share the same dispatcher"
\* and stop "Stops the actor and its message queue".  So an actor that is
\* never stopped is served, whatever happens to the others.
StopIsLocal ==
  \A a \in Actor : \A k \in 1 .. MaxSend :
    [](a \in handlers /\ a \notin Faulty) =>
      (active /\ sent[a] >= k ~> last[a] >= k \/ ~active)
==============================================================================
