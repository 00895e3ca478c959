# A verification project for Akka 0.6

TLA+ models of the actor library in `akka-actors` and of the persistent state in
`akka-persistence`, with the TLC runs that check them on small instances and the
TLAPS proofs that hold for every instance.
Paths below are relative to the repository; `Actor.scala:561` stands for
`akka-actors/src/main/scala/actor/Actor.scala`, line 561, and so on.

Check a run with `tlc -config X.cfg M`, a proof with `tlapm M_proofs.tla`.
`PROJECT.json` lists the runs, the theorems, the lines each definition models,
the hazards, and for every checked property a mutant (a plausible mistake) that
TLC shows to violate it. Mutants are operators whose comment begins with
"Mutant"; they are not part of any specification.

## 1. The system

| Component | State | Operations | What it talks to |
|---|---|---|---|
| Thread pool dispatcher (`EventBasedThreadPoolDispatcher`, `MessageDispatcherBase`) | shared queue with a wake-up flag, selected invocations, busy receivers, handler map, pool and its task queue, `active` | append, read, reserve, execute, free, wake up, (un)register, start, shutdown | senders, the selector thread, pool threads, `Actor.invoke` |
| Single thread dispatcher (`EventBasedSingleThreadDispatcher`) | queue, selected invocations, handler map | append, read, deliver, (un)register, start | the same, one thread |
| Thread based dispatcher (`ThreadBasedDispatcher`) | a blocking queue, `active`, the thread | append, take, start, shutdown | `Actor.start`, `Actor.stop` |
| Local calls (`Actor`, `Future.scala`, `ActiveObject`) | `senderFuture`, futures | `!`, `!!`, `!?`, `reply`, complete, await | a dispatcher, callers, the supervisor on failure |
| Supervision (`Actor`, `Supervisor`) | `_isRunning`, `_linkedActors`, `_supervisor`, life cycle, trap list, fault handler | link, unlink, startLink, Exit, restart, start, stop | the monitors and mailboxes of other actors |
| Remote (`RemoteClient`, `RemoteServer`) | clients per address, futures per request id, supervisors, actors on the server, channel state | send, messageReceived, channelClosed, exceptionCaught, createActor | Netty, local actors |
| STM (`Transaction`, `TransactionManagement`, `AtomicTemplate`) | transaction per thread, registered persistent state | atomic, commit, increment/decrement | Multiverse, `Actor.transactionalDispatch` |
| Persistent state (`PersistentState`) | change sets per transaction | put, remove, get, commit of map, vector, ref | the storage back ends |
| Collections (`HashTrie`, `Vector`) | persistent data structures | put, remove, get; add, update, pop, reverse, subVector | `TransactionalMap`, `TransactionalVector` |
| Dataflow (`DataFlowVariable`) | value, blocked readers | bind, read, shutdown, streams | actors of its own |
| AMQP | connection, channel, listeners | publish, deliver, register, shutdown signal, reconnect | the RabbitMQ client |
| Scheduler, registry, configuration, serialization, kernel, REST, Camel, storage clients, utilities | little or none | delegation | libraries |

What is hard in this code, and what each component has to get right:

* **Dispatchers.** Senders, the selector and the pool threads interleave at
  every lock boundary. Messages of one actor must be executed one at a time and
  in order; the wake-up flag must not lose a message; exceptions, stopped actors
  and shutdowns leave through the middle of a loop.
* **Calls.** The caller, the timer and the handler race for a future; the actor
  keeps the future in a field (`senderFuture`). An answer must belong to the
  request, and every call has to end.
* **Supervision.** Fields of one actor are read and written by the threads of
  others without a lock, while `start`, `stop`, `restart` and `invoke` hold
  monitors of one actor and wait for another's. A failure has to lead to a
  restart, the restart must not overlap a message, and the links must agree.
* **Remote.** Replies arrive after timeouts, out of the order of the calls, and
  with ids that two hosts share; the channel closes at any moment. A reply must
  reach its own call, and no caller with a timeout may hang.
* **STM and persistence.** An actor that is asked inside a transaction goes on
  after the caller's timeout; a block that is tried again keeps its transaction;
  the map of what a commit has to store has no lock; a commit is many calls of the
  storage, each of which may fail, and is repeated when others write meanwhile.
  The storage must have what was committed, and nothing that was undone.
* **Dataflow.** A reader blocks on a variable while it is being bound, and
  nothing is locked: the reader has to see the value or be told.
* **Collections.** Bit arithmetic at the boundaries of a level, and nodes that
  take the place of their parents.
* **AMQP.** Reconnection from two places.

`PROJECT.json` names each hazard with its line and the properties that cover it.

## 2. The modules

```
Mailboxes                     what a dispatcher promises (abstract)
   ^ implements         ^ implements
ThreadPoolDispatcher    SerialDispatchers

Ask   Supervision   Remote   Transactors      rest on the promise of Mailboxes:
                                              one message at a time, in order

SingleAssignment              what a dataflow variable promises (abstract)
   ^ implements
DataFlow

HashTrie   Vector             algorithms on data, against maps and sequences
```

`X_proofs` has the theorems about `X`; `MCX` is its instance for TLC.

**`Mailboxes`** numbers the messages of an actor and says that they are begun in
that order, one at a time, and that only an unregistered actor's message may be
discarded. It is the contract of the traits in `Reactor.scala`.

**`ThreadPoolDispatcher`** is the default dispatcher. `queue`/`interrupted` are
`ReactiveMessageQueue`, `selected` is the demultiplexer's list, `busy` is
`busyInvokers`, `reserved` the map that `reserve` returned and the selector has
not yet submitted, `pool` the task queue, `phase`/`task` the place of each
thread in the task's `run` (invoke, free, wake up). An action is what happens
between two lock boundaries. The queue and the list are kept per receiver,
because `reserve` depends on the order of one receiver's invocations only. A
full pool makes the selector run the task itself (`CallerRunsPolicy`); a pool
that is shut down drops it. `last` and `sent` are ghosts that count messages.

**`SerialDispatchers`** puts one shared single-thread dispatcher beside
dedicated thread-based ones, with `Actor.start` and `Actor.stop`. The shared
dispatcher's selector reads the handler map without its guard, so while a `put`
is going on (`registering`) a look-up may miss. Each start of a dedicated actor
makes a new thread (incarnation) with an interrupt status of its own; the flag
`active` is shared by all of them.

**`Ask`** follows the futures: `Post` is the message send of `!`, `!!`, `!?` or
of an active object's method, `Complete` is both completion methods,
`Timeout`/`Awake`/`ReadException`/`ReadResult` are the steps of the caller,
`Begin`/`Reply`/`Return`/`Fail` those of the callee. `transactional` chooses
between `dispatch` and `transactionalDispatch`, which differ in the order of
completing the future and telling the supervisor; `Orphaned` actors have a
stopped supervisor, whose `!` throws out of `invoke`. `silent` remembers every
`!?` whose handler ended and left the future open.

**`Supervision`** models links, exits and restarts. `at[a]` says what the thread
that executes a message of `a` is doing: user code, the second half of `link` or
of `unlink`, the loop of `restartLinkedActors` (`restart`, `restarting`), the loops of
`Supervisor.receive` (`start`, `stop`), or the two steps in which an exit is
reported (`_supervisor.isDefined`, then `_supervisor.get ! Exit`). An actor's
monitor is taken while `at[a] # "idle"` or somebody restarts it. `served`
loses an actor when its handler is unregistered by `stop` (a later `start` does
not register it again) or when an exception leaves `invoke`; both follow from
`ThreadPoolDispatcher`. A message that a thread of the pool has `taken` is
executed even if the actor is stopped before the thread gets the monitor. `owed`
is a ghost: who has to be restarted by whom.

**`Remote`** has one client per host (`connection`, `futures`, `supervisors` are
fields of `RemoteClient`, `nextId` is `RemoteRequestIdFactory.id`) and one
handler per channel at the server. `wire` and `replies` are the two directions
of the channel, in order; a channel that closes (`Cut`, in `Disconnect`, `Reject`
and `Choke`) loses any suffix of each. A caller takes an id (`Begin`), registers
its actor for the supervisor (`RegisterSupervisor`) and names it in the request
(`NameSupervisor`), two looks at a field that `Unlink` and `Link` of a supervisor's
thread change; it puts its future under the id (`PutFuture`), writes, and waits.
An actor on the server handles its `inbox` while the worker waits in
`actor !! message` (`serving`, `answer`), gives up at its own timeout and replies
with null. `Success`, `Report`, `Failure` and `Choke` are `messageReceived` of the
client: the future is completed; or its exception is first reported, to the
supervisor that the registered actor has then, and the future completed after
that (`reporting` in between); or the method throws and the channel closes.
Ghosts: `had`, `exits`, `written`, `executed`, `replied`, `producer`.

**`Transactors`** follows one transactional actor (`Root`) through its atomic
blocks. The block is the loop of `AtomicTemplate.executeChecked`: `Begin` makes the
Multiverse transaction and the `Transaction` once, `Undo` aborts an attempt,
`Restart` tries again in the same two (`tx[n]` is the transaction of attempt n),
`Fail` and `GiveUp` end the block with an exception, the latter after a restart
that leaves the transaction active, and `CommitInMemory` ends it well. What is
written in the transaction while attempt n runs is n, whoever writes it, so that an
element of the storage tells where it comes from.

`Ask` sends a message that takes the transaction along; after `TimeOut` the other
actor is still at work. A participant is `Inside` as long as the transaction that
its message brought is active: it writes in the attempt that runs then. When it has
ended, each operation on a reference begins a transaction of its own
(`noUsableTransaction`), and the thread has lost that of the block (`alone`): what
it writes is `Late` and commits at once. `Register` and `PutLands` are the two ends
of the `put` to the unsynchronised `persistentStateMap`: puts that overlap may lose
entries, and a commit that iterates meanwhile may pass over some (`missed`). `Read`
and `Write` are the two halves of an operation on a reference; one that reads in one
transaction and sets in another has `torn` its structure.

`Store` writes one registered structure to the storage, `CommitEnds` ends the STM
transaction that does so, and `Recommit` repeats it when others have written what it
reads or empties (`dirty`): in the same transaction, or without any, because
`clearTransaction` is part of what is repeated, and then `Empty` is a step of its
own. `StorageFails` is any call of the storage failing, done or not. Ghosts:
`committed`, `last`, `missed`, `torn`, `twice`. `AtomicTemplate` and all that is
above it are in the repository; Multiverse below it is external, and modelled by its
promise: a transaction sees its own writes and what had committed when it began,
its writes are seen by others when it commits and never when it aborts, and it does
not commit over a write of others. When it finds a conflict is left open: the
exception may come at any moment of the block, and lead to `Restart`, `Fail` or
`GiveUp`.

**`SingleAssignment`** and **`DataFlow`**: a variable is bound once and all who
read it get that value. In the code that takes an atomic reference (`value`), a
queue of blocked readers, an actor In per variable that binds it and goes through
the queue with a weakly consistent iterator (`phase`, `next`), and an actor Out
per reader that looks at the reference itself (`mailbox`, `reader`, `answer`). A
stream is a queue of variables.

**`HashTrie`** and **`Vector`** compute what the code computes, on records and
sequences: nodes with their bits and tables, `update` and `remove` of every kind
of node with the last child that takes its parent's place; the tree and the tail
of a vector, `pushTail`, `popTail`, `doAssoc`, and projections with their copies.
The number of bits that a level uses is a parameter. `Exact` in `HashTrie` is the
set of slots whose logarithm the code finds to be whole (`HashTrie.scala:247`):
not the last one, whose bits are a negative number, and not one that is rounded.

A method of a node calls the same method of its children. In `HashTrie` each such
method is a constant operator (`Get`, `Put`, `Without`, `Size`, `Elements`) with a
body (`GetBody`, ...) that calls it for a child; `MCCollections` and
`Collections.cfg` bind every one of them to its body, so that TLC evaluates the
recursion, and a theorem says what it needs of it (`Unfolds`, section 4).
`WellFormed` and `Depth` are given in the same way.

**`MC...`** modules define the small sets that the `.cfg` files name.

## 3. The runs

| Run | Configuration | Result |
|---|---|---|
| `thread_pool` | 2 actors, one may fail, 1 pool thread, queue of 1, 2 messages each | no error |
| `thread_pool_stop` | the same, nobody fails, 1 message each | `StopIsLocal` violated |
| `serial` | 2 actors on the shared thread, 1 dedicated, 2 + 1 + 2 messages, 1 start each | no error |
| `serial_restart` | 1 dedicated actor, 2 starts, 2 messages | `RestartedIsServed` violated |
| `ask` | a client, an active object that calls an actor, 3 messages, 2 threads | no error |
| `supervision` | supervisors `g` over `s` over `a1`, `a2`; 2 messages, 2 failures, 2 link/start/stop operations | no error |
| `one_supervisor` | the same tree, 1 message | `OneSupervisor` violated |
| `remote` | 2 hosts, calls `!!` and `!?` on two actors of one supervisor, `!` from the other host, one class; an actor unlinked and linked elsewhere | no error |
| `remote_reconnect` | 2 hosts, a `!!` and a `!?` with the same id | `Reconnects` violated |
| `dataflow` | 5 threads, 2 variables, a stream: bind, add, take, copy, shut down | no error |
| `transactors` | 2 actors, one with a reference, one with a map and a vector; 2 attempts of 2 changes, 1 failure | no error |
| `collections` | tries of 6 keys (2 with one hash, hashes of 5 bits, 2 per level, 5 levels of nodes); vectors of up to 11 elements in arrays of 2 (3 levels), projections of 5 elements, 2 deep | no error |

Deadlock checking is off in all but `collections`: a system without further
messages is at rest.

What the passing runs show:

* `OneAtATime`, `ImplementsMailboxes`, `NoLostWakeup`: the dispatchers keep the
  promise of `Mailboxes` in every interleaving, whatever fails or is stopped.
* `NothingForgotten`: until then it is in one of the lists or in the pool, but for
  one message of an actor that the pool's shutdown or the selector's death wedged.
* `Progress`: a sent message is begun, unless the dispatcher is shut down, its
  thread died, or this very actor was lost by an exception.
* `OwnAnswer`, `HonestOutcome`, `FirstCompletionWins`, `Answered`: a future is
  completed once, by the handler of its request; a caller gets nothing only
  after its timeout; only a caller of `!?` can wait for ever, and only for a
  handler that did not reply or an actor that was lost.
* `RestartsAlone`, `ReportsToItsSupervisor`: a restart excludes messages and
  other restarts of the actor; an actor that reports to a supervisor is in its
  set, or the supervisor stands between the two assignments of `unlink`; temporary
  actors are excepted, which are dropped from the set only. The converse does not
  hold: `link` puts an actor into the set that belongs to somebody else.
* `FailureLeadsToRestart`, `HandlingEnds`: a reported failure of a permanent
  actor leads to its restart; supervisors in a tree do not block each other.
* `OwnReply`, `ReplyFindsFuture`, `Accounted`, `InOrder`, `Reported`: a remote
  call gets the reply to its own request, the future is there before the reply,
  the client and the server lose nothing while the channel is open, requests are
  executed in order and once; an exception of a call that named a supervisor is
  reported once, before the caller learns of it, and only between supervisors and
  the registered actor that they have or had. It need not be the supervisor that
  the request named: the field is read again when the reply is there.
* `CallsReturn`: `!!` returns whatever happens to the connection, `!?` unless it
  closes, and no call is stuck before its request is written.
* `KeepsPromise`, `NoneLeftBehind`, `ReadersReturn`, `Binds`: a dataflow variable
  is bound once, no reader falls between its look at the reference and the pass
  through the queue, and readers of a bound variable return.
* `OnlyCommitted`, `Durable`, `NothingLost`: what was written in a block's
  transaction while an attempt ran is in the storage only if that attempt has
  committed, a late participant's changes too; as long as the storage has not
  failed it has, between two blocks, the `put`, `add` and `swap` that have
  committed; and whatever fails or is repeated, what it does not have is in the
  change sets. Excepted, because the code does not keep it:
  - `remove` has no effect (`PersistentState.scala:94` removes the key from the
    removed entries), and nothing here says that what was removed is gone;
  - a map that was cleared is cleared after its entries are inserted (73), at every
    later commit too: the three say nothing of its entries, `OnlyCommitted` apart;
  - `PersistentVector.update` writes to the storage at once (221), and that stays
    when the block is undone: such an element is `Overwritten`, and accepted;
  - what was registered while another was, or written outside of the block, may
    wait for a later commit (`missed`): `Durable` only;
  - a repeated commit, like one that comes after a failure, may store elements
    twice (`twice`): `Durable` for the first, `NothingLost` counts at least once;
  - a reference that a late `put` or `add` sets to what it had read in another
    transaction (`torn`): all three, for that structure, from then on.
* `OneKeyChanges`, `ElementsAreFound`: from every trie that is reachable, each put
  and each remove changes the map that the trie stands for at its key only, and
  `size` and `elements` agree with `get`.
* `ShapesOK`: the bits of a trie's nodes are those of its children; the leaves of
  a vector's tree are full and at one depth, and the tree is no higher than its
  elements need.
* `OneElementChanges`, `PopUndoesPlus`: the same as for tries for vectors and projections; a
  `pop` after a `+` gives the very same tree.

What the violated runs show:

* `thread_pool_stop`: `Actor.stop` unregisters the handler and leaves the
  actor's messages in the shared queue; `reserve` throws on the first of them
  and the selector thread of all the other actors ends.
* `serial_restart`: the InterruptedException of a stopped thread clears the flag
  of the thread that a second `start` created.
* `one_supervisor`: `link` adds the actor to `_linkedActors` before it refuses
  it. A later all-for-one round or stop of the second supervisor acts on an
  actor that is not its own, and `unlink` detaches it from the real one.
* `remote_reconnect`: `channelClosed` opens a new channel through the bootstrap,
  and `send` goes on writing to the one that was opened first.

Two more observations about the collections, which the model contains and no run
states as a property:

* A trie grows deeper than a hash has levels. When a node keeps one child only,
  the child takes its place with the shift of its own lower level
  (`HashTrie.scala:249`); keys that differ on the forgotten level then meet on
  all the levels below, and the levels begin again after the last. Nothing is
  found wrongly (`OneKeyChanges`), but levels are added by one key and taken away
  only by another: three keys put and removed in turn make the trie deeper
  without end, and every operation recurses to that depth. `MaxDepth` therefore
  is a bound of the model that the code does not have.
* A projection (`reverse`, `subVector`) inherits `pop` with the empty root and the
  empty tail of the constructor at `Vector.scala:57`: on more than one element
  `popTail` reads the last place of an empty array and throws
  ArrayIndexOutOfBoundsException (`DequeueThrows`). `TransactionalVector` makes no
  projections.

### Bounds

`MaxSend`, `MaxStart`, `MaxRequest`, `MaxFail`, `MaxOps` bound counters only in
guards of the outside's actions. Two messages per actor are enough for a message
to be overtaken and for one to be forgotten behind a busy receiver; one pool
thread and a queue of one make the pool full with two actors, and the selector
then is the second thread that executes actors. In `ask` three messages allow a
call, the call that its handler makes and a message that finds a stale
`senderFuture`. In `supervision` two operations allow an unlink followed by a
link elsewhere, and two failures an escalation during a round of restarts.

In `remote` each call is one request, so that the number of calls bounds ids,
wires and mailboxes; two calls of one host let a late reply of the first meet the
second, and share the supervisor's one place in `supervisors`; the second host
uses the same id at the same server. `MayUnlink` and `MayLink` bound who is
unlinked and to whom it is linked again: one of the two actors of the host may be
unlinked and linked by a second supervisor, so that a report comes before, between
and after these steps, and for a call of the other actor too. The constraint
`LinksOrTwoHosts` of the configuration keeps the product of these steps with those
of the second host out: either the links change or the second host connects. It
holds back steps without fairness only (`Unlink`, `Link`, `Connect`), so that the
behaviours which are left are behaviours of `Spec`, and `CallsReturn` is checked on
them. The proofs of the safety properties have neither bound. Two attempts in
`transactors` are one block that is tried again, or two blocks of which the second
finds the change sets and the late participant of the first; two changes are what a
race of registrations takes (`b` has two structures, `a` the third), or a repeated
commit, and one failure leaves a commit half done for the next block. In `dataflow` a second
binder, a stream and a shutdown meet one reader each; two readers of one variable
are those that may be told from the queue one after the other.

The hash trie grows without end (see above), so `MaxDepth` bounds it in the guard
of `Update`: five levels, where a hash has three. Two bits of five leave a
remainder, as five of thirty-two do; four keys fill a node (`FullNode`), two
collide, and one differs from these on the last level. `vector` reaches the
lengths at which a second and a third level are made and dropped (7 and 11);
`MaxViewed` and `MaxViews` bound projections.

### Fairness

Weak fairness is assumed of every thread of the dispatcher (the JVM schedules
runnable threads), of a pool thread taking a waiting task, of user code ending,
and of timers. Nobody is obliged to send, start, stop, link, fail or shut down.
Monitors are not fair in the JVM; in the bounded instances a monitor cannot be
kept busy for ever, so weak fairness of the waiting thread is enough.

In `Remote` the same holds of the thread of a call that was begun, of its timer,
of the I/O workers of both ends while there is something to read, of the `!!` of
the server, which ends at its timeout, and of Netty's timer. `PutFuture` has
strong fairness: it waits for the monitor of `futures`, which other calls take
and release again. No actor has to finish and no connection has to fail or stay.
In `DataFlow` a call that was begun goes on and an actor with a message runs.
`Transactors`, `HashTrie` and `Vector` state safety only.

## 4. The proofs

**`ThreadPoolDispatcher_proofs`** proves, for every finite or infinite set of
actors and threads, every capacity and bound, and any set of failing actors:

* `TypeCorrect`, `MutualExclusion`, `MessagesAccounted`, `WakeupsAreNotLost`:
  `Spec => []TypeOK`, `[]OneAtATime`, `[]NothingForgotten`, `[]NoLostWakeup`;
* `Implementation`: `Spec => Promise!Spec`, the refinement of `Mailboxes`.

`OneAtATime` is not inductive. The invariant adds `Accounting`: an invocation on
its way to a thread makes its receiver busy and is the next message to begin,
one being executed is the last begun, the lists hold the latest messages without
a gap, and at most one message of a receiver, and none if it is not busy, is in
between. `NothingForgotten` is read off it (`WhereMessagesAre`). `TypeOK`,
`OneAtATime` and `Accounting` together are inductive; each is preserved by one
lemma with a step per action. With it the refinement is a case analysis: `Enter`
is `Begin`, the end of `invoke` is `Finish`, handlers that come and go are
`Rebind`, and everything else stutters.

**`Ask_proofs`** proves, for every set of callers and actors, every call graph
and any number of requests, `AnswersMatch` (`[]OwnAnswer`), `OutcomesAreHonest`
(`[]HonestOutcome`), `CompletedOnce` (`FirstCompletionWins`) and `TypeCorrect`.
The invariant adds three parts: `Known` (only requests that were sent occur
anywhere, and exactly those that ask for an answer have a future),
`SenderFuture` (while a handler runs, `senderFuture` is its own future or none:
`dispatch` overwrites it with every message, which is why a stale one is never
completed) and `Waiting` (a caller stops waiting only with a completed future or
a timeout, and stands between the two critical sections of
`getResultOrThrowException` only with a result or a timeout). Each kind of step
is summarised by what it does to futures (`FuturesKept`).

**`Supervision_proofs`** proves, for every set of actors, every configuration of
supervisors, fault handlers and life cycles, `RestartsExclude`
(`[]RestartsAlone`), `LinksAgree` (`[]ReportsToItsSupervisor`) and
`TypeCorrect`. `RestartsAlone` is inductive with the types, because a thread only
leaves `idle`, and a restart only begins, with the monitor free.
`ReportsToItsSupervisor` needs `HalfLinked`: between the two assignments of
`link` the actor is in the supervisor's set. That is kept because only the
supervisor itself removes actors from its set, in `unlink` or for a temporary
actor, and it is busy linking. An actor that is just being unlinked
(`Unlinking`) is the exception in the property itself: its `_supervisor` is reset
by the thread that took it out of the set, whoever it names by then.

**`SerialDispatchers_proofs`** proves `TypeCorrect` and, for `MaxStart = 1`, the
refinement of the same `Mailboxes` (`Implementation`), for all sets of actors and
any number of messages and stops. The assumption is needed: an actor that was
started twice may have two threads at its queue. `SharedInOrder` says that the
selected invocations followed by the queue (`OnTheWay`) hold the messages of each
actor in order, from the one after the last begun to the last sent, without a
gap; `DedicatedInOrder` says the same of a thread and its blocking queue. Stops,
interrupts and skipped messages only discard from the front.

**`Remote_proofs`** proves `TypeCorrect` and `CallsGetTheirOwnReply`
(`[]OwnReply`), for any hosts, calls, actors and supervisors. Ids are unique per
host only, so the invariant says where they travel: the calls of one host have
different ids (`IdsDiffer`), a registered future belongs to the call with its id
(`Registered`), and what is on a channel or served for it is of that channel's
host, with its own id, and a result only if its handler gave one
(`OnItsChannel`). Closing a channel only shortens sequences.

Its second part is about delivery: `RepliesFindTheirFuture`
(`[]ReplyFindsFuture`), `NoCallIsLost` (`[]Accounted`), `RequestsInOrder`
(`[]InOrder`) and `FailuresAreReported` (`[]Reported`). None of them is inductive.
`Delivery` says where a call is: on the wire, at the worker or among the replies,
at one place at most and nowhere twice (`Once`); all that time its future is
registered (`Awaited`), and a registered future is open (`Unfinished`). With the
ids of the first part the reply then has one future to find. `Accounted` is the
other direction, kept by a step per action that moves a call. For the order,
`Seen` is what an instance has executed, has in its mailbox, or will get from the
wire: it holds what was written, in order and without repetition, and steps only
move the boundaries or lose a suffix; the proof speaks of segments of sequences
(`Segment`) and of the position of an element, never of a recursion. `Tags` and
`Names` follow the supervisor from the request to the report: the reply names the
one of its request, and an actor is registered only for supervisors that it had.
`Handling` keeps the reply that was reported at the head of its channel until the
future is completed.

**`DataFlow_proofs`** proves `TypeCorrect`, `VariablesKeepTheirPromise`, the
refinement of `SingleAssignment`, and `NobodyIsLeftBehind` (`[]NoneLeftBehind`).
`Told` is the heart of the first two: whoever stands in the queue of a variable
reads that variable, every message `Set` in the mailbox of its Out has the
variable's value, and every answer is that value. `Stages` says what a call has
got and is about at each stage. `NoneLeftBehind` is not inductive: when an Out
handles `Get` and sees no value, its thread must be in the queue. `Queued` says
that a thread that has passed `offer` is in the queue of a variable that is not
bound, since only `clear` empties it, after the binding; `Asked` that a `Get` in a
mailbox belongs to a thread that still waits, or to a bound variable.

**`Transactors_proofs`** proves `TypeCorrect`, `NothingElseIsStored`
(`[]OnlyCommitted`), `CommittedIsStored` (`[]Durable`) and
`FailedStorageLosesNothing` (`[]NothingLost`), for any actors, keys, attempts,
changes and failures. The types are inductive; the other three follow from `IInv`,
which has a part for each question:

* `Blocks`: at most one transaction is active, that of the open block, and `own`,
  what its attempt has changed, is empty when no attempt runs. So what was undone
  cannot come back, although its transaction does.
* `Registered`: what the attempt has changed, what a participant is about to change,
  and what a commit has to store or has stored, is registered with the transaction
  or was passed over (`missed`). A restart keeps this because it keeps the
  registrations.
* `MapInv`, `VectorInv`, `RefInv`: for a structure that is not torn, the change sets
  and the storage hold only committed attempts and late writes; together they make
  `last`; what the commit is about to empty and nobody has written since
  (`Stored`) is in the storage alone; and before the first failure, what is not
  missed waits only in a commit that will come to it.
* `Cleared`: `shouldClearOnCommit` is set only when a clear has committed.

A map or a reference can be stored twice without harm (`MergeTwice`); a vector
cannot, so `VectorInv` asks for an injection of the committed elements into those of
the storage and the change sets (`Covers`), which counts them without a sum
(`CoversCount`) and survives storing a prefix twice and overwriting elements. As long
as nothing has failed and no commit was repeated the elements match one by one
(`Matches`).

**`HashTrie_proofs`** proves `TypeCorrect` (`[]TypeOK`), `OneKeyChangesAtATime`
(`[]OneKeyChanges`) and `ElementsAreWhatIsFound` (`[]ElementsAreFound`) for any
keys, values and hash function, any width of a level and any depth. The hypothesis is `Unfolds`: on the nodes that the program makes
(`WellFormed`), and on the empty one, each operation is its body. The definitions
of `MCCollections` are like that: on a well-formed node the recursion of every
operation but `Put` goes to a child, of which there are finitely many levels, and
`Put` of a leaf or a bucket goes to the next level only while the two hashes have
the same bits, which ends. The assumptions are arithmetic: a slot is a place of a
table (`SlotAssumption`), and two hashes that differ do so at a level that is
reached from any level (`ApartAssumption`). The code shifts by 5 modulo 32, which
reaches every shift as 5 and 32 have no common factor; TLC evaluates both for 2 of
5 bits.

`TypeOK` alone would not do: that a table has a child where a bit is set says
nothing about which keys are below. `InPlace` adds that they belong in the slot.
It is needed where a remove lets the last child take the place of its table
(`HashTrie.scala:249`): the child was made for another level, and is right there
only because a key of another slot would not have been found in the table either.
`RightPut` and `RightRemoval` say of a node and its successor that the successor is
well-formed, finds the right value for every key, and, for a remove, is empty only
if the node had one element. A table is right when its children are, so that a
node of least depth that is not right cannot exist (`PutsRight`, `RemovesRight`). The depth
does not help when a leaf or a bucket moves down to make room, since neither has
one: `PutApart` takes the set of levels at which that goes wrong, which is closed
under the step to the next one, and contradicts `ApartAssumption`. `remove` decides
by `size == 1` (`HashTrie.scala:245`), so `TableSize` shows that a sum over the
children is 1 only if there is one child, with one element. That the elements of a
table are each there once again follows from `InPlace`: two children have no key in
common (`ElementsOfTable`, over the facts of concatenation in `JoinedFacts`).

The proofs rest on the named assumptions of the modules only (the selector is
not a pool thread, `None` is no invocation and no actor, the types of the
parameters), which TLC evaluates for the instances, on `MaxStart = 1` where it is
stated, and on `Unfolds` in `HashTrie_proofs`.

Every safety property that a run checks is proved, but for those of `Vector`. Only
model-checked are liveness, which the prover cannot treat (`Progress`, `Answered`,
`FailureLeadsToRestart`, `HandlingEnds`, `CallsReturn`,
`ReadersReturn`, `Binds`), and `Vector`, which is recursive (`OneElementChanges`,
`PopUndoesPlus`, and its part of `ShapesOK`).

## 5. What is not modelled

* Dispatchers: the concurrent mode of the pool dispatcher, two unsynchronized
  first starts of a shared dispatcher, a second start after a shutdown.
* Supervision: nested configuration, `Restart` and `HotSwap` messages from user
  code. `maxNrOfRetries` and `withinTimeRange` are ignored by the code and
  therefore by the model.
* Remote: shutting down clients and the server, conversions of arguments, the
  restart of actors on the server.
* Transactions: conflicts between blocks of several roots (a conflict may come at
  every step, but whose writes it is about is not modelled), `orElse`, `getOrWait`
  and its `RetryError`, handlers that call `atomic` themselves, one-way messages
  sent inside a transaction. Two threads in one Multiverse transaction are taken to
  do one operation of a reference at a time; that they see what the other has
  written, which no lock promises, is assumed but for `persistentStateMap`, where
  puts that overlap may lose entries (an entry twice in it, after a look-up that a
  resize has missed, is left out: the second would be stored from empty change
  sets). Too many retries of the commit's own transaction. What a removed entry
  would be. Reads of the persistent structures; the storage
  is what the traits of `Storage.scala` say. The back ends do not all keep to
  them: `CassandraStorage.scala:176` puts every entry under the same
  column family, so that the last of several entries replaces the others, and `MongoStorage` rewrites a map by a
  removal and an insertion.
* Collections: `filter`, `map`, `flatMap`, `zip` of vectors, which are loops over
  `apply` and `+`.
* AMQP, the scheduler, the registry, configuration, serialization, the kernel,
  REST, security, Camel and the utilities: they delegate to libraries, or hold a
  map behind one lock. What can go wrong in AMQP is what the RabbitMQ client does
  when a connection is shut down and opened again, which the source does not show.
* The JavaScript files under `docs/` and `deploy/` are generated documentation
  and third-party libraries (prototype, jQuery, a highlighter), not part of the
  program.

## 6. The plan

Done: the dispatchers with their abstract specification, calls, supervision,
remote calls, dataflow, transactions with persistent state, the collections; the
proofs of section 4.

Left:

1. The concurrent mode of the pool dispatcher, and two first starts at once.
2. Reads inside a transaction, over the change sets and the storage; blocks of
   several roots that conflict.
3. `Vector` in the form that `HashTrie` has, to prove its properties by induction
   on the height of the tree.
