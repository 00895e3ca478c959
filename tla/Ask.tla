--------------------------------- MODULE Ask ---------------------------------
(***************************************************************************)
(* Synchronous calls between local actors: `!!' with its timeout, `!?',    *)
(* `reply' through Actor.senderFuture, DefaultCompletableFutureResult, the *)
(* calls of active objects, and what Actor.invoke does with the exception  *)
(* of a handler.                                                           *)
(*                                                                         *)
(* An actor executes one message at a time (Mailboxes) on a thread of a    *)
(* pool, which it keeps while its handler waits for an answer.  The module *)
(* follows the futures and who completes them; the payload of a message is *)
(* its request.                                                            *)
(*                                                                         *)
(* An operator whose comment begins with `Mutant' is not part of the       *)
(* model: it is a mistake that the properties are shown to detect.         *)
(***************************************************************************)
EXTENDS Naturals, Sequences, FiniteSets

CONSTANTS
  Client,       \* threads that are not actors
  Actor,
  Wrapper,      \* the actors behind an active object (ActiveObject.Dispatcher)
  Callee,       \* Callee[a]: the actors that the handlers of a call
  ActorKind,    \* the kinds of call that handlers make
  Orphaned,     \* the actors whose supervisor has been stopped
  PoolSize,     \* threads of the dispatcher that the actors share
  MaxRequest    \* bound of the model: messages sent in all

\* `!', `!!', `!?', and the methods of an active object that return nothing or
\* something.
KindsOf(a) == IF a \in Wrapper THEN {"oneway", "void", "call"}
                                ELSE {"oneway", "ask", "forever"}

Kind == UNION {KindsOf(a) : a \in Actor}

Process == Client \cup Actor

ASSUME ProcessAssumption == Client \cap Actor = {}
ASSUME CalleeAssumption  == Callee \in [Actor -> SUBSET Actor]
ASSUME WrapperAssumption == Wrapper \subseteq Actor
ASSUME PoolAssumption    == PoolSize \in Nat \ {0} /\ MaxRequest \in Nat
ASSUME OrphanAssumption  == Orphaned \subseteq Actor

VARIABLES
  transactional,  \* TransactionManagement.isTransactionalityEnabled
  request,        \* the messages sent so far; a request is its index
  mailbox,        \* mailbox[a]: the requests waiting for a
  current,        \* current[a]: the request that a is executing, or 0
  senderFuture,   \* senderFuture[a]: the request whose future it is, or 0
  wedged,         \* the actors that no thread will execute any more
  future,         \* future[r]: the future of request r
  producer,       \* producer[r]: the request whose handler completed future r
  waits,          \* waits[p]: the request whose answer p waits for, or 0
  stage,          \* stage[p]: how far p is in `!!' or `!?'
  outcome,        \* outcome[r]: what the caller of r got
  timedOut,       \* the requests whose caller met its timeout
  silent          \* ghost: the `!?' whose handler ended and left them open

callVars    == <<waits, stage, outcome, timedOut>>
handlerVars == <<mailbox, current, senderFuture, wedged, silent>>
vars == <<transactional, request, mailbox, current, senderFuture, wedged, future,
          producer, waits, stage, outcome, timedOut, silent>>

Request     == 1 .. MaxRequest
Issued      == 1 .. Len(request)
HasFuture(r) == request[r].kind # "oneway"
ActiveObject(r) == request[r].kind \in {"void", "call"}

Init ==
  /\ transactional \in BOOLEAN
  /\ request = <<>>
  /\ mailbox = [a \in Actor |-> <<>>]
  /\ current = [a \in Actor |-> 0]
  /\ senderFuture = [a \in Actor |-> 0]
  /\ wedged = {}
  /\ future = [r \in Request |-> "none"]
  /\ producer = [r \in Request |-> 0]
  /\ waits = [p \in Process |-> 0]
  /\ stage = [p \in Process |-> "idle"]
  /\ outcome = [r \in Request |-> "pending"]
  /\ timedOut = {}
  /\ silent = {}

------------------------------------------------------------------------------
(* DefaultCompletableFutureResult *)

Completed(r) == future[r] \in {"result", "exception"}

\* Mutant of Complete: a future that is completed is completed again.
CompleteAgain(r, value, by) ==
  /\ future' = [future EXCEPT ![r] = value]
  /\ producer' = [producer EXCEPT ![r] = by]

\* completeWithResult and completeWithException: only the first one counts.
Complete(r, value, by) ==
  IF Completed(r)
  THEN UNCHANGED <<future, producer>>
  ELSE /\ future' = [future EXCEPT ![r] = value]
       /\ producer' = [producer EXCEPT ![r] = by]

------------------------------------------------------------------------------
(* The caller: Actor.!, Actor.!!, Actor.!? *)

\* User code of p is running: a client's, or the handler of an actor.
InControl(p) ==
  /\ waits[p] = 0
  /\ p \in Actor => current[p] # 0

MayCall(p, a, k) ==
  /\ k \in KindsOf(a)
  /\ p \in Actor => k \in ActorKind /\ a \in Callee[p]

Post(p, a, k) ==
  /\ InControl(p)
  /\ MayCall(p, a, k)
  /\ Len(request) < MaxRequest
  /\ LET r == Len(request) + 1
     IN  /\ request' = Append(request, [to |-> a, kind |-> k])
         /\ mailbox' = [mailbox EXCEPT ![a] = Append(@, r)]
         /\ IF k = "oneway"
            THEN UNCHANGED <<future, waits, stage>>
            ELSE /\ future' = [future EXCEPT ![r] = "open"]
                 /\ waits' = [waits EXCEPT ![p] = r]
                 /\ stage' = [stage EXCEPT ![p] =
                                IF k = "void" THEN "void" ELSE "await"]
  /\ UNCHANGED <<transactional, current, senderFuture, wedged, producer, outcome,
                 timedOut, silent>>

\* The caller of a void method completes the future itself, after the message
\* is in the mailbox: the handler may have been faster.
CompleteVoid(p) ==
  /\ stage[p] = "void"
  /\ Complete(waits[p], "result", waits[p])
  /\ stage' = [stage EXCEPT ![p] = "await"]
  /\ UNCHANGED <<transactional, request, waits, outcome, timedOut, handlerVars>>

\* Mutant of Awake: `if' for `while' around the wait.
AwakeSpuriously(p) ==
  /\ stage[p] = "await"
  /\ stage' = [stage EXCEPT ![p] = "exception"]
  /\ UNCHANGED <<transactional, request, future, producer, waits, outcome,
                 timedOut, handlerVars>>

\* await and awaitBlocking return once the future is completed.
Awake(p) ==
  /\ stage[p] = "await"
  /\ Completed(waits[p])
  /\ stage' = [stage EXCEPT ![p] = "exception"]
  /\ UNCHANGED <<transactional, request, future, producer, waits, outcome,
                 timedOut, handlerVars>>

\* Mutant of Finish: the caller is not done with the call.
FinishHalf(p, r, v) ==
  /\ outcome' = [outcome EXCEPT ![r] = v]
  /\ waits' = [waits EXCEPT ![p] = 0]
  /\ UNCHANGED stage

Finish(p, r, v) ==
  /\ outcome' = [outcome EXCEPT ![r] = v]
  /\ waits' = [waits EXCEPT ![p] = 0]
  /\ stage' = [stage EXCEPT ![p] = "idle"]

\* await throws FutureTimeoutException, even when the future was completed as
\* the time ran out.  `!!' rethrows it to the caller of an active object only.
\* When the time ran out before await began, it returns without an exception.
Timeout(p) ==
  /\ stage[p] = "await"
  /\ request[waits[p]].kind # "forever"
  /\ timedOut' = timedOut \cup {waits[p]}
  /\ \/ /\ ActiveObject(waits[p])
        /\ Finish(p, waits[p], "timeout")
     \/ /\ stage' = [stage EXCEPT ![p] = "exception"]
        /\ UNCHANGED <<waits, outcome>>
  /\ UNCHANGED <<transactional, request, future, producer, handlerVars>>

\* getResultOrThrowException looks at the exception first and then, in a
\* second critical section, at the result.
ReadException(p) ==
  /\ stage[p] = "exception"
  /\ IF future[waits[p]] = "exception"
     THEN Finish(p, waits[p], "threw")
     ELSE /\ stage' = [stage EXCEPT ![p] = "result"]
          /\ UNCHANGED <<waits, outcome>>
  /\ UNCHANGED <<transactional, request, future, producer, timedOut, handlerVars>>

ReadResult(p) ==
  /\ stage[p] = "result"
  /\ Finish(p, waits[p], IF future[waits[p]] = "result" THEN "some" ELSE "none")
  /\ UNCHANGED <<transactional, request, future, producer, timedOut, handlerVars>>

------------------------------------------------------------------------------
(* The callee: dispatch, transactionalDispatch and reply *)

\* Mutant of Begin: a message without a future leaves the last one in place.
BeginStale(a) ==
  /\ a \notin wedged
  /\ current[a] = 0
  /\ mailbox[a] # <<>>
  /\ Cardinality({b \in Actor : current[b] # 0}) < PoolSize
  /\ LET r == Head(mailbox[a])
     IN  /\ current' = [current EXCEPT ![a] = r]
         /\ senderFuture' =
              [senderFuture EXCEPT ![a] = IF HasFuture(r) THEN r ELSE @]
  /\ mailbox' = [mailbox EXCEPT ![a] = Tail(@)]
  /\ UNCHANGED <<transactional, request, wedged, future, producer, silent,
                 callVars>>

\* senderFuture = future
Begin(a) ==
  /\ a \notin wedged
  /\ current[a] = 0
  /\ mailbox[a] # <<>>
  /\ Cardinality({b \in Actor : current[b] # 0}) < PoolSize
  /\ LET r == Head(mailbox[a])
     IN  /\ current' = [current EXCEPT ![a] = r]
         /\ senderFuture' =
              [senderFuture EXCEPT ![a] = IF HasFuture(r) THEN r ELSE 0]
  /\ mailbox' = [mailbox EXCEPT ![a] = Tail(@)]
  /\ UNCHANGED <<transactional, request, wedged, future, producer, silent,
                 callVars>>

Reply(a) ==
  /\ InControl(a)
  /\ senderFuture[a] # 0
  /\ Complete(senderFuture[a], "result", current[a])
  /\ UNCHANGED <<transactional, request, handlerVars, callVars>>

\* The handler of a ends without an answer.
Abandoned(a) ==
  IF request[current[a]].kind = "forever" /\ ~Completed(current[a])
  THEN silent \cup {current[a]}
  ELSE silent

\* The handler of an active object's method ends with a reply.
Return(a) ==
  /\ InControl(a)
  /\ ActiveObject(current[a]) => Completed(current[a])
  /\ silent' = Abandoned(a)
  /\ current' = [current EXCEPT ![a] = 0]
  /\ UNCHANGED <<transactional, request, mailbox, senderFuture, wedged, future,
                 producer, callVars>>

\* Mutant of Fail: the exception does not reach the future.
FailSilently(a) ==
  /\ InControl(a)
  /\ wedged' = wedged \cup ({a} \cap Orphaned)
  /\ current' = [current EXCEPT ![a] = 0]
  /\ UNCHANGED <<transactional, request, mailbox, senderFuture, silent, future,
                 producer, callVars>>

\* Sending Exit to a stopped supervisor throws, out of invoke and through the
\* dispatcher.  `dispatch' does it before it would complete the future,
\* `transactionalDispatch' after it has.
Fail(a) ==
  /\ InControl(a)
  /\ IF HasFuture(current[a]) /\ (transactional \/ a \notin Orphaned)
     THEN Complete(current[a], "exception", current[a])
     ELSE UNCHANGED <<future, producer>>
  /\ silent' = IF ~transactional /\ a \in Orphaned THEN Abandoned(a) ELSE silent
  /\ wedged' = wedged \cup ({a} \cap Orphaned)
  /\ current' = [current EXCEPT ![a] = 0]
  /\ UNCHANGED <<transactional, request, mailbox, senderFuture, callVars>>

------------------------------------------------------------------------------
CallerStep(p) ==
  CompleteVoid(p) \/ Awake(p) \/ Timeout(p) \/ ReadException(p) \/ ReadResult(p)

Next ==
  \/ \E p \in Process, a \in Actor, k \in Kind : Post(p, a, k)
  \/ \E p \in Process : CallerStep(p)
  \/ \E a \in Actor : Begin(a) \/ Reply(a) \/ Return(a) \/ Fail(a)

Spec == Init /\ [][Next]_vars

\* Timers run, threads are scheduled and handlers end, unless they wait.
Fairness ==
  /\ \A p \in Process : WF_vars(CallerStep(p))
  /\ \A a \in Actor : WF_vars(Begin(a)) /\ WF_vars(Return(a) \/ Fail(a))

FairSpec == Spec /\ Fairness

------------------------------------------------------------------------------
TypeOK ==
  /\ transactional \in BOOLEAN
  /\ request \in Seq([to : Actor, kind : Kind])
  /\ mailbox \in [Actor -> Seq(Request)]
  /\ current \in [Actor -> 0 .. MaxRequest]
  /\ senderFuture \in [Actor -> 0 .. MaxRequest]
  /\ wedged \subseteq Actor
  /\ future \in [Request -> {"none", "open", "result", "exception"}]
  /\ producer \in [Request -> 0 .. MaxRequest]
  /\ waits \in [Process -> 0 .. MaxRequest]
  /\ stage \in [Process -> {"idle", "void", "await", "exception", "result"}]
  /\ \A p \in Process : stage[p] = "idle" <=> waits[p] = 0
  /\ outcome \in [Request -> {"pending", "some", "none", "threw", "timeout"}]
  /\ timedOut \subseteq Request
  /\ silent \subseteq Request

\* Whatever future a handler finds in senderFuture, the answer a caller reads
\* was produced for its own request, never for another message of the actor.
OwnAnswer ==
  \A r \in Issued : Completed(r) => HasFuture(r) /\ producer[r] = r

\* A caller sees nothing only after its timeout, never sees a completed future
\* as empty, and `!?' always has something to return.  (For the caller of an
\* active object nothing is the IllegalStateException `No result defined'.)
HonestOutcome ==
  \A r \in Issued :
    /\ outcome[r] = "some" => future[r] = "result"
    /\ outcome[r] = "threw" => future[r] = "exception"
    /\ outcome[r] = "none" => request[r].kind # "forever" /\ r \in timedOut
    /\ outcome[r] = "timeout" => ActiveObject(r)

\* A future that is completed keeps its value, however many replies, late
\* failures and void completions follow.
FirstCompletionWins ==
  [][\A r \in Request :
       Completed(r) => future'[r] = future[r] /\ producer'[r] = producer[r]]_vars

\* A message that no thread will ever execute.
Unserved(q) ==
  \E i \in DOMAIN mailbox[request[q].to] :
    request[q].to \in wedged /\ mailbox[request[q].to][i] = q

\* Every call returns.  Only `!?' may wait for ever, and only if some handler
\* left a `!?' without an answer or some message waits for a wedged actor: no
\* reply and no exception gets lost otherwise, and callers that wait for each
\* other do not stop.
Answered ==
  \A r \in Request :
    r \in Issued /\ HasFuture(r) ~>
      \/ outcome[r] # "pending"
      \/ /\ r \in Issued /\ request[r].kind = "forever"
         /\ silent # {} \/ \E q \in Issued : Unserved(q)
==============================================================================
