------------------------------ MODULE Ask_proofs ------------------------------
(***************************************************************************)
(* What holds of Ask for every set of actors and callers, every pool and   *)
(* every number of requests: a future is completed once, by the handler of *)
(* its own request, and a caller never misreads it.                        *)
(***************************************************************************)
EXTENDS Ask, SequenceTheorems, TLAPS

\* Nothing refers to a request that was not sent, or to the future of a request
\* that has none.
Known ==
  /\ Len(request) <= MaxRequest
  /\ \A a \in Actor : current[a] <= Len(request)
  /\ \A a \in Actor : \A i \in DOMAIN mailbox[a] : mailbox[a][i] \in Issued
  /\ \A p \in Process : waits[p] # 0 => future[waits[p]] # "none"
  /\ \A r \in Request : future[r] # "none" <=> r \in Issued /\ HasFuture(r)

\* While a handler runs, senderFuture is the future of its message, or none.
SenderFuture ==
  \A a \in Actor :
    senderFuture[a] # 0 =>
      /\ future[senderFuture[a]] # "none"
      /\ current[a] # 0 => senderFuture[a] = current[a]

\* Why a caller may stop waiting, and what it then knows.
Waiting ==
  /\ \A p \in Process :
       /\ stage[p] = "exception" => Completed(waits[p]) \/ waits[p] \in timedOut
       /\ stage[p] = "result" => \/ future[waits[p]] = "result"
                                 \/ waits[p] \in timedOut
  /\ \A r \in timedOut : r \in Issued /\ request[r].kind # "forever"
  /\ \A r \in Request \ Issued : outcome[r] = "pending"

IInv ==
  TypeOK /\ Known /\ SenderFuture /\ OwnAnswer /\ Waiting /\ HonestOutcome

------------------------------------------------------------------------------
LEMMA Initially == Init => IInv
<1> SUFFICES ASSUME Init PROVE IInv
  OBVIOUS
<1> USE PoolAssumption DEF Init
<1>1. request \in Seq([to : Actor, kind : Kind]) /\ Len(request) = 0
  OBVIOUS
<1>2. TypeOK
  <2>1. mailbox \in [Actor -> Seq(Request)]
    OBVIOUS
  <2>. QED
    BY <1>1, <2>1 DEF TypeOK, Request
<1>3. Known /\ SenderFuture /\ Waiting
  BY <1>1 DEF Known, SenderFuture, Waiting, Issued
<1>4. OwnAnswer /\ HonestOutcome
  BY <1>1 DEF OwnAnswer, HonestOutcome, Issued
<1>. QED
  BY <1>2, <1>3, <1>4 DEF IInv

------------------------------------------------------------------------------
(* Completing a future *)

\* What a step may do to the futures of the requests: the first completion
\* counts, and it is one by the request itself.
FuturesKept ==
  /\ future' \in [Request -> {"none", "open", "result", "exception"}]
  /\ producer' \in [Request -> 0 .. MaxRequest]
  /\ \A q \in Request :
       /\ future'[q] = "none" <=> future[q] = "none"
       /\ Completed(q) => future'[q] = future[q] /\ producer'[q] = producer[q]
       /\ Completed(q)' => Completed(q) \/ producer'[q] = q

LEMMA Completion ==
  ASSUME TypeOK, NEW r \in Request, NEW v \in {"result", "exception"},
         Complete(r, v, r), future[r] # "none"
  PROVE  FuturesKept
<1> USE DEF FuturesKept
<1>1. CASE Completed(r)
  BY <1>1 DEF TypeOK, Complete, Completed
<1>2. CASE ~Completed(r)
  <2>1. r \in 0 .. MaxRequest
    BY DEF Request
  <2>. QED
    BY <1>2, <2>1 DEF TypeOK, Complete, Completed
<1>. QED
  BY <1>1, <1>2

LEMMA NoCompletion == TypeOK /\ UNCHANGED <<future, producer>> => FuturesKept
BY DEF TypeOK, FuturesKept, Completed

\* The current request of an actor, and the one whose answer a process awaits.
LEMMA Requests ==
  ASSUME TypeOK, Known
  PROVE  /\ \A r \in Issued : r \in Request /\ request[r].kind \in Kind
         /\ \A a \in Actor : current[a] # 0 => current[a] \in Issued
         /\ \A p \in Process : waits[p] # 0 => waits[p] \in Issued
         /\ \A p \in Process : waits[p] # 0 => HasFuture(waits[p])
<1>1. Len(request) \in Nat /\ \A r \in Issued : request[r] \in [to : Actor, kind : Kind]
  <2>1. request \in Seq([to : Actor, kind : Kind])
    BY DEF TypeOK
  <2>. QED
    <3>1. Len(request) \in Nat
      BY <2>1
    <3>2. \A r \in 1 .. Len(request) : request[r] \in [to : Actor, kind : Kind]
      BY <2>1, ElementOfSeq
    <3>. QED
      BY <3>1, <3>2 DEF Issued
<1>2. \A r \in Issued : r \in Request /\ request[r].kind \in Kind
  BY <1>1, PoolAssumption DEF Known, Issued, Request
<1>3. \A a \in Actor : current[a] # 0 => current[a] \in Issued
  BY <1>1, PoolAssumption DEF TypeOK, Known, Issued
<1>4. \A p \in Process : waits[p] # 0 => waits[p] \in Issued /\ HasFuture(waits[p])
  <2>1. \A p \in Process : waits[p] # 0 => waits[p] \in Request
    BY PoolAssumption DEF TypeOK, Request
  <2>. QED
    BY <2>1 DEF Known
<1>. QED
  BY <1>2, <1>3, <1>4

------------------------------------------------------------------------------
(* Sending a message *)

LEMMA PostStep ==
  ASSUME IInv, NEW p \in Process, NEW a \in Actor, NEW k \in Kind, Post(p, a, k)
  PROVE  IInv' /\ \A q \in Request :
                    Completed(q) => future'[q] = future[q] /\ producer'[q] = producer[q]
<1> USE DEF callVars, handlerVars, IInv
<1>0. PICK r : r = Len(request) + 1
  OBVIOUS
<1>1. /\ r \in Request /\ r \notin Issued /\ Issued' = Issued \cup {r}
      /\ request' \in Seq([to : Actor, kind : Kind])
      /\ Len(request') = r
      /\ \A q \in Issued : request'[q] = request[q]
      /\ request'[r] = [to |-> a, kind |-> k]
  BY <1>0, PoolAssumption DEF Post, TypeOK, Known, Request, Issued
<1>2. future[r] = "none" /\ outcome[r] = "pending" /\ r \notin timedOut /\ r # 0
  BY <1>1 DEF Known, Waiting, TypeOK, Request
<1>3. /\ mailbox' \in [Actor -> Seq(Request)]
      /\ \A b \in Actor : \A i \in DOMAIN mailbox'[b] : mailbox'[b][i] \in Issued'
  <2>1. mailbox' = [mailbox EXCEPT ![a] = Append(@, r)]
    BY <1>0 DEF Post
  <2>. QED
    BY <1>1, <2>1 DEF TypeOK, Known
<1>4. \/ k = "oneway" /\ UNCHANGED <<future, waits, stage>>
      \/ /\ k # "oneway"
         /\ future' = [future EXCEPT ![r] = "open"]
         /\ waits' = [waits EXCEPT ![p] = r]
         /\ \E s \in {"void", "await"} : stage' = [stage EXCEPT ![p] = s]
  BY <1>0 DEF Post
<1>5. UNCHANGED <<transactional, current, senderFuture, wedged, producer, outcome,
                  timedOut, silent>>
  BY DEF Post
<1>6. /\ future' \in [Request -> {"none", "open", "result", "exception"}]
      /\ \A q \in Request \ {r} : future'[q] = future[q]
      /\ future'[r] \in {"none", "open"}
      /\ future'[r] = "open" <=> k # "oneway"
  BY <1>1, <1>2, <1>4 DEF TypeOK
<1>7. /\ waits' \in [Process -> 0 .. MaxRequest]
      /\ stage' \in [Process -> {"idle", "void", "await", "exception", "result"}]
      /\ \A q \in Process : stage'[q] = "idle" <=> waits'[q] = 0
      /\ \A q \in Process :
           stage'[q] \in {"exception", "result"} =>
             stage'[q] = stage[q] /\ waits'[q] = waits[q]
  <2>1. CASE UNCHANGED <<waits, stage>>
    BY <2>1 DEF TypeOK
  <2>2. ASSUME NEW s \in {"void", "await"}, waits' = [waits EXCEPT ![p] = r],
               stage' = [stage EXCEPT ![p] = s]
        PROVE  <1>7!:
    <3>1. r \in 0 .. MaxRequest
      BY <1>1 DEF Request
    <3>. QED
      BY <1>2, <2>2, <3>1 DEF TypeOK
  <2>. QED
    BY <1>4, <2>1, <2>2
<1>8. TypeOK'
  BY <1>1, <1>3, <1>5, <1>6, <1>7 DEF TypeOK
<1>9. Known'
  <2>1. Len(request') <= MaxRequest /\ \A b \in Actor : current'[b] <= Len(request')
    <3>1. \A b \in Actor : current[b] \in Nat /\ current[b] <= Len(request)
      BY PoolAssumption DEF TypeOK, Known
    <3>2. Len(request) \in Nat /\ r \in 1 .. MaxRequest
      BY <1>1 DEF TypeOK, Request
    <3>. QED
      BY <1>0, <1>1, <1>5, <3>1, <3>2, PoolAssumption
  <2>2. \A q \in Process : waits'[q] # 0 => future'[waits'[q]] # "none"
    <3>1. \A q \in Process : waits[q] # 0 => waits[q] \in Request \ {r}
      BY <1>1, Requests
    <3>2. \A q \in Process : waits[q] # 0 => future'[waits[q]] # "none"
      BY <1>6, <3>1 DEF Known
    <3>3. k # "oneway" => future'[r] # "none"
      BY <1>6
    <3>. QED
      BY <1>4, <3>2, <3>3 DEF TypeOK
  <2>3. \A q \in Request : future'[q] # "none" <=> q \in Issued' /\ HasFuture(q)'
    BY <1>1, <1>6 DEF Known, HasFuture
  <2>. QED
    BY <1>3, <2>1, <2>2, <2>3 DEF Known
<1>10. SenderFuture'
  BY <1>1, <1>2, <1>5, <1>6 DEF SenderFuture, TypeOK, Request
<1>11. /\ ~Completed(r) /\ ~Completed(r)'
       /\ \A q \in Request \ {r} : Completed(q)' <=> Completed(q)
  <2>1. ~Completed(r) /\ ~Completed(r)'
    BY <1>2, <1>6 DEF Completed
  <2>2. \A q \in Request \ {r} : Completed(q)' <=> Completed(q)
    BY <1>6 DEF Completed
  <2>. QED
    BY <2>1, <2>2
<1>12. OwnAnswer'
  <2>1. ASSUME NEW q \in Issued', Completed(q)'
        PROVE  HasFuture(q)' /\ producer'[q] = q
    <3>1. q \in Issued /\ q # r
      BY <1>1, <1>11, <2>1
    <3>2. Completed(q) /\ q \in Request
      BY <1>11, <2>1, <3>1, Requests
    <3>. QED
      BY <1>1, <1>5, <3>1, <3>2 DEF OwnAnswer, HasFuture
  <2>. QED
    BY <2>1 DEF OwnAnswer
<1>13. Waiting'
  <2>1. \A q \in Process : waits[q] # 0 => waits[q] \in Request \ {r}
    BY <1>1, Requests
  <2>2. ASSUME NEW q \in Process
        PROVE  /\ stage'[q] = "exception" =>
                    Completed(waits[q])' \/ waits'[q] \in timedOut'
               /\ stage'[q] = "result" =>
                    future'[waits'[q]] = "result" \/ waits'[q] \in timedOut'
    BY <1>5, <1>6, <1>7, <2>1 DEF Waiting, Completed, TypeOK
  <2>3. \A q \in timedOut' : q \in Issued' /\ request'[q].kind # "forever"
    BY <1>1, <1>5 DEF Waiting
  <2>4. \A q \in Request \ Issued' : outcome'[q] = "pending"
    BY <1>1, <1>5 DEF Waiting
  <2>. QED
    BY <2>2, <2>3, <2>4 DEF Waiting
<1>14. HonestOutcome'
  BY <1>1, <1>2, <1>5, <1>6, Requests DEF HonestOutcome, ActiveObject
<1>. QED
  BY <1>8, <1>9, <1>10, <1>11, <1>12, <1>13, <1>14, <1>5, <1>6
------------------------------------------------------------------------------
(* What the other steps keep *)

LEMMA OwnAnswerKept ==
  ASSUME TypeOK, Known, OwnAnswer, UNCHANGED request, FuturesKept
  PROVE  OwnAnswer'
<1>1. Issued' = Issued /\ \A r \in Issued : r \in Request
  BY Requests DEF Issued
<1>2. ASSUME NEW r \in Issued, Completed(r)' PROVE HasFuture(r) /\ producer'[r] = r
  <2>1. CASE Completed(r)
    BY <1>1, <2>1 DEF OwnAnswer, FuturesKept
  <2>2. CASE ~Completed(r)
    <3>1. producer'[r] = r /\ future'[r] # "none"
      BY <1>1, <1>2, <2>2 DEF FuturesKept, Completed
    <3>. QED
      BY <1>1, <3>1 DEF FuturesKept, Known
  <2>. QED
    BY <2>1, <2>2
<1>. QED
  BY <1>1, <1>2 DEF OwnAnswer, HasFuture

LEMMA KnownKept ==
  ASSUME TypeOK, Known, UNCHANGED request, FuturesKept,
         \A a \in Actor : current'[a] <= Len(request),
         \A a \in Actor : \A i \in DOMAIN mailbox'[a] : mailbox'[a][i] \in Issued,
         \A p \in Process : waits'[p] \in {0, waits[p]}
  PROVE  Known'
<1>1. \A p \in Process : waits[p] # 0 => waits[p] \in Request
  BY Requests
<1>2. \A p \in Process : waits'[p] # 0 => future'[waits'[p]] # "none"
  BY <1>1 DEF Known, FuturesKept
<1>. QED
  BY <1>2 DEF Known, FuturesKept, Issued, HasFuture

\* The callers are untouched.
LEMMA CallersKept ==
  ASSUME TypeOK, Known, Waiting, HonestOutcome, UNCHANGED <<request, callVars>>,
         FuturesKept
  PROVE  Waiting' /\ HonestOutcome'
<1> USE DEF callVars
<1>1. Issued' = Issued /\ \A r \in Issued : r \in Request
  BY Requests DEF Issued
<1>2. \A p \in Process : stage[p] # "idle" => waits[p] \in Request
  BY Requests DEF TypeOK
<1>3. \A r \in Request : /\ Completed(r) => Completed(r)'
                         /\ future[r] = "result" => future'[r] = "result"
                         /\ future[r] = "exception" => future'[r] = "exception"
  BY DEF FuturesKept, Completed
<1>4. Waiting'
  <2>1. ASSUME NEW p \in Process
        PROVE  /\ stage[p] = "exception" =>
                    Completed(waits[p])' \/ waits[p] \in timedOut
               /\ stage[p] = "result" =>
                    future'[waits[p]] = "result" \/ waits[p] \in timedOut
    BY <1>2, <1>3 DEF Waiting
  <2>. QED
    BY <1>1, <2>1 DEF Waiting, Completed
<1>5. HonestOutcome'
  BY <1>1, <1>3 DEF HonestOutcome, ActiveObject
<1>. QED
  BY <1>4, <1>5

LEMMA SenderFutureKept ==
  ASSUME TypeOK, Known, SenderFuture, FuturesKept, UNCHANGED senderFuture,
         \A a \in Actor : current'[a] \in {0, current[a]}
  PROVE  SenderFuture'
<1>1. \A a \in Actor : senderFuture[a] # 0 => senderFuture[a] \in Request
  BY PoolAssumption DEF TypeOK, Request
<1>. QED
  BY <1>1 DEF SenderFuture, FuturesKept

------------------------------------------------------------------------------
(* The steps of a caller *)

LEMMA CallerStepOK ==
  ASSUME IInv, NEW p \in Process, CallerStep(p)
  PROVE  IInv' /\ FuturesKept
<1> USE DEF callVars, handlerVars, IInv
<1>1. UNCHANGED <<transactional, request, handlerVars>> /\ stage[p] # "idle"
  BY DEF CallerStep, CompleteVoid, Awake, Timeout, ReadException, ReadResult
<1>2. waits[p] # 0 /\ waits[p] \in Request /\ waits[p] \in Issued
  BY <1>1, Requests DEF TypeOK
<1>3. FuturesKept
  <2>1. CASE CompleteVoid(p)
    <3>1. Complete(waits[p], "result", waits[p]) /\ future[waits[p]] # "none"
      BY <1>2, <2>1 DEF CompleteVoid, Known
    <3>. QED
      BY <1>2, <3>1, Completion
  <2>2. CASE ~CompleteVoid(p)
    BY <2>2, NoCompletion
    DEF CallerStep, Awake, Timeout, ReadException, ReadResult
  <2>. QED
    BY <2>1, <2>2
<1>4. /\ waits' \in [Process -> 0 .. MaxRequest]
      /\ stage' \in [Process -> {"idle", "void", "await", "exception", "result"}]
      /\ \A q \in Process : stage'[q] = "idle" <=> waits'[q] = 0
      /\ \A q \in Process : waits'[q] \in {0, waits[q]}
      /\ \A q \in Process \ {p} : stage'[q] = stage[q] /\ waits'[q] = waits[q]
      /\ outcome' \in [Request -> {"pending", "some", "none", "threw", "timeout"}]
      /\ timedOut' \subseteq Request
  <2>1. CASE \/ /\ \E l \in {"await", "exception", "result"} :
                    stage' = [stage EXCEPT ![p] = l]
                /\ UNCHANGED <<waits, outcome>>
                /\ timedOut' \in {timedOut, timedOut \cup {waits[p]}}
    BY <1>1, <1>2, <2>1 DEF TypeOK
  <2>2. CASE /\ \E v \in {"some", "none", "threw", "timeout"} :
                    Finish(p, waits[p], v)
             /\ timedOut' \in {timedOut, timedOut \cup {waits[p]}}
    BY <1>2, <2>2, PoolAssumption DEF TypeOK, Finish
  <2>. QED
    BY <2>1, <2>2
    DEF CallerStep, CompleteVoid, Awake, Timeout, ReadException, ReadResult
<1>5. TypeOK'
  BY <1>1, <1>3, <1>4 DEF TypeOK, FuturesKept
<1>6. Known' /\ SenderFuture' /\ OwnAnswer'
  <2>1. Known'
    BY <1>1, <1>3, <1>4, KnownKept DEF Known
  <2>. QED
    BY <1>1, <1>3, <2>1, SenderFutureKept, OwnAnswerKept
<1>7. Waiting' /\ HonestOutcome'
  <2>1. Issued' = Issued /\ \A q \in Process \ {p} : stage[q] # "idle" => waits[q] \in Request
    BY <1>1, Requests DEF TypeOK, Issued
  <2>2. CASE CompleteVoid(p)
    <3>1. UNCHANGED <<request, outcome, timedOut, waits>> /\ stage'[p] = "await"
      BY <2>2 DEF CompleteVoid, TypeOK
    <3>2. \A r \in Request : /\ Completed(r) => Completed(r)'
                             /\ future[r] = "result" => future'[r] = "result"
                             /\ future[r] = "exception" => future'[r] = "exception"
      BY <1>3 DEF FuturesKept, Completed
    <3>3. HonestOutcome'
      BY <2>1, <3>1, <3>2, Requests DEF HonestOutcome, ActiveObject
    <3>4. ASSUME NEW q \in Process
          PROVE  /\ stage'[q] = "exception" =>
                      Completed(waits[q])' \/ waits[q] \in timedOut
                 /\ stage'[q] = "result" =>
                      future'[waits[q]] = "result" \/ waits[q] \in timedOut
      <4>1. CASE q = p
        BY <3>1, <4>1
      <4>2. CASE q # p
        BY <1>4, <2>1, <3>2, <4>2 DEF Waiting, TypeOK
      <4>. QED
        BY <4>1, <4>2
    <3>5. Waiting'
      BY <2>1, <3>1, <3>4 DEF Waiting, Completed
    <3>. QED
      BY <3>3, <3>5
  <2>3. CASE Awake(p)
    <3>1. /\ UNCHANGED <<request, future, outcome, timedOut, waits>>
          /\ Completed(waits[p])
          /\ stage' = [stage EXCEPT ![p] = "exception"]
      BY <2>3 DEF Awake
    <3>2. HonestOutcome'
      BY <2>1, <3>1 DEF HonestOutcome, ActiveObject
    <3>3. Waiting'
      BY <2>1, <3>1 DEF Waiting, Completed, TypeOK
    <3>. QED
      BY <3>2, <3>3
  <2>4. CASE Timeout(p)
    <3>1. /\ UNCHANGED <<request, future>>
          /\ request[waits[p]].kind # "forever"
          /\ timedOut' = timedOut \cup {waits[p]}
      BY <2>4 DEF Timeout
    <3>2. CASE ActiveObject(waits[p]) /\ Finish(p, waits[p], "timeout")
      <4>1. HonestOutcome'
        BY <1>2, <2>1, <3>1, <3>2, Requests DEF HonestOutcome, ActiveObject, Finish, TypeOK
      <4>2. Waiting'
        BY <1>2, <2>1, <3>1, <3>2 DEF Waiting, Completed, Finish, TypeOK
      <4>. QED
        BY <4>1, <4>2
    <3>3. CASE stage' = [stage EXCEPT ![p] = "exception"] /\ UNCHANGED <<waits, outcome>>
      <4>1. HonestOutcome'
        BY <2>1, <3>1, <3>3 DEF HonestOutcome, ActiveObject
      <4>2. Waiting'
        BY <1>2, <2>1, <3>1, <3>3 DEF Waiting, Completed, TypeOK
      <4>. QED
        BY <4>1, <4>2
    <3>. QED
      BY <2>4, <3>2, <3>3 DEF Timeout
  <2>5. CASE ReadException(p)
    <3>1. UNCHANGED <<request, future, timedOut>> /\ stage[p] = "exception"
      BY <2>5 DEF ReadException
    <3>2. CASE future[waits[p]] = "exception" /\ Finish(p, waits[p], "threw")
      <4>1. HonestOutcome'
        BY <1>2, <2>1, <3>1, <3>2, Requests DEF HonestOutcome, ActiveObject, Finish, TypeOK
      <4>2. Waiting'
        BY <1>2, <2>1, <3>1, <3>2 DEF Waiting, Completed, Finish, TypeOK
      <4>. QED
        BY <4>1, <4>2
    <3>3. CASE /\ future[waits[p]] # "exception"
               /\ stage' = [stage EXCEPT ![p] = "result"]
               /\ UNCHANGED <<waits, outcome>>
      <4>1. HonestOutcome'
        BY <2>1, <3>1, <3>3 DEF HonestOutcome, ActiveObject
      <4>2. future[waits[p]] = "result" \/ waits[p] \in timedOut
        BY <3>1, <3>3 DEF Waiting, Completed
      <4>3. Waiting'
        BY <1>2, <2>1, <3>1, <3>3, <4>2 DEF Waiting, Completed, TypeOK
      <4>. QED
        BY <4>1, <4>3
    <3>. QED
      BY <2>5, <3>2, <3>3 DEF ReadException
  <2>6. CASE ReadResult(p)
    <3>1. /\ UNCHANGED <<request, future, timedOut>>
          /\ future[waits[p]] = "result" \/ waits[p] \in timedOut
      BY <2>6 DEF ReadResult, Waiting
    <3>2. PICK v \in {"some", "none"} :
            /\ Finish(p, waits[p], v)
            /\ v = "some" <=> future[waits[p]] = "result"
      BY <2>6 DEF ReadResult
    <3>3. HonestOutcome'
      BY <1>2, <2>1, <3>1, <3>2, Requests
      DEF HonestOutcome, ActiveObject, Finish, TypeOK, Waiting
    <3>4. Waiting'
      BY <1>2, <2>1, <3>1, <3>2 DEF Waiting, Completed, Finish, TypeOK
    <3>. QED
      BY <3>3, <3>4
  <2>. QED
    BY <2>2, <2>3, <2>4, <2>5, <2>6 DEF CallerStep
<1>. QED
  BY <1>3, <1>5, <1>6, <1>7

------------------------------------------------------------------------------
(* The steps of an actor *)

LEMMA ActorStepOK ==
  ASSUME IInv, NEW a \in Actor, Begin(a) \/ Reply(a) \/ Return(a) \/ Fail(a)
  PROVE  IInv' /\ FuturesKept
<1> USE DEF callVars, handlerVars, IInv
<1>1. UNCHANGED <<transactional, request, callVars>>
  BY DEF Begin, Reply, Return, Fail
<1>2. CASE Begin(a)
  <2>1. PICK r : r = Head(mailbox[a])
    OBVIOUS
  <2>2. /\ current[a] = 0 /\ mailbox[a] # <<>> /\ mailbox[a] \in Seq(Request)
        /\ current' = [current EXCEPT ![a] = r]
        /\ senderFuture' = [senderFuture EXCEPT ![a] = IF HasFuture(r) THEN r ELSE 0]
        /\ mailbox' = [mailbox EXCEPT ![a] = Tail(@)]
        /\ UNCHANGED <<wedged, future, producer, silent>>
    BY <1>2, <2>1 DEF Begin, TypeOK
  <2>3. /\ Tail(mailbox[a]) \in Seq(Request)
        /\ DOMAIN Tail(mailbox[a]) = 1 .. Len(mailbox[a]) - 1
        /\ \A i \in 1 .. Len(mailbox[a]) - 1 : Tail(mailbox[a])[i] = mailbox[a][i + 1]
        /\ Len(mailbox[a]) \in Nat \ {0} /\ r = mailbox[a][1]
        /\ DOMAIN mailbox[a] = 1 .. Len(mailbox[a])
    BY <2>1, <2>2
  <2>4. \A i \in DOMAIN Tail(mailbox[a]) : i + 1 \in DOMAIN mailbox[a]
    BY <2>3
  <2>5. /\ r \in Issued /\ r \in Request
        /\ \A i \in DOMAIN Tail(mailbox[a]) : Tail(mailbox[a])[i] \in Issued
    BY <2>3, <2>4, Requests DEF Known
  <2>6. r \in 0 .. MaxRequest /\ r # 0 /\ r <= Len(request)
    BY <2>5 DEF Request, Issued
  <2>7. FuturesKept
    BY <2>2, NoCompletion
  <2>8. TypeOK'
    BY <1>1, <2>2, <2>3, <2>6 DEF TypeOK
  <2>9. Known'
    <3>1. \A b \in Actor : current'[b] <= Len(request)
      BY <2>2, <2>6 DEF TypeOK, Known
    <3>2. \A b \in Actor : \A i \in DOMAIN mailbox'[b] : mailbox'[b][i] \in Issued
      BY <2>2, <2>5 DEF TypeOK, Known
    <3>. QED
      BY <1>1, <2>7, <3>1, <3>2, KnownKept
  <2>10. SenderFuture'
    <3>1. HasFuture(r) => future[r] # "none"
      BY <2>5 DEF Known
    <3>. QED
      BY <2>2, <3>1 DEF SenderFuture, TypeOK
  <2>. QED
    BY <1>1, <2>2, <2>7, <2>8, <2>9, <2>10, OwnAnswerKept, CallersKept
<1>3. CASE Reply(a)
  <2>1. /\ senderFuture[a] = current[a] /\ current[a] \in Request
        /\ future[current[a]] # "none"
        /\ Complete(current[a], "result", current[a])
        /\ UNCHANGED handlerVars
    BY <1>3, Requests DEF Reply, InControl, SenderFuture
  <2>2. FuturesKept
    BY <2>1, Completion
  <2>3. TypeOK' /\ Known'
    BY <1>1, <2>1, <2>2, KnownKept DEF TypeOK, Known, FuturesKept
  <2>. QED
    BY <1>1, <2>1, <2>2, <2>3, SenderFutureKept, OwnAnswerKept, CallersKept
<1>4. CASE Return(a) \/ Fail(a)
  <2>1. current[a] \in Issued /\ current[a] \in Request
    BY <1>4, Requests DEF Return, Fail, InControl
  <2>2. /\ current' = [current EXCEPT ![a] = 0]
        /\ UNCHANGED <<mailbox, senderFuture>>
        /\ wedged' \subseteq wedged \cup {a}
        /\ silent' \in {silent, silent \cup {current[a]}}
    BY <1>4 DEF Return, Fail, Abandoned
  <2>3. FuturesKept
    <3>1. CASE UNCHANGED <<future, producer>>
      BY <3>1, NoCompletion
    <3>2. CASE Complete(current[a], "exception", current[a]) /\ HasFuture(current[a])
      BY <2>1, <3>2, Completion DEF Known
    <3>. QED
      BY <1>4, <3>1, <3>2 DEF Return, Fail
  <2>4. \A b \in Actor : current'[b] \in {0, current[b]}
    BY <2>2 DEF TypeOK
  <2>5. TypeOK'
    BY <1>1, <2>1, <2>2, <2>3, PoolAssumption DEF TypeOK, FuturesKept
  <2>6. Known'
    <3>1. \A b \in Actor : current'[b] <= Len(request)
      <4>1. Len(request) \in Nat /\ current[a] \in Nat
        BY PoolAssumption DEF TypeOK
      <4>. QED
        BY <2>4, <4>1 DEF Known
    <3>2. \A b \in Actor : \A i \in DOMAIN mailbox'[b] : mailbox'[b][i] \in Issued
      BY <2>2 DEF Known
    <3>. QED
      BY <1>1, <2>3, <3>1, <3>2, KnownKept
  <2>. QED
    BY <1>1, <2>2, <2>3, <2>4, <2>5, <2>6, SenderFutureKept, OwnAnswerKept,
       CallersKept
<1>. QED
  BY <1>2, <1>3, <1>4

------------------------------------------------------------------------------
(* The theorems *)

\* Every step keeps the invariant, and futures that are completed.
LEMMA Step ==
  ASSUME IInv, [Next]_vars
  PROVE  /\ IInv'
         /\ \A r \in Request :
              Completed(r) => future'[r] = future[r] /\ producer'[r] = producer[r]
<1>1. CASE \E p \in Process, a \in Actor, k \in Kind : Post(p, a, k)
  BY <1>1, PostStep
<1>2. CASE \E p \in Process : CallerStep(p)
  BY <1>2, CallerStepOK DEF FuturesKept
<1>3. CASE \E a \in Actor : Begin(a) \/ Reply(a) \/ Return(a) \/ Fail(a)
  BY <1>3, ActorStepOK DEF FuturesKept
<1>4. CASE UNCHANGED vars
  BY <1>4 DEF vars, IInv, TypeOK, Known, SenderFuture, OwnAnswer, Waiting,
              HonestOutcome, Issued, HasFuture, ActiveObject, Completed
<1>. QED
  BY <1>1, <1>2, <1>3, <1>4 DEF Next

THEOREM Invariance == Spec => []IInv
<1>1. Init => IInv
  BY Initially
<1>2. IInv /\ [Next]_vars => IInv'
  BY Step
<1>. QED
  BY <1>1, <1>2, PTL DEF Spec

\* The state of Actor and of DefaultCompletableFutureResult is typed.
THEOREM TypeCorrect == Spec => []TypeOK
<1>1. IInv => TypeOK
  BY DEF IInv
<1>. QED
  BY <1>1, Invariance, PTL

\* The field senderFuture of an actor, which outlives the message it was set for,
\* never carries the answer to one message to the caller of another.
THEOREM AnswersMatch == Spec => []OwnAnswer
<1>1. IInv => OwnAnswer
  BY DEF IInv
<1>. QED
  BY <1>1, Invariance, PTL

\* The two critical sections of getResultOrThrowException, with a completion or
\* a timeout at any moment, never make a caller misread its future.
THEOREM OutcomesAreHonest == Spec => []HonestOutcome
<1>1. IInv => HonestOutcome
  BY DEF IInv
<1>. QED
  BY <1>1, Invariance, PTL

\* completeWithResult and completeWithException never overwrite a value, whoever
\* calls them: the handler, the catch block, or the caller of a void method.
THEOREM CompletedOnce == Spec => FirstCompletionWins
<1>1. IInv /\ [Next]_vars =>
        [\A r \in Request :
           Completed(r) => future'[r] = future[r] /\ producer'[r] = producer[r]]_vars
  BY Step
<1>. QED
  BY <1>1, Invariance, PTL DEF Spec, FirstCompletionWins
==============================================================================
