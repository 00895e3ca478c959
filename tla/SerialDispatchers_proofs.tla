------------------------ MODULE SerialDispatchers_proofs ------------------------
(***************************************************************************)
(* Proofs about SerialDispatchers, for any actors and any number of        *)
(* messages: the types, and that the two dispatchers keep the promise of   *)
(* Mailboxes as long as no actor is started twice.                         *)
(*                                                                         *)
(* The argument for an actor of the shared thread: what is in the          *)
(* selector's list and then in the queue are its messages in the order of  *)
(* their sending, from the one after that begun last, or from that one     *)
(* while it is executed.  The argument for an actor with a thread of its   *)
(* own: the mailbox ends with the last message sent and has no gap, and    *)
(* what the thread has taken but not begun comes just before it.           *)
(***************************************************************************)
EXTENDS SerialDispatchers, SequenceTheorems, TLAPS

LEMMA Rest ==
  ASSUME NEW S, NEW s \in Seq(S), s # <<>>
  PROVE  /\ Tail(s) \in Seq(S) /\ Head(s) \in S /\ Head(s) = s[1]
         /\ Len(s) \in Nat \ {0} /\ Len(Tail(s)) = Len(s) - 1
         /\ \A i \in 1 .. Len(s) - 1 : Tail(s)[i] = s[i + 1]
<1>1. Head(s) = s[1]
  OBVIOUS
<1> QED
  BY <1>1, HeadTailProperties, EmptySeq

------------------------------------------------------------------------------
(* Types *)

LEMMA TypeInit == Init => TypeOK
  BY BoundsAssumption DEF Init, TypeOK, Actor

LEMMA TypeOutside ==
  ASSUME TypeOK, NEW a \in Actor, Send(a) \/ Start(a) \/ Stop(a)
  PROVE  TypeOK'
<1> USE BoundsAssumption DEF Actor, TypeOK, sharedVars, handlerVars, dedicatedVars
<1>1. CASE Send(a)
  <2>1. [to |-> a, n |-> sent[a] + 1] \in Invocation \/ a \notin Shared
    BY DEF Invocation
  <2>2. CASE a \in Shared /\ queue' = Append(queue, [to |-> a, n |-> sent[a] + 1])
                          /\ UNCHANGED mailbox
    BY <1>1, <2>1, <2>2 DEF Send
  <2>3. CASE a \in Dedicated /\ UNCHANGED queue
             /\ mailbox' = [mailbox EXCEPT ![a] = Append(@, sent[a] + 1)]
    BY <1>1, <2>3 DEF Send
  <2> QED
    BY <1>1, <2>2, <2>3 DEF Send
<1>2. CASE Start(a)
  <2>1. starts[a] + 1 \in Incarnation /\ starts' \in [Actor -> 0 .. MaxStart]
    BY <1>2 DEF Start, Incarnation
  <2>2. CASE a \in Shared /\ StartShared(a)
    BY <1>2, <2>1, <2>2 DEF Start, StartShared
  <2>3. CASE a \in Dedicated /\ StartDedicated(a)
    BY <1>2, <2>1, <2>3 DEF Start, StartDedicated
  <2> QED
    BY <1>2, <2>2, <2>3 DEF Start
<1>3. CASE Stop(a)
  <2>1. CASE a \in Shared /\ StopShared(a)
    BY <1>3, <2>1 DEF Stop, StopShared
  <2>2. CASE a \in Dedicated /\ StopDedicated(a)
    BY <1>3, <2>2 DEF Stop, StopDedicated
  <2> QED
    BY <1>3, <2>1, <2>2 DEF Stop
<1> QED
  BY <1>1, <1>2, <1>3

LEMMA TypeSelector == ASSUME TypeOK, SelectorStep PROVE TypeOK'
<1> USE DEF Actor, TypeOK, handlerVars, dedicatedVars
<1>1. selected # <<>> =>
        /\ Tail(selected) \in Seq(Invocation)
        /\ Head(selected).to \in Actor /\ Head(selected).n \in Nat
  <2> SUFFICES ASSUME selected # <<>>
               PROVE  Tail(selected) \in Seq(Invocation) /\ Head(selected) \in Invocation
    BY DEF Invocation
  <2> QED
    BY Rest
<1>2. CASE Select
  <2>1. selected' \in Seq(Invocation) /\ queue' \in Seq(Invocation)
    BY <1>2, ConcatProperties DEF Select
  <2> QED
    BY <1>2, <2>1 DEF Select
<1>3. CASE Invoke
  BY <1>1, <1>3 DEF Invoke
<1>4. CASE Skip
  BY <1>1, <1>4 DEF Skip
<1>5. CASE InvokeReturns
  BY <1>1, <1>5 DEF InvokeReturns
<1>6. CASE InvokeThrows
  BY <1>6 DEF InvokeThrows
<1>7. CASE NextRound
  BY <1>7 DEF NextRound
<1> QED
  BY <1>2, <1>3, <1>4, <1>5, <1>6, <1>7 DEF SelectorStep

LEMMA TypeHandlers ==
  ASSUME TypeOK, (\E a \in Shared : RegisterBegin(a)) \/ RegisterEnd
  PROVE  TypeOK'
<1> USE DEF TypeOK, sharedVars, dedicatedVars
<1>1. CASE \E a \in Shared : RegisterBegin(a)
  BY <1>1 DEF RegisterBegin
<1>2. CASE RegisterEnd
  BY <1>2 DEF RegisterEnd
<1> QED
  BY <1>1, <1>2

LEMMA TypeThread ==
  ASSUME TypeOK, NEW a \in Dedicated, NEW i \in Incarnation, ThreadStep(a, i)
  PROVE  TypeOK'
<1> USE DEF Actor, TypeOK, sharedVars, handlerVars
<1>1. CASE Test(a, i)
  BY <1>1 DEF Test, Goto
<1>2. CASE TakeMessage(a, i)
  <2>1. Head(mailbox[a]) \in Nat /\ Tail(mailbox[a]) \in Seq(Nat)
    BY <1>2, Rest DEF TakeMessage
  <2> QED
    BY <1>2, <2>1 DEF TakeMessage, Goto
<1>3. CASE TakeInterrupted(a, i)
  BY <1>3 DEF TakeInterrupted, Goto
<1>4. CASE Enter(a, i)
  BY <1>4 DEF Enter, Goto
<1>5. CASE Return(a, i)
  <2>1. PICK consumed \in BOOLEAN :
          interrupt' = [interrupt EXCEPT ![a][i] = IF consumed THEN FALSE ELSE @]
    BY <1>5 DEF Return
  <2>2. interrupt' \in [Dedicated -> [Incarnation -> BOOLEAN]]
    BY <2>1
  <2> QED
    BY <1>5, <2>2 DEF Return, Goto
<1>6. CASE Throw(a, i)
  BY <1>6 DEF Throw, Goto
<1> QED
  BY <1>1, <1>2, <1>3, <1>4, <1>5, <1>6 DEF ThreadStep

LEMMA TypeStep == ASSUME TypeOK, [Next]_vars PROVE TypeOK'
<1>1. CASE UNCHANGED vars
  BY <1>1 DEF TypeOK, vars
<1> QED
  BY <1>1, TypeOutside, TypeSelector, TypeHandlers, TypeThread DEF Next

\* Types of both dispatchers, for any actors, messages and restarts; a handler is
\* only executed for a message that is still in the selector's list
\* (EventBasedSingleThreadDispatcher.scala:29, ThreadBasedDispatcher.scala:33).
THEOREM TypeCorrect == Spec => []TypeOK
  BY TypeInit, TypeStep, PTL DEF Spec

------------------------------------------------------------------------------
(* What waits for the shared thread *)

\* way: the invocations on their way, the first of which may have begun.
Ordered(way, begun, snt, lst) ==
  /\ \A i, j \in DOMAIN way :
       i < j /\ way[i].to = way[j].to => way[i].n < way[j].n
  /\ \A i \in DOMAIN way :
       /\ way[i].n <= snt[way[i].to]
       /\ i = 1 /\ begun => way[i].n = lst[way[i].to]
       /\ i # 1 \/ ~begun => lst[way[i].to] < way[i].n
  /\ \A a \in Shared, k \in Nat :
       lst[a] < k /\ k <= snt[a] => \E i \in DOMAIN way : way[i].to = a /\ way[i].n = k

LEMMA WayType ==
  ASSUME NEW way \in Seq(Invocation)
  PROVE  /\ Len(way) \in Nat /\ DOMAIN way = 1 .. Len(way)
         /\ way # <<>> => Len(way) \in Nat \ {0} /\ 1 \in DOMAIN way
         /\ \A i \in DOMAIN way : /\ way[i] \in Invocation
                                 /\ way[i].to \in Shared /\ way[i].to \in Actor
                                 /\ way[i].n \in Nat
<1>1. Len(way) \in Nat /\ DOMAIN way = 1 .. Len(way)
  BY LenProperties
<1>2. way # <<>> => Len(way) \in Nat \ {0}
  BY EmptySeq
<1>3. \A i \in 1 .. Len(way) : way[i] \in Invocation
  BY ElementOfSeq
<1> QED
  BY <1>1, <1>2, <1>3 DEF Invocation, Actor

LEMMA SendOrdered ==
  ASSUME NEW way \in Seq(Invocation), NEW begun \in BOOLEAN,
         NEW snt \in [Actor -> Nat], NEW lst \in [Actor -> Nat],
         Ordered(way, begun, snt, lst), begun => way # <<>>,
         NEW a \in Shared, lst[a] <= snt[a]
  PROVE  Ordered(Append(way, [to |-> a, n |-> snt[a] + 1]), begun,
                 [snt EXCEPT ![a] = @ + 1], lst)
<1> DEFINE new == [to |-> a, n |-> snt[a] + 1]
           w   == Append(way, new)
           s   == [snt EXCEPT ![a] = @ + 1]
<1>1. new \in Invocation /\ a \in Actor
  BY DEF Invocation, Actor
<1>2. /\ Len(way) \in Nat /\ DOMAIN way = 1 .. Len(way)
      /\ DOMAIN w = 1 .. Len(way) + 1 /\ w[Len(way) + 1] = new
      /\ \A i \in DOMAIN way : w[i] = way[i] /\ way[i].to \in Actor /\ way[i].n \in Nat
  <2>1. /\ w \in Seq(Invocation) /\ Len(w) = Len(way) + 1
        /\ \A i \in 1 .. Len(way) : w[i] = way[i]
        /\ w[Len(way) + 1] = new
    BY <1>1, AppendProperties
  <2> HIDE DEF w
  <2> QED
    BY <2>1, WayType
<1>3. s \in [Actor -> Nat] /\ s[a] = snt[a] + 1 /\ \A b \in Actor : b # a => s[b] = snt[b]
  BY <1>1
<1>4. begun => Len(way) # 0
  BY EmptySeq
<1> HIDE DEF w, s
<1>5. \A i, j \in DOMAIN w : i < j /\ w[i].to = w[j].to => w[i].n < w[j].n
  <2> SUFFICES ASSUME NEW i \in DOMAIN w, NEW j \in DOMAIN w, i < j, w[i].to = w[j].to
               PROVE  w[i].n < w[j].n
    OBVIOUS
  <2>1. i \in DOMAIN way
    BY <1>2
  <2>2. CASE j \in DOMAIN way
    BY <1>2, <2>1, <2>2 DEF Ordered
  <2>3. CASE j = Len(way) + 1
    BY <1>2, <2>1, <2>3 DEF Ordered
  <2> QED
    BY <1>2, <2>2, <2>3
<1>6. \A i \in DOMAIN w : /\ w[i].n <= s[w[i].to]
                          /\ i = 1 /\ begun => w[i].n = lst[w[i].to]
                          /\ i # 1 \/ ~begun => lst[w[i].to] < w[i].n
  <2> SUFFICES ASSUME NEW i \in DOMAIN w
               PROVE  /\ w[i].n <= s[w[i].to]
                      /\ i = 1 /\ begun => w[i].n = lst[w[i].to]
                      /\ i # 1 \/ ~begun => lst[w[i].to] < w[i].n
    OBVIOUS
  <2>1. CASE i \in DOMAIN way
    <3>1. /\ way[i].n <= snt[way[i].to]
          /\ i = 1 /\ begun => way[i].n = lst[way[i].to]
          /\ i # 1 \/ ~begun => lst[way[i].to] < way[i].n
      BY <2>1 DEF Ordered
    <3>2. w[i] = way[i] /\ snt[way[i].to] <= s[way[i].to] /\ way[i].n \in Nat
          /\ snt[way[i].to] \in Nat /\ s[way[i].to] \in Nat
      <4>1. \A b \in Actor : snt[b] <= s[b] /\ snt[b] \in Nat /\ s[b] \in Nat
        <5> SUFFICES ASSUME NEW b \in Actor
                     PROVE  snt[b] <= s[b] /\ snt[b] \in Nat /\ s[b] \in Nat
          OBVIOUS
        <5>1. snt[b] \in Nat
          OBVIOUS
        <5>2. s[b] = snt[b] \/ s[b] = snt[b] + 1
          BY <1>3
        <5> QED
          BY <5>1, <5>2
      <4> QED
        BY <1>2, <2>1, <4>1
    <3> QED
      BY <3>1, <3>2
  <2>2. CASE i = Len(way) + 1
    BY <1>1, <1>2, <1>3, <1>4, <2>2
  <2> QED
    BY <1>2, <2>1, <2>2
<1>7. ASSUME NEW b \in Shared, NEW k \in Nat, lst[b] < k, k <= s[b]
      PROVE  \E i \in DOMAIN w : w[i].to = b /\ w[i].n = k
  <2>1. CASE k <= snt[b]
    <3>1. PICK i \in DOMAIN way : way[i].to = b /\ way[i].n = k
      BY <1>7, <2>1 DEF Ordered
    <3> QED
      BY <1>2, <3>1
  <2>2. CASE b = a /\ k = snt[a] + 1
    <3>1. Len(way) + 1 \in DOMAIN w /\ new.to = a /\ new.n = snt[a] + 1
      BY <1>2
    <3> QED
      BY <1>2, <2>2, <3>1
  <2>3. b \in Actor
    BY DEF Actor
  <2> QED
    BY <1>3, <1>7, <2>1, <2>2, <2>3
<1> QED
  BY <1>5, <1>6, <1>7 DEF Ordered, w, s

LEMMA BeginOrdered ==
  ASSUME NEW way \in Seq(Invocation), way # <<>>,
         NEW snt \in [Actor -> Nat], NEW lst \in [Actor -> Nat],
         Ordered(way, FALSE, snt, lst)
  PROVE  /\ Ordered(way, TRUE, snt, [lst EXCEPT ![way[1].to] = way[1].n])
         /\ way[1].n = lst[way[1].to] + 1
         /\ way[1].n <= snt[way[1].to]
<1> DEFINE a == way[1].to
           l == [lst EXCEPT ![a] = way[1].n]
<1>1. /\ Len(way) \in Nat \ {0} /\ DOMAIN way = 1 .. Len(way)
      /\ \A i \in DOMAIN way : way[i].to \in Shared /\ way[i].n \in Nat
  BY WayType
<1>2. 1 \in DOMAIN way /\ a \in Shared /\ Shared \subseteq Actor
  BY <1>1 DEF Actor
<1>3. /\ lst[a] < way[1].n /\ way[1].n <= snt[a]
      /\ \A b \in Actor : lst[b] \in Nat /\ snt[b] \in Nat
  BY <1>2 DEF Ordered
<1>4. way[1].n = lst[a] + 1
  <2> DEFINE k == lst[a] + 1
  <2>0. k \in Nat /\ lst[a] < k /\ k <= snt[a]
    <3>1. lst[a] \in Nat /\ snt[a] \in Nat /\ way[1].n \in Nat
      BY <1>1, <1>2, <1>3
    <3>2. \A x, y, z \in Nat : x < y /\ y <= z => x + 1 \in Nat /\ x < x + 1 /\ x + 1 <= z
      OBVIOUS
    <3> QED
      BY <1>3, <3>1, <3>2
  <2> HIDE DEF k
  <2>1. PICK i \in DOMAIN way : way[i].to = a /\ way[i].n = k
    BY <1>2, <2>0 DEF Ordered
  <2>2. i # 1 => way[1].n < way[i].n
    <3> SUFFICES ASSUME i # 1 PROVE way[1].n < way[i].n
      OBVIOUS
    <3>1. 1 < i /\ way[1].to = way[i].to
      BY <1>1, <2>1
    <3> QED
      BY <1>2, <3>1 DEF Ordered
  <2> USE DEF k
  <2> QED
    BY <1>1, <1>2, <1>3, <2>1, <2>2
<1>5. l \in [Actor -> Nat] /\ l[a] = way[1].n /\ \A b \in Actor : b # a => l[b] = lst[b]
  BY <1>1, <1>2
<1> HIDE DEF l
<1>6. \A i \in DOMAIN way : /\ way[i].n <= snt[way[i].to]
                            /\ i = 1 => way[i].n = l[way[i].to]
                            /\ i # 1 => l[way[i].to] < way[i].n
  <2> SUFFICES ASSUME NEW i \in DOMAIN way, i # 1 PROVE l[way[i].to] < way[i].n
    BY <1>5 DEF Ordered
  <2>1. CASE way[i].to = a
    <3>1. 1 < i
      BY <1>1
    <3>2. way[1].n < way[i].n
      BY <1>2, <2>1, <3>1 DEF Ordered
    <3> QED
      BY <1>5, <2>1, <3>2
  <2>2. CASE way[i].to # a
    BY <1>1, <1>2, <1>5, <2>2 DEF Ordered
  <2> QED
    BY <2>1, <2>2
<1>7. ASSUME NEW b \in Shared, NEW k \in Nat, l[b] < k, k <= snt[b]
      PROVE  \E i \in DOMAIN way : way[i].to = b /\ way[i].n = k
  <2>1. lst[b] < k
    <3>1. b \in Actor
      BY <1>2
    <3>2. CASE b = a
      BY <1>1, <1>2, <1>3, <1>4, <1>5, <1>7, <3>1, <3>2
    <3>3. CASE b # a
      BY <1>5, <1>7, <3>1, <3>3
    <3> QED
      BY <3>2, <3>3
  <2> QED
    BY <1>7, <2>1 DEF Ordered
<1> QED
  BY <1>3, <1>4, <1>6, <1>7 DEF Ordered, l

LEMMA EndOrdered ==
  ASSUME NEW way \in Seq(Invocation), way # <<>>,
         NEW snt \in [Actor -> Nat], NEW lst \in [Actor -> Nat],
         Ordered(way, TRUE, snt, lst)
  PROVE  Ordered(Tail(way), FALSE, snt, lst)
<1> DEFINE w == Tail(way)
<1>1. /\ Len(way) \in Nat \ {0} /\ DOMAIN way = 1 .. Len(way)
      /\ \A i \in DOMAIN way : way[i].to \in Shared /\ way[i].n \in Nat
  BY WayType
<1>2. /\ DOMAIN w = 1 .. Len(way) - 1
      /\ \A i \in DOMAIN w : w[i] = way[i + 1] /\ i + 1 \in DOMAIN way /\ i + 1 # 1
  <2>1. /\ w \in Seq(Invocation) /\ Len(w) = Len(way) - 1
        /\ \A i \in 1 .. Len(way) - 1 : w[i] = way[i + 1]
    BY Rest
  <2> HIDE DEF w
  <2> QED
    BY <1>1, <2>1, WayType
<1> HIDE DEF w
<1>3. \A i, j \in DOMAIN w : i < j /\ w[i].to = w[j].to => w[i].n < w[j].n
  BY <1>1, <1>2 DEF Ordered
<1>4. \A i \in DOMAIN w : w[i].n <= snt[w[i].to] /\ lst[w[i].to] < w[i].n
  BY <1>2 DEF Ordered
<1>5. ASSUME NEW b \in Shared, NEW k \in Nat, lst[b] < k, k <= snt[b]
      PROVE  \E i \in DOMAIN w : w[i].to = b /\ w[i].n = k
  <2>1. PICK i \in DOMAIN way : way[i].to = b /\ way[i].n = k
    BY <1>5 DEF Ordered
  <2>2. i # 1
    BY <1>5, <2>1 DEF Ordered, Actor
  <2>3. i - 1 \in DOMAIN w /\ w[i - 1] = way[i]
    BY <1>1, <1>2, <2>2
  <2> QED
    BY <2>1, <2>3
<1> QED
  BY <1>3, <1>4, <1>5 DEF Ordered, w

------------------------------------------------------------------------------
(* The invariant, for actors that are started once *)

Begun     == selector \in {"invoke", "dead"}
OnTheWay  == selected \o queue
Taken(a)  == IF at[a][1] = "enter" THEN 1 ELSE 0

SharedInOrder ==
  /\ Begun => selected # <<>>
  /\ Ordered(OnTheWay, Begun, sent, last)

DedicatedInOrder ==
  \A a \in Dedicated :
    /\ starts[a] = 0 => at[a][1] = "none"
    /\ at[a][1] = "enter" => got[a][1] = last[a] + 1
    /\ sent[a] = last[a] + Taken(a) + Len(mailbox[a])
    /\ \A k \in 1 .. Len(mailbox[a]) : mailbox[a][k] = last[a] + Taken(a) + k

NoneAhead == \A a \in Actor : last[a] <= sent[a]

IInv == TypeOK /\ SharedInOrder /\ DedicatedInOrder /\ NoneAhead

LEMMA InitInv == ASSUME MaxStart = 1, Init PROVE IInv
<1>1. TypeOK
  BY TypeInit
<1>2. OnTheWay = <<>> /\ ~Begun
  <2>1. <<>> \in Seq(Invocation)
    BY EmptySeq
  <2> QED
    BY <2>1, ConcatEmptySeq DEF Init, OnTheWay, Begun
<1>3. SharedInOrder
  <2>1. DOMAIN <<>> = {}
    OBVIOUS
  <2>2. \A a \in Shared, k \in Nat : ~(last[a] < k /\ k <= sent[a])
    BY DEF Init, Actor
  <2> QED
    BY <1>2, <2>1, <2>2 DEF SharedInOrder, Ordered
<1>4. DedicatedInOrder
  <2>1. Len(<<>>) = 0 /\ 1 \in Incarnation
    BY DEF Incarnation
  <2> QED
    BY <2>1 DEF Init, DedicatedInOrder, Taken, Actor
<1>5. NoneAhead
  BY DEF Init, NoneAhead
<1> QED
  BY <1>1, <1>3, <1>4, <1>5 DEF IInv

LEMMA SharedFrame ==
  ASSUME IInv, OnTheWay' = OnTheWay, Begun' = Begun, selected' # <<>> \/ ~Begun,
         \A a \in Shared : sent'[a] = sent[a] /\ last'[a] = last[a]
  PROVE  SharedInOrder'
<1>1. OnTheWay \in Seq(Invocation)
  BY ConcatProperties DEF IInv, TypeOK, OnTheWay
<1>2. \A i \in DOMAIN OnTheWay : OnTheWay[i].to \in Shared
  BY <1>1, WayType
<1>3. Ordered(OnTheWay, Begun, sent', last')
  BY <1>2 DEF IInv, SharedInOrder, Ordered
<1> QED
  BY <1>3 DEF SharedInOrder

LEMMA DedicatedFrame ==
  ASSUME IInv, UNCHANGED <<starts, mailbox, at, got>>,
         \A a \in Dedicated : sent'[a] = sent[a] /\ last'[a] = last[a]
  PROVE  DedicatedInOrder'
  BY DEF IInv, DedicatedInOrder, Taken

LEMMA SendInv == ASSUME MaxStart = 1, IInv, NEW a \in Actor, Send(a) PROVE IInv'
<1> DEFINE new == [to |-> a, n |-> sent[a] + 1]
<1>1. TypeOK' /\ sent \in [Actor -> Nat] /\ last \in [Actor -> Nat]
  BY TypeOutside DEF IInv, TypeOK
<1>2. UNCHANGED <<starts, last, selected, selector, at, got>>
      /\ sent' = [sent EXCEPT ![a] = @ + 1]
  BY DEF Send, dedicatedVars
<1>3. NoneAhead'
  BY <1>1, <1>2 DEF IInv, NoneAhead
<1>4. Begun' = Begun
  BY <1>2 DEF Begun
<1>5. CASE a \in Shared /\ queue' = Append(queue, new) /\ UNCHANGED mailbox
  <2>1. a \notin Dedicated /\ new \in Invocation
    BY <1>1, <1>5, ActorsAssumption DEF Invocation
  <2>2. OnTheWay' = Append(OnTheWay, new) /\ OnTheWay \in Seq(Invocation)
    <3>1. selected \in Seq(Invocation) /\ queue \in Seq(Invocation)
      BY DEF IInv, TypeOK
    <3>2. selected \o queue \in Seq(Invocation) /\ <<new>> \in Seq(Invocation)
      BY <2>1, <3>1, ConcatProperties
    <3>3. selected \o (queue \o <<new>>) = (selected \o queue) \o <<new>>
      BY <3>1, <3>2, ConcatAssociative
    <3> QED
      BY <1>2, <1>5, <2>1, <3>1, <3>2, <3>3, AppendIsConcat DEF OnTheWay
  <2>3. Begun => OnTheWay # <<>>
    BY ConcatEqualIffEmpty, EmptySeq, ConcatProperties
       DEF IInv, TypeOK, SharedInOrder, OnTheWay
  <2>4. Ordered(OnTheWay, Begun, sent, last) /\ last[a] <= sent[a] /\ Begun \in BOOLEAN
    BY DEF IInv, SharedInOrder, NoneAhead, Begun
  <2>5. Ordered(Append(OnTheWay, new), Begun, sent', last)
    BY <1>1, <1>2, <1>5, <2>2, <2>3, <2>4, SendOrdered
  <2>6. SharedInOrder'
    BY <1>2, <1>4, <2>2, <2>5 DEF IInv, SharedInOrder
  <2>7. DedicatedInOrder'
    BY <1>1, <1>2, <1>5, <2>1, DedicatedFrame DEF Actor
  <2> QED
    BY <1>1, <1>3, <2>6, <2>7 DEF IInv
<1>6. CASE a \in Dedicated /\ UNCHANGED queue
           /\ mailbox' = [mailbox EXCEPT ![a] = Append(@, sent[a] + 1)]
  <2>1. a \notin Shared
    BY <1>6, ActorsAssumption
  <2>2. OnTheWay' = OnTheWay
    BY <1>2, <1>6 DEF OnTheWay
  <2>3. SharedInOrder'
    BY <1>1, <1>2, <1>4, <2>1, <2>2, SharedFrame DEF IInv, SharedInOrder, Actor
  <2>4. DedicatedInOrder'
    <3> SUFFICES ASSUME NEW b \in Dedicated
                 PROVE  /\ starts[b] = 0 => at[b][1] = "none"
                        /\ at[b][1] = "enter" => got[b][1] = last[b] + 1
                        /\ sent'[b] = last[b] + Taken(b) + Len(mailbox'[b])
                        /\ \A k \in 1 .. Len(mailbox'[b]) :
                             mailbox'[b][k] = last[b] + Taken(b) + k
      BY <1>2 DEF DedicatedInOrder, Taken
    <3>1. CASE b # a
      BY <1>1, <1>2, <1>6, <3>1 DEF IInv, TypeOK, DedicatedInOrder, Actor
    <3>2. CASE b = a
      <4>1. mailbox[a] \in Seq(Nat) /\ sent[a] \in Nat /\ last[a] \in Nat
            /\ Taken(a) \in Nat /\ mailbox'[a] = Append(mailbox[a], sent[a] + 1)
            /\ sent'[a] = sent[a] + 1
        BY <1>1, <1>2, <1>6 DEF IInv, TypeOK, Actor, Taken
      <4>2. /\ Len(mailbox'[a]) = Len(mailbox[a]) + 1 /\ Len(mailbox[a]) \in Nat
            /\ \A k \in 1 .. Len(mailbox[a]) : mailbox'[a][k] = mailbox[a][k]
            /\ mailbox'[a][Len(mailbox[a]) + 1] = sent[a] + 1
        BY <4>1, AppendProperties, LenProperties
      <4>3. /\ starts[a] = 0 => at[a][1] = "none"
            /\ at[a][1] = "enter" => got[a][1] = last[a] + 1
            /\ sent[a] = last[a] + Taken(a) + Len(mailbox[a])
            /\ \A k \in 1 .. Len(mailbox[a]) : mailbox[a][k] = last[a] + Taken(a) + k
        BY <1>6 DEF IInv, DedicatedInOrder
      <4>4. sent'[a] = last[a] + Taken(a) + Len(mailbox'[a])
        <5>1. \A s, l, t, n \in Nat : s = l + t + n => s + 1 = l + t + (n + 1)
          OBVIOUS
        <5> HIDE DEF new
        <5>2. /\ sent[a] \in Nat /\ last[a] \in Nat /\ Taken(a) \in Nat
              /\ Len(mailbox[a]) \in Nat /\ sent[a] = last[a] + Taken(a) + Len(mailbox[a])
          BY <4>1, <4>2, <4>3
        <5>3. sent[a] + 1 = last[a] + Taken(a) + (Len(mailbox[a]) + 1)
          BY <5>1, <5>2
        <5> QED
          BY <4>1, <4>2, <5>3
      <4>5. ASSUME NEW k \in 1 .. Len(mailbox'[a])
            PROVE  mailbox'[a][k] = last[a] + Taken(a) + k
        <5>1. k \in 1 .. Len(mailbox[a]) \/ k = Len(mailbox[a]) + 1
          BY <4>2
        <5>2. CASE k = Len(mailbox[a]) + 1
          BY <4>1, <4>2, <4>4, <5>2
        <5> QED
          BY <4>2, <4>3, <5>1, <5>2
      <4> QED
        BY <3>2, <4>3, <4>4, <4>5
    <3> QED
      BY <3>1, <3>2
  <2> QED
    BY <1>1, <1>3, <2>3, <2>4 DEF IInv
<1> QED
  BY <1>5, <1>6 DEF Send

LEMMA StartStopInv ==
  ASSUME MaxStart = 1, IInv, NEW a \in Actor, Start(a) \/ Stop(a)
  PROVE  IInv'
<1>1. TypeOK'
  BY TypeOutside DEF IInv
<1>2. UNCHANGED <<sent, last, queue, selected, mailbox, got>>
  BY DEF Start, Stop, StartShared, StartDedicated, sharedVars, dedicatedVars
<1>3. Begun' = Begun
  BY DEF Start, Stop, StartShared, StartDedicated, sharedVars, Begun
<1>4. SharedInOrder' /\ NoneAhead'
  BY <1>2, <1>3, SharedFrame DEF IInv, SharedInOrder, OnTheWay, NoneAhead
<1>5. DedicatedInOrder'
  <2>1. CASE Stop(a)
    BY <1>2, <2>1, DedicatedFrame DEF Stop
  <2>2. CASE Start(a)
    <3>1. starts[a] = 0 /\ starts' = [starts EXCEPT ![a] = 1]
      <4>1. starts[a] \in Nat /\ starts[a] < 1 /\ starts' = [starts EXCEPT ![a] = @ + 1]
        <5>1. starts \in [Actor -> 0 .. 1]
          BY DEF IInv, TypeOK
        <5> QED
          BY <2>2, <5>1 DEF Start
      <4>2. \A n \in Nat : n < 1 => n = 0 /\ n + 1 = 1
        OBVIOUS
      <4> QED
        BY <4>1, <4>2
    <3>2. \/ at' = at
          \/ a \in Dedicated /\ at[a][1] = "none" /\ at' = [at EXCEPT ![a][1] = "test"]
      BY <2>2, <3>1 DEF Start, StartShared, StartDedicated, dedicatedVars, IInv,
                        DedicatedInOrder
    <3>3. \A b \in Dedicated : /\ Taken(b)' = Taken(b)
                               /\ at'[b][1] = "enter" => at[b][1] = "enter"
                               /\ starts'[b] = 0 => starts[b] = 0 /\ b # a
                               /\ b # a => at'[b][1] = at[b][1]
      BY <3>1, <3>2 DEF IInv, TypeOK, Taken, Incarnation, Actor
    <3> QED
      BY <1>2, <3>3 DEF IInv, DedicatedInOrder
  <2> QED
    BY <2>1, <2>2
<1> QED
  BY <1>1, <1>4, <1>5 DEF IInv

------------------------------------------------------------------------------
(* The steps of the shared thread, and what they are in Mailboxes *)

Registered == Dedicated \cup (IF registering = {} THEN handlers ELSE {})

\* The first invocation on its way is the head of the selector's list.
LEMMA WayHead ==
  ASSUME IInv
  PROVE  /\ OnTheWay \in Seq(Invocation)
         /\ selected # <<>> =>
              /\ OnTheWay # <<>> /\ OnTheWay[1] = Head(selected)
              /\ Tail(OnTheWay) = Tail(selected) \o queue
<1>1. selected \in Seq(Invocation) /\ queue \in Seq(Invocation)
  BY DEF IInv, TypeOK
<1>2. /\ OnTheWay \in Seq(Invocation)
      /\ Len(OnTheWay) = Len(selected) + Len(queue)
      /\ \A i \in 1 .. Len(selected) + Len(queue) :
           OnTheWay[i] = IF i <= Len(selected) THEN selected[i]
                         ELSE queue[i - Len(selected)]
  BY <1>1, ConcatProperties DEF OnTheWay
<1>3. ASSUME selected # <<>>
      PROVE  /\ OnTheWay # <<>> /\ OnTheWay[1] = Head(selected)
             /\ Tail(OnTheWay) = Tail(selected) \o queue
  <2> DEFINE s == Tail(OnTheWay)
             t == Tail(selected) \o queue
  <2>1. /\ Tail(selected) \in Seq(Invocation) /\ Head(selected) = selected[1]
        /\ Len(selected) \in Nat \ {0} /\ Len(Tail(selected)) = Len(selected) - 1
        /\ \A i \in 1 .. Len(selected) - 1 : Tail(selected)[i] = selected[i + 1]
    BY <1>1, <1>3, Rest
  <2>2. Len(queue) \in Nat
    BY <1>1, LenProperties
  <2>3. OnTheWay # <<>> /\ OnTheWay[1] = Head(selected)
    <3>1. OnTheWay # <<>>
      BY <1>1, <1>3, ConcatEqualIffEmpty DEF OnTheWay
    <3> QED
      BY <1>2, <2>1, <2>2, <3>1
  <2>4. /\ s \in Seq(Invocation) /\ Len(s) = Len(OnTheWay) - 1
        /\ \A i \in 1 .. Len(OnTheWay) - 1 : s[i] = OnTheWay[i + 1]
    BY <1>2, <2>3, Rest
  <2>5. /\ t \in Seq(Invocation) /\ Len(t) = Len(Tail(selected)) + Len(queue)
        /\ \A i \in 1 .. Len(Tail(selected)) + Len(queue) :
             t[i] = IF i <= Len(Tail(selected)) THEN Tail(selected)[i]
                    ELSE queue[i - Len(Tail(selected))]
    BY <1>1, <2>1, ConcatProperties
  <2> HIDE DEF s, t
  <2>6. Len(s) = Len(t)
    BY <1>2, <2>1, <2>2, <2>4, <2>5
  <2>7. ASSUME NEW i \in 1 .. Len(s) PROVE s[i] = t[i]
    <3>1. i \in 1 .. Len(OnTheWay) - 1 /\ i + 1 \in 1 .. Len(selected) + Len(queue)
          /\ s[i] = OnTheWay[i + 1]
      BY <1>2, <2>1, <2>2, <2>4
    <3>2. CASE i <= Len(selected) - 1
      BY <1>2, <2>1, <2>2, <2>4, <2>5, <3>1, <3>2
    <3>3. CASE ~(i <= Len(selected) - 1)
      <4>1. s[i] = queue[(i + 1) - Len(selected)]
        BY <1>2, <2>1, <2>2, <3>1, <3>3
      <4>2. t[i] = queue[i - (Len(selected) - 1)]
        BY <2>1, <2>2, <2>5, <3>1, <3>3
      <4>3. (i + 1) - Len(selected) = i - (Len(selected) - 1)
        BY <2>1, <2>2
      <4> QED
        BY <4>1, <4>2, <4>3
    <3> QED
      BY <3>2, <3>3
  <2>8. s = t
    BY <2>4, <2>5, <2>6, <2>7, SeqEqual
  <2> QED
    BY <2>3, <2>8 DEF s, t
<1> QED
  BY <1>2, <1>3

LEMMA SelectStep ==
  ASSUME IInv, Select \/ NextRound
  PROVE  IInv' /\ UNCHANGED Promise!vars
<1>1. TypeOK'
  BY TypeSelector DEF IInv, SelectorStep
<1>2. UNCHANGED <<starts, sent, last, mailbox, at, got>>
  BY DEF Select, NextRound, dedicatedVars
<1>3. OnTheWay' = OnTheWay
  <2>1. CASE Select
    <3>1. selected' = selected \o queue /\ queue' = <<>>
      BY <2>1 DEF Select
    <3>2. (selected \o queue) \o <<>> = selected \o queue
      BY WayHead, ConcatEmptySeq DEF OnTheWay
    <3> QED
      BY <3>1, <3>2 DEF OnTheWay
  <2>2. CASE NextRound
    BY <2>2 DEF NextRound, OnTheWay
  <2> QED
    BY <2>1, <2>2
<1>4. ~Begun /\ Begun' = Begun
  BY DEF Select, NextRound, Begun
<1>5. SharedInOrder' /\ DedicatedInOrder' /\ NoneAhead'
  BY <1>2, <1>3, <1>4, SharedFrame, DedicatedFrame DEF IInv, NoneAhead
<1>6. Executing' = Executing
  BY <1>2 DEF Select, NextRound, Executing
<1> QED
  BY <1>1, <1>2, <1>5, <1>6 DEF IInv, Promise!vars, Select, NextRound, handlerVars

LEMMA InvokeStep ==
  ASSUME IInv, Invoke
  PROVE  IInv' /\ Promise!Begin(Head(selected).to)
<1> DEFINE x == Head(selected)
<1>1. TypeOK'
  BY TypeSelector DEF IInv, SelectorStep
<1>2. /\ UNCHANGED <<starts, sent, selected, queue, mailbox, at, got, handlers,
                     registering>>
      /\ selected # <<>> /\ last' = [last EXCEPT ![x.to] = x.n]
  BY DEF Invoke, dedicatedVars, handlerVars
<1>3. /\ OnTheWay \in Seq(Invocation) /\ OnTheWay # <<>> /\ OnTheWay[1] = x
  BY <1>2, WayHead
<1>4. x.to \in Shared /\ x.to \in Actor /\ x.to \notin Dedicated
  BY <1>3, WayType, ActorsAssumption
<1>5. sent \in [Actor -> Nat] /\ last \in [Actor -> Nat]
  BY DEF IInv, TypeOK
<1>6. Ordered(OnTheWay, FALSE, sent, last)
  <2>1. Begun = FALSE
    BY DEF Begun, Invoke
  <2> QED
    BY <2>1 DEF IInv, SharedInOrder
<1>7. Ordered(OnTheWay, TRUE, sent, last') /\ x.n = last[x.to] + 1 /\ x.n <= sent[x.to]
  BY <1>2, <1>3, <1>5, <1>6, BeginOrdered
<1>8. SharedInOrder'
  BY <1>2, <1>7 DEF SharedInOrder, OnTheWay, Begun, Invoke
<1>9. DedicatedInOrder'
  BY <1>2, <1>4, <1>5, DedicatedFrame DEF Actor
<1>10. last' = [last EXCEPT ![x.to] = @ + 1] /\ last[x.to] < sent[x.to]
  <2>1. last[x.to] \in Nat /\ sent[x.to] \in Nat /\ last[x.to] + 1 <= sent[x.to]
    BY <1>4, <1>5, <1>7
  <2>2. \A m, n \in Nat : m + 1 <= n => m < n
    OBVIOUS
  <2> QED
    BY <1>2, <1>7, <2>1, <2>2
<1>11. NoneAhead'
  BY <1>2, <1>4, <1>5, <1>7 DEF IInv, NoneAhead
<1>12. x.to \notin Executing /\ Executing' = Executing \cup {x.to}
  BY <1>2, <1>4 DEF Invoke, Executing
<1> QED
  BY <1>1, <1>2, <1>8, <1>9, <1>10, <1>11, <1>12 DEF IInv, Promise!Begin

LEMMA SkipStep ==
  ASSUME IInv, Skip
  PROVE  IInv' /\ Promise!Discard(Head(selected).to)
<1> DEFINE x == Head(selected)
<1>1. TypeOK'
  BY TypeSelector DEF IInv, SelectorStep
<1>2. /\ UNCHANGED <<starts, sent, queue, mailbox, at, got, handlers, registering>>
      /\ selected # <<>> /\ last' = [last EXCEPT ![x.to] = x.n]
      /\ selected' = Tail(selected)
  BY DEF Skip, dedicatedVars, handlerVars
<1>3. /\ OnTheWay \in Seq(Invocation) /\ OnTheWay # <<>> /\ OnTheWay[1] = x
      /\ OnTheWay' = Tail(OnTheWay)
  BY <1>2, WayHead DEF OnTheWay
<1>4. x.to \in Shared /\ x.to \in Actor /\ x.to \notin Dedicated
  BY <1>3, WayType, ActorsAssumption
<1>5. sent \in [Actor -> Nat] /\ last \in [Actor -> Nat] /\ last' \in [Actor -> Nat]
  BY <1>1 DEF IInv, TypeOK
<1>6. Ordered(OnTheWay, FALSE, sent, last)
  <2>1. Begun = FALSE
    BY DEF Begun, Skip
  <2> QED
    BY <2>1 DEF IInv, SharedInOrder
<1>7. Ordered(OnTheWay, TRUE, sent, last') /\ x.n = last[x.to] + 1 /\ x.n <= sent[x.to]
  BY <1>2, <1>3, <1>5, <1>6, BeginOrdered
<1>8. Ordered(Tail(OnTheWay), FALSE, sent, last')
  BY <1>3, <1>5, <1>7, EndOrdered
<1>9. SharedInOrder'
  <2>1. Begun' = FALSE
    BY DEF Skip, Begun
  <2> QED
    BY <1>2, <1>3, <1>8, <2>1 DEF SharedInOrder
<1>10. DedicatedInOrder'
  BY <1>2, <1>4, <1>5, DedicatedFrame DEF Actor
<1>11. last' = [last EXCEPT ![x.to] = @ + 1] /\ last[x.to] < sent[x.to]
  <2>1. last[x.to] \in Nat /\ sent[x.to] \in Nat /\ last[x.to] + 1 <= sent[x.to]
    BY <1>4, <1>5, <1>7
  <2>2. \A m, n \in Nat : m + 1 <= n => m < n
    OBVIOUS
  <2> QED
    BY <1>2, <1>7, <2>1, <2>2
<1>12. NoneAhead'
  BY <1>2, <1>4, <1>5, <1>7 DEF IInv, NoneAhead
<1>13. Executing' = Executing
  BY <1>2 DEF Skip, Executing
<1>14. x.to \notin Registered
  BY <1>4 DEF Skip, Registered
<1> QED
  BY <1>1, <1>2, <1>9, <1>10, <1>11, <1>12, <1>13, <1>14
     DEF IInv, Promise!Discard, Registered

LEMMA InvokeEndsStep ==
  ASSUME IInv, InvokeReturns \/ InvokeThrows
  PROVE  IInv' /\ Promise!Finish(Head(selected).to)
<1> DEFINE x == Head(selected)
<1>1. TypeOK'
  BY TypeSelector DEF IInv, SelectorStep
<1>2. /\ UNCHANGED <<starts, sent, last, queue, mailbox, at, got, handlers,
                     registering>>
      /\ selector = "invoke" /\ selector' # "invoke" /\ selected # <<>> /\ Begun
  BY DEF InvokeReturns, InvokeThrows, dedicatedVars, handlerVars, IInv, TypeOK, Begun
<1>3. /\ OnTheWay \in Seq(Invocation) /\ OnTheWay # <<>> /\ OnTheWay[1] = x
  BY <1>2, WayHead
<1>4. x.to \in Shared /\ x.to \notin Dedicated
  BY <1>3, WayType, ActorsAssumption
<1>5. sent \in [Actor -> Nat] /\ last \in [Actor -> Nat]
  BY DEF IInv, TypeOK
<1>6. Ordered(OnTheWay, TRUE, sent, last)
  BY <1>2 DEF IInv, SharedInOrder
<1>7. SharedInOrder'
  <2>1. CASE InvokeReturns
    <3>1. OnTheWay' = Tail(OnTheWay) /\ Begun' = FALSE
      BY <1>2, <2>1, WayHead DEF OnTheWay, InvokeReturns, Begun
    <3>2. Ordered(Tail(OnTheWay), FALSE, sent, last)
      BY <1>3, <1>5, <1>6, EndOrdered
    <3> QED
      BY <1>2, <3>1, <3>2 DEF SharedInOrder
  <2>2. CASE InvokeThrows
    <3>1. selected' = selected /\ OnTheWay' = OnTheWay /\ Begun' = Begun
      BY <1>2, <2>2 DEF OnTheWay, InvokeThrows, Begun
    <3> QED
      BY <1>2, <3>1, SharedFrame
  <2> QED
    BY <2>1, <2>2
<1>8. DedicatedInOrder' /\ NoneAhead'
  BY <1>2, DedicatedFrame DEF IInv, NoneAhead
<1>9. x.to \in Executing /\ Executing' = Executing \ {x.to}
  BY <1>2, <1>4 DEF Executing
<1> QED
  BY <1>1, <1>2, <1>7, <1>8, <1>9 DEF IInv, Promise!Finish

------------------------------------------------------------------------------
(* The steps of a thread that serves one actor *)

\* What only concerns dedicated actors leaves the shared thread's order alone.
LEMMA ThreadKeepsShared ==
  ASSUME IInv, NEW a \in Dedicated, NEW i \in Incarnation, ThreadStep(a, i)
  PROVE  /\ SharedInOrder'
         /\ UNCHANGED <<starts, sent, selected, queue, selector, handlers, registering>>
<1>1. UNCHANGED <<starts, sent, selected, queue, selector, handlers, registering>>
  BY DEF ThreadStep, Test, TakeMessage, TakeInterrupted, Enter, Return, Throw,
         sharedVars, handlerVars
<1>2. last' = last \/ last' = [last EXCEPT ![a] = got[a][i]]
  BY DEF ThreadStep, Test, TakeMessage, TakeInterrupted, Enter, Return, Throw
<1>3. \A b \in Shared : last'[b] = last[b]
  BY <1>2, ActorsAssumption DEF IInv, TypeOK, Actor
<1>4. OnTheWay' = OnTheWay /\ Begun' = Begun
  BY <1>1 DEF OnTheWay, Begun
<1> QED
  BY <1>1, <1>3, <1>4, SharedFrame DEF IInv, SharedInOrder

\* Where the thread of a goes, and that it is the only one of a.
LEMMA ThreadMoves ==
  ASSUME MaxStart = 1, IInv, NEW a \in Dedicated, NEW l,
         at' = [at EXCEPT ![a][1] = l], UNCHANGED selector, UNCHANGED selected
  PROVE  /\ at'[a][1] = l
         /\ \A b \in Dedicated : b # a => at'[b][1] = at[b][1]
         /\ a \in Executing <=> at[a][1] = "invoke"
         /\ Executing' = IF l = "invoke" THEN Executing \cup {a} ELSE Executing \ {a}
<1>1. Incarnation = {1}
  BY DEF Incarnation
<1>2. at'[a][1] = l /\ \A b \in Dedicated : b # a => at'[b] = at[b]
  BY <1>1 DEF IInv, TypeOK
<1>3. a \notin Shared
  BY ActorsAssumption
<1>4. \A b \in Dedicated : b \in Executing <=> at[b][1] = "invoke"
  BY <1>1, ActorsAssumption DEF Executing
<1>5. \A b \in Dedicated : b \in Executing' <=> at'[b][1] = "invoke"
  BY <1>1, ActorsAssumption DEF Executing
<1>6. \A b \in Shared : b \in Executing' <=> b \in Executing
  BY ActorsAssumption DEF Executing
<1>7. Executing \subseteq Shared \cup Dedicated /\ Executing' \subseteq Shared \cup Dedicated
  BY DEF Executing
<1> QED
  BY <1>2, <1>3, <1>4, <1>5, <1>6, <1>7

LEMMA ThreadInv ==
  ASSUME MaxStart = 1, IInv, NEW a \in Dedicated, ThreadStep(a, 1)
  PROVE  IInv' /\ [Promise!Next]_Promise!vars
<1> DEFINE InOrder(b) ==
      /\ starts[b] = 0 => at[b][1] = "none"
      /\ at[b][1] = "enter" => got[b][1] = last[b] + 1
      /\ sent[b] = last[b] + Taken(b) + Len(mailbox[b])
      /\ \A k \in 1 .. Len(mailbox[b]) : mailbox[b][k] = last[b] + Taken(b) + k
<1>1. 1 \in Incarnation /\ Incarnation = {1}
  BY DEF Incarnation
<1>2. TypeOK' /\ SharedInOrder'
      /\ UNCHANGED <<starts, sent, selected, queue, selector, handlers, registering>>
  BY <1>1, TypeThread, ThreadKeepsShared DEF IInv
<1>3. /\ sent[a] \in Nat /\ last[a] \in Nat /\ Taken(a) \in Nat
      /\ mailbox[a] \in Seq(Nat) /\ Len(mailbox[a]) \in Nat /\ got[a][1] \in Nat
      /\ sent \in [Actor -> Nat] /\ last \in [Actor -> Nat] /\ a \in Actor
  BY <1>1, LenProperties DEF IInv, TypeOK, Taken, Actor
<1>4. \A b \in Dedicated : InOrder(b)
  BY DEF IInv, DedicatedInOrder
<1>5. CASE TakeMessage(a, 1)
  <2>1. /\ at[a][1] = "take" /\ at' = [at EXCEPT ![a][1] = "enter"]
        /\ mailbox[a] # <<>> /\ mailbox' = [mailbox EXCEPT ![a] = Tail(@)]
        /\ got' = [got EXCEPT ![a][1] = Head(mailbox[a])] /\ UNCHANGED last
    BY <1>5 DEF TakeMessage, Goto
  <2>2. /\ at'[a][1] = "enter" /\ \A b \in Dedicated : b # a => at'[b][1] = at[b][1]
        /\ Executing' = Executing
    <3>1. /\ at'[a][1] = "enter" /\ \A b \in Dedicated : b # a => at'[b][1] = at[b][1]
          /\ a \in Executing <=> at[a][1] = "invoke"
          /\ Executing' = IF "enter" = "invoke" THEN Executing \cup {a} ELSE Executing \ {a}
      BY <1>2, <2>1, ThreadMoves
    <3> QED
      BY <2>1, <3>1
  <2>3. /\ Len(mailbox[a]) \in Nat \ {0} /\ Head(mailbox[a]) = mailbox[a][1]
        /\ mailbox'[a] = Tail(mailbox[a]) /\ Len(mailbox'[a]) = Len(mailbox[a]) - 1
        /\ \A k \in 1 .. Len(mailbox[a]) - 1 : mailbox'[a][k] = mailbox[a][k + 1]
    BY <1>3, <2>1, Rest DEF IInv, TypeOK
  <2>4. got'[a][1] = Head(mailbox[a]) /\ Taken(a) = 0 /\ Taken(a)' = 1
    BY <1>1, <2>1, <2>2 DEF IInv, TypeOK, Taken
  <2>5. InOrder(a)'
    <3>0. /\ sent[a] = last[a] + Len(mailbox[a])
          /\ \A k \in 1 .. Len(mailbox[a]) : mailbox[a][k] = last[a] + k
      BY <1>3, <1>4, <2>4
    <3>1. got'[a][1] = last'[a] + 1
      <4>1. 1 \in 1 .. Len(mailbox[a])
        BY <2>3
      <4> QED
        BY <2>1, <2>3, <2>4, <3>0, <4>1
    <3>2. sent'[a] = last'[a] + 1 + Len(mailbox'[a])
      <4>1. \A l \in Nat, n \in Nat \ {0} : l + n = l + 1 + (n - 1)
        OBVIOUS
      <4> QED
        BY <1>2, <1>3, <2>1, <2>3, <3>0, <4>1
    <3>3. \A k \in 1 .. Len(mailbox'[a]) : mailbox'[a][k] = last'[a] + 1 + k
      <4> SUFFICES ASSUME NEW k \in 1 .. Len(mailbox'[a])
                   PROVE  mailbox'[a][k] = last'[a] + 1 + k
        OBVIOUS
      <4>1. k \in 1 .. Len(mailbox[a]) - 1 /\ k + 1 \in 1 .. Len(mailbox[a])
        BY <2>3
      <4>2. mailbox'[a][k] = last[a] + (k + 1)
        BY <2>3, <3>0, <4>1
      <4> QED
        BY <1>3, <2>1, <4>1, <4>2
    <3>4. starts'[a] # 0
      BY <1>2, <1>4, <2>1
    <3> QED
      BY <2>2, <2>4, <3>1, <3>2, <3>3, <3>4
  <2>6. \A b \in Dedicated : b # a => InOrder(b)'
    <3>1. \A b \in Dedicated : b # a => mailbox'[b] = mailbox[b] /\ got'[b] = got[b]
                                        /\ Taken(b)' = Taken(b)
      BY <2>1, <2>2 DEF IInv, TypeOK, Taken
    <3> QED
      BY <1>2, <1>4, <2>1, <2>2, <3>1
  <2>7. DedicatedInOrder'
    BY <2>5, <2>6 DEF DedicatedInOrder
  <2> QED
    BY <1>2, <2>1, <2>2, <2>7 DEF IInv, NoneAhead, Promise!vars
<1>6. CASE Enter(a, 1)
  <2>1. /\ at[a][1] = "enter" /\ at' = [at EXCEPT ![a][1] = "invoke"]
        /\ last' = [last EXCEPT ![a] = got[a][1]] /\ UNCHANGED <<mailbox, got>>
    BY <1>6 DEF Enter, Goto
  <2>2. /\ at'[a][1] = "invoke" /\ \A b \in Dedicated : b # a => at'[b][1] = at[b][1]
        /\ a \notin Executing /\ Executing' = Executing \cup {a}
    BY <1>2, <2>1, ThreadMoves
  <2>3. got[a][1] = last[a] + 1 /\ Taken(a) = 1 /\ Taken(a)' = 0
    BY <1>4, <2>1, <2>2 DEF Taken
  <2>4. last'[a] = last[a] + 1 /\ \A b \in Dedicated : b # a => last'[b] = last[b]
    BY <1>3, <2>1, <2>3
  <2>5. InOrder(a)'
    <3>1. sent'[a] = last'[a] + 0 + Len(mailbox'[a])
      BY <1>2, <1>3, <1>4, <2>1, <2>3, <2>4
    <3>2. \A k \in 1 .. Len(mailbox'[a]) : mailbox'[a][k] = last'[a] + 0 + k
      BY <1>3, <1>4, <2>1, <2>3, <2>4
    <3>3. starts'[a] # 0
      BY <1>2, <1>4, <2>1
    <3> QED
      BY <2>2, <2>3, <3>1, <3>2, <3>3
  <2>6. \A b \in Dedicated : b # a => InOrder(b)'
    <3>1. \A b \in Dedicated : b # a => Taken(b)' = Taken(b)
      BY <2>2 DEF Taken
    <3> QED
      BY <1>2, <1>4, <2>1, <2>2, <2>4, <3>1
  <2>7. DedicatedInOrder'
    BY <2>5, <2>6 DEF DedicatedInOrder
  <2>8. last' = [last EXCEPT ![a] = @ + 1] /\ last[a] < sent[a] /\ last[a] + 1 <= sent[a]
    <3>1. sent[a] = last[a] + 1 + Len(mailbox[a])
      BY <1>4, <2>3
    <3>2. \A l, n \in Nat : l < l + 1 + n /\ l + 1 <= l + 1 + n
      OBVIOUS
    <3> QED
      BY <1>3, <2>1, <2>3, <3>1, <3>2
  <2>9. NoneAhead'
    BY <1>2, <1>3, <2>4, <2>8 DEF IInv, NoneAhead
  <2>10. Promise!Begin(a)
    BY <1>2, <2>2, <2>8 DEF Promise!Begin
  <2> QED
    BY <1>2, <1>3, <2>7, <2>9, <2>10 DEF IInv, Promise!Next
<1>7. CASE Test(a, 1) \/ TakeInterrupted(a, 1) \/ Return(a, 1) \/ Throw(a, 1)
  <2>1. PICK l \in {"take", "done", "test", "dead"} :
          /\ at' = [at EXCEPT ![a][1] = l] /\ at[a][1] \in {"test", "take", "invoke"}
          /\ UNCHANGED <<last, mailbox, got>>
    BY <1>7 DEF Test, TakeInterrupted, Return, Throw, Goto
  <2>2. /\ at'[a][1] = l /\ \A b \in Dedicated : b # a => at'[b][1] = at[b][1]
        /\ a \in Executing <=> at[a][1] = "invoke"
        /\ Executing' = Executing \ {a}
    BY <1>2, <2>1, ThreadMoves
  <2>3. \A b \in Dedicated : /\ Taken(b)' = Taken(b)
                             /\ at'[b][1] = "enter" => at[b][1] = "enter"
                             /\ starts[b] = 0 => at'[b][1] = at[b][1]
    BY <1>4, <2>1, <2>2 DEF Taken
  <2>4. DedicatedInOrder'
    BY <1>2, <1>4, <2>1, <2>3 DEF DedicatedInOrder
  <2>5. NoneAhead'
    BY <1>2, <2>1 DEF IInv, NoneAhead
  <2>6. CASE a \in Executing
    <3>1. Promise!Finish(a)
      BY <1>2, <2>1, <2>2, <2>6 DEF Promise!Finish
    <3> QED
      BY <1>2, <1>3, <2>4, <2>5, <3>1 DEF IInv, Promise!Next
  <2>7. CASE a \notin Executing
    <3>1. UNCHANGED Promise!vars
      BY <1>2, <2>1, <2>2, <2>7 DEF Promise!vars
    <3> QED
      BY <1>2, <2>4, <2>5, <3>1 DEF IInv
  <2> QED
    BY <2>6, <2>7
<1> QED
  BY <1>5, <1>6, <1>7 DEF ThreadStep

------------------------------------------------------------------------------
(* The implementation of Mailboxes *)

LEMMA OutsideStep ==
  ASSUME MaxStart = 1, IInv, NEW a \in Actor, Send(a) \/ Start(a) \/ Stop(a)
  PROVE  IInv' /\ [Promise!Next]_Promise!vars
<1>1. Executing' = Executing
  <2>1. \A b \in Dedicated, i \in Incarnation : at'[b][i] = "invoke" <=> at[b][i] = "invoke"
    <3>1. \/ at' = at
          \/ /\ starts[a] = 0 /\ a \in Dedicated
             /\ at' = [at EXCEPT ![a][1] = "test"]
      <4>1. CASE Start(a)
        <5>1. starts \in [Actor -> 0 .. 1] /\ starts[a] < 1
          BY <4>1 DEF IInv, TypeOK, Start
        <5>2. starts[a] = 0
          BY <5>1
        <5> QED
          BY <4>1, <5>2 DEF Start, StartShared, StartDedicated, dedicatedVars
      <4> QED
        BY <4>1 DEF Send, Stop
    <3>2. Incarnation = {1}
      BY DEF Incarnation
    <3>3. starts[a] = 0 /\ a \in Dedicated => at[a][1] = "none"
      BY DEF IInv, DedicatedInOrder
    <3> QED
      BY <3>1, <3>2, <3>3 DEF IInv, TypeOK
  <2>2. selector' = "invoke" <=> selector = "invoke"
    BY DEF Send, Start, Stop, StartShared, StartDedicated, sharedVars
  <2>3. selected' = selected
    BY DEF Send, Start, Stop, sharedVars
  <2> QED
    BY <2>1, <2>2, <2>3 DEF Executing
<1>2. CASE Send(a)
  <2>1. Promise!Send(a)
    BY <1>1, <1>2 DEF Send, Promise!Send, handlerVars
  <2> QED
    BY <1>2, <2>1, SendInv DEF Promise!Next
<1>3. CASE Start(a)
  <2>1. UNCHANGED Promise!vars
    BY <1>1, <1>3 DEF Start, Promise!vars, handlerVars
  <2> QED
    BY <1>3, <2>1, StartStopInv
<1>4. CASE Stop(a)
  <2>1. Registered' \in SUBSET Actor
    BY <1>4 DEF IInv, TypeOK, Stop, StopShared, StopDedicated, Registered, Actor
  <2>2. Promise!Rebind
    BY <1>1, <1>4, <2>1 DEF Stop, Promise!Rebind, Registered
  <2> QED
    BY <1>4, <2>2, StartStopInv DEF Promise!Next
<1> QED
  BY <1>2, <1>3, <1>4

LEMMA HandlersStep ==
  ASSUME IInv, (\E a \in Shared : RegisterBegin(a)) \/ RegisterEnd
  PROVE  IInv' /\ Promise!Rebind
<1>1. TypeOK'
  BY TypeHandlers DEF IInv
<1>2. UNCHANGED <<starts, sent, last, selected, queue, selector, mailbox, at, got>>
  BY DEF RegisterBegin, RegisterEnd, sharedVars, dedicatedVars
<1>3. OnTheWay' = OnTheWay /\ Begun' = Begun /\ Executing' = Executing
  BY <1>2 DEF OnTheWay, Begun, Executing
<1>4. SharedInOrder' /\ DedicatedInOrder' /\ NoneAhead'
  BY <1>2, <1>3, SharedFrame, DedicatedFrame DEF IInv, SharedInOrder, NoneAhead
<1>5. Registered' \in SUBSET Actor
  BY <1>1 DEF TypeOK, Registered, Actor
<1> QED
  BY <1>1, <1>2, <1>3, <1>4, <1>5 DEF IInv, Promise!Rebind, Registered

LEMMA SelectorSteps ==
  ASSUME IInv, SelectorStep PROVE IInv' /\ [Promise!Next]_Promise!vars
<1>1. selected # <<>> => Head(selected).to \in Actor
  BY WayHead, WayType
<1>2. CASE Select \/ NextRound
  BY <1>2, SelectStep
<1>3. CASE Invoke
  BY <1>1, <1>3, InvokeStep DEF Promise!Next, Invoke
<1>4. CASE Skip
  BY <1>1, <1>4, SkipStep DEF Promise!Next, Skip
<1>5. CASE InvokeReturns \/ InvokeThrows
  <2>1. selected # <<>>
    BY <1>5 DEF IInv, TypeOK, InvokeReturns, InvokeThrows
  <2> QED
    BY <1>1, <1>5, <2>1, InvokeEndsStep DEF Promise!Next
<1> QED
  BY <1>2, <1>3, <1>4, <1>5 DEF SelectorStep

LEMMA Step ==
  ASSUME MaxStart = 1, IInv, [Next]_vars
  PROVE  IInv' /\ [Promise!Next]_Promise!vars
<1>1. CASE UNCHANGED vars
  <2>1. TypeOK'
    BY <1>1, TypeStep DEF IInv
  <2>2. OnTheWay' = OnTheWay /\ Begun' = Begun /\ Executing' = Executing
    BY <1>1 DEF vars, OnTheWay, Begun, Executing
  <2>3. SharedInOrder' /\ DedicatedInOrder' /\ NoneAhead'
    BY <1>1, <2>2, SharedFrame, DedicatedFrame DEF IInv, SharedInOrder, NoneAhead, vars
  <2> QED
    BY <1>1, <2>1, <2>2, <2>3 DEF IInv, vars, Promise!vars
<1>2. CASE \E a \in Dedicated, i \in Incarnation : ThreadStep(a, i)
  <2>1. Incarnation = {1}
    BY DEF Incarnation
  <2> QED
    BY <1>2, <2>1, ThreadInv
<1>3. CASE (\E a \in Shared : RegisterBegin(a)) \/ RegisterEnd
  BY <1>3, HandlersStep DEF Promise!Next
<1> QED
  BY <1>1, <1>2, <1>3, OutsideStep, SelectorSteps DEF Next

LEMMA PromiseInit == Init => Promise!Init
  BY DEF Init, Promise!Init, Executing, Actor

\* As long as no actor is started twice, the single thread of the shared dispatcher
\* and the threads of the others execute the messages of each actor one at a time,
\* in the order of their sending, and lose only those of unregistered actors
\* (EventBasedSingleThreadDispatcher.scala:23-31, ThreadBasedDispatcher.scala:29-41).
THEOREM Implementation == ASSUME MaxStart = 1 PROVE Spec => ImplementsMailboxes
<1>1. Init => IInv /\ Promise!Init
  BY InitInv, PromiseInit
<1>2. IInv /\ [Next]_vars => IInv' /\ [Promise!Next]_Promise!vars
  BY Step
<1> QED
  BY <1>1, <1>2, PTL DEF Spec, ImplementsMailboxes, Promise!Spec

===============================================================================
