--------------------- MODULE ThreadPoolDispatcher_proofs ---------------------
(***************************************************************************)
(* Proofs about the thread-pool dispatcher, for any number of actors and   *)
(* threads and any bounds: type correctness, at most one message of an     *)
(* actor on its way or executing, no lost wake-up of the selector, and the *)
(* implementation of Mailboxes.                                            *)
(***************************************************************************)
EXTENDS ThreadPoolDispatcher, SequenceTheorems, TLAPS

IInv == TypeOK /\ OneAtATime /\ Accounting

LEMMA InitIInv == Init => IInv
<1> SUFFICES ASSUME Init PROVE IInv
  OBVIOUS
<1> USE DEF Init
<1>1. TypeOK
  <2>1. <<>> \in Seq(Nat)
    OBVIOUS
  <2>2. [a \in Actor |-> <<>>] \in [Actor -> Seq(Nat)]
    BY <2>1
  <2>3. task \in [Runner -> Invocation \cup {None}]
    OBVIOUS
  <2>4. phase \in [Runner -> {"idle", "invoke", "free", "wake"}]
        /\ \A r \in Runner : ~Holding(r)
    BY DEF Holding
  <2> QED
    BY <2>2, <2>3, <2>4 DEF TypeOK
<1>2. OneAtATime
  BY DEF OneAtATime, Holding
<1>3. Accounting
  BY DEF Accounting, ListsInOrder, NothingBetween, WaitingIsNext, HeldIsLast,
         HandedOverOnce, Due, Holding
<1> QED
  BY <1>1, <1>2, <1>3 DEF IInv

\* What the selector reserves is the first selected invocation of receivers
\* that are not busy.
LEMMA FirstOfType ==
  ASSUME TypeOK, NEW S \in SUBSET Ready
  PROVE  /\ FirstOf(S) \in SUBSET Invocation
         /\ RemoveFirst(S) \in [Actor -> Seq(Nat)]
<1> \A a \in S : Head(selected[a]) \in Nat /\ Tail(selected[a]) \in Seq(Nat)
  BY DEF TypeOK, Ready
<1> QED
  BY DEF TypeOK, FirstOf, RemoveFirst, Invocation, Ready

LEMMA TypeStep == TypeOK /\ [Next]_vars => TypeOK'
<1> SUFFICES ASSUME TypeOK, [Next]_vars PROVE TypeOK'
  OBVIOUS
<1> USE DEF TypeOK, dispatcherVars, queueVars, poolVars, Holding
<1>1. ASSUME NEW a \in Actor, Send(a) PROVE TypeOK'
  BY <1>1 DEF Send
<1>2. ASSUME NEW a \in Actor, Register(a) PROVE TypeOK'
  BY <1>2 DEF Register
<1>3. ASSUME NEW a \in Actor, Unregister(a) PROVE TypeOK'
  BY <1>3 DEF Unregister
<1>4. CASE Start
  BY <1>4 DEF Start
<1>5. CASE Shutdown
  BY <1>5 DEF Shutdown
<1>6. CASE DoShutdown
  BY <1>6 DEF DoShutdown
<1>7. CASE Read
  <2>1. selected' \in [Actor -> Seq(Nat)] /\ queue' \in [Actor -> Seq(Nat)]
    <3>1. CASE UNCHANGED <<queue, selected>>
      BY <3>1
    <3>2. CASE /\ selected' = [a \in Actor |-> selected[a] \o queue[a]]
               /\ queue' = [a \in Actor |-> <<>>]
      <4>1. \A a \in Actor : selected[a] \o queue[a] \in Seq(Nat)
        OBVIOUS
      <4>2. <<>> \in Seq(Nat)
        OBVIOUS
      <4> QED
        BY <3>2, <4>1, <4>2
    <3> QED
      BY <1>7, <3>1, <3>2 DEF Read
  <2>2. interrupted' \in BOOLEAN
    BY <1>7 DEF Read
  <2> QED
    BY <1>7, <2>1, <2>2 DEF Read
<1>8. CASE ReadInterrupted
  BY <1>8 DEF ReadInterrupted
<1>9. CASE Reserve
  BY <1>9, FirstOfType DEF Reserve, Ready
<1>10. CASE ReserveFails
  <2>1. PICK S \in SUBSET (Ready \cap handlers) :
          busy' = busy \cup S /\ selected' = RemoveFirst(S)
    BY <1>10 DEF ReserveFails
  <2>2. S \in SUBSET Ready /\ S \in SUBSET Actor
    BY <2>1 DEF Ready
  <2> QED
    BY <1>10, <2>1, <2>2, FirstOfType DEF ReserveFails
<1>11. ASSUME NEW x \in reserved, Submit(x) PROVE TypeOK'
  BY <1>11 DEF Submit, Enter, Runner, Invocation
<1>12. CASE NextRound
  BY <1>12 DEF NextRound
<1>13. ASSUME NEW t \in Thread, Take(t) PROVE TypeOK'
  BY <1>13 DEF Take, Enter, Runner, Invocation
<1>14. ASSUME NEW r \in Runner, InvokeReturns(r) PROVE TypeOK'
  BY <1>14 DEF InvokeReturns
<1>15. ASSUME NEW r \in Runner, InvokeThrows(r) PROVE TypeOK'
  BY <1>15 DEF InvokeThrows
<1>16. ASSUME NEW r \in Runner, Free(r) PROVE TypeOK'
  BY <1>16 DEF Free
<1>17. ASSUME NEW r \in Runner, WakeUp(r) PROVE TypeOK'
  BY <1>17 DEF WakeUp
<1>18. CASE UNCHANGED vars
  BY <1>18 DEF vars
<1> QED
  BY <1>1, <1>2, <1>3, <1>4, <1>5, <1>6, <1>7, <1>8, <1>9, <1>10, <1>11,
     <1>12, <1>13, <1>14, <1>15, <1>16, <1>17, <1>18
  DEF Next, SelectorStep, Run

LEMMA OneAtATimeStep == IInv /\ [Next]_vars => OneAtATime'
<1> SUFFICES ASSUME IInv, [Next]_vars PROVE OneAtATime'
  OBVIOUS
<1> USE DEF IInv, OneAtATime, Holding, dispatcherVars, queueVars, poolVars
<1>1. ASSUME NEW a \in Actor, Send(a) \/ Register(a) \/ Unregister(a)
      PROVE OneAtATime'
  BY <1>1 DEF Send, Register, Unregister
<1>2. CASE Start \/ Shutdown \/ DoShutdown
  BY <1>2 DEF Start, Shutdown, DoShutdown
<1>3. CASE Read \/ ReadInterrupted \/ ReserveFails \/ NextRound
  BY <1>3 DEF Read, ReadInterrupted, ReserveFails, NextRound
<1>4. CASE Reserve
  <2>1. reserved = {} /\ reserved' = FirstOf(Ready)
    BY <1>4 DEF Reserve, Accounting, HandedOverOnce
  <2>2. \A x \in reserved' : x.to \in Actor /\ x.to \notin busy
    BY <2>1 DEF FirstOf, Ready
  <2>3. \A x, y \in reserved' : x.to = y.to => x = y
    BY <2>1 DEF FirstOf
  <2>4. \A x \in pool : x.to \in busy
    BY DEF Accounting, WaitingIsNext
  <2>5. \A r \in Runner : Holding(r) => task[r].to \in busy
    BY DEF Accounting, HeldIsLast
  <2> QED
    BY <1>4, <2>2, <2>3, <2>4, <2>5 DEF Reserve
<1>5. ASSUME NEW x \in reserved, Submit(x) PROVE OneAtATime'
  <2>1. CASE UNCHANGED poolVars
    BY <1>5, <2>1 DEF Submit
  <2>2. CASE pool' = pool \cup {x} /\ UNCHANGED <<phase, task, last>>
    BY <1>5, <2>2 DEF Submit
  <2>3. CASE Enter(Selector, x) /\ UNCHANGED pool
    BY <1>5, <2>3 DEF Submit, Enter, TypeOK, Accounting, HandedOverOnce,
                        Runner
  <2> QED
    BY <1>5, <2>1, <2>2, <2>3 DEF Submit
<1>6. ASSUME NEW t \in Thread, Take(t) PROVE OneAtATime'
  BY <1>6 DEF Take, Enter, TypeOK, Accounting, HandedOverOnce, Runner
<1>7. ASSUME NEW r \in Runner, Run(r) PROVE OneAtATime'
  \* A runner that goes on can only let go of its invocation.
  <2>1. phase \in [Runner -> {"idle", "invoke", "free", "wake"}]
        /\ task \in [Runner -> Invocation \cup {None}]
    BY DEF TypeOK
  <2>2. reserved' \subseteq reserved /\ pool' = pool
    <3>1. CASE InvokeReturns(r)
      BY <3>1 DEF InvokeReturns
    <3>2. CASE InvokeThrows(r)
      BY <3>2 DEF InvokeThrows
    <3>3. CASE Free(r)
      BY <3>3 DEF Free
    <3>4. CASE WakeUp(r)
      BY <3>4 DEF WakeUp
    <3> QED
      BY <1>7, <3>1, <3>2, <3>3, <3>4 DEF Run
  <2>3. \A s \in Runner : Holding(s)' => Holding(s) /\ task'[s] = task[s]
    <3>1. CASE InvokeReturns(r)
      BY <2>1, <3>1 DEF InvokeReturns
    <3>2. CASE InvokeThrows(r)
      BY <2>1, <3>2 DEF InvokeThrows
    <3>3. CASE Free(r)
      BY <2>1, <3>3 DEF Free
    <3>4. CASE WakeUp(r)
      BY <2>1, <3>4 DEF WakeUp
    <3> QED
      BY <1>7, <3>1, <3>2, <3>3, <3>4 DEF Run
  <2>4. \A s, t \in Runner :
          Holding(s)' /\ Holding(t)' /\ task'[s].to = task'[t].to => s = t
    BY <2>3
  <2>5. \A x \in reserved' \cup pool', s \in Runner :
          Holding(s)' => task'[s].to # x.to
    BY <2>2, <2>3
  <2>6. \A x, y \in reserved' \cup pool' : x.to = y.to => x = y
    BY <2>2
  <2> QED
    BY <2>4, <2>5, <2>6
<1>8. CASE UNCHANGED vars
  BY <1>8 DEF vars
<1> QED
  BY <1>1, <1>2, <1>3, <1>4, <1>5, <1>6, <1>7, <1>8 DEF Next, SelectorStep

\* `Due' counts, and so do the lengths it is computed from.
LEMMA DueType ==
  ASSUME TypeOK, NEW a \in Actor
  PROVE  Due(a) \in Int /\ Len(queue[a]) \in Nat /\ Len(selected[a]) \in Nat
<1>1. queue[a] \in Seq(Nat) /\ selected[a] \in Seq(Nat) /\ sent[a] \in Nat
  BY DEF TypeOK
<1> QED
  BY <1>1 DEF Due

\* Removing the first selected invocation of some receivers makes one more of
\* their messages due, the one that was first, and leaves the rest in order.
LEMMA RemoveFirstStep ==
  ASSUME TypeOK, ListsInOrder, NEW S \in SUBSET Ready,
         selected' = RemoveFirst(S), UNCHANGED <<queue, sent>>
  PROVE  /\ ListsInOrder'
         /\ \A a \in S : Due(a)' = Due(a) + 1 /\ Head(selected[a]) = Due(a) + 1
         /\ \A a \in Actor \ S : Due(a)' = Due(a) /\ selected'[a] = selected[a]
<1>1. ASSUME NEW a \in S
      PROVE  /\ Due(a)' = Due(a) + 1
             /\ Head(selected[a]) = Due(a) + 1
             /\ \A i \in 1 .. Len(selected'[a]) : selected'[a][i] = Due(a)' + i
  <2>1. /\ a \in Actor /\ selected[a] # <<>> /\ selected[a] \in Seq(Nat)
        /\ queue[a] \in Seq(Nat) /\ sent[a] \in Nat
    BY DEF Ready, TypeOK
  <2>2. selected'[a] = Tail(selected[a])
    BY <2>1 DEF RemoveFirst
  <2>3. Len(selected[a]) > 0
    BY <2>1
  <2>4. Len(selected'[a]) = Len(selected[a]) - 1
    BY <2>1, <2>2, <2>3
  <2>5. Due(a)' = Due(a) + 1
    BY <2>1, <2>4 DEF Due
  <2>6. Head(selected[a]) = Due(a) + 1
    BY <2>1, <2>3 DEF ListsInOrder
  <2>7. ASSUME NEW i \in 1 .. Len(selected'[a])
        PROVE  selected'[a][i] = Due(a)' + i
    <3>1. selected'[a][i] = selected[a][i + 1] /\ i + 1 \in 1 .. Len(selected[a])
      BY <2>1, <2>2, <2>3, <2>4
    <3>2. selected[a][i + 1] = Due(a) + (i + 1)
      BY <2>1, <3>1 DEF ListsInOrder
    <3> QED
      BY <2>1, <2>5, <3>1, <3>2, DueType
  <2> QED
    BY <2>5, <2>6, <2>7
<1>2. ASSUME NEW a \in Actor \ S
      PROVE  Due(a)' = Due(a) /\ selected'[a] = selected[a]
  BY DEF RemoveFirst, Due
<1>3. ListsInOrder'
  BY <1>1, <1>2 DEF ListsInOrder
<1> QED
  BY <1>1, <1>2, <1>3

\* Arithmetic of the concatenation of two lists.
LEMMA MoveLength ==
  ASSUME NEW n \in Nat, NEW m \in Nat, NEW k \in Nat
  PROVE  n - 0 - (m + k) = n - k - m
  OBVIOUS

LEMMA SecondPart ==
  ASSUME NEW m \in Nat, NEW k \in Nat, NEW i \in 1 .. (m + k), i > m
  PROVE  i - m \in 1 .. k
  OBVIOUS

\* Every step keeps the account of the messages: the part of the inductive
\* invariant that carries the order of delivery.
LEMMA AccountingStep == IInv /\ [Next]_vars => Accounting'
<1> SUFFICES ASSUME IInv, [Next]_vars PROVE Accounting'
  OBVIOUS
<1> USE DEF IInv
<1>t. TypeOK'
  BY TypeStep
<1>o. /\ ListsInOrder /\ NothingBetween /\ WaitingIsNext /\ HeldIsLast
      /\ HandedOverOnce
  BY DEF Accounting
<1>1. ASSUME NEW a \in Actor, Send(a) PROVE Accounting'
  <2>1. /\ queue' = [queue EXCEPT ![a] = Append(@, sent[a] + 1)]
        /\ sent' = [sent EXCEPT ![a] = @ + 1]
        /\ UNCHANGED <<selected, selector, reserved, busy, pool, phase, task,
                       last>>
    BY <1>1 DEF Send, dispatcherVars, poolVars
  <2>2. \A b \in Actor : Due(b)' = Due(b)
    BY <2>1, DueType DEF Due, TypeOK
  <2>3. ListsInOrder'
    <3> SUFFICES ASSUME NEW b \in Actor
                 PROVE  /\ \A i \in 1 .. Len(queue'[b]) :
                             queue'[b][i] = sent'[b] - Len(queue'[b]) + i
                        /\ \A i \in 1 .. Len(selected'[b]) :
                             selected'[b][i] = Due(b)' + i
      BY DEF ListsInOrder
    <3>1. CASE b # a
      BY <1>o, <2>1, <2>2, <3>1 DEF ListsInOrder, TypeOK
    <3>2. CASE b = a
      <4>1. queue[a] \in Seq(Nat) /\ sent[a] \in Nat
        BY DEF TypeOK
      <4>2. queue'[a] = Append(queue[a], sent[a] + 1) /\ sent'[a] = sent[a] + 1
        BY <2>1 DEF TypeOK
      <4>3. \A i \in 1 .. Len(queue[a]) :
              queue[a][i] = sent[a] - Len(queue[a]) + i
        BY <1>o DEF ListsInOrder
      <4>4. ASSUME NEW i \in 1 .. Len(queue'[a])
            PROVE  queue'[a][i] = sent'[a] - Len(queue'[a]) + i
        <5>1. /\ Len(queue'[a]) = Len(queue[a]) + 1 /\ Len(queue[a]) \in Nat
              /\ \A k \in 1 .. Len(queue[a]) : queue'[a][k] = queue[a][k]
              /\ queue'[a][Len(queue[a]) + 1] = sent[a] + 1
          BY <4>1, <4>2, AppendProperties, LenProperties
        <5>2. CASE i = Len(queue[a]) + 1
          BY <4>1, <4>2, <5>1, <5>2
        <5>3. CASE i # Len(queue[a]) + 1
          <6>1. i \in 1 .. Len(queue[a])
            BY <5>1, <5>3
          <6>2. queue'[a][i] = sent[a] - Len(queue[a]) + i
            BY <4>3, <5>1, <6>1
          <6> QED
            BY <4>1, <4>2, <5>1, <6>1, <6>2
        <5> QED
          BY <5>2, <5>3
      <4>5. \A i \in 1 .. Len(selected'[a]) : selected'[a][i] = Due(a)' + i
        BY <1>o, <2>1, <2>2 DEF ListsInOrder
      <4> QED
        BY <3>2, <4>4, <4>5
    <3> QED
      BY <3>1, <3>2
  <2>4. \A x \in reserved \cup pool : x.to \in Actor
    BY DEF TypeOK, Invocation
  <2>5. \A r \in Runner : Holding(r) => task[r].to \in Actor
    BY DEF TypeOK, Invocation
  <2> QED
    BY <1>o, <2>1, <2>2, <2>3, <2>4, <2>5
    DEF Accounting, NothingBetween, WaitingIsNext, HeldIsLast, HandedOverOnce,
        Holding
<1>2. ASSUME NEW a \in Actor, Register(a) \/ Unregister(a) PROVE Accounting'
  BY <1>2, <1>o DEF Register, Unregister, dispatcherVars, queueVars, poolVars,
     Accounting, ListsInOrder, NothingBetween, WaitingIsNext, HeldIsLast,
     HandedOverOnce, Due, Holding
<1>3. CASE Start \/ Shutdown \/ ReadInterrupted
  BY <1>3, <1>o DEF Start, Shutdown, ReadInterrupted, dispatcherVars, queueVars,
     poolVars, Accounting, ListsInOrder, NothingBetween, WaitingIsNext,
     HeldIsLast, HandedOverOnce, Due, Holding
<1>4. CASE DoShutdown
  BY <1>4, <1>o DEF DoShutdown, queueVars, Accounting, ListsInOrder,
     NothingBetween, WaitingIsNext, HeldIsLast, HandedOverOnce, Due, Holding
<1>5. CASE Read
  <2>1. CASE UNCHANGED <<queue, selected>>
    BY <1>5, <1>o, <2>1 DEF Read, poolVars, Accounting, ListsInOrder,
       NothingBetween, WaitingIsNext, HeldIsLast, HandedOverOnce, Due, Holding
  <2>2. CASE /\ selected' = [a \in Actor |-> selected[a] \o queue[a]]
             /\ queue' = [a \in Actor |-> <<>>]
    <3>1. ASSUME NEW a \in Actor
          PROVE  /\ Due(a)' = Due(a)
                 /\ \A i \in 1 .. Len(selected'[a]) :
                      selected'[a][i] = Due(a)' + i
                 /\ Len(queue'[a]) = 0
      <4>1. /\ selected[a] \in Seq(Nat) /\ queue[a] \in Seq(Nat)
            /\ sent[a] \in Nat /\ sent' = sent
        BY <1>5 DEF TypeOK, Read
      <4>2. /\ selected'[a] = selected[a] \o queue[a] /\ queue'[a] = <<>>
        BY <2>2
      <4>3. /\ Len(selected'[a]) = Len(selected[a]) + Len(queue[a])
            /\ Len(queue'[a]) = 0
        BY <4>1, <4>2
      <4>n. /\ Len(selected[a]) \in Nat /\ Len(queue[a]) \in Nat
            /\ sent[a] \in Nat /\ sent'[a] = sent[a]
        BY <4>1, LenProperties
      <4>4. Due(a)' = Due(a)
        <5>1. Due(a)' = sent[a] - 0 - (Len(selected[a]) + Len(queue[a]))
          BY <4>3, <4>n DEF Due
        <5>2. Due(a) = sent[a] - Len(queue[a]) - Len(selected[a])
          BY DEF Due
        <5> QED
          BY <4>n, <5>1, <5>2, MoveLength
      <4>5. ASSUME NEW i \in 1 .. Len(selected'[a])
            PROVE  selected'[a][i] = Due(a) + i
        <5>1. CASE i <= Len(selected[a])
          BY <1>o, <4>1, <4>2, <4>3, <5>1 DEF ListsInOrder
        <5>2. CASE i > Len(selected[a])
          <6>1. i - Len(selected[a]) \in 1 .. Len(queue[a])
            <7>1. i \in 1 .. (Len(selected[a]) + Len(queue[a]))
              BY <4>3
            <7> QED
              BY <4>n, <5>2, <7>1, SecondPart
          <6>2. selected'[a][i] = queue[a][i - Len(selected[a])]
            BY <4>1, <4>2, <4>3, <5>2, ConcatProperties
          <6> QED
            BY <1>o, <4>n, <6>1, <6>2 DEF ListsInOrder, Due
        <5> QED
          BY <4>1, <4>3, <5>1, <5>2
      <4> QED
        BY <4>3, <4>4, <4>5
    <3>2. ListsInOrder'
      BY <3>1 DEF ListsInOrder
    <3>3. /\ \A x \in reserved \cup pool : x.to \in Actor
          /\ \A r \in Runner : Holding(r) => task[r].to \in Actor
      BY DEF TypeOK, Invocation
    <3> QED
      BY <1>5, <1>o, <3>1, <3>2, <3>3 DEF Read, poolVars, Accounting,
         NothingBetween, WaitingIsNext, HeldIsLast, HandedOverOnce, Holding
  <2> QED
    BY <1>5, <2>1, <2>2 DEF Read
<1>6. CASE Reserve
  <2>1. /\ selected' = RemoveFirst(Ready) /\ reserved' = FirstOf(Ready)
        /\ busy' = busy \cup Ready /\ reserved = {} /\ selector' = "submit"
        /\ UNCHANGED <<queue, sent, pool, phase, task, last>>
    BY <1>6, <1>o DEF Reserve, queueVars, poolVars, HandedOverOnce
  <2>2. /\ ListsInOrder'
        /\ \A a \in Ready :
             Due(a)' = Due(a) + 1 /\ Head(selected[a]) = Due(a) + 1
        /\ \A a \in Actor \ Ready :
             Due(a)' = Due(a) /\ selected'[a] = selected[a]
    BY <1>o, <2>1, RemoveFirstStep
  <2>3. /\ \A x \in pool : x.to \in Actor /\ x.to \notin Ready
        /\ \A r \in Runner :
             Holding(r) => task[r].to \in Actor /\ task[r].to \notin Ready
    <3>1. \A x \in pool : x.to \in Actor /\ x.to \in busy
      BY <1>o DEF TypeOK, Invocation, WaitingIsNext
    <3>2. \A r \in Runner :
            Holding(r) => task[r].to \in Actor /\ task[r].to \in busy
      <4>1. \A r \in Runner : Holding(r) => task[r].to \in Actor
        BY DEF TypeOK, Invocation
      <4> QED
        BY <1>o, <4>1 DEF HeldIsLast
    <3> QED
      BY ONLY <3>1, <3>2 DEF Ready
  <2>4. NothingBetween'
    <3>1. \A a \in Actor : /\ Due(a) \in {last[a], last[a] + 1}
                           /\ a \notin busy => last[a] = Due(a)
      BY <1>o DEF NothingBetween
    <3>2. \A a \in Ready : a \in Actor /\ a \notin busy
      BY DEF Ready
    <3>3. ASSUME NEW a \in Actor
          PROVE  /\ Due(a)' \in {last'[a], last'[a] + 1}
                 /\ a \notin busy' => last'[a] = Due(a)'
      <4>1. CASE a \in Ready
        BY <2>1, <2>2, <3>1, <3>2, <4>1
      <4>2. CASE a \notin Ready
        BY <2>1, <2>2, <3>1, <4>2
      <4> QED
        BY <4>1, <4>2
    <3> QED
      BY <2>1, <3>3 DEF NothingBetween
  <2>5. ASSUME NEW x \in FirstOf(Ready)
        PROVE  x.to \in Ready /\ x.n = last[x.to] + 1 /\ x.n = Due(x.to)'
    <3>1. x.to \in Ready /\ x.n = Head(selected[x.to])
      BY DEF FirstOf
    <3>2. x.to \in Actor /\ last[x.to] = Due(x.to)
      BY <1>o, <3>1 DEF Ready, NothingBetween
    <3> QED
      BY <2>2, <3>1, <3>2
  <2>6. WaitingIsNext'
    BY <1>o, <2>1, <2>2, <2>3, <2>5 DEF WaitingIsNext
  <2>7. HeldIsLast'
    BY <1>o, <2>1, <2>2, <2>3 DEF HeldIsLast, Holding
  <2>8. HandedOverOnce'
    BY <2>1, <2>3, <2>5 DEF HandedOverOnce
  <2> QED
    BY <2>2, <2>4, <2>6, <2>7, <2>8 DEF Accounting
<1>7. CASE ReserveFails
  <2>1. PICK S \in SUBSET (Ready \cap handlers) :
          busy' = busy \cup S /\ selected' = RemoveFirst(S)
    BY <1>7 DEF ReserveFails
  <2>2. /\ UNCHANGED <<queue, sent, pool, phase, task, last, reserved>>
        /\ reserved = {} /\ selector' = "dead"
    BY <1>7, <1>o DEF ReserveFails, queueVars, poolVars, HandedOverOnce
  <2>3. /\ ListsInOrder'
        /\ \A a \in Actor \ S :
             Due(a)' = Due(a) /\ selected'[a] = selected[a]
        /\ \A a \in S : Due(a)' = Due(a) + 1
    BY <1>o, <2>1, <2>2, RemoveFirstStep
  <2>4. /\ \A x \in pool : x.to \in Actor /\ x.to \notin S
        /\ \A r \in Runner :
             Holding(r) => task[r].to \in Actor /\ task[r].to \notin S
    <3>1. \A x \in pool : x.to \in Actor /\ x.to \in busy
      BY <1>o DEF TypeOK, Invocation, WaitingIsNext
    <3>2. \A r \in Runner :
            Holding(r) => task[r].to \in Actor /\ task[r].to \in busy
      <4>1. \A r \in Runner : Holding(r) => task[r].to \in Actor
        BY DEF TypeOK, Invocation
      <4> QED
        BY <1>o, <4>1 DEF HeldIsLast
    <3> QED
      BY ONLY <2>1, <3>1, <3>2 DEF Ready
  <2> QED
    <3>2. busy \subseteq busy'
      BY <2>1
    <3>3. NothingBetween'
      <4>1. \A a \in Actor : /\ Due(a) \in {last[a], last[a] + 1}
                             /\ a \notin busy => last[a] = Due(a)
        BY <1>o DEF NothingBetween
      <4>2. \A a \in S : a \in Actor /\ a \notin busy /\ a \in busy'
        BY <2>1 DEF Ready
      <4>3. ASSUME NEW a \in Actor
            PROVE  /\ Due(a)' \in {last'[a], last'[a] + 1}
                   /\ a \notin busy' => last'[a] = Due(a)'
        <5>1. CASE a \in S
          BY <2>2, <2>3, <4>1, <4>2, <5>1
        <5>2. CASE a \notin S
          BY <2>2, <2>3, <3>2, <4>1, <5>2
        <5> QED
          BY <5>1, <5>2
      <4> QED
        BY <2>2, <4>3 DEF NothingBetween
    <3>4. WaitingIsNext'
      BY <1>o, <2>2, <2>3, <2>4, <3>2 DEF WaitingIsNext
    <3>5. HeldIsLast'
      BY <1>o, <2>2, <2>3, <2>4, <3>2 DEF HeldIsLast, Holding
    <3>6. HandedOverOnce'
      BY <2>2 DEF HandedOverOnce
    <3> QED
      BY <2>3, <3>3, <3>4, <3>5, <3>6 DEF Accounting
<1>8. ASSUME NEW x \in reserved, Submit(x) PROVE Accounting'
  <2>1. /\ selector = "submit" /\ reserved' = reserved \ {x}
        /\ UNCHANGED <<queue, selected, sent, busy, selector>>
        /\ \A a \in Actor : Due(a)' = Due(a)
    BY <1>8 DEF Submit, dispatcherVars, queueVars, Due
  <2>2. CASE UNCHANGED poolVars
    BY <1>o, <2>1, <2>2 DEF poolVars, Accounting, ListsInOrder, NothingBetween,
       WaitingIsNext, HeldIsLast, HandedOverOnce, Due, Holding
  <2>3. CASE pool' = pool \cup {x} /\ UNCHANGED <<phase, task, last>>
    BY <1>o, <2>1, <2>3 DEF Accounting, ListsInOrder, NothingBetween,
       WaitingIsNext, HeldIsLast, HandedOverOnce, Due, Holding
  <2>4. CASE Enter(Selector, x) /\ UNCHANGED pool
    <3>1. Selector \in Runner /\ x.to \in Actor /\ x.n \in Nat
      BY DEF Runner, TypeOK, Invocation
    <3>2. /\ x.to \in busy /\ x.n = Due(x.to) /\ last'[x.to] = x.n
          /\ \A a \in Actor \ {x.to} : last'[a] = last[a]
      BY <1>o, <2>4, <3>1 DEF Enter, WaitingIsNext, TypeOK
    <3>3. \A y \in reserved' \cup pool : y.to \in Actor \ {x.to}
      BY <1>o, <2>1 DEF OneAtATime, HandedOverOnce, TypeOK, Invocation
    <3>4. \A r \in Runner : Holding(r) => task[r].to \in Actor \ {x.to}
      BY DEF OneAtATime, TypeOK, Invocation
    <3>5. /\ task'[Selector] = x
          /\ \A r \in Runner \ {Selector} :
               task'[r] = task[r] /\ (Holding(r)' <=> Holding(r))
      BY <2>4, <3>1 DEF Enter, TypeOK, Holding
    <3>6. NothingBetween' /\ WaitingIsNext'
      BY <1>o, <2>1, <2>4, <3>2, <3>3
      DEF NothingBetween, WaitingIsNext
    <3>7. HeldIsLast'
      BY <1>o, <2>1, <3>1, <3>2, <3>4, <3>5 DEF HeldIsLast
    <3>8. ListsInOrder' /\ HandedOverOnce'
      BY <1>o, <2>1, <2>4 DEF ListsInOrder, HandedOverOnce, Due
    <3> QED
      BY <3>6, <3>7, <3>8 DEF Accounting
  <2> QED
    BY <1>8, <2>2, <2>3, <2>4 DEF Submit
<1>9. CASE NextRound
  BY <1>9, <1>o DEF NextRound, queueVars, poolVars, Accounting, ListsInOrder,
     NothingBetween, WaitingIsNext, HeldIsLast, HandedOverOnce, Due, Holding
<1>10. ASSUME NEW t \in Thread, Take(t) PROVE Accounting'
  <2>1. PICK x \in pool : pool' = pool \ {x} /\ Enter(t, x)
    BY <1>10 DEF Take
  <2>2. /\ UNCHANGED <<queue, selected, sent, busy, reserved, selector>>
        /\ \A a \in Actor : Due(a)' = Due(a)
    BY <1>10 DEF Take, dispatcherVars, queueVars, Due
  <2>3. t \in Runner /\ x.to \in Actor /\ x.n \in Nat
    BY DEF Runner, TypeOK, Invocation
  <2>4. /\ x.to \in busy /\ x.n = Due(x.to) /\ last'[x.to] = x.n
        /\ \A a \in Actor \ {x.to} : last'[a] = last[a]
    BY <1>o, <2>1, <2>3 DEF Enter, WaitingIsNext, TypeOK
  <2>5. \A y \in reserved \cup pool' : y.to \in Actor \ {x.to}
    BY <1>o, <2>1 DEF OneAtATime, HandedOverOnce, TypeOK, Invocation
  <2>6. \A r \in Runner : Holding(r) => task[r].to \in Actor \ {x.to}
    BY <2>1 DEF OneAtATime, TypeOK, Invocation
  <2>7. /\ task'[t] = x
        /\ \A r \in Runner \ {t} :
             task'[r] = task[r] /\ (Holding(r)' <=> Holding(r))
    BY <2>1, <2>3 DEF Enter, TypeOK, Holding
  <2>8. NothingBetween' /\ WaitingIsNext'
    BY <1>o, <2>1, <2>2, <2>4, <2>5 DEF NothingBetween, WaitingIsNext
  <2>9. HeldIsLast'
    BY <1>o, <2>2, <2>3, <2>4, <2>6, <2>7 DEF HeldIsLast
  <2>10. ListsInOrder' /\ HandedOverOnce'
    BY <1>o, <2>1, <2>2 DEF ListsInOrder, HandedOverOnce, Due
  <2> QED
    BY <2>8, <2>9, <2>10 DEF Accounting
<1>11. ASSUME NEW r \in Runner, InvokeReturns(r) \/ InvokeThrows(r)
       PROVE  Accounting'
  <2>1. /\ UNCHANGED <<queue, selected, sent, busy, pool, last>>
        /\ \A a \in Actor : Due(a)' = Due(a)
        /\ reserved' \subseteq reserved
        /\ selector' # "new" \/ selector' = selector
        /\ selector' # "submit" => reserved' = {}
    BY <1>11, <1>o DEF InvokeReturns, InvokeThrows, dispatcherVars, queueVars,
       Due, HandedOverOnce
  <2>2. \A s \in Runner : Holding(s)' => Holding(s) /\ task'[s] = task[s]
    BY <1>11 DEF InvokeReturns, InvokeThrows, Holding, TypeOK
  <2>3. HeldIsLast'
    BY <1>o, <2>1, <2>2 DEF HeldIsLast, TypeOK, Invocation
  <2>4. WaitingIsNext'
    BY <1>o, <2>1 DEF WaitingIsNext, TypeOK, Invocation
  <2> QED
    BY <1>o, <2>1, <2>3, <2>4
    DEF Accounting, ListsInOrder, NothingBetween, HandedOverOnce
<1>12. ASSUME NEW r \in Runner, Free(r) PROVE Accounting'
  <2>1. /\ Holding(r) /\ busy' = busy \ {task[r].to}
        /\ phase' = [phase EXCEPT ![r] = "wake"]
        /\ task' = [task EXCEPT ![r] = None]
        /\ UNCHANGED <<queue, selected, sent, reserved, selector, pool, last>>
        /\ \A a \in Actor : Due(a)' = Due(a)
    BY <1>12 DEF Free, Holding, dispatcherVars, queueVars, Due
  <2>2. /\ last[task[r].to] = Due(task[r].to)
        /\ \A x \in reserved \cup pool : x.to # task[r].to
        /\ \A s \in Runner \ {r} : Holding(s) => task[s].to # task[r].to
    BY <1>o, <2>1 DEF HeldIsLast, OneAtATime
  <2>3. ~Holding(r)'
        /\ \A s \in Runner \ {r} :
             task'[s] = task[s] /\ (Holding(s)' <=> Holding(s))
    BY <2>1 DEF Holding, TypeOK
  <2>4. NothingBetween' /\ WaitingIsNext'
    BY <1>o, <2>1, <2>2 DEF NothingBetween, WaitingIsNext, TypeOK, Invocation
  <2>5. HeldIsLast'
    BY <1>o, <2>1, <2>2, <2>3 DEF HeldIsLast, TypeOK, Invocation
  <2>6. ListsInOrder' /\ HandedOverOnce'
    BY <1>o, <2>1 DEF ListsInOrder, HandedOverOnce
  <2> QED
    BY <2>4, <2>5, <2>6 DEF Accounting
<1>13. ASSUME NEW r \in Runner, WakeUp(r) PROVE Accounting'
  BY <1>13, <1>o DEF WakeUp, dispatcherVars, Accounting, ListsInOrder,
     NothingBetween, WaitingIsNext, HeldIsLast, HandedOverOnce, Due, Holding,
     TypeOK
<1>14. CASE UNCHANGED vars
  BY <1>14, <1>o DEF vars, Accounting, ListsInOrder, NothingBetween,
     WaitingIsNext, HeldIsLast, HandedOverOnce, Due, Holding
<1> QED
  BY <1>1, <1>2, <1>3, <1>4, <1>5, <1>6, <1>7, <1>8, <1>9, <1>10, <1>11,
     <1>12, <1>13, <1>14
  DEF Next, SelectorStep, Run

\* The invariant of all that follows.
THEOREM Invariance == Spec => []IInv
<1>1. IInv /\ [Next]_vars => IInv'
  BY TypeStep, OneAtATimeStep, AccountingStep DEF IInv
<1> QED
  BY <1>1, InitIInv, PTL DEF Spec

\* Every variable keeps its type; in particular a thread that is executing a
\* task has one.
THEOREM TypeCorrect == Spec => []TypeOK
<1>1. IInv => TypeOK
  BY DEF IInv
<1> QED
  BY <1>1, Invariance, PTL

\* `busyInvokers' works: no interleaving of the selector and the pool's threads
\* gives an actor two threads, or queues a second task for it in the pool.
THEOREM MutualExclusion == Spec => []OneAtATime
<1>1. IInv => OneAtATime
  BY DEF IInv
<1> QED
  BY <1>1, Invariance, PTL

\* Where a message is that was sent and not begun, read off the account.
LEMMA WhereMessagesAre == IInv => NothingForgotten
<1> SUFFICES ASSUME IInv, NEW a \in Actor, NEW k \in last[a] + 1 .. sent[a]
             PROVE  \/ \E i \in 1 .. Len(queue[a]) : queue[a][i] = k
                    \/ \E i \in 1 .. Len(selected[a]) : selected[a][i] = k
                    \/ [to |-> a, n |-> k] \in reserved \cup pool
                    \/ Wedged(a) /\ k = last[a] + 1
  BY DEF NothingForgotten
<1>1. /\ TypeOK
      /\ ListsInOrder /\ NothingBetween /\ WaitingIsNext /\ HeldIsLast
  BY DEF IInv, Accounting
<1>2. /\ last[a] \in Nat /\ sent[a] \in Nat /\ Due(a) \in Int
      /\ Len(queue[a]) \in Nat /\ Len(selected[a]) \in Nat
      /\ k \in Int /\ last[a] + 1 <= k /\ k <= sent[a]
  BY <1>1, DueType DEF TypeOK
<1>3. Due(a) = sent[a] - Len(queue[a]) - Len(selected[a])
  BY DEF Due
<1>4. CASE k > sent[a] - Len(queue[a])
  <2> DEFINE i == k - (sent[a] - Len(queue[a]))
  <2>1. i \in 1 .. Len(queue[a]) /\ sent[a] - Len(queue[a]) + i = k
    BY <1>2, <1>4
  <2>2. queue[a][i] = k
    BY <1>1, <2>1 DEF ListsInOrder
  <2> QED
    BY <2>1, <2>2
<1>5. CASE k <= sent[a] - Len(queue[a]) /\ k > Due(a)
  <2> DEFINE i == k - Due(a)
  <2>1. i \in 1 .. Len(selected[a]) /\ Due(a) + i = k
    <3>1. ASSUME NEW d \in Int, NEW m \in Nat, NEW q \in Int,
                 d = q - m, k <= q, k > d, k \in Int
          PROVE  k - d \in 1 .. m /\ d + (k - d) = k
      BY ONLY <3>1
    <3>2. /\ Due(a) \in Int /\ Len(selected[a]) \in Nat /\ k \in Int
          /\ sent[a] - Len(queue[a]) \in Int
          /\ Due(a) = (sent[a] - Len(queue[a])) - Len(selected[a])
      BY <1>2, <1>3
    <3> QED
      BY ONLY <1>5, <3>1, <3>2
  <2>2. selected[a][i] = k
    BY <1>1, <2>1 DEF ListsInOrder
  <2>3. \E j \in 1 .. Len(selected[a]) : selected[a][j] = k
    <3> HIDE DEF i
    <3> QED
      BY <2>1, <2>2
  <2> QED
    BY <2>3
<1>6. CASE k <= Due(a)
  \* The message that left the lists and has not begun.
  <2>1. k = Due(a) /\ k = last[a] + 1 /\ a \in busy
    BY <1>1, <1>2, <1>6 DEF NothingBetween
  <2>2. ASSUME NEW x \in reserved \cup pool, x.to = a
        PROVE  [to |-> a, n |-> k] \in reserved \cup pool
    <3>1. x.n = k
      BY <1>1, <2>1, <2>2 DEF WaitingIsNext
    <3>2. x = [to |-> a, n |-> k]
      BY <1>1, <2>2, <3>1 DEF TypeOK, Invocation
    <3> QED
      BY <3>2
  <2>3. ASSUME NEW r \in Runner, Holding(r), task[r].to = a
        PROVE  FALSE
    <3>1. task[r].n = last[a] /\ task[r].n = Due(a)
      BY <1>1, <2>3 DEF HeldIsLast
    <3> QED
      BY <1>2, <2>1, <3>1
  <2> QED
    BY <2>1, <2>2, <2>3 DEF Wedged, InFlight
<1> QED
  BY <1>2, <1>4, <1>5, <1>6

\* The queue, the selected list, the reservation and the pool together have
\* every message that was sent and not begun, but for the one that a wedged
\* actor lost when the pool was shut down or the selector died.
THEOREM MessagesAccounted == Spec => []NothingForgotten
<1> QED
  BY WhereMessagesAre, Invariance, PTL

------------------------------------------------------------------------------
\* The selector never goes to sleep over an invocation that it could submit:
\* `free' precedes `wakeUp' in the task, and a wake-up that comes between two
\* reads is remembered in `interrupted'.
THEOREM WakeupsAreNotLost == Spec => []NoLostWakeup
<1>1. Init => NoLostWakeup
  BY DEF Init, NoLostWakeup
<1>2. IInv /\ NoLostWakeup /\ [Next]_vars => NoLostWakeup'
  <2> SUFFICES ASSUME IInv, NoLostWakeup, [Next]_vars PROVE NoLostWakeup'
    OBVIOUS
  <2> USE DEF NoLostWakeup, dispatcherVars, queueVars, poolVars
  <2>t. TypeOK
    BY DEF IInv
  <2>1. ASSUME NEW a \in Actor, Send(a) \/ Register(a) \/ Unregister(a)
        PROVE  NoLostWakeup'
    BY <2>1 DEF Send, Register, Unregister
  <2>2. CASE Start
    <3>1. \A a \in Actor : selected[a] = <<>>
      BY <2>2 DEF Start, IInv, Accounting, NothingBetween
    <3> QED
      BY <2>2, <3>1 DEF Start
  <2>3. CASE Shutdown \/ DoShutdown
    BY <2>3 DEF Shutdown, DoShutdown
  <2>4. CASE Read \/ ReadInterrupted \/ ReserveFails
    BY <2>4 DEF Read, ReadInterrupted, ReserveFails
  <2>5. CASE Reserve
    <3>1. ASSUME NEW a \in Actor, selected'[a] # <<>> PROVE a \in busy'
      BY <2>5, <3>1 DEF Reserve, Ready, RemoveFirst
    <3> QED
      BY <3>1
  <2>6. ASSUME NEW x \in reserved, Submit(x) PROVE NoLostWakeup'
    <3>1. \A r \in Runner : phase[r] = "wake" => phase'[r] = "wake"
      BY <2>6, <2>t DEF Submit, Enter, TypeOK
    <3> QED
      BY <2>6, <3>1 DEF Submit
  <2>7. CASE NextRound
    BY <2>7 DEF NextRound
  <2>8. ASSUME NEW t \in Thread, Take(t) PROVE NoLostWakeup'
    <3>1. \A r \in Runner : phase[r] = "wake" => phase'[r] = "wake"
      BY <2>8, <2>t DEF Take, Enter, TypeOK
    <3> QED
      BY <2>8, <3>1 DEF Take
  <2>9. ASSUME NEW r \in Runner, InvokeReturns(r) \/ InvokeThrows(r)
        PROVE  NoLostWakeup'
    <3>1. \A s \in Runner : phase[s] = "wake" => phase'[s] = "wake"
      BY <2>9, <2>t DEF InvokeReturns, InvokeThrows, TypeOK
    <3> QED
      BY <2>9, <3>1 DEF InvokeReturns, InvokeThrows
  <2>10. ASSUME NEW r \in Runner, Free(r) PROVE NoLostWakeup'
    <3>1. phase'[r] = "wake"
      BY <2>10, <2>t DEF Free, TypeOK
    <3> QED
      BY <3>1
  <2>11. ASSUME NEW r \in Runner, WakeUp(r) PROVE NoLostWakeup'
    BY <2>11 DEF WakeUp
  <2>12. CASE UNCHANGED vars
    BY <2>12 DEF vars
  <2> QED
    BY <2>1, <2>2, <2>3, <2>4, <2>5, <2>6, <2>7, <2>8, <2>9, <2>10, <2>11,
       <2>12
    DEF Next, SelectorStep, Run
<1> QED
  BY <1>1, <1>2, Invariance, PTL DEF Spec

------------------------------------------------------------------------------
Executing == {task[r].to : r \in {s \in Runner : phase[s] = "invoke"}}

\* Entering the invoker with x begins the next message of its receiver.
LEMMA EnterBegins ==
  ASSUME IInv, NEW r \in Runner, NEW x \in reserved \cup pool,
         phase[r] = "idle", Enter(r, x), UNCHANGED <<queue, selected, sent, handlers>>
  PROVE  Promise!Begin(x.to) /\ x.to \in Actor
<1> USE DEF IInv
<1>1. /\ x.to \in Actor /\ x.n \in Nat /\ x.n = last[x.to] + 1
      /\ x.n = Due(x.to) /\ last[x.to] \in Nat
  BY DEF TypeOK, Invocation, Accounting, WaitingIsNext
<1>2. Due(x.to) <= sent[x.to]
  <2>1. /\ Len(queue[x.to]) \in Nat /\ Len(selected[x.to]) \in Nat
        /\ sent[x.to] \in Nat
    BY <1>1, DueType DEF TypeOK
  <2> QED
    BY <2>1 DEF Due
<1>3. last[x.to] < sent[x.to]
  <2>1. sent[x.to] \in Nat
    BY <1>1 DEF TypeOK
  <2> QED
    BY <1>1, <1>2, <2>1
<1>4. x.to \notin Executing
  BY DEF Executing, OneAtATime, Holding
<1>5. Executing' = Executing \cup {x.to}
  BY DEF Executing, Enter, TypeOK
<1>6. last' = [last EXCEPT ![x.to] = @ + 1]
  BY <1>1 DEF Enter
<1> QED
  BY <1>1, <1>3, <1>4, <1>5, <1>6 DEF Promise!Begin, Executing

\* Leaving it, normally or by an exception, finishes that message.
LEMMA LeaveFinishes ==
  ASSUME IInv, NEW r \in Runner, InvokeReturns(r) \/ InvokeThrows(r),
         NEW a \in Actor, a = task[r].to
  PROVE  Promise!Finish(a)
<1> USE DEF IInv
<1>1. phase[r] = "invoke" /\ phase'[r] # "invoke"
  BY DEF InvokeReturns, InvokeThrows, TypeOK
<1>2. \A s \in Runner \ {r} :
        task'[s] = task[s] /\ (phase'[s] = "invoke" <=> phase[s] = "invoke")
  BY DEF InvokeReturns, InvokeThrows, TypeOK
<1>3. \A s \in Runner \ {r} : phase[s] = "invoke" => task[s].to # a
  BY <1>1 DEF OneAtATime, Holding
<1>4. Executing' = Executing \ {a} /\ a \in Executing
  BY <1>1, <1>2, <1>3 DEF Executing
<1>5. UNCHANGED <<sent, last, handlers>>
  BY DEF InvokeReturns, InvokeThrows, dispatcherVars, queueVars
<1> QED
  BY <1>1, <1>4, <1>5 DEF Promise!Finish, Executing

\* What the dispatcher promises its actors it keeps: each receives the messages
\* sent to it one at a time, in the order of their sending and none twice, with
\* any number of threads, and with a selector that executes tasks itself.
THEOREM Implementation == Spec => ImplementsMailboxes
<1>1. Init => Promise!Init
  BY DEF Init, Promise!Init
<1>2. IInv /\ [Next]_vars => [Promise!Next]_(Promise!vars)
  <2> SUFFICES ASSUME IInv, [Next]_vars
               PROVE  Promise!Next \/ UNCHANGED <<sent, last, Executing, handlers>>
    BY DEF Promise!vars, Executing
  <2> USE DEF dispatcherVars, queueVars, poolVars
  <2>t. TypeOK
    BY DEF IInv
  <2>1. ASSUME NEW a \in Actor, Send(a) PROVE Promise!Next
    BY <2>1 DEF Send, Promise!Send, Promise!Next
  <2>2. ASSUME NEW a \in Actor, Register(a) \/ Unregister(a) PROVE Promise!Next
    <3>1. handlers' \in SUBSET Actor /\ UNCHANGED <<sent, phase, task, last>>
      BY <2>2, <2>t DEF Register, Unregister, TypeOK
    <3>2. UNCHANGED Executing
      BY <3>1 DEF Executing
    <3> QED
      BY <3>1, <3>2 DEF Promise!Rebind, Promise!Next, Executing
  <2>4. CASE Start \/ Shutdown \/ DoShutdown \/ Read \/ ReadInterrupted \/ Reserve
             \/ ReserveFails \/ NextRound
    BY <2>4 DEF Start, Shutdown, DoShutdown, Read, ReadInterrupted, Reserve,
       ReserveFails, NextRound, Executing
  <2>5. ASSUME NEW x \in reserved, Submit(x)
        PROVE  Promise!Next \/ UNCHANGED <<sent, last, Executing, handlers>>
    <3>1. CASE Enter(Selector, x)
      <4>1. Selector \in Runner /\ phase[Selector] = "idle"
            /\ UNCHANGED <<queue, selected, sent, handlers>>
        BY <2>5 DEF Submit, Runner
      <4> QED
        BY <3>1, <4>1, EnterBegins DEF Promise!Next
    <3>2. CASE UNCHANGED <<phase, task, last>>
      BY <2>5, <3>2 DEF Submit, Executing
    <3> QED
      BY <2>5, <3>1, <3>2 DEF Submit
  <2>6. ASSUME NEW t \in Thread, Take(t) PROVE Promise!Next
    <3>1. PICK x \in pool : Enter(t, x)
      BY <2>6 DEF Take
    <3>2. t \in Runner /\ phase[t] = "idle"
          /\ UNCHANGED <<queue, selected, sent, handlers>>
      BY <2>6 DEF Take, Runner
    <3> QED
      BY <3>1, <3>2, EnterBegins DEF Promise!Next
  <2>7. ASSUME NEW r \in Runner, InvokeReturns(r) \/ InvokeThrows(r)
        PROVE  Promise!Next
    <3>1. PICK a \in Actor : a = task[r].to
      BY <2>7, <2>t
      DEF InvokeReturns, InvokeThrows, TypeOK, Holding, Invocation
    <3>2. Promise!Finish(a)
      BY <2>7, <3>1, LeaveFinishes
    <3> QED
      BY <3>2 DEF Promise!Next
  <2>8. ASSUME NEW r \in Runner, Free(r) \/ WakeUp(r)
        PROVE  UNCHANGED <<sent, last, Executing, handlers>>
    <3>1. /\ phase[r] # "invoke" /\ phase'[r] # "invoke"
          /\ \A s \in Runner \ {r} : task'[s] = task[s] /\ phase'[s] = phase[s]
      BY <2>8, <2>t DEF Free, WakeUp, TypeOK
    <3>2. Executing' = Executing
      BY <3>1 DEF Executing
    <3> QED
      BY <2>8, <3>2 DEF Free, WakeUp
  <2>9. CASE UNCHANGED vars
    BY <2>9 DEF vars, Executing
  <2> QED
    BY <2>1, <2>2, <2>4, <2>5, <2>6, <2>7, <2>8, <2>9
    DEF Next, SelectorStep, Run
<1> QED
  BY <1>1, <1>2, Invariance, PTL DEF Spec, ImplementsMailboxes, Promise!Spec
==============================================================================
