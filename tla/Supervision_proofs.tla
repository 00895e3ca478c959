-------------------------- MODULE Supervision_proofs --------------------------
(***************************************************************************)
(* What holds of Supervision for every tree of supervisors, every choice   *)
(* of fault handlers and life cycles and every bound: the types, that a    *)
(* restart never overlaps anything else its actor does, and that an actor  *)
(* reports to a supervisor that knows it or is just unlinking it.          *)
(***************************************************************************)
EXTENDS Supervision, TLAPS

\* A link that is half done has put the actor into the set.  Without it the
\* second half could make an actor report to somebody who does not know it.
HalfLinked == \A s \in Actor : at[s] = "link" => target[s] \in linked[s]

IInv == TypeOK /\ RestartsAlone /\ ReportsToItsSupervisor /\ HalfLinked

------------------------------------------------------------------------------
(* The initial states *)

LEMMA SupervisorOfType ==
  ASSUME NEW a \in Actor
  PROVE  /\ SupervisorOf(a) \in Actor \cup {None}
         /\ SupervisorOf(a) # None => a \in Configured[SupervisorOf(a)]
BY NoneAssumption DEF SupervisorOf

LEMMA Initially == Init => IInv
<1> SUFFICES ASSUME Init PROVE IInv
  OBVIOUS
<1> USE DEF Init
<1>1. TypeOK
  <2>1. supervisor \in [Actor -> Actor \cup {None}]
    BY SupervisorOfType
  <2>2. linked \in [Actor -> SUBSET Actor]
    BY LinkAssumption
  <2>3. mailbox \in [Actor -> Seq(Message)]
    OBVIOUS
  <2>. QED
    BY <2>1, <2>2, <2>3 DEF TypeOK
<1>2. RestartsAlone /\ HalfLinked
  BY DEF RestartsAlone, HalfLinked
<1>3. ReportsToItsSupervisor
  BY SupervisorOfType, NoneAssumption DEF ReportsToItsSupervisor
<1>. QED
  BY <1>1, <1>2, <1>3 DEF IInv

------------------------------------------------------------------------------
(* Types *)

\* The part of TypeOK about `at' and `exit'.
AtType ==
  /\ at \in [Actor -> {"idle", "user", "link", "unlink", "restart", "restarting",
                       "start", "stop", "forward", "failed", "report"}]
  /\ exit \in [Actor -> Exit \cup {NoExit}]
  /\ \A a \in Actor : at[a] \in {"failed", "report", "forward"} => exit[a] \in Exit

\* The part of TypeOK about `target'.
TargetType ==
  /\ target \in [Actor -> Actor \cup {None}]
  /\ \A a \in Actor :
       at[a] \in {"link", "unlink", "restarting"} => target[a] \in Actor

\* An exception, or the end of `invoke', keeps them.
LEMMA ThrowType ==
  ASSUME TypeOK, NEW a \in Actor, NEW r \in Reason, Throw(a, r)
  PROVE  AtType' /\ (UNCHANGED target => TargetType')
BY DEF TypeOK, AtType, TargetType, Throw, Goto, Exit

LEMMA LeaveType ==
  ASSUME TypeOK, NEW a \in Actor, Leave(a)
  PROVE  AtType' /\ (UNCHANGED target => TargetType')
BY DEF TypeOK, AtType, TargetType, Leave, Goto

LEMMA Reasons == "app" \in Reason /\ "illegal" \in Reason
BY DEF Reason

\* A message is appended to a mailbox.
LEMMA ReportType ==
  ASSUME TypeOK, NEW s \in Actor, NEW x \in Exit, Report(s, x)
  PROVE  /\ mailbox' \in [Actor -> Seq(Message)]
         /\ \A a \in taken : mailbox'[a] # <<>>
         /\ owed' \subseteq Actor \X Actor
<1>1. x \in Message /\ x.dead \in Actor
  BY DEF Exit, Message
<1>. QED
  BY <1>1 DEF TypeOK, Report, Obliges

\* The next message of an actor is received.
LEMMA ReceivesType ==
  ASSUME TypeOK, NEW a \in Actor, NEW type, Receives(a, type)
  PROVE  /\ mailbox' \in [Actor -> Seq(Message)]
         /\ taken' \subseteq Actor
         /\ \A b \in taken' : mailbox'[b] # <<>>
         /\ Head(mailbox[a]) \in Message
         /\ type = "exit" => Head(mailbox[a]) \in Exit
         /\ UNCHANGED <<running, served>>
<1>1. mailbox[a] \in Seq(Message) /\ mailbox[a] # <<>> /\ a \in taken
  BY DEF TypeOK, Receives
<1>2. Head(mailbox[a]) \in Message /\ Tail(mailbox[a]) \in Seq(Message)
  BY <1>1
<1>3. type = "exit" => Head(mailbox[a]) \in Exit
  BY <1>2 DEF Receives, Message
<1>. QED
  BY <1>1, <1>2, <1>3 DEF TypeOK, Receives

\* Every step keeps the types.
LEMMA TypeStep == TypeOK /\ Next => TypeOK'
<1> SUFFICES ASSUME TypeOK, Next PROVE TypeOK'
  OBVIOUS
<1> USE DEF settings, actorVars, linkVars, threadVars, boundVars
<1>1. ASSUME UserActs PROVE TypeOK'
  <2>1. ASSUME NEW a \in Actor, NEW type \in {"user", "start", "stop"},
               Send(a, type), UNCHANGED settings
        PROVE  TypeOK'
    <3>1. [type |-> type] \in Message
      BY DEF Message
    <3>2. /\ mailbox' = [mailbox EXCEPT ![a] = Append(@, [type |-> type])]
          /\ sends' = sends + 1
          /\ UNCHANGED <<actorVars, linkVars, threadVars, fails, ops, owed,
                         settings>>
      BY <2>1 DEF Send
    <3>3. /\ mailbox' \in [Actor -> Seq(Message)]
          /\ \A b \in taken : mailbox'[b] # <<>>
      BY <3>1, <3>2 DEF TypeOK
    <3>. QED
      BY <3>2, <3>3 DEF TypeOK
  <2>2. ASSUME NEW a \in Actor, Start(a), UNCHANGED settings PROVE TypeOK'
    <3>1. /\ running' = running \cup {a}
          /\ ops' = ops + 1
          /\ UNCHANGED <<served, taken, linkVars, mailbox, threadVars, sends, fails,
                         owed, settings>>
      BY <2>2 DEF Start, Starting
    <3>. QED
      BY <3>1 DEF TypeOK
  <2>3. ASSUME NEW a \in Actor, Stop(a), UNCHANGED settings PROVE TypeOK'
    <3>1. /\ running' \subseteq running /\ served' \subseteq served
          /\ ops' = ops + 1
          /\ UNCHANGED <<taken, linkVars, mailbox, threadVars, sends, fails, owed,
                         settings>>
      BY <2>3 DEF Stop, Stopping
    <3>. QED
      BY <3>1 DEF TypeOK
  <2>4. ASSUME NEW s \in Actor, NEW a \in Actor, BeginLink(s, a)
        PROVE  AtType' /\ TargetType' /\ linked' \in [Actor -> SUBSET Actor]
    <3>1. linked' \in [Actor -> SUBSET Actor]
      <4>1. linked' = linked \/ linked' = [linked EXCEPT ![s] = @ \cup {a}]
        BY <2>4 DEF BeginLink
      <4>2. linked \in [Actor -> SUBSET Actor] /\ linked[s] \cup {a} \in SUBSET Actor
        BY DEF TypeOK
      <4>. QED
        BY <4>1, <4>2
    <3>2. CASE Throw(s, "illegal") /\ UNCHANGED target
      BY <3>1, <3>2, Reasons, ThrowType
    <3>3. CASE /\ Goto(s, "link")
               /\ target' = [target EXCEPT ![s] = a]
               /\ UNCHANGED exit
      BY <3>1, <3>3 DEF TypeOK, AtType, TargetType, Goto
    <3>. QED
      BY <2>4, <3>2, <3>3 DEF BeginLink
  <2>5. ASSUME NEW s \in Actor, NEW a \in Actor, Link(s, a), UNCHANGED settings
        PROVE  TypeOK'
    <3>1. AtType' /\ TargetType' /\ linked' \in [Actor -> SUBSET Actor]
      BY <2>5, <2>4 DEF Link
    <3>. QED
      BY <2>5, <3>1 DEF TypeOK, AtType, TargetType, Link
  <2>6. ASSUME NEW s \in Actor, NEW a \in Actor, StartLink(s, a),
               UNCHANGED settings
        PROVE  TypeOK'
    <3>1. AtType' /\ TargetType' /\ linked' \in [Actor -> SUBSET Actor]
      BY <2>6, <2>4 DEF StartLink
    <3>. QED
      BY <2>6, <3>1 DEF TypeOK, AtType, TargetType, StartLink, Starting
  <2>7. ASSUME NEW s \in Actor, NEW a \in Actor, BeginUnlink(s, a),
               UNCHANGED settings
        PROVE  TypeOK'
    <3>1. CASE s \in running /\ a \in linked[s]
      <4>1. /\ linked' = [linked EXCEPT ![s] = @ \ {a}]
            /\ target' = [target EXCEPT ![s] = a]
            /\ owed' = owed \ {<<a, s>>}
            /\ Goto(s, "unlink")
            /\ UNCHANGED exit
        BY <2>7, <3>1 DEF BeginUnlink
      <4>2. /\ linked' \in [Actor -> SUBSET Actor]
            /\ owed' \subseteq Actor \X Actor
        BY <4>1 DEF TypeOK
      <4>3. AtType' /\ TargetType'
        BY <2>7, <4>1 DEF TypeOK, AtType, TargetType, Goto, BeginUnlink
      <4>. QED
        BY <2>7, <4>2, <4>3 DEF TypeOK, AtType, TargetType, BeginUnlink
    <3>2. CASE ~(s \in running /\ a \in linked[s])
      <4>1. AtType' /\ TargetType'
        BY <2>7, <3>2, Reasons, ThrowType DEF BeginUnlink
      <4>. QED
        BY <2>7, <3>2, <4>1 DEF TypeOK, AtType, TargetType, BeginUnlink
    <3>. QED
      BY <3>1, <3>2
  <2>. QED
    BY <1>1, <2>1, <2>2, <2>3, <2>5, <2>6, <2>7 DEF UserActs
<1>2. ASSUME NEW a \in Actor, Take(a) \/ Receive(a), UNCHANGED settings
      PROVE  TypeOK'
  <2>1. CASE Take(a)
    BY <1>2, <2>1 DEF TypeOK, Take
  <2>2. ASSUME NEW type, Receives(a, type)
        PROVE  /\ mailbox' \in [Actor -> Seq(Message)]
               /\ taken' \subseteq Actor
               /\ \A b \in taken' : mailbox'[b] # <<>>
               /\ running' \subseteq Actor /\ served' \subseteq Actor
    BY <2>2, ReceivesType DEF TypeOK
  <2>3. CASE ReceiveUser(a)
    BY <1>2, <2>2, <2>3 DEF TypeOK, ReceiveUser, Goto
  <2>4. CASE ReceiveTrapped(a)
    <3>1. linked[a] \subseteq Actor /\ Head(mailbox[a]).dead \in Actor
      BY <2>4, ReceivesType DEF TypeOK, ReceiveTrapped, Exit
    <3>2. CASE Throw(a, "illegal") /\ UNCHANGED todo
      <4>1. AtType' /\ TargetType'
        BY <2>4, <3>2, Reasons, ThrowType DEF ReceiveTrapped
      <4>. QED
        BY <1>2, <2>2, <2>4, <3>2, <4>1
        DEF TypeOK, AtType, TargetType, ReceiveTrapped
    <3>3. CASE /\ Goto(a, "restart")
               /\ \E T \in SUBSET Actor : todo' = [todo EXCEPT ![a] = T]
               /\ UNCHANGED exit
      <4>1. AtType' /\ TargetType' /\ todo' \in [Actor -> SUBSET Actor]
        BY <2>4, <3>3 DEF TypeOK, AtType, TargetType, Goto, ReceiveTrapped
      <4>. QED
        BY <1>2, <2>2, <2>4, <4>1 DEF TypeOK, AtType, TargetType, ReceiveTrapped
    <3>. QED
      BY <2>4, <3>1, <3>2, <3>3 DEF ReceiveTrapped
  <2>5. CASE ReceiveUntrapped(a)
    <3>1. CASE Leave(a)
      <4>1. AtType' /\ TargetType'
        BY <2>5, <3>1, LeaveType DEF ReceiveUntrapped
      <4>. QED
        BY <1>2, <2>2, <2>5, <4>1 DEF TypeOK, AtType, TargetType, ReceiveUntrapped
    <3>2. CASE /\ Goto(a, "forward")
               /\ exit' = [exit EXCEPT ![a] = Head(mailbox[a])]
      <4>1. Head(mailbox[a]) \in Exit
        BY <2>5, ReceivesType DEF ReceiveUntrapped
      <4>2. AtType' /\ TargetType'
        BY <2>5, <3>2, <4>1 DEF TypeOK, AtType, TargetType, Goto, ReceiveUntrapped
      <4>. QED
        BY <1>2, <2>2, <2>5, <4>2 DEF TypeOK, AtType, TargetType, ReceiveUntrapped
    <3>. QED
      BY <2>5, <3>1, <3>2 DEF ReceiveUntrapped
  <2>6. ASSUME NEW type \in {"start", "stop"}, ReceiveStartStop(a, type)
        PROVE  TypeOK'
    BY <1>2, <2>2, <2>6 DEF TypeOK, ReceiveStartStop, Goto
  <2>. QED
    BY <1>2, <2>1, <2>3, <2>4, <2>5, <2>6 DEF Receive
<1>3. ASSUME NEW a \in Actor, Handle(a), UNCHANGED settings PROVE TypeOK'
  <2>1. CASE UserReturns(a)
    BY <1>3, <2>1 DEF TypeOK, UserReturns, Goto
  <2>2. CASE UserThrows(a)
    <3>1. AtType' /\ TargetType'
      BY <2>2, Reasons, ThrowType DEF UserThrows
    <3>. QED
      BY <1>3, <2>2, <3>1 DEF TypeOK, AtType, TargetType, UserThrows
  <2>3. CASE EndLink(a)
    BY <1>3, <2>3 DEF TypeOK, EndLink, Goto
  <2>17. CASE EndUnlink(a)
    BY <1>3, <2>17 DEF TypeOK, EndUnlink, Goto
  <2>4. CASE Failed(a)
    <3>1. CASE Leave(a)
      <4>1. AtType' /\ TargetType'
        BY <2>4, <3>1, LeaveType DEF Failed
      <4>. QED
        BY <1>3, <2>4, <4>1 DEF TypeOK, AtType, TargetType, Failed
    <3>2. CASE Goto(a, "report") /\ UNCHANGED exit
      BY <1>3, <2>4, <3>2 DEF TypeOK, Failed, Goto
    <3>. QED
      BY <2>4, <3>1, <3>2 DEF Failed
  <2>5. CASE ReportFailure(a)
    <3>1. exit[a] \in Exit
      BY <2>5 DEF TypeOK, ReportFailure
    <3>2. AtType' /\ TargetType'
      BY <2>5, LeaveType DEF ReportFailure
    <3>3. CASE supervisor[a] \in running /\ UNCHANGED served
      <4>1. supervisor[a] \in Actor /\ Report(supervisor[a], exit[a])
        BY <2>5, <3>3 DEF TypeOK, ReportFailure
      <4>2. /\ mailbox' \in [Actor -> Seq(Message)]
            /\ \A b \in taken : mailbox'[b] # <<>>
            /\ owed' \subseteq Actor \X Actor
        BY <3>1, <4>1, ReportType
      <4>. QED
        BY <1>3, <2>5, <3>2, <3>3, <4>2
        DEF TypeOK, AtType, TargetType, ReportFailure
    <3>4. CASE UNCHANGED <<mailbox, owed>> /\ served' = served \ {a}
      BY <1>3, <2>5, <3>2, <3>4 DEF TypeOK, AtType, TargetType, ReportFailure
    <3>. QED
      BY <2>5, <3>3, <3>4 DEF ReportFailure
  <2>6. CASE Forward(a)
    <3>1. exit[a] \in Exit
      BY <2>6 DEF TypeOK, Forward
    <3>2. CASE supervisor[a] \in running
      <4>1. supervisor[a] \in Actor /\ Report(supervisor[a], exit[a]) /\ Leave(a)
        BY <2>6, <3>2 DEF TypeOK, Forward
      <4>2. /\ mailbox' \in [Actor -> Seq(Message)]
            /\ \A b \in taken : mailbox'[b] # <<>>
            /\ owed' \subseteq Actor \X Actor
        BY <3>1, <4>1, ReportType
      <4>3. AtType' /\ TargetType'
        BY <2>6, <4>1, LeaveType DEF Forward
      <4>. QED
        BY <1>3, <2>6, <4>2, <4>3 DEF TypeOK, AtType, TargetType, Forward
    <3>3. CASE Throw(a, "illegal") /\ UNCHANGED <<mailbox, owed>>
      <4>1. AtType' /\ TargetType'
        BY <2>6, <3>3, Reasons, ThrowType DEF Forward
      <4>. QED
        BY <1>3, <2>6, <3>3, <4>1 DEF TypeOK, AtType, TargetType, Forward
    <3>. QED
      BY <2>6, <3>2, <3>3 DEF Forward
  <2>7. ASSUME NEW b \in Actor, BeginRestart(a, b) PROVE TypeOK'
    BY <1>3, <2>7 DEF TypeOK, BeginRestart, Goto
  <2>8. ASSUME NEW b \in Actor, WithoutLifeCycle(a, b) PROVE TypeOK'
    <3>1. AtType' /\ TargetType'
      BY <2>8, Reasons, ThrowType DEF WithoutLifeCycle, GiveUp
    <3>. QED
      BY <1>3, <2>8, <3>1 DEF TypeOK, AtType, TargetType, WithoutLifeCycle, GiveUp
  <2>9. ASSUME NEW b \in Actor, DropTemporary(a, b) PROVE TypeOK'
    BY <1>3, <2>9 DEF TypeOK, DropTemporary, Done
  <2>10. CASE EndRestart(a)
    BY <1>3, <2>10 DEF TypeOK, EndRestart, Done, Goto
  <2>11. CASE RestartThrows(a)
    <3>1. AtType'
      BY <2>11, Reasons, ThrowType DEF RestartThrows, GiveUp
    <3>2. TargetType'
      BY <2>11 DEF TypeOK, TargetType, RestartThrows, GiveUp, Throw, Goto
    <3>. QED
      BY <1>3, <2>11, <3>1, <3>2 DEF TypeOK, AtType, TargetType, RestartThrows, GiveUp
  <2>12. CASE AllRestarted(a)
    BY <1>3, <2>12 DEF TypeOK, AllRestarted, Goto
  <2>13. CASE AllStarted(a)
    BY <1>3, <2>13 DEF TypeOK, AllStarted, Goto
  <2>14. ASSUME NEW b \in Actor, StartChild(a, b) PROVE TypeOK'
    BY <1>3, <2>14 DEF TypeOK, StartChild, Starting, Done
  <2>15. ASSUME NEW b \in Actor, StopChild(a, b) PROVE TypeOK'
    BY <1>3, <2>15 DEF TypeOK, StopChild, Stopping, Done
  <2>16. CASE AllStopped(a)
    BY <1>3, <2>16 DEF TypeOK, AllStopped, Stopping, Goto
  <2>. QED
    BY <1>3, <2>1, <2>2, <2>3, <2>4, <2>5, <2>6, <2>7, <2>8, <2>9, <2>10, <2>11,
       <2>12, <2>13, <2>14, <2>15, <2>16, <2>17 DEF Handle, RestartLoop, StartStopLoop
<1>. QED
  BY <1>1, <1>2, <1>3 DEF Next, ThreadStep
------------------------------------------------------------------------------
(* Restarts *)

\* A thread that goes anywhere but into a restart disturbs no restart, provided
\* that its actor is not being restarted.
LEMMA OneThread ==
  ASSUME TypeOK, RestartsAlone, NEW a \in Actor, NEW l, l # "restarting",
         Goto(a, l), at[a] # "idle" \/ MonitorFree(a),
         \A t \in Actor \ {a} : target'[t] = target[t]
  PROVE  RestartsAlone'
BY DEF TypeOK, RestartsAlone, Goto, MonitorFree

\* Every step leaves restarts alone.
LEMMA RestartStep == TypeOK /\ RestartsAlone /\ Next => RestartsAlone'
<1> SUFFICES ASSUME TypeOK, RestartsAlone, Next PROVE RestartsAlone'
  OBVIOUS
<1> USE DEF threadVars
<1>1. ASSUME UserActs PROVE RestartsAlone'
  <2>1. ASSUME NEW a \in Actor, Start(a) \/ Stop(a) \/ \E type : Send(a, type)
        PROVE  RestartsAlone'
    <3>1. UNCHANGED <<at, target>>
      BY <2>1 DEF Start, Stop, Send
    <3> QED
      BY <3>1 DEF RestartsAlone
  <2>2. ASSUME NEW s \in Actor, NEW a \in Actor, BeginLink(s, a), at[s] = "user"
        PROVE  RestartsAlone'
    <3>1. CASE Throw(s, "illegal") /\ UNCHANGED target
      BY <2>2, <3>1, OneThread DEF Throw
    <3>2. CASE Goto(s, "link") /\ target' = [target EXCEPT ![s] = a]
      <4>1. \A t \in Actor \ {s} : target'[t] = target[t]
        BY <3>2 DEF TypeOK
      <4>. QED
        BY <2>2, <3>2, <4>1, OneThread
    <3>. QED
      BY <2>2, <3>1, <3>2 DEF BeginLink
  <2>3. ASSUME NEW s \in Actor, NEW a \in Actor, Link(s, a) \/ StartLink(s, a)
        PROVE  RestartsAlone'
    BY <2>2, <2>3 DEF Link, StartLink
  <2>4. ASSUME NEW s \in Actor, NEW a \in Actor, BeginUnlink(s, a)
        PROVE  RestartsAlone'
    <3>1. CASE Goto(s, "unlink") /\ target' = [target EXCEPT ![s] = a]
      <4>1. \A t \in Actor \ {s} : target'[t] = target[t]
        BY <3>1 DEF TypeOK
      <4>. QED
        BY <2>4, <3>1, <4>1, OneThread DEF BeginUnlink
    <3>2. CASE Throw(s, "illegal") /\ UNCHANGED target
      BY <2>4, <3>2, OneThread DEF BeginUnlink, Throw
    <3>. QED
      BY <2>4, <3>1, <3>2 DEF BeginUnlink
  <2>. QED
    BY <1>1, <2>1, <2>3, <2>4 DEF UserActs
<1>2. ASSUME NEW a \in Actor, Take(a) \/ Receive(a) PROVE RestartsAlone'
  <2>1. CASE Take(a)
    BY <2>1 DEF RestartsAlone, Take
  <2>2. CASE ReceiveUser(a)
    BY <2>2, OneThread DEF ReceiveUser, Receives
  <2>3. CASE ReceiveTrapped(a)
    BY <2>3, OneThread DEF ReceiveTrapped, Receives, Throw
  <2>4. CASE ReceiveUntrapped(a)
    BY <2>4, OneThread DEF ReceiveUntrapped, Receives, Leave
  <2>5. ASSUME NEW type \in {"start", "stop"}, ReceiveStartStop(a, type)
        PROVE  RestartsAlone'
    BY <2>5, OneThread DEF ReceiveStartStop, Receives
  <2>. QED
    BY <1>2, <2>1, <2>2, <2>3, <2>4, <2>5 DEF Receive
<1>3. ASSUME NEW a \in Actor, Handle(a) PROVE RestartsAlone'
  <2>1. CASE UserReturns(a)
    BY <2>1, OneThread DEF UserReturns
  <2>2. CASE UserThrows(a)
    BY <2>2, OneThread DEF UserThrows, Throw
  <2>3. CASE EndLink(a)
    <3>1. \A t \in Actor \ {a} : target'[t] = target[t]
      BY <2>3 DEF TypeOK, EndLink
    <3>. QED
      BY <2>3, <3>1, OneThread DEF EndLink
  <2>13. CASE EndUnlink(a)
    <3>1. \A t \in Actor \ {a} : target'[t] = target[t]
      BY <2>13 DEF TypeOK, EndUnlink
    <3>. QED
      BY <2>13, <3>1, OneThread DEF EndUnlink
  <2>4. CASE Failed(a)
    BY <2>4, OneThread DEF Failed, Leave
  <2>5. CASE ReportFailure(a)
    BY <2>5, OneThread DEF ReportFailure, Leave
  <2>6. CASE Forward(a)
    BY <2>6, OneThread DEF Forward, Leave, Throw
  <2>7. ASSUME NEW b \in Actor, BeginRestart(a, b) PROVE RestartsAlone'
    BY <2>7 DEF TypeOK, RestartsAlone, BeginRestart, MonitorFree, Goto
  <2>8. ASSUME NEW b \in Actor, WithoutLifeCycle(a, b) PROVE RestartsAlone'
    BY <2>8, OneThread DEF WithoutLifeCycle, GiveUp, Throw
  <2>9. ASSUME NEW b \in Actor,
               DropTemporary(a, b) \/ StartChild(a, b) \/ StopChild(a, b)
        PROVE  RestartsAlone'
    BY <2>9 DEF RestartsAlone, DropTemporary, StartChild, StopChild
  <2>10. CASE EndRestart(a)
    <3>1. \A t \in Actor \ {a} : target'[t] = target[t]
      BY <2>10 DEF TypeOK, EndRestart
    <3>. QED
      BY <2>10, <3>1, OneThread DEF EndRestart
  <2>11. CASE RestartThrows(a)
    <3>1. \A t \in Actor \ {a} : target'[t] = target[t]
      BY <2>11 DEF TypeOK, RestartThrows
    <3>. QED
      BY <2>11, <3>1, OneThread DEF RestartThrows, GiveUp, Throw
  <2>12. CASE AllRestarted(a) \/ AllStarted(a) \/ AllStopped(a)
    BY <2>12, OneThread DEF AllRestarted, AllStarted, AllStopped
  <2>. QED
    BY <1>3, <2>1, <2>2, <2>3, <2>4, <2>5, <2>6, <2>7, <2>8, <2>9, <2>10, <2>11,
       <2>12, <2>13 DEF Handle, RestartLoop, StartStopLoop
<1>. QED
  BY <1>1, <1>2, <1>3 DEF Next, ThreadStep

------------------------------------------------------------------------------
(* Links *)

\* Steps that leave the links alone, begin no link and end no unlink.
LEMMA LinksUntouched ==
  ASSUME TypeOK, ReportsToItsSupervisor, HalfLinked,
         UNCHANGED <<lifeCycle, linked, supervisor>>,
         \A s \in Actor :
           /\ at'[s] = "link" => at[s] = "link" /\ target'[s] = target[s]
           /\ at[s] = "unlink" => at'[s] = "unlink" /\ target'[s] = target[s]
  PROVE  ReportsToItsSupervisor' /\ HalfLinked'
<1>1. ReportsToItsSupervisor'
  BY DEF ReportsToItsSupervisor, Unlinking
<1>2. HalfLinked'
  BY DEF HalfLinked
<1>. QED
  BY <1>1, <1>2

\* The same for a step in which one thread goes elsewhere.
LEMMA OneLinkThread ==
  ASSUME TypeOK, ReportsToItsSupervisor, HalfLinked,
         UNCHANGED <<lifeCycle, linked, supervisor>>,
         NEW a \in Actor, NEW l, l # "link", at[a] # "unlink", Goto(a, l),
         \A t \in Actor \ {a} : target'[t] = target[t]
  PROVE  ReportsToItsSupervisor' /\ HalfLinked'
<1>1. \A s \in Actor :
        /\ at'[s] = "link" => at[s] = "link" /\ target'[s] = target[s]
        /\ at[s] = "unlink" => at'[s] = "unlink" /\ target'[s] = target[s]
  BY DEF TypeOK, Goto
<1>. QED
  BY <1>1, LinksUntouched

\* Every step keeps the links consistent.
LEMMA LinkStep ==
  ASSUME TypeOK, ReportsToItsSupervisor, HalfLinked, Next
  PROVE  ReportsToItsSupervisor' /\ HalfLinked'
<1> DEFINE Goal == ReportsToItsSupervisor' /\ HalfLinked'
<1> USE DEF settings, linkVars, threadVars
<1>1. ASSUME UserActs PROVE Goal
  <2>1. ASSUME NEW a \in Actor, Start(a) \/ Stop(a) \/ \E type : Send(a, type),
               UNCHANGED settings
        PROVE  Goal
    BY <2>1, LinksUntouched DEF Start, Stop, Send
  <2>2. ASSUME NEW s \in Actor, NEW a \in Actor, BeginLink(s, a), at[s] = "user",
               UNCHANGED settings, UNCHANGED supervisor
        PROVE  Goal
    <3>1. linked' = linked \/ linked' = [linked EXCEPT ![s] = @ \cup {a}]
      BY <2>2 DEF BeginLink
    <3>2. \A t \in Actor : linked[t] \subseteq linked'[t]
      <4>1. CASE linked' = linked
        BY <4>1
      <4>2. CASE linked' = [linked EXCEPT ![s] = @ \cup {a}]
        BY <4>2 DEF TypeOK
      <4>. QED
        BY <3>1, <4>1, <4>2
    <3>6. \A t, b \in Actor : Unlinking(t, b) => Unlinking(t, b)'
      BY <2>2 DEF TypeOK, Unlinking, BeginLink, Throw, Goto
    <3>3. ReportsToItsSupervisor'
      BY <2>2, <3>2, <3>6 DEF ReportsToItsSupervisor
    <3>4. CASE Throw(s, "illegal") /\ UNCHANGED target
      BY <3>2, <3>3, <3>4 DEF TypeOK, HalfLinked, Throw, Goto
    <3>5. CASE /\ linked' = [linked EXCEPT ![s] = @ \cup {a}]
               /\ Goto(s, "link")
               /\ target' = [target EXCEPT ![s] = a]
      <4>1. a \in linked'[s]
        BY <3>5 DEF TypeOK
      <4>. QED
        BY <3>2, <3>3, <3>5, <4>1 DEF TypeOK, HalfLinked, Goto
    <3>. QED
      BY <2>2, <3>4, <3>5 DEF BeginLink
  <2>3. ASSUME NEW s \in Actor, NEW a \in Actor, Link(s, a) \/ StartLink(s, a),
               UNCHANGED settings
        PROVE  Goal
    BY <2>2, <2>3 DEF Link, StartLink
  <2>4. ASSUME NEW s \in Actor, NEW a \in Actor, BeginUnlink(s, a),
               UNCHANGED settings
        PROVE  Goal
    <3>1. CASE s \in running /\ a \in linked[s]
      <4>1. /\ linked' = [linked EXCEPT ![s] = @ \ {a}]
            /\ at' = [at EXCEPT ![s] = "unlink"]
            /\ target' = [target EXCEPT ![s] = a]
            /\ UNCHANGED <<supervisor, lifeCycle>>
            /\ at[s] = "user"
        BY <2>4, <3>1 DEF BeginUnlink, Goto
      <4>2. \A t, b \in Actor : Unlinking(t, b) => Unlinking(t, b)'
        BY <4>1 DEF TypeOK, Unlinking
      <4>3. Unlinking(s, a)'
        BY <4>1 DEF TypeOK, Unlinking
      <4>4. \A t, b \in Actor : b \in linked[t] => b \in linked'[t] \/ (t = s /\ b = a)
        BY <4>1 DEF TypeOK
      <4>5. ReportsToItsSupervisor'
        BY <4>1, <4>2, <4>3, <4>4 DEF ReportsToItsSupervisor
      <4>6. HalfLinked'
        BY <4>1 DEF TypeOK, HalfLinked
      <4>. QED
        BY <4>5, <4>6
    <3>2. CASE ~(s \in running /\ a \in linked[s])
      BY <2>4, <3>2, OneLinkThread DEF BeginUnlink, Throw
    <3>. QED
      BY <3>1, <3>2
  <2>. QED
    BY <1>1, <2>1, <2>3, <2>4 DEF UserActs
<1>2. ASSUME NEW a \in Actor, Take(a) \/ Receive(a), UNCHANGED settings PROVE Goal
  <2>1. CASE Take(a)
    BY <1>2, <2>1, LinksUntouched DEF Take
  <2>2. CASE ReceiveUser(a)
    BY <1>2, <2>2, OneLinkThread DEF ReceiveUser, Receives, MonitorFree
  <2>3. CASE ReceiveTrapped(a)
    BY <1>2, <2>3, OneLinkThread DEF ReceiveTrapped, Throw, Receives, MonitorFree
  <2>4. CASE ReceiveUntrapped(a)
    BY <1>2, <2>4, OneLinkThread DEF ReceiveUntrapped, Leave, Receives, MonitorFree
  <2>5. ASSUME NEW type \in {"start", "stop"}, ReceiveStartStop(a, type) PROVE Goal
    BY <1>2, <2>5, OneLinkThread DEF ReceiveStartStop, Receives, MonitorFree
  <2>. QED
    BY <1>2, <2>1, <2>2, <2>3, <2>4, <2>5 DEF Receive
<1>3. ASSUME NEW a \in Actor, Handle(a), UNCHANGED settings PROVE Goal
  <2>1. CASE UserReturns(a)
    BY <1>3, <2>1, OneLinkThread DEF UserReturns
  <2>2. CASE UserThrows(a)
    BY <1>3, <2>2, OneLinkThread DEF UserThrows, Throw
  <2>3. CASE EndLink(a)
    <3>1. /\ at[a] = "link"
          /\ target[a] \in linked[a]
          /\ supervisor' = [supervisor EXCEPT ![target[a]] = a]
          /\ target' = [target EXCEPT ![a] = None]
          /\ at' = [at EXCEPT ![a] = "user"]
          /\ UNCHANGED <<linked, lifeCycle>>
      BY <1>3, <2>3 DEF HalfLinked, EndLink, Goto
    <3>4. \A t, b \in Actor : Unlinking(t, b) => Unlinking(t, b)'
      BY <3>1 DEF TypeOK, Unlinking
    <3>2. ReportsToItsSupervisor'
      BY <3>1, <3>4 DEF TypeOK, ReportsToItsSupervisor
    <3>3. HalfLinked'
      BY <3>1 DEF TypeOK, HalfLinked
    <3>. QED
      BY <3>2, <3>3
  <2>14. CASE EndUnlink(a)
    <3>1. /\ at[a] = "unlink"
          /\ supervisor' = [supervisor EXCEPT ![target[a]] = None]
          /\ target' = [target EXCEPT ![a] = None]
          /\ at' = [at EXCEPT ![a] = "user"]
          /\ UNCHANGED <<linked, lifeCycle>>
      BY <1>3, <2>14 DEF EndUnlink, Goto
    <3>2. \A t, b \in Actor :
            Unlinking(t, b) => Unlinking(t, b)' \/ (t = a /\ b = target[a])
      BY <3>1 DEF TypeOK, Unlinking
    <3>3. \A b \in Actor, t \in Actor :
            supervisor'[b] = t => supervisor[b] = t /\ b # target[a]
      BY <3>1, NoneAssumption DEF TypeOK
    <3>4. ReportsToItsSupervisor'
      BY <3>1, <3>2, <3>3 DEF ReportsToItsSupervisor
    <3>5. HalfLinked'
      BY <3>1 DEF TypeOK, HalfLinked
    <3>. QED
      BY <3>4, <3>5
  <2>4. CASE Failed(a)
    BY <1>3, <2>4, OneLinkThread DEF Failed, Leave
  <2>5. CASE ReportFailure(a)
    BY <1>3, <2>5, OneLinkThread DEF ReportFailure, Leave
  <2>6. CASE Forward(a)
    BY <1>3, <2>6, OneLinkThread DEF Forward, Leave, Throw
  <2>7. ASSUME NEW b \in Actor, BeginRestart(a, b) PROVE Goal
    <3>1. \A t \in Actor \ {a} : target'[t] = target[t]
      BY <2>7 DEF TypeOK, BeginRestart
    <3>. QED
      BY <1>3, <2>7, <3>1, OneLinkThread DEF BeginRestart
  <2>8. ASSUME NEW b \in Actor, WithoutLifeCycle(a, b) PROVE Goal
    BY <1>3, <2>8, OneLinkThread DEF WithoutLifeCycle, GiveUp, Throw
  <2>9. ASSUME NEW b \in Actor, DropTemporary(a, b) PROVE Goal
    <3>1. /\ linked' = [linked EXCEPT ![a] = @ \ {b}]
          /\ lifeCycle[b] = "temporary"
          /\ at[a] = "restart"
          /\ UNCHANGED <<at, target, supervisor, lifeCycle>>
      BY <1>3, <2>9 DEF DropTemporary
    <3>4. \A t, d \in Actor : Unlinking(t, d) => Unlinking(t, d)'
      BY <3>1 DEF Unlinking
    <3>2. ReportsToItsSupervisor'
      BY <3>1, <3>4 DEF TypeOK, ReportsToItsSupervisor
    <3>3. HalfLinked'
      BY <3>1 DEF TypeOK, HalfLinked
    <3>. QED
      BY <3>2, <3>3
  <2>10. CASE EndRestart(a)
    <3>1. \A t \in Actor \ {a} : target'[t] = target[t]
      BY <2>10 DEF TypeOK, EndRestart
    <3>. QED
      BY <1>3, <2>10, <3>1, OneLinkThread DEF EndRestart
  <2>11. CASE RestartThrows(a)
    <3>1. \A t \in Actor \ {a} : target'[t] = target[t]
      BY <2>11 DEF TypeOK, RestartThrows
    <3>. QED
      BY <1>3, <2>11, <3>1, OneLinkThread DEF RestartThrows, GiveUp, Throw
  <2>12. CASE AllRestarted(a) \/ AllStarted(a) \/ AllStopped(a)
    BY <1>3, <2>12, OneLinkThread DEF AllRestarted, AllStarted, AllStopped
  <2>13. ASSUME NEW b \in Actor, StartChild(a, b) \/ StopChild(a, b) PROVE Goal
    BY <1>3, <2>13, LinksUntouched DEF StartChild, StopChild
  <2>. QED
    BY <1>3, <2>1, <2>2, <2>3, <2>4, <2>5, <2>6, <2>7, <2>8, <2>9, <2>10, <2>11,
       <2>12, <2>13, <2>14 DEF Handle, RestartLoop, StartStopLoop
<1>. QED
  BY <1>1, <1>2, <1>3 DEF Next, ThreadStep

------------------------------------------------------------------------------
(* The theorems *)

\* The conjunction of the properties below is preserved by every step of the
\* code in Actor and Supervisor.
THEOREM Invariance == Spec => []IInv
<1>1. Init => IInv
  BY Initially
<1>2. IInv /\ [Next]_vars => IInv'
  <2> SUFFICES ASSUME IInv, [Next]_vars PROVE IInv'
    OBVIOUS
  <2>1. CASE Next
    BY <2>1, TypeStep, RestartStep, LinkStep DEF IInv
  <2>2. CASE UNCHANGED vars
    BY <2>2 DEF vars, IInv, TypeOK, RestartsAlone, ReportsToItsSupervisor, Unlinking,
             HalfLinked
  <2>. QED
    BY <2>1, <2>2
<1>. QED
  BY <1>1, <1>2, PTL DEF Spec

\* The fields of the actors have their types; in particular a thread that took a
\* message finds it in the mailbox.
THEOREM TypeCorrect == Spec => []TypeOK
<1>1. IInv => TypeOK
  BY DEF IInv
<1>. QED
  BY <1>1, Invariance, PTL

\* restart is synchronized with invoke: preRestart and postRestart never overlap
\* a message or another restart of the same actor.
THEOREM RestartsExclude == Spec => []RestartsAlone
<1>1. IInv => RestartsAlone
  BY DEF IInv
<1>. QED
  BY <1>1, Invariance, PTL

\* link, unlink and restartLinkedActors, called by any number of supervisors for
\* the same actor and interleaved at their two unlocked writes, keep _supervisor
\* and _linkedActors in agreement, up to the actor that is just being unlinked.
THEOREM LinksAgree == Spec => []ReportsToItsSupervisor
<1>1. IInv => ReportsToItsSupervisor
  BY DEF IInv
<1>. QED
  BY <1>1, Invariance, PTL
==============================================================================
