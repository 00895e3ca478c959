----------------------------- MODULE Remote_proofs -----------------------------
(***************************************************************************)
(* Proofs about Remote, for any hosts, actors and calls: the types, that a *)
(* call gets the reply to its own request, and in the second part what is  *)
(* delivered.                                                              *)
(*                                                                         *)
(* The argument: two calls of one host never have the same id, so that an  *)
(* entry of `futures' is the entry of the one call that has its id; what   *)
(* travels on a channel is a call of its host; and a reply carries the id  *)
(* of the call that the worker was serving when it was written.            *)
(***************************************************************************)
EXTENDS Remote, SequenceTheorems, TLAPS

USE DEF Stages

Begun(h) == {c \in CallsOf(h) : stage[c] # "idle"}

\* The replies that the requests of h can have.
Due(h) == {r \in Reply : /\ r.of \in Begun(h)
                         /\ r.id = id[r.of]
                         /\ r.status = "result" => r.of \in replied}

\* Calls of one host have different ids.
IdsDiffer ==
  \A h \in Host : \A c, d \in Begun(h) : id[c] = id[d] => c = d

\* An entry of the futures is the one of the call that has its id.
Registered ==
  \A h \in Host : \A e \in futures[h] :
    e.call \in Begun(h) /\ e.id = id[e.call]

\* What travels, and what is served, is of the host of the channel.
OnItsChannel ==
  \A h \in Host :
    /\ wire[h] \in Seq(Begun(h))
    /\ replies[h] \in Seq(Due(h))
    /\ serving[h] # None => /\ serving[h] \in Begun(h)
                            /\ TwoWay(serving[h])
                            /\ answer[h] = "result" => serving[h] \in replied
    /\ serving[h] = None => answer[h] = "none"

IInv == TypeOK /\ IdsDiffer /\ Registered /\ OnItsChannel /\ OwnReply

\* A channel that closes is left with some prefix of what was under way.
LEMMA Prefix ==
  ASSUME NEW S, NEW s \in Seq(S), NEW i \in 0 .. Len(s)
  PROVE  SubSeq(s, 1, i) \in Seq(S)
  BY SubSeqProperties

LEMMA Rest ==
  ASSUME NEW S, NEW s \in Seq(S), s # <<>>
  PROVE  Tail(s) \in Seq(S) /\ Head(s) \in S
  OBVIOUS

LEMMA Wider ==
  ASSUME NEW S, NEW T, S \subseteq T, NEW s \in Seq(S)
  PROVE  s \in Seq(T)
<1>1. PICK n \in Nat : s \in [1 .. n -> S]
  BY SeqDef
<1>2. s \in [1 .. n -> T]
  BY <1>1
<1> QED
  BY <1>2, SeqDef

LEMMA InitInv == Init => IInv
<1> SUFFICES ASSUME Init PROVE IInv
  OBVIOUS
<1>1. TypeOK
  BY LinkAssumption DEF Init, TypeOK, Status
<1>2. \A h \in Host : Begun(h) = {}
  BY DEF Init, Begun, CallsOf
<1> QED
  BY <1>1, <1>2 DEF Init, IInv, IdsDiffer, Registered, OnItsChannel, OwnReply,
                    Completed

LEMMA HostsOfCalls == \A c \in Call : /\ ProxyOf[c] \in Proxy
                                      /\ HostFor(c) \in Host
                                      /\ TargetFor(c) \in Target
  BY HostAssumption, ClassAssumption, CallAssumption DEF HostFor, TargetFor

LEMMA CutParts ==
  ASSUME NEW h \in Host, NEW m, NEW r, NEW z \in 0 .. 1, Cut(h, m, r, z)
  PROVE  \E i \in 0 .. Len(m), j \in 0 .. Len(r) :
           /\ wire' = [wire EXCEPT ![h] = SubSeq(m, 1, i)]
           /\ replies' = [replies EXCEPT ![h] = SubSeq(r, 1, j)]
<1>1. z .. Len(r) \subseteq 0 .. Len(r)
  OBVIOUS
<1> QED
  BY <1>1 DEF Cut

LEMMA WhatIsCut ==
  ASSUME NEW h \in Host, Disconnect(h) \/ Reject(h) \/ Choke(h)
  PROVE  \E m, r, z :
           /\ z \in 0 .. 1 /\ Cut(h, m, r, z)
           /\ m = wire[h] \/ (wire[h] # <<>> /\ m = Tail(wire[h]))
           /\ r = replies[h] \/ (replies[h] # <<>> /\ r = Tail(replies[h]))
<1>1. 0 \in 0 .. 1 /\ Handled(h) \in 0 .. 1
  BY DEF Handled
<1>2. CASE Disconnect(h)
  <2>1. Cut(h, wire[h], replies[h], Handled(h))
    BY <1>2 DEF Disconnect
  <2> QED
    BY <1>1, <2>1
<1>3. CASE Reject(h)
  <2>1. wire[h] # <<>> /\ Cut(h, Tail(wire[h]), replies[h], Handled(h))
    BY <1>3 DEF Reject
  <2> QED
    BY <1>1, <2>1
<1>4. CASE Choke(h)
  <2>1. replies[h] # <<>> /\ Cut(h, wire[h], Tail(replies[h]), 0)
    BY <1>4 DEF Choke
  <2> QED
    BY <1>1, <2>1
<1> QED
  BY <1>2, <1>3, <1>4

LEMMA CutTypes ==
  ASSUME NEW S, NEW T, NEW h \in Host, NEW m \in Seq(S), NEW r \in Seq(T),
         NEW z \in 0 .. 1, TypeOK, Cut(h, m, r, z), NEW g \in Host,
         wire[g] \in Seq(S), replies[g] \in Seq(T)
  PROVE  wire'[g] \in Seq(S) /\ replies'[g] \in Seq(T)
<1>1. PICK i \in 0 .. Len(m) : wire' = [wire EXCEPT ![h] = SubSeq(m, 1, i)]
  BY DEF Cut
<1>2. PICK j \in z .. Len(r) : replies' = [replies EXCEPT ![h] = SubSeq(r, 1, j)]
  BY DEF Cut
<1>3. SubSeq(m, 1, i) \in Seq(S) /\ SubSeq(r, 1, j) \in Seq(T)
  <2>1. j \in 0 .. Len(r)
    BY <1>2, LenProperties
  <2> QED
    BY <2>1, Prefix
<1>4. wire \in [Host -> Seq(Call)] /\ replies \in [Host -> Seq(Reply)]
  BY DEF TypeOK
<1> QED
  BY <1>1, <1>2, <1>3, <1>4

LinkStep == \E p \in Proxy : Unlink(p) \/ \E s \in Supervisor : Link(p, s)

\* What the callers keep is theirs: no step of the channel, of the server or of a
\* supervisor goes on with a call, names its request, or writes one.
LEMMA OthersKeepCalls ==
  ASSUME [Next]_vars
  PROVE  \/ \E c \in Call : Begin(c) \/ CallerStep(c)
         \/ UNCHANGED <<stage, id, tag, written>>
<1>1. CASE LinkStep
  BY <1>1 DEF LinkStep, Unlink, Link, callerVars
<1>2. ASSUME NEW h \in Host,
             Connect(h) \/ Disconnect(h) \/ Reconnect(h) \/ Reject(h) \/ Choke(h)
      PROVE  UNCHANGED <<stage, id, tag, written>>
  BY <1>2 DEF Connect, Disconnect, Reconnect, Reject, Choke, callerVars
<1>3. ASSUME NEW h \in Host, Receive(h) \/ Answer(h) \/ GiveUp(h)
      PROVE  UNCHANGED <<stage, id, tag, written>>
  BY <1>3 DEF Receive, Answer, GiveUp, WriteReply, callerVars
<1>4. ASSUME NEW h \in Host, Success(h) \/ Report(h) \/ Failure(h)
      PROVE  UNCHANGED <<stage, id, tag, written>>
  BY <1>4 DEF Success, Report, Failure, Finish, callerVars
<1>5. ASSUME NEW h \in Host, NEW t \in Target, Execute(h, t)
      PROVE  UNCHANGED <<stage, id, tag, written>>
  BY <1>5 DEF Execute, callerVars
<1>6. CASE UNCHANGED vars
  BY <1>6 DEF vars, callerVars
<1> QED
  BY <1>1, <1>2, <1>3, <1>4, <1>5, <1>6 DEF Next, LinkStep

\* The futures are the business of those who make the calls and of the handler.
LEMMA OthersKeepFutures ==
  ASSUME [Next]_vars
  PROVE  \/ \E c \in Call : PutFuture(c)
         \/ \E h \in Host : Success(h) \/ Failure(h)
         \/ UNCHANGED <<futures, future, producer>>
<1> USE DEF clientVars, callerVars
<1>1. CASE LinkStep
  BY <1>1 DEF LinkStep, Unlink, Link
<1>2. ASSUME NEW h \in Host,
             Connect(h) \/ Disconnect(h) \/ Reconnect(h) \/ Reject(h) \/ Choke(h)
      PROVE  UNCHANGED <<futures, future, producer>>
  BY <1>2 DEF Connect, Disconnect, Reconnect, Reject, Choke
<1>3. ASSUME NEW h \in Host, Receive(h) \/ Answer(h) \/ GiveUp(h) \/ Report(h)
      PROVE  UNCHANGED <<futures, future, producer>>
  BY <1>3 DEF Receive, Answer, GiveUp, WriteReply, Report
<1>4. ASSUME NEW h \in Host, NEW t \in Target, Execute(h, t)
      PROVE  UNCHANGED <<futures, future, producer>>
  BY <1>4 DEF Execute
<1>5. ASSUME NEW c \in Call, Begin(c) \/ CallerStep(c), ~PutFuture(c)
      PROVE  UNCHANGED <<futures, future, producer>>
  BY <1>5 DEF Begin, CallerStep, RegisterSupervisor, NameSupervisor, Write,
              Return, TimeOut
<1>6. CASE UNCHANGED vars
  BY <1>6 DEF vars
<1> QED
  BY <1>1, <1>2, <1>3, <1>4, <1>5, <1>6 DEF Next, LinkStep

LEMMA OthersKeepReplied ==
  ASSUME [Next]_vars
  PROVE  \/ \E h \in Host, t \in Target : Execute(h, t)
         \/ UNCHANGED replied
<1> USE DEF serverVars
<1>1. CASE LinkStep
  BY <1>1 DEF LinkStep, Unlink, Link
<1>2. ASSUME NEW h \in Host,
             Connect(h) \/ Disconnect(h) \/ Reconnect(h) \/ Reject(h) \/ Choke(h)
      PROVE  UNCHANGED replied
  BY <1>2 DEF Connect, Disconnect, Reconnect, Reject, Choke
<1>3. ASSUME NEW h \in Host, Receive(h) \/ Answer(h) \/ GiveUp(h) \/ Report(h)
      PROVE  UNCHANGED replied
  BY <1>3 DEF Receive, Answer, GiveUp, WriteReply, Report
<1>4. ASSUME NEW h \in Host, Success(h) \/ Failure(h) PROVE UNCHANGED replied
  BY <1>4 DEF Success, Failure, Finish
<1>5. ASSUME NEW c \in Call, Begin(c) \/ CallerStep(c) PROVE UNCHANGED replied
  BY <1>5 DEF Begin, CallerStep, RegisterSupervisor, NameSupervisor, PutFuture,
              Write, Return, TimeOut
<1>6. CASE UNCHANGED vars
  BY <1>6 DEF vars
<1> QED
  BY <1>1, <1>2, <1>3, <1>4, <1>5, <1>6 DEF Next, LinkStep

LEMMA TypeStep == TypeOK /\ [Next]_vars => TypeOK'
<1> SUFFICES ASSUME TypeOK, [Next]_vars PROVE TypeOK'
  OBVIOUS
<1> USE HostsOfCalls, NoneAssumption DEF Status, clientVars, callerVars, linkVars,
        serverVars
<1>1. ASSUME NEW c \in Call, Begin(c) PROVE TypeOK'
  <2>1. nextId[HostFor(c)] \in Nat /\ HostFor(c) \in Host
    BY DEF TypeOK
  <2>2. /\ \E v \in {"ready", "supervised"} : stage' = [stage EXCEPT ![c] = v]
        /\ id' = [id EXCEPT ![c] = nextId[HostFor(c)]]
        /\ nextId' = [nextId EXCEPT ![HostFor(c)] = @ + 1]
    BY <1>1 DEF Begin, Advance
  <2>3. nextId' \in [Host -> Nat] /\ id' \in [Call -> Nat]
    BY <2>1, <2>2 DEF TypeOK
  <2>4. stage' \in [Call -> Stages]
    BY <2>2 DEF TypeOK
  <2>5. ASSUME NEW d \in Call, stage'[d] # "idle"
        PROVE  id'[d] < nextId'[HostFor(d)]
    <3>1. CASE d = c
      BY <2>1, <2>2, <3>1 DEF TypeOK
    <3>2. CASE d # c
      <4>1. id'[d] = id[d] /\ stage[d] # "idle" /\ id[d] \in Nat
        BY <2>2, <2>5, <3>2 DEF TypeOK
      <4>2. nextId'[HostFor(d)] \in Nat /\ nextId[HostFor(d)] \in Nat
            /\ nextId'[HostFor(d)] >= nextId[HostFor(d)]
        <5>1. nextId \in [Host -> Nat] /\ HostFor(d) \in Host
          BY DEF TypeOK
        <5>2. CASE HostFor(d) = HostFor(c)
          BY <2>2, <5>1, <5>2
        <5>3. CASE HostFor(d) # HostFor(c)
          BY <2>2, <5>1, <5>3
        <5> QED
          BY <5>2, <5>3
      <4>3. id[d] < nextId[HostFor(d)]
        BY <4>1 DEF TypeOK
      <4> QED
        BY <4>1, <4>2, <4>3
    <3> QED
      BY <3>1, <3>2
  <2>6. UNCHANGED <<connection, retry, futures, supervisors, tag, future, producer,
                    linkVars, exits, wire, replies, reporting, written, serverVars>>
    BY <1>1 DEF Begin
  <2> QED
    BY <2>3, <2>4, <2>5, <2>6 DEF TypeOK
<1>13. ASSUME NEW c \in Call, RegisterSupervisor(c) \/ NameSupervisor(c)
       PROVE  TypeOK'
  <2> DEFINE p == ProxyOf[c]
  <2>1. p \in Proxy /\ supervisor[p] \in Supervisor \cup {None}
    BY DEF TypeOK
  <2> HIDE DEF p
  <2>2. /\ stage[c] \in {"supervised", "named"}
        /\ \E v \in {"done", "named", "ready"} : stage' = [stage EXCEPT ![c] = v]
        /\ UNCHANGED <<connection, retry, nextId, futures, id, future, producer,
                       linkVars, exits, wire, replies, reporting, written,
                       serverVars>>
    BY <1>13 DEF RegisterSupervisor, NameSupervisor, Advance
  <2>3. /\ stage' \in [Call -> Stages]
        /\ \A d \in Call : stage'[d] # "idle" => stage[d] # "idle"
    BY <2>2 DEF TypeOK
  <2>4. supervisors' \in [Host -> [Supervisor -> Proxy \cup {None}]]
    <3>1. supervisors \in [Host -> [Supervisor -> Proxy \cup {None}]]
      BY DEF TypeOK
    <3>2. \/ UNCHANGED supervisors
          \/ supervisors' = [supervisors EXCEPT ![HostFor(c)][supervisor[p]] =
                               IF @ = None THEN p ELSE @]
      BY <1>13 DEF RegisterSupervisor, NameSupervisor, p
    <3>3. CASE supervisors' = [supervisors EXCEPT ![HostFor(c)][supervisor[p]] =
                                 IF @ = None THEN p ELSE @]
      <4>1. supervisors[HostFor(c)] \in [Supervisor -> Proxy \cup {None}]
        BY <3>1
      <4>2. [supervisors[HostFor(c)] EXCEPT ![supervisor[p]] =
               IF @ = None THEN p ELSE @] \in [Supervisor -> Proxy \cup {None}]
        BY <2>1, <4>1
      <4>3. supervisors' = [supervisors EXCEPT ![HostFor(c)] =
                [supervisors[HostFor(c)] EXCEPT ![supervisor[p]] =
                                   IF @ = None THEN p ELSE @]]
        BY <3>1, <3>3
      <4> QED
        BY <3>1, <4>2, <4>3
    <3> QED
      BY <3>1, <3>2, <3>3
  <2>5. tag' \in [Call -> Supervisor \cup {None}]
    <3>1. UNCHANGED tag \/ tag' = [tag EXCEPT ![c] = supervisor[p]]
      BY <1>13 DEF RegisterSupervisor, NameSupervisor, p
    <3> QED
      BY <2>1, <3>1 DEF TypeOK
  <2> QED
    BY <2>2, <2>3, <2>4, <2>5 DEF TypeOK
<1>2. ASSUME NEW c \in Call, PutFuture(c) PROVE TypeOK'
  <2>1. futures' \in [Host -> SUBSET [id : Nat, call : Call]]
    <3>1. Entry(id[c], c) \in [id : Nat, call : Call]
      BY DEF TypeOK, Entry
    <3> QED
      BY <1>2, <3>1 DEF PutFuture, TypeOK
  <2> QED
    BY <1>2, <2>1 DEF PutFuture, TypeOK
<1>3. ASSUME NEW c \in Call, Write(c) PROVE TypeOK'
  <2>1. wire' \in [Host -> Seq(Call)] /\ written' \in [Host -> Seq(Call)]
    <3>1. wire \in [Host -> Seq(Call)] /\ written \in [Host -> Seq(Call)]
      BY DEF TypeOK
    <3>2. Append(wire[HostFor(c)], c) \in Seq(Call)
          /\ Append(written[HostFor(c)], c) \in Seq(Call)
      BY <3>1
    <3>3. \/ UNCHANGED <<wire, written>>
          \/ /\ wire' = [wire EXCEPT ![HostFor(c)] =
                            Append(wire[HostFor(c)], c)]
             /\ written' = [written EXCEPT ![HostFor(c)] =
                               Append(written[HostFor(c)], c)]
      BY <1>3, <3>1 DEF Write
    <3> QED
      BY <3>1, <3>2, <3>3
  <2>2. stage' \in [Call -> Stages]
        /\ \A d \in Call : stage'[d] # "idle" => stage[d] # "idle"
    BY <1>3 DEF Write, TypeOK
  <2> QED
    BY <1>3, <2>1, <2>2 DEF Write, TypeOK
<1>4. ASSUME NEW c \in Call, Return(c) \/ TimeOut(c) PROVE TypeOK'
  <2>1. stage' \in [Call -> Stages]
        /\ \A d \in Call : stage'[d] # "idle" => stage[d] # "idle"
    <3>1. stage \in [Call -> Stages]
      BY DEF TypeOK
    <3>2. stage[c] = "waiting" /\ stage' = [stage EXCEPT ![c] = "done"]
      BY <1>4 DEF Return, TimeOut
    <3> QED
      BY <3>1, <3>2
  <2>2. UNCHANGED <<clientVars, id, tag, future, producer, linkVars, exits,
                    wire, replies, reporting, written, serverVars>>
    BY <1>4 DEF Return, TimeOut
  <2> QED
    BY <2>1, <2>2 DEF TypeOK
<1>5. CASE LinkStep
  <2>1. PICK p \in Proxy, s \in Supervisor \cup {None} :
          supervisor' = [supervisor EXCEPT ![p] = s]
    BY <1>5 DEF LinkStep, Unlink, Link
  <2>2. had' \in [Proxy -> SUBSET Supervisor]
    <3>1. had \in [Proxy -> SUBSET Supervisor]
      BY DEF TypeOK
    <3>2. CASE UNCHANGED had
      BY <3>1, <3>2
    <3>3. ASSUME NEW q \in Proxy, NEW r \in Supervisor,
                 had' = [had EXCEPT ![q] = @ \cup {r}]
          PROVE  had' \in [Proxy -> SUBSET Supervisor]
      BY <3>1, <3>3
    <3>4. \/ UNCHANGED had
          \/ \E q \in Proxy, r \in Supervisor :
               had' = [had EXCEPT ![q] = @ \cup {r}]
      BY <1>5 DEF LinkStep, Unlink, Link
    <3> QED
      BY <3>2, <3>3, <3>4
  <2>3. UNCHANGED <<clientVars, callerVars, exits, wire, replies, reporting,
                    written, serverVars>>
    BY <1>5 DEF LinkStep, Unlink, Link
  <2> QED
    BY <2>1, <2>2, <2>3 DEF TypeOK
<1>6. ASSUME NEW h \in Host, Connect(h) \/ Reconnect(h) PROVE TypeOK'
  <2>1. connection' \in [Host -> {"none", "open", "closed"}]
        /\ retry' \in [Host -> {"no", "armed", "done"}]
    <3>1. connection \in [Host -> {"none", "open", "closed"}]
          /\ retry \in [Host -> {"no", "armed", "done"}]
      BY DEF TypeOK
    <3>2. CASE Connect(h)
      BY <3>1, <3>2 DEF Connect
    <3>3. CASE Reconnect(h)
      BY <3>1, <3>3 DEF Reconnect
    <3> QED
      BY <1>6, <3>2, <3>3
  <2>2. UNCHANGED <<nextId, futures, supervisors, callerVars, linkVars,
                    exits, wire, replies, reporting, written, serverVars>>
    BY <1>6 DEF Connect, Reconnect
  <2> QED
    BY <2>1, <2>2 DEF TypeOK
<1>7. ASSUME NEW h \in Host, Disconnect(h) \/ Reject(h) \/ Choke(h)
      PROVE  TypeOK'
  <2>1. wire[h] \in Seq(Call) /\ replies[h] \in Seq(Reply)
    BY DEF TypeOK
  <2>2. PICK m \in Seq(Call), r \in Seq(Reply), z \in 0 .. 1 : Cut(h, m, r, z)
    <3> Handled(h) \in 0 .. 1
      BY DEF Handled
    <3>1. CASE Disconnect(h)
      BY <2>1, <3>1 DEF Disconnect
    <3>2. CASE Reject(h)
      <4>1. Tail(wire[h]) \in Seq(Call)
        BY <2>1, <3>2 DEF Reject
      <4> QED
        BY <2>1, <3>2, <4>1 DEF Reject
    <3>3. CASE Choke(h)
      <4>1. Tail(replies[h]) \in Seq(Reply)
        BY <2>1, <3>3 DEF Choke
      <4>2. Cut(h, wire[h], Tail(replies[h]), 0) /\ 0 \in 0 .. 1
        BY <3>3 DEF Choke
      <4> QED
        BY <2>1, <4>1, <4>2
    <3> QED
      BY <1>7, <3>1, <3>2, <3>3
  <2>3. wire' \in [Host -> Seq(Call)] /\ replies' \in [Host -> Seq(Reply)]
    <3>1. \A g \in Host : wire'[g] \in Seq(Call) /\ replies'[g] \in Seq(Reply)
      BY <2>2, CutTypes DEF TypeOK
    <3>2. \E i : wire' = [wire EXCEPT ![h] = SubSeq(m, 1, i)]
      BY <2>2 DEF Cut
    <3>3. \E i : replies' = [replies EXCEPT ![h] = SubSeq(r, 1, i)]
      BY <2>2 DEF Cut
    <3> QED
      BY <3>1, <3>2, <3>3 DEF TypeOK
  <2>4. connection' \in [Host -> {"none", "open", "closed"}]
        /\ retry' \in [Host -> {"no", "armed", "done"}]
    BY <2>2 DEF Cut, TypeOK
  <2>5. UNCHANGED <<nextId, futures, supervisors, callerVars, linkVars,
                    exits, written, serverVars>>
    BY <1>7 DEF Disconnect, Reject, Choke
  <2>6. reporting' \in [Host -> BOOLEAN]
    BY <1>7 DEF Disconnect, Reject, Choke, TypeOK
  <2> QED
    BY <2>3, <2>4, <2>5, <2>6 DEF TypeOK
<1>8. ASSUME NEW h \in Host, Receive(h) PROVE TypeOK'
  <2>1. Head(wire[h]) \in Call /\ Tail(wire[h]) \in Seq(Call)
    BY <1>8 DEF Receive, TypeOK
  <2>2. inbox' \in [Host -> [Target -> Seq(Call)]]
    <3> DEFINE c == Head(wire[h])
               t == TargetFor(c)
    <3>1. inbox \in [Host -> [Target -> Seq(Call)]]
      BY DEF TypeOK
    <3>2. t \in Target /\ inbox[h] \in [Target -> Seq(Call)]
      BY <2>1, <3>1
    <3>3. Append(inbox[h][t], c) \in Seq(Call)
      BY <2>1, <3>2
    <3>4. inbox' = [inbox EXCEPT ![h][t] = Append(@, c)]
      BY <1>8 DEF Receive
    <3> HIDE DEF c, t
    <3> QED
      BY <3>1, <3>2, <3>3, <3>4
  <2>3. wire' \in [Host -> Seq(Call)] /\ serving' \in [Host -> Call \cup {None}]
    <3>1. wire \in [Host -> Seq(Call)] /\ serving \in [Host -> Call \cup {None}]
      BY DEF TypeOK
    <3>2. /\ wire' = [wire EXCEPT ![h] = Tail(@)]
          /\ serving' \in {serving, [serving EXCEPT ![h] = Head(wire[h])]}
      BY <1>8 DEF Receive
    <3> QED
      BY <2>1, <3>1, <3>2
  <2>4. UNCHANGED <<clientVars, callerVars, linkVars, exits, replies,
                    reporting, written, answer, executed, replied>>
    BY <1>8 DEF Receive
  <2> QED
    BY <2>2, <2>3, <2>4 DEF TypeOK
<1>9. ASSUME NEW h \in Host, NEW t \in Target, Execute(h, t) PROVE TypeOK'
  <2>1. Head(inbox[h][t]) \in Call /\ Tail(inbox[h][t]) \in Seq(Call)
    BY <1>9 DEF Execute, TypeOK
  <2>2. /\ inbox' \in [Host -> [Target -> Seq(Call)]]
        /\ executed' \in [Host -> [Target -> Seq(Call)]]
    <3> DEFINE c == Head(inbox[h][t])
    <3>1. /\ inbox \in [Host -> [Target -> Seq(Call)]]
          /\ executed \in [Host -> [Target -> Seq(Call)]]
      BY DEF TypeOK
    <3>2. Append(executed[h][t], c) \in Seq(Call)
      BY <2>1, <3>1
    <3>3. /\ inbox' = [inbox EXCEPT ![h][t] = Tail(@)]
          /\ executed' = [executed EXCEPT ![h][t] = Append(@, c)]
      BY <1>9 DEF Execute
    <3> HIDE DEF c
    <3> QED
      BY <2>1, <3>1, <3>2, <3>3
  <2>3. answer' \in [Host -> {"none", "result", "exception"}]
        /\ replied' \subseteq Call
    <3>1. answer \in [Host -> {"none", "result", "exception"}]
          /\ replied \subseteq Call
      BY DEF TypeOK
    <3>2. PICK outcome \in {"result", "none", "exception"} :
            /\ answer' \in {answer, [answer EXCEPT ![h] = outcome]}
            /\ replied' \in {replied, replied \cup {Head(inbox[h][t])}}
      BY <1>9 DEF Execute
    <3> QED
      BY <2>1, <3>1, <3>2
  <2> QED
    BY <1>9, <2>2, <2>3 DEF Execute, TypeOK
<1>10. ASSUME NEW h \in Host, Answer(h) \/ GiveUp(h) PROVE TypeOK'
  <2>1. serving[h] \in Call
    BY <1>10 DEF Answer, GiveUp, TypeOK
  <2>2. PICK status \in Status : WriteReply(h, status)
    BY <1>10 DEF Answer, GiveUp
  <2>3. [id |-> id[serving[h]], status |-> status,
         supervisor |-> tag[serving[h]], of |-> serving[h]] \in Reply
    BY <2>1 DEF Reply, TypeOK
  <2>4. replies' \in [Host -> Seq(Reply)]
    <3> DEFINE r == [id |-> id[serving[h]], status |-> status,
                     supervisor |-> tag[serving[h]], of |-> serving[h]]
    <3>1. replies \in [Host -> Seq(Reply)]
      BY DEF TypeOK
    <3>2. Append(replies[h], r) \in Seq(Reply)
      BY <2>3, <3>1
    <3>3. \/ UNCHANGED replies
          \/ replies' = [replies EXCEPT ![h] = Append(@, r)]
      BY <2>2 DEF WriteReply
    <3> HIDE DEF r
    <3> QED
      BY <3>1, <3>2, <3>3
  <2> QED
    BY <2>2, <2>4 DEF WriteReply, TypeOK
<1>11. ASSUME NEW h \in Host, Success(h) \/ Failure(h) PROVE TypeOK'
  <2>1. Head(replies[h]) \in Reply /\ Tail(replies[h]) \in Seq(Reply)
    <3>1. replies[h] # <<>>
      BY <1>11 DEF Success, Failure
    <3>2. replies[h] \in Seq(Reply)
      BY DEF TypeOK
    <3> QED
      BY <3>1, <3>2
  <2>2. PICK c \in Call : Finish(h, c, Head(replies[h]))
    BY <1>11 DEF Success, Failure
  <2>3. /\ Head(replies[h]).status \in Status
        /\ Head(replies[h]).of \in Call
        /\ Head(replies[h]).supervisor \in Supervisor \cup {None}
    BY <2>1 DEF Reply
  <2>4. /\ exits' \subseteq [to : Supervisor, dead : Proxy, for : Call]
        /\ reporting' \in [Host -> BOOLEAN]
    BY <1>11 DEF Success, Failure, TypeOK
  <2>5. /\ future' \in [Call -> {"none", "open"} \cup Status]
        /\ producer' \in [Call -> Call \cup {None}]
    BY <2>2, <2>3 DEF Finish, Complete, TypeOK
  <2>6. replies' \in [Host -> Seq(Reply)]
    BY <2>1, <2>2 DEF Finish, TypeOK
  <2>7. futures' \in [Host -> SUBSET [id : Nat, call : Call]]
    BY <2>2 DEF Finish, TypeOK
  <2> QED
    BY <2>2, <2>4, <2>5, <2>6, <2>7 DEF Finish, TypeOK
<1>14. ASSUME NEW h \in Host, Report(h) PROVE TypeOK'
  <2> DEFINE r == Head(replies[h])
             p == supervisors[h][r.supervisor]
  <2>1. r \in Reply
    <3>1. replies[h] # <<>> /\ replies[h] \in Seq(Reply)
      BY <1>14 DEF Report, TypeOK
    <3> QED
      BY <3>1
  <2>2. /\ r.supervisor # None /\ p # None /\ supervisor[p] # None
        /\ exits' = exits \cup {[to |-> supervisor[p], dead |-> p, for |-> r.of]}
        /\ reporting' = [reporting EXCEPT ![h] = TRUE]
        /\ UNCHANGED <<clientVars, callerVars, linkVars, wire, replies, written,
                       serverVars>>
    BY <1>14 DEF Report
  <2> HIDE DEF r
  <2>3. r.supervisor \in Supervisor /\ r.of \in Call
    BY <2>1, <2>2 DEF Reply
  <2>4. p \in Proxy
    BY <2>2, <2>3 DEF TypeOK
  <2> HIDE DEF p
  <2>5. supervisor[p] \in Supervisor
    BY <2>2, <2>4 DEF TypeOK
  <2>6. exits' \subseteq [to : Supervisor, dead : Proxy, for : Call]
    BY <2>2, <2>3, <2>4, <2>5 DEF TypeOK
  <2>7. reporting' \in [Host -> BOOLEAN]
    BY <2>2 DEF TypeOK
  <2> QED
    BY <2>2, <2>6, <2>7 DEF TypeOK
<1>12. CASE UNCHANGED vars
  BY <1>12 DEF vars, TypeOK
<1> QED
  BY <1>1, <1>2, <1>3, <1>4, <1>5, <1>6, <1>7, <1>8, <1>9, <1>10, <1>11, <1>12,
     <1>13, <1>14
  DEF Next, CallerStep, LinkStep

\* A call that has begun stays so, with its id; so the replies that are due stay
\* due.
LEMMA Monotone ==
  ASSUME TypeOK, [Next]_vars, NEW h \in Host
  PROVE  /\ Begun(h) \subseteq Begun(h)'
         /\ \A c \in Begun(h) : id'[c] = id[c]
         /\ Due(h) \subseteq Due(h)'
<1>1. /\ stage \in [Call -> Stages]
      /\ id \in [Call -> Nat]
  BY DEF TypeOK
<1>2. \A c \in Call : stage[c] # "idle" => stage'[c] # "idle" /\ id'[c] = id[c]
  <2>1. ASSUME NEW d \in Call, Begin(d)
        PROVE  \A c \in Call : stage[c] # "idle" =>
                 stage'[c] # "idle" /\ id'[c] = id[c]
    BY <1>1, <2>1 DEF Begin, Advance
  <2>2. ASSUME NEW d \in Call, CallerStep(d)
        PROVE  \A c \in Call : stage[c] # "idle" =>
                 stage'[c] # "idle" /\ id'[c] = id[c]
    <3>1. /\ UNCHANGED id
          /\ \E v \in Stages \ {"idle"} : stage' = [stage EXCEPT ![d] = v]
      BY <2>2 DEF CallerStep, RegisterSupervisor, NameSupervisor, Advance,
                  PutFuture, Write, Return, TimeOut
    <3> QED
      BY <1>1, <3>1
  <2>3. CASE UNCHANGED <<stage, id>>
    BY <2>3
  <2> QED
    BY <2>1, <2>2, <2>3, OthersKeepCalls
<1>3. replied \subseteq replied'
  <2>1. ASSUME NEW g \in Host, NEW t \in Target, Execute(g, t)
        PROVE  replied \subseteq replied'
    BY <2>1 DEF Execute
  <2>2. CASE UNCHANGED replied
    BY <2>2
  <2> QED
    BY <2>1, <2>2, OthersKeepReplied
<1> QED
  BY <1>2, <1>3 DEF Begun, Due, CallsOf

LEMMA IdsDifferStep == IInv /\ [Next]_vars => IdsDiffer'
<1> SUFFICES ASSUME IInv, [Next]_vars PROVE IdsDiffer'
  OBVIOUS
<1>1. /\ stage \in [Call -> Stages]
      /\ id \in [Call -> Nat] /\ nextId \in [Host -> Nat]
      /\ \A c \in Call : stage[c] # "idle" => id[c] < nextId[HostFor(c)]
  BY DEF IInv, TypeOK
<1>2. ASSUME NEW b \in Call, Begin(b) PROVE IdsDiffer'
  <2>1. /\ \E v \in Stages \ {"idle"} : stage' = [stage EXCEPT ![b] = v]
        /\ id' = [id EXCEPT ![b] = nextId[HostFor(b)]]
    <3>1. \/ stage' = [stage EXCEPT ![b] = "ready"]
          \/ stage' = [stage EXCEPT ![b] = "supervised"]
      BY <1>2 DEF Begin, Advance
    <3>2. "ready" \in Stages \ {"idle"} /\ "supervised" \in Stages \ {"idle"}
      OBVIOUS
    <3>3. id' = [id EXCEPT ![b] = nextId[HostFor(b)]]
      BY <1>2 DEF Begin
    <3> QED
      BY <3>1, <3>2, <3>3
  <2>2. SUFFICES ASSUME NEW h \in Host, NEW c \in Begun(h)', NEW d \in Begun(h)',
                        id'[c] = id'[d]
                 PROVE  c = d
    BY DEF IdsDiffer
  <2>3. c \in Call /\ d \in Call /\ HostFor(c) = h /\ HostFor(d) = h
    BY DEF Begun, CallsOf
  <2>4. ASSUME NEW x \in Call, x # b, HostFor(x) = h, stage'[x] # "idle"
        PROVE  x \in Begun(h) /\ id'[x] = id[x] /\ id[x] < nextId[h]
    BY <1>1, <2>1, <2>4 DEF Begun, CallsOf
  <2>5. stage'[c] # "idle" /\ stage'[d] # "idle"
    BY DEF Begun
  <2>6. b \in {c, d} => id'[b] = nextId[h] /\ nextId[h] \in Nat
    BY <1>1, <2>1, <2>3
  <2>7. CASE c # b /\ d # b
    BY <2>2, <2>3, <2>4, <2>5, <2>7 DEF IInv, IdsDiffer
  <2>8. CASE c = b /\ d # b
    BY <1>1, <2>2, <2>3, <2>4, <2>5, <2>6, <2>8
  <2>9. CASE c # b /\ d = b
    BY <1>1, <2>2, <2>3, <2>4, <2>5, <2>6, <2>9
  <2> QED
    BY <2>7, <2>8, <2>9
<1>3. CASE \A b \in Call : ~Begin(b)
  <2>1. UNCHANGED id /\ \A c \in Call : stage'[c] # "idle" => stage[c] # "idle"
    <3>1. ASSUME NEW d \in Call, CallerStep(d)
          PROVE  /\ UNCHANGED id
                 /\ \A c \in Call : stage'[c] # "idle" => stage[c] # "idle"
      <4>1. /\ UNCHANGED id
            /\ stage[d] # "idle"
            /\ \E v \in Stages \ {"idle"} :
                 stage' = [stage EXCEPT ![d] = v]
        BY <3>1 DEF CallerStep, RegisterSupervisor, NameSupervisor, Advance,
                    PutFuture, Write, Return, TimeOut
      <4> QED
        BY <1>1, <4>1
    <3>2. CASE UNCHANGED <<stage, id>>
      BY <3>2
    <3> QED
      BY <1>3, <3>1, <3>2, OthersKeepCalls
  <2>2. \A h \in Host : Begun(h)' \subseteq Begun(h)
    BY <2>1 DEF Begun, CallsOf
  <2> QED
    BY <2>1, <2>2 DEF IInv, IdsDiffer
<1> QED
  BY <1>2, <1>3


\* Only PutFuture adds an entry; every other step removes entries or none.
LEMMA EntriesStep ==
  ASSUME TypeOK, [Next]_vars
  PROVE  \/ \E c \in Call : PutFuture(c)
         \/ \A h \in Host : futures'[h] \subseteq futures[h]
<1>1. futures \in [Host -> SUBSET [id : Nat, call : Call]]
  BY DEF TypeOK
<1>2. ASSUME NEW h \in Host, Success(h) \/ Failure(h)
      PROVE  \A g \in Host : futures'[g] \subseteq futures[g]
  <2>1. \E x : futures' = [futures EXCEPT ![h] = @ \ {x}]
    BY <1>2 DEF Success, Failure, Finish
  <2> QED
    BY <1>1, <2>1
<1>3. CASE UNCHANGED futures
  BY <1>3
<1> QED
  BY <1>2, <1>3, OthersKeepFutures

LEMMA RegisteredStep == IInv /\ [Next]_vars => Registered'
<1> SUFFICES ASSUME IInv, [Next]_vars, NEW h \in Host, NEW e \in futures'[h]
             PROVE  e.call \in Begun(h)' /\ e.id = id'[e.call]
  BY DEF Registered
<1>1. TypeOK
  BY DEF IInv
<1>2. CASE e \in futures[h]
  BY <1>1, <1>2, Monotone DEF IInv, Registered
<1>3. ASSUME NEW c \in Call, PutFuture(c), e \notin futures[h]
      PROVE  e.call \in Begun(h)' /\ e.id = id'[e.call]
  <2>1. HostFor(c) = h /\ e = Entry(id[c], c)
    BY <1>1, <1>3, HostsOfCalls DEF PutFuture, TypeOK
  <2>2. c \in Begun(h)
    BY <1>3, <2>1 DEF PutFuture, Begun, CallsOf
  <2> QED
    BY <1>1, <2>1, <2>2, Monotone DEF Entry
<1> QED
  BY <1>1, <1>2, <1>3, EntriesStep

LEMMA OnItsChannelStep == IInv /\ [Next]_vars => OnItsChannel'
<1> SUFFICES ASSUME IInv, [Next]_vars, NEW g \in Host
             PROVE  /\ wire'[g] \in Seq(Begun(g)')
                    /\ replies'[g] \in Seq(Due(g)')
                    /\ serving'[g] # None =>
                         /\ serving'[g] \in Begun(g)'
                         /\ TwoWay(serving'[g])
                         /\ answer'[g] = "result" => serving'[g] \in replied'
                    /\ serving'[g] = None => answer'[g] = "none"
  BY DEF OnItsChannel, TwoWay
<1>1. TypeOK
  BY DEF IInv
<1>2. /\ Begun(g) \subseteq Begun(g)'
      /\ Due(g) \subseteq Due(g)'
      /\ \A c \in Begun(g) : id'[c] = id[c]
  BY <1>1, Monotone
<1>3. wire[g] \in Seq(Begun(g)) /\ replies[g] \in Seq(Due(g))
  BY DEF IInv, OnItsChannel
<1>4. wire[g] \in Seq(Begun(g)') /\ replies[g] \in Seq(Due(g)')
  BY <1>2, <1>3, Wider
<1>5. /\ wire \in [Host -> Seq(Call)] /\ replies \in [Host -> Seq(Reply)]
      /\ serving \in [Host -> Call \cup {None}]
      /\ answer \in [Host -> {"none", "result", "exception"}]
      /\ replied \subseteq Call
  BY <1>1 DEF TypeOK
<1>6. /\ serving[g] # None =>
           /\ serving[g] \in Begun(g)
           /\ TwoWay(serving[g])
           /\ answer[g] = "result" => serving[g] \in replied
      /\ serving[g] = None => answer[g] = "none"
  BY DEF IInv, OnItsChannel
<1>7. ASSUME NEW c \in Call, Write(c)
      PROVE  wire'[g] \in Seq(Begun(g)') /\ UNCHANGED <<replies, serverVars>>
  <2>1. HostFor(c) = g => c \in Begun(g)
    BY <1>7 DEF Write, Begun, CallsOf
  <2>2. HostFor(c) = g => Append(wire[g], c) \in Seq(Begun(g)')
    BY <1>2, <1>4, <2>1
  <2>3. UNCHANGED wire \/ wire' = [wire EXCEPT ![HostFor(c)] = Append(@, c)]
    BY <1>7 DEF Write
  <2>4. wire'[g] \in Seq(Begun(g)')
    BY <1>4, <1>5, <2>2, <2>3
  <2> QED
    BY <1>7, <2>4 DEF Write
<1>8. ASSUME NEW h \in Host, Disconnect(h) \/ Reject(h) \/ Choke(h)
      PROVE  /\ wire'[g] \in Seq(Begun(g)') /\ replies'[g] \in Seq(Due(g)')
             /\ UNCHANGED serverVars
  <2>1. PICK m, r, z :
          /\ z \in 0 .. 1 /\ Cut(h, m, r, z)
          /\ m = wire[h] \/ (wire[h] # <<>> /\ m = Tail(wire[h]))
          /\ r = replies[h] \/ (replies[h] # <<>> /\ r = Tail(replies[h]))
    BY <1>8, WhatIsCut
  <2>2. PICK i \in 0 .. Len(m), j \in 0 .. Len(r) :
          /\ wire' = [wire EXCEPT ![h] = SubSeq(m, 1, i)]
          /\ replies' = [replies EXCEPT ![h] = SubSeq(r, 1, j)]
    BY <2>1, CutParts
  <2>3. CASE g = h
    <3>1. m \in Seq(Begun(g)') /\ r \in Seq(Due(g)')
      BY <1>4, <2>1, <2>3, Rest
    <3>2. /\ SubSeq(m, 1, i) \in Seq(Begun(g)')
          /\ SubSeq(r, 1, j) \in Seq(Due(g)')
      BY <2>2, <3>1, Prefix
    <3> QED
      BY <1>5, <1>8, <2>2, <2>3, <3>2 DEF Disconnect, Reject, Choke
  <2>4. CASE g # h
    BY <1>4, <1>5, <1>8, <2>2, <2>4 DEF Disconnect, Reject, Choke
  <2> QED
    BY <2>3, <2>4
<1>9. ASSUME NEW h \in Host, Receive(h)
      PROVE  /\ wire'[g] \in Seq(Begun(g)')
             /\ UNCHANGED <<replies, answer, replied>>
             /\ \/ serving'[g] = serving[g]
                \/ /\ serving[g] = None
                   /\ serving'[g] \in Begun(g) /\ TwoWay(serving'[g])
  <2>1. /\ wire[h] # <<>> /\ serving[h] = None
        /\ wire' = [wire EXCEPT ![h] = Tail(@)]
        /\ UNCHANGED <<replies, answer, replied>>
        /\ \/ UNCHANGED serving
           \/ /\ TwoWay(Head(wire[h]))
              /\ serving' = [serving EXCEPT ![h] = Head(wire[h])]
    BY <1>9 DEF Receive
  <2>2. h = g => Tail(wire[g]) \in Seq(Begun(g)') /\ Head(wire[g]) \in Begun(g)
    BY <1>3, <1>4, <2>1, Rest
  <2> QED
    BY <1>4, <1>5, <2>1, <2>2
<1>10. ASSUME NEW h \in Host, NEW t \in Target, Execute(h, t)
       PROVE  /\ UNCHANGED <<wire, replies, serving>>
              /\ serving[g] # None =>
                   (answer'[g] = "result" => serving[g] \in replied')
              /\ serving[g] = None => answer'[g] = "none"
  <2> DEFINE c == Head(inbox[h][t])
  <2>1. c \in Call
    BY <1>1, <1>10 DEF Execute, TypeOK
  <2>2. PICK outcome \in {"result", "none", "exception"} :
          /\ answer' = IF serving[h] = c
                       THEN [answer EXCEPT ![h] = outcome] ELSE answer
          /\ replied' = IF outcome = "result" /\ TwoWay(c)
                        THEN replied \cup {c} ELSE replied
    BY <1>10 DEF Execute
  <2>3. UNCHANGED <<wire, replies, serving>>
    BY <1>10 DEF Execute
  <2> HIDE DEF c
  <2>4. CASE h = g /\ serving[h] = c
    BY <1>5, <1>6, <2>1, <2>2, <2>3, <2>4, NoneAssumption
  <2>5. CASE ~(h = g /\ serving[h] = c)
    BY <1>5, <1>6, <2>2, <2>3, <2>5
  <2> QED
    BY <2>4, <2>5
<1>11. ASSUME NEW h \in Host, NEW status \in Status, WriteReply(h, status),
              serving[h] # None, status = "result" => answer[h] = "result"
       PROVE  /\ replies'[g] \in Seq(Due(g)') /\ UNCHANGED <<wire, replied>>
              /\ serving'[g] \in {serving[g], None}
              /\ answer'[g] \in {answer[g], "none"}
              /\ serving'[g] = None => answer'[g] = "none"
  <2> DEFINE r == [id |-> id[serving[h]], status |-> status,
                   supervisor |-> tag[serving[h]], of |-> serving[h]]
  <2>1. h = g => r \in Due(g)
    <3>1. h = g => r \in Reply
      BY <1>1, <1>5, <1>11 DEF Reply, TypeOK
    <3> QED
      BY <1>6, <1>11, <3>1 DEF Due
  <2>2. h = g => Append(replies[g], r) \in Seq(Due(g)')
    BY <1>2, <1>4, <2>1
  <2>3. /\ \/ UNCHANGED replies
           \/ replies' = [replies EXCEPT ![h] = Append(@, r)]
        /\ serving' = [serving EXCEPT ![h] = None]
        /\ answer' = [answer EXCEPT ![h] = "none"]
        /\ UNCHANGED <<wire, replied>>
    BY <1>11 DEF WriteReply
  <2> HIDE DEF r
  <2> QED
    BY <1>4, <1>5, <1>6, <2>2, <2>3
<1>12. ASSUME NEW h \in Host, Success(h) \/ Failure(h)
       PROVE  replies'[g] \in Seq(Due(g)') /\ UNCHANGED <<wire, serverVars>>
  <2>1. /\ replies[h] # <<>> /\ replies' = [replies EXCEPT ![h] = Tail(@)]
        /\ UNCHANGED <<wire, serverVars>>
    BY <1>12 DEF Success, Failure, Finish
  <2>2. h = g => Tail(replies[g]) \in Seq(Due(g)')
    BY <1>4, <2>1, Rest
  <2> QED
    BY <1>4, <1>5, <2>1, <2>2
<1> DEFINE Goal == /\ wire'[g] \in Seq(Begun(g)')
                   /\ replies'[g] \in Seq(Due(g)')
                   /\ serving'[g] # None =>
                        /\ serving'[g] \in Begun(g)'
                        /\ TwoWay(serving'[g])
                        /\ answer'[g] = "result" => serving'[g] \in replied'
                   /\ serving'[g] = None => answer'[g] = "none"
<1>14. ASSUME NEW c \in Call, Write(c) PROVE Goal
  BY <1>2, <1>4, <1>6, <1>7, <1>14 DEF serverVars
<1>15. ASSUME NEW h \in Host, Disconnect(h) \/ Reject(h) \/ Choke(h) PROVE Goal
  BY <1>2, <1>6, <1>8, <1>15 DEF serverVars
<1>16. ASSUME NEW h \in Host, Receive(h) PROVE Goal
  BY <1>2, <1>4, <1>6, <1>9, <1>16, NoneAssumption, <1>5
<1>17. ASSUME NEW h \in Host, NEW t \in Target, Execute(h, t) PROVE Goal
  BY <1>2, <1>4, <1>6, <1>10, <1>17
<1>18. ASSUME NEW h \in Host, Answer(h) \/ GiveUp(h) PROVE Goal
  <2>1. PICK status \in Status :
          /\ WriteReply(h, status)
          /\ serving[h] # None
          /\ status = "result" => answer[h] = "result"
    BY <1>18 DEF Answer, GiveUp, Status
  <2> QED
    BY <1>2, <1>4, <1>6, <1>11, <1>18, <2>1 DEF Answer, GiveUp
<1>19. ASSUME NEW h \in Host, Success(h) \/ Failure(h) PROVE Goal
  BY <1>2, <1>4, <1>6, <1>12, <1>19 DEF serverVars
<1>20. ASSUME wire' = wire, replies' = replies, serving' = serving,
              answer' = answer, replied' = replied
       PROVE  Goal
  BY <1>2, <1>4, <1>6, <1>20 DEF TwoWay
<1> HIDE DEF Goal
<1>21. ASSUME UNCHANGED vars PROVE Goal
  <2>1. /\ wire' = wire /\ replies' = replies /\ serving' = serving
        /\ answer' = answer /\ replied' = replied
    BY <1>21 DEF vars, serverVars
  <2> QED
    BY <1>20, <2>1
<1>22. ASSUME NEW c \in Call, Begin(c) \/ CallerStep(c) PROVE Goal
  <2>1. CASE Begin(c)
    BY <1>20, <2>1 DEF Begin, serverVars
  <2>2. CASE PutFuture(c) \/ Return(c) \/ TimeOut(c)
    BY <1>20, <2>2 DEF PutFuture, Return, TimeOut, serverVars
  <2>3. CASE RegisterSupervisor(c) \/ NameSupervisor(c)
    BY <1>20, <2>3 DEF RegisterSupervisor, NameSupervisor, serverVars
  <2> QED
    BY <1>14, <1>22, <2>1, <2>2, <2>3 DEF CallerStep
<1>23. ASSUME LinkStep PROVE Goal
  BY <1>20, <1>23 DEF LinkStep, Unlink, Link, serverVars
<1>24. ASSUME NEW h \in Host, Connect(h) \/ Reconnect(h) \/ Report(h) PROVE Goal
  BY <1>20, <1>24 DEF Connect, Reconnect, Report, serverVars
<1>25. ASSUME NEW h \in Host,
              \/ Disconnect(h) \/ Reject(h) \/ Receive(h) \/ Answer(h)
              \/ GiveUp(h) \/ Success(h) \/ Failure(h) \/ Choke(h)
       PROVE  Goal
  BY <1>15, <1>16, <1>18, <1>19, <1>25
<1>26. ASSUME Next PROVE Goal
  BY <1>17, <1>22, <1>23, <1>24, <1>25, <1>26 DEF Next, LinkStep
<1>27. Goal
  BY <1>21, <1>26
<1> QED
  BY <1>27 DEF Goal

\* A future is completed with the reply that bears its id, which is the reply to
\* its own request.
LEMMA OwnReplyStep == IInv /\ [Next]_vars => OwnReply'
<1> SUFFICES ASSUME IInv, [Next]_vars PROVE OwnReply'
  OBVIOUS
<1>1. TypeOK
  BY DEF IInv
<1>2. /\ future \in [Call -> {"none", "open"} \cup Status]
      /\ producer \in [Call -> Call \cup {None}]
      /\ replies \in [Host -> Seq(Reply)]
  BY <1>1 DEF TypeOK
<1>3. \A h \in Host : replied \subseteq replied'
  <2>1. ASSUME NEW g \in Host, NEW t \in Target, Execute(g, t)
        PROVE  replied \subseteq replied'
    BY <2>1 DEF Execute
  <2>2. CASE UNCHANGED replied
    BY <2>2
  <2> QED
    BY <2>1, <2>2, OthersKeepReplied
<1>4. ASSUME NEW h \in Host, Success(h) \/ Failure(h) PROVE OwnReply'
  <2> DEFINE r == Head(replies[h])
  <2>1. PICK c \in Call : Entry(r.id, c) \in futures[h] /\ Finish(h, c, r)
    BY <1>4 DEF Success, Failure
  <2>2. r \in Due(h)
    <3>1. replies[h] # <<>> /\ replies[h] \in Seq(Due(h))
      BY <1>4 DEF Success, Failure, IInv, OnItsChannel
    <3> QED
      BY <3>1, Rest
  <2>3. c \in Begun(h) /\ r.id = id[c]
    BY <2>1 DEF IInv, Registered, Entry
  <2>4. r.of \in Begun(h) /\ r.id = id[r.of]
        /\ (r.status = "result" => r.of \in replied)
    BY <2>2 DEF Due
  <2>5. r.of = c
    BY <2>3, <2>4 DEF IInv, IdsDiffer
  <2>6. /\ future' = [future EXCEPT ![c] = r.status]
        /\ producer' = [producer EXCEPT ![c] = c]
    BY <2>1, <2>5 DEF Finish, Complete
  <2> HIDE DEF r
  <2>7. \A d \in Call : d # c => future'[d] = future[d] /\ producer'[d] = producer[d]
    BY <1>2, <2>6
  <2>8. future'[c] = r.status /\ producer'[c] = c
    BY <1>2, <2>6
  <2> QED
    BY <1>3, <1>4, <2>4, <2>5, <2>7, <2>8 DEF IInv, OwnReply, Completed
<1>5. ASSUME NEW c \in Call, PutFuture(c) PROVE OwnReply'
  <2>1. /\ future' = [future EXCEPT ![c] = "open"]
        /\ UNCHANGED <<producer, replied>>
    BY <1>5 DEF PutFuture, serverVars
  <2>2. \A d \in Call : Completed(d)' => Completed(d) /\ future'[d] = future[d]
    BY <1>2, <2>1 DEF Completed
  <2> QED
    BY <2>1, <2>2 DEF IInv, OwnReply
<1>6. CASE UNCHANGED <<future, producer>>
  <2>1. Host # {} \/ Call = {}
    BY HostsOfCalls
  <2> QED
    BY <1>3, <1>6, <2>1 DEF IInv, OwnReply, Completed
<1> QED
  BY <1>4, <1>5, <1>6, OthersKeepFutures

\* The types, and every id below its host's counter, for any number of hosts,
\* actors and calls.
THEOREM TypeCorrect == Spec => []TypeOK
<1>1. Init => TypeOK
  BY InitInv DEF IInv
<1>2. TypeOK /\ [Next]_vars => TypeOK'
  BY TypeStep
<1> QED
  BY <1>1, <1>2, PTL DEF Spec

\* Every call gets the reply to its own request, in any number of hosts that use
\* the same ids, and whatever is lost or late.
THEOREM CallsGetTheirOwnReply == Spec => []OwnReply
<1>1. IInv /\ [Next]_vars => IInv'
  BY TypeStep, IdsDifferStep, RegisteredStep, OnItsChannelStep, OwnReplyStep
  DEF IInv
<1>2. IInv => OwnReply
  BY DEF IInv
<1> QED
  BY InitInv, <1>1, <1>2, PTL DEF Spec

------------------------------------------------------------------------------
(***************************************************************************)
(* What Remote delivers: a reply finds its future, nothing is lost while   *)
(* the channel is open, requests are executed in the order in which they   *)
(* were written, and failures are reported once, to the right supervisor.  *)
(*                                                                         *)
(* The argument: a call is at one place at most, the wire, the worker, or  *)
(* the replies, from the write of its request to the end of its future;    *)
(* all that time its future is registered under its id, which no other     *)
(* call of its host has (IdsDiffer).                                       *)
(***************************************************************************)

InWire(h, c)   == \E k \in DOMAIN wire[h] : wire[h][k] = c
InReplies(h, c)  == \E k \in DOMAIN replies[h] : replies[h][k].of = c
UnderWay(h, c) == InWire(h, c) \/ serving[h] = c \/ InReplies(h, c)

\* A call is under way at one place at most.
Once ==
  \A h \in Host :
    /\ \A i, j \in DOMAIN wire[h] : wire[h][i] = wire[h][j] => i = j
    /\ \A i, j \in DOMAIN replies[h] : replies[h][i].of = replies[h][j].of => i = j
    /\ \A c \in Call : /\ ~(InWire(h, c) /\ serving[h] = c)
                       /\ ~(InWire(h, c) /\ InReplies(h, c))
                       /\ ~(serving[h] = c /\ InReplies(h, c))

\* A call that is under way was written, and its future is registered.
Awaited ==
  \A h \in Host, c \in Call : UnderWay(h, c) =>
    /\ stage[c] \in {"waiting", "done"}
    /\ HostFor(c) = h
    /\ TwoWay(c) => Entry(id[c], c) \in futures[h]

\* The stages before the future is registered.
Early == {"idle", "supervised", "named", "ready"}

\* What the stage of a call says of its future and of its client.
Lifecycle ==
  \A c \in Call :
    /\ stage[c] \in Early => future[c] = "none"
    /\ stage[c] = "put" => Entry(id[c], c) \in futures[HostFor(c)]
    /\ future[c] # "none" => TwoWay(c)
    /\ connection[HostFor(c)] = "none" => stage[c] = "idle"

\* A future is registered as long as it is open.
Unfinished == \A h \in Host : \A e \in futures[h] : future[e.call] = "open"

Delivery == Once /\ Awaited /\ Lifecycle /\ Unfinished

\* Replies are of calls that expect one, and name the supervisor of their request.
Tags ==
  \A h \in Host : \A k \in DOMAIN replies[h] :
    /\ TwoWay(replies[h][k].of)
    /\ replies[h][k].supervisor = tag[replies[h][k].of]

\* An actor is registered for a supervisor that it had, and it had the one it has.
Names ==
  /\ \A h \in Host, s \in Supervisor :
       supervisors[h][s] # None => s \in had[supervisors[h][s]]
  /\ \A p \in Proxy : supervisor[p] # None => supervisor[p] \in had[p]

\* Between its report and its completion the call is the first of the replies.
Handling ==
  \A h \in Host : reporting[h] =>
    /\ replies[h] # <<>>
    /\ Head(replies[h]).status = "exception"
    /\ \E e \in exits : e.for = Head(replies[h]).of

\* Every call of the channel of h that an instance has executed, has, or will get.
Begotten(h) == {c \in CallsOf(h) : stage[c] \in {"waiting", "done"}}
Seen(h, t) == executed[h][t] \o inbox[h][t] \o wire[h]
Within(s, w) == \A i \in DOMAIN s : \E k \in DOMAIN w : w[k] = s[i]
Arrivals ==
  \A h \in Host : /\ written[h] \in Seq(Begotten(h))
                  /\ \A t \in Target : Within(Seen(h, t), written[h])

DInv == /\ IInv /\ Delivery /\ Tags /\ Names /\ Handling /\ Reported
        /\ Accounted /\ Arrivals /\ InOrder

------------------------------------------------------------------------------
(* Sequences *)

LEMMA Grown ==
  ASSUME NEW S, NEW s \in Seq(S), NEW e \in S
  PROVE  /\ Len(s) \in Nat
         /\ DOMAIN s = 1 .. Len(s)
         /\ DOMAIN Append(s, e) = 1 .. Len(s) + 1
         /\ \A i \in DOMAIN s : Append(s, e)[i] = s[i]
         /\ Append(s, e)[Len(s) + 1] = e
  BY AppendProperties, LenProperties

LEMMA Shrunk ==
  ASSUME NEW S, NEW s \in Seq(S), s # <<>>
  PROVE  /\ Len(s) \in Nat \ {0}
         /\ DOMAIN s = 1 .. Len(s)
         /\ DOMAIN Tail(s) = 1 .. Len(s) - 1
         /\ \A i \in DOMAIN Tail(s) : Tail(s)[i] = s[i + 1]
         /\ 1 \in DOMAIN s
         /\ Head(s) = s[1]
<1>1. Len(s) \in Nat \ {0} /\ DOMAIN s = 1 .. Len(s)
  BY EmptySeq, LenProperties
<1>2. /\ Tail(s) \in Seq(S) /\ Len(Tail(s)) = Len(s) - 1
      /\ \A i \in 1 .. Len(Tail(s)) : Tail(s)[i] = s[i + 1]
  BY HeadTailProperties
<1>3. DOMAIN Tail(s) = 1 .. Len(s) - 1
  BY <1>2, LenProperties
<1> QED
  BY <1>1, <1>2, <1>3

\* What is left of a sequence that loses elements at both ends.
Segment(t, s) ==
  \E o \in Nat : \A k \in DOMAIN t :
    k \in Nat /\ k + o \in DOMAIN s /\ t[k] = s[k + o]

LEMMA SegmentSelf == ASSUME NEW S, NEW s \in Seq(S) PROVE Segment(s, s)
<1>1. DOMAIN s = 1 .. Len(s) /\ Len(s) \in Nat
  BY LenProperties
<1>2. \A k \in DOMAIN s : k \in Nat /\ k + 0 \in DOMAIN s /\ s[k] = s[k + 0]
  BY <1>1
<1> QED
  BY <1>2 DEF Segment

LEMMA SegmentTail ==
  ASSUME NEW S, NEW s \in Seq(S), s # <<>>
  PROVE  Segment(Tail(s), s)
<1>1. \A k \in DOMAIN Tail(s) :
        k \in Nat /\ k + 1 \in DOMAIN s /\ Tail(s)[k] = s[k + 1]
  BY Shrunk
<1> QED
  BY <1>1 DEF Segment

LEMMA SegmentPrefix ==
  ASSUME NEW S, NEW s \in Seq(S), NEW i \in 0 .. Len(s)
  PROVE  Segment(SubSeq(s, 1, i), s)
<1>1. DOMAIN s = 1 .. Len(s) /\ Len(s) \in Nat
  BY LenProperties
<1>2. \A k \in 1 .. i : s[k] \in S
  BY <1>1, ElementOfSeq
<1>3. /\ SubSeq(s, 1, i) \in Seq(S)
      /\ Len(SubSeq(s, 1, i)) = i
      /\ \A k \in 1 .. i : SubSeq(s, 1, i)[k] = s[k]
  BY <1>1, <1>2, SubSeqProperties
<1>4. DOMAIN SubSeq(s, 1, i) = 1 .. i
  BY <1>3, LenProperties
<1>5. \A k \in DOMAIN SubSeq(s, 1, i) :
        k \in Nat /\ k + 0 \in DOMAIN s /\ SubSeq(s, 1, i)[k] = s[k + 0]
  BY <1>1, <1>3, <1>4
<1> QED
  BY <1>5 DEF Segment

LEMMA SegmentOfSegment ==
  ASSUME NEW r, NEW s, NEW t, Segment(t, s), Segment(s, r)
  PROVE  Segment(t, r)
<1>1. PICK o \in Nat : \A k \in DOMAIN t :
        k \in Nat /\ k + o \in DOMAIN s /\ t[k] = s[k + o]
  BY DEF Segment
<1>2. PICK p \in Nat : \A k \in DOMAIN s :
        k \in Nat /\ k + p \in DOMAIN r /\ s[k] = r[k + p]
  BY DEF Segment
<1>3. \A k \in DOMAIN t :
        k \in Nat /\ k + (o + p) \in DOMAIN r /\ t[k] = r[k + (o + p)]
  <2> TAKE k \in DOMAIN t
  <2>1. k \in Nat /\ k + o \in DOMAIN s /\ t[k] = s[k + o]
    BY <1>1
  <2>2. (k + o) + p \in DOMAIN r /\ s[k + o] = r[(k + o) + p]
    BY <1>2, <2>1
  <2>3. (k + o) + p = k + (o + p)
    BY <2>1
  <2> QED
    BY <2>1, <2>2, <2>3
<1> QED
  BY <1>3 DEF Segment

\* Closing a channel leaves a segment of both of its directions.
CutStep(h) == Disconnect(h) \/ Reject(h) \/ Choke(h)

LEMMA CutSegments ==
  ASSUME TypeOK, NEW h \in Host, CutStep(h)
  PROVE  /\ connection' = [connection EXCEPT ![h] = "closed"]
         /\ \A k \in Host : Segment(wire'[k], wire[k])
         /\ \A k \in Host : Segment(replies'[k], replies[k])
         /\ \A k \in Host : k # h => wire'[k] = wire[k] /\ replies'[k] = replies[k]
         /\ UNCHANGED <<nextId, futures, supervisors, callerVars, linkVars,
                        exits, written, serverVars>>
<1>1. /\ wire \in [Host -> Seq(Call)] /\ replies \in [Host -> Seq(Reply)]
  BY DEF TypeOK
<1>2. PICK m, r, z :
        /\ z \in 0 .. 1 /\ Cut(h, m, r, z)
        /\ m = wire[h] \/ (wire[h] # <<>> /\ m = Tail(wire[h]))
        /\ r = replies[h] \/ (replies[h] # <<>> /\ r = Tail(replies[h]))
  BY WhatIsCut DEF CutStep
<1>3. PICK i \in 0 .. Len(m), j \in 0 .. Len(r) :
        /\ wire' = [wire EXCEPT ![h] = SubSeq(m, 1, i)]
        /\ replies' = [replies EXCEPT ![h] = SubSeq(r, 1, j)]
  BY <1>2, CutParts
<1>4. /\ m \in Seq(Call) /\ Segment(m, wire[h])
      /\ r \in Seq(Reply) /\ Segment(r, replies[h])
  <2>1. wire[h] \in Seq(Call) /\ replies[h] \in Seq(Reply)
    BY <1>1
  <2>2. Segment(wire[h], wire[h]) /\ Segment(replies[h], replies[h])
    BY <2>1, SegmentSelf
  <2>3. wire[h] # <<>> =>
          Tail(wire[h]) \in Seq(Call) /\ Segment(Tail(wire[h]), wire[h])
    BY <2>1, SegmentTail, Rest
  <2>4. replies[h] # <<>> =>
          Tail(replies[h]) \in Seq(Reply) /\ Segment(Tail(replies[h]), replies[h])
    BY <2>1, SegmentTail, Rest
  <2> QED
    BY <1>2, <2>1, <2>2, <2>3, <2>4
<1>5. /\ Segment(SubSeq(m, 1, i), wire[h])
      /\ Segment(SubSeq(r, 1, j), replies[h])
  BY <1>3, <1>4, SegmentPrefix, SegmentOfSegment
<1>6. ASSUME NEW g \in Host
      PROVE  /\ Segment(wire'[g], wire[g])
             /\ Segment(replies'[g], replies[g])
             /\ g # h => wire'[g] = wire[g] /\ replies'[g] = replies[g]
  <2>1. CASE g = h
    BY <1>1, <1>3, <1>5, <2>1
  <2>2. CASE g # h
    BY <1>1, <1>3, <2>2, SegmentSelf
  <2> QED
    BY <2>1, <2>2
<1>7. connection' = [connection EXCEPT ![h] = "closed"]
  BY <1>2 DEF Cut
<1>8. UNCHANGED <<nextId, futures, supervisors, callerVars, linkVars, exits,
                  written, serverVars>>
  BY DEF CutStep, Disconnect, Reject, Choke
<1> QED
  BY <1>6, <1>7, <1>8

------------------------------------------------------------------------------
(* Where a call is *)

\* The two directions of a channel lose elements at their ends, and the worker may
\* be done: nothing comes under way.
Less(g) == /\ Segment(wire'[g], wire[g])
           /\ Segment(replies'[g], replies[g])
           /\ serving'[g] \in {serving[g], None}

LEMMA LessUnderWay ==
  ASSUME NEW h \in Host, Less(h), NEW c \in Call
  PROVE  /\ InWire(h, c)' => InWire(h, c)
         /\ InReplies(h, c)' => InReplies(h, c)
         /\ serving'[h] = c => serving[h] = c
         /\ UnderWay(h, c)' => UnderWay(h, c)
<1>1. InWire(h, c)' => InWire(h, c)
  BY DEF Less, Segment, InWire
<1>2. InReplies(h, c)' => InReplies(h, c)
  BY DEF Less, Segment, InReplies
<1>3. serving'[h] = c => serving[h] = c
  BY NoneAssumption DEF Less
<1> QED
  BY <1>1, <1>2, <1>3 DEF UnderWay

OnceAt(h) ==
  /\ \A i, j \in DOMAIN wire[h] : wire[h][i] = wire[h][j] => i = j
  /\ \A i, j \in DOMAIN replies[h] : replies[h][i].of = replies[h][j].of => i = j
  /\ \A c \in Call : /\ ~(InWire(h, c) /\ serving[h] = c)
                     /\ ~(InWire(h, c) /\ InReplies(h, c))
                     /\ ~(serving[h] = c /\ InReplies(h, c))

LEMMA SegmentInjective ==
  ASSUME NEW s, NEW t, Segment(t, s),
         \A i, j \in DOMAIN s : s[i] = s[j] => i = j
  PROVE  \A i, j \in DOMAIN t : t[i] = t[j] => i = j
<1>1. PICK o \in Nat : \A k \in DOMAIN t :
        k \in Nat /\ k + o \in DOMAIN s /\ t[k] = s[k + o]
  BY DEF Segment
<1>2. ASSUME NEW i \in DOMAIN t, NEW j \in DOMAIN t, t[i] = t[j]
      PROVE  i = j
  <2>1. i \in Nat /\ j \in Nat
    BY <1>1
  <2>2. i + o = j + o
    BY <1>1, <1>2
  <2> QED
    BY <2>1, <2>2
<1> QED
  BY <1>2

LEMMA SegmentInjectiveOf ==
  ASSUME NEW s, NEW t, Segment(t, s),
         \A i, j \in DOMAIN s : s[i].of = s[j].of => i = j
  PROVE  \A i, j \in DOMAIN t : t[i].of = t[j].of => i = j
<1>1. PICK o \in Nat : \A k \in DOMAIN t :
        k \in Nat /\ k + o \in DOMAIN s /\ t[k] = s[k + o]
  BY DEF Segment
<1>2. ASSUME NEW i \in DOMAIN t, NEW j \in DOMAIN t, t[i].of = t[j].of
      PROVE  i = j
  <2>1. i \in Nat /\ j \in Nat
    BY <1>1
  <2>2. i + o = j + o
    BY <1>1, <1>2
  <2> QED
    BY <2>1, <2>2
<1> QED
  BY <1>2

LEMMA LessOnce ==
  ASSUME NEW h \in Host, Less(h), OnceAt(h)
  PROVE  OnceAt(h)'
<1>1. \A i, j \in DOMAIN wire'[h] : wire'[h][i] = wire'[h][j] => i = j
  BY SegmentInjective DEF Less, OnceAt
<1>2. \A i, j \in DOMAIN replies'[h] : replies'[h][i].of = replies'[h][j].of => i = j
  BY SegmentInjectiveOf DEF Less, OnceAt
<1> QED
  BY <1>1, <1>2, LessUnderWay DEF OnceAt

Still(g) == /\ wire'[g] = wire[g]
            /\ replies'[g] = replies[g]
            /\ serving'[g] = serving[g]

\* The steps that change what is under way at a host.
LEMMA StepsAt ==
  ASSUME TypeOK, [Next]_vars, NEW g \in Host
  PROVE  \/ Still(g)
         \/ \E c \in Call : Write(c) /\ HostFor(c) = g
         \/ Receive(g) \/ Answer(g) \/ GiveUp(g)
         \/ Success(g) \/ Failure(g) \/ CutStep(g)
<1>1. /\ wire \in [Host -> Seq(Call)] /\ replies \in [Host -> Seq(Reply)]
      /\ serving \in [Host -> Call \cup {None}]
  BY DEF TypeOK
<1>2. ASSUME NEW c \in Call, Write(c), HostFor(c) # g PROVE Still(g)
  <2>1. /\ UNCHANGED <<replies, serving>>
        /\ UNCHANGED wire \/ wire' = [wire EXCEPT ![HostFor(c)] = Append(@, c)]
    BY <1>2 DEF Write, serverVars
  <2> QED
    BY <1>1, <1>2, <2>1 DEF Still
<1>3. ASSUME NEW h \in Host, h # g, CutStep(h) PROVE Still(g)
  <2>1. wire'[g] = wire[g] /\ replies'[g] = replies[g] /\ UNCHANGED serverVars
    BY <1>3, CutSegments
  <2> QED
    BY <2>1 DEF Still, serverVars
<1>4. ASSUME NEW h \in Host, h # g, Receive(h) PROVE Still(g)
  <2>1. /\ wire' = [wire EXCEPT ![h] = Tail(@)]
        /\ serving' \in {serving, [serving EXCEPT ![h] = Head(wire[h])]}
        /\ UNCHANGED replies
    BY <1>4 DEF Receive
  <2> QED
    BY <1>1, <1>4, <2>1 DEF Still
<1>5. ASSUME NEW h \in Host, h # g, Answer(h) \/ GiveUp(h) PROVE Still(g)
  <2>1. PICK status : WriteReply(h, status)
    BY <1>5 DEF Answer, GiveUp
  <2>2. /\ \/ UNCHANGED replies
           \/ \E r : replies' = [replies EXCEPT ![h] = Append(@, r)]
        /\ serving' = [serving EXCEPT ![h] = None]
        /\ UNCHANGED wire
    BY <2>1 DEF WriteReply
  <2> QED
    BY <1>1, <1>5, <2>2 DEF Still
<1>6. ASSUME NEW h \in Host, h # g, Success(h) \/ Failure(h) PROVE Still(g)
  <2>1. /\ replies' = [replies EXCEPT ![h] = Tail(@)]
        /\ UNCHANGED <<wire, serving>>
    BY <1>6 DEF Success, Failure, Finish, serverVars
  <2> QED
    BY <1>1, <1>6, <2>1 DEF Still
<1>7. CASE UNCHANGED <<wire, replies, serving>>
  BY <1>7 DEF Still
<1> QED
  BY <1>2, <1>3, <1>4, <1>5, <1>6, <1>7
  DEF Next, CallerStep, CutStep, vars, Begin, RegisterSupervisor, NameSupervisor,
      PutFuture, Return, TimeOut, Report, Unlink, Link,
      Connect, Reconnect, Execute, serverVars

\* Every step other than a write, a read of the server and a reply leaves less.
LEMMA StepsLess ==
  ASSUME TypeOK, [Next]_vars, NEW g \in Host
  PROVE  \/ Less(g)
         \/ \E c \in Call : Write(c) /\ HostFor(c) = g
         \/ Receive(g) \/ Answer(g) \/ GiveUp(g)
<1>1. /\ wire \in [Host -> Seq(Call)] /\ replies \in [Host -> Seq(Reply)]
  BY DEF TypeOK
<1>2. Segment(wire[g], wire[g]) /\ Segment(replies[g], replies[g])
  BY <1>1, SegmentSelf
<1>3. CASE Still(g)
  BY <1>2, <1>3 DEF Less, Still
<1>4. CASE CutStep(g)
  BY <1>4, CutSegments DEF Less, serverVars
<1>5. CASE Success(g) \/ Failure(g)
  <2>1. /\ replies[g] # <<>> /\ replies' = [replies EXCEPT ![g] = Tail(@)]
        /\ UNCHANGED <<wire, serving>>
    BY <1>5 DEF Success, Failure, Finish, serverVars
  <2>2. Segment(Tail(replies[g]), replies[g])
    BY <1>1, <2>1, SegmentTail
  <2>3. replies'[g] = Tail(replies[g])
    BY <1>1, <2>1
  <2> QED
    BY <1>2, <2>1, <2>2, <2>3 DEF Less
<1> QED
  BY <1>3, <1>4, <1>5, StepsAt

\* The three steps that move a call.
LEMMA WriteMoves ==
  ASSUME TypeOK, NEW c \in Call, Write(c), NEW g \in Host, HostFor(c) = g
  PROVE  /\ UNCHANGED <<replies, serving, futures, id>>
         /\ stage[c] \in {"ready", "put"}
         /\ stage'[c] \in {"waiting", "done"}
         /\ wire'[g] = IF connection[g] = "open" THEN Append(wire[g], c) ELSE wire[g]
<1>1. wire \in [Host -> Seq(Call)]
      /\ stage \in [Call -> Stages]
  BY DEF TypeOK
<1>2. UNCHANGED <<replies, serving, futures, id>>
  BY DEF Write, serverVars, clientVars
<1>3. stage[c] \in {"ready", "put"} /\ stage'[c] \in {"waiting", "done"}
  BY <1>1 DEF Write
<1>4. wire'[g] = IF connection[g] = "open" THEN Append(wire[g], c) ELSE wire[g]
  BY <1>1 DEF Write
<1> QED
  BY <1>2, <1>3, <1>4

LEMMA ReceiveMoves ==
  ASSUME TypeOK, NEW h \in Host, Receive(h)
  PROVE  /\ wire[h] \in Seq(Call) /\ wire[h] # <<>>
         /\ Head(wire[h]) \in Call
         /\ serving[h] = None
         /\ wire'[h] = Tail(wire[h])
         /\ serving'[h] = IF TwoWay(Head(wire[h])) THEN Head(wire[h]) ELSE None
         /\ UNCHANGED <<replies, futures, id, stage>>
<1>1. wire \in [Host -> Seq(Call)] /\ serving \in [Host -> Call \cup {None}]
  BY DEF TypeOK
<1>2. wire[h] \in Seq(Call) /\ wire[h] # <<>> /\ Head(wire[h]) \in Call
  BY <1>1, Rest DEF Receive
<1>3. serving[h] = None /\ wire'[h] = Tail(wire[h])
  BY <1>1 DEF Receive
<1>4. serving'[h] = IF TwoWay(Head(wire[h])) THEN Head(wire[h]) ELSE None
  BY <1>1, <1>3 DEF Receive
<1>5. UNCHANGED <<replies, futures, id, stage>>
  BY DEF Receive, clientVars, callerVars
<1> QED
  BY <1>2, <1>3, <1>4, <1>5

LEMMA AnswerMoves ==
  ASSUME TypeOK, NEW h \in Host, Answer(h) \/ GiveUp(h)
  PROVE  /\ serving[h] \in Call
         /\ serving'[h] = None
         /\ UNCHANGED <<wire, futures, id, stage>>
         /\ replies[h] \in Seq(Reply)
         /\ \E r \in Reply :
              /\ r.of = serving[h] /\ r.supervisor = tag[serving[h]]
              /\ r.id = id[serving[h]]
              /\ replies'[h] = IF connection[h] = "open" THEN Append(replies[h], r)
                               ELSE replies[h]
<1>1. /\ replies \in [Host -> Seq(Reply)] /\ serving \in [Host -> Call \cup {None}]
      /\ id \in [Call -> Nat] /\ tag \in [Call -> Supervisor \cup {None}]
  BY DEF TypeOK
<1>2. serving[h] \in Call
  BY <1>1 DEF Answer, GiveUp
<1>3. PICK status \in Status : WriteReply(h, status)
  BY DEF Answer, GiveUp, Status
<1> DEFINE r == [id |-> id[serving[h]], status |-> status,
                 supervisor |-> tag[serving[h]], of |-> serving[h]]
<1>4. r \in Reply
  BY <1>1, <1>2 DEF Reply
<1>5. replies'[h] = IF connection[h] = "open" THEN Append(replies[h], r)
                    ELSE replies[h]
  BY <1>1, <1>3 DEF WriteReply
<1>6. serving'[h] = None /\ UNCHANGED <<wire, futures, id, stage>>
  BY <1>1, <1>3 DEF WriteReply, clientVars, callerVars
<1> QED
  BY <1>1, <1>2, <1>4, <1>5, <1>6

LEMMA OnceStep == TypeOK /\ Once /\ Awaited /\ [Next]_vars => Once'
<1> SUFFICES ASSUME TypeOK, Once, Awaited, [Next]_vars, NEW g \in Host
             PROVE  OnceAt(g)'
  BY DEF Once, OnceAt
<1>1. /\ wire \in [Host -> Seq(Call)] /\ replies \in [Host -> Seq(Reply)]
      /\ serving \in [Host -> Call \cup {None}]
  BY DEF TypeOK
<1>2. OnceAt(g)
  BY DEF Once, OnceAt
<1>3. ASSUME NEW c \in Call, Write(c), HostFor(c) = g PROVE OnceAt(g)'
  <2>1. /\ UNCHANGED <<replies, serving>>
        /\ stage[c] \in {"ready", "put"}
        /\ wire'[g] = IF connection[g] = "open" THEN Append(wire[g], c) ELSE wire[g]
    BY <1>3, WriteMoves
  <2>2. CASE wire'[g] = wire[g]
    BY <1>2, <2>1, <2>2 DEF OnceAt, InWire, InReplies
  <2>3. CASE wire'[g] = Append(wire[g], c)
    <3>1. ~InWire(g, c) /\ serving[g] # c /\ ~InReplies(g, c)
      BY <2>1 DEF Awaited, UnderWay
    <3>2. /\ Len(wire[g]) \in Nat /\ DOMAIN wire[g] = 1 .. Len(wire[g])
          /\ DOMAIN wire'[g] = 1 .. Len(wire[g]) + 1
          /\ \A i \in DOMAIN wire[g] : wire'[g][i] = wire[g][i]
          /\ wire'[g][Len(wire[g]) + 1] = c
      BY <1>1, <2>3, Grown
    <3>3. \A i \in DOMAIN wire'[g] : i \in DOMAIN wire[g] \/ i = Len(wire[g]) + 1
      BY <3>2
    <3>4. \A i \in DOMAIN wire[g] : wire[g][i] # c
      BY <3>1 DEF InWire
    <3>5. \A i, j \in DOMAIN wire'[g] : wire'[g][i] = wire'[g][j] => i = j
      BY <1>2, <3>2, <3>3, <3>4 DEF OnceAt
    <3>6. \A d \in Call : InWire(g, d)' => InWire(g, d) \/ d = c
      BY <3>2, <3>3 DEF InWire
    <3>7. \A d \in Call : InReplies(g, d)' <=> InReplies(g, d)
      BY <2>1 DEF InReplies
    <3>8. replies'[g] = replies[g] /\ serving'[g] = serving[g]
      BY <2>1
    <3> QED
      BY <1>2, <3>1, <3>5, <3>6, <3>7, <3>8 DEF OnceAt
  <2> QED
    BY <2>1, <2>2, <2>3
<1>4. ASSUME Receive(g) PROVE OnceAt(g)'
  <2> PICK c \in Call : c = Head(wire[g])
    BY <1>4, ReceiveMoves
  <2>1. /\ wire[g] \in Seq(Call) /\ wire[g] # <<>>
        /\ serving[g] = None
        /\ wire'[g] = Tail(wire[g])
        /\ serving'[g] = IF TwoWay(c) THEN c ELSE None
        /\ UNCHANGED replies
    BY <1>4, ReceiveMoves
  <2>2. /\ Len(wire[g]) \in Nat \ {0}
        /\ DOMAIN wire[g] = 1 .. Len(wire[g])
        /\ DOMAIN wire'[g] = 1 .. Len(wire[g]) - 1
        /\ \A i \in DOMAIN wire'[g] : wire'[g][i] = wire[g][i + 1]
        /\ 1 \in DOMAIN wire[g]
        /\ c = wire[g][1]
    BY <2>1, Shrunk
  <2>3. \A i \in DOMAIN wire'[g] :
          /\ i \in Nat \ {0} /\ i + 1 \in DOMAIN wire[g] /\ i + 1 # 1
          /\ wire'[g][i] = wire[g][i + 1]
    BY <2>2
  <2>4. \A i, j \in DOMAIN wire'[g] : wire'[g][i] = wire'[g][j] => i = j
    <3> TAKE i, j \in DOMAIN wire'[g]
    <3>1. wire[g][i + 1] = wire[g][j + 1] => i + 1 = j + 1
      BY <1>2, <2>3 DEF OnceAt
    <3>2. i \in Nat /\ j \in Nat
      BY <2>3
    <3> QED
      BY <2>3, <3>1, <3>2
  <2>5. ~InWire(g, c)' /\ InWire(g, c)
    BY <1>2, <2>2, <2>3 DEF OnceAt, InWire
  <2>6. \A d \in Call : InWire(g, d)' => InWire(g, d)
    BY <2>3 DEF InWire
  <2>7. \A d \in Call : InReplies(g, d)' <=> InReplies(g, d)
    BY <2>1 DEF InReplies
  <2>8. \A d \in Call : serving'[g] = d => d = c
    BY <2>1, NoneAssumption
  <2>9. replies'[g] = replies[g]
    BY <2>1
  <2> QED
    BY <1>2, <2>4, <2>5, <2>6, <2>7, <2>8, <2>9 DEF OnceAt
<1>5. ASSUME Answer(g) \/ GiveUp(g) PROVE OnceAt(g)'
  <2>1. /\ serving[g] \in Call /\ serving'[g] = None /\ UNCHANGED wire
        /\ replies[g] \in Seq(Reply)
    BY <1>5, AnswerMoves
  <2>2. PICK r \in Reply :
          /\ r.of = serving[g]
          /\ replies'[g] = IF connection[g] = "open" THEN Append(replies[g], r)
                           ELSE replies[g]
    BY <1>5, AnswerMoves
  <2>3. wire'[g] = wire[g] /\ \A d \in Call : InWire(g, d)' <=> InWire(g, d)
    BY <2>1 DEF InWire
  <2>4. CASE replies'[g] = replies[g]
    <3>1. \A d \in Call : InReplies(g, d)' <=> InReplies(g, d)
      BY <2>4 DEF InReplies
    <3> QED
      BY <1>2, <2>1, <2>3, <2>4, <3>1, NoneAssumption DEF OnceAt
  <2>5. CASE replies'[g] = Append(replies[g], r)
    <3>1. /\ Len(replies[g]) \in Nat /\ DOMAIN replies[g] = 1 .. Len(replies[g])
          /\ DOMAIN replies'[g] = 1 .. Len(replies[g]) + 1
          /\ \A i \in DOMAIN replies[g] : replies'[g][i] = replies[g][i]
          /\ replies'[g][Len(replies[g]) + 1] = r
      BY <2>1, <2>5, Grown
    <3>2. \A i \in DOMAIN replies'[g] :
            i \in DOMAIN replies[g] \/ i = Len(replies[g]) + 1
      BY <3>1
    <3>3. ~InReplies(g, serving[g]) /\ ~InWire(g, serving[g])
      BY <1>2, <2>1 DEF OnceAt
    <3>4. \A i \in DOMAIN replies[g] : replies[g][i].of # r.of
      BY <2>2, <3>3 DEF InReplies
    <3>5. \A i, j \in DOMAIN replies'[g] : replies'[g][i].of = replies'[g][j].of => i = j
      BY <1>2, <3>1, <3>2, <3>4 DEF OnceAt
    <3>6. \A d \in Call : InReplies(g, d)' => InReplies(g, d) \/ d = serving[g]
      BY <2>2, <3>1, <3>2 DEF InReplies
    <3> QED
      BY <1>2, <2>1, <2>3, <3>3, <3>5, <3>6, NoneAssumption DEF OnceAt
  <2> QED
    BY <2>2, <2>4, <2>5
<1> QED
  BY <1>2, <1>3, <1>4, <1>5, StepsLess, LessOnce

------------------------------------------------------------------------------
(* What a step does to the connections and to what was written *)

LEMMA ConnectionStep ==
  ASSUME TypeOK, [Next]_vars, NEW h \in Host
  PROVE  /\ connection'[h] = "open" => connection[h] = "open" \/ Connect(h)
         /\ CutStep(h) => connection'[h] = "closed"
         /\ connection'[h] = "none" => connection[h] = "none"
<1>1. connection \in [Host -> {"none", "open", "closed"}]
  BY DEF TypeOK
<1>2. ASSUME NEW g \in Host, CutStep(g)
      PROVE  connection' = [connection EXCEPT ![g] = "closed"]
  BY <1>2, CutSegments
<1>3. ASSUME NEW g \in Host, Connect(g)
      PROVE  \E v \in {"open", "closed"} : connection' = [connection EXCEPT ![g] = v]
  BY <1>3 DEF Connect
<1>4. UNCHANGED connection \/ \E g \in Host : CutStep(g) \/ Connect(g)
  <2>1. ASSUME NEW c \in Call, Begin(c) \/ CallerStep(c) PROVE UNCHANGED connection
    BY <2>1 DEF Begin, CallerStep, RegisterSupervisor, NameSupervisor, PutFuture,
                Write, Return, TimeOut, clientVars
  <2>2. ASSUME NEW g \in Host,
               \/ Reconnect(g) \/ Receive(g) \/ Answer(g) \/ GiveUp(g)
               \/ Success(g) \/ Report(g) \/ Failure(g) \/ \E t \in Target : Execute(g, t)
        PROVE  UNCHANGED connection
    BY <2>2 DEF Reconnect, Receive, Answer, GiveUp, WriteReply, Success, Report,
       Failure, Finish, Execute, clientVars
  <2>3. CASE UNCHANGED vars \/ LinkStep
    BY <2>3 DEF vars, LinkStep, Unlink, Link, clientVars
  <2> QED
    BY <2>1, <2>2, <2>3 DEF Next, CutStep, LinkStep
<1>5. CutStep(h) => connection'[h] = "closed"
  BY <1>1, <1>2
<1>6. /\ connection'[h] = "open" => connection[h] = "open" \/ Connect(h)
      /\ connection'[h] = "none" => connection[h] = "none"
  BY <1>1, <1>2, <1>3, <1>4
<1> QED
  BY <1>5, <1>6

LEMMA WrittenStep ==
  ASSUME [Next]_vars
  PROVE  \/ UNCHANGED written
         \/ \E c \in Call : /\ Write(c)
                            /\ written' = [written EXCEPT ![HostFor(c)] = Append(@, c)]
<1>1. ASSUME NEW c \in Call,
             \/ Begin(c) \/ RegisterSupervisor(c) \/ NameSupervisor(c)
             \/ PutFuture(c) \/ Return(c) \/ TimeOut(c)
      PROVE  UNCHANGED written
  BY <1>1 DEF Begin, RegisterSupervisor, NameSupervisor, PutFuture, Return, TimeOut
<1>2. ASSUME NEW c \in Call, Write(c)
      PROVE  \/ UNCHANGED written
             \/ written' = [written EXCEPT ![HostFor(c)] = Append(@, c)]
  BY <1>2 DEF Write
<1> QED
  BY <1>1, <1>2, OthersKeepCalls DEF CallerStep

------------------------------------------------------------------------------
(* Futures *)

\* Calls go on, and keep their ids.
LEMMA StagesForward ==
  ASSUME TypeOK, [Next]_vars, NEW c \in Call
  PROVE  /\ stage[c] \in {"waiting", "done"} => stage'[c] \in {"waiting", "done"}
         /\ stage'[c] \in Early => stage[c] \in Early
         /\ stage'[c] # "idle" /\ stage[c] = "idle" => connection[HostFor(c)] # "none"
         /\ stage'[c] = "put" => stage[c] = "put" \/ PutFuture(c)
         /\ stage[c] # "idle" => id'[c] = id[c]
         /\ stage[c] \notin {"idle", "supervised", "named"} =>
              /\ tag'[c] = tag[c]
              /\ stage'[c] \notin {"idle", "supervised", "named"}
<1>1. /\ stage \in [Call -> Stages]
      /\ id \in [Call -> Nat] /\ tag \in [Call -> Supervisor \cup {None}]
  BY DEF TypeOK
<1> DEFINE Goal ==
         /\ stage[c] \in {"waiting", "done"} => stage'[c] \in {"waiting", "done"}
         /\ stage'[c] \in Early => stage[c] \in Early
         /\ stage'[c] # "idle" /\ stage[c] = "idle" => connection[HostFor(c)] # "none"
         /\ stage'[c] = "put" => stage[c] = "put" \/ PutFuture(c)
         /\ stage[c] # "idle" => id'[c] = id[c]
         /\ stage[c] \notin {"idle", "supervised", "named"} =>
              /\ tag'[c] = tag[c]
              /\ stage'[c] \notin {"idle", "supervised", "named"}
<1>2. ASSUME NEW d \in Call, Begin(d) PROVE Goal
  <2>1. /\ stage[d] = "idle" /\ connection[HostFor(d)] # "none"
        /\ \E v \in {"ready", "supervised"} : stage' = [stage EXCEPT ![d] = v]
        /\ \E n : id' = [id EXCEPT ![d] = n]
        /\ UNCHANGED tag
    BY <1>2 DEF Begin, Advance
  <2> QED
    BY <1>1, <2>1 DEF Early
<1>3. ASSUME NEW d \in Call, RegisterSupervisor(d) \/ NameSupervisor(d) PROVE Goal
  <2>1. /\ stage[d] \in {"supervised", "named"}
        /\ \E v \in {"ready", "named", "done"} : stage' = [stage EXCEPT ![d] = v]
        /\ UNCHANGED tag \/ \E v : tag' = [tag EXCEPT ![d] = v]
        /\ UNCHANGED id
    BY <1>3 DEF RegisterSupervisor, NameSupervisor, Advance
  <2> QED
    BY <1>1, <2>1 DEF Early
<1>4. ASSUME NEW d \in Call, PutFuture(d) PROVE Goal
  <2>1. /\ stage[d] = "ready" /\ stage' = [stage EXCEPT ![d] = "put"]
        /\ UNCHANGED <<id, tag>>
    BY <1>4 DEF PutFuture
  <2>2. CASE c = d
    BY <1>1, <1>4, <2>1, <2>2 DEF Early
  <2>3. CASE c # d
    BY <1>1, <2>1, <2>3
  <2> QED
    BY <2>2, <2>3
<1>5. ASSUME NEW d \in Call, Write(d) \/ Return(d) \/ TimeOut(d) PROVE Goal
  <2>1. /\ stage[d] \in {"ready", "put", "waiting"}
        /\ \E v \in {"waiting", "done"} : stage' = [stage EXCEPT ![d] = v]
        /\ UNCHANGED <<id, tag>>
    BY <1>5 DEF Write, Return, TimeOut
  <2> QED
    BY <1>1, <2>1 DEF Early
<1>6. CASE UNCHANGED <<stage, id, tag>>
  BY <1>6
<1> QED
  BY <1>2, <1>3, <1>4, <1>5, <1>6, OthersKeepCalls DEF CallerStep

\* A reply that is handled completes the future of its own call.
Ends(h, c) ==
  LET r == Head(replies[h])
  IN  /\ replies[h] # <<>>
      /\ r \in Reply /\ r.of = c /\ r.id = id[c]
      /\ Entry(id[c], c) \in futures[h]
      /\ Finish(h, c, r)

LEMMA FinishEnds ==
  ASSUME IInv, NEW h \in Host, Success(h) \/ Failure(h)
  PROVE  \E c \in Begun(h) : Ends(h, c)
<1>1. replies[h] # <<>> /\ replies[h] \in Seq(Due(h))
  BY DEF Success, Failure, IInv, OnItsChannel
<1>2. Head(replies[h]) \in Due(h)
  BY <1>1, Rest
<1>3. PICK c \in Call : /\ Entry(Head(replies[h]).id, c) \in futures[h]
                        /\ Finish(h, c, Head(replies[h]))
  BY DEF Success, Failure
<1>4. c \in Begun(h) /\ Head(replies[h]).id = id[c]
  BY <1>3 DEF IInv, Registered, Entry
<1>5. /\ Head(replies[h]) \in Reply
      /\ Head(replies[h]).of \in Begun(h)
      /\ Head(replies[h]).id = id[Head(replies[h]).of]
  BY <1>2 DEF Due
<1>6. Head(replies[h]).of = c
  BY <1>4, <1>5 DEF IInv, IdsDiffer
<1> QED
  BY <1>1, <1>3, <1>4, <1>5, <1>6 DEF Ends

\* The call that has ended is not under way any more.
LEMMA EndsIsOver ==
  ASSUME IInv, Once, NEW h \in Host, NEW c \in Begun(h), Ends(h, c)
  PROVE  InReplies(h, c) /\ ~UnderWay(h, c)'
<1>1. /\ replies \in [Host -> Seq(Reply)] /\ wire \in [Host -> Seq(Call)]
  BY DEF IInv, TypeOK
<1>2. c \in Call
  BY DEF Begun, CallsOf
<1>3. /\ replies[h] # <<>> /\ Head(replies[h]).of = c
      /\ replies' = [replies EXCEPT ![h] = Tail(@)]
      /\ UNCHANGED <<wire, serving>>
  BY DEF Ends, Finish, serverVars
<1>4. /\ DOMAIN replies[h] = 1 .. Len(replies[h]) /\ Len(replies[h]) \in Nat
      /\ DOMAIN replies'[h] = 1 .. Len(replies[h]) - 1
      /\ \A i \in DOMAIN replies'[h] : replies'[h][i] = replies[h][i + 1]
      /\ 1 \in DOMAIN replies[h] /\ Head(replies[h]) = replies[h][1]
  <2>1. replies[h] \in Seq(Reply) /\ replies'[h] = Tail(replies[h])
    BY <1>1, <1>3
  <2> QED
    BY <1>3, <2>1, Shrunk
<1>5. InReplies(h, c)
  BY <1>3, <1>4 DEF InReplies
<1>6. ~InWire(h, c) /\ serving[h] # c
  BY <1>2, <1>5 DEF Once
<1>7. \A i \in DOMAIN replies'[h] : replies'[h][i].of # c
  <2> TAKE i \in DOMAIN replies'[h]
  <2>1. /\ replies'[h][i] = replies[h][i + 1]
        /\ i + 1 \in DOMAIN replies[h] /\ i + 1 # 1
    BY <1>4
  <2>2. replies[h][1].of = c
    BY <1>3, <1>4
  <2>3. 1 \in DOMAIN replies[h]
    BY <1>4
  <2> QED
    BY <2>1, <2>2, <2>3 DEF Once
<1>8. ~InWire(h, c)' /\ serving'[h] # c
  BY <1>3, <1>6 DEF InWire
<1> QED
  BY <1>5, <1>7, <1>8 DEF UnderWay, InReplies

\* A future that is registered stays so until its call has ended.
LEMMA EntryKept ==
  ASSUME IInv, [Next]_vars, NEW h \in Host, NEW c \in Call,
         Entry(id[c], c) \in futures[h]
  PROVE  Entry(id[c], c) \in futures'[h] \/ (c \in Begun(h) /\ Ends(h, c))
<1>1. /\ futures \in [Host -> SUBSET [id : Nat, call : Call]]
  BY DEF IInv, TypeOK
<1>2. c \in Begun(h)
  BY DEF IInv, Registered, Entry
<1>3. ASSUME NEW d \in Call, PutFuture(d) PROVE Entry(id[c], c) \in futures'[h]
  <2>1. futures' = [futures EXCEPT ![HostFor(d)] =
                      {e \in @ : e.id # id[d]} \cup {Entry(id[d], d)}]
    BY <1>3 DEF PutFuture
  <2>2. CASE HostFor(d) = h
    <3>1. d \in Begun(h)
      BY <1>3, <2>2 DEF PutFuture, Begun, CallsOf
    <3>2. d = c \/ id[d] # id[c]
      BY <1>2, <3>1 DEF IInv, IdsDiffer
    <3>3. futures'[h] = {e \in futures[h] : e.id # id[d]} \cup {Entry(id[d], d)}
      BY <1>1, <2>1, <2>2
    <3> QED
      BY <3>2, <3>3 DEF Entry
  <2>3. CASE HostFor(d) # h
    <3>1. futures'[h] = futures[h]
      BY <1>1, <2>1, <2>3
    <3> QED
      BY <3>1
  <2> QED
    BY <2>2, <2>3
<1>4. ASSUME NEW g \in Host, Success(g) \/ Failure(g)
      PROVE  Entry(id[c], c) \in futures'[h] \/ Ends(h, c)
  <2>1. PICK d \in Begun(g) : Ends(g, d)
    BY <1>4, FinishEnds
  <2>2. futures' = [futures EXCEPT ![g] = @ \ {Entry(id[d], d)}]
    BY <2>1 DEF Ends, Finish
  <2>3. CASE g = h /\ d = c
    BY <2>1, <2>3
  <2>4. CASE g # h
    BY <1>1, <2>2, <2>4
  <2>5. CASE g = h /\ d # c
    <3>1. futures'[h] = futures[h] \ {Entry(id[d], d)}
      BY <1>1, <2>2, <2>5
    <3>2. Entry(id[c], c) # Entry(id[d], d)
      BY <2>5 DEF Entry
    <3> QED
      BY <3>1, <3>2
  <2> QED
    BY <2>3, <2>4, <2>5
<1>5. CASE UNCHANGED futures
  BY <1>5
<1> QED
  BY <1>2, <1>3, <1>4, <1>5, OthersKeepFutures

\* Where a call that is under way was before the step.
LEMMA Whence ==
  ASSUME TypeOK, [Next]_vars, NEW g \in Host, NEW c \in Call
  PROVE  /\ InWire(g, c)' => InWire(g, c) \/ (Write(c) /\ HostFor(c) = g)
         /\ serving'[g] = c => \/ serving[g] = c
                               \/ InWire(g, c) /\ TwoWay(c)
         /\ InReplies(g, c)' => InReplies(g, c) \/ serving[g] = c
<1> DEFINE Goal ==
         /\ InWire(g, c)' => InWire(g, c) \/ (Write(c) /\ HostFor(c) = g)
         /\ serving'[g] = c => \/ serving[g] = c
                               \/ InWire(g, c) /\ TwoWay(c)
         /\ InReplies(g, c)' => InReplies(g, c) \/ serving[g] = c
<1>1. wire \in [Host -> Seq(Call)]
  BY DEF TypeOK
<1>2. CASE Less(g)
  BY <1>2, LessUnderWay
<1>3. ASSUME NEW d \in Call, Write(d), HostFor(d) = g PROVE Goal
  <2>1. /\ UNCHANGED <<replies, serving>>
        /\ wire'[g] = IF connection[g] = "open" THEN Append(wire[g], d) ELSE wire[g]
    BY <1>3, WriteMoves
  <2>2. InWire(g, c)' => InWire(g, c) \/ c = d
    <3>1. CASE wire'[g] = wire[g]
      BY <3>1 DEF InWire
    <3>2. CASE wire'[g] = Append(wire[g], d)
      <4>1. /\ Len(wire[g]) \in Nat /\ DOMAIN wire[g] = 1 .. Len(wire[g])
            /\ DOMAIN wire'[g] = 1 .. Len(wire[g]) + 1
            /\ \A i \in DOMAIN wire[g] : wire'[g][i] = wire[g][i]
            /\ wire'[g][Len(wire[g]) + 1] = d
        BY <1>1, <3>2, Grown
      <4> QED
        BY <4>1 DEF InWire
    <3> QED
      BY <2>1, <3>1, <3>2
  <2> QED
    BY <1>3, <2>1, <2>2 DEF InReplies
<1>4. CASE Receive(g)
  <2> PICK d \in Call : d = Head(wire[g])
    BY <1>4, ReceiveMoves
  <2>1. /\ wire[g] \in Seq(Call) /\ wire[g] # <<>> /\ UNCHANGED replies
        /\ wire'[g] = Tail(wire[g])
        /\ serving'[g] = IF TwoWay(d) THEN d ELSE None
    BY <1>4, ReceiveMoves
  <2>2. /\ \A i \in DOMAIN wire'[g] :
             i + 1 \in DOMAIN wire[g] /\ wire'[g][i] = wire[g][i + 1]
        /\ 1 \in DOMAIN wire[g] /\ d = wire[g][1]
    BY <2>1, Shrunk
  <2>3. InWire(g, c)' => InWire(g, c)
    BY <2>2 DEF InWire
  <2>4. serving'[g] = c => InWire(g, c) /\ TwoWay(c)
    BY <2>1, <2>2, NoneAssumption DEF InWire
  <2> QED
    BY <2>1, <2>3, <2>4 DEF InReplies
<1>5. CASE Answer(g) \/ GiveUp(g)
  <2>1. /\ serving[g] \in Call /\ serving'[g] = None /\ UNCHANGED wire
        /\ replies[g] \in Seq(Reply)
    BY <1>5, AnswerMoves
  <2>2. PICK r \in Reply :
          /\ r.of = serving[g]
          /\ replies'[g] = IF connection[g] = "open" THEN Append(replies[g], r)
                           ELSE replies[g]
    BY <1>5, AnswerMoves
  <2>3. InReplies(g, c)' => InReplies(g, c) \/ serving[g] = c
    <3>1. CASE replies'[g] = replies[g]
      BY <3>1 DEF InReplies
    <3>2. CASE replies'[g] = Append(replies[g], r)
      <4>1. /\ Len(replies[g]) \in Nat /\ DOMAIN replies[g] = 1 .. Len(replies[g])
            /\ DOMAIN replies'[g] = 1 .. Len(replies[g]) + 1
            /\ \A i \in DOMAIN replies[g] : replies'[g][i] = replies[g][i]
            /\ replies'[g][Len(replies[g]) + 1] = r
        BY <2>1, <3>2, Grown
      <4> QED
        BY <2>2, <4>1 DEF InReplies
    <3> QED
      BY <2>2, <3>1, <3>2
  <2> QED
    BY <2>1, <2>3, NoneAssumption DEF InWire
<1> QED
  BY <1>2, <1>3, <1>4, <1>5, StepsLess

\* The three ways in which a future goes on.
LEMMA FutureStep ==
  ASSUME IInv, [Next]_vars, NEW c \in Call
  PROVE  \/ future'[c] = future[c]
         \/ PutFuture(c) /\ future'[c] = "open"
         \/ \E h \in Host : /\ c \in Begun(h) /\ Ends(h, c)
                            /\ Success(h) \/ Failure(h)
<1>1. future \in [Call -> {"none", "open"} \cup Status]
  BY DEF IInv, TypeOK
<1>2. ASSUME NEW d \in Call, PutFuture(d)
      PROVE  future'[c] = future[c] \/ (PutFuture(c) /\ future'[c] = "open")
  <2>1. future' = [future EXCEPT ![d] = "open"]
    BY <1>2 DEF PutFuture
  <2> QED
    BY <1>1, <1>2, <2>1
<1>3. ASSUME NEW g \in Host, Success(g) \/ Failure(g)
      PROVE  future'[c] = future[c] \/ (c \in Begun(g) /\ Ends(g, c))
  <2>1. PICK d \in Begun(g) : Ends(g, d)
    BY <1>3, FinishEnds
  <2>2. future' = [future EXCEPT ![d] = Head(replies[g]).status]
    BY <2>1 DEF Ends, Finish, Complete
  <2> QED
    BY <1>1, <2>1, <2>2
<1>4. CASE UNCHANGED future
  BY <1>4
<1> QED
  BY <1>2, <1>3, <1>4, OthersKeepFutures

LEMMA AwaitedStep == IInv /\ Delivery /\ [Next]_vars => Awaited'
<1> SUFFICES ASSUME IInv, Delivery, [Next]_vars, NEW g \in Host, NEW c \in Call,
                    UnderWay(g, c)'
             PROVE  /\ stage'[c] \in {"waiting", "done"}
                    /\ HostFor(c) = g
                    /\ TwoWay(c) => Entry(id'[c], c) \in futures'[g]
  BY DEF Awaited, Entry
<1>1. TypeOK /\ Once /\ Awaited /\ Lifecycle
  BY DEF IInv, Delivery
<1>2. CASE UnderWay(g, c)
  <2>1. /\ stage[c] \in {"waiting", "done"} /\ HostFor(c) = g
        /\ TwoWay(c) => Entry(id[c], c) \in futures[g]
    BY <1>1, <1>2 DEF Awaited
  <2>2. stage'[c] \in {"waiting", "done"} /\ id'[c] = id[c]
    BY <1>1, <2>1, StagesForward
  <2>3. ~(c \in Begun(g) /\ Ends(g, c))
    BY <1>1, EndsIsOver
  <2>4. TwoWay(c) => Entry(id[c], c) \in futures'[g]
    BY <2>1, <2>3, EntryKept
  <2> QED
    BY <2>1, <2>2, <2>4
<1>3. CASE Write(c) /\ HostFor(c) = g
  <2>1. /\ UNCHANGED <<futures, id>> /\ stage'[c] \in {"waiting", "done"}
    BY <1>1, <1>3, WriteMoves
  <2>2. TwoWay(c) => stage[c] = "put"
    BY <1>3 DEF Write
  <2>3. TwoWay(c) => Entry(id[c], c) \in futures[g]
    BY <1>1, <1>3, <2>2 DEF Lifecycle
  <2> QED
    BY <1>3, <2>1, <2>3
<1> QED
  BY <1>1, <1>2, <1>3, Whence DEF UnderWay

LEMMA LifecycleStep == IInv /\ Delivery /\ [Next]_vars => Lifecycle'
<1> SUFFICES ASSUME IInv, Delivery, [Next]_vars, NEW c \in Call
             PROVE  /\ stage'[c] \in Early => future'[c] = "none"
                    /\ stage'[c] = "put" => Entry(id'[c], c) \in futures'[HostFor(c)]
                    /\ future'[c] # "none" => TwoWay(c)
                    /\ connection'[HostFor(c)] = "none" => stage'[c] = "idle"
  BY DEF Lifecycle, Entry
<1> "put" \notin Early /\ "waiting" \notin Early /\ "done" \notin Early
  BY DEF Early
<1>1. /\ TypeOK /\ Once
      /\ stage[c] \in Early => future[c] = "none"
      /\ stage[c] = "put" => Entry(id[c], c) \in futures[HostFor(c)]
      /\ future[c] # "none" => TwoWay(c)
      /\ connection[HostFor(c)] = "none" => stage[c] = "idle"
  BY DEF IInv, Delivery, Lifecycle
<1>2. ASSUME NEW h \in Host, c \in Begun(h), Ends(h, c)
      PROVE  future[c] = "open" /\ stage[c] \in {"waiting", "done"}
  <2>1. Entry(id[c], c) \in futures[h]
    BY <1>2 DEF Ends
  <2>2. InReplies(h, c)
    BY <1>1, <1>2, EndsIsOver
  <2> QED
    BY <2>1, <2>2 DEF Delivery, Unfinished, Awaited, UnderWay, Entry
<1>3. PutFuture(c) => stage'[c] = "put" /\ TwoWay(c)
  BY <1>1 DEF PutFuture, TypeOK
<1>4. stage'[c] \in Early => future'[c] = "none"
  <2> SUFFICES ASSUME stage'[c] \in Early PROVE future'[c] = "none"
    OBVIOUS
  <2>1. stage[c] \in Early
    BY <1>1, StagesForward
  <2> QED
    BY <1>1, <1>2, <1>3, <2>1, FutureStep
<1>5. stage'[c] = "put" => Entry(id'[c], c) \in futures'[HostFor(c)]
  <2> SUFFICES ASSUME stage'[c] = "put"
               PROVE  Entry(id'[c], c) \in futures'[HostFor(c)]
    OBVIOUS
  <2>1. CASE PutFuture(c)
    BY <1>1, <2>1, HostsOfCalls DEF PutFuture, TypeOK
  <2>2. CASE stage[c] = "put"
    <3>1. id'[c] = id[c]
      BY <1>1, <2>2, StagesForward
    <3>2. ~(c \in Begun(HostFor(c)) /\ Ends(HostFor(c), c))
      BY <1>2, <2>2, HostsOfCalls
    <3> QED
      BY <1>1, <2>2, <3>1, <3>2, HostsOfCalls, EntryKept
  <2> QED
    BY <1>1, <2>1, <2>2, StagesForward
<1>6. future'[c] # "none" => TwoWay(c)
  <2>1. ASSUME NEW h \in Host, c \in Begun(h), Ends(h, c) PROVE TwoWay(c)
    BY <1>1, <1>2, <2>1
  <2> QED
    BY <1>1, <1>3, <2>1, FutureStep
<1>7. connection'[HostFor(c)] = "none" => stage'[c] = "idle"
  <2> SUFFICES ASSUME connection'[HostFor(c)] = "none" PROVE stage'[c] = "idle"
    OBVIOUS
  <2>1. connection[HostFor(c)] = "none"
    BY <1>1, HostsOfCalls, ConnectionStep
  <2>2. stage[c] = "idle"
    BY <1>1, <2>1
  <2> QED
    BY <1>1, <2>1, <2>2, StagesForward
<1> QED
  BY <1>4, <1>5, <1>6, <1>7

LEMMA UnfinishedStep == IInv /\ Delivery /\ [Next]_vars => Unfinished'
<1> SUFFICES ASSUME IInv, Delivery, [Next]_vars, NEW h \in Host,
                    NEW e \in futures'[h]
             PROVE  future'[e.call] = "open"
  BY DEF Unfinished
<1>1. CASE e \in futures[h]
  <2>1. future[e.call] = "open" /\ e.call \in Begun(h) /\ e = Entry(id[e.call], e.call)
    <3>1. e \in [id : Nat, call : Call]
      BY <1>1 DEF IInv, TypeOK
    <3> QED
      BY <1>1, <3>1 DEF Delivery, Unfinished, IInv, Registered, Entry
  <2>2. e.call \in Call
    BY <2>1 DEF Begun, CallsOf
  <2>3. ASSUME NEW g \in Host, e.call \in Begun(g), Ends(g, e.call) PROVE FALSE
    <3>1. g = h
      BY <2>1, <2>3 DEF Begun, CallsOf
    <3>2. futures' = [futures EXCEPT ![g] = @ \ {Entry(id[e.call], e.call)}]
      BY <2>3 DEF Ends, Finish
    <3>3. futures \in [Host -> SUBSET [id : Nat, call : Call]]
      BY DEF IInv, TypeOK
    <3> QED
      BY <2>1, <3>1, <3>2, <3>3
  <2> QED
    BY <2>1, <2>2, <2>3, FutureStep
<1>2. CASE e \notin futures[h]
  <2>1. PICK c \in Call : PutFuture(c) /\ e = Entry(id[c], c)
    <3>1. futures \in [Host -> SUBSET [id : Nat, call : Call]]
      BY DEF IInv, TypeOK
    <3>2. \/ UNCHANGED futures
          \/ \E g \in Host : \E x : futures' = [futures EXCEPT ![g] = @ \ {x}]
          \/ \E c \in Call :
               /\ PutFuture(c)
               /\ futures' = [futures EXCEPT ![HostFor(c)] =
                     {f \in @ : f.id # id[c]} \cup {Entry(id[c], c)}]
      <4>1. ASSUME NEW c \in Call,
                   \/ Begin(c) \/ RegisterSupervisor(c) \/ NameSupervisor(c)
                   \/ Write(c) \/ Return(c) \/ TimeOut(c)
            PROVE  UNCHANGED futures
        BY <4>1 DEF Begin, RegisterSupervisor, NameSupervisor, Write, Return, TimeOut,
                    clientVars
      <4>2. ASSUME NEW g \in Host,
                   \/ Connect(g) \/ Disconnect(g) \/ Reconnect(g) \/ Reject(g)
                   \/ Choke(g)
            PROVE  UNCHANGED futures
        BY <4>2 DEF Connect, Disconnect, Reconnect, Reject, Choke
      <4>3. ASSUME NEW g \in Host,
                   \/ Receive(g) \/ Answer(g) \/ GiveUp(g) \/ Report(g)
                   \/ \E t \in Target : Execute(g, t)
            PROVE  UNCHANGED futures
        BY <4>3 DEF Receive, Answer, GiveUp, WriteReply, Report, Execute, clientVars
      <4>4. ASSUME NEW g \in Host, Success(g) \/ Failure(g)
            PROVE  \E x : futures' = [futures EXCEPT ![g] = @ \ {x}]
        BY <4>4 DEF Success, Failure, Finish
      <4>5. CASE UNCHANGED vars \/ LinkStep
        BY <4>5 DEF vars, LinkStep, Unlink, Link, clientVars
      <4>6. ASSUME NEW c \in Call, PutFuture(c)
            PROVE  futures' = [futures EXCEPT ![HostFor(c)] =
                                 {f \in @ : f.id # id[c]} \cup {Entry(id[c], c)}]
        BY <4>6 DEF PutFuture
      <4> QED
        BY <4>1, <4>2, <4>3, <4>4, <4>5, <4>6 DEF Next, CallerStep, LinkStep
    <3> QED
      BY <1>2, <3>1, <3>2
  <2>2. e.call = c /\ future'[c] = "open"
    BY <2>1 DEF PutFuture, IInv, TypeOK, Entry
  <2> QED
    BY <2>2
<1> QED
  BY <1>1, <1>2

LEMMA DeliveryStep == IInv /\ Delivery /\ [Next]_vars => Delivery'
  BY OnceStep, AwaitedStep, LifecycleStep, UnfinishedStep DEF IInv, Delivery

------------------------------------------------------------------------------
(* Replies and reports *)

\* The replies of a client after the step: earlier ones, and the one just written.
LEMMA RepliesStep ==
  ASSUME TypeOK, [Next]_vars, NEW g \in Host, NEW k \in DOMAIN replies'[g]
  PROVE  \/ \E j \in DOMAIN replies[g] : replies'[g][k] = replies[g][j]
         \/ /\ serving[g] \in Call
            /\ replies'[g][k].of = serving[g]
            /\ replies'[g][k].supervisor = tag[serving[g]]
<1> DEFINE Old == \E j \in DOMAIN replies[g] : replies'[g][k] = replies[g][j]
<1>1. CASE Less(g)
  BY <1>1 DEF Less, Segment
<1>2. ASSUME NEW c \in Call, Write(c), HostFor(c) = g PROVE Old
  BY <1>2, WriteMoves
<1>3. CASE Receive(g)
  BY <1>3, ReceiveMoves
<1>4. CASE Answer(g) \/ GiveUp(g)
  <2>1. serving[g] \in Call /\ replies[g] \in Seq(Reply)
    BY <1>4, AnswerMoves
  <2>2. PICK r \in Reply :
          /\ r.of = serving[g] /\ r.supervisor = tag[serving[g]]
          /\ replies'[g] = IF connection[g] = "open" THEN Append(replies[g], r)
                           ELSE replies[g]
    BY <1>4, AnswerMoves
  <2>3. CASE replies'[g] = replies[g]
    BY <2>3
  <2>4. CASE replies'[g] = Append(replies[g], r)
    <3>1. /\ DOMAIN replies[g] = 1 .. Len(replies[g]) /\ Len(replies[g]) \in Nat
          /\ DOMAIN replies'[g] = 1 .. Len(replies[g]) + 1
          /\ \A i \in DOMAIN replies[g] : replies'[g][i] = replies[g][i]
          /\ replies'[g][Len(replies[g]) + 1] = r
      BY <2>1, <2>4, Grown
    <3>2. k \in DOMAIN replies[g] \/ k = Len(replies[g]) + 1
      BY <3>1
    <3> QED
      BY <2>1, <2>2, <3>1, <3>2
  <2> QED
    BY <2>2, <2>3, <2>4
<1> QED
  BY <1>1, <1>2, <1>3, <1>4, StepsLess

LEMMA RepliesBegun ==
  ASSUME IInv, NEW g \in Host, NEW k \in DOMAIN replies[g]
  PROVE  /\ replies[g][k] \in Reply
         /\ replies[g][k].of \in Call
         /\ replies[g][k].id = id[replies[g][k].of]
         /\ HostFor(replies[g][k].of) = g
         /\ stage[replies[g][k].of] # "idle"
<1>1. replies[g] \in Seq(Due(g))
  BY DEF IInv, OnItsChannel
<1>2. replies[g][k] \in Due(g)
  BY <1>1, LenProperties, ElementOfSeq
<1> QED
  BY <1>2 DEF Due, Begun, CallsOf

\* The future that a reply needs is there, and is the only one with its id.
LEMMA RepliesFind == IInv /\ Delivery /\ Tags => ReplyFindsFuture
<1> SUFFICES ASSUME IInv, Delivery, Tags, NEW h \in Host, NEW k \in DOMAIN replies[h]
             PROVE  {e \in futures[h] : e.id = replies[h][k].id}
                       = {Entry(replies[h][k].id, replies[h][k].of)}
  BY DEF ReplyFindsFuture
<1> PICK c \in Call : c = replies[h][k].of
  BY RepliesBegun
<1>1. /\ c \in Begun(h) /\ replies[h][k].id = id[c] /\ TwoWay(c)
  BY RepliesBegun DEF Begun, CallsOf, Tags
<1>2. InReplies(h, c)
  BY DEF InReplies
<1>3. Entry(id[c], c) \in futures[h]
  BY <1>1, <1>2 DEF Delivery, Awaited, UnderWay
<1>4. ASSUME NEW e \in futures[h], e.id = id[c] PROVE e = Entry(id[c], c)
  <2>1. e \in [id : Nat, call : Call]
    BY DEF IInv, TypeOK
  <2>2. e.call = c
    BY <1>1, <1>4 DEF IInv, Registered, IdsDiffer
  <2> QED
    BY <1>4, <2>1, <2>2 DEF Entry
<1>5. Entry(id[c], c).id = id[c]
  BY DEF Entry
<1> QED
  BY <1>1, <1>3, <1>4, <1>5

LEMMA TagsStep == IInv /\ Delivery /\ Tags /\ [Next]_vars => Tags'
<1> SUFFICES ASSUME IInv, Delivery, Tags, [Next]_vars, NEW g \in Host,
                    NEW k \in DOMAIN replies'[g]
             PROVE  /\ TwoWay(replies'[g][k].of)
                    /\ replies'[g][k].supervisor = tag'[replies'[g][k].of]
  BY DEF Tags, TwoWay
<1>1. TypeOK
  BY DEF IInv
<1>2. ASSUME NEW c \in Call, UnderWay(g, c) PROVE tag'[c] = tag[c]
  <2>1. stage[c] \in {"waiting", "done"}
    BY <1>2 DEF Delivery, Awaited
  <2> QED
    BY <1>1, <2>1, StagesForward
<1>3. ASSUME NEW j \in DOMAIN replies[g], replies'[g][k] = replies[g][j]
      PROVE  /\ TwoWay(replies'[g][k].of)
             /\ replies'[g][k].supervisor = tag'[replies'[g][k].of]
  <2> PICK c \in Call : c = replies[g][j].of
    BY RepliesBegun
  <2>1. TwoWay(c) /\ replies[g][j].supervisor = tag[c]
    BY DEF Tags
  <2>2. tag'[c] = tag[c]
    BY <1>2 DEF UnderWay, InReplies
  <2> QED
    BY <1>3, <2>1, <2>2
<1>4. ASSUME serving[g] \in Call,
             replies'[g][k].of = serving[g],
             replies'[g][k].supervisor = tag[serving[g]]
      PROVE  /\ TwoWay(replies'[g][k].of)
             /\ replies'[g][k].supervisor = tag'[replies'[g][k].of]
  <2>1. TwoWay(serving[g])
    BY <1>4, NoneAssumption DEF IInv, OnItsChannel
  <2>2. tag'[serving[g]] = tag[serving[g]]
    BY <1>2, <1>4 DEF UnderWay
  <2> QED
    BY <1>4, <2>1, <2>2
<1> QED
  BY <1>1, <1>3, <1>4, RepliesStep

\* An actor that is registered for a supervisor stays so; it is registered for the
\* one that it has; and the ghost of the links only grows.
LEMMA LinksStep ==
  ASSUME TypeOK, [Next]_vars
  PROVE  /\ \A g \in Host, s \in Supervisor :
              \/ supervisors'[g][s] = supervisors[g][s]
              \/ /\ supervisors[g][s] = None
                 /\ \E p \in Proxy : supervisors'[g][s] = p /\ supervisor[p] = s
         /\ \A p \in Proxy :
              /\ had[p] \subseteq had'[p]
              /\ supervisor'[p] \in {supervisor[p], None} \cup had'[p]
<1>1. /\ supervisors \in [Host -> [Supervisor -> Proxy \cup {None}]]
      /\ supervisor \in [Proxy -> Supervisor \cup {None}]
      /\ had \in [Proxy -> SUBSET Supervisor]
  BY DEF TypeOK
<1>2. \/ UNCHANGED supervisors
      \/ \E c \in Call :
           supervisors' = [supervisors EXCEPT ![HostFor(c)][supervisor[ProxyOf[c]]] =
                             IF @ = None THEN ProxyOf[c] ELSE @]
  <2>1. ASSUME NEW c \in Call, Begin(c) \/ CallerStep(c)
        PROVE  \/ UNCHANGED supervisors
               \/ supervisors' = [supervisors EXCEPT
                                    ![HostFor(c)][supervisor[ProxyOf[c]]] =
                                      IF @ = None THEN ProxyOf[c] ELSE @]
    BY <2>1 DEF Begin, CallerStep, RegisterSupervisor, NameSupervisor, PutFuture,
                Write, Return, TimeOut, clientVars
  <2>2. ASSUME NEW h \in Host,
               \/ Connect(h) \/ Disconnect(h) \/ Reconnect(h) \/ Reject(h) \/ Choke(h)
        PROVE  UNCHANGED supervisors
    BY <2>2 DEF Connect, Disconnect, Reconnect, Reject, Choke
  <2>3. ASSUME NEW h \in Host,
               \/ Receive(h) \/ Answer(h) \/ GiveUp(h) \/ Report(h)
               \/ \E t \in Target : Execute(h, t)
        PROVE  UNCHANGED supervisors
    BY <2>3 DEF Receive, Answer, GiveUp, WriteReply, Report, Execute, clientVars
  <2>4. ASSUME NEW h \in Host, Success(h) \/ Failure(h) PROVE UNCHANGED supervisors
    BY <2>4 DEF Success, Failure, Finish
  <2>5. CASE UNCHANGED vars \/ LinkStep
    BY <2>5 DEF vars, LinkStep, Unlink, Link, clientVars
  <2> QED
    BY <2>1, <2>2, <2>3, <2>4, <2>5 DEF Next, LinkStep
<1>3. ASSUME NEW g \in Host, NEW s \in Supervisor
      PROVE  \/ supervisors'[g][s] = supervisors[g][s]
             \/ /\ supervisors[g][s] = None
                /\ \E p \in Proxy : supervisors'[g][s] = p /\ supervisor[p] = s
  <2>1. CASE UNCHANGED supervisors
    BY <2>1
  <2>2. ASSUME NEW c \in Call,
               supervisors' = [supervisors EXCEPT
                                 ![HostFor(c)][supervisor[ProxyOf[c]]] =
                                   IF @ = None THEN ProxyOf[c] ELSE @]
        PROVE  \/ supervisors'[g][s] = supervisors[g][s]
               \/ /\ supervisors[g][s] = None
                  /\ \E p \in Proxy : supervisors'[g][s] = p /\ supervisor[p] = s
    <3>1. CASE g = HostFor(c) /\ s = supervisor[ProxyOf[c]]
      <4>1. supervisors'[g][s] = IF supervisors[g][s] = None THEN ProxyOf[c]
                                 ELSE supervisors[g][s]
        BY <1>1, <2>2, <3>1
      <4> QED
        BY <3>1, <4>1, HostsOfCalls
    <3>2. CASE g # HostFor(c) \/ s # supervisor[ProxyOf[c]]
      BY <1>1, <2>2, <3>2
    <3> QED
      BY <3>1, <3>2
  <2> QED
    BY <1>2, <2>1, <2>2
<1>4. UNCHANGED linkVars \/ LinkStep
  <2>1. ASSUME NEW c \in Call, Begin(c) \/ CallerStep(c) PROVE UNCHANGED linkVars
    BY <2>1 DEF Begin, CallerStep, RegisterSupervisor, NameSupervisor, PutFuture,
                Write, Return, TimeOut
  <2>2. ASSUME NEW h \in Host,
               \/ Connect(h) \/ Disconnect(h) \/ Reconnect(h) \/ Reject(h) \/ Choke(h)
        PROVE  UNCHANGED linkVars
    BY <2>2 DEF Connect, Disconnect, Reconnect, Reject, Choke
  <2>3. ASSUME NEW h \in Host,
               \/ Receive(h) \/ Answer(h) \/ GiveUp(h) \/ Report(h)
               \/ \E t \in Target : Execute(h, t)
        PROVE  UNCHANGED linkVars
    BY <2>3 DEF Receive, Answer, GiveUp, WriteReply, Report, Execute
  <2>4. ASSUME NEW h \in Host, Success(h) \/ Failure(h) PROVE UNCHANGED linkVars
    BY <2>4 DEF Success, Failure, Finish
  <2>5. CASE UNCHANGED vars
    BY <2>5 DEF vars
  <2> QED
    BY <2>1, <2>2, <2>3, <2>4, <2>5 DEF Next, LinkStep
<1>5. ASSUME NEW p \in Proxy
      PROVE  /\ had[p] \subseteq had'[p]
             /\ supervisor'[p] \in {supervisor[p], None} \cup had'[p]
  <2>1. CASE UNCHANGED linkVars
    BY <2>1 DEF linkVars
  <2>2. ASSUME NEW q \in Proxy, Unlink(q)
        PROVE  /\ had[p] \subseteq had'[p]
               /\ supervisor'[p] \in {supervisor[p], None} \cup had'[p]
    BY <1>1, <2>2 DEF Unlink
  <2>3. ASSUME NEW q \in Proxy, NEW s \in Supervisor, Link(q, s)
        PROVE  /\ had[p] \subseteq had'[p]
               /\ supervisor'[p] \in {supervisor[p], None} \cup had'[p]
    <3>1. /\ supervisor' = [supervisor EXCEPT ![q] = s]
          /\ had' = [had EXCEPT ![q] = @ \cup {s}]
      BY <2>3 DEF Link
    <3> QED
      BY <1>1, <3>1
  <2> QED
    BY <1>4, <2>1, <2>2, <2>3 DEF LinkStep
<1> QED
  BY <1>3, <1>5

LEMMA NamesStep == TypeOK /\ Names /\ [Next]_vars => Names'
<1> SUFFICES ASSUME TypeOK, Names, [Next]_vars PROVE Names'
  OBVIOUS
<1>1. /\ supervisors \in [Host -> [Supervisor -> Proxy \cup {None}]]
      /\ supervisor \in [Proxy -> Supervisor \cup {None}]
  BY DEF TypeOK
<1>2. ASSUME NEW p \in Proxy, supervisor'[p] # None
      PROVE  supervisor'[p] \in had'[p]
  BY <1>2, LinksStep DEF Names
<1>3. ASSUME NEW g \in Host, NEW s \in Supervisor, supervisors'[g][s] # None
      PROVE  s \in had'[supervisors'[g][s]]
  <2>1. CASE supervisors'[g][s] = supervisors[g][s]
    <3>1. s \in had[supervisors[g][s]] /\ supervisors[g][s] \in Proxy
      BY <1>1, <1>3, <2>1 DEF Names
    <3> QED
      BY <2>1, <3>1, LinksStep
  <2>2. ASSUME NEW p \in Proxy, supervisors'[g][s] = p, supervisor[p] = s
        PROVE  s \in had'[supervisors'[g][s]]
    <3>1. s \in had[p]
      BY <2>2, NoneAssumption DEF Names
    <3> QED
      BY <2>2, <3>1, LinksStep
  <2> QED
    BY <2>1, <2>2, LinksStep
<1> QED
  BY <1>2, <1>3 DEF Names

------------------------------------------------------------------------------
(* Reports *)

\* Who begins and who ends the handling of a failure.
LEMMA ReportingStep ==
  ASSUME TypeOK, [Next]_vars
  PROVE  /\ \A g \in Host : reporting'[g] => reporting[g] \/ Report(g)
         /\ \A g \in Host : reporting[g] => reporting'[g] \/ Failure(g) \/ Choke(g)
         /\ UNCHANGED exits \/ \E h \in Host : Report(h)
<1>1. reporting \in [Host -> BOOLEAN]
  BY DEF TypeOK
<1>2. ASSUME NEW c \in Call, Begin(c) \/ CallerStep(c)
      PROVE  UNCHANGED <<reporting, exits>>
  BY <1>2 DEF Begin, CallerStep, RegisterSupervisor, NameSupervisor, PutFuture, Write,
              Return, TimeOut
<1>3. ASSUME NEW h \in Host, Connect(h) \/ Disconnect(h) \/ Reconnect(h) \/ Reject(h)
      PROVE  UNCHANGED <<reporting, exits>>
  BY <1>3 DEF Connect, Disconnect, Reconnect, Reject
<1>4. ASSUME NEW h \in Host,
             \/ Receive(h) \/ Answer(h) \/ GiveUp(h) \/ Success(h)
             \/ \E t \in Target : Execute(h, t)
      PROVE  UNCHANGED <<reporting, exits>>
  BY <1>4 DEF Receive, Answer, GiveUp, WriteReply, Success, Execute
<1>5. UNCHANGED vars \/ LinkStep => UNCHANGED <<reporting, exits>>
  BY DEF vars, LinkStep, Unlink, Link
<1>6. ASSUME NEW h \in Host, Report(h)
      PROVE  reporting' = [reporting EXCEPT ![h] = TRUE]
  BY <1>6 DEF Report
<1>7. ASSUME NEW h \in Host, Failure(h) \/ Choke(h)
      PROVE  reporting' = [reporting EXCEPT ![h] = FALSE] /\ UNCHANGED exits
  BY <1>7 DEF Failure, Choke
<1>8. \/ UNCHANGED <<reporting, exits>>
      \/ \E h \in Host : Report(h) \/ Failure(h) \/ Choke(h)
  <2>1. CASE \E c \in Call : Begin(c) \/ CallerStep(c)
    BY <1>2, <2>1
  <2>2. CASE \E h \in Host : \/ Connect(h) \/ Disconnect(h)
                             \/ Reconnect(h) \/ Reject(h)
    BY <1>3, <2>2
  <2>3. CASE \E h \in Host : \/ Receive(h) \/ Answer(h)
                             \/ GiveUp(h) \/ Success(h)
                             \/ \E t \in Target : Execute(h, t)
    BY <1>4, <2>3
  <2> QED
    BY <1>5, <2>1, <2>2, <2>3 DEF Next, LinkStep
<1>9. CASE UNCHANGED <<reporting, exits>>
  BY <1>9
<1>10. ASSUME NEW h \in Host, Report(h), NEW g \in Host
       PROVE  /\ reporting'[g] => reporting[g] \/ Report(g)
              /\ reporting[g] => reporting'[g]
  BY <1>1, <1>6, <1>10
<1>11. ASSUME NEW h \in Host, Failure(h) \/ Choke(h), NEW g \in Host
       PROVE  /\ reporting'[g] => reporting[g]
              /\ reporting[g] => reporting'[g] \/ Failure(g) \/ Choke(g)
  BY <1>1, <1>7, <1>11
<1> QED
  BY <1>7, <1>8, <1>9, <1>10, <1>11

\* The reply that is being handled stays where it is, whatever the channel loses.
LEMMA HeadKept ==
  ASSUME IInv, Delivery, Tags, Handling, [Next]_vars, NEW g \in Host, reporting[g],
         ~Success(g), ~Failure(g)
  PROVE  /\ reporting'[g]
         /\ replies'[g] # <<>>
         /\ Head(replies'[g]) = Head(replies[g])
<1>1. /\ TypeOK /\ replies \in [Host -> Seq(Reply)] /\ replies[g] # <<>>
  BY DEF IInv, TypeOK, Handling
<1>2. 1 \in DOMAIN replies[g] /\ Head(replies[g]) = replies[g][1]
  BY <1>1, Shrunk
<1>3. ~Choke(g)
  <2>1. \E e \in futures[g] : e.id = Head(replies[g]).id
    BY <1>2, RepliesFind DEF ReplyFindsFuture
  <2> QED
    BY <2>1 DEF Choke
<1>4. reporting'[g]
  BY <1>1, <1>3, ReportingStep
<1>5. CASE replies'[g] = replies[g]
  BY <1>1, <1>4, <1>5
<1>6. CASE Answer(g) \/ GiveUp(g)
  <2>1. PICK r \in Reply :
          replies'[g] = IF connection[g] = "open" THEN Append(replies[g], r)
                        ELSE replies[g]
    BY <1>1, <1>6, AnswerMoves
  <2>2. Append(replies[g], r) # <<>> /\ Head(Append(replies[g], r)) = replies[g][1]
    <3>1. Append(replies[g], r) \in Seq(Reply) /\ Append(replies[g], r) # <<>>
      BY <1>1, AppendProperties
    <3>2. /\ Head(Append(replies[g], r)) = Append(replies[g], r)[1]
          /\ Append(replies[g], r)[1] = replies[g][1]
      BY <1>1, <1>2, <3>1, Shrunk, Grown
    <3> QED
      BY <3>1, <3>2
  <2> QED
    BY <1>1, <1>2, <1>4, <2>1, <2>2
<1>7. CASE CutStep(g)
  <2>1. PICK m : Cut(g, m, replies[g], 1)
    BY <1>3, <1>7 DEF CutStep, Disconnect, Reject, Handled
  <2>2. PICK i \in 1 .. Len(replies[g]) :
          replies' = [replies EXCEPT ![g] = SubSeq(replies[g], 1, i)]
    BY <2>1 DEF Cut
  <2>3. Len(replies[g]) \in Nat /\ \A k \in 1 .. i : replies[g][k] \in Reply
    BY <1>1, LenProperties, ElementOfSeq
  <2>4. /\ SubSeq(replies[g], 1, i) \in Seq(Reply)
        /\ Len(SubSeq(replies[g], 1, i)) = i
        /\ SubSeq(replies[g], 1, i)[1] = replies[g][1]
    BY <2>2, <2>3, SubSeqProperties
  <2>5. SubSeq(replies[g], 1, i) # <<>>
    BY <2>4, EmptySeq
  <2>6. Head(SubSeq(replies[g], 1, i)) = replies[g][1]
    BY <2>4, <2>5, Shrunk
  <2> QED
    BY <1>1, <1>2, <1>4, <2>2, <2>5, <2>6
<1>8. replies'[g] = replies[g] \/ Answer(g) \/ GiveUp(g) \/ CutStep(g)
  <2>1. ASSUME NEW c \in Call, Write(c), HostFor(c) = g PROVE UNCHANGED replies
    BY <2>1 DEF Write
  <2>2. CASE Receive(g)
    BY <2>2 DEF Receive
  <2> QED
    BY <1>1, <2>1, <2>2, StepsAt DEF Still
<1> QED
  BY <1>5, <1>6, <1>7, <1>8

\* The reply that a client handles is of a call that waits for it.
LEMMA HeadIsAwaited ==
  ASSUME IInv, Delivery, Tags, NEW h \in Host, replies[h] # <<>>
  PROVE  LET r == Head(replies[h])
         IN  /\ r \in Reply /\ r.of \in Call /\ HostFor(r.of) = h
             /\ r.supervisor = tag[r.of]
             /\ stage[r.of] \in {"waiting", "done"}
             /\ future[r.of] = "open"
<1>1. replies[h] \in Seq(Reply)
  BY DEF IInv, TypeOK
<1>2. 1 \in DOMAIN replies[h] /\ Head(replies[h]) = replies[h][1]
  BY <1>1, Shrunk
<1> PICK c \in Call : c = replies[h][1].of
  BY <1>2, RepliesBegun
<1>3. /\ replies[h][1] \in Reply /\ HostFor(c) = h
      /\ replies[h][1].supervisor = tag[c] /\ TwoWay(c)
  BY <1>2, RepliesBegun DEF Tags
<1>4. UnderWay(h, c)
  BY <1>2 DEF UnderWay, InReplies
<1>5. stage[c] \in {"waiting", "done"} /\ Entry(id[c], c) \in futures[h]
  BY <1>3, <1>4 DEF Delivery, Awaited
<1>6. future[c] = "open"
  BY <1>5 DEF Delivery, Unfinished, Entry
<1> QED
  BY <1>2, <1>3, <1>5, <1>6

Timely(e) == \/ future[e.for] = "exception"
             \/ /\ reporting[HostFor(e.for)]
                /\ Head(replies[HostFor(e.for)]).of = e.for
Right(e) == /\ tag[e.for] # None
            /\ e.dead = supervisors[HostFor(e.for)][tag[e.for]]
            /\ {e.to, tag[e.for]} \subseteq had[e.dead]

\* The report of a call whose request has its name for good stays right.
LEMMA StaysRight ==
  ASSUME IInv, Delivery, Tags, Handling, [Next]_vars,
         NEW e \in exits, Timely(e), Right(e)
  PROVE  Right(e)'
<1>1. /\ TypeOK /\ e.for \in Call /\ e.dead \in Proxy
      /\ supervisors \in [Host -> [Supervisor -> Proxy \cup {None}]]
      /\ tag \in [Call -> Supervisor \cup {None}]
  BY DEF IInv, TypeOK
<1> PICK c \in Call, h \in Host : c = e.for /\ h = HostFor(c)
  BY <1>1, HostsOfCalls
<1>2. stage[c] \notin Early
  <2>1. CASE future[c] = "exception"
    BY <2>1 DEF Delivery, Lifecycle
  <2>2. CASE reporting[h] /\ Head(replies[h]).of = c
    <3>1. replies[h] # <<>>
      BY <2>2 DEF Handling
    <3>2. stage[c] \in {"waiting", "done"}
      BY <2>2, <3>1, HeadIsAwaited
    <3> QED
      BY <3>2 DEF Early
  <2> QED
    BY <2>1, <2>2 DEF Timely
<1>3. tag'[c] = tag[c]
  BY <1>1, <1>2, StagesForward DEF Early
<1>4. tag[c] \in Supervisor /\ e.dead = supervisors[h][tag[c]]
  BY <1>1 DEF Right
<1>5. supervisors[h][tag[c]] # None
  BY <1>1, <1>4, NoneAssumption
<1>6. supervisors'[h][tag[c]] = supervisors[h][tag[c]]
  BY <1>1, <1>4, <1>5, LinksStep
<1>7. had[e.dead] \subseteq had'[e.dead]
  BY <1>1, LinksStep
<1>8. HostFor(e.for)' = HostFor(e.for)
  BY DEF HostFor
<1> QED
  BY <1>3, <1>4, <1>6, <1>7, <1>8 DEF Right

\* A call that was reported is completed in the end, and no step comes between.
LEMMA StaysTimely ==
  ASSUME IInv, Delivery, Tags, Handling, [Next]_vars, NEW e \in exits, Timely(e)
  PROVE  Timely(e)'
<1>1. /\ TypeOK /\ e.for \in Call
      /\ future \in [Call -> {"none", "open"} \cup Status]
  BY DEF IInv, TypeOK
<1> PICK c \in Call, h \in Host : c = e.for /\ h = HostFor(c)
  BY <1>1, HostsOfCalls
<1>2. HostFor(e.for)' = h
  BY DEF HostFor
<1>3. CASE future[c] = "exception"
  <2>1. ~PutFuture(c)
    BY <1>3 DEF PutFuture, Delivery, Lifecycle, Early
  <2>2. ASSUME NEW g \in Host, Ends(g, c) PROVE FALSE
    BY <1>3, <2>2 DEF Ends, Delivery, Unfinished, Entry
  <2>3. future'[c] = future[c]
    BY <2>1, <2>2, FutureStep
  <2> QED
    BY <1>3, <2>3 DEF Timely
<1>4. CASE reporting[h] /\ Head(replies[h]).of = c
  <2>1. replies[h] # <<>> /\ Head(replies[h]).status = "exception"
    BY <1>4 DEF Handling
  <2>2. ~Success(h)
    BY <2>1 DEF Success
  <2>3. CASE Failure(h)
    <3>1. PICK d \in Begun(h) : Ends(h, d)
      BY <2>3, FinishEnds
    <3>2. d = c
      BY <1>4, <3>1 DEF Ends
    <3>3. future' = [future EXCEPT ![c] = "exception"]
      BY <2>1, <3>1, <3>2 DEF Ends, Finish, Complete
    <3> QED
      BY <1>1, <3>3 DEF Timely
  <2>4. CASE ~Failure(h)
    <3>1. reporting'[h] /\ Head(replies'[h]) = Head(replies[h])
      BY <1>4, <2>2, <2>4, HeadKept
    <3> QED
      BY <1>2, <1>4, <3>1 DEF Timely
  <2> QED
    BY <2>3, <2>4
<1> QED
  BY <1>3, <1>4 DEF Timely

\* The report of the call whose reply is handled, of which there was none.
LEMMA ReportAdds ==
  ASSUME IInv, Delivery, Tags, Names, Reported, NEW h \in Host, Report(h)
  PROVE  \E x : /\ exits' = exits \cup {x}
                /\ x.for = Head(replies[h]).of
                /\ Timely(x)' /\ Right(x)'
                /\ \A e \in exits : e.for # x.for
<1> PICK r, p, s : /\ r = Head(replies[h])
                   /\ p = supervisors[h][r.supervisor]
                   /\ s = supervisor[p]
  OBVIOUS
<1> PICK x : x = [to |-> s, dead |-> p, for |-> r.of]
  OBVIOUS
<1>1. /\ replies[h] # <<>> /\ ~reporting[h] /\ r.status = "exception"
      /\ r.supervisor # None /\ p # None /\ s # None
      /\ exits' = exits \cup {x}
      /\ reporting' = [reporting EXCEPT ![h] = TRUE]
      /\ UNCHANGED <<clientVars, callerVars, linkVars, replies>>
  BY DEF Report
<1>2. /\ r \in Reply /\ r.of \in Call /\ HostFor(r.of) = h
      /\ r.supervisor = tag[r.of] /\ future[r.of] = "open"
  BY <1>1, HeadIsAwaited
<1>3. x.for = r.of /\ x.dead = p /\ x.to = s
  OBVIOUS
<1>4. /\ r.supervisor \in Supervisor
      /\ supervisors \in [Host -> [Supervisor -> Proxy \cup {None}]]
      /\ reporting \in [Host -> BOOLEAN]
  BY <1>1, <1>2 DEF Reply, IInv, TypeOK
<1>5. p \in Proxy
  BY <1>1, <1>4
<1>6. r.supervisor \in had[p] /\ s \in had[p]
  BY <1>1, <1>4, <1>5 DEF Names
<1>7. HostFor(x.for) = h
  BY <1>2, <1>3
<1>8. Timely(x)'
  <2>1. reporting'[h] /\ Head(replies'[h]).of = x.for
    BY <1>1, <1>3, <1>4
  <2> QED
    BY <1>7, <2>1 DEF Timely, HostFor
<1>9. Right(x)'
  <2>1. /\ tag' = tag /\ supervisors' = supervisors /\ had' = had
    BY <1>1 DEF clientVars, callerVars, linkVars
  <2>2. tag'[x.for] = r.supervisor
    BY <1>2, <1>3, <2>1
  <2>3. x.dead = supervisors'[h][r.supervisor]
    BY <1>3, <2>1
  <2>4. {x.to, r.supervisor} \subseteq had'[x.dead]
    BY <1>3, <1>6, <2>1
  <2>5. HostFor(x.for)' = h /\ r.supervisor # None
    BY <1>1, <1>7 DEF HostFor
  <2> QED
    BY ONLY <2>2, <2>3, <2>4, <2>5 DEF Right
<1>10. \A e \in exits : e.for # x.for
  <2> SUFFICES ASSUME NEW e \in exits, e.for = x.for PROVE FALSE
    OBVIOUS
  <2>1. Timely(e)
    BY DEF Reported, Timely
  <2> QED
    BY <1>1, <1>2, <1>3, <1>7, <2>1 DEF Timely
<1> QED
  BY <1>1, <1>3, <1>8, <1>9, <1>10

LEMMA HandlingStep ==
  IInv /\ Delivery /\ Tags /\ Names /\ Reported /\ Handling /\ [Next]_vars => Handling'
<1> SUFFICES ASSUME IInv, Delivery, Tags, Names, Reported, Handling, [Next]_vars,
                    NEW g \in Host, reporting'[g]
             PROVE  /\ replies'[g] # <<>>
                    /\ Head(replies'[g]).status = "exception"
                    /\ \E e \in exits' : e.for = Head(replies'[g]).of
  BY DEF Handling
<1>1. TypeOK /\ reporting \in [Host -> BOOLEAN]
  BY DEF IInv, TypeOK
<1>2. CASE Report(g)
  <2>1. UNCHANGED replies /\ replies[g] # <<>> /\ Head(replies[g]).status = "exception"
    BY <1>2 DEF Report
  <2>2. \E e \in exits' : e.for = Head(replies[g]).of
    BY <1>2, ReportAdds
  <2> QED
    BY <2>1, <2>2
<1>3. CASE reporting[g]
  <2>1. /\ replies[g] # <<>> /\ Head(replies[g]).status = "exception"
        /\ \E e \in exits : e.for = Head(replies[g]).of
    BY <1>3 DEF Handling
  <2>2. ~Success(g)
    BY <2>1 DEF Success
  <2>3. ~Failure(g)
    BY <1>1 DEF Failure
  <2>4. replies'[g] # <<>> /\ Head(replies'[g]) = Head(replies[g])
    BY <1>3, <2>2, <2>3, HeadKept
  <2>5. exits \subseteq exits'
    BY <1>1, ReportAdds, ReportingStep
  <2> QED
    BY <2>1, <2>4, <2>5
<1> QED
  BY <1>1, <1>2, <1>3, ReportingStep

LEMMA ReportedStep ==
  IInv /\ Delivery /\ Tags /\ Names /\ Handling /\ Reported /\ [Next]_vars => Reported'
<1> SUFFICES ASSUME IInv, Delivery, Tags, Names, Handling, Reported, [Next]_vars
             PROVE  Reported'
  OBVIOUS
<1>1. /\ TypeOK
      /\ future \in [Call -> {"none", "open"} \cup Status]
      /\ tag \in [Call -> Supervisor \cup {None}]
  BY DEF IInv, TypeOK
<1>2. \A e \in exits : Timely(e) /\ Right(e)
  BY DEF Reported, Timely, Right
<1>3. \A e \in exits : Timely(e)' /\ Right(e)'
  BY <1>2, StaysTimely, StaysRight
<1>4. /\ exits \subseteq exits'
      /\ \A e \in exits' : Timely(e)' /\ Right(e)'
      /\ \A e, f \in exits' : e.for = f.for => e = f
  <2>1. CASE UNCHANGED exits
    BY <1>3, <2>1 DEF Reported
  <2>2. ASSUME NEW h \in Host, Report(h)
        PROVE  /\ exits \subseteq exits'
               /\ \A e \in exits' : Timely(e)' /\ Right(e)'
               /\ \A e, f \in exits' : e.for = f.for => e = f
    <3>1. PICK x : /\ exits' = exits \cup {x}
                   /\ Timely(x)' /\ Right(x)'
                   /\ \A e \in exits : e.for # x.for
      BY <2>2, ReportAdds
    <3>2. \A e, f \in exits' : e.for = f.for => e = f
      BY <3>1 DEF Reported
    <3> QED
      BY <1>3, <3>1, <3>2
  <2> QED
    BY <1>1, <2>1, <2>2, ReportingStep
<1>5. ASSUME NEW c \in Call, future'[c] = "exception", tag'[c] # None
      PROVE  \E e \in exits' : e.for = c
  <2>1. CASE future'[c] = future[c]
    <3>1. stage[c] \notin Early
      BY <1>5, <2>1 DEF Delivery, Lifecycle
    <3>2. tag'[c] = tag[c]
      BY <1>1, <3>1, StagesForward DEF Early
    <3>3. \E e \in exits : e.for = c
      BY <1>5, <2>1, <3>2 DEF Reported
    <3> QED
      BY <1>4, <3>3
  <2>2. ASSUME NEW h \in Host, Ends(h, c), Success(h) \/ Failure(h)
        PROVE  \E e \in exits' : e.for = c
    <3>1. /\ replies[h] # <<>> /\ Head(replies[h]).of = c
          /\ future' = [future EXCEPT ![c] = Head(replies[h]).status]
          /\ UNCHANGED tag
      BY <2>2 DEF Ends, Finish, Complete
    <3>2. Head(replies[h]).status = "exception"
      BY <1>1, <1>5, <3>1
    <3>3. Head(replies[h]).supervisor = tag[c]
      BY <3>1, HeadIsAwaited
    <3>4. Failure(h)
      BY <2>2, <3>2 DEF Success
    <3>5. reporting[h]
      BY <1>5, <3>1, <3>3, <3>4 DEF Failure
    <3>6. \E e \in exits : e.for = c
      BY <3>1, <3>5 DEF Handling
    <3> QED
      BY <1>4, <3>6
  <2> QED
    BY <1>5, <2>1, <2>2, FutureStep
<1>6. \A e \in exits' :
        LET h == HostFor(e.for)
        IN  /\ \/ future'[e.for] = "exception"
               \/ reporting'[h] /\ Head(replies'[h]).of = e.for
            /\ tag'[e.for] # None
            /\ e.dead = supervisors'[h][tag'[e.for]]
            /\ {e.to, tag'[e.for]} \subseteq had'[e.dead]
  BY <1>4 DEF Timely, Right, HostFor
<1> QED
  BY <1>4, <1>5, <1>6 DEF Reported, HostFor

------------------------------------------------------------------------------
(* Nothing is lost *)

\* A two-way call that is under way stays so until its reply is handled, as long as
\* the channel is open.
LEMMA Onward ==
  ASSUME IInv, [Next]_vars, NEW g \in Host, NEW c \in Call,
         connection[g] = "open", connection'[g] = "open",
         TwoWay(c), UnderWay(g, c)
  PROVE  UnderWay(g, c)' \/ (c \in Begun(g) /\ Ends(g, c))
<1>1. /\ TypeOK
      /\ wire \in [Host -> Seq(Call)] /\ replies \in [Host -> Seq(Reply)]
  BY DEF IInv, TypeOK
<1>2. CASE Still(g)
  BY <1>2 DEF Still, UnderWay, InWire, InReplies
<1>3. ASSUME NEW d \in Call, Write(d), HostFor(d) = g PROVE UnderWay(g, c)'
  <2>1. UNCHANGED <<replies, serving>> /\ wire'[g] = Append(wire[g], d)
    BY <1>1, <1>3, WriteMoves
  <2>2. /\ DOMAIN wire[g] = 1 .. Len(wire[g]) /\ Len(wire[g]) \in Nat
        /\ DOMAIN wire'[g] = 1 .. Len(wire[g]) + 1
        /\ \A i \in DOMAIN wire[g] : wire'[g][i] = wire[g][i]
    BY <1>1, <2>1, Grown
  <2>3. InWire(g, c) => InWire(g, c)'
    BY <2>2 DEF InWire
  <2> QED
    BY <2>1, <2>3 DEF UnderWay, InReplies
<1>4. CASE Receive(g)
  <2> PICK d \in Call : d = Head(wire[g])
    BY <1>1, <1>4, ReceiveMoves
  <2>1. /\ wire[g] # <<>> /\ UNCHANGED replies /\ serving[g] = None
        /\ wire'[g] = Tail(wire[g])
        /\ serving'[g] = IF TwoWay(d) THEN d ELSE None
    BY <1>1, <1>4, ReceiveMoves
  <2>2. /\ Len(wire[g]) \in Nat \ {0} /\ DOMAIN wire[g] = 1 .. Len(wire[g])
        /\ DOMAIN wire'[g] = 1 .. Len(wire[g]) - 1
        /\ \A i \in DOMAIN wire'[g] : wire'[g][i] = wire[g][i + 1]
        /\ d = wire[g][1]
    BY <1>1, <2>1, Shrunk
  <2>3. ASSUME NEW k \in DOMAIN wire[g], wire[g][k] = c, c # d PROVE InWire(g, c)'
    <3>1. k \in Nat /\ k # 1 /\ k - 1 \in DOMAIN wire'[g] /\ (k - 1) + 1 = k
      BY <2>2, <2>3
    <3>2. wire'[g][k - 1] = wire[g][k]
      BY <2>2, <3>1
    <3> QED
      BY <2>3, <3>1, <3>2 DEF InWire
  <2>4. InWire(g, c) => InWire(g, c)' \/ serving'[g] = c
    BY <2>1, <2>3 DEF InWire
  <2> QED
    BY <2>1, <2>4, NoneAssumption DEF UnderWay, InReplies
<1>5. CASE Answer(g) \/ GiveUp(g)
  <2>1. /\ serving[g] \in Call /\ UNCHANGED wire /\ replies[g] \in Seq(Reply)
    BY <1>1, <1>5, AnswerMoves
  <2>2. PICK r \in Reply : r.of = serving[g] /\ replies'[g] = Append(replies[g], r)
    BY <1>1, <1>5, AnswerMoves
  <2>3. /\ DOMAIN replies[g] = 1 .. Len(replies[g]) /\ Len(replies[g]) \in Nat
        /\ DOMAIN replies'[g] = 1 .. Len(replies[g]) + 1
        /\ \A i \in DOMAIN replies[g] : replies'[g][i] = replies[g][i]
        /\ replies'[g][Len(replies[g]) + 1] = r
    BY <2>1, <2>2, Grown
  <2>4. InReplies(g, c) \/ serving[g] = c => InReplies(g, c)'
    BY <2>2, <2>3 DEF InReplies
  <2>5. InWire(g, c) => InWire(g, c)'
    BY <2>1 DEF InWire
  <2> QED
    BY <2>4, <2>5 DEF UnderWay
<1>6. CASE Success(g) \/ Failure(g)
  <2>1. PICK d \in Begun(g) : Ends(g, d)
    BY <1>6, FinishEnds
  <2>2. /\ replies[g] # <<>> /\ replies'[g] = Tail(replies[g])
        /\ UNCHANGED <<wire, serving>>
        /\ Head(replies[g]).of = d
    BY <1>1, <2>1 DEF Ends, Finish, serverVars
  <2>3. /\ Len(replies[g]) \in Nat \ {0} /\ DOMAIN replies[g] = 1 .. Len(replies[g])
        /\ DOMAIN replies'[g] = 1 .. Len(replies[g]) - 1
        /\ \A i \in DOMAIN replies'[g] : replies'[g][i] = replies[g][i + 1]
        /\ Head(replies[g]) = replies[g][1]
    BY <1>1, <2>2, Shrunk
  <2>4. ASSUME NEW k \in DOMAIN replies[g], replies[g][k].of = c, c # d
        PROVE  InReplies(g, c)'
    <3>1. k \in Nat /\ k # 1 /\ k - 1 \in DOMAIN replies'[g] /\ (k - 1) + 1 = k
      BY <2>2, <2>3, <2>4
    <3>2. replies'[g][k - 1] = replies[g][k]
      BY <2>3, <3>1
    <3> QED
      BY <2>4, <3>1, <3>2 DEF InReplies
  <2> QED
    BY <2>1, <2>2, <2>4 DEF UnderWay, InReplies, InWire
<1>7. CASE CutStep(g)
  BY <1>1, <1>7, ConnectionStep
<1> QED
  BY <1>1, <1>2, <1>3, <1>4, <1>5, <1>6, <1>7, StepsAt

LEMMA AccountedStep ==
  IInv /\ Delivery /\ Accounted /\ [Next]_vars => Accounted'
<1> DEFINE A(c) == \/ stage[c] = "put"
                   \/ UnderWay(HostFor(c), c)
<1>1. Accounted <=> \A c \in Call : connection[HostFor(c)] = "open"
                                    /\ future[c] = "open" => A(c)
  BY DEF Accounted, UnderWay, InWire, InReplies
<1>2. Accounted' <=> \A c \in Call : connection'[HostFor(c)] = "open"
                                     /\ future'[c] = "open" =>
                                       \/ stage'[c] = "put"
                                       \/ UnderWay(HostFor(c), c)'
  BY HostsOfCalls DEF Accounted, UnderWay, InWire, InReplies, HostFor
<1> HIDE DEF A
<1> SUFFICES ASSUME IInv, Delivery, Accounted, [Next]_vars, NEW c \in Call,
                    NEW h \in Host, h = HostFor(c),
                    connection'[h] = "open", future'[c] = "open"
             PROVE  stage'[c] = "put" \/ UnderWay(h, c)'
  BY <1>2, HostsOfCalls
<1>3. TypeOK /\ Once
  BY DEF IInv, Delivery
<1>4. ASSUME NEW g \in Host, c \in Begun(g), Ends(g, c) PROVE FALSE
  <2>1. future' = [future EXCEPT ![c] = Head(replies[g]).status]
        /\ Head(replies[g]) \in Reply
    BY <1>4 DEF Ends, Finish, Complete
  <2>2. future'[c] \in Status
    BY <1>3, <2>1 DEF TypeOK, Reply
  <2> QED
    BY <2>2 DEF Status
<1>5. CASE PutFuture(c)
  BY <1>3, <1>5 DEF PutFuture, TypeOK
<1>6. CASE future'[c] = future[c]
  <2>1. stage[c] \notin Early /\ TwoWay(c)
    BY <1>6 DEF Delivery, Lifecycle
  <2>2. connection[h] = "open"
    <3>1. ~Connect(h)
      BY <2>1 DEF Connect, Delivery, Lifecycle, Early
    <3> QED
      BY <1>3, <3>1, ConnectionStep
  <2>3. CASE UnderWay(h, c)
    BY <1>4, <2>1, <2>2, <2>3, Onward
  <2>4. CASE stage[c] = "put"
    <3>1. CASE Write(c)
      <4>1. wire'[h] = Append(wire[h], c)
        BY <1>3, <2>2, <3>1, WriteMoves
      <4>2. wire[h] \in Seq(Call)
        BY <1>3 DEF TypeOK
      <4>3. Len(wire[h]) + 1 \in DOMAIN wire'[h] /\ wire'[h][Len(wire[h]) + 1] = c
        BY <4>1, <4>2, Grown
      <4> QED
        BY <4>3 DEF UnderWay, InWire
    <3>2. CASE ~Write(c)
      <4>1. stage \in [Call -> Stages]
        BY <1>3 DEF TypeOK
      <4>2. ASSUME NEW d \in Call, d # c, \E v : stage' = [stage EXCEPT ![d] = v]
            PROVE  stage'[c] = "put"
        BY <2>4, <4>1, <4>2
      <4>3. ASSUME NEW d \in Call, Begin(d) \/ CallerStep(d)
            PROVE  /\ \E v : stage' = [stage EXCEPT ![d] = v]
                   /\ d # c
        <5>1. \E v : stage' = [stage EXCEPT ![d] = v]
          BY <4>3 DEF Begin, CallerStep, RegisterSupervisor, NameSupervisor, Advance,
                      PutFuture, Write, Return, TimeOut
        <5>2. d # c
          BY <2>4, <3>2, <4>3 DEF Begin, CallerStep, RegisterSupervisor,
                                  NameSupervisor, PutFuture, Return, TimeOut
        <5> QED
          BY <5>1, <5>2
      <4>4. CASE UNCHANGED stage
        BY <2>4, <4>4
      <4> QED
        BY <4>2, <4>3, <4>4, OthersKeepCalls
    <3> QED
      BY <3>1, <3>2
  <2> QED
    BY <1>1, <1>6, <2>2, <2>3, <2>4 DEF A
<1> QED
  BY <1>4, <1>5, <1>6, FutureStep

------------------------------------------------------------------------------
(* The order of the requests *)

LEMMA MoveHead ==
  ASSUME NEW S, NEW s \in Seq(S), NEW t \in Seq(S), t # <<>>
  PROVE  Append(s, Head(t)) \o Tail(t) = s \o t
<1>1. Head(t) \in S /\ Tail(t) \in Seq(S) /\ <<Head(t)>> \in Seq(S)
  BY HeadTailProperties
<1>2. <<Head(t)>> \o Tail(t) = t
  <2>1. /\ <<Head(t)>> \o Tail(t) \in Seq(S)
        /\ Len(<<Head(t)>> \o Tail(t)) = Len(t)
        /\ \A i \in 1 .. Len(t) : (<<Head(t)>> \o Tail(t))[i] = t[i]
    <3>1. Len(t) \in Nat \ {0} /\ Len(Tail(t)) = Len(t) - 1 /\ Head(t) = t[1]
          /\ \A i \in 1 .. Len(t) - 1 : Tail(t)[i] = t[i + 1]
      BY HeadTailProperties, EmptySeq, LenProperties
    <3>2. Len(<<Head(t)>>) = 1 /\ <<Head(t)>>[1] = Head(t)
      OBVIOUS
    <3>3. /\ <<Head(t)>> \o Tail(t) \in Seq(S)
          /\ Len(<<Head(t)>> \o Tail(t)) = 1 + Len(Tail(t))
          /\ \A i \in 1 .. 1 + Len(Tail(t)) : (<<Head(t)>> \o Tail(t))[i] =
               IF i <= 1 THEN <<Head(t)>>[i] ELSE Tail(t)[i - 1]
      BY <1>1, <3>2, ConcatProperties
    <3>4. ASSUME NEW i \in 1 .. Len(t) PROVE (<<Head(t)>> \o Tail(t))[i] = t[i]
      <4>1. CASE i = 1
        BY <3>1, <3>2, <3>3, <4>1
      <4>2. CASE i # 1
        <5>1. i - 1 \in 1 .. Len(t) - 1 /\ (i - 1) + 1 = i /\ ~(i <= 1)
          BY <3>1, <4>2
        <5> QED
          BY <3>1, <3>3, <5>1
      <4> QED
        BY <4>1, <4>2
    <3> QED
      BY <3>1, <3>3, <3>4
  <2> QED
    BY <2>1, SeqEqual
<1>3. Append(s, Head(t)) = s \o <<Head(t)>>
  BY <1>1, AppendIsConcat
<1>4. (s \o <<Head(t)>>) \o Tail(t) = s \o (<<Head(t)>> \o Tail(t))
  BY <1>1, ConcatAssociative
<1> QED
  BY <1>2, <1>3, <1>4

LEMMA AppendRight ==
  ASSUME NEW S, NEW s \in Seq(S), NEW t \in Seq(S), NEW e \in S
  PROVE  s \o Append(t, e) = Append(s \o t, e)
<1>1. <<e>> \in Seq(S)
  OBVIOUS
<1>2. Append(t, e) = t \o <<e>>
  BY AppendIsConcat
<1>3. s \o t \in Seq(S)
  BY ConcatProperties
<1>4. Append(s \o t, e) = (s \o t) \o <<e>>
  BY <1>3, AppendIsConcat
<1> QED
  BY <1>1, <1>2, <1>4, ConcatAssociative

OrderedBy(s, w) ==
  \A j \in DOMAIN s : \A i \in 1 .. j - 1 : s[i] # s[j] /\ Follows(w, s[i], s[j])

LEMMA OrderedAppend ==
  ASSUME NEW S, NEW s \in Seq(S), NEW w \in Seq(S), NEW e \in S,
         OrderedBy(s, w), Within(s, w), \A k \in DOMAIN w : w[k] # e
  PROVE  /\ OrderedBy(Append(s, e), Append(w, e))
         /\ Within(Append(s, e), Append(w, e))
<1>1. /\ Len(s) \in Nat /\ DOMAIN s = 1 .. Len(s)
      /\ DOMAIN Append(s, e) = 1 .. Len(s) + 1
      /\ \A i \in DOMAIN s : Append(s, e)[i] = s[i]
      /\ Append(s, e)[Len(s) + 1] = e
  BY Grown
<1>2. /\ Len(w) \in Nat /\ DOMAIN w = 1 .. Len(w)
      /\ DOMAIN Append(w, e) = 1 .. Len(w) + 1
      /\ \A i \in DOMAIN w : Append(w, e)[i] = w[i]
      /\ Append(w, e)[Len(w) + 1] = e
  BY Grown
<1> PICK x : x = Append(s, e)
  OBVIOUS
<1> PICK y : y = Append(w, e)
  OBVIOUS
<1>3. ASSUME NEW c, NEW d, Follows(w, c, d) PROVE Follows(y, c, d)
  BY <1>2, <1>3 DEF Follows
<1>4. ASSUME NEW i \in DOMAIN s PROVE s[i] # e /\ Follows(y, s[i], e)
  <2>1. PICK k \in DOMAIN w : w[k] = s[i]
    BY DEF Within
  <2>2. k \in 1 .. (Len(w) + 1) - 1 /\ y[k] = s[i] /\ y[Len(w) + 1] = e
    BY <1>2, <2>1
  <2>3. Len(w) + 1 \in DOMAIN y
    BY <1>2
  <2> QED
    BY <2>1, <2>2, <2>3 DEF Follows
<1>5. OrderedBy(x, y)
  <2> SUFFICES ASSUME NEW j \in DOMAIN x, NEW i \in 1 .. j - 1
               PROVE  x[i] # x[j] /\ Follows(y, x[i], x[j])
    BY DEF OrderedBy
  <2>1. CASE j \in DOMAIN s
    <3>1. i \in DOMAIN s /\ x[i] = s[i] /\ x[j] = s[j]
      BY <1>1, <2>1
    <3>2. s[i] # s[j] /\ Follows(w, s[i], s[j])
      BY <2>1 DEF OrderedBy
    <3> QED
      BY <1>3, <3>1, <3>2
  <2>2. CASE j = Len(s) + 1
    <3>1. i \in DOMAIN s /\ x[i] = s[i] /\ x[j] = e
      BY <1>1, <2>2
    <3> QED
      BY <1>4, <3>1
  <2> QED
    BY <1>1, <2>1, <2>2
<1>6. Within(x, y)
  <2> SUFFICES ASSUME NEW i \in DOMAIN x PROVE \E k \in DOMAIN y : y[k] = x[i]
    BY DEF Within
  <2>1. CASE i \in DOMAIN s
    <3>1. PICK k \in DOMAIN w : w[k] = s[i]
      BY <2>1 DEF Within
    <3>2. k \in DOMAIN y /\ y[k] = w[k]
      BY <1>2
    <3>3. x[i] = s[i]
      BY <1>1, <2>1
    <3> QED
      BY <3>1, <3>2, <3>3
  <2>2. CASE i = Len(s) + 1
    <3>1. Len(w) + 1 \in DOMAIN y /\ y[Len(w) + 1] = e
      BY <1>2
    <3>2. x[i] = e
      BY <1>1, <2>2
    <3> QED
      BY <3>1, <3>2
  <2> QED
    BY <1>1, <2>1, <2>2
<1> QED
  BY <1>5, <1>6

\* t is s without some elements in the middle and at the end.
Without(t, s, n, o) ==
  \A k \in DOMAIN t : /\ k \in Nat \ {0}
                      /\ k <= n => k \in DOMAIN s /\ t[k] = s[k]
                      /\ k > n => k + o \in DOMAIN s /\ t[k] = s[k + o]
Thinned(t, s) == \E n, o \in Nat : Without(t, s, n, o)

LEMMA OrderedThinned ==
  ASSUME NEW s, NEW t, NEW w, Thinned(t, s),
         DOMAIN t = 1 .. Len(t), Len(t) \in Nat,
         OrderedBy(s, w), Within(s, w)
  PROVE  OrderedBy(t, w) /\ Within(t, w)
<1>1. PICK n \in Nat, o \in Nat : \A k \in DOMAIN t :
        /\ k \in Nat \ {0}
        /\ k <= n => k \in DOMAIN s /\ t[k] = s[k]
        /\ k > n => k + o \in DOMAIN s /\ t[k] = s[k + o]
  BY DEF Thinned, Without
<1> DEFINE f(k) == IF k <= n THEN k ELSE k + o
<1>2. ASSUME NEW k \in DOMAIN t
      PROVE  f(k) \in Nat \ {0} /\ f(k) \in DOMAIN s /\ t[k] = s[f(k)]
  <2>1. k \in Nat \ {0}
    BY <1>1
  <2>2. CASE k <= n
    BY <1>1, <2>1, <2>2
  <2>3. CASE k > n
    BY <1>1, <2>1, <2>3
  <2> QED
    BY <2>1, <2>2, <2>3
<1>3. ASSUME NEW j \in DOMAIN t, NEW i \in 1 .. j - 1
      PROVE  i \in DOMAIN t /\ f(i) \in 1 .. f(j) - 1
  <2>1. j \in 1 .. Len(t) /\ i \in 1 .. Len(t) /\ i < j
    OBVIOUS
  <2>2. f(i) \in Nat \ {0} /\ f(j) \in Nat /\ f(i) < f(j)
    BY <1>2, <2>1
  <2> QED
    BY <2>1, <2>2
<1> HIDE DEF f
<1>4. OrderedBy(t, w)
  BY <1>2, <1>3 DEF OrderedBy
<1>5. Within(t, w)
  BY <1>2 DEF Within
<1> QED
  BY <1>4, <1>5

LEMMA ThinnedRight ==
  ASSUME NEW S, NEW p \in Seq(S), NEW u \in Seq(S), NEW v \in Seq(S), Segment(v, u)
  PROVE  Thinned(p \o v, p \o u)
<1>1. PICK o \in Nat : \A k \in DOMAIN v :
        k \in Nat /\ k + o \in DOMAIN u /\ v[k] = u[k + o]
  BY DEF Segment
<1>2. PICK a \in Nat, b \in Nat, n \in Nat :
        /\ a = Len(p) /\ b = Len(u) /\ n = Len(v)
        /\ DOMAIN u = 1 .. b /\ DOMAIN v = 1 .. n
  BY LenProperties
<1>3. PICK y : y = p \o v
  OBVIOUS
<1>4. PICK x : x = p \o u
  OBVIOUS
<1>5. /\ DOMAIN y = 1 .. a + n
      /\ \A i \in 1 .. a + n : y[i] = IF i <= a THEN p[i] ELSE v[i - a]
  BY <1>2, <1>3, ConcatProperties, LenProperties
<1>6. /\ DOMAIN x = 1 .. a + b
      /\ \A i \in 1 .. a + b : x[i] = IF i <= a THEN p[i] ELSE u[i - a]
  BY <1>2, <1>4, ConcatProperties, LenProperties
<1>7. \A k \in 1 .. n : k + o \in 1 .. b /\ v[k] = u[k + o]
  BY <1>1, <1>2
<1>8. ASSUME NEW k \in 1 .. a + n
      PROVE  /\ k \in Nat \ {0}
             /\ k <= a => k \in DOMAIN x /\ y[k] = x[k]
             /\ k > a => k + o \in DOMAIN x /\ y[k] = x[k + o]
  <2>1. CASE k <= a
    BY <1>5, <1>6, <2>1
  <2>2. CASE k > a
    <3>1. k - a \in 1 .. n
      BY <2>2
    <3>2. (k - a) + o \in 1 .. b /\ v[k - a] = u[(k - a) + o]
      BY <1>7, <3>1
    <3>3. /\ k + o \in 1 .. a + b /\ ~(k + o <= a)
          /\ (k + o) - a = (k - a) + o
      BY <2>2, <3>2
    <3>4. x[k + o] = u[(k + o) - a]
      BY <1>6, <3>3
    <3>5. y[k] = v[k - a]
      BY <1>5, <2>2
    <3> QED
      BY <1>6, <2>2, <3>2, <3>3, <3>4, <3>5
  <2> QED
    BY <2>1, <2>2
<1>9. Without(y, x, a, o)
  BY <1>5, <1>8 DEF Without
<1> QED
  BY <1>2, <1>3, <1>4, <1>9 DEF Thinned

\* t has what s has, but perhaps not e.
AllBut(t, s, e) == \A i \in DOMAIN s : s[i] = e \/ \E j \in DOMAIN t : t[j] = s[i]

LEMMA AllButHead ==
  ASSUME NEW S, NEW p \in Seq(S), NEW w \in Seq(S), w # <<>>
  PROVE  AllBut(p \o Tail(w), p \o w, Head(w))
<1> SUFFICES ASSUME NEW i \in DOMAIN (p \o w)
             PROVE  \/ (p \o w)[i] = Head(w)
                    \/ \E j \in DOMAIN (p \o Tail(w)) : (p \o Tail(w))[j] = (p \o w)[i]
  BY DEF AllBut
<1>1. /\ Len(p) \in Nat /\ Len(w) \in Nat \ {0} /\ Head(w) = w[1]
      /\ Tail(w) \in Seq(S) /\ Len(Tail(w)) = Len(w) - 1
      /\ \A k \in 1 .. Len(w) - 1 : Tail(w)[k] = w[k + 1]
  BY HeadTailProperties, EmptySeq, LenProperties
<1>2. /\ DOMAIN (p \o w) = 1 .. Len(p) + Len(w)
      /\ \A k \in 1 .. Len(p) + Len(w) :
           (p \o w)[k] = IF k <= Len(p) THEN p[k] ELSE w[k - Len(p)]
  BY ConcatProperties, LenProperties
<1>3. /\ DOMAIN (p \o Tail(w)) = 1 .. Len(p) + Len(Tail(w))
      /\ \A k \in 1 .. Len(p) + Len(Tail(w)) :
           (p \o Tail(w))[k] = IF k <= Len(p) THEN p[k] ELSE Tail(w)[k - Len(p)]
  BY <1>1, ConcatProperties, LenProperties
<1> PICK x : x = p \o w
  OBVIOUS
<1> PICK y : y = p \o Tail(w)
  OBVIOUS
<1>4. CASE i <= Len(p)
  <2>1. i \in DOMAIN y /\ y[i] = p[i] /\ x[i] = p[i]
    BY <1>1, <1>2, <1>3, <1>4
  <2> QED
    BY <2>1
<1>5. CASE i = Len(p) + 1
  <2>1. x[i] = w[i - Len(p)] /\ i - Len(p) = 1
    BY <1>1, <1>2, <1>5
  <2> QED
    BY <1>1, <2>1
<1>6. CASE i > Len(p) + 1
  <2>1. /\ i \in 1 .. Len(p) + Len(w) /\ i - 1 \in 1 .. Len(p) + Len(Tail(w))
        /\ ~(i <= Len(p)) /\ ~(i - 1 <= Len(p))
        /\ (i - 1) - Len(p) \in 1 .. Len(w) - 1
        /\ ((i - 1) - Len(p)) + 1 = i - Len(p)
    BY <1>1, <1>2, <1>6
  <2>2. x[i] = w[i - Len(p)] /\ y[i - 1] = Tail(w)[(i - 1) - Len(p)]
    BY <1>2, <1>3, <2>1
  <2>3. Tail(w)[(i - 1) - Len(p)] = w[i - Len(p)]
    BY <1>1, <2>1
  <2>4. i - 1 \in DOMAIN y
    BY <1>3, <2>1
  <2> QED
    BY <2>2, <2>3, <2>4
<1> QED
  BY <1>1, <1>2, <1>4, <1>5, <1>6

\* What a step does to the requests of g that the instance of t has seen or will.
LEMMA SeenStep ==
  ASSUME TypeOK, [Next]_vars, NEW g \in Host, NEW t \in Target
  PROVE  \/ written'[g] = written[g] /\ Seen(g, t)' = Seen(g, t)
         \/ \E c \in Call :
              /\ Write(c) /\ HostFor(c) = g /\ connection[g] = "open"
              /\ written'[g] = Append(written[g], c)
              /\ Seen(g, t)' = Append(Seen(g, t), c)
         \/ /\ Receive(g) /\ TargetFor(Head(wire[g])) # t
            /\ written'[g] = written[g] /\ Thinned(Seen(g, t)', Seen(g, t))
            /\ AllBut(Seen(g, t)', Seen(g, t), Head(wire[g]))
         \/ /\ CutStep(g)
            /\ written'[g] = written[g] /\ Thinned(Seen(g, t)', Seen(g, t))
<1> DEFINE Same == written'[g] = written[g] /\ Seen(g, t)' = Seen(g, t)
           Shorter == written'[g] = written[g] /\ Thinned(Seen(g, t)', Seen(g, t))
<1>1. /\ wire \in [Host -> Seq(Call)] /\ written \in [Host -> Seq(Call)]
      /\ inbox \in [Host -> [Target -> Seq(Call)]]
      /\ executed \in [Host -> [Target -> Seq(Call)]]
  BY DEF TypeOK
<1>2. /\ wire[g] \in Seq(Call) /\ written[g] \in Seq(Call)
      /\ inbox[g][t] \in Seq(Call) /\ executed[g][t] \in Seq(Call)
  BY <1>1
<1>3. executed[g][t] \o inbox[g][t] \in Seq(Call)
  BY <1>2, ConcatProperties
<1>4. ASSUME inbox'[g][t] = inbox[g][t], executed'[g][t] = executed[g][t],
             written'[g] = written[g], wire'[g] = wire[g]
      PROVE  Same
  BY <1>4 DEF Seen
<1>5. ASSUME inbox'[g][t] = inbox[g][t], executed'[g][t] = executed[g][t],
             written'[g] = written[g], Segment(wire'[g], wire[g])
      PROVE  Shorter
  <2>1. wire'[g] \in Seq(Call)
    BY TypeStep DEF TypeOK
  <2> QED
    BY <1>2, <1>3, <1>5, <2>1, ThinnedRight DEF Seen
<1>6. ASSUME NEW c \in Call, Write(c), HostFor(c) = g
      PROVE  Same \/ (/\ connection[g] = "open"
                      /\ written'[g] = Append(written[g], c)
                      /\ Seen(g, t)' = Append(Seen(g, t), c))
  <2>1. UNCHANGED <<inbox, executed>>
    BY <1>6 DEF Write, serverVars
  <2>2. /\ wire'[g] = IF connection[g] = "open" THEN Append(wire[g], c) ELSE wire[g]
        /\ written'[g] = IF connection[g] = "open" THEN Append(written[g], c)
                         ELSE written[g]
    BY <1>1, <1>6 DEF Write
  <2>3. \A p, w \in Seq(Call) : p \o Append(w, c) = Append(p \o w, c)
    BY AppendRight
  <2>4. CASE connection[g] = "open"
    <3>1. (executed[g][t] \o inbox[g][t]) \o Append(wire[g], c)
            = Append((executed[g][t] \o inbox[g][t]) \o wire[g], c)
      BY <1>2, <1>3, <2>3, Zenon
    <3> QED
      BY <2>1, <2>2, <2>4, <3>1 DEF Seen
  <2>5. CASE connection[g] # "open"
    BY <1>4, <2>1, <2>2, <2>5
  <2> QED
    BY <2>4, <2>5
<1>7. ASSUME Receive(g)
      PROVE  \/ Same
             \/ /\ TargetFor(Head(wire[g])) # t /\ Shorter
                /\ AllBut(Seen(g, t)', Seen(g, t), Head(wire[g]))
  <2> PICK c \in Call : c = Head(wire[g])
    BY <1>7, ReceiveMoves
  <2>1. /\ wire[g] # <<>> /\ wire'[g] = Tail(wire[g])
        /\ inbox' = [inbox EXCEPT ![g][TargetFor(c)] = Append(@, c)]
        /\ UNCHANGED <<executed, written>>
    BY <1>1, <1>7 DEF Receive
  <2>2. CASE TargetFor(c) = t
    <3>1. inbox'[g][t] = Append(inbox[g][t], c)
      BY <1>1, <2>1, <2>2
    <3> \A p, w \in Seq(Call) : p \o Append(w, c) = Append(p \o w, c)
      BY AppendRight
    <3>2. executed[g][t] \o Append(inbox[g][t], c)
            = Append(executed[g][t] \o inbox[g][t], c)
      BY <1>2, Zenon
    <3>3. Append(executed[g][t] \o inbox[g][t], c) \o Tail(wire[g])
            = (executed[g][t] \o inbox[g][t]) \o wire[g]
      BY <1>2, <1>3, <2>1, MoveHead
    <3> QED
      BY <2>1, <3>1, <3>2, <3>3 DEF Seen
  <2>3. CASE TargetFor(c) # t
    <3>1. inbox'[g][t] = inbox[g][t]
      <4>1. CASE TargetFor(c) \in Target
        BY <1>1, <2>1, <2>3, <4>1
      <4> QED
        BY <4>1, HostsOfCalls
    <3>2. Segment(wire'[g], wire[g])
      BY <1>2, <2>1, SegmentTail
    <3>3. AllBut(Seen(g, t)', Seen(g, t), Head(wire[g]))
      <4>1. \A p, w \in Seq(Call) :
              w # <<>> => AllBut(p \o Tail(w), p \o w, Head(w))
        BY AllButHead
      <4>2. /\ Seen(g, t) = (executed[g][t] \o inbox[g][t]) \o wire[g]
            /\ Seen(g, t)' = (executed[g][t] \o inbox[g][t]) \o Tail(wire[g])
        BY <2>1, <3>1 DEF Seen
      <4> QED
        BY <1>2, <1>3, <2>1, <4>1, <4>2, Zenon
    <3> QED
      BY <1>5, <2>1, <2>3, <3>1, <3>2, <3>3
  <2> QED
    BY <2>2, <2>3
<1>8. CASE CutStep(g)
  BY <1>5, <1>8, CutSegments DEF serverVars
<1>9. CASE Answer(g) \/ GiveUp(g) \/ Success(g) \/ Failure(g)
  <2>1. UNCHANGED <<inbox, executed, written, wire>>
    BY <1>9 DEF Answer, GiveUp, WriteReply, Success, Failure, Finish, serverVars
  <2> QED
    BY <1>4, <2>1
<1>10. ASSUME NEW h \in Host, NEW u \in Target, Execute(h, u), wire'[g] = wire[g]
       PROVE  Same
  <2> PICK c : c = Head(inbox[h][u])
    OBVIOUS
  <2>1. /\ inbox[h][u] # <<>> /\ UNCHANGED written
        /\ inbox' = [inbox EXCEPT ![h][u] = Tail(@)]
        /\ executed' = [executed EXCEPT ![h][u] = Append(@, c)]
    BY <1>10 DEF Execute
  <2>2. CASE h = g /\ u = t
    <3>1. /\ inbox'[g][t] = Tail(inbox[g][t])
          /\ executed'[g][t] = Append(executed[g][t], c)
      BY <1>1, <2>1, <2>2
    <3>2. Append(executed[g][t], c) \o Tail(inbox[g][t])
            = executed[g][t] \o inbox[g][t]
      BY <1>2, <2>1, <2>2, MoveHead
    <3> QED
      BY <1>10, <2>1, <3>1, <3>2 DEF Seen
  <2>3. CASE h # g \/ u # t
    <3>1. inbox'[g][t] = inbox[g][t] /\ executed'[g][t] = executed[g][t]
      BY <1>1, <2>1, <2>3
    <3> QED
      BY <1>4, <1>10, <2>1, <3>1
  <2> QED
    BY <2>2, <2>3
<1>11. ASSUME NEW h \in Host, Receive(h), h # g, wire'[g] = wire[g] PROVE Same
  <2>1. /\ inbox' = [inbox EXCEPT ![h][TargetFor(Head(wire[h]))] =
                       Append(@, Head(wire[h]))]
        /\ UNCHANGED <<executed, written>>
    BY <1>11 DEF Receive
  <2>2. inbox'[g] = inbox[g]
    BY <1>1, <1>11, <2>1
  <2> QED
    BY <1>4, <1>11, <2>1, <2>2
<1>12. ASSUME NEW c \in Call, Write(c), HostFor(c) # g, wire'[g] = wire[g] PROVE Same
  <2>1. /\ \/ UNCHANGED written
           \/ written' = [written EXCEPT ![HostFor(c)] = Append(@, c)]
        /\ UNCHANGED <<inbox, executed>>
    BY <1>12 DEF Write, serverVars
  <2>2. written'[g] = written[g]
    BY <1>1, <1>12, <2>1
  <2> QED
    BY <1>4, <1>12, <2>1, <2>2
<1>13. CASE Still(g)
  <2>1. wire'[g] = wire[g]
    BY <1>13 DEF Still
  <2>2. \/ \E h \in Host, u \in Target : Execute(h, u)
        \/ \E h \in Host : Receive(h)
        \/ \E c \in Call : Write(c)
        \/ UNCHANGED <<inbox, executed, written>>
    <3>1. ASSUME NEW c \in Call,
                 \/ Begin(c) \/ RegisterSupervisor(c) \/ NameSupervisor(c)
                 \/ PutFuture(c) \/ Return(c) \/ TimeOut(c)
          PROVE  UNCHANGED <<inbox, executed, written>>
      BY <3>1 DEF Begin, RegisterSupervisor, NameSupervisor, PutFuture, Return,
                  TimeOut, serverVars
    <3>2. ASSUME NEW h \in Host,
                 \/ Connect(h) \/ Disconnect(h) \/ Reconnect(h) \/ Reject(h)
                 \/ Choke(h)
          PROVE  UNCHANGED <<inbox, executed, written>>
      BY <3>2 DEF Connect, Disconnect, Reconnect, Reject, Choke, serverVars
    <3>3. ASSUME NEW h \in Host,
                 Answer(h) \/ GiveUp(h) \/ Success(h) \/ Report(h) \/ Failure(h)
          PROVE  UNCHANGED <<inbox, executed, written>>
      BY <3>3 DEF Answer, GiveUp, WriteReply, Success, Report, Failure, Finish,
                  serverVars
    <3>4. CASE UNCHANGED vars \/ LinkStep
      BY <3>4 DEF vars, LinkStep, Unlink, Link, serverVars
    <3> QED
      BY <3>1, <3>2, <3>3, <3>4 DEF Next, CallerStep, LinkStep
  <2>3. UNCHANGED <<inbox, executed, written>> => Same
    BY <1>4, <2>1
  <2> QED
    BY <1>6, <1>7, <1>10, <1>11, <1>12, <2>1, <2>2, <2>3
<1> QED
  BY <1>6, <1>7, <1>8, <1>9, <1>13, StepsAt

\* What the actor of t has seen is a sequence of calls.
LEMMA SeenTypes ==
  ASSUME TypeOK, NEW g \in Host, NEW t \in Target
  PROVE  /\ Seen(g, t) \in Seq(Call)
         /\ DOMAIN Seen(g, t) = 1 .. Len(Seen(g, t)) /\ Len(Seen(g, t)) \in Nat
<1>1. /\ wire[g] \in Seq(Call) /\ inbox[g][t] \in Seq(Call)
      /\ executed[g][t] \in Seq(Call)
  BY DEF TypeOK
<1>2. Seen(g, t) \in Seq(Call)
  BY <1>1, ConcatProperties DEF Seen
<1> QED
  BY <1>2, LenProperties

LEMMA BegottenStep ==
  ASSUME TypeOK, [Next]_vars, NEW g \in Host
  PROVE  Begotten(g) \subseteq Begotten(g)'
<1>1. \A c \in Begotten(g) : c \in CallsOf(g) /\ stage'[c] \in {"waiting", "done"}
  BY StagesForward DEF Begotten, CallsOf
<1> QED
  BY <1>1 DEF Begotten, CallsOf, HostFor

LEMMA ArrivalsStep ==
  IInv /\ Delivery /\ Arrivals /\ InOrder /\ [Next]_vars => Arrivals' /\ InOrder'
<1> SUFFICES ASSUME IInv, Delivery, Arrivals, InOrder, [Next]_vars
             PROVE  Arrivals' /\ InOrder'
  OBVIOUS
<1> DEFINE Whole(g, t) ==
             \A k \in DOMAIN written[g] :
               TargetFor(written[g][k]) = t =>
                 \E i \in DOMAIN Seen(g, t) : Seen(g, t)[i] = written[g][k]
           Whole1(g, t) ==
             \A k \in DOMAIN written'[g] :
               TargetFor(written'[g][k]) = t =>
                 \E i \in DOMAIN Seen(g, t)' : Seen(g, t)'[i] = written'[g][k]
<1>1. TypeOK /\ TypeOK'
  BY TypeStep DEF IInv
<1>2. \A g \in Host, t \in Target :
        /\ OrderedBy(Seen(g, t), written[g])
        /\ connection[g] = "open" => Whole(g, t)
  BY DEF InOrder, OrderedBy, Seen
<1>3. ASSUME \A g \in Host, t \in Target :
               /\ OrderedBy(Seen(g, t)', written'[g])
               /\ connection'[g] = "open" => Whole1(g, t)
      PROVE  InOrder'
  BY <1>3 DEF InOrder, OrderedBy, Follows, Seen, TargetFor
<1> HIDE DEF Whole, Whole1
<1>4. ASSUME NEW g \in Host, connection[g] = "none" PROVE written[g] = <<>>
  <2>1. Begotten(g) = {}
    BY <1>4 DEF Delivery, Lifecycle, Begotten, CallsOf
  <2>2. written[g] \in Seq({})
    BY <2>1 DEF Arrivals
  <2> QED
    BY <2>2, LenProperties, ElementOfSeq, EmptySeq
<1>5. ASSUME NEW g \in Host, NEW c \in Call, Write(c), HostFor(c) = g
      PROVE  /\ \A k \in DOMAIN written[g] : written[g][k] # c
             /\ c \in Begotten(g)'
  <2>1. stage[c] \in {"ready", "put"} /\ stage'[c] \in {"waiting", "done"}
    BY <1>1, <1>5, WriteMoves
  <2>2. c \notin Begotten(g)
    BY <2>1 DEF Begotten
  <2>3. \A k \in DOMAIN written[g] : written[g][k] \in Begotten(g)
    BY LenProperties, ElementOfSeq DEF Arrivals
  <2>4. c \in Begotten(g)'
    BY <1>5, <2>1 DEF Begotten, CallsOf, HostFor
  <2> QED
    BY <2>2, <2>3, <2>4
<1>6. ASSUME NEW g \in Host PROVE written'[g] \in Seq(Begotten(g)')
  <2>1. written[g] \in Seq(Begotten(g)')
    BY <1>1, BegottenStep, Wider DEF Arrivals
  <2>2. \/ written'[g] = written[g]
        \/ \E c \in Call : /\ Write(c) /\ HostFor(c) = g
                           /\ written'[g] = Append(written[g], c)
    <3>1. written \in [Host -> Seq(Call)]
      BY <1>1 DEF TypeOK
    <3>2. \/ UNCHANGED written
          \/ \E c \in Call : /\ Write(c)
                             /\ written' = [written EXCEPT ![HostFor(c)] = Append(@, c)]
      BY WrittenStep
    <3> QED
      BY <3>1, <3>2
  <2>3. ASSUME NEW c \in Call, Write(c), HostFor(c) = g,
               written'[g] = Append(written[g], c)
        PROVE  written'[g] \in Seq(Begotten(g)')
    <3>1. c \in Begotten(g)'
      BY <1>5, <2>3
    <3> QED
      BY <2>1, <2>3, <3>1, AppendProperties
  <2> QED
    BY <2>1, <2>2, <2>3
<1>7. ASSUME NEW g \in Host, NEW t \in Target
      PROVE  /\ Within(Seen(g, t)', written'[g])
             /\ OrderedBy(Seen(g, t)', written'[g])
             /\ connection'[g] = "open" => Whole1(g, t)
  <2> DEFINE Goal == /\ Within(Seen(g, t)', written'[g])
                     /\ OrderedBy(Seen(g, t)', written'[g])
                     /\ connection'[g] = "open" => Whole1(g, t)
  <2>1. /\ Within(Seen(g, t), written[g]) /\ OrderedBy(Seen(g, t), written[g])
        /\ connection[g] = "open" => Whole(g, t)
    BY <1>2 DEF Arrivals
  <2>2. connection'[g] = "open" => connection[g] \in {"open", "none"}
    BY <1>1, ConnectionStep DEF Connect
  <2>3. /\ Seen(g, t) \in Seq(Call) /\ written[g] \in Seq(Call)
        /\ DOMAIN Seen(g, t)' = 1 .. Len(Seen(g, t)') /\ Len(Seen(g, t)') \in Nat
    <3>1. Seen(g, t) \in Seq(Call)
      BY <1>1, SeenTypes
    <3>2. (TypeOK => /\ DOMAIN Seen(g, t) = 1 .. Len(Seen(g, t))
                     /\ Len(Seen(g, t)) \in Nat)'
      BY SeenTypes, PTL
    <3> QED
      BY <1>1, <3>1, <3>2 DEF TypeOK
  <2>4. connection[g] = "none" => Whole(g, t)
    BY <1>4 DEF Whole
  <2>5. CASE written'[g] = written[g] /\ Seen(g, t)' = Seen(g, t)
    BY <2>1, <2>2, <2>4, <2>5 DEF Whole, Whole1
  <2>6. ASSUME NEW c \in Call, Write(c), HostFor(c) = g, connection[g] = "open",
               written'[g] = Append(written[g], c),
               Seen(g, t)' = Append(Seen(g, t), c)
        PROVE  Goal
    <3>1. \A k \in DOMAIN written[g] : written[g][k] # c
      BY <1>5, <2>6
    <3>2. Within(Seen(g, t)', written'[g]) /\ OrderedBy(Seen(g, t)', written'[g])
      BY <2>1, <2>3, <2>6, <3>1, OrderedAppend
    <3>3. /\ \A k \in DOMAIN written'[g] :
               \/ k \in DOMAIN written[g] /\ written'[g][k] = written[g][k]
               \/ written'[g][k] = c
          /\ \A i \in DOMAIN Seen(g, t) :
               i \in DOMAIN Seen(g, t)' /\ Seen(g, t)'[i] = Seen(g, t)[i]
          /\ \E i \in DOMAIN Seen(g, t)' : Seen(g, t)'[i] = c
      BY <2>3, <2>6, Grown
    <3>4. Whole1(g, t)
      BY <2>1, <2>6, <3>3 DEF Whole, Whole1
    <3> QED
      BY <3>2, <3>4
  <2>7. CASE /\ Receive(g) /\ TargetFor(Head(wire[g])) # t
             /\ written'[g] = written[g] /\ Thinned(Seen(g, t)', Seen(g, t))
             /\ AllBut(Seen(g, t)', Seen(g, t), Head(wire[g]))
    <3>1. Within(Seen(g, t)', written'[g]) /\ OrderedBy(Seen(g, t)', written'[g])
      BY <2>1, <2>3, <2>7, OrderedThinned
    <3>2. \A i \in DOMAIN Seen(g, t) :
            TargetFor(Seen(g, t)[i]) = t =>
              \E j \in DOMAIN Seen(g, t)' : Seen(g, t)'[j] = Seen(g, t)[i]
      BY <2>7 DEF AllBut
    <3>3. connection'[g] = "open" => Whole1(g, t)
      BY <2>1, <2>2, <2>4, <2>7, <3>2 DEF Whole, Whole1
    <3> QED
      BY <3>1, <3>3
  <2>8. CASE /\ CutStep(g)
             /\ written'[g] = written[g] /\ Thinned(Seen(g, t)', Seen(g, t))
    <3>1. Within(Seen(g, t)', written'[g]) /\ OrderedBy(Seen(g, t)', written'[g])
      BY <2>1, <2>3, <2>8, OrderedThinned
    <3>2. connection'[g] # "open"
      BY <1>1, <2>8, ConnectionStep
    <3> QED
      BY <3>1, <3>2
  <2> QED
    BY <1>1, <2>5, <2>6, <2>7, <2>8, SeenStep
<1>8. Arrivals'
  BY <1>6, <1>7 DEF Arrivals
<1> QED
  BY <1>3, <1>7, <1>8

------------------------------------------------------------------------------
LEMMA InitDelivery == Init => DInv
<1> SUFFICES ASSUME Init PROVE DInv
  OBVIOUS
<1>1. \A h \in Host : /\ wire[h] = <<>> /\ replies[h] = <<>> /\ written[h] = <<>>
                      /\ serving[h] = None /\ futures[h] = {}
                      /\ \A t \in Target : executed[h][t] = <<>> /\ inbox[h][t] = <<>>
                      /\ \A s \in Supervisor : supervisors[h][s] = None
  BY DEF Init
<1>2. \A c \in Call : stage[c] = "idle" /\ future[c] = "none"
  BY DEF Init
<1>3. \A h \in Host, c \in Call : ~UnderWay(h, c)
  BY <1>1, NoneAssumption DEF UnderWay, InWire, InReplies
<1>4. Delivery
  <2>1. Once
    <3>1. DOMAIN <<>> = {}
      OBVIOUS
    <3>2. \A h \in Host : DOMAIN wire[h] = {} /\ DOMAIN replies[h] = {}
      BY <1>1, <3>1, Zenon
    <3> QED
      BY <1>3, <3>2 DEF Once, UnderWay
  <2>2. Awaited
    BY <1>3 DEF Awaited
  <2>3. Lifecycle
    BY <1>2 DEF Lifecycle
  <2>4. Unfinished
    BY <1>1 DEF Unfinished
  <2> QED
    BY <2>1, <2>2, <2>3, <2>4 DEF Delivery
<1>5. Tags /\ Names /\ Handling
  <2>1. DOMAIN <<>> = {}
    OBVIOUS
  <2>2. Tags
    BY <1>1, <2>1 DEF Tags
  <2>3. Names
    BY <1>1 DEF Names, Init
  <2>4. Handling
    BY DEF Handling, Init
  <2> QED
    BY <2>2, <2>3, <2>4
<1>6. Reported /\ Accounted
  <2>1. exits = {}
    BY DEF Init
  <2> QED
    BY <1>2, <2>1 DEF Reported, Accounted
<1>7. \A h \in Host, t \in Target : Seen(h, t) = <<>>
  <2>1. <<>> \o <<>> \o <<>> = <<>>
    OBVIOUS
  <2> QED
    BY <1>1, <2>1 DEF Seen
<1>8. DOMAIN <<>> = {}
  OBVIOUS
<1>9. Arrivals
  <2>1. ASSUME NEW h \in Host PROVE written[h] \in Seq(Begotten(h))
    <3> PICK B : B = Begotten(h)
      OBVIOUS
    <3>1. <<>> \in Seq(B)
      BY EmptySeq
    <3> QED
      BY <1>1, <3>1
  <2>2. \A h \in Host, t \in Target : Within(Seen(h, t), written[h])
    BY <1>7, <1>8 DEF Within
  <2> QED
    BY <2>1, <2>2 DEF Arrivals
<1>10. InOrder
  BY <1>1, <1>7, <1>8 DEF InOrder, Seen
<1> QED
  BY <1>4, <1>5, <1>6, <1>9, <1>10, InitInv DEF DInv

LEMMA NextDelivery == DInv /\ [Next]_vars => DInv'
  BY TypeStep, IdsDifferStep, RegisteredStep, OnItsChannelStep, OwnReplyStep,
     DeliveryStep, TagsStep, NamesStep, HandlingStep, ReportedStep, AccountedStep, ArrivalsStep
  DEF DInv, IInv

LEMMA Delivered == Spec => []DInv
  BY InitDelivery, NextDelivery, PTL DEF Spec

\* A reply that reaches its client finds the one future that has its id, and it is
\* the future of its own call (RemoteClient.scala:163), although timeouts leave
\* futures behind, connections close, and the ids of the hosts are the same.
THEOREM RepliesFindTheirFuture == Spec => []ReplyFindsFuture
<1>1. DInv => ReplyFindsFuture
  BY RepliesFind DEF DInv
<1> QED
  BY <1>1, Delivered, PTL

\* While the channel is open no call whose future is open is lost, by the client or
\* by the server.
THEOREM NoCallIsLost == Spec => []Accounted
<1>1. DInv => Accounted
  BY DEF DInv
<1> QED
  BY <1>1, Delivered, PTL

\* An instance executes the requests of its channel in the order in which they were
\* written, none twice, and none left out while the channel is open.
THEOREM RequestsInOrder == Spec => []InOrder
<1>1. DInv => InOrder
  BY DEF DInv
<1> QED
  BY <1>1, Delivered, PTL

\* Every call that named a supervisor and threw at the server is reported, once, and
\* before its caller learns of it; who is told, and who was named, are supervisors
\* that the registered actor has or had.
THEOREM FailuresAreReported == Spec => []Reported
<1>1. DInv => Reported
  BY DEF DInv
<1> QED
  BY <1>1, Delivered, PTL

================================================================================
