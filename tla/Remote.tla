-------------------------------- MODULE Remote --------------------------------
(***************************************************************************)
(* Calls to remote actors: RemoteClient, RemoteServer, and the part of     *)
(* Actor that builds a request.                                            *)
(*                                                                         *)
(* Every host has one client of the server, with one connection, its own   *)
(* request ids, futures and registered supervisors.  The server keeps a    *)
(* handler per channel, with the actors that the channel has asked for;    *)
(* one worker thread reads a channel and waits in `actor !! message' until *)
(* the actor has answered.  TCP keeps both directions in order; a channel  *)
(* that closes loses any suffix of what is under way.                      *)
(*                                                                         *)
(* An operator whose comment begins with `Mutant' is not part of the       *)
(* model: it is a mistake that the properties are shown to detect.         *)
(***************************************************************************)
EXTENDS Naturals, Sequences

CONSTANTS
  Host,          \* virtual machines with a client of the server
  Call,          \* the calls of the model, each made by a thread of its own
  Proxy,         \* the local actors that are remote: makeRemote was called
  Target,        \* actor classes: what the server looks an actor up by
  Supervisor,    \* supervisors of the local actors
  HostOf,        \* HostOf[p]: the host of p
  TargetOf,      \* TargetOf[p]: the class of p
  SupervisorOf,  \* SupervisorOf[p]: the supervisor that p has at first, or None
  ProxyOf,       \* ProxyOf[c]: the actor that call c is made on
  KindOf,        \* KindOf[c]: `!', `!!' or `!?'
  MayUnlink,     \* bound of the model: the actors that may be unlinked
  MayLink,       \* bound of the model: MayLink[p] may link p when it has none
  None

ASSUME HostAssumption  == HostOf \in [Proxy -> Host]
ASSUME ClassAssumption == TargetOf \in [Proxy -> Target]
ASSUME LinkAssumption  == SupervisorOf \in [Proxy -> Supervisor \cup {None}]
ASSUME BoundAssumption == MayLink \in [Proxy -> SUBSET Supervisor]
ASSUME CallAssumption  ==
  /\ ProxyOf \in [Call -> Proxy]
  /\ KindOf \in [Call -> {"oneway", "ask", "forever"}]
ASSUME NoneAssumption  == None \notin Call \cup Proxy \cup Supervisor

VARIABLES
  connection,   \* connection[h]: the channel of RemoteClient.connection
  retry,        \* retry[h]: the timer that channelClosed starts
  nextId,       \* nextId[h]: RemoteRequestIdFactory.id
  futures,      \* futures[h]: request ids and the calls whose futures they are
  supervisors,  \* supervisors[h][s]: the actor registered for supervisor s
  stage,        \* stage[c]: how far the caller is
  id,           \* id[c]: the id of the request of c
  tag,          \* tag[c]: the supervisor named in the request of c, or None
  future,       \* future[c]: the state of the future of c
  producer,     \* producer[c]: the call whose reply completed future c
  supervisor,   \* supervisor[p]: the field `_supervisor' of p
  had,          \* ghost: had[p]: the supervisors that p has or had
  exits,        \* ghost: the Exit messages sent, with the call they are for
  wire,         \* wire[h]: the calls whose requests the server will read
  replies,      \* replies[h]: the replies that the client will read
  reporting,    \* reporting[h]: the first of them is reported, not yet completed
  serving,      \* serving[h]: the call the worker of the channel waits for
  answer,       \* answer[h]: the state of the future that it waits on
  inbox,        \* inbox[h][t]: the mailbox of the instance of t for channel h
  written,      \* ghost: written[h]: the calls in the order they were written
  executed,     \* ghost: executed[h][t]: the calls in the order they were run
  replied       \* ghost: the calls whose handler called `reply'

clientVars  == <<connection, retry, nextId, futures, supervisors>>
callerVars  == <<stage, id, tag, future, producer>>
linkVars    == <<supervisor, had>>
serverVars  == <<serving, answer, inbox, executed, replied>>
vars == <<clientVars, callerVars, linkVars, exits, wire, replies, reporting,
          written, serverVars>>

HostFor(c)   == HostOf[ProxyOf[c]]
TargetFor(c) == TargetOf[ProxyOf[c]]
CallsOf(h)   == {c \in Call : HostFor(c) = h}
TwoWay(c)    == KindOf[c] # "oneway"
Entry(i, c)  == [id |-> i, call |-> c]
Completed(c) == future[c] \in {"result", "null", "exception"}
Advance(c, next) == stage' = [stage EXCEPT ![c] = next]

Init ==
  /\ connection = [h \in Host |-> "none"]
  /\ retry = [h \in Host |-> "no"]
  /\ nextId = [h \in Host |-> 0]
  /\ futures = [h \in Host |-> {}]
  /\ supervisors = [h \in Host |-> [s \in Supervisor |-> None]]
  /\ stage = [c \in Call |-> "idle"]
  /\ id = [c \in Call |-> 0]
  /\ tag = [c \in Call |-> None]
  /\ future = [c \in Call |-> "none"]
  /\ producer = [c \in Call |-> None]
  /\ supervisor = SupervisorOf
  /\ had = [p \in Proxy |-> {SupervisorOf[p]} \ {None}]
  /\ exits = {}
  /\ wire = [h \in Host |-> <<>>]
  /\ replies = [h \in Host |-> <<>>]
  /\ reporting = [h \in Host |-> FALSE]
  /\ written = [h \in Host |-> <<>>]
  /\ serving = [h \in Host |-> None]
  /\ answer = [h \in Host |-> "none"]
  /\ inbox = [h \in Host |-> [t \in Target |-> <<>>]]
  /\ executed = [h \in Host |-> [t \in Target |-> <<>>]]
  /\ replied = {}

------------------------------------------------------------------------------
(* The caller: Actor.postMessageToMailbox[AndCreateFutureResult...] and     *)
(* RemoteClient.send                                                        *)

\* registerSupervisorAsRemoteActor holds the monitor of the actor.
Registers(p) == \E c \in Call : ProxyOf[c] = p /\ stage[c] \in {"supervised", "named"}

\* Mutant of Begin: the ids are not counted up.
BeginWithSameId(c) ==
  LET h == HostFor(c)
  IN  /\ stage[c] = "idle"
      /\ connection[h] # "none"
      /\ ~Registers(ProxyOf[c])
      /\ Advance(c, IF supervisor[ProxyOf[c]] = None THEN "ready" ELSE "supervised")
      /\ id' = [id EXCEPT ![c] = nextId[h]]
      /\ UNCHANGED <<clientVars, tag, future, producer, linkVars, exits, wire,
                     replies, reporting, written, serverVars>>

\* RemoteRequestIdFactory.nextId, and the look whether the actor has a supervisor.
\* The id is the caller's own until the future is put.
Begin(c) ==
  LET h == HostFor(c)
  IN  /\ stage[c] = "idle"
      /\ connection[h] # "none"
      /\ ~Registers(ProxyOf[c])
      /\ Advance(c, IF supervisor[ProxyOf[c]] = None THEN "ready" ELSE "supervised")
      /\ id' = [id EXCEPT ![c] = nextId[h]]
      /\ nextId' = [nextId EXCEPT ![h] = @ + 1]
      /\ UNCHANGED <<connection, retry, futures, supervisors, tag, future, producer,
                     linkVars, exits, wire, replies, reporting, written,
                     serverVars>>

\* registerSupervisorForActor: putIfAbsent keeps the actor that is there.  It
\* throws, and the call with it, when the supervisor has gone since.
RegisterSupervisor(c) ==
  LET p == ProxyOf[c]
      s == supervisor[p]
  IN  /\ stage[c] = "supervised"
      /\ \/ s = None /\ Advance(c, "done") /\ UNCHANGED supervisors
         \/ /\ s # None
            /\ Advance(c, "named")
            /\ supervisors' = [supervisors EXCEPT ![HostFor(c)][s] =
                                 IF @ = None THEN p ELSE @]
      /\ UNCHANGED <<connection, retry, nextId, futures, id, tag, future, producer,
                     linkVars, exits, wire, replies, reporting, written,
                     serverVars>>

\* `_supervisor.get.uuid' goes into the request: another look at the field, which
\* throws when there is none, and may find another supervisor.
NameSupervisor(c) ==
  LET s == supervisor[ProxyOf[c]]
  IN  /\ stage[c] = "named"
      /\ \/ s = None /\ Advance(c, "done") /\ UNCHANGED tag
         \/ s # None /\ Advance(c, "ready") /\ tag' = [tag EXCEPT ![c] = s]
      /\ UNCHANGED <<clientVars, id, future, producer, linkVars, exits, wire,
                     replies, reporting, written, serverVars>>

\* RemoteClient.clientFor creates the client for the first call, under a monitor
\* for which the others wait.  `connect' waits for the connection, and the client
\* is running even when that has failed; a channel that could not connect closes.
Connect(h) ==
  /\ connection[h] = "none"
  /\ \/ /\ connection' = [connection EXCEPT ![h] = "open"]
        /\ UNCHANGED retry
     \/ /\ connection' = [connection EXCEPT ![h] = "closed"]
        /\ retry' = [retry EXCEPT ![h] = "armed"]
  /\ UNCHANGED <<nextId, futures, supervisors, callerVars, linkVars, exits,
                 wire, replies, reporting, written, serverVars>>

\* The monitor of `futures', held from the put to the end of the write.
PutsElsewhere(c) ==
  \E d \in CallsOf(HostFor(c)) \ {c} : stage[d] = "put"

\* Mutant of PutFuture: the future is kept for the caller, and not registered.
ForgetFuture(c) ==
  /\ stage[c] = "ready" /\ TwoWay(c)
  /\ ~PutsElsewhere(c)
  /\ stage' = [stage EXCEPT ![c] = "put"]
  /\ future' = [future EXCEPT ![c] = "open"]
  /\ UNCHANGED <<clientVars, id, tag, producer, linkVars, exits, wire,
                 replies, reporting, written, serverVars>>

PutFuture(c) ==
  /\ stage[c] = "ready" /\ TwoWay(c)
  /\ ~PutsElsewhere(c)
  /\ stage' = [stage EXCEPT ![c] = "put"]
  /\ future' = [future EXCEPT ![c] = "open"]
  /\ futures' = [futures EXCEPT ![HostFor(c)] =
                   {e \in @ : e.id # id[c]} \cup {Entry(id[c], c)}]
  /\ UNCHANGED <<connection, retry, nextId, supervisors, id, tag, producer,
                 linkVars, exits, wire, replies, reporting, written,
                 serverVars>>

\* connection.getChannel.write: on a channel that is closed the write fails, and
\* nobody looks at its outcome.
Write(c) ==
  LET h == HostFor(c)
  IN  /\ stage[c] = IF TwoWay(c) THEN "put" ELSE "ready"
      /\ stage' = [stage EXCEPT ![c] = IF TwoWay(c) THEN "waiting" ELSE "done"]
      /\ IF connection[h] = "open"
         THEN /\ wire' = [wire EXCEPT ![h] = Append(@, c)]
              /\ written' = [written EXCEPT ![h] = Append(@, c)]
         ELSE UNCHANGED <<wire, written>>
      /\ UNCHANGED <<clientVars, id, tag, future, producer, linkVars, exits,
                     replies, reporting, serverVars>>

\* The call returns the result or throws the exception of its future.
Return(c) ==
  /\ stage[c] = "waiting"
  /\ Completed(c)
  /\ stage' = [stage EXCEPT ![c] = "done"]
  /\ UNCHANGED <<clientVars, id, tag, future, producer, linkVars, exits,
                 wire, replies, reporting, written, serverVars>>

\* Only `!!' gives up; its future stays registered.
TimeOut(c) ==
  /\ stage[c] = "waiting"
  /\ KindOf[c] = "ask"
  /\ stage' = [stage EXCEPT ![c] = "done"]
  /\ UNCHANGED <<clientVars, id, tag, future, producer, linkVars, exits,
                 wire, replies, reporting, written, serverVars>>

\* A supervisor unlinks the actor; `supervisors' of the client is not told.
Unlink(p) ==
  /\ p \in MayUnlink
  /\ supervisor[p] # None
  /\ supervisor' = [supervisor EXCEPT ![p] = None]
  /\ UNCHANGED <<clientVars, callerVars, had, exits, wire, replies, reporting,
                 written, serverVars>>

\* A supervisor, the same or another, links an actor that has none.  (What happens
\* between the statements of link and unlink is the subject of Supervision.)
Link(p, s) ==
  /\ s \in MayLink[p]
  /\ supervisor[p] = None
  /\ supervisor' = [supervisor EXCEPT ![p] = s]
  /\ had' = [had EXCEPT ![p] = @ \cup {s}]
  /\ UNCHANGED <<clientVars, callerVars, exits, wire, replies, reporting, written,
                 serverVars>>

------------------------------------------------------------------------------
(* The channel *)

\* The channel of h closes, at either end, and what is lost is any suffix of
\* the two directions; the reply that is being handled is not.
Cut(h, requests, answers, handled) ==
  /\ connection' = [connection EXCEPT ![h] = "closed"]
  /\ retry' = [retry EXCEPT ![h] = IF connection[h] = "open" THEN "armed" ELSE @]
  /\ \E i \in 0 .. Len(requests) :
       wire' = [wire EXCEPT ![h] = SubSeq(requests, 1, i)]
  /\ \E i \in handled .. Len(answers) :
       replies' = [replies EXCEPT ![h] = SubSeq(answers, 1, i)]

Handled(h) == IF reporting[h] THEN 1 ELSE 0

\* The network, the peer, or the ReadTimeoutHandler of the client, which closes
\* a channel on which nothing was read for a while.
Disconnect(h) ==
  /\ connection[h] = "open"
  /\ Cut(h, wire[h], replies[h], Handled(h))
  /\ UNCHANGED <<nextId, futures, supervisors, callerVars, linkVars, exits,
                 reporting, written, serverVars>>

\* Mutant of Reconnect: a new connection is used, and the requests whose futures
\* are open are written again.
ReconnectAndResend(h) ==
  LET Open(c) == future[c] = "open"
      again   == SelectSeq(written[h], Open)
  IN  /\ retry[h] = "armed"
      /\ retry' = [retry EXCEPT ![h] = "done"]
      /\ connection' = [connection EXCEPT ![h] = "open"]
      /\ wire' = [wire EXCEPT ![h] = @ \o again]
      /\ UNCHANGED <<nextId, futures, supervisors, callerVars, linkVars,
                     exits, replies, reporting, written, serverVars>>

\* The timer of channelClosed calls bootstrap.connect.  Whatever comes of that,
\* RemoteClient.connection is still the channel that was opened first.
Reconnect(h) ==
  /\ retry[h] = "armed"
  /\ retry' = [retry EXCEPT ![h] = "done"]
  /\ UNCHANGED <<connection, nextId, futures, supervisors, callerVars,
                 linkVars, exits, wire, replies, reporting, written,
                 serverVars>>

------------------------------------------------------------------------------
(* RemoteServerHandler of the channel of h *)

\* createActor or the decoding of the message throws, which the server may do for
\* any request: exceptionCaught closes the channel, and no reply is sent.
Reject(h) ==
  /\ wire[h] # <<>>
  /\ serving[h] = None
  /\ Cut(h, Tail(wire[h]), replies[h], Handled(h))
  /\ UNCHANGED <<nextId, futures, supervisors, callerVars, linkVars, exits,
                 reporting, written, serverVars>>

\* Mutant of Receive: the worker does not wait for the answer.
ReceiveNext(h) ==
  LET c == Head(wire[h])
  IN  /\ wire[h] # <<>>
      /\ wire' = [wire EXCEPT ![h] = Tail(@)]
      /\ inbox' = [inbox EXCEPT ![h][TargetFor(c)] = Append(@, c)]
      /\ IF TwoWay(c)
         THEN serving' = [serving EXCEPT ![h] = c]
         ELSE UNCHANGED serving
      /\ UNCHANGED <<clientVars, callerVars, linkVars, exits, replies,
                     reporting, written, answer, executed, replied>>

\* dispatchToActor: createActor, start, and `!' or the sending half of `!!'.  The
\* method of an active object is executed by the actor behind it in the same way.
Receive(h) ==
  LET c == Head(wire[h])
  IN  /\ wire[h] # <<>>
      /\ serving[h] = None
      /\ wire' = [wire EXCEPT ![h] = Tail(@)]
      /\ inbox' = [inbox EXCEPT ![h][TargetFor(c)] = Append(@, c)]
      /\ IF TwoWay(c)
         THEN serving' = [serving EXCEPT ![h] = c]
         ELSE UNCHANGED serving
      /\ UNCHANGED <<clientVars, callerVars, linkVars, exits, replies,
                     reporting, written, answer, executed, replied>>

\* The instance executes its next message (Mailboxes): the handler replies, ends
\* without a reply, or throws.  Only the future of that message is completed,
\* and nobody waits on it after the worker gave up.
Execute(h, t) ==
  LET c == Head(inbox[h][t])
  IN  /\ inbox[h][t] # <<>>
      /\ inbox' = [inbox EXCEPT ![h][t] = Tail(@)]
      /\ executed' = [executed EXCEPT ![h][t] = Append(@, c)]
      /\ \E outcome \in {"result", "none", "exception"} :
           /\ answer' = IF serving[h] = c
                        THEN [answer EXCEPT ![h] = outcome] ELSE answer
           /\ replied' = IF outcome = "result" /\ TwoWay(c)
                         THEN replied \cup {c} ELSE replied
      /\ UNCHANGED <<clientVars, callerVars, linkVars, exits, wire, replies,
                     reporting, written, serving>>

\* channel.write of a reply, which a closed channel drops.
WriteReply(h, status) ==
  /\ serving' = [serving EXCEPT ![h] = None]
  /\ IF connection[h] = "open"
     THEN replies' = [replies EXCEPT ![h] = Append(@,
                        [id |-> id[serving[h]], status |-> status,
                         supervisor |-> tag[serving[h]], of |-> serving[h]])]
     ELSE UNCHANGED replies
  /\ answer' = [answer EXCEPT ![h] = "none"]
  /\ UNCHANGED <<clientVars, callerVars, linkVars, exits, reporting, wire,
                 written, inbox, executed, replied>>

\* Mutant of Answer: the exception of an actor is only logged.
AnswerLogged(h) ==
  /\ serving[h] # None
  /\ answer[h] \in {"result", "exception"}
  /\ IF answer[h] = "result"
     THEN WriteReply(h, "result")
     ELSE /\ serving' = [serving EXCEPT ![h] = None]
          /\ answer' = [answer EXCEPT ![h] = "none"]
          /\ UNCHANGED <<clientVars, callerVars, linkVars, exits, wire,
                         replies, reporting, written, inbox, executed,
                         replied>>

\* `actor !! message' has returned or thrown.
Answer(h) ==
  /\ serving[h] # None
  /\ answer[h] \in {"result", "exception"}
  /\ WriteReply(h, answer[h])

\* The `!!' of the worker timed out: for an actor the reply is successful, and its
\* result is null; the method of an active object throws.
GiveUp(h) ==
  /\ serving[h] # None
  /\ answer[h] = "none"
  /\ \E status \in {"null", "exception"} : WriteReply(h, status)

------------------------------------------------------------------------------
(* RemoteClientHandler of h *)

Complete(c, status, by) ==
  /\ future' = [future EXCEPT ![c] = status]
  /\ producer' = [producer EXCEPT ![c] = by]

\* The end of messageReceived: the future is completed and forgotten.
Finish(h, c, r) ==
  /\ Complete(c, r.status, r.of)
  /\ futures' = [futures EXCEPT ![h] = @ \ {Entry(r.id, c)}]
  /\ replies' = [replies EXCEPT ![h] = Tail(@)]
  /\ UNCHANGED <<connection, retry, nextId, supervisors, stage, id, tag,
                 linkVars, wire, written, serverVars>>

\* Mutant of Success: the reply is for any call that waits.
SuccessOfAny(h) ==
  LET r == Head(replies[h])
  IN  /\ replies[h] # <<>>
      /\ r.status \in {"result", "null"}
      /\ \E e \in futures[h] : Finish(h, e.call, r)
      /\ UNCHANGED <<exits, reporting>>

Success(h) ==
  LET r == Head(replies[h])
  IN  /\ replies[h] # <<>>
      /\ r.status \in {"result", "null"}
      /\ \E c \in Call : Entry(r.id, c) \in futures[h] /\ Finish(h, c, r)
      /\ UNCHANGED <<exits, reporting>>

\* The actor registered for the supervisor that the reply names, and not the one
\* that was called, is reported to the supervisor that it has now.
Report(h) ==
  LET r == Head(replies[h])
      p == supervisors[h][r.supervisor]
  IN  /\ replies[h] # <<>>
      /\ ~reporting[h]
      /\ r.status = "exception"
      /\ r.supervisor # None
      /\ p # None
      /\ supervisor[p] # None
      /\ exits' = exits \cup {[to |-> supervisor[p], dead |-> p, for |-> r.of]}
      /\ reporting' = [reporting EXCEPT ![h] = TRUE]
      /\ UNCHANGED <<clientVars, callerVars, linkVars, wire, replies, written,
                     serverVars>>

\* Mutant of Failure: the future is completed, and no supervisor is told.
FailureWithoutExit(h) ==
  LET r == Head(replies[h])
  IN  /\ replies[h] # <<>>
      /\ r.status = "exception"
      /\ \E c \in Call : Entry(r.id, c) \in futures[h] /\ Finish(h, c, r)
      /\ reporting' = [reporting EXCEPT ![h] = FALSE]
      /\ UNCHANGED exits

\* The future is completed after the report, if the reply names a supervisor.
Failure(h) ==
  LET r == Head(replies[h])
  IN  /\ replies[h] # <<>>
      /\ r.status = "exception"
      /\ r.supervisor = None \/ reporting[h]
      /\ \E c \in Call : Entry(r.id, c) \in futures[h] /\ Finish(h, c, r)
      /\ reporting' = [reporting EXCEPT ![h] = FALSE]
      /\ UNCHANGED exits

\* messageReceived throws, and exceptionCaught closes the channel: no future has
\* the id, nobody is registered for the supervisor, the registered actor has none
\* now, its supervisor is stopped, or parseException cannot build the exception.
Choke(h) ==
  LET r == Head(replies[h])
  IN  /\ replies[h] # <<>>
      /\ \/ r.status = "exception" /\ ~reporting[h]
         \/ \A e \in futures[h] : e.id # r.id
      /\ Cut(h, wire[h], Tail(replies[h]), 0)
      /\ reporting' = [reporting EXCEPT ![h] = FALSE]
      /\ UNCHANGED <<nextId, futures, supervisors, callerVars, linkVars, exits,
                     written, serverVars>>

------------------------------------------------------------------------------
CallerStep(c) == \/ RegisterSupervisor(c) \/ NameSupervisor(c)
                 \/ PutFuture(c) \/ Write(c) \/ Return(c) \/ TimeOut(c)

Next ==
  \/ \E c \in Call : Begin(c) \/ CallerStep(c)
  \/ \E p \in Proxy : Unlink(p) \/ \E s \in Supervisor : Link(p, s)
  \/ \E h \in Host :
       \/ Connect(h) \/ Disconnect(h) \/ Reconnect(h)
       \/ Reject(h) \/ Receive(h) \/ Answer(h) \/ GiveUp(h)
       \/ Success(h) \/ Report(h) \/ Failure(h) \/ Choke(h)
       \/ \E t \in Target : Execute(h, t)

\* A thread that began a call goes on with it, and its timer fires; a monitor
\* that is released again and again is granted in the end; the I/O workers of
\* both ends run while there is something to read; the one of the server, which
\* waits in `!!', goes on at its timeout if not before, and so does the Netty timer.
\* Nothing makes a call begin, an actor finish, or a connection fail.
Fairness ==
  /\ \A c \in Call : WF_vars(CallerStep(c))
  /\ \A c \in {d \in Call : TwoWay(d)} : SF_vars(PutFuture(c))
  /\ \A h \in Host : /\ WF_vars(Reconnect(h))
                     /\ WF_vars(Reject(h) \/ Receive(h) \/ Answer(h) \/ GiveUp(h))
                     /\ WF_vars(Success(h) \/ Report(h) \/ Failure(h) \/ Choke(h))

Spec == Init /\ [][Next]_vars /\ Fairness

------------------------------------------------------------------------------
(* Properties *)

Status == {"result", "null", "exception"}
Stages == {"idle", "supervised", "named", "ready", "put", "waiting", "done"}
Reply  == [id : Nat, status : Status, supervisor : Supervisor \cup {None},
           of : Call]

\* Types, and the numbering of the requests: every id that was given out is below
\* the counter of its host (RequestReply.scala:12, RemoteClient.scala:58).
TypeOK ==
  /\ connection \in [Host -> {"none", "open", "closed"}]
  /\ retry \in [Host -> {"no", "armed", "done"}]
  /\ nextId \in [Host -> Nat]
  /\ \A c \in Call : stage[c] # "idle" => id[c] < nextId[HostFor(c)]
  /\ futures \in [Host -> SUBSET [id : Nat, call : Call]]
  /\ supervisors \in [Host -> [Supervisor -> Proxy \cup {None}]]
  /\ stage \in [Call -> Stages]
  /\ id \in [Call -> Nat]
  /\ tag \in [Call -> Supervisor \cup {None}]
  /\ future \in [Call -> {"none", "open"} \cup Status]
  /\ producer \in [Call -> Call \cup {None}]
  /\ supervisor \in [Proxy -> Supervisor \cup {None}]
  /\ had \in [Proxy -> SUBSET Supervisor]
  /\ exits \subseteq [to : Supervisor, dead : Proxy, for : Call]
  /\ wire \in [Host -> Seq(Call)]
  /\ replies \in [Host -> Seq(Reply)]
  /\ reporting \in [Host -> BOOLEAN]
  /\ written \in [Host -> Seq(Call)]
  /\ serving \in [Host -> Call \cup {None}]
  /\ answer \in [Host -> {"none", "result", "exception"}]
  /\ inbox \in [Host -> [Target -> Seq(Call)]]
  /\ executed \in [Host -> [Target -> Seq(Call)]]
  /\ replied \subseteq Call

\* A call gets the reply to its own request, although the ids of two hosts are
\* the same (the FIXME of RequestReply.scala:11) and replies arrive after the
\* timeouts; and a result that is not null was given by its handler.
OwnReply ==
  \A c \in Call : Completed(c) => /\ producer[c] = c
                                  /\ future[c] = "result" => c \in replied

\* The future is there before its reply can be (RemoteClient.scala:103 and 163),
\* and one reply at most comes for it: a reply that finds none costs the channel.
ReplyFindsFuture ==
  \A h \in Host : \A k \in DOMAIN replies[h] :
    LET r == replies[h][k]
    IN  {e \in futures[h] : e.id = r.id} = {Entry(r.id, r.of)}

\* While the channel is open, a call whose future is open is about to be written,
\* or on its way, or served, or its reply is on its way: nothing that the client
\* or the server does loses it (RemoteClient.scala:96, RemoteServer.scala:115).
Accounted ==
  \A c \in Call :
    LET h == HostFor(c)
    IN  connection[h] = "open" /\ future[c] = "open" =>
          \/ stage[c] = "put"
          \/ \E k \in DOMAIN wire[h] : wire[h][k] = c
          \/ serving[h] = c
          \/ \E k \in DOMAIN replies[h] : replies[h][k].of = c

\* d follows c in the sequence s.
Follows(s, c, d) == \E j \in DOMAIN s : \E i \in 1 .. j - 1 : s[i] = c /\ s[j] = d

\* An instance executes the requests of its channel in the order in which they
\* were written, and each once at most, timeouts and closed channels included;
\* while the channel is open none is left out (RemoteServer.scala:115).
InOrder ==
  \A h \in Host, t \in Target :
    LET seen == executed[h][t] \o inbox[h][t] \o wire[h]
    IN  /\ \A j \in DOMAIN seen : \A i \in 1 .. j - 1 :
             seen[i] # seen[j] /\ Follows(written[h], seen[i], seen[j])
        /\ connection[h] = "open" =>
             \A k \in DOMAIN written[h] :
               TargetFor(written[h][k]) = t =>
                 \E i \in DOMAIN seen : seen[i] = written[h][k]

\* A call that named a supervisor and threw at the server has been reported before
\* its caller learns of it; what was reported is so completed, or about to be; and
\* each such call is reported once.  Dead is the actor registered for the name, and
\* who is told and who was named are both supervisors that this actor has or had:
\* the same one, unless it was linked again in between (RemoteClient.scala:168-175).
Reported ==
  /\ \A c \in Call : future[c] = "exception" /\ tag[c] # None =>
       \E e \in exits : e.for = c
  /\ \A e \in exits :
       LET h == HostFor(e.for)
       IN  /\ \/ future[e.for] = "exception"
              \/ reporting[h] /\ Head(replies[h]).of = e.for
           /\ tag[e.for] # None
           /\ e.dead = supervisors[h][tag[e.for]]
           /\ {e.to, tag[e.for]} \subseteq had[e.dead]
  /\ \A e, f \in exits : e.for = f.for => e = f

\* A call that was begun and has not returned.  A `!?' that waits on a connection
\* that closed may wait for ever, and is not counted.
Pending(c) ==
  /\ stage[c] \notin {"idle", "done"}
  /\ ~ /\ KindOf[c] = "forever"
       /\ stage[c] = "waiting"
       /\ connection[HostFor(c)] = "closed"

\* Every call ends, with an answer or an exception: `!!' at its timeout at the
\* latest (Actor.scala:305), whatever happens to the connection, and `!?' because
\* the server answers at its own timeout at the latest (Actor.scala:337), unless
\* the connection closes.  No call becomes pending again, so that a time at which
\* none is pending comes again and again.
CallsReturn == []<>(\A c \in Call : ~Pending(c))

\* A client whose connection closed gets a connection again
\* (akka-reference.conf:47, the log message of RemoteClient.scala:189).
Reconnects ==
  \A h \in Host : (connection[h] = "closed") ~> (connection[h] = "open")
==============================================================================
