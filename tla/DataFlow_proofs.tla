---------------------------- MODULE DataFlow_proofs ----------------------------
(***************************************************************************)
(* Proofs about DataFlow, for any threads, variables, values and calls:    *)
(* the types, that a variable is bound once and all its readers get that   *)
(* value (SingleAssignment), and that nobody who blocks is left behind.    *)
(*                                                                         *)
(* The value: a bound variable is never bound again, so that whatever is   *)
(* on its way to a reader, in the mailbox of its Out or in its future,     *)
(* stays the value of the variable that it reads; and a thread reads one   *)
(* variable, which is known before it blocks.                              *)
(*                                                                         *)
(* The readers: a thread asks its Out only when it is in the queue, and    *)
(* nothing is taken from the queue of a variable that is not bound         *)
(* (Queued).  So an Out that finds its variable unbound is in the queue    *)
(* then, and In has the whole queue still before it (AllMinded).  A thread *)
(* that goes on before its Out has handled Get has read a bound variable   *)
(* (Asked).                                                                *)
(***************************************************************************)
EXTENDS DataFlow, SequenceTheorems, TLAPS

\* What may be in the mailbox of the Out of t.
Messages(t) ==
  IF at[t] \in Var
  THEN [type : {"set"}, value : {value[at[t]]} \cap Value] \cup {Get, Exit}
  ELSE {}

Readers(v) == {t \in Thread : at[t] = v}

\* How far a call is tells what it has got and what it is about.
Stages ==
  \A t \in Thread :
    /\ stage[t] = "take" => at[t] = None
    /\ stage[t] \in {"read", "block", "ask", "waiting"} => at[t] \in Var
    /\ stage[t] \in {"take", "read", "block", "ask", "waiting"} => got[t] = None
    /\ stage[t] = "send" =>
         /\ VarOf[t] \in Var
         /\ KindOf[t] = "copy" => got[t] \in Value
         /\ KindOf[t] \notin {"copy", "shutdown"} => ValueOf[t] \in Value
    /\ stage[t] = "offer" => VarOf[t] \in Var
    /\ KindOf[t] = "copy" => VarOf[t] \in Var
    /\ KindOf[t] = "add" => VarOf[t] \in Var

\* The queue of a variable has readers of it, and readers are told its value.
Told ==
  /\ \A v \in Var : /\ blocked[v] \in Seq(Readers(v))
                    /\ phase[v] \in {"bound", "telling"} => value[v] # None
  /\ \A t \in Thread : /\ mailbox[t] \in Seq(Messages(t))
                       /\ answer[t] # None => /\ at[t] \in Var
                                              /\ answer[t] = value[at[t]]

IInv == TypeOK /\ Stages /\ Told

LEMMA Rest ==
  ASSUME NEW S, NEW s \in Seq(S), s # <<>>
  PROVE  Tail(s) \in Seq(S) /\ Head(s) \in S
  OBVIOUS

LEMMA Wider ==
  ASSUME NEW S, NEW T, S \subseteq T, NEW s \in Seq(S)
  PROVE  s \in Seq(T)
<1>1. PICK n \in Nat : s \in [1 .. n -> S]
  BY SeqDef
<1>2. s \in [1 .. n -> T]
  BY <1>1
<1> QED
  BY <1>2, SeqDef

LEMMA InitInv == Init => IInv
<1> SUFFICES ASSUME Init PROVE IInv
  OBVIOUS
<1> USE CallsAssumption, NoneAssumption
<1>1. \A t \in Thread :
        First(t) \in {"take", "read", "send", "offer"}
  BY DEF First, Kind
<1>2. \A t \in Thread : at[t] \in Var \cup {None}
  BY DEF Init, Kind
<1>3. at \in [Thread -> Var \cup {None}]
  BY <1>2 DEF Init
<1>4. TypeOK
  BY <1>1, <1>3 DEF Init, TypeOK
<1>5. Stages
  BY DEF Init, Stages, First, Kind
<1>6. Told
  BY DEF Init, Told
<1> QED
  BY <1>4, <1>5, <1>6 DEF IInv

\* Variables that are bound stay bound, and a thread reads one variable: what was
\* right of blocked readers and of messages stays right.
LEMMA Kept ==
  ASSUME IInv,
         \A v \in Var : value'[v] = value[v] \/ value[v] = None,
         \A t \in Thread : at'[t] = at[t] \/ at[t] = None
  PROVE  /\ \A v \in Var : blocked[v] \in Seq(Readers(v)')
         /\ \A t \in Thread : mailbox[t] \in Seq(Messages(t)')
<1> USE NoneAssumption
<1>1. ASSUME NEW v \in Var PROVE blocked[v] \in Seq(Readers(v)')
  <2>1. Readers(v) \subseteq Readers(v)'
    BY DEF Readers
  <2>2. blocked[v] \in Seq(Readers(v))
    BY DEF IInv, Told
  <2> QED
    BY <2>1, <2>2, Wider
<1>2. ASSUME NEW t \in Thread PROVE mailbox[t] \in Seq(Messages(t)')
  <2>1. Messages(t) \subseteq Messages(t)'
    BY DEF Messages
  <2>2. mailbox[t] \in Seq(Messages(t))
    BY DEF IInv, Told
  <2> QED
    BY <2>1, <2>2, Wider
<1> QED
  BY <1>1, <1>2

------------------------------------------------------------------------------
(* Each step *)

\* What GotIt does to the stages, when x is a value.
LEMMA GotItKeeps ==
  ASSUME IInv, NEW t \in Thread, NEW x \in Value, GotIt(t, x), at' = at
  PROVE  /\ got' \in [Thread -> Value \cup {None}]
         /\ stage' \in [Thread -> {"take", "read", "block", "ask", "waiting",
                                   "send", "offer", "done"}]
         /\ Stages'
<1> USE NoneAssumption
<1>1. /\ got' \in [Thread -> Value \cup {None}]
      /\ stage' \in [Thread -> {"take", "read", "block", "ask", "waiting",
                                "send", "offer", "done"}]
  BY DEF GotIt, IInv, TypeOK
<1>2. got'[t] = x /\ stage'[t] \in {"send", "done"}
      /\ (stage'[t] = "send" => KindOf[t] = "copy")
  BY DEF GotIt, IInv, TypeOK
<1>3. \A u \in Thread \ {t} : got'[u] = got[u] /\ stage'[u] = stage[u]
  BY DEF GotIt, IInv, TypeOK
<1>4. Stages
  BY DEF IInv
<1>5. ASSUME NEW u \in Thread
      PROVE  /\ stage'[u] = "take" => at'[u] = None
             /\ stage'[u] \in {"read", "block", "ask", "waiting"} => at'[u] \in Var
             /\ stage'[u] \in {"take", "read", "block", "ask", "waiting"}
                  => got'[u] = None
             /\ stage'[u] = "send" =>
                  /\ VarOf[u] \in Var
                  /\ KindOf[u] = "copy" => got'[u] \in Value
                  /\ KindOf[u] \notin {"copy", "shutdown"} => ValueOf[u] \in Value
             /\ stage'[u] = "offer" => VarOf[u] \in Var
             /\ KindOf[u] = "copy" => VarOf[u] \in Var
             /\ KindOf[u] = "add" => VarOf[u] \in Var
  <2>1. CASE u = t
    BY <1>2, <1>4, <2>1 DEF Stages
  <2>2. CASE u # t
    <3>1. got'[u] = got[u] /\ stage'[u] = stage[u] /\ at'[u] = at[u]
      BY <1>3, <2>2
    <3> QED
      BY <1>4, <3>1 DEF Stages
  <2> QED
    BY <2>1, <2>2
<1>6. Stages'
  BY <1>5 DEF Stages
<1> QED
  BY <1>1, <1>6

LEMMA TakeStep == ASSUME IInv, NEW t \in Thread, Take(t) PROVE IInv'
<1> USE NoneAssumption
<1>1. Head(queue) \in Var /\ Tail(queue) \in Seq(Var)
  BY Rest DEF IInv, TypeOK, Take
<1>2. at[t] = None /\ got[t] = None
  BY DEF IInv, Stages, Take
<1>3. at' = [at EXCEPT ![t] = Head(queue)] /\ at \in [Thread -> Var \cup {None}]
  BY DEF IInv, TypeOK, Take
<1>4. \A u \in Thread : u # t => at'[u] = at[u]
  BY <1>3
<1>5. /\ value' = value /\ blocked' = blocked /\ mailbox' = mailbox
      /\ answer' = answer /\ phase' = phase
  BY DEF Take, inVars, outVars
<1>6. TypeOK'
  BY <1>1 DEF IInv, TypeOK, Take, inVars, outVars, Get, Exit
<1>7. Stages'
  BY <1>1, <1>2 DEF IInv, TypeOK, Stages, Take
<1>8. \A u \in Thread : at'[u] = at[u] \/ at[u] = None
  BY <1>2, <1>4
<1>9. /\ \A v \in Var : blocked[v] \in Seq(Readers(v)')
      /\ \A u \in Thread : mailbox[u] \in Seq(Messages(u)')
  BY <1>5, <1>8, Kept
<1>10. Told'
  BY <1>2, <1>4, <1>5, <1>9 DEF IInv, Told
<1> QED
  BY <1>6, <1>7, <1>10 DEF IInv

\* A step that leaves values, queues, mailboxes and answers alone.
LEMMA ToldKept ==
  ASSUME Told, UNCHANGED <<value, phase, blocked, mailbox, answer, at>>
  PROVE  Told'
<1>1. \A v \in Var : Readers(v)' = Readers(v)
  BY DEF Readers
<1>2. \A t \in Thread : Messages(t)' = Messages(t)
  BY DEF Messages
<1> QED
  BY <1>1, <1>2 DEF Told

LEMMA SendStep == ASSUME IInv, NEW t \in Thread, Send(t) PROVE IInv'
<1> USE NoneAssumption
<1> DEFINE x == IF KindOf[t] = "copy" THEN got[t] ELSE ValueOf[t]
           m == IF KindOf[t] = "shutdown" THEN Exit ELSE Set(x)
           Mail == [type : {"set"}, value : Value] \cup {Exit}
<1>1. VarOf[t] \in Var /\ m \in Mail
  <2>1. KindOf[t] # "shutdown" => x \in Value
    BY DEF IInv, Stages, Send
  <2> QED
    BY <2>1 DEF IInv, Stages, Send, Set
<1>2. inbox' = [inbox EXCEPT ![VarOf[t]] = Append(@, m)]
  BY DEF Send
<1>3. inbox' \in [Var -> Seq(Mail)]
  <2> HIDE DEF m
  <2>1. inbox \in [Var -> Seq(Mail)]
    BY DEF IInv, TypeOK
  <2>2. Append(inbox[VarOf[t]], m) \in Seq(Mail)
    BY <1>1, <2>1
  <2> QED
    BY <1>2, <2>1, <2>2
<1>4. stage' = [stage EXCEPT ![t] = IF KindOf[t] = "add" THEN "offer" ELSE "done"]
      /\ stage \in [Thread -> {"take", "read", "block", "ask", "waiting",
                               "send", "offer", "done"}]
      /\ got' = got /\ at' = at
  BY DEF IInv, TypeOK, Send
<1>5. TypeOK'
  BY <1>3, <1>4 DEF IInv, TypeOK, Send, inVars, outVars
<1>6. Stages'
  BY <1>4 DEF IInv, Stages
<1>7. Told'
  BY ToldKept DEF IInv, Send, inVars, outVars
<1> QED
  BY <1>5, <1>6, <1>7 DEF IInv

LEMMA OfferStep == ASSUME IInv, NEW t \in Thread, OfferToStream(t) PROVE IInv'
<1>1. TypeOK'
  BY DEF IInv, TypeOK, Stages, OfferToStream, inVars, outVars
<1>2. Stages'
  BY DEF IInv, TypeOK, Stages, OfferToStream
<1>3. Told'
  BY ToldKept DEF IInv, OfferToStream, inVars, outVars
<1> QED
  BY <1>1, <1>2, <1>3 DEF IInv

LEMMA LookStep == ASSUME IInv, NEW t \in Thread, Look(t) PROVE IInv'
<1> USE NoneAssumption
<1>1. at[t] \in Var /\ value[at[t]] \in Value \cup {None} /\ got[t] = None
  BY DEF IInv, TypeOK, Stages, Look
<1>2. Told'
  BY ToldKept DEF IInv, Look, inVars, outVars
<1>3. /\ got' \in [Thread -> Value \cup {None}]
      /\ stage' \in [Thread -> {"take", "read", "block", "ask", "waiting",
                                "send", "offer", "done"}]
      /\ Stages'
  <2>1. CASE value[at[t]] # None
    BY <1>1, <2>1, GotItKeeps DEF Look
  <2>2. CASE value[at[t]] = None
    <3>1. stage' = [stage EXCEPT ![t] = "block"] /\ got' = got /\ at' = at
      BY <2>2 DEF Look
    <3> QED
      BY <1>1, <3>1 DEF IInv, TypeOK, Stages
  <2> QED
    BY <2>1, <2>2
<1>4. TypeOK'
  BY <1>3 DEF IInv, TypeOK, Look, inVars, outVars
<1> QED
  BY <1>2, <1>3, <1>4 DEF IInv

LEMMA BlockStep == ASSUME IInv, NEW t \in Thread, Block(t) PROVE IInv'
<1>1. at[t] \in Var /\ t \in Readers(at[t])
  BY DEF IInv, Stages, Block, Readers
<1>2. /\ blocked' = [blocked EXCEPT ![at[t]] = Append(@, t)]
      /\ blocked \in [Var -> Seq(Thread)]
  BY DEF IInv, TypeOK, Block
<1>3. blocked' \in [Var -> Seq(Thread)]
      /\ \A v \in Var : Len(blocked'[v]) >= Len(blocked[v])
  BY <1>1, <1>2
<1>4. \A v \in Var : blocked'[v] \in Seq(Readers(v))
  BY <1>1, <1>2 DEF IInv, Told
<1>5. TypeOK'
  <2>1. \A v \in Var : phase[v] = "telling" => next[v] \in 0 .. Len(blocked'[v])
    BY <1>2, <1>3 DEF IInv, TypeOK
  <2> QED
    BY <1>3, <2>1 DEF IInv, TypeOK, Block, inVars, outVars
<1>6. Stages'
  BY DEF IInv, TypeOK, Stages, Block
<1>7. Told'
  <2>1. /\ value' = value /\ phase' = phase /\ mailbox' = mailbox
        /\ answer' = answer /\ at' = at
    BY DEF Block, inVars, outVars
  <2>2. \A v \in Var : Readers(v)' = Readers(v)
    BY <2>1 DEF Readers
  <2>3. \A u \in Thread : Messages(u)' = Messages(u)
    BY <2>1 DEF Messages
  <2> QED
    BY <1>4, <2>1, <2>2, <2>3 DEF IInv, Told
<1> QED
  BY <1>5, <1>6, <1>7 DEF IInv

\* What may be added to the mailbox of the Out of one thread.
LEMMA MailboxGrows ==
  ASSUME IInv, NEW t \in Thread, NEW m \in Messages(t),
         mailbox' = [mailbox EXCEPT ![t] = Append(@, m)],
         UNCHANGED <<value, phase, blocked, answer, at>>
  PROVE  /\ mailbox' \in
              [Thread -> Seq([type : {"set"}, value : Value] \cup {Get, Exit})]
         /\ Told'
<1> DEFINE Mail == [type : {"set"}, value : Value] \cup {Get, Exit}
<1>1. m \in Mail
  BY DEF Messages
<1>2. mailbox \in [Thread -> Seq(Mail)]
  BY DEF IInv, TypeOK
<1>3. mailbox' \in [Thread -> Seq(Mail)]
  <2> HIDE DEF Mail
  <2> QED
    BY <1>1, <1>2
<1>4. \A u \in Thread : mailbox'[u] \in Seq(Messages(u))
  <2>1. \A u \in Thread : mailbox[u] \in Seq(Messages(u))
    BY DEF IInv, Told
  <2>2. Append(mailbox[t], m) \in Seq(Messages(t))
    BY <2>1
  <2> QED
    BY <1>2, <2>1, <2>2
<1>5. \A v \in Var : Readers(v)' = Readers(v)
  BY DEF Readers
<1>6. \A u \in Thread : Messages(u)' = Messages(u)
  BY DEF Messages
<1>7. Told'
  BY <1>4, <1>5, <1>6 DEF IInv, Told
<1> QED
  BY <1>3, <1>7

LEMMA AskStep == ASSUME IInv, NEW t \in Thread, Ask(t) PROVE IInv'
<1>1. Get \in Messages(t)
  BY DEF IInv, Stages, Ask, Messages
<1>2. /\ mailbox' \in
           [Thread -> Seq([type : {"set"}, value : Value] \cup {Get, Exit})]
      /\ Told'
  BY <1>1, MailboxGrows DEF Ask, inVars, outVars
<1>3. TypeOK'
  BY <1>2 DEF IInv, TypeOK, Ask, inVars, outVars
<1>4. Stages'
  BY DEF IInv, TypeOK, Stages, Ask
<1> QED
  BY <1>2, <1>3, <1>4 DEF IInv

LEMMA ResumeStep == ASSUME IInv, NEW t \in Thread, Resume(t) PROVE IInv'
<1>1. Exit \in Messages(t) /\ answer[t] \in Value
  BY DEF IInv, TypeOK, Stages, Resume, Messages
<1>2. /\ mailbox' \in
           [Thread -> Seq([type : {"set"}, value : Value] \cup {Get, Exit})]
      /\ Told'
  BY <1>1, MailboxGrows DEF Resume, inVars, outVars
<1>3. /\ got' \in [Thread -> Value \cup {None}]
      /\ stage' \in [Thread -> {"take", "read", "block", "ask", "waiting",
                                "send", "offer", "done"}]
      /\ Stages'
  BY <1>1, GotItKeeps DEF Resume
<1>4. TypeOK'
  BY <1>2, <1>3 DEF IInv, TypeOK, Resume, inVars, outVars
<1> QED
  BY <1>2, <1>3, <1>4 DEF IInv

LEMMA BindStep == ASSUME IInv, NEW v \in Var, Bind(v) PROVE IInv'
<1> USE NoneAssumption
<1> DEFINE Mail == [type : {"set"}, value : Value] \cup {Exit}
<1>1. inbox \in [Var -> Seq(Mail)]
  BY DEF IInv, TypeOK
<1>2. Head(inbox[v]) \in Mail /\ inbox' \in [Var -> Seq(Mail)]
  <2> HIDE DEF Mail
  <2>1. inbox[v] \in Seq(Mail) /\ inbox[v] # <<>>
    BY <1>1 DEF Bind
  <2>2. Tail(inbox[v]) \in Seq(Mail) /\ Head(inbox[v]) \in Mail
    BY <2>1, Rest
  <2> QED
    BY <1>1, <2>2 DEF Bind
<1>3. Head(inbox[v]).type = "set" => Head(inbox[v]).value \in Value
  BY <1>2 DEF Exit
<1>4. /\ value' \in [Var -> Value \cup {None}]
      /\ phase' \in [Var -> {"ready", "bound", "telling", "dead"}]
      /\ \A w \in Var : value'[w] = value[w] \/ value[w] = None
      /\ \A w \in Var : phase'[w] = "telling" => phase[w] = "telling"
      /\ \A w \in Var : phase'[w] \in {"bound", "telling"} => value'[w] # None
  <2>1. /\ value \in [Var -> Value \cup {None}]
        /\ phase \in [Var -> {"ready", "bound", "telling", "dead"}]
        /\ \A w \in Var : phase[w] \in {"bound", "telling"} => value[w] # None
    BY DEF IInv, TypeOK, Told
  <2>2. CASE Head(inbox[v]).type = "set" /\ value[v] = None
    BY <1>3, <2>1, <2>2 DEF Bind
  <2>3. CASE ~(Head(inbox[v]).type = "set" /\ value[v] = None)
    <3>1. value' = value /\ phase' = [phase EXCEPT ![v] = "dead"]
      BY <2>3 DEF Bind
    <3> QED
      BY <2>1, <3>1
  <2> QED
    BY <2>2, <2>3
<1>5. /\ next' = next /\ blocked' = blocked /\ mailbox' = mailbox
      /\ stage' = stage /\ at' = at /\ got' = got
      /\ reader' = reader /\ answer' = answer /\ gone' = gone /\ queue' = queue
  BY DEF Bind, threadVars, outVars
<1>6. TypeOK'
  BY <1>2, <1>4, <1>5 DEF IInv, TypeOK, Get, Exit
<1>7. Stages'
  BY <1>5 DEF IInv, Stages
<1>8. /\ \A w \in Var : blocked[w] \in Seq(Readers(w)')
      /\ \A t \in Thread : mailbox[t] \in Seq(Messages(t)')
  BY <1>4, <1>5, Kept
<1>9. \A t \in Thread : answer'[t] # None => /\ at'[t] \in Var
                                            /\ answer'[t] = value'[at'[t]]
  BY <1>4, <1>5 DEF IInv, Told
<1>10. Told'
  BY <1>4, <1>5, <1>8, <1>9 DEF Told
<1> QED
  BY <1>6, <1>7, <1>10 DEF IInv

LEMMA IterateStep == ASSUME IInv, NEW v \in Var, Iterate(v) PROVE IInv'
<1>1. /\ blocked \in [Var -> Seq(Thread)] /\ next \in [Var -> Nat]
      /\ phase \in [Var -> {"ready", "bound", "telling", "dead"}]
  BY DEF IInv, TypeOK
<1>2. After(v, 1) \in 0 .. Len(blocked[v])
  BY <1>1 DEF After
<1>3. /\ next' \in [Var -> Nat]
      /\ phase' \in [Var -> {"ready", "bound", "telling", "dead"}]
      /\ \A w \in Var : phase'[w] = "telling" => next'[w] \in 0 .. Len(blocked[w])
  BY <1>1, <1>2 DEF IInv, TypeOK, Iterate
<1>4. TypeOK'
  BY <1>3 DEF IInv, TypeOK, Iterate, threadVars, outVars
<1>5. Stages'
  BY DEF IInv, Stages, Iterate, threadVars
<1>6. \A w \in Var : Readers(w)' = Readers(w)
  BY DEF Readers, Iterate, threadVars
<1>7. \A t \in Thread : Messages(t)' = Messages(t)
  BY DEF Messages, Iterate, threadVars
<1>8. Told'
  BY <1>1, <1>6, <1>7 DEF IInv, Told, Iterate, threadVars, outVars
<1> QED
  BY <1>4, <1>5, <1>8 DEF IInv

LEMMA TellStep == ASSUME IInv, NEW v \in Var, Tell(v) PROVE IInv'
<1> DEFINE t == blocked[v][next[v]]
<1>1. /\ blocked \in [Var -> Seq(Thread)] /\ next \in [Var -> Nat]
      /\ next[v] \in 1 .. Len(blocked[v])
  BY DEF IInv, TypeOK, Tell
<1>2. t \in Readers(v)
  <2>1. blocked[v] \in Seq(Readers(v))
    BY DEF IInv, Told
  <2> QED
    BY <1>1, <2>1, ElementOfSeq
<1>3. value[v] \in Value
  BY DEF IInv, TypeOK, Told, Tell
<1>4. t \in Thread /\ Set(value[v]) \in Messages(t)
  BY <1>2, <1>3 DEF Readers, Messages, Set
<1>5. /\ mailbox' \in
           [Thread -> Seq([type : {"set"}, value : Value] \cup {Get, Exit})]
      /\ Told'
  <2>1. mailbox' = [mailbox EXCEPT ![t] = Append(@, Set(value[v]))]
    BY DEF Tell
  <2>2. UNCHANGED <<value, phase, blocked, answer, at>>
    BY DEF Tell, threadVars, outVars
  <2> HIDE DEF t
  <2> QED
    BY <1>4, <2>1, <2>2, MailboxGrows
<1>6. /\ next' \in [Var -> Nat]
      /\ \A w \in Var : phase[w] = "telling" => next'[w] \in 0 .. Len(blocked[w])
  <2>1. After(v, next[v] + 1) \in 0 .. Len(blocked[v])
    BY <1>1 DEF After
  <2> QED
    BY <1>1, <2>1 DEF IInv, TypeOK, Tell
<1>7. TypeOK'
  BY <1>5, <1>6 DEF IInv, TypeOK, Tell, threadVars, outVars
<1>8. Stages'
  BY DEF IInv, Stages, Tell, threadVars
<1> QED
  BY <1>5, <1>7, <1>8 DEF IInv

LEMMA ClearStep == ASSUME IInv, NEW v \in Var, Clear(v) PROVE IInv'
<1>1. /\ blocked' = [blocked EXCEPT ![v] = <<>>]
      /\ phase' = [phase EXCEPT ![v] = "ready"]
      /\ blocked \in [Var -> Seq(Thread)]
      /\ phase \in [Var -> {"ready", "bound", "telling", "dead"}]
  BY DEF IInv, TypeOK, Clear
<1>2. TypeOK'
  BY <1>1 DEF IInv, TypeOK, Clear, threadVars, outVars
<1>3. Stages'
  BY DEF IInv, Stages, Clear, threadVars
<1>4. \A w \in Var : Readers(w)' = Readers(w)
  BY DEF Readers, Clear, threadVars
<1>5. \A t \in Thread : Messages(t)' = Messages(t)
  BY DEF Messages, Clear, threadVars
<1>6. Told'
  <2>1. \A w \in Var : blocked'[w] \in Seq(Readers(w))
    BY <1>1 DEF IInv, Told
  <2> QED
    BY <1>1, <1>4, <1>5, <2>1 DEF IInv, Told, Clear, threadVars, outVars
<1> QED
  BY <1>2, <1>3, <1>6 DEF IInv

\* The Out of t takes a message that is right for t; its answer, if it gives one,
\* is the value of the variable.
LEMMA OutKeeps ==
  ASSUME IInv, NEW t \in Thread, NEW m, Takes(t, m), reader' \subseteq Thread,
         gone' \subseteq Thread,
         \/ answer' = answer
         \/ /\ value[at[t]] \in Value
            /\ answer' = [answer EXCEPT ![t] = value[at[t]]]
  PROVE  IInv'
<1> DEFINE Mail == [type : {"set"}, value : Value] \cup {Get, Exit}
<1>1. /\ mailbox \in [Thread -> Seq(Mail)] /\ mailbox[t] # <<>>
      /\ \A u \in Thread : mailbox[u] \in Seq(Messages(u))
      /\ mailbox' = [mailbox EXCEPT ![t] = Tail(@)]
  BY DEF IInv, TypeOK, Told, Takes
<1>2. mailbox' \in [Thread -> Seq(Mail)]
  <2> HIDE DEF Mail
  <2> QED
    BY <1>1, Rest
<1>3. \A u \in Thread : mailbox'[u] \in Seq(Messages(u))
  BY <1>1, Rest
<1>4. at[t] \in Var
  <2>1. Head(mailbox[t]) \in Messages(t)
    BY <1>1, Rest
  <2> QED
    BY <2>1 DEF Messages
<1>5. /\ answer' \in [Thread -> Value \cup {None}]
      /\ \A u \in Thread : answer'[u] # None => /\ at[u] \in Var
                                               /\ answer'[u] = value[at[u]]
  <2>1. /\ answer \in [Thread -> Value \cup {None}]
        /\ \A u \in Thread : answer[u] # None => /\ at[u] \in Var
                                                /\ answer[u] = value[at[u]]
    BY DEF IInv, TypeOK, Told
  <2>2. CASE answer' = answer
    BY <2>1, <2>2
  <2>3. CASE /\ value[at[t]] \in Value
             /\ answer' = [answer EXCEPT ![t] = value[at[t]]]
    <3>1. answer' \in [Thread -> Value \cup {None}]
      BY <2>1, <2>3
    <3>2. ASSUME NEW u \in Thread, answer'[u] # None
          PROVE  at[u] \in Var /\ answer'[u] = value[at[u]]
      <4>1. CASE u = t
        BY <1>4, <2>1, <2>3, <4>1
      <4>2. CASE u # t
        BY <2>1, <2>3, <3>2, <4>2
      <4> QED
        BY <4>1, <4>2
    <3> QED
      BY <3>1, <3>2
  <2> QED
    BY <2>2, <2>3
<1>6. /\ value' = value /\ phase' = phase /\ next' = next /\ blocked' = blocked
      /\ inbox' = inbox /\ stage' = stage /\ at' = at /\ got' = got
      /\ queue' = queue
  BY DEF Takes, inVars, threadVars
<1>7. TypeOK'
  BY <1>2, <1>5, <1>6 DEF IInv, TypeOK, Get, Exit
<1>8. Stages'
  BY <1>6 DEF IInv, Stages
<1>9. \A w \in Var : Readers(w)' = Readers(w)
  BY <1>6 DEF Readers
<1>10. \A u \in Thread : Messages(u)' = Messages(u)
  BY <1>6 DEF Messages
<1>11. Told'
  BY <1>3, <1>5, <1>6, <1>9, <1>10 DEF IInv, Told
<1> QED
  BY <1>7, <1>8, <1>11 DEF IInv

LEMMA OutGetStep == ASSUME IInv, NEW t \in Thread, OutGet(t) PROVE IInv'
<1>1. reader \subseteq Thread /\ gone \subseteq Thread
  BY DEF IInv, TypeOK
<1>2. Takes(t, Get) /\ mailbox[t] # <<>>
  BY DEF OutGet, Takes
<1>3. at[t] \in Var
  <2>1. Head(mailbox[t]) \in Messages(t)
    BY <1>2, Rest DEF IInv, Told
  <2> QED
    BY <2>1 DEF Messages
<1>4. value[at[t]] \in Value \cup {None}
  BY <1>3 DEF IInv, TypeOK
<1> QED
  BY <1>1, <1>2, <1>4, OutKeeps DEF OutGet

LEMMA OutSetStep == ASSUME IInv, NEW t \in Thread, OutSet(t) PROVE IInv'
<1>1. PICK x \in Value :
        /\ Takes(t, Set(x))
        /\ answer' = IF t \in reader THEN [answer EXCEPT ![t] = x] ELSE answer
        /\ UNCHANGED <<reader, gone>>
  BY DEF OutSet
<1>2. Set(x) \in Messages(t)
  BY <1>1, Rest DEF IInv, Told, Takes
<1>3. Set(x) # Get /\ Set(x) # Exit
  <2>1. Set(x).type = "set" /\ Get.type = "get" /\ Exit.type = "exit"
    BY DEF Set, Get, Exit
  <2> QED
    BY <2>1
<1>4. x = value[at[t]]
  BY <1>2, <1>3 DEF Messages, Set
<1>5. reader' \subseteq Thread /\ gone' \subseteq Thread
  BY <1>1 DEF IInv, TypeOK
<1> QED
  BY <1>1, <1>4, <1>5, OutKeeps

LEMMA OutExitStep == ASSUME IInv, NEW t \in Thread, OutExit(t) PROVE IInv'
<1>1. reader' \subseteq Thread /\ gone' \subseteq Thread
  BY DEF IInv, TypeOK, OutExit
<1> QED
  BY <1>1, OutKeeps DEF OutExit

LEMMA InvStep == IInv /\ [Next]_vars => IInv'
<1> SUFFICES ASSUME IInv, [Next]_vars PROVE IInv'
  OBVIOUS
<1>1. ASSUME NEW t \in Thread, ThreadStep(t) PROVE IInv'
  BY <1>1, TakeStep, SendStep, OfferStep, LookStep, BlockStep, AskStep, ResumeStep
     DEF ThreadStep
<1>2. ASSUME NEW t \in Thread, OutStep(t) PROVE IInv'
  BY <1>2, OutGetStep, OutSetStep, OutExitStep DEF OutStep
<1>3. ASSUME NEW v \in Var, InStep(v) PROVE IInv'
  BY <1>3, BindStep, IterateStep, TellStep, ClearStep DEF InStep
<1>4. CASE UNCHANGED vars
  <2>1. TypeOK'
    BY <1>4 DEF IInv, TypeOK, vars, inVars, threadVars, outVars
  <2>2. Stages'
    BY <1>4 DEF IInv, Stages, vars, threadVars
  <2>3. Told'
    BY <1>4, ToldKept DEF IInv, vars, inVars, threadVars, outVars
  <2> QED
    BY <2>1, <2>2, <2>3 DEF IInv
<1> QED
  BY <1>1, <1>2, <1>3, <1>4 DEF Next

LEMMA Invariance == Spec => []IInv
  BY InitInv, InvStep, PTL DEF Spec

\* Types of the variables and of the actors that wait for them, for every number
\* of threads and variables (DataFlowVariable.scala:51-82).
THEOREM TypeCorrect == Spec => []TypeOK
<1>1. IInv => TypeOK
  BY DEF IInv
<1> QED
  BY <1>1, Invariance, PTL

------------------------------------------------------------------------------
(* Nobody is left behind *)

\* The messages that the Out of t may get now: it is asked by the thread that waits
\* for its answer, or by one that has gone on because the variable is bound.
Expected(t) == {m \in Messages(t) : m = Get => \/ stage[t] = "waiting"
                                                \/ value[at[t]] # None}

Asked == \A t \in Thread : mailbox[t] \in Seq(Expected(t))

\* Before anyone is told, whoever is about to ask its Out is in the queue.
InQueue(t) == \E i \in DOMAIN blocked[at[t]] : blocked[at[t]][i] = t

Queued ==
  \A t \in Thread :
    stage[t] \in {"ask", "waiting"} /\ value[at[t]] = None => InQueue(t)

\* The Out of t has answered, has the message to answer from, or gets it.
ToBeTold(t, v, i) ==
  /\ blocked[v][i] = t
  /\ \/ value[v] = None
     \/ phase[v] = "bound"
     \/ phase[v] = "telling" /\ next[v] \in 1 .. i

Minded(t) ==
  \/ answer[t] # None
  \/ \E i \in DOMAIN mailbox[t] : mailbox[t][i] = Set(value[at[t]])
  \/ \E i \in DOMAIN blocked[at[t]] : ToBeTold(t, at[t], i)

AllMinded == \A t \in reader : at[t] \in Var /\ Minded(t)

\* Sequence x begins with the elements of s.
Longer(s, x) == \A i \in DOMAIN s : i \in DOMAIN x /\ x[i] = s[i]

LEMMA LongerSelf == ASSUME NEW s PROVE Longer(s, s)
  BY DEF Longer

LEMMA LongerAppend ==
  ASSUME NEW S, NEW s \in Seq(S), NEW e \in S
  PROVE  /\ Append(s, e) \in Seq(S)
         /\ Longer(s, Append(s, e))
         /\ \A x : x = Append(s, e) => \E i \in DOMAIN x : x[i] = e
<1> PICK x : x = Append(s, e)
  OBVIOUS
<1>1. /\ x \in Seq(S) /\ Len(x) = Len(s) + 1 /\ Len(s) \in Nat
      /\ DOMAIN s = 1 .. Len(s) /\ DOMAIN x = 1 .. Len(x)
      /\ \A i \in 1 .. Len(s) : x[i] = s[i]
      /\ x[Len(s) + 1] = e
  BY AppendProperties, LenProperties
<1>2. Longer(s, x)
  BY <1>1 DEF Longer
<1>3. Len(s) + 1 \in DOMAIN x /\ x[Len(s) + 1] = e
  BY <1>1
<1>4. \E i \in DOMAIN x : x[i] = e
  BY <1>3
<1> QED
  BY <1>1, <1>2, <1>4

\* What never goes back: values, what a thread reads, a thread that waits, and the
\* queue of a variable that is not bound.
LEMMA Forward ==
  ASSUME IInv, [Next]_vars
  PROVE  /\ \A v \in Var : value'[v] = value[v] \/ value[v] = None
         /\ \A t \in Thread : at'[t] = at[t] \/ (at[t] = None /\ stage[t] = "take")
         /\ \A t \in Thread : stage[t] = "waiting" =>
              stage'[t] = "waiting" \/ value[at[t]] # None
         /\ \A v \in Var : value[v] = None => Longer(blocked[v], blocked'[v])
<1> USE NoneAssumption
<1>1. /\ value \in [Var -> Value \cup {None}] /\ at \in [Thread -> Var \cup {None}]
      /\ blocked \in [Var -> Seq(Thread)]
  BY DEF IInv, TypeOK
<1>2. \A v \in Var : value'[v] = value[v] \/ value[v] = None
  BY <1>1 DEF Next, ThreadStep, InStep, OutStep, Take, Send, OfferToStream, Look, Block,
     Ask, Resume, Bind, Iterate, Tell, Clear, OutGet, OutSet, OutExit, Takes, vars,
     inVars, threadVars
<1>3. \A t \in Thread : at'[t] = at[t] \/ (at[t] = None /\ stage[t] = "take")
  <2>1. \A t \in Thread : stage[t] = "take" => at[t] = None
    BY DEF IInv, Stages
  <2> QED
    BY <1>1, <2>1 DEF Next, ThreadStep, InStep, OutStep, Take, Send, OfferToStream,
       Look, Block, Ask, Resume, Bind, Iterate, Tell, Clear, OutGet, OutSet, OutExit,
       Takes, vars, inVars, threadVars
<1>4. ASSUME NEW t \in Thread, stage[t] = "waiting"
      PROVE  stage'[t] = "waiting" \/ value[at[t]] # None
  <2>1. answer[t] # None => value[at[t]] # None
    BY DEF IInv, Told
  <2>2. stage \in [Thread -> {"take", "read", "block", "ask", "waiting",
                              "send", "offer", "done"}]
    BY DEF IInv, TypeOK
  <2> QED
    BY <1>4, <2>1, <2>2 DEF Next, ThreadStep, InStep, OutStep, Take, Send,
       OfferToStream, Look, Block, Ask, Resume, GotIt, Bind, Iterate, Tell, Clear,
       OutGet, OutSet, OutExit, Takes, vars, inVars, threadVars
<1>5. ASSUME NEW v \in Var, value[v] = None PROVE Longer(blocked[v], blocked'[v])
  <2>1. CASE \E t \in Thread : Block(t)
    <3>1. PICK t \in Thread : Block(t)
      BY <2>1
    <3>2. blocked'[v] = blocked[v] \/ blocked'[v] = Append(blocked[v], t)
      BY <1>1, <3>1 DEF Block
    <3>3. Longer(blocked[v], Append(blocked[v], t))
      BY <1>1, LongerAppend
    <3> QED
      BY <3>2, <3>3, LongerSelf
  <2>2. CASE \E w \in Var : Clear(w)
    <3>1. PICK w \in Var : Clear(w)
      BY <2>2
    <3>2. value[w] # None
      BY <3>1 DEF IInv, Told, Clear
    <3>3. blocked'[v] = blocked[v]
      BY <1>1, <1>5, <3>1, <3>2 DEF Clear
    <3> QED
      BY <3>3, LongerSelf
  <2>3. CASE blocked' = blocked
    BY <2>3, LongerSelf
  <2> QED
    BY <2>1, <2>2, <2>3 DEF Next, ThreadStep, InStep, OutStep, Take, Send,
       OfferToStream, Look, Ask, Resume, Bind, Iterate, Tell, OutGet, OutSet, OutExit,
       Takes, vars
<1> QED
  BY <1>2, <1>3, <1>4, <1>5

LEMMA AskedStep == ASSUME IInv, Asked, [Next]_vars PROVE Asked'
<1> USE NoneAssumption
<1>1. /\ \A v \in Var : value'[v] = value[v] \/ value[v] = None
      /\ \A t \in Thread : at'[t] = at[t] \/ at[t] = None
      /\ \A t \in Thread : stage[t] = "waiting" =>
           stage'[t] = "waiting" \/ value[at[t]] # None
  BY Forward
<1>2. ASSUME NEW t \in Thread PROVE mailbox[t] \in Seq(Expected(t)')
  <2>1. Expected(t) \subseteq Expected(t)'
    BY <1>1 DEF Expected, Messages
  <2>2. mailbox[t] \in Seq(Expected(t))
    BY DEF Asked
  <2> QED
    BY <2>1, <2>2, Wider
<1>3. mailbox \in [Thread -> Seq([type : {"set"}, value : Value] \cup {Get, Exit})]
  BY DEF IInv, TypeOK
<1>4. ASSUME NEW t \in Thread, NEW m \in Expected(t)',
             mailbox' = [mailbox EXCEPT ![t] = Append(@, m)]
      PROVE  Asked'
  <2>1. ASSUME NEW u \in Thread PROVE mailbox'[u] \in Seq(Expected(u)')
    <3>1. CASE u = t
      <4>1. Append(mailbox[t], m) \in Seq(Expected(t)')
        BY <1>2, <1>4, LongerAppend
      <4> QED
        BY <1>3, <1>4, <3>1, <4>1
    <3>2. CASE u # t
      BY <1>2, <1>3, <1>4, <3>2
    <3> QED
      BY <3>1, <3>2
  <2> QED
    BY <2>1 DEF Asked
<1>5. ASSUME NEW t \in Thread, mailbox' = [mailbox EXCEPT ![t] = Tail(@)],
             mailbox[t] # <<>>
      PROVE  Asked'
  <2>1. ASSUME NEW u \in Thread PROVE mailbox'[u] \in Seq(Expected(u)')
    <3>1. CASE u = t
      <4>1. Tail(mailbox[t]) \in Seq(Expected(t)')
        BY <1>2, <1>5, Rest
      <4> QED
        BY <1>3, <1>5, <3>1, <4>1
    <3>2. CASE u # t
      BY <1>2, <1>3, <1>5, <3>2
    <3> QED
      BY <3>1, <3>2
  <2> QED
    BY <2>1 DEF Asked
<1>6. CASE mailbox' = mailbox
  BY <1>2, <1>6 DEF Asked
<1>7. ASSUME NEW t \in Thread, Ask(t) PROVE Asked'
  <2>1. Get \in Expected(t)'
    BY <1>7 DEF IInv, TypeOK, Stages, Ask, Expected, Messages
  <2> QED
    BY <1>4, <1>7, <2>1 DEF Ask
<1>8. ASSUME NEW t \in Thread, Resume(t) PROVE Asked'
  <2>1. Exit \in Expected(t)'
    <3>1. Exit # Get
      BY DEF Exit, Get
    <3> QED
      BY <1>8, <3>1 DEF IInv, Stages, Resume, Expected, Messages
  <2> QED
    BY <1>4, <1>8, <2>1 DEF Resume
<1>9. ASSUME NEW v \in Var, Tell(v) PROVE Asked'
  <2> PICK t : t = blocked[v][next[v]]
    OBVIOUS
  <2>1. t \in Readers(v)
    BY <1>9, ElementOfSeq DEF IInv, TypeOK, Told, Tell
  <2>2. value[v] \in Value
    BY <1>9 DEF IInv, TypeOK, Told, Tell
  <2>3. UNCHANGED <<value, at>>
    BY <1>9 DEF Tell, threadVars
  <2>4. Set(value[v]) \in Expected(t)'
    BY <2>1, <2>2, <2>3 DEF Readers, Expected, Messages, Set
  <2> QED
    BY <1>4, <1>9, <2>1, <2>4 DEF Tell, Readers
<1>10. ASSUME NEW t \in Thread, OutStep(t) PROVE Asked'
  BY <1>5, <1>10 DEF OutStep, OutGet, OutSet, OutExit, Takes
<1>11. ASSUME NEW t \in Thread, ThreadStep(t) PROVE Asked'
  <2>1. CASE Take(t) \/ Send(t) \/ OfferToStream(t) \/ Look(t) \/ Block(t)
    BY <1>6, <2>1 DEF Take, Send, OfferToStream, Look, Block
  <2> QED
    BY <1>7, <1>8, <1>11, <2>1 DEF ThreadStep
<1>12. ASSUME NEW v \in Var, InStep(v) PROVE Asked'
  <2>1. CASE Bind(v) \/ Iterate(v) \/ Clear(v)
    BY <1>6, <2>1 DEF Bind, Iterate, Clear
  <2> QED
    BY <1>9, <1>12, <2>1 DEF InStep
<1>13. CASE UNCHANGED vars
  BY <1>6, <1>13 DEF vars
<1> QED
  BY <1>10, <1>11, <1>12, <1>13 DEF Next

LEMMA QueuedStep == ASSUME IInv, Queued, [Next]_vars PROVE Queued'
<1> USE NoneAssumption
<1> SUFFICES ASSUME NEW t \in Thread, stage'[t] \in {"ask", "waiting"},
                    value'[at'[t]] = None
             PROVE  InQueue(t)'
  BY DEF Queued
<1>1. /\ stage \in [Thread -> {"take", "read", "block", "ask", "waiting",
                               "send", "offer", "done"}]
      /\ blocked \in [Var -> Seq(Thread)]
  BY DEF IInv, TypeOK
<1>2. stage[t] \in {"ask", "waiting"} \/ Block(t)
  <2>1. ASSUME NEW u \in Thread, NEW to, to \notin {"ask", "waiting"},
               stage' = [stage EXCEPT ![u] = to]
        PROVE  stage[t] \in {"ask", "waiting"}
    BY <1>1, <2>1
  <2>2. ASSUME NEW u \in Thread, Take(u) \/ Send(u) \/ OfferToStream(u) \/ Look(u)
                                  \/ Resume(u)
        PROVE  \E to : to \notin {"ask", "waiting"} /\ stage' = [stage EXCEPT ![u] = to]
    BY <2>2 DEF Take, Send, OfferToStream, Look, Resume, GotIt
  <2>3. ASSUME NEW u \in Thread, Ask(u) PROVE stage[t] \in {"ask", "waiting"}
    BY <1>1, <2>3 DEF Ask
  <2>4. ASSUME NEW u \in Thread, Block(u), u # t
        PROVE  stage[t] \in {"ask", "waiting"}
    BY <1>1, <2>4 DEF Block
  <2>5. ASSUME NEW u \in Thread, OutStep(u) PROVE UNCHANGED stage
    BY <2>5 DEF OutStep, OutGet, OutSet, OutExit, Takes, threadVars
  <2>6. ASSUME NEW v \in Var, InStep(v) PROVE UNCHANGED stage
    BY <2>6 DEF InStep, Bind, Iterate, Tell, Clear, threadVars
  <2>7. CASE UNCHANGED stage
    BY <2>7
  <2> QED
    BY <2>1, <2>2, <2>3, <2>4, <2>5, <2>6, <2>7 DEF Next, ThreadStep, vars, threadVars
<1>3. CASE Block(t)
  <2>1. at[t] \in Var /\ at' = at /\ blocked'[at[t]] = Append(blocked[at[t]], t)
    BY <1>1, <1>3 DEF IInv, Stages, Block
  <2> PICK q : q = Append(blocked[at[t]], t)
    OBVIOUS
  <2>2. \E i \in DOMAIN q : q[i] = t
    BY <1>1, <2>1, LongerAppend
  <2>3. blocked'[at'[t]] = q
    BY <2>1
  <2> QED
    BY <2>2, <2>3 DEF InQueue
<1>4. CASE stage[t] \in {"ask", "waiting"}
  <2>1. at[t] \in Var /\ at'[t] = at[t]
    BY <1>4, Forward DEF IInv, Stages
  <2>2. value[at[t]] = None
    BY <2>1, Forward
  <2>3. InQueue(t) /\ Longer(blocked[at[t]], blocked'[at[t]])
    BY <1>4, <2>1, <2>2, Forward DEF Queued
  <2> QED
    BY <2>1, <2>3 DEF InQueue, Longer
<1> QED
  BY <1>2, <1>3, <1>4

\* Nothing happens to the variable that t reads, and its queue and mailbox grow.
LEMMA MindedKept ==
  ASSUME NEW t \in Thread, Minded(t), at'[t] = at[t],
         value'[at[t]] = value[at[t]], phase'[at[t]] = phase[at[t]],
         next'[at[t]] = next[at[t]], Longer(blocked[at[t]], blocked'[at[t]]),
         Longer(mailbox[t], mailbox'[t]), answer'[t] = answer[t]
  PROVE  Minded(t)'
<1> PICK v : v = at[t]
  OBVIOUS
<1>1. CASE answer[t] # None
  BY <1>1 DEF Minded
<1>2. ASSUME NEW i \in DOMAIN mailbox[t], mailbox[t][i] = Set(value[v])
      PROVE  Minded(t)'
  <2>1. i \in DOMAIN mailbox'[t] /\ mailbox'[t][i] = Set(value'[v])
    BY <1>2 DEF Longer
  <2> QED
    BY <2>1 DEF Minded
<1>3. ASSUME NEW i \in DOMAIN blocked[v], ToBeTold(t, v, i) PROVE Minded(t)'
  <2>1. i \in DOMAIN blocked'[v] /\ ToBeTold(t, v, i)'
    BY <1>3 DEF Longer, ToBeTold
  <2>2. i \in DOMAIN blocked'[at'[t]] /\ ToBeTold(t, at[t], i)' /\ at'[t] = v
    BY <2>1
  <2> QED
    BY <2>2 DEF Minded, ToBeTold
<1> QED
  BY <1>1, <1>2, <1>3 DEF Minded

LEMMA ThreadMinded ==
  ASSUME IInv, AllMinded, NEW u \in Thread, ThreadStep(u)
  PROVE  AllMinded'
<1> USE NoneAssumption
<1>1. UNCHANGED <<value, phase, next, reader, answer>>
  BY DEF ThreadStep, Take, Send, OfferToStream, Look, Block, Ask, Resume, inVars,
     outVars
<1>2. ASSUME NEW v \in Var PROVE Longer(blocked[v], blocked'[v])
  <2>1. blocked \in [Var -> Seq(Thread)]
    BY DEF IInv, TypeOK
  <2>2. blocked'[v] = blocked[v] \/ blocked'[v] = Append(blocked[v], u)
    BY <2>1 DEF ThreadStep, Take, Send, OfferToStream, Look, Block, Ask, Resume
  <2>3. Longer(blocked[v], Append(blocked[v], u))
    BY <2>1, LongerAppend
  <2> QED
    BY <2>2, <2>3, LongerSelf
<1>3. ASSUME NEW t \in Thread PROVE Longer(mailbox[t], mailbox'[t])
  <2> DEFINE Mail == [type : {"set"}, value : Value] \cup {Get, Exit}
  <2>1. mailbox \in [Thread -> Seq(Mail)] /\ Get \in Mail /\ Exit \in Mail
    BY DEF IInv, TypeOK
  <2> HIDE DEF Mail
  <2>2. \/ mailbox'[t] = mailbox[t]
        \/ mailbox'[t] = Append(mailbox[t], Get)
        \/ mailbox'[t] = Append(mailbox[t], Exit)
    BY <2>1 DEF ThreadStep, Take, Send, OfferToStream, Look, Block, Ask, Resume
  <2>3. /\ Longer(mailbox[t], Append(mailbox[t], Get))
        /\ Longer(mailbox[t], Append(mailbox[t], Exit))
    BY <2>1, LongerAppend
  <2> QED
    BY <2>2, <2>3, LongerSelf
<1>4. ASSUME NEW t \in reader PROVE at'[t] \in Var /\ Minded(t)'
  <2>1. t \in Thread /\ at[t] \in Var /\ Minded(t)
    BY DEF IInv, TypeOK, AllMinded
  <2>2. Next
    BY DEF Next
  <2>3. at'[t] = at[t]
    BY <2>1, <2>2, Forward
  <2> QED
    BY <1>1, <1>2, <1>3, <2>1, <2>3, MindedKept
<1> QED
  BY <1>1, <1>4 DEF AllMinded

LEMMA InMinded ==
  ASSUME IInv, AllMinded, NEW w \in Var, InStep(w)
  PROVE  AllMinded'
<1> USE NoneAssumption
<1>1. /\ value \in [Var -> Value \cup {None}] /\ next \in [Var -> Nat]
      /\ phase \in [Var -> {"ready", "bound", "telling", "dead"}]
      /\ blocked \in [Var -> Seq(Thread)]
      /\ phase[w] \in {"bound", "telling"} => value[w] # None
      /\ DOMAIN blocked[w] = 1 .. Len(blocked[w]) /\ Len(blocked[w]) \in Nat
  BY LenProperties DEF IInv, TypeOK, Told
<1>2. UNCHANGED <<at, reader, answer>>
  BY DEF InStep, Bind, Iterate, Tell, Clear, threadVars, outVars
<1>3. ASSUME NEW t \in Thread PROVE Longer(mailbox[t], mailbox'[t])
  <2>1. CASE mailbox' = mailbox
    BY <2>1, LongerSelf
  <2>2. CASE Tell(w)
    <3> DEFINE Mail == [type : {"set"}, value : Value] \cup {Get, Exit}
    <3>1. mailbox \in [Thread -> Seq(Mail)] /\ Set(value[w]) \in Mail
      BY <1>1, <2>2 DEF IInv, TypeOK, Tell, Set
    <3> HIDE DEF Mail
    <3>2. mailbox'[t] = mailbox[t] \/ mailbox'[t] = Append(mailbox[t], Set(value[w]))
      BY <2>2, <3>1 DEF Tell
    <3>3. Longer(mailbox[t], Append(mailbox[t], Set(value[w])))
      BY <3>1, LongerAppend
    <3> QED
      BY <3>2, <3>3, LongerSelf
  <2> QED
    BY <2>1, <2>2 DEF InStep, Bind, Iterate, Clear
<1>4. SUFFICES ASSUME NEW t \in Thread, t \in reader, at[t] \in Var, Minded(t)
               PROVE  Minded(t)'
  BY <1>2 DEF AllMinded, IInv, TypeOK
<1>5. CASE at[t] # w
  <2>1. /\ value'[at[t]] = value[at[t]] /\ phase'[at[t]] = phase[at[t]]
        /\ next'[at[t]] = next[at[t]] /\ blocked'[at[t]] = blocked[at[t]]
    BY <1>1, <1>4, <1>5 DEF InStep, Bind, Iterate, Tell, Clear
  <2> QED
    BY <1>2, <1>3, <1>4, <2>1, MindedKept, LongerSelf
<1>6. CASE at[t] = w /\ answer[t] # None
  BY <1>2, <1>6 DEF Minded
\* A message that tells a value is there only when the variable is bound.
<1>7. ASSUME at[t] = w, NEW i \in DOMAIN mailbox[t], mailbox[t][i] = Set(value[w])
      PROVE  Minded(t)'
  <2>1. value[w] \in Value
    <3>1. mailbox[t][i] \in Messages(t)
      BY ElementOfSeq, LenProperties DEF IInv, Told
    <3>2. Set(value[w]).type = "set" /\ Get.type = "get" /\ Exit.type = "exit"
      BY DEF Set, Get, Exit
    <3>3. Set(value[w]) \in [type : {"set"}, value : {value[w]} \cap Value]
      BY <1>7, <3>1, <3>2 DEF Messages
    <3> QED
      BY <3>3 DEF Set
  <2>2. value'[w] = value[w]
    BY <2>1 DEF InStep, Bind, Iterate, Tell, Clear
  <2>3. i \in DOMAIN mailbox'[t] /\ mailbox'[t][i] = Set(value'[at'[t]])
    BY <1>2, <1>3, <1>7, <2>2 DEF Longer
  <2> QED
    BY <2>3 DEF Minded
<1>8. ASSUME at[t] = w, NEW i \in DOMAIN blocked[w], ToBeTold(t, w, i)
      PROVE  Minded(t)'
  <2>1. SUFFICES \/ i \in DOMAIN blocked'[w] /\ ToBeTold(t, w, i)'
                 \/ \E j \in DOMAIN mailbox'[t] : mailbox'[t][j] = Set(value'[w])
    BY <1>2, <1>8 DEF Minded, ToBeTold
  <2>2. CASE Bind(w)
    BY <1>1, <1>8, <2>2 DEF Bind, ToBeTold
  <2>3. CASE Iterate(w)
    <3>1. After(w, 1) = 1
      BY <1>1, <1>8 DEF After
    <3> QED
      BY <1>1, <1>8, <2>3, <3>1 DEF Iterate, ToBeTold
  <2>4. CASE Tell(w)
    <3>1. /\ i \in 1 .. Len(blocked[w]) /\ blocked[w][i] = t
          /\ next[w] \in 1 .. i /\ phase' = phase /\ blocked' = blocked
          /\ value' = value /\ next' = [next EXCEPT ![w] = After(w, next[w] + 1)]
          /\ phase[w] = "telling"
      BY <1>1, <1>8, <2>4 DEF Tell, ToBeTold
    <3>2. CASE next[w] = i
      <4> DEFINE Mail == [type : {"set"}, value : Value] \cup {Get, Exit}
      <4>1. mailbox \in [Thread -> Seq(Mail)] /\ Set(value[w]) \in Mail
        BY <1>1, <2>4 DEF IInv, TypeOK, Tell, Set
      <4> HIDE DEF Mail
      <4>2. mailbox'[t] = Append(mailbox[t], Set(value[w]))
        BY <2>4, <3>1, <3>2, <4>1 DEF Tell
      <4> PICK q : q = Append(mailbox[t], Set(value[w]))
        OBVIOUS
      <4>3. \E j \in DOMAIN q : q[j] = Set(value[w])
        BY <4>1, LongerAppend
      <4> QED
        BY <3>1, <4>2, <4>3
    <3>3. CASE next[w] # i
      <4>1. next[w] + 1 \in 1 .. i /\ next[w] + 1 <= Len(blocked[w])
        BY <1>1, <3>1, <3>3
      <4>2. next'[w] = next[w] + 1
        BY <1>1, <3>1, <4>1 DEF After
      <4> QED
        BY <1>8, <3>1, <4>1, <4>2 DEF ToBeTold
    <3> QED
      BY <3>2, <3>3
  <2>5. ~Clear(w)
    BY <1>1, <1>8 DEF Clear, ToBeTold
  <2> QED
    BY <2>2, <2>3, <2>4, <2>5 DEF InStep
<1> QED
  BY <1>4, <1>5, <1>6, <1>7, <1>8 DEF Minded

LEMMA OutMinded ==
  ASSUME IInv, Asked, Queued, AllMinded, NEW u \in Thread, OutStep(u)
  PROVE  AllMinded'
<1> USE NoneAssumption
<1>1. /\ UNCHANGED <<at, value, phase, next, blocked, stage>>
      /\ mailbox' = [mailbox EXCEPT ![u] = Tail(@)] /\ mailbox[u] # <<>>
      /\ reader' = reader \/ (OutGet(u) /\ reader' = reader \cup {u})
      /\ \A t \in Thread : t # u => answer'[t] = answer[t]
  BY DEF OutStep, OutGet, OutSet, OutExit, Takes, inVars, threadVars, IInv, TypeOK
<1>2. /\ mailbox \in [Thread -> Seq([type : {"set"}, value : Value] \cup {Get, Exit})]
      /\ answer \in [Thread -> Value \cup {None}] /\ reader \subseteq Thread
  BY DEF IInv, TypeOK
<1>3. ASSUME NEW t \in Thread, t # u, t \in reader' PROVE at'[t] \in Var /\ Minded(t)'
  <2>1. t \in reader /\ at[t] \in Var /\ Minded(t)
    BY <1>1, <1>3 DEF AllMinded
  <2>2. mailbox'[t] = mailbox[t] /\ answer'[t] = answer[t]
    BY <1>1, <1>2, <1>3
  <2> QED
    BY <1>1, <2>1, <2>2, MindedKept, LongerSelf
<1>4. CASE OutGet(u)
  <2>1. Get \in Expected(u)
    BY <1>1, <1>4, Rest DEF Asked, OutGet, Takes
  <2>2. at[u] \in Var
    BY <2>1 DEF Expected, Messages
  <2>3. ASSUME value[at[u]] # None PROVE at'[u] \in Var /\ Minded(u)'
    <3>1. answer'[u] = value[at[u]] /\ answer'[u] # None
      BY <1>2, <1>4, <2>3 DEF OutGet
    <3>2. Minded(u)'
      BY <3>1 DEF Minded
    <3> QED
      BY <1>1, <2>2, <3>2
  <2>4. ASSUME value[at[u]] = None PROVE at'[u] \in Var /\ Minded(u)'
    <3> PICK v : v = at[u]
      OBVIOUS
    <3>1. stage[u] = "waiting"
      BY <2>1, <2>4 DEF Expected
    <3>2. PICK i \in DOMAIN blocked[v] : blocked[v][i] = u
      BY <2>4, <3>1 DEF Queued, InQueue
    <3>3. ToBeTold(u, v, i)' /\ i \in DOMAIN blocked'[v] /\ at'[u] = v
      BY <1>1, <2>4, <3>2 DEF ToBeTold
    <3>4. Minded(u)'
      BY <3>3 DEF Minded, ToBeTold
    <3> QED
      BY <1>1, <2>2, <3>4
  <2> QED
    BY <1>1, <1>2, <1>3, <2>3, <2>4 DEF AllMinded
<1>5. CASE OutSet(u)
  <2>1. reader' = reader /\ (u \in reader => answer'[u] # None)
    BY <1>2, <1>5 DEF OutSet
  <2> QED
    BY <1>1, <1>2, <1>3, <2>1 DEF AllMinded, Minded
<1>6. CASE OutExit(u)
  <2>1. reader' = reader /\ answer' = answer /\ Head(mailbox[u]) = Exit
    BY <1>6 DEF OutExit, Takes
  <2>2. ASSUME u \in reader PROVE Minded(u)'
    <3>1. CASE answer[u] # None
      BY <2>1, <3>1 DEF Minded
    <3>2. ASSUME NEW i \in DOMAIN mailbox[u], mailbox[u][i] = Set(value[at[u]])
          PROVE  Minded(u)'
      <4> PICK q : q = Tail(mailbox[u])
        OBVIOUS
      <4>1. /\ DOMAIN mailbox[u] = 1 .. Len(mailbox[u]) /\ Len(mailbox[u]) \in Nat
            /\ Len(q) = Len(mailbox[u]) - 1 /\ DOMAIN q = 1 .. Len(q)
            /\ \A j \in 1 .. Len(q) : q[j] = mailbox[u][j + 1]
        BY <1>1, <1>2, LenProperties, HeadTailProperties
      <4>2. i # 1
        <5>1. Head(mailbox[u]) = mailbox[u][1]
          OBVIOUS
        <5>2. Set(value[at[u]]) # Exit
          <6>1. Set(value[at[u]]).type = "set" /\ Exit.type = "exit"
            BY DEF Set, Exit
          <6> QED
            BY <6>1
        <5> QED
          BY <2>1, <3>2, <5>1, <5>2
      <4>3. i - 1 \in DOMAIN q /\ q[i - 1] = Set(value[at[u]])
        BY <3>2, <4>1, <4>2
      <4>4. mailbox'[u] = q /\ value'[at'[u]] = value[at[u]]
        BY <1>1, <1>2
      <4> QED
        BY <4>3, <4>4 DEF Minded
    <3>3. ASSUME NEW i \in DOMAIN blocked[at[u]], ToBeTold(u, at[u], i)
          PROVE  Minded(u)'
      BY <1>1, <3>3 DEF Minded, ToBeTold
    <3> QED
      BY <2>2, <3>1, <3>2, <3>3 DEF AllMinded, Minded
  <2> QED
    BY <1>1, <1>2, <1>3, <2>1, <2>2 DEF AllMinded
<1> QED
  BY <1>4, <1>5, <1>6 DEF OutStep

\* In finds in the queue, or has told, everyone whose Out has seen the variable
\* unbound, for any threads and variables: nobody falls between the look at the
\* reference and the pass through the queue (DataFlowVariable.scala:63 and 95).
THEOREM NobodyIsLeftBehind == Spec => []NoneLeftBehind
<1>1. Init => Asked /\ Queued /\ AllMinded
  <2> SUFFICES ASSUME Init PROVE Asked /\ Queued /\ AllMinded
    OBVIOUS
  <2>1. \A t \in Thread : stage[t] \notin {"ask", "waiting"}
    BY CallsAssumption DEF Init, First, Kind
  <2> QED
    BY <2>1 DEF Init, Asked, Queued, AllMinded
<1>2. /\ IInv /\ Asked /\ Queued /\ AllMinded
      /\ [Next]_vars
      => Asked' /\ Queued' /\ AllMinded'
  <2> SUFFICES ASSUME IInv, Asked, Queued, AllMinded, [Next]_vars
               PROVE  AllMinded'
    BY AskedStep, QueuedStep
  <2>1. CASE UNCHANGED vars
    <3>1. ASSUME NEW t \in reader PROVE at'[t] \in Var /\ Minded(t)'
      BY <2>1, MindedKept, LongerSelf DEF vars, inVars, threadVars, outVars, AllMinded,
         IInv, TypeOK
    <3> QED
      BY <2>1, <3>1 DEF AllMinded, vars, outVars
  <2> QED
    BY <2>1, ThreadMinded, InMinded, OutMinded DEF Next
<1>3. AllMinded => NoneLeftBehind
  BY DEF AllMinded, Minded, ToBeTold, NoneLeftBehind
<1> QED
  BY <1>1, <1>2, <1>3, Invariance, PTL DEF Spec

------------------------------------------------------------------------------
(* The refinement *)

Bar == [t \in Thread |-> IF got[t] = None THEN None ELSE <<at[t], got[t]>>]

LEMMA GotItIsRead ==
  ASSUME IInv, NEW t \in Thread, NEW x \in Value, GotIt(t, x), at' = at,
         value' = value, at[t] \in Var, x = value[at[t]], got[t] = None
  PROVE  Promise!Next
<1> USE NoneAssumption
<1>1. got' = [got EXCEPT ![t] = x] /\ got \in [Thread -> Value \cup {None}]
  BY DEF GotIt, IInv, TypeOK
<1>2. Bar' = [Bar EXCEPT ![t] = <<at[t], value[at[t]]>>]
  BY <1>1 DEF Bar
<1>3. Bar[t] = None
  BY DEF Bar
<1>4. PICK v \in Var : v = at[t]
  OBVIOUS
<1>5. Promise!Read(t, v)
  BY <1>2, <1>3, <1>4 DEF Promise!Read, Bar
<1> QED
  BY <1>5 DEF Promise!Next

LEMMA RefinementStep ==
  IInv /\ [Next]_vars => [Promise!Next]_<<value, Bar>>
<1> SUFFICES ASSUME IInv, [Next]_vars PROVE [Promise!Next]_<<value, Bar>>
  OBVIOUS
<1> USE NoneAssumption
<1>1. CASE UNCHANGED <<value, at, got>>
  BY <1>1 DEF Bar
<1>2. ASSUME NEW t \in Thread, Take(t) PROVE UNCHANGED <<value, Bar>>
  <2>1. got[t] = None
    BY <1>2 DEF IInv, Stages, Take
  <2>2. at' = [at EXCEPT ![t] = Head(queue)] /\ at \in [Thread -> Var \cup {None}]
        /\ got' = got /\ value' = value
    BY <1>2 DEF IInv, TypeOK, Take, inVars
  <2> QED
    BY <2>1, <2>2 DEF Bar
<1>3. ASSUME NEW t \in Thread, Look(t) PROVE [Promise!Next]_<<value, Bar>>
  <2>1. at[t] \in Var /\ value[at[t]] \in Value \cup {None} /\ got[t] = None
        /\ at' = at /\ value' = value
    BY <1>3 DEF IInv, TypeOK, Stages, Look, inVars
  <2>2. CASE value[at[t]] = None
    BY <1>3, <2>1, <2>2 DEF Look, Bar
  <2>3. CASE value[at[t]] # None
    BY <1>3, <2>1, <2>3, GotItIsRead DEF Look
  <2> QED
    BY <2>2, <2>3
<1>4. ASSUME NEW t \in Thread, Resume(t) PROVE Promise!Next
  <2>1. /\ at[t] \in Var /\ answer[t] \in Value /\ answer[t] = value[at[t]]
        /\ got[t] = None /\ at' = at /\ value' = value
    BY <1>4 DEF IInv, TypeOK, Stages, Told, Resume, inVars
  <2> QED
    BY <1>4, <2>1, GotItIsRead DEF Resume
<1>5. ASSUME NEW v \in Var, Bind(v) PROVE [Promise!Next]_<<value, Bar>>
  <2>1. UNCHANGED Bar
    BY <1>5 DEF Bind, Bar, threadVars
  <2>2. CASE Head(inbox[v]).type = "set" /\ value[v] = None
    <3>1. Head(inbox[v]) \in [type : {"set"}, value : Value] \cup {Exit}
      BY <1>5, Rest DEF IInv, TypeOK, Bind
    <3>2. Head(inbox[v]).value \in Value
      BY <2>2, <3>1 DEF Exit
    <3>3. Promise!Bind(v, Head(inbox[v]).value)
      BY <1>5, <2>1, <2>2 DEF Bind, Promise!Bind, Bar
    <3> QED
      BY <3>2, <3>3 DEF Promise!Next
  <2>3. CASE ~(Head(inbox[v]).type = "set" /\ value[v] = None)
    BY <1>5, <2>1, <2>3 DEF Bind
  <2> QED
    BY <2>2, <2>3
<1>6. ASSUME NEW t \in Thread,
             Send(t) \/ OfferToStream(t) \/ Block(t) \/ Ask(t) \/ OutStep(t)
      PROVE  UNCHANGED <<value, at, got>>
  BY <1>6 DEF Send, OfferToStream, Block, Ask, OutStep, OutGet, OutSet, OutExit,
              Takes, inVars, threadVars
<1>7. ASSUME NEW v \in Var, Iterate(v) \/ Tell(v) \/ Clear(v)
      PROVE  UNCHANGED <<value, at, got>>
  BY <1>7 DEF Iterate, Tell, Clear, threadVars
<1>8. CASE UNCHANGED vars
  BY <1>1, <1>8 DEF vars, inVars, threadVars
<1> QED
  BY <1>1, <1>2, <1>3, <1>4, <1>5, <1>6, <1>7, <1>8
     DEF Next, ThreadStep, InStep

\* A variable is bound once, and all who read it get that value: every behaviour
\* of the actors is one of SingleAssignment (DataFlowVariable.scala:60-101).
THEOREM VariablesKeepTheirPromise == Spec => KeepsPromise
<1>1. Init => Promise!Init
  BY DEF Init, Promise!Init
<1>2. IInv /\ [Next]_vars => [Promise!Next]_<<value, Bar>>
  BY RefinementStep
<1> QED
  BY <1>1, <1>2, Invariance, PTL DEF Spec, KeepsPromise, Promise!Spec, Bar
================================================================================
