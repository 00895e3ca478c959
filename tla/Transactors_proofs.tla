--------------------------- MODULE Transactors_proofs ---------------------------
(***************************************************************************)
(* Proofs about Transactors, for any actors, keys and bounds: the types,   *)
(* that what is undone is never stored, and that what has committed is     *)
(* stored, or waits to be.                                                 *)
(*                                                                         *)
(* The types are an invariant of their own.  The rest follows from IInv,   *)
(* one part per question:                                                  *)
(* Blocks: one transaction at most is active, that of the open block, and  *)
(* what it has changed is undone before the block is closed.               *)
(* Registered: what the block has changed, and what its commit is to       *)
(* store, is registered with it or was passed over by a racing put.        *)
(* MapInv, VectorInv and RefInv: for a structure that is not torn, the     *)
(* change sets and the storage have only what has committed, and together  *)
(* all of that; what the commit is about to empty is stored; and nothing   *)
(* waits that the commit will not come to.                                 *)
(* Cleared: a map is cleared in the storage only if it ever was cleared.   *)
(*                                                                         *)
(* The vector is the hard part: a failure, or a commit that is repeated,   *)
(* has its elements stored twice, so that all that remains is a place of   *)
(* its own for every element (Covers); before that the storage and the     *)
(* change sets are what has committed, in order (Matches).                 *)
(***************************************************************************)
EXTENDS Transactors, SequenceTheorems, FiniteSetTheorems, TLAPS

------------------------------------------------------------------------------
(* Sequences and change sets *)

LEMMA Rest ==
  ASSUME NEW S, NEW s \in Seq(S), s # <<>>
  PROVE  Tail(s) \in Seq(S) /\ Head(s) \in S
  OBVIOUS

LEMMA Wider ==
  ASSUME NEW S, NEW T, S \subseteq T, NEW s \in Seq(S)
  PROVE  s \in Seq(T)
<1>1. PICK n \in Nat : s \in [1 .. n -> S]
  BY SeqDef
<1>2. s \in [1 .. n -> T]
  BY <1>1
<1> QED
  BY <1>2, SeqDef

LEMMA Part ==
  ASSUME NEW S, NEW s \in Seq(S), NEW m \in Nat \ {0}, NEW n \in 0 .. Len(s)
  PROVE  SubSeq(s, m, n) \in Seq(S)
<1>1. \A i \in m .. n : s[i] \in S
  BY ElementOfSeq
<1> QED
  BY <1>1, SubSeqProperties

LEMMA MergeType ==
  ASSUME NEW S, NEW old \in Entries(S), NEW new \in Entries(S)
  PROVE  Merge(old, new) \in Entries(S)
  BY DEF Merge, Entries

LEMMA NoChangeType == NoChange \in Change /\ NoEntries \in Entries(Attempt \cup {Late})
<1>1. <<>> \in Seq(Attempt \cup {Late})
  OBVIOUS
<1> QED
  BY <1>1 DEF NoChange, NoEntries, Change, ChangeOf, Entries

LEMMA ApplyType ==
  ASSUME NEW old \in Change, NEW new \in Change
  PROVE  Apply(old, new) \in Change
<1> DEFINE S == Attempt \cup {Late}
<1>1. /\ old.entries \in Entries(S) /\ new.entries \in Entries(S)
      /\ old.clear \in BOOLEAN /\ new.clear \in BOOLEAN
      /\ old.elems \in Seq(S) /\ new.elems \in Seq(S)
      /\ old.ref \in S \cup {None} /\ new.ref \in S \cup {None}
  BY DEF Change, ChangeOf
<1>2. Merge(old.entries, new.entries) \in Entries(S)
  BY <1>1, MergeType
<1>3. old.elems \o new.elems \in Seq(S)
  BY <1>1, ConcatProperties
<1> HIDE DEF S
<1>4. /\ (old.clear \/ new.clear) \in BOOLEAN
      /\ (IF new.ref = None THEN old.ref ELSE new.ref) \in S \cup {None}
  BY <1>1
<1>5. Apply(old, new) \in ChangeOf(S)
  BY <1>2, <1>3, <1>4 DEF Apply, ChangeOf
<1> QED
  BY <1>5 DEF Change, S

LEMMA SetType ==
  ASSUME NEW data \in Change, NEW f, NEW new \in Change
  PROVE  Set(data, f, new) \in Change
  BY DEF Set, Change, ChangeOf

LEMMA WithoutType ==
  ASSUME NEW data \in Change, NEW fs
  PROVE  Without(data, fs) \in Change
<1>1. NoEntries \in Entries(Attempt \cup {Late}) /\ <<>> \in Seq(Attempt \cup {Late})
  BY NoChangeType
<1> QED
  BY <1>1 DEF Without, Change, ChangeOf

------------------------------------------------------------------------------
(* Types, in three parts *)

BlockTypes ==
  /\ attempt \in 0 .. MaxAttempts
  /\ tx \in [Attempt -> 0 .. MaxAttempts]
  /\ \A n \in 1 .. attempt : tx[n] \in 1 .. n
  /\ status \in [Attempt -> {"new", "active", "committed", "aborted", "abandoned"}]
  /\ members \in [Attempt -> SUBSET Structure]
  /\ root \in Phase \cup Other
  /\ root # "idle" => attempt # 0
  /\ toStore \subseteq Structure
  /\ count \in 0 .. MaxChanges
  /\ failures \in 0 .. MaxFailures
  /\ committed \subseteq 1 .. attempt
  /\ missed \subseteq Structure /\ torn \subseteq Structure
  /\ twice \in BOOLEAN

ActorTypes ==
  /\ inbox \in [Actor -> Seq(1 .. attempt)]
  /\ job \in [Actor -> 0 .. attempt]
  /\ known \in [Actor -> Structure \cup {"none"}]
  /\ raced \subseteq putting /\ putting \subseteq Actor
  /\ saw \in [Actor -> [read : BOOLEAN, base : Change, own : Change]]
  /\ alone \subseteq Actor
  /\ \A a \in Actor : known[a] = "none" => a \notin putting /\ ~saw[a].read
  /\ \A a \in Actor : known[a] # "none" => job[a] # None

DataTypes ==
  /\ changes \in Change /\ own \in Change /\ last \in Change
  /\ storage \in Contents
  /\ dirty \subseteq Refs("map") \cup Refs("vector") \cup Refs("ref")
  /\ emptied \subseteq Refs("map") \cup Refs("vector") \cup Refs("ref")

LEMMA TypeParts == TypeOK <=> BlockTypes /\ ActorTypes /\ DataTypes
  BY DEF TypeOK, BlockTypes, ActorTypes, DataTypes

LEMMA TypePartsNext == BlockTypes' /\ ActorTypes' /\ DataTypes' => TypeOK'
  BY DEF TypeOK, BlockTypes, ActorTypes, DataTypes

LEMMA InitTypes == Init => TypeOK
<1> SUFFICES ASSUME Init PROVE BlockTypes /\ ActorTypes /\ DataTypes
  BY TypeParts
<1> USE BoundAssumption DEF Init, None
<1>1. BlockTypes
  <2>1. /\ attempt \in 0 .. MaxAttempts /\ count \in 0 .. MaxChanges
        /\ failures \in 0 .. MaxFailures
        /\ \A n \in 1 .. attempt : tx[n] \in 1 .. n
    OBVIOUS
  <2>2. /\ tx \in [Attempt -> 0 .. MaxAttempts]
        /\ status \in [Attempt -> {"new", "active", "committed", "aborted", "abandoned"}]
        /\ members \in [Attempt -> SUBSET Structure]
    OBVIOUS
  <2>3. root \in Phase \cup Other
    BY DEF Phase
  <2> QED
    BY <2>1, <2>2, <2>3 DEF BlockTypes
<1>2. ActorTypes
  BY NoChangeType DEF ActorTypes, NotRead
<1>3. DataTypes
  <2>1. storage \in Contents
    BY DEF Contents, Entries, NoEntries
  <2> QED
    BY <2>1, NoChangeType DEF DataTypes
<1> QED
  BY <1>1, <1>2, <1>3

\* A transaction that is not changed is one of the attempts until now.
LEMMA Current ==
  ASSUME TypeOK
  PROVE  /\ attempt \in Nat
         /\ attempt # 0 => attempt \in Attempt /\ tx[attempt] \in Attempt
         /\ \A a \in Actor : job[a] # None =>
              job[a] \in 1 .. attempt /\ Tx(a) \in Attempt /\ Tx(a) \in 1 .. attempt
  BY BoundAssumption DEF TypeOK, Attempt, Tx, None

\* Root begins an attempt, of a new transaction or of the one that it has.
LEMMA NextAttemptTypes ==
  ASSUME TypeOK, Begin \/ Restart
  PROVE  TypeOK'
<1> USE BoundAssumption, RootAssumption DEF None
<1>1. /\ attempt \in Nat /\ attempt' = attempt + 1 /\ attempt + 1 \in Attempt
      /\ attempt' \in 0 .. MaxAttempts
  BY DEF TypeOK, Begin, Restart, Attempt
<1>2. PICK t \in 1 .. attempt + 1 : /\ tx' = [tx EXCEPT ![attempt + 1] = t]
                                    /\ status' = [status EXCEPT ![t] = "active"]
  <2>1. CASE Begin
    <3>1. /\ attempt + 1 \in 1 .. attempt + 1
          /\ tx' = [tx EXCEPT ![attempt + 1] = attempt + 1]
          /\ status' = [status EXCEPT ![attempt + 1] = "active"]
      BY <1>1, <2>1 DEF Begin
    <3> QED
      BY <3>1
  <2>2. CASE Restart
    <3>1. attempt # 0
      BY <2>2 DEF TypeOK, Restart
    <3>2. tx[attempt] \in 1 .. attempt
      BY <1>1, <3>1 DEF TypeOK
    <3> QED
      <4>1. /\ tx[attempt] \in 1 .. attempt + 1
            /\ tx' = [tx EXCEPT ![attempt + 1] = tx[attempt]]
            /\ status' = [status EXCEPT ![tx[attempt]] = "active"]
        BY <1>1, <2>2, <3>2 DEF Restart
      <4> QED
        BY <4>1
  <2> QED
    BY <2>1, <2>2
<1>3. t \in 0 .. MaxAttempts
  BY <1>1 DEF Attempt
<1>4. BlockTypes'
  <2>1. tx' \in [Attempt -> 0 .. MaxAttempts]
    BY <1>2, <1>3 DEF TypeOK
  <2>2. \A n \in 1 .. attempt' : tx'[n] \in 1 .. n
    <3> TAKE n \in 1 .. attempt'
    <3>1. n \in Attempt
      BY <1>1 DEF Attempt
    <3> QED
      BY <1>1, <1>2, <3>1 DEF TypeOK
  <2>3. committed' \subseteq 1 .. attempt'
    <3>1. committed' = committed
      BY DEF Begin, Restart, ghostVars
    <3> QED
      BY <1>1, <3>1 DEF TypeOK
  <2>4. root' = "body" /\ count' = 0
    BY DEF Begin, Restart
  <2>5. status' \in [Attempt -> {"new", "active", "committed", "aborted", "abandoned"}]
    BY <1>2 DEF TypeOK
  <2>6. UNCHANGED <<members, toStore, failures, missed, torn, twice>>
    BY DEF Begin, Restart, ghostVars
  <2> QED
    BY <1>1, <2>1, <2>2, <2>3, <2>4, <2>5, <2>6 DEF TypeOK, BlockTypes, Phase
<1>5. ActorTypes'
  <2>1. UNCHANGED <<inbox, known, putVars, saw, alone>>
        /\ job' = [job EXCEPT ![Root] = attempt + 1]
    BY DEF Begin, Restart
  <2>2. inbox' \in [Actor -> Seq(1 .. attempt')]
    <3>1. 1 .. attempt \subseteq 1 .. attempt' /\ inbox \in [Actor -> Seq(1 .. attempt)]
      BY <1>1 DEF TypeOK
    <3>2. \A b \in Actor : inbox[b] \in Seq(1 .. attempt')
      BY <3>1, Wider
    <3> QED
      BY <2>1, <3>1, <3>2
  <2>3. job' \in [Actor -> 0 .. attempt'] /\ \A a \in Actor : job[a] # None => job'[a] # None
    BY <1>1, <2>1 DEF TypeOK
  <2> QED
    BY <2>1, <2>2, <2>3 DEF TypeOK, ActorTypes, putVars
<1>6. DataTypes'
  BY DEF TypeOK, DataTypes, Begin, Restart, dataVars, ghostVars
<1> QED
  BY <1>4, <1>5, <1>6, TypePartsNext

\* The other steps of the block.
LEMMA BlockTypesKept ==
  ASSUME TypeOK, TimeOut \/ Undo \/ Fail \/ GiveUp \/ CommitInMemory
  PROVE  TypeOK'
<1> USE RootAssumption DEF None
<1>1. attempt # 0 /\ attempt \in 1 .. attempt
  BY ActorAssumption DEF TypeOK, TimeOut, Undo, Fail, GiveUp, CommitInMemory, Other, Phase
<1>2. PICK t \in Attempt, s \in {"committed", "aborted", "abandoned"} :
        status' \in {status, [status EXCEPT ![t] = s]}
  BY <1>1, Current DEF TimeOut, Undo, Fail, GiveUp, CommitInMemory
<1>3. BlockTypes'
  <2>1. /\ UNCHANGED <<attempt, tx, members, count, failures, missed, torn, twice>>
        /\ committed' \in {committed, committed \cup {attempt}}
        /\ root' \in Phase /\ toStore' \in {toStore, members[tx[attempt]]}
    BY DEF TimeOut, Undo, Fail, GiveUp, CommitInMemory, actorVars, ghostVars, Phase
  <2>2. status' \in [Attempt -> {"new", "active", "committed", "aborted", "abandoned"}]
    BY <1>2 DEF TypeOK
  <2>3. toStore' \subseteq Structure /\ committed' \subseteq 1 .. attempt
    BY <1>1, <2>1, Current DEF TypeOK
  <2> QED
    BY <1>1, <2>1, <2>2, <2>3 DEF TypeOK, BlockTypes
<1>4. ActorTypes'
  <2>1. \/ UNCHANGED <<attempt, actorVars>>
        \/ /\ UNCHANGED <<attempt, inbox, job, putVars, alone>>
           /\ known' = [known EXCEPT ![Root] = "none"]
           /\ saw' = [saw EXCEPT ![Root] = NotRead]
           /\ Root \notin putting
    BY DEF TimeOut, Undo, Fail, GiveUp, CommitInMemory
  <2>2. CASE UNCHANGED <<attempt, actorVars>>
    BY <2>2 DEF TypeOK, ActorTypes, actorVars, putVars
  <2>3. CASE /\ UNCHANGED <<attempt, inbox, job, putVars, alone>>
             /\ known' = [known EXCEPT ![Root] = "none"]
             /\ saw' = [saw EXCEPT ![Root] = NotRead]
             /\ Root \notin putting
    <3>1. NotRead \in [read : BOOLEAN, base : Change, own : Change] /\ ~NotRead.read
      BY NoChangeType DEF NotRead
    <3>2. saw' \in [Actor -> [read : BOOLEAN, base : Change, own : Change]]
      BY <2>3, <3>1 DEF TypeOK
    <3>3. ASSUME NEW a \in Actor
          PROVE  /\ known'[a] = "none" => a \notin putting' /\ ~saw'[a].read
                 /\ known'[a] # "none" => job'[a] # None
      BY <2>3, <3>1, <3>3 DEF TypeOK, putVars
    <3> QED
      BY <2>3, <3>2, <3>3 DEF TypeOK, ActorTypes, putVars
  <2> QED
    BY <2>1, <2>2, <2>3
<1>5. DataTypes'
  <2>1. /\ storage' = storage
        /\ dirty' \in {dirty, {}} /\ emptied' \in {emptied, {}}
        /\ own' \in {own, NoChange}
        /\ changes' \in {changes, Apply(changes, own)}
        /\ last' \in {last, Apply(last, own)}
    BY DEF TimeOut, Undo, Fail, GiveUp, CommitInMemory, dataVars, ghostVars
  <2>2. /\ Apply(changes, own) \in Change /\ Apply(last, own) \in Change
        /\ NoChange \in Change
    BY ApplyType, NoChangeType DEF TypeOK
  <2> QED
    BY <2>1, <2>2 DEF TypeOK, DataTypes
<1> QED
  BY <1>3, <1>4, <1>5, TypePartsNext

\* Messages come and go.
LEMMA MessageTypes ==
  ASSUME TypeOK, NEW b \in Other, Ask(b) \/ Receive(b) \/ Reply(b) \/ Throw(b)
  PROVE  TypeOK'
<1> USE DEF None
<1>1. b \in Actor /\ attempt \in Nat
  BY DEF Other, TypeOK
<1>2. BlockTypes'
  <2>1. /\ UNCHANGED <<attempt, tx, status, members, toStore, count, failures,
                       committed, missed, torn, twice>>
    BY DEF Ask, Receive, Reply, Throw, ghostVars
  <2>2. root' = root \/ (root' \in {b, "body"} /\ root # "idle")
    <3>1. Ask(b) => root # "idle"
      BY DEF Ask
    <3>2. Reply(b) \/ Throw(b) => root' = root \/ (root' = "body" /\ root = b)
      BY DEF Reply, Throw
    <3>3. b # "idle"
      BY <1>1, ActorAssumption DEF Phase
    <3> QED
      BY <3>1, <3>2, <3>3 DEF Ask, Receive
  <2> QED
    BY <2>1, <2>2 DEF TypeOK, BlockTypes, Phase
<1>3. ActorTypes'
  <2>1. CASE Ask(b)
    <3>1. attempt \in 1 .. attempt
      BY <1>1, <2>1 DEF TypeOK, Ask
    <3>2. inbox' \in [Actor -> Seq(1 .. attempt)]
      BY <1>1, <2>1, <3>1 DEF TypeOK, Ask
    <3> QED
      BY <2>1, <3>2 DEF TypeOK, ActorTypes, Ask, putVars
  <2>2. CASE Receive(b)
    <3>1. Head(inbox[b]) \in 1 .. attempt /\ Tail(inbox[b]) \in Seq(1 .. attempt)
      BY <1>1, <2>2, Rest DEF TypeOK, Receive
    <3>2. inbox' \in [Actor -> Seq(1 .. attempt)] /\ job' \in [Actor -> 0 .. attempt]
      BY <1>1, <2>2, <3>1 DEF TypeOK, Receive
    <3>3. known[b] = "none"
      BY <1>1, <2>2 DEF TypeOK, Receive
    <3>4. \A a \in Actor : known[a] # "none" => job'[a] # None
      BY <1>1, <2>2, <3>3 DEF TypeOK, Receive
    <3> QED
      BY <2>2, <3>2, <3>4 DEF TypeOK, ActorTypes, Receive, putVars
  <2>3. CASE Reply(b)
    <3>1. \A a \in Actor : known[a] # "none" => job'[a] # None
      BY <1>1, <2>3 DEF TypeOK, Reply
    <3>2. job' \in [Actor -> 0 .. attempt]
      BY <1>1, <2>3 DEF TypeOK, Reply
    <3> QED
      BY <2>3, <3>1, <3>2 DEF TypeOK, ActorTypes, Reply, putVars
  <2>4. CASE Throw(b)
    <3>1. NotRead \in [read : BOOLEAN, base : Change, own : Change] /\ ~NotRead.read
      BY NoChangeType DEF NotRead
    <3>2. /\ job' \in [Actor -> 0 .. attempt]
          /\ known' \in [Actor -> Structure \cup {"none"}]
          /\ saw' \in [Actor -> [read : BOOLEAN, base : Change, own : Change]]
      BY <1>1, <2>4, <3>1 DEF TypeOK, Throw
    <3>3. ASSUME NEW a \in Actor
          PROVE  /\ known'[a] = "none" => a \notin putting /\ ~saw'[a].read
                 /\ known'[a] # "none" => job'[a] # None
      BY <1>1, <2>4, <3>1 DEF TypeOK, Throw
    <3> QED
      BY <2>4, <3>2, <3>3 DEF TypeOK, ActorTypes, Throw, putVars
  <2> QED
    BY <2>1, <2>2, <2>3, <2>4
<1>4. DataTypes'
  BY DEF TypeOK, DataTypes, Ask, Receive, Reply, Throw, dataVars, ghostVars
<1> QED
  BY <1>2, <1>3, <1>4, TypePartsNext

\* What a handler does before it changes a structure.
LEMMA RegisterTypes ==
  ASSUME TypeOK, NEW a \in Actor, NEW s \in Structure, Register(a, s)
  PROVE  TypeOK'
<1> USE BoundAssumption DEF None
<1>1. s # "none" /\ count + 1 \in 0 .. MaxChanges /\ job[a] # None
  BY DEF TypeOK, Register, Running, Structure
<1>2. BlockTypes'
  BY <1>1 DEF TypeOK, BlockTypes, Register, ghostVars
<1>3. ActorTypes'
  <2>1. /\ known' \in [Actor -> Structure \cup {"none"}]
        /\ known' = [known EXCEPT ![a] = s]
        /\ UNCHANGED <<attempt, inbox, job, saw, alone>>
    BY DEF TypeOK, Register
  <2>2. /\ raced' \subseteq putting' /\ putting' \subseteq Actor
        /\ putting' \subseteq putting \cup {a}
    BY DEF TypeOK, Register, putVars
  <2>3. ASSUME NEW b \in Actor
        PROVE  /\ known'[b] = "none" => b \notin putting' /\ ~saw'[b].read
               /\ known'[b] # "none" => job'[b] # None
    BY <1>1, <2>1, <2>2 DEF TypeOK
  <2> QED
    BY <2>1, <2>2, <2>3 DEF TypeOK, ActorTypes
<1>4. DataTypes'
  BY DEF TypeOK, DataTypes, Register, dataVars, ghostVars
<1> QED
  BY <1>2, <1>3, <1>4, TypePartsNext

LEMMA PutLandsTypes ==
  ASSUME TypeOK, NEW a \in Actor, PutLands(a)
  PROVE  TypeOK'
<1> USE DEF None
<1>1. known[a] \in Structure /\ Tx(a) \in Attempt /\ members[Tx(a)] \subseteq Structure
  <2>1. known[a] # "none"
    BY DEF TypeOK, PutLands
  <2>2. known[a] \in Structure /\ job[a] # None
    BY <2>1 DEF TypeOK
  <2>3. Tx(a) \in Attempt
    BY <2>2, Current
  <2> QED
    BY <2>2, <2>3 DEF TypeOK
<1>2. PICK rest \in Landed(a) :
        /\ members' = [members EXCEPT ![Tx(a)] = rest]
        /\ toStore' \subseteq toStore \cup {known[a]}
        /\ missed' \subseteq missed \cup members[Tx(a)] \cup {known[a]} \cup toStore
  BY DEF PutLands
<1>3. rest \subseteq Structure
  BY <1>1, <1>2 DEF Landed
<1>4. BlockTypes'
  <2>1. members' \in [Attempt -> SUBSET Structure]
    BY <1>2, <1>3 DEF TypeOK
  <2>2. missed' \subseteq Structure /\ toStore' \subseteq Structure
    BY <1>1, <1>2 DEF TypeOK
  <2> QED
    BY <2>1, <2>2 DEF TypeOK, BlockTypes, PutLands
<1>5. ActorTypes'
  BY DEF TypeOK, ActorTypes, PutLands
<1>6. DataTypes'
  BY DEF TypeOK, DataTypes, PutLands, dataVars
<1> QED
  BY <1>4, <1>5, <1>6, TypePartsNext

LEMMA ReadTypes ==
  ASSUME TypeOK, NEW a \in Actor, Read(a)
  PROVE  TypeOK'
<1> USE DEF None
<1>1. BlockTypes'
  BY DEF TypeOK, BlockTypes, Read, ghostVars
<1>2. ActorTypes'
  <2>1. PICK c \in {own, NoChange} :
          saw' = [saw EXCEPT ![a] = [read |-> TRUE, base |-> changes, own |-> c]]
    BY DEF Read
  <2>2. [read |-> TRUE, base |-> changes, own |-> c]
          \in [read : BOOLEAN, base : Change, own : Change]
    BY NoChangeType DEF TypeOK
  <2>3. saw' \in [Actor -> [read : BOOLEAN, base : Change, own : Change]]
    BY <2>1, <2>2 DEF TypeOK
  <2>4. known[a] # "none"
    BY DEF Read
  <2>5. \A b \in Actor : known[b] = "none" => ~saw'[b].read
    BY <2>1, <2>4 DEF TypeOK
  <2>6. alone' \subseteq Actor /\ UNCHANGED <<attempt, inbox, job, known, putting, raced>>
    BY DEF TypeOK, Read, putVars
  <2> QED
    BY <2>3, <2>5, <2>6 DEF TypeOK, ActorTypes
<1>3. DataTypes'
  BY DEF TypeOK, DataTypes, Read, dataVars, ghostVars
<1> QED
  BY <1>1, <1>2, <1>3, TypePartsNext

\* An actor forgets what it has registered and read.
LEMMA Forgets ==
  ASSUME TypeOK, NEW a \in Actor, known' = [known EXCEPT ![a] = "none"],
         saw' = [saw EXCEPT ![a] = NotRead], a \notin putting,
         alone' \in {alone, alone \cup {a}}, UNCHANGED <<attempt, inbox, job, putVars>>
  PROVE  ActorTypes'
<1>1. NotRead \in [read : BOOLEAN, base : Change, own : Change] /\ ~NotRead.read
  BY NoChangeType DEF NotRead
<1>2. saw' \in [Actor -> [read : BOOLEAN, base : Change, own : Change]]
  BY <1>1 DEF TypeOK
<1>3. ASSUME NEW b \in Actor
      PROVE  /\ known'[b] = "none" => b \notin putting' /\ ~saw'[b].read
             /\ known'[b] # "none" => job'[b] # None
  BY <1>1, <1>3 DEF TypeOK, putVars
<1> QED
  BY <1>2, <1>3 DEF TypeOK, ActorTypes, putVars

LEMMA WriteTypes ==
  ASSUME TypeOK, NEW a \in Actor, NEW s \in Structure, NEW f \in Refs(s),
         NEW change \in Change, Write(a, s, f, change)
  PROVE  TypeOK'
<1>1. ActorTypes'
  BY Forgets DEF Write
<1>2. BlockTypes'
  <2>1. /\ UNCHANGED <<attempt, tx, status, members, root, toStore, count, failures,
                       committed, twice>>
        /\ missed' \in {missed, missed \cup {s}} /\ torn' \in {torn, torn \cup {s}}
    BY DEF Write, Tear
  <2> QED
    BY <2>1 DEF TypeOK, BlockTypes
<1>3. saw[a].base \in Change /\ saw[a].own \in Change
  BY DEF TypeOK
<1>4. DataTypes'
  <2>1. PICK old \in Change : own' \in {own, Set(own, f, Apply(old, change))}
    BY <1>3 DEF TypeOK, Write
  <2>2. PICK old2 \in Change : changes' \in {changes, Set(changes, f, Apply(old2, change))}
    <3>1. Apply(saw[a].base, saw[a].own) \in Change
      BY <1>3, ApplyType
    <3> QED
      BY <3>1 DEF TypeOK, Write
  <2>3. own' \in Change /\ changes' \in Change
    BY <2>1, <2>2, ApplyType, SetType DEF TypeOK
  <2>4. /\ last' \in {last, Apply(last, change)} /\ dirty' \in {dirty, dirty \cup {f}}
        /\ UNCHANGED <<storage, emptied>>
    BY DEF Write
  <2>5. last' \in Change
    BY <2>4, ApplyType DEF TypeOK
  <2>6. f \in Refs("map") \cup Refs("vector") \cup Refs("ref")
    BY DEF Structure
  <2> QED
    BY <2>3, <2>4, <2>5, <2>6 DEF TypeOK, DataTypes
<1> QED
  BY <1>1, <1>2, <1>4, TypePartsNext


LEMMA UpdateTypes ==
  ASSUME TypeOK, NEW a \in Actor, Update(a)
  PROVE  TypeOK'
<1> USE DEF None
<1>1. BlockTypes'
  BY DEF TypeOK, BlockTypes, Update, ghostVars
<1>2. ActorTypes'
  <2>1. /\ UNCHANGED <<attempt, inbox, job, putting, raced, saw, alone>>
        /\ known' = [known EXCEPT ![a] = "none"] /\ a \notin putting /\ ~saw[a].read
    BY DEF Update, putVars
  <2>2. ASSUME NEW b \in Actor
        PROVE  /\ known'[b] = "none" => b \notin putting' /\ ~saw'[b].read
               /\ known'[b] # "none" => job'[b] # None
    BY <2>1 DEF TypeOK
  <2> QED
    BY <2>1, <2>2 DEF TypeOK, ActorTypes
<1>3. DataTypes'
  <2>1. PICK i \in DOMAIN storage.elems :
          storage' = [storage EXCEPT !.elems[i] = Overwritten]
    BY DEF Update
  <2>2. storage.elems \in Seq(Attempt \cup {Late, Overwritten})
    BY DEF TypeOK, Contents
  <2>3. i \in 1 .. Len(storage.elems)
    BY <2>2, LenProperties
  <2>4. [storage.elems EXCEPT ![i] = Overwritten] \in Seq(Attempt \cup {Late, Overwritten})
    BY <2>2, <2>3, ExceptSeq
  <2>5. storage' \in Contents
    BY <2>1, <2>4 DEF TypeOK, Contents
  <2> QED
    BY <2>5 DEF TypeOK, DataTypes, Update, ghostVars
<1> QED
  BY <1>1, <1>2, <1>3, TypePartsNext

\* What a handler may write, and to which reference.
Puts(a)   == {[NoChange EXCEPT !.entries[k] = Tag(a)] : k \in Key}
Adds(a)   == {[NoChange EXCEPT !.elems = <<Tag(a)>>]}
Swaps(a)  == {[NoChange EXCEPT !.ref = Tag(a)]}
Clears    == {[NoChange EXCEPT !.clear = TRUE]}
Writes(a, s, f) ==
  IF f = "entries" THEN Puts(a) ELSE IF f = "elems" THEN Adds(a)
  ELSE IF f = "ref" THEN Swaps(a) ELSE IF f = "clear" THEN Clears ELSE {NoChange}

LEMMA WritesType ==
  ASSUME TypeOK, NEW a \in Actor, job[a] # None, NEW s, NEW f, NEW c \in Writes(a, s, f)
  PROVE  c \in Change
<1>1. Tag(a) \in Attempt \cup {Late}
  BY Current DEF Tag, TypeOK, None, Attempt
<1> PICK t \in Attempt \cup {Late} : t = Tag(a)
  BY <1>1
<1>2. NoEntries \in Entries(Attempt \cup {Late}) /\ <<>> \in Seq(Attempt \cup {Late})
  BY NoChangeType
<1>3. <<t>> \in Seq(Attempt \cup {Late})
  OBVIOUS
<1>4. ASSUME NEW k \in Key
      PROVE  [NoChange EXCEPT !.entries[k] = t] \in Change
  <2>1. [NoEntries EXCEPT ![k] = t] \in Entries(Attempt \cup {Late})
    BY <1>2 DEF Entries
  <2> QED
    BY <1>2, <2>1 DEF NoChange, Change, ChangeOf
<1>5. /\ [NoChange EXCEPT !.elems = <<t>>] \in Change
      /\ [NoChange EXCEPT !.ref = t] \in Change
      /\ [NoChange EXCEPT !.clear = TRUE] \in Change
      /\ NoChange \in Change
  BY <1>2, <1>3 DEF NoChange, Change, ChangeOf
<1> QED
  BY <1>4, <1>5 DEF Writes, Puts, Adds, Swaps, Clears

LEMMA HandlerSteps ==
  ASSUME NEW a, Handler(a)
  PROVE  \/ \E s \in Structure : Register(a, s)
         \/ PutLands(a) \/ Read(a) \/ Update(a)
         \/ \E s \in Structure : \E f \in Refs(s) : \E c \in Writes(a, s, f) :
              Write(a, s, f, c)
<1>1. /\ "map" \in Structure /\ "vector" \in Structure /\ "ref" \in Structure
      /\ {"entries", "clear", "removed"} \subseteq Refs("map")
      /\ "elems" \in Refs("vector") /\ "ref" \in Refs("ref")
  BY DEF Structure, Refs
<1>2. ASSUME NEW k \in Key, Put(a, k)
      PROVE  \E c \in Writes(a, "map", "entries") : Write(a, "map", "entries", c)
  BY <1>2 DEF Put, Writes, Puts
<1>3. Clear(a) => \E c \in Writes(a, "map", "clear") : Write(a, "map", "clear", c)
  BY DEF Clear, Writes, Clears
<1>4. Remove(a) => \E c \in Writes(a, "map", "removed") : Write(a, "map", "removed", c)
  BY DEF Remove, Writes
<1>5. Add(a) => \E c \in Writes(a, "vector", "elems") : Write(a, "vector", "elems", c)
  BY DEF Add, Writes, Adds
<1>6. Swap(a) => \E c \in Writes(a, "ref", "ref") : Write(a, "ref", "ref", c)
  BY DEF Swap, Writes, Swaps
<1> QED
  BY ONLY <1>1, <1>2, <1>3, <1>4, <1>5, <1>6, Handler(a) DEF Handler

LEMMA HandlerTypes ==
  ASSUME TypeOK, NEW a \in Actor, Handler(a)
  PROVE  TypeOK'
<1>1. ASSUME NEW s \in Structure, NEW f \in Refs(s), NEW c \in Writes(a, s, f),
             Write(a, s, f, c)
      PROVE  TypeOK'
  <2>1. job[a] # None
    BY <1>1 DEF Write, Running
  <2>2. c \in Change
    BY <2>1, WritesType
  <2> QED
    BY <1>1, <2>2, WriteTypes
<1> QED
  BY <1>1, HandlerSteps, RegisterTypes, PutLandsTypes, ReadTypes, UpdateTypes

\* What the commit writes to the storage.
LEMMA StoredTypes ==
  ASSUME TypeOK
  PROVE  /\ View \in Change
         /\ MapInserted \in Contents /\ MapStored \in Contents
         /\ RefStored \in Contents
         /\ \A n \in 0 .. Len(View.elems) : VectorStored(n) \in Contents
<1> DEFINE S == Attempt \cup {Late}
           T == Attempt \cup {Late, Overwritten}
<1>1. changes \in Change /\ storage \in Contents
  BY DEF TypeOK
<1>2. View \in Change
  BY <1>1, WithoutType DEF View
<1> PICK v \in Change : v = View
  BY <1>2
<1> PICK d \in Contents : d = storage
  BY <1>1
<1>3. /\ v.entries \in Entries(S) /\ v.elems \in Seq(S) /\ v.ref \in S \cup {None}
      /\ d.entries \in Entries(S) /\ d.elems \in Seq(T) /\ d.ref \in S \cup {None}
  BY DEF Change, ChangeOf, Contents
<1>4. [d EXCEPT !.entries = Merge(@, v.entries)] \in Contents
  <2>1. Merge(d.entries, v.entries) \in Entries(S)
    BY <1>3, MergeType
  <2> QED
    BY <2>1 DEF Contents
<1>5. [d EXCEPT !.entries = NoEntries] \in Contents
  BY NoChangeType DEF Contents
<1>6. ASSUME NEW n \in 0 .. Len(v.elems)
      PROVE  [d EXCEPT !.elems = @ \o SubSeq(v.elems, 1, n)] \in Contents
  <2>1. SubSeq(v.elems, 1, n) \in Seq(S)
    BY <1>3, Part
  <2>2. SubSeq(v.elems, 1, n) \in Seq(T)
    <3>1. S \subseteq T
      OBVIOUS
    <3> QED
      BY <2>1, <3>1, Wider
  <2>3. d.elems \o SubSeq(v.elems, 1, n) \in Seq(T)
    BY <1>3, <2>2, ConcatProperties
  <2> QED
    BY <2>3 DEF Contents
<1>7. [d EXCEPT !.ref = IF v.ref = None THEN @ ELSE v.ref] \in Contents
  BY <1>3 DEF Contents
<1> QED
  BY <1>2, <1>4, <1>5, <1>6, <1>7 DEF MapInserted, MapStored, RefStored, VectorStored

LEMMA CommitTypes ==
  ASSUME TypeOK, NEW s \in Structure,
         Store(s) \/ StorageFails(s) \/ Empty \/ CommitEnds \/ Recommit
  PROVE  TypeOK'
<1> USE BoundAssumption
<1>1. /\ View \in Change
      /\ MapInserted \in Contents /\ MapStored \in Contents /\ RefStored \in Contents
      /\ \A n \in 0 .. Len(View.elems) : VectorStored(n) \in Contents
      /\ Len(View.elems) \in Nat
  <2>1. View.elems \in Seq(Attempt \cup {Late})
    BY StoredTypes DEF Change, ChangeOf
  <2> QED
    BY <2>1, StoredTypes, LenProperties
<1>2. storage' \in Contents
  <2>1. storage \in Contents
    BY DEF TypeOK
  <2>2. CASE Store(s)
    BY <1>1, <2>2 DEF Store
  <2>3. CASE StorageFails(s)
    BY <1>1, <2>1, <2>3 DEF StorageFails
  <2>4. CASE Empty \/ CommitEnds \/ Recommit
    BY <2>1, <2>4 DEF Empty, CommitEnds, Recommit
  <2> QED
    BY <2>2, <2>3, <2>4
<1>3. /\ UNCHANGED <<attempt, tx, status, members, actorVars, own, count, committed, last>>
      /\ dirty' \in {dirty, {}}
  BY DEF Store, StorageFails, Empty, CommitEnds, Recommit, ghostVars
<1>4. /\ emptied' \in {emptied, emptied \cup {"entries", "removed"},
                       emptied \cup {"elems"}, emptied \cup {"ref"}, {}}
      /\ changes' \in {changes, View}
  BY DEF Store, StorageFails, Empty, CommitEnds, Recommit, EmptyStored
<1>5. toStore' \subseteq Structure
  <2>1. Recommit => members[tx[attempt]] \subseteq Structure
    BY Current DEF TypeOK, Recommit
  <2> QED
    BY <2>1 DEF TypeOK, Store, StorageFails, Empty, CommitEnds, Recommit
<1>6. root # "idle" /\ root' \in {root, "idle", "again"}
  BY DEF Store, StorageFails, Empty, CommitEnds, Recommit
<1>7. failures' \in 0 .. MaxFailures
  BY DEF TypeOK, Store, StorageFails, Empty, CommitEnds, Recommit
<1>8. missed' \subseteq Structure /\ torn' \subseteq Structure /\ twice' \in BOOLEAN
  <2>1. \A fs : StructuresOf(fs) \subseteq Structure
    BY DEF StructuresOf
  <2>2. /\ missed' \in {missed, missed \ StructuresOf(emptied)}
        /\ torn' \in {torn, torn \cup StructuresOf(emptied \cap dirty)}
        /\ twice' \in {twice, twice \/ "elems" \in emptied}
    BY DEF Store, StorageFails, Empty, CommitEnds, Recommit, EmptyStored, ghostVars
  <2> QED
    BY <2>1, <2>2 DEF TypeOK
<1>9. BlockTypes'
  BY <1>3, <1>5, <1>6, <1>7, <1>8 DEF TypeOK, BlockTypes, Phase
<1>10. ActorTypes'
  BY <1>3 DEF TypeOK, ActorTypes, actorVars, putVars
<1>11. DataTypes'
  BY <1>1, <1>2, <1>3, <1>4 DEF TypeOK, DataTypes, Refs
<1> QED
  BY <1>9, <1>10, <1>11, TypePartsNext

LEMMA TypeStep == TypeOK /\ [Next]_vars => TypeOK'
<1> SUFFICES ASSUME TypeOK, [Next]_vars PROVE TypeOK'
  OBVIOUS
<1>1. CASE Block
  BY <1>1, NextAttemptTypes, BlockTypesKept DEF Block
<1>2. CASE Commit
  <2>1. "map" \in Structure
    BY DEF Structure
  <2> QED
    BY <1>2, <2>1, CommitTypes DEF Commit
<1>3. ASSUME NEW a \in Actor, Handler(a) PROVE TypeOK'
  BY <1>3, HandlerTypes
<1>4. ASSUME NEW b \in Other, Ask(b) \/ Receive(b) \/ Reply(b) \/ Throw(b) PROVE TypeOK'
  BY <1>4, MessageTypes
<1>5. ASSUME NEW s \in Structure, Store(s) \/ StorageFails(s) PROVE TypeOK'
  BY <1>5, CommitTypes
<1>6. CASE UNCHANGED vars
  <2>1. UNCHANGED <<attempt, tx, status, members, root, actorVars, dataVars, toStore,
                    emptied, count, failures, ghostVars>>
    BY <1>6 DEF vars
  <2>2. BlockTypes'
    BY <2>1 DEF TypeOK, BlockTypes, ghostVars
  <2>3. ActorTypes'
    BY <2>1 DEF TypeOK, ActorTypes, actorVars, putVars
  <2>4. DataTypes'
    BY <2>1 DEF TypeOK, DataTypes, dataVars, ghostVars
  <2> QED
    BY <2>2, <2>3, <2>4, TypePartsNext
<1> QED
  BY <1>1, <1>2, <1>3, <1>4, <1>5, <1>6 DEF Next
------------------------------------------------------------------------------
(* The inductive invariant *)

\* A block is open while its attempt runs, and may be until it is over; a commit
\* follows.
Open    == root = "body" \/ root \in Other
InBlock == Open \/ root = "undone"
Storing == root \in {"commit", "again"}

\* What the transactions and their participants are known to do.
Blocks ==
  /\ \A t \in Attempt : status[t] = "active" => Open /\ t = tx[attempt]
  /\ Open => status[tx[attempt]] = "active"
  /\ root # "body" => known[Root] = "none"
  /\ own # NoChange => Open
  /\ emptied # {} => Storing

\* What participants of the running block change, and what the block has changed, is
\* registered with it or was passed over; and so is what a commit stores.
Registered ==
  /\ InBlock =>
       /\ \A a \in Actor :
            known[a] # "none" /\ a \notin putting /\ Tx(a) = tx[attempt]
              => known[a] \in members[tx[attempt]] \cup missed
       /\ own.entries # NoEntries => "map" \in members[tx[attempt]] \cup missed
       /\ own.elems # <<>> => "vector" \in members[tx[attempt]] \cup missed
       /\ own.ref # None => "ref" \in members[tx[attempt]] \cup missed
  /\ root = "commit" =>
       /\ toStore \subseteq members[tx[attempt]] \cup missed
       /\ "entries" \in emptied => "map" \in members[tx[attempt]] \cup missed
       /\ "elems" \in emptied => "vector" \in members[tx[attempt]] \cup missed
       /\ "ref" \in emptied => "ref" \in members[tx[attempt]] \cup missed
  /\ "removed" \in emptied => "entries" \in emptied
  /\ "clear" \notin emptied

\* v is l, but for elements that are overwritten.
Matches(v, l) ==
  Len(v) = Len(l) /\ \A i \in DOMAIN l : v[i] \in {l[i], Overwritten}

\* Every element of l has a place of its own in v, where it may be overwritten.
Covers(v, l) ==
  \E f \in [DOMAIN l -> DOMAIN v] :
    /\ \A i, j \in DOMAIN l : f[i] = f[j] => i = j
    /\ \A i \in DOMAIN l : v[f[i]] \in {l[i], Overwritten}

Settled     == committed \cup {Late}
Waits(s, f) == Storing /\ (s \in toStore \/ f \in emptied)
Stored      == emptied \ dirty

MapInv ==
  "map" \notin torn =>
    /\ changes.entries \in Entries(Settled)
    /\ storage.entries \in Entries(Settled)
    /\ own.entries \in Entries({attempt})
    /\ ~last.clear =>
         /\ Merge(storage.entries, changes.entries) = last.entries
         /\ "entries" \in Stored => storage.entries = last.entries
         /\ failures = 0 /\ "map" \notin missed /\ ~Waits("map", "entries")
              => changes.entries = NoEntries

VectorInv ==
  "vector" \notin torn =>
    /\ changes.elems \in Seq(Settled)
    /\ storage.elems \in Seq(Settled \cup {Overwritten})
    /\ own.elems \in Seq({attempt})
    /\ Covers(storage.elems \o changes.elems, last.elems)
    /\ "elems" \in Stored => Covers(storage.elems, last.elems)
    /\ failures = 0 /\ ~twice =>
         /\ "elems" \notin emptied => Matches(storage.elems \o changes.elems, last.elems)
         /\ "elems" \in Stored => Matches(storage.elems, last.elems)
         /\ "vector" \notin missed /\ ~Waits("vector", "elems")
              => changes.elems = <<>>

RefInv ==
  "ref" \notin torn =>
    /\ changes.ref \in Settled \cup {None}
    /\ storage.ref \in Settled \cup {None}
    /\ own.ref \in {attempt, None}
    /\ last.ref = IF changes.ref = None THEN storage.ref ELSE changes.ref
    /\ "ref" \in Stored => storage.ref = last.ref
    /\ failures = 0 /\ "ref" \notin missed /\ ~Waits("ref", "ref")
         => changes.ref = None

Cleared == changes.clear => last.clear

IInv == Blocks /\ Registered /\ MapInv /\ VectorInv /\ RefInv /\ Cleared

------------------------------------------------------------------------------
(* Elements with places of their own *)

LEMMA Joined ==
  ASSUME NEW S, NEW s \in Seq(S), NEW t \in Seq(S)
  PROVE  /\ Len(s) \in Nat /\ DOMAIN s = 1 .. Len(s)
         /\ Len(t) \in Nat /\ DOMAIN t = 1 .. Len(t)
         /\ s \o t \in Seq(S)
         /\ Len(s \o t) = Len(s) + Len(t)
         /\ DOMAIN (s \o t) = 1 .. Len(s) + Len(t)
         /\ \A i \in 1 .. Len(s) : (s \o t)[i] = s[i]
         /\ \A i \in 1 .. Len(t) : (s \o t)[Len(s) + i] = t[i]
<1>1. /\ Len(s) \in Nat /\ DOMAIN s = 1 .. Len(s)
      /\ Len(t) \in Nat /\ DOMAIN t = 1 .. Len(t)
  BY LenProperties
<1>2. /\ s \o t \in Seq(S)
      /\ Len(s \o t) = Len(s) + Len(t)
      /\ \A i \in 1 .. Len(s) + Len(t) : (s \o t)[i] =
           IF i <= Len(s) THEN s[i] ELSE t[i - Len(s)]
  BY ConcatProperties
<1>3. DOMAIN (s \o t) = 1 .. Len(s) + Len(t)
  BY <1>2, LenProperties
<1>4. ASSUME NEW i \in 1 .. Len(t) PROVE (s \o t)[Len(s) + i] = t[i]
  <2>1. /\ Len(s) + i \in 1 .. Len(s) + Len(t) /\ ~(Len(s) + i <= Len(s))
        /\ (Len(s) + i) - Len(s) = i
    BY <1>1
  <2> QED
    BY <1>2, <2>1
<1>5. ASSUME NEW i \in 1 .. Len(s) PROVE (s \o t)[i] = s[i]
  <2>1. i \in 1 .. Len(s) + Len(t) /\ i <= Len(s)
    BY <1>1
  <2> QED
    BY <1>2, <2>1
<1> QED
  BY <1>1, <1>2, <1>3, <1>4, <1>5

LEMMA CoversSelf == ASSUME NEW v PROVE Covers(v, v)
<1> DEFINE f == [i \in DOMAIN v |-> i]
<1>1. /\ f \in [DOMAIN v -> DOMAIN v]
      /\ \A i, j \in DOMAIN v : f[i] = f[j] => i = j
      /\ \A i \in DOMAIN v : v[f[i]] \in {v[i], Overwritten}
  OBVIOUS
<1> QED
  BY <1>1 DEF Covers

LEMMA CoversTransitive ==
  ASSUME NEW u, NEW v, NEW w, Covers(w, v), Covers(v, u)
  PROVE  Covers(w, u)
<1>1. PICK f \in [DOMAIN u -> DOMAIN v] :
        /\ \A i, j \in DOMAIN u : f[i] = f[j] => i = j
        /\ \A i \in DOMAIN u : v[f[i]] \in {u[i], Overwritten}
  BY DEF Covers
<1>2. PICK g \in [DOMAIN v -> DOMAIN w] :
        /\ \A i, j \in DOMAIN v : g[i] = g[j] => i = j
        /\ \A i \in DOMAIN v : w[g[i]] \in {v[i], Overwritten}
  BY DEF Covers
<1> DEFINE h == [i \in DOMAIN u |-> g[f[i]]]
<1>3. \A i \in DOMAIN u : h[i] = g[f[i]] /\ f[i] \in DOMAIN v
  BY <1>1
<1>4. /\ h \in [DOMAIN u -> DOMAIN w]
      /\ \A i, j \in DOMAIN u : h[i] = h[j] => i = j
      /\ \A i \in DOMAIN u : w[h[i]] \in {u[i], Overwritten}
  <2>1. h \in [DOMAIN u -> DOMAIN w]
    BY <1>1, <1>2
  <2> HIDE DEF h
  <2>2. \A i, j \in DOMAIN u : h[i] = h[j] => i = j
    BY <1>1, <1>2, <1>3
  <2>3. \A i \in DOMAIN u : w[h[i]] \in {u[i], Overwritten}
    BY <1>1, <1>2, <1>3
  <2> QED
    BY <2>1, <2>2, <2>3
<1> QED
  BY <1>4 DEF Covers

\* What was written to the storage before, and is written again.
LEMMA CoversInserted ==
  ASSUME NEW S, NEW s \in Seq(S), NEW t \in Seq(S), NEW u \in Seq(S)
  PROVE  Covers((s \o t) \o u, s \o u)
<1>1. /\ s \o t \in Seq(S) /\ Len(s \o t) = Len(s) + Len(t)
      /\ Len(s) \in Nat /\ Len(t) \in Nat /\ Len(u) \in Nat
  BY Joined
<1> PICK w : w = (s \o t) \o u
  OBVIOUS
<1> PICK v : v = s \o u
  OBVIOUS
<1>2. /\ DOMAIN w = 1 .. Len(s) + Len(t) + Len(u)
      /\ \A i \in 1 .. Len(s) : w[i] = s[i]
      /\ \A i \in 1 .. Len(u) : w[(Len(s) + Len(t)) + i] = u[i]
  <2>1. /\ DOMAIN w = 1 .. Len(s \o t) + Len(u)
        /\ \A i \in 1 .. Len(s \o t) : w[i] = (s \o t)[i]
        /\ \A i \in 1 .. Len(u) : w[Len(s \o t) + i] = u[i]
    BY <1>1, Joined
  <2>2. \A i \in 1 .. Len(s) : (s \o t)[i] = s[i] /\ i \in 1 .. Len(s \o t)
    BY <1>1, Joined
  <2> QED
    BY <1>1, <2>1, <2>2
<1>3. /\ DOMAIN v = 1 .. Len(s) + Len(u)
      /\ \A i \in 1 .. Len(s) : v[i] = s[i]
      /\ \A i \in 1 .. Len(u) : v[Len(s) + i] = u[i]
  BY Joined
<1> DEFINE f == [i \in DOMAIN v |-> IF i <= Len(s) THEN i ELSE i + Len(t)]
<1>4. f \in [DOMAIN v -> DOMAIN w]
  BY <1>1, <1>2, <1>3
<1>5. \A i, j \in DOMAIN v : f[i] = f[j] => i = j
  BY <1>1, <1>3
<1>6. ASSUME NEW i \in DOMAIN v PROVE w[f[i]] = v[i]
  <2>1. CASE i <= Len(s)
    BY <1>1, <1>2, <1>3, <2>1
  <2>2. CASE ~(i <= Len(s))
    <3>1. PICK j \in 1 .. Len(u) : i = Len(s) + j
      <4>1. i - Len(s) \in 1 .. Len(u) /\ i = Len(s) + (i - Len(s))
        BY <1>1, <1>3, <2>2
      <4> QED
        BY <4>1
    <3>2. f[i] = (Len(s) + Len(t)) + j
      BY <1>1, <2>2, <3>1
    <3> QED
      BY <1>2, <1>3, <3>1, <3>2
  <2> QED
    BY <2>1, <2>2
<1> HIDE DEF f
<1> QED
  BY <1>4, <1>5, <1>6 DEF Covers

LEMMA CoversJoined ==
  ASSUME NEW S, NEW v \in Seq(S), NEW l \in Seq(S), NEW a \in Seq(S), Covers(v, l)
  PROVE  Covers(v \o a, l \o a)
<1>1. PICK f \in [DOMAIN l -> DOMAIN v] :
        /\ \A i, j \in DOMAIN l : f[i] = f[j] => i = j
        /\ \A i \in DOMAIN l : v[f[i]] \in {l[i], Overwritten}
  BY DEF Covers
<1> PICK w : w = v \o a
  OBVIOUS
<1> PICK m : m = l \o a
  OBVIOUS
<1>2. /\ Len(v) \in Nat /\ DOMAIN v = 1 .. Len(v) /\ Len(a) \in Nat
      /\ DOMAIN w = 1 .. Len(v) + Len(a)
      /\ \A i \in 1 .. Len(v) : w[i] = v[i]
      /\ \A i \in 1 .. Len(a) : w[Len(v) + i] = a[i]
  BY Joined
<1>3. /\ Len(l) \in Nat /\ DOMAIN l = 1 .. Len(l)
      /\ DOMAIN m = 1 .. Len(l) + Len(a)
      /\ \A i \in 1 .. Len(l) : m[i] = l[i]
      /\ \A i \in 1 .. Len(a) : m[Len(l) + i] = a[i]
  BY Joined
<1> DEFINE g == [i \in DOMAIN m |-> IF i <= Len(l) THEN f[i]
                                     ELSE (i - Len(l)) + Len(v)]
<1>4. ASSUME NEW i \in DOMAIN m
      PROVE  \/ i \in DOMAIN l /\ g[i] = f[i] /\ f[i] \in 1 .. Len(v)
             \/ \E j \in 1 .. Len(a) : i = Len(l) + j /\ g[i] = Len(v) + j
  <2>1. CASE i <= Len(l)
    BY <1>1, <1>2, <1>3, <2>1
  <2>2. CASE ~(i <= Len(l))
    <3>1. /\ i - Len(l) \in 1 .. Len(a) /\ i = Len(l) + (i - Len(l))
          /\ g[i] = Len(v) + (i - Len(l))
      BY <1>2, <1>3, <2>2
    <3> QED
      BY <3>1
  <2> QED
    BY <2>1, <2>2
<1> HIDE DEF g
<1>5. ASSUME NEW i \in DOMAIN m PROVE g[i] \in DOMAIN w
  <2>1. CASE g[i] = f[i] /\ f[i] \in 1 .. Len(v)
    BY <1>2, <2>1
  <2>2. ASSUME NEW j \in 1 .. Len(a), g[i] = Len(v) + j PROVE g[i] \in DOMAIN w
    BY <1>2, <2>2
  <2> QED
    BY <1>4, <2>1, <2>2
<1>6. g \in [DOMAIN m -> DOMAIN w]
  BY <1>5 DEF g
<1>7. ASSUME NEW i \in DOMAIN m, NEW j \in DOMAIN m, g[i] = g[j] PROVE i = j
  <2>1. CASE i \in DOMAIN l /\ g[i] = f[i] /\ f[i] \in 1 .. Len(v)
    <3>1. j \in DOMAIN l /\ g[j] = f[j]
      <4>1. g[j] \in 1 .. Len(v)
        BY <1>7, <2>1
      <4>2. \A k \in 1 .. Len(a) : Len(v) + k \notin 1 .. Len(v)
        BY <1>2
      <4> QED
        BY <1>4, <4>1, <4>2
    <3> QED
      BY <1>1, <1>7, <2>1, <3>1
  <2>2. ASSUME NEW k \in 1 .. Len(a), i = Len(l) + k, g[i] = Len(v) + k
        PROVE  i = j
    <3>1. PICK q \in 1 .. Len(a) : j = Len(l) + q /\ g[j] = Len(v) + q
      <4>1. ~(f[j] \in 1 .. Len(v) /\ g[j] = f[j])
        BY <1>2, <1>7, <2>2
      <4> QED
        BY <1>4, <4>1
    <3>2. k = q
      BY <1>2, <1>7, <2>2, <3>1
    <3> QED
      BY <2>2, <3>1, <3>2
  <2> QED
    BY <1>4, <2>1, <2>2
<1>8. ASSUME NEW i \in DOMAIN m PROVE w[g[i]] \in {m[i], Overwritten}
  <2>1. CASE i \in DOMAIN l /\ g[i] = f[i] /\ f[i] \in 1 .. Len(v)
    <3>1. w[g[i]] = v[f[i]] /\ m[i] = l[i]
      BY <1>2, <1>3, <2>1
    <3> QED
      BY <1>1, <2>1, <3>1
  <2>2. ASSUME NEW k \in 1 .. Len(a), i = Len(l) + k, g[i] = Len(v) + k
        PROVE  w[g[i]] = m[i]
    BY <1>2, <1>3, <2>2
  <2> QED
    BY <1>4, <2>1, <2>2
<1> QED
  BY <1>6, <1>7, <1>8 DEF Covers

\* The elements of an attempt, in a sequence that covers them.
Indices(s, ns) == {i \in DOMAIN s : s[i] \in ns}

LEMMA CoversCount ==
  ASSUME NEW S, NEW v \in Seq(S), NEW l \in Seq(S), Covers(v, l), NEW n
  PROVE  Cardinality(Indices(v, {n, Overwritten})) >= Cardinality(Indices(l, {n}))
<1> DEFINE P == Indices(v, {n, Overwritten})
           Q == Indices(l, {n})
<1>1. PICK f \in [DOMAIN l -> DOMAIN v] :
        /\ \A i, j \in DOMAIN l : f[i] = f[j] => i = j
        /\ \A i \in DOMAIN l : v[f[i]] \in {l[i], Overwritten}
  BY DEF Covers
<1> DEFINE g == [i \in Q |-> f[i]]
<1>2. g \in Injection(Q, P)
  <2>1. g \in [Q -> P]
    BY <1>1 DEF Indices
  <2>2. \A i, j \in Q : g[i] = g[j] => i = j
    BY <1>1 DEF Indices
  <2> QED
    BY <2>1, <2>2 DEF Injection, IsInjective
<1>3. IsFiniteSet(P) /\ IsFiniteSet(Q)
  <2>1. IsFiniteSet(DOMAIN v) /\ IsFiniteSet(DOMAIN l)
    BY LenProperties, FS_Interval
  <2> QED
    BY <2>1, FS_Subset DEF Indices
<1>4. Cardinality(Q) <= Cardinality(P)
  BY <1>2, <1>3, FS_Injection
<1>5. Cardinality(P) \in Nat /\ Cardinality(Q) \in Nat
  BY <1>3, FS_CardinalityType
<1> QED
  BY <1>4, <1>5

\* A stored element is overwritten.
LEMMA CoversOverwritten ==
  ASSUME NEW S, Overwritten \in S, NEW s \in Seq(S), NEW i \in DOMAIN s, NEW t \in Seq(S)
  PROVE  /\ [s EXCEPT ![i] = Overwritten] \in Seq(S)
         /\ Covers([s EXCEPT ![i] = Overwritten] \o t, s \o t)
         /\ \A l \in Seq(S) : Matches(s \o t, l) =>
                                Matches([s EXCEPT ![i] = Overwritten] \o t, l)
<1> PICK x : x = [s EXCEPT ![i] = Overwritten]
  OBVIOUS
<1>1. x \in Seq(S) /\ Len(x) = Len(s)
  <2>1. i \in 1 .. Len(s)
    BY LenProperties
  <2> QED
    BY <2>1, ExceptSeq
<1>2. \A j \in DOMAIN s : x[j] \in {s[j], Overwritten}
  OBVIOUS
<1> PICK w : w = x \o t
  OBVIOUS
<1> PICK v : v = s \o t
  OBVIOUS
<1>3. /\ Len(s) \in Nat /\ Len(t) \in Nat /\ DOMAIN s = 1 .. Len(s)
      /\ DOMAIN v = 1 .. Len(s) + Len(t) /\ Len(v) = Len(s) + Len(t)
      /\ \A j \in 1 .. Len(s) : v[j] = s[j]
      /\ \A j \in 1 .. Len(t) : v[Len(s) + j] = t[j]
  BY Joined
<1>4. /\ DOMAIN w = 1 .. Len(s) + Len(t) /\ Len(w) = Len(s) + Len(t)
      /\ \A j \in 1 .. Len(s) : w[j] = x[j]
      /\ \A j \in 1 .. Len(t) : w[Len(s) + j] = t[j]
  <2>1. /\ DOMAIN w = 1 .. Len(x) + Len(t) /\ Len(w) = Len(x) + Len(t)
        /\ \A j \in 1 .. Len(x) : w[j] = x[j]
        /\ \A j \in 1 .. Len(t) : w[Len(x) + j] = t[j]
    BY <1>1, Joined
  <2> QED
    BY <1>1, <2>1
<1>5. ASSUME NEW j \in DOMAIN v PROVE w[j] \in {v[j], Overwritten}
  <2>1. CASE j \in 1 .. Len(s)
    BY <1>2, <1>3, <1>4, <2>1
  <2>2. CASE j \notin 1 .. Len(s)
    <3>1. j - Len(s) \in 1 .. Len(t) /\ j = Len(s) + (j - Len(s))
      BY <1>3, <2>2
    <3> QED
      BY <1>3, <1>4, <3>1
  <2> QED
    BY <2>1, <2>2
<1>6. Covers(w, v)
  <2> DEFINE f == [j \in DOMAIN v |-> j]
  <2>1. /\ f \in [DOMAIN v -> DOMAIN w]
        /\ \A j, k \in DOMAIN v : f[j] = f[k] => j = k
        /\ \A j \in DOMAIN v : w[f[j]] \in {v[j], Overwritten}
    BY <1>3, <1>4, <1>5
  <2> QED
    BY <2>1 DEF Covers
<1>7. ASSUME NEW l \in Seq(S), Matches(v, l) PROVE Matches(w, l)
  <2>1. Len(w) = Len(l)
    BY <1>3, <1>4, <1>7 DEF Matches
  <2>2. ASSUME NEW j \in DOMAIN l PROVE w[j] \in {l[j], Overwritten}
    <3>1. v[j] \in {l[j], Overwritten}
      BY <1>7 DEF Matches
    <3>2. j \in DOMAIN v
      BY <1>3, <1>7, LenProperties DEF Matches
    <3> QED
      BY <1>5, <3>1, <3>2
  <2> QED
    BY <2>1, <2>2 DEF Matches
<1> QED
  BY <1>1, <1>6, <1>7

LEMMA MatchesJoined ==
  ASSUME NEW S, NEW v \in Seq(S), NEW l \in Seq(S), NEW a \in Seq(S), Matches(v, l)
  PROVE  Matches(v \o a, l \o a)
<1> PICK w : w = v \o a
  OBVIOUS
<1> PICK m : m = l \o a
  OBVIOUS
<1>1. /\ Len(l) \in Nat /\ Len(v) = Len(l) /\ DOMAIN l = 1 .. Len(l) /\ Len(a) \in Nat
      /\ Len(w) = Len(l) + Len(a) /\ Len(m) = Len(l) + Len(a)
      /\ DOMAIN m = 1 .. Len(l) + Len(a)
      /\ \A i \in 1 .. Len(l) : w[i] = v[i] /\ m[i] = l[i]
      /\ \A i \in 1 .. Len(a) : w[Len(l) + i] = a[i] /\ m[Len(l) + i] = a[i]
  <2>1. Len(v) = Len(l)
    BY DEF Matches
  <2>2. /\ Len(l) \in Nat /\ DOMAIN l = 1 .. Len(l) /\ Len(a) \in Nat
        /\ Len(m) = Len(l) + Len(a) /\ DOMAIN m = 1 .. Len(l) + Len(a)
        /\ \A i \in 1 .. Len(l) : m[i] = l[i]
        /\ \A i \in 1 .. Len(a) : m[Len(l) + i] = a[i]
    BY Joined
  <2>3. /\ Len(w) = Len(v) + Len(a)
        /\ \A i \in 1 .. Len(v) : w[i] = v[i]
        /\ \A i \in 1 .. Len(a) : w[Len(v) + i] = a[i]
    BY Joined
  <2> QED
    BY <2>1, <2>2, <2>3
<1>2. ASSUME NEW i \in DOMAIN m PROVE w[i] \in {m[i], Overwritten}
  <2>1. CASE i \in 1 .. Len(l)
    BY <1>1, <2>1 DEF Matches
  <2>2. CASE i \notin 1 .. Len(l)
    <3>1. i - Len(l) \in 1 .. Len(a) /\ i = Len(l) + (i - Len(l))
      BY <1>1, <2>2
    <3> QED
      BY <1>1, <3>1
  <2> QED
    BY <2>1, <2>2
<1> QED
  BY <1>1, <1>2 DEF Matches

------------------------------------------------------------------------------
(* Initially; and what the steps do to blocks *)

LEMMA NoElements ==
  ASSUME NEW S, NEW s \in Seq(S)
  PROVE  s \o <<>> = s /\ <<>> \o s = s /\ <<>> \in Seq(S)
  BY ConcatEmptySeq

LEMMA InitInv == Init => IInv
<1> SUFFICES ASSUME Init PROVE IInv
  OBVIOUS
<1> USE DEF Init
<1>1. Blocks
  BY RootAssumption, ActorAssumption DEF Blocks, Open, Storing, Other, Phase
<1>2. Registered
  BY ActorAssumption DEF Registered, Open, InBlock, Other, Phase
<1>3. NoEntries \in Entries(Settled) /\ NoEntries \in Entries({attempt})
  BY DEF NoEntries, Entries
<1>4. Merge(NoEntries, NoEntries) = NoEntries
  BY DEF Merge, NoEntries
<1>5. MapInv
  BY <1>3, <1>4 DEF MapInv, NoChange, Stored
<1>6. <<>> \o <<>> = <<>>
  OBVIOUS
<1>7. Covers(<<>>, <<>>) /\ Matches(<<>>, <<>>)
  BY CoversSelf DEF Matches
<1>8. VectorInv
  BY <1>6, <1>7 DEF VectorInv, NoChange, Stored
<1>9. RefInv
  BY DEF RefInv, NoChange, Stored
<1>10. Cleared
  BY DEF Cleared, NoChange
<1> QED
  BY <1>1, <1>2, <1>5, <1>8, <1>9, <1>10 DEF IInv

\* A step that leaves alone what has committed and what is stored.
LEMMA DataKept ==
  ASSUME IInv,
         UNCHANGED <<changes, storage, last, emptied, toStore, committed, missed,
                     torn, twice, failures>>,
         Storing' <=> Storing, dirty' = dirty \/ emptied = {},
         (own' = own /\ attempt' = attempt) \/ own' = NoChange
  PROVE  MapInv' /\ VectorInv' /\ RefInv' /\ Cleared'
<1>1. Stored' = Stored
  BY DEF Stored
<1>2. /\ \A s, f : Waits(s, f)' = Waits(s, f)
      /\ Settled' = Settled
  BY DEF Waits, Settled
<1>3. /\ own.entries \in Entries({attempt}) => own'.entries \in Entries({attempt'})
      /\ own.elems \in Seq({attempt}) => own'.elems \in Seq({attempt'})
      /\ own.ref \in {attempt, None} => own'.ref \in {attempt', None}
  <2>1. NoEntries \in Entries({attempt'}) /\ <<>> \in Seq({attempt'})
    BY DEF NoEntries, Entries
  <2>2. CASE own' = NoChange
    BY <2>1, <2>2 DEF NoChange
  <2> QED
    BY <2>2
<1>4. MapInv'
  BY <1>1, <1>2, <1>3 DEF IInv, MapInv
<1>5. VectorInv'
  BY <1>1, <1>2, <1>3 DEF IInv, VectorInv
<1>6. RefInv'
  BY <1>1, <1>2, <1>3 DEF IInv, RefInv
<1>7. Cleared'
  BY DEF IInv, Cleared
<1> QED
  BY <1>4, <1>5, <1>6, <1>7

\* When no block is open, nothing is changed in one, and no transaction is active.
LEMMA Closed ==
  ASSUME IInv, root \in {"idle", "undone", "commit", "again"}
  PROVE  /\ ~Open /\ own = NoChange /\ known[Root] = "none"
         /\ \A t \in Attempt : status[t] # "active"
  BY ActorAssumption DEF IInv, Blocks, Open, Other, Phase

\* Root begins an attempt.
LEMMA NextAttemptStep ==
  ASSUME TypeOK, IInv, Begin \/ Restart
  PROVE  IInv'
<1> USE RootAssumption DEF None
<1>1. /\ root \in {"idle", "undone"} /\ root' = "body" /\ attempt' = attempt + 1
      /\ attempt \in Nat /\ attempt + 1 \in Attempt
      /\ job' = [job EXCEPT ![Root] = attempt + 1]
      /\ UNCHANGED <<members, known, putting, changes, own, dirty, storage, toStore,
                     emptied, failures, committed, last, missed, torn, twice>>
  BY BoundAssumption DEF TypeOK, Begin, Restart, Attempt, dataVars, ghostVars, putVars
<1>2. /\ ~Open /\ own = NoChange /\ known[Root] = "none"
      /\ \A t \in Attempt : status[t] # "active"
  BY <1>1, Closed
<1>3. ~Storing /\ ~Storing' /\ emptied = {} /\ Open'
  BY <1>1 DEF IInv, Blocks, Storing, Open
<1>4. PICK t \in Attempt : /\ tx' = [tx EXCEPT ![attempt + 1] = t]
                           /\ status' = [status EXCEPT ![t] = "active"]
                           /\ Begin => t = attempt + 1
                           /\ Restart => t = tx[attempt]
  <2>1. CASE Begin
    BY <1>1, <2>1 DEF Begin, Restart
  <2>2. CASE Restart
    <3>1. attempt # 0
      BY <2>2 DEF TypeOK, Restart
    <3>2. tx[attempt] \in Attempt
      BY <3>1, Current
    <3> QED
      BY <2>2, <3>2 DEF Begin, Restart
  <2> QED
    BY <2>1, <2>2
<1>5. tx'[attempt'] = t /\ status'[t] = "active"
  BY <1>1, <1>4 DEF TypeOK
<1>6. Blocks'
  <2>1. \A u \in Attempt : status'[u] = "active" => u = t
    BY <1>2, <1>4 DEF TypeOK
  <2> QED
    BY <1>1, <1>2, <1>3, <1>5, <2>1 DEF Blocks
<1>7. ASSUME NEW a \in Actor, known'[a] # "none", a \notin putting', Tx(a)' = tx'[attempt']
      PROVE  known'[a] \in members'[tx'[attempt']] \cup missed'
  <2>1. a # Root /\ known[a] # "none" /\ a \notin putting
    BY <1>1, <1>2, <1>7
  <2>2. job[a] \in 1 .. attempt /\ Tx(a) \in 1 .. attempt
    BY <2>1, Current DEF TypeOK
  <2>3. Tx(a)' = Tx(a)
    <3>1. job'[a] = job[a] /\ job[a] # attempt + 1
      BY <1>1, <2>1, <2>2 DEF TypeOK
    <3> QED
      BY <1>1, <1>4, <3>1 DEF Tx, TypeOK
  <2>4. ~Begin
    BY <1>1, <1>4, <1>5, <1>7, <2>2, <2>3
  <2>5. root = "undone" /\ t = tx[attempt]
    BY <1>4, <2>4 DEF Restart
  <2> QED
    BY <1>1, <1>5, <1>7, <2>1, <2>3, <2>5 DEF IInv, Registered, InBlock
<1>8. Registered'
  BY <1>1, <1>2, <1>3, <1>7 DEF Registered, NoChange
<1>9. MapInv' /\ VectorInv' /\ RefInv' /\ Cleared'
  BY <1>1, <1>2, <1>3, DataKept
<1> QED
  BY <1>6, <1>8, <1>9 DEF IInv

\* The other steps of the block, but for its commit.
LEMMA BlockSteps ==
  ASSUME TypeOK, IInv, TimeOut \/ Undo \/ Fail \/ GiveUp
  PROVE  IInv'
<1> USE RootAssumption, ActorAssumption DEF None
<1>1. /\ UNCHANGED <<attempt, tx, members, job, putting, changes, storage, toStore,
                     emptied, failures, committed, last, missed, torn, twice>>
      /\ own' \in {own, NoChange} /\ dirty' \in {dirty, {}}
  BY DEF TimeOut, Undo, Fail, GiveUp, actorVars, putVars, dataVars, ghostVars
<1>2. attempt # 0 /\ tx[attempt] \in Attempt
  <2>1. root # "idle"
    BY DEF TimeOut, Undo, Fail, GiveUp, Other, Phase
  <2> QED
    BY <2>1, Current DEF TypeOK
<1>3. /\ InBlock /\ ~Storing /\ ~Storing' /\ emptied = {}
  BY DEF TimeOut, Undo, Fail, GiveUp, Other, Phase, IInv, Blocks, InBlock, Open, Storing
<1>4. /\ InBlock' => root' \in {"body", "undone"}
      /\ root' \in {"body", "undone", "idle"}
  BY DEF TimeOut, Undo, Fail, GiveUp, InBlock, Open, Other, Phase
<1>5. /\ \A t \in Attempt : status'[t] = "active" => Open' /\ t = tx[attempt]
      /\ Open' => status'[tx[attempt]] = "active"
      /\ own' # NoChange => Open'
  <2>1. CASE TimeOut
    BY <2>1 DEF TimeOut, IInv, Blocks, Open, dataVars
  <2>2. CASE Undo
    <3>1. status' = [status EXCEPT ![tx[attempt]] = "aborted"] /\ ~Open'
          /\ own' = NoChange
      BY <2>2 DEF Undo, Open, Other, Phase
    <3> QED
      BY <1>2, <3>1 DEF IInv, Blocks, TypeOK
  <2>3. CASE Fail
    <3>1. UNCHANGED <<status, own>> /\ root = "undone" /\ ~Open'
      BY <2>3 DEF Fail, Open, Other, Phase, dataVars
    <3> QED
      BY <3>1, Closed
  <2>4. CASE GiveUp
    <3>1. /\ status' = [status EXCEPT ![tx[attempt]] = "abandoned"]
          /\ own' = own /\ root = "undone" /\ ~Open'
      BY <2>4 DEF GiveUp, Open, Other, Phase, dataVars
    <3> QED
      BY <1>2, <3>1, Closed DEF TypeOK
  <2> QED
    BY <2>1, <2>2, <2>3, <2>4
<1>6. /\ \A a \in Actor : known'[a] # "none" => known'[a] = known[a]
      /\ root' # "body" => known'[Root] = "none"
  BY DEF TimeOut, Undo, Fail, GiveUp, IInv, Blocks, actorVars, TypeOK
<1>7. Blocks'
  BY <1>1, <1>3, <1>5, <1>6 DEF Blocks
<1>8. Registered'
  <2>1. ASSUME NEW a \in Actor, known'[a] # "none", a \notin putting', Tx(a)' = tx'[attempt']
        PROVE  known'[a] \in members'[tx'[attempt']] \cup missed'
    <3>1. Tx(a)' = Tx(a)
      BY <1>1 DEF Tx
    <3> QED
      BY <1>1, <1>3, <1>6, <2>1, <3>1 DEF IInv, Registered
  <2>2. /\ own'.entries # NoEntries => own' = own
        /\ own'.elems # <<>> => own' = own
        /\ own'.ref # None => own' = own
    BY <1>1 DEF NoChange
  <2> QED
    BY <1>1, <1>3, <1>4, <2>1, <2>2 DEF IInv, Registered
<1>9. MapInv' /\ VectorInv' /\ RefInv' /\ Cleared'
  BY <1>1, <1>3, DataKept
<1> QED
  BY <1>7, <1>8, <1>9 DEF IInv

LEMMA MessageSteps ==
  ASSUME TypeOK, IInv, NEW b \in Other, Ask(b) \/ Receive(b) \/ Reply(b) \/ Throw(b)
  PROVE  IInv'
<1> USE ActorAssumption DEF None
<1>1. /\ UNCHANGED <<attempt, tx, status, members, putting, changes, own, dirty,
                     storage, toStore, emptied, failures, committed, last, missed,
                     torn, twice>>
      /\ b \in Actor /\ b # Root
  BY DEF Ask, Receive, Reply, Throw, putVars, dataVars, ghostVars, Other
<1>2. /\ (Open' <=> Open) /\ (InBlock' <=> InBlock) /\ (Storing' <=> Storing)
      /\ root' = "commit" => root = "commit"
      /\ root' # "body" => root # "body" \/ known[Root] = "none"
  BY <1>1 DEF Ask, Receive, Reply, Throw, Open, InBlock, Storing, Other, Phase
<1>3. /\ known'[Root] = known[Root]
      /\ \A a \in Actor : known'[a] # "none" => known'[a] = known[a] /\ job'[a] = job[a]
  <2>1. CASE Ask(b)
    BY <2>1 DEF Ask
  <2>2. CASE Receive(b)
    BY <1>1, <2>2 DEF Receive, TypeOK
  <2>3. CASE Reply(b)
    BY <1>1, <2>3 DEF Reply, TypeOK
  <2>4. CASE Throw(b)
    BY <1>1, <2>4 DEF Throw, TypeOK
  <2> QED
    BY <2>1, <2>2, <2>3, <2>4
<1>4. Blocks'
  BY <1>1, <1>2, <1>3 DEF IInv, Blocks
<1>5. Registered'
  <2>1. ASSUME NEW a \in Actor, known'[a] # "none", a \notin putting', Tx(a)' = tx'[attempt'],
               InBlock
        PROVE  known'[a] \in members'[tx'[attempt']] \cup missed'
    <3>1. Tx(a)' = Tx(a) /\ known'[a] = known[a]
      BY <1>1, <1>3, <2>1 DEF Tx
    <3> QED
      BY <1>1, <2>1, <3>1 DEF IInv, Registered
  <2> QED
    BY <1>1, <1>2, <2>1 DEF IInv, Registered
<1>6. MapInv' /\ VectorInv' /\ RefInv' /\ Cleared'
  BY <1>1, <1>2, DataKept
<1> QED
  BY <1>4, <1>5, <1>6 DEF IInv

------------------------------------------------------------------------------
(* The commit of the block *)

Value == Attempt \cup {Late, Overwritten}

LEMMA DataFacts ==
  ASSUME TypeOK
  PROVE  /\ changes.entries \in Entries(Value) /\ changes.elems \in Seq(Value)
         /\ own.entries \in Entries(Value) /\ own.elems \in Seq(Value)
         /\ last.entries \in Entries(Value) /\ last.elems \in Seq(Value)
         /\ storage.entries \in Entries(Value) /\ storage.elems \in Seq(Value)
         /\ changes.clear \in BOOLEAN /\ own.clear \in BOOLEAN /\ last.clear \in BOOLEAN
<1> DEFINE S == Attempt \cup {Late}
<1>1. ASSUME NEW c \in Change
      PROVE  /\ c.entries \in Entries(Value) /\ c.elems \in Seq(Value)
             /\ c.clear \in BOOLEAN
  <2>1. c.entries \in Entries(S) /\ c.elems \in Seq(S) /\ c.clear \in BOOLEAN
    BY DEF Change, ChangeOf
  <2>2. S \subseteq Value
    BY DEF Value
  <2>3. c.elems \in Seq(Value)
    BY <2>1, <2>2, Wider
  <2> QED
    BY <2>1, <2>2, <2>3 DEF Entries
<1>2. storage.entries \in Entries(Value) /\ storage.elems \in Seq(Value)
  BY DEF TypeOK, Contents, Value, Entries
<1> QED
  BY <1>1, <1>2 DEF TypeOK

LEMMA MergeMerged ==
  ASSUME NEW s, NEW c, NEW o
  PROVE  Merge(s, Merge(c, o)) = Merge(Merge(s, c), o)
  BY DEF Merge, None

LEMMA MergeNone ==
  ASSUME NEW S, NEW s \in Entries(S)
  PROVE  Merge(s, NoEntries) = s
  BY DEF Merge, NoEntries, Entries

LEMMA MergeTwice ==
  ASSUME NEW s, NEW d, NEW c, \A k \in Key : d[k] # None => c[k] # None
  PROVE  Merge(Merge(s, d), c) = Merge(s, c)
  BY DEF Merge

LEMMA WiderEntries ==
  ASSUME NEW S, NEW T, S \subseteq T, NEW s \in Entries(S)
  PROVE  s \in Entries(T)
  BY DEF Entries

LEMMA CommitInMemoryStep ==
  ASSUME TypeOK, IInv, CommitInMemory
  PROVE  IInv'
<1> USE RootAssumption, ActorAssumption DEF None
<1>1. /\ root = "body" /\ root' = "commit" /\ known[Root] = "none"
      /\ status' = [status EXCEPT ![tx[attempt]] = "committed"]
      /\ changes' = Apply(changes, own) /\ own' = NoChange
      /\ dirty' = {} /\ emptied' = {} /\ toStore' = members[tx[attempt]]
      /\ committed' = committed \cup {attempt} /\ last' = Apply(last, own)
      /\ UNCHANGED <<attempt, tx, members, known, storage, failures, missed, torn, twice>>
  BY DEF CommitInMemory, actorVars
<1>2. attempt # 0 /\ tx[attempt] \in Attempt
  <2>1. attempt # 0
    BY <1>1 DEF TypeOK
  <2> QED
    BY <2>1, Current
<1>3. /\ Open /\ ~Open' /\ ~InBlock' /\ InBlock /\ ~Storing /\ Storing' /\ emptied = {}
  BY <1>1 DEF IInv, Blocks, Open, InBlock, Storing, Other, Phase
<1>4. Blocks'
  <2>1. \A t \in Attempt : status'[t] # "active"
    BY <1>1, <1>2 DEF IInv, Blocks, TypeOK
  <2> QED
    BY <1>1, <1>3, <2>1 DEF Blocks
<1>5. Registered'
  BY <1>1, <1>3 DEF Registered
<1>6. /\ Stored = {} /\ Stored' = {}
      /\ Settled' = Settled \cup {attempt}
      /\ \A s, f : ~Waits(s, f) /\ (Waits(s, f)' <=> s \in members[tx[attempt]])
  BY <1>1, <1>3 DEF Stored, Settled, Waits
<1>7. /\ changes'.entries = Merge(changes.entries, own.entries)
      /\ changes'.clear = (changes.clear \/ own.clear)
      /\ changes'.elems = changes.elems \o own.elems
      /\ changes'.ref = IF own.ref = None THEN changes.ref ELSE own.ref
      /\ last'.entries = Merge(last.entries, own.entries)
      /\ last'.clear = (last.clear \/ own.clear)
      /\ last'.elems = last.elems \o own.elems
      /\ last'.ref = IF own.ref = None THEN last.ref ELSE own.ref
      /\ own'.entries = NoEntries /\ own'.elems = <<>> /\ own'.ref = None
  BY <1>1 DEF Apply, NoChange
<1>9. MapInv'
  <2> SUFFICES ASSUME "map" \notin torn PROVE MapInv'
    BY <1>1 DEF MapInv
  <2>1. /\ changes.entries \in Entries(Settled') /\ storage.entries \in Entries(Settled')
        /\ own.entries \in Entries(Settled')
    BY <1>6 DEF IInv, MapInv, Entries
  <2>2. changes'.entries \in Entries(Settled')
    BY <1>7, <2>1, MergeType
  <2>3. own'.entries \in Entries({attempt'})
    BY <1>7 DEF NoEntries, Entries
  <2>4. ASSUME ~last.clear
        PROVE  Merge(storage.entries, changes'.entries) = last'.entries
    BY <1>7, <2>4, MergeMerged DEF IInv, MapInv
  <2>5. ASSUME ~last.clear, failures = 0, "map" \notin missed, ~Waits("map", "entries")'
        PROVE  changes'.entries = NoEntries
    <3>1. changes.entries = NoEntries
      BY <1>6, <2>5 DEF IInv, MapInv
    <3>2. own.entries = NoEntries
      BY <1>3, <1>6, <2>5 DEF IInv, Registered
    <3> QED
      BY <1>7, <2>1, <3>1, <3>2, MergeNone
  <2>6. ~last'.clear => ~last.clear
    BY <1>7
  <2> QED
    BY <1>1, <1>6, <2>1, <2>2, <2>3, <2>4, <2>5, <2>6 DEF MapInv
<1>10. VectorInv'
  <2> SUFFICES ASSUME "vector" \notin torn PROVE VectorInv'
    BY <1>1 DEF VectorInv
  <2> DEFINE T == Settled' \cup {Overwritten}
  <2>1. /\ changes.elems \in Seq(Settled') /\ storage.elems \in Seq(T)
        /\ own.elems \in Seq(Settled')
    <3>1. /\ changes.elems \in Seq(Settled) /\ storage.elems \in Seq(Settled \cup {Overwritten})
          /\ own.elems \in Seq({attempt})
      BY DEF IInv, VectorInv
    <3>2. /\ Settled \subseteq Settled' /\ {attempt} \subseteq Settled'
          /\ Settled \cup {Overwritten} \subseteq T
      BY <1>6
    <3> HIDE DEF T
    <3> QED
      BY <3>1, <3>2, Wider
  <2>2. changes'.elems \in Seq(Settled')
    BY <1>7, <2>1, ConcatProperties
  <2>3. own'.elems \in Seq({attempt'})
    BY <1>7
  <2>4. storage.elems \o changes'.elems = (storage.elems \o changes.elems) \o own.elems
        /\ storage.elems \o changes.elems \in Seq(Value)
    <3>1. storage.elems \o changes.elems \in Seq(Value)
      BY DataFacts, ConcatProperties
    <3>2. \A r, s, t \in Seq(Value) : (r \o s) \o t = r \o (s \o t)
      BY ConcatAssociative
    <3>3. (storage.elems \o changes.elems) \o own.elems
            = storage.elems \o (changes.elems \o own.elems)
      BY <3>2, DataFacts, Zenon
    <3> QED
      BY <1>7, <3>1, <3>3
  <2>5. Covers(storage.elems \o changes'.elems, last'.elems)
    <3>1. Covers(storage.elems \o changes.elems, last.elems)
      BY DEF IInv, VectorInv
    <3> QED
      BY <1>7, <2>4, <3>1, DataFacts, CoversJoined
  <2>6. ASSUME failures = 0, ~twice
        PROVE  Matches(storage.elems \o changes'.elems, last'.elems)
    <3>1. Matches(storage.elems \o changes.elems, last.elems)
      BY <1>3, <2>6 DEF IInv, VectorInv
    <3> QED
      BY <1>7, <2>4, <3>1, DataFacts, MatchesJoined
  <2>7. ASSUME failures = 0, ~twice, "vector" \notin missed, ~Waits("vector", "elems")'
        PROVE  changes'.elems = <<>>
    <3>1. changes.elems = <<>>
      BY <1>6, <2>7 DEF IInv, VectorInv
    <3>2. own.elems = <<>>
      BY <1>3, <1>6, <2>7 DEF IInv, Registered
    <3> QED
      BY <1>7, <3>1, <3>2
  <2> QED
    BY <1>1, <1>6, <2>1, <2>2, <2>3, <2>5, <2>6, <2>7 DEF VectorInv
<1>11. RefInv'
  <2> SUFFICES ASSUME "ref" \notin torn PROVE RefInv'
    BY <1>1 DEF RefInv
  <2>1. own.ref # None => "ref" \in members[tx[attempt]] \cup missed
    BY <1>3 DEF IInv, Registered
  <2> QED
    BY <1>1, <1>6, <1>7, <2>1 DEF IInv, RefInv
<1>12. Cleared'
  BY <1>7 DEF IInv, Cleared
<1> QED
  BY <1>4, <1>5, <1>9, <1>10, <1>11, <1>12 DEF IInv

------------------------------------------------------------------------------
(* The handlers *)

LEMMA RegisterStep ==
  ASSUME TypeOK, IInv, NEW a \in Actor, NEW s \in Structure, Register(a, s)
  PROVE  IInv'
<1> USE RootAssumption DEF None
<1>1. /\ UNCHANGED <<attempt, tx, status, members, root, job, changes, own, dirty,
                     storage, toStore, emptied, failures, committed, last, missed,
                     torn, twice>>
      /\ known' = [known EXCEPT ![a] = s]
      /\ (a = Root => root = "body")
      /\ s \in members[Tx(a)] \/ a \in putting'
      /\ putting \subseteq putting'
  BY DEF Register, Running, putVars, dataVars, ghostVars
<1>2. Open' = Open /\ InBlock' = InBlock /\ Storing' = Storing
  BY <1>1 DEF Open, InBlock, Storing
<1>3. Blocks'
  BY <1>1, <1>2 DEF IInv, Blocks, TypeOK
<1>4. Registered'
  <2>1. ASSUME NEW b \in Actor, known'[b] # "none", b \notin putting', Tx(b)' = tx'[attempt'],
               InBlock
        PROVE  known'[b] \in members'[tx'[attempt']] \cup missed'
    <3>1. Tx(b)' = Tx(b)
      BY <1>1 DEF Tx
    <3>2. CASE b = a
      BY <1>1, <2>1, <3>1, <3>2 DEF TypeOK
    <3>3. CASE b # a
      BY <1>1, <2>1, <3>1, <3>3 DEF IInv, Registered, TypeOK
    <3> QED
      BY <3>2, <3>3
  <2> QED
    BY <1>1, <1>2, <2>1 DEF IInv, Registered
<1>5. MapInv' /\ VectorInv' /\ RefInv' /\ Cleared'
  BY <1>1, <1>2, DataKept
<1> QED
  BY <1>3, <1>4, <1>5 DEF IInv

LEMMA ReadStep ==
  ASSUME TypeOK, IInv, NEW a \in Actor, Read(a)
  PROVE  IInv'
<1>1. UNCHANGED <<attempt, tx, status, members, root, job, known, putting, changes, own,
                  dirty, storage, toStore, emptied, failures, committed, last, missed,
                  torn, twice>>
  BY DEF Read, putVars, dataVars, ghostVars
<1>2. /\ Open' = Open /\ InBlock' = InBlock /\ Storing' = Storing
      /\ \A b : Tx(b)' = Tx(b)
  BY <1>1 DEF Open, InBlock, Storing, Tx
<1>3. Blocks' /\ Registered'
  BY <1>1, <1>2 DEF IInv, Blocks, Registered
<1>4. MapInv' /\ VectorInv' /\ RefInv' /\ Cleared'
  BY <1>1, <1>2, DataKept
<1> QED
  BY <1>3, <1>4 DEF IInv

\* A put that lands, or is lost.
LEMMA PutLandsStep ==
  ASSUME TypeOK, IInv, NEW a \in Actor, PutLands(a)
  PROVE  IInv'
<1> USE RootAssumption DEF None
<1>1. /\ UNCHANGED <<attempt, tx, status, root, job, known, changes, own, dirty,
                     storage, emptied, failures, committed, last, torn, twice>>
      /\ putting' = putting \ {a}
  BY DEF PutLands, dataVars
<1>2. /\ Open' = Open /\ InBlock' = InBlock /\ Storing' = Storing
      /\ \A b : Tx(b)' = Tx(b)
      /\ Stored' = Stored /\ Settled' = Settled
  BY <1>1 DEF Open, InBlock, Storing, Tx, Stored, Settled
<1>3. Tx(a) \in Attempt /\ known[a] \in Structure
  <2>1. known[a] # "none"
    BY DEF TypeOK, PutLands
  <2> QED
    BY <2>1, Current DEF TypeOK
<1> DEFINE all == members[Tx(a)] \cup {known[a]}
<1>4. PICK rest, lost :
        /\ rest \in Landed(a)
        /\ lost = IF a \in raced THEN all \ rest ELSE {}
        /\ members' = [members EXCEPT ![Tx(a)] = rest]
        /\ missed \cup lost \subseteq missed'
        /\ \/ Tx(a) = tx[attempt] /\ toStore' \subseteq toStore \cup {known[a]}
           \/ toStore' = toStore
        /\ toStore \subseteq toStore' \cup missed'
        /\ ~Storing => toStore' = toStore
  BY DEF PutLands, Storing
<1>5. all \subseteq rest \cup missed'
  BY <1>4 DEF Landed
<1>6. \A t \in Attempt : /\ t # Tx(a) => members'[t] = members[t]
                         /\ members[t] \subseteq members'[t] \cup missed'
  BY <1>3, <1>4, <1>5 DEF TypeOK
<1>7. members'[Tx(a)] = rest /\ known[a] \in members'[Tx(a)] \cup missed'
  BY <1>3, <1>4, <1>5 DEF TypeOK
<1>8. Blocks'
  BY <1>1, <1>2 DEF IInv, Blocks
<1>9. Registered'
  <2>1. ASSUME InBlock \/ root = "commit"
        PROVE  /\ members[tx[attempt]] \cup missed
                    \subseteq members'[tx'[attempt']] \cup missed'
    <3>1. tx[attempt] \in Attempt
      <4>1. root # "idle"
        BY <2>1, ActorAssumption DEF InBlock, Open, Other, Phase
      <4> QED
        BY <4>1, Current DEF TypeOK
    <3> QED
      BY <1>1, <1>4, <1>6, <3>1
  <2>2. ASSUME NEW b \in Actor, known'[b] # "none", b \notin putting', Tx(b)' = tx'[attempt'],
               InBlock
        PROVE  known'[b] \in members'[tx'[attempt']] \cup missed'
    <3>1. CASE b = a
      BY <1>1, <1>2, <1>7, <2>2, <3>1
    <3>2. CASE b # a
      BY <1>1, <1>2, <2>1, <2>2, <3>2 DEF IInv, Registered
    <3> QED
      BY <3>1, <3>2
  <2>3. root = "commit" => toStore' \subseteq members'[tx'[attempt']] \cup missed'
    <3> SUFFICES ASSUME root = "commit"
                 PROVE  toStore' \subseteq members'[tx'[attempt']] \cup missed'
      OBVIOUS
    <3>1. toStore \subseteq members[tx[attempt]] \cup missed
      BY DEF IInv, Registered
    <3>2. Tx(a) = tx[attempt] => known[a] \in members'[tx'[attempt']] \cup missed'
      BY <1>1, <1>7
    <3> QED
      BY <1>4, <2>1, <3>1, <3>2
  <2> QED
    BY <1>1, <1>2, <2>1, <2>2, <2>3 DEF IInv, Registered
<1>10. \A s, f : s \notin missed' /\ ~Waits(s, f)' => s \notin missed /\ ~Waits(s, f)
  BY <1>1, <1>2, <1>4 DEF Waits
<1>11. MapInv'
  BY <1>1, <1>2, <1>10 DEF IInv, MapInv
<1>12. VectorInv'
  BY <1>1, <1>2, <1>10 DEF IInv, VectorInv
<1>13. RefInv'
  BY <1>1, <1>2, <1>10 DEF IInv, RefInv
<1>14. Cleared'
  BY <1>1 DEF IInv, Cleared
<1> QED
  BY <1>8, <1>9, <1>11, <1>12, <1>13, <1>14 DEF IInv

LEMMA UpdateStep ==
  ASSUME TypeOK, IInv, NEW a \in Actor, Update(a)
  PROVE  IInv'
<1> USE RootAssumption DEF None
<1>1. /\ UNCHANGED <<attempt, tx, status, members, root, job, putting, changes, own,
                     dirty, toStore, emptied, failures, committed, last, missed,
                     torn, twice>>
      /\ known' = [known EXCEPT ![a] = "none"]
  BY DEF Update, putVars, ghostVars
<1>2. PICK i \in DOMAIN storage.elems :
        storage' = [storage EXCEPT !.elems[i] = Overwritten]
  BY DEF Update
<1>3. /\ Open' = Open /\ InBlock' = InBlock /\ Storing' = Storing
      /\ \A b : Tx(b)' = Tx(b)
      /\ Stored' = Stored /\ Settled' = Settled
      /\ \A s, f : Waits(s, f)' = Waits(s, f)
  BY <1>1 DEF Open, InBlock, Storing, Tx, Stored, Settled, Waits
<1>4. /\ \A b \in Actor : known'[b] # "none" => known'[b] = known[b]
      /\ known[Root] = "none" => known'[Root] = "none"
  BY <1>1 DEF TypeOK
<1>5. Blocks'
  BY <1>1, <1>3, <1>4 DEF IInv, Blocks
<1>6. Registered'
  BY <1>1, <1>3, <1>4 DEF IInv, Registered
<1>7. /\ storage'.entries = storage.entries /\ storage'.ref = storage.ref
      /\ storage'.elems = [storage.elems EXCEPT ![i] = Overwritten]
  BY <1>2 DEF TypeOK, Contents
<1>8. MapInv' /\ RefInv'
  <2>1. MapInv'
    BY <1>1, <1>3, <1>7 DEF IInv, MapInv
  <2>2. RefInv'
    BY <1>1, <1>3, <1>7 DEF IInv, RefInv
  <2> QED
    BY <2>1, <2>2
<1>9. VectorInv'
  <2> SUFFICES ASSUME "vector" \notin torn PROVE VectorInv'
    BY <1>1 DEF VectorInv
  <2> DEFINE S == Settled \cup {Overwritten}
  <2>1. storage'.elems \in Seq(S)
    <3>1. storage.elems \in Seq(S)
      BY DEF IInv, VectorInv
    <3>2. i \in 1 .. Len(storage.elems) /\ Overwritten \in S
      BY <3>1, LenProperties
    <3> QED
      BY <1>7, <3>1, <3>2, ExceptSeq
  <2>2. ASSUME NEW t \in Seq(Value)
        PROVE  /\ Covers(storage'.elems \o t, storage.elems \o t)
               /\ storage'.elems \in Seq(Value)
               /\ \A l \in Seq(Value) : Matches(storage.elems \o t, l)
                                          => Matches(storage'.elems \o t, l)
    <3>1. Overwritten \in Value /\ storage.elems \in Seq(Value)
      BY DataFacts DEF Value
    <3> QED
      BY <1>7, <3>1, CoversOverwritten
  <2>3. /\ Covers(storage'.elems \o changes.elems, storage.elems \o changes.elems)
        /\ Matches(storage.elems \o changes.elems, last.elems)
             => Matches(storage'.elems \o changes.elems, last.elems)
    BY <2>2, DataFacts
  <2>4. /\ Covers(storage'.elems, storage.elems)
        /\ Matches(storage.elems, last.elems) => Matches(storage'.elems, last.elems)
    <3>1. /\ <<>> \in Seq(Value)
          /\ storage.elems \o <<>> = storage.elems /\ storage'.elems \o <<>> = storage'.elems
      BY <2>2, NoElements, DataFacts
    <3> QED
      BY <2>2, <3>1, DataFacts
  <2>5. Covers(storage'.elems \o changes.elems, last.elems)
    BY <2>3, CoversTransitive DEF IInv, VectorInv
  <2>6. "elems" \in Stored => Covers(storage'.elems, last.elems)
    BY <2>4, CoversTransitive DEF IInv, VectorInv
  <2> QED
    BY <1>1, <1>3, <2>1, <2>3, <2>4, <2>5, <2>6 DEF IInv, VectorInv
<1>10. Cleared'
  BY <1>1 DEF IInv, Cleared
<1> QED
  BY <1>5, <1>6, <1>8, <1>9, <1>10 DEF IInv

\* What is written is a change of one reference, and changes it.
LEMMA WritesOne ==
  ASSUME TypeOK, NEW a \in Actor, NEW s \in Structure, NEW f \in Refs(s),
         NEW c \in Writes(a, s, f), job[a] # None
  PROVE  /\ f = "entries" => c.entries \in Entries({Tag(a)}) /\ c # NoChange
         /\ f # "entries" => c.entries = NoEntries
         /\ f = "elems" => c.elems = <<Tag(a)>> /\ c # NoChange
         /\ f # "elems" => c.elems = <<>>
         /\ f = "ref" => c.ref = Tag(a) /\ c # NoChange
         /\ f # "ref" => c.ref = None
         /\ f = "clear" => c.clear
         /\ f # "clear" => ~c.clear
<1>1. Tag(a) # None
  BY BoundAssumption DEF TypeOK, Tag, None, Late
<1>2. ASSUME NEW k \in Key
      PROVE  /\ [NoEntries EXCEPT ![k] = Tag(a)] \in Entries({Tag(a)})
             /\ [NoEntries EXCEPT ![k] = Tag(a)] # NoEntries
  BY <1>1 DEF NoEntries, Entries
<1>3. /\ [NoChange EXCEPT !.elems = <<Tag(a)>>].elems = <<Tag(a)>>
      /\ <<Tag(a)>> # <<>>
  BY DEF NoChange
<1>4. CASE f = "entries"
  <2>1. PICK k \in Key : c = [NoChange EXCEPT !.entries[k] = Tag(a)]
    BY <1>4 DEF Writes, Puts
  <2>2. /\ c.entries = [NoEntries EXCEPT ![k] = Tag(a)]
        /\ c.elems = <<>> /\ c.ref = None /\ ~c.clear /\ NoChange.entries = NoEntries
    BY <2>1 DEF NoChange
  <2> QED
    BY <1>2, <1>4, <2>2
<1>5. CASE f = "elems"
  BY <1>3, <1>5 DEF Writes, Adds, NoChange
<1>6. CASE f = "ref"
  BY <1>1, <1>6 DEF Writes, Swaps, NoChange
<1>7. CASE f = "clear"
  BY <1>7 DEF Writes, Clears, NoChange
<1>8. CASE f \notin {"entries", "elems", "ref", "clear"}
  BY <1>8 DEF Writes, NoChange
<1> QED
  BY <1>4, <1>5, <1>6, <1>7, <1>8

\* A reference belongs to one structure.
LEMMA RefsApart ==
  ASSUME NEW s \in Structure, NEW f \in Refs(s)
  PROVE  /\ s = "map" <=> f \in {"entries", "removed", "clear"}
         /\ s = "vector" <=> f = "elems"
         /\ s = "ref" <=> f = "ref"
  BY DEF Structure, Refs

\* A reference that is set to what it is.
LEMMA SetWhole ==
  ASSUME NEW data, NEW old, NEW f, Set(data, f, old) = data
  PROVE  /\ f = "entries" => old.entries = data.entries
         /\ f = "elems" => old.elems = data.elems
         /\ f = "ref" => old.ref = data.ref
<1>1. /\ Set(data, f, old).entries = IF f = "entries" THEN old.entries ELSE data.entries
      /\ Set(data, f, old).elems = IF f = "elems" THEN old.elems ELSE data.elems
      /\ Set(data, f, old).ref = IF f = "ref" THEN old.ref ELSE data.ref
  BY DEF Set
<1> QED
  BY <1>1

\* Blocks and registrations, whatever is written.
LEMMA WriteBlocks ==
  ASSUME TypeOK, IInv, NEW a \in Actor, NEW s \in Structure, NEW f \in Refs(s),
         NEW c \in Writes(a, s, f), Write(a, s, f, c)
  PROVE  Blocks' /\ Registered'
<1> USE RootAssumption DEF None
<1>1. /\ UNCHANGED <<attempt, tx, status, members, root, job, putting, storage, toStore,
                     emptied, failures, committed, twice>>
      /\ known' = [known EXCEPT ![a] = "none"] /\ known[a] = s /\ a \notin putting
      /\ missed \subseteq missed' /\ job[a] # None
  BY DEF Write, putVars, Running
<1>2. /\ Open' = Open /\ InBlock' = InBlock /\ Storing' = Storing
      /\ \A b : Tx(b)' = Tx(b)
  BY <1>1 DEF Open, InBlock, Storing, Tx
<1>3. /\ \A b \in Actor : known'[b] # "none" => known'[b] = known[b]
      /\ known[Root] = "none" => known'[Root] = "none"
  BY <1>1 DEF TypeOK
<1>4. \/ own' = own
      \/ /\ Open /\ Tx(a) = tx[attempt]
         /\ \E old : own' = Set(own, f, Apply(old, c))
  <2>1. CASE own' = own
    BY <2>1
  <2>2. CASE own' # own
    <3>1. status[Tx(a)] = "active" /\ \E old : own' = Set(own, f, Apply(old, c))
      BY <2>2 DEF Write
    <3>2. Tx(a) \in Attempt
      BY <1>1, Current
    <3> QED
      BY <3>1, <3>2 DEF IInv, Blocks
  <2> QED
    BY <2>1, <2>2
<1>5. Blocks'
  BY <1>1, <1>2, <1>3, <1>4 DEF IInv, Blocks
<1>6. InBlock => /\ own'.entries # NoEntries => "map" \in members[tx[attempt]] \cup missed
                 /\ own'.elems # <<>> => "vector" \in members[tx[attempt]] \cup missed
                 /\ own'.ref # None => "ref" \in members[tx[attempt]] \cup missed
  <2>1. CASE own' = own
    BY <2>1 DEF IInv, Registered
  <2>2. ASSUME InBlock, Tx(a) = tx[attempt], NEW old, own' = Set(own, f, Apply(old, c))
        PROVE  /\ own'.entries # NoEntries => "map" \in members[tx[attempt]] \cup missed
               /\ own'.elems # <<>> => "vector" \in members[tx[attempt]] \cup missed
               /\ own'.ref # None => "ref" \in members[tx[attempt]] \cup missed
    <3>1. s \in members[tx[attempt]] \cup missed
      BY <1>1, <2>2 DEF IInv, Registered, Structure
    <3>2. /\ f # "entries" => own'.entries = own.entries
          /\ f # "elems" => own'.elems = own.elems
          /\ f # "ref" => own'.ref = own.ref
      BY <2>2 DEF Set
    <3> QED
      BY <2>2, <3>1, <3>2, RefsApart DEF IInv, Registered
  <2> QED
    BY <1>4, <2>1, <2>2
<1>7. Registered'
  BY <1>1, <1>2, <1>3, <1>6 DEF IInv, Registered
<1> QED
  BY <1>5, <1>7

\* A write in the transaction of the block.
LEMMA WriteInside ==
  ASSUME TypeOK, IInv, NEW a \in Actor, NEW s \in Structure, NEW f \in Refs(s),
         NEW c \in Writes(a, s, f), Write(a, s, f, c), Inside(a)
  PROVE  MapInv' /\ VectorInv' /\ RefInv' /\ Cleared'
<1>1. /\ UNCHANGED <<attempt, root, changes, dirty, last, missed, storage, toStore,
                     emptied, failures, committed, twice>>
      /\ job[a] # None
  BY DEF Write, Running
<1>2. CASE UNCHANGED <<own, torn>>
  <2>1. Storing' = Storing
    BY <1>1 DEF Storing
  <2> QED
    BY <1>1, <1>2, <2>1, DataKept
<1>3. ASSUME NEW old \in Change, own' = Set(own, f, Apply(old, c)), Tear(s, own, f, old)
      PROVE  MapInv' /\ VectorInv' /\ RefInv' /\ Cleared'
  <2>1. /\ Stored' = Stored /\ Settled' = Settled
        /\ \A u, g : Waits(u, g)' = Waits(u, g)
    BY <1>1 DEF Storing, Stored, Settled, Waits
  <2>2. torn \subseteq torn' /\ (s \notin torn' => Set(own, f, old) = own)
    BY <1>3 DEF Tear
  <2>3. own \in Change /\ Tag(a) = attempt
    BY DEF TypeOK, Tag
  <2>4. /\ f = "entries" => c.entries \in Entries({attempt})
        /\ f = "elems" => c.elems = <<attempt>>
        /\ f = "ref" => c.ref = attempt
    <3>1. /\ f = "entries" => c.entries \in Entries({Tag(a)}) /\ c # NoChange
          /\ f # "entries" => c.entries = NoEntries
          /\ f = "elems" => c.elems = <<Tag(a)>> /\ c # NoChange
          /\ f # "elems" => c.elems = <<>>
          /\ f = "ref" => c.ref = Tag(a) /\ c # NoChange
          /\ f # "ref" => c.ref = None
          /\ f = "clear" => c.clear
          /\ f # "clear" => ~c.clear
      BY <1>1, WritesOne
    <3>2. {Tag(a)} = {attempt}
      BY <2>3
    <3> QED
      BY <2>3, <3>1, <3>2
  <2>5. /\ f # "entries" => own'.entries = own.entries
        /\ f # "elems" => own'.elems = own.elems
        /\ f # "ref" => own'.ref = own.ref
    BY <1>3 DEF Set
  <2>6. ASSUME s \notin torn'
        PROVE  /\ f = "entries" => own'.entries = Merge(own.entries, c.entries)
               /\ f = "elems" => own'.elems = own.elems \o c.elems
               /\ f = "ref" => own'.ref = IF c.ref = None THEN own.ref ELSE c.ref
    <3>1. Set(own, f, old) = own
      BY <2>2, <2>6
    <3>2. /\ f = "entries" => old.entries = own.entries
          /\ f = "elems" => old.elems = own.elems
          /\ f = "ref" => old.ref = own.ref
      BY <3>1, SetWhole
    <3> QED
      BY <1>3, <3>2 DEF Set, Apply
  <2>7. MapInv'
    <3> SUFFICES ASSUME "map" \notin torn' PROVE MapInv'
      BY DEF MapInv
    <3>1. own.entries \in Entries({attempt})
      BY <2>2 DEF IInv, MapInv
    <3>2. own'.entries \in Entries({attempt})
      <4>1. CASE f = "entries"
        BY <2>4, <2>6, <3>1, <4>1, MergeType, RefsApart
      <4>2. CASE f # "entries"
        BY <2>5, <3>1, <4>2
      <4> QED
        BY <4>1, <4>2
    <3> QED
      BY <1>1, <2>1, <2>2, <3>2 DEF IInv, MapInv
  <2>8. VectorInv'
    <3> SUFFICES ASSUME "vector" \notin torn' PROVE VectorInv'
      BY DEF VectorInv
    <3>1. own.elems \in Seq({attempt})
      BY <2>2 DEF IInv, VectorInv
    <3>2. own'.elems \in Seq({attempt})
      <4>1. CASE f = "elems"
        <5>1. <<attempt>> \in Seq({attempt})
          OBVIOUS
        <5>2. own'.elems = own.elems \o <<attempt>>
          BY <2>4, <2>6, <4>1, RefsApart
        <5> QED
          BY <3>1, <5>1, <5>2, ConcatProperties
      <4>2. CASE f # "elems"
        BY <2>5, <3>1, <4>2
      <4> QED
        BY <4>1, <4>2
    <3> QED
      BY <1>1, <2>1, <2>2, <3>2 DEF IInv, VectorInv
  <2>9. RefInv'
    <3> SUFFICES ASSUME "ref" \notin torn' PROVE RefInv'
      BY DEF RefInv
    <3>1. own'.ref \in {attempt, None}
      BY <2>2, <2>4, <2>5, <2>6, RefsApart DEF IInv, RefInv
    <3> QED
      BY <1>1, <2>1, <2>2, <3>1 DEF IInv, RefInv
  <2>10. Cleared'
    BY <1>1 DEF IInv, Cleared
  <2> QED
    BY <2>7, <2>8, <2>9, <2>10
<1>4. \/ UNCHANGED <<own, torn>>
      \/ \E old \in Change : own' = Set(own, f, Apply(old, c)) /\ Tear(s, own, f, old)
  <2>1. own \in Change /\ saw[a].own \in Change
    BY DEF TypeOK
  <2> QED
    BY <2>1 DEF Write
<1> QED
  BY <1>2, <1>3, <1>4

\* A write outside of it is a transaction of its own, and has committed.
LEMMA WriteOutside ==
  ASSUME TypeOK, IInv, NEW a \in Actor, NEW s \in Structure, NEW f \in Refs(s),
         NEW c \in Writes(a, s, f), Write(a, s, f, c), ~Inside(a)
  PROVE  MapInv' /\ VectorInv' /\ RefInv' /\ Cleared'
<1> USE DEF None
<1>1. /\ UNCHANGED <<attempt, root, own, storage, toStore, emptied, failures, committed,
                     twice>>
      /\ last' = Apply(last, c)
      /\ dirty' = IF root \in {"idle", "undone"} THEN dirty ELSE dirty \cup {f}
      /\ missed' = IF c = NoChange THEN missed ELSE missed \cup {s}
      /\ job[a] # None
  BY DEF Write, Running
<1>2. PICK old \in Change : changes' = Set(changes, f, Apply(old, c))
                            /\ Tear(s, changes, f, old)
  <2>1. changes \in Change /\ Apply(saw[a].base, saw[a].own) \in Change
    BY ApplyType DEF TypeOK
  <2> QED
    BY <2>1 DEF Write
<1>3. /\ Settled' = Settled
      /\ \A u, g : Waits(u, g)' = Waits(u, g)
  BY <1>1 DEF Storing, Settled, Waits
<1>4. Stored' \subseteq Stored /\ f \notin Stored'
  <2>1. CASE root \in {"idle", "undone"}
    <3>1. emptied = {}
      BY <2>1 DEF IInv, Blocks, Storing
    <3> QED
      BY <1>1, <3>1 DEF Stored
  <2>2. CASE root \notin {"idle", "undone"}
    BY <1>1, <2>2 DEF Stored
  <2> QED
    BY <2>1, <2>2
<1>5. torn \subseteq torn' /\ (s \notin torn' => Set(changes, f, old) = changes)
  BY <1>2 DEF Tear
<1>6. changes \in Change /\ Tag(a) = Late /\ Late \in Settled /\ Late # None
  BY BoundAssumption DEF TypeOK, Tag, Settled, Late
<1>7. /\ f = "entries" => c.entries \in Entries({Late}) /\ s \in missed'
      /\ f # "entries" => c.entries = NoEntries
      /\ f = "elems" => c.elems = <<Late>> /\ s \in missed'
      /\ f # "elems" => c.elems = <<>>
      /\ f = "ref" => c.ref = Late /\ s \in missed'
      /\ f # "ref" => c.ref = None
      /\ f = "clear" => c.clear
      /\ f # "clear" => ~c.clear
  <2>1. /\ f = "entries" => c.entries \in Entries({Tag(a)}) /\ c # NoChange
        /\ f # "entries" => c.entries = NoEntries
        /\ f = "elems" => c.elems = <<Tag(a)>> /\ c # NoChange
        /\ f # "elems" => c.elems = <<>>
        /\ f = "ref" => c.ref = Tag(a) /\ c # NoChange
        /\ f # "ref" => c.ref = None
        /\ f = "clear" => c.clear
        /\ f # "clear" => ~c.clear
    BY <1>1, WritesOne
  <2>2. {Tag(a)} = {Late}
    BY <1>6
  <2> QED
    BY <1>1, <1>6, <2>1, <2>2
<1>8. /\ f # "entries" => changes'.entries = changes.entries
      /\ f # "elems" => changes'.elems = changes.elems
      /\ f # "ref" => changes'.ref = changes.ref
      /\ f # "clear" => changes'.clear = changes.clear
  BY <1>2 DEF Set
<1>9. ASSUME s \notin torn'
      PROVE  /\ f = "entries" => changes'.entries = Merge(changes.entries, c.entries)
             /\ f = "elems" => changes'.elems = changes.elems \o c.elems
             /\ f = "ref" => changes'.ref = IF c.ref = None THEN changes.ref ELSE c.ref
  <2>1. Set(changes, f, old) = changes
    BY <1>5, <1>9
  <2>2. /\ f = "entries" => old.entries = changes.entries
        /\ f = "elems" => old.elems = changes.elems
        /\ f = "ref" => old.ref = changes.ref
    BY <2>1, SetWhole
  <2> QED
    BY <1>2, <2>2 DEF Set, Apply
<1>10. /\ last'.entries = Merge(last.entries, c.entries)
       /\ last'.clear = (last.clear \/ c.clear)
       /\ last'.elems = last.elems \o c.elems
       /\ last'.ref = IF c.ref = None THEN last.ref ELSE c.ref
  BY <1>1 DEF Apply
<1>11. missed \subseteq missed'
  BY <1>1
<1>12. MapInv'
  <2> SUFFICES ASSUME "map" \notin torn' PROVE MapInv'
    BY DEF MapInv
  <2>1. /\ changes.entries \in Entries(Settled) /\ storage.entries \in Entries(Settled)
        /\ own.entries \in Entries({attempt})
        /\ ~last.clear => Merge(storage.entries, changes.entries) = last.entries
    BY <1>5 DEF IInv, MapInv
  <2>2. CASE f = "entries"
    <3>1. c.entries \in Entries(Settled)
      BY <1>6, <1>7, <2>2, WiderEntries
    <3>2. changes'.entries = Merge(changes.entries, c.entries) /\ "map" \in missed'
      BY <1>7, <1>9, <2>2, RefsApart
    <3>3. changes'.entries \in Entries(Settled)
      BY <2>1, <3>1, <3>2, MergeType
    <3>4. ~last.clear => Merge(storage.entries, changes'.entries) = last'.entries
      BY <1>10, <2>1, <3>2, MergeMerged
    <3> QED
      BY <1>1, <1>3, <1>4, <1>10, <2>1, <2>2, <3>2, <3>3, <3>4 DEF MapInv
  <2>3. CASE f # "entries"
    <3>1. last'.entries = last.entries
      BY <1>7, <1>10, <2>3, DataFacts, MergeNone
    <3> QED
      BY <1>1, <1>3, <1>4, <1>5, <1>8, <1>10, <1>11, <2>1, <2>3, <3>1 DEF IInv, MapInv
  <2> QED
    BY <2>2, <2>3
<1>13. VectorInv'
  <2> SUFFICES ASSUME "vector" \notin torn' PROVE VectorInv'
    BY DEF VectorInv
  <2>1. /\ changes.elems \in Seq(Settled)
        /\ storage.elems \in Seq(Settled \cup {Overwritten})
        /\ own.elems \in Seq({attempt})
        /\ Covers(storage.elems \o changes.elems, last.elems)
    BY <1>5 DEF IInv, VectorInv
  <2>2. CASE f = "elems"
    <3>1. changes'.elems = changes.elems \o <<Late>> /\ "vector" \in missed'
          /\ last'.elems = last.elems \o <<Late>>
      BY <1>7, <1>9, <1>10, <2>2, RefsApart
    <3>2. <<Late>> \in Seq(Settled) /\ <<Late>> \in Seq(Value)
      BY <1>6 DEF Value
    <3>3. changes'.elems \in Seq(Settled)
      BY <2>1, <3>1, <3>2, ConcatProperties
    <3>4. storage.elems \o changes'.elems = (storage.elems \o changes.elems) \o <<Late>>
          /\ storage.elems \o changes.elems \in Seq(Value)
      <4>1. storage.elems \o changes.elems \in Seq(Value)
        BY DataFacts, ConcatProperties
      <4>2. \A r, t, u \in Seq(Value) : (r \o t) \o u = r \o (t \o u)
        BY ConcatAssociative
      <4>3. (storage.elems \o changes.elems) \o <<Late>>
              = storage.elems \o (changes.elems \o <<Late>>)
        BY <3>2, <4>2, DataFacts, Zenon
      <4> QED
        BY <3>1, <4>1, <4>3
    <3>5. Covers(storage.elems \o changes'.elems, last'.elems)
      BY <2>1, <3>1, <3>2, <3>4, DataFacts, CoversJoined
    <3>6. Matches(storage.elems \o changes.elems, last.elems)
            => Matches(storage.elems \o changes'.elems, last'.elems)
      BY <3>1, <3>2, <3>4, DataFacts, MatchesJoined
    <3> QED
      BY <1>1, <1>3, <1>4, <1>5, <2>1, <2>2, <3>1, <3>3, <3>5, <3>6 DEF IInv, VectorInv
  <2>3. CASE f # "elems"
    <3>1. last'.elems = last.elems
      BY <1>7, <1>10, <2>3, DataFacts, NoElements
    <3> QED
      BY <1>1, <1>3, <1>4, <1>5, <1>8, <1>11, <2>1, <2>3, <3>1 DEF IInv, VectorInv
  <2> QED
    BY <2>2, <2>3
<1>14. RefInv'
  <2> SUFFICES ASSUME "ref" \notin torn' PROVE RefInv'
    BY DEF RefInv
  <2>1. CASE f = "ref"
    <3>1. changes'.ref = Late /\ last'.ref = Late /\ "ref" \in missed'
      BY <1>6, <1>7, <1>9, <1>10, <2>1, RefsApart
    <3> QED
      BY <1>1, <1>3, <1>4, <1>5, <1>6, <2>1, <3>1 DEF IInv, RefInv
  <2>2. CASE f # "ref"
    BY <1>1, <1>3, <1>4, <1>5, <1>7, <1>8, <1>10, <1>11, <2>2 DEF IInv, RefInv
  <2> QED
    BY <2>1, <2>2
<1>15. Cleared'
  BY <1>7, <1>8, <1>10, DataFacts DEF IInv, Cleared
<1> QED
  BY <1>12, <1>13, <1>14, <1>15

LEMMA HandlerStep ==
  ASSUME TypeOK, IInv, NEW a \in Actor, Handler(a)
  PROVE  IInv'
<1>1. ASSUME NEW s \in Structure, NEW f \in Refs(s), NEW c \in Writes(a, s, f),
             Write(a, s, f, c)
      PROVE  IInv'
  <2>1. Blocks' /\ Registered'
    BY <1>1, WriteBlocks
  <2>2. MapInv' /\ VectorInv' /\ RefInv' /\ Cleared'
    BY <1>1, WriteInside, WriteOutside
  <2> QED
    BY <2>1, <2>2 DEF IInv
<1> QED
  BY <1>1, HandlerSteps, RegisterStep, PutLandsStep, ReadStep, UpdateStep

------------------------------------------------------------------------------
(* The commit in the storage *)

LEMMA Whole ==
  ASSUME NEW S, NEW s \in Seq(S)
  PROVE  SubSeq(s, 1, Len(s)) = s
<1>1. Len(s) \in Nat
  BY LenProperties
<1>2. \A i \in 1 .. Len(s) : s[i] \in S
  BY ElementOfSeq
<1> PICK t : t = SubSeq(s, 1, Len(s))
  OBVIOUS
<1>3. t \in Seq(S) /\ Len(t) = Len(s) /\ \A i \in 1 .. Len(s) : t[i] = s[i]
  <2>1. /\ t \in Seq(S)
        /\ Len(t) = IF 1 <= Len(s) THEN Len(s) - 1 + 1 ELSE 0
        /\ \A i \in 1 .. Len(s) - 1 + 1 : t[i] = s[1 + i - 1]
    BY <1>1, <1>2, SubSeqProperties
  <2>2. Len(t) = Len(s) /\ Len(s) - 1 + 1 = Len(s)
    BY <1>1, <2>1
  <2>3. \A i \in 1 .. Len(s) : 1 + i - 1 = i
    BY <1>1
  <2> QED
    BY <2>1, <2>2, <2>3
<1> QED
  BY <1>3, SeqEqual

LEMMA ViewIs ==
  /\ View.entries = IF "entries" \in emptied THEN NoEntries ELSE changes.entries
  /\ View.clear = changes.clear
  /\ View.elems = IF "elems" \in emptied THEN <<>> ELSE changes.elems
  /\ View.ref = IF "ref" \in emptied THEN None ELSE changes.ref
  BY DEF View, Without

\* What is stored of one structure leaves the others alone.
LEMMA StoredAlone ==
  ASSUME TypeOK
  PROVE  /\ \A d \in {MapInserted, MapStored} :
              d.elems = storage.elems /\ d.ref = storage.ref
         /\ \A n : VectorStored(n).entries = storage.entries
                   /\ VectorStored(n).ref = storage.ref
                   /\ VectorStored(n).elems
                        = storage.elems \o SubSeq(View.elems, 1, n)
         /\ RefStored.entries = storage.entries /\ RefStored.elems = storage.elems
         /\ RefStored.ref = IF View.ref = None THEN storage.ref ELSE View.ref
         /\ MapInserted.entries = Merge(storage.entries, View.entries)
         /\ MapStored.entries = IF View.clear THEN NoEntries
                                ELSE Merge(storage.entries, View.entries)
<1> PICK d \in Contents : d = storage
  BY DEF TypeOK
<1>1. ASSUME NEW x
      PROVE  /\ [d EXCEPT !.entries = x].elems = d.elems
             /\ [d EXCEPT !.entries = x].ref = d.ref
             /\ [d EXCEPT !.entries = x].entries = x
             /\ [d EXCEPT !.elems = x].entries = d.entries
             /\ [d EXCEPT !.elems = x].ref = d.ref
             /\ [d EXCEPT !.elems = x].elems = x
             /\ [d EXCEPT !.ref = x].entries = d.entries
             /\ [d EXCEPT !.ref = x].elems = d.elems
             /\ [d EXCEPT !.ref = x].ref = x
  BY DEF Contents
<1>2. /\ MapInserted = [d EXCEPT !.entries = Merge(d.entries, View.entries)]
      /\ MapStored = IF View.clear THEN [d EXCEPT !.entries = NoEntries] ELSE MapInserted
      /\ \A n : VectorStored(n) = [d EXCEPT !.elems = d.elems \o SubSeq(View.elems, 1, n)]
      /\ RefStored = [d EXCEPT !.ref = IF View.ref = None THEN d.ref ELSE View.ref]
  BY DEF MapInserted, MapStored, VectorStored, RefStored
<1>3. /\ MapInserted.elems = d.elems /\ MapInserted.ref = d.ref
      /\ MapInserted.entries = Merge(d.entries, View.entries)
  BY <1>1, <1>2
<1>4. /\ MapStored.elems = d.elems /\ MapStored.ref = d.ref
      /\ MapStored.entries = IF View.clear THEN NoEntries
                             ELSE Merge(d.entries, View.entries)
  BY <1>1, <1>2, <1>3
<1>5. ASSUME NEW n
      PROVE  /\ VectorStored(n).entries = d.entries /\ VectorStored(n).ref = d.ref
             /\ VectorStored(n).elems = d.elems \o SubSeq(View.elems, 1, n)
  BY <1>1, <1>2
<1>6. /\ RefStored.entries = d.entries /\ RefStored.elems = d.elems
      /\ RefStored.ref = IF View.ref = None THEN d.ref ELSE View.ref
  BY <1>1, <1>2
<1> QED
  BY <1>3, <1>4, <1>5, <1>6

LEMMA StoredMap ==
  ASSUME TypeOK, IInv, "map" \notin torn, "entries" \in emptied => "entries" \in Stored,
         NEW d, d \in {MapInserted, MapStored}
  PROVE  /\ d.entries \in Entries(Settled)
         /\ ~last.clear => /\ d.entries = last.entries
                           /\ Merge(d.entries, changes.entries) = last.entries
<1>1. /\ changes.entries \in Entries(Settled) /\ storage.entries \in Entries(Settled)
      /\ NoEntries \in Entries(Settled)
  BY DEF IInv, MapInv, NoEntries, Entries
<1>2. Merge(storage.entries, View.entries) \in Entries(Settled)
  BY <1>1, ViewIs, MergeType
<1>3. d.entries \in Entries(Settled)
  BY <1>1, <1>2, StoredAlone
<1>4. ASSUME ~last.clear
      PROVE  d.entries = last.entries /\ Merge(d.entries, changes.entries) = last.entries
  <2>1. d.entries = Merge(storage.entries, View.entries)
    BY <1>4, StoredAlone, ViewIs DEF IInv, Cleared
  <2>2. Merge(storage.entries, changes.entries) = last.entries
    BY <1>4 DEF IInv, MapInv
  <2>3. CASE "entries" \in emptied
    <3>1. d.entries = storage.entries
      BY <1>1, <2>1, <2>3, ViewIs, MergeNone
    <3> QED
      BY <1>4, <2>2, <2>3, <3>1 DEF IInv, MapInv
  <2>4. CASE "entries" \notin emptied
    <3>1. d.entries = Merge(storage.entries, changes.entries)
      BY <2>1, <2>4, ViewIs
    <3>2. Merge(Merge(storage.entries, changes.entries), changes.entries)
            = Merge(storage.entries, changes.entries)
      BY MergeTwice
    <3> QED
      BY <2>2, <3>1, <3>2
  <2> QED
    BY <2>3, <2>4
<1> QED
  BY <1>3, <1>4

LEMMA StoredVector ==
  ASSUME TypeOK, IInv, "vector" \notin torn, NEW n \in 0 .. Len(View.elems),
         NEW d, d = VectorStored(n).elems
  PROVE  /\ d \in Seq(Settled \cup {Overwritten})
         /\ Covers(d \o changes.elems, last.elems)
<1> PICK c : c = SubSeq(View.elems, 1, n)
  OBVIOUS
<1>1. d = storage.elems \o c
  BY StoredAlone
<1>2. /\ changes.elems \in Seq(Settled) /\ <<>> \in Seq(Settled)
      /\ storage.elems \in Seq(Settled \cup {Overwritten})
      /\ Covers(storage.elems \o changes.elems, last.elems)
  BY DEF IInv, VectorInv
<1>3. View.elems \in Seq(Settled) /\ View.elems \in Seq(Value)
  BY <1>2, ViewIs, DataFacts
<1>4. c \in Seq(Settled) /\ c \in Seq(Value)
  BY <1>3, Part
<1>5. d \in Seq(Settled \cup {Overwritten})
  <2>1. c \in Seq(Settled \cup {Overwritten})
    BY <1>4, Wider
  <2> QED
    BY <1>1, <1>2, <2>1, ConcatProperties
<1>6. Covers((storage.elems \o c) \o changes.elems, storage.elems \o changes.elems)
  BY <1>4, DataFacts, CoversInserted
<1>7. Covers(d \o changes.elems, last.elems)
  BY <1>1, <1>2, <1>6, CoversTransitive
<1> QED
  BY <1>5, <1>7

LEMMA StoredWholly ==
  ASSUME TypeOK, IInv, "vector" \notin torn, "elems" \in emptied => "elems" \in Stored,
         NEW d, d = VectorStored(Len(View.elems)).elems
  PROVE  /\ Covers(d, last.elems)
         /\ failures = 0 /\ ~twice => Matches(d, last.elems)
<1>1. View.elems \in Seq(Value) /\ storage.elems \in Seq(Value)
  BY NoElements, ViewIs, DataFacts
<1>2. d = storage.elems \o View.elems
  BY <1>1, StoredAlone, Whole
<1>3. CASE "elems" \in emptied
  <2>1. d = storage.elems
    BY <1>1, <1>2, <1>3, ViewIs, NoElements
  <2> QED
    BY <1>3, <2>1 DEF IInv, VectorInv
<1>4. CASE "elems" \notin emptied
  <2>1. d = storage.elems \o changes.elems
    BY <1>2, <1>4, ViewIs
  <2> QED
    BY <1>4, <2>1 DEF IInv, VectorInv
<1> QED
  BY <1>3, <1>4

LEMMA StoredRef ==
  ASSUME TypeOK, IInv, "ref" \notin torn
  PROVE  /\ RefStored.ref \in Settled \cup {None}
         /\ last.ref = IF changes.ref = None THEN RefStored.ref ELSE changes.ref
         /\ View.ref # None => RefStored.ref = last.ref
         /\ View.ref = None => RefStored.ref = storage.ref
<1>1. RefStored.ref = IF View.ref = None THEN storage.ref ELSE View.ref
  BY StoredAlone
<1> QED
  BY <1>1, ViewIs DEF IInv, RefInv

\* What the steps of the commit have in common.
LEMMA CommitSteps ==
  ASSUME TypeOK, IInv, NEW s \in Structure,
         Store(s) \/ StorageFails(s) \/ Empty \/ CommitEnds \/ Recommit
  PROVE  /\ Blocks' /\ Registered'
         /\ Storing /\ own' = own /\ Settled' = Settled
         /\ UNCHANGED <<attempt, own, committed, last>>
<1> USE ActorAssumption, RootAssumption
<1>1. /\ UNCHANGED <<attempt, tx, status, members, known, own, committed, last>>
      /\ root \in {"commit", "again"} /\ root' \in {root, "idle", "again"}
  BY DEF Store, StorageFails, Empty, CommitEnds, Recommit, actorVars, ghostVars
<1>2. Storing /\ ~Open /\ ~Open' /\ ~InBlock'
  BY <1>1 DEF Storing, Open, InBlock, Other, Phase
<1>3. /\ own = NoChange /\ known[Root] = "none"
      /\ \A t \in Attempt : status[t] # "active"
  BY <1>1, Closed
<1>4. emptied' # {} => root' \in {"commit", "again"}
  BY <1>1 DEF Store, StorageFails, Empty, CommitEnds, Recommit, EmptyStored
<1>5. Blocks'
  BY <1>1, <1>2, <1>3, <1>4 DEF Blocks, Storing
<1>6. /\ "removed" \in emptied' => "entries" \in emptied'
      /\ "clear" \notin emptied'
  BY DEF Store, StorageFails, Empty, CommitEnds, Recommit, EmptyStored, IInv, Registered
<1>7. ASSUME root' = "commit"
      PROVE  /\ toStore' \subseteq members[tx[attempt]] \cup missed'
             /\ "entries" \in emptied' => "map" \in members[tx[attempt]] \cup missed'
             /\ "elems" \in emptied' => "vector" \in members[tx[attempt]] \cup missed'
             /\ "ref" \in emptied' => "ref" \in members[tx[attempt]] \cup missed'
  <2>1. root = "commit" /\ (Store(s) \/ Recommit)
    BY <1>1, <1>7 DEF Store, StorageFails, Empty, CommitEnds, Recommit
  <2>2. /\ toStore \subseteq members[tx[attempt]] \cup missed
        /\ "entries" \in emptied => "map" \in members[tx[attempt]] \cup missed
        /\ "elems" \in emptied => "vector" \in members[tx[attempt]] \cup missed
        /\ "ref" \in emptied => "ref" \in members[tx[attempt]] \cup missed
    BY <2>1 DEF IInv, Registered
  <2>3. CASE Recommit
    BY <2>3 DEF Recommit
  <2>4. CASE Store(s)
    <3>1. s \in toStore /\ toStore' \subseteq toStore /\ missed' = missed
      BY <2>4 DEF Store, ghostVars
    <3>2. /\ "entries" \in emptied' => "entries" \in emptied \/ s = "map"
          /\ "elems" \in emptied' => "elems" \in emptied \/ s = "vector"
          /\ "ref" \in emptied' => "ref" \in emptied \/ s = "ref"
      BY <2>4 DEF Store
    <3> QED
      BY <2>2, <3>1, <3>2
  <2> QED
    BY <2>1, <2>3, <2>4
<1>8. Registered'
  BY <1>1, <1>2, <1>6, <1>7 DEF Registered
<1>9. Settled' = Settled
  BY <1>1 DEF Settled
<1> QED
  BY <1>1, <1>2, <1>5, <1>8, <1>9

LEMMA StoreStep ==
  ASSUME TypeOK, IInv, NEW s \in Structure, Store(s)
  PROVE  IInv'
<1>1. /\ Blocks' /\ Registered' /\ Storing
      /\ own' = own /\ Settled' = Settled
      /\ UNCHANGED <<attempt, own, committed, last>>
  BY CommitSteps
<1>2. /\ UNCHANGED <<root, changes, failures, missed, torn, twice>>
      /\ s \in toStore /\ toStore' = toStore \ {s}
      /\ \/ Refs(s) \cap dirty = {} /\ dirty' = dirty
         \/ emptied = {} /\ dirty' = {}
      /\ \/ s = "map" /\ storage' = MapStored /\ emptied' = emptied \cup {"entries", "removed"}
         \/ /\ s = "vector" /\ storage' = VectorStored(Len(View.elems))
            /\ emptied' = emptied \cup {"elems"}
         \/ /\ s = "ref" /\ storage' = RefStored
            /\ emptied' = IF View.ref = None THEN emptied ELSE emptied \cup {"ref"}
  <2>1. UNCHANGED <<root, changes, failures, missed, torn, twice>>
    BY DEF Store, ghostVars
  <2>2. /\ s \in toStore /\ toStore' = toStore \ {s}
        /\ \/ Refs(s) \cap dirty = {} /\ dirty' = dirty
           \/ emptied = {} /\ dirty' = {}
    BY DEF Store
  <2>3. \/ s = "map" /\ storage' = MapStored /\ emptied' = emptied \cup {"entries", "removed"}
        \/ /\ s = "vector" /\ storage' = VectorStored(Len(View.elems))
           /\ emptied' = emptied \cup {"elems"}
        \/ /\ s = "ref" /\ storage' = RefStored
           /\ emptied' = IF View.ref = None THEN emptied ELSE emptied \cup {"ref"}
    BY Zenon DEF Store
  <2> QED
    BY ONLY <2>1, <2>2, <2>3
<1>3. Storing' /\ \A u, f : Waits(u, f)' <=> (u \in toStore' \/ f \in emptied')
  BY <1>1, <1>2 DEF Storing, Waits
<1>4. \A u, f : Waits(u, f) <=> (u \in toStore \/ f \in emptied)
  BY <1>1 DEF Waits
<1>5. /\ \A f \in emptied : f \in Stored' => f \in Stored
      /\ \A f \in emptied \cap Refs(s) : f \in Stored
  BY <1>2 DEF Stored
<1>6. Stored' \subseteq emptied'
  BY DEF Stored
<1>7. MapInv'
  <2> SUFFICES ASSUME "map" \notin torn PROVE MapInv'
    BY <1>2 DEF MapInv
  <2>1. CASE s = "map"
    <3>1. storage' = MapStored /\ "entries" \in emptied'
      BY <1>2, <2>1
    <3>2. "entries" \in emptied => "entries" \in Stored
      BY <1>5, <2>1 DEF Refs
    <3>3. /\ storage'.entries \in Entries(Settled)
          /\ ~last.clear => /\ storage'.entries = last.entries
                            /\ Merge(storage'.entries, changes.entries) = last.entries
      BY <3>1, <3>2, StoredMap
    <3> QED
      BY <1>1, <1>2, <1>3, <3>1, <3>3 DEF IInv, MapInv
  <2>2. CASE s # "map"
    <3>1. /\ storage'.entries = storage.entries
          /\ "entries" \in emptied' <=> "entries" \in emptied
          /\ "map" \in toStore' <=> "map" \in toStore
      BY <1>2, <2>2, StoredAlone
    <3> QED
      BY <1>1, <1>2, <1>3, <1>4, <1>5, <1>6, <3>1 DEF IInv, MapInv
  <2> QED
    BY <2>1, <2>2
<1>8. VectorInv'
  <2> SUFFICES ASSUME "vector" \notin torn PROVE VectorInv'
    BY <1>2 DEF VectorInv
  <2>1. CASE s = "vector"
    <3>1. /\ storage'.elems = VectorStored(Len(View.elems)).elems /\ "elems" \in emptied'
          /\ Len(View.elems) \in 0 .. Len(View.elems)
      <4>1. View.elems \in Seq(Value)
        BY NoElements, ViewIs, DataFacts
      <4>2. Len(View.elems) \in Nat
        BY <4>1, LenProperties
      <4> QED
        BY <1>2, <2>1, <4>2
    <3>2. "elems" \in emptied => "elems" \in Stored
      BY <1>5, <2>1 DEF Refs
    <3>3. /\ storage'.elems \in Seq(Settled \cup {Overwritten})
          /\ Covers(storage'.elems \o changes.elems, last.elems)
      BY <3>1, StoredVector
    <3>4. /\ Covers(storage'.elems, last.elems)
          /\ failures = 0 /\ ~twice => Matches(storage'.elems, last.elems)
      BY <3>1, <3>2, StoredWholly
    <3> QED
      BY <1>1, <1>2, <1>3, <3>1, <3>3, <3>4 DEF IInv, VectorInv
  <2>2. CASE s # "vector"
    <3>1. /\ storage'.elems = storage.elems
          /\ "elems" \in emptied' <=> "elems" \in emptied
          /\ "vector" \in toStore' <=> "vector" \in toStore
      BY <1>2, <2>2, StoredAlone
    <3> QED
      BY <1>1, <1>2, <1>3, <1>4, <1>5, <1>6, <3>1 DEF IInv, VectorInv
  <2> QED
    BY <2>1, <2>2
<1>9. RefInv'
  <2> SUFFICES ASSUME "ref" \notin torn PROVE RefInv'
    BY <1>2 DEF RefInv
  <2>1. CASE s = "ref"
    <3>1. /\ storage' = RefStored
          /\ "ref" \in emptied => "ref" \in Stored
      BY <1>2, <1>5, <2>1 DEF Refs
    <3>2. /\ storage'.ref \in Settled \cup {None}
          /\ last.ref = IF changes.ref = None THEN storage'.ref ELSE changes.ref
          /\ View.ref # None => storage'.ref = last.ref
          /\ View.ref = None => storage'.ref = storage.ref
      BY <3>1, StoredRef
    <3>3. CASE View.ref # None
      <4>1. "ref" \in emptied'
        BY <1>2, <2>1, <3>3
      <4> QED
        BY <1>1, <1>2, <1>3, <3>2, <3>3, <4>1 DEF IInv, RefInv
    <3>4. CASE View.ref = None
      <4>1. emptied' = emptied /\ storage'.ref = storage.ref
        BY <1>2, <2>1, <3>2, <3>4
      <4>2. "ref" \notin emptied => changes.ref = None
        BY <3>4, ViewIs
      <4>3. "ref" \in Stored' => storage'.ref = last.ref
        BY <1>5, <1>6, <4>1 DEF IInv, RefInv
      <4> QED
        BY <1>1, <1>2, <1>3, <3>2, <4>1, <4>2, <4>3 DEF IInv, RefInv
    <3> QED
      BY <3>3, <3>4
  <2>2. CASE s # "ref"
    <3>1. /\ storage'.ref = storage.ref
          /\ "ref" \in emptied' <=> "ref" \in emptied
          /\ "ref" \in toStore' <=> "ref" \in toStore
      BY <1>2, <2>2, StoredAlone
    <3> QED
      BY <1>1, <1>2, <1>3, <1>4, <1>5, <1>6, <3>1 DEF IInv, RefInv
  <2> QED
    BY <2>1, <2>2
<1>10. Cleared'
  BY <1>1, <1>2 DEF IInv, Cleared
<1> QED
  BY <1>1, <1>7, <1>8, <1>9, <1>10 DEF IInv

\* What was stored is empty, and what was written to it meanwhile is lost.
LEMMA EmptyStep ==
  ASSUME TypeOK, IInv, Empty \/ CommitEnds
  PROVE  IInv'
<1>1. /\ Blocks' /\ Registered' /\ Storing
      /\ own' = own /\ Settled' = Settled
      /\ UNCHANGED <<attempt, own, committed, last>>
  BY CommitSteps DEF Structure
<1>2. /\ UNCHANGED <<storage, toStore, failures, twice>>
      /\ changes' = View /\ emptied' = {}
      /\ missed' = missed \ StructuresOf(emptied)
      /\ torn' = torn \cup StructuresOf(emptied \cap dirty)
      /\ Storing' \/ toStore = {}
  BY DEF Empty, CommitEnds, EmptyStored, Storing
<1>3. Stored' = {}
  BY <1>2 DEF Stored
<1>4. \A s \in Structure : \A f \in Refs(s) :
        s \notin torn' => s \notin torn /\ (f \in emptied => f \in Stored)
  BY <1>2 DEF StructuresOf, Stored
<1>5. /\ "entries" \notin emptied /\ "map" \in missed => "map" \in missed'
      /\ "elems" \notin emptied /\ "vector" \in missed => "vector" \in missed'
      /\ "ref" \notin emptied /\ "ref" \in missed => "ref" \in missed'
  BY <1>2 DEF IInv, Registered, StructuresOf, Refs
<1>6. \A s, f : f \notin emptied /\ Waits(s, f) => Waits(s, f)'
  BY <1>1, <1>2 DEF Waits
<1>7. MapInv'
  <2> SUFFICES ASSUME "map" \notin torn' PROVE MapInv'
    BY DEF MapInv
  <2>1. "map" \notin torn /\ ("entries" \in emptied => "entries" \in Stored)
    BY <1>4 DEF Structure, Refs
  <2>2. CASE "entries" \in emptied
    <3>1. changes'.entries = NoEntries
      BY <1>2, <2>2, ViewIs
    <3>2. NoEntries \in Entries(Settled)
      BY DEF NoEntries, Entries
    <3>3. Merge(storage.entries, NoEntries) = storage.entries
      BY <2>1, MergeNone DEF IInv, MapInv
    <3> QED
      BY <1>1, <1>2, <1>3, <2>1, <2>2, <3>1, <3>2, <3>3 DEF IInv, MapInv
  <2>3. CASE "entries" \notin emptied
    <3>1. changes'.entries = changes.entries
      BY <1>2, <2>3, ViewIs
    <3> QED
      BY <1>1, <1>2, <1>3, <1>5, <1>6, <2>1, <2>3, <3>1 DEF IInv, MapInv
  <2> QED
    BY <2>2, <2>3
<1>8. VectorInv'
  <2> SUFFICES ASSUME "vector" \notin torn' PROVE VectorInv'
    BY DEF VectorInv
  <2>1. "vector" \notin torn /\ ("elems" \in emptied => "elems" \in Stored)
    BY <1>4 DEF Structure, Refs
  <2>2. CASE "elems" \in emptied
    <3>1. changes'.elems = <<>> /\ <<>> \in Seq(Settled)
      BY <1>2, <2>2, ViewIs
    <3>2. storage.elems \o <<>> = storage.elems
      BY DataFacts, NoElements
    <3> QED
      BY <1>1, <1>2, <1>3, <2>1, <2>2, <3>1, <3>2 DEF IInv, VectorInv
  <2>3. CASE "elems" \notin emptied
    <3>1. changes'.elems = changes.elems
      BY <1>2, <2>3, ViewIs
    <3> QED
      BY <1>1, <1>2, <1>3, <1>5, <1>6, <2>1, <2>3, <3>1 DEF IInv, VectorInv
  <2> QED
    BY <2>2, <2>3
<1>9. RefInv'
  <2> SUFFICES ASSUME "ref" \notin torn' PROVE RefInv'
    BY DEF RefInv
  <2>1. "ref" \notin torn /\ ("ref" \in emptied => "ref" \in Stored)
    BY <1>4 DEF Structure, Refs
  <2>2. CASE "ref" \in emptied
    <3>1. changes'.ref = None
      BY <1>2, <2>2, ViewIs
    <3> QED
      BY <1>1, <1>2, <1>3, <2>1, <2>2, <3>1 DEF IInv, RefInv
  <2>3. CASE "ref" \notin emptied
    <3>1. changes'.ref = changes.ref
      BY <1>2, <2>3, ViewIs
    <3> QED
      BY <1>1, <1>2, <1>3, <1>5, <1>6, <2>1, <2>3, <3>1 DEF IInv, RefInv
  <2> QED
    BY <2>2, <2>3
<1>10. Cleared'
  BY <1>1, <1>2, ViewIs DEF IInv, Cleared
<1> QED
  BY <1>1, <1>7, <1>8, <1>9, <1>10 DEF IInv

LEMMA RecommitStep ==
  ASSUME TypeOK, IInv, Recommit
  PROVE  IInv'
<1>1. /\ Blocks' /\ Registered' /\ Storing
      /\ own' = own /\ Settled' = Settled
      /\ UNCHANGED <<attempt, own, committed, last>>
  BY CommitSteps DEF Structure
<1>2. /\ UNCHANGED <<storage, changes, failures, missed, torn>>
      /\ root = "commit" /\ toStore' = members[tx[attempt]] /\ emptied' = {}
      /\ ~twice' => ~twice /\ "elems" \notin emptied
      /\ Storing'
  BY DEF Recommit, Storing
<1>3. Stored' = {}
  BY <1>2 DEF Stored
<1>4. /\ "map" \notin missed /\ ~Waits("map", "entries")' => ~Waits("map", "entries")
      /\ "vector" \notin missed /\ ~Waits("vector", "elems")' => ~Waits("vector", "elems")
      /\ "ref" \notin missed /\ ~Waits("ref", "ref")' => ~Waits("ref", "ref")
  <2>1. /\ toStore \subseteq members[tx[attempt]] \cup missed
        /\ "entries" \in emptied => "map" \in members[tx[attempt]] \cup missed
        /\ "elems" \in emptied => "vector" \in members[tx[attempt]] \cup missed
        /\ "ref" \in emptied => "ref" \in members[tx[attempt]] \cup missed
    BY <1>2 DEF IInv, Registered
  <2> QED
    BY <1>1, <1>2, <2>1 DEF Waits
<1>5. MapInv'
  BY <1>1, <1>2, <1>3, <1>4 DEF IInv, MapInv
<1>6. VectorInv'
  BY <1>1, <1>2, <1>3, <1>4 DEF IInv, VectorInv
<1>7. RefInv'
  BY <1>1, <1>2, <1>3, <1>4 DEF IInv, RefInv
<1>8. Cleared'
  BY <1>1, <1>2 DEF IInv, Cleared
<1> QED
  BY <1>1, <1>5, <1>6, <1>7, <1>8 DEF IInv

LEMMA StorageFailsStep ==
  ASSUME TypeOK, IInv, NEW s \in Structure, StorageFails(s)
  PROVE  IInv'
<1>1. /\ Blocks' /\ Registered' /\ Storing
      /\ own' = own /\ Settled' = Settled
      /\ UNCHANGED <<attempt, own, committed, last>>
  BY CommitSteps
<1>2. /\ UNCHANGED <<changes, missed, torn, twice>>
      /\ Refs(s) \cap dirty = {} \/ emptied = {}
      /\ emptied' = {} /\ failures' = failures + 1
      /\ \/ storage' = storage
         \/ s = "map" /\ storage' \in {MapInserted, MapStored}
         \/ s = "vector" /\ \E n \in 1 .. Len(View.elems) : storage' = VectorStored(n)
         \/ s = "ref" /\ storage' = RefStored
  BY DEF StorageFails, ghostVars
<1>3. Stored' = {} /\ failures' # 0
  BY <1>2 DEF Stored, TypeOK
<1>4. MapInv'
  <2> SUFFICES ASSUME "map" \notin torn PROVE MapInv'
    BY <1>2 DEF MapInv
  <2>1. CASE storage'.entries = storage.entries
    BY <1>1, <1>2, <1>3, <2>1 DEF IInv, MapInv
  <2>2. CASE s = "map" /\ storage' \in {MapInserted, MapStored}
    <3>1. "entries" \in emptied => "entries" \in Stored
      BY <1>2, <2>2 DEF Refs, Stored
    <3>2. /\ storage'.entries \in Entries(Settled)
          /\ ~last.clear => Merge(storage'.entries, changes.entries) = last.entries
      BY <2>2, <3>1, StoredMap
    <3> QED
      BY <1>1, <1>2, <1>3, <3>2 DEF IInv, MapInv
  <2> QED
    BY <1>2, <2>1, <2>2, StoredAlone
<1>5. VectorInv'
  <2> SUFFICES ASSUME "vector" \notin torn PROVE VectorInv'
    BY <1>2 DEF VectorInv
  <2>1. CASE storage'.elems = storage.elems
    BY <1>1, <1>2, <1>3, <2>1 DEF IInv, VectorInv
  <2>2. ASSUME NEW n \in 1 .. Len(View.elems), storage' = VectorStored(n)
        PROVE  VectorInv'
    <3>1. n \in 0 .. Len(View.elems)
      BY <2>2
    <3>2. /\ storage'.elems \in Seq(Settled \cup {Overwritten})
          /\ Covers(storage'.elems \o changes.elems, last.elems)
      BY <2>2, <3>1, StoredVector
    <3> QED
      BY <1>1, <1>2, <1>3, <3>2 DEF IInv, VectorInv
  <2> QED
    BY <1>2, <2>1, <2>2, StoredAlone
<1>6. RefInv'
  <2> SUFFICES ASSUME "ref" \notin torn PROVE RefInv'
    BY <1>2 DEF RefInv
  <2>1. CASE storage'.ref = storage.ref
    BY <1>1, <1>2, <1>3, <2>1 DEF IInv, RefInv
  <2>2. CASE storage' = RefStored
    BY <1>1, <1>2, <1>3, <2>2, StoredRef DEF IInv, RefInv
  <2> QED
    BY <1>2, <2>1, <2>2, StoredAlone
<1>7. Cleared'
  BY <1>1, <1>2 DEF IInv, Cleared
<1> QED
  BY <1>1, <1>4, <1>5, <1>6, <1>7 DEF IInv

------------------------------------------------------------------------------
(* The invariant, and the theorems *)

LEMMA InvStep == TypeOK /\ IInv /\ [Next]_vars => IInv'
<1> SUFFICES ASSUME TypeOK, IInv, [Next]_vars PROVE IInv'
  OBVIOUS
<1>1. CASE Block
  BY <1>1, NextAttemptStep, BlockSteps, CommitInMemoryStep DEF Block
<1>2. CASE Commit
  BY <1>2, EmptyStep, RecommitStep DEF Commit
<1>3. ASSUME NEW a \in Actor, Handler(a) PROVE IInv'
  BY <1>3, HandlerStep
<1>4. ASSUME NEW b \in Other, Ask(b) \/ Receive(b) \/ Reply(b) \/ Throw(b) PROVE IInv'
  BY <1>4, MessageSteps
<1>5. ASSUME NEW s \in Structure, Store(s) \/ StorageFails(s) PROVE IInv'
  BY <1>5, StoreStep, StorageFailsStep
<1>6. CASE UNCHANGED vars
  <2>1. UNCHANGED <<attempt, tx, status, members, root, job, known, putting, changes, own,
                    dirty, storage, toStore, emptied, failures, committed, last, missed,
                    torn, twice>>
    BY <1>6 DEF vars, actorVars, putVars, dataVars, ghostVars
  <2>2. /\ Open' = Open /\ InBlock' = InBlock /\ Storing' = Storing
        /\ \A b : Tx(b)' = Tx(b)
    BY <2>1 DEF Open, InBlock, Storing, Tx
  <2>3. Blocks' /\ Registered'
    BY <2>1, <2>2 DEF IInv, Blocks, Registered
  <2>4. MapInv' /\ VectorInv' /\ RefInv' /\ Cleared'
    BY <2>1, <2>2, DataKept
  <2> QED
    BY <2>3, <2>4 DEF IInv
<1> QED
  BY <1>1, <1>2, <1>3, <1>4, <1>5, <1>6 DEF Next

LEMMA Invariance == Spec => [](TypeOK /\ IInv)
<1>1. Init => TypeOK /\ IInv
  BY InitTypes, InitInv
<1>2. (TypeOK /\ IInv) /\ [Next]_vars => (TypeOK /\ IInv)'
  BY TypeStep, InvStep
<1> QED
  BY <1>1, <1>2, PTL DEF Spec

\* Types, whatever the number of actors, keys and attempts; whoever works in a
\* transaction works in one that was begun (AtomicTemplate.java:239-250).
THEOREM TypeCorrect == Spec => []TypeOK
  BY Invariance, PTL

\* What was written in the transaction of a block while attempt n ran reaches the
\* storage, and the change sets of others, only if attempt n has committed
\* (AtomicTemplate.java:270-281, PersistentState.scala:70-75).  Excepted are what is
\* written outside of the block's transaction, elements that `update' has replaced,
\* and a structure with a reference that was set to what was read in another attempt.
THEOREM NothingElseIsStored == Spec => []OnlyCommitted
<1>1. TypeOK /\ IInv => OnlyCommitted
  <2> SUFFICES ASSUME TypeOK, IInv PROVE OnlyCommitted
    OBVIOUS
  <2>1. /\ Attempt \cap (Settled \cup {None, Overwritten}) \subseteq committed
        /\ committed \subseteq Settled
    BY BoundAssumption DEF Attempt, Settled, Late, None, Overwritten
  <2>2. "map" \notin torn => \A k \in Key : /\ storage.entries[k] \in Settled \cup {None}
                                            /\ changes.entries[k] \in Settled \cup {None}
    BY DEF IInv, MapInv, Entries
  <2>3. "vector" \notin torn =>
          /\ \A i \in DOMAIN storage.elems : storage.elems[i] \in Settled \cup {Overwritten}
          /\ \A i \in DOMAIN changes.elems : changes.elems[i] \in Settled
    <3> SUFFICES ASSUME "vector" \notin torn
                 PROVE  /\ \A i \in DOMAIN storage.elems :
                             storage.elems[i] \in Settled \cup {Overwritten}
                        /\ \A i \in DOMAIN changes.elems : changes.elems[i] \in Settled
      OBVIOUS
    <3>1. /\ storage.elems \in Seq(Settled \cup {Overwritten})
          /\ changes.elems \in Seq(Settled)
      BY DEF IInv, VectorInv
    <3> QED
      BY <3>1, ElementOfSeq, LenProperties
  <2>4. "ref" \notin torn => /\ storage.ref \in Settled \cup {None}
                             /\ changes.ref \in Settled \cup {None}
    BY DEF IInv, RefInv
  <2> QED
    BY <2>1, <2>2, <2>3, <2>4 DEF OnlyCommitted
<1> QED
  BY <1>1, Invariance, PTL

\* As long as the storage has not failed it has, between two blocks, all the `put',
\* `add' and `swap' that have committed (PersistentState.scala:70-76, 180-186 and
\* 271-274).  Excepted are maps that were ever cleared, structures that a commit may
\* have passed over because they were registered while another was, or written
\* outside of the block, the order and number of elements once a repeated commit has
\* stored some twice, elements that `update' has replaced, and structures with a
\* reference that was set to what was read in another transaction.  `remove' has no
\* effect, and what was removed is still there.
THEOREM CommittedIsStored == Spec => []Durable
<1>1. TypeOK /\ IInv => Durable
  <2> SUFFICES ASSUME TypeOK, IInv, root = "idle", failures = 0 PROVE Durable
    BY DEF Durable
  <2>1. ~Storing /\ emptied = {} /\ \A s, f : ~Waits(s, f)
    BY DEF IInv, Blocks, Storing, Waits
  <2>2. ASSUME "map" \notin missed \cup torn, ~last.clear
        PROVE  changes.entries = NoEntries /\ storage.entries = last.entries
    <3>1. /\ changes.entries = NoEntries /\ storage.entries \in Entries(Settled)
          /\ Merge(storage.entries, changes.entries) = last.entries
      BY <2>1, <2>2 DEF IInv, MapInv
    <3> QED
      BY <3>1, MergeNone
  <2>3. ASSUME "ref" \notin missed \cup torn
        PROVE  changes.ref = None /\ storage.ref = last.ref
    BY <2>1, <2>3 DEF IInv, RefInv
  <2>4. ASSUME "vector" \notin missed \cup torn, ~twice
        PROVE  changes.elems = <<>> /\ Matches(storage.elems, last.elems)
    <3>1. changes.elems = <<>> /\ Matches(storage.elems \o changes.elems, last.elems)
      BY <2>1, <2>4 DEF IInv, VectorInv
    <3> QED
      BY <3>1, DataFacts, NoElements
  <2> QED
    BY <2>2, <2>3, <2>4 DEF Durable, Matches
<1> QED
  BY <1>1, Invariance, PTL

\* Whatever fails or is repeated, nothing that has committed is lost: it is in the
\* storage or in the change sets (PersistentState.scala:70, 180 and 271,
\* Transaction.scala:179).  Excepted are maps that were ever cleared, elements that
\* `update' has replaced, and structures with a reference that was set to what was
\* read in another transaction.
THEOREM FailedStorageLosesNothing == Spec => []NothingLost
<1>1. TypeOK /\ IInv => NothingLost
  <2> SUFFICES ASSUME TypeOK, IInv PROVE NothingLost
    OBVIOUS
  <2> DEFINE view          == storage.elems \o changes.elems
             Places(s, ns) == {i \in DOMAIN s : s[i] \in ns}
  <2>1. "map" \in torn \/ last.clear
          \/ Merge(storage.entries, changes.entries) = last.entries
    BY DEF IInv, MapInv
  <2>2. "ref" \in torn
          \/ last.ref = IF changes.ref = None THEN storage.ref ELSE changes.ref
    BY DEF IInv, RefInv
  <2>3. ASSUME "vector" \notin torn, NEW n \in Attempt \cup {Late}
        PROVE  Cardinality(Places(view, {n, Overwritten}))
                 >= Cardinality(Places(last.elems, {n}))
    <3>1. Covers(view, last.elems)
      BY <2>3 DEF IInv, VectorInv
    <3>2. view \in Seq(Value) /\ last.elems \in Seq(Value)
      BY DataFacts, ConcatProperties
    <3>3. Cardinality(Indices(view, {n, Overwritten}))
            >= Cardinality(Indices(last.elems, {n}))
      BY <3>1, <3>2, CoversCount
    <3>4. /\ Places(view, {n, Overwritten}) = Indices(view, {n, Overwritten})
          /\ Places(last.elems, {n}) = Indices(last.elems, {n})
      BY Zenon DEF Indices
    <3> QED
      BY <3>3, <3>4, Zenon
  <2> QED
    BY <2>1, <2>2, <2>3 DEF NothingLost
<1> QED
  BY <1>1, Invariance, PTL
===============================================================================
