------------------------------ MODULE Transactors ------------------------------
(***************************************************************************)
(* Transactions that span actors and end in the storage: the atomic block  *)
(* of Transaction and the retry loop of AtomicTemplate below it, the       *)
(* transactional half of Actor, and the commit of PersistentMap,           *)
(* PersistentVector and PersistentRef.                                     *)
(*                                                                         *)
(* Root handles its messages in atomic blocks.  Its handler asks other     *)
(* actors with `!!', and these take part in its transaction; when `!!'     *)
(* times out they are still at work while the block goes on, commits, or   *)
(* is tried again, in the same transaction.  What is written goes to       *)
(* change sets, which are STM references.  After the commit in memory a    *)
(* second STM transaction writes the change sets of the structures that    *)
(* are registered to the storage, and any call of it may fail.             *)
(*                                                                         *)
(* Multiverse is external and modelled by what it promises: what is        *)
(* written in a transaction is seen by others when it commits and never if *)
(* it aborts, a transaction does not read or overwrite what others have    *)
(* written since it began, and an operation on a reference outside of an   *)
(* active transaction is a transaction of its own.  The storage is what    *)
(* the traits of Storage.scala say.                                        *)
(*                                                                         *)
(* An operator whose comment begins with `Mutant' is not part of the       *)
(* model: it is a mistake that the properties are shown to detect.         *)
(***************************************************************************)
EXTENDS Naturals, Sequences, FiniteSets

CONSTANTS
  Actor,        \* transactors
  Root,         \* the one that begins the transactions
  OwnerOf,      \* OwnerOf[s]: the actor that has structure s
  Key,          \* keys of the map
  MaxAttempts,  \* bound of the model: attempts at atomic blocks
  MaxChanges,   \* bound of the model: changes made in one attempt
  MaxFailures   \* bound of the model: failures of the storage

Structure == {"map", "vector", "ref"}
Other     == Actor \ {Root}
Phase     == {"idle", "body", "undone", "commit", "again"}

ASSUME RootAssumption  == Root \in Actor
ASSUME ActorAssumption == Actor \cap Phase = {}
ASSUME OwnerAssumption == OwnerOf \in [Structure -> Actor]
ASSUME BoundAssumption == /\ MaxAttempts \in Nat \ {0}
                          /\ MaxChanges \in Nat
                          /\ MaxFailures \in Nat

\* Attempts are numbered.  What is written in the transaction while attempt n runs
\* is n; what is written outside of it is Late, and an element of the vector that
\* is replaced in the storage is Overwritten.
Attempt     == 1 .. MaxAttempts
None        == 0
Late        == MaxAttempts + 1
Overwritten == MaxAttempts + 2

VARIABLES
  attempt,   \* the number of attempts
  tx,        \* tx[n]: the transaction of attempt n, named after its first attempt
  status,    \* status[t]: the Multiverse transaction of transaction t
  members,   \* members[t]: Transaction.persistentStateMap of t
  root,      \* "idle", "body", "undone" when an attempt was aborted, "commit",
             \* "again" when a commit is repeated, or the actor that Root waits for
  inbox,     \* inbox[b]: the attempts whose message b has not handled
  job,       \* job[a]: the attempt whose message a handles, or None
  known,     \* known[a]: the structure that a registers and changes, or "none"
  putting,   \* the actors whose `put' to persistentStateMap has not landed
  raced,     \* those of them that have met another one in the same transaction
  saw,       \* saw[a]: the change sets as a has read them, to change one of them
  alone,     \* the actors whose thread has lost the transaction in this message
  changes,   \* newAndUpdatedEntries, shouldClearOnCommit, newElems and ref
  own,       \* what the running attempt has changed in them
  dirty,     \* the references that others wrote since Root's STM transaction began
  storage,   \* what the storage has for the three structures
  toStore,   \* the structures that the running commit has to store
  emptied,   \* the references that the running commit has emptied
  count,     \* the number of changes made in this attempt
  failures,  \* the number of failures of the storage
  committed, \* ghost: the attempts that have committed
  last,      \* ghost: the changes that have committed, all together
  missed,    \* ghost: structures whose changes a commit may have passed over
  torn,      \* ghost: structures that got a value read in another transaction
  twice      \* ghost: a repeated commit has stored elements a second time

putVars   == <<putting, raced>>
actorVars == <<inbox, job, known, putVars, saw, alone>>
dataVars  == <<changes, own, dirty, storage>>
ghostVars == <<committed, last, missed, torn, twice>>
vars == <<attempt, tx, status, members, root, actorVars, dataVars, toStore,
          emptied, count, failures, ghostVars>>

NoEntries == [k \in Key |-> None]
NoChange  == [entries |-> NoEntries, clear |-> FALSE, elems |-> <<>>,
              ref |-> None]
NotRead   == [read |-> FALSE, base |-> NoChange, own |-> NoChange]

\* The STM references of a structure, and the structures that have some of them.
Refs(s) == IF s = "map" THEN {"entries", "removed", "clear"}
           ELSE IF s = "vector" THEN {"elems"} ELSE {"ref"}
StructuresOf(fs) == {s \in Structure : Refs(s) \cap fs # {}}

Merge(old, new) == [k \in Key |-> IF new[k] = None THEN old[k] ELSE new[k]]

\* Change sets after further changes, and after some references were emptied.
Apply(old, new) ==
  [entries |-> Merge(old.entries, new.entries),
   clear   |-> old.clear \/ new.clear,
   elems   |-> old.elems \o new.elems,
   ref     |-> IF new.ref = None THEN old.ref ELSE new.ref]
Without(data, fs) ==
  [entries |-> IF "entries" \in fs THEN NoEntries ELSE data.entries,
   clear   |-> data.clear,
   elems   |-> IF "elems" \in fs THEN <<>> ELSE data.elems,
   ref     |-> IF "ref" \in fs THEN None ELSE data.ref]

\* The references that a change changes.
Changed(change) ==
  {f \in {"entries", "clear", "elems", "ref"} :
     \/ f = "entries" /\ change.entries # NoEntries
     \/ f = "clear" /\ change.clear
     \/ f = "elems" /\ change.elems # <<>>
     \/ f = "ref" /\ change.ref # None}

Init ==
  /\ attempt = 0
  /\ tx = [n \in Attempt |-> 0]
  /\ status = [t \in Attempt |-> "new"]
  /\ members = [t \in Attempt |-> {}]
  /\ root = "idle"
  /\ inbox = [b \in Actor |-> <<>>]
  /\ job = [a \in Actor |-> None]
  /\ known = [a \in Actor |-> "none"]
  /\ putting = {}
  /\ raced = {}
  /\ saw = [a \in Actor |-> NotRead]
  /\ alone = {}
  /\ changes = NoChange
  /\ own = NoChange
  /\ dirty = {}
  /\ storage = [entries |-> NoEntries, elems |-> <<>>, ref |-> None]
  /\ toStore = {}
  /\ emptied = {}
  /\ count = 0
  /\ failures = 0
  /\ committed = {}
  /\ last = NoChange
  /\ missed = {}
  /\ torn = {}
  /\ twice = FALSE

------------------------------------------------------------------------------
(* The block of Root: the retry loop of AtomicTemplate *)

\* transactionalDispatch of Root, outside of a transaction: postStart makes a new
\* Transaction, once for all the attempts.
Begin ==
  /\ root = "idle"
  /\ attempt < MaxAttempts
  /\ attempt' = attempt + 1
  /\ tx' = [tx EXCEPT ![attempt + 1] = attempt + 1]
  /\ status' = [status EXCEPT ![attempt + 1] = "active"]
  /\ root' = "body"
  /\ job' = [job EXCEPT ![Root] = attempt + 1]
  /\ count' = 0
  /\ UNCHANGED <<members, inbox, known, putVars, saw, alone, dataVars, toStore,
                 emptied, failures, ghostVars>>

\* b !! message: the message takes the transaction along.  Bound of the model: b
\* is not asked again while it is at work for this attempt.
Ask(b) ==
  /\ root = "body" /\ known[Root] = "none"
  /\ job[b] # attempt /\ \A i \in DOMAIN inbox[b] : inbox[b][i] # attempt
  /\ inbox' = [inbox EXCEPT ![b] = Append(@, attempt)]
  /\ root' = b
  /\ UNCHANGED <<attempt, tx, status, members, job, known, putVars, saw, alone,
                 dataVars, toStore, emptied, count, failures, ghostVars>>

\* `!!' times out, and the handler goes on.
TimeOut ==
  /\ root \in Other
  /\ root' = "body"
  /\ UNCHANGED <<attempt, tx, status, members, actorVars, dataVars, toStore,
                 emptied, count, failures, ghostVars>>

\* Mutant of Undo: what the attempt has changed is kept.
UndoAndKeep ==
  /\ root = "body" /\ Root \notin putting
  /\ status' = [status EXCEPT ![tx[attempt]] = "aborted"]
  /\ root' = "undone"
  /\ known' = [known EXCEPT ![Root] = "none"]
  /\ saw' = [saw EXCEPT ![Root] = NotRead]
  /\ dirty' = {}
  /\ UNCHANGED <<attempt, tx, members, inbox, job, putVars, alone, changes, own,
                 storage, toStore, emptied, count, failures, ghostVars>>

\* The handler throws, or Multiverse finds a conflict, there or when it commits:
\* t.abort().
Undo ==
  /\ root = "body" /\ Root \notin putting
  /\ status' = [status EXCEPT ![tx[attempt]] = "aborted"]
  /\ root' = "undone"
  /\ own' = NoChange
  /\ known' = [known EXCEPT ![Root] = "none"]
  /\ saw' = [saw EXCEPT ![Root] = NotRead]
  /\ dirty' = {}
  /\ UNCHANGED <<attempt, tx, members, inbox, job, putVars, alone, changes, storage,
                 toStore, emptied, count, failures, ghostVars>>

\* After a conflict, t.restart() and another attempt: it is the same Multiverse
\* transaction, and the same Transaction with what is registered.
Restart ==
  /\ root = "undone"
  /\ attempt < MaxAttempts
  /\ attempt' = attempt + 1
  /\ tx' = [tx EXCEPT ![attempt + 1] = tx[attempt]]
  /\ status' = [status EXCEPT ![tx[attempt]] = "active"]
  /\ root' = "body"
  /\ job' = [job EXCEPT ![Root] = attempt + 1]
  /\ count' = 0
  /\ UNCHANGED <<members, inbox, known, putVars, saw, alone, dataVars, toStore,
                 emptied, failures, ghostVars>>

\* After any other exception the block fails.
Fail ==
  /\ root = "undone"
  /\ root' = "idle"
  /\ UNCHANGED <<attempt, tx, status, members, actorVars, dataVars, toStore,
                 emptied, count, failures, ghostVars>>

\* After too many retries it fails as well, with t restarted already: t is active,
\* and nobody will commit it.
GiveUp ==
  /\ root = "undone"
  /\ root' = "idle"
  /\ status' = [status EXCEPT ![tx[attempt]] = "abandoned"]
  /\ UNCHANGED <<attempt, tx, members, actorVars, dataVars, toStore, emptied,
                 count, failures, ghostVars>>

\* The block ends, and t commits if what it has written was not written by others.
\* postCommit begins the STM transaction of Transaction.commit.
CommitInMemory ==
  /\ root = "body" /\ known[Root] = "none"
  /\ Changed(own) \cap dirty = {}
  /\ status' = [status EXCEPT ![tx[attempt]] = "committed"]
  /\ root' = "commit"
  /\ changes' = Apply(changes, own)
  /\ own' = NoChange
  /\ dirty' = {}
  /\ toStore' = members[tx[attempt]]
  /\ emptied' = {}
  /\ committed' = committed \cup {attempt}
  /\ last' = Apply(last, own)
  /\ UNCHANGED <<attempt, tx, members, actorVars, storage, count, failures, missed,
                 torn, twice>>

------------------------------------------------------------------------------
(* The handlers of Root and of those it asks *)

\* The dispatcher gives b its next message, and setTransaction the transaction.
Receive(b) ==
  /\ job[b] = None
  /\ inbox[b] # <<>>
  /\ job' = [job EXCEPT ![b] = Head(inbox[b])]
  /\ inbox' = [inbox EXCEPT ![b] = Tail(@)]
  /\ alone' = alone \ {b}
  /\ UNCHANGED <<attempt, tx, status, members, root, known, putVars, saw, dataVars,
                 toStore, emptied, count, failures, ghostVars>>

\* An actor is running its handler, in a transaction: it has the Transaction until
\* the message is handled, and works in the Multiverse transaction as long as that
\* is active and the thread has not lost it.
Running(a)  == job[a] # None /\ (a = Root => root = "body")
Tx(a)       == tx[job[a]]
IsActive(t) == status[t] \in {"active", "abandoned"}
Inside(a)   == a \notin alone /\ IsActive(Tx(a))

\* register, the first half of every method that changes a structure: a `put' to
\* a HashMap that is not synchronised, which changes it only for a new key.
Register(a, s) ==
  /\ Running(a)
  /\ OwnerOf[s] = a
  /\ known[a] = "none"
  /\ count < MaxChanges
  /\ known' = [known EXCEPT ![a] = s]
  /\ count' = count + 1
  /\ \/ s \in members[Tx(a)] /\ UNCHANGED putVars
     \/ /\ s \notin members[Tx(a)]
        /\ putting' = putting \cup {a}
        /\ LET rivals == {b \in putting : Tx(b) = Tx(a)}
           IN  raced' = IF rivals = {} THEN raced ELSE raced \cup rivals \cup {a}
  /\ UNCHANGED <<attempt, tx, status, members, root, inbox, job, saw, alone,
                 dataVars, toStore, emptied, failures, ghostVars>>

\* Mutant of Landed: the structure that is registered replaces the others.
LandedAlone(a) == {{known[a]}}

\* What the map has when the `put' of a ends: after a race any of its entries may
\* be lost, the one that was put too.
Landed(a) ==
  LET all == members[Tx(a)] \cup {known[a]}
  IN  IF a \in raced THEN SUBSET all ELSE {all}

\* The `put' ends.  A commit that iterates over the map meanwhile may see what is
\* put or not, and may pass over others.
PutLands(a) ==
  /\ a \in putting
  /\ putting' = putting \ {a} /\ raced' = raced \ {a}
  /\ \E rest \in Landed(a) :
       LET lost == IF a \in raced THEN (members[Tx(a)] \cup {known[a]}) \ rest ELSE {}
       IN  /\ members' = [members EXCEPT ![Tx(a)] = rest]
           /\ \/ /\ root \in {"commit", "again"} /\ Tx(a) = tx[attempt]
                 /\ \E seen \in SUBSET (toStore \cup {known[a]}) :
                      /\ toStore' = seen
                      /\ missed' = missed \cup lost \cup (toStore \ seen)
              \/ /\ ~(root \in {"commit", "again"} /\ Tx(a) = tx[attempt])
                 /\ toStore' = toStore
                 /\ missed' = missed \cup lost
  /\ UNCHANGED <<attempt, tx, status, root, inbox, job, known, saw, alone, dataVars,
                 emptied, count, failures, committed, last, torn, twice>>

\* TransactionalMap.put and TransactionalVector.add read the reference before they
\* set it.  In the block's transaction what others wrote since it began cannot be
\* read; outside of it the read is a transaction of its own, which leaves none.
Read(a) ==
  /\ known[a] \in {"map", "vector"} /\ a \notin putting /\ ~saw[a].read
  /\ Running(a)
  /\ Inside(a) /\ status[Tx(a)] = "active" => Refs(known[a]) \cap dirty = {}
  /\ saw' = [saw EXCEPT ![a] = [read |-> TRUE, base |-> changes,
                                own  |-> IF Inside(a) THEN own ELSE NoChange]]
  /\ alone' = IF Inside(a) THEN alone ELSE alone \cup {a}
  /\ UNCHANGED <<attempt, tx, status, members, root, inbox, job, known, putVars,
                 dataVars, toStore, emptied, count, failures, ghostVars>>

\* Reference f of data is set to what it is in new.
Set(data, f, new) ==
  [entries |-> IF f = "entries" THEN new.entries ELSE data.entries,
   clear   |-> IF f = "clear" THEN new.clear ELSE data.clear,
   elems   |-> IF f = "elems" THEN new.elems ELSE data.elems,
   ref     |-> IF f = "ref" THEN new.ref ELSE data.ref]

\* Structure s is torn when a reference is set to a change of what it is not.
Tear(s, data, f, old) ==
  torn' = IF Set(data, f, old) = data THEN torn ELSE torn \cup {s}

\* The second half: reference f of s is set, in the transaction of the block or,
\* when a works in none, in one of its own.
Write(a, s, f, change) ==
  /\ known[a] = s /\ a \notin putting
  /\ Running(a)
  /\ saw[a].read = (f \in {"entries", "elems"})
  /\ known' = [known EXCEPT ![a] = "none"]
  /\ saw' = [saw EXCEPT ![a] = NotRead]
  /\ \/ /\ Inside(a) /\ status[Tx(a)] = "active"
        /\ LET old == IF saw[a].read THEN saw[a].own ELSE own
           IN  /\ own' = Set(own, f, Apply(old, change))
               /\ Tear(s, own, f, old)
        /\ UNCHANGED <<alone, changes, dirty, last, missed>>
     \/ /\ Inside(a) /\ status[Tx(a)] = "abandoned"
        /\ UNCHANGED <<alone, changes, own, dirty, last, missed, torn>>
     \/ /\ ~Inside(a)
        /\ LET old == IF saw[a].read THEN Apply(saw[a].base, saw[a].own)
                      ELSE changes
           IN  /\ changes' = Set(changes, f, Apply(old, change))
               /\ Tear(s, changes, f, old)
        /\ alone' = alone \cup {a}
        /\ dirty' = IF root \in {"idle", "undone"} THEN dirty ELSE dirty \cup {f}
        /\ last' = Apply(last, change)
        /\ missed' = IF change = NoChange THEN missed ELSE missed \cup {s}
        /\ UNCHANGED own
  /\ UNCHANGED <<attempt, tx, status, members, root, inbox, job, putVars, storage,
                 toStore, emptied, count, failures, committed, twice>>

\* What a writes is known by the attempt that it is written in.
Tag(a) == IF Inside(a) THEN attempt ELSE Late

\* PersistentMap.put and update, and clear.
Put(a, k) ==
  Write(a, "map", "entries", [NoChange EXCEPT !.entries[k] = Tag(a)])
Clear(a)  == Write(a, "map", "clear", [NoChange EXCEPT !.clear = TRUE])

\* PersistentMap.remove takes the key out of the removed entries, where it never
\* is: they are set to what they were.
Remove(a) == Write(a, "map", "removed", NoChange)

\* PersistentVector.add
Add(a) == Write(a, "vector", "elems", [NoChange EXCEPT !.elems = <<Tag(a)>>])

\* PersistentRef.swap
Swap(a) == Write(a, "ref", "ref", [NoChange EXCEPT !.ref = Tag(a)])

\* PersistentVector.update of an element that is stored writes to the storage at
\* once, whatever becomes of the transaction.
Update(a) ==
  /\ known[a] = "vector" /\ a \notin putting /\ ~saw[a].read
  /\ Running(a)
  /\ \E i \in DOMAIN storage.elems :
       storage' = [storage EXCEPT !.elems[i] = Overwritten]
  /\ known' = [known EXCEPT ![a] = "none"]
  /\ UNCHANGED <<attempt, tx, status, members, root, inbox, job, putVars, saw,
                 alone, changes, own, dirty, toStore, emptied, count, failures,
                 ghostVars>>

\* The handler of b ends, with a reply, which Root may have waited for.
Reply(b) ==
  /\ job[b] # None /\ known[b] = "none"
  /\ job' = [job EXCEPT ![b] = None]
  /\ root' = IF root = b /\ job[b] = attempt THEN "body" ELSE root
  /\ UNCHANGED <<attempt, tx, status, members, inbox, known, putVars, saw, alone,
                 dataVars, toStore, emptied, count, failures, ghostVars>>

\* Mutant of Throw: what the handler was about to change is not forgotten.
ThrowInTheMiddle(b) ==
  /\ job[b] # None /\ b \notin putting
  /\ job' = [job EXCEPT ![b] = None]
  /\ saw' = [saw EXCEPT ![b] = NotRead]
  /\ root' = IF root = b /\ job[b] = attempt THEN "body" ELSE root
  /\ UNCHANGED <<attempt, tx, status, members, inbox, known, putVars, alone,
                 dataVars, toStore, emptied, count, failures, ghostVars>>

\* It ends with an exception, of its own or of Multiverse: `!!' throws it in the
\* handler of Root, which may catch it or not.
Throw(b) ==
  /\ job[b] # None /\ b \notin putting
  /\ job' = [job EXCEPT ![b] = None]
  /\ known' = [known EXCEPT ![b] = "none"]
  /\ saw' = [saw EXCEPT ![b] = NotRead]
  /\ root' = IF root = b /\ job[b] = attempt THEN "body" ELSE root
  /\ UNCHANGED <<attempt, tx, status, members, inbox, putVars, alone, dataVars,
                 toStore, emptied, count, failures, ghostVars>>

------------------------------------------------------------------------------
(* Transaction.commit: one STM transaction for all the structures, which is *)
(* repeated when others write what it reads or empties                      *)

\* The change sets as the commit sees them, and what the storage has when the map,
\* the first n elements of the vector, and the reference are written.
View            == Without(changes, emptied)
MapInserted     == [storage EXCEPT !.entries = Merge(@, View.entries)]
MapStored       == IF View.clear THEN [storage EXCEPT !.entries = NoEntries]
                   ELSE MapInserted
VectorStored(n) == [storage EXCEPT !.elems = @ \o SubSeq(View.elems, 1, n)]
RefStored       == [storage EXCEPT !.ref = IF View.ref = None THEN @ ELSE View.ref]

\* commit of one structure: the map inserts its entries before it is cleared, and
\* shouldClearOnCommit is not one of the references that are emptied.  A commit in
\* its STM transaction cannot read what others wrote since that began; a repeated
\* one without a transaction empties after it has stored (Empty).
Store(s) ==
  /\ root \in {"commit", "again"}
  /\ s \in toStore
  /\ toStore' = toStore \ {s}
  /\ \/ root = "commit" /\ Refs(s) \cap dirty = {} /\ UNCHANGED dirty
     \/ root = "again" /\ emptied = {} /\ dirty' = {}
  /\ \/ /\ s = "map"
        /\ storage' = MapStored
        /\ emptied' = emptied \cup {"entries", "removed"}
     \/ /\ s = "vector"
        /\ storage' = VectorStored(Len(View.elems))
        /\ emptied' = emptied \cup {"elems"}
     \/ /\ s = "ref"
        /\ storage' = RefStored
        /\ emptied' = IF View.ref = None THEN emptied ELSE emptied \cup {"ref"}
  /\ UNCHANGED <<attempt, tx, status, members, root, actorVars, changes, own, count,
                 failures, ghostVars>>

\* The references that were stored are empty; what was written to them since they
\* were read is lost.
EmptyStored ==
  /\ changes' = View
  /\ emptied' = {}
  /\ missed' = missed \ StructuresOf(emptied)
  /\ torn' = torn \cup StructuresOf(emptied \cap dirty)

\* A repeated commit without a transaction empties what it has stored.
Empty ==
  /\ root = "again"
  /\ emptied # {}
  /\ EmptyStored
  /\ UNCHANGED <<attempt, tx, status, members, root, actorVars, own, dirty, storage,
                 toStore, count, failures, committed, last, twice>>

\* The commit is over; clearTransaction has ended the transaction of Root.
CommitEnds ==
  /\ toStore = {}
  /\ \/ root = "commit" /\ emptied \cap dirty = {}
     \/ root = "again" /\ emptied = {}
  /\ root' = "idle"
  /\ EmptyStored
  /\ dirty' = {}
  /\ UNCHANGED <<attempt, tx, status, members, actorVars, own, storage, toStore,
                 count, failures, committed, last, twice>>

\* The STM transaction of the commit meets what others have written, and everything
\* is stored again: in the same transaction if it was to read that, and without any
\* if it was over, for clearTransaction is part of what is repeated.
Recommit ==
  /\ root = "commit"
  /\ \/ /\ \E s \in toStore : Refs(s) \cap dirty # {}
        /\ UNCHANGED root
     \/ /\ toStore = {} /\ emptied \cap dirty # {}
        /\ root' = "again"
  /\ toStore' = members[tx[attempt]]
  /\ emptied' = {}
  /\ dirty' = {}
  /\ twice' = (twice \/ "elems" \in emptied)
  /\ UNCHANGED <<attempt, tx, status, members, actorVars, changes, own, storage,
                 count, failures, committed, last, missed, torn>>

\* Mutant of StorageFails: the change sets are emptied though the storage failed.
StorageFailsAndForgets(s) ==
  /\ root = "commit"
  /\ failures < MaxFailures
  /\ s \in toStore
  /\ changes' = Without(changes, {"entries", "elems", "ref"})
  /\ failures' = failures + 1
  /\ root' = "idle"
  /\ toStore' = {} /\ emptied' = {} /\ dirty' = {}
  /\ UNCHANGED <<attempt, tx, status, members, actorVars, own, storage, count,
                 ghostVars>>

\* A call of the storage fails: it was done or not, or is one of several.  The
\* STM transaction of the commit aborts, and the change sets are as they were.
StorageFails(s) ==
  /\ \/ root = "commit" /\ Refs(s) \cap dirty = {}
     \/ root = "again" /\ emptied = {}
  /\ failures < MaxFailures
  /\ s \in toStore
  /\ \/ UNCHANGED storage
     \/ s = "map" /\ storage' \in {MapInserted, MapStored}
     \/ /\ s = "vector"
        /\ \E n \in 1 .. Len(View.elems) : storage' = VectorStored(n)
     \/ s = "ref" /\ storage' = RefStored
  /\ failures' = failures + 1
  /\ root' = "idle"
  /\ toStore' = {} /\ emptied' = {} /\ dirty' = {}
  /\ UNCHANGED <<attempt, tx, status, members, actorVars, changes, own, count,
                 ghostVars>>

------------------------------------------------------------------------------
Handler(a) ==
  \/ \E s \in Structure : Register(a, s)
  \/ PutLands(a) \/ Read(a)
  \/ \E k \in Key : Put(a, k)
  \/ Clear(a) \/ Remove(a) \/ Add(a) \/ Update(a) \/ Swap(a)

Block  == Begin \/ TimeOut \/ Undo \/ Restart \/ Fail \/ GiveUp \/ CommitInMemory
Commit == Empty \/ CommitEnds \/ Recommit

Next ==
  \/ Block \/ Commit
  \/ \E a \in Actor : Handler(a)
  \/ \E b \in Other : Ask(b) \/ Receive(b) \/ Reply(b) \/ Throw(b)
  \/ \E s \in Structure : Store(s) \/ StorageFails(s)

Spec == Init /\ [][Next]_vars

------------------------------------------------------------------------------
(* Properties *)

Entries(values) == [Key -> values \cup {None}]
ChangeOf(values) == [entries : Entries(values), clear : BOOLEAN,
                     elems : Seq(values), ref : values \cup {None}]
Change   == ChangeOf(Attempt \cup {Late})
Contents == [entries : Entries(Attempt \cup {Late}),
             elems : Seq(Attempt \cup {Late, Overwritten}),
             ref : Attempt \cup {Late, None}]

\* Types; whoever works in a transaction works in one that was begun, and the
\* transaction of an attempt is named after one that is not later
\* (AtomicTemplate.java:239-250, Actor.scala:582).
TypeOK ==
  /\ attempt \in 0 .. MaxAttempts
  /\ tx \in [Attempt -> 0 .. MaxAttempts]
  /\ \A n \in 1 .. attempt : tx[n] \in 1 .. n
  /\ status \in [Attempt -> {"new", "active", "committed", "aborted", "abandoned"}]
  /\ members \in [Attempt -> SUBSET Structure]
  /\ root \in Phase \cup Other
  /\ root # "idle" => attempt # 0
  /\ inbox \in [Actor -> Seq(1 .. attempt)]
  /\ job \in [Actor -> 0 .. attempt]
  /\ known \in [Actor -> Structure \cup {"none"}]
  /\ raced \subseteq putting /\ putting \subseteq Actor
  /\ saw \in [Actor -> [read : BOOLEAN, base : Change, own : Change]]
  /\ alone \subseteq Actor
  /\ \A a \in Actor : known[a] = "none" => a \notin putting /\ ~saw[a].read
  /\ \A a \in Actor : known[a] # "none" => job[a] # None
  /\ changes \in Change /\ own \in Change /\ last \in Change
  /\ storage \in Contents
  /\ dirty \subseteq Refs("map") \cup Refs("vector") \cup Refs("ref")
  /\ toStore \subseteq Structure
  /\ emptied \subseteq Refs("map") \cup Refs("vector") \cup Refs("ref")
  /\ count \in 0 .. MaxChanges
  /\ failures \in 0 .. MaxFailures
  /\ committed \subseteq 1 .. attempt
  /\ missed \subseteq Structure /\ torn \subseteq Structure
  /\ twice \in BOOLEAN

\* As long as the storage has not failed it has, between two blocks, all the `put',
\* `add' and `swap' that have committed, those of participants and of writes alone
\* included, and nothing is left in the change sets (PersistentState.scala:70-76,
\* 180-186 and 271-274, Transaction.scala:178).  Not promised, because the code does
\* not keep it: what was removed is still there, a map that was cleared is cleared
\* in every commit, `update' changes elements at once, what was registered while
\* another was or written outside of the block may wait for a later commit, a commit
\* that is repeated may store elements twice, and a late `put' or `add' may set a
\* reference to what it had read in another transaction.
Durable ==
  root = "idle" /\ failures = 0 =>
    /\ \/ "map" \in missed \cup torn \/ last.clear
       \/ changes.entries = NoEntries /\ storage.entries = last.entries
    /\ \/ "ref" \in missed \cup torn
       \/ changes.ref = None /\ storage.ref = last.ref
    /\ \/ "vector" \in missed \cup torn \/ twice
       \/ /\ changes.elems = <<>>
          /\ Len(storage.elems) = Len(last.elems)
          /\ \A i \in DOMAIN last.elems :
               storage.elems[i] \in {last.elems[i], Overwritten}

\* Whatever fails or is repeated, nothing that has committed is lost: what the
\* storage does not have is in the change sets, for the next commit, unless a late
\* participant has set a reference to what it had read in another transaction.
\* Elements may be there twice (PersistentState.scala:70, 180 and 271,
\* Transaction.scala:179).
NothingLost ==
  LET view          == storage.elems \o changes.elems
      Places(s, ns) == {i \in DOMAIN s : s[i] \in ns}
  IN  /\ \/ "map" \in torn \/ last.clear
         \/ Merge(storage.entries, changes.entries) = last.entries
      /\ \/ "ref" \in torn
         \/ last.ref = IF changes.ref = None THEN storage.ref ELSE changes.ref
      /\ \/ "vector" \in torn
         \/ \A n \in Attempt \cup {Late} :
              Cardinality(Places(view, {n, Overwritten}))
                >= Cardinality(Places(last.elems, {n}))

\* What was written in the transaction of a block while attempt n ran is in the
\* change sets of others and in the storage only if attempt n has committed, whoever
\* wrote it: a participant that is late writes in the attempt that runs then, and is
\* undone or stored with that one (AtomicTemplate.java:270-281,
\* PersistentState.scala:70-75).  Excepted are what is written outside of the block's
\* transaction, vector elements that `update' has replaced in the storage, which
\* stay when the block is undone, and a reference that a late participant set to
\* what it had read in another attempt.
OnlyCommitted ==
  LET Map(data) == {data.entries[k] : k \in Key}
      Vec(data) == {data.elems[i] : i \in DOMAIN data.elems}
  IN  /\ "map" \notin torn =>
           (Map(storage) \cup Map(changes)) \cap Attempt \subseteq committed
      /\ "vector" \notin torn =>
           (Vec(storage) \cup Vec(changes)) \cap Attempt \subseteq committed
      /\ "ref" \notin torn =>
           {storage.ref, changes.ref} \cap Attempt \subseteq committed
===============================================================================
