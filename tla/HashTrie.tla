------------------------------- MODULE HashTrie -------------------------------
(***************************************************************************)
(* The persistent hash trie of HashTrie.scala, as TransactionalMap uses    *)
(* it: nodes are records, a table is a sequence of nodes, and an operation *)
(* makes a new trie.                                                       *)
(*                                                                         *)
(* The code has hashes of 32 bits, of which a level looks at 5; here both  *)
(* numbers are parameters.  `hash >>> shift' uses the shift modulo the      *)
(* number of bits of the hash, so that a key below the last level is       *)
(* placed by bits that were looked at before; nothing else uses a shift,   *)
(* and the model keeps it modulo that number.                              *)
(*                                                                         *)
(* `update' returns the node itself when nothing below it changed; the     *)
(* model makes an equal one.                                               *)
(*                                                                         *)
(* A method of a node calls the same method of a child.  Each is a         *)
(* CONSTANT operator here, and its body an operator named for it: Get has  *)
(* GetBody, which uses Get for the child.  An instance gives Get the body  *)
(* (MCCollections); a theorem says that the two agree on the nodes that    *)
(* the program makes (Unfolds), for which the recursion ends.              *)
(*                                                                         *)
(* An operator whose comment begins with `Mutant' is not part of the       *)
(* model: it is a mistake that the properties are shown to detect.         *)
(***************************************************************************)
EXTENDS Naturals, Sequences

CONSTANTS
  Key, Value, None,
  HashBits,   \* the bits of a hash: 32
  Bits,       \* the bits that a level looks at: 5
  HashOf,     \* HashOf[k]: the hash of k
  Exact,      \* the slots s whose logarithm, log 2^s / log 2, comes out a whole
              \* number: not 31, a negative number, nor one that is rounded off
  MaxDepth    \* bound: the levels of nodes of a trie, which the code does not bound

CONSTANTS
  Get(_, _),       \* Get(node, k): the value that is found for k, or None
  Put(_, _, _, _), \* Put(node, shift, k, v): the node with k bound to v; shift
                   \* is for the level that the node above is at, and one more
  Without(_, _),   \* Without(node, k): the node without k
  Size(_), Elements(_),
  Depth(_),        \* the levels of tables
  WellFormed(_)    \* whether a node is one that the program makes

Width  == 2 ^ Bits
Slots  == 0 .. Width - 1
Hash   == 0 .. 2 ^ HashBits - 1
Shifts == 0 .. HashBits - 1

\* (hash >>> shift) & 0x01f
Slot(hash, shift) == (hash \div 2 ^ shift) % Width

\* The shift of the level below.
Below(shift) == (shift + Bits) % HashBits

ASSUME BitsAssumption  == Bits \in Nat \ {0} /\ HashBits \in Nat \ {0}
ASSUME ValueAssumption == None \notin Value
ASSUME HashAssumption  == HashOf \in [Key -> Hash]
ASSUME LogAssumption   == Exact \subseteq Slots
\* Of the arithmetic: a slot is a place of a table, and two hashes that differ are
\* told apart by one of the levels that follow any level, as 5 and 32 are coprime.
ASSUME SlotAssumption  ==
  /\ Width \in Nat /\ Width > 1
  /\ \A h \in Hash, s \in Shifts : Slot(h, s) \in Slots /\ Below(s) \in Shifts
ASSUME ApartAssumption ==
  \A g, h \in Hash : g # h =>
    \A S \in SUBSET Shifts : S # {} /\ (\A s \in S : Below(s) \in S) =>
      \E s \in S : Slot(g, s) # Slot(h, s)

VARIABLE trie   \* TransactionalMap.ref: the root of the trie

------------------------------------------------------------------------------
(* Nodes *)

\* A place of a table that has no child.
Null == [type |-> "null"]

EmptyNode == [type |-> "empty"]
LeafNode(k, v) == [type |-> "leaf", key |-> k, hash |-> HashOf[k], value |-> v]
CollisionNode(h, bucket) == [type |-> "collision", hash |-> h, bucket |-> bucket]
BitmappedNode(shift, table, bits) ==
  [type |-> "bitmapped", shift |-> shift, table |-> table, bits |-> bits]
FullNode(shift, table) == [type |-> "full", shift |-> shift, table |-> table]

Child(node, k) == node.table[Slot(HashOf[k], node.shift) + 1]

\* A copy of the table with `child' in slot i, and with a place for it.
Placed(table, i, child) ==
  [p \in 1 .. (IF i < Len(table) THEN Len(table) ELSE i + 1) |->
     IF p = i + 1 THEN child ELSE IF p \in DOMAIN table THEN table[p] ELSE Null]

HasKey(bucket, i, k) == i \in DOMAIN bucket /\ bucket[i].key = k

\* The first pair of a bucket that has the key.
FirstOf(bucket, k) ==
  CHOOSE i \in DOMAIN bucket :
    HasKey(bucket, i, k) /\ \A j \in 1 .. i - 1 : ~HasKey(bucket, j, k)

GetBody(node, k) ==
  CASE node.type = "empty" -> None
    [] node.type = "leaf" -> IF node.key = k THEN node.value ELSE None
    [] node.type = "collision" ->
         IF \E i \in DOMAIN node.bucket : HasKey(node.bucket, i, k)
         THEN node.bucket[FirstOf(node.bucket, k)].value ELSE None
    [] node.type = "bitmapped" ->
         IF Slot(HashOf[k], node.shift) \in node.bits THEN Get(Child(node, k), k)
         ELSE None
    [] node.type = "full" -> Get(Child(node, k), k)

\* Sums(a, n)[i] is a[1] + ... + a[i].
Sums(a, n) ==
  LET sum[i \in 0 .. n] == IF i = 0 THEN 0 ELSE sum[i - 1] + a[i]
  IN  sum

SizeIn(child) == IF child = Null THEN 0 ELSE Size(child)
SizeBody(node) ==
  CASE node.type = "empty" -> 0
    [] node.type = "leaf" -> 1
    [] node.type = "collision" -> Len(node.bucket)
    [] OTHER -> Sums([p \in DOMAIN node.table |-> SizeIn(node.table[p])],
                     Len(node.table))[Len(node.table)]

DepthBody(node) ==
  IF node.type \in {"bitmapped", "full"}
  THEN LET depths == {Depth(node.table[p]) :
                        p \in {q \in DOMAIN node.table : node.table[q] # Null}}
       IN  1 + CHOOSE d \in depths : \A e \in depths : e <= d
  ELSE 0

\* Joined(a, n)[i] is a[1] \o ... \o a[i].
Joined(a, n) ==
  LET join[i \in 0 .. n] == IF i = 0 THEN <<>> ELSE join[i - 1] \o a[i]
  IN  join

ElementsIn(child) == IF child = Null THEN <<>> ELSE Elements(child)
ElementsBody(node) ==
  CASE node.type = "empty" -> <<>>
    [] node.type = "leaf" -> <<[key |-> node.key, value |-> node.value]>>
    [] node.type = "collision" -> node.bucket
    [] OTHER -> Joined([p \in DOMAIN node.table |-> ElementsIn(node.table[p])],
                       Len(node.table))[Len(node.table)]

------------------------------------------------------------------------------
(* Node.update *)

\* BitmappedNode.apply: a node and a key with different hashes, at one level.
Branch(shift, node, k, v) ==
  LET i     == Slot(node.hash, shift)
      j     == Slot(HashOf[k], shift)
      below == IF i = j THEN Put(node, Below(shift), k, v) ELSE LeafNode(k, v)
  IN  BitmappedNode(shift, Placed(Placed(<<>>, i, node), j, below), {i, j})

\* Mutant of PutInBucket: a key that is there is not looked for.
PutInFront(node, k, v) ==
  CollisionNode(node.hash, <<[key |-> k, value |-> v]>> \o node.bucket)

PutInBucket(node, k, v) ==
  LET pair == [key |-> k, value |-> v]
      replaced == [i \in DOMAIN node.bucket |->
                     IF HasKey(node.bucket, i, k) THEN pair ELSE node.bucket[i]]
      found == \E i \in DOMAIN node.bucket : HasKey(node.bucket, i, k)
  IN  CollisionNode(node.hash, IF found THEN replaced ELSE <<pair>> \o node.bucket)

\* Mutant of PutInTable: the place is computed for the level, not for the node.
PutByLevel(node, shift, k, v) ==
  LET i   == Slot(HashOf[k], shift)
      old == node.bits
      new == Placed(node.table, i, IF i \in old
                                   THEN Put(node.table[i + 1], Below(shift), k, v)
                                   ELSE LeafNode(k, v))
  IN  IF i \notin old /\ old \cup {i} = Slots THEN FullNode(node.shift, new)
      ELSE BitmappedNode(node.shift, new, old \cup {i})

\* BitmappedNode.update: the node uses the shift that it was made with, and a table
\* whose last bit is set becomes a full node.
PutInTable(node, shift, k, v) ==
  LET i   == Slot(HashOf[k], node.shift)
      old == node.bits
      new == Placed(node.table, i, IF i \in old
                                   THEN Put(Child(node, k), Below(node.shift), k, v)
                                   ELSE LeafNode(k, v))
  IN  IF i \notin old /\ old \cup {i} = Slots THEN FullNode(node.shift, new)
      ELSE BitmappedNode(node.shift, new, old \cup {i})

PutBody(node, shift, k, v) ==
  CASE node.type = "empty" -> LeafNode(k, v)
    [] node.type = "leaf" ->
         IF node.key = k THEN LeafNode(k, v)
         ELSE IF node.hash = HashOf[k]
         THEN CollisionNode(node.hash, <<[key |-> node.key, value |-> node.value],
                                         [key |-> k, value |-> v]>>)
         ELSE Branch(shift, node, k, v)
    [] node.type = "collision" ->
         IF node.hash = HashOf[k] THEN PutInBucket(node, k, v)
         ELSE Branch(shift, node, k, v)
    [] node.type = "bitmapped" -> PutInTable(node, shift, k, v)
    [] node.type = "full" ->
         FullNode(node.shift, Placed(node.table, Slot(HashOf[k], node.shift),
                                     Put(Child(node, k), Below(node.shift), k, v)))

------------------------------------------------------------------------------
(* Node.remove *)

\* CollisionNode.remove: a key is in one pair of the bucket at most, so that
\* `filter' takes that one away.
RemoveFromBucket(node, k) ==
  LET b == node.bucket
      i == FirstOf(b, k)
      rest == [j \in 1 .. Len(b) - 1 |-> IF j < i THEN b[j] ELSE b[j + 1]]
  IN  IF ~\E j \in DOMAIN b : HasKey(b, j, k) THEN node
      ELSE IF Len(rest) = 1 THEN LeafNode(rest[1].key, rest[1].value)
      ELSE CollisionNode(node.hash, rest)

\* Mutant of RemoveFromTable: the bit of the slot stays set.
RemoveAndKeepBit(node, k) ==
  LET i     == Slot(HashOf[k], node.shift)
      child == Without(Child(node, k), k)
  IN  IF i \notin node.bits THEN node
      ELSE IF child # EmptyNode
      THEN BitmappedNode(node.shift, Placed(node.table, i, child), node.bits)
      ELSE IF Size(node) = 1 THEN EmptyNode
      ELSE BitmappedNode(node.shift, Placed(node.table, i, Null), node.bits)

\* BitmappedNode.remove: when one bit is left, and its logarithm is a whole number,
\* the node's last child takes its place, whatever level that was made for.
RemoveFromTable(node, k) ==
  LET i     == Slot(HashOf[k], node.shift)
      child == Without(Child(node, k), k)
      rest  == node.bits \ {i}
  IN  IF i \notin node.bits THEN node
      ELSE IF child # EmptyNode
      THEN BitmappedNode(node.shift, Placed(node.table, i, child), node.bits)
      ELSE IF Size(node) = 1 THEN EmptyNode
      ELSE IF \E s \in Exact : rest = {s}
      THEN node.table[(CHOOSE s \in Exact : rest = {s}) + 1]
      ELSE BitmappedNode(node.shift, Placed(node.table, i, Null), rest)

\* FullNode.remove
RemoveFromFull(node, k) ==
  LET i     == Slot(HashOf[k], node.shift)
      child == Without(Child(node, k), k)
  IN  IF child = EmptyNode
      THEN BitmappedNode(node.shift, Placed(node.table, i, Null), Slots \ {i})
      ELSE FullNode(node.shift, Placed(node.table, i, child))

WithoutBody(node, k) ==
  CASE node.type = "empty" -> node
    [] node.type = "leaf" -> IF node.key = k THEN EmptyNode ELSE node
    [] node.type = "collision" -> RemoveFromBucket(node, k)
    [] node.type = "bitmapped" -> RemoveFromTable(node, k)
    [] node.type = "full" -> RemoveFromFull(node, k)

------------------------------------------------------------------------------
(* TransactionalMap: put and update, remove, clear *)

Init == trie = EmptyNode

Update(k, v) ==
  /\ trie' = Put(trie, 0, k, v)
  /\ Depth(trie') <= MaxDepth

Minus(k) == trie' = Without(trie, k)
Clear == trie' = EmptyNode

Next ==
  \/ \E k \in Key : Minus(k) \/ \E v \in Value : Update(k, v)
  \/ Clear

Spec == Init /\ [][Next]_trie

------------------------------------------------------------------------------
(* Properties *)

\* What the slot s of a node holds: a node of the program, whose keys belong there.
InPlace(child, shift, s) ==
  /\ WellFormed(child)
  /\ \A k \in Key : Get(child, k) # None => Slot(HashOf[k], shift) = s

\* The nodes that the program makes: what collides has one hash and different keys,
\* bits say where the table has a child, and a full node has one in each slot.
LeafOK(node) ==
  /\ node.type = "leaf"
  /\ node.key \in Key /\ node.value \in Value /\ node.hash = HashOf[node.key]

Pair == [key : Key, value : Value]

CollisionOK(node) ==
  /\ node.type = "collision"
  /\ node.bucket \in Seq(Pair) /\ Len(node.bucket) > 1
  /\ \A i \in DOMAIN node.bucket :
       /\ HashOf[node.bucket[i].key] = node.hash
       /\ \A j \in DOMAIN node.bucket :
            HasKey(node.bucket, j, node.bucket[i].key) => i = j

IsTable(t) == Len(t) \in 1 .. Width /\ DOMAIN t = 1 .. Len(t)

BitmappedOK(node) ==
  /\ node.type = "bitmapped"
  /\ node.shift \in Shifts
  /\ IsTable(node.table)
  /\ node.bits # {}
  /\ node.bits = {s \in 0 .. Len(node.table) - 1 : node.table[s + 1] # Null}
  /\ \A s \in node.bits : InPlace(node.table[s + 1], node.shift, s)

FullOK(node) ==
  /\ node.type = "full"
  /\ node.shift \in Shifts
  /\ IsTable(node.table) /\ Len(node.table) = Width
  /\ \A s \in Slots : InPlace(node.table[s + 1], node.shift, s)

WellFormedBody(node) ==
  LeafOK(node) \/ CollisionOK(node) \/ BitmappedOK(node) \/ FullOK(node)

\* Each operation is its body on the nodes that the program makes.
Unfolds ==
  /\ \A node : WellFormed(node) <=> WellFormedBody(node)
  /\ \A node : WellFormed(node) => Depth(node) = DepthBody(node) /\ Depth(node) \in Nat
  /\ \A node : WellFormed(node) \/ node = EmptyNode =>
       /\ Size(node) = SizeBody(node)
       /\ Elements(node) = ElementsBody(node)
       /\ \A k \in Key :
            /\ Get(node, k) = GetBody(node, k)
            /\ Without(node, k) = WithoutBody(node, k)
            /\ \A s \in Shifts, v \in Value :
                 Put(node, s, k, v) = PutBody(node, s, k, v)

\* The bits of a node and its children agree, on which every look-up relies
\* (HashTrie.scala:202 and 318).
TypeOK == trie = EmptyNode \/ WellFormed(trie)

\* What an operation does to the trie, it does to the map that the trie stands for:
\* a put changes the value of its key and a remove takes the key away, and neither
\* disturbs another key, in whatever order keys came and went and nodes of lower
\* levels took the place of their parents (HashTrie.scala:53-61).
Contents(node) == [k \in Key |-> Get(node, k)]
OneKeyChanges ==
  LET map == Contents(trie)
  IN  \A k \in Key :
        /\ Contents(Without(trie, k)) = [map EXCEPT ![k] = None]
        /\ \A v \in Value : Contents(Put(trie, 0, k, v)) = [map EXCEPT ![k] = v]

\* The elements are the keys that are found, each once, and as many as the size
\* says, by which `remove' decides what becomes of a node (HashTrie.scala:189-196
\* and 245).
ElementsAreFound ==
  LET pairs == Elements(trie)
  IN  /\ Len(pairs) = Size(trie)
      /\ \A i \in DOMAIN pairs : Get(trie, pairs[i].key) = pairs[i].value
      /\ \A k \in Key : Get(trie, k) # None => \E i \in DOMAIN pairs : pairs[i].key = k
      /\ \A i, j \in DOMAIN pairs : pairs[i].key = pairs[j].key => i = j
===============================================================================
