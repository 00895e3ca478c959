---------------------------- MODULE HashTrie_proofs ----------------------------
(***************************************************************************)
(* Proofs about HashTrie, for any keys, hashes and widths: the operations  *)
(* keep the shape that they rely on, each changes the value of its own key *)
(* only, and the elements are what is found.                               *)
(*                                                                         *)
(* The theorems assume Unfolds, that each operation is its body on the     *)
(* nodes that the program makes.  The argument is by induction on the      *)
(* depth of a node: RightPut says of a node that `update' does the right   *)
(* thing to it, RightRemoval the same of `remove', and a table is right    *)
(* when its children are.  A put that moves a leaf or a bucket down goes   *)
(* through levels that need not come to an end by their number, and ends   *)
(* since two hashes differ at one of the levels (ApartAssumption).  A      *)
(* remove may put the last child of a table in the place of the table,     *)
(* which is right because the keys of a child all belong in its slot       *)
(* (InPlace).                                                              *)
(***************************************************************************)
EXTENDS HashTrie, SequenceTheorems, WellFoundedInduction, TLAPS

------------------------------------------------------------------------------
(* Natural numbers: a set of them has a least one, and induction over a set *)

LEMMA Least ==
  ASSUME NEW T, T \subseteq Nat, T # {}
  PROVE  \E n \in T : \A m \in T : n <= m
<1> DEFINE R == {p \in Nat \X Nat : p[1] < p[2]}
<1>1. IsWellFoundedOn(R, Nat)
  BY NatLessThanWellFounded DEF OpToRel
<1>2. \A n, m \in Nat : <<m, n>> \in R <=> m < n
  OBVIOUS
<1> HIDE DEF R
<1>3. PICK n \in T : \A m \in T : <<m, n>> \notin R
  BY <1>1, WFMin
<1>4. ASSUME NEW m \in T PROVE n <= m
  <2>1. ~(m < n)
    BY <1>2, <1>3
  <2> QED
    BY <2>1
<1> QED
  BY <1>4

LEMMA Induction ==
  ASSUME NEW S, 0 \in S, \A n \in Nat : n \in S => n + 1 \in S
  PROVE  Nat \subseteq S
<1> SUFFICES ASSUME Nat \ S # {} PROVE FALSE
  OBVIOUS
<1>1. PICK n \in Nat \ S : \A m \in Nat \ S : n <= m
  BY Least
<1>2. n - 1 \in Nat /\ n - 1 \notin Nat \ S
  BY <1>1
<1> QED
  BY <1>2

\* The greatest of the members of a bounded set.
LEMMA Greatest ==
  ASSUME NEW T, T \subseteq Nat, T # {}, NEW b \in Nat, \A m \in T : m <= b
  PROVE  \E n \in T : \A m \in T : m <= n
<1> DEFINE U == {n \in Nat : \A m \in T : m <= n}
<1>1. PICK n \in U : \A m \in U : n <= m
  BY Least
<1>2. ASSUME n \notin T PROVE FALSE
  <2>1. \A m \in T : m <= n - 1
    BY <1>1, <1>2
  <2>2. n - 1 \in Nat
    <3>1. PICK m \in T : m <= n - 1
      BY <2>1
    <3> QED
      BY <1>1, <3>1
  <2>3. n - 1 \in U
    BY <2>1, <2>2
  <2> QED
    BY <1>1, <2>3
<1> QED
  BY <1>1, <1>2

------------------------------------------------------------------------------
(* Sums *)

LEMMA SumsDef ==
  ASSUME NEW a, NEW n \in Nat
  PROVE  Sums(a, n) = [i \in 0 .. n |-> IF i = 0 THEN 0 ELSE Sums(a, n)[i - 1] + a[i]]
<1> DEFINE Adds(f, m) == f = [i \in 0 .. m |-> IF i = 0 THEN 0 ELSE f[i - 1] + a[i]]
           S == {m \in Nat : \E f : Adds(f, m)}
<1>1. 0 \in S
  <2>1. Adds([i \in 0 .. 0 |-> 0], 0)
    OBVIOUS
  <2> QED
    BY <2>1
<1>2. ASSUME NEW m \in Nat, m \in S PROVE m + 1 \in S
  <2>1. PICK f : Adds(f, m)
    BY <1>2
  <2> DEFINE g == [i \in 0 .. m + 1 |-> IF i <= m THEN f[i] ELSE f[m] + a[i]]
  <2>2. ASSUME NEW i \in 0 .. m + 1
        PROVE  g[i] = IF i = 0 THEN 0 ELSE g[i - 1] + a[i]
    <3>1. CASE i <= m
      <4>1. f[i] = IF i = 0 THEN 0 ELSE f[i - 1] + a[i]
        BY <2>1, <3>1
      <4> QED
        BY <3>1, <4>1
    <3>2. CASE i = m + 1
      BY <3>2
    <3> QED
      BY <3>1, <3>2
  <2>3. Adds(g, m + 1)
    BY <2>2
  <2> HIDE DEF Adds
  <2> QED
    BY <2>3
<1>3. n \in S
  <2> HIDE DEF S
  <2> QED
    BY <1>1, <1>2, Induction
<1>4. \E f : Adds(f, n)
  BY <1>3
<1> QED
  BY <1>4 DEF Sums

\* What a sum has of each of its terms.
LEMMA SumsFacts ==
  ASSUME NEW n \in Nat, NEW a, \A i \in 1 .. n : a[i] \in Nat
  PROVE  /\ Sums(a, n)[n] \in Nat
         /\ \A i \in 1 .. n : a[i] <= Sums(a, n)[n]
         /\ \A i, j \in 1 .. n : i # j => a[i] + a[j] <= Sums(a, n)[n]
         /\ \A i \in 1 .. n : (\A j \in 1 .. n : j # i => a[j] = 0) =>
              Sums(a, n)[n] = a[i]
<1> PICK f : f = Sums(a, n)
  OBVIOUS
<1>1. \A i \in 0 .. n : f[i] = IF i = 0 THEN 0 ELSE f[i - 1] + a[i]
  BY SumsDef
<1> DEFINE Facts(m) ==
             /\ f[m] \in Nat
             /\ \A i \in 1 .. m : a[i] <= f[m]
             /\ \A i, j \in 1 .. m : i # j => a[i] + a[j] <= f[m]
             /\ (\A j \in 1 .. m : a[j] = 0) => f[m] = 0
             /\ \A i \in 1 .. m : (\A j \in 1 .. m : j # i => a[j] = 0) => f[m] = a[i]
           S == {m \in Nat : m <= n => Facts(m)}
<1>2. 0 \in S
  BY <1>1
<1>3. ASSUME NEW m \in Nat, m \in S PROVE m + 1 \in S
  <2> SUFFICES ASSUME m + 1 <= n PROVE Facts(m + 1)
    OBVIOUS
  <2>1. /\ f[m] \in Nat
        /\ \A i \in 1 .. m : a[i] <= f[m]
        /\ \A i, j \in 1 .. m : i # j => a[i] + a[j] <= f[m]
        /\ (\A j \in 1 .. m : a[j] = 0) => f[m] = 0
        /\ \A i \in 1 .. m : (\A j \in 1 .. m : j # i => a[j] = 0) => f[m] = a[i]
    BY <1>3
  <2>2. f[m + 1] = f[m] + a[m + 1] /\ a[m + 1] \in Nat
    BY <1>1
  <2>3. \A i \in 1 .. m + 1 : i \in 1 .. m \/ i = m + 1
    OBVIOUS
  <2>4. \A i \in 1 .. m : a[i] \in Nat
    OBVIOUS
  <2>5. f[m + 1] \in Nat /\ \A i \in 1 .. m + 1 : a[i] <= f[m + 1]
    BY <2>1, <2>2, <2>3, <2>4
  <2>6. ASSUME NEW i \in 1 .. m + 1, NEW j \in 1 .. m + 1, i # j
        PROVE  a[i] + a[j] <= f[m + 1]
    BY <2>1, <2>2, <2>3, <2>4, <2>6
  <2>7. ASSUME \A j \in 1 .. m + 1 : a[j] = 0 PROVE f[m + 1] = 0
    BY <2>1, <2>2, <2>7
  <2>8. ASSUME NEW i \in 1 .. m + 1, \A j \in 1 .. m + 1 : j # i => a[j] = 0
        PROVE  f[m + 1] = a[i]
    <3>1. CASE i \in 1 .. m
      BY <2>1, <2>2, <2>4, <2>8, <3>1
    <3>2. CASE i = m + 1
      BY <2>1, <2>2, <2>8, <3>2
    <3> QED
      BY <2>3, <3>1, <3>2
  <2> QED
    BY <2>5, <2>6, <2>7, <2>8
<1>4. n \in S
  <2> HIDE DEF S
  <2> QED
    BY <1>2, <1>3, Induction
<1> QED
  BY <1>4

------------------------------------------------------------------------------
(* Tables *)

\* A node is neither an empty place nor the empty trie.
LEMMA NotNull ==
  ASSUME Unfolds, NEW node, WellFormed(node)
  PROVE  node # Null /\ node # EmptyNode
<1>1. node.type \in {"leaf", "collision", "bitmapped", "full"}
  BY DEF Unfolds, WellFormedBody, LeafOK, CollisionOK, BitmappedOK, FullOK
<1>2. Null.type = "null" /\ EmptyNode.type = "empty"
  BY DEF Null, EmptyNode
<1> QED
  BY <1>1, <1>2

LEMMA PlacedFacts ==
  ASSUME NEW t, NEW i \in Nat, NEW child,
         Len(t) \in Nat, DOMAIN t = 1 .. Len(t)
  PROVE  LET u == Placed(t, i, child)
         IN  /\ Len(u) = IF i < Len(t) THEN Len(t) ELSE i + 1
             /\ DOMAIN u = 1 .. Len(u)
             /\ u[i + 1] = child
             /\ \A s \in 0 .. Len(u) - 1 :
                  s # i => u[s + 1] = IF s < Len(t) THEN t[s + 1] ELSE Null
<1> DEFINE u == Placed(t, i, child)
           n == IF i < Len(t) THEN Len(t) ELSE i + 1
<1>1. n \in Nat /\ i + 1 \in 1 .. n
  OBVIOUS
<1>2. DOMAIN u = 1 .. n
  BY DEF Placed
<1>3. \A p \in 1 .. n : u[p] = IF p = i + 1 THEN child
                               ELSE IF p \in DOMAIN t THEN t[p] ELSE Null
  BY DEF Placed
<1>4. u \in Seq({u[p] : p \in 1 .. n})
  <2>1. u = [p \in 1 .. n |-> u[p]]
    BY DEF Placed
  <2> HIDE DEF u, n
  <2> QED
    BY <1>1, <2>1
<1>5. Len(u) = n
  <2> HIDE DEF u, n
  <2> QED
    BY <1>1, <1>2, <1>4
<1>6. ASSUME NEW s \in 0 .. n - 1, s # i
      PROVE  u[s + 1] = IF s < Len(t) THEN t[s + 1] ELSE Null
  <2>1. s + 1 \in 1 .. n /\ s + 1 # i + 1
    BY <1>1, <1>6
  <2>2. s + 1 \in DOMAIN t <=> s < Len(t)
    BY <1>6
  <2> HIDE DEF u, n
  <2> QED
    BY <1>3, <2>1, <2>2
<1> HIDE DEF u
<1>7. u[i + 1] = child
  BY <1>1, <1>3
<1> QED
  BY <1>2, <1>5, <1>6, <1>7 DEF u

\* What a look-up finds in a node of each type.
LEMMA GetLeaf ==
  ASSUME Unfolds, NEW node, LeafOK(node)
  PROVE  WellFormed(node) /\ \A k \in Key :
           Get(node, k) = IF node.key = k THEN node.value ELSE None
<1>1. WellFormed(node)
  BY DEF Unfolds, WellFormedBody
<1>2. node.type = "leaf"
  BY DEF LeafOK
<1> QED
  BY <1>1, <1>2 DEF Unfolds, GetBody

LEMMA GetEmpty ==
  ASSUME Unfolds
  PROVE  \A k \in Key : Get(EmptyNode, k) = None
<1>1. EmptyNode.type = "empty"
  BY DEF EmptyNode
<1> QED
  BY <1>1 DEF Unfolds, GetBody

LEMMA GetBitmapped ==
  ASSUME Unfolds, NEW node, BitmappedOK(node)
  PROVE  WellFormed(node) /\ \A k \in Key :
           LET i == Slot(HashOf[k], node.shift)
           IN  Get(node, k) = IF i \in node.bits THEN Get(node.table[i + 1], k) ELSE None
<1>1. WellFormed(node)
  BY DEF Unfolds, WellFormedBody
<1>2. node.type = "bitmapped"
  BY DEF BitmappedOK
<1> QED
  BY <1>1, <1>2 DEF Unfolds, GetBody, Child

LEMMA GetFull ==
  ASSUME Unfolds, NEW node, FullOK(node)
  PROVE  WellFormed(node) /\ \A k \in Key :
           Get(node, k) = Get(node.table[Slot(HashOf[k], node.shift) + 1], k)
<1>1. WellFormed(node)
  BY DEF Unfolds, WellFormedBody
<1>2. node.type = "full"
  BY DEF FullOK
<1> QED
  BY <1>1, <1>2 DEF Unfolds, GetBody, Child

\* A bucket has a key once.
LEMMA GetCollision ==
  ASSUME Unfolds, NEW node, CollisionOK(node)
  PROVE  /\ WellFormed(node)
         /\ \A k \in Key, i \in DOMAIN node.bucket :
              HasKey(node.bucket, i, k) => /\ FirstOf(node.bucket, k) = i
                                           /\ Get(node, k) = node.bucket[i].value
         /\ \A k \in Key :
              (\A i \in DOMAIN node.bucket : node.bucket[i].key # k) =>
                Get(node, k) = None
<1> DEFINE b == node.bucket
<1>1. WellFormed(node)
  BY DEF Unfolds, WellFormedBody
<1>2. node.type = "collision"
  BY DEF CollisionOK
<1>3. \A k \in Key :
        Get(node, k) = IF \E i \in DOMAIN b : HasKey(b, i, k) THEN b[FirstOf(b, k)].value
                       ELSE None
  BY <1>1, <1>2 DEF Unfolds, GetBody
<1>4. \A i, j \in DOMAIN b : b[j].key = b[i].key => i = j
  BY DEF CollisionOK, HasKey
<1>5. b \in Seq(Pair)
  BY DEF CollisionOK
<1> HIDE DEF b
<1>6. DOMAIN b = 1 .. Len(b) /\ Len(b) \in Nat
  BY <1>5
<1>7. ASSUME NEW k \in Key, NEW i \in DOMAIN b, HasKey(b, i, k)
      PROVE  FirstOf(b, k) = i
  <2>1. ASSUME NEW j \in DOMAIN b, HasKey(b, j, k) PROVE j = i
    BY <1>4, <1>7, <2>1 DEF HasKey
  <2>2. \A j \in 1 .. i - 1 : ~HasKey(b, j, k)
    BY <1>6, <2>1 DEF HasKey
  <2> QED
    BY <1>7, <2>1, <2>2 DEF FirstOf
<1>8. ASSUME NEW k \in Key, NEW i \in DOMAIN b, HasKey(b, i, k)
      PROVE  FirstOf(b, k) = i /\ Get(node, k) = b[i].value
  BY <1>3, <1>7, <1>8
<1>9. ASSUME NEW k \in Key, \A i \in DOMAIN b : b[i].key # k
      PROVE  Get(node, k) = None
  BY <1>3, <1>9 DEF HasKey
<1> QED
  BY <1>1, <1>8, <1>9 DEF b

------------------------------------------------------------------------------
(* Depth and size *)

LEMMA Children ==
  ASSUME Unfolds, NEW node, BitmappedOK(node) \/ FullOK(node)
  PROVE  /\ WellFormed(node) /\ IsTable(node.table)
         /\ node.type \in {"bitmapped", "full"}
         /\ \E p \in DOMAIN node.table : node.table[p] # Null
         /\ \A p \in DOMAIN node.table :
              node.table[p] # Null => WellFormed(node.table[p])
<1> DEFINE t == node.table
<1>1. /\ WellFormed(node) /\ IsTable(t)
      /\ node.type \in {"bitmapped", "full"}
  BY DEF Unfolds, WellFormedBody, BitmappedOK, FullOK
<1>2. CASE BitmappedOK(node)
  <2>1. /\ node.bits = {s \in 0 .. Len(t) - 1 : t[s + 1] # Null}
        /\ node.bits # {}
        /\ \A s \in node.bits : WellFormed(t[s + 1])
    BY <1>2 DEF BitmappedOK, InPlace
  <2>2. PICK s \in node.bits : t[s + 1] # Null /\ s + 1 \in DOMAIN t
    BY <1>1, <2>1 DEF IsTable
  <2>3. ASSUME NEW p \in DOMAIN t, t[p] # Null PROVE WellFormed(t[p])
    <3>1. p - 1 \in 0 .. Len(t) - 1 /\ t[(p - 1) + 1] = t[p]
      BY <1>1 DEF IsTable
    <3> HIDE DEF t
    <3>2. p - 1 \in node.bits
      BY <2>1, <2>3, <3>1
    <3> QED
      BY <2>1, <3>1, <3>2
  <2> QED
    BY <1>1, <2>2, <2>3
<1>3. CASE FullOK(node)
  <2>1. Len(t) = Width /\ \A s \in Slots : WellFormed(t[s + 1])
    BY <1>3 DEF FullOK, InPlace
  <2>2. ASSUME NEW p \in DOMAIN t PROVE WellFormed(t[p])
    <3>1. p - 1 \in Slots /\ t[(p - 1) + 1] = t[p]
      BY <1>1, <2>1, SlotAssumption DEF IsTable, Slots
    <3> HIDE DEF t
    <3> QED
      BY <2>1, <3>1
  <2>3. 1 \in DOMAIN t
    BY <1>1 DEF IsTable
  <2>4. t[1] # Null
    BY <2>2, <2>3, NotNull
  <2> QED
    BY <1>1, <2>2, <2>3, <2>4
<1> QED
  BY <1>2, <1>3

\* A child is less deep than its node.
LEMMA Deeper ==
  ASSUME Unfolds, NEW node, BitmappedOK(node) \/ FullOK(node),
         NEW p \in DOMAIN node.table, node.table[p] # Null
  PROVE  /\ Depth(node) \in Nat
         /\ Depth(node.table[p]) \in Nat
         /\ Depth(node.table[p]) < Depth(node)
<1> DEFINE t == node.table
           places == {q \in DOMAIN t : t[q] # Null}
           depths == {Depth(t[q]) : q \in places}
           a == [q \in 1 .. Len(t) |-> IF q \in places THEN Depth(t[q]) ELSE 0]
<1>1. /\ WellFormed(node) /\ IsTable(t)
      /\ node.type \in {"bitmapped", "full"}
      /\ \A q \in DOMAIN t : t[q] # Null => WellFormed(t[q])
  BY Children
<1>2. Len(t) \in Nat /\ DOMAIN t = 1 .. Len(t)
  BY <1>1, SlotAssumption DEF IsTable
<1>3. \A q \in places : Depth(t[q]) \in Nat
  BY <1>1 DEF Unfolds
<1>4. Depth(t[p]) \in depths /\ depths \subseteq Nat
  BY <1>3
<1>5. Depth(node) = 1 + CHOOSE d \in depths : \A e \in depths : e <= d
  BY <1>1 DEF Unfolds, DepthBody
<1>6. /\ Sums(a, Len(t))[Len(t)] \in Nat
      /\ \A d \in depths : d <= Sums(a, Len(t))[Len(t)]
  <2>1. \A q \in 1 .. Len(t) : a[q] \in Nat
    BY <1>3
  <2>2. /\ Sums(a, Len(t))[Len(t)] \in Nat
        /\ \A q \in 1 .. Len(t) : a[q] <= Sums(a, Len(t))[Len(t)]
    <3> HIDE DEF a, t
    <3> QED
      BY <1>2, <2>1, SumsFacts
  <2>3. \A q \in places : q \in 1 .. Len(t) /\ a[q] = Depth(t[q])
    BY <1>2
  <2> HIDE DEF a, t, places
  <2> QED
    BY <2>2, <2>3
<1> HIDE DEF depths
<1>7. \E d \in depths : \A e \in depths : e <= d
  BY <1>4, <1>6, Greatest
<1>8. PICK d \in depths : /\ Depth(node) = 1 + d
                          /\ \A e \in depths : e <= d
  BY <1>5, <1>7
<1> QED
  BY <1>4, <1>8

LEMMA TableSize ==
  ASSUME Unfolds, NEW node, BitmappedOK(node) \/ FullOK(node),
         \A p \in DOMAIN node.table :
           node.table[p] # Null => Size(node.table[p]) \in Nat \ {0}
  PROVE  /\ Size(node) \in Nat \ {0}
         /\ \A p, q \in DOMAIN node.table :
              node.table[p] # Null /\ node.table[q] # Null /\ p # q => Size(node) > 1
         /\ \A p \in DOMAIN node.table :
              /\ node.table[p] # Null
              /\ \A q \in DOMAIN node.table : q # p => node.table[q] = Null
              => Size(node) = Size(node.table[p])
<1> DEFINE t == node.table
           a == [p \in DOMAIN t |-> SizeIn(t[p])]
           n == Len(t)
<1>1. /\ WellFormed(node) /\ IsTable(t)
      /\ node.type \in {"bitmapped", "full"}
      /\ \E p \in DOMAIN t : t[p] # Null
  BY Children
<1>2. n \in Nat /\ DOMAIN t = 1 .. n
  BY <1>1, SlotAssumption DEF IsTable
<1>3. Size(node) = Sums(a, n)[n]
  BY <1>1 DEF Unfolds, SizeBody
<1>4. \A p \in 1 .. n : /\ t[p] # Null => a[p] = Size(t[p]) /\ a[p] \in Nat \ {0}
                        /\ t[p] = Null => a[p] = 0
  BY <1>2 DEF SizeIn
<1> HIDE DEF a, n
<1>5. \A p \in 1 .. n : a[p] \in Nat
  BY <1>4
<1>6. /\ Size(node) \in Nat
      /\ \A p \in 1 .. n : a[p] <= Size(node)
      /\ \A p, q \in 1 .. n : p # q => a[p] + a[q] <= Size(node)
      /\ \A p \in 1 .. n : (\A q \in 1 .. n : q # p => a[q] = 0) => Size(node) = a[p]
  BY <1>2, <1>3, <1>5, SumsFacts
<1>7. Size(node) \in Nat \ {0}
  BY <1>1, <1>2, <1>4, <1>6
<1>8. ASSUME NEW p \in 1 .. n, NEW q \in 1 .. n, t[p] # Null, t[q] # Null, p # q
      PROVE  Size(node) > 1
  <2>1. a[p] + a[q] <= Size(node)
    BY <1>6, <1>8
  <2>2. a[p] \in Nat \ {0} /\ a[q] \in Nat \ {0}
    BY <1>4, <1>8
  <2> QED
    BY <1>6, <2>1, <2>2
<1>9. ASSUME NEW p \in 1 .. n, t[p] # Null, \A q \in 1 .. n : q # p => t[q] = Null
      PROVE  Size(node) = Size(t[p])
  BY <1>4, <1>6, <1>9
<1> QED
  BY <1>2, <1>7, <1>8, <1>9

\* A node has an element.
LEMMA SizePositive ==
  ASSUME Unfolds, NEW node, WellFormed(node)
  PROVE  Size(node) \in Nat \ {0}
<1> DEFINE Bad(c) == WellFormed(c) /\ Size(c) \notin Nat \ {0}
           S == {n \in Nat : \E c : Bad(c) /\ Depth(c) = n}
<1> SUFFICES ASSUME S # {} PROVE FALSE
  BY DEF Unfolds
<1>1. PICK n \in S : \A m \in S : n <= m
  BY Least
<1>2. PICK c : Bad(c) /\ Depth(c) = n
  BY <1>1
<1>3. Size(c) = SizeBody(c)
  BY <1>2 DEF Unfolds
<1>4. CASE LeafOK(c)
  <2>1. c.type = "leaf"
    BY <1>4 DEF LeafOK
  <2> QED
    BY <1>2, <1>3, <2>1 DEF SizeBody
<1>5. CASE CollisionOK(c)
  <2>1. c.type = "collision"
    BY <1>5 DEF CollisionOK
  <2>2. c.bucket \in Seq(Pair) /\ Len(c.bucket) > 1
    BY <1>5 DEF CollisionOK
  <2>3. Len(c.bucket) \in Nat \ {0}
    BY <2>2
  <2>4. Size(c) = Len(c.bucket)
    BY <1>3, <2>1 DEF SizeBody
  <2> QED
    BY <1>2, <2>3, <2>4
<1>6. CASE BitmappedOK(c) \/ FullOK(c)
  <2>1. ASSUME NEW p \in DOMAIN c.table, c.table[p] # Null
        PROVE  Size(c.table[p]) \in Nat \ {0}
    <3>1. WellFormed(c.table[p])
      BY <1>6, <2>1, Children
    <3>2. Depth(c.table[p]) \in Nat /\ Depth(c.table[p]) < n
      BY <1>2, <1>6, <2>1, Deeper
    <3> QED
      BY <1>1, <3>1, <3>2
  <2>2. Size(c) \in Nat \ {0}
    BY <1>6, <2>1, TableSize
  <2> QED
    BY <1>2, <2>2
<1> QED
  BY <1>2, <1>4, <1>5, <1>6 DEF Unfolds, WellFormedBody

------------------------------------------------------------------------------
(* A put *)

\* What a put of v for k makes of a node.
RightPut(node, n, k, v) ==
  /\ WellFormed(n)
  /\ \A j \in Key : Get(n, j) = IF j = k THEN v ELSE Get(node, j)

LEMMA NewLeaf ==
  ASSUME Unfolds, NEW k \in Key, NEW v \in Value
  PROVE  /\ WellFormed(LeafNode(k, v))
         /\ \A j \in Key : Get(LeafNode(k, v), j) = IF j = k THEN v ELSE None
<1> DEFINE n == LeafNode(k, v)
<1>1. n.type = "leaf" /\ n.key = k /\ n.value = v /\ n.hash = HashOf[k]
  BY DEF LeafNode
<1> HIDE DEF n
<1>2. LeafOK(n)
  BY <1>1 DEF LeafOK
<1>3. WellFormed(n) /\ \A j \in Key : Get(n, j) = IF n.key = j THEN n.value ELSE None
  BY <1>2, GetLeaf
<1>4. WellFormed(n) /\ \A j \in Key : Get(n, j) = IF j = k THEN v ELSE None
  BY <1>1, <1>3
<1> QED
  BY <1>4 DEF n

\* The slots of a table that have a child.
Used(t) == {s \in 0 .. Len(t) - 1 : t[s + 1] # Null}

LEMMA NewBitmapped ==
  ASSUME Unfolds, NEW shift \in Shifts, NEW t, IsTable(t),
         NEW bits, bits # {}, bits = Used(t),
         \A s \in bits : InPlace(t[s + 1], shift, s),
         NEW n, n = BitmappedNode(shift, t, bits)
  PROVE  /\ WellFormed(n)
         /\ \A j \in Key : LET i == Slot(HashOf[j], shift)
                           IN  Get(n, j) = IF i \in bits THEN Get(t[i + 1], j) ELSE None
<1>1. n.type = "bitmapped" /\ n.shift = shift /\ n.table = t /\ n.bits = bits
  BY DEF BitmappedNode
<1>2. BitmappedOK(n)
  BY <1>1 DEF BitmappedOK, Used
<1>3. WellFormed(n) /\ \A j \in Key :
        LET i == Slot(HashOf[j], n.shift)
        IN  Get(n, j) = IF i \in n.bits THEN Get(n.table[i + 1], j) ELSE None
  BY <1>2, GetBitmapped
<1>4. WellFormed(n) /\ \A j \in Key :
        LET i == Slot(HashOf[j], shift)
        IN  Get(n, j) = IF i \in bits THEN Get(t[i + 1], j) ELSE None
  BY <1>1, <1>3
<1> QED
  BY <1>4

LEMMA NewFull ==
  ASSUME Unfolds, NEW shift \in Shifts, NEW t, IsTable(t), Len(t) = Width,
         \A s \in Slots : InPlace(t[s + 1], shift, s),
         NEW n, n = FullNode(shift, t)
  PROVE  /\ WellFormed(n)
         /\ \A j \in Key : Get(n, j) = Get(t[Slot(HashOf[j], shift) + 1], j)
<1>1. n.type = "full" /\ n.shift = shift /\ n.table = t
  BY DEF FullNode
<1>2. FullOK(n)
  BY <1>1 DEF FullOK
<1>3. WellFormed(n) /\ \A j \in Key :
        Get(n, j) = Get(n.table[Slot(HashOf[j], n.shift) + 1], j)
  BY <1>2, GetFull
<1>4. WellFormed(n) /\ \A j \in Key : Get(n, j) = Get(t[Slot(HashOf[j], shift) + 1], j)
  BY <1>1, <1>3
<1> QED
  BY <1>4

\* The slot of a key.
LEMMA SlotOfKey ==
  ASSUME NEW k \in Key, NEW s \in Shifts
  PROVE  /\ HashOf[k] \in Hash /\ Below(s) \in Shifts
         /\ Slot(HashOf[k], s) \in Slots /\ Slot(HashOf[k], s) \in Nat
<1>1. HashOf[k] \in Hash
  BY HashAssumption
<1>2. Slot(HashOf[k], s) \in Slots /\ Below(s) \in Shifts
  BY <1>1, SlotAssumption
<1> QED
  BY <1>1, <1>2, SlotAssumption DEF Slots

\* A node whose keys have one hash, which k has not, and k part at the level or below.
LEMMA BranchRight ==
  ASSUME Unfolds, NEW node, WellFormed(node), node.hash \in Hash,
         \A j \in Key : Get(node, j) # None => HashOf[j] = node.hash,
         NEW s \in Shifts, NEW k \in Key, NEW v \in Value,
         Slot(node.hash, s) = Slot(HashOf[k], s) =>
           RightPut(node, Put(node, Below(s), k, v), k, v),
         HashOf[k] # node.hash
  PROVE  RightPut(node, Branch(s, node, k, v), k, v)
<1> DEFINE i == Slot(node.hash, s)
           j == Slot(HashOf[k], s)
           below == IF i = j THEN Put(node, Below(s), k, v) ELSE LeafNode(k, v)
           t == Placed(Placed(<<>>, i, node), j, below)
<1>1. i \in Slots /\ j \in Slots /\ i \in 0 .. Width - 1 /\ j \in 0 .. Width - 1
  BY SlotAssumption, SlotOfKey DEF Slots
<1>2. /\ WellFormed(below) /\ below # Null
      /\ \A l \in Key : Get(below, l) = IF l = k THEN v
                                        ELSE IF i = j THEN Get(node, l) ELSE None
  <2>1. CASE i = j
    BY <2>1, NotNull DEF RightPut
  <2>2. CASE i # j
    BY <2>2, NotNull, NewLeaf
  <2> QED
    BY <2>1, <2>2
<1> HIDE DEF below
<1>3. /\ IsTable(t) /\ i < Len(t) /\ j < Len(t)
      /\ t[j + 1] = below
      /\ i # j => t[i + 1] = node
      /\ \A p \in 0 .. Len(t) - 1 : p # i /\ p # j => t[p + 1] = Null
  <2> DEFINE u == Placed(<<>>, i, node)
  <2>1. /\ Len(u) = i + 1 /\ DOMAIN u = 1 .. Len(u) /\ u[i + 1] = node
        /\ \A p \in 0 .. Len(u) - 1 : p # i => u[p + 1] = Null
    <3>1. Len(<<>>) = 0 /\ DOMAIN <<>> = 1 .. Len(<<>>)
      OBVIOUS
    <3>2. \A p \in 0 .. i : ~(p < 0)
      BY <1>1
    <3> QED
      BY <1>1, <3>1, <3>2, PlacedFacts
  <2>2. Len(u) \in Nat /\ j \in Nat /\ i \in Nat
    BY <1>1, <2>1, SlotAssumption
  <2> HIDE DEF u, i, j
  <2>3. /\ Len(t) = IF j < Len(u) THEN Len(u) ELSE j + 1
        /\ DOMAIN t = 1 .. Len(t) /\ t[j + 1] = below
        /\ \A p \in 0 .. Len(t) - 1 :
             p # j => t[p + 1] = IF p < Len(u) THEN u[p + 1] ELSE Null
    BY <2>1, <2>2, PlacedFacts DEF u
  <2> HIDE DEF t
  <2>4. Len(t) \in 1 .. Width /\ i < Len(t) /\ j < Len(t)
    BY <1>1, <2>1, <2>2, <2>3, SlotAssumption
  <2>5. i # j => t[i + 1] = node
    BY <2>1, <2>2, <2>3, <2>4
  <2>6. ASSUME NEW p \in 0 .. Len(t) - 1, p # i, p # j PROVE t[p + 1] = Null
    <3>1. t[p + 1] = IF p < Len(u) THEN u[p + 1] ELSE Null
      BY <2>3, <2>6
    <3>2. CASE p < Len(u)
      BY <2>1, <2>6, <3>1, <3>2
    <3> QED
      BY <3>1, <3>2
  <2> QED
    BY <2>3, <2>4, <2>5, <2>6 DEF IsTable
<1>4. Branch(s, node, k, v) = BitmappedNode(s, t, {i, j})
  BY DEF Branch, below
<1> HIDE DEF t
<1>5. {i, j} = Used(t)
  <2>1. node # Null
    BY NotNull
  <2>2. i \in 0 .. Len(t) - 1 /\ j \in 0 .. Len(t) - 1
    BY <1>1, <1>3, SlotAssumption DEF IsTable
  <2>3. t[i + 1] # Null /\ t[j + 1] # Null
    BY <1>2, <1>3, <2>1
  <2> HIDE DEF i, j
  <2> QED
    BY <1>3, <2>2, <2>3 DEF Used
<1>6. ASSUME NEW l \in Key, Get(node, l) # None
      PROVE  Slot(HashOf[l], s) = i
  BY <1>6
<1> HIDE DEF i
<1>7. InPlace(t[j + 1], s, j)
  <2> SUFFICES ASSUME NEW l \in Key, Get(below, l) # None
               PROVE  Slot(HashOf[l], s) = j
    BY <1>2, <1>3 DEF InPlace
  <2> QED
    BY <1>2, <1>6
<1>8. i # j => InPlace(t[i + 1], s, i)
  BY <1>3, <1>6 DEF InPlace
<1>9. /\ WellFormed(BitmappedNode(s, t, {i, j}))
      /\ \A l \in Key : LET p == Slot(HashOf[l], s)
                        IN  Get(BitmappedNode(s, t, {i, j}), l)
                              = IF p \in {i, j} THEN Get(t[p + 1], l) ELSE None
  <2> DEFINE bits == {i, j}
             n == BitmappedNode(s, t, bits)
  <2>1. \A p \in bits : InPlace(t[p + 1], s, p)
    BY <1>7, <1>8
  <2>2. bits # {} /\ bits = Used(t)
    BY <1>5
  <2>3. n = BitmappedNode(s, t, bits)
    OBVIOUS
  <2> HIDE DEF j, n, bits
  <2>4. /\ WellFormed(n)
        /\ \A l \in Key : LET p == Slot(HashOf[l], s)
                          IN  Get(n, l) = IF p \in bits THEN Get(t[p + 1], l) ELSE None
    BY <1>3, <2>1, <2>2, <2>3, NewBitmapped
  <2> QED
    BY <2>4 DEF n, bits
<1>10. ASSUME NEW l \in Key
       PROVE  Get(BitmappedNode(s, t, {i, j}), l) = IF l = k THEN v ELSE Get(node, l)
  <2> DEFINE p == Slot(HashOf[l], s)
  <2>1. l = k => p = j
    OBVIOUS
  <2>2. Get(node, l) # None => p = i
    BY <1>6
  <2>3. Get(BitmappedNode(s, t, {i, j}), l) = IF p \in {i, j} THEN Get(t[p + 1], l) ELSE None
    BY <1>9
  <2> HIDE DEF p, j
  <2>4. CASE p = j
    BY <1>2, <1>3, <2>1, <2>2, <2>3, <2>4
  <2>5. CASE p = i /\ i # j
    BY <1>3, <2>1, <2>3, <2>5
  <2>6. CASE p \notin {i, j}
    BY <2>1, <2>2, <2>3, <2>6
  <2> QED
    BY <2>4, <2>5, <2>6
<1> QED
  BY <1>4, <1>9, <1>10 DEF RightPut

LEMMA Pairs ==
  ASSUME NEW b \in Seq(Pair)
  PROVE  /\ Len(b) \in Nat /\ DOMAIN b = 1 .. Len(b)
         /\ \A i \in DOMAIN b : b[i].key \in Key /\ b[i].value \in Value
         /\ \A i \in DOMAIN b : b[i] \in Pair
<1>1. /\ Len(b) \in Nat /\ DOMAIN b = 1 .. Len(b)
      /\ \A i \in DOMAIN b : b[i] \in Pair
  OBVIOUS
<1> QED
  BY <1>1 DEF Pair

LEMMA NewCollision ==
  ASSUME Unfolds, NEW h, NEW b \in Seq(Pair), Len(b) > 1,
         \A i \in DOMAIN b : HashOf[b[i].key] = h,
         \A i, j \in DOMAIN b : b[i].key = b[j].key => i = j,
         NEW n, n = CollisionNode(h, b)
  PROVE  /\ WellFormed(n)
         /\ \A i \in DOMAIN b : Get(n, b[i].key) = b[i].value
         /\ \A k \in Key : (\A i \in DOMAIN b : b[i].key # k) => Get(n, k) = None
<1>1. n.type = "collision" /\ n.hash = h /\ n.bucket = b
  BY DEF CollisionNode
<1>2. CollisionOK(n)
  BY <1>1 DEF CollisionOK, HasKey
<1>3. \A i \in DOMAIN b : b[i].key \in Key /\ HasKey(b, i, b[i].key)
  BY Pairs DEF HasKey
<1>4. WellFormed(n) /\ \A i \in DOMAIN b : Get(n, b[i].key) = b[i].value
  BY <1>1, <1>2, <1>3, GetCollision
<1>5. \A k \in Key : (\A i \in DOMAIN b : b[i].key # k) => Get(n, k) = None
  BY <1>1, <1>2, GetCollision
<1> QED
  BY <1>4, <1>5

\* What is known of a bucket.
LEMMA BucketFacts ==
  ASSUME Unfolds, NEW node, CollisionOK(node)
  PROVE  LET b == node.bucket
         IN  /\ b \in Seq(Pair) /\ Len(b) > 1
             /\ \A i \in DOMAIN b : HashOf[b[i].key] = node.hash
             /\ \A i, j \in DOMAIN b : b[i].key = b[j].key => i = j
             /\ \A i \in DOMAIN b : Get(node, b[i].key) = b[i].value
             /\ \A k \in Key : (\A i \in DOMAIN b : b[i].key # k) => Get(node, k) = None
<1> DEFINE b == node.bucket
<1>1. /\ b \in Seq(Pair) /\ Len(b) > 1
      /\ \A i \in DOMAIN b : HashOf[b[i].key] = node.hash
      /\ \A i, j \in DOMAIN b : b[i].key = b[j].key => i = j
  BY DEF CollisionOK, HasKey
<1>2. \A i \in DOMAIN b : b[i].key \in Key /\ HasKey(b, i, b[i].key)
  BY <1>1, Pairs DEF HasKey
<1>3. \A i \in DOMAIN b : Get(node, b[i].key) = b[i].value
  BY <1>2, GetCollision
<1>4. \A k \in Key : (\A i \in DOMAIN b : b[i].key # k) => Get(node, k) = None
  BY GetCollision
<1> QED
  BY <1>1, <1>3, <1>4

\* The keys of a leaf and of a bucket have the hash of the node.
LEMMA OneHash ==
  ASSUME Unfolds, NEW node, LeafOK(node) \/ CollisionOK(node)
  PROVE  /\ WellFormed(node) /\ node.hash \in Hash
         /\ \A j \in Key : Get(node, j) # None => HashOf[j] = node.hash
<1>1. CASE LeafOK(node)
  <2>1. node.key \in Key /\ node.hash = HashOf[node.key]
    BY <1>1 DEF LeafOK
  <2>2. node.hash \in Hash
    BY <2>1, HashAssumption
  <2> QED
    BY <1>1, <2>1, <2>2, GetLeaf
<1>2. CASE CollisionOK(node)
  <2> DEFINE b == node.bucket
  <2>1. /\ b \in Seq(Pair) /\ Len(b) > 1
        /\ \A i \in DOMAIN b : HashOf[b[i].key] = node.hash
    BY <1>2 DEF CollisionOK
  <2>2. /\ Len(b) \in Nat /\ DOMAIN b = 1 .. Len(b)
        /\ \A i \in DOMAIN b : b[i].key \in Key
    <3> HIDE DEF b
    <3> QED
      BY <2>1, Pairs
  <2>3. node.hash \in Hash
    <3>1. 1 \in DOMAIN b
      BY <2>1, <2>2
    <3> QED
      BY <2>1, <2>2, <3>1, HashAssumption
  <2>4. ASSUME NEW j \in Key, Get(node, j) # None
        PROVE  HashOf[j] = node.hash
    <3>1. PICK i \in DOMAIN b : b[i].key = j
      BY <1>2, <2>4, GetCollision
    <3> QED
      BY <2>1, <3>1
  <2> QED
    BY <1>2, <2>3, <2>4, GetCollision
<1> QED
  BY <1>1, <1>2

\* The levels at which a put would go wrong would follow each other, and the hashes
\* would agree at all of them.
LEMMA PutApart ==
  ASSUME Unfolds, NEW node, LeafOK(node) \/ CollisionOK(node),
         NEW k \in Key, NEW v \in Value, HashOf[k] # node.hash, NEW s \in Shifts
  PROVE  RightPut(node, Put(node, s, k, v), k, v)
<1> DEFINE T == {r \in Shifts : ~RightPut(node, Put(node, r, k, v), k, v)}
<1> SUFFICES ASSUME T # {} PROVE FALSE
  OBVIOUS
<1>1. /\ WellFormed(node) /\ node.hash \in Hash /\ HashOf[k] \in Hash
      /\ \A j \in Key : Get(node, j) # None => HashOf[j] = node.hash
  BY OneHash, HashAssumption
<1>2. \A r \in Shifts : Put(node, r, k, v) = Branch(r, node, k, v)
  <2>1. \A r \in Shifts : Put(node, r, k, v) = PutBody(node, r, k, v)
    BY <1>1 DEF Unfolds
  <2>2. CASE LeafOK(node)
    <3>1. node.type = "leaf" /\ node.key # k
      BY <2>2 DEF LeafOK
    <3> QED
      BY <2>1, <3>1 DEF PutBody
  <2>3. CASE CollisionOK(node)
    <3>1. node.type = "collision"
      BY <2>3 DEF CollisionOK
    <3> QED
      BY <2>1, <3>1 DEF PutBody
  <2> QED
    BY <2>2, <2>3
<1>3. ASSUME NEW r \in T
      PROVE  Below(r) \in T /\ Slot(node.hash, r) = Slot(HashOf[k], r)
  <2>1. Below(r) \in Shifts
    BY SlotOfKey
  <2> SUFFICES ASSUME Slot(node.hash, r) = Slot(HashOf[k], r) =>
                        RightPut(node, Put(node, Below(r), k, v), k, v)
               PROVE  FALSE
    BY <2>1
  <2>2. RightPut(node, Branch(r, node, k, v), k, v)
    BY <1>1, BranchRight
  <2> QED
    BY <1>2, <2>2
<1>4. T \in SUBSET Shifts
  OBVIOUS
<1> HIDE DEF T
<1> QED
  BY <1>1, <1>3, <1>4, ApartAssumption

LEMMA PutInLeaf ==
  ASSUME Unfolds, NEW node, LeafOK(node), NEW k \in Key, NEW v \in Value, NEW s \in Shifts
  PROVE  RightPut(node, Put(node, s, k, v), k, v)
<1>1. /\ WellFormed(node)
      /\ \A j \in Key : Get(node, j) = IF node.key = j THEN node.value ELSE None
  BY GetLeaf
<1>2. Put(node, s, k, v) = PutBody(node, s, k, v)
  BY <1>1 DEF Unfolds
<1>3. node.type = "leaf" /\ node.key \in Key /\ node.value \in Value /\ node.hash = HashOf[node.key]
  BY DEF LeafOK
<1>4. CASE node.key = k
  <2>1. Put(node, s, k, v) = LeafNode(k, v)
    BY <1>2, <1>3, <1>4 DEF PutBody
  <2>2. \A j \in Key : j # k => Get(node, j) = None
    BY <1>1, <1>4
  <2> QED
    BY <2>1, <2>2, NewLeaf DEF RightPut
<1>5. CASE node.key # k /\ HashOf[k] = node.hash
  <2> DEFINE p == [key |-> node.key, value |-> node.value]
             q == [key |-> k, value |-> v]
             b == <<p, q>>
             n == CollisionNode(node.hash, b)
  <2>1. Put(node, s, k, v) = n
    BY <1>2, <1>3, <1>5 DEF PutBody
  <2>2. /\ p \in Pair /\ q \in Pair
        /\ p.key = node.key /\ p.value = node.value /\ q.key = k /\ q.value = v
    BY <1>3 DEF Pair
  <2> HIDE DEF p, q, n
  <2>3. b \in Seq(Pair) /\ Len(b) = 2 /\ b[1] = p /\ b[2] = q
    BY <2>2
  <2> HIDE DEF b
  <2>4. \A i \in DOMAIN b : i = 1 \/ i = 2
    BY <2>3, Pairs
  <2>5. /\ \A i \in DOMAIN b : HashOf[b[i].key] = node.hash
        /\ \A i, j \in DOMAIN b : b[i].key = b[j].key => i = j
    BY <1>3, <1>5, <2>2, <2>3, <2>4
  <2>6. /\ WellFormed(n)
        /\ \A i \in DOMAIN b : Get(n, b[i].key) = b[i].value
        /\ \A j \in Key : (\A i \in DOMAIN b : b[i].key # j) => Get(n, j) = None
    <3>1. n = CollisionNode(node.hash, b)
      BY DEF n
    <3> QED
      BY <2>3, <2>5, <3>1, NewCollision
  <2>7. 1 \in DOMAIN b /\ 2 \in DOMAIN b
    BY <2>3, Pairs
  <2>8. Get(n, node.key) = node.value /\ Get(n, k) = v
    BY <2>2, <2>3, <2>6, <2>7
  <2>9. \A j \in Key : j # node.key /\ j # k => Get(n, j) = None
    BY <2>2, <2>3, <2>4, <2>6
  <2>10. \A j \in Key : Get(n, j) = IF j = k THEN v ELSE Get(node, j)
    BY <1>1, <1>5, <2>8, <2>9
  <2> QED
    BY <2>1, <2>6, <2>10 DEF RightPut
<1>6. CASE HashOf[k] # node.hash
  BY <1>6, PutApart
<1> QED
  BY <1>4, <1>5, <1>6

LEMMA PutInCollision ==
  ASSUME Unfolds, NEW node, CollisionOK(node), NEW k \in Key, NEW v \in Value,
         NEW s \in Shifts
  PROVE  RightPut(node, Put(node, s, k, v), k, v)
<1> DEFINE b == node.bucket
           pair == [key |-> k, value |-> v]
<1>1. WellFormed(node) /\ node.type = "collision"
  BY GetCollision DEF CollisionOK
<1>2. Put(node, s, k, v) = PutBody(node, s, k, v)
  BY <1>1 DEF Unfolds
<1>3. /\ b \in Seq(Pair) /\ Len(b) > 1
      /\ \A i \in DOMAIN b : HashOf[b[i].key] = node.hash
      /\ \A i, j \in DOMAIN b : b[i].key = b[j].key => i = j
      /\ \A i \in DOMAIN b : Get(node, b[i].key) = b[i].value
      /\ \A j \in Key : (\A i \in DOMAIN b : b[i].key # j) => Get(node, j) = None
  BY BucketFacts
<1>4. pair \in Pair /\ pair.key = k /\ pair.value = v
  BY DEF Pair
<1> HIDE DEF b, pair
<1>5. /\ Len(b) \in Nat /\ DOMAIN b = 1 .. Len(b)
      /\ \A i \in DOMAIN b : b[i] \in Pair /\ b[i].key \in Key
  BY <1>3, Pairs
<1>6. CASE HashOf[k] = node.hash /\ \E i \in DOMAIN b : HasKey(b, i, k)
  <2> DEFINE c == [i \in DOMAIN b |-> IF HasKey(b, i, k) THEN pair ELSE b[i]]
             n == CollisionNode(node.hash, c)
  <2>1. Put(node, s, k, v) = n
    BY <1>1, <1>2, <1>6 DEF PutBody, PutInBucket, b, pair
  <2>2. PICK i \in DOMAIN b : b[i].key = k
    BY <1>6 DEF HasKey
  <2>3. /\ DOMAIN c = DOMAIN b /\ c[i] = pair
        /\ \A l \in DOMAIN b : l # i => c[l] = b[l]
    BY <1>3, <2>2 DEF HasKey
  <2>4. c \in Seq(Pair) /\ Len(c) = Len(b)
    <3>1. \A l \in DOMAIN b : (IF HasKey(b, l, k) THEN pair ELSE b[l]) \in Pair
      BY <1>4, <1>5
    <3>2. c \in [1 .. Len(b) -> Pair]
      BY <1>5, <3>1
    <3> HIDE DEF c
    <3> QED
      BY <1>5, <3>2
  <2>5. n = CollisionNode(node.hash, c)
    OBVIOUS
  <2> HIDE DEF c, n
  <2>6. \A l \in DOMAIN c : c[l].key = b[l].key
    BY <1>4, <2>2, <2>3
  <2>7. /\ \A l \in DOMAIN c : HashOf[c[l].key] = node.hash
        /\ \A l, m \in DOMAIN c : c[l].key = c[m].key => l = m
    BY <1>3, <2>3, <2>6
  <2>8. /\ WellFormed(n)
        /\ \A l \in DOMAIN c : Get(n, c[l].key) = c[l].value
        /\ \A j \in Key : (\A l \in DOMAIN c : c[l].key # j) => Get(n, j) = None
    BY <1>3, <2>4, <2>5, <2>7, NewCollision
  <2>9. Get(n, k) = v
    BY <1>4, <2>2, <2>3, <2>8
  <2>10. ASSUME NEW j \in Key, j # k PROVE Get(n, j) = Get(node, j)
    <3>1. CASE \E l \in DOMAIN b : b[l].key = j
      <4>1. PICK l \in DOMAIN b : b[l].key = j
        BY <3>1
      <4>2. l # i
        BY <2>2, <2>10, <4>1
      <4> QED
        BY <1>3, <2>3, <2>8, <4>1, <4>2
    <3>2. CASE \A l \in DOMAIN b : b[l].key # j
      BY <1>3, <2>3, <2>6, <2>8, <3>2
    <3> QED
      BY <3>1, <3>2
  <2> QED
    BY <2>1, <2>8, <2>9, <2>10 DEF RightPut
<1>7. CASE HashOf[k] = node.hash /\ ~\E i \in DOMAIN b : HasKey(b, i, k)
  <2> DEFINE c == <<pair>> \o b
             n == CollisionNode(node.hash, c)
  <2>1. Put(node, s, k, v) = n
    BY <1>1, <1>2, <1>7 DEF PutBody, PutInBucket, b, pair
  <2>2. \A i \in DOMAIN b : b[i].key # k
    BY <1>7 DEF HasKey
  <2>3. /\ c \in Seq(Pair) /\ Len(c) = Len(b) + 1 /\ DOMAIN c = 1 .. Len(c)
        /\ c[1] = pair /\ \A l \in DOMAIN b : c[l + 1] = b[l]
    BY <1>3, <1>4, <1>5
  <2>4. n = CollisionNode(node.hash, c)
    OBVIOUS
  <2> HIDE DEF c, n
  <2>5. \A l \in DOMAIN c : l = 1 \/ (l - 1 \in DOMAIN b /\ c[l] = b[l - 1])
    <3>1. ASSUME NEW l \in DOMAIN c, l # 1
          PROVE  l - 1 \in DOMAIN b /\ c[l] = b[l - 1]
      <4>1. l - 1 \in DOMAIN b /\ (l - 1) + 1 = l
        BY <1>5, <2>3, <3>1
      <4> QED
        BY <2>3, <4>1
    <3> QED
      BY <3>1
  <2>6. \A l \in DOMAIN c : HashOf[c[l].key] = node.hash
    BY <1>3, <1>4, <1>7, <2>3, <2>5
  <2>7. ASSUME NEW l \in DOMAIN c, NEW m \in DOMAIN c, c[l].key = c[m].key
        PROVE  l = m
    <3>1. CASE l = 1 \/ m = 1
      BY <1>4, <2>2, <2>3, <2>5, <2>7, <3>1
    <3>2. CASE l # 1 /\ m # 1
      <4>1. l - 1 = m - 1
        BY <1>3, <2>5, <2>7, <3>2
      <4> QED
        BY <2>3, <1>5, <4>1
    <3> QED
      BY <3>1, <3>2
  <2>8. /\ WellFormed(n)
        /\ \A l \in DOMAIN c : Get(n, c[l].key) = c[l].value
        /\ \A j \in Key : (\A l \in DOMAIN c : c[l].key # j) => Get(n, j) = None
    <3>1. Len(c) > 1
      BY <1>3, <1>5, <2>3
    <3> QED
      BY <2>3, <2>4, <2>6, <2>7, <3>1, NewCollision
  <2>9. Get(n, k) = v
    <3>1. 1 \in DOMAIN c
      BY <1>5, <2>3
    <3> QED
      BY <1>4, <2>3, <2>8, <3>1
  <2>10. ASSUME NEW j \in Key, j # k PROVE Get(n, j) = Get(node, j)
    <3>1. CASE \E l \in DOMAIN b : b[l].key = j
      <4>1. PICK l \in DOMAIN b : b[l].key = j
        BY <3>1
      <4>2. l + 1 \in DOMAIN c /\ c[l + 1] = b[l]
        BY <1>5, <2>3
      <4> QED
        BY <1>3, <2>8, <4>1, <4>2
    <3>2. CASE \A l \in DOMAIN b : b[l].key # j
      <4>1. \A l \in DOMAIN c : c[l].key # j
        BY <1>4, <2>3, <2>5, <2>10, <3>2
      <4> QED
        BY <1>3, <2>8, <3>2, <4>1
    <3> QED
      BY <3>1, <3>2
  <2> QED
    BY <2>1, <2>8, <2>9, <2>10 DEF RightPut
<1>8. CASE HashOf[k] # node.hash
  BY <1>8, PutApart
<1> QED
  BY <1>6, <1>7, <1>8

\* What a new child, or an empty place, makes of a table.
LEMMA PlacedUsed ==
  ASSUME NEW t, IsTable(t), NEW i \in Slots, NEW c, c # Null \/ i \in Used(t)
  PROVE  LET u == Placed(t, i, c)
         IN  /\ IsTable(u) /\ u[i + 1] = c
             /\ i \in Used(t) => Len(u) = Len(t)
             /\ Used(u) = IF c = Null THEN Used(t) \ {i} ELSE Used(t) \cup {i}
             /\ \A s \in Used(t) : s # i => u[s + 1] = t[s + 1]
<1> DEFINE u == Placed(t, i, c)
<1>1. /\ Len(t) \in Nat /\ Len(t) >= 1 /\ Len(t) <= Width /\ DOMAIN t = 1 .. Len(t)
      /\ i \in Nat /\ i < Width /\ Width \in Nat
  BY SlotAssumption DEF IsTable, Slots
<1>2. /\ Len(u) = IF i < Len(t) THEN Len(t) ELSE i + 1
      /\ DOMAIN u = 1 .. Len(u)
      /\ u[i + 1] = c
      /\ \A s \in 0 .. Len(u) - 1 : s # i => u[s + 1] = IF s < Len(t) THEN t[s + 1] ELSE Null
  BY <1>1, PlacedFacts
<1> HIDE DEF u
<1>3. Len(u) \in 1 .. Width /\ i \in 0 .. Len(u) - 1 /\ Len(t) <= Len(u)
  BY <1>1, <1>2
<1>4. i \in Used(t) => Len(u) = Len(t)
  BY <1>1, <1>2 DEF Used
<1>5. ASSUME NEW s \in Used(t), s # i
      PROVE  u[s + 1] = t[s + 1] /\ s \in Used(u)
  <2>1. s \in 0 .. Len(u) - 1 /\ s < Len(t) /\ t[s + 1] # Null
    BY <1>1, <1>3 DEF Used
  <2>2. u[s + 1] = t[s + 1]
    BY <1>2, <1>5, <2>1
  <2> QED
    BY <2>1, <2>2 DEF Used
<1>6. ASSUME NEW s \in Used(u), s # i
      PROVE  s \in Used(t)
  <2>1. s \in 0 .. Len(u) - 1 /\ u[s + 1] # Null
    BY DEF Used
  <2>2. s < Len(t) /\ t[s + 1] # Null
    BY <1>2, <1>6, <2>1
  <2> QED
    BY <1>1, <1>3, <2>1, <2>2 DEF Used
<1>7. i \in Used(u) <=> c # Null
  BY <1>2, <1>3 DEF Used
<1>8. Used(u) = IF c = Null THEN Used(t) \ {i} ELSE Used(t) \cup {i}
  BY <1>5, <1>6, <1>7
<1>9. IsTable(u)
  BY <1>2, <1>3 DEF IsTable
<1> QED
  BY <1>2, <1>4, <1>5, <1>8, <1>9 DEF u

\* The children of a node.
LEMMA BitmappedFacts ==
  ASSUME Unfolds, NEW node, BitmappedOK(node)
  PROVE  /\ WellFormed(node) /\ node.type = "bitmapped"
         /\ node.shift \in Shifts /\ IsTable(node.table)
         /\ node.bits = Used(node.table) /\ node.bits # {} /\ node.bits \subseteq Slots
         /\ \A s \in node.bits : /\ InPlace(node.table[s + 1], node.shift, s)
                                 /\ WellFormed(node.table[s + 1])
                                 /\ s + 1 \in DOMAIN node.table
                                 /\ node.table[s + 1] # Null
<1>1. /\ WellFormed(node) /\ node.type = "bitmapped"
      /\ node.shift \in Shifts /\ IsTable(node.table)
      /\ node.bits = Used(node.table) /\ node.bits # {}
      /\ \A s \in node.bits : InPlace(node.table[s + 1], node.shift, s)
  BY GetBitmapped DEF BitmappedOK, Used
<1>2. ASSUME NEW s \in node.bits
      PROVE  s \in Slots /\ s + 1 \in DOMAIN node.table /\ node.table[s + 1] # Null
  BY <1>1, SlotAssumption DEF Used, IsTable, Slots
<1> QED
  BY <1>1, <1>2 DEF InPlace

LEMMA FullFacts ==
  ASSUME Unfolds, NEW node, FullOK(node)
  PROVE  /\ WellFormed(node) /\ node.type = "full"
         /\ node.shift \in Shifts /\ IsTable(node.table) /\ Len(node.table) = Width
         /\ Used(node.table) = Slots
         /\ \A s \in Slots : /\ InPlace(node.table[s + 1], node.shift, s)
                             /\ WellFormed(node.table[s + 1])
                             /\ s + 1 \in DOMAIN node.table
                             /\ node.table[s + 1] # Null
<1>1. /\ WellFormed(node) /\ node.type = "full"
      /\ node.shift \in Shifts /\ IsTable(node.table) /\ Len(node.table) = Width
      /\ \A s \in Slots : InPlace(node.table[s + 1], node.shift, s)
  BY GetFull DEF FullOK
<1>2. ASSUME NEW s \in Slots
      PROVE  s + 1 \in DOMAIN node.table /\ node.table[s + 1] # Null
  <2>1. WellFormed(node.table[s + 1])
    BY <1>1 DEF InPlace
  <2> QED
    BY <1>1, <2>1, NotNull, SlotAssumption DEF IsTable, Slots
<1>3. Used(node.table) = Slots
  BY <1>1, <1>2 DEF Used, Slots
<1> QED
  BY <1>1, <1>2, <1>3 DEF InPlace

LEMMA PutInBitmapped ==
  ASSUME Unfolds, NEW node, BitmappedOK(node), NEW k \in Key, NEW v \in Value,
         NEW s \in Shifts,
         Slot(HashOf[k], node.shift) \in node.bits =>
           \A r \in Shifts : RightPut(Child(node, k), Put(Child(node, k), r, k, v), k, v)
  PROVE  RightPut(node, Put(node, s, k, v), k, v)
<1> DEFINE sh == node.shift
           t == node.table
           bits == node.bits
           i == Slot(HashOf[k], sh)
           c == IF i \in bits THEN Put(Child(node, k), Below(sh), k, v) ELSE LeafNode(k, v)
           u == Placed(t, i, c)
           more == bits \cup {i}
<1>1. /\ WellFormed(node) /\ node.type = "bitmapped"
      /\ sh \in Shifts /\ IsTable(t)
      /\ bits = Used(t) /\ bits # {} /\ bits \subseteq Slots
      /\ \A p \in bits : InPlace(t[p + 1], sh, p)
  BY BitmappedFacts
<1>2. i \in Slots /\ Below(sh) \in Shifts
  BY <1>1, SlotOfKey
<1>3. Put(node, s, k, v) = IF i \notin bits /\ more = Slots THEN FullNode(sh, u)
                           ELSE BitmappedNode(sh, u, more)
  <2>1. Put(node, s, k, v) = PutBody(node, s, k, v)
    BY <1>1 DEF Unfolds
  <2> QED
    BY <1>1, <2>1 DEF PutBody, PutInTable
<1>4. \A l \in Key : LET p == Slot(HashOf[l], sh)
                     IN  Get(node, l) = IF p \in bits THEN Get(t[p + 1], l) ELSE None
  BY GetBitmapped
<1>5. /\ WellFormed(c) /\ c # Null
      /\ \A l \in Key : Get(c, l) = IF l = k THEN v
                                    ELSE IF i \in bits THEN Get(t[i + 1], l) ELSE None
  <2>1. CASE i \in bits
    <3>1. RightPut(t[i + 1], c, k, v)
      BY <1>2, <2>1 DEF Child
    <3> HIDE DEF c
    <3> QED
      BY <2>1, <3>1, NotNull DEF RightPut
  <2>2. CASE i \notin bits
    BY <2>2, NotNull, NewLeaf
  <2> QED
    BY <2>1, <2>2
<1> HIDE DEF c
<1>6. /\ IsTable(u) /\ u[i + 1] = c /\ Used(u) = more
      /\ \A p \in bits : p # i => u[p + 1] = t[p + 1]
  BY <1>1, <1>2, <1>5, PlacedUsed
<1> HIDE DEF u
<1>7. \A l \in Key : l = k => Slot(HashOf[l], sh) = i
  OBVIOUS
<1>8. InPlace(u[i + 1], sh, i)
  <2> SUFFICES ASSUME NEW l \in Key, Get(c, l) # None
               PROVE  Slot(HashOf[l], sh) = i
    BY <1>5, <1>6 DEF InPlace
  <2>1. CASE l = k
    BY <1>7, <2>1
  <2>2. CASE l # k
    BY <1>1, <1>5, <2>2 DEF InPlace
  <2> QED
    BY <2>1, <2>2
<1>9. \A p \in more : InPlace(u[p + 1], sh, p)
  BY <1>1, <1>6, <1>8
<1>10. ASSUME NEW l \in Key
       PROVE  LET p == Slot(HashOf[l], sh)
              IN  (IF p \in more THEN Get(u[p + 1], l) ELSE None)
                    = IF l = k THEN v ELSE Get(node, l)
  <2> DEFINE p == Slot(HashOf[l], sh)
  <2>1. l = k => p = i
    BY <1>7
  <2>2. Get(node, l) = IF p \in bits THEN Get(t[p + 1], l) ELSE None
    BY <1>4
  <2> HIDE DEF p, i
  <2>3. ASSUME p = i
        PROVE  (IF p \in more THEN Get(u[p + 1], l) ELSE None)
                 = IF l = k THEN v ELSE Get(node, l)
    BY <1>5, <1>6, <2>1, <2>2, <2>3
  <2>4. ASSUME p # i
        PROVE  (IF p \in more THEN Get(u[p + 1], l) ELSE None)
                 = IF l = k THEN v ELSE Get(node, l)
    BY <1>6, <2>1, <2>2, <2>4
  <2> QED
    BY <2>3, <2>4 DEF p
<1>11. more # {}
  OBVIOUS
<1> HIDE DEF i, sh, bits, more
<1>12. CASE i \notin bits /\ more = Slots
  <2> DEFINE n == FullNode(sh, u)
  <2>1. Len(u) = Width
    <3>1. Used(u) = Slots /\ Width - 1 \in Slots
      BY <1>6, <1>12, SlotAssumption DEF Slots
    <3>2. Width - 1 \in 0 .. Len(u) - 1
      BY <3>1 DEF Used
    <3>3. Len(u) \in 1 .. Width
      BY <1>6 DEF IsTable
    <3> HIDE DEF u
    <3> QED
      BY <3>2, <3>3, SlotAssumption
  <2>2. n = FullNode(sh, u)
    OBVIOUS
  <2> HIDE DEF n
  <2>3. WellFormed(n) /\ \A l \in Key : Get(n, l) = Get(u[Slot(HashOf[l], sh) + 1], l)
    BY <1>1, <1>6, <1>9, <1>12, <2>1, <2>2, NewFull
  <2>4. \A l \in Key : Slot(HashOf[l], sh) \in Slots
    BY <1>1, SlotOfKey
  <2>5. \A l \in Key : Get(n, l) = IF l = k THEN v ELSE Get(node, l)
    BY <1>10, <1>12, <2>3, <2>4
  <2> QED
    BY <1>3, <1>12, <2>2, <2>3, <2>5 DEF RightPut
<1>13. CASE ~(i \notin bits /\ more = Slots)
  <2> DEFINE n == BitmappedNode(sh, u, more)
  <2>1. n = BitmappedNode(sh, u, more)
    OBVIOUS
  <2> HIDE DEF n
  <2>2. /\ WellFormed(n)
        /\ \A l \in Key : LET p == Slot(HashOf[l], sh)
                          IN  Get(n, l) = IF p \in more THEN Get(u[p + 1], l) ELSE None
    BY <1>1, <1>6, <1>9, <1>11, <2>1, NewBitmapped
  <2>3. \A l \in Key : Get(n, l) = IF l = k THEN v ELSE Get(node, l)
    BY <1>10, <2>2
  <2> QED
    BY <1>3, <1>13, <2>1, <2>2, <2>3 DEF RightPut
<1> QED
  BY <1>12, <1>13

LEMMA PutInFull ==
  ASSUME Unfolds, NEW node, FullOK(node), NEW k \in Key, NEW v \in Value,
         NEW s \in Shifts,
         \A r \in Shifts : RightPut(Child(node, k), Put(Child(node, k), r, k, v), k, v)
  PROVE  RightPut(node, Put(node, s, k, v), k, v)
<1> DEFINE sh == node.shift
           t == node.table
           i == Slot(HashOf[k], sh)
           c == Put(Child(node, k), Below(sh), k, v)
           u == Placed(t, i, c)
           n == FullNode(sh, u)
<1>1. /\ WellFormed(node) /\ node.type = "full"
      /\ sh \in Shifts /\ IsTable(t) /\ Len(t) = Width /\ Used(t) = Slots
      /\ \A p \in Slots : InPlace(t[p + 1], sh, p)
  BY FullFacts
<1>2. i \in Slots /\ Below(sh) \in Shifts
  BY <1>1, SlotOfKey
<1>3. Put(node, s, k, v) = n
  <2>1. Put(node, s, k, v) = PutBody(node, s, k, v)
    BY <1>1 DEF Unfolds
  <2> QED
    BY <1>1, <2>1 DEF PutBody
<1>4. \A l \in Key : Get(node, l) = Get(t[Slot(HashOf[l], sh) + 1], l)
  BY GetFull
<1>5. /\ WellFormed(c) /\ c # Null
      /\ \A l \in Key : Get(c, l) = IF l = k THEN v ELSE Get(t[i + 1], l)
  <2>1. RightPut(t[i + 1], c, k, v)
    BY <1>2 DEF Child
  <2> HIDE DEF c
  <2> QED
    BY <2>1, NotNull DEF RightPut
<1> HIDE DEF c
<1>6. /\ IsTable(u) /\ u[i + 1] = c /\ Len(u) = Width
      /\ \A p \in Slots : p # i => u[p + 1] = t[p + 1]
  BY <1>1, <1>2, <1>5, PlacedUsed
<1> HIDE DEF u
<1>7. \A l \in Key : l = k => Slot(HashOf[l], sh) = i
  OBVIOUS
<1>8. InPlace(u[i + 1], sh, i)
  <2> SUFFICES ASSUME NEW l \in Key, Get(c, l) # None
               PROVE  Slot(HashOf[l], sh) = i
    BY <1>5, <1>6 DEF InPlace
  <2>1. CASE l = k
    BY <1>7, <2>1
  <2>2. CASE l # k
    BY <1>1, <1>2, <1>5, <2>2 DEF InPlace
  <2> QED
    BY <2>1, <2>2
<1>9. \A p \in Slots : InPlace(u[p + 1], sh, p)
  BY <1>1, <1>6, <1>8
<1>10. WellFormed(n) /\ \A l \in Key : Get(n, l) = Get(u[Slot(HashOf[l], sh) + 1], l)
  <2>1. n = FullNode(sh, u)
    OBVIOUS
  <2> HIDE DEF n, sh
  <2> QED
    BY <1>1, <1>6, <1>9, <2>1, NewFull
<1>11. ASSUME NEW l \in Key
       PROVE  Get(u[Slot(HashOf[l], sh) + 1], l) = IF l = k THEN v ELSE Get(node, l)
  <2> DEFINE p == Slot(HashOf[l], sh)
  <2>1. p \in Slots /\ (l = k => p = i) /\ Get(node, l) = Get(t[p + 1], l)
    BY <1>1, <1>4, <1>7, SlotOfKey
  <2> HIDE DEF p, i
  <2>2. Get(u[p + 1], l) = IF l = k THEN v ELSE Get(node, l)
    BY <1>5, <1>6, <2>1
  <2> QED
    BY <2>2 DEF p
<1> HIDE DEF n
<1> QED
  BY <1>3, <1>10, <1>11 DEF RightPut

\* A put, at every node and every level: by induction over the depth.
LEMMA PutsRight ==
  ASSUME Unfolds, NEW node, WellFormed(node), NEW k \in Key, NEW v \in Value,
         NEW s \in Shifts
  PROVE  RightPut(node, Put(node, s, k, v), k, v)
<1> DEFINE Bad(c) == WellFormed(c) /\ \E r \in Shifts : ~RightPut(c, Put(c, r, k, v), k, v)
           S == {n \in Nat : \E c : Bad(c) /\ Depth(c) = n}
<1> SUFFICES ASSUME S # {} PROVE FALSE
  BY DEF Unfolds
<1>1. PICK n \in S : \A m \in S : n <= m
  BY Least
<1>2. PICK c : Bad(c) /\ Depth(c) = n
  BY <1>1
<1>3. PICK r \in Shifts : ~RightPut(c, Put(c, r, k, v), k, v)
  BY <1>2
<1>4. ASSUME BitmappedOK(c) \/ FullOK(c), NEW p \in DOMAIN c.table, c.table[p] # Null
      PROVE  \A q \in Shifts : RightPut(c.table[p], Put(c.table[p], q, k, v), k, v)
  <2>1. WellFormed(c.table[p])
    BY <1>4, Children
  <2>2. Depth(c.table[p]) \in Nat /\ Depth(c.table[p]) < n
    BY <1>2, <1>4, Deeper
  <2> QED
    BY <1>1, <2>1, <2>2
<1> HIDE DEF Bad, S
<1> DEFINE i == Slot(HashOf[k], c.shift)
<1>5. CASE LeafOK(c) \/ CollisionOK(c)
  BY <1>3, <1>5, PutInLeaf, PutInCollision
<1>6. CASE BitmappedOK(c)
  <2>1. i \in c.bits => i + 1 \in DOMAIN c.table /\ Child(c, k) # Null
    BY <1>6, BitmappedFacts DEF Child
  <2>2. i \in c.bits =>
          \A q \in Shifts : RightPut(Child(c, k), Put(Child(c, k), q, k, v), k, v)
    BY <1>4, <1>6, <2>1 DEF Child
  <2> QED
    BY <1>3, <1>6, <2>2, PutInBitmapped
<1>7. CASE FullOK(c)
  <2>1. i \in Slots
    BY <1>7, FullFacts, SlotOfKey
  <2>2. i + 1 \in DOMAIN c.table /\ Child(c, k) # Null
    BY <1>7, <2>1, FullFacts DEF Child
  <2>3. \A q \in Shifts : RightPut(Child(c, k), Put(Child(c, k), q, k, v), k, v)
    BY <1>4, <1>7, <2>2 DEF Child
  <2> QED
    BY <1>3, <1>7, <2>3, PutInFull
<1> QED
  BY <1>2, <1>5, <1>6, <1>7 DEF Bad, Unfolds, WellFormedBody

------------------------------------------------------------------------------
(* A remove *)

\* What a remove of k makes of a node.
RightRemoval(node, n, k) ==
  /\ WellFormed(n) \/ n = EmptyNode
  /\ n = EmptyNode => Size(node) = 1
  /\ \A j \in Key : Get(n, j) = IF j = k THEN None ELSE Get(node, j)

LEMMA RemoveFromLeaf ==
  ASSUME Unfolds, NEW node, LeafOK(node), NEW k \in Key
  PROVE  RightRemoval(node, Without(node, k), k)
<1>1. /\ WellFormed(node)
      /\ \A j \in Key : Get(node, j) = IF node.key = j THEN node.value ELSE None
  BY GetLeaf
<1>2. node.type = "leaf"
  BY DEF LeafOK
<1>3. Without(node, k) = IF node.key = k THEN EmptyNode ELSE node
  <2>1. Without(node, k) = WithoutBody(node, k)
    BY <1>1 DEF Unfolds
  <2> QED
    BY <1>2, <2>1 DEF WithoutBody
<1>4. Size(node) = 1
  <2>1. Size(node) = SizeBody(node)
    BY <1>1 DEF Unfolds
  <2> QED
    BY <1>2, <2>1 DEF SizeBody
<1>5. CASE node.key = k
  BY <1>1, <1>3, <1>4, <1>5, GetEmpty DEF RightRemoval
<1>6. CASE node.key # k
  BY <1>1, <1>3, <1>4, <1>6 DEF RightRemoval
<1> QED
  BY <1>5, <1>6

LEMMA RemoveFromCollision ==
  ASSUME Unfolds, NEW node, CollisionOK(node), NEW k \in Key
  PROVE  RightRemoval(node, Without(node, k), k)
<1> DEFINE b == node.bucket
           i == FirstOf(b, k)
           rest == [j \in 1 .. Len(b) - 1 |-> IF j < i THEN b[j] ELSE b[j + 1]]
<1>1. WellFormed(node) /\ node.type = "collision"
  BY GetCollision DEF CollisionOK
<1>2. Without(node, k) = IF ~\E j \in DOMAIN b : HasKey(b, j, k) THEN node
                         ELSE IF Len(rest) = 1 THEN LeafNode(rest[1].key, rest[1].value)
                         ELSE CollisionNode(node.hash, rest)
  <2>1. Without(node, k) = WithoutBody(node, k)
    BY <1>1 DEF Unfolds
  <2> QED
    BY <1>1, <2>1 DEF WithoutBody, RemoveFromBucket
<1>3. /\ b \in Seq(Pair) /\ Len(b) > 1
      /\ \A j \in DOMAIN b : HashOf[b[j].key] = node.hash
      /\ \A j, l \in DOMAIN b : b[j].key = b[l].key => j = l
      /\ \A j \in DOMAIN b : Get(node, b[j].key) = b[j].value
      /\ \A j \in Key : (\A l \in DOMAIN b : b[l].key # j) => Get(node, j) = None
  BY BucketFacts
<1>4. \A j \in DOMAIN b : HasKey(b, j, k) => i = j
  BY GetCollision
<1> HIDE DEF b, i
<1>5. /\ Len(b) \in Nat /\ DOMAIN b = 1 .. Len(b)
      /\ \A j \in DOMAIN b : b[j] \in Pair /\ b[j].key \in Key /\ b[j].value \in Value
  BY <1>3, Pairs
<1>6. CASE ~\E j \in DOMAIN b : HasKey(b, j, k)
  <2>1. Get(node, k) = None
    BY <1>3, <1>6 DEF HasKey
  <2>2. node # EmptyNode
    BY <1>1, NotNull
  <2> QED
    BY <1>1, <1>2, <1>6, <2>1, <2>2 DEF RightRemoval
<1>7. CASE \E j \in DOMAIN b : HasKey(b, j, k)
  <2>1. i \in DOMAIN b /\ b[i].key = k
    BY <1>4, <1>7 DEF HasKey
  <2>2. /\ DOMAIN rest = 1 .. Len(b) - 1
        /\ \A j \in DOMAIN rest : rest[j] = IF j < i THEN b[j] ELSE b[j + 1]
    OBVIOUS
  <2>3. rest \in Seq(Pair) /\ Len(rest) = Len(b) - 1
    <3>1. \A j \in 1 .. Len(b) - 1 : (IF j < i THEN b[j] ELSE b[j + 1]) \in Pair
      BY <1>5, <2>1
    <3>2. rest \in [1 .. Len(b) - 1 -> Pair]
      BY <3>1
    <3>3. Len(b) - 1 \in Nat
      BY <1>3, <1>5
    <3> HIDE DEF rest
    <3> QED
      BY <3>2, <3>3
  <2> HIDE DEF rest
  <2> DEFINE from(j) == IF j < i THEN j ELSE j + 1
  <2>4. /\ \A j \in DOMAIN rest : from(j) \in DOMAIN b /\ from(j) # i /\ rest[j] = b[from(j)]
        /\ \A j, l \in DOMAIN rest : from(j) = from(l) => j = l
    BY <1>5, <2>1, <2>2
  <2>5. \A l \in DOMAIN b : l # i => \E j \in DOMAIN rest : from(j) = l
    <3> SUFFICES ASSUME NEW l \in DOMAIN b, l # i
                 PROVE  \E j \in DOMAIN rest : from(j) = l
      OBVIOUS
    <3>1. CASE l < i
      <4>1. l \in DOMAIN rest /\ from(l) = l
        BY <1>5, <2>1, <2>2, <3>1
      <4> QED
        BY <4>1
    <3>2. CASE l > i
      <4>1. l - 1 \in DOMAIN rest /\ from(l - 1) = l
        BY <1>5, <2>1, <2>2, <3>2
      <4> QED
        BY <4>1
    <3> QED
      BY <1>5, <2>1, <3>1, <3>2
  <2> HIDE DEF from
  <2>6. \A j \in DOMAIN rest : rest[j].key # k /\ rest[j].key \in Key
    BY <1>3, <1>5, <2>1, <2>4
  <2>7. /\ \A j \in DOMAIN rest : HashOf[rest[j].key] = node.hash
        /\ \A j, l \in DOMAIN rest : rest[j].key = rest[l].key => j = l
    <3>1. ASSUME NEW j \in DOMAIN rest, NEW l \in DOMAIN rest, rest[j].key = rest[l].key
          PROVE  j = l
      <4>1. from(j) = from(l)
        BY <1>3, <2>4, <3>1
      <4> QED
        BY <2>4, <4>1
    <3>2. ASSUME NEW j \in DOMAIN rest PROVE HashOf[rest[j].key] = node.hash
      <4>1. from(j) \in DOMAIN b /\ rest[j] = b[from(j)]
        BY <2>4
      <4> QED
        BY <1>3, <4>1
    <3> QED
      BY <3>1, <3>2
  <2>8. ASSUME NEW j \in DOMAIN rest PROVE Get(node, rest[j].key) = rest[j].value
    <3>1. from(j) \in DOMAIN b /\ rest[j] = b[from(j)]
      BY <2>4
    <3> QED
      BY <1>3, <3>1
  <2>9. ASSUME NEW j \in Key, j # k, \A l \in DOMAIN rest : rest[l].key # j
        PROVE  Get(node, j) = None
    <3>1. ASSUME NEW l \in DOMAIN b, b[l].key = j PROVE FALSE
      <4>1. PICK m \in DOMAIN rest : from(m) = l
        BY <2>1, <2>5, <2>9, <3>1
      <4> QED
        BY <2>4, <2>9, <3>1, <4>1
    <3> QED
      BY <1>3, <3>1
  <2>10. CASE Len(rest) = 1
    <3> DEFINE n == LeafNode(rest[1].key, rest[1].value)
    <3>1. 1 \in DOMAIN rest /\ \A l \in DOMAIN rest : l = 1
      <4>1. DOMAIN rest = 1 .. 1
        BY <2>2, <2>3, <2>10
      <4> QED
        BY <4>1
    <3>2. rest[1].key \in Key /\ rest[1].value \in Value
      BY <1>5, <2>4, <3>1
    <3>3. /\ WellFormed(n)
          /\ \A j \in Key : Get(n, j) = IF j = rest[1].key THEN rest[1].value ELSE None
      BY <3>2, NewLeaf
    <3>4. Without(node, k) = n
      BY <1>2, <1>7, <2>10
    <3> HIDE DEF n
    <3>5. n # EmptyNode
      BY <3>3, NotNull
    <3>6. \A j \in Key : Get(n, j) = IF j = k THEN None ELSE Get(node, j)
      BY <2>6, <2>8, <2>9, <3>1, <3>3
    <3> QED
      BY <3>3, <3>4, <3>5, <3>6 DEF RightRemoval
  <2>11. CASE Len(rest) # 1
    <3> DEFINE n == CollisionNode(node.hash, rest)
    <3>1. n = CollisionNode(node.hash, rest) /\ Without(node, k) = n
      BY <1>2, <1>7, <2>11
    <3>2. Len(rest) > 1
      BY <1>3, <1>5, <2>3, <2>11
    <3> HIDE DEF n
    <3>3. /\ WellFormed(n)
          /\ \A j \in DOMAIN rest : Get(n, rest[j].key) = rest[j].value
          /\ \A j \in Key : (\A l \in DOMAIN rest : rest[l].key # j) => Get(n, j) = None
      BY <2>3, <2>7, <3>1, <3>2, NewCollision
    <3>4. n # EmptyNode
      BY <3>3, NotNull
    <3>5. ASSUME NEW j \in Key
          PROVE  Get(n, j) = IF j = k THEN None ELSE Get(node, j)
      <4>1. CASE \A l \in DOMAIN rest : rest[l].key # j
        BY <2>9, <3>3, <4>1
      <4>2. CASE \E l \in DOMAIN rest : rest[l].key = j
        BY <2>6, <2>8, <3>3, <4>2
      <4> QED
        BY <4>1, <4>2
    <3> QED
      BY <3>1, <3>3, <3>4, <3>5 DEF RightRemoval
  <2> QED
    BY <2>10, <2>11
<1> QED
  BY <1>6, <1>7

LEMMA RemoveFromBitmapped ==
  ASSUME Unfolds, NEW node, BitmappedOK(node), NEW k \in Key,
         Slot(HashOf[k], node.shift) \in node.bits =>
           RightRemoval(Child(node, k), Without(Child(node, k), k), k)
  PROVE  RightRemoval(node, Without(node, k), k)
<1> DEFINE sh == node.shift
           t == node.table
           bits == node.bits
           i == Slot(HashOf[k], sh)
           c == Without(Child(node, k), k)
           rest == bits \ {i}
<1>1. /\ WellFormed(node) /\ node.type = "bitmapped"
      /\ sh \in Shifts /\ IsTable(t)
      /\ bits = Used(t) /\ bits # {} /\ bits \subseteq Slots
      /\ \A p \in bits : /\ InPlace(t[p + 1], sh, p) /\ WellFormed(t[p + 1])
                         /\ p + 1 \in DOMAIN t /\ t[p + 1] # Null
  BY BitmappedFacts
<1>2. i \in Slots
  BY <1>1, SlotOfKey
<1>3. Without(node, k) =
        IF i \notin bits THEN node
        ELSE IF c # EmptyNode THEN BitmappedNode(sh, Placed(t, i, c), bits)
        ELSE IF Size(node) = 1 THEN EmptyNode
        ELSE IF \E s \in Exact : rest = {s} THEN t[(CHOOSE s \in Exact : rest = {s}) + 1]
        ELSE BitmappedNode(sh, Placed(t, i, Null), rest)
  <2>1. Without(node, k) = WithoutBody(node, k)
    BY <1>1 DEF Unfolds
  <2> QED
    BY <1>1, <2>1 DEF WithoutBody, RemoveFromTable
<1>4. \A l \in Key : LET p == Slot(HashOf[l], sh)
                     IN  Get(node, l) = IF p \in bits THEN Get(t[p + 1], l) ELSE None
  BY GetBitmapped
<1>5. \A l \in Key : l = k => Slot(HashOf[l], sh) = i
  OBVIOUS
<1>6. \A l \in Key, p \in bits : Get(t[p + 1], l) # None => Slot(HashOf[l], sh) = p
  BY <1>1 DEF InPlace
<1>7. CASE i \notin bits
  <2>1. Get(node, k) = None
    BY <1>4, <1>7
  <2> HIDE DEF i
  <2> QED
    BY <1>1, <1>3, <1>7, <2>1, NotNull DEF RightRemoval
<1> SUFFICES ASSUME i \in bits PROVE RightRemoval(node, Without(node, k), k)
  BY <1>7
<1>8. /\ WellFormed(c) \/ c = EmptyNode
      /\ c = EmptyNode => Size(t[i + 1]) = 1
      /\ \A l \in Key : Get(c, l) = IF l = k THEN None ELSE Get(t[i + 1], l)
  BY DEF RightRemoval, Child
<1> HIDE DEF c, sh, bits, t
<1>9. CASE c # EmptyNode
  <2> DEFINE u == Placed(t, i, c)
             n == BitmappedNode(sh, u, bits)
  <2>1. WellFormed(c) /\ c # Null
    BY <1>8, <1>9, NotNull
  <2>2. /\ IsTable(u) /\ u[i + 1] = c /\ Used(u) = bits
        /\ \A p \in bits : p # i => u[p + 1] = t[p + 1]
    <3>1. bits \cup {i} = bits
      OBVIOUS
    <3> HIDE DEF i
    <3>2. /\ IsTable(u) /\ u[i + 1] = c /\ Used(u) = bits \cup {i}
          /\ \A p \in bits : p # i => u[p + 1] = t[p + 1]
      BY <1>1, <1>2, <2>1, PlacedUsed
    <3> QED
      BY <3>1, <3>2
  <2>3. n = BitmappedNode(sh, u, bits) /\ Without(node, k) = n
    BY <1>3, <1>9
  <2> HIDE DEF n, u
  <2>4. \A p \in bits : InPlace(u[p + 1], sh, p)
    BY <1>1, <1>6, <1>8, <2>1, <2>2 DEF InPlace
  <2>5. /\ WellFormed(n)
        /\ \A l \in Key : LET p == Slot(HashOf[l], sh)
                          IN  Get(n, l) = IF p \in bits THEN Get(u[p + 1], l) ELSE None
    BY <1>1, <2>2, <2>3, <2>4, NewBitmapped
  <2>6. ASSUME NEW l \in Key
        PROVE  Get(n, l) = IF l = k THEN None ELSE Get(node, l)
    <3> DEFINE p == Slot(HashOf[l], sh)
    <3>1. /\ l = k => p = i
          /\ Get(node, l) = IF p \in bits THEN Get(t[p + 1], l) ELSE None
          /\ Get(n, l) = IF p \in bits THEN Get(u[p + 1], l) ELSE None
      BY <1>4, <1>5, <2>5
    <3> HIDE DEF p, i
    <3>2. CASE p = i
      BY <1>8, <2>2, <3>1, <3>2
    <3>3. CASE p # i
      BY <2>2, <3>1, <3>3
    <3> QED
      BY <3>2, <3>3
  <2>7. n # EmptyNode
    BY <2>5, NotNull
  <2> QED
    BY <2>3, <2>5, <2>6, <2>7 DEF RightRemoval
<1>10. ASSUME c = EmptyNode, NEW l \in Key
       PROVE  Get(t[i + 1], l) # None => l = k
  BY <1>8, <1>10, GetEmpty
<1>11. /\ \A p \in bits : Size(t[p + 1]) \in Nat \ {0}
       /\ \A p, q \in bits : p # q => Size(node) > 1
       /\ bits = {i} => Size(node) = Size(t[i + 1])
  <2>1. \A p \in DOMAIN t : t[p] # Null => Size(t[p]) \in Nat \ {0}
    BY Children, SizePositive DEF t
  <2>2. /\ \A p, q \in DOMAIN t : t[p] # Null /\ t[q] # Null /\ p # q => Size(node) > 1
        /\ \A p \in DOMAIN t :
             t[p] # Null /\ (\A q \in DOMAIN t : q # p => t[q] = Null) =>
               Size(node) = Size(t[p])
    BY <2>1, TableSize DEF t
  <2>3. \A p, q \in bits : p # q => p + 1 # q + 1
    BY <1>1 DEF Slots
  <2>4. \A p \in DOMAIN t : t[p] # Null => p - 1 \in bits /\ (p - 1) + 1 = p
    BY <1>1 DEF Used, IsTable
  <2>5. ASSUME bits = {i} PROVE Size(node) = Size(t[i + 1])
    <3>1. \A q \in DOMAIN t : q # i + 1 => t[q] = Null
      BY <2>4, <2>5
    <3>2. i + 1 \in DOMAIN t /\ t[i + 1] # Null
      BY <1>1
    <3> HIDE DEF i
    <3> QED
      BY <2>2, <3>1, <3>2
  <2> HIDE DEF i
  <2> QED
    BY <1>1, <2>1, <2>2, <2>3, <2>5
<1>12. CASE c = EmptyNode /\ Size(node) = 1
  <2>1. Without(node, k) = EmptyNode
    BY <1>3, <1>12
  <2>2. bits = {i}
    BY <1>11, <1>12
  <2>3. ASSUME NEW l \in Key PROVE l # k => Get(node, l) = None
    <3> DEFINE p == Slot(HashOf[l], sh)
    <3>1. Get(node, l) = IF p \in bits THEN Get(t[p + 1], l) ELSE None
      BY <1>4
    <3> HIDE DEF p, i
    <3> QED
      BY <1>10, <1>12, <2>2, <3>1
  <2> QED
    BY <1>12, <2>1, <2>3, GetEmpty DEF RightRemoval
<1>13. CASE c = EmptyNode /\ Size(node) # 1 /\ \E s \in Exact : rest = {s}
  <2> DEFINE s == CHOOSE s \in Exact : rest = {s}
             n == t[s + 1]
  <2>1. rest = {s}
    BY <1>13
  <2>2. Without(node, k) = n
    BY <1>3, <1>13
  <2> HIDE DEF s
  <2>3. s \in bits /\ s # i /\ \A p \in bits : p = i \/ p = s
    BY <2>1
  <2>4. WellFormed(n) /\ n # EmptyNode
    BY <1>1, <2>3, NotNull
  <2>5. ASSUME NEW l \in Key
        PROVE  Get(n, l) = IF l = k THEN None ELSE Get(node, l)
    <3> DEFINE p == Slot(HashOf[l], sh)
    <3>1. /\ l = k => p = i
          /\ Get(node, l) = IF p \in bits THEN Get(t[p + 1], l) ELSE None
          /\ Get(n, l) # None => p = s
      BY <1>4, <1>5, <1>6, <2>3
    <3> HIDE DEF p, i
    <3>2. CASE p = s
      BY <2>3, <3>1, <3>2
    <3>3. CASE p # s
      BY <1>10, <1>13, <2>3, <3>1, <3>3
    <3> QED
      BY <3>2, <3>3
  <2> HIDE DEF n
  <2> QED
    BY <2>2, <2>4, <2>5 DEF RightRemoval
<1>14. CASE c = EmptyNode /\ Size(node) # 1 /\ ~\E s \in Exact : rest = {s}
  <2> DEFINE u == Placed(t, i, Null)
             n == BitmappedNode(sh, u, rest)
  <2>1. rest # {}
    BY <1>8, <1>11, <1>14
  <2>2. /\ IsTable(u) /\ Used(u) = rest
        /\ \A p \in bits : p # i => u[p + 1] = t[p + 1]
    <3> HIDE DEF i
    <3> QED
      BY <1>1, <1>2, PlacedUsed
  <2>3. n = BitmappedNode(sh, u, rest) /\ Without(node, k) = n
    BY <1>3, <1>14
  <2>4. \A p \in rest : InPlace(u[p + 1], sh, p)
    BY <1>1, <2>2
  <2>5. \A p : p \in rest <=> p \in bits /\ p # i
    OBVIOUS
  <2> HIDE DEF n, u, rest
  <2>6. /\ WellFormed(n)
        /\ \A l \in Key : LET p == Slot(HashOf[l], sh)
                          IN  Get(n, l) = IF p \in rest THEN Get(u[p + 1], l) ELSE None
    BY <1>1, <2>1, <2>2, <2>3, <2>4, NewBitmapped
  <2>7. ASSUME NEW l \in Key
        PROVE  Get(n, l) = IF l = k THEN None ELSE Get(node, l)
    <3> DEFINE p == Slot(HashOf[l], sh)
    <3>1. /\ l = k => p = i
          /\ Get(node, l) = IF p \in bits THEN Get(t[p + 1], l) ELSE None
          /\ Get(n, l) = IF p \in rest THEN Get(u[p + 1], l) ELSE None
      BY <1>4, <1>5, <2>6
    <3> HIDE DEF p, i
    <3>2. CASE p = i
      BY <1>10, <1>14, <2>5, <3>1, <3>2
    <3>3. CASE p # i
      BY <2>2, <2>5, <3>1, <3>3
    <3> QED
      BY <3>2, <3>3
  <2>8. n # EmptyNode
    BY <2>6, NotNull
  <2> QED
    BY <2>3, <2>6, <2>7, <2>8 DEF RightRemoval
<1> QED
  BY <1>9, <1>12, <1>13, <1>14

LEMMA RemoveFromFullNode ==
  ASSUME Unfolds, NEW node, FullOK(node), NEW k \in Key,
         RightRemoval(Child(node, k), Without(Child(node, k), k), k)
  PROVE  RightRemoval(node, Without(node, k), k)
<1> DEFINE sh == node.shift
           t == node.table
           i == Slot(HashOf[k], sh)
           c == Without(Child(node, k), k)
<1>1. /\ WellFormed(node) /\ node.type = "full"
      /\ sh \in Shifts /\ IsTable(t) /\ Len(t) = Width /\ Used(t) = Slots
      /\ \A p \in Slots : InPlace(t[p + 1], sh, p)
  BY FullFacts
<1>2. i \in Slots
  BY <1>1, SlotOfKey
<1>3. Without(node, k) =
        IF c = EmptyNode THEN BitmappedNode(sh, Placed(t, i, Null), Slots \ {i})
        ELSE FullNode(sh, Placed(t, i, c))
  <2>1. Without(node, k) = WithoutBody(node, k)
    BY <1>1 DEF Unfolds
  <2> QED
    BY <1>1, <2>1 DEF WithoutBody, RemoveFromFull
<1>4. \A l \in Key : /\ Get(node, l) = Get(t[Slot(HashOf[l], sh) + 1], l)
                     /\ Slot(HashOf[l], sh) \in Slots
  BY <1>1, GetFull, SlotOfKey
<1>5. \A l \in Key : l = k => Slot(HashOf[l], sh) = i
  OBVIOUS
<1>6. \A l \in Key, p \in Slots : Get(t[p + 1], l) # None => Slot(HashOf[l], sh) = p
  BY <1>1 DEF InPlace
<1>7. /\ WellFormed(c) \/ c = EmptyNode
      /\ \A l \in Key : Get(c, l) = IF l = k THEN None ELSE Get(t[i + 1], l)
  BY DEF RightRemoval, Child
<1> HIDE DEF c, sh, t
<1>8. CASE c # EmptyNode
  <2> DEFINE u == Placed(t, i, c)
             n == FullNode(sh, u)
  <2>1. WellFormed(c) /\ c # Null
    BY <1>7, <1>8, NotNull
  <2>2. /\ IsTable(u) /\ u[i + 1] = c /\ Len(u) = Width
        /\ \A p \in Slots : p # i => u[p + 1] = t[p + 1]
    <3> HIDE DEF i
    <3> QED
      BY <1>1, <1>2, <2>1, PlacedUsed
  <2>3. n = FullNode(sh, u) /\ Without(node, k) = n
    BY <1>3, <1>8
  <2> HIDE DEF n, u
  <2>4. \A p \in Slots : InPlace(u[p + 1], sh, p)
    BY <1>1, <1>2, <1>6, <1>7, <2>1, <2>2 DEF InPlace
  <2>5. WellFormed(n) /\ \A l \in Key : Get(n, l) = Get(u[Slot(HashOf[l], sh) + 1], l)
    BY <1>1, <2>2, <2>3, <2>4, NewFull
  <2>6. ASSUME NEW l \in Key
        PROVE  Get(n, l) = IF l = k THEN None ELSE Get(node, l)
    <3> DEFINE p == Slot(HashOf[l], sh)
    <3>1. /\ l = k => p = i
          /\ p \in Slots
          /\ Get(node, l) = Get(t[p + 1], l)
          /\ Get(n, l) = Get(u[p + 1], l)
      BY <1>4, <1>5, <2>5
    <3> HIDE DEF p, i
    <3>2. CASE p = i
      BY <1>7, <2>2, <3>1, <3>2
    <3>3. CASE p # i
      BY <2>2, <3>1, <3>3
    <3> QED
      BY <3>2, <3>3
  <2>7. n # EmptyNode
    BY <2>5, NotNull
  <2> QED
    BY <2>3, <2>5, <2>6, <2>7 DEF RightRemoval
<1>9. CASE c = EmptyNode
  <2> DEFINE rest == Slots \ {i}
             u == Placed(t, i, Null)
             n == BitmappedNode(sh, u, rest)
  <2>1. rest # {}
    <3>1. 0 \in Slots /\ 1 \in Slots
      BY SlotAssumption DEF Slots
    <3> QED
      BY <3>1
  <2>2. /\ IsTable(u) /\ Used(u) = rest
        /\ \A p \in Slots : p # i => u[p + 1] = t[p + 1]
    <3> HIDE DEF i
    <3> QED
      BY <1>1, <1>2, PlacedUsed
  <2>3. n = BitmappedNode(sh, u, rest) /\ Without(node, k) = n
    BY <1>3, <1>9
  <2>4. \A p \in rest : InPlace(u[p + 1], sh, p)
    BY <1>1, <2>2
  <2>5. \A p : p \in rest <=> p \in Slots /\ p # i
    OBVIOUS
  <2> HIDE DEF n, u, rest
  <2>6. /\ WellFormed(n)
        /\ \A l \in Key : LET p == Slot(HashOf[l], sh)
                          IN  Get(n, l) = IF p \in rest THEN Get(u[p + 1], l) ELSE None
    BY <1>1, <2>1, <2>2, <2>3, <2>4, NewBitmapped
  <2>7. ASSUME NEW l \in Key
        PROVE  Get(n, l) = IF l = k THEN None ELSE Get(node, l)
    <3> DEFINE p == Slot(HashOf[l], sh)
    <3>1. /\ l = k => p = i
          /\ p \in Slots
          /\ Get(node, l) = Get(t[p + 1], l)
          /\ Get(n, l) = IF p \in rest THEN Get(u[p + 1], l) ELSE None
      BY <1>4, <1>5, <2>6
    <3>2. Get(t[i + 1], l) # None => l = k
      BY <1>7, <1>9, GetEmpty
    <3> HIDE DEF p, i
    <3>3. CASE p = i
      BY <2>5, <3>1, <3>2, <3>3
    <3>4. CASE p # i
      BY <2>2, <2>5, <3>1, <3>4
    <3> QED
      BY <3>3, <3>4
  <2>8. n # EmptyNode
    BY <2>6, NotNull
  <2> QED
    BY <2>3, <2>6, <2>7, <2>8 DEF RightRemoval
<1> QED
  BY <1>8, <1>9

\* A remove, at every node: by induction over the depth.
LEMMA RemovesRight ==
  ASSUME Unfolds, NEW node, WellFormed(node), NEW k \in Key
  PROVE  RightRemoval(node, Without(node, k), k)
<1> DEFINE Bad(c) == WellFormed(c) /\ ~RightRemoval(c, Without(c, k), k)
           S == {n \in Nat : \E c : Bad(c) /\ Depth(c) = n}
<1> SUFFICES ASSUME S # {} PROVE FALSE
  BY DEF Unfolds
<1>1. PICK n \in S : \A m \in S : n <= m
  BY Least
<1>2. PICK c : Bad(c) /\ Depth(c) = n
  BY <1>1
<1>3. ~RightRemoval(c, Without(c, k), k)
  BY <1>2
<1>4. ASSUME BitmappedOK(c) \/ FullOK(c), NEW p \in DOMAIN c.table, c.table[p] # Null
      PROVE  RightRemoval(c.table[p], Without(c.table[p], k), k)
  <2>1. WellFormed(c.table[p])
    BY <1>4, Children
  <2>2. Depth(c.table[p]) \in Nat /\ Depth(c.table[p]) < n
    BY <1>2, <1>4, Deeper
  <2> QED
    BY <1>1, <2>1, <2>2
<1> HIDE DEF Bad, S
<1> DEFINE i == Slot(HashOf[k], c.shift)
<1>5. CASE LeafOK(c) \/ CollisionOK(c)
  BY <1>3, <1>5, RemoveFromLeaf, RemoveFromCollision
<1>6. CASE BitmappedOK(c)
  <2>1. i \in c.bits => i + 1 \in DOMAIN c.table /\ Child(c, k) # Null
    BY <1>6, BitmappedFacts DEF Child
  <2>2. i \in c.bits => RightRemoval(Child(c, k), Without(Child(c, k), k), k)
    BY <1>4, <1>6, <2>1 DEF Child
  <2> QED
    BY <1>3, <1>6, <2>2, RemoveFromBitmapped
<1>7. CASE FullOK(c)
  <2>1. i \in Slots
    BY <1>7, FullFacts, SlotOfKey
  <2>2. i + 1 \in DOMAIN c.table /\ Child(c, k) # Null
    BY <1>7, <2>1, FullFacts DEF Child
  <2>3. RightRemoval(Child(c, k), Without(Child(c, k), k), k)
    BY <1>4, <1>7, <2>2 DEF Child
  <2> QED
    BY <1>3, <1>7, <2>3, RemoveFromFullNode
<1> QED
  BY <1>2, <1>5, <1>6, <1>7 DEF Bad, Unfolds, WellFormedBody

------------------------------------------------------------------------------
(* The theorems *)

\* The empty trie and every well-formed node take a put and a remove.
LEMMA PutToTrie ==
  ASSUME Unfolds, TypeOK, NEW k \in Key, NEW v \in Value
  PROVE  RightPut(trie, Put(trie, 0, k, v), k, v)
<1>1. 0 \in Shifts
  BY BitsAssumption DEF Shifts
<1>2. CASE WellFormed(trie)
  BY <1>1, <1>2, PutsRight
<1>3. CASE trie = EmptyNode
  <2>1. EmptyNode.type = "empty"
    BY DEF EmptyNode
  <2>2. Put(EmptyNode, 0, k, v) = PutBody(EmptyNode, 0, k, v)
    BY <1>1 DEF Unfolds
  <2>3. Put(EmptyNode, 0, k, v) = LeafNode(k, v)
    BY <2>1, <2>2 DEF PutBody
  <2> QED
    BY <1>3, <2>3, NewLeaf, GetEmpty DEF RightPut
<1> QED
  BY <1>2, <1>3 DEF TypeOK

LEMMA RemoveFromTrie ==
  ASSUME Unfolds, TypeOK, NEW k \in Key
  PROVE  /\ Without(trie, k) = EmptyNode \/ WellFormed(Without(trie, k))
         /\ \A j \in Key : Get(Without(trie, k), j) = IF j = k THEN None ELSE Get(trie, j)
<1>1. CASE WellFormed(trie)
  BY <1>1, RemovesRight DEF RightRemoval
<1>2. CASE trie = EmptyNode
  <2>1. EmptyNode.type = "empty"
    BY DEF EmptyNode
  <2>2. Without(EmptyNode, k) = WithoutBody(EmptyNode, k)
    BY DEF Unfolds
  <2>3. Without(EmptyNode, k) = EmptyNode
    BY <2>1, <2>2 DEF WithoutBody
  <2> QED
    BY <1>2, <2>3, GetEmpty
<1> QED
  BY <1>1, <1>2 DEF TypeOK

\* The nodes of the trie stay well-formed: a bit says where there is a child, the
\* keys below a child belong to its slot, and no table is left without a child
\* (HashTrie.scala:205-269, 320-353).
THEOREM TypeCorrect == Unfolds => (Spec => []TypeOK)
<1> SUFFICES ASSUME Unfolds PROVE Spec => []TypeOK
  OBVIOUS
<1>1. Init => TypeOK
  BY DEF Init, TypeOK
<1>2. TypeOK /\ [Next]_trie => TypeOK'
  <2> SUFFICES ASSUME TypeOK, [Next]_trie PROVE TypeOK'
    OBVIOUS
  <2>1. ASSUME NEW k \in Key, NEW v \in Value, Update(k, v) PROVE TypeOK'
    BY <2>1, PutToTrie DEF Update, RightPut, TypeOK
  <2>2. ASSUME NEW k \in Key, Minus(k) PROVE TypeOK'
    BY <2>2, RemoveFromTrie DEF Minus, TypeOK
  <2>3. CASE Clear
    BY <2>3 DEF Clear, TypeOK
  <2>4. CASE UNCHANGED trie
    BY <2>4 DEF TypeOK
  <2> QED
    BY <2>1, <2>2, <2>3, <2>4 DEF Next
<1> QED
  BY <1>1, <1>2, PTL DEF Spec

\* A put binds its key and a remove unbinds it, and neither changes what any other
\* key finds, whatever came before and at whatever level nodes end up
\* (HashTrie.scala:53-61).
THEOREM OneKeyChangesAtATime == Unfolds => (Spec => []OneKeyChanges)
<1> SUFFICES ASSUME Unfolds PROVE Spec => []OneKeyChanges
  OBVIOUS
<1>1. TypeOK => OneKeyChanges
  <2> SUFFICES ASSUME TypeOK, NEW k \in Key
               PROVE  /\ Contents(Without(trie, k)) = [Contents(trie) EXCEPT ![k] = None]
                      /\ \A v \in Value :
                           Contents(Put(trie, 0, k, v)) = [Contents(trie) EXCEPT ![k] = v]
    BY DEF OneKeyChanges
  <2>1. Contents(Without(trie, k)) = [Contents(trie) EXCEPT ![k] = None]
    BY RemoveFromTrie DEF Contents
  <2>2. ASSUME NEW v \in Value
        PROVE  Contents(Put(trie, 0, k, v)) = [Contents(trie) EXCEPT ![k] = v]
    BY PutToTrie DEF Contents, RightPut
  <2> QED
    BY <2>1, <2>2
<1> QED
  BY <1>1, TypeCorrect, PTL


------------------------------------------------------------------------------
(* Elements *)

LEMMA JoinedDef ==
  ASSUME NEW a, NEW n \in Nat
  PROVE  Joined(a, n) =
           [i \in 0 .. n |-> IF i = 0 THEN <<>> ELSE Joined(a, n)[i - 1] \o a[i]]
<1> DEFINE Joins(f, m) == f = [i \in 0 .. m |-> IF i = 0 THEN <<>> ELSE f[i - 1] \o a[i]]
           S == {m \in Nat : \E f : Joins(f, m)}
<1>1. 0 \in S
  <2>1. Joins([i \in 0 .. 0 |-> <<>>], 0)
    OBVIOUS
  <2> QED
    BY <2>1
<1>2. ASSUME NEW m \in Nat, m \in S PROVE m + 1 \in S
  <2>1. PICK f : Joins(f, m)
    BY <1>2
  <2> DEFINE g == [i \in 0 .. m + 1 |-> IF i <= m THEN f[i] ELSE f[m] \o a[i]]
  <2>2. ASSUME NEW i \in 0 .. m + 1
        PROVE  g[i] = IF i = 0 THEN <<>> ELSE g[i - 1] \o a[i]
    <3>1. CASE i <= m
      <4>1. f[i] = IF i = 0 THEN <<>> ELSE f[i - 1] \o a[i]
        BY <2>1, <3>1
      <4> QED
        BY <3>1, <4>1
    <3>2. CASE i = m + 1
      BY <3>2
    <3> QED
      BY <3>1, <3>2
  <2>3. Joins(g, m + 1)
    BY <2>2
  <2> HIDE DEF Joins
  <2> QED
    BY <2>3
<1>3. n \in S
  <2> HIDE DEF S
  <2> QED
    BY <1>1, <1>2, Induction
<1>4. \E f : Joins(f, n)
  BY <1>3
<1> QED
  BY <1>4 DEF Joined

\* Two sequences of pairs make a longer one.
LEMMA Concatenation ==
  ASSUME NEW s \in Seq(Pair), NEW t \in Seq(Pair)
  PROVE  /\ s \o t \in Seq(Pair) /\ Len(s \o t) = Len(s) + Len(t)
         /\ DOMAIN (s \o t) = 1 .. Len(s) + Len(t)
         /\ \A x \in DOMAIN s : x \in DOMAIN (s \o t) /\ (s \o t)[x] = s[x]
         /\ \A x \in DOMAIN t : x + Len(s) \in DOMAIN (s \o t) /\ (s \o t)[x + Len(s)] = t[x]
         /\ \A x \in DOMAIN (s \o t) : x \in DOMAIN s \/ x - Len(s) \in DOMAIN t
<1>1. /\ Len(s) \in Nat /\ DOMAIN s = 1 .. Len(s)
      /\ Len(t) \in Nat /\ DOMAIN t = 1 .. Len(t)
  OBVIOUS
<1>2. /\ s \o t \in Seq(Pair) /\ Len(s \o t) = Len(s) + Len(t)
      /\ \A x \in 1 .. Len(s) + Len(t) :
           (s \o t)[x] = IF x <= Len(s) THEN s[x] ELSE t[x - Len(s)]
  BY ConcatProperties
<1>3. DOMAIN (s \o t) = 1 .. Len(s) + Len(t)
  BY <1>2
<1> DEFINE u == s \o t
<1> HIDE DEF u
<1>4. \A x \in DOMAIN s : x \in DOMAIN u /\ u[x] = s[x]
  BY <1>1, <1>2, <1>3 DEF u
<1>5. ASSUME NEW x \in DOMAIN t PROVE x + Len(s) \in DOMAIN u /\ u[x + Len(s)] = t[x]
  <2>1. x + Len(s) \in 1 .. Len(s) + Len(t) /\ ~(x + Len(s) <= Len(s))
    BY <1>1
  <2>2. (x + Len(s)) - Len(s) = x
    BY <1>1
  <2>3. u[x + Len(s)] = t[(x + Len(s)) - Len(s)]
    BY <1>2, <2>1 DEF u
  <2> QED
    BY <1>3, <2>1, <2>2, <2>3 DEF u
<1>6. \A x \in DOMAIN u : x \in DOMAIN s \/ x - Len(s) \in DOMAIN t
  BY <1>1, <1>3 DEF u
<1> QED
  BY <1>2, <1>3, <1>4, <1>5, <1>6 DEF u

\* Whether a pair of sequences of pairs, s[p] for p in P, has a key only once.
Once(s, P) ==
  \A p, q \in P : \A x \in DOMAIN s[p], y \in DOMAIN s[q] :
    s[p][x].key = s[q][y].key => p = q /\ x = y

\* A sequence that has the pairs of a[1] to a[n], with no key more than once.
Gathers(s, a, n) ==
  /\ s \in Seq(Pair)
  /\ \A x \in DOMAIN s : \E p \in 1 .. n : \E y \in DOMAIN a[p] : s[x] = a[p][y]
  /\ \A p \in 1 .. n : \A y \in DOMAIN a[p] : \E x \in DOMAIN s : s[x] = a[p][y]
  /\ \A x, y \in DOMAIN s : s[x].key = s[y].key => x = y

LEMMA JoinedFacts ==
  ASSUME NEW n \in Nat, NEW a, \A i \in 1 .. n : a[i] \in Seq(Pair),
         NEW b, \A i \in 1 .. n : b[i] = Len(a[i]),
         Once(a, 1 .. n)
  PROVE  Gathers(Joined(a, n)[n], a, n) /\ Len(Joined(a, n)[n]) = Sums(b, n)[n]
<1> DEFINE f == Joined(a, n)
           g == Sums(b, n)
<1>1. \A i \in 0 .. n : f[i] = IF i = 0 THEN <<>> ELSE f[i - 1] \o a[i]
  <2>1. f = [i \in 0 .. n |-> IF i = 0 THEN <<>> ELSE f[i - 1] \o a[i]]
    BY JoinedDef
  <2> HIDE DEF f
  <2> QED
    BY <2>1
<1>2. \A i \in 0 .. n : g[i] = IF i = 0 THEN 0 ELSE g[i - 1] + b[i]
  <2>1. g = [i \in 0 .. n |-> IF i = 0 THEN 0 ELSE g[i - 1] + b[i]]
    BY SumsDef
  <2> HIDE DEF g
  <2> QED
    BY <2>1
<1> HIDE DEF f, g
<1> DEFINE Typed(m)  == f[m] \in Seq(Pair) /\ Len(f[m]) = g[m]
           From(m)   == \A x \in DOMAIN f[m] :
                          \E p \in 1 .. m : \E y \in DOMAIN a[p] : f[m][x] = a[p][y]
           Into(m)   == \A p \in 1 .. m : \A y \in DOMAIN a[p] :
                          \E x \in DOMAIN f[m] : f[m][x] = a[p][y]
           Single(m) == \A x, y \in DOMAIN f[m] : f[m][x].key = f[m][y].key => x = y
           S == {m \in Nat : m <= n => Typed(m) /\ From(m) /\ Into(m) /\ Single(m)}
<1>3. 0 \in S
  <2>1. f[0] = <<>> /\ g[0] = 0
    BY <1>1, <1>2
  <2>2. Typed(0) /\ From(0) /\ Into(0) /\ Single(0)
    BY <2>1
  <2> QED
    BY <2>2
<1>4. ASSUME NEW m \in Nat, m \in S PROVE m + 1 \in S
  <2> SUFFICES ASSUME m + 1 <= n
               PROVE  Typed(m + 1) /\ From(m + 1) /\ Into(m + 1) /\ Single(m + 1)
    OBVIOUS
  <2> HIDE DEF Typed, From, Into, Single
  <2>1. Typed(m) /\ From(m) /\ Into(m) /\ Single(m)
    BY <1>4
  <2> HIDE DEF S
  <2>2. f[m + 1] = f[m] \o a[m + 1] /\ g[m + 1] = g[m] + b[m + 1]
    <3>1. m + 1 \in 0 .. n /\ m + 1 # 0 /\ (m + 1) - 1 = m
      OBVIOUS
    <3> QED
      BY <1>1, <1>2, <3>1
  <2>3. m + 1 \in 1 .. n /\ a[m + 1] \in Seq(Pair) /\ b[m + 1] = Len(a[m + 1])
    OBVIOUS
  <2> DEFINE u == f[m]
             v == a[m + 1]
             w == f[m + 1]
             l == Len(u)
  <2>4. /\ w \in Seq(Pair) /\ Len(w) = l + Len(v)
        /\ \A x \in DOMAIN u : x \in DOMAIN w /\ w[x] = u[x]
        /\ \A x \in DOMAIN v : x + l \in DOMAIN w /\ w[x + l] = v[x]
        /\ \A x \in DOMAIN w : x \in DOMAIN u \/ x - l \in DOMAIN v
    <3>1. u \in Seq(Pair) /\ v \in Seq(Pair) /\ w = u \o v
      BY <2>1, <2>2, <2>3 DEF Typed
    <3> HIDE DEF u, v, w
    <3> QED
      BY <3>1, Concatenation
  <2>5. Typed(m + 1)
    BY <2>1, <2>2, <2>3, <2>4 DEF Typed
  <2>6. /\ l \in Nat /\ DOMAIN u \subseteq Nat /\ DOMAIN v \subseteq Nat
        /\ DOMAIN w \subseteq Nat
    BY <2>1, <2>3, <2>4 DEF Typed
  <2> HIDE DEF u, v, w, l
  <2>7. ASSUME NEW x \in DOMAIN w, x - l \in DOMAIN v
        PROVE  w[x] = v[x - l]
    <3>1. (x - l) + l = x
      BY <2>6
    <3> QED
      BY <2>4, <2>7, <3>1
  <2>8. From(m + 1)
    <3> SUFFICES ASSUME NEW x \in DOMAIN w
                 PROVE  \E p \in 1 .. m + 1 : \E y \in DOMAIN a[p] : w[x] = a[p][y]
      BY DEF From, w
    <3>1. CASE x \in DOMAIN u
      <4>1. PICK p \in 1 .. m : \E y \in DOMAIN a[p] : u[x] = a[p][y]
        BY <2>1, <3>1 DEF From, u
      <4>2. p \in 1 .. m + 1
        OBVIOUS
      <4> QED
        BY <2>4, <3>1, <4>1, <4>2
    <3>2. CASE x - l \in DOMAIN v
      <4>1. m + 1 \in 1 .. m + 1
        OBVIOUS
      <4>2. x - l \in DOMAIN a[m + 1] /\ w[x] = a[m + 1][x - l]
        BY <2>7, <3>2 DEF v
      <4> QED
        BY <4>1, <4>2
    <3> QED
      BY <2>4, <3>1, <3>2
  <2>9. Into(m + 1)
    <3> SUFFICES ASSUME NEW p \in 1 .. m + 1, NEW y \in DOMAIN a[p]
                 PROVE  \E x \in DOMAIN w : w[x] = a[p][y]
      BY DEF Into, w
    <3>1. CASE p \in 1 .. m
      <4>1. PICK x \in DOMAIN u : u[x] = a[p][y]
        BY <2>1, <3>1 DEF Into, u
      <4> QED
        BY <2>4, <4>1
    <3>2. CASE p = m + 1
      <4>1. y \in DOMAIN v /\ v[y] = a[p][y]
        BY <3>2 DEF v
      <4> QED
        BY <2>4, <4>1
    <3> QED
      BY <3>1, <3>2
  <2>10. Single(m + 1)
    <3> SUFFICES ASSUME NEW x \in DOMAIN w, NEW y \in DOMAIN w, w[x].key = w[y].key
                 PROVE  x = y
      BY DEF Single, w
    <3>1. CASE x \in DOMAIN u /\ y \in DOMAIN u
      BY <2>1, <2>4, <3>1 DEF Single, u
    <3>2. CASE x - l \in DOMAIN v /\ y - l \in DOMAIN v
      <4>1. v[x - l].key = v[y - l].key
        BY <2>7, <3>2
      <4>2. x - l = y - l
        BY <2>3, <3>2, <4>1 DEF Once, v
      <4> QED
        BY <2>6, <4>2
    <3>3. ASSUME NEW i \in DOMAIN u, NEW j \in DOMAIN v, u[i].key = v[j].key
          PROVE  FALSE
      <4>1. PICK p \in 1 .. m : \E z \in DOMAIN a[p] : u[i] = a[p][z]
        BY <2>1 DEF From, u
      <4>2. PICK z \in DOMAIN a[p] : u[i] = a[p][z]
        BY <4>1
      <4>3. p \in 1 .. n /\ p # m + 1
        OBVIOUS
      <4> QED
        BY <2>3, <3>3, <4>2, <4>3 DEF Once, v
    <3>4. CASE x \in DOMAIN u /\ y - l \in DOMAIN v
      <4>1. u[x].key = v[y - l].key
        BY <2>4, <2>7, <3>4
      <4> QED
        BY <3>3, <3>4, <4>1
    <3>5. CASE x - l \in DOMAIN v /\ y \in DOMAIN u
      <4>1. u[y].key = v[x - l].key
        BY <2>4, <2>7, <3>5
      <4> QED
        BY <3>3, <3>5, <4>1
    <3> QED
      BY <2>4, <3>1, <3>2, <3>4, <3>5
  <2> QED
    BY <2>5, <2>8, <2>9, <2>10
<1>5. n \in S
  <2> HIDE DEF S
  <2> QED
    BY <1>3, <1>4, Induction
<1>6. Typed(n) /\ From(n) /\ Into(n) /\ Single(n)
  <2> HIDE DEF Typed, From, Into, Single
  <2> QED
    BY <1>5
<1> QED
  BY <1>6 DEF Gathers, f, g

\* A key is found in a table exactly if it is found in the child of its slot.
LEMMA GetTable ==
  ASSUME Unfolds, NEW node, BitmappedOK(node) \/ FullOK(node), NEW k \in Key
  PROVE  /\ \A p \in DOMAIN node.table :
              node.table[p] # Null /\ Get(node.table[p], k) # None =>
                /\ Slot(HashOf[k], node.shift) + 1 = p
                /\ Get(node, k) = Get(node.table[p], k)
         /\ Get(node, k) # None =>
              \E p \in DOMAIN node.table : /\ node.table[p] # Null
                                           /\ Get(node.table[p], k) = Get(node, k)
<1> DEFINE t == node.table
           i == Slot(HashOf[k], node.shift)
<1>1. CASE BitmappedOK(node)
  <2>1. /\ IsTable(t) /\ node.bits = Used(t)
        /\ \A s \in node.bits : /\ InPlace(t[s + 1], node.shift, s)
                                /\ s + 1 \in DOMAIN t /\ t[s + 1] # Null
    BY <1>1, BitmappedFacts
  <2>2. Get(node, k) = IF i \in node.bits THEN Get(t[i + 1], k) ELSE None
    BY <1>1, GetBitmapped
  <2> HIDE DEF t
  <2>3. ASSUME NEW p \in DOMAIN t, t[p] # Null, Get(t[p], k) # None
        PROVE  i + 1 = p /\ i \in node.bits
    <3>1. p - 1 \in 0 .. Len(t) - 1 /\ (p - 1) + 1 = p
      BY <2>1, SlotAssumption DEF IsTable
    <3>2. p - 1 \in node.bits
      BY <2>1, <2>3, <3>1 DEF Used
    <3>3. i = p - 1
      BY <2>1, <2>3, <3>1, <3>2 DEF InPlace
    <3> QED
      BY <3>1, <3>2, <3>3
  <2>4. ASSUME Get(node, k) # None
        PROVE  \E p \in DOMAIN t : t[p] # Null /\ Get(t[p], k) = Get(node, k)
    BY <2>1, <2>2, <2>4
  <2>5. ASSUME NEW p \in DOMAIN t, t[p] # Null, Get(t[p], k) # None
        PROVE  i + 1 = p /\ Get(node, k) = Get(t[p], k)
    BY <2>2, <2>3, <2>5
  <2> QED
    BY <2>4, <2>5 DEF t
<1>2. CASE FullOK(node)
  <2>1. /\ IsTable(t) /\ Len(t) = Width /\ node.shift \in Shifts
        /\ \A s \in Slots : /\ InPlace(t[s + 1], node.shift, s)
                            /\ s + 1 \in DOMAIN t /\ t[s + 1] # Null
    BY <1>2, FullFacts
  <2>2. Get(node, k) = Get(t[i + 1], k)
    BY <1>2, GetFull
  <2>3. i \in Slots
    BY <2>1, SlotOfKey
  <2> HIDE DEF t
  <2>4. ASSUME NEW p \in DOMAIN t, t[p] # Null, Get(t[p], k) # None
        PROVE  i + 1 = p
    <3>1. p - 1 \in Slots /\ (p - 1) + 1 = p
      BY <2>1, SlotAssumption DEF IsTable, Slots
    <3>2. i = p - 1
      BY <2>1, <2>4, <3>1 DEF InPlace
    <3> QED
      BY <3>1, <3>2
  <2> QED
    BY <2>1, <2>2, <2>3, <2>4 DEF t
<1> QED
  BY <1>1, <1>2

\* The elements of a node are what is found in it, each once.
Listed(node, s) ==
  /\ s \in Seq(Pair) /\ Len(s) = Size(node)
  /\ \A x \in DOMAIN s : Get(node, s[x].key) = s[x].value
  /\ \A k \in Key : Get(node, k) # None => \E x \in DOMAIN s : s[x].key = k
  /\ \A x, y \in DOMAIN s : s[x].key = s[y].key => x = y

LEMMA ElementsOfLeaf ==
  ASSUME Unfolds, NEW node, LeafOK(node)
  PROVE  Listed(node, Elements(node))
<1> DEFINE pair == [key |-> node.key, value |-> node.value]
<1>1. /\ WellFormed(node) /\ node.type = "leaf"
      /\ node.key \in Key /\ node.value \in Value
      /\ \A k \in Key : Get(node, k) = IF node.key = k THEN node.value ELSE None
  BY GetLeaf DEF LeafOK
<1>2. Elements(node) = <<pair>> /\ Size(node) = 1
  BY <1>1 DEF Unfolds, ElementsBody, SizeBody
<1>3. pair \in Pair /\ pair.key = node.key /\ pair.value = node.value
  BY <1>1 DEF Pair
<1> HIDE DEF pair
<1>4. /\ <<pair>> \in Seq(Pair) /\ Len(<<pair>>) = 1
      /\ DOMAIN <<pair>> = {1} /\ <<pair>>[1] = pair
  BY <1>3
<1> QED
  BY <1>1, <1>2, <1>3, <1>4 DEF Listed

LEMMA ElementsOfCollision ==
  ASSUME Unfolds, NEW node, CollisionOK(node)
  PROVE  Listed(node, Elements(node))
<1> DEFINE b == node.bucket
<1>1. /\ b \in Seq(Pair)
      /\ \A i, j \in DOMAIN b : b[i].key = b[j].key => i = j
      /\ \A i \in DOMAIN b : Get(node, b[i].key) = b[i].value
      /\ \A k \in Key : (\A i \in DOMAIN b : b[i].key # k) => Get(node, k) = None
  BY BucketFacts
<1>2. WellFormed(node) /\ node.type = "collision"
  BY GetCollision DEF CollisionOK
<1>3. Elements(node) = b /\ Size(node) = Len(b)
  BY <1>2 DEF Unfolds, ElementsBody, SizeBody
<1> HIDE DEF b
<1> QED
  BY <1>1, <1>3 DEF Listed

LEMMA ElementsOfTable ==
  ASSUME Unfolds, NEW node, BitmappedOK(node) \/ FullOK(node),
         \A p \in DOMAIN node.table :
           node.table[p] # Null => Listed(node.table[p], Elements(node.table[p]))
  PROVE  Listed(node, Elements(node))
<1> DEFINE t == node.table
           n == Len(t)
           a == [p \in DOMAIN t |-> ElementsIn(t[p])]
           b == [p \in DOMAIN t |-> SizeIn(t[p])]
           s == Elements(node)
<1>1. /\ WellFormed(node) /\ IsTable(t)
      /\ node.type \in {"bitmapped", "full"}
  BY Children
<1>2. n \in Nat /\ DOMAIN t = 1 .. n
  BY <1>1, SlotAssumption DEF IsTable
<1>3. s = Joined(a, n)[n] /\ Size(node) = Sums(b, n)[n]
  BY <1>1 DEF Unfolds, ElementsBody, SizeBody
<1>4. ASSUME NEW p \in 1 .. n, t[p] # Null
      PROVE  /\ a[p] = Elements(t[p]) /\ b[p] = Size(t[p])
             /\ Listed(t[p], a[p])
  BY <1>2, <1>4 DEF ElementsIn, SizeIn
<1>5. ASSUME NEW p \in 1 .. n, t[p] = Null PROVE a[p] = <<>> /\ b[p] = 0
  BY <1>2, <1>5 DEF ElementsIn, SizeIn
<1> HIDE DEF a, b, n, s
<1>6. ASSUME NEW p \in 1 .. n PROVE a[p] \in Seq(Pair) /\ b[p] = Len(a[p])
  <2>1. CASE t[p] = Null
    <3>1. <<>> \in Seq(Pair) /\ Len(<<>>) = 0
      OBVIOUS
    <3>2. a[p] = <<>> /\ b[p] = 0
      BY <1>5, <2>1
    <3> QED
      BY <3>1, <3>2
  <2>2. CASE t[p] # Null
    <3>1. Listed(t[p], a[p]) /\ b[p] = Size(t[p])
      BY <1>4, <2>2
    <3> QED
      BY <3>1 DEF Listed
  <2> QED
    BY <2>1, <2>2
<1>7. ASSUME NEW p \in 1 .. n, NEW y \in DOMAIN a[p]
      PROVE  /\ t[p] # Null
             /\ a[p][y].key \in Key
             /\ Get(t[p], a[p][y].key) = a[p][y].value
             /\ a[p][y].value # None
             /\ Slot(HashOf[a[p][y].key], node.shift) + 1 = p
             /\ Get(node, a[p][y].key) = a[p][y].value
  <2>1. t[p] # Null
    BY <1>5, <1>7
  <2>2. a[p][y].key \in Key /\ a[p][y].value \in Value
    BY <1>6, <1>7, Pairs
  <2>3. Get(t[p], a[p][y].key) = a[p][y].value
    BY <1>4, <1>7, <2>1 DEF Listed
  <2>4. a[p][y].value # None
    BY <2>2, ValueAssumption
  <2> QED
    BY <1>2, <2>1, <2>2, <2>3, <2>4, GetTable
<1>8. Once(a, 1 .. n)
  <2> SUFFICES ASSUME NEW p \in 1 .. n, NEW q \in 1 .. n,
                      NEW x \in DOMAIN a[p], NEW y \in DOMAIN a[q],
                      a[p][x].key = a[q][y].key
               PROVE  p = q /\ x = y
    BY DEF Once
  <2>1. p = q
    BY <1>7
  <2>2. \A u, v \in DOMAIN a[p] : a[p][u].key = a[p][v].key => u = v
    BY <1>4, <1>7 DEF Listed
  <2> QED
    BY <2>1, <2>2
<1>9. /\ s \in Seq(Pair) /\ Len(s) = Size(node)
      /\ \A x \in DOMAIN s : \E p \in 1 .. n : \E y \in DOMAIN a[p] : s[x] = a[p][y]
      /\ \A p \in 1 .. n : \A y \in DOMAIN a[p] : \E x \in DOMAIN s : s[x] = a[p][y]
      /\ \A x, y \in DOMAIN s : s[x].key = s[y].key => x = y
  <2>1. (\A p \in 1 .. n : a[p] \in Seq(Pair)) /\ \A p \in 1 .. n : b[p] = Len(a[p])
    BY <1>6
  <2> HIDE DEF t
  <2>2. Gathers(Joined(a, n)[n], a, n) /\ Len(Joined(a, n)[n]) = Sums(b, n)[n]
    BY <1>2, <1>8, <2>1, JoinedFacts
  <2>3. Gathers(s, a, n)
    BY <1>3, <2>2
  <2> QED
    BY <1>3, <2>2, <2>3 DEF Gathers
<1>10. ASSUME NEW x \in DOMAIN s PROVE Get(node, s[x].key) = s[x].value
  <2>1. PICK p \in 1 .. n : \E y \in DOMAIN a[p] : s[x] = a[p][y]
    BY <1>9, <1>10
  <2>2. PICK y \in DOMAIN a[p] : s[x] = a[p][y]
    BY <2>1
  <2> QED
    BY <1>7, <2>2
<1>11. ASSUME NEW k \in Key, Get(node, k) # None
       PROVE  \E x \in DOMAIN s : s[x].key = k
  <2>1. PICK p \in DOMAIN t : t[p] # Null /\ Get(t[p], k) = Get(node, k)
    BY <1>11, GetTable
  <2>2. p \in 1 .. n
    BY <1>2, <2>1
  <2>3. PICK y \in DOMAIN a[p] : a[p][y].key = k
    BY <1>4, <1>11, <2>1, <2>2 DEF Listed
  <2>4. PICK x \in DOMAIN s : s[x] = a[p][y]
    BY <1>9, <2>2, <2>3
  <2> QED
    BY <2>3, <2>4
<1> QED
  BY <1>9, <1>10, <1>11 DEF Listed, s

\* By induction over the depth.
LEMMA ElementsRight ==
  ASSUME Unfolds, NEW node, WellFormed(node)
  PROVE  Listed(node, Elements(node))
<1> DEFINE Bad(c) == WellFormed(c) /\ ~Listed(c, Elements(c))
           S == {n \in Nat : \E c : Bad(c) /\ Depth(c) = n}
<1> SUFFICES ASSUME S # {} PROVE FALSE
  BY DEF Unfolds
<1>1. PICK n \in S : \A m \in S : n <= m
  BY Least
<1>2. PICK c : Bad(c) /\ Depth(c) = n
  BY <1>1
<1>3. CASE LeafOK(c) \/ CollisionOK(c)
  BY <1>2, <1>3, ElementsOfLeaf, ElementsOfCollision
<1>4. CASE BitmappedOK(c) \/ FullOK(c)
  <2>1. ASSUME NEW p \in DOMAIN c.table, c.table[p] # Null
        PROVE  Listed(c.table[p], Elements(c.table[p]))
    <3>1. WellFormed(c.table[p])
      BY <1>4, <2>1, Children
    <3>2. Depth(c.table[p]) \in Nat /\ Depth(c.table[p]) < n
      BY <1>2, <1>4, <2>1, Deeper
    <3> QED
      BY <1>1, <3>1, <3>2
  <2> QED
    BY <1>2, <1>4, <2>1, ElementsOfTable
<1> QED
  BY <1>2, <1>3, <1>4 DEF Unfolds, WellFormedBody

\* The elements of the trie are the keys that are found, each once, and as many as
\* the size says (HashTrie.scala:189-196 and 245).
THEOREM ElementsAreWhatIsFound == Unfolds => (Spec => []ElementsAreFound)
<1> SUFFICES ASSUME Unfolds PROVE Spec => []ElementsAreFound
  OBVIOUS
<1>1. TypeOK => ElementsAreFound
  <2> SUFFICES ASSUME TypeOK PROVE ElementsAreFound
    OBVIOUS
  <2>1. CASE WellFormed(trie)
    BY <2>1, ElementsRight DEF Listed, ElementsAreFound
  <2>2. CASE trie = EmptyNode
    <3>1. EmptyNode.type = "empty"
      BY DEF EmptyNode
    <3>2. Elements(EmptyNode) = <<>> /\ Size(EmptyNode) = 0
      BY <3>1 DEF Unfolds, ElementsBody, SizeBody
    <3> QED
      BY <2>2, <3>2, GetEmpty DEF ElementsAreFound
  <2> QED
    BY <2>1, <2>2 DEF TypeOK
<1> QED
  BY <1>1, TypeCorrect, PTL
===============================================================================
