---------------------------- MODULE MCCollections ----------------------------
(***************************************************************************)
(* An instance of HashTrie and of Vector for TLC.  A trie and a vector     *)
(* have nothing in common; each is explored while the other is empty.      *)
(*                                                                         *)
(* Hashes have five bits, of which a level looks at two, as 5 of 32 bits   *)
(* leave a remainder in the code.  Two keys collide, one differs from them *)
(* on the last level only, and four fill the four slots of the root.  The  *)
(* arrays of the vector have two places.                                   *)
(***************************************************************************)
EXTENDS HashTrie, TLC

CONSTANTS k0, c0, k16, k1, k2, k3, x, y, MaxLength, MaxViewed, MaxViews

VARIABLE vector

Hashes == (k0 :> 0) @@ (c0 :> 0) @@ (k16 :> 16) @@ (k1 :> 1) @@ (k2 :> 2)
          @@ (k3 :> 3)

\* The operations on the nodes of a trie are their bodies.
GetIn(node, k)           == LET found  == GetBody(node, k) IN found
PutIn(node, shift, k, v) == LET made   == PutBody(node, shift, k, v) IN made
WithoutIn(node, k)       == LET made   == WithoutBody(node, k) IN made
SizeOf(node)             == LET size   == SizeBody(node) IN size
ElementsOf(node)         == LET pairs  == ElementsBody(node) IN pairs
DepthOf(node)            == LET levels == DepthBody(node) IN levels
WellFormedIn(node)       == LET shape  == WellFormedBody(node) IN shape

V == INSTANCE Vector WITH Bits <- 1

CollectionsInit == Init /\ V!Init

CollectionsNext ==
  \/ vector = V!EmptyVector /\ Next /\ UNCHANGED vector
  \/ trie = EmptyNode /\ V!Next /\ UNCHANGED trie

CollectionsSpec == CollectionsInit /\ [][CollectionsNext]_<<trie, vector>>

\* The shape of the trie and of the vector (HashTrie.scala:188, Vector.scala:46): the
\* bits of a node say where it has children, the leaves of a tree are full and at
\* one depth, and the tree is no higher than its elements need.
ShapesOK == TypeOK /\ V!TypeOK

\* Adding appends, updating replaces one element (Vector.scala:77-127).
OneElementChanges == V!OneElementChanges

\* pop takes back what + did (Vector.scala:109-127 and 158-183).
PopUndoesPlus == V!PopUndoesPlus
===============================================================================
