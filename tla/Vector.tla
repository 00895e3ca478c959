-------------------------------- MODULE Vector --------------------------------
(***************************************************************************)
(* The persistent vector of Vector.scala: a tree of arrays of equal height *)
(* and, apart from it, the array of the last elements, its tail.  A        *)
(* projection (the reverse, or a part, of a vector) keeps no elements of   *)
(* its own and is copied when it is added to or updated.                   *)
(*                                                                         *)
(* The code's arrays have 32 places, for 5 bits of an index; here the      *)
(* number of bits is a parameter.  An array is a sequence.                 *)
(*                                                                         *)
(* An operator whose comment begins with `Mutant' is not part of the       *)
(* model: it is a mistake that the properties are shown to detect.         *)
(***************************************************************************)
EXTENDS Naturals, Sequences, SequencesExt

CONSTANTS
  Value, None,
  Bits,        \* the bits of an index that a level of the tree uses: 5
  MaxLength,   \* bound: the elements of a vector
  MaxViewed,   \* bound: the elements of a vector that is projected
  MaxViews     \* bound: the projections that lie above each other

Width == 2 ^ Bits

VARIABLE vector

------------------------------------------------------------------------------
(* Vectors and their elements *)

Vector(length, shift, root, tail) ==
  [kind |-> "vector", length |-> length, shift |-> shift, root |-> root, tail |-> tail]

EmptyVector == Vector(0, Bits, <<>>, <<>>)

Reversed(v) == [kind |-> "reverse", of |-> v, length |-> v.length]

SubVector(v, from, end) ==
  [kind |-> "sub", of |-> v, from |-> from, length |-> end - from]

Slot(i, level) == (i \div 2 ^ level) % Width

TailOff(v) == v.length - Len(v.tail)

RECURSIVE Leaf(_, _, _)
Leaf(arr, level, i) ==
  IF level = 0 THEN arr ELSE Leaf(arr[Slot(i, level) + 1], level - Bits, i)

RECURSIVE Apply(_, _)
Apply(v, i) ==
  CASE v.kind = "vector" ->
         (IF i >= TailOff(v) THEN v.tail ELSE Leaf(v.root, v.shift, i))[Slot(i, 0) + 1]
    [] v.kind = "reverse" -> Apply(v.of, v.length - i - 1)
    [] v.kind = "sub"     -> Apply(v.of, i + v.from)

Items(v) == [i \in 1 .. v.length |-> Apply(v, i - 1)]

------------------------------------------------------------------------------
(* Adding, replacing and removing an element of a vector *)

\* The array with the tail put below its last place, and None, or the array itself
\* and, for want of place, an array for its right.
RECURSIVE PushTail(_, _, _)
PushTail(level, arr, tail) ==
  LET below == PushTail(level - Bits, Last(arr), tail)
      child == IF level = 0 THEN tail ELSE below.expansion
  IN  IF level # 0 /\ below.expansion = None
      THEN [arr |-> Front(arr) \o <<below.arr>>, expansion |-> None]
      ELSE IF Len(arr) = Width
      THEN [arr |-> arr, expansion |-> <<child>>]
      ELSE [arr |-> Append(arr, child), expansion |-> None]

\* Mutant of Add: a root above the old one is made, and its level is not counted.
AddAtOneLevel(v, e) ==
  LET pushed == PushTail(v.shift - Bits, v.root, v.tail)
  IN  IF Len(v.tail) < Width
      THEN Vector(v.length + 1, v.shift, v.root, Append(v.tail, e))
      ELSE IF pushed.expansion = None
      THEN Vector(v.length + 1, v.shift, pushed.arr, <<e>>)
      ELSE Vector(v.length + 1, v.shift, <<pushed.arr, pushed.expansion>>, <<e>>)

Add(v, e) ==
  LET pushed == PushTail(v.shift - Bits, v.root, v.tail)
  IN  IF Len(v.tail) < Width
      THEN Vector(v.length + 1, v.shift, v.root, Append(v.tail, e))
      ELSE IF pushed.expansion = None
      THEN Vector(v.length + 1, v.shift, pushed.arr, <<e>>)
      ELSE Vector(v.length + 1, v.shift + Bits, <<pushed.arr, pushed.expansion>>, <<e>>)

RECURSIVE DoAssoc(_, _, _, _)
DoAssoc(level, arr, i, e) ==
  [arr EXCEPT ![Slot(i, level) + 1] = IF level = 0 THEN e ELSE DoAssoc(level - Bits, @, i, e)]

\* Mutant of Update: the first place of the tail is taken for one of the tree.
UpdateAfterTail(v, i, e) ==
  IF i = v.length THEN Add(v, e)
  ELSE IF i > TailOff(v) THEN [v EXCEPT !.tail[Slot(i, 0) + 1] = e]
  ELSE [v EXCEPT !.root = DoAssoc(v.shift, @, i, e)]

\* i is one of the indices of v, or its length.
Update(v, i, e) ==
  IF i = v.length THEN Add(v, e)
  ELSE IF i >= TailOff(v) THEN [v EXCEPT !.tail[Slot(i, 0) + 1] = e]
  ELSE [v EXCEPT !.root = DoAssoc(v.shift, @, i, e)]

\* The array without its last leaf, or None when that was all, and the leaf.
RECURSIVE PopTail(_, _)
PopTail(shift, arr) ==
  LET below == PopTail(shift - Bits, Last(arr))
      leaf  == IF shift = 0 THEN Last(arr) ELSE below.tail
  IN  IF shift > 0 /\ below.arr # None
      THEN [arr |-> Front(arr) \o <<below.arr>>, tail |-> leaf]
      ELSE [arr |-> IF Len(arr) = 1 THEN None ELSE Front(arr), tail |-> leaf]

\* Mutant of Pop: a root of one array is kept.
PopAtOneLevel(v) ==
  LET popped == PopTail(v.shift - Bits, v.root)
  IN  IF v.length = 1 THEN EmptyVector
      ELSE IF Len(v.tail) > 1
      THEN Vector(v.length - 1, v.shift, v.root, Front(v.tail))
      ELSE Vector(v.length - 1, v.shift, IF popped.arr = None THEN <<>> ELSE popped.arr,
                  popped.tail)

Pop(v) ==
  LET popped == PopTail(v.shift - Bits, v.root)
      root   == IF popped.arr = None THEN <<>> ELSE popped.arr
  IN  IF v.length = 1 THEN EmptyVector
      ELSE IF Len(v.tail) > 1
      THEN Vector(v.length - 1, v.shift, v.root, Front(v.tail))
      ELSE IF v.shift > Bits /\ Len(root) = 1
      THEN Vector(v.length - 1, v.shift - Bits, root[1], popped.tail)
      ELSE Vector(v.length - 1, v.shift, root, popped.tail)

------------------------------------------------------------------------------
(* Operations *)

IsProjection == vector.kind # "vector"

\* VectorProjection.innerCopy: what a projection shows, added up from nothing.
InnerCopy(v) == FoldLeft(Add, EmptyVector, Items(v))
Solid == IF IsProjection THEN InnerCopy(vector) ELSE vector

RECURSIVE Views(_)
Views(v) == IF v.kind = "vector" THEN 0 ELSE 1 + Views(v.of)

Viewable == vector.length <= MaxViewed /\ Views(vector) < MaxViews

Init == vector = EmptyVector

Plus(e) ==
  /\ vector.length < MaxLength
  /\ vector' = Add(Solid, e)

Assign(i, e) ==
  /\ i <= vector.length
  /\ i < MaxLength
  /\ vector' = Update(Solid, i, e)

\* A projection inherits pop, which looks for the elements of the projection in a
\* root and a tail that are empty: only a single element is removed.
Dequeue ==
  /\ vector.length > 0
  /\ IsProjection => vector.length = 1
  /\ vector' = Pop(vector)

\* The array of a projection has no last place: ArrayIndexOutOfBoundsException.
DequeueThrows ==
  /\ IsProjection
  /\ vector.length > 1
  /\ UNCHANGED vector

Backwards == Viewable /\ vector' = Reversed(vector)

\* The end of a part is below the vector's length.
Part(from, end) ==
  /\ Viewable
  /\ end < vector.length
  /\ from < end
  /\ vector' = SubVector(vector, from, end)

\* TransactionalVector.clear
Clear == vector' = EmptyVector

Next ==
  \/ \E e \in Value : Plus(e) \/ \E i \in 0 .. MaxLength : Assign(i, e)
  \/ Dequeue \/ DequeueThrows
  \/ Backwards \/ \E from, end \in 0 .. MaxViewed : Part(from, end)
  \/ Clear

Spec == Init /\ [][Next]_vector

------------------------------------------------------------------------------
(* Properties *)

\* A tree whose leaves are full, all at the same depth, and whose arrays are full,
\* except on its right.
RECURSIVE Tree(_, _)
Tree(arr, level) ==
  IF level = 0 THEN Len(arr) = Width /\ \A i \in 1 .. Width : arr[i] \in Value
  ELSE /\ Len(arr) \in 1 .. Width
       /\ \A i \in DOMAIN arr : Tree(arr[i], level - Bits)

RECURSIVE LeavesOf(_, _)
LeavesOf(arr, level) ==
  IF level = 0 THEN 1
  ELSE FoldLeft(LAMBDA n, child : n + LeavesOf(child, level - Bits), 0, arr)

RECURSIVE Shaped(_)
Shaped(v) ==
  IF v.kind # "vector" THEN Shaped(v.of) /\ v.length <= v.of.length
  ELSE IF v.root = <<>> THEN v.length = Len(v.tail) /\ v.length <= Width /\ v.shift = Bits
  ELSE /\ Tree(v.root, v.shift)
       /\ v.length = LeavesOf(v.root, v.shift) * Width + Len(v.tail)
       /\ Len(v.tail) \in 1 .. Width
       /\ v.shift > Bits => Len(v.root) > 1

\* The tree is no higher than its elements need, its leaves are full and at one depth,
\* and the tail is never empty, on which apply and pop rely (Vector.scala:59-75 and
\* 158-183).
TypeOK == Shaped(vector)

\* Adding appends and updating replaces one element, however the tree grew, shrank or
\* was copied from a projection before (Vector.scala:77-127 and 337-352).
OneElementChanges ==
  LET s == Items(vector)
  IN  \A e \in Value :
        /\ Items(Add(Solid, e)) = Append(s, e)
        /\ \A i \in DOMAIN s : Items(Update(Solid, i - 1, e)) = [s EXCEPT ![i] = e]

\* pop takes back what + did, to the last array, at every length at which the tail
\* moves into the tree or a level is added (Vector.scala:109-127 and 158-183).
PopUndoesPlus == \A e \in Value : Pop(Add(Solid, e)) = Solid
===============================================================================
