------------------------------ MODULE BTreeNode ------------------------------
(***************************************************************************)
(* The nodes of the B-tree (BTree.hpp): leaves and inner nodes as records, *)
(* the searches in their key arrays and the operations that change them.   *)
(* Positions count from 0 as in the code; sequences count from 1.          *)
(***************************************************************************)
EXTENDS Integers, Sequences

CONSTANTS
  LeafEntries,   \* BTreeLeaf::maxEntries, 2 or more
  InnerEntries,  \* BTreeInner::maxEntries, 5 or more
  Infinity       \* a FenceKey with isInfinity

\* BTreeLeaf and BTreeInner; count is the length of keys
Leaf(keys, vals, lower, upper) ==
  [type |-> "leaf", keys |-> keys, vals |-> vals, lower |-> lower, upper |-> upper]
Inner(keys, children, lower, upper) ==
  [type |-> "inner", keys |-> keys, children |-> children, lower |-> lower, upper |-> upper]

EmptyLeaf == Leaf(<<>>, <<>>, Infinity, Infinity)

LeafFull(leaf) == Len(leaf.keys) = LeafEntries
IsUnderflow(leaf) == Len(leaf.keys) <= LeafEntries \div 4
InnerFull(inner) == Len(inner.keys) = InnerEntries - 1

-----------------------------------------------------------------------------
(***************************************************************************)
(* The binary searches.  On an empty array the code compares k with what   *)
(* is in the first slot and returns 0 or 1; callers that can meet an empty *)
(* node test pos < count afterwards, or count before.                      *)
(***************************************************************************)

\* first position whose key is not less than k
LowerBound(keys, k) ==
  LET n == Len(keys)
      search[lower \in 0..n, upper \in 0..n] ==
        IF lower >= upper THEN lower
        ELSE LET mid == (upper - lower) \div 2 + lower
             IN IF k < keys[mid + 1] THEN search[lower, mid]
                ELSE IF k > keys[mid + 1] THEN search[mid + 1, upper] ELSE mid
  IN search[0, n]

\* first position whose key is larger than k
UpperBound(keys, k) ==
  LET n == Len(keys)
      search[lower \in 0..n, upper \in 0..n] ==
        IF lower >= upper THEN lower
        ELSE LET mid == (upper - lower) \div 2 + lower
             IN IF k < keys[mid + 1] THEN search[lower, mid] ELSE search[mid + 1, upper]
  IN search[0, n]

\* Mutant: the last comparison is dropped
LowerBoundUnfinished(keys, k) ==
  LET search[base \in 0..Len(keys), n \in 0..Len(keys)] ==
        IF n > 1
        THEN search[IF keys[base + n \div 2 + 1] < k THEN base + n \div 2 ELSE base, n - n \div 2]
        ELSE base
  IN search[0, Len(keys)]

\* LowerBound without branches
LowerBoundBF(keys, k) ==
  LET search[base \in 0..Len(keys), n \in 0..Len(keys)] ==
        IF n > 1
        THEN search[IF keys[base + n \div 2 + 1] < k THEN base + n \div 2 ELSE base, n - n \div 2]
        ELSE IF n = 1 /\ keys[base + 1] < k THEN base + 1 ELSE base
  IN search[0, Len(keys)]

-----------------------------------------------------------------------------
(* Leaves *)

\* (pos < count) && (keys[pos] == k)
Contains(leaf, k) ==
  LET pos == LowerBound(leaf.keys, k)
  IN pos < Len(leaf.keys) /\ leaf.keys[pos + 1] = k

ValueOf(leaf, k) == leaf.vals[LowerBound(leaf.keys, k) + 1]

InsertAt(s, pos, e) == SubSeq(s, 1, pos) \o <<e>> \o SubSeq(s, pos + 1, Len(s))
DropAt(s, pos) == SubSeq(s, 1, pos) \o SubSeq(s, pos + 2, Len(s))

\* BTreeLeaf::insert replaces the payload of a key that is there
LeafInsert(leaf, k, v) ==
  LET pos == LowerBound(leaf.keys, k)
  IN IF Contains(leaf, k) THEN [leaf EXCEPT !.vals[pos + 1] = v]
     ELSE [leaf EXCEPT !.keys = InsertAt(@, pos, k), !.vals = InsertAt(@, pos, v)]

LeafRemove(leaf, k) ==
  LET pos == LowerBound(leaf.keys, k)
  IN IF Contains(leaf, k)
     THEN [leaf EXCEPT !.keys = DropAt(@, pos), !.vals = DropAt(@, pos)]
     ELSE leaf

\* BTreeLeaf::split: the lower half stays, its largest key separates
LeafSplit(leaf) ==
  LET n == Len(leaf.keys)
      count == n \div 2
      sep == leaf.keys[count]
  IN [sep |-> sep,
      left |-> Leaf(SubSeq(leaf.keys, 1, count), SubSeq(leaf.vals, 1, count), leaf.lower, sep),
      right |-> Leaf(SubSeq(leaf.keys, count + 1, n), SubSeq(leaf.vals, count + 1, n),
                     sep, leaf.upper)]

\* BTree::remove, "right fits into leaf"
LeafMerge(leaf, right) ==
  Leaf(leaf.keys \o right.keys, leaf.vals \o right.vals, leaf.lower, right.upper)

-----------------------------------------------------------------------------
(* Inner nodes *)

\* the new child comes after the one that was split
InnerInsert(inner, k, child) ==
  LET pos == LowerBound(inner.keys, k)
  IN [inner EXCEPT !.keys = InsertAt(@, pos, k), !.children = InsertAt(@, pos + 1, child)]

\* removes the separator at pos and the child to its right
InnerRemove(inner, pos) ==
  IF pos < Len(inner.keys)
  THEN [inner EXCEPT !.keys = DropAt(@, pos), !.children = DropAt(@, pos + 1)]
  ELSE inner

\* the separator moves up: it is in neither half
InnerSplit(inner) ==
  LET n == Len(inner.keys)
      count == n \div 2 - 1
      sep == inner.keys[count + 1]
  IN [sep |-> sep,
      left |-> Inner(SubSeq(inner.keys, 1, count), SubSeq(inner.children, 1, count + 1),
                     inner.lower, sep),
      right |-> Inner(SubSeq(inner.keys, count + 2, n), SubSeq(inner.children, count + 2, n + 1),
                      sep, inner.upper)]

-----------------------------------------------------------------------------
(* Scans of one leaf: the keys passed to the callback, and where to go on *)

\* ASC_SCAN::operator()
AscScan(leaf, k) ==
  [keys |-> SubSeq(leaf.keys, LowerBound(leaf.keys, k) + 1, Len(leaf.keys)),
   next |-> leaf.upper]

\* DESC_SCAN::operator(): begins at the last key that is not larger than k
DescScan(leaf, k) ==
  LET n == Len(leaf.keys)
      bound == LowerBound(leaf.keys, k)
      it == IF bound >= n THEN n - 1 ELSE bound
      first == IF n > 0 /\ leaf.keys[it + 1] > k THEN it - 1 ELSE it
  IN [keys |-> [i \in 1..(first + 1) |-> leaf.keys[first + 2 - i]], next |-> leaf.lower]
=============================================================================
