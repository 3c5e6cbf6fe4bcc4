----------------------------- MODULE StoreNodes -----------------------------
(***************************************************************************)
(* The nodes of the B+-tree store and what its operations do to them       *)
(* (IndexNode.hpp, DataNode.hpp).  The items of a data node are the values *)
(* of its keys, those of an index node its children, one more than it has  *)
(* keys (pivots).                                                          *)
(***************************************************************************)
EXTENDS Integers, Sequences, FiniteSets, SequencesExt

CONSTANT Degree      \* m_nDegree: most keys of a node

ASSUME DegreeAssumption == Degree \in Nat /\ Degree >= 2

-----------------------------------------------------------------------------

DataNode(keys, values) == [leaf |-> TRUE, keys |-> keys, items |-> values]
IndexNode(pivots, children) == [leaf |-> FALSE, keys |-> pivots, items |-> children]

getKeysCount(n) == Len(n.keys)
Half == (Degree + 1) \div 2    \* std::ceil(nDegree / 2.0f)

requireSplit(n) == getKeysCount(n) > Degree
canTriggerSplit(n) == getKeysCount(n) + 1 > Degree
requireMerge(n) == getKeysCount(n) <= Half
canTriggerMerge(n) == getKeysCount(n) <= Half + 1
mayLend_Late(n) == getKeysCount(n) > Half + 1                  \* mutant
mayLend(n) == getKeysCount(n) > Half

\* How many keys precede k: std::lower_bound, and getChildNodeIdx.
lowerBound(n, k) == Cardinality({i \in DOMAIN n.keys : n.keys[i] < k})
upperBound(n, k) == Cardinality({i \in DOMAIN n.keys : n.keys[i] <= k})

holds(n, k) == lowerBound(n, k) < upperBound(n, k)
childIdx(n, k) == upperBound(n, k) + 1
getChild(n, k) == n.items[childIdx(n, k)]

take(s, i) == SubSeq(s, 1, i)
drop(s, i) == SubSeq(s, i + 1, Len(s))

withEntry(n, k, v) ==
  LET i == upperBound(n, k) + 1
  IN [n EXCEPT !.keys = InsertAt(@, i, k), !.items = InsertAt(@, i, v)]

withoutEntry(n, k) ==
  LET i == lowerBound(n, k) + 1
  IN [n EXCEPT !.keys = RemoveAt(@, i), !.items = RemoveAt(@, i)]

withPivot(n, pivot, sibling) ==
  LET i == childIdx(n, pivot)
  IN [n EXCEPT !.keys = InsertAt(@, i, pivot), !.items = InsertAt(@, i + 1, sibling)]

withoutChild_Left(n, i) ==                                     \* mutant
  [n EXCEPT !.keys = RemoveAt(@, i - 1), !.items = RemoveAt(@, i - 1)]
withoutChild(n, i) == [n EXCEPT !.keys = RemoveAt(@, i - 1), !.items = RemoveAt(@, i)]

\* split: the key in the middle goes to the parent; a data node also keeps it.
middle(n) == getKeysCount(n) \div 2
splitPivot(n) == n.keys[middle(n) + 1]
kept(n) == IF n.leaf THEN middle(n) ELSE middle(n) + 1
splitLeft(n) == [n EXCEPT !.keys = take(@, middle(n)), !.items = take(@, kept(n))]
splitRight(n) == [n EXCEPT !.keys = drop(@, kept(n)), !.items = drop(@, kept(n))]

\* Moving an entity to or from a sibling: between index nodes the keys rotate
\* through the pivot of the parent, between data nodes the pivot follows.
gainFirst(n, left, pivot) ==
  [n EXCEPT !.keys = <<IF n.leaf THEN Last(left.keys) ELSE pivot>> \o @,
            !.items = <<Last(left.items)>> \o @]
loseLast(n) == [n EXCEPT !.keys = Front(@), !.items = Front(@)]
gainLast(n, right, pivot) ==
  [n EXCEPT !.keys = Append(@, IF n.leaf THEN Head(right.keys) ELSE pivot),
            !.items = Append(@, Head(right.items))]
loseFirst(n) == [n EXCEPT !.keys = Tail(@), !.items = Tail(@)]
pivotAfterRight(right) == IF right.leaf THEN right.keys[2] ELSE right.keys[1]

mergeNodes(n, right, pivot) ==
  [n EXCEPT !.keys = (IF n.leaf THEN @ ELSE Append(@, pivot)) \o right.keys,
            !.items = @ \o right.items]
=============================================================================
