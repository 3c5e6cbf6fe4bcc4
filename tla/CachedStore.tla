---------------------------- MODULE CachedStore ----------------------------
(***************************************************************************)
(* The B+-tree store on top of the object cache, built with                *)
(* __TREE_WITH_CACHE__ and without __CONCURRENT__ (BPlusStore.hpp,         *)
(* IndexNode.hpp; module ObjectCache).  One call runs at a time; a step is *)
(* one round of the call's loop, with all it asks of the cache.            *)
(*                                                                         *)
(* While a call runs, nodes it has visited are in use and stay cached; all *)
(* others may be evicted whenever a node is loaded or made, and come back  *)
(* under another identifier, which the call writes into the parent.        *)
(***************************************************************************)
EXTENDS ObjectCache

CONSTANTS
  Key,
  Value,
  Absent,      \* what search answers for a missing key (KeyDoesNotExist)
  None,
  Address,     \* where objects can live
  Capacity     \* the cache sizes to consider

ASSUME AnswerAssumption == Absent \notin Value /\ None \notin Value \cup {Absent}
ASSUME CapacityAssumption == Capacity \subseteq Nat \ {0}

VARIABLES
  cache,
  m_uidRootNode,
  call            \* the operation that runs, and where it is

vars == <<cache, m_uidRootNode, call>>

-----------------------------------------------------------------------------

Idle == [op |-> None, key |-> None, value |-> None, pc |-> "idle",
         cur |-> Nil,           \* uidCurrentNode
         path |-> << >>,        \* vtAccessedNodes: what to reorder, and whether it is
                                \*   held (a node made by a split is only named)
         vtNodes |-> << >>,     \* the nodes to climb back through, root first
         pivot |-> None,        \* pivotKey and uidRHSNode: what a split left
         rhs |-> Nil,           \*   for the parent
         below |-> Nil,         \* uidLHSNode, uidChildNode: the round before
         reply |-> None]

inUse == heldIn(call.path)

\* uidLastNode, on the way down
last == IF call.path = << >> THEN Nil ELSE Last(call.path).uid

\* An address at which no object lives.
alive == DOMAIN cache.objects \cup DOMAIN cache.moved \cup inUse
fresh_Reused ==                                                \* mutant
  Volatile(CHOOSE a \in Address :
    /\ Volatile(a) \notin DOMAIN cache.objects
    /\ \A b \in Address : Volatile(b) \in DOMAIN cache.objects \/ a <= b)
fresh ==
  Volatile(CHOOSE a \in Address :
    /\ Volatile(a) \notin alive
    /\ \A b \in Address : Volatile(b) \in alive \/ a <= b)

Init ==
  /\ \E capacity \in Capacity, a \in Address :
       /\ \A b \in Address : a <= b
       /\ cache = createObjectOfType(EmptyCache(capacity), Volatile(a), DataNode(<< >>, << >>), {})
       /\ m_uidRootNode = Volatile(a)
  /\ call = Idle

-----------------------------------------------------------------------------
(* The way down *)

running == cache.fault = "none"

Start(op, k, v) ==
  /\ running /\ call.pc = "idle"
  /\ call' = [Idle EXCEPT !.op = op, !.key = k, !.value = v, !.pc = "visit",
                          !.cur = m_uidRootNode]
  /\ UNCHANGED <<cache, m_uidRootNode>>

StartInsert(k, v) == Start("insert", k, v)
StartRemove(k) == Start("remove", k, None)
StartSearch(k) == Start("search", k, None)

\* updateChildUID: a node that was read under a new identifier is known to its
\* parent by it, or to the store if it is the root.
renamedChild_Clean(c, parent, old, new) ==                     \* mutant
  IF old = new \/ parent = Nil THEN c
  ELSE [c EXCEPT !.objects[parent].node = renamed(@, old, new)]
renamedChild(c, parent, old, new) ==
  IF old = new \/ parent = Nil THEN c
  ELSE IF positions(nodeAt(c, parent), old) = {} THEN throwIf(c, TRUE)
  ELSE write(c, parent, renamed(nodeAt(c, parent), old, new))

arrived == found(cache, call.cur)
arrivedCache ==
  renamedChild(getObject(cache, call.cur, inUse), last, call.cur, arrived)
arrivedNode == nodeAt(arrivedCache, arrived)
arrivedRoot == IF last = Nil THEN arrived ELSE m_uidRootNode

mayClimb(n) ==
  \/ call.op = "insert" /\ canTriggerSplit(n)
  \/ call.op = "remove" /\ canTriggerMerge(n)

VisitIndexNode ==
  /\ running /\ call.pc = "visit"
  /\ ~arrivedNode.leaf
  /\ cache' = arrivedCache /\ m_uidRootNode' = arrivedRoot
  /\ call' = [call EXCEPT
       !.path = Append(@, held(arrived)),
       !.vtNodes = IF mayClimb(arrivedNode) THEN Append(@, last) ELSE << >>,
       !.cur = getChild(arrivedNode, call.key)]

AtDataNode(op) ==
  /\ running /\ call.pc = "visit" /\ call.op = op
  /\ arrivedNode.leaf

SearchDataNode ==
  /\ AtDataNode("search")
  /\ cache' = arrivedCache /\ m_uidRootNode' = arrivedRoot
  /\ call' = [call EXCEPT
       !.path = Append(@, held(arrived)),
       !.reply = IF holds(arrivedNode, call.key)
                   THEN arrivedNode.items[lowerBound(arrivedNode, call.key) + 1] ELSE Absent,
       !.pc = "climb"]

\* The data node is changed; the call climbs if it is to be split or rebalanced.
ChangeDataNode(n, climbs) ==
  /\ cache' = write(arrivedCache, arrived, n) /\ m_uidRootNode' = arrivedRoot
  /\ call' = [call EXCEPT
       !.path = Append(@, held(arrived)),
       !.vtNodes = IF climbs THEN @ \o <<last, arrived>> ELSE << >>,
       !.reply = "Success",
       !.pc = "climb"]

InsertInDataNode ==
  LET n == withEntry(arrivedNode, call.key, call.value)
  IN AtDataNode("insert") /\ ChangeDataNode(n, requireSplit(n))

RemoveFromDataNode ==
  LET n == withoutEntry(arrivedNode, call.key)
  IN /\ AtDataNode("remove") /\ holds(arrivedNode, call.key)
     /\ ChangeDataNode(n, requireMerge(n))

\* A key to remove that is not there "should not occur!": the call ends.
ThrowAbsent ==
  /\ AtDataNode("remove") /\ ~holds(arrivedNode, call.key)
  /\ cache' = arrivedCache /\ m_uidRootNode' = arrivedRoot
  /\ call' = [call EXCEPT !.path = << >>, !.vtNodes = << >>, !.reply = "Throws", !.pc = "climb"]

-----------------------------------------------------------------------------
(* insert, on the way back *)

top == Last(call.vtNodes)
topNode == nodeAt(cache, top)
popped == Front(call.vtNodes)

Climbs(op) ==
  /\ running /\ call.pc = "climb" /\ call.op = op
  /\ call.vtNodes # << >>

\* The new node is made, which may evict others, before this one is cut.
SplitTop(n, path) ==
  /\ cache' = write(createObjectOfType(write(cache, top, n), fresh, splitRight(n), inUse),
                    top, splitLeft(n))
  /\ call' = [call EXCEPT !.pivot = splitPivot(n), !.rhs = fresh, !.below = top,
                          !.path = path, !.vtNodes = popped]

SplitDataNode ==
  /\ Climbs("insert") /\ top # Nil
  /\ topNode.leaf
  /\ SplitTop(topNode, call.path)
  /\ UNCHANGED m_uidRootNode

\* The node that the split made comes after entry i of the nodes to reorder.
withRHS(i) == InsertAt(call.path, i + 1, named(call.rhs))
position(uid) == CHOOSE i \in DOMAIN call.path : call.path[i].uid = uid

InsertPivot ==
  /\ Climbs("insert") /\ top # Nil
  /\ ~topNode.leaf
  /\ LET n == withPivot(topNode, call.pivot, call.rhs)
         path == withRHS(position(top))
     IN IF requireSplit(n)
          THEN SplitTop(n, path)
          ELSE /\ cache' = write(cache, top, n)
               /\ call' = [call EXCEPT !.rhs = Nil, !.below = top,
                                       !.path = path, !.vtNodes = popped]
  /\ UNCHANGED m_uidRootNode

\* The new root is not reordered.  The node beside the old root is, if the value
\* that uidLastNode has before it is first assigned is that of a visited node.
GrowRoot ==
  /\ Climbs("insert") /\ call.vtNodes = <<Nil>>
  /\ cache' = createObjectOfType(cache, fresh,
                IndexNode(<<call.pivot>>, <<call.below, call.rhs>>), inUse)
  /\ m_uidRootNode' = fresh
  /\ \E i \in 0 .. Len(call.path) :
       call' = [call EXCEPT !.path = IF i = 0 THEN @ ELSE withRHS(i),
                            !.rhs = Nil, !.vtNodes = << >>]

-----------------------------------------------------------------------------
(* remove, on the way back: the node of the round before is rebalanced     *)

child == call.below
childNode == nodeAt(cache, child)

SkipRound ==
  /\ Climbs("remove") /\ top # Nil
  /\ \/ topNode.leaf
     \/ ~topNode.leaf /\ ~childNode.leaf /\ ~requireMerge(childNode)
  /\ call' = [call EXCEPT !.below = top, !.vtNodes = popped]
  /\ UNCHANGED <<cache, m_uidRootNode>>

Rebalances ==
  /\ Climbs("remove") /\ top # Nil
  /\ ~topNode.leaf
  /\ childNode.leaf \/ requireMerge(childNode)

idx == childIdx(topNode, call.key)
hasLHS == idx > 1
hasRHS == idx <= getKeysCount(topNode)

\* The sibling at position i is fetched, and its identifier brought up to date.
fetchedSibling(c, i) ==
  LET old == topNode.items[i]
  IN renamedChild(getObjectOfType(c, old), top, old, found(c, old))

afterLHS == IF hasLHS THEN fetchedSibling(cache, idx - 1) ELSE cache
lendsLHS == hasLHS /\ mayLend(nodeAt(afterLHS, nodeAt(afterLHS, top).items[idx - 1]))
fetched == IF hasRHS /\ ~lendsLHS THEN fetchedSibling(afterLHS, idx + 1) ELSE afterLHS
lendsRHS == hasRHS /\ ~lendsLHS /\ mayLend(nodeAt(fetched, nodeAt(fetched, top).items[idx + 1]))

\* The parent, its child and the sibling at position i, once they are cached.
parent == nodeAt(fetched, top)
sibling(i) == parent.items[i]
siblingNode(i) == nodeAt(fetched, sibling(i))

RoundDone ==
  /\ call' = [call EXCEPT !.below = top, !.vtNodes = popped]
  /\ UNCHANGED m_uidRootNode

\* An entity moves; the pivot between the two nodes becomes p.
Moved(i, childAfter, siblingAfter, pivot, p) ==
  cache' = write(write(write(fetched, child, childAfter), sibling(i), siblingAfter),
                 top, [parent EXCEPT !.keys[pivot] = p])

MoveFromLHS ==
  /\ Rebalances /\ lendsLHS
  /\ LET left == siblingNode(idx - 1)
     IN Moved(idx - 1, gainFirst(childNode, left, parent.keys[idx - 1]), loseLast(left),
              idx - 1, Last(left.keys))
  /\ RoundDone

MoveFromRHS ==
  /\ Rebalances /\ lendsRHS
  /\ LET right == siblingNode(idx + 1)
     IN Moved(idx + 1, gainLast(childNode, right, parent.keys[idx]), loseFirst(right),
              idx, pivotAfterRight(right))
  /\ RoundDone

\* Child i of the parent is merged into the one before it and removed.
Merged(left, right, i) ==
  LET n == mergeNodes(nodeAt(fetched, left), nodeAt(fetched, right), parent.keys[i - 1])
  IN cache' = throwIf(remove(write(write(fetched, left, n), top, withoutChild(parent, i)), right),
                      child \notin {left, right})

MergeIntoLHS ==
  /\ Rebalances /\ ~lendsLHS /\ ~lendsRHS /\ hasLHS
  /\ Merged(sibling(idx - 1), sibling(idx), idx)
  /\ RoundDone

MergeRHS ==
  /\ Rebalances /\ ~lendsLHS /\ ~lendsRHS /\ ~hasLHS /\ hasRHS
  /\ Merged(child, sibling(idx + 1), idx + 1)
  /\ RoundDone

\* An index root without pivots gives way to its only child.
LeaveRoot ==
  /\ Climbs("remove") /\ call.vtNodes = <<Nil>>
  /\ LET root == nodeAt(cache, child)
         c == throwIf(write(getObject(cache, child, inUse), child, root), child # m_uidRootNode)
     IN IF ~root.leaf /\ getKeysCount(root) = 0
          THEN m_uidRootNode' = root.items[1] /\ cache' = remove(c, child)
          ELSE UNCHANGED m_uidRootNode /\ cache' = c
  /\ call' = [call EXCEPT !.vtNodes = << >>]

-----------------------------------------------------------------------------

\* insert and search insist that all they have visited is still cached.
Return ==
  /\ running /\ call.pc = "climb" /\ call.vtNodes = << >>
  /\ cache' = reorder(cache, call.path, call.op # "remove")
  /\ call' = Idle
  /\ UNCHANGED m_uidRootNode

\* flush is called when the store is no longer used: the items keep identifiers
\* that are out of date.
Flush ==
  /\ running /\ call.pc = "idle"
  /\ cache' = flushCacheToStorage(cache)
  /\ call' = [call EXCEPT !.pc = "flushed"]
  /\ UNCHANGED m_uidRootNode

Descend ==
  VisitIndexNode \/ SearchDataNode \/ InsertInDataNode \/ RemoveFromDataNode \/ ThrowAbsent

Climb ==
  \/ SplitDataNode \/ InsertPivot \/ GrowRoot
  \/ SkipRound \/ MoveFromLHS \/ MoveFromRHS \/ MergeIntoLHS \/ MergeRHS \/ LeaveRoot

Next ==
  \/ \E k \in Key : \/ \E v \in Value : StartInsert(k, v)
                    \/ StartRemove(k)
                    \/ StartSearch(k)
  \/ Descend \/ Climb \/ Return \/ Flush

Spec == Init /\ [][Next]_vars
=============================================================================
