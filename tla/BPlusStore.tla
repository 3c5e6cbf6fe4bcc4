----------------------------- MODULE BPlusStore -----------------------------
(***************************************************************************)
(* The B+-tree store (BPlusStore.hpp, IndexNode.hpp, DataNode.hpp), built  *)
(* with __CONCURRENT__; with one thread it is the build without.           *)
(*                                                                         *)
(* insert and remove descend with exclusive locks, release those above a   *)
(* node that will absorb the change, and then climb back along vtNodes,    *)
(* splitting or rebalancing; search couples shared locks.  remove works on *)
(* sibling nodes without locking them.  A step of the model is a stretch   *)
(* of the code between two points at which a lock is taken or released.    *)
(*                                                                         *)
(* The cache is transparent: identifiers never change, as in NoCache, and  *)
(* an object lives while somebody points to it, as LRUCache's shared_ptr.  *)
(***************************************************************************)
EXTENDS StoreNodes

CONSTANTS
  Key,         \* the keys, integers: the store compares them
  Value,
  Absent,      \* what search answers for a missing key (KeyDoesNotExist)
  None,        \* no operation, no answer yet
  ObjectUID,   \* the identifiers the cache can hand out
  Thread

ASSUME KeyAssumption    == Key \subseteq Int
ASSUME AnswerAssumption == Absent \notin Value /\ None \notin Value \cup {Absent}
ASSUME UIDAssumption    == ObjectUID \subseteq Nat \ {0}

VARIABLES
  nodes,          \* the object under each identifier
  live,           \* the identifiers the cache knows
  m_uidRootNode,
  thread          \* the operation each thread runs, and where it is in it

vars == <<nodes, live, m_uidRootNode, thread>>

-----------------------------------------------------------------------------
(* Threads *)

Nil == 0        \* no node: the parent of the root
TreeLock == 0   \* m_mutex, which guards m_uidRootNode; a node's lock is its identifier

Operation == {"insert", "search", "remove"}

Idle == [op |-> None, key |-> None, value |-> None, pc |-> "idle",
         cur |-> Nil,           \* uidCurrentNode
         last |-> Nil,          \* uidLastNode
         vtNodes |-> << >>,     \* the nodes to climb back through, root first
         vtLocks |-> << >>,
         pivot |-> None,        \* pivotKey and uidRHSNode: what a split left
         rhs |-> Nil,           \*   for the parent
         below |-> Nil,         \* uidLHSNode, uidChildNode: the round before
         reply |-> None]

node(t) == nodes[thread[t].cur]
key(t) == thread[t].key
top(t) == Last(thread[t].vtNodes)
onTop(t) == nodes[top(t)]
popped(t) == Front(thread[t].vtNodes)

locks(t) == ToSet(thread[t].vtLocks)

\* std::shared_mutex: only searches share.
mayLock_Shared(t, op, m) == TRUE                               \* mutant
mayLock(t, op, m) ==
  \A u \in Thread \ {t} : m \in locks(u) => op = "search" /\ thread[u].op = "search"

\* The nodes that a thread may still read or write.
pointers(t) ==
  ({thread[t].cur, thread[t].last, thread[t].below} \cup ToSet(thread[t].vtNodes)) \ {Nil}

\* createObjectOfType: an address at which no object lives.
isFresh(id) ==
  /\ id \in ObjectUID \ (live \cup UNION {pointers(u) : u \in Thread})
  /\ \A other \in ObjectUID \ (live \cup UNION {pointers(u) : u \in Thread}) : id <= other

\* vtLocks in insert and in remove, at a node that will absorb the change.
lockedAfter_All(t) == <<Last(thread[t].vtLocks)>>              \* mutant
lockedAfter_None(t) == << >>                                   \* mutant
lockedAfter(t) ==
  LET held == thread[t].vtLocks
  IN CASE thread[t].op = "insert" -> <<Last(held)>>
       [] thread[t].op = "remove" -> IF Len(held) > 3 THEN Tail(held) ELSE held

Init ==
  /\ nodes = [id \in ObjectUID |-> DataNode(<< >>, << >>)]
  /\ m_uidRootNode \in ObjectUID /\ \A id \in ObjectUID : m_uidRootNode <= id
  /\ live = {m_uidRootNode}
  /\ thread = [t \in Thread |-> Idle]

-----------------------------------------------------------------------------
(* The way down *)

Start(t, op, k, v) ==
  /\ thread[t].pc = "idle"
  /\ mayLock(t, op, TreeLock)
  /\ thread' = [thread EXCEPT ![t] =
       [Idle EXCEPT !.op = op, !.key = k, !.value = v, !.pc = "lock",
                    !.cur = m_uidRootNode, !.vtLocks = <<TreeLock>>]]
  /\ UNCHANGED <<nodes, live, m_uidRootNode>>

StartInsert(t, k, v) == Start(t, "insert", k, v)
StartRemove(t, k) == Start(t, "remove", k, None)
StartSearch(t, k) == Start(t, "search", k, None)

\* A search gives up the parent's lock once it has the child's.
Lock(t) ==
  /\ thread[t].pc = "lock"
  /\ mayLock(t, thread[t].op, thread[t].cur)
  /\ thread' = [thread EXCEPT
       ![t].vtLocks = IF thread[t].op = "search" THEN <<thread[t].cur>>
                                                 ELSE Append(@, thread[t].cur),
       ![t].pc = "visit"]
  /\ UNCHANGED <<nodes, live, m_uidRootNode>>

mayClimb(t) ==
  \/ thread[t].op = "insert" /\ canTriggerSplit(node(t))
  \/ thread[t].op = "remove" /\ canTriggerMerge(node(t))

\* An index node on the way: its parent is needed if this node may split or
\* merge; if not, nothing above is needed.
PassIndexNode(t) ==
  /\ thread[t].pc = "visit" /\ thread[t].op # "search"
  /\ ~node(t).leaf
  /\ thread' = [thread EXCEPT
       ![t].vtNodes = IF mayClimb(t) THEN Append(@, thread[t].last) ELSE << >>,
       ![t].vtLocks = IF mayClimb(t) THEN @ ELSE lockedAfter(t),
       ![t].last = thread[t].cur,
       ![t].pc = "choose"]
  /\ UNCHANGED <<nodes, live, m_uidRootNode>>

ChooseChild(t) ==
  /\ thread[t].pc = (IF thread[t].op = "search" THEN "visit" ELSE "choose")
  /\ ~node(t).leaf
  /\ thread' = [thread EXCEPT ![t].cur = getChild(node(t), key(t)), ![t].pc = "lock"]
  /\ UNCHANGED <<nodes, live, m_uidRootNode>>

AtDataNode(t, op) ==
  /\ thread[t].pc = "visit" /\ thread[t].op = op
  /\ node(t).leaf

SearchDataNode(t) ==
  /\ AtDataNode(t, "search")
  /\ thread' = [thread EXCEPT
       ![t].reply = IF holds(node(t), key(t))
                      THEN node(t).items[lowerBound(node(t), key(t)) + 1] ELSE Absent,
       ![t].pc = "climb"]
  /\ UNCHANGED <<nodes, live, m_uidRootNode>>

\* The data node is changed; if it has to be split or rebalanced, the thread
\* climbs, else it needs no lock any more.
ChangeDataNode(t, n, climbs) ==
  /\ nodes' = [nodes EXCEPT ![thread[t].cur] = n]
  /\ thread' = [thread EXCEPT
       ![t].vtNodes = IF climbs THEN @ \o <<thread[t].last, thread[t].cur>> ELSE << >>,
       ![t].vtLocks = IF climbs THEN @ ELSE << >>,
       ![t].reply = "Success",
       ![t].pc = "climb"]
  /\ UNCHANGED <<live, m_uidRootNode>>

InsertInDataNode(t) ==
  LET n == withEntry(node(t), key(t), thread[t].value)
  IN AtDataNode(t, "insert") /\ ChangeDataNode(t, n, requireSplit(n))

RemoveFromDataNode(t) ==
  LET n == withoutEntry(node(t), key(t))
  IN /\ AtDataNode(t, "remove") /\ holds(node(t), key(t))
     /\ ChangeDataNode(t, n, requireMerge(n))

-----------------------------------------------------------------------------
(* insert, on the way back *)

Climbs(t, op) ==
  /\ thread[t].pc = "climb" /\ thread[t].op = op
  /\ thread[t].vtNodes # << >>

SplitTop(t, n, id) ==
  /\ isFresh(id)
  /\ nodes' = [nodes EXCEPT ![top(t)] = splitLeft(n), ![id] = splitRight(n)]
  /\ live' = live \cup {id}
  /\ thread' = [thread EXCEPT ![t].pivot = splitPivot(n), ![t].rhs = id,
                              ![t].below = top(t), ![t].vtNodes = popped(t)]
  /\ UNCHANGED m_uidRootNode

SplitDataNode(t) ==
  /\ Climbs(t, "insert") /\ top(t) # Nil
  /\ onTop(t).leaf
  /\ \E id \in ObjectUID : SplitTop(t, onTop(t), id)

\* The index node takes the pivot; it may have to be split in turn.
InsertPivot(t) ==
  /\ Climbs(t, "insert") /\ top(t) # Nil
  /\ ~onTop(t).leaf /\ thread[t].rhs # Nil
  /\ LET n == withPivot(onTop(t), thread[t].pivot, thread[t].rhs)
     IN IF requireSplit(n)
          THEN \E id \in ObjectUID : SplitTop(t, n, id)
          ELSE /\ nodes' = [nodes EXCEPT ![top(t)] = n]
               /\ thread' = [thread EXCEPT ![t].rhs = Nil, ![t].below = top(t),
                                           ![t].vtNodes = popped(t)]
               /\ UNCHANGED <<live, m_uidRootNode>>

GrowRoot(t) ==
  /\ Climbs(t, "insert") /\ thread[t].vtNodes = <<Nil>>
  /\ thread[t].rhs # Nil
  /\ \E id \in ObjectUID :
       /\ isFresh(id)
       /\ nodes' = [nodes EXCEPT ![id] =
            IndexNode(<<thread[t].pivot>>, <<thread[t].below, thread[t].rhs>>)]
       /\ live' = live \cup {id}
       /\ m_uidRootNode' = id
  /\ thread' = [thread EXCEPT ![t].vtNodes = << >>]

-----------------------------------------------------------------------------
(* remove, on the way back: the node of the round before is rebalanced      *)

\* The first round finds the data node; a round whose child is an index node
\* that kept enough pivots does nothing either.
SkipRound(t) ==
  /\ Climbs(t, "remove") /\ top(t) # Nil
  /\ \/ onTop(t).leaf
     \/ ~onTop(t).leaf /\ ~nodes[thread[t].below].leaf /\ ~requireMerge(nodes[thread[t].below])
  /\ thread' = [thread EXCEPT ![t].below = top(t), ![t].vtNodes = popped(t)]
  /\ UNCHANGED <<nodes, live, m_uidRootNode>>

Rebalances(t) ==
  /\ Climbs(t, "remove") /\ top(t) # Nil
  /\ ~onTop(t).leaf
  /\ nodes[thread[t].below].leaf \/ requireMerge(nodes[thread[t].below])

idx(t) == childIdx(onTop(t), key(t))
hasLHS(t) == idx(t) > 1
hasRHS(t) == idx(t) <= getKeysCount(onTop(t))
ptrLHS(t) == onTop(t).items[idx(t) - 1]
ptrRHS(t) == onTop(t).items[idx(t) + 1]
lendsLHS(t) == hasLHS(t) /\ mayLend(nodes[ptrLHS(t)])
lendsRHS(t) == hasRHS(t) /\ mayLend(nodes[ptrRHS(t)])

\* The siblings that the round reads or writes.
siblings(t) ==
  (IF hasLHS(t) THEN {ptrLHS(t)} ELSE {}) \cup
  (IF hasRHS(t) /\ ~lendsLHS(t) THEN {ptrRHS(t)} ELSE {})

MoveFromLHS(t) ==
  LET child == thread[t].below
      left  == nodes[ptrLHS(t)]
      at    == idx(t) - 1
  IN /\ Rebalances(t) /\ lendsLHS(t)
     /\ nodes' = [nodes EXCEPT
          ![child] = gainFirst(@, left, onTop(t).keys[at]),
          ![ptrLHS(t)] = loseLast(@),
          ![top(t)].keys[at] = Last(left.keys)]
     /\ thread' = [thread EXCEPT ![t].below = top(t), ![t].vtNodes = popped(t)]
     /\ UNCHANGED <<live, m_uidRootNode>>

MoveFromRHS(t) ==
  LET child == thread[t].below
      right == nodes[ptrRHS(t)]
      at    == idx(t)
  IN /\ Rebalances(t) /\ ~lendsLHS(t) /\ lendsRHS(t)
     /\ nodes' = [nodes EXCEPT
          ![child] = gainLast(@, right, onTop(t).keys[at]),
          ![ptrRHS(t)] = loseFirst(@),
          ![top(t)].keys[at] = pivotAfterRight(right)]
     /\ thread' = [thread EXCEPT ![t].below = top(t), ![t].vtNodes = popped(t)]
     /\ UNCHANGED <<live, m_uidRootNode>>

\* Child i of the parent is merged into the one before it and removed from the
\* cache; the thread unlocks it before, if it is its own child.
MergeAt(t, l, r, i) ==
  /\ nodes' = [nodes EXCEPT
       ![l] = mergeNodes(@, nodes[r], onTop(t).keys[i - 1]),
       ![top(t)] = withoutChild(@, i)]
  /\ live' = live \ {r}
  /\ thread' = [thread EXCEPT
       ![t].vtLocks = IF r = thread[t].below THEN SelectSeq(@, LAMBDA m : m # r) ELSE @,
       ![t].below = top(t), ![t].vtNodes = popped(t)]
  /\ UNCHANGED m_uidRootNode

MergeIntoLHS(t) ==
  /\ Rebalances(t) /\ ~lendsLHS(t) /\ ~lendsRHS(t)
  /\ hasLHS(t) /\ onTop(t).items[idx(t)] = thread[t].below
  /\ MergeAt(t, ptrLHS(t), thread[t].below, idx(t))

MergeRHS(t) ==
  /\ Rebalances(t) /\ ~lendsLHS(t) /\ ~lendsRHS(t)
  /\ ~hasLHS(t) /\ hasRHS(t)
  /\ MergeAt(t, thread[t].below, ptrRHS(t), idx(t) + 1)

\* An index root without pivots gives way to its only child.
LeaveRoot(t) ==
  /\ Climbs(t, "remove") /\ thread[t].vtNodes = <<Nil>>
  /\ thread[t].below = m_uidRootNode
  /\ LET root == nodes[m_uidRootNode]
     IN IF ~root.leaf /\ getKeysCount(root) = 0
          THEN m_uidRootNode' = root.items[1] /\ live' = live \ {m_uidRootNode}
          ELSE UNCHANGED <<m_uidRootNode, live>>
  /\ thread' = [thread EXCEPT ![t].vtNodes = << >>]
  /\ UNCHANGED nodes

-----------------------------------------------------------------------------

Return(t) ==
  /\ thread[t].pc = "climb" /\ thread[t].vtNodes = << >>
  /\ thread' = [thread EXCEPT ![t] = Idle]
  /\ UNCHANGED <<nodes, live, m_uidRootNode>>

\* logic_error("should not occur!"): the key to remove is not there, the child
\* is not where its key leads to (found when it is merged already), or it has no
\* sibling, or the root is another.  The exception leaves the operation, and with
\* it its locks are released.
Throw(t) ==
  /\ \/ AtDataNode(t, "remove") /\ ~holds(node(t), key(t))
     \/ /\ Rebalances(t) /\ ~lendsLHS(t) /\ ~lendsRHS(t)
        /\ IF hasLHS(t) THEN onTop(t).items[idx(t)] # thread[t].below ELSE ~hasRHS(t)
     \/ /\ Climbs(t, "remove") /\ thread[t].vtNodes = <<Nil>>
        /\ thread[t].below # m_uidRootNode
  /\ nodes' = IF Rebalances(t) /\ hasLHS(t)
                THEN [nodes EXCEPT ![ptrLHS(t)] =
                        mergeNodes(@, nodes[thread[t].below], onTop(t).keys[idx(t) - 1])]
                ELSE nodes
  /\ thread' = [thread EXCEPT ![t].vtNodes = << >>, ![t].vtLocks = << >>,
                              ![t].reply = "Throws", ![t].pc = "climb"]
  /\ UNCHANGED <<live, m_uidRootNode>>

Descend(t) ==
  \/ Lock(t) \/ PassIndexNode(t) \/ ChooseChild(t)
  \/ SearchDataNode(t) \/ InsertInDataNode(t) \/ RemoveFromDataNode(t)

Climb(t) ==
  \/ SplitDataNode(t) \/ InsertPivot(t) \/ GrowRoot(t)
  \/ SkipRound(t) \/ MoveFromLHS(t) \/ MoveFromRHS(t)
  \/ MergeIntoLHS(t) \/ MergeRHS(t) \/ LeaveRoot(t)

Step(t) == Descend(t) \/ Climb(t) \/ Return(t) \/ Throw(t)

Next ==
  \E t \in Thread :
    \/ \E k \in Key : \/ \E v \in Value : StartInsert(t, k, v)
                      \/ StartRemove(t, k)
                      \/ StartSearch(t, k)
    \/ Step(t)

Spec == Init /\ [][Next]_vars
=============================================================================
