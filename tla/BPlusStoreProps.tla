-------------------------- MODULE BPlusStoreProps --------------------------
(***************************************************************************)
(* What the B+-tree store guarantees: properties of module BPlusStore.     *)
(***************************************************************************)
EXTENDS BPlusStore

\* Every part of the state has its type; a data node has as many values as keys,
\* an index node one child more than it has pivots.
isNode(n) ==
  /\ DOMAIN n = {"leaf", "keys", "items"} /\ n.leaf \in BOOLEAN
  /\ n.keys \in Seq(Key)
  /\ IF n.leaf THEN n.items \in Seq(Value) /\ Len(n.items) = Len(n.keys)
               ELSE n.items \in Seq(ObjectUID) /\ Len(n.items) = Len(n.keys) + 1

UIDOrNil == ObjectUID \cup {Nil}

ThreadState ==
  [op : Operation \cup {None}, key : Key \cup {None}, value : Value \cup {None},
   pc : {"idle", "lock", "visit", "choose", "climb"},
   cur : UIDOrNil, last : UIDOrNil, vtNodes : Seq(UIDOrNil), vtLocks : Seq(UIDOrNil),
   pivot : Key \cup {None}, rhs : UIDOrNil, below : UIDOrNil,
   reply : Value \cup {Absent, None, "Success", "Throws"}]

TypeOK ==
  /\ DOMAIN nodes = ObjectUID /\ \A id \in ObjectUID : isNode(nodes[id])
  /\ live \subseteq ObjectUID
  /\ m_uidRootNode \in live
  /\ thread \in [Thread -> ThreadState]

-----------------------------------------------------------------------------
(* The promise *)

\* The entries of all data nodes, wherever a thread is about to move them.
dataNodesWith(k) == {id \in live : nodes[id].leaf /\ k \in ToSet(nodes[id].keys)}

valueOf(k) ==
  LET n == nodes[CHOOSE id \in dataNodesWith(k) : TRUE]
  IN n.items[lowerBound(n, k) + 1]

Contents == [k \in Key |-> IF dataNodesWith(k) = {} THEN Absent ELSE valueOf(k)]

Running == [t \in Thread |->
  IF thread[t].op = None THEN None
  ELSE [op |-> thread[t].op, key |-> thread[t].key, value |-> thread[t].value]]

Answers == [t \in Thread |-> thread[t].reply]

Promise == INSTANCE ConcurrentMap WITH map <- Contents, request <- Running, reply <- Answers

\* insert, search and remove act at one moment each, although they lock one node
\* after another: no split, move or merge on the way back changes what the store
\* contains, a search misses no key that another thread's operation moves, and a
\* removal throws only if the key is absent.
ImplementsMap == Promise!Spec

-----------------------------------------------------------------------------
(* The shape of the tree while no operation runs *)

quiescent == \A t \in Thread : thread[t].op = None

childrenOf(id) == IF nodes[id].leaf THEN {} ELSE ToSet(nodes[id].items)

subtree[id \in ObjectUID] == {id} \cup UNION {subtree[c] : c \in childrenOf(id)}

keysIn(id) == UNION {ToSet(nodes[j].keys) : j \in subtree[id]}

\* Child i of n may hold the keys k with pivot i - 1 <= k < pivot i.
belongs(n, i, k) ==
  (i > 1 => n.keys[i - 1] <= k) /\ (i <= getKeysCount(n) => k < n.keys[i])

\* Keys are in order, and pivots separate all that lies below them: the next
\* operation finds a key where the last split or rebalancing left it.
KeysRouted ==
  \A id \in subtree[m_uidRootNode] :
    LET n == nodes[id] IN
    /\ \A i \in 2 .. getKeysCount(n) : n.keys[i - 1] < n.keys[i]
    /\ ~n.leaf => \A i \in DOMAIN n.items : \A k \in keysIn(n.items[i]) : belongs(n, i, k)

\* Merging fills a node beyond its degree by no more than one pair of halves,
\* and no node but the root is left empty, so that it always has a sibling.
NodesFilled ==
  \A id \in subtree[m_uidRootNode] :
    LET n == nodes[id]
        most == IF n.leaf THEN 2 * Half ELSE 2 * Half + 1
    IN /\ getKeysCount(n) <= most
       /\ getKeysCount(n) = 0 => id = m_uidRootNode /\ n.leaf

\* What the next operation relies on: each key is where its pivots say, and every
\* node that has to be rebalanced has a sibling to do it with.
ShapeKept == quiescent => KeysRouted /\ NodesFilled

\* The cache knows exactly the nodes of the tree: a merge removes the node it
\* emptied, and a root that was replaced is removed too.
LiveExact == quiescent => live = subtree[m_uidRootNode]

-----------------------------------------------------------------------------
(* Locks *)

\* A thread has the locks of all nodes it still has to change, that of the root's
\* identifier included, whatever it released on the way down.
PathLocked ==
  \A t \in Thread : thread[t].pc = "climb" => ToSet(thread[t].vtNodes) \subseteq locks(t)

\* No round of a removal touches a sibling node that another thread points to and
\* may still read or write: the lock it does not take is not needed.
SiblingsPrivate ==
  \A t \in Thread : Rebalances(t) =>
    \A u \in Thread \ {t} : siblings(t) \cap pointers(u) = {}

-----------------------------------------------------------------------------
(* What the code asserts, and mixed operations violate *)

\* BPlusStore.hpp:495: removing a key that is in the store "should not occur!" to
\* fail.  (For workloads that insert no key while it is being removed.)
ThrowsOnlyIfAbsent ==
  \A t \in Thread : thread[t].reply = "Throws" => Contents[thread[t].key] = Absent
=============================================================================
