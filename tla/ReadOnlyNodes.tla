---------------------------- MODULE ReadOnlyNodes ----------------------------
(***************************************************************************)
(* NVMRODataNode and NVMROIndexNode: nodes of the B+-tree store that were  *)
(* read from persistent memory and stay as they were read until they are   *)
(* changed.  A node has a copy in DRAM, which is changed, or a read-only   *)
(* copy, which readers prefer.  Callers hold some nodes, use them as they  *)
(* use plain ones, and pass siblings that are next to each other.          *)
(***************************************************************************)
EXTENDS StoreNodes

CONSTANTS
  Holder,
  NodeKey, Item,       \* keys; values and children
  StoredNode,          \* nodes that a storage may have
  NoNode               \* nullptr

ASSUME KeyAssumption == NodeKey # {}

VARIABLES
  dram,      \* m_ptrDRAMDataNode, m_ptrDRAMIndexNode of each holder's node
  nvm        \* m_ptrNVMDataNode, m_ptrNVMIndexNode

nodeVars == <<dram, nvm>>

-----------------------------------------------------------------------------

\* What the getters, the splitting and merging tests and serialize go by.
content(s) == IF nvm[s] # NoNode THEN nvm[s] ELSE dram[s]

nobody(s) == dram[s] = NoNode /\ nvm[s] = NoNode
has(s, leaf) == ~nobody(s) /\ content(s).leaf = leaf

\* moveDataToDRAM: the two copies after it.
dramCopy(s) == IF dram[s] = NoNode THEN nvm[s] ELSE dram[s]
nvmCopy_Kept(s) == nvm[s]                                        \* mutant
nvmCopy(s) == IF dram[s] = NoNode THEN NoNode ELSE nvm[s]

\* The copy in DRAM becomes n.
mutates(s, n) ==
  /\ dram' = [dram EXCEPT ![s] = n]
  /\ nvm' = [nvm EXCEPT ![s] = nvmCopy(s)]
mutatesTwo(s, n, t, m) ==
  /\ dram' = [dram EXCEPT ![s] = n, ![t] = m]
  /\ nvm' = [nvm EXCEPT ![s] = nvmCopy(s), ![t] = nvmCopy(t)]

\* What was written comes back, read-only.
restores(s) ==
  /\ nvm' = [nvm EXCEPT ![s] = content(s)]
  /\ dram' = [dram EXCEPT ![s] = NoNode]

isBefore(n, m) == \A i \in DOMAIN n.keys, j \in DOMAIN m.keys : n.keys[i] < m.keys[j]
isBetween(n, pivot, m) == isBefore(n, [keys |-> <<pivot>>]) /\ isBefore([keys |-> <<pivot>>], m)
mayLose(t) == getKeysCount(dramCopy(t)) > 1                      \* else it throws

-----------------------------------------------------------------------------
(* NVMRODataNode *)

Data_New(s) ==
  /\ nobody(s)
  /\ dram' = [dram EXCEPT ![s] = DataNode(<< >>, << >>)]
  /\ UNCHANGED nvm

Data_Read(s, n) ==
  /\ nobody(s) /\ n.leaf
  /\ nvm' = [nvm EXCEPT ![s] = n]
  /\ UNCHANGED dram

\* Callers insert keys that are absent.
Data_Insert(s, k, x) ==
  /\ has(s, TRUE)
  /\ ~holds(content(s), k)
  /\ getKeysCount(content(s)) <= Degree                          \* bound
  /\ mutates(s, withEntry(dramCopy(s), k, x))

\* A key that is not there is not removed; the node moves all the same.
Data_Remove(s, k) ==
  /\ has(s, TRUE)
  /\ mutates(s, IF holds(dramCopy(s), k) THEN withoutEntry(dramCopy(s), k) ELSE dramCopy(s))

\* The sibling is made first, and has a copy in DRAM.
Data_Split(s, t) ==
  /\ has(s, TRUE) /\ nobody(t)
  /\ requireSplit(content(s))
  /\ mutatesTwo(s, splitLeft(dramCopy(s)), t, splitRight(dramCopy(s)))

Data_MoveFromLHS(s, t) ==
  /\ has(s, TRUE) /\ has(t, TRUE) /\ s # t
  /\ isBefore(content(t), content(s)) /\ mayLose(t)
  /\ mutatesTwo(s, gainFirst(dramCopy(s), dramCopy(t), 0), t, loseLast(dramCopy(t)))

Data_MoveFromRHS(s, t) ==
  /\ has(s, TRUE) /\ has(t, TRUE) /\ s # t
  /\ isBefore(content(s), content(t)) /\ mayLose(t)
  /\ mutatesTwo(s, gainLast(dramCopy(s), dramCopy(t), 0), t, loseFirst(dramCopy(t)))

Data_Merge(s, t) ==
  /\ has(s, TRUE) /\ has(t, TRUE) /\ s # t
  /\ isBefore(content(s), content(t))
  /\ getKeysCount(content(s)) + getKeysCount(content(t)) <= Degree + 1      \* bound
  /\ mutatesTwo(s, mergeNodes(dramCopy(s), dramCopy(t), 0), t, dramCopy(t))

\* The node is written to the storage (getSize, serialize, writeToStream), leaves the
\* cache, and is read again.
Data_Restore(s) == has(s, TRUE) /\ restores(s)

-----------------------------------------------------------------------------
(* NVMROIndexNode *)

\* The constructor of a new root.
Index_New(s, pivot, lhs, rhs) ==
  /\ nobody(s)
  /\ dram' = [dram EXCEPT ![s] = IndexNode(<<pivot>>, <<lhs, rhs>>)]
  /\ UNCHANGED nvm

Index_Read(s, n) ==
  /\ nobody(s) /\ ~n.leaf
  /\ nvm' = [nvm EXCEPT ![s] = n]
  /\ UNCHANGED dram

Index_Insert(s, pivot, uid) ==
  /\ has(s, FALSE)
  /\ ~holds(content(s), pivot)
  /\ getKeysCount(content(s)) <= Degree                          \* bound
  /\ mutates(s, withPivot(dramCopy(s), pivot, uid))

\* An identifier that is not there "should not occur!".
Index_UpdateChildUID(s, old, new) ==
  /\ has(s, FALSE)
  /\ LET places == {i \in DOMAIN dramCopy(s).items : dramCopy(s).items[i] = old}
     IN /\ places # {}
        /\ mutates(s, [dramCopy(s) EXCEPT !.items[Min(places)] = new])

\* The iterators over the children, through which they may be written.
Index_Children(s) ==
  /\ has(s, FALSE)
  /\ mutates(s, dramCopy(s))

Index_Split(s, t) ==
  /\ has(s, FALSE) /\ nobody(t)
  /\ requireSplit(content(s))
  /\ mutatesTwo(s, splitLeft(dramCopy(s)), t, splitRight(dramCopy(s)))

Index_MoveFromLHS(s, t, pivot) ==
  /\ has(s, FALSE) /\ has(t, FALSE) /\ s # t
  /\ isBetween(content(t), pivot, content(s)) /\ mayLose(t)
  /\ mutatesTwo(s, gainFirst(dramCopy(s), dramCopy(t), pivot), t, loseLast(dramCopy(t)))

Index_MoveFromRHS(s, t, pivot) ==
  /\ has(s, FALSE) /\ has(t, FALSE) /\ s # t
  /\ isBetween(content(s), pivot, content(t)) /\ mayLose(t)
  /\ mutatesTwo(s, gainLast(dramCopy(s), dramCopy(t), pivot), t, loseFirst(dramCopy(t)))

Index_Merge(s, t, pivot) ==
  /\ has(s, FALSE) /\ has(t, FALSE) /\ s # t
  /\ isBetween(content(s), pivot, content(t))
  /\ getKeysCount(content(s)) + getKeysCount(content(t)) <= Degree          \* bound
  /\ mutatesTwo(s, mergeNodes(dramCopy(s), dramCopy(t), pivot), t, dramCopy(t))

Index_Restore(s) == has(s, FALSE) /\ restores(s)

-----------------------------------------------------------------------------

LetGo(s) ==
  /\ ~nobody(s)
  /\ dram' = [dram EXCEPT ![s] = NoNode] /\ nvm' = [nvm EXCEPT ![s] = NoNode]

NodesInit ==
  /\ dram = [s \in Holder |-> NoNode]
  /\ nvm = [s \in Holder |-> NoNode]

NodesNext ==
  \/ \E s \in Holder :
       \/ Data_New(s) \/ Data_Restore(s) \/ Index_Children(s) \/ Index_Restore(s) \/ LetGo(s)
       \/ \E n \in StoredNode : Data_Read(s, n) \/ Index_Read(s, n)
       \/ \E k \in NodeKey, x \in Item :
            \/ Data_Insert(s, k, x) \/ Index_Insert(s, k, x)
            \/ \E y \in Item : Index_New(s, k, x, y) \/ Index_UpdateChildUID(s, x, y)
       \/ \E k \in NodeKey : Data_Remove(s, k)
  \/ \E s, t \in Holder :
       \/ Data_Split(s, t) \/ Data_MoveFromLHS(s, t) \/ Data_MoveFromRHS(s, t) \/ Data_Merge(s, t)
       \/ Index_Split(s, t)
       \/ \E pivot \in NodeKey :
            Index_MoveFromLHS(s, t, pivot) \/ Index_MoveFromRHS(s, t, pivot) \/ Index_Merge(s, t, pivot)

NodesSpec == NodesInit /\ [][NodesNext]_nodeVars

-----------------------------------------------------------------------------

Plain == INSTANCE PlainNodes WITH nodes <- [s \in Holder |-> content(s)]

(***************************************************************************)
(* A read-only node is as good as a plain one: where its data are makes no *)
(* difference to what any reader sees, before or after any operation on it *)
(* or on a sibling, when it was stored and read again in between, and      *)
(* whichever of two nodes was read and which is new.                       *)
(***************************************************************************)
ImplementsPlainNodes == Plain!Spec
=============================================================================
