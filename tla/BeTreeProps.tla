---------------------------- MODULE BeTreeProps ----------------------------
(***************************************************************************)
(* What the B-epsilon-tree guarantees: properties of module BeTree.        *)
(***************************************************************************)
EXTENDS BeTree

\* Every part of the state has its type; a leaf always has as many values as
\* keys, an internal node one child more than it has pivots.
TypeOK ==
  /\ isHeap(nodes)
  /\ allocated \subseteq NodeId
  /\ rootNode \in NodeId \cup {Nil}
  /\ request \in [key : Key, msg : Message] \cup {None}
  /\ pc \in {"idle", "apply", "flush", "return"}
  /\ call \in [node : NodeId \cup {Nil}, key : KeyType, msg : Message, idx : Nat]
  /\ stack \in Seq(Frame)
  /\ change \in ChildChange
  /\ err \in ErrorCode
  /\ DOMAIN dict = Key
  /\ orphans \subseteq NodeId

-----------------------------------------------------------------------------
(* The promise *)

Promise == INSTANCE Dictionary

\* After insert(k, v) returns search(k) finds v, after remove(k) it finds
\* nothing, and no call changes what search finds for any other key, however
\* the messages travelled, and whatever split or merged on their way.
ImplementsDictionary == Promise!Spec

\* insert and remove return: flushing a buffer into a child, which may flush
\* its own, ends.
CallsReturn == pc = "apply" ~> pc = "idle"

-----------------------------------------------------------------------------
(* The shape of the tree between two calls *)

childrenOf(id) == ToSet(nodes[id].children)

subtree[id \in NodeId] == {id} \cup UNION {subtree[c] : c \in childrenOf(id)}
Reachable == IF rootNode = Nil THEN {} ELSE subtree[rootNode]

\* Every key that occurs in a subtree: entries, pivots and buffered messages.
keysIn(id) == UNION {ToSet(nodes[j].keys) \cup DOMAIN nodes[j].buffer : j \in subtree[id]}

\* Child i of n may hold the keys k with pivot i - 1 <= k < pivot i.
belongs(n, i, k) == (i > 1 => n.keys[i - 1] <= k) /\ (i <= size(n) => k < n.keys[i])

\* The pivots of each node separate all that lies below it, so that search and
\* flush look for a key where the last split, merge or redistribution put it.
KeysRouted ==
  pc = "idle" => \A id \in Reachable :
    LET n == nodes[id] IN
    /\ \A i \in 2 .. size(n) : n.keys[i - 1] < n.keys[i]
    /\ \A i \in DOMAIN n.children : \A k \in keysIn(n.children[i]) : belongs(n, i, k)

\* lowestSearchKey of a node that has a left neighbour never exceeds a key of the
\* subtree, nor leaves the interval of the node's parent: redistribute makes it a
\* pivot. (At the left edge of the tree it may be too high: an heir takes over the
\* messages of a collapsing root, but not their keys, BeTree.hpp:175.)
LowestKeyIsSeparator ==
  pc = "idle" => \A id \in Reachable :
    LET n == nodes[id] IN
    /\ n.left # Nil => \A k \in keysIn(id) : n.lowest <= k
    /\ \A i \in DOMAIN n.children :
         nodes[n.children[i]].left # Nil => belongs(n, i, nodes[n.children[i]].lowest)

\* leftSibling and rightSibling link the nodes of one level in key order, across
\* parents too, and all leaves are on one level: a node that underflows takes its
\* neighbour for one of its own kind. It is said level by level: the root stands
\* alone, and where the nodes of a level are linked, so are their children.
SiblingsChained ==
  /\ nodes[rootNode].left = Nil /\ nodes[rootNode].right = Nil
  /\ \A id \in Reachable :
       LET n == nodes[id]
           c == n.children
       IN
       /\ \A i \in DOMAIN c :
            /\ nodes[c[i]].left = IF i > 1 THEN c[i - 1]
                                  ELSE IF n.left = Nil THEN Nil ELSE Last(nodes[n.left].children)
            /\ nodes[c[i]].right = IF i < Len(c) THEN c[i + 1]
                                   ELSE IF n.right = Nil THEN Nil ELSE Head(nodes[n.right].children)
       /\ \A q \in {n.left, n.right} \ {Nil} : nodes[q].leaf <=> n.leaf

\* A node's parent field names the node it is a child of: the test "same parent"
\* decides whether a sibling may be merged with.
ParentsAgree ==
  /\ isRoot(nodes[rootNode])
  /\ \A id \in Reachable : \A c \in childrenOf(id) : nodes[c].parent = id

\* The links between nodes that splits, merges and redistributions patch one by one
\* (BeTreeInternalNode.hpp:287, :425) agree with the tree that the children span.
LinksAgree == pc = "idle" /\ rootNode # Nil => SiblingsChained /\ ParentsAgree

\* A merge frees exactly the node it empties: what the tree reaches stays
\* allocated, and beside the abandoned roots nothing else does.
AllocationExact == pc = "idle" => allocated = Reachable \cup orphans

\* No node outgrows its fanout, and only the root, or the one leaf below a root
\* without pivots, has fewer keys than an underflow tolerates.
NodesFilled ==
  pc = "idle" => \A id \in Reachable :
    LET n == nodes[id] IN
    /\ size(n) < Fanout
    /\ \/ size(n) >= (Fanout - 1) \div 2
       \/ isRoot(n)
       \/ n.leaf /\ size(nodes[n.parent]) = 0

-----------------------------------------------------------------------------
(* While a call runs *)

\* A flush goes on only as long as its child index stays right: the messages still
\* to be passed are in the buffer and belong to the child being called. A node that
\* underflows finds its index again with lowestSearchKey, even at the left edge: the
\* message that came through it was lower than the next pivot.
FlushesCurrent ==
  /\ \A j \in DOMAIN stack :
       LET f == stack[j]
           n == nodes[f.node]
       IN pc = "apply" \/ f.batch # {} =>
            /\ f.node \in allocated /\ f.child \in allocated
            /\ f.idx + 1 \in DOMAIN n.children /\ n.children[f.idx + 1] = f.child
            /\ f.batch \subseteq messagesFor(n, f.idx)
  /\ pc = "flush" /\ Underflowed =>
       nodes[flusher.parent].children[indexInParent(flusher) + 1] = frame.node

\* A child that was restructured never reports Success: the flush stops there.
RestructuringStopsFlush == pc = "return" /\ change.type # "None" => err # "Success"

\* handleUnderflow of an internal node never runs off its end, where it has no
\* return statement: there is a sibling under the same parent.
UnderflowHasSibling == pc = "flush" /\ Underflowed => mate(frame.node) # Nil

-----------------------------------------------------------------------------
(* What comments of the code say, and the code does not do *)

\* BeTree.hpp:172: "add message buffer of current rootNode to the newRoot
\* because the old root is being deleted".
OldRootDeleted == orphans = {}

\* BeTreeInternalNode.hpp:72: "When serializing we for now write the maximum
\* amount of keys and values we can have": the block of a node reserves
\* maxBufferSize messages.
BufferFitsBlock ==
  pc = "idle" => \A id \in Reachable : Cardinality(DOMAIN nodes[id].buffer) <= BufferCap
=============================================================================
