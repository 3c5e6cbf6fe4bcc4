------------------------------- MODULE BeTree -------------------------------
(***************************************************************************)
(* The B-epsilon-tree of libbtree (BeTree.hpp, BeTreeNode.hpp,             *)
(* BeTreeInternalNode.hpp, BeTreeLeafNode.hpp).                            *)
(*                                                                         *)
(* Every internal node buffers messages (pending inserts and removes); a   *)
(* full buffer is flushed into the child that has most of them, and a      *)
(* child that splits, redistributes or merges reports that to its parent   *)
(* through a ChildChange.  The recursion applyMessage -> flushBuffer ->    *)
(* applyMessage is modelled as a machine with an explicit stack of flushes *)
(* in progress, so that each step of the code is a step of the model.      *)
(*                                                                         *)
(* Node identifiers stand for the block numbers the storage hands out; the *)
(* tree relies on them only being fresh.  The cache is transparent here.   *)
(***************************************************************************)
EXTENDS Integers, Sequences, FiniteSets, SequencesExt

CONSTANTS
  Key,             \* the keys, integers: the tree compares them
  Value,
  Absent,          \* a Remove message; what search finds for a missing key
  None,            \* no call is running
  Insertable,      \* the pairs <<key, value>> that callers insert
  Fanout,          \* most children of an internal node
  MaxBufferSize,   \* messages a buffer may hold; 0 asks for Fanout - 1
  NodeId,          \* the identifiers the storage can hand out
  SpareNodes       \* bound: a call starts only with so many identifiers free

ASSUME KeyAssumption   == Key \subseteq Int
ASSUME ValueAssumption == Absent \notin Value /\ Insertable \subseteq Key \X Value
ASSUME SizeAssumption  == Fanout \in Nat /\ Fanout >= 2 /\ MaxBufferSize \in Nat
ASSUME IdAssumption    == NodeId \subseteq Nat \ {0} /\ SpareNodes \in Nat
ASSUME NoneAssumption  == None \notin [key : Key, msg : Value \cup {Absent}]

VARIABLES
  nodes,       \* the node stored under each identifier
  allocated,   \* the identifiers in use
  rootNode,    \* the root's identifier; Nil for the empty tree
  request,     \* the running insert or remove, or None
  pc,          \* where the running call is
  call,        \* the applyMessage being entered: node, message, indexInParent
  stack,       \* the flushBuffer invocations in progress, innermost last
  change,      \* the ChildChange passed by reference to the current callee
  err,         \* the ErrorCode of the last callee
  dict,        \* history: what search answered when the last call returned
  orphans      \* history: roots that the tree abandoned without deleting them

heap == <<nodes, allocated>>
history == <<dict, orphans>>
vars == <<nodes, allocated, rootNode, request, pc, call, stack, change, err,
          dict, orphans>>

-----------------------------------------------------------------------------
(* Data *)

Nil == 0      \* "no node": parent, siblings and rootNode
NoKey == 0    \* KeyType(): the lowest key of a node that never had one

KeyType == Key \cup {NoKey}

BufferCap == IF MaxBufferSize = 0 THEN Fanout - 1 ELSE MaxBufferSize

Message == Value \cup {Absent}

ErrorCode == {"Success", "Error", "FinishedMessagePassing"}

ChangeType == {"None", "Split", "RedistributeLeft", "RedistributeRight",
               "MergeLeft", "MergeRight"}

ChildChange ==
  {c \in [key : KeyType, node : NodeId \cup {Nil}, type : ChangeType] :
     c.type \in {"Split", "MergeLeft", "MergeRight"} => c.node # Nil}

NoChange == [key |-> NoKey, node |-> Nil, type |-> "None"]

isBuffer(b) == DOMAIN b \subseteq Key /\ \A k \in DOMAIN b : b[k] \in Message

\* A node: a leaf has a value for each key, an internal node a child more than
\* it has keys (pivots), and a buffer.
isNode(n) ==
  /\ DOMAIN n = {"leaf", "keys", "values", "children", "buffer",
                 "lowest", "parent", "left", "right"}
  /\ n.leaf \in BOOLEAN
  /\ n.keys \in Seq(KeyType) /\ n.values \in Seq(Value) /\ n.children \in Seq(NodeId)
  /\ n.leaf => n.keys \in Seq(Key) /\ Len(n.values) = Len(n.keys)
  /\ ~n.leaf => Len(n.children) = Len(n.keys) + 1
  /\ isBuffer(n.buffer)
  /\ n.lowest \in KeyType
  /\ {n.parent, n.left, n.right} \subseteq NodeId \cup {Nil}

isHeap(h) == DOMAIN h = NodeId /\ \A id \in NodeId : isNode(h[id])

NewLeaf == [leaf |-> TRUE, keys |-> << >>, values |-> << >>, children |-> << >>,
            buffer |-> << >>, lowest |-> NoKey, parent |-> Nil, left |-> Nil, right |-> Nil]

Frame == [node : NodeId, child : NodeId, idx : Nat, batch : SUBSET Key, out : ChildChange]

NoCall == [node |-> Nil, key |-> NoKey, msg |-> Absent, idx |-> 0]

size(n) == Len(n.keys)
isRoot(n) == n.parent = Nil
isUnderflowing(n) == size(n) < (Fanout - 1) \div 2
isBorrowable(n) == size(n) > Fanout \div 2
isOverflowing_Late(n) == size(n) > Fanout     \* mutant
isOverflowing(n) == size(n) >= Fanout
isFlushable(buffer) == Cardinality(DOMAIN buffer) >= BufferCap

\* std::lower_bound and std::upper_bound, as numbers of keys passed over.
lowerBound(keys, k) == Cardinality({i \in DOMAIN keys : keys[i] < k})
upperBound(keys, k) == Cardinality({i \in DOMAIN keys : keys[i] <= k})

holds(n, k) == lowerBound(n.keys, k) < upperBound(n.keys, k)

take(s, i) == SubSeq(s, 1, i)
drop(s, i) == SubSeq(s, i + 1, Len(s))
below(buffer, k) == Restrict(buffer, {j \in DOMAIN buffer : j < k})
from(buffer, k) == Restrict(buffer, {j \in DOMAIN buffer : j >= k})

\* Of two buffers, the messages of the newer one win.
overlay_Stale(newer, older) ==                \* mutant
  [k \in DOMAIN newer \cup DOMAIN older |->
     IF k \in DOMAIN older THEN older[k] ELSE newer[k]]
overlay(newer, older) ==
  [k \in DOMAIN newer \cup DOMAIN older |->
     IF k \in DOMAIN newer THEN newer[k] ELSE older[k]]

isLeast(k, S) == k \in S /\ \A j \in S : k <= j

\* The identifier the allocator returns: the lowest free one.
isFresh(id) == isLeast(id, NodeId \ allocated)

reparent_Not(h, S, p) == h                    \* mutant
reparent(h, S, p) == [i \in DOMAIN h |-> IF i \in S THEN [h[i] EXCEPT !.parent = p] ELSE h[i]]
linkBack_Not(h, id, l) == h                   \* mutant
linkBack(h, id, l) == IF id = Nil THEN h ELSE [h EXCEPT ![id].left = l]

-----------------------------------------------------------------------------
(* search: the buffers on the way down are newer than what lies below them *)

search(k) ==
  LET descend[id \in NodeId] ==
        LET n == nodes[id] IN
        IF n.leaf
          THEN IF holds(n, k) THEN n.values[lowerBound(n.keys, k) + 1] ELSE Absent
          ELSE IF k \in DOMAIN n.buffer
                 THEN n.buffer[k]
                 ELSE descend[n.children[upperBound(n.keys, k) + 1]]
  IN IF rootNode = Nil THEN Absent ELSE descend[rootNode]

Contents == [k \in Key |-> search(k)]

-----------------------------------------------------------------------------
(* The calls *)

Init ==
  /\ nodes = [id \in NodeId |-> NewLeaf]
  /\ allocated = {}
  /\ rootNode = Nil
  /\ request = None
  /\ pc = "idle"
  /\ call = NoCall
  /\ stack = << >>
  /\ change = NoChange
  /\ err = "Success"
  /\ dict = [k \in Key |-> Absent]
  /\ orphans = {}

\* Bound: enough free identifiers for the nodes one call can create.
Room == Cardinality(NodeId \ allocated) >= SpareNodes

\* BeTree::applyMessage up to the call on the root.
Enter(k, m) ==
  /\ request' = [key |-> k, msg |-> m]
  /\ call' = [node |-> rootNode', key |-> k, msg |-> m, idx |-> 0]
  /\ pc' = "apply"
  /\ change' = NoChange
  /\ UNCHANGED <<stack, err, history>>

\* The first insert creates a leaf and makes it the root.
StartInsertEmpty(k, v) ==
  /\ pc = "idle" /\ Room
  /\ rootNode = Nil
  /\ \E id \in NodeId :
       /\ isFresh(id)
       /\ allocated' = allocated \cup {id}
       /\ nodes' = [nodes EXCEPT ![id] = NewLeaf]
       /\ rootNode' = id
  /\ Enter(k, v)

StartInsert(k, v) ==
  /\ pc = "idle" /\ Room
  /\ rootNode # Nil
  /\ UNCHANGED <<heap, rootNode>>
  /\ Enter(k, v)

\* On the empty tree remove only answers KeyDoesNotExist.
StartRemove(k) ==
  /\ pc = "idle" /\ Room
  /\ rootNode # Nil
  /\ UNCHANGED <<heap, rootNode>>
  /\ Enter(k, Absent)

Search(k) ==
  /\ pc = "idle"
  /\ search(k) \in Message
  /\ UNCHANGED vars

\* A callee hands e and the ChildChange c to its caller.
Give(e, c) ==
  /\ pc' = "return"
  /\ err' = e
  /\ change' = c
  /\ call' = NoCall
  /\ UNCHANGED <<rootNode, request, history>>

-----------------------------------------------------------------------------
(* BeTreeInternalNode::applyMessage and flushBuffer *)

target == nodes[call.node]

\* The newest message for a key replaces the one in the buffer.
arriving == [k \in {call.key} |-> call.msg]
buffered(n) == [n EXCEPT !.lowest = IF call.key < @ THEN call.key ELSE @,
                         !.buffer = overlay(arriving, @)]

BufferMessage ==
  /\ pc = "apply" /\ ~target.leaf
  /\ ~isFlushable(buffered(target).buffer)
  /\ nodes' = [nodes EXCEPT ![call.node] = buffered(target)]
  /\ Give("Success", change)
  /\ UNCHANGED <<allocated, stack>>

messagesFor(n, i) == {k \in DOMAIN n.buffer : upperBound(n.keys, k) = i}

\* The first child with the most messages.
isFullest(n, i) ==
  LET load(j) == Cardinality(messagesFor(n, j)) IN
  \A j \in 0 .. size(n) : load(j) < load(i) \/ (load(j) = load(i) /\ i <= j)

StartFlush ==
  /\ pc = "apply" /\ ~target.leaf
  /\ LET n == buffered(target) IN
       /\ isFlushable(n.buffer)
       /\ nodes' = [nodes EXCEPT ![call.node] = n]
       /\ \E i \in 0 .. size(n) :
            /\ isFullest(n, i)
            /\ stack' = Append(stack, [node |-> call.node, child |-> n.children[i + 1], idx |-> i,
                                       batch |-> messagesFor(n, i), out |-> change])
  /\ pc' = "flush"
  /\ change' = NoChange
  /\ err' = "Success"
  /\ call' = NoCall
  /\ UNCHANGED <<allocated, rootNode, request, history>>

frame == Last(stack)
flusher == nodes[frame.node]

pass(k) == call' = [node |-> frame.child, key |-> k, msg |-> flusher.buffer[k], idx |-> frame.idx]

\* Mutant: the loop does not advance past the message.
PassMessage_Again ==
  /\ pc = "flush" /\ frame.batch # {}
  /\ \E k \in frame.batch : isLeast(k, frame.batch) /\ pass(k)
  /\ pc' = "apply"
  /\ UNCHANGED <<heap, rootNode, request, stack, change, err, history>>

\* The message leaves the buffer when the child is called with it.  The batch is a
\* range of the buffer: what has left the buffer cannot be passed again.
PassMessage ==
  /\ pc = "flush" /\ frame.batch # {}
  /\ \E k \in frame.batch :
       /\ isLeast(k, frame.batch) /\ k \in DOMAIN flusher.buffer
       /\ pass(k)
       /\ nodes' = [nodes EXCEPT ![frame.node].buffer = Restrict(@, DOMAIN @ \ {k})]
       /\ stack' = [stack EXCEPT ![Len(stack)].batch = @ \ {k}]
  /\ pc' = "apply"
  /\ UNCHANGED <<allocated, rootNode, request, change, err, history>>

\* Mutant: the pivot between two redistributed children stays.
adjusted_OldPivot(n, i, c) ==
  CASE c.type = "Split" ->
         [n EXCEPT !.keys = InsertAt(@, i + 1, c.key), !.children = InsertAt(@, i + 2, c.node)]
    [] c.type = "MergeLeft" ->
         [n EXCEPT !.keys = RemoveAt(@, i), !.children = RemoveAt(@, i + 1)]
    [] c.type = "MergeRight" ->
         [n EXCEPT !.keys = RemoveAt(@, i + 1), !.children = RemoveAt(@, i + 2)]
    [] OTHER -> n

\* What a flushing node n does about the change c of its child at index i.
adjusted(n, i, c) ==
  CASE c.type = "Split" ->
         [n EXCEPT !.keys = InsertAt(@, i + 1, c.key), !.children = InsertAt(@, i + 2, c.node)]
    [] c.type = "RedistributeLeft"  -> [n EXCEPT !.keys[i] = c.key]
    [] c.type = "RedistributeRight" -> [n EXCEPT !.keys[i + 1] = c.key]
    [] c.type = "MergeLeft" ->
         [n EXCEPT !.keys = RemoveAt(@, i), !.children = RemoveAt(@, i + 1)]
    [] c.type = "MergeRight" ->
         [n EXCEPT !.keys = RemoveAt(@, i + 1), !.children = RemoveAt(@, i + 2)]
    [] OTHER -> n

\* Only an internal node flushes.  The positions that adjusted touches are
\* positions of its vectors; outside them the code is undefined and the model
\* has no step.
inRange(n, i, c) ==
  /\ ~n.leaf
  /\ c.type = "Split" => i <= size(n)
  /\ c.type \in {"RedistributeLeft", "MergeLeft"} => i \in DOMAIN n.keys
  /\ c.type \in {"RedistributeRight", "MergeRight"} => i + 1 \in DOMAIN n.keys

\* The node that the merge c has emptied.
gone_OnlyLeft(c) == IF c.type = "MergeLeft" THEN {c.node} ELSE {}   \* mutant
gone(c) == IF c.type \in {"MergeLeft", "MergeRight"} THEN {c.node} ELSE {}

\* After a restructuring, or an error, the rest of the batch stays buffered.
remaining_All(batch) == batch                                       \* mutant
remaining(batch) == IF err = "Success" THEN batch ELSE {}

ChildReturns ==
  /\ pc = "return" /\ stack # << >>
  /\ inRange(flusher, frame.idx, change)
  /\ nodes' = [id \in NodeId |-> IF id \in gone(change) THEN NewLeaf
                                 ELSE IF id = frame.node
                                   THEN adjusted(flusher, frame.idx, change)
                                   ELSE nodes[id]]
  /\ allocated' = allocated \ gone(change)
  /\ stack' = [stack EXCEPT ![Len(stack)].batch = remaining(@)]
  /\ pc' = "flush"
  /\ UNCHANGED <<rootNode, request, call, change, err, history>>

FlushDone == pc = "flush" /\ frame.batch = {} /\ ~flusher.leaf

SplitInternal ==
  /\ FlushDone /\ isOverflowing(flusher)
  /\ \E id \in NodeId :
       /\ isFresh(id)
       /\ LET n == flusher
              mid == size(n) \div 2
              pivot == n.keys[mid + 1]
              moved == drop(n.children, mid + 1)
              right(low) == [n EXCEPT !.keys = drop(@, mid + 1), !.children = moved,
                                      !.buffer = from(@, pivot), !.left = frame.node,
                                      !.lowest = low]
              left == [n EXCEPT !.keys = take(@, mid), !.children = take(@, mid + 1),
                                !.buffer = below(@, pivot), !.right = id]
              lows == {nodes[moved[1]].lowest} \cup DOMAIN from(n.buffer, pivot)
          IN /\ \E low \in lows :
                  /\ isLeast(low, lows)
                  /\ nodes' = reparent(linkBack([nodes EXCEPT ![frame.node] = left,
                                                             ![id] = right(low)],
                                               n.right, id),
                                      ToSet(moved), id)
             /\ Give(err, [key |-> pivot, node |-> id, type |-> "Split"])
       /\ allocated' = allocated \cup {id}
  /\ stack' = Front(stack)

-----------------------------------------------------------------------------
(* handleUnderflow, redistribute and merge, of both kinds of node *)

isMate(id, sib) == sib # Nil /\ nodes[sib].parent = nodes[id].parent

\* The sibling under the same parent that is asked first; Nil if there is none.
mate_OnlyRight(id) == IF isMate(id, nodes[id].right) THEN nodes[id].right ELSE Nil   \* mutant
mate(id) ==
  IF isMate(id, nodes[id].left) THEN nodes[id].left
  ELSE IF isMate(id, nodes[id].right) THEN nodes[id].right
  ELSE Nil

\* The sibling is cast to the node's own kind; were it of the other kind the code
\* would be undefined, and the model has no step.
matched(id) == mate(id) # Nil /\ nodes[mate(id)].leaf = nodes[id].leaf

asksLeft(id) == mate(id) = nodes[id].left

borrowsLeft(id)  == matched(id) /\ asksLeft(id) /\ isBorrowable(nodes[mate(id)])
borrowsRight(id) == matched(id) /\ ~asksLeft(id) /\ isBorrowable(nodes[mate(id)])
mergesLeft(id)   == matched(id) /\ asksLeft(id) /\ ~isBorrowable(nodes[mate(id)])
mergesRight(id)  == matched(id) /\ ~asksLeft(id) /\ ~isBorrowable(nodes[mate(id)])

excess(n, s) == (size(s) - size(n)) \div 2

\* Node r moves into its left neighbour l; internal nodes put a pivot between.
merged(h, l, r, seam) ==
  LET joined == [h[l] EXCEPT !.keys = @ \o seam \o h[r].keys,
                             !.values = @ \o h[r].values,
                             !.children = @ \o h[r].children,
                             !.buffer = overlay(h[r].buffer, @),
                             !.right = h[r].right]
  IN reparent(linkBack([h EXCEPT ![l] = joined], h[r].right, l), ToSet(joined.children), l)

\* indexInParent of an internal node, found again from its lowest search key.
indexInParent(n) == upperBound(nodes[n.parent].keys, n.lowest)

Underflowed == FlushDone /\ isUnderflowing(flusher) /\ ~isRoot(flusher)

RedistributeInternalLeft ==
  /\ Underflowed /\ borrowsLeft(frame.node)
  /\ LET n == flusher
         s == nodes[n.left]
         d == excess(n, s)
         moved == drop(s.children, Len(s.children) - d)
         low == nodes[moved[1]].lowest
         taker == [n EXCEPT !.keys = drop(s.keys, size(s) - d + 1) \o <<n.lowest>> \o @,
                            !.children = moved \o @, !.lowest = low,
                            !.buffer = overlay(from(s.buffer, low), @)]
         giver == [s EXCEPT !.keys = take(@, size(s) - d), !.buffer = below(@, low),
                            !.children = take(@, Len(@) - d)]
     IN /\ nodes' = reparent([nodes EXCEPT ![frame.node] = taker, ![n.left] = giver],
                             ToSet(moved), frame.node)
        /\ Give(err, [key |-> low, node |-> Nil, type |-> "RedistributeLeft"])
  /\ stack' = Front(stack)
  /\ UNCHANGED allocated

RedistributeInternalRight ==
  /\ Underflowed /\ borrowsRight(frame.node)
  /\ LET n == flusher
         s == nodes[n.right]
         d == excess(n, s)
         moved == take(s.children, d)
         low == nodes[s.children[d + 1]].lowest
         taker == [n EXCEPT !.keys = @ \o <<s.lowest>> \o take(s.keys, d - 1),
                            !.children = @ \o moved,
                            !.buffer = overlay(below(s.buffer, low), @)]
         giver == [s EXCEPT !.keys = drop(@, d), !.children = drop(@, d),
                            !.lowest = low, !.buffer = from(@, low)]
     IN /\ nodes' = reparent([nodes EXCEPT ![frame.node] = taker, ![n.right] = giver],
                             ToSet(moved), frame.node)
        /\ Give(err, [key |-> low, node |-> Nil, type |-> "RedistributeRight"])
  /\ stack' = Front(stack)
  /\ UNCHANGED allocated

MergeInternalLeft ==
  /\ Underflowed /\ mergesLeft(frame.node)
  /\ LET n == flusher
         i == indexInParent(n)
     IN /\ i \in DOMAIN nodes[n.parent].keys
        /\ nodes' = merged(nodes, n.left, frame.node, <<nodes[n.parent].keys[i]>>)
        /\ Give(err, [key |-> NoKey, node |-> frame.node, type |-> "MergeLeft"])
  /\ stack' = Front(stack)
  /\ UNCHANGED allocated

MergeInternalRight ==
  /\ Underflowed /\ mergesRight(frame.node)
  /\ LET n == flusher
         i == indexInParent(n) + 1
     IN /\ i \in DOMAIN nodes[n.parent].keys
        /\ nodes' = merged(nodes, frame.node, n.right, <<nodes[n.parent].keys[i]>>)
        /\ Give(err, [key |-> NoKey, node |-> n.right, type |-> "MergeRight"])
  /\ stack' = Front(stack)
  /\ UNCHANGED allocated

\* Without a sibling to ask, handleUnderflow runs off its end: any result.
EndFlush ==
  /\ FlushDone /\ ~isOverflowing(flusher)
  /\ Underflowed => mate(frame.node) = Nil
  /\ \E e \in IF Underflowed THEN {err, "Error"} ELSE {err} : Give(e, frame.out)
  /\ stack' = Front(stack)
  /\ UNCHANGED heap

-----------------------------------------------------------------------------
(* BeTreeLeafNode::applyMessage: insert *)

position == lowerBound(target.keys, call.key) + 1

\* A leaf that split, redistributed or merged ends the flush of its parent.
Restructured_Success == "Success"             \* mutant
Restructured == "FinishedMessagePassing"

\* Mutant: a lower key does not lower lowestSearchKey.
inserted_High(n) ==
  IF holds(n, call.key)
    THEN [n EXCEPT !.values[position] = call.msg]
    ELSE [n EXCEPT !.keys = InsertAt(@, position, call.key),
                   !.values = InsertAt(@, position, call.msg),
                   !.lowest = IF n.keys = << >> THEN call.key ELSE @]

\* The leaf after BeTreeLeafNode::insert and before a split.
inserted(n) ==
  IF holds(n, call.key)
    THEN [n EXCEPT !.values[position] = call.msg]
    ELSE [n EXCEPT !.keys = InsertAt(@, position, call.key),
                   !.values = InsertAt(@, position, call.msg),
                   !.lowest = IF n.keys = << >> \/ call.key < @ THEN call.key ELSE @]

InsertInLeaf ==
  /\ pc = "apply" /\ target.leaf /\ call.msg # Absent
  /\ ~isOverflowing(inserted(target))
  /\ nodes' = [nodes EXCEPT ![call.node] = inserted(target)]
  /\ Give("Success", NoChange)
  /\ UNCHANGED <<allocated, stack>>

SplitLeaf ==
  /\ pc = "apply" /\ target.leaf /\ call.msg # Absent
  /\ isOverflowing(inserted(target))
  /\ \E id \in NodeId :
       /\ isFresh(id)
       /\ LET n == inserted(target)
              mid == size(n) \div 2
              pivot == n.keys[mid + 1]
              right == [n EXCEPT !.keys = drop(@, mid), !.values = drop(@, mid),
                                 !.lowest = pivot, !.left = call.node]
              left == [n EXCEPT !.keys = take(@, mid), !.values = take(@, mid), !.right = id]
          IN /\ nodes' = linkBack([nodes EXCEPT ![call.node] = left, ![id] = right], n.right, id)
             /\ Give(Restructured, [key |-> pivot, node |-> id, type |-> "Split"])
       /\ allocated' = allocated \cup {id}
  /\ UNCHANGED stack

-----------------------------------------------------------------------------
(* BeTreeLeafNode::applyMessage: remove *)

\* The leaf after the entry is erased.
erased_Key(n) == [n EXCEPT !.keys = RemoveAt(@, position)]           \* mutant
erased(n) ==
  LET keys == RemoveAt(n.keys, position) IN
  [n EXCEPT !.keys = keys, !.values = RemoveAt(@, position),
            !.lowest = IF keys = << >> THEN @ ELSE keys[1]]

RemoveMissing ==
  /\ pc = "apply" /\ target.leaf /\ call.msg = Absent
  /\ ~holds(target, call.key)
  /\ Give("Success", change)
  /\ UNCHANGED <<heap, stack>>

\* The leaf loses the entry; shrunk is the heap, starved says it underflows.
Removes == pc = "apply" /\ target.leaf /\ call.msg = Absent /\ holds(target, call.key)
shrunk == [nodes EXCEPT ![call.node] = erased(target)]
starved == isUnderflowing(erased(target)) /\ ~isRoot(target)

\* The root may shrink freely; any other leaf without a sibling reports Error.
RemoveFromLeaf ==
  /\ Removes
  /\ starved => mate(call.node) = Nil
  /\ nodes' = shrunk
  /\ Give(IF starved THEN "Error" ELSE "Success", change)
  /\ UNCHANGED <<allocated, stack>>

\* redistribute also writes the new pivot into the parent itself.
RedistributeLeafLeft ==
  /\ Removes /\ starved /\ borrowsLeft(call.node)
  /\ LET n == erased(target)
         s == nodes[n.left]
         d == excess(n, s)
         keys == drop(s.keys, size(s) - d) \o n.keys
         taker == [n EXCEPT !.keys = keys, !.lowest = keys[1],
                            !.values = drop(s.values, size(s) - d) \o @]
         giver == [s EXCEPT !.keys = take(@, size(s) - d), !.values = take(@, size(s) - d)]
     IN /\ call.idx \in DOMAIN nodes[n.parent].keys
        /\ nodes' = [nodes EXCEPT ![call.node] = taker, ![n.left] = giver,
                                  ![n.parent].keys[call.idx] = keys[1]]
        /\ Give(Restructured,
                [key |-> keys[1], node |-> Nil, type |-> "RedistributeLeft"])
  /\ UNCHANGED <<allocated, stack>>

RedistributeLeafRight ==
  /\ Removes /\ starved /\ borrowsRight(call.node)
  /\ LET n == erased(target)
         s == nodes[n.right]
         d == excess(n, s)
         low == s.keys[d + 1]
         taker == [n EXCEPT !.keys = @ \o take(s.keys, d), !.values = @ \o take(s.values, d)]
         giver == [s EXCEPT !.keys = drop(@, d), !.values = drop(@, d), !.lowest = low]
     IN /\ call.idx + 1 \in DOMAIN nodes[n.parent].keys
        /\ nodes' = [nodes EXCEPT ![call.node] = taker, ![n.right] = giver,
                                  ![n.parent].keys[call.idx + 1] = low]
        /\ Give(Restructured,
                [key |-> low, node |-> Nil, type |-> "RedistributeRight"])
  /\ UNCHANGED <<allocated, stack>>

MergeLeafLeft ==
  /\ Removes /\ starved /\ mergesLeft(call.node)
  /\ nodes' = merged(shrunk, target.left, call.node, << >>)
  /\ Give(Restructured, [key |-> NoKey, node |-> call.node, type |-> "MergeLeft"])
  /\ UNCHANGED <<allocated, stack>>

MergeLeafRight ==
  /\ Removes /\ starved /\ mergesRight(call.node)
  /\ nodes' = merged(shrunk, call.node, target.right, << >>)
  /\ Give(Restructured, [key |-> NoKey, node |-> target.right, type |-> "MergeRight"])
  /\ UNCHANGED <<allocated, stack>>

-----------------------------------------------------------------------------
(* BeTree::applyMessage after the call on the root *)

Returned == pc = "return" /\ stack = << >>

root == nodes[rootNode]

Leave(abandoned) ==
  /\ pc' = "idle"
  /\ request' = None
  /\ change' = NoChange
  /\ err' = "Success"
  /\ dict' = Contents'
  /\ orphans' = orphans \cup abandoned
  /\ UNCHANGED <<call, stack>>

\* A node that has just been split still has a key, so no root shrinks here.
SplitRoot ==
  /\ Returned /\ change.node # Nil /\ size(root) # 0
  /\ \E id \in NodeId :
       /\ isFresh(id)
       /\ LET top == [NewLeaf EXCEPT !.leaf = FALSE, !.keys = <<change.key>>,
                                     !.children = <<rootNode, change.node>>,
                                     !.lowest = root.lowest]
          IN nodes' = reparent([nodes EXCEPT ![id] = top], {rootNode, change.node}, id)
       /\ allocated' = allocated \cup {id}
       /\ rootNode' = id
  /\ Leave({})

DeleteRootLeaf ==
  /\ Returned /\ change.node = Nil /\ size(root) = 0 /\ root.leaf
  /\ nodes' = [nodes EXCEPT ![rootNode] = NewLeaf]
  /\ allocated' = allocated \ {rootNode}
  /\ rootNode' = Nil
  /\ Leave({})

heir == root.children[1]

\* The only child becomes the root and takes over the old root's messages; the
\* old root is neither deleted nor unlinked, it stays allocated.
CollapseRoot ==
  /\ Returned /\ change.node = Nil /\ size(root) = 0 /\ ~root.leaf
  /\ ~nodes[heir].leaf
  /\ LET crowned == [nodes[heir] EXCEPT !.parent = Nil, !.left = Nil, !.right = Nil,
                                        !.buffer = overlay(root.buffer, @)]
     IN nodes' = [nodes EXCEPT ![heir] = crowned, ![rootNode].buffer = << >>]
  /\ rootNode' = heir
  /\ UNCHANGED allocated
  /\ Leave({rootNode})

Finish ==
  /\ Returned /\ change.node = Nil
  /\ size(root) = 0 => ~root.leaf /\ nodes[heir].leaf
  /\ UNCHANGED <<heap, rootNode>>
  /\ Leave({})

-----------------------------------------------------------------------------
(* The steps of a running call; what callers may start *)

InternalStep ==
  \/ BufferMessage \/ StartFlush \/ PassMessage \/ ChildReturns \/ EndFlush
  \/ SplitInternal
  \/ RedistributeInternalLeft \/ RedistributeInternalRight
  \/ MergeInternalLeft \/ MergeInternalRight

LeafStep ==
  \/ InsertInLeaf \/ SplitLeaf
  \/ RemoveMissing \/ RemoveFromLeaf
  \/ RedistributeLeafLeft \/ RedistributeLeafRight
  \/ MergeLeafLeft \/ MergeLeafRight

RootStep == SplitRoot \/ DeleteRootLeaf \/ CollapseRoot \/ Finish

Step == InternalStep \/ LeafStep \/ RootStep

Next ==
  \/ Step
  \/ \E p \in Insertable : StartInsertEmpty(p[1], p[2]) \/ StartInsert(p[1], p[2])
  \/ \E k \in Key : StartRemove(k) \/ Search(k)

Spec == Init /\ [][Next]_vars

\* One thread runs a call to its end.
FairSpec == Spec /\ WF_vars(Step)
=============================================================================
