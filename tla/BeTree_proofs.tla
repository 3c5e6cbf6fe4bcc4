---------------------------- MODULE BeTree_proofs ----------------------------
(***************************************************************************)
(* Type correctness of the B-epsilon-tree, for every set of keys, values   *)
(* and identifiers, every fanout and every buffer size; and what the       *)
(* proofs of its shape and of its order need of a table of nodes.          *)
(*                                                                         *)
(* The second part is about trees of nodes that name their children, their *)
(* parent and both their neighbours, as BeTreeInternalNode and             *)
(* BeTreeLeafNode do, and what the restructurings of such a tree keep:     *)
(* splitting a node, moving children between two siblings, merging two     *)
(* siblings, a new root, a collapsed root. A restructuring is described by *)
(* what it leaves of each link, not by the code that does it;              *)
(* BeTreeShape_proofs shows that the actions of BeTree are such            *)
(* restructurings. The third part says the same of the keys, pivots and    *)
(* messages of such a tree, for BeTreeOrder_proofs.                        *)
(***************************************************************************)
EXTENDS BeTreeProps, DataInduction, TLAPS, SequenceTheorems, FiniteSetTheorems

(***************************************************************************)
(* TypeOK is not inductive: a step reads the node of the running call, the *)
(* innermost flush and the root, so these must exist while a call runs.    *)
(***************************************************************************)
RunningCall ==
  /\ pc = "apply" => call.node \in NodeId /\ call.key \in Key
  /\ pc = "flush" => stack # << >>
  /\ pc # "idle" => rootNode \in NodeId

TypeInv == TypeOK /\ RunningCall

-----------------------------------------------------------------------------
(* Sequences *)

\* The first i entries of a vector, as split and redistribute take them.
LEMMA TakeType ==
  ASSUME NEW S, NEW s \in Seq(S), NEW i \in 0 .. Len(s)
  PROVE  take(s, i) \in Seq(S) /\ Len(take(s, i)) = i
BY SubSeqProperties DEF take

\* What a vector holds after its first i entries.
LEMMA DropType ==
  ASSUME NEW S, NEW s \in Seq(S), NEW i \in 0 .. Len(s)
  PROVE  drop(s, i) \in Seq(S) /\ Len(drop(s, i)) = Len(s) - i
BY SubSeqProperties DEF drop

\* vector::erase at a position of the vector makes it one shorter.
LEMMA RemoveAtType ==
  ASSUME NEW S, NEW s \in Seq(S), NEW i \in 1 .. Len(s)
  PROVE  RemoveAt(s, i) \in Seq(S) /\ Len(RemoveAt(s, i)) = Len(s) - 1
<1> DEFINE front == take(s, i - 1)
           back  == drop(s, i)
<1>1. i - 1 \in 0 .. Len(s) /\ i \in 0 .. Len(s) /\ Len(s) \in Nat
  OBVIOUS
<1>2. front \in Seq(S) /\ Len(front) = i - 1
  BY <1>1, TakeType
<1>3. back \in Seq(S) /\ Len(back) = Len(s) - i
  BY <1>1, DropType
<1>4. RemoveAt(s, i) = front \o back
  BY DEF RemoveAt, take, drop
<1> HIDE DEF front, back
<1>5. front \o back \in Seq(S) /\ Len(front \o back) = Len(front) + Len(back)
  BY <1>2, <1>3
<1> QED
  BY <1>1, <1>2, <1>3, <1>4, <1>5

\* vector::insert at a position, or at the end, makes a vector one longer.
LEMMA InsertAtType ==
  ASSUME NEW S, NEW s \in Seq(S), NEW i \in 1 .. (Len(s) + 1), NEW e \in S
  PROVE  InsertAt(s, i, e) \in Seq(S) /\ Len(InsertAt(s, i, e)) = Len(s) + 1
<1> DEFINE front == take(s, i - 1) \o <<e>>
           back  == drop(s, i - 1)
<1>1. i - 1 \in 0 .. Len(s) /\ (i - 1) + 1 = i /\ Len(s) \in Nat
  OBVIOUS
<1>2. take(s, i - 1) \in Seq(S) /\ Len(take(s, i - 1)) = i - 1
  BY <1>1, TakeType
<1>3. front \in Seq(S) /\ Len(front) = i
  BY <1>2
<1>4. back \in Seq(S) /\ Len(back) = Len(s) - (i - 1)
  BY <1>1, DropType
<1>5. InsertAt(s, i, e) = front \o back
  BY <1>1 DEF InsertAt, take, drop
<1> HIDE DEF front, back
<1>6. front \o back \in Seq(S) /\ Len(front \o back) = Len(front) + Len(back)
  BY <1>3, <1>4
<1> QED
  BY <1>1, <1>3, <1>4, <1>5, <1>6

\* Three vectors put one after the other, as merge does around a pivot.
LEMMA JoinType ==
  ASSUME NEW S, NEW a \in Seq(S), NEW b \in Seq(S), NEW c \in Seq(S)
  PROVE  a \o b \o c \in Seq(S) /\ Len(a \o b \o c) = Len(a) + Len(b) + Len(c)
<1>1. a \o b \in Seq(S) /\ Len(a \o b) = Len(a) + Len(b)
  BY ConcatProperties
<1> QED
  BY <1>1, ConcatProperties

\* Overwriting an entry keeps the length; outside the vector nothing changes.
LEMMA ReplaceType ==
  ASSUME NEW S, NEW s \in Seq(S), NEW i, NEW e \in S
  PROVE  [s EXCEPT ![i] = e] \in Seq(S) /\ Len([s EXCEPT ![i] = e]) = Len(s)
<1>1. CASE i \in 1 .. Len(s)
  BY <1>1, ExceptSeq
<1>2. CASE i \notin 1 .. Len(s)
  BY <1>2, [s EXCEPT ![i] = e] = s
<1> QED
  BY <1>1, <1>2

-----------------------------------------------------------------------------
(* Searching the keys of a node *)

\* A search position never leaves the node's keys.
LEMMA BoundRange ==
  ASSUME NEW s \in Seq(KeyType), NEW k
  PROVE  lowerBound(s, k) \in 0 .. Len(s) /\ upperBound(s, k) \in 0 .. Len(s)
<1>1. IsFiniteSet(1 .. Len(s)) /\ Cardinality(1 .. Len(s)) = Len(s)
  <2>1. 0 \in Int /\ 1 \in Int /\ Len(s) \in Int /\ Len(s) >= 0
    OBVIOUS
  <2> QED
    BY <2>1, FS_Interval
<1>2. {i \in DOMAIN s : s[i] < k} \subseteq 1 .. Len(s)
  OBVIOUS
<1>3. {i \in DOMAIN s : s[i] <= k} \subseteq 1 .. Len(s)
  OBVIOUS
<1> QED
  BY <1>1, <1>2, <1>3, FS_Subset, FS_CardinalityType DEF lowerBound, upperBound

\* What a node that underflows borrows from a sibling is never empty, and never
\* all the sibling has.
LEMMA ExcessRange ==
  ASSUME NEW a \in Nat, NEW b \in Nat, b > Fanout \div 2, a < (Fanout - 1) \div 2
  PROVE  (b - a) \div 2 \in 1 .. (b - 1)
BY SizeAssumption

\* The middle of two or more keys is one of them, with keys on its left.
LEMMA HalfRange ==
  ASSUME NEW m \in Nat, m >= 2
  PROVE  m \div 2 \in 0 .. m /\ (m \div 2) + 1 \in 1 .. m
OBVIOUS

-----------------------------------------------------------------------------
(* Buffers, nodes and the heap *)

\* Two buffers put over each other make a buffer.
LEMMA OverlayType ==
  ASSUME NEW a, isBuffer(a), NEW b, isBuffer(b)
  PROVE  isBuffer(overlay(a, b))
BY DEF isBuffer, overlay

\* Part of a buffer is a buffer.
LEMMA RestrictType ==
  ASSUME NEW b, isBuffer(b), NEW S, S \subseteq DOMAIN b
  PROVE  isBuffer(Restrict(b, S))
BY DEF isBuffer, Restrict

\* A buffer cut at a pivot leaves two buffers.
LEMMA BelowFromType ==
  ASSUME NEW b, isBuffer(b), NEW k
  PROVE  isBuffer(below(b, k)) /\ isBuffer(from(b, k))
BY RestrictType DEF below, from

\* A leaf just created, like the place of a deleted one, is well formed.
LEMMA NewLeafType == isNode(NewLeaf)
BY EmptySeq DEF isNode, isBuffer, NewLeaf, KeyType, NoKey, Nil

\* Storing a well-formed node keeps the heap well formed.
LEMMA HeapUpdate ==
  ASSUME NEW h, isHeap(h), NEW id, NEW n, isNode(n)
  PROVE  isHeap([h EXCEPT ![id] = n])
BY DEF isHeap

\* Setting the parent of some nodes keeps the heap well formed.
LEMMA HeapReparent ==
  ASSUME NEW h, isHeap(h), NEW S, NEW p \in NodeId
  PROVE  isHeap(reparent(h, S, p))
<1>1. ASSUME NEW n, isNode(n)
      PROVE  isNode([n EXCEPT !.parent = p])
  BY <1>1 DEF isNode
<1> QED
  BY <1>1 DEF isHeap, reparent

\* Setting the back pointer of a sibling keeps the heap well formed.
LEMMA HeapLinkBack ==
  ASSUME NEW h, isHeap(h), NEW id, NEW l \in NodeId
  PROVE  isHeap(linkBack(h, id, l))
<1>1. ASSUME NEW n, isNode(n)
      PROVE  isNode([n EXCEPT !.left = l])
  BY <1>1 DEF isNode
<1> QED
  BY <1>1 DEF isHeap, linkBack

-----------------------------------------------------------------------------
(* The three ways in which a step moves the call *)

\* A call that starts on an existing root keeps the invariant.
LEMMA EnterType ==
  ASSUME TypeInv, NEW k \in Key, NEW m \in Message, Enter(k, m),
         isHeap(nodes'), allocated' \subseteq NodeId, rootNode' \in NodeId
  PROVE  TypeInv'
BY DEF TypeInv, TypeOK, RunningCall, Enter, KeyType, ChildChange, NoChange, ChangeType,
       Nil, NoKey, ErrorCode, history

\* A callee that returns to its caller keeps the invariant.
LEMMA GiveType ==
  ASSUME TypeInv, pc # "idle", NEW e \in ErrorCode, NEW c \in ChildChange, Give(e, c),
         isHeap(nodes'), allocated' \subseteq NodeId, stack' \in Seq(Frame)
  PROVE  TypeInv'
BY DEF TypeInv, TypeOK, RunningCall, Give, NoCall, KeyType, Nil, NoKey, Message, history

\* The end of a call keeps the invariant.
LEMMA LeaveType ==
  ASSUME TypeInv, NEW S \in SUBSET NodeId, Leave(S),
         isHeap(nodes'), allocated' \subseteq NodeId, rootNode' \in NodeId \cup {Nil}
  PROVE  TypeInv'
BY DEF TypeInv, TypeOK, RunningCall, Leave, Contents, KeyType, ChildChange, NoChange,
       ChangeType, Nil, NoKey, ErrorCode

-----------------------------------------------------------------------------
(* The calls *)

\* The empty tree satisfies the invariant.
LEMMA InitType == Init => TypeInv
<1> SUFFICES ASSUME Init
             PROVE  TypeInv
  OBVIOUS
<1>1. isHeap(nodes)
  BY NewLeafType DEF Init, isHeap
<1> QED
  BY <1>1 DEF Init, TypeInv, TypeOK, RunningCall, NoCall, NoChange, ChildChange, ChangeType,
              ErrorCode, KeyType, Message, Nil, NoKey

\* The first insert, which creates the root.
LEMMA StartInsertEmptyType ==
  ASSUME TypeInv, NEW k \in Key, NEW v \in Value, StartInsertEmpty(k, v)
  PROVE  TypeInv'
<1>1. PICK id \in NodeId : /\ nodes' = [nodes EXCEPT ![id] = NewLeaf]
                          /\ allocated' = allocated \cup {id}
                          /\ rootNode' = id
  BY DEF StartInsertEmpty
<1>2. isHeap(nodes')
  BY <1>1, NewLeafType, HeapUpdate DEF TypeInv, TypeOK
<1>3. allocated' \subseteq NodeId /\ rootNode' \in NodeId /\ v \in Message
  BY <1>1 DEF TypeInv, TypeOK, Message
<1>4. Enter(k, v)
  BY DEF StartInsertEmpty
<1> QED
  BY <1>2, <1>3, <1>4, EnterType

\* An insert into a tree that has a root.
LEMMA StartInsertType ==
  ASSUME TypeInv, NEW k \in Key, NEW v \in Value, StartInsert(k, v)
  PROVE  TypeInv'
<1>1. isHeap(nodes') /\ allocated' \subseteq NodeId /\ rootNode' \in NodeId /\ v \in Message
  BY DEF TypeInv, TypeOK, StartInsert, heap, Message
<1>2. Enter(k, v)
  BY DEF StartInsert
<1> QED
  BY <1>1, <1>2, EnterType

\* A remove from a tree that has a root.
LEMMA StartRemoveType ==
  ASSUME TypeInv, NEW k \in Key, StartRemove(k)
  PROVE  TypeInv'
<1>1. isHeap(nodes') /\ allocated' \subseteq NodeId /\ rootNode' \in NodeId
  BY DEF TypeInv, TypeOK, StartRemove, heap
<1>2. Enter(k, Absent) /\ Absent \in Message
  BY DEF StartRemove, Message
<1> QED
  BY <1>1, <1>2, EnterType

-----------------------------------------------------------------------------
(* Flushing *)

\* An internal node that took the message of the call is well formed.
LEMMA BufferedType ==
  ASSUME TypeInv, pc = "apply", NEW n, isNode(n)
  PROVE  isNode(buffered(n))
<1>1. call.key \in Key /\ call.msg \in Message
  BY DEF TypeInv, TypeOK, RunningCall
<1>2. isBuffer(arriving)
  BY <1>1 DEF isBuffer, arriving
<1>3. isBuffer(overlay(arriving, n.buffer))
  BY <1>2, OverlayType DEF isNode
<1>4. call.key \in KeyType
  BY <1>1 DEF KeyType
<1> QED
  BY <1>3, <1>4 DEF isNode, buffered

\* The node that a call has entered exists.
LEMMA TargetType ==
  ASSUME TypeInv, pc = "apply"
  PROVE  call.node \in NodeId /\ isNode(target)
BY DEF TypeInv, TypeOK, RunningCall, isHeap, target

\* The node of the innermost flush exists.
LEMMA FrameType ==
  ASSUME TypeInv, stack # << >>
  PROVE  frame \in Frame /\ isNode(flusher)
<1>1. frame \in Frame
  BY DEF TypeInv, TypeOK, frame, Last
<1> QED
  BY <1>1 DEF TypeInv, TypeOK, isHeap, flusher, Frame

\* A flush that returns leaves the flushes below it.
LEMMA PopType ==
  ASSUME TypeInv, stack # << >>
  PROVE  Front(stack) \in Seq(Frame)
BY DEF TypeInv, TypeOK, Front

\* A message that stays in the buffer of its node.
LEMMA BufferMessageType ==
  ASSUME TypeInv, BufferMessage
  PROVE  TypeInv'
<1>1. pc = "apply" /\ nodes' = [nodes EXCEPT ![call.node] = buffered(target)]
  BY DEF BufferMessage
<1>2. isHeap(nodes')
  BY <1>1, TargetType, BufferedType, HeapUpdate DEF TypeInv, TypeOK
<1>3. /\ Give("Success", change) /\ "Success" \in ErrorCode /\ change \in ChildChange
      /\ allocated' \subseteq NodeId /\ stack' \in Seq(Frame)
  BY DEF BufferMessage, TypeInv, TypeOK, ErrorCode
<1> QED
  BY <1>1, <1>2, <1>3, GiveType

\* A buffer that is full: its node starts to flush into one child.
LEMMA StartFlushType ==
  ASSUME TypeInv, StartFlush
  PROVE  TypeInv'
<1> DEFINE n == buffered(target)
<1>1. pc = "apply" /\ ~target.leaf /\ nodes' = [nodes EXCEPT ![call.node] = n]
  BY DEF StartFlush
<1>2. call.node \in NodeId /\ isNode(target) /\ isNode(n)
  BY <1>1, TargetType, BufferedType
<1>3. isHeap(nodes')
  BY <1>1, <1>2, HeapUpdate DEF TypeInv, TypeOK
<1>4. PICK i \in 0 .. size(n) :
        stack' = Append(stack, [node |-> call.node, child |-> n.children[i + 1], idx |-> i,
                                batch |-> messagesFor(n, i), out |-> change])
  BY DEF StartFlush
<1>5. n.children[i + 1] \in NodeId /\ i \in Nat
  <2>1. ~n.leaf
    BY <1>1, <1>2 DEF buffered, isNode
  <2> QED
    BY <1>2, <2>1 DEF isNode, size
<1>6. messagesFor(n, i) \in SUBSET Key
  BY <1>2 DEF isNode, isBuffer, messagesFor
<1> HIDE DEF n
<1>7. stack' \in Seq(Frame) /\ stack' # << >>
  BY <1>2, <1>4, <1>5, <1>6 DEF TypeInv, TypeOK, Frame
<1> QED
  BY <1>1, <1>3, <1>7 DEF StartFlush, TypeInv, TypeOK, RunningCall, NoCall, NoChange, ChildChange,
       ChangeType, ErrorCode, KeyType, Message, Nil, NoKey, history

\* A flush that hands a message to its child.
LEMMA PassMessageType ==
  ASSUME TypeInv, PassMessage
  PROVE  TypeInv'
<1>1. PICK k \in frame.batch :
        /\ k \in DOMAIN flusher.buffer /\ pass(k)
        /\ nodes' = [nodes EXCEPT ![frame.node].buffer = Restrict(@, DOMAIN @ \ {k})]
        /\ stack' = [stack EXCEPT ![Len(stack)].batch = @ \ {k}]
  BY DEF PassMessage
<1>2. pc = "flush" /\ stack # << >>
  BY DEF PassMessage, TypeInv, RunningCall
<1>3. frame \in Frame /\ isNode(flusher)
  BY <1>2, FrameType
<1>4. k \in Key /\ flusher.buffer[k] \in Message
  BY <1>1, <1>3 DEF isNode, isBuffer
<1>5. isHeap(nodes')
  <2>1. isBuffer(Restrict(flusher.buffer, DOMAIN flusher.buffer \ {k}))
    BY <1>3, RestrictType DEF isNode
  <2>2. isNode([flusher EXCEPT !.buffer = Restrict(@, DOMAIN @ \ {k})])
    BY <1>3, <2>1 DEF isNode
  <2> QED
    BY <1>1, <2>2, HeapUpdate DEF TypeInv, TypeOK, flusher
<1>6. stack' \in Seq(Frame) /\ stack' # << >>
  <2>1. [frame EXCEPT !.batch = @ \ {k}] \in Frame
    BY <1>3 DEF Frame
  <2> QED
    BY <1>1, <1>2, <2>1, ReplaceType DEF TypeInv, TypeOK, frame, Last
<1>7. call' \in [node : NodeId \cup {Nil}, key : KeyType, msg : Message, idx : Nat]
      /\ call'.node \in NodeId /\ call'.key \in Key
  BY <1>1, <1>3, <1>4 DEF pass, Frame, KeyType
<1> QED
  BY <1>2, <1>5, <1>6, <1>7 DEF PassMessage, TypeInv, TypeOK, RunningCall, history

\* A vector position that inRange allows keeps a node well formed.
LEMMA AdjustedType ==
  ASSUME NEW n, isNode(n), NEW i \in Nat, NEW c \in ChildChange, inRange(n, i, c)
  PROVE  isNode(adjusted(n, i, c))
<1> DEFINE ks == n.keys
           ch == n.children
<1>1. c.key \in KeyType /\ (c.type = "Split" => c.node \in NodeId)
  BY DEF ChildChange
<1>2. ks \in Seq(KeyType) /\ ch \in Seq(NodeId) /\ Len(ch) = Len(ks) + 1 /\ ~n.leaf
  BY DEF isNode, inRange
<1>3. /\ c.type = "Split" => i + 1 \in 1 .. (Len(ks) + 1) /\ i + 2 \in 1 .. (Len(ch) + 1)
      /\ c.type = "MergeLeft" => i \in 1 .. Len(ks) /\ i + 1 \in 1 .. Len(ch)
      /\ c.type = "MergeRight" => i + 1 \in 1 .. Len(ks) /\ i + 2 \in 1 .. Len(ch)
  BY <1>2 DEF inRange, size
<1>4. ASSUME NEW x \in Seq(KeyType), NEW y \in Seq(NodeId), Len(y) = Len(x) + 1
      PROVE  isNode([n EXCEPT !.keys = x, !.children = y])
  BY <1>2, <1>4 DEF isNode
<1>5. ASSUME NEW j
      PROVE  isNode([n EXCEPT !.keys = [ks EXCEPT ![j] = c.key]])
  <2> DEFINE e == c.key
             x == [ks EXCEPT ![j] = e]
  <2>1. e \in KeyType
    BY <1>1
  <2> HIDE DEF ks, ch, e
  <2>2. x \in Seq(KeyType) /\ Len(x) = Len(ks)
    BY <1>2, <2>1, ReplaceType
  <2> HIDE DEF x
  <2>3. isNode([n EXCEPT !.keys = x])
    BY <1>2, <2>2 DEF isNode, ks, ch
  <2> QED
    BY <2>3 DEF x, e
<1>6. CASE c.type = "Split"
  <2>1. adjusted(n, i, c) = [n EXCEPT !.keys = InsertAt(ks, i + 1, c.key),
                                      !.children = InsertAt(ch, i + 2, c.node)]
    BY <1>6 DEF adjusted
  <2> HIDE DEF ks, ch
  <2>2. InsertAt(ks, i + 1, c.key) \in Seq(KeyType)
        /\ Len(InsertAt(ks, i + 1, c.key)) = Len(ks) + 1
    <3>1. ks \in Seq(KeyType) /\ i + 1 \in 1 .. (Len(ks) + 1) /\ c.key \in KeyType
      BY <1>1, <1>2, <1>3, <1>6
    <3> QED
      BY ONLY <3>1, InsertAtType
  <2>3. InsertAt(ch, i + 2, c.node) \in Seq(NodeId)
        /\ Len(InsertAt(ch, i + 2, c.node)) = Len(ch) + 1
    <3>1. ch \in Seq(NodeId) /\ i + 2 \in 1 .. (Len(ch) + 1) /\ c.node \in NodeId
      BY <1>1, <1>2, <1>3, <1>6
    <3> QED
      BY ONLY <3>1, InsertAtType
  <2>4. Len(InsertAt(ch, i + 2, c.node)) = Len(InsertAt(ks, i + 1, c.key)) + 1
    BY <1>2, <2>2, <2>3
  <2> QED
    BY <1>4, <2>1, <2>2, <2>3, <2>4, Zenon
<1>7. CASE c.type = "RedistributeLeft"
  BY <1>5, <1>7 DEF adjusted
<1>8. CASE c.type = "RedistributeRight"
  BY <1>5, <1>8 DEF adjusted
<1>9. CASE c.type = "MergeLeft"
  <2>1. adjusted(n, i, c) = [n EXCEPT !.keys = RemoveAt(ks, i), !.children = RemoveAt(ch, i + 1)]
    BY <1>9 DEF adjusted
  <2> HIDE DEF ks, ch
  <2>2. RemoveAt(ks, i) \in Seq(KeyType) /\ Len(RemoveAt(ks, i)) = Len(ks) - 1
    BY <1>2, <1>3, <1>9, RemoveAtType
  <2>3. RemoveAt(ch, i + 1) \in Seq(NodeId) /\ Len(RemoveAt(ch, i + 1)) = Len(ch) - 1
    BY <1>2, <1>3, <1>9, RemoveAtType
  <2>4. Len(RemoveAt(ch, i + 1)) = Len(RemoveAt(ks, i)) + 1
    BY <1>2, <2>2, <2>3
  <2> QED
    BY <1>4, <2>1, <2>2, <2>3, <2>4, Zenon
<1>10. CASE c.type = "MergeRight"
  <2>1. adjusted(n, i, c) = [n EXCEPT !.keys = RemoveAt(ks, i + 1),
                                      !.children = RemoveAt(ch, i + 2)]
    BY <1>10 DEF adjusted
  <2> HIDE DEF ks, ch
  <2>2. RemoveAt(ks, i + 1) \in Seq(KeyType) /\ Len(RemoveAt(ks, i + 1)) = Len(ks) - 1
    BY <1>2, <1>3, <1>10, RemoveAtType
  <2>3. RemoveAt(ch, i + 2) \in Seq(NodeId) /\ Len(RemoveAt(ch, i + 2)) = Len(ch) - 1
    BY <1>2, <1>3, <1>10, RemoveAtType
  <2>4. Len(RemoveAt(ch, i + 2)) = Len(RemoveAt(ks, i + 1)) + 1
    BY <1>2, <2>2, <2>3
  <2> QED
    BY <1>4, <2>1, <2>2, <2>3, <2>4, Zenon
<1>11. CASE c.type = "None"
  BY <1>11 DEF adjusted
<1> QED
  BY <1>6, <1>7, <1>8, <1>9, <1>10, <1>11 DEF ChildChange, ChangeType

\* A child that returns: its parent takes over the change it reports.
LEMMA ChildReturnsType ==
  ASSUME TypeInv, ChildReturns
  PROVE  TypeInv'
<1>1. stack # << >> /\ pc = "return"
  BY DEF ChildReturns
<1>2. frame \in Frame /\ isNode(flusher) /\ change \in ChildChange
  BY <1>1, FrameType DEF TypeInv, TypeOK
<1>3. isNode(adjusted(flusher, frame.idx, change))
  <2>1. frame.idx \in Nat /\ inRange(flusher, frame.idx, change)
    BY <1>2 DEF ChildReturns, Frame
  <2> QED
    BY <1>2, <2>1, AdjustedType
<1>4. isHeap(nodes')
  <2>1. /\ DOMAIN nodes' = NodeId
        /\ \A id \in NodeId :
             nodes'[id] \in {NewLeaf, adjusted(flusher, frame.idx, change), nodes[id]}
    BY DEF ChildReturns
  <2>2. \A id \in NodeId : isNode(nodes[id])
    BY DEF TypeInv, TypeOK, isHeap
  <2>3. \A id \in NodeId : isNode(nodes'[id])
    BY <1>3, <2>1, <2>2, NewLeafType
  <2> QED
    BY <2>1, <2>3 DEF isHeap
<1>5. allocated' \subseteq NodeId
  BY DEF ChildReturns, TypeInv, TypeOK
<1>6. stack' \in Seq(Frame) /\ stack' # << >>
  <2>1. remaining(frame.batch) \in SUBSET Key
    BY <1>2 DEF remaining, Frame
  <2>2. [frame EXCEPT !.batch = remaining(@)] \in Frame
    BY <1>2, <2>1 DEF Frame
  <2>3. stack' = [stack EXCEPT ![Len(stack)] = [frame EXCEPT !.batch = remaining(@)]]
    BY DEF ChildReturns, frame, Last
  <2>4. stack \in Seq(Frame) /\ Len(stack) \in 1 .. Len(stack)
    BY <1>1 DEF TypeInv, TypeOK
  <2> QED
    BY <2>2, <2>3, <2>4, ExceptSeq
<1> QED
  BY <1>1, <1>4, <1>5, <1>6 DEF ChildReturns, TypeInv, TypeOK, RunningCall, history

\* A flush that leaves its node neither too full nor too empty.
LEMMA EndFlushType ==
  ASSUME TypeInv, EndFlush
  PROVE  TypeInv'
<1>1. pc = "flush" /\ stack # << >>
  BY DEF EndFlush, FlushDone, TypeInv, RunningCall
<1>2. frame.out \in ChildChange
  BY <1>1, FrameType DEF Frame
<1>3. PICK e \in {err, "Error"} : Give(e, frame.out)
  BY DEF EndFlush
<1>4. e \in ErrorCode
  BY DEF TypeInv, TypeOK, ErrorCode
<1>5. isHeap(nodes') /\ allocated' \subseteq NodeId /\ stack' = Front(stack)
  BY DEF EndFlush, heap, TypeInv, TypeOK
<1> QED
  BY <1>1, <1>2, <1>3, <1>4, <1>5, PopType, GiveType

\* An internal node that splits: both halves are internal nodes.
LEMMA SplitInternalType ==
  ASSUME TypeInv, SplitInternal
  PROVE  TypeInv'
<1> DEFINE n == flusher
           mid == size(n) \div 2
           pivot == n.keys[mid + 1]
           moved == drop(n.children, mid + 1)
           right(low, id) == [n EXCEPT !.keys = drop(@, mid + 1), !.children = moved,
                                       !.buffer = from(@, pivot), !.left = frame.node,
                                       !.lowest = low]
           left(id) == [n EXCEPT !.keys = take(@, mid), !.children = take(@, mid + 1),
                                 !.buffer = below(@, pivot), !.right = id]
<1>1. PICK id \in NodeId, low \in {nodes[moved[1]].lowest} \cup DOMAIN from(n.buffer, pivot) :
        /\ nodes' = reparent(linkBack([nodes EXCEPT ![frame.node] = left(id),
                                                    ![id] = right(low, id)],
                                      n.right, id),
                             ToSet(moved), id)
        /\ Give(err, [key |-> pivot, node |-> id, type |-> "Split"])
        /\ allocated' = allocated \cup {id}
        /\ stack' = Front(stack)
  BY DEF SplitInternal
<1>2. pc = "flush" /\ stack # << >> /\ ~n.leaf /\ isOverflowing(n)
  BY DEF SplitInternal, FlushDone, TypeInv, RunningCall
<1>3. frame \in Frame /\ isNode(n)
  BY <1>2, FrameType
<1>4. mid \in Nat /\ mid + 1 <= Len(n.keys) /\ Len(n.children) = Len(n.keys) + 1
  BY <1>2, <1>3, SizeAssumption DEF isNode, isOverflowing, size
<1>5. n.keys \in Seq(KeyType) /\ n.children \in Seq(NodeId) /\ pivot \in KeyType
  BY <1>3, <1>4 DEF isNode
<1>6. /\ take(n.keys, mid) \in Seq(KeyType) /\ Len(take(n.keys, mid)) = mid
      /\ drop(n.keys, mid + 1) \in Seq(KeyType)
      /\ Len(drop(n.keys, mid + 1)) = Len(n.keys) - (mid + 1)
  <2> HIDE DEF mid
  <2>1. mid \in 0 .. Len(n.keys) /\ mid + 1 \in 0 .. Len(n.keys) /\ n.keys \in Seq(KeyType)
    BY <1>4, <1>5
  <2> QED
    BY <2>1, TakeType, DropType
<1>7. /\ take(n.children, mid + 1) \in Seq(NodeId) /\ Len(take(n.children, mid + 1)) = mid + 1
      /\ moved \in Seq(NodeId) /\ Len(moved) = Len(n.children) - (mid + 1)
  <2> HIDE DEF mid
  <2>1. mid + 1 \in 0 .. Len(n.children) /\ n.children \in Seq(NodeId)
    BY <1>4, <1>5
  <2> QED
    BY <2>1, TakeType, DropType
<1>8. isBuffer(from(n.buffer, pivot)) /\ isBuffer(below(n.buffer, pivot))
  BY <1>3, BelowFromType DEF isNode
<1>9. low \in KeyType
  <2>1. moved[1] \in NodeId
    BY <1>4, <1>7
  <2> QED
    BY <1>8, <2>1 DEF TypeInv, TypeOK, isHeap, isNode, isBuffer, KeyType
<1>10. isNode(left(id))
  BY <1>2, <1>3, <1>6, <1>7, <1>8 DEF isNode
<1>11. isNode(right(low, id))
  <2> DEFINE ks == drop(n.keys, mid + 1)
             b == from(n.buffer, pivot)
  <2>1. frame.node \in NodeId
    BY <1>3 DEF Frame
  <2>2. /\ ks \in Seq(KeyType) /\ moved \in Seq(NodeId) /\ Len(moved) = Len(ks) + 1
        /\ isBuffer(b) /\ isNode(n) /\ ~n.leaf
    BY <1>2, <1>3, <1>4, <1>6, <1>7, <1>8
  <2>3. right(low, id) = [n EXCEPT !.keys = ks, !.children = moved, !.buffer = b, !.left = frame.node,
                                   !.lowest = low]
    BY Zenon
  <2> HIDE DEF n, ks, b, moved, right
  <2> QED BY ONLY <2>1, <2>2, <2>3, <1>9 DEF isNode
<1> HIDE DEF left, right, pivot, moved
<1>12. isHeap(nodes')
  BY <1>1, <1>10, <1>11, HeapUpdate, HeapLinkBack, HeapReparent DEF TypeInv, TypeOK
<1>13. [key |-> pivot, node |-> id, type |-> "Split"] \in ChildChange
  BY <1>5, IdAssumption DEF ChildChange, ChangeType, Nil
<1>14. allocated' \subseteq NodeId /\ stack' \in Seq(Frame) /\ err \in ErrorCode
  BY <1>1, <1>2, PopType DEF TypeInv, TypeOK
<1> QED
  BY <1>1, <1>2, <1>12, <1>13, <1>14, GiveType

-----------------------------------------------------------------------------
(* Redistributing and merging *)

\* The sibling that handleUnderflow asks exists and is of the node's kind.
LEMMA MateType ==
  ASSUME TypeInv, NEW id \in NodeId, matched(id)
  PROVE  /\ mate(id) \in NodeId /\ isNode(nodes[mate(id)]) /\ isNode(nodes[id])
         /\ nodes[mate(id)].leaf = nodes[id].leaf
         /\ asksLeft(id) => nodes[id].left = mate(id)
         /\ ~asksLeft(id) => nodes[id].right = mate(id)
<1>1. isNode(nodes[id])
  BY DEF TypeInv, TypeOK, isHeap
<1>2. mate(id) \in NodeId
  BY <1>1 DEF matched, mate, isNode
<1>3. isNode(nodes[mate(id)])
  BY <1>2 DEF TypeInv, TypeOK, isHeap
<1>4. ~asksLeft(id) => nodes[id].right = mate(id)
  BY DEF matched, asksLeft, mate
<1> QED
  BY <1>1, <1>2, <1>3, <1>4 DEF matched, asksLeft

\* Joining two nodes of one kind, with a pivot between them if they are internal,
\* keeps the lengths of the vectors in step.
LEMMA JoinedType ==
  ASSUME NEW x, isNode(x), NEW y, isNode(y), x.leaf = y.leaf,
         NEW seam \in Seq(KeyType), Len(seam) = IF x.leaf THEN 0 ELSE 1
  PROVE  isNode([x EXCEPT !.keys = @ \o seam \o y.keys,
                          !.values = @ \o y.values,
                          !.children = @ \o y.children,
                          !.buffer = overlay(y.buffer, @),
                          !.right = y.right])
<1> DEFINE xk == x.keys
           yk == y.keys
           xv == x.values
           yv == y.values
           xc == x.children
           yc == y.children
           keys == xk \o seam \o yk
           values == xv \o yv
           children == xc \o yc
           buffer == overlay(y.buffer, x.buffer)
<1>1. /\ xk \in Seq(KeyType) /\ xv \in Seq(Value) /\ xc \in Seq(NodeId)
      /\ yk \in Seq(KeyType) /\ yv \in Seq(Value) /\ yc \in Seq(NodeId)
  BY DEF isNode
<1>2. /\ x.leaf => Len(seam) = 0 /\ Len(xv) = Len(xk) /\ Len(yv) = Len(yk)
      /\ ~x.leaf => Len(seam) = 1 /\ Len(xc) = Len(xk) + 1 /\ Len(yc) = Len(yk) + 1
  BY DEF isNode
<1>3. /\ keys \in Seq(KeyType) /\ values \in Seq(Value) /\ children \in Seq(NodeId)
      /\ x.leaf => Len(values) = Len(keys)
      /\ ~x.leaf => Len(children) = Len(keys) + 1
  <2> HIDE DEF xk, yk, xv, yv, xc, yc
  <2>1. keys \in Seq(KeyType) /\ Len(keys) = Len(xk) + Len(seam) + Len(yk)
    <3>1. xk \in Seq(KeyType) /\ seam \in Seq(KeyType) /\ yk \in Seq(KeyType)
      BY <1>1
    <3> QED
      BY ONLY <3>1, JoinType
  <2>2. values \in Seq(Value) /\ Len(values) = Len(xv) + Len(yv)
    BY <1>1, ConcatProperties
  <2>3. children \in Seq(NodeId) /\ Len(children) = Len(xc) + Len(yc)
    BY <1>1, ConcatProperties
  <2>4. Len(xk) \in Nat /\ Len(yk) \in Nat
    BY <1>1
  <2> HIDE DEF keys, values, children
  <2>5. CASE x.leaf
    BY <1>2, <2>1, <2>2, <2>3, <2>4, <2>5
  <2>6. CASE ~x.leaf
    <3>1. Len(seam) = 1 /\ Len(xc) = Len(xk) + 1 /\ Len(yc) = Len(yk) + 1
      BY <1>2, <2>6
    <3>2. Len(children) = Len(keys) + 1
      BY ONLY <2>1, <2>3, <2>4, <3>1
    <3> QED
      BY <2>1, <2>2, <2>3, <2>6, <3>2
  <2> QED
    BY <2>5, <2>6
<1>4. x.leaf => keys \in Seq(Key)
  <2> SUFFICES ASSUME x.leaf
               PROVE  keys \in Seq(Key)
    OBVIOUS
  <2>1. x.keys \in Seq(Key) /\ y.keys \in Seq(Key) /\ seam \in Seq(Key)
    BY DEF isNode
  <2> QED
    BY <2>1, JoinType
<1>5. isBuffer(buffer)
  BY OverlayType DEF isNode
<1> HIDE DEF keys, values, children, buffer
<1>6. isNode([x EXCEPT !.keys = keys, !.values = values, !.children = children,
                       !.buffer = buffer, !.right = y.right])
  BY <1>3, <1>4, <1>5 DEF isNode
<1> QED
  BY <1>6 DEF keys, values, children, buffer

\* A merge of two nodes of one kind leaves the heap well formed.
LEMMA MergedType ==
  ASSUME NEW h, isHeap(h), NEW l \in NodeId, NEW r \in NodeId, h[l].leaf = h[r].leaf,
         NEW seam \in Seq(KeyType), Len(seam) = IF h[l].leaf THEN 0 ELSE 1
  PROVE  isHeap(merged(h, l, r, seam))
<1> DEFINE joined == [h[l] EXCEPT !.keys = @ \o seam \o h[r].keys,
                                  !.values = @ \o h[r].values,
                                  !.children = @ \o h[r].children,
                                  !.buffer = overlay(h[r].buffer, @),
                                  !.right = h[r].right]
<1>1. isNode(h[l]) /\ isNode(h[r])
  BY DEF isHeap
<1>2. isNode(joined)
  BY <1>1, JoinedType
<1> HIDE DEF joined
<1>3. isHeap(linkBack([h EXCEPT ![l] = joined], h[r].right, l))
  BY <1>2, HeapUpdate, HeapLinkBack
<1> QED
  BY <1>3, HeapReparent DEF merged, joined

\* The number of keys a node borrows, and the types of both nodes.
LEMMA BorrowRange ==
  ASSUME NEW n, isNode(n), NEW s, isNode(s), isBorrowable(s), isUnderflowing(n)
  PROVE  excess(n, s) \in 1 .. (Len(s.keys) - 1)
BY ExcessRange DEF isNode, excess, isBorrowable, isUnderflowing, size

\* The lowest search key that a node remembers is a key.
LEMMA LowestType ==
  ASSUME TypeInv, NEW id \in NodeId
  PROVE  nodes[id].lowest \in KeyType
BY DEF TypeInv, TypeOK, isHeap, isNode

\* An internal node that borrows children from its left sibling.
LEMMA RedistributeInternalLeftType ==
  ASSUME TypeInv, RedistributeInternalLeft
  PROVE  TypeInv'
<1> DEFINE n == flusher
           s == nodes[n.left]
           d == excess(n, s)
           moved == drop(s.children, Len(s.children) - d)
           low == nodes[moved[1]].lowest
           movedKeys == drop(s.keys, size(s) - d + 1)
           keys == movedKeys \o <<n.lowest>> \o n.keys
           children == moved \o n.children
           buffer == overlay(from(s.buffer, low), n.buffer)
           keptKeys == take(s.keys, size(s) - d)
           kept == take(s.children, Len(s.children) - d)
           rest == below(s.buffer, low)
           taker == [n EXCEPT !.keys = keys, !.children = children, !.lowest = low,
                              !.buffer = buffer]
           giver == [s EXCEPT !.keys = keptKeys, !.buffer = rest, !.children = kept]
<1>1. /\ pc = "flush" /\ stack # << >> /\ ~n.leaf /\ isUnderflowing(n)
      /\ borrowsLeft(frame.node)
      /\ nodes' = reparent([nodes EXCEPT ![frame.node] = taker, ![n.left] = giver],
                           ToSet(moved), frame.node)
      /\ Give(err, [key |-> low, node |-> Nil, type |-> "RedistributeLeft"])
      /\ stack' = Front(stack) /\ allocated' = allocated
  BY DEF RedistributeInternalLeft, Underflowed, FlushDone, TypeInv, RunningCall
<1>2. frame.node \in NodeId /\ isNode(n)
  BY <1>1, FrameType DEF Frame
<1>3. n.left \in NodeId /\ isNode(s) /\ ~s.leaf /\ isBorrowable(s)
  <2>1. matched(frame.node) /\ asksLeft(frame.node) /\ isBorrowable(nodes[mate(frame.node)])
    BY <1>1 DEF borrowsLeft
  <2>2. /\ n.left = mate(frame.node) /\ mate(frame.node) \in NodeId
        /\ isNode(nodes[mate(frame.node)]) /\ nodes[mate(frame.node)].leaf = n.leaf
    BY <1>2, <2>1, MateType DEF flusher
  <2> QED
    BY <1>1, <2>1, <2>2
<1>4. d \in 1 .. (Len(s.keys) - 1)
  BY <1>1, <1>2, <1>3, BorrowRange
<1>5. s.lowest \in KeyType /\ n.lowest \in KeyType
  BY <1>2, <1>3 DEF isNode
<1> HIDE DEF n, s, d
<1>6. /\ s.keys \in Seq(KeyType) /\ n.keys \in Seq(KeyType)
      /\ s.children \in Seq(NodeId) /\ n.children \in Seq(NodeId)
      /\ Len(s.children) = Len(s.keys) + 1 /\ Len(n.children) = Len(n.keys) + 1
  BY <1>1, <1>2, <1>3 DEF isNode
<1>7. size(s) = Len(s.keys) /\ Len(s.keys) \in Nat /\ Len(n.keys) \in Nat /\ d \in Nat
  BY <1>4, <1>6 DEF size
<1>8. /\ size(s) - d \in 0 .. Len(s.keys) /\ (size(s) - d) + 1 \in 0 .. Len(s.keys)
      /\ Len(s.children) - d \in 0 .. Len(s.children)
  BY <1>4, <1>6, <1>7
<1>9. /\ moved \in Seq(NodeId) /\ Len(moved) = Len(s.children) - (Len(s.children) - d)
      /\ movedKeys \in Seq(KeyType) /\ Len(movedKeys) = Len(s.keys) - ((size(s) - d) + 1)
  <2>1. moved \in Seq(NodeId) /\ Len(moved) = Len(s.children) - (Len(s.children) - d)
    BY ONLY <1>6, <1>8, DropType
  <2>2. movedKeys \in Seq(KeyType) /\ Len(movedKeys) = Len(s.keys) - ((size(s) - d) + 1)
    BY ONLY <1>6, <1>8, DropType
  <2> QED
    BY <2>1, <2>2
<1>10. /\ keptKeys \in Seq(KeyType) /\ Len(keptKeys) = size(s) - d
       /\ kept \in Seq(NodeId) /\ Len(kept) = Len(s.children) - d
  <2>1. keptKeys \in Seq(KeyType) /\ Len(keptKeys) = size(s) - d
    BY ONLY <1>6, <1>8, TakeType
  <2>2. kept \in Seq(NodeId) /\ Len(kept) = Len(s.children) - d
    BY ONLY <1>6, <1>8, TakeType
  <2> QED
    BY <2>1, <2>2
<1>11. Len(moved) = d /\ Len(movedKeys) = d - 1 /\ Len(kept) = Len(keptKeys) + 1
  BY <1>6, <1>7, <1>9, <1>10
<1>12. low \in KeyType
  <2>1. moved[1] \in NodeId
    BY <1>4, <1>9, <1>11
  <2> QED
    BY <2>1, LowestType
<1> HIDE DEF moved, low, movedKeys, keptKeys, kept
<1>13. keys \in Seq(KeyType) /\ Len(keys) = d + Len(n.keys)
  <2> DEFINE seam == <<n.lowest>>
  <2>1. seam \in Seq(KeyType) /\ Len(seam) = 1
    BY <1>5
  <2>2. keys = movedKeys \o seam \o n.keys
    OBVIOUS
  <2> HIDE DEF seam, keys
  <2>3. keys \in Seq(KeyType) /\ Len(keys) = Len(movedKeys) + Len(seam) + Len(n.keys)
    <3>1. movedKeys \in Seq(KeyType) /\ seam \in Seq(KeyType) /\ n.keys \in Seq(KeyType)
      BY <1>6, <1>9, <2>1
    <3> QED
      BY ONLY <2>2, <3>1, JoinType
  <2> QED
    BY ONLY <1>7, <1>11, <2>1, <2>3
<1>14. children \in Seq(NodeId) /\ Len(children) = (d + Len(n.keys)) + 1
  <2>1. children \in Seq(NodeId) /\ Len(children) = Len(moved) + Len(n.children)
    BY <1>6, <1>9, ConcatProperties
  <2> HIDE DEF children
  <2> QED
    BY <1>6, <1>7, <1>11, <2>1
<1>15. isBuffer(buffer) /\ isBuffer(rest)
  BY <1>2, <1>3, BelowFromType, OverlayType DEF isNode
<1> HIDE DEF keys, children, buffer, rest
<1>16. isNode(taker)
  BY <1>1, <1>2, <1>12, <1>13, <1>14, <1>15 DEF isNode
<1>17. isNode(giver)
  BY <1>3, <1>10, <1>11, <1>12, <1>15 DEF isNode
<1> HIDE DEF taker, giver
<1>18. isHeap(nodes')
  BY <1>1, <1>2, <1>16, <1>17, HeapUpdate, HeapReparent DEF TypeInv, TypeOK
<1>19. [key |-> low, node |-> Nil, type |-> "RedistributeLeft"] \in ChildChange
  BY <1>12 DEF ChildChange, ChangeType
<1>20. allocated' \subseteq NodeId /\ stack' \in Seq(Frame) /\ err \in ErrorCode
  BY <1>1, PopType DEF TypeInv, TypeOK
<1> QED
  BY <1>1, <1>18, <1>19, <1>20, GiveType

\* The same with the right sibling.
LEMMA RedistributeInternalRightType ==
  ASSUME TypeInv, RedistributeInternalRight
  PROVE  TypeInv'
<1> DEFINE n == flusher
           s == nodes[n.right]
           d == excess(n, s)
           moved == take(s.children, d)
           low == nodes[s.children[d + 1]].lowest
           movedKeys == take(s.keys, d - 1)
           keys == n.keys \o <<s.lowest>> \o movedKeys
           children == n.children \o moved
           buffer == overlay(below(s.buffer, low), n.buffer)
           keptKeys == drop(s.keys, d)
           kept == drop(s.children, d)
           rest == from(s.buffer, low)
           taker == [n EXCEPT !.keys = keys, !.children = children, !.buffer = buffer]
           giver == [s EXCEPT !.keys = keptKeys, !.children = kept, !.lowest = low,
                              !.buffer = rest]
<1>1. /\ pc = "flush" /\ stack # << >> /\ ~n.leaf /\ isUnderflowing(n)
      /\ borrowsRight(frame.node)
      /\ nodes' = reparent([nodes EXCEPT ![frame.node] = taker, ![n.right] = giver],
                           ToSet(moved), frame.node)
      /\ Give(err, [key |-> low, node |-> Nil, type |-> "RedistributeRight"])
      /\ stack' = Front(stack) /\ allocated' = allocated
  BY DEF RedistributeInternalRight, Underflowed, FlushDone, TypeInv, RunningCall
<1>2. frame.node \in NodeId /\ isNode(n)
  BY <1>1, FrameType DEF Frame
<1>3. n.right \in NodeId /\ isNode(s) /\ ~s.leaf /\ isBorrowable(s)
  <2>1. matched(frame.node) /\ ~asksLeft(frame.node) /\ isBorrowable(nodes[mate(frame.node)])
    BY <1>1 DEF borrowsRight
  <2>2. /\ n.right = mate(frame.node) /\ mate(frame.node) \in NodeId
        /\ isNode(nodes[mate(frame.node)]) /\ nodes[mate(frame.node)].leaf = n.leaf
    BY <1>2, <2>1, MateType DEF flusher
  <2> QED
    BY <1>1, <2>1, <2>2
<1>4. d \in 1 .. (Len(s.keys) - 1)
  BY <1>1, <1>2, <1>3, BorrowRange
<1>5. s.lowest \in KeyType /\ n.lowest \in KeyType
  BY <1>2, <1>3 DEF isNode
<1> HIDE DEF n, s, d
<1>6. /\ s.keys \in Seq(KeyType) /\ n.keys \in Seq(KeyType)
      /\ s.children \in Seq(NodeId) /\ n.children \in Seq(NodeId)
      /\ Len(s.children) = Len(s.keys) + 1 /\ Len(n.children) = Len(n.keys) + 1
  BY <1>1, <1>2, <1>3 DEF isNode
<1>7. size(s) = Len(s.keys) /\ Len(s.keys) \in Nat /\ Len(n.keys) \in Nat /\ d \in Nat
  BY <1>4, <1>6 DEF size
<1>8. /\ d \in 0 .. Len(s.keys) /\ d - 1 \in 0 .. Len(s.keys)
      /\ d \in 0 .. Len(s.children) /\ d + 1 \in 1 .. Len(s.children)
  BY <1>4, <1>6, <1>7
<1>9. /\ moved \in Seq(NodeId) /\ Len(moved) = d
      /\ movedKeys \in Seq(KeyType) /\ Len(movedKeys) = d - 1
  <2>1. moved \in Seq(NodeId) /\ Len(moved) = d
    BY ONLY <1>6, <1>8, TakeType
  <2>2. movedKeys \in Seq(KeyType) /\ Len(movedKeys) = d - 1
    BY ONLY <1>6, <1>8, TakeType
  <2> QED
    BY <2>1, <2>2
<1>10. /\ keptKeys \in Seq(KeyType) /\ Len(keptKeys) = Len(s.keys) - d
       /\ kept \in Seq(NodeId) /\ Len(kept) = Len(s.children) - d
  <2>1. keptKeys \in Seq(KeyType) /\ Len(keptKeys) = Len(s.keys) - d
    BY ONLY <1>6, <1>8, DropType
  <2>2. kept \in Seq(NodeId) /\ Len(kept) = Len(s.children) - d
    BY ONLY <1>6, <1>8, DropType
  <2> QED
    BY <2>1, <2>2
<1>11. Len(moved) = d /\ Len(movedKeys) = d - 1 /\ Len(kept) = Len(keptKeys) + 1
  BY <1>6, <1>7, <1>9, <1>10
<1>12. low \in KeyType
  <2>1. s.children[d + 1] \in NodeId
    BY <1>6, <1>8
  <2> QED
    BY <2>1, LowestType
<1> HIDE DEF moved, low, movedKeys, keptKeys, kept
<1>13. keys \in Seq(KeyType) /\ Len(keys) = d + Len(n.keys)
  <2> DEFINE seam == <<s.lowest>>
  <2>1. seam \in Seq(KeyType) /\ Len(seam) = 1
    BY <1>5
  <2>2. keys = n.keys \o seam \o movedKeys
    OBVIOUS
  <2> HIDE DEF seam, keys
  <2>3. keys \in Seq(KeyType) /\ Len(keys) = Len(n.keys) + Len(seam) + Len(movedKeys)
    <3>1. movedKeys \in Seq(KeyType) /\ seam \in Seq(KeyType) /\ n.keys \in Seq(KeyType)
      BY <1>6, <1>9, <2>1
    <3> QED
      BY ONLY <2>2, <3>1, JoinType
  <2> QED
    BY ONLY <1>7, <1>11, <2>1, <2>3
<1>14. children \in Seq(NodeId) /\ Len(children) = (d + Len(n.keys)) + 1
  <2>1. children \in Seq(NodeId) /\ Len(children) = Len(n.children) + Len(moved)
    BY <1>6, <1>9, ConcatProperties
  <2> HIDE DEF children
  <2> QED
    BY <1>6, <1>7, <1>11, <2>1
<1>15. isBuffer(buffer) /\ isBuffer(rest)
  BY <1>2, <1>3, BelowFromType, OverlayType DEF isNode
<1> HIDE DEF keys, children, buffer, rest
<1>16. isNode(taker)
  BY <1>1, <1>2, <1>12, <1>13, <1>14, <1>15 DEF isNode
<1>17. isNode(giver)
  BY <1>3, <1>10, <1>11, <1>12, <1>15 DEF isNode
<1> HIDE DEF taker, giver
<1>18. isHeap(nodes')
  BY <1>1, <1>2, <1>16, <1>17, HeapUpdate, HeapReparent DEF TypeInv, TypeOK
<1>19. [key |-> low, node |-> Nil, type |-> "RedistributeRight"] \in ChildChange
  BY <1>12 DEF ChildChange, ChangeType
<1>20. allocated' \subseteq NodeId /\ stack' \in Seq(Frame) /\ err \in ErrorCode
  BY <1>1, PopType DEF TypeInv, TypeOK
<1> QED
  BY <1>1, <1>18, <1>19, <1>20, GiveType

\* The parent that a merging node reads its pivot from.
LEMMA ParentKeyType ==
  ASSUME TypeInv, NEW n, isNode(n), ~isRoot(n), NEW i \in DOMAIN nodes[n.parent].keys
  PROVE  <<nodes[n.parent].keys[i]>> \in Seq(KeyType) /\ Len(<<nodes[n.parent].keys[i]>>) = 1
<1>1. n.parent \in NodeId
  BY DEF isNode, isRoot
<1>2. nodes[n.parent].keys[i] \in KeyType
  BY <1>1 DEF TypeInv, TypeOK, isHeap, isNode
<1> QED
  BY <1>2

\* An internal node that moves into its left sibling.
LEMMA MergeInternalLeftType ==
  ASSUME TypeInv, MergeInternalLeft
  PROVE  TypeInv'
<1> DEFINE n == flusher
           i == indexInParent(n)
           seam == <<nodes[n.parent].keys[i]>>
<1>1. /\ pc = "flush" /\ stack # << >> /\ ~n.leaf /\ ~isRoot(n)
      /\ mergesLeft(frame.node) /\ i \in DOMAIN nodes[n.parent].keys
      /\ nodes' = merged(nodes, n.left, frame.node, seam)
      /\ Give(err, [key |-> NoKey, node |-> frame.node, type |-> "MergeLeft"])
      /\ stack' = Front(stack) /\ allocated' = allocated
  BY DEF MergeInternalLeft, Underflowed, FlushDone, TypeInv, RunningCall
<1>2. frame.node \in NodeId /\ isNode(n)
  BY <1>1, FrameType DEF Frame
<1>3. n.left \in NodeId /\ nodes[n.left].leaf = nodes[frame.node].leaf
  BY <1>1, <1>2, MateType DEF mergesLeft, flusher
<1>4. seam \in Seq(KeyType) /\ Len(seam) = 1
  BY <1>1, <1>2, ParentKeyType
<1> HIDE DEF seam
<1>5. isHeap(nodes')
  BY <1>1, <1>2, <1>3, <1>4, MergedType DEF TypeInv, TypeOK, flusher
<1>6. [key |-> NoKey, node |-> frame.node, type |-> "MergeLeft"] \in ChildChange
  BY <1>2, IdAssumption DEF ChildChange, ChangeType, KeyType, Nil
<1>7. allocated' \subseteq NodeId /\ stack' \in Seq(Frame) /\ err \in ErrorCode
  BY <1>1, PopType DEF TypeInv, TypeOK
<1> QED
  BY <1>1, <1>5, <1>6, <1>7, GiveType

\* An internal node that takes over its right sibling.
LEMMA MergeInternalRightType ==
  ASSUME TypeInv, MergeInternalRight
  PROVE  TypeInv'
<1> DEFINE n == flusher
           i == indexInParent(n) + 1
           seam == <<nodes[n.parent].keys[i]>>
<1>1. /\ pc = "flush" /\ stack # << >> /\ ~n.leaf /\ ~isRoot(n)
      /\ mergesRight(frame.node) /\ i \in DOMAIN nodes[n.parent].keys
      /\ nodes' = merged(nodes, frame.node, n.right, seam)
      /\ Give(err, [key |-> NoKey, node |-> n.right, type |-> "MergeRight"])
      /\ stack' = Front(stack) /\ allocated' = allocated
  BY DEF MergeInternalRight, Underflowed, FlushDone, TypeInv, RunningCall
<1>2. frame.node \in NodeId /\ isNode(n)
  BY <1>1, FrameType DEF Frame
<1>3. n.right \in NodeId /\ nodes[n.right].leaf = nodes[frame.node].leaf
  BY <1>1, <1>2, MateType DEF mergesRight, flusher
<1>4. seam \in Seq(KeyType) /\ Len(seam) = 1
  BY <1>1, <1>2, ParentKeyType
<1> HIDE DEF seam
<1>5. isHeap(nodes')
  BY <1>1, <1>2, <1>3, <1>4, MergedType DEF TypeInv, TypeOK, flusher
<1>6. [key |-> NoKey, node |-> n.right, type |-> "MergeRight"] \in ChildChange
  BY <1>3, IdAssumption DEF ChildChange, ChangeType, KeyType, Nil
<1>7. allocated' \subseteq NodeId /\ stack' \in Seq(Frame) /\ err \in ErrorCode
  BY <1>1, PopType DEF TypeInv, TypeOK
<1> QED
  BY <1>1, <1>5, <1>6, <1>7, GiveType

-----------------------------------------------------------------------------
(* Leaves *)

leafWith(n, ks, vs, low) == [n EXCEPT !.keys = ks, !.values = vs, !.lowest = low]

\* Giving a leaf as many values as keys, and a lowest search key, leaves a leaf.
LEMMA LeafUpdate ==
  ASSUME NEW n, isNode(n), n.leaf, NEW ks \in Seq(Key), NEW vs \in Seq(Value),
         Len(vs) = Len(ks), NEW low \in KeyType
  PROVE  isNode(leafWith(n, ks, vs, low)) /\ leafWith(n, ks, vs, low).leaf
<1>1. ks \in Seq(KeyType)
  BY DEF KeyType
<1> QED
  BY <1>1 DEF isNode, leafWith

\* The position that insert and remove compute in a leaf is one they may use.
LEMMA PositionType ==
  ASSUME TypeInv, pc = "apply"
  PROVE  /\ position \in 1 .. (Len(target.keys) + 1)
         /\ holds(target, call.key) => position \in 1 .. Len(target.keys)
<1> DEFINE keys == target.keys
           low == lowerBound(keys, call.key)
           high == upperBound(keys, call.key)
<1>1. keys \in Seq(KeyType)
  BY TargetType DEF isNode
<1>2. low \in 0 .. Len(keys) /\ high \in 0 .. Len(keys)
  BY <1>1, BoundRange
<1>3. position = low + 1 /\ (holds(target, call.key) <=> low < high)
  BY DEF position, holds
<1> HIDE DEF keys, low, high
<1>4. position \in 1 .. (Len(keys) + 1)
      /\ (holds(target, call.key) => position \in 1 .. Len(keys))
  BY <1>1, <1>2, <1>3
<1> QED
  BY <1>4 DEF keys

\* insert leaves a well-formed leaf, also before a split.
LEMMA InsertedType ==
  ASSUME TypeInv, pc = "apply", target.leaf, call.msg # Absent
  PROVE  isNode(inserted(target)) /\ inserted(target).leaf
<1> DEFINE keys == target.keys
           values == target.values
           moreKeys == InsertAt(keys, position, call.key)
           moreValues == InsertAt(values, position, call.msg)
           newValues == [values EXCEPT ![position] = call.msg]
<1>1. call.key \in Key /\ call.msg \in Value /\ call.key \in KeyType
  BY DEF TypeInv, TypeOK, RunningCall, Message, KeyType
<1>2. /\ isNode(target)
      /\ keys \in Seq(Key) /\ values \in Seq(Value) /\ Len(values) = Len(keys)
  BY TargetType DEF isNode
<1>3. position \in 1 .. (Len(keys) + 1)
  BY PositionType
<1> HIDE DEF keys, values
<1>4. moreKeys \in Seq(Key) /\ Len(moreKeys) = Len(keys) + 1
  BY <1>1, <1>2, <1>3, InsertAtType
<1>5. moreValues \in Seq(Value) /\ Len(moreValues) = Len(values) + 1
  BY <1>1, <1>2, <1>3, InsertAtType
<1>6. newValues \in Seq(Value) /\ Len(newValues) = Len(values)
  BY <1>1, <1>2, ReplaceType
<1> HIDE DEF moreKeys, moreValues, newValues
<1>8. CASE holds(target, call.key)
  <2>1. inserted(target) = [target EXCEPT !.values = newValues]
    BY <1>8 DEF inserted, newValues, values
  <2> QED
    <3>1. inserted(target) = leafWith(target, keys, newValues, target.lowest)
      BY <1>2, <2>1 DEF isNode, keys, leafWith
    <3>2. target.lowest \in KeyType
      BY <1>2 DEF isNode
    <3> QED
      BY <1>2, <1>6, <3>1, <3>2, LeafUpdate
<1>9. CASE ~holds(target, call.key)
  <2>1. PICK low \in KeyType :
          inserted(target) = leafWith(target, moreKeys, moreValues, low)
    BY <1>1, <1>2, <1>9 DEF inserted, isNode, moreKeys, moreValues, keys, values, leafWith
  <2>2. Len(moreValues) = Len(moreKeys)
    BY <1>2, <1>4, <1>5
  <2> QED
    BY <1>2, <1>4, <1>5, <2>1, <2>2, LeafUpdate
<1> QED
  BY <1>8, <1>9

\* remove leaves a well-formed leaf, also before it asks a sibling.
LEMMA ErasedType ==
  ASSUME TypeInv, Removes
  PROVE  /\ isNode(erased(target)) /\ erased(target).leaf
         /\ \A f \in {"parent", "left", "right"} : erased(target)[f] = target[f]
<1> DEFINE keys == target.keys
           values == target.values
           fewerKeys == RemoveAt(keys, position)
           fewerValues == RemoveAt(values, position)
<1>1. pc = "apply" /\ target.leaf /\ holds(target, call.key)
  BY DEF Removes
<1>2. /\ isNode(target)
      /\ keys \in Seq(Key) /\ values \in Seq(Value) /\ Len(values) = Len(keys)
  BY <1>1, TargetType DEF isNode
<1>3. position \in 1 .. Len(keys)
  BY <1>1, PositionType
<1> HIDE DEF keys, values
<1>4. fewerKeys \in Seq(Key) /\ Len(fewerKeys) = Len(keys) - 1
  BY <1>2, <1>3, RemoveAtType
<1>5. fewerValues \in Seq(Value) /\ Len(fewerValues) = Len(values) - 1
  BY <1>2, <1>3, RemoveAtType
<1> HIDE DEF fewerKeys, fewerValues
<1>6. fewerKeys \in Seq(KeyType) /\ (fewerKeys # << >> => fewerKeys[1] \in KeyType)
  BY <1>4 DEF KeyType
<1>7. PICK low \in KeyType :
        erased(target) = leafWith(target, fewerKeys, fewerValues, low)
  <2>1. erased(target) = [target EXCEPT !.keys = fewerKeys, !.values = fewerValues,
                            !.lowest = IF fewerKeys = << >> THEN @ ELSE fewerKeys[1]]
    BY DEF erased, fewerKeys, fewerValues, keys, values
  <2> QED
    BY <1>2, <1>6, <2>1 DEF isNode, leafWith
<1>8. Len(fewerValues) = Len(fewerKeys)
  BY <1>2, <1>4, <1>5
<1>9. isNode(erased(target)) /\ erased(target).leaf
  BY <1>1, <1>2, <1>4, <1>5, <1>7, <1>8, LeafUpdate
<1>10. \A f \in {"parent", "left", "right"} : erased(target)[f] = target[f]
  BY <1>2, <1>7 DEF isNode, leafWith
<1> QED
  BY <1>9, <1>10

\* An insert that the leaf has room for.
LEMMA InsertInLeafType ==
  ASSUME TypeInv, InsertInLeaf
  PROVE  TypeInv'
<1>1. /\ pc = "apply" /\ target.leaf /\ call.msg # Absent
      /\ nodes' = [nodes EXCEPT ![call.node] = inserted(target)]
      /\ Give("Success", NoChange)
  BY DEF InsertInLeaf
<1>2. isHeap(nodes')
  BY <1>1, InsertedType, HeapUpdate DEF TypeInv, TypeOK
<1>3. allocated' \subseteq NodeId /\ stack' \in Seq(Frame)
  BY DEF InsertInLeaf, TypeInv, TypeOK
<1>4. "Success" \in ErrorCode /\ NoChange \in ChildChange
  BY DEF ErrorCode, NoChange, ChildChange, ChangeType, KeyType
<1> QED
  BY <1>1, <1>2, <1>3, <1>4, GiveType

\* A leaf that splits: both halves are leaves.
LEMMA SplitLeafType ==
  ASSUME TypeInv, SplitLeaf
  PROVE  TypeInv'
<1> DEFINE n == inserted(target)
           mid == size(n) \div 2
           pivot == n.keys[mid + 1]
           right(id) == [n EXCEPT !.keys = drop(@, mid), !.values = drop(@, mid),
                                  !.lowest = pivot, !.left = call.node]
           left(id) == [n EXCEPT !.keys = take(@, mid), !.values = take(@, mid), !.right = id]
<1>1. PICK id \in NodeId :
        /\ nodes' = linkBack([nodes EXCEPT ![call.node] = left(id), ![id] = right(id)],
                             n.right, id)
        /\ Give(Restructured, [key |-> pivot, node |-> id, type |-> "Split"])
        /\ allocated' = allocated \cup {id}
  BY DEF SplitLeaf
<1>2. pc = "apply" /\ target.leaf /\ call.msg # Absent /\ isOverflowing(n) /\ stack' = stack
  BY DEF SplitLeaf
<1>3. isNode(n) /\ n.leaf /\ call.node \in NodeId
  BY <1>2, InsertedType, TargetType
<1> HIDE DEF n
<1>4. n.keys \in Seq(Key) /\ n.values \in Seq(Value) /\ Len(n.values) = Len(n.keys)
  BY <1>3 DEF isNode
<1>5. mid \in 0 .. Len(n.keys) /\ mid + 1 \in 1 .. Len(n.keys)
  <2>1. Len(n.keys) \in Nat /\ Len(n.keys) >= 2
    BY <1>2, <1>4, SizeAssumption DEF isOverflowing, size
  <2> QED
    BY <2>1, HalfRange DEF size
<1> HIDE DEF mid
<1>6. pivot \in Key /\ pivot \in KeyType
  BY <1>4, <1>5 DEF KeyType
<1>7. /\ take(n.keys, mid) \in Seq(Key) /\ Len(take(n.keys, mid)) = mid
      /\ drop(n.keys, mid) \in Seq(Key) /\ Len(drop(n.keys, mid)) = Len(n.keys) - mid
  BY <1>4, <1>5, TakeType, DropType
<1>8. /\ take(n.values, mid) \in Seq(Value) /\ Len(take(n.values, mid)) = mid
      /\ drop(n.values, mid) \in Seq(Value) /\ Len(drop(n.values, mid)) = Len(n.keys) - mid
  <2>1. n.values \in Seq(Value) /\ mid \in 0 .. Len(n.values) /\ Len(n.values) = Len(n.keys)
    BY <1>4, <1>5
  <2> QED
    BY ONLY <2>1, TakeType, DropType
<1>9. take(n.keys, mid) \in Seq(KeyType) /\ drop(n.keys, mid) \in Seq(KeyType)
  BY <1>7 DEF KeyType
<1> HIDE DEF pivot
<1>10. isNode(left(id))
  BY <1>3, <1>7, <1>8, <1>9 DEF isNode
<1>11. isNode(right(id))
  BY <1>3, <1>6, <1>7, <1>8, <1>9 DEF isNode
<1> HIDE DEF left, right
<1>12. isHeap(nodes')
  BY <1>1, <1>10, <1>11, HeapUpdate, HeapLinkBack DEF TypeInv, TypeOK
<1>13. [key |-> pivot, node |-> id, type |-> "Split"] \in ChildChange
  BY <1>6, IdAssumption DEF ChildChange, ChangeType, Nil
<1>14. allocated' \subseteq NodeId /\ stack' \in Seq(Frame) /\ Restructured \in ErrorCode
  BY <1>1, <1>2 DEF TypeInv, TypeOK, Restructured, ErrorCode
<1> QED
  BY <1>1, <1>2, <1>12, <1>13, <1>14, GiveType

\* A remove of a key that the leaf does not hold.
LEMMA RemoveMissingType ==
  ASSUME TypeInv, RemoveMissing
  PROVE  TypeInv'
<1>1. pc = "apply" /\ Give("Success", change)
  BY DEF RemoveMissing
<1>2. /\ isHeap(nodes') /\ allocated' \subseteq NodeId /\ stack' \in Seq(Frame)
      /\ "Success" \in ErrorCode /\ change \in ChildChange
  BY DEF RemoveMissing, TypeInv, TypeOK, heap, ErrorCode
<1> QED
  BY <1>1, <1>2, GiveType

\* The heap after a leaf has lost an entry.
LEMMA ShrunkType ==
  ASSUME TypeInv, Removes
  PROVE  /\ pc = "apply" /\ call.node \in NodeId /\ isHeap(shrunk)
         /\ isNode(nodes[call.node])
         /\ \A id \in NodeId : shrunk[id].leaf = nodes[id].leaf
<1>1. pc = "apply" /\ target.leaf
  BY DEF Removes
<1>2. call.node \in NodeId /\ isNode(target)
  BY <1>1, TargetType
<1>3. isNode(erased(target)) /\ erased(target).leaf
  BY ErasedType
<1>4. isHeap(shrunk)
  BY <1>3, HeapUpdate DEF TypeInv, TypeOK, shrunk
<1>5. \A id \in NodeId : shrunk[id].leaf = nodes[id].leaf
  <2>1. erased(target).leaf = target.leaf
    BY <1>2 DEF erased, isNode
  <2> QED
    BY <2>1 DEF shrunk, target, TypeInv, TypeOK, isHeap
<1> QED
  BY <1>1, <1>2, <1>4, <1>5 DEF target

\* A remove that leaves the leaf full enough, or without a sibling to ask.
LEMMA RemoveFromLeafType ==
  ASSUME TypeInv, RemoveFromLeaf
  PROVE  TypeInv'
<1>1. Removes /\ nodes' = shrunk /\ allocated' = allocated /\ stack' = stack
  BY DEF RemoveFromLeaf
<1>2. PICK e \in ErrorCode : Give(e, change)
  BY DEF RemoveFromLeaf, ErrorCode
<1>3. /\ isHeap(nodes') /\ allocated' \subseteq NodeId /\ stack' \in Seq(Frame)
      /\ change \in ChildChange /\ pc # "idle"
  BY <1>1, ShrunkType DEF TypeInv, TypeOK
<1> QED
  BY <1>2, <1>3, GiveType

\* Replacing a key in the parent of a node, wherever that parent is, leaves the
\* heap well formed.
LEMMA ParentKeyUpdate ==
  ASSUME NEW h, isHeap(h), NEW p, NEW i, NEW k \in Key
  PROVE  isHeap([h EXCEPT ![p].keys[i] = k])
<1>1. CASE p \notin NodeId
  BY <1>1 DEF isHeap
<1>2. CASE p \in NodeId
  <2> DEFINE old == h[p].keys
             keys == [old EXCEPT ![i] = k]
  <2>1. isNode(h[p]) /\ k \in KeyType
    BY <1>2 DEF isHeap, KeyType
  <2>2. old \in Seq(KeyType) /\ (h[p].leaf => old \in Seq(Key))
    BY <2>1 DEF isNode
  <2>3. [h EXCEPT ![p].keys[i] = k] = [h EXCEPT ![p] = [h[p] EXCEPT !.keys = keys]]
    BY <1>2 DEF isHeap
  <2> HIDE DEF old
  <2>4. keys \in Seq(KeyType) /\ Len(keys) = Len(old)
    BY <2>1, <2>2, ReplaceType
  <2>5. h[p].leaf => keys \in Seq(Key)
    BY <2>2, ReplaceType
  <2> HIDE DEF keys
  <2>6. isNode([h[p] EXCEPT !.keys = keys])
    BY <2>1, <2>4, <2>5 DEF isNode, old
  <2> QED
    BY <2>3, <2>6, HeapUpdate
<1> QED
  BY <1>1, <1>2

\* A leaf that merges with a sibling, whichever of the two stays.
LEMMA MergeLeafLeftType ==
  ASSUME TypeInv, MergeLeafLeft
  PROVE  TypeInv'
<1>1. /\ Removes /\ mergesLeft(call.node) /\ allocated' = allocated /\ stack' = stack
      /\ nodes' = merged(shrunk, target.left, call.node, << >>)
      /\ Give(Restructured, [key |-> NoKey, node |-> call.node, type |-> "MergeLeft"])
  BY DEF MergeLeafLeft
<1>2. /\ pc = "apply" /\ target.leaf /\ call.node \in NodeId /\ isHeap(shrunk)
      /\ \A id \in NodeId : shrunk[id].leaf = nodes[id].leaf
  BY <1>1, ShrunkType DEF Removes
<1>3. target.left \in NodeId /\ nodes[target.left].leaf = target.leaf
  BY <1>1, <1>2, MateType DEF mergesLeft, target
<1>4. << >> \in Seq(KeyType) /\ Len(<< >>) = 0
  OBVIOUS
<1>5. /\ shrunk[target.left].leaf = shrunk[call.node].leaf
      /\ shrunk[target.left].leaf
  BY <1>2, <1>3 DEF target
<1>6. isHeap(nodes')
  <2> DEFINE h == shrunk
             l == target.left
             r == call.node
             seam == << >>
  <2>1. l \in NodeId /\ r \in NodeId /\ isHeap(h) /\ h[l].leaf = h[r].leaf
    BY <1>2, <1>3, <1>5
  <2>2. seam \in Seq(KeyType) /\ Len(seam) = IF h[l].leaf THEN 0 ELSE 1
    BY <1>4, <1>5
  <2>3. nodes' = merged(h, l, r, seam)
    BY <1>1
  <2> HIDE DEF h, l, r, seam
  <2> QED
    BY <2>1, <2>2, <2>3, MergedType
<1>7. [key |-> NoKey, node |-> call.node, type |-> "MergeLeft"] \in ChildChange
  BY <1>2, IdAssumption DEF ChildChange, ChangeType, KeyType, Nil
<1>8. allocated' \subseteq NodeId /\ stack' \in Seq(Frame) /\ Restructured \in ErrorCode
  BY <1>1 DEF TypeInv, TypeOK, Restructured, ErrorCode
<1> QED
  BY <1>1, <1>2, <1>6, <1>7, <1>8, GiveType

\* The same with the right sibling.
LEMMA MergeLeafRightType ==
  ASSUME TypeInv, MergeLeafRight
  PROVE  TypeInv'
<1>1. /\ Removes /\ mergesRight(call.node) /\ allocated' = allocated /\ stack' = stack
      /\ nodes' = merged(shrunk, call.node, target.right, << >>)
      /\ Give(Restructured, [key |-> NoKey, node |-> target.right, type |-> "MergeRight"])
  BY DEF MergeLeafRight
<1>2. /\ pc = "apply" /\ target.leaf /\ call.node \in NodeId /\ isHeap(shrunk)
      /\ \A id \in NodeId : shrunk[id].leaf = nodes[id].leaf
  BY <1>1, ShrunkType DEF Removes
<1>3. target.right \in NodeId /\ nodes[target.right].leaf = target.leaf
  BY <1>1, <1>2, MateType DEF mergesRight, target
<1>4. << >> \in Seq(KeyType) /\ Len(<< >>) = 0
  OBVIOUS
<1>5. /\ shrunk[call.node].leaf = shrunk[target.right].leaf
      /\ shrunk[call.node].leaf
  BY <1>2, <1>3 DEF target
<1>6. isHeap(nodes')
  <2> DEFINE h == shrunk
             l == call.node
             r == target.right
             seam == << >>
  <2>1. l \in NodeId /\ r \in NodeId /\ isHeap(h) /\ h[l].leaf = h[r].leaf
    BY <1>2, <1>3, <1>5
  <2>2. seam \in Seq(KeyType) /\ Len(seam) = IF h[l].leaf THEN 0 ELSE 1
    BY <1>4, <1>5
  <2>3. nodes' = merged(h, l, r, seam)
    BY <1>1
  <2> HIDE DEF h, l, r, seam
  <2> QED
    BY <2>1, <2>2, <2>3, MergedType
<1>7. [key |-> NoKey, node |-> target.right, type |-> "MergeRight"] \in ChildChange
  BY <1>3, IdAssumption DEF ChildChange, ChangeType, KeyType, Nil
<1>8. allocated' \subseteq NodeId /\ stack' \in Seq(Frame) /\ Restructured \in ErrorCode
  BY <1>1 DEF TypeInv, TypeOK, Restructured, ErrorCode
<1> QED
  BY <1>1, <1>2, <1>6, <1>7, <1>8, GiveType

\* A leaf that borrows entries from its left sibling.
LEMMA RedistributeLeafLeftType ==
  ASSUME TypeInv, RedistributeLeafLeft
  PROVE  TypeInv'
<1> DEFINE n == erased(target)
           s == nodes[n.left]
           d == excess(n, s)
           moved == drop(s.keys, size(s) - d)
           movedValues == drop(s.values, size(s) - d)
           keys == moved \o n.keys
           values == movedValues \o n.values
           low == keys[1]
           taker == [n EXCEPT !.keys = keys, !.lowest = low, !.values = values]
           giver == [s EXCEPT !.keys = take(@, size(s) - d), !.values = take(@, size(s) - d)]
           slot == call.idx
<1>1. /\ Removes /\ starved /\ borrowsLeft(call.node)
      /\ nodes' = [nodes EXCEPT ![call.node] = taker, ![n.left] = giver,
                                ![n.parent].keys[slot] = low]
      /\ Give(Restructured, [key |-> low, node |-> Nil, type |-> "RedistributeLeft"])
      /\ allocated' = allocated /\ stack' = stack
  BY DEF RedistributeLeafLeft
<1>2. /\ pc = "apply" /\ call.node \in NodeId /\ isNode(n) /\ n.leaf /\ isUnderflowing(n)
      /\ target.leaf /\ n.left = target.left
  BY <1>1, ShrunkType, ErasedType DEF Removes, starved
<1>3. n.left \in NodeId /\ isNode(s) /\ s.leaf /\ isBorrowable(s)
  <2>1. target.left = mate(call.node)
    BY <1>1, <1>2, MateType DEF borrowsLeft, target
  <2>2. mate(call.node) \in NodeId /\ isNode(nodes[mate(call.node)])
        /\ nodes[mate(call.node)].leaf = target.leaf
    BY <1>1, <1>2, MateType DEF borrowsLeft, target
  <2> QED
    BY <1>1, <1>2, <2>1, <2>2 DEF borrowsLeft
<1>4. d \in 1 .. (Len(s.keys) - 1)
  BY <1>2, <1>3, BorrowRange
<1> HIDE DEF n, s, d
<1>5. /\ n.keys \in Seq(Key) /\ n.values \in Seq(Value) /\ Len(n.values) = Len(n.keys)
      /\ s.keys \in Seq(Key) /\ s.values \in Seq(Value) /\ Len(s.values) = Len(s.keys)
  BY <1>2, <1>3 DEF isNode
<1>6. /\ d \in 0 .. Len(s.keys) /\ size(s) - d \in 0 .. Len(s.keys)
      /\ size(s) = Len(s.keys) /\ Len(s.keys) \in Nat
  BY <1>4, <1>5 DEF size
<1> DEFINE kept == take(s.keys, size(s) - d)
           keptValues == take(s.values, size(s) - d)
<1>7. /\ moved \in Seq(Key) /\ Len(moved) = d
      /\ movedValues \in Seq(Value) /\ Len(movedValues) = d
  <2>1. moved \in Seq(Key) /\ Len(moved) = Len(s.keys) - (size(s) - d)
    BY ONLY <1>5, <1>6, DropType
  <2>2. movedValues \in Seq(Value) /\ Len(movedValues) = Len(s.values) - (size(s) - d)
    BY ONLY <1>5, <1>6, DropType
  <2> QED
    BY <1>5, <1>6, <2>1, <2>2
<1>8. /\ kept \in Seq(Key) /\ Len(kept) = Len(s.keys) - d
      /\ keptValues \in Seq(Value) /\ Len(keptValues) = Len(s.keys) - d
  <2>1. kept \in Seq(Key) /\ Len(kept) = size(s) - d
    BY ONLY <1>5, <1>6, TakeType
  <2>2. keptValues \in Seq(Value) /\ Len(keptValues) = size(s) - d
    BY ONLY <1>5, <1>6, TakeType
  <2> QED
    BY <1>6, <2>1, <2>2
<1> HIDE DEF moved, movedValues, kept, keptValues
<1>9. keys \in Seq(Key) /\ Len(keys) = d + Len(n.keys)
  BY <1>5, <1>7, ConcatProperties
<1>10. values \in Seq(Value) /\ Len(values) = d + Len(n.keys)
  <2>1. values \in Seq(Value) /\ Len(values) = Len(movedValues) + Len(n.values)
    BY <1>5, <1>7, ConcatProperties
  <2> QED
    BY <1>5, <1>7, <2>1
<1> HIDE DEF keys, values
<1>11. low \in Key
  BY <1>4, <1>5, <1>9
<1>12. /\ keys \in Seq(KeyType) /\ kept \in Seq(KeyType) /\ low \in KeyType
  BY <1>8, <1>9, <1>11 DEF KeyType
<1>13. giver = [s EXCEPT !.keys = kept, !.values = keptValues]
  BY <1>3 DEF kept, keptValues, isNode
<1> HIDE DEF low
<1>14. isNode(taker)
  BY <1>2, <1>9, <1>10, <1>12 DEF isNode
<1>15. isNode(giver)
  BY <1>3, <1>8, <1>12, <1>13 DEF isNode
<1> HIDE DEF taker, giver
<1>16. isHeap(nodes')
  <2> DEFINE h == [nodes EXCEPT ![call.node] = taker, ![n.left] = giver]
  <2>1. isHeap(h)
    BY <1>14, <1>15, HeapUpdate DEF TypeInv, TypeOK
  <2>2. nodes' = [h EXCEPT ![n.parent].keys[slot] = low]
    BY <1>1
  <2> HIDE DEF h, slot
  <2> QED
    BY <1>11, <2>1, <2>2, ParentKeyUpdate
<1>17. [key |-> low, node |-> Nil, type |-> "RedistributeLeft"] \in ChildChange
  BY <1>12 DEF ChildChange, ChangeType
<1>18. allocated' \subseteq NodeId /\ stack' \in Seq(Frame) /\ Restructured \in ErrorCode
  BY <1>1 DEF TypeInv, TypeOK, Restructured, ErrorCode
<1> QED
  BY <1>1, <1>2, <1>16, <1>17, <1>18, GiveType

\* The same with the right sibling.
LEMMA RedistributeLeafRightType ==
  ASSUME TypeInv, RedistributeLeafRight
  PROVE  TypeInv'
<1> DEFINE n == erased(target)
           s == nodes[n.right]
           d == excess(n, s)
           moved == take(s.keys, d)
           movedValues == take(s.values, d)
           keys == n.keys \o moved
           values == n.values \o movedValues
           low == s.keys[d + 1]
           taker == [n EXCEPT !.keys = keys, !.values = values]
           giver == [s EXCEPT !.keys = drop(@, d), !.values = drop(@, d), !.lowest = low]
           slot == call.idx + 1
<1>1. /\ Removes /\ starved /\ borrowsRight(call.node)
      /\ nodes' = [nodes EXCEPT ![call.node] = taker, ![n.right] = giver,
                                ![n.parent].keys[slot] = low]
      /\ Give(Restructured, [key |-> low, node |-> Nil, type |-> "RedistributeRight"])
      /\ allocated' = allocated /\ stack' = stack
  BY DEF RedistributeLeafRight
<1>2. /\ pc = "apply" /\ call.node \in NodeId /\ isNode(n) /\ n.leaf /\ isUnderflowing(n)
      /\ target.leaf /\ n.right = target.right
  BY <1>1, ShrunkType, ErasedType DEF Removes, starved
<1>3. n.right \in NodeId /\ isNode(s) /\ s.leaf /\ isBorrowable(s)
  <2>1. target.right = mate(call.node)
    BY <1>1, <1>2, MateType DEF borrowsRight, target
  <2>2. mate(call.node) \in NodeId /\ isNode(nodes[mate(call.node)])
        /\ nodes[mate(call.node)].leaf = target.leaf
    BY <1>1, <1>2, MateType DEF borrowsRight, target
  <2> QED
    BY <1>1, <1>2, <2>1, <2>2 DEF borrowsRight
<1>4. d \in 1 .. (Len(s.keys) - 1)
  BY <1>2, <1>3, BorrowRange
<1> HIDE DEF n, s, d
<1>5. /\ n.keys \in Seq(Key) /\ n.values \in Seq(Value) /\ Len(n.values) = Len(n.keys)
      /\ s.keys \in Seq(Key) /\ s.values \in Seq(Value) /\ Len(s.values) = Len(s.keys)
  BY <1>2, <1>3 DEF isNode
<1>6. /\ d \in 0 .. Len(s.keys) /\ size(s) - d \in 0 .. Len(s.keys)
      /\ size(s) = Len(s.keys) /\ Len(s.keys) \in Nat
  BY <1>4, <1>5 DEF size
<1> DEFINE kept == drop(s.keys, d)
           keptValues == drop(s.values, d)
<1>7. /\ moved \in Seq(Key) /\ Len(moved) = d
      /\ movedValues \in Seq(Value) /\ Len(movedValues) = d
  <2>1. moved \in Seq(Key) /\ Len(moved) = d
    BY ONLY <1>5, <1>6, TakeType
  <2>2. movedValues \in Seq(Value) /\ Len(movedValues) = d
    BY ONLY <1>5, <1>6, TakeType
  <2> QED
    BY <2>1, <2>2
<1>8. /\ kept \in Seq(Key) /\ Len(kept) = Len(s.keys) - d
      /\ keptValues \in Seq(Value) /\ Len(keptValues) = Len(s.keys) - d
  <2>1. kept \in Seq(Key) /\ Len(kept) = Len(s.keys) - d
    BY ONLY <1>5, <1>6, DropType
  <2>2. keptValues \in Seq(Value) /\ Len(keptValues) = Len(s.keys) - d
    BY ONLY <1>5, <1>6, DropType
  <2> QED
    BY <2>1, <2>2
<1> HIDE DEF moved, movedValues, kept, keptValues
<1>9. keys \in Seq(Key) /\ Len(keys) = Len(n.keys) + d
  BY <1>5, <1>7, ConcatProperties
<1>10. values \in Seq(Value) /\ Len(values) = Len(n.keys) + d
  <2>1. values \in Seq(Value) /\ Len(values) = Len(n.values) + Len(movedValues)
    BY <1>5, <1>7, ConcatProperties
  <2> QED
    BY <1>5, <1>7, <2>1
<1> HIDE DEF keys, values
<1>11. low \in Key
  BY <1>4, <1>5
<1>12. /\ keys \in Seq(KeyType) /\ kept \in Seq(KeyType) /\ low \in KeyType
  BY <1>8, <1>9, <1>11 DEF KeyType
<1>13. giver = [s EXCEPT !.keys = kept, !.values = keptValues, !.lowest = low]
  BY <1>3 DEF kept, keptValues, isNode
<1> HIDE DEF low
<1>14. isNode(taker)
  BY <1>2, <1>9, <1>10, <1>12 DEF isNode
<1>15. isNode(giver)
  BY <1>3, <1>8, <1>12, <1>13 DEF isNode
<1> HIDE DEF taker, giver
<1>16. isHeap(nodes')
  <2> DEFINE h == [nodes EXCEPT ![call.node] = taker, ![n.right] = giver]
  <2>1. isHeap(h)
    BY <1>14, <1>15, HeapUpdate DEF TypeInv, TypeOK
  <2>2. nodes' = [h EXCEPT ![n.parent].keys[slot] = low]
    BY <1>1
  <2> HIDE DEF h, slot
  <2> QED
    BY <1>11, <2>1, <2>2, ParentKeyUpdate
<1>17. [key |-> low, node |-> Nil, type |-> "RedistributeRight"] \in ChildChange
  BY <1>12 DEF ChildChange, ChangeType
<1>18. allocated' \subseteq NodeId /\ stack' \in Seq(Frame) /\ Restructured \in ErrorCode
  BY <1>1 DEF TypeInv, TypeOK, Restructured, ErrorCode
<1> QED
  BY <1>1, <1>2, <1>16, <1>17, <1>18, GiveType

-----------------------------------------------------------------------------
(* The root *)

\* The root of a running call.
LEMMA RootType ==
  ASSUME TypeInv, pc # "idle"
  PROVE  rootNode \in NodeId /\ isNode(root)
BY DEF TypeInv, TypeOK, RunningCall, isHeap, root

\* A new root over the two halves of the old one.
LEMMA SplitRootType ==
  ASSUME TypeInv, SplitRoot
  PROVE  TypeInv'
<1> DEFINE top == [NewLeaf EXCEPT !.leaf = FALSE, !.keys = <<change.key>>,
                                  !.children = <<rootNode, change.node>>,
                                  !.lowest = root.lowest]
<1>1. PICK id \in NodeId :
        /\ nodes' = reparent([nodes EXCEPT ![id] = top], {rootNode, change.node}, id)
        /\ allocated' = allocated \cup {id}
        /\ rootNode' = id
  BY DEF SplitRoot
<1>2. pc = "return" /\ change.node # Nil /\ Leave({})
  BY DEF SplitRoot, Returned
<1>3. rootNode \in NodeId /\ isNode(root)
  BY <1>2, RootType
<1>4. change.node \in NodeId /\ change.key \in KeyType
  BY <1>2 DEF TypeInv, TypeOK, ChildChange
<1>5. isNode(top)
  <2>1. <<change.key>> \in Seq(KeyType) /\ Len(<<change.key>>) = 1
    BY <1>4
  <2>2. <<rootNode, change.node>> \in Seq(NodeId) /\ Len(<<rootNode, change.node>>) = 2
    BY <1>3, <1>4
  <2> QED
    BY <1>3, <2>1, <2>2, NewLeafType DEF isNode, NewLeaf
<1> HIDE DEF top
<1>6. isHeap(nodes')
  BY <1>1, <1>5, HeapUpdate, HeapReparent DEF TypeInv, TypeOK
<1>7. allocated' \subseteq NodeId /\ rootNode' \in NodeId
  BY <1>1 DEF TypeInv, TypeOK
<1> QED
  BY <1>2, <1>6, <1>7, LeaveType

\* The last entry is gone: the root leaf is deleted.
LEMMA DeleteRootLeafType ==
  ASSUME TypeInv, DeleteRootLeaf
  PROVE  TypeInv'
<1>1. nodes' = [nodes EXCEPT ![rootNode] = NewLeaf] /\ Leave({})
  BY DEF DeleteRootLeaf
<1>2. isHeap(nodes')
  BY <1>1, NewLeafType, HeapUpdate DEF TypeInv, TypeOK
<1>3. allocated' \subseteq NodeId /\ rootNode' \in NodeId \cup {Nil}
  BY DEF DeleteRootLeaf, TypeInv, TypeOK
<1> QED
  BY <1>1, <1>2, <1>3, LeaveType

\* The only child becomes the root.
LEMMA CollapseRootType ==
  ASSUME TypeInv, CollapseRoot
  PROVE  TypeInv'
<1> DEFINE crowned == [nodes[heir] EXCEPT !.parent = Nil, !.left = Nil, !.right = Nil,
                                          !.buffer = overlay(root.buffer, @)]
           h == [nodes EXCEPT ![heir] = crowned]
<1>1. /\ nodes' = [nodes EXCEPT ![heir] = crowned, ![rootNode].buffer = << >>]
      /\ pc = "return" /\ ~root.leaf /\ size(root) = 0
      /\ rootNode' = heir /\ allocated' = allocated /\ Leave({rootNode})
  BY DEF CollapseRoot, Returned
<1>2. rootNode \in NodeId /\ isNode(root)
  BY <1>1, RootType
<1>3. heir \in NodeId
  <2>1. root.children \in Seq(NodeId) /\ Len(root.children) = 1
    BY <1>1, <1>2 DEF isNode, size
  <2> QED
    BY <2>1 DEF heir
<1>4. isNode(crowned)
  <2>1. isNode(nodes[heir]) /\ isBuffer(overlay(root.buffer, nodes[heir].buffer))
    BY <1>2, <1>3, OverlayType DEF TypeInv, TypeOK, isHeap, isNode
  <2> QED
    BY <2>1 DEF isNode
<1> HIDE DEF crowned
<1>5. isHeap(h)
  BY <1>4, HeapUpdate DEF TypeInv, TypeOK
<1>6. isNode([h[rootNode] EXCEPT !.buffer = << >>])
  <2>1. isNode(h[rootNode]) /\ isBuffer(<< >>)
    BY <1>2, <1>5 DEF isHeap, isBuffer
  <2> QED
    BY <2>1 DEF isNode
<1>7. nodes' = [h EXCEPT ![rootNode] = [h[rootNode] EXCEPT !.buffer = << >>]]
  BY <1>1
<1> HIDE DEF h
<1>8. isHeap(nodes')
  BY <1>5, <1>6, <1>7, HeapUpdate
<1>9. allocated' \subseteq NodeId /\ {rootNode} \in SUBSET NodeId
  BY <1>1, <1>2 DEF TypeInv, TypeOK
<1> QED
  BY <1>1, <1>3, <1>8, <1>9, LeaveType

\* A call that leaves the root alone.
LEMMA FinishType ==
  ASSUME TypeInv, Finish
  PROVE  TypeInv'
<1>1. /\ Leave({}) /\ isHeap(nodes') /\ allocated' \subseteq NodeId
      /\ rootNode' \in NodeId \cup {Nil}
  BY DEF Finish, heap, TypeInv, TypeOK
<1> QED
  BY <1>1, LeaveType

-----------------------------------------------------------------------------
(* The theorem *)

\* Every step of a running call, every start of a call and every step of the
\* environment preserves the invariant.
LEMMA StepType ==
  ASSUME TypeInv, [Next]_vars
  PROVE  TypeInv'
<1>1. CASE InternalStep
  BY <1>1, BufferMessageType, StartFlushType, PassMessageType, ChildReturnsType, EndFlushType,
     SplitInternalType, RedistributeInternalLeftType, RedistributeInternalRightType,
     MergeInternalLeftType, MergeInternalRightType DEF InternalStep
<1>2. CASE LeafStep
  BY <1>2, InsertInLeafType, SplitLeafType, RemoveMissingType, RemoveFromLeafType,
     RedistributeLeafLeftType, RedistributeLeafRightType, MergeLeafLeftType, MergeLeafRightType
     DEF LeafStep
<1>3. CASE RootStep
  BY <1>3, SplitRootType, DeleteRootLeafType, CollapseRootType, FinishType DEF RootStep
<1>4. ASSUME NEW p \in Insertable, StartInsertEmpty(p[1], p[2]) \/ StartInsert(p[1], p[2])
      PROVE  TypeInv'
  <2>1. p[1] \in Key /\ p[2] \in Value
    BY ValueAssumption
  <2> QED
    BY <1>4, <2>1, StartInsertEmptyType, StartInsertType
<1>5. ASSUME NEW k \in Key, StartRemove(k)
      PROVE  TypeInv'
  BY <1>5, StartRemoveType
<1>6. CASE UNCHANGED vars
  BY <1>6 DEF vars, TypeInv, TypeOK, RunningCall, isHeap
<1>7. ASSUME NEW k \in Key, Search(k)
      PROVE  TypeInv'
  BY <1>6, <1>7 DEF Search
<1> QED
  BY <1>1, <1>2, <1>3, <1>4, <1>5, <1>6, <1>7 DEF Next, Step

\* Type correctness: whatever the keys, the fanout, the buffer size and the
\* sequence of calls, every node keeps as many values as keys or one child more
\* than it has keys, and no step of BeTree::applyMessage, flushBuffer, split,
\* redistribute or merge leaves the vectors of a node, the ChildChange or the
\* stack of flushes malformed.
THEOREM TypeCorrect == Spec => []TypeOK
<1>1. Init => TypeInv
  BY InitType
<1>2. TypeInv /\ [Next]_vars => TypeInv'
  BY StepType
<1>3. TypeInv => TypeOK
  BY DEF TypeInv
<1> QED
  BY <1>1, <1>2, <1>3, PTL DEF Spec

-----------------------------------------------------------------------------
(* A tree of linked nodes, and splitting one of them *)

\* The tree is a forest under a top that is no node: Nil stands for it, and T lists its children.
\* N is a table of nodes. The children of p, how many they are, and child i of p.
kids(N, T, p) == IF p = Nil THEN T ELSE N[p].children
deg(N, T, p) == Len(kids(N, T, p))
kid(N, T, p, i) == kids(N, T, p)[i]
\* The parent of a node, and its neighbours; the top has none.
up(N, id) == N[id].parent
lft(N, p) == IF p = Nil THEN Nil ELSE N[p].left
rgt(N, p) == IF p = Nil THEN Nil ELSE N[p].right
\* The first and the last child of p.
firstKid(N, T, p) == IF p = Nil THEN Nil ELSE kid(N, T, p, 1)
lastKid(N, T, p) == IF p = Nil THEN Nil ELSE kid(N, T, p, deg(N, T, p))

\* The children of what is in L are in L, name it as their parent, and are not listed twice.
Downward(N, T, L) ==
  \A p \in L \cup {Nil} :
    /\ deg(N, T, p) \in Nat
    /\ \A i \in 1 .. deg(N, T, p) : kid(N, T, p, i) \in L /\ up(N, kid(N, T, p, i)) = p
    /\ \A i, j \in 1 .. deg(N, T, p) : kid(N, T, p, i) = kid(N, T, p, j) => i = j

\* What is in L is a child of what it names as its parent.
Upward(N, T, L) ==
  \A id \in L :
    /\ up(N, id) \in L \cup {Nil}
    /\ \E i \in 1 .. deg(N, T, up(N, id)) : kid(N, T, up(N, id), i) = id

\* h counts levels from the leaves, which have level 0 as they have no children; all below the
\* same node are a level below it.
Levels(N, T, L, h) ==
  /\ \A p \in L \cup {Nil} :
       /\ h[p] \in Nat
       /\ deg(N, T, p) = 0 <=> h[p] = 0
       /\ \A i \in 1 .. deg(N, T, p) : h[p] = h[kid(N, T, p, i)] + 1
  /\ \A id \in L : h[id] < h[Nil]

\* Neighbours name one another and are on one level.
Mutual(N, L, h) ==
  /\ lft(N, Nil) = Nil /\ rgt(N, Nil) = Nil
  /\ \A id \in L :
       /\ lft(N, id) # Nil => /\ lft(N, id) \in L /\ lft(N, id) # id
                              /\ rgt(N, lft(N, id)) = id /\ h[lft(N, id)] = h[id]
       /\ rgt(N, id) # Nil => /\ rgt(N, id) \in L /\ rgt(N, id) # id
                              /\ lft(N, rgt(N, id)) = id /\ h[rgt(N, id)] = h[id]

\* The neighbour of a child is the next child of its parent, and past the last one the first
\* child of the parent's neighbour.
Rows(N, T, L) ==
  \A p \in L \cup {Nil} : \A i \in 1 .. deg(N, T, p) :
    /\ lft(N, kid(N, T, p, i)) = IF i > 1 THEN kid(N, T, p, i - 1) ELSE lastKid(N, T, lft(N, p))
    /\ rgt(N, kid(N, T, p, i)) = IF i < deg(N, T, p) THEN kid(N, T, p, i + 1)
                                 ELSE firstKid(N, T, rgt(N, p))

\* N with the tops T is a tree of the nodes L, with h their levels.
Tree(N, T, L, h) ==
  Downward(N, T, L) /\ Upward(N, T, L) /\ Levels(N, T, L, h) /\ Mutual(N, L, h) /\ Rows(N, T, L)

\* M, U, g are N, T, h after y was split off x at m; x is child i of p.
Halved(N, T, h, M, U, g, L, p, i, x, y, m) ==
  /\ p \in L \cup {Nil} /\ i \in 1 .. deg(N, T, p) /\ kid(N, T, p, i) = x
  /\ y \notin L /\ y # Nil
  /\ m \in 0 .. deg(N, T, x) /\ (deg(N, T, x) > 0 => 1 <= m /\ m < deg(N, T, x))
  /\ \A q \in L \cup {Nil} : q # x /\ q # p =>
       /\ deg(M, U, q) = deg(N, T, q)
       /\ \A j \in 1 .. deg(N, T, q) : kid(M, U, q, j) = kid(N, T, q, j)
  /\ deg(M, U, x) = m
  /\ \A j \in 1 .. m : kid(M, U, x, j) = kid(N, T, x, j)
  /\ deg(M, U, y) = deg(N, T, x) - m
  /\ \A j \in 1 .. (deg(N, T, x) - m) : kid(M, U, y, j) = kid(N, T, x, m + j)
  /\ deg(M, U, p) = deg(N, T, p) + 1
  /\ \A j \in 1 .. i : kid(M, U, p, j) = kid(N, T, p, j)
  /\ kid(M, U, p, i + 1) = y
  /\ \A j \in (i + 2) .. (deg(N, T, p) + 1) : kid(M, U, p, j) = kid(N, T, p, j - 1)
  /\ up(M, y) = p
  /\ \A id \in L : up(M, id) = IF \E j \in (m + 1) .. deg(N, T, x) : id = kid(N, T, x, j)
                               THEN y ELSE up(N, id)
  /\ lft(M, Nil) = Nil /\ rgt(M, Nil) = Nil
  /\ lft(M, y) = x /\ rgt(M, y) = rgt(N, x) /\ rgt(M, x) = y
  /\ \A id \in L : lft(M, id) = IF id = rgt(N, x) THEN y ELSE lft(N, id)
  /\ \A id \in L : id # x => rgt(M, id) = rgt(N, id)
  /\ g[y] = h[x] /\ \A q \in L \cup {Nil} : g[q] = h[q]

\* Splitting a node keeps the tree.
LEMMA SplitTree ==
  ASSUME NEW N, NEW T, NEW L, NEW h, Nil \notin L, Tree(N, T, L, h),
         NEW M, NEW U, NEW g, NEW p, NEW i, NEW x, NEW y, NEW m,
         Halved(N, T, h, M, U, g, L, p, i, x, y, m)
  PROVE  Tree(M, U, L \cup {y}, g)
<1>0. /\ x \in L /\ x # p /\ y # x /\ y # p /\ up(N, x) = p /\ x # Nil
      /\ h[p] = h[x] + 1 /\ h[x] \in Nat /\ h[p] \in Nat /\ deg(N, T, x) \in Nat /\ deg(N, T, p) \in Nat
  BY DEF Halved, Tree, Downward, Levels
<1>1. Downward(M, U, L \cup {y})
  <2> SUFFICES ASSUME NEW q \in (L \cup {y}) \cup {Nil}
               PROVE  /\ deg(M, U, q) \in Nat
                      /\ \A j \in 1 .. deg(M, U, q) : kid(M, U, q, j) \in L \cup {y} /\ up(M, kid(M, U, q, j)) = q
                      /\ \A j, k \in 1 .. deg(M, U, q) : kid(M, U, q, j) = kid(M, U, q, k) => j = k
    BY DEF Downward
  <2>0. /\ \A j \in 1 .. deg(N, T, x) : kid(N, T, x, j) \in L /\ up(N, kid(N, T, x, j)) = x
        /\ \A j, k \in 1 .. deg(N, T, x) : kid(N, T, x, j) = kid(N, T, x, k) => j = k
    BY <1>0 DEF Tree, Downward
  <2>1. CASE q = x
    <3>1. deg(M, U, x) = m /\ m \in 0 .. deg(N, T, x) /\ \A j \in 1 .. m : kid(M, U, x, j) = kid(N, T, x, j)
      BY DEF Halved
    <3>2. \A j \in 1 .. m : up(M, kid(N, T, x, j)) = x
      BY <1>0, <2>0, <3>1 DEF Halved
    <3> QED
      BY <2>1, <1>0, <2>0, <3>1, <3>2
  <2>2. CASE q = y
    <3>1. /\ deg(M, U, y) = deg(N, T, x) - m /\ m \in 0 .. deg(N, T, x)
          /\ \A j \in 1 .. (deg(N, T, x) - m) : kid(M, U, y, j) = kid(N, T, x, m + j)
      BY DEF Halved
    <3>2. \A j \in (m + 1) .. deg(N, T, x) : up(M, kid(N, T, x, j)) = y
      BY <1>0, <2>0, <3>1 DEF Halved
    <3>3. \A j \in 1 .. (deg(N, T, x) - m) : m + j \in (m + 1) .. deg(N, T, x) /\ m + j \in 1 .. deg(N, T, x)
      BY <1>0, <3>1
    <3> QED
      BY <2>2, <1>0, <2>0, <3>1, <3>2, <3>3
  <2>3. CASE q = p
    BY <2>3, <1>0 DEF Halved, Tree, Downward
  <2>4. CASE q # x /\ q # y /\ q # p
    BY <2>4, <1>0 DEF Halved, Tree, Downward
  <2> QED
    BY <2>1, <2>2, <2>3, <2>4
<1>2. Upward(M, U, L \cup {y})
  <2> SUFFICES ASSUME NEW id \in L \cup {y}
               PROVE  /\ up(M, id) \in (L \cup {y}) \cup {Nil}
                      /\ \E j \in 1 .. deg(M, U, up(M, id)) : kid(M, U, up(M, id), j) = id
    BY DEF Upward
  <2>1. CASE id = y
    BY <2>1, <1>0 DEF Halved
  <2>2. CASE id # y
    <3>1. PICK j \in 1 .. deg(N, T, up(N, id)) : kid(N, T, up(N, id), j) = id
      BY <2>2 DEF Tree, Upward
    <3>2. CASE up(N, id) = x /\ j > m
      <4>1. up(M, id) = y /\ j - m \in 1 .. deg(M, U, y) /\ kid(M, U, y, j - m) = id
        BY <3>1, <3>2, <2>2, <1>0 DEF Halved
      <4> QED
        BY <4>1
    <3>3. CASE up(N, id) = x /\ j <= m
      BY <3>1, <3>3, <2>2, <1>0 DEF Halved, Tree, Downward
    <3>4. CASE up(N, id) = p /\ j <= i
      BY <3>1, <3>4, <2>2, <1>0 DEF Halved, Tree, Downward
    <3>5. CASE up(N, id) = p /\ j > i
      <4>1. up(M, id) = p /\ j + 1 \in 1 .. deg(M, U, p) /\ kid(M, U, p, j + 1) = id
        BY <3>1, <3>5, <2>2, <1>0 DEF Halved, Tree, Downward
      <4> QED
        BY <4>1, <1>0 DEF Halved
    <3>6. CASE up(N, id) # x /\ up(N, id) # p
      BY <3>1, <3>6, <2>2, <1>0 DEF Halved, Tree, Downward, Upward
    <3> QED
      BY <3>1, <3>2, <3>3, <3>4, <3>5, <3>6, <1>0 DEF Halved
  <2> QED
    BY <2>1, <2>2
<1>3. Levels(M, U, L \cup {y}, g)
  <2>1. \A id \in L \cup {y} : g[id] < g[Nil]
    BY <1>0 DEF Halved, Tree, Levels
  <2> SUFFICES ASSUME NEW q \in (L \cup {y}) \cup {Nil}
               PROVE  /\ g[q] \in Nat
                      /\ deg(M, U, q) = 0 <=> g[q] = 0
                      /\ \A j \in 1 .. deg(M, U, q) : g[q] = g[kid(M, U, q, j)] + 1
    BY <2>1 DEF Levels
  <2>2. CASE q = x
    BY <2>2, <1>0 DEF Halved, Tree, Downward, Levels
  <2>3. CASE q = y
    BY <2>3, <1>0 DEF Halved, Tree, Downward, Levels
  <2>4. CASE q = p
    BY <2>4, <1>0 DEF Halved, Tree, Downward, Levels
  <2>5. CASE q # x /\ q # y /\ q # p
    BY <2>5, <1>0 DEF Halved, Tree, Downward, Levels
  <2> QED
    BY <2>2, <2>3, <2>4, <2>5
<1>4. Mutual(M, L \cup {y}, g)
  <2> SUFFICES ASSUME NEW id \in L \cup {y}
               PROVE  /\ lft(M, id) # Nil => /\ lft(M, id) \in L \cup {y} /\ lft(M, id) # id
                              /\ rgt(M, lft(M, id)) = id /\ g[lft(M, id)] = g[id]
                      /\ rgt(M, id) # Nil => /\ rgt(M, id) \in L \cup {y} /\ rgt(M, id) # id
                              /\ lft(M, rgt(M, id)) = id /\ g[rgt(M, id)] = g[id]
    BY DEF Mutual, Halved
  <2> QED
    BY <1>0 DEF Halved, Tree, Mutual
<1>5. Rows(M, U, L \cup {y})
  <2> SUFFICES ASSUME NEW q \in (L \cup {y}) \cup {Nil}, NEW j \in 1 .. deg(M, U, q)
               PROVE  /\ lft(M, kid(M, U, q, j)) = IF j > 1 THEN kid(M, U, q, j - 1)
                                                  ELSE lastKid(M, U, lft(M, q))
                      /\ rgt(M, kid(M, U, q, j)) = IF j < deg(M, U, q) THEN kid(M, U, q, j + 1)
                                                  ELSE firstKid(M, U, rgt(M, q))
    BY DEF Rows
  <2>1. \A z \in L : h[z] # h[x] => lft(M, z) = lft(N, z) /\ rgt(M, z) = rgt(N, z)
    BY <1>0 DEF Halved, Tree, Mutual
  <2>2. \A r \in L \cup {Nil} : r # x /\ r # p /\ deg(N, T, r) > 0 =>
          /\ firstKid(M, U, r) = firstKid(N, T, r)
          /\ lastKid(M, U, r) = lastKid(N, T, r)
    BY <1>0 DEF Halved, Tree, Downward, firstKid, lastKid
  <2>3. \A r \in L \cup {Nil} : \A k \in 1 .. deg(N, T, r) :
          LET z == kid(N, T, r, k) IN
          /\ z \in L /\ up(N, z) = r /\ h[r] = h[z] + 1 /\ h[z] \in Nat /\ h[r] \in Nat /\ deg(N, T, r) > 0
          /\ lft(N, z) = IF k > 1 THEN kid(N, T, r, k - 1) ELSE lastKid(N, T, lft(N, r))
          /\ rgt(N, z) = IF k < deg(N, T, r) THEN kid(N, T, r, k + 1) ELSE firstKid(N, T, rgt(N, r))
    BY DEF Tree, Downward, Levels, Rows
  <2>4. firstKid(N, T, Nil) = Nil /\ lastKid(N, T, Nil) = Nil /\ firstKid(M, U, Nil) = Nil /\ lastKid(M, U, Nil) = Nil
    BY DEF firstKid, lastKid
  <2>5. \A z \in L : /\ lft(N, z) # Nil => /\ lft(N, z) \in L /\ lft(N, z) # z
                              /\ rgt(N, lft(N, z)) = z /\ h[lft(N, z)] = h[z]
                     /\ rgt(N, z) # Nil => /\ rgt(N, z) \in L /\ rgt(N, z) # z
                              /\ lft(N, rgt(N, z)) = z /\ h[rgt(N, z)] = h[z]
    BY DEF Tree, Mutual
  <2>6. /\ lft(N, Nil) = Nil /\ rgt(N, Nil) = Nil /\ lft(M, Nil) = Nil /\ rgt(M, Nil) = Nil
        /\ lft(M, y) = x /\ rgt(M, y) = rgt(N, x) /\ rgt(M, x) = y
        /\ \A id \in L : lft(M, id) = IF id = rgt(N, x) THEN y ELSE lft(N, id)
        /\ \A id \in L : id # x => rgt(M, id) = rgt(N, id)
    BY DEF Halved, Tree, Mutual
  <2>7. \A r \in L \cup {Nil} : h[r] \in Nat /\ (deg(N, T, r) = 0 <=> h[r] = 0) /\ deg(N, T, r) \in Nat
    BY DEF Tree, Levels, Downward
  <2>8. /\ p \in L \cup {Nil} /\ i \in 1 .. deg(N, T, p) /\ kid(N, T, p, i) = x
        /\ m \in 0 .. deg(N, T, x) /\ (deg(N, T, x) > 0 => 1 <= m /\ m < deg(N, T, x))
        /\ deg(M, U, x) = m /\ \A k \in 1 .. m : kid(M, U, x, k) = kid(N, T, x, k)
        /\ deg(M, U, y) = deg(N, T, x) - m
        /\ \A k \in 1 .. (deg(N, T, x) - m) : kid(M, U, y, k) = kid(N, T, x, m + k)
        /\ deg(M, U, p) = deg(N, T, p) + 1
        /\ \A k \in 1 .. i : kid(M, U, p, k) = kid(N, T, p, k)
        /\ kid(M, U, p, i + 1) = y
        /\ \A k \in (i + 2) .. (deg(N, T, p) + 1) : kid(M, U, p, k) = kid(N, T, p, k - 1)
    BY DEF Halved
  <2>9. \A r \in L \cup {Nil} : \A k, l \in 1 .. deg(N, T, r) : kid(N, T, r, k) = kid(N, T, r, l) => k = l
    BY DEF Tree, Downward
  <2>10. /\ \A r \in L : firstKid(N, T, r) = kid(N, T, r, 1) /\ lastKid(N, T, r) = kid(N, T, r, deg(N, T, r))
         /\ \A r \in L \cup {y} : firstKid(M, U, r) = kid(M, U, r, 1) /\ lastKid(M, U, r) = kid(M, U, r, deg(M, U, r))
    BY <1>0, Nil \notin L, y # Nil DEF firstKid, lastKid, Halved
  <2>11. CASE q = x
    <3> DEFINE z == kid(N, T, x, j)
    <3>1. /\ j \in 1 .. m /\ j \in 1 .. deg(N, T, x) /\ kid(M, U, x, j) = z /\ z \in L /\ h[x] = h[z] + 1
          /\ deg(N, T, x) > 0 /\ m >= 1 /\ m < deg(N, T, x) /\ h[x] > 0
      BY <2>11, <2>8, <2>3, <1>0
    <3>2. lft(M, z) = lft(N, z) /\ rgt(M, z) = rgt(N, z)
      BY <3>1, <2>1, <1>0, <2>7
    <3>3. /\ lft(N, z) = IF j > 1 THEN kid(N, T, x, j - 1) ELSE lastKid(N, T, lft(N, x))
          /\ rgt(N, z) = kid(N, T, x, j + 1)
      <4>1. j < deg(N, T, x) /\ x \in L \cup {Nil}
        BY <3>1, <2>8, <1>0
      <4> QED BY <3>1, <4>1, <2>3
    <3>4. lft(M, x) = lft(N, x)
      BY <2>5, <2>6, <1>0
    <3>5. lastKid(M, U, lft(N, x)) = lastKid(N, T, lft(N, x))
      <4>1. CASE lft(N, x) = Nil
        BY <4>1, <2>4
      <4>2. CASE lft(N, x) # Nil
        BY <4>2, <2>5, <2>7, <2>2, <3>1, <1>0
      <4> QED BY <4>1, <4>2
    <3>6. j < m => kid(M, U, x, j + 1) = kid(N, T, x, j + 1)
      BY <3>1, <2>8
    <3>7. j > 1 => kid(M, U, x, j - 1) = kid(N, T, x, j - 1)
      BY <3>1, <2>8
    <3>8. firstKid(M, U, rgt(M, x)) = kid(N, T, x, m + 1)
      <4>1. 1 \in 1 .. (deg(N, T, x) - m)
        BY <3>1, <2>8, <1>0
      <4>2. firstKid(M, U, y) = kid(M, U, y, 1)
        BY <2>10
      <4> QED BY <4>1, <4>2, <2>8, <2>6
    <3> QED
      BY <2>11, <2>8, <3>1, <3>2, <3>3, <3>4, <3>5, <3>6, <3>7, <3>8
  <2>12. CASE q = y
    <3> DEFINE z == kid(N, T, x, m + j)
    <3>1. /\ j \in 1 .. (deg(N, T, x) - m) /\ m + j \in 1 .. deg(N, T, x) /\ kid(M, U, y, j) = z /\ z \in L /\ h[x] = h[z] + 1
          /\ deg(N, T, x) > 0 /\ m >= 1 /\ m < deg(N, T, x) /\ h[x] > 0
      BY <2>12, <2>8, <2>3, <1>0
    <3>2. lft(M, z) = lft(N, z) /\ rgt(M, z) = rgt(N, z)
      BY <3>1, <2>1, <1>0, <2>7
    <3>3. /\ lft(N, z) = kid(N, T, x, m + j - 1)
          /\ rgt(N, z) = IF m + j < deg(N, T, x) THEN kid(N, T, x, m + j + 1) ELSE firstKid(N, T, rgt(N, x))
      BY <3>1, <2>3, <1>0, <2>8
    <3>5. firstKid(M, U, rgt(N, x)) = firstKid(N, T, rgt(N, x))
      <4>1. CASE rgt(N, x) = Nil
        BY <4>1, <2>4
      <4>2. CASE rgt(N, x) # Nil
        BY <4>2, <2>5, <2>7, <2>2, <3>1, <1>0
      <4> QED BY <4>1, <4>2
    <3>10. /\ m + (j + 1) = m + j + 1 /\ m + (j - 1) = m + j - 1
           /\ j < deg(M, U, y) => j + 1 \in 1 .. (deg(N, T, x) - m) /\ m + j < deg(N, T, x)
           /\ ~(j < deg(M, U, y)) => ~(m + j < deg(N, T, x))
           /\ j > 1 => j - 1 \in 1 .. (deg(N, T, x) - m)
           /\ ~(j > 1) => m + j - 1 = m
      BY <3>1, <2>8, <1>0
    <3>6. j < deg(M, U, y) => kid(M, U, y, j + 1) = kid(N, T, x, m + j + 1)
      <4>1. ASSUME j < deg(M, U, y) PROVE kid(M, U, y, j + 1) = kid(N, T, x, m + (j + 1))
        BY <4>1, <3>10, <2>8
      <4> QED BY <4>1, <3>10
    <3>7. j > 1 => kid(M, U, y, j - 1) = kid(N, T, x, m + j - 1)
      <4>1. ASSUME j > 1 PROVE kid(M, U, y, j - 1) = kid(N, T, x, m + (j - 1))
        BY <4>1, <3>10, <2>8
      <4> QED BY <4>1, <3>10
    <3>8. lastKid(M, U, lft(M, y)) = kid(N, T, x, m)
      BY <3>1, <2>8, <2>10, <2>6, <1>0
    <3>9. lft(M, kid(M, U, q, j)) = IF j > 1 THEN kid(M, U, q, j - 1) ELSE lastKid(M, U, lft(M, q))
      BY <2>12, <3>1, <3>2, <3>3, <3>7, <3>8, <3>10
    <3>11. rgt(M, z) = IF j < deg(M, U, y) THEN kid(M, U, y, j + 1) ELSE firstKid(M, U, rgt(M, y))
      <4>1. CASE j < deg(M, U, y)
        BY <4>1, <3>2, <3>3, <3>6, <3>10
      <4>2. CASE ~(j < deg(M, U, y))
        BY <4>2, <3>2, <3>3, <3>5, <3>10, <2>6
      <4> QED BY <4>1, <4>2
    <3> QED
      BY <2>12, <3>1, <3>9, <3>11
  <2>13. CASE q = p
    <3>0. /\ lft(M, p) = lft(N, p) /\ rgt(M, p) = rgt(N, p)
      BY <2>1, <2>6, <1>0, <2>8
    <3>1. lastKid(M, U, lft(N, p)) = lastKid(N, T, lft(N, p))
      <4>1. CASE lft(N, p) = Nil
        BY <4>1, <2>4
      <4>2. CASE lft(N, p) # Nil
        BY <4>2, <2>5, <2>6, <2>7, <2>2, <2>8, <1>0
      <4> QED BY <4>1, <4>2
    <3>2. firstKid(M, U, rgt(N, p)) = firstKid(N, T, rgt(N, p))
      <4>1. CASE rgt(N, p) = Nil
        BY <4>1, <2>4
      <4>2. CASE rgt(N, p) # Nil
        BY <4>2, <2>5, <2>6, <2>7, <2>2, <2>8, <1>0
      <4> QED BY <4>1, <4>2
    <3>3. rgt(N, x) = IF i < deg(N, T, p) THEN kid(N, T, p, i + 1) ELSE firstKid(N, T, rgt(N, p))
      BY <2>3, <2>8
    <3>4. CASE j \in 1 .. i
      <4> DEFINE z == kid(N, T, p, j)
      <4>1. kid(M, U, p, j) = z /\ z \in L /\ j \in 1 .. deg(N, T, p) /\ (j < i => z # x) /\ up(N, z) = p /\ z # Nil
        BY <3>4, <2>8, <2>3, <2>9, <1>0, Nil \notin L
      <4>2. z # rgt(N, x)
        <5>1. CASE i < deg(N, T, p)
          BY <5>1, <4>1, <3>3, <3>4, <2>9, <2>8, <1>0
        <5>2. CASE i = deg(N, T, p) /\ rgt(N, p) = Nil
          BY <5>2, <4>1, <3>3, <2>4, <2>8, <1>0
        <5>3. CASE i = deg(N, T, p) /\ rgt(N, p) # Nil
          <6>1. rgt(N, p) \in L /\ rgt(N, p) # p /\ deg(N, T, rgt(N, p)) > 0
            BY <5>3, <2>5, <2>6, <2>7, <2>8, <1>0
          <6>2. rgt(N, x) = kid(N, T, rgt(N, p), 1)
            BY <5>3, <3>3, <2>10, <2>8, <6>1, <1>0
          <6> QED BY <6>1, <6>2, <4>1, <2>3, <2>7
        <5> QED BY <5>1, <5>2, <5>3, <2>8, <1>0
      <4>3. lft(M, z) = lft(N, z)
        BY <4>1, <4>2, <2>6
      <4>4. lft(M, z) = IF j > 1 THEN kid(M, U, p, j - 1) ELSE lastKid(M, U, lft(M, p))
        BY <4>1, <4>3, <3>0, <3>1, <3>4, <2>3, <2>8, <1>0
      <4>5. rgt(M, z) = kid(M, U, p, j + 1) /\ j < deg(M, U, p)
        <5>1. CASE j = i
          BY <5>1, <2>8, <2>6, <1>0
        <5>2. CASE j < i
          <6>1. j + 1 \in 1 .. i /\ j < deg(N, T, p) /\ j < deg(N, T, p) + 1
            BY <5>2, <3>4, <2>8, <1>0
          <6>2. rgt(M, z) = rgt(N, z)
            BY <5>2, <4>1, <2>6
          <6>3. rgt(N, z) = kid(N, T, p, j + 1)
            BY <4>1, <6>1, <2>3, <2>8
          <6> QED BY <6>1, <6>2, <6>3, <2>8
        <5>3. j = i \/ j < i
          BY <3>4, <2>8, <1>0
        <5>4. j < deg(M, U, p)
          BY <3>4, <2>8, <1>0
        <5> QED BY <5>1, <5>2, <5>3, <5>4
      <4> QED BY <2>13, <4>1, <4>4, <4>5
    <3>5. CASE j = i + 1
      BY <2>13, <3>5, <3>3, <3>0, <3>2, <2>6, <2>8, <1>0
    <3>6. CASE j \in (i + 2) .. (deg(N, T, p) + 1)
      <4> DEFINE z == kid(N, T, p, j - 1)
      <4>1. /\ kid(M, U, p, j) = z /\ z \in L /\ j - 1 \in 1 .. deg(N, T, p) /\ z # x /\ i < deg(N, T, p)
            /\ (j - 1 # i + 1 => z # kid(N, T, p, i + 1))
        BY <3>6, <2>8, <2>3, <2>9, <1>0
      <4>2. rgt(M, z) = rgt(N, z)
        BY <4>1, <2>6
      <4>3. rgt(M, z) = IF j < deg(M, U, p) THEN kid(M, U, p, j + 1) ELSE firstKid(M, U, rgt(M, p))
        BY <4>1, <4>2, <3>0, <3>2, <3>6, <2>3, <2>8, <1>0
      <4>4. lft(M, z) = kid(M, U, p, j - 1)
        <5>1. CASE j - 1 = i + 1
          BY <5>1, <4>1, <3>3, <2>6, <2>8, <1>0
        <5>2. CASE j - 1 # i + 1
          BY <5>2, <4>1, <3>3, <3>6, <2>6, <2>3, <2>8, <1>0
        <5> QED BY <5>1, <5>2
      <4> QED BY <2>13, <3>6, <4>1, <4>3, <4>4, <1>0, <2>8
    <3> QED BY <2>13, <3>4, <3>5, <3>6, <2>8, <1>0
  <2>14. CASE q # x /\ q # y /\ q # p
    <3> DEFINE z == kid(N, T, q, j)
    <3>1. /\ q \in L \cup {Nil} /\ deg(M, U, q) = deg(N, T, q) /\ \A k \in 1 .. deg(N, T, q) : kid(M, U, q, k) = kid(N, T, q, k)
      BY <2>14 DEF Halved
    <3>2. /\ j \in 1 .. deg(N, T, q) /\ z \in L /\ z # x /\ up(N, z) = q /\ h[q] > 0 /\ deg(N, T, q) > 0 /\ q \in L \cup {Nil}
          /\ deg(N, T, q) \in Nat
      BY <3>1, <2>14, <2>3, <2>8, <2>7
    <3>3. rgt(M, z) = IF j < deg(N, T, q) THEN kid(N, T, q, j + 1) ELSE firstKid(N, T, rgt(N, q))
      BY <3>2, <2>3, <2>6
    <3>4. rgt(M, q) = rgt(N, q)
      BY <2>14, <3>2, <2>6
    <3>5. firstKid(M, U, rgt(N, q)) = firstKid(N, T, rgt(N, q))
      <4>1. CASE rgt(N, q) = Nil
        BY <4>1, <2>4
      <4>2. CASE rgt(N, q) # Nil
        <5>1. rgt(N, q) \in L /\ h[rgt(N, q)] > 0 /\ deg(N, T, rgt(N, q)) > 0
          BY <4>2, <3>2, <2>5, <2>6, <2>7
        <5>2. CASE rgt(N, q) # x /\ rgt(N, q) # p
          BY <5>1, <5>2, <2>2
        <5>3. CASE rgt(N, q) = x
          BY <5>1, <5>3, <2>8, <2>10, <1>0
        <5>4. CASE rgt(N, q) = p
          BY <5>1, <5>4, <2>8, <2>10, <1>0
        <5> QED BY <5>2, <5>3, <5>4
      <4> QED BY <4>1, <4>2
    <3>6. rgt(M, kid(M, U, q, j)) = IF j < deg(M, U, q) THEN kid(M, U, q, j + 1) ELSE firstKid(M, U, rgt(M, q))
      BY <3>1, <3>2, <3>3, <3>4, <3>5
    <3>7. CASE j > 1
      <4>1. lft(N, z) = kid(N, T, q, j - 1) /\ kid(N, T, q, j - 1) # x /\ j - 1 \in 1 .. deg(N, T, q)
        BY <3>2, <3>7, <2>3, <2>8, <2>14
      <4>2. z # rgt(N, x)
        BY <4>1, <2>5, <1>0, <3>2, Nil \notin L
      <4> QED BY <3>1, <3>2, <3>6, <3>7, <4>1, <4>2, <2>6
    <3>8. CASE j = 1
      <4>1. lft(N, z) = lastKid(N, T, lft(N, q))
        BY <3>2, <3>8, <2>3
      <4>2. CASE lft(N, q) = Nil
        <5>1. lft(N, z) = Nil /\ z # rgt(N, x)
          BY <4>1, <4>2, <2>4, <2>5, <1>0, <3>2, Nil \notin L
        <5>2. lft(M, q) = Nil
          BY <4>2, <2>5, <2>6, <1>0, <3>2, Nil \notin L
        <5> QED BY <5>1, <5>2, <3>1, <3>2, <3>6, <3>8, <2>4, <2>6
      <4>3. CASE lft(N, q) # Nil
        <5>1. q \in L /\ lft(N, q) \in L /\ h[lft(N, q)] = h[q] /\ deg(N, T, lft(N, q)) > 0 /\ rgt(N, lft(N, q)) = q
          BY <4>3, <3>2, <2>5, <2>6, <2>7
        <5>2. lft(N, z) = kid(N, T, lft(N, q), deg(N, T, lft(N, q)))
          BY <4>1, <5>1, <2>10
        <5>3. CASE lft(N, q) = x
          <6>1. lft(M, q) = y
            BY <5>1, <5>3, <2>6
          <6>2. lastKid(M, U, y) = kid(N, T, x, deg(N, T, x))
            BY <5>1, <5>3, <2>8, <2>10, <1>0
          <6>3. z # rgt(N, x)
            BY <5>1, <5>3, <3>2, <2>3, <1>0, <2>7
          <6> QED BY <6>1, <6>2, <6>3, <5>2, <5>3, <3>1, <3>2, <3>6, <3>8, <2>6
        <5>4. CASE lft(N, q) # x
          <6>1. lft(M, q) = lft(N, q)
            BY <5>1, <5>4, <2>6, <2>5, <1>0, Nil \notin L
          <6>2. CASE lft(N, q) = p /\ i = deg(N, T, p)
            <7>1. lft(N, z) = x /\ rgt(N, x) = z
              BY <5>2, <6>2, <2>8, <2>5, <3>2, <1>0
            <7>2. lastKid(M, U, p) = y
              BY <5>1, <6>2, <2>8, <2>10, <1>0
            <7> QED BY <7>1, <7>2, <6>1, <6>2, <3>1, <3>2, <3>6, <3>8, <2>6
          <6>3. CASE lft(N, q) = p /\ i # deg(N, T, p)
            <7>1. lft(N, z) # x
              BY <5>2, <6>3, <2>8, <2>9, <1>0
            <7>2. z # rgt(N, x)
              BY <7>1, <2>5, <1>0, <3>2, Nil \notin L
            <7>3. lastKid(M, U, p) = kid(N, T, p, deg(N, T, p))
              <8>1. i + 2 <= deg(N, T, p) + 1
                BY <6>3, <2>8, <1>0
              <8> QED BY <8>1, <5>1, <6>3, <2>8, <2>10, <1>0
            <7> QED BY <7>2, <7>3, <5>2, <6>1, <6>3, <3>1, <3>2, <3>6, <3>8, <2>6
          <6>4. CASE lft(N, q) # p
            <7>1. up(N, lft(N, z)) = lft(N, q)
              BY <5>1, <5>2, <2>3, <2>7
            <7>2. lft(N, z) # x
              BY <7>1, <6>4, <1>0
            <7>3. z # rgt(N, x)
              BY <7>2, <2>5, <1>0, <3>2, Nil \notin L
            <7>4. lastKid(M, U, lft(N, q)) = lastKid(N, T, lft(N, q))
              BY <5>1, <5>4, <6>4, <2>2
            <7> QED BY <7>3, <7>4, <4>1, <6>1, <3>1, <3>2, <3>6, <3>8, <2>6
          <6> QED BY <6>2, <6>3, <6>4
        <5> QED BY <5>3, <5>4
      <4> QED BY <4>2, <4>3
    <3> QED BY <3>2, <3>7, <3>8
  <2> QED BY <2>11, <2>12, <2>13, <2>14
<1> QED
  BY <1>1, <1>2, <1>3, <1>4, <1>5 DEF Tree

-----------------------------------------------------------------------------
(* Two nodes in a row *)

\* Child j of l and r together.
joint(N, T, l, r, j) == IF j <= deg(N, T, l) THEN kid(N, T, l, j) ELSE kid(N, T, r, j - deg(N, T, l))

\* l and r are children i and i + 1 of p.
Mates(N, T, L, p, i, l, r) ==
  /\ p \in L \cup {Nil} /\ i \in 1 .. deg(N, T, p) /\ i + 1 \in 1 .. deg(N, T, p)
  /\ kid(N, T, p, i) = l /\ kid(N, T, p, i + 1) = r

\* Two nodes in a row below one parent are neighbours of one level.
LEMMA MateFacts ==
  ASSUME NEW N, NEW T, NEW L, NEW h, Nil \notin L, Tree(N, T, L, h),
         NEW p, NEW i, NEW l, NEW r, Mates(N, T, L, p, i, l, r)
  PROVE  /\ l \in L /\ r \in L /\ l # r /\ l # p /\ r # p
         /\ up(N, l) = p /\ up(N, r) = p /\ rgt(N, l) = r /\ lft(N, r) = l
         /\ h[l] = h[r] /\ h[p] = h[l] + 1 /\ h[l] \in Nat /\ h[p] \in Nat
         /\ deg(N, T, l) \in Nat /\ deg(N, T, r) \in Nat /\ deg(N, T, p) \in Nat
         /\ lft(N, l) # r /\ rgt(N, r) # l
         /\ (p # Nil => lft(N, l) # p /\ rgt(N, r) # p)
<1>1. /\ l \in L /\ r \in L /\ l # r /\ l # p /\ r # p /\ up(N, l) = p /\ up(N, r) = p
      /\ h[l] = h[r] /\ h[p] = h[l] + 1 /\ h[l] \in Nat /\ h[p] \in Nat
      /\ deg(N, T, l) \in Nat /\ deg(N, T, r) \in Nat /\ deg(N, T, p) \in Nat
  BY DEF Mates, Tree, Downward, Levels
<1>2. rgt(N, l) = r /\ lft(N, r) = l
  BY <1>1 DEF Mates, Tree, Rows, Mutual
<1>3. p # Nil => lft(N, l) # p /\ rgt(N, r) # p
  BY <1>1 DEF Tree, Mutual, Levels
<1>4. lft(N, l) # r
  <2>1. CASE i > 1
    <3>1. lft(N, l) = kid(N, T, p, i - 1) /\ i - 1 \in 1 .. deg(N, T, p) /\ i - 1 # i + 1
      BY <2>1, <1>1 DEF Mates, Tree, Rows
    <3> QED BY <3>1 DEF Mates, Tree, Downward
  <2>2. CASE i = 1 /\ lft(N, p) # Nil
    <3>1. lft(N, l) = kid(N, T, lft(N, p), deg(N, T, lft(N, p)))
      BY <2>2, <1>1 DEF Mates, Tree, Rows, lastKid
    <3>2. lft(N, p) \in L /\ lft(N, p) # p /\ h[lft(N, p)] = h[p]
      BY <2>2 DEF Mates, Tree, Mutual
    <3>3. deg(N, T, lft(N, p)) \in Nat /\ deg(N, T, lft(N, p)) # 0
      BY <3>2, <1>1 DEF Tree, Levels, Downward
    <3>4. up(N, lft(N, l)) = lft(N, p)
      BY <3>1, <3>2, <3>3 DEF Tree, Downward
    <3> QED BY <3>4, <3>2, <1>1
  <2>3. CASE i = 1 /\ lft(N, p) = Nil
    <3>1. lft(N, l) = Nil
      BY <2>3, <1>1 DEF Mates, Tree, Rows, lastKid
    <3> QED BY <3>1, <1>1
  <2> QED BY <2>1, <2>2, <2>3 DEF Mates
<1>5. rgt(N, r) # l
  BY <1>1, <1>4 DEF Tree, Mutual
<1> QED BY <1>1, <1>2, <1>3, <1>4, <1>5

\* The children of two such nodes are one row, without repetition.
LEMMA JointFacts ==
  ASSUME NEW N, NEW T, NEW L, NEW h, Nil \notin L, Tree(N, T, L, h),
         NEW p, NEW i, NEW l, NEW r, Mates(N, T, L, p, i, l, r)
  PROVE  LET a == deg(N, T, l)
             b == deg(N, T, r) IN
         /\ \A j \in 1 .. (a + b) :
              LET z == joint(N, T, l, r, j) IN
              /\ z \in L /\ h[l] = h[z] + 1
              /\ up(N, z) = IF j <= a THEN l ELSE r
              /\ lft(N, z) = IF j > 1 THEN joint(N, T, l, r, j - 1) ELSE lastKid(N, T, lft(N, l))
              /\ rgt(N, z) = IF j < a + b THEN joint(N, T, l, r, j + 1) ELSE firstKid(N, T, rgt(N, r))
         /\ \A j, k \in 1 .. (a + b) : joint(N, T, l, r, j) = joint(N, T, l, r, k) => j = k
         /\ a + b > 0 => a > 0 /\ b > 0
         /\ a > 0 => joint(N, T, l, r, 1) = kid(N, T, l, 1)
         /\ b > 0 => joint(N, T, l, r, a + b) = kid(N, T, r, b)
<1> DEFINE a == deg(N, T, l)
           b == deg(N, T, r)
           f(j) == joint(N, T, l, r, j)
<1>1. /\ l \in L /\ r \in L /\ l # r /\ rgt(N, l) = r /\ lft(N, r) = l
      /\ h[l] = h[r] /\ h[l] \in Nat /\ a \in Nat /\ b \in Nat
  BY MateFacts
<1>2. /\ \A j \in 1 .. a : LET z == kid(N, T, l, j) IN
          /\ z \in L /\ h[l] = h[z] + 1 /\ up(N, z) = l
          /\ lft(N, z) = IF j > 1 THEN kid(N, T, l, j - 1) ELSE lastKid(N, T, lft(N, l))
          /\ rgt(N, z) = IF j < a THEN kid(N, T, l, j + 1) ELSE firstKid(N, T, r)
      /\ \A j, k \in 1 .. a : kid(N, T, l, j) = kid(N, T, l, k) => j = k
  BY <1>1 DEF Tree, Downward, Levels, Rows
<1>3. /\ \A j \in 1 .. b : LET z == kid(N, T, r, j) IN
          /\ z \in L /\ h[l] = h[z] + 1 /\ up(N, z) = r
          /\ lft(N, z) = IF j > 1 THEN kid(N, T, r, j - 1) ELSE lastKid(N, T, l)
          /\ rgt(N, z) = IF j < b THEN kid(N, T, r, j + 1) ELSE firstKid(N, T, rgt(N, r))
      /\ \A j, k \in 1 .. b : kid(N, T, r, j) = kid(N, T, r, k) => j = k
  BY <1>1 DEF Tree, Downward, Levels, Rows
<1>4. a = 0 <=> b = 0
  BY <1>1 DEF Tree, Levels
<1>5. firstKid(N, T, r) = kid(N, T, r, 1) /\ lastKid(N, T, l) = kid(N, T, l, a)
  BY <1>1 DEF firstKid, lastKid
<1>6. /\ \A j \in 1 .. a : f(j) = kid(N, T, l, j)
      /\ \A j \in (a + 1) .. (a + b) : f(j) = kid(N, T, r, j - a) /\ j - a \in 1 .. b
  BY <1>1 DEF joint
<1> HIDE DEF a, b, f
<1>7. ASSUME NEW j \in 1 .. (a + b)
      PROVE  /\ f(j) \in L /\ h[l] = h[f(j)] + 1
             /\ up(N, f(j)) = IF j <= a THEN l ELSE r
             /\ lft(N, f(j)) = IF j > 1 THEN f(j - 1) ELSE lastKid(N, T, lft(N, l))
             /\ rgt(N, f(j)) = IF j < a + b THEN f(j + 1) ELSE firstKid(N, T, rgt(N, r))
  <2>1. CASE j \in 1 .. a
    <3>1. f(j) = kid(N, T, l, j) /\ (j > 1 => f(j - 1) = kid(N, T, l, j - 1)) /\ j <= a /\ b > 0 /\ j < a + b
      BY <2>1, <1>1, <1>4, <1>6
    <3>2. f(j + 1) = IF j < a THEN kid(N, T, l, j + 1) ELSE kid(N, T, r, 1)
      <4>1. CASE j < a
        BY <4>1, <2>1, <1>1, <1>6
      <4>2. CASE j = a
        <5>1. j + 1 \in (a + 1) .. (a + b) /\ (j + 1) - a = 1
          BY <4>2, <3>1, <1>1
        <5> QED BY <5>1, <4>2, <1>6
      <4> QED BY <4>1, <4>2, <2>1, <1>1
    <3> QED BY <2>1, <3>1, <3>2, <1>2, <1>5
  <2>2. CASE j \in (a + 1) .. (a + b)
    <3>1. f(j) = kid(N, T, r, j - a) /\ j - a \in 1 .. b /\ ~(j <= a) /\ a > 0 /\ j > 1
      BY <2>2, <1>1, <1>4, <1>6
    <3>2. f(j - 1) = IF j - a > 1 THEN kid(N, T, r, (j - a) - 1) ELSE kid(N, T, l, a)
      <4>1. CASE j - a > 1
        <5>1. j - 1 \in (a + 1) .. (a + b) /\ (j - 1) - a = (j - a) - 1
          BY <4>1, <2>2, <1>1
        <5> QED BY <5>1, <4>1, <1>6
      <4>2. CASE j - a = 1
        <5>1. j - 1 = a /\ a \in 1 .. a
          BY <4>2, <3>1, <2>2, <1>1
        <5> QED BY <5>1, <4>2, <1>6
      <4> QED BY <4>1, <4>2, <3>1, <1>1
    <3>3. j < a + b => f(j + 1) = kid(N, T, r, (j - a) + 1)
      <4>1. ASSUME j < a + b PROVE j + 1 \in (a + 1) .. (a + b) /\ (j + 1) - a = (j - a) + 1
        BY <4>1, <2>2, <1>1
      <4> QED BY <4>1, <1>6
    <3>4. j < a + b <=> j - a < b
      BY <2>2, <1>1
    <3>5. lft(N, f(j)) = f(j - 1)
      BY <3>1, <3>2, <1>3, <1>5
    <3>6. rgt(N, f(j)) = IF j < a + b THEN f(j + 1) ELSE firstKid(N, T, rgt(N, r))
      BY <3>1, <3>3, <3>4, <1>3
    <3> QED BY <3>1, <3>5, <3>6, <1>3
  <2> QED BY <2>1, <2>2, <1>1
<1>8. ASSUME NEW j \in 1 .. (a + b), NEW k \in 1 .. (a + b), f(j) = f(k)
      PROVE  j = k
  <2>1. CASE j \in 1 .. a /\ k \in 1 .. a
    BY <2>1, <1>8, <1>6, <1>2
  <2>2. CASE j \in (a + 1) .. (a + b) /\ k \in (a + 1) .. (a + b)
    <3>1. j - a = k - a
      BY <2>2, <1>8, <1>6, <1>3
    <3> QED BY <3>1, <2>2, <1>1
  <2>3. CASE j \in 1 .. a /\ k \in (a + 1) .. (a + b)
    BY <2>3, <1>8, <1>6, <1>2, <1>3, <1>1
  <2>4. CASE k \in 1 .. a /\ j \in (a + 1) .. (a + b)
    BY <2>4, <1>8, <1>6, <1>2, <1>3, <1>1
  <2> QED BY <2>1, <2>2, <2>3, <2>4, <1>1
<1>9. a + b > 0 => a > 0 /\ b > 0
  BY <1>1, <1>4
<1>10. a > 0 => f(1) = kid(N, T, l, 1)
  BY <1>1, <1>6
<1>11. b > 0 => f(a + b) = kid(N, T, r, b)
  <2>1. ASSUME b > 0 PROVE a + b \in (a + 1) .. (a + b) /\ (a + b) - a = b
    BY <2>1, <1>1
  <2> QED BY <2>1, <1>6
<1> QED BY <1>7, <1>8, <1>9, <1>10, <1>11 DEF a, b, f

-----------------------------------------------------------------------------
(* Moving children between two nodes *)

\* M, U are N, T after children moved between the neighbours l and r, l keeping n.
Shifted(N, T, M, U, L, p, i, l, r, n) ==
  LET a == deg(N, T, l)
      b == deg(N, T, r) IN
  /\ Mates(N, T, L, p, i, l, r)
  /\ n \in Nat /\ (a + b > 0 => 1 <= n /\ n < a + b) /\ (a + b = 0 => n = 0)
  /\ \A q \in L \cup {Nil} : q # l /\ q # r =>
       /\ deg(M, U, q) = deg(N, T, q)
       /\ \A j \in 1 .. deg(N, T, q) : kid(M, U, q, j) = kid(N, T, q, j)
  /\ deg(M, U, l) = n
  /\ \A j \in 1 .. n : kid(M, U, l, j) = joint(N, T, l, r, j)
  /\ deg(M, U, r) = a + b - n
  /\ \A j \in 1 .. (a + b - n) : kid(M, U, r, j) = joint(N, T, l, r, n + j)
  /\ \A j \in 1 .. (a + b) : up(M, joint(N, T, l, r, j)) = IF j <= n THEN l ELSE r
  /\ \A id \in L : up(N, id) # l /\ up(N, id) # r => up(M, id) = up(N, id)
  /\ \A q \in L \cup {Nil} : lft(M, q) = lft(N, q) /\ rgt(M, q) = rgt(N, q)

\* Moving children between two such nodes keeps the tree.
LEMMA ShiftTree ==
  ASSUME NEW N, NEW T, NEW L, NEW h, Nil \notin L, Tree(N, T, L, h),
         NEW M, NEW U, NEW p, NEW i, NEW l, NEW r, NEW n,
         Shifted(N, T, M, U, L, p, i, l, r, n)
  PROVE  Tree(M, U, L, h)
<1> DEFINE a == deg(N, T, l)
           b == deg(N, T, r)
           f(j) == joint(N, T, l, r, j)
<1>0. /\ Mates(N, T, L, p, i, l, r)
      /\ n \in Nat /\ (a + b > 0 => 1 <= n /\ n < a + b) /\ (a + b = 0 => n = 0)
      /\ \A q \in L \cup {Nil} : q # l /\ q # r =>
           /\ deg(M, U, q) = deg(N, T, q)
           /\ \A j \in 1 .. deg(N, T, q) : kid(M, U, q, j) = kid(N, T, q, j)
      /\ deg(M, U, l) = n
      /\ \A j \in 1 .. n : kid(M, U, l, j) = f(j)
      /\ deg(M, U, r) = a + b - n
      /\ \A j \in 1 .. (a + b - n) : kid(M, U, r, j) = f(n + j)
      /\ \A j \in 1 .. (a + b) : up(M, f(j)) = IF j <= n THEN l ELSE r
      /\ \A id \in L : up(N, id) # l /\ up(N, id) # r => up(M, id) = up(N, id)
      /\ \A q \in L \cup {Nil} : lft(M, q) = lft(N, q) /\ rgt(M, q) = rgt(N, q)
  BY DEF Shifted
<1>1. /\ l \in L /\ r \in L /\ l # r /\ l # p /\ r # p
      /\ up(N, l) = p /\ up(N, r) = p /\ rgt(N, l) = r /\ lft(N, r) = l
      /\ h[l] = h[r] /\ h[p] = h[l] + 1 /\ h[l] \in Nat /\ h[p] \in Nat
      /\ a \in Nat /\ b \in Nat /\ deg(N, T, p) \in Nat
      /\ lft(N, l) # r /\ rgt(N, r) # l
  BY <1>0, MateFacts
<1>2. /\ \A j \in 1 .. (a + b) :
           /\ f(j) \in L /\ h[l] = h[f(j)] + 1
           /\ up(N, f(j)) = IF j <= a THEN l ELSE r
           /\ lft(N, f(j)) = IF j > 1 THEN f(j - 1) ELSE lastKid(N, T, lft(N, l))
           /\ rgt(N, f(j)) = IF j < a + b THEN f(j + 1) ELSE firstKid(N, T, rgt(N, r))
      /\ \A j, k \in 1 .. (a + b) : f(j) = f(k) => j = k
      /\ a + b > 0 => a > 0 /\ b > 0
      /\ a > 0 => f(1) = kid(N, T, l, 1)
      /\ b > 0 => f(a + b) = kid(N, T, r, b)
  BY <1>0, JointFacts
<1>3. \A j \in 1 .. (a + b - n) : n + j \in 1 .. (a + b) /\ n + j > n
  BY <1>0, <1>1
<1>4. n \in 0 .. (a + b)
  BY <1>0, <1>1
<1>5. /\ \A q \in L \cup {Nil} : deg(N, T, q) \in Nat /\ h[q] \in Nat /\ (deg(N, T, q) = 0 <=> h[q] = 0)
      /\ \A q \in L \cup {Nil} : \A j \in 1 .. deg(N, T, q) :
           /\ kid(N, T, q, j) \in L /\ up(N, kid(N, T, q, j)) = q /\ h[q] = h[kid(N, T, q, j)] + 1
           /\ lft(N, kid(N, T, q, j)) = IF j > 1 THEN kid(N, T, q, j - 1) ELSE lastKid(N, T, lft(N, q))
           /\ rgt(N, kid(N, T, q, j)) = IF j < deg(N, T, q) THEN kid(N, T, q, j + 1)
                                        ELSE firstKid(N, T, rgt(N, q))
      /\ \A q \in L \cup {Nil} : \A j, k \in 1 .. deg(N, T, q) : kid(N, T, q, j) = kid(N, T, q, k) => j = k
      /\ \A z \in L : /\ lft(N, z) # Nil => /\ lft(N, z) \in L /\ lft(N, z) # z
                            /\ rgt(N, lft(N, z)) = z /\ h[lft(N, z)] = h[z]
                      /\ rgt(N, z) # Nil => /\ rgt(N, z) \in L /\ rgt(N, z) # z
                            /\ lft(N, rgt(N, z)) = z /\ h[rgt(N, z)] = h[z]
      /\ lft(N, Nil) = Nil /\ rgt(N, Nil) = Nil
  BY DEF Tree, Downward, Levels, Rows, Mutual
<1>21. \A q \in L \cup {Nil} : lft(M, q) = lft(N, q) /\ rgt(M, q) = rgt(N, q)
  BY <1>0
<1>22. \A q \in L \cup {Nil} : deg(N, T, q) \in Nat /\ h[q] \in Nat /\ (deg(N, T, q) = 0 <=> h[q] = 0)
  BY <1>5
<1>23. /\ \A z \in L : /\ lft(N, z) # Nil => /\ lft(N, z) \in L /\ lft(N, z) # z
                             /\ rgt(N, lft(N, z)) = z /\ h[lft(N, z)] = h[z]
                       /\ rgt(N, z) # Nil => /\ rgt(N, z) \in L /\ rgt(N, z) # z
                             /\ lft(N, rgt(N, z)) = z /\ h[rgt(N, z)] = h[z]
       /\ lft(N, Nil) = Nil /\ rgt(N, Nil) = Nil
  BY <1>5
<1>24. h[l] > 0 => a > 0 /\ b > 0 /\ 1 <= n /\ n < a + b
  BY <1>0, <1>1, <1>2, <1>22
<1>25. a > 0 \/ b > 0 => h[l] > 0
  BY <1>1, <1>22
<1>26. \A s \in L : h[s] > 0 => deg(N, T, s) > 0
  BY <1>22
<1> HIDE DEF a, b, f
<1>6. Downward(M, U, L)
  <2> SUFFICES ASSUME NEW q \in L \cup {Nil}
               PROVE  /\ deg(M, U, q) \in Nat
                      /\ \A j \in 1 .. deg(M, U, q) : kid(M, U, q, j) \in L /\ up(M, kid(M, U, q, j)) = q
                      /\ \A j, k \in 1 .. deg(M, U, q) : kid(M, U, q, j) = kid(M, U, q, k) => j = k
    BY DEF Downward
  <2>1. CASE q = l
    BY <2>1, <1>0, <1>1, <1>2, <1>4
  <2>2. CASE q = r
    <3>1. a + b - n \in Nat
      BY <1>1, <1>4
    <3>2. \A j, k \in 1 .. (a + b - n) : n + j = n + k => j = k
      BY <1>1, <1>4
    <3>3. \A j \in 1 .. (a + b - n) : f(n + j) \in L /\ up(M, f(n + j)) = r
      BY <1>0, <1>2, <1>3, <1>4, <1>1
    <3>4. \A j, k \in 1 .. (a + b - n) : f(n + j) = f(n + k) => j = k
      BY <1>2, <1>3, <3>2
    <3> QED BY <2>2, <1>0, <3>1, <3>3, <3>4
  <2>3. CASE q # l /\ q # r
    BY <2>3, <1>0, <1>5
  <2> QED BY <2>1, <2>2, <2>3
<1>7. Upward(M, U, L)
  <2> SUFFICES ASSUME NEW id \in L
               PROVE  /\ up(M, id) \in L \cup {Nil}
                      /\ \E j \in 1 .. deg(M, U, up(M, id)) : kid(M, U, up(M, id), j) = id
    BY DEF Upward
  <2>1. PICK k \in 1 .. deg(N, T, up(N, id)) : kid(N, T, up(N, id), k) = id
    BY DEF Tree, Upward
  <2>2. CASE up(N, id) # l /\ up(N, id) # r
    BY <2>1, <2>2, <1>0 DEF Tree, Upward
  <2>3. CASE up(N, id) = l \/ up(N, id) = r
    <3>1. PICK j \in 1 .. (a + b) : f(j) = id
      <4>1. CASE up(N, id) = l
        <5>1. k \in 1 .. (a + b) /\ k <= a
          BY <4>1, <2>1, <1>1 DEF a
        <5>2. f(k) = id
          BY <4>1, <2>1, <5>1 DEF a, f, joint
        <5> QED BY <5>1, <5>2
      <4>2. CASE up(N, id) = r
        <5>1. a + k \in 1 .. (a + b) /\ ~(a + k <= a) /\ (a + k) - a = k
          BY <4>2, <2>1, <1>1 DEF b
        <5>2. f(a + k) = id
          BY <4>2, <2>1, <5>1 DEF a, f, joint
        <5> QED BY <5>1, <5>2
      <4> QED BY <2>3, <4>1, <4>2
    <3>2. CASE j <= n
      BY <3>1, <3>2, <1>0, <1>1, <1>4
    <3>3. CASE j > n
      <4>1. j - n \in 1 .. (a + b - n) /\ n + (j - n) = j
        BY <3>1, <3>3, <1>1, <1>4
      <4>2. up(M, id) = r /\ kid(M, U, r, j - n) = id
        BY <4>1, <3>1, <3>3, <1>0, <1>1, <1>4
      <4> QED BY <4>1, <4>2, <1>0, <1>1
    <3> QED BY <3>2, <3>3, <3>1, <1>4, <1>1
  <2> QED BY <2>2, <2>3
<1>8. Levels(M, U, L, h)
  <2>1. \A id \in L : h[id] < h[Nil]
    BY DEF Tree, Levels
  <2> SUFFICES ASSUME NEW q \in L \cup {Nil}
               PROVE  /\ h[q] \in Nat
                      /\ deg(M, U, q) = 0 <=> h[q] = 0
                      /\ \A j \in 1 .. deg(M, U, q) : h[q] = h[kid(M, U, q, j)] + 1
    BY <2>1 DEF Levels
  <2>2. CASE q = l
    <3>1. n = 0 <=> h[l] = 0
      BY <1>0, <1>1, <1>2, <1>5 DEF a
    <3> QED BY <2>2, <3>1, <1>0, <1>1, <1>2, <1>4
  <2>3. CASE q = r
    <3>1. a + b - n = 0 <=> h[l] = 0
      BY <1>0, <1>1, <1>2, <1>5 DEF a
    <3>2. \A j \in 1 .. (a + b - n) : h[l] = h[f(n + j)] + 1
      BY <1>2, <1>3
    <3> QED BY <2>3, <3>1, <3>2, <1>0, <1>1
  <2>4. CASE q # l /\ q # r
    <3>1. deg(M, U, q) = deg(N, T, q) /\ \A j \in 1 .. deg(N, T, q) : kid(M, U, q, j) = kid(N, T, q, j)
      BY <2>4, <1>0
    <3>2. /\ h[q] \in Nat /\ (deg(N, T, q) = 0 <=> h[q] = 0)
          /\ \A j \in 1 .. deg(N, T, q) : h[q] = h[kid(N, T, q, j)] + 1
      BY <1>5
    <3> QED BY <3>1, <3>2
  <2> QED BY <2>2, <2>3, <2>4
<1>9. Mutual(M, L, h)
  <2> SUFFICES ASSUME NEW z \in L
               PROVE  /\ lft(M, z) # Nil => /\ lft(M, z) \in L /\ lft(M, z) # z
                              /\ rgt(M, lft(M, z)) = z /\ h[lft(M, z)] = h[z]
                      /\ rgt(M, z) # Nil => /\ rgt(M, z) \in L /\ rgt(M, z) # z
                              /\ lft(M, rgt(M, z)) = z /\ h[rgt(M, z)] = h[z]
    BY <1>21, <1>23 DEF Mutual
  <2>1. lft(M, z) = lft(N, z) /\ rgt(M, z) = rgt(N, z)
    BY <1>21
  <2>2. ASSUME lft(N, z) # Nil PROVE rgt(M, lft(N, z)) = z
    BY <2>2, <1>21, <1>23
  <2>3. ASSUME rgt(N, z) # Nil PROVE lft(M, rgt(N, z)) = z
    BY <2>3, <1>21, <1>23
  <2> QED BY <2>1, <2>2, <2>3, <1>23
<1>10. Rows(M, U, L)
  <2> SUFFICES ASSUME NEW q \in L \cup {Nil}, NEW j \in 1 .. deg(M, U, q)
               PROVE  /\ lft(M, kid(M, U, q, j)) = IF j > 1 THEN kid(M, U, q, j - 1)
                                                  ELSE lastKid(M, U, lft(M, q))
                      /\ rgt(M, kid(M, U, q, j)) = IF j < deg(M, U, q) THEN kid(M, U, q, j + 1)
                                                  ELSE firstKid(M, U, rgt(M, q))
    BY DEF Rows
  <2>1. \A s \in L \cup {Nil} : s # l /\ s # r /\ deg(N, T, s) > 0 =>
          /\ firstKid(M, U, s) = firstKid(N, T, s)
          /\ lastKid(M, U, s) = lastKid(N, T, s)
    BY <1>0, <1>5 DEF firstKid, lastKid
  <2>2. firstKid(N, T, Nil) = Nil /\ lastKid(N, T, Nil) = Nil /\ firstKid(M, U, Nil) = Nil /\ lastKid(M, U, Nil) = Nil
    BY DEF firstKid, lastKid
  <2>3. \A s \in L : /\ firstKid(N, T, s) = kid(N, T, s, 1) /\ lastKid(N, T, s) = kid(N, T, s, deg(N, T, s))
                     /\ firstKid(M, U, s) = kid(M, U, s, 1) /\ lastKid(M, U, s) = kid(M, U, s, deg(M, U, s))
    BY Nil \notin L DEF firstKid, lastKid
  <2>4. /\ lft(M, q) = lft(N, q) /\ rgt(M, q) = rgt(N, q)
        /\ \A z \in L : lft(M, z) = lft(N, z) /\ rgt(M, z) = rgt(N, z)
    BY <1>0
  <2>5. CASE q = l
    <3>1. /\ j \in 1 .. n /\ j \in 1 .. (a + b) /\ a > 0 /\ b > 0 /\ n < a + b /\ h[l] > 0
          /\ kid(M, U, q, j) = f(j) /\ j < a + b /\ deg(M, U, q) = n
      <4>1. deg(M, U, q) = n /\ j \in 1 .. n /\ n > 0 /\ kid(M, U, q, j) = f(j)
        BY <2>5, <1>0
      <4>2. a + b > 0
        BY <4>1, <1>0, <1>1
      <4>3. a > 0 /\ b > 0 /\ n < a + b
        BY <4>2, <1>0, <1>2
      <4>4. h[l] > 0
        BY <4>3, <1>25, <1>1
      <4> QED BY <4>1, <4>3, <4>4, <1>1, <1>4
    <3>2. lft(M, f(j)) = IF j > 1 THEN f(j - 1) ELSE lastKid(N, T, lft(N, l))
      BY <3>1, <2>4, <1>2
    <3>3. rgt(M, f(j)) = f(j + 1)
      BY <3>1, <2>4, <1>2
    <3>4. lastKid(M, U, lft(N, l)) = lastKid(N, T, lft(N, l))
      <4>1. CASE lft(N, l) = Nil
        BY <4>1, <2>2
      <4>2. CASE lft(N, l) # Nil
        <5>1. lft(N, l) \in L /\ lft(N, l) # l /\ h[lft(N, l)] = h[l]
          BY <4>2, <1>1, <1>23
        <5>2. deg(N, T, lft(N, l)) > 0 /\ lft(N, l) # r
          BY <5>1, <3>1, <1>1, <1>26
        <5> QED BY <5>1, <5>2, <2>1
      <4> QED BY <4>1, <4>2
    <3>5. j > 1 => kid(M, U, l, j - 1) = f(j - 1)
      BY <3>1, <1>0
    <3>6. j < n => kid(M, U, l, j + 1) = f(j + 1)
      BY <3>1, <1>0
    <3>7. j = n => firstKid(M, U, r) = f(j + 1)
      <4>1. 1 \in 1 .. (a + b - n)
        BY <3>1, <1>1, <1>4
      <4>2. kid(M, U, r, 1) = f(n + 1)
        BY <4>1, <1>0
      <4> QED BY <4>2, <2>3, <1>1
    <3>8. j = n \/ j < n
      BY <3>1, <1>4, <1>1
    <3>9. lft(M, kid(M, U, l, j)) = IF j > 1 THEN kid(M, U, l, j - 1) ELSE lastKid(M, U, lft(M, l))
      BY <2>5, <2>4, <3>1, <3>2, <3>4, <3>5
    <3>10. rgt(M, kid(M, U, l, j)) = IF j < n THEN kid(M, U, l, j + 1) ELSE firstKid(M, U, r)
      BY <2>5, <3>1, <3>3, <3>6, <3>7, <3>8
    <3> QED BY <2>5, <2>4, <3>1, <3>9, <3>10, <1>1
  <2>6. CASE q = r
    <3>1. /\ j \in 1 .. (a + b - n) /\ n + j \in 1 .. (a + b) /\ a > 0 /\ b > 0 /\ n >= 1 /\ n < a + b /\ h[l] > 0
          /\ kid(M, U, q, j) = f(n + j) /\ n + j > 1 /\ deg(M, U, q) = a + b - n
          /\ (n + j < a + b <=> j < a + b - n)
      <4>1. deg(M, U, q) = a + b - n /\ j \in 1 .. (a + b - n) /\ kid(M, U, q, j) = f(n + j)
        BY <2>6, <1>0
      <4>2. a + b > 0
        BY <4>1, <1>0, <1>1
      <4>3. a > 0 /\ b > 0 /\ n < a + b /\ 1 <= n
        BY <4>2, <1>0, <1>2
      <4>4. h[l] > 0
        BY <4>3, <1>25, <1>1
      <4> QED BY <4>1, <4>3, <4>4, <1>1, <1>3, <1>4
    <3>2. lft(M, f(n + j)) = f((n + j) - 1)
      <4>1. f(n + j) \in L /\ lft(N, f(n + j)) = f((n + j) - 1)
        BY <3>1, <1>2
      <4>2. lft(M, f(n + j)) = lft(N, f(n + j))
        BY <4>1, <2>4
      <4> QED BY <4>1, <4>2
    <3>3. rgt(M, f(n + j)) = IF j < a + b - n THEN f(n + j + 1) ELSE firstKid(N, T, rgt(N, r))
      <4>1. f(n + j) \in L /\ rgt(N, f(n + j)) = IF n + j < a + b THEN f((n + j) + 1) ELSE firstKid(N, T, rgt(N, r))
        BY <3>1, <1>2
      <4> QED BY <4>1, <2>4, <3>1
    <3>4. firstKid(M, U, rgt(N, r)) = firstKid(N, T, rgt(N, r))
      <4>1. CASE rgt(N, r) = Nil
        BY <4>1, <2>2
      <4>2. CASE rgt(N, r) # Nil
        <5>1. rgt(N, r) \in L /\ rgt(N, r) # r /\ h[rgt(N, r)] = h[l]
          BY <4>2, <1>1, <1>23
        <5>2. deg(N, T, rgt(N, r)) > 0 /\ rgt(N, r) # l
          BY <5>1, <3>1, <1>1, <1>26
        <5> QED BY <5>1, <5>2, <2>1
      <4> QED BY <4>1, <4>2
    <3>5. j > 1 => kid(M, U, r, j - 1) = f((n + j) - 1)
      <4>1. ASSUME j > 1 PROVE j - 1 \in 1 .. (a + b - n) /\ n + (j - 1) = (n + j) - 1
        BY <4>1, <3>1, <1>1, <1>4
      <4> QED BY <4>1, <1>0
    <3>6. j < a + b - n => kid(M, U, r, j + 1) = f(n + j + 1)
      <4>1. ASSUME j < a + b - n PROVE j + 1 \in 1 .. (a + b - n) /\ n + (j + 1) = n + j + 1
        BY <4>1, <3>1, <1>1, <1>4
      <4> QED BY <4>1, <1>0
    <3>7. j = 1 => lastKid(M, U, l) = f((n + j) - 1)
      <4>1. kid(M, U, l, n) = f(n) /\ lastKid(M, U, l) = kid(M, U, l, n)
        BY <3>1, <2>3, <1>0, <1>1
      <4>2. j = 1 => (n + j) - 1 = n
        BY <3>1, <1>1, <1>4
      <4> QED BY <4>1, <4>2
    <3>8. lft(M, f(n + j)) = IF j > 1 THEN kid(M, U, r, j - 1) ELSE lastKid(M, U, l)
      BY <3>1, <3>2, <3>5, <3>7
    <3>9. rgt(M, f(n + j)) = IF j < deg(M, U, q) THEN kid(M, U, r, j + 1) ELSE firstKid(M, U, rgt(N, r))
      BY <3>1, <3>3, <3>4, <3>6
    <3> QED BY <2>6, <2>4, <3>1, <3>8, <3>9, <1>1
  <2>7. CASE q # l /\ q # r
    <3> DEFINE z == kid(N, T, q, j)
    <3>1. /\ deg(M, U, q) = deg(N, T, q) /\ kid(M, U, q, j) = z /\ z \in L /\ j \in 1 .. deg(N, T, q)
          /\ (j > 1 => kid(M, U, q, j - 1) = kid(N, T, q, j - 1))
          /\ (j < deg(N, T, q) => kid(M, U, q, j + 1) = kid(N, T, q, j + 1))
          /\ deg(N, T, q) > 0 /\ h[q] > 0
      BY <2>7, <1>0, <1>5
    <3>2. /\ lft(M, z) = IF j > 1 THEN kid(N, T, q, j - 1) ELSE lastKid(N, T, lft(N, q))
          /\ rgt(M, z) = IF j < deg(N, T, q) THEN kid(N, T, q, j + 1) ELSE firstKid(N, T, rgt(N, q))
      BY <3>1, <2>4, <1>5
    <3>3. lastKid(M, U, lft(N, q)) = lastKid(N, T, lft(N, q))
      <4>1. CASE lft(N, q) = Nil
        BY <4>1, <2>2
      <4>2. CASE lft(N, q) # Nil
        <5>1. lft(N, q) \in L /\ rgt(N, lft(N, q)) = q /\ h[lft(N, q)] = h[q] /\ deg(N, T, lft(N, q)) > 0
          <6>1. q \in L
            BY <4>2, <1>23
          <6>2. lft(N, q) \in L /\ rgt(N, lft(N, q)) = q /\ h[lft(N, q)] = h[q]
            BY <4>2, <6>1, <1>23
          <6> QED BY <6>2, <3>1, <1>26
        <5>2. lft(N, q) # l
          BY <5>1, <2>7, <1>1
        <5>3. CASE lft(N, q) = r
          <6>1. a > 0 /\ b > 0 /\ a + b - n \in 1 .. (a + b - n) /\ n + (a + b - n) = a + b
            BY <5>1, <5>3, <1>0, <1>1, <1>2, <1>4 DEF b
          <6>2. kid(M, U, r, a + b - n) = f(a + b)
            BY <6>1, <1>0
          <6> QED BY <6>1, <6>2, <5>3, <2>3, <1>0, <1>1, <1>2 DEF b
        <5>4. CASE lft(N, q) # r
          BY <5>1, <5>2, <5>4, <2>1
        <5> QED BY <5>3, <5>4
      <4> QED BY <4>1, <4>2
    <3>4. firstKid(M, U, rgt(N, q)) = firstKid(N, T, rgt(N, q))
      <4>1. CASE rgt(N, q) = Nil
        BY <4>1, <2>2
      <4>2. CASE rgt(N, q) # Nil
        <5>1. rgt(N, q) \in L /\ lft(N, rgt(N, q)) = q /\ h[rgt(N, q)] = h[q] /\ deg(N, T, rgt(N, q)) > 0
          <6>1. q \in L
            BY <4>2, <1>23
          <6>2. rgt(N, q) \in L /\ lft(N, rgt(N, q)) = q /\ h[rgt(N, q)] = h[q]
            BY <4>2, <6>1, <1>23
          <6> QED BY <6>2, <3>1, <1>26
        <5>2. rgt(N, q) # r
          BY <5>1, <2>7, <1>1
        <5>3. CASE rgt(N, q) = l
          <6>1. a > 0 /\ b > 0 /\ 1 \in 1 .. n
            BY <5>1, <5>3, <1>0, <1>1, <1>2, <1>4 DEF a
          <6> QED BY <6>1, <5>3, <2>3, <1>0, <1>1, <1>2 DEF a
        <5>4. CASE rgt(N, q) # l
          BY <5>1, <5>2, <5>4, <2>1
        <5> QED BY <5>3, <5>4
      <4> QED BY <4>1, <4>2
    <3> QED BY <3>1, <3>2, <3>3, <3>4, <2>4
  <2> QED BY <2>5, <2>6, <2>7
<1> QED BY <1>6, <1>7, <1>8, <1>9, <1>10 DEF Tree

-----------------------------------------------------------------------------
(* Merging two nodes *)

\* M, U are N, T after r was moved into its left neighbour l and taken from p.
Merged(N, T, M, U, L, p, i, l, r) ==
  LET a == deg(N, T, l)
      b == deg(N, T, r) IN
  /\ Mates(N, T, L, p, i, l, r)
  /\ \A q \in L \cup {Nil} : q # l /\ q # r /\ q # p =>
       /\ deg(M, U, q) = deg(N, T, q)
       /\ \A j \in 1 .. deg(N, T, q) : kid(M, U, q, j) = kid(N, T, q, j)
  /\ deg(M, U, l) = a + b
  /\ \A j \in 1 .. (a + b) : kid(M, U, l, j) = joint(N, T, l, r, j)
  /\ deg(M, U, p) = deg(N, T, p) - 1
  /\ \A j \in 1 .. i : kid(M, U, p, j) = kid(N, T, p, j)
  /\ \A j \in (i + 1) .. (deg(N, T, p) - 1) : kid(M, U, p, j) = kid(N, T, p, j + 1)
  /\ \A j \in 1 .. (a + b) : up(M, joint(N, T, l, r, j)) = l
  /\ \A id \in L \ {r} : up(N, id) # l /\ up(N, id) # r => up(M, id) = up(N, id)
  /\ rgt(M, l) = rgt(N, r)
  /\ \A q \in (L \cup {Nil}) \ {r} : /\ q # l => rgt(M, q) = rgt(N, q)
                                     /\ q = Nil \/ q # rgt(N, r) => lft(M, q) = lft(N, q)
  /\ rgt(N, r) # Nil => lft(M, rgt(N, r)) = l

\* Merging two such nodes keeps the tree.
LEMMA MergeTree ==
  ASSUME NEW N, NEW T, NEW L, NEW h, Nil \notin L, Tree(N, T, L, h),
         NEW M, NEW U, NEW p, NEW i, NEW l, NEW r,
         Merged(N, T, M, U, L, p, i, l, r)
  PROVE  Tree(M, U, L \ {r}, h)
<1> DEFINE a == deg(N, T, l)
           b == deg(N, T, r)
           d == deg(N, T, p)
           f(j) == joint(N, T, l, r, j)
           e(j) == kid(N, T, p, j)
           W == L \ {r}
<1>0. /\ Mates(N, T, L, p, i, l, r)
      /\ \A q \in L \cup {Nil} : q # l /\ q # r /\ q # p =>
           /\ deg(M, U, q) = deg(N, T, q)
           /\ \A j \in 1 .. deg(N, T, q) : kid(M, U, q, j) = kid(N, T, q, j)
      /\ deg(M, U, l) = a + b
      /\ \A j \in 1 .. (a + b) : kid(M, U, l, j) = f(j)
      /\ deg(M, U, p) = d - 1
      /\ \A j \in 1 .. i : kid(M, U, p, j) = e(j)
      /\ \A j \in (i + 1) .. (d - 1) : kid(M, U, p, j) = e(j + 1)
      /\ \A j \in 1 .. (a + b) : up(M, f(j)) = l
      /\ \A id \in W : up(N, id) # l /\ up(N, id) # r => up(M, id) = up(N, id)
  BY DEF Merged
<1>1. /\ l \in L /\ r \in L /\ l # r /\ l # p /\ r # p
      /\ up(N, l) = p /\ up(N, r) = p /\ rgt(N, l) = r /\ lft(N, r) = l
      /\ h[l] = h[r] /\ h[p] = h[l] + 1 /\ h[l] \in Nat /\ h[p] \in Nat
      /\ a \in Nat /\ b \in Nat /\ d \in Nat
      /\ lft(N, l) # r /\ rgt(N, r) # l
  BY <1>0, MateFacts
<1>2. /\ \A j \in 1 .. (a + b) :
           /\ f(j) \in L /\ h[l] = h[f(j)] + 1
           /\ up(N, f(j)) = IF j <= a THEN l ELSE r
           /\ lft(N, f(j)) = IF j > 1 THEN f(j - 1) ELSE lastKid(N, T, lft(N, l))
           /\ rgt(N, f(j)) = IF j < a + b THEN f(j + 1) ELSE firstKid(N, T, rgt(N, r))
      /\ \A j, k \in 1 .. (a + b) : f(j) = f(k) => j = k
      /\ a + b > 0 => a > 0 /\ b > 0
      /\ a > 0 => f(1) = kid(N, T, l, 1)
      /\ b > 0 => f(a + b) = kid(N, T, r, b)
  BY <1>0, JointFacts
<1>3. /\ p \in L \cup {Nil} /\ i \in 1 .. d /\ i + 1 \in 1 .. d /\ e(i) = l /\ e(i + 1) = r
      /\ p \in W \cup {Nil} /\ i \in 1 .. (d - 1) /\ l \in W /\ Nil \notin W
  BY <1>0, <1>1 DEF Mates
<1>4. /\ rgt(M, l) = rgt(N, r)
      /\ \A q \in W \cup {Nil} : q # l => rgt(M, q) = rgt(N, q)
      /\ \A q \in W : q # rgt(N, r) => lft(M, q) = lft(N, q)
      /\ lft(M, Nil) = lft(N, Nil)
      /\ rgt(N, r) # Nil => lft(M, rgt(N, r)) = l
  BY <1>1 DEF Merged
<1>5. /\ \A q \in L \cup {Nil} : \A j \in 1 .. deg(N, T, q) :
           /\ kid(N, T, q, j) \in L /\ up(N, kid(N, T, q, j)) = q /\ h[q] = h[kid(N, T, q, j)] + 1
           /\ lft(N, kid(N, T, q, j)) = IF j > 1 THEN kid(N, T, q, j - 1) ELSE lastKid(N, T, lft(N, q))
           /\ rgt(N, kid(N, T, q, j)) = IF j < deg(N, T, q) THEN kid(N, T, q, j + 1)
                                        ELSE firstKid(N, T, rgt(N, q))
      /\ \A q \in L \cup {Nil} : \A j, k \in 1 .. deg(N, T, q) : kid(N, T, q, j) = kid(N, T, q, k) => j = k
  BY DEF Tree, Downward, Levels, Rows
<1>6. \A q \in L \cup {Nil} : deg(N, T, q) \in Nat /\ h[q] \in Nat /\ (deg(N, T, q) = 0 <=> h[q] = 0)
  BY DEF Tree, Downward, Levels
<1>7. /\ lft(N, Nil) = Nil /\ rgt(N, Nil) = Nil
      /\ \A z \in L : lft(N, z) # Nil => /\ lft(N, z) \in L /\ lft(N, z) # z
                                         /\ rgt(N, lft(N, z)) = z /\ h[lft(N, z)] = h[z]
      /\ \A z \in L : rgt(N, z) # Nil => /\ rgt(N, z) \in L /\ rgt(N, z) # z
                                         /\ lft(N, rgt(N, z)) = z /\ h[rgt(N, z)] = h[z]
  BY DEF Tree, Mutual
<1>8. /\ \A j \in 1 .. d : /\ e(j) \in L /\ up(N, e(j)) = p /\ h[p] = h[e(j)] + 1
                           /\ lft(N, e(j)) = IF j > 1 THEN e(j - 1) ELSE lastKid(N, T, lft(N, p))
                           /\ rgt(N, e(j)) = IF j < d THEN e(j + 1) ELSE firstKid(N, T, rgt(N, p))
      /\ \A j, k \in 1 .. d : e(j) = e(k) => j = k
  BY <1>3, <1>5
<1>9. \A s \in L : h[s] > 0 => deg(N, T, s) > 0
  BY <1>6
<1>10. h[l] > 0 => a > 0 /\ b > 0
  BY <1>1, <1>6
<1>11. a + b > 0 => h[l] > 0
  BY <1>1, <1>2, <1>6
<1>12. \A j \in 1 .. (a + b) : f(j) \in W
  <2>1. r = Nil \/ up(N, r) = p
    BY <1>1
  <2> QED BY <1>1, <1>2
<1> HIDE DEF a, b, d, e, f, W
<1>20. Downward(M, U, W)
  <2> SUFFICES ASSUME NEW q \in W \cup {Nil}
               PROVE  /\ deg(M, U, q) \in Nat
                      /\ \A j \in 1 .. deg(M, U, q) : kid(M, U, q, j) \in W /\ up(M, kid(M, U, q, j)) = q
                      /\ \A j, k \in 1 .. deg(M, U, q) : kid(M, U, q, j) = kid(M, U, q, k) => j = k
    BY DEF Downward
  <2>1. CASE q = l
    BY <2>1, <1>0, <1>1, <1>2, <1>12
  <2>2. CASE q = p
    <3>1. \A j \in 1 .. (d - 1) : \/ j \in 1 .. i /\ kid(M, U, p, j) = e(j) /\ j \in 1 .. d /\ j # i + 1
                                  \/ /\ j \in (i + 1) .. (d - 1) /\ kid(M, U, p, j) = e(j + 1)
                                     /\ j + 1 \in 1 .. d /\ j + 1 # i + 1
      BY <1>0, <1>1, <1>3
    <3>2. \A k \in 1 .. d : k # i + 1 => e(k) \in W /\ up(M, e(k)) = p
      <4> SUFFICES ASSUME NEW k \in 1 .. d, k # i + 1 PROVE e(k) \in W /\ up(M, e(k)) = p
        OBVIOUS
      <4>1. e(k) \in L /\ e(k) # r /\ up(N, e(k)) = p
        BY <1>3, <1>8
      <4>2. e(k) \in W
        BY <4>1 DEF W
      <4> QED BY <4>1, <4>2, <1>0, <1>1
    <3>3. \A j \in 1 .. (d - 1) : kid(M, U, p, j) \in W /\ up(M, kid(M, U, p, j)) = p
      BY <3>1, <3>2
    <3>4. \A j, k \in 1 .. (d - 1) : kid(M, U, p, j) = kid(M, U, p, k) => j = k
      BY <3>1, <1>8, <1>3, <1>1
    <3>5. d - 1 \in Nat
      BY <1>1, <1>3
    <3> QED BY <2>2, <3>3, <3>4, <3>5, <1>0
  <2>3. CASE q # l /\ q # p
    <3>1. /\ q \in L \cup {Nil} /\ q # r /\ deg(M, U, q) = deg(N, T, q)
          /\ \A j \in 1 .. deg(N, T, q) : kid(M, U, q, j) = kid(N, T, q, j)
      BY <2>3, <1>0, <1>1, Nil \notin L DEF W
    <3>2. \A j \in 1 .. deg(N, T, q) : kid(N, T, q, j) \in W /\ up(M, kid(N, T, q, j)) = q
      <4> SUFFICES ASSUME NEW j \in 1 .. deg(N, T, q) PROVE kid(N, T, q, j) \in W /\ up(M, kid(N, T, q, j)) = q
        OBVIOUS
      <4>1. kid(N, T, q, j) \in L /\ up(N, kid(N, T, q, j)) = q
        BY <3>1, <1>5
      <4>2. kid(N, T, q, j) \in W
        BY <4>1, <2>3, <1>1 DEF W
      <4> QED BY <4>1, <4>2, <2>3, <3>1, <1>0
    <3> QED BY <3>1, <3>2, <1>5, <1>6
  <2> QED BY <2>1, <2>2, <2>3
<1>21. Upward(M, U, W)
  <2> SUFFICES ASSUME NEW id \in W
               PROVE  /\ up(M, id) \in W \cup {Nil}
                      /\ \E j \in 1 .. deg(M, U, up(M, id)) : kid(M, U, up(M, id), j) = id
    BY DEF Upward
  <2>0. id \in L /\ id # r
    BY DEF W
  <2>1. PICK k \in 1 .. deg(N, T, up(N, id)) : kid(N, T, up(N, id), k) = id
    BY <2>0 DEF Tree, Upward
  <2>2. up(N, id) \in L \cup {Nil}
    BY <2>0 DEF Tree, Upward
  <2>3. CASE up(N, id) = l \/ up(N, id) = r
    <3>1. PICK j \in 1 .. (a + b) : f(j) = id
      <4>1. CASE up(N, id) = l
        <5>1. k \in 1 .. (a + b) /\ k <= a
          BY <4>1, <2>1, <1>1 DEF a
        <5>2. f(k) = id
          BY <4>1, <2>1, <5>1 DEF a, f, joint
        <5> QED BY <5>1, <5>2
      <4>2. CASE up(N, id) = r
        <5>1. a + k \in 1 .. (a + b) /\ ~(a + k <= a) /\ (a + k) - a = k
          BY <4>2, <2>1, <1>1 DEF b
        <5>2. f(a + k) = id
          BY <4>2, <2>1, <5>1 DEF a, f, joint
        <5> QED BY <5>1, <5>2
      <4> QED BY <2>3, <4>1, <4>2
    <3>2. up(M, id) = l /\ kid(M, U, l, j) = id /\ deg(M, U, l) = a + b
      BY <3>1, <1>0
    <3> QED BY <3>1, <3>2, <1>3
  <2>4. CASE up(N, id) = p
    <3>0. e(k) = id /\ k \in 1 .. d /\ up(M, id) = p
      BY <2>1, <2>4, <1>0, <1>1 DEF e, d
    <3>1. k # i + 1
      BY <3>0, <2>0, <1>3
    <3>2. CASE k <= i
      <4>1. k \in 1 .. (d - 1) /\ kid(M, U, p, k) = id
        BY <3>0, <3>2, <1>0, <1>1, <1>3
      <4> QED BY <4>1, <3>0, <1>0, <1>3
    <3>3. CASE k > i + 1
      <4>1. k - 1 \in 1 .. (d - 1) /\ k - 1 \in (i + 1) .. (d - 1) /\ (k - 1) + 1 = k
        BY <3>0, <3>3, <1>1, <1>3
      <4>2. kid(M, U, p, k - 1) = id
        BY <4>1, <3>0, <1>0
      <4> QED BY <4>1, <4>2, <3>0, <1>0, <1>3
    <3> QED BY <3>0, <3>1, <3>2, <3>3, <1>1, <1>3
  <2>5. CASE up(N, id) # l /\ up(N, id) # r /\ up(N, id) # p
    <3>1. up(M, id) = up(N, id) /\ up(N, id) \in W \cup {Nil}
      BY <2>5, <2>2, <1>0 DEF W
    <3> QED BY <3>1, <2>5, <2>1, <2>2, <1>0
  <2> QED BY <2>3, <2>4, <2>5
<1>22. Levels(M, U, W, h)
  <2>1. \A id \in W : h[id] < h[Nil]
    BY DEF Tree, Levels, W
  <2> SUFFICES ASSUME NEW q \in W \cup {Nil}
               PROVE  /\ h[q] \in Nat
                      /\ deg(M, U, q) = 0 <=> h[q] = 0
                      /\ \A j \in 1 .. deg(M, U, q) : h[q] = h[kid(M, U, q, j)] + 1
    BY <2>1 DEF Levels
  <2>2. CASE q = l
    <3>1. a + b = 0 <=> h[l] = 0
      BY <1>1, <1>10, <1>11
    <3> QED BY <2>2, <3>1, <1>0, <1>1, <1>2
  <2>3. CASE q = p
    <3>1. d - 1 # 0 /\ h[p] # 0
      BY <1>1, <1>3
    <3>2. \A j \in 1 .. (d - 1) : h[p] = h[kid(M, U, p, j)] + 1
      <4> SUFFICES ASSUME NEW j \in 1 .. (d - 1) PROVE h[p] = h[kid(M, U, p, j)] + 1
        OBVIOUS
      <4>1. CASE j <= i
        BY <4>1, <1>0, <1>1, <1>3, <1>8
      <4>2. CASE j > i
        <5>1. j \in (i + 1) .. (d - 1) /\ j + 1 \in 1 .. d
          BY <4>2, <1>1, <1>3
        <5> QED BY <5>1, <1>0, <1>8
      <4> QED BY <4>1, <4>2, <1>1, <1>3
    <3> QED BY <2>3, <3>1, <3>2, <1>0, <1>1
  <2>4. CASE q # l /\ q # p
    <3>1. /\ q \in L \cup {Nil} /\ q # r
      BY <2>4, <1>1, Nil \notin L DEF W
    <3>2. deg(M, U, q) = deg(N, T, q) /\ \A j \in 1 .. deg(N, T, q) : kid(M, U, q, j) = kid(N, T, q, j)
      BY <2>4, <3>1, <1>0
    <3>3. /\ h[q] \in Nat /\ (deg(N, T, q) = 0 <=> h[q] = 0)
          /\ \A j \in 1 .. deg(N, T, q) : h[q] = h[kid(N, T, q, j)] + 1
      BY <3>1, <1>5, <1>6
    <3> QED BY <3>2, <3>3
  <2> QED BY <2>2, <2>3, <2>4
<1>23. Mutual(M, W, h)
  <2>1. lft(M, Nil) = Nil /\ rgt(M, Nil) = Nil
    BY <1>3, <1>4, <1>7
  <2> SUFFICES ASSUME NEW z \in W
               PROVE  /\ lft(M, z) # Nil => /\ lft(M, z) \in W /\ lft(M, z) # z
                                            /\ rgt(M, lft(M, z)) = z /\ h[lft(M, z)] = h[z]
                      /\ rgt(M, z) # Nil => /\ rgt(M, z) \in W /\ rgt(M, z) # z
                                            /\ lft(M, rgt(M, z)) = z /\ h[rgt(M, z)] = h[z]
    BY <2>1 DEF Mutual
  <2>2. z \in L /\ z # r /\ z # Nil
    BY Nil \notin L DEF W
  <2>3. ASSUME lft(M, z) # Nil
        PROVE  /\ lft(M, z) \in W /\ lft(M, z) # z
               /\ rgt(M, lft(M, z)) = z /\ h[lft(M, z)] = h[z]
    <3>1. CASE z = rgt(N, r)
      BY <3>1, <2>2, <1>4, <1>1, <1>3, <1>7
    <3>2. CASE z # rgt(N, r)
      <4>1. lft(M, z) = lft(N, z)
        BY <3>2, <1>4
      <4>2. lft(N, z) \in L /\ lft(N, z) # z /\ rgt(N, lft(N, z)) = z /\ h[lft(N, z)] = h[z]
        BY <4>1, <2>2, <2>3, <1>7
      <4>3. lft(N, z) # r /\ lft(N, z) # l
        BY <4>2, <3>2, <2>2, <1>1
      <4>4. lft(N, z) \in W
        BY <4>2, <4>3 DEF W
      <4> QED BY <4>1, <4>2, <4>3, <4>4, <1>4
    <3> QED BY <3>1, <3>2
  <2>4. ASSUME rgt(M, z) # Nil
        PROVE  /\ rgt(M, z) \in W /\ rgt(M, z) # z
               /\ lft(M, rgt(M, z)) = z /\ h[rgt(M, z)] = h[z]
    <3>1. CASE z = l
      <4>1. rgt(M, z) = rgt(N, r)
        BY <3>1, <1>4
      <4>2. rgt(N, r) \in L /\ rgt(N, r) # r /\ h[rgt(N, r)] = h[r]
        BY <4>1, <2>4, <1>1, <1>7
      <4>3. rgt(N, r) \in W
        BY <4>2 DEF W
      <4> QED BY <4>1, <4>2, <4>3, <3>1, <2>4, <1>1, <1>4
    <3>2. CASE z # l
      <4>1. rgt(M, z) = rgt(N, z)
        BY <3>2, <1>4
      <4>2. rgt(N, z) \in L /\ rgt(N, z) # z /\ lft(N, rgt(N, z)) = z /\ h[rgt(N, z)] = h[z]
        BY <4>1, <2>2, <2>4, <1>7
      <4>3. rgt(N, z) # r
        BY <4>2, <3>2, <1>1
      <4>4. rgt(N, z) # rgt(N, r)
        BY <4>2, <2>2, <1>1, <1>7
      <4>5. rgt(N, z) \in W
        BY <4>2, <4>3 DEF W
      <4> QED BY <4>1, <4>2, <4>4, <4>5, <1>4
    <3> QED BY <3>1, <3>2
  <2> QED BY <2>3, <2>4
<1>24. Rows(M, U, W)
  <2> SUFFICES ASSUME NEW q \in W \cup {Nil}, NEW j \in 1 .. deg(M, U, q)
               PROVE  /\ lft(M, kid(M, U, q, j)) = IF j > 1 THEN kid(M, U, q, j - 1)
                                                  ELSE lastKid(M, U, lft(M, q))
                      /\ rgt(M, kid(M, U, q, j)) = IF j < deg(M, U, q) THEN kid(M, U, q, j + 1)
                                                  ELSE firstKid(M, U, rgt(M, q))
    BY DEF Rows
  <2>0. q \in L \cup {Nil} /\ q # r /\ (q = Nil => lft(N, q) = Nil /\ rgt(N, q) = Nil /\ lft(M, q) = Nil /\ rgt(M, q) = Nil)
    BY <1>1, <1>3, <1>4, <1>7, Nil \notin L DEF W
  <2>1. \A s \in L \cup {Nil} : s # l /\ s # r /\ s # p /\ deg(N, T, s) > 0 =>
          /\ firstKid(M, U, s) = firstKid(N, T, s)
          /\ lastKid(M, U, s) = lastKid(N, T, s)
    BY <1>0, <1>6 DEF firstKid, lastKid
  <2>2. firstKid(N, T, Nil) = Nil /\ lastKid(N, T, Nil) = Nil /\ firstKid(M, U, Nil) = Nil /\ lastKid(M, U, Nil) = Nil
    BY DEF firstKid, lastKid
  <2>3. \A s \in L : /\ firstKid(N, T, s) = kid(N, T, s, 1) /\ lastKid(N, T, s) = kid(N, T, s, deg(N, T, s))
                     /\ firstKid(M, U, s) = kid(M, U, s, 1) /\ lastKid(M, U, s) = kid(M, U, s, deg(M, U, s))
    BY Nil \notin L DEF firstKid, lastKid
  <2>4. \A z \in W : h[z] # h[l] => lft(M, z) = lft(N, z) /\ rgt(M, z) = rgt(N, z)
    <3> SUFFICES ASSUME NEW z \in W, h[z] # h[l] PROVE lft(M, z) = lft(N, z) /\ rgt(M, z) = rgt(N, z)
      OBVIOUS
    <3>1. z # rgt(N, r) /\ z # l
      BY <1>1, <1>3, <1>7
    <3> QED BY <3>1, <1>4
  \* the row of l and r
  <2>5. lft(M, l) = lft(N, l) /\ rgt(M, l) = rgt(N, r)
    BY <1>1, <1>3, <1>4
  <2>6. CASE q = l
    <3>1. /\ deg(M, U, q) = a + b /\ j \in 1 .. (a + b) /\ kid(M, U, q, j) = f(j)
          /\ a + b > 0 /\ a > 0 /\ b > 0 /\ h[l] > 0
      BY <2>6, <1>0, <1>1, <1>2, <1>11
    <3>2. f(j) \in W /\ lft(M, f(j)) = lft(N, f(j)) /\ rgt(M, f(j)) = rgt(N, f(j))
      <4>1. f(j) \in W /\ f(j) \in L /\ h[f(j)] # h[l]
        BY <3>1, <1>1, <1>2, <1>6, <1>12
      <4> QED BY <4>1, <2>4
    <3>3. /\ lft(N, f(j)) = IF j > 1 THEN f(j - 1) ELSE lastKid(N, T, lft(N, l))
          /\ rgt(N, f(j)) = IF j < a + b THEN f(j + 1) ELSE firstKid(N, T, rgt(N, r))
      BY <3>1, <1>2
    <3>4. lastKid(M, U, lft(N, l)) = lastKid(N, T, lft(N, l))
      <4>1. CASE lft(N, l) = Nil
        BY <4>1, <2>2
      <4>2. CASE lft(N, l) # Nil
        <5>1. lft(N, l) \in L /\ lft(N, l) # l /\ h[lft(N, l)] = h[l]
          BY <4>2, <1>1, <1>7
        <5>2. deg(N, T, lft(N, l)) > 0 /\ lft(N, l) # r /\ lft(N, l) # p
          BY <5>1, <3>1, <1>1, <1>9
        <5> QED BY <5>1, <5>2, <2>1
      <4> QED BY <4>1, <4>2
    <3>5. firstKid(M, U, rgt(N, r)) = firstKid(N, T, rgt(N, r))
      <4>1. CASE rgt(N, r) = Nil
        BY <4>1, <2>2
      <4>2. CASE rgt(N, r) # Nil
        <5>1. rgt(N, r) \in L /\ rgt(N, r) # r /\ h[rgt(N, r)] = h[l]
          BY <4>2, <1>1, <1>7
        <5>2. deg(N, T, rgt(N, r)) > 0 /\ rgt(N, r) # l /\ rgt(N, r) # p
          BY <5>1, <3>1, <1>1, <1>9
        <5> QED BY <5>1, <5>2, <2>1
      <4> QED BY <4>1, <4>2
    <3>6. j > 1 => kid(M, U, l, j - 1) = f(j - 1)
      BY <3>1, <1>0, <1>1
    <3>7. j < a + b => kid(M, U, l, j + 1) = f(j + 1)
      BY <3>1, <1>0, <1>1
    <3> QED BY <2>6, <2>5, <3>1, <3>2, <3>3, <3>4, <3>5, <3>6, <3>7
  <2>7. CASE q = p
    <3>1. deg(M, U, p) = d - 1 /\ j \in 1 .. (d - 1) /\ lft(M, p) = lft(N, p) /\ rgt(M, p) = rgt(N, p)
      <4>1. CASE p = Nil
        BY <4>1, <2>0, <2>7, <1>0
      <4>2. CASE p # Nil
        <5>1. p \in W /\ h[p] # h[l]
          BY <4>2, <1>1, <1>3
        <5> QED BY <5>1, <2>4, <2>7, <1>0
      <4> QED BY <4>1, <4>2
    <3>2. lastKid(M, U, lft(N, p)) = lastKid(N, T, lft(N, p))
      <4>1. CASE lft(N, p) = Nil
        BY <4>1, <2>2
      <4>2. CASE lft(N, p) # Nil
        <5>1. p \in L
          BY <4>2, <2>0, <2>7
        <5>2. lft(N, p) \in L /\ lft(N, p) # p /\ h[lft(N, p)] = h[p]
          BY <4>2, <5>1, <1>7
        <5>3. deg(N, T, lft(N, p)) > 0 /\ lft(N, p) # l /\ lft(N, p) # r
          BY <5>2, <1>1, <1>9
        <5> QED BY <5>2, <5>3, <2>1
      <4> QED BY <4>1, <4>2
    <3>3. firstKid(M, U, rgt(N, p)) = firstKid(N, T, rgt(N, p))
      <4>1. CASE rgt(N, p) = Nil
        BY <4>1, <2>2
      <4>2. CASE rgt(N, p) # Nil
        <5>1. p \in L
          BY <4>2, <2>0, <2>7
        <5>2. rgt(N, p) \in L /\ rgt(N, p) # p /\ h[rgt(N, p)] = h[p]
          BY <4>2, <5>1, <1>7
        <5>3. deg(N, T, rgt(N, p)) > 0 /\ rgt(N, p) # l /\ rgt(N, p) # r
          BY <5>2, <1>1, <1>9
        <5> QED BY <5>2, <5>3, <2>1
      <4> QED BY <4>1, <4>2
    <3>4. rgt(N, r) = IF i + 1 < d THEN e((i + 1) + 1) ELSE firstKid(N, T, rgt(N, p))
      BY <1>3, <1>8
    <3>5. ASSUME NEW k \in 1 .. d, e(k) = rgt(N, r) PROVE k = (i + 1) + 1
      <4>1. CASE i + 1 < d
        BY <4>1, <3>4, <3>5, <1>1, <1>3, <1>8
      <4>2. CASE i + 1 = d
        <5>1. rgt(N, r) = firstKid(N, T, rgt(N, p)) /\ rgt(N, r) \in L /\ up(N, rgt(N, r)) = p
          BY <4>2, <3>4, <3>5, <1>1, <1>8
        <5>2. rgt(N, p) # Nil
          BY <5>1, <2>2, Nil \notin L
        <5>3. p \in L
          BY <5>2, <2>0, <2>7
        <5>4. rgt(N, p) \in L /\ rgt(N, p) # p /\ h[rgt(N, p)] = h[p]
          BY <5>2, <5>3, <1>7
        <5>5. deg(N, T, rgt(N, p)) > 0 /\ deg(N, T, rgt(N, p)) \in Nat /\ rgt(N, r) = kid(N, T, rgt(N, p), 1)
          BY <5>1, <5>4, <2>3, <1>1, <1>6, <1>9
        <5>6. up(N, rgt(N, r)) = rgt(N, p)
          BY <5>4, <5>5, <1>5
        <5> QED BY <5>1, <5>4, <5>6
      <4> QED BY <4>1, <4>2, <1>1, <1>3
    <3>6. CASE j < i
      <4>1. /\ j \in 1 .. d /\ j + 1 \in 1 .. i /\ j < d /\ j < d - 1 /\ j \in 1 .. i /\ j # (i + 1) + 1 /\ j # i + 1 /\ j # i
            /\ (j > 1 => j - 1 \in 1 .. i)
        BY <3>1, <3>6, <1>1, <1>3
      <4>2. kid(M, U, p, j) = e(j) /\ kid(M, U, p, j + 1) = e(j + 1) /\ (j > 1 => kid(M, U, p, j - 1) = e(j - 1))
        BY <4>1, <1>0
      <4>3. e(j) \in L /\ e(j) # l /\ e(j) # r /\ e(j) # rgt(N, r)
        BY <4>1, <3>5, <1>3, <1>8
      <4>4. e(j) \in W
        BY <4>3 DEF W
      <4>5. lft(M, e(j)) = lft(N, e(j)) /\ rgt(M, e(j)) = rgt(N, e(j))
        BY <4>3, <4>4, <1>4
      <4> QED BY <2>7, <3>1, <3>2, <4>1, <4>2, <4>5, <1>8
    <3>7. CASE j = i
      <4>1. kid(M, U, p, i) = l /\ (i > 1 => kid(M, U, p, i - 1) = e(i - 1))
        BY <1>0, <1>1, <1>3
      <4>2. lft(M, l) = IF i > 1 THEN e(i - 1) ELSE lastKid(N, T, lft(N, p))
        BY <2>5, <1>3, <1>8
      <4>3. i < d - 1 => kid(M, U, p, i + 1) = e((i + 1) + 1) /\ i + 1 < d
        BY <1>0, <1>1, <1>3
      <4>4. ~(i < d - 1) => ~(i + 1 < d)
        BY <1>1, <1>3
      <4> QED BY <2>7, <3>7, <3>1, <3>2, <3>3, <3>4, <4>1, <4>2, <4>3, <4>4, <2>5
    <3>8. CASE j > i
      <4>1. /\ j \in (i + 1) .. (d - 1) /\ j + 1 \in 1 .. d /\ j + 1 # i + 1 /\ j + 1 # i /\ j > 1
            /\ (j + 1 < d <=> j < d - 1) /\ (j + 1) - 1 = j /\ (j - 1) + 1 = j
            /\ (j < d - 1 => j + 1 \in (i + 1) .. (d - 1)) /\ j + 1 > 1
            /\ (j # i + 1 => j - 1 \in (i + 1) .. (d - 1) /\ j + 1 # (i + 1) + 1)
        BY <3>1, <3>8, <1>1, <1>3
      <4>2. kid(M, U, p, j) = e(j + 1) /\ (j < d - 1 => kid(M, U, p, j + 1) = e((j + 1) + 1))
        BY <4>1, <1>0
      <4>3. e(j + 1) \in L /\ e(j + 1) # l /\ e(j + 1) # r
        BY <4>1, <1>3, <1>8
      <4>4. e(j + 1) \in W
        BY <4>3 DEF W
      <4>5. rgt(M, e(j + 1)) = rgt(N, e(j + 1))
        BY <4>3, <4>4, <1>4
      <4>6. rgt(M, e(j + 1)) = IF j < d - 1 THEN kid(M, U, p, j + 1) ELSE firstKid(M, U, rgt(M, p))
        <5>1. rgt(N, e(j + 1)) = IF j + 1 < d THEN e((j + 1) + 1) ELSE firstKid(N, T, rgt(N, p))
          BY <4>1, <1>8
        <5> QED BY <5>1, <4>1, <4>2, <4>5, <3>1, <3>3
      <4>7. lft(M, e(j + 1)) = kid(M, U, p, j - 1)
        <5>1. CASE j = i + 1
          <6>1. e(j + 1) = rgt(N, r) /\ j - 1 = i
            BY <5>1, <4>1, <3>4, <1>1, <1>3
          <6>2. kid(M, U, p, i) = l
            BY <1>0, <1>3
          <6>3. rgt(N, r) # Nil
            BY <6>1, <4>3, Nil \notin L
          <6> QED BY <6>1, <6>2, <6>3, <1>4
        <5>2. CASE j # i + 1
          <6>1. e(j + 1) # rgt(N, r)
            BY <5>2, <4>1, <3>5
          <6>2. lft(M, e(j + 1)) = lft(N, e(j + 1))
            BY <6>1, <4>4, <1>4
          <6>3. lft(N, e(j + 1)) = e(j)
            BY <4>1, <1>8
          <6>4. kid(M, U, p, j - 1) = e(j)
            BY <5>2, <4>1, <1>0
          <6> QED BY <6>2, <6>3, <6>4
        <5> QED BY <5>1, <5>2
      <4> QED BY <2>7, <3>1, <4>1, <4>2, <4>6, <4>7
    <3> QED BY <3>1, <3>6, <3>7, <3>8, <1>1, <1>3
  <2>8. CASE q # l /\ q # p
    <3> DEFINE z == kid(N, T, q, j)
    <3>1. /\ deg(M, U, q) = deg(N, T, q) /\ kid(M, U, q, j) = z /\ j \in 1 .. deg(N, T, q)
          /\ (j > 1 => kid(M, U, q, j - 1) = kid(N, T, q, j - 1))
          /\ (j < deg(N, T, q) => kid(M, U, q, j + 1) = kid(N, T, q, j + 1))
      <4>1. deg(M, U, q) = deg(N, T, q) /\ \A k \in 1 .. deg(N, T, q) : kid(M, U, q, k) = kid(N, T, q, k)
        BY <2>0, <2>8, <1>0
      <4>2. deg(N, T, q) \in Nat
        BY <2>0, <1>6
      <4> QED BY <4>1, <4>2
    <3>2. /\ z \in L /\ up(N, z) = q /\ z # l /\ z # r
          /\ lft(N, z) = IF j > 1 THEN kid(N, T, q, j - 1) ELSE lastKid(N, T, lft(N, q))
          /\ rgt(N, z) = IF j < deg(N, T, q) THEN kid(N, T, q, j + 1) ELSE firstKid(N, T, rgt(N, q))
          /\ deg(N, T, q) > 0 /\ h[q] > 0
      BY <3>1, <2>0, <2>8, <1>1, <1>5, <1>6
    <3>3. z \in W
      BY <3>2 DEF W
    <3> HIDE DEF z
    <3>4. rgt(M, z) = rgt(N, z) /\ rgt(M, q) = rgt(N, q)
      BY <3>2, <3>3, <2>0, <2>8, <1>4
    <3>5. firstKid(M, U, rgt(N, q)) = firstKid(N, T, rgt(N, q))
      <4>1. CASE rgt(N, q) = Nil
        BY <4>1, <2>2
      <4>2. CASE rgt(N, q) # Nil
        <5>0. q \in L
          BY <4>2, <2>0
        <5>1. rgt(N, q) \in L /\ lft(N, rgt(N, q)) = q /\ h[rgt(N, q)] = h[q]
          BY <4>2, <5>0, <1>7
        <5>2. rgt(N, q) # r
          BY <5>1, <2>8, <1>1
        <5>3. CASE rgt(N, q) = l
          <6>1. a > 0 /\ b > 0 /\ 1 \in 1 .. (a + b)
            BY <5>1, <5>3, <3>2, <1>1, <1>10
          <6> QED BY <6>1, <5>3, <2>3, <1>0, <1>1, <1>2
        <5>4. CASE rgt(N, q) = p
          <6>1. 1 \in 1 .. i /\ p \in L
            BY <5>1, <5>4, <1>1, <1>3
          <6>2. kid(M, U, p, 1) = kid(N, T, p, 1)
            BY <6>1, <1>0 DEF e
          <6> QED BY <6>1, <6>2, <5>4, <2>3
        <5>5. CASE rgt(N, q) # l /\ rgt(N, q) # p
          <6>1. deg(N, T, rgt(N, q)) > 0
            BY <5>1, <3>2, <1>9
          <6> QED BY <5>1, <5>2, <5>5, <6>1, <2>1
        <5> QED BY <5>3, <5>4, <5>5
      <4> QED BY <4>1, <4>2
    <3>6. rgt(M, z) = IF j < deg(M, U, q) THEN kid(M, U, q, j + 1) ELSE firstKid(M, U, rgt(M, q))
      BY <3>1, <3>2, <3>4, <3>5
    <3>7. CASE j > 1
      <4>1. lft(N, z) = kid(N, T, q, j - 1) /\ j - 1 \in 1 .. deg(N, T, q)
        BY <3>1, <3>2, <3>7, <2>0, <1>6
      <4>2. up(N, lft(N, z)) = q
        BY <4>1, <2>0, <1>5
      <4>3. z # rgt(N, r)
        BY <4>2, <2>8, <3>2, <1>1, <1>7, Nil \notin L
      <4>4. lft(M, z) = lft(N, z)
        BY <4>3, <3>3, <1>4
      <4> QED BY <3>1, <3>6, <3>7, <4>1, <4>4
    <3>8. CASE j = 1
      <4>0. lft(N, z) = lastKid(N, T, lft(N, q))
        BY <3>2, <3>8
      <4>1. CASE lft(N, q) = Nil
        <5>1. lft(N, z) = Nil
          BY <4>0, <4>1, <2>2
        <5>2. z # rgt(N, r)
          BY <5>1, <3>2, <1>1, <1>7, Nil \notin L
        <5>3. lft(M, z) = Nil
          BY <5>1, <5>2, <3>3, <1>4
        <5>4. lft(M, q) = Nil
          <6>1. CASE q = Nil
            BY <6>1, <2>0
          <6>2. CASE q # Nil
            <7>1. q \in L /\ q # rgt(N, r) /\ q \in W
              BY <6>2, <4>1, <2>0, <1>1, <1>7, Nil \notin L
            <7> QED BY <7>1, <4>1, <1>4
          <6> QED BY <6>1, <6>2
        <5> QED BY <5>3, <5>4, <3>1, <3>6, <3>8, <2>2
      <4>2. CASE lft(N, q) # Nil
        <5>0. q \in L /\ q \in W
          BY <4>2, <2>0, Nil \notin L
        <5>1. lft(N, q) \in L /\ h[lft(N, q)] = h[q] /\ rgt(N, lft(N, q)) = q
          BY <4>2, <5>0, <1>7
        <5>2. deg(N, T, lft(N, q)) > 0 /\ deg(N, T, lft(N, q)) \in Nat /\ lft(N, z) = kid(N, T, lft(N, q), deg(N, T, lft(N, q)))
          BY <4>0, <5>1, <3>2, <2>3, <1>6, <1>9
        <5>3. up(N, lft(N, z)) = lft(N, q)
          BY <5>1, <5>2, <1>5
        <5>4. CASE lft(N, q) = r
          <6>1. q = rgt(N, r) /\ lft(M, q) = l
            BY <5>0, <5>1, <5>4, <4>2, <1>4, Nil \notin L
          <6>2. lastKid(M, U, l) = kid(N, T, r, b)
            <7>1. b > 0 /\ a + b > 0 /\ a + b \in 1 .. (a + b)
              BY <5>1, <5>4, <3>2, <1>1, <1>10
            <7> QED BY <7>1, <2>3, <1>0, <1>1, <1>2
          <6>3. z # rgt(N, r)
            BY <5>3, <5>4, <3>2, <1>1, <1>7, Nil \notin L
          <6>4. lft(M, z) = lft(N, z)
            BY <6>3, <3>3, <1>4
          <6> QED BY <6>1, <6>2, <6>4, <5>2, <5>4, <3>1, <3>6, <3>8 DEF b
        <5>5. CASE lft(N, q) # r
          <6>0. lft(N, q) # l
            BY <5>1, <2>0, <1>1
          <6>1. lft(M, q) = lft(N, q)
            <7>1. q # rgt(N, r)
              BY <5>0, <5>5, <1>1, <1>7, Nil \notin L
            <7> QED BY <7>1, <5>0, <1>4
          <6>2. CASE lft(N, q) = p /\ i + 1 = d
            <7>0. p \in L /\ lastKid(M, U, p) = kid(M, U, p, d - 1) /\ d - 1 = i
              BY <6>2, <5>1, <2>3, <1>0, <1>1, <1>3
            <7>1. lastKid(M, U, p) = l
              BY <7>0, <1>0, <1>3
            <7>2. lft(N, z) = r
              BY <5>2, <6>2, <1>3 DEF d, e
            <7>3. rgt(N, r) = z
              BY <7>2, <3>2, <1>1, <1>7, Nil \notin L
            <7>4. lft(M, z) = l
              BY <7>3, <3>2, <1>4, Nil \notin L
            <7> QED BY <7>1, <7>4, <6>1, <6>2, <3>1, <3>6, <3>8
          <6>3. CASE lft(N, q) = p /\ i + 1 # d
            <7>0. p \in L /\ lastKid(M, U, p) = kid(M, U, p, d - 1) /\ d - 1 \in (i + 1) .. (d - 1) /\ (d - 1) + 1 = d /\ d \in 1 .. d
              BY <6>3, <5>1, <2>3, <1>0, <1>1, <1>3
            <7>1. lastKid(M, U, p) = e(d)
              BY <7>0, <1>0
            <7>2. lft(N, z) = e(d) /\ e(d) # r
              BY <5>2, <6>3, <7>0, <1>3, <1>8 DEF d, e
            <7>3. z # rgt(N, r)
              BY <7>2, <3>2, <1>1, <1>7, Nil \notin L
            <7>4. lft(M, z) = lft(N, z)
              BY <7>3, <3>3, <1>4
            <7> QED BY <7>1, <7>2, <7>4, <6>1, <6>3, <3>1, <3>6, <3>8
          <6>4. CASE lft(N, q) # p
            <7>1. lft(N, z) # r
              BY <5>3, <6>4, <1>1
            <7>2. z # rgt(N, r)
              BY <7>1, <3>2, <1>1, <1>7, Nil \notin L
            <7>3. lft(M, z) = lft(N, z)
              BY <7>2, <3>3, <1>4
            <7>4. lastKid(M, U, lft(N, q)) = lastKid(N, T, lft(N, q))
              BY <5>1, <5>2, <5>5, <6>0, <6>4, <2>1
            <7> QED BY <7>3, <7>4, <4>0, <6>1, <3>1, <3>6, <3>8
          <6> QED BY <6>2, <6>3, <6>4
        <5> QED BY <5>4, <5>5
      <4> QED BY <4>1, <4>2
    <3>9. j > 1 \/ j = 1
      BY <3>1, <2>0, <1>6
    <3> QED BY <3>7, <3>8, <3>9
  <2> QED BY <2>6, <2>7, <2>8
<1> QED BY <1>20, <1>21, <1>22, <1>23, <1>24 DEF Tree, W

-----------------------------------------------------------------------------
(* The top of the tree *)

\* M, U have the links of N, T.
SameLinks(N, T, M, U, L) ==
  /\ \A q \in L \cup {Nil} : /\ deg(M, U, q) = deg(N, T, q)
                             /\ \A j \in 1 .. deg(N, T, q) : kid(M, U, q, j) = kid(N, T, q, j)
                             /\ lft(M, q) = lft(N, q) /\ rgt(M, q) = rgt(N, q)
  /\ \A id \in L : up(M, id) = up(N, id)

\* What keeps the links keeps the tree.
LEMMA SameTree ==
  ASSUME NEW N, NEW T, NEW L, NEW h, Nil \notin L, Tree(N, T, L, h),
         NEW M, NEW U, SameLinks(N, T, M, U, L)
  PROVE  Tree(M, U, L, h)
<1>0. /\ \A q \in L \cup {Nil} : /\ deg(M, U, q) = deg(N, T, q)
                                 /\ \A j \in 1 .. deg(N, T, q) : kid(M, U, q, j) = kid(N, T, q, j)
      /\ \A q \in L \cup {Nil} : lft(M, q) = lft(N, q) /\ rgt(M, q) = rgt(N, q)
      /\ \A id \in L : up(M, id) = up(N, id)
  BY DEF SameLinks
<1>1. Downward(M, U, L)
  BY <1>0 DEF Tree, Downward
<1>2. Upward(M, U, L)
  BY <1>0 DEF Tree, Upward
<1>3. Levels(M, U, L, h)
  BY <1>0 DEF Tree, Levels
<1>4. Mutual(M, L, h)
  <2>1. lft(M, Nil) = Nil /\ rgt(M, Nil) = Nil
    BY <1>0 DEF Tree, Mutual
  <2> SUFFICES ASSUME NEW z \in L
               PROVE  /\ lft(M, z) # Nil => /\ lft(M, z) \in L /\ lft(M, z) # z
                                            /\ rgt(M, lft(M, z)) = z /\ h[lft(M, z)] = h[z]
                      /\ rgt(M, z) # Nil => /\ rgt(M, z) \in L /\ rgt(M, z) # z
                                            /\ lft(M, rgt(M, z)) = z /\ h[rgt(M, z)] = h[z]
    BY <2>1 DEF Mutual
  <2> QED BY <1>0 DEF Tree, Mutual
<1>5. Rows(M, U, L)
  <2> SUFFICES ASSUME NEW q \in L \cup {Nil}, NEW j \in 1 .. deg(M, U, q)
               PROVE  /\ lft(M, kid(M, U, q, j)) = IF j > 1 THEN kid(M, U, q, j - 1)
                                                  ELSE lastKid(M, U, lft(M, q))
                      /\ rgt(M, kid(M, U, q, j)) = IF j < deg(M, U, q) THEN kid(M, U, q, j + 1)
                                                  ELSE firstKid(M, U, rgt(M, q))
    BY DEF Rows
  <2>1. /\ deg(N, T, q) \in Nat /\ j \in 1 .. deg(N, T, q) /\ h[q] > 0
        /\ (j > 1 => j - 1 \in 1 .. deg(N, T, q)) /\ (j < deg(N, T, q) => j + 1 \in 1 .. deg(N, T, q))
    BY <1>0 DEF Tree, Downward, Levels
  <2>2. /\ lft(N, kid(N, T, q, j)) = IF j > 1 THEN kid(N, T, q, j - 1) ELSE lastKid(N, T, lft(N, q))
        /\ rgt(N, kid(N, T, q, j)) = IF j < deg(N, T, q) THEN kid(N, T, q, j + 1) ELSE firstKid(N, T, rgt(N, q))
        /\ kid(N, T, q, j) \in L
    BY <2>1 DEF Tree, Rows, Downward
  <2>3. \A s \in L \cup {Nil} : s # Nil => firstKid(N, T, s) = kid(N, T, s, 1) /\ lastKid(N, T, s) = kid(N, T, s, deg(N, T, s))
                                          /\ firstKid(M, U, s) = kid(M, U, s, 1) /\ lastKid(M, U, s) = kid(M, U, s, deg(M, U, s))
    BY DEF firstKid, lastKid
  <2>4. firstKid(N, T, Nil) = Nil /\ lastKid(N, T, Nil) = Nil /\ firstKid(M, U, Nil) = Nil /\ lastKid(M, U, Nil) = Nil
    BY DEF firstKid, lastKid
  <2>5. lft(N, Nil) = Nil /\ rgt(N, Nil) = Nil
    BY DEF Tree, Mutual
  <2>6. lastKid(M, U, lft(N, q)) = lastKid(N, T, lft(N, q))
    <3>1. CASE lft(N, q) = Nil
      BY <3>1, <2>4
    <3>2. CASE lft(N, q) # Nil
      <4>1. lft(N, q) \in L /\ h[lft(N, q)] = h[q]
        BY <3>2, <2>5 DEF Tree, Mutual
      <4>2. deg(N, T, lft(N, q)) \in Nat /\ deg(N, T, lft(N, q)) # 0
        BY <4>1, <2>1 DEF Tree, Levels, Downward
      <4> QED BY <3>2, <4>1, <4>2, <2>3, <1>0
    <3> QED BY <3>1, <3>2
  <2>7. firstKid(M, U, rgt(N, q)) = firstKid(N, T, rgt(N, q))
    <3>1. CASE rgt(N, q) = Nil
      BY <3>1, <2>4
    <3>2. CASE rgt(N, q) # Nil
      <4>1. rgt(N, q) \in L /\ h[rgt(N, q)] = h[q]
        BY <3>2, <2>5 DEF Tree, Mutual
      <4>2. deg(N, T, rgt(N, q)) \in Nat /\ deg(N, T, rgt(N, q)) # 0
        BY <4>1, <2>1 DEF Tree, Levels, Downward
      <4> QED BY <3>2, <4>1, <4>2, <2>3, <1>0
    <3> QED BY <3>1, <3>2
  <2> QED BY <2>1, <2>2, <2>6, <2>7, <1>0
<1> QED BY <1>1, <1>2, <1>3, <1>4, <1>5 DEF Tree

\* A new top t over the two nodes that a split of the top left.
Grown(N, T, h, M, U, g, L, t) ==
  /\ t \notin L /\ t # Nil
  /\ deg(M, U, Nil) = 1 /\ kid(M, U, Nil, 1) = t
  /\ deg(N, T, Nil) > 0
  /\ deg(M, U, t) = deg(N, T, Nil)
  /\ \A j \in 1 .. deg(N, T, Nil) : kid(M, U, t, j) = kid(N, T, Nil, j)
  /\ \A q \in L : /\ deg(M, U, q) = deg(N, T, q)
                  /\ \A j \in 1 .. deg(N, T, q) : kid(M, U, q, j) = kid(N, T, q, j)
  /\ \A q \in L \cup {Nil} : lft(M, q) = lft(N, q) /\ rgt(M, q) = rgt(N, q)
  /\ lft(M, t) = Nil /\ rgt(M, t) = Nil /\ up(M, t) = Nil
  /\ \A id \in L : up(M, id) = IF up(N, id) = Nil THEN t ELSE up(N, id)
  /\ g[t] = h[Nil] /\ g[Nil] = h[Nil] + 1 /\ \A q \in L : g[q] = h[q]

\* A new top keeps the tree.
LEMMA GrowTree ==
  ASSUME NEW N, NEW T, NEW L, NEW h, Nil \notin L, Tree(N, T, L, h),
         NEW M, NEW U, NEW g, NEW t, Grown(N, T, h, M, U, g, L, t)
  PROVE  Tree(M, U, L \cup {t}, g)
<1>0. /\ t \notin L /\ t # Nil
      /\ deg(M, U, Nil) = 1 /\ kid(M, U, Nil, 1) = t
      /\ deg(N, T, Nil) > 0
      /\ deg(M, U, t) = deg(N, T, Nil)
      /\ \A j \in 1 .. deg(N, T, Nil) : kid(M, U, t, j) = kid(N, T, Nil, j)
      /\ \A q \in L : /\ deg(M, U, q) = deg(N, T, q)
                      /\ \A j \in 1 .. deg(N, T, q) : kid(M, U, q, j) = kid(N, T, q, j)
      /\ \A q \in L \cup {Nil} : lft(M, q) = lft(N, q) /\ rgt(M, q) = rgt(N, q)
      /\ lft(M, t) = Nil /\ rgt(M, t) = Nil /\ up(M, t) = Nil
      /\ \A id \in L : up(M, id) = IF up(N, id) = Nil THEN t ELSE up(N, id)
      /\ g[t] = h[Nil] /\ g[Nil] = h[Nil] + 1 /\ \A q \in L : g[q] = h[q]
  BY DEF Grown
<1>1. Downward(M, U, L \cup {t})
  <2> SUFFICES ASSUME NEW q \in (L \cup {t}) \cup {Nil}
               PROVE  /\ deg(M, U, q) \in Nat
                      /\ \A j \in 1 .. deg(M, U, q) : kid(M, U, q, j) \in L \cup {t} /\ up(M, kid(M, U, q, j)) = q
                      /\ \A j, k \in 1 .. deg(M, U, q) : kid(M, U, q, j) = kid(M, U, q, k) => j = k
    BY DEF Downward
  <2>1. CASE q = Nil
    BY <2>1, <1>0
  <2>2. CASE q = t
    BY <2>2, <1>0 DEF Tree, Downward
  <2>3. CASE q \in L
    BY <2>3, <1>0 DEF Tree, Downward
  <2> QED BY <2>1, <2>2, <2>3
<1>2. Upward(M, U, L \cup {t})
  <2> SUFFICES ASSUME NEW id \in L \cup {t}
               PROVE  /\ up(M, id) \in (L \cup {t}) \cup {Nil}
                      /\ \E j \in 1 .. deg(M, U, up(M, id)) : kid(M, U, up(M, id), j) = id
    BY DEF Upward
  <2>1. CASE id = t
    BY <2>1, <1>0
  <2>2. CASE id \in L /\ up(N, id) = Nil
    BY <2>2, <1>0 DEF Tree, Upward
  <2>3. CASE id \in L /\ up(N, id) # Nil
    BY <2>3, <1>0 DEF Tree, Upward
  <2> QED BY <2>1, <2>2, <2>3
<1>3. Levels(M, U, L \cup {t}, g)
  <2>1. \A id \in L \cup {t} : g[id] < g[Nil]
    BY <1>0 DEF Tree, Levels
  <2> SUFFICES ASSUME NEW q \in (L \cup {t}) \cup {Nil}
               PROVE  /\ g[q] \in Nat
                      /\ deg(M, U, q) = 0 <=> g[q] = 0
                      /\ \A j \in 1 .. deg(M, U, q) : g[q] = g[kid(M, U, q, j)] + 1
    BY <2>1 DEF Levels
  <2>2. CASE q = Nil
    BY <2>2, <1>0 DEF Tree, Levels
  <2>3. CASE q = t
    BY <2>3, <1>0 DEF Tree, Levels, Downward
  <2>4. CASE q \in L
    <3>1. /\ g[q] = h[q] /\ deg(M, U, q) = deg(N, T, q)
          /\ \A j \in 1 .. deg(N, T, q) : kid(M, U, q, j) = kid(N, T, q, j)
      BY <2>4, <1>0
    <3>2. /\ h[q] \in Nat /\ (deg(N, T, q) = 0 <=> h[q] = 0)
          /\ \A j \in 1 .. deg(N, T, q) : h[q] = h[kid(N, T, q, j)] + 1 /\ kid(N, T, q, j) \in L
      BY <2>4 DEF Tree, Levels, Downward
    <3>3. \A x \in L : g[x] = h[x]
      BY <1>0
    <3> QED BY ONLY <3>1, <3>2, <3>3
  <2> QED BY <2>2, <2>3, <2>4
<1>4. Mutual(M, L \cup {t}, g)
  <2>1. lft(M, Nil) = Nil /\ rgt(M, Nil) = Nil
    BY <1>0 DEF Tree, Mutual
  <2> SUFFICES ASSUME NEW z \in L \cup {t}
               PROVE  /\ lft(M, z) # Nil => /\ lft(M, z) \in L \cup {t} /\ lft(M, z) # z
                                            /\ rgt(M, lft(M, z)) = z /\ g[lft(M, z)] = g[z]
                      /\ rgt(M, z) # Nil => /\ rgt(M, z) \in L \cup {t} /\ rgt(M, z) # z
                                            /\ lft(M, rgt(M, z)) = z /\ g[rgt(M, z)] = g[z]
    BY <2>1 DEF Mutual
  <2> QED BY <1>0 DEF Tree, Mutual
<1>5. Rows(M, U, L \cup {t})
  <2> SUFFICES ASSUME NEW q \in (L \cup {t}) \cup {Nil}, NEW j \in 1 .. deg(M, U, q)
               PROVE  /\ lft(M, kid(M, U, q, j)) = IF j > 1 THEN kid(M, U, q, j - 1)
                                                  ELSE lastKid(M, U, lft(M, q))
                      /\ rgt(M, kid(M, U, q, j)) = IF j < deg(M, U, q) THEN kid(M, U, q, j + 1)
                                                  ELSE firstKid(M, U, rgt(M, q))
    BY DEF Rows
  <2>0. lft(N, Nil) = Nil /\ rgt(N, Nil) = Nil /\ lft(M, Nil) = Nil /\ rgt(M, Nil) = Nil
    BY <1>0 DEF Tree, Mutual
  <2>1. firstKid(N, T, Nil) = Nil /\ lastKid(N, T, Nil) = Nil /\ firstKid(M, U, Nil) = Nil /\ lastKid(M, U, Nil) = Nil
    BY DEF firstKid, lastKid
  <2>2. CASE q = Nil
    BY <2>2, <2>0, <2>1, <1>0
  <2>3. ASSUME NEW s \in L \cup {Nil}, NEW k \in 1 .. deg(N, T, s)
        PROVE  /\ lft(M, kid(N, T, s, k)) = IF k > 1 THEN kid(N, T, s, k - 1) ELSE lastKid(N, T, lft(N, s))
               /\ rgt(M, kid(N, T, s, k)) = IF k < deg(N, T, s) THEN kid(N, T, s, k + 1) ELSE firstKid(N, T, rgt(N, s))
    BY <1>0 DEF Tree, Rows, Downward
  <2>4. CASE q = t
    <3>1. /\ j \in 1 .. deg(N, T, Nil) /\ deg(N, T, Nil) \in Nat /\ kid(M, U, q, j) = kid(N, T, Nil, j)
          /\ (j > 1 => kid(M, U, t, j - 1) = kid(N, T, Nil, j - 1))
          /\ (j < deg(N, T, Nil) => kid(M, U, t, j + 1) = kid(N, T, Nil, j + 1))
      BY <2>4, <1>0 DEF Tree, Downward
    <3> QED BY <2>3, <2>4, <3>1, <2>0, <2>1, <1>0
  <2>5. CASE q \in L
    <3>1. /\ deg(M, U, q) = deg(N, T, q) /\ j \in 1 .. deg(N, T, q) /\ deg(N, T, q) \in Nat /\ kid(M, U, q, j) = kid(N, T, q, j)
          /\ (j > 1 => kid(M, U, q, j - 1) = kid(N, T, q, j - 1))
          /\ (j < deg(N, T, q) => kid(M, U, q, j + 1) = kid(N, T, q, j + 1))
          /\ lft(M, q) = lft(N, q) /\ rgt(M, q) = rgt(N, q) /\ h[q] \in Nat /\ h[q] # 0
      BY <2>5, <1>0 DEF Tree, Downward, Levels
    <3>2. lastKid(M, U, lft(N, q)) = lastKid(N, T, lft(N, q))
      <4>1. CASE lft(N, q) = Nil
        BY <4>1, <2>1
      <4>2. CASE lft(N, q) # Nil
        <5>1. lft(N, q) \in L /\ h[lft(N, q)] = h[q]
          BY <4>2, <2>5 DEF Tree, Mutual
        <5>2. deg(N, T, lft(N, q)) \in Nat /\ deg(N, T, lft(N, q)) # 0
          BY <5>1, <3>1 DEF Tree, Levels, Downward
        <5> QED BY <4>2, <5>1, <5>2, <1>0 DEF lastKid
      <4> QED BY <4>1, <4>2
    <3>3. firstKid(M, U, rgt(N, q)) = firstKid(N, T, rgt(N, q))
      <4>1. CASE rgt(N, q) = Nil
        BY <4>1, <2>1
      <4>2. CASE rgt(N, q) # Nil
        <5>1. rgt(N, q) \in L /\ h[rgt(N, q)] = h[q]
          BY <4>2, <2>5 DEF Tree, Mutual
        <5>2. deg(N, T, rgt(N, q)) \in Nat /\ deg(N, T, rgt(N, q)) # 0
          BY <5>1, <3>1 DEF Tree, Levels, Downward
        <5> QED BY <4>2, <5>1, <5>2, <1>0 DEF firstKid
      <4> QED BY <4>1, <4>2
    <3> QED BY <2>3, <2>5, <3>1, <3>2, <3>3
  <2> QED BY <2>2, <2>4, <2>5
<1> QED BY <1>1, <1>2, <1>3, <1>4, <1>5 DEF Tree

\* The top t gives way to its only child c.
Collapsed(N, T, h, M, U, g, L, t, c) ==
  /\ deg(N, T, Nil) = 1 /\ kid(N, T, Nil, 1) = t
  /\ deg(N, T, t) = 1 /\ kid(N, T, t, 1) = c
  /\ deg(M, U, Nil) = 1 /\ kid(M, U, Nil, 1) = c
  /\ \A q \in L \ {t} : /\ deg(M, U, q) = deg(N, T, q)
                        /\ \A j \in 1 .. deg(N, T, q) : kid(M, U, q, j) = kid(N, T, q, j)
  /\ \A q \in (L \cup {Nil}) \ {c} : lft(M, q) = lft(N, q) /\ rgt(M, q) = rgt(N, q)
  /\ lft(M, c) = Nil /\ rgt(M, c) = Nil /\ up(M, c) = Nil
  /\ \A id \in L \ {c} : up(M, id) = up(N, id)
  /\ g[Nil] = h[Nil] - 1 /\ \A q \in L : g[q] = h[q]

\* Dropping a top with one child keeps the tree.
LEMMA CollapseTree ==
  ASSUME NEW N, NEW T, NEW L, NEW h, Nil \notin L, Tree(N, T, L, h),
         NEW M, NEW U, NEW g, NEW t, NEW c, Collapsed(N, T, h, M, U, g, L, t, c)
  PROVE  Tree(M, U, L \ {t}, g)
<1> DEFINE W == L \ {t}
<1>0. /\ deg(N, T, Nil) = 1 /\ kid(N, T, Nil, 1) = t
      /\ deg(N, T, t) = 1 /\ kid(N, T, t, 1) = c
      /\ deg(M, U, Nil) = 1 /\ kid(M, U, Nil, 1) = c
      /\ \A q \in W : /\ deg(M, U, q) = deg(N, T, q)
                      /\ \A j \in 1 .. deg(N, T, q) : kid(M, U, q, j) = kid(N, T, q, j)
      /\ \A q \in (L \cup {Nil}) \ {c} : lft(M, q) = lft(N, q) /\ rgt(M, q) = rgt(N, q)
      /\ lft(M, c) = Nil /\ rgt(M, c) = Nil /\ up(M, c) = Nil
      /\ \A id \in L \ {c} : up(M, id) = up(N, id)
      /\ g[Nil] = h[Nil] - 1 /\ \A q \in L : g[q] = h[q]
  BY DEF Collapsed
<1>1. /\ t \in L /\ c \in L /\ c # t /\ c # Nil /\ t # Nil /\ up(N, t) = Nil /\ up(N, c) = t
      /\ h[Nil] = h[t] + 1 /\ h[t] = h[c] + 1 /\ h[c] \in Nat /\ h[t] \in Nat /\ h[Nil] \in Nat /\ c \in W
  BY <1>0 DEF Tree, Downward, Levels
<1>2. \A id \in L : (up(N, id) = Nil => id = t) /\ (up(N, id) = t => id = c)
  BY <1>0, <1>1 DEF Tree, Upward
<1>3. lft(N, t) = Nil /\ rgt(N, t) = Nil /\ lft(N, c) = Nil /\ rgt(N, c) = Nil /\ lft(N, Nil) = Nil /\ rgt(N, Nil) = Nil
  <2>1. lft(N, Nil) = Nil /\ rgt(N, Nil) = Nil
    BY DEF Tree, Mutual
  <2>2. lft(N, t) = Nil /\ rgt(N, t) = Nil
    BY <1>0, <2>1 DEF Tree, Rows, firstKid, lastKid
  <2> QED BY <1>0, <1>1, <2>1, <2>2 DEF Tree, Rows, firstKid, lastKid
<1>4. \A q \in L \cup {Nil} : lft(M, q) = lft(N, q) /\ rgt(M, q) = rgt(N, q)
  BY <1>0, <1>3
<1>5. \A q \in W : \A j \in 1 .. deg(N, T, q) : kid(N, T, q, j) \in W /\ kid(N, T, q, j) # c
  BY <1>1 DEF Tree, Downward
<1>6. \A id \in W : id # c => up(N, id) \in W
  BY <1>2 DEF Tree, Upward
<1>7. Downward(M, U, W)
  <2> SUFFICES ASSUME NEW q \in W \cup {Nil}
               PROVE  /\ deg(M, U, q) \in Nat
                      /\ \A j \in 1 .. deg(M, U, q) : kid(M, U, q, j) \in W /\ up(M, kid(M, U, q, j)) = q
                      /\ \A j, k \in 1 .. deg(M, U, q) : kid(M, U, q, j) = kid(M, U, q, k) => j = k
    BY DEF Downward
  <2>1. CASE q = Nil
    BY <2>1, <1>0, <1>1
  <2>2. CASE q \in W
    BY <2>2, <1>0, <1>5 DEF Tree, Downward
  <2> QED BY <2>1, <2>2
<1>8. Upward(M, U, W)
  <2> SUFFICES ASSUME NEW id \in W
               PROVE  /\ up(M, id) \in W \cup {Nil}
                      /\ \E j \in 1 .. deg(M, U, up(M, id)) : kid(M, U, up(M, id), j) = id
    BY DEF Upward
  <2>1. CASE id = c
    BY <2>1, <1>0
  <2>2. CASE id # c
    <3>1. up(M, id) = up(N, id) /\ up(N, id) \in W
      BY <2>2, <1>0, <1>6
    <3> QED BY <3>1, <1>0 DEF Tree, Upward
  <2> QED BY <2>1, <2>2
<1>9. Levels(M, U, W, g)
  <2>1. \A id \in W : g[id] < g[Nil]
    <3> SUFFICES ASSUME NEW id \in W PROVE g[id] < g[Nil]
      OBVIOUS
    <3>1. CASE id = c
      BY <3>1, <1>0, <1>1
    <3>2. CASE id # c
      <4>1. up(N, id) \in L /\ h[up(N, id)] < h[Nil] /\ h[up(N, id)] \in Nat
        BY <3>2, <1>6 DEF Tree, Levels
      <4>2. h[up(N, id)] = h[id] + 1 /\ h[id] \in Nat
        BY <4>1 DEF Tree, Levels, Upward
      <4> QED BY <4>1, <4>2, <1>0, <1>1
    <3> QED BY <3>1, <3>2
  <2> SUFFICES ASSUME NEW q \in W \cup {Nil}
               PROVE  /\ g[q] \in Nat
                      /\ deg(M, U, q) = 0 <=> g[q] = 0
                      /\ \A j \in 1 .. deg(M, U, q) : g[q] = g[kid(M, U, q, j)] + 1
    BY <2>1 DEF Levels
  <2>2. CASE q = Nil
    BY <2>2, <1>0, <1>1
  <2>3. CASE q \in W
    <3>1. deg(M, U, q) = deg(N, T, q) /\ g[q] = h[q]
      BY <2>3, <1>0
    <3>2. \A j \in 1 .. deg(N, T, q) : kid(M, U, q, j) = kid(N, T, q, j) /\ g[kid(N, T, q, j)] = h[kid(N, T, q, j)]
      BY <2>3, <1>0, <1>5
    <3> QED BY <2>3, <3>1, <3>2 DEF Tree, Levels
  <2> QED BY <2>2, <2>3
<1>10. Mutual(M, W, g)
  <2>1. lft(M, Nil) = Nil /\ rgt(M, Nil) = Nil
    BY <1>3, <1>4
  <2> SUFFICES ASSUME NEW z \in W
               PROVE  /\ lft(M, z) # Nil => /\ lft(M, z) \in W /\ lft(M, z) # z
                                            /\ rgt(M, lft(M, z)) = z /\ g[lft(M, z)] = g[z]
                      /\ rgt(M, z) # Nil => /\ rgt(M, z) \in W /\ rgt(M, z) # z
                                            /\ lft(M, rgt(M, z)) = z /\ g[rgt(M, z)] = g[z]
    BY <2>1 DEF Mutual
  <2>2. /\ lft(M, z) = lft(N, z) /\ rgt(M, z) = rgt(N, z) /\ z \in L /\ z # Nil
    BY <1>4, Nil \notin L
  <2>3. lft(N, z) # Nil => /\ lft(N, z) \in L /\ lft(N, z) # z /\ lft(N, z) # t
                           /\ rgt(N, lft(N, z)) = z /\ h[lft(N, z)] = h[z]
    BY <1>3, <2>2 DEF Tree, Mutual
  <2>4. rgt(N, z) # Nil => /\ rgt(N, z) \in L /\ rgt(N, z) # z /\ rgt(N, z) # t
                           /\ lft(N, rgt(N, z)) = z /\ h[rgt(N, z)] = h[z]
    BY <1>3, <2>2 DEF Tree, Mutual
  <2> QED BY <2>2, <2>3, <2>4, <1>0, <1>4
<1>11. Rows(M, U, W)
  <2> SUFFICES ASSUME NEW q \in W \cup {Nil}, NEW j \in 1 .. deg(M, U, q)
               PROVE  /\ lft(M, kid(M, U, q, j)) = IF j > 1 THEN kid(M, U, q, j - 1)
                                                  ELSE lastKid(M, U, lft(M, q))
                      /\ rgt(M, kid(M, U, q, j)) = IF j < deg(M, U, q) THEN kid(M, U, q, j + 1)
                                                  ELSE firstKid(M, U, rgt(M, q))
    BY DEF Rows
  <2>1. firstKid(N, T, Nil) = Nil /\ lastKid(N, T, Nil) = Nil /\ firstKid(M, U, Nil) = Nil /\ lastKid(M, U, Nil) = Nil
    BY DEF firstKid, lastKid
  <2>2. CASE q = Nil
    BY <2>2, <2>1, <1>0, <1>3, <1>4
  <2>3. CASE q \in W
    <3>1. /\ deg(M, U, q) = deg(N, T, q) /\ j \in 1 .. deg(N, T, q) /\ deg(N, T, q) \in Nat /\ kid(M, U, q, j) = kid(N, T, q, j)
          /\ (j > 1 => kid(M, U, q, j - 1) = kid(N, T, q, j - 1))
          /\ (j < deg(N, T, q) => kid(M, U, q, j + 1) = kid(N, T, q, j + 1))
          /\ lft(M, q) = lft(N, q) /\ rgt(M, q) = rgt(N, q) /\ h[q] \in Nat /\ h[q] # 0 /\ q \in L
      <4>1. deg(N, T, q) \in Nat /\ h[q] \in Nat /\ (h[q] = 0 <=> deg(N, T, q) = 0)
        BY <2>3 DEF Tree, Downward, Levels
      <4>2. deg(M, U, q) = deg(N, T, q) /\ \A k \in 1 .. deg(N, T, q) : kid(M, U, q, k) = kid(N, T, q, k)
        BY <2>3, <1>0
      <4> QED BY <2>3, <4>1, <4>2, <1>4
    <3>2. lastKid(M, U, lft(N, q)) = lastKid(N, T, lft(N, q))
      <4>1. CASE lft(N, q) = Nil
        BY <4>1, <2>1
      <4>2. CASE lft(N, q) # Nil
        <5>1. lft(N, q) \in L /\ h[lft(N, q)] = h[q] /\ lft(N, q) # t
          BY <4>2, <3>1, <1>3, Nil \notin L DEF Tree, Mutual
        <5>2. deg(N, T, lft(N, q)) \in Nat /\ deg(N, T, lft(N, q)) # 0
          BY <5>1, <3>1 DEF Tree, Levels, Downward
        <5> QED BY <4>2, <5>1, <5>2, <1>0 DEF lastKid
      <4> QED BY <4>1, <4>2
    <3>3. firstKid(M, U, rgt(N, q)) = firstKid(N, T, rgt(N, q))
      <4>1. CASE rgt(N, q) = Nil
        BY <4>1, <2>1
      <4>2. CASE rgt(N, q) # Nil
        <5>1. rgt(N, q) \in L /\ h[rgt(N, q)] = h[q] /\ rgt(N, q) # t
          BY <4>2, <3>1, <1>3, Nil \notin L DEF Tree, Mutual
        <5>2. deg(N, T, rgt(N, q)) \in Nat /\ deg(N, T, rgt(N, q)) # 0
          BY <5>1, <3>1 DEF Tree, Levels, Downward
        <5> QED BY <4>2, <5>1, <5>2, <1>0 DEF firstKid
      <4> QED BY <4>1, <4>2
    <3>4. /\ lft(N, kid(N, T, q, j)) = IF j > 1 THEN kid(N, T, q, j - 1) ELSE lastKid(N, T, lft(N, q))
          /\ rgt(N, kid(N, T, q, j)) = IF j < deg(N, T, q) THEN kid(N, T, q, j + 1) ELSE firstKid(N, T, rgt(N, q))
          /\ kid(N, T, q, j) \in L
      BY <3>1 DEF Tree, Rows, Downward
    <3>5. lft(M, kid(N, T, q, j)) = lft(N, kid(N, T, q, j)) /\ rgt(M, kid(N, T, q, j)) = rgt(N, kid(N, T, q, j))
      BY <3>4, <1>4
    <3> QED BY <3>1, <3>2, <3>3, <3>4, <3>5
  <2> QED BY <2>2, <2>3
<1> QED BY <1>7, <1>8, <1>9, <1>10, <1>11 DEF Tree

\* Nothing is in the tree but its only leaf, and nothing at all without a top.
LEMMA LoneLeaf ==
  ASSUME NEW N, NEW T, NEW L, NEW h, Nil \notin L, Tree(N, T, L, h)
  PROVE  /\ deg(N, T, Nil) = 0 => L = {}
         /\ \A x : deg(N, T, Nil) = 1 /\ kid(N, T, Nil, 1) = x /\ deg(N, T, x) = 0 => L = {x}
<1>1. deg(N, T, Nil) = 0 => L = {}
  BY DEF Tree, Levels
<1>2. ASSUME NEW x, deg(N, T, Nil) = 1, kid(N, T, Nil, 1) = x, deg(N, T, x) = 0 PROVE L = {x}
  <2>1. x \in L /\ h[x] = 0 /\ h[Nil] = 1
    BY <1>2 DEF Tree, Levels, Downward
  <2>2. ASSUME NEW id \in L PROVE id = x
    <3>1. h[id] = 0
      BY <2>1, <2>2 DEF Tree, Levels
    <3>2. up(N, id) = Nil
      BY <2>1, <2>2, <3>1 DEF Tree, Levels, Upward
    <3> QED BY <1>2, <2>2, <3>2 DEF Tree, Upward
  <2> QED BY <2>1, <2>2
<1> QED BY <1>1, <1>2

\* A single leaf is a tree.
LEMMA PlantTree ==
  ASSUME NEW M, NEW U, NEW g, NEW x, x # Nil,
         deg(M, U, Nil) = 1, kid(M, U, Nil, 1) = x, deg(M, U, x) = 0, up(M, x) = Nil,
         lft(M, x) = Nil, rgt(M, x) = Nil, g[x] = 0, g[Nil] = 1
  PROVE  Tree(M, U, {x}, g)
<1>1. lft(M, Nil) = Nil /\ rgt(M, Nil) = Nil
  BY DEF lft, rgt
<1>2. firstKid(M, U, Nil) = Nil /\ lastKid(M, U, Nil) = Nil
  BY DEF firstKid, lastKid
<1> QED BY <1>1, <1>2 DEF Tree, Downward, Upward, Levels, Mutual, Rows

\* No nodes are a tree.
LEMMA FellTree ==
  ASSUME NEW M, NEW U, NEW g, deg(M, U, Nil) = 0, g[Nil] = 0
  PROVE  Tree(M, U, {}, g)
<1>1. lft(M, Nil) = Nil /\ rgt(M, Nil) = Nil
  BY DEF lft, rgt
<1> QED BY <1>1 DEF Tree, Downward, Upward, Levels, Mutual, Rows

-----------------------------------------------------------------------------
(* Vectors, nodes and trees in order *)

\* Integers in ascending order.
ascending(s) == \A i, j \in 1 .. Len(s) : i < j => s[i] < s[j]

\* A vector of integers.
integers(s) == Len(s) \in Nat /\ \A i \in 1 .. Len(s) : s[i] \in Int

\* It is enough to compare neighbours.
LEMMA NeighboursAscend ==
  ASSUME NEW s, integers(s), \A i \in 1 .. (Len(s) - 1) : s[i] < s[i + 1]
  PROVE  ascending(s)
<1> DEFINE S == {n \in Nat : \A i \in 1 .. Len(s) : i + (n + 1) \in 1 .. Len(s) => s[i] < s[i + (n + 1)]}
<1>1. Len(s) \in Nat /\ \A i \in 1 .. Len(s) : s[i] \in Int
  BY DEF integers
<1>2. 0 \in S
  BY <1>1
<1>3. ASSUME NEW n \in Nat, n \in S PROVE n + 1 \in S
  <2> SUFFICES ASSUME NEW i \in 1 .. Len(s), i + ((n + 1) + 1) \in 1 .. Len(s)
               PROVE  s[i] < s[i + ((n + 1) + 1)]
    OBVIOUS
  <2>1. i + (n + 1) \in 1 .. Len(s) /\ i + (n + 1) \in 1 .. (Len(s) - 1) /\ (i + (n + 1)) + 1 = i + ((n + 1) + 1)
    BY <1>1
  <2>2. s[i] < s[i + (n + 1)]
    BY <2>1, <1>3
  <2>3. s[i + (n + 1)] < s[(i + (n + 1)) + 1]
    BY <2>1
  <2>4. s[i] \in Int /\ s[i + (n + 1)] \in Int /\ s[i + ((n + 1) + 1)] \in Int
    BY <1>1, <2>1
  <2> QED BY <2>1, <2>2, <2>3, <2>4
<1>4. \A n \in Nat : n \in S => n + 1 \in S
  BY <1>3
<1> HIDE DEF S
<1>5. Nat \subseteq S
  BY <1>2, <1>4, SetInduction
<1>6. ASSUME NEW i \in 1 .. Len(s), NEW j \in 1 .. Len(s), i < j PROVE s[i] < s[j]
  <2>1. (j - i) - 1 \in Nat /\ i + (((j - i) - 1) + 1) = j
    BY ONLY <1>1, <1>6
  <2>2. (j - i) - 1 \in S
    BY <2>1, <1>5
  <2> QED BY <2>1, <2>2 DEF S
<1> QED BY <1>6 DEF ascending

\* The keys of a node: entries or pivots, and buffered messages.
own(n) == {n.keys[i] : i \in 1 .. Len(n.keys)} \cup DOMAIN n.buffer

\* What the types say of the keys of a node; n may be none that is stored.
numeric(n) ==
  /\ integers(n.keys) /\ DOMAIN n.buffer \subseteq Int
  /\ n.leaf \in BOOLEAN /\ Len(n.children) \in Nat
  /\ n.leaf => Len(n.children) = 0 /\ DOMAIN n.buffer = {}
  /\ ~n.leaf => Len(n.children) = Len(n.keys) + 1

\* Child i of n, with N the table of nodes and hi a bound for the keys below each, keeps to its
\* interval: up to pivot i, or b, and from pivot i - 1 on.
fits(n, N, hi, b, i) ==
  LET c == n.children[i] IN
  /\ hi[c] \in Int /\ N[c].lowest \in Int
  /\ hi[c] <= b
  /\ i < Len(n.children) => hi[c] < n.keys[i]
  /\ i > 1 => n.keys[i - 1] <= N[c].lowest /\ N[c].lowest <= hi[c]

\* A node is in order up to b.
Fine(n, N, hi, b) ==
  /\ numeric(n) /\ ascending(n.keys)
  /\ \A k \in own(n) : k <= b
  /\ \A i \in 1 .. Len(n.children) : fits(n, N, hi, b, i)

\* Nothing in or below a node is below lo.
From(n, N, hi, lo) ==
  /\ lo \in Int
  /\ \A k \in own(n) : lo <= k
  /\ Len(n.children) > 0 => LET c == n.children[1] IN lo <= N[c].lowest /\ N[c].lowest <= hi[c]

\* Keys are integers.
LEMMA OwnNumbers == ASSUME NEW n, numeric(n) PROVE own(n) \subseteq Int
  BY DEF own, numeric, integers

\* A pivot between two children.
LEMMA PivotBetween ==
  ASSUME NEW n, NEW N, NEW hi, NEW b \in Int, Fine(n, N, hi, b),
         NEW i \in 1 .. Len(n.keys), Len(n.children) > 0
  PROVE  LET l == n.children[i]
             r == n.children[i + 1] IN
         /\ i \in 1 .. Len(n.children) /\ i + 1 \in 1 .. Len(n.children) /\ n.keys[i] \in Int
         /\ n.keys[i] <= b
         /\ hi[l] \in Int /\ hi[r] \in Int /\ N[l].lowest \in Int /\ N[r].lowest \in Int
         /\ hi[l] < n.keys[i] /\ n.keys[i] <= N[r].lowest /\ N[r].lowest <= hi[r] /\ hi[r] <= b
<1>1. integers(n.keys) /\ Len(n.keys) \in Nat /\ Len(n.children) = Len(n.keys) + 1
  BY DEF Fine, numeric, integers
<1>2. i \in 1 .. Len(n.children) /\ i + 1 \in 1 .. Len(n.children) /\ n.keys[i] \in Int
  BY <1>1 DEF integers
<1>3. fits(n, N, hi, b, i) /\ fits(n, N, hi, b, i + 1)
  BY <1>2 DEF Fine
<1>4. i < Len(n.children) /\ i + 1 > 1 /\ (i + 1) - 1 = i
  BY <1>1
<1>5. n.keys[i] <= b
  BY DEF Fine, own
<1> QED BY <1>2, <1>3, <1>4, <1>5 DEF fits

\* A higher bound does as well.
LEMMA FineHigher ==
  ASSUME NEW n, NEW N, NEW hi, NEW b \in Int, Fine(n, N, hi, b), NEW c \in Int, b <= c
  PROVE  Fine(n, N, hi, c)
<1>1. \A k \in own(n) : k <= c
  BY OwnNumbers DEF Fine
<1>2. \A i \in 1 .. Len(n.children) : fits(n, N, hi, c, i)
  BY DEF Fine, fits
<1> QED BY <1>1, <1>2 DEF Fine

\* Node m has the keys and children of n.
likened(m, n) ==
  /\ m.leaf = n.leaf /\ m.keys = n.keys /\ m.children = n.children
  /\ DOMAIN m.buffer = DOMAIN n.buffer

\* The order of a node depends on its own keys, and on the lowest keys and the bounds of its children.
LEMMA FineMoved ==
  ASSUME NEW n, NEW N, NEW hi, NEW b, NEW m, NEW M, NEW ho, likened(m, n),
         \A i \in 1 .. Len(n.children) : /\ M[n.children[i]].lowest = N[n.children[i]].lowest
                                         /\ ho[n.children[i]] = hi[n.children[i]]
  PROVE  /\ Fine(n, N, hi, b) => Fine(m, M, ho, b)
         /\ \A lo : From(n, N, hi, lo) => From(m, M, ho, lo)
<1>1. own(m) = own(n) /\ (numeric(n) => numeric(m))
  BY DEF likened, own, numeric
<1>2. ASSUME Fine(n, N, hi, b) PROVE Fine(m, M, ho, b)
  <2>1. \A i \in 1 .. Len(n.children) : fits(n, N, hi, b, i)
    BY <1>2 DEF Fine
  <2>2. \A i \in 1 .. Len(m.children) : fits(m, M, ho, b, i)
    BY <2>1 DEF fits, likened
  <2> QED BY <1>1, <1>2, <2>2 DEF Fine, likened
<1>3. ASSUME NEW lo, From(n, N, hi, lo) PROVE From(m, M, ho, lo)
  <2>0. Len(n.children) > 0 => 1 \in 1 .. Len(n.children)
    <3>1. CASE Len(n.children) \in Nat
      BY <3>1
    <3> QED OBVIOUS
  <2> QED BY <1>1, <1>3, <2>0 DEF From, likened
<1> QED BY <1>2, <1>3

-----------------------------------------------------------------------------
(* Two neighbours as one node *)

\* Vector u is s and then t.
Chained(u, s, t) ==
  /\ Len(u) = Len(s) + Len(t)
  /\ \A i \in 1 .. Len(s) : u[i] = s[i]
  /\ \A i \in 1 .. Len(t) : u[Len(s) + i] = t[i]

\* Vector u is s, then e, then t.
Strung(u, s, e, t) ==
  /\ Len(u) = Len(s) + 1 + Len(t)
  /\ \A i \in 1 .. Len(s) : u[i] = s[i]
  /\ u[Len(s) + 1] = e
  /\ \A i \in 1 .. Len(t) : u[Len(s) + 1 + i] = t[i]

\* Where an index of two vectors in a row lies.
LEMMA ChainedPlace ==
  ASSUME NEW a \in Nat, NEW b \in Nat, NEW j \in 1 .. (a + b)
  PROVE  \/ j \in 1 .. a /\ j <= a
         \/ j > a /\ j - a \in 1 .. b /\ a + (j - a) = j
  OBVIOUS

\* Where an index of two vectors with an entry between them lies.
LEMMA StrungPlace ==
  ASSUME NEW a \in Nat, NEW b \in Nat, NEW j \in 1 .. (a + 1 + b)
  PROVE  \/ j \in 1 .. a
         \/ j = a + 1
         \/ j - (a + 1) \in 1 .. b /\ a + 1 + (j - (a + 1)) = j
  OBVIOUS

\* Entry j of s and then t.
chainedAt(u, s, t, j) ==
  \/ j \in 1 .. Len(s) /\ u[j] = s[j]
  \/ j > Len(s) /\ j - Len(s) \in 1 .. Len(t) /\ u[j] = t[j - Len(s)]

\* Entry j of s, then e, then t.
strungAt(u, s, e, t, j) ==
  \/ j \in 1 .. Len(s) /\ u[j] = s[j]
  \/ j = Len(s) + 1 /\ u[j] = e
  \/ j - (Len(s) + 1) \in 1 .. Len(t) /\ u[j] = t[j - (Len(s) + 1)]

\* The entries of two vectors in a row.
LEMMA ChainedItem ==
  ASSUME NEW u, NEW s, NEW t, Len(s) \in Nat, Len(t) \in Nat, Chained(u, s, t), NEW j \in 1 .. Len(u)
  PROVE  chainedAt(u, s, t, j)
<1>1. j \in 1 .. (Len(s) + Len(t))
  BY DEF Chained
<1>2. \/ j \in 1 .. Len(s) /\ j <= Len(s)
      \/ j > Len(s) /\ j - Len(s) \in 1 .. Len(t) /\ Len(s) + (j - Len(s)) = j
  BY ONLY <1>1, Len(s) \in Nat, Len(t) \in Nat, ChainedPlace
<1> QED BY <1>2 DEF Chained, chainedAt

\* The entries of two vectors with an entry between them.
LEMMA StrungItem ==
  ASSUME NEW u, NEW s, NEW e, NEW t, Len(s) \in Nat, Len(t) \in Nat, Strung(u, s, e, t), NEW j \in 1 .. Len(u)
  PROVE  strungAt(u, s, e, t, j)
<1>1. j \in 1 .. (Len(s) + 1 + Len(t))
  BY DEF Strung
<1>2. \/ j \in 1 .. Len(s) \/ j = Len(s) + 1
      \/ j - (Len(s) + 1) \in 1 .. Len(t) /\ Len(s) + 1 + (j - (Len(s) + 1)) = j
  BY ONLY <1>1, Len(s) \in Nat, Len(t) \in Nat, StrungPlace
<1> QED BY <1>2 DEF Strung, strungAt

\* Two ascending vectors make one if the second is above the first.
LEMMA ChainedAscends ==
  ASSUME NEW u, NEW s, NEW t, integers(s), integers(t), ascending(s), ascending(t), Chained(u, s, t),
         \A i \in 1 .. Len(s) : \A j \in 1 .. Len(t) : s[i] < t[j]
  PROVE  integers(u) /\ ascending(u)
<1>1. Len(s) \in Nat /\ Len(t) \in Nat /\ Len(u) \in Nat /\ Len(u) = Len(s) + Len(t)
  BY DEF integers, Chained
<1>2. integers(u)
  <2> SUFFICES ASSUME NEW j \in 1 .. Len(u) PROVE u[j] \in Int
    BY <1>1 DEF integers
  <2>1. chainedAt(u, s, t, j)
    BY <1>1, ChainedItem
  <2> QED BY ONLY <2>1, integers(s), integers(t) DEF integers, chainedAt
<1>3. ASSUME NEW j \in 1 .. (Len(u) - 1) PROVE u[j] < u[j + 1]
  <2>1. \/ j < Len(s) /\ j \in 1 .. Len(s) /\ j + 1 \in 1 .. Len(s)
        \/ j = Len(s) /\ j \in 1 .. Len(s) /\ 1 \in 1 .. Len(t)
        \/ j > Len(s) /\ j - Len(s) \in 1 .. Len(t) /\ (j - Len(s)) + 1 \in 1 .. Len(t)
           /\ Len(s) + (j - Len(s)) = j /\ Len(s) + ((j - Len(s)) + 1) = j + 1 /\ j - Len(s) < (j - Len(s)) + 1
    BY ONLY <1>1, <1>3
  <2>2. CASE j < Len(s) /\ j \in 1 .. Len(s) /\ j + 1 \in 1 .. Len(s)
    BY <2>2 DEF Chained, ascending
  <2>3. CASE j = Len(s) /\ j \in 1 .. Len(s) /\ 1 \in 1 .. Len(t)
    BY <2>3 DEF Chained
  <2>4. CASE j > Len(s) /\ j - Len(s) \in 1 .. Len(t) /\ (j - Len(s)) + 1 \in 1 .. Len(t)
             /\ Len(s) + (j - Len(s)) = j /\ Len(s) + ((j - Len(s)) + 1) = j + 1 /\ j - Len(s) < (j - Len(s)) + 1
    <3>1. u[j] = t[j - Len(s)] /\ u[j + 1] = t[(j - Len(s)) + 1]
      BY <2>4 DEF Chained
    <3>2. t[j - Len(s)] < t[(j - Len(s)) + 1]
      BY <2>4 DEF ascending
    <3> QED BY <3>1, <3>2
  <2> QED BY ONLY <2>1, <2>2, <2>3, <2>4, Zenon
<1> QED BY <1>2, <1>3, NeighboursAscend

\* Two ascending vectors and an entry between them make one.
LEMMA StrungAscends ==
  ASSUME NEW u, NEW s, NEW e \in Int, NEW t, integers(s), integers(t), ascending(s), ascending(t),
         Strung(u, s, e, t),
         \A i \in 1 .. Len(s) : s[i] < e, \A i \in 1 .. Len(t) : e < t[i]
  PROVE  integers(u) /\ ascending(u)
<1>1. Len(s) \in Nat /\ Len(t) \in Nat /\ Len(u) \in Nat /\ Len(u) = Len(s) + 1 + Len(t)
  BY DEF integers, Strung
<1>2. integers(u)
  <2> SUFFICES ASSUME NEW j \in 1 .. Len(u) PROVE u[j] \in Int
    BY <1>1 DEF integers
  <2>1. strungAt(u, s, e, t, j)
    BY <1>1, StrungItem
  <2> QED BY ONLY <2>1, integers(s), integers(t), e \in Int DEF integers, strungAt
<1>3. ASSUME NEW j \in 1 .. (Len(u) - 1) PROVE u[j] < u[j + 1]
  <2>1. \/ j < Len(s) /\ j \in 1 .. Len(s) /\ j + 1 \in 1 .. Len(s)
        \/ j = Len(s) /\ j \in 1 .. Len(s)
        \/ j = Len(s) + 1 /\ 1 \in 1 .. Len(t) /\ j + 1 = Len(s) + 1 + 1
        \/ j > Len(s) + 1 /\ j - (Len(s) + 1) \in 1 .. Len(t) /\ (j - (Len(s) + 1)) + 1 \in 1 .. Len(t)
           /\ Len(s) + 1 + (j - (Len(s) + 1)) = j /\ Len(s) + 1 + ((j - (Len(s) + 1)) + 1) = j + 1
           /\ j - (Len(s) + 1) < (j - (Len(s) + 1)) + 1
    BY ONLY <1>1, <1>3
  <2>2. CASE j < Len(s) /\ j \in 1 .. Len(s) /\ j + 1 \in 1 .. Len(s)
    BY <2>2 DEF Strung, ascending
  <2>3. CASE j = Len(s) /\ j \in 1 .. Len(s)
    BY <2>3 DEF Strung
  <2>4. CASE j = Len(s) + 1 /\ 1 \in 1 .. Len(t) /\ j + 1 = Len(s) + 1 + 1
    BY <2>4 DEF Strung
  <2>5. CASE j > Len(s) + 1 /\ j - (Len(s) + 1) \in 1 .. Len(t) /\ (j - (Len(s) + 1)) + 1 \in 1 .. Len(t)
             /\ Len(s) + 1 + (j - (Len(s) + 1)) = j /\ Len(s) + 1 + ((j - (Len(s) + 1)) + 1) = j + 1
             /\ j - (Len(s) + 1) < (j - (Len(s) + 1)) + 1
    <3>1. u[j] = t[j - (Len(s) + 1)] /\ u[j + 1] = t[(j - (Len(s) + 1)) + 1]
      BY <2>5 DEF Strung
    <3>2. t[j - (Len(s) + 1)] < t[(j - (Len(s) + 1)) + 1]
      BY <2>5 DEF ascending
    <3> QED BY <3>1, <3>2
  <2> QED BY ONLY <2>1, <2>2, <2>3, <2>4, <2>5, Zenon
<1> QED BY <1>2, <1>3, NeighboursAscend

\* Leaf u has the entries of the leaves l and r.
JoinedLeaf(u, l, r) ==
  /\ u.leaf \in BOOLEAN /\ u.leaf /\ l.leaf /\ r.leaf
  /\ Chained(u.keys, l.keys, r.keys)
  /\ Len(u.children) = 0 /\ DOMAIN u.buffer = {}

\* Internal node u has all of l and r, with the pivot s between them.
JoinedInternal(u, l, s, r) ==
  /\ u.leaf \in BOOLEAN /\ ~u.leaf /\ ~l.leaf /\ ~r.leaf
  /\ Strung(u.keys, l.keys, s, r.keys)
  /\ Chained(u.children, l.children, r.children)
  /\ DOMAIN u.buffer = DOMAIN l.buffer \cup DOMAIN r.buffer

\* Two leaves in order, the second from lo on, make one.
LEMMA JoinLeaves ==
  ASSUME NEW l, NEW r, NEW u, NEW N, NEW hi, NEW bl \in Int, NEW b \in Int, NEW lo \in Int,
         Fine(l, N, hi, bl), Fine(r, N, hi, b), From(r, N, hi, lo), bl < lo, bl <= b,
         JoinedLeaf(u, l, r)
  PROVE  /\ Fine(u, N, hi, b)
         /\ \A z \in Int : z <= lo /\ From(l, N, hi, z) => From(u, N, hi, z)
<1>1. integers(l.keys) /\ integers(r.keys) /\ ascending(l.keys) /\ ascending(r.keys)
      /\ DOMAIN l.buffer = {} /\ DOMAIN r.buffer = {}
  BY DEF Fine, numeric, JoinedLeaf
<1>2. \A i \in 1 .. Len(l.keys) : l.keys[i] \in Int /\ l.keys[i] <= bl
  BY <1>1 DEF Fine, own, integers
<1>3. \A j \in 1 .. Len(r.keys) : r.keys[j] \in Int /\ lo <= r.keys[j] /\ r.keys[j] <= b
  BY <1>1 DEF Fine, From, own, integers
<1>4. \A i \in 1 .. Len(l.keys) : \A j \in 1 .. Len(r.keys) : l.keys[i] < r.keys[j]
  BY ONLY <1>2, <1>3, bl < lo, bl \in Int, lo \in Int
<1>5. integers(u.keys) /\ ascending(u.keys)
  BY <1>1, <1>4, ChainedAscends DEF JoinedLeaf
<1>6. numeric(u)
  BY <1>5 DEF numeric, JoinedLeaf
<1>7. \A k \in own(u) : k \in own(l) \/ k \in own(r)
  <2> SUFFICES ASSUME NEW k \in own(u) PROVE k \in own(l) \/ k \in own(r)
    OBVIOUS
  <2>1. PICK j \in 1 .. Len(u.keys) : k = u.keys[j]
    BY DEF own, JoinedLeaf
  <2>2. chainedAt(u.keys, l.keys, r.keys, j)
    <3>1. Len(l.keys) \in Nat /\ Len(r.keys) \in Nat /\ Chained(u.keys, l.keys, r.keys)
      BY <1>1 DEF integers, JoinedLeaf
    <3> QED BY ONLY <3>1, ChainedItem
  <2> QED BY ONLY <2>1, <2>2 DEF own, chainedAt
<1>8. own(l) \subseteq Int /\ own(r) \subseteq Int
  BY OwnNumbers DEF Fine
<1>9. \A k \in own(u) : k <= b
  BY ONLY <1>7, <1>8, bl <= b, bl \in Int, b \in Int, Fine(l, N, hi, bl), Fine(r, N, hi, b) DEF Fine
<1>10. ASSUME NEW z \in Int, z <= lo, From(l, N, hi, z) PROVE From(u, N, hi, z)
  <2>1. \A k \in own(u) : z <= k
    BY ONLY <1>7, <1>8, <1>10, lo \in Int, From(r, N, hi, lo) DEF From
  <2> QED BY <2>1 DEF From, JoinedLeaf
<1>11. \A i \in 1 .. Len(u.children) : fits(u, N, hi, b, i)
  BY DEF JoinedLeaf
<1> QED BY <1>5, <1>6, <1>9, <1>10, <1>11 DEF Fine

\* What an internal node in order has.
LEMMA InternalParts ==
  ASSUME NEW n, NEW N, NEW hi, NEW b \in Int, Fine(n, N, hi, b), ~n.leaf
  PROVE  /\ integers(n.keys) /\ ascending(n.keys) /\ Len(n.keys) \in Nat
         /\ Len(n.children) \in Nat /\ Len(n.children) = Len(n.keys) + 1
         /\ 1 \in 1 .. Len(n.children) /\ Len(n.children) \in 1 .. Len(n.children)
         /\ \A i \in 1 .. Len(n.keys) : n.keys[i] \in Int /\ n.keys[i] <= b
         /\ \A i \in 1 .. Len(n.children) : fits(n, N, hi, b, i)
         /\ own(n) \subseteq Int /\ \A k \in own(n) : k <= b
<1>1. integers(n.keys) /\ ascending(n.keys) /\ Len(n.keys) \in Nat /\ Len(n.children) = Len(n.keys) + 1
  BY DEF Fine, numeric, integers
<1>2. \A i \in 1 .. Len(n.keys) : n.keys[i] \in Int /\ n.keys[i] \in own(n)
  BY <1>1 DEF integers, own
<1>3. own(n) \subseteq Int
  BY OwnNumbers DEF Fine
<1> QED BY <1>1, <1>2, <1>3 DEF Fine

\* Two internal nodes in order, with a pivot between what the first has and what the second has, make one.
LEMMA JoinInternals ==
  ASSUME NEW l, NEW r, NEW u, NEW N, NEW hi, NEW bl \in Int, NEW b \in Int, NEW lo \in Int, NEW s \in Int,
         Fine(l, N, hi, bl), Fine(r, N, hi, b), From(r, N, hi, lo), bl < s, s <= lo, bl <= b,
         JoinedInternal(u, l, s, r)
  PROVE  /\ Fine(u, N, hi, b)
         /\ \A z \in Int : From(l, N, hi, z) => From(u, N, hi, z)
<1> DEFINE a == Len(l.children)
           bc == Len(r.children)
           uc == Len(u.children)
           al == Len(l.keys)
           bk == Len(r.keys)
           uk == Len(u.keys)
<1>1. /\ integers(l.keys) /\ ascending(l.keys) /\ Len(l.keys) \in Nat /\ a \in Nat /\ a = Len(l.keys) + 1
      /\ 1 \in 1 .. a /\ a \in 1 .. a
      /\ \A i \in 1 .. Len(l.keys) : l.keys[i] \in Int /\ l.keys[i] <= bl
      /\ \A i \in 1 .. a : fits(l, N, hi, bl, i)
      /\ own(l) \subseteq Int /\ \A k \in own(l) : k <= bl
  BY InternalParts DEF JoinedInternal
<1>2. /\ integers(r.keys) /\ ascending(r.keys) /\ Len(r.keys) \in Nat
      /\ Len(r.children) \in Nat /\ Len(r.children) = Len(r.keys) + 1
      /\ 1 \in 1 .. Len(r.children) /\ Len(r.children) \in 1 .. Len(r.children)
      /\ \A i \in 1 .. Len(r.keys) : r.keys[i] \in Int /\ r.keys[i] <= b
      /\ \A i \in 1 .. Len(r.children) : fits(r, N, hi, b, i)
      /\ own(r) \subseteq Int /\ \A k \in own(r) : k <= b
  BY InternalParts DEF JoinedInternal
<1>0. /\ al \in Nat /\ a \in Nat /\ a = al + 1
      /\ bk \in Nat /\ bc \in Nat /\ bc = bk + 1
  BY <1>1, <1>2
<1>3. /\ \A k \in own(r) : lo <= k
      /\ lo <= N[r.children[1]].lowest /\ N[r.children[1]].lowest <= hi[r.children[1]]
      /\ N[r.children[1]].lowest \in Int /\ hi[r.children[1]] \in Int /\ hi[r.children[1]] <= b
  BY <1>2 DEF From, fits
<1>4. s <= b
  BY <1>3
<1>5. \A i \in 1 .. Len(r.children) : fits(r, N, hi, b, i)
  BY <1>2
<1>6. \A i \in 1 .. Len(r.keys) : s < r.keys[i]
  <2>1. ASSUME NEW i \in 1 .. Len(r.keys) PROVE r.keys[1] \in Int /\ r.keys[1] <= r.keys[i] /\ r.keys[i] \in Int
    <3>1. 1 \in 1 .. Len(r.keys) /\ (i = 1 \/ 1 < i)
      BY <1>2
    <3> QED BY <3>1, <1>2 DEF ascending
  <2>2. Len(r.keys) > 0 => hi[r.children[1]] < r.keys[1]
    BY <1>2 DEF fits
  <2>3. s \in Int /\ s <= hi[r.children[1]] /\ hi[r.children[1]] \in Int
    BY <1>3
  <2>4. ASSUME NEW i \in 1 .. Len(r.keys) PROVE s < r.keys[i]
    <3>1. Len(r.keys) > 0
      BY <1>2
    <3> QED BY ONLY <3>1, <2>1, <2>2, <2>3
  <2> QED BY ONLY <2>4
<1>7. integers(u.keys) /\ ascending(u.keys)
  <2>1. \A i \in 1 .. Len(l.keys) : l.keys[i] < s
    BY <1>1
  <2> QED BY <1>1, <1>2, <1>6, <2>1, StrungAscends DEF JoinedInternal
<1>8. uc = a + bc /\ uk = al + 1 + bk
  BY DEF JoinedInternal, Chained, Strung
<1> HIDE DEF a, bc, uc, al, bk, uk
<1>88. uc \in Nat /\ uc = uk + 1
  BY ONLY <1>0, <1>8
<1>9. numeric(u)
  <2>1. DOMAIN u.buffer \subseteq Int
    BY DEF JoinedInternal, Fine, numeric
  <2> QED BY <1>7, <1>88, <2>1 DEF numeric, JoinedInternal, uc, uk
<1>10. \A k \in own(u) : k \in own(l) \/ k = s \/ k \in own(r)
  <2> SUFFICES ASSUME NEW k \in own(u) PROVE k \in own(l) \/ k = s \/ k \in own(r)
    OBVIOUS
  <2>1. CASE k \in DOMAIN u.buffer
    BY <2>1 DEF JoinedInternal, own
  <2>2. CASE k \notin DOMAIN u.buffer
    <3>1. PICK j \in 1 .. Len(u.keys) : k = u.keys[j]
      BY <2>2 DEF own
    <3>2. strungAt(u.keys, l.keys, s, r.keys, j)
      <4>1. Strung(u.keys, l.keys, s, r.keys)
        BY DEF JoinedInternal
      <4>2. Len(l.keys) \in Nat /\ Len(r.keys) \in Nat
        BY <1>0 DEF al, bk
      <4> QED BY ONLY <4>1, <4>2, StrungItem
    <3> QED BY ONLY <3>1, <3>2 DEF own, strungAt
  <2> QED BY <2>1, <2>2
<1>11. \A k \in own(u) : k <= b
  BY ONLY <1>10, <1>1, <1>2, <1>4, bl <= b, bl \in Int, b \in Int
<1>12. ASSUME NEW z \in Int, From(l, N, hi, z) PROVE From(u, N, hi, z)
  <2>0. 1 \in 1 .. Len(l.children) /\ Len(l.children) > 0
    BY ONLY <1>0 DEF a
  <2>1. z <= N[l.children[1]].lowest /\ N[l.children[1]].lowest <= hi[l.children[1]]
        /\ N[l.children[1]].lowest \in Int /\ hi[l.children[1]] \in Int /\ hi[l.children[1]] <= bl
    BY <2>0, <1>1, <1>12 DEF From, fits
  <2>2. z < s
    BY <2>1
  <2>3. \A k \in own(u) : z <= k
    BY ONLY <1>10, <1>1, <1>2, <1>3, <1>12, <2>2, s <= lo, s \in Int, lo \in Int DEF From
  <2>4. u.children[1] = l.children[1]
    BY <2>0 DEF JoinedInternal, Chained
  <2> QED BY <2>1, <2>3, <2>4 DEF From
<1>13. ASSUME NEW j \in 1 .. Len(u.children) PROVE fits(u, N, hi, b, j)
  <2>0. j \in 1 .. uc /\ j \in Nat
    BY DEF uc
  <2>1. \/ j \in 1 .. a /\ j < a /\ j \in 1 .. al
        \/ j = a /\ j \in 1 .. a
        \/ j > a /\ j - a \in 1 .. bc /\ a + (j - a) = j
    BY ONLY <1>0, <1>8, <2>0
  <2>2. j > 1 /\ j <= a => u.keys[j - 1] = l.keys[j - 1]
    <3>1. j > 1 /\ j <= a => j - 1 \in 1 .. al
      BY ONLY <1>0, <1>8, <2>0
    <3> QED BY <3>1 DEF JoinedInternal, Strung, al
  <2>3. CASE j \in 1 .. a /\ j < a /\ j \in 1 .. al
    <3>1. u.children[j] = l.children[j] /\ u.keys[j] = l.keys[j] /\ fits(l, N, hi, bl, j)
      BY <2>3, <1>1 DEF JoinedInternal, Strung, Chained, a, al
    <3>2. hi[l.children[j]] \in Int /\ hi[l.children[j]] <= b
      BY ONLY <3>1, bl <= b, bl \in Int, b \in Int DEF fits
    <3>3. j < Len(l.children) /\ j <= a
      BY ONLY <2>3, <1>0 DEF a
    <3> QED BY ONLY <2>2, <3>1, <3>2, <3>3 DEF fits
  <2>4. CASE j = a /\ j \in 1 .. a
    <3>0. a = Len(l.keys) + 1
      BY ONLY <1>0 DEF al
    <3>1. u.children[j] = l.children[j] /\ u.keys[j] = s /\ fits(l, N, hi, bl, j)
      BY <2>4, <3>0, <1>1 DEF JoinedInternal, Strung, Chained, a
    <3>2. hi[l.children[j]] \in Int /\ hi[l.children[j]] <= b /\ hi[l.children[j]] < s
      BY ONLY <3>1, bl <= b, bl < s, bl \in Int, b \in Int, s \in Int DEF fits
    <3>3. j <= a
      BY ONLY <2>4, <1>0
    <3> QED BY ONLY <2>2, <3>1, <3>2, <3>3 DEF fits
  <2>5. CASE j > a /\ j - a \in 1 .. bc /\ a + (j - a) = j
    <3>1. PICK i \in 1 .. bc : i = j - a /\ j = a + i
      BY <2>5
    <3>2. u.children[j] = r.children[i] /\ fits(r, N, hi, b, i)
      BY <1>2, <3>1 DEF JoinedInternal, Chained, a, bc
    <3>3. j < uc => i < bc /\ i \in 1 .. bk /\ al + 1 + i = j
      BY ONLY <1>0, <1>8, <3>1
    <3>4. j < uc => u.keys[j] = r.keys[i]
      BY <3>3 DEF JoinedInternal, Strung, al, bk
    <3>5. i > 1 => i - 1 \in 1 .. bk /\ al + 1 + (i - 1) = j - 1
      BY ONLY <1>0, <3>1
    <3>6. i > 1 => u.keys[j - 1] = r.keys[i - 1]
      BY <3>5 DEF JoinedInternal, Strung, al, bk
    <3>7. i = 1 => u.keys[j - 1] = s
      <4>1. i = 1 => j - 1 = al + 1
        BY ONLY <1>0, <3>1
      <4> QED BY <4>1 DEF JoinedInternal, Strung, al
    <3>8. i = 1 => s <= N[r.children[i]].lowest /\ N[r.children[i]].lowest <= hi[r.children[i]]
      BY ONLY <1>3, s <= lo, s \in Int, lo \in Int
    <3>9. u.keys[j - 1] <= N[r.children[i]].lowest /\ N[r.children[i]].lowest <= hi[r.children[i]]
      <4>1. i = 1 \/ i > 1
        BY ONLY <1>0, <3>1
      <4> QED BY ONLY <4>1, <3>2, <3>6, <3>7, <3>8 DEF fits
    <3> QED BY ONLY <3>2, <3>3, <3>4, <3>9 DEF fits, uc, bc
  <2> QED BY ONLY <2>1, <2>3, <2>4, <2>5, Zenon
<1> QED BY <1>7, <1>9, <1>11, <1>12, <1>13 DEF Fine

-----------------------------------------------------------------------------
(* A node cut in two *)

\* Leaf n is cut into x, with its first k entries, and y.
CutLeaf(n, x, y, k) ==
  /\ n.leaf /\ x.leaf \in BOOLEAN /\ y.leaf \in BOOLEAN /\ x.leaf /\ y.leaf
  /\ k \in Nat /\ 1 <= k /\ k < Len(n.keys)
  /\ Len(x.keys) = k /\ \A j \in 1 .. k : x.keys[j] = n.keys[j]
  /\ Len(y.keys) = Len(n.keys) - k /\ \A j \in 1 .. (Len(n.keys) - k) : y.keys[j] = n.keys[k + j]
  /\ Len(x.children) = 0 /\ Len(y.children) = 0
  /\ DOMAIN x.buffer = {} /\ DOMAIN y.buffer = {}

\* Internal node n is cut at pivot e into x, with its first k children, and y.
CutInternal(n, x, y, k, e) ==
  /\ ~n.leaf /\ x.leaf \in BOOLEAN /\ y.leaf \in BOOLEAN /\ ~x.leaf /\ ~y.leaf
  /\ k \in Nat /\ 1 <= k /\ k < Len(n.children)
  /\ Len(x.children) = k /\ \A j \in 1 .. k : x.children[j] = n.children[j]
  /\ Len(x.keys) = k - 1 /\ \A j \in 1 .. (k - 1) : x.keys[j] = n.keys[j]
  /\ Len(y.children) = Len(n.children) - k
  /\ \A j \in 1 .. (Len(n.children) - k) : y.children[j] = n.children[k + j]
  /\ Len(y.keys) = Len(n.keys) - k /\ \A j \in 1 .. (Len(n.keys) - k) : y.keys[j] = n.keys[k + j]
  /\ DOMAIN x.buffer \subseteq DOMAIN n.buffer /\ \A j \in DOMAIN x.buffer : j < e
  /\ DOMAIN y.buffer \subseteq DOMAIN n.buffer /\ \A j \in DOMAIN y.buffer : e <= j

\* What cutting a node in order at e leaves.
Severed(n, x, y, e, N, hi, b) ==
  /\ e \in Int /\ e <= b
  /\ Fine(x, N, hi, e - 1) /\ Fine(y, N, hi, b)
  /\ \A z \in Int : From(n, N, hi, z) => From(x, N, hi, z) /\ z <= e - 1

\* Cutting a leaf.
LEMMA CutLeafOrder ==
  ASSUME NEW n, NEW x, NEW y, NEW k, NEW N, NEW hi, NEW b \in Int,
         Fine(n, N, hi, b), CutLeaf(n, x, y, k)
  PROVE  Severed(n, x, y, n.keys[k + 1], N, hi, b) /\ From(y, N, hi, n.keys[k + 1])
<1> DEFINE a == Len(n.keys)
           e == n.keys[k + 1]
<1>1. a \in Nat /\ \A i \in 1 .. a : n.keys[i] \in Int /\ n.keys[i] <= b
  BY DEF Fine, numeric, integers, own
<1>2. k \in Nat /\ 1 <= k /\ k < a
  BY DEF CutLeaf
<1> HIDE DEF a
<1>3. k + 1 \in 1 .. a /\ 1 \in 1 .. a /\ 1 < k + 1
  BY ONLY <1>1, <1>2
<1>4. e \in Int /\ e <= b
  BY <1>1, <1>3
<1>5. \A i, j \in 1 .. a : i < j => n.keys[i] < n.keys[j]
  BY DEF Fine, ascending, a
<1>6. /\ Len(x.keys) = k /\ \A j \in 1 .. k : x.keys[j] = n.keys[j]
      /\ Len(y.keys) = a - k /\ \A j \in 1 .. (a - k) : y.keys[j] = n.keys[k + j]
  BY DEF CutLeaf, a
<1>7. \A j \in 1 .. k : j \in 1 .. a /\ j < k + 1
  BY ONLY <1>1, <1>2
<1>8. \A j \in 1 .. (a - k) : k + j \in 1 .. a /\ (j = 1 \/ k + 1 < k + j)
  BY ONLY <1>1, <1>2
<1>9. \A j \in 1 .. k : x.keys[j] \in Int /\ x.keys[j] < e
  BY <1>1, <1>3, <1>5, <1>6, <1>7
<1>10. \A j \in 1 .. (a - k) : y.keys[j] \in Int /\ e <= y.keys[j] /\ y.keys[j] <= b
  <2> SUFFICES ASSUME NEW j \in 1 .. (a - k) PROVE y.keys[j] \in Int /\ e <= y.keys[j] /\ y.keys[j] <= b
    OBVIOUS
  <2>1. y.keys[j] = n.keys[k + j] /\ k + j \in 1 .. a /\ (j = 1 \/ k + 1 < k + j)
    BY <1>6, <1>8
  <2>2. CASE j = 1
    BY <2>1, <2>2, <1>4
  <2>3. CASE k + 1 < k + j
    BY <2>1, <2>3, <1>1, <1>3, <1>4, <1>5
  <2> QED BY <2>1, <2>2, <2>3
<1>11. integers(x.keys) /\ ascending(x.keys)
  <2>1. Len(x.keys) \in Nat /\ \A j \in 1 .. Len(x.keys) : x.keys[j] \in Int
    BY <1>2, <1>6, <1>9
  <2>2. ASSUME NEW i \in 1 .. Len(x.keys), NEW j \in 1 .. Len(x.keys), i < j PROVE x.keys[i] < x.keys[j]
    BY <2>2, <1>5, <1>6, <1>7
  <2> QED BY <2>1, <2>2 DEF integers, ascending
<1>12. integers(y.keys) /\ ascending(y.keys)
  <2>1. Len(y.keys) \in Nat /\ \A j \in 1 .. Len(y.keys) : y.keys[j] \in Int
    <3>1. a - k \in Nat
      BY ONLY <1>1, <1>2
    <3> QED BY <3>1, <1>6, <1>10
  <2>2. ASSUME NEW i \in 1 .. Len(y.keys), NEW j \in 1 .. Len(y.keys), i < j PROVE y.keys[i] < y.keys[j]
    <3>1. i \in 1 .. (a - k) /\ j \in 1 .. (a - k) /\ k + i < k + j
      BY <2>2, <1>2, <1>6
    <3> QED BY <3>1, <1>5, <1>6, <1>8
  <2> QED BY <2>1, <2>2 DEF integers, ascending
<1>13. numeric(x) /\ numeric(y)
  BY <1>11, <1>12 DEF numeric, CutLeaf
<1>14. \A j \in own(x) : j \in Int /\ j < e /\ j \in own(n)
  <2> SUFFICES ASSUME NEW q \in own(x) PROVE q \in Int /\ q < e /\ q \in own(n)
    OBVIOUS
  <2>1. PICK j \in 1 .. k : q = x.keys[j]
    BY <1>6 DEF own, CutLeaf
  <2> QED BY <2>1, <1>6, <1>7, <1>9 DEF own, a
<1>15. \A j \in own(y) : j \in Int /\ e <= j /\ j <= b
  BY <1>6, <1>10 DEF own, CutLeaf
<1>16. Fine(x, N, hi, e - 1)
  <2>1. \A j \in own(x) : j <= e - 1
    BY <1>4, <1>14
  <2> QED BY <2>1, <1>11, <1>13 DEF Fine, CutLeaf
<1>17. Fine(y, N, hi, b)
  BY <1>12, <1>13, <1>15 DEF Fine, CutLeaf
<1>18. From(y, N, hi, e)
  BY <1>4, <1>15 DEF From, CutLeaf
<1>19. ASSUME NEW z \in Int, From(n, N, hi, z) PROVE From(x, N, hi, z) /\ z <= e - 1
  <2>1. From(x, N, hi, z)
    BY <1>14, <1>19 DEF From, CutLeaf
  <2>2. 1 \in 1 .. k
    BY ONLY <1>2
  <2>3. x.keys[1] \in own(x)
    BY <2>2, <1>6 DEF own
  <2>4. z <= x.keys[1] /\ x.keys[1] \in Int /\ x.keys[1] < e
    BY <2>1, <2>3, <1>14 DEF From
  <2> QED BY <2>1, <2>4, <1>4
<1> QED BY <1>4, <1>16, <1>17, <1>18, <1>19 DEF Severed

\* Cutting an internal node, at a pivot between what is left and what is right of the cut.
LEMMA CutInternalOrder ==
  ASSUME NEW n, NEW x, NEW y, NEW k, NEW e \in Int, NEW N, NEW hi, NEW b \in Int,
         Fine(n, N, hi, b), CutInternal(n, x, y, k, e),
         n.keys[k] <= e, e <= N[n.children[k + 1]].lowest
  PROVE  /\ Severed(n, x, y, e, N, hi, b)
         /\ \A low \in Int : low <= N[n.children[k + 1]].lowest /\ (\A j \in DOMAIN y.buffer : low <= j)
                               => From(y, N, hi, low) /\ low <= b
<1> DEFINE a == Len(n.keys)
           m == Len(n.children)
<1>1. /\ integers(n.keys) /\ ascending(n.keys) /\ a \in Nat
      /\ m \in Nat /\ m = a + 1
      /\ 1 \in 1 .. m /\ m \in 1 .. m
      /\ \A i \in 1 .. a : n.keys[i] \in Int /\ n.keys[i] <= b
      /\ \A i \in 1 .. m : fits(n, N, hi, b, i)
      /\ own(n) \subseteq Int /\ \A q \in own(n) : q <= b
  BY InternalParts DEF CutInternal
<1>2. \A i, j \in 1 .. a : i < j => n.keys[i] < n.keys[j]
  BY DEF Fine, ascending
<1>3. k \in Nat /\ 1 <= k /\ k < m
  BY DEF CutInternal
<1>4. /\ Len(x.children) = k /\ Len(x.keys) = k - 1
      /\ Len(y.children) = m - k /\ Len(y.keys) = a - k
      /\ \A j \in 1 .. k : x.children[j] = n.children[j]
      /\ \A j \in 1 .. (k - 1) : x.keys[j] = n.keys[j]
      /\ \A j \in 1 .. (m - k) : y.children[j] = n.children[k + j]
      /\ \A j \in 1 .. (a - k) : y.keys[j] = n.keys[k + j]
  BY DEF CutInternal
<1>5. \A i \in 1 .. m : /\ hi[n.children[i]] \in Int /\ N[n.children[i]].lowest \in Int
                        /\ hi[n.children[i]] <= b
                        /\ i < m => hi[n.children[i]] < n.keys[i]
                        /\ i > 1 => n.keys[i - 1] <= N[n.children[i]].lowest
                                    /\ N[n.children[i]].lowest <= hi[n.children[i]]
  BY <1>1 DEF fits
<1>6. \A i \in 1 .. a : n.keys[i] \in Int /\ n.keys[i] <= b
  BY <1>1
<1>7. a \in Nat /\ m \in Nat /\ m = a + 1
  BY <1>1
<1> HIDE DEF a, m
<1>8. k \in 1 .. a /\ k + 1 \in 1 .. m /\ k + 1 > 1 /\ (k + 1) - 1 = k /\ 1 \in 1 .. m /\ 1 < m
  BY ONLY <1>3, <1>7
<1> DEFINE c == n.children[k + 1]
<1>9. /\ n.keys[k] \in Int /\ N[c].lowest \in Int /\ hi[c] \in Int
      /\ N[c].lowest <= hi[c] /\ hi[c] <= b /\ e <= N[c].lowest
  BY <1>5, <1>6, <1>8
<1>10. e <= b
  BY <1>9
<1>11. \A i \in 1 .. k : i \in 1 .. a /\ i \in 1 .. m /\ (i = k \/ i < k) /\ i < m
  BY ONLY <1>3, <1>7
<1>12. ASSUME NEW i \in 1 .. k PROVE n.keys[i] <= e /\ n.keys[i] \in Int
  <2>1. i \in 1 .. a /\ (i = k \/ i < k)
    BY <1>11
  <2> QED BY <2>1, <1>2, <1>6, <1>8, <1>9
<1>13. \A i \in 1 .. k : n.keys[i] \in Int /\ n.keys[i] <= e
  BY <1>12
<1>14. ASSUME NEW i \in 1 .. (a - k) PROVE n.keys[k + i] \in Int /\ N[c].lowest < n.keys[k + i] /\ n.keys[k + i] <= b
  <2>1. k + i \in 1 .. a /\ k + 1 \in 1 .. a /\ (i = 1 \/ k + 1 < k + i) /\ k + 1 < m
    BY ONLY <1>3, <1>7
  <2>2. hi[c] < n.keys[k + 1]
    BY <2>1, <1>5, <1>8
  <2>3. n.keys[k + 1] <= n.keys[k + i] /\ n.keys[k + 1] \in Int
    BY <2>1, <1>2, <1>6
  <2> QED BY <2>1, <2>2, <2>3, <1>6, <1>9
<1>15. integers(x.keys) /\ ascending(x.keys)
  <2>0. \A j \in 1 .. (k - 1) : j \in 1 .. k
    BY ONLY <1>3
  <2>1. Len(x.keys) \in Nat /\ \A j \in 1 .. Len(x.keys) : x.keys[j] \in Int
    <3>1. k - 1 \in Nat
      BY ONLY <1>3
    <3> QED BY <3>1, <2>0, <1>4, <1>13
  <2>2. ASSUME NEW i \in 1 .. Len(x.keys), NEW j \in 1 .. Len(x.keys), i < j PROVE x.keys[i] < x.keys[j]
    BY <2>0, <2>2, <1>2, <1>4, <1>11
  <2> QED BY <2>1, <2>2 DEF integers, ascending
<1>16. integers(y.keys) /\ ascending(y.keys)
  <2>0. a - k \in Nat /\ \A j \in 1 .. (a - k) : k + j \in 1 .. a
    BY ONLY <1>3, <1>7
  <2>1. Len(y.keys) \in Nat /\ \A j \in 1 .. Len(y.keys) : y.keys[j] \in Int
    BY <2>0, <1>4, <1>6
  <2>2. ASSUME NEW i \in 1 .. Len(y.keys), NEW j \in 1 .. Len(y.keys), i < j PROVE y.keys[i] < y.keys[j]
    <3>1. i \in 1 .. (a - k) /\ j \in 1 .. (a - k) /\ k + i < k + j
      BY <2>2, <1>3, <1>4
    <3> QED BY <3>1, <2>0, <1>2, <1>4
  <2> QED BY <2>1, <2>2 DEF integers, ascending
<1>17. DOMAIN n.buffer \subseteq own(n) /\ DOMAIN n.buffer \subseteq Int
  BY DEF own, Fine, numeric
<1>18. numeric(x) /\ numeric(y)
  <2>1. /\ Len(x.children) \in Nat /\ Len(x.children) = Len(x.keys) + 1
        /\ Len(y.children) \in Nat /\ Len(y.children) = Len(y.keys) + 1
    BY ONLY <1>3, <1>4, <1>7
  <2>2. DOMAIN x.buffer \subseteq Int /\ DOMAIN y.buffer \subseteq Int
    BY <1>17 DEF CutInternal
  <2> QED BY <1>15, <1>16, <2>1, <2>2 DEF numeric, CutInternal
<1>19. \A q \in own(x) : q \in own(n) /\ q \in Int /\ q <= e - 1
  <2> SUFFICES ASSUME NEW q \in own(x) PROVE q \in own(n) /\ q \in Int /\ q <= e - 1
    OBVIOUS
  <2>1. CASE q \in DOMAIN x.buffer
    BY <2>1, <1>17 DEF CutInternal
  <2>2. CASE q \notin DOMAIN x.buffer
    <3>1. PICK j \in 1 .. (k - 1) : q = n.keys[j]
      <4>1. PICK j \in 1 .. Len(x.keys) : q = x.keys[j]
        BY <2>2 DEF own
      <4> QED BY <4>1, <1>4
    <3>2. j \in 1 .. a /\ k \in 1 .. a /\ j < k
      BY ONLY <1>3, <1>7
    <3>3. q < n.keys[k] /\ q \in Int
      BY <3>1, <3>2, <1>2, <1>6
    <3>4. q \in own(n)
      BY <3>1, <3>2 DEF own, a
    <3> QED BY <3>3, <3>4, <1>9
  <2> QED BY <2>1, <2>2
<1>20. \A q \in own(y) : q \in Int /\ q <= b /\ (q \in DOMAIN y.buffer \/ N[c].lowest < q)
  <2> SUFFICES ASSUME NEW q \in own(y) PROVE q \in Int /\ q <= b /\ (q \in DOMAIN y.buffer \/ N[c].lowest < q)
    OBVIOUS
  <2>1. CASE q \in DOMAIN y.buffer
    BY <2>1, <1>1, <1>17 DEF CutInternal
  <2>2. CASE q \notin DOMAIN y.buffer
    <3>1. PICK j \in 1 .. (a - k) : q = n.keys[k + j]
      BY <2>2, <1>4 DEF own
    <3> QED BY <3>1, <1>14
  <2> QED BY <2>1, <2>2
<1>21. ASSUME NEW j \in 1 .. Len(x.children) PROVE fits(x, N, hi, e - 1, j)
  <2>1. j \in 1 .. k
    BY <1>4
  <2>2. x.children[j] = n.children[j] /\ j \in 1 .. m /\ j < m
    BY <2>1, <1>4, <1>11
  <2>3. hi[n.children[j]] < n.keys[j] /\ n.keys[j] \in Int /\ n.keys[j] <= e /\ hi[n.children[j]] \in Int
    BY <2>1, <2>2, <1>5, <1>13
  <2>4. hi[n.children[j]] <= e - 1
    BY ONLY <2>3, e \in Int
  <2>5. j < Len(x.children) => x.keys[j] = n.keys[j]
    <3>1. j < Len(x.children) => j \in 1 .. (k - 1)
      BY ONLY <2>1, <1>3, <1>4
    <3> QED BY <3>1, <1>4
  <2>6. j > 1 => x.keys[j - 1] = n.keys[j - 1]
    <3>1. j > 1 => j - 1 \in 1 .. (k - 1)
      BY ONLY <2>1, <1>3
    <3> QED BY <3>1, <1>4
  <2> QED BY ONLY <2>2, <2>3, <2>4, <2>5, <2>6, <1>5 DEF fits
<1>22. ASSUME NEW j \in 1 .. Len(y.children) PROVE fits(y, N, hi, b, j)
  <2>1. j \in 1 .. (m - k) /\ k + j \in 1 .. m /\ k + j > 1
    BY ONLY <1>3, <1>4, <1>7, <1>22
  <2>2. y.children[j] = n.children[k + j]
    BY <2>1, <1>4
  <2>3. j < Len(y.children) => y.keys[j] = n.keys[k + j] /\ k + j < m
    <3>1. j < Len(y.children) => j \in 1 .. (a - k) /\ k + j < m
      BY ONLY <2>1, <1>3, <1>4, <1>7
    <3> QED BY <3>1, <1>4
  <2>4. j > 1 => y.keys[j - 1] = n.keys[(k + j) - 1]
    <3>1. j > 1 => j - 1 \in 1 .. (a - k) /\ k + (j - 1) = (k + j) - 1
      BY ONLY <2>1, <1>3, <1>7
    <3> QED BY <3>1, <1>4
  <2> QED BY ONLY <2>1, <2>2, <2>3, <2>4, <1>5 DEF fits
<1>23. Fine(x, N, hi, e - 1)
  BY <1>15, <1>18, <1>19, <1>21 DEF Fine
<1>24. Fine(y, N, hi, b)
  BY <1>16, <1>18, <1>20, <1>22 DEF Fine
<1>25. ASSUME NEW low \in Int, low <= N[c].lowest, \A j \in DOMAIN y.buffer : low <= j
       PROVE  From(y, N, hi, low) /\ low <= b
  <2>1. low <= b
    BY <1>9, <1>25
  <2>2. \A q \in own(y) : low <= q
    BY ONLY <1>9, <1>20, <1>25
  <2>3. y.children[1] = c
    <3>1. 1 \in 1 .. (m - k)
      BY ONLY <1>3, <1>7
    <3> QED BY <3>1, <1>4
  <2> QED BY <2>1, <2>2, <2>3, <1>9, <1>25 DEF From
<1>26. ASSUME NEW z \in Int, From(n, N, hi, z) PROVE From(x, N, hi, z) /\ z <= e - 1
  <2>1. x.children[1] = n.children[1] /\ 1 \in 1 .. k
    <3>1. 1 \in 1 .. k
      BY ONLY <1>3
    <3> QED BY <3>1, <1>4
  <2>2. m > 0
    BY ONLY <1>3, <1>7
  <2>3. z <= N[n.children[1]].lowest /\ N[n.children[1]].lowest <= hi[n.children[1]]
    BY <2>2, <1>26 DEF From, m
  <2>4. hi[n.children[1]] < n.keys[1] /\ n.keys[1] <= e /\ n.keys[1] \in Int
        /\ hi[n.children[1]] \in Int /\ N[n.children[1]].lowest \in Int
    BY <2>1, <1>5, <1>8, <1>13
  <2>5. z <= e - 1
    BY ONLY <2>3, <2>4, z \in Int, e \in Int
  <2>6. \A q \in own(x) : z <= q
    BY <1>19, <1>26 DEF From
  <2> QED BY <2>1, <2>3, <2>5, <2>6 DEF From
<1> QED BY <1>10, <1>23, <1>24, <1>25, <1>26 DEF Severed

-----------------------------------------------------------------------------
(* Vectors that gain, change or lose an entry *)

\* Vector u is s with e at place i.
Extends(u, s, i, e) ==
  /\ Len(u) = Len(s) + 1
  /\ \A j \in 1 .. (i - 1) : u[j] = s[j]
  /\ u[i] = e
  /\ \A j \in (i + 1) .. (Len(s) + 1) : u[j] = s[j - 1]

\* Vector u is s with e instead of entry i.
Swaps(u, s, i, e) ==
  /\ Len(u) = Len(s) /\ u[i] = e
  /\ \A j \in 1 .. Len(s) : j # i => u[j] = s[j]

\* Vector u is s without entry i.
Lacks(u, s, i) ==
  /\ Len(u) = Len(s) - 1
  /\ \A j \in 1 .. (i - 1) : u[j] = s[j]
  /\ \A j \in i .. (Len(s) - 1) : u[j] = s[j + 1]

\* Vector u has entries of s only.
partOf(u, s) == \A j \in 1 .. Len(u) : \E k \in 1 .. Len(s) : u[j] = s[k]

\* A key inserted in its place.
LEMMA ExtendsAscends ==
  ASSUME NEW u, NEW s, NEW e \in Int, NEW i \in Nat, integers(s), ascending(s), 1 <= i, i <= Len(s) + 1,
         Extends(u, s, i, e), i > 1 => s[i - 1] < e, i <= Len(s) => e < s[i]
  PROVE  integers(u) /\ ascending(u)
<1> DEFINE a == Len(s)
<1>1. a \in Nat /\ \A j \in 1 .. a : s[j] \in Int
  BY DEF integers
<1>2. /\ Len(u) = a + 1 /\ u[i] = e
      /\ \A j \in 1 .. (i - 1) : u[j] = s[j]
      /\ \A j \in (i + 1) .. (a + 1) : u[j] = s[j - 1]
  BY DEF Extends
<1>3. \A j, k \in 1 .. a : j < k => s[j] < s[k]
  BY DEF ascending
<1>4. i \in 1 .. (a + 1)
  BY <1>1
<1>5. (i > 1 => s[i - 1] < e) /\ (i <= a => e < s[i])
  OBVIOUS
<1> HIDE DEF a
<1>6. ASSUME NEW j \in 1 .. (a + 1) PROVE u[j] \in Int
  <2>1. j = i \/ (j \in 1 .. (i - 1) /\ j \in 1 .. a) \/ (j \in (i + 1) .. (a + 1) /\ j - 1 \in 1 .. a)
    BY ONLY <1>1, <1>4
  <2> QED BY <2>1, <1>1, <1>2
<1>7. ASSUME NEW j \in 1 .. a PROVE u[j] < u[j + 1]
  <2>1. \/ j \in 1 .. (i - 1) /\ j + 1 \in 1 .. (i - 1) /\ j \in 1 .. a /\ j + 1 \in 1 .. a /\ j < j + 1
        \/ j \in 1 .. (i - 1) /\ j = i - 1 /\ i > 1 /\ j + 1 = i
        \/ j = i /\ j + 1 \in (i + 1) .. (a + 1) /\ (j + 1) - 1 = i /\ i <= a
        \/ j \in (i + 1) .. (a + 1) /\ j + 1 \in (i + 1) .. (a + 1) /\ (j + 1) - 1 = j
           /\ j - 1 \in 1 .. a /\ j - 1 < j
    BY ONLY <1>1, <1>4
  <2> QED BY <2>1, <1>2, <1>3, <1>5
<1>8. a + 1 \in Nat /\ (a + 1) - 1 = a
  BY ONLY <1>1
<1>9. integers(u)
  BY <1>2, <1>6, <1>8 DEF integers
<1> QED BY <1>2, <1>7, <1>8, <1>9, NeighboursAscend

\* A key exchanged for another between the same neighbours.
LEMMA SwapsAscends ==
  ASSUME NEW u, NEW s, NEW e \in Int, NEW i \in 1 .. Len(s), integers(s), ascending(s),
         Swaps(u, s, i, e), i > 1 => s[i - 1] < e, i < Len(s) => e < s[i + 1]
  PROVE  integers(u) /\ ascending(u)
<1> DEFINE a == Len(s)
<1>1. a \in Nat /\ \A j \in 1 .. a : s[j] \in Int
  BY DEF integers
<1>2. Len(u) = a /\ u[i] = e /\ \A j \in 1 .. a : j # i => u[j] = s[j]
  BY DEF Swaps
<1>3. \A j, k \in 1 .. a : j < k => s[j] < s[k]
  BY DEF ascending
<1>4. i \in 1 .. a
  OBVIOUS
<1>5. (i > 1 => s[i - 1] < e) /\ (i < a => e < s[i + 1])
  OBVIOUS
<1> HIDE DEF a
<1>6. ASSUME NEW j \in 1 .. a PROVE u[j] \in Int
  BY <1>1, <1>2
<1>7. ASSUME NEW j \in 1 .. (a - 1) PROVE u[j] < u[j + 1]
  <2>1. \/ j = i /\ j + 1 # i /\ i < a /\ j + 1 \in 1 .. a
        \/ j # i /\ j + 1 = i /\ i > 1 /\ j = i - 1 /\ j \in 1 .. a
        \/ j # i /\ j + 1 # i /\ j \in 1 .. a /\ j + 1 \in 1 .. a /\ j < j + 1
    BY ONLY <1>1, <1>4
  <2> QED BY <2>1, <1>2, <1>3, <1>5
<1>9. integers(u)
  BY <1>1, <1>2, <1>6 DEF integers
<1> QED BY <1>2, <1>7, <1>9, NeighboursAscend

\* A key taken out.
LEMMA LacksAscends ==
  ASSUME NEW u, NEW s, NEW i \in 1 .. Len(s), integers(s), ascending(s), Lacks(u, s, i)
  PROVE  integers(u) /\ ascending(u) /\ partOf(u, s)
<1> DEFINE a == Len(s)
<1>1. a \in Nat /\ \A j \in 1 .. a : s[j] \in Int
  BY DEF integers
<1>2. /\ Len(u) = a - 1
      /\ \A j \in 1 .. (i - 1) : u[j] = s[j]
      /\ \A j \in i .. (a - 1) : u[j] = s[j + 1]
  BY DEF Lacks
<1>3. \A j, k \in 1 .. a : j < k => s[j] < s[k]
  BY DEF ascending
<1>4. i \in 1 .. a
  OBVIOUS
<1>5. a - 1 \in Nat
  BY <1>1, <1>4
<1>6. ASSUME NEW j \in 1 .. (a - 1) PROVE u[j] \in Int /\ \E k \in 1 .. a : u[j] = s[k]
  <2>1. (j \in 1 .. (i - 1) /\ j \in 1 .. a) \/ (j \in i .. (a - 1) /\ j + 1 \in 1 .. a)
    BY <1>1, <1>4
  <2> HIDE DEF a
  <2> QED BY <2>1, <1>1, <1>2
<1> HIDE DEF a
<1>7. ASSUME NEW j \in 1 .. ((a - 1) - 1) PROVE u[j] < u[j + 1]
  <2>1. \/ j \in 1 .. (i - 1) /\ j + 1 \in 1 .. (i - 1) /\ j \in 1 .. a /\ j + 1 \in 1 .. a /\ j < j + 1
        \/ j \in 1 .. (i - 1) /\ j + 1 \in i .. (a - 1) /\ j \in 1 .. a /\ (j + 1) + 1 \in 1 .. a /\ j < (j + 1) + 1
        \/ j \in i .. (a - 1) /\ j + 1 \in i .. (a - 1) /\ j + 1 \in 1 .. a /\ (j + 1) + 1 \in 1 .. a /\ j + 1 < (j + 1) + 1
    BY ONLY <1>1, <1>4
  <2> QED BY <2>1, <1>2, <1>3
<1>9. integers(u)
  BY <1>2, <1>5, <1>6 DEF integers
<1>10. partOf(u, s)
  BY <1>2, <1>6 DEF a, partOf
<1> QED BY <1>2, <1>7, <1>9, <1>10, NeighboursAscend

-----------------------------------------------------------------------------
(* What a restructuring asks of the parent *)

\* The children of n outside S are as they were.
Elsewhere(n, N, hi, M, ho, S) ==
  \A j \in 1 .. Len(n.children) : j \notin S =>
    M[n.children[j]].lowest = N[n.children[j]].lowest /\ ho[n.children[j]] = hi[n.children[j]]

\* A child in its interval, all at once.
LEMMA ChildFits ==
  ASSUME NEW n, NEW N, NEW hi, NEW b \in Int, Fine(n, N, hi, b)
  PROVE  \A i \in 1 .. Len(n.children) :
           /\ hi[n.children[i]] \in Int /\ N[n.children[i]].lowest \in Int
           /\ hi[n.children[i]] <= b
           /\ i < Len(n.children) => hi[n.children[i]] < n.keys[i]
           /\ i > 1 => n.keys[i - 1] <= N[n.children[i]].lowest
                       /\ N[n.children[i]].lowest <= hi[n.children[i]]
  BY DEF Fine, fits

\* Child i may get another lowest key and another bound inside its interval; n may lose messages.
LEMMA ParentTouch ==
  ASSUME NEW n, NEW m, NEW N, NEW hi, NEW M, NEW ho, NEW b \in Int, Fine(n, N, hi, b), NEW i \in 1 .. Len(n.children),
         m.leaf = n.leaf, m.keys = n.keys, m.children = n.children, DOMAIN m.buffer \subseteq DOMAIN n.buffer,
         Elsewhere(n, N, hi, M, ho, {i}),
         fits(n, M, ho, b, i)
  PROVE  /\ Fine(m, M, ho, b)
         /\ \A z \in Int : From(n, N, hi, z) /\ (i = 1 => z <= M[n.children[i]].lowest
                                                        /\ M[n.children[i]].lowest <= ho[n.children[i]])
                             => From(m, M, ho, z)
<1>1. own(m) \subseteq own(n) /\ numeric(m)
  BY DEF own, Fine, numeric
<1>2. \A j \in 1 .. Len(m.children) : fits(m, M, ho, b, j)
  <2> SUFFICES ASSUME NEW j \in 1 .. Len(n.children) PROVE fits(n, M, ho, b, j)
    BY DEF fits
  <2>1. fits(n, N, hi, b, j)
    BY DEF Fine
  <2> QED BY <2>1 DEF fits, Elsewhere
<1>3. Fine(m, M, ho, b)
  BY <1>1, <1>2 DEF Fine
<1>4. ASSUME NEW z \in Int, From(n, N, hi, z),
             i = 1 => z <= M[n.children[i]].lowest /\ M[n.children[i]].lowest <= ho[n.children[i]]
      PROVE  From(m, M, ho, z)
  <2>1. \A k \in own(m) : z <= k
    BY <1>1, <1>4 DEF From
  <2>2. Len(n.children) > 0 /\ 1 \in 1 .. Len(n.children)
    BY DEF Fine, numeric
  <2>3. z <= M[n.children[1]].lowest /\ M[n.children[1]].lowest <= ho[n.children[1]]
    <3>1. CASE i = 1
      BY <3>1, <1>4
    <3>2. CASE i # 1
      BY <3>2, <2>2, <1>4 DEF From, Elsewhere
    <3> QED BY <3>1, <3>2
  <2> QED BY <2>1, <2>3 DEF From
<1> QED BY <1>3, <1>4

\* Nothing in or below m is lower than all in and below n.
keepsFloor(n, N, hi, m, M, ho) == \A z : From(n, N, hi, z) => From(m, M, ho, z)

\* Child x splits at e, and y comes after it.
ParentSplits(n, m, i, e, y) ==
  /\ ~n.leaf /\ m.leaf \in BOOLEAN /\ ~m.leaf
  /\ Extends(m.keys, n.keys, i, e) /\ Extends(m.children, n.children, i + 1, y)
  /\ DOMAIN m.buffer \subseteq DOMAIN n.buffer

\* The parent of a node that was split.
LEMMA ParentSplitOrder ==
  ASSUME NEW n, NEW m, NEW N, NEW hi, NEW M, NEW ho, NEW b \in Int, Fine(n, N, hi, b), NEW i \in 1 .. Len(n.children),
         NEW x, x = n.children[i], NEW y, NEW e \in Int, ParentSplits(n, m, i, e, y),
         Elsewhere(n, N, hi, M, ho, {i}),
         M[x].lowest = N[x].lowest, ho[x] = e - 1, ho[y] = hi[x],
         M[y].lowest \in Int, e <= M[y].lowest, M[y].lowest <= ho[y],
         i > 1 => N[x].lowest <= e - 1
  PROVE  /\ Fine(m, M, ho, b)
         /\ (i = 1 => N[x].lowest <= e - 1) => keepsFloor(n, N, hi, m, M, ho)
<1> DEFINE a == Len(n.keys)
           c == Len(n.children)
<1>1. /\ integers(n.keys) /\ ascending(n.keys) /\ a \in Nat /\ c \in Nat /\ c = a + 1
      /\ \A j \in 1 .. a : n.keys[j] \in Int /\ n.keys[j] <= b
      /\ own(n) \subseteq Int /\ \A k \in own(n) : k <= b
  BY InternalParts DEF ParentSplits
<1>2. \A j \in 1 .. c :
        /\ hi[n.children[j]] \in Int /\ N[n.children[j]].lowest \in Int
        /\ hi[n.children[j]] <= b
        /\ j < c => hi[n.children[j]] < n.keys[j]
        /\ j > 1 => n.keys[j - 1] <= N[n.children[j]].lowest
                    /\ N[n.children[j]].lowest <= hi[n.children[j]]
  BY ChildFits
<1>3. a \in Nat /\ c = a + 1 /\ i \in 1 .. c
  BY <1>1
<1>4. /\ Len(m.keys) = a + 1 /\ m.keys[i] = e
      /\ \A j \in 1 .. (i - 1) : m.keys[j] = n.keys[j]
      /\ \A j \in (i + 1) .. (a + 1) : m.keys[j] = n.keys[j - 1]
  BY DEF ParentSplits, Extends
<1>5. /\ Len(m.children) = c + 1 /\ m.children[i + 1] = y
      /\ \A j \in 1 .. ((i + 1) - 1) : m.children[j] = n.children[j]
      /\ \A j \in ((i + 1) + 1) .. (c + 1) : m.children[j] = n.children[j - 1]
  BY DEF ParentSplits, Extends
<1>6. \A j \in 1 .. c : j # i => M[n.children[j]].lowest = N[n.children[j]].lowest /\ ho[n.children[j]] = hi[n.children[j]]
  BY DEF Elsewhere
<1>7. \A j \in 1 .. a : n.keys[j] \in Int /\ n.keys[j] \in own(n)
  BY <1>1 DEF own
<1>8. i <= Len(n.keys) + 1 /\ (i <= Len(n.keys) => i < c /\ i \in 1 .. a)
  BY <1>3
<1> HIDE DEF a, c
<1>9. /\ hi[x] \in Int /\ N[x].lowest \in Int /\ hi[x] <= b /\ e <= hi[x] /\ e <= b /\ e - 1 <= b /\ e - 1 \in Int
      /\ e - 1 < e
      /\ i < c => hi[x] < n.keys[i] /\ e < n.keys[i]
      /\ i > 1 => n.keys[i - 1] <= N[x].lowest /\ n.keys[i - 1] < e
  <2>1. i > 1 => i - 1 \in 1 .. a
    BY ONLY <1>3
  <2>2. i < c => i \in 1 .. a
    BY ONLY <1>3
  <2>3. hi[x] \in Int /\ N[x].lowest \in Int /\ hi[x] <= b /\ e <= hi[x]
    BY <1>2, <1>3
  <2>4. i < c => hi[x] < n.keys[i] /\ n.keys[i] \in Int
    BY <2>2, <1>2, <1>3, <1>7
  <2>5. i > 1 => n.keys[i - 1] <= N[x].lowest /\ n.keys[i - 1] \in Int
    BY <2>1, <1>2, <1>3, <1>7
  <2> QED BY <2>3, <2>4, <2>5
<1>10. integers(m.keys) /\ ascending(m.keys)
  <2>1. Extends(m.keys, n.keys, i, e) /\ i \in Nat /\ 1 <= i
    BY <1>3 DEF ParentSplits
  <2> QED BY <2>1, <1>1, <1>8, <1>9, ExtendsAscends
<1>11. numeric(m)
  <2>1. Len(m.children) \in Nat /\ Len(m.children) = Len(m.keys) + 1
    BY ONLY <1>3, <1>4, <1>5
  <2>2. DOMAIN m.buffer \subseteq Int
    BY DEF ParentSplits, Fine, numeric
  <2> QED BY <1>10, <2>1, <2>2 DEF numeric, ParentSplits
<1>12. \A k \in own(m) : k = e \/ k \in own(n)
  <2> SUFFICES ASSUME NEW k \in own(m) PROVE k = e \/ k \in own(n)
    OBVIOUS
  <2>1. CASE k \in DOMAIN m.buffer
    BY <2>1 DEF ParentSplits, own
  <2>2. CASE k \notin DOMAIN m.buffer
    <3>1. PICK j \in 1 .. (a + 1) : k = m.keys[j]
      <4>1. PICK j \in 1 .. Len(m.keys) : k = m.keys[j]
        BY <2>2 DEF own
      <4> QED BY <4>1, <1>4
    <3>2. \/ j = i \/ (j \in 1 .. (i - 1) /\ j \in 1 .. a)
          \/ (j \in (i + 1) .. (a + 1) /\ j - 1 \in 1 .. a)
      BY ONLY <1>3
    <3> QED BY <3>1, <3>2, <1>4, <1>7
  <2> QED BY <2>1, <2>2
<1>13. \A k \in own(m) : k <= b
  BY <1>1, <1>9, <1>12
<1>14. ASSUME NEW j \in 1 .. Len(m.children) PROVE fits(m, M, ho, b, j)
  <2>0. j \in 1 .. (c + 1)
    BY <1>5
  <2>1. \/ j \in 1 .. ((i + 1) - 1) /\ j # i /\ j \in 1 .. c /\ j \in 1 .. (i - 1) /\ j < c
           /\ (j > 1 => j - 1 \in 1 .. (i - 1))
        \/ j = i
        \/ j = i + 1
        \/ j \in ((i + 1) + 1) .. (c + 1) /\ j - 1 \in 1 .. c /\ j - 1 # i /\ j - 1 > 1
           /\ j - 1 \in (i + 1) .. (a + 1) /\ (j < c + 1 => j \in (i + 1) .. (a + 1) /\ j - 1 < c)
    BY ONLY <1>3, <2>0
  <2>2. CASE j \in 1 .. ((i + 1) - 1) /\ j # i /\ j \in 1 .. c /\ j \in 1 .. (i - 1) /\ j < c
           /\ (j > 1 => j - 1 \in 1 .. (i - 1))
    <3>1. m.children[j] = n.children[j] /\ m.keys[j] = n.keys[j] /\ (j > 1 => m.keys[j - 1] = n.keys[j - 1])
      BY <2>2, <1>4, <1>5
    <3> QED BY <3>1, <2>2, <1>2, <1>6 DEF fits
  <2>3. CASE j = i
    <3>1. m.children[j] = x /\ m.keys[j] = e /\ (j > 1 => m.keys[j - 1] = n.keys[j - 1])
      <4>1. j \in 1 .. ((i + 1) - 1) /\ (j > 1 => j - 1 \in 1 .. (i - 1))
        BY ONLY <1>3, <2>3
      <4> QED BY <4>1, <2>3, <1>4, <1>5
    <3> QED BY <3>1, <2>3, <1>9 DEF fits
  <2>4. CASE j = i + 1
    <3>1. m.children[j] = y /\ m.keys[j - 1] = e
      BY <2>4, <1>3, <1>4, <1>5
    <3>2. j < Len(m.children) => i < c /\ m.keys[j] = n.keys[i]
      <4>1. j < c + 1 => i < c /\ j \in (i + 1) .. (a + 1) /\ j - 1 = i
        BY ONLY <1>3, <2>4
      <4> QED BY <4>1, <1>4, <1>5
    <3> QED BY <3>1, <3>2, <1>9 DEF fits
  <2>5. CASE j \in ((i + 1) + 1) .. (c + 1) /\ j - 1 \in 1 .. c /\ j - 1 # i /\ j - 1 > 1
           /\ j - 1 \in (i + 1) .. (a + 1) /\ (j < c + 1 => j \in (i + 1) .. (a + 1) /\ j - 1 < c)
    <3>1. m.children[j] = n.children[j - 1] /\ m.keys[j - 1] = n.keys[(j - 1) - 1]
          /\ (j < c + 1 => m.keys[j] = n.keys[j - 1] /\ j - 1 < c)
      BY <2>5, <1>4, <1>5
    <3>2. Len(m.children) = c + 1
      BY <1>5
    <3> QED BY ONLY <3>1, <3>2, <2>5, <1>2, <1>6 DEF fits
  <2> QED BY ONLY <2>1, <2>2, <2>3, <2>4, <2>5, Zenon
<1>15. Fine(m, M, ho, b)
  BY <1>10, <1>11, <1>13, <1>14 DEF Fine
<1>16. ASSUME NEW z \in Int, From(n, N, hi, z), i = 1 => N[x].lowest <= e - 1
       PROVE  From(m, M, ho, z)
  <2>1. 1 \in 1 .. c /\ c > 0 /\ (i > 1 => i - 1 \in 1 .. a)
    BY ONLY <1>3
  <2>2. z <= N[n.children[1]].lowest /\ N[n.children[1]].lowest <= hi[n.children[1]]
    BY <2>1, <1>16 DEF From, c
  <2>3. z <= e
    <3>1. CASE i = 1
      BY <3>1, <2>2, <1>9, <1>16
    <3>2. CASE i # 1
      <4>1. i > 1
        BY <3>2, <1>3
      <4>2. z <= n.keys[i - 1] /\ n.keys[i - 1] \in Int
        BY <4>1, <2>1, <1>7, <1>16 DEF From
      <4> QED BY <4>1, <4>2, <1>9
    <3> QED BY <3>1, <3>2
  <2>4. \A k \in own(m) : z <= k
    BY <2>3, <1>12, <1>16 DEF From
  <2>5. m.children[1] = n.children[1]
    <3>1. 1 \in 1 .. ((i + 1) - 1)
      BY ONLY <1>3
    <3> QED BY <3>1, <1>5
  <2>6. z <= M[n.children[1]].lowest /\ M[n.children[1]].lowest <= ho[n.children[1]]
    <3>1. CASE i = 1
      BY <3>1, <2>2, <1>16
    <3>2. CASE i # 1
      BY <3>2, <2>1, <2>2, <1>6
    <3> QED BY <3>1, <3>2
  <2> QED BY <2>4, <2>5, <2>6 DEF From
<1> QED BY <1>15, <1>16 DEF keepsFloor, From

\* The pivot i between two children becomes e.
ParentMoves(n, m, i, e) ==
  /\ ~n.leaf /\ m.leaf \in BOOLEAN /\ ~m.leaf
  /\ Swaps(m.keys, n.keys, i, e) /\ m.children = n.children
  /\ DOMAIN m.buffer \subseteq DOMAIN n.buffer

\* The parent of two nodes that share their keys anew.
LEMMA ParentMoveOrder ==
  ASSUME NEW n, NEW m, NEW N, NEW hi, NEW M, NEW ho, NEW b \in Int, Fine(n, N, hi, b), NEW i \in 1 .. Len(n.keys),
         NEW x, x = n.children[i], NEW y, y = n.children[i + 1], NEW e \in Int, ParentMoves(n, m, i, e),
         Elsewhere(n, N, hi, M, ho, {i, i + 1}),
         M[x].lowest = N[x].lowest, ho[x] = e - 1, ho[y] = hi[y],
         M[y].lowest \in Int, e <= M[y].lowest, M[y].lowest <= ho[y],
         i > 1 => N[x].lowest <= e - 1
  PROVE  /\ Fine(m, M, ho, b)
         /\ (i = 1 => N[x].lowest <= e - 1) => keepsFloor(n, N, hi, m, M, ho)
<1> DEFINE a == Len(n.keys)
           c == Len(n.children)
<1>1. /\ integers(n.keys) /\ ascending(n.keys) /\ a \in Nat /\ c \in Nat /\ c = a + 1
      /\ \A j \in 1 .. a : n.keys[j] \in Int /\ n.keys[j] <= b
      /\ own(n) \subseteq Int /\ \A k \in own(n) : k <= b
  BY InternalParts DEF ParentMoves
<1>2. \A j \in 1 .. c :
        /\ hi[n.children[j]] \in Int /\ N[n.children[j]].lowest \in Int
        /\ hi[n.children[j]] <= b
        /\ j < c => hi[n.children[j]] < n.keys[j]
        /\ j > 1 => n.keys[j - 1] <= N[n.children[j]].lowest
                    /\ N[n.children[j]].lowest <= hi[n.children[j]]
  BY ChildFits
<1>3. a \in Nat /\ c = a + 1 /\ i \in 1 .. a
  BY <1>1
<1>4. Len(m.keys) = a /\ m.keys[i] = e /\ \A j \in 1 .. a : j # i => m.keys[j] = n.keys[j]
  BY DEF ParentMoves, Swaps
<1>6. \A j \in 1 .. c : j # i /\ j # i + 1 =>
         M[n.children[j]].lowest = N[n.children[j]].lowest /\ ho[n.children[j]] = hi[n.children[j]]
  BY DEF Elsewhere
<1>7. \A j \in 1 .. a : n.keys[j] \in Int /\ n.keys[j] \in own(n)
  BY <1>1 DEF own
<1>8. m.children = n.children
  BY DEF ParentMoves
<1> HIDE DEF a, c
<1>9. i \in 1 .. c /\ i + 1 \in 1 .. c /\ i < c /\ i + 1 > 1 /\ (i + 1) - 1 = i
      /\ (i + 1 < c <=> i < a) /\ (i < a => i + 1 \in 1 .. a) /\ (i > 1 => i - 1 \in 1 .. a)
  BY ONLY <1>3
<1>10. /\ hi[x] \in Int /\ N[x].lowest \in Int /\ hi[x] < n.keys[i] /\ n.keys[i] \in Int /\ n.keys[i] <= b
       /\ i > 1 => n.keys[i - 1] <= N[x].lowest /\ n.keys[i - 1] \in Int
       /\ hi[y] \in Int /\ hi[y] <= b
       /\ i < a => hi[y] < n.keys[i + 1] /\ n.keys[i + 1] \in Int
  BY <1>2, <1>7, <1>9, <1>1
<1>11. /\ e <= hi[y] /\ e <= b /\ e - 1 <= b /\ e - 1 \in Int /\ e - 1 < e
       /\ i > 1 => n.keys[i - 1] < e
       /\ i < a => e < n.keys[i + 1]
  BY ONLY <1>10, e \in Int, b \in Int, M[y].lowest \in Int, e <= M[y].lowest, M[y].lowest <= ho[y], ho[y] = hi[y],
          i > 1 => N[x].lowest <= e - 1
<1>12. integers(m.keys) /\ ascending(m.keys)
  <2>1. Swaps(m.keys, n.keys, i, e)
    BY DEF ParentMoves
  <2>2. i < Len(n.keys) => e < n.keys[i + 1]
    BY <1>11 DEF a
  <2> QED BY <2>1, <2>2, <1>1, <1>11, SwapsAscends
<1>13. numeric(m)
  <2>1. Len(m.children) \in Nat /\ Len(m.children) = Len(m.keys) + 1
    BY <1>1, <1>3, <1>4, <1>8 DEF c
  <2>2. DOMAIN m.buffer \subseteq Int
    BY DEF ParentMoves, Fine, numeric
  <2> QED BY <1>12, <2>1, <2>2 DEF numeric, ParentMoves
<1>14. \A k \in own(m) : k = e \/ k \in own(n)
  <2> SUFFICES ASSUME NEW k \in own(m) PROVE k = e \/ k \in own(n)
    OBVIOUS
  <2>1. CASE k \in DOMAIN m.buffer
    BY <2>1 DEF ParentMoves, own
  <2>2. CASE k \notin DOMAIN m.buffer
    <3>1. PICK j \in 1 .. a : k = m.keys[j]
      <4>1. PICK j \in 1 .. Len(m.keys) : k = m.keys[j]
        BY <2>2 DEF own
      <4> QED BY <4>1, <1>4
    <3> QED BY <3>1, <1>4, <1>7
  <2> QED BY <2>1, <2>2
<1>15. \A k \in own(m) : k <= b
  BY <1>1, <1>11, <1>14
<1>16. ASSUME NEW j \in 1 .. Len(m.children) PROVE fits(m, M, ho, b, j)
  <2>0. j \in 1 .. c
    BY <1>8 DEF c
  <2>1. \/ j = i
        \/ j = i + 1
        \/ j # i /\ j # i + 1 /\ (j < c => j \in 1 .. a) /\ (j > 1 => j - 1 \in 1 .. a /\ j - 1 # i)
    BY ONLY <1>3, <2>0
  <2>2. CASE j = i
    <3>1. m.keys[j] = e /\ (j > 1 => m.keys[j - 1] = n.keys[j - 1])
      <4>1. j > 1 => j - 1 \in 1 .. a /\ j - 1 # i
        BY ONLY <1>3, <2>2
      <4> QED BY <4>1, <2>2, <1>4
    <3> QED BY <3>1, <2>2, <1>8, <1>10, <1>11 DEF fits
  <2>3. CASE j = i + 1
    <3>1. m.keys[j - 1] = e
      BY <2>3, <1>4, <1>9
    <3>2. j < c => i < a /\ m.keys[j] = n.keys[i + 1]
      <4>1. j < c => i < a /\ j \in 1 .. a /\ j # i
        BY ONLY <1>3, <2>3
      <4> QED BY <4>1, <2>3, <1>4
    <3> QED BY <3>1, <3>2, <2>3, <1>8, <1>10 DEF fits, c
  <2>4. CASE j # i /\ j # i + 1 /\ (j < c => j \in 1 .. a) /\ (j > 1 => j - 1 \in 1 .. a /\ j - 1 # i)
    <3>1. (j < c => m.keys[j] = n.keys[j]) /\ (j > 1 => m.keys[j - 1] = n.keys[j - 1])
      BY <2>4, <1>4
    <3> QED BY ONLY <3>1, <2>0, <2>4, <1>2, <1>6, <1>8 DEF fits, c
  <2> QED BY ONLY <2>1, <2>2, <2>3, <2>4, Zenon
<1>17. Fine(m, M, ho, b)
  BY <1>12, <1>13, <1>15, <1>16 DEF Fine
<1>18. ASSUME NEW z \in Int, From(n, N, hi, z), i = 1 => N[x].lowest <= e - 1
       PROVE  From(m, M, ho, z)
  <2>1. 1 \in 1 .. c /\ c > 0 /\ 1 # i + 1
    BY ONLY <1>3
  <2>2. z <= N[n.children[1]].lowest /\ N[n.children[1]].lowest <= hi[n.children[1]]
    BY <2>1, <1>18 DEF From, c
  <2>3. z < e
    <3>1. CASE i = 1
      BY <3>1, <2>2, <1>10, <1>18
    <3>2. CASE i # 1
      <4>1. i > 1
        BY <3>2, <1>3
      <4>2. z <= n.keys[i - 1]
        BY <4>1, <1>7, <1>9, <1>18 DEF From
      <4> QED BY <4>1, <4>2, <1>10, <1>11
    <3> QED BY <3>1, <3>2
  <2>4. \A k \in own(m) : z <= k
    BY <2>3, <1>14, <1>18 DEF From
  <2>5. z <= M[n.children[1]].lowest /\ M[n.children[1]].lowest <= ho[n.children[1]]
    <3>1. CASE i = 1
      BY <3>1, <2>2, <1>18
    <3>2. CASE i # 1
      BY <3>2, <2>1, <2>2, <1>6
    <3> QED BY <3>1, <3>2
  <2> QED BY <2>4, <2>5, <1>8 DEF From
<1> QED BY <1>17, <1>18 DEF keepsFloor, From

\* Pivot i goes, and the child after it.
ParentDrops(n, m, i) ==
  /\ ~n.leaf /\ m.leaf \in BOOLEAN /\ ~m.leaf
  /\ Lacks(m.keys, n.keys, i) /\ Lacks(m.children, n.children, i + 1)
  /\ DOMAIN m.buffer \subseteq DOMAIN n.buffer

\* The parent of two nodes that became one, the first.
LEMMA ParentDropOrder ==
  ASSUME NEW n, NEW m, NEW N, NEW hi, NEW M, NEW ho, NEW b \in Int, Fine(n, N, hi, b), NEW i \in 1 .. Len(n.keys),
         NEW x, x = n.children[i], NEW y, y = n.children[i + 1], ParentDrops(n, m, i),
         Elsewhere(n, N, hi, M, ho, {i, i + 1}),
         M[x].lowest = N[x].lowest, ho[x] = hi[y]
  PROVE  /\ Fine(m, M, ho, b)
         /\ keepsFloor(n, N, hi, m, M, ho)
<1> DEFINE a == Len(n.keys)
           c == Len(n.children)
<1>1. /\ integers(n.keys) /\ ascending(n.keys) /\ a \in Nat /\ c \in Nat /\ c = a + 1
      /\ \A j \in 1 .. a : n.keys[j] \in Int /\ n.keys[j] <= b
      /\ own(n) \subseteq Int /\ \A k \in own(n) : k <= b
  BY InternalParts DEF ParentDrops
<1>2. \A j \in 1 .. c :
        /\ hi[n.children[j]] \in Int /\ N[n.children[j]].lowest \in Int
        /\ hi[n.children[j]] <= b
        /\ j < c => hi[n.children[j]] < n.keys[j]
        /\ j > 1 => n.keys[j - 1] <= N[n.children[j]].lowest
                    /\ N[n.children[j]].lowest <= hi[n.children[j]]
  BY ChildFits
<1>3. a \in Nat /\ c = a + 1 /\ i \in 1 .. a
  BY <1>1
<1>4. /\ Len(m.keys) = a - 1
      /\ \A j \in 1 .. (i - 1) : m.keys[j] = n.keys[j]
      /\ \A j \in i .. (a - 1) : m.keys[j] = n.keys[j + 1]
  BY DEF ParentDrops, Lacks
<1>5. /\ Len(m.children) = c - 1
      /\ \A j \in 1 .. ((i + 1) - 1) : m.children[j] = n.children[j]
      /\ \A j \in (i + 1) .. (c - 1) : m.children[j] = n.children[j + 1]
  BY DEF ParentDrops, Lacks
<1>6. \A j \in 1 .. c : j # i /\ j # i + 1 =>
         M[n.children[j]].lowest = N[n.children[j]].lowest /\ ho[n.children[j]] = hi[n.children[j]]
  BY DEF Elsewhere
<1>7. \A j \in 1 .. a : n.keys[j] \in Int /\ n.keys[j] \in own(n)
  BY <1>1 DEF own
<1>8. integers(m.keys) /\ ascending(m.keys) /\ partOf(m.keys, n.keys)
  <2>1. Lacks(m.keys, n.keys, i)
    BY DEF ParentDrops
  <2> QED BY ONLY <2>1, <1>1, i \in 1 .. Len(n.keys), LacksAscends
<1> HIDE DEF a, c
<1>9. i \in 1 .. c /\ i + 1 \in 1 .. c /\ i < c /\ i + 1 > 1 /\ (i + 1) - 1 = i
      /\ (i + 1 < c => i + 1 \in 1 .. a) /\ (i > 1 => i - 1 \in 1 .. a)
  BY ONLY <1>3
<1>10. /\ hi[x] \in Int /\ N[x].lowest \in Int /\ N[y].lowest \in Int /\ hi[x] < n.keys[i] /\ n.keys[i] \in Int
       /\ n.keys[i] <= N[y].lowest /\ N[y].lowest <= hi[y]
       /\ i > 1 => n.keys[i - 1] <= N[x].lowest /\ N[x].lowest <= hi[x]
       /\ hi[y] \in Int /\ hi[y] <= b
       /\ i + 1 < c => hi[y] < n.keys[i + 1]
  <2>1. /\ hi[x] \in Int /\ N[x].lowest \in Int /\ hi[x] < n.keys[i] /\ n.keys[i] \in Int
        /\ i > 1 => n.keys[i - 1] <= N[x].lowest /\ N[x].lowest <= hi[x]
    BY <1>2, <1>7, <1>3, <1>9
  <2>2. /\ hi[y] \in Int /\ N[y].lowest \in Int /\ hi[y] <= b /\ (i + 1 < c => hi[y] < n.keys[i + 1])
        /\ n.keys[(i + 1) - 1] <= N[y].lowest /\ N[y].lowest <= hi[y]
    BY <1>2, <1>9
  <2> QED BY <2>1, <2>2, <1>9
<1>11. hi[x] < hi[y]
  BY ONLY <1>10
<1>13. numeric(m)
  <2>1. Len(m.children) \in Nat /\ Len(m.children) = Len(m.keys) + 1
    BY ONLY <1>3, <1>4, <1>5
  <2>2. DOMAIN m.buffer \subseteq Int
    BY DEF ParentDrops, Fine, numeric
  <2> QED BY <1>8, <2>1, <2>2 DEF numeric, ParentDrops
<1>14. \A k \in own(m) : k \in own(n)
  <2> SUFFICES ASSUME NEW k \in own(m) PROVE k \in own(n)
    OBVIOUS
  <2>1. CASE k \in DOMAIN m.buffer
    BY <2>1 DEF ParentDrops, own
  <2>2. CASE k \notin DOMAIN m.buffer
    <3>1. PICK j \in 1 .. Len(m.keys) : k = m.keys[j]
      BY <2>2 DEF own
    <3> QED BY <3>1, <1>8 DEF own, partOf
  <2> QED BY <2>1, <2>2
<1>15. \A k \in own(m) : k <= b
  BY <1>1, <1>14
<1>16. ASSUME NEW j \in 1 .. Len(m.children) PROVE fits(m, M, ho, b, j)
  <2>0. j \in 1 .. (c - 1)
    BY <1>5
  <2>1. \/ j = i
        \/ j # i /\ j \in 1 .. ((i + 1) - 1) /\ j \in 1 .. c /\ j # i + 1 /\ j \in 1 .. (i - 1) /\ j < c /\ (j > 1 => j - 1 \in 1 .. (i - 1))
        \/ j \in (i + 1) .. (c - 1) /\ j + 1 \in 1 .. c /\ j + 1 # i /\ j + 1 # i + 1
           /\ (j < c - 1 => j \in i .. (a - 1) /\ j + 1 < c)
           /\ j - 1 \in i .. (a - 1) /\ (j - 1) + 1 = j /\ j + 1 > 1 /\ (j + 1) - 1 = j
    BY ONLY <1>3, <2>0
  <2>2. CASE j = i
    <3>1. m.children[j] = x /\ (j > 1 => m.keys[j - 1] = n.keys[j - 1])
      <4>1. j \in 1 .. ((i + 1) - 1) /\ (j > 1 => j - 1 \in 1 .. (i - 1))
        BY ONLY <1>3, <2>2
      <4> QED BY <4>1, <2>2, <1>4, <1>5
    <3>2. j < Len(m.children) => m.keys[j] = n.keys[i + 1] /\ i + 1 < c
      <4>1. j < c - 1 => j \in i .. (a - 1) /\ i + 1 < c
        BY ONLY <1>3, <2>2
      <4> QED BY <4>1, <2>2, <1>4, <1>5
    <3> QED BY ONLY <3>1, <3>2, <2>2, <1>10, <1>11, M[x].lowest = N[x].lowest, ho[x] = hi[y], b \in Int DEF fits
  <2>3. CASE j # i /\ j \in 1 .. ((i + 1) - 1) /\ j \in 1 .. c /\ j # i + 1 /\ j \in 1 .. (i - 1) /\ j < c /\ (j > 1 => j - 1 \in 1 .. (i - 1))
    <3>1. m.children[j] = n.children[j] /\ m.keys[j] = n.keys[j] /\ (j > 1 => m.keys[j - 1] = n.keys[j - 1])
      BY <2>3, <1>4, <1>5
    <3> QED BY ONLY <3>1, <2>3, <1>2, <1>6 DEF fits
  <2>4. CASE j \in (i + 1) .. (c - 1) /\ j + 1 \in 1 .. c /\ j + 1 # i /\ j + 1 # i + 1
           /\ (j < c - 1 => j \in i .. (a - 1) /\ j + 1 < c)
           /\ j - 1 \in i .. (a - 1) /\ (j - 1) + 1 = j /\ j + 1 > 1 /\ (j + 1) - 1 = j
    <3>1. m.children[j] = n.children[j + 1] /\ (j < c - 1 => m.keys[j] = n.keys[j + 1])
      BY <2>4, <1>4, <1>5
    <3>2. m.keys[j - 1] = n.keys[(j + 1) - 1]
      BY <2>4, <1>4
    <3> QED BY ONLY <3>1, <3>2, <2>4, <1>2, <1>5, <1>6 DEF fits
  <2> QED BY ONLY <2>1, <2>2, <2>3, <2>4, Zenon
<1>17. Fine(m, M, ho, b)
  BY <1>8, <1>13, <1>15, <1>16 DEF Fine
<1>18. ASSUME NEW z \in Int, From(n, N, hi, z) PROVE From(m, M, ho, z)
  <2>1. 1 \in 1 .. c /\ c > 0 /\ 1 # i + 1 /\ 1 \in 1 .. ((i + 1) - 1)
    BY ONLY <1>3
  <2>2. z <= N[n.children[1]].lowest /\ N[n.children[1]].lowest <= hi[n.children[1]]
    BY <2>1, <1>18 DEF From, c
  <2>4. \A k \in own(m) : z <= k
    BY <1>14, <1>18 DEF From
  <2>5. z <= M[n.children[1]].lowest /\ M[n.children[1]].lowest <= ho[n.children[1]]
    <3>1. CASE i = 1
      BY <3>1, <2>2, <1>10, <1>11
    <3>2. CASE i # 1
      BY <3>2, <2>1, <2>2, <1>6
    <3> QED BY <3>1, <3>2
  <2>6. m.children[1] = n.children[1]
    BY <2>1, <1>5
  <2> QED BY <2>4, <2>5, <2>6 DEF From
<1> QED BY <1>17, <1>18 DEF keepsFloor, From

\* What hangs below Nil, as if it were a node: the tops, and the pivot between two of them.
crown(T, V) == [leaf |-> T = << >>, keys |-> V, children |-> T, buffer |-> << >>]
nd(N, T, V, q) == IF q = Nil THEN crown(T, V) ELSE N[q]

\* Node n, stored as q, is in order up to its bound, and from its lowest key on if it is not
\* at the left edge of the tree.
Sound(n, N, hi, q) ==
  Fine(n, N, hi, hi[q]) /\ (lft(N, q) # Nil => From(n, N, hi, N[q].lowest))

\* Every node in the tree is in order; hi bounds the keys below each.
Ordered(N, T, V, L, hi) ==
  \A q \in L \cup {Nil} : hi[q] \in Int /\ Sound(nd(N, T, V, q), N, hi, q)

\* The table changes below p: only nodes in X get other lowest keys and bounds.
Patched(N, T, V, L, hi, M, U, W, K, ho, p, X) ==
  /\ p \in L \cup {Nil} /\ p \notin X /\ Nil \notin X
  /\ K \subseteq L \cup X
  /\ \A x \in X \cap L : up(N, x) \in X \cup {p}
  /\ p # Nil => U = T /\ W = V /\ ho[Nil] = hi[Nil]
  /\ \A q \in L \ X : M[q].lowest = N[q].lowest /\ ho[q] = hi[q]
  /\ \A q \in K \ (X \cup {p}) : likened(M[q], N[q]) /\ (M[q].left # Nil => N[q].left # Nil)
  /\ \A q \in (K \cap X) \cup {p} : ho[q] \in Int /\ Sound(nd(M, U, W, q), M, ho, q)

\* A node outside of what changed stays in order.
LEMMA OutsideSound ==
  ASSUME NEW N, NEW T, NEW V, NEW L, NEW hi, Nil \notin L, Downward(N, T, L), Ordered(N, T, V, L, hi),
         NEW M, NEW U, NEW W, NEW K, NEW ho, NEW p, NEW X, Patched(N, T, V, L, hi, M, U, W, K, ho, p, X),
         NEW q \in K \cup {Nil}, q \notin X, q # p
  PROVE  ho[q] \in Int /\ Sound(nd(M, U, W, q), M, ho, q)
<1> DEFINE n == nd(N, T, V, q)
           m == nd(M, U, W, q)
<1>1. q \in L \cup {Nil} /\ hi[q] \in Int /\ Sound(n, N, hi, q)
  BY DEF Patched, Ordered
<1>2. ho[q] = hi[q] /\ likened(m, n) /\ (lft(M, q) # Nil => lft(N, q) # Nil /\ M[q].lowest = N[q].lowest)
  <2>1. CASE q = Nil
    BY <2>1 DEF Patched, nd, likened, lft
  <2>2. CASE q # Nil
    BY <1>1, <2>2 DEF Patched, nd, lft
  <2> QED
    BY ONLY <2>1, <2>2, Zenon
<1>3. \A i \in 1 .. Len(n.children) : /\ M[n.children[i]].lowest = N[n.children[i]].lowest
                                      /\ ho[n.children[i]] = hi[n.children[i]]
  <2>1. kids(N, T, q) = n.children
    BY DEF nd, crown, kids
  <2> SUFFICES ASSUME NEW i \in 1 .. Len(n.children)
               PROVE  n.children[i] \in L \ X
    BY DEF Patched
  <2>2. n.children[i] \in L /\ up(N, n.children[i]) = q
    BY <1>1, <2>1 DEF Downward, deg, kid
  <2>3. n.children[i] \notin X
    BY <2>2 DEF Patched
  <2> QED
    BY <2>2, <2>3
<1> HIDE DEF n, m
<1>4. Fine(m, M, ho, ho[q]) /\ \A lo : From(n, N, hi, lo) => From(m, M, ho, lo)
  BY <1>1, <1>2, <1>3, FineMoved DEF Sound
<1>5. Sound(m, M, ho, q)
  BY <1>1, <1>2, <1>4 DEF Sound
<1> QED
  BY <1>1, <1>2, <1>5 DEF m

\* A node whose children do not change stays as it is.
LEMMA FineStays ==
  ASSUME NEW n, NEW N, NEW hi, NEW b, NEW M, NEW ho,
         \A i \in 1 .. Len(n.children) : /\ M[n.children[i]].lowest = N[n.children[i]].lowest
                                         /\ ho[n.children[i]] = hi[n.children[i]]
  PROVE  /\ Fine(n, N, hi, b) => Fine(n, M, ho, b)
         /\ \A lo : From(n, N, hi, lo) => From(n, M, ho, lo)
<1>1. likened(n, n)
  BY DEF likened
<1> QED
  BY <1>1, FineMoved

\* A change below p that leaves p and the nodes in X in order leaves all in order.
LEMMA LocalOrder ==
  ASSUME NEW N, NEW T, NEW V, NEW L, NEW hi, Nil \notin L, Downward(N, T, L), Ordered(N, T, V, L, hi),
         NEW M, NEW U, NEW W, NEW K, NEW ho, NEW p, NEW X, Patched(N, T, V, L, hi, M, U, W, K, ho, p, X)
  PROVE  Ordered(M, U, W, K, ho)
<1> SUFFICES ASSUME NEW q \in K \cup {Nil}
             PROVE  ho[q] \in Int /\ Sound(nd(M, U, W, q), M, ho, q)
  BY DEF Ordered
<1>1. CASE q \in X \/ q = p
  BY <1>1 DEF Patched
<1>2. CASE q \notin X /\ q # p
  BY <1>2, OutsideSound
<1> QED
  BY ONLY <1>1, <1>2, Zenon

\* A child that has a brother before it, or whose parent has a left neighbour, has one itself.
LEMMA InnerKid ==
  ASSUME NEW N, NEW T, NEW L, NEW h, Nil \notin L, Tree(N, T, L, h),
         NEW p \in L \cup {Nil}, NEW i \in 1 .. deg(N, T, p), i > 1 \/ lft(N, p) # Nil
  PROVE  lft(N, kid(N, T, p, i)) # Nil
<1>1. CASE i > 1
  <2>1. deg(N, T, p) \in Nat
    BY DEF Tree, Downward
  <2>2. i - 1 \in 1 .. deg(N, T, p)
    BY <1>1, <2>1
  <2>3. kid(N, T, p, i - 1) \in L
    BY <2>2 DEF Tree, Downward
  <2> QED
    BY <1>1, <2>3 DEF Tree, Rows
<1>2. CASE ~(i > 1) /\ lft(N, p) # Nil
  <2> DEFINE s == lft(N, p)
  <2>1. p \in L /\ s \in L /\ h[s] = h[p] /\ s # Nil
    BY <1>2 DEF Tree, Mutual
  <2>2. deg(N, T, p) \in Nat /\ deg(N, T, s) \in Nat
    BY <2>1 DEF Tree, Downward
  <2>3. deg(N, T, p) # 0
    BY <2>2
  <2>4. deg(N, T, s) # 0
    BY <2>1, <2>3 DEF Tree, Levels
  <2>5. deg(N, T, s) \in 1 .. deg(N, T, s)
    BY <2>2, <2>4
  <2>6. kid(N, T, s, deg(N, T, s)) \in L
    BY <2>1, <2>5 DEF Tree, Downward
  <2>7. lastKid(N, T, s) \in L
    BY <2>1, <2>6 DEF lastKid
  <2> QED
    BY <1>2, <2>7 DEF Tree, Rows
<1> QED
  BY ONLY <1>1, <1>2, i > 1 \/ lft(N, p) # Nil

\* A child and its parent.
LEMMA KidFacts ==
  ASSUME NEW N, NEW T, NEW L, NEW h, Nil \notin L, Tree(N, T, L, h),
         NEW p \in L \cup {Nil}, NEW i \in 1 .. deg(N, T, p), NEW x, x = kid(N, T, p, i)
  PROVE  /\ x \in L /\ x # p /\ x # Nil /\ up(N, x) = p
         /\ \A j \in 1 .. deg(N, T, x) : kid(N, T, x, j) \in L \ {x, p} /\ up(N, kid(N, T, x, j)) = x
         /\ \A j \in 1 .. deg(N, T, p) : kid(N, T, p, j) \in L /\ (j # i => kid(N, T, p, j) # x)
<1>1. /\ x \in L /\ x # Nil /\ up(N, x) = p
      /\ \A j \in 1 .. deg(N, T, p) : kid(N, T, p, j) \in L /\ (j # i => kid(N, T, p, j) # x)
  BY DEF Tree, Downward
<1>2. h[p] = h[x] + 1 /\ h[x] \in Nat /\ h[p] \in Nat
  BY <1>1 DEF Tree, Levels
<1>3. ASSUME NEW j \in 1 .. deg(N, T, x)
      PROVE  kid(N, T, x, j) \in L \ {x, p} /\ up(N, kid(N, T, x, j)) = x
  <2>1. kid(N, T, x, j) \in L /\ up(N, kid(N, T, x, j)) = x
    BY <1>1 DEF Tree, Downward
  <2>2. h[x] = h[kid(N, T, x, j)] + 1 /\ h[kid(N, T, x, j)] \in Nat
    BY <1>1, <2>1 DEF Tree, Levels
  <2>3. kid(N, T, x, j) # x /\ kid(N, T, x, j) # p
    BY <1>2, <2>2
  <2> QED
    BY <2>1, <2>3
<1>4. x # p
  BY <1>2
<1> QED
  BY <1>1, <1>3, <1>4

\* Node x is child i of p, in a tree in order.
Kin(N, T, V, L, hi, p, i, x) ==
  LET n == nd(N, T, V, p) IN
  /\ Fine(n, N, hi, hi[p]) /\ Fine(N[x], N, hi, hi[x])
  /\ n.children = kids(N, T, p) /\ Len(n.children) = deg(N, T, p) /\ i \in 1 .. Len(n.children) /\ x = n.children[i]
  /\ Len(n.children) \in Nat /\ i \in Nat /\ Len(n.children) > 0
  /\ hi[p] \in Int /\ hi[x] \in Int /\ hi[x] <= hi[p] /\ N[x].lowest \in Int
  /\ i < Len(n.children) => hi[x] < n.keys[i]
  /\ i > 1 => n.keys[i - 1] <= N[x].lowest /\ N[x].lowest <= hi[x]
  /\ lft(N, p) # Nil => From(n, N, hi, N[p].lowest)
  /\ lft(N, x) # Nil => From(N[x], N, hi, N[x].lowest)
  /\ i > 1 \/ lft(N, p) # Nil => lft(N, x) # Nil
  /\ lft(N, x) # Nil => N[x].lowest <= hi[x]
  /\ lft(N, p) # Nil => N[p].lowest <= N[x].lowest

\* What the order of a tree says of a node and its parent.
LEMMA KinOrder ==
  ASSUME NEW N, NEW T, NEW V, NEW L, NEW hi, NEW h, Nil \notin L, Tree(N, T, L, h), Ordered(N, T, V, L, hi),
         NEW p \in L \cup {Nil}, NEW i \in 1 .. deg(N, T, p), NEW x, x = kid(N, T, p, i)
  PROVE  Kin(N, T, V, L, hi, p, i, x)
<1> DEFINE n == nd(N, T, V, p)
<1>1. x \in L /\ x # Nil
  BY KidFacts
<1>2. n.children = kids(N, T, p) /\ Len(n.children) = deg(N, T, p) /\ x = n.children[i] /\ deg(N, T, p) \in Nat
  BY DEF nd, crown, kids, deg, kid, Tree, Downward
<1>3. hi[p] \in Int /\ hi[x] \in Int /\ Sound(n, N, hi, p) /\ Sound(N[x], N, hi, x)
  BY <1>1 DEF Ordered, nd
<1>4. i > 1 \/ lft(N, p) # Nil => lft(N, x) # Nil
  BY InnerKid
<1> HIDE DEF n
<1>5. fits(n, N, hi, hi[p], i) /\ i \in 1 .. Len(n.children)
  BY <1>2, <1>3 DEF Sound, Fine
<1>6. /\ hi[x] <= hi[p] /\ N[x].lowest \in Int
      /\ i < Len(n.children) => hi[x] < n.keys[i]
      /\ i > 1 => n.keys[i - 1] <= N[x].lowest /\ N[x].lowest <= hi[x]
  BY ONLY <1>2, <1>5 DEF fits
<1>7. Len(n.children) \in Nat /\ i \in Nat /\ Len(n.children) > 0
  BY <1>2
<1>8. lft(N, x) # Nil => N[x].lowest <= hi[x]
  <2>1. CASE i > 1
    BY <1>6, <2>1
  <2>2. CASE ~(i > 1)
    <3>1. i = 1 /\ (lft(N, x) # Nil => lft(N, p) # Nil)
      <4>1. i = 1
        BY <1>7, <2>2, <1>5
      <4>2. lft(N, x) = lastKid(N, T, lft(N, p))
        BY <4>1 DEF Tree, Rows
      <4> QED
        BY <4>1, <4>2 DEF lastKid
    <3> QED
      BY <1>2, <1>3, <1>7, <3>1 DEF Sound, From
  <2> QED
    BY ONLY <2>1, <2>2
<1>9. lft(N, p) # Nil => N[p].lowest <= N[x].lowest
  <2> HAVE lft(N, p) # Nil
  <2>1. From(n, N, hi, N[p].lowest)
    BY <1>3 DEF Sound
  <2>2. CASE i > 1
    <3>1. n.keys[i - 1] \in own(n) /\ n.keys[i - 1] \in Int
      <4> DEFINE a == Len(n.keys)
                 c == Len(n.children)
      <4>1. a \in Nat /\ c \in Nat /\ c > 0 /\ (c = 0 \/ c = a + 1) /\ i \in 1 .. c /\ integers(n.keys)
        BY <1>3, <1>5, <1>7 DEF Sound, Fine, numeric, integers
      <4> HIDE DEF a, c
      <4>2. i - 1 \in 1 .. a
        BY ONLY <4>1, <2>2
      <4> QED
        BY <4>1, <4>2 DEF own, integers, a
    <3>2. N[p].lowest <= n.keys[i - 1] /\ N[p].lowest \in Int
      BY <2>1, <3>1 DEF From
    <3> QED
      BY <3>1, <3>2, <1>6, <2>2
  <2>3. CASE ~(i > 1)
    <3>1. i = 1
      BY <1>7, <2>3, <1>5
    <3> QED
      BY <1>2, <1>7, <2>1, <3>1 DEF From
  <2> QED
    BY ONLY <2>2, <2>3
<1> QED
  BY <1>2, <1>3, <1>4, <1>5, <1>6, <1>7, <1>8, <1>9 DEF Kin, n, Sound

\* Node x, child i of p, is overwritten, and gets the bound ho; its parent may lose messages.
Touches(N, T, V, L, hi, M, ho, p, i, x) ==
  /\ \A q \in L \ {x, p} : likened(M[q], N[q])
  /\ \A q \in L \ {x} : M[q].lowest = N[q].lowest /\ ho[q] = hi[q]
  /\ \A q \in L : M[q].left # Nil => N[q].left # Nil
  /\ ho[Nil] = hi[Nil]
  /\ p # Nil => /\ M[p].leaf = N[p].leaf /\ M[p].keys = N[p].keys /\ M[p].children = N[p].children
                /\ DOMAIN M[p].buffer \subseteq DOMAIN N[p].buffer
  /\ M[x].children = N[x].children
  /\ Fine(M[x], N, hi, ho[x]) /\ M[x].lowest \in Int
  /\ ho[x] \in Int /\ ho[x] <= hi[p] /\ (i < deg(N, T, p) => ho[x] < nd(N, T, V, p).keys[i])
  /\ lft(N, x) # Nil => From(M[x], N, hi, M[x].lowest)
  /\ i > 1 => nd(N, T, V, p).keys[i - 1] <= M[x].lowest
  /\ lft(N, p) # Nil => N[p].lowest <= M[x].lowest
  /\ i > 1 \/ lft(N, p) # Nil => M[x].lowest <= ho[x]

\* A node that changes its keys within its interval.
LEMMA TouchOrder ==
  ASSUME NEW N, NEW T, NEW V, NEW L, NEW hi, NEW h, Nil \notin L, Tree(N, T, L, h), Ordered(N, T, V, L, hi),
         NEW p \in L \cup {Nil}, NEW i \in 1 .. deg(N, T, p), NEW x, x = kid(N, T, p, i),
         NEW M, NEW ho, Touches(N, T, V, L, hi, M, ho, p, i, x)
  PROVE  Ordered(M, T, V, L, ho)
<1> DEFINE n == nd(N, T, V, p)
           m == nd(M, T, V, p)
<1>1. Kin(N, T, V, L, hi, p, i, x)
  BY KinOrder
<1>2. /\ x \in L /\ x # p /\ x # Nil /\ up(N, x) = p
      /\ \A j \in 1 .. deg(N, T, x) : kid(N, T, x, j) \in L \ {x, p} /\ up(N, kid(N, T, x, j)) = x
      /\ \A j \in 1 .. deg(N, T, p) : kid(N, T, p, j) \in L /\ (j # i => kid(N, T, p, j) # x)
  BY KidFacts
<1>3. /\ m.leaf = n.leaf /\ m.keys = n.keys /\ m.children = n.children /\ DOMAIN m.buffer \subseteq DOMAIN n.buffer
  BY DEF Touches, nd
<1>4. Elsewhere(n, N, hi, M, ho, {i})
  <2> SUFFICES ASSUME NEW j \in 1 .. Len(n.children), j # i
               PROVE  M[n.children[j]].lowest = N[n.children[j]].lowest /\ ho[n.children[j]] = hi[n.children[j]]
    BY DEF Elsewhere
  <2>1. n.children[j] = kid(N, T, p, j) /\ j \in 1 .. deg(N, T, p)
    BY <1>1 DEF Kin, kid
  <2>2. n.children[j] \in L \ {x}
    BY <1>2, <2>1
  <2> QED
    BY <2>2 DEF Touches
<1>5. fits(n, M, ho, hi[p], i)
  <2>1. n.children[i] = x /\ Len(n.children) = deg(N, T, p)
    BY <1>1 DEF Kin
  <2>2. /\ ho[x] \in Int /\ M[x].lowest \in Int /\ ho[x] <= hi[p] /\ (i < deg(N, T, p) => ho[x] < n.keys[i])
        /\ i > 1 => n.keys[i - 1] <= M[x].lowest
        /\ i > 1 \/ lft(N, p) # Nil => M[x].lowest <= ho[x]
    BY DEF Touches
  <2> QED
    BY ONLY <2>1, <2>2 DEF fits
<1>6. hi[p] \in Int /\ Fine(n, N, hi, hi[p]) /\ i \in 1 .. Len(n.children) /\ n.children[i] = x
      /\ (lft(N, p) # Nil => From(n, N, hi, N[p].lowest))
  BY <1>1 DEF Kin
<1> HIDE DEF n, m
<1>7. /\ Fine(m, M, ho, hi[p])
      /\ \A z \in Int : From(n, N, hi, z) /\ (i = 1 => z <= M[x].lowest /\ M[x].lowest <= ho[x])
                          => From(m, M, ho, z)
  BY ONLY <1>3, <1>4, <1>5, <1>6, ParentTouch
<1>8. lft(M, p) # Nil => From(m, M, ho, M[p].lowest)
  <2> HAVE lft(M, p) # Nil
  <2>1. p # Nil /\ lft(N, p) # Nil /\ M[p].lowest = N[p].lowest
    BY <1>2 DEF lft, Touches
  <2>2. N[p].lowest \in Int
    BY <2>1, <1>6 DEF From
  <2>3. N[p].lowest <= M[x].lowest /\ M[x].lowest <= ho[x]
    BY <2>1 DEF Touches
  <2> QED
    BY <2>1, <2>2, <2>3, <1>6, <1>7
<1>9. ho[p] = hi[p]
  BY <1>2 DEF Touches
<1>10. \A j \in 1 .. Len(M[x].children) : /\ M[M[x].children[j]].lowest = N[M[x].children[j]].lowest
                                          /\ ho[M[x].children[j]] = hi[M[x].children[j]]
  <2> SUFFICES ASSUME NEW j \in 1 .. Len(M[x].children)
               PROVE  M[x].children[j] \in L \ {x}
    BY DEF Touches
  <2>1. M[x].children = kids(N, T, x)
    BY <1>2 DEF Touches, kids
  <2> QED
    BY <1>2, <2>1 DEF deg, kid
<1>11. /\ Fine(M[x], N, hi, ho[x]) => Fine(M[x], M, ho, ho[x])
       /\ \A lo : From(M[x], N, hi, lo) => From(M[x], M, ho, lo)
  <2> DEFINE o == M[x]
  <2>1. \A j \in 1 .. Len(o.children) : /\ M[o.children[j]].lowest = N[o.children[j]].lowest
                                        /\ ho[o.children[j]] = hi[o.children[j]]
    BY <1>10
  <2> HIDE DEF o
  <2>2. /\ Fine(o, N, hi, ho[x]) => Fine(o, M, ho, ho[x])
        /\ \A lo : From(o, N, hi, lo) => From(o, M, ho, lo)
    BY ONLY <2>1, FineStays
  <2> QED
    BY <2>2 DEF o
<1>12. Fine(M[x], M, ho, ho[x]) /\ (lft(N, x) # Nil => From(M[x], M, ho, M[x].lowest))
  <2>1. Fine(M[x], N, hi, ho[x]) /\ (lft(N, x) # Nil => From(M[x], N, hi, M[x].lowest))
    BY DEF Touches
  <2> QED
    BY ONLY <2>1, <1>11
<1>13. Sound(nd(M, T, V, x), M, ho, x)
  <2>1. lft(M, x) # Nil => lft(N, x) # Nil
    BY <1>2 DEF lft, Touches
  <2>2. nd(M, T, V, x) = M[x]
    BY <1>2 DEF nd
  <2> QED
    BY ONLY <1>12, <2>1, <2>2 DEF Sound
<1>14. Sound(nd(M, T, V, p), M, ho, p)
  BY <1>7, <1>8, <1>9 DEF Sound, m
<1>15. Patched(N, T, V, L, hi, M, T, V, L, ho, p, {x})
  <2>1. ho[x] \in Int /\ ho[p] \in Int
    BY <1>6, <1>9 DEF Touches
  <2>2. \A q \in L \ {x} : M[q].lowest = N[q].lowest /\ ho[q] = hi[q]
    BY DEF Touches
  <2>3. \A q \in L \ ({x} \cup {p}) : likened(M[q], N[q]) /\ (M[q].left # Nil => N[q].left # Nil)
    BY DEF Touches
  <2>4. ho[Nil] = hi[Nil]
    BY DEF Touches
  <2> QED
    BY ONLY <2>1, <2>2, <2>3, <2>4, <1>2, <1>13, <1>14, p \in L \cup {Nil}, Nil \notin L DEF Patched
<1> QED
  BY <1>15, LocalOrder DEF Tree

\* The children of node m are among those of the nodes S.
stems(m, N, T, S) ==
  \A j \in 1 .. Len(m.children) : \E q \in S : \E k \in 1 .. deg(N, T, q) : m.children[j] = kid(N, T, q, k)

\* A node with children outside of what changed is as it was.
LEMMA FineOutside ==
  ASSUME NEW N, NEW hi, NEW M, NEW ho, NEW A, \A q \in A : M[q].lowest = N[q].lowest /\ ho[q] = hi[q],
         NEW m, \A j \in 1 .. Len(m.children) : m.children[j] \in A, NEW b
  PROVE  /\ Fine(m, N, hi, b) => Fine(m, M, ho, b)
         /\ \A lo : From(m, N, hi, lo) => From(m, M, ho, lo)
<1>1. \A j \in 1 .. Len(m.children) : /\ M[m.children[j]].lowest = N[m.children[j]].lowest
                                      /\ ho[m.children[j]] = hi[m.children[j]]
  OBVIOUS
<1> QED
  BY ONLY <1>1, FineStays

\* Node x, child i of p, is split at e: y gets what is from e on.
Splits(N, T, V, L, hi, M, U, W, ho, p, i, x, y, e) ==
  /\ y \notin L /\ y # Nil
  /\ Severed(N[x], M[x], M[y], e, N, hi, hi[x])
  /\ From(M[y], N, hi, M[y].lowest) /\ e <= M[y].lowest /\ M[y].lowest <= hi[x]
  /\ M[x].lowest = N[x].lowest
  /\ stems(M[x], N, T, {x}) /\ stems(M[y], N, T, {x})
  /\ ParentSplits(nd(N, T, V, p), nd(M, U, W, p), i, e, y)
  /\ p # Nil => U = T /\ W = V
  /\ \A q \in L \ {x, p} : likened(M[q], N[q])
  /\ \A q \in L \ {x} : M[q].lowest = N[q].lowest
  /\ \A q \in L : M[q].left # Nil => N[q].left # Nil
  /\ ho[x] = e - 1 /\ ho[y] = hi[x] /\ \A q \in (L \cup {Nil}) \ {x} : ho[q] = hi[q]

\* The parent of the node that is split.
LEMMA SplitParentOrder ==
  ASSUME NEW N, NEW T, NEW V, NEW L, NEW hi, NEW h, Nil \notin L, Tree(N, T, L, h), Ordered(N, T, V, L, hi),
         NEW p \in L \cup {Nil}, NEW i \in 1 .. deg(N, T, p), NEW x, x = kid(N, T, p, i),
         NEW M, NEW U, NEW W, NEW ho, NEW y, NEW e, Splits(N, T, V, L, hi, M, U, W, ho, p, i, x, y, e)
  PROVE  Sound(nd(M, U, W, p), M, ho, p) /\ ho[p] \in Int
<1> DEFINE n == nd(N, T, V, p)
           m == nd(M, U, W, p)
<1>1. Kin(N, T, V, L, hi, p, i, x)
  BY KinOrder
<1>2. /\ x \in L /\ x # p /\ x # Nil
      /\ \A j \in 1 .. deg(N, T, p) : kid(N, T, p, j) \in L /\ (j # i => kid(N, T, p, j) # x)
  BY KidFacts
<1>3. ParentSplits(n, m, i, e, y)
  BY DEF Splits
<1>4. Elsewhere(n, N, hi, M, ho, {i})
  <2> SUFFICES ASSUME NEW j \in 1 .. Len(n.children), j # i
               PROVE  M[n.children[j]].lowest = N[n.children[j]].lowest /\ ho[n.children[j]] = hi[n.children[j]]
    BY DEF Elsewhere
  <2>1. n.children[j] = kid(N, T, p, j) /\ j \in 1 .. deg(N, T, p)
    BY <1>1 DEF Kin, kid
  <2>2. n.children[j] \in L \ {x}
    BY <1>2, <2>1
  <2> QED
    BY <2>2 DEF Splits
<1>5. /\ hi[p] \in Int /\ Fine(n, N, hi, hi[p]) /\ i \in 1 .. Len(n.children) /\ n.children[i] = x
      /\ (lft(N, p) # Nil => From(n, N, hi, N[p].lowest))
      /\ (lft(N, x) # Nil => From(N[x], N, hi, N[x].lowest))
      /\ (i > 1 \/ lft(N, p) # Nil => lft(N, x) # Nil)
      /\ N[x].lowest \in Int
  BY <1>1 DEF Kin
<1>6. e \in Int /\ (lft(N, x) # Nil => N[x].lowest <= e - 1)
  BY <1>5 DEF Splits, Severed
<1>7. /\ M[x].lowest = N[x].lowest /\ ho[x] = e - 1 /\ ho[y] = hi[x]
      /\ M[y].lowest \in Int /\ e <= M[y].lowest /\ M[y].lowest <= ho[y]
  BY DEF Splits, From
<1>8. ho[p] = hi[p] /\ (lft(M, p) # Nil => lft(N, p) # Nil /\ M[p].lowest = N[p].lowest)
  BY <1>2 DEF Splits, lft
<1> HIDE DEF n, m
<1>9. /\ Fine(m, M, ho, hi[p])
      /\ (i = 1 => N[x].lowest <= e - 1) => keepsFloor(n, N, hi, m, M, ho)
  <2>1. i > 1 => N[x].lowest <= e - 1
    BY <1>5, <1>6
  <2>2. x = n.children[i] /\ i \in 1 .. Len(n.children) /\ hi[p] \in Int /\ Fine(n, N, hi, hi[p]) /\ e \in Int
    BY <1>5, <1>6
  <2>3. /\ M[x].lowest = N[x].lowest /\ ho[x] = e - 1 /\ ho[y] = hi[x]
        /\ M[y].lowest \in Int /\ e <= M[y].lowest /\ M[y].lowest <= ho[y]
    BY <1>7
  <2> QED
    <3> DEFINE b == hi[p]
    <3>1. b \in Int /\ Fine(n, N, hi, b)
      BY <2>2
    <3> HIDE DEF b
    <3>2. Fine(m, M, ho, b) /\ ((i = 1 => N[x].lowest <= e - 1) => keepsFloor(n, N, hi, m, M, ho))
      BY ONLY <1>3, <1>4, <2>1, <2>2, <2>3, <3>1, ParentSplitOrder
    <3> QED
      BY <3>2 DEF b
<1>10. lft(M, p) # Nil => From(m, M, ho, M[p].lowest)
  <2> HAVE lft(M, p) # Nil
  <2>1. lft(N, p) # Nil /\ M[p].lowest = N[p].lowest /\ N[x].lowest <= e - 1
    BY <1>5, <1>6, <1>8
  <2> QED
    BY <2>1, <1>5, <1>9 DEF keepsFloor
<1> QED
  BY <1>5, <1>8, <1>9, <1>10 DEF Sound, m

\* The two halves.
LEMMA HalvesOrder ==
  ASSUME NEW N, NEW T, NEW V, NEW L, NEW hi, NEW h, Nil \notin L, Tree(N, T, L, h), Ordered(N, T, V, L, hi),
         NEW p \in L \cup {Nil}, NEW i \in 1 .. deg(N, T, p), NEW x, x = kid(N, T, p, i),
         NEW M, NEW U, NEW W, NEW ho, NEW y, NEW e, Splits(N, T, V, L, hi, M, U, W, ho, p, i, x, y, e)
  PROVE  \A q \in {x, y} : ho[q] \in Int /\ Sound(M[q], M, ho, q)
<1>1. Kin(N, T, V, L, hi, p, i, x)
  BY KinOrder
<1>2. /\ x \in L /\ x # p /\ x # Nil
      /\ \A j \in 1 .. deg(N, T, x) : kid(N, T, x, j) \in L \ {x, p}
  BY KidFacts
<1>3. \A q \in L \ {x} : M[q].lowest = N[q].lowest /\ ho[q] = hi[q]
  BY DEF Splits
<1>4. ASSUME NEW q \in {x, y}
      PROVE  \A j \in 1 .. Len(M[q].children) : M[q].children[j] \in L \ {x}
  <2>1. stems(M[q], N, T, {x})
    BY DEF Splits
  <2> QED
    BY <1>2, <2>1 DEF stems
<1>5. /\ Fine(M[x], N, hi, e - 1) /\ Fine(M[y], N, hi, hi[x]) /\ e \in Int
      /\ \A z \in Int : From(N[x], N, hi, z) => From(M[x], N, hi, z)
  BY DEF Splits, Severed
<1>6. From(M[y], N, hi, M[y].lowest) /\ ho[x] = e - 1 /\ ho[y] = hi[x]
  BY DEF Splits
<1>7. hi[x] \in Int /\ (lft(N, x) # Nil => From(N[x], N, hi, N[x].lowest)) /\ N[x].lowest \in Int
  BY <1>1 DEF Kin
<1>8. lft(M, x) # Nil => From(M[x], N, hi, M[x].lowest)
  <2>1. lft(M, x) # Nil => lft(N, x) # Nil
    BY <1>2 DEF lft, Splits
  <2>2. M[x].lowest = N[x].lowest
    BY DEF Splits
  <2> QED
    BY <2>1, <2>2, <1>5, <1>7
<1>9. /\ Fine(M[x], M, ho, e - 1)
      /\ \A lo : From(M[x], N, hi, lo) => From(M[x], M, ho, lo)
  <2> DEFINE o == M[x]
  <2>1. \A j \in 1 .. Len(o.children) : o.children[j] \in L \ {x}
    BY <1>4
  <2>2. Fine(o, N, hi, e - 1)
    BY <1>5
  <2> HIDE DEF o
  <2>3. /\ Fine(o, M, ho, e - 1) /\ \A lo : From(o, N, hi, lo) => From(o, M, ho, lo)
    BY ONLY <1>3, <2>1, <2>2, FineOutside
  <2> QED
    BY <2>3 DEF o
<1>10. /\ Fine(M[y], M, ho, hi[x])
       /\ \A lo : From(M[y], N, hi, lo) => From(M[y], M, ho, lo)
  <2> DEFINE o == M[y]
  <2>1. \A j \in 1 .. Len(o.children) : o.children[j] \in L \ {x}
    BY <1>4
  <2>2. Fine(o, N, hi, hi[x])
    BY <1>5
  <2> HIDE DEF o
  <2>3. /\ Fine(o, M, ho, hi[x]) /\ \A lo : From(o, N, hi, lo) => From(o, M, ho, lo)
    BY ONLY <1>3, <2>1, <2>2, FineOutside
  <2> QED
    BY <2>3 DEF o
<1>11. ho[x] \in Int /\ Sound(M[x], M, ho, x)
  BY ONLY <1>5, <1>6, <1>8, <1>9 DEF Sound
<1>12. ho[y] \in Int /\ Sound(M[y], M, ho, y)
  BY ONLY <1>6, <1>7, <1>10 DEF Sound
<1> QED
  BY ONLY <1>11, <1>12

\* A split keeps the order.
LEMMA SplitOrder ==
  ASSUME NEW N, NEW T, NEW V, NEW L, NEW hi, NEW h, Nil \notin L, Tree(N, T, L, h), Ordered(N, T, V, L, hi),
         NEW p \in L \cup {Nil}, NEW i \in 1 .. deg(N, T, p), NEW x, x = kid(N, T, p, i),
         NEW M, NEW U, NEW W, NEW ho, NEW y, NEW e, Splits(N, T, V, L, hi, M, U, W, ho, p, i, x, y, e)
  PROVE  Ordered(M, U, W, L \cup {y}, ho)
<1>1. Sound(nd(M, U, W, p), M, ho, p) /\ ho[p] \in Int
  BY SplitParentOrder
<1>2. \A q \in {x, y} : ho[q] \in Int /\ Sound(M[q], M, ho, q)
  BY HalvesOrder
<1>3. x \in L /\ x # p /\ x # Nil /\ up(N, x) = p
  BY KidFacts
<1>4. y \notin L /\ y # Nil
  BY DEF Splits
<1>5. \A q \in {x, y} : nd(M, U, W, q) = M[q]
  BY <1>3, <1>4 DEF nd
<1>6. Patched(N, T, V, L, hi, M, U, W, L \cup {y}, ho, p, {x, y})
  <2>1. \A q \in ((L \cup {y}) \cap {x, y}) \cup {p} : ho[q] \in Int /\ Sound(nd(M, U, W, q), M, ho, q)
    BY ONLY <1>1, <1>2, <1>5
  <2>2. \A q \in L \ {x, y} : M[q].lowest = N[q].lowest /\ ho[q] = hi[q]
    BY DEF Splits
  <2>3. \A q \in (L \cup {y}) \ ({x, y} \cup {p}) : likened(M[q], N[q]) /\ (M[q].left # Nil => N[q].left # Nil)
    BY DEF Splits
  <2>4. p # Nil => U = T /\ W = V /\ ho[Nil] = hi[Nil]
    BY <1>3 DEF Splits
  <2>5. p \notin {x, y} /\ Nil \notin {x, y}
    BY <1>3, <1>4
  <2>6. \A z \in {x, y} \cap L : up(N, z) \in {x, y} \cup {p}
    BY <1>3, <1>4
  <2> QED
    BY ONLY <2>1, <2>2, <2>3, <2>4, <2>5, <2>6, p \in L \cup {Nil} DEF Patched
<1> QED
  BY <1>6, LocalOrder DEF Tree

\* Two nodes in a row, l and r, below one parent, in a tree in order.
Brothers(N, T, V, L, hi, p, i, l, r) ==
  LET n == nd(N, T, V, p)
      s == n.keys[i] IN
  /\ Fine(n, N, hi, hi[p]) /\ Fine(N[l], N, hi, hi[l]) /\ Fine(N[r], N, hi, hi[r])
  /\ n.children = kids(N, T, p) /\ Len(n.children) = deg(N, T, p) /\ Len(n.children) > 0
  /\ i \in 1 .. Len(n.keys) /\ l = n.children[i] /\ r = n.children[i + 1]
  /\ hi[p] \in Int /\ hi[l] \in Int /\ hi[r] \in Int
  /\ N[l].lowest \in Int /\ N[r].lowest \in Int /\ s \in Int
  /\ hi[l] < s /\ s <= N[r].lowest /\ N[r].lowest <= hi[r] /\ hi[r] <= hi[p]
  /\ From(N[r], N, hi, N[r].lowest)
  /\ lft(N, l) # Nil => From(N[l], N, hi, N[l].lowest)
  /\ lft(N, p) # Nil => From(n, N, hi, N[p].lowest)
  /\ i > 1 \/ lft(N, p) # Nil => lft(N, l) # Nil
  /\ lft(N, l) # Nil => N[l].lowest <= hi[l]

\* What the order of a tree says of two such nodes.
LEMMA BrotherOrder ==
  ASSUME NEW N, NEW T, NEW V, NEW L, NEW hi, NEW h, Nil \notin L, Tree(N, T, L, h), Ordered(N, T, V, L, hi),
         NEW p, NEW i, NEW l, NEW r, Mates(N, T, L, p, i, l, r)
  PROVE  Brothers(N, T, V, L, hi, p, i, l, r)
<1> DEFINE n == nd(N, T, V, p)
<1>1. /\ p \in L \cup {Nil} /\ i \in 1 .. deg(N, T, p) /\ i + 1 \in 1 .. deg(N, T, p)
      /\ l = kid(N, T, p, i) /\ r = kid(N, T, p, i + 1)
  BY DEF Mates
<1>2. Kin(N, T, V, L, hi, p, i, l)
  BY <1>1, KinOrder
<1>3. Kin(N, T, V, L, hi, p, i + 1, r)
  <2> DEFINE k == i + 1
  <2>1. k \in 1 .. deg(N, T, p) /\ r = kid(N, T, p, k)
    BY <1>1
  <2> HIDE DEF k
  <2>2. Kin(N, T, V, L, hi, p, k, r)
    BY <1>1, <2>1, KinOrder
  <2> QED
    BY <2>2 DEF k
<1>4. lft(N, r) = l /\ l # Nil
  <2>1. lft(N, r) = l /\ l \in L
    BY MateFacts
  <2> QED
    BY <2>1
<1>5. /\ Fine(n, N, hi, hi[p]) /\ Fine(N[l], N, hi, hi[l])
      /\ n.children = kids(N, T, p) /\ Len(n.children) = deg(N, T, p) /\ Len(n.children) > 0
      /\ i \in 1 .. Len(n.children) /\ l = n.children[i]
      /\ hi[p] \in Int /\ hi[l] \in Int /\ N[l].lowest \in Int
      /\ i < Len(n.children) => hi[l] < n.keys[i]
      /\ lft(N, p) # Nil => From(n, N, hi, N[p].lowest)
      /\ lft(N, l) # Nil => From(N[l], N, hi, N[l].lowest)
      /\ i > 1 \/ lft(N, p) # Nil => lft(N, l) # Nil
      /\ lft(N, l) # Nil => N[l].lowest <= hi[l]
  BY <1>2 DEF Kin
<1>6. /\ Fine(N[r], N, hi, hi[r]) /\ i + 1 \in 1 .. Len(n.children) /\ r = n.children[i + 1]
      /\ hi[r] \in Int /\ hi[r] <= hi[p] /\ N[r].lowest \in Int
      /\ i + 1 > 1 => n.keys[(i + 1) - 1] <= N[r].lowest /\ N[r].lowest <= hi[r]
      /\ lft(N, r) # Nil => From(N[r], N, hi, N[r].lowest)
  BY <1>3 DEF Kin
<1> HIDE DEF n
<1>7. n.leaf \in BOOLEAN /\ Len(n.keys) \in Nat /\ integers(n.keys)
      /\ (n.leaf => Len(n.children) = 0) /\ (~n.leaf => Len(n.children) = Len(n.keys) + 1)
  BY <1>5 DEF Fine, numeric, integers
<1>8. i \in 1 .. Len(n.keys) /\ i < Len(n.children) /\ i + 1 > 1 /\ (i + 1) - 1 = i
  <2> DEFINE a == Len(n.keys)
             c == Len(n.children)
  <2>1. c = a + 1 /\ a \in Nat /\ i \in 1 .. c /\ i + 1 \in 1 .. c
    BY <1>5, <1>6, <1>7
  <2> HIDE DEF a, c
  <2>2. i \in 1 .. a /\ i < c /\ i + 1 > 1 /\ (i + 1) - 1 = i
    BY ONLY <2>1
  <2> QED
    BY <2>2 DEF a, c
<1>9. n.keys[i] \in Int
  BY <1>7, <1>8 DEF integers
<1> QED
  BY <1>4, <1>5, <1>6, <1>8, <1>9 DEF Brothers, n

\* The children of p but l and r stay.
LEMMA MatesElsewhere ==
  ASSUME NEW N, NEW T, NEW V, NEW L, NEW h, Nil \notin L, Tree(N, T, L, h),
         NEW p, NEW i, NEW l, NEW r, Mates(N, T, L, p, i, l, r), NEW hi, NEW M, NEW ho,
         \A q \in L \ {l, r} : M[q].lowest = N[q].lowest /\ ho[q] = hi[q]
  PROVE  Elsewhere(nd(N, T, V, p), N, hi, M, ho, {i, i + 1})
<1> DEFINE n == nd(N, T, V, p)
<1>1. n.children = kids(N, T, p) /\ p \in L \cup {Nil}
  BY DEF nd, crown, kids, Mates
<1> SUFFICES ASSUME NEW j \in 1 .. Len(n.children), j \notin {i, i + 1}
             PROVE  M[n.children[j]].lowest = N[n.children[j]].lowest /\ ho[n.children[j]] = hi[n.children[j]]
  BY DEF Elsewhere
<1>2. n.children[j] = kid(N, T, p, j) /\ j \in 1 .. deg(N, T, p)
  BY <1>1 DEF kid, deg
<1>3. n.children[j] \in L /\ n.children[j] # l /\ n.children[j] # r
  BY <1>1, <1>2 DEF Mates, Tree, Downward
<1> QED
  BY <1>3

\* Children of l and r are outside of what changes when these two share them anew.
LEMMA MatesStems ==
  ASSUME NEW N, NEW T, NEW L, NEW h, Nil \notin L, Tree(N, T, L, h),
         NEW p, NEW i, NEW l, NEW r, Mates(N, T, L, p, i, l, r), NEW m, stems(m, N, T, {l, r})
  PROVE  \A j \in 1 .. Len(m.children) : m.children[j] \in L \ {l, r}
<1>1. l \in L /\ r \in L /\ l # p /\ r # p /\ up(N, l) = p /\ up(N, r) = p
  BY MateFacts
<1> SUFFICES ASSUME NEW j \in 1 .. Len(m.children)
             PROVE  m.children[j] \in L \ {l, r}
  OBVIOUS
<1>2. PICK q \in {l, r} : \E k \in 1 .. deg(N, T, q) : m.children[j] = kid(N, T, q, k)
  BY DEF stems
<1>3. m.children[j] \in L /\ up(N, m.children[j]) = q
  BY <1>1, <1>2 DEF Tree, Downward
<1> QED
  BY <1>1, <1>2, <1>3

\* The neighbours l and r, children i and i + 1 of p, share what they have anew: together they are
\* like u, and r gets what is from e on.
Shares(N, T, V, L, hi, M, ho, p, i, l, r, e, u) ==
  /\ Fine(u, N, hi, hi[r])
  /\ \A z \in Int : z <= N[r].lowest /\ From(N[l], N, hi, z) => From(u, N, hi, z)
  /\ Severed(u, M[l], M[r], e, N, hi, hi[r])
  /\ From(M[r], N, hi, M[r].lowest) /\ e <= M[r].lowest /\ M[r].lowest <= hi[r]
  /\ M[l].lowest = N[l].lowest
  /\ stems(M[l], N, T, {l, r}) /\ stems(M[r], N, T, {l, r})
  /\ ParentMoves(nd(N, T, V, p), nd(M, T, V, p), i, e)
  /\ \A q \in L \ {l, r, p} : likened(M[q], N[q])
  /\ \A q \in L \ {l, r} : M[q].lowest = N[q].lowest
  /\ \A q \in L : M[q].left # Nil => N[q].left # Nil
  /\ ho[l] = e - 1 /\ \A q \in (L \cup {Nil}) \ {l} : ho[q] = hi[q]

\* The lowest key of l stays below what l keeps.
LEMMA SharesFloor ==
  ASSUME NEW N, NEW T, NEW V, NEW L, NEW hi, NEW p, NEW i, NEW l, NEW r, Brothers(N, T, V, L, hi, p, i, l, r),
         NEW M, NEW ho, NEW e, NEW u, Shares(N, T, V, L, hi, M, ho, p, i, l, r, e, u)
  PROVE  /\ e \in Int
         /\ lft(N, l) # Nil => N[l].lowest <= e - 1 /\ From(M[l], N, hi, N[l].lowest)
<1>1. e \in Int
  BY DEF Shares, Severed
<1>2. ASSUME lft(N, l) # Nil
      PROVE  N[l].lowest <= e - 1 /\ From(M[l], N, hi, N[l].lowest)
  <2> DEFINE z == N[l].lowest
  <2>1. z \in Int /\ From(N[l], N, hi, z) /\ N[r].lowest \in Int /\ hi[l] \in Int /\ hi[l] <= N[r].lowest
    <3>1. /\ hi[l] \in Int /\ N[l].lowest \in Int /\ N[r].lowest \in Int /\ nd(N, T, V, p).keys[i] \in Int
          /\ hi[l] < nd(N, T, V, p).keys[i] /\ nd(N, T, V, p).keys[i] <= N[r].lowest
          /\ From(N[l], N, hi, N[l].lowest)
      BY <1>2 DEF Brothers
    <3> QED
      BY <3>1
  <2>2. z <= N[r].lowest
    <3>1. z <= hi[l]
      BY <1>2 DEF Brothers
    <3> QED
      BY <2>1, <3>1
  <2> HIDE DEF z
  <2>3. From(u, N, hi, z)
    BY <2>1, <2>2 DEF Shares
  <2>4. \A w \in Int : From(u, N, hi, w) => From(M[l], N, hi, w) /\ w <= e - 1
    BY DEF Shares, Severed
  <2> QED
    BY <2>1, <2>3, <2>4 DEF z
<1> QED
  BY <1>1, <1>2

\* The parent of two nodes that share what they have anew.
LEMMA ShareParentOrder ==
  ASSUME NEW N, NEW T, NEW V, NEW L, NEW hi, NEW h, Nil \notin L, Tree(N, T, L, h), Ordered(N, T, V, L, hi),
         NEW p, NEW i, NEW l, NEW r, Mates(N, T, L, p, i, l, r),
         NEW M, NEW ho, NEW e, NEW u, Shares(N, T, V, L, hi, M, ho, p, i, l, r, e, u)
  PROVE  Sound(nd(M, T, V, p), M, ho, p) /\ ho[p] \in Int
<1> DEFINE n == nd(N, T, V, p)
           m == nd(M, T, V, p)
<1>1. Brothers(N, T, V, L, hi, p, i, l, r)
  BY BrotherOrder
<1>2. l \in L /\ r \in L /\ l # r /\ l # p /\ r # p /\ p \in L \cup {Nil}
  <2>1. l \in L /\ r \in L /\ l # r /\ l # p /\ r # p
    BY MateFacts
  <2>2. p \in L \cup {Nil}
    BY DEF Mates
  <2> QED
    BY ONLY <2>1, <2>2
<1>3. ParentMoves(n, m, i, e)
  BY DEF Shares
<1>4. Elsewhere(n, N, hi, M, ho, {i, i + 1})
  <2>1. \A q \in L \ {l, r} : M[q].lowest = N[q].lowest /\ ho[q] = hi[q]
    BY DEF Shares
  <2> QED
    BY <2>1, MatesElsewhere
<1>5. e \in Int /\ (lft(N, l) # Nil => N[l].lowest <= e - 1)
  BY <1>1, SharesFloor
<1>6. /\ hi[p] \in Int /\ Fine(n, N, hi, hi[p]) /\ i \in 1 .. Len(n.keys) /\ l = n.children[i] /\ r = n.children[i + 1]
      /\ (lft(N, p) # Nil => From(n, N, hi, N[p].lowest))
      /\ (i > 1 \/ lft(N, p) # Nil => lft(N, l) # Nil)
  BY <1>1 DEF Brothers
<1>7. /\ M[l].lowest = N[l].lowest /\ ho[l] = e - 1 /\ ho[r] = hi[r]
      /\ M[r].lowest \in Int /\ e <= M[r].lowest /\ M[r].lowest <= ho[r]
  BY <1>2 DEF Shares, From
<1>8. ho[p] = hi[p] /\ (lft(M, p) # Nil => lft(N, p) # Nil /\ M[p].lowest = N[p].lowest)
  BY <1>2 DEF Shares, lft
<1> HIDE DEF n, m
<1>9. Fine(m, M, ho, hi[p]) /\ ((i = 1 => N[l].lowest <= e - 1) => keepsFloor(n, N, hi, m, M, ho))
  <2> DEFINE b == hi[p]
  <2>1. b \in Int /\ Fine(n, N, hi, b)
    BY <1>6
  <2>2. i > 1 => N[l].lowest <= e - 1
    BY <1>5, <1>6
  <2>3. i \in 1 .. Len(n.keys) /\ l = n.children[i] /\ r = n.children[i + 1] /\ e \in Int
    BY <1>5, <1>6
  <2> HIDE DEF b
  <2>4. Fine(m, M, ho, b)
    BY ONLY <1>3, <1>4, <1>7, <2>1, <2>2, <2>3, ParentMoveOrder
  <2>5. (i = 1 => N[l].lowest <= e - 1) => keepsFloor(n, N, hi, m, M, ho)
    BY ONLY <1>3, <1>4, <1>7, <2>1, <2>2, <2>3, ParentMoveOrder
  <2> QED
    BY <2>4, <2>5 DEF b
<1>10. lft(M, p) # Nil => From(m, M, ho, M[p].lowest)
  BY <1>5, <1>6, <1>8, <1>9 DEF keepsFloor
<1> QED
  BY <1>6, <1>8, <1>9, <1>10 DEF Sound, m

\* The two neighbours.
LEMMA SharersOrder ==
  ASSUME NEW N, NEW T, NEW V, NEW L, NEW hi, NEW h, Nil \notin L, Tree(N, T, L, h), Ordered(N, T, V, L, hi),
         NEW p, NEW i, NEW l, NEW r, Mates(N, T, L, p, i, l, r),
         NEW M, NEW ho, NEW e, NEW u, Shares(N, T, V, L, hi, M, ho, p, i, l, r, e, u)
  PROVE  \A q \in {l, r} : ho[q] \in Int /\ Sound(M[q], M, ho, q)
<1>1. Brothers(N, T, V, L, hi, p, i, l, r)
  BY BrotherOrder
<1>2. l \in L /\ r \in L /\ l # r
  BY MateFacts
<1>3. \A q \in L \ {l, r} : M[q].lowest = N[q].lowest /\ ho[q] = hi[q]
  BY DEF Shares
<1>4. \A q \in {l, r} : \A j \in 1 .. Len(M[q].children) : M[q].children[j] \in L \ {l, r}
  <2> SUFFICES ASSUME NEW q \in {l, r}
               PROVE  \A j \in 1 .. Len(M[q].children) : M[q].children[j] \in L \ {l, r}
    OBVIOUS
  <2> DEFINE o == M[q]
  <2>1. stems(o, N, T, {l, r})
    BY DEF Shares
  <2> HIDE DEF o
  <2>2. \A j \in 1 .. Len(o.children) : o.children[j] \in L \ {l, r}
    BY <2>1, MatesStems
  <2> QED
    BY <2>2 DEF o
<1>5. e \in Int /\ (lft(N, l) # Nil => From(M[l], N, hi, N[l].lowest))
  BY <1>1, SharesFloor
<1>6. /\ Fine(M[l], N, hi, e - 1) /\ Fine(M[r], N, hi, hi[r]) /\ From(M[r], N, hi, M[r].lowest)
      /\ ho[l] = e - 1 /\ ho[r] = hi[r] /\ M[l].lowest = N[l].lowest
  BY <1>2 DEF Shares, Severed
<1>7. hi[r] \in Int
  BY <1>1 DEF Brothers
<1>8. lft(M, l) # Nil => From(M[l], N, hi, M[l].lowest)
  BY <1>2, <1>5, <1>6 DEF lft, Shares
<1>9. /\ Fine(M[l], M, ho, e - 1)
      /\ \A lo : From(M[l], N, hi, lo) => From(M[l], M, ho, lo)
  <2> DEFINE o == M[l]
  <2>1. \A j \in 1 .. Len(o.children) : o.children[j] \in L \ {l, r}
    BY <1>4
  <2> DEFINE d == e - 1
  <2>2. Fine(o, N, hi, d)
    BY <1>6
  <2> HIDE DEF o, d
  <2>3. /\ Fine(o, M, ho, d) /\ \A lo : From(o, N, hi, lo) => From(o, M, ho, lo)
    BY ONLY <1>3, <2>1, <2>2, FineOutside
  <2> QED
    BY <2>3 DEF o, d
<1>10. /\ Fine(M[r], M, ho, hi[r])
       /\ \A lo : From(M[r], N, hi, lo) => From(M[r], M, ho, lo)
  <2> DEFINE o == M[r]
  <2>1. \A j \in 1 .. Len(o.children) : o.children[j] \in L \ {l, r}
    BY <1>4
  <2>2. Fine(o, N, hi, hi[r])
    BY <1>6
  <2> HIDE DEF o
  <2>3. /\ Fine(o, M, ho, hi[r]) /\ \A lo : From(o, N, hi, lo) => From(o, M, ho, lo)
    BY ONLY <1>3, <2>1, <2>2, FineOutside
  <2> QED
    BY <2>3 DEF o
<1>11. ho[l] \in Int /\ Sound(M[l], M, ho, l)
  BY ONLY <1>5, <1>6, <1>8, <1>9 DEF Sound
<1>12. ho[r] \in Int /\ Sound(M[r], M, ho, r)
  BY ONLY <1>6, <1>7, <1>10 DEF Sound
<1> QED
  BY ONLY <1>11, <1>12

\* Sharing anew keeps the order.
LEMMA ShareOrder ==
  ASSUME NEW N, NEW T, NEW V, NEW L, NEW hi, NEW h, Nil \notin L, Tree(N, T, L, h), Ordered(N, T, V, L, hi),
         NEW p, NEW i, NEW l, NEW r, Mates(N, T, L, p, i, l, r),
         NEW M, NEW ho, NEW e, NEW u, Shares(N, T, V, L, hi, M, ho, p, i, l, r, e, u)
  PROVE  Ordered(M, T, V, L, ho)
<1>1. Sound(nd(M, T, V, p), M, ho, p) /\ ho[p] \in Int
  BY ShareParentOrder
<1>2. \A q \in {l, r} : ho[q] \in Int /\ Sound(M[q], M, ho, q)
  BY SharersOrder
<1>3. l \in L /\ r \in L /\ l # p /\ r # p /\ up(N, l) = p /\ up(N, r) = p /\ p \in L \cup {Nil}
  <2>1. l \in L /\ r \in L /\ l # p /\ r # p /\ up(N, l) = p /\ up(N, r) = p
    BY MateFacts
  <2>2. p \in L \cup {Nil}
    BY DEF Mates
  <2> QED
    BY ONLY <2>1, <2>2
<1>4. \A q \in {l, r} : nd(M, T, V, q) = M[q]
  BY <1>3 DEF nd
<1>5. Patched(N, T, V, L, hi, M, T, V, L, ho, p, {l, r})
  <2>1. \A q \in (L \cap {l, r}) \cup {p} : ho[q] \in Int /\ Sound(nd(M, T, V, q), M, ho, q)
    BY ONLY <1>1, <1>2, <1>4
  <2>2. \A q \in L \ {l, r} : M[q].lowest = N[q].lowest /\ ho[q] = hi[q]
    BY DEF Shares
  <2>3. \A q \in L \ ({l, r} \cup {p}) : likened(M[q], N[q]) /\ (M[q].left # Nil => N[q].left # Nil)
    BY DEF Shares
  <2>4. ho[Nil] = hi[Nil]
    BY <1>3 DEF Shares
  <2>5. p \notin {l, r} /\ Nil \notin {l, r}
    BY <1>3
  <2>6. \A z \in {l, r} \cap L : up(N, z) \in {l, r} \cup {p}
    BY <1>3
  <2> QED
    BY ONLY <2>1, <2>2, <2>3, <2>4, <2>5, <2>6, <1>3 DEF Patched
<1> QED
  BY <1>5, LocalOrder DEF Tree

\* Node r has moved into its left neighbour l, child i of p.
Unites(N, T, V, L, hi, M, ho, p, i, l, r) ==
  /\ Fine(M[l], N, hi, hi[r])
  /\ lft(N, l) # Nil => From(M[l], N, hi, N[l].lowest)
  /\ M[l].lowest = N[l].lowest
  /\ stems(M[l], N, T, {l, r})
  /\ ParentDrops(nd(N, T, V, p), nd(M, T, V, p), i)
  /\ \A q \in L \ {l, r, p} : likened(M[q], N[q])
  /\ \A q \in L \ {l, r} : M[q].lowest = N[q].lowest
  /\ \A q \in L \ {r} : M[q].left # Nil => N[q].left # Nil
  /\ ho[l] = hi[r] /\ \A q \in (L \cup {Nil}) \ {l} : ho[q] = hi[q]

\* The parent of two nodes that became one.
LEMMA UniteParentOrder ==
  ASSUME NEW N, NEW T, NEW V, NEW L, NEW hi, NEW h, Nil \notin L, Tree(N, T, L, h), Ordered(N, T, V, L, hi),
         NEW p, NEW i, NEW l, NEW r, Mates(N, T, L, p, i, l, r),
         NEW M, NEW ho, Unites(N, T, V, L, hi, M, ho, p, i, l, r)
  PROVE  Sound(nd(M, T, V, p), M, ho, p) /\ ho[p] \in Int
<1> DEFINE n == nd(N, T, V, p)
           m == nd(M, T, V, p)
<1>1. Brothers(N, T, V, L, hi, p, i, l, r)
  BY BrotherOrder
<1>2. l \in L /\ r \in L /\ l # r /\ l # p /\ r # p /\ p \in L \cup {Nil}
  <2>1. l \in L /\ r \in L /\ l # r /\ l # p /\ r # p
    BY MateFacts
  <2>2. p \in L \cup {Nil}
    BY DEF Mates
  <2> QED
    BY ONLY <2>1, <2>2
<1>3. ParentDrops(n, m, i)
  BY DEF Unites
<1>4. Elsewhere(n, N, hi, M, ho, {i, i + 1})
  <2>1. \A q \in L \ {l, r} : M[q].lowest = N[q].lowest /\ ho[q] = hi[q]
    BY DEF Unites
  <2> QED
    BY <2>1, MatesElsewhere
<1>6. /\ hi[p] \in Int /\ Fine(n, N, hi, hi[p]) /\ i \in 1 .. Len(n.keys) /\ l = n.children[i] /\ r = n.children[i + 1]
      /\ (lft(N, p) # Nil => From(n, N, hi, N[p].lowest))
  BY <1>1 DEF Brothers
<1>7. M[l].lowest = N[l].lowest /\ ho[l] = hi[r]
  BY DEF Unites
<1>8. ho[p] = hi[p] /\ (lft(M, p) # Nil => lft(N, p) # Nil /\ M[p].lowest = N[p].lowest)
  BY <1>2 DEF Unites, lft
<1> HIDE DEF n, m
<1>9. Fine(m, M, ho, hi[p]) /\ keepsFloor(n, N, hi, m, M, ho)
  <2> DEFINE b == hi[p]
  <2>1. b \in Int /\ Fine(n, N, hi, b)
    BY <1>6
  <2>3. i \in 1 .. Len(n.keys) /\ l = n.children[i] /\ r = n.children[i + 1]
    BY <1>6
  <2> HIDE DEF b
  <2>4. Fine(m, M, ho, b) /\ keepsFloor(n, N, hi, m, M, ho)
    BY ONLY <1>3, <1>4, <1>7, <2>1, <2>3, ParentDropOrder
  <2> QED
    BY <2>4 DEF b
<1>10. lft(M, p) # Nil => From(m, M, ho, M[p].lowest)
  BY <1>6, <1>8, <1>9 DEF keepsFloor
<1> QED
  BY <1>6, <1>8, <1>9, <1>10 DEF Sound, m

\* The node that has taken in its neighbour.
LEMMA UnitedOrder ==
  ASSUME NEW N, NEW T, NEW V, NEW L, NEW hi, NEW h, Nil \notin L, Tree(N, T, L, h), Ordered(N, T, V, L, hi),
         NEW p, NEW i, NEW l, NEW r, Mates(N, T, L, p, i, l, r),
         NEW M, NEW ho, Unites(N, T, V, L, hi, M, ho, p, i, l, r)
  PROVE  ho[l] \in Int /\ Sound(M[l], M, ho, l)
<1>1. Brothers(N, T, V, L, hi, p, i, l, r)
  BY BrotherOrder
<1>2. l \in L /\ r \in L /\ l # r
  BY MateFacts
<1>3. \A q \in L \ {l, r} : M[q].lowest = N[q].lowest /\ ho[q] = hi[q]
  BY DEF Unites
<1>4. \A j \in 1 .. Len(M[l].children) : M[l].children[j] \in L \ {l, r}
  <2> DEFINE o == M[l]
  <2>1. stems(o, N, T, {l, r})
    BY DEF Unites
  <2> HIDE DEF o
  <2>2. \A j \in 1 .. Len(o.children) : o.children[j] \in L \ {l, r}
    BY <2>1, MatesStems
  <2> QED
    BY <2>2 DEF o
<1>6. /\ Fine(M[l], N, hi, hi[r]) /\ ho[l] = hi[r] /\ M[l].lowest = N[l].lowest
      /\ (lft(N, l) # Nil => From(M[l], N, hi, N[l].lowest))
  BY DEF Unites
<1>7. hi[r] \in Int
  BY <1>1 DEF Brothers
<1>8. lft(M, l) # Nil => From(M[l], N, hi, M[l].lowest)
  BY <1>2, <1>6 DEF lft, Unites
<1>9. /\ Fine(M[l], M, ho, hi[r])
      /\ \A lo : From(M[l], N, hi, lo) => From(M[l], M, ho, lo)
  <2> DEFINE o == M[l]
  <2>1. \A j \in 1 .. Len(o.children) : o.children[j] \in L \ {l, r}
    BY <1>4
  <2>2. Fine(o, N, hi, hi[r])
    BY <1>6
  <2> HIDE DEF o
  <2>3. /\ Fine(o, M, ho, hi[r]) /\ \A lo : From(o, N, hi, lo) => From(o, M, ho, lo)
    BY ONLY <1>3, <2>1, <2>2, FineOutside
  <2> QED
    BY <2>3 DEF o
<1> QED
  BY ONLY <1>6, <1>7, <1>8, <1>9 DEF Sound

\* Merging keeps the order.
LEMMA UniteOrder ==
  ASSUME NEW N, NEW T, NEW V, NEW L, NEW hi, NEW h, Nil \notin L, Tree(N, T, L, h), Ordered(N, T, V, L, hi),
         NEW p, NEW i, NEW l, NEW r, Mates(N, T, L, p, i, l, r),
         NEW M, NEW ho, Unites(N, T, V, L, hi, M, ho, p, i, l, r)
  PROVE  Ordered(M, T, V, L \ {r}, ho)
<1>1. Sound(nd(M, T, V, p), M, ho, p) /\ ho[p] \in Int
  BY UniteParentOrder
<1>2. ho[l] \in Int /\ Sound(M[l], M, ho, l)
  BY UnitedOrder
<1>3. l \in L /\ r \in L /\ l # r /\ l # p /\ r # p /\ up(N, l) = p /\ up(N, r) = p /\ p \in L \cup {Nil}
  <2>1. l \in L /\ r \in L /\ l # r /\ l # p /\ r # p /\ up(N, l) = p /\ up(N, r) = p
    BY MateFacts
  <2>2. p \in L \cup {Nil}
    BY DEF Mates
  <2> QED
    BY ONLY <2>1, <2>2
<1>4. nd(M, T, V, l) = M[l]
  BY <1>3 DEF nd
<1>5. Patched(N, T, V, L, hi, M, T, V, L \ {r}, ho, p, {l, r})
  <2>1. \A q \in ((L \ {r}) \cap {l, r}) \cup {p} : ho[q] \in Int /\ Sound(nd(M, T, V, q), M, ho, q)
    BY ONLY <1>1, <1>2, <1>4
  <2>2. \A q \in L \ {l, r} : M[q].lowest = N[q].lowest /\ ho[q] = hi[q]
    BY DEF Unites
  <2>3. \A q \in (L \ {r}) \ ({l, r} \cup {p}) : likened(M[q], N[q]) /\ (M[q].left # Nil => N[q].left # Nil)
    BY DEF Unites
  <2>4. ho[Nil] = hi[Nil]
    BY <1>3 DEF Unites
  <2>5. p \notin {l, r} /\ Nil \notin {l, r}
    BY <1>3
  <2>6. \A z \in {l, r} \cap L : up(N, z) \in {l, r} \cup {p}
    BY <1>3
  <2> QED
    BY ONLY <2>1, <2>2, <2>3, <2>4, <2>5, <2>6, <1>3 DEF Patched
<1> QED
  BY <1>5, LocalOrder DEF Tree

-----------------------------------------------------------------------------
(* Search positions *)

\* A set of places with all places before each of them is an initial segment.
LEMMA InitialSegment ==
  ASSUME NEW n \in Nat, NEW P, P \subseteq 1 .. n, \A i, j \in 1 .. n : j \in P /\ i < j => i \in P
  PROVE  Cardinality(P) \in 0 .. n /\ P = 1 .. Cardinality(P)
<1> DEFINE B == {m \in Nat : \A j \in P : j <= m}
<1>1. PICK m \in B : \A k \in B : m <= k
  <2>1. n \in B
    OBVIOUS
  <2> QED
    BY <2>1, LeastNumber
<1>2. m \in Nat /\ \A j \in P : j <= m
  OBVIOUS
<1>3. m <= n
  BY <1>1
<1>4. m = 0 \/ m \in P
  <2> SUFFICES ASSUME m # 0, m \notin P
               PROVE  FALSE
    OBVIOUS
  <2>1. m - 1 \in Nat /\ \A j \in P : j <= m - 1
    BY <1>2
  <2>2. m - 1 \in B
    BY <2>1
  <2> QED
    BY <1>1, <1>2, <2>2
<1>5. P = 1 .. m
  <2>1. ASSUME NEW j \in P
        PROVE  j \in 1 .. m
    <3>1. j \in 1 .. n /\ j <= m
      BY <1>2, <2>1
    <3> QED
      BY <1>2, <3>1
  <2>2. ASSUME NEW j \in 1 .. m
        PROVE  j \in P
    <3>1. m \in P /\ j \in 1 .. n /\ m \in 1 .. n /\ (j = m \/ j < m)
      BY <1>2, <1>3, <1>4, <2>2
    <3> QED
      BY <3>1
  <2> QED
    BY ONLY <2>1, <2>2
<1>6. Cardinality(1 .. m) = m
  BY <1>2, FS_Interval
<1> QED
  BY <1>2, <1>3, <1>5, <1>6

\* Keys are integers.
LEMMA KeyNumbers == KeyType \subseteq Int /\ Key \subseteq Int
BY KeyAssumption DEF KeyType, NoKey

\* lower_bound passes over the lower keys, upper_bound over those that are not higher.
LEMMA BoundPlaces ==
  ASSUME NEW s \in Seq(KeyType), ascending(s), NEW k \in Int
  PROVE  /\ lowerBound(s, k) \in 0 .. Len(s) /\ \A j \in 1 .. Len(s) : s[j] < k <=> j <= lowerBound(s, k)
         /\ upperBound(s, k) \in 0 .. Len(s) /\ \A j \in 1 .. Len(s) : s[j] <= k <=> j <= upperBound(s, k)
<1> DEFINE n == Len(s)
<1>1. n \in Nat /\ DOMAIN s = 1 .. n /\ \A i \in 1 .. n : s[i] \in Int
  <2>1. n \in Nat /\ DOMAIN s = 1 .. n
    OBVIOUS
  <2>2. \A i \in 1 .. n : s[i] \in KeyType
    OBVIOUS
  <2> QED
    BY ONLY <2>1, <2>2, KeyNumbers
<1>2. \A i, j \in 1 .. n : i < j => s[i] < s[j]
  BY DEF ascending
<1> HIDE DEF n
<1>3. lowerBound(s, k) \in 0 .. n /\ \A j \in 1 .. n : s[j] < k <=> j <= lowerBound(s, k)
  <2> DEFINE P == {i \in 1 .. n : s[i] < k}
  <2>1. P \subseteq 1 .. n /\ \A i, j \in 1 .. n : j \in P /\ i < j => i \in P
    BY <1>1, <1>2
  <2>2. lowerBound(s, k) = Cardinality(P)
    BY <1>1 DEF lowerBound
  <2>3. \A j \in 1 .. n : s[j] < k <=> j \in P
    OBVIOUS
  <2> HIDE DEF P
  <2>4. Cardinality(P) \in 0 .. n /\ P = 1 .. Cardinality(P)
    BY <1>1, <2>1, InitialSegment
  <2> QED
    BY <1>1, <2>2, <2>3, <2>4
<1>4. upperBound(s, k) \in 0 .. n /\ \A j \in 1 .. n : s[j] <= k <=> j <= upperBound(s, k)
  <2> DEFINE P == {i \in 1 .. n : s[i] <= k}
  <2>1. P \subseteq 1 .. n /\ \A i, j \in 1 .. n : j \in P /\ i < j => i \in P
    BY <1>1, <1>2
  <2>2. upperBound(s, k) = Cardinality(P)
    BY <1>1 DEF upperBound
  <2>3. \A j \in 1 .. n : s[j] <= k <=> j \in P
    OBVIOUS
  <2> HIDE DEF P
  <2>4. Cardinality(P) \in 0 .. n /\ P = 1 .. Cardinality(P)
    BY <1>1, <2>1, InitialSegment
  <2> QED
    BY <1>1, <2>2, <2>3, <2>4
<1> QED
  BY <1>3, <1>4 DEF n

\* upper_bound finds child i + 1 for the keys from pivot i on and below the next pivot.
LEMMA BetweenPivots ==
  ASSUME NEW s \in Seq(KeyType), ascending(s), NEW k \in Int, NEW i \in 0 .. Len(s)
  PROVE  upperBound(s, k) = i <=> (i > 0 => s[i] <= k) /\ (i < Len(s) => k < s[i + 1])
<1> DEFINE n == Len(s)
           b == upperBound(s, k)
<1>1. n \in Nat /\ b \in 0 .. n /\ i \in 0 .. n /\ \A j \in 1 .. n : s[j] \in Int /\ (s[j] <= k <=> j <= b)
  <2>1. n \in Nat /\ \A j \in 1 .. n : s[j] \in KeyType
    OBVIOUS
  <2>2. b \in 0 .. n /\ \A j \in 1 .. n : s[j] <= k <=> j <= b
    BY BoundPlaces
  <2> QED
    BY <2>1, <2>2, KeyNumbers
<1> HIDE DEF n, b
<1>2. (i > 0 => s[i] <= k) <=> i <= b
  <2>1. CASE i = 0
    BY <1>1, <2>1
  <2>2. CASE i # 0
    <3>1. i \in 1 .. n /\ i > 0
      BY <1>1, <2>2
    <3> QED
      BY <1>1, <3>1
  <2> QED
    BY ONLY <2>1, <2>2
<1>3. (i < n => k < s[i + 1]) <=> b <= i
  <2>1. CASE i = n
    BY <1>1, <2>1
  <2>2. CASE i # n
    <3>1. i + 1 \in 1 .. n /\ i < n
      BY <1>1, <2>2
    <3>2. s[i + 1] \in Int /\ (s[i + 1] <= k <=> i + 1 <= b)
      BY <1>1, <3>1
    <3> QED
      BY <1>1, <3>1, <3>2
  <2> QED
    BY ONLY <2>1, <2>2
<1>4. b = i <=> i <= b /\ b <= i
  BY <1>1
<1> QED
  BY ONLY <1>2, <1>3, <1>4 DEF n, b

=============================================================================
