------------------------------ MODULE BeTreeShape_proofs ------------------------------
(***************************************************************************)
(* The B-epsilon-tree stays a tree: every node that is allocated, and not  *)
(* the abandoned child of a collapsed root, hangs in exactly one place,    *)
(* names its parent and its neighbours rightly, has its share of keys, and *)
(* is on the level of its siblings, in every state of every call. The      *)
(* invariant, ShapeInv, reads the nodes as the caller will leave them: a   *)
(* split or a merge is known to the node that did it before its parent     *)
(* hears of it.                                                            *)
(***************************************************************************)
EXTENDS BeTree_proofs

-----------------------------------------------------------------------------
(* The invariant *)

\* The fewest keys that checkUnderflow tolerates in a node.
least == (Fanout - 1) \div 2

\* A call returns into a flush that has not heard of it yet.
pending == pc = "return" /\ stack # << >>

\* The table of nodes once the flush of frame f has taken over what its child reports, c.
repaired(N, c, f) ==
  [id \in NodeId |-> IF id \in gone(c) THEN NewLeaf
                     ELSE IF id = f.node THEN adjusted(N[id], f.idx, c)
                     ELSE N[id]]

\* Nodes and tops as the caller will leave them: a node that was split off hangs in no parent
\* until the caller adjusts itself, and a node that was merged away still does. What is pending
\* is counted as done, so that the tree is one in every state.
settled == IF pending THEN repaired(nodes, change, frame) ELSE nodes
live == (IF pending THEN allocated \ gone(change) ELSE allocated) \ orphans
tops == IF rootNode = Nil THEN << >>
        ELSE IF pc = "return" /\ stack = << >> /\ change.type = "Split" THEN <<rootNode, change.node>>
        ELSE <<rootNode>>

\* The flush whose child has reported a restructuring: its node may have one key too many, or
\* one too few, until it is restructured itself.
mending == pc \in {"flush", "return"} /\ stack # << >> /\ err # "Success"
unsettled == IF mending THEN {frame.node} ELSE {}

\* A node has room for a key and its share of keys, unless it is the root, or the one leaf below
\* a root without keys.
filled(N, T, id) ==
  /\ size(N[id]) < Fanout
  /\ \/ T = <<id>>
     \/ size(N[id]) >= least
     \/ N[id].leaf /\ T = <<N[id].parent>> /\ size(N[N[id].parent]) = 0

\* A node that is to be restructured is off by one key.
nearlyFilled(N, T, id) ==
  size(N[id]) <= Fanout /\ (size(N[id]) + 1 >= least \/ T = <<id>>)

\* A root without keys has nothing but a leaf below it.
branches(N, id) ==
  least >= 1 /\ size(N[id]) = 0 => \A i \in 1 .. Len(N[id].children) : N[N[id].children[i]].leaf

\* The frame's child is where the frame says that it is.
current(N, f) == f.idx + 1 \in DOMAIN N[f.node].children /\ N[f.node].children[f.idx + 1] = f.child

\* Every node is filled, but for the node that is being restructured.
Sizes ==
  /\ \A id \in live \ unsettled : filled(settled, tops, id)
  /\ \A id \in unsettled : nearlyFilled(settled, tops, id)
  /\ \/ rootNode = Nil \/ (pc = "return" /\ stack = << >>) \/ rootNode \in unsettled
     \/ branches(settled, rootNode)

\* A leaf has no children.
Childless == \A id \in NodeId : nodes[id].leaf => nodes[id].children = << >>

\* The stack is a path of the tree, from the root down.
Frames(h) ==
  /\ \A j \in 1 .. Len(stack) :
       /\ stack[j].node \in live /\ ~settled[stack[j].node].leaf
       /\ h[stack[j].node] + j = h[Nil]
       /\ stack[j].out.type = "None" /\ stack[j].out.node = Nil
  /\ \A j \in 1 .. (Len(stack) - 1) : stack[j].child = stack[j + 1].node /\ current(settled, stack[j])

\* What the control state promises: at what point a call knows its node from its frame, and
\* when it has something to report.
Flow ==
  /\ orphans \subseteq allocated
  /\ pc = "idle" => stack = << >> /\ change.type = "None"
  /\ pc = "apply" =>
       /\ change.type = "None" /\ change.node = Nil
       /\ stack = << >> => call.node = rootNode
       /\ stack # << >> => call.node = frame.child /\ call.idx = frame.idx /\ current(settled, frame)
  /\ pc = "flush" =>
       /\ err = "Success" => change.type = "None" /\ change.node = Nil
       /\ frame.batch # {} => err = "Success" /\ current(settled, frame)
  /\ pc = "return" =>
       /\ change.type # "None" => err # "Success"
       /\ change.type = "None" => change.node = Nil
       /\ gone(change) \cap orphans = {}
       /\ stack = << >> => change.type \in {"None", "Split"}
       /\ stack # << >> /\ err = "Success" => current(settled, frame)

\* The tree and the stack in it, with h the levels.
Shape(h) == h \in [NodeId \cup {Nil} -> Nat] /\ Tree(settled, tops, live, h) /\ Frames(h)

\* The invariant of the tree's shape.
ShapeInv == TypeInv /\ Childless /\ Flow /\ Sizes /\ \E h : Shape(h)

-----------------------------------------------------------------------------
(* Vectors and the running node *)

\* The first entries of a vector, one by one.
LEMMA TakeItems ==
  ASSUME NEW S, NEW s \in Seq(S), NEW i \in 0 .. Len(s)
  PROVE  /\ take(s, i) \in Seq(S) /\ Len(take(s, i)) = i
         /\ \A j \in 1 .. i : take(s, i)[j] = s[j]
<1>1. /\ 1 \in Int /\ i \in Int /\ i >= 0 /\ \A j \in 1 .. i : s[j] \in S
      /\ 1 <= i => i - 1 + 1 = i
      /\ ~(1 <= i) => i = 0
      /\ i - 1 + 1 = i /\ \A j \in 1 .. i : 1 + j - 1 = j
  OBVIOUS
<1>2. /\ \A j \in 1 .. i - 1 + 1 : SubSeq(s, 1, i)[j] = s[1 + j - 1]
  BY ONLY <1>1, SubSeqProperties
<1>3. \A j \in 1 .. i : SubSeq(s, 1, i)[j] = s[j]
  BY ONLY <1>1, <1>2
<1> QED BY <1>3, TakeType DEF take

\* The entries after the first i, one by one.
LEMMA DropItems ==
  ASSUME NEW S, NEW s \in Seq(S), NEW i \in 0 .. Len(s)
  PROVE  /\ drop(s, i) \in Seq(S) /\ Len(drop(s, i)) = Len(s) - i
         /\ \A j \in 1 .. (Len(s) - i) : drop(s, i)[j] = s[i + j]
<1>1. /\ i + 1 \in Int /\ Len(s) \in Int /\ \A j \in (i + 1) .. Len(s) : s[j] \in S
      /\ Len(s) - (i + 1) + 1 = Len(s) - i
      /\ \A j \in 1 .. (Len(s) - i) : (i + 1) + j - 1 = i + j
  OBVIOUS
<1>2. \A j \in 1 .. Len(s) - (i + 1) + 1 : SubSeq(s, i + 1, Len(s))[j] = s[(i + 1) + j - 1]
  BY ONLY <1>1, SubSeqProperties
<1>3. \A j \in 1 .. (Len(s) - i) : SubSeq(s, i + 1, Len(s))[j] = s[i + j]
  BY ONLY <1>1, <1>2
<1> QED BY <1>3, DropType DEF drop

\* A vector without one of its entries, one by one.
LEMMA RemoveAtItems ==
  ASSUME NEW S, NEW s \in Seq(S), NEW i \in 1 .. Len(s)
  PROVE  /\ RemoveAt(s, i) \in Seq(S) /\ Len(RemoveAt(s, i)) = Len(s) - 1
         /\ \A j \in 1 .. (i - 1) : RemoveAt(s, i)[j] = s[j]
         /\ \A j \in i .. (Len(s) - 1) : RemoveAt(s, i)[j] = s[j + 1]
<1> DEFINE front == take(s, i - 1)
           back  == drop(s, i)
<1>1. i - 1 \in 0 .. Len(s) /\ i \in 0 .. Len(s) /\ Len(s) \in Nat
  OBVIOUS
<1>2. front \in Seq(S) /\ Len(front) = i - 1 /\ \A j \in 1 .. (i - 1) : front[j] = s[j]
  BY <1>1, TakeItems
<1>3. back \in Seq(S) /\ Len(back) = Len(s) - i /\ \A j \in 1 .. (Len(s) - i) : back[j] = s[i + j]
  BY <1>1, DropItems
<1>4. RemoveAt(s, i) = front \o back
  BY DEF RemoveAt, take, drop
<1> HIDE DEF front, back
<1>5. \A j \in 1 .. Len(front) + Len(back) :
        (front \o back)[j] = IF j <= Len(front) THEN front[j] ELSE back[j - Len(front)]
  BY <1>2, <1>3, ConcatProperties
<1>6. \A j \in 1 .. (i - 1) : RemoveAt(s, i)[j] = s[j]
  BY <1>1, <1>2, <1>3, <1>4, <1>5
<1>7. ASSUME NEW j \in i .. (Len(s) - 1) PROVE RemoveAt(s, i)[j] = s[j + 1]
  <2>1. j - (i - 1) \in 1 .. (Len(s) - i) /\ i + (j - (i - 1)) = j + 1 /\ ~(j <= i - 1)
        /\ j \in 1 .. Len(front) + Len(back)
    BY <1>1, <1>2, <1>3
  <2> QED BY <2>1, <1>2, <1>3, <1>4, <1>5
<1> QED
  BY <1>6, <1>7, RemoveAtType

\* Inserting an entry into a vector.
LEMMA InsertAtItems ==
  ASSUME NEW S, NEW s \in Seq(S), NEW i \in 1 .. (Len(s) + 1), NEW e \in S
  PROVE  Extends(InsertAt(s, i, e), s, i, e)
<1> DEFINE head == take(s, i - 1)
           front == head \o <<e>>
           back  == drop(s, i - 1)
<1>1. i - 1 \in 0 .. Len(s) /\ Len(s) \in Nat /\ <<e>> \in Seq(S) /\ Len(<<e>>) = 1 /\ <<e>>[1] = e
  OBVIOUS
<1>2. head \in Seq(S) /\ Len(head) = i - 1 /\ \A j \in 1 .. (i - 1) : head[j] = s[j]
  BY <1>1, TakeItems
<1>3. back \in Seq(S) /\ Len(back) = Len(s) - (i - 1)
      /\ \A j \in 1 .. (Len(s) - (i - 1)) : back[j] = s[(i - 1) + j]
  BY <1>1, DropItems
<1>4. InsertAt(s, i, e) = front \o back
  <2>1. (i - 1) + 1 = i
    OBVIOUS
  <2>2. InsertAt(s, i, e) = (SubSeq(s, 1, i - 1) \o <<e>>) \o SubSeq(s, i, Len(s))
    BY DEF InsertAt
  <2>3. back = SubSeq(s, i, Len(s)) /\ head = SubSeq(s, 1, i - 1)
    BY <2>1 DEF take, drop
  <2> QED BY <2>2, <2>3
<1> HIDE DEF head, back
<1>5. /\ front \in Seq(S) /\ Len(front) = i
      /\ \A j \in 1 .. (i - 1) : front[j] = head[j]
      /\ front[i] = e
  <2>1. /\ front \in Seq(S) /\ Len(front) = Len(head) + 1
        /\ \A j \in 1 .. Len(head) + 1 : front[j] = IF j <= Len(head) THEN head[j] ELSE <<e>>[j - Len(head)]
    BY <1>1, <1>2, ConcatProperties
  <2>2. i \in 1 .. Len(head) + 1 /\ ~(i <= Len(head)) /\ i - Len(head) = 1 /\ Len(head) + 1 = i
    BY <1>1, <1>2
  <2>3. \A j \in 1 .. (i - 1) : j \in 1 .. Len(head) + 1 /\ j <= Len(head)
    BY <1>1, <1>2
  <2> HIDE DEF front
  <2>4. front[i] = <<e>>[1]
    BY <2>1, <2>2
  <2>5. \A j \in 1 .. (i - 1) : front[j] = head[j]
    BY <2>1, <2>3
  <2>6. Len(front) = i
    BY <2>1, <2>2
  <2> QED BY <1>1, <2>1, <2>4, <2>5, <2>6
<1> HIDE DEF front
<1>6. \A j \in 1 .. Len(front) + Len(back) :
        (front \o back)[j] = IF j <= Len(front) THEN front[j] ELSE back[j - Len(front)]
  BY <1>5, <1>3, ConcatProperties
<1>7. \A j \in 1 .. (i - 1) : InsertAt(s, i, e)[j] = s[j]
  BY <1>1, <1>2, <1>3, <1>4, <1>5, <1>6
<1>10. Len(front) = i /\ Len(back) = Len(s) - (i - 1) /\ i \in Nat /\ 1 <= i /\ i <= Len(s) + 1 /\ Len(s) \in Nat
  BY <1>1, <1>3, <1>5
<1>8. InsertAt(s, i, e)[i] = e
  <2>1. i \in 1 .. Len(front) + Len(back) /\ i <= Len(front)
    BY <1>10
  <2>2. (front \o back)[i] = front[i]
    BY <2>1, <1>6
  <2>3. front[i] = e
    BY <1>5
  <2>4. InsertAt(s, i, e)[i] = (front \o back)[i]
    BY <1>4
  <2> QED BY ONLY <2>2, <2>3, <2>4
<1>9. ASSUME NEW j \in (i + 1) .. (Len(s) + 1) PROVE InsertAt(s, i, e)[j] = s[j - 1]
  <2>1. j - i \in 1 .. (Len(s) - (i - 1)) /\ (i - 1) + (j - i) = j - 1 /\ ~(j <= i)
        /\ j \in 1 .. Len(front) + Len(back)
    BY <1>10
  <2>2. (front \o back)[j] = back[j - i]
    BY <2>1, <1>6, <1>10
  <2>3. back[j - i] = s[(i - 1) + (j - i)]
    BY <2>1, <1>3
  <2> QED BY <2>1, <2>2, <2>3, <1>4
<1>11. Len(InsertAt(s, i, e)) = Len(s) + 1
  BY InsertAtType
<1> QED
  BY ONLY <1>7, <1>8, <1>9, <1>11 DEF Extends

\* A node in the tree is not the null identifier.
LEMMA LiveIds ==
  ASSUME TypeInv
  PROVE  live \subseteq NodeId /\ Nil \notin live /\ Nil \notin NodeId
BY IdAssumption DEF TypeInv, TypeOK, live, Nil

\* With nothing to report, the nodes are settled as they are.
LEMMA PlainState ==
  ASSUME pending => change.type = "None"
  PROVE  /\ \A id \in NodeId : settled[id] = nodes[id]
         /\ live = allocated \ orphans
<1>1. CASE ~pending
  BY <1>1 DEF settled, live
<1>2. CASE pending
  <2>1. gone(change) = {} /\ change.type = "None"
    BY <1>2 DEF gone
  <2>2. \A id \in NodeId : adjusted(nodes[id], frame.idx, change) = nodes[id]
    BY <2>1 DEF adjusted
  <2> QED
    BY <1>2, <2>1, <2>2 DEF settled, live, repaired
<1> QED
  BY <1>1, <1>2

\* The running node, the flushes it returns to, and its place below the innermost.
here == IF pc = "apply" THEN call.node ELSE frame.node
outer == IF pc = "apply" THEN stack ELSE Front(stack)
above == IF outer = << >> THEN Nil ELSE Last(outer).node
place == IF outer = << >> THEN 1 ELSE Last(outer).idx + 1

\* A call is at work on a node.
running == pc \in {"apply", "flush"}

\* While a call is at work on a node, the nodes are settled as they are.
LEMMA RunningPlain ==
  ASSUME TypeInv, running
  PROVE  /\ \A id \in NodeId : settled[id] = nodes[id]
         /\ live = allocated \ orphans
         /\ rootNode \in NodeId /\ rootNode # Nil /\ tops = <<rootNode>>
<1>1. ~pending /\ pc # "return" /\ pc # "idle"
  BY DEF running, pending
<1>2. rootNode \in NodeId /\ rootNode # Nil
  BY <1>1, LiveIds DEF TypeInv, RunningCall
<1> QED
  BY <1>1, <1>2, PlainState DEF tops

\* The flushes that the running node returns to.
LEMMA OuterFacts ==
  ASSUME TypeInv, running
  PROVE  /\ outer \in Seq(Frame) /\ Len(outer) \in Nat
         /\ Len(stack) \in Nat /\ Len(outer) <= Len(stack)
         /\ \A j \in 1 .. Len(outer) : outer[j] = stack[j] /\ outer[j] \in Frame
         /\ pc = "apply" => outer = stack
         /\ pc = "flush" => stack # << >> /\ Len(stack) = Len(outer) + 1 /\ frame = stack[Len(stack)]
         /\ outer # << >> => Len(outer) > 0 /\ Last(outer) = outer[Len(outer)]
         /\ outer = << >> => Len(outer) = 0
<1>1. stack \in Seq(Frame) /\ Len(stack) \in Nat
  BY DEF TypeInv, TypeOK
<1>2. CASE pc = "apply"
  <2>1. outer = stack
    BY <1>2 DEF outer
  <2> QED
    BY <1>1, <1>2, <2>1 DEF Last
<1>3. CASE pc = "flush"
  <2>1. stack # << >> /\ outer = SubSeq(stack, 1, Len(stack) - 1)
    BY <1>3 DEF TypeInv, RunningCall, outer, Front
  <2>2. Len(stack) >= 1 /\ Len(stack) - 1 \in 0 .. Len(stack)
    BY <1>1, <2>1
  <2>3. outer \in Seq(Frame) /\ Len(outer) = Len(stack) - 1 /\ outer = take(stack, Len(stack) - 1)
    BY <1>1, <2>1, <2>2, TakeType DEF take
  <2>4. \A j \in 1 .. Len(outer) : outer[j] = stack[j]
    BY <1>1, <2>2, <2>3, TakeItems
  <2>5. frame = stack[Len(stack)]
    BY DEF frame, Last
  <2>6. \A j \in 1 .. Len(outer) : outer[j] \in Frame
    BY <2>3
  <2>7. outer # << >> => Len(outer) > 0 /\ Last(outer) = outer[Len(outer)]
    <3>1. outer # << >> => Len(outer) > 0
      BY <2>3, EmptySeq
    <3> QED BY <3>1 DEF Last
  <2>8. outer = << >> => Len(outer) = 0
    OBVIOUS
  <2> QED
    BY <1>1, <1>3, <2>1, <2>2, <2>3, <2>4, <2>5, <2>6, <2>7, <2>8
<1> QED
  BY <1>2, <1>3 DEF running

\* The running node is the child of the node whose flush called it.
LEMMA HereFacts ==
  ASSUME TypeInv, Flow, running, NEW h, Shape(h)
  PROVE  /\ here \in live /\ here \in NodeId /\ here # Nil
         /\ above \in live \cup {Nil} /\ above # here
         /\ place \in 1 .. deg(settled, tops, above)
         /\ kid(settled, tops, above, place) = here
         /\ up(settled, here) = above
         /\ h[above] = h[here] + 1 /\ h[here] \in Nat /\ h[Nil] \in Nat
         /\ h[here] + Len(outer) + 1 = h[Nil]
         /\ outer = << >> => here = rootNode /\ above = Nil /\ place = 1
         /\ outer # << >> => /\ above \in live /\ ~settled[above].leaf /\ above = Last(outer).node
                             /\ Last(outer).idx \in Nat /\ Last(outer).idx + 1 = place
                             /\ Last(outer).child = here /\ current(settled, Last(outer))
         /\ \A j \in 1 .. Len(outer) :
              /\ outer[j].node \in live /\ h[outer[j].node] + j = h[Nil]
              /\ h[outer[j].node] > h[here] /\ (j < Len(outer) => h[outer[j].node] > h[above])
<1>1. /\ tops = <<rootNode>> /\ live \subseteq NodeId /\ Nil \notin live /\ Nil \notin NodeId
  BY RunningPlain, LiveIds
<1>2. /\ Tree(settled, tops, live, h) /\ Frames(h)
  BY DEF Shape
<1>3. deg(settled, tops, Nil) = 1 /\ kid(settled, tops, Nil, 1) = rootNode
  BY <1>1 DEF deg, kid, kids
<1>4. /\ \A p \in live \cup {Nil} : h[p] \in Nat /\ deg(settled, tops, p) \in Nat
      /\ \A p \in live \cup {Nil} : \A i \in 1 .. deg(settled, tops, p) :
           /\ kid(settled, tops, p, i) \in live /\ up(settled, kid(settled, tops, p, i)) = p
           /\ h[p] = h[kid(settled, tops, p, i)] + 1
  BY <1>2 DEF Tree, Downward, Levels
<1>5. ASSUME NEW f, current(settled, f), f.node \in live
      PROVE  /\ f.idx + 1 \in 1 .. deg(settled, tops, f.node)
             /\ kid(settled, tops, f.node, f.idx + 1) = f.child
  <2>1. kids(settled, tops, f.node) = settled[f.node].children
    BY <1>1, <1>5 DEF kids
  <2>2. Len(settled[f.node].children) \in Nat
    BY <1>4, <1>5, <2>1 DEF deg
  <2>3. DOMAIN settled[f.node].children = 1 .. Len(settled[f.node].children)
    <3>1. settled[f.node].children \in Seq(NodeId)
      BY <1>1, <1>5, RunningPlain DEF TypeInv, TypeOK, isHeap, isNode
    <3> QED BY <3>1
  <2> QED BY <1>5, <2>1, <2>2, <2>3 DEF deg, kid, current
<1>6. /\ Len(outer) \in Nat /\ Len(stack) \in Nat /\ Len(outer) <= Len(stack)
      /\ \A j \in 1 .. Len(outer) : outer[j] = stack[j] /\ outer[j] \in Frame
      /\ pc = "apply" => outer = stack
      /\ pc = "flush" => stack # << >> /\ Len(stack) = Len(outer) + 1 /\ frame = stack[Len(stack)]
      /\ outer # << >> => Len(outer) > 0 /\ Last(outer) = outer[Len(outer)]
      /\ outer = << >> => Len(outer) = 0
  BY OuterFacts
<1>7. \A j \in 1 .. Len(outer) : outer[j].node \in live /\ ~settled[outer[j].node].leaf /\ h[outer[j].node] + j = h[Nil]
  BY <1>2, <1>6 DEF Frames
<1>8. CASE outer = << >>
  <2>1. above = Nil /\ place = 1
    BY <1>8 DEF above, place
  <2>2. here = rootNode
    <3>1. CASE pc = "apply"
      BY <3>1, <1>8, <1>6 DEF Flow, here
    <3>2. CASE pc = "flush"
      <4>1. Len(stack) = 1 /\ frame = stack[1]
        <5>1. Len(outer) = 0
          BY <1>6, <1>8
        <5>2. Len(stack) = Len(outer) + 1 /\ frame = stack[Len(stack)]
          BY <1>6, <3>2
        <5> QED BY <5>1, <5>2
      <4>2. frame.node \in live /\ h[frame.node] + 1 = h[Nil]
        BY <4>1, <1>2 DEF Frames
      <4>3. up(settled, frame.node) = Nil
        <5>1. PICK i \in 1 .. deg(settled, tops, up(settled, frame.node)) :
                 kid(settled, tops, up(settled, frame.node), i) = frame.node
          BY <4>2, <1>2 DEF Tree, Upward
        <5>2. up(settled, frame.node) \in live \cup {Nil}
          BY <4>2, <1>2 DEF Tree, Upward
        <5>3. h[up(settled, frame.node)] = h[Nil]
          BY <4>2, <5>1, <5>2, <1>4
        <5> QED BY <5>2, <5>3, <1>2, <1>4 DEF Tree, Levels
      <4>4. frame.node = rootNode
        <5>1. \E i \in 1 .. 1 : kid(settled, tops, Nil, i) = frame.node
          BY <4>2, <4>3, <1>2, <1>3 DEF Tree, Upward
        <5> QED BY <5>1, <1>3
      <4> QED BY <4>4, <3>2 DEF here
    <3> QED BY <3>1, <3>2 DEF running
  <2>3. here \in live /\ up(settled, here) = Nil /\ h[Nil] = h[here] + 1
    BY <2>2, <1>3, <1>4
  <2>4. h[here] \in Nat /\ here # Nil /\ here \in NodeId
    BY <2>3, <1>4, <1>1
  <2>5. place \in 1 .. deg(settled, tops, above) /\ kid(settled, tops, above, place) = here
    BY <1>3, <2>1, <2>2
  <2>6. h[Nil] \in Nat /\ h[here] + Len(outer) + 1 = h[Nil] /\ above # here
    BY <1>4, <1>6, <1>8, <2>1, <2>3, <2>4
  <2>7. 1 .. Len(outer) = {}
    BY <1>6, <1>8
  <2> QED BY <1>8, <2>1, <2>2, <2>3, <2>4, <2>5, <2>6, <2>7
<1>9. CASE outer # << >>
  <2> DEFINE f == Last(outer)
             n == Len(outer)
  <2>1. above = f.node /\ place = f.idx + 1 /\ n \in 1 .. Len(stack) /\ f = stack[n] /\ f = outer[n] /\ f \in Frame
    BY <1>6, <1>9 DEF above, place
  <2>2. f.node \in live /\ ~settled[f.node].leaf /\ h[f.node] + n = h[Nil]
    BY <2>1, <1>2 DEF Frames
  <2>3. f.child = here /\ current(settled, f)
    <3>1. CASE pc = "apply"
      <4>1. f = frame
        BY <3>1, <1>6 DEF frame
      <4> QED BY <3>1, <4>1, <1>6, <1>9 DEF Flow, here
    <3>2. CASE pc = "flush"
      <4>1. n \in 1 .. (Len(stack) - 1) /\ stack[n + 1] = frame
        BY <3>2, <2>1, <1>6
      <4> QED BY <3>2, <4>1, <2>1, <1>2 DEF Frames, here
    <3> QED BY <3>1, <3>2 DEF running
  <2>4. place \in 1 .. deg(settled, tops, above) /\ kid(settled, tops, above, place) = here
    BY <2>1, <2>2, <2>3, <1>5
  <2>5. here \in live /\ up(settled, here) = above /\ h[above] = h[here] + 1
    BY <2>1, <2>2, <2>4, <1>4
  <2>6. h[here] \in Nat /\ h[above] \in Nat /\ h[Nil] \in Nat /\ here # Nil /\ here \in NodeId /\ above # here
    BY <2>1, <2>2, <2>5, <1>1, <1>4
  <2>7. h[here] + n + 1 = h[Nil]
    BY <2>1, <2>2, <2>5, <2>6, <1>6
  <2>8. \A j \in 1 .. n : /\ outer[j].node \in live /\ h[outer[j].node] + j = h[Nil]
                          /\ h[outer[j].node] > h[here] /\ (j < n => h[outer[j].node] > h[above])
    <3> TAKE j \in 1 .. n
    <3>1. outer[j].node \in live /\ h[outer[j].node] + j = h[Nil] /\ h[outer[j].node] \in Nat
      BY <1>7, <1>4
    <3>2. j \in Nat /\ n \in Nat /\ j <= n
      BY <1>6
    <3>3. h[here] + n + 1 = h[Nil] /\ h[here] \in Nat /\ h[Nil] \in Nat /\ h[above] = h[here] + 1
      BY ONLY <2>5, <2>6, <2>7
    <3>4. h[outer[j].node] > h[here]
      BY ONLY <3>1, <3>2, <3>3
    <3>5. j < n => h[outer[j].node] > h[above]
      BY ONLY <3>1, <3>2, <3>3
    <3> QED BY ONLY <3>1, <3>4, <3>5
  <2>9. f.idx \in Nat
    BY <2>1 DEF Frame
  <2>10. outer # << >> => /\ above \in live /\ ~settled[above].leaf /\ above = Last(outer).node
                          /\ Last(outer).idx \in Nat /\ Last(outer).idx + 1 = place
                          /\ Last(outer).child = here /\ current(settled, Last(outer))
    BY <2>1, <2>2, <2>3, <2>9
  <2>11. above \in live \cup {Nil}
    BY <2>10, <1>9
  <2> HIDE DEF f, n
  <2>12. h[here] + Len(outer) + 1 = h[Nil]
    BY <2>7 DEF n
  <2>13. \A j \in 1 .. Len(outer) :
              /\ outer[j].node \in live /\ h[outer[j].node] + j = h[Nil]
              /\ h[outer[j].node] > h[here] /\ (j < Len(outer) => h[outer[j].node] > h[above])
    BY <2>8 DEF n
  <2> QED BY <1>9, <2>4, <2>5, <2>6, <2>10, <2>11, <2>12, <2>13
<1> QED
  BY <1>8, <1>9

-----------------------------------------------------------------------------
(* Steps that change no link *)

\* The same of the next state.
LEMMA PlainNext ==
  (pending => change.type = "None")' =>
     (/\ \A id \in NodeId : settled[id] = nodes[id]
      /\ live = allocated \ orphans)'
<1>1. (pending => change.type = "None") =>
        /\ \A id \in NodeId : settled[id] = nodes[id]
        /\ live = allocated \ orphans
  BY PlainState
<1> QED BY <1>1, PTL

\* A step that changes no link keeps the tree.
LEMMA SameStep ==
  ASSUME NEW h, Tree(settled, tops, live, h), Nil \notin live, live' = live, tops' = tops,
         \A id \in live : /\ settled'[id].children = settled[id].children
                          /\ settled'[id].parent = settled[id].parent
                          /\ settled'[id].left = settled[id].left
                          /\ settled'[id].right = settled[id].right
  PROVE  Tree(settled', tops', live', h)
<1>1. ASSUME NEW q \in live \cup {Nil} PROVE kids(settled', tops', q) = kids(settled, tops, q)
  BY <1>1 DEF kids
<1>2. ASSUME NEW q \in live \cup {Nil}
      PROVE  lft(settled', q) = lft(settled, q) /\ rgt(settled', q) = rgt(settled, q)
  BY <1>2 DEF lft, rgt
<1>3. \A id \in live : up(settled', id) = up(settled, id)
  BY DEF up
<1>4. SameLinks(settled, tops, settled', tops', live)
  BY <1>1, <1>2, <1>3 DEF SameLinks, deg, kid
<1> QED BY <1>4, SameTree

\* A top is in the tree.
LEMMA TopLive ==
  ASSUME NEW N, NEW T, NEW L, NEW h, Tree(N, T, L, h), NEW x, T = <<x>>
  PROVE  x \in L
<1>1. deg(N, T, Nil) = 1 /\ kid(N, T, Nil, 1) = x
  BY DEF deg, kid, kids
<1> QED BY <1>1 DEF Tree, Downward

\* A step that changes neither links nor sizes keeps every node as filled as it was.
LEMMA SameSizes ==
  ASSUME NEW h, Tree(settled, tops, live, h), Nil \notin live, tops' = tops,
         \A id \in live : /\ settled'[id].leaf = settled[id].leaf
                          /\ settled'[id].children = settled[id].children
                          /\ settled'[id].parent = settled[id].parent
                          /\ size(settled'[id]) = size(settled[id])
  PROVE  /\ \A id \in live : filled(settled, tops, id) => filled(settled', tops', id)
         /\ \A id \in live : nearlyFilled(settled, tops, id) => nearlyFilled(settled', tops', id)
         /\ \A id \in live : branches(settled, id) => branches(settled', id)
<1>1. ASSUME NEW id \in live, filled(settled, tops, id) PROVE filled(settled', tops', id)
  <2>1. /\ settled'[id].leaf = settled[id].leaf /\ settled'[id].parent = settled[id].parent
        /\ size(settled'[id]) = size(settled[id])
    OBVIOUS
  <2>2. tops = <<settled[id].parent>> => size(settled'[settled[id].parent]) = size(settled[settled[id].parent])
    BY TopLive
  <2> QED BY <1>1, <2>1, <2>2 DEF filled
<1>2. ASSUME NEW id \in live, nearlyFilled(settled, tops, id) PROVE nearlyFilled(settled', tops', id)
  BY <1>2 DEF nearlyFilled
<1>3. ASSUME NEW id \in live, branches(settled, id) PROVE branches(settled', id)
  <2>1. /\ size(settled'[id]) = size(settled[id]) /\ settled'[id].children = settled[id].children
    OBVIOUS
  <2>2. \A i \in 1 .. Len(settled[id].children) : settled[id].children[i] \in live
    BY DEF Tree, Downward, deg, kid, kids
  <2> QED BY <1>3, <2>1, <2>2 DEF branches
<1> QED BY <1>1, <1>2, <1>3

\* The frames of the flushes that a returning node leaves behind.
LEMMA ReturnFrames ==
  ASSUME TypeInv, Flow, running, NEW h, Shape(h), NEW g,
         stack' = outer, \A q \in live \cup {Nil} : g[q] = h[q],
         \A q \in live : h[q] > h[here] => q \in live' /\ settled'[q].leaf = settled[q].leaf,
         \A q \in live : h[q] > h[above] => settled'[q].children = settled[q].children
  PROVE  Frames(g)'
<1>1. /\ Len(outer) \in Nat /\ Len(stack) \in Nat /\ Len(outer) <= Len(stack)
      /\ \A j \in 1 .. Len(outer) : outer[j] = stack[j]
  BY OuterFacts
<1>2. \A j \in 1 .. Len(outer) :
        /\ outer[j].node \in live /\ h[outer[j].node] + j = h[Nil]
        /\ h[outer[j].node] > h[here] /\ (j < Len(outer) => h[outer[j].node] > h[above])
  BY HereFacts
<1>3. Frames(h)
  BY DEF Shape
<1>4. ASSUME NEW j \in 1 .. Len(stack')
      PROVE  /\ stack'[j].node \in live' /\ ~settled'[stack'[j].node].leaf
             /\ g[stack'[j].node] + j = g[Nil]
             /\ stack'[j].out.type = "None" /\ stack'[j].out.node = Nil
  <2>1. j \in 1 .. Len(outer) /\ j \in 1 .. Len(stack) /\ stack'[j] = outer[j] /\ outer[j] = stack[j]
    BY <1>1
  <2>2. /\ ~settled[stack[j].node].leaf /\ stack[j].out.type = "None" /\ stack[j].out.node = Nil
    BY <2>1, <1>3 DEF Frames
  <2>3. outer[j].node \in live /\ h[outer[j].node] + j = h[Nil] /\ h[outer[j].node] > h[here]
    BY <2>1, <1>2
  <2> QED BY <2>1, <2>2, <2>3
<1>5. ASSUME NEW j \in 1 .. (Len(stack') - 1)
      PROVE  stack'[j].child = stack'[j + 1].node /\ current(settled', stack'[j])
  <2>1. /\ j \in 1 .. Len(outer) /\ j + 1 \in 1 .. Len(outer) /\ j \in 1 .. (Len(stack) - 1) /\ j < Len(outer)
        /\ stack'[j] = stack[j] /\ stack'[j + 1] = stack[j + 1] /\ outer[j] = stack[j]
    BY <1>1
  <2>2. stack[j].child = stack[j + 1].node /\ current(settled, stack[j])
    BY <2>1, <1>3 DEF Frames
  <2>3. settled'[stack[j].node].children = settled[stack[j].node].children
    BY <2>1, <1>2
  <2> QED BY <2>1, <2>2, <2>3 DEF current
<1> QED BY <1>4, <1>5 DEF Frames

-----------------------------------------------------------------------------
(* Entering a tree, and local returns *)

\* What the shape of the tree tells of a node.
alike(m, n) ==
  /\ m.leaf = n.leaf /\ m.children = n.children
  /\ m.parent = n.parent /\ m.left = n.left /\ m.right = n.right
  /\ size(m) = size(n)

\* A step that changes no link and no size keeps the tree and the share of every node.
LEMMA ContentStep ==
  ASSUME NEW h, Tree(settled, tops, live, h), Nil \notin live, Sizes,
         live' = live, tops' = tops, rootNode' = rootNode,
         \A id \in live : alike(settled'[id], settled[id]),
         rootNode # Nil => rootNode \in live,
         unsettled' \subseteq live,
         \A id \in unsettled' : nearlyFilled(settled, tops, id),
         \A id \in live : id \in unsettled /\ id \notin unsettled' => filled(settled, tops, id),
         \/ rootNode = Nil \/ (pc' = "return" /\ stack' = << >>) \/ rootNode \in unsettled'
         \/ branches(settled, rootNode)
  PROVE  Tree(settled', tops', live', h) /\ Sizes'
<1>1. \A id \in live : /\ settled'[id].leaf = settled[id].leaf
                       /\ settled'[id].children = settled[id].children
                       /\ settled'[id].parent = settled[id].parent
                       /\ settled'[id].left = settled[id].left
                       /\ settled'[id].right = settled[id].right
                       /\ size(settled'[id]) = size(settled[id])
  BY DEF alike
<1>2. Tree(settled', tops', live', h)
  BY <1>1, SameStep
<1>3. /\ \A id \in live : filled(settled, tops, id) => filled(settled', tops', id)
      /\ \A id \in live : nearlyFilled(settled, tops, id) => nearlyFilled(settled', tops', id)
      /\ \A id \in live : branches(settled, id) => branches(settled', id)
  BY <1>1, SameSizes
<1>4. \A id \in live' \ unsettled' : filled(settled', tops', id)
  BY <1>3 DEF Sizes
<1>5. \A id \in unsettled' : nearlyFilled(settled', tops', id)
  BY <1>3
<1>6. \/ rootNode' = Nil \/ (pc' = "return" /\ stack' = << >>) \/ rootNode' \in unsettled'
      \/ branches(settled', rootNode')
  BY <1>3
<1> QED BY <1>2, <1>4, <1>5, <1>6 DEF Sizes

\* An idle tree.
LEMMA IdleFacts ==
  ASSUME TypeInv, Flow, Sizes, pc = "idle", NEW h, Shape(h)
  PROVE  /\ settled = nodes /\ live = allocated \ orphans /\ stack = << >>
         /\ unsettled = {}
         /\ rootNode = Nil => tops = << >>
         /\ rootNode # Nil => /\ tops = <<rootNode>> /\ rootNode \in live
                              /\ branches(settled, rootNode)
<1>1. settled = nodes /\ live = allocated \ orphans /\ stack = << >> /\ unsettled = {}
  BY DEF settled, live, pending, Flow, unsettled, mending
<1>2. /\ rootNode = Nil => tops = << >>
      /\ rootNode # Nil => tops = <<rootNode>>
  BY DEF tops
<1>3. rootNode # Nil => rootNode \in live
  BY <1>2, TopLive DEF Shape
<1> QED BY <1>1, <1>2, <1>3 DEF Sizes

\* A call on a tree that has a root.
LEMMA EnterShape ==
  ASSUME ShapeInv, TypeInv', NEW k, NEW m, pc = "idle", rootNode # Nil,
         UNCHANGED <<heap, rootNode>>, Enter(k, m)
  PROVE  ShapeInv'
<1>1. PICK h : Shape(h)
  BY DEF ShapeInv
<1>2. /\ settled = nodes /\ live = allocated \ orphans /\ stack = << >>
      /\ unsettled = {} /\ tops = <<rootNode>> /\ rootNode \in live /\ branches(settled, rootNode)
  BY <1>1, IdleFacts DEF ShapeInv
<1>3. /\ nodes' = nodes /\ allocated' = allocated /\ rootNode' = rootNode /\ pc' = "apply"
      /\ change' = NoChange /\ stack' = stack /\ orphans' = orphans /\ call'.node = rootNode
  BY DEF heap, history, Enter
<1>4. /\ settled' = settled /\ live' = live /\ tops' = tops /\ unsettled' = {}
  BY <1>2, <1>3 DEF settled, live, tops, pending, unsettled, mending
<1>5. Tree(settled', tops', live', h) /\ Sizes'
  <2>1. Tree(settled, tops, live, h) /\ Nil \notin live /\ Sizes
    BY <1>1, LiveIds DEF Shape, ShapeInv
  <2>2. \A id \in live : alike(settled'[id], settled[id])
    BY <1>4 DEF alike
  <2> QED BY <1>2, <1>3, <1>4, <2>1, <2>2, ContentStep
<1>6. Childless'
  BY <1>3 DEF ShapeInv, Childless
<1>7. Flow'
  BY <1>2, <1>3 DEF ShapeInv, Flow, NoChange
<1>8. Frames(h)'
  BY <1>2, <1>3 DEF Frames
<1>9. Shape(h)'
  BY <1>1, <1>5, <1>8 DEF Shape
<1> QED BY <1>5, <1>6, <1>7, <1>9 DEF ShapeInv

\* An insert into a tree that has a root begins.
LEMMA StartInsertShape ==
  ASSUME ShapeInv, TypeInv', NEW k, NEW v, StartInsert(k, v)
  PROVE  ShapeInv'
BY EnterShape DEF StartInsert

\* A remove begins.
LEMMA StartRemoveShape ==
  ASSUME ShapeInv, TypeInv', NEW k, StartRemove(k)
  PROVE  ShapeInv'
BY EnterShape DEF StartRemove

\* A leaf is at the bottom, an internal node is not.
LEMMA LeafLevel ==
  ASSUME NEW N, NEW T, NEW L, NEW h, Nil \notin L, Tree(N, T, L, h),
         NEW id \in L, N[id].leaf => N[id].children = << >>,
         ~N[id].leaf => Len(N[id].children) = size(N[id]) + 1, size(N[id]) \in Nat
  PROVE  N[id].leaf <=> h[id] = 0
<1>1. deg(N, T, id) = Len(N[id].children)
  BY DEF deg, kids
<1>2. deg(N, T, id) = 0 <=> h[id] = 0
  BY DEF Tree, Levels
<1>3. CASE N[id].leaf
  BY <1>1, <1>2, <1>3
<1>4. CASE ~N[id].leaf
  BY <1>1, <1>2, <1>4
<1> QED BY <1>3, <1>4

\* What the types say of every node.
LEMMA NodeFacts ==
  ASSUME TypeInv, Childless
  PROVE  \A id \in NodeId :
           /\ isNode(nodes[id]) /\ size(nodes[id]) \in Nat /\ nodes[id].children \in Seq(NodeId)
           /\ nodes[id].keys \in Seq(KeyType) /\ Len(nodes[id].children) \in Nat
           /\ nodes[id].leaf \in BOOLEAN
           /\ nodes[id].leaf => nodes[id].children = << >>
           /\ ~nodes[id].leaf => Len(nodes[id].children) = size(nodes[id]) + 1
BY DEF TypeInv, TypeOK, isHeap, isNode, size, Childless

\* A running node that returns with nothing to report: it has all its keys.
LEMMA LocalReturn ==
  ASSUME ShapeInv, TypeInv', running, NEW h, Shape(h),
         pc' = "return", stack' = outer, change'.type = "None", change'.node = Nil,
         allocated' = allocated, orphans' = orphans, rootNode' = rootNode,
         \A id \in live : /\ nodes'[id].leaf = nodes[id].leaf
                          /\ nodes'[id].children = nodes[id].children
                          /\ nodes'[id].parent = nodes[id].parent
                          /\ nodes'[id].left = nodes[id].left
                          /\ nodes'[id].right = nodes[id].right,
         \A id \in live : id # here \/ ~nodes[here].leaf => size(nodes'[id]) = size(nodes[id]),
         filled(nodes', tops, here),
         Childless'
  PROVE  ShapeInv'
<1>0. TypeInv /\ Flow /\ Sizes /\ Childless /\ Tree(settled, tops, live, h) /\ Frames(h)
  BY DEF ShapeInv, Shape
<1>1. /\ \A id \in NodeId : settled[id] = nodes[id]
      /\ live = allocated \ orphans
      /\ rootNode \in NodeId /\ rootNode # Nil /\ tops = <<rootNode>>
  BY <1>0, RunningPlain
<1>2. /\ \A id \in NodeId : settled'[id] = nodes'[id]
      /\ live' = live
  BY <1>1, PlainNext
<1>3. live \subseteq NodeId /\ Nil \notin live
  BY <1>0, LiveIds
<1>4. tops' = tops
  BY <1>1 DEF tops
<1>5. /\ here \in live /\ above \in live \cup {Nil} /\ above # here /\ up(settled, here) = above
      /\ h[above] = h[here] + 1 /\ h[here] \in Nat
      /\ outer = << >> => here = rootNode /\ above = Nil
      /\ outer # << >> => /\ above \in live /\ ~settled[above].leaf /\ above = Last(outer).node
                          /\ current(settled, Last(outer))
  BY <1>0, HereFacts
<1>6. rootNode \in live /\ up(settled, rootNode) = Nil
  <2>1. deg(settled, tops, Nil) = 1 /\ kid(settled, tops, Nil, 1) = rootNode
    BY <1>1 DEF deg, kid, kids
  <2> QED BY <2>1, <1>0 DEF Tree, Downward
<1>7. Tree(settled', tops', live', h)
  <2>1. \A id \in live : /\ settled'[id].children = settled[id].children
                         /\ settled'[id].parent = settled[id].parent
                         /\ settled'[id].left = settled[id].left
                         /\ settled'[id].right = settled[id].right
    BY <1>1, <1>2, <1>3
  <2> QED BY <2>1, <1>0, <1>2, <1>3, <1>4, SameStep
<1>8. unsettled \subseteq {here}
  BY DEF unsettled, mending, here
<1>9. ASSUME NEW id \in live, id # here PROVE filled(settled', tops', id) /\ filled(settled, tops, id)
  <2>1. filled(settled, tops, id)
    BY <1>0, <1>8, <1>9 DEF Sizes
  <2>2. /\ settled'[id].leaf = settled[id].leaf /\ settled'[id].parent = settled[id].parent
        /\ size(settled'[id]) = size(settled[id])
    BY <1>1, <1>2, <1>3, <1>9
  <2>3. ASSUME settled[id].leaf, tops = <<settled[id].parent>>
        PROVE  size(settled'[settled[id].parent]) = size(settled[settled[id].parent])
    <3>1. settled[id].parent = rootNode
      BY <1>1, <2>3
    <3>2. CASE rootNode # here
      BY <1>1, <1>2, <1>3, <1>6, <3>1, <3>2
    <3>3. CASE rootNode = here
      <4>1. h[rootNode] > 0
        <5>1. up(settled, id) = rootNode /\ h[id] \in Nat
          BY <3>1, <1>0 DEF up, Tree, Levels
        <5>2. h[rootNode] = h[id] + 1
          BY <5>1, <1>0, <1>6 DEF Tree, Upward, Levels
        <5> QED BY <5>1, <5>2
      <4>2. ~nodes[rootNode].leaf
        <5>1. nodes[rootNode].leaf => nodes[rootNode].children = << >>
          BY <1>0, <1>1, NodeFacts
        <5>2. deg(settled, tops, rootNode) # 0
          BY <4>1, <1>0, <1>6 DEF Tree, Levels
        <5>3. deg(settled, tops, rootNode) = Len(nodes[rootNode].children)
          BY <1>1 DEF deg, kids
        <5> QED BY <5>1, <5>2, <5>3
      <4> QED BY <4>2, <1>1, <1>2, <1>3, <1>6, <3>1, <3>3
    <3> QED BY <3>2, <3>3
  <2>4. filled(settled', tops', id)
    BY <2>1, <2>2, <2>3, <1>4 DEF filled
  <2> QED BY <2>1, <2>4
<1>10. filled(settled', tops', here)
  <2>1. here \in NodeId
    BY <1>3, <1>5
  <2>2. tops = <<nodes'[here].parent>> => nodes'[here].parent = rootNode
    BY <1>1
  <2> QED BY <1>1, <1>2, <1>4, <2>1, <2>2 DEF filled
<1>11. CASE outer = << >>
  <2>1. stack' = << >> /\ unsettled' = {}
    BY <1>11 DEF unsettled, mending
  <2>2. Sizes'
    BY <2>1, <1>2, <1>9, <1>10 DEF Sizes
  <2>3. Flow'
    BY <2>1, <1>0 DEF Flow, gone
  <2>4. Frames(h)'
    BY <2>1 DEF Frames
  <2> QED BY <2>2, <2>3, <2>4, <1>7, <1>0 DEF ShapeInv, Shape
<1>12. CASE outer # << >>
  <2>1. stack' # << >> /\ frame' = Last(outer) /\ unsettled' \subseteq {above}
    <3>1. frame' = Last(outer)
      BY DEF frame
    <3> QED BY <3>1, <1>5, <1>12 DEF unsettled, mending
  <2>2. nearlyFilled(settled', tops', above)
    <3>1. filled(settled', tops', above)
      BY <1>5, <1>9, <1>12
    <3>2. ~settled'[above].leaf
      BY <1>1, <1>2, <1>3, <1>5, <1>12
    <3>3. size(settled'[above]) \in Nat
      <4>1. above \in NodeId
        BY <1>3, <1>5, <1>12
      <4>2. size(nodes'[above]) \in Nat
        BY <4>1 DEF TypeInv, TypeOK, isHeap, isNode, size
      <4> QED BY <4>1, <4>2, <1>2
    <3>4. least \in Int /\ Fanout \in Nat
      BY SizeAssumption DEF least
    <3> QED BY <3>1, <3>2, <3>3, <3>4 DEF filled, nearlyFilled
  <2>3. rootNode # here
    BY <1>5, <1>6, <1>3, <1>12
  <2>4. branches(settled', rootNode')
    <3>1. branches(settled, rootNode)
      BY <2>3, <1>0, <1>1, <1>8 DEF Sizes, running
    <3>2. size(settled'[rootNode]) = size(settled[rootNode]) /\ settled'[rootNode].children = settled[rootNode].children
      BY <1>1, <1>2, <1>3, <1>6, <2>3
    <3>3. \A i \in 1 .. Len(settled[rootNode].children) : settled[rootNode].children[i] \in live
      BY <1>0, <1>1, <1>6 DEF Tree, Downward, deg, kid, kids
    <3>4. \A id \in live : settled'[id].leaf = settled[id].leaf
      BY <1>1, <1>2, <1>3
    <3> QED BY <3>1, <3>2, <3>3, <3>4 DEF branches
  <2>5. Sizes'
    BY <2>1, <2>2, <2>4, <1>2, <1>9, <1>10 DEF Sizes
  <2>6. current(settled', frame')
    <3>1. settled'[above].children = settled[above].children
      BY <1>1, <1>2, <1>3, <1>5, <1>12
    <3> QED BY <3>1, <2>1, <1>5, <1>12 DEF current
  <2>7. Flow'
    BY <2>1, <2>6, <1>0 DEF Flow, gone
  <2>8. Frames(h)'
    <3>1. \A q \in live : q \in live' /\ settled'[q].leaf = settled[q].leaf /\ settled'[q].children = settled[q].children
      BY <1>1, <1>2, <1>3
    <3> QED BY <3>1, <1>0, ReturnFrames
  <2> QED BY <2>5, <2>7, <2>8, <1>7, <1>0 DEF ShapeInv, Shape
<1> QED BY <1>11, <1>12

-----------------------------------------------------------------------------
(* Siblings *)

\* A right sibling with the same parent is the next child of that parent.
LEMMA NextChild ==
  ASSUME NEW N, NEW T, NEW L, NEW h, Nil \notin L, Tree(N, T, L, h),
         NEW p, NEW x \in L, NEW s \in L, rgt(N, x) = s, up(N, x) = p, up(N, s) = p
  PROVE  \E i \in 1 .. deg(N, T, p) : Mates(N, T, L, p, i, x, s)
<1>1. /\ p \in L \cup {Nil} /\ deg(N, T, p) \in Nat /\ x # Nil /\ s # Nil
  BY DEF Tree, Upward, Downward
<1>2. PICK i \in 1 .. deg(N, T, p) : kid(N, T, p, i) = x
  BY DEF Tree, Upward
<1>3. s = IF i < deg(N, T, p) THEN kid(N, T, p, i + 1) ELSE firstKid(N, T, rgt(N, p))
  BY <1>1, <1>2 DEF Tree, Rows
<1>4. CASE i < deg(N, T, p)
  <2>1. i + 1 \in 1 .. deg(N, T, p) /\ kid(N, T, p, i + 1) = s
    BY <1>1, <1>3, <1>4
  <2> QED BY <2>1, <1>1, <1>2 DEF Mates
<1>5. CASE ~(i < deg(N, T, p))
  <2>1. s = firstKid(N, T, rgt(N, p))
    BY <1>3, <1>5
  <2>2. rgt(N, p) # Nil /\ s = kid(N, T, rgt(N, p), 1)
    BY <2>1, <1>1 DEF firstKid
  <2>3. p # Nil
    BY <2>2 DEF rgt
  <2>4. rgt(N, p) \in L /\ rgt(N, p) # p /\ h[rgt(N, p)] = h[p]
    BY <1>1, <2>2, <2>3 DEF Tree, Mutual
  <2>5. h[p] # 0
    BY <1>1, <1>2 DEF Tree, Levels
  <2>6. deg(N, T, rgt(N, p)) # 0 /\ deg(N, T, rgt(N, p)) \in Nat
    BY <2>4, <2>5 DEF Tree, Levels, Downward
  <2>7. up(N, s) = rgt(N, p)
    <3>1. 1 \in 1 .. deg(N, T, rgt(N, p))
      BY <2>6
    <3> QED BY <3>1, <2>2, <2>4 DEF Tree, Downward
  <2> QED BY <2>4, <2>7
<1> QED BY <1>4, <1>5

\* The sibling that handleUnderflow finds is the neighbour in the parent.
LEMMA MateFound ==
  ASSUME ShapeInv, running, NEW h, Shape(h), mate(here) # Nil
  PROVE  /\ mate(here) \in live /\ mate(here) # here /\ outer # << >>
         /\ asksLeft(here) => /\ nodes[here].left = mate(here)
                              /\ Mates(settled, tops, live, above, place - 1, mate(here), here)
         /\ ~asksLeft(here) => /\ nodes[here].right = mate(here)
                               /\ Mates(settled, tops, live, above, place, here, mate(here))
<1> DEFINE s == mate(here)
<1>0. TypeInv /\ Flow /\ Sizes /\ Childless /\ Tree(settled, tops, live, h)
  BY DEF ShapeInv, Shape
<1>1. /\ \A id \in NodeId : settled[id] = nodes[id]
      /\ tops = <<rootNode>> /\ live \subseteq NodeId /\ Nil \notin live
  BY <1>0, RunningPlain, LiveIds
<1>2. /\ here \in live /\ here # Nil /\ above \in live \cup {Nil} /\ up(settled, here) = above
      /\ place \in 1 .. deg(settled, tops, above) /\ kid(settled, tops, above, place) = here
      /\ outer = << >> => above = Nil
  BY <1>0, HereFacts
<1>3. /\ lft(settled, here) = nodes[here].left /\ rgt(settled, here) = nodes[here].right
      /\ up(settled, here) = nodes[here].parent
  BY <1>1, <1>2 DEF lft, rgt, up
<1>4. /\ lft(settled, here) # Nil => /\ lft(settled, here) \in live /\ lft(settled, here) # here
                                     /\ rgt(settled, lft(settled, here)) = here
      /\ rgt(settled, here) # Nil => rgt(settled, here) \in live /\ rgt(settled, here) # here
  BY <1>0, <1>2 DEF Tree, Mutual
<1>5. asksLeft(here) => isMate(here, nodes[here].left) /\ s = nodes[here].left
  BY DEF asksLeft, mate, isMate
<1>6. ~asksLeft(here) => isMate(here, nodes[here].right) /\ s = nodes[here].right
  BY DEF asksLeft, mate, isMate
<1>7. s \in live /\ s # here /\ up(settled, s) = above
  <2>1. s \in live /\ s # here
    BY <1>3, <1>4, <1>5, <1>6
  <2>2. nodes[s].parent = nodes[here].parent
    BY <1>5, <1>6 DEF isMate
  <2> QED BY <2>1, <2>2, <1>1, <1>2, <1>3 DEF up
<1> HIDE DEF s
<1>8. ASSUME asksLeft(here) PROVE Mates(settled, tops, live, above, place - 1, s, here)
  <2>1. rgt(settled, s) = here
    BY <1>8, <1>3, <1>4, <1>5, <1>7, <1>1
  <2>2. PICK i \in 1 .. deg(settled, tops, above) : Mates(settled, tops, live, above, i, s, here)
    BY <2>1, <1>0, <1>1, <1>2, <1>7, NextChild
  <2>3. i + 1 \in 1 .. deg(settled, tops, above) /\ kid(settled, tops, above, i + 1) = here
    BY <2>2 DEF Mates
  <2>4. i + 1 = place
    BY <2>3, <1>0, <1>2 DEF Tree, Downward
  <2>5. i = place - 1
    BY <2>4
  <2> QED BY <2>2, <2>5
<1>9. ASSUME ~asksLeft(here) PROVE Mates(settled, tops, live, above, place, here, s)
  <2>1. rgt(settled, here) = s
    BY <1>9, <1>3, <1>6
  <2>2. PICK i \in 1 .. deg(settled, tops, above) : Mates(settled, tops, live, above, i, here, s)
    BY <2>1, <1>0, <1>1, <1>2, <1>7, NextChild
  <2>3. kid(settled, tops, above, i) = here
    BY <2>2 DEF Mates
  <2>4. i = place
    BY <2>3, <1>0, <1>2 DEF Tree, Downward
  <2> QED BY <2>2, <2>4
<1>10. outer # << >>
  <2>1. deg(settled, tops, Nil) = 1 /\ kid(settled, tops, Nil, 1) = rootNode
    BY <1>1 DEF deg, kid, kids
  <2>2. above = Nil => here = s
    <3>1. ASSUME NEW z \in live, up(settled, z) = Nil PROVE z = rootNode
      BY <3>1, <2>1, <1>0 DEF Tree, Upward
    <3> QED BY <3>1, <1>2, <1>7
  <2> QED BY <2>2, <1>2, <1>7
<1> QED BY <1>5, <1>6, <1>7, <1>8, <1>9, <1>10 DEF s

\* A node with a brother finds one of its neighbours under the same parent.
LEMMA MateExists ==
  ASSUME ShapeInv, running, NEW h, Shape(h), deg(settled, tops, above) >= 2
  PROVE  mate(here) # Nil
<1>0. TypeInv /\ Flow /\ Sizes /\ Childless /\ Tree(settled, tops, live, h)
  BY DEF ShapeInv, Shape
<1>1. /\ \A id \in NodeId : settled[id] = nodes[id]
      /\ live \subseteq NodeId /\ Nil \notin live
  BY <1>0, RunningPlain, LiveIds
<1>2. /\ here \in live /\ here # Nil /\ above \in live \cup {Nil} /\ up(settled, here) = above
      /\ place \in 1 .. deg(settled, tops, above) /\ kid(settled, tops, above, place) = here
  BY <1>0, HereFacts
<1>3. /\ lft(settled, here) = nodes[here].left /\ rgt(settled, here) = nodes[here].right
      /\ up(settled, here) = nodes[here].parent
  BY <1>1, <1>2 DEF lft, rgt, up
<1>4. deg(settled, tops, above) \in Nat
  BY <1>0, <1>2 DEF Tree, Downward
<1>5. CASE place > 1
  <2>1. place - 1 \in 1 .. deg(settled, tops, above)
    BY <1>2, <1>4, <1>5
  <2>2. nodes[here].left = kid(settled, tops, above, place - 1)
    BY <1>0, <1>2, <1>3, <1>5 DEF Tree, Rows
  <2>3. nodes[here].left \in live /\ up(settled, nodes[here].left) = above
    BY <2>1, <2>2, <1>0, <1>2 DEF Tree, Downward
  <2>4. isMate(here, nodes[here].left)
    BY <2>3, <1>1, <1>2, <1>3 DEF isMate, up
  <2> QED BY <2>4 DEF mate, isMate
<1>6. CASE place < deg(settled, tops, above)
  <2>1. place + 1 \in 1 .. deg(settled, tops, above)
    BY <1>2, <1>4, <1>6
  <2>2. nodes[here].right = kid(settled, tops, above, place + 1)
    BY <1>0, <1>2, <1>3, <1>6 DEF Tree, Rows
  <2>3. nodes[here].right \in live /\ up(settled, nodes[here].right) = above
    BY <2>1, <2>2, <1>0, <1>2 DEF Tree, Downward
  <2>4. isMate(here, nodes[here].right)
    BY <2>3, <1>1, <1>2, <1>3 DEF isMate, up
  <2> QED BY <2>4 DEF mate, isMate
<1>7. place > 1 \/ place < deg(settled, tops, above)
  BY <1>2, <1>4
<1> QED BY <1>5, <1>6, <1>7

\* The caller of a running node is settled; it has a key, or is a root over one leaf.
LEMMA CallerFilled ==
  ASSUME ShapeInv, running, NEW h, Shape(h), outer # << >>
  PROVE  /\ filled(settled, tops, above) /\ above \in NodeId
         /\ size(settled[above]) \in Nat
         /\ deg(settled, tops, above) = size(settled[above]) + 1
         /\ least >= 1 /\ size(settled[above]) = 0 => tops = <<above>> /\ settled[here].leaf
<1>0. TypeInv /\ Flow /\ Sizes /\ Childless /\ Tree(settled, tops, live, h)
  BY DEF ShapeInv, Shape
<1>1. /\ \A id \in NodeId : settled[id] = nodes[id]
      /\ live \subseteq NodeId /\ Nil \notin live /\ tops = <<rootNode>> /\ rootNode # Nil
  BY <1>0, RunningPlain, LiveIds
<1>2. /\ above # here /\ above \in live /\ ~settled[above].leaf
      /\ place \in 1 .. deg(settled, tops, above) /\ kid(settled, tops, above, place) = here
  BY <1>0, HereFacts
<1>3. unsettled \subseteq {here}
  BY DEF unsettled, mending, here
<1>4. filled(settled, tops, above) /\ above \in NodeId
  BY <1>0, <1>1, <1>2, <1>3 DEF Sizes
<1>5. deg(settled, tops, above) = size(settled[above]) + 1 /\ size(settled[above]) \in Nat
  <2>1. size(nodes[above]) \in Nat /\ (~nodes[above].leaf => Len(nodes[above].children) = size(nodes[above]) + 1)
    BY <1>0, <1>4, NodeFacts
  <2>2. deg(settled, tops, above) = Len(nodes[above].children)
    BY <1>1, <1>2, <1>4 DEF deg, kids
  <2> QED BY <2>1, <2>2, <1>1, <1>2, <1>4
<1>6. ASSUME least >= 1, size(settled[above]) = 0 PROVE tops = <<above>> /\ settled[here].leaf
  <2>1. least \in Int
    BY SizeAssumption DEF least
  <2>2. tops = <<above>>
    BY <2>1, <1>2, <1>4, <1>6 DEF filled
  <2>3. above = rootNode
    BY <2>2, <1>1
  <2>4. branches(settled, rootNode)
    BY <2>3, <1>0, <1>1, <1>2, <1>3 DEF Sizes, running
  <2>5. deg(settled, tops, above) = Len(settled[above].children) /\ kid(settled, tops, above, place) = settled[above].children[place]
    BY <1>1, <1>2 DEF deg, kid, kids
  <2>6. settled[settled[above].children[place]].leaf
    BY <2>3, <2>4, <2>5, <1>2, <1>6 DEF branches
  <2> QED BY <2>2, <2>5, <2>6, <1>2
<1> QED BY <1>4, <1>5, <1>6

-----------------------------------------------------------------------------
(* Buffering, inserting and what finds a sibling *)

\* handleUnderflow of an internal node finds a sibling.
LEMMA UnderflowMate ==
  ASSUME ShapeInv, pc = "flush", Underflowed
  PROVE  mate(frame.node) # Nil
<1>1. PICK h : Shape(h)
  BY DEF ShapeInv
<1>2. TypeInv /\ Flow /\ Childless /\ running /\ here = frame.node
  BY DEF ShapeInv, running, here
<1>3. ~flusher.leaf /\ size(flusher) < least /\ ~isRoot(flusher) /\ flusher = nodes[here]
  BY <1>2 DEF Underflowed, FlushDone, isUnderflowing, least, flusher
<1>4. /\ \A id \in NodeId : settled[id] = nodes[id]
      /\ here \in NodeId /\ up(settled, here) = above
      /\ outer = << >> => above = Nil
  BY <1>1, <1>2, RunningPlain, HereFacts
<1>5. outer # << >>
  BY <1>3, <1>4 DEF up, isRoot
<1>6. size(nodes[here]) \in Nat
  BY <1>2, <1>4, NodeFacts
<1>7. least >= 1
  BY <1>3, <1>6, SizeAssumption DEF least
<1>8. size(settled[above]) # 0
  BY <1>1, <1>2, <1>3, <1>4, <1>5, <1>7, CallerFilled
<1>9. deg(settled, tops, above) >= 2
  BY <1>1, <1>2, <1>5, <1>8, CallerFilled
<1> QED BY <1>1, <1>2, <1>9, MateExists

\* A flush whose node needs no restructuring returns.
LEMMA EndFlushShape ==
  ASSUME ShapeInv, TypeInv', EndFlush
  PROVE  ShapeInv'
<1>1. PICK h : Shape(h)
  BY DEF ShapeInv
<1>2. /\ TypeInv /\ Childless /\ Flow /\ pc = "flush" /\ running /\ here = frame.node /\ outer = Front(stack)
      /\ stack # << >>
  BY DEF ShapeInv, EndFlush, FlushDone, running, here, outer, TypeInv, RunningCall
<1>3. ~Underflowed
  BY <1>2, UnderflowMate DEF EndFlush
<1>4. /\ pc' = "return" /\ change' = frame.out /\ stack' = outer /\ nodes' = nodes /\ allocated' = allocated
      /\ rootNode' = rootNode /\ orphans' = orphans
      /\ FlushDone /\ ~isOverflowing(flusher)
  BY <1>2 DEF EndFlush, Give, heap, history
<1>5. change'.type = "None" /\ change'.node = Nil
  <2>1. Len(stack) \in 1 .. Len(stack) /\ frame = stack[Len(stack)]
    BY <1>2, OuterFacts
  <2> QED BY <2>1, <1>1, <1>4 DEF Shape, Frames
<1>6. /\ tops = <<rootNode>> /\ here \in NodeId /\ up(settled, here) = above
      /\ settled[here] = nodes[here]
      /\ outer = << >> => here = rootNode
      /\ outer # << >> => above \in NodeId /\ above # Nil
  BY <1>1, <1>2, RunningPlain, HereFacts, LiveIds
<1>7. flusher = nodes[here] /\ size(nodes[here]) \in Nat
  BY <1>2, <1>6, NodeFacts DEF flusher
<1>8. filled(nodes', tops, here)
  <2>1. size(nodes[here]) < Fanout
    BY <1>4, <1>7, SizeAssumption DEF isOverflowing
  <2>2. CASE outer = << >>
    BY <2>1, <2>2, <1>4, <1>6 DEF filled
  <2>3. CASE outer # << >>
    <3>1. ~isRoot(flusher)
      BY <2>3, <1>6, <1>7 DEF up, isRoot
    <3>2. ~isUnderflowing(flusher)
      BY <3>1, <1>3, <1>4 DEF Underflowed
    <3>3. size(nodes[here]) >= least
      BY <3>2, <1>7, SizeAssumption DEF isUnderflowing, least
    <3> QED BY <2>1, <3>3, <1>4 DEF filled
  <2> QED BY <2>2, <2>3
<1>9. Childless'
  BY <1>2, <1>4 DEF Childless
<1> QED BY <1>1, <1>2, <1>4, <1>5, <1>8, <1>9, LocalReturn

\* A settled running node, before it changes.
LEMMA ApplyFacts ==
  ASSUME ShapeInv, pc = "apply", NEW h, Shape(h)
  PROVE  /\ TypeInv /\ Childless /\ Flow /\ Sizes /\ running /\ here = call.node /\ outer = stack
         /\ here \in live /\ here \in NodeId /\ target = nodes[here] /\ settled[here] = nodes[here]
         /\ live \subseteq NodeId /\ unsettled = {}
         /\ filled(nodes, tops, here) /\ change.type = "None" /\ change.node = Nil
<1>1. /\ TypeInv /\ Childless /\ Flow /\ Sizes /\ running /\ here = call.node /\ outer = stack
      /\ unsettled = {} /\ change.type = "None" /\ change.node = Nil
  BY DEF ShapeInv, running, here, outer, unsettled, mending, Flow
<1>2. /\ \A id \in NodeId : settled[id] = nodes[id]
      /\ tops = <<rootNode>> /\ rootNode \in NodeId
      /\ here \in live /\ here \in NodeId
      /\ live \subseteq NodeId
  BY <1>1, RunningPlain, HereFacts, LiveIds
<1>3. filled(settled, tops, here)
  BY <1>1, <1>2 DEF Sizes
<1>4. filled(nodes, tops, here)
  BY <1>2, <1>3 DEF filled
<1> QED BY <1>1, <1>2, <1>4 DEF target

\* Buffering a message changes neither links nor sizes.
LEMMA BufferedAlike ==
  ASSUME NEW n, isNode(n)
  PROVE  alike(buffered(n), n)
BY DEF isNode, buffered, alike, size

\* The message goes into the buffer of an internal node.
LEMMA BufferMessageShape ==
  ASSUME ShapeInv, TypeInv', BufferMessage
  PROVE  ShapeInv'
<1>1. PICK h : Shape(h)
  BY DEF ShapeInv
<1>2. /\ pc = "apply" /\ ~target.leaf /\ nodes' = [nodes EXCEPT ![call.node] = buffered(target)]
      /\ Give("Success", change) /\ allocated' = allocated /\ stack' = stack
  BY DEF BufferMessage
<1>3. /\ TypeInv /\ Childless /\ Flow /\ Sizes /\ running /\ here = call.node /\ outer = stack
      /\ here \in live /\ here \in NodeId /\ target = nodes[here] /\ settled[here] = nodes[here]
      /\ live \subseteq NodeId
      /\ filled(nodes, tops, here) /\ change.type = "None" /\ change.node = Nil
  BY <1>1, <1>2, ApplyFacts
<1>4. /\ pc' = "return" /\ change' = change /\ stack' = outer
      /\ rootNode' = rootNode /\ orphans' = orphans /\ allocated' = allocated
  BY <1>2, <1>3 DEF Give, history
<1>5. isNode(nodes[here]) /\ DOMAIN nodes = NodeId
  BY <1>3, NodeFacts DEF TypeInv, TypeOK, isHeap
<1>6. \A id \in NodeId : nodes'[id] = IF id = here THEN buffered(nodes[here]) ELSE nodes[id]
  BY <1>2, <1>3, <1>5
<1>7. \A id \in NodeId : alike(nodes'[id], nodes[id])
  <2>1. alike(buffered(nodes[here]), nodes[here])
    BY <1>5, BufferedAlike
  <2> QED BY <2>1, <1>6 DEF alike
<1>8. filled(nodes', tops, here)
  <2>1. nodes'[here].leaf = nodes[here].leaf /\ size(nodes'[here]) = size(nodes[here])
    BY <1>3, <1>7 DEF alike
  <2> QED BY <2>1, <1>2, <1>3 DEF filled
<1>9. Childless'
  BY <1>3, <1>7 DEF Childless, alike
<1>10. \A id \in live : /\ nodes'[id].leaf = nodes[id].leaf
                        /\ nodes'[id].children = nodes[id].children
                        /\ nodes'[id].parent = nodes[id].parent
                        /\ nodes'[id].left = nodes[id].left
                        /\ nodes'[id].right = nodes[id].right
                        /\ size(nodes'[id]) = size(nodes[id])
  BY <1>3, <1>7 DEF alike
<1> QED BY <1>1, <1>3, <1>4, <1>8, <1>9, <1>10, LocalReturn

\* A remove does not find its key.
LEMMA RemoveMissingShape ==
  ASSUME ShapeInv, TypeInv', RemoveMissing
  PROVE  ShapeInv'
<1>1. PICK h : Shape(h)
  BY DEF ShapeInv
<1>2. /\ pc = "apply" /\ Give("Success", change) /\ nodes' = nodes /\ allocated' = allocated /\ stack' = stack
  BY DEF RemoveMissing, heap
<1>3. /\ TypeInv /\ Childless /\ Flow /\ Sizes /\ running /\ here = call.node /\ outer = stack
      /\ filled(nodes, tops, here) /\ change.type = "None" /\ change.node = Nil
  BY <1>1, <1>2, ApplyFacts
<1>4. /\ pc' = "return" /\ change' = change /\ stack' = outer
      /\ rootNode' = rootNode /\ orphans' = orphans
  BY <1>2, <1>3 DEF Give, history
<1>5. Childless'
  BY <1>2, <1>3 DEF Childless
<1>6. filled(nodes', tops, here)
  BY <1>2, <1>3
<1> QED BY <1>1, <1>2, <1>3, <1>4, <1>5, <1>6, LocalReturn

\* Inserting changes no link, and adds a key at most.
LEMMA InsertedLinks ==
  ASSUME TypeInv, pc = "apply", target.leaf, call.msg # Absent
  PROVE  /\ \A f \in {"leaf", "children", "parent", "left", "right"} : inserted(target)[f] = target[f]
         /\ size(inserted(target)) \in {size(target), size(target) + 1} /\ size(target) \in Nat
<1>1. isNode(target) /\ call.key \in Key
  BY TargetType DEF TypeInv, RunningCall
<1>2. target.keys \in Seq(KeyType) /\ call.key \in KeyType /\ size(target) \in Nat
  BY <1>1 DEF isNode, KeyType, size
<1>3. position \in 1 .. (Len(target.keys) + 1)
  BY PositionType
<1>4. Len(InsertAt(target.keys, position, call.key)) = Len(target.keys) + 1
  BY <1>2, <1>3, InsertAtType
<1>5. CASE holds(target, call.key)
  BY <1>1, <1>2, <1>5 DEF inserted, isNode, size
<1>6. CASE ~holds(target, call.key)
  BY <1>1, <1>2, <1>4, <1>6 DEF inserted, isNode, size
<1> QED BY <1>5, <1>6

\* A leaf takes the key and does not overflow.
LEMMA InsertInLeafShape ==
  ASSUME ShapeInv, TypeInv', InsertInLeaf
  PROVE  ShapeInv'
<1>1. PICK h : Shape(h)
  BY DEF ShapeInv
<1>2. /\ pc = "apply" /\ target.leaf /\ call.msg # Absent /\ ~isOverflowing(inserted(target))
      /\ nodes' = [nodes EXCEPT ![call.node] = inserted(target)]
      /\ Give("Success", NoChange) /\ allocated' = allocated /\ stack' = stack
  BY DEF InsertInLeaf
<1>3. /\ TypeInv /\ Childless /\ Flow /\ Sizes /\ running /\ here = call.node /\ outer = stack
      /\ here \in live /\ here \in NodeId /\ target = nodes[here] /\ live \subseteq NodeId
      /\ filled(nodes, tops, here)
  BY <1>1, <1>2, ApplyFacts
<1>4. /\ pc' = "return" /\ change'.type = "None" /\ change'.node = Nil /\ stack' = outer
      /\ rootNode' = rootNode /\ orphans' = orphans /\ allocated' = allocated
  BY <1>2, <1>3 DEF Give, history, NoChange
<1>5. \A id \in NodeId : nodes'[id] = IF id = here THEN inserted(target) ELSE nodes[id]
  BY <1>2, <1>3 DEF TypeInv, TypeOK, isHeap
<1>6. /\ \A f \in {"leaf", "children", "parent", "left", "right"} : inserted(target)[f] = target[f]
      /\ size(inserted(target)) \in {size(target), size(target) + 1} /\ size(target) \in Nat
  BY <1>2, <1>3, InsertedLinks
<1>7. \A id \in NodeId : /\ nodes'[id].leaf = nodes[id].leaf
                         /\ nodes'[id].children = nodes[id].children
                         /\ nodes'[id].parent = nodes[id].parent
                         /\ nodes'[id].left = nodes[id].left
                         /\ nodes'[id].right = nodes[id].right
  BY <1>3, <1>5, <1>6
<1>8. \A id \in live : id # here \/ ~nodes[here].leaf => size(nodes'[id]) = size(nodes[id])
  BY <1>2, <1>3, <1>5
<1>9. filled(nodes', tops, here)
  <2>1. size(nodes'[here]) < Fanout
    <3>1. size(inserted(target)) \in Nat
      BY <1>6
    <3> QED BY <3>1, <1>2, <1>3, <1>5, SizeAssumption DEF isOverflowing
  <2>2. CASE tops = <<here>>
    BY <2>1, <2>2 DEF filled
  <2>3. CASE size(nodes[here]) >= least
    <3>1. least \in Int
      BY SizeAssumption DEF least
    <3>3. size(nodes'[here]) \in {size(nodes[here]), size(nodes[here]) + 1} /\ size(nodes[here]) \in Nat
      BY <1>3, <1>5, <1>6
    <3> QED BY <2>1, <2>3, <3>1, <3>3 DEF filled
  <2>4. CASE nodes[here].leaf /\ tops = <<nodes[here].parent>> /\ size(nodes[nodes[here].parent]) = 0
    <3>1. CASE nodes[here].parent = here
      BY <3>1, <2>2, <2>4
    <3>2. CASE nodes[here].parent # here
      <4>1. nodes[here].parent \in live
        BY <1>1, <2>4, TopLive DEF Shape
      <4> QED BY <2>1, <2>4, <3>2, <4>1, <1>3, <1>7, <1>8 DEF filled
    <3> QED BY <3>1, <3>2
  <2> QED BY <2>2, <2>3, <2>4, <1>3 DEF filled
<1>10. Childless'
  BY <1>3, <1>7 DEF Childless
<1> QED BY <1>1, <1>3, <1>4, <1>7, <1>8, <1>9, <1>10, LocalReturn

-----------------------------------------------------------------------------
(* Removing, and starting a flush *)

\* Removing changes no link, and takes one key.
LEMMA ErasedLinks ==
  ASSUME TypeInv, Removes
  PROVE  /\ \A f \in {"leaf", "children", "parent", "left", "right"} : erased(target)[f] = target[f]
         /\ size(erased(target)) = size(target) - 1 /\ size(target) \in Nat /\ size(target) >= 1
         /\ size(erased(target)) \in Nat
<1>1. isNode(target) /\ pc = "apply"
  BY TargetType DEF Removes
<1>2. target.keys \in Seq(KeyType) /\ size(target) \in Nat /\ size(target) = Len(target.keys)
  BY <1>1 DEF isNode, size
<1>3. position \in 1 .. Len(target.keys)
  BY <1>1, PositionType DEF Removes
<1>4. Len(RemoveAt(target.keys, position)) = Len(target.keys) - 1
  BY <1>2, <1>3, RemoveAtType
<1>5. \A f \in {"leaf", "children", "parent", "left", "right"} : erased(target)[f] = target[f]
  BY <1>1 DEF erased, isNode
<1>6. erased(target).keys = RemoveAt(target.keys, position)
  BY <1>1 DEF erased, isNode
<1>7. size(erased(target)) = size(target) - 1
  BY <1>4, <1>6 DEF size
<1>8. size(target) >= 1
  BY <1>2, <1>3
<1>9. size(target) - 1 \in Nat
  BY <1>2, <1>8
<1> QED BY <1>2, <1>5, <1>7, <1>8, <1>9

\* The only leaf below a root without keys has no sibling to ask; any other has.
LEMMA LonelyLeaf ==
  ASSUME ShapeInv, pc = "apply", NEW h, Shape(h), mate(here) = Nil, outer # << >>, least >= 1
  PROVE  tops = <<above>> /\ size(settled[above]) = 0
<1>1. running
  BY DEF running
<1>2. /\ filled(settled, tops, above) /\ size(settled[above]) \in Nat
      /\ deg(settled, tops, above) = size(settled[above]) + 1
      /\ least >= 1 /\ size(settled[above]) = 0 => tops = <<above>>
  BY <1>1, CallerFilled
<1>3. ~(deg(settled, tops, above) >= 2)
  BY <1>1, MateExists
<1> QED BY <1>2, <1>3

\* A leaf loses the key, and is not starved or has no neighbour to ask.
LEMMA RemoveFromLeafShape ==
  ASSUME ShapeInv, TypeInv', RemoveFromLeaf
  PROVE  ShapeInv'
<1>1. PICK h : Shape(h)
  BY DEF ShapeInv
<1>2. /\ Removes /\ pc = "apply" /\ target.leaf /\ nodes' = shrunk /\ (starved => mate(call.node) = Nil)
      /\ Give(IF starved THEN "Error" ELSE "Success", change) /\ allocated' = allocated /\ stack' = stack
  BY DEF RemoveFromLeaf, Removes
<1>3. /\ TypeInv /\ Childless /\ Flow /\ Sizes /\ running /\ here = call.node /\ outer = stack
      /\ here \in live /\ here \in NodeId /\ target = nodes[here] /\ live \subseteq NodeId
      /\ settled[here] = nodes[here]
      /\ filled(nodes, tops, here) /\ change.type = "None" /\ change.node = Nil
  BY <1>1, <1>2, ApplyFacts
<1>4. /\ pc' = "return" /\ change'.type = "None" /\ change'.node = Nil /\ stack' = outer
      /\ rootNode' = rootNode /\ orphans' = orphans /\ allocated' = allocated
  BY <1>2, <1>3 DEF Give, history
<1>5. \A id \in NodeId : nodes'[id] = IF id = here THEN erased(target) ELSE nodes[id]
  BY <1>2, <1>3 DEF TypeInv, TypeOK, isHeap, shrunk
<1>6. /\ \A f \in {"leaf", "children", "parent", "left", "right"} : erased(target)[f] = target[f]
      /\ size(erased(target)) = size(target) - 1 /\ size(target) \in Nat /\ size(target) >= 1
      /\ size(erased(target)) \in Nat
  BY <1>2, <1>3, ErasedLinks
<1>7. \A id \in NodeId : /\ nodes'[id].leaf = nodes[id].leaf
                         /\ nodes'[id].children = nodes[id].children
                         /\ nodes'[id].parent = nodes[id].parent
                         /\ nodes'[id].left = nodes[id].left
                         /\ nodes'[id].right = nodes[id].right
  BY <1>3, <1>5, <1>6
<1>8. \A id \in live : id # here \/ ~nodes[here].leaf => size(nodes'[id]) = size(nodes[id])
  BY <1>2, <1>3, <1>5
<1>9. filled(nodes', tops, here)
  <2>1. size(nodes'[here]) < Fanout
    BY <1>3, <1>5, <1>6, SizeAssumption DEF filled
  <2>2. /\ up(settled, here) = above /\ above # here
        /\ outer = << >> => here = rootNode
        /\ outer # << >> => above \in live
        /\ tops = <<rootNode>>
        /\ \A id \in NodeId : settled[id] = nodes[id]
    BY <1>1, <1>3, HereFacts, RunningPlain
  <2>3. CASE outer = << >>
    BY <2>1, <2>2, <2>3 DEF filled
  <2>4. CASE outer # << >> /\ ~isUnderflowing(erased(target))
    <3>1. size(nodes'[here]) >= least
      BY <2>4, <1>3, <1>5, <1>6, SizeAssumption DEF isUnderflowing, least
    <3> QED BY <2>1, <3>1 DEF filled
  <2>5. CASE outer # << >> /\ isUnderflowing(erased(target))
    <3>1. above # Nil
      BY <2>2, <2>5, <1>3, LiveIds
    <3>2. ~isRoot(target)
      BY <3>1, <2>2, <1>3 DEF isRoot, up
    <3>3. mate(here) = Nil
      BY <3>2, <2>5, <1>2, <1>3 DEF starved
    <3>4. least >= 1
      BY <2>5, <1>6, SizeAssumption DEF isUnderflowing, least
    <3>5. tops = <<above>> /\ size(settled[above]) = 0
      BY <3>3, <3>4, <2>5, <1>1, <1>2, LonelyLeaf
    <3>6. above \in NodeId
      BY <2>2, <2>5, <1>3
    <3>7. nodes'[here].leaf /\ nodes'[here].parent = above
      BY <1>2, <1>3, <1>7, <2>2 DEF up
    <3>8. size(nodes'[above]) = 0
      BY <3>5, <3>6, <2>2, <1>5
    <3> QED BY <2>1, <3>5, <3>7, <3>8 DEF filled
  <2> QED BY <2>3, <2>4, <2>5
<1>10. Childless'
  BY <1>3, <1>7 DEF Childless
<1> QED BY <1>1, <1>3, <1>4, <1>7, <1>8, <1>9, <1>10, LocalReturn

-----------------------------------------------------------------------------

\* The buffer overflows, and a batch of it is to go to one child.
LEMMA StartFlushShape ==
  ASSUME ShapeInv, TypeInv', StartFlush
  PROVE  ShapeInv'
<1> DEFINE n == buffered(target)
           fr(i) == [node |-> call.node, child |-> n.children[i + 1], idx |-> i,
                     batch |-> messagesFor(n, i), out |-> change]
<1>1. PICK h : Shape(h)
  BY DEF ShapeInv
<1>2. /\ pc = "apply" /\ ~target.leaf /\ nodes' = [nodes EXCEPT ![call.node] = n]
      /\ pc' = "flush" /\ change' = NoChange /\ err' = "Success" /\ allocated' = allocated
      /\ rootNode' = rootNode /\ orphans' = orphans
      /\ \E i \in 0 .. size(n) : stack' = Append(stack, fr(i))
  BY DEF StartFlush, history
<1>3. /\ TypeInv /\ Childless /\ Flow /\ Sizes /\ running /\ here = call.node /\ outer = stack
      /\ here \in live /\ here \in NodeId /\ target = nodes[here] /\ live \subseteq NodeId
      /\ unsettled = {} /\ change.type = "None" /\ change.node = Nil
  BY <1>1, <1>2, ApplyFacts
<1>4. isNode(nodes[here]) /\ DOMAIN nodes = NodeId /\ alike(n, nodes[here])
  BY <1>3, NodeFacts, BufferedAlike DEF TypeInv, TypeOK, isHeap
<1>5. PICK i \in 0 .. size(n) : stack' = Append(stack, fr(i))
  BY <1>2
<1>6. /\ i + 1 \in 1 .. Len(nodes[here].children) /\ DOMAIN nodes[here].children = 1 .. Len(nodes[here].children)
      /\ n.children = nodes[here].children /\ i \in Nat
  <2>1. size(n) = size(nodes[here]) /\ n.children = nodes[here].children
    BY <1>4 DEF alike
  <2>2. Len(nodes[here].children) = size(nodes[here]) + 1 /\ nodes[here].children \in Seq(NodeId) /\ size(nodes[here]) \in Nat
    BY <1>2, <1>3, NodeFacts
  <2> QED BY <2>1, <2>2
<1>7. \A id \in NodeId : nodes'[id] = IF id = here THEN n ELSE nodes[id]
  BY <1>2, <1>3, <1>4
<1>8. \A id \in NodeId : alike(nodes'[id], nodes[id])
  BY <1>4, <1>7 DEF alike
<1> HIDE DEF n
<1>9. /\ settled' = nodes' /\ live' = live /\ tops' = tops /\ unsettled' = {}
      /\ \A id \in NodeId : settled[id] = nodes[id]
      /\ rootNode # Nil /\ tops = <<rootNode>>
  <2>1. /\ \A id \in NodeId : settled[id] = nodes[id]
        /\ live = allocated \ orphans /\ rootNode # Nil /\ tops = <<rootNode>>
    BY <1>3, RunningPlain
  <2> QED BY <2>1, <1>2 DEF settled, live, tops, pending, unsettled, mending
<1>10. Tree(settled, tops, live, h) /\ Frames(h) /\ Nil \notin live
  BY <1>1, <1>3, LiveIds DEF Shape
<1>11. rootNode \in live
  BY <1>9, <1>10, TopLive
<1>12. branches(settled, rootNode)
  BY <1>2, <1>3, <1>9 DEF Sizes
<1>13. Tree(settled', tops', live', h) /\ Sizes'
  <2>1. \A id \in live : alike(settled'[id], settled[id])
    BY <1>3, <1>8, <1>9
  <2> QED BY <2>1, <1>2, <1>3, <1>9, <1>10, <1>11, <1>12, ContentStep
<1>14. Childless'
  BY <1>3, <1>8 DEF Childless, alike
<1>15. /\ Len(stack) \in Nat /\ Len(stack') = Len(stack) + 1
       /\ \A j \in 1 .. Len(stack) : stack'[j] = stack[j]
       /\ stack'[Len(stack) + 1] = fr(i) /\ stack' # << >> /\ frame' = fr(i)
  <2>1. Len(stack) \in Nat /\ stack \in Seq(Frame) /\ stack' \in Seq(Frame)
    BY <1>3 DEF TypeInv, TypeOK
  <2>2. /\ Len(stack') = Len(stack) + 1
        /\ \A j \in 1 .. Len(stack) : stack'[j] = stack[j]
        /\ stack'[Len(stack) + 1] = fr(i)
    <3> HIDE DEF fr
    <3> QED BY <1>5, <2>1
  <2>3. stack' # << >>
    BY <2>1, <2>2
  <2>4. frame' = stack'[Len(stack')]
    BY DEF frame, Last
  <2> QED BY <2>1, <2>2, <2>3, <2>4
<1>16. fr(i).node = here /\ fr(i).child = nodes[here].children[i + 1] /\ fr(i).idx = i /\ fr(i).out = change
  BY <1>3, <1>6
<1> HIDE DEF fr
<1>17. \A id \in NodeId : settled'[id].children = nodes[id].children /\ settled'[id].leaf = nodes[id].leaf
  BY <1>8, <1>9 DEF alike
<1>18. current(settled', frame')
  BY <1>3, <1>6, <1>15, <1>16, <1>17 DEF current
<1>19. Flow'
  BY <1>2, <1>3, <1>15, <1>18 DEF Flow, NoChange
<1>20. Frames(h)'
  <2>1. /\ h[here] + Len(stack) + 1 = h[Nil] /\ h[here] \in Nat /\ h[Nil] \in Nat
        /\ outer # << >> => Last(outer).child = here /\ current(settled, Last(outer))
    BY <1>1, <1>3, HereFacts
  <2>2. ASSUME NEW j \in 1 .. Len(stack')
        PROVE  /\ stack'[j].node \in live' /\ ~settled'[stack'[j].node].leaf
               /\ h[stack'[j].node] + j = h[Nil]
               /\ stack'[j].out.type = "None" /\ stack'[j].out.node = Nil
    <3>1. CASE j \in 1 .. Len(stack)
      <4>1. /\ stack[j].node \in live /\ ~settled[stack[j].node].leaf /\ h[stack[j].node] + j = h[Nil]
            /\ stack[j].out.type = "None" /\ stack[j].out.node = Nil
        BY <3>1, <1>10 DEF Frames
      <4> QED BY <4>1, <3>1, <1>3, <1>9, <1>15, <1>17
    <3>2. CASE j = Len(stack) + 1
      <4>1. stack'[j] = fr(i)
        BY <3>2, <1>15
      <4>2. h[here] + j = h[Nil]
        <5>1. Len(stack) \in Nat
          BY <1>15
        <5> QED BY ONLY <3>2, <2>1, <5>1
      <4>3. ~settled'[here].leaf
        BY <1>2, <1>3, <1>17
      <4> QED BY <4>1, <4>2, <4>3, <1>3, <1>9, <1>16
    <3>3. j \in 1 .. Len(stack) \/ j = Len(stack) + 1
      BY <1>15
    <3> QED BY <3>1, <3>2, <3>3
  <2>3. ASSUME NEW j \in 1 .. (Len(stack') - 1)
        PROVE  stack'[j].child = stack'[j + 1].node /\ current(settled', stack'[j])
    <3>1. j \in 1 .. Len(stack) /\ stack'[j] = stack[j]
      BY <1>15
    <3>2. stack[j].child = stack'[j + 1].node /\ current(settled, stack[j])
      <4>1. CASE j \in 1 .. (Len(stack) - 1)
        <5>1. j + 1 \in 1 .. Len(stack) /\ stack'[j + 1] = stack[j + 1]
          BY <4>1, <1>15
        <5> QED BY <4>1, <5>1, <1>10 DEF Frames
      <4>2. CASE j = Len(stack)
        <5>1. stack'[j + 1].node = here
          BY <4>2, <1>15, <1>16
        <5>2. outer # << >> /\ Last(outer) = stack[j]
          <6>1. Len(outer) # 0
            BY <3>1, <4>2, <1>3, <1>15
          <6>2. outer # << >>
            BY <6>1
          <6> QED BY <6>2, <4>2, <1>3 DEF Last
        <5> QED BY <5>1, <5>2, <2>1
      <4> QED BY <3>1, <4>1, <4>2, <1>15
    <3>3. stack[j].node \in NodeId
      BY <3>1, <1>3, <1>10 DEF Frames
    <3>4. settled'[stack[j].node].children = settled[stack[j].node].children
      BY <3>3, <1>9, <1>17
    <3> QED BY <3>1, <3>2, <3>4 DEF current
  <2> QED BY <2>2, <2>3 DEF Frames
<1> QED BY <1>1, <1>13, <1>14, <1>19, <1>20 DEF ShapeInv, Shape

-----------------------------------------------------------------------------
(* Passing messages and taking over reports *)

\* The next message of the batch goes to the child.
LEMMA PassMessageShape ==
  ASSUME ShapeInv, TypeInv', PassMessage
  PROVE  ShapeInv'
<1>1. PICK h : Shape(h)
  BY DEF ShapeInv
<1>2. PICK k \in frame.batch :
        /\ pass(k)
        /\ nodes' = [nodes EXCEPT ![frame.node].buffer = Restrict(@, DOMAIN @ \ {k})]
        /\ stack' = [stack EXCEPT ![Len(stack)].batch = @ \ {k}]
  BY DEF PassMessage
<1>3. /\ pc = "flush" /\ frame.batch # {} /\ pc' = "apply" /\ allocated' = allocated /\ rootNode' = rootNode
      /\ change' = change /\ err' = err /\ orphans' = orphans
  BY DEF PassMessage, history
<1>4. /\ TypeInv /\ Childless /\ Flow /\ Sizes /\ running /\ here = frame.node
      /\ err = "Success" /\ current(settled, frame) /\ change.type = "None" /\ change.node = Nil
      /\ unsettled = {} /\ unsettled' = {} /\ stack # << >>
  BY <1>3 DEF ShapeInv, running, here, unsettled, mending, Flow, TypeInv, RunningCall
<1>5. /\ \A id \in NodeId : settled[id] = nodes[id]
      /\ live = allocated \ orphans
      /\ rootNode # Nil /\ tops = <<rootNode>>
      /\ here \in live /\ live \subseteq NodeId /\ Nil \notin live
  BY <1>1, <1>4, RunningPlain, HereFacts, LiveIds
<1>6. settled' = nodes' /\ live' = live /\ tops' = tops
  BY <1>3, <1>5 DEF settled, live, tops, pending
<1>7. Tree(settled, tops, live, h) /\ Frames(h)
  BY <1>1 DEF Shape
<1>8. \A id \in NodeId : alike(nodes'[id], nodes[id])
  <2>1. DOMAIN nodes = NodeId /\ isNode(nodes[here]) /\ here \in NodeId
    BY <1>4, <1>5 DEF TypeInv, TypeOK, isHeap
  <2>2. nodes' = [nodes EXCEPT ![here] = [nodes[here] EXCEPT !.buffer = Restrict(@, DOMAIN @ \ {k})]]
    BY <1>2, <1>4
  <2>3. alike([nodes[here] EXCEPT !.buffer = Restrict(@, DOMAIN @ \ {k})], nodes[here])
    BY <2>1 DEF alike, size, isNode
  <2> QED BY <2>1, <2>2, <2>3 DEF alike
<1>9. rootNode \in live
  BY <1>5, <1>7, TopLive
<1>10. branches(settled, rootNode)
  BY <1>3, <1>4, <1>5 DEF Sizes
<1>11. Tree(settled', tops', live', h) /\ Sizes'
  <2>1. \A id \in live : alike(settled'[id], settled[id])
    BY <1>5, <1>6, <1>8
  <2> QED BY <2>1, <1>3, <1>4, <1>5, <1>6, <1>7, <1>9, <1>10, ContentStep
<1>12. Childless'
  BY <1>4, <1>8 DEF Childless, alike
<1>13. /\ Len(stack) \in Nat /\ Len(stack) >= 1 /\ Len(stack') = Len(stack) /\ stack' # << >>
       /\ \A j \in 1 .. Len(stack) : /\ stack'[j].node = stack[j].node /\ stack'[j].child = stack[j].child
                                     /\ stack'[j].idx = stack[j].idx /\ stack'[j].out = stack[j].out
       /\ frame'.node = frame.node /\ frame'.child = frame.child /\ frame'.idx = frame.idx
  <2>1. stack \in Seq(Frame) /\ Len(stack) \in Nat /\ Len(stack) >= 1
    BY <1>4, EmptySeq DEF TypeInv, TypeOK
  <2>2. \A j \in 1 .. Len(stack) : DOMAIN stack[j] = {"node", "child", "idx", "batch", "out"}
    <3>1. ASSUME NEW f \in Frame PROVE DOMAIN f = {"node", "child", "idx", "batch", "out"}
      BY DEF Frame
    <3>2. \A j \in 1 .. Len(stack) : stack[j] \in Frame
      BY <2>1
    <3> QED BY <3>1, <3>2
  <2>3. Len(stack') = Len(stack)
    BY <1>2, <2>1
  <2> DEFINE top == stack[Len(stack)]
  <2>8. stack' = [stack EXCEPT ![Len(stack)] = [top EXCEPT !.batch = @ \ {k}]]
    BY <1>2
  <2>9. \A j \in 1 .. Len(stack) : stack'[j] = IF j = Len(stack) THEN [top EXCEPT !.batch = @ \ {k}] ELSE stack[j]
    BY <2>1, <2>8
  <2>4. \A j \in 1 .. Len(stack) : /\ stack'[j].node = stack[j].node /\ stack'[j].child = stack[j].child
                                   /\ stack'[j].idx = stack[j].idx /\ stack'[j].out = stack[j].out
    BY <2>1, <2>2, <2>9
  <2>5. frame = stack[Len(stack)] /\ frame' = stack'[Len(stack)]
    BY <2>3 DEF frame, Last
  <2>6. stack' # << >>
    BY <2>1, <2>3
  <2> QED BY <2>1, <2>3, <2>4, <2>5, <2>6
<1>14. \A id \in live : settled'[id].children = settled[id].children /\ settled'[id].leaf = settled[id].leaf
  BY <1>5, <1>6, <1>8 DEF alike
<1>15. current(settled', frame')
  BY <1>4, <1>5, <1>13, <1>14 DEF current
<1>16. call'.node = frame.child /\ call'.idx = frame.idx
  BY <1>2 DEF pass
<1>17. Flow'
  BY <1>3, <1>4, <1>13, <1>15, <1>16 DEF Flow
<1>18. Frames(h)'
  <2>1. ASSUME NEW j \in 1 .. Len(stack')
        PROVE  /\ stack'[j].node \in live' /\ ~settled'[stack'[j].node].leaf
               /\ h[stack'[j].node] + j = h[Nil]
               /\ stack'[j].out.type = "None" /\ stack'[j].out.node = Nil
    BY <1>6, <1>7, <1>13, <1>14 DEF Frames
  <2>2. ASSUME NEW j \in 1 .. (Len(stack') - 1)
        PROVE  stack'[j].child = stack'[j + 1].node /\ current(settled', stack'[j])
    <3>1. j \in 1 .. (Len(stack) - 1) /\ j \in 1 .. Len(stack) /\ j + 1 \in 1 .. Len(stack)
      BY <1>13
    <3>2. stack[j].child = stack[j + 1].node /\ current(settled, stack[j]) /\ stack[j].node \in live
      BY <3>1, <1>7 DEF Frames
    <3>3. stack'[j].child = stack'[j + 1].node
      BY <3>1, <3>2, <1>13
    <3>4. current(settled', stack'[j])
      BY <3>1, <3>2, <1>13, <1>14 DEF current
    <3> QED BY <3>3, <3>4
  <2> QED BY <2>1, <2>2 DEF Frames
<1> QED BY <1>1, <1>11, <1>12, <1>17, <1>18 DEF ShapeInv, Shape

\* A caller that takes over what its child reports: the tree was already counted so.
LEMMA ChildReturnsShape ==
  ASSUME ShapeInv, TypeInv', ChildReturns
  PROVE  ShapeInv'
<1>1. PICK h : Shape(h)
  BY DEF ShapeInv
<1>2. /\ pc = "return" /\ stack # << >> /\ inRange(flusher, frame.idx, change)
      /\ nodes' = [id \in NodeId |-> IF id \in gone(change) THEN NewLeaf
                                     ELSE IF id = frame.node
                                       THEN adjusted(flusher, frame.idx, change)
                                       ELSE nodes[id]]
      /\ allocated' = allocated \ gone(change)
      /\ stack' = [stack EXCEPT ![Len(stack)].batch = remaining(@)]
      /\ pc' = "flush" /\ rootNode' = rootNode /\ change' = change /\ err' = err /\ orphans' = orphans
  BY DEF ChildReturns, history
<1>3. TypeInv /\ Childless /\ Flow /\ Sizes /\ pending
  BY <1>2 DEF ShapeInv, pending
<1>4. settled' = settled /\ live' = live /\ tops' = tops
  <2>1. settled = repaired(nodes, change, frame) /\ live = (allocated \ gone(change)) \ orphans
    BY <1>3 DEF settled, live
  <2>2. nodes' = repaired(nodes, change, frame)
    BY <1>2 DEF repaired, flusher
  <2>3. settled' = nodes' /\ live' = allocated' \ orphans'
    BY <1>2 DEF settled, live, pending
  <2> QED BY <2>1, <2>2, <2>3, <1>2 DEF tops
<1>5. Tree(settled, tops, live, h) /\ Frames(h) /\ Nil \notin live /\ live \subseteq NodeId
  BY <1>1, <1>3, LiveIds DEF Shape
<1>6. /\ Len(stack) \in Nat /\ Len(stack) >= 1 /\ Len(stack') = Len(stack) /\ stack' # << >>
      /\ \A j \in 1 .. Len(stack) : /\ stack'[j].node = stack[j].node /\ stack'[j].child = stack[j].child
                                    /\ stack'[j].idx = stack[j].idx /\ stack'[j].out = stack[j].out
      /\ frame'.node = frame.node /\ frame'.child = frame.child /\ frame'.idx = frame.idx
      /\ frame'.batch = remaining(frame.batch)
      /\ frame = stack[Len(stack)]
  <2>1. stack \in Seq(Frame) /\ Len(stack) \in Nat /\ Len(stack) >= 1
    BY <1>2, <1>3, EmptySeq DEF TypeInv, TypeOK
  <2>2. \A j \in 1 .. Len(stack) : DOMAIN stack[j] = {"node", "child", "idx", "batch", "out"}
    <3>1. ASSUME NEW f \in Frame PROVE DOMAIN f = {"node", "child", "idx", "batch", "out"}
      BY DEF Frame
    <3>2. \A j \in 1 .. Len(stack) : stack[j] \in Frame
      BY <2>1
    <3> QED BY <3>1, <3>2
  <2>3. Len(stack') = Len(stack)
    BY <1>2, <2>1
  <2> DEFINE top == stack[Len(stack)]
  <2>8. stack' = [stack EXCEPT ![Len(stack)] = [top EXCEPT !.batch = remaining(@)]]
    BY <1>2
  <2>9. \A j \in 1 .. Len(stack) : stack'[j] = IF j = Len(stack) THEN [top EXCEPT !.batch = remaining(@)] ELSE stack[j]
    BY <2>1, <2>8
  <2>4. \A j \in 1 .. Len(stack) : /\ stack'[j].node = stack[j].node /\ stack'[j].child = stack[j].child
                                   /\ stack'[j].idx = stack[j].idx /\ stack'[j].out = stack[j].out
    BY <2>1, <2>2, <2>9
  <2>5. frame = stack[Len(stack)] /\ frame' = stack'[Len(stack)]
    BY <2>3 DEF frame, Last
  <2>6. stack' # << >>
    BY <2>1, <2>3
  <2>7. frame'.batch = remaining(frame.batch)
    BY <2>1, <2>2, <2>5, <1>2
  <2> QED BY <2>1, <2>3, <2>4, <2>5, <2>6, <2>7
<1>7. frame.node \in live /\ frame.node \in NodeId
  <2>1. Len(stack) \in 1 .. Len(stack)
    BY <1>6
  <2> QED BY <2>1, <1>5, <1>6 DEF Frames
<1>8. unsettled' = unsettled
  BY <1>2, <1>6 DEF unsettled, mending
<1>9. rootNode # Nil
  BY <1>2, <1>3, LiveIds DEF TypeInv, RunningCall
<1>10. Sizes'
  <2>1. \A id \in live' \ unsettled' : filled(settled', tops', id)
    BY <1>3, <1>4, <1>8 DEF Sizes
  <2>2. \A id \in unsettled' : nearlyFilled(settled', tops', id)
    BY <1>3, <1>4, <1>8 DEF Sizes
  <2>3. rootNode \in unsettled \/ branches(settled, rootNode)
    BY <1>2, <1>3, <1>9 DEF Sizes
  <2> QED BY <2>1, <2>2, <2>3, <1>2, <1>4, <1>8 DEF Sizes
<1>11. Childless'
  <2>1. ~flusher.leaf /\ isNode(flusher)
    BY <1>2, <1>3, FrameType DEF inRange
  <2>2. ~adjusted(flusher, frame.idx, change).leaf
    BY <2>1 DEF adjusted, isNode
  <2>3. NewLeaf.children = << >>
    BY DEF NewLeaf
  <2> QED BY <1>2, <1>3, <2>2, <2>3 DEF Childless
<1>12. err = "Success" => current(settled', frame')
  BY <1>2, <1>3, <1>4, <1>6 DEF Flow, current
<1>13. Flow'
  <2>1. orphans' \subseteq allocated'
    <3>1. orphans \subseteq allocated \ gone(change)
      <4>1. gone(change) \cap orphans = {}
        BY <1>2, <1>3 DEF Flow
      <4> QED BY <4>1, <1>3 DEF Flow
    <3> QED BY <3>1, <1>2
  <2>2. err' = "Success" => change'.type = "None" /\ change'.node = Nil
    BY <1>2, <1>3 DEF Flow
  <2>3. frame'.batch # {} => err' = "Success" /\ current(settled', frame')
    BY <1>2, <1>6, <1>12 DEF remaining
  <2> QED BY <2>1, <2>2, <2>3, <1>2 DEF Flow
<1>14. Frames(h)'
  <2>1. ASSUME NEW j \in 1 .. Len(stack')
        PROVE  /\ stack'[j].node \in live' /\ ~settled'[stack'[j].node].leaf
               /\ h[stack'[j].node] + j = h[Nil]
               /\ stack'[j].out.type = "None" /\ stack'[j].out.node = Nil
    BY <1>4, <1>5, <1>6 DEF Frames
  <2>2. ASSUME NEW j \in 1 .. (Len(stack') - 1)
        PROVE  stack'[j].child = stack'[j + 1].node /\ current(settled', stack'[j])
    <3>1. j \in 1 .. (Len(stack) - 1) /\ j \in 1 .. Len(stack) /\ j + 1 \in 1 .. Len(stack)
      BY <1>6
    <3>2. stack[j].child = stack[j + 1].node /\ current(settled, stack[j])
      BY <3>1, <1>5 DEF Frames
    <3> QED BY <3>1, <3>2, <1>4, <1>6 DEF current
  <2> QED BY <2>1, <2>2 DEF Frames
<1> QED BY <1>1, <1>4, <1>5, <1>10, <1>11, <1>13, <1>14 DEF ShapeInv, Shape

-----------------------------------------------------------------------------
(* The empty tree, and the end of a call *)

\* Nothing changes.
LEMMA StutterShape ==
  ASSUME ShapeInv, TypeInv', UNCHANGED vars
  PROVE  ShapeInv'
<1>1. /\ nodes' = nodes /\ allocated' = allocated /\ rootNode' = rootNode /\ pc' = pc /\ call' = call
      /\ stack' = stack /\ change' = change /\ err' = err /\ orphans' = orphans
  BY DEF vars
<1>2. settled' = settled /\ live' = live /\ tops' = tops /\ unsettled' = unsettled /\ frame' = frame
  BY <1>1 DEF settled, live, tops, unsettled, mending, frame, pending
<1>3. PICK h : Shape(h)
  BY DEF ShapeInv
<1>4. Shape(h)'
  BY <1>1, <1>2, <1>3 DEF Shape, Frames
<1>5. Sizes'
  BY <1>1, <1>2 DEF ShapeInv, Sizes
<1>6. Flow' /\ Childless'
  BY <1>1, <1>2 DEF ShapeInv, Flow, Childless
<1> QED BY <1>4, <1>5, <1>6 DEF ShapeInv

\* The empty tree.
LEMMA InitShape == Init => ShapeInv
<1> SUFFICES ASSUME Init PROVE ShapeInv
  OBVIOUS
<1>1. TypeInv
  BY InitType
<1>2. /\ nodes = [id \in NodeId |-> NewLeaf] /\ allocated = {} /\ rootNode = Nil /\ pc = "idle"
      /\ stack = << >> /\ change = NoChange /\ orphans = {}
  BY DEF Init
<1>3. live = {} /\ tops = << >> /\ unsettled = {}
  BY <1>2 DEF live, tops, unsettled, mending, pending
<1> DEFINE h == [q \in NodeId \cup {Nil} |-> 0]
<1>4. Shape(h)
  <2>1. deg(settled, tops, Nil) = 0
    BY <1>3 DEF deg, kids
  <2>2. Tree(settled, tops, live, h)
    BY <2>1, <1>3, FellTree
  <2>3. Frames(h)
    BY <1>2 DEF Frames
  <2> QED BY <2>2, <2>3 DEF Shape
<1>5. Sizes
  BY <1>2, <1>3 DEF Sizes
<1>6. Flow
  BY <1>2 DEF Flow, NoChange
<1>7. Childless
  BY <1>2 DEF Childless, NewLeaf
<1> QED BY <1>1, <1>4, <1>5, <1>6, <1>7 DEF ShapeInv

\* The first insert plants a root that is a leaf.
LEMMA StartInsertEmptyShape ==
  ASSUME ShapeInv, TypeInv', NEW k, NEW v, StartInsertEmpty(k, v)
  PROVE  ShapeInv'
<1>1. PICK h : Shape(h)
  BY DEF ShapeInv
<1>2. PICK id \in NodeId : /\ isFresh(id) /\ allocated' = allocated \cup {id}
                           /\ nodes' = [nodes EXCEPT ![id] = NewLeaf] /\ rootNode' = id
  BY DEF StartInsertEmpty
<1>3. /\ pc = "idle" /\ rootNode = Nil /\ pc' = "apply" /\ change' = NoChange /\ stack' = stack
      /\ orphans' = orphans /\ call'.node = id
  BY <1>2 DEF StartInsertEmpty, Enter, history
<1>4. settled = nodes /\ live = allocated \ orphans /\ stack = << >> /\ tops = << >>
  BY <1>1, <1>3, IdleFacts DEF ShapeInv
<1>5. live = {}
  <2>1. Tree(settled, tops, live, h) /\ Nil \notin live
    BY <1>1, LiveIds DEF ShapeInv, Shape
  <2>2. deg(settled, tops, Nil) = 0
    BY <1>4 DEF deg, kids
  <2> QED BY <2>1, <2>2, LoneLeaf
<1>6. id \notin allocated /\ orphans \subseteq allocated /\ id # Nil
  BY <1>2, IdAssumption DEF isFresh, isLeast, ShapeInv, Flow, Nil
<1>7. settled' = nodes' /\ live' = {id} /\ tops' = <<id>> /\ unsettled' = {}
  BY <1>2, <1>3, <1>4, <1>5, <1>6 DEF settled, live, tops, unsettled, mending, pending
<1>8. nodes'[id] = NewLeaf /\ \A q \in NodeId : q # id => nodes'[q] = nodes[q]
  BY <1>2 DEF ShapeInv, TypeInv, TypeOK, isHeap
<1> DEFINE g == [q \in NodeId \cup {Nil} |-> IF q = Nil THEN 1 ELSE 0]
<1>9. Tree(settled', tops', live', g)
  <2>1. /\ deg(settled', tops', Nil) = 1 /\ kid(settled', tops', Nil, 1) = id
        /\ deg(settled', tops', id) = 0 /\ up(settled', id) = Nil
        /\ lft(settled', id) = Nil /\ rgt(settled', id) = Nil
    BY <1>6, <1>7, <1>8 DEF deg, kid, kids, up, lft, rgt, NewLeaf
  <2>2. g[id] = 0 /\ g[Nil] = 1
    BY <1>2, <1>6
  <2> HIDE DEF g
  <2> QED BY <2>1, <2>2, <1>6, <1>7, PlantTree
<1>10. Frames(g)'
  BY <1>3, <1>4 DEF Frames
<1>11. Sizes'
  <2>1. size(NewLeaf) = 0 /\ Len(NewLeaf.children) = 0 /\ 0 < Fanout
    BY SizeAssumption DEF size, NewLeaf
  <2>2. filled(settled', tops', id)
    BY <2>1, <1>7, <1>8 DEF filled
  <2>3. branches(settled', id)
    BY <2>1, <1>7, <1>8 DEF branches
  <2> QED BY <2>2, <2>3, <1>2, <1>7 DEF Sizes
<1>12. Flow'
  BY <1>2, <1>3, <1>4, <1>6 DEF Flow, NoChange
<1>13. Childless'
  BY <1>8 DEF ShapeInv, Childless, NewLeaf
<1>14. Shape(g)'
  BY <1>9, <1>10 DEF Shape
<1> QED BY <1>11, <1>12, <1>13, <1>14 DEF ShapeInv

\* A call that has returned to the root, with nothing to report.
LEMMA RootReturned ==
  ASSUME ShapeInv, Returned, NEW h, Shape(h)
  PROVE  /\ TypeInv /\ Flow /\ Sizes /\ Childless /\ settled = nodes /\ live = allocated \ orphans
         /\ stack = << >> /\ unsettled = {} /\ rootNode # Nil /\ rootNode \in live
         /\ live \subseteq NodeId /\ Nil \notin live
         /\ Tree(settled, tops, live, h)
         /\ change.node = Nil => change.type = "None" /\ tops = <<rootNode>>
         /\ change.node # Nil => change.type = "Split" /\ tops = <<rootNode, change.node>>
<1>1. /\ TypeInv /\ Flow /\ Sizes /\ Childless /\ Tree(settled, tops, live, h)
      /\ pc = "return" /\ stack = << >>
  BY DEF ShapeInv, Shape, Returned
<1>2. settled = nodes /\ live = allocated \ orphans /\ unsettled = {}
  BY <1>1 DEF settled, live, pending, unsettled, mending
<1>3. rootNode # Nil /\ live \subseteq NodeId /\ Nil \notin live
  BY <1>1, LiveIds DEF TypeInv, RunningCall
<1>4. /\ change.type \in {"None", "Split"}
      /\ change.type = "None" => change.node = Nil
      /\ change.type = "Split" => change.node # Nil
  BY <1>1 DEF Flow, TypeInv, TypeOK, ChildChange
<1>5. /\ change.type = "None" => tops = <<rootNode>>
      /\ change.type = "Split" => tops = <<rootNode, change.node>>
  BY <1>1, <1>3 DEF tops
<1>6. rootNode \in live
  <2>1. deg(settled, tops, Nil) \in {1, 2} /\ kid(settled, tops, Nil, 1) = rootNode
    BY <1>4, <1>5 DEF deg, kid, kids
  <2> QED BY <2>1, <1>1 DEF Tree, Downward
<1> QED BY <1>1, <1>2, <1>3, <1>4, <1>5, <1>6

\* The call returns to its caller outside the tree.
LEMMA FinishShape ==
  ASSUME ShapeInv, TypeInv', Finish
  PROVE  ShapeInv'
<1>1. PICK h : Shape(h)
  BY DEF ShapeInv
<1>2. /\ Returned /\ change.node = Nil /\ (size(root) = 0 => ~root.leaf /\ nodes[heir].leaf)
      /\ nodes' = nodes /\ allocated' = allocated /\ rootNode' = rootNode
      /\ pc' = "idle" /\ change' = NoChange /\ orphans' = orphans /\ stack' = stack
  BY DEF Finish, heap, Leave
<1>3. /\ TypeInv /\ Flow /\ Sizes /\ Childless /\ settled = nodes /\ live = allocated \ orphans
      /\ stack = << >> /\ unsettled = {} /\ rootNode # Nil /\ rootNode \in live
      /\ live \subseteq NodeId /\ Nil \notin live
      /\ Tree(settled, tops, live, h) /\ tops = <<rootNode>>
  BY <1>1, <1>2, RootReturned
<1>4. settled' = settled /\ live' = live /\ tops' = tops /\ unsettled' = {}
  BY <1>2, <1>3 DEF settled, live, tops, unsettled, mending, pending
<1>5. branches(settled, rootNode)
  <2> SUFFICES ASSUME size(root) = 0
               PROVE  \A i \in 1 .. Len(root.children) : nodes[root.children[i]].leaf
    BY <1>3 DEF branches, root
  <2>1. ~root.leaf /\ nodes[root.children[1]].leaf
    BY <1>2 DEF heir
  <2>2. Len(root.children) = 1
    BY <2>1, <1>3, NodeFacts DEF root
  <2> QED BY <2>1, <2>2
<1>6. Tree(settled', tops', live', h) /\ Sizes'
  <2>1. \A id \in live : alike(settled'[id], settled[id])
    BY <1>4 DEF alike
  <2> QED BY <2>1, <1>2, <1>3, <1>4, <1>5, ContentStep
<1>7. Frames(h)'
  BY <1>2, <1>3 DEF Frames
<1>8. Flow'
  BY <1>2, <1>3 DEF Flow, NoChange
<1>9. Childless'
  BY <1>2, <1>3 DEF Childless
<1>10. Shape(h)'
  BY <1>1, <1>6, <1>7 DEF Shape
<1> QED BY <1>6, <1>8, <1>9, <1>10 DEF ShapeInv

-----------------------------------------------------------------------------
(* Returning with a report *)

\* What a node that returns leaves to its caller.
LEMMA SettledNext ==
  ASSUME TypeInv, running, pc' = "return", stack' = outer
  PROVE  /\ outer = << >> => settled' = nodes' /\ live' = allocated' \ orphans'
         /\ outer # << >> =>
              /\ settled' = [id \in NodeId |-> IF id \in gone(change') THEN NewLeaf
                                               ELSE IF id = above THEN adjusted(nodes'[above], Last(outer).idx, change')
                                               ELSE nodes'[id]]
              /\ live' = (allocated' \ gone(change')) \ orphans'
              /\ frame' = Last(outer)
<1>1. frame' = Last(outer)
  BY DEF frame
<1>2. outer # << >> => frame'.node = above
  BY <1>1 DEF above
<1>3. settled' = IF outer # << >> THEN repaired(nodes', change', frame') ELSE nodes'
  BY DEF settled, pending
<1>4. live' = (IF outer # << >> THEN allocated' \ gone(change') ELSE allocated') \ orphans'
  BY DEF live, pending
<1>5. outer # << >> => repaired(nodes', change', frame')
         = [id \in NodeId |-> IF id \in gone(change') THEN NewLeaf
                              ELSE IF id = above THEN adjusted(nodes'[above], Last(outer).idx, change')
                              ELSE nodes'[id]]
  BY <1>1, <1>2 DEF repaired
<1> QED BY <1>1, <1>3, <1>4, <1>5

\* The root, seen from the running node.
LEMMA RootFacts ==
  ASSUME TypeInv, Flow, running, NEW h, Shape(h)
  PROVE  /\ rootNode \in live /\ rootNode # Nil /\ tops = <<rootNode>> /\ up(settled, rootNode) = Nil
         /\ h[Nil] = h[rootNode] + 1 /\ h[rootNode] \in Nat
         /\ outer # << >> => rootNode # here
         /\ \A q \in live : h[q] \in Nat /\ h[q] <= h[rootNode] /\ (h[q] = h[rootNode] => q = rootNode)
<1>1. /\ tops = <<rootNode>> /\ rootNode # Nil /\ Nil \notin live
  BY RunningPlain, LiveIds
<1>2. Tree(settled, tops, live, h)
  BY DEF Shape
<1>3. deg(settled, tops, Nil) = 1 /\ kid(settled, tops, Nil, 1) = rootNode
  BY <1>1 DEF deg, kid, kids
<1>4. rootNode \in live /\ up(settled, rootNode) = Nil /\ h[Nil] = h[rootNode] + 1 /\ h[rootNode] \in Nat
  BY <1>2, <1>3 DEF Tree, Downward, Levels
<1>5. outer # << >> => rootNode # here
  <2>1. outer # << >> => above \in live
    BY HereFacts
  <2>2. up(settled, here) = above
    BY HereFacts
  <2> QED BY <2>1, <2>2, <1>1, <1>4
<1>6. ASSUME NEW q \in live PROVE h[q] \in Nat /\ h[q] <= h[rootNode] /\ (h[q] = h[rootNode] => q = rootNode)
  <2>1. h[q] \in Nat /\ h[q] < h[Nil]
    BY <1>2 DEF Tree, Levels
  <2>2. ASSUME h[q] = h[rootNode] PROVE q = rootNode
    <3>1. up(settled, q) \in live \cup {Nil} /\ \E j \in 1 .. deg(settled, tops, up(settled, q)) : kid(settled, tops, up(settled, q), j) = q
      BY <1>2 DEF Tree, Upward
    <3>2. h[up(settled, q)] = h[q] + 1
      BY <3>1, <1>2 DEF Tree, Levels
    <3>3. up(settled, q) = Nil
      <4>1. up(settled, q) \in live => h[up(settled, q)] < h[Nil]
        BY <1>2 DEF Tree, Levels
      <4>2. h[up(settled, q)] = h[Nil]
        BY <3>2, <2>2, <1>4
      <4> QED BY <4>1, <4>2, <3>1, <1>4
    <3> QED BY <3>1, <3>3, <1>3
  <2> QED BY <2>1, <2>2, <1>4
<1> QED BY <1>1, <1>4, <1>5, <1>6

\* Every other node has its share of keys, unless it is the root.
LEMMA FilledOthers ==
  ASSUME ShapeInv, running, NEW h, Shape(h), outer = << >> => size(nodes[here]) # 0,
         NEW q \in live, q # here
  PROVE  /\ size(nodes[q]) < Fanout /\ size(nodes[q]) \in Nat
         /\ size(nodes[q]) >= least \/ (q = rootNode /\ outer # << >>)
<1>0. TypeInv /\ Flow /\ Sizes /\ Childless /\ Tree(settled, tops, live, h)
  BY DEF ShapeInv, Shape
<1>1. /\ \A id \in NodeId : settled[id] = nodes[id]
      /\ live \subseteq NodeId /\ Nil \notin live
  BY <1>0, RunningPlain, LiveIds
<1>2. /\ here \in live /\ here # Nil /\ above \in live \cup {Nil} /\ up(settled, here) = above
      /\ place \in 1 .. deg(settled, tops, above) /\ kid(settled, tops, above, place) = here
      /\ h[above] = h[here] + 1
      /\ outer = << >> => here = rootNode
  BY <1>0, HereFacts
<1>3. unsettled \subseteq {here}
  BY DEF unsettled, mending, here
<1>4. filled(settled, tops, q)
  BY <1>0, <1>3 DEF Sizes
<1>5. /\ rootNode \in live /\ rootNode # Nil /\ tops = <<rootNode>> /\ up(settled, rootNode) = Nil
      /\ h[Nil] = h[rootNode] + 1 /\ h[rootNode] \in Nat
      /\ \A z \in live : h[z] \in Nat /\ h[z] <= h[rootNode] /\ (h[z] = h[rootNode] => z = rootNode)
  BY <1>0, RootFacts
<1>6. size(nodes[q]) \in Nat /\ least \in Int
  BY <1>0, <1>1, NodeFacts, SizeAssumption DEF least
<1>7. size(nodes[q]) < Fanout
  BY <1>1, <1>4 DEF filled
<1>8. ASSUME ~(size(nodes[q]) >= least), ~(q = rootNode /\ outer # << >>) PROVE FALSE
  <2>1. least >= 1
    BY <1>6, <1>8
  <2>2. q # rootNode
    BY <1>2, <1>8
  <2>3. nodes[q].leaf /\ nodes[q].parent = rootNode /\ size(nodes[rootNode]) = 0
    <3>1. tops # <<q>> /\ ~(size(settled[q]) >= least)
      BY <1>1, <1>5, <1>8, <2>2
    <3>2. settled[q].leaf /\ tops = <<settled[q].parent>> /\ size(settled[settled[q].parent]) = 0
      BY <3>1, <1>4 DEF filled
    <3>3. settled[q].parent = rootNode
      BY <3>2, <1>5
    <3>4. settled[q] = nodes[q] /\ settled[rootNode] = nodes[rootNode]
      BY <1>1, <1>5
    <3> QED BY <3>2, <3>3, <3>4
  <2>4. here # rootNode /\ outer # << >>
    <3>1. here = rootNode => size(nodes[here]) = 0
      BY <2>3
    <3>2. outer = << >> => here = rootNode /\ size(nodes[here]) # 0
      BY <1>2
    <3>3. outer # << >>
      BY <3>1, <3>2
    <3> QED BY <3>3, <1>0, RootFacts
  <2>5. deg(settled, tops, rootNode) \in {0, 1}
    <3>1. deg(settled, tops, rootNode) = Len(nodes[rootNode].children)
      BY <1>1, <1>5 DEF deg, kids
    <3>2. nodes[rootNode].leaf => nodes[rootNode].children = << >>
      BY <1>0, <1>1, <1>5, NodeFacts
    <3>3. ~nodes[rootNode].leaf => Len(nodes[rootNode].children) = size(nodes[rootNode]) + 1
      BY <1>0, <1>1, <1>5, NodeFacts
    <3> QED BY <3>1, <3>2, <3>3, <2>3
  <2>6. \A z \in live : up(settled, z) = rootNode =>
          deg(settled, tops, rootNode) = 1 /\ kid(settled, tops, rootNode, 1) = z
    BY <2>5, <1>0 DEF Tree, Upward
  <2>7. up(settled, q) = rootNode
    BY <2>3, <1>1 DEF up
  <2>8. h[q] = 0
    <3>1. /\ nodes[q].leaf => nodes[q].children = << >>
          /\ ~nodes[q].leaf => Len(nodes[q].children) = size(nodes[q]) + 1
      BY <1>0, <1>1, NodeFacts
    <3> QED BY <3>1, <2>3, <1>0, <1>1, <1>6, LeafLevel
  <2>9. h[rootNode] = 1
    BY <2>6, <2>7, <2>8, <1>0, <1>5 DEF Tree, Levels
  <2>10. above = rootNode
    <3>1. h[here] = 0
      BY <2>4, <2>9, <1>2, <1>5
    <3>2. h[above] = 1
      BY <3>1, <1>2
    <3> QED BY <3>2, <2>9, <1>2, <1>5
  <2> QED BY <2>6, <2>7, <2>10, <1>2
<1> QED BY <1>6, <1>7, <1>8

\* A running node that hands a restructuring to its caller, who has not heard of it yet.
LEMMA RestructuredReturn ==
  ASSUME ShapeInv, TypeInv', running, NEW h, Shape(h), NEW g,
         pc' = "return", stack' = outer, change'.type # "None", err' # "Success",
         outer = << >> => change'.type = "Split",
         rootNode' = rootNode, orphans' = orphans, orphans \subseteq allocated',
         gone(change') \cap orphans = {},
         g \in [NodeId \cup {Nil} -> Nat], \A q \in live \cup {Nil} : g[q] = h[q],
         Tree(settled', tops', live', g),
         \A q \in live : h[q] > h[here] => q \in live' /\ settled'[q].leaf = settled[q].leaf,
         \A q \in live : h[q] > h[above] => /\ settled'[q].children = settled[q].children
                                            /\ size(settled'[q]) = size(settled[q]),
         \A q \in live' : outer = << >> \/ q # above => filled(settled', tops', q),
         outer # << >> => nearlyFilled(settled', tops', above),
         Childless'
  PROVE  ShapeInv'
<1>0. TypeInv /\ Flow /\ Sizes /\ Childless /\ Tree(settled, tops, live, h)
  BY DEF ShapeInv, Shape
<1>1. Frames(g)'
  BY <1>0, ReturnFrames
<1>2. Flow'
  BY DEF Flow
<1>3. Shape(g)'
  BY <1>1 DEF Shape
<1>4. /\ rootNode \in live /\ rootNode # Nil /\ tops = <<rootNode>>
      /\ \A q \in live : h[q] \in Nat /\ h[q] <= h[rootNode] /\ (h[q] = h[rootNode] => q = rootNode)
  BY <1>0, RootFacts
<1>5. CASE outer = << >>
  <2>1. unsettled' = {}
    BY <1>5 DEF unsettled, mending
  <2>2. Sizes'
    BY <2>1, <1>5 DEF Sizes
  <2> QED BY <2>2, <1>2, <1>3 DEF ShapeInv
<1>6. CASE outer # << >>
  <2>1. /\ frame' = Last(outer) /\ above = Last(outer).node /\ above \in live
        /\ h[above] = h[here] + 1 /\ h[here] \in Nat
        /\ here \in live
    BY <1>0, <1>6, SettledNext, HereFacts
  <2>2. unsettled' = {above}
    BY <2>1, <1>6 DEF unsettled, mending
  <2>3. rootNode' \in unsettled' \/ branches(settled', rootNode')
    <3> SUFFICES ASSUME rootNode # above PROVE branches(settled', rootNode)
      BY <2>2
    <3>1. h[rootNode] > h[above]
      BY <2>1, <1>4
    <3>2. branches(settled, rootNode)
      <4>1. rootNode # here
        BY <1>0, <1>6, RootFacts
      <4>2. rootNode \notin unsettled
        BY <4>1 DEF unsettled, mending, here
      <4>3. pc # "return"
        BY DEF running
      <4> QED BY <4>2, <4>3, <1>0, <1>4 DEF Sizes
    <3>3. /\ settled'[rootNode].children = settled[rootNode].children
          /\ size(settled'[rootNode]) = size(settled[rootNode])
      BY <3>1, <1>4
    <3>4. \A i \in 1 .. Len(settled[rootNode].children) :
            settled'[settled[rootNode].children[i]].leaf = settled[settled[rootNode].children[i]].leaf
      <4> TAKE i \in 1 .. Len(settled[rootNode].children)
      <4>1. settled[rootNode].children[i] \in live /\ h[rootNode] = h[settled[rootNode].children[i]] + 1
        BY <1>0, <1>4 DEF Tree, Downward, Levels, deg, kid, kids
      <4>2. h[settled[rootNode].children[i]] > h[here]
        BY <4>1, <3>1, <2>1, <1>4
      <4> QED BY <4>1, <4>2
    <3> QED BY <3>2, <3>3, <3>4 DEF branches
  <2>4. Sizes'
    BY <2>2, <2>3, <1>6 DEF Sizes
  <2> QED BY <2>4, <1>2, <1>3 DEF ShapeInv
<1> QED BY <1>5, <1>6

-----------------------------------------------------------------------------
(* A split and its caller *)

\* What a caller does about a split below it.
LEMMA AdjustedSplit ==
  ASSUME NEW n, isNode(n), ~n.leaf, NEW i \in Nat, i <= size(n),
         NEW c \in ChildChange, c.type = "Split"
  PROVE  /\ \A f \in {"leaf", "parent", "left", "right"} : adjusted(n, i, c)[f] = n[f]
         /\ adjusted(n, i, c).children = InsertAt(n.children, i + 2, c.node)
         /\ size(adjusted(n, i, c)) = size(n) + 1
<1>1. adjusted(n, i, c) = [n EXCEPT !.keys = InsertAt(@, i + 1, c.key), !.children = InsertAt(@, i + 2, c.node)]
  BY DEF adjusted
<1>2. n.keys \in Seq(KeyType) /\ i + 1 \in 1 .. (Len(n.keys) + 1) /\ c.key \in KeyType
  BY DEF isNode, ChildChange, size
<1>3. Len(InsertAt(n.keys, i + 1, c.key)) = Len(n.keys) + 1
  BY <1>2, InsertAtType
<1> QED BY <1>1, <1>3 DEF isNode, size

\* What a caller does about a redistribution below it.
LEMMA AdjustedRedistribution ==
  ASSUME NEW n, isNode(n), NEW i \in Nat,
         NEW c \in ChildChange, c.type \in {"RedistributeLeft", "RedistributeRight"}
  PROVE  /\ \A f \in {"leaf", "parent", "left", "right", "children"} : adjusted(n, i, c)[f] = n[f]
         /\ size(adjusted(n, i, c)) = size(n)
<1>1. adjusted(n, i, c) = IF c.type = "RedistributeLeft" THEN [n EXCEPT !.keys[i] = c.key]
                          ELSE [n EXCEPT !.keys[i + 1] = c.key]
  BY DEF adjusted
<1>2. n.keys \in Seq(KeyType) /\ c.key \in KeyType
  BY DEF isNode, ChildChange
<1>3. /\ Len([n.keys EXCEPT ![i] = c.key]) = Len(n.keys)
      /\ Len([n.keys EXCEPT ![i + 1] = c.key]) = Len(n.keys)
  BY <1>2, ReplaceType
<1>4. CASE c.type = "RedistributeLeft"
  BY <1>1, <1>3, <1>4 DEF isNode, size
<1>5. CASE c.type # "RedistributeLeft"
  BY <1>1, <1>3, <1>5 DEF isNode, size
<1> QED BY <1>4, <1>5

\* Node m is n without child k + 1 and the key before it.
Curtailed(m, n, k) ==
  /\ \A f \in {"leaf", "parent", "left", "right"} : m[f] = n[f]
  /\ m.children = RemoveAt(n.children, k + 1)
  /\ size(m) = size(n) - 1

\* What a caller does about a merge below it.
LEMMA AdjustedMerge ==
  ASSUME NEW n, isNode(n), ~n.leaf, NEW i \in Nat, NEW k, k \in 1 .. size(n),
         NEW c, \/ c.type = "MergeLeft" /\ k = i
                \/ c.type = "MergeRight" /\ k = i + 1
  PROVE  Curtailed(adjusted(n, i, c), n, k)
<1>1. adjusted(n, i, c) = [n EXCEPT !.keys = RemoveAt(@, k), !.children = RemoveAt(@, k + 1)]
  <2>1. CASE c.type = "MergeLeft"
    BY <2>1 DEF adjusted
  <2>2. CASE c.type = "MergeRight"
    <3>1. i + 2 = k + 1
      BY <2>2
    <3> QED BY <2>2, <3>1 DEF adjusted
  <2> QED BY <2>1, <2>2
<1>2. n.keys \in Seq(KeyType) /\ k \in 1 .. Len(n.keys)
  BY DEF isNode, size
<1>3. Len(RemoveAt(n.keys, k)) = Len(n.keys) - 1
  BY <1>2, RemoveAtType
<1> QED BY <1>1, <1>3 DEF isNode, size, Curtailed

\* The step splits node id off the running node, which keeps m of its children.
Halves(id, m) ==
  /\ m \in 0 .. Len(nodes[here].children)
  /\ Len(nodes[here].children) > 0 => 1 <= m /\ m < Len(nodes[here].children)
  /\ \A q \in {here, id} : /\ nodes'[q].leaf = nodes[here].leaf
                           /\ nodes'[q].parent = nodes[here].parent
                           /\ size(nodes'[q]) \in least .. (Fanout - 1)
  /\ nodes'[here].children = take(nodes[here].children, m)
  /\ nodes'[id].children = drop(nodes[here].children, m)
  /\ nodes'[here].left = nodes[here].left /\ nodes'[here].right = id
  /\ nodes'[id].left = here /\ nodes'[id].right = nodes[here].right
  /\ \A q \in NodeId \ {here, id} :
       /\ nodes'[q].leaf = nodes[q].leaf /\ nodes'[q].children = nodes[q].children
       /\ nodes'[q].right = nodes[q].right /\ size(nodes'[q]) = size(nodes[q])
       /\ nodes'[q].left = IF q = nodes[here].right THEN id ELSE nodes[q].left
       /\ nodes'[q].parent = IF \E j \in (m + 1) .. Len(nodes[here].children) : q = nodes[here].children[j]
                             THEN id ELSE nodes[q].parent

\* A node splits: id takes its children from m + 1 on, and follows it under its parent.
LEMMA SplitShape ==
  ASSUME ShapeInv, TypeInv', running, NEW h, Shape(h), NEW id \in NodeId, id \notin allocated, NEW m,
         pc' = "return", stack' = outer, change'.type = "Split", change'.node = id, err' # "Success",
         rootNode' = rootNode, orphans' = orphans, allocated' = allocated \cup {id},
         size(nodes[here]) # 0,
         Halves(id, m)
  PROVE  ShapeInv'
<1> USE DEF Halves
<1> DEFINE a == Len(nodes[here].children)
           c == nodes[here].children
<1>0. TypeInv /\ Flow /\ Sizes /\ Childless /\ Tree(settled, tops, live, h) /\ h \in [NodeId \cup {Nil} -> Nat]
  BY DEF ShapeInv, Shape
<1>1. /\ \A q \in NodeId : settled[q] = nodes[q]
      /\ live = allocated \ orphans /\ live \subseteq NodeId /\ Nil \notin live /\ Nil \notin NodeId
      /\ rootNode # Nil /\ tops = <<rootNode>>
  BY <1>0, RunningPlain, LiveIds
<1>2. /\ here \in live /\ here \in NodeId /\ here # Nil /\ above \in live \cup {Nil} /\ up(settled, here) = above
      /\ above # here
      /\ place \in 1 .. deg(settled, tops, above) /\ kid(settled, tops, above, place) = here
      /\ h[above] = h[here] + 1 /\ h[here] \in Nat
      /\ outer = << >> => here = rootNode /\ above = Nil /\ place = 1
      /\ outer # << >> => /\ above \in live /\ ~settled[above].leaf
                          /\ Last(outer).idx \in Nat /\ Last(outer).idx + 1 = place
  BY <1>0, HereFacts
<1>3. id \notin live /\ id # Nil /\ id # here /\ id \notin orphans
  BY <1>0, <1>1, <1>2 DEF Flow
<1>4. gone(change') = {} /\ change' \in ChildChange
  BY DEF gone, TypeInv, TypeOK
<1>5. \A q \in NodeId : isNode(nodes'[q]) /\ isNode(nodes[q])
  BY <1>0 DEF TypeInv, TypeOK, isHeap
<1>6. c \in Seq(NodeId) /\ a \in Nat /\ deg(settled, tops, here) = a
      /\ \A j \in 1 .. a : kid(settled, tops, here, j) = c[j]
  BY <1>1, <1>2, <1>5 DEF isNode, deg, kid, kids
<1>7. live' = live \cup {id}
  BY <1>0, <1>1, <1>3, <1>4, SettledNext
<1>8. outer = << >> => settled' = nodes' /\ tops' = <<rootNode, id>>
  <2>1. outer = << >> => settled' = nodes'
    BY <1>0, SettledNext
  <2> QED BY <2>1, <1>1 DEF tops
<1>9. ASSUME outer # << >>
      PROVE  /\ tops' = tops /\ above \in NodeId /\ above # id
             /\ \A q \in NodeId : q # above => settled'[q] = nodes'[q]
             /\ \A f \in {"leaf", "parent", "left", "right"} : settled'[above][f] = nodes'[above][f]
             /\ settled'[above].children = InsertAt(nodes[above].children, place + 1, id)
             /\ size(settled'[above]) = size(nodes[above]) + 1
  <2>1. settled' = [q \in NodeId |-> IF q \in gone(change') THEN NewLeaf
                                     ELSE IF q = above THEN adjusted(nodes'[above], Last(outer).idx, change')
                                     ELSE nodes'[q]]
    BY <1>0, <1>9, SettledNext
  <2>2. tops' = tops
    BY <1>1, <1>9 DEF tops
  <2>3. above \in NodeId /\ above # id /\ above \in live
    BY <1>1, <1>2, <1>3, <1>9
  <2>4. /\ nodes'[above].leaf = nodes[above].leaf /\ nodes'[above].children = nodes[above].children
        /\ size(nodes'[above]) = size(nodes[above])
    BY <1>2, <2>3
  <2>5. isNode(nodes'[above]) /\ ~nodes'[above].leaf
    BY <1>1, <1>2, <1>5, <1>9, <2>3, <2>4
  <2>6. Last(outer).idx <= size(nodes'[above])
    <3>1. deg(settled, tops, above) = Len(nodes[above].children)
      BY <1>1, <2>3 DEF deg, kids
    <3>2. Len(nodes[above].children) = size(nodes[above]) + 1 /\ size(nodes[above]) \in Nat
      BY <1>1, <1>5, <2>3, <2>4, <2>5 DEF isNode, size
    <3> QED BY <3>1, <3>2, <2>4, <1>2, <1>9
  <2>7. /\ \A f \in {"leaf", "parent", "left", "right"} : adjusted(nodes'[above], Last(outer).idx, change')[f] = nodes'[above][f]
        /\ adjusted(nodes'[above], Last(outer).idx, change').children = InsertAt(nodes'[above].children, Last(outer).idx + 2, change'.node)
        /\ size(adjusted(nodes'[above], Last(outer).idx, change')) = size(nodes'[above]) + 1
    BY <2>5, <2>6, <1>2, <1>4, <1>9, AdjustedSplit
  <2>8. Last(outer).idx + 2 = place + 1
    BY <1>2, <1>9
  <2>9. settled'[above] = adjusted(nodes'[above], Last(outer).idx, change')
    BY <2>1, <2>3, <1>4
  <2>10. \A q \in NodeId : q # above => settled'[q] = nodes'[q]
    BY <2>1, <1>4
  <2> QED BY <2>2, <2>3, <2>4, <2>7, <2>8, <2>9, <2>10
<1>10. \A q \in NodeId : /\ \A f \in {"leaf", "parent", "left", "right"} : settled'[q][f] = nodes'[q][f]
                         /\ q # above => settled'[q].children = nodes'[q].children /\ size(settled'[q]) = size(nodes'[q])
  BY <1>8, <1>9
<1> DEFINE g == [h EXCEPT ![id] = h[here]]
<1>11. /\ g[id] = h[here] /\ \A q \in live \cup {Nil} : g[q] = h[q]
       /\ g \in [NodeId \cup {Nil} -> Nat]
  BY <1>0, <1>1, <1>2, <1>3
<1> HIDE DEF g, a, c
<1>12. /\ rgt(settled, here) = nodes[here].right /\ lft(settled, here) = nodes[here].left
       /\ nodes[here].right # here /\ nodes[here].right # id
       /\ \A j \in 1 .. a : c[j] \in live /\ c[j] # here
       /\ deg(settled, tops, here) = a
  <2>1. rgt(settled, here) = nodes[here].right /\ lft(settled, here) = nodes[here].left
    BY <1>1, <1>2 DEF rgt, lft
  <2>2. rgt(settled, here) # Nil => rgt(settled, here) \in live /\ rgt(settled, here) # here
    BY <1>0, <1>2 DEF Tree, Mutual
  <2>3. \A j \in 1 .. deg(settled, tops, here) :
          kid(settled, tops, here, j) \in live /\ h[here] = h[kid(settled, tops, here, j)] + 1
    BY <1>0, <1>2 DEF Tree, Downward, Levels
  <2>4. \A j \in 1 .. a : c[j] \in live /\ h[here] = h[c[j]] + 1
    BY <2>3, <1>6
  <2>5. \A j \in 1 .. a : c[j] # here
    BY <2>4, <1>2
  <2> QED BY <2>1, <2>2, <2>4, <2>5, <1>2, <1>3, <1>6
<1>13. \A q \in live : q # here =>
         /\ nodes'[q].leaf = nodes[q].leaf /\ nodes'[q].children = nodes[q].children
         /\ nodes'[q].right = nodes[q].right /\ size(nodes'[q]) = size(nodes[q])
         /\ nodes'[q].left = IF q = nodes[here].right THEN id ELSE nodes[q].left
         /\ nodes'[q].parent = IF \E j \in (m + 1) .. a : q = c[j] THEN id ELSE nodes[q].parent
  BY <1>1, <1>3 DEF a, c
<1>14. ASSUME NEW q \in live \cup {Nil}, q # here, q # above
       PROVE  /\ deg(settled', tops', q) = deg(settled, tops, q)
              /\ \A j \in 1 .. deg(settled, tops, q) : kid(settled', tops', q, j) = kid(settled, tops, q, j)
  <2>1. kids(settled', tops', q) = kids(settled, tops, q)
    <3>1. CASE q = Nil
      <4>1. outer # << >>
        BY <3>1, <1>2, <1>14
      <4> QED BY <3>1, <4>1, <1>9 DEF kids
    <3>2. CASE q # Nil
      BY <3>2, <1>1, <1>10, <1>13, <1>14 DEF kids
    <3> QED BY <3>1, <3>2
  <2> QED BY <2>1 DEF deg, kid
<1>15. /\ deg(settled', tops', here) = m
       /\ \A j \in 1 .. m : kid(settled', tops', here, j) = kid(settled, tops, here, j)
       /\ deg(settled', tops', id) = a - m
       /\ \A j \in 1 .. (a - m) : kid(settled', tops', id, j) = kid(settled, tops, here, m + j)
  <2>1. /\ Len(take(c, m)) = m /\ \A j \in 1 .. m : take(c, m)[j] = c[j]
        /\ Len(drop(c, m)) = a - m /\ \A j \in 1 .. (a - m) : drop(c, m)[j] = c[m + j]
    <3>1. c \in Seq(NodeId) /\ m \in 0 .. Len(c) /\ Len(c) = a
      BY <1>6 DEF a, c
    <3>2. Len(take(c, m)) = m /\ \A j \in 1 .. m : take(c, m)[j] = c[j]
      BY ONLY <3>1, TakeItems
    <3>3. Len(drop(c, m)) = Len(c) - m /\ \A j \in 1 .. (Len(c) - m) : drop(c, m)[j] = c[m + j]
      BY ONLY <3>1, DropItems
    <3> QED BY <3>1, <3>2, <3>3
  <2>2. id # above
    BY <1>2, <1>3
  <2>3. kids(settled', tops', here) = take(c, m) /\ kids(settled', tops', id) = drop(c, m)
    <3>1. settled'[here].children = take(c, m) /\ settled'[id].children = drop(c, m)
      BY <1>2, <1>10, <2>2 DEF c
    <3> QED BY <3>1, <1>2, <1>3 DEF kids
  <2>4. \A j \in 1 .. (a - m) : m + j \in 1 .. a
    BY <1>6 DEF a, c
  <2>5. \A j \in 1 .. m : j \in 1 .. a
    BY <1>6 DEF a, c
  <2>6. kids(settled, tops, here) = c
    BY <1>1, <1>2 DEF c, kids
  <2> QED BY <2>1, <2>3, <2>6 DEF deg, kid
<1>16. /\ deg(settled', tops', above) = deg(settled, tops, above) + 1
       /\ \A j \in 1 .. place : kid(settled', tops', above, j) = kid(settled, tops, above, j)
       /\ kid(settled', tops', above, place + 1) = id
       /\ \A j \in (place + 2) .. (deg(settled, tops, above) + 1) :
            kid(settled', tops', above, j) = kid(settled, tops, above, j - 1)
  <2>1. CASE outer = << >>
    <3>1. kids(settled', tops', above) = <<rootNode, id>> /\ kids(settled, tops, above) = <<rootNode>> /\ place = 1
      BY <2>1, <1>1, <1>2, <1>8 DEF kids
    <3> QED BY <3>1 DEF deg, kid
  <2>2. CASE outer # << >>
    <3> DEFINE s == nodes[above].children
    <3>1. kids(settled', tops', above) = InsertAt(s, place + 1, id) /\ kids(settled, tops, above) = s
      BY <2>2, <1>1, <1>2, <1>9 DEF kids
    <3>2. s \in Seq(NodeId)
      BY <2>2, <1>5, <1>9 DEF isNode
    <3>3. deg(settled, tops, above) = Len(s)
      BY <3>1 DEF deg
    <3> HIDE DEF s
    <3> DEFINE k == place + 1
    <3>4. k \in 1 .. (Len(s) + 1) /\ k - 1 = place /\ k + 1 = place + 2 /\ id \in NodeId
      BY <3>2, <3>3, <1>2
    <3> HIDE DEF k
    <3>6. Extends(InsertAt(s, k, id), s, k, id)
      BY ONLY <3>2, <3>4, InsertAtItems, Zenon
    <3>5. /\ Len(InsertAt(s, place + 1, id)) = Len(s) + 1
          /\ \A j \in 1 .. place : InsertAt(s, place + 1, id)[j] = s[j]
          /\ InsertAt(s, place + 1, id)[place + 1] = id
          /\ \A j \in (place + 2) .. (Len(s) + 1) : InsertAt(s, place + 1, id)[j] = s[j - 1]
      BY ONLY <3>4, <3>6 DEF k, Extends
    <3> QED BY <3>1, <3>3, <3>5 DEF deg, kid
  <2> QED BY <2>1, <2>2
<1>17. /\ up(settled', id) = above
       /\ \A q \in live : up(settled', q) = IF \E j \in (m + 1) .. deg(settled, tops, here) : q = kid(settled, tops, here, j)
                                           THEN id ELSE up(settled, q)
  <2>1. up(settled', id) = above
    BY <1>1, <1>2, <1>10 DEF up
  <2>2. \A j \in (m + 1) .. a : j \in 1 .. a /\ kid(settled, tops, here, j) = c[j]
    BY <1>6 DEF a, c, kid, kids
  <2>3. ASSUME NEW q \in live
        PROVE up(settled', q) = IF \E j \in (m + 1) .. a : q = c[j] THEN id ELSE up(settled, q)
    <3>1. up(settled', q) = nodes'[q].parent /\ up(settled, q) = nodes[q].parent
      BY <1>1, <1>10 DEF up
    <3>2. CASE q = here
      <4>1. ~\E j \in (m + 1) .. a : q = c[j]
        BY <3>2, <2>2, <1>12
      <4> QED BY <4>1, <3>1, <3>2
    <3>3. CASE q # here
      BY <3>1, <3>3, <1>13
    <3> QED BY <3>2, <3>3
  <2> QED BY <2>1, <2>2, <2>3, <1>12
<1>18. /\ lft(settled', Nil) = Nil /\ rgt(settled', Nil) = Nil
       /\ lft(settled', id) = here /\ rgt(settled', id) = rgt(settled, here) /\ rgt(settled', here) = id
       /\ \A q \in live : lft(settled', q) = IF q = rgt(settled, here) THEN id ELSE lft(settled, q)
       /\ \A q \in live : q # here => rgt(settled', q) = rgt(settled, q)
  <2>1. \A q \in live \cup {id} : lft(settled', q) = nodes'[q].left /\ rgt(settled', q) = nodes'[q].right
    BY <1>1, <1>3, <1>10 DEF lft, rgt
  <2>2. \A q \in live : lft(settled, q) = nodes[q].left /\ rgt(settled, q) = nodes[q].right
    BY <1>1 DEF lft, rgt
  <2>3. lft(settled', Nil) = Nil /\ rgt(settled', Nil) = Nil
    BY DEF lft, rgt
  <2>4. \A q \in live : lft(settled', q) = IF q = rgt(settled, here) THEN id ELSE lft(settled, q)
    BY <2>1, <2>2, <1>12, <1>13
  <2>5. \A q \in live : q # here => rgt(settled', q) = rgt(settled, q)
    BY <2>1, <2>2, <1>13
  <2> QED BY <2>1, <2>3, <2>4, <2>5, <1>2, <1>12
<1>19. Halved(settled, tops, h, settled', tops', g, live, above, place, here, id, m)
  <2>1. m \in 0 .. a /\ (a > 0 => 1 <= m /\ m < a)
    BY DEF a
  <2> QED BY ONLY <2>1, <1>2, <1>3, <1>11, <1>12, <1>14, <1>15, <1>16, <1>17, <1>18 DEF Halved
<1>20. Tree(settled', tops', live', g)
  BY <1>0, <1>1, <1>7, <1>19, SplitTree
<1>21. \A q \in live : h[q] > h[here] => q \in live' /\ settled'[q].leaf = settled[q].leaf
  <2>1. ASSUME NEW q \in live, h[q] > h[here] PROVE settled'[q].leaf = settled[q].leaf
    <3>1. q # here
      BY <2>1, <1>2
    <3> QED BY <3>1, <1>1, <1>10, <1>13
  <2> QED BY <2>1, <1>7
<1>22. \A q \in live : h[q] > h[above] => /\ settled'[q].children = settled[q].children
                                          /\ size(settled'[q]) = size(settled[q])
  <2>1. ASSUME NEW q \in live, h[q] > h[above]
        PROVE  settled'[q].children = settled[q].children /\ size(settled'[q]) = size(settled[q])
    <3>0. h[q] \in Nat
      BY <1>0, <1>1
    <3>1. q # above /\ q # here
      BY <2>1, <1>2, <3>0
    <3> QED BY <3>1, <1>1, <1>10, <1>13
  <2> QED BY <2>1
<1>23. ASSUME NEW q \in live', outer = << >> \/ q # above PROVE filled(settled', tops', q)
  <2>1. q # above
    BY <1>1, <1>2, <1>3, <1>7, <1>23
  <2>2. CASE q \in {here, id}
    <3>1. size(settled'[q]) \in least .. (Fanout - 1)
      BY <2>1, <2>2, <1>2, <1>10
    <3> QED BY <3>1, SizeAssumption DEF filled, least
  <2>3. CASE q \notin {here, id}
    <3>1. q \in live /\ q # here
      BY <2>3, <1>7
    <3>2. size(settled'[q]) = size(nodes[q])
      BY <2>1, <3>1, <1>1, <1>10, <1>13
    <3>3. /\ size(nodes[q]) < Fanout
          /\ size(nodes[q]) >= least \/ (q = rootNode /\ outer # << >>)
      BY <3>1, FilledOthers
    <3>4. outer # << >> => tops' = <<rootNode>>
      BY <1>1, <1>9
    <3> QED BY <3>2, <3>3, <3>4 DEF filled
  <2> QED BY <2>2, <2>3
<1>24. outer # << >> => nearlyFilled(settled', tops', above)
  <2> SUFFICES ASSUME outer # << >> PROVE nearlyFilled(settled', tops', above)
    OBVIOUS
  <2>1. filled(settled, tops, above) /\ size(settled[above]) \in Nat
    BY CallerFilled
  <2>2. size(settled'[above]) = size(settled[above]) + 1 /\ tops' = tops /\ ~settled[above].leaf
    BY <1>1, <1>2, <1>9
  <2>3. size(settled[above]) < Fanout /\ (tops = <<above>> \/ size(settled[above]) >= least)
    BY <2>1, <2>2 DEF filled
  <2>4. least \in Int /\ Fanout \in Nat
    BY SizeAssumption DEF least
  <2> QED BY <2>1, <2>2, <2>3, <2>4 DEF nearlyFilled
<1>25. Childless'
  <2> SUFFICES ASSUME NEW q \in NodeId, nodes'[q].leaf PROVE nodes'[q].children = << >>
    BY DEF Childless
  <2>1. CASE q \in {here, id}
    <3>1. c = << >> /\ a = 0 /\ m = 0
      <4>1. c = << >>
        BY <2>1, <1>0, <1>2 DEF Childless, c
      <4> QED BY <4>1 DEF a, c
    <3>2. take(c, m) = << >> /\ drop(c, m) = << >>
      <4>1. << >> \in Seq(NodeId) /\ 0 \in 0 .. Len(<< >>) /\ Len(<< >>) - 0 = 0
        OBVIOUS
      <4>2. take(<< >>, 0) \in Seq(NodeId) /\ Len(take(<< >>, 0)) = 0
        BY ONLY <4>1, TakeType
      <4>3. drop(<< >>, 0) \in Seq(NodeId) /\ Len(drop(<< >>, 0)) = 0
        BY ONLY <4>1, DropType
      <4>4. take(<< >>, 0) = << >> /\ drop(<< >>, 0) = << >>
        BY <4>2, <4>3
      <4> QED BY <3>1, <4>4
    <3> QED BY <2>1, <3>2 DEF c
  <2>2. CASE q \notin {here, id}
    BY <2>2, <1>0 DEF Childless
  <2> QED BY <2>1, <2>2
<1> HIDE DEF g
<1>26. orphans \subseteq allocated' /\ gone(change') \cap orphans = {}
  BY <1>0, <1>4 DEF Flow
<1>27. change'.type # "None" /\ (outer = << >> => change'.type = "Split")
  OBVIOUS
<1> QED BY <1>11, <1>20, <1>21, <1>22, <1>23, <1>24, <1>25, <1>26, <1>27, RestructuredReturn

-----------------------------------------------------------------------------
(* Fields of node tables, and the split of a leaf *)

\* A table of nodes, whatever their fields hold.
fields == {"leaf", "keys", "values", "children", "buffer", "lowest", "parent", "left", "right"}
isTable(t) == DOMAIN t = NodeId /\ \A q \in NodeId : DOMAIN t[q] = fields

\* Linking a neighbour back changes one field of one node.
LEMMA LinkBackFields ==
  ASSUME NEW t, isTable(t), NEW i, NEW l
  PROVE  /\ isTable(linkBack(t, i, l))
         /\ \A q \in NodeId : /\ \A f \in fields \ {"left"} : linkBack(t, i, l)[q][f] = t[q][f]
                              /\ linkBack(t, i, l)[q].left = IF q = i THEN l ELSE t[q].left
<1>1. CASE i = Nil
  BY <1>1, IdAssumption DEF linkBack, Nil
<1>2. CASE i # Nil
  <2>1. linkBack(t, i, l) = [t EXCEPT ![i] = [t[i] EXCEPT !.left = l]]
    BY <1>2 DEF linkBack
  <2>2. DOMAIN linkBack(t, i, l) = NodeId
    BY <2>1 DEF isTable
  <2>3. ASSUME NEW q \in NodeId
        PROVE  /\ DOMAIN linkBack(t, i, l)[q] = fields
               /\ \A f \in fields \ {"left"} : linkBack(t, i, l)[q][f] = t[q][f]
               /\ linkBack(t, i, l)[q].left = IF q = i THEN l ELSE t[q].left
    <3>1. linkBack(t, i, l)[q] = IF q = i THEN [t[q] EXCEPT !.left = l] ELSE t[q]
      BY <2>1 DEF isTable
    <3>2. DOMAIN t[q] = fields /\ "left" \in fields
      BY DEF isTable, fields
    <3> QED BY <3>1, <3>2
  <2> QED BY <2>2, <2>3 DEF isTable
<1> QED BY <1>1, <1>2

\* Giving nodes a new parent changes their parent fields alone.
LEMMA ReparentFields ==
  ASSUME NEW t, isTable(t), NEW S, NEW p
  PROVE  /\ isTable(reparent(t, S, p))
         /\ \A q \in NodeId : /\ \A f \in fields \ {"parent"} : reparent(t, S, p)[q][f] = t[q][f]
                              /\ reparent(t, S, p)[q].parent = IF q \in S THEN p ELSE t[q].parent
<1>1. reparent(t, S, p) = [q \in NodeId |-> IF q \in S THEN [t[q] EXCEPT !.parent = p] ELSE t[q]]
  BY DEF reparent, isTable
<1>2. ASSUME NEW q \in NodeId
      PROVE  /\ DOMAIN reparent(t, S, p)[q] = fields
             /\ \A f \in fields \ {"parent"} : reparent(t, S, p)[q][f] = t[q][f]
             /\ reparent(t, S, p)[q].parent = IF q \in S THEN p ELSE t[q].parent
  <2>1. reparent(t, S, p)[q] = IF q \in S THEN [t[q] EXCEPT !.parent = p] ELSE t[q]
    BY <1>1
  <2>2. DOMAIN t[q] = fields /\ "parent" \in fields
    BY DEF isTable, fields
  <2> QED BY <2>1, <2>2
<1> QED BY <1>1, <1>2 DEF isTable

\* A heap is a table of nodes.
LEMMA HeapTable == ASSUME NEW t, isHeap(t) PROVE isTable(t)
BY DEF isHeap, isNode, isTable, fields

\* Overwriting a node leaves a table of nodes.
LEMMA TableUpdate ==
  ASSUME NEW t, isTable(t), NEW i \in NodeId, NEW n, DOMAIN n = fields
  PROVE  /\ isTable([t EXCEPT ![i] = n])
         /\ \A q \in NodeId : [t EXCEPT ![i] = n][q] = IF q = i THEN n ELSE t[q]
BY DEF isTable

\* A node is none of its neighbours and children.
LEMMA OwnLinks ==
  ASSUME ShapeInv, running, NEW h, Shape(h), NEW x \in live
  PROVE  /\ nodes[x].left \in live \cup {Nil} /\ nodes[x].left # x
         /\ nodes[x].right \in live \cup {Nil} /\ nodes[x].right # x
         /\ nodes[x].children \in Seq(NodeId) /\ Len(nodes[x].children) \in Nat
         /\ \A j \in 1 .. Len(nodes[x].children) :
              /\ nodes[x].children[j] \in live /\ nodes[x].children[j] # x
              /\ h[x] = h[nodes[x].children[j]] + 1
<1>0. TypeInv /\ Childless /\ Tree(settled, tops, live, h)
  BY DEF ShapeInv, Shape
<1>1. /\ \A q \in NodeId : settled[q] = nodes[q]
      /\ live \subseteq NodeId /\ Nil \notin live
  BY <1>0, RunningPlain, LiveIds
<1>2. rgt(settled, x) = nodes[x].right /\ lft(settled, x) = nodes[x].left
  BY <1>1 DEF rgt, lft
<1>3. /\ rgt(settled, x) # Nil => rgt(settled, x) \in live /\ rgt(settled, x) # x
      /\ lft(settled, x) # Nil => lft(settled, x) \in live /\ lft(settled, x) # x
  BY <1>0 DEF Tree, Mutual
<1>4. \A j \in 1 .. deg(settled, tops, x) :
        kid(settled, tops, x, j) \in live /\ h[x] = h[kid(settled, tops, x, j)] + 1
  BY <1>0 DEF Tree, Downward, Levels
<1>5. \A q \in live : h[q] \in Nat
  BY <1>0 DEF Tree, Levels
<1>6. kids(settled, tops, x) = nodes[x].children
  BY <1>1 DEF kids
<1>7. nodes[x].children \in Seq(NodeId) /\ Len(nodes[x].children) \in Nat
  BY <1>0, <1>1, NodeFacts
<1>8. \A j \in 1 .. Len(nodes[x].children) :
        nodes[x].children[j] \in live /\ h[x] = h[nodes[x].children[j]] + 1
  BY <1>4, <1>6 DEF deg, kid
<1>9. \A j \in 1 .. Len(nodes[x].children) : nodes[x].children[j] # x
  BY <1>5, <1>8
<1>10. x # Nil
  BY <1>1
<1> QED BY <1>2, <1>3, <1>7, <1>8, <1>9, <1>10

\* A leaf splits.
LEMMA SplitLeafShape ==
  ASSUME ShapeInv, TypeInv', SplitLeaf
  PROVE  ShapeInv'
<1> DEFINE n == inserted(target)
           mid == size(n) \div 2
           pivot == n.keys[mid + 1]
           right == [n EXCEPT !.keys = drop(@, mid), !.values = drop(@, mid), !.lowest = pivot, !.left = call.node]
           left(id) == [n EXCEPT !.keys = take(@, mid), !.values = take(@, mid), !.right = id]
           base(id) == [nodes EXCEPT ![call.node] = left(id), ![id] = right]
<1>1. PICK h : Shape(h)
  BY DEF ShapeInv
<1>2. /\ pc = "apply" /\ target.leaf /\ call.msg # Absent /\ isOverflowing(n) /\ stack' = stack
  BY DEF SplitLeaf
<1>3. PICK id \in NodeId :
        /\ isFresh(id) /\ nodes' = linkBack(base(id), n.right, id)
        /\ Give(Restructured, [key |-> pivot, node |-> id, type |-> "Split"])
        /\ allocated' = allocated \cup {id}
  BY DEF SplitLeaf
<1>4. /\ TypeInv /\ Childless /\ Flow /\ Sizes /\ running /\ here = call.node /\ outer = stack
      /\ here \in live /\ here \in NodeId /\ target = nodes[here] /\ live \subseteq NodeId
      /\ filled(nodes, tops, here)
  BY <1>1, <1>2, ApplyFacts
<1>5. /\ pc' = "return" /\ stack' = outer /\ change'.type = "Split" /\ change'.node = id /\ err' # "Success"
      /\ rootNode' = rootNode /\ orphans' = orphans
  BY <1>2, <1>3, <1>4 DEF Give, Restructured, history
<1>6. /\ \A f \in {"leaf", "children", "parent", "left", "right"} : n[f] = target[f]
      /\ size(n) \in {size(target), size(target) + 1} /\ size(target) \in Nat
  BY <1>2, <1>4, InsertedLinks
<1>7. size(n) = Fanout /\ size(nodes[here]) # 0
  <2>1. size(target) < Fanout
    BY <1>4 DEF filled
  <2> QED BY <2>1, <1>2, <1>4, <1>6, SizeAssumption DEF isOverflowing
<1>8. isNode(n) /\ n.keys \in Seq(KeyType) /\ Len(n.keys) = Fanout /\ DOMAIN n = fields
  BY <1>2, <1>4, <1>7, InsertedType DEF isNode, size, fields
<1>9. mid = Fanout \div 2 /\ mid \in 0 .. Len(n.keys) /\ mid \in least .. (Fanout - 1) /\ Fanout - mid \in least .. (Fanout - 1)
  BY <1>7, <1>8, SizeAssumption DEF least
<1> HIDE DEF n, mid
<1>10. size(left(id)) = mid /\ size(right) = Fanout - mid /\ DOMAIN left(id) = fields /\ DOMAIN right = fields
  <2>1. Len(take(n.keys, mid)) = mid /\ Len(drop(n.keys, mid)) = Fanout - mid
    BY <1>8, <1>9, TakeType, DropType
  <2>2. left(id).keys = take(n.keys, mid) /\ right.keys = drop(n.keys, mid)
    BY <1>8 DEF fields
  <2> QED BY <2>1, <2>2, <1>8 DEF size
<1>11. /\ \A f \in {"leaf", "children", "parent"} : left(id)[f] = nodes[here][f] /\ right[f] = nodes[here][f]
       /\ left(id).left = nodes[here].left /\ left(id).right = id
       /\ right.left = here /\ right.right = nodes[here].right
  BY <1>4, <1>6, <1>8 DEF fields
<1> HIDE DEF left, right
<1>12. id \notin allocated /\ id \notin live
  BY <1>3, <1>4, RunningPlain DEF isFresh, isLeast
<1>13. /\ isTable(base(id))
       /\ \A q \in NodeId : base(id)[q] = IF q = id THEN right ELSE IF q = here THEN left(id) ELSE nodes[q]
  <2>1. isTable(nodes)
    BY <1>4, HeapTable DEF TypeInv, TypeOK
  <2>2. /\ isTable([nodes EXCEPT ![here] = left(id)])
        /\ \A q \in NodeId : [nodes EXCEPT ![here] = left(id)][q] = IF q = here THEN left(id) ELSE nodes[q]
    BY <2>1, <1>4, <1>10, TableUpdate
  <2>3. base(id) = [[nodes EXCEPT ![here] = left(id)] EXCEPT ![id] = right]
    BY <1>4
  <2> DEFINE t == [nodes EXCEPT ![here] = left(id)]
  <2>4. isTable(t) /\ \A q \in NodeId : t[q] = IF q = here THEN left(id) ELSE nodes[q]
    BY <2>2
  <2>5. base(id) = [t EXCEPT ![id] = right]
    BY <2>3
  <2> HIDE DEF t, base
  <2>6. /\ isTable([t EXCEPT ![id] = right])
        /\ \A q \in NodeId : [t EXCEPT ![id] = right][q] = IF q = id THEN right ELSE t[q]
    BY <2>4, <1>10, TableUpdate
  <2> QED BY <2>4, <2>5, <2>6
<1> HIDE DEF base
<1>14. \A q \in NodeId : /\ \A f \in fields \ {"left"} : nodes'[q][f] = base(id)[q][f]
                         /\ nodes'[q].left = IF q = nodes[here].right THEN id ELSE base(id)[q].left
  <2>1. n.right = nodes[here].right
    BY <1>4, <1>6
  <2> QED BY <2>1, <1>3, <1>13, LinkBackFields
<1>15. /\ nodes[here].right # here /\ nodes[here].right # id /\ id # here /\ Nil \notin NodeId
  <2>1. nodes[here].right \in live \cup {Nil} /\ nodes[here].right # here
    BY <1>1, <1>4, OwnLinks
  <2> QED BY <2>1, <1>4, <1>12, LiveIds
<1>16. \A q \in {here, id} : /\ nodes'[q].leaf = nodes[here].leaf
                             /\ nodes'[q].parent = nodes[here].parent
                             /\ nodes'[q].children = nodes[here].children
                             /\ size(nodes'[q]) \in least .. (Fanout - 1)
  <2>1. ASSUME NEW q \in NodeId
        PROVE  /\ nodes'[q].leaf = base(id)[q].leaf /\ nodes'[q].parent = base(id)[q].parent
               /\ nodes'[q].children = base(id)[q].children /\ size(nodes'[q]) = size(base(id)[q])
    BY <1>14 DEF fields, size
  <2> QED BY <2>1, <1>4, <1>9, <1>10, <1>11, <1>13
<1>17. /\ nodes'[here].left = nodes[here].left /\ nodes'[here].right = id
       /\ nodes'[id].left = here /\ nodes'[id].right = nodes[here].right
  <2>1. \A q \in NodeId : nodes'[q].right = base(id)[q].right
    BY <1>14 DEF fields
  <2> QED BY <2>1, <1>4, <1>11, <1>13, <1>14, <1>15
<1>18. \A q \in NodeId \ {here, id} :
         /\ nodes'[q].leaf = nodes[q].leaf /\ nodes'[q].children = nodes[q].children
         /\ nodes'[q].right = nodes[q].right /\ size(nodes'[q]) = size(nodes[q])
         /\ nodes'[q].left = IF q = nodes[here].right THEN id ELSE nodes[q].left
         /\ nodes'[q].parent = nodes[q].parent
  <2>1. ASSUME NEW q \in NodeId \ {here, id}
        PROVE  /\ nodes'[q].leaf = nodes[q].leaf /\ nodes'[q].children = nodes[q].children
               /\ nodes'[q].right = nodes[q].right /\ size(nodes'[q]) = size(nodes[q])
               /\ nodes'[q].parent = nodes[q].parent
    <3>1. base(id)[q] = nodes[q]
      BY <1>13
    <3> QED BY <3>1, <1>14 DEF fields, size
  <2>2. \A q \in NodeId \ {here, id} : nodes'[q].left = IF q = nodes[here].right THEN id ELSE nodes[q].left
    BY <1>13, <1>14
  <2> QED BY <2>1, <2>2
<1>19. nodes[here].children = << >> /\ Len(nodes[here].children) = 0
  BY <1>2, <1>4 DEF Childless
<1>20. take(<< >>, 0) = << >> /\ drop(<< >>, 0) = << >>
  <2>1. << >> \in Seq(NodeId) /\ 0 \in 0 .. Len(<< >>) /\ Len(<< >>) - 0 = 0
    OBVIOUS
  <2>2. take(<< >>, 0) \in Seq(NodeId) /\ Len(take(<< >>, 0)) = 0
    BY ONLY <2>1, TakeType
  <2>3. drop(<< >>, 0) \in Seq(NodeId) /\ Len(drop(<< >>, 0)) = 0
    BY ONLY <2>1, DropType
  <2> QED BY <2>2, <2>3
<1> DEFINE m == 0
<1>21. /\ m \in 0 .. Len(nodes[here].children)
       /\ Len(nodes[here].children) > 0 => 1 <= m /\ m < Len(nodes[here].children)
       /\ nodes'[here].children = take(nodes[here].children, m)
       /\ nodes'[id].children = drop(nodes[here].children, m)
       /\ ~\E j \in (m + 1) .. Len(nodes[here].children) : TRUE
  <2>1. (m + 1) .. Len(nodes[here].children) = {}
    BY <1>19
  <2> QED BY <2>1, <1>16, <1>19, <1>20
<1> HIDE DEF m
<1>22. \A q \in NodeId \ {here, id} :
         nodes'[q].parent = IF \E j \in (m + 1) .. Len(nodes[here].children) : q = nodes[here].children[j]
                            THEN id ELSE nodes[q].parent
  BY <1>18, <1>21
<1>23. \A q \in NodeId \ {here, id} :
         /\ nodes'[q].leaf = nodes[q].leaf /\ nodes'[q].children = nodes[q].children
         /\ nodes'[q].right = nodes[q].right /\ size(nodes'[q]) = size(nodes[q])
         /\ nodes'[q].left = IF q = nodes[here].right THEN id ELSE nodes[q].left
         /\ nodes'[q].parent = IF \E j \in (m + 1) .. Len(nodes[here].children) : q = nodes[here].children[j]
                               THEN id ELSE nodes[q].parent
  BY <1>18, <1>22
<1>24. \A q \in {here, id} : /\ nodes'[q].leaf = nodes[here].leaf
                             /\ nodes'[q].parent = nodes[here].parent
                             /\ size(nodes'[q]) \in least .. (Fanout - 1)
  BY <1>16
<1>25. Halves(id, m)
  BY ONLY <1>12, <1>17, <1>21, <1>23, <1>24 DEF Halves
<1> QED BY ONLY ShapeInv, TypeInv', <1>1, <1>3, <1>4, <1>5, <1>7, <1>12, <1>25, SplitShape

-----------------------------------------------------------------------------
(* The split of an internal node *)

\* The node of the innermost flush, when its batch is done.
LEMMA FlushFacts ==
  ASSUME ShapeInv, FlushDone, NEW h, Shape(h)
  PROVE  /\ TypeInv /\ Childless /\ Flow /\ Sizes /\ running /\ pc = "flush"
         /\ here = frame.node /\ outer = Front(stack) /\ stack # << >>
         /\ here \in live /\ here \in NodeId /\ flusher = nodes[here] /\ live \subseteq NodeId
         /\ isNode(nodes[here]) /\ ~nodes[here].leaf /\ size(nodes[here]) \in Nat
         /\ size(nodes[here]) <= Fanout
         /\ size(nodes[here]) + 1 >= least \/ tops = <<here>>
         /\ err = "Success" => size(nodes[here]) < Fanout /\ (size(nodes[here]) >= least \/ tops = <<here>>)
<1>1. /\ TypeInv /\ Childless /\ Flow /\ Sizes /\ running /\ pc = "flush"
      /\ here = frame.node /\ outer = Front(stack) /\ stack # << >>
  BY DEF ShapeInv, FlushDone, running, here, outer, TypeInv, RunningCall
<1>2. /\ here \in live /\ here \in NodeId /\ live \subseteq NodeId
      /\ settled[here] = nodes[here]
  BY <1>1, RunningPlain, HereFacts, LiveIds
<1>3. flusher = nodes[here] /\ isNode(nodes[here]) /\ ~nodes[here].leaf /\ size(nodes[here]) \in Nat
  BY <1>1, <1>2, NodeFacts DEF flusher, FlushDone
<1>4. least \in Int /\ Fanout \in Nat
  BY SizeAssumption DEF least
<1>5. CASE err = "Success"
  <2>1. unsettled = {}
    BY <1>5 DEF unsettled, mending
  <2>2. filled(settled, tops, here)
    BY <2>1, <1>1, <1>2 DEF Sizes
  <2>3. size(nodes[here]) < Fanout /\ (size(nodes[here]) >= least \/ tops = <<here>>)
    BY <2>2, <1>2, <1>3 DEF filled
  <2>4. size(nodes[here]) <= Fanout /\ (size(nodes[here]) + 1 >= least \/ tops = <<here>>)
    BY <2>3, <1>3, <1>4
  <2> QED BY <2>3, <2>4, <1>1, <1>2, <1>3
<1>6. CASE err # "Success"
  <2>1. unsettled = {here}
    BY <1>1, <1>6 DEF unsettled, mending
  <2>2. nearlyFilled(settled, tops, here)
    BY <2>1, <1>1 DEF Sizes
  <2>3. size(nodes[here]) <= Fanout /\ (size(nodes[here]) + 1 >= least \/ tops = <<here>>)
    BY <2>2, <1>2 DEF nearlyFilled
  <2> QED BY <2>3, <1>1, <1>2, <1>3, <1>6
<1> QED BY <1>5, <1>6

\* An internal node splits.
LEMMA SplitInternalShape ==
  ASSUME ShapeInv, TypeInv', SplitInternal
  PROVE  ShapeInv'
<1> DEFINE n == flusher
           mid == size(n) \div 2
           m == mid + 1
           pivot == n.keys[mid + 1]
           moved == drop(n.children, mid + 1)
           right(low) == [n EXCEPT !.keys = drop(@, mid + 1), !.children = moved,
                                   !.buffer = from(@, pivot), !.left = frame.node,
                                   !.lowest = low]
           left(id) == [n EXCEPT !.keys = take(@, mid), !.children = take(@, mid + 1),
                             !.buffer = below(@, pivot), !.right = id]
           base(low, id) == [nodes EXCEPT ![frame.node] = left(id), ![id] = right(low)]
<1>1. PICK h : Shape(h)
  BY DEF ShapeInv
<1>2. /\ FlushDone /\ isOverflowing(n) /\ stack' = Front(stack)
  BY DEF SplitInternal
<1>3. PICK id \in NodeId :
        /\ isFresh(id)
        /\ \E low : nodes' = reparent(linkBack(base(low, id), n.right, id), ToSet(moved), id)
        /\ Give(err, [key |-> pivot, node |-> id, type |-> "Split"])
        /\ allocated' = allocated \cup {id}
  BY DEF SplitInternal
<1>31. PICK low : nodes' = reparent(linkBack(base(low, id), n.right, id), ToSet(moved), id)
  BY <1>3
<1>4. /\ TypeInv /\ Childless /\ Flow /\ Sizes /\ running
      /\ here = frame.node /\ outer = Front(stack)
      /\ here \in live /\ here \in NodeId /\ n = nodes[here] /\ live \subseteq NodeId
      /\ isNode(n) /\ ~n.leaf /\ size(n) \in Nat
      /\ size(n) <= Fanout
      /\ err = "Success" => size(n) < Fanout
  BY <1>1, <1>2, FlushFacts
<1>5. size(n) = Fanout /\ err # "Success"
  BY <1>2, <1>4, SizeAssumption DEF isOverflowing
<1>6. /\ pc' = "return" /\ stack' = outer /\ change'.type = "Split" /\ change'.node = id /\ err' # "Success"
      /\ rootNode' = rootNode /\ orphans' = orphans
  BY <1>2, <1>3, <1>4, <1>5 DEF Give, history
<1>7. size(nodes[here]) # 0
  BY <1>4, <1>5, SizeAssumption
<1>8. /\ n.keys \in Seq(KeyType) /\ Len(n.keys) = Fanout /\ DOMAIN n = fields
      /\ n.children \in Seq(NodeId) /\ Len(n.children) = Fanout + 1
  BY <1>4, <1>5 DEF isNode, size, fields
<1>9. /\ mid \in 0 .. Len(n.keys) /\ m \in 0 .. Len(n.keys) /\ m \in 0 .. Len(n.children)
      /\ m \in Nat /\ 1 <= m /\ m < Len(n.children)
      /\ mid \in least .. (Fanout - 1) /\ Fanout - m \in least .. (Fanout - 1)
  BY <1>5, <1>8, SizeAssumption DEF least
<1> HIDE DEF n, mid, m
<1>10. /\ size(left(id)) = mid /\ size(right(low)) = Fanout - m /\ DOMAIN left(id) = fields /\ DOMAIN right(low) = fields
       /\ left(id).children = take(n.children, m) /\ right(low).children = drop(n.children, m)
  <2>1. Len(take(n.keys, mid)) = mid /\ Len(drop(n.keys, m)) = Fanout - m
    BY <1>8, <1>9, TakeType, DropType
  <2>2. left(id).keys = take(n.keys, mid) /\ right(low).keys = drop(n.keys, m)
    BY <1>8 DEF fields, m
  <2>3. left(id).children = take(n.children, m) /\ right(low).children = drop(n.children, m)
    BY <1>8 DEF fields, m
  <2>4. DOMAIN left(id) = fields /\ DOMAIN right(low) = fields
    BY <1>8
  <2> QED BY <2>1, <2>2, <2>3, <2>4 DEF size
<1>11. /\ \A f \in {"leaf", "parent"} : left(id)[f] = nodes[here][f] /\ right(low)[f] = nodes[here][f]
       /\ left(id).left = nodes[here].left /\ left(id).right = id
       /\ right(low).left = here /\ right(low).right = nodes[here].right
  BY <1>4, <1>8 DEF fields
<1>32. moved = drop(n.children, m)
  BY DEF m
<1> HIDE DEF left, right, moved
<1>12. id \notin allocated /\ id \notin live
  BY <1>3, <1>4, RunningPlain DEF isFresh, isLeast
<1>13. /\ isTable(base(low, id))
       /\ \A q \in NodeId : base(low, id)[q] = IF q = id THEN right(low) ELSE IF q = here THEN left(id) ELSE nodes[q]
  <2> DEFINE t == [nodes EXCEPT ![here] = left(id)]
  <2>1. isTable(nodes)
    BY <1>4, HeapTable DEF TypeInv, TypeOK
  <2>2. isTable(t) /\ \A q \in NodeId : t[q] = IF q = here THEN left(id) ELSE nodes[q]
    BY <2>1, <1>4, <1>10, TableUpdate
  <2>3. base(low, id) = [t EXCEPT ![id] = right(low)]
    BY <1>4
  <2> HIDE DEF t, base
  <2>4. /\ isTable([t EXCEPT ![id] = right(low)])
        /\ \A q \in NodeId : [t EXCEPT ![id] = right(low)][q] = IF q = id THEN right(low) ELSE t[q]
    BY <2>2, <1>10, TableUpdate
  <2> QED BY <2>2, <2>3, <2>4
<1> HIDE DEF base
<1>14. \A q \in NodeId : /\ \A f \in fields \ {"left", "parent"} : nodes'[q][f] = base(low, id)[q][f]
                         /\ nodes'[q].left = IF q = nodes[here].right THEN id ELSE base(low, id)[q].left
                         /\ nodes'[q].parent = IF q \in ToSet(moved) THEN id ELSE base(low, id)[q].parent
  <2> DEFINE t == linkBack(base(low, id), n.right, id)
  <2>1. /\ isTable(t)
        /\ \A q \in NodeId : /\ \A f \in fields \ {"left"} : t[q][f] = base(low, id)[q][f]
                             /\ t[q].left = IF q = n.right THEN id ELSE base(low, id)[q].left
    BY <1>13, LinkBackFields
  <2>2. n.right = nodes[here].right /\ nodes' = reparent(t, ToSet(moved), id)
    BY <1>4, <1>31
  <2> HIDE DEF t
  <2>3. \A q \in NodeId : /\ \A f \in fields \ {"parent"} : nodes'[q][f] = t[q][f]
                          /\ nodes'[q].parent = IF q \in ToSet(moved) THEN id ELSE t[q].parent
    BY <2>1, <2>2, ReparentFields
  <2>4. "left" \in fields \ {"parent"} /\ "parent" \in fields \ {"left"}
    BY DEF fields
  <2> QED BY <2>1, <2>2, <2>3, <2>4
<1>15. /\ nodes[here].right # here /\ nodes[here].right # id /\ id # here /\ Nil \notin NodeId
       /\ \A j \in 1 .. Len(n.children) : n.children[j] # here /\ n.children[j] # id
  <2>1. nodes[here].right \in live \cup {Nil} /\ nodes[here].right # here
    BY <1>1, <1>4, OwnLinks
  <2>2. \A j \in 1 .. Len(n.children) : n.children[j] \in live /\ n.children[j] # here
    BY <1>1, <1>4, OwnLinks
  <2> QED BY <2>1, <2>2, <1>4, <1>12, LiveIds
<1>16. \A q : q \in ToSet(moved) <=> \E j \in (m + 1) .. Len(n.children) : q = n.children[j]
  <2>1. moved \in Seq(NodeId) /\ Len(moved) = Len(n.children) - m /\ \A j \in 1 .. (Len(n.children) - m) : moved[j] = n.children[m + j]
    BY <1>8, <1>9, <1>32, DropItems
  <2>2. \A q : q \in ToSet(moved) <=> \E j \in 1 .. (Len(n.children) - m) : q = moved[j]
    BY <2>1 DEF ToSet
  <2>3. Len(n.children) \in Nat /\ m \in Nat
    BY <1>8, <1>9
  <2>4. ASSUME NEW q, NEW j \in 1 .. (Len(n.children) - m), q = moved[j]
        PROVE \E i \in (m + 1) .. Len(n.children) : q = n.children[i]
    <3>1. m + j \in (m + 1) .. Len(n.children)
      BY <2>3
    <3> QED BY <3>1, <2>1, <2>4
  <2>5. ASSUME NEW q, NEW i \in (m + 1) .. Len(n.children), q = n.children[i]
        PROVE \E j \in 1 .. (Len(n.children) - m) : q = moved[j]
    <3>1. i - m \in 1 .. (Len(n.children) - m) /\ m + (i - m) = i
      BY <2>3
    <3> QED BY <3>1, <2>1, <2>5
  <2> QED BY <2>2, <2>4, <2>5
<1>17. here \notin ToSet(moved) /\ id \notin ToSet(moved)
  <2>1. \A j \in (m + 1) .. Len(n.children) : j \in 1 .. Len(n.children)
    BY <1>8, <1>9
  <2> QED BY <2>1, <1>15, <1>16
<1>18. \A q \in NodeId : /\ nodes'[q].leaf = base(low, id)[q].leaf
                         /\ nodes'[q].children = base(low, id)[q].children
                         /\ nodes'[q].right = base(low, id)[q].right
                         /\ size(nodes'[q]) = size(base(low, id)[q])
  BY <1>14 DEF fields, size
<1>19. \A q \in {here, id} : /\ nodes'[q].leaf = nodes[here].leaf
                             /\ nodes'[q].parent = nodes[here].parent
                             /\ size(nodes'[q]) \in least .. (Fanout - 1)
  <2>1. \A q \in {here, id} : nodes'[q].parent = base(low, id)[q].parent
    BY <1>4, <1>14, <1>17
  <2> QED BY <2>1, <1>4, <1>9, <1>10, <1>11, <1>13, <1>18
<1>20. /\ nodes'[here].left = nodes[here].left /\ nodes'[here].right = id
       /\ nodes'[id].left = here /\ nodes'[id].right = nodes[here].right
  BY <1>4, <1>11, <1>13, <1>14, <1>15, <1>18
<1>21. /\ nodes'[here].children = take(nodes[here].children, m)
       /\ nodes'[id].children = drop(nodes[here].children, m)
  BY <1>4, <1>10, <1>13, <1>15, <1>18
<1>22. \A q \in NodeId \ {here, id} :
         /\ nodes'[q].leaf = nodes[q].leaf /\ nodes'[q].children = nodes[q].children
         /\ nodes'[q].right = nodes[q].right /\ size(nodes'[q]) = size(nodes[q])
         /\ nodes'[q].left = IF q = nodes[here].right THEN id ELSE nodes[q].left
         /\ nodes'[q].parent = IF \E j \in (m + 1) .. Len(nodes[here].children) : q = nodes[here].children[j]
                               THEN id ELSE nodes[q].parent
  <2> TAKE q \in NodeId \ {here, id}
  <2>1. base(low, id)[q] = nodes[q]
    BY <1>13
  <2>2. /\ nodes'[q].leaf = nodes[q].leaf /\ nodes'[q].children = nodes[q].children
        /\ nodes'[q].right = nodes[q].right /\ size(nodes'[q]) = size(nodes[q])
    BY <2>1, <1>18
  <2>3. nodes'[q].left = IF q = nodes[here].right THEN id ELSE nodes[q].left
    BY <2>1, <1>14
  <2>4. nodes'[q].parent = IF \E j \in (m + 1) .. Len(n.children) : q = n.children[j]
                           THEN id ELSE nodes[q].parent
    BY <2>1, <1>14, <1>16
  <2> QED BY <2>2, <2>3, <2>4, <1>4
<1>23. /\ m \in 0 .. Len(nodes[here].children)
       /\ Len(nodes[here].children) > 0 => 1 <= m /\ m < Len(nodes[here].children)
  BY <1>4, <1>9
<1>24. running /\ id \in NodeId
  BY <1>4
<1>25. Halves(id, m)
  BY ONLY <1>19, <1>20, <1>21, <1>22, <1>23 DEF Halves
<1> QED BY ONLY ShapeInv, TypeInv', <1>1, <1>3, <1>24, <1>6, <1>7, <1>12, <1>25, SplitShape

-----------------------------------------------------------------------------
(* Children that change sides *)

\* A child of l and r together, counted from 1.
shared(l, r, j) == IF j <= Len(nodes[l].children) THEN nodes[l].children[j]
                   ELSE nodes[r].children[j - Len(nodes[l].children)]

\* A step shares the children of two neighbours anew: l has the first k.
Reshared(l, r, k) ==
  LET a == Len(nodes[l].children)
      b == Len(nodes[r].children) IN
  /\ nodes[l].leaf = nodes[r].leaf
  /\ a + b > 0 => 1 <= k /\ k < a + b
  /\ a + b = 0 => k = 0
  /\ Len(nodes'[l].children) = k
  /\ \A j \in 1 .. k : nodes'[l].children[j] = shared(l, r, j)
  /\ Len(nodes'[r].children) = a + b - k
  /\ \A j \in 1 .. (a + b - k) : nodes'[r].children[j] = shared(l, r, k + j)
  /\ \A q \in {l, r} : size(nodes'[q]) \in least .. (Fanout - 1)
  /\ \A q \in NodeId : /\ nodes'[q].leaf = nodes[q].leaf
                       /\ nodes'[q].left = nodes[q].left /\ nodes'[q].right = nodes[q].right
                       /\ q \notin {l, r} => nodes'[q].children = nodes[q].children /\ size(nodes'[q]) = size(nodes[q])
  /\ \A j \in 1 .. (a + b) : nodes'[shared(l, r, j)].parent = IF j <= k THEN l ELSE r
  /\ \A q \in live : nodes[q].parent \notin {l, r} => nodes'[q].parent = nodes[q].parent

\* Two neighbours share their children anew.
LEMMA ShiftShape ==
  ASSUME ShapeInv, TypeInv', running, NEW h, Shape(h), outer # << >>,
         NEW i, NEW l, NEW r, Mates(settled, tops, live, above, i, l, r), here \in {l, r},
         NEW k \in Nat, Reshared(l, r, k),
         pc' = "return", stack' = outer, change'.type \in {"RedistributeLeft", "RedistributeRight"},
         err' # "Success", rootNode' = rootNode, orphans' = orphans, allocated' = allocated
  PROVE  ShapeInv'
<1> DEFINE a == Len(nodes[l].children)
           b == Len(nodes[r].children)
<1> SUFFICES ASSUME nodes[l].leaf = nodes[r].leaf,
                    a + b > 0 => 1 <= k /\ k < a + b,
                    a + b = 0 => k = 0,
                    Len(nodes'[l].children) = k,
                    \A j \in 1 .. k : nodes'[l].children[j] = shared(l, r, j),
                    Len(nodes'[r].children) = a + b - k,
                    \A j \in 1 .. (a + b - k) : nodes'[r].children[j] = shared(l, r, k + j),
                    \A q \in {l, r} : size(nodes'[q]) \in least .. (Fanout - 1),
                    \A q \in NodeId : /\ nodes'[q].leaf = nodes[q].leaf
                                      /\ nodes'[q].left = nodes[q].left /\ nodes'[q].right = nodes[q].right
                                      /\ q \notin {l, r} => nodes'[q].children = nodes[q].children
                                                            /\ size(nodes'[q]) = size(nodes[q]),
                    \A j \in 1 .. (a + b) : nodes'[shared(l, r, j)].parent = IF j <= k THEN l ELSE r,
                    \A q \in live : nodes[q].parent \notin {l, r} => nodes'[q].parent = nodes[q].parent
             PROVE  ShapeInv'
  BY DEF Reshared
<1>0. TypeInv /\ Flow /\ Sizes /\ Childless /\ Tree(settled, tops, live, h) /\ h \in [NodeId \cup {Nil} -> Nat]
  BY DEF ShapeInv, Shape
<1>1. /\ \A q \in NodeId : settled[q] = nodes[q]
      /\ live = allocated \ orphans /\ live \subseteq NodeId /\ Nil \notin live /\ Nil \notin NodeId
      /\ rootNode # Nil /\ tops = <<rootNode>>
  BY <1>0, RunningPlain, LiveIds
<1>2. /\ here \in live /\ above \in live /\ above # here /\ ~settled[above].leaf
      /\ h[above] = h[here] + 1 /\ h[here] \in Nat
      /\ Last(outer).idx \in Nat
  BY <1>0, HereFacts
<1>3. /\ l \in live /\ r \in live /\ l # r /\ l # above /\ r # above
      /\ h[l] = h[here] /\ h[r] = h[here]
      /\ deg(settled, tops, l) \in Nat /\ deg(settled, tops, r) \in Nat
  BY <1>0, <1>1, MateFacts
<1>4. gone(change') = {} /\ change' \in ChildChange
  BY DEF gone, TypeInv, TypeOK
<1>5. \A q \in NodeId : isNode(nodes'[q]) /\ isNode(nodes[q])
  BY <1>0 DEF TypeInv, TypeOK, isHeap
<1>6. live' = live /\ tops' = tops
  <2>1. live' = (allocated' \ gone(change')) \ orphans'
    BY <1>0, SettledNext
  <2> QED BY <2>1, <1>1, <1>4 DEF tops
<1>7. /\ \A q \in NodeId : q # above => settled'[q] = nodes'[q]
      /\ \A f \in {"leaf", "parent", "left", "right", "children"} : settled'[above][f] = nodes'[above][f]
      /\ size(settled'[above]) = size(nodes'[above])
  <2>1. settled' = [q \in NodeId |-> IF q \in gone(change') THEN NewLeaf
                                     ELSE IF q = above THEN adjusted(nodes'[above], Last(outer).idx, change')
                                     ELSE nodes'[q]]
    BY <1>0, SettledNext
  <2>2. /\ \A f \in {"leaf", "parent", "left", "right", "children"} : adjusted(nodes'[above], Last(outer).idx, change')[f] = nodes'[above][f]
        /\ size(adjusted(nodes'[above], Last(outer).idx, change')) = size(nodes'[above])
    BY <1>1, <1>2, <1>4, <1>5, AdjustedRedistribution
  <2>3. settled'[above] = adjusted(nodes'[above], Last(outer).idx, change')
    BY <2>1, <1>1, <1>2, <1>4
  <2>4. \A q \in NodeId : q # above => settled'[q] = nodes'[q]
    BY <2>1, <1>4
  <2> QED BY <2>2, <2>3, <2>4
<1>8. \A q \in NodeId : /\ \A f \in {"leaf", "parent", "left", "right", "children"} : settled'[q][f] = nodes'[q][f]
                        /\ size(settled'[q]) = size(nodes'[q])
  BY <1>7
<1>9. deg(settled, tops, l) = a /\ deg(settled, tops, r) = b
      /\ \A j : joint(settled, tops, l, r, j) = shared(l, r, j)
  BY <1>1, <1>3 DEF deg, kid, kids, joint, shared
<1>10. \A q \in live : kids(settled', tops', q) = nodes'[q].children /\ kids(settled, tops, q) = nodes[q].children
  BY <1>1, <1>6, <1>8 DEF kids
<1>11. ASSUME NEW q \in live \cup {Nil}, q # l, q # r
       PROVE  /\ deg(settled', tops', q) = deg(settled, tops, q)
              /\ \A j \in 1 .. deg(settled, tops, q) : kid(settled', tops', q, j) = kid(settled, tops, q, j)
  <2>1. kids(settled', tops', q) = kids(settled, tops, q)
    <3>1. CASE q = Nil
      BY <3>1, <1>6 DEF kids
    <3>2. CASE q # Nil
      <4>1. q \in live /\ q \notin {l, r} /\ q \in NodeId
        BY <3>2, <1>1, <1>11
      <4> QED BY <4>1, <1>10
    <3> QED BY <3>1, <3>2
  <2> QED BY <2>1 DEF deg, kid
<1>12. /\ \A q \in live \cup {Nil} : lft(settled', q) = lft(settled, q) /\ rgt(settled', q) = rgt(settled, q)
       /\ \A q \in live : up(settled', q) = nodes'[q].parent /\ up(settled, q) = nodes[q].parent
  BY <1>1, <1>8 DEF lft, rgt, up
<1>13. /\ deg(settled', tops', l) = k /\ \A j \in 1 .. k : kid(settled', tops', l, j) = shared(l, r, j)
       /\ deg(settled', tops', r) = a + b - k
       /\ \A j \in 1 .. (a + b - k) : kid(settled', tops', r, j) = shared(l, r, k + j)
  BY <1>3, <1>10 DEF deg, kid
<1>14. \A j \in 1 .. (a + b) : joint(settled, tops, l, r, j) \in live
  BY <1>0, <1>1, <1>9, JointFacts
<1>15. /\ \A j \in 1 .. (a + b) : up(settled', joint(settled, tops, l, r, j)) = IF j <= k THEN l ELSE r
       /\ \A q \in live : up(settled, q) # l /\ up(settled, q) # r => up(settled', q) = up(settled, q)
  <2>1. ASSUME NEW j \in 1 .. (a + b)
        PROVE  up(settled', joint(settled, tops, l, r, j)) = IF j <= k THEN l ELSE r
    <3>1. joint(settled, tops, l, r, j) = shared(l, r, j) /\ joint(settled, tops, l, r, j) \in live
      BY <1>9, <1>14
    <3>2. up(settled', shared(l, r, j)) = nodes'[shared(l, r, j)].parent
      BY <3>1, <1>12
    <3>3. nodes'[shared(l, r, j)].parent = IF j <= k THEN l ELSE r
      BY <2>1
    <3> QED BY <3>1, <3>2, <3>3
  <2>2. \A q \in live : up(settled, q) # l /\ up(settled, q) # r => up(settled', q) = up(settled, q)
    BY <1>12
  <2> QED BY <2>1, <2>2
<1>16. (a + b > 0 => 1 <= k /\ k < a + b) /\ (a + b = 0 => k = 0)
  OBVIOUS
<1> HIDE DEF a, b
<1>17. Shifted(settled, tops, settled', tops', live, above, i, l, r, k)
  BY ONLY Mates(settled, tops, live, above, i, l, r), k \in Nat, <1>9, <1>11, <1>12, <1>13, <1>15, <1>16 DEF Shifted
<1>18. Tree(settled', tops', live', h)
  BY <1>0, <1>1, <1>6, <1>17, ShiftTree
<1>19. \A q \in live : h[q] > h[here] => q \in live' /\ settled'[q].leaf = settled[q].leaf
  BY <1>1, <1>6, <1>8
<1>20. \A q \in live : h[q] > h[above] => /\ settled'[q].children = settled[q].children
                                          /\ size(settled'[q]) = size(settled[q])
  <2>1. ASSUME NEW q \in live, h[q] > h[above]
        PROVE  settled'[q].children = settled[q].children /\ size(settled'[q]) = size(settled[q])
    <3>1. q \notin {l, r}
      BY <2>1, <1>2, <1>3
    <3> QED BY <3>1, <1>1, <1>8
  <2> QED BY <2>1
<1>21. ASSUME NEW q \in live', outer = << >> \/ q # above PROVE filled(settled', tops', q)
  <2>1. q \in live /\ q \in NodeId
    BY <1>1, <1>6, <1>21
  <2>2. CASE q \in {l, r}
    <3>1. size(settled'[q]) \in least .. (Fanout - 1)
      BY <2>1, <2>2, <1>8
    <3>2. least \in Int /\ Fanout \in Nat
      BY SizeAssumption DEF least
    <3>3. size(settled'[q]) < Fanout /\ size(settled'[q]) >= least
      BY ONLY <3>1, <3>2
    <3> QED BY ONLY <3>3 DEF filled
  <2>3. CASE q \notin {l, r}
    <3>1. q # here
      BY <2>3
    <3>2. size(settled'[q]) = size(nodes[q])
      BY <2>1, <2>3, <1>8
    <3>3. /\ size(nodes[q]) < Fanout
          /\ size(nodes[q]) >= least \/ q = rootNode
      BY <2>1, <3>1, FilledOthers
    <3> QED BY <3>2, <3>3, <1>1, <1>6 DEF filled
  <2> QED BY <2>2, <2>3
<1>22. nearlyFilled(settled', tops', above)
  <2>1. filled(settled, tops, above) /\ size(settled[above]) \in Nat
    BY CallerFilled
  <2>2. size(settled'[above]) = size(settled[above]) /\ tops' = tops /\ ~settled[above].leaf
    BY <1>1, <1>2, <1>3, <1>6, <1>8
  <2>3. size(settled[above]) < Fanout /\ (tops = <<above>> \/ size(settled[above]) >= least)
    BY <2>1, <2>2 DEF filled
  <2>4. least \in Int /\ Fanout \in Nat
    BY SizeAssumption DEF least
  <2> QED BY <2>1, <2>2, <2>3, <2>4 DEF nearlyFilled
<1>23. Childless'
  <2> SUFFICES ASSUME NEW q \in NodeId, nodes'[q].leaf PROVE nodes'[q].children = << >>
    BY DEF Childless
  <2>1. CASE q \in {l, r}
    <3>1. nodes[l].leaf /\ nodes[r].leaf
      BY <2>1
    <3>2. nodes[l].children = << >> /\ nodes[r].children = << >>
      BY <3>1, <1>0, <1>1, <1>3 DEF Childless
    <3>5. a = 0 /\ b = 0
      BY <3>2 DEF a, b
    <3>3. Len(nodes'[q].children) = 0
      BY <2>1, <3>5
    <3>4. nodes'[q].children \in Seq(NodeId)
      BY <1>5 DEF isNode
    <3> QED BY <3>3, <3>4
  <2>2. CASE q \notin {l, r}
    BY <2>2, <1>0 DEF Childless
  <2> QED BY <2>1, <2>2
<1>24. /\ orphans \subseteq allocated' /\ gone(change') \cap orphans = {}
       /\ change'.type # "None" /\ (outer = << >> => change'.type = "Split")
  BY <1>0, <1>4 DEF Flow
<1>25. \A q \in live \cup {Nil} : h[q] = h[q]
  OBVIOUS
<1> QED BY <1>0, <1>18, <1>19, <1>20, <1>21, <1>22, <1>23, <1>24, <1>25, RestructuredReturn

\* Half the difference taken from a node with keys to spare makes both sides full enough.
LEMMA BorrowSizes ==
  ASSUME NEW a \in Nat, NEW b \in Nat, a < least, a + 1 >= least, b > Fanout \div 2, b < Fanout,
         NEW d, d = (b - a) \div 2
  PROVE  /\ d \in Nat /\ d >= 1 /\ d < b
         /\ a + d \in least .. (Fanout - 1) /\ b - d \in least .. (Fanout - 1)
<1>1. PICK f \in Nat : f = Fanout \div 2 /\ (Fanout = 2 * f \/ Fanout = 2 * f + 1)
  BY SizeAssumption
<1>2. least = IF Fanout = 2 * f THEN f - 1 ELSE f
  BY <1>1, SizeAssumption DEF least
<1>3. d \in Int /\ (b - a = 2 * d \/ b - a = 2 * d + 1)
  OBVIOUS
<1> QED BY <1>1, <1>2, <1>3, SizeAssumption

-----------------------------------------------------------------------------
(* Two vectors in a row *)

\* Two vectors, one after the other.
whole(a, b, j) == IF j <= Len(a) THEN a[j] ELSE b[j - Len(a)]

\* The last entries of a vector go to the front of the next one.
LEMMA MoveLast ==
  ASSUME NEW S, NEW a \in Seq(S), NEW b \in Seq(S), NEW k \in 0 .. Len(a)
  PROVE  /\ take(a, k) \in Seq(S) /\ Len(take(a, k)) = k
         /\ \A j \in 1 .. k : take(a, k)[j] = whole(a, b, j)
         /\ drop(a, k) \o b \in Seq(S) /\ Len(drop(a, k) \o b) = Len(a) + Len(b) - k
         /\ \A j \in 1 .. (Len(a) + Len(b) - k) : (drop(a, k) \o b)[j] = whole(a, b, k + j)
         /\ \A q : q \in ToSet(drop(a, k)) <=> \E j \in (k + 1) .. Len(a) : q = whole(a, b, j)
<1>1. /\ Len(a) \in Nat /\ Len(b) \in Nat /\ k \in Nat /\ k <= Len(a)
      /\ take(a, k) \in Seq(S) /\ Len(take(a, k)) = k
      /\ \A j \in 1 .. k : take(a, k)[j] = a[j]
  BY TakeItems
<1> DEFINE rest == drop(a, k)
<1>2. /\ rest \in Seq(S) /\ Len(rest) = Len(a) - k
      /\ \A j \in 1 .. (Len(a) - k) : rest[j] = a[k + j]
  BY DropItems
<1> HIDE DEF rest
<1>3. /\ rest \o b \in Seq(S) /\ Len(rest \o b) = Len(a) - k + Len(b)
      /\ \A j \in 1 .. (Len(rest) + Len(b)) : (rest \o b)[j] = IF j <= Len(rest) THEN rest[j] ELSE b[j - Len(rest)]
  BY <1>1, <1>2, ConcatProperties
<1>4. \A j \in 1 .. k : take(a, k)[j] = whole(a, b, j)
  BY <1>1 DEF whole
<1>5. ASSUME NEW j \in 1 .. (Len(a) + Len(b) - k) PROVE (rest \o b)[j] = whole(a, b, k + j)
  <2>1. (rest \o b)[j] = IF j <= Len(a) - k THEN rest[j] ELSE b[j - (Len(a) - k)]
    BY <1>1, <1>2, <1>3
  <2>2. CASE j <= Len(a) - k
    <3>1. k + j <= Len(a) /\ j \in 1 .. (Len(a) - k)
      BY <2>2, <1>1
    <3> QED BY <2>1, <2>2, <3>1, <1>2 DEF whole
  <2>3. CASE ~(j <= Len(a) - k)
    <3>1. ~(k + j <= Len(a)) /\ j - (Len(a) - k) = k + j - Len(a)
      BY <2>3, <1>1
    <3> QED BY <2>1, <2>3, <3>1 DEF whole
  <2> QED BY <2>2, <2>3
<1>6. \A q : q \in ToSet(rest) <=> \E j \in 1 .. (Len(a) - k) : q = rest[j]
  BY <1>2 DEF ToSet
<1>7. ASSUME NEW q, NEW j \in 1 .. (Len(a) - k), q = rest[j]
      PROVE  \E i \in (k + 1) .. Len(a) : q = whole(a, b, i)
  <2>1. k + j \in (k + 1) .. Len(a) /\ k + j <= Len(a)
    BY <1>1
  <2> QED BY <2>1, <1>2, <1>7 DEF whole
<1>8. ASSUME NEW q, NEW i \in (k + 1) .. Len(a), q = whole(a, b, i)
      PROVE  \E j \in 1 .. (Len(a) - k) : q = rest[j]
  <2>1. i - k \in 1 .. (Len(a) - k) /\ k + (i - k) = i /\ i <= Len(a)
    BY <1>1
  <2>2. rest[i - k] = a[k + (i - k)]
    BY <1>2, <2>1
  <2> QED BY <2>1, <2>2, <1>8 DEF whole
<1>9. Len(rest \o b) = Len(a) + Len(b) - k
  BY <1>1, <1>3
<1>10. \A q : q \in ToSet(rest) <=> \E j \in (k + 1) .. Len(a) : q = whole(a, b, j)
  BY <1>6, <1>7, <1>8
<1>11. /\ take(a, k) \in Seq(S) /\ Len(take(a, k)) = k
       /\ \A j \in 1 .. k : take(a, k)[j] = whole(a, b, j)
       /\ rest \o b \in Seq(S) /\ Len(rest \o b) = Len(a) + Len(b) - k
       /\ \A j \in 1 .. (Len(a) + Len(b) - k) : (rest \o b)[j] = whole(a, b, k + j)
       /\ \A q : q \in ToSet(rest) <=> \E j \in (k + 1) .. Len(a) : q = whole(a, b, j)
  BY ONLY <1>1, <1>3, <1>4, <1>5, <1>9, <1>10
<1> QED BY <1>11 DEF rest

\* The first entries of a vector go to the end of the one before.
LEMMA MoveFirst ==
  ASSUME NEW S, NEW a \in Seq(S), NEW b \in Seq(S), NEW d \in 0 .. Len(b)
  PROVE  /\ a \o take(b, d) \in Seq(S) /\ Len(a \o take(b, d)) = Len(a) + d
         /\ \A j \in 1 .. (Len(a) + d) : (a \o take(b, d))[j] = whole(a, b, j)
         /\ drop(b, d) \in Seq(S) /\ Len(drop(b, d)) = Len(b) - d
         /\ \A j \in 1 .. (Len(b) - d) : drop(b, d)[j] = whole(a, b, Len(a) + d + j)
         /\ \A q : q \in ToSet(take(b, d)) <=> \E j \in (Len(a) + 1) .. (Len(a) + d) : q = whole(a, b, j)
<1> DEFINE k == Len(a) + d
           some == take(b, d)
<1>1. /\ Len(a) \in Nat /\ Len(b) \in Nat /\ d \in Nat /\ d <= Len(b)
      /\ some \in Seq(S) /\ Len(some) = d
      /\ \A j \in 1 .. d : some[j] = b[j]
      /\ drop(b, d) \in Seq(S) /\ Len(drop(b, d)) = Len(b) - d
      /\ \A j \in 1 .. (Len(b) - d) : drop(b, d)[j] = b[d + j]
  <2>1. /\ some \in Seq(S) /\ Len(some) = d
        /\ \A j \in 1 .. d : some[j] = b[j]
    BY TakeItems
  <2>2. /\ drop(b, d) \in Seq(S) /\ Len(drop(b, d)) = Len(b) - d
        /\ \A j \in 1 .. (Len(b) - d) : drop(b, d)[j] = b[d + j]
    BY DropItems
  <2>3. Len(a) \in Nat /\ Len(b) \in Nat /\ d \in Nat /\ d <= Len(b)
    OBVIOUS
  <2> QED BY ONLY <2>1, <2>2, <2>3
<1> HIDE DEF some
<1>2. /\ a \o some \in Seq(S) /\ Len(a \o some) = k
      /\ \A j \in 1 .. k : (a \o some)[j] = IF j <= Len(a) THEN a[j] ELSE some[j - Len(a)]
  <2>1. some \in Seq(S) /\ Len(some) = d /\ k = Len(a) + Len(some)
    BY <1>1
  <2> QED BY ONLY a \in Seq(S), <2>1, ConcatProperties
<1>3. ASSUME NEW j \in 1 .. k PROVE (a \o some)[j] = whole(a, b, j)
  <2>1. CASE j <= Len(a)
    BY <2>1, <1>2 DEF whole
  <2>2. CASE ~(j <= Len(a))
    <3>1. j - Len(a) \in 1 .. d
      BY <2>2, <1>1
    <3> QED BY <3>1, <2>2, <1>1, <1>2 DEF whole
  <2> QED BY <2>1, <2>2
<1>4. ASSUME NEW j \in 1 .. (Len(b) - d) PROVE drop(b, d)[j] = whole(a, b, k + j)
  <2>1. j \in 1 .. (Len(b) - d) /\ ~(k + j <= Len(a)) /\ k + j - Len(a) = d + j
    BY <1>1
  <2> QED BY <2>1, <1>1 DEF whole
<1>5. \A q : q \in ToSet(some) <=> \E j \in 1 .. d : q = some[j]
  <2>1. DOMAIN some = 1 .. d
    BY <1>1
  <2> QED BY <2>1 DEF ToSet
<1>6. ASSUME NEW q, NEW j \in 1 .. d, q = some[j]
      PROVE  \E i \in (Len(a) + 1) .. k : q = whole(a, b, i)
  <2>1. Len(a) + j \in (Len(a) + 1) .. k /\ ~(Len(a) + j <= Len(a)) /\ Len(a) + j - Len(a) = j
    BY <1>1
  <2>2. whole(a, b, Len(a) + j) = b[j]
    BY <2>1 DEF whole
  <2> QED BY <2>1, <2>2, <1>1, <1>6
<1>7. ASSUME NEW q, NEW i \in (Len(a) + 1) .. k, q = whole(a, b, i)
      PROVE  \E j \in 1 .. d : q = some[j]
  <2>1. i - Len(a) \in 1 .. d /\ ~(i <= Len(a))
    BY <1>1
  <2> QED BY <2>1, <1>1, <1>7 DEF whole
<1>9. \A q : q \in ToSet(some) <=> \E j \in (Len(a) + 1) .. k : q = whole(a, b, j)
  BY <1>5, <1>6, <1>7
<1>10. /\ a \o some \in Seq(S) /\ Len(a \o some) = k
       /\ \A j \in 1 .. k : (a \o some)[j] = whole(a, b, j)
       /\ drop(b, d) \in Seq(S) /\ Len(drop(b, d)) = Len(b) - d
       /\ \A j \in 1 .. (Len(b) - d) : drop(b, d)[j] = whole(a, b, k + j)
       /\ \A q : q \in ToSet(some) <=> \E j \in (Len(a) + 1) .. k : q = whole(a, b, j)
  BY ONLY <1>1, <1>2, <1>3, <1>4, <1>9
<1> QED BY <1>10 DEF some

\* The vector that has grown so, entry by entry.
LEMMA MoveFirstItems ==
  ASSUME NEW S, NEW a \in Seq(S), NEW b \in Seq(S), NEW d \in 0 .. Len(b), NEW u, u = a \o take(b, d)
  PROVE  \A j \in 1 .. (Len(a) + d) : u[j] = whole(a, b, j)
<1> DEFINE some == take(b, d)
<1>1. some \in Seq(S) /\ Len(some) = d /\ \A j \in 1 .. d : some[j] = b[j]
  BY TakeItems
<1>2. u = a \o some
  OBVIOUS
<1> HIDE DEF some
<1>3. Len(u) = Len(a) + d /\ \A j \in 1 .. (Len(a) + d) : u[j] = IF j <= Len(a) THEN a[j] ELSE some[j - Len(a)]
  <2>1. /\ Len(a \o some) = Len(a) + Len(some)
        /\ \A j \in 1 .. (Len(a) + Len(some)) : (a \o some)[j] = IF j <= Len(a) THEN a[j] ELSE some[j - Len(a)]
    BY ONLY a \in Seq(S), <1>1, ConcatProperties
  <2> QED BY ONLY <2>1, <1>1, <1>2, Zenon
<1>4. Len(a) \in Nat /\ d \in Nat
  OBVIOUS
<1>5. ASSUME NEW j \in 1 .. (Len(a) + d) PROVE u[j] = whole(a, b, j)
  <2>1. CASE j <= Len(a)
    BY ONLY <2>1, <1>3, <1>5 DEF whole
  <2>2. CASE ~(j <= Len(a))
    <3>1. j - Len(a) \in 1 .. d
      BY ONLY <2>2, <1>4, <1>5
    <3>2. u[j] = some[j - Len(a)]
      BY ONLY <2>2, <1>3, <1>5
    <3> QED BY ONLY <3>1, <3>2, <1>1, <2>2 DEF whole
  <2> QED BY ONLY <2>1, <2>2
<1> QED BY ONLY <1>5

-----------------------------------------------------------------------------
(* Transfers between internal nodes *)

\* An internal node with too few keys and the sibling that it asks: it is a key short,
\* because a child has just merged, and the sibling has its share.
LEMMA UnderflowFacts ==
  ASSUME ShapeInv, Underflowed, NEW h, Shape(h), matched(frame.node)
  PROVE  /\ TypeInv /\ running /\ here = frame.node /\ outer = Front(stack) /\ outer # << >>
         /\ err # "Success" /\ pc = "flush"
         /\ here \in live /\ here \in NodeId /\ flusher = nodes[here] /\ isNode(flusher) /\ ~flusher.leaf
         /\ size(flusher) \in Nat /\ size(flusher) < least /\ size(flusher) + 1 >= least
         /\ mate(here) \in live /\ mate(here) \in NodeId /\ mate(here) # here
         /\ isNode(nodes[mate(here)]) /\ ~nodes[mate(here)].leaf
         /\ size(nodes[mate(here)]) \in least .. (Fanout - 1)
         /\ asksLeft(here) => /\ nodes[here].left = mate(here)
                              /\ Mates(settled, tops, live, above, place - 1, mate(here), here)
         /\ ~asksLeft(here) => /\ nodes[here].right = mate(here)
                               /\ Mates(settled, tops, live, above, place, here, mate(here))
<1>1. FlushDone /\ size(flusher) < least /\ ~isRoot(flusher)
  BY DEF Underflowed, isUnderflowing, least
<1>2. /\ TypeInv /\ Childless /\ Flow /\ running /\ pc = "flush"
      /\ here = frame.node /\ outer = Front(stack)
      /\ here \in live /\ here \in NodeId /\ flusher = nodes[here] /\ live \subseteq NodeId
      /\ isNode(nodes[here]) /\ ~nodes[here].leaf /\ size(nodes[here]) \in Nat
      /\ size(nodes[here]) + 1 >= least \/ tops = <<here>>
      /\ err = "Success" => (size(nodes[here]) >= least \/ tops = <<here>>)
  BY <1>1, FlushFacts
<1> DEFINE s == mate(here)
<1>3. s # Nil /\ isNode(nodes[s]) /\ nodes[s].leaf = nodes[here].leaf /\ s \in NodeId
  BY <1>2, MateType DEF matched
<1> HIDE DEF s
<1>4. /\ s \in live /\ s # here /\ outer # << >>
      /\ asksLeft(here) => /\ nodes[here].left = s
                           /\ Mates(settled, tops, live, above, place - 1, s, here)
      /\ ~asksLeft(here) => /\ nodes[here].right = s
                            /\ Mates(settled, tops, live, above, place, here, s)
  BY <1>2, <1>3, MateFound DEF s
<1>5. tops # <<here>>
  BY <1>2, <1>4, RootFacts
<1>6. up(settled, s) = above
  <2>1. Tree(settled, tops, live, h) /\ Nil \notin live
    BY <1>2, LiveIds DEF Shape
  <2>2. \E i, l, r : Mates(settled, tops, live, above, i, l, r) /\ s \in {l, r}
    BY <1>4
  <2> QED BY <2>1, <2>2, MateFacts
<1>7. s # rootNode
  <2>1. above \in live /\ Nil \notin live
    BY <1>2, <1>4, HereFacts, LiveIds
  <2>2. up(settled, rootNode) = Nil
    BY <1>2, RootFacts
  <2> QED BY <2>1, <2>2, <1>6
<1>8. size(nodes[s]) < Fanout /\ size(nodes[s]) \in Nat /\ size(nodes[s]) >= least
  BY <1>2, <1>4, <1>7, FilledOthers
<1>9. size(nodes[s]) \in least .. (Fanout - 1)
  BY <1>8, SizeAssumption DEF least
<1>10. err # "Success" /\ size(nodes[here]) < least /\ size(nodes[here]) + 1 >= least
  <2>1. size(nodes[here]) < least
    BY <1>1, <1>2
  <2>2. ~(size(nodes[here]) >= least)
    BY <2>1, <1>2, SizeAssumption DEF least
  <2> QED BY <2>1, <2>2, <1>2, <1>5
<1> QED BY <1>2, <1>3, <1>4, <1>9, <1>10 DEF s

\* The children of l and r and of what replaces them, x and y; the children in S change sides.
Transfers(l, r, k, x, y, S, lo, hi) ==
  LET c == nodes[l].children
      e == nodes[r].children IN
  /\ 1 <= k /\ k < Len(c) + Len(e)
  /\ \A f \in {"leaf", "parent", "left", "right"} : x[f] = nodes[l][f] /\ y[f] = nodes[r][f]
  /\ Len(x.children) = k
  /\ \A j \in 1 .. k : x.children[j] = whole(c, e, j)
  /\ Len(y.children) = Len(c) + Len(e) - k
  /\ \A j \in 1 .. (Len(c) + Len(e) - k) : y.children[j] = whole(c, e, k + j)
  /\ size(x) \in least .. (Fanout - 1) /\ size(y) \in least .. (Fanout - 1)
  /\ \/ here = r /\ lo = k + 1 /\ hi = Len(c) /\ k <= Len(c)
     \/ here = l /\ lo = Len(c) + 1 /\ hi = k /\ Len(c) <= k
  /\ \A q : q \in S <=> \E j \in lo .. hi : q = whole(c, e, j)

\* An internal node that takes children from a neighbour; l keeps or gets k of them.
LEMMA InternalShiftShape ==
  ASSUME ShapeInv, TypeInv', Underflowed, NEW h, Shape(h), matched(frame.node),
         NEW i, NEW l, NEW r, Mates(settled, tops, live, above, i, l, r),
         here \in {l, r}, mate(here) \in {l, r},
         NEW k \in Nat, NEW x, NEW y, NEW S, NEW lo, NEW hi, Transfers(l, r, k, x, y, S, lo, hi),
         NEW base, isTable(base),
         \A q \in NodeId : base[q] = IF q = l THEN x ELSE IF q = r THEN y ELSE nodes[q],
         nodes' = reparent(base, S, here), stack' = Front(stack), allocated' = allocated,
         NEW c, c.type \in {"RedistributeLeft", "RedistributeRight"}, Give(err, c)
  PROVE  ShapeInv'
<1> DEFINE a == Len(nodes[l].children)
           b == Len(nodes[r].children)
<1> SUFFICES ASSUME 1 <= k, k < a + b,
                    \A f \in {"leaf", "parent", "left", "right"} : x[f] = nodes[l][f] /\ y[f] = nodes[r][f],
                    Len(x.children) = k,
                    \A j \in 1 .. k : x.children[j] = whole(nodes[l].children, nodes[r].children, j),
                    Len(y.children) = a + b - k,
                    \A j \in 1 .. (a + b - k) : y.children[j] = whole(nodes[l].children, nodes[r].children, k + j),
                    size(x) \in least .. (Fanout - 1), size(y) \in least .. (Fanout - 1),
                    \/ here = r /\ lo = k + 1 /\ hi = a /\ k <= a
                    \/ here = l /\ lo = a + 1 /\ hi = k /\ a <= k,
                    \A q : q \in S <=> \E j \in lo .. hi : q = whole(nodes[l].children, nodes[r].children, j)
             PROVE  ShapeInv'
  BY DEF Transfers
<1>1. /\ TypeInv /\ running /\ here = frame.node /\ outer = Front(stack) /\ outer # << >>
      /\ err # "Success" /\ here \in live /\ ~nodes[here].leaf /\ ~nodes[mate(here)].leaf
      /\ mate(here) # here
  BY UnderflowFacts
<1>2. Tree(settled, tops, live, h) /\ Nil \notin live /\ live \subseteq NodeId
  BY <1>1, LiveIds DEF Shape
<1>3. /\ l \in live /\ r \in live /\ l \in NodeId /\ r \in NodeId /\ l # r
      /\ up(settled, l) = above /\ l # above /\ r # above
  BY <1>2, MateFacts
<1>4. /\ \A q \in NodeId : settled[q] = nodes[q]
      /\ l # Nil /\ r # Nil
  BY <1>1, <1>2, <1>3, RunningPlain
<1>5. /\ a \in Nat /\ b \in Nat
  BY <1>1, <1>3, OwnLinks
<1>6. /\ deg(settled, tops, l) = a /\ deg(settled, tops, r) = b
      /\ \A j : joint(settled, tops, l, r, j) = shared(l, r, j)
  BY <1>3, <1>4 DEF deg, kid, kids, joint, shared
<1> HIDE DEF a, b
<1>7. /\ \A j \in 1 .. (a + b) :
           /\ joint(settled, tops, l, r, j) \in live
           /\ up(settled, joint(settled, tops, l, r, j)) = IF j <= a THEN l ELSE r
      /\ \A j, m \in 1 .. (a + b) : joint(settled, tops, l, r, j) = joint(settled, tops, l, r, m) => j = m
  BY <1>2, <1>6, JointFacts
<1>8. /\ \A j \in 1 .. (a + b) : /\ shared(l, r, j) \in live
                                 /\ nodes[shared(l, r, j)].parent = IF j <= a THEN l ELSE r
      /\ \A j, m \in 1 .. (a + b) : shared(l, r, j) = shared(l, r, m) => j = m
  BY <1>2, <1>4, <1>6, <1>7 DEF up
<1>9. \A j : whole(nodes[l].children, nodes[r].children, j) = shared(l, r, j)
  BY DEF whole, shared
<1>10. /\ \A q : q \in S <=> \E j \in lo .. hi : q = shared(l, r, j)
       /\ \A j \in lo .. hi : j \in 1 .. (a + b)
  <2>1. \A j \in lo .. hi : j \in 1 .. (a + b)
    <3>1. k < a + b /\ a \in Nat /\ b \in Nat
      BY <1>5 DEF a, b
    <3>2. (lo = k + 1 /\ hi = a) \/ (lo = a + 1 /\ hi = k)
      BY DEF a
    <3> QED BY ONLY k \in Nat, <3>1, <3>2
  <2> QED BY <2>1, <1>9
<1>11. \A q \in NodeId : /\ \A f \in fields \ {"parent"} : nodes'[q][f] = base[q][f]
                         /\ nodes'[q].parent = IF q \in S THEN here ELSE base[q].parent
  BY ReparentFields
<1>12. \A q \in NodeId : /\ nodes'[q].leaf = nodes[q].leaf
                         /\ nodes'[q].left = nodes[q].left /\ nodes'[q].right = nodes[q].right
                         /\ nodes'[q].children = base[q].children /\ size(nodes'[q]) = size(base[q])
                         /\ base[q].parent = nodes[q].parent
  BY <1>11 DEF fields, size
<1>13. /\ \A q \in {l, r} : size(nodes'[q]) \in least .. (Fanout - 1)
       /\ nodes'[l].children = x.children /\ nodes'[r].children = y.children
       /\ \A q \in NodeId : q \notin {l, r} => nodes'[q].children = nodes[q].children /\ size(nodes'[q]) = size(nodes[q])
  BY <1>3, <1>12
<1>14. ASSUME NEW j \in 1 .. (a + b)
       PROVE  nodes'[shared(l, r, j)].parent = IF j <= k THEN l ELSE r
  <2>1. shared(l, r, j) \in S <=> j \in lo .. hi
    BY <1>8, <1>10
  <2>2. shared(l, r, j) \in NodeId
    BY <1>2, <1>8
  <2>3. nodes'[shared(l, r, j)].parent = IF j \in lo .. hi THEN here ELSE IF j <= a THEN l ELSE r
    BY <2>1, <2>2, <1>8, <1>11, <1>12
  <2>4. \/ here = r /\ lo = k + 1 /\ hi = a /\ k <= a
        \/ here = l /\ lo = a + 1 /\ hi = k /\ a <= k
    BY DEF a
  <2>5. CASE here = r /\ lo = k + 1 /\ hi = a /\ k <= a
    <3>1. j \in lo .. hi <=> k < j /\ j <= a
      BY <2>5, <1>5
    <3> QED BY <2>3, <2>5, <3>1, <1>5
  <2>6. CASE here = l /\ lo = a + 1 /\ hi = k /\ a <= k
    <3>1. j \in lo .. hi <=> a < j /\ j <= k
      BY <2>6, <1>5
    <3> QED BY <2>3, <2>6, <3>1, <1>5
  <2> QED BY <2>4, <2>5, <2>6
<1>15. ASSUME NEW q \in live, nodes[q].parent \notin {l, r} PROVE nodes'[q].parent = nodes[q].parent
  <2>1. q \notin S
    BY <1>8, <1>10, <1>15
  <2> QED BY <2>1, <1>2, <1>11, <1>12
<1>16. /\ pc' = "return" /\ stack' = outer /\ change'.type \in {"RedistributeLeft", "RedistributeRight"}
       /\ err' # "Success" /\ rootNode' = rootNode /\ orphans' = orphans
  BY <1>1 DEF Give, history
<1>17. nodes[l].leaf = nodes[r].leaf
  <2>1. nodes[l].leaf \in BOOLEAN /\ nodes[r].leaf \in BOOLEAN
    BY <1>1, <1>3 DEF TypeInv, TypeOK, isHeap, isNode
  <2>2. ~nodes[l].leaf /\ ~nodes[r].leaf
    BY <1>1
  <2> QED BY <2>1, <2>2
<1>18. /\ a + b > 0 => 1 <= k /\ k < a + b
       /\ a + b = 0 => k = 0
  <2>1. k < a + b
    BY DEF a, b
  <2> QED BY <2>1, <1>5
<1>19. /\ Len(nodes'[l].children) = k
       /\ \A j \in 1 .. k : nodes'[l].children[j] = shared(l, r, j)
       /\ Len(nodes'[r].children) = a + b - k
       /\ \A j \in 1 .. (a + b - k) : nodes'[r].children[j] = shared(l, r, k + j)
  BY <1>9, <1>13 DEF a, b
<1>20. \A q \in NodeId : /\ nodes'[q].leaf = nodes[q].leaf
                         /\ nodes'[q].left = nodes[q].left /\ nodes'[q].right = nodes[q].right
                         /\ q \notin {l, r} => nodes'[q].children = nodes[q].children /\ size(nodes'[q]) = size(nodes[q])
  BY <1>12, <1>13
<1>21. \A q \in {l, r} : size(nodes'[q]) \in least .. (Fanout - 1)
  BY <1>13
<1>22. \A j \in 1 .. (a + b) : nodes'[shared(l, r, j)].parent = IF j <= k THEN l ELSE r
  BY <1>14
<1>23. \A q \in live : nodes[q].parent \notin {l, r} => nodes'[q].parent = nodes[q].parent
  BY <1>15
<1>24. running /\ outer # << >> /\ here \in {l, r}
  BY <1>1
<1>25. Reshared(l, r, k)
  BY ONLY <1>17, <1>18, <1>19, <1>20, <1>21, <1>22, <1>23 DEF Reshared, a, b
<1> QED BY ONLY ShapeInv, TypeInv', Shape(h), Mates(settled, tops, live, above, i, l, r), k \in Nat, allocated' = allocated,
               <1>16, <1>24, <1>25, ShiftShape

-----------------------------------------------------------------------------
(* Taking from the left sibling *)

\* The sizes after a transfer of d children and d keys to the front of the next node.
LEMMA LastTransfer ==
  ASSUME NEW sk \in Seq(KeyType), NEW nk \in Seq(KeyType),
         NEW seam \in Seq(KeyType), Len(seam) = 1,
         NEW d \in Nat, d >= 1, d < Len(sk)
  PROVE  /\ Len(take(sk, Len(sk) - d)) = Len(sk) - d
         /\ Len(drop(sk, Len(sk) - d + 1) \o seam \o nk) = Len(nk) + d
<1>1. Len(sk) \in Nat /\ Len(nk) \in Nat
  OBVIOUS
<1> DEFINE i == Len(sk) - d + 1
           e == Len(sk) - d
           some == drop(sk, i)
<1>3. i \in 0 .. Len(sk) /\ e \in 0 .. Len(sk) /\ Len(sk) - i = d - 1
  BY <1>1
<1> HIDE DEF i, e
<1>4. some \in Seq(KeyType) /\ Len(some) = d - 1 /\ Len(take(sk, e)) = e
  BY <1>3, TakeType, DropType
<1> HIDE DEF some
<1>5. Len(some \o seam \o nk) = Len(some) + Len(seam) + Len(nk)
  <2>1. some \in Seq(KeyType) /\ seam \in Seq(KeyType) /\ nk \in Seq(KeyType)
    BY <1>4
  <2> QED BY ONLY <2>1, JoinType
<1>6. Len(some \o seam \o nk) = Len(nk) + d
  BY <1>1, <1>4, <1>5
<1> QED BY <1>4, <1>6 DEF some, i, e

\* An internal node takes the last children of its left neighbour.
LEMMA RedistributeInternalLeftShape ==
  ASSUME ShapeInv, TypeInv', RedistributeInternalLeft
  PROVE  ShapeInv'
<1> DEFINE n == flusher
           s == nodes[n.left]
           sk == s.keys
           sc == s.children
           nk == n.keys
           nc == n.children
           d == excess(n, s)
           k == Len(sc) - d
           moved == drop(sc, k)
           low == nodes[moved[1]].lowest
           keys == drop(sk, size(s) - d + 1) \o <<n.lowest>> \o nk
           kept == take(sk, size(s) - d)
           joined == moved \o nc
           rest == take(sc, k)
           taker == [n EXCEPT !.keys = keys, !.children = joined, !.lowest = low,
                              !.buffer = overlay(from(s.buffer, low), @)]
           giver == [s EXCEPT !.keys = kept, !.buffer = below(@, low), !.children = rest]
           base == [nodes EXCEPT ![frame.node] = taker, ![n.left] = giver]
           c == [key |-> low, node |-> Nil, type |-> "RedistributeLeft"]
           l == mate(here)
           S == ToSet(moved)
           lo == k + 1
           hi == Len(sc)
<1>1. PICK h : Shape(h)
  BY DEF ShapeInv
<1>2. /\ Underflowed /\ borrowsLeft(frame.node) /\ matched(frame.node) /\ asksLeft(frame.node)
      /\ isBorrowable(nodes[mate(frame.node)])
      /\ stack' = Front(stack) /\ allocated' = allocated
  BY DEF RedistributeInternalLeft, borrowsLeft
<1>3. nodes' = reparent(base, S, frame.node) /\ Give(err, c)
  BY DEF RedistributeInternalLeft
<1>4. /\ TypeInv /\ here = frame.node /\ here \in NodeId /\ n = nodes[here] /\ isNode(n) /\ ~n.leaf
      /\ size(n) \in Nat /\ size(n) < least /\ size(n) + 1 >= least
      /\ l \in NodeId /\ l # here /\ isNode(nodes[l]) /\ ~nodes[l].leaf
      /\ size(nodes[l]) \in least .. (Fanout - 1)
      /\ n.left = l /\ Mates(settled, tops, live, above, place - 1, l, here)
  BY <1>1, <1>2, UnderflowFacts
<1>5. s = nodes[l] /\ isNode(s) /\ ~s.leaf /\ size(s) \in least .. (Fanout - 1) /\ isBorrowable(s)
  BY <1>2, <1>4
<1>6. /\ nk \in Seq(KeyType) /\ nc \in Seq(NodeId) /\ Len(nc) = Len(nk) + 1 /\ size(n) = Len(nk)
      /\ sk \in Seq(KeyType) /\ sc \in Seq(NodeId) /\ Len(sc) = Len(sk) + 1 /\ size(s) = Len(sk)
      /\ <<n.lowest>> \in Seq(KeyType) /\ Len(<<n.lowest>>) = 1 /\ DOMAIN n = fields /\ DOMAIN s = fields
  <2>1. n.lowest \in KeyType
    BY <1>4 DEF isNode
  <2> QED BY <2>1, <1>4, <1>5 DEF isNode, size, fields
<1>7. /\ d \in Nat /\ d >= 1 /\ d < Len(sk)
      /\ Len(nk) + d \in least .. (Fanout - 1) /\ Len(sk) - d \in least .. (Fanout - 1)
  <2>1. size(s) > Fanout \div 2 /\ size(s) < Fanout /\ size(s) \in Nat
    BY <1>5, <1>6, SizeAssumption DEF isBorrowable
  <2>2. d = (size(s) - size(n)) \div 2
    BY DEF excess
  <2> HIDE DEF d, s, n, sk, nk
  <2>3. /\ d \in Nat /\ d >= 1 /\ d < size(s)
        /\ size(n) + d \in least .. (Fanout - 1) /\ size(s) - d \in least .. (Fanout - 1)
    BY <2>1, <2>2, <1>4, <1>6, BorrowSizes
  <2> QED BY <2>3, <1>6
<1>8. /\ DOMAIN taker = fields /\ DOMAIN giver = fields
      /\ taker.children = joined /\ giver.children = rest /\ taker.keys = keys /\ giver.keys = kept
      /\ \A f \in {"leaf", "parent", "left", "right"} : taker[f] = n[f] /\ giver[f] = s[f]
  <2> HIDE DEF joined, rest, keys, kept, low
  <2> QED BY <1>6 DEF fields
<1>9. /\ n = nodes[here] /\ s = nodes[l] /\ nc = nodes[here].children /\ sc = nodes[l].children
  BY <1>4, <1>5
<1> HIDE DEF n, s, d, sk, sc, nk, nc
<1>10. /\ k \in 0 .. Len(sc) /\ k \in Nat /\ 1 <= k /\ k < Len(sc) + Len(nc) /\ k <= Len(sc)
       /\ Len(kept) = Len(sk) - d /\ Len(keys) = Len(nk) + d
  <2> DEFINE seam == <<n.lowest>>
  <2>1. k = Len(sc) - d /\ kept = take(sk, Len(sk) - d) /\ keys = drop(sk, Len(sk) - d + 1) \o seam \o nk
    BY <1>6
  <2>2. seam \in Seq(KeyType) /\ Len(seam) = 1
    BY <1>6
  <2> HIDE DEF kept, keys, k, seam
  <2>3. /\ nk \in Seq(KeyType) /\ nc \in Seq(NodeId) /\ Len(nc) = Len(nk) + 1
        /\ sk \in Seq(KeyType) /\ sc \in Seq(NodeId) /\ Len(sc) = Len(sk) + 1
        /\ d \in Nat /\ d >= 1 /\ d < Len(sk)
    BY <1>6, <1>7
  <2>4. k \in 0 .. Len(sc) /\ k \in Nat /\ 1 <= k /\ k < Len(sc) + Len(nc) /\ k <= Len(sc)
    BY ONLY <2>1, <2>3
  <2>5. Len(kept) = Len(sk) - d
    BY ONLY <2>1, <2>2, <2>3, LastTransfer
  <2>6. Len(keys) = Len(nk) + d
    BY ONLY <2>1, <2>2, <2>3, LastTransfer
  <2> QED BY ONLY <2>4, <2>5, <2>6
<1> HIDE DEF k, keys, kept
<1>11. /\ Len(rest) = k
       /\ \A j \in 1 .. k : rest[j] = whole(sc, nc, j)
       /\ Len(joined) = Len(sc) + Len(nc) - k
       /\ \A j \in 1 .. (Len(sc) + Len(nc) - k) : joined[j] = whole(sc, nc, k + j)
       /\ \A q : q \in S <=> \E j \in lo .. hi : q = whole(sc, nc, j)
  <2>1. sc \in Seq(NodeId) /\ nc \in Seq(NodeId) /\ k \in 0 .. Len(sc)
    BY <1>6, <1>10
  <2>2. Len(rest) = k
    BY ONLY <2>1, MoveLast
  <2>3. \A j \in 1 .. k : rest[j] = whole(sc, nc, j)
    <3>1. \A j \in 1 .. k : rest[j] = sc[j] /\ j <= Len(sc)
      BY ONLY <2>1, TakeItems
    <3> QED BY ONLY <3>1 DEF whole
  <2>4. Len(joined) = Len(sc) + Len(nc) - k
    BY ONLY <2>1, MoveLast, SMTT(30)
  <2>5. \A j \in 1 .. (Len(sc) + Len(nc) - k) : joined[j] = whole(sc, nc, k + j)
    BY ONLY <2>1, MoveLast, SMTT(30)
  <2>6. \A q : q \in S <=> \E j \in lo .. hi : q = whole(sc, nc, j)
    BY ONLY <2>1, MoveLast
  <2> QED BY ONLY <2>2, <2>3, <2>4, <2>5, <2>6
<1>12. size(giver) \in least .. (Fanout - 1) /\ size(taker) \in least .. (Fanout - 1)
  BY <1>7, <1>8, <1>10 DEF size
<1> HIDE DEF taker, giver, joined, rest, low, S
<1>13. /\ isTable(base)
       /\ \A q \in NodeId : base[q] = IF q = l THEN giver ELSE IF q = here THEN taker ELSE nodes[q]
  <2>1. isTable(nodes)
    BY <1>4, HeapTable DEF TypeInv, TypeOK
  <2>2. base = [nodes EXCEPT ![here] = taker, ![l] = giver]
    BY <1>4
  <2> HIDE DEF base, l
  <2>3. /\ isTable([nodes EXCEPT ![here] = taker, ![l] = giver])
        /\ \A q \in NodeId : [nodes EXCEPT ![here] = taker, ![l] = giver][q] = IF q = here THEN taker ELSE IF q = l THEN giver ELSE nodes[q]
    <3>1. isTable(nodes) /\ here \in NodeId /\ l \in NodeId /\ here # l /\ DOMAIN taker = fields /\ DOMAIN giver = fields
      BY <2>1, <1>4, <1>8
    <3>2. isTable([nodes EXCEPT ![here] = taker, ![l] = giver])
      BY ONLY <3>1 DEF isTable
    <3>3. \A q \in NodeId : [nodes EXCEPT ![here] = taker, ![l] = giver][q] = IF q = here THEN taker ELSE IF q = l THEN giver ELSE nodes[q]
      BY ONLY <3>1 DEF isTable
    <3> QED BY ONLY <3>2, <3>3
  <2> QED BY <2>2, <2>3, <1>4
<1> HIDE DEF base
<1>14. c.type \in {"RedistributeLeft", "RedistributeRight"}
  OBVIOUS
<1>15. nodes' = reparent(base, S, here)
  BY <1>3, <1>4
<1>16. here = here /\ lo = k + 1 /\ hi = Len(sc) /\ k <= Len(sc)
  BY <1>10
<1> HIDE DEF c, lo, hi
<1>17. here \in {l, here} /\ mate(here) \in {l, here}
  OBVIOUS
<1> HIDE DEF l
<1>18. \A f \in {"leaf", "parent", "left", "right"} : giver[f] = nodes[l][f] /\ taker[f] = nodes[here][f]
  BY <1>8, <1>9
<1>19. Transfers(l, here, k, giver, taker, S, lo, hi)
  <2>1. /\ 1 <= k /\ k < Len(sc) + Len(nc)
        /\ Len(giver.children) = k
        /\ \A j \in 1 .. k : giver.children[j] = whole(sc, nc, j)
        /\ Len(taker.children) = Len(sc) + Len(nc) - k
        /\ \A j \in 1 .. (Len(sc) + Len(nc) - k) : taker.children[j] = whole(sc, nc, k + j)
        /\ \A q : q \in S <=> \E j \in lo .. hi : q = whole(sc, nc, j)
        /\ here = here /\ lo = k + 1 /\ hi = Len(sc) /\ k <= Len(sc)
    BY ONLY <1>8, <1>10, <1>11, <1>16
  <2> DEFINE cl == nodes[l].children
             cr == nodes[here].children
  <2>2. sc = cl /\ nc = cr
    BY ONLY <1>9
  <2> HIDE DEF cl, cr
  <2>3. 1 <= k /\ k < Len(cl) + Len(cr) /\ Len(giver.children) = k
    BY ONLY <2>1, <2>2
  <2>4. \A j \in 1 .. k : giver.children[j] = whole(cl, cr, j)
    BY ONLY <2>1, <2>2
  <2>5. Len(taker.children) = Len(cl) + Len(cr) - k
    BY ONLY <2>1, <2>2
  <2>6. \A j \in 1 .. (Len(cl) + Len(cr) - k) : taker.children[j] = whole(cl, cr, k + j)
    BY ONLY <2>1, <2>2
  <2>7. \A q : q \in S <=> \E j \in lo .. hi : q = whole(cl, cr, j)
    BY ONLY <2>1, <2>2
  <2>8. \/ here = here /\ lo = k + 1 /\ hi = Len(cl) /\ k <= Len(cl)
        \/ here = l /\ lo = Len(cl) + 1 /\ hi = k /\ Len(cl) <= k
    BY ONLY <2>1, <2>2
  <2> QED BY ONLY <2>3, <2>4, <2>5, <2>6, <2>7, <2>8, <1>12, <1>18 DEF Transfers, cl, cr
<1>20. matched(frame.node) /\ Underflowed /\ k \in Nat
  BY <1>2, <1>10
<1>21. Mates(settled, tops, live, above, place - 1, l, here)
  BY <1>4
<1>22. stack' = Front(stack) /\ allocated' = allocated /\ Give(err, c)
  BY <1>2, <1>3
<1> DEFINE i == place - 1
<1>23. Mates(settled, tops, live, above, i, l, here)
  BY <1>21
<1> HIDE DEF i
<1> QED BY ONLY ShapeInv, TypeInv', <1>1, <1>13, <1>14, <1>15, <1>17, <1>19, <1>20, <1>22, <1>23, InternalShiftShape

-----------------------------------------------------------------------------
(* Taking from the right sibling *)

\* The sizes after a transfer of d children and d keys to the end of the node before.
LEMMA FirstTransfer ==
  ASSUME NEW sk \in Seq(KeyType), NEW nk \in Seq(KeyType),
         NEW seam \in Seq(KeyType), Len(seam) = 1,
         NEW d \in Nat, d >= 1, d < Len(sk)
  PROVE  /\ Len(drop(sk, d)) = Len(sk) - d
         /\ Len(nk \o seam \o take(sk, d - 1)) = Len(nk) + d
<1>1. Len(sk) \in Nat /\ Len(nk) \in Nat
  OBVIOUS
<1> DEFINE i == d - 1
           some == take(sk, i)
<1>3. i \in 0 .. Len(sk) /\ d \in 0 .. Len(sk) /\ i = d - 1
  BY <1>1
<1> HIDE DEF i
<1>4. some \in Seq(KeyType) /\ Len(some) = d - 1 /\ Len(drop(sk, d)) = Len(sk) - d
  BY <1>3, TakeType, DropType
<1> HIDE DEF some
<1>5. Len(nk \o seam \o some) = Len(nk) + Len(seam) + Len(some)
  <2>1. some \in Seq(KeyType) /\ seam \in Seq(KeyType) /\ nk \in Seq(KeyType)
    BY <1>4
  <2> QED BY ONLY <2>1, JoinType
<1>6. Len(nk \o seam \o some) = Len(nk) + d
  BY <1>1, <1>4, <1>5
<1> QED BY <1>4, <1>6 DEF some, i

\* An internal node takes the first children of its right neighbour.
LEMMA RedistributeInternalRightShape ==
  ASSUME ShapeInv, TypeInv', RedistributeInternalRight
  PROVE  ShapeInv'
<1> DEFINE n == flusher
           s == nodes[n.right]
           sk == s.keys
           sc == s.children
           nk == n.keys
           nc == n.children
           d == excess(n, s)
           k == Len(nc) + d
           moved == take(sc, d)
           low == nodes[sc[d + 1]].lowest
           keys == nk \o <<s.lowest>> \o take(sk, d - 1)
           kept == drop(sk, d)
           joined == nc \o moved
           rest == drop(sc, d)
           taker == [n EXCEPT !.keys = keys, !.children = joined,
                              !.buffer = overlay(below(s.buffer, low), @)]
           giver == [s EXCEPT !.keys = kept, !.children = rest,
                              !.lowest = low, !.buffer = from(@, low)]
           base == [nodes EXCEPT ![frame.node] = taker, ![n.right] = giver]
           c == [key |-> low, node |-> Nil, type |-> "RedistributeRight"]
           l == mate(here)
           S == ToSet(moved)
           lo == Len(nc) + 1
           hi == k
<1>1. PICK h : Shape(h)
  BY DEF ShapeInv
<1>2. /\ Underflowed /\ borrowsRight(frame.node) /\ matched(frame.node) /\ ~asksLeft(frame.node)
      /\ isBorrowable(nodes[mate(frame.node)])
      /\ stack' = Front(stack) /\ allocated' = allocated
  BY DEF RedistributeInternalRight, borrowsRight
<1>3. nodes' = reparent(base, S, frame.node) /\ Give(err, c)
  BY DEF RedistributeInternalRight
<1>4. /\ TypeInv /\ here = frame.node /\ here \in NodeId /\ n = nodes[here] /\ isNode(n) /\ ~n.leaf
      /\ size(n) \in Nat /\ size(n) < least /\ size(n) + 1 >= least
      /\ l \in NodeId /\ l # here /\ isNode(nodes[l]) /\ ~nodes[l].leaf
      /\ size(nodes[l]) \in least .. (Fanout - 1)
      /\ n.right = l /\ Mates(settled, tops, live, above, place, here, l)
  BY <1>1, <1>2, UnderflowFacts
<1>5. s = nodes[l] /\ isNode(s) /\ ~s.leaf /\ size(s) \in least .. (Fanout - 1) /\ isBorrowable(s)
  BY <1>2, <1>4
<1>6. /\ nk \in Seq(KeyType) /\ nc \in Seq(NodeId) /\ Len(nc) = Len(nk) + 1 /\ size(n) = Len(nk)
      /\ sk \in Seq(KeyType) /\ sc \in Seq(NodeId) /\ Len(sc) = Len(sk) + 1 /\ size(s) = Len(sk)
      /\ <<s.lowest>> \in Seq(KeyType) /\ Len(<<s.lowest>>) = 1 /\ DOMAIN n = fields /\ DOMAIN s = fields
  <2>1. s.lowest \in KeyType
    BY <1>5 DEF isNode
  <2> QED BY <2>1, <1>4, <1>5 DEF isNode, size, fields
<1>7. /\ d \in Nat /\ d >= 1 /\ d < Len(sk)
      /\ Len(nk) + d \in least .. (Fanout - 1) /\ Len(sk) - d \in least .. (Fanout - 1)
  <2>1. size(s) > Fanout \div 2 /\ size(s) < Fanout /\ size(s) \in Nat
    BY <1>5, <1>6, SizeAssumption DEF isBorrowable
  <2>2. d = (size(s) - size(n)) \div 2
    BY DEF excess
  <2> HIDE DEF d, s, n, sk, nk
  <2>3. /\ d \in Nat /\ d >= 1 /\ d < size(s)
        /\ size(n) + d \in least .. (Fanout - 1) /\ size(s) - d \in least .. (Fanout - 1)
    BY <2>1, <2>2, <1>4, <1>6, BorrowSizes
  <2> QED BY <2>3, <1>6
<1>8. /\ DOMAIN taker = fields /\ DOMAIN giver = fields
      /\ taker.children = joined /\ giver.children = rest /\ taker.keys = keys /\ giver.keys = kept
      /\ \A f \in {"leaf", "parent", "left", "right"} : taker[f] = n[f] /\ giver[f] = s[f]
  <2> HIDE DEF joined, rest, keys, kept, low
  <2> QED BY <1>6 DEF fields
<1>9. /\ n = nodes[here] /\ s = nodes[l] /\ nc = nodes[here].children /\ sc = nodes[l].children
  BY <1>4, <1>5
<1> HIDE DEF n, s, d, sk, sc, nk, nc
<1>10. /\ d \in 0 .. Len(sc) /\ k = Len(nc) + d /\ k \in Nat /\ 1 <= k /\ k < Len(nc) + Len(sc) /\ Len(nc) <= k
       /\ Len(kept) = Len(sk) - d /\ Len(keys) = Len(nk) + d
  <2> DEFINE seam == <<s.lowest>>
  <2>1. k = Len(nc) + d /\ kept = drop(sk, d) /\ keys = nk \o seam \o take(sk, d - 1)
    BY <1>6
  <2>2. seam \in Seq(KeyType) /\ Len(seam) = 1
    BY <1>6
  <2> HIDE DEF kept, keys, k, seam
  <2>3. /\ nk \in Seq(KeyType) /\ nc \in Seq(NodeId) /\ Len(nc) = Len(nk) + 1
        /\ sk \in Seq(KeyType) /\ sc \in Seq(NodeId) /\ Len(sc) = Len(sk) + 1
        /\ d \in Nat /\ d >= 1 /\ d < Len(sk)
    BY <1>6, <1>7
  <2>4. d \in 0 .. Len(sc) /\ k = Len(nc) + d /\ k \in Nat /\ 1 <= k /\ k < Len(nc) + Len(sc) /\ Len(nc) <= k
    BY ONLY <2>1, <2>3
  <2>5. Len(kept) = Len(sk) - d
    BY ONLY <2>1, <2>2, <2>3, FirstTransfer
  <2>6. Len(keys) = Len(nk) + d
    BY ONLY <2>1, <2>2, <2>3, FirstTransfer
  <2> QED BY ONLY <2>4, <2>5, <2>6
<1> HIDE DEF k, keys, kept
<1>11. /\ Len(joined) = k
       /\ \A j \in 1 .. k : joined[j] = whole(nc, sc, j)
       /\ Len(rest) = Len(nc) + Len(sc) - k
       /\ \A j \in 1 .. (Len(nc) + Len(sc) - k) : rest[j] = whole(nc, sc, k + j)
       /\ \A q : q \in S <=> \E j \in lo .. hi : q = whole(nc, sc, j)
  <2>1. nc \in Seq(NodeId) /\ sc \in Seq(NodeId) /\ d \in 0 .. Len(sc) /\ k = Len(nc) + d
    BY <1>6, <1>10
  <2>2. Len(joined) = Len(nc) + d
    BY ONLY <2>1, MoveFirst
  <2>3. \A j \in 1 .. (Len(nc) + d) : joined[j] = whole(nc, sc, j)
    <3>1. joined = nc \o take(sc, d)
      OBVIOUS
    <3> HIDE DEF joined
    <3> QED BY ONLY <2>1, <3>1, MoveFirstItems
  <2>4. Len(rest) = Len(sc) - d
    BY ONLY <2>1, DropItems
  <2>5. \A j \in 1 .. (Len(sc) - d) : rest[j] = whole(nc, sc, Len(nc) + d + j)
    BY ONLY <2>1, MoveFirst, SMTT(30)
  <2>6. \A q : q \in S <=> \E j \in (Len(nc) + 1) .. (Len(nc) + d) : q = whole(nc, sc, j)
    BY ONLY <2>1, MoveFirst, SMTT(30)
  <2>7. Len(nc) + Len(sc) - k = Len(sc) - d
    BY <1>6, <1>7, <1>10
  <2> HIDE DEF rest, joined, S
  <2> QED BY ONLY <1>10, <2>2, <2>3, <2>4, <2>5, <2>6, <2>7
<1>12. size(giver) \in least .. (Fanout - 1) /\ size(taker) \in least .. (Fanout - 1)
  BY <1>7, <1>8, <1>10 DEF size
<1> HIDE DEF taker, giver, joined, rest, low, S
<1>13. /\ isTable(base)
       /\ \A q \in NodeId : base[q] = IF q = here THEN taker ELSE IF q = l THEN giver ELSE nodes[q]
  <2>1. isTable(nodes)
    BY <1>4, HeapTable DEF TypeInv, TypeOK
  <2>2. base = [nodes EXCEPT ![here] = taker, ![l] = giver]
    BY <1>4
  <2> HIDE DEF base, l
  <2>3. /\ isTable([nodes EXCEPT ![here] = taker, ![l] = giver])
        /\ \A q \in NodeId : [nodes EXCEPT ![here] = taker, ![l] = giver][q] = IF q = here THEN taker ELSE IF q = l THEN giver ELSE nodes[q]
    <3>1. isTable(nodes) /\ here \in NodeId /\ l \in NodeId /\ here # l /\ DOMAIN taker = fields /\ DOMAIN giver = fields
      BY <2>1, <1>4, <1>8
    <3>2. isTable([nodes EXCEPT ![here] = taker, ![l] = giver])
      BY ONLY <3>1 DEF isTable
    <3>3. \A q \in NodeId : [nodes EXCEPT ![here] = taker, ![l] = giver][q] = IF q = here THEN taker ELSE IF q = l THEN giver ELSE nodes[q]
      BY ONLY <3>1 DEF isTable
    <3> QED BY ONLY <3>2, <3>3
  <2> QED BY <2>2, <2>3, <1>4
<1> HIDE DEF base
<1>14. c.type \in {"RedistributeLeft", "RedistributeRight"}
  OBVIOUS
<1>15. nodes' = reparent(base, S, here)
  BY <1>3, <1>4
<1>16. here = here /\ lo = Len(nc) + 1 /\ hi = k /\ Len(nc) <= k
  BY <1>10
<1> HIDE DEF c, lo, hi
<1>17. here \in {here, l} /\ mate(here) \in {here, l}
  OBVIOUS
<1> HIDE DEF l
<1>18. \A f \in {"leaf", "parent", "left", "right"} : taker[f] = nodes[here][f] /\ giver[f] = nodes[l][f]
  BY <1>8, <1>9
<1>19. Transfers(here, l, k, taker, giver, S, lo, hi)
  <2>1. /\ 1 <= k /\ k < Len(nc) + Len(sc)
        /\ Len(taker.children) = k
        /\ \A j \in 1 .. k : taker.children[j] = whole(nc, sc, j)
        /\ Len(giver.children) = Len(nc) + Len(sc) - k
        /\ \A j \in 1 .. (Len(nc) + Len(sc) - k) : giver.children[j] = whole(nc, sc, k + j)
        /\ \A q : q \in S <=> \E j \in lo .. hi : q = whole(nc, sc, j)
        /\ here = here /\ lo = Len(nc) + 1 /\ hi = k /\ Len(nc) <= k
    BY ONLY <1>8, <1>10, <1>11, <1>16
  <2> DEFINE cl == nodes[here].children
             cr == nodes[l].children
  <2>2. nc = cl /\ sc = cr
    BY ONLY <1>9
  <2> HIDE DEF cl, cr
  <2>3. 1 <= k /\ k < Len(cl) + Len(cr) /\ Len(taker.children) = k
    BY ONLY <2>1, <2>2
  <2>4. \A j \in 1 .. k : taker.children[j] = whole(cl, cr, j)
    BY ONLY <2>1, <2>2
  <2>5. Len(giver.children) = Len(cl) + Len(cr) - k
    BY ONLY <2>1, <2>2
  <2>6. \A j \in 1 .. (Len(cl) + Len(cr) - k) : giver.children[j] = whole(cl, cr, k + j)
    BY ONLY <2>1, <2>2
  <2>7. \A q : q \in S <=> \E j \in lo .. hi : q = whole(cl, cr, j)
    BY ONLY <2>1, <2>2
  <2>8. \/ here = l /\ lo = k + 1 /\ hi = Len(cl) /\ k <= Len(cl)
        \/ here = here /\ lo = Len(cl) + 1 /\ hi = k /\ Len(cl) <= k
    BY ONLY <2>1, <2>2
  <2> QED BY ONLY <2>3, <2>4, <2>5, <2>6, <2>7, <2>8, <1>12, <1>18 DEF Transfers, cl, cr
<1>20. matched(frame.node) /\ Underflowed /\ k \in Nat
  BY <1>2, <1>10
<1>21. Mates(settled, tops, live, above, place, here, l)
  BY <1>4
<1>22. stack' = Front(stack) /\ allocated' = allocated /\ Give(err, c)
  BY <1>2, <1>3
<1> QED BY ONLY ShapeInv, TypeInv', <1>1, <1>13, <1>14, <1>15, <1>17, <1>19, <1>20, <1>21, <1>22, InternalShiftShape

-----------------------------------------------------------------------------
(* Transfers between leaves *)

\* Overwriting an entry keeps the length, whatever is written.
LEMMA OverwriteLength ==
  ASSUME NEW S, NEW s \in Seq(S), NEW i, NEW e
  PROVE  Len([s EXCEPT ![i] = e]) = Len(s)
<1> DEFINE R == S \cup {e}
<1>1. s \in Seq(R) /\ e \in R
  OBVIOUS
<1> HIDE DEF R
<1> QED BY <1>1, ReplaceType

\* A leaf with too few entries left and the sibling that it asks.
LEMMA StarvedFacts ==
  ASSUME ShapeInv, Removes, starved, NEW h, Shape(h), matched(call.node)
  PROVE  /\ TypeInv /\ Childless /\ running /\ here = call.node /\ outer = stack /\ outer # << >>
         /\ pc = "apply" /\ live \subseteq NodeId
         /\ here \in live /\ here \in NodeId /\ target = nodes[here] /\ isNode(nodes[here]) /\ nodes[here].leaf
         /\ size(erased(target)) \in Nat /\ size(erased(target)) < least /\ size(erased(target)) + 1 >= least
         /\ mate(here) \in live /\ mate(here) \in NodeId /\ mate(here) # here
         /\ isNode(nodes[mate(here)]) /\ nodes[mate(here)].leaf
         /\ size(nodes[mate(here)]) \in least .. (Fanout - 1)
         /\ nodes[here].parent = above /\ above \in live /\ above \in NodeId /\ above # here /\ above # mate(here)
         /\ asksLeft(here) => /\ nodes[here].left = mate(here)
                              /\ Mates(settled, tops, live, above, place - 1, mate(here), here)
         /\ ~asksLeft(here) => /\ nodes[here].right = mate(here)
                               /\ Mates(settled, tops, live, above, place, here, mate(here))
<1>1. /\ pc = "apply" /\ target.leaf /\ isUnderflowing(erased(target))
  BY DEF Removes, starved
<1>2. /\ TypeInv /\ Childless /\ Flow /\ Sizes /\ running /\ here = call.node /\ outer = stack
      /\ here \in live /\ here \in NodeId /\ target = nodes[here] /\ settled[here] = nodes[here]
      /\ live \subseteq NodeId
      /\ filled(nodes, tops, here)
  BY <1>1, ApplyFacts
<1> DEFINE s == mate(here)
<1>3. s # Nil /\ isNode(nodes[s]) /\ isNode(nodes[here]) /\ nodes[s].leaf = nodes[here].leaf /\ s \in NodeId
  BY <1>2, MateType DEF matched
<1> HIDE DEF s
<1>4. /\ s \in live /\ s # here /\ outer # << >>
      /\ asksLeft(here) => /\ nodes[here].left = s
                           /\ Mates(settled, tops, live, above, place - 1, s, here)
      /\ ~asksLeft(here) => /\ nodes[here].right = s
                            /\ Mates(settled, tops, live, above, place, here, s)
  BY <1>2, <1>3, MateFound DEF s
<1>5. tops # <<here>> /\ above \in live /\ up(settled, rootNode) = Nil /\ up(settled, here) = above /\ above # here
      /\ Nil \notin live
  BY <1>2, <1>4, RootFacts, HereFacts, LiveIds
<1>6. up(settled, s) = above /\ deg(settled, tops, above) >= 2 /\ above # s
  <2>1. Tree(settled, tops, live, h) /\ Nil \notin live
    BY <1>2, LiveIds DEF Shape
  <2>2. \E i, l, r : Mates(settled, tops, live, above, i, l, r) /\ s \in {l, r}
    BY <1>4
  <2>3. PICK i, l, r : Mates(settled, tops, live, above, i, l, r) /\ s \in {l, r}
    BY <2>2
  <2>4. up(settled, s) = above /\ above # s /\ deg(settled, tops, above) \in Nat
    BY <2>1, <2>3, MateFacts
  <2>5. i \in 1 .. deg(settled, tops, above) /\ i + 1 \in 1 .. deg(settled, tops, above)
    BY <2>3 DEF Mates
  <2> QED BY <2>4, <2>5
<1>7. s # rootNode
  BY <1>5, <1>6
<1>8. size(nodes[s]) < Fanout /\ size(nodes[s]) \in Nat /\ size(nodes[s]) >= least
  BY <1>2, <1>4, <1>7, FilledOthers
<1>9. size(nodes[s]) \in least .. (Fanout - 1)
  BY <1>8, SizeAssumption DEF least
<1>10. /\ size(erased(target)) = size(target) - 1 /\ size(target) \in Nat /\ size(erased(target)) \in Nat
  BY <1>2, ErasedLinks
<1>11. above \in NodeId /\ nodes[above] = settled[above] /\ nodes[here].parent = above
  BY <1>2, <1>5, RunningPlain DEF up
<1>12. size(target) >= least
  <2>1. deg(settled, tops, above) = size(settled[above]) + 1 /\ size(settled[above]) \in Nat
    BY <1>2, <1>4, CallerFilled
  <2>2. size(nodes[above]) # 0
    BY <2>1, <1>6, <1>11
  <2> QED BY <2>2, <1>2, <1>5, <1>11 DEF filled
<1>13. size(erased(target)) < least /\ size(erased(target)) + 1 >= least
  BY <1>1, <1>10, <1>12, SizeAssumption DEF isUnderflowing, least
<1> QED BY <1>1, <1>2, <1>3, <1>4, <1>5, <1>6, <1>9, <1>10, <1>11, <1>13 DEF s

\* Two leaves that share their entries anew: no link changes.
LEMMA LeafShared ==
  ASSUME Childless, live \subseteq NodeId, NEW l \in NodeId, NEW r \in NodeId, nodes[l].leaf, nodes[r].leaf,
         nodes[l].leaf = nodes[r].leaf,
         \A q \in NodeId : /\ \A f \in {"leaf", "parent", "left", "right", "children"} : nodes'[q][f] = nodes[q][f]
                           /\ q \notin {l, r} => size(nodes'[q]) = size(nodes[q]),
         \A q \in {l, r} : size(nodes'[q]) \in least .. (Fanout - 1)
  PROVE  Reshared(l, r, 0)
<1>1. nodes[l].children = << >> /\ nodes[r].children = << >>
  BY DEF Childless
<1>2. Len(nodes[l].children) = 0 /\ Len(nodes[r].children) = 0
  BY <1>1
<1>3. Len(nodes'[l].children) = 0 /\ Len(nodes'[r].children) = 0
  BY <1>1
<1>4. /\ \A q \in NodeId : /\ nodes'[q].leaf = nodes[q].leaf
                           /\ nodes'[q].left = nodes[q].left /\ nodes'[q].right = nodes[q].right
                           /\ q \notin {l, r} => nodes'[q].children = nodes[q].children /\ size(nodes'[q]) = size(nodes[q])
      /\ \A q \in live : nodes'[q].parent = nodes[q].parent
  OBVIOUS
<1>5. \A j \in 1 .. 0 : FALSE
  OBVIOUS
<1> QED BY <1>2, <1>3, <1>4, <1>5 DEF Reshared

\* What replaces a leaf and its neighbour keeps their links, and both have their share.
Exchanges(x, y, slot, e) ==
  /\ nodes' = [nodes EXCEPT ![here] = x, ![mate(here)] = y, ![above].keys[slot] = e]
  /\ DOMAIN x = fields /\ DOMAIN y = fields
  /\ \A f \in {"leaf", "parent", "left", "right", "children"} : x[f] = nodes[here][f] /\ y[f] = nodes[mate(here)][f]
  /\ size(x) \in least .. (Fanout - 1) /\ size(y) \in least .. (Fanout - 1)

\* A leaf and its neighbour share their entries, and their parent gets the key between them.
LEMMA LeafShiftShape ==
  ASSUME ShapeInv, TypeInv', Removes, starved, NEW h, Shape(h), matched(call.node),
         NEW i, NEW l, NEW r, Mates(settled, tops, live, above, i, l, r), here \in {l, r}, mate(here) \in {l, r},
         NEW x, NEW y, NEW slot, NEW e, Exchanges(x, y, slot, e),
         NEW c, c.type \in {"RedistributeLeft", "RedistributeRight"}, Give(Restructured, c),
         stack' = stack, allocated' = allocated
  PROVE  ShapeInv'
<1> DEFINE s == mate(here)
           t == [nodes EXCEPT ![here] = x, ![s] = y]
<1> SUFFICES ASSUME nodes' = [nodes EXCEPT ![here] = x, ![mate(here)] = y, ![above].keys[slot] = e],
                    DOMAIN x = fields, DOMAIN y = fields,
                    \A f \in {"leaf", "parent", "left", "right", "children"} :
                      x[f] = nodes[here][f] /\ y[f] = nodes[mate(here)][f],
                    size(x) \in least .. (Fanout - 1), size(y) \in least .. (Fanout - 1)
             PROVE  ShapeInv'
  BY DEF Exchanges
<1>1. /\ TypeInv /\ Childless /\ running /\ outer = stack /\ outer # << >> /\ live \subseteq NodeId
      /\ here \in NodeId /\ nodes[here].leaf /\ s \in NodeId /\ nodes[s].leaf /\ s # here
      /\ above \in NodeId /\ above # here /\ above # s
  BY StarvedFacts
<1> HIDE DEF s
<1>2. isTable(nodes) /\ isNode(nodes[above])
  BY <1>1, HeapTable DEF TypeInv, TypeOK, isHeap
<1>3. isTable(t)
  BY ONLY <1>1, <1>2, DOMAIN x = fields, DOMAIN y = fields DEF isTable
<1>4. \A q \in NodeId : t[q] = IF q = here THEN x ELSE IF q = s THEN y ELSE nodes[q]
  BY ONLY <1>1, <1>2 DEF isTable
<1>5. nodes' = [t EXCEPT ![above].keys[slot] = e]
  BY DEF s
<1> HIDE DEF t
<1>6. \A q \in NodeId : /\ \A f \in fields \ {"keys"} : nodes'[q][f] = t[q][f]
                        /\ size(nodes'[q]) = size(t[q])
  <2> DEFINE ks == t[above].keys
             kw == [ks EXCEPT ![slot] = e]
             n == [t[above] EXCEPT !.keys = kw]
             u == [t EXCEPT ![above] = n]
  <2>1. ks \in Seq(KeyType)
    BY <1>1, <1>2, <1>4 DEF isNode
  <2>2. Len(kw) = Len(ks)
    BY <2>1, OverwriteLength
  <2>3. nodes' = u
    BY <1>5
  <2> HIDE DEF ks, kw
  <2>4. /\ n.keys = kw
        /\ \A f \in fields \ {"keys"} : n[f] = t[above][f]
    BY <1>1, <1>3 DEF isTable, fields
  <2> HIDE DEF n
  <2>5. \A q \in NodeId : u[q] = IF q = above THEN n ELSE t[q]
    BY <1>3 DEF isTable
  <2>6. size(n) = size(t[above])
    BY <2>2, <2>4 DEF size, ks
  <2> HIDE DEF u
  <2> QED BY <2>3, <2>4, <2>5, <2>6
<1>7. \A q \in NodeId : \A f \in {"leaf", "parent", "left", "right", "children"} : t[q][f] = nodes[q][f]
  BY <1>1, <1>4 DEF s
<1>8. {l, r} = {here, s} /\ l \in NodeId /\ r \in NodeId
  <2>1. l # r
    <3>1. Tree(settled, tops, live, h) /\ Nil \notin live
      BY <1>1, LiveIds DEF Shape
    <3> QED BY <3>1, MateFacts
  <2> QED BY <2>1, <1>1 DEF s
<1>9. /\ \A q \in NodeId : /\ \A f \in {"leaf", "parent", "left", "right", "children"} : nodes'[q][f] = nodes[q][f]
                           /\ q \notin {l, r} => size(nodes'[q]) = size(nodes[q])
      /\ \A q \in {l, r} : size(nodes'[q]) \in least .. (Fanout - 1)
  <2>1. {"leaf", "parent", "left", "right", "children"} \subseteq fields \ {"keys"}
    BY DEF fields
  <2>2. ASSUME NEW q \in NodeId, NEW f \in {"leaf", "parent", "left", "right", "children"}
        PROVE  nodes'[q][f] = nodes[q][f]
    <3>1. f \in fields \ {"keys"}
      BY <2>1
    <3>2. nodes'[q][f] = t[q][f]
      BY ONLY <3>1, <1>6, q \in NodeId
    <3>3. t[q][f] = nodes[q][f]
      BY ONLY <1>7, q \in NodeId, f \in {"leaf", "parent", "left", "right", "children"}
    <3> QED BY ONLY <3>2, <3>3
  <2>3. \A q \in NodeId : q \notin {l, r} => size(nodes'[q]) = size(nodes[q])
    BY <1>4, <1>6, <1>8
  <2>4. \A q \in {l, r} : size(nodes'[q]) \in least .. (Fanout - 1)
    BY <1>1, <1>4, <1>6, <1>8
  <2> QED BY <2>2, <2>3, <2>4
<1>10. nodes[l].leaf /\ nodes[r].leaf /\ nodes[l].leaf = nodes[r].leaf
  <2>1. nodes[l].leaf \in BOOLEAN /\ nodes[r].leaf \in BOOLEAN
    BY <1>1, <1>8 DEF TypeInv, TypeOK, isHeap, isNode
  <2> QED BY <2>1, <1>1, <1>8
<1> DEFINE k == 0
<1>11. Reshared(l, r, k)
  BY ONLY <1>1, <1>8, <1>9, <1>10, LeafShared
<1>12. k \in Nat
  OBVIOUS
<1> HIDE DEF k
<1>13. /\ pc' = "return" /\ stack' = outer /\ change'.type \in {"RedistributeLeft", "RedistributeRight"}
       /\ err' # "Success" /\ rootNode' = rootNode /\ orphans' = orphans
  BY <1>1 DEF Give, history, Restructured
<1> QED BY ONLY ShapeInv, TypeInv', Shape(h), Mates(settled, tops, live, above, i, l, r), here \in {l, r},
               allocated' = allocated, <1>1, <1>11, <1>12, <1>13, ShiftShape

\* A leaf takes the last entries of its left neighbour.
LEMMA RedistributeLeafLeftShape ==
  ASSUME ShapeInv, TypeInv', RedistributeLeafLeft
  PROVE  ShapeInv'
<1> DEFINE n == erased(target)
           s == nodes[n.left]
           sk == s.keys
           nk == n.keys
           d == excess(n, s)
           e == size(s) - d
           moved == drop(sk, e)
           keys == moved \o nk
           kept == take(sk, e)
           low == keys[1]
           taker == [n EXCEPT !.keys = keys, !.lowest = low, !.values = drop(s.values, e) \o @]
           giver == [s EXCEPT !.keys = kept, !.values = take(@, e)]
           c == [key |-> low, node |-> Nil, type |-> "RedistributeLeft"]
           l == mate(here)
           slot == call.idx
<1>1. PICK h : Shape(h)
  BY DEF ShapeInv
<1>2. /\ Removes /\ starved /\ borrowsLeft(call.node) /\ matched(call.node) /\ asksLeft(call.node)
      /\ isBorrowable(nodes[mate(call.node)])
      /\ stack' = stack /\ allocated' = allocated
  BY DEF RedistributeLeafLeft, borrowsLeft
<1>3. /\ nodes' = [nodes EXCEPT ![call.node] = taker, ![n.left] = giver, ![n.parent].keys[slot] = low]
      /\ Give(Restructured, c)
  BY DEF RedistributeLeafLeft
<1>4. /\ TypeInv /\ here = call.node /\ here \in NodeId /\ target = nodes[here] /\ isNode(nodes[here]) /\ nodes[here].leaf
      /\ size(n) \in Nat /\ size(n) < least /\ size(n) + 1 >= least /\ pc = "apply"
      /\ l \in NodeId /\ l # here /\ isNode(nodes[l]) /\ nodes[l].leaf
      /\ size(nodes[l]) \in least .. (Fanout - 1)
      /\ nodes[here].parent = above
      /\ nodes[here].left = l /\ Mates(settled, tops, live, above, place - 1, l, here)
  BY <1>1, <1>2, StarvedFacts
<1>5. /\ \A f \in {"leaf", "children", "parent", "left", "right"} : n[f] = nodes[here][f]
      /\ isNode(n)
  BY <1>2, <1>4, ErasedLinks, ErasedType DEF Removes
<1>6. n.left = l /\ n.parent = above /\ s = nodes[l] /\ isNode(s) /\ size(s) \in least .. (Fanout - 1) /\ isBorrowable(s)
  BY <1>2, <1>4, <1>5
<1>7. /\ nk \in Seq(KeyType) /\ size(n) = Len(nk) /\ sk \in Seq(KeyType) /\ size(s) = Len(sk)
      /\ DOMAIN n = fields /\ DOMAIN s = fields
  BY <1>5, <1>6 DEF isNode, size, fields
<1>8. /\ d \in Nat /\ d >= 1 /\ d < Len(sk)
      /\ Len(nk) + d \in least .. (Fanout - 1) /\ Len(sk) - d \in least .. (Fanout - 1)
  <2>1. size(s) > Fanout \div 2 /\ size(s) < Fanout /\ size(s) \in Nat
    BY <1>6, <1>7, SizeAssumption DEF isBorrowable
  <2>2. d = (size(s) - size(n)) \div 2
    BY DEF excess
  <2> HIDE DEF d, s, n, sk, nk
  <2>3. /\ d \in Nat /\ d >= 1 /\ d < size(s)
        /\ size(n) + d \in least .. (Fanout - 1) /\ size(s) - d \in least .. (Fanout - 1)
    BY <2>1, <2>2, <1>4, <1>7, BorrowSizes
  <2> QED BY <2>3, <1>7
<1>9. /\ DOMAIN taker = fields /\ DOMAIN giver = fields /\ taker.keys = keys /\ giver.keys = kept
      /\ \A f \in {"leaf", "parent", "left", "right", "children"} : taker[f] = n[f] /\ giver[f] = s[f]
  <2> HIDE DEF keys, kept, low, e
  <2> QED BY <1>7 DEF fields
<1> HIDE DEF n, s, d, sk, nk
<1>10. e \in 0 .. Len(sk) /\ e = Len(sk) - d /\ Len(sk) - e = d /\ Len(nk) \in Nat
  BY <1>7, <1>8
<1> HIDE DEF e
<1>11. Len(kept) = Len(sk) - d /\ Len(keys) = Len(nk) + d
  <2>1. moved \in Seq(KeyType) /\ Len(moved) = d /\ Len(kept) = e
    BY <1>7, <1>10, TakeType, DropType
  <2> HIDE DEF moved, kept
  <2>2. Len(keys) = Len(moved) + Len(nk)
    BY <2>1, <1>7, ConcatProperties
  <2> QED BY <2>1, <2>2, <1>8, <1>10
<1>12. size(giver) \in least .. (Fanout - 1) /\ size(taker) \in least .. (Fanout - 1)
  BY <1>8, <1>9, <1>11 DEF size
<1>13. nodes' = [nodes EXCEPT ![here] = taker, ![l] = giver, ![above].keys[slot] = low]
  BY <1>3, <1>4, <1>6
<1>14. c.type \in {"RedistributeLeft", "RedistributeRight"}
  OBVIOUS
<1>15. \A f \in {"leaf", "parent", "left", "right", "children"} : taker[f] = nodes[here][f] /\ giver[f] = nodes[l][f]
  BY <1>5, <1>6, <1>9
<1>16. nodes' = [nodes EXCEPT ![here] = taker, ![mate(here)] = giver, ![above].keys[slot] = low]
  BY <1>13
<1>17. \A f \in {"leaf", "parent", "left", "right", "children"} : taker[f] = nodes[here][f] /\ giver[f] = nodes[mate(here)][f]
  BY <1>15
<1>19. Exchanges(taker, giver, slot, low)
  <2> HIDE DEF taker, giver, slot, low
  <2> QED BY ONLY <1>9, <1>16, <1>12, <1>17 DEF Exchanges
<1>20. Removes /\ starved /\ matched(call.node) /\ stack' = stack /\ allocated' = allocated /\ Give(Restructured, c)
  BY <1>2, <1>3
<1> DEFINE i == place - 1
<1>18. Mates(settled, tops, live, above, i, l, here) /\ here \in {l, here} /\ mate(here) \in {l, here}
  BY <1>4
<1> HIDE DEF i, l, taker, giver, c, low, slot
<1> QED BY ONLY ShapeInv, TypeInv', <1>1, <1>14, <1>18, <1>19, <1>20, LeafShiftShape

-----------------------------------------------------------------------------
(* A leaf that takes from the right *)

\* A leaf takes the first entries of its right neighbour.
LEMMA RedistributeLeafRightShape ==
  ASSUME ShapeInv, TypeInv', RedistributeLeafRight
  PROVE  ShapeInv'
<1> DEFINE n == erased(target)
           s == nodes[n.right]
           sk == s.keys
           nk == n.keys
           d == excess(n, s)
           moved == take(sk, d)
           keys == nk \o moved
           kept == drop(sk, d)
           low == sk[d + 1]
           taker == [n EXCEPT !.keys = keys, !.values = @ \o take(s.values, d)]
           giver == [s EXCEPT !.keys = kept, !.values = drop(@, d), !.lowest = low]
           c == [key |-> low, node |-> Nil, type |-> "RedistributeRight"]
           l == mate(here)
           slot == call.idx + 1
<1>1. PICK h : Shape(h)
  BY DEF ShapeInv
<1>2. /\ Removes /\ starved /\ borrowsRight(call.node) /\ matched(call.node) /\ ~asksLeft(call.node)
      /\ isBorrowable(nodes[mate(call.node)])
      /\ stack' = stack /\ allocated' = allocated
  BY DEF RedistributeLeafRight, borrowsRight
<1>3. /\ nodes' = [nodes EXCEPT ![call.node] = taker, ![n.right] = giver, ![n.parent].keys[slot] = low]
      /\ Give(Restructured, c)
  BY DEF RedistributeLeafRight
<1>4. /\ TypeInv /\ here = call.node /\ here \in NodeId /\ target = nodes[here] /\ isNode(nodes[here]) /\ nodes[here].leaf
      /\ size(n) \in Nat /\ size(n) < least /\ size(n) + 1 >= least /\ pc = "apply"
      /\ l \in NodeId /\ l # here /\ isNode(nodes[l]) /\ nodes[l].leaf
      /\ size(nodes[l]) \in least .. (Fanout - 1)
      /\ nodes[here].parent = above
      /\ nodes[here].right = l /\ Mates(settled, tops, live, above, place, here, l)
  BY <1>1, <1>2, StarvedFacts
<1>5. /\ \A f \in {"leaf", "children", "parent", "left", "right"} : n[f] = nodes[here][f]
      /\ isNode(n)
  BY <1>2, <1>4, ErasedLinks, ErasedType DEF Removes
<1>6. n.right = l /\ n.parent = above /\ s = nodes[l] /\ isNode(s) /\ size(s) \in least .. (Fanout - 1) /\ isBorrowable(s)
  BY <1>2, <1>4, <1>5
<1>7. /\ nk \in Seq(KeyType) /\ size(n) = Len(nk) /\ sk \in Seq(KeyType) /\ size(s) = Len(sk)
      /\ DOMAIN n = fields /\ DOMAIN s = fields
  BY <1>5, <1>6 DEF isNode, size, fields
<1>8. /\ d \in Nat /\ d >= 1 /\ d < Len(sk)
      /\ Len(nk) + d \in least .. (Fanout - 1) /\ Len(sk) - d \in least .. (Fanout - 1)
  <2>1. size(s) > Fanout \div 2 /\ size(s) < Fanout /\ size(s) \in Nat
    BY <1>6, <1>7, SizeAssumption DEF isBorrowable
  <2>2. d = (size(s) - size(n)) \div 2
    BY DEF excess
  <2> HIDE DEF d, s, n, sk, nk
  <2>3. /\ d \in Nat /\ d >= 1 /\ d < size(s)
        /\ size(n) + d \in least .. (Fanout - 1) /\ size(s) - d \in least .. (Fanout - 1)
    BY <2>1, <2>2, <1>4, <1>7, BorrowSizes
  <2> QED BY <2>3, <1>7
<1>9. /\ DOMAIN taker = fields /\ DOMAIN giver = fields /\ taker.keys = keys /\ giver.keys = kept
      /\ \A f \in {"leaf", "parent", "left", "right", "children"} : taker[f] = n[f] /\ giver[f] = s[f]
  <2> HIDE DEF keys, kept, low
  <2> QED BY <1>7 DEF fields
<1> HIDE DEF n, s, d, sk, nk
<1>10. d \in 0 .. Len(sk) /\ Len(nk) \in Nat
  BY <1>7, <1>8
<1>11. Len(kept) = Len(sk) - d /\ Len(keys) = Len(nk) + d
  <2>1. moved \in Seq(KeyType) /\ Len(moved) = d /\ Len(kept) = Len(sk) - d
    BY <1>7, <1>10, TakeType, DropType
  <2> HIDE DEF moved, kept
  <2>2. Len(keys) = Len(nk) + Len(moved)
    BY <2>1, <1>7, ConcatProperties
  <2> QED BY <2>1, <2>2, <1>8, <1>10
<1>12. size(giver) \in least .. (Fanout - 1) /\ size(taker) \in least .. (Fanout - 1)
  BY <1>8, <1>9, <1>11 DEF size
<1>13. nodes' = [nodes EXCEPT ![here] = taker, ![l] = giver, ![above].keys[slot] = low]
  BY <1>3, <1>4, <1>6
<1>14. c.type \in {"RedistributeLeft", "RedistributeRight"}
  OBVIOUS
<1>15. \A f \in {"leaf", "parent", "left", "right", "children"} : taker[f] = nodes[here][f] /\ giver[f] = nodes[l][f]
  BY <1>5, <1>6, <1>9
<1>16. nodes' = [nodes EXCEPT ![here] = taker, ![mate(here)] = giver, ![above].keys[slot] = low]
  BY <1>13
<1>17. \A f \in {"leaf", "parent", "left", "right", "children"} : taker[f] = nodes[here][f] /\ giver[f] = nodes[mate(here)][f]
  BY <1>15
<1>19. Exchanges(taker, giver, slot, low)
  <2> HIDE DEF taker, giver, slot, low
  <2> QED BY ONLY <1>9, <1>16, <1>12, <1>17 DEF Exchanges
<1>20. Removes /\ starved /\ matched(call.node) /\ stack' = stack /\ allocated' = allocated /\ Give(Restructured, c)
  BY <1>2, <1>3
<1> DEFINE i == place
<1>18. Mates(settled, tops, live, above, i, here, l) /\ here \in {here, l} /\ mate(here) \in {here, l}
  BY <1>4
<1> HIDE DEF i, l, taker, giver, c, low, slot
<1> QED BY ONLY ShapeInv, TypeInv', <1>1, <1>14, <1>18, <1>19, <1>20, LeafShiftShape

-----------------------------------------------------------------------------
(* Merges and their caller *)

\* A step moves everything that r has into its left neighbour l; r stays behind as it was.
Coalesced(l, r) ==
  LET a == Len(nodes[l].children)
      b == Len(nodes[r].children) IN
  /\ Len(nodes'[l].children) = a + b
  /\ \A j \in 1 .. (a + b) : nodes'[l].children[j] = shared(l, r, j)
  /\ nodes'[l].right = nodes[r].right
  /\ size(nodes'[l]) \in least .. (Fanout - 1)
  /\ \A q \in NodeId :
       /\ nodes'[q].leaf = nodes[q].leaf
       /\ q # l => nodes'[q].children = nodes[q].children /\ nodes'[q].right = nodes[q].right
       /\ q \notin {l, r} => size(nodes'[q]) = size(nodes[q])
       /\ nodes'[q].left = IF q = nodes[r].right THEN l ELSE nodes[q].left
  /\ \A j \in 1 .. (a + b) : nodes'[shared(l, r, j)].parent = l
  /\ \A q \in live : nodes[q].parent \notin {l, r} => nodes'[q].parent = nodes[q].parent

\* The caller drops the pivot between two children that merged, and the right one.
LEMMA MergeShape ==
  ASSUME ShapeInv, TypeInv', running, NEW h, Shape(h), outer # << >>,
         NEW i, NEW l, NEW r, Mates(settled, tops, live, above, i, l, r), here \in {l, r},
         nodes[l].leaf = nodes[r].leaf, Coalesced(l, r),
         pc' = "return", stack' = outer, change'.node = r,
         \/ change'.type = "MergeLeft" /\ i = place - 1
         \/ change'.type = "MergeRight" /\ i = place,
         err' # "Success", rootNode' = rootNode, orphans' = orphans, allocated' = allocated
  PROVE  ShapeInv'
<1> DEFINE a == Len(nodes[l].children)
           b == Len(nodes[r].children)
<1> SUFFICES ASSUME Len(nodes'[l].children) = a + b,
                    \A j \in 1 .. (a + b) : nodes'[l].children[j] = shared(l, r, j),
                    nodes'[l].right = nodes[r].right,
                    size(nodes'[l]) \in least .. (Fanout - 1),
                    \A q \in NodeId :
                      /\ nodes'[q].leaf = nodes[q].leaf
                      /\ q # l => nodes'[q].children = nodes[q].children /\ nodes'[q].right = nodes[q].right
                      /\ q \notin {l, r} => size(nodes'[q]) = size(nodes[q])
                      /\ nodes'[q].left = IF q = nodes[r].right THEN l ELSE nodes[q].left,
                    \A j \in 1 .. (a + b) : nodes'[shared(l, r, j)].parent = l,
                    \A q \in live : nodes[q].parent \notin {l, r} => nodes'[q].parent = nodes[q].parent
             PROVE  ShapeInv'
  BY DEF Coalesced
<1>0. TypeInv /\ Flow /\ Sizes /\ Childless /\ Tree(settled, tops, live, h) /\ h \in [NodeId \cup {Nil} -> Nat]
  BY DEF ShapeInv, Shape
<1>1. /\ \A q \in NodeId : settled[q] = nodes[q]
      /\ live = allocated \ orphans /\ live \subseteq NodeId /\ Nil \notin live /\ Nil \notin NodeId
      /\ rootNode # Nil /\ tops = <<rootNode>>
  BY <1>0, RunningPlain, LiveIds
<1>2. /\ here \in live /\ above \in live /\ above # here /\ ~settled[above].leaf
      /\ h[above] = h[here] + 1 /\ h[here] \in Nat
      /\ Last(outer).idx \in Nat /\ Last(outer).idx + 1 = place
  BY <1>0, HereFacts
<1>3. /\ l \in live /\ r \in live /\ l # r /\ l # above /\ r # above
      /\ h[l] = h[here] /\ h[r] = h[here] /\ lft(settled, r) = l
      /\ deg(settled, tops, l) \in Nat /\ deg(settled, tops, r) \in Nat
  BY <1>0, <1>1, MateFacts
<1>4. gone(change') = {r} /\ change' \in ChildChange /\ r \notin orphans
  <2>1. change'.type \in {"MergeLeft", "MergeRight"}
    OBVIOUS
  <2> QED BY <2>1, <1>1, <1>3 DEF gone, TypeInv, TypeOK
<1>5. \A q \in NodeId : isNode(nodes'[q]) /\ isNode(nodes[q])
  BY <1>0 DEF TypeInv, TypeOK, isHeap
<1>6. live' = live \ {r} /\ tops' = tops
  <2>1. live' = (allocated' \ gone(change')) \ orphans'
    BY <1>0, SettledNext
  <2> QED BY <2>1, <1>1, <1>4 DEF tops
<1>7. /\ size(settled[above]) \in Nat /\ filled(settled, tops, above)
      /\ deg(settled, tops, above) = size(settled[above]) + 1
      /\ i \in 1 .. size(nodes[above]) /\ settled[above] = nodes[above]
  <2>1. /\ size(settled[above]) \in Nat /\ filled(settled, tops, above)
        /\ deg(settled, tops, above) = size(settled[above]) + 1
    BY CallerFilled
  <2>2. i \in 1 .. deg(settled, tops, above) /\ i + 1 \in 1 .. deg(settled, tops, above)
    BY DEF Mates
  <2> QED BY <2>1, <2>2, <1>1, <1>2
<1> DEFINE s == nodes[above].children
<1>8. /\ nodes'[above].children = s /\ size(nodes'[above]) = size(nodes[above]) /\ ~nodes'[above].leaf
      /\ s \in Seq(NodeId) /\ Len(s) = size(nodes[above]) + 1
  <2>1. nodes'[above].leaf = nodes[above].leaf /\ nodes[above].leaf = settled[above].leaf
    BY <1>1, <1>2
  <2>2. ~nodes[above].leaf
    BY <2>1, <1>2
  <2> QED BY <2>1, <2>2, <1>1, <1>2, <1>3, <1>5 DEF isNode, size
<1>9. /\ \A q \in NodeId : q # above /\ q # r => settled'[q] = nodes'[q]
      /\ \A f \in {"leaf", "parent", "left", "right"} : settled'[above][f] = nodes'[above][f]
      /\ settled'[above].children = RemoveAt(s, i + 1)
      /\ size(settled'[above]) = size(nodes[above]) - 1
  <2> DEFINE n == nodes'[above]
             idx == Last(outer).idx
             c == change'
  <2>1. settled' = [q \in NodeId |-> IF q \in gone(change') THEN NewLeaf
                                     ELSE IF q = above THEN adjusted(n, idx, c)
                                     ELSE nodes'[q]]
    BY <1>0, SettledNext
  <2>2. isNode(n) /\ ~n.leaf /\ idx \in Nat /\ i \in 1 .. size(n) /\ n.children = s /\ size(n) = size(nodes[above])
    BY <1>1, <1>2, <1>5, <1>7, <1>8
  <2>3. (c.type = "MergeLeft" /\ i = idx) \/ (c.type = "MergeRight" /\ i = idx + 1)
    BY <1>2
  <2>4. settled'[above] = adjusted(n, idx, c)
    <3>1. above \in NodeId /\ above \notin gone(change')
      BY <1>1, <1>2, <1>3, <1>4
    <3> QED BY ONLY <2>1, <3>1
  <2>5. \A q \in NodeId : q # above /\ q # r => settled'[q] = nodes'[q]
    BY ONLY <2>1, <1>4
  <2> HIDE DEF n, idx, c
  <2>7. Curtailed(adjusted(n, idx, c), n, i)
    BY ONLY <2>2, <2>3, AdjustedMerge, Zenon
  <2>6. /\ \A f \in {"leaf", "parent", "left", "right"} : adjusted(n, idx, c)[f] = n[f]
        /\ adjusted(n, idx, c).children = RemoveAt(n.children, i + 1)
        /\ size(adjusted(n, idx, c)) = size(n) - 1
    BY ONLY <2>7 DEF Curtailed
  <2> QED BY <2>2, <2>4, <2>5, <2>6 DEF n
<1> HIDE DEF s
<1>10. \A q \in NodeId : q # r => \A f \in {"leaf", "parent", "left", "right"} : settled'[q][f] = nodes'[q][f]
  BY <1>9
<1>11. /\ RemoveAt(s, i + 1) \in Seq(NodeId) /\ Len(RemoveAt(s, i + 1)) = Len(s) - 1
       /\ \A j \in 1 .. i : RemoveAt(s, i + 1)[j] = s[j]
       /\ \A j \in (i + 1) .. (Len(s) - 1) : RemoveAt(s, i + 1)[j] = s[j + 1]
  <2> DEFINE m == i + 1
  <2>1. m \in 1 .. Len(s) /\ m - 1 = i
    BY <1>7, <1>8
  <2> HIDE DEF m
  <2>2. RemoveAt(s, m) \in Seq(NodeId) /\ Len(RemoveAt(s, m)) = Len(s) - 1
    BY <2>1, <1>8, RemoveAtItems
  <2>3. \A j \in 1 .. (m - 1) : RemoveAt(s, m)[j] = s[j]
    BY <2>1, <1>8, RemoveAtItems
  <2>4. \A j \in m .. (Len(s) - 1) : RemoveAt(s, m)[j] = s[j + 1]
    BY <2>1, <1>8, RemoveAtItems
  <2> QED BY <2>1, <2>2, <2>3, <2>4 DEF m
<1>12. deg(settled, tops, l) = a /\ deg(settled, tops, r) = b
       /\ \A j : joint(settled, tops, l, r, j) = shared(l, r, j)
  BY <1>1, <1>3 DEF deg, kid, kids, joint, shared
<1>13. ASSUME NEW q \in live \cup {Nil}, q # l, q # r, q # above
       PROVE  /\ deg(settled', tops', q) = deg(settled, tops, q)
              /\ \A j \in 1 .. deg(settled, tops, q) : kid(settled', tops', q, j) = kid(settled, tops, q, j)
  <2>1. kids(settled', tops', q) = kids(settled, tops, q)
    <3>1. CASE q = Nil
      BY <3>1, <1>6 DEF kids
    <3>2. CASE q # Nil
      <4>1. q \in live /\ q \in NodeId
        BY <3>2, <1>1
      <4>2. settled'[q].children = settled[q].children
        BY <4>1, <1>1, <1>9, <1>13
      <4> QED BY <4>2, <3>2 DEF kids
    <3> QED BY <3>1, <3>2
  <2> QED BY <2>1 DEF deg, kid
<1>14. /\ deg(settled', tops', l) = a + b
       /\ \A j \in 1 .. (a + b) : kid(settled', tops', l, j) = joint(settled, tops, l, r, j)
  <2>1. kids(settled', tops', l) = nodes'[l].children
    BY <1>1, <1>3, <1>9 DEF kids
  <2> QED BY <2>1, <1>12 DEF deg, kid
<1>15. /\ deg(settled', tops', above) = deg(settled, tops, above) - 1
       /\ \A j \in 1 .. i : kid(settled', tops', above, j) = kid(settled, tops, above, j)
       /\ \A j \in (i + 1) .. (deg(settled, tops, above) - 1) :
            kid(settled', tops', above, j) = kid(settled, tops, above, j + 1)
  <2>1. kids(settled', tops', above) = RemoveAt(s, i + 1) /\ kids(settled, tops, above) = s
    BY <1>1, <1>2, <1>7, <1>9 DEF kids, s
  <2> QED BY <2>1, <1>11 DEF deg, kid
<1>16. /\ \A q \in (live \cup {Nil}) \ {r} :
            /\ q # l => rgt(settled', q) = rgt(settled, q)
            /\ q = Nil \/ q # rgt(settled, r) => lft(settled', q) = lft(settled, q)
       /\ rgt(settled', l) = rgt(settled, r)
       /\ \A q \in live \ {r} : up(settled', q) = nodes'[q].parent /\ up(settled, q) = nodes[q].parent
  BY <1>1, <1>3, <1>10 DEF lft, rgt, up
<1>17. rgt(settled, r) # Nil => lft(settled', rgt(settled, r)) = l
  <2> SUFFICES ASSUME rgt(settled, r) # Nil PROVE lft(settled', rgt(settled, r)) = l
    OBVIOUS
  <2>1. rgt(settled, r) \in live /\ rgt(settled, r) # r
    BY <1>0, <1>3 DEF Tree, Mutual
  <2>2. rgt(settled, r) = nodes[r].right
    BY <1>1, <1>3 DEF rgt
  <2> QED BY <2>1, <2>2, <1>1, <1>10 DEF lft
<1>18. \A j \in 1 .. (a + b) : joint(settled, tops, l, r, j) \in live \ {r}
  <2> HIDE DEF a, b
  <2>1. \A j \in 1 .. (a + b) : /\ joint(settled, tops, l, r, j) \in live
                                /\ h[l] = h[joint(settled, tops, l, r, j)] + 1
    BY <1>0, <1>1, <1>12, JointFacts
  <2>2. ASSUME NEW j \in 1 .. (a + b) PROVE joint(settled, tops, l, r, j) # r
    <3>1. h[l] = h[joint(settled, tops, l, r, j)] + 1
      BY <2>1
    <3> QED BY ONLY <3>1, <1>2, <1>3
  <2> QED BY <2>1, <2>2
<1>19. /\ \A j \in 1 .. (a + b) : up(settled', joint(settled, tops, l, r, j)) = l
       /\ \A q \in live \ {r} : up(settled, q) # l /\ up(settled, q) # r => up(settled', q) = up(settled, q)
  <2>1. ASSUME NEW j \in 1 .. (a + b)
        PROVE  up(settled', joint(settled, tops, l, r, j)) = l
    <3>1. joint(settled, tops, l, r, j) = shared(l, r, j) /\ joint(settled, tops, l, r, j) \in live \ {r}
      BY <1>12, <1>18
    <3>2. up(settled', shared(l, r, j)) = nodes'[shared(l, r, j)].parent
      BY <3>1, <1>16
    <3>3. nodes'[shared(l, r, j)].parent = l
      BY <2>1
    <3> QED BY <3>1, <3>2, <3>3
  <2>2. \A q \in live \ {r} : up(settled, q) # l /\ up(settled, q) # r => up(settled', q) = up(settled, q)
    BY <1>16
  <2> QED BY <2>1, <2>2
<1> HIDE DEF a, b
<1>20. Merged(settled, tops, settled', tops', live, above, i, l, r)
  BY ONLY Mates(settled, tops, live, above, i, l, r), <1>12, <1>13, <1>14, <1>15, <1>16, <1>17, <1>19 DEF Merged
<1>21. Tree(settled', tops', live', h)
  BY <1>0, <1>1, <1>6, <1>20, MergeTree
<1>22. \A q \in live : h[q] > h[here] => q \in live' /\ settled'[q].leaf = settled[q].leaf
  <2> SUFFICES ASSUME NEW q \in live, h[q] > h[here] PROVE q \in live' /\ settled'[q].leaf = settled[q].leaf
    OBVIOUS
  <2>1. q # r
    BY <1>2, <1>3
  <2> QED BY <2>1, <1>1, <1>6, <1>10
<1>23. \A q \in live : h[q] > h[above] => /\ settled'[q].children = settled[q].children
                                          /\ size(settled'[q]) = size(settled[q])
  <2> SUFFICES ASSUME NEW q \in live, h[q] > h[above]
               PROVE  settled'[q].children = settled[q].children /\ size(settled'[q]) = size(settled[q])
    OBVIOUS
  <2>1. q \notin {l, r, above} /\ q \in NodeId
    BY <1>1, <1>2, <1>3
  <2>2. settled'[q] = nodes'[q] /\ settled[q] = nodes[q]
    BY <2>1, <1>1, <1>9
  <2> QED BY <2>1, <2>2
<1>24. ASSUME NEW q \in live', outer = << >> \/ q # above PROVE filled(settled', tops', q)
  <2>1. q \in live /\ q \in NodeId /\ q # r /\ settled'[q] = nodes'[q]
    BY <1>1, <1>6, <1>9, <1>24
  <2>2. least \in Int /\ Fanout \in Nat
    BY SizeAssumption DEF least
  <2>3. CASE q = l
    <3>1. size(settled'[q]) \in least .. (Fanout - 1)
      BY <2>1, <2>3
    <3>2. size(settled'[q]) < Fanout /\ size(settled'[q]) >= least
      BY ONLY <3>1, <2>2
    <3> QED BY ONLY <3>2 DEF filled
  <2>4. CASE q # l
    <3>1. q # here
      BY <2>1, <2>4
    <3>2. size(settled'[q]) = size(nodes[q])
      BY <2>1, <2>4
    <3>3. /\ size(nodes[q]) < Fanout
          /\ size(nodes[q]) >= least \/ q = rootNode
      BY <2>1, <3>1, FilledOthers
    <3> QED BY <3>2, <3>3, <1>1, <1>6 DEF filled
  <2> QED BY <2>3, <2>4
<1>25. nearlyFilled(settled', tops', above)
  <2>1. ~settled[above].leaf /\ size(settled'[above]) = size(settled[above]) - 1 /\ size(settled[above]) \in Nat
    BY <1>2, <1>7, <1>9
  <2>2. size(settled[above]) < Fanout /\ (tops = <<above>> \/ size(settled[above]) >= least)
    BY <2>1, <1>7 DEF filled
  <2>3. least \in Int /\ Fanout \in Nat
    BY SizeAssumption DEF least
  <2> QED BY <2>1, <2>2, <2>3, <1>6 DEF nearlyFilled
<1>26. Childless'
  <2> SUFFICES ASSUME NEW q \in NodeId, nodes'[q].leaf PROVE nodes'[q].children = << >>
    BY DEF Childless
  <2>1. CASE q = l
    <3>1. nodes[l].leaf /\ nodes[r].leaf
      BY <2>1
    <3>2. nodes[l].children = << >> /\ nodes[r].children = << >>
      BY <3>1, <1>0, <1>1, <1>3 DEF Childless
    <3>3. a = 0 /\ b = 0
      BY <3>2 DEF a, b
    <3>4. Len(nodes'[q].children) = 0
      BY <2>1, <3>3
    <3>5. nodes'[q].children \in Seq(NodeId)
      BY <1>5 DEF isNode
    <3> QED BY <3>4, <3>5
  <2>2. CASE q # l
    BY <2>2, <1>0 DEF Childless
  <2> QED BY <2>1, <2>2
<1>27. /\ orphans \subseteq allocated' /\ gone(change') \cap orphans = {}
       /\ change'.type # "None" /\ (outer = << >> => change'.type = "Split")
  BY <1>0, <1>4 DEF Flow
<1>28. \A q \in live \cup {Nil} : h[q] = h[q]
  OBVIOUS
<1> QED BY <1>0, <1>21, <1>22, <1>23, <1>24, <1>25, <1>26, <1>27, <1>28, RestructuredReturn

-----------------------------------------------------------------------------
(* What a merge leaves *)

\* Table m is table t after node r has moved into l.
MovedInto(m, t, l, r, seam) ==
  /\ \A q \in NodeId : /\ q # l => \A f \in fields \ {"left", "parent"} : m[q][f] = t[q][f]
                       /\ m[q].left = IF q = t[r].right THEN l ELSE t[q].left
                       /\ m[q].parent = IF q \in ToSet(t[l].children \o t[r].children) THEN l ELSE t[q].parent
  /\ m[l].leaf = t[l].leaf
  /\ m[l].keys = t[l].keys \o seam \o t[r].keys
  /\ m[l].children = t[l].children \o t[r].children
  /\ m[l].right = t[r].right

\* What a merge does to a table of nodes.
LEMMA MergedFields ==
  ASSUME NEW t, isTable(t), NEW l \in NodeId, NEW r \in NodeId, NEW seam
  PROVE  MovedInto(merged(t, l, r, seam), t, l, r, seam)
<1> DEFINE joined == [t[l] EXCEPT !.keys = @ \o seam \o t[r].keys,
                                  !.values = @ \o t[r].values,
                                  !.children = @ \o t[r].children,
                                  !.buffer = overlay(t[r].buffer, @),
                                  !.right = t[r].right]
           u == [t EXCEPT ![l] = joined]
           v == linkBack(u, t[r].right, l)
           S == ToSet(joined.children)
           w == reparent(v, S, l)
<1>1. merged(t, l, r, seam) = w
  BY DEF merged
<1>2. /\ DOMAIN joined = fields
      /\ joined.leaf = t[l].leaf /\ joined.keys = t[l].keys \o seam \o t[r].keys
      /\ joined.children = t[l].children \o t[r].children /\ joined.right = t[r].right
      /\ joined.left = t[l].left /\ joined.parent = t[l].parent
  BY DEF isTable, fields
<1> HIDE DEF joined
<1>3. isTable(u) /\ \A q \in NodeId : u[q] = IF q = l THEN joined ELSE t[q]
  BY <1>2, TableUpdate
<1> HIDE DEF u
<1>4. /\ isTable(v)
      /\ \A q \in NodeId : /\ \A f \in fields \ {"left"} : v[q][f] = u[q][f]
                           /\ v[q].left = IF q = t[r].right THEN l ELSE u[q].left
  BY <1>3, LinkBackFields
<1> HIDE DEF v
<1>5. \A q \in NodeId : /\ \A f \in fields \ {"parent"} : w[q][f] = v[q][f]
                        /\ w[q].parent = IF q \in S THEN l ELSE v[q].parent
  BY <1>4, ReparentFields
<1>6. S = ToSet(t[l].children \o t[r].children)
  BY <1>2
<1> HIDE DEF w, S
<1>7. \A q \in NodeId : /\ \A f \in fields \ {"left", "parent"} : w[q][f] = u[q][f]
                        /\ w[q].left = IF q = t[r].right THEN l ELSE u[q].left
                        /\ w[q].parent = IF q \in S THEN l ELSE u[q].parent
  <2>1. "left" \in fields \ {"parent"} /\ "parent" \in fields \ {"left"}
    BY DEF fields
  <2> QED BY <2>1, <1>4, <1>5
<1>8. \A q \in NodeId : u[q].left = t[q].left /\ u[q].parent = t[q].parent
  BY <1>2, <1>3
<1>9. \A f \in fields \ {"left", "parent"} : w[l][f] = joined[f]
  BY <1>3, <1>7
<1>10. {"leaf", "keys", "children", "right"} \subseteq fields \ {"left", "parent"}
  BY DEF fields
<1>11. w[l].leaf = joined.leaf /\ w[l].keys = joined.keys /\ w[l].children = joined.children /\ w[l].right = joined.right
  BY <1>9, <1>10
<1>12. \A q \in NodeId : q # l => \A f \in fields \ {"left", "parent"} : w[q][f] = t[q][f]
  BY <1>3, <1>7
<1>13. MovedInto(w, t, l, r, seam)
  BY <1>2, <1>6, <1>7, <1>8, <1>11, <1>12 DEF MovedInto
<1> QED BY <1>1, <1>13

\* The step merges r into l, after the running call may have shrunk one of them.
Joins(t, l, r, seam) ==
  /\ isTable(t) /\ nodes' = merged(t, l, r, seam)
  /\ \A q \in NodeId : /\ \A f \in {"leaf", "parent", "left", "right", "children"} : t[q][f] = nodes[q][f]
                       /\ q \notin {l, r} => size(t[q]) = size(nodes[q])
  /\ Len(t[l].keys \o seam \o t[r].keys) \in least .. (Fanout - 1)

\* Two neighbours that merge.
LEMMA JoinShape ==
  ASSUME ShapeInv, TypeInv', running, NEW h, Shape(h), outer # << >>,
         NEW i, NEW l, NEW r, Mates(settled, tops, live, above, i, l, r), here \in {l, r},
         nodes[l].leaf = nodes[r].leaf, NEW t, NEW seam, Joins(t, l, r, seam),
         pc' = "return", stack' = outer, change'.node = r,
         \/ change'.type = "MergeLeft" /\ i = place - 1
         \/ change'.type = "MergeRight" /\ i = place,
         err' # "Success", rootNode' = rootNode, orphans' = orphans, allocated' = allocated
  PROVE  ShapeInv'
<1> DEFINE c == nodes[l].children
           e == nodes[r].children
           a == Len(c)
           b == Len(e)
<1>0. TypeInv /\ Tree(settled, tops, live, h) /\ Nil \notin live /\ live \subseteq NodeId
  BY LiveIds DEF ShapeInv, Shape
<1>1. /\ \A q \in NodeId : settled[q] = nodes[q]
  BY <1>0, RunningPlain
<1>2. /\ l \in live /\ r \in live /\ l # r /\ l \in NodeId /\ r \in NodeId /\ l # Nil /\ r # Nil
  BY <1>0, MateFacts
<1>3. c \in Seq(NodeId) /\ a \in Nat /\ e \in Seq(NodeId) /\ b \in Nat
  BY <1>2, OwnLinks
<1>4. /\ isTable(t)
      /\ \A q \in NodeId : \A f \in {"leaf", "parent", "left", "right", "children"} : t[q][f] = nodes[q][f]
      /\ \A q \in NodeId : q \notin {l, r} => size(t[q]) = size(nodes[q])
      /\ Len(t[l].keys \o seam \o t[r].keys) \in least .. (Fanout - 1)
      /\ nodes' = merged(t, l, r, seam)
  BY DEF Joins
<1>5. /\ t[l].children = c /\ t[r].children = e /\ t[r].right = nodes[r].right
  BY <1>2, <1>4
<1> DEFINE m == merged(t, l, r, seam)
<1>20. isTable(t) /\ l \in NodeId /\ r \in NodeId
  BY <1>2, <1>4
<1>17. MovedInto(m, t, l, r, seam)
  BY ONLY <1>20, MergedFields
<1> HIDE DEF m
<1>18. nodes' = m
  BY <1>4 DEF m
<1>6. \A q \in NodeId : /\ q # l => \A f \in fields \ {"left", "parent"} : nodes'[q][f] = t[q][f]
                        /\ nodes'[q].left = IF q = nodes[r].right THEN l ELSE t[q].left
                        /\ nodes'[q].parent = IF q \in ToSet(c \o e) THEN l ELSE t[q].parent
  BY ONLY <1>5, <1>17, <1>18 DEF MovedInto
<1>7. /\ nodes'[l].leaf = t[l].leaf /\ nodes'[l].keys = t[l].keys \o seam \o t[r].keys
      /\ nodes'[l].children = c \o e /\ nodes'[l].right = nodes[r].right
  BY ONLY <1>5, <1>17, <1>18 DEF MovedInto
<1>8. /\ Len(c \o e) = a + b /\ c \o e \in Seq(NodeId)
      /\ \A j \in 1 .. (a + b) : (c \o e)[j] = shared(l, r, j)
  <2>1. Len(c \o e) = Len(c) + Len(e) /\ c \o e \in Seq(NodeId)
    BY <1>3, ConcatProperties
  <2>2. \A j \in 1 .. (Len(c) + Len(e)) : (c \o e)[j] = IF j <= Len(c) THEN c[j] ELSE e[j - Len(c)]
    BY <1>3, ConcatProperties
  <2> QED BY <2>1, <2>2 DEF shared
<1>9. \A q : q \in ToSet(c \o e) <=> \E j \in 1 .. (a + b) : q = shared(l, r, j)
  <2> DEFINE s == c \o e
  <2> HIDE DEF a, b
  <2>4. s \in Seq(NodeId) /\ Len(s) = a + b /\ \A j \in 1 .. (a + b) : s[j] = shared(l, r, j)
    BY <1>8
  <2> HIDE DEF s
  <2>1. DOMAIN s = 1 .. (a + b) /\ \A j \in 1 .. (a + b) : s[j] = shared(l, r, j)
    BY <2>4
  <2>2. \A q : q \in ToSet(s) <=> \E j \in 1 .. (a + b) : q = s[j]
    BY <2>1 DEF ToSet
  <2>3. \A q : q \in ToSet(s) <=> \E j \in 1 .. (a + b) : q = shared(l, r, j)
    BY <2>1, <2>2
  <2> QED BY <2>3 DEF s
<1>10. \A j \in 1 .. (a + b) : /\ shared(l, r, j) \in live
                               /\ nodes[shared(l, r, j)].parent \in {l, r}
  <2>1. /\ deg(settled, tops, l) = a /\ deg(settled, tops, r) = b
        /\ \A j : joint(settled, tops, l, r, j) = shared(l, r, j)
    BY <1>1, <1>2 DEF deg, kid, kids, joint, shared
  <2> HIDE DEF a, b
  <2>2. \A j \in 1 .. (a + b) :
          /\ joint(settled, tops, l, r, j) \in live
          /\ up(settled, joint(settled, tops, l, r, j)) = IF j <= a THEN l ELSE r
    BY <1>0, <2>1, JointFacts
  <2> QED BY <1>0, <1>1, <2>1, <2>2 DEF up
<1> HIDE DEF a, b
<1>11. \A j \in 1 .. (a + b) : nodes'[shared(l, r, j)].parent = l
  BY <1>0, <1>6, <1>9, <1>10
<1>12. ASSUME NEW q \in live, nodes[q].parent \notin {l, r} PROVE nodes'[q].parent = nodes[q].parent
  <2>1. q \notin ToSet(c \o e)
    BY <1>9, <1>10, <1>12
  <2> QED BY <2>1, <1>0, <1>4, <1>6
<1>13. \A q \in NodeId :
         /\ nodes'[q].leaf = nodes[q].leaf
         /\ q # l => nodes'[q].children = nodes[q].children /\ nodes'[q].right = nodes[q].right
         /\ q \notin {l, r} => size(nodes'[q]) = size(nodes[q])
         /\ nodes'[q].left = IF q = nodes[r].right THEN l ELSE nodes[q].left
  <2> TAKE q \in NodeId
  <2>1. {"leaf", "keys", "children", "right"} \subseteq fields \ {"left", "parent"}
    BY DEF fields
  <2>2. q # l => /\ nodes'[q].leaf = t[q].leaf /\ nodes'[q].children = t[q].children
                 /\ nodes'[q].right = t[q].right /\ nodes'[q].keys = t[q].keys
    BY <2>1, <1>6
  <2>3. nodes'[q].leaf = nodes[q].leaf
    BY <2>2, <1>2, <1>4, <1>7
  <2>4. q # l => nodes'[q].children = nodes[q].children /\ nodes'[q].right = nodes[q].right
    BY <2>2, <1>4
  <2>5. q \notin {l, r} => size(nodes'[q]) = size(nodes[q])
    BY <2>2, <1>4 DEF size
  <2>6. nodes'[q].left = IF q = nodes[r].right THEN l ELSE nodes[q].left
    BY <1>4, <1>6
  <2> QED BY <2>3, <2>4, <2>5, <2>6
<1>14. /\ Len(nodes'[l].children) = a + b
       /\ \A j \in 1 .. (a + b) : nodes'[l].children[j] = shared(l, r, j)
       /\ nodes'[l].right = nodes[r].right
       /\ size(nodes'[l]) \in least .. (Fanout - 1)
  BY <1>4, <1>7, <1>8 DEF size
<1>15. \A q \in live : nodes[q].parent \notin {l, r} => nodes'[q].parent = nodes[q].parent
  BY <1>12
<1>16. Coalesced(l, r)
  BY ONLY <1>11, <1>13, <1>14, <1>15 DEF Coalesced, a, b, c, e
<1> QED BY ONLY ShapeInv, TypeInv', running, Shape(h), outer # << >>, Mates(settled, tops, live, above, i, l, r),
               here \in {l, r}, nodes[l].leaf = nodes[r].leaf, <1>16,
               pc' = "return", stack' = outer, change'.node = r,
               \/ change'.type = "MergeLeft" /\ i = place - 1
               \/ change'.type = "MergeRight" /\ i = place,
               err' # "Success", rootNode' = rootNode, orphans' = orphans, allocated' = allocated, MergeShape

-----------------------------------------------------------------------------
(* Merges of internal nodes and of leaves *)

\* A node that lacks entries and a neighbour with none to spare fit into one node.
LEMMA MergeSizes ==
  ASSUME NEW a \in Nat, NEW b \in Nat, a < least, b <= Fanout \div 2, b >= least, NEW c \in 0 .. 1
  PROVE  a + b + c \in least .. (Fanout - 1)
<1>1. PICK f \in Nat : f = Fanout \div 2 /\ (Fanout = 2 * f \/ Fanout = 2 * f + 1)
  BY SizeAssumption
<1>2. least = IF Fanout = 2 * f THEN f - 1 ELSE f
  BY <1>1, SizeAssumption DEF least
<1> QED BY <1>1, <1>2, SizeAssumption

\* The keys of two nodes that merge, and the pivot between them.
LEMMA SeamLength ==
  ASSUME NEW a \in Seq(KeyType), NEW b \in Seq(KeyType), NEW seam \in Seq(KeyType)
  PROVE  Len(a \o seam \o b) = Len(a) + Len(seam) + Len(b)
<1> DEFINE u == a \o seam
<1>1. u \in Seq(KeyType) /\ Len(u) = Len(a) + Len(seam)
  BY ConcatProperties
<1> HIDE DEF u
<1>2. Len(u \o b) = Len(u) + Len(b)
  BY <1>1, ConcatProperties
<1> QED BY <1>1, <1>2 DEF u

\* An internal node too short of keys merges with the sibling that it asks.
LEMMA InternalJoinShape ==
  ASSUME ShapeInv, TypeInv', Underflowed, NEW h, Shape(h), matched(frame.node),
         ~isBorrowable(nodes[mate(here)]),
         NEW i, NEW l, NEW r, Mates(settled, tops, live, above, i, l, r),
         here \in {l, r}, mate(here) \in {l, r},
         NEW seam, seam \in Seq(KeyType), Len(seam) = 1, nodes' = merged(nodes, l, r, seam),
         NEW c, c.node = r, Give(err, c),
         \/ c.type = "MergeLeft" /\ i = place - 1
         \/ c.type = "MergeRight" /\ i = place,
         stack' = Front(stack), allocated' = allocated
  PROVE  ShapeInv'
<1> DEFINE s == mate(here)
<1>1. /\ TypeInv /\ running /\ here = frame.node /\ outer = Front(stack) /\ outer # << >>
      /\ err # "Success" /\ flusher = nodes[here]
      /\ here \in live /\ here \in NodeId /\ isNode(nodes[here]) /\ ~nodes[here].leaf
      /\ size(nodes[here]) \in Nat /\ size(nodes[here]) < least
      /\ s \in live /\ s \in NodeId /\ s # here /\ isNode(nodes[s]) /\ ~nodes[s].leaf
      /\ size(nodes[s]) \in least .. (Fanout - 1)
  BY UnderflowFacts
<1> HIDE DEF s
<1>2. (l = here /\ r = s) \/ (l = s /\ r = here)
  <2>1. Tree(settled, tops, live, h) /\ Nil \notin live
    BY <1>1, LiveIds DEF Shape
  <2>2. l # r
    BY <2>1, MateFacts
  <2> QED BY <2>2, <1>1 DEF s
<1>3. isTable(nodes)
  BY <1>1, HeapTable DEF TypeInv, TypeOK
<1>4. Len(nodes[l].keys \o seam \o nodes[r].keys) \in least .. (Fanout - 1)
  <2>1. nodes[l].keys \in Seq(KeyType) /\ nodes[r].keys \in Seq(KeyType)
    BY <1>1, <1>2 DEF isNode
  <2>2. Len(nodes[l].keys \o seam \o nodes[r].keys) = size(nodes[l]) + 1 + size(nodes[r])
    <3> DEFINE a == nodes[l].keys
               b == nodes[r].keys
    <3>1. a \in Seq(KeyType) /\ b \in Seq(KeyType)
      BY <2>1
    <3> HIDE DEF a, b
    <3>2. Len(a \o seam \o b) = Len(a) + Len(seam) + Len(b)
      BY <3>1, SeamLength
    <3> QED BY <3>2 DEF size, a, b
  <2>3. size(nodes[s]) \in Nat /\ size(nodes[s]) <= Fanout \div 2 /\ size(nodes[s]) >= least
    BY <1>1, SizeAssumption DEF isBorrowable, s, least
  <2>4. size(nodes[here]) + size(nodes[s]) + 1 \in least .. (Fanout - 1)
    BY <2>3, <1>1, MergeSizes
  <2>5. size(nodes[l]) + 1 + size(nodes[r]) = size(nodes[here]) + size(nodes[s]) + 1
    BY ONLY <2>3, <1>1, <1>2
  <2> QED BY <2>2, <2>4, <2>5
<1>5. Joins(nodes, l, r, seam)
  BY <1>3, <1>4 DEF Joins
<1>6. nodes[l].leaf = nodes[r].leaf
  <2>1. nodes[here].leaf = FALSE /\ nodes[s].leaf = FALSE
    BY <1>1 DEF isNode
  <2> QED BY <2>1, <1>2
<1>7. /\ pc' = "return" /\ stack' = outer /\ change'.node = r /\ err' # "Success"
      /\ rootNode' = rootNode /\ orphans' = orphans
      /\ \/ change'.type = "MergeLeft" /\ i = place - 1
         \/ change'.type = "MergeRight" /\ i = place
  BY <1>1 DEF Give, history
<1>8. running /\ outer # << >>
  BY <1>1
<1> QED BY ONLY ShapeInv, TypeInv', Shape(h), Mates(settled, tops, live, above, i, l, r), here \in {l, r},
               allocated' = allocated, <1>5, <1>6, <1>7, <1>8, JoinShape

\* An internal node moves into its left sibling.
LEMMA MergeInternalLeftShape ==
  ASSUME ShapeInv, TypeInv', MergeInternalLeft
  PROVE  ShapeInv'
<1> DEFINE n == flusher
           k == indexInParent(n)
           pivots == nodes[n.parent].keys
           seam == <<pivots[k]>>
           c == [key |-> NoKey, node |-> frame.node, type |-> "MergeLeft"]
           l == mate(here)
           i == place - 1
<1>1. PICK h : Shape(h)
  BY DEF ShapeInv
<1>2. /\ Underflowed /\ matched(frame.node) /\ asksLeft(frame.node) /\ ~isBorrowable(nodes[mate(frame.node)])
      /\ k \in DOMAIN pivots
      /\ nodes' = merged(nodes, n.left, frame.node, seam) /\ Give(err, c)
      /\ stack' = Front(stack) /\ allocated' = allocated
  BY DEF MergeInternalLeft, mergesLeft
<1>3. /\ here = frame.node /\ n = nodes[here] /\ nodes[here].left = l /\ TypeInv /\ here \in NodeId
      /\ Mates(settled, tops, live, above, place - 1, l, here)
  BY <1>1, <1>2, UnderflowFacts
<1>4. seam \in Seq(KeyType) /\ Len(seam) = 1
  <2>1. n.parent \in NodeId \cup {Nil}
    BY <1>3 DEF TypeInv, TypeOK, isHeap, isNode
  <2>2. n.parent # Nil
    BY <1>2 DEF Underflowed, isRoot
  <2>3. pivots \in Seq(KeyType)
    BY <2>1, <2>2, <1>3 DEF TypeInv, TypeOK, isHeap, isNode
  <2> HIDE DEF pivots, k
  <2>4. pivots[k] \in KeyType
    BY <2>3, <1>2
  <2> QED BY <2>4
<1>5. nodes' = merged(nodes, l, here, seam)
  BY <1>2, <1>3
<1>6. /\ Mates(settled, tops, live, above, i, l, here) /\ here \in {l, here} /\ mate(here) \in {l, here}
      /\ ~isBorrowable(nodes[mate(here)])
      /\ c.node = here /\ c.type = "MergeLeft" /\ i = place - 1
  BY <1>2, <1>3
<1> HIDE DEF i, l, c, seam
<1> QED BY ONLY ShapeInv, TypeInv', <1>1, <1>2, <1>4, <1>5, <1>6, InternalJoinShape

\* An internal node takes in its right sibling.
LEMMA MergeInternalRightShape ==
  ASSUME ShapeInv, TypeInv', MergeInternalRight
  PROVE  ShapeInv'
<1> DEFINE n == flusher
           k == indexInParent(n) + 1
           pivots == nodes[n.parent].keys
           seam == <<pivots[k]>>
           c == [key |-> NoKey, node |-> n.right, type |-> "MergeRight"]
           r == mate(here)
           i == place
<1>1. PICK h : Shape(h)
  BY DEF ShapeInv
<1>2. /\ Underflowed /\ matched(frame.node) /\ ~asksLeft(frame.node) /\ ~isBorrowable(nodes[mate(frame.node)])
      /\ k \in DOMAIN pivots
      /\ nodes' = merged(nodes, frame.node, n.right, seam) /\ Give(err, c)
      /\ stack' = Front(stack) /\ allocated' = allocated
  BY DEF MergeInternalRight, mergesRight
<1>3. /\ here = frame.node /\ n = nodes[here] /\ nodes[here].right = r /\ TypeInv /\ here \in NodeId
      /\ Mates(settled, tops, live, above, place, here, r)
  BY <1>1, <1>2, UnderflowFacts
<1>4. seam \in Seq(KeyType) /\ Len(seam) = 1
  <2>1. n.parent \in NodeId \cup {Nil}
    BY <1>3 DEF TypeInv, TypeOK, isHeap, isNode
  <2>2. n.parent # Nil
    BY <1>2 DEF Underflowed, isRoot
  <2>3. pivots \in Seq(KeyType)
    BY <2>1, <2>2, <1>3 DEF TypeInv, TypeOK, isHeap, isNode
  <2> HIDE DEF pivots, k
  <2>4. pivots[k] \in KeyType
    BY <2>3, <1>2
  <2> QED BY <2>4
<1>5. nodes' = merged(nodes, here, r, seam)
  BY <1>2, <1>3
<1>6. /\ Mates(settled, tops, live, above, i, here, r) /\ here \in {here, r} /\ mate(here) \in {here, r}
      /\ ~isBorrowable(nodes[mate(here)])
      /\ c.node = r /\ c.type = "MergeRight" /\ i = place
  BY <1>2, <1>3
<1> HIDE DEF i, r, c, seam
<1> QED BY ONLY ShapeInv, TypeInv', <1>1, <1>2, <1>4, <1>5, <1>6, InternalJoinShape

\* A leaf too short of entries merges with the sibling that it asks.
LEMMA LeafJoinShape ==
  ASSUME ShapeInv, TypeInv', Removes, starved, NEW h, Shape(h), matched(call.node),
         ~isBorrowable(nodes[mate(here)]),
         NEW i, NEW l, NEW r, Mates(settled, tops, live, above, i, l, r),
         here \in {l, r}, mate(here) \in {l, r}, nodes' = merged(shrunk, l, r, << >>),
         NEW c, c.node = r, Give(Restructured, c),
         \/ c.type = "MergeLeft" /\ i = place - 1
         \/ c.type = "MergeRight" /\ i = place,
         stack' = stack, allocated' = allocated
  PROVE  ShapeInv'
<1> DEFINE s == mate(here)
           n == erased(target)
<1>1. /\ TypeInv /\ running /\ here = call.node /\ outer = stack /\ outer # << >>
      /\ target = nodes[here] /\ here \in live /\ here \in NodeId /\ nodes[here].leaf
      /\ isNode(nodes[here])
      /\ size(n) \in Nat /\ size(n) < least
      /\ s \in live /\ s \in NodeId /\ s # here /\ isNode(nodes[s]) /\ nodes[s].leaf
      /\ size(nodes[s]) \in least .. (Fanout - 1)
  BY StarvedFacts
<1>2. /\ \A f \in {"leaf", "children", "parent", "left", "right"} : n[f] = nodes[here][f]
      /\ isNode(n)
  BY <1>1, ErasedLinks, ErasedType DEF Removes
<1> HIDE DEF s, n
<1>3. (l = here /\ r = s) \/ (l = s /\ r = here)
  <2>1. Tree(settled, tops, live, h) /\ Nil \notin live
    BY <1>1, LiveIds DEF Shape
  <2>2. l # r
    BY <2>1, MateFacts
  <2> QED BY <2>2, <1>1 DEF s
<1>4. isTable(nodes) /\ DOMAIN n = fields
  BY <1>1, <1>2, HeapTable DEF TypeInv, TypeOK, isNode, fields
<1>5. isTable(shrunk) /\ \A q \in NodeId : shrunk[q] = IF q = here THEN n ELSE nodes[q]
  <2>1. shrunk = [nodes EXCEPT ![here] = n]
    BY <1>1 DEF shrunk, n
  <2> QED BY <2>1, <1>1, <1>4 DEF isTable
<1>6. Len(shrunk[l].keys \o << >> \o shrunk[r].keys) \in least .. (Fanout - 1)
  <2>1. shrunk[l].keys \in Seq(KeyType) /\ shrunk[r].keys \in Seq(KeyType) /\ << >> \in Seq(KeyType)
    BY <1>1, <1>2, <1>3, <1>5 DEF isNode
  <2>2. Len(shrunk[l].keys \o << >> \o shrunk[r].keys) = size(shrunk[l]) + Len(<< >>) + size(shrunk[r])
    <3> DEFINE a == shrunk[l].keys
               b == shrunk[r].keys
    <3>1. a \in Seq(KeyType) /\ b \in Seq(KeyType)
      BY <2>1
    <3> HIDE DEF a, b
    <3>2. Len(a \o << >> \o b) = Len(a) + Len(<< >>) + Len(b)
      BY <3>1, SeamLength
    <3> QED BY <3>2 DEF size, a, b
  <2>3. size(nodes[s]) \in Nat /\ size(nodes[s]) <= Fanout \div 2 /\ size(nodes[s]) >= least
    BY <1>1, SizeAssumption DEF isBorrowable, s, least
  <2>4. size(n) + size(nodes[s]) + 0 \in least .. (Fanout - 1)
    BY <2>3, <1>1, MergeSizes
  <2>5. size(shrunk[l]) + Len(<< >>) + size(shrunk[r]) = size(n) + size(nodes[s]) + 0
    <3>1. \/ shrunk[l] = n /\ shrunk[r] = nodes[s]
          \/ shrunk[r] = n /\ shrunk[l] = nodes[s]
      BY <1>1, <1>3, <1>5
    <3>2. Len(<< >>) = 0
      OBVIOUS
    <3> QED BY <3>1, <3>2, <2>3, <1>1
  <2> QED BY <2>2, <2>4, <2>5
<1>7. \A q \in NodeId : /\ \A f \in {"leaf", "parent", "left", "right", "children"} : shrunk[q][f] = nodes[q][f]
                        /\ q \notin {l, r} => size(shrunk[q]) = size(nodes[q])
  BY <1>2, <1>3, <1>5
<1> DEFINE seam == << >>
           t == shrunk
<1>8. Joins(t, l, r, seam)
  BY <1>5, <1>6, <1>7 DEF Joins
<1> HIDE DEF t, seam
<1>9. nodes[l].leaf = nodes[r].leaf
  <2>1. nodes[here].leaf = TRUE /\ nodes[s].leaf = TRUE
    BY <1>1 DEF isNode
  <2> QED BY <2>1, <1>3
<1>10. /\ pc' = "return" /\ stack' = outer /\ change'.node = r /\ err' # "Success"
       /\ rootNode' = rootNode /\ orphans' = orphans
       /\ \/ change'.type = "MergeLeft" /\ i = place - 1
          \/ change'.type = "MergeRight" /\ i = place
  BY <1>1 DEF Give, history, Restructured
<1>11. running /\ outer # << >>
  BY <1>1
<1> QED BY ONLY ShapeInv, TypeInv', Shape(h), Mates(settled, tops, live, above, i, l, r), here \in {l, r},
               allocated' = allocated, <1>8, <1>9, <1>10, <1>11, JoinShape

\* A leaf moves into its left sibling.
LEMMA MergeLeafLeftShape ==
  ASSUME ShapeInv, TypeInv', MergeLeafLeft
  PROVE  ShapeInv'
<1> DEFINE c == [key |-> NoKey, node |-> call.node, type |-> "MergeLeft"]
           l == mate(here)
           i == place - 1
<1>1. PICK h : Shape(h)
  BY DEF ShapeInv
<1>2. /\ Removes /\ starved /\ matched(call.node) /\ asksLeft(call.node) /\ ~isBorrowable(nodes[mate(call.node)])
      /\ nodes' = merged(shrunk, target.left, call.node, << >>) /\ Give(Restructured, c)
      /\ stack' = stack /\ allocated' = allocated
  BY DEF MergeLeafLeft, mergesLeft
<1>3. /\ here = call.node /\ target = nodes[here] /\ nodes[here].left = l
      /\ Mates(settled, tops, live, above, place - 1, l, here)
  BY <1>1, <1>2, StarvedFacts
<1>4. nodes' = merged(shrunk, l, here, << >>)
  BY <1>2, <1>3
<1>5. /\ Mates(settled, tops, live, above, i, l, here) /\ here \in {l, here} /\ mate(here) \in {l, here}
      /\ ~isBorrowable(nodes[mate(here)])
      /\ c.node = here /\ c.type = "MergeLeft" /\ i = place - 1
  BY <1>2, <1>3
<1> HIDE DEF i, l, c
<1> QED BY ONLY ShapeInv, TypeInv', <1>1, <1>2, <1>4, <1>5, LeafJoinShape

\* A leaf takes in its right sibling.
LEMMA MergeLeafRightShape ==
  ASSUME ShapeInv, TypeInv', MergeLeafRight
  PROVE  ShapeInv'
<1> DEFINE c == [key |-> NoKey, node |-> target.right, type |-> "MergeRight"]
           r == mate(here)
           i == place
<1>1. PICK h : Shape(h)
  BY DEF ShapeInv
<1>2. /\ Removes /\ starved /\ matched(call.node) /\ ~asksLeft(call.node) /\ ~isBorrowable(nodes[mate(call.node)])
      /\ nodes' = merged(shrunk, call.node, target.right, << >>) /\ Give(Restructured, c)
      /\ stack' = stack /\ allocated' = allocated
  BY DEF MergeLeafRight, mergesRight
<1>3. /\ here = call.node /\ target = nodes[here] /\ nodes[here].right = r
      /\ Mates(settled, tops, live, above, place, here, r)
  BY <1>1, <1>2, StarvedFacts
<1>4. nodes' = merged(shrunk, here, r, << >>)
  BY <1>2, <1>3
<1>5. /\ Mates(settled, tops, live, above, i, here, r) /\ here \in {here, r} /\ mate(here) \in {here, r}
      /\ ~isBorrowable(nodes[mate(here)])
      /\ c.node = r /\ c.type = "MergeRight" /\ i = place
  BY <1>2, <1>3
<1> HIDE DEF i, r, c
<1> QED BY ONLY ShapeInv, TypeInv', <1>1, <1>2, <1>4, <1>5, LeafJoinShape

-----------------------------------------------------------------------------
(* The root *)

\* A call that has left the tree: nothing is pending, and each node has its share.
LEMMA LeaveShape ==
  ASSUME TypeInv', pc' = "idle", change' = NoChange, stack' = << >>, orphans' \subseteq allocated', Childless',
         NEW g \in [NodeId \cup {Nil} -> Nat],
         LET L == allocated' \ orphans'
             T == IF rootNode' = Nil THEN << >> ELSE <<rootNode'>>
         IN /\ Tree(nodes', T, L, g)
            /\ \A q \in L : filled(nodes', T, q)
            /\ rootNode' = Nil \/ branches(nodes', rootNode')
  PROVE  ShapeInv'
<1>1. /\ settled' = nodes' /\ live' = allocated' \ orphans' /\ unsettled' = {}
      /\ tops' = IF rootNode' = Nil THEN << >> ELSE <<rootNode'>>
  BY DEF settled, live, tops, unsettled, mending, pending
<1>2. Frames(g)'
  BY DEF Frames
<1>3. Flow'
  BY DEF Flow, NoChange
<1>4. Sizes' /\ Shape(g)'
  BY <1>1, <1>2 DEF Sizes, Shape
<1> QED BY <1>3, <1>4 DEF ShapeInv

\* The last entry is gone: the root that was a leaf is deleted.
LEMMA DeleteRootLeafShape ==
  ASSUME ShapeInv, TypeInv', DeleteRootLeaf
  PROVE  ShapeInv'
<1>1. PICK h : Shape(h)
  BY DEF ShapeInv
<1>2. /\ Returned /\ change.node = Nil /\ size(root) = 0 /\ root.leaf
      /\ nodes' = [nodes EXCEPT ![rootNode] = NewLeaf] /\ allocated' = allocated \ {rootNode} /\ rootNode' = Nil
      /\ pc' = "idle" /\ change' = NoChange /\ orphans' = orphans /\ stack' = stack
  BY DEF DeleteRootLeaf, Leave
<1>3. /\ TypeInv /\ Flow /\ Childless /\ settled = nodes /\ live = allocated \ orphans
      /\ stack = << >> /\ rootNode # Nil /\ rootNode \in live
      /\ live \subseteq NodeId /\ Nil \notin live
      /\ Tree(settled, tops, live, h) /\ tops = <<rootNode>>
  BY <1>1, <1>2, RootReturned
<1>4. live = {rootNode}
  <2>1. nodes[rootNode].children = << >>
    BY <1>2, <1>3 DEF root, Childless
  <2>2. deg(settled, tops, Nil) = 1 /\ kid(settled, tops, Nil, 1) = rootNode /\ deg(settled, tops, rootNode) = 0
    BY <2>1, <1>3 DEF deg, kid, kids
  <2> QED BY <2>2, <1>3, LoneLeaf
<1>5. allocated' \ orphans' = {}
  BY <1>2, <1>3, <1>4
<1> DEFINE g == [q \in NodeId \cup {Nil} |-> 0]
<1>6. g \in [NodeId \cup {Nil} -> Nat] /\ g[Nil] = 0
  OBVIOUS
<1> HIDE DEF g
<1>7. deg(nodes', << >>, Nil) = 0
  BY DEF deg, kids
<1>8. Tree(nodes', << >>, {}, g)
  BY <1>6, <1>7, FellTree
<1>9. orphans' \subseteq allocated'
  BY <1>2, <1>3 DEF Flow
<1>10. Childless'
  BY <1>2, <1>3 DEF Childless, NewLeaf, TypeInv, TypeOK, isHeap
<1> QED BY <1>2, <1>3, <1>5, <1>6, <1>8, <1>9, <1>10, LeaveShape

\* Two nodes at the top get a common root.
LEMMA SplitRootShape ==
  ASSUME ShapeInv, TypeInv', SplitRoot
  PROVE  ShapeInv'
<1> DEFINE other == change.node
           top == [NewLeaf EXCEPT !.leaf = FALSE, !.keys = <<change.key>>,
                                  !.children = <<rootNode, other>>, !.lowest = root.lowest]
           pair == {rootNode, other}
<1>1. PICK h : Shape(h)
  BY DEF ShapeInv
<1>2. /\ Returned /\ other # Nil
      /\ pc' = "idle" /\ change' = NoChange /\ orphans' = orphans /\ stack' = stack
  BY DEF SplitRoot, Leave
<1>3. PICK id \in NodeId : /\ isFresh(id) /\ allocated' = allocated \cup {id} /\ rootNode' = id
                           /\ nodes' = reparent([nodes EXCEPT ![id] = top], pair, id)
  BY DEF SplitRoot
<1> DEFINE base == [nodes EXCEPT ![id] = top]
<1>4. /\ TypeInv /\ Flow /\ Sizes /\ Childless /\ settled = nodes /\ live = allocated \ orphans
      /\ stack = << >> /\ unsettled = {} /\ rootNode # Nil /\ rootNode \in live
      /\ live \subseteq NodeId /\ Nil \notin live
      /\ Tree(settled, tops, live, h) /\ tops = <<rootNode, other>>
  BY <1>1, <1>2, RootReturned
<1>5. id \notin live /\ id # Nil /\ id \notin orphans
  BY <1>3, <1>4, LiveIds DEF isFresh, isLeast, Flow
<1>6. /\ deg(settled, tops, Nil) = 2 /\ kid(settled, tops, Nil, 1) = rootNode /\ kid(settled, tops, Nil, 2) = other
  BY <1>4 DEF deg, kid, kids
<1>7. other \in live /\ \A q \in live : q \in pair <=> up(settled, q) = Nil
  <2>1. /\ other \in live /\ up(settled, rootNode) = Nil /\ up(settled, other) = Nil
    BY <1>4, <1>6 DEF Tree, Downward
  <2>2. ASSUME NEW q \in live, up(settled, q) = Nil PROVE q \in pair
    <3>1. \E i \in 1 .. deg(settled, tops, Nil) : kid(settled, tops, Nil, i) = q
      BY <2>2, <1>4 DEF Tree, Upward
    <3> QED BY <3>1, <1>6
  <2> QED BY <2>1, <2>2
<1>8. /\ DOMAIN top = fields /\ top.leaf = FALSE /\ top.children = <<rootNode, other>> /\ size(top) = 1
      /\ top.parent = Nil /\ top.left = Nil /\ top.right = Nil
  BY DEF NewLeaf, fields, size
<1> HIDE DEF top
<1>9. isTable(base) /\ \A q \in NodeId : base[q] = IF q = id THEN top ELSE nodes[q]
  <2>1. isTable(nodes)
    BY <1>4, HeapTable DEF TypeInv, TypeOK
  <2> QED BY <2>1, <1>8 DEF isTable
<1> HIDE DEF base
<1>10. \A q \in NodeId : /\ \A f \in fields \ {"parent"} : nodes'[q][f] = base[q][f]
                         /\ nodes'[q].parent = IF q \in pair THEN id ELSE base[q].parent
  <2>1. nodes' = reparent(base, pair, id)
    BY <1>3 DEF base
  <2> HIDE DEF pair
  <2> QED BY <2>1, <1>9, ReparentFields
<1>11. \A q \in NodeId : /\ nodes'[q].leaf = base[q].leaf /\ nodes'[q].children = base[q].children
                         /\ nodes'[q].left = base[q].left /\ nodes'[q].right = base[q].right
                         /\ size(nodes'[q]) = size(base[q])
  BY <1>10 DEF fields, size
<1>12. /\ nodes'[id].leaf = FALSE /\ nodes'[id].children = <<rootNode, other>> /\ size(nodes'[id]) = 1
       /\ nodes'[id].parent = Nil /\ nodes'[id].left = Nil /\ nodes'[id].right = Nil
  BY <1>4, <1>5, <1>7, <1>8, <1>9, <1>10, <1>11
<1>13. \A q \in NodeId : q # id =>
         /\ nodes'[q].leaf = nodes[q].leaf /\ nodes'[q].children = nodes[q].children
         /\ nodes'[q].left = nodes[q].left /\ nodes'[q].right = nodes[q].right
         /\ size(nodes'[q]) = size(nodes[q])
         /\ nodes'[q].parent = IF q \in pair THEN id ELSE nodes[q].parent
  BY <1>9, <1>10, <1>11
<1> HIDE DEF pair
<1> DEFINE g == [h EXCEPT ![id] = h[Nil], ![Nil] = h[Nil] + 1]
           T == <<id>>
           L == live \cup {id}
<1>14. /\ g \in [NodeId \cup {Nil} -> Nat]
       /\ g[id] = h[Nil] /\ g[Nil] = h[Nil] + 1 /\ \A q \in live : g[q] = h[q]
  BY <1>1, <1>3, <1>4, <1>5 DEF Shape
<1> HIDE DEF g
<1>15. Grown(settled, tops, h, nodes', T, g, live, id)
  <2>1. deg(nodes', T, Nil) = 1 /\ kid(nodes', T, Nil, 1) = id
    BY DEF deg, kid, kids
  <2>2. kids(nodes', T, id) = tops /\ kids(settled, tops, Nil) = tops
    BY <1>4, <1>5, <1>12 DEF kids
  <2>3. deg(nodes', T, id) = deg(settled, tops, Nil)
        /\ \A j \in 1 .. deg(settled, tops, Nil) : kid(nodes', T, id, j) = kid(settled, tops, Nil, j)
    BY <2>2 DEF deg, kid
  <2>4. \A q \in live : kids(nodes', T, q) = kids(settled, tops, q)
    BY <1>4, <1>5, <1>13 DEF kids
  <2>5. \A q \in live : /\ deg(nodes', T, q) = deg(settled, tops, q)
                        /\ \A j \in 1 .. deg(settled, tops, q) : kid(nodes', T, q, j) = kid(settled, tops, q, j)
    BY <2>4 DEF deg, kid
  <2>6. \A q \in live \cup {Nil} : lft(nodes', q) = lft(settled, q) /\ rgt(nodes', q) = rgt(settled, q)
    BY <1>4, <1>5, <1>13 DEF lft, rgt
  <2>7. lft(nodes', id) = Nil /\ rgt(nodes', id) = Nil /\ up(nodes', id) = Nil
    BY <1>12 DEF lft, rgt, up
  <2>8. \A q \in live : up(nodes', q) = IF up(settled, q) = Nil THEN id ELSE up(settled, q)
    BY <1>4, <1>5, <1>7, <1>13 DEF up
  <2> HIDE DEF T
  <2>9. deg(settled, tops, Nil) > 0
    BY <1>6
  <2> QED BY ONLY <2>1, <2>3, <2>5, <2>6, <2>7, <2>8, <2>9, <1>5, <1>14 DEF Grown
<1>16. Tree(nodes', T, L, g)
  <2> HIDE DEF T
  <2> QED BY <1>4, <1>15, GrowTree
<1>17. ASSUME NEW q \in L PROVE filled(nodes', T, q)
  <2>1. CASE q = id
    <3>1. 1 < Fanout
      BY SizeAssumption
    <3> QED BY <2>1, <3>1, <1>12 DEF filled
  <2>2. CASE q # id
    <3>1. q \in live /\ filled(settled, tops, q)
      BY <2>2, <1>4 DEF Sizes
    <3>2. \A x : tops # <<x>>
      BY <1>4
    <3>3. size(nodes[q]) < Fanout /\ size(nodes[q]) >= least
      BY <3>1, <3>2, <1>4 DEF filled
    <3>4. size(nodes'[q]) = size(nodes[q])
      BY <3>1, <2>2, <1>4, <1>13
    <3> QED BY <3>3, <3>4 DEF filled
  <2> QED BY <2>1, <2>2
<1>18. branches(nodes', id)
  BY <1>12 DEF branches
<1>19. allocated' \ orphans' = L /\ orphans' \subseteq allocated'
  BY <1>2, <1>3, <1>4, <1>5 DEF Flow
<1>20. Childless'
  <2> SUFFICES ASSUME NEW q \in NodeId, nodes'[q].leaf PROVE nodes'[q].children = << >>
    BY DEF Childless
  <2>1. q # id
    BY <1>12
  <2> QED BY <2>1, <1>4, <1>13 DEF Childless
<1>21. (IF rootNode' = Nil THEN << >> ELSE <<rootNode'>>) = T
  BY <1>3, <1>5
<1> HIDE DEF T, L
<1> QED BY <1>2, <1>3, <1>4, <1>14, <1>16, <1>17, <1>18, <1>19, <1>20, <1>21, LeaveShape

\* The only child of the root takes its place.
LEMMA CollapseRootShape ==
  ASSUME ShapeInv, TypeInv', CollapseRoot
  PROVE  ShapeInv'
<1> DEFINE crowned == [nodes[heir] EXCEPT !.parent = Nil, !.left = Nil, !.right = Nil,
                                          !.buffer = overlay(root.buffer, @)]
           c == heir
           t == rootNode
<1>1. PICK h : Shape(h)
  BY DEF ShapeInv
<1>2. /\ Returned /\ change.node = Nil /\ size(root) = 0 /\ ~root.leaf /\ ~nodes[c].leaf
      /\ nodes' = [nodes EXCEPT ![c] = crowned, ![t].buffer = << >>]
      /\ rootNode' = c /\ allocated' = allocated /\ orphans' = orphans \cup {t}
      /\ pc' = "idle" /\ change' = NoChange /\ stack' = stack
  BY DEF CollapseRoot, Leave
<1>3. /\ TypeInv /\ Flow /\ Sizes /\ Childless /\ settled = nodes /\ live = allocated \ orphans
      /\ stack = << >> /\ unsettled = {} /\ t # Nil /\ t \in live
      /\ live \subseteq NodeId /\ Nil \notin live
      /\ Tree(settled, tops, live, h) /\ tops = <<t>>
  BY <1>1, <1>2, RootReturned
<1>4. /\ deg(settled, tops, Nil) = 1 /\ kid(settled, tops, Nil, 1) = t
      /\ deg(settled, tops, t) = 1 /\ kid(settled, tops, t, 1) = c
  <2>1. Len(nodes[t].children) = 1
    BY <1>2, <1>3, NodeFacts DEF root
  <2> QED BY <2>1, <1>3 DEF deg, kid, kids, heir, root
<1>5. c \in live /\ c # t /\ c # Nil /\ up(settled, c) = t /\ up(settled, t) = Nil /\ h[Nil] = h[t] + 1 /\ h[t] \in Nat
  <2>1. c \in live /\ up(settled, c) = t /\ up(settled, t) = Nil
    BY <1>3, <1>4 DEF Tree, Downward
  <2>2. h[t] = h[c] + 1 /\ h[Nil] = h[t] + 1 /\ h[t] \in Nat /\ h[c] \in Nat
    BY <2>1, <1>3, <1>4 DEF Tree, Levels
  <2> QED BY <2>1, <2>2, <1>3
<1>6. /\ DOMAIN crowned = fields
      /\ crowned.parent = Nil /\ crowned.left = Nil /\ crowned.right = Nil
      /\ \A f \in {"leaf", "keys", "children"} : crowned[f] = nodes[c][f]
  BY <1>3, <1>5 DEF TypeInv, TypeOK, isHeap, isNode, fields
<1> HIDE DEF crowned
<1>7. \A q \in NodeId :
        /\ \A f \in {"leaf", "keys", "children"} : nodes'[q][f] = nodes[q][f]
        /\ q # c => \A f \in {"parent", "left", "right"} : nodes'[q][f] = nodes[q][f]
  <2> DEFINE u == [nodes EXCEPT ![c] = crowned]
  <2>1. isTable(nodes)
    BY <1>3, HeapTable DEF TypeInv, TypeOK
  <2>2. isTable(u) /\ \A q \in NodeId : u[q] = IF q = c THEN crowned ELSE nodes[q]
    BY <2>1, <1>6 DEF isTable
  <2>3. nodes' = [u EXCEPT ![t].buffer = << >>]
    BY <1>2
  <2> HIDE DEF u
  <2>4. \A q \in NodeId : \A f \in fields \ {"buffer"} : nodes'[q][f] = u[q][f]
    BY <2>2, <2>3 DEF isTable, fields
  <2>5. {"leaf", "keys", "children", "parent", "left", "right"} \subseteq fields \ {"buffer"}
    BY DEF fields
  <2>6. \A q \in NodeId : \A f \in {"leaf", "keys", "children", "parent", "left", "right"} : nodes'[q][f] = u[q][f]
    BY <2>4, <2>5
  <2> QED BY <2>2, <2>6, <1>6
<1>8. nodes'[c].parent = Nil /\ nodes'[c].left = Nil /\ nodes'[c].right = Nil
  <2> DEFINE u == [nodes EXCEPT ![c] = crowned]
  <2>1. isTable(nodes)
    BY <1>3, HeapTable DEF TypeInv, TypeOK
  <2>2. c \in NodeId /\ c # t
    BY <1>3, <1>5
  <2>3. nodes'[c] = crowned
    BY <2>1, <2>2, <1>2 DEF isTable
  <2> QED BY <2>3, <1>6
<1>9. \A q \in NodeId : size(nodes'[q]) = size(nodes[q]) /\ nodes'[q].leaf = nodes[q].leaf
                        /\ nodes'[q].children = nodes[q].children
  BY <1>7 DEF size
<1> HIDE DEF c, t
<1> DEFINE g == [h EXCEPT ![Nil] = h[Nil] - 1]
           T == <<c>>
           L == live \ {t}
<1>10. /\ g \in [NodeId \cup {Nil} -> Nat] /\ g[Nil] = h[Nil] - 1 /\ \A q \in live : g[q] = h[q]
  BY <1>1, <1>3, <1>5 DEF Shape
<1> HIDE DEF g
<1>11. Collapsed(settled, tops, h, nodes', T, g, live, t, c)
  <2>1. deg(nodes', T, Nil) = 1 /\ kid(nodes', T, Nil, 1) = c
    BY DEF deg, kid, kids
  <2>2. \A q \in live \ {t} : kids(nodes', T, q) = kids(settled, tops, q)
    BY <1>3, <1>9 DEF kids
  <2>3. \A q \in live \ {t} : /\ deg(nodes', T, q) = deg(settled, tops, q)
                              /\ \A j \in 1 .. deg(settled, tops, q) : kid(nodes', T, q, j) = kid(settled, tops, q, j)
    BY <2>2 DEF deg, kid
  <2>4. \A q \in (live \cup {Nil}) \ {c} : lft(nodes', q) = lft(settled, q) /\ rgt(nodes', q) = rgt(settled, q)
    BY <1>3, <1>7 DEF lft, rgt
  <2>5. lft(nodes', c) = Nil /\ rgt(nodes', c) = Nil /\ up(nodes', c) = Nil
    BY <1>8 DEF lft, rgt, up
  <2>6. \A q \in live \ {c} : up(nodes', q) = up(settled, q)
    BY <1>3, <1>7 DEF up
  <2> HIDE DEF T
  <2> QED BY ONLY <2>1, <2>3, <2>4, <2>5, <2>6, <1>4, <1>10 DEF Collapsed
<1>12. Tree(nodes', T, L, g)
  <2> HIDE DEF T
  <2> QED BY <1>3, <1>11, CollapseTree
<1>13. ASSUME NEW q \in L PROVE size(nodes[q]) < Fanout /\ size(nodes[q]) >= least
  <2>1. q \in live /\ q # t /\ filled(settled, tops, q)
    BY <1>3 DEF Sizes
  <2>2. tops # <<q>>
    BY <2>1, <1>3
  <2>3. ~(nodes[q].leaf /\ tops = <<nodes[q].parent>>)
    <3> SUFFICES ASSUME nodes[q].leaf, nodes[q].parent = t PROVE FALSE
      BY <1>3
    <3>1. \E i \in 1 .. deg(settled, tops, t) : kid(settled, tops, t, i) = q
      BY <2>1, <1>3 DEF Tree, Upward, up
    <3>2. q = c
      BY <3>1, <1>4
    <3> QED BY <3>2, <1>2 DEF c
  <2> QED BY <2>1, <2>2, <2>3, <1>3 DEF filled
<1>14. \A q \in L : filled(nodes', T, q)
  BY <1>3, <1>9, <1>13 DEF filled
<1>15. branches(nodes', c)
  <2>1. c \in L /\ size(nodes'[c]) = size(nodes[c])
    BY <1>3, <1>5, <1>9
  <2>2. size(nodes[c]) >= least
    BY <2>1, <1>13
  <2> QED BY <2>1, <2>2, SizeAssumption DEF branches, least
<1>16. allocated' \ orphans' = L /\ orphans' \subseteq allocated'
  BY <1>2, <1>3 DEF Flow, t
<1>17. Childless'
  BY <1>3, <1>9 DEF Childless
<1>18. (IF rootNode' = Nil THEN << >> ELSE <<rootNode'>>) = T
  BY <1>2, <1>5 DEF c
<1>19. rootNode' = c
  BY <1>2 DEF c
<1> HIDE DEF T, L
<1> QED BY <1>2, <1>3, <1>10, <1>12, <1>14, <1>15, <1>16, <1>17, <1>18, <1>19, LeaveShape

-----------------------------------------------------------------------------
(* The theorems *)

\* Every step keeps the shape: one lemma above for each action.
LEMMA ShapeStep ==
  ASSUME ShapeInv, TypeInv', [Next]_vars
  PROVE  ShapeInv'
<1>1. CASE InternalStep
  BY <1>1, BufferMessageShape, StartFlushShape, PassMessageShape, ChildReturnsShape, EndFlushShape,
     SplitInternalShape, RedistributeInternalLeftShape, RedistributeInternalRightShape,
     MergeInternalLeftShape, MergeInternalRightShape DEF InternalStep
<1>2. CASE LeafStep
  BY <1>2, InsertInLeafShape, SplitLeafShape, RemoveMissingShape, RemoveFromLeafShape,
     RedistributeLeafLeftShape, RedistributeLeafRightShape, MergeLeafLeftShape, MergeLeafRightShape DEF LeafStep
<1>3. CASE RootStep
  BY <1>3, SplitRootShape, DeleteRootLeafShape, CollapseRootShape, FinishShape DEF RootStep
<1>4. CASE \E p \in Insertable : StartInsertEmpty(p[1], p[2]) \/ StartInsert(p[1], p[2])
  BY <1>4, StartInsertEmptyShape, StartInsertShape
<1>5. CASE \E k \in Key : StartRemove(k) \/ Search(k)
  <2>1. PICK k \in Key : StartRemove(k) \/ Search(k)
    BY <1>5
  <2>2. CASE StartRemove(k)
    BY <2>2, StartRemoveShape
  <2>3. CASE Search(k)
    BY <2>3, StutterShape DEF Search
  <2> QED BY <2>1, <2>2, <2>3
<1>6. CASE UNCHANGED vars
  BY <1>6, StutterShape
<1> QED BY <1>1, <1>2, <1>3, <1>4, <1>5, <1>6 DEF Next, Step

\* The tree keeps its shape, in every state of every call.
THEOREM ShapeKept == Spec => []ShapeInv
<1>1. Init => ShapeInv
  BY InitShape
<1>2. ShapeInv /\ [Next]_vars => ShapeInv'
  BY StepType, ShapeStep DEF ShapeInv
<1> QED
  BY <1>1, <1>2, PTL DEF Spec

\* A child that was restructured never reports Success: the flush stops there.
THEOREM RestructuringStops == Spec => []RestructuringStopsFlush
<1>1. ShapeInv => RestructuringStopsFlush
  BY DEF ShapeInv, Flow, RestructuringStopsFlush
<1> QED
  BY <1>1, ShapeKept, PTL

\* handleUnderflow of an internal node always finds a sibling.
THEOREM SiblingFound == Spec => []UnderflowHasSibling
<1>1. ShapeInv => UnderflowHasSibling
  BY UnderflowMate DEF UnderflowHasSibling
<1> QED
  BY <1>1, ShapeKept, PTL

-----------------------------------------------------------------------------
(* What the root reaches *)

\* The children of a node are nodes.
LEMMA ChildrenOfIds ==
  ASSUME TypeInv
  PROVE  \A x \in NodeId : childrenOf(x) \subseteq NodeId
<1> SUFFICES ASSUME NEW x \in NodeId PROVE childrenOf(x) \subseteq NodeId
  OBVIOUS
<1>1. nodes[x].children \in Seq(NodeId)
  BY DEF TypeInv, TypeOK, isHeap, isNode
<1> QED BY <1>1 DEF childrenOf, ToSet

\* The recursive definition of a subtree has a solution, whatever the links.
LEMMA SubtreeEquation ==
  ASSUME TypeInv
  PROVE  \A x \in NodeId : subtree[x] = {x} \cup UNION {subtree[c] : c \in childrenOf(x)}
<1> DEFINE closed(S) == \A y \in S : childrenOf(y) \subseteq S
           R(x) == {y \in NodeId : \A S \in SUBSET NodeId : x \in S /\ closed(S) => y \in S}
           f == [x \in NodeId |-> R(x)]
<1>1. \A x \in NodeId : childrenOf(x) \subseteq NodeId
  BY ChildrenOfIds
<1>2. ASSUME NEW x \in NodeId PROVE R(x) = {x} \cup UNION {R(c) : c \in childrenOf(x)}
  <2> DEFINE U == {x} \cup UNION {R(c) : c \in childrenOf(x)}
  <2>1. U \subseteq R(x)
    <3>1. x \in R(x)
      OBVIOUS
    <3>2. ASSUME NEW c \in childrenOf(x), NEW y \in R(c) PROVE y \in R(x)
      <4>1. y \in NodeId /\ \A S \in SUBSET NodeId : c \in S /\ closed(S) => y \in S
        OBVIOUS
      <4>2. ASSUME NEW S \in SUBSET NodeId, x \in S, closed(S) PROVE y \in S
        <5>1. c \in S
          BY <4>2
        <5> QED BY <4>1, <4>2, <5>1
      <4> QED BY <4>1, <4>2
    <3> QED BY <3>1, <3>2
  <2>2. U \in SUBSET NodeId /\ x \in U
    OBVIOUS
  <2>3. ASSUME NEW y \in U, NEW z \in childrenOf(y) PROVE z \in U
    <3>1. CASE y = x
      <4>1. z \in NodeId /\ z \in childrenOf(x)
        BY <3>1, <2>3, <1>1
      <4>2. z \in R(z)
        BY <4>1
      <4> QED BY <4>1, <4>2
    <3>2. CASE y # x
      <4>1. PICK c \in childrenOf(x) : y \in R(c)
        BY <3>2
      <4>2. y \in NodeId /\ \A S \in SUBSET NodeId : c \in S /\ closed(S) => y \in S
        BY <4>1
      <4>3. z \in NodeId
        BY <4>2, <2>3, <1>1
      <4>4. ASSUME NEW S \in SUBSET NodeId, c \in S, closed(S) PROVE z \in S
        <5>1. y \in S
          BY <4>2, <4>4
        <5> QED BY <5>1, <4>4, <2>3
      <4>5. z \in R(c)
        BY <4>3, <4>4
      <4> QED BY <4>1, <4>5
    <3> QED BY <3>1, <3>2
  <2>4. closed(U)
    BY <2>3
  <2> HIDE DEF U
  <2>5. R(x) \subseteq U
    BY <2>2, <2>4
  <2> QED BY <2>1, <2>5 DEF U
<1> HIDE DEF R
<1>3. f = [x \in NodeId |-> {x} \cup UNION {f[c] : c \in childrenOf(x)}]
  <2>1. ASSUME NEW x \in NodeId PROVE f[x] = {x} \cup UNION {f[c] : c \in childrenOf(x)}
    <3>1. \A c \in childrenOf(x) : f[c] = R(c)
      BY <1>1
    <3>2. {f[c] : c \in childrenOf(x)} = {R(c) : c \in childrenOf(x)}
      BY <3>1
    <3>3. f[x] = R(x)
      OBVIOUS
    <3> QED BY <3>2, <3>3, <1>2
  <2> QED BY <2>1
<1> HIDE DEF f
<1> DEFINE Fixed(s) == s = [x \in NodeId |-> {x} \cup UNION {s[c] : c \in childrenOf(x)}]
<1>4. subtree = CHOOSE s : Fixed(s)
  BY DEF subtree
<1>5. \E s : Fixed(s)
  BY <1>3
<1> HIDE DEF Fixed
<1>6. Fixed(subtree)
  BY <1>4, <1>5
<1> QED BY <1>6 DEF Fixed

\* Below a node of the tree there are only nodes of the tree, and all that is below them.
LEMMA SubtreeClosed ==
  ASSUME TypeInv, live \subseteq NodeId, Nil \notin live, NEW T, NEW h, Tree(nodes, T, live, h)
  PROVE  \A x \in live : /\ x \in subtree[x] /\ subtree[x] \subseteq live
                         /\ \A y \in subtree[x] : childrenOf(y) \subseteq subtree[x]
<1> DEFINE P(x) == /\ x \in subtree[x] /\ subtree[x] \subseteq live
                   /\ \A y \in subtree[x] : childrenOf(y) \subseteq subtree[x]
           S == {n \in Nat : \A x \in live : h[x] < n => P(x)}
<1>1. \A x \in live : /\ h[x] \in Nat
                      /\ \A c \in childrenOf(x) : c \in live /\ h[x] = h[c] + 1 /\ h[c] \in Nat
  <2> SUFFICES ASSUME NEW x \in live
               PROVE  /\ h[x] \in Nat
                      /\ \A c \in childrenOf(x) : c \in live /\ h[x] = h[c] + 1 /\ h[c] \in Nat
    OBVIOUS
  <2>1. nodes[x].children \in Seq(NodeId) /\ x # Nil
    BY DEF TypeInv, TypeOK, isHeap, isNode
  <2>2. h[x] \in Nat
    BY DEF Tree, Levels
  <2>3. ASSUME NEW c \in childrenOf(x) PROVE c \in live /\ h[x] = h[c] + 1 /\ h[c] \in Nat
    <3>1. PICK j \in 1 .. deg(nodes, T, x) : c = kid(nodes, T, x, j)
      BY <2>1 DEF childrenOf, ToSet, deg, kid, kids
    <3>2. c \in live /\ h[x] = h[c] + 1
      BY <3>1 DEF Tree, Downward, Levels
    <3> QED BY <3>2 DEF Tree, Levels
  <2> QED BY <2>2, <2>3
<1>2. 0 \in S
  BY <1>1
<1>3. ASSUME NEW n \in Nat, n \in S PROVE n + 1 \in S
  <2> SUFFICES ASSUME NEW x \in live, h[x] < n + 1 PROVE P(x)
    OBVIOUS
  <2>1. subtree[x] = {x} \cup UNION {subtree[c] : c \in childrenOf(x)}
    BY SubtreeEquation
  <2>2. \A c \in childrenOf(x) : c \in live /\ P(c)
    <3> SUFFICES ASSUME NEW c \in childrenOf(x) PROVE c \in live /\ P(c)
      OBVIOUS
    <3>1. c \in live /\ h[x] = h[c] + 1 /\ h[c] \in Nat
      BY <1>1
    <3>2. h[c] < n
      BY <3>1
    <3> QED BY <3>1, <3>2, <1>3
  <2>3. subtree[x] \subseteq live
    BY <2>1, <2>2
  <2>4. ASSUME NEW y \in subtree[x], NEW z \in childrenOf(y) PROVE z \in subtree[x]
    <3>1. CASE y = x
      BY <3>1, <2>1, <2>2, <2>4
    <3>2. CASE y # x
      <4>1. PICK c \in childrenOf(x) : y \in subtree[c]
        BY <3>2, <2>1
      <4>2. z \in subtree[c]
        BY <4>1, <2>2, <2>4
      <4> QED BY <4>1, <4>2, <2>1
    <3> QED BY <3>1, <3>2
  <2> QED BY <2>1, <2>3, <2>4
<1>4. \A n \in Nat : n \in S => n + 1 \in S
  BY <1>3
<1> HIDE DEF S
<1>5. Nat \subseteq S
  BY <1>2, <1>4, SetInduction
<1> SUFFICES ASSUME NEW x \in live PROVE P(x)
  OBVIOUS
<1>6. h[x] + 1 \in S /\ h[x] < h[x] + 1
  BY <1>1, <1>5
<1> QED BY <1>6 DEF S

\* Between two calls the root reaches exactly the live nodes.
LEMMA ReachableLive ==
  ASSUME ShapeInv, pc = "idle"
  PROVE  /\ Reachable = live /\ live = allocated \ orphans /\ orphans \subseteq allocated
         /\ unsettled = {} /\ settled = nodes
         /\ rootNode # Nil => tops = <<rootNode>> /\ nodes[rootNode].parent = Nil
<1>1. PICK h : Shape(h)
  BY DEF ShapeInv
<1>2. /\ TypeInv /\ settled = nodes /\ live = allocated \ orphans /\ orphans \subseteq allocated /\ unsettled = {}
      /\ rootNode = Nil => tops = << >>
      /\ rootNode # Nil => tops = <<rootNode>> /\ rootNode \in live
  BY <1>1, IdleFacts DEF ShapeInv, Flow
<1>3. live \subseteq NodeId /\ Nil \notin live /\ Tree(nodes, tops, live, h)
  BY <1>1, <1>2, LiveIds DEF Shape
<1>4. CASE rootNode = Nil
  <2>1. deg(nodes, tops, Nil) = 0
    BY <1>2, <1>4 DEF deg, kids
  <2>2. live = {}
    BY <2>1, <1>3, LoneLeaf
  <2> QED BY <2>2, <1>2, <1>4 DEF Reachable
<1>5. CASE rootNode # Nil
  <2> DEFINE W == subtree[rootNode]
             S == {n \in Nat : \A q \in live : h[q] + n > h[rootNode] => q \in W}
  <2>1. \A x \in live : /\ x \in subtree[x] /\ subtree[x] \subseteq live
                        /\ \A y \in subtree[x] : childrenOf(y) \subseteq subtree[x]
    BY <1>2, <1>3, SubtreeClosed
  <2>2. rootNode \in W /\ W \subseteq live /\ \A y \in W : childrenOf(y) \subseteq W
    BY <2>1, <1>2, <1>5
  <2> HIDE DEF W
  <2>3. deg(nodes, tops, Nil) = 1 /\ kid(nodes, tops, Nil, 1) = rootNode
    BY <1>2, <1>5 DEF deg, kid, kids
  <2>4. nodes[rootNode].parent = Nil /\ h[Nil] = h[rootNode] + 1 /\ h[rootNode] \in Nat
    BY <2>3, <1>2, <1>3, <1>5 DEF Tree, Downward, Levels, up
  <2>5. \A q \in live : h[q] \in Nat /\ h[q] <= h[rootNode]
    <3>1. \A q \in live : h[q] \in Nat /\ h[q] < h[Nil]
      BY <1>3 DEF Tree, Levels
    <3> QED BY <3>1, <2>4
  <2>6. 0 \in S
    BY <2>4, <2>5
  <2>7. ASSUME NEW n \in Nat, n \in S PROVE n + 1 \in S
    <3> SUFFICES ASSUME NEW q \in live, h[q] + (n + 1) > h[rootNode] PROVE q \in W
      OBVIOUS
    <3> DEFINE p == nodes[q].parent
    <3>1. p \in live \cup {Nil} /\ \E j \in 1 .. deg(nodes, tops, p) : kid(nodes, tops, p, j) = q
      BY <1>3 DEF Tree, Upward, up
    <3> HIDE DEF p
    <3>2. PICK j \in 1 .. deg(nodes, tops, p) : kid(nodes, tops, p, j) = q
      BY <3>1
    <3>3. CASE p = Nil
      BY <3>2, <3>3, <2>2, <2>3
    <3>4. CASE p # Nil
      <4>1. p \in live /\ h[p] = h[q] + 1
        BY <3>1, <3>2, <3>4, <1>3 DEF Tree, Levels
      <4>2. p \in W
        BY <4>1, <2>4, <2>5, <2>7
      <4>3. nodes[p].children \in Seq(NodeId)
        BY <4>1, <1>2, <1>3 DEF TypeInv, TypeOK, isHeap, isNode
      <4>4. q \in childrenOf(p)
        BY <4>3, <3>2, <3>4 DEF childrenOf, ToSet, deg, kid, kids
      <4> QED BY <4>2, <4>4, <2>2
    <3> QED BY <3>3, <3>4
  <2>8. \A n \in Nat : n \in S => n + 1 \in S
    BY <2>7
  <2> HIDE DEF S
  <2>9. Nat \subseteq S
    BY <2>6, <2>8, SetInduction
  <2>10. live \subseteq W
    <3> SUFFICES ASSUME NEW q \in live PROVE q \in W
      OBVIOUS
    <3>1. h[rootNode] + 1 \in S /\ h[q] + (h[rootNode] + 1) > h[rootNode]
      BY <2>4, <2>5, <2>9
    <3> QED BY <3>1 DEF S
  <2> QED BY <2>2, <2>4, <2>10, <1>2, <1>5 DEF Reachable, W
<1> QED BY <1>4, <1>5

\* Between two calls the tree reaches exactly what is allocated, beside the abandoned roots.
THEOREM AllocationKept == Spec => []AllocationExact
<1>1. ShapeInv => AllocationExact
  BY ReachableLive DEF AllocationExact
<1> QED
  BY <1>1, ShapeKept, PTL

\* No node outgrows its fanout, and none but the root, or the one leaf below a root without
\* pivots, has fewer keys than an underflow tolerates.
THEOREM FillKept == Spec => []NodesFilled
<1>1. ShapeInv => NodesFilled
  <2> SUFFICES ASSUME ShapeInv, pc = "idle", NEW id \in Reachable
               PROVE  /\ size(nodes[id]) < Fanout
                      /\ \/ size(nodes[id]) >= least
                         \/ isRoot(nodes[id])
                         \/ nodes[id].leaf /\ size(nodes[nodes[id].parent]) = 0
    BY DEF NodesFilled, least
  <2>1. /\ id \in live /\ unsettled = {} /\ settled = nodes
        /\ rootNode # Nil => tops = <<rootNode>> /\ nodes[rootNode].parent = Nil
    BY ReachableLive
  <2>2. rootNode # Nil
    BY DEF Reachable
  <2>3. filled(nodes, tops, id)
    BY <2>1 DEF ShapeInv, Sizes
  <2> QED BY <2>1, <2>2, <2>3 DEF filled, isRoot
<1> QED
  BY <1>1, ShapeKept, PTL

\* The links of a tree of this kind, said as the model says them.
LEMMA ChainedTree ==
  ASSUME ShapeInv, pc = "idle", rootNode # Nil
  PROVE  SiblingsChained /\ ParentsAgree
<1>1. /\ Reachable = live /\ settled = nodes /\ nodes[rootNode].parent = Nil /\ tops = <<rootNode>>
      /\ live \subseteq NodeId /\ Nil \notin live /\ TypeInv
  BY ReachableLive, LiveIds DEF ShapeInv
<1>2. PICK h : Tree(nodes, tops, live, h)
  BY <1>1 DEF ShapeInv, Shape
<1>3. \A id \in live : /\ nodes[id].children \in Seq(NodeId)
                       /\ nodes[id].leaf => nodes[id].children = << >>
                       /\ ~nodes[id].leaf => Len(nodes[id].children) = size(nodes[id]) + 1
                       /\ size(nodes[id]) \in Nat
  BY <1>1 DEF TypeInv, TypeOK, isHeap, isNode, size, ShapeInv, Childless
<1>4. \A id \in live : \A i \in DOMAIN nodes[id].children :
        /\ i \in 1 .. deg(nodes, tops, id) /\ kid(nodes, tops, id, i) = nodes[id].children[i]
  BY <1>1, <1>3 DEF deg, kid, kids
<1>5. nodes[rootNode].left = Nil /\ nodes[rootNode].right = Nil
  <2>1. deg(nodes, tops, Nil) = 1 /\ kid(nodes, tops, Nil, 1) = rootNode
    BY <1>1 DEF deg, kid, kids
  <2>2. lft(nodes, rootNode) = lastKid(nodes, tops, lft(nodes, Nil)) /\ rgt(nodes, rootNode) = firstKid(nodes, tops, rgt(nodes, Nil))
    BY <2>1, <1>2 DEF Tree, Rows
  <2> QED BY <2>2 DEF lft, rgt, lastKid, firstKid
<1>6. ASSUME NEW id \in live, NEW i \in DOMAIN nodes[id].children
      PROVE  LET n == nodes[id]
                 c == n.children
             IN /\ nodes[c[i]].parent = id
                /\ nodes[c[i]].left = IF i > 1 THEN c[i - 1]
                                      ELSE IF n.left = Nil THEN Nil ELSE Last(nodes[n.left].children)
                /\ nodes[c[i]].right = IF i < Len(c) THEN c[i + 1]
                                       ELSE IF n.right = Nil THEN Nil ELSE Head(nodes[n.right].children)
  <2> DEFINE c == nodes[id].children
             x == c[i]
  <2>1. /\ i \in 1 .. deg(nodes, tops, id) /\ kid(nodes, tops, id, i) = x /\ deg(nodes, tops, id) = Len(c)
        /\ c \in Seq(NodeId) /\ x \in NodeId /\ x # Nil /\ id # Nil
    <3>1. i \in 1 .. deg(nodes, tops, id) /\ kid(nodes, tops, id, i) = x /\ c \in Seq(NodeId)
      BY <1>3, <1>4
    <3>2. x \in live
      BY <3>1, <1>2 DEF Tree, Downward
    <3> QED BY <3>1, <3>2, <1>1 DEF deg, kids
  <2>2. \A j \in 1 .. Len(c) : kid(nodes, tops, id, j) = c[j]
    BY <2>1 DEF kid, kids
  <2>3. /\ up(nodes, x) = id
        /\ lft(nodes, x) = IF i > 1 THEN kid(nodes, tops, id, i - 1) ELSE lastKid(nodes, tops, lft(nodes, id))
        /\ rgt(nodes, x) = IF i < Len(c) THEN kid(nodes, tops, id, i + 1) ELSE firstKid(nodes, tops, rgt(nodes, id))
    BY <2>1, <1>2 DEF Tree, Downward, Rows
  <2>4. i \in 1 .. Len(c) /\ Len(c) \in Nat /\ (i > 1 => i - 1 \in 1 .. Len(c)) /\ (i < Len(c) => i + 1 \in 1 .. Len(c))
    BY <2>1
  <2>5. lft(nodes, id) # Nil => lastKid(nodes, tops, lft(nodes, id)) = Last(nodes[lft(nodes, id)].children)
    BY DEF lastKid, kid, kids, deg, Last
  <2>6. rgt(nodes, id) # Nil => firstKid(nodes, tops, rgt(nodes, id)) = Head(nodes[rgt(nodes, id)].children)
    <3> SUFFICES ASSUME rgt(nodes, id) # Nil
                 PROVE  firstKid(nodes, tops, rgt(nodes, id)) = Head(nodes[rgt(nodes, id)].children)
      OBVIOUS
    <3>1. rgt(nodes, id) \in live
      BY <1>2 DEF Tree, Mutual
    <3>2. nodes[rgt(nodes, id)].children \in Seq(NodeId)
      BY <3>1, <1>3
    <3>3. nodes[rgt(nodes, id)].children # << >>
      <4>1. deg(nodes, tops, id) # 0 /\ deg(nodes, tops, rgt(nodes, id)) = Len(nodes[rgt(nodes, id)].children)
        BY <2>1, <2>4 DEF deg, kids
      <4>2. deg(nodes, tops, rgt(nodes, id)) # 0
        BY <4>1, <3>1, <1>2 DEF Tree, Levels, Mutual
      <4> QED BY <4>1, <4>2
    <3> QED BY <3>2, <3>3 DEF firstKid, kid, kids
  <2>7. lft(nodes, x) = nodes[x].left /\ rgt(nodes, x) = nodes[x].right /\ up(nodes, x) = nodes[x].parent
    BY <2>1 DEF lft, rgt, up
  <2>8. lft(nodes, id) = nodes[id].left /\ rgt(nodes, id) = nodes[id].right
    BY <2>1 DEF lft, rgt
  <2>9. lft(nodes, x) = IF i > 1 THEN c[i - 1] ELSE lastKid(nodes, tops, lft(nodes, id))
    BY <2>2, <2>3, <2>4
  <2>10. rgt(nodes, x) = IF i < Len(c) THEN c[i + 1] ELSE firstKid(nodes, tops, rgt(nodes, id))
    BY <2>2, <2>3, <2>4
  <2>11. lastKid(nodes, tops, Nil) = Nil /\ firstKid(nodes, tops, Nil) = Nil
    BY DEF lastKid, firstKid
  <2> HIDE DEF c, x
  <2>12. nodes[x].left = IF i > 1 THEN c[i - 1]
                        ELSE IF nodes[id].left = Nil THEN Nil ELSE Last(nodes[nodes[id].left].children)
    BY ONLY <2>5, <2>7, <2>8, <2>9, <2>11, Zenon
  <2>13. nodes[x].right = IF i < Len(c) THEN c[i + 1]
                         ELSE IF nodes[id].right = Nil THEN Nil ELSE Head(nodes[nodes[id].right].children)
    BY ONLY <2>6, <2>7, <2>8, <2>10, <2>11, Zenon
  <2> QED BY ONLY <2>3, <2>7, <2>12, <2>13 DEF c, x
<1>7. ASSUME NEW id \in live, NEW q \in {nodes[id].left, nodes[id].right} \ {Nil}
      PROVE  nodes[q].leaf <=> nodes[id].leaf
  <2>1. nodes[id].left = lft(nodes, id) /\ nodes[id].right = rgt(nodes, id)
    BY <1>1 DEF lft, rgt
  <2>2. q \in live /\ h[q] = h[id]
    BY <2>1, <1>2 DEF Tree, Mutual
  <2>3. (nodes[q].leaf <=> h[q] = 0) /\ (nodes[id].leaf <=> h[id] = 0)
    BY <2>2, <1>1, <1>2, <1>3, LeafLevel
  <2>4. nodes[q].leaf \in BOOLEAN /\ nodes[id].leaf \in BOOLEAN
    BY <2>2, <1>1 DEF TypeInv, TypeOK, isHeap, isNode
  <2> QED BY <2>2, <2>3, <2>4
<1>8. SiblingsChained
  BY <1>1, <1>5, <1>6, <1>7 DEF SiblingsChained
<1>9. ParentsAgree
  <2>1. ASSUME NEW id \in live, NEW c \in childrenOf(id) PROVE nodes[c].parent = id
    <3>1. PICK i \in DOMAIN nodes[id].children : c = nodes[id].children[i]
      BY <1>3 DEF childrenOf, ToSet
    <3> QED BY <3>1, <1>6
  <2> QED BY <2>1, <1>1 DEF ParentsAgree, isRoot
<1> QED BY <1>8, <1>9

\* The links between the nodes agree with the tree that the children span.
THEOREM LinksKept == Spec => []LinksAgree
<1>1. ShapeInv => LinksAgree
  BY ChainedTree DEF LinksAgree
<1> QED
  BY <1>1, ShapeKept, PTL
=============================================================================
