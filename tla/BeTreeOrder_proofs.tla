---------------------------- MODULE BeTreeOrder_proofs ----------------------------
(***************************************************************************)
(* The B-epsilon-tree is a search tree in every state of every call: each  *)
(* key and each buffered message lies on the path on which a search looks  *)
(* for it, and each pivot is the lowest key of what hangs to its right.    *)
(* The invariant, OrderInv, gives every node the interval of keys that may *)
(* lie below it, and reads the nodes as the caller will leave them, as     *)
(* ShapeInv does.                                                          *)
(***************************************************************************)
EXTENDS BeTreeShape_proofs

-----------------------------------------------------------------------------
(* The invariant *)

\* The pivot between two tops, as their common root will have it.
cuts == IF Len(tops) = 2 THEN <<change.key>> ELSE << >>

\* What a flush has still to pass is in the buffer of its node, for the child it is passed to.
Batches ==
  \A j \in 1 .. Len(stack) : stack[j].batch \subseteq messagesFor(nodes[stack[j].node], stack[j].idx)

\* z is not below the interval that is left to the running node.
reaches(z) ==
  /\ place > 1 => settled[above].keys[place - 1] <= z
  /\ lft(settled, above) # Nil => settled[above].lowest <= z

\* A message is in the interval of the node that is called with it; the child of a flush is where
\* the frame says until the flush hears of its restructuring; and the lowest key of a node that
\* flushes is not above its interval.
Control(hi) ==
  /\ pc = "apply" => call.key <= hi[here] /\ reaches(call.key)
  /\ pc = "return" /\ stack # << >> => current(nodes, frame) /\ frame.child \in allocated
  /\ \A j \in 1 .. Len(stack) : settled[stack[j].node].lowest <= hi[stack[j].node]

\* The keys of the tree are in order, with hi the bounds.
Order(hi) == hi \in [NodeId \cup {Nil} -> Int] /\ Ordered(settled, tops, cuts, live, hi) /\ Control(hi)

\* The invariant of the order of keys.
OrderInv == ShapeInv /\ Batches /\ \E hi : Order(hi)

-----------------------------------------------------------------------------
(* Returning *)

\* What a node that returns leaves to the flushes that wait for it.
LEMMA ReturnOrder ==
  ASSUME TypeInv, Flow, running, NEW h, Shape(h), Batches, NEW hi, Order(hi),
         pc' = "return", stack' = outer,
         NEW ho \in [NodeId \cup {Nil} -> Int], Ordered(settled', tops', cuts', live', ho),
         \A q \in live : h[q] > h[here] => settled'[q].lowest = settled[q].lowest /\ ho[q] = hi[q],
         \A q \in live : h[q] > h[above] => nodes'[q].keys = nodes[q].keys /\ nodes'[q].buffer = nodes[q].buffer,
         outer # << >> => /\ nodes'[above].children = nodes[above].children /\ here \in allocated'
                          /\ Last(outer).batch \subseteq messagesFor(nodes'[above], Last(outer).idx)
  PROVE  Batches' /\ Order(ho)'
<1> DEFINE n == Len(outer)
<1>1. /\ n \in Nat /\ n <= Len(stack) /\ \A j \in 1 .. n : outer[j] = stack[j]
      /\ outer # << >> => n > 0 /\ Last(outer) = outer[n]
      /\ outer = << >> => n = 0
      /\ Len(stack) \in Nat
  BY OuterFacts
<1>2. /\ outer # << >> => above = Last(outer).node /\ Last(outer).child = here /\ current(settled, Last(outer))
                          /\ above \in live
      /\ \A j \in 1 .. n : /\ outer[j].node \in live
                           /\ h[outer[j].node] > h[here] /\ (j < n => h[outer[j].node] > h[above])
  BY HereFacts
<1>3. (\A id \in NodeId : settled[id] = nodes[id]) /\ live \subseteq NodeId
  BY RunningPlain, LiveIds
<1> HIDE DEF n
<1>4. ASSUME NEW j \in 1 .. n
      PROVE  outer[j].batch \subseteq messagesFor(nodes'[outer[j].node], outer[j].idx)
  <2>1. CASE j = n
    <3>1. outer # << >>
      BY <1>1, <2>1
    <3> QED
      BY <1>1, <1>2, <2>1, <3>1
  <2>2. CASE j # n
    <3>1. h[outer[j].node] > h[above] /\ outer[j].node \in live
      BY <1>1, <1>2, <2>2
    <3>2. messagesFor(nodes'[outer[j].node], outer[j].idx) = messagesFor(nodes[outer[j].node], outer[j].idx)
      BY <3>1 DEF messagesFor
    <3>3. j \in 1 .. Len(stack)
      BY <1>1
    <3> QED
      BY <1>1, <3>2, <3>3 DEF Batches
  <2> QED
    BY ONLY <2>1, <2>2
<1>5. Batches'
  BY <1>4 DEF Batches, n
<1>6. ASSUME NEW j \in 1 .. n
      PROVE  settled'[outer[j].node].lowest <= ho[outer[j].node]
  <2>1. j \in 1 .. Len(stack)
    BY <1>1
  <2>2. settled[outer[j].node].lowest <= hi[outer[j].node]
    BY <1>1, <2>1 DEF Order, Control
  <2> QED
    BY <1>2, <2>2
<1>7. outer # << >> => current(nodes', Last(outer)) /\ Last(outer).child \in allocated'
  BY <1>2, <1>3 DEF current
<1>8. frame' = Last(outer)
  BY DEF frame
<1>9. Control(ho)'
  BY <1>6, <1>7, <1>8 DEF Control, n
<1> QED
  BY <1>5, <1>9 DEF Order

-----------------------------------------------------------------------------
(* The running node *)

\* Node n may stand for the running node.
Suits(n, hi) ==
  /\ n.children = nodes[here].children
  /\ n.left # Nil => nodes[here].left # Nil
  /\ Fine(n, settled, hi, hi[here]) /\ n.lowest \in Int
  /\ lft(settled, here) # Nil => From(n, settled, hi, n.lowest)
  /\ reaches(n.lowest)
  /\ place > 1 \/ lft(settled, above) # Nil => n.lowest <= hi[here]

\* A running node among its own, as Kin says it.
LEMMA HereKin ==
  ASSUME TypeInv, Flow, running, NEW h, Shape(h), NEW hi, Order(hi)
  PROVE  /\ Kin(settled, tops, cuts, live, hi, above, place, here)
         /\ Nil \notin live /\ live \subseteq NodeId /\ Tree(settled, tops, live, h) /\ Ordered(settled, tops, cuts, live, hi)
         /\ above \in live \cup {Nil} /\ place \in 1 .. deg(settled, tops, above)
         /\ here = kid(settled, tops, above, place) /\ here \in live /\ here # above
         /\ \A q \in NodeId : settled[q] = nodes[q]
         /\ place \in Nat /\ (place > 1 => above # Nil /\ above \in live)
         /\ nd(settled, tops, cuts, above).children = kids(settled, tops, above)
<1>1. /\ above \in live \cup {Nil} /\ place \in 1 .. deg(settled, tops, above)
      /\ here = kid(settled, tops, above, place) /\ here \in live /\ here # above
      /\ outer = << >> => place = 1
      /\ outer # << >> => above \in live
  BY HereFacts
<1>2. Nil \notin live /\ live \subseteq NodeId
  BY LiveIds
<1>3. Tree(settled, tops, live, h) /\ Ordered(settled, tops, cuts, live, hi)
  BY DEF Shape, Order
<1>4. Kin(settled, tops, cuts, live, hi, above, place, here)
  BY <1>1, <1>2, <1>3, KinOrder
<1>5. \A q \in NodeId : settled[q] = nodes[q]
  BY RunningPlain
<1>6. place \in Nat /\ (place > 1 => above # Nil /\ above \in live)
  <2>1. place \in Nat
    BY <1>4 DEF Kin
  <2>2. place > 1 => outer # << >>
    BY <1>1
  <2> QED
    BY <1>1, <1>2, <2>1, <2>2
<1>7. nd(settled, tops, cuts, above).children = kids(settled, tops, above)
  BY <1>4 DEF Kin
<1> QED
  BY <1>1, <1>2, <1>3, <1>4, <1>5, <1>6, <1>7

\* The running node changes within its interval.
LEMMA TouchHere ==
  ASSUME TypeInv, Flow, running, NEW h, Shape(h), NEW hi, Order(hi),
         NEW B, \A q \in live \ {here} : B[q] = nodes[q], Suits(B[here], hi)
  PROVE  Ordered(B, tops, cuts, live, hi)
<1> DEFINE n == nd(settled, tops, cuts, above)
<1>1. /\ Kin(settled, tops, cuts, live, hi, above, place, here)
      /\ Nil \notin live /\ live \subseteq NodeId /\ Tree(settled, tops, live, h) /\ Ordered(settled, tops, cuts, live, hi)
      /\ above \in live \cup {Nil} /\ place \in 1 .. deg(settled, tops, above)
      /\ here = kid(settled, tops, above, place) /\ here \in live /\ here # above
      /\ \A q \in NodeId : settled[q] = nodes[q]
      /\ place \in Nat /\ (place > 1 => above # Nil /\ above \in live)
  BY HereKin
<1>2. Touches(settled, tops, cuts, live, hi, B, hi, above, place, here)
  <2>1. \A q \in live \ {here, above} : likened(B[q], settled[q])
    BY <1>1 DEF likened
  <2>2. \A q \in live \ {here} : B[q].lowest = settled[q].lowest
    BY <1>1
  <2>3. \A q \in live : B[q].left # Nil => settled[q].left # Nil
    BY <1>1 DEF Suits
  <2>4. above # Nil => /\ B[above].leaf = settled[above].leaf /\ B[above].keys = settled[above].keys
                       /\ B[above].children = settled[above].children
                       /\ DOMAIN B[above].buffer \subseteq DOMAIN settled[above].buffer
    BY <1>1
  <2>5. B[here].children = settled[here].children
    BY <1>1 DEF Suits
  <2>6. place > 1 => nd(settled, tops, cuts, above).keys[place - 1] <= B[here].lowest
    BY <1>1 DEF Suits, nd, reaches
  <2>7. hi[here] \in Int /\ hi[here] <= hi[above] /\ (place < deg(settled, tops, above) => hi[here] < n.keys[place])
    BY <1>1 DEF Kin
  <2>8. /\ Fine(B[here], settled, hi, hi[here]) /\ B[here].lowest \in Int
        /\ lft(settled, here) # Nil => From(B[here], settled, hi, B[here].lowest)
        /\ lft(settled, above) # Nil => settled[above].lowest <= B[here].lowest
        /\ place > 1 \/ lft(settled, above) # Nil => B[here].lowest <= hi[here]
    BY DEF Suits, reaches
  <2> QED
    BY ONLY <2>1, <2>2, <2>3, <2>4, <2>5, <2>6, <2>7, <2>8 DEF Touches
<1> QED
  BY <1>1, <1>2, TouchOrder

\* What is known of the running node and its interval.
Setting(n, hi) ==
  /\ isNode(n) /\ n.keys \in Seq(KeyType) /\ n.lowest \in Int /\ hi[here] \in Int
  /\ Fine(n, settled, hi, hi[here])
  /\ lft(settled, here) # Nil => From(n, settled, hi, n.lowest) /\ n.lowest <= hi[here]
  /\ place > 1 \/ lft(settled, above) # Nil => lft(settled, here) # Nil
  /\ reaches(n.lowest)
  /\ \A z, w \in Int : reaches(z) /\ z <= w => reaches(w)
  /\ pc = "apply" => call.key \in Int /\ call.key \in KeyType /\ call.key <= hi[here] /\ reaches(call.key)

\* What the order of the tree says of the running node.
LEMMA HereSetting ==
  ASSUME TypeInv, Flow, running, NEW h, Shape(h), NEW hi, Order(hi)
  PROVE  Setting(nodes[here], hi)
<1>1. /\ Kin(settled, tops, cuts, live, hi, above, place, here)
      /\ here \in live /\ live \subseteq NodeId /\ Nil \notin live
      /\ above \in live \cup {Nil}
      /\ \A q \in NodeId : settled[q] = nodes[q]
      /\ place \in Nat /\ (place > 1 => above # Nil /\ above \in live)
  BY HereKin
<1> DEFINE n == nodes[here]
<1>2. here \in NodeId /\ isNode(n) /\ settled[here] = n
  BY <1>1 DEF TypeInv, TypeOK, isHeap
<1>3. n.keys \in Seq(KeyType)
  BY <1>2 DEF isNode
<1>4. /\ Fine(n, settled, hi, hi[here]) /\ n.lowest \in Int /\ hi[here] \in Int
      /\ lft(settled, here) # Nil => From(n, settled, hi, n.lowest) /\ n.lowest <= hi[here]
      /\ place > 1 \/ lft(settled, above) # Nil => lft(settled, here) # Nil
      /\ lft(settled, above) # Nil => settled[above].lowest <= n.lowest
      /\ place > 1 => nd(settled, tops, cuts, above).keys[place - 1] <= n.lowest
  BY <1>1, <1>2 DEF Kin
<1>5. reaches(n.lowest)
  BY <1>1, <1>4 DEF reaches, nd
<1>6. lft(settled, above) # Nil => settled[above].lowest \in Int
  BY <1>1 DEF Kin, From
<1>7. place > 1 => settled[above].keys[place - 1] \in Int
  <2> HAVE place > 1
  <2> DEFINE m == settled[above]
             a == Len(m.keys)
             c == Len(m.children)
  <2>1. Fine(m, settled, hi, hi[above]) /\ place \in 1 .. c /\ c > 0
    BY <1>1 DEF Kin, nd
  <2>2. integers(m.keys) /\ a \in Nat /\ c \in Nat /\ (c = 0 \/ c = a + 1)
    BY <2>1 DEF Fine, numeric, integers
  <2> HIDE DEF a, c, m
  <2>3. place - 1 \in 1 .. a
    BY ONLY <2>1, <2>2, place > 1
  <2> QED
    BY <2>2, <2>3 DEF integers, a, m
<1>8. \A z, w \in Int : reaches(z) /\ z <= w => reaches(w)
  BY <1>6, <1>7 DEF reaches
<1>9. pc = "apply" => call.key \in Int /\ call.key \in KeyType /\ call.key <= hi[here] /\ reaches(call.key)
  BY KeyNumbers DEF Order, Control, TypeInv, RunningCall, KeyType
<1> QED
  BY <1>2, <1>3, <1>4, <1>5, <1>8, <1>9 DEF Setting

\* The node as it is.
LEMMA PlainSuits ==
  ASSUME NEW hi, NEW n, n = nodes[here], Setting(n, hi)
  PROVE  Suits(n, hi)
BY DEF Setting, Suits

\* A message in the buffer.
LEMMA BufferedSuits ==
  ASSUME NEW hi, NEW n, n = nodes[here], pc = "apply", Setting(n, hi), ~n.leaf
  PROVE  Suits(buffered(n), hi) /\ buffered(n).lowest <= hi[here]
<1> DEFINE m == buffered(n)
           k == call.key
<1>1. /\ m.leaf = n.leaf /\ m.keys = n.keys /\ m.children = n.children /\ m.left = n.left
      /\ DOMAIN m.buffer = DOMAIN n.buffer \cup {k}
      /\ m.lowest = IF k < n.lowest THEN k ELSE n.lowest
  BY DEF buffered, overlay, arriving, Setting, isNode
<1>2. /\ k \in Int /\ n.lowest \in Int /\ hi[here] \in Int /\ k <= hi[here] /\ reaches(k) /\ reaches(n.lowest)
      /\ Fine(n, settled, hi, hi[here])
      /\ (lft(settled, here) # Nil => From(n, settled, hi, n.lowest) /\ n.lowest <= hi[here])
      /\ (place > 1 \/ lft(settled, above) # Nil => lft(settled, here) # Nil)
  BY DEF Setting
<1> HIDE DEF m, k
<1>3. own(m) = own(n) \cup {k}
  BY <1>1 DEF own
<1>4. Fine(m, settled, hi, hi[here])
  <2>1. numeric(m) /\ ascending(m.keys)
    BY <1>1, <1>2 DEF Fine, numeric
  <2>2. \A j \in own(m) : j <= hi[here]
    BY <1>2, <1>3 DEF Fine
  <2>3. \A i \in 1 .. Len(m.children) : fits(m, settled, hi, hi[here], i)
    BY <1>1, <1>2 DEF Fine, fits
  <2> QED
    BY <2>1, <2>2, <2>3 DEF Fine
<1>5. m.lowest \in Int /\ m.lowest <= n.lowest /\ m.lowest <= k /\ reaches(m.lowest) /\ m.lowest <= hi[here]
  BY <1>1, <1>2
<1>6. lft(settled, here) # Nil => From(m, settled, hi, m.lowest)
  <2> HAVE lft(settled, here) # Nil
  <2>1. From(n, settled, hi, n.lowest)
    BY <1>2
  <2>2. \A j \in own(m) : m.lowest <= j
    <3>1. \A j \in own(n) : j \in Int /\ n.lowest <= j
      BY <1>2, <2>1, OwnNumbers DEF From, Fine
    <3> QED
      BY <1>2, <1>3, <1>5, <3>1
  <2>3. Len(m.children) > 0 => LET c == m.children[1] IN m.lowest <= settled[c].lowest /\ settled[c].lowest <= hi[c]
    <3> HAVE Len(m.children) > 0
    <3> DEFINE c == n.children[1]
    <3>1. n.lowest <= settled[c].lowest /\ settled[c].lowest <= hi[c]
      BY <1>1, <2>1 DEF From
    <3>2. settled[c].lowest \in Int
      <4>1. 1 \in 1 .. Len(n.children)
        BY <1>1, <1>2 DEF Fine, numeric
      <4> QED
        BY <1>2, <4>1 DEF Fine, fits
    <3> QED
      BY <1>1, <1>2, <1>5, <3>1, <3>2
  <2> QED
    BY <1>5, <2>2, <2>3 DEF From
<1>7. m.children = nodes[here].children /\ (m.left # Nil => nodes[here].left # Nil)
  BY <1>1
<1> QED
  BY <1>4, <1>5, <1>6, <1>7 DEF Suits, m

\* Another leaf that may stand for the running one.
LEMMA LeafSuits ==
  ASSUME NEW hi, NEW n, n = nodes[here], Setting(n, hi), n.leaf,
         NEW m, m.leaf = n.leaf, m.children = n.children, m.left = n.left, m.buffer = n.buffer,
         integers(m.keys), ascending(m.keys), \A i \in 1 .. Len(m.keys) : m.keys[i] <= hi[here],
         m.lowest \in Int, reaches(m.lowest), lft(settled, here) # Nil => m.lowest <= hi[here],
         lft(settled, here) # Nil => \A i \in 1 .. Len(m.keys) : m.lowest <= m.keys[i]
  PROVE  Suits(m, hi)
<1>1. Fine(n, settled, hi, hi[here]) /\ (place > 1 \/ lft(settled, above) # Nil => lft(settled, here) # Nil)
  BY DEF Setting
<1>2. Len(n.children) = 0 /\ DOMAIN n.buffer = {} /\ n.leaf \in BOOLEAN
  BY <1>1 DEF Fine, numeric
<1>3. numeric(m)
  BY <1>2 DEF numeric
<1>4. own(m) = {m.keys[i] : i \in 1 .. Len(m.keys)}
  BY <1>2 DEF own
<1>5. Fine(m, settled, hi, hi[here])
  <2>1. \A j \in 1 .. Len(m.children) : fits(m, settled, hi, hi[here], j)
    BY <1>2
  <2>2. \A k \in own(m) : k <= hi[here]
    BY <1>4
  <2> QED
    BY <1>3, <2>1, <2>2 DEF Fine
<1>6. lft(settled, here) # Nil => From(m, settled, hi, m.lowest)
  BY <1>2, <1>4 DEF From
<1> QED
  BY <1>1, <1>5, <1>6 DEF Suits

\* The leaf with a key inserted.
LEMMA InsertedSuits ==
  ASSUME NEW hi, NEW n, n = nodes[here], pc = "apply", here = call.node, Setting(n, hi), n.leaf
  PROVE  Suits(inserted(n), hi) /\ (~holds(n, call.key) => integers(inserted(n).keys))
<1> DEFINE m == inserted(n)
           k == call.key
<1>1. /\ k \in Int /\ k \in KeyType /\ n.lowest \in Int /\ hi[here] \in Int /\ k <= hi[here] /\ reaches(k) /\ reaches(n.lowest)
      /\ Fine(n, settled, hi, hi[here]) /\ n.keys \in Seq(KeyType)
      /\ (lft(settled, here) # Nil => From(n, settled, hi, n.lowest) /\ n.lowest <= hi[here])
      /\ isNode(n)
  BY DEF Setting
<1>2. integers(n.keys) /\ ascending(n.keys)
  BY <1>1 DEF Fine, numeric
<1>3. /\ \A i \in 1 .. Len(n.keys) : n.keys[i] \in Int /\ n.keys[i] <= hi[here]
      /\ lft(settled, here) # Nil => \A i \in 1 .. Len(n.keys) : n.lowest <= n.keys[i]
  BY <1>1, <1>2 DEF Fine, From, own, integers
<1>4. /\ m.leaf = n.leaf /\ m.children = n.children /\ m.left = n.left /\ m.buffer = n.buffer
  BY <1>1 DEF inserted, isNode
<1>5. CASE holds(n, k)
  <2>1. m.keys = n.keys /\ m.lowest = n.lowest
    BY <1>1, <1>5 DEF inserted, isNode
  <2> HIDE DEF m, k
  <2>2. Suits(m, hi)
    BY ONLY <1>1, <1>2, <1>3, <1>4, <2>1, LeafSuits, n = nodes[here], n.leaf, Setting(n, hi)
  <2> QED
    BY <1>5, <2>2 DEF m, k
<1>6. CASE ~holds(n, k)
  <2> DEFINE i == lowerBound(n.keys, k) + 1
             a == Len(n.keys)
  <2>0. target = n
    BY DEF target
  <2>1. /\ m.keys = InsertAt(n.keys, i, k)
        /\ m.lowest = IF n.keys = << >> \/ k < n.lowest THEN k ELSE n.lowest
    BY <1>1, <1>6, <2>0 DEF inserted, isNode, position
  <2>2. /\ lowerBound(n.keys, k) \in 0 .. a /\ \A j \in 1 .. a : n.keys[j] < k <=> j <= lowerBound(n.keys, k)
        /\ upperBound(n.keys, k) \in 0 .. a /\ \A j \in 1 .. a : n.keys[j] <= k <=> j <= upperBound(n.keys, k)
    BY <1>1, <1>2, BoundPlaces
  <2>3. ~(lowerBound(n.keys, k) < upperBound(n.keys, k))
    BY <1>6 DEF holds
  <2>4. a \in Nat /\ (a = 0 <=> n.keys = << >>)
    BY <1>1
  <2>5. i \in 1 .. (a + 1) /\ i \in Nat
    BY <2>2, <2>4
  <2>6. Extends(m.keys, n.keys, i, k)
    <3>1. i \in 1 .. (Len(n.keys) + 1)
      BY <2>5
    <3> HIDE DEF i, k
    <3> QED
      BY <1>1, <2>1, <3>1, InsertAtItems
  <2> HIDE DEF m, k, a
  <2>7. (i > 1 => n.keys[i - 1] < k) /\ (i <= a => k < n.keys[i])
    <3>1. i > 1 => i - 1 \in 1 .. a /\ i - 1 <= lowerBound(n.keys, k)
      BY <2>2, <2>4, <2>5
    <3>2. i <= a => i \in 1 .. a /\ ~(i <= upperBound(n.keys, k))
      BY <2>2, <2>3, <2>4, <2>5
    <3>3. k \in Int /\ \A j \in 1 .. a : n.keys[j] \in Int
      BY <1>1, <1>3 DEF a
    <3>4. i > 1 => n.keys[i - 1] < k
      BY ONLY <2>2, <3>1
    <3>5. i <= a => ~(n.keys[i] <= k) /\ n.keys[i] \in Int
      BY ONLY <2>2, <3>2, <3>3
    <3> QED
      BY ONLY <3>3, <3>4, <3>5
  <2> HIDE DEF i
  <2>8. integers(m.keys) /\ ascending(m.keys)
    BY <1>1, <1>2, <2>4, <2>5, <2>6, <2>7, ExtendsAscends DEF a
  <2>9. \A j \in 1 .. Len(m.keys) : m.keys[j] = k \/ \E g \in 1 .. a : m.keys[j] = n.keys[g]
    <3> SUFFICES ASSUME NEW j \in 1 .. Len(m.keys)
                 PROVE  m.keys[j] = k \/ \E g \in 1 .. a : m.keys[j] = n.keys[g]
      OBVIOUS
    <3>1. /\ Len(m.keys) = a + 1 /\ (\A g \in 1 .. (i - 1) : m.keys[g] = n.keys[g]) /\ m.keys[i] = k
          /\ \A g \in (i + 1) .. (a + 1) : m.keys[g] = n.keys[g - 1]
      BY <2>6 DEF Extends, a
    <3>2. \/ j = i
          \/ j \in 1 .. (i - 1) /\ j \in 1 .. a
          \/ j \in (i + 1) .. (a + 1) /\ j - 1 \in 1 .. a
      <4>1. j \in 1 .. (a + 1)
        BY <3>1
      <4> QED
        BY ONLY <2>4, <2>5, <4>1
    <3> QED
      BY <3>1, <3>2
  <2>10. \A j \in 1 .. Len(m.keys) : m.keys[j] <= hi[here]
    BY <1>1, <1>3, <2>9 DEF a
  <2>11. m.lowest \in {k, n.lowest} /\ m.lowest \in Int /\ reaches(m.lowest)
         /\ (lft(settled, here) # Nil => m.lowest <= hi[here])
    BY <1>1, <2>1
  <2>12. lft(settled, here) # Nil => \A j \in 1 .. Len(m.keys) : m.lowest <= m.keys[j]
    <3> HAVE lft(settled, here) # Nil
    <3>1. m.lowest <= k
      BY <1>1, <2>1
    <3>2. \A g \in 1 .. a : m.lowest <= n.keys[g]
      <4>1. CASE n.keys = << >>
        BY <2>4, <4>1
      <4>2. CASE n.keys # << >>
        <5>1. m.lowest <= n.lowest
          BY <1>1, <2>1, <4>2
        <5> QED
          BY <1>1, <1>3, <2>11, <5>1 DEF a
      <4> QED
        BY ONLY <4>1, <4>2
    <3> QED
      BY <2>9, <3>1, <3>2
  <2>13. Suits(m, hi)
    BY ONLY <1>4, <2>8, <2>10, <2>11, <2>12, LeafSuits, n = nodes[here], n.leaf, Setting(n, hi)
  <2> QED
    BY <2>8, <2>13 DEF m
<1> QED
  BY ONLY <1>5, <1>6

\* The leaf with its key erased.
LEMMA ErasedSuits ==
  ASSUME NEW hi, NEW n, n = nodes[here], pc = "apply", here = call.node, Setting(n, hi), n.leaf, holds(n, call.key)
  PROVE  Suits(erased(n), hi)
<1> DEFINE m == erased(n)
           k == call.key
           i == lowerBound(n.keys, k) + 1
           a == Len(n.keys)
<1>1. /\ k \in Int /\ n.lowest \in Int /\ hi[here] \in Int /\ reaches(n.lowest)
      /\ Fine(n, settled, hi, hi[here]) /\ n.keys \in Seq(KeyType)
      /\ (lft(settled, here) # Nil => From(n, settled, hi, n.lowest) /\ n.lowest <= hi[here])
      /\ (place > 1 \/ lft(settled, above) # Nil => lft(settled, here) # Nil)
      /\ isNode(n) /\ \A z, w \in Int : reaches(z) /\ z <= w => reaches(w)
  BY DEF Setting
<1>2. integers(n.keys) /\ ascending(n.keys) /\ a \in Nat
  BY <1>1 DEF Fine, numeric
<1>3. /\ \A j \in 1 .. a : n.keys[j] \in Int /\ n.keys[j] <= hi[here]
      /\ lft(settled, here) # Nil => \A j \in 1 .. a : n.lowest <= n.keys[j]
  BY <1>1, <1>2 DEF Fine, From, own, integers
<1>4. /\ m.leaf = n.leaf /\ m.children = n.children /\ m.left = n.left /\ m.buffer = n.buffer
  BY <1>1 DEF erased, isNode
<1>5. target = n
  BY DEF target
<1>6. /\ m.keys = RemoveAt(n.keys, i)
      /\ m.lowest = IF m.keys = << >> THEN n.lowest ELSE m.keys[1]
  BY <1>1, <1>5 DEF erased, isNode, position
<1>7. i \in 1 .. Len(n.keys)
  <2>1. lowerBound(n.keys, k) \in 0 .. a /\ upperBound(n.keys, k) \in 0 .. a
    BY <1>1, <1>2, BoundPlaces
  <2>2. lowerBound(n.keys, k) < upperBound(n.keys, k)
    BY DEF holds
  <2> QED
    BY <1>2, <2>1, <2>2
<1> HIDE DEF i, k, m
<1>8. Lacks(m.keys, n.keys, i) /\ m.keys \in Seq(KeyType)
  <2>1. n.keys \in Seq(KeyType) /\ m.keys = RemoveAt(n.keys, i)
    BY <1>1, <1>6
  <2> QED
    BY ONLY <1>7, <2>1, RemoveAtItems DEF Lacks
<1>9. integers(m.keys) /\ ascending(m.keys) /\ partOf(m.keys, n.keys)
  BY <1>2, <1>7, <1>8, LacksAscends
<1>10. \A j \in 1 .. Len(m.keys) : m.keys[j] \in Int /\ \E g \in 1 .. a : m.keys[j] = n.keys[g]
  BY <1>9 DEF integers, partOf
<1> HIDE DEF a
<1>11. \A j \in 1 .. Len(m.keys) : m.keys[j] <= hi[here]
  BY <1>3, <1>10
<1>12. lft(settled, here) # Nil => \A j \in 1 .. Len(m.keys) : n.lowest <= m.keys[j]
  BY <1>3, <1>10
<1>13. m.keys # << >> => 1 \in 1 .. Len(m.keys) /\ Len(m.keys) \in Nat
  BY <1>8
<1>14. m.lowest \in Int /\ (lft(settled, here) # Nil => n.lowest <= m.lowest /\ m.lowest <= hi[here])
  <2>1. CASE m.keys = << >>
    BY <1>1, <1>6, <2>1
  <2>2. CASE m.keys # << >>
    BY <1>6, <1>10, <1>11, <1>12, <1>13, <2>2
  <2> QED
    BY ONLY <2>1, <2>2
<1>15. reaches(m.lowest)
  <2>1. CASE lft(settled, here) # Nil
    BY <1>1, <1>14, <2>1
  <2>2. CASE ~(lft(settled, here) # Nil)
    BY <1>1, <2>2 DEF reaches
  <2> QED
    BY ONLY <2>1, <2>2
<1>16. lft(settled, here) # Nil => \A j \in 1 .. Len(m.keys) : m.lowest <= m.keys[j]
  <2> SUFFICES ASSUME NEW j \in 1 .. Len(m.keys)
               PROVE  m.lowest <= m.keys[j]
    OBVIOUS
  <2>1. m.keys # << >> /\ 1 \in 1 .. Len(m.keys) /\ Len(m.keys) \in Nat
    BY <1>8, <1>13
  <2>2. m.lowest = m.keys[1]
    BY <1>6, <2>1
  <2>3. j = 1 \/ 1 < j
    BY <2>1
  <2> QED
    BY <1>9, <1>10, <2>1, <2>2, <2>3 DEF ascending
<1>17. Suits(m, hi)
  BY ONLY <1>4, <1>9, <1>11, <1>14, <1>15, <1>16, LeafSuits, n = nodes[here], n.leaf, Setting(n, hi)
<1> QED
  BY <1>17 DEF m

-----------------------------------------------------------------------------
(* Calls that return with nothing to report *)

\* A running node that changes within its interval, and returns with nothing to report.
LEMMA LocalOrderReturn ==
  ASSUME OrderInv, ShapeInv', running, NEW h, Shape(h), NEW hi, Order(hi),
         pc' = "return", stack' = outer, change'.type = "None",
         allocated' = allocated, orphans' = orphans, rootNode' = rootNode,
         \A q \in live \ {here} : nodes'[q] = nodes[q],
         Suits(nodes'[here], hi)
  PROVE  OrderInv'
<1>0. TypeInv /\ Flow /\ Batches
  BY DEF OrderInv, ShapeInv
<1>1. /\ \A id \in NodeId : settled[id] = nodes[id]
      /\ live = allocated \ orphans
      /\ rootNode \in NodeId /\ rootNode # Nil /\ tops = <<rootNode>>
  BY <1>0, RunningPlain
<1>2. /\ \A id \in NodeId : settled'[id] = nodes'[id]
      /\ live' = live
  BY <1>1, PlainNext
<1>3. live \subseteq NodeId /\ Nil \notin live
  BY <1>0, LiveIds
<1>4. tops' = tops /\ cuts' = cuts
  BY <1>1 DEF tops, cuts
<1>5. /\ here \in live /\ here \in NodeId
      /\ outer # << >> => /\ above \in live /\ above # here /\ current(settled, Last(outer))
      /\ h[above] = h[here] + 1 /\ h[here] \in Nat
  BY <1>0, HereFacts
<1>6. \A q \in live \ {here} : settled'[q] = nodes[q]
  BY <1>2, <1>3
<1>7. settled'[here] = nodes'[here]
  BY <1>2, <1>5
<1>8. Ordered(settled', tops', cuts', live', hi)
  <2>1. Suits(settled'[here], hi)
    BY <1>7
  <2>2. Ordered(settled', tops, cuts, live, hi)
    BY <1>0, <1>6, <2>1, TouchHere
  <2> QED
    BY <1>2, <1>4, <2>2
<1>9. hi \in [NodeId \cup {Nil} -> Int]
  BY DEF Order
<1>10. \A q \in live : h[q] > h[here] => q # here
  BY <1>5
<1>11. \A q \in live : h[q] > h[here] => settled'[q].lowest = settled[q].lowest /\ hi[q] = hi[q]
  BY <1>1, <1>3, <1>6, <1>10
<1>12. \A q \in live : h[q] > h[above] => nodes'[q].keys = nodes[q].keys /\ nodes'[q].buffer = nodes[q].buffer
  BY <1>5, <1>10
<1>13. outer # << >> => /\ nodes'[above].children = nodes[above].children /\ here \in allocated'
                        /\ Last(outer).batch \subseteq messagesFor(nodes'[above], Last(outer).idx)
  <2> HAVE outer # << >>
  <2>1. nodes'[above] = nodes[above]
    BY <1>5
  <2>2. here \in allocated'
    BY <1>1, <1>5
  <2>3. Len(outer) \in 1 .. Len(stack) /\ outer[Len(outer)] = stack[Len(outer)] /\ Last(outer) = outer[Len(outer)]
    BY <1>0, OuterFacts
  <2>4. Last(outer).batch \subseteq messagesFor(nodes[Last(outer).node], Last(outer).idx)
    BY <1>0, <2>3 DEF Batches
  <2>5. Last(outer).node = above
    BY DEF above
  <2> QED
    BY <2>1, <2>2, <2>4, <2>5
<1>14. Batches' /\ Order(hi)'
  BY ONLY <1>0, <1>8, <1>9, <1>11, <1>12, <1>13, ReturnOrder, running, Shape(h), Order(hi), pc' = "return", stack' = outer
<1> QED
  BY <1>14 DEF OrderInv

\* The message goes into the buffer of an internal node.
LEMMA BufferMessageOrder ==
  ASSUME OrderInv, ShapeInv', BufferMessage
  PROVE  OrderInv'
<1>1. PICK h : Shape(h)
  BY DEF OrderInv, ShapeInv
<1>2. PICK hi : Order(hi)
  BY DEF OrderInv
<1>3. /\ pc = "apply" /\ ~target.leaf /\ nodes' = [nodes EXCEPT ![call.node] = buffered(target)]
      /\ Give("Success", change) /\ allocated' = allocated /\ stack' = stack
  BY DEF BufferMessage
<1>4. /\ TypeInv /\ Flow /\ running /\ here = call.node /\ outer = stack
      /\ here \in live /\ here \in NodeId /\ target = nodes[here] /\ change.type = "None"
      /\ live \subseteq NodeId
  BY <1>1, <1>3, ApplyFacts DEF OrderInv
<1>5. /\ pc' = "return" /\ change' = change /\ stack' = outer
      /\ rootNode' = rootNode /\ orphans' = orphans /\ allocated' = allocated
  BY <1>3, <1>4 DEF Give, history
<1>6. \A id \in NodeId : nodes'[id] = IF id = here THEN buffered(nodes[here]) ELSE nodes[id]
  BY <1>3, <1>4 DEF TypeInv, TypeOK, isHeap
<1>7. Setting(nodes[here], hi)
  BY <1>1, <1>2, <1>4, HereSetting
<1>8. Suits(nodes'[here], hi)
  <2>1. Suits(buffered(nodes[here]), hi)
    BY <1>3, <1>4, <1>7, BufferedSuits
  <2> QED
    BY <1>4, <1>6, <2>1
<1>9. \A q \in live \ {here} : nodes'[q] = nodes[q]
  BY <1>4, <1>6
<1> QED
  BY <1>1, <1>2, <1>4, <1>5, <1>8, <1>9, LocalOrderReturn

\* A leaf takes the key and does not overflow.
LEMMA InsertInLeafOrder ==
  ASSUME OrderInv, ShapeInv', InsertInLeaf
  PROVE  OrderInv'
<1>1. PICK h : Shape(h)
  BY DEF OrderInv, ShapeInv
<1>2. PICK hi : Order(hi)
  BY DEF OrderInv
<1>3. /\ pc = "apply" /\ target.leaf /\ nodes' = [nodes EXCEPT ![call.node] = inserted(target)]
      /\ Give("Success", NoChange) /\ allocated' = allocated /\ stack' = stack
  BY DEF InsertInLeaf
<1>4. /\ TypeInv /\ Flow /\ running /\ here = call.node /\ outer = stack
      /\ here \in live /\ here \in NodeId /\ target = nodes[here] /\ change.type = "None"
      /\ live \subseteq NodeId
  BY <1>1, <1>3, ApplyFacts DEF OrderInv
<1>5. /\ pc' = "return" /\ change'.type = "None" /\ stack' = outer
      /\ rootNode' = rootNode /\ orphans' = orphans /\ allocated' = allocated
  BY <1>3, <1>4 DEF Give, history, NoChange
<1>6. \A id \in NodeId : nodes'[id] = IF id = here THEN inserted(nodes[here]) ELSE nodes[id]
  BY <1>3, <1>4 DEF TypeInv, TypeOK, isHeap
<1>7. Setting(nodes[here], hi)
  BY <1>1, <1>2, <1>4, HereSetting
<1>8. Suits(nodes'[here], hi)
  <2>1. Suits(inserted(nodes[here]), hi)
    BY <1>3, <1>4, <1>7, InsertedSuits
  <2> QED
    BY <1>4, <1>6, <2>1
<1>9. \A q \in live \ {here} : nodes'[q] = nodes[q]
  BY <1>4, <1>6
<1> QED
  BY <1>1, <1>2, <1>4, <1>5, <1>8, <1>9, LocalOrderReturn

\* A remove does not find its key.
LEMMA RemoveMissingOrder ==
  ASSUME OrderInv, ShapeInv', RemoveMissing
  PROVE  OrderInv'
<1>1. PICK h : Shape(h)
  BY DEF OrderInv, ShapeInv
<1>2. PICK hi : Order(hi)
  BY DEF OrderInv
<1>3. /\ pc = "apply" /\ nodes' = nodes
      /\ Give("Success", change) /\ allocated' = allocated /\ stack' = stack
  BY DEF RemoveMissing, heap
<1>4. /\ TypeInv /\ Flow /\ running /\ outer = stack /\ change.type = "None"
  BY <1>1, <1>3, ApplyFacts DEF OrderInv
<1>5. /\ pc' = "return" /\ change'.type = "None" /\ stack' = outer
      /\ rootNode' = rootNode /\ orphans' = orphans /\ allocated' = allocated
  BY <1>3, <1>4 DEF Give, history
<1>6. Suits(nodes'[here], hi)
  BY <1>1, <1>2, <1>3, <1>4, HereSetting, PlainSuits
<1>7. \A q \in live \ {here} : nodes'[q] = nodes[q]
  BY <1>3
<1> QED
  BY <1>1, <1>2, <1>4, <1>5, <1>6, <1>7, LocalOrderReturn

\* A leaf loses the key, and is not starved or has no neighbour to ask.
LEMMA RemoveFromLeafOrder ==
  ASSUME OrderInv, ShapeInv', RemoveFromLeaf
  PROVE  OrderInv'
<1>1. PICK h : Shape(h)
  BY DEF OrderInv, ShapeInv
<1>2. PICK hi : Order(hi)
  BY DEF OrderInv
<1>3. /\ pc = "apply" /\ target.leaf /\ holds(target, call.key) /\ nodes' = [nodes EXCEPT ![call.node] = erased(target)]
      /\ Give(IF starved THEN "Error" ELSE "Success", change) /\ allocated' = allocated /\ stack' = stack
  BY DEF RemoveFromLeaf, Removes, shrunk
<1>4. /\ TypeInv /\ Flow /\ running /\ here = call.node /\ outer = stack
      /\ here \in live /\ here \in NodeId /\ target = nodes[here] /\ change.type = "None"
      /\ live \subseteq NodeId
  BY <1>1, <1>3, ApplyFacts DEF OrderInv
<1>5. /\ pc' = "return" /\ change'.type = "None" /\ stack' = outer
      /\ rootNode' = rootNode /\ orphans' = orphans /\ allocated' = allocated
  BY <1>3, <1>4 DEF Give, history
<1>6. \A id \in NodeId : nodes'[id] = IF id = here THEN erased(nodes[here]) ELSE nodes[id]
  BY <1>3, <1>4 DEF TypeInv, TypeOK, isHeap
<1>7. Setting(nodes[here], hi)
  BY <1>1, <1>2, <1>4, HereSetting
<1>8. Suits(nodes'[here], hi)
  <2>1. Suits(erased(nodes[here]), hi)
    BY <1>3, <1>4, <1>7, ErasedSuits
  <2> QED
    BY <1>4, <1>6, <2>1
<1>9. \A q \in live \ {here} : nodes'[q] = nodes[q]
  BY <1>4, <1>6
<1> QED
  BY <1>1, <1>2, <1>4, <1>5, <1>8, <1>9, LocalOrderReturn

\* A flush whose node needs no restructuring returns.
LEMMA EndFlushOrder ==
  ASSUME OrderInv, ShapeInv', EndFlush
  PROVE  OrderInv'
<1>1. PICK h : Shape(h)
  BY DEF OrderInv, ShapeInv
<1>2. PICK hi : Order(hi)
  BY DEF OrderInv
<1>3. /\ TypeInv /\ Flow /\ running /\ outer = Front(stack) /\ stack # << >> /\ pc = "flush"
  BY DEF OrderInv, ShapeInv, EndFlush, FlushDone, running, outer, TypeInv, RunningCall
<1>4. /\ pc' = "return" /\ change' = frame.out /\ stack' = outer /\ nodes' = nodes /\ allocated' = allocated
      /\ rootNode' = rootNode /\ orphans' = orphans
  BY <1>3 DEF EndFlush, Give, heap, history
<1>5. change'.type = "None"
  <2>1. Len(stack) \in 1 .. Len(stack) /\ frame = stack[Len(stack)]
    BY <1>3, OuterFacts
  <2> QED BY <2>1, <1>1, <1>4 DEF Shape, Frames
<1>6. Suits(nodes'[here], hi)
  BY <1>1, <1>2, <1>3, <1>4, HereSetting, PlainSuits
<1>7. \A q \in live \ {here} : nodes'[q] = nodes[q]
  BY <1>4
<1> QED
  BY <1>1, <1>2, <1>3, <1>4, <1>5, <1>6, <1>7, LocalOrderReturn

-----------------------------------------------------------------------------
(* Passing messages and taking over reports *)

\* The innermost flush gets another batch.
LEMMA StackStep ==
  ASSUME TypeInv, stack # << >>, NEW b, stack' = [stack EXCEPT ![Len(stack)].batch = b]
  PROVE  /\ Len(stack) \in Nat /\ Len(stack) >= 1 /\ Len(stack) \in 1 .. Len(stack) /\ Len(stack') = Len(stack)
         /\ stack' # << >>
         /\ frame = stack[Len(stack)] /\ frame' = stack'[Len(stack)]
         /\ \A j \in 1 .. Len(stack) : /\ stack'[j].node = stack[j].node /\ stack'[j].child = stack[j].child
                                       /\ stack'[j].idx = stack[j].idx
                                       /\ j # Len(stack) => stack'[j].batch = stack[j].batch
         /\ stack'[Len(stack)].batch = b
<1>1. stack \in Seq(Frame) /\ Len(stack) \in Nat /\ Len(stack) >= 1
  BY EmptySeq DEF TypeInv, TypeOK
<1>2. \A j \in 1 .. Len(stack) : DOMAIN stack[j] = {"node", "child", "idx", "batch", "out"}
  <2>1. ASSUME NEW f \in Frame PROVE DOMAIN f = {"node", "child", "idx", "batch", "out"}
    BY DEF Frame
  <2>2. \A j \in 1 .. Len(stack) : stack[j] \in Frame
    BY <1>1
  <2> QED BY <2>1, <2>2
<1>3. Len(stack') = Len(stack)
  BY <1>1
<1> DEFINE top == stack[Len(stack)]
<1>4. stack' = [stack EXCEPT ![Len(stack)] = [top EXCEPT !.batch = b]]
  OBVIOUS
<1>5. \A j \in 1 .. Len(stack) : stack'[j] = IF j = Len(stack) THEN [top EXCEPT !.batch = b] ELSE stack[j]
  BY <1>1, <1>4
<1>6. \A j \in 1 .. Len(stack) : /\ stack'[j].node = stack[j].node /\ stack'[j].child = stack[j].child
                                 /\ stack'[j].idx = stack[j].idx
                                 /\ j # Len(stack) => stack'[j].batch = stack[j].batch
  BY <1>1, <1>2, <1>5
<1>7. frame = stack[Len(stack)] /\ frame' = stack'[Len(stack)]
  BY <1>3 DEF frame, Last
<1>8. stack' # << >>
  BY <1>1, <1>3
<1>9. Len(stack) \in 1 .. Len(stack)
  BY <1>1
<1>10. stack'[Len(stack)].batch = b
  BY <1>2, <1>5, <1>9
<1> QED
  BY <1>1, <1>3, <1>6, <1>7, <1>8, <1>9, <1>10

\* The flushes in progress are at different nodes.
LEMMA FramesApart ==
  ASSUME TypeInv, NEW h, Shape(h)
  PROVE  \A j \in 1 .. Len(stack) : /\ stack[j].node \in live /\ stack[j].node \in NodeId
                                    /\ \A k \in 1 .. Len(stack) : stack[j].node = stack[k].node => j = k
<1>1. live \subseteq NodeId
  BY LiveIds
<1>2. /\ \A j \in 1 .. Len(stack) : stack[j].node \in live /\ h[stack[j].node] + j = h[Nil]
      /\ h \in [NodeId \cup {Nil} -> Nat]
  BY DEF Shape, Frames
<1>3. \A j \in 1 .. Len(stack) : stack[j].node \in NodeId /\ h[stack[j].node] \in Nat
  BY <1>1, <1>2
<1>4. Len(stack) \in Nat /\ h[Nil] \in Nat
  BY <1>2 DEF TypeInv, TypeOK
<1> QED
  BY <1>2, <1>3, <1>4

\* A caller takes over what its child reports: the tree was already counted so.
LEMMA ChildReturnsOrder ==
  ASSUME OrderInv, ShapeInv', ChildReturns
  PROVE  OrderInv'
<1>1. PICK h : Shape(h)
  BY DEF OrderInv, ShapeInv
<1>2. PICK hi : Order(hi)
  BY DEF OrderInv
<1>3. /\ pc = "return" /\ stack # << >> /\ inRange(flusher, frame.idx, change)
      /\ nodes' = [id \in NodeId |-> IF id \in gone(change) THEN NewLeaf
                                     ELSE IF id = frame.node
                                       THEN adjusted(flusher, frame.idx, change)
                                       ELSE nodes[id]]
      /\ allocated' = allocated \ gone(change)
      /\ stack' = [stack EXCEPT ![Len(stack)].batch = remaining(@)]
      /\ pc' = "flush" /\ rootNode' = rootNode /\ change' = change /\ err' = err /\ orphans' = orphans
  BY DEF ChildReturns, history
<1>4. TypeInv /\ Flow /\ Batches /\ pending
  BY <1>3 DEF OrderInv, ShapeInv, pending
<1>5. settled' = settled /\ live' = live /\ tops' = tops /\ cuts' = cuts
      /\ live = (allocated \ gone(change)) \ orphans
  <2>1. settled = repaired(nodes, change, frame) /\ live = (allocated \ gone(change)) \ orphans
    BY <1>4 DEF settled, live
  <2>2. nodes' = repaired(nodes, change, frame)
    BY <1>3 DEF repaired, flusher
  <2>3. settled' = nodes' /\ live' = allocated' \ orphans'
    BY <1>3 DEF settled, live, pending
  <2>4. tops' = tops
    BY <1>3 DEF tops
  <2> QED BY <2>1, <2>2, <2>3, <2>4, <1>3 DEF cuts
<1> DEFINE b == remaining(stack[Len(stack)].batch)
<1>6. stack' = [stack EXCEPT ![Len(stack)].batch = b]
  BY <1>3
<1> HIDE DEF b
<1>7. /\ Len(stack) \in Nat /\ Len(stack) >= 1 /\ Len(stack) \in 1 .. Len(stack) /\ Len(stack') = Len(stack)
      /\ stack' # << >>
      /\ frame = stack[Len(stack)] /\ frame' = stack'[Len(stack)]
      /\ \A j \in 1 .. Len(stack) : /\ stack'[j].node = stack[j].node /\ stack'[j].child = stack[j].child
                                    /\ stack'[j].idx = stack[j].idx
                                    /\ j # Len(stack) => stack'[j].batch = stack[j].batch
      /\ stack'[Len(stack)].batch = b
  BY <1>3, <1>4, <1>6, StackStep
<1>8. \A j \in 1 .. Len(stack) : /\ stack[j].node \in live /\ stack[j].node \in NodeId
                                 /\ \A k \in 1 .. Len(stack) : stack[j].node = stack[k].node => j = k
  BY <1>1, <1>4, FramesApart
<1>9. ASSUME NEW j \in 1 .. Len(stack)
      PROVE  stack'[j].batch \subseteq messagesFor(nodes'[stack'[j].node], stack'[j].idx)
  <2>1. stack[j].batch \subseteq messagesFor(nodes[stack[j].node], stack[j].idx)
    BY <1>4 DEF Batches
  <2>2. stack[j].node \notin gone(change) /\ stack[j].node \in NodeId
    BY <1>5, <1>8
  <2>3. CASE j # Len(stack)
    <3>1. nodes'[stack[j].node] = nodes[stack[j].node]
      BY <1>3, <1>7, <1>8, <2>2, <2>3
    <3> QED
      BY <1>7, <2>1, <2>3, <3>1
  <2>4. CASE j = Len(stack) /\ err = "Success"
    <3>1. change.type = "None"
      BY <1>3, <1>4, <2>4 DEF Flow
    <3>2. adjusted(flusher, frame.idx, change) = flusher
      BY <3>1 DEF adjusted
    <3>3. nodes'[stack[j].node] = nodes[stack[j].node]
      BY <1>3, <2>2, <3>2, <1>7, <2>4 DEF flusher
    <3>4. b = stack[j].batch
      BY <2>4 DEF b, remaining
    <3> QED
      BY <1>7, <2>1, <2>4, <3>3, <3>4
  <2>5. CASE j = Len(stack) /\ err # "Success"
    <3>1. b = {}
      BY <2>5 DEF b, remaining
    <3> QED
      BY <1>7, <2>5, <3>1
  <2> QED
    BY ONLY <2>3, <2>4, <2>5
<1>10. Batches'
  BY <1>7, <1>9 DEF Batches
<1>11. Control(hi)'
  <2>1. \A j \in 1 .. Len(stack) : settled[stack[j].node].lowest <= hi[stack[j].node]
    BY <1>2 DEF Order, Control
  <2> QED
    BY <1>3, <1>5, <1>7, <2>1 DEF Control
<1>12. Order(hi)'
  BY <1>2, <1>5, <1>11 DEF Order
<1> QED
  BY <1>10, <1>12 DEF OrderInv

\* A node that was not interrupted passes only messages for the child that it calls.
LEMMA PassedKey ==
  ASSUME TypeInv, Flow, Batches, pc = "flush", NEW h, Shape(h), NEW hi, Order(hi),
         NEW k \in frame.batch, k \in DOMAIN flusher.buffer
  PROVE  /\ here = frame.node /\ outer = Front(stack) /\ running
         /\ here \in live /\ here \in NodeId
         /\ frame.idx + 1 \in 1 .. deg(settled, tops, here) /\ kid(settled, tops, here, frame.idx + 1) = frame.child
         /\ k \in Int /\ k <= hi[here]
         /\ frame.idx \in Nat
         /\ frame.idx > 0 => nodes[here].keys[frame.idx] <= k
         /\ frame.idx + 1 < deg(settled, tops, here) => k < nodes[here].keys[frame.idx + 1]
         /\ lft(settled, here) # Nil => nodes[here].lowest <= k
<1>1. here = frame.node /\ outer = Front(stack) /\ running /\ stack # << >>
  BY DEF here, outer, running, TypeInv, RunningCall
<1>2. here \in live /\ here \in NodeId /\ here # Nil /\ \A id \in NodeId : settled[id] = nodes[id]
  BY <1>1, HereFacts, RunningPlain
<1>3. current(settled, frame)
  BY DEF Flow
<1>4. Len(stack) \in 1 .. Len(stack) /\ frame = stack[Len(stack)] /\ frame \in Frame
  BY <1>1, OuterFacts DEF TypeInv, TypeOK
<1>5. k \in messagesFor(nodes[here], frame.idx)
  BY <1>1, <1>4 DEF Batches
<1>6. frame.idx \in Nat /\ frame.child \in NodeId
  BY <1>4 DEF Frame
<1>7. isNode(nodes[here])
  BY <1>2 DEF TypeInv, TypeOK, isHeap
<1> DEFINE n == nodes[here]
<1>8. /\ hi[here] \in Int /\ Fine(n, settled, hi, hi[here])
      /\ lft(settled, here) # Nil => From(n, settled, hi, n.lowest)
  BY <1>2 DEF Order, Ordered, Sound, nd
<1>9. n.children \in Seq(NodeId) /\ n.keys \in Seq(KeyType) /\ k \in DOMAIN n.buffer
  BY <1>5, <1>7 DEF isNode, messagesFor
<1>10. k \in own(n) /\ k \in Int
  <2>1. k \in own(n)
    BY <1>9 DEF own
  <2> QED
    BY <1>8, <2>1, OwnNumbers DEF Fine
<1>11. k <= hi[here]
  BY <1>8, <1>10 DEF Fine
<1>12. lft(settled, here) # Nil => n.lowest <= k
  BY <1>8, <1>10 DEF From
<1>13. deg(settled, tops, here) = Len(n.children) /\ \A j : kid(settled, tops, here, j) = n.children[j]
  BY <1>2 DEF deg, kid, kids
<1>14. frame.idx + 1 \in 1 .. Len(n.children) /\ n.children[frame.idx + 1] = frame.child
  BY <1>1, <1>2, <1>3, <1>9 DEF current
<1>15. Len(n.children) = Len(n.keys) + 1 /\ ascending(n.keys)
  <2>1. numeric(n) /\ ascending(n.keys)
    BY <1>8 DEF Fine
  <2>2. Len(n.children) # 0
    BY <1>14
  <2> QED
    BY <2>1, <2>2 DEF numeric
<1> DEFINE a == Len(n.keys)
           s == n.keys
           i == frame.idx
<1>16. a \in Nat /\ i \in 0 .. a
  BY <1>6, <1>9, <1>14, <1>15
<1>17. upperBound(s, k) = i
  BY <1>5 DEF messagesFor
<1>18. s \in Seq(KeyType) /\ ascending(s) /\ i \in 0 .. Len(s)
  BY <1>9, <1>15, <1>16
<1> HIDE DEF s, i
<1>19. (i > 0 => s[i] <= k) /\ (i < Len(s) => k < s[i + 1])
  BY ONLY <1>10, <1>17, <1>18, BetweenPivots
<1>20. frame.idx > 0 => n.keys[frame.idx] <= k
  BY <1>19 DEF i, s
<1>21. frame.idx + 1 < deg(settled, tops, here) => k < n.keys[frame.idx + 1]
  BY <1>13, <1>15, <1>16, <1>19 DEF i, s
<1> QED
  BY <1>1, <1>2, <1>6, <1>10, <1>11, <1>12, <1>13, <1>14, <1>20, <1>21

\* The next message of the batch goes to the child.
LEMMA PassMessageOrder ==
  ASSUME OrderInv, ShapeInv', PassMessage
  PROVE  OrderInv'
<1>1. PICK h : Shape(h)
  BY DEF OrderInv, ShapeInv
<1>2. PICK hi : Order(hi)
  BY DEF OrderInv
<1>3. PICK k \in frame.batch :
        /\ pass(k) /\ k \in DOMAIN flusher.buffer
        /\ nodes' = [nodes EXCEPT ![frame.node].buffer = Restrict(@, DOMAIN @ \ {k})]
        /\ stack' = [stack EXCEPT ![Len(stack)].batch = @ \ {k}]
  BY DEF PassMessage
<1>4. /\ pc = "flush" /\ frame.batch # {} /\ pc' = "apply" /\ allocated' = allocated /\ rootNode' = rootNode
      /\ change' = change /\ err' = err /\ orphans' = orphans
  BY DEF PassMessage, history
<1>5. TypeInv /\ Flow /\ Batches /\ stack # << >>
  BY <1>4 DEF OrderInv, ShapeInv, TypeInv, RunningCall
<1>6. /\ here = frame.node /\ outer = Front(stack) /\ running
      /\ here \in live /\ here \in NodeId
      /\ frame.idx + 1 \in 1 .. deg(settled, tops, here) /\ kid(settled, tops, here, frame.idx + 1) = frame.child
      /\ k \in Int /\ k <= hi[here]
      /\ frame.idx \in Nat
      /\ frame.idx > 0 => nodes[here].keys[frame.idx] <= k
      /\ frame.idx + 1 < deg(settled, tops, here) => k < nodes[here].keys[frame.idx + 1]
      /\ lft(settled, here) # Nil => nodes[here].lowest <= k
  BY <1>1, <1>2, <1>3, <1>4, <1>5, PassedKey
<1>7. /\ \A id \in NodeId : settled[id] = nodes[id]
      /\ live = allocated \ orphans
      /\ rootNode # Nil /\ tops = <<rootNode>>
      /\ live \subseteq NodeId /\ Nil \notin live
  BY <1>5, <1>6, RunningPlain, LiveIds
<1>8. settled' = nodes' /\ live' = live /\ tops' = tops /\ cuts' = cuts
  BY <1>4, <1>7 DEF settled, live, tops, pending, cuts
<1>9. isNode(nodes[here]) /\ DOMAIN nodes = NodeId
  BY <1>5, <1>6 DEF TypeInv, TypeOK, isHeap
<1>10. /\ \A q \in NodeId \ {here} : nodes'[q] = nodes[q]
       /\ \A f \in {"leaf", "keys", "children", "left", "lowest"} : nodes'[here][f] = nodes[here][f]
       /\ DOMAIN nodes'[here].buffer = DOMAIN nodes[here].buffer \ {k}
  <2>1. nodes' = [nodes EXCEPT ![here] = [nodes[here] EXCEPT !.buffer = Restrict(@, DOMAIN @ \ {k})]]
    BY <1>3, <1>6
  <2>2. nodes'[here] = [nodes[here] EXCEPT !.buffer = Restrict(@, DOMAIN @ \ {k})]
    BY <1>6, <1>9, <2>1
  <2>3. \A f \in {"leaf", "keys", "children", "left", "lowest"} : nodes'[here][f] = nodes[here][f]
    BY <1>9, <2>2 DEF isNode
  <2>4. nodes'[here].buffer = Restrict(nodes[here].buffer, DOMAIN nodes[here].buffer \ {k})
    BY <1>9, <2>2 DEF isNode
  <2>5. DOMAIN nodes'[here].buffer = DOMAIN nodes[here].buffer \ {k}
    BY <2>4 DEF Restrict
  <2>6. \A q \in NodeId \ {here} : nodes'[q] = nodes[q]
    BY <1>9, <2>1
  <2> QED
    BY ONLY <2>3, <2>5, <2>6
<1> DEFINE x == frame.child
           i == frame.idx + 1
           p == here
<1>11. /\ i \in 1 .. deg(settled, tops, p) /\ x = kid(settled, tops, p, i) /\ p \in live /\ p \in live \cup {Nil} /\ i \in Nat
       /\ i > 1 => nodes[p].keys[i - 1] <= k
       /\ i < deg(settled, tops, p) => k < nodes[p].keys[i]
       /\ k \in Int /\ k <= hi[p]
       /\ p \in NodeId /\ p # Nil
       /\ lft(settled, p) # Nil => nodes[p].lowest <= k
  BY <1>6, <1>7
<1>12. Tree(settled, tops, live, h) /\ Ordered(settled, tops, cuts, live, hi) /\ hi \in [NodeId \cup {Nil} -> Int]
  BY <1>1, <1>2 DEF Shape, Order
<1>ho. PICK ho : ho = [hi EXCEPT ![x] = IF hi[x] < k THEN k ELSE hi[x]]
  OBVIOUS
<1>13. /\ x \in live /\ x \in NodeId /\ x # p /\ x # Nil
       /\ hi[x] \in Int
       /\ ho \in [NodeId \cup {Nil} -> Int]
       /\ ho[x] = IF hi[x] < k THEN k ELSE hi[x]
       /\ \A q \in (NodeId \cup {Nil}) \ {x} : ho[q] = hi[q]
  <2>1. x \in live /\ x \in NodeId /\ x # p /\ x # Nil
    BY <1>7, <1>11, <1>12, KidFacts
  <2>2. hi[x] \in Int
    BY <1>12, <2>1
  <2> QED
    BY <1>11, <1>12, <1>ho, <2>1, <2>2
<1>14. /\ Tree(settled, tops, live, h) /\ Ordered(settled, tops, cuts, live, hi)
       /\ p \in live \cup {Nil} /\ i \in 1 .. deg(settled, tops, p) /\ x = kid(settled, tops, p, i)
       /\ Nil \notin live
  BY <1>7, <1>11, <1>12
<1> HIDE DEF x, i, p
<1>15. Kin(settled, tops, cuts, live, hi, p, i, x)
  BY ONLY <1>14, KinOrder
<1>16. nd(settled, tops, cuts, p) = nodes[p] /\ settled[p] = nodes[p] /\ settled[x] = nodes[x]
  BY <1>7, <1>11, <1>13 DEF nd
<1>17. /\ \A q \in live : nodes'[q].lowest = settled[q].lowest /\ nodes'[q].left = settled[q].left
                          /\ nodes'[q].leaf = settled[q].leaf /\ nodes'[q].keys = settled[q].keys
                          /\ nodes'[q].children = settled[q].children
                          /\ DOMAIN nodes'[q].buffer \subseteq DOMAIN settled[q].buffer
       /\ \A q \in live \ {p} : nodes'[q] = settled[q]
  <2>1. \A q \in live \ {p} : nodes'[q] = settled[q]
    BY <1>7, <1>10 DEF p
  <2> QED
    BY <1>7, <1>10, <2>1 DEF p
<1>18. hi[x] <= ho[x] /\ k <= ho[x] /\ ho[x] \in Int /\ ho[x] \in {k, hi[x]}
  BY <1>11, <1>13
<1>19. Touches(settled, tops, cuts, live, hi, settled', ho, p, i, x)
  <2>1. \A q \in live \ {x, p} : likened(settled'[q], settled[q])
    BY <1>8, <1>17 DEF likened
  <2>2. \A q \in live \ {x} : settled'[q].lowest = settled[q].lowest /\ ho[q] = hi[q]
    BY <1>7, <1>8, <1>13, <1>17
  <2>3. \A q \in live : settled'[q].left # Nil => settled[q].left # Nil
    BY <1>8, <1>17
  <2>4. ho[Nil] = hi[Nil]
    BY <1>13
  <2>5. p # Nil => /\ settled'[p].leaf = settled[p].leaf /\ settled'[p].keys = settled[p].keys
                   /\ settled'[p].children = settled[p].children
                   /\ DOMAIN settled'[p].buffer \subseteq DOMAIN settled[p].buffer
    BY <1>8, <1>11, <1>17
  <2>6. settled'[x] = settled[x]
    BY <1>8, <1>13, <1>17
  <2>7. Fine(settled[x], settled, hi, ho[x])
    BY <1>13, <1>15, <1>18, FineHigher DEF Kin
  <2>8. settled[x].lowest \in Int
    BY <1>15 DEF Kin
  <2>9. ho[x] <= hi[p] /\ (i < deg(settled, tops, p) => ho[x] < nd(settled, tops, cuts, p).keys[i])
    BY <1>11, <1>15, <1>16, <1>18 DEF Kin
  <2>10. /\ lft(settled, x) # Nil => From(settled[x], settled, hi, settled[x].lowest)
         /\ i > 1 => nd(settled, tops, cuts, p).keys[i - 1] <= settled[x].lowest
         /\ lft(settled, p) # Nil => settled[p].lowest <= settled[x].lowest
    BY <1>15 DEF Kin
  <2>11. i > 1 \/ lft(settled, p) # Nil => settled[x].lowest <= ho[x]
    BY <1>13, <1>15, <1>18 DEF Kin
  <2> QED
    BY ONLY <1>18, <2>1, <2>2, <2>3, <2>4, <2>5, <2>6, <2>7, <2>8, <2>9, <2>10, <2>11 DEF Touches
<1>20. Ordered(settled', tops', cuts', live', ho)
  <2>1. Ordered(settled', tops, cuts, live, ho)
    BY ONLY <1>14, <1>19, TouchOrder
  <2> QED
    BY <1>8, <2>1
<1> DEFINE b == stack[Len(stack)].batch \ {k}
<1>21. stack' = [stack EXCEPT ![Len(stack)].batch = b]
  BY <1>3
<1> HIDE DEF b
<1>22. /\ Len(stack) \in Nat /\ Len(stack) >= 1 /\ Len(stack) \in 1 .. Len(stack) /\ Len(stack') = Len(stack)
       /\ stack' # << >>
       /\ frame = stack[Len(stack)] /\ frame' = stack'[Len(stack)]
       /\ \A j \in 1 .. Len(stack) : /\ stack'[j].node = stack[j].node /\ stack'[j].child = stack[j].child
                                     /\ stack'[j].idx = stack[j].idx
                                     /\ j # Len(stack) => stack'[j].batch = stack[j].batch
       /\ stack'[Len(stack)].batch = b
  BY <1>5, <1>21, StackStep
<1>23. \A j \in 1 .. Len(stack) : /\ stack[j].node \in live /\ stack[j].node \in NodeId
                                  /\ \A g \in 1 .. Len(stack) : stack[j].node = stack[g].node => j = g
  BY <1>1, <1>5, FramesApart
<1>24. ASSUME NEW j \in 1 .. Len(stack)
       PROVE  stack'[j].batch \subseteq messagesFor(nodes'[stack'[j].node], stack'[j].idx)
  <2>1. stack[j].batch \subseteq messagesFor(nodes[stack[j].node], stack[j].idx)
    BY <1>5 DEF Batches
  <2>2. CASE j # Len(stack)
    <3>1. stack[j].node # p
      BY <1>6, <1>22, <1>23, <2>2 DEF p
    <3>2. nodes'[stack[j].node] = nodes[stack[j].node]
      BY <1>7, <1>17, <1>23, <3>1
    <3> QED
      BY <1>22, <2>1, <2>2, <3>2
  <2>3. CASE j = Len(stack)
    <3>1. stack[j].node = here /\ stack'[j].batch = stack[j].batch \ {k}
      BY <1>6, <1>22, <2>3 DEF b
    <3>2. nodes'[here].keys = nodes[here].keys /\ DOMAIN nodes'[here].buffer = DOMAIN nodes[here].buffer \ {k}
      BY <1>10
    <3> QED
      BY <1>22, <2>1, <3>1, <3>2 DEF messagesFor
  <2> QED
    BY ONLY <2>2, <2>3
<1>25. Batches'
  BY <1>22, <1>24 DEF Batches
<1>26. call'.key = k /\ call'.node = x /\ here' = x /\ outer' = stack' /\ above' = p /\ place' = i
  <2>1. call'.key = k /\ call'.node = x
    BY <1>3 DEF pass, x
  <2>2. here' = x /\ outer' = stack'
    BY <1>4, <2>1 DEF here, outer
  <2>3. Last(stack') = stack'[Len(stack')]
    BY DEF Last
  <2>4. above' = p /\ place' = i
    BY <1>6, <1>22, <2>2, <2>3 DEF above, place, p, i
  <2> QED
    BY <2>1, <2>2, <2>4
<1>27. reaches(call.key)'
  <2>1. i > 1 => settled'[p].keys[i - 1] <= k
    BY <1>8, <1>11, <1>16, <1>17
  <2>2. lft(settled', p) # Nil => settled'[p].lowest <= k
    BY <1>8, <1>11, <1>16, <1>17 DEF lft
  <2> QED
    BY <1>26, <2>1, <2>2 DEF reaches
<1>28. \A j \in 1 .. Len(stack) : settled'[stack[j].node].lowest <= ho[stack[j].node]
  <2> SUFFICES ASSUME NEW j \in 1 .. Len(stack)
               PROVE  settled'[stack[j].node].lowest <= ho[stack[j].node]
    OBVIOUS
  <2>1. settled[stack[j].node].lowest <= hi[stack[j].node]
    BY <1>2 DEF Order, Control
  <2>2. stack[j].node \in live /\ stack[j].node \in NodeId
    BY <1>23
  <2>3. settled'[stack[j].node].lowest = settled[stack[j].node].lowest
    BY <1>8, <1>17, <2>2
  <2>4. CASE stack[j].node = x
    <3>1. settled[x].lowest \in Int
      BY <1>15 DEF Kin
    <3> QED
      BY <1>13, <1>18, <2>1, <2>3, <2>4, <3>1
  <2>5. CASE stack[j].node # x
    BY <1>13, <2>1, <2>2, <2>3, <2>5
  <2> QED
    BY ONLY <2>4, <2>5
<1>29. Control(ho)'
  BY <1>4, <1>18, <1>22, <1>26, <1>27, <1>28 DEF Control
<1>30. Order(ho)'
  BY <1>13, <1>20, <1>29 DEF Order
<1> QED
  BY <1>25, <1>30 DEF OrderInv

\* The buffer overflows, and a batch of it is to go to one child.
LEMMA StartFlushOrder ==
  ASSUME OrderInv, ShapeInv', StartFlush
  PROVE  OrderInv'
<1> DEFINE n == buffered(target)
           fr(i) == [node |-> call.node, child |-> n.children[i + 1], idx |-> i,
                     batch |-> messagesFor(n, i), out |-> change]
<1>1. PICK h : Shape(h)
  BY DEF OrderInv, ShapeInv
<1>2. PICK hi : Order(hi)
  BY DEF OrderInv
<1>3. /\ pc = "apply" /\ ~target.leaf /\ nodes' = [nodes EXCEPT ![call.node] = n]
      /\ pc' = "flush" /\ change' = NoChange /\ err' = "Success" /\ allocated' = allocated
      /\ rootNode' = rootNode /\ orphans' = orphans
      /\ \E i \in 0 .. size(n) : stack' = Append(stack, fr(i))
  BY DEF StartFlush, history
<1>4. /\ TypeInv /\ Flow /\ running /\ here = call.node /\ outer = stack
      /\ here \in live /\ here \in NodeId /\ target = nodes[here] /\ live \subseteq NodeId
      /\ Batches
  BY <1>1, <1>3, ApplyFacts DEF OrderInv
<1>5. \A id \in NodeId : nodes'[id] = IF id = here THEN n ELSE nodes[id]
  BY <1>3, <1>4 DEF TypeInv, TypeOK, isHeap
<1>6. PICK i \in 0 .. size(n) : stack' = Append(stack, fr(i))
  BY <1>3
<1>7. Setting(nodes[here], hi)
  BY <1>1, <1>2, <1>4, HereSetting
<1>8. Suits(n, hi) /\ n.lowest <= hi[here]
  BY <1>3, <1>4, <1>7, BufferedSuits
<1> HIDE DEF n
<1>9. /\ \A id \in NodeId : settled[id] = nodes[id]
      /\ settled' = nodes' /\ live' = live /\ tops' = tops /\ cuts' = cuts
  <2>1. /\ \A id \in NodeId : settled[id] = nodes[id]
        /\ live = allocated \ orphans /\ rootNode # Nil /\ tops = <<rootNode>>
    BY <1>4, RunningPlain
  <2> QED BY <2>1, <1>3 DEF settled, live, tops, pending, cuts
<1>10. Ordered(settled', tops', cuts', live', hi)
  <2>1. \A q \in live \ {here} : settled'[q] = nodes[q]
    BY <1>4, <1>5, <1>9
  <2>2. Suits(settled'[here], hi)
    BY <1>4, <1>5, <1>8, <1>9
  <2>3. Ordered(settled', tops, cuts, live, hi)
    BY <1>1, <1>2, <1>4, <2>1, <2>2, TouchHere
  <2> QED
    BY <1>9, <2>3
<1>11. /\ Len(stack) \in Nat /\ Len(stack') = Len(stack) + 1
       /\ \A j \in 1 .. Len(stack) : stack'[j] = stack[j]
       /\ stack'[Len(stack) + 1] = fr(i)
  <2>1. Len(stack) \in Nat /\ stack \in Seq(Frame) /\ stack' \in Seq(Frame)
    BY <1>4 DEF OrderInv, ShapeInv, TypeInv, TypeOK
  <2> HIDE DEF fr
  <2> QED BY <1>6, <2>1
<1>12. fr(i).node = here /\ fr(i).idx = i /\ fr(i).batch = messagesFor(n, i)
  BY <1>4
<1> HIDE DEF fr
<1>13. \A j \in 1 .. Len(stack) : stack[j].node \in live /\ stack[j].node \in NodeId /\ stack[j].node # here
  <2>1. Len(outer) = Len(stack) /\ \A j \in 1 .. Len(outer) : outer[j] = stack[j]
    BY <1>4
  <2>2. \A j \in 1 .. Len(outer) : outer[j].node \in live /\ h[outer[j].node] > h[here]
    BY <1>1, <1>4, HereFacts
  <2>3. h[here] \in Nat
    BY <1>1, <1>4, HereFacts
  <2> QED
    BY <1>4, <2>1, <2>2, <2>3
<1>14. \A j \in 1 .. (Len(stack) + 1) : j \in 1 .. Len(stack) \/ j = Len(stack) + 1
  BY <1>11
<1>15. ASSUME NEW j \in 1 .. (Len(stack) + 1)
       PROVE  /\ stack'[j].batch \subseteq messagesFor(nodes'[stack'[j].node], stack'[j].idx)
              /\ settled'[stack'[j].node].lowest <= hi[stack'[j].node]
  <2>1. CASE j \in 1 .. Len(stack)
    <3>1. nodes'[stack[j].node] = nodes[stack[j].node] /\ settled[stack[j].node] = nodes[stack[j].node]
      BY <1>5, <1>9, <1>13, <2>1
    <3>2. stack[j].batch \subseteq messagesFor(nodes[stack[j].node], stack[j].idx)
      BY <1>4, <2>1 DEF Batches
    <3>3. settled[stack[j].node].lowest <= hi[stack[j].node]
      BY <1>2, <2>1 DEF Order, Control
    <3> QED
      BY <1>9, <1>11, <2>1, <3>1, <3>2, <3>3
  <2>2. CASE j = Len(stack) + 1
    <3>1. stack'[j] = fr(i) /\ nodes'[here] = n
      BY <1>4, <1>5, <1>11, <2>2
    <3> QED
      BY <1>8, <1>9, <1>12, <3>1
  <2> QED
    BY ONLY <1>14, <2>1, <2>2
<1>16. Batches'
  BY <1>11, <1>15 DEF Batches
<1>17. Control(hi)'
  BY <1>3, <1>11, <1>15 DEF Control
<1>18. Order(hi)'
  BY <1>2, <1>10, <1>17 DEF Order
<1> QED
  BY <1>16, <1>18 DEF OrderInv

-----------------------------------------------------------------------------
(* Entering and leaving the tree *)

\* The empty vector.
LEMMA EmptyVector == Len(<< >>) = 0 /\ DOMAIN << >> = {} /\ 1 .. Len(<< >>) = {}
<1>1. Len(<< >>) = 0
  OBVIOUS
<1>2. DOMAIN << >> = {}
  OBVIOUS
<1>3. 1 .. 0 = {}
  OBVIOUS
<1> QED
  BY <1>1, <1>2, <1>3

\* What hangs below Nil is in order if the only top is.
LEMMA OneTopOrder ==
  ASSUME NEW r, NEW N, NEW hi, NEW b, hi[r] \in Int, hi[r] <= b, N[r].lowest \in Int
  PROVE  Fine(crown(<<r>>, << >>), N, hi, b)
<1> DEFINE c == crown(<<r>>, << >>)
<1>1. c.children = <<r>> /\ c.keys = << >> /\ c.leaf = (<<r>> = << >>) /\ c.buffer = << >>
  BY DEF crown
<1>2. Len(<<r>>) = 1 /\ <<r>>[1] = r /\ <<r>> # << >>
  OBVIOUS
<1> HIDE DEF c
<1>3. c.leaf = FALSE /\ Len(c.children) = 1 /\ c.children[1] = r
  BY <1>1, <1>2
<1>4. Len(c.keys) = 0 /\ DOMAIN c.buffer = {} /\ 1 .. Len(c.keys) = {}
  BY <1>1, EmptyVector
<1>5. numeric(c)
  <2>1. c.leaf \in BOOLEAN /\ ~c.leaf
    BY <1>3
  <2>2. integers(c.keys)
    BY <1>4 DEF integers
  <2>3. DOMAIN c.buffer \subseteq Int
    BY <1>4
  <2>4. Len(c.children) \in Nat /\ Len(c.children) = Len(c.keys) + 1
    BY ONLY <1>3, <1>4
  <2> QED
    BY ONLY <2>1, <2>2, <2>3, <2>4 DEF numeric
<1>6. ascending(c.keys)
  BY <1>4 DEF ascending
<1>7. \A z \in own(c) : FALSE
  <2>1. \A z \in own(c) : (\E i \in 1 .. Len(c.keys) : z = c.keys[i]) \/ z \in DOMAIN c.buffer
    BY DEF own
  <2> QED
    BY ONLY <1>4, <2>1
<1>8. \A j \in 1 .. Len(c.children) : fits(c, N, hi, b, j)
  <2> SUFFICES ASSUME NEW j \in 1 .. Len(c.children)
               PROVE  fits(c, N, hi, b, j)
    OBVIOUS
  <2>1. j = 1
    BY <1>3
  <2> QED
    BY <1>3, <2>1 DEF fits
<1>9. Fine(c, N, hi, b)
  BY <1>5, <1>6, <1>7, <1>8 DEF Fine
<1> QED
  BY <1>9 DEF c

\* The bounds of a tree that is called with key k.
lifted(hi, k) ==
  [q \in NodeId \cup {Nil} |-> IF q \in {Nil, rootNode} /\ hi[q] < k THEN k ELSE hi[q]]

\* A call on a tree that has a root.
LEMMA EnterOrder ==
  ASSUME OrderInv, ShapeInv', NEW k \in Key, NEW m, pc = "idle", rootNode # Nil,
         UNCHANGED <<heap, rootNode>>, Enter(k, m)
  PROVE  OrderInv'
<1>1. PICK h : Shape(h)
  BY DEF OrderInv, ShapeInv
<1>2. PICK hi : Order(hi)
  BY DEF OrderInv
<1>3. TypeInv /\ Flow /\ Sizes
  BY DEF OrderInv, ShapeInv
<1>4. /\ settled = nodes /\ live = allocated \ orphans /\ stack = << >>
      /\ tops = <<rootNode>> /\ rootNode \in live /\ live \subseteq NodeId /\ Nil \notin live
  BY <1>1, <1>3, IdleFacts, LiveIds
<1>5. /\ nodes' = nodes /\ allocated' = allocated /\ rootNode' = rootNode /\ pc' = "apply"
      /\ change' = NoChange /\ stack' = stack /\ orphans' = orphans /\ call'.node = rootNode /\ call'.key = k
  BY DEF heap, history, Enter
<1>6. /\ settled' = settled /\ live' = live /\ tops' = tops /\ cuts' = cuts
  BY <1>4, <1>5 DEF settled, live, tops, pending, cuts
<1> DEFINE r == rootNode
<1>ho. PICK ho : ho = lifted(hi, k)
  OBVIOUS
<1>7. k \in Int /\ hi \in [NodeId \cup {Nil} -> Int] /\ Ordered(settled, tops, cuts, live, hi)
      /\ Tree(settled, tops, live, h)
  BY <1>1, <1>2, KeyNumbers DEF Order, Shape
<1>8. /\ ho \in [NodeId \cup {Nil} -> Int]
      /\ \A q \in NodeId \cup {Nil} : ho[q] = IF q \in {Nil, r} /\ hi[q] < k THEN k ELSE hi[q]
  BY <1>7, <1>ho DEF lifted
<1>9. \A q \in {Nil, r} : hi[q] \in Int /\ ho[q] \in Int /\ hi[q] <= ho[q] /\ k <= ho[q]
  BY <1>4, <1>7, <1>8
<1>10. r \in live /\ r # Nil /\ r \in NodeId
  BY <1>4
<1>11. /\ deg(settled, tops, Nil) = 1 /\ kid(settled, tops, Nil, 1) = r /\ up(settled, r) = Nil
       /\ lft(settled, Nil) = Nil
  <2>1. deg(settled, tops, Nil) = 1 /\ kid(settled, tops, Nil, 1) = r
    BY <1>4 DEF deg, kid, kids
  <2>2. r = kid(settled, tops, Nil, 1) /\ 1 \in 1 .. deg(settled, tops, Nil)
    BY <2>1
  <2>3. up(settled, r) = Nil
    BY <1>4, <1>7, <2>2, KidFacts
  <2> QED
    BY <2>1, <2>3 DEF lft
<1>12. Kin(settled, tops, cuts, live, hi, Nil, 1, r)
  <2>1. 1 \in 1 .. deg(settled, tops, Nil) /\ r = kid(settled, tops, Nil, 1) /\ Nil \in live \cup {Nil}
    BY <1>11
  <2> QED
    BY <1>4, <1>7, <2>1, KinOrder
<1>13. ho[r] <= ho[Nil]
  <2>1. hi[r] <= hi[Nil] /\ hi[r] \in Int /\ hi[Nil] \in Int
    BY <1>12 DEF Kin
  <2> QED
    BY <1>7, <1>8, <1>10, <2>1
<1>14. Sound(settled[r], settled, ho, r)
  <2>1. Fine(settled[r], settled, hi, hi[r]) /\ (lft(settled, r) # Nil => From(settled[r], settled, hi, settled[r].lowest))
    BY <1>12 DEF Kin
  <2>2. Fine(settled[r], settled, hi, ho[r])
    BY <1>9, <2>1, FineHigher
  <2>3. \A j \in 1 .. Len(settled[r].children) :
          /\ settled[settled[r].children[j]].lowest = settled[settled[r].children[j]].lowest
          /\ ho[settled[r].children[j]] = hi[settled[r].children[j]]
    <3>1. deg(settled, tops, r) = Len(settled[r].children) /\ \A j : kid(settled, tops, r, j) = settled[r].children[j]
      BY <1>10 DEF deg, kid, kids
    <3>2. 1 \in 1 .. deg(settled, tops, Nil) /\ r = kid(settled, tops, Nil, 1) /\ Nil \in live \cup {Nil}
      BY <1>11
    <3>3. \A j \in 1 .. deg(settled, tops, r) : kid(settled, tops, r, j) \in live \ {r, Nil}
      BY <1>4, <1>7, <3>2, KidFacts
    <3> QED
      BY <1>4, <1>8, <3>1, <3>3
  <2> QED
    BY <2>1, <2>2, <2>3, FineStays DEF Sound
<1>15. Sound(nd(settled, tops, cuts, Nil), settled, ho, Nil)
  <2>1. cuts = << >>
    <3>1. Len(tops) = 1
      BY <1>4
    <3> QED
      BY <3>1 DEF cuts
  <2>2. settled[r].lowest \in Int
    BY <1>12 DEF Kin
  <2>3. Fine(crown(<<r>>, << >>), settled, ho, ho[Nil])
    BY ONLY <1>9, <1>13, <2>2, OneTopOrder
  <2>4. nd(settled, tops, cuts, Nil) = crown(<<r>>, << >>)
    BY <1>4, <2>1 DEF nd
  <2> QED
    BY <1>11, <2>3, <2>4 DEF Sound
<1>16. Patched(settled, tops, cuts, live, hi, settled, tops, cuts, live, ho, Nil, {r})
  <2>1. \A q \in live \ {r} : ho[q] = hi[q]
    BY <1>4, <1>8
  <2>2. \A q \in (live \cap {r}) \cup {Nil} : ho[q] \in Int /\ Sound(nd(settled, tops, cuts, q), settled, ho, q)
    BY <1>9, <1>10, <1>14, <1>15 DEF nd
  <2> QED
    BY ONLY <1>10, <1>11, <2>1, <2>2 DEF Patched, likened
<1>17. Ordered(settled, tops, cuts, live, ho)
  <2>1. Downward(settled, tops, live)
    BY <1>7 DEF Tree
  <2> QED
    BY ONLY <1>4, <1>7, <1>16, <2>1, LocalOrder
<1>18. Control(ho)'
  <2>1. here' = r /\ outer' = << >>
    BY <1>4, <1>5 DEF here, outer
  <2>2. above' = Nil /\ place' = 1
    BY <2>1 DEF above, place
  <2>3. reaches(call.key)'
    BY <2>2 DEF reaches, lft
  <2> QED
    BY <1>4, <1>5, <1>9, <2>1, <2>3 DEF Control
<1>19. Order(ho)'
  BY <1>6, <1>8, <1>17, <1>18 DEF Order
<1>20. Batches'
  BY <1>4, <1>5 DEF Batches
<1> QED
  BY <1>19, <1>20 DEF OrderInv

\* An insert into a tree that has a root begins.
LEMMA StartInsertOrder ==
  ASSUME OrderInv, ShapeInv', NEW k \in Key, NEW v, StartInsert(k, v)
  PROVE  OrderInv'
BY EnterOrder DEF StartInsert

\* A remove begins.
LEMMA StartRemoveOrder ==
  ASSUME OrderInv, ShapeInv', NEW k \in Key, StartRemove(k)
  PROVE  OrderInv'
BY EnterOrder DEF StartRemove

-----------------------------------------------------------------------------
(* The empty tree, and the end of a call *)

\* A node without keys, messages and children.
Bare(n) == n.leaf \in BOOLEAN /\ n.leaf /\ Len(n.keys) = 0 /\ Len(n.children) = 0 /\ DOMAIN n.buffer = {}

\* Such a node is in order.
LEMMA BareFine ==
  ASSUME NEW n, Bare(n), NEW N, NEW hi, NEW b
  PROVE  Fine(n, N, hi, b)
<1>0. n.leaf \in BOOLEAN /\ n.leaf /\ Len(n.keys) = 0 /\ Len(n.children) = 0 /\ DOMAIN n.buffer = {}
  BY DEF Bare
<1>1. 1 .. Len(n.keys) = {} /\ 1 .. Len(n.children) = {} /\ Len(n.keys) \in Nat /\ Len(n.children) \in Nat
  BY <1>0
<1>2. numeric(n)
  BY <1>0, <1>1 DEF numeric, integers
<1>3. ascending(n.keys)
  BY <1>1 DEF ascending
<1>4. \A z \in own(n) : FALSE
  <2>1. \A z \in own(n) : (\E i \in 1 .. Len(n.keys) : z = n.keys[i]) \/ z \in DOMAIN n.buffer
    BY DEF own
  <2> QED
    BY ONLY <1>0, <1>1, <2>1
<1> QED
  BY <1>1, <1>2, <1>3, <1>4 DEF Fine

\* The tree without nodes is in order.
LEMMA EmptyOrder ==
  ASSUME NEW N, NEW hi, hi[Nil] \in Int
  PROVE  Ordered(N, << >>, << >>, {}, hi)
<1> DEFINE c == crown(<< >>, << >>)
<1>1. c.children = << >> /\ c.keys = << >> /\ c.leaf = (<< >> = << >>) /\ c.buffer = << >>
  BY DEF crown
<1> HIDE DEF c
<1>2. Bare(c)
  <2>1. (<< >> = << >>) \in BOOLEAN /\ (<< >> = << >>)
    OBVIOUS
  <2>2. c.leaf \in BOOLEAN /\ c.leaf
    BY <1>1, <2>1
  <2> QED
    BY <1>1, <2>2, EmptyVector DEF Bare
<1>3. Fine(c, N, hi, hi[Nil])
  BY <1>2, BareFine
<1>4. nd(N, << >>, << >>, Nil) = c /\ lft(N, Nil) = Nil
  BY DEF nd, c, lft
<1> QED
  BY <1>3, <1>4 DEF Ordered, Sound

\* A call that has left the tree.
LEMMA LeaveOrder ==
  ASSUME ShapeInv', pc' = "idle", stack' = << >>, NEW ho \in [NodeId \cup {Nil} -> Int],
         Ordered(nodes', IF rootNode' = Nil THEN << >> ELSE <<rootNode'>>, << >>, allocated' \ orphans', ho)
  PROVE  OrderInv'
<1>1. settled' = nodes' /\ live' = allocated' \ orphans'
  BY DEF settled, live, pending
<1>2. tops' = IF rootNode' = Nil THEN << >> ELSE <<rootNode'>>
  BY DEF tops
<1>3. cuts' = << >>
  <2>1. Len(tops') # 2
    BY <1>2
  <2> QED
    BY <2>1 DEF cuts
<1>4. Batches' /\ Control(ho)'
  BY EmptyVector DEF Batches, Control
<1>5. Order(ho)'
  BY <1>1, <1>2, <1>3, <1>4 DEF Order
<1> QED
  BY <1>4, <1>5 DEF OrderInv

\* The empty tree.
LEMMA InitOrder == Init => OrderInv
<1> SUFFICES ASSUME Init PROVE OrderInv
  OBVIOUS
<1>1. ShapeInv
  BY InitShape
<1>2. /\ allocated = {} /\ rootNode = Nil /\ pc = "idle" /\ stack = << >>
  BY DEF Init
<1>3. live = {} /\ tops = << >>
  BY <1>2 DEF live, tops, pending
<1>4. cuts = << >>
  BY <1>3 DEF cuts
<1>5. Batches
  BY <1>2, EmptyVector DEF Batches
<1> DEFINE hi == [q \in NodeId \cup {Nil} |-> 0]
<1>6. hi \in [NodeId \cup {Nil} -> Int] /\ hi[Nil] = 0
  OBVIOUS
<1> HIDE DEF hi
<1>7. Ordered(settled, tops, cuts, live, hi)
  BY <1>3, <1>4, <1>6, EmptyOrder
<1>8. Control(hi)
  BY <1>2, EmptyVector DEF Control
<1> QED
  BY <1>1, <1>5, <1>6, <1>7, <1>8 DEF OrderInv, Order

\* Nothing changes.
LEMMA StutterOrder ==
  ASSUME OrderInv, ShapeInv', UNCHANGED vars
  PROVE  OrderInv'
<1>1. /\ nodes' = nodes /\ allocated' = allocated /\ rootNode' = rootNode /\ pc' = pc /\ call' = call
      /\ stack' = stack /\ change' = change /\ err' = err /\ orphans' = orphans
  BY DEF vars
<1>2. settled' = settled /\ live' = live /\ tops' = tops /\ cuts' = cuts /\ frame' = frame
  BY <1>1 DEF settled, live, tops, frame, pending, cuts
<1>3. here' = here /\ outer' = outer
  BY <1>1, <1>2 DEF here, outer
<1>4. above' = above /\ place' = place
  BY <1>3 DEF above, place
<1>5. reaches(call.key)' <=> reaches(call.key)
  BY <1>1, <1>2, <1>4 DEF reaches
<1>6. PICK hi : Order(hi)
  BY DEF OrderInv
<1>7. Control(hi)'
  BY <1>1, <1>2, <1>3, <1>5, <1>6 DEF Order, Control
<1>8. Order(hi)'
  BY <1>2, <1>6, <1>7 DEF Order
<1>9. Batches'
  BY <1>1 DEF OrderInv, Batches
<1> QED
  BY <1>8, <1>9 DEF OrderInv

\* The call returns to its caller outside the tree.
LEMMA FinishOrder ==
  ASSUME OrderInv, ShapeInv', Finish
  PROVE  OrderInv'
<1>1. PICK h : Shape(h)
  BY DEF OrderInv, ShapeInv
<1>2. PICK hi : Order(hi)
  BY DEF OrderInv
<1>3. /\ Returned /\ change.node = Nil
      /\ nodes' = nodes /\ allocated' = allocated /\ rootNode' = rootNode
      /\ pc' = "idle" /\ orphans' = orphans /\ stack' = stack
  BY DEF Finish, heap, Leave
<1>4. /\ settled = nodes /\ live = allocated \ orphans
      /\ stack = << >> /\ rootNode # Nil /\ tops = <<rootNode>>
  BY <1>1, <1>3, RootReturned DEF OrderInv
<1>5. cuts = << >>
  <2>1. Len(tops) # 2
    BY <1>4
  <2> QED
    BY <2>1 DEF cuts
<1>6. hi \in [NodeId \cup {Nil} -> Int] /\ Ordered(nodes, <<rootNode>>, << >>, allocated \ orphans, hi)
  BY <1>2, <1>4, <1>5 DEF Order
<1>7. Ordered(nodes', IF rootNode' = Nil THEN << >> ELSE <<rootNode'>>, << >>, allocated' \ orphans', hi)
  BY <1>3, <1>4, <1>6
<1> QED
  BY <1>3, <1>4, <1>6, <1>7, LeaveOrder

\* The last entry is gone: the root that was a leaf is deleted.
LEMMA DeleteRootLeafOrder ==
  ASSUME OrderInv, ShapeInv', DeleteRootLeaf
  PROVE  OrderInv'
<1>1. PICK h : Shape(h)
  BY DEF OrderInv, ShapeInv
<1>2. PICK hi : Order(hi)
  BY DEF OrderInv
<1>3. /\ Returned /\ change.node = Nil /\ size(root) = 0 /\ root.leaf
      /\ allocated' = allocated \ {rootNode} /\ rootNode' = Nil
      /\ pc' = "idle" /\ orphans' = orphans /\ stack' = stack
  BY DEF DeleteRootLeaf, Leave
<1>4. /\ Childless /\ settled = nodes /\ live = allocated \ orphans
      /\ stack = << >> /\ rootNode # Nil /\ rootNode \in live
      /\ live \subseteq NodeId /\ Nil \notin live
      /\ Tree(settled, tops, live, h) /\ tops = <<rootNode>>
  BY <1>1, <1>3, RootReturned DEF OrderInv
<1>5. live = {rootNode}
  <2>1. nodes[rootNode].children = << >>
    BY <1>3, <1>4 DEF root, Childless
  <2>2. deg(settled, tops, Nil) = 1 /\ kid(settled, tops, Nil, 1) = rootNode /\ deg(settled, tops, rootNode) = 0
    BY <2>1, <1>4 DEF deg, kid, kids
  <2> QED BY <2>2, <1>4, LoneLeaf
<1>6. allocated' \ orphans' = {}
  BY <1>3, <1>4, <1>5
<1>7. hi \in [NodeId \cup {Nil} -> Int] /\ hi[Nil] \in Int
  BY <1>2 DEF Order
<1>8. Ordered(nodes', << >>, << >>, {}, hi)
  BY <1>7, EmptyOrder
<1>9. Ordered(nodes', IF rootNode' = Nil THEN << >> ELSE <<rootNode'>>, << >>, allocated' \ orphans', hi)
  BY <1>3, <1>6, <1>8
<1> QED
  BY <1>3, <1>4, <1>7, <1>9, LeaveOrder

\* The first insert plants a root that is a leaf.
LEMMA StartInsertEmptyOrder ==
  ASSUME OrderInv, ShapeInv', NEW k \in Key, NEW v, StartInsertEmpty(k, v)
  PROVE  OrderInv'
<1>1. PICK h : Shape(h)
  BY DEF OrderInv, ShapeInv
<1>2. PICK id \in NodeId : /\ isFresh(id) /\ allocated' = allocated \cup {id}
                           /\ nodes' = [nodes EXCEPT ![id] = NewLeaf] /\ rootNode' = id
  BY DEF StartInsertEmpty
<1>3. /\ pc = "idle" /\ rootNode = Nil /\ pc' = "apply" /\ stack' = stack
      /\ orphans' = orphans /\ call'.node = id /\ call'.key = k
  BY <1>2 DEF StartInsertEmpty, Enter, history
<1>4. TypeInv /\ Flow /\ Sizes
  BY DEF OrderInv, ShapeInv
<1>5. settled = nodes /\ live = allocated \ orphans /\ stack = << >> /\ tops = << >>
  BY <1>1, <1>3, <1>4, IdleFacts
<1>6. live = {}
  <2>1. Tree(settled, tops, live, h) /\ Nil \notin live
    BY <1>1, <1>4, LiveIds DEF Shape
  <2>2. deg(settled, tops, Nil) = 0
    BY <1>5 DEF deg, kids
  <2> QED BY <2>1, <2>2, LoneLeaf
<1>7. id \notin allocated /\ orphans \subseteq allocated /\ id # Nil
  BY <1>2, <1>4, IdAssumption DEF isFresh, isLeast, Flow, Nil
<1>8. settled' = nodes' /\ live' = {id} /\ tops' = <<id>>
  BY <1>2, <1>3, <1>5, <1>6, <1>7 DEF settled, live, tops, pending
<1>9. cuts' = << >>
  <2>1. Len(tops') # 2
    BY <1>8
  <2> QED
    BY <2>1 DEF cuts
<1>10. nodes'[id] = NewLeaf
  BY <1>2, <1>4 DEF TypeInv, TypeOK, isHeap
<1>11. k \in Int
  BY KeyNumbers
<1> DEFINE M == nodes'
<1>ho. PICK ho : ho = [q \in NodeId \cup {Nil} |-> k]
  OBVIOUS
<1>12. ho \in [NodeId \cup {Nil} -> Int] /\ ho[id] = k /\ ho[Nil] = k
  BY <1>11, <1>ho
<1>13. Fine(M[id], M, ho, ho[id]) /\ lft(M, id) = Nil /\ M[id].lowest \in Int
  <2>1. /\ NewLeaf.leaf = TRUE /\ NewLeaf.keys = << >> /\ NewLeaf.children = << >> /\ NewLeaf.buffer = << >>
        /\ NewLeaf.left = Nil /\ NewLeaf.lowest = NoKey
    BY DEF NewLeaf
  <2>2. NewLeaf.leaf \in BOOLEAN /\ NewLeaf.leaf
    BY <2>1
  <2>3. Len(NewLeaf.keys) = 0 /\ Len(NewLeaf.children) = 0 /\ DOMAIN NewLeaf.buffer = {}
    BY <2>1, EmptyVector
  <2>4. Fine(NewLeaf, M, ho, ho[id])
    BY <2>2, <2>3, BareFine DEF Bare
  <2> QED
    BY <1>7, <1>10, <2>1, <2>4 DEF lft, NoKey
<1>14. Ordered(M, <<id>>, << >>, {id}, ho)
  <2>1. Fine(crown(<<id>>, << >>), M, ho, ho[Nil])
    <3>1. ho[id] \in Int /\ ho[id] <= ho[Nil] /\ M[id].lowest \in Int
      BY <1>11, <1>12, <1>13
    <3> QED
      BY ONLY <3>1, OneTopOrder
  <2>2. nd(M, <<id>>, << >>, Nil) = crown(<<id>>, << >>) /\ nd(M, <<id>>, << >>, id) = M[id] /\ lft(M, Nil) = Nil
    BY <1>7 DEF nd, lft
  <2> HIDE DEF M
  <2> QED
    BY <1>11, <1>12, <1>13, <2>1, <2>2 DEF Ordered, Sound
<1>15. Control(ho)'
  <2>1. here' = id /\ outer' = << >>
    BY <1>3, <1>5 DEF here, outer
  <2>2. above' = Nil /\ place' = 1
    BY <2>1 DEF above, place
  <2>3. reaches(call.key)'
    BY <2>2 DEF reaches, lft
  <2>4. call'.key <= ho[here']
    BY <1>3, <1>11, <1>12, <2>1
  <2>5. \A j \in 1 .. Len(stack') : FALSE
    BY <1>3, <1>5, EmptyVector
  <2> QED
    BY <1>3, <2>3, <2>4, <2>5 DEF Control
<1>16. Order(ho)'
  BY <1>8, <1>9, <1>12, <1>14, <1>15 DEF Order
<1>17. Batches'
  BY <1>3, <1>5, EmptyVector DEF Batches
<1> QED
  BY <1>16, <1>17 DEF OrderInv

-----------------------------------------------------------------------------
(* The root *)

\* Two nodes at the top get a common root.
LEMMA SplitRootOrder ==
  ASSUME OrderInv, ShapeInv', SplitRoot
  PROVE  OrderInv'
<1> DEFINE other == change.node
           top == [NewLeaf EXCEPT !.leaf = FALSE, !.keys = <<change.key>>,
                                  !.children = <<rootNode, other>>, !.lowest = root.lowest]
           pair == {rootNode, other}
<1>1. PICK h : Shape(h)
  BY DEF OrderInv, ShapeInv
<1>2. PICK hi : Order(hi)
  BY DEF OrderInv
<1>3. /\ Returned /\ other # Nil
      /\ pc' = "idle" /\ orphans' = orphans /\ stack' = stack
  BY DEF SplitRoot, Leave
<1>4. PICK id \in NodeId : /\ isFresh(id) /\ allocated' = allocated \cup {id} /\ rootNode' = id
                           /\ nodes' = reparent([nodes EXCEPT ![id] = top], pair, id)
  BY DEF SplitRoot
<1> DEFINE base == [nodes EXCEPT ![id] = top]
<1>5. /\ TypeInv /\ Flow /\ settled = nodes /\ live = allocated \ orphans
      /\ stack = << >> /\ rootNode # Nil /\ rootNode \in live
      /\ live \subseteq NodeId /\ Nil \notin live
      /\ Tree(settled, tops, live, h) /\ tops = <<rootNode, other>>
  BY <1>1, <1>3, RootReturned DEF OrderInv
<1>6. id \notin live /\ id # Nil /\ id \notin orphans
  BY <1>4, <1>5, LiveIds DEF isFresh, isLeast, Flow
<1>7. other \in live
  <2>1. deg(settled, tops, Nil) = 2 /\ kid(settled, tops, Nil, 2) = other
    BY <1>5 DEF deg, kid, kids
  <2>2. 2 \in 1 .. deg(settled, tops, Nil) /\ Nil \in live \cup {Nil}
    BY <2>1
  <2> QED
    BY <1>5, <2>1, <2>2, KidFacts
<1>8. cuts = <<change.key>> /\ tops # << >>
  <2>1. Len(tops) = 2 /\ Len(<< >>) = 0
    BY <1>5
  <2> QED
    BY <2>1 DEF cuts
<1>9. /\ DOMAIN top = fields /\ top.leaf = FALSE /\ top.children = tops /\ top.keys = cuts
      /\ top.left = Nil /\ top.buffer = << >> /\ top.lowest = nodes[rootNode].lowest
  BY <1>5, <1>8 DEF NewLeaf, fields, root
<1> HIDE DEF top
<1>10. isTable(base) /\ \A q \in NodeId : base[q] = IF q = id THEN top ELSE nodes[q]
  <2>1. isTable(nodes)
    BY <1>5, HeapTable DEF TypeInv, TypeOK
  <2> QED BY <2>1, <1>9 DEF isTable
<1> HIDE DEF base
<1>11. \A q \in NodeId : \A f \in fields \ {"parent"} : nodes'[q][f] = base[q][f]
  <2>1. nodes' = reparent(base, pair, id)
    BY <1>4 DEF base
  <2> HIDE DEF pair
  <2> QED BY <2>1, <1>10, ReparentFields
<1>12. \A q \in NodeId : likened(nodes'[q], base[q]) /\ nodes'[q].lowest = base[q].lowest /\ nodes'[q].left = base[q].left
  BY <1>11 DEF fields, likened
<1> HIDE DEF pair, other
<1> DEFINE M == nodes'
           c == crown(tops, cuts)
<1>ho. PICK ho : ho = [hi EXCEPT ![id] = hi[Nil]]
  OBVIOUS
<1>13. /\ hi \in [NodeId \cup {Nil} -> Int] /\ Ordered(settled, tops, cuts, live, hi) /\ Downward(settled, tops, live)
  BY <1>2, <1>5 DEF Order, Tree
<1>14. /\ ho \in [NodeId \cup {Nil} -> Int] /\ ho[id] = hi[Nil] /\ hi[Nil] \in Int
       /\ \A q \in live \cup {Nil} : ho[q] = hi[q]
  BY <1>ho, <1>4, <1>5, <1>6, <1>13
<1>15. /\ \A q \in live : likened(M[q], settled[q]) /\ M[q].lowest = settled[q].lowest /\ M[q].left = settled[q].left
       /\ M[id].left = Nil /\ M[id].lowest = settled[rootNode].lowest /\ likened(M[id], top)
  <2>1. \A q \in live : base[q] = settled[q] /\ q \in NodeId
    BY <1>5, <1>6, <1>10
  <2>2. base[id] = top
    BY <1>10
  <2>3. likened(M[id], top) /\ M[id].lowest = top.lowest /\ M[id].left = top.left
    BY <1>12, <2>2
  <2>4. \A q \in live : likened(M[q], settled[q]) /\ M[q].lowest = settled[q].lowest /\ M[q].left = settled[q].left
    BY <1>12, <2>1
  <2>5. M[id].left = Nil /\ M[id].lowest = settled[rootNode].lowest
    BY <1>5, <1>9, <2>3
  <2> HIDE DEF M
  <2> QED
    BY ONLY <2>3, <2>4, <2>5
<1> HIDE DEF M
<1>16. Kin(settled, tops, cuts, live, hi, Nil, 1, rootNode)
  <2>1. 1 \in 1 .. deg(settled, tops, Nil) /\ rootNode = kid(settled, tops, Nil, 1) /\ Nil \in live \cup {Nil}
    BY <1>5 DEF deg, kid, kids
  <2> QED
    BY <1>5, <1>13, <2>1, KinOrder
<1>17. Fine(c, settled, hi, hi[Nil]) /\ settled[rootNode].lowest \in Int
  <2>1. Fine(nd(settled, tops, cuts, Nil), settled, hi, hi[Nil]) /\ settled[rootNode].lowest \in Int
    BY <1>16 DEF Kin
  <2>2. nd(settled, tops, cuts, Nil) = c
    BY DEF nd
  <2> QED
    BY ONLY <2>1, <2>2
<1>18. c.leaf = (tops = << >>) /\ c.children = tops /\ c.keys = cuts /\ c.buffer = << >>
  BY DEF crown
<1> HIDE DEF c
<1>19. Sound(M[id], M, ho, id)
  <2>1. likened(M[id], c)
    <3>1. likened(top, c)
      BY <1>8, <1>9, <1>18 DEF likened
    <3> QED
      BY <1>15, <3>1 DEF likened
  <2>2. \A j \in 1 .. Len(c.children) : c.children[j] \in live
    BY <1>5, <1>7, <1>18
  <2>3. \A j \in 1 .. Len(c.children) : /\ M[c.children[j]].lowest = settled[c.children[j]].lowest
                                        /\ ho[c.children[j]] = hi[c.children[j]]
    BY <1>14, <1>15, <2>2
  <2>4. Fine(M[id], M, ho, hi[Nil])
    BY ONLY <1>17, <2>1, <2>3, FineMoved
  <2> QED
    BY <1>6, <1>14, <1>15, <2>4 DEF Sound, lft
<1>20. Sound(nd(M, <<id>>, << >>, Nil), M, ho, Nil)
  <2>1. ho[id] \in Int /\ ho[id] <= ho[Nil] /\ M[id].lowest \in Int
    BY <1>14, <1>15, <1>17
  <2>2. Fine(crown(<<id>>, << >>), M, ho, ho[Nil])
    BY ONLY <2>1, OneTopOrder
  <2> QED
    BY <2>2 DEF Sound, nd, lft
<1>21. Patched(settled, tops, cuts, live, hi, M, <<id>>, << >>, live \cup {id}, ho, Nil, {id})
  <2>1. \A q \in ((live \cup {id}) \cap {id}) \cup {Nil} : ho[q] \in Int /\ Sound(nd(M, <<id>>, << >>, q), M, ho, q)
    BY <1>6, <1>14, <1>19, <1>20 DEF nd
  <2> QED
    BY ONLY <1>5, <1>6, <1>14, <1>15, <2>1 DEF Patched
<1>22. Ordered(M, <<id>>, << >>, live \cup {id}, ho)
  BY ONLY <1>5, <1>13, <1>21, LocalOrder
<1>23. Ordered(nodes', IF rootNode' = Nil THEN << >> ELSE <<rootNode'>>, << >>, allocated' \ orphans', ho)
  <2>1. allocated' \ orphans' = live \cup {id}
    BY <1>3, <1>4, <1>5, <1>6
  <2>2. (IF rootNode' = Nil THEN << >> ELSE <<rootNode'>>) = <<id>>
    BY <1>4, <1>6
  <2> QED
    BY <1>22, <2>1, <2>2 DEF M
<1> QED
  BY <1>3, <1>5, <1>14, <1>23, LeaveOrder

\* The only child of the root takes its place.
LEMMA CollapseRootOrder ==
  ASSUME OrderInv, ShapeInv', CollapseRoot
  PROVE  OrderInv'
<1> DEFINE crowned == [nodes[heir] EXCEPT !.parent = Nil, !.left = Nil, !.right = Nil,
                                          !.buffer = overlay(root.buffer, @)]
           c == heir
           t == rootNode
<1>1. PICK h : Shape(h)
  BY DEF OrderInv, ShapeInv
<1>2. PICK hi : Order(hi)
  BY DEF OrderInv
<1>3. /\ Returned /\ change.node = Nil /\ size(root) = 0 /\ ~root.leaf /\ ~nodes[c].leaf
      /\ nodes' = [nodes EXCEPT ![c] = crowned, ![t].buffer = << >>]
      /\ rootNode' = c /\ allocated' = allocated /\ orphans' = orphans \cup {t}
      /\ pc' = "idle" /\ stack' = stack
  BY DEF CollapseRoot, Leave
<1>4. /\ TypeInv /\ Childless /\ settled = nodes /\ live = allocated \ orphans
      /\ stack = << >> /\ t # Nil /\ t \in live
      /\ live \subseteq NodeId /\ Nil \notin live
      /\ Tree(settled, tops, live, h) /\ tops = <<t>>
  BY <1>1, <1>3, RootReturned DEF OrderInv
<1>5. /\ deg(settled, tops, Nil) = 1 /\ kid(settled, tops, Nil, 1) = t
      /\ deg(settled, tops, t) = 1 /\ kid(settled, tops, t, 1) = c
      /\ Len(root.children) = 1 /\ Len(root.keys) = 0
  <2>1. Len(nodes[t].children) = 1
    BY <1>3, <1>4, NodeFacts DEF root
  <2> QED BY <2>1, <1>3, <1>4 DEF deg, kid, kids, heir, root, size
<1>6. c \in live /\ c # t /\ c # Nil /\ up(settled, t) = Nil /\ up(settled, c) = t
      /\ \A j \in 1 .. deg(settled, tops, c) : kid(settled, tops, c, j) \in live \ {c, t}
  <2>1. 1 \in 1 .. deg(settled, tops, Nil) /\ 1 \in 1 .. deg(settled, tops, t) /\ Nil \in live \cup {Nil} /\ t \in live \cup {Nil}
    BY <1>4, <1>5
  <2>2. up(settled, t) = Nil
    BY <1>4, <1>5, <2>1, KidFacts
  <2>3. c \in live /\ c # t /\ c # Nil /\ up(settled, c) = t
        /\ \A j \in 1 .. deg(settled, tops, c) : kid(settled, tops, c, j) \in live \ {c, t}
    BY <1>4, <1>5, <2>1, KidFacts
  <2> QED
    BY <2>2, <2>3
<1>7. /\ DOMAIN crowned = fields /\ crowned.left = Nil
      /\ \A f \in {"leaf", "keys", "children", "lowest"} : crowned[f] = nodes[c][f]
      /\ crowned.buffer = overlay(root.buffer, nodes[c].buffer)
  BY <1>4, <1>6 DEF TypeInv, TypeOK, isHeap, isNode, fields
<1>8. DOMAIN crowned.buffer = DOMAIN root.buffer \cup DOMAIN nodes[c].buffer
  BY <1>7 DEF overlay
<1> HIDE DEF crowned
<1>9. nodes'[c] = crowned /\ \A q \in NodeId \ {c, t} : nodes'[q] = nodes[q]
  <2> DEFINE u == [nodes EXCEPT ![c] = crowned]
  <2>1. isTable(nodes)
    BY <1>4, HeapTable DEF TypeInv, TypeOK
  <2>2. isTable(u) /\ \A q \in NodeId : u[q] = IF q = c THEN crowned ELSE nodes[q]
    BY <2>1, <1>7 DEF isTable
  <2>3. nodes' = [u EXCEPT ![t].buffer = << >>]
    BY <1>3
  <2> HIDE DEF u
  <2>4. \A q \in NodeId \ {t} : nodes'[q] = u[q]
    BY <2>2, <2>3 DEF isTable
  <2> QED BY <2>2, <2>4, <1>4, <1>6
<1>10. /\ hi \in [NodeId \cup {Nil} -> Int] /\ Ordered(settled, tops, cuts, live, hi) /\ Downward(settled, tops, live)
  BY <1>2, <1>4 DEF Order, Tree
<1>11. Kin(settled, tops, cuts, live, hi, t, 1, c) /\ Kin(settled, tops, cuts, live, hi, Nil, 1, t)
  <2>1. /\ 1 \in 1 .. deg(settled, tops, Nil) /\ t = kid(settled, tops, Nil, 1) /\ Nil \in live \cup {Nil}
        /\ 1 \in 1 .. deg(settled, tops, t) /\ c = kid(settled, tops, t, 1) /\ t \in live \cup {Nil}
    BY <1>4, <1>5
  <2>2. Kin(settled, tops, cuts, live, hi, Nil, 1, t)
    BY <1>4, <1>10, <2>1, KinOrder
  <2>3. Kin(settled, tops, cuts, live, hi, t, 1, c)
    BY <1>4, <1>10, <2>1, KinOrder
  <2> QED
    BY <2>2, <2>3
<1>12. /\ Fine(settled[c], settled, hi, hi[c]) /\ Fine(root, settled, hi, hi[t])
       /\ hi[c] \in Int /\ hi[t] \in Int /\ hi[Nil] \in Int /\ hi[c] <= hi[t] /\ hi[t] <= hi[Nil]
       /\ settled[c].lowest \in Int
  BY <1>4, <1>11 DEF Kin, nd, root
<1> HIDE DEF c, t
<1> DEFINE M == nodes'
           K == live \ {t}
<1>ho. PICK ho : ho = [hi EXCEPT ![c] = hi[t]]
  OBVIOUS
<1>13. /\ ho \in [NodeId \cup {Nil} -> Int] /\ ho[c] = hi[t]
       /\ \A q \in (live \cup {Nil}) \ {c} : ho[q] = hi[q]
  BY <1>ho, <1>4, <1>6, <1>10, <1>12
<1>14. \A q \in live \ {c, t} : M[q] = settled[q]
  BY <1>4, <1>9
<1>15. /\ M[c].lowest = settled[c].lowest /\ M[c].leaf = settled[c].leaf /\ M[c].keys = settled[c].keys
       /\ M[c].children = settled[c].children /\ M[c].left = Nil
       /\ DOMAIN M[c].buffer = DOMAIN root.buffer \cup DOMAIN settled[c].buffer
  BY <1>4, <1>7, <1>8, <1>9
<1>16. ~settled[c].leaf
  BY <1>3, <1>4
<1> HIDE DEF M
<1>17. Fine(M[c], M, ho, ho[c])
  <2>1. Fine(settled[c], settled, hi, hi[t])
    BY ONLY <1>12, FineHigher
  <2>2. \A j \in 1 .. Len(settled[c].children) :
          /\ M[settled[c].children[j]].lowest = settled[settled[c].children[j]].lowest
          /\ ho[settled[c].children[j]] = hi[settled[c].children[j]]
    <3>1. deg(settled, tops, c) = Len(settled[c].children) /\ \A j : kid(settled, tops, c, j) = settled[c].children[j]
      BY <1>6 DEF deg, kid, kids
    <3> QED
      BY <1>6, <1>13, <1>14, <3>1
  <2>3. Fine(settled[c], M, ho, hi[t])
    BY ONLY <2>1, <2>2, FineStays
  <2>4. DOMAIN root.buffer \subseteq Int /\ \A z \in DOMAIN root.buffer : z <= hi[t]
    BY <1>12 DEF Fine, numeric, own
  <2>5. DOMAIN settled[c].buffer \subseteq Int /\ \A z \in DOMAIN settled[c].buffer : z <= hi[t]
    BY <2>1 DEF Fine, numeric, own
  <2>6. numeric(M[c])
    <3>1. numeric(settled[c])
      BY <2>1 DEF Fine
    <3>2. DOMAIN M[c].buffer \subseteq Int
      BY <1>15, <2>4, <2>5
    <3>3. M[c].leaf \in BOOLEAN /\ ~M[c].leaf
      BY <1>15, <1>16, <3>1 DEF numeric
    <3>4. integers(M[c].keys) /\ Len(M[c].children) \in Nat /\ Len(M[c].children) = Len(M[c].keys) + 1
      BY <1>15, <1>16, <3>1 DEF numeric
    <3> QED
      BY ONLY <3>2, <3>3, <3>4 DEF numeric
  <2>7. \A z \in own(M[c]) : z <= hi[t]
    <3>1. \A z \in own(M[c]) : (\E i \in 1 .. Len(settled[c].keys) : z = settled[c].keys[i]) \/ z \in DOMAIN M[c].buffer
      BY <1>15 DEF own
    <3>2. \A i \in 1 .. Len(settled[c].keys) : settled[c].keys[i] <= hi[t]
      BY <2>1 DEF Fine, own
    <3> QED
      BY <1>15, <2>4, <2>5, <3>1, <3>2
  <2>8. ascending(M[c].keys) /\ \A i \in 1 .. Len(M[c].children) : fits(M[c], M, ho, hi[t], i)
    <3>1. ascending(settled[c].keys) /\ \A i \in 1 .. Len(settled[c].children) : fits(settled[c], M, ho, hi[t], i)
      BY <2>3 DEF Fine
    <3> QED
      BY <1>15, <3>1 DEF fits
  <2> QED
    BY <1>13, <2>6, <2>7, <2>8 DEF Fine
<1>18. Sound(nd(M, <<c>>, << >>, c), M, ho, c)
  BY <1>6, <1>15, <1>17 DEF Sound, nd, lft
<1>19. Sound(nd(M, <<c>>, << >>, Nil), M, ho, Nil)
  <2>1. ho[c] \in Int /\ ho[c] <= ho[Nil] /\ M[c].lowest \in Int
    BY <1>6, <1>12, <1>13, <1>15
  <2>2. Fine(crown(<<c>>, << >>), M, ho, ho[Nil])
    BY ONLY <2>1, OneTopOrder
  <2> QED
    BY <2>2 DEF Sound, nd, lft
<1>20. Patched(settled, tops, cuts, live, hi, M, <<c>>, << >>, K, ho, Nil, {t, c})
  <2>1. \A q \in (K \cap {t, c}) \cup {Nil} : ho[q] \in Int /\ Sound(nd(M, <<c>>, << >>, q), M, ho, q)
    BY <1>6, <1>12, <1>13, <1>18, <1>19
  <2>2. \A q \in K \ ({t, c} \cup {Nil}) : likened(M[q], settled[q]) /\ (M[q].left # Nil => settled[q].left # Nil)
    BY <1>14 DEF likened
  <2>3. \A q \in live \ {t, c} : M[q].lowest = settled[q].lowest /\ ho[q] = hi[q]
    BY <1>13, <1>14
  <2>4. \A x \in {t, c} \cap live : up(settled, x) \in {t, c} \cup {Nil}
    BY <1>6
  <2>5. Nil \in live \cup {Nil} /\ Nil \notin {t, c} /\ K \subseteq live \cup {t, c}
    BY <1>4, <1>6
  <2> HIDE DEF K
  <2> QED
    BY ONLY <2>1, <2>2, <2>3, <2>4, <2>5 DEF Patched
<1>21. Ordered(M, <<c>>, << >>, K, ho)
  BY ONLY <1>4, <1>10, <1>20, LocalOrder
<1>22. Ordered(nodes', IF rootNode' = Nil THEN << >> ELSE <<rootNode'>>, << >>, allocated' \ orphans', ho)
  <2>1. allocated' \ orphans' = K
    BY <1>3, <1>4
  <2>2. (IF rootNode' = Nil THEN << >> ELSE <<rootNode'>>) = <<c>>
    BY <1>3, <1>6
  <2> QED
    BY <1>21, <2>1, <2>2 DEF M
<1> QED
  BY <1>3, <1>4, <1>13, <1>22, LeaveOrder

-----------------------------------------------------------------------------
(* What the caller of a restructured node does *)

\* The keys of a caller whose child was split.
LEMMA AdjustedSplits ==
  ASSUME NEW n, isNode(n), ~n.leaf, NEW i \in Nat, i <= size(n), NEW c \in ChildChange, c.type = "Split"
  PROVE  /\ ParentSplits(n, adjusted(n, i, c), i + 1, c.key, c.node)
         /\ adjusted(n, i, c).lowest = n.lowest /\ adjusted(n, i, c).left = n.left
<1> DEFINE m == adjusted(n, i, c)
<1>1. m = [n EXCEPT !.keys = InsertAt(@, i + 1, c.key), !.children = InsertAt(@, i + 2, c.node)]
  BY DEF adjusted
<1>2. /\ n.keys \in Seq(KeyType) /\ n.children \in Seq(NodeId) /\ Len(n.children) = Len(n.keys) + 1
      /\ i <= Len(n.keys) /\ c.key \in KeyType /\ c.node \in NodeId /\ n.leaf \in BOOLEAN
  BY DEF isNode, ChildChange, size
<1> HIDE DEF m
<1>3. /\ m.leaf = n.leaf /\ m.keys = InsertAt(n.keys, i + 1, c.key) /\ m.children = InsertAt(n.children, i + 2, c.node)
      /\ m.buffer = n.buffer /\ m.lowest = n.lowest /\ m.left = n.left
  BY <1>1 DEF isNode
<1>4. Extends(m.keys, n.keys, i + 1, c.key)
  <2>1. i + 1 \in 1 .. (Len(n.keys) + 1)
    BY <1>2
  <2> QED
    BY <1>2, <1>3, <2>1, InsertAtItems
<1>5. Extends(m.children, n.children, i + 2, c.node)
  <2>1. i + 2 \in 1 .. (Len(n.children) + 1)
    BY <1>2
  <2> QED
    BY <1>2, <1>3, <2>1, InsertAtItems
<1>6. (i + 1) + 1 = i + 2
  OBVIOUS
<1>7. m.leaf \in BOOLEAN /\ ~m.leaf
  BY <1>2, <1>3
<1>8. ParentSplits(n, m, i + 1, c.key, c.node)
  BY <1>3, <1>4, <1>5, <1>6, <1>7 DEF ParentSplits
<1> QED
  BY <1>3, <1>8 DEF m

\* The keys of a caller whose children have shared what they have anew.
LEMMA AdjustedMoves ==
  ASSUME NEW n, isNode(n), ~n.leaf, NEW i \in Nat, NEW k, k \in 1 .. size(n),
         NEW c, \/ c.type = "RedistributeLeft" /\ k = i
                \/ c.type = "RedistributeRight" /\ k = i + 1
  PROVE  /\ ParentMoves(n, adjusted(n, i, c), k, c.key)
         /\ adjusted(n, i, c).lowest = n.lowest /\ adjusted(n, i, c).left = n.left
<1> DEFINE m == adjusted(n, i, c)
<1>1. m = [n EXCEPT !.keys[k] = c.key]
  <2>1. CASE c.type = "RedistributeLeft"
    BY <2>1 DEF adjusted
  <2>2. CASE c.type = "RedistributeRight"
    BY <2>2 DEF adjusted
  <2> QED BY <2>1, <2>2
<1>2. n.keys \in Seq(KeyType) /\ k \in 1 .. Len(n.keys) /\ n.leaf \in BOOLEAN
  BY DEF isNode, size
<1> HIDE DEF m
<1>3. /\ m.leaf = n.leaf /\ m.keys = [n.keys EXCEPT ![k] = c.key] /\ m.children = n.children
      /\ m.buffer = n.buffer /\ m.lowest = n.lowest /\ m.left = n.left
  BY <1>1 DEF isNode
<1>4. Swaps(m.keys, n.keys, k, c.key)
  <2>1. Len([n.keys EXCEPT ![k] = c.key]) = Len(n.keys)
    BY <1>2, OverwriteLength
  <2>2. DOMAIN n.keys = 1 .. Len(n.keys)
    BY <1>2
  <2>3. [n.keys EXCEPT ![k] = c.key][k] = c.key /\ \A j \in 1 .. Len(n.keys) : j # k => [n.keys EXCEPT ![k] = c.key][j] = n.keys[j]
    BY <1>2, <2>2
  <2> QED
    BY <1>3, <2>1, <2>3 DEF Swaps
<1>5. m.leaf \in BOOLEAN /\ ~m.leaf
  BY <1>2, <1>3
<1>6. ParentMoves(n, m, k, c.key)
  BY <1>3, <1>4, <1>5 DEF ParentMoves
<1> QED
  BY <1>3, <1>6 DEF m

\* The keys of a caller whose children have merged.
LEMMA AdjustedDrops ==
  ASSUME NEW n, isNode(n), ~n.leaf, NEW i \in Nat, NEW k, k \in 1 .. size(n),
         NEW c, \/ c.type = "MergeLeft" /\ k = i
                \/ c.type = "MergeRight" /\ k = i + 1
  PROVE  /\ ParentDrops(n, adjusted(n, i, c), k)
         /\ adjusted(n, i, c).lowest = n.lowest /\ adjusted(n, i, c).left = n.left
<1> DEFINE m == adjusted(n, i, c)
<1>1. m = [n EXCEPT !.keys = RemoveAt(@, k), !.children = RemoveAt(@, k + 1)]
  <2>1. CASE c.type = "MergeLeft"
    BY <2>1 DEF adjusted
  <2>2. CASE c.type = "MergeRight"
    <3>1. i + 2 = k + 1
      BY <2>2
    <3> QED BY <2>2, <3>1 DEF adjusted
  <2> QED BY <2>1, <2>2
<1>2. /\ n.keys \in Seq(KeyType) /\ n.children \in Seq(NodeId) /\ Len(n.children) = Len(n.keys) + 1
      /\ k \in 1 .. Len(n.keys) /\ k + 1 \in 1 .. Len(n.children) /\ n.leaf \in BOOLEAN
  <2>1. /\ n.keys \in Seq(KeyType) /\ n.children \in Seq(NodeId) /\ Len(n.children) = Len(n.keys) + 1
        /\ k \in 1 .. Len(n.keys) /\ n.leaf \in BOOLEAN
    BY DEF isNode, size
  <2> QED
    BY <2>1
<1> HIDE DEF m
<1>3. /\ m.leaf = n.leaf /\ m.keys = RemoveAt(n.keys, k) /\ m.children = RemoveAt(n.children, k + 1)
      /\ m.buffer = n.buffer /\ m.lowest = n.lowest /\ m.left = n.left
  BY <1>1 DEF isNode
<1>4. Lacks(m.keys, n.keys, k)
  BY <1>2, <1>3, RemoveAtItems DEF Lacks
<1>5. Lacks(m.children, n.children, k + 1)
  BY <1>2, <1>3, RemoveAtItems DEF Lacks
<1>6. m.leaf \in BOOLEAN /\ ~m.leaf
  BY <1>2, <1>3
<1>7. ParentDrops(n, m, k)
  BY <1>3, <1>4, <1>5, <1>6 DEF ParentDrops
<1> QED
  BY <1>3, <1>7 DEF m

-----------------------------------------------------------------------------
(* The table a restructuring starts from *)

\* Table B is the nodes, after the running node has changed within its interval.
Based(B, h, hi) ==
  /\ \A q \in live \ {here} : B[q] = nodes[q]
  /\ Tree(B, tops, live, h) /\ Ordered(B, tops, cuts, live, hi)
  /\ \A q \in live \cup {Nil} : kids(B, tops, q) = kids(settled, tops, q) /\ lft(B, q) = lft(settled, q)

\* A leaf that has taken or lost a key, its links as they were.
LEMMA BaseOrder ==
  ASSUME TypeInv, Flow, running, NEW h, Shape(h), NEW hi, Order(hi),
         NEW B, \A q \in live \ {here} : B[q] = nodes[q], Suits(B[here], hi),
         \A f \in {"parent", "left", "right"} : B[here][f] = nodes[here][f]
  PROVE  /\ Based(B, h, hi)
         /\ Kin(B, tops, cuts, live, hi, above, place, here)
         /\ place \in 1 .. deg(B, tops, above) /\ here = kid(B, tops, above, place)
<1>1. /\ Nil \notin live /\ live \subseteq NodeId /\ Tree(settled, tops, live, h)
      /\ above \in live \cup {Nil} /\ place \in 1 .. deg(settled, tops, above)
      /\ here = kid(settled, tops, above, place) /\ here \in live /\ here # above
      /\ \A q \in NodeId : settled[q] = nodes[q]
  BY HereKin
<1>2. Ordered(B, tops, cuts, live, hi)
  BY TouchHere
<1>3. \A q \in live : /\ B[q].children = settled[q].children /\ B[q].parent = settled[q].parent
                      /\ B[q].left = settled[q].left /\ B[q].right = settled[q].right
  <2> TAKE q \in live
  <2>1. CASE q = here
    BY <1>1, <2>1 DEF Suits
  <2>2. CASE q # here
    BY <1>1, <2>2
  <2> QED BY <2>1, <2>2
<1>4. ASSUME NEW q \in live \cup {Nil} PROVE kids(B, tops, q) = kids(settled, tops, q)
  BY <1>3, <1>4 DEF kids
<1>5. ASSUME NEW q \in live \cup {Nil} PROVE lft(B, q) = lft(settled, q) /\ rgt(B, q) = rgt(settled, q)
  BY <1>3, <1>5 DEF lft, rgt
<1>6. \A q \in live : up(B, q) = up(settled, q)
  BY <1>3 DEF up
<1>7. SameLinks(settled, tops, B, tops, live)
  BY <1>4, <1>5, <1>6 DEF SameLinks, deg, kid
<1>8. Tree(B, tops, live, h)
  BY <1>1, <1>7, SameTree
<1>9. place \in 1 .. deg(B, tops, above) /\ here = kid(B, tops, above, place)
  BY <1>1, <1>4 DEF deg, kid
<1>10. Kin(B, tops, cuts, live, hi, above, place, here)
  BY <1>1, <1>2, <1>8, <1>9, KinOrder
<1> QED
  BY <1>2, <1>4, <1>5, <1>8, <1>9, <1>10 DEF Based

-----------------------------------------------------------------------------
(* Splits *)

\* Node m has what n has.
Kept(m, n) ==
  /\ m.leaf = n.leaf /\ m.keys = n.keys /\ m.children = n.children
  /\ m.buffer = n.buffer /\ m.lowest = n.lowest

\* The tops of a root that was split.
LEMMA TopSplits ==
  ASSUME NEW r, NEW y, NEW e
  PROVE  ParentSplits(crown(<<r>>, << >>), crown(<<r, y>>, <<e>>), 1, e, y)
<1> DEFINE n == crown(<<r>>, << >>)
           m == crown(<<r, y>>, <<e>>)
<1>1. /\ n.leaf = (<<r>> = << >>) /\ n.keys = << >> /\ n.children = <<r>> /\ n.buffer = << >>
      /\ m.leaf = (<<r, y>> = << >>) /\ m.keys = <<e>> /\ m.children = <<r, y>> /\ m.buffer = << >>
  BY DEF crown
<1> HIDE DEF n, m
<1>2. ~n.leaf /\ m.leaf \in BOOLEAN /\ ~m.leaf
  <2>1. <<r>> # << >> /\ <<r, y>> # << >>
    OBVIOUS
  <2> QED
    BY <1>1, <2>1
<1>3. Extends(<<e>>, << >>, 1, e)
  <2>1. Len(<<e>>) = 1 /\ Len(<< >>) = 0 /\ <<e>>[1] = e
    OBVIOUS
  <2> QED
    BY <2>1 DEF Extends
<1>4. Extends(<<r, y>>, <<r>>, 2, y)
  <2>1. Len(<<r, y>>) = 2 /\ Len(<<r>>) = 1 /\ <<r, y>>[1] = r /\ <<r>>[1] = r /\ <<r, y>>[2] = y
    OBVIOUS
  <2> QED
    BY <2>1 DEF Extends
<1>5. 1 + 1 = 2
  OBVIOUS
<1>6. ParentSplits(n, m, 1, e, y)
  BY <1>1, <1>2, <1>3, <1>4, <1>5 DEF ParentSplits
<1> QED
  BY <1>6 DEF n, m

\* What a split leaves of the rest of the tree.
SplitsOff(B, hi, id, e) ==
  /\ Severed(B[here], nodes'[here], nodes'[id], e, B, hi, hi[here])
  /\ From(nodes'[id], B, hi, nodes'[id].lowest) /\ e <= nodes'[id].lowest /\ nodes'[id].lowest <= hi[here]
  /\ nodes'[here].lowest = B[here].lowest
  /\ stems(nodes'[here], B, tops, {here}) /\ stems(nodes'[id], B, tops, {here})
  /\ \A q \in live \ {here} : Kept(nodes'[q], nodes[q])
  /\ \A q \in live : nodes'[q].left # Nil => lft(settled, q) # Nil

\* Who calls the running node keeps its keys and messages, if the running node changes others only.
LEMMA CallerStays ==
  ASSUME TypeInv, Flow, running, NEW h, Shape(h), NEW hi, Order(hi), Batches, outer # << >>,
         Kept(nodes'[above], nodes[above])
  PROVE  /\ nodes'[above].children = nodes[above].children
         /\ Last(outer).batch \subseteq messagesFor(nodes'[above], Last(outer).idx)
<1>1. Len(outer) \in 1 .. Len(stack) /\ outer[Len(outer)] = stack[Len(outer)] /\ Last(outer) = outer[Len(outer)]
  BY OuterFacts
<1>2. Last(outer).batch \subseteq messagesFor(nodes[Last(outer).node], Last(outer).idx)
  BY <1>1 DEF Batches
<1>3. Last(outer).node = above
  BY DEF above
<1>4. messagesFor(nodes'[above], Last(outer).idx) = messagesFor(nodes[above], Last(outer).idx)
  BY DEF messagesFor, Kept
<1> QED
  BY <1>2, <1>3, <1>4 DEF Kept

\* A node splits.
LEMMA SplitReturnOrder ==
  ASSUME OrderInv, ShapeInv', running, NEW h, Shape(h), NEW hi, Order(hi), NEW id \in NodeId, id \notin allocated,
         pc' = "return", stack' = outer, change'.type = "Split", change'.node = id, NEW e, change'.key = e,
         rootNode' = rootNode, orphans' = orphans, allocated' = allocated \cup {id},
         NEW B, Based(B, h, hi), SplitsOff(B, hi, id, e)
  PROVE  OrderInv'
<1>0. TypeInv /\ Flow /\ Batches
  BY DEF OrderInv, ShapeInv
<1>1. /\ \A q \in NodeId : settled[q] = nodes[q]
      /\ live = allocated \ orphans /\ live \subseteq NodeId /\ Nil \notin live /\ Nil \notin NodeId
      /\ rootNode # Nil /\ tops = <<rootNode>>
  BY <1>0, RunningPlain, LiveIds
<1>2. /\ here \in live /\ here \in NodeId /\ here # Nil /\ above \in live \cup {Nil} /\ above # here
      /\ place \in 1 .. deg(settled, tops, above) /\ kid(settled, tops, above, place) = here
      /\ h[above] = h[here] + 1 /\ h[here] \in Nat
      /\ outer = << >> => here = rootNode /\ above = Nil /\ place = 1
      /\ outer # << >> => /\ above \in live /\ ~settled[above].leaf
                          /\ Last(outer).idx \in Nat /\ Last(outer).idx + 1 = place
  BY <1>0, HereFacts
<1>3. id \notin live /\ id # Nil /\ id # here /\ id \notin orphans /\ id # above
  BY <1>0, <1>1, <1>2 DEF Flow
<1>4. gone(change') = {} /\ change' \in ChildChange
  BY DEF gone, ShapeInv, TypeInv, TypeOK
<1>5. live' = live \cup {id}
  BY <1>0, <1>1, <1>3, <1>4, SettledNext
<1>6. cuts = << >>
  <2>1. Len(tops) # 2
    BY <1>1
  <2> QED
    BY <2>1 DEF cuts
<1>7. outer = << >> => settled' = nodes' /\ tops' = <<here, id>> /\ cuts' = <<e>>
  <2> HAVE outer = << >>
  <2>1. settled' = nodes' /\ tops' = <<here, id>>
    BY <1>0, <1>1, <1>2, SettledNext DEF tops
  <2>2. Len(tops') = 2
    BY <2>1
  <2> QED
    BY <2>1, <2>2 DEF cuts
<1> DEFINE m == adjusted(nodes'[above], Last(outer).idx, change')
<1>8. ASSUME outer # << >>
      PROVE  /\ tops' = tops /\ cuts' = cuts /\ settled'[above] = m
             /\ \A q \in NodeId : q # above => settled'[q] = nodes'[q]
             /\ ParentSplits(nodes[above], m, place, e, id)
             /\ m.lowest = nodes[above].lowest /\ m.left = nodes'[above].left
             /\ Kept(nodes'[above], nodes[above])
  <2>1. settled' = [q \in NodeId |-> IF q \in gone(change') THEN NewLeaf
                                     ELSE IF q = above THEN adjusted(nodes'[above], Last(outer).idx, change')
                                     ELSE nodes'[q]]
    BY <1>0, <1>8, SettledNext
  <2>2. tops' = tops
    BY <1>1, <1>8 DEF tops
  <2>3. cuts' = cuts
    BY <1>1, <2>2 DEF cuts
  <2>4. above \in NodeId /\ above \in live
    BY <1>1, <1>2, <1>8
  <2>5. Kept(nodes'[above], nodes[above])
    BY <1>2, <2>4 DEF SplitsOff
  <2>6. isNode(nodes'[above]) /\ isNode(nodes[above])
    BY <1>0, <2>4 DEF ShapeInv, TypeInv, TypeOK, isHeap
  <2>7. ~nodes'[above].leaf
    BY <1>1, <1>2, <1>8, <2>4, <2>5 DEF Kept
  <2>8. Last(outer).idx <= size(nodes'[above])
    <3>1. deg(settled, tops, above) = Len(nodes'[above].children)
      BY <1>1, <2>4, <2>5 DEF deg, kids, Kept
    <3>2. Len(nodes'[above].children) = size(nodes'[above]) + 1 /\ size(nodes'[above]) \in Nat
      BY <2>6, <2>7 DEF isNode, size
    <3> QED BY <3>1, <3>2, <1>2, <1>8
  <2>9. /\ ParentSplits(nodes'[above], m, place, e, id) /\ m.lowest = nodes'[above].lowest /\ m.left = nodes'[above].left
    BY <2>6, <2>7, <2>8, <1>2, <1>4, <1>8, AdjustedSplits
  <2> HIDE DEF m
  <2>10. ParentSplits(nodes[above], m, place, e, id) /\ m.lowest = nodes[above].lowest
    <3>1. ~nodes[above].leaf
      BY <2>5, <2>7 DEF Kept
    <3> QED
      BY <2>5, <2>9, <3>1 DEF ParentSplits, Kept
  <2>11. settled'[above] = m
    BY <2>1, <2>4, <1>4 DEF m
  <2>12. \A q \in NodeId : q # above => settled'[q] = nodes'[q]
    BY <2>1, <1>4
  <2> QED BY <2>2, <2>3, <2>5, <2>9, <2>10, <2>11, <2>12
<1> HIDE DEF m
<1>9. \A q \in NodeId : q # above => settled'[q] = nodes'[q]
  BY <1>7, <1>8
<1>10. \A q \in live : B[q].left # Nil <=> lft(settled, q) # Nil
  BY <1>1 DEF Based, lft
<1>11. \A q \in live \ {here} : B[q] = nodes[q]
  BY DEF Based
<1>12. hi \in [NodeId \cup {Nil} -> Int] /\ hi[here] \in Int /\ e \in Int
  BY <1>2 DEF Order, SplitsOff, Severed
<1>ho. PICK ho : ho = [hi EXCEPT ![here] = e - 1, ![id] = hi[here]]
  OBVIOUS
<1>13. /\ ho \in [NodeId \cup {Nil} -> Int] /\ ho[here] = e - 1 /\ ho[id] = hi[here]
       /\ \A q \in (live \cup {Nil}) \ {here} : ho[q] = hi[q]
  <2>1. \A q \in NodeId \cup {Nil} : ho[q] = IF q = id THEN hi[here] ELSE IF q = here THEN e - 1 ELSE hi[q]
    BY <1>ho, <1>12
  <2>2. ho \in [NodeId \cup {Nil} -> Int]
    BY <1>ho, <1>12
  <2> QED
    BY <1>1, <1>2, <1>3, <2>1, <2>2
<1>14. Splits(B, tops, cuts, live, hi, settled', tops', cuts', ho, above, place, here, id, e)
  <2>1. settled'[here] = nodes'[here] /\ settled'[id] = nodes'[id]
    BY <1>2, <1>3, <1>9
  <2>2. ParentSplits(nd(B, tops, cuts, above), nd(settled', tops', cuts', above), place, e, id)
    <3>1. CASE outer = << >>
      <4>1. nd(B, tops, cuts, above) = crown(<<here>>, << >>) /\ nd(settled', tops', cuts', above) = crown(<<here, id>>, <<e>>)
        BY <3>1, <1>1, <1>2, <1>6, <1>7 DEF nd
      <4> QED
        BY <4>1, <3>1, <1>2, TopSplits
    <3>2. CASE outer # << >>
      <4>1. nd(B, tops, cuts, above) = nodes[above] /\ nd(settled', tops', cuts', above) = m
        BY <3>2, <1>1, <1>2, <1>8, <1>11 DEF nd
      <4> QED
        BY <3>2, <4>1, <1>8
    <3> QED BY <3>1, <3>2
  <2>3. above # Nil => tops' = tops /\ cuts' = cuts
    BY <1>2, <1>8
  <2>4. \A q \in live \ {here, above} : likened(settled'[q], B[q])
    BY <1>1, <1>9, <1>11 DEF SplitsOff, likened, Kept
  <2>5. \A q \in live \ {here} : settled'[q].lowest = B[q].lowest
    <3> TAKE q \in live \ {here}
    <3>1. CASE q = above
      <4>1. outer # << >>
        BY <3>1, <1>1, <1>2
      <4> QED
        BY <3>1, <4>1, <1>8, <1>11
    <3>2. CASE q # above
      BY <3>2, <1>1, <1>9, <1>11 DEF SplitsOff, Kept
    <3> QED BY <3>1, <3>2
  <2>6. \A q \in live : settled'[q].left # Nil => B[q].left # Nil
    <3> TAKE q \in live
    <3>1. settled'[q].left = nodes'[q].left
      <4>1. CASE q = above
        <5>1. outer # << >>
          BY <4>1, <1>1, <1>2
        <5> QED
          BY <4>1, <5>1, <1>8
      <4>2. CASE q # above
        BY <4>2, <1>1, <1>9
      <4> QED BY <4>1, <4>2
    <3>2. nodes'[q].left # Nil => lft(settled, q) # Nil
      BY DEF SplitsOff
    <3> QED BY <3>1, <3>2, <1>10
  <2>7. /\ Severed(B[here], settled'[here], settled'[id], e, B, hi, hi[here])
        /\ From(settled'[id], B, hi, settled'[id].lowest) /\ e <= settled'[id].lowest /\ settled'[id].lowest <= hi[here]
        /\ settled'[here].lowest = B[here].lowest
        /\ stems(settled'[here], B, tops, {here}) /\ stems(settled'[id], B, tops, {here})
    BY <2>1 DEF SplitsOff
  <2> QED
    BY ONLY <1>3, <1>13, <2>2, <2>3, <2>4, <2>5, <2>6, <2>7 DEF Splits
<1>15. Ordered(settled', tops', cuts', live', ho)
  <2>1. Tree(B, tops, live, h) /\ Ordered(B, tops, cuts, live, hi)
    BY DEF Based
  <2>2. place \in 1 .. deg(B, tops, above) /\ here = kid(B, tops, above, place)
    BY <1>2 DEF Based, deg, kid
  <2>3. Ordered(settled', tops', cuts', live \cup {id}, ho)
    BY ONLY <1>1, <1>2, <1>14, <2>1, <2>2, SplitOrder
  <2> QED
    BY <1>5, <2>3
<1>16. \A q \in live : h[q] > h[here] => q # here
  BY <1>2
<1>17. \A q \in live : h[q] > h[here] => settled'[q].lowest = settled[q].lowest /\ ho[q] = hi[q]
  <2> TAKE q \in live
  <2> HAVE h[q] > h[here]
  <2>1. q \in live \ {here} /\ q \in NodeId
    BY <1>1, <1>16
  <2>2. settled'[q].lowest = B[q].lowest
    BY <2>1, <1>14 DEF Splits
  <2> QED
    BY <1>1, <1>11, <1>13, <2>1, <2>2
<1>18. \A q \in live : h[q] > h[above] => nodes'[q].keys = nodes[q].keys /\ nodes'[q].buffer = nodes[q].buffer
  <2>1. \A q \in live : h[q] > h[above] => q # here
    BY <1>2
  <2> QED
    BY <2>1 DEF SplitsOff, Kept
<1>19. outer # << >> => /\ nodes'[above].children = nodes[above].children /\ here \in allocated'
                        /\ Last(outer).batch \subseteq messagesFor(nodes'[above], Last(outer).idx)
  <2> HAVE outer # << >>
  <2>1. Kept(nodes'[above], nodes[above])
    BY <1>8
  <2>2. here \in allocated'
    BY <1>1, <1>2
  <2> QED
    BY <1>0, <2>1, <2>2, CallerStays
<1>20. Batches' /\ Order(ho)'
  BY ONLY <1>0, <1>13, <1>15, <1>17, <1>18, <1>19, ReturnOrder, running, Shape(h), Order(hi), pc' = "return", stack' = outer
<1> QED
  BY <1>20 DEF OrderInv

\* A node with a right neighbour is the left neighbour of it.
LEMMA RightHasLeft ==
  ASSUME TypeInv, Flow, running, NEW h, Shape(h), NEW q \in live, nodes[q].right # Nil
  PROVE  lft(settled, nodes[q].right) # Nil
<1>1. live \subseteq NodeId /\ Nil \notin live /\ \A i \in NodeId : settled[i] = nodes[i]
  BY RunningPlain, LiveIds
<1>2. Mutual(settled, live, h)
  BY DEF Shape, Tree
<1>3. rgt(settled, q) = nodes[q].right
  BY <1>1 DEF rgt
<1>4. lft(settled, rgt(settled, q)) = q
  BY <1>2, <1>3 DEF Mutual
<1> QED
  BY <1>1, <1>3, <1>4

\* Only the left links of others change when a node is split in two.
LEMMA HalvesKeep ==
  ASSUME TypeInv, Flow, running, NEW h, Shape(h), NEW id \in NodeId, id \notin live,
         NEW base, \A q \in live \ {here} : base[q] = nodes[q],
         base[here].left = nodes[here].left,
         \A q \in NodeId : /\ \A f \in {"leaf", "keys", "children", "buffer", "lowest"} : nodes'[q][f] = base[q][f]
                           /\ nodes'[q].left = IF q = nodes[here].right THEN id ELSE base[q].left
  PROVE  /\ \A q \in live \ {here} : Kept(nodes'[q], nodes[q])
         /\ \A q \in live : nodes'[q].left # Nil => lft(settled, q) # Nil
<1>1. live \subseteq NodeId /\ Nil \notin live /\ here \in live /\ \A i \in NodeId : settled[i] = nodes[i]
  BY RunningPlain, LiveIds, HereFacts
<1>2. \A q \in live \ {here} : Kept(nodes'[q], nodes[q])
  BY <1>1 DEF Kept
<1>3. \A q \in live : lft(settled, q) = nodes[q].left
  BY <1>1 DEF lft
<1>4. \A q \in live : base[q].left = nodes[q].left
  BY <1>1
<1>5. ASSUME NEW q \in live, nodes'[q].left # Nil
      PROVE  lft(settled, q) # Nil
  <2>1. CASE q = nodes[here].right
    BY <2>1, <1>1, RightHasLeft
  <2>2. CASE q # nodes[here].right
    BY <2>2, <1>1, <1>3, <1>4, <1>5
  <2> QED BY <2>1, <2>2
<1> QED
  BY <1>2, <1>5

\* A leaf splits.
LEMMA SplitLeafOrder ==
  ASSUME OrderInv, ShapeInv', SplitLeaf
  PROVE  OrderInv'
<1> DEFINE n == inserted(target)
           mid == size(n) \div 2
           pivot == n.keys[mid + 1]
           right == [n EXCEPT !.keys = drop(@, mid), !.values = drop(@, mid), !.lowest = pivot, !.left = call.node]
           left(id) == [n EXCEPT !.keys = take(@, mid), !.values = take(@, mid), !.right = id]
           base(id) == [nodes EXCEPT ![call.node] = left(id), ![id] = right]
           B == [nodes EXCEPT ![call.node] = n]
<1>0. ShapeInv
  BY DEF OrderInv
<1>1. PICK h : Shape(h)
  BY <1>0 DEF ShapeInv
<1>h. PICK hi : Order(hi)
  BY DEF OrderInv
<1>2. /\ pc = "apply" /\ target.leaf /\ call.msg # Absent /\ isOverflowing(n) /\ stack' = stack
  BY DEF SplitLeaf
<1>3. PICK id \in NodeId :
        /\ isFresh(id) /\ nodes' = linkBack(base(id), n.right, id)
        /\ Give(Restructured, [key |-> pivot, node |-> id, type |-> "Split"])
        /\ allocated' = allocated \cup {id}
  BY DEF SplitLeaf
<1>4. /\ TypeInv /\ Childless /\ Flow /\ Sizes /\ running /\ here = call.node /\ outer = stack
      /\ here \in live /\ here \in NodeId /\ target = nodes[here] /\ live \subseteq NodeId
      /\ filled(nodes, tops, here)
  BY <1>0, <1>1, <1>2, ApplyFacts
<1>5. /\ pc' = "return" /\ stack' = outer /\ change'.type = "Split" /\ change'.node = id /\ change'.key = pivot
      /\ rootNode' = rootNode /\ orphans' = orphans
  BY <1>2, <1>3, <1>4 DEF Give, Restructured, history
<1>6. /\ \A f \in {"leaf", "children", "parent", "left", "right"} : n[f] = target[f]
      /\ size(n) \in {size(target), size(target) + 1} /\ size(target) \in Nat
  BY <1>2, <1>4, InsertedLinks
<1>7. size(n) = Fanout
  <2>1. size(target) < Fanout
    BY <1>4 DEF filled
  <2> QED BY <2>1, <1>2, <1>4, <1>6, SizeAssumption DEF isOverflowing
<1>8. isNode(n) /\ n.keys \in Seq(KeyType) /\ Len(n.keys) = Fanout /\ DOMAIN n = fields
  BY <1>2, <1>4, <1>7, InsertedType DEF isNode, size, fields
<1>9. mid \in 0 .. Len(n.keys) /\ mid \in Nat /\ 1 <= mid /\ mid < Len(n.keys)
  BY <1>7, <1>8, SizeAssumption
<1>s. Suits(n, hi)
  <2>1. Setting(nodes[here], hi)
    BY <1>1, <1>4, <1>h, HereSetting
  <2> QED
    BY <2>1, <1>2, <1>4, InsertedSuits
<1> HIDE DEF n, mid
<1>10. /\ DOMAIN left(id) = fields /\ DOMAIN right = fields
       /\ left(id).keys = take(n.keys, mid) /\ right.keys = drop(n.keys, mid)
       /\ left(id).lowest = n.lowest /\ right.lowest = pivot
       /\ \A f \in {"leaf", "children", "buffer"} : left(id)[f] = n[f] /\ right[f] = n[f]
       /\ left(id).left = n.left
  BY <1>8 DEF fields
<1> HIDE DEF left, right
<1>12. id \notin allocated /\ id \notin live /\ id # here
  BY <1>3, <1>4, RunningPlain DEF isFresh, isLeast
<1>b. B[here] = n /\ \A q \in live \ {here} : B[q] = nodes[q]
  BY <1>4 DEF TypeInv, TypeOK, isHeap
<1> HIDE DEF B
<1>13. /\ isTable(base(id))
       /\ \A q \in NodeId : base(id)[q] = IF q = id THEN right ELSE IF q = here THEN left(id) ELSE nodes[q]
  <2> DEFINE t == [nodes EXCEPT ![here] = left(id)]
  <2>1. isTable(nodes)
    BY <1>4, HeapTable DEF TypeInv, TypeOK
  <2>4. isTable(t) /\ \A q \in NodeId : t[q] = IF q = here THEN left(id) ELSE nodes[q]
    BY <2>1, <1>4, <1>10, TableUpdate
  <2>5. base(id) = [t EXCEPT ![id] = right]
    BY <1>4
  <2> HIDE DEF t, base
  <2>6. /\ isTable([t EXCEPT ![id] = right])
        /\ \A q \in NodeId : [t EXCEPT ![id] = right][q] = IF q = id THEN right ELSE t[q]
    BY <2>4, <1>10, TableUpdate
  <2> QED BY <2>4, <2>5, <2>6
<1> HIDE DEF base
<1>14. \A q \in NodeId : /\ \A f \in fields \ {"left"} : nodes'[q][f] = base(id)[q][f]
                         /\ nodes'[q].left = IF q = nodes[here].right THEN id ELSE base(id)[q].left
  <2>1. n.right = nodes[here].right
    BY <1>4, <1>6
  <2> QED BY <2>1, <1>3, <1>13, LinkBackFields
<1>15. \A q \in NodeId : \A f \in {"leaf", "keys", "children", "buffer", "lowest"} : nodes'[q][f] = base(id)[q][f]
  BY <1>14 DEF fields
<1>16. /\ nodes'[here].keys = take(n.keys, mid) /\ nodes'[id].keys = drop(n.keys, mid)
       /\ nodes'[here].lowest = n.lowest /\ nodes'[id].lowest = pivot
       /\ \A f \in {"leaf", "children", "buffer"} : nodes'[here][f] = n[f] /\ nodes'[id][f] = n[f]
  <2>1. base(id)[here] = left(id) /\ base(id)[id] = right
    BY <1>4, <1>12, <1>13
  <2> QED
    BY <2>1, <1>4, <1>10, <1>15
<1>17. /\ \A q \in live \ {here} : Kept(nodes'[q], nodes[q])
       /\ \A q \in live : nodes'[q].left # Nil => lft(settled, q) # Nil
  <2>1. \A q \in live \ {here} : base(id)[q] = nodes[q]
    BY <1>4, <1>12, <1>13
  <2>2. base(id)[here].left = nodes[here].left
    BY <1>4, <1>6, <1>10, <1>12, <1>13
  <2> QED
    BY <2>1, <2>2, <1>1, <1>4, <1>12, <1>14, <1>15, HalvesKeep
<1>18. Based(B, h, hi) /\ Fine(n, B, hi, hi[here]) /\ hi[here] \in Int
  <2>1. \A f \in {"parent", "left", "right"} : B[here][f] = nodes[here][f]
    BY <1>4, <1>6, <1>b
  <2>2. Based(B, h, hi) /\ Kin(B, tops, cuts, live, hi, above, place, here)
    BY <2>1, <1>1, <1>4, <1>b, <1>h, <1>s, BaseOrder
  <2> QED
    BY <2>2, <1>b DEF Kin
<1>19. n.leaf /\ numeric(n)
  BY <1>2, <1>4, <1>6, <1>18 DEF Fine
<1>20. Len(n.children) = 0 /\ DOMAIN n.buffer = {} /\ n.leaf \in BOOLEAN
  BY <1>19 DEF numeric
<1>21. CutLeaf(n, nodes'[here], nodes'[id], mid)
  <2>1. Len(take(n.keys, mid)) = mid /\ \A j \in 1 .. mid : take(n.keys, mid)[j] = n.keys[j]
    BY <1>8, <1>9, TakeItems
  <2>2. Len(drop(n.keys, mid)) = Len(n.keys) - mid /\ \A j \in 1 .. (Len(n.keys) - mid) : drop(n.keys, mid)[j] = n.keys[mid + j]
    BY <1>8, <1>9, DropItems
  <2>3. nodes'[here].leaf = n.leaf /\ nodes'[id].leaf = n.leaf /\ nodes'[here].children = n.children
        /\ nodes'[id].children = n.children /\ nodes'[here].buffer = n.buffer /\ nodes'[id].buffer = n.buffer
    BY <1>16
  <2> QED
    BY ONLY <2>1, <2>2, <2>3, <1>9, <1>16, <1>19, <1>20 DEF CutLeaf
<1>22. Severed(n, nodes'[here], nodes'[id], pivot, B, hi, hi[here]) /\ From(nodes'[id], B, hi, pivot)
  BY <1>18, <1>21, CutLeafOrder
<1> HIDE DEF pivot
<1>23. pivot \in Int /\ pivot <= hi[here]
  BY <1>22 DEF Severed
<1>24. SplitsOff(B, hi, id, pivot)
  <2>1. stems(nodes'[here], B, tops, {here}) /\ stems(nodes'[id], B, tops, {here})
    <3>1. Len(nodes'[here].children) = 0 /\ Len(nodes'[id].children) = 0
      BY <1>16, <1>20
    <3> QED
      BY <3>1 DEF stems
  <2>2. pivot <= nodes'[id].lowest /\ nodes'[id].lowest <= hi[here] /\ nodes'[here].lowest = B[here].lowest
    BY <1>16, <1>23, <1>b
  <2>3. From(nodes'[id], B, hi, nodes'[id].lowest)
    BY <1>16, <1>22
  <2>4. Severed(B[here], nodes'[here], nodes'[id], pivot, B, hi, hi[here])
    BY <1>22, <1>b
  <2> QED
    BY ONLY <2>1, <2>2, <2>3, <2>4, <1>17 DEF SplitsOff
<1> QED
  BY <1>1, <1>3, <1>4, <1>5, <1>12, <1>18, <1>24, <1>h, SplitReturnOrder

\* The messages below a key, and from it on.
LEMMA BufferParts ==
  ASSUME NEW b, NEW k
  PROVE  DOMAIN below(b, k) = {j \in DOMAIN b : j < k} /\ DOMAIN from(b, k) = {j \in DOMAIN b : j >= k}
BY DEF below, from, Restrict

\* The nodes as they are, for a running node that changes only by its restructuring.
LEMMA PlainBase ==
  ASSUME TypeInv, Flow, running, NEW h, Shape(h), NEW hi, Order(hi)
  PROVE  /\ Based(nodes, h, hi)
         /\ Kin(nodes, tops, cuts, live, hi, above, place, here)
<1>1. Suits(nodes[here], hi)
  BY HereSetting, PlainSuits
<1> QED
  BY <1>1, BaseOrder

\* Nodes whose children are children of the running node.
LEMMA OwnStems ==
  ASSUME here # Nil, NEW x, \A j \in 1 .. Len(x.children) : \E k \in 1 .. Len(nodes[here].children) : x.children[j] = nodes[here].children[k]
  PROVE  stems(x, nodes, tops, {here})
BY DEF stems, deg, kid, kids

\* An internal node splits.
LEMMA SplitInternalOrder ==
  ASSUME OrderInv, ShapeInv', SplitInternal
  PROVE  OrderInv'
<1> DEFINE n == flusher
           mid == size(n) \div 2
           m == mid + 1
           pivot == n.keys[mid + 1]
           moved == drop(n.children, mid + 1)
           right(low) == [n EXCEPT !.keys = drop(@, mid + 1), !.children = moved,
                                   !.buffer = from(@, pivot), !.left = frame.node,
                                   !.lowest = low]
           left(id) == [n EXCEPT !.keys = take(@, mid), !.children = take(@, mid + 1),
                             !.buffer = below(@, pivot), !.right = id]
           lows == {nodes[moved[1]].lowest} \cup DOMAIN from(n.buffer, pivot)
           base(low, id) == [nodes EXCEPT ![frame.node] = left(id), ![id] = right(low)]
<1>0. ShapeInv
  BY DEF OrderInv
<1>1. PICK h : Shape(h)
  BY <1>0 DEF ShapeInv
<1>h. PICK hi : Order(hi)
  BY DEF OrderInv
<1>2. /\ FlushDone /\ isOverflowing(n) /\ stack' = Front(stack)
  BY DEF SplitInternal
<1>3. PICK id \in NodeId :
        /\ isFresh(id)
        /\ \E low \in lows : /\ isLeast(low, lows)
                             /\ nodes' = reparent(linkBack(base(low, id), n.right, id), ToSet(moved), id)
        /\ Give(err, [key |-> pivot, node |-> id, type |-> "Split"])
        /\ allocated' = allocated \cup {id}
  BY DEF SplitInternal
<1>31. PICK low \in lows : /\ isLeast(low, lows)
                           /\ nodes' = reparent(linkBack(base(low, id), n.right, id), ToSet(moved), id)
  BY <1>3
<1>4. /\ TypeInv /\ Childless /\ Flow /\ Sizes /\ running
      /\ here = frame.node /\ outer = Front(stack)
      /\ here \in live /\ here \in NodeId /\ n = nodes[here] /\ live \subseteq NodeId
      /\ isNode(n) /\ ~n.leaf /\ size(n) \in Nat
      /\ size(n) <= Fanout
      /\ err = "Success" => size(n) < Fanout
  BY <1>0, <1>1, <1>2, FlushFacts
<1>5. size(n) = Fanout /\ n.leaf \in BOOLEAN
  BY <1>2, <1>4, SizeAssumption DEF isOverflowing, isNode
<1>6. /\ pc' = "return" /\ stack' = outer /\ change'.type = "Split" /\ change'.node = id /\ change'.key = pivot
      /\ rootNode' = rootNode /\ orphans' = orphans
  BY <1>2, <1>3, <1>4, <1>5 DEF Give, history
<1>8. /\ n.keys \in Seq(KeyType) /\ Len(n.keys) = Fanout /\ DOMAIN n = fields
      /\ n.children \in Seq(NodeId) /\ Len(n.children) = Fanout + 1
  BY <1>4, <1>5 DEF isNode, size, fields
<1>9. /\ mid \in 0 .. Len(n.keys) /\ m \in 0 .. Len(n.keys) /\ m \in 0 .. Len(n.children)
      /\ m \in Nat /\ 1 <= m /\ m < Len(n.children) /\ m - 1 = mid /\ m \in 1 .. Len(n.keys) /\ m + 1 \in 1 .. Len(n.children)
      /\ Len(n.children) - m \in Nat /\ 1 \in 1 .. (Len(n.children) - m) /\ mid \in Nat
  BY <1>5, <1>8, SizeAssumption
<1>32. pivot = n.keys[m] /\ moved = drop(n.children, m)
  BY DEF m
<1> HIDE DEF n, mid
<1>10. /\ DOMAIN left(id) = fields /\ DOMAIN right(low) = fields
       /\ left(id).keys = take(n.keys, mid) /\ right(low).keys = drop(n.keys, m)
       /\ left(id).children = take(n.children, m) /\ right(low).children = drop(n.children, m)
       /\ left(id).buffer = below(n.buffer, pivot) /\ right(low).buffer = from(n.buffer, pivot)
       /\ left(id).lowest = n.lowest /\ right(low).lowest = low
       /\ left(id).leaf = n.leaf /\ right(low).leaf = n.leaf
       /\ left(id).left = n.left
  BY <1>8 DEF fields, m
<1> HIDE DEF left, right, moved, m, pivot, lows
<1>12. id \notin allocated /\ id \notin live /\ id # here
  BY <1>3, <1>4, RunningPlain DEF isFresh, isLeast
<1>13. /\ isTable(base(low, id))
       /\ \A q \in NodeId : base(low, id)[q] = IF q = id THEN right(low) ELSE IF q = here THEN left(id) ELSE nodes[q]
  <2> DEFINE t == [nodes EXCEPT ![here] = left(id)]
  <2>1. isTable(nodes)
    BY <1>4, HeapTable DEF TypeInv, TypeOK
  <2>2. isTable(t) /\ \A q \in NodeId : t[q] = IF q = here THEN left(id) ELSE nodes[q]
    BY <2>1, <1>4, <1>10, TableUpdate
  <2>3. base(low, id) = [t EXCEPT ![id] = right(low)]
    BY <1>4
  <2> HIDE DEF t, base
  <2>4. /\ isTable([t EXCEPT ![id] = right(low)])
        /\ \A q \in NodeId : [t EXCEPT ![id] = right(low)][q] = IF q = id THEN right(low) ELSE t[q]
    BY <2>2, <1>10, TableUpdate
  <2> QED BY <2>2, <2>3, <2>4
<1> HIDE DEF base
<1>14. \A q \in NodeId : /\ \A f \in fields \ {"left", "parent"} : nodes'[q][f] = base(low, id)[q][f]
                         /\ nodes'[q].left = IF q = nodes[here].right THEN id ELSE base(low, id)[q].left
  <2> DEFINE t == linkBack(base(low, id), n.right, id)
  <2>1. /\ isTable(t)
        /\ \A q \in NodeId : /\ \A f \in fields \ {"left"} : t[q][f] = base(low, id)[q][f]
                             /\ t[q].left = IF q = n.right THEN id ELSE base(low, id)[q].left
    BY <1>13, LinkBackFields
  <2>2. n.right = nodes[here].right /\ nodes' = reparent(t, ToSet(moved), id)
    BY <1>4, <1>31
  <2> HIDE DEF t
  <2>3. \A q \in NodeId : /\ \A f \in fields \ {"parent"} : nodes'[q][f] = t[q][f]
                          /\ nodes'[q].parent = IF q \in ToSet(moved) THEN id ELSE t[q].parent
    BY <2>1, <2>2, ReparentFields
  <2>4. "left" \in fields \ {"parent"}
    BY DEF fields
  <2> QED BY <2>1, <2>2, <2>3, <2>4
<1>15. \A q \in NodeId : \A f \in {"leaf", "keys", "children", "buffer", "lowest"} : nodes'[q][f] = base(low, id)[q][f]
  BY <1>14 DEF fields
<1> DEFINE x == nodes'[here]
           y == nodes'[id]
<1>16. /\ x.keys = take(n.keys, mid) /\ y.keys = drop(n.keys, m)
       /\ x.children = take(n.children, m) /\ y.children = drop(n.children, m)
       /\ x.buffer = below(n.buffer, pivot) /\ y.buffer = from(n.buffer, pivot)
       /\ x.lowest = n.lowest /\ y.lowest = low
       /\ x.leaf = n.leaf /\ y.leaf = n.leaf
  <2>1. base(low, id)[here] = left(id) /\ base(low, id)[id] = right(low)
    BY <1>4, <1>12, <1>13
  <2> QED
    BY <2>1, <1>4, <1>10, <1>15
<1> HIDE DEF x, y
<1>17. /\ \A q \in live \ {here} : Kept(nodes'[q], nodes[q])
       /\ \A q \in live : nodes'[q].left # Nil => lft(settled, q) # Nil
  <2>1. \A q \in live \ {here} : base(low, id)[q] = nodes[q]
    BY <1>4, <1>12, <1>13
  <2>2. base(low, id)[here].left = nodes[here].left
    BY <1>4, <1>10, <1>12, <1>13
  <2> QED
    BY <2>1, <2>2, <1>1, <1>4, <1>12, <1>14, <1>15, HalvesKeep
<1>18. Based(nodes, h, hi) /\ Fine(n, nodes, hi, hi[here]) /\ hi[here] \in Int
  <2>2. Based(nodes, h, hi) /\ Kin(nodes, tops, cuts, live, hi, above, place, here)
    BY <1>1, <1>4, <1>h, PlainBase
  <2> QED
    BY <2>2, <1>4 DEF Kin
<1>19. /\ Len(take(n.keys, mid)) = mid /\ \A j \in 1 .. mid : take(n.keys, mid)[j] = n.keys[j]
       /\ Len(drop(n.keys, m)) = Len(n.keys) - m /\ \A j \in 1 .. (Len(n.keys) - m) : drop(n.keys, m)[j] = n.keys[m + j]
       /\ Len(take(n.children, m)) = m /\ \A j \in 1 .. m : take(n.children, m)[j] = n.children[j]
       /\ Len(drop(n.children, m)) = Len(n.children) - m
       /\ \A j \in 1 .. (Len(n.children) - m) : drop(n.children, m)[j] = n.children[m + j]
  <2>1. Len(take(n.keys, mid)) = mid /\ \A j \in 1 .. mid : take(n.keys, mid)[j] = n.keys[j]
    BY <1>8, <1>9, TakeItems
  <2>2. Len(drop(n.keys, m)) = Len(n.keys) - m /\ \A j \in 1 .. (Len(n.keys) - m) : drop(n.keys, m)[j] = n.keys[m + j]
    BY <1>8, <1>9, DropItems
  <2>3. Len(take(n.children, m)) = m /\ \A j \in 1 .. m : take(n.children, m)[j] = n.children[j]
    BY <1>8, <1>9, TakeItems
  <2>4. /\ Len(drop(n.children, m)) = Len(n.children) - m
        /\ \A j \in 1 .. (Len(n.children) - m) : drop(n.children, m)[j] = n.children[m + j]
    BY <1>8, <1>9, DropItems
  <2> QED
    BY ONLY <2>1, <2>2, <2>3, <2>4
<1>20. /\ DOMAIN x.buffer = {j \in DOMAIN n.buffer : j < pivot} /\ DOMAIN y.buffer = {j \in DOMAIN n.buffer : j >= pivot}
  <2>1. DOMAIN below(n.buffer, pivot) = {j \in DOMAIN n.buffer : j < pivot}
    BY BufferParts
  <2>2. DOMAIN from(n.buffer, pivot) = {j \in DOMAIN n.buffer : j >= pivot}
    BY BufferParts
  <2>3. x.buffer = below(n.buffer, pivot) /\ y.buffer = from(n.buffer, pivot)
    BY <1>16
  <2> QED
    BY ONLY <2>1, <2>2, <2>3
<1>21. /\ pivot \in Int /\ pivot <= nodes[n.children[m + 1]].lowest /\ nodes[n.children[m + 1]].lowest \in Int
       /\ DOMAIN n.buffer \subseteq Int
  <2>1. m \in 1 .. Len(n.keys) /\ Len(n.children) > 0
    BY <1>8, <1>9
  <2>2. DOMAIN n.buffer \subseteq Int
    BY <1>18 DEF Fine, numeric
  <2> QED
    BY <2>1, <2>2, <1>18, <1>32, PivotBetween
<1>22. CutInternal(n, x, y, m, pivot)
  <2>1. \A j \in DOMAIN x.buffer : j \in DOMAIN n.buffer /\ j < pivot
    BY <1>20
  <2>2. \A j \in DOMAIN y.buffer : j \in DOMAIN n.buffer /\ pivot <= j
    <3> TAKE j \in DOMAIN y.buffer
    <3>1. j \in DOMAIN n.buffer /\ j >= pivot
      BY <1>20
    <3>2. j \in Int
      BY <3>1, <1>21
    <3> QED BY <3>1, <3>2, <1>21
  <2>3. DOMAIN x.buffer \subseteq DOMAIN n.buffer /\ DOMAIN y.buffer \subseteq DOMAIN n.buffer
    BY <2>1, <2>2
  <2>4. /\ Len(x.children) = m /\ \A j \in 1 .. m : x.children[j] = n.children[j]
        /\ Len(y.children) = Len(n.children) - m /\ \A j \in 1 .. (Len(n.children) - m) : y.children[j] = n.children[m + j]
    BY <1>16, <1>19
  <2>5. /\ Len(x.keys) = m - 1 /\ \A j \in 1 .. (m - 1) : x.keys[j] = n.keys[j]
        /\ Len(y.keys) = Len(n.keys) - m /\ \A j \in 1 .. (Len(n.keys) - m) : y.keys[j] = n.keys[m + j]
    BY <1>9, <1>16, <1>19
  <2>6. ~n.leaf /\ x.leaf \in BOOLEAN /\ y.leaf \in BOOLEAN /\ ~x.leaf /\ ~y.leaf
    BY <1>4, <1>5, <1>16
  <2> QED
    BY <2>1, <2>2, <2>3, <2>4, <2>5, <2>6, <1>9 DEF CutInternal
<1>23. low \in Int /\ low <= nodes[n.children[m + 1]].lowest /\ (\A j \in DOMAIN y.buffer : low <= j) /\ pivot <= low
  <2>1. moved[1] = n.children[m + 1]
    BY <1>9, <1>19, <1>32
  <2>2. lows = {nodes[n.children[m + 1]].lowest} \cup DOMAIN y.buffer
    BY <2>1, <1>16 DEF lows
  <2>3. \A j \in lows : j \in Int /\ pivot <= j
    BY <2>2, <1>21, <1>22 DEF CutInternal
  <2> QED
    BY <2>2, <2>3, <1>31 DEF isLeast
<1>24. /\ Severed(n, x, y, pivot, nodes, hi, hi[here])
       /\ From(y, nodes, hi, low) /\ low <= hi[here]
  <2>1. n.keys[m] <= pivot
    BY <1>21, <1>32
  <2>2. /\ Severed(n, x, y, pivot, nodes, hi, hi[here])
        /\ \A z \in Int : z <= nodes[n.children[m + 1]].lowest /\ (\A j \in DOMAIN y.buffer : z <= j)
                               => From(y, nodes, hi, z) /\ z <= hi[here]
    BY <2>1, <1>18, <1>21, <1>22, CutInternalOrder
  <2> QED
    BY <2>2, <1>23
<1>25. SplitsOff(nodes, hi, id, pivot)
  <2>0. here # Nil /\ Len(n.children) \in Nat /\ n.children = nodes[here].children
    BY <1>4, <1>8, LiveIds
  <2>1. stems(x, nodes, tops, {here})
    <3>1. \A j \in 1 .. Len(x.children) : j \in 1 .. Len(n.children) /\ x.children[j] = n.children[j]
      <4>1. \A j \in 1 .. m : j \in 1 .. Len(n.children)
        BY <1>9, <2>0
      <4> QED BY <4>1, <1>22 DEF CutInternal
    <3> QED
      BY <2>0, <3>1, OwnStems
  <2>2. stems(y, nodes, tops, {here})
    <3>1. \A j \in 1 .. Len(y.children) : m + j \in 1 .. Len(n.children) /\ y.children[j] = n.children[m + j]
      <4>1. \A j \in 1 .. (Len(n.children) - m) : m + j \in 1 .. Len(n.children)
        BY <1>9, <2>0
      <4> QED BY <4>1, <1>22 DEF CutInternal
    <3> QED
      BY <2>0, <3>1, OwnStems
  <2>3. pivot <= y.lowest /\ y.lowest <= hi[here] /\ x.lowest = nodes[here].lowest /\ From(y, nodes, hi, y.lowest)
    BY <1>4, <1>16, <1>23, <1>24
  <2>4. Severed(nodes[here], x, y, pivot, nodes, hi, hi[here])
    BY <1>24, <1>4
  <2>5. x = nodes'[here] /\ y = nodes'[id]
    BY DEF x, y
  <2> QED
    BY ONLY <2>1, <2>2, <2>3, <2>4, <2>5, <1>17 DEF SplitsOff
<1> QED
  BY <1>1, <1>3, <1>4, <1>6, <1>12, <1>18, <1>25, <1>h, SplitReturnOrder

-----------------------------------------------------------------------------
(* Redistributions *)

\* Messages for child j + 1 stay messages for it when one of its two pivots moves away from it.
LEMMA RoutedStill ==
  ASSUME NEW n, NEW m, NEW j \in Nat, NEW i, DOMAIN n.buffer \subseteq Int, m.buffer = n.buffer,
         n.keys \in Seq(KeyType), m.keys \in Seq(KeyType), ascending(n.keys), ascending(m.keys),
         Len(m.keys) = Len(n.keys), j <= Len(n.keys), i \in 1 .. Len(n.keys),
         \A k \in 1 .. Len(n.keys) : k # i => m.keys[k] = n.keys[k],
         n.keys[i] \in Int, m.keys[i] \in Int,
         (i = j /\ m.keys[i] <= n.keys[i]) \/ (i = j + 1 /\ n.keys[i] <= m.keys[i])
  PROVE  messagesFor(n, j) \subseteq messagesFor(m, j)
<1> SUFFICES ASSUME NEW k \in messagesFor(n, j) PROVE k \in messagesFor(m, j)
  OBVIOUS
<1>1. k \in DOMAIN n.buffer /\ upperBound(n.keys, k) = j /\ k \in Int
  BY DEF messagesFor
<1> DEFINE s == n.keys
           t == m.keys
           a == Len(s)
<1>2. a \in Nat /\ j \in 0 .. a /\ Len(t) = a
  OBVIOUS
<1>3. (j > 0 => s[j] <= k) /\ (j < a => k < s[j + 1])
  BY <1>1, <1>2, BetweenPivots
<1>4. (j > 0 => s[j] \in Int) /\ (j < a => s[j + 1] \in Int)
  <2>1. \A q \in 1 .. a : s[q] \in KeyType
    OBVIOUS
  <2>2. \A q \in 1 .. a : s[q] \in Int
    BY <2>1, KeyNumbers
  <2> QED BY <1>2, <2>2
<1>5. (j > 0 => t[j] <= k) /\ (j < a => k < t[j + 1])
  <2> HIDE DEF s, t, a
  <2>1. CASE i = j /\ m.keys[i] <= n.keys[i]
    <3>1. j + 1 # i /\ (j < a => t[j + 1] = s[j + 1])
      BY <2>1, <1>2 DEF s, t, a
    <3>2. t[j] <= s[j] /\ t[j] \in Int /\ s[j] \in Int
      BY <2>1 DEF s, t
    <3> QED BY <3>1, <3>2, <1>1, <1>2, <1>3, <1>4
  <2>2. CASE i = j + 1 /\ n.keys[i] <= m.keys[i]
    <3>1. j # i /\ (j > 0 => t[j] = s[j])
      BY <2>2, <1>2 DEF s, t, a
    <3>2. s[j + 1] <= t[j + 1] /\ t[j + 1] \in Int /\ s[j + 1] \in Int
      BY <2>2 DEF s, t
    <3> QED BY <3>1, <3>2, <1>1, <1>2, <1>3, <1>4
  <2> QED BY <2>1, <2>2
<1>6. upperBound(t, k) = j
  BY <1>1, <1>2, <1>5, BetweenPivots
<1> QED
  BY <1>1, <1>6 DEF messagesFor

\* What a redistribution at e leaves of the two nodes and the rest of the tree.
SharesOff(B, hi, l, r, e, u) ==
  /\ Fine(u, B, hi, hi[r])
  /\ \A z \in Int : z <= B[r].lowest /\ From(B[l], B, hi, z) => From(u, B, hi, z)
  /\ Severed(u, nodes'[l], nodes'[r], e, B, hi, hi[r])
  /\ From(nodes'[r], B, hi, nodes'[r].lowest) /\ e <= nodes'[r].lowest /\ nodes'[r].lowest <= hi[r]
  /\ nodes'[l].lowest = B[l].lowest
  /\ stems(nodes'[l], B, tops, {l, r}) /\ stems(nodes'[r], B, tops, {l, r})
  /\ \A q \in live \ {l, r, above} : Kept(nodes'[q], nodes[q])
  /\ \A q \in live : nodes'[q].left = nodes[q].left

\* The caller of it has its pivot i moved already, away from the child that it calls, or not yet.
CallerMoved(i, e) ==
  LET m == nodes'[above]
      n == nodes[above] IN
  /\ m.leaf = n.leaf /\ m.children = n.children /\ m.buffer = n.buffer /\ m.lowest = n.lowest
  /\ Len(m.keys) = Len(n.keys)
  /\ \A k \in 1 .. Len(n.keys) : k # i => m.keys[k] = n.keys[k]
  /\ \/ m.keys = n.keys
     \/ m.keys[i] = e /\ (i + 1 = place => e <= n.keys[i]) /\ (i = place => n.keys[i] <= e)

\* Two nodes share what they have anew.
LEMMA ShareReturnOrder ==
  ASSUME OrderInv, ShapeInv', running, NEW h, Shape(h), NEW hi, Order(hi), outer # << >>,
         NEW i, NEW l, NEW r, Mates(settled, tops, live, above, i, l, r), here \in {l, r},
         \/ change'.type = "RedistributeLeft" /\ here = r /\ i = place - 1
         \/ change'.type = "RedistributeRight" /\ here = l /\ i = place,
         pc' = "return", stack' = outer, NEW e, change'.key = e,
         rootNode' = rootNode, orphans' = orphans, allocated' = allocated,
         NEW B, Based(B, h, hi), NEW u, SharesOff(B, hi, l, r, e, u), CallerMoved(i, e)
  PROVE  OrderInv'
<1>0. TypeInv /\ Flow /\ Batches
  BY DEF OrderInv, ShapeInv
<1>1. /\ \A q \in NodeId : settled[q] = nodes[q]
      /\ live = allocated \ orphans /\ live \subseteq NodeId /\ Nil \notin live /\ Nil \notin NodeId
      /\ rootNode # Nil /\ tops = <<rootNode>>
  BY <1>0, RunningPlain, LiveIds
<1>2. /\ here \in live /\ here \in NodeId /\ here # Nil /\ above # here
      /\ place \in 1 .. deg(settled, tops, above) /\ kid(settled, tops, above, place) = here
      /\ h[above] = h[here] + 1 /\ h[here] \in Nat
      /\ above \in live /\ ~settled[above].leaf /\ Last(outer).idx \in Nat /\ Last(outer).idx + 1 = place
  BY <1>0, HereFacts
<1>3. /\ l \in live /\ r \in live /\ l # r /\ l # above /\ r # above /\ Tree(settled, tops, live, h)
      /\ h[l] = h[here] /\ h[r] = h[here]
  <2>1. Tree(settled, tops, live, h)
    BY DEF Shape
  <2>2. l \in live /\ r \in live /\ l # r /\ l # above /\ r # above
    BY <2>1, <1>1, MateFacts
  <2>3. h[l] = h[r]
    BY <2>1, <1>1, MateFacts
  <2> QED BY <2>1, <2>2, <2>3
<1>4. gone(change') = {}
  BY DEF gone
<1>5. live' = live
  BY <1>0, <1>1, <1>4, SettledNext
<1> DEFINE m == adjusted(nodes'[above], Last(outer).idx, change')
<1>6. /\ tops' = tops /\ cuts' = cuts /\ settled'[above] = m
      /\ \A q \in NodeId : q # above => settled'[q] = nodes'[q]
  <2>1. settled' = [q \in NodeId |-> IF q \in gone(change') THEN NewLeaf
                                     ELSE IF q = above THEN adjusted(nodes'[above], Last(outer).idx, change')
                                     ELSE nodes'[q]]
    BY <1>0, SettledNext
  <2>2. tops' = tops
    BY <1>1 DEF tops
  <2>3. cuts' = cuts
    <3>1. Len(tops) # 2
      BY <1>1
    <3> QED
      BY <3>1, <2>2 DEF cuts
  <2>4. above \in NodeId
    BY <1>1, <1>2
  <2> QED
    BY <2>1, <2>2, <2>3, <2>4, <1>4
<1>7. /\ isNode(nodes'[above]) /\ isNode(nodes[above]) /\ ~nodes'[above].leaf /\ ~nodes[above].leaf
      /\ i \in 1 .. Len(nodes[above].keys) /\ i \in Nat
      /\ nodes[above].keys \in Seq(KeyType) /\ nodes'[above].keys \in Seq(KeyType)
      /\ place - 1 <= Len(nodes[above].keys)
  <2>1. isNode(nodes'[above]) /\ isNode(nodes[above])
    BY <1>0, <1>1, <1>2 DEF ShapeInv, TypeInv, TypeOK, isHeap
  <2>2. ~nodes[above].leaf /\ ~nodes'[above].leaf
    BY <1>1, <1>2 DEF CallerMoved
  <2>3. deg(settled, tops, above) = Len(nodes[above].children)
    BY <1>1, <1>2 DEF deg, kids
  <2>4. nodes[above].keys \in Seq(KeyType) /\ nodes'[above].keys \in Seq(KeyType) /\ Len(nodes[above].children) = Len(nodes[above].keys) + 1
    BY <2>1, <2>2 DEF isNode
  <2> DEFINE a == Len(nodes[above].keys)
  <2>5. a \in Nat /\ i \in 1 .. (a + 1) /\ i + 1 \in 1 .. (a + 1) /\ place \in 1 .. (a + 1)
    BY <2>3, <2>4, <1>2 DEF Mates
  <2> HIDE DEF a
  <2>6. i \in 1 .. a /\ i \in Nat /\ place - 1 <= a
    BY <2>5
  <2> QED
    BY <2>1, <2>2, <2>4, <2>6 DEF a
<1>8. ParentMoves(nodes'[above], m, i, e) /\ m.lowest = nodes'[above].lowest /\ m.left = nodes'[above].left
  <2>1. i \in 1 .. size(nodes'[above])
    BY <1>7 DEF size, CallerMoved
  <2>2. \/ change'.type = "RedistributeLeft" /\ i = Last(outer).idx
        \/ change'.type = "RedistributeRight" /\ i = Last(outer).idx + 1
    <3>1. Last(outer).idx = place - 1
      BY <1>2
    <3> QED BY <3>1, <1>2
  <2> QED
    BY <2>1, <2>2, <1>2, <1>7, AdjustedMoves
<1> HIDE DEF m
<1>9. ParentMoves(nodes[above], m, i, e) /\ m.lowest = nodes[above].lowest /\ m.left = nodes[above].left
  <2>1. Swaps(m.keys, nodes[above].keys, i, e)
    <3>1. Swaps(m.keys, nodes'[above].keys, i, e)
      BY <1>8 DEF ParentMoves
    <3>2. Len(nodes'[above].keys) = Len(nodes[above].keys) /\ \A k \in 1 .. Len(nodes[above].keys) : k # i => nodes'[above].keys[k] = nodes[above].keys[k]
      BY DEF CallerMoved
    <3> QED BY <3>1, <3>2 DEF Swaps
  <2>2. nodes'[above].left = nodes[above].left
    BY <1>2 DEF SharesOff
  <2>3. /\ m.leaf \in BOOLEAN /\ ~m.leaf /\ m.children = nodes'[above].children /\ DOMAIN m.buffer \subseteq DOMAIN nodes'[above].buffer
    BY <1>8 DEF ParentMoves
  <2>4. nodes'[above].children = nodes[above].children /\ nodes'[above].buffer = nodes[above].buffer /\ nodes'[above].lowest = nodes[above].lowest
    BY DEF CallerMoved
  <2> QED
    BY <2>1, <2>2, <2>3, <2>4, <1>7, <1>8 DEF ParentMoves
<1>10. \A q \in live \ {here} : B[q] = nodes[q]
  BY DEF Based
<1>11. \A q \in live : lft(settled, q) # Nil <=> B[q].left # Nil
  BY <1>1 DEF Based, lft
<1>12. hi \in [NodeId \cup {Nil} -> Int] /\ e \in Int
  BY DEF Order, SharesOff, Severed
<1>ho. PICK ho : ho = [hi EXCEPT ![l] = e - 1]
  OBVIOUS
<1>13. /\ ho \in [NodeId \cup {Nil} -> Int] /\ ho[l] = e - 1
       /\ \A q \in (live \cup {Nil}) \ {l} : ho[q] = hi[q]
  BY <1>ho, <1>1, <1>3, <1>12
<1>14. Shares(B, tops, cuts, live, hi, settled', ho, above, i, l, r, e, u)
  <2>1. settled'[l] = nodes'[l] /\ settled'[r] = nodes'[r]
    BY <1>1, <1>3, <1>6
  <2>2. ParentMoves(nd(B, tops, cuts, above), nd(settled', tops, cuts, above), i, e)
    <3>1. nd(B, tops, cuts, above) = nodes[above] /\ nd(settled', tops, cuts, above) = m
      BY <1>1, <1>2, <1>6, <1>10 DEF nd
    <3> QED
      BY <3>1, <1>9
  <2>3. \A q \in live \ {l, r, above} : likened(settled'[q], B[q])
    BY <1>1, <1>6, <1>10 DEF SharesOff, likened, Kept
  <2>4. \A q \in live \ {l, r} : settled'[q].lowest = B[q].lowest
    <3> TAKE q \in live \ {l, r}
    <3>1. CASE q = above
      BY <3>1, <1>2, <1>6, <1>9, <1>10
    <3>2. CASE q # above
      BY <3>2, <1>1, <1>6, <1>10 DEF SharesOff, Kept
    <3> QED BY <3>1, <3>2
  <2>5. \A q \in live : settled'[q].left # Nil => B[q].left # Nil
    <3> TAKE q \in live
    <3>1. settled'[q].left = nodes[q].left
      <4>1. CASE q = above
        BY <4>1, <1>6, <1>9
      <4>2. CASE q # above
        BY <4>2, <1>1, <1>6 DEF SharesOff
      <4> QED BY <4>1, <4>2
    <3>2. lft(settled, q) = nodes[q].left
      BY <1>1 DEF lft
    <3> QED BY <3>1, <3>2, <1>11
  <2>6. /\ Fine(u, B, hi, hi[r])
        /\ \A z \in Int : z <= B[r].lowest /\ From(B[l], B, hi, z) => From(u, B, hi, z)
        /\ Severed(u, settled'[l], settled'[r], e, B, hi, hi[r])
        /\ From(settled'[r], B, hi, settled'[r].lowest) /\ e <= settled'[r].lowest /\ settled'[r].lowest <= hi[r]
        /\ settled'[l].lowest = B[l].lowest
        /\ stems(settled'[l], B, tops, {l, r}) /\ stems(settled'[r], B, tops, {l, r})
    BY <2>1 DEF SharesOff
  <2> QED
    BY ONLY <1>13, <2>2, <2>3, <2>4, <2>5, <2>6 DEF Shares
<1>15. Ordered(settled', tops', cuts', live', ho)
  <2>1. Tree(B, tops, live, h) /\ Ordered(B, tops, cuts, live, hi)
    BY DEF Based
  <2>2. Mates(B, tops, live, above, i, l, r)
    <3>1. kids(B, tops, above) = kids(settled, tops, above)
      BY <1>2 DEF Based
    <3> QED BY <3>1 DEF Mates, deg, kid
  <2>3. Ordered(settled', tops, cuts, live, ho)
    BY ONLY <1>1, <1>14, <2>1, <2>2, ShareOrder
  <2> QED
    BY <1>5, <1>6, <2>3
<1>16. \A q \in live : h[q] > h[here] => q # here /\ q # l /\ q # r
  BY <1>2, <1>3
<1>17. \A q \in live : h[q] > h[here] => settled'[q].lowest = settled[q].lowest /\ ho[q] = hi[q]
  <2> TAKE q \in live
  <2> HAVE h[q] > h[here]
  <2>1. q \in live \ {here, l, r} /\ q \in NodeId
    BY <1>1, <1>16
  <2>2. settled'[q].lowest = B[q].lowest
    BY <2>1, <1>14 DEF Shares
  <2> QED
    BY <1>1, <1>10, <1>13, <2>1, <2>2
<1>18. \A q \in live : h[q] > h[above] => nodes'[q].keys = nodes[q].keys /\ nodes'[q].buffer = nodes[q].buffer
  <2>1. \A q \in live : h[q] > h[above] => q \notin {l, r, above}
    BY <1>2, <1>3
  <2> QED
    BY <2>1 DEF SharesOff, Kept
<1>19. Last(outer).batch \subseteq messagesFor(nodes[above], Last(outer).idx)
  <2>1. Len(outer) \in 1 .. Len(stack) /\ outer[Len(outer)] = stack[Len(outer)] /\ Last(outer) = outer[Len(outer)]
    BY <1>0, OuterFacts
  <2>2. Last(outer).batch \subseteq messagesFor(nodes[Last(outer).node], Last(outer).idx)
    BY <2>1, <1>0 DEF Batches
  <2> QED
    BY <2>2 DEF above
<1>20. messagesFor(nodes[above], Last(outer).idx) \subseteq messagesFor(nodes'[above], Last(outer).idx)
  <2>0. nodes'[above].buffer = nodes[above].buffer
    BY DEF CallerMoved
  <2>1. CASE nodes'[above].keys = nodes[above].keys
    BY <2>0, <2>1 DEF messagesFor
  <2>2. CASE nodes'[above].keys[i] = e /\ (i + 1 = place => e <= nodes[above].keys[i]) /\ (i = place => nodes[above].keys[i] <= e)
    <3> DEFINE s == nodes[above].keys
               t == nodes'[above].keys
    <3>1. Len(t) = Len(s) /\ (\A k \in 1 .. Len(s) : k # i => t[k] = s[k]) /\ t[i] = e
      BY <2>2 DEF CallerMoved
    <3>2. /\ Sound(nd(settled', tops', cuts', above), settled', ho, above)
          /\ Sound(nd(settled, tops, cuts, above), settled, hi, above)
      <4>1. above \in live' \cup {Nil}
        BY <1>2, <1>5
      <4>2. Ordered(settled, tops, cuts, live, hi)
        BY DEF Order
      <4> QED
        BY <4>1, <4>2, <1>2, <1>15 DEF Ordered
    <3>3. nd(settled', tops', cuts', above) = m /\ nd(settled, tops, cuts, above) = nodes[above]
      BY <1>1, <1>2, <1>6 DEF nd
    <3>4. ascending(m.keys) /\ ascending(s) /\ numeric(nodes[above])
      BY <3>2, <3>3 DEF Sound, Fine
    <3>5. Len(m.keys) = Len(t) /\ \A k \in 1 .. Len(t) : m.keys[k] = t[k]
      BY <3>1, <1>8 DEF ParentMoves, Swaps
    <3>6. ascending(t)
      BY <3>4, <3>5 DEF ascending
    <3>7. DOMAIN nodes[above].buffer \subseteq Int /\ s[i] \in Int
      BY <3>4, <1>7 DEF numeric, integers
    <3>8. (i = Last(outer).idx /\ t[i] <= s[i]) \/ (i = Last(outer).idx + 1 /\ s[i] <= t[i])
      <4>1. Last(outer).idx = place - 1 /\ place \in Nat
        BY <1>2
      <4>2. i = place - 1 \/ i = place
        OBVIOUS
      <4>3. CASE i = place - 1
        <5>1. i + 1 = place /\ i = Last(outer).idx
          BY <4>1, <4>3
        <5> QED BY <5>1, <2>2, <3>1
      <4>4. CASE i = place
        <5>1. i = Last(outer).idx + 1
          BY <4>1, <4>4
        <5> QED BY <5>1, <4>4, <2>2, <3>1
      <4> QED BY <4>2, <4>3, <4>4
    <3>9. Last(outer).idx <= Len(s)
      BY <1>2, <1>7
    <3>10. t[i] \in Int /\ Last(outer).idx \in Nat
      BY <3>1, <1>2, <1>12
    <3> QED
      BY <2>0, <3>1, <3>4, <3>6, <3>7, <3>8, <3>9, <3>10, <1>7, RoutedStill
  <2> QED
    BY <2>1, <2>2 DEF CallerMoved
<1>21. outer # << >> => /\ nodes'[above].children = nodes[above].children /\ here \in allocated'
                        /\ Last(outer).batch \subseteq messagesFor(nodes'[above], Last(outer).idx)
  <2>1. here \in allocated'
    BY <1>1, <1>2
  <2>2. nodes'[above].children = nodes[above].children
    BY DEF CallerMoved
  <2> QED
    BY <1>19, <1>20, <2>1, <2>2
<1>22. Batches' /\ Order(ho)'
  BY ONLY <1>0, <1>13, <1>15, <1>17, <1>18, <1>21, ReturnOrder, running, Shape(h), Order(hi), pc' = "return", stack' = outer
<1> QED
  BY <1>22 DEF OrderInv

-----------------------------------------------------------------------------
(* Vectors of two neighbours, cut *)

\* Vector x has the first k entries of u, and y what comes after entry o.
Heads(x, u, k) == Len(x) = k /\ \A j \in 1 .. k : x[j] = u[j]
Tails(y, u, o) == Len(y) = Len(u) - o /\ \A j \in 1 .. (Len(u) - o) : y[j] = u[o + j]

\* take and drop do this.
LEMMA TakeHeads ==
  ASSUME NEW S, NEW s \in Seq(S), NEW i \in 0 .. Len(s)
  PROVE  Heads(take(s, i), s, i)
BY TakeItems DEF Heads

\* What drop leaves is a tail of the vector.
LEMMA DropTails ==
  ASSUME NEW S, NEW s \in Seq(S), NEW i \in 0 .. Len(s)
  PROVE  Tails(drop(s, i), s, i)
BY DropItems DEF Tails

\* Concatenating vectors.
LEMMA ConcatChained ==
  ASSUME NEW S, NEW s \in Seq(S), NEW t \in Seq(S)
  PROVE  Chained(s \o t, s, t)
BY ConcatProperties DEF Chained

\* Concatenating vectors with an entry between them.
LEMMA ConcatStrung ==
  ASSUME NEW S, NEW s \in Seq(S), NEW e \in S, NEW t \in Seq(S)
  PROVE  Strung(s \o <<e>> \o t, s, e, t)
<1> DEFINE v == s \o <<e>>
<1>1. v \in Seq(S) /\ Len(v) = Len(s) + 1 /\ (\A j \in 1 .. Len(s) : v[j] = s[j]) /\ v[Len(s) + 1] = e
  OBVIOUS
<1> HIDE DEF v
<1>2. Chained(v \o t, v, t)
  BY <1>1, ConcatChained
<1>3. \A j \in 1 .. Len(s) : j \in 1 .. Len(v)
  BY <1>1
<1>4. Len(s) + 1 \in 1 .. Len(v)
  BY <1>1
<1>5. Strung(v \o t, s, e, t)
  BY <1>1, <1>2, <1>3, <1>4 DEF Chained, Strung
<1> QED
  BY <1>5 DEF v

\* The head of the first vector is a head of both.
LEMMA ChainedHead ==
  ASSUME NEW u, NEW a, NEW b, NEW x, NEW k \in Nat, Len(a) \in Nat, k <= Len(a), Chained(u, a, b), Heads(x, a, k)
  PROVE  Heads(x, u, k)
BY DEF Chained, Heads

\* A head of the first vector is a head of it with an entry and a vector after it.
LEMMA StrungHead ==
  ASSUME NEW u, NEW a, NEW s, NEW b, NEW x, NEW k \in Nat, Len(a) \in Nat, k <= Len(a), Strung(u, a, s, b), Heads(x, a, k)
  PROVE  Heads(x, u, k)
BY DEF Strung, Heads

\* The tail of the first vector and the second vector are a tail of both.
LEMMA ChainedTail ==
  ASSUME NEW u, NEW a, NEW b, NEW y, NEW c, NEW k \in Nat, NEW la \in Nat, NEW lb \in Nat, Len(a) = la, Len(b) = lb,
         k <= la, Chained(u, a, b), Chained(y, c, b), Tails(c, a, k)
  PROVE  Tails(y, u, k)
<1>1. Len(c) = la - k /\ \A j \in 1 .. (la - k) : c[j] = a[k + j]
  BY DEF Tails
<1>2. Len(u) = la + lb /\ (\A j \in 1 .. la : u[j] = a[j]) /\ \A j \in 1 .. lb : u[la + j] = b[j]
  BY DEF Chained
<1>3. Len(y) = la - k + lb /\ (\A j \in 1 .. (la - k) : y[j] = c[j]) /\ \A j \in 1 .. lb : y[la - k + j] = b[j]
  BY <1>1 DEF Chained
<1>4. Len(y) = Len(u) - k /\ Len(u) - k = la - k + lb /\ la - k \in Nat
  BY <1>2, <1>3
<1>5. ASSUME NEW j \in 1 .. (la - k + lb) PROVE y[j] = u[k + j]
  <2>1. \/ j \in 1 .. (la - k)
        \/ j - (la - k) \in 1 .. lb /\ (la - k) + (j - (la - k)) = j
    BY <1>4, ChainedPlace
  <2>2. CASE j \in 1 .. (la - k)
    <3>1. k + j \in 1 .. la
      BY <2>2, <1>4
    <3> QED BY <3>1, <2>2, <1>1, <1>2, <1>3
  <2>3. CASE j - (la - k) \in 1 .. lb /\ (la - k) + (j - (la - k)) = j
    <3> DEFINE i == j - (la - k)
    <3>1. i \in 1 .. lb /\ k + j = la + i /\ la - k + i = j
      BY <2>3, <1>4
    <3> HIDE DEF i
    <3> QED BY <3>1, <1>2, <1>3
  <2> QED BY <2>1, <2>2, <2>3
<1> QED
  BY <1>4, <1>5 DEF Tails

\* The tail of the first vector, with the entry and the second vector after it, is a tail of all.
LEMMA StrungTail ==
  ASSUME NEW u, NEW a, NEW s, NEW b, NEW y, NEW c, NEW k \in Nat, NEW la \in Nat, NEW lb \in Nat, Len(a) = la, Len(b) = lb,
         k <= la, Strung(u, a, s, b), Strung(y, c, s, b), Tails(c, a, k)
  PROVE  Tails(y, u, k)
<1>1. Len(c) = la - k /\ \A j \in 1 .. (la - k) : c[j] = a[k + j]
  BY DEF Tails
<1>2. Len(u) = la + 1 + lb /\ (\A j \in 1 .. la : u[j] = a[j]) /\ u[la + 1] = s /\ \A j \in 1 .. lb : u[la + 1 + j] = b[j]
  BY DEF Strung
<1>3. Len(y) = la - k + 1 + lb /\ (\A j \in 1 .. (la - k) : y[j] = c[j]) /\ y[la - k + 1] = s /\ \A j \in 1 .. lb : y[la - k + 1 + j] = b[j]
  BY <1>1 DEF Strung
<1>4. Len(y) = Len(u) - k /\ Len(u) - k = la - k + 1 + lb /\ la - k \in Nat
  BY <1>2, <1>3
<1>5. ASSUME NEW j \in 1 .. (la - k + 1 + lb) PROVE y[j] = u[k + j]
  <2>1. \/ j \in 1 .. (la - k)
        \/ j = la - k + 1
        \/ j - (la - k + 1) \in 1 .. lb
    BY <1>4, StrungPlace
  <2>2. CASE j \in 1 .. (la - k)
    <3>1. k + j \in 1 .. la
      BY <2>2, <1>4
    <3> QED BY <3>1, <2>2, <1>1, <1>2, <1>3
  <2>3. CASE j - (la - k + 1) \in 1 .. lb
    <3> DEFINE i == j - (la - k + 1)
    <3>1. i \in 1 .. lb /\ k + j = la + 1 + i /\ la - k + 1 + i = j
      BY <2>3, <1>4
    <3> HIDE DEF i
    <3> QED BY <3>1, <1>2, <1>3
  <2>4. CASE j = la - k + 1
    <3>1. k + j = la + 1
      BY <2>4, <1>4
    <3> QED BY <3>1, <2>4, <1>2, <1>3
  <2> QED BY <2>1, <2>2, <2>3, <2>4
<1> QED
  BY <1>4, <1>5 DEF Tails

\* The first vector and a head of the second are a head of both.
LEMMA ChainedMore ==
  ASSUME NEW u, NEW a, NEW b, NEW x, NEW c, NEW d \in Nat, NEW la \in Nat, NEW lb \in Nat, Len(a) = la, Len(b) = lb,
         d <= lb, Chained(u, a, b), Chained(x, a, c), Heads(c, b, d)
  PROVE  Heads(x, u, la + d)
<1>1. Len(c) = d /\ \A j \in 1 .. d : c[j] = b[j]
  BY DEF Heads
<1>2. (\A j \in 1 .. la : u[j] = a[j]) /\ \A j \in 1 .. lb : u[la + j] = b[j]
  BY DEF Chained
<1>3. Len(x) = la + d /\ (\A j \in 1 .. la : x[j] = a[j]) /\ \A j \in 1 .. d : x[la + j] = c[j]
  BY <1>1 DEF Chained
<1>5. ASSUME NEW j \in 1 .. (la + d) PROVE x[j] = u[j]
  <2>1. \/ j \in 1 .. la
        \/ j - la \in 1 .. d /\ la + (j - la) = j
    BY ChainedPlace
  <2>2. CASE j - la \in 1 .. d /\ la + (j - la) = j
    <3> DEFINE i == j - la
    <3>1. i \in 1 .. d /\ i \in 1 .. lb /\ la + i = j
      BY <2>2
    <3> HIDE DEF i
    <3> QED BY <3>1, <1>1, <1>2, <1>3
  <2> QED BY <2>1, <2>2, <1>2, <1>3
<1> QED
  BY <1>3, <1>5 DEF Heads

\* The first vector, the entry and a head of the second vector are a head of all.
LEMMA StrungMore ==
  ASSUME NEW u, NEW a, NEW s, NEW b, NEW x, NEW c, NEW d \in Nat, NEW la \in Nat, NEW lb \in Nat, Len(a) = la, Len(b) = lb,
         d <= lb, Strung(u, a, s, b), Strung(x, a, s, c), Heads(c, b, d)
  PROVE  Heads(x, u, la + 1 + d)
<1>1. Len(c) = d /\ \A j \in 1 .. d : c[j] = b[j]
  BY DEF Heads
<1>2. (\A j \in 1 .. la : u[j] = a[j]) /\ u[la + 1] = s /\ \A j \in 1 .. lb : u[la + 1 + j] = b[j]
  BY DEF Strung
<1>3. Len(x) = la + 1 + d /\ (\A j \in 1 .. la : x[j] = a[j]) /\ x[la + 1] = s /\ \A j \in 1 .. d : x[la + 1 + j] = c[j]
  BY <1>1 DEF Strung
<1>5. ASSUME NEW j \in 1 .. (la + 1 + d) PROVE x[j] = u[j]
  <2>1. \/ j \in 1 .. la
        \/ j = la + 1
        \/ j - (la + 1) \in 1 .. d /\ la + 1 + (j - (la + 1)) = j
    BY StrungPlace
  <2>2. CASE j - (la + 1) \in 1 .. d /\ la + 1 + (j - (la + 1)) = j
    <3> DEFINE i == j - (la + 1)
    <3>1. i \in 1 .. d /\ i \in 1 .. lb /\ la + 1 + i = j
      BY <2>2
    <3> HIDE DEF i
    <3> QED BY <3>1, <1>1, <1>2, <1>3
  <2> QED BY <2>1, <2>2, <1>2, <1>3
<1> QED
  BY <1>3, <1>5 DEF Heads

\* A tail of the second vector is a tail of both.
LEMMA ChainedLast ==
  ASSUME NEW u, NEW a, NEW b, NEW y, NEW d \in Nat, NEW la \in Nat, NEW lb \in Nat, Len(a) = la, Len(b) = lb,
         d <= lb, Chained(u, a, b), Tails(y, b, d)
  PROVE  Tails(y, u, la + d)
<1>1. Len(y) = lb - d /\ \A j \in 1 .. (lb - d) : y[j] = b[d + j]
  BY DEF Tails
<1>2. Len(u) = la + lb /\ \A j \in 1 .. lb : u[la + j] = b[j]
  BY DEF Chained
<1>3. Len(u) - (la + d) = lb - d
  BY <1>2
<1>4. ASSUME NEW j \in 1 .. (lb - d) PROVE y[j] = u[la + d + j]
  <2>1. d + j \in 1 .. lb /\ la + (d + j) = la + d + j
    OBVIOUS
  <2> QED BY <2>1, <1>1, <1>2
<1> QED
  BY <1>1, <1>3, <1>4 DEF Tails

\* A tail of the second vector is a tail of all.
LEMMA StrungLast ==
  ASSUME NEW u, NEW a, NEW s, NEW b, NEW y, NEW d \in Nat, NEW la \in Nat, NEW lb \in Nat, Len(a) = la, Len(b) = lb,
         d <= lb, Strung(u, a, s, b), Tails(y, b, d)
  PROVE  Tails(y, u, la + 1 + d)
<1>1. Len(y) = lb - d /\ \A j \in 1 .. (lb - d) : y[j] = b[d + j]
  BY DEF Tails
<1>2. Len(u) = la + 1 + lb /\ \A j \in 1 .. lb : u[la + 1 + j] = b[j]
  BY DEF Strung
<1>3. Len(u) - (la + 1 + d) = lb - d
  BY <1>2
<1>4. ASSUME NEW j \in 1 .. (lb - d) PROVE y[j] = u[la + 1 + d + j]
  <2>1. d + j \in 1 .. lb /\ la + 1 + (d + j) = la + 1 + d + j
    OBVIOUS
  <2> QED BY <2>1, <1>1, <1>2
<1> QED
  BY <1>1, <1>3, <1>4 DEF Tails

-----------------------------------------------------------------------------
(* Internal nodes that share what they have anew *)

\* Brothers of the tree are so in the table that a restructuring starts from.
LEMMA MatesBrothers ==
  ASSUME TypeInv, Flow, running, NEW h, Shape(h), NEW hi, Order(hi), NEW B, Based(B, h, hi),
         NEW i, NEW l, NEW r, Mates(settled, tops, live, above, i, l, r), above \in live
  PROVE  Brothers(B, tops, cuts, live, hi, above, i, l, r) /\ l # Nil /\ r # Nil
<1>1. Nil \notin live
  BY LiveIds
<1>2. Tree(B, tops, live, h) /\ Ordered(B, tops, cuts, live, hi) /\ Tree(settled, tops, live, h)
  BY DEF Based, Shape
<1>3. Mates(B, tops, live, above, i, l, r)
  <2>1. kids(B, tops, above) = kids(settled, tops, above)
    BY DEF Based
  <2> QED BY <2>1 DEF Mates, deg, kid
<1>4. Brothers(B, tops, cuts, live, hi, above, i, l, r)
  BY <1>1, <1>2, <1>3, BrotherOrder
<1>5. l \in live /\ r \in live
  BY <1>1, <1>2, MateFacts
<1> QED
  BY <1>1, <1>4, <1>5

\* A child of the first but the first one has a lowest key below what the second has.
LEMMA SeamLeft ==
  ASSUME NEW N, NEW T, NEW V, NEW L, NEW hi, NEW p, NEW i, NEW l, NEW r, Brothers(N, T, V, L, hi, p, i, l, r),
         NEW k \in Nat, 1 <= k, k + 1 \in 1 .. Len(N[l].children), NEW e, e = N[N[l].children[k + 1]].lowest
  PROVE  e \in Int /\ \A j \in DOMAIN N[r].buffer : e <= j
<1>1. /\ Fine(N[l], N, hi, hi[l]) /\ From(N[r], N, hi, N[r].lowest) /\ numeric(N[r])
      /\ hi[l] \in Int /\ N[r].lowest \in Int /\ hi[l] < N[r].lowest
  <2>1. /\ Fine(N[l], N, hi, hi[l]) /\ From(N[r], N, hi, N[r].lowest) /\ Fine(N[r], N, hi, hi[r])
        /\ hi[l] \in Int /\ N[r].lowest \in Int
    BY DEF Brothers
  <2>2. hi[l] < N[r].lowest
    <3> DEFINE s == nd(N, T, V, p).keys[i]
    <3>1. s \in Int /\ hi[l] < s /\ s <= N[r].lowest /\ hi[l] \in Int /\ N[r].lowest \in Int
      BY DEF Brothers
    <3> HIDE DEF s
    <3> QED BY <3>1
  <2> QED
    BY <2>1, <2>2 DEF Fine
<1>2. fits(N[l], N, hi, hi[l], k + 1)
  BY <1>1 DEF Fine
<1>3. e \in Int /\ hi[N[l].children[k + 1]] \in Int /\ e <= hi[N[l].children[k + 1]] /\ hi[N[l].children[k + 1]] <= hi[l]
  <2>1. k + 1 > 1
    OBVIOUS
  <2> QED
    BY <1>2, <2>1 DEF fits
<1>4. ASSUME NEW j \in DOMAIN N[r].buffer PROVE e <= j
  <2>1. j \in own(N[r]) /\ j \in Int
    BY <1>1 DEF own, numeric
  <2>2. N[r].lowest <= j
    BY <1>1, <2>1 DEF From
  <2> QED
    BY <1>1, <1>3, <2>1, <2>2
<1> QED
  BY <1>3, <1>4

\* A child of the second but the first one has a lowest key above what the first has.
LEMMA SeamRight ==
  ASSUME NEW N, NEW T, NEW V, NEW L, NEW hi, NEW p, NEW i, NEW l, NEW r, Brothers(N, T, V, L, hi, p, i, l, r),
         NEW k, k \in 1 .. Len(N[r].keys), Len(N[r].children) > 0, NEW e, e = N[N[r].children[k + 1]].lowest
  PROVE  e \in Int /\ \A j \in DOMAIN N[l].buffer : j < e
<1>1. /\ Fine(N[l], N, hi, hi[l]) /\ From(N[r], N, hi, N[r].lowest) /\ Fine(N[r], N, hi, hi[r]) /\ numeric(N[l])
      /\ hi[l] \in Int /\ N[r].lowest \in Int /\ hi[l] < N[r].lowest /\ hi[r] \in Int
  <2>1. /\ Fine(N[l], N, hi, hi[l]) /\ From(N[r], N, hi, N[r].lowest) /\ Fine(N[r], N, hi, hi[r])
        /\ hi[l] \in Int /\ N[r].lowest \in Int /\ hi[r] \in Int
    BY DEF Brothers
  <2>2. hi[l] < N[r].lowest
    <3> DEFINE s == nd(N, T, V, p).keys[i]
    <3>1. s \in Int /\ hi[l] < s /\ s <= N[r].lowest /\ hi[l] \in Int /\ N[r].lowest \in Int
      BY DEF Brothers
    <3> HIDE DEF s
    <3> QED BY <3>1
  <2> QED
    BY <2>1, <2>2 DEF Fine
<1>2. e \in Int /\ N[r].keys[k] \in Int /\ N[r].keys[k] <= e
  BY <1>1, PivotBetween
<1>3. N[r].keys[k] \in own(N[r])
  BY DEF own
<1>4. N[r].lowest <= N[r].keys[k]
  BY <1>1, <1>3 DEF From
<1>5. ASSUME NEW j \in DOMAIN N[l].buffer PROVE j < e
  <2>1. j \in own(N[l]) /\ j \in Int
    BY <1>1 DEF own, numeric
  <2>2. j <= hi[l]
    BY <1>1, <2>1 DEF Fine
  <2> QED
    BY <1>1, <1>2, <1>4, <2>1, <2>2
<1> QED
  BY <1>2, <1>5

\* Brothers, as one node.
LEMMA JoinedBrothers ==
  ASSUME NEW N, NEW T, NEW V, NEW L, NEW hi, NEW p, NEW i, NEW l, NEW r, Brothers(N, T, V, L, hi, p, i, l, r),
         NEW u, NEW s \in Int, JoinedInternal(u, N[l], s, N[r]), hi[l] < s, s <= N[r].lowest
  PROVE  /\ Fine(u, N, hi, hi[r])
         /\ \A z \in Int : From(N[l], N, hi, z) => From(u, N, hi, z)
<1>1. /\ Fine(N[l], N, hi, hi[l]) /\ From(N[r], N, hi, N[r].lowest) /\ Fine(N[r], N, hi, hi[r])
      /\ hi[l] \in Int /\ N[r].lowest \in Int /\ hi[r] \in Int /\ N[r].lowest <= hi[r]
  BY DEF Brothers
<1>2. hi[l] <= hi[r]
  BY <1>1
<1> QED
  BY <1>1, <1>2, JoinInternals

\* The seam that the code takes lies between the brothers, as their pivot does.
LEMMA SeamBetween ==
  ASSUME NEW N, NEW T, NEW V, NEW L, NEW hi, NEW p, NEW i, NEW l, NEW r, Brothers(N, T, V, L, hi, p, i, l, r)
  PROVE  LET s == nd(N, T, V, p).keys[i] IN
         /\ N[r].lowest \in Int /\ hi[l] \in Int /\ s \in Int
         /\ hi[l] < N[r].lowest /\ hi[l] < s /\ s <= N[r].lowest
<1> DEFINE s == nd(N, T, V, p).keys[i]
<1>1. s \in Int /\ hi[l] < s /\ s <= N[r].lowest /\ hi[l] \in Int /\ N[r].lowest \in Int
  BY DEF Brothers
<1> HIDE DEF s
<1>2. hi[l] < N[r].lowest
  BY <1>1
<1> QED
  BY <1>1, <1>2 DEF s

\* Children of the two nodes as one are children of one of them.
LEMMA JoinedStems ==
  ASSUME NEW N, NEW T, NEW l, NEW r, l # Nil, r # Nil, NEW u, Len(N[l].children) \in Nat, Len(N[r].children) \in Nat,
         Chained(u.children, N[l].children, N[r].children), NEW x, partOf(x.children, u.children)
  PROVE  stems(x, N, T, {l, r})
<1> SUFFICES ASSUME NEW j \in 1 .. Len(x.children)
             PROVE  \E q \in {l, r} : \E k \in 1 .. deg(N, T, q) : x.children[j] = kid(N, T, q, k)
  BY DEF stems
<1>1. PICK k \in 1 .. Len(u.children) : x.children[j] = u.children[k]
  BY DEF partOf
<1>2. chainedAt(u.children, N[l].children, N[r].children, k)
  BY ChainedItem
<1>3. kids(N, T, l) = N[l].children /\ kids(N, T, r) = N[r].children
  BY DEF kids
<1>4. CASE k \in 1 .. Len(N[l].children) /\ u.children[k] = N[l].children[k]
  BY <1>1, <1>3, <1>4 DEF deg, kid
<1>5. CASE k - Len(N[l].children) \in 1 .. Len(N[r].children) /\ u.children[k] = N[r].children[k - Len(N[l].children)]
  BY <1>1, <1>3, <1>5 DEF deg, kid
<1> QED
  BY <1>2, <1>4, <1>5 DEF chainedAt

\* Heads and tails have entries of the whole only.
LEMMA HeadPart ==
  ASSUME NEW x, NEW u, NEW k \in Nat, Len(u) \in Nat, k <= Len(u), Heads(x, u, k)
  PROVE  partOf(x, u)
<1>1. \A j \in 1 .. k : j \in 1 .. Len(u)
  OBVIOUS
<1> QED
  BY <1>1 DEF Heads, partOf

\* What is in a tail of a vector is in the vector.
LEMMA TailPart ==
  ASSUME NEW x, NEW u, NEW k \in Nat, Len(u) \in Nat, Tails(x, u, k)
  PROVE  partOf(x, u)
<1>1. \A j \in 1 .. (Len(u) - k) : k + j \in 1 .. Len(u)
  OBVIOUS
<1> QED
  BY <1>1 DEF Tails, partOf

\* What two internal nodes have, cut anew before a child of theirs.
LEMMA SharedInternal ==
  ASSUME NEW N, NEW T, NEW V, NEW L, NEW hi, NEW p, NEW i, NEW l, NEW r, Brothers(N, T, V, L, hi, p, i, l, r),
         l # Nil, r # Nil,
         NEW u, JoinedInternal(u, N[l], N[r].lowest, N[r]), NEW x, NEW y, NEW k, NEW e \in Int, CutInternal(u, x, y, k, e),
         e = N[u.children[k + 1]].lowest
  PROVE  /\ Fine(u, N, hi, hi[r])
         /\ \A z \in Int : z <= N[r].lowest /\ From(N[l], N, hi, z) => From(u, N, hi, z)
         /\ Severed(u, x, y, e, N, hi, hi[r])
         /\ From(y, N, hi, e) /\ e <= hi[r]
         /\ stems(x, N, T, {l, r}) /\ stems(y, N, T, {l, r})
<1>1. Fine(u, N, hi, hi[r]) /\ \A z \in Int : From(N[l], N, hi, z) => From(u, N, hi, z)
  BY SeamBetween, JoinedBrothers
<1>2. hi[r] \in Int /\ Len(N[l].children) \in Nat /\ Len(N[r].children) \in Nat /\ hi[r] \in Int
  <2>1. hi[r] \in Int /\ numeric(N[l]) /\ numeric(N[r])
    BY DEF Brothers, Fine
  <2> QED
    BY <2>1 DEF numeric
<1>3. ~u.leaf /\ numeric(u) /\ Chained(u.children, N[l].children, N[r].children)
  BY <1>1 DEF JoinedInternal, Fine
<1> DEFINE a == Len(u.keys)
           b == Len(u.children)
<1>4. a \in Nat /\ b \in Nat /\ b = a + 1
  BY <1>3 DEF numeric, integers
<1>5. k \in Nat /\ 1 <= k /\ k < b
  BY DEF CutInternal
<1> HIDE DEF a, b
<1>6. k \in 1 .. a /\ b > 0 /\ k <= b
  BY ONLY <1>4, <1>5
<1>7. u.keys[k] <= e
  BY <1>1, <1>2, <1>6, PivotBetween DEF a, b
<1>8. e <= N[u.children[k + 1]].lowest
  OBVIOUS
<1>9. /\ Severed(u, x, y, e, N, hi, hi[r])
      /\ \A z \in Int : z <= N[u.children[k + 1]].lowest /\ (\A j \in DOMAIN y.buffer : z <= j)
                             => From(y, N, hi, z) /\ z <= hi[r]
  BY <1>1, <1>2, <1>7, <1>8, CutInternalOrder
<1>10. From(y, N, hi, e) /\ e <= hi[r]
  <2>1. \A j \in DOMAIN y.buffer : e <= j
    BY DEF CutInternal
  <2> QED
    BY <1>8, <1>9, <2>1
<1>11. stems(x, N, T, {l, r}) /\ stems(y, N, T, {l, r})
  <2>1. Heads(x.children, u.children, k) /\ Tails(y.children, u.children, k)
    BY DEF CutInternal, Heads, Tails
  <2>2. partOf(x.children, u.children) /\ partOf(y.children, u.children)
    BY <2>1, <1>4, <1>5, <1>6, HeadPart, TailPart DEF b
  <2> QED
    BY <2>2, <1>2, <1>3, JoinedStems
<1> QED
  BY <1>1, <1>9, <1>10, <1>11

\* The keys and children of two internal nodes, with s between the keys, cut after k children: what is left
\* of the cut and what is right of it.
Divided(uk, uc, k, xk, xc, yk, yc) ==
  /\ k \in Nat /\ 1 <= k /\ k < Len(uc)
  /\ Heads(xk, uk, k - 1) /\ Heads(xc, uc, k)
  /\ Tails(yk, uk, k) /\ Tails(yc, uc, k)

\* The last d children go over to the second node.
LastMoved(a, b, c, f, s, d, k, uk, uc) ==
  /\ Strung(uk, a, s, b) /\ Chained(uc, c, f)
  /\ Divided(uk, uc, k, take(a, Len(a) - d), take(c, k), drop(a, Len(a) - d + 1) \o <<s>> \o b, drop(c, k) \o f)
  /\ k \in Nat /\ 1 <= k /\ k + 1 \in 1 .. Len(c) /\ uc[k + 1] = c[k + 1] /\ drop(c, k)[1] = c[k + 1]

\* What redistribute leaves of two internal nodes when the last d children of the left one move.
LEMMA LastMoves ==
  ASSUME NEW a \in Seq(KeyType), NEW b \in Seq(KeyType), NEW c \in Seq(NodeId), NEW f \in Seq(NodeId),
         Len(c) = Len(a) + 1, Len(f) = Len(b) + 1, NEW s \in KeyType,
         NEW d \in Nat, d >= 1, d < Len(a), NEW k, k = Len(c) - d,
         NEW uk, uk = a \o <<s>> \o b, NEW uc, uc = c \o f
  PROVE  LastMoved(a, b, c, f, s, d, k, uk, uc)
<1>1. Strung(uk, a, s, b) /\ Chained(uc, c, f)
  BY ConcatStrung, ConcatChained
<1> DEFINE la == Len(a)
           lb == Len(b)
           lc == Len(c)
           lf == Len(f)
<1>2. la \in Nat /\ lb \in Nat /\ lc \in Nat /\ lf \in Nat /\ lc = la + 1 /\ lf = lb + 1
  OBVIOUS
<1>3. k = lc - d /\ d < la
  OBVIOUS
<1> HIDE DEF la, lb, lc, lf
<1>4. /\ k \in Nat /\ 1 <= k /\ k <= lc /\ k + 1 \in 1 .. lc /\ k < lc + lf /\ k <= la /\ k - 1 \in Nat
      /\ la - d = k - 1 /\ la - d + 1 = k /\ k \in 0 .. la /\ k - 1 \in 0 .. la /\ k \in 0 .. lc /\ k - 1 <= la
      /\ 1 \in 1 .. (lc - k)
  BY ONLY <1>2, <1>3, d \in Nat, d >= 1
<1>5. Heads(take(a, k - 1), a, k - 1) /\ Tails(drop(a, k), a, k)
  BY <1>4, TakeHeads, DropTails DEF la
<1>6. Heads(take(c, k), c, k) /\ Tails(drop(c, k), c, k)
  BY <1>4, TakeHeads, DropTails DEF lc
<1>7. drop(a, k) \in Seq(KeyType) /\ drop(c, k) \in Seq(NodeId)
  BY <1>4, DropType DEF la, lc
<1> DEFINE yk == drop(a, k) \o <<s>> \o b
           yc == drop(c, k) \o f
<1>8. Strung(yk, drop(a, k), s, b) /\ Chained(yc, drop(c, k), f)
  BY <1>7, ConcatStrung, ConcatChained
<1> HIDE DEF yk, yc
<1>9. Heads(take(a, k - 1), uk, k - 1)
  BY <1>1, <1>2, <1>4, <1>5, StrungHead DEF la
<1>10. Heads(take(c, k), uc, k)
  BY <1>1, <1>2, <1>4, <1>6, ChainedHead DEF lc
<1>11. Tails(yk, uk, k)
  BY <1>1, <1>2, <1>4, <1>5, <1>8, StrungTail DEF la, lb
<1>12. Tails(yc, uc, k)
  BY <1>1, <1>2, <1>4, <1>6, <1>8, ChainedTail DEF lc, lf
<1>13. Len(uc) = lc + lf /\ \A j \in 1 .. lc : uc[j] = c[j]
  BY <1>1 DEF Chained, lc, lf
<1>14. drop(c, k)[1] = c[k + 1]
  <2>1. \A j \in 1 .. (lc - k) : drop(c, k)[j] = c[k + j]
    BY <1>6 DEF Tails, lc
  <2> QED BY <2>1, <1>4
<1>15. Divided(uk, uc, k, take(a, k - 1), take(c, k), yk, yc)
  BY <1>4, <1>9, <1>10, <1>11, <1>12, <1>13 DEF Divided
<1>16. take(a, Len(a) - d) = take(a, k - 1) /\ drop(a, Len(a) - d + 1) = drop(a, k)
  BY <1>4 DEF la
<1> QED
  BY <1>1, <1>4, <1>13, <1>14, <1>15, <1>16 DEF yk, yc, lc, LastMoved

\* The first d children go over to the first node.
FirstMoved(a, b, c, f, s, d, k, uk, uc) ==
  /\ Strung(uk, a, s, b) /\ Chained(uc, c, f)
  /\ Divided(uk, uc, k, a \o <<s>> \o take(b, d - 1), c \o take(f, d), drop(b, d), drop(f, d))
  /\ d \in 1 .. Len(b) /\ Len(f) > 0 /\ uc[k + 1] = f[d + 1]

\* What redistribute leaves of two internal nodes when the first d children of the right one move.
LEMMA FirstMoves ==
  ASSUME NEW a \in Seq(KeyType), NEW b \in Seq(KeyType), NEW c \in Seq(NodeId), NEW f \in Seq(NodeId),
         Len(c) = Len(a) + 1, Len(f) = Len(b) + 1, NEW s \in KeyType,
         NEW d \in Nat, d >= 1, d < Len(b), NEW k, k = Len(c) + d,
         NEW uk, uk = a \o <<s>> \o b, NEW uc, uc = c \o f
  PROVE  FirstMoved(a, b, c, f, s, d, k, uk, uc)
<1>1. Strung(uk, a, s, b) /\ Chained(uc, c, f)
  BY ConcatStrung, ConcatChained
<1> DEFINE la == Len(a)
           lb == Len(b)
           lc == Len(c)
           lf == Len(f)
<1>2. la \in Nat /\ lb \in Nat /\ lc \in Nat /\ lf \in Nat /\ lc = la + 1 /\ lf = lb + 1
  OBVIOUS
<1>3. k = lc + d /\ d < lb
  OBVIOUS
<1> HIDE DEF la, lb, lc, lf
<1>4. /\ k \in Nat /\ 1 <= k /\ k < lc + lf /\ la + 1 + (d - 1) = k - 1 /\ la + 1 + d = k /\ d - 1 \in Nat
      /\ d \in 0 .. lb /\ d - 1 \in 0 .. lb /\ d \in 0 .. lf /\ d <= lb /\ d - 1 <= lb /\ d <= lf /\ d \in 1 .. lb /\ lf > 0
      /\ d + 1 \in 1 .. lf /\ lc + (d + 1) = k + 1
  BY ONLY <1>2, <1>3, d \in Nat, d >= 1
<1>5. Heads(take(b, d - 1), b, d - 1) /\ Tails(drop(b, d), b, d)
  BY <1>4, TakeHeads, DropTails DEF lb
<1>6. Heads(take(f, d), f, d) /\ Tails(drop(f, d), f, d)
  BY <1>4, TakeHeads, DropTails DEF lf
<1>7. take(b, d - 1) \in Seq(KeyType) /\ take(f, d) \in Seq(NodeId)
  BY <1>4, TakeType DEF lb, lf
<1> DEFINE xk == a \o <<s>> \o take(b, d - 1)
           xc == c \o take(f, d)
<1>8. Strung(xk, a, s, take(b, d - 1)) /\ Chained(xc, c, take(f, d))
  BY <1>7, ConcatStrung, ConcatChained
<1> HIDE DEF xk, xc
<1>9. Heads(xk, uk, la + 1 + (d - 1))
  BY <1>1, <1>2, <1>4, <1>5, <1>8, StrungMore DEF la, lb
<1>10. Heads(xc, uc, lc + d)
  BY <1>1, <1>2, <1>4, <1>6, <1>8, ChainedMore DEF lc, lf
<1>11. Tails(drop(b, d), uk, la + 1 + d)
  BY <1>1, <1>2, <1>4, <1>5, StrungLast DEF la, lb
<1>12. Tails(drop(f, d), uc, lc + d)
  BY <1>1, <1>2, <1>4, <1>6, ChainedLast DEF lc, lf
<1>13. Len(uc) = lc + lf /\ \A j \in 1 .. lf : uc[lc + j] = f[j]
  BY <1>1 DEF Chained, lc, lf
<1>14. uc[k + 1] = f[d + 1]
  BY <1>4, <1>13
<1>15. Divided(uk, uc, k, xk, xc, drop(b, d), drop(f, d))
  BY <1>3, <1>4, <1>9, <1>10, <1>11, <1>12, <1>13 DEF Divided
<1> QED
  BY <1>1, <1>4, <1>14, <1>15 DEF xk, xc, lb, lf, FirstMoved

\* Two such nodes as one.
union(l, s, r) ==
  [leaf |-> FALSE, keys |-> l.keys \o <<s>> \o r.keys, children |-> l.children \o r.children,
   buffer |-> overlay(r.buffer, l.buffer)]

\* The union of two internal nodes has what both have.
LEMMA UnionJoined ==
  ASSUME NEW l, NEW r, NEW s, ~l.leaf, ~r.leaf, Strung(union(l, s, r).keys, l.keys, s, r.keys),
         Chained(union(l, s, r).children, l.children, r.children)
  PROVE  JoinedInternal(union(l, s, r), l, s, r)
<1> DEFINE u == union(l, s, r)
<1>1. u.leaf = FALSE /\ u.buffer = overlay(r.buffer, l.buffer)
  BY DEF union
<1>2. DOMAIN overlay(r.buffer, l.buffer) = DOMAIN l.buffer \cup DOMAIN r.buffer
  BY DEF overlay
<1> HIDE DEF u
<1>3. u.leaf \in BOOLEAN /\ ~u.leaf
  BY <1>1
<1>4. DOMAIN u.buffer = DOMAIN l.buffer \cup DOMAIN r.buffer
  BY <1>1, <1>2
<1> QED
  BY <1>3, <1>4 DEF u, JoinedInternal

\* A joined node cut at e, its messages too.
LEMMA DividedCut ==
  ASSUME NEW u, NEW l, NEW r, NEW s, JoinedInternal(u, l, s, r), NEW x, NEW y, NEW k, NEW e,
         x.leaf \in BOOLEAN, y.leaf \in BOOLEAN, ~x.leaf, ~y.leaf,
         Divided(u.keys, u.children, k, x.keys, x.children, y.keys, y.children),
         \A j \in DOMAIN x.buffer : j \in DOMAIN l.buffer \cup DOMAIN r.buffer /\ j < e,
         \A j \in DOMAIN y.buffer : j \in DOMAIN l.buffer \cup DOMAIN r.buffer /\ e <= j
  PROVE  CutInternal(u, x, y, k, e)
<1>1. DOMAIN x.buffer \subseteq DOMAIN u.buffer /\ DOMAIN y.buffer \subseteq DOMAIN u.buffer
  BY DEF JoinedInternal
<1>2. ~u.leaf
  BY DEF JoinedInternal
<1> QED
  BY <1>1, <1>2 DEF CutInternal, Divided, Heads, Tails

\* Two nodes of the tree have been overwritten, and a borrow's result is on its way.
Overwrites(base, l, x, r, y) ==
  /\ isTable(base)
  /\ \A q \in NodeId : base[q] = IF q = l THEN x ELSE IF q = r THEN y ELSE nodes[q]

\* Report c names e as the new pivot between l and r, to the caller of the one of them that runs.
Reaches(c, e, l, r, i) ==
  /\ c.key = e
  /\ \/ c.type = "RedistributeLeft" /\ here = r /\ i = place - 1
     \/ c.type = "RedistributeRight" /\ here = l /\ i = place

\* x and y share what the internal nodes l and r had, from e on in y.
Recut(l, r, u, k, x, y, e) ==
  /\ JoinedInternal(u, nodes[l], nodes[r].lowest, nodes[r]) /\ CutInternal(u, x, y, k, e)
  /\ e \in Int /\ e = nodes[u.children[k + 1]].lowest
  /\ y.lowest = e /\ x.lowest = nodes[l].lowest /\ x.left = nodes[l].left /\ y.left = nodes[r].left

\* An internal node and a neighbour share what they have anew.
LEMMA InternalShareOrder ==
  ASSUME OrderInv, ShapeInv', Underflowed, NEW h, Shape(h), NEW hi, Order(hi), matched(frame.node),
         NEW i, NEW l, NEW r, Mates(settled, tops, live, above, i, l, r), here \in {l, r}, mate(here) \in {l, r},
         NEW c, NEW e, Reaches(c, e, l, r, i), NEW x, NEW y, NEW S, NEW base, Overwrites(base, l, x, r, y),
         nodes' = reparent(base, S, here), stack' = Front(stack), allocated' = allocated, Give(err, c),
         NEW u, NEW k, Recut(l, r, u, k, x, y, e)
  PROVE  OrderInv'
<1>0. ShapeInv
  BY DEF OrderInv
<1>1. /\ TypeInv /\ Flow /\ running /\ here = frame.node /\ outer = Front(stack) /\ outer # << >>
      /\ here \in live /\ here \in NodeId
  BY <1>0, UnderflowFacts DEF ShapeInv
<1>2. /\ \A q \in NodeId : settled[q] = nodes[q]
      /\ live \subseteq NodeId /\ Nil \notin live
  BY <1>1, RunningPlain, LiveIds
<1>3. above \in live /\ above # here
  BY <1>1, HereFacts
<1>4. l \in live /\ r \in live /\ l # r /\ l # above /\ r # above
  <2>1. Tree(settled, tops, live, h)
    BY DEF Shape
  <2> QED BY <2>1, <1>2, MateFacts
<1>5. /\ pc' = "return" /\ stack' = outer /\ change' = c /\ rootNode' = rootNode /\ orphans' = orphans /\ allocated' = allocated
  BY <1>1 DEF Give, history
<1>6. \A q \in NodeId : \A f \in {"leaf", "keys", "children", "buffer", "lowest", "left"} : nodes'[q][f] = base[q][f]
  BY ReparentFields DEF fields, Overwrites
<1>7. \A q \in live \ {l, r} : Kept(nodes'[q], nodes[q]) /\ nodes'[q].left = nodes[q].left
  <2> TAKE q \in live \ {l, r}
  <2>1. base[q] = nodes[q] /\ q \in NodeId
    BY <1>2 DEF Overwrites
  <2> QED
    BY <1>6, <2>1 DEF Kept
<1>8. \A f \in {"leaf", "keys", "children", "buffer", "lowest", "left"} : nodes'[l][f] = x[f] /\ nodes'[r][f] = y[f]
  <2>1. l \in NodeId /\ r \in NodeId /\ base[l] = x /\ base[r] = y
    BY <1>2, <1>4 DEF Overwrites
  <2> QED BY <2>1, <1>6
<1>9. Based(nodes, h, hi)
  BY <1>1, PlainBase
<1>10. Brothers(nodes, tops, cuts, live, hi, above, i, l, r) /\ l # Nil /\ r # Nil
  BY <1>1, <1>3, <1>9, MatesBrothers
<1> DEFINE X == nodes'[l]
           Y == nodes'[r]
<1>11. /\ CutInternal(u, X, Y, k, e) /\ JoinedInternal(u, nodes[l], nodes[r].lowest, nodes[r])
       /\ e \in Int /\ e = nodes[u.children[k + 1]].lowest
  BY <1>8 DEF CutInternal, Recut
<1> HIDE DEF X, Y
<1>12. /\ Fine(u, nodes, hi, hi[r])
       /\ \A z \in Int : z <= nodes[r].lowest /\ From(nodes[l], nodes, hi, z) => From(u, nodes, hi, z)
       /\ Severed(u, X, Y, e, nodes, hi, hi[r])
       /\ From(Y, nodes, hi, e) /\ e <= hi[r]
       /\ stems(X, nodes, tops, {l, r}) /\ stems(Y, nodes, tops, {l, r})
  BY ONLY <1>10, <1>11, SharedInternal
<1>13. nodes'[l].lowest = nodes[l].lowest /\ nodes'[r].lowest = e /\ e <= e
  BY <1>8, <1>11 DEF Recut
<1>14. \A q \in live : nodes'[q].left = nodes[q].left
  <2> TAKE q \in live
  <2>1. CASE q \in {l, r}
    BY <2>1, <1>8 DEF Recut
  <2>2. CASE q \notin {l, r}
    BY <2>2, <1>7
  <2> QED BY <2>1, <2>2
<1>15. SharesOff(nodes, hi, l, r, e, u)
  BY <1>7, <1>12, <1>13, <1>14 DEF SharesOff, X, Y
<1>16. CallerMoved(i, e)
  BY <1>3, <1>4, <1>7 DEF CallerMoved, Kept
<1>17. /\ change'.key = e
       /\ \/ change'.type = "RedistributeLeft" /\ here = r /\ i = place - 1
          \/ change'.type = "RedistributeRight" /\ here = l /\ i = place
  BY <1>5 DEF Reaches
<1> QED
  BY <1>1, <1>5, <1>9, <1>15, <1>16, <1>17, ShareReturnOrder

\* Two nodes of a table overwritten.
LEMMA TwoOverwritten ==
  ASSUME TypeInv, NEW a \in NodeId, NEW b \in NodeId, a # b, NEW x, NEW y, DOMAIN x = fields, DOMAIN y = fields,
         NEW base, base = [nodes EXCEPT ![a] = x, ![b] = y]
  PROVE  Overwrites(base, a, x, b, y) /\ Overwrites(base, b, y, a, x)
<1>1. isTable(nodes)
  BY HeapTable DEF TypeInv, TypeOK
<1>2. isTable([nodes EXCEPT ![a] = x, ![b] = y])
  BY <1>1 DEF isTable
<1>3. \A q \in NodeId : [nodes EXCEPT ![a] = x, ![b] = y][q] = IF q = b THEN y ELSE IF q = a THEN x ELSE nodes[q]
  BY <1>1 DEF isTable
<1> QED
  BY <1>2, <1>3 DEF Overwrites

\* An internal node takes the last children of its left neighbour.
LEMMA RedistributeInternalLeftOrder ==
  ASSUME OrderInv, ShapeInv', RedistributeInternalLeft
  PROVE  OrderInv'
<1> DEFINE n == flusher
           s == nodes[n.left]
           sk == s.keys
           sc == s.children
           nk == n.keys
           nc == n.children
           d == excess(n, s)
           k == Len(sc) - d
           moved == drop(sc, k)
           low == nodes[moved[1]].lowest
           keys == drop(sk, size(s) - d + 1) \o <<n.lowest>> \o nk
           kept == take(sk, size(s) - d)
           joined == moved \o nc
           rest == take(sc, k)
           taker == [n EXCEPT !.keys = keys, !.children = joined, !.lowest = low,
                              !.buffer = overlay(from(s.buffer, low), @)]
           giver == [s EXCEPT !.keys = kept, !.buffer = below(@, low), !.children = rest]
           base == [nodes EXCEPT ![frame.node] = taker, ![n.left] = giver]
           c == [key |-> low, node |-> Nil, type |-> "RedistributeLeft"]
           l == mate(here)
           S == ToSet(moved)
           u == union(s, n.lowest, n)
<1>0. ShapeInv
  BY DEF OrderInv
<1>1. PICK h : Shape(h)
  BY <1>0 DEF ShapeInv
<1>h. PICK hi : Order(hi)
  BY DEF OrderInv
<1>2. /\ Underflowed /\ borrowsLeft(frame.node) /\ matched(frame.node) /\ asksLeft(frame.node)
      /\ isBorrowable(nodes[mate(frame.node)])
      /\ stack' = Front(stack) /\ allocated' = allocated
  BY DEF RedistributeInternalLeft, borrowsLeft
<1>3. nodes' = reparent(base, S, frame.node) /\ Give(err, c)
  BY DEF RedistributeInternalLeft
<1>4. /\ TypeInv /\ Flow /\ running /\ here = frame.node /\ here \in NodeId /\ n = nodes[here] /\ isNode(n) /\ ~n.leaf
      /\ size(n) \in Nat /\ size(n) < least /\ size(n) + 1 >= least
      /\ l \in NodeId /\ l # here /\ isNode(nodes[l]) /\ ~nodes[l].leaf
      /\ size(nodes[l]) \in least .. (Fanout - 1)
      /\ n.left = l /\ Mates(settled, tops, live, above, place - 1, l, here) /\ outer # << >>
  BY <1>0, <1>1, <1>2, UnderflowFacts DEF ShapeInv
<1>5. s = nodes[l] /\ isNode(s) /\ ~s.leaf /\ size(s) \in least .. (Fanout - 1) /\ isBorrowable(s)
  BY <1>2, <1>4
<1>6. /\ nk \in Seq(KeyType) /\ nc \in Seq(NodeId) /\ Len(nc) = Len(nk) + 1 /\ size(n) = Len(nk)
      /\ sk \in Seq(KeyType) /\ sc \in Seq(NodeId) /\ Len(sc) = Len(sk) + 1 /\ size(s) = Len(sk)
      /\ n.lowest \in KeyType /\ DOMAIN n = fields /\ DOMAIN s = fields
      /\ n.leaf \in BOOLEAN /\ s.leaf \in BOOLEAN
  BY <1>4, <1>5 DEF isNode, size, fields
<1>7. d \in Nat /\ d >= 1 /\ d < Len(sk)
  <2>1. size(s) > Fanout \div 2 /\ size(s) < Fanout /\ size(s) \in Nat
    BY <1>5, <1>6, SizeAssumption DEF isBorrowable
  <2>2. d = (size(s) - size(n)) \div 2
    BY DEF excess
  <2> HIDE DEF d, s, n, sk, nk
  <2>3. d \in Nat /\ d >= 1 /\ d < size(s)
    BY <2>1, <2>2, <1>4, <1>6, BorrowSizes
  <2> QED BY <2>3, <1>6
<1>8. /\ DOMAIN taker = fields /\ DOMAIN giver = fields
      /\ taker.children = joined /\ giver.children = rest /\ taker.keys = keys /\ giver.keys = kept
      /\ taker.buffer = overlay(from(s.buffer, low), n.buffer) /\ giver.buffer = below(s.buffer, low)
      /\ taker.lowest = low /\ giver.lowest = s.lowest
      /\ \A f \in {"leaf", "left"} : taker[f] = n[f] /\ giver[f] = s[f]
  <2> HIDE DEF joined, rest, keys, kept, low
  <2> QED BY <1>6 DEF fields
<1>9. u.keys = sk \o <<n.lowest>> \o nk /\ u.children = sc \o nc
  BY DEF union
<1>10. kept = take(sk, Len(sk) - d) /\ keys = drop(sk, Len(sk) - d + 1) \o <<n.lowest>> \o nk
  BY <1>6
<1>11. moved = drop(sc, k) /\ joined = drop(sc, k) \o nc /\ rest = take(sc, k) /\ k = Len(sc) - d
       /\ low = nodes[moved[1]].lowest /\ c.key = low /\ c.type = "RedistributeLeft"
  OBVIOUS
<1>12. base = [nodes EXCEPT ![here] = taker, ![l] = giver]
  BY <1>4
<1> HIDE DEF u, taker, giver, keys, kept, joined, rest, moved, low, base, c, S, k, d
<1>13. /\ Strung(u.keys, sk, n.lowest, nk) /\ Chained(u.children, sc, nc)
       /\ Divided(u.keys, u.children, k, kept, rest, keys, joined)
       /\ k \in Nat /\ 1 <= k /\ k + 1 \in 1 .. Len(sc) /\ u.children[k + 1] = sc[k + 1] /\ moved[1] = sc[k + 1]
  <2> HIDE DEF n, s, sk, sc, nk, nc
  <2>1. nk \in Seq(KeyType) /\ nc \in Seq(NodeId) /\ sk \in Seq(KeyType) /\ sc \in Seq(NodeId) /\ n.lowest \in KeyType
        /\ Len(nc) = Len(nk) + 1 /\ Len(sc) = Len(sk) + 1
    BY <1>6
  <2> DEFINE uk == u.keys
             uc == u.children
             ls == Len(sk)
             b == n.lowest
  <2>2. uk = sk \o <<b>> \o nk /\ uc = sc \o nc /\ b \in KeyType
    BY <1>6, <1>9
  <2>3. d \in Nat /\ d >= 1 /\ d < Len(sk) /\ k = Len(sc) - d
    BY <1>7, <1>11
  <2> HIDE DEF uk, uc, b
  <2>4. LastMoved(sk, nk, sc, nc, b, d, k, uk, uc)
    BY ONLY <2>1, <2>2, <2>3, LastMoves DEF b
  <2>5. Divided(uk, uc, k, kept, rest, keys, joined) /\ moved[1] = sc[k + 1]
    BY ONLY <2>4, <1>10, <1>11 DEF b, LastMoved
  <2> QED
    BY ONLY <2>4, <2>5 DEF uk, uc, b, LastMoved
<1>14. JoinedInternal(u, s, n.lowest, n)
  BY <1>4, <1>5, <1>13, UnionJoined DEF u
<1>15. low = nodes[u.children[k + 1]].lowest /\ low = nodes[sc[k + 1]].lowest
  BY <1>11, <1>13
<1>16. above \in live
  BY <1>1, <1>4, HereFacts
<1>17. Brothers(nodes, tops, cuts, live, hi, above, place - 1, l, here)
  BY <1>1, <1>h, <1>4, <1>16, PlainBase, MatesBrothers
<1>18. low \in Int /\ \A j \in DOMAIN n.buffer : low <= j
  BY <1>4, <1>5, <1>13, <1>15, <1>17, SeamLeft
<1>19. DOMAIN s.buffer \subseteq Int
  <2>1. numeric(nodes[l])
    BY <1>17 DEF Brothers, Fine
  <2> QED BY <2>1, <1>5 DEF numeric
<1>20. CutInternal(u, giver, taker, k, low)
  <2>1. DOMAIN below(s.buffer, low) = {j \in DOMAIN s.buffer : j < low}
    BY BufferParts
  <2>2. DOMAIN from(s.buffer, low) = {j \in DOMAIN s.buffer : j >= low}
    BY BufferParts
  <2>3. DOMAIN taker.buffer = DOMAIN from(s.buffer, low) \cup DOMAIN n.buffer
    BY <1>8 DEF overlay
  <2>4. \A j \in DOMAIN giver.buffer : j \in DOMAIN s.buffer \cup DOMAIN n.buffer /\ j < low
    BY <2>1, <1>8
  <2>5. \A j \in DOMAIN taker.buffer : j \in DOMAIN s.buffer \cup DOMAIN n.buffer /\ low <= j
    <3> TAKE j \in DOMAIN taker.buffer
    <3>1. CASE j \in DOMAIN n.buffer
      BY <3>1, <1>18
    <3>2. CASE j \in DOMAIN from(s.buffer, low)
      <4>1. j \in DOMAIN s.buffer /\ j >= low /\ j \in Int
        BY <2>2, <3>2, <1>19
      <4> QED BY <4>1, <1>18
    <3> QED BY <2>3, <3>1, <3>2
  <2>6. giver.leaf \in BOOLEAN /\ taker.leaf \in BOOLEAN /\ ~giver.leaf /\ ~taker.leaf
    BY <1>4, <1>5, <1>6, <1>8
  <2>7. Divided(u.keys, u.children, k, giver.keys, giver.children, taker.keys, taker.children)
    BY <1>8, <1>13
  <2> QED
    BY ONLY <2>4, <2>5, <2>6, <2>7, <1>14, DividedCut
<1>21. Overwrites(base, l, giver, here, taker)
  <2>1. l \in NodeId /\ here \in NodeId /\ l # here /\ TypeInv /\ DOMAIN giver = fields /\ DOMAIN taker = fields
    BY <1>4, <1>8
  <2> HIDE DEF l
  <2> QED BY <2>1, <1>12, TwoOverwritten
<1>22. nodes' = reparent(base, S, here)
  BY <1>3, <1>4
<1> DEFINE i == place - 1
<1>23. Mates(settled, tops, live, above, i, l, here) /\ i = place - 1
  BY <1>4
<1>24. here \in {l, here} /\ mate(here) \in {l, here}
  OBVIOUS
<1>25. Recut(l, here, u, k, giver, taker, low)
  BY <1>4, <1>5, <1>8, <1>14, <1>15, <1>18, <1>20 DEF Recut
<1>26. Reaches(c, low, l, here, i)
  BY <1>11 DEF Reaches
<1> HIDE DEF i, l, n, s
<1> QED
  BY ONLY OrderInv, ShapeInv', <1>1, <1>h, <1>2, <1>3, <1>21, <1>22, <1>23, <1>24, <1>25, <1>26, InternalShareOrder

\* An internal node takes the first children of its right neighbour.
LEMMA RedistributeInternalRightOrder ==
  ASSUME OrderInv, ShapeInv', RedistributeInternalRight
  PROVE  OrderInv'
<1> DEFINE n == flusher
           s == nodes[n.right]
           sk == s.keys
           sc == s.children
           nk == n.keys
           nc == n.children
           d == excess(n, s)
           k == Len(nc) + d
           moved == take(sc, d)
           low == nodes[sc[d + 1]].lowest
           keys == nk \o <<s.lowest>> \o take(sk, d - 1)
           kept == drop(sk, d)
           joined == nc \o moved
           rest == drop(sc, d)
           taker == [n EXCEPT !.keys = keys, !.children = joined,
                              !.buffer = overlay(below(s.buffer, low), @)]
           giver == [s EXCEPT !.keys = kept, !.children = rest,
                              !.lowest = low, !.buffer = from(@, low)]
           base == [nodes EXCEPT ![frame.node] = taker, ![n.right] = giver]
           c == [key |-> low, node |-> Nil, type |-> "RedistributeRight"]
           r == mate(here)
           S == ToSet(moved)
           u == union(n, s.lowest, s)
<1>0. ShapeInv
  BY DEF OrderInv
<1>1. PICK h : Shape(h)
  BY <1>0 DEF ShapeInv
<1>h. PICK hi : Order(hi)
  BY DEF OrderInv
<1>2. /\ Underflowed /\ borrowsRight(frame.node) /\ matched(frame.node) /\ ~asksLeft(frame.node)
      /\ isBorrowable(nodes[mate(frame.node)])
      /\ stack' = Front(stack) /\ allocated' = allocated
  BY DEF RedistributeInternalRight, borrowsRight
<1>3. nodes' = reparent(base, S, frame.node) /\ Give(err, c)
  BY DEF RedistributeInternalRight
<1>4. /\ TypeInv /\ Flow /\ running /\ here = frame.node /\ here \in NodeId /\ n = nodes[here] /\ isNode(n) /\ ~n.leaf
      /\ size(n) \in Nat /\ size(n) < least /\ size(n) + 1 >= least
      /\ r \in NodeId /\ r # here /\ isNode(nodes[r]) /\ ~nodes[r].leaf
      /\ size(nodes[r]) \in least .. (Fanout - 1)
      /\ n.right = r /\ Mates(settled, tops, live, above, place, here, r) /\ outer # << >>
  BY <1>0, <1>1, <1>2, UnderflowFacts DEF ShapeInv
<1>5. s = nodes[r] /\ isNode(s) /\ ~s.leaf /\ size(s) \in least .. (Fanout - 1) /\ isBorrowable(s)
  BY <1>2, <1>4
<1>6. /\ nk \in Seq(KeyType) /\ nc \in Seq(NodeId) /\ Len(nc) = Len(nk) + 1 /\ size(n) = Len(nk)
      /\ sk \in Seq(KeyType) /\ sc \in Seq(NodeId) /\ Len(sc) = Len(sk) + 1 /\ size(s) = Len(sk)
      /\ s.lowest \in KeyType /\ DOMAIN n = fields /\ DOMAIN s = fields
      /\ n.leaf \in BOOLEAN /\ s.leaf \in BOOLEAN
  BY <1>4, <1>5 DEF isNode, size, fields
<1>7. d \in Nat /\ d >= 1 /\ d < Len(sk)
  <2>1. size(s) > Fanout \div 2 /\ size(s) < Fanout /\ size(s) \in Nat
    BY <1>5, <1>6, SizeAssumption DEF isBorrowable
  <2>2. d = (size(s) - size(n)) \div 2
    BY DEF excess
  <2> HIDE DEF d, s, n, sk, nk
  <2>3. d \in Nat /\ d >= 1 /\ d < size(s)
    BY <2>1, <2>2, <1>4, <1>6, BorrowSizes
  <2> QED BY <2>3, <1>6
<1>8. /\ DOMAIN taker = fields /\ DOMAIN giver = fields
      /\ taker.children = joined /\ giver.children = rest /\ taker.keys = keys /\ giver.keys = kept
      /\ taker.buffer = overlay(below(s.buffer, low), n.buffer) /\ giver.buffer = from(s.buffer, low)
      /\ taker.lowest = n.lowest /\ giver.lowest = low
      /\ \A f \in {"leaf", "left"} : taker[f] = n[f] /\ giver[f] = s[f]
  <2> HIDE DEF joined, rest, keys, kept, low
  <2> QED BY <1>6 DEF fields
<1>9. u.keys = nk \o <<s.lowest>> \o sk /\ u.children = nc \o sc
  BY DEF union
<1>10. kept = drop(sk, d) /\ keys = nk \o <<s.lowest>> \o take(sk, d - 1)
  OBVIOUS
<1>11. moved = take(sc, d) /\ joined = nc \o take(sc, d) /\ rest = drop(sc, d) /\ k = Len(nc) + d
       /\ low = nodes[sc[d + 1]].lowest /\ c.key = low /\ c.type = "RedistributeRight"
  OBVIOUS
<1>12. base = [nodes EXCEPT ![here] = taker, ![r] = giver]
  BY <1>4
<1> HIDE DEF u, taker, giver, keys, kept, joined, rest, moved, low, base, c, S, k, d
<1>13. /\ Strung(u.keys, nk, s.lowest, sk) /\ Chained(u.children, nc, sc)
       /\ Divided(u.keys, u.children, k, keys, joined, kept, rest)
       /\ d \in 1 .. Len(sk) /\ Len(sc) > 0 /\ u.children[k + 1] = sc[d + 1]
  <2> HIDE DEF n, s, sk, sc, nk, nc
  <2>1. nk \in Seq(KeyType) /\ nc \in Seq(NodeId) /\ sk \in Seq(KeyType) /\ sc \in Seq(NodeId)
        /\ Len(nc) = Len(nk) + 1 /\ Len(sc) = Len(sk) + 1
    BY <1>6
  <2> DEFINE uk == u.keys
             uc == u.children
             b == s.lowest
  <2>2. uk = nk \o <<b>> \o sk /\ uc = nc \o sc /\ b \in KeyType
    BY <1>6, <1>9
  <2>3. d \in Nat /\ d >= 1 /\ d < Len(sk) /\ k = Len(nc) + d
    BY <1>7, <1>11
  <2> HIDE DEF uk, uc, b
  <2>4. FirstMoved(nk, sk, nc, sc, b, d, k, uk, uc)
    BY ONLY <2>1, <2>2, <2>3, FirstMoves DEF b
  <2>5. Divided(uk, uc, k, keys, joined, kept, rest)
    BY ONLY <2>4, <1>10, <1>11 DEF b, FirstMoved
  <2> QED
    BY ONLY <2>4, <2>5 DEF uk, uc, b, FirstMoved
<1>14. JoinedInternal(u, n, s.lowest, s)
  BY <1>4, <1>5, <1>13, UnionJoined DEF u
<1>15. low = nodes[u.children[k + 1]].lowest /\ low = nodes[sc[d + 1]].lowest
  BY <1>11, <1>13
<1>16. above \in live
  BY <1>1, <1>4, HereFacts
<1>17. Brothers(nodes, tops, cuts, live, hi, above, place, here, r)
  BY <1>1, <1>h, <1>4, <1>16, PlainBase, MatesBrothers
<1>18. low \in Int /\ \A j \in DOMAIN n.buffer : j < low
  BY <1>4, <1>5, <1>13, <1>15, <1>17, SeamRight
<1>19. DOMAIN s.buffer \subseteq Int
  <2>1. numeric(nodes[r])
    BY <1>17 DEF Brothers, Fine
  <2> QED BY <2>1, <1>5 DEF numeric
<1>20. CutInternal(u, taker, giver, k, low)
  <2>1. DOMAIN below(s.buffer, low) = {j \in DOMAIN s.buffer : j < low}
    BY BufferParts
  <2>2. DOMAIN from(s.buffer, low) = {j \in DOMAIN s.buffer : j >= low}
    BY BufferParts
  <2>3. DOMAIN taker.buffer = DOMAIN below(s.buffer, low) \cup DOMAIN n.buffer
    BY <1>8 DEF overlay
  <2>4. \A j \in DOMAIN giver.buffer : j \in DOMAIN n.buffer \cup DOMAIN s.buffer /\ low <= j
    <3> TAKE j \in DOMAIN giver.buffer
    <3>1. j \in DOMAIN s.buffer /\ j >= low /\ j \in Int
      BY <2>2, <1>8, <1>19
    <3> QED BY <3>1, <1>18
  <2>5. \A j \in DOMAIN taker.buffer : j \in DOMAIN n.buffer \cup DOMAIN s.buffer /\ j < low
    <3> TAKE j \in DOMAIN taker.buffer
    <3>1. CASE j \in DOMAIN n.buffer
      BY <3>1, <1>18
    <3>2. CASE j \in DOMAIN below(s.buffer, low)
      BY <2>1, <3>2
    <3> QED BY <2>3, <3>1, <3>2
  <2>6. giver.leaf \in BOOLEAN /\ taker.leaf \in BOOLEAN /\ ~giver.leaf /\ ~taker.leaf
    BY <1>4, <1>5, <1>6, <1>8
  <2>7. Divided(u.keys, u.children, k, taker.keys, taker.children, giver.keys, giver.children)
    BY <1>8, <1>13
  <2> QED
    BY ONLY <2>4, <2>5, <2>6, <2>7, <1>14, DividedCut
<1>21. Overwrites(base, here, taker, r, giver)
  <2>1. r \in NodeId /\ here \in NodeId /\ r # here /\ TypeInv /\ DOMAIN giver = fields /\ DOMAIN taker = fields
    BY <1>4, <1>8
  <2> HIDE DEF r
  <2> QED BY <2>1, <1>12, TwoOverwritten
<1>22. nodes' = reparent(base, S, here)
  BY <1>3, <1>4
<1> DEFINE i == place
<1>23. Mates(settled, tops, live, above, i, here, r) /\ i = place
  BY <1>4
<1>24. here \in {here, r} /\ mate(here) \in {here, r}
  OBVIOUS
<1>25. Recut(here, r, u, k, taker, giver, low)
  BY <1>4, <1>5, <1>8, <1>14, <1>15, <1>18, <1>20 DEF Recut
<1>26. Reaches(c, low, here, r, i)
  BY <1>11 DEF Reaches
<1> HIDE DEF i, r, n, s
<1> QED
  BY ONLY OrderInv, ShapeInv', <1>1, <1>h, <1>2, <1>3, <1>21, <1>22, <1>23, <1>24, <1>25, <1>26, InternalShareOrder

-----------------------------------------------------------------------------
(* Leaves that share what they have anew *)

\* The tree without the key that a leaf erases.
LEMMA ShrunkBased ==
  ASSUME OrderInv, Removes, starved, NEW h, Shape(h), NEW hi, Order(hi), matched(call.node)
  PROVE  /\ Based(shrunk, h, hi) /\ here \in NodeId /\ shrunk[here] = erased(target)
         /\ \A q \in NodeId \ {here} : shrunk[q] = nodes[q]
         /\ \A q \in NodeId : \A f \in {"leaf", "children", "parent", "left", "right"} : shrunk[q][f] = nodes[q][f]
<1>0. ShapeInv
  BY DEF OrderInv
<1>1. /\ TypeInv /\ Flow /\ running /\ here = call.node /\ here \in NodeId /\ target = nodes[here] /\ target.leaf /\ pc = "apply"
      /\ holds(target, call.key) /\ live \subseteq NodeId
  BY <1>0, StarvedFacts DEF ShapeInv, Removes
<1> DEFINE n == erased(target)
<1>2. \A f \in {"leaf", "children", "parent", "left", "right"} : n[f] = nodes[here][f]
  BY <1>1, ErasedLinks
<1>3. Suits(n, hi)
  <2>1. Setting(nodes[here], hi)
    BY <1>1, HereSetting
  <2> QED
    BY <2>1, <1>1, ErasedSuits
<1> HIDE DEF n
<1>4. shrunk = [nodes EXCEPT ![here] = n]
  BY <1>1 DEF shrunk, n
<1>5. shrunk[here] = n /\ \A q \in NodeId \ {here} : shrunk[q] = nodes[q]
  BY <1>1, <1>4 DEF TypeInv, TypeOK, isHeap
<1> DEFINE B == shrunk
<1>6. /\ \A q \in live \ {here} : B[q] = nodes[q]
      /\ Suits(B[here], hi) /\ \A f \in {"parent", "left", "right"} : B[here][f] = nodes[here][f]
  BY <1>1, <1>2, <1>3, <1>5
<1> HIDE DEF B
<1>7. Based(B, h, hi)
  BY <1>1, <1>6, BaseOrder
<1> QED
  BY <1>1, <1>2, <1>5, <1>7 DEF B, n

\* Two leaves next to each other, as one.
LEMMA JoinedLeaves ==
  ASSUME NEW N, NEW T, NEW V, NEW L, NEW hi, NEW p, NEW i, NEW l, NEW r, Brothers(N, T, V, L, hi, p, i, l, r),
         NEW u, JoinedLeaf(u, N[l], N[r])
  PROVE  /\ Fine(u, N, hi, hi[r])
         /\ \A z \in Int : z <= N[r].lowest /\ From(N[l], N, hi, z) => From(u, N, hi, z)
<1>1. /\ Fine(N[l], N, hi, hi[l]) /\ Fine(N[r], N, hi, hi[r]) /\ From(N[r], N, hi, N[r].lowest)
      /\ hi[l] \in Int /\ hi[r] \in Int /\ N[r].lowest \in Int /\ N[r].lowest <= hi[r]
  BY DEF Brothers
<1>2. hi[l] < N[r].lowest
  BY SeamBetween
<1> DEFINE bl == hi[l]
           b == hi[r]
           lo == N[r].lowest
           m == N[l]
           n == N[r]
<1>3. /\ Fine(m, N, hi, bl) /\ Fine(n, N, hi, b) /\ From(n, N, hi, lo) /\ bl \in Int /\ b \in Int /\ lo \in Int
      /\ bl < lo /\ bl <= b /\ JoinedLeaf(u, m, n)
  BY <1>1, <1>2
<1> HIDE DEF bl, b, lo, m, n
<1>4. Fine(u, N, hi, b) /\ \A z \in Int : z <= lo /\ From(m, N, hi, z) => From(u, N, hi, z)
  BY ONLY <1>3, JoinLeaves
<1> QED
  BY <1>4 DEF bl, b, lo, m, n

\* x and y share what the leaves l and r of table B had, from e on in y; more than a key of the one
\* that gives stays with it.
Redealt(B, l, r, u, k, x, y, e) ==
  /\ JoinedLeaf(u, B[l], B[r]) /\ CutLeaf(u, x, y, k) /\ e = u.keys[k + 1]
  /\ y.lowest = e /\ x.lowest = B[l].lowest /\ x.left = nodes[l].left /\ y.left = nodes[r].left
  /\ \/ here = r /\ k < Len(B[l].keys)
     \/ here = l /\ k >= Len(B[l].keys)

\* The key that becomes the pivot is one of the leaf that gives.
LEMMA RedealtKey ==
  ASSUME NEW N, NEW T, NEW V, NEW L, NEW hi, NEW p, NEW i, NEW l, NEW r, Brothers(N, T, V, L, hi, p, i, l, r),
         NEW u, JoinedLeaf(u, N[l], N[r]), NEW k \in Nat, k < Len(u.keys), NEW e, e = u.keys[k + 1]
  PROVE  LET s == nd(N, T, V, p).keys[i] IN
         /\ k < Len(N[l].keys) => e <= s
         /\ k >= Len(N[l].keys) => s <= e
<1> DEFINE s == nd(N, T, V, p).keys[i]
           a == N[l].keys
           b == N[r].keys
           la == Len(a)
           lb == Len(b)
<1>1. /\ hi[l] < s /\ s <= N[r].lowest /\ s \in Int /\ hi[l] \in Int /\ N[r].lowest \in Int
      /\ Fine(N[l], N, hi, hi[l]) /\ Fine(N[r], N, hi, hi[r]) /\ From(N[r], N, hi, N[r].lowest)
  BY DEF Brothers
<1>2. integers(a) /\ integers(b) /\ la \in Nat /\ lb \in Nat
  BY <1>1 DEF Fine, numeric, integers
<1>3. \A j \in 1 .. la : a[j] \in Int /\ a[j] <= hi[l]
  BY <1>1, <1>2 DEF Fine, own, integers
<1>4. \A j \in 1 .. lb : b[j] \in Int /\ N[r].lowest <= b[j]
  BY <1>1, <1>2 DEF From, own, integers
<1>5. Chained(u.keys, a, b)
  BY DEF JoinedLeaf
<1> HIDE DEF s
<1>6. ASSUME k < la PROVE e <= s
  <2>1. k + 1 \in 1 .. la
    BY ONLY <1>2, <1>6, k \in Nat
  <2>2. e = a[k + 1]
    BY <2>1, <1>5 DEF Chained
  <2>3. e \in Int /\ e <= hi[l]
    BY <2>1, <2>2, <1>3
  <2> QED
    BY ONLY <2>3, <1>1
<1>7. ASSUME k >= la PROVE s <= e
  <2>1. k + 1 - la \in 1 .. lb /\ la + (k + 1 - la) = k + 1
    <3>1. k < la + lb
      BY <1>5 DEF Chained
    <3> HIDE DEF la, lb
    <3> QED
      BY ONLY <3>1, <1>2, <1>7, k \in Nat
  <2>2. e = b[k + 1 - la]
    BY <2>1, <1>5 DEF Chained
  <2>3. e \in Int /\ N[r].lowest <= e
    BY <2>1, <2>2, <1>4
  <2> QED
    BY ONLY <2>3, <1>1
<1> QED
  BY <1>6, <1>7 DEF s

\* A leaf and a neighbour share what they have anew, and their parent gets the pivot.
LEMMA LeafShareOrder ==
  ASSUME OrderInv, ShapeInv', Removes, starved, NEW h, Shape(h), NEW hi, Order(hi), matched(call.node),
         NEW i, NEW l, NEW r, Mates(settled, tops, live, above, i, l, r), here \in {l, r},
         NEW c, NEW e, Reaches(c, e, l, r, i), NEW x, NEW y, NEW t, Overwrites(t, l, x, r, y),
         nodes' = [t EXCEPT ![above].keys[i] = e], stack' = stack, allocated' = allocated, Give(Restructured, c),
         NEW u, NEW k, Redealt(shrunk, l, r, u, k, x, y, e)
  PROVE  OrderInv'
<1>0. ShapeInv
  BY DEF OrderInv
<1>1. /\ TypeInv /\ Flow /\ running /\ here = call.node /\ outer = stack /\ outer # << >>
      /\ here \in live /\ here \in NodeId /\ above \in live /\ above \in NodeId
  BY <1>0, StarvedFacts DEF ShapeInv
<1>2. /\ \A q \in NodeId : settled[q] = nodes[q]
      /\ live \subseteq NodeId /\ Nil \notin live
  BY <1>1, RunningPlain, LiveIds
<1>3. l \in live /\ r \in live /\ l # r /\ l # above /\ r # above
  <2>1. Tree(settled, tops, live, h)
    BY DEF Shape
  <2> QED BY <2>1, <1>2, MateFacts
<1>4. /\ pc' = "return" /\ stack' = outer /\ change' = c /\ rootNode' = rootNode /\ orphans' = orphans /\ allocated' = allocated
  BY <1>1 DEF Give, history, Restructured
<1> DEFINE B == shrunk
<1>5. /\ Based(B, h, hi)
      /\ \A q \in NodeId \ {here} : B[q] = nodes[q]
      /\ \A q \in NodeId : \A f \in {"leaf", "children", "parent", "left", "right"} : B[q][f] = nodes[q][f]
  BY ShrunkBased
<1>r. Redealt(B, l, r, u, k, x, y, e)
  OBVIOUS
<1> HIDE DEF B
<1>6. Brothers(B, tops, cuts, live, hi, above, i, l, r) /\ l # Nil /\ r # Nil
  BY <1>1, <1>5, MatesBrothers
<1>7. B[above] = nodes[above] /\ nd(B, tops, cuts, above) = nodes[above]
  <2>1. above # here /\ above # Nil
    BY <1>1, <1>2, <1>3
  <2> QED
    BY <2>1, <1>1, <1>5 DEF nd
<1> DEFINE ks == nodes[above].keys
           m == nodes'[above]
<1>8. i \in 1 .. Len(ks) /\ ks[i] \in Int
  BY <1>6, <1>7 DEF Brothers
<1>9. /\ nodes'[l] = x /\ nodes'[r] = y
      /\ \A q \in live \ {l, r, above} : nodes'[q] = nodes[q]
      /\ m.keys = [ks EXCEPT ![i] = e]
      /\ \A f \in {"leaf", "children", "buffer", "lowest", "left"} : m[f] = nodes[above][f]
  <2>1. isTable(t) /\ \A q \in NodeId : t[q] = IF q = l THEN x ELSE IF q = r THEN y ELSE nodes[q]
    BY DEF Overwrites
  <2>2. \A q \in NodeId : q # above => nodes'[q] = t[q]
    BY <2>1 DEF isTable
  <2>3. t[above] = nodes[above]
    BY <2>1, <1>1, <1>3
  <2>4. nodes'[above] = [t[above] EXCEPT !.keys[i] = e]
    BY <2>1, <1>1 DEF isTable
  <2>5. l \in NodeId /\ r \in NodeId
    BY <1>2, <1>3
  <2>6. nodes'[l] = x /\ nodes'[r] = y
    BY <2>1, <2>2, <2>5, <1>3
  <2>7. \A q \in live \ {l, r, above} : nodes'[q] = nodes[q]
    BY <2>1, <2>2, <1>2
  <2>8. DOMAIN nodes[above] = fields
    BY <2>1, <2>3, <1>1 DEF isTable
  <2>9. m.keys = [ks EXCEPT ![i] = e]
    BY <2>3, <2>4, <2>8 DEF fields
  <2>10. \A f \in {"leaf", "children", "buffer", "lowest", "left"} : m[f] = nodes[above][f]
    BY <2>3, <2>4, <2>8 DEF fields
  <2> QED
    BY ONLY <2>6, <2>7, <2>9, <2>10
<1> HIDE DEF m
<1>10. /\ JoinedLeaf(u, B[l], B[r]) /\ CutLeaf(u, x, y, k) /\ e = u.keys[k + 1]
       /\ y.lowest = e /\ x.lowest = B[l].lowest /\ x.left = nodes[l].left /\ y.left = nodes[r].left
       /\ k \in Nat /\ k < Len(u.keys) /\ Len(x.children) = 0 /\ Len(y.children) = 0
  BY <1>r DEF Redealt, CutLeaf
<1>11. /\ Fine(u, B, hi, hi[r])
       /\ \A z \in Int : z <= B[r].lowest /\ From(B[l], B, hi, z) => From(u, B, hi, z)
  BY <1>6, <1>10, JoinedLeaves
<1>12. Severed(u, x, y, e, B, hi, hi[r]) /\ From(y, B, hi, e)
  <2>1. hi[r] \in Int
    BY <1>6 DEF Brothers
  <2> QED
    BY <2>1, <1>10, <1>11, CutLeafOrder
<1>13. e \in Int /\ e <= hi[r]
  BY <1>12 DEF Severed
<1>14. SharesOff(B, hi, l, r, e, u)
  <2>1. stems(x, B, tops, {l, r}) /\ stems(y, B, tops, {l, r})
    BY <1>10 DEF stems
  <2>2. \A q \in live \ {l, r, above} : Kept(nodes'[q], nodes[q])
    BY <1>9 DEF Kept
  <2>3. \A q \in live : nodes'[q].left = nodes[q].left
    <3> SUFFICES ASSUME NEW q \in live PROVE nodes'[q].left = nodes[q].left
      OBVIOUS
    <3>1. CASE q = above
      BY <3>1, <1>9 DEF m
    <3>2. CASE q = l \/ q = r
      BY <3>2, <1>9, <1>10
    <3>3. CASE q \notin {l, r, above}
      BY <3>3, <1>9
    <3> QED BY ONLY <3>1, <3>2, <3>3
  <2>4. nodes'[r].lowest = e /\ nodes'[l].lowest = B[l].lowest /\ e <= e
    <3>1. nodes'[r].lowest = e /\ nodes'[l].lowest = B[l].lowest
      BY ONLY <1>9, <1>10
    <3>2. e <= e
      BY ONLY <1>13
    <3> QED BY ONLY <3>1, <3>2
  <2>5. Severed(u, nodes'[l], nodes'[r], e, B, hi, hi[r])
    BY ONLY <1>9, <1>12
  <2>6. From(nodes'[r], B, hi, nodes'[r].lowest) /\ e <= nodes'[r].lowest /\ nodes'[r].lowest <= hi[r]
    BY ONLY <2>4, <1>9, <1>12, <1>13
  <2>7. stems(nodes'[l], B, tops, {l, r}) /\ stems(nodes'[r], B, tops, {l, r})
    BY ONLY <2>1, <1>9
  <2> QED
    BY ONLY <2>2, <2>3, <2>4, <2>5, <2>6, <2>7, <1>11 DEF SharesOff
<1>15. (i + 1 = place => e <= ks[i]) /\ (i = place => ks[i] <= e)
  <2>1. (k < Len(B[l].keys) => e <= ks[i]) /\ (k >= Len(B[l].keys) => ks[i] <= e)
    BY <1>6, <1>7, <1>10, RedealtKey
  <2>2. place \in Nat
    BY <1>1, HereFacts
  <2>3. (here = r /\ i = place - 1) \/ (here = l /\ i = place)
    BY DEF Reaches
  <2>4. (here = r /\ k < Len(B[l].keys)) \/ (here = l /\ k >= Len(B[l].keys))
    BY <1>r DEF Redealt
  <2>5. CASE here = r
    <3>1. here # l /\ i = place - 1 /\ k < Len(B[l].keys)
      BY ONLY <2>3, <2>4, <2>5, <1>3
    <3>2. e <= ks[i] /\ i # place
      BY <3>1, <2>1, <2>2
    <3> QED BY <3>2
  <2>6. CASE here = l
    <3>1. here # r /\ i = place /\ k >= Len(B[l].keys)
      BY ONLY <2>3, <2>4, <2>6, <1>3
    <3>2. ks[i] <= e /\ i + 1 # place
      BY <3>1, <2>1, <2>2
    <3> QED BY <3>2
  <2> QED
    BY ONLY <2>3, <2>5, <2>6
<1>16. CallerMoved(i, e)
  <2>1. Len(m.keys) = Len(ks) /\ m.keys[i] = e /\ \A j \in 1 .. Len(ks) : j # i => m.keys[j] = ks[j]
    <3>1. ks \in Seq(KeyType)
      BY <1>1 DEF TypeInv, TypeOK, isHeap, isNode
    <3>2. Len([ks EXCEPT ![i] = e]) = Len(ks)
      BY <3>1, OverwriteLength
    <3> HIDE DEF ks
    <3>3. [ks EXCEPT ![i] = e][i] = e /\ \A j \in 1 .. Len(ks) : j # i => [ks EXCEPT ![i] = e][j] = ks[j]
      BY <3>1, <1>8
    <3> QED
      BY ONLY <3>2, <3>3, <1>9
  <2> QED
    BY <2>1, <1>9, <1>15 DEF CallerMoved, m
<1>17. /\ change'.key = e
       /\ \/ change'.type = "RedistributeLeft" /\ here = r /\ i = place - 1
          \/ change'.type = "RedistributeRight" /\ here = l /\ i = place
  BY <1>4 DEF Reaches
<1> QED
  BY <1>1, <1>4, <1>5, <1>14, <1>16, <1>17, ShareReturnOrder

\* Vector uk is cut into xk, its first k entries, and yk.
Parted(uk, k, xk, yk) ==
  /\ k \in Nat /\ 1 <= k /\ k < Len(uk) /\ Heads(xk, uk, k) /\ Tails(yk, uk, k)

\* The last entries of the first of two vectors go over to the second.
LEMMA LastParted ==
  ASSUME NEW a \in Seq(KeyType), NEW b \in Seq(KeyType), NEW k, k \in 1 .. (Len(a) - 1), NEW uk, uk = a \o b
  PROVE  Chained(uk, a, b) /\ Parted(uk, k, take(a, k), drop(a, k) \o b)
<1>1. Chained(uk, a, b)
  BY ConcatChained
<1> DEFINE la == Len(a)
           lb == Len(b)
           y == drop(a, k) \o b
           x == take(a, k)
           o == drop(a, k)
<1>2. la \in Nat /\ lb \in Nat /\ k \in 1 .. (la - 1)
  OBVIOUS
<1>3. k \in Nat /\ 1 <= k /\ k <= la /\ k < la + lb /\ k \in 0 .. la
  BY ONLY <1>2
<1>4. Heads(x, a, k) /\ Tails(o, a, k) /\ o \in Seq(KeyType)
  BY <1>3, TakeHeads, DropTails, DropType
<1>5. Chained(y, o, b)
  BY <1>4, ConcatChained
<1> HIDE DEF x, y, o
<1>6. Heads(x, uk, k)
  BY <1>1, <1>2, <1>3, <1>4, ChainedHead
<1>7. Tails(y, uk, k)
  BY <1>1, <1>2, <1>3, <1>4, <1>5, ChainedTail
<1>8. Len(uk) = la + lb
  BY <1>1 DEF Chained
<1> QED
  BY <1>1, <1>3, <1>6, <1>7, <1>8 DEF Parted, x, y, o

\* The first entries of the second go over to the first.
Parting(a, b, d, k, uk, xk, yk, e) ==
  /\ d \in 1 .. (Len(b) - 1) /\ k = Len(a) + d /\ uk = a \o b
  /\ xk = a \o take(b, d) /\ yk = drop(b, d) /\ e = b[d + 1]

\* What redistribute leaves of two leaves when the first d keys of the right one move.
LEMMA FirstParted ==
  ASSUME NEW a \in Seq(KeyType), NEW b \in Seq(KeyType), NEW d, NEW k, NEW uk, NEW xk, NEW yk, NEW e,
         Parting(a, b, d, k, uk, xk, yk, e)
  PROVE  Chained(uk, a, b) /\ Parted(uk, k, xk, yk) /\ e = uk[k + 1]
<1>0. /\ d \in 1 .. (Len(b) - 1) /\ k = Len(a) + d /\ uk = a \o b
      /\ xk = a \o take(b, d) /\ yk = drop(b, d) /\ e = b[d + 1]
  BY DEF Parting
<1>1. Chained(uk, a, b)
  BY <1>0, ConcatChained
<1> DEFINE la == Len(a)
           lb == Len(b)
           x == a \o take(b, d)
           y == drop(b, d)
           o == take(b, d)
<1>2. la \in Nat /\ lb \in Nat /\ d \in 1 .. (lb - 1) /\ k = la + d
  BY <1>0
<1> HIDE DEF la, lb
<1>3. /\ d \in Nat /\ d <= lb /\ k \in Nat /\ 1 <= k /\ k < la + lb /\ d \in 0 .. lb
      /\ d + 1 \in 1 .. lb /\ la + (d + 1) = k + 1
  BY ONLY <1>2
<1>4. Heads(o, b, d) /\ Tails(y, b, d) /\ o \in Seq(KeyType)
  BY <1>3, TakeHeads, DropTails, TakeType DEF lb
<1>5. Chained(x, a, o)
  BY <1>4, ConcatChained
<1> HIDE DEF x, y, o
<1>6. Heads(x, uk, la + d)
  BY <1>1, <1>2, <1>3, <1>4, <1>5, ChainedMore DEF la, lb
<1>7. Tails(y, uk, la + d)
  BY <1>1, <1>2, <1>3, <1>4, ChainedLast DEF la, lb
<1>8. Len(uk) = la + lb /\ \A j \in 1 .. lb : uk[la + j] = b[j]
  BY <1>1 DEF Chained, la, lb
<1>9. uk[k + 1] = b[d + 1]
  BY <1>3, <1>8
<1> QED
  BY <1>0, <1>1, <1>2, <1>3, <1>6, <1>7, <1>8, <1>9 DEF Parted, x, y, o

\* Two leaves as one, and the cut of it.
chain(l, r) == [leaf |-> TRUE, keys |-> l.keys \o r.keys, children |-> << >>, buffer |-> [j \in {} |-> 0]]

\* Two leaves that part their keys anew are their chain, cut in two.
LEMMA PartedCut ==
  ASSUME NEW N, NEW T, NEW V, NEW L, NEW hi, NEW p, NEW i, NEW l, NEW r, Brothers(N, T, V, L, hi, p, i, l, r),
         N[l].leaf, N[r].leaf, NEW u, u = chain(N[l], N[r]), Chained(u.keys, N[l].keys, N[r].keys),
         NEW x, NEW y, x.leaf = N[l].leaf, y.leaf = N[r].leaf, x.children = N[l].children, y.children = N[r].children,
         x.buffer = N[l].buffer, y.buffer = N[r].buffer, NEW k, Parted(u.keys, k, x.keys, y.keys)
  PROVE  JoinedLeaf(u, N[l], N[r]) /\ CutLeaf(u, x, y, k)
<1>1. numeric(N[l]) /\ numeric(N[r])
  BY DEF Brothers, Fine
<1>2. /\ Len(x.children) = 0 /\ Len(y.children) = 0 /\ DOMAIN x.buffer = {} /\ DOMAIN y.buffer = {}
      /\ x.leaf \in BOOLEAN /\ y.leaf \in BOOLEAN /\ x.leaf /\ y.leaf
  BY <1>1 DEF numeric
<1>3. u.leaf = TRUE /\ Len(u.children) = 0 /\ DOMAIN u.buffer = {}
  BY DEF chain
<1> QED
  BY <1>2, <1>3 DEF JoinedLeaf, CutLeaf, Parted, Heads, Tails

\* A leaf takes the last entries of its left neighbour.
LEMMA RedistributeLeafLeftOrder ==
  ASSUME OrderInv, ShapeInv', RedistributeLeafLeft
  PROVE  OrderInv'
<1> DEFINE n == erased(target)
           s == nodes[n.left]
           sk == s.keys
           nk == n.keys
           d == excess(n, s)
           k == size(s) - d
           keys == drop(sk, k) \o nk
           kept == take(sk, k)
           low == keys[1]
           taker == [n EXCEPT !.keys = keys, !.lowest = low, !.values = drop(s.values, k) \o @]
           giver == [s EXCEPT !.keys = kept, !.values = take(@, k)]
           t == [nodes EXCEPT ![call.node] = taker, ![n.left] = giver]
           c == [key |-> low, node |-> Nil, type |-> "RedistributeLeft"]
           l == mate(here)
           slot == call.idx
           B == shrunk
           u == chain(B[l], B[here])
<1>0. ShapeInv
  BY DEF OrderInv
<1>1. PICK h : Shape(h)
  BY <1>0 DEF ShapeInv
<1>h. PICK hi : Order(hi)
  BY DEF OrderInv
<1>2. /\ Removes /\ starved /\ borrowsLeft(call.node) /\ matched(call.node) /\ asksLeft(call.node)
      /\ isBorrowable(nodes[mate(call.node)])
      /\ stack' = stack /\ allocated' = allocated
  BY DEF RedistributeLeafLeft, borrowsLeft
<1>3. /\ nodes' = [nodes EXCEPT ![call.node] = taker, ![n.left] = giver, ![n.parent].keys[slot] = low]
      /\ Give(Restructured, c)
  BY DEF RedistributeLeafLeft
<1>4. /\ TypeInv /\ Flow /\ running /\ here = call.node /\ here \in NodeId /\ target = nodes[here] /\ isNode(nodes[here]) /\ nodes[here].leaf
      /\ size(n) \in Nat /\ size(n) < least /\ size(n) + 1 >= least /\ pc = "apply" /\ outer = stack /\ outer # << >>
      /\ l \in NodeId /\ l # here /\ isNode(nodes[l]) /\ nodes[l].leaf
      /\ size(nodes[l]) \in least .. (Fanout - 1)
      /\ nodes[here].parent = above /\ above \in live
      /\ nodes[here].left = l /\ Mates(settled, tops, live, above, place - 1, l, here)
  BY <1>0, <1>1, <1>2, StarvedFacts DEF ShapeInv
<1>5. /\ \A f \in {"leaf", "children", "parent", "left", "right"} : n[f] = nodes[here][f]
      /\ isNode(n)
  BY <1>2, <1>4, ErasedLinks, ErasedType DEF Removes
<1>6. n.left = l /\ n.parent = above /\ s = nodes[l] /\ isNode(s) /\ size(s) \in least .. (Fanout - 1) /\ isBorrowable(s)
  BY <1>2, <1>4, <1>5
<1>7. /\ nk \in Seq(KeyType) /\ size(n) = Len(nk) /\ sk \in Seq(KeyType) /\ size(s) = Len(sk)
      /\ DOMAIN n = fields /\ DOMAIN s = fields
  BY <1>5, <1>6 DEF isNode, size, fields
<1>8. d \in Nat /\ d >= 1 /\ d < Len(sk)
  <2>1. size(s) > Fanout \div 2 /\ size(s) < Fanout /\ size(s) \in Nat
    BY <1>6, <1>7, SizeAssumption DEF isBorrowable
  <2>2. d = (size(s) - size(n)) \div 2
    BY DEF excess
  <2> HIDE DEF d, s, n, sk, nk
  <2>3. d \in Nat /\ d >= 1 /\ d < size(s)
    BY <2>1, <2>2, <1>4, <1>7, BorrowSizes
  <2> QED BY <2>3, <1>7
<1>9. /\ DOMAIN taker = fields /\ DOMAIN giver = fields /\ taker.keys = keys /\ giver.keys = kept
      /\ taker.lowest = low /\ giver.lowest = s.lowest
      /\ \A f \in {"leaf", "parent", "left", "right", "children", "buffer"} : taker[f] = n[f] /\ giver[f] = s[f]
  <2> HIDE DEF keys, kept, low, k
  <2> QED BY <1>7 DEF fields
<1>10. k = Len(sk) - d /\ keys = drop(sk, k) \o nk /\ kept = take(sk, k) /\ low = keys[1] /\ c.key = low /\ c.type = "RedistributeLeft"
  BY <1>7
<1>11. nodes' = [t EXCEPT ![above].keys[slot] = low] /\ t = [nodes EXCEPT ![here] = taker, ![l] = giver]
  BY <1>3, <1>4, <1>6
<1>12. slot = place - 1
  <2>1. Last(outer).idx \in Nat /\ Last(outer).idx + 1 = place
    BY <1>1, <1>4, HereFacts
  <2>2. call.idx = frame.idx /\ frame = Last(outer)
    BY <1>4 DEF Flow, frame
  <2> QED BY <2>1, <2>2
<1>13. Based(B, h, hi) /\ B[here] = n /\ B[l] = s
  <2>1. /\ Based(shrunk, h, hi) /\ shrunk[here] = n /\ \A q \in NodeId \ {here} : shrunk[q] = nodes[q]
    BY <1>1, <1>2, <1>h, ShrunkBased
  <2>2. B[l] = nodes[l]
    BY <2>1, <1>4
  <2> QED BY <2>1, <2>2, <1>6
<1>14. u.keys = sk \o nk /\ u = chain(B[l], B[here])
  BY <1>13 DEF chain
<1> HIDE DEF u, B, t, taker, giver, c, low, keys, kept, d, k, slot
<1>15. k \in 1 .. (Len(sk) - 1) /\ k \in Nat /\ k < Len(sk)
  <2> DEFINE a == Len(sk)
  <2>1. a \in Nat /\ k = a - d
    BY <1>7, <1>10
  <2> HIDE DEF a
  <2>2. d \in Nat /\ d >= 1 /\ d < a
    BY <1>8 DEF a
  <2>3. k \in 1 .. (a - 1) /\ k \in Nat /\ k < a
    BY ONLY <2>1, <2>2
  <2> QED BY <2>3 DEF a
<1> HIDE DEF n, s
<1>16. Chained(u.keys, sk, nk) /\ Parted(u.keys, k, kept, keys)
  <2> DEFINE uk == u.keys
  <2>1. nk \in Seq(KeyType) /\ sk \in Seq(KeyType) /\ uk = sk \o nk
    BY <1>7, <1>14
  <2> HIDE DEF uk, nk, sk
  <2>2. Chained(uk, sk, nk) /\ Parted(uk, k, take(sk, k), drop(sk, k) \o nk)
    BY ONLY <2>1, <1>15, LastParted
  <2> QED BY ONLY <2>2, <1>10 DEF uk
<1>17. low = u.keys[k + 1] /\ k < Len(sk)
  <2> DEFINE uk == u.keys
             o == Len(uk)
  <2>1. k \in Nat /\ k < o /\ Len(keys) = o - k /\ \A j \in 1 .. (o - k) : keys[j] = uk[k + j]
    BY <1>16 DEF Parted, Tails
  <2>2. o \in Nat
    <3>1. uk \in Seq(KeyType)
      BY <1>7, <1>14
    <3> QED BY <3>1
  <2> HIDE DEF uk, o
  <2>3. 1 \in 1 .. (o - k)
    BY ONLY <2>1, <2>2
  <2>4. keys[1] = uk[k + 1]
    BY ONLY <2>1, <2>3
  <2> QED BY ONLY <2>4, <1>10, <1>15 DEF uk
<1>18. Brothers(B, tops, cuts, live, hi, above, place - 1, l, here)
  BY <1>1, <1>h, <1>4, <1>13, MatesBrothers
<1>19. JoinedLeaf(u, B[l], B[here]) /\ CutLeaf(u, giver, taker, k)
  <2>1. /\ B[l].leaf /\ B[here].leaf /\ Chained(u.keys, B[l].keys, B[here].keys)
    BY <1>4, <1>5, <1>6, <1>13, <1>16
  <2>2. /\ giver.leaf = B[l].leaf /\ taker.leaf = B[here].leaf /\ giver.children = B[l].children /\ taker.children = B[here].children
        /\ giver.buffer = B[l].buffer /\ taker.buffer = B[here].buffer
    BY <1>9, <1>13
  <2>3. Parted(u.keys, k, giver.keys, taker.keys)
    BY <1>9, <1>16
  <2> QED
    BY ONLY <2>1, <2>2, <2>3, <1>14, <1>18, PartedCut
<1>20. Overwrites(t, l, giver, here, taker)
  <2>1. l \in NodeId /\ here \in NodeId /\ l # here /\ TypeInv /\ DOMAIN giver = fields /\ DOMAIN taker = fields
    BY <1>4, <1>9
  <2> HIDE DEF l
  <2> QED BY <2>1, <1>11, TwoOverwritten
<1>21. Redealt(B, l, here, u, k, giver, taker, low)
  <2>1. taker.lowest = low /\ giver.lowest = B[l].lowest /\ giver.left = nodes[l].left /\ taker.left = nodes[here].left
    BY <1>5, <1>6, <1>9, <1>13
  <2>2. k < Len(B[l].keys)
    BY <1>13, <1>17
  <2> QED
    BY ONLY <2>1, <2>2, <1>17, <1>19 DEF Redealt
<1> DEFINE i == place - 1
<1>22. Mates(settled, tops, live, above, i, l, here) /\ here \in {l, here} /\ nodes' = [t EXCEPT ![above].keys[i] = low]
  BY <1>4, <1>11, <1>12
<1>23. Reaches(c, low, l, here, i)
  BY <1>10 DEF Reaches
<1>24. Redealt(shrunk, l, here, u, k, giver, taker, low)
  BY <1>21 DEF B
<1> HIDE DEF i, l
<1> QED
  BY ONLY OrderInv, ShapeInv', <1>1, <1>h, <1>2, <1>3, <1>20, <1>22, <1>23, <1>24, LeafShareOrder

\* A leaf takes the first entries of its right neighbour.
LEMMA RedistributeLeafRightOrder ==
  ASSUME OrderInv, ShapeInv', RedistributeLeafRight
  PROVE  OrderInv'
<1> DEFINE n == erased(target)
           s == nodes[n.right]
           sk == s.keys
           nk == n.keys
           d == excess(n, s)
           k == Len(nk) + d
           keys == nk \o take(sk, d)
           kept == drop(sk, d)
           low == sk[d + 1]
           taker == [n EXCEPT !.keys = keys, !.values = @ \o take(s.values, d)]
           giver == [s EXCEPT !.keys = kept, !.values = drop(@, d), !.lowest = low]
           t == [nodes EXCEPT ![call.node] = taker, ![n.right] = giver]
           c == [key |-> low, node |-> Nil, type |-> "RedistributeRight"]
           r == mate(here)
           slot == call.idx + 1
           B == shrunk
           u == chain(B[here], B[r])
<1>0. ShapeInv
  BY DEF OrderInv
<1>1. PICK h : Shape(h)
  BY <1>0 DEF ShapeInv
<1>h. PICK hi : Order(hi)
  BY DEF OrderInv
<1>2. /\ Removes /\ starved /\ borrowsRight(call.node) /\ matched(call.node) /\ ~asksLeft(call.node)
      /\ isBorrowable(nodes[mate(call.node)])
      /\ stack' = stack /\ allocated' = allocated
  BY DEF RedistributeLeafRight, borrowsRight
<1>3. /\ nodes' = [nodes EXCEPT ![call.node] = taker, ![n.right] = giver, ![n.parent].keys[slot] = low]
      /\ Give(Restructured, c)
  BY DEF RedistributeLeafRight
<1>4. /\ TypeInv /\ Flow /\ running /\ here = call.node /\ here \in NodeId /\ target = nodes[here] /\ isNode(nodes[here]) /\ nodes[here].leaf
      /\ size(n) \in Nat /\ size(n) < least /\ size(n) + 1 >= least /\ pc = "apply" /\ outer = stack /\ outer # << >>
      /\ r \in NodeId /\ r # here /\ isNode(nodes[r]) /\ nodes[r].leaf
      /\ size(nodes[r]) \in least .. (Fanout - 1)
      /\ nodes[here].parent = above /\ above \in live
      /\ nodes[here].right = r /\ Mates(settled, tops, live, above, place, here, r)
  BY <1>0, <1>1, <1>2, StarvedFacts DEF ShapeInv
<1>5. /\ \A f \in {"leaf", "children", "parent", "left", "right"} : n[f] = nodes[here][f]
      /\ isNode(n)
  BY <1>2, <1>4, ErasedLinks, ErasedType DEF Removes
<1>6. n.right = r /\ n.parent = above /\ s = nodes[r] /\ isNode(s) /\ size(s) \in least .. (Fanout - 1) /\ isBorrowable(s)
  BY <1>2, <1>4, <1>5
<1>7. /\ nk \in Seq(KeyType) /\ size(n) = Len(nk) /\ sk \in Seq(KeyType) /\ size(s) = Len(sk)
      /\ DOMAIN n = fields /\ DOMAIN s = fields
  BY <1>5, <1>6 DEF isNode, size, fields
<1>8. d \in Nat /\ d >= 1 /\ d < Len(sk)
  <2>1. size(s) > Fanout \div 2 /\ size(s) < Fanout /\ size(s) \in Nat
    BY <1>6, <1>7, SizeAssumption DEF isBorrowable
  <2>2. d = (size(s) - size(n)) \div 2
    BY DEF excess
  <2> HIDE DEF d, s, n, sk, nk
  <2>3. d \in Nat /\ d >= 1 /\ d < size(s)
    BY <2>1, <2>2, <1>4, <1>7, BorrowSizes
  <2> QED BY <2>3, <1>7
<1>9. /\ DOMAIN taker = fields /\ DOMAIN giver = fields /\ taker.keys = keys /\ giver.keys = kept
      /\ taker.lowest = n.lowest /\ giver.lowest = low
      /\ \A f \in {"leaf", "parent", "left", "right", "children", "buffer"} : taker[f] = n[f] /\ giver[f] = s[f]
  <2> HIDE DEF keys, kept, low
  <2> QED BY <1>7 DEF fields
<1>10. /\ k = Len(nk) + d /\ keys = nk \o take(sk, d) /\ kept = drop(sk, d) /\ low = sk[d + 1]
       /\ c.key = low /\ c.type = "RedistributeRight"
  OBVIOUS
<1>11. nodes' = [t EXCEPT ![above].keys[slot] = low] /\ t = [nodes EXCEPT ![here] = taker, ![r] = giver]
  BY <1>3, <1>4, <1>6
<1>12. slot = place
  <2>1. Last(outer).idx \in Nat /\ Last(outer).idx + 1 = place
    BY <1>1, <1>4, HereFacts
  <2>2. call.idx = frame.idx /\ frame = Last(outer)
    BY <1>4 DEF Flow, frame
  <2> QED BY <2>1, <2>2
<1>13. Based(B, h, hi) /\ B[here] = n /\ B[r] = s
  <2>1. /\ Based(shrunk, h, hi) /\ shrunk[here] = n /\ \A q \in NodeId \ {here} : shrunk[q] = nodes[q]
    BY <1>1, <1>2, <1>h, ShrunkBased
  <2>2. B[r] = nodes[r]
    BY <2>1, <1>4
  <2> QED BY <2>1, <2>2, <1>6
<1>14. u.keys = nk \o sk /\ u = chain(B[here], B[r])
  BY <1>13 DEF chain
<1> HIDE DEF u, B, t, taker, giver, c, low, keys, kept, d, k, slot
<1>15. d \in 1 .. (Len(sk) - 1) /\ k \in Nat /\ k >= Len(nk)
  <2> DEFINE a == Len(sk)
             b == Len(nk)
  <2>1. a \in Nat /\ b \in Nat /\ k = b + d
    BY <1>7, <1>10
  <2> HIDE DEF a, b
  <2>2. d \in Nat /\ d >= 1 /\ d < a
    BY <1>8 DEF a
  <2>3. d \in 1 .. (a - 1) /\ k \in Nat /\ k >= b
    BY ONLY <2>1, <2>2
  <2> QED BY <2>3 DEF a, b
<1> HIDE DEF n, s
<1>16. Chained(u.keys, nk, sk) /\ Parted(u.keys, k, keys, kept) /\ low = u.keys[k + 1]
  <2> DEFINE uk == u.keys
  <2>1. nk \in Seq(KeyType) /\ sk \in Seq(KeyType)
    BY <1>7
  <2>2. uk = nk \o sk
    BY <1>14
  <2> HIDE DEF uk, nk, sk
  <2>3. Parting(nk, sk, d, k, uk, keys, kept, low)
    BY ONLY <2>2, <1>10, <1>15 DEF Parting
  <2>4. Chained(uk, nk, sk) /\ Parted(uk, k, keys, kept) /\ low = uk[k + 1]
    BY ONLY <2>1, <2>3, FirstParted
  <2> QED BY ONLY <2>4 DEF uk
<1>18. Brothers(B, tops, cuts, live, hi, above, place, here, r)
  BY <1>1, <1>h, <1>4, <1>13, MatesBrothers
<1>19. JoinedLeaf(u, B[here], B[r]) /\ CutLeaf(u, taker, giver, k)
  <2>1. /\ B[r].leaf /\ B[here].leaf /\ Chained(u.keys, B[here].keys, B[r].keys)
    BY <1>4, <1>5, <1>6, <1>13, <1>16
  <2>2. /\ giver.leaf = B[r].leaf /\ taker.leaf = B[here].leaf /\ giver.children = B[r].children /\ taker.children = B[here].children
        /\ giver.buffer = B[r].buffer /\ taker.buffer = B[here].buffer
    BY <1>9, <1>13
  <2>3. Parted(u.keys, k, taker.keys, giver.keys)
    BY <1>9, <1>16
  <2> QED
    BY ONLY <2>1, <2>2, <2>3, <1>14, <1>18, PartedCut
<1>20. Overwrites(t, here, taker, r, giver)
  <2>1. r \in NodeId /\ here \in NodeId /\ r # here /\ TypeInv /\ DOMAIN giver = fields /\ DOMAIN taker = fields
    BY <1>4, <1>9
  <2> HIDE DEF r
  <2> QED BY <2>1, <1>11, TwoOverwritten
<1>21. Redealt(B, here, r, u, k, taker, giver, low)
  <2>1. taker.lowest = B[here].lowest /\ giver.lowest = low /\ giver.left = nodes[r].left /\ taker.left = nodes[here].left
    BY <1>5, <1>6, <1>9, <1>13
  <2>2. k >= Len(B[here].keys)
    BY <1>13, <1>15
  <2> QED
    BY ONLY <2>1, <2>2, <1>16, <1>19 DEF Redealt
<1> DEFINE i == place
<1>22. Mates(settled, tops, live, above, i, here, r) /\ here \in {here, r} /\ nodes' = [t EXCEPT ![above].keys[i] = low]
  BY <1>4, <1>11, <1>12
<1>23. Reaches(c, low, here, r, i)
  BY <1>10 DEF Reaches
<1>24. Redealt(shrunk, here, r, u, k, taker, giver, low)
  BY <1>21 DEF B
<1> HIDE DEF i, r
<1> QED
  BY ONLY OrderInv, ShapeInv', <1>1, <1>h, <1>2, <1>3, <1>20, <1>22, <1>23, <1>24, LeafShareOrder

-----------------------------------------------------------------------------
(* Merges *)

\* What a merge of l and r leaves of the two nodes and the rest of the tree.
UnitesOff(B, hi, l, r) ==
  /\ Fine(nodes'[l], B, hi, hi[r])
  /\ lft(B, l) # Nil => From(nodes'[l], B, hi, B[l].lowest)
  /\ nodes'[l].lowest = B[l].lowest
  /\ stems(nodes'[l], B, tops, {l, r})
  /\ \A q \in live \ {l, r} : Kept(nodes'[q], nodes[q])
  /\ \A q \in live \ {r} : nodes'[q].left # Nil => lft(settled, q) # Nil

\* Two nodes have become one.
LEMMA UniteReturnOrder ==
  ASSUME OrderInv, ShapeInv', running, NEW h, Shape(h), NEW hi, Order(hi), outer # << >>,
         NEW i, NEW l, NEW r, Mates(settled, tops, live, above, i, l, r), here \in {l, r},
         \/ change'.type = "MergeLeft" /\ i = place - 1
         \/ change'.type = "MergeRight" /\ i = place,
         pc' = "return", stack' = outer, change'.node = r,
         rootNode' = rootNode, orphans' = orphans, allocated' = allocated,
         NEW B, Based(B, h, hi), UnitesOff(B, hi, l, r)
  PROVE  OrderInv'
<1>0. TypeInv /\ Flow /\ Batches
  BY DEF OrderInv, ShapeInv
<1>1. /\ \A q \in NodeId : settled[q] = nodes[q]
      /\ live = allocated \ orphans /\ live \subseteq NodeId /\ Nil \notin live /\ Nil \notin NodeId
      /\ rootNode # Nil /\ tops = <<rootNode>>
  BY <1>0, RunningPlain, LiveIds
<1>2. /\ here \in live /\ here \in NodeId /\ here # Nil /\ above # here
      /\ place \in 1 .. deg(settled, tops, above) /\ kid(settled, tops, above, place) = here
      /\ h[above] = h[here] + 1 /\ h[here] \in Nat
      /\ above \in live /\ ~settled[above].leaf /\ Last(outer).idx \in Nat /\ Last(outer).idx + 1 = place
  BY <1>0, HereFacts
<1>3. /\ l \in live /\ r \in live /\ l # r /\ l # above /\ r # above /\ Tree(settled, tops, live, h)
      /\ h[l] = h[here] /\ h[r] = h[here]
  <2>1. Tree(settled, tops, live, h)
    BY DEF Shape
  <2>2. l \in live /\ r \in live /\ l # r /\ l # above /\ r # above
    BY <2>1, <1>1, MateFacts
  <2>3. h[l] = h[r]
    BY <2>1, <1>1, MateFacts
  <2> QED BY <2>1, <2>2, <2>3
<1>4. gone(change') = {r} /\ r \in allocated /\ r \notin orphans
  <2>1. change'.type \in {"MergeLeft", "MergeRight"}
    OBVIOUS
  <2> QED BY <2>1, <1>1, <1>3 DEF gone
<1>5. live' = live \ {r}
  <2>1. live' = (allocated' \ gone(change')) \ orphans'
    BY <1>0, SettledNext
  <2> QED BY <2>1, <1>1, <1>4
<1> DEFINE m == adjusted(nodes'[above], Last(outer).idx, change')
<1>6. /\ tops' = tops /\ cuts' = cuts /\ settled'[above] = m
      /\ \A q \in NodeId : q # above /\ q # r => settled'[q] = nodes'[q]
  <2>1. settled' = [q \in NodeId |-> IF q \in gone(change') THEN NewLeaf
                                     ELSE IF q = above THEN adjusted(nodes'[above], Last(outer).idx, change')
                                     ELSE nodes'[q]]
    BY <1>0, SettledNext
  <2>2. tops' = tops
    BY <1>1 DEF tops
  <2>3. cuts' = cuts
    <3>1. Len(tops) # 2
      BY <1>1
    <3> QED
      BY <3>1, <2>2 DEF cuts
  <2>4. above \in NodeId /\ above # r
    BY <1>1, <1>2, <1>3
  <2> QED
    BY <2>1, <2>2, <2>3, <2>4, <1>4
<1>7. Kept(nodes'[above], nodes[above])
  BY <1>2, <1>3 DEF UnitesOff
<1>8. /\ isNode(nodes'[above]) /\ isNode(nodes[above]) /\ ~nodes'[above].leaf /\ ~nodes[above].leaf
      /\ i \in 1 .. size(nodes'[above])
  <2>1. isNode(nodes'[above]) /\ isNode(nodes[above])
    BY <1>0, <1>1, <1>2 DEF ShapeInv, TypeInv, TypeOK, isHeap
  <2>2. ~nodes[above].leaf /\ ~nodes'[above].leaf
    BY <1>1, <1>2, <1>7 DEF Kept
  <2>3. deg(settled, tops, above) = Len(nodes[above].children)
    BY <1>1, <1>2 DEF deg, kids
  <2>4. nodes[above].keys \in Seq(KeyType) /\ Len(nodes[above].children) = Len(nodes[above].keys) + 1
    BY <2>1, <2>2 DEF isNode
  <2> DEFINE a == Len(nodes[above].keys)
  <2>5. a \in Nat /\ i \in 1 .. (a + 1) /\ i + 1 \in 1 .. (a + 1)
    BY <2>3, <2>4, <1>2 DEF Mates
  <2> HIDE DEF a
  <2>6. i \in 1 .. a
    BY <2>5
  <2> QED
    BY <2>1, <2>2, <2>6, <1>7 DEF a, size, Kept
<1>9. ParentDrops(nodes'[above], m, i) /\ m.lowest = nodes'[above].lowest /\ m.left = nodes'[above].left
  <2>1. \/ change'.type = "MergeLeft" /\ i = Last(outer).idx
        \/ change'.type = "MergeRight" /\ i = Last(outer).idx + 1
    <3>1. Last(outer).idx = place - 1
      BY <1>2
    <3> QED BY <3>1, <1>2
  <2> QED
    BY <2>1, <1>2, <1>8, AdjustedDrops
<1> HIDE DEF m
<1>10. ParentDrops(nodes[above], m, i) /\ m.lowest = nodes[above].lowest
  BY <1>7, <1>9 DEF ParentDrops, Kept
<1>11. /\ \A q \in live \ {here} : B[q] = nodes[q]
       /\ \A q \in live : lft(settled, q) # Nil <=> B[q].left # Nil
  BY <1>1 DEF Based, lft
<1>12. hi \in [NodeId \cup {Nil} -> Int] /\ hi[r] \in Int
  BY <1>1, <1>3 DEF Order
<1>ho. PICK ho : ho = [hi EXCEPT ![l] = hi[r]]
  OBVIOUS
<1>13. /\ ho \in [NodeId \cup {Nil} -> Int] /\ ho[l] = hi[r]
       /\ \A q \in (live \cup {Nil}) \ {l} : ho[q] = hi[q]
  BY <1>ho, <1>1, <1>3, <1>12
<1>14. Unites(B, tops, cuts, live, hi, settled', ho, above, i, l, r)
  <2>1. settled'[l] = nodes'[l]
    BY <1>1, <1>3, <1>6
  <2>2. ParentDrops(nd(B, tops, cuts, above), nd(settled', tops, cuts, above), i)
    <3>1. nd(B, tops, cuts, above) = nodes[above] /\ nd(settled', tops, cuts, above) = m
      BY <1>1, <1>2, <1>6, <1>11 DEF nd
    <3> QED
      BY <3>1, <1>10
  <2>3. \A q \in live \ {l, r, above} : likened(settled'[q], B[q])
    BY <1>1, <1>6, <1>11 DEF UnitesOff, likened, Kept
  <2>4. \A q \in live \ {l, r} : settled'[q].lowest = B[q].lowest
    <3> TAKE q \in live \ {l, r}
    <3>1. CASE q = above
      BY <3>1, <1>2, <1>6, <1>10, <1>11
    <3>2. CASE q # above
      BY <3>2, <1>1, <1>6, <1>11 DEF UnitesOff, Kept
    <3> QED BY <3>1, <3>2
  <2>5. \A q \in live \ {r} : settled'[q].left # Nil => B[q].left # Nil
    <3> TAKE q \in live \ {r}
    <3>1. settled'[q].left = nodes'[q].left
      BY <1>1, <1>6, <1>9
    <3>2. nodes'[q].left # Nil => lft(settled, q) # Nil
      BY DEF UnitesOff
    <3> QED BY <3>1, <3>2, <1>11
  <2>6. /\ Fine(settled'[l], B, hi, hi[r])
        /\ lft(B, l) # Nil => From(settled'[l], B, hi, B[l].lowest)
        /\ settled'[l].lowest = B[l].lowest
        /\ stems(settled'[l], B, tops, {l, r})
    BY <2>1 DEF UnitesOff
  <2> QED
    BY ONLY <1>13, <2>2, <2>3, <2>4, <2>5, <2>6 DEF Unites
<1>15. Ordered(settled', tops', cuts', live', ho)
  <2>1. Tree(B, tops, live, h) /\ Ordered(B, tops, cuts, live, hi)
    BY DEF Based
  <2>2. Mates(B, tops, live, above, i, l, r)
    <3>1. kids(B, tops, above) = kids(settled, tops, above)
      BY <1>2 DEF Based
    <3> QED BY <3>1 DEF Mates, deg, kid
  <2>3. Ordered(settled', tops, cuts, live \ {r}, ho)
    BY ONLY <1>1, <1>14, <2>1, <2>2, UniteOrder
  <2> QED
    BY <1>5, <1>6, <2>3
<1>16. \A q \in live : h[q] > h[here] => q # here /\ q # l /\ q # r
  BY <1>2, <1>3
<1>17. \A q \in live : h[q] > h[here] => settled'[q].lowest = settled[q].lowest /\ ho[q] = hi[q]
  <2> TAKE q \in live
  <2> HAVE h[q] > h[here]
  <2>1. q \in live \ {here, l, r} /\ q \in NodeId
    BY <1>1, <1>16
  <2>2. settled'[q].lowest = B[q].lowest
    BY <2>1, <1>14 DEF Unites
  <2> QED
    BY <1>1, <1>11, <1>13, <2>1, <2>2
<1>18. \A q \in live : h[q] > h[above] => nodes'[q].keys = nodes[q].keys /\ nodes'[q].buffer = nodes[q].buffer
  <2>1. \A q \in live : h[q] > h[above] => q \notin {l, r}
    BY <1>2, <1>3
  <2> QED
    BY <2>1 DEF UnitesOff, Kept
<1>19. outer # << >> => /\ nodes'[above].children = nodes[above].children /\ here \in allocated'
                        /\ Last(outer).batch \subseteq messagesFor(nodes'[above], Last(outer).idx)
  <2>1. here \in allocated'
    BY <1>1, <1>2
  <2>2. /\ nodes'[above].children = nodes[above].children
        /\ Last(outer).batch \subseteq messagesFor(nodes'[above], Last(outer).idx)
    BY <1>0, <1>7, CallerStays
  <2> QED
    BY <2>1, <2>2
<1>20. Batches' /\ Order(ho)'
  BY ONLY <1>0, <1>13, <1>15, <1>17, <1>18, <1>19, ReturnOrder, running, Shape(h), Order(hi), pc' = "return", stack' = outer
<1> QED
  BY <1>20 DEF OrderInv

\* The lowest key and the messages that a merge leaves.
LEMMA MergedRest ==
  ASSUME NEW t, isTable(t), NEW l \in NodeId, NEW r \in NodeId, NEW seam, NEW w, w = merged(t, l, r, seam)
  PROVE  w[l].lowest = t[l].lowest /\ w[l].buffer = overlay(t[r].buffer, t[l].buffer)
<1> DEFINE joined == [t[l] EXCEPT !.keys = @ \o seam \o t[r].keys,
                                  !.values = @ \o t[r].values,
                                  !.children = @ \o t[r].children,
                                  !.buffer = overlay(t[r].buffer, @),
                                  !.right = t[r].right]
           u == [t EXCEPT ![l] = joined]
           v == linkBack(u, t[r].right, l)
           S == ToSet(joined.children)
           x == reparent(v, S, l)
<1>1. w = x
  BY DEF merged
<1>2. /\ DOMAIN joined = fields
      /\ joined.lowest = t[l].lowest /\ joined.buffer = overlay(t[r].buffer, t[l].buffer)
  BY DEF isTable, fields
<1> HIDE DEF joined
<1>3. isTable(u) /\ \A q \in NodeId : u[q] = IF q = l THEN joined ELSE t[q]
  BY <1>2, TableUpdate
<1> HIDE DEF u
<1>4. isTable(v) /\ \A q \in NodeId : \A f \in fields \ {"left"} : v[q][f] = u[q][f]
  BY <1>3, LinkBackFields
<1> HIDE DEF v
<1>5. \A q \in NodeId : \A f \in fields \ {"parent"} : x[q][f] = v[q][f]
  BY <1>4, ReparentFields
<1> HIDE DEF x, S
<1>6. \A f \in {"lowest", "buffer"} : x[l][f] = u[l][f]
  <2>1. {"lowest", "buffer"} \subseteq (fields \ {"parent"}) \cap (fields \ {"left"})
    BY DEF fields
  <2> QED BY <2>1, <1>4, <1>5
<1> QED
  BY <1>1, <1>2, <1>3, <1>6

\* Node r is on its way into node l, after the running node has changed within its interval.
Merges(t, l, r, seam, i) ==
  /\ isTable(t) /\ nodes' = merged(t, l, r, seam)
  /\ \A q \in NodeId : q # here => t[q] = nodes[q]
  /\ \A q \in NodeId : t[q].left = nodes[q].left /\ t[q].right = nodes[q].right
  /\ change'.node = r
  /\ \/ change'.type = "MergeLeft" /\ i = place - 1
     \/ change'.type = "MergeRight" /\ i = place

\* Two neighbours become one that is in order.
LEMMA JoinOrder ==
  ASSUME OrderInv, ShapeInv', running, NEW h, Shape(h), NEW hi, Order(hi), outer # << >>,
         NEW i, NEW l, NEW r, Mates(settled, tops, live, above, i, l, r), here \in {l, r},
         NEW t, NEW seam, Merges(t, l, r, seam, i), Based(t, h, hi),
         pc' = "return", stack' = outer,
         rootNode' = rootNode, orphans' = orphans, allocated' = allocated,
         Fine(nodes'[l], t, hi, hi[r]),
         lft(t, l) # Nil => From(nodes'[l], t, hi, t[l].lowest),
         stems(nodes'[l], t, tops, {l, r})
  PROVE  OrderInv'
<1>0. TypeInv /\ Flow
  BY DEF OrderInv, ShapeInv
<1>1. (\A q \in NodeId : settled[q] = nodes[q]) /\ live \subseteq NodeId /\ Nil \notin live
  BY <1>0, RunningPlain, LiveIds
<1>2. l \in live /\ r \in live /\ l # r
  <2>1. Tree(settled, tops, live, h)
    BY DEF Shape
  <2> QED BY <2>1, <1>1, MateFacts
<1>3. isTable(t) /\ l \in NodeId /\ r \in NodeId /\ nodes' = merged(t, l, r, seam)
  BY <1>1, <1>2 DEF Merges
<1>4. MovedInto(nodes', t, l, r, seam)
  BY <1>3, MergedFields
<1>5. nodes'[l].lowest = t[l].lowest
  BY <1>3, MergedRest
<1>6. \A q \in live \ {l, r} : Kept(nodes'[q], nodes[q])
  <2> TAKE q \in live \ {l, r}
  <2>1. t[q] = nodes[q] /\ q \in NodeId /\ q # l
    BY <1>1 DEF Merges
  <2>2. {"leaf", "keys", "children", "buffer", "lowest"} \subseteq fields \ {"left", "parent"}
    BY DEF fields
  <2>3. \A f \in fields \ {"left", "parent"} : nodes'[q][f] = t[q][f]
    BY <2>1, <1>4 DEF MovedInto
  <2> QED
    BY <2>1, <2>2, <2>3 DEF Kept
<1>7. \A q \in live \ {r} : nodes'[q].left # Nil => lft(settled, q) # Nil
  <2> TAKE q \in live \ {r}
  <2>1. q \in NodeId /\ q # Nil
    BY <1>1
  <2>2. nodes'[q].left = IF q = t[r].right THEN l ELSE t[q].left
    BY <2>1, <1>4 DEF MovedInto
  <2>3. t[r].right = nodes[r].right /\ t[q].left = nodes[q].left
    BY <2>1, <1>3 DEF Merges
  <2>4. CASE q = nodes[r].right
    BY <2>1, <2>4, <1>0, <1>2, RightHasLeft
  <2>5. CASE q # nodes[r].right
    BY <2>1, <2>2, <2>3, <2>5, <1>1 DEF lft
  <2> QED BY <2>4, <2>5
<1>8. UnitesOff(t, hi, l, r)
  BY <1>5, <1>6, <1>7 DEF UnitesOff
<1>9. /\ change'.node = r
      /\ \/ change'.type = "MergeLeft" /\ i = place - 1
         \/ change'.type = "MergeRight" /\ i = place
  BY DEF Merges
<1> QED
  BY ONLY OrderInv, ShapeInv', running, Shape(h), Order(hi), outer # << >>, Mates(settled, tops, live, above, i, l, r), here \in {l, r},
          pc' = "return", stack' = outer, rootNode' = rootNode, orphans' = orphans, allocated' = allocated,
          Based(t, h, hi), <1>8, <1>9, UniteReturnOrder

\* An internal node takes in its right neighbour, with the pivot between them.
LEMMA InternalJoinOrder ==
  ASSUME OrderInv, ShapeInv', Underflowed, NEW h, Shape(h), NEW hi, Order(hi), matched(frame.node),
         NEW i, NEW l, NEW r, Mates(settled, tops, live, above, i, l, r),
         here \in {l, r}, mate(here) \in {l, r},
         NEW e, e = nodes[above].keys[i], nodes' = merged(nodes, l, r, <<e>>),
         NEW c, c.node = r, Give(err, c),
         \/ c.type = "MergeLeft" /\ i = place - 1
         \/ c.type = "MergeRight" /\ i = place,
         stack' = Front(stack), allocated' = allocated
  PROVE  OrderInv'
<1>0. ShapeInv
  BY DEF OrderInv
<1>1. /\ TypeInv /\ Flow /\ running /\ here = frame.node /\ outer = Front(stack) /\ outer # << >>
      /\ here \in live /\ here \in NodeId /\ isNode(nodes[here]) /\ ~nodes[here].leaf
      /\ mate(here) \in NodeId /\ mate(here) # here /\ isNode(nodes[mate(here)]) /\ ~nodes[mate(here)].leaf
  BY <1>0, UnderflowFacts DEF ShapeInv
<1>2. (\A q \in NodeId : settled[q] = nodes[q]) /\ live \subseteq NodeId /\ Nil \notin live
  BY <1>1, RunningPlain, LiveIds
<1>3. above \in live /\ above \in NodeId /\ above # Nil
  BY <1>1, <1>2, HereFacts
<1>4. l \in live /\ r \in live /\ l # r /\ l \in NodeId /\ r \in NodeId
  <2>1. Tree(settled, tops, live, h)
    BY DEF Shape
  <2> QED BY <2>1, <1>2, MateFacts
<1>5. (l = here /\ r = mate(here)) \/ (l = mate(here) /\ r = here)
  BY <1>1, <1>4
<1>6. /\ isNode(nodes[l]) /\ ~nodes[l].leaf /\ isNode(nodes[r]) /\ ~nodes[r].leaf
  BY <1>1, <1>5
<1>7. pc' = "return" /\ stack' = outer /\ change' = c /\ rootNode' = rootNode /\ orphans' = orphans /\ allocated' = allocated
  BY <1>1 DEF Give, history
<1>8. Based(nodes, h, hi)
  BY <1>1, PlainBase
<1>9. Brothers(nodes, tops, cuts, live, hi, above, i, l, r) /\ l # Nil /\ r # Nil
  BY <1>1, <1>3, <1>8, MatesBrothers
<1>10. isTable(nodes)
  BY <1>1, HeapTable DEF TypeInv, TypeOK
<1>11. /\ nodes[r].lowest \in Int /\ hi[l] \in Int /\ e \in Int
       /\ hi[l] < nodes[r].lowest /\ hi[l] < e /\ e <= nodes[r].lowest
  <2>1. nd(nodes, tops, cuts, above) = nodes[above]
    BY <1>3 DEF nd
  <2> QED BY <2>1, <1>9, SeamBetween
<1>12. e \in KeyType
  <2>1. i \in 1 .. Len(nodes[above].keys)
    <3>1. nd(nodes, tops, cuts, above) = nodes[above]
      BY <1>3 DEF nd
    <3> QED BY <3>1, <1>9 DEF Brothers
  <2>2. nodes[above].keys \in Seq(KeyType)
    BY <1>1, <1>3 DEF TypeInv, TypeOK, isHeap, isNode
  <2> QED BY <2>1, <2>2
<1> DEFINE sk == nodes[l].keys
           sc == nodes[l].children
           nk == nodes[r].keys
           nc == nodes[r].children
           u == nodes'[l]
<1>13. /\ u.leaf = nodes[l].leaf /\ u.keys = sk \o <<e>> \o nk /\ u.children = sc \o nc
       /\ u.buffer = overlay(nodes[r].buffer, nodes[l].buffer)
  <2>1. MovedInto(nodes', nodes, l, r, <<e>>)
    BY <1>4, <1>10, MergedFields
  <2>2. u.buffer = overlay(nodes[r].buffer, nodes[l].buffer)
    BY <1>4, <1>10, MergedRest
  <2> QED BY <2>1, <2>2 DEF MovedInto
<1>14. sk \in Seq(KeyType) /\ nk \in Seq(KeyType) /\ sc \in Seq(NodeId) /\ nc \in Seq(NodeId)
  BY <1>6 DEF isNode
<1> HIDE DEF sk, sc, nk, nc, u
<1>15. Strung(u.keys, sk, e, nk) /\ Chained(u.children, sc, nc)
  <2>1. Strung(sk \o <<e>> \o nk, sk, e, nk)
    BY ONLY <1>12, <1>14, ConcatStrung
  <2>2. Chained(sc \o nc, sc, nc)
    BY ONLY <1>14, ConcatChained
  <2>3. u.keys = sk \o <<e>> \o nk /\ u.children = sc \o nc
    BY <1>13
  <2> QED BY ONLY <2>1, <2>2, <2>3
<1>16. JoinedInternal(u, nodes[l], e, nodes[r])
  <2>1. u.leaf \in BOOLEAN /\ ~u.leaf
    BY <1>6, <1>13 DEF isNode
  <2>2. DOMAIN u.buffer = DOMAIN nodes[l].buffer \cup DOMAIN nodes[r].buffer
    BY <1>13 DEF overlay
  <2> QED
    BY <2>1, <2>2, <1>6, <1>15 DEF JoinedInternal, sk, sc, nk, nc
<1>17. /\ Fine(u, nodes, hi, hi[r])
       /\ \A z \in Int : From(nodes[l], nodes, hi, z) => From(u, nodes, hi, z)
  BY ONLY <1>9, <1>11, <1>16, JoinedBrothers
<1>18. lft(nodes, l) # Nil => From(u, nodes, hi, nodes[l].lowest)
  <2>1. lft(nodes, l) # Nil => From(nodes[l], nodes, hi, nodes[l].lowest)
    BY <1>9 DEF Brothers
  <2>2. nodes[l].lowest \in Int
    BY <1>9 DEF Brothers
  <2> QED BY <2>1, <2>2, <1>17
<1>19. stems(u, nodes, tops, {l, r})
  <2>1. partOf(u.children, u.children)
    BY DEF partOf
  <2>2. Len(nodes[l].children) \in Nat /\ Len(nodes[r].children) \in Nat
    BY <1>14 DEF sc, nc
  <2>3. Chained(u.children, nodes[l].children, nodes[r].children)
    BY <1>15 DEF sc, nc
  <2> QED BY <2>1, <2>2, <2>3, <1>9, JoinedStems
<1>20. Merges(nodes, l, r, <<e>>, i)
  BY <1>7, <1>10 DEF Merges
<1> QED
  BY ONLY OrderInv, ShapeInv', Shape(h), Order(hi), Mates(settled, tops, live, above, i, l, r), here \in {l, r},
          <1>1, <1>7, <1>8, <1>17, <1>18, <1>19, <1>20, JoinOrder DEF u

\* Two leaves become one.
LEMMA LeafJoinOrder ==
  ASSUME OrderInv, ShapeInv', Removes, starved, NEW h, Shape(h), NEW hi, Order(hi), matched(call.node),
         NEW i, NEW l, NEW r, Mates(settled, tops, live, above, i, l, r),
         here \in {l, r}, mate(here) \in {l, r}, nodes' = merged(shrunk, l, r, << >>),
         NEW c, c.node = r, Give(Restructured, c),
         \/ c.type = "MergeLeft" /\ i = place - 1
         \/ c.type = "MergeRight" /\ i = place,
         stack' = stack, allocated' = allocated
  PROVE  OrderInv'
<1>0. ShapeInv
  BY DEF OrderInv
<1>1. /\ TypeInv /\ Flow /\ running /\ here = call.node /\ outer = stack /\ outer # << >>
      /\ target = nodes[here] /\ here \in live /\ here \in NodeId /\ isNode(nodes[here]) /\ nodes[here].leaf
      /\ above \in live /\ above \in NodeId
      /\ mate(here) \in NodeId /\ mate(here) # here /\ isNode(nodes[mate(here)]) /\ nodes[mate(here)].leaf
  BY <1>0, StarvedFacts DEF ShapeInv
<1> DEFINE t == shrunk
<1>2. /\ Based(t, h, hi) /\ t[here] = erased(target)
      /\ \A q \in NodeId \ {here} : t[q] = nodes[q]
      /\ \A q \in NodeId : \A f \in {"leaf", "children", "parent", "left", "right"} : t[q][f] = nodes[q][f]
  BY ShrunkBased
<1>3. (\A q \in NodeId : settled[q] = nodes[q]) /\ live \subseteq NodeId /\ Nil \notin live
  BY <1>1, RunningPlain, LiveIds
<1>4. l \in live /\ r \in live /\ l # r /\ l \in NodeId /\ r \in NodeId
  <2>1. Tree(settled, tops, live, h)
    BY DEF Shape
  <2> QED BY <2>1, <1>3, MateFacts
<1>5. (l = here /\ r = mate(here)) \/ (l = mate(here) /\ r = here)
  BY <1>1, <1>4
<1>6. isNode(erased(target))
  BY <1>1, ErasedType DEF Removes
<1>7. isTable(t)
  <2>1. isTable(nodes)
    BY <1>1, HeapTable DEF TypeInv, TypeOK
  <2>2. DOMAIN erased(target) = fields
    BY <1>6 DEF isNode, fields
  <2>3. t = [nodes EXCEPT ![here] = erased(target)]
    BY <1>1 DEF shrunk
  <2> QED BY <2>1, <2>2, <2>3, <1>1 DEF isTable
<1>8. isNode(t[l]) /\ isNode(t[r]) /\ t[l].leaf = TRUE /\ t[r].leaf = TRUE
  <2>1. isNode(t[here]) /\ isNode(t[mate(here)])
    BY <1>1, <1>2, <1>6
  <2>2. nodes[here].leaf = TRUE /\ nodes[mate(here)].leaf = TRUE
    BY <1>1 DEF isNode
  <2>3. t[here].leaf = TRUE /\ t[mate(here)].leaf = TRUE
    BY <2>2, <1>1, <1>2
  <2> QED BY <2>1, <2>3, <1>5
<1>9. pc' = "return" /\ stack' = outer /\ change' = c /\ rootNode' = rootNode /\ orphans' = orphans /\ allocated' = allocated
  BY <1>1 DEF Give, history
<1>10. nodes' = merged(t, l, r, << >>)
  OBVIOUS
<1> HIDE DEF t
<1>11. Brothers(t, tops, cuts, live, hi, above, i, l, r) /\ l # Nil /\ r # Nil
  BY <1>1, <1>2, MatesBrothers
<1> DEFINE sk == t[l].keys
           sc == t[l].children
           nk == t[r].keys
           nc == t[r].children
           u == nodes'[l]
           none == << >>
<1>12. none = << >>
  OBVIOUS
<1>13. /\ u.leaf = t[l].leaf /\ u.keys = sk \o << >> \o nk /\ u.children = sc \o nc
       /\ u.buffer = overlay(t[r].buffer, t[l].buffer)
  <2> HIDE DEF none
  <2>0. nodes' = merged(t, l, r, none)
    BY <1>10, <1>12
  <2>1. MovedInto(nodes', t, l, r, none)
    BY <2>0, <1>4, <1>7, MergedFields
  <2>2. u.buffer = overlay(t[r].buffer, t[l].buffer)
    BY <2>0, <1>4, <1>7, MergedRest
  <2>3. u.leaf = t[l].leaf /\ u.keys = sk \o none \o nk /\ u.children = sc \o nc
    BY <2>1 DEF MovedInto
  <2> QED BY <2>2, <2>3, <1>12
<1>14. sk \in Seq(KeyType) /\ nk \in Seq(KeyType) /\ sc \in Seq(NodeId) /\ nc \in Seq(NodeId)
  BY <1>8 DEF isNode
<1>15. Len(sc) = 0 /\ Len(nc) = 0 /\ DOMAIN t[l].buffer = {} /\ DOMAIN t[r].buffer = {}
  <2>1. numeric(t[l]) /\ numeric(t[r])
    BY <1>11 DEF Brothers, Fine
  <2> QED BY <2>1, <1>8 DEF numeric
<1> HIDE DEF sk, sc, nk, nc, u, none
<1>16. Chained(u.keys, sk, nk)
  <2>1. Chained(sk \o nk, sk, nk)
    BY ONLY <1>14, ConcatChained
  <2>2. sk \o << >> = sk
    BY <1>14
  <2>3. u.keys = sk \o nk
    BY ONLY <2>2, <1>13
  <2> QED BY ONLY <2>1, <2>3
<1>17. Len(u.children) = 0
  <2>1. Len(sc \o nc) = 0
    BY <1>14, <1>15
  <2> QED BY <2>1, <1>13
<1>18. JoinedLeaf(u, t[l], t[r])
  <2>1. u.leaf = TRUE
    BY <1>8, <1>13
  <2>2. DOMAIN u.buffer = {}
    BY <1>13, <1>15 DEF overlay
  <2> QED
    BY <2>1, <2>2, <1>8, <1>16, <1>17 DEF JoinedLeaf, sk, nk
<1>19. /\ Fine(u, t, hi, hi[r])
       /\ \A z \in Int : z <= t[r].lowest /\ From(t[l], t, hi, z) => From(u, t, hi, z)
  BY ONLY <1>11, <1>18, JoinedLeaves
<1>20. lft(t, l) # Nil => From(u, t, hi, t[l].lowest)
  <2>1. /\ lft(t, l) # Nil => From(t[l], t, hi, t[l].lowest) /\ t[l].lowest <= hi[l]
        /\ t[l].lowest \in Int
    BY <1>11 DEF Brothers
  <2>2. hi[l] \in Int /\ t[r].lowest \in Int /\ hi[l] < t[r].lowest
    BY <1>11, SeamBetween
  <2>3. lft(t, l) # Nil => t[l].lowest <= t[r].lowest
    <3> DEFINE x == t[l].lowest
               y == hi[l]
               z == t[r].lowest
    <3> HIDE DEF x, y, z
    <3> QED BY ONLY <2>1, <2>2 DEF x, y, z
  <2> QED BY <2>1, <2>3, <1>19
<1>21. stems(u, t, tops, {l, r})
  BY <1>17 DEF stems
<1>22. Merges(t, l, r, << >>, i)
  BY <1>2, <1>7, <1>9, <1>10 DEF Merges
<1> QED
  BY ONLY OrderInv, ShapeInv', Shape(h), Order(hi), Mates(settled, tops, live, above, i, l, r), here \in {l, r},
          <1>1, <1>2, <1>9, <1>19, <1>20, <1>21, <1>22, JoinOrder DEF u

\* An internal node finds its own place from its lowest key.
LEMMA OwnPlace ==
  ASSUME OrderInv, pc = "flush", Underflowed, NEW h, Shape(h), NEW hi, Order(hi)
  PROVE  /\ nodes[here].parent = above /\ above \in live /\ here = frame.node /\ running
         /\ indexInParent(nodes[here]) = place - 1 /\ place \in Nat
<1>0. ShapeInv
  BY DEF OrderInv
<1>1. /\ TypeInv /\ Flow /\ running /\ here = frame.node /\ outer # << >> /\ here \in live /\ here \in NodeId
  <2>1. TypeInv /\ Flow /\ running /\ here = frame.node
    BY <1>0 DEF ShapeInv, running, here
  <2>2. /\ here \in live /\ here \in NodeId /\ up(settled, here) = above /\ (outer = << >> => above = Nil)
        /\ settled[here] = nodes[here]
    BY <2>1, HereFacts, RunningPlain
  <2>3. ~isRoot(nodes[here])
    BY <2>1 DEF Underflowed, flusher
  <2> QED
    BY <2>1, <2>2, <2>3 DEF up, isRoot
<1>2. (\A q \in NodeId : settled[q] = nodes[q]) /\ live \subseteq NodeId /\ Nil \notin live
  BY <1>1, RunningPlain, LiveIds
<1>3. above \in live /\ above \in NodeId /\ above # Nil
  BY <1>1, <1>2, HereFacts
<1>4. /\ Kin(settled, tops, cuts, live, hi, above, place, here)
      /\ place \in Nat /\ nd(settled, tops, cuts, above).children = kids(settled, tops, above)
      /\ Tree(settled, tops, live, h) /\ place \in 1 .. deg(settled, tops, above) /\ here = kid(settled, tops, above, place)
  BY <1>1, HereKin
<1>5. nodes[here].parent = above
  <2>1. up(settled, here) = above
    BY <1>1, <1>3, HereFacts
  <2> QED BY <2>1, <1>1, <1>2 DEF up
<1>6. nd(settled, tops, cuts, above) = nodes[above]
  BY <1>2, <1>3 DEF nd
<1> DEFINE s == nodes[above].keys
           k == nodes[here].lowest
           a == Len(s)
           b == hi[here]
<1>7. k <= b /\ k \in Int /\ b \in Int
  <2>1. Len(stack) \in 1 .. Len(stack) /\ frame = stack[Len(stack)]
    <3>1. Len(outer) \in Nat /\ Len(outer) > 0 /\ Len(outer) <= Len(stack) /\ Len(stack) \in Nat
      BY <1>1, OuterFacts
    <3>2. Len(stack) \in 1 .. Len(stack)
      BY <3>1
    <3> QED BY <3>2 DEF frame, Last
  <2>2. settled[stack[Len(stack)].node].lowest <= hi[stack[Len(stack)].node]
    BY <2>1 DEF Order, Control
  <2> QED
    BY <2>1, <2>2, <1>1, <1>2, <1>4 DEF Kin
<1>8. place < a + 1 => b < s[place]
  <2>1. /\ place < Len(nodes[above].children) => hi[here] < nodes[above].keys[place]
    BY <1>4, <1>6 DEF Kin
  <2>2. Len(nodes[above].children) = Len(s) + 1
    <3>1. Fine(nodes[above], settled, hi, hi[above]) /\ Len(nodes[above].children) > 0
      BY <1>4, <1>6 DEF Kin
    <3> QED BY <3>1 DEF Fine, numeric
  <2> QED BY <2>1, <2>2
<1>9. place > 1 => s[place - 1] <= k
  BY <1>1, <1>2, <1>4, <1>6 DEF Kin
<1>10. s \in Seq(KeyType) /\ ascending(s) /\ a \in Nat /\ place \in 1 .. (a + 1) /\ (\A j \in 1 .. a : s[j] \in Int)
  <2>1. Fine(nodes[above], settled, hi, hi[above]) /\ Len(nodes[above].children) > 0 /\ place \in 1 .. Len(nodes[above].children)
    BY <1>4, <1>6 DEF Kin
  <2>2. s \in Seq(KeyType)
    BY <1>1, <1>3 DEF TypeInv, TypeOK, isHeap, isNode
  <2> QED
    BY <2>1, <2>2 DEF Fine, numeric, integers
<1> HIDE DEF s, k, a, b
<1>11. upperBound(s, k) = place - 1
  <2>1. place - 1 \in 0 .. a /\ (place - 1 > 0 => place > 1) /\ (place - 1 < a => place < a + 1) /\ (place - 1) + 1 = place
    BY <1>4, <1>10
  <2>2. place - 1 > 0 => s[place - 1] <= k
    BY <2>1, <1>9
  <2>3. place - 1 < a => k < s[(place - 1) + 1]
    <3> SUFFICES ASSUME place - 1 < a PROVE k < s[place]
      BY <2>1
    <3>1. b < s[place] /\ place \in 1 .. a
      BY <2>1, <1>8, <1>10
    <3> QED BY <3>1, <1>7, <1>10
  <2> QED
    BY <2>1, <2>2, <2>3, <1>7, <1>10, BetweenPivots DEF a
<1> QED
  BY <1>1, <1>3, <1>4, <1>5, <1>11 DEF indexInParent, s, k

\* An internal node moves into its left neighbour.
LEMMA MergeInternalLeftOrder ==
  ASSUME OrderInv, ShapeInv', MergeInternalLeft
  PROVE  OrderInv'
<1> DEFINE n == flusher
           k == indexInParent(n)
           e == nodes[n.parent].keys[k]
           c == [key |-> NoKey, node |-> frame.node, type |-> "MergeLeft"]
           l == mate(here)
           i == place - 1
<1>0. ShapeInv
  BY DEF OrderInv
<1>1. PICK h : Shape(h)
  BY <1>0 DEF ShapeInv
<1>h. PICK hi : Order(hi)
  BY DEF OrderInv
<1>2. /\ Underflowed /\ pc = "flush" /\ matched(frame.node) /\ asksLeft(frame.node)
      /\ nodes' = merged(nodes, n.left, frame.node, <<e>>) /\ Give(err, c)
      /\ stack' = Front(stack) /\ allocated' = allocated
  BY DEF MergeInternalLeft, mergesLeft, Underflowed, FlushDone
<1>3. /\ here = frame.node /\ n = nodes[here] /\ nodes[here].left = l
      /\ Mates(settled, tops, live, above, place - 1, l, here)
  BY <1>0, <1>1, <1>2, UnderflowFacts
<1>4. nodes[here].parent = above /\ k = place - 1
  BY <1>1, <1>h, <1>2, <1>3, OwnPlace
<1>5. e = nodes[above].keys[i] /\ nodes' = merged(nodes, l, here, <<e>>)
  BY <1>2, <1>3, <1>4
<1>6. /\ Mates(settled, tops, live, above, i, l, here) /\ here \in {l, here} /\ mate(here) \in {l, here}
      /\ c.node = here /\ c.type = "MergeLeft" /\ i = place - 1
  BY <1>3
<1> HIDE DEF i, l, c, e
<1> QED BY ONLY OrderInv, ShapeInv', <1>1, <1>h, <1>2, <1>5, <1>6, InternalJoinOrder

\* An internal node takes in its right neighbour.
LEMMA MergeInternalRightOrder ==
  ASSUME OrderInv, ShapeInv', MergeInternalRight
  PROVE  OrderInv'
<1> DEFINE n == flusher
           k == indexInParent(n) + 1
           e == nodes[n.parent].keys[k]
           c == [key |-> NoKey, node |-> n.right, type |-> "MergeRight"]
           r == mate(here)
           i == place
<1>0. ShapeInv
  BY DEF OrderInv
<1>1. PICK h : Shape(h)
  BY <1>0 DEF ShapeInv
<1>h. PICK hi : Order(hi)
  BY DEF OrderInv
<1>2. /\ Underflowed /\ pc = "flush" /\ matched(frame.node) /\ ~asksLeft(frame.node)
      /\ nodes' = merged(nodes, frame.node, n.right, <<e>>) /\ Give(err, c)
      /\ stack' = Front(stack) /\ allocated' = allocated
  BY DEF MergeInternalRight, mergesRight, Underflowed, FlushDone
<1>3. /\ here = frame.node /\ n = nodes[here] /\ nodes[here].right = r
      /\ Mates(settled, tops, live, above, place, here, r)
  BY <1>0, <1>1, <1>2, UnderflowFacts
<1>4. nodes[here].parent = above /\ k = place
  BY <1>1, <1>h, <1>2, <1>3, OwnPlace
<1>5. e = nodes[above].keys[i] /\ nodes' = merged(nodes, here, r, <<e>>)
  BY <1>2, <1>3, <1>4
<1>6. /\ Mates(settled, tops, live, above, i, here, r) /\ here \in {here, r} /\ mate(here) \in {here, r}
      /\ c.node = r /\ c.type = "MergeRight" /\ i = place
  BY <1>3
<1> HIDE DEF i, r, c, e
<1> QED BY ONLY OrderInv, ShapeInv', <1>1, <1>h, <1>2, <1>5, <1>6, InternalJoinOrder

\* A leaf moves into its left neighbour.
LEMMA MergeLeafLeftOrder ==
  ASSUME OrderInv, ShapeInv', MergeLeafLeft
  PROVE  OrderInv'
<1> DEFINE c == [key |-> NoKey, node |-> call.node, type |-> "MergeLeft"]
           l == mate(here)
           i == place - 1
<1>0. ShapeInv
  BY DEF OrderInv
<1>1. PICK h : Shape(h)
  BY <1>0 DEF ShapeInv
<1>h. PICK hi : Order(hi)
  BY DEF OrderInv
<1>2. /\ Removes /\ starved /\ matched(call.node) /\ asksLeft(call.node)
      /\ nodes' = merged(shrunk, target.left, call.node, << >>) /\ Give(Restructured, c)
      /\ stack' = stack /\ allocated' = allocated
  BY DEF MergeLeafLeft, mergesLeft
<1>3. /\ here = call.node /\ target = nodes[here] /\ nodes[here].left = l
      /\ Mates(settled, tops, live, above, place - 1, l, here)
  BY <1>0, <1>1, <1>2, StarvedFacts
<1>4. nodes' = merged(shrunk, l, here, << >>)
  BY <1>2, <1>3
<1>5. /\ Mates(settled, tops, live, above, i, l, here) /\ here \in {l, here} /\ mate(here) \in {l, here}
      /\ c.node = here /\ c.type = "MergeLeft" /\ i = place - 1
  BY <1>3
<1> HIDE DEF i, l, c
<1> QED BY ONLY OrderInv, ShapeInv', <1>1, <1>h, <1>2, <1>4, <1>5, LeafJoinOrder

\* A leaf takes in its right neighbour.
LEMMA MergeLeafRightOrder ==
  ASSUME OrderInv, ShapeInv', MergeLeafRight
  PROVE  OrderInv'
<1> DEFINE c == [key |-> NoKey, node |-> target.right, type |-> "MergeRight"]
           r == mate(here)
           i == place
<1>0. ShapeInv
  BY DEF OrderInv
<1>1. PICK h : Shape(h)
  BY <1>0 DEF ShapeInv
<1>h. PICK hi : Order(hi)
  BY DEF OrderInv
<1>2. /\ Removes /\ starved /\ matched(call.node) /\ ~asksLeft(call.node)
      /\ nodes' = merged(shrunk, call.node, target.right, << >>) /\ Give(Restructured, c)
      /\ stack' = stack /\ allocated' = allocated
  BY DEF MergeLeafRight, mergesRight
<1>3. /\ here = call.node /\ target = nodes[here] /\ nodes[here].right = r
      /\ Mates(settled, tops, live, above, place, here, r)
  BY <1>0, <1>1, <1>2, StarvedFacts
<1>4. nodes' = merged(shrunk, here, r, << >>)
  BY <1>2, <1>3
<1>5. /\ Mates(settled, tops, live, above, i, here, r) /\ here \in {here, r} /\ mate(here) \in {here, r}
      /\ c.node = r /\ c.type = "MergeRight" /\ i = place
  BY <1>3
<1> HIDE DEF i, r, c
<1> QED BY ONLY OrderInv, ShapeInv', <1>1, <1>h, <1>2, <1>4, <1>5, LeafJoinOrder

-----------------------------------------------------------------------------
(* The theorems *)

\* Every step keeps the order of the keys: one lemma above for each action.
LEMMA OrderStep ==
  ASSUME OrderInv, ShapeInv', [Next]_vars
  PROVE  OrderInv'
<1>1. CASE InternalStep
  BY <1>1, BufferMessageOrder, StartFlushOrder, PassMessageOrder, ChildReturnsOrder, EndFlushOrder,
     SplitInternalOrder, RedistributeInternalLeftOrder, RedistributeInternalRightOrder,
     MergeInternalLeftOrder, MergeInternalRightOrder DEF InternalStep
<1>2. CASE LeafStep
  BY <1>2, InsertInLeafOrder, SplitLeafOrder, RemoveMissingOrder, RemoveFromLeafOrder,
     RedistributeLeafLeftOrder, RedistributeLeafRightOrder, MergeLeafLeftOrder, MergeLeafRightOrder DEF LeafStep
<1>3. CASE RootStep
  BY <1>3, SplitRootOrder, DeleteRootLeafOrder, CollapseRootOrder, FinishOrder DEF RootStep
<1>4. CASE \E p \in Insertable : StartInsertEmpty(p[1], p[2]) \/ StartInsert(p[1], p[2])
  <2>1. PICK p \in Insertable : StartInsertEmpty(p[1], p[2]) \/ StartInsert(p[1], p[2])
    BY <1>4
  <2>2. p[1] \in Key
    BY ValueAssumption
  <2> QED
    BY <2>1, <2>2, StartInsertEmptyOrder, StartInsertOrder
<1>5. CASE \E k \in Key : StartRemove(k) \/ Search(k)
  <2>1. PICK k \in Key : StartRemove(k) \/ Search(k)
    BY <1>5
  <2>2. CASE StartRemove(k)
    BY <2>2, StartRemoveOrder
  <2>3. CASE Search(k)
    BY <2>3, StutterOrder DEF Search
  <2> QED BY <2>1, <2>2, <2>3
<1>6. CASE UNCHANGED vars
  BY <1>6, StutterOrder
<1> QED BY <1>1, <1>2, <1>3, <1>4, <1>5, <1>6 DEF Next, Step

\* The keys of the tree are in order, in every state of every call.
THEOREM OrderKept == Spec => []OrderInv
<1>1. Init => OrderInv
  BY InitOrder
<1>2. OrderInv /\ [Next]_vars => OrderInv'
  BY StepType, ShapeStep, OrderStep DEF OrderInv, ShapeInv
<1> QED
  BY <1>1, <1>2, PTL DEF Spec

\* A node that flushes is not one that its child reports as gone, nor are the flushes above it
\* told of it yet.
LEMMA FlushingNodes ==
  ASSUME TypeInv, Flow, NEW h, Shape(h)
  PROVE  /\ \A j \in 1 .. Len(stack) : stack[j].node \in allocated /\ stack[j].node \in live
         /\ \A j \in 1 .. (Len(stack) - 1) : /\ nodes[stack[j].node].children = settled[stack[j].node].children
                                             /\ stack[j].child \in allocated
<1>1. live \subseteq NodeId /\ live \subseteq allocated
  BY LiveIds DEF live
<1>2. Len(stack) \in Nat /\ frame = stack[Len(stack)]
  BY DEF TypeInv, TypeOK, frame, Last
<1>3. \A j \in 1 .. Len(stack) : stack[j].node \in live /\ h[stack[j].node] + j = h[Nil] /\ h[stack[j].node] \in Nat
  BY <1>1 DEF Shape, Frames
<1>4. h[Nil] \in Nat
  BY DEF Shape
<1>5. ASSUME NEW j \in 1 .. (Len(stack) - 1)
      PROVE  nodes[stack[j].node].children = settled[stack[j].node].children /\ stack[j].child \in allocated
  <2>1. j \in 1 .. Len(stack) /\ j + 1 \in 1 .. Len(stack) /\ Len(stack) \in 1 .. Len(stack) /\ j # Len(stack)
    BY <1>2
  <2> DEFINE x == stack[j].node
  <2>2. x \in live /\ x \in NodeId
    BY <1>1, <1>3, <2>1
  <2>3. x # frame.node
    <3> DEFINE a == h[x]
               b == h[frame.node]
               n == Len(stack)
               z == h[Nil]
    <3>1. a + j = z /\ b + n = z /\ a \in Nat /\ b \in Nat /\ n \in Nat /\ z \in Nat /\ j \in Nat /\ j # n
      BY <1>2, <1>3, <1>4, <2>1
    <3>2. a # b
      <4> HIDE DEF a, b, n, z
      <4> QED BY ONLY <3>1
    <3> QED BY <3>2
  <2>4. settled[x] = nodes[x]
    BY <2>2, <2>3 DEF settled, repaired, live, pending
  <2>5. stack[j].child = stack[j + 1].node
    BY DEF Shape, Frames
  <2>6. stack[j + 1].node \in live
    BY <1>3, <2>1
  <2> QED
    BY <1>1, <2>4, <2>5, <2>6
<1> QED
  BY <1>1, <1>3, <1>5

\* The frames of the flushes say the truth.
LEMMA FramesCurrent ==
  ASSUME OrderInv, NEW j \in 1 .. Len(stack), pc = "apply" \/ stack[j].batch # {}
  PROVE  /\ stack[j].node \in allocated /\ stack[j].child \in allocated
         /\ current(nodes, stack[j]) /\ stack[j].batch \subseteq messagesFor(nodes[stack[j].node], stack[j].idx)
<1>0. TypeInv /\ Flow /\ ShapeInv
  BY DEF OrderInv, ShapeInv
<1>1. PICK h : Shape(h)
  BY <1>0 DEF ShapeInv
<1>h. PICK hi : Order(hi)
  BY DEF OrderInv
<1>2. stack[j].batch \subseteq messagesFor(nodes[stack[j].node], stack[j].idx)
  BY DEF OrderInv, Batches
<1>3. /\ Len(stack) \in Nat /\ frame = stack[Len(stack)] /\ stack # << >>
      /\ pc \in {"idle", "apply", "flush", "return"}
  BY <1>0 DEF TypeInv, TypeOK, frame, Last
<1>4. stack[j].node \in allocated /\ stack[j].node \in live /\ live \subseteq NodeId /\ live \subseteq allocated
  BY <1>0, <1>1, FlushingNodes, LiveIds DEF live
<1>5. CASE j # Len(stack)
  <2>1. j \in 1 .. (Len(stack) - 1)
    BY <1>3, <1>5
  <2>2. current(settled, stack[j])
    BY <2>1, <1>1 DEF Shape, Frames
  <2>3. /\ nodes[stack[j].node].children = settled[stack[j].node].children
        /\ stack[j].child \in allocated
    BY <2>1, <1>0, <1>1, FlushingNodes
  <2> QED
    BY <1>2, <1>4, <2>2, <2>3 DEF current
<1>6. CASE j = Len(stack)
  <2>1. stack[j] = frame
    BY <1>3, <1>6
  <2>2. CASE pc = "return"
    BY <2>1, <2>2, <1>2, <1>3, <1>4, <1>h DEF Order, Control
  <2>3. CASE pc = "apply"
    <3>1. current(settled, frame) /\ call.node = frame.child
      BY <2>3, <1>0, <1>3 DEF Flow
    <3>2. running /\ here = call.node
      BY <2>3 DEF running, here
    <3>3. here \in live /\ \A q \in NodeId : settled[q] = nodes[q]
      BY <3>2, <1>0, <1>1, HereFacts, RunningPlain
    <3> QED
      BY <2>1, <3>1, <3>2, <3>3, <1>2, <1>4 DEF current
  <2>4. CASE pc = "flush"
    <3>1. current(settled, frame)
      BY <2>1, <2>4, <1>0 DEF Flow
    <3>2. running
      BY <2>4 DEF running
    <3>3. \A q \in NodeId : settled[q] = nodes[q]
      BY <3>2, <1>0, RunningPlain
    <3>4. current(nodes, frame)
      BY <3>1, <3>3, <2>1, <1>4 DEF current
    <3>5. frame.child \in live
      <4> DEFINE x == frame.node
                 i == frame.idx + 1
      <4>1. x \in live /\ x \in NodeId /\ x # Nil /\ settled[x] = nodes[x]
        BY <1>0, <1>4, <2>1, <3>3, LiveIds
      <4>2. nodes[x].children \in Seq(NodeId)
        BY <4>1, <1>0 DEF TypeInv, TypeOK, isHeap, isNode
      <4>3. i \in 1 .. deg(settled, tops, x) /\ kid(settled, tops, x, i) = frame.child
        BY <4>1, <4>2, <3>4 DEF current, deg, kid, kids
      <4> HIDE DEF x, i
      <4>4. \A k \in 1 .. deg(settled, tops, x) : kid(settled, tops, x, k) \in live
        BY <4>1, <1>1 DEF Shape, Tree, Downward
      <4> QED BY <4>3, <4>4
    <3> QED
      BY <2>1, <3>4, <3>5, <1>2, <1>4
  <2>5. CASE pc = "idle"
    BY <2>5, <1>0, <1>3 DEF Flow
  <2> QED BY <1>3, <2>2, <2>3, <2>4, <2>5
<1> QED BY <1>5, <1>6

\* A flush goes on only as long as its child index stays right, and a node that underflows finds
\* its own index again with its lowest search key.
THEOREM FlushesStayCurrent == Spec => []FlushesCurrent
<1>1. ASSUME OrderInv PROVE FlushesCurrent
  <2>0. TypeInv /\ Flow /\ ShapeInv
    BY <1>1 DEF OrderInv, ShapeInv
  <2>1. DOMAIN stack = 1 .. Len(stack)
    BY <2>0 DEF TypeInv, TypeOK
  <2>2. ASSUME NEW j \in DOMAIN stack, pc = "apply" \/ stack[j].batch # {}
        PROVE  /\ stack[j].node \in allocated /\ stack[j].child \in allocated
               /\ stack[j].idx + 1 \in DOMAIN nodes[stack[j].node].children
               /\ nodes[stack[j].node].children[stack[j].idx + 1] = stack[j].child
               /\ stack[j].batch \subseteq messagesFor(nodes[stack[j].node], stack[j].idx)
    BY <1>1, <2>1, <2>2, FramesCurrent DEF current
  <2>3. ASSUME pc = "flush", Underflowed
        PROVE  nodes[flusher.parent].children[indexInParent(flusher) + 1] = frame.node
    <3>1. PICK h : Shape(h)
      BY <2>0 DEF ShapeInv
    <3>2. PICK hi : Order(hi)
      BY <1>1 DEF OrderInv
    <3>4. here = frame.node /\ running /\ flusher = nodes[here]
      BY <1>1, <2>3, <3>1, <3>2, OwnPlace DEF flusher
    <3>5. nodes[here].parent = above /\ above \in live /\ indexInParent(nodes[here]) = place - 1 /\ place \in Nat
      BY <1>1, <2>3, <3>1, <3>2, OwnPlace
    <3>6. kid(settled, tops, above, place) = here
      BY <2>0, <3>1, <3>4, HereFacts
    <3>7. above \in NodeId /\ above # Nil /\ settled[above] = nodes[above]
      BY <2>0, <3>4, <3>5, LiveIds, RunningPlain
    <3>8. nodes[above].children[place] = here
      BY <3>6, <3>7 DEF kid, kids
    <3>9. indexInParent(flusher) + 1 = place /\ flusher.parent = above
      BY <3>4, <3>5
    <3> QED BY <3>4, <3>8, <3>9
  <2> QED BY <2>2, <2>3 DEF FlushesCurrent
<1> QED
  BY <1>1, OrderKept, PTL

-----------------------------------------------------------------------------
(* What lies below a node *)

\* What an order of the tree says of the subtree of x, between two calls.
Below(x, hi) ==
  \A y \in subtree[x] : \A k \in own(nodes[y]) : k \in Int /\ k <= hi[x] /\ (nodes[x].left # Nil => nodes[x].lowest <= k)

\* The keys of a subtree keep to the bounds of its top: by induction over the levels.
LEMMA BelowBounds ==
  ASSUME TypeInv, live \subseteq NodeId, Nil \notin live, NEW T, NEW V, NEW h, Tree(nodes, T, live, h),
         NEW hi, Ordered(nodes, T, V, live, hi)
  PROVE  \A x \in live : Below(x, hi)
<1> DEFINE S == {n \in Nat : \A x \in live : h[x] < n => Below(x, hi)}
<1>1. \A x \in live : h[x] \in Nat
  BY DEF Tree, Levels
<1>2. 0 \in S
  BY <1>1
<1>3. ASSUME NEW n \in Nat, n \in S PROVE n + 1 \in S
  <2> SUFFICES ASSUME NEW x \in live, h[x] < n + 1 PROVE Below(x, hi)
    OBVIOUS
  <2>1. subtree[x] = {x} \cup UNION {subtree[c] : c \in childrenOf(x)}
    BY SubtreeEquation
  <2>2. /\ Fine(nodes[x], nodes, hi, hi[x]) /\ hi[x] \in Int
        /\ nodes[x].left # Nil => From(nodes[x], nodes, hi, nodes[x].lowest)
    <3>1. x # Nil /\ x \in live \cup {Nil}
      OBVIOUS
    <3>2. hi[x] \in Int /\ Sound(nd(nodes, T, V, x), nodes, hi, x)
      BY <3>1 DEF Ordered
    <3> QED
      BY <3>1, <3>2 DEF Sound, nd, lft
  <2>3. \A k \in own(nodes[x]) : k \in Int /\ k <= hi[x] /\ (nodes[x].left # Nil => nodes[x].lowest <= k)
    BY <2>2, OwnNumbers DEF Fine, From
  <2>4. ASSUME NEW c \in childrenOf(x), NEW y \in subtree[c], NEW k \in own(nodes[y])
        PROVE  k \in Int /\ k <= hi[x] /\ (nodes[x].left # Nil => nodes[x].lowest <= k)
    <3>1. nodes[x].children \in Seq(NodeId) /\ x # Nil
      BY DEF TypeInv, TypeOK, isHeap, isNode
    <3>2. PICK j \in 1 .. deg(nodes, T, x) : c = kid(nodes, T, x, j)
      BY <3>1 DEF childrenOf, ToSet, deg, kid, kids
    <3>3. c \in live /\ h[x] = h[c] + 1 /\ h[c] \in Nat
      BY <3>2, <1>1 DEF Tree, Downward, Levels
    <3>4. h[c] < n
      BY <3>3
    <3>5. Below(c, hi)
      BY <3>3, <3>4, <2>4, <1>3
    <3>6. k \in Int /\ k <= hi[c] /\ (nodes[c].left # Nil => nodes[c].lowest <= k)
      BY <3>5, <2>4 DEF Below
    <3>7. Kin(nodes, T, V, live, hi, x, j, c)
      BY <3>2, KinOrder
    <3>8. /\ hi[x] \in Int /\ hi[c] \in Int /\ hi[c] <= hi[x] /\ nodes[c].lowest \in Int
          /\ nodes[x].left # Nil => /\ nodes[c].left # Nil /\ nodes[x].lowest <= nodes[c].lowest
                                    /\ nodes[x].lowest \in Int
      <4>1. lft(nodes, x) = nodes[x].left /\ lft(nodes, c) = nodes[c].left
        BY <3>1, <3>3 DEF lft
      <4> QED
        BY <3>7, <4>1, <2>2 DEF Kin, From
    <3> DEFINE a == nodes[x].lowest
               b == nodes[c].lowest
               d == hi[x]
               e == hi[c]
    <3>9. k <= d
      <4>1. k \in Int /\ d \in Int /\ e \in Int /\ k <= e /\ e <= d
        BY <3>6, <3>8
      <4> HIDE DEF d, e
      <4> QED BY ONLY <4>1
    <3>10. ASSUME nodes[x].left # Nil PROVE a <= k
      <4>1. a \in Int /\ b \in Int /\ k \in Int /\ a <= b /\ b <= k
        BY <3>6, <3>8, <3>10
      <4> HIDE DEF a, b
      <4> QED BY ONLY <4>1
    <3> QED BY <3>6, <3>9, <3>10
  <2> QED
    BY <2>1, <2>3, <2>4 DEF Below
<1>4. \A n \in Nat : n \in S => n + 1 \in S
  BY <1>3
<1> HIDE DEF S
<1>5. Nat \subseteq S
  BY <1>2, <1>4, SetInduction
<1> SUFFICES ASSUME NEW x \in live PROVE Below(x, hi)
  OBVIOUS
<1>6. h[x] + 1 \in S /\ h[x] < h[x] + 1
  BY <1>1, <1>5
<1> QED BY <1>6 DEF S

\* Between two calls, a node and its children.
LEMMA IdleOrder ==
  ASSUME OrderInv, pc = "idle", NEW id \in Reachable
  PROVE  /\ isNode(nodes[id])
         /\ \A i \in 2 .. size(nodes[id]) : nodes[id].keys[i - 1] < nodes[id].keys[i]
         /\ nodes[id].left # Nil => \A k \in keysIn(id) : nodes[id].lowest <= k
         /\ \A i \in DOMAIN nodes[id].children :
              LET c == nodes[id].children[i] IN
              /\ \A k \in keysIn(c) : belongs(nodes[id], i, k)
              /\ nodes[c].left # Nil => belongs(nodes[id], i, nodes[c].lowest)
<1>0. ShapeInv /\ TypeInv
  BY DEF OrderInv, ShapeInv
<1>1. PICK h : Shape(h)
  BY <1>0 DEF ShapeInv
<1>h. PICK hi : Order(hi)
  BY DEF OrderInv
<1>2. Reachable = live /\ settled = nodes /\ live \subseteq NodeId /\ Nil \notin live
  BY <1>0, ReachableLive, LiveIds
<1>3. Tree(nodes, tops, live, h) /\ Ordered(nodes, tops, cuts, live, hi)
  BY <1>1, <1>h, <1>2 DEF Shape, Order
<1>4. \A x \in live : Below(x, hi)
  BY <1>0, <1>2, <1>3, BelowBounds
<1>5. \A x \in live : isNode(nodes[x])
  BY <1>0, <1>2 DEF TypeInv, TypeOK, isHeap
<1>6. \A x \in live : subtree[x] \subseteq live
  BY <1>0, <1>2, <1>3, SubtreeClosed
<1>7. ASSUME NEW x \in live, NEW k \in keysIn(x)
      PROVE  k \in Int /\ k <= hi[x] /\ (nodes[x].left # Nil => nodes[x].lowest <= k)
  <2>1. PICK y \in subtree[x] : k \in ToSet(nodes[y].keys) \cup DOMAIN nodes[y].buffer
    BY DEF keysIn
  <2>2. nodes[y].keys \in Seq(KeyType)
    BY <1>5, <1>6 DEF isNode
  <2>3. k \in own(nodes[y])
    <3>1. DOMAIN nodes[y].keys = 1 .. Len(nodes[y].keys)
      BY <2>2
    <3> QED BY <2>1, <3>1 DEF ToSet, own
  <2> QED
    BY <1>4, <2>3 DEF Below
<1>8. id \in live /\ id # Nil /\ isNode(nodes[id]) /\ nodes[id].children \in Seq(NodeId)
  BY <1>2, <1>5 DEF isNode
<1> DEFINE n == nodes[id]
           s == n.keys
<1>9. ASSUME NEW i \in DOMAIN n.children
      PROVE  LET c == n.children[i] IN
             /\ \A k \in keysIn(c) : belongs(n, i, k)
             /\ nodes[c].left # Nil => belongs(n, i, nodes[c].lowest)
  <2> DEFINE c == n.children[i]
             b == hi[c]
             lo == nodes[c].lowest
  <2>1. i \in 1 .. deg(nodes, tops, id) /\ c = kid(nodes, tops, id, i)
    BY <1>8 DEF deg, kid, kids
  <2>2. Kin(nodes, tops, cuts, live, hi, id, i, c) /\ c \in live
    BY <2>1, <1>2, <1>3, <1>8, KinOrder, KidFacts
  <2>3. nd(nodes, tops, cuts, id) = n /\ lft(nodes, c) = nodes[c].left
    BY <2>2, <1>2, <1>8 DEF nd, lft
  <2>4. Fine(n, nodes, hi, hi[id]) /\ Len(n.children) > 0
    BY <2>2, <2>3 DEF Kin
  <2>5. Len(n.children) = Len(s) + 1 /\ Len(s) \in Nat /\ \A j \in 1 .. Len(s) : s[j] \in Int
    BY <2>4 DEF Fine, numeric, integers
  <2>6. /\ b \in Int /\ lo \in Int /\ i \in Nat /\ i \in 1 .. Len(n.children)
        /\ i < Len(n.children) => b < s[i]
        /\ i > 1 => s[i - 1] <= lo /\ nodes[c].left # Nil
        /\ nodes[c].left # Nil => lo <= b
    BY <2>2, <2>3 DEF Kin
  <2> DEFINE a == Len(s)
  <2> HIDE DEF c, b, lo, s, n
  <2>7. /\ i \in 1 .. (a + 1) /\ a \in Nat /\ (i <= a => s[i] \in Int /\ b < s[i])
        /\ i > 1 => s[i - 1] \in Int /\ s[i - 1] <= lo /\ nodes[c].left # Nil
    <3>1. a \in Nat /\ i \in 1 .. (a + 1) /\ Len(n.children) = a + 1
      BY <2>5, <2>6
    <3> HIDE DEF a
    <3>2. (i <= a => i \in 1 .. a /\ i < a + 1) /\ (i > 1 => i - 1 \in 1 .. a)
      BY ONLY <3>1
    <3> QED BY <3>1, <3>2, <2>5, <2>6 DEF a
  <2>8. ASSUME NEW k \in Int, k <= b, nodes[c].left # Nil => lo <= k PROVE belongs(n, i, k)
    <3>1. (i > 1 => s[i - 1] <= k) /\ (i <= a => k < s[i])
      <4> HIDE DEF a
      <4>1. i > 1 => s[i - 1] <= k
        BY <2>6, <2>7, <2>8
      <4>2. i <= a => k < s[i]
        BY <2>6, <2>7, <2>8
      <4> QED BY <4>1, <4>2
    <3> QED
      BY <3>1 DEF belongs, size, a, s
  <2>9. \A k \in keysIn(c) : belongs(n, i, k)
    BY <2>2, <2>8, <1>7 DEF b, lo
  <2>10. nodes[c].left # Nil => belongs(n, i, lo)
    BY <2>6, <2>8
  <2> QED
    BY <2>9, <2>10 DEF c, lo
<1>10. \A i \in 2 .. size(n) : n.keys[i - 1] < n.keys[i]
  <2>1. Sound(nd(nodes, tops, cuts, id), nodes, hi, id)
    BY <1>3, <1>8 DEF Ordered
  <2>2. ascending(s) /\ Len(s) \in Nat
    BY <2>1, <1>8 DEF Sound, Fine, nd, numeric, integers
  <2>3. \A i \in 2 .. Len(s) : i \in 1 .. Len(s) /\ i - 1 \in 1 .. Len(s) /\ i - 1 < i
    BY <2>2
  <2> QED
    BY <2>2, <2>3 DEF ascending, size
<1> QED
  BY <1>7, <1>8, <1>9, <1>10

\* The pivots of each node separate all that lies below it, so that search and flush look for a
\* key where the last split, merge or redistribution put it.
THEOREM KeysStayRouted == Spec => []KeysRouted
<1>1. ASSUME OrderInv PROVE KeysRouted
  <2> SUFFICES ASSUME pc = "idle", NEW id \in Reachable
               PROVE  /\ \A i \in 2 .. size(nodes[id]) : nodes[id].keys[i - 1] < nodes[id].keys[i]
                      /\ \A i \in DOMAIN nodes[id].children : \A k \in keysIn(nodes[id].children[i]) : belongs(nodes[id], i, k)
    BY DEF KeysRouted
  <2> QED
    BY <1>1, IdleOrder
<1> QED
  BY <1>1, OrderKept, PTL

\* The lowest search key of a node with a left neighbour separates what lies below it from what
\* lies before it, so that a redistribution may make it a pivot.
THEOREM LowestKeySeparates == Spec => []LowestKeyIsSeparator
<1>1. ASSUME OrderInv PROVE LowestKeyIsSeparator
  <2> SUFFICES ASSUME pc = "idle", NEW id \in Reachable
               PROVE  /\ nodes[id].left # Nil => \A k \in keysIn(id) : nodes[id].lowest <= k
                      /\ \A i \in DOMAIN nodes[id].children :
                           nodes[nodes[id].children[i]].left # Nil =>
                             belongs(nodes[id], i, nodes[nodes[id].children[i]].lowest)
    BY DEF LowestKeyIsSeparator
  <2> QED
    BY <1>1, IdleOrder
<1> QED
  BY <1>1, OrderKept, PTL

=============================================================================
