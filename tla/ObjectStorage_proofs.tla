------------------------ MODULE ObjectStorage_proofs ------------------------
(***************************************************************************)
(* What an object storage has taken it gives back, for every block size,   *)
(* number of blocks, degree and width of keys and values; and a node that  *)
(* was read from persistent memory is as good as a plain one, for every    *)
(* degree, set of nodes and number of holders.                             *)
(*                                                                         *)
(* The storages: every object that was stored is in the memory, byte for   *)
(* byte, at the offset its identifier has and before the next block, and   *)
(* no two have one offset (ObjectInv).  A storage writes only from the     *)
(* next block on, so that what was stored stays; bytes that are those of   *)
(* an object are read as this object by each of the three constructors.    *)
(*                                                                         *)
(* The nodes: an operation finds the data in one place (OnePlace), and     *)
(* does to the contents what the plain operation does; moving, storing and *)
(* reading again do nothing to them.                                       *)
(***************************************************************************)
EXTENDS ObjectStorage, ReadOnlyNodes, MappedStorage_proofs

\* The identifiers that the model has are of integers.
Identifier == [m_nMediaType : Int, m_nOffset : Int, m_nSize : Int]

\* What is stored: a data node, or an index node with identifiers of children.
isObject(n) ==
  \/ n = DataNode(n.keys, n.items) /\ n.keys \in Seq(Int) /\ n.items \in Seq(Int)
  \/ n = IndexNode(n.keys, n.items) /\ n.keys \in Seq(Int) /\ n.items \in Seq(Identifier)

-----------------------------------------------------------------------------
(* Identifiers *)

\* An identifier takes its size.
LEMMA IdentifierBytes ==
  ASSUME NEW u \in Identifier
  PROVE  /\ uidBytes(u) \in Seq(AByte) /\ Len(uidBytes(u)) = NodeUIDSize
         /\ \A m : \A a \in Nat : contains(m, a, uidBytes(u)) => uidAt(m, a) = u
<1> DEFINE s1 == number(u.m_nMediaType, Uint8)
           s2 == [i \in 1 .. 7 |-> AnyByte]
           ns == <<u.m_nOffset, u.m_nSize>>
           s3 == numbers(ns, Uint32)
<1>0. Uint8 = 1 /\ Uint32 = 4 /\ u.m_nMediaType \in Int /\ ns \in Seq(Int) /\ Len(ns) = 2
      /\ ns[1] = u.m_nOffset /\ ns[2] = u.m_nSize
  BY DEF Uint8, Uint32, Identifier
<1>1. s1 \in Seq(AByte) /\ Len(s1) = 1
  BY <1>0, NumberFacts
<1>2. s2 \in Seq(AByte) /\ Len(s2) = 7
  <2>1. s2 \in [1 .. 7 -> AByte]
    BY DEF AnyByte, Garbage, AByte
  <2> QED BY <2>1
<1>3. s3 \in Seq(AByte) /\ Len(s3) = 8
  <2> HIDE DEF ns
  <2>1. ns \in Seq(Int) /\ Uint32 \in Nat \ {0}
    BY <1>0
  <2>2. numbers(ns, Uint32) \in Seq(AByte) /\ Len(numbers(ns, Uint32)) = Len(ns) * Uint32
    BY ONLY <2>1, NumbersFacts, Zenon
  <2> QED BY <1>0, <2>2
<1>4. uidBytes(u) = s1 \o s2 \o s3
  BY DEF uidBytes
<1> HIDE DEF s1, s2, s3, ns
<1>5. s1 \o s2 \in Seq(AByte) /\ Len(s1 \o s2) = 8
  <2>1. s1 \o s2 \in Seq(AByte) /\ Len(s1 \o s2) = Len(s1) + Len(s2)
    BY ONLY <1>1, <1>2, ConcatFacts, Zenon
  <2> QED BY <1>1, <1>2, <2>1
<1>6. (s1 \o s2) \o s3 \in Seq(AByte) /\ Len((s1 \o s2) \o s3) = 16
  <2> DEFINE t == s1 \o s2
  <2>1. t \in Seq(AByte) /\ Len(t) = 8
    BY <1>5
  <2> HIDE DEF t
  <2>2. t \o s3 \in Seq(AByte) /\ Len(t \o s3) = Len(t) + Len(s3)
    BY ONLY <1>3, <2>1, ConcatFacts, Zenon
  <2>3. t \o s3 \in Seq(AByte) /\ Len(t \o s3) = 16
    BY <1>3, <2>1, <2>2
  <2> QED BY <2>3 DEF t
<1>7. ASSUME NEW m, NEW a \in Nat, contains(m, a, (s1 \o s2) \o s3) PROVE uidAt(m, a) = u
  <2>1. contains(m, a, s1 \o s2) /\ contains(m, a + 8, s3)
    BY <1>3, <1>5, <1>7, ContainsBoth
  <2>2. contains(m, a, s1)
    BY <1>1, <1>2, <2>1, ContainsBoth
  <2>3. numberAt(m, a, Uint8) = u.m_nMediaType
    BY <1>0, <2>2, ReadsNumber DEF s1
  <2>4. numbersAt(m, a + 8, Uint32, 2) = ns
    <3>1. a + 8 \in Nat /\ Uint32 \in Nat \ {0} /\ contains(m, a + 8, numbers(ns, Uint32))
      BY <1>0, <2>1 DEF s3
    <3>2. numbersAt(m, a + 8, Uint32, Len(ns)) = ns
      BY ONLY <1>0, <3>1, ReadsNumbers, Zenon
    <3> QED BY <1>0, <3>2
  <2>5. numberAt(m, a + 8, Uint32) = ns[1] /\ numberAt(m, a + 12, Uint32) = ns[2]
    <3>1. ns = [i \in 1 .. 2 |-> numberAt(m, a + 8 + (i - 1) * Uint32, Uint32)]
      BY <2>4 DEF numbersAt
    <3>2. a + 8 + (1 - 1) * Uint32 = a + 8 /\ a + 8 + (2 - 1) * Uint32 = a + 12
      BY <1>0
    <3>3. ns[1] = numberAt(m, a + 8 + (1 - 1) * Uint32, Uint32) /\ ns[2] = numberAt(m, a + 8 + (2 - 1) * Uint32, Uint32)
      BY <3>1
    <3> QED BY <3>2, <3>3
  <2>6. uidAt(m, a) = NodeUID(u.m_nMediaType, u.m_nOffset, u.m_nSize)
    BY <1>0, <2>3, <2>5 DEF uidAt
  <2> QED BY <2>6 DEF NodeUID, Identifier
<1> QED BY <1>4, <1>6, <1>7 DEF NodeUIDSize

\* The bytes of the items of an index node.
itemBytes(n) == joined([i \in DOMAIN n.items |-> uidBytes(n.items[i])], NodeUIDSize)

\* Identifiers written one after the other are read one after the other.
LEMMA IdentifiersRead ==
  ASSUME NEW n, n.items \in Seq(Identifier)
  PROVE  /\ itemBytes(n) \in Seq(AByte) /\ Len(itemBytes(n)) = Len(n.items) * NodeUIDSize
         /\ \A m : \A a \in Nat : contains(m, a, itemBytes(n)) =>
              [i \in 1 .. Len(n.items) |-> uidAt(m, a + (i - 1) * NodeUIDSize)] = n.items
<1> DEFINE s == n.items
           p == [i \in DOMAIN s |-> uidBytes(s[i])]
<1>1. Len(s) \in Nat /\ DOMAIN s = 1 .. Len(s) /\ \A i \in DOMAIN s : s[i] \in Identifier
  OBVIOUS
<1>2. \A i \in 1 .. Len(s) : uidBytes(s[i]) \in Seq(AByte) /\ Len(uidBytes(s[i])) = NodeUIDSize
  BY <1>1, IdentifierBytes
<1>3. p \in [1 .. Len(s) -> Seq(AByte)]
  BY <1>1, <1>2
<1>4. p \in Seq(Seq(AByte)) /\ Len(p) = Len(s)
  BY <1>1, <1>3
<1>5. \A i \in 1 .. Len(s) : p[i] = uidBytes(s[i])
  BY <1>1
<1> HIDE DEF p
<1>6. pieces(p, NodeUIDSize)
  BY <1>2, <1>4, <1>5 DEF pieces
<1>7. NodeUIDSize \in Nat \ {0}
  BY DEF NodeUIDSize
<1>8. itemBytes(n) = joined(p, NodeUIDSize)
  BY DEF itemBytes, p
<1>9. itemBytes(n) \in Seq(AByte) /\ Len(itemBytes(n)) = Len(s) * NodeUIDSize
  BY <1>4, <1>6, <1>7, <1>8, JoinedFacts
<1>10. ASSUME NEW m, NEW a \in Nat, contains(m, a, joined(p, NodeUIDSize))
       PROVE  [i \in 1 .. Len(s) |-> uidAt(m, a + (i - 1) * NodeUIDSize)] = s
  <2>1. \A i \in 1 .. Len(s) : contains(m, a + (i - 1) * NodeUIDSize, uidBytes(s[i]))
    BY <1>4, <1>5, <1>6, <1>7, <1>10, ContainsJoined
  <2>2. ASSUME NEW i \in 1 .. Len(s) PROVE uidAt(m, a + (i - 1) * NodeUIDSize) = s[i]
    <3> DEFINE b == a + (i - 1) * NodeUIDSize
               u == s[i]
    <3>1. b \in Nat
      BY DEF NodeUIDSize
    <3>2. u \in Identifier /\ contains(m, b, uidBytes(u))
      BY <1>1, <2>1
    <3> HIDE DEF b, u
    <3>3. uidAt(m, b) = u
      BY ONLY <3>1, <3>2, IdentifierBytes
    <3> QED BY ONLY <3>3 DEF b, u
  <2>3. [i \in 1 .. Len(s) |-> uidAt(m, a + (i - 1) * NodeUIDSize)] = [i \in 1 .. Len(s) |-> s[i]]
    BY <2>2
  <2>4. s = [i \in 1 .. Len(s) |-> s[i]]
    <3>1. s \in Seq(Identifier)
      OBVIOUS
    <3> HIDE DEF s
    <3> QED BY <3>1
  <2> QED BY <2>3, <2>4
<1> QED BY <1>8, <1>9, <1>10

-----------------------------------------------------------------------------
(* Objects *)

typeOf(n) == IF n.leaf THEN DataNodeUID ELSE IndexNodeUID
items(n) == IF n.leaf THEN numbers(n.items, ValueSize) ELSE itemBytes(n)
itemSize(n) == IF n.leaf THEN ValueSize ELSE NodeUIDSize

\* The parts of an object.
LEMMA ObjectParts ==
  ASSUME NEW n, isObject(n)
  PROVE  /\ n.leaf \in BOOLEAN /\ n.keys \in Seq(Int) /\ Len(n.keys) \in Nat /\ Len(n.items) \in Nat
         /\ n = [leaf |-> n.leaf, keys |-> n.keys, items |-> n.items]
         /\ n.leaf => n.items \in Seq(Int)
         /\ ~n.leaf => n.items \in Seq(Identifier)
         /\ items(n) \in Seq(AByte) /\ Len(items(n)) = Len(n.items) * itemSize(n)
         /\ itemSize(n) \in Nat \ {0}
<1>1. CASE n = DataNode(n.keys, n.items) /\ n.keys \in Seq(Int) /\ n.items \in Seq(Int)
  <2>1. n = [leaf |-> TRUE, keys |-> n.keys, items |-> n.items]
    BY <1>1, Zenon DEF DataNode
  <2>2. n.leaf = TRUE
    BY <2>1
  <2>3. n.items \in Seq(Int) /\ ValueSize \in Nat \ {0}
    BY <1>1, Widths
  <2>4. numbers(n.items, ValueSize) \in Seq(AByte)
        /\ Len(numbers(n.items, ValueSize)) = Len(n.items) * ValueSize
    BY ONLY <2>3, NumbersFacts, Zenon
  <2>5. Len(n.keys) \in Nat /\ Len(n.items) \in Nat
    BY <1>1
  <2> QED BY <1>1, <2>1, <2>2, <2>3, <2>4, <2>5 DEF items, itemSize
<1>2. CASE n = IndexNode(n.keys, n.items) /\ n.keys \in Seq(Int) /\ n.items \in Seq(Identifier)
  <2>1. n = [leaf |-> FALSE, keys |-> n.keys, items |-> n.items]
    BY <1>2, Zenon DEF IndexNode
  <2>2. n.leaf = FALSE
    BY <2>1
  <2>3. itemBytes(n) \in Seq(AByte) /\ Len(itemBytes(n)) = Len(n.items) * NodeUIDSize
    BY <1>2, IdentifiersRead
  <2>4. NodeUIDSize \in Nat \ {0}
    BY DEF NodeUIDSize
  <2>5. Len(n.keys) \in Nat /\ Len(n.items) \in Nat
    BY <1>2
  <2> QED BY <1>2, <2>1, <2>2, <2>3, <2>4, <2>5 DEF items, itemSize
<1> QED BY <1>1, <1>2 DEF isObject

\* An object takes as many bytes as getSize says, and each part has its place in them.
LEMMA ObjectBytes ==
  ASSUME NEW n, isObject(n)
  PROVE  /\ serialized(n) \in Seq(AByte) /\ Len(serialized(n)) = getSize(n)
         /\ getSize(n) \in Nat \ {0}
         /\ \A m : \A a \in Nat : contains(m, a, serialized(n)) =>
              /\ contains(m, a, number(typeOf(n), Uint8))
              /\ contains(m, a + 1, counts(n))
              /\ contains(m, a + 17, numbers(n.keys, KeySize))
              /\ contains(m, a + (17 + Len(n.keys) * KeySize), items(n))
<1> DEFINE s1 == number(typeOf(n), Uint8)
           s2 == counts(n)
           s3 == numbers(n.keys, KeySize)
           s4 == items(n)
           K  == Len(n.keys) * KeySize
           I  == Len(n.items) * itemSize(n)
<1>0. /\ n.leaf \in BOOLEAN /\ n.keys \in Seq(Int) /\ Len(n.keys) \in Nat /\ Len(n.items) \in Nat
      /\ items(n) \in Seq(AByte) /\ Len(items(n)) = I /\ itemSize(n) \in Nat \ {0}
      /\ KeySize \in Nat \ {0}
  BY ObjectParts, Widths
<1>1. s1 \in Seq(AByte) /\ Len(s1) = 1
  <2>1. typeOf(n) \in Int /\ Uint8 = 1
    BY DEF typeOf, DataNodeUID, IndexNodeUID, Uint8
  <2> QED BY <2>1, NumberFacts
<1>2. s2 \in Seq(AByte) /\ Len(s2) = 16
  <2> DEFINE ns == <<Len(n.keys), Len(n.items)>>
  <2>1. ns \in Seq(Int) /\ Len(ns) = 2 /\ Sizet \in Nat \ {0} /\ Sizet = 8
    BY <1>0 DEF Sizet
  <2>2. s2 = numbers(ns, Sizet)
    BY DEF counts
  <2> HIDE DEF ns
  <2>3. numbers(ns, Sizet) \in Seq(AByte) /\ Len(numbers(ns, Sizet)) = Len(ns) * Sizet
    BY ONLY <2>1, NumbersFacts, Zenon
  <2> QED BY <2>1, <2>2, <2>3
<1>3. s3 \in Seq(AByte) /\ Len(s3) = K
  BY <1>0, NumbersFacts
<1>4. s4 \in Seq(AByte) /\ Len(s4) = I
  BY <1>0
<1>5. serialized(n) = s1 \o s2 \o s3 \o s4
  <2>1. CASE n.leaf
    BY <2>1 DEF serialized, serializeDataNode, typeOf, items
  <2>2. CASE ~n.leaf
    BY <2>2 DEF serialized, serializeIndexNode, typeOf, items, itemBytes
  <2> QED BY <2>1, <2>2
<1>6. getSize(n) = 17 + K + I /\ K \in Nat /\ I \in Nat
  <2>1. K \in Nat /\ I \in Nat
    BY <1>0
  <2>2. CASE n.leaf
    <3>1. getSize(n) = Uint8 + Sizet + Sizet + K + I
      BY <2>2 DEF getSize, dataNodeSize, itemSize
    <3> QED BY <2>1, <3>1 DEF Uint8, Sizet
  <2>3. CASE ~n.leaf
    <3>1. getSize(n) = Uint8 + Sizet + Sizet + K + I
      BY <2>3 DEF getSize, indexNodeSize, itemSize
    <3> QED BY <2>1, <3>1 DEF Uint8, Sizet
  <2> QED BY <2>1, <2>2, <2>3
<1> HIDE DEF s1, s2, s3, s4, K, I
<1> DEFINE t2 == s1 \o s2
           t3 == t2 \o s3
           t4 == t3 \o s4
<1>7. t2 \in Seq(AByte) /\ Len(t2) = 17
  <2>1. t2 \in Seq(AByte) /\ Len(t2) = Len(s1) + Len(s2)
    BY ONLY <1>1, <1>2, ConcatFacts, Zenon DEF t2
  <2> QED BY <1>1, <1>2, <2>1
<1> HIDE DEF t2
<1>8. t3 \in Seq(AByte) /\ Len(t3) = 17 + K
  <2>1. t3 \in Seq(AByte) /\ Len(t3) = Len(t2) + Len(s3)
    BY ONLY <1>3, <1>7, ConcatFacts, Zenon DEF t3
  <2> QED BY <1>3, <1>7, <2>1
<1> HIDE DEF t3
<1>9. t4 \in Seq(AByte) /\ Len(t4) = 17 + K + I
  <2>1. t4 \in Seq(AByte) /\ Len(t4) = Len(t3) + Len(s4)
    BY ONLY <1>4, <1>8, ConcatFacts, Zenon DEF t4
  <2> QED BY <1>4, <1>8, <2>1
<1> HIDE DEF t4
<1>10. serialized(n) = t4
  BY <1>5 DEF t2, t3, t4
<1>11. ASSUME NEW m, NEW a \in Nat, contains(m, a, t4)
       PROVE  /\ contains(m, a, s1) /\ contains(m, a + 1, s2)
              /\ contains(m, a + 17, s3) /\ contains(m, a + (17 + K), s4)
  <2>1. contains(m, a, t3) /\ contains(m, a + (17 + K), s4)
    BY <1>4, <1>8, <1>11, ContainsBoth DEF t4
  <2>2. contains(m, a, t2) /\ contains(m, a + 17, s3)
    BY <1>3, <1>7, <2>1, ContainsBoth DEF t3
  <2>3. contains(m, a, s1) /\ contains(m, a + 1, s2)
    BY <1>1, <1>2, <2>2, ContainsBoth DEF t2
  <2> QED BY <2>1, <2>2, <2>3
<1>12. getSize(n) \in Nat \ {0}
  BY <1>6
<1> QED BY <1>6, <1>9, <1>10, <1>11, <1>12 DEF s1, s2, s3, s4, K

\* As many numbers are between two places as are written there.
LEMMA HowMany ==
  ASSUME NEW c \in Nat, NEW w \in Nat \ {0}, NEW a \in Nat
  PROVE  ((a + c * w) - a) \div w = c
<1>1. (a + c * w) - a = c * w + 0 /\ 0 \in 0 .. w - 1
  OBVIOUS
<1>2. (c * w + 0) \div w = c
  BY <1>1, PlaceOf
<1> QED BY <1>1, <1>2

\* An object is read back from its bytes: as a plain node from memory and from a stream,
\* and as a read-only node.
LEMMA ObjectDecodes ==
  ASSUME NEW n, isObject(n), NEW m, NEW a \in Nat, contains(m, a, serialized(n))
  PROVE  fromMemory(m, a) = n /\ fromStream(m, a) = n /\ readOnlyFrom(m, a) = n
<1> DEFINE ns == <<Len(n.keys), Len(n.items)>>
           c  == numbersAt(m, a + 1, Sizet, 2)
           itemsAt == a + 17 + Len(n.keys) * KeySize
<1>0. /\ n.leaf \in BOOLEAN /\ n.keys \in Seq(Int) /\ Len(n.keys) \in Nat /\ Len(n.items) \in Nat
      /\ n = [leaf |-> n.leaf, keys |-> n.keys, items |-> n.items]
      /\ n.leaf => n.items \in Seq(Int)
      /\ ~n.leaf => n.items \in Seq(Identifier)
      /\ KeySize \in Nat \ {0} /\ ValueSize \in Nat \ {0}
  BY ObjectParts, Widths
<1>1. /\ contains(m, a, number(typeOf(n), Uint8))
      /\ contains(m, a + 1, counts(n))
      /\ contains(m, a + 17, numbers(n.keys, KeySize))
      /\ contains(m, a + (17 + Len(n.keys) * KeySize), items(n))
  BY ObjectBytes
<1>2. numberAt(m, a, Uint8) = typeOf(n)
  <2>1. typeOf(n) \in Int /\ Uint8 \in Nat \ {0}
    BY DEF typeOf, DataNodeUID, IndexNodeUID, Uint8
  <2> QED BY <1>1, <2>1, ReadsNumber
<1>3. c[1] = Len(n.keys) /\ c[2] = Len(n.items)
  <2>1. ns \in Seq(Int) /\ Len(ns) = 2 /\ ns[1] = Len(n.keys) /\ ns[2] = Len(n.items)
    BY <1>0
  <2>2. contains(m, a + 1, numbers(ns, Sizet))
    BY <1>1 DEF counts
  <2>3. a + 1 \in Nat /\ Sizet \in Nat \ {0}
    BY DEF Sizet
  <2> HIDE DEF ns
  <2>4. numbersAt(m, a + 1, Sizet, Len(ns)) = ns
    BY ONLY <2>1, <2>2, <2>3, ReadsNumbers, Zenon
  <2> QED BY <2>1, <2>4
<1>4. /\ a + Uint8 = a + 1 /\ a + 1 + 2 * Sizet = a + 17
      /\ a + 17 \in Nat /\ itemsAt \in Nat
      /\ a + (17 + Len(n.keys) * KeySize) = itemsAt
  <2>1. Len(n.keys) * KeySize \in Nat
    BY <1>0
  <2> QED BY <2>1 DEF Uint8, Sizet
<1> HIDE DEF c, ns, itemsAt
<1>5. numbersAt(m, a + 17, KeySize, Len(n.keys)) = n.keys
  BY <1>0, <1>1, <1>4, ReadsNumbers
<1>6. numbersIn(m, a + 17, itemsAt, KeySize) = n.keys
  <2>1. (itemsAt - (a + 17)) \div KeySize = Len(n.keys)
    <3>1. ((a + 17 + Len(n.keys) * KeySize) - (a + 17)) \div KeySize = Len(n.keys)
      BY <1>0, <1>4, HowMany
    <3> QED BY <3>1 DEF itemsAt
  <2> QED BY <1>5, <2>1 DEF numbersIn
<1>7. CASE n.leaf
  <2>1. contains(m, itemsAt, numbers(n.items, ValueSize)) /\ n.items \in Seq(Int)
    BY <1>0, <1>1, <1>4, <1>7 DEF items
  <2>2. numbersAt(m, itemsAt, ValueSize, Len(n.items)) = n.items
    BY <1>0, <1>4, <2>1, ReadsNumbers
  <2>3. numbersIn(m, itemsAt, itemsAt + Len(n.items) * ValueSize, ValueSize) = n.items
    <3>1. ((itemsAt + Len(n.items) * ValueSize) - itemsAt) \div ValueSize = Len(n.items)
      BY <1>0, <1>4, HowMany
    <3> QED BY <2>2, <3>1 DEF numbersIn
  <2>4. n = DataNode(n.keys, n.items)
    BY <1>0, <1>7 DEF DataNode
  <2>5. dataNodeAt(m, a + Uint8) = n
    BY <1>3, <1>4, <1>5, <2>2, <2>4 DEF dataNodeAt, c, itemsAt
  <2>6. readOnlyDataNode(m, a) = n
    BY <1>3, <1>4, <1>6, <2>3, <2>4 DEF readOnlyDataNode, c, itemsAt
  <2>7. numberAt(m, a, Uint8) = DataNodeUID
    BY <1>2, <1>7 DEF typeOf
  <2> QED BY <2>5, <2>6, <2>7 DEF fromMemory, fromStream, readOnlyFrom, dataNodeFrom, DataNodeUID, IndexNodeUID
<1>8. CASE ~n.leaf
  <2>1. contains(m, itemsAt, itemBytes(n)) /\ n.items \in Seq(Identifier)
    BY <1>0, <1>1, <1>4, <1>8 DEF items
  <2>2. [i \in 1 .. Len(n.items) |-> uidAt(m, itemsAt + (i - 1) * NodeUIDSize)] = n.items
    BY <1>4, <2>1, IdentifiersRead
  <2>4. n = IndexNode(n.keys, n.items)
    BY <1>0, <1>8 DEF IndexNode
  <2>5. indexNodeAt(m, a + Uint8) = n
    BY <1>3, <1>4, <1>5, <2>2, <2>4 DEF indexNodeAt, c, itemsAt
  <2>6. readOnlyIndexNode(m, a) = n
    BY <1>3, <1>4, <1>6, <2>2, <2>4 DEF readOnlyIndexNode, c, itemsAt
  <2>7. numberAt(m, a, Uint8) = IndexNodeUID
    BY <1>2, <1>8 DEF typeOf
  <2> QED BY <2>5, <2>6, <2>7 DEF fromMemory, fromStream, readOnlyFrom, indexNodeFrom, DataNodeUID, IndexNodeUID
<1> QED BY <1>0, <1>7, <1>8

-----------------------------------------------------------------------------
(* The storages *)

Places == 0 .. ObjectBlocks * ObjectBlockSize - 1

\* The memory holds the object of an entry at the offset of its identifier, before an end.
holdsObject(m, e, end) ==
  /\ isObject(e.node) /\ e.uid \in Identifier
  /\ e.uid.m_nOffset \in Nat /\ e.uid.m_nOffset + getSize(e.node) <= end
  /\ contains(m, e.uid.m_nOffset, serialized(e.node))

\* It holds those of a set of entries, which have offsets of their own.
holdsObjects(m, entries, end) ==
  /\ \A e \in entries : holdsObject(m, e, end)
  /\ \A e, f \in entries : e.uid.m_nOffset = f.uid.m_nOffset => e = f

ObjectInv ==
  /\ storageClass \in ObjectClasses
  /\ constructed \in BOOLEAN
  /\ m_nNextBlock \in 0 .. ObjectBlocks
  /\ memory = NoFile \/ DOMAIN memory = Places
  /\ constructed => DOMAIN memory = Places
  /\ ~constructed => placed = {}
  /\ holdsObjects(memory, placed, offsetOf(m_nNextBlock))

-----------------------------------------------------------------------------
(* Room *)

\* So many blocks have room for so many bytes.
LEMMA RequiredCovers ==
  ASSUME NEW size \in Nat
  PROVE  requiredBlocks(size) \in Nat /\ requiredBlocks(size) * ObjectBlockSize >= size
<1> DEFINE b == ObjectBlockSize
           q == (size + b - 1) \div b
           r == (size + b - 1) % b
<1>0. b \in Nat \ {0}
  BY ObjectBlockAssumption
<1> HIDE DEF b
<1>1. size + b - 1 \in Nat /\ q \in Int /\ r \in 0 .. b - 1 /\ size + b - 1 = b * q + r
  BY <1>0
<1> HIDE DEF q, r
<1>2. q >= 0
  <2>1. CASE q <= -1
    <3>1. b * q <= -b
      BY <1>0, <1>1, <2>1
    <3> QED BY <1>0, <1>1, <3>1
  <2> QED BY <1>1, <2>1
<1>3. b * q = q * b /\ q * b \in Int
  BY <1>0, <1>1
<1>4. q * b >= size
  BY <1>0, <1>1, <1>3
<1> QED BY <1>1, <1>2, <1>4 DEF requiredBlocks, q, b

\* Offsets of blocks are as the blocks are, and those in the storage fit into 32 bits.
LEMMA BlockOffsets ==
  ASSUME NEW k \in Nat, NEW b \in Nat, k + b <= ObjectBlocks
  PROVE  /\ offsetOf(k) \in Nat
         /\ offsetOf(k + b) = offsetOf(k) + b * ObjectBlockSize
         /\ offsetOf(k + b) <= ObjectBlocks * ObjectBlockSize
         /\ ObjectBlocks * ObjectBlockSize <= Uint32Values
         /\ Uint32Values \in Nat \ {0}
<1>1. ObjectBlockSize \in Nat \ {0} /\ ObjectBlocks \in Nat
  BY ObjectBlockAssumption
<1>2. (k + b) * ObjectBlockSize = k * ObjectBlockSize + b * ObjectBlockSize
  BY <1>1
<1>3. (k + b) * ObjectBlockSize <= ObjectBlocks * ObjectBlockSize
  BY <1>1
<1> QED BY <1>1, <1>2, <1>3, OffsetsFit, Uint32Assumption DEF offsetOf

\* The identifier of an object in the storage.
LEMMA GivenIdentifier ==
  ASSUME NEW k \in Nat, offsetOf(k) < Uint32Values, NEW size \in Nat, NEW media
  PROVE  LET u == createAddressFromArgs(media, k, ObjectBlockSize, size)
             v == createAddressFromFileOffset(k, ObjectBlockSize, size)
         IN /\ u \in Identifier /\ u.m_nOffset = offsetOf(k)
            /\ v \in Identifier /\ v.m_nOffset = offsetOf(k)
<1> DEFINE o == k * ObjectBlockSize
<1>1. Uint32Values \in Nat \ {0} /\ o \in Nat /\ o < Uint32Values
  BY Uint32Assumption, ObjectBlockAssumption DEF offsetOf
<1>2. o % Uint32Values = o /\ size % Uint32Values \in Int
  <2>1. 0 \in Nat /\ o \in 0 .. Uint32Values - 1
    BY <1>1
  <2> HIDE DEF o
  <2>2. (0 * Uint32Values + o) % Uint32Values = o
    BY <1>1, <2>1, PlaceOf
  <2> QED BY <1>1, <2>2
<1> HIDE DEF o
<1>3. NodeUID(DRAM, o, size % Uint32Values) \in Identifier
      /\ NodeUID(File, o, size % Uint32Values) \in Identifier
      /\ NodeUID(DRAM, o, size % Uint32Values).m_nOffset = o
      /\ NodeUID(File, o, size % Uint32Values).m_nOffset = o
  BY <1>1, <1>2 DEF NodeUID, Identifier, DRAM, File
<1>4. createAddressFromFileOffset(k, ObjectBlockSize, size) = NodeUID(File, o, size % Uint32Values)
  BY <1>2 DEF createAddressFromFileOffset, o
<1>5. createAddressFromDRAMCacheCounter(k, ObjectBlockSize, size) = NodeUID(DRAM, o, size % Uint32Values)
  BY <1>2 DEF createAddressFromDRAMCacheCounter, o
<1> QED BY <1>3, <1>4, <1>5 DEF createAddressFromArgs, offsetOf, o

-----------------------------------------------------------------------------
(* One object *)

\* An object that is written behind the others leaves them as they are, and is there.
LEMMA WritesObject ==
  ASSUME NEW m, DOMAIN m = Places, NEW entries, NEW k \in Nat, NEW b \in Nat,
         k + b <= ObjectBlocks, holdsObjects(m, entries, offsetOf(k)),
         NEW n, isObject(n), getSize(n) <= b * ObjectBlockSize,
         NEW u \in Identifier, u.m_nOffset = offsetOf(k)
  PROVE  LET w == put(m, offsetOf(k), serialized(n))
         IN /\ DOMAIN w = Places
            /\ holdsObjects(w, entries, offsetOf(k + b))
            /\ holdsObjects(w, entries \cup {[uid |-> u, node |-> n]}, offsetOf(k + b))
<1> DEFINE start == offsetOf(k)
           end == offsetOf(k + b)
           s == serialized(n)
           w == put(m, start, s)
           new == [uid |-> u, node |-> n]
<1>1. /\ start \in Nat /\ end \in Nat /\ end = start + b * ObjectBlockSize /\ b * ObjectBlockSize \in Nat
      /\ end <= ObjectBlocks * ObjectBlockSize
      /\ ObjectBlocks * ObjectBlockSize \in Nat
  BY BlockOffsets, ObjectBlockAssumption
<1>2. s \in Seq(AByte) /\ Len(s) = getSize(n) /\ getSize(n) \in Nat \ {0}
  BY ObjectBytes
<1> HIDE DEF start, end, s
<1>3. start + getSize(n) <= end
  BY <1>1, <1>2
<1>4. DOMAIN w = Places
  BY PutDomain
<1>5. contains(w, start, s)
  <2>1. start .. start + Len(s) - 1 \subseteq Places
    BY <1>1, <1>2, <1>3 DEF Places
  <2> QED BY <1>1, <1>2, <2>1, PutContains
<1>6. ASSUME NEW e \in entries PROVE holdsObject(w, e, end) /\ e.uid.m_nOffset # start
  <2> DEFINE o == e.uid.m_nOffset
             t == serialized(e.node)
  <2>1. /\ isObject(e.node) /\ e.uid \in Identifier
        /\ o \in Nat /\ o + getSize(e.node) <= start
        /\ contains(m, o, t)
    BY DEF holdsObjects, holdsObject, start
  <2>2. t \in Seq(AByte) /\ Len(t) = getSize(e.node) /\ getSize(e.node) \in Nat \ {0}
    BY <2>1, ObjectBytes
  <2> HIDE DEF o, t
  <2>3. o + Len(t) <= start /\ o .. o + Len(t) - 1 \subseteq DOMAIN m
    BY <1>1, <2>1, <2>2 DEF Places
  <2>4. contains(w, o, t)
    BY <1>1, <1>2, <2>1, <2>2, <2>3, PutKeeps
  <2>5. o + getSize(e.node) <= end /\ o # start
    BY <1>1, <2>1, <2>2
  <2> QED BY <2>1, <2>4, <2>5 DEF holdsObject, o, t
<1>7. holdsObject(w, new, end)
  BY <1>1, <1>3, <1>5 DEF holdsObject, start, s
<1>8. new.uid.m_nOffset = start
  BY DEF start
<1>9. holdsObjects(w, entries, end)
  BY <1>6 DEF holdsObjects
<1>10. holdsObjects(w, entries \cup {new}, end)
  BY <1>6, <1>7, <1>8, <1>9 DEF holdsObjects
<1> QED BY <1>4, <1>9, <1>10 DEF start, end, s

\* The objects that are there are as well before a later end.
LEMMA HoldsBefore ==
  ASSUME NEW m, NEW entries, NEW k \in Nat, NEW b \in Nat, k + b <= ObjectBlocks,
         holdsObjects(m, entries, offsetOf(k))
  PROVE  holdsObjects(m, entries, offsetOf(k + b))
<1>1. offsetOf(k) \in Nat /\ offsetOf(k + b) \in Nat /\ offsetOf(k) <= offsetOf(k + b)
  BY BlockOffsets, ObjectBlockAssumption
<1> QED
  <2>1. ASSUME NEW e \in entries PROVE holdsObject(m, e, offsetOf(k + b))
    <3>1. holdsObject(m, e, offsetOf(k))
      BY DEF holdsObjects
    <3>2. getSize(e.node) \in Nat
      BY <3>1, ObjectBytes DEF holdsObject
    <3> QED BY <1>1, <3>1, <3>2 DEF holdsObject
  <2> QED BY <2>1 DEF holdsObjects

\* A stream gets the bytes that memory gets.
LEMMA WrittenIsSerialized ==
  ASSUME NEW n
  PROVE  writtenAs(n) = serialized(n) /\ streamed(n) = serialized(n)
BY DEF writtenAs, streamed, serialized, dataNodeStream, indexNodeStream

\* The objects that the callers have.
LEMMA CallersObjects ==
  ASSUME ObjectInv
  PROVE  /\ \A n \in Object : isObject(n)
         /\ \A e \in placed : isObject(e.node) /\ e.uid \in Identifier
         /\ dataUIDs \subseteq Identifier
<1>1. \A e \in placed : isObject(e.node) /\ e.uid \in Identifier
  BY DEF ObjectInv, holdsObjects, holdsObject
<1>2. inMemory(FirstPointer) \in Identifier
  <2>1. /\ FirstPointer % Uint32Values \in Int /\ FirstPointer \div Uint32Values \in Int
        /\ Volatile \in Int
    BY PointerAssumption, Uint32Assumption DEF Volatile
  <2> QED BY <2>1 DEF inMemory, createAddressFromVolatilePointer, NodeUID, Identifier
<1>3. dataUIDs \subseteq Identifier
  BY <1>1, <1>2 DEF dataUIDs
<1>4. ASSUME NEW n \in DataObject PROVE isObject(n)
  BY DataObjectAssumption DEF isObject
<1>5. ASSUME NEW n \in IndexObject PROVE isObject(n)
  <2>1. PICK c \in dataUIDs \X dataUIDs : n = IndexNode(<<Pivot>>, c)
    BY DEF IndexObject
  <2>2. <<Pivot>> \in Seq(Int)
    BY PointerAssumption
  <2>3. c \in Seq(Identifier)
    <3>1. PICK u \in Identifier, v \in Identifier : c = <<u, v>>
      BY <1>3
    <3>2. <<u, v>> \in Seq(Identifier)
      OBVIOUS
    <3> QED BY <3>1, <3>2
  <2>4. n.keys = <<Pivot>> /\ n.items = c
    BY <2>1 DEF IndexNode
  <2>5. n = IndexNode(n.keys, n.items)
    BY <2>1, <2>4
  <2>6. n.keys \in Seq(Int) /\ n.items \in Seq(Identifier)
    BY <2>2, <2>3, <2>4
  <2> QED BY <2>5, <2>6 DEF isObject
<1> QED BY <1>1, <1>3, <1>4, <1>5 DEF Object

-----------------------------------------------------------------------------
(* Two objects: the folds over a list *)

\* The greatest of one or two places.
LEMMA GreatestPlace == Max({1}) = 1 /\ Max({2}) = 2 /\ Max({1, 2}) = 2
<1>1. Max({1}) = 1 /\ Max({2}) = 2
  BY DEF Max
<1>2. \A x \in {1, 2} : (\A y \in {1, 2} : x >= y) <=> x = 2
  OBVIOUS
<1> QED BY <1>1, <1>2 DEF Max

\* The sets of places that are left when the greatest is taken away.
LEMMA PlacesLeft ==
  /\ SUBSET {1, 2} = {{}, {1}, {2}, {1, 2}} /\ SUBSET {1} = {{}, {1}}
  /\ {1} \ {1} = {} /\ {2} \ {2} = {} /\ {1, 2} \ {2} = {1}
  /\ {1} # {2} /\ {1} # {1, 2} /\ {2} # {1, 2} /\ {1} # {} /\ {2} # {} /\ {1, 2} # {}
OBVIOUS

placing(m, e) == put(m, e.uid.m_nOffset, writtenAs(e.node))
placedAll(m, objects) ==
  FoldLeft(LAMBDA mm, e : put(mm, e.uid.m_nOffset, writtenAs(e.node)), m, objects)

\* Writing one object, or two, one after the other.
LEMMA PlacesOne ==
  ASSUME NEW m, NEW a
  PROVE  placedAll(m, <<a>>) = placing(m, a)
<1> DEFINE s == <<a>>
           isFold(g) == g = [P \in SUBSET DOMAIN s |->
                               IF P = {} THEN m ELSE placing(g[P \ {Max(P)}], s[Max(P)])]
           fold == CHOOSE g : isFold(g)
           g0 == [P \in SUBSET {1} |-> IF P = {} THEN m ELSE placing(m, a)]
<1>1. placedAll(m, s) = fold[DOMAIN s]
  BY DEF placedAll, FoldLeft, MapThenFoldSet, placing
<1>2. DOMAIN s = {1} /\ s[1] = a
  OBVIOUS
<1>3. isFold(g0)
  <2>1. ASSUME NEW P \in SUBSET {1}
        PROVE  g0[P] = IF P = {} THEN m ELSE placing(g0[P \ {Max(P)}], s[Max(P)])
    <3>1. g0[{}] = m
      OBVIOUS
    <3> QED BY <1>2, <3>1, GreatestPlace, PlacesLeft
  <2> QED BY <1>2, <2>1
<1>4. isFold(fold)
  BY <1>3
<1> HIDE DEF fold, g0, s
<1>5. ASSUME NEW P \in SUBSET {1}, P # {}
      PROVE  fold[P] = placing(fold[P \ {Max(P)}], s[Max(P)])
  <2>1. P \in SUBSET DOMAIN s
    BY <1>2, <1>5
  <2>2. fold[P] = IF P = {} THEN m ELSE placing(fold[P \ {Max(P)}], s[Max(P)])
    BY <1>4, <2>1, Zenon
  <2> QED BY <1>5, <2>2
<1>6. fold[{}] = m
  <2>1. {} \in SUBSET {1}
    OBVIOUS
  <2>2. \A P \in SUBSET {1} : P = {} => fold[P] = m
    BY <1>2, <1>4
  <2> QED BY ONLY <2>1, <2>2
<1>7. fold[{1}] = placing(fold[{}], a)
  <2>1. {1} \in SUBSET {1} /\ {1} # {}
    OBVIOUS
  <2>2. fold[{1}] = placing(fold[{1} \ {Max({1})}], s[Max({1})])
    BY ONLY <1>5, <2>1
  <2> QED BY <1>2, <2>2, GreatestPlace, PlacesLeft
<1> QED BY <1>1, <1>2, <1>6, <1>7 DEF s

LEMMA PlacesTwo ==
  ASSUME NEW m, NEW a, NEW b
  PROVE  placedAll(m, <<a, b>>) = placing(placing(m, a), b)
<1> DEFINE s == <<a, b>>
           isFold(g) == g = [P \in SUBSET DOMAIN s |->
                               IF P = {} THEN m ELSE placing(g[P \ {Max(P)}], s[Max(P)])]
           fold == CHOOSE g : isFold(g)
           g0 == [P \in SUBSET {1, 2} |->
                    IF P = {} THEN m ELSE IF P = {1} THEN placing(m, a)
                    ELSE IF P = {2} THEN placing(m, b) ELSE placing(placing(m, a), b)]
<1>1. placedAll(m, s) = fold[DOMAIN s]
  BY DEF placedAll, FoldLeft, MapThenFoldSet, placing
<1>2. DOMAIN s = {1, 2} /\ s[1] = a /\ s[2] = b
  OBVIOUS
<1>3. isFold(g0)
  <2>1. ASSUME NEW P \in SUBSET {1, 2}
        PROVE  g0[P] = IF P = {} THEN m ELSE placing(g0[P \ {Max(P)}], s[Max(P)])
    <3>1. g0[{}] = m /\ g0[{1}] = placing(m, a) /\ g0[{2}] = placing(m, b)
          /\ g0[{1, 2}] = placing(placing(m, a), b)
      BY PlacesLeft
    <3>2. P = {} \/ P = {1} \/ P = {2} \/ P = {1, 2}
      BY PlacesLeft
    <3> HIDE DEF g0, s
    <3>3. CASE P = {}
      BY <3>1, <3>3
    <3>4. CASE P = {1}
      <4>1. P \ {Max(P)} = {} /\ s[Max(P)] = a /\ P # {}
        BY <1>2, <3>4, GreatestPlace
      <4> QED BY <3>1, <3>4, <4>1
    <3>5. CASE P = {2}
      <4>1. P \ {Max(P)} = {} /\ s[Max(P)] = b /\ P # {}
        BY <1>2, <3>5, GreatestPlace
      <4> QED BY <3>1, <3>5, <4>1
    <3>6. CASE P = {1, 2}
      <4>1. P \ {Max(P)} = {1} /\ s[Max(P)] = b /\ P # {}
        BY <1>2, <3>6, GreatestPlace, PlacesLeft
      <4> QED BY <3>1, <3>6, <4>1
    <3> QED BY <3>2, <3>3, <3>4, <3>5, <3>6
  <2> QED BY <1>2, <2>1
<1>4. isFold(fold)
  BY <1>3
<1> HIDE DEF fold, g0, s
<1>5. ASSUME NEW P \in SUBSET {1, 2}, P # {}
      PROVE  fold[P] = placing(fold[P \ {Max(P)}], s[Max(P)])
  <2>1. P \in SUBSET DOMAIN s
    BY <1>2, <1>5
  <2>2. fold[P] = IF P = {} THEN m ELSE placing(fold[P \ {Max(P)}], s[Max(P)])
    BY <1>4, <2>1, Zenon
  <2> QED BY <1>5, <2>2
<1>6. fold[{}] = m
  <2>1. {} \in SUBSET {1, 2}
    OBVIOUS
  <2>2. \A P \in SUBSET {1, 2} : P = {} => fold[P] = m
    BY <1>2, <1>4
  <2> QED BY ONLY <2>1, <2>2
<1>7. fold[{1}] = placing(fold[{}], a)
  <2>1. {1} \in SUBSET {1, 2} /\ {1} # {}
    OBVIOUS
  <2>2. fold[{1}] = placing(fold[{1} \ {Max({1})}], s[Max({1})])
    BY ONLY <1>5, <2>1
  <2> QED BY <1>2, <2>2, GreatestPlace, PlacesLeft
<1>8. fold[{1, 2}] = placing(fold[{1}], b)
  <2>1. {1, 2} \in SUBSET {1, 2} /\ {1, 2} # {}
    OBVIOUS
  <2>2. fold[{1, 2}] = placing(fold[{1, 2} \ {Max({1, 2})}], s[Max({1, 2})])
    BY ONLY <1>5, <2>1
  <2> QED BY <1>2, <2>2, GreatestPlace, PlacesLeft
<1> QED BY <1>1, <1>2, <1>6, <1>7, <1>8 DEF s

\* An element of a list is prepared after those before it.
updatedNode(e, before) ==
  IF e.node.leaf THEN e.node
  ELSE [e.node EXCEPT !.items = [c \in DOMAIN @ |-> updatedChild(@[c], before)]]
preparedAfter(done, e) ==
  LET n   == updatedNode(e, done.objects)
      uid == createAddressFromArgs(mediaType, done.nPos, ObjectBlockSize, getSize(n))
  IN IF ~e.dirty /\ n = e.node THEN done
     ELSE [nPos |-> done.nPos + requiredBlocks(getSize(n)),
           objects |-> Append(done.objects, [old |-> e.old, uid |-> uid, node |-> n])]

LEMMA PreparesTwo ==
  ASSUME NEW a, NEW b
  PROVE  prepare(<<a, b>>) =
           preparedAfter(preparedAfter([nPos |-> m_nNextBlock, objects |-> << >>], a), b)
<1> DEFINE s == <<a, b>>
           m == [nPos |-> m_nNextBlock, objects |-> << >>]
           isFold(g) == g = [P \in SUBSET DOMAIN s |->
                               IF P = {} THEN m ELSE preparedAfter(g[P \ {Max(P)}], s[Max(P)])]
           fold == CHOOSE g : isFold(g)
           g0 == [P \in SUBSET {1, 2} |->
                    IF P = {} THEN m ELSE IF P = {1} THEN preparedAfter(m, a)
                    ELSE IF P = {2} THEN preparedAfter(m, b) ELSE preparedAfter(preparedAfter(m, a), b)]
<1>1. prepare(s) = fold[DOMAIN s]
  BY DEF prepare, FoldLeft, MapThenFoldSet, preparedAfter, updatedNode
<1>2. DOMAIN s = {1, 2} /\ s[1] = a /\ s[2] = b
  OBVIOUS
<1> HIDE DEF m
<1>3. isFold(g0)
  <2>1. ASSUME NEW P \in SUBSET {1, 2}
        PROVE  g0[P] = IF P = {} THEN m ELSE preparedAfter(g0[P \ {Max(P)}], s[Max(P)])
    <3>1. g0[{}] = m /\ g0[{1}] = preparedAfter(m, a) /\ g0[{2}] = preparedAfter(m, b)
          /\ g0[{1, 2}] = preparedAfter(preparedAfter(m, a), b)
      BY PlacesLeft
    <3>2. P = {} \/ P = {1} \/ P = {2} \/ P = {1, 2}
      BY PlacesLeft
    <3> HIDE DEF g0, s
    <3>3. CASE P = {}
      BY <3>1, <3>3
    <3>4. CASE P = {1}
      <4>1. P \ {Max(P)} = {} /\ s[Max(P)] = a /\ P # {}
        BY <1>2, <3>4, GreatestPlace
      <4> QED BY <3>1, <3>4, <4>1
    <3>5. CASE P = {2}
      <4>1. P \ {Max(P)} = {} /\ s[Max(P)] = b /\ P # {}
        BY <1>2, <3>5, GreatestPlace
      <4> QED BY <3>1, <3>5, <4>1
    <3>6. CASE P = {1, 2}
      <4>1. P \ {Max(P)} = {1} /\ s[Max(P)] = b /\ P # {}
        BY <1>2, <3>6, GreatestPlace, PlacesLeft
      <4> QED BY <3>1, <3>6, <4>1
    <3> QED BY <3>2, <3>3, <3>4, <3>5, <3>6
  <2> QED BY <1>2, <2>1
<1>4. isFold(fold)
  BY <1>3
<1> HIDE DEF fold, g0, s
<1>5. ASSUME NEW P \in SUBSET {1, 2}, P # {}
      PROVE  fold[P] = preparedAfter(fold[P \ {Max(P)}], s[Max(P)])
  <2>1. P \in SUBSET DOMAIN s
    BY <1>2, <1>5
  <2>2. fold[P] = IF P = {} THEN m ELSE preparedAfter(fold[P \ {Max(P)}], s[Max(P)])
    BY <1>4, <2>1, Zenon
  <2> QED BY <1>5, <2>2
<1>6. fold[{}] = m
  <2>1. {} \in SUBSET {1, 2}
    OBVIOUS
  <2>2. \A P \in SUBSET {1, 2} : P = {} => fold[P] = m
    BY <1>2, <1>4
  <2> QED BY ONLY <2>1, <2>2
<1>7. fold[{1}] = preparedAfter(fold[{}], a)
  <2>1. {1} \in SUBSET {1, 2} /\ {1} # {}
    OBVIOUS
  <2>2. fold[{1}] = preparedAfter(fold[{1} \ {Max({1})}], s[Max({1})])
    BY ONLY <1>5, <2>1
  <2> QED BY <1>2, <2>2, GreatestPlace, PlacesLeft
<1>8. fold[{1, 2}] = preparedAfter(fold[{1}], b)
  <2>1. {1, 2} \in SUBSET {1, 2} /\ {1, 2} # {}
    OBVIOUS
  <2>2. fold[{1, 2}] = preparedAfter(fold[{1, 2} \ {Max({1, 2})}], s[Max({1, 2})])
    BY ONLY <1>5, <2>1
  <2> QED BY <1>2, <2>2, GreatestPlace, PlacesLeft
<1> QED BY <1>1, <1>2, <1>6, <1>7, <1>8 DEF s, m

\* What prepareFlush makes of an object: it has the next blocks.
isGiven(o, k) ==
  /\ isObject(o.node)
  /\ o.uid = createAddressFromArgs(mediaType, k, ObjectBlockSize, getSize(o.node))
blocksOf(o) == requiredBlocks(getSize(o.node))

\* An identifier that is made of numbers is one.
LEMMA AlwaysIdentifier ==
  ASSUME NEW k \in Nat, NEW size \in Nat, NEW media
  PROVE  createAddressFromArgs(media, k, ObjectBlockSize, size) \in Identifier
<1>1. k * ObjectBlockSize \in Nat
  BY ObjectBlockAssumption
<1> DEFINE o == k * ObjectBlockSize
<1> HIDE DEF o
<1>2. o % Uint32Values \in Int /\ size % Uint32Values \in Int
  BY <1>1, Uint32Assumption DEF o
<1>3. createAddressFromArgs(media, k, ObjectBlockSize, size) \in
        {NodeUID(DRAM, o % Uint32Values, size % Uint32Values),
         NodeUID(File, o % Uint32Values, size % Uint32Values)}
  BY DEF createAddressFromArgs, createAddressFromDRAMCacheCounter, createAddressFromFileOffset, o
<1> QED BY <1>2, <1>3 DEF NodeUID, Identifier, DRAM, File

\* A second element after the first.
LEMMA AppendsSecond ==
  ASSUME NEW a, NEW b
  PROVE  Append(<<a>>, b) = <<a, b>>
<1> DEFINE E == {a, b}
           s == <<a>>
           r == Append(s, b)
           w == <<a, b>>
<1>1. s \in Seq(E) /\ Len(s) = 1 /\ s[1] = a
  OBVIOUS
<1>2. w \in Seq(E) /\ Len(w) = 2 /\ w[1] = a /\ w[2] = b
  OBVIOUS
<1>3. a \in E /\ b \in E
  OBVIOUS
<1> HIDE DEF s, w, E
<1>4. r \in Seq(E) /\ Len(r) = 2 /\ r[1] = a /\ r[2] = b
  <2>1. /\ r \in Seq(E) /\ Len(r) = Len(s) + 1 /\ r[Len(s) + 1] = b
        /\ \A i \in 1 .. Len(s) : r[i] = s[i]
    <3>1. r \in Seq(E)
      BY <1>1, <1>3
    <3>0. s \in Seq(E) /\ b \in E
      BY <1>1, <1>3
    <3>2. Len(r) = Len(s) + 1 /\ r[Len(s) + 1] = b
      BY ONLY <3>0
    <3>3. \A i \in 1 .. Len(s) : r[i] = s[i]
      BY <1>1, <1>3
    <3> QED BY <3>1, <3>2, <3>3
  <2>2. 1 \in 1 .. Len(s)
    BY <1>1
  <2> HIDE DEF r
  <2> QED BY <1>1, <2>1, <2>2
<1> HIDE DEF r
<1>5. \A i \in 1 .. 2 : r[i] = w[i]
  BY <1>2, <1>4
<1>6. r = w
  BY <1>2, <1>4, <1>5, SeqEqual
<1> QED BY <1>6 DEF r, s, w

\* A record with other items.
LEMMA ItemsReplaced ==
  ASSUME NEW k, NEW t, NEW s
  PROVE  [[leaf |-> FALSE, keys |-> k, items |-> t] EXCEPT !.items = s]
           = [leaf |-> FALSE, keys |-> k, items |-> s]
<1> DEFINE n == [leaf |-> FALSE, keys |-> k, items |-> t]
           r == [n EXCEPT !.items = s]
           w == [leaf |-> FALSE, keys |-> k, items |-> s]
<1>1. DOMAIN r = {"leaf", "keys", "items"} /\ r.leaf = FALSE /\ r.keys = k /\ r.items = s
  OBVIOUS
<1>2. r = [f \in {"leaf", "keys", "items"} |-> r[f]] /\ w = [f \in {"leaf", "keys", "items"} |-> w[f]]
  OBVIOUS
<1>3. w.leaf = FALSE /\ w.keys = k /\ w.items = s
  OBVIOUS
<1> HIDE DEF r, w
<1>4. \A f \in {"leaf", "keys", "items"} : r[f] = w[f]
  BY <1>1, <1>3
<1>5. r = w
  BY <1>2, <1>4
<1> QED BY <1>5 DEF r, w

\* An index node that learns of the new identifiers is an object still.
LEMMA UpdatedIsObject ==
  ASSUME NEW e, isObject(e.node), NEW before, \A f \in ToSet(before) : f.uid \in Identifier
  PROVE  isObject(updatedNode(e, before))
<1> DEFINE n == e.node
<1>1. CASE n.leaf
  BY <1>1 DEF updatedNode
<1>2. CASE ~n.leaf
  <2>1. /\ n = [leaf |-> n.leaf, keys |-> n.keys, items |-> n.items]
        /\ n.leaf = FALSE /\ n.keys \in Seq(Int) /\ n.items \in Seq(Identifier)
    BY <1>2, ObjectParts
  <2> DEFINE s == [c \in DOMAIN n.items |-> updatedChild(n.items[c], before)]
  <2>2. updatedNode(e, before) = [n EXCEPT !.items = s]
    BY <1>2 DEF updatedNode
  <2>3. s \in Seq(Identifier)
    <3>1. ASSUME NEW u \in Identifier PROVE updatedChild(u, before) \in Identifier
      <4>1. CASE \E f \in ToSet(before) : sameUID(u, f.old)
        <5>1. (CHOOSE f \in ToSet(before) : sameUID(u, f.old)) \in ToSet(before)
          BY <4>1
        <5> QED BY <4>1, <5>1 DEF updatedChild
      <4>2. CASE ~ \E f \in ToSet(before) : sameUID(u, f.old)
        BY <4>2 DEF updatedChild
      <4> QED BY <4>1, <4>2
    <3>2. s \in [1 .. Len(n.items) -> Identifier] /\ Len(n.items) \in Nat
      BY <2>1, <3>1
    <3> QED BY <3>2
  <2> HIDE DEF s
  <2>4. updatedNode(e, before) = [leaf |-> FALSE, keys |-> n.keys, items |-> s]
    <3> DEFINE k == n.keys
               t == n.items
    <3>1. n = [leaf |-> FALSE, keys |-> k, items |-> t]
      BY <2>1
    <3> HIDE DEF k, t
    <3>2. [[leaf |-> FALSE, keys |-> k, items |-> t] EXCEPT !.items = s]
            = [leaf |-> FALSE, keys |-> k, items |-> s]
      BY ItemsReplaced
    <3>3. [n EXCEPT !.items = s] = [leaf |-> FALSE, keys |-> k, items |-> s]
      BY ONLY <3>1, <3>2, Zenon
    <3> QED BY <2>2, <3>3 DEF k
  <2> DEFINE r == updatedNode(e, before)
  <2>5. r.keys = n.keys /\ r.items = s
    BY <2>4
  <2>6. r = IndexNode(r.keys, r.items)
    BY <2>4, <2>5 DEF IndexNode
  <2> HIDE DEF r
  <2>7. isObject(r)
    BY <2>1, <2>3, <2>5, <2>6 DEF isObject
  <2> QED BY <2>7 DEF r
<1> QED BY <1>1, <1>2

\* The two objects of a list: the first is prepared, and the second unless it is clean.
LEMMA Prepared ==
  ASSUME ObjectInv, NEW list \in Lists
  PROVE  \E o1, o2 :
           /\ isGiven(o1, m_nNextBlock)
           /\ \/ prepare(list) = [nPos |-> m_nNextBlock + blocksOf(o1), objects |-> <<o1>>]
              \/ /\ isGiven(o2, m_nNextBlock + blocksOf(o1))
                 /\ prepare(list) = [nPos |-> m_nNextBlock + blocksOf(o1) + blocksOf(o2),
                                     objects |-> <<o1, o2>>]
<1> DEFINE a == list[1]
           b == list[2]
           k == m_nNextBlock
           d0 == [nPos |-> k, objects |-> << >>]
<1>1. PICK u \in dataUIDs, x \in DataObject : list[1] = changed(u, x)
  BY DEF Lists
<1>2. list = <<a, b>>
  BY DEF Lists
<1>3. a.dirty /\ a.node = x /\ a.node.leaf /\ isObject(a.node)
  <2>1. a.dirty /\ a.node = x
    BY <1>1 DEF changed
  <2>2. x = DataNode(x.keys, x.items) /\ isObject(x)
    BY DataObjectAssumption DEF isObject
  <2>3. x.leaf
    <3>1. x = [leaf |-> TRUE, keys |-> x.keys, items |-> x.items]
      BY <2>2, Zenon DEF DataNode
    <3> QED BY <3>1
  <2> QED BY <2>1, <2>2, <2>3
<1>4. isObject(b.node)
  <2>1. b \in {changed(inMemory(SecondPointer), n) : n \in Object} \cup {clean(e) : e \in placed}
    BY DEF Lists
  <2>2. CASE b \in {changed(inMemory(SecondPointer), n) : n \in Object}
    <3>1. PICK n \in Object : b = changed(inMemory(SecondPointer), n)
      BY <2>2
    <3>2. b.node = n
      BY <3>1 DEF changed
    <3> QED BY <3>2, CallersObjects
  <2>3. CASE b \in {clean(e) : e \in placed}
    <3>1. PICK e \in placed : b = clean(e)
      BY <2>3
    <3>2. b.node = e.node
      BY <3>1 DEF clean
    <3> QED BY <3>2, CallersObjects
  <2> QED BY <2>1, <2>2, <2>3
<1>5. k \in Nat
  BY DEF ObjectInv
<1>6. prepare(list) = preparedAfter(preparedAfter(d0, a), b)
  <2>1. prepare(<<a, b>>) = preparedAfter(preparedAfter(d0, a), b)
    BY PreparesTwo
  <2> QED BY <1>2, <2>1
<1> HIDE DEF a, b
<1> DEFINE uid1 == createAddressFromArgs(mediaType, k, ObjectBlockSize, getSize(a.node))
           o1 == [old |-> a.old, uid |-> uid1, node |-> a.node]
           d1 == [nPos |-> k + blocksOf(o1), objects |-> <<o1>>]
<1>7. preparedAfter(d0, a) = d1
  <2>1. updatedNode(a, d0.objects) = a.node
    BY <1>3 DEF updatedNode
  <2>2. preparedAfter(d0, a) =
          [nPos |-> d0.nPos + requiredBlocks(getSize(a.node)),
           objects |-> Append(d0.objects,
             [old |-> a.old,
              uid |-> createAddressFromArgs(mediaType, d0.nPos, ObjectBlockSize, getSize(a.node)),
              node |-> a.node])]
    BY <1>3, <2>1 DEF preparedAfter
  <2>3. d0.nPos = k /\ d0.objects = << >> /\ o1.node = a.node
    OBVIOUS
  <2> HIDE DEF d0
  <2>4. Append(d0.objects, o1) = <<o1>>
    BY <2>3
  <2> QED BY <2>2, <2>3, <2>4 DEF blocksOf
<1>8. isGiven(o1, k) /\ o1.uid \in Identifier
  <2>1. getSize(a.node) \in Nat
    BY <1>3, ObjectBytes
  <2>2. uid1 \in Identifier
    BY <1>5, <2>1, AlwaysIdentifier
  <2> QED BY <1>3, <2>2 DEF isGiven
<1> DEFINE n == updatedNode(b, d1.objects)
           k1 == k + blocksOf(o1)
           o2 == [old |-> b.old, uid |-> createAddressFromArgs(mediaType, k1, ObjectBlockSize, getSize(n)),
                  node |-> n]
<1> HIDE DEF o1
<1>9. isObject(n)
  <2>1. \A f \in ToSet(d1.objects) : f.uid \in Identifier
    <3>1. ToSet(d1.objects) = {o1}
      BY DEF ToSet
    <3> QED BY <1>8, <3>1
  <2> HIDE DEF d1
  <2> QED BY <1>4, <2>1, UpdatedIsObject
<1>10. \/ preparedAfter(d1, b) = d1
       \/ preparedAfter(d1, b) = [nPos |-> k1 + blocksOf(o2), objects |-> <<o1, o2>>]
  <2>1. d1.nPos = k1 /\ d1.objects = <<o1>>
    OBVIOUS
  <2> HIDE DEF d1, k1
  <2>2. \/ preparedAfter(d1, b) = d1
        \/ preparedAfter(d1, b) =
             [nPos |-> d1.nPos + requiredBlocks(getSize(n)),
              objects |-> Append(d1.objects, [old |-> b.old,
                uid |-> createAddressFromArgs(mediaType, d1.nPos, ObjectBlockSize, getSize(n)),
                node |-> n])]
    BY DEF preparedAfter
  <2>3. blocksOf(o2) = requiredBlocks(getSize(n))
    BY DEF blocksOf
  <2> HIDE DEF n
  <2>4. Append(d1.objects, o2) = <<o1, o2>>
    <3> HIDE DEF o2
    <3>1. Append(<<o1>>, o2) = <<o1, o2>>
      BY AppendsSecond
    <3> QED BY ONLY <2>1, <3>1, Zenon
  <2> QED BY <2>1, <2>2, <2>3, <2>4
<1>11. isGiven(o2, k1)
  <2>1. o2.node = n /\ o2.uid = createAddressFromArgs(mediaType, k1, ObjectBlockSize, getSize(n))
    OBVIOUS
  <2> HIDE DEF o2, n, k1
  <2> QED BY <1>9, <2>1 DEF isGiven
<1>12. prepare(list) = d1 \/ prepare(list) = [nPos |-> k1 + blocksOf(o2), objects |-> <<o1, o2>>]
  <2> HIDE DEF d0, d1, o2, k1
  <2> QED BY <1>6, <1>7, <1>10
<1> HIDE DEF o2, n
<1>13. isGiven(o1, m_nNextBlock) /\ isGiven(o2, m_nNextBlock + blocksOf(o1))
  BY <1>8, <1>11
<1>14. \/ prepare(list) = [nPos |-> m_nNextBlock + blocksOf(o1), objects |-> <<o1>>]
       \/ prepare(list) = [nPos |-> m_nNextBlock + blocksOf(o1) + blocksOf(o2), objects |-> <<o1, o2>>]
  BY <1>12
<1> WITNESS o1, o2
<1> QED BY <1>13, <1>14

-----------------------------------------------------------------------------
(* The steps *)

\* Mapping a file again, or clearing memory.
LEMMA ConstructKeeps ==
  ASSUME ObjectInv,
         (Construct_Volatile \/ Construct_File \/ Construct_PMem)
  PROVE  ObjectInv'
<1>1. PICK m : constructs(m) /\ m \in {Cleared, mapFile}
  BY DEF Construct_Volatile, Construct_File, Construct_PMem
<1>2. DOMAIN m = Places
  <2>1. DOMAIN Cleared = Places
    BY DEF Cleared, Places
  <2>2. mapFile = Cleared \/ (mapFile = memory /\ memory # NoFile)
    BY Zenon DEF mapFile
  <2>3. memory = NoFile \/ DOMAIN memory = Places
    BY DEF ObjectInv
  <2>4. DOMAIN mapFile = Places
    BY ONLY <2>1, <2>2, <2>3, Zenon
  <2>5. m = Cleared \/ m = mapFile
    BY <1>1
  <2> QED BY ONLY <2>1, <2>4, <2>5, Zenon
<1>3. /\ constructed' = TRUE /\ memory' = m /\ m_nNextBlock' = 0 /\ placed' = {} /\ storageClass' = storageClass
  BY <1>1 DEF constructs, ObjectInv
<1>4. 0 \in 0 .. ObjectBlocks
  BY ObjectBlockAssumption
<1> QED BY <1>2, <1>3, <1>4 DEF ObjectInv, holdsObjects

LEMMA DestroyKeeps ==
  ASSUME ObjectInv,
         (Destroy_Volatile \/ Destroy_File \/ Destroy_PMem)
  PROVE  ObjectInv'
<1>1. PICK m : destroys(m) /\ m \in {NoFile, memory}
  BY DEF Destroy_Volatile, Destroy_File, Destroy_PMem
<1>2. m = NoFile \/ DOMAIN m = Places
  BY <1>1 DEF ObjectInv
<1>3. /\ constructed' = FALSE /\ memory' = m /\ m_nNextBlock' = 0 /\ placed' = {} /\ storageClass' = storageClass
  BY <1>1 DEF destroys
<1>4. 0 \in 0 .. ObjectBlocks
  BY ObjectBlockAssumption
<1> QED BY <1>2, <1>3, <1>4 DEF ObjectInv, holdsObjects

\* addObject.
LEMMA AddObjectKeeps ==
  ASSUME ObjectInv, NEW n \in Object,
         (AddObject_Volatile(n) \/ AddObject_File(n) \/ AddObject_PMem(n))
  PROVE  ObjectInv'
<1> DEFINE k == m_nNextBlock
           s == serialized(n)
           b == requiredBlocks(Len(s) + Uint8)
           u == createAddressFromFileOffset(k, ObjectBlockSize, Len(s) + Uint8)
<1>1. added(n)
  BY DEF AddObject_Volatile, AddObject_File, AddObject_PMem
<1>2. isObject(n)
  BY CallersObjects
<1>3. /\ constructed /\ k + b <= ObjectBlocks
      /\ memory' = put(memory, offsetOf(k), s)
      /\ m_nNextBlock' = k + b
      /\ placed' = placed \cup {[uid |-> u, node |-> n]}
      /\ storageClass' = storageClass /\ constructed' = constructed
  BY <1>1, WrittenIsSerialized DEF added
<1>4. s \in Seq(AByte) /\ Len(s) = getSize(n) /\ getSize(n) \in Nat \ {0}
  BY <1>2, ObjectBytes
<1>5. k \in Nat /\ DOMAIN memory = Places /\ holdsObjects(memory, placed, offsetOf(k))
  BY <1>3 DEF ObjectInv
<1> HIDE DEF s
<1>6. b \in Nat /\ getSize(n) <= b * ObjectBlockSize /\ Len(s) + Uint8 \in Nat /\ b * ObjectBlockSize \in Nat
  <2>1. Len(s) + Uint8 \in Nat /\ getSize(n) <= Len(s) + Uint8
    BY <1>4 DEF Uint8
  <2>2. b \in Nat /\ b * ObjectBlockSize >= Len(s) + Uint8
    BY <2>1, RequiredCovers
  <2> HIDE DEF b
  <2>3. b * ObjectBlockSize \in Nat
    BY <2>2, ObjectBlockAssumption
  <2> QED BY <1>4, <2>1, <2>2, <2>3
<1> HIDE DEF b
<1>7. offsetOf(k) < Uint32Values
  <2>1. /\ offsetOf(k) \in Nat /\ offsetOf(k + b) = offsetOf(k) + b * ObjectBlockSize
        /\ offsetOf(k + b) <= ObjectBlocks * ObjectBlockSize
        /\ ObjectBlocks * ObjectBlockSize <= Uint32Values /\ Uint32Values \in Nat
    BY <1>3, <1>5, <1>6, BlockOffsets
  <2>2. ObjectBlocks * ObjectBlockSize \in Nat
    BY ObjectBlockAssumption
  <2> QED BY <1>4, <1>6, <2>1, <2>2
<1>8. u \in Identifier /\ u.m_nOffset = offsetOf(k)
  BY <1>5, <1>6, <1>7, GivenIdentifier
<1> HIDE DEF u
<1>9. /\ DOMAIN memory' = Places
      /\ holdsObjects(memory', placed', offsetOf(k + b))
  BY <1>2, <1>3, <1>4, <1>5, <1>6, <1>8, WritesObject DEF s
<1>10. k + b \in 0 .. ObjectBlocks
  BY <1>3, <1>5, <1>6
<1> HIDE DEF k
<1>11. holdsObjects(memory, placed, offsetOf(m_nNextBlock))'
  BY <1>3, <1>9 DEF holdsObjects, holdsObject, offsetOf
<1> QED BY <1>3, <1>9, <1>10, <1>11 DEF ObjectInv

\* An object that a stream refuses is written behind the others all the same.
LEMMA RefusedKeeps ==
  ASSUME ObjectInv, NEW n \in Object, Refused_File(n)
  PROVE  ObjectInv'
<1> DEFINE k == m_nNextBlock
           s == serialized(n)
           b == requiredBlocks(getSize(n) + Uint8)
           start == offsetOf(k)
           w == put(memory, start, s)
<1>1. isObject(n)
  BY CallersObjects
<1>2. /\ constructed /\ k + b <= ObjectBlocks /\ memory' = w
      /\ m_nNextBlock' = k /\ placed' = placed
      /\ storageClass' = storageClass /\ constructed' = constructed
  BY WrittenIsSerialized DEF Refused_File
<1>3. k \in Nat /\ k \in 0 .. ObjectBlocks /\ DOMAIN memory = Places /\ holdsObjects(memory, placed, start)
  BY <1>2 DEF ObjectInv
<1>4. start \in Nat /\ start <= ObjectBlocks * ObjectBlockSize /\ ObjectBlocks * ObjectBlockSize \in Nat
  <2>1. k + 0 <= ObjectBlocks /\ ObjectBlocks * ObjectBlockSize \in Nat /\ k + 0 = k
    BY <1>3, ObjectBlockAssumption
  <2> QED BY <1>3, <2>1, BlockOffsets
<1>5. s \in Seq(AByte)
  BY <1>1, ObjectBytes
<1> HIDE DEF s, start
<1>6. DOMAIN w = Places
  BY <1>3, PutDomain
<1>7. ASSUME NEW e \in placed PROVE holdsObject(w, e, start)
  <2> DEFINE o == e.uid.m_nOffset
             t == serialized(e.node)
  <2>1. /\ isObject(e.node) /\ e.uid \in Identifier
        /\ o \in Nat /\ o + getSize(e.node) <= start
        /\ contains(memory, o, t)
    BY <1>3 DEF holdsObjects, holdsObject
  <2>2. t \in Seq(AByte) /\ Len(t) = getSize(e.node) /\ getSize(e.node) \in Nat
    BY <2>1, ObjectBytes
  <2> HIDE DEF o, t
  <2>3. o + Len(t) <= start /\ o .. o + Len(t) - 1 \subseteq DOMAIN memory
    BY <1>3, <1>4, <2>1, <2>2 DEF Places
  <2>4. contains(w, o, t)
    BY <1>4, <1>5, <2>1, <2>2, <2>3, PutKeeps
  <2> QED BY <2>1, <2>4 DEF holdsObject, o, t
<1>8. holdsObjects(w, placed, start)
  BY <1>3, <1>7 DEF holdsObjects
<1>9. holdsObjects(memory, placed, offsetOf(m_nNextBlock))'
  BY <1>2, <1>8 DEF holdsObjects, holdsObject, offsetOf, start
<1> QED BY <1>2, <1>3, <1>6, <1>9 DEF ObjectInv

\* The first elements of a short list.
LEMMA FirstOfOne ==
  ASSUME NEW a
  PROVE  SubSeq(<<a>>, 1, 1) = <<a>>
<1> DEFINE s == <<a>>
<1>1. s \in Seq({a}) /\ Len(s) = 1
  OBVIOUS
<1> HIDE DEF s
<1>2. SubSeq(s, 1, Len(s)) = s
  BY <1>1, SubSeqFull
<1>3. SubSeq(s, 1, 1) = s
  BY ONLY <1>1, <1>2, Zenon
<1> QED BY ONLY <1>3, Zenon DEF s

LEMMA FirstOfTwo ==
  ASSUME NEW a, NEW b
  PROVE  SubSeq(<<a, b>>, 1, 1) = <<a>> /\ SubSeq(<<a, b>>, 1, 2) = <<a, b>>
<1> DEFINE s == <<a, b>>
           w == <<a>>
           r == SubSeq(s, 1, 1)
           E == {a, b}
<1>1. s \in Seq(E) /\ Len(s) = 2 /\ s[1] = a
  OBVIOUS
<1>2. w \in Seq(E) /\ Len(w) = 1 /\ w[1] = a
  OBVIOUS
<1> HIDE DEF s, w, E
<1>3. SubSeq(s, 1, Len(s)) = s
  BY <1>1, SubSeqFull
<1>4. SubSeq(s, 1, 2) = s
  BY ONLY <1>1, <1>3, Zenon
<1>5. \A i \in 1 .. 1 : s[i] \in E
  BY <1>1
<1>6. 1 \in Int
  OBVIOUS
<1>7. /\ r \in Seq(E)
      /\ Len(r) = (IF 1 <= 1 THEN 1 - 1 + 1 ELSE 0)
      /\ \A i \in 1 .. 1 - 1 + 1 : r[i] = s[1 + i - 1]
  BY <1>5, <1>6, SubSeqProperties DEF r
<1> HIDE DEF r
<1>8. Len(r) = 1 /\ r[1] = a
  BY ONLY <1>1, <1>7
<1>9. \A i \in 1 .. Len(r) : r[i] = w[i]
  BY <1>2, <1>8
<1>10. r = w
  BY <1>2, <1>7, <1>8, <1>9, SeqEqual
<1>11. SubSeq(s, 1, 1) = w
  BY ONLY <1>10, Zenon DEF r
<1> QED BY ONLY <1>4, <1>11, Zenon DEF s, w

\* A prepared object is written into its blocks.
LEMMA WritesGiven ==
  ASSUME NEW m, DOMAIN m = Places, NEW entries, NEW k \in Nat, NEW o, isGiven(o, k),
         k + blocksOf(o) <= ObjectBlocks, holdsObjects(m, entries, offsetOf(k))
  PROVE  /\ blocksOf(o) \in Nat
         /\ DOMAIN placing(m, o) = Places
         /\ holdsObjects(placing(m, o), entries, offsetOf(k + blocksOf(o)))
         /\ holdsObjects(placing(m, o), entries \cup {[uid |-> o.uid, node |-> o.node]},
                         offsetOf(k + blocksOf(o)))
<1> DEFINE n == o.node
           b == blocksOf(o)
           u == o.uid
<1>1. isObject(n) /\ getSize(n) \in Nat \ {0}
  BY ObjectBytes DEF isGiven
<1>2. b \in Nat /\ b * ObjectBlockSize >= getSize(n) /\ b * ObjectBlockSize \in Nat
  <2>1. b \in Nat /\ b * ObjectBlockSize >= getSize(n)
    BY <1>1, RequiredCovers DEF blocksOf
  <2> HIDE DEF b
  <2> QED BY <2>1, ObjectBlockAssumption
<1>3. k + b <= ObjectBlocks
  OBVIOUS
<1>4. u = createAddressFromArgs(mediaType, k, ObjectBlockSize, getSize(n))
  BY DEF isGiven
<1> HIDE DEF b, n, u
<1>5. offsetOf(k) < Uint32Values
  <2>1. /\ offsetOf(k) \in Nat /\ offsetOf(k + b) = offsetOf(k) + b * ObjectBlockSize
        /\ offsetOf(k + b) <= ObjectBlocks * ObjectBlockSize
        /\ ObjectBlocks * ObjectBlockSize <= Uint32Values /\ Uint32Values \in Nat
    BY <1>2, <1>3, BlockOffsets
  <2>2. ObjectBlocks * ObjectBlockSize \in Nat
    BY ObjectBlockAssumption
  <2> QED BY <1>1, <1>2, <2>1, <2>2
<1>6. u \in Identifier /\ u.m_nOffset = offsetOf(k)
  BY <1>1, <1>4, <1>5, GivenIdentifier
<1>7. placing(m, o) = put(m, offsetOf(k), serialized(n))
  BY <1>6, WrittenIsSerialized DEF placing, u, n
<1>8. getSize(n) <= b * ObjectBlockSize
  BY <1>1, <1>2
<1> DEFINE w == put(m, offsetOf(k), serialized(n))
<1>9. /\ DOMAIN w = Places
      /\ holdsObjects(w, entries, offsetOf(k + b))
      /\ holdsObjects(w, entries \cup {[uid |-> u, node |-> n]}, offsetOf(k + b))
  BY <1>1, <1>2, <1>3, <1>6, <1>8, WritesObject
<1> HIDE DEF w
<1>10. placing(m, o) = w
  BY <1>7 DEF w
<1> QED BY <1>2, <1>9, <1>10 DEF b, u, n

\* The first of the prepared objects, or all of them, are written: those that were there
\* are there still, and if all are written they are there too.
LEMMA WritesList ==
  ASSUME ObjectInv, constructed, NEW list \in Lists, prepare(list).nPos <= ObjectBlocks
  PROVE  LET os  == prepare(list).objects
             k2  == prepare(list).nPos
             new == {[uid |-> e.uid, node |-> e.node] : e \in ToSet(os)}
         IN /\ k2 \in 0 .. ObjectBlocks
            /\ Len(os) \in Nat
            /\ DOMAIN placedAll(memory, os) = Places
            /\ holdsObjects(placedAll(memory, os), placed \cup new, offsetOf(k2))
            /\ \A i \in 1 .. Len(os) :
                 LET w == placedAll(memory, SubSeq(os, 1, i))
                 IN DOMAIN w = Places /\ holdsObjects(w, placed, offsetOf(k2))
<1> DEFINE k == m_nNextBlock
<1>0. /\ k \in Nat /\ k <= ObjectBlocks /\ ObjectBlocks \in Nat
      /\ DOMAIN memory = Places /\ holdsObjects(memory, placed, offsetOf(k))
  BY ObjectBlockAssumption DEF ObjectInv
<1>1. PICK o1, o2 :
        /\ isGiven(o1, k)
        /\ \/ prepare(list) = [nPos |-> k + blocksOf(o1), objects |-> <<o1>>]
           \/ /\ isGiven(o2, k + blocksOf(o1))
              /\ prepare(list) = [nPos |-> k + blocksOf(o1) + blocksOf(o2), objects |-> <<o1, o2>>]
  BY Prepared
<1> DEFINE k1 == k + blocksOf(o1)
           w1 == placing(memory, o1)
           e1 == [uid |-> o1.uid, node |-> o1.node]
<1>2. blocksOf(o1) \in Nat
  BY <1>1, ObjectBytes, RequiredCovers DEF isGiven, blocksOf
<1>3. ASSUME k1 <= ObjectBlocks
      PROVE  /\ DOMAIN w1 = Places
             /\ holdsObjects(w1, placed, offsetOf(k1))
             /\ holdsObjects(w1, placed \cup {e1}, offsetOf(k1))
  BY <1>0, <1>1, <1>3, WritesGiven
<1>4. placedAll(memory, <<o1>>) = w1
  BY PlacesOne
<1>5. CASE prepare(list) = [nPos |-> k1, objects |-> <<o1>>]
  <2> DEFINE os == <<o1>>
  <2>1. prepare(list).nPos = k1 /\ prepare(list).objects = os
    BY <1>5
  <2>2. k1 <= ObjectBlocks /\ k1 \in 0 .. ObjectBlocks
    BY <1>0, <1>2, <2>1
  <2>3. Len(os) = 1 /\ ToSet(os) = {o1} /\ SubSeq(os, 1, 1) = os
    <3>1. DOMAIN os = {1} /\ os[1] = o1 /\ Len(os) = 1
      OBVIOUS
    <3>2. SubSeq(os, 1, 1) = os
      BY FirstOfOne, Zenon
    <3> HIDE DEF os
    <3> QED BY <3>1, <3>2 DEF ToSet
  <2> DEFINE new == {[uid |-> e.uid, node |-> e.node] : e \in ToSet(os)}
  <2>4. new = {e1}
    BY <2>3
  <2>5. placedAll(memory, os) = w1
    BY <1>4
  <2> HIDE DEF os, w1, e1, k1
  <2>6. \A i \in 1 .. Len(os) : placedAll(memory, SubSeq(os, 1, i)) = w1
    <3> TAKE i \in 1 .. Len(os)
    <3>1. Len(os) = 1
      BY <2>3
    <3>2. i = 1
      BY ONLY <3>1
    <3> QED BY ONLY <2>3, <2>5, <3>2, Zenon
  <2> HIDE DEF new
  <2> QED BY <1>3, <2>1, <2>2, <2>3, <2>4, <2>5, <2>6 DEF new
<1>6. CASE /\ isGiven(o2, k1)
           /\ prepare(list) = [nPos |-> k1 + blocksOf(o2), objects |-> <<o1, o2>>]
  <2> DEFINE os == <<o1, o2>>
             k2 == k1 + blocksOf(o2)
             w2 == placing(w1, o2)
             e2 == [uid |-> o2.uid, node |-> o2.node]
  <2>1. prepare(list).nPos = k2 /\ prepare(list).objects = os
    BY <1>6
  <2>2. blocksOf(o2) \in Nat
    BY <1>6, ObjectBytes, RequiredCovers DEF isGiven, blocksOf
  <2>3. k1 <= ObjectBlocks /\ k1 \in Nat /\ k2 <= ObjectBlocks /\ k2 \in 0 .. ObjectBlocks
    BY <1>0, <1>2, <2>1, <2>2
  <2>4. Len(os) = 2 /\ ToSet(os) = {o1, o2}
    <3>1. DOMAIN os = {1, 2} /\ os[1] = o1 /\ os[2] = o2
      OBVIOUS
    <3> QED BY <3>1 DEF ToSet
  <2>5. SubSeq(os, 1, 1) = <<o1>> /\ SubSeq(os, 1, 2) = os
    BY FirstOfTwo, Zenon
  <2> DEFINE new == {[uid |-> e.uid, node |-> e.node] : e \in ToSet(os)}
  <2>6. new = {e1} \cup {e2}
    BY <2>4
  <2>7. placedAll(memory, os) = w2
    BY PlacesTwo
  <2> HIDE DEF os, w1, e1, k1
  <2>8. /\ DOMAIN w1 = Places
        /\ holdsObjects(w1, placed, offsetOf(k1))
        /\ holdsObjects(w1, placed \cup {e1}, offsetOf(k1))
    BY <1>3, <2>3
  <2>9. /\ DOMAIN w2 = Places
        /\ holdsObjects(w2, placed, offsetOf(k2))
        /\ holdsObjects(w2, (placed \cup {e1}) \cup {e2}, offsetOf(k2))
    BY <1>6, <2>3, <2>8, WritesGiven
  <2>10. holdsObjects(w1, placed, offsetOf(k2))
    BY <2>2, <2>3, <2>8, HoldsBefore
  <2>11. placed \cup new = (placed \cup {e1}) \cup {e2}
    BY <2>6
  <2> HIDE DEF w2, e2, k2, new
  <2>12. ASSUME NEW i \in 1 .. Len(os)
         PROVE  /\ DOMAIN placedAll(memory, SubSeq(os, 1, i)) = Places
                /\ holdsObjects(placedAll(memory, SubSeq(os, 1, i)), placed, offsetOf(k2))
    <3>1. i = 1 \/ i = 2
      BY <2>4
    <3>2. CASE i = 1
      BY <1>4, <2>5, <2>8, <2>10, <3>2
    <3>3. CASE i = 2
      BY <2>5, <2>7, <2>9, <3>3
    <3> QED BY <3>1, <3>2, <3>3
  <2>13. holdsObjects(placedAll(memory, os), placed \cup new, offsetOf(k2))
    BY <2>7, <2>9, <2>11
  <2> QED BY <2>1, <2>3, <2>4, <2>7, <2>9, <2>12, <2>13 DEF new
<1> QED BY <1>1, <1>5, <1>6

\* addObjects.
LEMMA AddObjectsKeeps ==
  ASSUME ObjectInv, NEW list \in Lists,
         (AddObjects_Volatile(list) \/ AddObjects_File(list) \/ AddObjects_PMem(list))
  PROVE  ObjectInv'
<1> DEFINE os == prepare(list).objects
           k2 == prepare(list).nPos
           new == {[uid |-> e.uid, node |-> e.node] : e \in ToSet(os)}
           w == placedAll(memory, os)
<1>1. addedAll(list)
  BY DEF AddObjects_Volatile, AddObjects_File, AddObjects_PMem
<1>2. /\ constructed /\ k2 <= ObjectBlocks
      /\ m_nNextBlock' = k2 /\ memory' = w
      /\ storageClass' = storageClass /\ constructed' = constructed
      /\ placed' = placed \cup new
  BY <1>1 DEF addedAll, addsObjects, placedAll
<1>3. /\ k2 \in 0 .. ObjectBlocks
      /\ DOMAIN w = Places
      /\ holdsObjects(w, placed \cup new, offsetOf(k2))
  BY <1>2, WritesList
<1> HIDE DEF w, new, k2
<1>4. holdsObjects(memory, placed, offsetOf(m_nNextBlock))'
  BY <1>2, <1>3 DEF holdsObjects, holdsObject, offsetOf
<1> QED BY <1>2, <1>3, <1>4 DEF ObjectInv

\* A list of which a stream refuses an object.
LEMMA RefusedInKeeps ==
  ASSUME ObjectInv, NEW list \in Lists, RefusedIn_File(list)
  PROVE  ObjectInv'
<1> DEFINE os == prepare(list).objects
           k2 == prepare(list).nPos
           first == SelectInSeq(os, LAMBDA e : isRefused(e.node))
           w == placedAll(memory, SubSeq(os, 1, first))
<1>1. /\ constructed /\ k2 <= ObjectBlocks /\ first # 0
      /\ m_nNextBlock' = k2 /\ memory' = w
      /\ storageClass' = storageClass /\ constructed' = constructed
      /\ placed' = placed
  BY DEF RefusedIn_File, addsObjects, placedAll
<1>2. /\ k2 \in 0 .. ObjectBlocks /\ Len(os) \in Nat
      /\ \A i \in 1 .. Len(os) :
           LET v == placedAll(memory, SubSeq(os, 1, i))
           IN DOMAIN v = Places /\ holdsObjects(v, placed, offsetOf(k2))
  BY <1>1, WritesList
<1>3. first \in 1 .. Len(os)
  <2> DEFINE I == {i \in 1 .. Len(os) : isRefused(os[i].node)}
  <2>1. first = IF I # {} THEN Min(I) ELSE 0
    BY DEF SelectInSeq
  <2>2. I # {} /\ first = Min(I)
    BY <1>1, <2>1
  <2>3. PICK x \in I : \A y \in I : x <= y
    <3>1. I \subseteq Nat
      BY <1>2
    <3> QED BY <2>2, <3>1, LeastNumber
  <2>4. Min(I) \in I
    BY <2>3 DEF Min
  <2> QED BY <2>2, <2>4
<1> HIDE DEF first
<1>4. DOMAIN w = Places /\ holdsObjects(w, placed, offsetOf(k2))
  BY <1>2, <1>3
<1> HIDE DEF w, k2
<1>5. holdsObjects(memory, placed, offsetOf(m_nNextBlock))'
  BY <1>1, <1>4 DEF holdsObjects, holdsObject, offsetOf
<1> QED BY <1>1, <1>2, <1>4, <1>5 DEF ObjectInv

LEMMA ObjectInitHolds == (\E class \in ObjectClasses : ObjectInit(class)) => ObjectInv
<1> SUFFICES ASSUME NEW class \in ObjectClasses, ObjectInit(class) PROVE ObjectInv
  OBVIOUS
<1>1. 0 \in 0 .. ObjectBlocks
  BY ObjectBlockAssumption
<1> QED BY <1>1 DEF ObjectInit, ObjectInv, holdsObjects

\* Every stored object has its bytes at the offset of its identifier, before the next
\* block, and no two have one offset.
THEOREM ObjectsSound == ObjectSpec => []ObjectInv
<1>1. ASSUME ObjectInv, [ObjectNext]_objectVars PROVE ObjectInv'
  <2>1. CASE Construct_Volatile \/ Construct_File \/ Construct_PMem
    BY <1>1, <2>1, ConstructKeeps
  <2>2. CASE Destroy_Volatile \/ Destroy_File \/ Destroy_PMem
    BY <1>1, <2>2, DestroyKeeps
  <2>3. CASE \E n \in Object : AddObject_Volatile(n) \/ AddObject_File(n) \/ AddObject_PMem(n)
    BY <1>1, <2>3, AddObjectKeeps
  <2>4. CASE \E n \in Object : Refused_File(n)
    BY <1>1, <2>4, RefusedKeeps
  <2>5. CASE \E list \in Lists :
               AddObjects_Volatile(list) \/ AddObjects_File(list) \/ AddObjects_PMem(list)
    BY <1>1, <2>5, AddObjectsKeeps
  <2>6. CASE \E list \in Lists : RefusedIn_File(list)
    BY <1>1, <2>6, RefusedInKeeps
  <2>7. CASE UNCHANGED objectVars
    <3>1. holdsObjects(memory, placed, offsetOf(m_nNextBlock))'
      BY <1>1, <2>7 DEF ObjectInv, holdsObjects, holdsObject, offsetOf, objectVars
    <3> QED BY <1>1, <2>7, <3>1 DEF ObjectInv, objectVars
  <2> QED BY <1>1, <2>1, <2>2, <2>3, <2>4, <2>5, <2>6, <2>7 DEF ObjectNext
<1> QED BY ObjectInitHolds, <1>1, PTL DEF ObjectSpec

\* Every object is read back by its identifier as it was stored, and no two identifiers
\* are equal, for every block size, number of blocks and width of keys and values.
THEOREM ObjectsStayReadable == ObjectSpec => []ObjectsReadBack
<1>1. ObjectInv => ObjectsReadBack
  <2> SUFFICES ASSUME ObjectInv, NEW e \in placed
               PROVE  /\ getObject(e.uid) = e.node
                      /\ storageClass = "pmem" => readOnlyFrom(memory, e.uid.m_nOffset) = e.node
                      /\ \A f \in placed : sameUID(e.uid, f.uid) => e = f
    BY DEF ObjectsReadBack
  <2>1. /\ isObject(e.node) /\ e.uid.m_nOffset \in Nat
        /\ contains(memory, e.uid.m_nOffset, serialized(e.node))
    BY DEF ObjectInv, holdsObjects, holdsObject
  <2>2. /\ fromMemory(memory, e.uid.m_nOffset) = e.node
        /\ fromStream(memory, e.uid.m_nOffset) = e.node
        /\ readOnlyFrom(memory, e.uid.m_nOffset) = e.node
    BY <2>1, ObjectDecodes
  <2>3. getObject(e.uid) = e.node
    BY <2>2 DEF ObjectInv, ObjectClasses, getObject, getObject_Volatile, getObject_File, getObject_PMem
  <2>4. \A f \in placed : sameUID(e.uid, f.uid) => e = f
    BY DEF ObjectInv, holdsObjects, sameUID
  <2> QED BY <2>2, <2>3, <2>4
<1> QED BY ObjectsSound, <1>1, PTL

-----------------------------------------------------------------------------
(* Nodes read from persistent memory *)

\* A node has its data in one place: it is moved, never copied.  Otherwise an operation
\* would change the copy in DRAM and readers would keep to the old one.
OnePlace ==
  /\ dram = [s \in Holder |-> dram[s]] /\ nvm = [s \in Holder |-> nvm[s]]
  /\ \A s \in Holder : dram[s] = NoNode \/ nvm[s] = NoNode

contents == [s \in Holder |-> content(s)]

-----------------------------------------------------------------------------

\* What an operation starts from is what readers see.
LEMMA DramCopyIsContent ==
  ASSUME OnePlace, NEW s \in Holder
  PROVE  dramCopy(s) = content(s) /\ nvmCopy(s) = NoNode
BY DEF OnePlace, dramCopy, nvmCopy, content

\* A node that is held has a content.
LEMMA HeldHasContent ==
  ASSUME NEW s \in Holder
  PROVE  nobody(s) <=> content(s) = NoNode
BY DEF nobody, content

\* An operation on one node replaces its content and no other.
LEMMA Mutates ==
  ASSUME OnePlace, NEW s \in Holder, NEW n, mutates(s, n)
  PROVE  OnePlace' /\ contents' = [contents EXCEPT ![s] = n]
<1>1. /\ dram' = [x \in Holder |-> IF x = s THEN n ELSE dram[x]]
      /\ nvm' = [x \in Holder |-> IF x = s THEN NoNode ELSE nvm[x]]
  BY DramCopyIsContent DEF mutates, OnePlace
<1>2. OnePlace'
  BY <1>1 DEF OnePlace
<1>3. \A x \in Holder : content(x)' = IF x = s THEN n ELSE content(x)
  BY <1>1 DEF content
<1>4. contents' = [contents EXCEPT ![s] = n]
  BY <1>3 DEF contents
<1> QED BY <1>2, <1>4

\* So does an operation on a node and its sibling.
LEMMA MutatesTwo ==
  ASSUME OnePlace, NEW s \in Holder, NEW t \in Holder, s # t, NEW n, NEW m,
         mutatesTwo(s, n, t, m)
  PROVE  OnePlace' /\ contents' = [contents EXCEPT ![s] = n, ![t] = m]
<1>1. /\ dram' = [x \in Holder |-> IF x = t THEN m ELSE IF x = s THEN n ELSE dram[x]]
      /\ nvm' = [x \in Holder |-> IF x = t \/ x = s THEN NoNode ELSE nvm[x]]
  BY DramCopyIsContent DEF mutatesTwo, OnePlace
<1>2. OnePlace'
  BY <1>1 DEF OnePlace
<1>3. \A x \in Holder : content(x)' = IF x = t THEN m ELSE IF x = s THEN n ELSE content(x)
  BY <1>1 DEF content
<1>4. contents' = [contents EXCEPT ![s] = n, ![t] = m]
  BY <1>3 DEF contents
<1> QED BY <1>2, <1>4

\* A node that is written and read again has the content it had.
LEMMA Restores ==
  ASSUME OnePlace, NEW s \in Holder, restores(s)
  PROVE  OnePlace' /\ contents' = contents
<1>1. /\ dram' = [x \in Holder |-> IF x = s THEN NoNode ELSE dram[x]]
      /\ nvm' = [x \in Holder |-> IF x = s THEN content(s) ELSE nvm[x]]
  BY DEF restores, OnePlace
<1>2. OnePlace'
  BY <1>1 DEF OnePlace
<1>3. \A x \in Holder : content(x)' = content(x)
  BY <1>1 DEF content, OnePlace
<1> QED BY <1>2, <1>3 DEF contents

\* A node that somebody gets, new or read, or lets go.
LEMMA Changes ==
  ASSUME OnePlace, NEW s \in Holder, NEW d, NEW p, d = NoNode \/ p = NoNode,
         dram' = [dram EXCEPT ![s] = d], nvm' = [nvm EXCEPT ![s] = p]
  PROVE  OnePlace' /\ contents' = [contents EXCEPT ![s] = IF p # NoNode THEN p ELSE d]
<1>1. /\ dram' = [x \in Holder |-> IF x = s THEN d ELSE dram[x]]
      /\ nvm' = [x \in Holder |-> IF x = s THEN p ELSE nvm[x]]
  BY DEF OnePlace
<1>2. OnePlace'
  BY <1>1 DEF OnePlace
<1>3. \A x \in Holder : content(x)' = IF x = s THEN (IF p # NoNode THEN p ELSE d) ELSE content(x)
  BY <1>1 DEF content
<1> QED BY <1>2, <1>3 DEF contents

-----------------------------------------------------------------------------
(* The nodes of both specifications are the same and so are the operations on them. *)

LEMMA SameEntries ==
  ASSUME NEW n, NEW k, NEW x
  PROVE  /\ Plain!holds(n, k) = holds(n, k)
         /\ Plain!withEntry(n, k, x) = withEntry(n, k, x)
         /\ Plain!withoutEntry(n, k) = withoutEntry(n, k)
         /\ Plain!withPivot(n, k, x) = withPivot(n, k, x)
<1>1. Plain!lowerBound(n, k) = lowerBound(n, k) /\ Plain!upperBound(n, k) = upperBound(n, k)
  BY Zenon DEF Plain!lowerBound, Plain!upperBound, lowerBound, upperBound, Plain!Cardinality, Cardinality
<1>2. \A q, i, e : Plain!InsertAt(q, i, e) = InsertAt(q, i, e) /\ Plain!RemoveAt(q, i) = RemoveAt(q, i)
  BY DEF Plain!InsertAt, InsertAt, Plain!RemoveAt, RemoveAt
<1>3. Plain!holds(n, k) = holds(n, k) /\ Plain!childIdx(n, k) = childIdx(n, k)
  BY <1>1 DEF Plain!holds, holds, Plain!childIdx, childIdx
<1>4. Plain!withEntry(n, k, x) = withEntry(n, k, x)
  BY <1>1, <1>2, Zenon DEF Plain!withEntry, withEntry
<1>5. Plain!withoutEntry(n, k) = withoutEntry(n, k)
  BY <1>1, <1>2, Zenon DEF Plain!withoutEntry, withoutEntry
<1>6. Plain!withPivot(n, k, x) = withPivot(n, k, x)
  BY <1>2, <1>3, Zenon DEF Plain!withPivot, withPivot
<1> QED BY <1>3, <1>4, <1>5, <1>6

LEMMA SameSplits ==
  ASSUME NEW n
  PROVE  Plain!splitLeft(n) = splitLeft(n) /\ Plain!splitRight(n) = splitRight(n)
BY DEF Plain!splitLeft, Plain!splitRight, Plain!middle, Plain!kept, Plain!take, Plain!drop,
       Plain!getKeysCount, splitLeft, splitRight, middle, kept, take, drop, getKeysCount

LEMMA SameMoves ==
  ASSUME NEW n, NEW m, NEW p
  PROVE  /\ Plain!gainFirst(n, m, p) = gainFirst(n, m, p) /\ Plain!loseLast(m) = loseLast(m)
         /\ Plain!gainLast(n, m, p) = gainLast(n, m, p) /\ Plain!loseFirst(m) = loseFirst(m)
         /\ Plain!mergeNodes(n, m, p) = mergeNodes(n, m, p)
BY DEF Plain!gainFirst, Plain!loseLast, Plain!gainLast, Plain!loseFirst, Plain!mergeNodes,
       Plain!Last, Plain!Front, gainFirst, loseLast, gainLast, loseFirst, mergeNodes, Last, Front

-----------------------------------------------------------------------------
(* What each operation does to the contents *)

\* The steps that move data between the two copies and change no content.
LEMMA RestoreAndChildren ==
  ASSUME OnePlace, NEW s \in Holder, Data_Restore(s) \/ Index_Restore(s) \/ Index_Children(s)
  PROVE  OnePlace' /\ contents' = contents
<1>1. CASE Data_Restore(s) \/ Index_Restore(s)
  BY <1>1, Restores DEF Data_Restore, Index_Restore
<1>2. CASE Index_Children(s)
  <2>1. mutates(s, content(s))
    BY <1>2, DramCopyIsContent DEF Index_Children
  <2>2. OnePlace' /\ contents' = [contents EXCEPT ![s] = content(s)]
    BY <2>1, Mutates
  <2>3. [contents EXCEPT ![s] = content(s)] = contents
    BY DEF contents
  <2> QED BY <2>2, <2>3
<1> QED BY <1>1, <1>2

\* A node that is made or read is one that the plain caller obtains.
LEMMA Obtains ==
  ASSUME OnePlace, NEW s \in Holder, NEW n, NEW k, NEW x, NEW y,
         Data_New(s) \/ Data_Read(s, n) \/ Index_New(s, k, x, y) \/ Index_Read(s, n)
  PROVE  OnePlace' /\ Plain!Obtain(s) /\ s \in Holder \ Plain!held
<1>1. nobody(s) /\ dram[s] = NoNode /\ nvm[s] = NoNode
  BY DEF Data_New, Data_Read, Index_New, Index_Read, nobody
<1>2. dram = [dram EXCEPT ![s] = NoNode] /\ nvm = [nvm EXCEPT ![s] = NoNode]
  BY <1>1 DEF OnePlace
<1>3. PICK d, p : /\ d = NoNode \/ p = NoNode
                  /\ dram' = [dram EXCEPT ![s] = d] /\ nvm' = [nvm EXCEPT ![s] = p]
  <2>1. CASE Data_New(s)
    BY <1>2, <2>1 DEF Data_New
  <2>2. CASE Index_New(s, k, x, y)
    BY <1>2, <2>2 DEF Index_New
  <2>3. CASE Data_Read(s, n) \/ Index_Read(s, n)
    BY <1>2, <2>3 DEF Data_Read, Index_Read
  <2> QED BY <2>1, <2>2, <2>3
<1>4. OnePlace' /\ contents' = [contents EXCEPT ![s] = IF p # NoNode THEN p ELSE d]
  BY <1>3, Changes
<1>5. contents' = [contents EXCEPT ![s] = contents'[s]]
  BY <1>4 DEF contents
<1>6. contents[s] = NoNode
  BY <1>1 DEF contents, content
<1> QED BY <1>4, <1>5, <1>6 DEF Plain!Obtain, Plain!held, contents

\* A node let go is released.
LEMMA LetsGo ==
  ASSUME OnePlace, NEW s \in Holder, LetGo(s)
  PROVE  OnePlace' /\ Plain!Release(s) /\ s \in Plain!held
<1>1. OnePlace' /\ contents' = [contents EXCEPT ![s] = IF NoNode # NoNode THEN NoNode ELSE NoNode]
  BY Changes DEF LetGo
<1>2. contents[s] # NoNode
  BY HeldHasContent DEF LetGo, contents
<1> QED BY <1>1, <1>2 DEF Plain!Release, Plain!become, Plain!held, contents

\* insert puts the same item at the same place.
LEMMA Inserts ==
  ASSUME OnePlace, NEW s \in Holder, NEW k \in NodeKey, NEW x \in Item,
         Data_Insert(s, k, x) \/ Index_Insert(s, k, x)
  PROVE  OnePlace' /\ Plain!InsertItem(s, k, x) /\ s \in Plain!held
<1>1. contents[s] = content(s) /\ dramCopy(s) = content(s) /\ contents[s] # NoNode
  BY DramCopyIsContent, HeldHasContent DEF contents, Data_Insert, Index_Insert, has
<1>2. mutates(s, IF contents[s].leaf THEN withEntry(contents[s], k, x)
                                     ELSE withPivot(contents[s], k, x))
  BY <1>1 DEF Data_Insert, Index_Insert, has
<1> DEFINE n == IF contents[s].leaf THEN withEntry(contents[s], k, x)
                                    ELSE withPivot(contents[s], k, x)
<1> HIDE DEF n
<1>3. OnePlace' /\ contents' = [contents EXCEPT ![s] = n]
  BY <1>2, Mutates DEF n
<1>4. n = IF contents[s].leaf THEN Plain!withEntry(contents[s], k, x)
                              ELSE Plain!withPivot(contents[s], k, x)
  BY SameEntries DEF n
<1> QED BY <1>1, <1>3, <1>4 DEF Plain!InsertItem, Plain!become, Plain!held, contents

\* remove takes the key away if it is there and changes nothing otherwise.
LEMMA Removes ==
  ASSUME OnePlace, NEW s \in Holder, NEW k \in NodeKey, Data_Remove(s, k)
  PROVE  /\ OnePlace'
         /\ contents' = contents \/ (Plain!RemoveKey(s, k) /\ s \in Plain!held)
<1>1. /\ contents[s] = content(s) /\ dramCopy(s) = content(s)
      /\ contents[s] # NoNode /\ contents[s].leaf
  BY DramCopyIsContent, HeldHasContent DEF contents, Data_Remove, has
<1>2. CASE holds(contents[s], k)
  <2>1. mutates(s, withoutEntry(contents[s], k))
    BY <1>1, <1>2 DEF Data_Remove
  <2>2. OnePlace' /\ contents' = [contents EXCEPT ![s] = withoutEntry(contents[s], k)]
    BY <2>1, Mutates
  <2> QED BY <1>1, <1>2, <2>2, SameEntries DEF Plain!RemoveKey, Plain!become, Plain!held, contents
<1>3. CASE ~holds(contents[s], k)
  <2>1. mutates(s, contents[s])
    BY <1>1, <1>3 DEF Data_Remove
  <2>2. OnePlace' /\ contents' = [contents EXCEPT ![s] = contents[s]]
    BY <2>1, Mutates
  <2>3. [contents EXCEPT ![s] = contents[s]] = contents
    BY DEF contents
  <2> QED BY <2>2, <2>3
<1> QED BY <1>2, <1>3

\* updateChildUID renames the first child that has the old identifier.
LEMMA UpdatesChild ==
  ASSUME OnePlace, NEW s \in Holder, NEW x \in Item, NEW y \in Item,
         Index_UpdateChildUID(s, x, y)
  PROVE  /\ OnePlace' /\ s \in Plain!held
         /\ ~contents[s].leaf /\ Plain!UpdateChildUID(s, x, y)
<1> DEFINE places == {i \in DOMAIN contents[s].items : contents[s].items[i] = x}
           first == CHOOSE i \in places : \A j \in places : i <= j
<1>1. /\ contents[s] = content(s) /\ dramCopy(s) = content(s)
      /\ contents[s] # NoNode /\ ~contents[s].leaf
  BY DramCopyIsContent, HeldHasContent DEF contents, Index_UpdateChildUID, has
<1>2. places # {} /\ mutates(s, [contents[s] EXCEPT !.items[first] = y])
  BY <1>1 DEF Index_UpdateChildUID, Min
<1>3. OnePlace' /\ contents' = [contents EXCEPT ![s] = [contents[s] EXCEPT !.items[first] = y]]
  BY <1>2, Mutates
<1> QED BY <1>1, <1>2, <1>3 DEF Plain!UpdateChildUID, Plain!become, Plain!held, contents

\* split fills the new sibling, which is in DRAM, whatever the node was before.
LEMMA Splits ==
  ASSUME OnePlace, NEW s \in Holder, NEW t \in Holder, Data_Split(s, t) \/ Index_Split(s, t)
  PROVE  OnePlace' /\ Plain!Split(s, t) /\ s \in Plain!held
<1>1. ~nobody(s) /\ nobody(t) /\ mutatesTwo(s, splitLeft(dramCopy(s)), t, splitRight(dramCopy(s)))
  BY DEF Data_Split, Index_Split, has
<1>2. /\ contents[s] = content(s) /\ dramCopy(s) = content(s) /\ contents[s] # NoNode
      /\ contents[t] = NoNode /\ s # t
  BY <1>1, DramCopyIsContent, HeldHasContent DEF contents
<1>3. mutatesTwo(s, splitLeft(contents[s]), t, splitRight(contents[s]))
  BY <1>1, <1>2
<1>4. OnePlace' /\ contents' = [contents EXCEPT ![s] = splitLeft(contents[s]),
                                                ![t] = splitRight(contents[s])]
  BY <1>2, <1>3, MutatesTwo
<1> QED BY <1>2, <1>4, SameSplits DEF Plain!Split, Plain!becomeTwo, Plain!held, contents

\* Two siblings of one kind that are held by different holders.
LEMMA Siblings ==
  ASSUME OnePlace, NEW s \in Holder, NEW t \in Holder, NEW leaf, has(s, leaf), has(t, leaf)
  PROVE  /\ contents[s] = content(s) /\ dramCopy(s) = content(s) /\ contents[s].leaf = leaf
         /\ contents[t] = content(t) /\ dramCopy(t) = content(t) /\ contents[t].leaf = leaf
         /\ s \in Plain!held /\ t \in Plain!kin(s)
<1>1. /\ contents[s] = content(s) /\ dramCopy(s) = content(s) /\ contents[s] # NoNode
      /\ contents[t] = content(t) /\ dramCopy(t) = content(t) /\ contents[t] # NoNode
  BY DramCopyIsContent, HeldHasContent DEF contents, has
<1>2. contents[s].leaf = leaf /\ contents[t].leaf = leaf
  BY <1>1 DEF has
<1>3. \A x \in Holder : contents[x] # NoNode => x \in Plain!held
  BY DEF Plain!held, contents
<1>4. t \in Plain!kin(s)
  BY <1>1, <1>2, <1>3 DEF Plain!kin, contents
<1> QED BY <1>1, <1>2, <1>3, <1>4

\* An entity moves over from the left sibling; between data nodes the pivot is unused.
LEMMA MovesFromLHS ==
  ASSUME OnePlace, NEW s \in Holder, NEW t \in Holder, NEW pivot \in NodeKey,
         Data_MoveFromLHS(s, t) \/ Index_MoveFromLHS(s, t, pivot)
  PROVE  OnePlace' /\ Plain!MoveFromLHS(s, t, pivot) /\ s \in Plain!held /\ t \in Plain!kin(s)
<1> DEFINE p == IF contents[s].leaf THEN 0 ELSE pivot
<1>1. s # t /\ mayLose(t) /\ \E leaf : has(s, leaf) /\ has(t, leaf)
  BY DEF Data_MoveFromLHS, Index_MoveFromLHS
<1>2. /\ contents[s] = content(s) /\ dramCopy(s) = content(s)
      /\ contents[t] = content(t) /\ dramCopy(t) = content(t)
      /\ s \in Plain!held /\ t \in Plain!kin(s)
  BY <1>1, Siblings
<1>3. mutatesTwo(s, gainFirst(contents[s], contents[t], p), t, loseLast(contents[t]))
  BY <1>2 DEF Data_MoveFromLHS, Index_MoveFromLHS, has
<1>4. gainFirst(contents[s], contents[t], p) = gainFirst(contents[s], contents[t], pivot)
  BY DEF gainFirst
<1> HIDE DEF p
<1>5. OnePlace' /\ contents' = [contents EXCEPT ![s] = gainFirst(contents[s], contents[t], p),
                                                ![t] = loseLast(contents[t])]
  BY <1>1, <1>3, MutatesTwo
<1>6. contents[t].keys # << >>
  BY <1>1, <1>2 DEF mayLose, getKeysCount
<1>7. contents' = [contents EXCEPT ![s] = Plain!gainFirst(contents[s], contents[t], pivot),
                                   ![t] = Plain!loseLast(contents[t])]
  BY <1>4, <1>5, SameMoves
<1> QED BY <1>1, <1>2, <1>5, <1>6, <1>7 DEF Plain!MoveFromLHS, Plain!becomeTwo, contents

\* And from the right sibling.
LEMMA MovesFromRHS ==
  ASSUME OnePlace, NEW s \in Holder, NEW t \in Holder, NEW pivot \in NodeKey,
         Data_MoveFromRHS(s, t) \/ Index_MoveFromRHS(s, t, pivot)
  PROVE  OnePlace' /\ Plain!MoveFromRHS(s, t, pivot) /\ s \in Plain!held /\ t \in Plain!kin(s)
<1> DEFINE p == IF contents[s].leaf THEN 0 ELSE pivot
<1>1. s # t /\ mayLose(t) /\ \E leaf : has(s, leaf) /\ has(t, leaf)
  BY DEF Data_MoveFromRHS, Index_MoveFromRHS
<1>2. /\ contents[s] = content(s) /\ dramCopy(s) = content(s)
      /\ contents[t] = content(t) /\ dramCopy(t) = content(t)
      /\ s \in Plain!held /\ t \in Plain!kin(s)
  BY <1>1, Siblings
<1>3. mutatesTwo(s, gainLast(contents[s], contents[t], p), t, loseFirst(contents[t]))
  BY <1>2 DEF Data_MoveFromRHS, Index_MoveFromRHS, has
<1>4. gainLast(contents[s], contents[t], p) = gainLast(contents[s], contents[t], pivot)
  BY DEF gainLast
<1> HIDE DEF p
<1>5. OnePlace' /\ contents' = [contents EXCEPT ![s] = gainLast(contents[s], contents[t], p),
                                                ![t] = loseFirst(contents[t])]
  BY <1>1, <1>3, MutatesTwo
<1>6. contents[t].keys # << >>
  BY <1>1, <1>2 DEF mayLose, getKeysCount
<1>7. contents' = [contents EXCEPT ![s] = Plain!gainLast(contents[s], contents[t], pivot),
                                   ![t] = Plain!loseFirst(contents[t])]
  BY <1>4, <1>5, SameMoves
<1> QED BY <1>1, <1>2, <1>5, <1>6, <1>7 DEF Plain!MoveFromRHS, Plain!becomeTwo, contents

\* A merge takes all of the right sibling and leaves that as it was, in DRAM.
LEMMA Merges ==
  ASSUME OnePlace, NEW s \in Holder, NEW t \in Holder, NEW pivot \in NodeKey,
         Data_Merge(s, t) \/ Index_Merge(s, t, pivot)
  PROVE  OnePlace' /\ Plain!Merge(s, t, pivot) /\ s \in Plain!held /\ t \in Plain!kin(s)
<1> DEFINE p == IF contents[s].leaf THEN 0 ELSE pivot
<1>1. s # t /\ \E leaf : has(s, leaf) /\ has(t, leaf)
  BY DEF Data_Merge, Index_Merge
<1>2. /\ contents[s] = content(s) /\ dramCopy(s) = content(s)
      /\ contents[t] = content(t) /\ dramCopy(t) = content(t)
      /\ s \in Plain!held /\ t \in Plain!kin(s)
  BY <1>1, Siblings
<1>3. mutatesTwo(s, mergeNodes(contents[s], contents[t], p), t, contents[t])
  BY <1>2 DEF Data_Merge, Index_Merge, has
<1>4. mergeNodes(contents[s], contents[t], p) = mergeNodes(contents[s], contents[t], pivot)
  BY DEF mergeNodes
<1> HIDE DEF p
<1>5. OnePlace' /\ contents' = [contents EXCEPT ![s] = mergeNodes(contents[s], contents[t], p),
                                                ![t] = contents[t]]
  BY <1>1, <1>3, MutatesTwo
<1>6. contents' = [contents EXCEPT ![s] = Plain!mergeNodes(contents[s], contents[t], pivot)]
  <2>1. contents' = [contents EXCEPT ![s] = mergeNodes(contents[s], contents[t], pivot)]
    BY <1>1, <1>4, <1>5 DEF contents
  <2> QED BY <2>1, SameMoves
<1>7. contents[s] # NoNode
  BY <1>1, <1>2, HeldHasContent DEF has
<1> QED BY <1>1, <1>2, <1>5, <1>6, <1>7 DEF Plain!Merge, Plain!become, contents

-----------------------------------------------------------------------------

\* Every step is a step of the plain nodes, or changes no content.
LEMMA StepIsPlain ==
  ASSUME OnePlace, NodesNext
  PROVE  OnePlace' /\ (Plain!Next \/ contents' = contents)
<1>1. ASSUME NEW s \in Holder, Data_Restore(s) \/ Index_Restore(s) \/ Index_Children(s)
      PROVE  OnePlace' /\ contents' = contents
  BY <1>1, RestoreAndChildren
<1>2. ASSUME NEW s \in Holder, NEW n, NEW k, NEW x, NEW y,
             Data_New(s) \/ Data_Read(s, n) \/ Index_New(s, k, x, y) \/ Index_Read(s, n)
      PROVE  OnePlace' /\ Plain!Next
  <2>1. OnePlace' /\ Plain!Obtain(s) /\ s \in Holder \ Plain!held
    BY <1>2, Obtains
  <2> QED BY <2>1 DEF Plain!Next
<1>3. ASSUME NEW s \in Holder, LetGo(s) PROVE OnePlace' /\ Plain!Next
  <2>1. OnePlace' /\ Plain!Release(s) /\ s \in Plain!held
    BY <1>3, LetsGo
  <2> QED BY <2>1 DEF Plain!Next
<1>4. ASSUME NEW s \in Holder, NEW k \in NodeKey, NEW x \in Item,
             Data_Insert(s, k, x) \/ Index_Insert(s, k, x)
      PROVE  OnePlace' /\ Plain!Next
  <2>1. OnePlace' /\ Plain!InsertItem(s, k, x) /\ s \in Plain!held
    BY <1>4, Inserts
  <2> QED BY <2>1 DEF Plain!Next
<1>5. ASSUME NEW s \in Holder, NEW k \in NodeKey, Data_Remove(s, k)
      PROVE  OnePlace' /\ (Plain!Next \/ contents' = contents)
  <2>1. OnePlace' /\ (contents' = contents \/ (Plain!RemoveKey(s, k) /\ s \in Plain!held))
    BY <1>5, Removes
  <2> QED BY <2>1 DEF Plain!Next
<1>6. ASSUME NEW s \in Holder, NEW x \in Item, NEW y \in Item, Index_UpdateChildUID(s, x, y)
      PROVE  OnePlace' /\ Plain!Next
  <2>1. /\ OnePlace' /\ s \in Plain!held
        /\ ~contents[s].leaf /\ Plain!UpdateChildUID(s, x, y)
    BY <1>6, UpdatesChild
  <2> QED BY <2>1 DEF Plain!Next, contents
<1>7. ASSUME NEW s \in Holder, NEW t \in Holder, Data_Split(s, t) \/ Index_Split(s, t)
      PROVE  OnePlace' /\ Plain!Next
  <2>1. OnePlace' /\ Plain!Split(s, t) /\ s \in Plain!held
    BY <1>7, Splits
  <2> QED BY <2>1 DEF Plain!Next
<1>8. ASSUME NEW s \in Holder, NEW t \in Holder, NEW pivot \in NodeKey,
             \/ Data_MoveFromLHS(s, t) \/ Data_MoveFromRHS(s, t) \/ Data_Merge(s, t)
             \/ Index_MoveFromLHS(s, t, pivot) \/ Index_MoveFromRHS(s, t, pivot)
             \/ Index_Merge(s, t, pivot)
      PROVE  OnePlace' /\ Plain!Next
  <2>1. /\ OnePlace' /\ s \in Plain!held /\ t \in Plain!kin(s)
        /\ \/ Plain!MoveFromLHS(s, t, pivot)
           \/ Plain!MoveFromRHS(s, t, pivot)
           \/ Plain!Merge(s, t, pivot)
    BY <1>8, MovesFromLHS, MovesFromRHS, Merges
  <2> QED BY <2>1 DEF Plain!Next
<1>9. \E pivot \in NodeKey : TRUE
  BY KeyAssumption
<1> QED BY <1>1, <1>2, <1>3, <1>4, <1>5, <1>6, <1>7, <1>8, <1>9 DEF NodesNext

\* Whatever is done to nodes that were read from persistent memory and to new ones,
\* readers see what they would see of plain nodes.
THEOREM ReadOnlyNodesArePlain == NodesSpec => ImplementsPlainNodes
<1>1. NodesInit => OnePlace /\ Plain!Init
  BY DEF NodesInit, OnePlace, Plain!Init, content
<1>2. OnePlace /\ [NodesNext]_nodeVars
      => OnePlace' /\ [Plain!Next]_([s \in Holder |-> content(s)])
  <2> SUFFICES ASSUME OnePlace, [NodesNext]_nodeVars
               PROVE  OnePlace' /\ (Plain!Next \/ contents' = contents)
    BY DEF contents
  <2>1. CASE UNCHANGED nodeVars
    BY <2>1 DEF nodeVars, OnePlace, contents, content
  <2> QED BY <2>1, StepIsPlain
<1> QED BY <1>1, <1>2, PTL DEF NodesSpec, ImplementsPlainNodes, Plain!Spec

=============================================================================
