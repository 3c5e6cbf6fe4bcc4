------------------------ MODULE MappedStorage_proofs ------------------------
(***************************************************************************)
(* For every block size, number of blocks, fanout, size of buffer, and     *)
(* width of keys and values: in each of the four classes of storage, nodes *)
(* and header are read back from their bytes as they were written.         *)
(***************************************************************************)
EXTENDS MappedStorage, BlockStorage_proofs, TLAPS

-----------------------------------------------------------------------------
(* Memory that holds a sequence of bytes: what is read from it, what writing elsewhere leaves
   of it, and that bytes written one after the other are there each in its place. *)

\* A byte, as Bytes has it.
AByte == Int \X Int

\* The bytes s are in the memory m from an offset on.
contains(m, off, s) == \A i \in 1 .. Len(s) : m[off + i - 1] = s[i]

-----------------------------------------------------------------------------
(* Numbers *)

\* The place of a byte tells which piece it is in, and where.
LEMMA PlaceOf ==
  ASSUME NEW q \in Nat, NEW w \in Nat \ {0}, NEW r \in 0 .. w - 1
  PROVE  (q * w + r) \div w = q /\ (q * w + r) % w = r
OBVIOUS

\* A number lower than n, and a place in it, make a place in n numbers.
LEMMA PlaceIn ==
  ASSUME NEW n \in Nat, NEW w \in Nat \ {0}, NEW i \in 1 .. n, NEW j \in 1 .. w
  PROVE  /\ (i - 1) * w + j \in 1 .. n * w
         /\ ((i - 1) * w + j - 1) \div w + 1 = i
         /\ (((i - 1) * w + j - 1) % w) + 1 = j
<1>1. /\ i - 1 \in Nat /\ j - 1 \in 0 .. w - 1
      /\ (i - 1) * w \in Nat
  OBVIOUS
<1>2. (i - 1) * w + j - 1 = (i - 1) * w + (j - 1)
  BY <1>1
<1>3. ((i - 1) * w + (j - 1)) \div w = i - 1 /\ ((i - 1) * w + (j - 1)) % w = j - 1
  BY <1>1, PlaceOf
<1>4. (i - 1) * w + w <= n * w
  <2>1. (i - 1) * w + w = i * w
    OBVIOUS
  <2>2. i * w <= n * w
    OBVIOUS
  <2> QED BY <2>1, <2>2
<1> QED BY <1>1, <1>2, <1>3, <1>4

\* Every place in n numbers is one in a number.
LEMMA PlaceFrom ==
  ASSUME NEW n \in Nat, NEW w \in Nat \ {0}, NEW o \in 1 .. n * w
  PROVE  /\ (o - 1) \div w + 1 \in 1 .. n
         /\ ((o - 1) % w) + 1 \in 1 .. w
         /\ o = ((o - 1) \div w) * w + ((o - 1) % w) + 1
<1> DEFINE q == (o - 1) \div w
           r == (o - 1) % w
<1>1. o - 1 \in Nat /\ q \in Int /\ r \in 0 .. w - 1 /\ o - 1 = w * q + r
  OBVIOUS
<1> HIDE DEF q, r
<1>2. q >= 0
  <2>1. CASE q <= -1
    <3>1. w * q <= -w
      BY <1>1, <2>1
    <3> QED BY <1>1, <3>1
  <2> QED BY <1>1, <2>1
<1>3. q <= n - 1
  <2>1. CASE q >= n
    <3>1. w * q >= n * w
      BY <1>1, <2>1
    <3> QED BY <1>1, <3>1
  <2> QED BY <1>1, <2>1
<1>4. w * q = q * w
  BY <1>1
<1> QED BY <1>1, <1>2, <1>3, <1>4 DEF q, r

\* A number takes its width.
LEMMA NumberFacts ==
  ASSUME NEW x \in Int, NEW w \in Nat
  PROVE  /\ number(x, w) \in Seq(AByte) /\ Len(number(x, w)) = w
         /\ \A i \in 1 .. w : number(x, w)[i] = byte(x, i)
<1>1. \A i \in 1 .. w : byte(x, i) \in AByte
  BY DEF byte, AByte
<1>2. number(x, w) \in [1 .. w -> AByte]
  BY <1>1 DEF number
<1>3. number(x, w) \in Seq(AByte)
  BY <1>2
<1> QED BY <1>2, <1>3 DEF number

\* memcpy from the bytes of a number reads the number.
LEMMA ReadsNumber ==
  ASSUME NEW m, NEW off \in Nat, NEW x \in Int, NEW w \in Nat \ {0},
         contains(m, off, number(x, w))
  PROVE  numberAt(m, off, w) = x
<1>1. \A i \in 1 .. w : m[off + i - 1] = byte(x, i)
  BY NumberFacts DEF contains
<1>2. m[off] = byte(x, 1)
  <2>1. 1 \in 1 .. w /\ off + 1 - 1 = off
    OBVIOUS
  <2> QED BY <1>1, <2>1
<1>3. m[off][1] = x
  BY <1>2 DEF byte
<1> QED BY <1>1, <1>3 DEF numberAt

\* The pieces of a sequence, all of one length.
pieces(p, w) == p \in Seq(Seq(AByte)) /\ \A i \in 1 .. Len(p) : Len(p[i]) = w

\* Pieces joined are as long as they are together, and each has its place.
LEMMA JoinedFacts ==
  ASSUME NEW w \in Nat \ {0}, NEW p, pieces(p, w)
  PROVE  /\ joined(p, w) \in Seq(AByte)
         /\ Len(p) \in Nat
         /\ Len(joined(p, w)) = Len(p) * w
         /\ \A i \in 1 .. Len(p) : \A j \in 1 .. w :
              joined(p, w)[(i - 1) * w + j] = p[i][j]
<1>1. Len(p) \in Nat /\ Len(p) * w \in Nat /\ DOMAIN p = 1 .. Len(p)
  BY DEF pieces
<1>2. ASSUME NEW i \in 1 .. Len(p), NEW j \in 1 .. w
      PROVE  p[i][j] \in AByte
  <2>1. p[i] \in Seq(AByte) /\ Len(p[i]) = w
    BY <1>1 DEF pieces
  <2> QED BY <2>1
<1>3. joined(p, w) \in [1 .. Len(p) * w -> AByte]
  BY <1>1, <1>2, PlaceFrom DEF joined
<1>4. joined(p, w) \in Seq(AByte)
  BY <1>1, <1>3
<1>5. Len(joined(p, w)) = Len(p) * w
  BY <1>1 DEF joined
<1>6. ASSUME NEW i \in 1 .. Len(p), NEW j \in 1 .. w
      PROVE  joined(p, w)[(i - 1) * w + j] = p[i][j]
  <2> DEFINE o == (i - 1) * w + j
  <2>1. o \in 1 .. Len(p) * w /\ (o - 1) \div w + 1 = i /\ ((o - 1) % w) + 1 = j
    BY <1>1, PlaceIn
  <2> HIDE DEF o
  <2>2. joined(p, w)[o] = p[((o - 1) \div w) + 1][((o - 1) % w) + 1]
    BY <2>1 DEF joined
  <2> QED BY <2>1, <2>2 DEF o
<1> QED BY <1>1, <1>4, <1>5, <1>6

\* Memory that holds joined pieces holds each of them.
LEMMA ContainsJoined ==
  ASSUME NEW m, NEW off \in Nat, NEW w \in Nat \ {0}, NEW p, pieces(p, w),
         contains(m, off, joined(p, w))
  PROVE  \A i \in 1 .. Len(p) : contains(m, off + (i - 1) * w, p[i])
<1> SUFFICES ASSUME NEW i \in 1 .. Len(p), NEW j \in 1 .. w
             PROVE  m[off + (i - 1) * w + j - 1] = p[i][j]
  BY DEF contains, pieces
<1>1. Len(p) \in Nat /\ Len(joined(p, w)) = Len(p) * w
  BY JoinedFacts
<1> DEFINE o == (i - 1) * w + j
<1>2. o \in 1 .. Len(p) * w
  BY <1>1, PlaceIn
<1>3. joined(p, w)[o] = p[i][j]
  BY JoinedFacts
<1>4. off + (i - 1) * w + j - 1 = off + o - 1
  OBVIOUS
<1> HIDE DEF o
<1> QED BY <1>1, <1>2, <1>3, <1>4 DEF contains

\* The pieces of which numbers are made.
LEMMA NumberPieces ==
  ASSUME NEW s \in Seq(Int), NEW w \in Nat \ {0}
  PROVE  /\ pieces([i \in DOMAIN s |-> number(s[i], w)], w)
         /\ Len([i \in DOMAIN s |-> number(s[i], w)]) = Len(s)
<1> DEFINE p == [i \in DOMAIN s |-> number(s[i], w)]
<1>1. Len(s) \in Nat /\ DOMAIN s = 1 .. Len(s) /\ \A i \in DOMAIN s : s[i] \in Int
  OBVIOUS
<1>2. \A i \in 1 .. Len(s) : number(s[i], w) \in Seq(AByte) /\ Len(number(s[i], w)) = w
  BY <1>1, NumberFacts
<1>3. p \in [1 .. Len(s) -> Seq(AByte)]
  BY <1>1, <1>2
<1>4. p \in Seq(Seq(AByte)) /\ Len(p) = Len(s)
  BY <1>1, <1>3
<1>5. \A i \in 1 .. Len(s) : p[i] = number(s[i], w)
  BY <1>1
<1> HIDE DEF p
<1>6. pieces(p, w)
  BY <1>2, <1>4, <1>5 DEF pieces
<1> QED BY <1>4, <1>6 DEF p

\* So many numbers take so many times their width.
LEMMA NumbersFacts ==
  ASSUME NEW s \in Seq(Int), NEW w \in Nat \ {0}
  PROVE  numbers(s, w) \in Seq(AByte) /\ Len(numbers(s, w)) = Len(s) * w
BY NumberPieces, JoinedFacts DEF numbers

\* Reading one number after the other reads the sequence that was written.
LEMMA ReadsNumbers ==
  ASSUME NEW m, NEW off \in Nat, NEW s \in Seq(Int), NEW w \in Nat \ {0},
         contains(m, off, numbers(s, w))
  PROVE  numbersAt(m, off, w, Len(s)) = s
<1> DEFINE p == [i \in DOMAIN s |-> number(s[i], w)]
<1>1. pieces(p, w) /\ Len(p) = Len(s)
  BY NumberPieces
<1>2. \A i \in 1 .. Len(s) : p[i] = number(s[i], w) /\ s[i] \in Int
  OBVIOUS
<1>3. contains(m, off, joined(p, w))
  BY DEF numbers
<1> HIDE DEF p
<1>4. \A i \in 1 .. Len(p) : contains(m, off + (i - 1) * w, p[i])
  BY <1>1, <1>3, ContainsJoined
<1>5. ASSUME NEW i \in 1 .. Len(s) PROVE numberAt(m, off + (i - 1) * w, w) = s[i]
  <2>1. off + (i - 1) * w \in Nat
    OBVIOUS
  <2>2. contains(m, off + (i - 1) * w, number(s[i], w))
    BY <1>1, <1>2, <1>4
  <2> QED BY <1>2, <2>1, <2>2, ReadsNumber
<1>6. numbersAt(m, off, w, Len(s)) = [i \in 1 .. Len(s) |-> s[i]]
  BY <1>5 DEF numbersAt
<1> QED BY <1>6

\* n zeros are n bytes.
LEMMA ZerosFacts ==
  ASSUME NEW n \in Nat
  PROVE  zeros(n) \in Seq(AByte) /\ Len(zeros(n)) = n
BY NumberFacts DEF zeros

\* Bytes after other bytes.
LEMMA ConcatFacts ==
  ASSUME NEW s \in Seq(AByte), NEW t \in Seq(AByte)
  PROVE  s \o t \in Seq(AByte) /\ Len(s \o t) = Len(s) + Len(t)
<1>1. Len(s \o t) = Len(s) + Len(t) /\ Len(s) \in Nat /\ Len(t) \in Nat
  OBVIOUS
<1>2. s \o t \in Seq(AByte)
  OBVIOUS
<1> QED BY <1>1, <1>2

-----------------------------------------------------------------------------
(* Memory *)

\* Bytes one after the other are each in their place.
LEMMA ContainsBoth ==
  ASSUME NEW m, NEW off \in Nat, NEW s \in Seq(AByte), NEW t \in Seq(AByte),
         contains(m, off, s \o t)
  PROVE  contains(m, off, s) /\ contains(m, off + Len(s), t)
<1>1. Len(s \o t) = Len(s) + Len(t) /\ Len(s) \in Nat /\ Len(t) \in Nat
  OBVIOUS
<1>2. ASSUME NEW i \in 1 .. Len(s) PROVE m[off + i - 1] = s[i]
  <2>1. i \in 1 .. Len(s \o t) /\ (s \o t)[i] = s[i]
    BY <1>1
  <2> QED BY <2>1 DEF contains
<1>3. ASSUME NEW i \in 1 .. Len(t) PROVE m[off + Len(s) + i - 1] = t[i]
  <2>1. Len(s) + i \in 1 .. Len(s \o t) /\ (s \o t)[Len(s) + i] = t[i]
    BY <1>1
  <2>2. off + Len(s) + i - 1 = off + (Len(s) + i) - 1
    BY <1>1
  <2> QED BY <2>1, <2>2 DEF contains
<1> QED BY <1>2, <1>3 DEF contains

\* What was written is there.
LEMMA PutContains ==
  ASSUME NEW m, NEW off \in Nat, NEW s \in Seq(AByte),
         off .. off + Len(s) - 1 \subseteq DOMAIN m
  PROVE  contains(put(m, off, s), off, s)
<1> SUFFICES ASSUME NEW i \in 1 .. Len(s)
             PROVE  put(m, off, s)[off + i - 1] = s[i]
  BY DEF contains
<1>1. /\ off + i - 1 \in off .. off + Len(s) - 1
      /\ (off + i - 1) - off + 1 = i
  OBVIOUS
<1> QED BY <1>1 DEF put

\* Writing changes nothing elsewhere.
LEMMA PutKeeps ==
  ASSUME NEW m, NEW off \in Nat, NEW s \in Seq(AByte),
         NEW other \in Nat, NEW t \in Seq(AByte),
         other .. other + Len(t) - 1 \subseteq DOMAIN m,
         other + Len(t) <= off \/ off + Len(s) <= other,
         contains(m, other, t)
  PROVE  contains(put(m, off, s), other, t)
<1> SUFFICES ASSUME NEW i \in 1 .. Len(t)
             PROVE  put(m, off, s)[other + i - 1] = t[i]
  BY DEF contains
<1>1. /\ other + i - 1 \in other .. other + Len(t) - 1
      /\ other + i - 1 \notin off .. off + Len(s) - 1
  OBVIOUS
<1> QED BY <1>1 DEF put, contains

\* Writing neither adds nor removes memory.
LEMMA PutDomain ==
  ASSUME NEW m, NEW off, NEW s
  PROVE  DOMAIN put(m, off, s) = DOMAIN m
BY DEF put

-----------------------------------------------------------------------------
(* Leaves *)

\* The widths of the fields.
LEMMA Widths ==
  /\ Uint8 = 1 /\ Uint16 = 2 /\ Uint64 = 8
  /\ KeySize \in Nat \ {0} /\ ValueSize \in Nat \ {0}
BY WidthAssumption DEF Uint8, Uint16, Uint64

\* Used and unused places together are all places.
LEMMA AllPlaces ==
  ASSUME NEW used \in Nat, NEW n \in Nat, used <= n, NEW w \in Nat
  PROVE  used * w + (n - used) * w = n * w /\ (n - used) * w \in Nat
OBVIOUS

\* The bytes of a leaf are as many as getSerializedSize says, and hold each field where
\* deserialize looks for it.
LEMMA LeafBytes ==
  ASSUME NEW n, leafFits(n)
  PROVE  /\ serializeLeaf(n) \in Seq(AByte) /\ Len(serializeLeaf(n)) = leafSize
         /\ \A m : \A a \in Nat :
              contains(m, a, serializeLeaf(n)) =>
                LET lowestAt == a + Uint8 + Uint16 + 3 * Uint64
                    keysAt   == lowestAt + KeySize
                IN /\ contains(m, a, number(1, Uint8))
                   /\ contains(m, a + Uint8, number(Len(n.keys), Uint16))
                   /\ contains(m, a + Uint8 + Uint16,
                               numbers(<<n.parent, n.leftSibling, n.rightSibling>>, Uint64))
                   /\ contains(m, lowestAt, number(n.lowestSearchKey, KeySize))
                   /\ contains(m, keysAt, numbers(n.keys, KeySize))
                   /\ contains(m, keysAt + (Fanout - 1) * KeySize, numbers(n.values, ValueSize))
<1> DEFINE L == Len(n.keys)
           s1 == number(1, Uint8)
           s2 == number(L, Uint16)
           s3 == numbers(<<n.parent, n.leftSibling, n.rightSibling>>, Uint64)
           s4 == number(n.lowestSearchKey, KeySize)
           s5 == numbers(n.keys, KeySize)
           s6 == zeros((Fanout - 1 - L) * KeySize)
           s7 == numbers(n.values, ValueSize)
           s8 == zeros((Fanout - 1 - L) * ValueSize)
<1>1. /\ n.keys \in Seq(Int) /\ n.values \in Seq(Int) /\ Len(n.values) = L
      /\ L \in Nat /\ L <= Fanout - 1 /\ Fanout - 1 \in Nat
      /\ n.parent \in Int /\ n.leftSibling \in Int /\ n.rightSibling \in Int
      /\ n.lowestSearchKey \in Int
  BY FanoutAssumption DEF leafFits
<1>2. /\ L * KeySize + (Fanout - 1 - L) * KeySize = (Fanout - 1) * KeySize
      /\ L * ValueSize + (Fanout - 1 - L) * ValueSize = (Fanout - 1) * ValueSize
      /\ (Fanout - 1 - L) * KeySize \in Nat /\ (Fanout - 1 - L) * ValueSize \in Nat
  <2>1. KeySize \in Nat /\ ValueSize \in Nat
    BY Widths
  <2> HIDE DEF L
  <2> QED BY <1>1, <2>1, AllPlaces
<1>3. s1 \in Seq(AByte) /\ Len(s1) = 1
  <2>1. 1 \in Int /\ Uint8 \in Nat
    BY Widths
  <2> QED BY <2>1, NumberFacts, Widths
<1>4. s2 \in Seq(AByte) /\ Len(s2) = 2
  <2>1. L \in Int /\ Uint16 \in Nat
    BY Widths, <1>1
  <2> QED BY <2>1, NumberFacts, Widths
<1>5. s3 \in Seq(AByte) /\ Len(s3) = 24
  <2>1. <<n.parent, n.leftSibling, n.rightSibling>> \in Seq(Int)
    BY <1>1
  <2>2. Len(<<n.parent, n.leftSibling, n.rightSibling>>) = 3 /\ Uint64 \in Nat \ {0} /\ 3 * Uint64 = 24
    BY Widths
  <2> QED BY <2>1, <2>2, NumbersFacts
<1>6. s4 \in Seq(AByte) /\ Len(s4) = KeySize
  BY NumberFacts, Widths, <1>1
<1>7. s5 \in Seq(AByte) /\ Len(s5) = L * KeySize
  BY NumbersFacts, Widths, <1>1
<1>8. s6 \in Seq(AByte) /\ Len(s6) = (Fanout - 1 - L) * KeySize
  BY ZerosFacts, <1>2
<1>9. s7 \in Seq(AByte) /\ Len(s7) = L * ValueSize
  BY NumbersFacts, Widths, <1>1
<1>10. s8 \in Seq(AByte) /\ Len(s8) = (Fanout - 1 - L) * ValueSize
  BY ZerosFacts, <1>2
<1>11. serializeLeaf(n) = s1 \o s2 \o s3 \o s4 \o s5 \o s6 \o s7 \o s8
  BY DEF serializeLeaf
<1> HIDE DEF s1, s2, s3, s4, s5, s6, s7, s8, L
<1> DEFINE t2 == s1 \o s2
           t3 == t2 \o s3
           t4 == t3 \o s4
           t5 == t4 \o s5
           t6 == t5 \o s6
           t7 == t6 \o s7
           t8 == t7 \o s8
           KK == (Fanout - 1) * KeySize
           VV == (Fanout - 1) * ValueSize
<1>12. t2 \in Seq(AByte) /\ Len(t2) = 3
  <2>1. s1 \o s2 \in Seq(AByte) /\ Len(s1 \o s2) = Len(s1) + Len(s2)
    BY ONLY <1>3, <1>4, ConcatFacts, Zenon
  <2>2. t2 \in Seq(AByte) /\ Len(t2) = Len(s1) + Len(s2)
    BY <2>1
  <2> HIDE DEF t2
  <2> QED BY <1>3, <1>4, <2>2
<1> HIDE DEF t2
<1>13. t3 \in Seq(AByte) /\ Len(t3) = 27
  <2>1. t2 \o s3 \in Seq(AByte) /\ Len(t2 \o s3) = Len(t2) + Len(s3)
    BY ONLY <1>5, <1>12, ConcatFacts, Zenon
  <2>2. t3 \in Seq(AByte) /\ Len(t3) = Len(t2) + Len(s3)
    BY <2>1
  <2> HIDE DEF t3
  <2> QED BY <1>5, <1>12, <2>2
<1> HIDE DEF t3
<1>14. t4 \in Seq(AByte) /\ Len(t4) = 27 + KeySize
  <2>1. t3 \o s4 \in Seq(AByte) /\ Len(t3 \o s4) = Len(t3) + Len(s4)
    BY ONLY <1>6, <1>13, ConcatFacts, Zenon
  <2>2. t4 \in Seq(AByte) /\ Len(t4) = Len(t3) + Len(s4)
    BY <2>1
  <2> HIDE DEF t4
  <2> QED BY <1>6, <1>13, Widths, <2>2
<1> HIDE DEF t4
<1>15. t5 \in Seq(AByte) /\ Len(t5) = 27 + KeySize + L * KeySize
  <2>1. t4 \o s5 \in Seq(AByte) /\ Len(t4 \o s5) = Len(t4) + Len(s5)
    BY ONLY <1>7, <1>14, ConcatFacts, Zenon
  <2>2. t5 \in Seq(AByte) /\ Len(t5) = Len(t4) + Len(s5)
    BY <2>1
  <2> HIDE DEF t5
  <2> QED BY <1>7, <1>14, <2>2
<1> HIDE DEF t5
<1>16. t6 \in Seq(AByte) /\ Len(t6) = 27 + KeySize + KK
  <2>1. t5 \o s6 \in Seq(AByte) /\ Len(t5 \o s6) = Len(t5) + Len(s6)
    BY ONLY <1>8, <1>15, ConcatFacts, Zenon
  <2>2. t6 \in Seq(AByte) /\ Len(t6) = Len(t5) + Len(s6)
    BY <2>1
  <2> HIDE DEF t6
  <2> QED BY <1>2, <1>8, <1>15, Widths, <1>1, <2>2
<1> HIDE DEF t6
<1>17. t7 \in Seq(AByte) /\ Len(t7) = 27 + KeySize + KK + L * ValueSize
  <2>1. t6 \o s7 \in Seq(AByte) /\ Len(t6 \o s7) = Len(t6) + Len(s7)
    BY ONLY <1>9, <1>16, ConcatFacts, Zenon
  <2>2. t7 \in Seq(AByte) /\ Len(t7) = Len(t6) + Len(s7)
    BY <2>1
  <2> HIDE DEF t7
  <2> QED BY <1>9, <1>16, <2>2
<1> HIDE DEF t7
<1>18. t8 \in Seq(AByte) /\ Len(t8) = 27 + KeySize + KK + VV
  <2>1. t7 \o s8 \in Seq(AByte) /\ Len(t7 \o s8) = Len(t7) + Len(s8)
    BY ONLY <1>10, <1>17, ConcatFacts, Zenon
  <2>2. t8 \in Seq(AByte) /\ Len(t8) = Len(t7) + Len(s8)
    BY <2>1
  <2> DEFINE p == L * ValueSize
             q == (Fanout - 1 - L) * ValueSize
  <2>3. p \in Int /\ q \in Int /\ KK \in Int /\ KeySize \in Int /\ p + q = VV
    BY <1>1, <1>2, Widths
  <2>4. Len(t8) = (27 + KeySize + KK + p) + q
    BY <1>10, <1>17, <2>2
  <2> HIDE DEF t8, p, q, KK, VV
  <2> QED BY <2>2, <2>3, <2>4
<1>19. serializeLeaf(n) = t8
  BY <1>11 DEF t2, t3, t4, t5, t6, t7
<1> HIDE DEF t8
<1>20. leafSize = 27 + KeySize + KK + VV
  BY Widths, <1>1 DEF leafSize
<1>21. ASSUME NEW m, NEW a \in Nat, contains(m, a, t8)
       PROVE  /\ contains(m, a, s1)
              /\ contains(m, a + 1, s2)
              /\ contains(m, a + 3, s3)
              /\ contains(m, a + 27, s4)
              /\ contains(m, a + 27 + KeySize, s5)
              /\ contains(m, a + 27 + KeySize + KK, s7)
  <2>1. contains(m, a, t7)
    BY <1>10, <1>17, <1>21, ContainsBoth DEF t8
  <2>2. contains(m, a, t6) /\ contains(m, a + (27 + KeySize + KK), s7)
    BY <1>9, <1>16, <2>1, ContainsBoth DEF t7
  <2>3. contains(m, a, t5)
    BY <1>8, <1>15, <2>2, ContainsBoth DEF t6
  <2>4. contains(m, a, t4) /\ contains(m, a + (27 + KeySize), s5)
    BY <1>7, <1>14, <2>3, ContainsBoth DEF t5
  <2>5. contains(m, a, t3) /\ contains(m, a + 27, s4)
    BY <1>6, <1>13, <2>4, ContainsBoth DEF t4
  <2>6. contains(m, a, t2) /\ contains(m, a + 3, s3)
    BY <1>5, <1>12, <2>5, ContainsBoth DEF t3
  <2>7. contains(m, a, s1) /\ contains(m, a + 1, s2)
    BY <1>3, <1>4, <2>6, ContainsBoth DEF t2
  <2>8. /\ a + (27 + KeySize + KK) = a + 27 + KeySize + KK
        /\ a + (27 + KeySize) = a + 27 + KeySize
    BY Widths, <1>1
  <2> QED BY <2>2, <2>4, <2>5, <2>6, <2>7, <2>8
<1>22. ASSUME NEW a \in Nat
       PROVE  /\ a + Uint8 = a + 1 /\ a + Uint8 + Uint16 = a + 3
              /\ a + Uint8 + Uint16 + 3 * Uint64 = a + 27
  BY Widths
<1> HIDE DEF KK, VV
<1> QED BY <1>18, <1>19, <1>20, <1>21, <1>22 DEF s1, s2, s3, s4, s5, s7, L, KK

\* A leaf is read back, field by field.
LEMMA LeafDecodes ==
  ASSUME NEW n, leafFits(n), NEW m, NEW a \in Nat, contains(m, a, serializeLeaf(n))
  PROVE  numberAt(m, a, Uint8) = 1 /\ deserializeLeaf(m, a) = n
<1> DEFINE lowestAt == a + Uint8 + Uint16 + 3 * Uint64
           keysAt   == lowestAt + KeySize
           valuesAt == keysAt + (Fanout - 1) * KeySize
<1>1. /\ n.keys \in Seq(Int) /\ n.values \in Seq(Int) /\ Len(n.values) = Len(n.keys)
      /\ Len(n.keys) \in Nat /\ Fanout - 1 \in Nat
      /\ n.parent \in Int /\ n.leftSibling \in Int /\ n.rightSibling \in Int
      /\ n.lowestSearchKey \in Int
  BY FanoutAssumption DEF leafFits
<1>2. /\ contains(m, a, number(1, Uint8))
      /\ contains(m, a + Uint8, number(Len(n.keys), Uint16))
      /\ contains(m, a + Uint8 + Uint16,
                  numbers(<<n.parent, n.leftSibling, n.rightSibling>>, Uint64))
      /\ contains(m, lowestAt, number(n.lowestSearchKey, KeySize))
      /\ contains(m, keysAt, numbers(n.keys, KeySize))
      /\ contains(m, valuesAt, numbers(n.values, ValueSize))
  BY LeafBytes
<1>3. /\ a + Uint8 \in Nat /\ a + Uint8 + Uint16 \in Nat
      /\ lowestAt \in Nat /\ keysAt \in Nat
      /\ Uint8 \in Nat \ {0} /\ Uint16 \in Nat \ {0} /\ Uint64 \in Nat \ {0}
  BY Widths
<1>4. valuesAt \in Nat
  <2>1. (Fanout - 1) * KeySize \in Nat
    BY <1>1, Widths
  <2> HIDE DEF keysAt
  <2> QED BY <1>3, <2>1
<1> HIDE DEF lowestAt, keysAt, valuesAt
<1>5. numberAt(m, a, Uint8) = 1
  <2>1. a \in Nat /\ Uint8 \in Nat \ {0} /\ 1 \in Int /\ contains(m, a, number(1, Uint8))
    BY <1>2, <1>3
  <2> QED BY ONLY <2>1, ReadsNumber, Zenon
<1>6. numberAt(m, a + Uint8, Uint16) = Len(n.keys)
  <2>1. a + Uint8 \in Nat /\ Uint16 \in Nat \ {0} /\ Len(n.keys) \in Int /\ contains(m, a + Uint8, number(Len(n.keys), Uint16))
    BY <1>1, <1>2, <1>3
  <2> QED BY ONLY <2>1, ReadsNumber, Zenon
<1>7. numbersAt(m, a + Uint8 + Uint16, Uint64, 3) = <<n.parent, n.leftSibling, n.rightSibling>>
  <2>1. <<n.parent, n.leftSibling, n.rightSibling>> \in Seq(Int)
        /\ Len(<<n.parent, n.leftSibling, n.rightSibling>>) = 3
    BY <1>1
  <2> DEFINE s == <<n.parent, n.leftSibling, n.rightSibling>>
  <2>2. /\ s \in Seq(Int) /\ Len(s) = 3 /\ a + Uint8 + Uint16 \in Nat /\ Uint64 \in Nat \ {0}
        /\ contains(m, a + Uint8 + Uint16, numbers(s, Uint64))
    BY <1>2, <1>3, <2>1
  <2> HIDE DEF s
  <2>3. numbersAt(m, a + Uint8 + Uint16, Uint64, Len(s)) = s
    BY ONLY <2>2, ReadsNumbers, Zenon
  <2>4. numbersAt(m, a + Uint8 + Uint16, Uint64, 3) = s
    BY ONLY <2>2, <2>3
  <2> QED BY ONLY <2>4 DEF s
<1>8. numberAt(m, lowestAt, KeySize) = n.lowestSearchKey
  <2>1. lowestAt \in Nat /\ KeySize \in Nat \ {0} /\ n.lowestSearchKey \in Int /\ contains(m, lowestAt, number(n.lowestSearchKey, KeySize))
    BY <1>1, <1>2, <1>3, Widths
  <2> QED BY ONLY <2>1, ReadsNumber, Zenon
<1>9. numbersAt(m, keysAt, KeySize, Len(n.keys)) = n.keys
  <2>1. keysAt \in Nat /\ KeySize \in Nat \ {0} /\ n.keys \in Seq(Int) /\ contains(m, keysAt, numbers(n.keys, KeySize))
    BY <1>1, <1>2, <1>3, Widths
  <2> QED BY ONLY <2>1, ReadsNumbers, Zenon
<1>10. numbersAt(m, valuesAt, ValueSize, Len(n.keys)) = n.values
  <2>1. /\ valuesAt \in Nat /\ ValueSize \in Nat \ {0} /\ n.values \in Seq(Int)
        /\ contains(m, valuesAt, numbers(n.values, ValueSize))
    BY <1>1, <1>2, <1>4, Widths
  <2>2. numbersAt(m, valuesAt, ValueSize, Len(n.values)) = n.values
    BY ONLY <2>1, ReadsNumbers, Zenon
  <2> QED BY ONLY <2>2, <1>1
<1>11. deserializeLeaf(m, a) =
         [parent |-> n.parent, leftSibling |-> n.leftSibling, rightSibling |-> n.rightSibling,
          lowestSearchKey |-> n.lowestSearchKey, keys |-> n.keys, values |-> n.values]
  BY <1>6, <1>7, <1>8, <1>9, <1>10 DEF deserializeLeaf, lowestAt, keysAt, valuesAt
<1>12. n = [parent |-> n.parent, leftSibling |-> n.leftSibling, rightSibling |-> n.rightSibling,
            lowestSearchKey |-> n.lowestSearchKey, keys |-> n.keys, values |-> n.values]
  BY DEF leafFits
<1> QED BY <1>5, <1>11, <1>12

-----------------------------------------------------------------------------
(* The order of a map *)

increasing(s) == \A i, j \in DOMAIN s : i < j => s[i] < s[j]

\* A finite set of numbers that is not empty has a greatest one.
LEMMA GreatestNumber ==
  ASSUME NEW S, S \subseteq Int, IsFiniteSet(S), S # {}
  PROVE  \E g \in S : \A x \in S : x <= g
<1> DEFINE N == {n \in Nat : \A T \in SUBSET Int :
                   IsFiniteSet(T) /\ Cardinality(T) = n /\ T # {} =>
                     \E g \in T : \A x \in T : x <= g}
<1>1. 0 \in N
  BY FS_EmptySet
<1>2. ASSUME NEW n \in Nat, n \in N PROVE n + 1 \in N
  <2> SUFFICES ASSUME NEW T \in SUBSET Int,
                      IsFiniteSet(T), Cardinality(T) = n + 1, T # {}
               PROVE  \E g \in T : \A x \in T : x <= g
    OBVIOUS
  <2>1. PICK e \in T : TRUE
    OBVIOUS
  <2>2. IsFiniteSet(T \ {e}) /\ Cardinality(T \ {e}) = n
    <3>1. /\ IsFiniteSet(T \ {e})
          /\ Cardinality(T \ {e}) = IF e \in T THEN Cardinality(T) - 1 ELSE Cardinality(T)
      BY FS_RemoveElement, Zenon
    <3> QED BY <2>1, <3>1
  <2>3. CASE T \ {e} = {}
    <3>1. \A x \in T : x = e
      BY <2>3
    <3>2. e \in Int
      OBVIOUS
    <3>3. \A x \in T : x <= e
      BY <3>1, <3>2
    <3> QED BY <2>1, <3>3
  <2>4. CASE T \ {e} # {}
    <3>1. T \ {e} \in SUBSET Int
      OBVIOUS
    <3>2. PICK g \in T \ {e} : \A x \in T \ {e} : x <= g
      BY <1>2, <2>2, <2>4, <3>1
    <3>3. e \in Int /\ g \in Int
      OBVIOUS
    <3>4. CASE e <= g
      BY <3>2, <3>4
    <3>5. CASE g <= e
      BY <3>2, <3>3, <3>5
    <3> QED BY <3>3, <3>4, <3>5
  <2> QED BY <2>3, <2>4
<1> HIDE DEF N
<1>3. Nat \subseteq N
  BY <1>1, <1>2, SetInduction
<1>4. Cardinality(S) \in N
  BY <1>3, FS_CardinalityType
<1> QED BY <1>4 DEF N

\* A finite set of numbers can be put in order.
LEMMA OrderExists ==
  ASSUME NEW S, S \subseteq Int, IsFiniteSet(S)
  PROVE  \E s \in [1 .. Cardinality(S) -> S] : increasing(s)
<1> DEFINE N == {n \in Nat : \A T \in SUBSET Int :
                   IsFiniteSet(T) /\ Cardinality(T) = n =>
                     \E s \in [1 .. n -> T] : increasing(s)}
<1>1. 0 \in N
  <2> SUFFICES ASSUME NEW T \in SUBSET Int
               PROVE  \E s \in [1 .. 0 -> T] : increasing(s)
    OBVIOUS
  <2> DEFINE s == [i \in 1 .. 0 |-> 0]
  <2>1. s \in [1 .. 0 -> T] /\ increasing(s)
    BY DEF increasing
  <2> QED BY <2>1
<1>2. ASSUME NEW n \in Nat, n \in N PROVE n + 1 \in N
  <2> SUFFICES ASSUME NEW T \in SUBSET Int, IsFiniteSet(T), Cardinality(T) = n + 1
               PROVE  \E s \in [1 .. n + 1 -> T] : increasing(s)
    OBVIOUS
  <2>1. T # {}
    BY FS_EmptySet
  <2>2. PICK g \in T : \A x \in T : x <= g
    BY <2>1, GreatestNumber
  <2>3. IsFiniteSet(T \ {g}) /\ Cardinality(T \ {g}) = n
    BY FS_RemoveElement
  <2>4. PICK s \in [1 .. n -> T \ {g}] : increasing(s)
    BY <1>2, <2>3
  <2> DEFINE r == [i \in 1 .. n + 1 |-> IF i = n + 1 THEN g ELSE s[i]]
  <2>5. r \in [1 .. n + 1 -> T]
    OBVIOUS
  <2>6. ASSUME NEW i \in 1 .. n + 1, NEW j \in 1 .. n + 1, i < j PROVE r[i] < r[j]
    <3>1. i \in 1 .. n /\ r[i] = s[i] /\ s[i] \in T \ {g}
      BY <2>6
    <3>2. CASE j = n + 1
      <4>1. r[j] = g /\ s[i] <= g /\ s[i] # g /\ s[i] \in Int /\ g \in Int
        BY <2>2, <3>1, <3>2
      <4> QED BY <3>1, <4>1
    <3>3. CASE j # n + 1
      BY <2>4, <2>6, <3>1, <3>3 DEF increasing
    <3> QED BY <3>2, <3>3
  <2>7. increasing(r)
    BY <2>6 DEF increasing
  <2> QED BY <2>5, <2>7
<1> HIDE DEF N
<1>3. Nat \subseteq N
  BY <1>1, <1>2, SetInduction
<1>4. Cardinality(S) \in N
  BY <1>3, FS_CardinalityType
<1> QED BY <1>4 DEF N

\* The iterators meet each key of a map once.
LEMMA OrderedFacts ==
  ASSUME NEW S, S \subseteq Int, IsFiniteSet(S)
  PROVE  /\ ordered(S) \in Seq(Int)
         /\ Len(ordered(S)) = Cardinality(S) /\ Cardinality(S) \in Nat
         /\ \A i \in 1 .. Cardinality(S) : ordered(S)[i] \in S
         /\ \A k \in S : \E i \in 1 .. Cardinality(S) : ordered(S)[i] = k
         /\ \A i, j \in 1 .. Cardinality(S) : ordered(S)[i] = ordered(S)[j] => i = j
<1> DEFINE n == Cardinality(S)
           s == ordered(S)
<1>1. n \in Nat
  BY FS_CardinalityType
<1>2. s \in [1 .. n -> S] /\ increasing(s)
  <2>1. \E t \in [1 .. n -> S] : increasing(t)
    BY OrderExists
  <2>2. s = CHOOSE t \in [1 .. n -> S] : increasing(t)
    BY DEF ordered, increasing
  <2> HIDE DEF s, n
  <2> QED BY <2>1, <2>2
<1> HIDE DEF n, s
<1>3. ASSUME NEW i \in 1 .. n, NEW j \in 1 .. n, s[i] = s[j] PROVE i = j
  <2>1. s[i] \in Int /\ s[j] \in Int
    BY <1>2
  <2>2. ~(i < j) /\ ~(j < i)
    BY <1>2, <1>3, <2>1 DEF increasing
  <2> QED BY <1>1, <2>2
<1>4. s \in Injection(1 .. n, S)
  BY <1>2, <1>3 DEF Injection, IsInjective
<1>5. Cardinality(1 .. n) = n
  <2>1. 1 \in Int /\ n \in Int
    BY <1>1
  <2>2. Cardinality(1 .. n) = IF 1 > n THEN 0 ELSE n - 1 + 1
    BY ONLY <2>1, FS_Interval, Zenon
  <2> QED BY <1>1, <2>2
<1>6. s \in Surjection(1 .. n, S)
  BY <1>4, <1>5, FS_Injection DEF n
<1>7. \A k \in S : \E i \in 1 .. n : s[i] = k
  BY <1>6 DEF Surjection
<1>8. s \in [1 .. n -> Int]
  BY <1>2
<1>9. s \in Seq(Int) /\ Len(s) = n
  BY <1>1, <1>8
<1> QED BY <1>1, <1>2, <1>3, <1>7, <1>9 DEF n, s

-----------------------------------------------------------------------------
(* Messages *)

\* A message takes messageSize bytes.
LEMMA MessageBytes ==
  ASSUME NEW k \in Int, NEW msg \in [type : Int, value : Int]
  PROVE  /\ serializeMessage(k, msg) \in Seq(AByte)
         /\ Len(serializeMessage(k, msg)) = messageSize /\ messageSize \in Nat \ {0}
<1> DEFINE s1 == number(msg.type, MessageType)
           s2 == number(k, KeySize)
           s3 == number(msg.value, ValueSize)
<1>1. msg.type \in Int /\ msg.value \in Int /\ MessageType = 4 /\ MessageType \in Nat
  BY DEF MessageType
<1>2. s1 \in Seq(AByte) /\ Len(s1) = 4
  BY <1>1, NumberFacts
<1>3. s2 \in Seq(AByte) /\ Len(s2) = KeySize
  BY NumberFacts, Widths
<1>4. s3 \in Seq(AByte) /\ Len(s3) = ValueSize
  BY <1>1, NumberFacts, Widths
<1>5. serializeMessage(k, msg) = s1 \o s2 \o s3
  BY DEF serializeMessage
<1> HIDE DEF s1, s2, s3
<1>6. s1 \o s2 \in Seq(AByte) /\ Len(s1 \o s2) = Len(s1) + Len(s2)
  BY ONLY <1>2, <1>3, ConcatFacts, Zenon
<1>7. /\ s1 \o s2 \o s3 \in Seq(AByte)
      /\ Len(s1 \o s2 \o s3) = Len(s1 \o s2) + Len(s3)
  BY ONLY <1>4, <1>6, ConcatFacts, Zenon
<1> QED BY <1>1, <1>2, <1>3, <1>4, <1>5, <1>6, <1>7, Widths DEF messageSize

\* A message is read back.
LEMMA MessageDecodes ==
  ASSUME NEW k \in Int, NEW msg \in [type : Int, value : Int],
         NEW m, NEW a \in Nat, contains(m, a, serializeMessage(k, msg))
  PROVE  deserializeMessage(m, a) = [type |-> msg.type, key |-> k, value |-> msg.value]
<1> DEFINE s1 == number(msg.type, MessageType)
           s2 == number(k, KeySize)
           s3 == number(msg.value, ValueSize)
<1>1. msg.type \in Int /\ msg.value \in Int /\ MessageType = 4 /\ MessageType \in Nat \ {0}
  BY DEF MessageType
<1>2. s1 \in Seq(AByte) /\ Len(s1) = MessageType
  BY <1>1, NumberFacts
<1>3. s2 \in Seq(AByte) /\ Len(s2) = KeySize
  BY NumberFacts, Widths
<1>4. s3 \in Seq(AByte)
  BY <1>1, NumberFacts, Widths
<1>5. contains(m, a, s1 \o s2 \o s3)
  BY DEF serializeMessage
<1> HIDE DEF s1, s2, s3
<1>6. s1 \o s2 \in Seq(AByte) /\ Len(s1 \o s2) = Len(s1) + Len(s2)
  BY ONLY <1>2, <1>3, ConcatFacts, Zenon
<1>7. contains(m, a, s1 \o s2) /\ contains(m, a + Len(s1 \o s2), s3)
  BY ONLY <1>4, <1>5, <1>6, a \in Nat, ContainsBoth, Zenon
<1>8. contains(m, a, s1) /\ contains(m, a + Len(s1), s2)
  BY ONLY <1>2, <1>3, <1>7, a \in Nat, ContainsBoth, Zenon
<1>9. /\ a + Len(s1) = a + MessageType /\ a + Len(s1 \o s2) = a + MessageType + KeySize
      /\ a + MessageType \in Nat /\ a + MessageType + KeySize \in Nat
  BY <1>1, <1>2, <1>3, <1>6, Widths
<1>10. numberAt(m, a, MessageType) = msg.type
  <2>1. a \in Nat /\ MessageType \in Nat \ {0} /\ msg.type \in Int /\ contains(m, a, number(msg.type, MessageType))
    BY <1>1, <1>8 DEF s1
  <2> QED BY ONLY <2>1, ReadsNumber, Zenon
<1>11. numberAt(m, a + MessageType, KeySize) = k
  <2>1. /\ a + MessageType \in Nat /\ KeySize \in Nat \ {0} /\ k \in Int
        /\ contains(m, a + MessageType, number(k, KeySize))
    BY <1>8, <1>9, Widths DEF s2
  <2> QED BY ONLY <2>1, ReadsNumber, Zenon
<1>12. numberAt(m, a + MessageType + KeySize, ValueSize) = msg.value
  <2>1. /\ a + MessageType + KeySize \in Nat /\ ValueSize \in Nat \ {0} /\ msg.value \in Int
        /\ contains(m, a + MessageType + KeySize, number(msg.value, ValueSize))
    BY <1>1, <1>7, <1>9, Widths DEF s3
  <2> QED BY ONLY <2>1, ReadsNumber, Zenon
<1> QED BY <1>10, <1>11, <1>12 DEF deserializeMessage

-----------------------------------------------------------------------------
(* Internal nodes *)

\* The buffer's messages, in the order of their keys.
written_messages(n) ==
  [i \in DOMAIN ordered(DOMAIN n.messageBuffer) |->
     serializeMessage(ordered(DOMAIN n.messageBuffer)[i],
                      n.messageBuffer[ordered(DOMAIN n.messageBuffer)[i]])]

\* They are as many as the buffer has, each in messageSize bytes.
LEMMA MessagesFacts ==
  ASSUME NEW n, internalFits(n)
  PROVE  LET order == ordered(DOMAIN n.messageBuffer)
             C     == Cardinality(DOMAIN n.messageBuffer)
         IN /\ C \in Nat /\ C <= MaxBufferSize /\ Len(order) = C
            /\ pieces(written_messages(n), messageSize)
            /\ Len(written_messages(n)) = C
            /\ messageSize \in Nat \ {0}
            /\ \A i \in 1 .. C :
                 /\ order[i] \in Int /\ n.messageBuffer[order[i]] \in [type : Int, value : Int]
                 /\ written_messages(n)[i] = serializeMessage(order[i], n.messageBuffer[order[i]])
<1> DEFINE S     == DOMAIN n.messageBuffer
           order == ordered(S)
           C     == Cardinality(S)
           p     == written_messages(n)
<1>1. /\ S \subseteq Int /\ IsFiniteSet(S) /\ C <= MaxBufferSize
      /\ \A k \in S : n.messageBuffer[k] \in [type : Int, value : Int]
  BY DEF internalFits
<1>2. /\ order \in Seq(Int) /\ Len(order) = C /\ C \in Nat
      /\ \A i \in 1 .. C : order[i] \in S
  <2> HIDE DEF S
  <2> QED BY <1>1, OrderedFacts
<1>3. DOMAIN order = 1 .. C
  BY <1>2
<1>4. p = [i \in 1 .. C |-> serializeMessage(order[i], n.messageBuffer[order[i]])]
  BY <1>3 DEF written_messages
<1> HIDE DEF order, S, C
<1>5. ASSUME NEW i \in 1 .. C
      PROVE  order[i] \in Int /\ n.messageBuffer[order[i]] \in [type : Int, value : Int]
  BY <1>1, <1>2
<1>6. ASSUME NEW i \in 1 .. C
      PROVE  /\ p[i] = serializeMessage(order[i], n.messageBuffer[order[i]])
             /\ p[i] \in Seq(AByte) /\ Len(p[i]) = messageSize
  <2>1. p[i] = serializeMessage(order[i], n.messageBuffer[order[i]])
    BY <1>4
  <2> HIDE DEF p
  <2> QED BY <1>5, <2>1, MessageBytes
<1>7. p \in [1 .. C -> Seq(AByte)]
  BY <1>4, <1>6
<1> HIDE DEF p
<1>8. p \in Seq(Seq(AByte)) /\ Len(p) = C
  BY <1>2, <1>7
<1>9. pieces(p, messageSize)
  BY <1>6, <1>8 DEF pieces
<1>10. messageSize \in Nat \ {0}
  BY Widths DEF messageSize, MessageType
<1> QED BY <1>1, <1>2, <1>5, <1>6, <1>8, <1>9, <1>10 DEF order, S, C, p

\* The bytes of an internal node are as many as getSerializedSize says, and hold each field
\* where deserialize looks for it.
LEMMA InternalBytes ==
  ASSUME NEW n, internalFits(n)
  PROVE  /\ serializeInternal(n) \in Seq(AByte) /\ Len(serializeInternal(n)) = internalSize
         /\ \A m : \A a \in Nat :
              contains(m, a, serializeInternal(n)) =>
                LET lowestAt   == a + 29
                    keysAt     == lowestAt + KeySize
                    childrenAt == keysAt + (Fanout - 1) * KeySize
                IN /\ contains(m, a, number(0, Uint8))
                   /\ contains(m, a + 1,
                        numbers(<<Len(n.keys), Cardinality(DOMAIN n.messageBuffer)>>, Uint16))
                   /\ contains(m, a + 5,
                        numbers(<<n.parent, n.leftSibling, n.rightSibling>>, Uint64))
                   /\ contains(m, lowestAt, number(n.lowestSearchKey, KeySize))
                   /\ contains(m, keysAt, numbers(n.keys, KeySize))
                   /\ contains(m, childrenAt, numbers(n.children, Uint64))
                   /\ contains(m, childrenAt + Fanout * 8,
                        joined(written_messages(n), messageSize))
<1> DEFINE L == Len(n.keys)
           C == Cardinality(DOMAIN n.messageBuffer)
           W == messageSize
           s1 == number(0, Uint8)
           s2 == numbers(<<L, C>>, Uint16)
           s3 == numbers(<<n.parent, n.leftSibling, n.rightSibling>>, Uint64)
           s4 == number(n.lowestSearchKey, KeySize)
           s5 == numbers(n.keys, KeySize)
           s6 == zeros((Fanout - 1 - L) * KeySize)
           s7 == numbers(n.children, Uint64)
           s8 == zeros((Fanout - 1 - L) * Uint64)
           s9 == joined(written_messages(n), W)
           s10 == zeros((MaxBufferSize - C) * W)
           KK == (Fanout - 1) * KeySize
           MM == MaxBufferSize * W
<1>1. /\ n.keys \in Seq(Int) /\ n.children \in Seq(Int) /\ Len(n.children) = L + 1
      /\ L \in Nat /\ L <= Fanout - 1 /\ Fanout - 1 \in Nat /\ Fanout \in Nat
      /\ MaxBufferSize \in Nat
      /\ n.parent \in Int /\ n.leftSibling \in Int /\ n.rightSibling \in Int
      /\ n.lowestSearchKey \in Int
  BY FanoutAssumption DEF internalFits
<1>2. /\ C \in Nat /\ C <= MaxBufferSize /\ W \in Nat \ {0}
      /\ Len(ordered(DOMAIN n.messageBuffer)) = C
      /\ pieces(written_messages(n), W) /\ Len(written_messages(n)) = C
  BY MessagesFacts
<1>3. serializeInternal(n) = s1 \o s2 \o s3 \o s4 \o s5 \o s6 \o s7 \o s8 \o s9 \o s10
  BY <1>2 DEF serializeInternal, written_messages
<1> HIDE DEF L, C, W
<1>4. /\ L * KeySize + (Fanout - 1 - L) * KeySize = KK /\ KK \in Nat
      /\ L * KeySize \in Nat /\ (Fanout - 1 - L) * KeySize \in Nat
      /\ (Fanout - 1 - L) * Uint64 \in Nat /\ (Fanout - 1 - L) * Uint64 = (Fanout - 1 - L) * 8
  <2>1. /\ L * KeySize + (Fanout - 1 - L) * KeySize = KK /\ (Fanout - 1 - L) * KeySize \in Nat
    BY <1>1, Widths, AllPlaces
  <2>2. KeySize \in Nat /\ Uint64 = 8
    BY Widths
  <2>3. L * KeySize \in Nat /\ KK \in Nat
    BY <1>1, <2>2
  <2>4. (Fanout - 1 - L) * Uint64 = (Fanout - 1 - L) * 8 /\ (Fanout - 1 - L) * 8 \in Nat
    BY <1>1, <2>2
  <2> QED BY <2>1, <2>3, <2>4
<1>5. /\ C * W + (MaxBufferSize - C) * W = MM /\ MM \in Nat
      /\ C * W \in Nat /\ (MaxBufferSize - C) * W \in Nat
  BY <1>1, <1>2, AllPlaces
<1>6. s1 \in Seq(AByte) /\ Len(s1) = 1
  <2>1. 0 \in Int /\ Uint8 \in Nat
    BY Widths
  <2> QED BY <2>1, NumberFacts, Widths
<1>7. s2 \in Seq(AByte) /\ Len(s2) = 4
  <2>1. <<L, C>> \in Seq(Int) /\ Len(<<L, C>>) = 2 /\ Uint16 \in Nat \ {0} /\ 2 * Uint16 = 4
    BY Widths, <1>1, <1>2
  <2> QED BY <2>1, NumbersFacts
<1>8. s3 \in Seq(AByte) /\ Len(s3) = 24
  <2>1. <<n.parent, n.leftSibling, n.rightSibling>> \in Seq(Int)
    BY <1>1
  <2>2. Len(<<n.parent, n.leftSibling, n.rightSibling>>) = 3 /\ Uint64 \in Nat \ {0} /\ 3 * Uint64 = 24
    BY Widths
  <2> QED BY <2>1, <2>2, NumbersFacts
<1>9. s4 \in Seq(AByte) /\ Len(s4) = KeySize
  BY NumberFacts, Widths, <1>1
<1>10. s5 \in Seq(AByte) /\ Len(s5) = L * KeySize
  BY NumbersFacts, Widths, <1>1 DEF L
<1>11. s6 \in Seq(AByte) /\ Len(s6) = (Fanout - 1 - L) * KeySize
  BY ZerosFacts, <1>4
<1>12. s7 \in Seq(AByte) /\ Len(s7) = (L + 1) * 8
  <2>1. Uint64 \in Nat \ {0} /\ Uint64 = 8
    BY Widths
  <2> QED BY NumbersFacts, <1>1, <2>1
<1>13. s8 \in Seq(AByte) /\ Len(s8) = (Fanout - 1 - L) * 8
  BY ZerosFacts, <1>4
<1>14. s9 \in Seq(AByte) /\ Len(s9) = C * W
  BY <1>2, JoinedFacts
<1>15. s10 \in Seq(AByte) /\ Len(s10) = (MaxBufferSize - C) * W
  BY ZerosFacts, <1>5
<1>16. KeySize \in Nat
  BY Widths
<1> HIDE DEF s1, s2, s3, s4, s5, s6, s7, s8, s9, s10
<1> DEFINE t2 == s1 \o s2
           t3 == t2 \o s3
           t4 == t3 \o s4
           t5 == t4 \o s5
           t6 == t5 \o s6
           t7 == t6 \o s7
           t8 == t7 \o s8
           t9 == t8 \o s9
           t10 == t9 \o s10
           lk == L * KeySize
           rk == (Fanout - 1 - L) * KeySize
           cw == C * W
           rw == (MaxBufferSize - C) * W
<1>17. /\ lk \in Nat /\ rk \in Nat /\ lk + rk = KK /\ KK \in Nat
       /\ cw \in Nat /\ rw \in Nat /\ cw + rw = MM /\ MM \in Nat
       /\ Len(s5) = lk /\ Len(s6) = rk /\ Len(s9) = cw /\ Len(s10) = rw
  BY <1>4, <1>5, <1>10, <1>11, <1>14, <1>15
<1> HIDE DEF lk, rk, cw, rw, KK, MM
<1>18. t2 \in Seq(AByte) /\ Len(t2) = 5
  <2>1. s1 \o s2 \in Seq(AByte) /\ Len(s1 \o s2) = Len(s1) + Len(s2)
    BY ONLY <1>6, <1>7, ConcatFacts, Zenon
  <2>2. t2 \in Seq(AByte) /\ Len(t2) = Len(s1) + Len(s2)
    BY <2>1
  <2> HIDE DEF t2
  <2> QED BY <1>6, <1>7, <1>1, <1>16, <1>17, <2>2
<1> HIDE DEF t2
<1>19. t3 \in Seq(AByte) /\ Len(t3) = 29
  <2>1. t2 \o s3 \in Seq(AByte) /\ Len(t2 \o s3) = Len(t2) + Len(s3)
    BY ONLY <1>18, <1>8, ConcatFacts, Zenon
  <2>2. t3 \in Seq(AByte) /\ Len(t3) = Len(t2) + Len(s3)
    BY <2>1
  <2> HIDE DEF t3
  <2> QED BY <1>18, <1>8, <1>1, <1>16, <1>17, <2>2
<1> HIDE DEF t3
<1>20. t4 \in Seq(AByte) /\ Len(t4) = 29 + KeySize
  <2>1. t3 \o s4 \in Seq(AByte) /\ Len(t3 \o s4) = Len(t3) + Len(s4)
    BY ONLY <1>19, <1>9, ConcatFacts, Zenon
  <2>2. t4 \in Seq(AByte) /\ Len(t4) = Len(t3) + Len(s4)
    BY <2>1
  <2> HIDE DEF t4
  <2> QED BY <1>19, <1>9, <1>1, <1>16, <1>17, <2>2
<1> HIDE DEF t4
<1>21. t5 \in Seq(AByte) /\ Len(t5) = 29 + KeySize + lk
  <2>1. t4 \o s5 \in Seq(AByte) /\ Len(t4 \o s5) = Len(t4) + Len(s5)
    BY ONLY <1>20, <1>10, ConcatFacts, Zenon
  <2>2. t5 \in Seq(AByte) /\ Len(t5) = Len(t4) + Len(s5)
    BY <2>1
  <2> HIDE DEF t5
  <2> QED BY <1>20, <1>10, <1>1, <1>16, <1>17, <2>2
<1> HIDE DEF t5
<1>22. t6 \in Seq(AByte) /\ Len(t6) = 29 + KeySize + KK
  <2>1. t5 \o s6 \in Seq(AByte) /\ Len(t5 \o s6) = Len(t5) + Len(s6)
    BY ONLY <1>21, <1>11, ConcatFacts, Zenon
  <2>2. t6 \in Seq(AByte) /\ Len(t6) = Len(t5) + Len(s6)
    BY <2>1
  <2> HIDE DEF t6
  <2> QED BY <1>21, <1>11, <1>1, <1>16, <1>17, <2>2
<1> HIDE DEF t6
<1>23. t7 \in Seq(AByte) /\ Len(t7) = 29 + KeySize + KK + (L + 1) * 8
  <2>1. t6 \o s7 \in Seq(AByte) /\ Len(t6 \o s7) = Len(t6) + Len(s7)
    BY ONLY <1>22, <1>12, ConcatFacts, Zenon
  <2>2. t7 \in Seq(AByte) /\ Len(t7) = Len(t6) + Len(s7)
    BY <2>1
  <2> HIDE DEF t7
  <2> QED BY <1>22, <1>12, <1>1, <1>16, <1>17, <2>2
<1> HIDE DEF t7
<1>24. t8 \in Seq(AByte) /\ Len(t8) = 29 + KeySize + KK + Fanout * 8
  <2>1. t7 \o s8 \in Seq(AByte) /\ Len(t7 \o s8) = Len(t7) + Len(s8)
    BY ONLY <1>23, <1>13, ConcatFacts, Zenon
  <2>2. t8 \in Seq(AByte) /\ Len(t8) = Len(t7) + Len(s8)
    BY <2>1
  <2> HIDE DEF t8
  <2> QED BY <1>23, <1>13, <1>1, <1>16, <1>17, <2>2
<1> HIDE DEF t8
<1>25. t9 \in Seq(AByte) /\ Len(t9) = 29 + KeySize + KK + Fanout * 8 + cw
  <2>1. t8 \o s9 \in Seq(AByte) /\ Len(t8 \o s9) = Len(t8) + Len(s9)
    BY ONLY <1>24, <1>14, ConcatFacts, Zenon
  <2>2. t9 \in Seq(AByte) /\ Len(t9) = Len(t8) + Len(s9)
    BY <2>1
  <2> HIDE DEF t9
  <2> QED BY <1>24, <1>14, <1>1, <1>16, <1>17, <2>2
<1> HIDE DEF t9
<1>26. t10 \in Seq(AByte) /\ Len(t10) = 29 + KeySize + KK + Fanout * 8 + MM
  <2>1. t9 \o s10 \in Seq(AByte) /\ Len(t9 \o s10) = Len(t9) + Len(s10)
    BY ONLY <1>25, <1>15, ConcatFacts, Zenon
  <2>2. t10 \in Seq(AByte) /\ Len(t10) = Len(t9) + Len(s10)
    BY <2>1
  <2> HIDE DEF t10
  <2> QED BY <1>25, <1>15, <1>1, <1>16, <1>17, <2>2
<1> HIDE DEF t10
<1>27. serializeInternal(n) = t10
  BY <1>3 DEF t2, t3, t4, t5, t6, t7, t8, t9, t10
<1>28. internalSize = 29 + KeySize + KK + Fanout * 8 + MM
  <2>1. /\ internalSize = KK + Fanout * Uint64 + MM + Uint8 + 2 * Uint16 + 3 * Uint64 + KeySize
        /\ Fanout * Uint64 = Fanout * 8
    BY Widths DEF internalSize, KK, MM, W
  <2> QED BY Widths, <1>1, <1>16, <1>17, <2>1
<1>29. ASSUME NEW m, NEW a \in Nat, contains(m, a, t10)
       PROVE  /\ contains(m, a, s1)
              /\ contains(m, a + 1, s2)
              /\ contains(m, a + 5, s3)
              /\ contains(m, a + 29, s4)
              /\ contains(m, a + 29 + KeySize, s5)
              /\ contains(m, a + 29 + KeySize + KK, s7)
              /\ contains(m, a + 29 + KeySize + KK + Fanout * 8, s9)
  <2>1. a \in Nat
    OBVIOUS
  <2>2. contains(m, a, t9) /\ contains(m, a + Len(t9), s10)
    BY ONLY <1>29, <2>1, <1>25, <1>15, ContainsBoth, Zenon DEF t10
  <2>3. contains(m, a, t8) /\ contains(m, a + Len(t8), s9)
    BY ONLY <2>2, <2>1, <1>24, <1>14, ContainsBoth, Zenon DEF t9
  <2>4. contains(m, a, t7) /\ contains(m, a + Len(t7), s8)
    BY ONLY <2>3, <2>1, <1>23, <1>13, ContainsBoth, Zenon DEF t8
  <2>5. contains(m, a, t6) /\ contains(m, a + Len(t6), s7)
    BY ONLY <2>4, <2>1, <1>22, <1>12, ContainsBoth, Zenon DEF t7
  <2>6. contains(m, a, t5) /\ contains(m, a + Len(t5), s6)
    BY ONLY <2>5, <2>1, <1>21, <1>11, ContainsBoth, Zenon DEF t6
  <2>7. contains(m, a, t4) /\ contains(m, a + Len(t4), s5)
    BY ONLY <2>6, <2>1, <1>20, <1>10, ContainsBoth, Zenon DEF t5
  <2>8. contains(m, a, t3) /\ contains(m, a + Len(t3), s4)
    BY ONLY <2>7, <2>1, <1>19, <1>9, ContainsBoth, Zenon DEF t4
  <2>9. contains(m, a, t2) /\ contains(m, a + Len(t2), s3)
    BY ONLY <2>8, <2>1, <1>18, <1>8, ContainsBoth, Zenon DEF t3
  <2>10. contains(m, a, s1) /\ contains(m, a + Len(s1), s2)
    BY ONLY <2>9, <2>1, <1>6, <1>7, ContainsBoth, Zenon DEF t2
  <2>11. /\ a + Len(t8) = a + 29 + KeySize + KK + Fanout * 8
         /\ a + Len(t6) = a + 29 + KeySize + KK
         /\ a + Len(t4) = a + 29 + KeySize
         /\ a + Len(t3) = a + 29 /\ a + Len(t2) = a + 5 /\ a + Len(s1) = a + 1
    BY <1>1, <1>6, <1>16, <1>17, <1>24, <1>22, <1>20, <1>19, <1>18
  <2> QED BY <2>3, <2>5, <2>7, <2>8, <2>9, <2>10, <2>11
<1> QED BY <1>26, <1>27, <1>28, <1>29 DEF s1, s2, s3, s4, s5, s7, s9, L, C, W, KK

\* An internal node is read back, field by field and message by message.
LEMMA InternalDecodes ==
  ASSUME NEW n, internalFits(n), NEW m, NEW a \in Nat, contains(m, a, serializeInternal(n))
  PROVE  numberAt(m, a, Uint8) = 0 /\ deserializeInternal(m, a) = n
<1> DEFINE B          == n.messageBuffer
           order      == ordered(DOMAIN B)
           C          == Cardinality(DOMAIN B)
           lowestAt   == a + 29
           keysAt     == lowestAt + KeySize
           childrenAt == keysAt + (Fanout - 1) * KeySize
           bufferAt   == childrenAt + Fanout * 8
           messages   == [i \in 1 .. C |-> deserializeMessage(m, bufferAt + (i - 1) * messageSize)]
           last(k)    == messages[CHOOSE i \in DOMAIN messages :
                           messages[i].key = k /\ \A j \in DOMAIN messages : messages[j].key = k => j <= i]
           buffer     == [k \in {messages[i].key : i \in DOMAIN messages} |->
                            [type |-> last(k).type, value |-> last(k).value]]
<1>1. /\ n.keys \in Seq(Int) /\ n.children \in Seq(Int) /\ Len(n.children) = Len(n.keys) + 1
      /\ Len(n.keys) \in Nat /\ Fanout - 1 \in Nat /\ Fanout \in Nat
      /\ n.parent \in Int /\ n.leftSibling \in Int /\ n.rightSibling \in Int
      /\ n.lowestSearchKey \in Int
      /\ DOMAIN B \subseteq Int /\ IsFiniteSet(DOMAIN B)
      /\ B \in [DOMAIN B -> [type : Int, value : Int]]
  BY FanoutAssumption DEF internalFits
<1>2. /\ contains(m, a, number(0, Uint8))
      /\ contains(m, a + 1, numbers(<<Len(n.keys), C>>, Uint16))
      /\ contains(m, a + 5, numbers(<<n.parent, n.leftSibling, n.rightSibling>>, Uint64))
      /\ contains(m, lowestAt, number(n.lowestSearchKey, KeySize))
      /\ contains(m, keysAt, numbers(n.keys, KeySize))
      /\ contains(m, childrenAt, numbers(n.children, Uint64))
      /\ contains(m, bufferAt, joined(written_messages(n), messageSize))
  BY InternalBytes
<1>3. /\ C \in Nat /\ Len(order) = C
      /\ pieces(written_messages(n), messageSize) /\ Len(written_messages(n)) = C
      /\ messageSize \in Nat \ {0}
      /\ \A i \in 1 .. C :
           /\ order[i] \in Int /\ B[order[i]] \in [type : Int, value : Int]
           /\ written_messages(n)[i] = serializeMessage(order[i], B[order[i]])
  BY MessagesFacts
<1>4. /\ \A i \in 1 .. C : order[i] \in DOMAIN B
      /\ \A k \in DOMAIN B : \E i \in 1 .. C : order[i] = k
      /\ \A i, j \in 1 .. C : order[i] = order[j] => i = j
  <2> DEFINE D == DOMAIN B
  <2> HIDE DEF D
  <2>1. D \subseteq Int /\ IsFiniteSet(D)
    BY <1>1 DEF D
  <2>2. /\ \A i \in 1 .. Cardinality(D) : ordered(D)[i] \in D
        /\ \A k \in D : \E i \in 1 .. Cardinality(D) : ordered(D)[i] = k
        /\ \A i, j \in 1 .. Cardinality(D) : ordered(D)[i] = ordered(D)[j] => i = j
    BY <2>1, OrderedFacts
  <2> QED BY <2>2 DEF D
<1>5. /\ a + Uint8 = a + 1 /\ a + Uint8 + 2 * Uint16 = a + 5
      /\ a + Uint8 + 2 * Uint16 + 3 * Uint64 = lowestAt
      /\ a + 1 \in Nat /\ a + 5 \in Nat /\ lowestAt \in Nat /\ keysAt \in Nat
      /\ Uint8 \in Nat \ {0} /\ Uint16 \in Nat \ {0} /\ Uint64 \in Nat \ {0} /\ Uint64 = 8
  BY Widths
<1>6. childrenAt \in Nat /\ bufferAt \in Nat
  <2>1. (Fanout - 1) * KeySize \in Nat /\ Fanout * 8 \in Nat
    BY <1>1, Widths
  <2> HIDE DEF keysAt
  <2> QED BY <1>5, <2>1
<1> HIDE DEF B, order, C, lowestAt, keysAt, childrenAt, bufferAt
<1>7. numberAt(m, a, Uint8) = 0
  <2>1. a \in Nat /\ Uint8 \in Nat \ {0} /\ 0 \in Int /\ contains(m, a, number(0, Uint8))
    BY <1>2, <1>5
  <2> QED BY ONLY <2>1, ReadsNumber, Zenon
<1>8. numbersAt(m, a + 1, Uint16, 2) = <<Len(n.keys), C>>
  <2>1. <<Len(n.keys), C>> \in Seq(Int) /\ Len(<<Len(n.keys), C>>) = 2
    BY <1>1, <1>3
  <2> DEFINE s == <<Len(n.keys), C>>
  <2>2. /\ s \in Seq(Int) /\ Len(s) = 2 /\ a + 1 \in Nat /\ Uint16 \in Nat \ {0}
        /\ contains(m, a + 1, numbers(s, Uint16))
    BY <1>2, <1>5, <2>1
  <2> HIDE DEF s
  <2>3. numbersAt(m, a + 1, Uint16, Len(s)) = s
    BY ONLY <2>2, ReadsNumbers, Zenon
  <2>4. numbersAt(m, a + 1, Uint16, 2) = s
    BY ONLY <2>2, <2>3
  <2> QED BY ONLY <2>4 DEF s
<1>9. numbersAt(m, a + 5, Uint64, 3) = <<n.parent, n.leftSibling, n.rightSibling>>
  <2>1. <<n.parent, n.leftSibling, n.rightSibling>> \in Seq(Int)
        /\ Len(<<n.parent, n.leftSibling, n.rightSibling>>) = 3
    BY <1>1
  <2> DEFINE s == <<n.parent, n.leftSibling, n.rightSibling>>
  <2>2. /\ s \in Seq(Int) /\ Len(s) = 3 /\ a + 5 \in Nat /\ Uint64 \in Nat \ {0}
        /\ contains(m, a + 5, numbers(s, Uint64))
    BY <1>2, <1>5, <2>1
  <2> HIDE DEF s
  <2>3. numbersAt(m, a + 5, Uint64, Len(s)) = s
    BY ONLY <2>2, ReadsNumbers, Zenon
  <2>4. numbersAt(m, a + 5, Uint64, 3) = s
    BY ONLY <2>2, <2>3
  <2> QED BY ONLY <2>4 DEF s
<1>10. numberAt(m, lowestAt, KeySize) = n.lowestSearchKey
  <2>1. lowestAt \in Nat /\ KeySize \in Nat \ {0} /\ n.lowestSearchKey \in Int /\ contains(m, lowestAt, number(n.lowestSearchKey, KeySize))
    BY <1>1, <1>2, <1>5, Widths
  <2> QED BY ONLY <2>1, ReadsNumber, Zenon
<1>11. numbersAt(m, keysAt, KeySize, Len(n.keys)) = n.keys
  <2>1. keysAt \in Nat /\ KeySize \in Nat \ {0} /\ n.keys \in Seq(Int) /\ contains(m, keysAt, numbers(n.keys, KeySize))
    BY <1>1, <1>2, <1>5, Widths
  <2> QED BY ONLY <2>1, ReadsNumbers, Zenon
<1>12. numbersAt(m, childrenAt, Uint64, Len(n.keys) + 1) = n.children
  <2>1. numbersAt(m, childrenAt, Uint64, Len(n.children)) = n.children
    <3>1. /\ childrenAt \in Nat /\ Uint64 \in Nat \ {0} /\ n.children \in Seq(Int)
          /\ contains(m, childrenAt, numbers(n.children, Uint64))
      BY <1>1, <1>2, <1>5, <1>6
    <3> QED BY ONLY <3>1, ReadsNumbers, Zenon
  <2> QED BY <1>1, <2>1
<1>13. ASSUME NEW i \in 1 .. C
       PROVE  messages[i] = [type |-> B[order[i]].type, key |-> order[i], value |-> B[order[i]].value]
  <2>1. bufferAt + (i - 1) * messageSize \in Nat
    <3>1. i - 1 \in Nat
      BY <1>3
    <3>2. (i - 1) * messageSize \in Nat
      BY ONLY <1>3, <3>1
    <3> QED BY ONLY <1>6, <3>2
  <2>2. contains(m, bufferAt + (i - 1) * messageSize, written_messages(n)[i])
    BY <1>2, <1>3, <1>6, ContainsJoined
  <2>3. contains(m, bufferAt + (i - 1) * messageSize, serializeMessage(order[i], B[order[i]]))
    BY <1>3, <2>2
  <2>4. order[i] \in Int /\ B[order[i]] \in [type : Int, value : Int]
    BY <1>3
  <2>5. deserializeMessage(m, bufferAt + (i - 1) * messageSize)
          = [type |-> B[order[i]].type, key |-> order[i], value |-> B[order[i]].value]
    BY <2>1, <2>3, <2>4, MessageDecodes
  <2> QED BY <2>5
<1>14. DOMAIN messages = 1 .. C
  OBVIOUS
<1> HIDE DEF messages
<1>15. ASSUME NEW i \in 1 .. C PROVE messages[i].key = order[i]
  <2>1. messages[i] = [type |-> B[order[i]].type, key |-> order[i], value |-> B[order[i]].value]
    BY <1>13
  <2> QED BY ONLY <2>1
<1>16. {messages[i].key : i \in DOMAIN messages} = DOMAIN B
  <2>1. \A i \in DOMAIN messages : messages[i].key \in DOMAIN B
    BY ONLY <1>4, <1>14, <1>15
  <2>2. ASSUME NEW k \in DOMAIN B
        PROVE  \E i \in DOMAIN messages : k = messages[i].key
    <3>1. PICK i \in 1 .. C : order[i] = k
      BY <1>4
    <3>2. messages[i].key = order[i]
      BY <1>15
    <3> QED BY <1>14, <3>1, <3>2
  <2> QED BY <2>1, <2>2
<1>17. ASSUME NEW k \in DOMAIN B
       PROVE  [type |-> last(k).type, value |-> last(k).value] = B[k]
  <2>1. PICK i \in 1 .. C : order[i] = k
    BY <1>4
  <2>2. \A j \in 1 .. C : messages[j].key = k => j = i
    BY <1>4, <1>15, <2>1
  <2>3. /\ i \in DOMAIN messages /\ messages[i].key = k
        /\ \A j \in DOMAIN messages : messages[j].key = k => j <= i
    BY <1>14, <1>15, <2>1, <2>2
  <2> DEFINE c == CHOOSE j \in DOMAIN messages :
                    messages[j].key = k /\ \A l \in DOMAIN messages : messages[l].key = k => l <= j
  <2>4. c \in DOMAIN messages /\ messages[c].key = k
    BY <2>3
  <2>5. c = i
    BY <1>14, <2>2, <2>4
  <2>6. last(k) = messages[i]
    BY <2>5
  <2>7. last(k) = [type |-> B[k].type, key |-> k, value |-> B[k].value]
    BY <1>13, <2>1, <2>6
  <2> HIDE DEF last
  <2>8. [type |-> last(k).type, value |-> last(k).value] = [type |-> B[k].type, value |-> B[k].value]
    BY <2>7
  <2>9. B[k] \in [type : Int, value : Int]
    BY <1>1
  <2> QED BY <2>8, <2>9
<1> HIDE DEF last
<1>18. buffer = B
  <2>1. buffer = [k \in DOMAIN B |-> B[k]]
    BY <1>16, <1>17
  <2> QED BY <1>1, <2>1
<1>19. deserializeInternal(m, a) =
         [parent |-> n.parent, leftSibling |-> n.leftSibling, rightSibling |-> n.rightSibling,
          lowestSearchKey |-> n.lowestSearchKey, keys |-> n.keys, children |-> n.children,
          messageBuffer |-> buffer]
  <2> DEFINE counts == numbersAt(m, a + Uint8, Uint16, 2)
             links  == numbersAt(m, a + Uint8 + 2 * Uint16, Uint64, 3)
             lAt    == a + Uint8 + 2 * Uint16 + 3 * Uint64
             kAt    == lAt + KeySize
             cAt    == kAt + (Fanout - 1) * KeySize
             bAt    == cAt + Fanout * Uint64
  <2>1. counts[1] = Len(n.keys) /\ counts[2] = C
    BY <1>5, <1>8
  <2>2. links[1] = n.parent /\ links[2] = n.leftSibling /\ links[3] = n.rightSibling
    BY <1>5, <1>9
  <2>3. lAt = lowestAt /\ kAt = keysAt /\ cAt = childrenAt /\ bAt = bufferAt
    BY <1>5 DEF keysAt, childrenAt, bufferAt
  <2>4. messages = [i \in 1 .. counts[2] |-> deserializeMessage(m, bAt + (i - 1) * messageSize)]
    BY <2>1, <2>3 DEF messages
  <2>5. deserializeInternal(m, a) =
         [parent |-> links[1], leftSibling |-> links[2], rightSibling |-> links[3],
          lowestSearchKey |-> numberAt(m, lAt, KeySize),
          keys     |-> numbersAt(m, kAt, KeySize, counts[1]),
          children |-> numbersAt(m, cAt, Uint64, counts[1] + 1),
          messageBuffer |-> buffer]
    BY <2>4 DEF deserializeInternal, last
  <2> HIDE DEF counts, links, lAt, kAt, cAt, bAt, buffer
  <2> QED BY <1>10, <1>11, <1>12, <2>1, <2>2, <2>3, <2>5
<1> HIDE DEF buffer
<1>20. n = [parent |-> n.parent, leftSibling |-> n.leftSibling, rightSibling |-> n.rightSibling,
            lowestSearchKey |-> n.lowestSearchKey, keys |-> n.keys, children |-> n.children,
            messageBuffer |-> n.messageBuffer]
  BY DEF internalFits
<1> QED BY <1>7, <1>18, <1>19, <1>20 DEF B

-----------------------------------------------------------------------------
(* Nodes, header and table *)

\* A node has at least one byte and as many as are reserved for it, and is loaded from
\* its bytes as it was.
LEMMA NodeDecodes ==
  ASSUME NEW n \in Node
  PROVE  /\ serialize(n) \in Seq(AByte) /\ Len(serialize(n)) = SizeOf[n]
         /\ \A m : \A id \in Nat :
              contains(m, at(id), serialize(n)) => loadNode(m, id) = n
<1>1. (leafFits(n) \/ internalFits(n)) /\ SizeOf[n] = getSerializedSize(n)
  BY LayoutAssumption
<1>2. ASSUME NEW id \in Nat PROVE at(id) \in Nat
  BY BlockAssumption DEF at
<1>3. CASE leafFits(n)
  <2>1. isLeaf(n)
    BY <1>3 DEF leafFits, isLeaf
  <2>2. serialize(n) = serializeLeaf(n) /\ getSerializedSize(n) = leafSize
    BY <2>1 DEF serialize, getSerializedSize
  <2>3. ASSUME NEW m, NEW id \in Nat, contains(m, at(id), serialize(n))
        PROVE  loadNode(m, id) = n
    <3>1. numberAt(m, at(id), Uint8) = 1 /\ deserializeLeaf(m, at(id)) = n
      BY <1>2, <1>3, <2>2, <2>3, LeafDecodes
    <3> QED BY <3>1 DEF loadNode
  <2> QED BY <1>1, <1>3, <2>2, <2>3, LeafBytes
<1>4. CASE internalFits(n)
  <2>1. ~isLeaf(n)
    BY <1>4 DEF internalFits, isLeaf
  <2>2. serialize(n) = serializeInternal(n) /\ getSerializedSize(n) = internalSize
    BY <2>1 DEF serialize, getSerializedSize
  <2>3. ASSUME NEW m, NEW id \in Nat, contains(m, at(id), serialize(n))
        PROVE  loadNode(m, id) = n
    <3>1. numberAt(m, at(id), Uint8) = 0 /\ deserializeInternal(m, at(id)) = n
      BY <1>2, <1>4, <2>2, <2>3, InternalDecodes
    <3> QED BY <3>1 DEF loadNode
  <2> QED BY <1>1, <1>4, <2>2, <2>3, InternalBytes
<1> QED BY <1>1, <1>3, <1>4

\* The sum that byteOf takes has a bit for each number in the set.
LEMMA ByteBits ==
  ASSUME NEW bits, bits \subseteq 0 .. 7
  PROVE  /\ byteOf(bits) \in Int
         /\ \A j \in 0 .. 7 : (byteOf(bits) \div 2^j) % 2 = 1 <=> j \in bits
<1> DEFINE d(i) == IF i - 1 \in bits THEN 2^(i - 1) ELSE 0
           round == [p \in Nat \X (1 .. 8) |-> p[1] + d(p[2])]
           isSum(f) == f = [j \in 0 .. 8 |->
             IF j = 0 THEN 0 ELSE f[j - 1] + (IF j - 1 \in bits THEN 2^(j - 1) ELSE 0)]
<1>1. ASSUME NEW i \in 1 .. 8 PROVE d(i) \in Nat
  <2>1. CASE i = 1 BY <2>1
  <2>2. CASE i = 2 BY <2>2
  <2>3. CASE i = 3 BY <2>3
  <2>4. CASE i = 4 BY <2>4
  <2>5. CASE i = 5 BY <2>5
  <2>6. CASE i = 6 BY <2>6
  <2>7. CASE i = 7 BY <2>7
  <2>8. CASE i = 8 BY <2>8
  <2> QED BY <2>1, <2>2, <2>3, <2>4, <2>5, <2>6, <2>7, <2>8
<1>2. round \in [Nat \X (1 .. 8) -> Nat]
  <2> HIDE DEF d
  <2> QED BY <1>1
<1>3. PICK h \in [0 .. 8 -> Nat] : Rounds(h, 8, 0, round)
  <2>1. 8 \in Nat /\ 0 \in Nat
    OBVIOUS
  <2> HIDE DEF round
  <2> QED BY <1>2, <2>1, RoundsExist
<1>4. isSum(h)
  <2>1. ASSUME NEW i \in 0 .. 8, i # 0 PROVE round[<<h[i - 1], i>>] = h[i - 1] + d(i)
    <3>1. h[i - 1] \in Nat /\ i \in 1 .. 8
      BY <2>1
    <3> QED BY <3>1
  <2> HIDE DEF round
  <2> QED BY <1>3, <2>1 DEF Rounds
<1> DEFINE sum == CHOOSE f : isSum(f)
<1>5. isSum(sum)
  BY <1>4
<1>6. byteOf(bits) = sum[8]
  BY DEF byteOf
<1> HIDE DEF sum
<1>7. sum[0] = 0 /\ \A i \in 1 .. 8 : sum[i] = sum[i - 1] + d(i)
  BY <1>5
<1> DEFINE b(j, w) == IF j \in bits THEN w ELSE 0
<1>8. /\ sum[1] = b(0, 1) /\ sum[2] = sum[1] + b(1, 2) /\ sum[3] = sum[2] + b(2, 4)
      /\ sum[4] = sum[3] + b(3, 8) /\ sum[5] = sum[4] + b(4, 16) /\ sum[6] = sum[5] + b(5, 32)
      /\ sum[7] = sum[6] + b(6, 64) /\ sum[8] = sum[7] + b(7, 128)
  BY <1>7
<1>9. sum[8] = b(0, 1) + b(1, 2) + b(2, 4) + b(3, 8) + b(4, 16) + b(5, 32) + b(6, 64) + b(7, 128)
  BY ONLY <1>8
<1>10. ASSUME NEW j \in 0 .. 7 PROVE (sum[8] \div 2^j) % 2 = 1 <=> j \in bits
  <2>1. CASE j = 0 BY ONLY <1>9, <2>1
  <2>2. CASE j = 1 BY ONLY <1>9, <2>2
  <2>3. CASE j = 2 BY ONLY <1>9, <2>3
  <2>4. CASE j = 3 BY ONLY <1>9, <2>4
  <2>5. CASE j = 4 BY ONLY <1>9, <2>5
  <2>6. CASE j = 5 BY ONLY <1>9, <2>6
  <2>7. CASE j = 6 BY ONLY <1>9, <2>7
  <2>8. CASE j = 7 BY ONLY <1>9, <2>8
  <2> QED BY <2>1, <2>2, <2>3, <2>4, <2>5, <2>6, <2>7, <2>8
<1>11. sum[8] \in Int
  BY ONLY <1>9
<1> QED BY <1>6, <1>10, <1>11

\* As many bytes as the table takes.
TableSize == ceil(NumBlocks, 8)

\* There is room for the header and the table before the first node.
LEMMA TableFits ==
  /\ NumBlocks \in Nat \ {0}
  /\ TableSize \in Nat /\ TableSize = (NumBlocks - 1) \div 8 + 1
  /\ Cardinality(Reserved) \in Nat /\ Reserved = 0 .. Cardinality(Reserved) - 1
  /\ Cardinality(Reserved) <= NumBlocks
  /\ HeaderSize + TableSize <= BlockSize * Cardinality(Reserved)
  /\ HeaderSize + TableSize <= NumBlocks * BlockSize
<1> DEFINE h == ceil(HeaderSize, BlockSize)
           t == ceil(NumBlocks, BlockSize)
<1>1. h \in Nat \ {0} /\ t \in Nat
  BY CeilPositive, CeilCovers, BlockAssumption DEF HeaderSize
<1> HIDE DEF h, t
<1>2. Reserved = 0 .. h + t - 1
  BY DEF Reserved, h, t
<1>3. 0 \in Reserved /\ h + t - 1 \in Reserved
  BY <1>1, <1>2
<1>4. NumBlocks \in Nat \ {0} /\ h + t <= NumBlocks
  BY <1>1, <1>3, ReservedAssumption, BlockAssumption DEF Block
<1>5. Cardinality(Reserved) = h + t
  <2> DEFINE last == h + t - 1
  <2>1. 0 \in Int /\ last \in Int
    BY <1>1
  <2> HIDE DEF last
  <2>2. Cardinality(0 .. last) = IF 0 > last THEN 0 ELSE last - 0 + 1
    BY ONLY <2>1, FS_Interval, Zenon
  <2> QED BY <1>1, <1>2, <2>2 DEF last
<1>6. TableSize \in Nat /\ TableSize = (NumBlocks - 1) \div 8 + 1
  BY <1>4 DEF TableSize, ceil
<1>7. HeaderSize + TableSize <= BlockSize * Cardinality(Reserved)
  <2>1. NumBlocks > 0
    BY <1>4
  <2>2. HeaderSize + (NumBlocks - 1) \div 8 + 1 <= BlockSize * Cardinality(Reserved)
    BY <2>1, HeaderFits
  <2>3. HeaderSize = 20 /\ (NumBlocks - 1) \div 8 \in Int
    BY <1>4 DEF HeaderSize
  <2> QED BY <1>6, <2>2, <2>3
<1>8. BlockSize * (h + t) <= NumBlocks * BlockSize
  BY <1>1, <1>4, BlockAssumption
<1>9. HeaderSize + TableSize \in Nat /\ BlockSize * (h + t) \in Nat /\ NumBlocks * BlockSize \in Nat
  BY <1>1, <1>4, <1>6, BlockAssumption DEF HeaderSize
<1>10. HeaderSize + TableSize <= NumBlocks * BlockSize
  BY <1>5, <1>7, <1>8, <1>9
<1> QED BY <1>1, <1>2, <1>4, <1>5, <1>6, <1>7, <1>10

\* The table is written as its bytes, and read back bit by bit.
LEMMA TableBytes ==
  ASSUME NEW t, t \subseteq Block
  PROVE  /\ tableBytes(t) \in Seq(AByte) /\ Len(tableBytes(t)) = TableSize
         /\ \A m : contains(m, HeaderSize, tableBytes(t)) => readAllocationTable(m) = t
<1> DEFINE v == [w \in 1 .. TableSize |-> byteOf(packed(t)[w - 1])]
<1>1. TableSize \in Nat /\ TableSize = (NumBlocks - 1) \div 8 + 1 /\ NumBlocks \in Nat \ {0}
  BY TableFits
<1>2. ASSUME NEW q \in 0 .. (NumBlocks - 1) \div 8
      PROVE  packed(t)[q] = {j \in 0 .. 7 : 8 * q + j \in t}
  BY DEF packed
<1>3. ASSUME NEW w \in 1 .. TableSize
      PROVE  packed(t)[w - 1] \subseteq 0 .. 7
  <2>1. w - 1 \in 0 .. (NumBlocks - 1) \div 8
    BY <1>1
  <2> QED BY <1>2, <2>1
<1>4. ASSUME NEW w \in 1 .. TableSize PROVE byteOf(packed(t)[w - 1]) \in Int
  BY <1>3, ByteBits
<1>5. v \in [1 .. TableSize -> Int]
  BY <1>4
<1>6. v \in Seq(Int) /\ Len(v) = TableSize
  BY <1>1, <1>5
<1>7. tableBytes(t) = numbers(v, 1)
  BY Widths DEF tableBytes, TableSize
<1>8. \A w \in 1 .. TableSize : v[w] = byteOf(packed(t)[w - 1])
  OBVIOUS
<1> HIDE DEF v
<1>9. tableBytes(t) \in Seq(AByte) /\ Len(tableBytes(t)) = TableSize
  <2>1. 1 \in Nat \ {0} /\ TableSize * 1 = TableSize
    BY <1>1
  <2> QED BY <1>6, <1>7, <2>1, NumbersFacts
<1>10. ASSUME NEW m, contains(m, HeaderSize, tableBytes(t))
       PROVE  readAllocationTable(m) = t
  <2>1. numbersAt(m, HeaderSize, 1, TableSize) = v
    <3>1. HeaderSize \in Nat /\ 1 \in Nat \ {0}
      BY DEF HeaderSize
    <3>2. HeaderSize \in Nat /\ 1 \in Nat \ {0} /\ v \in Seq(Int) /\ contains(m, HeaderSize, numbers(v, 1))
      BY ONLY <1>6, <1>7, <1>10, <3>1
    <3>3. numbersAt(m, HeaderSize, 1, Len(v)) = v
      BY ONLY <3>2, ReadsNumbers, Zenon
    <3> QED BY ONLY <3>3, <1>6
  <2>2. ASSUME NEW i \in Block
        PROVE  (numberAt(m, HeaderSize + i \div 8, Uint8) \div 2^(i % 8)) % 2 = 1 <=> i \in t
    <3> DEFINE q == i \div 8
               r == i % 8
    <3>1. /\ q \in 0 .. (NumBlocks - 1) \div 8 /\ r \in 0 .. 7 /\ 8 * q + r = i
          /\ q + 1 \in 1 .. TableSize
      BY <1>1 DEF Block
    <3>2. HeaderSize + ((q + 1) - 1) * 1 = HeaderSize + q
      BY <3>1 DEF HeaderSize
    <3> HIDE DEF q, r
    <3>3. numberAt(m, HeaderSize + ((q + 1) - 1) * 1, 1) = v[q + 1]
      BY <2>1, <3>1 DEF numbersAt
    <3>4. v[q + 1] = byteOf(packed(t)[q])
      <4>1. (q + 1) - 1 = q
        BY <3>1
      <4> QED BY <1>8, <3>1, <4>1
    <3>5. numberAt(m, HeaderSize + q, Uint8) = byteOf(packed(t)[q])
      BY <3>2, <3>3, <3>4, Widths
    <3>6. packed(t)[q] \subseteq 0 .. 7 /\ (r \in packed(t)[q] <=> i \in t)
      BY <1>2, <3>1
    <3>7. (byteOf(packed(t)[q]) \div 2^r) % 2 = 1 <=> r \in packed(t)[q]
      BY <3>1, <3>6, ByteBits
    <3> QED BY <3>5, <3>6, <3>7 DEF q, r
  <2> QED BY <2>2 DEF readAllocationTable
<1> QED BY <1>9, <1>10

-----------------------------------------------------------------------------
(* Where the bytes of nodes lie *)

\* The bytes of each node are behind the table and inside the storage, and no byte is in
\* two nodes.
wellPlaced(nodes) ==
  /\ \A id \in DOMAIN nodes :
       /\ nodes[id] \in Node /\ id \in Nat /\ at(id) \in Nat
       /\ HeaderSize + TableSize <= at(id)
       /\ at(id) + SizeOf[nodes[id]] <= NumBlocks * BlockSize
  /\ \A i, j \in DOMAIN nodes : i # j =>
       at(i) + SizeOf[nodes[i]] <= at(j) \/ at(j) + SizeOf[nodes[j]] <= at(i)

\* Multiples of the block size keep the order.
LEMMA BlockOrder ==
  ASSUME NEW i \in Nat, NEW j \in Nat, i <= j
  PROVE  i * BlockSize <= j * BlockSize /\ i * BlockSize \in Nat /\ j * BlockSize \in Nat
BY BlockAssumption

\* A node's bytes are within its blocks.
LEMMA NodeInBlocks ==
  ASSUME NEW id \in Nat, NEW n \in Node
  PROVE  /\ blocksNeeded(n) \in Nat \ {0} /\ SizeOf[n] \in Nat
         /\ at(id) = id * BlockSize /\ at(id) \in Nat
         /\ at(id) + SizeOf[n] <= (id + blocksNeeded(n)) * BlockSize
<1>1. blocksNeeded(n) \in Nat \ {0}
  BY NeedsBlock
<1>2. SizeOf[n] \in Nat /\ BlockSize \in Nat \ {0}
  BY SizeAssumption, BlockAssumption
<1>3. BlockSize * blocksNeeded(n) >= SizeOf[n]
  BY <1>2, CeilCovers DEF blocksNeeded
<1> DEFINE c == blocksNeeded(n)
<1> HIDE DEF c
<1>4. (id + c) * BlockSize = id * BlockSize + BlockSize * c /\ id * BlockSize \in Nat
      /\ BlockSize * c \in Nat
  BY <1>1, <1>2 DEF c
<1>5. id * BlockSize + SizeOf[n] <= (id + c) * BlockSize
  BY <1>2, <1>3, <1>4 DEF c
<1> QED BY <1>1, <1>2, <1>4, <1>5 DEF at, c

\* The allocator keeps the bytes of nodes apart.
LEMMA NodesWellPlaced == StorageInv => wellPlaced(stored)
<1> SUFFICES ASSUME StorageInv PROVE wellPlaced(stored)
  OBVIOUS
<1> USE DEF StorageInv
<1>1. ASSUME NEW id \in DOMAIN stored
      PROVE  /\ stored[id] \in Node /\ id \in Nat
             /\ Cardinality(Reserved) <= id /\ id + blocksNeeded(stored[id]) <= NumBlocks
  <2>1. stored[id] \in Node /\ id \in Nat
    BY DEF TypeOK, Block
  <2>2. blocksNeeded(stored[id]) \in Nat \ {0}
    BY <2>1, NeedsBlock
  <2>3. occupied(id) \subseteq Block \ Reserved
    BY DEF ReadsBack
  <2> DEFINE c == blocksNeeded(stored[id])
  <2>4. occupied(id) = id .. id + c - 1
    BY DEF occupied, extent
  <2> HIDE DEF c
  <2>5. id \in Block \ Reserved /\ id + c - 1 \in Block
    BY <2>1, <2>2, <2>3, <2>4 DEF c
  <2> QED BY <2>1, <2>2, <2>5, TableFits DEF Block, c
<1>2. ASSUME NEW id \in DOMAIN stored
      PROVE  /\ at(id) \in Nat /\ HeaderSize + TableSize <= at(id)
             /\ at(id) + SizeOf[stored[id]] <= NumBlocks * BlockSize
  <2> DEFINE n == stored[id]
             c == blocksNeeded(n)
             R == Cardinality(Reserved)
  <2>1. /\ n \in Node /\ id \in Nat /\ R <= id /\ id + c <= NumBlocks
    BY <1>1
  <2>2. /\ c \in Nat \ {0} /\ SizeOf[n] \in Nat /\ at(id) = id * BlockSize /\ at(id) \in Nat
        /\ at(id) + SizeOf[n] <= (id + c) * BlockSize
    BY <2>1, NodeInBlocks
  <2>3. /\ R \in Nat /\ NumBlocks \in Nat /\ TableSize \in Nat /\ HeaderSize \in Nat
        /\ HeaderSize + TableSize <= BlockSize * R /\ BlockSize * R = R * BlockSize
    BY TableFits, BlockAssumption DEF HeaderSize
  <2> HIDE DEF n, c, R
  <2>4. R * BlockSize <= id * BlockSize /\ R * BlockSize \in Nat
    BY <2>1, <2>3, BlockOrder
  <2>5. (id + c) * BlockSize <= NumBlocks * BlockSize /\ (id + c) * BlockSize \in Nat
        /\ NumBlocks * BlockSize \in Nat
    <3>1. id + c \in Nat
      BY <2>1, <2>2
    <3> QED BY <2>1, <2>3, <3>1, BlockOrder
  <2> QED BY <2>2, <2>3, <2>4, <2>5 DEF n
<1>3. ASSUME NEW i \in DOMAIN stored, NEW j \in DOMAIN stored, i # j
      PROVE  at(i) + SizeOf[stored[i]] <= at(j) \/ at(j) + SizeOf[stored[j]] <= at(i)
  <2> DEFINE c == blocksNeeded(stored[i])
             d == blocksNeeded(stored[j])
  <2>1. /\ stored[i] \in Node /\ i \in Nat /\ stored[j] \in Node /\ j \in Nat
    BY <1>1
  <2>2. /\ c \in Nat \ {0} /\ SizeOf[stored[i]] \in Nat /\ at(i) = i * BlockSize /\ at(i) \in Nat
        /\ at(i) + SizeOf[stored[i]] <= (i + c) * BlockSize
        /\ d \in Nat \ {0} /\ SizeOf[stored[j]] \in Nat /\ at(j) = j * BlockSize /\ at(j) \in Nat
        /\ at(j) + SizeOf[stored[j]] <= (j + d) * BlockSize
    BY <2>1, NodeInBlocks
  <2>3. (i .. i + c - 1) \cap (j .. j + d - 1) = {}
    BY <1>3 DEF Apart, occupied, extent
  <2> HIDE DEF c, d
  <2>4. i + c <= j \/ j + d <= i
    <3>1. CASE i <= j
      <4>1. j \in j .. j + d - 1
        BY <2>1, <2>2
      <4>2. j \notin i .. i + c - 1
        BY <2>3, <4>1
      <4> QED BY <2>1, <2>2, <3>1, <4>2
    <3>2. CASE j <= i
      <4>1. i \in i .. i + c - 1
        BY <2>1, <2>2
      <4>2. i \notin j .. j + d - 1
        BY <2>3, <4>1
      <4> QED BY <2>1, <2>2, <3>2, <4>2
    <3> QED BY <2>1, <3>1, <3>2
  <2>5. CASE i + c <= j
    <3>1. i + c \in Nat
      BY <2>1, <2>2
    <3>2. (i + c) * BlockSize <= j * BlockSize /\ (i + c) * BlockSize \in Nat
      BY <2>1, <2>5, <3>1, BlockOrder
    <3> QED BY <2>2, <3>2
  <2>6. CASE j + d <= i
    <3>1. j + d \in Nat
      BY <2>1, <2>2
    <3>2. (j + d) * BlockSize <= i * BlockSize /\ (j + d) * BlockSize \in Nat
      BY <2>1, <2>6, <3>1, BlockOrder
    <3> QED BY <2>2, <3>2
  <2> QED BY <2>4, <2>5, <2>6
<1> QED BY <1>1, <1>2, <1>3 DEF wellPlaced

LEMMA NodesWellPlacedNext == StorageInv' => wellPlaced(stored)'
BY NodesWellPlaced, PTL

-----------------------------------------------------------------------------
(* What a memory holds *)

\* The memory m holds the header with the root r, the table t and the given nodes.
keeps(m, nodes, t, r) ==
  /\ DOMAIN m = Offset
  /\ contains(m, 0, number(Magic, Uint64))
  /\ contains(m, RootOffset, number(r, Uint64))
  /\ contains(m, 16, numbers(<<Fanout, MaxBufferSize>>, Uint16))
  /\ contains(m, HeaderSize, tableBytes(t))
  /\ \A id \in DOMAIN nodes : contains(m, at(id), serialize(nodes[id]))

\* The header's fields and their lengths.
LEMMA HeaderFields ==
  ASSUME NEW r \in Int
  PROVE  /\ number(Magic, Uint64) \in Seq(AByte) /\ Len(number(Magic, Uint64)) = 8
         /\ number(r, Uint64) \in Seq(AByte) /\ Len(number(r, Uint64)) = 8
         /\ numbers(<<Fanout, MaxBufferSize>>, Uint16) \in Seq(AByte)
         /\ Len(numbers(<<Fanout, MaxBufferSize>>, Uint16)) = 4
         /\ RootOffset = 8 /\ HeaderSize = 20
<1>1. Magic \in Int /\ Uint64 \in Nat /\ Uint64 = 8
  BY MagicAssumption, Widths
<1>2. <<Fanout, MaxBufferSize>> \in Seq(Int) /\ Len(<<Fanout, MaxBufferSize>>) = 2
      /\ Uint16 \in Nat \ {0} /\ 2 * Uint16 = 4
  BY FanoutAssumption, Widths
<1>3. /\ numbers(<<Fanout, MaxBufferSize>>, Uint16) \in Seq(AByte)
      /\ Len(numbers(<<Fanout, MaxBufferSize>>, Uint16)) = 4
  BY <1>2, NumbersFacts
<1>4. /\ number(Magic, Uint64) \in Seq(AByte) /\ Len(number(Magic, Uint64)) = 8
      /\ number(r, Uint64) \in Seq(AByte) /\ Len(number(r, Uint64)) = 8
  BY <1>1, NumberFacts
<1> QED BY <1>1, <1>3, <1>4 DEF RootOffset, HeaderSize

\* The offsets in the storage.
LEMMA OffsetRange ==
  ASSUME NEW a \in Nat, NEW len \in Nat, a + len <= NumBlocks * BlockSize
  PROVE  a .. a + len - 1 \subseteq Offset
<1>1. NumBlocks * BlockSize \in Nat
  BY BlockAssumption, TableFits
<1> QED BY <1>1 DEF Offset

\* saveNode: the new bytes of a node leave all others as they were.
LEMMA PutNode ==
  ASSUME NEW m, NEW nodes, NEW t, t \subseteq Block, NEW r \in Int, keeps(m, nodes, t, r),
         NEW nodes2, wellPlaced(nodes2), NEW id \in DOMAIN nodes2,
         \A j \in DOMAIN nodes2 : j # id => j \in DOMAIN nodes /\ nodes2[j] = nodes[j]
  PROVE  keeps(put(m, at(id), serialize(nodes2[id])), nodes2, t, r)
<1> DEFINE s  == serialize(nodes2[id])
           a  == at(id)
           m2 == put(m, a, s)
           End == NumBlocks * BlockSize
<1>1. \A j \in DOMAIN nodes2 :
        /\ serialize(nodes2[j]) \in Seq(AByte) /\ Len(serialize(nodes2[j])) = SizeOf[nodes2[j]]
        /\ SizeOf[nodes2[j]] \in Nat
        /\ at(j) \in Nat /\ HeaderSize + TableSize <= at(j)
        /\ at(j) + SizeOf[nodes2[j]] <= End
  BY NodeDecodes, SizeAssumption DEF wellPlaced
<1>2. /\ s \in Seq(AByte) /\ Len(s) \in Nat /\ a \in Nat /\ HeaderSize + TableSize <= a
      /\ a + Len(s) <= End /\ End \in Nat
      /\ Len(s) = SizeOf[nodes2[id]]
  BY <1>1, BlockAssumption, TableFits
<1>3. /\ DOMAIN m = Offset /\ DOMAIN m2 = Offset
  BY PutDomain DEF keeps
<1>4. TableSize \in Nat /\ tableBytes(t) \in Seq(AByte) /\ Len(tableBytes(t)) = TableSize
  BY TableFits, TableBytes
<1> HIDE DEF s, a, End
<1>5. ASSUME NEW b \in Nat, NEW u \in Seq(AByte), b + Len(u) <= a, contains(m, b, u)
      PROVE  contains(m2, b, u)
  <2>1. Len(u) \in Nat /\ b + Len(u) <= End
    BY <1>2, <1>5
  <2>2. b .. b + Len(u) - 1 \subseteq DOMAIN m
    BY <1>3, <2>1, OffsetRange DEF End
  <2> QED BY <1>2, <1>5, <2>2, PutKeeps
<1>6. /\ contains(m2, 0, number(Magic, Uint64))
      /\ contains(m2, RootOffset, number(r, Uint64))
      /\ contains(m2, 16, numbers(<<Fanout, MaxBufferSize>>, Uint16))
      /\ contains(m2, HeaderSize, tableBytes(t))
  <2>1. /\ number(Magic, Uint64) \in Seq(AByte) /\ Len(number(Magic, Uint64)) = 8
        /\ number(r, Uint64) \in Seq(AByte) /\ Len(number(r, Uint64)) = 8
        /\ numbers(<<Fanout, MaxBufferSize>>, Uint16) \in Seq(AByte)
        /\ Len(numbers(<<Fanout, MaxBufferSize>>, Uint16)) = 4
        /\ RootOffset = 8 /\ HeaderSize = 20
    BY HeaderFields
  <2>2. 0 + 8 <= a /\ 8 + 8 <= a /\ 16 + 4 <= a /\ HeaderSize + TableSize <= a /\ HeaderSize \in Nat
    BY <1>2, <1>4, <2>1
  <2> HIDE DEF m2
  <2>3. contains(m2, 0, number(Magic, Uint64))
    BY <1>5, <2>1, <2>2 DEF keeps
  <2>4. contains(m2, RootOffset, number(r, Uint64))
    BY <1>5, <2>1, <2>2 DEF keeps
  <2>5. contains(m2, 16, numbers(<<Fanout, MaxBufferSize>>, Uint16))
    BY <1>5, <2>1, <2>2 DEF keeps
  <2>6. contains(m2, HeaderSize, tableBytes(t))
    BY <1>4, <1>5, <2>2 DEF keeps
  <2> QED BY <2>3, <2>4, <2>5, <2>6
<1>7. contains(m2, a, s)
  <2>1. a .. a + Len(s) - 1 \subseteq DOMAIN m
    BY <1>2, <1>3, OffsetRange DEF End
  <2> QED BY <1>2, <2>1, PutContains
<1>8. ASSUME NEW j \in DOMAIN nodes2, j # id
      PROVE  contains(m2, at(j), serialize(nodes2[j]))
  <2> DEFINE u == serialize(nodes2[j])
             b == at(j)
  <2>1. u \in Seq(AByte) /\ Len(u) = SizeOf[nodes2[j]] /\ Len(u) \in Nat /\ b \in Nat /\ b + Len(u) <= End
    BY <1>1
  <2>2. b + Len(u) <= a \/ a + Len(s) <= b
    BY <1>2, <1>8, <2>1 DEF wellPlaced, a
  <2>3. contains(m, b, u)
    BY <1>8 DEF keeps
  <2> HIDE DEF u, b
  <2>4. b .. b + Len(u) - 1 \subseteq DOMAIN m
    BY <1>3, <2>1, OffsetRange DEF End
  <2>5. contains(put(m, a, s), b, u)
    BY ONLY <1>2, <2>1, <2>2, <2>3, <2>4, PutKeeps, Zenon
  <2> QED BY <2>5 DEF u, b
<1> HIDE DEF m2
<1>9. keeps(m2, nodes2, t, r)
  BY <1>3, <1>6, <1>7, <1>8 DEF keeps, a, s
<1> QED BY <1>9 DEF m2, a, s

\* removeNode: what holds more nodes holds fewer.
LEMMA FewerNodes ==
  ASSUME NEW m, NEW nodes, NEW t, NEW r, keeps(m, nodes, t, r),
         NEW nodes2, \A j \in DOMAIN nodes2 : j \in DOMAIN nodes /\ nodes2[j] = nodes[j]
  PROVE  keeps(m, nodes2, t, r)
BY DEF keeps

\* The bytes of a node in its place.
LEMMA NodeBytes ==
  ASSUME NEW nodes, wellPlaced(nodes), NEW id \in DOMAIN nodes
  PROVE  /\ serialize(nodes[id]) \in Seq(AByte)
         /\ at(id) \in Nat /\ Len(serialize(nodes[id])) \in Nat
         /\ HeaderSize + TableSize <= at(id)
         /\ at(id) + Len(serialize(nodes[id])) <= NumBlocks * BlockSize
BY NodeDecodes, SizeAssumption DEF wellPlaced

\* What is written inside the storage is there, and nothing else changes.
LEMMA PutThere ==
  ASSUME NEW m, DOMAIN m = Offset, NEW a \in Nat, NEW s \in Seq(AByte),
         a + Len(s) <= NumBlocks * BlockSize
  PROVE  contains(put(m, a, s), a, s)
<1>1. Len(s) \in Nat
  OBVIOUS
<1>2. a .. a + Len(s) - 1 \subseteq DOMAIN m
  BY <1>1, OffsetRange
<1> QED BY <1>2, PutContains

LEMMA PutElsewhere ==
  ASSUME NEW m, DOMAIN m = Offset, NEW a \in Nat, NEW s \in Seq(AByte),
         NEW b \in Nat, NEW u \in Seq(AByte), b + Len(u) <= NumBlocks * BlockSize,
         b + Len(u) <= a \/ a + Len(s) <= b, contains(m, b, u)
  PROVE  contains(put(m, a, s), b, u)
<1>1. Len(u) \in Nat
  OBVIOUS
<1>2. b .. b + Len(u) - 1 \subseteq DOMAIN m
  BY <1>1, OffsetRange
<1> QED BY <1>2, PutKeeps

\* Where the header ends.
LEMMA HeaderEnds ==
  /\ NumBlocks * BlockSize \in Nat /\ TableSize \in Nat
  /\ HeaderSize = 20 /\ 20 + TableSize <= NumBlocks * BlockSize /\ 20 <= NumBlocks * BlockSize
BY TableFits, BlockAssumption DEF HeaderSize

\* updateRootNode changes the root and nothing else.
LEMMA PutRoot ==
  ASSUME NEW m, NEW nodes, NEW t, t \subseteq Block, NEW r \in Int, keeps(m, nodes, t, r),
         wellPlaced(nodes), NEW id \in Int
  PROVE  keeps(withRoot(m, id), nodes, t, id)
<1> DEFINE m2 == withRoot(m, id)
           u  == number(id, Uint64)
           f  == numbers(<<Fanout, MaxBufferSize>>, Uint16)
           g  == number(Magic, Uint64)
           End == NumBlocks * BlockSize
<1>1. DOMAIN m = Offset /\ m2 = put(m, 8, u)
  BY HeaderFields DEF keeps, withRoot
<1>2. /\ u \in Seq(AByte) /\ Len(u) = 8 /\ g \in Seq(AByte) /\ Len(g) = 8
      /\ f \in Seq(AByte) /\ Len(f) = 4 /\ RootOffset = 8
  BY HeaderFields
<1>3. TableSize \in Nat /\ tableBytes(t) \in Seq(AByte) /\ Len(tableBytes(t)) = TableSize
  BY TableFits, TableBytes
<1>4. contains(m, 0, g) /\ contains(m, 16, f) /\ contains(m, 20, tableBytes(t))
  BY HeaderEnds DEF keeps
<1> HIDE DEF m2, u, f, g
<1>5. 0 \in Nat /\ 8 \in Nat /\ 16 \in Nat /\ 20 \in Nat
  OBVIOUS
<1>6. /\ DOMAIN m2 = Offset
      /\ \A b \in Nat : \A v \in Seq(AByte) :
           /\ b + Len(v) <= End
           /\ b + Len(v) <= 8 \/ 8 + Len(u) <= b
           /\ contains(m, b, v)
           => contains(m2, b, v)
  <2>1. ASSUME NEW b \in Nat, NEW v \in Seq(AByte), b + Len(v) <= NumBlocks * BlockSize,
               b + Len(v) <= 8 \/ 8 + Len(u) <= b, contains(m, b, v)
        PROVE  contains(put(m, 8, u), b, v)
    BY ONLY <1>1, <1>2, <1>5, <2>1, PutElsewhere, Zenon
  <2>2. DOMAIN m2 = Offset
    BY <1>1, PutDomain
  <2> QED BY <1>1, <2>1, <2>2
<1>7. End \in Nat /\ 20 + TableSize <= End /\ 20 <= End /\ HeaderSize = 20
  BY HeaderEnds
<1>8. contains(m2, 8, u)
  <2>1. 8 + Len(u) <= NumBlocks * BlockSize
    BY <1>2, HeaderEnds
  <2> QED BY ONLY <1>1, <1>2, <1>5, <2>1, PutThere, Zenon
<1> HIDE DEF End
<1>9. contains(m2, 0, g) /\ contains(m2, 16, f) /\ contains(m2, 20, tableBytes(t))
  <2>1. /\ 0 + Len(g) <= End /\ 0 + Len(g) <= 8
        /\ 16 + Len(f) <= End /\ 8 + Len(u) <= 16
        /\ 20 + Len(tableBytes(t)) <= End /\ 8 + Len(u) <= 20
    BY <1>2, <1>3, <1>7
  <2> QED BY ONLY <1>2, <1>3, <1>4, <1>5, <1>6, <2>1, Zenon
<1>10. ASSUME NEW j \in DOMAIN nodes PROVE contains(m2, at(j), serialize(nodes[j]))
  <2> DEFINE s == serialize(nodes[j])
  <2>1. /\ s \in Seq(AByte) /\ at(j) \in Nat /\ Len(s) \in Nat /\ HeaderSize + TableSize <= at(j)
        /\ at(j) + Len(s) <= End
    BY NodeBytes DEF End
  <2>2. contains(m, at(j), s)
    BY DEF keeps
  <2> HIDE DEF s
  <2>3. 8 + Len(u) <= at(j)
    BY <1>2, <1>3, <1>7, <2>1
  <2>4. contains(m2, at(j), s)
    BY ONLY <1>6, <2>1, <2>2, <2>3, Zenon
  <2> QED BY <2>4 DEF s
<1>11. keeps(m2, nodes, t, id)
  BY <1>2, <1>6, <1>7, <1>8, <1>9, <1>10 DEF keeps, f, g, u
<1> QED BY <1>11 DEF m2

\* writeAllocationTable changes the table and nothing else.
LEMMA PutTable ==
  ASSUME NEW m, NEW nodes, NEW t, NEW r \in Int, keeps(m, nodes, t, r),
         wellPlaced(nodes), NEW t2, t2 \subseteq Block
  PROVE  keeps(writeAllocationTable(m, t2), nodes, t2, r)
<1> DEFINE m2 == writeAllocationTable(m, t2)
           u  == number(r, Uint64)
           f  == numbers(<<Fanout, MaxBufferSize>>, Uint16)
           g  == number(Magic, Uint64)
           v  == tableBytes(t2)
           End == NumBlocks * BlockSize
<1>1. DOMAIN m = Offset /\ m2 = put(m, 20, v)
  BY HeaderEnds DEF keeps, writeAllocationTable
<1>2. /\ u \in Seq(AByte) /\ Len(u) = 8 /\ g \in Seq(AByte) /\ Len(g) = 8
      /\ f \in Seq(AByte) /\ Len(f) = 4 /\ RootOffset = 8
  BY HeaderFields
<1>3. TableSize \in Nat /\ v \in Seq(AByte) /\ Len(v) = TableSize
  BY TableFits, TableBytes
<1>4. contains(m, 0, g) /\ contains(m, 16, f) /\ contains(m, 8, u)
  BY <1>2 DEF keeps
<1> HIDE DEF m2, u, f, g, v
<1>5. 0 \in Nat /\ 8 \in Nat /\ 16 \in Nat /\ 20 \in Nat
  OBVIOUS
<1>6. /\ DOMAIN m2 = Offset
      /\ \A b \in Nat : \A w \in Seq(AByte) :
           /\ b + Len(w) <= End
           /\ b + Len(w) <= 20 \/ 20 + Len(v) <= b
           /\ contains(m, b, w)
           => contains(m2, b, w)
  <2>1. ASSUME NEW b \in Nat, NEW w \in Seq(AByte), b + Len(w) <= NumBlocks * BlockSize,
               b + Len(w) <= 20 \/ 20 + Len(v) <= b, contains(m, b, w)
        PROVE  contains(put(m, 20, v), b, w)
    BY ONLY <1>1, <1>3, <1>5, <2>1, PutElsewhere, Zenon
  <2>2. DOMAIN m2 = Offset
    BY <1>1, PutDomain
  <2> QED BY <1>1, <2>1, <2>2
<1>7. End \in Nat /\ 20 + TableSize <= End /\ 20 <= End /\ HeaderSize = 20
  BY HeaderEnds
<1>8. contains(m2, 20, v)
  <2>1. 20 + Len(v) <= NumBlocks * BlockSize
    BY <1>3, HeaderEnds
  <2> QED BY ONLY <1>1, <1>3, <1>5, <2>1, PutThere, Zenon
<1> HIDE DEF End
<1>9. contains(m2, 0, g) /\ contains(m2, 16, f) /\ contains(m2, 8, u)
  <2>1. /\ 0 + Len(g) <= End /\ 0 + Len(g) <= 20
        /\ 16 + Len(f) <= End /\ 16 + Len(f) <= 20
        /\ 8 + Len(u) <= End /\ 8 + Len(u) <= 20
    BY <1>2, <1>3, <1>7
  <2> QED BY ONLY <1>2, <1>4, <1>5, <1>6, <2>1, Zenon
<1>10. ASSUME NEW j \in DOMAIN nodes PROVE contains(m2, at(j), serialize(nodes[j]))
  <2> DEFINE s == serialize(nodes[j])
  <2>1. /\ s \in Seq(AByte) /\ at(j) \in Nat /\ Len(s) \in Nat /\ HeaderSize + TableSize <= at(j)
        /\ at(j) + Len(s) <= End
    BY NodeBytes DEF End
  <2>2. contains(m, at(j), s)
    BY DEF keeps
  <2> HIDE DEF s
  <2>3. 20 + Len(v) <= at(j)
    BY <1>3, <1>7, <2>1
  <2>4. contains(m2, at(j), s)
    BY ONLY <1>6, <2>1, <2>2, <2>3, Zenon
  <2> QED BY <2>4 DEF s
<1>11. keeps(m2, nodes, t2, r)
  BY <1>2, <1>6, <1>7, <1>8, <1>9, <1>10 DEF keeps, f, g, u, v
<1> QED BY <1>11 DEF m2

\* What a new storage holds.
LEMMA Initialised ==
  ASSUME NEW m, DOMAIN m = Offset
  PROVE  keeps(initialised(m), << >>, Reserved, 0)
<1> DEFINE h  == header(Given)
           ab == <<Magic, 0>>
           a  == numbers(ab, Uint64)
           f  == numbers(<<Fanout, MaxBufferSize>>, Uint16)
           v  == tableBytes(Reserved)
           m1 == put(m, 0, h)
           m2 == put(m1, 20, v)
<1>1. initialised(m) = m2 /\ h = a \o f
  BY HeaderEnds DEF initialised, writeAllocationTable, header, Given
<1>2. /\ ab \in Seq(Int) /\ Len(ab) = 2 /\ Uint64 \in Nat \ {0} /\ 2 * Uint64 = 16
      /\ ab[1] = Magic /\ ab[2] = 0 /\ DOMAIN ab = 1 .. 2
  BY MagicAssumption, Widths
<1>3. a \in Seq(AByte) /\ Len(a) = 16
  <2> HIDE DEF ab
  <2> QED BY <1>2, NumbersFacts
<1>4. f \in Seq(AByte) /\ Len(f) = 4 /\ RootOffset = 8
  <2>1. 0 \in Int
    OBVIOUS
  <2> QED BY ONLY <2>1, HeaderFields, Zenon
<1>5. TableSize \in Nat /\ v \in Seq(AByte) /\ Len(v) = TableSize
  BY TableFits, TableBytes, ReservedAssumption
<1>6. 0 \in Nat /\ 8 \in Nat /\ 16 \in Nat /\ 20 \in Nat /\ 1 \in 1 .. 2 /\ 2 \in 1 .. 2
  OBVIOUS
<1> HIDE DEF a, f, v
<1>7. h \in Seq(AByte) /\ Len(h) = 20
  <2>1. a \o f \in Seq(AByte) /\ Len(a \o f) = Len(a) + Len(f)
    BY ONLY <1>3, <1>4, ConcatFacts, Zenon
  <2> QED BY <1>1, <1>3, <1>4, <2>1
<1> HIDE DEF h
<1>8. DOMAIN m1 = Offset /\ DOMAIN m2 = Offset
  BY PutDomain
<1>9. contains(m1, 0, h)
  <2>1. 0 + Len(h) <= NumBlocks * BlockSize
    BY <1>7, HeaderEnds
  <2> QED BY <1>6, <1>7, <2>1, PutThere
<1> HIDE DEF m1
<1>10. contains(m2, 0, h)
  <2>1. 0 + Len(h) <= NumBlocks * BlockSize /\ 0 + Len(h) <= 20
    BY <1>7, HeaderEnds
  <2>2. contains(put(m1, 20, v), 0, h)
    BY ONLY <1>5, <1>6, <1>7, <1>8, <1>9, <2>1, PutElsewhere, Zenon
  <2> QED BY <2>2
<1>11. contains(m2, 20, v)
  <2>1. 20 + Len(v) <= NumBlocks * BlockSize
    BY <1>5, HeaderEnds
  <2> QED BY <1>5, <1>6, <1>8, <2>1, PutThere
<1> HIDE DEF m2
<1>12. contains(m2, 0, a) /\ contains(m2, 16, f)
  <2>0. contains(m2, 0, a \o f)
    BY <1>1, <1>10
  <2>1. contains(m2, 0, a) /\ contains(m2, 0 + Len(a), f)
    BY ONLY <1>3, <1>4, <1>6, <2>0, ContainsBoth, Zenon
  <2> QED BY <1>3, <2>1
<1>13. contains(m2, 0, number(Magic, Uint64)) /\ contains(m2, 8, number(0, Uint64))
  <2> DEFINE p == [i \in DOMAIN ab |-> number(ab[i], Uint64)]
  <2> HIDE DEF ab
  <2>1. pieces(p, Uint64) /\ Len(p) = 2
    BY <1>2, NumberPieces
  <2>2. p[1] = number(Magic, Uint64) /\ p[2] = number(0, Uint64)
    BY <1>2
  <2>3. contains(m2, 0, joined(p, Uint64))
    BY <1>12 DEF a, numbers
  <2> HIDE DEF p
  <2>4. \A i \in 1 .. Len(p) : contains(m2, 0 + (i - 1) * Uint64, p[i])
    BY <1>2, <1>6, <2>1, <2>3, ContainsJoined
  <2>5. 0 + (1 - 1) * Uint64 = 0 /\ 0 + (2 - 1) * Uint64 = 8
    BY Widths
  <2>6. contains(m2, 0 + (1 - 1) * Uint64, p[1]) /\ contains(m2, 0 + (2 - 1) * Uint64, p[2])
    BY <1>6, <2>1, <2>4
  <2> QED BY <2>2, <2>5, <2>6
<1>14. keeps(m2, << >>, Reserved, 0)
  BY <1>4, <1>8, <1>11, <1>12, <1>13, HeaderEnds DEF keeps, f, v
<1> QED BY <1>1, <1>14

\* To persist what was just written is to write it to the file.
LEMMA PersistPut ==
  ASSUME NEW f, NEW m, DOMAIN f = DOMAIN m, NEW a, NEW s
  PROVE  persist(f, put(m, a, s), a, Len(s)) = put(f, a, s)
BY DEF persist, put

\* A new storage writes the header and the table, and nothing behind them.
LEMMA PersistInitialised ==
  ASSUME NEW m, DOMAIN m = Offset
  PROVE  persist(m, initialised(m), 0, HeaderSize + Len(tableBytes(Reserved))) = initialised(m)
<1> DEFINE h == header(Given)
           v == tableBytes(Reserved)
<1>1. TableSize \in Nat /\ Len(v) = TableSize /\ HeaderSize = 20
  BY TableFits, TableBytes, ReservedAssumption DEF HeaderSize
<1>2. Len(h) = 20
  <2> DEFINE ab == <<Magic, 0>>
             x  == numbers(ab, Uint64)
             f  == numbers(<<Fanout, MaxBufferSize>>, Uint16)
  <2>1. h = x \o f
    BY DEF header, Given
  <2>2. ab \in Seq(Int) /\ Len(ab) = 2 /\ Uint64 \in Nat \ {0} /\ 2 * Uint64 = 16
    BY MagicAssumption, Widths
  <2>3. x \in Seq(AByte) /\ Len(x) = 16
    <3> HIDE DEF ab
    <3> QED BY <2>2, NumbersFacts
  <2>4. f \in Seq(AByte) /\ Len(f) = 4
    <3>1. 0 \in Int
      OBVIOUS
    <3> QED BY ONLY <3>1, HeaderFields, Zenon
  <2> HIDE DEF h, x, f
  <2>5. x \o f \in Seq(AByte) /\ Len(x \o f) = Len(x) + Len(f)
    BY ONLY <2>3, <2>4, ConcatFacts, Zenon
  <2> QED BY <2>1, <2>3, <2>4, <2>5
<1>3. initialised(m) = put(put(m, 0, h), 20, v)
  BY <1>1 DEF initialised, writeAllocationTable
<1> HIDE DEF h, v
<1> DEFINE m2 == put(put(m, 0, h), 20, v)
<1>4. DOMAIN m2 = Offset /\ m2 = [o \in Offset |-> m2[o]]
  BY DEF put
<1>5. ASSUME NEW o \in Offset, o \notin 0 .. 0 + (20 + TableSize) - 1 PROVE m2[o] = m[o]
  <2>1. o \in Int /\ o \notin 0 .. 0 + 20 - 1 /\ o \notin 20 .. 20 + TableSize - 1
    BY <1>1, <1>5 DEF Offset
  <2> QED BY <1>1, <1>2, <2>1 DEF put
<1> HIDE DEF m2
<1>6. persist(m, m2, 0, 20 + TableSize) = [o \in Offset |-> m2[o]]
  BY <1>5 DEF persist
<1> QED BY <1>1, <1>3, <1>4, <1>6 DEF m2, v

\* What is read from a memory is what it holds.
LEMMA Reads ==
  ASSUME NEW m, NEW nodes, wellPlaced(nodes), NEW t, t \subseteq Block, NEW r \in Int,
         keeps(m, nodes, t, r)
  PROVE  /\ numberAt(m, 0, Uint64) = Magic
         /\ headerAt(m) = [Given EXCEPT !.rootNode = r]
         /\ readAllocationTable(m) = t
         /\ \A id \in DOMAIN nodes :
              loadNode(m, id) = nodes[id] /\ Len(serialize(nodes[id])) = SizeOf[nodes[id]]
<1> DEFINE fm == <<Fanout, MaxBufferSize>>
<1>1. /\ Uint64 \in Nat \ {0} /\ Uint16 \in Nat \ {0} /\ RootOffset = 8
      /\ Uint64 = 8 /\ Uint16 = 2 /\ Magic \in Int
  BY Widths, MagicAssumption DEF RootOffset
<1>2. contains(m, 0, number(Magic, Uint64)) /\ contains(m, 8, number(r, Uint64))
      /\ contains(m, 16, numbers(fm, Uint16))
  BY <1>1 DEF keeps
<1>3. numberAt(m, 0, Uint64) = Magic /\ numberAt(m, 8, Uint64) = r
  <2>1. 0 \in Nat /\ 8 \in Nat
    OBVIOUS
  <2>2. r \in Int /\ Magic \in Int /\ Uint64 \in Nat \ {0}
    BY <1>1
  <2>3. contains(m, 0, number(Magic, Uint64)) /\ contains(m, 8, number(r, Uint64))
    BY ONLY <1>2
  <2>4. numberAt(m, 0, Uint64) = Magic
    BY ONLY <2>1, <2>2, <2>3, ReadsNumber, Zenon
  <2>5. numberAt(m, 8, Uint64) = r
    BY ONLY <2>1, <2>2, <2>3, ReadsNumber, Zenon
  <2> QED BY ONLY <2>4, <2>5
<1>4. fm \in Seq(Int) /\ Len(fm) = 2 /\ fm[1] = Fanout /\ fm[2] = MaxBufferSize
  BY FanoutAssumption
<1> HIDE DEF fm
<1>5. numbersAt(m, 16, Uint16, 2) = fm
  <2>1. 16 \in Nat
    OBVIOUS
  <2>2. fm \in Seq(Int) /\ Uint16 \in Nat \ {0} /\ contains(m, 16, numbers(fm, Uint16))
    BY ONLY <1>1, <1>2, <1>4
  <2>3. numbersAt(m, 16, Uint16, Len(fm)) = fm
    BY ONLY <2>1, <2>2, ReadsNumbers, Zenon
  <2> QED BY ONLY <2>3, <1>4
<1>6. numberAt(m, 16, Uint16) = Fanout /\ numberAt(m, 18, Uint16) = MaxBufferSize
  <2>1. 16 + (1 - 1) * Uint16 = 16 /\ 16 + (2 - 1) * Uint16 = 18 /\ 1 \in 1 .. 2 /\ 2 \in 1 .. 2
    BY <1>1
  <2>2. numberAt(m, 16 + (1 - 1) * Uint16, Uint16) = fm[1]
        /\ numberAt(m, 16 + (2 - 1) * Uint16, Uint16) = fm[2]
    BY <1>5, <2>1 DEF numbersAt
  <2> QED BY <1>4, <2>1, <2>2
<1>7. headerAt(m) = [Given EXCEPT !.rootNode = r]
  <2>1. RootOffset + Uint64 = 16 /\ RootOffset + Uint64 + Uint16 = 18
    BY <1>1
  <2> QED BY <1>1, <1>3, <1>6, <2>1 DEF headerAt, Given
<1>8. readAllocationTable(m) = t
  BY TableBytes DEF keeps
<1>9. ASSUME NEW id \in DOMAIN nodes
      PROVE  loadNode(m, id) = nodes[id] /\ Len(serialize(nodes[id])) = SizeOf[nodes[id]]
  <2>1. nodes[id] \in Node /\ id \in Nat /\ contains(m, at(id), serialize(nodes[id]))
    BY DEF keeps, wellPlaced
  <2> QED BY <2>1, NodeDecodes
<1> QED BY <1>3, <1>7, <1>8, <1>9

\* No magic number is where nobody wrote.
LEMMA NothingWritten == numberAt(Unwritten, 0, Uint64) # Magic /\ DOMAIN Unwritten = Offset
<1>1. 0 \in Offset
  BY HeaderEnds DEF Offset
<1>2. Unwritten[0][1] = -1
  BY <1>1 DEF Unwritten, AnyByte, Garbage
<1>3. numberAt(Unwritten, 0, Uint64) = -1
  BY <1>2 DEF numberAt, Garbage
<1> QED BY <1>3, MagicAssumption DEF Unwritten

-----------------------------------------------------------------------------
(* The inductive invariant *)

\* The memory that is read holds the header, every stored node and the allocation table
\* last written; so does the file of an open storage in persistent memory, and the file
\* of a closed one unless none was made.
BytesKept ==
  /\ medium \in Classes /\ root \in Nat
  /\ DOMAIN file = Offset /\ DOMAIN mapped = Offset
  /\ open =>
       /\ params = [Given EXCEPT !.rootNode = root]
       /\ keeps(readable, stored, unpacked(saved), root)
       /\ medium = "nvm" => keeps(file, stored, unpacked(saved), root)
  /\ ~open /\ Lasting =>
       \/ keeps(file, stored, unpacked(saved), root)
       \/ stored = << >> /\ root = 0 /\ numberAt(file, 0, Uint64) # Magic

MappedInv == StorageInv /\ BytesKept

LEMMA MappedInitHolds == (\E class \in Classes : MappedInit(class)) => MappedInv
<1> SUFFICES ASSUME NEW class \in Classes, MappedInit(class)
             PROVE  MappedInv
  OBVIOUS
<1> USE DEF MappedInit
<1>1. DOMAIN stored = {} /\ open = FALSE
  OBVIOUS
<1>2. unpacked(saved) = Reserved /\ packed(Reserved) \in [0 .. (NumBlocks - 1) \div 8 -> SUBSET (0 .. 7)]
  BY UnpackPacked, ReservedAssumption
<1>3. TypeOK
  <2>1. disk \in [Block -> Piece]
    BY DEF Piece
  <2>2. stored \in [DOMAIN stored -> Node] /\ DOMAIN stored \subseteq Block
    OBVIOUS
  <2>3. table \subseteq Block /\ open \in BOOLEAN
    OBVIOUS
  <2> QED BY <1>2, <2>1, <2>2, <2>3 DEF TypeOK
<1>4. TableExact
  BY <1>1, <1>2 DEF TableExact, Occupied
<1>5. ReadsBack /\ Apart
  BY <1>1 DEF ReadsBack, Apart
<1>6. BytesKept
  BY NothingWritten DEF BytesKept
<1> QED BY <1>4, <1>5, <1>6, <1>3 DEF MappedInv, StorageInv

\* The constructor, in the allocator.
LEMMA CreatedKeeps ==
  ASSUME StorageInv, created
  PROVE  /\ StorageInv' /\ unpacked(saved') = Reserved
         /\ stored' = << >> /\ open' = TRUE /\ root' = 0 /\ params' = Given /\ medium' = medium
<1>1. /\ table' = Reserved /\ saved' = packed(Reserved) /\ stored' = << >> /\ open' = TRUE
      /\ disk' = disk /\ root' = 0 /\ params' = Given /\ medium' = medium
  BY DEF created
<1>2. DOMAIN stored' = {}
  BY <1>1
<1>3. unpacked(saved') = Reserved /\ TypeOK'
  BY <1>1, <1>2, UnpackPacked, ReservedAssumption DEF TypeOK, StorageInv
<1>4. TableExact'
  BY <1>1, <1>2 DEF TableExact, Occupied
<1>5. ReadsBack' /\ Apart'
  BY <1>2 DEF ReadsBack, Apart
<1> QED BY <1>1, <1>3, <1>4, <1>5 DEF StorageInv

\* saveNode: what it stores, and under which identifier.
LEMMA SavedKeeps ==
  ASSUME StorageInv, NEW id \in Block, NEW n \in Node,
         \/ isFirstFit(table, id, blocksNeeded(n)) /\ SaveNew(n)
         \/ id \in DOMAIN stored /\ Overwrite(id, n)
  PROVE  /\ StorageInv' /\ open /\ open' /\ saved' = saved
         /\ id \in DOMAIN stored' /\ stored'[id] = n
         /\ \A j \in DOMAIN stored' : j # id => j \in DOMAIN stored /\ stored'[j] = stored[j]
<1>1. CASE isFirstFit(table, id, blocksNeeded(n)) /\ SaveNew(n)
  <2>1. StorageInv'
    BY <1>1, SaveNewKeeps
  <2>2. PICK start \in Block :
          /\ isFirstFit(table, start, blocksNeeded(n))
          /\ stored' = [i \in DOMAIN stored \cup {start} |-> IF i = start THEN n ELSE stored[i]]
    BY <1>1 DEF SaveNew
  <2>3. start = id
    BY <1>1, <2>2 DEF isFirstFit, Block
  <2> QED BY <1>1, <2>1, <2>2, <2>3 DEF SaveNew
<1>2. CASE id \in DOMAIN stored /\ Overwrite(id, n)
  <2>1. StorageInv'
    BY <1>2, OverwriteKeeps
  <2>2. open /\ open' = open /\ saved' = saved /\ stored' = [stored EXCEPT ![id] = n]
    BY <1>2 DEF Overwrite
  <2> QED BY <1>2, <2>1, <2>2
<1> QED BY <1>1, <1>2

\* What each invariant step needs of the tables.
LEMMA SavedTable == unpacked(saved) \subseteq Block
BY DEF unpacked

-----------------------------------------------------------------------------
(* The steps *)

LEMMA CreateKeeps ==
  ASSUME MappedInv, Create_File \/ Create_NVM \/ Create_FileMap \/ Create_DRAM
  PROVE  MappedInv'
<1>1. created
  BY DEF Create_File, Create_NVM, Create_FileMap, Create_DRAM
<1>2. /\ StorageInv' /\ unpacked(saved') = Reserved
      /\ stored' = << >> /\ open' = TRUE /\ root' = 0 /\ params' = Given /\ medium' = medium
  BY <1>1, CreatedKeeps DEF MappedInv
<1>3. params' = [Given EXCEPT !.rootNode = 0]
  BY <1>2 DEF Given
<1>4. DOMAIN file = Offset /\ DOMAIN Unwritten = Offset /\ DOMAIN mapped = Offset /\ medium \in Classes
  BY NothingWritten DEF MappedInv, BytesKept
<1>5. \A m : DOMAIN m = Offset => DOMAIN initialised(m) = Offset
                                  /\ keeps(initialised(m), << >>, Reserved, 0)
  BY Initialised DEF keeps
<1>6. /\ DOMAIN file' = Offset /\ DOMAIN mapped' = Offset
      /\ keeps(readable', << >>, Reserved, 0)
      /\ medium' = "nvm" => keeps(file', << >>, Reserved, 0)
  <2>1. CASE Create_File
    <3>1. file' = initialised(Unwritten) /\ readable' = file' /\ mapped' = mapped /\ medium' # "nvm"
      BY <1>2, <2>1 DEF Create_File, readable
    <3> QED BY <1>4, <1>5, <3>1
  <2>2. CASE Create_NVM
    <3>1. mapped' = initialised(file) /\ readable' = mapped'
          /\ file' = persist(file, mapped', 0, HeaderSize + Len(tableBytes(Reserved)))
      BY <1>2, <2>2 DEF Create_NVM, readable
    <3>2. file' = initialised(file)
      BY <1>4, <3>1, PersistInitialised
    <3> QED BY <1>4, <1>5, <3>1, <3>2
  <2>3. CASE Create_FileMap
    <3>1. mapped' = initialised(file) /\ readable' = mapped' /\ file' = file /\ medium' # "nvm"
      BY <1>2, <2>3 DEF Create_FileMap, readable
    <3> QED BY <1>4, <1>5, <3>1
  <2>4. CASE Create_DRAM
    <3>1. mapped' = initialised(Unwritten) /\ readable' = mapped' /\ file' = file /\ medium' # "nvm"
      BY <1>2, <2>4 DEF Create_DRAM, readable
    <3> QED BY <1>4, <1>5, <3>1
  <2> QED BY <2>1, <2>2, <2>3, <2>4
<1>7. BytesKept'
  BY <1>2, <1>3, <1>4, <1>6 DEF BytesKept
<1> QED BY <1>2, <1>7 DEF MappedInv

LEMMA OpenKeeps ==
  ASSUME MappedInv, Open_File \/ Open_NVM \/ Open_FileMap
  PROVE  MappedInv'
<1>1. opened /\ Lasting
  BY DEF Open_File, Open_NVM, Open_FileMap, Lasting
<1>2. /\ ~open /\ open' = TRUE /\ medium' = medium /\ file' = file /\ root' = root
      /\ saved' = saved /\ stored' = stored /\ disk' = disk
      /\ numberAt(file, 0, Uint64) = Magic
      /\ table' = readAllocationTable(file) /\ params' = headerAt(file)
  BY <1>1 DEF opened
<1>3. keeps(file, stored, unpacked(saved), root)
  BY <1>1, <1>2 DEF MappedInv, BytesKept
<1>4. table' = unpacked(saved) /\ params' = [Given EXCEPT !.rootNode = root]
  <2>1. wellPlaced(stored) /\ root \in Int
    BY NodesWellPlaced DEF MappedInv, BytesKept
  <2>2. unpacked(saved) \subseteq Block
    BY SavedTable
  <2>3. readAllocationTable(file) = unpacked(saved)
    BY ONLY <1>3, <2>1, <2>2, Reads, Zenon
  <2>4. headerAt(file) = [Given EXCEPT !.rootNode = root]
    BY ONLY <1>3, <2>1, <2>2, Reads, Zenon
  <2> QED BY ONLY <1>2, <2>3, <2>4
<1>5. StorageInv'
  <2>1. Reopen
    BY <1>2, <1>4 DEF Reopen
  <2> QED BY <2>1, CloseReopenKeeps DEF MappedInv
<1>6. DOMAIN mapped' = Offset /\ readable' = file
  BY <1>2 DEF Open_File, Open_NVM, Open_FileMap, readable, MappedInv, BytesKept
<1>7. BytesKept'
  BY <1>2, <1>3, <1>4, <1>6 DEF BytesKept, MappedInv
<1> QED BY <1>5, <1>7 DEF MappedInv

LEMMA SaveKeeps ==
  ASSUME MappedInv, NEW id \in Block, NEW n \in Node,
         Save_File(id, n) \/ Save_NVM(id, n) \/ Save_FileMap(id, n) \/ Save_DRAM(id, n)
  PROVE  MappedInv'
<1>1. /\ \/ isFirstFit(table, id, blocksNeeded(n)) /\ SaveNew(n)
         \/ id \in DOMAIN stored /\ Overwrite(id, n)
      /\ medium' = medium /\ params' = params /\ root' = root
  BY DEF Save_File, Save_NVM, Save_FileMap, Save_DRAM, wrote
<1>2. /\ StorageInv' /\ open /\ open' /\ saved' = saved
      /\ id \in DOMAIN stored' /\ stored'[id] = n
      /\ \A j \in DOMAIN stored' : j # id => j \in DOMAIN stored /\ stored'[j] = stored[j]
  BY <1>1, SavedKeeps DEF MappedInv
<1>3. wellPlaced(stored')
  BY <1>2, NodesWellPlacedNext
<1>4. /\ DOMAIN file = Offset /\ DOMAIN mapped = Offset /\ root \in Nat /\ medium \in Classes
      /\ params = [Given EXCEPT !.rootNode = root]
      /\ keeps(readable, stored, unpacked(saved), root)
      /\ medium = "nvm" => keeps(file, stored, unpacked(saved), root)
  BY <1>2 DEF MappedInv, BytesKept
<1> DEFINE w(m) == put(m, at(id), serialize(n))
<1>5. ASSUME NEW m, keeps(m, stored, unpacked(saved), root)
      PROVE  keeps(w(m), stored', unpacked(saved), root)
  <2>1. root \in Int
    BY <1>4
  <2>2. keeps(put(m, at(id), serialize(stored'[id])), stored', unpacked(saved), root)
    BY <1>2, <1>3, <1>5, <2>1, SavedTable, PutNode
  <2> QED BY <1>2, <2>2
<1>6. \A m : DOMAIN w(m) = DOMAIN m
  BY DEF put
<1>7. /\ DOMAIN file' = Offset /\ DOMAIN mapped' = Offset
      /\ keeps(readable', stored', unpacked(saved), root)
      /\ medium' = "nvm" => keeps(file', stored', unpacked(saved), root)
  <2>1. CASE Save_File(id, n)
    <3>1. file' = w(file) /\ mapped' = mapped /\ medium = "stream"
      BY <2>1 DEF Save_File, wrote
    <3>2. readable = file /\ readable' = file'
      BY <1>1, <3>1 DEF readable
    <3> QED BY <1>1, <1>4, <1>5, <1>6, <3>1, <3>2
  <2>2. CASE Save_NVM(id, n)
    <3>1. /\ mapped' = w(mapped) /\ medium = "nvm"
          /\ file' = persist(file, mapped', at(id), Len(serialize(n)))
      BY <2>2 DEF Save_NVM, wrote
    <3>2. readable = mapped /\ readable' = mapped'
      BY <1>1, <1>2, <3>1 DEF readable
    <3>3. file' = w(file)
      BY <1>4, <3>1, PersistPut
    <3> QED BY <1>1, <1>4, <1>5, <1>6, <3>1, <3>2, <3>3
  <2>3. CASE Save_FileMap(id, n) \/ Save_DRAM(id, n)
    <3>1. file' = file /\ mapped' = w(mapped) /\ medium \in {"fileMap", "dram"}
      BY <2>3 DEF Save_FileMap, Save_DRAM, wrote
    <3>2. readable = mapped /\ readable' = mapped'
      BY <1>1, <1>2, <3>1 DEF readable
    <3> QED BY <1>1, <1>4, <1>5, <1>6, <3>1, <3>2
  <2> QED BY <2>1, <2>2, <2>3
<1>8. BytesKept'
  BY <1>1, <1>2, <1>4, <1>7 DEF BytesKept
<1> QED BY <1>2, <1>8 DEF MappedInv

\* removeNode writes nothing: what is there of the other nodes stays there.
LEMMA RemoveKeeps ==
  ASSUME MappedInv, NEW id \in DOMAIN stored, NEW n \in Node,
         \/ Remove_File(id, n) \/ Remove_NVM(id, n)
         \/ Remove_FileMap(id, n) \/ Remove_DRAM(id, n)
  PROVE  MappedInv'
<1>1. /\ RemoveNode(id, n) /\ medium' = medium /\ mapped' = mapped /\ file' = file
      /\ params' = params /\ root' = root
  BY DEF Remove_File, Remove_NVM, Remove_FileMap, Remove_DRAM, removed, bytes
<1>2. StorageInv'
  BY <1>1, RemoveNodeKeeps DEF MappedInv
<1>3. /\ open /\ open' = open /\ saved' = saved
      /\ \A j \in DOMAIN stored' : j \in DOMAIN stored /\ stored'[j] = stored[j]
  BY <1>1 DEF RemoveNode
<1>4. readable' = readable
  BY <1>1, <1>3 DEF readable
<1>5. \A m : keeps(m, stored, unpacked(saved), root) => keeps(m, stored', unpacked(saved), root)
  BY <1>3, FewerNodes
<1>6. BytesKept'
  BY <1>1, <1>3, <1>4, <1>5 DEF BytesKept, MappedInv
<1> QED BY <1>2, <1>6 DEF MappedInv

LEMMA UpdateRootKeeps ==
  ASSUME MappedInv, NEW id \in DOMAIN stored,
         \/ UpdateRoot_File(id) \/ UpdateRoot_NVM(id)
         \/ UpdateRoot_FileMap(id) \/ UpdateRoot_DRAM(id)
  PROVE  MappedInv'
<1>1. /\ open /\ medium' = medium /\ params' = [params EXCEPT !.rootNode = id] /\ root' = id
      /\ UNCHANGED vars
  BY DEF UpdateRoot_File, UpdateRoot_NVM, UpdateRoot_FileMap, UpdateRoot_DRAM, updated
<1>2. StorageInv' /\ open' = open /\ saved' = saved /\ stored' = stored
  BY <1>1 DEF MappedInv, StorageInv, vars, TypeOK, TableExact, ReadsBack, Apart, Occupied, occupied
<1>3. /\ DOMAIN file = Offset /\ DOMAIN mapped = Offset /\ root \in Nat /\ medium \in Classes
      /\ params = [Given EXCEPT !.rootNode = root]
      /\ keeps(readable, stored, unpacked(saved), root)
      /\ medium = "nvm" => keeps(file, stored, unpacked(saved), root)
  BY <1>1 DEF MappedInv, BytesKept
<1>4. id \in Nat /\ wellPlaced(stored)
  BY NodesWellPlaced DEF MappedInv, wellPlaced
<1>5. params' = [Given EXCEPT !.rootNode = id]
  BY <1>1, <1>3 DEF Given
<1>6. ASSUME NEW m, keeps(m, stored, unpacked(saved), root)
      PROVE  keeps(withRoot(m, id), stored, unpacked(saved), id)
  BY <1>3, <1>4, <1>6, SavedTable, PutRoot
<1>7. \A m : DOMAIN withRoot(m, id) = DOMAIN m
  BY DEF put, withRoot
<1>8. /\ DOMAIN file' = Offset /\ DOMAIN mapped' = Offset
      /\ keeps(readable', stored, unpacked(saved), id)
      /\ medium' = "nvm" => keeps(file', stored, unpacked(saved), id)
  <2>1. CASE UpdateRoot_File(id)
    <3>1. file' = withRoot(file, id) /\ mapped' = mapped /\ medium = "stream"
      BY <2>1 DEF UpdateRoot_File, updated
    <3>2. readable = file /\ readable' = file'
      BY <1>1, <3>1 DEF readable
    <3> QED BY <1>1, <1>3, <1>6, <1>7, <3>1, <3>2
  <2>2. CASE UpdateRoot_NVM(id)
    <3>1. /\ mapped' = withRoot(mapped, id) /\ medium = "nvm"
          /\ file' = persist(file, mapped', RootOffset, Uint64)
      BY <2>2 DEF UpdateRoot_NVM, updated
    <3>2. readable = mapped /\ readable' = mapped'
      BY <1>1, <1>2, <3>1 DEF readable
    <3>3. file' = withRoot(file, id)
      <4>1. Len(number(id, Uint64)) = Uint64
        BY <1>4, HeaderFields, Widths
      <4>2. persist(file, put(mapped, RootOffset, number(id, Uint64)), RootOffset,
                    Len(number(id, Uint64))) = put(file, RootOffset, number(id, Uint64))
        BY <1>3, PersistPut
      <4> QED BY <3>1, <4>1, <4>2 DEF withRoot
    <3> QED BY <1>1, <1>3, <1>6, <1>7, <3>1, <3>2, <3>3
  <2>3. CASE UpdateRoot_FileMap(id) \/ UpdateRoot_DRAM(id)
    <3>1. file' = file /\ mapped' = withRoot(mapped, id) /\ medium \in {"fileMap", "dram"}
      BY <2>3 DEF UpdateRoot_FileMap, UpdateRoot_DRAM, updated
    <3>2. readable = mapped /\ readable' = mapped'
      BY <1>1, <1>2, <3>1 DEF readable
    <3> QED BY <1>1, <1>3, <1>6, <1>7, <3>1, <3>2
  <2> QED BY <2>1, <2>2, <2>3
<1>9. BytesKept'
  BY <1>1, <1>2, <1>3, <1>4, <1>5, <1>8 DEF BytesKept
<1> QED BY <1>2, <1>9 DEF MappedInv

LEMMA CloseKeeps ==
  ASSUME MappedInv, Close_File \/ Close_NVM \/ Close_FileMap \/ Close_DRAM
  PROVE  MappedInv'
<1>1. /\ Close /\ mapped' = Unwritten /\ medium' = medium /\ params' = params /\ root' = root
  BY DEF Close_File, Close_NVM, Close_FileMap, Close_DRAM, closed
<1>2. StorageInv'
  BY <1>1, CloseReopenKeeps DEF MappedInv
<1>3. open /\ open' = FALSE /\ stored' = stored /\ saved' = packed(table)
  BY <1>1 DEF Close
<1>4. /\ DOMAIN file = Offset /\ root \in Nat /\ medium \in Classes
      /\ keeps(readable, stored, unpacked(saved), root)
  BY <1>3 DEF MappedInv, BytesKept
<1>5. table \subseteq Block /\ unpacked(saved') = table /\ wellPlaced(stored)
  <2>1. table \subseteq Block
    BY DEF MappedInv, StorageInv, TypeOK
  <2> QED BY <1>3, <2>1, UnpackPacked, NodesWellPlaced DEF MappedInv
<1>6. DOMAIN file' = Offset /\ (medium # "dram" => keeps(file', stored, table, root))
  <2>1. CASE Close_File
    <3>1. file' = writeAllocationTable(readable, table)
      BY <2>1 DEF Close_File, readable
    <3> QED BY <1>4, <1>5, <3>1, PutTable DEF keeps
  <2>2. CASE Close_NVM \/ Close_FileMap
    <3>1. file' = writeAllocationTable(readable, table)
      BY <1>3, <2>2 DEF Close_NVM, Close_FileMap, readable
    <3> QED BY <1>4, <1>5, <3>1, PutTable DEF keeps
  <2>3. CASE Close_DRAM
    BY <1>4, <2>3 DEF Close_DRAM
  <2> QED BY <2>1, <2>2, <2>3
<1>7. DOMAIN mapped' = Offset
  BY <1>1, NothingWritten
<1>8. BytesKept'
  BY <1>1, <1>3, <1>4, <1>5, <1>6, <1>7 DEF BytesKept, Lasting
<1> QED BY <1>2, <1>8 DEF MappedInv

LEMMA NothingChangesKeeps ==
  ASSUME MappedInv, UNCHANGED mappedVars
  PROVE  MappedInv'
BY DEF MappedInv, StorageInv, vars, TypeOK, TableExact, ReadsBack, Apart, Occupied, occupied,
       mappedVars, bytes, BytesKept, readable, Lasting

-----------------------------------------------------------------------------

\* In every class of storage the memory that is read, and the file where it lasts, hold
\* at all times the header, the nodes and the table that the calls so far have written.
THEOREM MappedSound == MappedSpec => []MappedInv
<1>1. MappedInv /\ [MappedNext]_mappedVars => MappedInv'
  <2> SUFFICES ASSUME MappedInv, [MappedNext]_mappedVars
               PROVE  MappedInv'
    OBVIOUS
  <2>1. CASE UNCHANGED mappedVars
    BY <2>1, NothingChangesKeeps
  <2>2. CASE Create_File \/ Create_NVM \/ Create_FileMap \/ Create_DRAM
    BY <2>2, CreateKeeps
  <2>3. CASE Open_File \/ Open_NVM \/ Open_FileMap
    BY <2>3, OpenKeeps
  <2>4. CASE Close_File \/ Close_NVM \/ Close_FileMap \/ Close_DRAM
    BY <2>4, CloseKeeps
  <2>5. ASSUME NEW id \in Block, NEW n \in Node,
               Save_File(id, n) \/ Save_NVM(id, n) \/ Save_FileMap(id, n) \/ Save_DRAM(id, n)
        PROVE  MappedInv'
    BY <2>5, SaveKeeps
  <2>6. ASSUME NEW n \in Node, SaveRejected(n) PROVE MappedInv'
    <3>1. UNCHANGED mappedVars
      BY <2>6 DEF SaveRejected, SaveFails, mappedVars
    <3> QED BY <3>1, NothingChangesKeeps
  <2>7. ASSUME NEW id \in DOMAIN stored, NEW n \in Node,
               \/ Remove_File(id, n) \/ Remove_NVM(id, n)
               \/ Remove_FileMap(id, n) \/ Remove_DRAM(id, n)
        PROVE  MappedInv'
    BY <2>7, RemoveKeeps
  <2>8. ASSUME NEW id \in DOMAIN stored,
               \/ UpdateRoot_File(id) \/ UpdateRoot_NVM(id)
               \/ UpdateRoot_FileMap(id) \/ UpdateRoot_DRAM(id)
        PROVE  MappedInv'
    BY <2>8, UpdateRootKeeps
  <2> QED BY <2>1, <2>2, <2>3, <2>4, <2>5, <2>6, <2>7, <2>8 DEF MappedNext
<1> QED BY MappedInitHolds, <1>1, PTL DEF MappedSpec

\* Nodes read back field by field, in every class and over closing and opening.
THEOREM NodesReadBackFromBytes == MappedSpec => []NodesDecode
<1>1. MappedInv => NodesDecode
  <2> SUFFICES ASSUME MappedInv, open \/ Lasting, NEW id \in DOMAIN stored
               PROVE  /\ IF open THEN loadedNode(id) = stored[id] ELSE loadNode(file, id) = stored[id]
                      /\ Len(serialize(stored[id])) = SizeOf[stored[id]]
    BY DEF NodesDecode
  <2>1. wellPlaced(stored) /\ root \in Int /\ medium \in Classes /\ unpacked(saved) \subseteq Block
    BY NodesWellPlaced, SavedTable DEF MappedInv, BytesKept
  <2>2. CASE open
    <3>1. keeps(readable, stored, unpacked(saved), root)
      BY <2>2 DEF MappedInv, BytesKept
    <3>2. \A i \in DOMAIN stored :
            loadNode(readable, i) = stored[i] /\ Len(serialize(stored[i])) = SizeOf[stored[i]]
      BY ONLY <2>1, <3>1, Reads, Zenon
    <3>3. loadedNode(id) = loadNode(readable, id)
      BY <2>1, <2>2 DEF loadedNode, readable, load_File, load_NVM, load_FileMap, load_DRAM, Classes
    <3> QED BY <2>2, <3>2, <3>3
  <2>3. CASE ~open
    <3>1. keeps(file, stored, unpacked(saved), root)
      BY <2>3 DEF MappedInv, BytesKept
    <3>2. \A i \in DOMAIN stored :
            loadNode(file, i) = stored[i] /\ Len(serialize(stored[i])) = SizeOf[stored[i]]
      BY ONLY <2>1, <3>1, Reads, Zenon
    <3> QED BY <2>3, <3>2
  <2> QED BY <2>2, <2>3
<1> QED BY MappedSound, <1>1, PTL

\* The header is never written over, and the root is the one stored last.
THEOREM HeaderStaysKept == MappedSpec => []HeaderKept
<1>1. MappedInv => HeaderKept
  <2> SUFFICES ASSUME MappedInv PROVE HeaderKept
    OBVIOUS
  <2>1. wellPlaced(stored) /\ root \in Int
    BY NodesWellPlaced DEF MappedInv, BytesKept
  <2>2. CASE open
    <3>1. keeps(readable, stored, unpacked(saved), root) /\ params = [Given EXCEPT !.rootNode = root]
      BY <2>2 DEF MappedInv, BytesKept
    <3>2. headerAt(readable) = [Given EXCEPT !.rootNode = root]
      <4>1. unpacked(saved) \subseteq Block
        BY SavedTable
      <4> QED BY ONLY <2>1, <3>1, <4>1, Reads, Zenon
    <3> QED BY <3>1, <3>2 DEF HeaderKept
  <2>3. CASE ~open /\ Lasting /\ root # 0
    <3>1. keeps(readable, stored, unpacked(saved), root)
      BY <2>3 DEF MappedInv, BytesKept, readable
    <3>2. headerAt(readable) = [Given EXCEPT !.rootNode = root]
      <4>1. unpacked(saved) \subseteq Block
        BY SavedTable
      <4> QED BY ONLY <2>1, <3>1, <4>1, Reads, Zenon
    <3> QED BY <2>3, <3>2 DEF HeaderKept
  <2> QED BY <2>2, <2>3 DEF HeaderKept
<1> QED BY MappedSound, <1>1, PTL

\* In persistent memory the file has at every return what the storage holds.
THEOREM DurableWhenReturned == MappedSpec => []DurableAtReturn
<1>1. MappedInv => DurableAtReturn
  <2> SUFFICES ASSUME MappedInv, medium = "nvm", open
               PROVE  /\ \A id \in DOMAIN stored : loadNode(file, id) = stored[id]
                      /\ headerAt(file) = params
                      /\ readAllocationTable(file) = unpacked(saved)
    BY DEF DurableAtReturn
  <2>1. wellPlaced(stored) /\ root \in Int
    BY NodesWellPlaced DEF MappedInv, BytesKept
  <2>2. keeps(file, stored, unpacked(saved), root) /\ params = [Given EXCEPT !.rootNode = root]
    BY DEF MappedInv, BytesKept
  <2>3. unpacked(saved) \subseteq Block
    BY SavedTable
  <2>4. headerAt(file) = [Given EXCEPT !.rootNode = root]
    BY ONLY <2>1, <2>2, <2>3, Reads, Zenon
  <2>5. readAllocationTable(file) = unpacked(saved)
    BY ONLY <2>1, <2>2, <2>3, Reads, Zenon
  <2>6. \A id \in DOMAIN stored : loadNode(file, id) = stored[id]
    BY ONLY <2>1, <2>2, <2>3, Reads, Zenon
  <2> QED BY ONLY <2>2, <2>4, <2>5, <2>6
<1> QED BY MappedSound, <1>1, PTL
=============================================================================
