------------------------ MODULE BlockStorage_proofs ------------------------
(***************************************************************************)
(* For every block size, number of blocks and size of nodes: the storage   *)
(* keeps its nodes apart, its table exact and their contents readable,     *)
(* over any sequence of saves, removals, closings and reopenings.          *)
(***************************************************************************)
EXTENDS BlockStorage, DataInduction, FiniteSetTheorems, TLAPS

\* Two stored nodes share no block.
Apart ==
  \A i, j \in DOMAIN stored : i # j => occupied(i) \cap occupied(j) = {}

StorageInv == TypeOK /\ TableExact /\ ReadsBack /\ Apart

-----------------------------------------------------------------------------

\* A positive number rounded up to a multiple of b has at least one multiple.
LEMMA CeilPositive ==
  ASSUME NEW a \in Nat \ {0}, NEW b \in Nat \ {0}
  PROVE  ceil(a, b) \in Nat \ {0}
<1> DEFINE q == a \div b
           r == a % b
<1>1. q \in Int /\ r \in 0 .. b - 1 /\ a = b * q + r
  OBVIOUS
<1>2. q >= 0
  <2>1. CASE q <= -1
    <3>1. b * q <= -b
      BY <1>1, <2>1
    <3> QED BY <1>1, <3>1
  <2> QED BY <1>1, <2>1
<1>3. r = 0 => q # 0
  BY <1>1
<1> HIDE DEF q, r
<1>4. ceil(a, b) = q + (IF r = 0 THEN 0 ELSE 1)
  BY DEF ceil, q, r
<1> QED BY <1>1, <1>2, <1>3, <1>4

\* So many multiples of b cover a.
LEMMA CeilCovers ==
  ASSUME NEW a \in Nat, NEW b \in Nat \ {0}
  PROVE  ceil(a, b) \in Nat /\ b * ceil(a, b) >= a
<1> DEFINE q == a \div b
           r == a % b
<1>1. q \in Int /\ r \in 0 .. b - 1 /\ a = b * q + r
  OBVIOUS
<1>2. q >= 0
  <2>1. CASE q <= -1
    <3>1. b * q <= -b
      BY <1>1, <2>1
    <3> QED BY <1>1, <3>1
  <2> QED BY <1>1, <2>1
<1> HIDE DEF q, r
<1>3. ceil(a, b) = q + (IF r = 0 THEN 0 ELSE 1)
  BY DEF ceil, q, r
<1>4. CASE r = 0
  BY <1>1, <1>2, <1>3, <1>4
<1>5. CASE r # 0
  <2>1. b * (q + 1) = b * q + b
    BY <1>1
  <2> QED BY <1>1, <1>2, <1>3, <1>5, <2>1
<1> QED BY <1>4, <1>5

\* The header and the bytes of the table, from offset 20 on, end within the
\* reserved blocks, which no node is ever given: writeAllocationTable does not
\* touch a node.
THEOREM HeaderFits ==
  ASSUME NumBlocks > 0
  PROVE  HeaderSize + (NumBlocks - 1) \div 8 + 1 <= BlockSize * Cardinality(Reserved)
<1> DEFINE h == ceil(HeaderSize, BlockSize)
           t == ceil(NumBlocks, BlockSize)
<1>1. /\ h \in Nat /\ BlockSize * h >= HeaderSize
      /\ t \in Nat /\ BlockSize * t >= NumBlocks
  BY CeilCovers, BlockAssumption DEF HeaderSize
<1>2. Cardinality(Reserved) = h + t
  <2> DEFINE last == h + t - 1
  <2>1. Reserved = 0 .. last
    BY DEF Reserved
  <2> HIDE DEF h, t
  <2>2. 0 \in Int /\ last \in Int
    BY <1>1
  <2> HIDE DEF last
  <2>3. Cardinality(0 .. last) = IF 0 > last THEN 0 ELSE last - 0 + 1
    BY ONLY <2>2, FS_Interval, Zenon
  <2> QED BY <1>1, <2>1, <2>3 DEF last
<1> HIDE DEF h, t
<1>3. BlockSize * (h + t) = BlockSize * h + BlockSize * t
  BY <1>1, BlockAssumption
<1>4. (NumBlocks - 1) \div 8 + 1 <= NumBlocks
  BY BlockAssumption
<1> QED BY <1>1, <1>2, <1>3, <1>4, BlockAssumption DEF HeaderSize

\* Every node needs a block: saveNode's blocksNeeded is never zero.
LEMMA NeedsBlock ==
  ASSUME NEW n \in Node
  PROVE  blocksNeeded(n) \in Nat \ {0}
BY CeilPositive, SizeAssumption, BlockAssumption DEF blocksNeeded

\* The first block of an extent, where the node's identifier points, is in it.
LEMMA FirstOfExtent ==
  ASSUME NEW start \in Nat, NEW c \in Nat \ {0}
  PROVE  start \in extent(start, c)
BY DEF extent

\* readAllocationTable reads back the table that writeAllocationTable packed.
LEMMA UnpackPacked ==
  ASSUME NEW t, t \subseteq Block
  PROVE  /\ unpacked(packed(t)) = t
         /\ packed(t) \in [0 .. (NumBlocks - 1) \div 8 -> SUBSET (0 .. 7)]
<1>1. ASSUME NEW i \in Block
      PROVE  /\ i \div 8 \in 0 .. (NumBlocks - 1) \div 8
             /\ i % 8 \in 0 .. 7
             /\ 8 * (i \div 8) + (i % 8) = i
  BY BlockAssumption DEF Block
<1>2. ASSUME NEW i \in Block
      PROVE  i % 8 \in packed(t)[i \div 8] <=> i \in t
  BY <1>1 DEF packed
<1>3. unpacked(packed(t)) = t
  BY <1>2 DEF unpacked
<1>4. packed(t) \in [0 .. (NumBlocks - 1) \div 8 -> SUBSET (0 .. 7)]
  BY DEF packed
<1> QED BY <1>3, <1>4

\* No node is lost or moved by another: the blocks of each stored node are in use.
LEMMA OccupiedFacts ==
  ASSUME TypeOK, TableExact, open,
         NEW id \in DOMAIN stored
  PROVE  /\ occupied(id) \subseteq table
         /\ id \in occupied(id)
         /\ stored[id] \in Node
         /\ id \in Nat
<1>1. stored[id] \in Node /\ id \in Nat
  BY DEF TypeOK, Block
<1>2. id \in occupied(id)
  BY <1>1, NeedsBlock, FirstOfExtent DEF occupied
<1>3. occupied(id) \subseteq table
  BY DEF TableExact, Occupied
<1> QED BY <1>1, <1>2, <1>3

-----------------------------------------------------------------------------
(* The steps *)

\* The new file holds no node, and its table marks the reserved blocks.
LEMMA InitStorage == Init => StorageInv
<1> SUFFICES ASSUME Init PROVE StorageInv
  OBVIOUS
<1> USE DEF Init
<1>1. DOMAIN stored = {}
  OBVIOUS
<1>2. TypeOK
  BY <1>1, UnpackPacked, ReservedAssumption DEF TypeOK, Piece
<1>3. TableExact
  BY <1>1 DEF TableExact, Occupied
<1>4. ReadsBack /\ Apart
  BY <1>1 DEF ReadsBack, Apart
<1> QED BY <1>2, <1>3, <1>4 DEF StorageInv

\* saveNode gives a new node blocks that no other node has.
LEMMA SaveNewKeeps ==
  ASSUME StorageInv, NEW n \in Node, SaveNew(n)
  PROVE  StorageInv'
<1> USE DEF StorageInv
<1> DEFINE c == blocksNeeded(n)
<1>1. PICK start \in Block :
        /\ isFirstFit(table, start, c)
        /\ disk' = written(disk, start, n)
        /\ table' = table \cup extent(start, c)
        /\ stored' = [id \in DOMAIN stored \cup {start} |-> IF id = start THEN n ELSE stored[id]]
  BY DEF SaveNew
<1>2. open /\ open' = open /\ saved' = saved
  BY DEF SaveNew
<1>3. start \in Nat /\ start \in extent(start, c)
  BY NeedsBlock, FirstOfExtent DEF Block
<1>4. extent(start, c) \subseteq Block \ table
  BY <1>1 DEF isFirstFit, isFree
<1>5. start \notin DOMAIN stored
  BY <1>2, <1>3, <1>4, OccupiedFacts
<1>6. /\ DOMAIN stored' = DOMAIN stored \cup {start}
      /\ stored'[start] = n
      /\ \A id \in DOMAIN stored : stored'[id] = stored[id]
  BY <1>1, <1>5
<1>7. /\ occupied(start)' = extent(start, c)
      /\ \A id \in DOMAIN stored : occupied(id)' = occupied(id)
  BY <1>6 DEF occupied, blocksNeeded
<1>8. Reserved \subseteq table /\ \A id \in DOMAIN stored : occupied(id) \subseteq table
  BY <1>2, OccupiedFacts DEF TableExact
<1> HIDE DEF c
<1>9. TypeOK'
  <2>1. table' \subseteq Block
    BY <1>1, <1>4 DEF TypeOK
  <2>2. disk' \in [Block -> Piece]
    <3>1. \A b \in extent(start, blocksNeeded(n)) : b - start \in Nat
      BY <1>3 DEF extent
    <3> QED BY <1>1, <3>1 DEF TypeOK, written, Piece
  <2>3. stored' \in [DOMAIN stored' -> Node] /\ DOMAIN stored' \subseteq Block
    BY <1>1, <1>6 DEF TypeOK
  <2> QED BY <1>2, <2>1, <2>2, <2>3 DEF TypeOK
<1>10. TableExact'
  <2>1. Occupied' = Occupied \cup extent(start, c)
    BY <1>6, <1>7 DEF Occupied
  <2> QED BY <1>1, <1>2, <2>1 DEF TableExact
<1>11. ReadsBack'
  <2>1. \A id \in DOMAIN stored : \A b \in occupied(id) : disk'[b] = disk[b]
    BY <1>1, <1>4, <1>8 DEF written, ReadsBack, c
  <2>2. \A b \in extent(start, c) : disk'[b] = [node |-> n, part |-> b - start]
    BY <1>1, <1>4 DEF written, c
  <2>3. extent(start, c) \subseteq Block \ Reserved
    BY <1>4, <1>8
  <2> QED BY <1>6, <1>7, <2>1, <2>2, <2>3 DEF ReadsBack
<1>12. Apart'
  BY <1>4, <1>6, <1>7, <1>8 DEF Apart
<1> QED BY <1>9, <1>10, <1>11, <1>12

\* Saving a stored node again writes to its own blocks only.
LEMMA OverwriteKeeps ==
  ASSUME StorageInv, NEW i \in DOMAIN stored, NEW n \in Node, Overwrite(i, n)
  PROVE  StorageInv'
<1> USE DEF StorageInv
<1>1. /\ open /\ blocksNeeded(n) = blocksNeeded(stored[i])
      /\ disk' = written(disk, i, n)
      /\ stored' = [stored EXCEPT ![i] = n]
      /\ table' = table /\ saved' = saved /\ open' = open
  BY DEF Overwrite
<1>2. /\ DOMAIN stored' = DOMAIN stored
      /\ stored'[i] = n
      /\ \A id \in DOMAIN stored : id # i => stored'[id] = stored[id]
  BY <1>1 DEF TypeOK
<1>3. \A id \in DOMAIN stored : occupied(id)' = occupied(id)
  BY <1>1, <1>2 DEF occupied, blocksNeeded
<1>4. i \in Nat /\ occupied(i) = extent(i, blocksNeeded(n))
  BY <1>1 DEF occupied, TypeOK, Block
<1>5. TypeOK'
  <2>1. \A b \in extent(i, blocksNeeded(n)) : b - i \in Nat
    BY <1>4 DEF extent
  <2>2. disk' \in [Block -> Piece]
    BY <1>1, <2>1 DEF TypeOK, written, Piece
  <2> QED BY <1>1, <1>2, <2>2 DEF TypeOK
<1>6. TableExact'
  <2>1. Occupied' = Occupied
    BY <1>2, <1>3 DEF Occupied
  <2> QED BY <1>1, <2>1 DEF TableExact
<1>7. ReadsBack'
  <2>1. ASSUME NEW id \in DOMAIN stored, id # i, NEW b \in occupied(id)
        PROVE  disk'[b] = disk[b]
    BY <1>1, <1>4, <2>1 DEF written, Apart, ReadsBack
  <2>2. \A b \in occupied(i) : disk'[b] = [node |-> n, part |-> b - i]
    BY <1>1, <1>4 DEF written, ReadsBack
  <2> QED BY <1>2, <1>3, <2>1, <2>2 DEF ReadsBack
<1>8. Apart'
  BY <1>2, <1>3 DEF Apart
<1> QED BY <1>5, <1>6, <1>7, <1>8

\* removeNode frees the blocks of the removed node and of no other.
LEMMA RemoveNodeKeeps ==
  ASSUME StorageInv, NEW i \in DOMAIN stored, NEW n \in Node, RemoveNode(i, n)
  PROVE  StorageInv'
<1> USE DEF StorageInv
<1>1. /\ open /\ blocksNeeded(n) = blocksNeeded(stored[i])
      /\ table' = table \ freed(i, n)
      /\ stored' = [id \in DOMAIN stored \ {i} |-> stored[id]]
      /\ disk' = disk /\ saved' = saved /\ open' = open
  BY DEF RemoveNode
<1>2. /\ DOMAIN stored' = DOMAIN stored \ {i}
      /\ \A id \in DOMAIN stored' : stored'[id] = stored[id]
  BY <1>1
<1>3. \A id \in DOMAIN stored' : occupied(id)' = occupied(id)
  BY <1>2 DEF occupied, blocksNeeded
<1>4. freed(i, n) = occupied(i)
  BY <1>1 DEF freed, occupied
<1>5. TypeOK'
  BY <1>1, <1>2 DEF TypeOK
<1>6. TableExact'
  <2>1. occupied(i) \cap Reserved = {}
    BY DEF ReadsBack
  <2>2. \A id \in DOMAIN stored' : occupied(id) \cap occupied(i) = {}
    BY <1>2 DEF Apart
  <2>3. Occupied = occupied(i) \cup UNION {occupied(id) : id \in DOMAIN stored'}
    BY <1>2 DEF Occupied
  <2>4. Occupied' = UNION {occupied(id) : id \in DOMAIN stored'}
    BY <1>3 DEF Occupied
  <2> QED BY <1>1, <1>4, <2>1, <2>2, <2>3, <2>4 DEF TableExact
<1>7. ReadsBack'
  BY <1>1, <1>2, <1>3 DEF ReadsBack
<1>8. Apart'
  BY <1>2, <1>3 DEF Apart
<1> QED BY <1>5, <1>6, <1>7, <1>8

\* The table survives in the file, bit by bit, from the destructor to the next init.
LEMMA CloseReopenKeeps ==
  ASSUME StorageInv, Close \/ Reopen
  PROVE  StorageInv'
<1> USE DEF StorageInv
<1>1. disk' = disk /\ stored' = stored
  BY DEF Close, Reopen
<1>2. \A id \in DOMAIN stored : occupied(id)' = occupied(id)
  BY <1>1 DEF occupied, blocksNeeded
<1>3. Occupied' = Occupied
  BY <1>1, <1>2 DEF Occupied
<1>4. TypeOK' /\ TableExact'
  <2>1. CASE Close
    BY <1>1, <1>3, <2>1, UnpackPacked DEF Close, TypeOK, TableExact
  <2>2. CASE Reopen
    BY <1>1, <1>3, <2>2 DEF Reopen, TypeOK, TableExact, unpacked
  <2> QED BY <2>1, <2>2
<1>5. ReadsBack' /\ Apart'
  BY <1>1, <1>2 DEF ReadsBack, Apart
<1> QED BY <1>4, <1>5

-----------------------------------------------------------------------------

\* The invariant of the storage holds in every state.
THEOREM StorageSound == Spec => []StorageInv
<1>1. StorageInv /\ [Next]_vars => StorageInv'
  <2> SUFFICES ASSUME StorageInv, [Next]_vars
               PROVE  StorageInv'
    OBVIOUS
  <2>1. CASE UNCHANGED vars
    BY <2>1 DEF vars, StorageInv, TypeOK, TableExact, ReadsBack, Apart, Occupied, occupied
  <2>2. ASSUME NEW n \in Node, SaveNew(n) PROVE StorageInv'
    BY <2>2, SaveNewKeeps
  <2>3. ASSUME NEW n \in Node, SaveFails(n) PROVE StorageInv'
    BY <2>1, <2>3 DEF SaveFails
  <2>4. ASSUME NEW id \in DOMAIN stored, NEW n \in Node, Overwrite(id, n) PROVE StorageInv'
    BY <2>4, OverwriteKeeps
  <2>5. ASSUME NEW id \in DOMAIN stored, NEW n \in Node, RemoveNode(id, n) PROVE StorageInv'
    BY <2>5, RemoveNodeKeeps
  <2>6. CASE Close \/ Reopen
    BY <2>6, CloseReopenKeeps
  <2> QED BY <2>1, <2>2, <2>3, <2>4, <2>5, <2>6 DEF Next
<1> QED BY InitStorage, <1>1, PTL DEF Spec

\* The variables keep their types.
THEOREM StorageTypeCorrect == Spec => []TypeOK
<1>1. StorageInv => TypeOK
  BY DEF StorageInv
<1> QED BY StorageSound, <1>1, PTL

\* The table in memory, and in the file of a closed storage, marks the reserved
\* blocks and those of the stored nodes, and no other.
THEOREM TableStaysExact == Spec => []TableExact
<1>1. StorageInv => TableExact
  BY DEF StorageInv
<1> QED BY StorageSound, <1>1, PTL

\* Every stored node reads back from its own blocks as it was last saved.
THEOREM NodesReadBack == Spec => []ReadsBack
<1>1. StorageInv => ReadsBack
  BY DEF StorageInv
<1> QED BY StorageSound, <1>1, PTL
-----------------------------------------------------------------------------
(* saveNode's search for free blocks *)

\* The block where the run of free blocks began that ends before block i.
runStart(s, i) == IF s.count = 0 THEN i ELSE s.start

\* What the start and count of the loop mean after its first i blocks: no extent that
\* ends among them is free but the one found, and the run that is being counted is
\* free and could not have begun earlier.
LoopInv(t, c, s, i) ==
  /\ s \in [start : Nat, count : 0 .. c]
  /\ IF s.count = c
     THEN /\ s.start + c <= i
          /\ extent(s.start, c) \cap t = {}
          /\ \A p \in Nat : p < s.start => extent(p, c) \cap t # {}
     ELSE /\ s.count = i - runStart(s, i)
          /\ runStart(s, i) .. i - 1 \cap t = {}
          /\ runStart(s, i) \in Nat
          /\ runStart(s, i) > 0 => runStart(s, i) - 1 \in t
          /\ \A p \in Nat : p + c <= i => extent(p, c) \cap t # {}

\* One more block keeps the meaning of the loop's start and count.
LEMMA ScanStep ==
  ASSUME NEW t, NEW c \in Nat \ {0}, NEW i \in 1 .. NumBlocks,
         NEW s, LoopInv(t, c, s, i - 1),
         NEW r, r = IF s.count = c THEN s
                    ELSE IF i - 1 \in t THEN [s EXCEPT !.count = 0]
                    ELSE [start |-> IF s.count = 0 THEN i - 1 ELSE s.start, count |-> s.count + 1]
  PROVE  LoopInv(t, c, r, i)
<1> DEFINE j == i - 1
<1>1. j \in Nat /\ i = j + 1
  BY BlockAssumption
<1>2. s \in [start : Nat, count : 0 .. c]
  BY DEF LoopInv
<1>3. CASE s.count = c
  BY <1>1, <1>3 DEF LoopInv
<1>4. CASE s.count # c /\ j \in t
  <2>1. r = [start |-> s.start, count |-> 0]
    BY <1>2, <1>4
  <2>2. runStart(r, i) = i
    BY <2>1 DEF runStart
  <2>3. ASSUME NEW p \in Nat, p + c <= i PROVE extent(p, c) \cap t # {}
    <3>1. CASE p + c <= j
      BY <1>1, <1>4, <3>1 DEF LoopInv
    <3>2. CASE p + c = i
      BY <1>1, <1>4, <3>2 DEF extent
    <3> QED BY <1>1, <2>3, <3>1, <3>2
  <2> QED BY <1>1, <1>2, <1>4, <2>1, <2>2, <2>3 DEF LoopInv
<1>5. CASE s.count # c /\ j \notin t
  <2> DEFINE b == runStart(s, j)
  <2>1. r = [start |-> b, count |-> s.count + 1]
    BY <1>2, <1>5 DEF runStart
  <2>2. /\ s.count = j - b /\ b \in Nat
        /\ b .. j - 1 \cap t = {}
        /\ b > 0 => b - 1 \in t
        /\ \A p \in Nat : p + c <= j => extent(p, c) \cap t # {}
    BY <1>5 DEF LoopInv
  <2>3. s.count \in 0 .. c - 1
    BY <1>2, <1>5
  <2> HIDE DEF b
  <2>4. b .. i - 1 \cap t = {}
    BY <1>1, <1>5, <2>2
  <2>5. CASE s.count + 1 = c
    <3>1. r.count = c /\ r.start = b
      BY <2>1, <2>5
    <3>2. b + c = i /\ extent(b, c) = b .. i - 1
      BY <1>1, <2>2, <2>5 DEF extent
    <3>3. \A p \in Nat : p < b => p + c <= j
      BY <1>1, <2>2, <3>2
    <3>4. r \in [start : Nat, count : 0 .. c]
      BY <2>1, <2>2, <2>3
    <3>5. /\ r.start + c <= i
          /\ extent(r.start, c) \cap t = {}
          /\ \A p \in Nat : p < r.start => extent(p, c) \cap t # {}
      <4>1. b + c <= i
        BY <1>1, <2>2, <3>2
      <4>2. \A p \in Nat : p < b => extent(p, c) \cap t # {}
        BY <2>2, <3>3
      <4> QED BY <2>4, <3>1, <3>2, <4>1, <4>2
    <3> QED BY <3>1, <3>4, <3>5 DEF LoopInv
  <2>6. CASE s.count + 1 # c
    <3>1. r.count # c /\ runStart(r, i) = b
      BY <2>1, <2>3, <2>6 DEF runStart
    <3>2. ASSUME NEW p \in Nat, p + c <= i PROVE extent(p, c) \cap t # {}
      <4>1. CASE p + c <= j
        BY <2>2, <4>1
      <4>2. CASE p + c = i
        <5>1. p < b
          BY <1>1, <2>2, <2>3, <2>6, <4>2
        <5>2. b - 1 \in extent(p, c)
          BY <1>1, <2>2, <2>3, <4>2, <5>1 DEF extent
        <5> QED BY <2>2, <5>1, <5>2
      <4> QED BY <1>1, <3>2, <4>1, <4>2
    <3>3. r \in [start : Nat, count : 0 .. c]
      BY <2>1, <2>2, <2>3
    <3>4. r.count = i - b
      BY <1>1, <2>1, <2>2
    <3>5. /\ r.count = i - runStart(r, i)
          /\ runStart(r, i) .. i - 1 \cap t = {}
          /\ runStart(r, i) \in Nat
          /\ runStart(r, i) > 0 => runStart(r, i) - 1 \in t
      BY <2>2, <2>4, <3>1, <3>4
    <3> QED BY <3>1, <3>2, <3>3, <3>5 DEF LoopInv
  <2> QED BY <2>5, <2>6
<1> QED BY <1>3, <1>4, <1>5

\* The loop over the blocks is a recursive function, which keeps that meaning to the end.
LEMMA ScanInvariant ==
  ASSUME NEW t, NEW c \in Nat \ {0}
  PROVE  LoopInv(t, c, scan(t, c), NumBlocks)
<1> DEFINE State == [start : Nat, count : Nat]
           next(s, i) == IF s.count = c THEN s
                         ELSE IF i - 1 \in t THEN [s EXCEPT !.count = 0]
                         ELSE [start |-> IF s.count = 0 THEN i - 1 ELSE s.start, count |-> s.count + 1]
           first == [start |-> 0, count |-> 0]
           round == [p \in State \X (1 .. NumBlocks) |-> next(p[1], p[2])]
           isLoop(h) == h = [i \in 0 .. NumBlocks |->
             IF i = 0 THEN [start |-> 0, count |-> 0]
             ELSE IF h[i - 1].count = c THEN h[i - 1]
                  ELSE IF i - 1 \in t THEN [h[i - 1] EXCEPT !.count = 0]
                  ELSE [start |-> IF h[i - 1].count = 0 THEN i - 1 ELSE h[i - 1].start,
                        count |-> h[i - 1].count + 1]]
<1>1. first \in State /\ NumBlocks \in Nat
  BY BlockAssumption
<1>2. ASSUME NEW s \in State, NEW i \in 1 .. NumBlocks PROVE next(s, i) \in State
  OBVIOUS
<1>3. round \in [State \X (1 .. NumBlocks) -> State]
  BY <1>2
<1>4. PICK h \in [0 .. NumBlocks -> State] : Rounds(h, NumBlocks, first, round)
  <2> HIDE DEF State, first, round
  <2> QED BY <1>1, <1>3, RoundsExist
<1>5. isLoop(h)
  <2>1. ASSUME NEW i \in 0 .. NumBlocks, i # 0 PROVE round[<<h[i - 1], i>>] = next(h[i - 1], i)
    <3>1. h[i - 1] \in State /\ i \in 1 .. NumBlocks
      BY <1>1, <2>1
    <3> QED BY <3>1
  <2> QED BY <1>4, <2>1 DEF Rounds
<1> DEFINE after == CHOOSE g : isLoop(g)
<1>6. isLoop(after)
  BY <1>5
<1>7. scan(t, c) = after[NumBlocks]
  BY DEF scan
<1> HIDE DEF after
<1>8. 0 .. NumBlocks \subseteq {i \in 0 .. NumBlocks : LoopInv(t, c, after[i], i)}
  <2> DEFINE S == {i \in 0 .. NumBlocks : LoopInv(t, c, after[i], i)}
  <2>1. 0 \in S
    <3>1. after[0] = [start |-> 0, count |-> 0]
      BY <1>1, <1>6
    <3>2. LoopInv(t, c, [start |-> 0, count |-> 0], 0)
      BY DEF LoopInv, runStart
    <3> QED BY <1>1, <3>1, <3>2
  <2>2. ASSUME NEW i \in 1 .. NumBlocks, i - 1 \in S PROVE i \in S
    <3>1. after[i] = next(after[i - 1], i)
      <4>1. i \in 0 .. NumBlocks /\ i # 0
        BY <1>1
      <4> QED BY <1>6, <4>1
    <3>2. LoopInv(t, c, after[i - 1], i - 1)
      BY <2>2
    <3> QED BY <3>1, <3>2, ScanStep
  <2>3. 0 .. NumBlocks \subseteq S
    <3> HIDE DEF S
    <3> QED BY <1>1, <2>1, <2>2, BoundedInduction
  <2> QED BY <2>3
<1> QED BY <1>1, <1>7, <1>8

\* The loop finds the first free extent of c blocks, or leaves too low a count if
\* there is none.
LEMMA ScanCorrect ==
  ASSUME NEW t \in SUBSET Block, NEW c \in Nat \ {0}
  PROVE  IF scan(t, c).count < c THEN noFit(t, c) ELSE isFirstFit(t, scan(t, c).start, c)
<1> DEFINE s == scan(t, c)
<1>1. LoopInv(t, c, s, NumBlocks)
  BY ScanInvariant
<1> HIDE DEF s
<1>2. s \in [start : Nat, count : 0 .. c] /\ NumBlocks \in Nat
  BY <1>1, BlockAssumption DEF LoopInv
<1>3. CASE s.count < c
  <2>1. ASSUME NEW p \in Block, isFree(t, p, c) PROVE FALSE
    <3>1. extent(p, c) \cap t = {} /\ p \in Nat
      BY <2>1 DEF isFree, Block
    <3>2. p + c - 1 \in extent(p, c)
      BY <3>1 DEF extent
    <3>3. p + c <= NumBlocks
      BY <1>2, <2>1, <3>1, <3>2 DEF isFree, Block
    <3> QED BY <1>1, <1>3, <3>1, <3>3 DEF LoopInv
  <2> QED BY <1>3, <2>1 DEF noFit, s
<1>4. CASE ~ (s.count < c)
  <2>1. s.count = c
    BY <1>2, <1>4
  <2>2. /\ s.start + c <= NumBlocks
        /\ extent(s.start, c) \cap t = {}
        /\ \A p \in Nat : p < s.start => extent(p, c) \cap t # {}
    BY <1>1, <2>1 DEF LoopInv
  <2>3. s.start \in Block
    BY <1>2, <2>2 DEF Block
  <2>4. isFree(t, s.start, c)
    BY <1>2, <2>2 DEF isFree, extent, Block
  <2>5. \A p \in Block : isFree(t, p, c) => s.start <= p
    BY <1>2, <2>2 DEF isFree, Block
  <2> QED BY <1>4, <2>3, <2>4, <2>5 DEF isFirstFit, s
<1> QED BY <1>3, <1>4 DEF s

\* saveNode's loop takes the first run of free blocks that is long enough, and gives
\* up exactly when there is none, in every state of the storage.
THEOREM ScanIsFirstFit == Spec => []ScanFindsFirstFit
<1>1. StorageInv => ScanFindsFirstFit
  <2> SUFFICES ASSUME StorageInv, NEW n \in Node
               PROVE  IF scan(table, blocksNeeded(n)).count < blocksNeeded(n)
                      THEN noFit(table, blocksNeeded(n))
                      ELSE isFirstFit(table, scan(table, blocksNeeded(n)).start, blocksNeeded(n))
    BY DEF ScanFindsFirstFit
  <2>1. table \in SUBSET Block /\ blocksNeeded(n) \in Nat \ {0}
    BY NeedsBlock DEF StorageInv, TypeOK
  <2> QED BY <2>1, ScanCorrect
<1> QED BY StorageSound, <1>1, PTL
=============================================================================
