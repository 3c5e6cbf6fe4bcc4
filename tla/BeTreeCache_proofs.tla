------------------------- MODULE BeTreeCache_proofs -------------------------
(***************************************************************************)
(* For every capacity, every size of the storage and of the nodes, and any *)
(* number of objects: the cache over the block storage is a memory of      *)
(* nodes.  Each node the tree may still use has one copy in memory, the    *)
(* storage keeps a place for every live node, and what the cache lets go   *)
(* was written where it is read from next.                                 *)
(***************************************************************************)
EXTENDS BeTreeCache, DataInduction, FiniteSetTheorems, TLAPS

Blocks == INSTANCE BlockStorage_proofs WITH saved <- << >>, open <- TRUE

-----------------------------------------------------------------------------
(* The storage as a value, between two saves of one step *)

StorageState ==
  [table : SUBSET Int, disk : [Storage!Block -> Storage!Piece],
   stored : UNION {[D -> Node] : D \in SUBSET Nat}]

blocks(s, id) == Storage!extent(id, Storage!blocksNeeded(s.stored[id]))

\* What BlockStorage keeps: its types, an exact table, nodes that read back, no two of
\* which share a block.
Sound(s) ==
  /\ s \in StorageState
  /\ s.table \subseteq Storage!Block /\ DOMAIN s.stored \subseteq Storage!Block
  /\ s.table = Storage!Reserved \cup UNION {blocks(s, id) : id \in DOMAIN s.stored}
  /\ \A id \in DOMAIN s.stored :
       /\ blocks(s, id) \subseteq Storage!Block \ Storage!Reserved
       /\ \A b \in blocks(s, id) : s.disk[b] = [node |-> s.stored[id], part |-> b - id]
  /\ \A i, j \in DOMAIN s.stored : i # j => blocks(s, i) \cap blocks(s, j) = {}

\* The storage that the cache runs on meets the assumptions of BlockStorage.
LEMMA SameReserved == Blocks!Reserved \subseteq Blocks!Block
BY StorageAssumption DEF Blocks!Reserved, Blocks!Block, Blocks!ceil, Blocks!HeaderSize,
  Storage!Reserved, Storage!Block, Storage!ceil, Storage!HeaderSize

\* Every node needs a block, and as many as any other of its size.
LEMMA NeedsBlocks ==
  /\ \A n \in Node : Storage!blocksNeeded(n) \in Nat \ {0}
  /\ \A n, m \in Node : SizeOf[n] = SizeOf[m] => Storage!blocksNeeded(n) = Storage!blocksNeeded(m)
<1>1. ASSUME NEW n \in Node PROVE Storage!blocksNeeded(n) \in Nat \ {0}
  <2>1. Blocks!ceil(SizeOf[n], BlockSize) \in Nat \ {0}
    BY StorageAssumption, SameReserved, Blocks!CeilPositive
  <2> QED BY <2>1 DEF Storage!blocksNeeded, Storage!ceil, Blocks!ceil
<1>2. \A n, m \in Node : SizeOf[n] = SizeOf[m] => Storage!blocksNeeded(n) = Storage!blocksNeeded(m)
  BY DEF Storage!blocksNeeded
<1> QED BY <1>1, <1>2

\* No node has the identifier that means that there was no room: its block is reserved.
LEMMA NoIdReserved == NoId \in Storage!Reserved
<1>1. /\ Blocks!ceil(Storage!HeaderSize, BlockSize) \in Nat \ {0}
      /\ Blocks!ceil(NumBlocks, BlockSize) \in Nat
  BY StorageAssumption, SameReserved, Blocks!CeilPositive, Blocks!CeilCovers DEF Storage!HeaderSize
<1>2. /\ Storage!ceil(Storage!HeaderSize, BlockSize) \in Nat \ {0}
      /\ Storage!ceil(NumBlocks, BlockSize) \in Nat
  BY <1>1 DEF Storage!ceil, Blocks!ceil
<1> QED BY <1>2 DEF NoId, Storage!Reserved

\* If any extent is free, one of them is the first; there are no two first ones.
LEMMA FirstFit ==
  ASSUME NEW t, NEW c \in Nat \ {0}
  PROVE  /\ ~Storage!noFit(t, c) => \E start \in Storage!Block : Storage!isFirstFit(t, start, c)
         /\ \A i, j \in Storage!Block :
              Storage!isFirstFit(t, i, c) /\ Storage!isFirstFit(t, j, c) => i = j
<1> DEFINE T == {i \in Storage!Block : Storage!isFree(t, i, c)}
<1>1. Storage!Block \subseteq Nat
  BY DEF Storage!Block
<1>2. ASSUME ~Storage!noFit(t, c)
      PROVE  \E start \in Storage!Block : Storage!isFirstFit(t, start, c)
  <2>1. T # {} /\ T \subseteq Nat
    BY <1>1, <1>2 DEF Storage!noFit
  <2>2. PICK start \in T : \A i \in T : start <= i
    BY <2>1, LeastNumber
  <2> QED BY <2>2 DEF Storage!isFirstFit
<1>3. \A i, j \in Storage!Block :
        Storage!isFirstFit(t, i, c) /\ Storage!isFirstFit(t, j, c) => i = j
  BY <1>1 DEF Storage!isFirstFit
<1> QED BY <1>2, <1>3

\* The fields of the storage after saveNode.
LEMMA PutFields ==
  ASSUME NEW s \in StorageState, NEW start \in Nat, NEW n \in Node
  PROVE  /\ saveAt(s, start, n) \in StorageState
         /\ DOMAIN saveAt(s, start, n).stored = DOMAIN s.stored \cup {start}
         /\ saveAt(s, start, n).stored[start] = n
         /\ \A id \in DOMAIN s.stored : id # start => saveAt(s, start, n).stored[id] = s.stored[id]
<1> DEFINE r == saveAt(s, start, n)
<1>1. PICK D \in SUBSET Nat : s.stored \in [D -> Node]
  BY DEF StorageState
<1>2. r.stored \in [D \cup {start} -> Node]
  BY <1>1 DEF saveAt
<1>3. Storage!extent(start, Storage!blocksNeeded(n)) \subseteq Int
  BY DEF Storage!extent
<1>4. r.disk \in [Storage!Block -> Storage!Piece]
  <2>1. \A b \in Storage!extent(start, Storage!blocksNeeded(n)) : b - start \in Nat
    BY NeedsBlocks DEF Storage!extent
  <2>2. s.disk \in [Storage!Block -> Storage!Piece]
    BY DEF StorageState
  <2>3. r.disk = Storage!written(s.disk, start, n)
    BY DEF saveAt
  <2> QED BY <2>1, <2>2, <2>3 DEF Storage!written, Storage!Piece
<1>5. r.table \in SUBSET Int
  BY <1>3 DEF saveAt, StorageState
<1>6. r = [table |-> r.table, disk |-> r.disk, stored |-> r.stored]
  BY DEF saveAt
<1>7. r.stored \in UNION {[A -> Node] : A \in SUBSET Nat}
  BY <1>2
<1>8. r \in StorageState
  BY <1>4, <1>5, <1>6, <1>7 DEF StorageState
<1> QED BY <1>1, <1>8 DEF saveAt

\* A node's identifier, its first block, is one of its blocks, none of which is reserved.
LEMMA OwnBlocks ==
  ASSUME NEW s, Sound(s), NEW id \in DOMAIN s.stored
  PROVE  /\ id \in Nat \ {NoId} /\ id \in Storage!Block \ Storage!Reserved
         /\ s.stored[id] \in Node
         /\ id \in blocks(s, id) /\ blocks(s, id) \subseteq s.table
         /\ Storage!loaded(s.disk, id) = s.stored[id]
<1>1. PICK D \in SUBSET Nat : s.stored \in [D -> Node]
  BY DEF Sound, StorageState
<1>2. id \in Nat /\ s.stored[id] \in Node
  BY <1>1
<1>3. id \in blocks(s, id)
  BY <1>2, NeedsBlocks DEF blocks, Storage!extent
<1>4. blocks(s, id) \subseteq s.table /\ blocks(s, id) \subseteq Storage!Block \ Storage!Reserved
  BY DEF Sound
<1>5. s.disk[id] = [node |-> s.stored[id], part |-> id - id]
  BY <1>3 DEF Sound
<1>6. Storage!loaded(s.disk, id) = s.stored[id]
  BY <1>5 DEF Storage!loaded
<1> QED BY <1>2, <1>3, <1>4, <1>6, NoIdReserved

\* A node that is new gets blocks that no other node has.
LEMMA PutNewSound ==
  ASSUME NEW s, Sound(s), NEW n \in Node, NEW start \in Storage!Block,
         Storage!isFirstFit(s.table, start, Storage!blocksNeeded(n))
  PROVE  start \notin DOMAIN s.stored /\ start # NoId /\ Sound(saveAt(s, start, n))
<1> DEFINE new == Storage!extent(start, Storage!blocksNeeded(n))
           r == saveAt(s, start, n)
<1>1. start \in Nat /\ start \in new
  BY NeedsBlocks DEF Storage!Block, Storage!extent
<1>2. new \subseteq Storage!Block \ s.table
  BY DEF Storage!isFirstFit, Storage!isFree
<1>3. Storage!Reserved \subseteq s.table
  BY DEF Sound
<1>4. start \notin DOMAIN s.stored /\ start # NoId
  BY <1>1, <1>2, <1>3, OwnBlocks, NoIdReserved
<1>5. /\ s \in StorageState /\ r \in StorageState
      /\ DOMAIN r.stored = DOMAIN s.stored \cup {start}
      /\ r.stored[start] = n
      /\ \A id \in DOMAIN s.stored : r.stored[id] = s.stored[id]
  <2>1. s \in StorageState
    BY DEF Sound
  <2> HIDE DEF r
  <2> QED BY <1>1, <1>4, <2>1, PutFields DEF r
<1>6. blocks(r, start) = new /\ \A id \in DOMAIN s.stored : blocks(r, id) = blocks(s, id)
  BY <1>5 DEF blocks
<1>7. /\ r.table = s.table \cup new
      /\ \A b \in new : r.disk[b] = [node |-> n, part |-> b - start]
      /\ \A b \in Storage!Block \ new : r.disk[b] = s.disk[b]
  BY <1>2 DEF saveAt, Storage!written
<1>8. \A id \in DOMAIN s.stored :
        /\ blocks(s, id) \cap new = {}
        /\ blocks(s, id) \subseteq Storage!Block \ Storage!Reserved
  BY <1>2 DEF Sound
<1> HIDE DEF new, r
<1>9. r.table \subseteq Storage!Block /\ DOMAIN r.stored \subseteq Storage!Block
  BY <1>2, <1>5, <1>7 DEF Sound
<1>10. r.table = Storage!Reserved \cup UNION {blocks(r, id) : id \in DOMAIN r.stored}
  <2>1. UNION {blocks(r, id) : id \in DOMAIN r.stored}
        = new \cup UNION {blocks(s, id) : id \in DOMAIN s.stored}
    BY <1>5, <1>6
  <2> QED BY <1>7, <2>1 DEF Sound
<1>11. ASSUME NEW id \in DOMAIN r.stored
       PROVE  /\ blocks(r, id) \subseteq Storage!Block \ Storage!Reserved
              /\ \A b \in blocks(r, id) : r.disk[b] = [node |-> r.stored[id], part |-> b - id]
  <2>1. CASE id = start
    BY <1>2, <1>3, <1>5, <1>6, <1>7, <2>1
  <2>2. CASE id \in DOMAIN s.stored
    <3>1. \A b \in blocks(s, id) : s.disk[b] = [node |-> s.stored[id], part |-> b - id]
      BY <2>2 DEF Sound
    <3> QED BY <1>5, <1>6, <1>7, <1>8, <2>2, <3>1
  <2> QED BY <1>5, <2>1, <2>2
<1>12. \A i, j \in DOMAIN r.stored : i # j => blocks(r, i) \cap blocks(r, j) = {}
  <2>1. \A i, j \in DOMAIN s.stored : i # j => blocks(s, i) \cap blocks(s, j) = {}
    BY DEF Sound
  <2> QED BY <1>5, <1>6, <1>8, <2>1
<1>13. Sound(r)
  BY <1>5, <1>9, <1>10, <1>11, <1>12 DEF Sound
<1> QED BY <1>4, <1>13 DEF r

\* A stored node that is saved again gets the blocks it had.
LEMMA PutOverSound ==
  ASSUME NEW s, Sound(s), NEW n \in Node, NEW start \in DOMAIN s.stored,
         SizeOf[n] = SizeOf[s.stored[start]]
  PROVE  Sound(saveAt(s, start, n)) /\ DOMAIN saveAt(s, start, n).stored = DOMAIN s.stored
<1> DEFINE own == blocks(s, start)
           r == saveAt(s, start, n)
<1>1. start \in Nat /\ s \in StorageState
  BY OwnBlocks DEF Sound
<1>2. own = Storage!extent(start, Storage!blocksNeeded(n))
  BY OwnBlocks, NeedsBlocks DEF blocks
<1>3. /\ r \in StorageState
      /\ DOMAIN r.stored = DOMAIN s.stored
      /\ r.stored[start] = n
      /\ \A id \in DOMAIN s.stored : id # start => r.stored[id] = s.stored[id]
  <2>1. DOMAIN s.stored \cup {start} = DOMAIN s.stored
    OBVIOUS
  <2>2. /\ saveAt(s, start, n) \in StorageState
        /\ DOMAIN saveAt(s, start, n).stored = DOMAIN s.stored \cup {start}
        /\ saveAt(s, start, n).stored[start] = n
        /\ \A id \in DOMAIN s.stored : id # start => saveAt(s, start, n).stored[id] = s.stored[id]
    BY <1>1, PutFields
  <2> QED BY <2>1, <2>2, Zenon
<1>4. \A id \in DOMAIN s.stored : blocks(r, id) = blocks(s, id)
  BY <1>2, <1>3 DEF blocks
<1>5. own \subseteq s.table /\ own \subseteq Storage!Block
  BY OwnBlocks DEF Sound
<1>6. /\ r.table = s.table
      /\ \A b \in own : r.disk[b] = [node |-> n, part |-> b - start]
      /\ \A b \in Storage!Block \ own : r.disk[b] = s.disk[b]
  BY <1>2, <1>5 DEF saveAt, Storage!written
<1>7. \A id \in DOMAIN s.stored : id # start => blocks(s, id) \cap own = {}
  BY DEF Sound
<1> HIDE DEF own, r
<1>8. r.table = Storage!Reserved \cup UNION {blocks(r, id) : id \in DOMAIN r.stored}
  <2>1. UNION {blocks(r, id) : id \in DOMAIN r.stored}
        = UNION {blocks(s, id) : id \in DOMAIN s.stored}
    BY <1>3, <1>4
  <2> QED BY <1>6, <2>1 DEF Sound
<1>9. ASSUME NEW id \in DOMAIN s.stored, NEW b \in blocks(s, id)
      PROVE  r.disk[b] = [node |-> r.stored[id], part |-> b - id]
  <2>1. s.disk[b] = [node |-> s.stored[id], part |-> b - id] /\ b \in Storage!Block
    BY DEF Sound
  <2>2. CASE id = start
    BY <1>3, <1>6, <2>2 DEF own
  <2>3. CASE id # start
    <3>1. b \notin own
      BY <1>7, <2>3
    <3> QED BY <1>3, <1>6, <2>1, <2>3, <3>1
  <2> QED BY <2>2, <2>3
<1>10. Sound(r)
  BY <1>3, <1>4, <1>6, <1>8, <1>9 DEF Sound
<1> QED BY <1>3, <1>10 DEF r

\* saveNode of a node with an identifier; of one without, if there is no room, or if there is.
LEMMA SaveIsSaveAt ==
  ASSUME NEW s, NEW n \in Node
  PROVE  /\ \A id \in Nat \ {NoId} : save(s, id, n) = saveAt(s, id, n)
         /\ Storage!noFit(s.table, Storage!blocksNeeded(n)) => save(s, NoId, n) = s
         /\ \A x \in Storage!Block :
              Storage!isFirstFit(s.table, x, Storage!blocksNeeded(n))
                => save(s, NoId, n) = saveAt(s, x, n)
<1> DEFINE c == Storage!blocksNeeded(n)
           first == CHOOSE start \in Storage!Block : Storage!isFirstFit(s.table, start, c)
<1>1. \A id : id # NoId => save(s, id, n) = saveAt(s, id, n)
  BY DEF save
<1>2. Storage!noFit(s.table, c) => save(s, NoId, n) = s
  BY DEF save
<1>3. ~Storage!noFit(s.table, c) => save(s, NoId, n) = saveAt(s, first, n)
  BY DEF save
<1>4. ASSUME NEW x \in Storage!Block, Storage!isFirstFit(s.table, x, c)
      PROVE  first = x /\ ~Storage!noFit(s.table, c)
  <2>1. c \in Nat \ {0}
    BY NeedsBlocks
  <2>2. Storage!isFirstFit(s.table, first, c) /\ first \in Storage!Block
    BY <1>4
  <2> HIDE DEF first, c
  <2>3. first = x
    BY <1>4, <2>1, <2>2, FirstFit
  <2>4. Storage!isFree(s.table, x, c)
    BY <1>4 DEF Storage!isFirstFit
  <2> QED BY <2>3, <2>4 DEF Storage!noFit
<1> HIDE DEF first, c
<1> QED BY <1>1, <1>2, <1>3, <1>4 DEF c

\* saveNode makes one storage of another.
LEMMA SaveType ==
  ASSUME NEW s \in StorageState, NEW id \in Nat, NEW n \in Node
  PROVE  save(s, id, n) \in StorageState
<1>1. CASE id # NoId
  <2>1. save(s, id, n) = saveAt(s, id, n)
    BY <1>1, SaveIsSaveAt
  <2> QED BY <2>1, PutFields
<1>2. CASE id = NoId /\ Storage!noFit(s.table, Storage!blocksNeeded(n))
  BY <1>2, SaveIsSaveAt
<1>3. CASE id = NoId /\ ~Storage!noFit(s.table, Storage!blocksNeeded(n))
  <2>1. PICK x \in Storage!Block : Storage!isFirstFit(s.table, x, Storage!blocksNeeded(n))
    BY <1>3, NeedsBlocks, FirstFit
  <2>2. x \in Nat
    BY DEF Storage!Block
  <2>3. save(s, id, n) = saveAt(s, x, n)
    BY <1>3, <2>1, SaveIsSaveAt
  <2> QED BY <2>2, <2>3, PutFields
<1> QED BY <1>1, <1>2, <1>3

\* The storage after each of the entries that saveAll goes through.
Saving(after, s, entries) ==
  /\ after[0] = s
  /\ \A i \in 1 .. Len(entries) :
       after[i] = save(after[i - 1], entries[i].id, content[entries[i].obj])

\* saveAll goes through the entries.
LEMMA SaveAllSaves ==
  ASSUME NEW s \in StorageState, NEW entries \in Seq(Entry), content \in [Object -> Node]
  PROVE  \E after \in [0 .. Len(entries) -> StorageState] :
           Saving(after, s, entries) /\ saveAll(s, entries) = after[Len(entries)]
<1> DEFINE N == Len(entries)
           next(t, i) == save(t, entries[i].id, content[entries[i].obj])
           round == [p \in StorageState \X (1 .. N) |-> next(p[1], p[2])]
           isSaving(h) == h = [i \in 0 .. N |-> IF i = 0 THEN s ELSE next(h[i - 1], i)]
<1>1. N \in Nat /\ \A i \in 1 .. N : entries[i].id \in Nat /\ content[entries[i].obj] \in Node
  <2>1. \A i \in 1 .. N : entries[i] \in Entry
    OBVIOUS
  <2>2. \A e \in Entry : e.id \in Nat /\ e.obj \in Object
    BY DEF Entry
  <2> QED BY <2>1, <2>2
<1>2. ASSUME NEW t \in StorageState, NEW i \in 1 .. N PROVE next(t, i) \in StorageState
  BY <1>1, SaveType
<1> HIDE DEF next
<1>3. round \in [StorageState \X (1 .. N) -> StorageState]
  BY <1>2
<1>4. PICK h \in [0 .. N -> StorageState] : Rounds(h, N, s, round)
  <2> HIDE DEF N, round
  <2> QED BY <1>1, <1>3, RoundsExist
<1>5. isSaving(h)
  <2>1. ASSUME NEW i \in 0 .. N, i # 0 PROVE round[<<h[i - 1], i>>] = next(h[i - 1], i)
    <3>1. h[i - 1] \in StorageState /\ i \in 1 .. N
      BY <1>1, <2>1
    <3> QED BY <3>1
  <2> HIDE DEF round
  <2> QED BY <1>4, <2>1 DEF Rounds
<1> DEFINE after == CHOOSE h1 : isSaving(h1)
<1>6. isSaving(after)
  BY <1>5
<1>7. saveAll(s, entries) = after[N]
  BY DEF saveAll, next
<1> HIDE DEF after
<1>8. after[0] = s /\ \A i \in 1 .. N : after[i] = next(after[i - 1], i)
  <2>1. 0 \in 0 .. N /\ \A i \in 1 .. N : i \in 0 .. N /\ i # 0
    BY <1>1
  <2> QED BY <1>6, <2>1, Zenon
<1>9. \A i \in 0 .. N : after[i] \in StorageState
  <2> DEFINE P == {i \in 0 .. N : after[i] \in StorageState}
  <2>1. 0 \in P
    BY <1>1, <1>8
  <2>2. ASSUME NEW i \in 1 .. N, i - 1 \in P PROVE i \in P
    BY <1>1, <1>2, <1>8, <2>2
  <2>3. 0 .. N \subseteq P
    <3> HIDE DEF P, N
    <3> QED BY <1>1, <2>1, <2>2, BoundedInduction
  <2> QED BY <2>3
<1>10. after \in [0 .. N -> StorageState]
  BY <1>6, <1>9
<1> QED BY <1>7, <1>8, <1>10 DEF Saving, next

\* No two entries have one identifier.
distinct(entries) == \A i, j \in DOMAIN entries : entries[i].id = entries[j].id => i = j

\* Entries with identifiers of their own, whose nodes kept their sizes.
canSave(s, entries) ==
  /\ entries \in Seq(Entry) /\ distinct(entries)
  /\ \A i \in DOMAIN entries : entries[i].id # NoId =>
       /\ entries[i].id \in DOMAIN s.stored
       /\ SizeOf[content[entries[i].obj]] = SizeOf[s.stored[entries[i].id]]

\* The storage t is s after the entries in K were saved: each under its identifier, and
\* if there was one without an identifier, perhaps in a new place.
Saved(s, t, entries, K) ==
  /\ Sound(t)
  /\ \A i \in K : entries[i].id # NoId => t.stored[entries[i].id] = content[entries[i].obj]
  /\ \A id \in DOMAIN s.stored : (\A i \in K : entries[i].id # id) => t.stored[id] = s.stored[id]
  /\ \/ DOMAIN t.stored = DOMAIN s.stored
     \/ /\ \E i \in K : entries[i].id = NoId
        /\ \E x \in Storage!Block : DOMAIN t.stored = DOMAIN s.stored \cup {x}

\* One more entry.
LEMMA SaveOne ==
  ASSUME NEW s, NEW entries, canSave(s, entries), content \in [Object -> Node], Sound(s),
         NEW i \in 1 .. Len(entries),
         NEW t, Saved(s, t, entries, 1 .. i - 1)
  PROVE  Saved(s, save(t, entries[i].id, content[entries[i].obj]), entries, 1 .. i)
<1> DEFINE id == entries[i].id
           n == content[entries[i].obj]
           r == save(t, id, n)
<1>1. /\ Len(entries) \in Nat /\ DOMAIN entries = 1 .. Len(entries)
      /\ i \in Nat /\ i \in DOMAIN entries
      /\ id \in Nat /\ n \in Node
      /\ 1 .. i = (1 .. i - 1) \cup {i}
  <2>1. entries \in Seq(Entry)
    BY DEF canSave
  <2>2. i \in DOMAIN entries /\ entries[i] \in Entry /\ Len(entries) \in Nat
    BY <2>1
  <2>3. \A e \in Entry : e.id \in Nat /\ e.obj \in Object
    BY DEF Entry
  <2> QED BY <2>1, <2>2, <2>3
<1>2. \A j \in 1 .. i - 1 : j \in DOMAIN entries /\ entries[j].id # id
  BY <1>1 DEF canSave, distinct
<1>3. Sound(t) /\ t \in StorageState
  BY DEF Saved, Sound
<1>4. CASE id # NoId
  <2>1. id \in DOMAIN s.stored /\ SizeOf[n] = SizeOf[s.stored[id]]
    BY <1>1, <1>4 DEF canSave
  <2>2. id \in DOMAIN t.stored /\ t.stored[id] = s.stored[id]
    BY <1>2, <2>1 DEF Saved
  <2>3. r = saveAt(t, id, n)
    BY <1>1, <1>4, SaveIsSaveAt
  <2> HIDE DEF id, n, r
  <2>4. Sound(r) /\ DOMAIN r.stored = DOMAIN t.stored
    BY <1>1, <1>3, <2>1, <2>2, <2>3, PutOverSound
  <2>5. r.stored[id] = n /\ \A d \in DOMAIN t.stored : d # id => r.stored[d] = t.stored[d]
    BY <1>1, <1>3, <2>3, PutFields
  <2>6. \A j \in 1 .. i - 1 : entries[j].id # NoId =>
          /\ t.stored[entries[j].id] = content[entries[j].obj]
          /\ entries[j].id \in DOMAIN t.stored
    BY <1>2 DEF Saved, canSave
  <2>7. \A j \in 1 .. i : entries[j].id # NoId => r.stored[entries[j].id] = content[entries[j].obj]
    BY <1>1, <1>2, <2>5, <2>6 DEF id, n
  <2>8. \A d \in DOMAIN s.stored : (\A j \in 1 .. i : entries[j].id # d) => r.stored[d] = s.stored[d]
    <3>1. DOMAIN s.stored \subseteq DOMAIN t.stored
      BY DEF Saved
    <3> QED BY <1>1, <2>5, <3>1 DEF Saved, id
  <2>9. \/ DOMAIN r.stored = DOMAIN s.stored
        \/ /\ \E j \in 1 .. i : entries[j].id = NoId
           /\ \E x \in Storage!Block : DOMAIN r.stored = DOMAIN s.stored \cup {x}
    BY <1>1, <2>4 DEF Saved
  <2> QED BY <2>4, <2>7, <2>8, <2>9 DEF Saved, r, id, n
<1>5. CASE id = NoId
  <2>1. DOMAIN t.stored = DOMAIN s.stored
    BY <1>2, <1>5 DEF Saved
  <2>2. \A j \in 1 .. i : entries[j].id # NoId => j \in 1 .. i - 1
    BY <1>1, <1>5
  <2>3. CASE Storage!noFit(t.table, Storage!blocksNeeded(n))
    <3>1. r = t
      BY <1>1, <1>5, <2>3, SaveIsSaveAt
    <3> HIDE DEF id, n, r
    <3> QED BY <1>1, <2>1, <2>2, <3>1 DEF Saved, r, id, n
  <2>4. CASE ~Storage!noFit(t.table, Storage!blocksNeeded(n))
    <3>1. PICK x \in Storage!Block : Storage!isFirstFit(t.table, x, Storage!blocksNeeded(n))
      BY <1>1, <2>4, NeedsBlocks, FirstFit
    <3>2. r = saveAt(t, x, n) /\ x \in Nat
      BY <1>1, <1>5, <3>1, SaveIsSaveAt DEF Storage!Block
    <3> HIDE DEF id, n, r
    <3>3. x \notin DOMAIN t.stored /\ Sound(r)
      BY <1>1, <1>3, <3>1, <3>2, PutNewSound
    <3>4. /\ DOMAIN r.stored = DOMAIN s.stored \cup {x}
          /\ \A d \in DOMAIN s.stored : r.stored[d] = t.stored[d]
      <4>1. /\ DOMAIN r.stored = DOMAIN t.stored \cup {x}
            /\ \A d \in DOMAIN t.stored : d # x => r.stored[d] = t.stored[d]
        BY <1>1, <1>3, <3>2, PutFields DEF n
      <4> QED BY <2>1, <3>3, <4>1
    <3>5. \A j \in 1 .. i : entries[j].id # NoId => r.stored[entries[j].id] = content[entries[j].obj]
      <4>1. \A j \in 1 .. i - 1 : entries[j].id # NoId =>
              /\ t.stored[entries[j].id] = content[entries[j].obj]
              /\ entries[j].id \in DOMAIN s.stored
        BY <1>2 DEF Saved, canSave
      <4> QED BY <2>2, <3>4, <4>1
    <3>6. \A d \in DOMAIN s.stored : (\A j \in 1 .. i : entries[j].id # d) => r.stored[d] = s.stored[d]
      BY <1>1, <3>4 DEF Saved
    <3>7. entries[i].id = NoId /\ i \in 1 .. i
      BY <1>1, <1>5 DEF id
    <3> QED BY <3>3, <3>4, <3>5, <3>6, <3>7 DEF Saved, r, id, n
  <2> QED BY <2>3, <2>4
<1> QED BY <1>4, <1>5

\* saveAll saves the entries, and leaves all other nodes as they were.
LEMMA SaveAllSaved ==
  ASSUME NEW s, NEW entries, canSave(s, entries), content \in [Object -> Node], Sound(s)
  PROVE  Saved(s, saveAll(s, entries), entries, DOMAIN entries)
<1> DEFINE N == Len(entries)
<1>1. s \in StorageState /\ entries \in Seq(Entry) /\ N \in Nat /\ DOMAIN entries = 1 .. N
  BY DEF canSave, Sound
<1>2. PICK after \in [0 .. N -> StorageState] :
        Saving(after, s, entries) /\ saveAll(s, entries) = after[N]
  BY <1>1, SaveAllSaves
<1> DEFINE P == {i \in 0 .. N : Saved(s, after[i], entries, 1 .. i)}
<1>3. 0 \in P
  <2>1. 1 .. 0 = {} /\ after[0] = s
    BY <1>2 DEF Saving
  <2> QED BY <1>1, <2>1 DEF Saved
<1>4. ASSUME NEW i \in 1 .. N, i - 1 \in P PROVE i \in P
  <2>1. after[i] = save(after[i - 1], entries[i].id, content[entries[i].obj])
    BY <1>2 DEF Saving
  <2>2. Saved(s, after[i - 1], entries, 1 .. i - 1) /\ i \in 0 .. N
    BY <1>1, <1>4
  <2>3. Saved(s, save(after[i - 1], entries[i].id, content[entries[i].obj]), entries, 1 .. i)
    BY <2>2, SaveOne
  <2> QED BY <2>1, <2>2, <2>3
<1> HIDE DEF P
<1>5. 0 .. N \subseteq P
  <2> HIDE DEF N
  <2> QED BY <1>1, <1>3, <1>4, BoundedInduction
<1>6. N \in P
  BY <1>1, <1>5
<1> QED BY <1>1, <1>2, <1>6 DEF P

-----------------------------------------------------------------------------
(* The entries of the cache *)

idsOf(entries) == {e.id : e \in ToSet(entries)}

\* Entries with different identifiers are different, and equal ones are one.
LEMMA DistinctFacts ==
  ASSUME NEW q \in Seq(Entry), distinct(q)
  PROVE  /\ oneToOne(q) /\ elements(q) = ToSet(q)
         /\ ToSet(q) \subseteq Entry
         /\ \A e, f \in ToSet(q) : e.id = f.id => e = f
<1>1. oneToOne(q)
  BY DEF distinct, oneToOne
<1>2. ToSet(q) \subseteq Entry
  BY DEF ToSet
<1>3. \A e, f \in ToSet(q) : e.id = f.id => e = f
  BY DEF ToSet, distinct
<1> QED BY <1>1, <1>2, <1>3 DEF elements, ToSet

\* Entries chosen from entries with different identifiers have different identifiers.
LEMMA ChosenEntries ==
  ASSUME NEW q \in Seq(Entry), distinct(q), NEW S
  PROVE  /\ within(q, S) \in Seq(Entry) /\ distinct(within(q, S))
         /\ ToSet(within(q, S)) = ToSet(q) \cap S
<1> DEFINE r == within(q, S)
<1>1. r \in Seq(Entry) /\ elements(r) = elements(q) \cap S /\ oneToOne(r)
  <2>1. oneToOne(q)
    BY DistinctFacts
  <2> HIDE DEF r
  <2> QED BY <2>1, WithinFacts DEF r
<1> HIDE DEF r
<1>2. ToSet(r) = ToSet(q) \cap S
  BY <1>1 DEF elements, ToSet
<1>3. ASSUME NEW i \in DOMAIN r, NEW j \in DOMAIN r, r[i].id = r[j].id PROVE i = j
  <2>1. r[i] \in ToSet(q) /\ r[j] \in ToSet(q)
    BY <1>2 DEF ToSet
  <2>2. r[i] = r[j]
    BY <1>3, <2>1, DistinctFacts
  <2> QED BY <1>1, <2>2 DEF oneToOne
<1>4. distinct(r)
  BY <1>3 DEF distinct
<1> QED BY <1>1, <1>2, <1>4 DEF r

\* The cache without some identifiers.
LEMMA WithoutFacts ==
  ASSUME NEW q \in Seq(Entry), distinct(q), NEW S
  PROVE  /\ without(q, S) \in Seq(Entry) /\ distinct(without(q, S))
         /\ ToSet(without(q, S)) = {e \in ToSet(q) : e.id \notin S}
         /\ idsOf(without(q, S)) = idsOf(q) \ S
<1> DEFINE T == {e \in ToSet(q) : e.id \notin S}
<1>1. without(q, S) = within(q, T)
  BY DEF without
<1>2. ToSet(q) \cap T = T
  OBVIOUS
<1> HIDE DEF T
<1>3. /\ without(q, S) \in Seq(Entry) /\ distinct(without(q, S))
      /\ ToSet(without(q, S)) = T
  BY <1>1, <1>2, ChosenEntries
<1>4. idsOf(without(q, S)) = idsOf(q) \ S
  BY <1>3 DEF idsOf, T
<1> QED BY <1>3, <1>4 DEF T

\* An entry with a new identifier in front.
LEMMA FrontFacts ==
  ASSUME NEW q \in Seq(Entry), distinct(q), NEW e \in Entry, e.id \notin idsOf(q)
  PROVE  /\ << e >> \o q \in Seq(Entry) /\ distinct(<< e >> \o q)
         /\ ToSet(<< e >> \o q) = {e} \cup ToSet(q)
         /\ idsOf(<< e >> \o q) = {e.id} \cup idsOf(q)
         /\ Len(<< e >> \o q) = Len(q) + 1
<1> DEFINE r == << e >> \o q
<1>1. /\ r \in Seq(Entry) /\ Len(r) = Len(q) + 1 /\ Len(q) \in Nat
      /\ DOMAIN r = 1 .. Len(q) + 1 /\ DOMAIN q = 1 .. Len(q)
      /\ r[1] = e /\ \A i \in 1 .. Len(q) : r[i + 1] = q[i]
  OBVIOUS
<1> HIDE DEF r
<1>2. \A i \in 2 .. Len(q) + 1 : i - 1 \in DOMAIN q /\ r[i] = q[i - 1]
  BY <1>1
<1>3. ToSet(r) = {e} \cup ToSet(q)
  <2>1. ASSUME NEW x \in ToSet(r) PROVE x \in {e} \cup ToSet(q)
    <3>1. PICK i \in 1 .. Len(q) + 1 : x = r[i]
      BY <1>1 DEF ToSet
    <3>2. CASE i = 1
      BY <1>1, <3>1, <3>2
    <3>3. CASE i # 1
      <4>1. i \in 2 .. Len(q) + 1
        BY <1>1, <3>3
      <4> QED BY <1>2, <3>1, <4>1 DEF ToSet
    <3> QED BY <3>2, <3>3
  <2>2. ASSUME NEW x \in ToSet(q) PROVE x \in ToSet(r)
    <3>1. PICK i \in 1 .. Len(q) : x = q[i]
      BY <1>1 DEF ToSet
    <3>2. i + 1 \in 1 .. Len(q) + 1 /\ r[i + 1] = x
      BY <1>1, <3>1
    <3> QED BY <1>1, <3>2 DEF ToSet
  <2>3. e \in ToSet(r)
    <3>1. 1 \in DOMAIN r
      BY <1>1
    <3> QED BY <1>1, <3>1 DEF ToSet
  <2> QED BY <2>1, <2>2, <2>3
<1>4. idsOf(r) = {e.id} \cup idsOf(q)
  BY <1>3 DEF idsOf
<1>5. \A i \in 2 .. Len(q) + 1 : r[i].id # e.id
  BY <1>2 DEF idsOf, ToSet
<1>6. distinct(r)
  <2>1. ASSUME NEW i \in DOMAIN r, NEW j \in DOMAIN r, r[i].id = r[j].id PROVE i = j
    <3>1. CASE i = 1 \/ j = 1
      BY <1>1, <1>5, <2>1, <3>1
    <3>2. CASE i # 1 /\ j # 1
      <4>1. i \in 2 .. Len(q) + 1 /\ j \in 2 .. Len(q) + 1
        BY <1>1, <3>2
      <4>2. i - 1 = j - 1
        BY <1>2, <2>1, <4>1 DEF distinct
      <4> QED BY <4>1, <4>2
    <3> QED BY <3>1, <3>2
  <2> QED BY <2>1 DEF distinct
<1> QED BY <1>1, <1>3, <1>4, <1>6 DEF r

\* As many identifiers as entries.
LEMMA CountIds ==
  ASSUME NEW q \in Seq(Entry), distinct(q)
  PROVE  IsFiniteSet(idsOf(q)) /\ Cardinality(idsOf(q)) = Len(q)
<1> DEFINE f == [i \in 1 .. Len(q) |-> q[i].id]
<1>1. Len(q) \in Nat /\ DOMAIN q = 1 .. Len(q)
  OBVIOUS
<1>2. f \in Bijection(1 .. Len(q), idsOf(q))
  <2>1. f \in [1 .. Len(q) -> idsOf(q)]
    BY <1>1 DEF idsOf, ToSet
  <2>2. \A i, j \in 1 .. Len(q) : f[i] = f[j] => i = j
    BY <1>1 DEF distinct
  <2>3. \A x \in idsOf(q) : \E i \in 1 .. Len(q) : f[i] = x
    BY <1>1 DEF idsOf, ToSet
  <2> HIDE DEF f
  <2> QED BY <2>1, <2>2, <2>3 DEF Bijection, Injection, Surjection, IsInjective
<1>3. IsFiniteSet(1 .. Len(q)) /\ Cardinality(1 .. Len(q)) = Len(q)
  BY <1>1, FS_Interval
<1> HIDE DEF f
<1>4. ExistsBijection(1 .. Len(q), idsOf(q))
  BY <1>2 DEF ExistsBijection
<1> QED BY <1>3, <1>4, FS_Bijection

\* The same entries from the back.
LEMMA ReverseFacts ==
  ASSUME NEW q \in Seq(Entry), distinct(q)
  PROVE  Reverse(q) \in Seq(Entry) /\ distinct(Reverse(q)) /\ ToSet(Reverse(q)) = ToSet(q)
<1> DEFINE r == Reverse(q)
<1>1. Len(q) \in Nat /\ DOMAIN q = 1 .. Len(q) /\ \A i \in 1 .. Len(q) : q[i] \in Entry
  OBVIOUS
<1>2. \A i \in 1 .. Len(q) : Len(q) - i + 1 \in 1 .. Len(q)
  BY <1>1
<1>3. DOMAIN r = 1 .. Len(q) /\ \A i \in 1 .. Len(q) : r[i] = q[Len(q) - i + 1]
  BY DEF Reverse
<1>4. r \in Seq(Entry)
  <2>1. r \in [1 .. Len(q) -> Entry]
    <3>1. r = [i \in 1 .. Len(q) |-> q[Len(q) - i + 1]]
      BY DEF Reverse
    <3> HIDE DEF r
    <3> QED BY <1>1, <1>2, <3>1
  <2>2. [1 .. Len(q) -> Entry] \in {[1 .. n -> Entry] : n \in Nat}
    BY <1>1
  <2> HIDE DEF r
  <2> QED BY <2>1, <2>2, SeqDef, Zenon
<1> HIDE DEF r
<1>5. distinct(r)
  <2>1. ASSUME NEW i \in 1 .. Len(q), NEW j \in 1 .. Len(q), r[i].id = r[j].id PROVE i = j
    <3>1. Len(q) - i + 1 = Len(q) - j + 1
      BY <1>1, <1>2, <1>3, <2>1 DEF distinct
    <3> QED BY <1>1, <3>1
  <2> QED BY <1>3, <2>1 DEF distinct
<1>6. ToSet(r) = ToSet(q)
  <2>1. \A i \in 1 .. Len(q) : q[i] = r[Len(q) - i + 1]
    <3>1. \A i \in 1 .. Len(q) : Len(q) - (Len(q) - i + 1) + 1 = i
      BY <1>1
    <3> QED BY <1>2, <1>3, <3>1
  <2> QED BY <1>1, <1>2, <1>3, <2>1 DEF ToSet
<1> QED BY <1>4, <1>5, <1>6 DEF r

\* The victims of a put are evictable entries of the cache: enough of them to get below
\* the capacity, or all there are.
LEMMA VictimFacts ==
  ASSUME cache \in Seq(Entry), distinct(cache), NEW id
  PROVE  /\ victims(id) \in Seq(Entry) /\ distinct(victims(id))
         /\ \A v \in ToSet(victims(id)) : v \in ToSet(cache) /\ isEvictable(v)
         /\ id \in ids => victims(id) = << >>
         /\ id \notin ids =>
              \/ \A e \in ToSet(cache) : isEvictable(e) => e \in ToSet(victims(id))
              \/ Len(cache) - Len(victims(id)) < Capacity
<1> DEFINE S == {e \in ToSet(cache) : isEvictable(e)}
<1>1. candidates \in Seq(Entry) /\ distinct(candidates) /\ ToSet(candidates) = S
  <2>1. ToSet(cache) \cap S = S
    OBVIOUS
  <2>2. candidates = within(Reverse(cache), S)
    BY DEF candidates
  <2>3. /\ Reverse(cache) \in Seq(Entry) /\ distinct(Reverse(cache))
        /\ ToSet(Reverse(cache)) = ToSet(cache)
    BY ReverseFacts
  <2> HIDE DEF S
  <2>4. /\ within(Reverse(cache), S) \in Seq(Entry) /\ distinct(within(Reverse(cache), S))
        /\ ToSet(within(Reverse(cache), S)) = ToSet(Reverse(cache)) \cap S
    BY <2>3, ChosenEntries
  <2> QED BY <2>1, <2>2, <2>3, <2>4, Zenon
<1>2. excess \in Int /\ Len(candidates) \in Nat /\ Len(cache) \in Nat
  BY <1>1, CapacityAssumption DEF excess
<1>3. CASE id \in ids
  <2>1. victims(id) = << >>
    BY <1>3 DEF victims
  <2> QED BY <1>3, <2>1 DEF distinct, ToSet
<1>4. CASE id \notin ids /\ excess < Len(candidates)
  <2>1. victims(id) = SubSeq(candidates, 1, excess)
    BY <1>4 DEF victims, evicted
  <2> DEFINE r == SubSeq(candidates, 1, excess)
             k == IF excess < 1 THEN 0 ELSE excess
  <2>2. /\ r \in Seq(Entry) /\ Len(r) = k /\ DOMAIN r = 1 .. k
        /\ \A i \in 1 .. k : i \in DOMAIN candidates /\ r[i] = candidates[i]
    BY <1>1, <1>2, <1>4
  <2> HIDE DEF r, k
  <2>3. distinct(r) /\ ToSet(r) \subseteq ToSet(candidates)
    BY <1>1, <2>2 DEF distinct, ToSet
  <2>4. Len(cache) - k < Capacity
    BY <1>2, CapacityAssumption DEF k, excess
  <2> QED BY <1>1, <1>4, <2>1, <2>2, <2>3, <2>4 DEF r
<1>5. CASE id \notin ids /\ ~(excess < Len(candidates))
  <2>1. victims(id) = candidates
    BY <1>5 DEF victims, evicted
  <2> QED BY <1>1, <1>5, <2>1
<1> QED BY <1>3, <1>4, <1>5

-----------------------------------------------------------------------------
(* The invariant *)

CacheTypes ==
  /\ cache \in Seq(Entry) /\ content \in [Object -> Node]
  /\ held \subseteq Entry /\ live \subseteq Storage!Block \ {NoId} /\ lost \in Nat

\* Every object has one entry and one identifier.
ObjectsApart == \A x, y \in held \cup ToSet(cache) : x.obj = y.obj => x = y

\* The cache and the tree hold live nodes and lost ones, no deleted node.
Known == \A x \in held \cup ToSet(cache) : x.id \in live \cup {NoId}

\* A node can be saved over its old version.
SizesKept ==
  \A e \in ToSet(cache) : e.id # NoId => SizeOf[content[e.obj]] = SizeOf[stored[e.id]]

\* A lost node takes its place in the storage when it leaves the cache.
LostCounted(n) ==
  Cardinality(DOMAIN stored \ live) + (IF NoId \in ids THEN 1 ELSE 0) <= n

CacheInv ==
  /\ CacheTypes /\ distinct(cache)
  /\ ObjectsApart /\ Known /\ SizesKept /\ SingleCopy
  /\ Sound(storageNow) /\ live \subseteq DOMAIN stored /\ LostCounted(lost)

\* Where a live node is found.
CurrentFound ==
  /\ \A e \in ToSet(cache) : current(e.id) = content[e.obj]
  /\ \A id \in live : id \notin ids => current(id) = stored[id]

LEMMA CurrentNode == CacheInv => CurrentFound
<1> SUFFICES ASSUME CacheInv PROVE CurrentFound
  OBVIOUS
<1> USE DEF CacheInv, CacheTypes
<1>1. ASSUME NEW e \in ToSet(cache) PROVE current(e.id) = content[e.obj]
  <2>1. e.id \in ids
    BY DEF ids
  <2> DEFINE f == CHOOSE x \in ToSet(cache) : x.id = e.id
  <2>2. f \in ToSet(cache) /\ f.id = e.id
    OBVIOUS
  <2>3. f = e
    <3> HIDE DEF f
    <3> QED BY <2>2, DistinctFacts
  <2>4. current(e.id) = content[f.obj]
    BY <2>1 DEF current
  <2> QED BY <2>3, <2>4
<1>2. ASSUME NEW id \in live, id \notin ids PROVE current(id) = stored[id]
  <2>1. storageNow.stored = stored /\ storageNow.disk = disk
    BY DEF storageNow
  <2>2. Storage!loaded(disk, id) = stored[id]
    BY <2>1, OwnBlocks
  <2> QED BY <1>2, <2>2 DEF current
<1> QED BY <1>1, <1>2 DEF CurrentFound

-----------------------------------------------------------------------------
(* A put: the end of get, of create and of a create that found no room *)

\* The storage s is what is stored when the new object o, with the node n, is put in the
\* cache under id: the node is in s already, unless there was no room for it.
PutReady(id, n, s) ==
  /\ id \in Nat /\ n \in Node /\ Sound(s)
  /\ id # NoId => id \notin ids /\ n = s.stored[id] /\ \A h \in held : h.id # id
  /\ DOMAIN s.stored = DOMAIN stored \cup ({id} \ {NoId})
  /\ \A d \in live : s.stored[d] = stored[d]
  /\ DOMAIN s.stored \ (live \cup ({id} \ {NoId})) = DOMAIN stored \ live

Puts(id, o, n, s) ==
  /\ o \in Object \ inUse
  /\ content' = [content EXCEPT ![o] = n]
  /\ cache' = afterPut(id, o)
  /\ held' = held \cup {[id |-> id, obj |-> o]}
  /\ storageBecomes(saveAll(s, victims(id)))
  /\ live' = live \cup ({id} \ {NoId})

\* The variables are that storage.
LEMMA BecomesThat ==
  ASSUME NEW t \in StorageState, storageBecomes(t)
  PROVE  storageNow' = t
<1>1. PICK T, D, Q : t \in [table : T, disk : D, stored : Q]
  BY DEF StorageState
<1>2. t = [table |-> t.table, disk |-> t.disk, stored |-> t.stored]
  BY <1>1
<1> QED BY <1>2 DEF storageBecomes, storageNow

\* The entries after a put.
LEMMA PutEntries ==
  ASSUME CacheInv, NEW id \in Nat, NEW o \in Object, cache' = afterPut(id, o)
  PROVE  /\ cache' \in Seq(Entry) /\ distinct(cache')
         /\ ToSet(cache') = {[id |-> id, obj |-> o]}
              \cup {e \in ToSet(cache) : e.id # id /\ e \notin ToSet(victims(id))}
         /\ ids' = {id} \cup (ids \ idsOf(victims(id)))
         /\ id \notin ids => Len(cache') = Len(cache) - Len(victims(id)) + 1
<1> DEFINE new == [id |-> id, obj |-> o]
           V == victims(id)
           q == without(cache, {id} \cup idsOf(V))
<1>1. cache \in Seq(Entry) /\ distinct(cache)
  BY DEF CacheInv, CacheTypes
<1>2. /\ V \in Seq(Entry) /\ distinct(V)
      /\ \A v \in ToSet(V) : v \in ToSet(cache)
  BY <1>1, VictimFacts
<1>3. cache' = << new >> \o q
  BY DEF afterPut, idsOf
<1>4. new \in Entry /\ new.id = id
  BY DEF Entry
<1>5. ids = idsOf(cache) /\ ids' = idsOf(cache')
  BY DEF ids, idsOf
<1> HIDE DEF new, V
<1>6. /\ q \in Seq(Entry) /\ distinct(q)
      /\ ToSet(q) = {e \in ToSet(cache) : e.id \notin {id} \cup idsOf(V)}
      /\ idsOf(q) = ids \ ({id} \cup idsOf(V))
  BY <1>1, <1>5, WithoutFacts
<1> HIDE DEF q
<1>7. /\ cache' \in Seq(Entry) /\ distinct(cache')
      /\ ToSet(cache') = {new} \cup ToSet(q)
      /\ ids' = {id} \cup idsOf(q)
      /\ Len(cache') = Len(q) + 1
  BY <1>3, <1>4, <1>5, <1>6, FrontFacts
<1>8. \A e \in ToSet(cache) : e.id \in idsOf(V) <=> e \in ToSet(V)
  BY <1>1, <1>2, DistinctFacts DEF idsOf
<1>9. ASSUME id \notin ids PROVE Len(cache') = Len(cache) - Len(V) + 1
  <2>1. idsOf(V) \subseteq ids
    BY <1>2 DEF ids, idsOf
  <2>2. idsOf(q) = ids \ idsOf(V) /\ ids \cap idsOf(V) = idsOf(V)
    BY <1>6, <1>9, <2>1
  <2>3. /\ IsFiniteSet(ids) /\ Cardinality(ids) = Len(cache)
        /\ Cardinality(idsOf(V)) = Len(V)
        /\ Cardinality(idsOf(q)) = Len(q)
    BY <1>1, <1>2, <1>5, <1>6, CountIds
  <2>4. Cardinality(idsOf(q)) = Cardinality(ids) - Cardinality(ids \cap idsOf(V))
    BY <2>2, <2>3, FS_Difference
  <2>5. Len(q) = Len(cache) - Len(V)
    BY <2>2, <2>3, <2>4
  <2>6. Len(q) \in Nat /\ Len(cache) \in Nat /\ Len(V) \in Nat
    BY <1>1, <1>2, <1>6
  <2> QED BY <1>7, <2>5, <2>6
<1>10. ToSet(q) = {e \in ToSet(cache) : e.id # id /\ e \notin ToSet(V)}
  BY <1>6, <1>8
<1> QED BY <1>6, <1>7, <1>9, <1>10 DEF new, V

\* What is stored after a put: the victims as they were in memory, the rest as before.
LEMMA PutStorage ==
  ASSUME CacheInv, NEW id, NEW o, NEW n, NEW s, PutReady(id, n, s), Puts(id, o, n, s)
  PROVE  /\ Sound(storageNow') /\ DOMAIN s.stored \subseteq DOMAIN stored'
         /\ \A v \in ToSet(victims(id)) : v.id # NoId => stored'[v.id] = content[v.obj]
         /\ \A d \in DOMAIN s.stored : d \notin idsOf(victims(id)) => stored'[d] = s.stored[d]
         /\ \/ DOMAIN stored' = DOMAIN s.stored
            \/ /\ NoId \in idsOf(victims(id))
               /\ \E x \in Storage!Block : DOMAIN stored' = DOMAIN s.stored \cup {x}
<1> DEFINE V == victims(id)
           t == saveAll(s, V)
<1>1. cache \in Seq(Entry) /\ distinct(cache) /\ content \in [Object -> Node]
  BY DEF CacheInv, CacheTypes
<1>2. /\ V \in Seq(Entry) /\ distinct(V)
      /\ \A v \in ToSet(V) : v \in ToSet(cache)
  BY <1>1, VictimFacts
<1> HIDE DEF V
<1>3. ASSUME NEW i \in DOMAIN V, V[i].id # NoId
      PROVE  /\ V[i].id \in DOMAIN s.stored
             /\ SizeOf[content[V[i].obj]] = SizeOf[s.stored[V[i].id]]
  <2>1. V[i] \in ToSet(cache)
    BY <1>2 DEF ToSet
  <2>2. V[i].id \in live /\ SizeOf[content[V[i].obj]] = SizeOf[stored[V[i].id]]
    BY <1>3, <2>1 DEF CacheInv, Known, SizesKept
  <2>3. live \subseteq DOMAIN stored
    BY DEF CacheInv
  <2> QED BY <2>2, <2>3 DEF PutReady
<1>4. canSave(s, V) /\ Sound(s)
  BY <1>2, <1>3 DEF canSave, PutReady
<1>5. Saved(s, t, V, DOMAIN V)
  BY <1>1, <1>4, SaveAllSaved
<1>6. storageBecomes(t)
  BY DEF Puts, V
<1> HIDE DEF t
<1>7. Sound(t) /\ t \in StorageState
  BY <1>5 DEF Saved, Sound
<1>8. storageNow' = t /\ stored' = t.stored
  BY <1>6, <1>7, BecomesThat DEF storageBecomes
<1>9. \A d : (\A i \in DOMAIN V : V[i].id # d) <=> d \notin idsOf(V)
  BY DEF idsOf, ToSet
<1>10. \A v \in ToSet(V) : v.id # NoId => stored'[v.id] = content[v.obj]
  BY <1>5, <1>8 DEF Saved, ToSet
<1>11. \A d \in DOMAIN s.stored : d \notin idsOf(V) => stored'[d] = s.stored[d]
  BY <1>5, <1>8, <1>9 DEF Saved
<1>12. \/ DOMAIN stored' = DOMAIN s.stored
       \/ /\ NoId \in idsOf(V)
          /\ \E x \in Storage!Block : DOMAIN stored' = DOMAIN s.stored \cup {x}
  BY <1>5, <1>8, <1>9 DEF Saved
<1> QED BY <1>7, <1>8, <1>10, <1>11, <1>12 DEF V

\* The blocks are finitely many, and so are the stored nodes.
LEMMA StoredFinite ==
  ASSUME NEW D, D \subseteq Storage!Block
  PROVE  IsFiniteSet(D) /\ Cardinality(D) \in Nat
<1>1. 0 \in Int /\ NumBlocks - 1 \in Int
  BY StorageAssumption
<1>2. IsFiniteSet(Storage!Block)
  BY <1>1, FS_Interval DEF Storage!Block
<1>3. D \in SUBSET Storage!Block
  OBVIOUS
<1>4. IsFiniteSet(D)
  BY <1>2, <1>3, FS_Subset
<1> QED BY <1>4, FS_CardinalityType

\* At most one stored node more that is not live.
LEMMA CountOneMore ==
  ASSUME NEW D, NEW E, D \subseteq Storage!Block, E \subseteq Storage!Block,
         NEW x, E \subseteq D \cup {x}
  PROVE  /\ Cardinality(E) <= Cardinality(D) + 1
         /\ E \subseteq D => Cardinality(E) <= Cardinality(D)
<1>1. IsFiniteSet(D) /\ Cardinality(D) \in Nat /\ Cardinality(E) \in Nat
  BY StoredFinite
<1>2. /\ IsFiniteSet(D \cup {x})
      /\ Cardinality(D \cup {x}) = IF x \in D THEN Cardinality(D) ELSE Cardinality(D) + 1
  BY <1>1, FS_AddElement
<1>3. E \in SUBSET (D \cup {x}) /\ (E \subseteq D => E \in SUBSET D)
  OBVIOUS
<1>4. Cardinality(E) <= Cardinality(D \cup {x})
  BY <1>2, <1>3, FS_Subset
<1>5. E \subseteq D => Cardinality(E) <= Cardinality(D)
  BY <1>1, <1>3, FS_Subset
<1>6. Cardinality(E) <= Cardinality(D) + 1
  BY <1>1, <1>2, <1>4
<1> QED BY <1>5, <1>6

\* A put keeps the invariant: the evicted nodes are those that nobody holds, and what is
\* counted as lost is the node that found no room.
LEMMA PutKeeps ==
  ASSUME CacheInv, NEW id, NEW o, NEW n, NEW s, PutReady(id, n, s), Puts(id, o, n, s),
         lost' \in Nat, lost' >= lost + (IF id = NoId THEN 1 ELSE 0)
  PROVE  CacheInv'
<1> DEFINE new == [id |-> id, obj |-> o]
           V == victims(id)
<1>1. /\ id \in Nat /\ o \in Object \ inUse /\ n \in Node
      /\ content' = [content EXCEPT ![o] = n]
      /\ cache' = afterPut(id, o) /\ held' = held \cup {new}
      /\ live' = live \cup ({id} \ {NoId})
  BY DEF Puts, PutReady
<1>2. /\ cache \in Seq(Entry) /\ distinct(cache) /\ content \in [Object -> Node]
      /\ held \subseteq Entry /\ live \subseteq Storage!Block \ {NoId} /\ lost \in Nat
      /\ live \subseteq DOMAIN stored
  BY DEF CacheInv, CacheTypes
<1>3. new \in Entry /\ new.id = id /\ new.obj = o
  BY <1>1 DEF Entry
<1>4. /\ V \in Seq(Entry) /\ distinct(V)
      /\ \A v \in ToSet(V) : v \in ToSet(cache) /\ v.obj \notin heldObjects
      /\ id \in ids => V = << >>
  BY <1>2, VictimFacts DEF isEvictable
<1>5. /\ cache' \in Seq(Entry) /\ distinct(cache')
      /\ ToSet(cache') = {new} \cup {e \in ToSet(cache) : e.id # id /\ e \notin ToSet(V)}
      /\ ids' = {id} \cup (ids \ idsOf(V))
  BY <1>1, PutEntries
<1>6. /\ Sound(storageNow') /\ DOMAIN s.stored \subseteq DOMAIN stored'
      /\ \A v \in ToSet(V) : v.id # NoId => stored'[v.id] = content[v.obj]
      /\ \A d \in DOMAIN s.stored : d \notin idsOf(V) => stored'[d] = s.stored[d]
      /\ \/ DOMAIN stored' = DOMAIN s.stored
         \/ /\ NoId \in idsOf(V)
            /\ \E x \in Storage!Block : DOMAIN stored' = DOMAIN s.stored \cup {x}
  BY PutStorage, Zenon
<1>7. \A x \in held \cup ToSet(cache) : x.obj # o
  BY <1>1 DEF inUse, heldObjects
<1>8. ToSet(cache) \subseteq Entry
  BY <1>2, DistinctFacts
<1> HIDE DEF new, V
<1>9. CacheTypes'
  <2>1. content' \in [Object -> Node]
    BY <1>1, <1>2
  <2>2. held' \subseteq Entry
    BY <1>1, <1>2, <1>3
  <2>3. live' \subseteq Storage!Block \ {NoId}
    <3>1. id # NoId => id \in DOMAIN s.stored
      BY <1>1 DEF PutReady
    <3>2. DOMAIN s.stored \subseteq Storage!Block
      BY DEF PutReady, Sound
    <3> QED BY <1>1, <1>2, <3>1, <3>2
  <2> QED BY <1>5, <2>1, <2>2, <2>3 DEF CacheTypes
<1>10. ObjectsApart'
  BY <1>1, <1>3, <1>5, <1>7 DEF CacheInv, ObjectsApart
<1>11. Known'
  BY <1>1, <1>3, <1>5 DEF CacheInv, Known
<1>12. SizesKept'
  <2>1. ASSUME NEW e \in ToSet(cache'), e.id # NoId
        PROVE  SizeOf[content'[e.obj]] = SizeOf[stored'[e.id]]
    <3>1. CASE e = new
      <4>1. content'[e.obj] = n
        BY <1>1, <1>2, <1>3, <3>1
      <4>2. id \in DOMAIN s.stored /\ id \notin idsOf(V) /\ n = s.stored[id]
        BY <1>1, <1>3, <1>4, <2>1, <3>1 DEF PutReady, idsOf, ids
      <4> QED BY <1>3, <1>6, <3>1, <4>1, <4>2
    <3>2. CASE e # new
      <4>1. e \in ToSet(cache) /\ e.obj # o /\ e \notin ToSet(V)
        BY <1>5, <1>7, <3>2
      <4>2. content'[e.obj] = content[e.obj]
        BY <1>1, <1>2, <4>1
      <4>3. e.id \in live /\ e.id \in DOMAIN s.stored /\ s.stored[e.id] = stored[e.id]
        BY <1>2, <2>1, <4>1 DEF CacheInv, Known, PutReady
      <4>4. e.id \notin idsOf(V)
        BY <1>2, <1>4, <4>1, DistinctFacts DEF idsOf
      <4>5. SizeOf[content[e.obj]] = SizeOf[stored[e.id]]
        BY <2>1, <4>1 DEF CacheInv, SizesKept
      <4> QED BY <1>6, <4>2, <4>3, <4>4, <4>5
    <3> QED BY <3>1, <3>2
  <2> QED BY <2>1 DEF SizesKept
<1>13. SingleCopy'
  <2>1. ASSUME NEW h \in held', h.id \in live' PROVE h \in ToSet(cache')
    <3>1. CASE h = new
      BY <1>5, <3>1
    <3>2. CASE h # new
      <4>1. h \in held /\ h.id # NoId
        BY <1>1, <1>2, <2>1, <3>2
      <4>2. h.id # id /\ h.id \in live
        BY <1>1, <2>1, <4>1 DEF PutReady
      <4>3. h \in ToSet(cache) /\ h.obj \in heldObjects
        BY <4>1, <4>2 DEF CacheInv, SingleCopy, heldObjects
      <4> QED BY <1>4, <1>5, <4>2, <4>3
    <3> QED BY <3>1, <3>2
  <2> QED BY <2>1 DEF SingleCopy
<1>14. live' \subseteq DOMAIN stored'
  BY <1>1, <1>2, <1>6 DEF PutReady
<1>15. LostCounted(lost)'
  <2> DEFINE D == DOMAIN stored \ live
             E == DOMAIN stored' \ live'
  <2>1. D \subseteq Storage!Block /\ E \subseteq Storage!Block
    BY <1>6 DEF CacheInv, Sound, storageNow
  <2>2. DOMAIN s.stored \ live' = D
    BY <1>1 DEF PutReady
  <2>3. /\ Cardinality(D) + (IF NoId \in ids THEN 1 ELSE 0) <= lost
        /\ Cardinality(D) \in Nat /\ Cardinality(E) \in Nat
    BY <2>1, StoredFinite DEF CacheInv, LostCounted
  <2>4. \/ Cardinality(E) <= Cardinality(D)
        \/ NoId \in idsOf(V) /\ Cardinality(E) <= Cardinality(D) + 1
    <3>1. CASE DOMAIN stored' = DOMAIN s.stored
      BY <2>1, <2>2, <3>1, CountOneMore
    <3>2. CASE NoId \in idsOf(V) /\ \E x \in Storage!Block : DOMAIN stored' = DOMAIN s.stored \cup {x}
      <4>1. PICK x : DOMAIN stored' = DOMAIN s.stored \cup {x}
        BY <3>2
      <4>2. E \subseteq D \cup {x}
        BY <2>2, <4>1
      <4> HIDE DEF D, E
      <4> QED BY <2>1, <3>2, <4>2, CountOneMore
    <3> QED BY <1>6, <3>1, <3>2
  <2> HIDE DEF D, E
  <2>5. NoId \in idsOf(V) => NoId \in ids /\ id # NoId
    BY <1>4 DEF idsOf, ids, ToSet
  <2>6. Cardinality(E) + (IF NoId \in ids' THEN 1 ELSE 0) <= lost'
    <3>1. CASE id = NoId
      <4>1. Cardinality(E) <= Cardinality(D)
        BY <2>4, <2>5, <3>1
      <4>2. Cardinality(D) <= lost
        BY <1>2, <2>3
      <4> QED BY <1>2, <2>3, <3>1, <4>1, <4>2
    <3>2. CASE id # NoId
      <4>1. NoId \in ids' <=> NoId \in ids /\ NoId \notin idsOf(V)
        BY <1>5, <3>2
      <4> QED BY <1>2, <2>3, <2>4, <2>5, <3>2, <4>1
    <3> QED BY <3>1, <3>2
  <2> QED BY <2>6 DEF LostCounted, E
<1> QED BY <1>5, <1>6, <1>9, <1>10, <1>11, <1>12, <1>13, <1>14, <1>15 DEF CacheInv

\* The same after a step.
LEMMA CurrentNodeNext == CacheInv' => CurrentFound'
BY CurrentNode, PTL

\* After a put the new node reads as it is, and the others as before.
LEMMA PutMemory ==
  ASSUME CacheInv, CacheInv', NEW id, NEW o, NEW n, NEW s, PutReady(id, n, s), Puts(id, o, n, s)
  PROVE  /\ id # NoId => current(id)' = n
         /\ \A d \in live : d # id => current(d)' = current(d)
<1> DEFINE new == [id |-> id, obj |-> o]
           V == victims(id)
<1>1. /\ id \in Nat /\ o \in Object \ inUse /\ n \in Node
      /\ content' = [content EXCEPT ![o] = n]
      /\ cache' = afterPut(id, o)
      /\ live' = live \cup ({id} \ {NoId})
  BY DEF Puts, PutReady
<1>2. /\ cache \in Seq(Entry) /\ distinct(cache) /\ content \in [Object -> Node]
      /\ live \subseteq Storage!Block \ {NoId} /\ live \subseteq DOMAIN stored
      /\ Sound(storageNow)
  BY DEF CacheInv, CacheTypes
<1>3. /\ cache' \in Seq(Entry) /\ distinct(cache') /\ Sound(storageNow)'
      /\ live' \subseteq DOMAIN stored'
  BY DEF CacheInv, CacheTypes
<1>4. /\ \A e \in ToSet(cache) : current(e.id) = content[e.obj]
      /\ \A d \in live : d \notin ids => current(d) = stored[d]
  BY CurrentNode DEF CurrentFound
<1>5. /\ \A e \in ToSet(cache') : current(e.id)' = content'[e.obj]
      /\ \A d \in live' : d \notin ids' => current(d)' = stored'[d]
  BY CurrentNodeNext DEF CurrentFound
<1>6. /\ Sound(storageNow') /\ DOMAIN s.stored \subseteq DOMAIN stored'
      /\ \A v \in ToSet(V) : v.id # NoId => stored'[v.id] = content[v.obj]
      /\ \A d \in DOMAIN s.stored : d \notin idsOf(V) => stored'[d] = s.stored[d]
      /\ \/ DOMAIN stored' = DOMAIN s.stored
         \/ /\ NoId \in idsOf(V)
            /\ \E x \in Storage!Block : DOMAIN stored' = DOMAIN s.stored \cup {x}
  BY PutStorage, Zenon
<1>7. /\ V \in Seq(Entry) /\ distinct(V)
      /\ \A v \in ToSet(V) : v \in ToSet(cache)
      /\ id \in ids => V = << >>
  BY <1>2, VictimFacts
<1>8. /\ ToSet(cache') = {new} \cup {e \in ToSet(cache) : e.id # id /\ e \notin ToSet(V)}
      /\ ids' = {id} \cup (ids \ idsOf(V))
  BY <1>1, PutEntries
<1>9. new.id = id /\ new.obj = o
  OBVIOUS
<1> HIDE DEF new, V
<1>10. ASSUME id # NoId PROVE current(id)' = n
  <2>1. current(id)' = content'[o]
    BY <1>5, <1>8, <1>9
  <2> QED BY <1>1, <1>2, <2>1
<1>11. ASSUME NEW d \in live, d # id PROVE current(d)' = current(d)
  <2>1. d \in live' /\ d # NoId /\ d \in DOMAIN s.stored /\ s.stored[d] = stored[d]
    BY <1>1, <1>2, <1>11 DEF PutReady
  <2>2. CASE d \in idsOf(V)
    <3>1. PICK v \in ToSet(V) : v.id = d
      BY <2>2 DEF idsOf
    <3>2. current(d) = content[v.obj]
      BY <1>4, <1>7, <3>1
    <3>3. d \notin ids' /\ stored'[d] = content[v.obj]
      BY <1>6, <1>8, <1>11, <2>1, <2>2, <3>1
    <3> QED BY <1>5, <2>1, <3>2, <3>3
  <2>3. CASE d \in ids /\ d \notin idsOf(V)
    <3>1. PICK e \in ToSet(cache) : e.id = d
      BY <2>3 DEF ids
    <3>2. e \in ToSet(cache')
      BY <1>8, <1>11, <2>3, <3>1 DEF idsOf
    <3>3. e.obj # o /\ content'[e.obj] = content[e.obj]
      BY <1>1, <1>2, <3>1 DEF inUse
    <3> QED BY <1>4, <1>5, <3>1, <3>2, <3>3
  <2>4. CASE d \notin ids /\ d \notin idsOf(V)
    <3>1. d \notin ids' /\ stored'[d] = stored[d]
      BY <1>6, <1>8, <1>11, <2>1, <2>4
    <3> QED BY <1>4, <1>5, <2>1, <2>4, <3>1
  <2> QED BY <2>2, <2>3, <2>4
<1> QED BY <1>10, <1>11

-----------------------------------------------------------------------------
(* The steps *)

\* The live nodes are the same, and read as before.
SameMemory == live' = live /\ \A d \in live : current(d)' = current(d)

\* Parts of the invariant.
LEMMA InvFacts ==
  ASSUME CacheInv
  PROVE  /\ cache \in Seq(Entry) /\ distinct(cache) /\ content \in [Object -> Node]
         /\ held \subseteq Entry /\ live \subseteq Storage!Block \ {NoId} /\ lost \in Nat
         /\ Sound(storageNow) /\ live \subseteq DOMAIN stored
         /\ ToSet(cache) \subseteq Entry /\ ids = idsOf(cache)
         /\ \A e, f \in ToSet(cache) : e.id = f.id => e = f
         /\ CurrentFound
BY DistinctFacts, CurrentNode DEF CacheInv, CacheTypes, ids, idsOf

\* A hit moves the entry to the front and changes no node.
LEMMA HitKeeps ==
  ASSUME CacheInv, NEW id \in live, Hit(id)
  PROVE  CacheInv' /\ SameMemory /\ ids' = ids
<1>1. PICK e \in ToSet(cache) :
        e.id = id /\ cache' = << e >> \o without(cache, {id}) /\ held' = held \cup {e}
  BY Zenon DEF Hit, take
<1>2. UNCHANGED <<table, disk, stored, content, live, lost>>
  BY DEF Hit, storage
<1>3. /\ cache \in Seq(Entry) /\ distinct(cache) /\ content \in [Object -> Node]
      /\ held \subseteq Entry /\ live \subseteq Storage!Block \ {NoId}
      /\ ToSet(cache) \subseteq Entry /\ ids = idsOf(cache)
      /\ \A f, g \in ToSet(cache) : f.id = g.id => f = g
      /\ CurrentFound
  BY InvFacts
<1> DEFINE q == without(cache, {id})
<1>4. /\ q \in Seq(Entry) /\ distinct(q)
      /\ ToSet(q) = {f \in ToSet(cache) : f.id \notin {id}}
      /\ idsOf(q) = idsOf(cache) \ {id}
  BY <1>3, WithoutFacts
<1>5. e.id \notin idsOf(q) /\ e \in Entry /\ id \in idsOf(cache)
  BY <1>1, <1>3, <1>4 DEF idsOf
<1> HIDE DEF q
<1>6. /\ cache' \in Seq(Entry) /\ distinct(cache')
      /\ ToSet(cache') = {e} \cup ToSet(q) /\ idsOf(cache') = {e.id} \cup idsOf(q)
  BY <1>1, <1>4, <1>5, FrontFacts DEF q
<1>7. ToSet(cache') = ToSet(cache)
  <2>1. \A f \in ToSet(cache) : f.id = id => f = e
    BY <1>1, <1>3
  <2> QED BY <1>4, <1>6, <2>1
<1>8. ids' = ids
  BY <1>7 DEF ids
<1>9. CacheTypes' /\ distinct(cache')
  BY <1>1, <1>2, <1>3, <1>5, <1>6 DEF CacheInv, CacheTypes
<1>10. ObjectsApart' /\ Known' /\ SizesKept' /\ SingleCopy'
  <2>1. ObjectsApart' /\ Known'
    <3>1. held' \cup ToSet(cache') = held \cup ToSet(cache)
      BY <1>1, <1>7
    <3> QED BY <1>2, <3>1 DEF CacheInv, ObjectsApart, Known
  <2>2. SizesKept' /\ SingleCopy'
    BY <1>1, <1>2, <1>7 DEF CacheInv, SizesKept, SingleCopy
  <2> QED BY <2>1, <2>2
<1>11. Sound(storageNow)' /\ (live \subseteq DOMAIN stored)' /\ LostCounted(lost)'
  <2>1. storageNow' = storageNow
    BY <1>2 DEF storageNow
  <2> QED BY <1>2, <1>8, <2>1 DEF CacheInv, LostCounted
<1>12. CacheInv'
  BY <1>9, <1>10, <1>11 DEF CacheInv
<1>13. SameMemory
  <2>1. CurrentFound'
    BY <1>12, CurrentNodeNext
  <2>2. ASSUME NEW d \in live PROVE current(d)' = current(d)
    <3>1. CASE d \in ids
      <4>1. PICK f \in ToSet(cache) : f.id = d
        BY <3>1 DEF ids
      <4>2. current(d) = content[f.obj] /\ current(d)' = content'[f.obj]
        BY <1>3, <1>7, <2>1, <4>1 DEF CurrentFound
      <4> QED BY <1>2, <4>2
    <3>2. CASE d \notin ids
      BY <1>2, <1>3, <1>8, <2>1, <3>2 DEF CurrentFound
    <3> QED BY <3>1, <3>2
  <2> QED BY <1>2, <2>2 DEF SameMemory
<1> QED BY <1>8, <1>12, <1>13

\* A miss puts the node as it is stored.
LEMMA MissPuts ==
  ASSUME CacheInv, NEW id \in live, Miss(id)
  PROVE  \E o : /\ PutReady(id, stored[id], storageNow) /\ Puts(id, o, stored[id], storageNow)
                /\ live' = live /\ lost' = lost /\ id \notin ids
<1>1. /\ cache \in Seq(Entry) /\ live \subseteq Storage!Block \ {NoId}
      /\ Sound(storageNow) /\ live \subseteq DOMAIN stored
  BY InvFacts
<1>2. storageNow.stored = stored /\ storageNow.disk = disk
  BY DEF storageNow
<1>3. id \in Nat \ {NoId} /\ stored[id] \in Node /\ Storage!loaded(disk, id) = stored[id]
  BY <1>1, <1>2, OwnBlocks
<1>4. id \notin ids /\ live' = live /\ lost' = lost
  BY DEF Miss
<1>5. \A h \in held : h.id # id
  BY <1>4 DEF CacheInv, SingleCopy, ids
<1>6. PutReady(id, stored[id], storageNow)
  BY <1>1, <1>2, <1>3, <1>4, <1>5 DEF PutReady
<1>7. PICK o : Puts(id, o, stored[id], storageNow)
  <2>1. PICK o \in Object :
          /\ isNewObject(o)
          /\ content' = [content EXCEPT ![o] = stored[id]]
          /\ cache' = afterPut(id, o)
          /\ held' = held \cup {[id |-> id, obj |-> o]}
    BY <1>3 DEF Miss, take
  <2>2. storageBecomes(saveAll(storageNow, victims(id)))
    BY DEF Miss
  <2>3. o \in Object \ inUse
    BY <2>1 DEF isNewObject
  <2>4. live' = live \cup ({id} \ {NoId})
    BY <1>4
  <2> QED BY <2>1, <2>2, <2>3, <2>4 DEF Puts
<1> QED BY <1>4, <1>6, <1>7

\* create puts the node that it has stored in new blocks.
LEMMA CreatePuts ==
  ASSUME CacheInv, NEW n \in Node, Create(n)
  PROVE  \E id, o, s : /\ PutReady(id, n, s) /\ Puts(id, o, n, s)
                       /\ id \in Storage!Block \ {NoId} /\ id \notin live
                       /\ live' = live \cup {id} /\ lost' = lost /\ id \notin ids
<1>1. PICK id \in Storage!Block :
        /\ Storage!isFirstFit(table, id, Storage!blocksNeeded(n))
        /\ Created(id, n)
        /\ live' = live \cup {id}
  BY DEF Create
<1>2. lost' = lost
  BY DEF Create
<1>3. Sound(storageNow) /\ live \subseteq DOMAIN stored /\ live \subseteq Storage!Block \ {NoId}
  BY InvFacts
<1>4. storageNow.stored = stored /\ storageNow.table = table /\ storageNow \in StorageState
  BY <1>3 DEF storageNow, Sound
<1> DEFINE s == save(storageNow, NoId, n)
<1>5. s = saveAt(storageNow, id, n)
  BY <1>1, <1>4, SaveIsSaveAt
<1> HIDE DEF s
<1>6. id \notin DOMAIN stored /\ id # NoId /\ Sound(s)
  BY <1>1, <1>3, <1>4, <1>5, PutNewSound
<1>7. id \in Nat
  BY DEF Storage!Block
<1>8. /\ DOMAIN s.stored = DOMAIN stored \cup {id}
      /\ s.stored[id] = n
      /\ \A d \in DOMAIN stored : d # id => s.stored[d] = stored[d]
  BY <1>4, <1>5, <1>7, PutFields
<1>9. id \notin live /\ id \notin ids /\ \A h \in held : h.id # id
  BY <1>3, <1>6 DEF CacheInv, Known, ids
<1>10. PutReady(id, n, s)
  BY <1>3, <1>6, <1>7, <1>8, <1>9 DEF PutReady
<1>11. PICK o : Puts(id, o, n, s)
  <2>1. PICK o \in Object :
          /\ isNewObject(o)
          /\ content' = [content EXCEPT ![o] = n]
          /\ cache' = afterPut(id, o)
          /\ held' = held \cup {[id |-> id, obj |-> o]}
    BY <1>1 DEF Created, take
  <2>2. storageBecomes(saveAll(s, victims(id)))
    BY <1>1 DEF Created, s
  <2>3. o \in Object \ inUse
    BY <2>1 DEF isNewObject
  <2>4. live' = live \cup ({id} \ {NoId})
    BY <1>1, <1>6
  <2> QED BY <2>1, <2>2, <2>3, <2>4 DEF Puts
<1> QED BY <1>1, <1>2, <1>6, <1>9, <1>10, <1>11

\* A create that finds no room puts a node that is stored nowhere.
LEMMA CreateFailsPuts ==
  ASSUME CacheInv, NEW n \in Node, CreateFails(n)
  PROVE  \E o : /\ PutReady(NoId, n, storageNow) /\ Puts(NoId, o, n, storageNow)
                /\ live' = live /\ lost' = lost + 1
<1>1. live' = live /\ lost' = lost + 1 /\ Created(NoId, n)
  BY DEF CreateFails
<1>2. Sound(storageNow) /\ storageNow.stored = stored /\ storageNow.table = table
  BY InvFacts DEF storageNow
<1>3. save(storageNow, NoId, n) = storageNow
  BY <1>2, SaveIsSaveAt DEF CreateFails
<1>4. PutReady(NoId, n, storageNow)
  BY <1>2 DEF PutReady, NoId
<1>5. PICK o : Puts(NoId, o, n, storageNow)
  <2>1. PICK o \in Object :
          /\ isNewObject(o)
          /\ content' = [content EXCEPT ![o] = n]
          /\ cache' = afterPut(NoId, o)
          /\ held' = held \cup {[id |-> NoId, obj |-> o]}
    BY <1>1 DEF Created, take
  <2>2. storageBecomes(saveAll(storageNow, victims(NoId)))
    BY <1>1, <1>3 DEF Created
  <2>3. o \in Object \ inUse
    BY <2>1 DEF isNewObject
  <2>4. live' = live \cup ({NoId} \ {NoId})
    BY <1>1
  <2> QED BY <2>1, <2>2, <2>3, <2>4 DEF Puts
<1> QED BY <1>1, <1>4, <1>5

\* The same cached nodes, and the same stored ones, read the same.
LEMMA SameReads ==
  ASSUME CacheInv, CacheInv', live' = live, ToSet(cache') = ToSet(cache), stored' = stored,
         \A e \in ToSet(cache) : e.id \in live => content'[e.obj] = content[e.obj]
  PROVE  SameMemory
<1>1. CurrentFound /\ CurrentFound' /\ ids' = ids
  BY CurrentNode, CurrentNodeNext DEF ids
<1>2. ASSUME NEW d \in live PROVE current(d)' = current(d)
  <2>1. CASE d \in ids
    <3>1. PICK e \in ToSet(cache) : e.id = d
      BY <2>1 DEF ids
    <3>2. current(d) = content[e.obj] /\ current(d)' = content'[e.obj]
      BY <1>1, <3>1 DEF CurrentFound
    <3> QED BY <3>1, <3>2
  <2>2. CASE d \notin ids
    BY <1>1, <2>2 DEF CurrentFound
  <2> QED BY <2>1, <2>2
<1> QED BY <1>2 DEF SameMemory

\* A write through a handle reaches the one copy of its node, and no other node.
LEMMA WriteKeeps ==
  ASSUME CacheInv, NEW h \in held, NEW n \in Node, Write(h, n)
  PROVE  /\ CacheInv' /\ ids' = ids /\ live' = live
         /\ h.id \notin live => SameMemory
         /\ h.id \in live => current(h.id)' = n
         /\ \A d \in live : d # h.id => current(d)' = current(d)
<1>1. /\ SizeOf[n] = SizeOf[content[h.obj]]
      /\ content' = [content EXCEPT ![h.obj] = n]
      /\ table' = table /\ disk' = disk /\ stored' = stored
      /\ cache' = cache /\ held' = held /\ live' = live /\ lost' = lost
  BY DEF Write, storage
<1>2. /\ content \in [Object -> Node] /\ held \subseteq Entry
      /\ ToSet(cache) \subseteq Entry /\ CurrentFound
  BY InvFacts
<1>3. h.obj \in Object
  BY <1>2 DEF Entry
<1>4. content' \in [Object -> Node] /\ content'[h.obj] = n
  BY <1>1, <1>2, <1>3
<1>5. \A e \in ToSet(cache) : e # h => content'[e.obj] = content[e.obj]
  <2>1. \A e \in ToSet(cache) : e # h => e.obj # h.obj
    BY DEF CacheInv, ObjectsApart
  <2>2. \A e \in ToSet(cache) : e.obj \in Object
    BY <1>2 DEF Entry
  <2> QED BY <1>1, <1>2, <2>1, <2>2
<1>6. SizesKept'
  <2>1. ASSUME NEW e \in ToSet(cache), e.id # NoId
        PROVE  SizeOf[content'[e.obj]] = SizeOf[stored[e.id]]
    <3>1. SizeOf[content[e.obj]] = SizeOf[stored[e.id]]
      BY <2>1 DEF CacheInv, SizesKept
    <3> QED BY <1>1, <1>4, <1>5, <3>1
  <2> QED BY <1>1, <2>1 DEF SizesKept
<1>7. ids' = ids /\ storageNow' = storageNow
  BY <1>1 DEF ids, storageNow
<1>8. CacheInv'
  <2>1. CacheTypes' /\ distinct(cache)' /\ ObjectsApart' /\ Known' /\ SingleCopy'
    BY <1>1, <1>4 DEF CacheInv, CacheTypes, ObjectsApart, Known, SingleCopy
  <2>2. Sound(storageNow)' /\ (live \subseteq DOMAIN stored)' /\ LostCounted(lost)'
    BY <1>1, <1>7 DEF CacheInv, LostCounted
  <2> QED BY <1>6, <2>1, <2>2 DEF CacheInv
<1>9. CurrentFound'
  BY <1>8, CurrentNodeNext
<1>10. h.id \in live => h \in ToSet(cache)
  BY DEF CacheInv, SingleCopy
<1>11. h.id \in live => current(h.id)' = n
  BY <1>1, <1>4, <1>9, <1>10 DEF CurrentFound
<1>12. ASSUME NEW d \in live, d # h.id PROVE current(d)' = current(d)
  <2>1. CASE d \in ids
    <3>1. PICK e \in ToSet(cache) : e.id = d
      BY <2>1 DEF ids
    <3>2. content'[e.obj] = content[e.obj]
      BY <1>5, <1>12, <3>1
    <3>3. current(d) = content[e.obj] /\ current(d)' = content'[e.obj]
      BY <1>1, <1>2, <1>9, <3>1 DEF CurrentFound
    <3> QED BY <3>2, <3>3
  <2>2. CASE d \notin ids
    BY <1>1, <1>2, <1>7, <1>9, <2>2 DEF CurrentFound
  <2> QED BY <2>1, <2>2
<1>13. h.id \notin live => SameMemory
  BY <1>1, <1>12 DEF SameMemory
<1> QED BY <1>1, <1>7, <1>8, <1>11, <1>12, <1>13

\* Dropping a pointer, or nothing, changes no node.
LEMMA ReleaseKeeps ==
  ASSUME CacheInv, held' \subseteq held,
         UNCHANGED <<storage, cache, content, live, lost>>
  PROVE  CacheInv' /\ SameMemory /\ ids' = ids
<1>1. /\ table' = table /\ disk' = disk /\ stored' = stored
      /\ cache' = cache /\ content' = content /\ live' = live /\ lost' = lost
  BY DEF storage
<1>2. ids' = ids /\ storageNow' = storageNow
  BY <1>1 DEF ids, storageNow
<1>3. CacheTypes' /\ distinct(cache)' /\ ObjectsApart' /\ Known' /\ SizesKept' /\ SingleCopy'
  BY <1>1 DEF CacheInv, CacheTypes, ObjectsApart, Known, SizesKept, SingleCopy
<1>4. Sound(storageNow)' /\ (live \subseteq DOMAIN stored)' /\ LostCounted(lost)'
  BY <1>1, <1>2 DEF CacheInv, LostCounted
<1>5. CacheInv'
  BY <1>3, <1>4 DEF CacheInv
<1> QED BY <1>1, <1>2, <1>5, SameReads

\* deleteNode frees the blocks of the deleted node and no other.
LEMMA RemoveSound ==
  ASSUME NEW s, Sound(s), NEW id \in DOMAIN s.stored, NEW n \in Node,
         SizeOf[n] = SizeOf[s.stored[id]],
         NEW r, r = [table |-> r.table, disk |-> r.disk, stored |-> r.stored],
         r.table = s.table \ Storage!freed(id, n), r.disk = s.disk,
         r.stored = [i \in DOMAIN s.stored \ {id} |-> s.stored[i]]
  PROVE  Sound(r)
<1>1. /\ r.table = s.table \ Storage!freed(id, n) /\ r.disk = s.disk
      /\ DOMAIN r.stored = DOMAIN s.stored \ {id}
      /\ \A i \in DOMAIN r.stored : r.stored[i] = s.stored[i]
  OBVIOUS
<1>2. Storage!freed(id, n) = blocks(s, id)
  BY OwnBlocks, NeedsBlocks DEF Storage!freed, blocks
<1>3. \A i \in DOMAIN r.stored : blocks(r, i) = blocks(s, i)
  BY <1>1 DEF blocks
<1>4. r \in StorageState
  <2>1. PICK D \in SUBSET Nat : s.stored \in [D -> Node]
    BY DEF Sound, StorageState
  <2>2. r.stored \in [D \ {id} -> Node]
    BY <2>1
  <2>3. s.table \in SUBSET Int /\ s.disk \in [Storage!Block -> Storage!Piece]
    BY DEF Sound, StorageState
  <2>4. r.table \in SUBSET Int /\ r.disk \in [Storage!Block -> Storage!Piece]
    BY <1>1, <2>3
  <2>5. r.stored \in UNION {[A -> Node] : A \in SUBSET Nat}
    BY <2>1, <2>2
  <2>6. r = [table |-> r.table, disk |-> r.disk, stored |-> r.stored]
    OBVIOUS
  <2> QED BY <2>4, <2>5, <2>6 DEF StorageState
<1>5. \A i \in DOMAIN r.stored : blocks(s, i) \cap blocks(s, id) = {}
  BY <1>1 DEF Sound
<1>6. r.table = Storage!Reserved \cup UNION {blocks(r, i) : i \in DOMAIN r.stored}
  <2>1. UNION {blocks(s, i) : i \in DOMAIN s.stored}
        = blocks(s, id) \cup UNION {blocks(r, i) : i \in DOMAIN r.stored}
    <3>1. \A i \in DOMAIN s.stored : i = id \/ i \in DOMAIN r.stored
      BY <1>1
    <3>2. \A i \in DOMAIN r.stored : i \in DOMAIN s.stored
      BY <1>1
    <3>3. \A x \in UNION {blocks(s, i) : i \in DOMAIN s.stored} :
            x \in blocks(s, id) \cup UNION {blocks(r, i) : i \in DOMAIN r.stored}
      BY <1>3, <3>1
    <3>4. \A x \in blocks(s, id) \cup UNION {blocks(r, i) : i \in DOMAIN r.stored} :
            x \in UNION {blocks(s, i) : i \in DOMAIN s.stored}
      BY <1>3, <3>2
    <3> QED BY <3>3, <3>4
  <2>2. blocks(s, id) \cap Storage!Reserved = {}
    BY DEF Sound
  <2>3. blocks(s, id) \cap UNION {blocks(r, i) : i \in DOMAIN r.stored} = {}
    BY <1>3, <1>5
  <2>4. s.table = Storage!Reserved \cup UNION {blocks(s, i) : i \in DOMAIN s.stored}
    BY DEF Sound
  <2> DEFINE R == UNION {blocks(r, i) : i \in DOMAIN r.stored}
             A == UNION {blocks(s, i) : i \in DOMAIN s.stored}
             B == blocks(s, id)
  <2>5. r.table = s.table \ B /\ s.table = Storage!Reserved \cup A
    BY <1>1, <1>2, <2>4
  <2>6. A = B \cup R /\ B \cap Storage!Reserved = {} /\ B \cap R = {}
    BY <2>1, <2>2, <2>3
  <2> HIDE DEF A, B, R
  <2>7. r.table = Storage!Reserved \cup R
    BY ONLY <2>5, <2>6, Zenon
  <2> QED BY <2>7 DEF R
<1>7. /\ r.table \subseteq Storage!Block /\ DOMAIN r.stored \subseteq Storage!Block
      /\ \A i \in DOMAIN r.stored :
           /\ blocks(r, i) \subseteq Storage!Block \ Storage!Reserved
           /\ \A b \in blocks(r, i) : r.disk[b] = [node |-> r.stored[i], part |-> b - i]
      /\ \A i, j \in DOMAIN r.stored : i # j => blocks(r, i) \cap blocks(r, j) = {}
  <2>1. r.table \subseteq Storage!Block /\ DOMAIN r.stored \subseteq Storage!Block
    BY <1>1 DEF Sound
  <2>2. ASSUME NEW i \in DOMAIN r.stored
        PROVE  /\ blocks(r, i) \subseteq Storage!Block \ Storage!Reserved
               /\ \A b \in blocks(r, i) : r.disk[b] = [node |-> r.stored[i], part |-> b - i]
    <3>1. /\ i \in DOMAIN s.stored /\ blocks(r, i) = blocks(s, i)
          /\ r.stored[i] = s.stored[i] /\ r.disk = s.disk
      BY <1>1, <1>3
    <3>2. /\ blocks(s, i) \subseteq Storage!Block \ Storage!Reserved
          /\ \A b \in blocks(s, i) : s.disk[b] = [node |-> s.stored[i], part |-> b - i]
      BY <3>1 DEF Sound
    <3> QED BY <3>1, <3>2, Zenon
  <2>3. \A i, j \in DOMAIN r.stored : i # j => blocks(r, i) \cap blocks(r, j) = {}
    <3>1. \A i, j \in DOMAIN s.stored : i # j => blocks(s, i) \cap blocks(s, j) = {}
      BY DEF Sound
    <3> QED BY <1>1, <1>3, <3>1
  <2> QED BY <2>1, <2>2, <2>3
<1> QED BY <1>4, <1>6, <1>7 DEF Sound

\* A deleted node is gone from the cache, the storage and the memory.
LEMMA DeleteKeeps ==
  ASSUME CacheInv, NEW h \in held, Delete(h)
  PROVE  /\ CacheInv' /\ ids' \subseteq ids
         /\ h.id \in live /\ live' = live \ {h.id}
         /\ \A d \in live' : current(d)' = current(d)
<1> DEFINE id == h.id
           n == content[h.obj]
<1>1. /\ id # NoId
      /\ cache' = without(cache, {id})
      /\ live' = live \ {id}
      /\ held' = {g \in held : g.id # id}
      /\ content' = content /\ lost' = lost
  BY DEF Delete
<1>2. /\ table' = table \ Storage!freed(id, n) /\ disk' = disk
      /\ stored' = [i \in DOMAIN stored \ {id} |-> stored[i]]
  BY DEF Delete, freeBlocks
<1>3. /\ cache \in Seq(Entry) /\ distinct(cache) /\ content \in [Object -> Node]
      /\ held \subseteq Entry /\ live \subseteq Storage!Block \ {NoId} /\ lost \in Nat
      /\ Sound(storageNow) /\ live \subseteq DOMAIN stored
      /\ ToSet(cache) \subseteq Entry /\ ids = idsOf(cache)
      /\ CurrentFound
  BY InvFacts
<1>4. id \in live /\ h \in ToSet(cache) /\ h.obj \in Object
  BY <1>1, <1>3 DEF CacheInv, Known, SingleCopy, Entry
<1>5. n \in Node /\ SizeOf[n] = SizeOf[stored[id]]
  BY <1>1, <1>3, <1>4 DEF CacheInv, SizesKept
<1>6. /\ storageNow.stored = stored /\ storageNow.table = table /\ storageNow.disk = disk
      /\ storageNow' = [table |-> table', disk |-> disk', stored |-> stored']
  BY DEF storageNow
<1> HIDE DEF id, n
<1>7. Sound(storageNow')
  <2> DEFINE r == storageNow'
             s == storageNow
  <2>1. /\ r = [table |-> r.table, disk |-> r.disk, stored |-> r.stored]
        /\ r.table = s.table \ Storage!freed(id, n) /\ r.disk = s.disk
        /\ r.stored = [i \in DOMAIN s.stored \ {id} |-> s.stored[i]]
    BY <1>2, <1>6
  <2>2. Sound(s) /\ id \in DOMAIN s.stored /\ SizeOf[n] = SizeOf[s.stored[id]]
    BY <1>3, <1>4, <1>5, <1>6
  <2> HIDE DEF r, s
  <2>3. Sound(r)
    BY <1>5, <2>1, <2>2, RemoveSound
  <2> QED BY <2>3 DEF r
<1>8. /\ cache' \in Seq(Entry) /\ distinct(cache')
      /\ ToSet(cache') = {e \in ToSet(cache) : e.id \notin {id}}
      /\ idsOf(cache') = idsOf(cache) \ {id}
  BY <1>1, <1>3, WithoutFacts
<1>9. ids' = ids \ {id}
  BY <1>3, <1>8 DEF ids, idsOf
<1>10. /\ DOMAIN stored' = DOMAIN stored \ {id}
       /\ \A d \in DOMAIN stored' : stored'[d] = stored[d]
  BY <1>2
<1>11. CacheTypes' /\ ObjectsApart' /\ Known' /\ SingleCopy'
  <2>1. CacheTypes'
    BY <1>1, <1>3, <1>8 DEF CacheTypes
  <2>2. ObjectsApart' /\ Known' /\ SingleCopy'
    BY <1>1, <1>8 DEF CacheInv, ObjectsApart, Known, SingleCopy
  <2> QED BY <2>1, <2>2
<1>12. SizesKept'
  <2>1. ASSUME NEW e \in ToSet(cache'), e.id # NoId
        PROVE  SizeOf[content'[e.obj]] = SizeOf[stored'[e.id]]
    <3>1. e \in ToSet(cache) /\ e.id # id
      BY <1>8
    <3>2. e.id \in DOMAIN stored
      BY <1>3, <2>1, <3>1 DEF CacheInv, Known
    <3>3. SizeOf[content[e.obj]] = SizeOf[stored[e.id]]
      BY <2>1, <3>1 DEF CacheInv, SizesKept
    <3> QED BY <1>1, <1>10, <3>1, <3>2, <3>3
  <2> QED BY <2>1 DEF SizesKept
<1>13. live' \subseteq DOMAIN stored'
  BY <1>1, <1>3, <1>10
<1>14. LostCounted(lost)'
  <2>1. DOMAIN stored' \ live' = DOMAIN stored \ live
    BY <1>1, <1>4, <1>10
  <2>2. NoId \in ids' <=> NoId \in ids
    BY <1>1, <1>9
  <2>3. LostCounted(lost)
    BY DEF CacheInv
  <2> QED BY <1>1, <2>1, <2>2, <2>3 DEF LostCounted
<1>15. CacheInv'
  BY <1>7, <1>8, <1>11, <1>12, <1>13, <1>14 DEF CacheInv
<1>16. ASSUME NEW d \in live' PROVE current(d)' = current(d)
  <2>1. d \in live /\ d # id /\ CurrentFound'
    BY <1>1, <1>15, CurrentNodeNext
  <2>2. CASE d \in ids
    <3>1. PICK e \in ToSet(cache) : e.id = d
      BY <2>2 DEF ids
    <3>2. e \in ToSet(cache')
      BY <1>8, <2>1, <3>1
    <3> QED BY <1>1, <1>3, <2>1, <3>1, <3>2 DEF CurrentFound
  <2>3. CASE d \notin ids
    <3>1. stored'[d] = stored[d] /\ d \notin ids'
      BY <1>3, <1>9, <1>10, <2>1, <2>3
    <3> QED BY <1>3, <2>1, <2>3, <3>1 DEF CurrentFound
  <2> QED BY <2>2, <2>3
<1> QED BY <1>1, <1>4, <1>9, <1>15, <1>16 DEF id

\* The table of a storage survives in the file.
LEMMA TableSurvives ==
  ASSUME NEW t, t \subseteq Storage!Block
  PROVE  Storage!unpacked(Storage!packed(t)) = t
<1>1. t \subseteq Blocks!Block
  BY DEF Blocks!Block, Storage!Block
<1>2. Blocks!unpacked(Blocks!packed(t)) = t
  BY <1>1, StorageAssumption, SameReserved, Blocks!UnpackPacked
<1>3. Blocks!unpacked(Blocks!packed(t)) = Storage!unpacked(Storage!packed(t))
  BY DEF Blocks!unpacked, Blocks!packed, Blocks!Block, Storage!unpacked, Storage!packed, Storage!Block
<1> QED BY <1>2, <1>3

\* A restart finds every live node in the storage as it was in memory.
LEMMA RestartKeeps ==
  ASSUME CacheInv, Restart
  PROVE  CacheInv' /\ SameMemory /\ ids' = {}
<1> DEFINE s == saveAll(storageNow, cache)
<1>1. /\ cache \in Seq(Entry) /\ distinct(cache) /\ content \in [Object -> Node]
      /\ live \subseteq Storage!Block \ {NoId} /\ lost \in Nat
      /\ Sound(storageNow) /\ live \subseteq DOMAIN stored
      /\ ids = idsOf(cache) /\ CurrentFound
  BY InvFacts
<1>2. /\ cache' = << >> /\ held' = {} /\ content' = content /\ live' = live /\ lost' = lost
      /\ storageBecomes([s EXCEPT !.table = Storage!unpacked(Storage!packed(@))])
  BY DEF Restart
<1>3. storageNow.stored = stored
  BY DEF storageNow
<1>4. canSave(storageNow, cache)
  <2>1. ASSUME NEW i \in DOMAIN cache, cache[i].id # NoId
        PROVE  /\ cache[i].id \in DOMAIN stored
               /\ SizeOf[content[cache[i].obj]] = SizeOf[stored[cache[i].id]]
    BY <1>1, <2>1 DEF CacheInv, Known, SizesKept, ToSet
  <2> QED BY <1>1, <1>3, <2>1 DEF canSave
<1>5. Saved(storageNow, s, cache, DOMAIN cache)
  BY <1>1, <1>4, SaveAllSaved
<1> HIDE DEF s
<1>6. Sound(s) /\ s \in StorageState /\ s.table \subseteq Storage!Block
  BY <1>5 DEF Saved, Sound
<1>7. storageBecomes(s)
  <2>1. PICK T, D, Q : s \in [table : T, disk : D, stored : Q]
    BY <1>6 DEF StorageState
  <2>2. table' = Storage!unpacked(Storage!packed(s.table)) /\ disk' = s.disk /\ stored' = s.stored
    BY <1>2, <2>1 DEF storageBecomes
  <2> QED BY <1>6, <2>2, TableSurvives DEF storageBecomes
<1>8. storageNow' = s /\ stored' = s.stored
  BY <1>6, <1>7, BecomesThat DEF storageBecomes
<1>9. ToSet(cache') = {} /\ ids' = {} /\ distinct(cache') /\ cache' \in Seq(Entry)
  BY <1>2 DEF ToSet, ids, distinct
<1>10. \A e \in ToSet(cache) : e.id # NoId => stored'[e.id] = content[e.obj]
  BY <1>5, <1>8 DEF Saved, ToSet
<1>11. \A d \in DOMAIN stored : d \notin ids => stored'[d] = stored[d]
  <2>1. \A d : d \notin ids => \A i \in DOMAIN cache : cache[i].id # d
    BY DEF ids, ToSet
  <2> QED BY <1>3, <1>5, <1>8, <2>1 DEF Saved
<1>12. \/ DOMAIN stored' = DOMAIN stored
       \/ /\ NoId \in ids
          /\ \E x \in Storage!Block : DOMAIN stored' = DOMAIN stored \cup {x}
  <2>1. (\E i \in DOMAIN cache : cache[i].id = NoId) => NoId \in ids
    BY DEF ids, ToSet
  <2> QED BY <1>3, <1>5, <1>8, <2>1 DEF Saved
<1>13. live' \subseteq DOMAIN stored'
  BY <1>1, <1>2, <1>12
<1>14. LostCounted(lost)'
  <2> DEFINE D == DOMAIN stored \ live
             E == DOMAIN stored' \ live'
  <2>1. D \subseteq Storage!Block /\ E \subseteq Storage!Block
    BY <1>1, <1>3, <1>6, <1>8 DEF Sound
  <2>2. /\ Cardinality(D) + (IF NoId \in ids THEN 1 ELSE 0) <= lost
        /\ Cardinality(D) \in Nat /\ Cardinality(E) \in Nat
    BY <2>1, StoredFinite DEF CacheInv, LostCounted
  <2>3. \/ Cardinality(E) <= Cardinality(D)
        \/ NoId \in ids /\ Cardinality(E) <= Cardinality(D) + 1
    <3>1. CASE DOMAIN stored' = DOMAIN stored
      <4>1. E = D
        BY <1>2, <3>1
      <4> HIDE DEF D, E
      <4> QED BY <2>2, <4>1
    <3>2. CASE NoId \in ids /\ \E x \in Storage!Block : DOMAIN stored' = DOMAIN stored \cup {x}
      <4>1. PICK x : E \subseteq D \cup {x}
        BY <1>2, <3>2
      <4> HIDE DEF D, E
      <4> QED BY <2>1, <3>2, <4>1, CountOneMore
    <3> QED BY <1>12, <3>1, <3>2
  <2> HIDE DEF D, E
  <2>4. Cardinality(E) + 0 <= lost'
    BY <1>1, <1>2, <2>2, <2>3
  <2> QED BY <1>9, <2>2, <2>4 DEF LostCounted, E
<1>15. CacheInv'
  <2>1. CacheTypes' /\ ObjectsApart' /\ Known' /\ SizesKept' /\ SingleCopy'
    BY <1>1, <1>2, <1>9 DEF CacheTypes, ObjectsApart, Known, SizesKept, SingleCopy
  <2> QED BY <1>6, <1>8, <1>9, <1>13, <1>14, <2>1 DEF CacheInv
<1>16. ASSUME NEW d \in live PROVE current(d)' = current(d)
  <2>1. CurrentFound' /\ current(d)' = stored'[d]
    BY <1>2, <1>9, <1>15, CurrentNodeNext DEF CurrentFound
  <2>2. CASE d \in ids
    <3>1. PICK e \in ToSet(cache) : e.id = d
      BY <2>2 DEF ids
    <3>2. d # NoId
      BY <1>1
    <3> QED BY <1>1, <1>10, <2>1, <3>1, <3>2 DEF CurrentFound
  <2>3. CASE d \notin ids
    BY <1>1, <1>11, <2>1, <2>3 DEF CurrentFound
  <2> QED BY <2>2, <2>3
<1> QED BY <1>2, <1>9, <1>15, <1>16 DEF SameMemory

\* Nothing is stored at first.
LEMMA InitCache == Init => CacheInv
<1> SUFFICES ASSUME Init PROVE CacheInv
  OBVIOUS
<1> USE DEF Init
<1>1. DOMAIN stored = {} /\ ToSet(cache) = {} /\ ids = {}
  BY DEF ToSet, ids
<1>2. CacheTypes
  <2>1. PICK n : n \in Node
    BY NodeSetAssumption
  <2>2. (CHOOSE n1 \in Node : TRUE) \in Node
    BY <2>1
  <2> QED BY <2>2 DEF CacheTypes
<1>3. distinct(cache) /\ ObjectsApart /\ Known /\ SizesKept /\ SingleCopy
  BY <1>1 DEF distinct, ObjectsApart, Known, SizesKept, SingleCopy
<1>4. storageNow = [table |-> Storage!Reserved, disk |-> disk, stored |-> stored]
  BY DEF storageNow
<1>5. storageNow \in StorageState
  <2>1. disk \in [Storage!Block -> Storage!Piece]
    BY DEF Storage!Piece
  <2>2. Storage!Reserved \in SUBSET Int
    BY DEF Storage!Reserved
  <2>3. stored \in UNION {[D -> Node] : D \in SUBSET Nat}
    <3>1. stored \in [{} -> Node] /\ {} \in SUBSET Nat
      BY <1>1
    <3>2. [{} -> Node] \in {[D -> Node] : D \in SUBSET Nat}
      BY <3>1, Zenon
    <3> QED BY <3>1, <3>2
  <2> HIDE DEF Init
  <2> QED BY <1>4, <2>1, <2>2, <2>3 DEF StorageState
<1>6. Sound(storageNow)
  <2> HIDE DEF Init
  <2> QED BY <1>1, <1>4, <1>5, StorageAssumption DEF Sound
<1>7. LostCounted(lost)
  <2>1. DOMAIN stored \ live = {}
    BY <1>1
  <2> QED BY <1>1, <2>1, FS_EmptySet DEF LostCounted
<1> QED BY <1>1, <1>2, <1>3, <1>6, <1>7 DEF CacheInv

-----------------------------------------------------------------------------
(* The theorems *)

\* A step that puts a node leaves the cache above its capacity only if it could evict no
\* other entry: the action of StaysNearCapacity.
NearCapacity ==
  ids' \ ids # {} /\ Len(cache') > Capacity
    => \A e \in ToSet(cache) : isEvictable(e) => e \notin ToSet(cache')

LEMMA PutNear ==
  ASSUME CacheInv, NEW id, NEW o, NEW n, NEW s, PutReady(id, n, s), Puts(id, o, n, s)
  PROVE  NearCapacity
<1>1. id \in Nat /\ o \in Object /\ cache' = afterPut(id, o)
  BY DEF PutReady, Puts
<1>2. cache \in Seq(Entry) /\ distinct(cache)
  BY DEF CacheInv, CacheTypes
<1> DEFINE V == victims(id)
<1>3. /\ V \in Seq(Entry)
      /\ id \in ids => V = << >>
      /\ id \notin ids =>
           \/ \A e \in ToSet(cache) : isEvictable(e) => e \in ToSet(V)
           \/ Len(cache) - Len(V) < Capacity
  BY <1>2, VictimFacts
<1>4. /\ ToSet(cache') = {[id |-> id, obj |-> o]}
           \cup {e \in ToSet(cache) : e.id # id /\ e \notin ToSet(V)}
      /\ ids' = {id} \cup (ids \ idsOf(V))
      /\ id \notin ids => Len(cache') = Len(cache) - Len(V) + 1
  BY <1>1, PutEntries
<1>5. CASE id \in ids
  <2>1. ids' \ ids = {}
    BY <1>4, <1>5
  <2> QED BY <2>1 DEF NearCapacity
<1>6. CASE id \notin ids /\ \A e \in ToSet(cache) : isEvictable(e) => e \in ToSet(V)
  <2>1. ASSUME NEW e \in ToSet(cache), isEvictable(e) PROVE e \notin ToSet(cache')
    <3>1. e.id # id /\ e \in ToSet(V)
      BY <1>6, <2>1 DEF ids
    <3> HIDE DEF V
    <3> QED BY <1>4, <3>1
  <2> QED BY <2>1 DEF NearCapacity
<1>7. CASE id \notin ids /\ Len(cache) - Len(V) < Capacity
  <2>1. Len(cache) \in Nat /\ Len(V) \in Nat
    BY <1>2, <1>3
  <2> HIDE DEF V
  <2>2. ~ (Len(cache') > Capacity)
    BY <1>4, <1>7, <2>1, CapacityAssumption
  <2> QED BY <2>2 DEF NearCapacity
<1> QED BY <1>3, <1>5, <1>6, <1>7

\* The memory of nodes that the cache and the storage implement.
nodes == [id \in live |-> current(id)]

LEMMA SameNodes == SameMemory => nodes' = nodes
BY DEF SameMemory, nodes

\* A put of a node is, for the memory, nothing or the creation of the node.
LEMMA PutNodes ==
  ASSUME CacheInv, NEW id, NEW o, NEW n, NEW s, PutReady(id, n, s), Puts(id, o, n, s),
         lost' \in Nat, lost' >= lost + (IF id = NoId THEN 1 ELSE 0)
  PROVE  /\ CacheInv' /\ NearCapacity
         /\ live' = live /\ (id # NoId => n = current(id)) => nodes' = nodes
         /\ id \in Storage!Block \ {NoId} /\ id \notin live /\ live' = live \cup {id}
              => Memory!Create(id, n)
<1>1. CacheInv'
  BY PutKeeps, Zenon
<1>2. NearCapacity
  BY PutNear, Zenon
<1>3. /\ id # NoId => current(id)' = n
      /\ \A d \in live : d # id => current(d)' = current(d)
  BY <1>1, PutMemory, Zenon
<1>4. live \subseteq Storage!Block \ {NoId}
  BY InvFacts
<1>5. ASSUME live' = live, id # NoId => n = current(id) PROVE nodes' = nodes
  <2>1. \A d \in live : current(d)' = current(d)
    BY <1>3, <1>4, <1>5
  <2> QED BY <1>5, <2>1 DEF nodes
<1>6. ASSUME id \in Storage!Block \ {NoId}, id \notin live, live' = live \cup {id}
      PROVE  Memory!Create(id, n)
  <2>1. /\ DOMAIN nodes = live
        /\ nodes' = [d \in live \cup {id} |-> IF d = id THEN n ELSE nodes[d]]
    <3>1. nodes' = [d \in live \cup {id} |-> current(d)']
      BY <1>6 DEF nodes
    <3>2. \A d \in live \cup {id} : current(d)' = IF d = id THEN n ELSE nodes[d]
      BY <1>3, <1>6 DEF nodes
    <3> QED BY <3>1, <3>2 DEF nodes
  <2> QED BY <1>6, <2>1 DEF Memory!Create, nodes
<1> QED BY <1>1, <1>2, <1>5, <1>6

\* Every step keeps the invariant, evicts what it has to, and is a step of the memory.
LEMMA CacheStep ==
  ASSUME CacheInv, lost <= Lost, [Next]_vars
  PROVE  /\ CacheInv' /\ lost' <= Lost
         /\ [NearCapacity]_vars
         /\ [Memory!Next]_nodes
<1>0. lost \in Nat /\ live \subseteq Storage!Block \ {NoId} /\ DOMAIN nodes = live /\ CurrentFound
  BY InvFacts DEF nodes
<1>1. ASSUME NEW id \in live, Hit(id) PROVE CacheInv' /\ nodes' = nodes /\ lost' = lost /\ NearCapacity
  <2>1. CacheInv' /\ SameMemory /\ ids' = ids
    BY <1>1, HitKeeps
  <2>2. lost' = lost
    BY <1>1 DEF Hit
  <2> QED BY <2>1, <2>2, SameNodes DEF NearCapacity
<1>2. ASSUME NEW id \in live, Miss(id) PROVE CacheInv' /\ nodes' = nodes /\ lost' = lost /\ NearCapacity
  <2>1. PICK o : /\ PutReady(id, stored[id], storageNow) /\ Puts(id, o, stored[id], storageNow)
                 /\ live' = live /\ lost' = lost /\ id \notin ids
    BY <1>2, MissPuts
  <2>2. id # NoId /\ current(id) = stored[id]
    BY <1>0, <2>1 DEF CurrentFound
  <2>3. lost' \in Nat /\ lost' >= lost + (IF id = NoId THEN 1 ELSE 0)
    BY <1>0, <2>1, <2>2
  <2> QED BY <2>1, <2>2, <2>3, PutNodes, Zenon
<1>3. ASSUME NEW n \in Node, Create(n)
      PROVE  /\ CacheInv' /\ lost' = lost /\ NearCapacity
             /\ \E id \in Storage!Block \ {NoId} : Memory!Create(id, n)
  <2>1. PICK id, o, s : /\ PutReady(id, n, s) /\ Puts(id, o, n, s)
                        /\ id \in Storage!Block \ {NoId} /\ id \notin live
                        /\ live' = live \cup {id} /\ lost' = lost /\ id \notin ids
    BY <1>3, CreatePuts
  <2>2. lost' \in Nat /\ lost' >= lost + (IF id = NoId THEN 1 ELSE 0)
    BY <1>0, <2>1
  <2>3. CacheInv' /\ NearCapacity /\ Memory!Create(id, n)
    BY <2>1, <2>2, PutNodes, Zenon
  <2> QED BY <2>1, <2>3
<1>4. ASSUME NEW n \in Node, CreateFails(n)
      PROVE  CacheInv' /\ nodes' = nodes /\ lost' <= Lost /\ NearCapacity
  <2>1. PICK o : /\ PutReady(NoId, n, storageNow) /\ Puts(NoId, o, n, storageNow)
                 /\ live' = live /\ lost' = lost + 1
    BY <1>4, CreateFailsPuts
  <2>2. lost' \in Nat /\ lost' >= lost + (IF NoId = NoId THEN 1 ELSE 0)
    BY <1>0, <2>1
  <2>3. lost' <= Lost
    BY <1>0, <1>4, <2>1, CapacityAssumption DEF CreateFails
  <2> QED BY <2>1, <2>2, <2>3, PutNodes, Zenon
<1>5. ASSUME NEW n \in Node, NEW h \in held, Write(h, n)
      PROVE  /\ CacheInv' /\ lost' = lost /\ NearCapacity
             /\ nodes' = nodes \/ \E id \in live : Memory!Write(id, n)
  <2>1. /\ CacheInv' /\ ids' = ids /\ live' = live
        /\ h.id \notin live => SameMemory
        /\ h.id \in live => current(h.id)' = n
        /\ \A d \in live : d # h.id => current(d)' = current(d)
    BY <1>5, WriteKeeps
  <2>2. lost' = lost
    BY <1>5 DEF Write
  <2>3. ASSUME h.id \in live PROVE Memory!Write(h.id, n)
    <3>1. nodes' = [d \in live |-> current(d)']
      BY <2>1 DEF nodes
    <3>2. nodes' = [nodes EXCEPT ![h.id] = n]
      BY <2>1, <2>3, <3>1 DEF nodes
    <3> QED BY <3>2 DEF Memory!Write, nodes
  <2> QED BY <2>1, <2>2, <2>3, SameNodes DEF NearCapacity
<1>6. ASSUME NEW h \in held, Delete(h)
      PROVE  /\ CacheInv' /\ lost' = lost /\ NearCapacity
             /\ \E id \in live : Memory!Delete(id)
  <2>1. /\ CacheInv' /\ ids' \subseteq ids
        /\ h.id \in live /\ live' = live \ {h.id}
        /\ \A d \in live' : current(d)' = current(d)
    BY <1>6, DeleteKeeps
  <2>2. lost' = lost
    BY <1>6 DEF Delete
  <2>3. Memory!Delete(h.id)
    <3>1. nodes' = [d \in live' |-> current(d)']
      BY DEF nodes
    <3>2. nodes' = [d \in DOMAIN nodes \ {h.id} |-> nodes[d]]
      BY <1>0, <2>1, <3>1 DEF nodes
    <3> QED BY <3>2 DEF Memory!Delete, nodes
  <2> QED BY <2>1, <2>2, <2>3 DEF NearCapacity
<1>7. ASSUME NEW h \in held, Release(h)
      PROVE  CacheInv' /\ nodes' = nodes /\ lost' = lost /\ NearCapacity
  <2>1. held' \subseteq held /\ UNCHANGED <<storage, cache, content, live, lost>>
    BY <1>7 DEF Release
  <2> QED BY <2>1, ReleaseKeeps, SameNodes DEF NearCapacity
<1>8. ASSUME Restart PROVE CacheInv' /\ nodes' = nodes /\ lost' = lost /\ NearCapacity
  <2>1. CacheInv' /\ SameMemory /\ ids' = {}
    BY <1>8, RestartKeeps
  <2>2. lost' = lost
    BY <1>8 DEF Restart
  <2> QED BY <2>1, <2>2, SameNodes DEF NearCapacity
<1>9. ASSUME UNCHANGED vars PROVE CacheInv' /\ nodes' = nodes /\ lost' = lost /\ NearCapacity
  <2>1. held' \subseteq held /\ UNCHANGED <<storage, cache, content, live, lost>>
    BY <1>9 DEF vars
  <2> QED BY <2>1, ReleaseKeeps, SameNodes DEF NearCapacity
<1>10. \A id, n : Memory!Create(id, n) => id \in Storage!Block \ {NoId}
  BY DEF Memory!Create
<1>11. /\ \A id \in Storage!Block \ {NoId}, n \in Node : Memory!Create(id, n) => Memory!Next
       /\ \A id \in live, n \in Node : Memory!Write(id, n) => Memory!Next
       /\ \A id \in live : Memory!Delete(id) => Memory!Next
  BY <1>0 DEF Memory!Next, nodes
<1> QED BY <1>1, <1>2, <1>3, <1>4, <1>5, <1>6, <1>7, <1>8, <1>9, <1>11 DEF Next

\* The invariant holds in every state.
THEOREM CacheSound == Spec => [](CacheInv /\ lost <= Lost)
<1>1. Init => CacheInv /\ lost <= Lost
  BY InitCache, CapacityAssumption DEF Init
<1>2. CacheInv /\ lost <= Lost /\ [Next]_vars => (CacheInv /\ lost <= Lost)'
  BY CacheStep
<1> QED BY <1>1, <1>2, PTL DEF Spec

\* The variables keep their types, and no identifier is cached twice.
THEOREM CacheTypeCorrect == Spec => []TypeOK
<1>1. CacheInv /\ lost <= Lost => TypeOK
  <2> SUFFICES ASSUME CacheInv, lost <= Lost PROVE TypeOK
    OBVIOUS
  <2>1. /\ cache \in Seq(Entry) /\ distinct(cache) /\ content \in [Object -> Node]
        /\ held \subseteq Entry /\ live \subseteq Storage!Block \ {NoId} /\ lost \in Nat
        /\ Sound(storageNow) /\ ids = idsOf(cache)
    BY InvFacts
  <2>2. Cardinality(ids) = Len(cache)
    BY <2>1, CountIds
  <2>3. table \subseteq Storage!Block /\ disk \in [Storage!Block -> Storage!Piece]
    BY <2>1 DEF Sound, StorageState, storageNow
  <2>4. lost \in 0 .. Lost
    BY <2>1, CapacityAssumption
  <2> QED BY <2>1, <2>2, <2>3, <2>4 DEF TypeOK
<1> QED BY CacheSound, <1>1, PTL

\* Whatever pointer the tree holds to a live node, it is the cached object of that node:
\* a node in use is not evicted, so get and the holders see one copy.
THEOREM OneCopy == Spec => []SingleCopy
<1>1. CacheInv => SingleCopy
  BY DEF CacheInv
<1> QED BY CacheSound, <1>1, PTL

\* The storage keeps every live node, and beside them only what was created when it was
\* full: no deleted node keeps its blocks, and no node is stored twice.
THEOREM NothingElseLeaks == Spec => []OnlyLostNodesLeak
<1>1. CacheInv => OnlyLostNodesLeak
  <2> SUFFICES ASSUME CacheInv PROVE OnlyLostNodesLeak
    OBVIOUS
  <2>1. DOMAIN stored \ live \subseteq Storage!Block /\ lost \in Nat
    BY DEF CacheInv, CacheTypes, Sound, storageNow
  <2>2. Cardinality(DOMAIN stored \ live) \in Nat
    BY <2>1, StoredFinite
  <2> QED BY <2>1, <2>2 DEF CacheInv, LostCounted, OnlyLostNodesLeak
<1> QED BY CacheSound, <1>1, PTL

\* A put evicts down to the capacity, or everything that may be evicted.
THEOREM CacheStaysNearCapacity == Spec => StaysNearCapacity
<1>1. CacheInv /\ lost <= Lost /\ [Next]_vars => [NearCapacity]_vars
  BY CacheStep
<1>2. Spec => [][NearCapacity]_vars
  BY CacheSound, <1>1, PTL DEF Spec
<1> QED BY <1>2 DEF StaysNearCapacity, NearCapacity

\* Under any order of hits, misses, evictions, writes, deletions and restarts, a live node
\* reads as it was last written.
THEOREM CacheIsNodeMemory == Spec => ImplementsNodeMemory
<1>1. Init => Memory!Init
  <2>1. Init => live = {}
    BY DEF Init
  <2> QED BY <2>1 DEF Memory!Init
<1>2. CacheInv /\ lost <= Lost /\ [Next]_vars
      => [Memory!Next]_([id \in live |-> current(id)])
  BY CacheStep DEF nodes
<1> QED BY <1>1, <1>2, CacheSound, PTL DEF Spec, ImplementsNodeMemory, Memory!Spec
=============================================================================
