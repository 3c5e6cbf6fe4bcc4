---------------------------- MODULE BlockStorage ----------------------------
(***************************************************************************)
(* The block allocator under the tree: BeTreeFileStorage.hpp, whose logic  *)
(* the NVM, file-map and DRAM storages repeat.  A node lives in contiguous *)
(* blocks and its identifier is the first of them.  The allocation table   *)
(* is kept in memory and written to the file, eight blocks to a byte, when *)
(* the storage is closed.  The callers' side of the contract is modelled   *)
(* too: they save, load and remove only nodes they were given an           *)
(* identifier for, and a node never changes its type.                      *)
(***************************************************************************)
EXTENDS Integers, FiniteSets

CONSTANTS
  BlockSize,    \* bytes
  NumBlocks,    \* storageSize / blockSize
  Node,         \* the nodes that are stored, with their contents
  SizeOf        \* getSerializedSize of each node

ceil(a, b) == a \div b + (IF a % b = 0 THEN 0 ELSE 1)

HeaderSize == 20
Block == 0 .. NumBlocks - 1

\* The blocks of the header and of the allocation table.
Reserved == 0 .. ceil(HeaderSize, BlockSize) + ceil(NumBlocks, BlockSize) - 1

ASSUME BlockAssumption    == BlockSize \in Nat \ {0} /\ NumBlocks \in Nat
ASSUME SizeAssumption     == SizeOf \in [Node -> Nat \ {0}]
ASSUME ReservedAssumption == Reserved \subseteq Block

VARIABLES
  table,       \* the blocks in use
  disk,        \* what each block of the file holds
  saved,       \* the allocation table in the file
  open,
  stored       \* history: the last node saved under each identifier in use

vars == <<table, disk, saved, open, stored>>

-----------------------------------------------------------------------------

blocksNeeded(n) == ceil(SizeOf[n], BlockSize)
extent(start, c) == start .. start + c - 1

Blank == [unused |-> TRUE]
Piece == [node : Node, part : Nat] \cup {Blank}

\* The extent from start is free in the table t.
isFree_PastEnd(t, start, c) == extent(start, c) \cap t = {}      \* mutant
isFree(t, start, c) == extent(start, c) \subseteq Block \ t

isFirstFit(t, start, c) ==
  /\ start \in Block /\ isFree(t, start, c)
  /\ \A s \in Block : isFree(t, s, c) => start <= s

noFit(t, c) == \A s \in Block : ~isFree(t, s, c)

\* Mutant: a used block does not end the run of free ones.
scan_KeepsCount(t, c) ==
  LET after[i \in 0 .. NumBlocks] ==
        IF i = 0 THEN [start |-> 0, count |-> 0]
        ELSE LET s == after[i - 1] IN
             IF s.count = c \/ i - 1 \in t THEN s
             ELSE [start |-> IF s.count = 0 THEN i - 1 ELSE s.start, count |-> s.count + 1]
  IN after[NumBlocks]

\* saveNode's loop over the blocks: its start and count after the first i of them.
scan(t, c) ==
  LET after[i \in 0 .. NumBlocks] ==
        IF i = 0 THEN [start |-> 0, count |-> 0]
        ELSE LET s == after[i - 1] IN
             IF s.count = c THEN s
             ELSE IF i - 1 \in t THEN [s EXCEPT !.count = 0]
             ELSE [start |-> IF s.count = 0 THEN i - 1 ELSE s.start, count |-> s.count + 1]
  IN after[NumBlocks]

\* node->serialize at the blocks from start, and loadNode.
written(d, start, n) ==
  [b \in Block |-> IF b \in extent(start, blocksNeeded(n))
                   THEN [node |-> n, part |-> b - start] ELSE d[b]]
loaded(d, id) == d[id].node

\* The bytes of the table in the file, each the set of its bits that are 1.
packed_WholeBytes(t) ==                                          \* mutant
  [w \in 0 .. (NumBlocks - 1) \div 8 |->
     IF 8 * w + 7 \in Block THEN {j \in 0 .. 7 : 8 * w + j \in t} ELSE {}]
packed(t) == [w \in 0 .. (NumBlocks - 1) \div 8 |-> {j \in 0 .. 7 : 8 * w + j \in t}]
unpacked(bytes) == {i \in Block : i % 8 \in bytes[i \div 8]}

-----------------------------------------------------------------------------

\* The constructor and init, which truncates the file.
Init ==
  /\ table = Reserved
  /\ disk = [b \in Block |-> Blank]
  /\ saved = packed(Reserved)
  /\ open = TRUE
  /\ stored = << >>

\* saveNode with id 0.
SaveNew(n) ==
  /\ open
  /\ \E start \in Block :
       /\ isFirstFit(table, start, blocksNeeded(n))
       /\ disk' = written(disk, start, n)
       /\ table' = table \cup extent(start, blocksNeeded(n))
       /\ stored' = [id \in DOMAIN stored \cup {start} |-> IF id = start THEN n ELSE stored[id]]
  /\ UNCHANGED <<saved, open>>

\* saveNode returns 0 and writes nothing.
SaveFails(n) ==
  /\ open
  /\ noFit(table, blocksNeeded(n))
  /\ UNCHANGED vars

\* saveNode with the identifier of a stored node.
Overwrite(id, n) ==
  /\ open
  /\ blocksNeeded(n) = blocksNeeded(stored[id])
  /\ disk' = written(disk, id, n)
  /\ stored' = [stored EXCEPT ![id] = n]
  /\ UNCHANGED <<table, saved, open>>

freed_OneMore(id, n) == extent(id, blocksNeeded(n) + 1)          \* mutant
freed(id, n) == extent(id, blocksNeeded(n))

\* removeNode; the node n passed with the identifier serves only for its size.
RemoveNode(id, n) ==
  /\ open
  /\ blocksNeeded(n) = blocksNeeded(stored[id])
  /\ table' = table \ freed(id, n)
  /\ stored' = [i \in DOMAIN stored \ {id} |-> stored[i]]
  /\ UNCHANGED <<disk, saved, open>>

\* The destructor: flush, then the memory is gone.
Close ==
  /\ open
  /\ saved' = packed(table)
  /\ open' = FALSE
  /\ table' = {}
  /\ UNCHANGED <<disk, stored>>

\* The constructor and init on an existing file.
Reopen ==
  /\ ~open
  /\ table' = unpacked(saved)
  /\ open' = TRUE
  /\ UNCHANGED <<disk, saved, stored>>

Next ==
  \/ \E n \in Node : SaveNew(n) \/ SaveFails(n)
  \/ \E id \in DOMAIN stored, n \in Node : Overwrite(id, n) \/ RemoveNode(id, n)
  \/ Close
  \/ Reopen

Spec == Init /\ [][Next]_vars

-----------------------------------------------------------------------------

TypeOK ==
  /\ table \subseteq Block
  /\ disk \in [Block -> Piece]
  /\ saved \in [0 .. (NumBlocks - 1) \div 8 -> SUBSET (0 .. 7)]
  /\ open \in BOOLEAN
  /\ stored \in [DOMAIN stored -> Node] /\ DOMAIN stored \subseteq Block

occupied(id) == extent(id, blocksNeeded(stored[id]))
Occupied == UNION {occupied(id) : id \in DOMAIN stored}

(***************************************************************************)
(* The table, or while the storage is closed the table in its file, marks  *)
(* the reserved blocks and those of the stored nodes and no other: no      *)
(* block is lost, none of a live node is free, and what the destructor     *)
(* writes bit by bit is what the next init reads.                          *)
(***************************************************************************)
TableExact == (IF open THEN table ELSE unpacked(saved)) = Reserved \cup Occupied

(***************************************************************************)
(* Every stored node reads back from all of its blocks as it was last      *)
(* saved, whatever was saved, overwritten or removed around it and over    *)
(* any number of closings: no two extents ever overlap, and none reaches   *)
(* into the header or the table.                                           *)
(***************************************************************************)
ReadsBack ==
  \A id \in DOMAIN stored :
    /\ occupied(id) \subseteq Block \ Reserved
    /\ \A b \in occupied(id) : disk[b] = [node |-> stored[id], part |-> b - id]

(***************************************************************************)
(* saveNode's loop, with its start, count and end counters, ends at the    *)
(* first run of free blocks that is long enough, and with too low a count  *)
(* exactly when there is none.                                             *)
(***************************************************************************)
ScanFindsFirstFit ==
  \A n \in Node :
    LET c == blocksNeeded(n)
        s == scan(table, c)
    IN IF s.count < c THEN noFit(table, c) ELSE isFirstFit(table, s.start, c)
=============================================================================
