---------------------------- MODULE BeTreeCache ----------------------------
(***************************************************************************)
(* BeTreeLRUCache over BlockStorage.  The tree works on shared pointers to *)
(* node objects and writes to them in place; nothing is written to the     *)
(* storage before an object leaves the cache.  So a node the tree still    *)
(* holds must not be evicted, and what is evicted must be saved.           *)
(*                                                                         *)
(* The tree, the only caller, may take a node, write to one it holds,      *)
(* create and delete nodes and drop its pointers in any order here.  A     *)
(* handle is its pointer together with the identifier it used.             *)
(***************************************************************************)
EXTENDS Integers, Sequences, FiniteSets, SequencesExt, Selection

CONSTANTS
  BlockSize, NumBlocks, Node, SizeOf,    \* see BlockStorage
  Root,          \* the nodes without a parent (isRoot)
  Overfull,      \* internal nodes with more messages than maxBufferSize
  Capacity,
  Object,        \* bound: the node objects that exist at a time
  Lost           \* bound: saveNode may fail so many times

ASSUME CapacityAssumption == Capacity \in Nat \ {0} /\ Lost \in Nat
ASSUME NodeSetAssumption  == Node # {} /\ Root \subseteq Node /\ Overfull \subseteq Node
ASSUME ObjectAssumption   == Object \subseteq Nat

VARIABLES
  table, disk, stored,   \* the storage: see BlockStorage
  cache,       \* identifiers and objects, the most recently used first
  content,     \* the node in each object
  held,        \* the tree's handles
  live,        \* history: the identifiers the tree was given and did not delete
  lost         \* history: the number of nodes that got no identifier

storage == <<table, disk, stored>>
vars == <<storage, cache, content, held, live, lost>>

Storage == INSTANCE BlockStorage WITH saved <- << >>, open <- TRUE

ASSUME StorageAssumption ==
  /\ BlockSize \in Nat \ {0} /\ NumBlocks \in Nat
  /\ SizeOf \in [Node -> Nat \ {0}]
  /\ Storage!Reserved \subseteq Storage!Block

NoId == 0      \* what saveNode returns when no extent is free

Entry == [id : Nat, obj : Object]

-----------------------------------------------------------------------------

ids == {e.id : e \in ToSet(cache)}
heldObjects == {h.obj : h \in held}
inUse == heldObjects \cup {e.obj : e \in ToSet(cache)}

\* The object that make_shared or loadNode creates.
isNewObject(o) == o \in Object \ inUse /\ \A p \in Object \ inUse : o <= p

\* saveNode on the storage s, at the blocks from start.
saveAt(s, start, n) ==
  [table |-> s.table \cup Storage!extent(start, Storage!blocksNeeded(n)),
   disk |-> Storage!written(s.disk, start, n),
   stored |-> [i \in DOMAIN s.stored \cup {start} |-> IF i = start THEN n ELSE s.stored[i]]]

save(s, id, n) ==
  LET c == Storage!blocksNeeded(n)
  IN CASE id # NoId -> saveAt(s, id, n)
       [] id = NoId /\ Storage!noFit(s.table, c) -> s
       [] OTHER -> saveAt(s, CHOOSE start \in Storage!Block :
                               Storage!isFirstFit(s.table, start, c), n)

storageNow == [table |-> table, disk |-> disk, stored |-> stored]

saveAll_Nothing(s, entries) == s                                       \* mutant
saveAll(s, entries) ==
  LET after[i \in 0 .. Len(entries)] ==
        IF i = 0 THEN s ELSE save(after[i - 1], entries[i].id, content[entries[i].obj])
  IN after[Len(entries)]

storageBecomes(s) == table' = s.table /\ disk' = s.disk /\ stored' = s.stored

\* An entry that nobody else points to, and whose node may be evicted.
isEvictable_Held(e) == content[e.obj] \notin Root \cup Overfull        \* mutant
isEvictable(e) ==
  /\ e.obj \notin heldObjects
  /\ content[e.obj] \notin Root \cup Overfull

\* evictLeastUsed goes from the back until the cache is below its capacity.
candidates == within(Reverse(cache), {e \in ToSet(cache) : isEvictable(e)})
excess == Len(cache) - Capacity + 1
evicted_One == SubSeq(candidates, 1, IF excess > 0 /\ candidates # << >> THEN 1 ELSE 0) \* mutant
evicted == IF excess < Len(candidates) THEN SubSeq(candidates, 1, excess) ELSE candidates

without(entries, S) == within(entries, {e \in ToSet(entries) : e.id \notin S})

\* put, by which the victims leave the cache: none if the identifier was in it.
victims(id) == IF id \in ids THEN << >> ELSE evicted
afterPut(id, o) ==
  << [id |-> id, obj |-> o] >> \o without(cache, {id} \cup {e.id : e \in ToSet(victims(id))})

take(h) == held' = held \cup {h}

-----------------------------------------------------------------------------

Init ==
  /\ table = Storage!Reserved
  /\ disk = [b \in Storage!Block |-> Storage!Blank]
  /\ stored = << >>
  /\ cache = << >>
  /\ content = [o \in Object |-> CHOOSE n \in Node : TRUE]
  /\ held = {}
  /\ live = {}
  /\ lost = 0

\* Mutant: the entry is put first, and left where it was.
Hit(id) ==
  /\ \E e \in ToSet(cache) :
       /\ e.id = id
       /\ cache' = << e >> \o without(cache, {id})
       /\ take(e)
  /\ UNCHANGED <<storage, content, live, lost>>

\* get of another node: the loaded object is put into the cache.
Miss(id) ==
  /\ id \notin ids
  /\ \E o \in Object :
       /\ isNewObject(o)
       /\ content' = [content EXCEPT ![o] = Storage!loaded(disk, id)]
       /\ cache' = afterPut(id, o)
       /\ take([id |-> id, obj |-> o])
  /\ storageBecomes(saveAll(storageNow, victims(id)))
  /\ UNCHANGED <<live, lost>>

\* create: the node is saved as new, then put into the cache under its identifier.
Created(id, n) ==
  /\ \E o \in Object :
       /\ isNewObject(o)
       /\ content' = [content EXCEPT ![o] = n]
       /\ cache' = afterPut(id, o)
       /\ take([id |-> id, obj |-> o])
  /\ storageBecomes(saveAll(save(storageNow, NoId, n), victims(id)))

Create(n) ==
  /\ \E id \in Storage!Block :
       /\ Storage!isFirstFit(table, id, Storage!blocksNeeded(n))
       /\ Created(id, n)
       /\ live' = live \cup {id}
  /\ UNCHANGED lost

\* The storage is full: the node is cached under id 0 and is part of no memory.
CreateFails(n) ==
  /\ lost < Lost
  /\ Storage!noFit(table, Storage!blocksNeeded(n))
  /\ Created(NoId, n)
  /\ lost' = lost + 1
  /\ UNCHANGED live

\* The tree writes to a node it holds; a node keeps its type, so its size.
Write(h, n) ==
  /\ SizeOf[n] = SizeOf[content[h.obj]]
  /\ content' = [content EXCEPT ![h.obj] = n]
  /\ UNCHANGED <<storage, cache, held, live, lost>>

\* The tree drops a pointer.
Release(h) ==
  /\ held' = held \ {h}
  /\ UNCHANGED <<storage, cache, content, live, lost>>

freeBlocks(id, n) ==
  /\ table' = table \ Storage!freed(id, n)
  /\ stored' = [i \in DOMAIN stored \ {id} |-> stored[i]]
  /\ UNCHANGED disk

\* Mutants: the deleted node stays in the cache, or its blocks stay in use.
Delete_StaysStored(h) ==
  /\ h.id # NoId
  /\ cache' = without(cache, {h.id})
  /\ live' = live \ {h.id}
  /\ held' = {g \in held : g.id # h.id}
  /\ UNCHANGED <<storage, content, lost>>

\* deleteNode of a node the tree holds and does not touch again.
Delete(h) ==
  /\ h.id # NoId
  /\ cache' = without(cache, {h.id})
  /\ freeBlocks(h.id, content[h.obj])
  /\ live' = live \ {h.id}
  /\ held' = {g \in held : g.id # h.id}
  /\ UNCHANGED <<content, lost>>

\* flush by the tree's destructor, the closing of the storage, and the opening
\* of the file by another process.
Restart ==
  /\ held = {}
  /\ LET s == saveAll(storageNow, cache) IN
       storageBecomes([s EXCEPT !.table = Storage!unpacked(Storage!packed(@))])
  /\ cache' = << >>
  /\ UNCHANGED <<content, held, live, lost>>

Next ==
  \/ \E id \in live : Hit(id) \/ Miss(id)
  \/ \E n \in Node : Create(n) \/ CreateFails(n) \/ \E h \in held : Write(h, n)
  \/ \E h \in held : Release(h) \/ Delete(h)
  \/ Restart

Spec == Init /\ [][Next]_vars

-----------------------------------------------------------------------------

TypeOK ==
  /\ table \subseteq Storage!Block
  /\ disk \in [Storage!Block -> Storage!Piece]
  /\ cache \in Seq(Entry) /\ Cardinality(ids) = Len(cache)
  /\ content \in [Object -> Node]
  /\ held \subseteq Entry
  /\ live \subseteq Storage!Block \ {NoId}
  /\ lost \in 0 .. Lost

(***************************************************************************)
(* Whatever pointer the tree holds to a live node, it is the cached object *)
(* of that node: two pointers to a node are never to two copies of it, and *)
(* a write through one is seen through the other and saved on eviction.    *)
(***************************************************************************)
SingleCopy == \A h \in held : h.id \in live => h \in ToSet(cache)

(***************************************************************************)
(* The storage keeps every live node, and no other but those that were     *)
(* created when it was full and saved under a new identifier, unknown to   *)
(* the tree, when they left the cache.                                     *)
(***************************************************************************)
OnlyLostNodesLeak ==
  live \subseteq DOMAIN stored /\ Cardinality(DOMAIN stored \ live) <= lost

(***************************************************************************)
(* A put leaves the cache above its capacity only if it can evict no other *)
(* node: what is above are nodes in use, roots and overfull nodes.         *)
(***************************************************************************)
StaysNearCapacity ==
  [][ids' \ ids # {} /\ Len(cache') > Capacity
       => \A e \in ToSet(cache) : isEvictable(e) => e \notin ToSet(cache')]_vars

\* The node that get would return for a live identifier.
current(id) ==
  IF id \in ids THEN content[(CHOOSE e \in ToSet(cache) : e.id = id).obj]
  ELSE Storage!loaded(disk, id)

Memory == INSTANCE NodeMemory WITH
  NodeId <- Storage!Block \ {NoId},
  memory <- [id \in live |-> current(id)]

(***************************************************************************)
(* Under any order of hits, misses, evictions and restarts a live node     *)
(* reads as the tree last wrote it: the cache implements the memory of     *)
(* nodes that the tree module takes for granted.                           *)
(***************************************************************************)
ImplementsNodeMemory == Memory!Spec
=============================================================================
