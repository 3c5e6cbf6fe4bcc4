# A verification project for HaldenDB's trees

This directory models the B-epsilon-tree of `libbtree` with its cache and its
storage, and the B+-tree store with its locks, its object cache and the thread that
flushes it, in TLA+, checks the models with TLC and proves theorems about them with
TLAPS. The models are translated from the source
files named below; line numbers for every definition are in `PROJECT.json` under `map`.

## The system

The repository holds two generations of key/value trees.

| part | files | state | operations |
|---|---|---|---|
| B-epsilon-tree | `libbtree/BeTree*.hpp` | nodes linked by identifiers (parent, siblings, children), a message buffer in each internal node, the root's identifier | `insert`, `remove`, `search` |
| its cache | `libbtree/BeTreeLRUCache.hpp` | a list of (identifier, node object), most recent first | `create`, `get`, `put`, `deleteNode`, `flush`, eviction |
| its storage | `libbtree/Be{File,NVM,FileMap,DRAM}*.hpp` | fixed-size blocks, an allocation table, a header | `init`, `saveNode`, `loadNode`, `removeNode`, `updateRootNode`, `flush` |
| B+-tree store | `libbtree/BPlusStore.hpp`, `IndexNode.hpp`, `DataNode.hpp` | index and data nodes, a root identifier, a lock per node | `insert`, `remove`, `search`, callbacks from the cache |
| object cache | `libcache/LRUCache.hpp` | an LRU list, a map of objects, a table of moved identifiers, under two locks and with a flush thread | `getObject`, `createObject`, `remove`, `reorder`, flush |
| object storages | `libcache/{Volatile,File,PMem}Storage.hpp`, `ObjectFatUID.h` | an append-only array of blocks | `getObject`, `addObject`, `addObjects` |
| read-only nodes | `libbtree/NVMRO{Data,Index}Node.hpp` | a copy in persistent memory or one in DRAM | those of the nodes |

How they interact. `BeTree::insert` and `remove` wrap their argument in a message
and give it to the root node; an internal node buffers it, and when its buffer is
full flushes the messages of one child into that child, which may recurse. A child
reports what became of it (split, redistribution, merge) through a `ChildChange&`
and how to go on through an `ErrorCode`. Nodes name each other by identifier and
reach each other through `cache->get`, which loads from the storage and evicts
others into it. The caller holds `shared_ptr`s and writes through them in place;
the cache looks at `use_count` to tell whether somebody does.

`libbtree/CMakeLists.txt` builds the B-epsilon-tree: it is the current product and
sequential. The B+-tree store is what the tests in `test_all` exercise; its locking
is compiled in with `__CONCURRENT__`.

What is hard in it:

* a flush goes on using a child and an index that a deeper step may have
  invalidated; the loop's guard is an error code returned through several levels;
* for one key, messages of different age wait in several buffers and must keep
  their order over splits, merges and redistributions;
* an internal node finds itself in its parent with `lowestSearchKey`, a value
  maintained by every operation; siblings and parents are stored redundantly;
* the cache must neither evict a node in use nor lose a write, and identifiers are
  reused after a deletion;
* in the B+-tree store: lock coupling, and rebalancing of siblings without their locks;
* sizes and offsets of serialized nodes are computed by hand, several times over, and
  where a node lies in the object storage in two different ways; what a call has made
  durable when it returns depends on the class of the storage;
* an object's identifier says where it is, and changes when the object is stored. A
  parent in memory keeps the old one until somebody follows it through a table of
  moved objects, which the flush thread fills in without the lock that guards it.

## Modules

| module | models | extends / uses |
|---|---|---|
| `Dictionary` | what the tree promises: a map that changes at the return of a call, as asked | |
| `BeTree` | `BeTree.hpp`, `BeTreeNode.hpp`, `BeTreeInternalNode.hpp`, `BeTreeLeafNode.hpp` | |
| `BeTreeProps` | the properties of `BeTree` | `BeTree`, `Dictionary` |
| `BeTree_proofs` | the type invariant of the tree, proved; trees of linked nodes and what a restructuring keeps of their shape and order: definitions and lemmas for the next two | `BeTreeProps`, `DataInduction` |
| `BeTreeShape_proofs` | the shape of the tree, proved | `BeTree_proofs` |
| `BeTreeOrder_proofs` | the order of its keys, proved | `BeTreeShape_proofs` |
| `DataInduction` | induction over numbers, and what it gives for recursive functions and folds: lemmas | `Selection` |
| `MCBeTree`, `MCBeTreeDrain` | instances for TLC | `BeTreeProps` |
| `BlockStorage` | the allocator of `BeTreeFileStorage.hpp` (and the same code in the other three storages) | |
| `BlockStorage_proofs` | its invariants and the search of its loop, proved | `BlockStorage`, `DataInduction` |
| `Bytes` | numbers as bytes: `memcpy`, streams | |
| `NodeLayout` | `serialize`, `deserialize`, `getSerializedSize` of the tree's nodes | `Bytes` |
| `MappedStorage` | `BeTreeFileStorage`, `BeTreeNVMStorage`, `BeTreeFileMapStorage`, `BeTreeDRAMStorage` to their bytes | `BlockStorage`, `NodeLayout` |
| `MappedStorage_proofs` | what the bytes of a storage say, proved | `MappedStorage`, `BlockStorage_proofs` |
| `NodeMemory` | what cache and storage promise the tree: nodes read as last written | |
| `BeTreeCache` | `BeTreeLRUCache.hpp` composed with the storage | `BlockStorage`, `NodeMemory` |
| `BeTreeCache_proofs` | its invariants and its refinement of `NodeMemory`, proved | `BeTreeCache`, `BlockStorage_proofs`, `DataInduction` |
| `MCBeTreeCache` | an instance for TLC | `BeTreeCache` |
| `ConcurrentMap` | what the B+-tree store promises: a linearizable map | |
| `StoreNodes` | `IndexNode.hpp`, `DataNode.hpp`: what the operations do to one or two nodes | |
| `BPlusStore` | `BPlusStore.hpp` with `__CONCURRENT__`, on a transparent cache | `StoreNodes` |
| `BPlusStoreProps` | the properties of `BPlusStore` | `BPlusStore`, `ConcurrentMap` |
| `MCBPlusStoreThreads` | several threads, workloads in phases | `BPlusStoreProps` |
| `ObjectCache` | `LRUCache.hpp` and the storages without `__CONCURRENT__`, as functions on caches | `StoreNodes` |
| `CachedStore` | `BPlusStore.hpp` without `__CONCURRENT__` on that cache | `ObjectCache` |
| `CachedStoreProps` | the properties of `CachedStore` | `CachedStore`, `ConcurrentMap` |
| `MCCachedStore` | one caller, any order of operations on a loaded store | `CachedStoreProps` |
| `SharedCache` | `LRUCache.hpp` and `insert`, `search` with `__CONCURRENT__`, and the flush thread | `ObjectCache` |
| `SharedCacheProps` | the properties of `SharedCache` | `SharedCache`, `ConcurrentMap` |
| `MCSharedCache` | two threads with a few calls each | `SharedCacheProps` |
| `ObjectLayout` | `ObjectFatUID.h`, `TypeMarshaller.hpp` and the bytes of `DataNode`, `IndexNode` | `StoreNodes`, `Bytes` |
| `ObjectStorage` | `VolatileStorage.hpp`, `FileStorage.hpp`, `PMemStorage.hpp`, and `prepareFlush` | `ObjectLayout` |
| `PlainNodes` | what the callers of a node rely on | `StoreNodes` |
| `ReadOnlyNodes` | `NVMRODataNode.hpp`, `NVMROIndexNode.hpp` | `StoreNodes`, `PlainNodes` |
| `ObjectStorage_proofs` | what the object storages give back, and the refinement of `PlainNodes`, proved | `ObjectStorage`, `ReadOnlyNodes`, `MappedStorage_proofs` |
| `Selection` | the elements of a list that are in a set | |
| `MCStorages` | an instance of `MappedStorage`, `ObjectStorage` and `ReadOnlyNodes` | these three |

### BeTree

The recursion `applyMessage` -> `flushBuffer` -> `applyMessage` is a machine with an
explicit `stack` of `flushBuffer` invocations. `pc` is `apply` when `applyMessage` of
`call.node` is about to run, `return` when it has returned `err` and `change` to its
caller, `flush` when the innermost `flushBuffer` is at the head of its loop or behind
it, and `idle` between two calls. Actions and code:

* `StartInsertEmpty`, `StartInsert`, `StartRemove`, `Search`: the public methods;
* `BufferMessage`, `StartFlush`: `BeTreeInternalNode::applyMessage`, with the choice
  of the child that has most messages;
* `PassMessage`, `ChildReturns`: one round of the loop, before and after the call of
  the child; `ChildReturns` contains the `switch` and the `break`;
* `SplitInternal`, `RedistributeInternal*`, `MergeInternal*`, `EndFlush`: what
  `flushBuffer` does behind the loop;
* `InsertInLeaf`, `SplitLeaf`, `Remove*`, `RedistributeLeaf*`, `MergeLeaf*`: the leaf;
* `SplitRoot`, `DeleteRootLeaf`, `CollapseRoot`, `Finish`: `BeTree::applyMessage`
  after the call on the root.

One step of the model is a stretch of the code without a call of another node's
handler, so that a property about the middle of a flush can be stated. The code is
sequential: the steps of one call are not interleaved with another's.

The heap is a function from identifiers to records. An identifier is free or
allocated; `isFresh` takes the lowest free one, as the allocator's first fit does when
nodes have the same size. The cache is transparent (what `BeTreeCache` and
`NodeMemory` justify). Undefined behaviour appears in two ways: `EndFlush` may return
any result where `handleUnderflow` has no return statement, and where the code would
index outside a vector or cast a sibling to the wrong class the model has no step, so
that TLC would report a deadlock (deadlock is checked in all tree runs). `dict` and
`orphans` are history variables: what `search` answers at each return, and the old
roots.

### BlockStorage

`table` is the allocation table in memory, `saved` its bytes in the file, each the set
of its 1 bits; `disk` is what each block holds, a block of a node and its number.
`SaveNew` allocates a first fit (`isFirstFit`); the loop of `saveNode` with its three
counters is the function `scan`, checked against `isFirstFit`. A caller passes to
`removeNode` any node of the same size, because after a merge to the right the tree
passes the surviving child. `Close` and `Reopen` are the destructor, and the constructor
with `init` on an existing file.

### Bytes, NodeLayout and MappedStorage

`BlockStorage` sees a node as the blocks that it fills; here it becomes bytes. A byte is
known by the number that it belongs to and its place in it (`byte`), which is enough to
tell whether a number is read from where it was written: `numberAt` returns `Garbage` when
it meets bytes of two numbers, or in another order. `NodeLayout` puts together the fields
in the order of the code, with the padding of unused places.

`MappedStorage` composes this with the actions of `BlockStorage` for the four classes;
`medium` says which one a behaviour has. `mapped` is the memory that the class writes to,
`file` what outlives the process, and the classes differ in when the second gets what the
first has:

* `..._File`: everything goes to the stream; `init` truncates the file;
* `..._NVM`: `pmem_persist` after each write, of as many bytes as `serialize` reports;
* `..._FileMap`: `msync` in `flush`, which the destructor calls;
* `..._DRAM`: never; a new array for each storage.

`Create_...` is the constructor and `init` with a fanout, over the bytes of an older storage
where the class does not truncate; `Open_...` the constructor and `init` without one, which
takes root, fanout, buffer size and table from the file; `Close_...` the destructor. Between
two calls of the storage's user there is no step in which the process ends by itself:
`DurableAtReturn` says instead what a process that ended there would leave in the file.
`BeTreeFileMapStorage::init` has no `return` on its way out; its callers ignore the result,
so that the model does too.

### BeTreeCache

The tree is reduced to its use of the cache: it gets, creates, writes, deletes and
releases nodes in any order. `content` are the node objects, `held` the tree's pointers
with the identifiers it used; an object is in use (`use_count > 1`) if it is held.
`Miss` and `Create` contain the eviction: all victims, saved from the back of the list
on, even those under identifier 0, which `saveNode` takes for new nodes. `Restart` is
the tree's destructor (`cache->flush()`), the storage's, and a new process with an empty
cache over the old file.

Two assumptions: overfull nodes still fit the blocks reserved for them (where they do
not is finding 2 below), and the tree does not touch a node after deleting it.

### BPlusStore

`thread[t]` is the operation that thread `t` runs: its key, where it is (`pc`), and the
local variables of the code under their names (`vtNodes`, `vtLocks`; `cur` and `last`
are `uidCurrentNode` and `uidLastNode`, `below` is `uidLHSNode` of an insert and
`uidChildNode` of a removal). With one thread the model is the build without
`__CONCURRENT__`. Actions and code:

* `Start...`: the head of the three methods up to the reading of `m_uidRootNode`, under
  `m_mutex`, which is lock 0; the lock of a node is the node's identifier;
* `Lock`: the lock of the current node. A search drops the parent's with it;
* `PassIndexNode`, `ChooseChild`: an index node on the way. `lockedAfter` is what
  `vtLocks` keeps at a node that absorbs the change: an insert the lock of this node, a
  removal all but the first, and all if there are no more than three;
* `SearchDataNode`, `InsertInDataNode`, `RemoveFromDataNode`: the data node;
* `SplitDataNode`, `InsertPivot`, `GrowRoot`: a round of the loop at the end of `insert`;
* `SkipRound`, `MoveFrom*`, `MergeIntoLHS`, `MergeRHS`, `LeaveRoot`: a round of the loop
  at the end of `remove`, with `rebalanceIndexNode` or `rebalanceDataNode` in it, which
  are the same but for the pivot;
* `Return`; `Throw`: the `logic_error`s that end an operation. The first of them is what
  removing an absent key leads to, so that callers do meet it.

One step is a stretch of the code in which no lock is taken or released. That is fine
enough because an operation touches a node only under its lock, with one exception, the
siblings of a removal: there the steps of two threads could mix within a stretch, which
in C++ is a data race. `SiblingsPrivate` says that it does not come to this: no other
thread has a pointer to a sibling that a removal rebalances with. In the run that
violates a property it does come to this, but the counterexample consists of whole steps.

In `BPlusStore` the cache is transparent: identifiers do not change, and an object lives
while a thread points to it (`isFresh`). A merged node therefore stays as it is for a
thread that still waits for its lock. The next two modules take the cache as it is.

### ObjectCache and CachedStore

An identifier says where its object is: `Volatile(address)` if it was made in memory,
`File(block)` if it was stored. A cache is a record: `objects` is `m_mpObjects` with the
dirty flags, `lru` the list from `m_ptrHead` to `m_ptrTail`, `moved` is
`m_mpUpdatedUIDs`, `storage` what was appended to the storage. `fault` is set where the
code throws `"should not occur!"`, which no caller catches, or would read the storage at
an address in memory. Each operation of the cache is a function on such records, and the
eviction (`flushItemsToStorage`) is part of the functions whose code evicts; it takes the
objects that the caller still holds, which is what `use_count` tells.

`CachedStore` is `BPlusStore` once more for one caller, with every request it makes of the
cache in its place. A step is one round of a loop. `call.path` is `vtAccessedNodes`, and
holds its objects to the end of the call; a node made by a split is in it by identifier
only and may be evicted. `arrived` is the identifier under which a node was found, and
`renamedChild` is `updateChildUID`. `Return` is `reorder`, `Flush` is `flush`, after which
the store is not used any more: the items of the list then keep old identifiers. An
address is used again when no object lives there and the table does not hold one alive
(`fresh`). `GrowRoot` has a choice because `uidLastNode` is compared before it was ever
assigned.

### SharedCache

The same code with `__CONCURRENT__`: `getObject` under `m_mtxCache` and `m_mtxStorage`,
with a wait on the table of moved objects, and the flush thread. `thread[t]` is a call as
in `BPlusStore`; `flusher` is what the flush thread does, its `vtObjects` and how many
entries of the table it has filled in. Actions and code:

* `GetCached`, `Miss`, `TakeStorage`, `FollowTable`, `Load`: `getObject`, from one lock to
  the next. Between `FollowTable` and `Load` the thread has no lock, and the identifier is
  neither in the table nor yet in the parent;
* `FindPending`, `Block`, `Wake`: the wait for a place that is not known yet
  (`std::nullopt`, here `Pending`). The predicate is read in one step and the thread goes
  to sleep in another, because the flush thread changes the entry without the mutex;
* `LockNode`, `VisitIndexNode`, `SearchDataNode`, `InsertInDataNode`, `Split*`,
  `InsertPivot`, `GrowRoot`: `search` and `insert`; `Reorder` and `Return` let go first of
  the objects, then of the locks, and `inUse` (`use_count`, `try_lock`) sees both;
* `SelectVictims`, `PrepareFlush`, `AddObjects`, `Publish`, `Notify`, `Rest`: a round of
  `flushItemsToStorage`. `Publish` fills in one entry.

`SharedCache` starts with a root and full data nodes in memory, so that a few calls suffice.

### ObjectLayout and ObjectStorage

`ObjectCache` and `SharedCache` let a stored node fill a place; here the place is a number
of blocks, its number part of a 64-bit identifier, and the node its bytes. An object comes
to the storage in two ways. `AddObject_...` is `addObject`, called by the cache without
threads: the place is the next block, and the size is what `serialize` reports and one byte
more. `AddObjects_...` is what the flush thread does: `prepare` is
`BPlusStore::prepareFlush`, which goes through a list of objects, computes by `getSize`
where each will be and tells the index nodes that come later, and `addObjects` then writes
each where its identifier says. Nothing forces the two to agree about sizes and next blocks
but the code of the nodes; the model has them alternate, as the classes allow.

`Refused_File` and `RefusedIn_File` are the exception in `writeToStream`, which is thrown
when the node has been written and before (`addObject`) or after (`addObjects`)
`m_nNextBlock` has moved. `Construct_PMem` maps a file that is there as it is and begins to
write at block 0, as the other two do in empty ones; the constructor's exception for a file of another size is
left out, sizes being constant. The code checks nowhere that the storage ends: the guards
marked `bound` stand there, and the assumption `OffsetsFit` that offsets fit their 32 bits.

`placed` is a history variable: which objects have been stored under which identifiers. The
objects are data nodes with one or two keys, which `addObject` and `prepareFlush` give
different numbers of blocks, and index nodes over stored ones and ones in memory.

### PlainNodes and ReadOnlyNodes

`NVMRODataNode` and `NVMROIndexNode` wrap a node read from persistent memory and copy it to
DRAM at the first change. `dram` and `nvm` are the two pointers of each node that somebody
holds. Getters ask the read-only copy first (`content`), changes go to the other
(`dramCopy`, and `nvmCopy` for what `moveDataToDRAM` leaves), also in siblings that a
split, a move or a merge involves. `Data_Restore` and `Index_Restore` are the way through
the storage and back. `PlainNodes` has one content per node; `ImplementsPlainNodes` maps it
to `content`. The wrapper's `rebalanceIndexNode` and `rebalanceDataNode` are left out:
they would pass wrapped siblings to a plain node, which does not compile, and nothing
instantiates them.

`MCStorages` puts these three machines beside each other. A behaviour is one of a single
machine, chosen in `StoragesInit`: they share no state in the program either.

## What is checked

Every run checks deadlock. Bounds: keys, identifiers, `SpareNodes` (a call starts only
if so many identifiers are free, more than it can use), and for the cache `Object` and
`Lost`.

| run | instance | properties |
|---|---|---|
| `tree_all_orders` | fanout 3, buffer 2, 5 keys, 10 identifiers; inserts, removes and searches in any order | `TypeOK`; between calls `LowestKeyIsSeparator`, `LinksAgree`, `AllocationExact`, `NodesFilled`; during one `RestructuringStopsFlush`; `ImplementsDictionary` |
| `tree_deep` | buffer 2, 12 keys inserted, then removed from both ends in every interleaving; fairness | `KeysRouted`, `FlushesCurrent`, `UnderflowHasSibling`, `ImplementsDictionary`, `CallsReturn` |
| `storage` | the tree's storages: 12 blocks of 14 bytes (9 beyond the reserved ones), leaves of 3 and internal nodes of 5 blocks; the object storages: 8 blocks of 19 bytes; read-only nodes: two at a time, degree 2, 3 keys | `TypeOK`, `TableExact`, `ReadsBack`, `ScanFindsFirstFit`, `NodesDecode`, `HeaderKept`, `DurableAtReturn`, `ObjectsReadBack`, `ImplementsPlainNodes` |
| `cache` | capacity 2, 4 objects, 3 free blocks | `SingleCopy`, `OnlyLostNodesLeak`, `StaysNearCapacity`, `ImplementsNodeMemory` |
| `store_threads` | 3 threads, degree 2, three workloads of up to 27 keys | `PathLocked`, `SiblingsPrivate`, `ShapeKept`, `LiveExact`, `ImplementsMap` |
| `cached_store` | degree 2, 5 keys loaded in one of three orders, then any order of operations on three of them; capacities 1 and 3 | `NoFault`, `MovedReferenced`, `SingleCopy`, `CleanIsStored`, `FlushStoresAll`, `ImplementsMap` |
| `shared_cache` | degree 2, 2 threads, three programs of two or three calls; capacities 1, 2 and 4; batches of up to 3 objects; fairness | `NoFault`, `InUseIsCached`, `ActsAsMap`, `CallsReturn` |
| `tree_old_root`, `tree_block`, `store_mixed`, `store_stream`, `shared_searches` | violations | see findings |

Why the bounds are enough. Fanout 3 is the smallest for which split, redistribution
and merge differ, and buffers of two messages let a key have messages of different age on
several levels; with five keys all nodes split and merge, internal ones included. The
twelve keys of `tree_deep` give a tree with two internal levels under the root, in which
internal nodes also redistribute and restructurings travel through nested flushes.
Emptying it from both ends is what makes merges cascade. In `storage`, twelve
blocks make the table end inside its second byte, and nine usable ones hold three leaves or
a leaf and an internal node, with holes too small for a large extent; 14 divides neither
node, so that a node ends inside a block. The two leaves and two internal nodes of the
instance use all their room or part of it, and differ in every field. Keys and values of
one byte do, because the layout does not depend on their widths. Data nodes of 19 and 21
bytes in blocks of 19 get one block or two according to how they are stored; eight blocks
take three objects. In `cache` three blocks hold one small and one large node or
three small ones, so that identifiers are reused, evictions take several victims, and
the storage runs full.

Degree 2 is the smallest at which the store's nodes split and merge (the tests start at
3). Any order of operations of several threads is out of reach, because lock coupling
shows only in tall
trees. `store_threads` therefore fixes what runs beside what, in phases as in `Suite_3` of
the tests (all threads insert or search, then all remove, with joins in between), and lets
TLC choose the interleaving: `Splitting` has inserts that split up to the root under
searches; `Removing` a tree of five levels, high enough that a removal has more than
three locks and gives up the root's while another removal climbs to it; `Emptying` removes
all keys but one from a small tree, and then an absent key. Threads are interchangeable
(`SYMMETRY`): nothing but
equality is asked of them. The operations outside these phases are what finding 3 is
about, and a removal beside searches would be another case of it: `SiblingsPrivate` is
claimed for phases only.

In `cached_store` the three orders of loading five keys leave full nodes at different ends
of a tree with index nodes below its root, so that the three keys in use make nodes split, lend to either side, merge and collapse the
root. A cache of one object evicts at every access what the call does not hold; one of
three keeps some nodes in memory under a parent that was stored, and some moved ones that
nobody has asked for yet. In `shared_cache` a root and two full data nodes are enough for
a split of a data node and of the root; a capacity of 1 or 2 makes every round of the flush
thread take what it can, 4 makes it start when a node was added. Three victims are all that can be
unused at once, so that 3 stands for the 100 of `FLUSH_COUNT`.

`VIEW`s. That of `MCStorages` forgets bytes that nothing will read: those of free
blocks, of a file that is mapped and written over, of the object storage behind its last
block, and the allocation table that the object storages keep and never look at. In `MCBeTree` and `MCCachedStore`, `CanonicalState` numbers the nodes of the tree
in preorder and forgets their identifiers, and `CacheView` of `MCBeTreeCache` forgets which
object holds what and what is left in free blocks; all keep what a step reads up to a
renaming. That of `MCCachedStore` also drops what the storage holds of nodes that are in
memory, once `CleanIsStored` (whose value it keeps) says it does not matter. Runs with a
liveness property use no view.

Fairness. `tree_deep`: weak fairness of the steps of a running call. The code is
sequential and a running call is never blocked on anything, so a step that is enabled is
eventually taken. `shared_cache`: weak fairness of the flush thread, which loops for ever,
and strong fairness of each thread's steps, because a thread may wait for a lock that
others take again and again. That it gets one in the end is an assumption about the
mutexes; the flush thread sleeps 100 ms between two rounds, and the others have finite
programs. Nothing is assumed of callers. `CallsReturn` is about the wait on the table:
`notify_all` can come between a reader's look at the table and its sleep, and what wakes
it then is the next round, which notifies even if it has nothing to store.

Every property of a passing run has a mutant: a plausible bug in one definition of the
model (`..._Stale`, `..._OneMore`, ...) with which the run finds the property violated.
They stand next to the definitions they replace.

## Findings

1. `tree_old_root`: when an internal root loses its last pivot, `applyMessage` makes its
   child the root "because the old root is being deleted" (`BeTree.hpp:172`), but the old
   root is not deleted. It stays allocated, and its parent being 0 the cache never
   evicts it.
2. `tree_block`: `getSerializedSize` reserves room for `maxBufferSize` messages as "the
   maximum amount of keys and values we can have" (`BeTreeInternalNode.hpp:72`); merges,
   redistributions and the collapse of the root make larger buffers, which `create` and
   `flush` of the cache write all the same.
3. `store_mixed`: a removal beside an insert loses keys. The insert has released all locks
   but that of an index node `X` that cannot split; the removal climbs to the parent, and
   merges `X`, whose lock it does not take (`IndexNode.hpp:184`, `TODO: lock`), into its
   left sibling. The insert then adds the pivot of a split to `X`, which is no longer in
   the tree. A later removal of a key behind that pivot ends in
   `throw new std::logic_error("should not occur!")` (`BPlusStore.hpp:495`).
4. `store_stream`: with the file storage, storing a root that has just grown throws
   (`IndexNode.hpp:516`). Objects are stored from the tail of the list on, so that a node
   is to be stored after its children; but neither the new root nor, as a rule, the node
   beside the old one is among those that `insert` reorders, and the new root can end up
   behind its own child. `BPlusStore_LRUCache_FileStorage_Suite_1.cpp:258` expects `flush`
   to succeed. The memory storage does not check, and recovers: `FlushStoresAll` holds
   there up to the table of moved objects.
5. `shared_searches`: two searches miss the same moved data node ("TODO: requesting the
   same key?", `LRUCache.hpp:164`). The first follows the table and erases the entry; the
   second finds none and reads the storage at the old identifier, an address in memory.
   `BPlusStore_LRUCache_VolatileStorage_Suite_3.cpp:78-87` has threads that search all keys
   and assert that each is found.

Also worth knowing: `saveNode` returns 0 both for "not moved" and, for a new node, for a
full storage (`BeTreeFileStorage.hpp:96`), and `create` takes it for an identifier. The
`cache` run includes a full storage; `OnlyLostNodesLeak` says what happens then: such a
node costs an extent that nobody frees, and other nodes are not harmed.

`lowestSearchKey` can exceed keys of its own subtree at the left edge of the tree: an heir
takes over the messages of a collapsing root without looking at their keys. With fanout 3
and a buffer of 3, inserting 2, 3, 6, 4, 5, removing 2 and 6, inserting 1, removing 5 and 4
gets there. Nothing comes of it: at the left edge the value is only used by a node that
underflows, and the message that made it underflow has lowered it again. So
`LowestKeyIsSeparator` speaks of nodes with a left neighbour, and `FlushesCurrent` of what
an underflowing node does with the value.

A question the code asks: "3 seems to be working.. but how and why.. investiage....!"
(`BPlusStore.hpp:476`, on the number of locks a removal keeps). With all but the current
lock released `SiblingsPrivate` fails at once (the mutant `lockedAfter_All`): a removal
then overtakes another in the siblings. With three locks kept, those of
the current node, its parent and its grandparent, the workloads find no such case;
keeping two would do for them as well. This is no proof that three are enough for every
tree.

## What is proved

`BeTree_proofs.TypeCorrect`: `Spec => []TypeOK` for every fanout from 2 on, buffer size,
sets of keys, values and identifiers, under the assumptions declared in `BeTree`. It says
more than that variables have types: a leaf has as many values as keys, an internal node
a child more than pivots, and the changes passed upwards name a node where the receiver
uses one. `TypeOK` is not inductive: a well-typed state may be about to apply
a message to node `Nil`, or be in a flush with an empty stack, and the next step would
read what is not there. `RunningCall` excludes these: in `apply` the node is an
identifier and the key a key, in `flush` the stack is not empty, and while a call runs
there is a root. `TypeInv == TypeOK /\ RunningCall` is inductive. The proof has a lemma per action, on lemmas about the sequence operators
(`take`, `drop`, `InsertAt`, `RemoveAt`) and about the heap operators (`reparent`,
`linkBack`, `merged`, `adjusted`), which return a well-formed heap when given one.

`BeTreeShape_proofs`: `ShapeKept` is `Spec => []ShapeInv`, for every fanout from 2 on, buffer
size and set of identifiers; from it follow `LinksAgree`, `AllocationExact`, `NodesFilled`,
`RestructuringStopsFlush` and `UnderflowHasSibling`. The invariant has five parts:

* `TypeInv`, and `Childless`: a leaf has no children;
* `Shape(h)`: for some function `h` from nodes to levels the nodes in use are a `Tree`: each
  is listed once, by the node that it names as its parent; neighbours name one another,
  are on one level, and are what the children of one node, and of its neighbours, say; and
  the flushes on the stack lie on one path from the root down, one level apart, each
  knowing the place of its child;
* `Sizes`: every node has its share of keys, except the one in which a flush has just taken
  over what its child reported; this one may be off by one key;
* `Flow`: what holds at which point of the control, for instance that a child that reports
  a restructuring does not report `Success`, and that a frame with messages left to pass
  still has its child where it noted it.

`Shape` is not about `nodes` but about `settled`, the nodes as the caller will leave them. In
between the code leaves a state that is no tree: a node that was split off hangs
nowhere, one that was merged away still does. With what is pending counted as done the
tree is one in every state, `ChildReturns` changes nothing but its sizes, and each
restructuring is one step from tree to tree. These steps are lemmas of the second part of
`BeTree_proofs`, which say what a split, a transfer between neighbours, a merge, a new root and
a collapsed root keep, given what they leave of each link; `BeTreeShape_proofs` shows, action
by action, that the actions leave just that. Why is all of it one invariant? That a sibling exists
and is a node of the same kind needs the levels, that the levels stay uniform needs that a node
never loses its last child, and this needs the sizes; the sizes need that a flush stops
when its child was restructured, and so `Flow`. The one child of a root
without keys has no sibling; a clause of its own (`branches`) says that it is a leaf.
The recursive `subtree` of `AllocationExact` is solved first: what a node
reaches is the least set closed under children, which satisfies the equation.

`BeTreeOrder_proofs`: `OrderKept` is `Spec => []OrderInv`, for the same constants; from it
follow `KeysRouted`, `LowestKeyIsSeparator` and `FlushesCurrent`. `KeysRouted` alone is not
inductive. It speaks of whole subtrees, and only between two calls; a step sees one node and
its neighbours, in the middle of a call. `OrderInv` says the same one edge at a time, in every
state. Beside `ShapeInv` it has three parts:

* `Ordered(settled, ...)`, for some function `hi` from nodes to numbers. The pivots of a node
  ascend; the keys and messages of the node are at most `hi` of it; `hi` of a child is at
  most that of its parent, and below the pivot to the right of the child; and the
  `lowestSearchKey` of every child but the first is between the pivot to its left and
  its own `hi`. A node with a left neighbour also has nothing below its `lowestSearchKey`. So
  `lowestSearchKey` is the lower end of a node's interval and `hi` the upper one; the program
  keeps no upper end, hence the quantifier. At the left edge of the tree there is no lower end,
  which is what leaves room for the value that is too high there (see the findings).
* `Control(hi)`: the message in hand lies in the interval of the node that it is applied to;
  until a flush has heard what became of its child, it has the child where it noted it;
  and the `lowestSearchKey` of a node that flushes is not above its interval, even at
  the left edge: the message in its call has just lowered it. By this an
  underflowing node finds itself in its parent (`indexInParent`).
* `Batches`: what a suspended flush has left to pass is still in the buffer of its
  node, and belongs to the child that it is passed to. Without it a message could be passed to
  a child that has since given up the part of the interval that the message is in.

A restructuring takes keys, pivots, messages and children from some nodes and gives
them to others. The third part of `BeTree_proofs` describes this as two operations on
vectors, joining two neighbours into one node and cutting a node in two, and proves that
both keep the order: a split is a cut, a merge is a join, and a redistribution is
a join and a cut at another place. The left node of a cut is bounded by the pivot that
the cut makes, less one. So it does not matter how many keys move, nor in which
direction. `BeTreeOrder_proofs` shows, action by action, that the code
computes such joins and cuts, with what it tells its caller to do to the pivot between the two.

`BlockStorage_proofs`: `StorageTypeCorrect`, `TableStaysExact`, `NodesReadBack`, for every
block size, number of blocks and sizes of nodes. None of the three is inductive alone: an
overwrite keeps the other nodes' blocks only if extents do not overlap (`Apart`), and
`Apart` is kept by `SaveNew` only if the table marks every occupied block
(`TableExact`). `StorageInv` is their conjunction. The lemma `UnpackPacked` is what makes
the table survive in the file. `HeaderFits` is about the constants: the reserved blocks
hold the header and the table. `ScanIsFirstFit` is about the loop of `saveNode` for every
table: `LoopInv` says what its start and its count mean after each block (no free extent
ends before, the run that is being counted is free and could not begin earlier), and is proved
by an induction over the blocks.

`BeTreeCache_proofs`: `OneCopy` (`SingleCopy`), `NothingElseLeaks`
(`OnlyLostNodesLeak`), `CacheStaysNearCapacity` (an action property) and
`CacheIsNodeMemory`, the refinement of `NodeMemory`, for every capacity, number of
objects and size of storage. `CacheInv` adds to `SingleCopy` that an object has one entry and
one identifier (`ObjectsApart`), that the cache and the tree know no deleted node
(`Known`), that a changed node fits the place of its old version (`SizesKept`), and that
the storage is sound in the sense of `BlockStorage`. An eviction saves several nodes in
one step, so that the storage passes through states that no step shows:
`Saved(s, t, entries, K)` says what they have in common, and the lemma about `saveAll` goes
through the entries by induction. The refinement maps each live node to what a reader
would find (`current`): the cached object, or else the storage.

`MappedStorage_proofs`: `NodesReadBackFromBytes` (`NodesDecode`),
`HeaderStaysKept` (`HeaderKept`) and `DurableWhenReturned` (`DurableAtReturn`), for
every block size and number of blocks and every width of keys and values.
`contains(m, off, s)` says that the bytes `s` lie in the memory `m` from an offset on, and the
lemmas follow it through the writes of numbers, of padding, of several sequences after one
another, and through the reading of each. `keeps(m, nodes, t, r)` is a memory with its
header, its nodes and its table; `MappedInv` is that the memory that is read, and
the file where a class has written it through, are such memories. That a
write to one node leaves the bytes of the others alone is the `StorageInv` of
`BlockStorage`, brought down from blocks to bytes by `wellPlaced`. `LayoutAssumption` restricts
the theorems to nodes whose bytes fit what `getSerializedSize` reserves; where they do
not is finding 2.

`ObjectStorage_proofs`: `ObjectsStayReadable` (`ObjectsReadBack`), for each of the three
object storages, every block size and number of blocks and every width of keys and values.
The lemmas about bytes are those of `MappedStorage_proofs`. `ObjectInv` says that every
stored object lies in the memory, byte for byte, at the offset of its identifier and ends before
`m_nNextBlock`, and that no two objects have one offset: a storage writes only from the
next block on, so what was stored stays. Two things are not obvious. An
object that `addObjects` writes is placed by `prepareFlush`, which computes the blocks from
`getSize` while `addObject` computes them from what `serialize` reports, and gives the
second object of a list the identifier of the first: `Prepared` says that what
comes out are objects whose identifiers name the next blocks, each with room for its bytes. And
an exception in `writeToStream` leaves bytes behind the last block, or a gap: `RefusedKeeps`
and `RefusedInKeeps`. The theorem is about storages that are not written past their end (the
guards marked `bound`; the code does not check).

In the same module, `ReadOnlyNodesArePlain`: the refinement of `PlainNodes`, for every
degree and set of nodes. It needs `OnePlace`, that a node has its data in persistent memory
or in DRAM and never in both, since changes go to the one and getters ask the
other first.

`DataInduction` proves from the well-foundedness of the natural numbers that every
set of them has a least one, and from this induction in the form of sets (a set that
has 0 and with each number the next has them all). The library's induction theorems take a
predicate as a parameter and cannot be used here; a set can be. It is what the
proofs about `scan`, `saveAll`, bytes, `within` and `subtree` rest on.

Assumptions used: those named `...Assumption` in the modules, which TLC evaluates.
`ReservedAssumption` (the storage is large enough for its own header and table) is
the only one the code relies on without checking, beside `LayoutAssumption` and, for the
object storages, `OffsetsFit`.

Only model-checked:

* both `CallsReturn`: liveness, which the provers do not reach;
* the refinement of `Dictionary`: on top of `OrderInv` it needs what a search finds on the
  path of a key, where the message nearest to the root is the newest, and what each
  restructuring leaves of that path;
* all properties of `BPlusStore`, `CachedStore` and `SharedCache`. For the first, an inductive
  invariant has to say what every thread's locks protect; it is true only of workloads in
  phases (finding 3), so that it would be about the phases of an instance.

## What is not modelled

The components with status `not_modelled` in `PROJECT.json`, with the reasons there: the
first-generation B-tree with its caches and the toy program are in no CMake target, and
their headers do not fit together any more. Of the
modelled ones: printing; the tree over a storage that was opened again (`MappedStorage`
opens one, but the constructor of `BeTree` that would does not compile); a recovery after
a crash between `saveNode` and the destructor that writes the allocation table (nothing
promises one; `DurableAtReturn` says how far the nodes and the header go).

Of the object cache: `ObjectCache` and `SharedCache` take a place per node, and what lies
in it is the matter of `ObjectStorage`; the end of a storage (a real one is overrun,
nothing checks it); spurious wake-ups; removals beside the flush thread, which the store's own removals would be unsafe
with already (finding 3). `CachedStore` and `SharedCache` have no type invariant of their
own: their properties fail on, and TLC reports, any identifier or node of the wrong kind.
`BPlusStoreProps` defines one, `TypeOK`, as a description of the variables; no run lists it,
for the same reason. That of `BeTreeCache` is part of what `BeTreeCache_proofs` proves.
In `SharedCache` an entry of the table may stay behind for ever if parent and child
leave in one batch; it keeps an object alive, and no property forbids it.

## Plan

Done: the B-epsilon-tree with its contract, its cache and its storages down to the bytes,
the B+-tree store with its object cache, flush thread and storages, the read-only nodes;
proofs of the tree's shape and of the order of its keys, of the cache, of the allocator and
the bytes, of the object storages and of the read-only nodes. What remains worth doing:

1. `BeTree`: the refinement of `Dictionary`, on `OrderInv`: what `search` finds on the path of
   a key, first for a step that changes one node, then for joins and cuts.
2. `CachedStore`: `CleanIsStored`.
