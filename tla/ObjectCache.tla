----------------------------- MODULE ObjectCache -----------------------------
(***************************************************************************)
(* The object cache and its storage, built without __CONCURRENT__          *)
(* (LRUCache.hpp, VolatileStorage.hpp, FileStorage.hpp, ObjectFatUID.h).   *)
(*                                                                         *)
(* An object's identifier says where it is: at an address, if it was made  *)
(* in memory, or in a block of the storage.  Evicting a changed object     *)
(* appends it to the storage under a new identifier; until the parent      *)
(* learns of it, m_mpUpdatedUIDs leads from the old one to the new one and *)
(* keeps the object alive, so that its address is not used again.          *)
(*                                                                         *)
(* A cache is a record, an operation a function from caches to caches:     *)
(*   capacity  m_nCacheCapacity                                            *)
(*   objects   m_mpObjects, the node and the dirty flag of each identifier *)
(*   lru       the list from m_ptrHead to m_ptrTail                        *)
(*   moved     m_mpUpdatedUIDs                                             *)
(*   storage   the stored nodes; one block holds one                       *)
(*   fault     what went wrong, if anything did                            *)
(***************************************************************************)
EXTENDS StoreNodes

CONSTANT StreamStorage  \* FileStorage writes a node field by field, and checks it

ASSUME StorageAssumption == StreamStorage \in BOOLEAN

-----------------------------------------------------------------------------
(* ObjectFatUID *)

Volatile(address) == [media |-> "Volatile", at |-> address]
File(block) == [media |-> "File", at |-> block]
Nil == [media |-> "None", at |-> 0]     \* no node: the parent of the root

-----------------------------------------------------------------------------

EmptyCache(capacity) ==
  [capacity |-> capacity, objects |-> << >>, lru |-> << >>, moved |-> << >>,
   storage |-> << >>, fault |-> "none"]

cached(c, uid) == uid \in DOMAIN c.objects
nodeAt(c, uid) == c.objects[uid].node
added(f, x, y) == [u \in DOMAIN f \cup {x} |-> IF u = x THEN y ELSE f[u]]
without(f, x) == Restrict(f, DOMAIN f \ {x})

\* "should not occur!": an exception that no caller catches.
throwIf(c, cond) == IF cond /\ c.fault = "none" THEN [c EXCEPT !.fault = "throws"] ELSE c

moveToFront(c, uid) == [c EXCEPT !.lru = <<uid>> \o Remove(@, uid)]

insertFirst(c, uid, object) ==
  [c EXCEPT !.objects = added(@, uid, object), !.lru = <<uid>> \o @]

\* The tree changes the node of a cached object and sets its dirty flag.
write_Clean(c, uid, n) == [c EXCEPT !.objects[uid].node = n]   \* mutant
write(c, uid, n) == [c EXCEPT !.objects[uid] = [node |-> n, dirty |-> TRUE]]

\* updateChildUID: the first child that has the old identifier.
positions(n, uid) == {i \in DOMAIN n.items : n.items[i] = uid}
renamed(n, old, new) == [n EXCEPT !.items[Min(positions(n, old))] = new]

-----------------------------------------------------------------------------
(* Eviction *)

newUID(moved, uid) == IF uid \in DOMAIN moved THEN moved[uid] ELSE uid

\* applyExistingUpdates, which BPlusStore implements: the children of an index
\* node that were stored since the node was read.
updatedChildren(n, moved) ==
  IF n.leaf THEN n
  ELSE [n EXCEPT !.items = [i \in DOMAIN n.items |-> newUID(moved, n.items[i])]]

pendingUpdates(n, moved) == IF n.leaf THEN moved ELSE Restrict(moved, DOMAIN moved \ ToSet(n.items))

\* IndexNode::writeToStream refuses a child that has no place in the storage.
unwritable(n) == StreamStorage /\ ~n.leaf /\ \E u \in ToSet(n.items) : u.media = "Volatile"

addObject_Kept(c, uid) ==                                      \* mutant
  LET n == updatedChildren(nodeAt(c, uid), c.moved)
  IN [c EXCEPT !.objects[uid].node = n, !.storage = Append(@, n),
               !.moved = added(@, uid, File(Len(c.storage) + 1))]
addObject(c, uid) ==
  LET n == updatedChildren(nodeAt(c, uid), c.moved)
      pending == pendingUpdates(nodeAt(c, uid), c.moved)
  IN throwIf([c EXCEPT !.objects[uid].node = n,
                       !.storage = Append(@, n),
                       !.moved = added(pending, uid, File(Len(c.storage) + 1))],
             unwritable(n) \/ uid \in DOMAIN pending)

evictTail(c) ==
  LET uid == Last(c.lru)
      d == IF c.objects[uid].dirty THEN addObject(c, uid) ELSE c
  IN [d EXCEPT !.objects = without(@, uid), !.lru = Front(@)]

\* Objects are evicted from the tail until one is in use or enough are gone.
flushItemsToStorage_Any(c, inUse) ==                           \* mutant
  LET flush[k \in Nat] == IF k = 0 THEN c ELSE evictTail(flush[k - 1])
  IN IF Len(c.lru) <= c.capacity THEN c ELSE flush[Len(c.lru) - c.capacity]
flushItemsToStorage(c, inUse) ==
  LET evictable(k) == \A i \in Len(c.lru) - k + 1 .. Len(c.lru) : c.lru[i] \notin inUse
      most == Cardinality({k \in 1 .. Len(c.lru) - c.capacity : evictable(k)})
      flush[k \in Nat] == IF k = 0 THEN c ELSE evictTail(flush[k - 1])
  IN flush[most]

-----------------------------------------------------------------------------
(* The operations *)

\* Where getObject finds the object: a miss follows m_mpUpdatedUIDs.
found(c, uid) == IF cached(c, uid) THEN uid ELSE newUID(c.moved, uid)

\* A miss reads the storage; the object that was evicted is let go.  The bytes at
\* an address that is no block of the storage are read as some node or other.
loaded(c, uid) ==
  LET at == found(c, uid)
      stored == at.media = "File"
      d == IF stored THEN c ELSE [c EXCEPT !.fault = "garbage"]
  IN insertFirst([d EXCEPT !.moved = without(@, uid)], at,
       [node |-> IF stored THEN c.storage[at.at] ELSE DataNode(<< >>, << >>), dirty |-> FALSE])

getObject(c, uid, inUse) ==
  IF cached(c, uid) THEN moveToFront(c, uid)
  ELSE flushItemsToStorage(loaded(c, uid), inUse \cup {found(c, uid)})

\* For a sibling, which is about to be changed; it does not evict.
getObjectOfType(c, uid) ==
  LET d == IF cached(c, uid) THEN moveToFront(c, uid) ELSE loaded(c, uid)
  IN [d EXCEPT !.objects[found(c, uid)].dirty = TRUE]

createObjectOfType(c, uid, n, inUse) ==
  flushItemsToStorage(insertFirst(c, uid, [node |-> n, dirty |-> TRUE]), inUse \cup {uid})

removeFromLRU(lru, uid) == Remove(lru, uid)

remove_Listed(c, uid) ==                                       \* mutant
  IF cached(c, uid) THEN [c EXCEPT !.objects = without(@, uid)] ELSE c
remove(c, uid) ==
  IF cached(c, uid) THEN [c EXCEPT !.objects = without(@, uid), !.lru = removeFromLRU(@, uid)]
  ELSE c

\* An entry of vtAccessedNodes: a node that the operation holds, or one that a
\* split has made, of which it has only the identifier.
held(uid) == [uid |-> uid, held |-> TRUE]
named(uid) == [uid |-> uid, held |-> FALSE]
heldIn(path) == {e.uid : e \in {f \in ToSet(path) : f.held}}

\* The nodes of a path, root first, come to the front of the list.
reorder(c, path, ensure) ==
  LET uids == [i \in DOMAIN path |-> path[i].uid]
      front == SelectSeq(uids, LAMBDA uid : cached(c, uid))
  IN throwIf([c EXCEPT !.lru = front \o SelectSeq(@, LAMBDA uid : uid \notin ToSet(uids))],
             ensure /\ Len(front) < Len(path))

\* Every changed object among the last n is stored, from the tail on, and found
\* under its new identifier from then on.
flushedTail(c, n) ==
  LET flush[k \in Nat] ==
        IF k = 0 THEN c
        ELSE LET d == flush[k - 1]
                 uid == c.lru[Len(c.lru) - k + 1]
                 e == addObject(d, uid)
             IN IF ~d.objects[uid].dirty THEN d
                ELSE [e EXCEPT !.objects = added(without(@, uid), e.moved[uid], @[uid])]
  IN flush[n]

flushCacheToStorage_NotHead(c) == flushedTail(c, Len(c.lru) - 1) \* mutant
flushCacheToStorage(c) == flushedTail(c, Len(c.lru))
=============================================================================
