----------------------------- MODULE SharedCache -----------------------------
(***************************************************************************)
(* The B+-tree store on top of the object cache, built with                *)
(* __TREE_WITH_CACHE__ and __CONCURRENT__ (LRUCache.hpp, BPlusStore.hpp;   *)
(* modules ObjectCache and StoreNodes): threads that insert and search,    *)
(* and the thread that flushes the cache in the background.                *)
(*                                                                         *)
(* m_mtxCache guards the objects and their list, m_mtxStorage the table of *)
(* moved objects, but the flush thread fills in the new identifiers of the *)
(* objects it has written without it.  A step is a stretch of the code     *)
(* between two points where a lock is taken or released, or a thread       *)
(* waits.                                                                  *)
(***************************************************************************)
EXTENDS ObjectCache

CONSTANTS
  Key,
  Value,
  Absent,
  None,
  Thread,
  Address,       \* where objects can live
  Capacity,      \* the cache sizes to consider
  Pivots,        \* the index node's, at first
  DataNodes,     \* its children
  FlushCount     \* FLUSH_COUNT: how many objects are flushed at once

ASSUME AnswerAssumption == Absent \notin Value /\ None \notin Value \cup {Absent}
ASSUME CapacityAssumption == Capacity \subseteq Nat
ASSUME FlushAssumption == FlushCount \in Nat

VARIABLES
  cache,          \* as in ObjectCache; moved to Pending while an object is written
  m_uidRootNode,
  m_mtxCache,     \* who has the lock, or Free
  m_mtxStorage,
  thread,         \* what each thread does
  flusher         \* what the flush thread does, vtObjects, how many of them are done

vars == <<cache, m_uidRootNode, m_mtxCache, m_mtxStorage, thread, flusher>>

locking == <<m_mtxCache, m_mtxStorage>>

-----------------------------------------------------------------------------

Free == "free"
Flusher == "flusher"
Pending == [media |-> "None", at |-> 1]    \* std::nullopt

TreeLock == Nil   \* m_mutex; the lock of a node is named by the node

Idle == [op |-> None, key |-> None, value |-> None, pc |-> "idle",
         cur |-> Nil,         \* uidCurrentNode
         at |-> Nil,          \* where getObject will find it
         path |-> << >>,      \* vtAccessedNodes
         vtNodes |-> << >>,   \* the nodes to climb back through, root first
         vtLocks |-> << >>,
         pivot |-> None,      \* pivotKey and uidRHSNode: what a split left
         rhs |-> Nil,         \*   for the parent
         below |-> Nil,       \* uidLHSNode: the round before
         reply |-> None]

uses(t) == heldIn(thread[t].path)
locks(t) == ToSet(thread[t].vtLocks)
last(t) == IF thread[t].path = << >> THEN Nil ELSE Last(thread[t].path).uid
visited(t) == nodeAt(cache, last(t))

\* use_count and try_lock: a thread has the object, or still its lock.
inUse_Unlocked(uid) == \E t \in Thread : uid \in uses(t)          \* mutant
inUse(uid) == \E t \in Thread : uid \in uses(t) \cup locks(t)

\* An address at which no object lives.
alive == DOMAIN cache.objects \cup DOMAIN cache.moved \cup {e.uid : e \in ToSet(flusher.batch)}
fresh ==
  Volatile(CHOOSE a \in Address :
    /\ Volatile(a) \notin alive
    /\ \A b \in Address : Volatile(b) \in alive \/ a <= b)

\* std::shared_mutex: only searches share.
mayLock(t, op, m) ==
  \A u \in Thread \ {t} : m \in locks(u) => op = "search" /\ thread[u].op = "search"

root == Volatile(0)
children == [i \in DOMAIN DataNodes |-> Volatile(i)]

\* All nodes are in memory.
Init ==
  /\ \E capacity \in Capacity :
       cache = [EmptyCache(capacity) EXCEPT
         !.lru = <<root>> \o children,
         !.objects = [uid \in {root} \cup ToSet(children) |->
           [dirty |-> TRUE, node |-> IF uid = root THEN IndexNode(Pivots, children) ELSE DataNodes[uid.at]]]]
  /\ m_uidRootNode = root
  /\ m_mtxCache = Free /\ m_mtxStorage = Free
  /\ thread = [t \in Thread |-> Idle]
  /\ flusher = [pc |-> "sleep", batch |-> << >>, done |-> 0]

-----------------------------------------------------------------------------
(* getObject *)

Start(t, op, k, v) ==
  /\ thread[t].pc = "idle"
  /\ mayLock(t, op, TreeLock)
  /\ thread' = [thread EXCEPT ![t] =
       [Idle EXCEPT !.op = op, !.key = k, !.value = v, !.pc = "get",
                    !.cur = m_uidRootNode, !.vtLocks = <<TreeLock>>]]
  /\ UNCHANGED <<cache, m_uidRootNode, locking, flusher>>

\* The thread has the object at uid; a new identifier goes to the parent, or to
\* the store if it is the root.
Arrive(t, c, uid) ==
  LET old == thread[t].cur
      n == nodeAt(c, last(t))
  IN /\ cache' = IF uid = old \/ last(t) = Nil THEN c
                 ELSE IF positions(n, old) = {} THEN throwIf(c, TRUE)
                 ELSE write(c, last(t), renamed(n, old, uid))
     /\ m_uidRootNode' = IF uid # old /\ last(t) = Nil THEN uid ELSE m_uidRootNode
     /\ thread' = [thread EXCEPT ![t].pc = "lock", ![t].path = Append(@, held(uid))]

GetCached(t) ==
  /\ thread[t].pc = "get" /\ m_mtxCache = Free
  /\ cached(cache, thread[t].cur)
  /\ Arrive(t, moveToFront(cache, thread[t].cur), thread[t].cur)
  /\ UNCHANGED <<locking, flusher>>

\* A miss: the lock of the cache is kept until that of the storage is taken.
Miss(t) ==
  /\ thread[t].pc = "get" /\ m_mtxCache = Free
  /\ ~cached(cache, thread[t].cur)
  /\ m_mtxCache' = t
  /\ thread' = [thread EXCEPT ![t].pc = "storage"]
  /\ UNCHANGED <<cache, m_uidRootNode, m_mtxStorage, flusher>>

TakeStorage(t) ==
  /\ thread[t].pc = "storage" /\ m_mtxStorage = Free
  /\ m_mtxStorage' = t /\ m_mtxCache' = Free
  /\ thread' = [thread EXCEPT ![t].pc = "table"]
  /\ UNCHANGED <<cache, m_uidRootNode, flusher>>

\* What a reader waits for.
placed_Any(t) == TRUE                                          \* mutant
placed(t) == newUID(cache.moved, thread[t].cur) # Pending

\* The object is not in the table, or it is there with its new identifier.
FollowTable(t) ==
  LET uid == thread[t].cur
  IN /\ thread[t].pc = "table" /\ placed(t)
     /\ thread' = [thread EXCEPT ![t].pc = "read", ![t].at = newUID(cache.moved, uid)]
     /\ cache' = [cache EXCEPT !.moved = without(@, uid)]
     /\ m_mtxStorage' = Free
     /\ UNCHANGED <<m_uidRootNode, m_mtxCache, flusher>>

\* It is still being written: the thread is about to wait, and then waits.
FindPending(t) ==
  /\ thread[t].pc = "table" /\ ~placed(t)
  /\ thread' = [thread EXCEPT ![t].pc = "block"]
  /\ UNCHANGED <<cache, m_uidRootNode, locking, flusher>>

Block(t) ==
  /\ thread[t].pc = "block"
  /\ thread' = [thread EXCEPT ![t].pc = "blocked"]
  /\ m_mtxStorage' = Free
  /\ UNCHANGED <<cache, m_uidRootNode, m_mtxCache, flusher>>

\* Once notified it takes the lock again and looks at the same entry.  If another
\* thread has used up the entry, the assertion that it has a value fails.
Wake(t) ==
  /\ thread[t].pc = "woken" /\ m_mtxStorage = Free
  /\ m_mtxStorage' = t
  /\ thread' = [thread EXCEPT ![t].pc = "table"]
  /\ cache' = throwIf(cache, thread[t].cur \notin DOMAIN cache.moved)
  /\ UNCHANGED <<m_uidRootNode, m_mtxCache, flusher>>

\* The object is read from the storage, unless another thread was faster.
Load(t) ==
  LET uid == thread[t].at
  IN /\ thread[t].pc = "read" /\ m_mtxCache = Free
     /\ Arrive(t, IF cached(cache, uid) THEN moveToFront(cache, uid) ELSE loaded(cache, uid), uid)
     /\ UNCHANGED <<locking, flusher>>

-----------------------------------------------------------------------------
(* insert and search *)

\* A search gives up the parent's lock once it has the child's.
LockNode(t) ==
  /\ thread[t].pc = "lock" /\ mayLock(t, thread[t].op, last(t))
  /\ thread' = [thread EXCEPT
       ![t].vtLocks = IF thread[t].op = "search" THEN <<last(t)>> ELSE Append(@, last(t)),
       ![t].pc = "visit"]
  /\ UNCHANGED <<cache, m_uidRootNode, locking, flusher>>

\* If the node has room for a pivot, the locks above it are not needed.
VisitIndexNode(t) ==
  LET above == IF Len(thread[t].path) = 1 THEN Nil ELSE thread[t].path[Len(thread[t].path) - 1].uid
      mayClimb == thread[t].op = "insert" /\ canTriggerSplit(visited(t))
  IN /\ thread[t].pc = "visit" /\ ~visited(t).leaf
     /\ thread' = [thread EXCEPT
          ![t].vtNodes = IF mayClimb THEN Append(@, above) ELSE << >>,
          ![t].vtLocks = IF mayClimb THEN @ ELSE <<Last(@)>>,
          ![t].cur = getChild(visited(t), thread[t].key),
          ![t].pc = "get"]
     /\ UNCHANGED <<cache, m_uidRootNode, locking, flusher>>

SearchDataNode(t) ==
  /\ thread[t].pc = "visit" /\ thread[t].op = "search" /\ visited(t).leaf
  /\ thread' = [thread EXCEPT
       ![t].reply = IF holds(visited(t), thread[t].key)
                      THEN visited(t).items[lowerBound(visited(t), thread[t].key) + 1] ELSE Absent,
       ![t].pc = "climb"]
  /\ UNCHANGED <<cache, m_uidRootNode, locking, flusher>>

InsertInDataNode(t) ==
  LET n == withEntry(visited(t), thread[t].key, thread[t].value)
      above == thread[t].path[Len(thread[t].path) - 1].uid
  IN /\ thread[t].pc = "visit" /\ thread[t].op = "insert" /\ visited(t).leaf
     /\ cache' = write(cache, last(t), n)
     /\ thread' = [thread EXCEPT
          ![t].vtNodes = IF requireSplit(n) THEN @ \o <<above, last(t)>> ELSE << >>,
          ![t].vtLocks = IF requireSplit(n) THEN @ ELSE << >>,
          ![t].reply = "Success",
          ![t].pc = "climb"]
     /\ UNCHANGED <<m_uidRootNode, locking, flusher>>

top(t) == Last(thread[t].vtNodes)
topNode(t) == nodeAt(cache, top(t))
popped(t) == Front(thread[t].vtNodes)

Climbs(t) == thread[t].pc = "climb" /\ thread[t].vtNodes # << >>

\* createObjectOfType; it does not evict, that is left to the flush thread.
created(c, uid, n) == insertFirst(c, uid, [node |-> n, dirty |-> TRUE])

\* The node that the split made comes after entry i of the nodes to reorder.
withRHS(t, i) == InsertAt(thread[t].path, i + 1, named(thread[t].rhs))
position(t, uid) == CHOOSE i \in DOMAIN thread[t].path : thread[t].path[i].uid = uid

SplitTop(t, n, path) ==
  /\ m_mtxCache = Free
  /\ cache' = created(write(cache, top(t), splitLeft(n)), fresh, splitRight(n))
  /\ thread' = [thread EXCEPT ![t].pivot = splitPivot(n), ![t].rhs = fresh, ![t].below = top(t),
                              ![t].path = path, ![t].vtNodes = popped(t)]

SplitDataNode(t) ==
  /\ Climbs(t) /\ top(t) # Nil
  /\ topNode(t).leaf
  /\ SplitTop(t, topNode(t), thread[t].path)
  /\ UNCHANGED <<m_uidRootNode, locking, flusher>>

InsertPivot(t) ==
  /\ Climbs(t) /\ top(t) # Nil
  /\ ~topNode(t).leaf
  /\ LET n == withPivot(topNode(t), thread[t].pivot, thread[t].rhs)
         path == withRHS(t, position(t, top(t)))
     IN IF requireSplit(n)
          THEN SplitTop(t, n, path)
          ELSE /\ cache' = write(cache, top(t), n)
               /\ thread' = [thread EXCEPT ![t].rhs = Nil, ![t].below = top(t),
                                           ![t].path = path, ![t].vtNodes = popped(t)]
  /\ UNCHANGED <<m_uidRootNode, locking, flusher>>

\* As in module CachedStore, the node beside the old root is reordered only if an
\* uninitialised identifier happens to be that of a visited node.
GrowRoot(t) ==
  /\ Climbs(t) /\ thread[t].vtNodes = <<Nil>> /\ m_mtxCache = Free
  /\ cache' = created(cache, fresh,
                      IndexNode(<<thread[t].pivot>>, <<thread[t].below, thread[t].rhs>>))
  /\ m_uidRootNode' = fresh
  /\ \E i \in 0 .. Len(thread[t].path) :
       thread' = [thread EXCEPT ![t].path = IF i = 0 THEN @ ELSE withRHS(t, i),
                                ![t].rhs = Nil, ![t].vtNodes = << >>]
  /\ UNCHANGED <<locking, flusher>>

\* The objects are let go before the locks.
Reorder(t) ==
  /\ thread[t].pc = "climb" /\ thread[t].vtNodes = << >> /\ m_mtxCache = Free
  /\ cache' = reorder(cache, thread[t].path, TRUE)
  /\ thread' = [thread EXCEPT ![t].path = << >>, ![t].pc = "return"]
  /\ UNCHANGED <<m_uidRootNode, locking, flusher>>

Return(t) ==
  /\ thread[t].pc = "return"
  /\ thread' = [thread EXCEPT ![t] = Idle]
  /\ UNCHANGED <<cache, m_uidRootNode, locking, flusher>>

-----------------------------------------------------------------------------
(* flushItemsToStorage, again and again *)

entry(uid) == [uid |-> uid, to |-> Pending, dirty |-> cache.objects[uid].dirty,
               node |-> nodeAt(cache, uid)]

\* A round with nothing to evict goes on, and notifies the readers.
flushes_Full == Len(cache.lru) > cache.capacity                \* mutant
flushes == Len(cache.lru) >= cache.capacity

\* Objects beyond the capacity leave the cache, from the tail until one is in use.
SelectVictims ==
  LET size == Len(cache.lru)
      excess == IF size - cache.capacity > FlushCount THEN FlushCount ELSE size - cache.capacity
      free(k) == \A i \in size - k + 1 .. size : ~inUse(cache.lru[i])
      n == Cardinality({k \in 1 .. excess : free(k)})
      victims == [i \in 1 .. n |-> cache.lru[size - i + 1]]
  IN /\ flusher.pc = "sleep" /\ m_mtxCache = Free
     /\ flushes
     /\ cache' = [cache EXCEPT !.lru = SubSeq(@, 1, size - n),
                               !.objects = Restrict(@, DOMAIN @ \ ToSet(victims))]
     /\ flusher' = [pc |-> "prepare", batch |-> [i \in 1 .. n |-> entry(victims[i])], done |-> 0]
     /\ m_mtxCache' = Flusher
     /\ UNCHANGED <<m_uidRootNode, m_mtxStorage, thread>>

Rest == flusher.pc = "sleep" /\ m_mtxCache = Free /\ ~flushes /\ UNCHANGED vars

\* applyExistingUpdates and prepareFlush: children that moved before, or that are
\* earlier in the batch, get their new identifiers; objects that are not changed
\* are dropped; the others get a place, and an entry in the table.
prepared(batch, moved, blocks) ==
  LET places(done) == [uid \in {e.uid : e \in ToSet(done)} |->
                         (CHOOSE e \in ToSet(done) : e.uid = uid).to]
      done[i \in 0 .. Len(batch)] ==
        IF i = 0 THEN << >>
        ELSE LET e == batch[i]
                 n == updatedChildren(updatedChildren(e.node, moved), places(done[i - 1]))
                 to == File(blocks + Len(done[i - 1]) + 1)
             IN IF e.dirty \/ n # e.node
                  THEN Append(done[i - 1], [uid |-> e.uid, to |-> to, dirty |-> TRUE, node |-> n])
                  ELSE done[i - 1]
  IN done[Len(batch)]

\* The lock of the cache is released as soon as that of the storage is taken.
PrepareFlush ==
  LET pending[i \in 0 .. Len(flusher.batch)] ==
        IF i = 0 THEN cache.moved ELSE pendingUpdates(flusher.batch[i].node, pending[i - 1])
      table == pending[Len(flusher.batch)]
      batch == prepared(flusher.batch, cache.moved, Len(cache.storage))
      uids == {e.uid : e \in ToSet(batch)}
  IN /\ flusher.pc = "prepare" /\ m_mtxStorage = Free
     /\ cache' = throwIf([cache EXCEPT !.moved = [uid \in uids \cup DOMAIN table |->
                                             IF uid \in uids THEN Pending ELSE table[uid]]],
                         uids \cap DOMAIN table # {})
     /\ flusher' = [flusher EXCEPT !.pc = "add", !.batch = batch]
     /\ m_mtxCache' = Free
     /\ UNCHANGED <<m_uidRootNode, m_mtxStorage, thread>>

AddObjects ==
  /\ flusher.pc = "add"
  /\ cache' = [cache EXCEPT !.storage = @ \o [i \in DOMAIN flusher.batch |-> flusher.batch[i].node]]
  /\ flusher' = [flusher EXCEPT !.pc = "publish"]
  /\ UNCHANGED <<m_uidRootNode, locking, thread>>

\* One entry of the table is filled in, without its lock.
Publish ==
  /\ flusher.pc = "publish" /\ flusher.done < Len(flusher.batch)
  /\ LET e == flusher.batch[flusher.done + 1]
     IN cache' = throwIf([cache EXCEPT !.moved = added(@, e.uid, e.to)], e.uid \notin DOMAIN cache.moved)
  /\ flusher' = [flusher EXCEPT !.done = @ + 1]
  /\ UNCHANGED <<m_uidRootNode, locking, thread>>

\* notify_all wakes the threads that wait by now; vtObjects lets the objects go.
Notify ==
  /\ flusher.pc = "publish" /\ flusher.done = Len(flusher.batch)
  /\ thread' = [t \in Thread |->
       IF thread[t].pc = "blocked" THEN [thread[t] EXCEPT !.pc = "woken"] ELSE thread[t]]
  /\ flusher' = [pc |-> "sleep", batch |-> << >>, done |-> 0]
  /\ UNCHANGED <<cache, m_uidRootNode, locking>>

-----------------------------------------------------------------------------

GetObject(t) ==
  \/ GetCached(t) \/ Miss(t) \/ TakeStorage(t) \/ FollowTable(t)
  \/ FindPending(t) \/ Block(t) \/ Wake(t) \/ Load(t)

Step(t) ==
  \/ GetObject(t) \/ LockNode(t) \/ VisitIndexNode(t)
  \/ SearchDataNode(t) \/ InsertInDataNode(t)
  \/ SplitDataNode(t) \/ InsertPivot(t) \/ GrowRoot(t) \/ Reorder(t) \/ Return(t)

FlushStep == Rest \/ SelectVictims \/ PrepareFlush \/ AddObjects \/ Publish \/ Notify

Next ==
  \/ \E t \in Thread, k \in Key : Start(t, "search", k, None) \/ \E v \in Value : Start(t, "insert", k, v)
  \/ \E t \in Thread : Step(t)
  \/ FlushStep

\* The flush thread sleeps 100 ms between two rounds, long enough for a thread
\* that wants a lock to have it; a reader waits its turn at a node.
Fairness == WF_vars(FlushStep) /\ \A t \in Thread : SF_vars(Step(t))

Spec == Init /\ [][Next]_vars /\ Fairness
=============================================================================
