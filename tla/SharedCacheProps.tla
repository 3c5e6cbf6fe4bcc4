-------------------------- MODULE SharedCacheProps --------------------------
(***************************************************************************)
(* What the object cache keeps while threads use it and its flush thread   *)
(* works: properties of module SharedCache.                                *)
(***************************************************************************)
EXTENDS SharedCache

-----------------------------------------------------------------------------
(* The promise *)

\* The place in the storage that a thread is about to read for an identifier.
sought(uid) == {t \in Thread : thread[t].pc = "read" /\ thread[t].cur = uid}

written(uid) ==
  {e \in ToSet(SubSeq(flusher.batch, flusher.done + 1, Len(flusher.batch))) : uid \in {e.uid, e.to}}

\* The node that an identifier in the tree stands for, wherever it is: in the
\* cache, on its way to the storage, or in the storage under a new identifier.
nodeOf(uid) ==
  LET at == IF sought(uid) = {} THEN newUID(cache.moved, uid)
            ELSE thread[CHOOSE t \in sought(uid) : TRUE].at
  IN IF cached(cache, uid) THEN nodeAt(cache, uid)
     ELSE IF written(uid) # {} THEN (CHOOSE e \in written(uid) : TRUE).node
     ELSE IF cached(cache, at) THEN nodeAt(cache, at)
     ELSE IF at.media = "File" /\ at.at <= Len(cache.storage) THEN cache.storage[at.at]
     ELSE DataNode(<< >>, << >>)

\* The tree, and what a split has not yet handed to the parent.
roots == ({m_uidRootNode} \cup {thread[t].rhs : t \in Thread}) \ {Nil}

dataNodes[uid \in [media : STRING, at : Nat]] ==
  LET n == nodeOf(uid)
  IN IF n.leaf THEN {n} ELSE UNION {dataNodes[c] : c \in ToSet(n.items)}

Contents ==
  LET all == UNION {dataNodes[uid] : uid \in roots}
      with(k) == {n \in all : k \in ToSet(n.keys)}
      valueIn(n, k) == n.items[lowerBound(n, k) + 1]
  IN [k \in Key |-> IF with(k) = {} THEN Absent ELSE valueIn(CHOOSE n \in with(k) : TRUE, k)]

Running == [t \in Thread |->
  IF thread[t].op = None THEN None
  ELSE [op |-> thread[t].op, key |-> thread[t].key, value |-> thread[t].value]]

Promise == INSTANCE ConcurrentMap WITH
  map <- Contents, request <- Running, reply <- [t \in Thread |-> thread[t].reply]

\* insert and search act at one moment each, although the nodes they need leave
\* the cache and come back under other identifiers: the background flush changes
\* nothing that a thread could notice, and no insert goes to a copy that is lost.
ActsAsMap == [][Promise!Next]_Promise!vars

-----------------------------------------------------------------------------
(* The cache *)

\* Nothing that "should not occur!" does: no object in use is flushed, none is
\* flushed under an identifier that is still in the table, no entry of the table
\* is gone when the flush thread or a reader it has woken comes back to it, and
\* every node an operation has visited is still cached when it is reordered.
NoFault == cache.fault = "none"

\* What a thread has, or has the lock of, stays in the cache, so that no change is
\* made to an object that the flush thread writes, and no lock is released of one
\* that it has dropped.
InUseIsCached ==
  \A t \in Thread : uses(t) \cup locks(t) \subseteq DOMAIN cache.objects \cup {TreeLock}

\* Suite_3_BPlusStore_LRUCache_VolatileStorage: threads that search find the value
\* of every key, whichever nodes the cache has to read again for them.
SearchesFind ==
  \A t \in Thread :
    thread[t].op = "search" /\ thread[t].reply # None => thread[t].reply = Contents[thread[t].key]

\* Every operation returns: a reader that goes to sleep just after notify_all has
\* been called is woken by a later round of the flush thread.
CallsReturn == \A t \in Thread : thread[t].op # None ~> thread[t].op = None
=============================================================================
