-------------------------- MODULE CachedStoreProps --------------------------
(***************************************************************************)
(* What the B+-tree store keeps while its nodes go to the storage and come *)
(* back: properties of module CachedStore.                                 *)
(***************************************************************************)
EXTENDS CachedStore

\* The identifiers there are.
UID ==
  [media : {"Volatile"}, at : Address] \cup [media : {"File"}, at : 1 .. Len(cache.storage)]

-----------------------------------------------------------------------------
(* The promise *)

\* The node that an identifier in the tree stands for.
nodeOf(uid) ==
  LET at == found(cache, uid)
  IN IF cached(cache, at) THEN nodeAt(cache, at) ELSE cache.storage[at.at]

subtree[uid \in [media : STRING, at : Nat]] ==
  LET n == nodeOf(uid)
  IN {uid} \cup IF n.leaf THEN {} ELSE UNION {subtree[c] : c \in ToSet(n.items)}

\* The nodes of the tree, and those a split has not yet handed to the parent.
roots == {m_uidRootNode, call.rhs} \ {Nil}
tree == UNION {subtree[uid] : uid \in roots}

dataNodes[uid \in [media : STRING, at : Nat]] ==
  LET n == nodeOf(uid)
  IN IF n.leaf THEN {n} ELSE UNION {dataNodes[c] : c \in ToSet(n.items)}

Contents ==
  LET all == UNION {dataNodes[uid] : uid \in roots}
      with(k) == {n \in all : k \in ToSet(n.keys)}
      valueIn(n, k) == n.items[lowerBound(n, k) + 1]
  IN [k \in Key |-> IF with(k) = {} THEN Absent ELSE valueIn(CHOOSE n \in with(k) : TRUE, k)]

Caller == {"caller"}

Running == [t \in Caller |->
  IF call.op = None THEN None ELSE [op |-> call.op, key |-> call.key, value |-> call.value]]

Promise == INSTANCE ConcurrentMap WITH
  map <- Contents, request <- Running, reply <- [t \in Caller |-> call.reply], Thread <- Caller

\* Whatever the cache evicts and reloads on the way, and under whichever
\* identifiers, each operation does what it would do to a map: no change is left
\* behind in an evicted copy, no node is looked for where it no longer is.
ImplementsMap == Promise!Spec

\* Nothing that "should not occur!" does (LRUCache.hpp, IndexNode.hpp): a moved
\* object's identifier is not moved again, what a call has visited is still cached
\* when it is reordered, and no address in memory is taken for a place in the storage.
NoFault == cache.fault = "none"

-----------------------------------------------------------------------------
(* Identifiers *)

idle == call.pc \in {"idle", "flushed"}

references(uid) ==
  {<<p, i>> \in UNION {{p} \X DOMAIN nodeOf(p).items : p \in {q \in tree : ~nodeOf(q).leaf}} :
     nodeOf(p).items[i] = uid}

\* While no call runs, an identifier that waits to be replaced is that of one node
\* of the tree: each entry of m_mpUpdatedUIDs is used once and none is left over,
\* to keep an object alive for ever or to lead a later object astray.
MovedReferenced ==
  idle => \A uid \in DOMAIN cache.moved :
    IF uid = m_uidRootNode THEN references(uid) = {} ELSE Cardinality(references(uid)) = 1

\* The list and the map of the cache agree, and hold each node of the tree at most
\* once: none under both its old and its new identifier, none that the tree lost.
SingleCopy ==
  idle /\ running =>
    /\ Len(cache.lru) = Cardinality(ToSet(cache.lru))
    /\ call.pc # "flushed" => ToSet(cache.lru) = DOMAIN cache.objects
    /\ \A uid \in DOMAIN cache.objects : Cardinality({v \in tree : found(cache, v) = uid}) = 1

\* An object that is not marked dirty is dropped when it is evicted: what the
\* storage has under its identifier is the same node.
CleanIsStored ==
  \A uid \in DOMAIN cache.objects :
    ~cache.objects[uid].dirty => uid.media = "File" /\ cache.storage[uid.at] = nodeAt(cache, uid)

\* flush leaves every node in the storage as it is in the cache.
FlushStoresAll ==
  call.pc = "flushed" /\ running =>
    \A uid \in tree : LET at == newUID(cache.moved, uid) IN
      /\ at.media = "File"
      /\ LET stored == cache.storage[at.at] IN
           /\ stored.keys = nodeOf(uid).keys
           /\ [i \in DOMAIN stored.items |-> newUID(cache.moved, stored.items[i])] =
              [i \in DOMAIN nodeOf(uid).items |-> newUID(cache.moved, nodeOf(uid).items[i])]
=============================================================================
