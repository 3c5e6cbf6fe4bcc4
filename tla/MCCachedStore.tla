---------------------------- MODULE MCCachedStore ----------------------------
(***************************************************************************)
(* An instance of CachedStore for TLC.  The store is loaded with all keys, *)
(* in one of several orders, and then used with some of them for ever, in  *)
(* every order.  Callers insert only keys that are absent, as the tests do.*)
(***************************************************************************)
EXTENDS CachedStoreProps

CONSTANTS MaxKey, MaxAddress, Capacities, UsedKeys, v1, v2

VARIABLE load     \* the keys still to be loaded

Keys == 1 .. MaxKey
Addresses == 1 .. MaxAddress

ascending == [k \in Keys |-> k]
outsideIn == [i \in Keys |-> IF i % 2 = 1 THEN (i + 1) \div 2 ELSE MaxKey + 1 - i \div 2]
Loads == {ascending, Reverse(ascending), outsideIn}

valueFor(k) == IF k % 2 = 1 THEN v1 ELSE v2

LoadInit == Init /\ load \in Loads

Load ==
  /\ load # << >>
  /\ StartInsert(Head(load), valueFor(Head(load)))
  /\ load' = Tail(load)

Use ==
  /\ load = << >>
  /\ \/ \E k \in UsedKeys : \/ Contents[k] = Absent /\ StartInsert(k, valueFor(k))
                           \/ StartRemove(k)
                           \/ StartSearch(k)
     \/ Flush
  /\ UNCHANGED load

Work == (Descend \/ Climb \/ Return) /\ UNCHANGED load

Stopped == (call.pc = "flushed" \/ ~running) /\ UNCHANGED <<vars, load>>

LoadSpec == LoadInit /\ [][Load \/ Use \/ Work \/ Stopped]_<<vars, load>>

(***************************************************************************)
(* The view numbers the nodes of the tree in preorder and forgets which    *)
(* identifiers they have; it keeps which are in memory, how each is found, *)
(* and whether what the view does not show is as the invariants say.       *)
(***************************************************************************)
preorder[uid \in UID] ==
  IF nodeOf(uid).leaf THEN <<uid>>
  ELSE <<uid>> \o FlattenSeq([i \in DOMAIN nodeOf(uid).items |-> preorder[nodeOf(uid).items[i]]])

CanonicalState ==
  LET order == preorder[m_uidRootNode] \o IF call.rhs = Nil THEN << >> ELSE preorder[call.rhs]
      places == [i \in DOMAIN order |-> found(cache, order[i])]
      name(uid) == IF \E i \in DOMAIN order : places[i] = uid \/ order[i] = uid
                     THEN CHOOSE i \in DOMAIN order : places[i] = uid \/ order[i] = uid
                     ELSE 0
      names(s) == [i \in DOMAIN s |-> name(s[i])]
      shape(n) == IF n.leaf THEN n ELSE [n EXCEPT !.items = Len(@)]
      place(i) ==
        [node |-> shape(nodeOf(order[i])),
         media |-> order[i].media,
         moved |-> order[i] \in DOMAIN cache.moved,
         state |-> IF ~cached(cache, places[i]) THEN "stored"
                   ELSE IF cache.objects[places[i]].dirty THEN "dirty" ELSE "clean"]
  IN << [i \in DOMAIN order |-> place(i)],
        load, names(cache.lru), cache.capacity, cache.fault, CleanIsStored,
        Cardinality(DOMAIN cache.moved \ ToSet(order)),
        [call EXCEPT !.cur = name(@), !.vtNodes = names(@), !.rhs = name(@), !.below = name(@),
                     !.path = [i \in DOMAIN @ |-> <<name(@[i].uid), @[i].held>>]] >>
=============================================================================
