--------------------------- MODULE MCBeTreeCache ---------------------------
(***************************************************************************)
(* An instance of BeTreeCache for TLC: a leaf of one block that is the     *)
(* root or has a parent, and an internal node of two blocks that is        *)
(* overfull or not.  The two contents of each tell a stale copy apart.     *)
(***************************************************************************)
EXTENDS BeTreeCache

CONSTANTS leaf, rootLeaf, inner, fullInner, Objects

Nodes == {leaf, rootLeaf, inner, fullInner}
Roots == {rootLeaf}
FullNodes == {fullInner}
Sizes == [n \in Nodes |-> IF n \in {inner, fullInner} THEN BlockSize + 1 ELSE BlockSize]
ObjectSet == 1 .. Objects

(***************************************************************************)
(* The view forgets what nothing reads: which object holds a node, as long *)
(* as entries and handles that share one still do, the objects nobody      *)
(* points to, and what is left in free blocks.                             *)
(***************************************************************************)
CacheView ==
  LET place(o) == {i \in DOMAIN cache : cache[i].obj = o}
  IN << [b \in table |-> disk[b]], stored, live, lost,
        [i \in DOMAIN cache |-> <<cache[i].id, content[cache[i].obj]>>],
        {<<h.id, content[h.obj], place(h.obj)>> : h \in held} >>
=============================================================================
