------------------------------ MODULE MCBeTree ------------------------------
(***************************************************************************)
(* Instances of BeTree for TLC: keys 1 .. MaxKey, identifiers              *)
(* 1 .. MaxNode, and a VIEW that identifies states which differ only in    *)
(* the identifiers of their nodes.                                         *)
(***************************************************************************)
EXTENDS BeTreeProps

CONSTANTS MaxKey, MaxNode, v1, v2, Rewritten

Keys == 1 .. MaxKey
Ids == 1 .. MaxNode
Values == {v1, v2}
\* Every key is inserted with v1; the keys in Rewritten also with v2.
Pairs == (Keys \X {v1}) \cup (Rewritten \X {v2})

(***************************************************************************)
(* The view renumbers the allocated nodes: those below the root in         *)
(* preorder, then the others.  It renames injectively, and the tree uses   *)
(* an identifier only to find its node, so two states with one view have   *)
(* the same futures up to identifiers.  Of the orphans, which no node      *)
(* refers to, it keeps the number.                                         *)
(***************************************************************************)
preorder[id \in Ids] ==
  <<id>> \o FlattenSeq([i \in DOMAIN nodes[id].children |-> preorder[nodes[id].children[i]]])

CanonicalState ==
  LET reached == IF rootNode = Nil THEN << >> ELSE preorder[rootNode]
      order == reached \o SetToSeq(allocated \ (ToSet(reached) \cup orphans))
      rank == [id \in ToSet(order) \cup {Nil} |->
                 IF id = Nil THEN 0 ELSE Min({i \in DOMAIN order : order[i] = id})]
      name(id) == IF id \in DOMAIN rank THEN rank[id] ELSE -id
      renamed(n) == [n EXCEPT !.children = [i \in DOMAIN @ |-> name(@[i])],
                              !.parent = name(@), !.left = name(@), !.right = name(@)]
  IN << [i \in DOMAIN order |-> renamed(nodes[order[i]])], name(rootNode),
        request, pc, [call EXCEPT !.node = name(@)],
        [i \in DOMAIN stack |-> [stack[i] EXCEPT !.node = name(@), !.child = name(@),
                                                 !.out.node = name(@)]],
        [change EXCEPT !.node = name(@)], err, dict, Cardinality(orphans) >>
=============================================================================
