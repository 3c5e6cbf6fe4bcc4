----------------------------- MODULE PlainNodes -----------------------------
(***************************************************************************)
(* What the callers of DataNode and IndexNode rely on: each node that they *)
(* hold has one content, which an operation replaces and every reader      *)
(* sees.                                                                   *)
(***************************************************************************)
EXTENDS StoreNodes

CONSTANTS Holder, NodeKey, Item, NoNode

VARIABLE nodes        \* the node that each holder has, or NoNode

become(s, n) == nodes[s] # NoNode /\ nodes' = [nodes EXCEPT ![s] = n]
becomeTwo(s, n, t, m) == s # t /\ nodes' = [nodes EXCEPT ![s] = n, ![t] = m]

\* A node that is new or was read from a storage, with any content; and one let go.
Obtain(s) == nodes[s] = NoNode /\ nodes' = [nodes EXCEPT ![s] = nodes'[s]]
Release(s) == become(s, NoNode)

InsertItem(s, k, x) ==
  become(s, IF nodes[s].leaf THEN withEntry(nodes[s], k, x) ELSE withPivot(nodes[s], k, x))

RemoveKey(s, k) == nodes[s].leaf /\ holds(nodes[s], k) /\ become(s, withoutEntry(nodes[s], k))

\* updateChildUID: the first child with the old identifier.
UpdateChildUID(s, old, new) ==
  LET places == {i \in DOMAIN nodes[s].items : nodes[s].items[i] = old}
  IN places # {} /\ become(s, [nodes[s] EXCEPT !.items[CHOOSE i \in places : \A j \in places : i <= j] = new])

\* split(ptrSibling), of a new node.
Split(s, t) == nodes[t] = NoNode /\ becomeTwo(s, splitLeft(nodes[s]), t, splitRight(nodes[s]))

MoveFromLHS(s, t, pivot) ==
  nodes[t].keys # << >> /\ becomeTwo(s, gainFirst(nodes[s], nodes[t], pivot), t, loseLast(nodes[t]))

MoveFromRHS(s, t, pivot) ==
  nodes[t].keys # << >> /\ becomeTwo(s, gainLast(nodes[s], nodes[t], pivot), t, loseFirst(nodes[t]))

\* The caller deletes the other node later.
Merge(s, t, pivot) == s # t /\ become(s, mergeNodes(nodes[s], nodes[t], pivot))

held == {s \in Holder : nodes[s] # NoNode}
kin(s) == {t \in held : nodes[t].leaf = nodes[s].leaf}

Init == nodes = [s \in Holder |-> NoNode]

Next ==
  \/ \E s \in Holder \ held : Obtain(s)
  \/ \E s \in held :
       \/ Release(s)
       \/ \E k \in NodeKey : RemoveKey(s, k) \/ \E x \in Item : InsertItem(s, k, x)
       \/ \E x, y \in Item : ~nodes[s].leaf /\ UpdateChildUID(s, x, y)
       \/ \E t \in Holder : Split(s, t)
       \/ \E t \in kin(s), pivot \in NodeKey :
            MoveFromLHS(s, t, pivot) \/ MoveFromRHS(s, t, pivot) \/ Merge(s, t, pivot)

Spec == Init /\ [][Next]_nodes
=============================================================================
