----------------------------- MODULE NodeMemory -----------------------------
(***************************************************************************)
(* What the cache and the storage together promise the tree: a memory of   *)
(* nodes under identifiers, in which a node reads as it was last written.  *)
(* The tree module takes its nodes from such a memory.                     *)
(***************************************************************************)

CONSTANTS NodeId, Node

VARIABLE memory      \* the node under each identifier in use

Init == memory = << >>

Create(id, n) ==
  /\ id \in NodeId \ DOMAIN memory
  /\ memory' = [i \in DOMAIN memory \cup {id} |-> IF i = id THEN n ELSE memory[i]]

Write(id, n) == memory' = [memory EXCEPT ![id] = n]

Delete(id) == memory' = [i \in DOMAIN memory \ {id} |-> memory[i]]

Next ==
  \/ \E id \in NodeId, n \in Node : Create(id, n)
  \/ \E id \in DOMAIN memory, n \in Node : Write(id, n)
  \/ \E id \in DOMAIN memory : Delete(id)

Spec == Init /\ [][Next]_memory
=============================================================================
