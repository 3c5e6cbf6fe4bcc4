---------------------------- MODULE MCBeTreeDrain ----------------------------
(***************************************************************************)
(* A workload for deep trees: the keys are loaded in ascending order, then *)
(* removed, the first one first and the others from both ends towards the  *)
(* middle, in every interleaving; the first and the last key may be        *)
(* removed again, which drives messages down.  The keys in Rewritten may   *)
(* come back with v2.                                                      *)
(***************************************************************************)
EXTENDS MCBeTree

present == {k \in Key : dict[k] # Absent}
outermost == {k \in present : present \subseteq 1 .. k \/ present \subseteq k .. MaxKey}

\* Once the keys are loaded, the first or the last one is gone only if the first is.
loading == allocated = {} \/ (1 \in present /\ MaxKey \notin present)

Load ==
  /\ loading
  /\ LET k == Cardinality(present) + 1 IN StartInsertEmpty(k, v1) \/ StartInsert(k, v1)

Drain ==
  /\ ~loading
  /\ \/ StartRemove(1)
     \/ 1 \notin present /\ \E k \in outermost \cup {MaxKey} : StartRemove(k)
     \/ \E k \in Rewritten : StartInsertEmpty(k, v2) \/ StartInsert(k, v2)
     \/ \E k \in Key : Search(k)

DrainSpec == Init /\ [][Load \/ Drain \/ Step]_vars

FairDrainSpec == DrainSpec /\ WF_vars(Step)
=============================================================================
