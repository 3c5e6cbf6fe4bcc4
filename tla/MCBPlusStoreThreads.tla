------------------------- MODULE MCBPlusStoreThreads -------------------------
(***************************************************************************)
(* Workloads for several threads, in phases as in the tests: the           *)
(* operations of a phase run concurrently, on whichever thread is free,    *)
(* and all threads are joined before the next phase starts.                *)
(***************************************************************************)
EXTENDS BPlusStoreProps, TLC

CONSTANTS MaxKey, MaxUID, v1, v2, Workload

VARIABLE script    \* the phases to come: a sequence of sets of operations

Keys == 1 .. MaxKey
UIDs == 1 .. MaxUID
Interchangeable == Permutations(Thread)

insert(k) == [op |-> "insert", key |-> k, value |-> IF k % 2 = 1 THEN v1 ELSE v2]
remove(k) == [op |-> "remove", key |-> k, value |-> None]
search(k) == [op |-> "search", key |-> k, value |-> None]

inserts(first, step, n) == [i \in 1 .. n |-> {insert(first + (i - 1) * step)}]

\* Inserts that split full nodes up to the root, while others search what they move.
Splitting ==
  inserts(2, 2, 6) \o
    << {insert(13), insert(1), insert(9), search(12), search(8)},
       {insert(3), insert(14), insert(5), search(13), search(2)} >>

\* A tree of five levels with underfull nodes on the left and full ones on the
\* right, so that a removal releases the root while another climbs back to it.
Removing ==
  inserts(1, 1, 27) \o << {remove(25)}, {remove(1), remove(13), remove(20), remove(23)} >>

\* A small tree loaded backwards, from which threads remove all keys but one; a
\* key that is gone is then removed again, which throws.
Emptying ==
  inserts(8, -1, 8) \o
    << {remove(1), remove(4), remove(6), remove(8)}, {remove(2), remove(3), remove(5)},
       {search(2), search(7), remove(1)} >>

\* An insert at the right of the root while a removal merges its left child.
Mixing ==
  inserts(1, 1, 11) \o << {insert(12), remove(1)}, {remove(11)} >>

PhasedWorkload == {Splitting, Removing, Emptying}
MixedWorkload == {Mixing}

ScriptInit == Init /\ script \in Workload

StartNext ==
  \E t \in Thread, r \in Head(script) :
    /\ Start(t, r.op, r.key, r.value)
    /\ script' = [script EXCEPT ![1] = @ \ {r}]

Join ==
  /\ quiescent /\ Head(script) = {}
  /\ script' = Tail(script)
  /\ UNCHANGED vars

Work == \E t \in Thread : Step(t) /\ UNCHANGED script

Finished == script = << >> /\ UNCHANGED <<vars, script>>

ScriptSpec ==
  ScriptInit /\ [][(script # << >> /\ (StartNext \/ Join)) \/ Work \/ Finished]_<<vars, script>>
=============================================================================
