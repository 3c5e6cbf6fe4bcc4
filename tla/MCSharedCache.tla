--------------------------- MODULE MCSharedCache ---------------------------
(***************************************************************************)
(* An instance of SharedCache for TLC: a root with two full data nodes,    *)
(* and two threads, each with a few calls to make.                         *)
(***************************************************************************)
EXTENDS SharedCacheProps

CONSTANTS MaxAddress, v1, v2, t1, t2, Programs

VARIABLE program    \* the calls that each thread has still to make

Keys == 0 .. 6
Addresses == 0 .. MaxAddress
pivots == <<4>>
dataNodesAtFirst == << DataNode(<<1, 3>>, <<v1, v1>>), DataNode(<<4, 6>>, <<v1, v1>>) >>

insert(k) == [op |-> "insert", key |-> k, value |-> v2]
search(k) == [op |-> "search", key |-> k, value |-> None]
calls(first, second) == t1 :> first @@ t2 :> second

\* Both data nodes split, and the root after the second; one thread searches what
\* the other moves; a thread uses again and again what it has changed before.
OneReader ==
  { calls(<<insert(2)>>, <<insert(5)>>),
    calls(<<insert(2)>>, <<search(3), search(6)>>),
    calls(<<insert(2), insert(0), search(0)>>, << >>) }

\* Two threads search in the same data node.
TwoReaders == { calls(<<search(3)>>, <<search(3)>>) }

MCInit == Init /\ program \in Programs

Call ==
  \E t \in Thread :
    /\ program[t] # << >>
    /\ LET c == Head(program[t]) IN Start(t, c.op, c.key, c.value)
    /\ program' = [program EXCEPT ![t] = Tail(@)]

Work == (FlushStep \/ \E t \in Thread : Step(t)) /\ UNCHANGED program

SharedSpec == MCInit /\ [][Call \/ Work]_<<vars, program>> /\ Fairness
=============================================================================
