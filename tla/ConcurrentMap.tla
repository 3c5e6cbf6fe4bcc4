--------------------------- MODULE ConcurrentMap ---------------------------
(***************************************************************************)
(* What the B+-tree store promises threads: a map on which operations run  *)
(* concurrently.  Each takes effect at one moment between its call and its *)
(* return, and answers what the map held at that moment (linearizability). *)
(* Callers insert only absent keys; removing an absent key throws.         *)
(***************************************************************************)

CONSTANTS Key, Value, Absent, None, Thread

VARIABLES
  map,       \* what each key maps to, or Absent
  request,   \* the operation each thread runs, or None
  reply      \* its answer, once it has taken effect

vars == <<map, request, reply>>

Request == [op : {"insert"}, key : Key, value : Value]
             \cup [op : {"search", "remove"}, key : Key, value : {None}]

TypeOK ==
  /\ map \in [Key -> Value \cup {Absent}]
  /\ request \in [Thread -> Request \cup {None}]
  /\ reply \in [Thread -> Value \cup {Absent, None, "Success", "Throws"}]

Init ==
  /\ map = [k \in Key |-> Absent]
  /\ request = [t \in Thread |-> None]
  /\ reply = [t \in Thread |-> None]

Call(t, r) ==
  /\ request[t] = None
  /\ request' = [request EXCEPT ![t] = r]
  /\ UNCHANGED <<map, reply>>

Answer(t, op, a) ==
  /\ request[t] # None /\ request[t].op = op
  /\ reply[t] = None /\ reply' = [reply EXCEPT ![t] = a]
  /\ UNCHANGED request

Search(t) ==
  \E a \in Value \cup {Absent} :
    /\ Answer(t, "search", a)
    /\ map[request[t].key] = a
    /\ UNCHANGED map

Insert(t) ==
  /\ Answer(t, "insert", "Success")
  /\ map[request[t].key] = Absent
  /\ map' = [map EXCEPT ![request[t].key] = request[t].value]

Remove(t) ==
  \E a \in {"Success", "Throws"} :
    /\ Answer(t, "remove", a)
    /\ (a = "Throws") <=> (map[request[t].key] = Absent)
    /\ map' = [map EXCEPT ![request[t].key] = Absent]

Return(t) ==
  /\ reply[t] # None
  /\ request' = [request EXCEPT ![t] = None]
  /\ reply' = [reply EXCEPT ![t] = None]
  /\ UNCHANGED map

Next == \E t \in Thread :
  \/ \E r \in Request : Call(t, r)
  \/ Search(t) \/ Insert(t) \/ Remove(t) \/ Return(t)

Spec == Init /\ [][Next]_vars
=============================================================================
