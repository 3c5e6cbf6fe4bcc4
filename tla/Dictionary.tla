----------------------------- MODULE Dictionary -----------------------------
(***************************************************************************)
(* What a BeTree promises its caller: a map from keys to values on which   *)
(* one call runs at a time.  A call is accepted (insert, remove) and later *)
(* returns; the map changes at the return and nowhere else, exactly as the *)
(* accepted call asked.  search(k) reads dict[k]; a key that is not in the *)
(* tree reads Absent.                                                      *)
(***************************************************************************)

CONSTANTS
  Key,
  Value,
  Absent,      \* what search answers for a key that is not in the tree
  None         \* no call is running

VARIABLES
  dict,        \* what search answers, for every key
  request      \* the call that runs, or None

vars == <<dict, request>>

\* A call is a key and what the key must read afterwards.
Call == [key : Key, msg : Value \cup {Absent}]

TypeOK ==
  /\ dict \in [Key -> Value \cup {Absent}]
  /\ request \in Call \cup {None}

Init ==
  /\ dict = [k \in Key |-> Absent]
  /\ request = None

Accept(c) ==
  /\ request = None
  /\ request' = c
  /\ UNCHANGED dict

Return ==
  /\ request # None
  /\ dict' = [dict EXCEPT ![request.key] = request.msg]
  /\ request' = None

Next == Return \/ \E c \in Call : Accept(c)

Spec == Init /\ [][Next]_vars
=============================================================================
