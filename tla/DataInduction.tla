--------------------------- MODULE DataInduction ---------------------------
(***************************************************************************)
(* Induction over the natural numbers, stated with sets instead of         *)
(* predicates so that it can be cited, and what the recursive functions of *)
(* the models need: that a function defined by a step from each value to   *)
(* the next exists and satisfies its definition.                           *)
(***************************************************************************)
EXTENDS Integers, Sequences, Selection, SequenceTheorems, WellFoundedInduction, TLAPS

\* A set of numbers that is not empty has a least one.
LEMMA LeastNumber ==
  ASSUME NEW T, T \subseteq Nat, T # {}
  PROVE  \E m \in T : \A n \in T : m <= n
<1> DEFINE R == OpToRel(<, Nat)
<1>1. IsWellFoundedOn(R, Nat)
  BY NatLessThanWellFounded
<1>2. \A i, j \in Nat : i < j => <<i, j>> \in R
  BY DEF OpToRel
<1> HIDE DEF R
<1>3. PICK m \in T : \A n \in T : ~ (<<n, m>> \in R)
  BY <1>1, WFMin
<1>4. ASSUME NEW n \in T PROVE m <= n
  <2>1. m \in Nat /\ n \in Nat
    OBVIOUS
  <2>2. ~ (n < m)
    BY <1>2, <1>3, <2>1
  <2> QED BY <2>1, <2>2
<1> QED BY <1>4

\* A set with 0 and with the successor of each of its numbers has all numbers.
LEMMA SetInduction ==
  ASSUME NEW S, 0 \in S, \A n \in Nat : n \in S => n + 1 \in S
  PROVE  Nat \subseteq S
<1> SUFFICES ASSUME NEW k \in Nat, k \notin S
             PROVE  FALSE
  OBVIOUS
<1> DEFINE T == Nat \ S
<1>1. PICK m \in T : \A n \in T : m <= n
  BY LeastNumber
<1>2. m # 0 /\ m - 1 \in Nat /\ m - 1 \notin T
  BY <1>1
<1> QED BY <1>2

\* The same up to a bound, as for the rounds of a loop.
LEMMA BoundedInduction ==
  ASSUME NEW N \in Nat, NEW S, 0 \in S,
         \A i \in 1 .. N : i - 1 \in S => i \in S
  PROVE  0 .. N \subseteq S
<1> DEFINE U == {n \in Nat : n <= N => n \in S}
<1>1. 0 \in U
  OBVIOUS
<1>2. ASSUME NEW n \in Nat, n \in U PROVE n + 1 \in U
  <2>1. CASE n + 1 <= N
    <3>1. n + 1 \in 1 .. N /\ n = (n + 1) - 1 /\ n \in S
      BY <1>2, <2>1
    <3> QED BY <3>1
  <2>2. CASE ~ (n + 1 <= N)
    BY <2>2
  <2> QED BY <2>1, <2>2
<1> HIDE DEF U
<1>3. Nat \subseteq U
  BY <1>1, <1>2, SetInduction
<1> QED BY <1>3 DEF U

\* The values after each of N rounds, from the first value and what a round makes
\* of the value before it.
Rounds(h, N, first, round) ==
  h = [i \in 0 .. N |-> IF i = 0 THEN first ELSE round[<<h[i - 1], i>>]]

\* The rounds can be taken one after the other: a recursive function over them exists.
LEMMA RoundsExist ==
  ASSUME NEW N \in Nat, NEW V, NEW first \in V,
         NEW round \in [V \X (1 .. N) -> V]
  PROVE  \E h \in [0 .. N -> V] : Rounds(h, N, first, round)
<1> DEFINE S == {n \in 0 .. N : \E h \in [0 .. n -> V] : Rounds(h, n, first, round)}
<1>1. 0 \in S
  <2> DEFINE h == [i \in 0 .. 0 |-> first]
  <2>1. h \in [0 .. 0 -> V] /\ Rounds(h, 0, first, round)
    BY DEF Rounds
  <2> QED BY <2>1
<1>2. ASSUME NEW n \in 1 .. N, n - 1 \in S PROVE n \in S
  <2>1. PICK g \in [0 .. n - 1 -> V] : Rounds(g, n - 1, first, round)
    BY <1>2
  <2> DEFINE h == [i \in 0 .. n |-> IF i = n THEN round[<<g[n - 1], n>>] ELSE g[i]]
  <2>2. g[n - 1] \in V
    OBVIOUS
  <2>3. h \in [0 .. n -> V]
    BY <2>2
  <2>4. ASSUME NEW i \in 0 .. n
        PROVE  h[i] = IF i = 0 THEN first ELSE round[<<h[i - 1], i>>]
    <3>1. CASE i = n
      <4>1. h[i] = round[<<g[n - 1], n>>] /\ h[n - 1] = g[n - 1]
        BY <3>1
      <4> QED BY <3>1, <4>1
    <3>2. CASE i # n
      <4>1. i \in 0 .. n - 1 /\ h[i] = g[i]
        BY <3>2
      <4>2. g[i] = IF i = 0 THEN first ELSE round[<<g[i - 1], i>>]
        BY <2>1, <4>1 DEF Rounds
      <4>3. i # 0 => h[i - 1] = g[i - 1]
        BY <3>2
      <4> QED BY <4>1, <4>2, <4>3
    <3> QED BY <3>1, <3>2
  <2>5. Rounds(h, n, first, round)
    BY <2>4 DEF Rounds
  <2> QED BY <2>3, <2>5
<1> HIDE DEF S
<1>3. 0 .. N \subseteq S
  BY <1>1, <1>2, BoundedInduction
<1> QED BY <1>3 DEF S

-----------------------------------------------------------------------------
(* The elements of a sequence that are in a set *)

elements(s) == {s[i] : i \in DOMAIN s}
oneToOne(s) == \A i, j \in DOMAIN s : s[i] = s[j] => i = j

\* What has been chosen after each element.
Chosen(c, s, S) ==
  /\ c[0] = << >>
  /\ \A i \in 1 .. Len(s) : c[i] = IF s[i] \in S THEN Append(c[i - 1], s[i]) ELSE c[i - 1]

\* The loop in the definition of within does this.
LEMMA WithinChosen ==
  ASSUME NEW E, NEW s \in Seq(E), NEW S
  PROVE  \E c \in [0 .. Len(s) -> Seq(E)] : Chosen(c, s, S) /\ within(s, S) = c[Len(s)]
<1> DEFINE V == Seq(E)
           next(q, i) == IF s[i] \in S THEN Append(q, s[i]) ELSE q
           round == [p \in V \X (1 .. Len(s)) |-> next(p[1], p[2])]
           isChosen(h) == h = [i \in 0 .. Len(s) |->
             IF i = 0 THEN << >>
             ELSE IF s[i] \in S THEN Append(h[i - 1], s[i]) ELSE h[i - 1]]
<1>1. Len(s) \in Nat /\ << >> \in V /\ \A i \in 1 .. Len(s) : s[i] \in E
  OBVIOUS
<1>2. ASSUME NEW q \in V, NEW i \in 1 .. Len(s) PROVE next(q, i) \in V
  BY <1>1
<1>3. round \in [V \X (1 .. Len(s)) -> V]
  BY <1>2
<1>4. PICK h \in [0 .. Len(s) -> V] : Rounds(h, Len(s), << >>, round)
  <2> HIDE DEF V, round
  <2> QED BY <1>1, <1>3, RoundsExist
<1>5. isChosen(h)
  <2>1. ASSUME NEW i \in 0 .. Len(s), i # 0 PROVE round[<<h[i - 1], i>>] = next(h[i - 1], i)
    <3>1. h[i - 1] \in V /\ i \in 1 .. Len(s)
      BY <1>1, <2>1
    <3> QED BY <3>1
  <2> HIDE DEF round
  <2> QED BY <1>4, <2>1 DEF Rounds
<1> DEFINE chosen == CHOOSE g : isChosen(g)
<1>6. isChosen(chosen)
  BY <1>5
<1>7. within(s, S) = chosen[Len(s)]
  BY DEF within
<1> HIDE DEF chosen
<1>8. /\ chosen[0] = << >>
      /\ \A i \in 1 .. Len(s) :
           chosen[i] = IF s[i] \in S THEN Append(chosen[i - 1], s[i]) ELSE chosen[i - 1]
  <2>1. 0 \in 0 .. Len(s) /\ \A i \in 1 .. Len(s) : i \in 0 .. Len(s) /\ i # 0
    BY <1>1
  <2> QED BY <1>6, <2>1, Zenon
<1>9. 0 .. Len(s) \subseteq {i \in 0 .. Len(s) : chosen[i] \in V}
  <2> DEFINE P == {i \in 0 .. Len(s) : chosen[i] \in V}
  <2>1. 0 \in P
    <3> HIDE DEF V
    <3> QED BY <1>1, <1>8
  <2>2. ASSUME NEW i \in 1 .. Len(s), i - 1 \in P PROVE i \in P
    <3>1. chosen[i] = next(chosen[i - 1], i)
      BY <1>8, Zenon
    <3>2. i \in 0 .. Len(s)
      BY <1>1
    <3>3. chosen[i] \in V
      <4> HIDE DEF V, next
      <4> QED BY <1>2, <2>2, <3>1
    <3> QED BY <3>2, <3>3
  <2>3. 0 .. Len(s) \subseteq P
    <3> HIDE DEF P
    <3> QED BY <1>1, <2>1, <2>2, BoundedInduction
  <2> QED BY <2>3
<1>10. chosen \in [0 .. Len(s) -> Seq(E)]
  BY <1>6, <1>9
<1> QED BY <1>7, <1>8, <1>10 DEF Chosen

\* Appending adds one element.
LEMMA AppendedElements ==
  ASSUME NEW E, NEW q \in Seq(E), NEW e
  PROVE  elements(Append(q, e)) = elements(q) \cup {e}
<1> DEFINE r == Append(q, e)
<1>1. /\ DOMAIN r = 1 .. Len(q) + 1 /\ DOMAIN q = 1 .. Len(q) /\ Len(q) \in Nat
      /\ \A j \in 1 .. Len(q) : r[j] = q[j]
      /\ r[Len(q) + 1] = e
  OBVIOUS
<1> HIDE DEF r
<1>2. elements(r) \subseteq elements(q) \cup {e}
  <2> SUFFICES ASSUME NEW j \in DOMAIN r PROVE r[j] \in elements(q) \cup {e}
    BY DEF elements
  <2>1. j \in 1 .. Len(q) \/ j = Len(q) + 1
    BY <1>1
  <2> QED BY <1>1, <2>1 DEF elements
<1>3. elements(q) \subseteq elements(r)
  <2> SUFFICES ASSUME NEW j \in DOMAIN q PROVE q[j] \in elements(r)
    BY DEF elements
  <2> QED BY <1>1 DEF elements
<1>4. e \in elements(r)
  BY <1>1 DEF elements
<1> QED BY <1>2, <1>3, <1>4 DEF r

\* The chosen elements are those of the sequence that are in the set, each as often as
\* the sequence has it at most once.
LEMMA WithinFacts ==
  ASSUME NEW E, NEW s \in Seq(E), NEW S
  PROVE  /\ within(s, S) \in Seq(E)
         /\ elements(within(s, S)) = elements(s) \cap S
         /\ oneToOne(s) => oneToOne(within(s, S))
<1>0. PICK chosen \in [0 .. Len(s) -> Seq(E)] : Chosen(chosen, s, S) /\ within(s, S) = chosen[Len(s)]
  BY WithinChosen
<1>1. /\ chosen[0] = << >>
      /\ \A i \in 1 .. Len(s) :
           chosen[i] = IF s[i] \in S THEN Append(chosen[i - 1], s[i]) ELSE chosen[i - 1]
      /\ within(s, S) = chosen[Len(s)]
  BY <1>0 DEF Chosen
<1> DEFINE upTo(i) == {s[j] : j \in 1 .. i}
           P == {i \in 0 .. Len(s) :
                   /\ elements(chosen[i]) = upTo(i) \cap S
                   /\ oneToOne(s) => oneToOne(chosen[i])}
<1>2. Len(s) \in Nat /\ DOMAIN s = 1 .. Len(s) /\ \A i \in 1 .. Len(s) : s[i] \in E
  OBVIOUS
<1>3. 0 \in P
  <2>1. elements(<< >>) = {} /\ oneToOne(<< >>)
    BY DEF elements, oneToOne
  <2>2. upTo(0) = {}
    OBVIOUS
  <2> QED BY <1>1, <1>2, <2>1, <2>2
<1>4. ASSUME NEW i \in 1 .. Len(s), i - 1 \in P PROVE i \in P
  <2>1. chosen[i - 1] \in Seq(E)
    BY <1>2
  <2>2. upTo(i) = upTo(i - 1) \cup {s[i]}
    <3>1. 1 .. i = (1 .. i - 1) \cup {i}
      BY <1>2
    <3> QED BY <3>1
  <2>3. /\ elements(chosen[i - 1]) = upTo(i - 1) \cap S
        /\ oneToOne(s) => oneToOne(chosen[i - 1])
    BY <1>4
  <2> HIDE DEF upTo
  <2>4. CASE s[i] \notin S
    BY <1>1, <2>3, <2>4, <2>2
  <2>5. CASE s[i] \in S
    <3> DEFINE q == chosen[i - 1]
    <3>1. chosen[i] = Append(q, s[i])
      BY <1>1, <2>5
    <3>2. /\ DOMAIN Append(q, s[i]) = 1 .. Len(q) + 1 /\ DOMAIN q = 1 .. Len(q) /\ Len(q) \in Nat
          /\ \A j \in 1 .. Len(q) : Append(q, s[i])[j] = q[j]
          /\ Append(q, s[i])[Len(q) + 1] = s[i]
      BY <1>2, <2>1
    <3>3. elements(Append(q, s[i])) = elements(q) \cup {s[i]}
      BY <2>1, AppendedElements
    <3>4. elements(chosen[i]) = upTo(i) \cap S
      BY <2>3, <2>5, <2>2, <3>1, <3>3
    <3>5. ASSUME oneToOne(s) PROVE oneToOne(chosen[i])
      <4>1. s[i] \notin upTo(i - 1)
        BY <1>2, <3>5 DEF oneToOne, upTo
      <4>2. s[i] \notin elements(q)
        BY <2>3, <4>1
      <4>3. \A j \in 1 .. Len(q) : q[j] # s[i]
        BY <3>2, <4>2 DEF elements
      <4>4. \A j, k \in 1 .. Len(q) : q[j] = q[k] => j = k
        BY <2>3, <3>2, <3>5 DEF oneToOne
      <4> QED BY <3>1, <3>2, <4>3, <4>4 DEF oneToOne
    <3> QED BY <3>4, <3>5
  <2> QED BY <2>4, <2>5
<1>5. 0 .. Len(s) \subseteq P
  <2> HIDE DEF P
  <2> QED BY <1>2, <1>3, <1>4, BoundedInduction
<1>6. elements(s) = upTo(Len(s))
  BY <1>2 DEF elements
<1>7. Len(s) \in P
  BY <1>2, <1>5
<1> QED BY <1>1, <1>2, <1>6, <1>7
=============================================================================
