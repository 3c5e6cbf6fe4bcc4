-------------------------------- MODULE Bytes --------------------------------
(***************************************************************************)
(* Numbers as bytes in memory: what memcpy, and reading from and writing   *)
(* to a stream, do with them.  Memory is a function from offsets to bytes. *)
(*                                                                         *)
(* A byte is known by the number it belongs to and its place in it, so     *)
(* that a number is read back only from its own bytes in their order.      *)
(***************************************************************************)
EXTENDS Integers, Sequences

CONSTANTS KeySize, ValueSize       \* sizeof(KeyType), sizeof(ValueType)

ASSUME WidthAssumption == KeySize \in Nat \ {0} /\ ValueSize \in Nat \ {0}

Uint8 == 1      \* sizeof
Uint16 == 2
Uint32 == 4
Uint64 == 8

byte(x, i) == IF x = 0 THEN <<0, 0>> ELSE <<x, i>>
Garbage == -1
AnyByte == <<Garbage, 0>>       \* of memory that nobody wrote

\* The pieces p, of w bytes each, one behind the other.
joined(p, w) == [o \in 1 .. Len(p) * w |-> p[((o - 1) \div w) + 1][((o - 1) % w) + 1]]

number(x, w) == [i \in 1 .. w |-> byte(x, i)]
numbers(s, w) == joined([i \in DOMAIN s |-> number(s[i], w)], w)
zeros(n) == number(0, n)

\* The number in the w bytes of the memory m at an offset, the n numbers there, and
\* those up to another offset.
numberAt(m, at, w) ==
  LET x == m[at][1] IN
  IF \A i \in 1 .. w : m[at + i - 1] = byte(x, i) THEN x ELSE Garbage
numbersAt(m, at, w, n) == [i \in 1 .. n |-> numberAt(m, at + (i - 1) * w, w)]
numbersIn(m, at, end, w) == numbersAt(m, at, w, (end - at) \div w)

\* memcpy to the memory m.
put(m, at, s) ==
  [o \in DOMAIN m |-> IF o \in at .. at + Len(s) - 1 THEN s[o - at + 1] ELSE m[o]]
=============================================================================
