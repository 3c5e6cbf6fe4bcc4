----------------------------- MODULE NodeLayout -----------------------------
(***************************************************************************)
(* The bytes of a node of the B-epsilon-tree: serialize, deserialize and   *)
(* getSerializedSize of leaves, internal nodes and messages.  A node has a *)
(* fixed size; what its arrays do not use is zero.                         *)
(***************************************************************************)
EXTENDS Bytes, FiniteSets

CONSTANTS Fanout, MaxBufferSize

ASSUME FanoutAssumption == Fanout \in Nat \ {0} /\ MaxBufferSize \in Nat \ {0}

MessageType == 4      \* sizeof

-----------------------------------------------------------------------------
(* Messages: the buffer of a node is a map from keys to type and value. *)

messageSize == MessageType + KeySize + ValueSize

serializeMessage(k, msg) ==
  number(msg.type, MessageType) \o number(k, KeySize) \o number(msg.value, ValueSize)

deserializeMessage(m, at) ==
  [type  |-> numberAt(m, at, MessageType),
   key   |-> numberAt(m, at + MessageType, KeySize),
   value |-> numberAt(m, at + MessageType + KeySize, ValueSize)]

-----------------------------------------------------------------------------
(* Leaves. *)

leafSize ==
  (Fanout - 1) * KeySize + (Fanout - 1) * ValueSize
  + Uint8 + Uint16 + 3 * Uint64 + KeySize

\* Mutant: the unused places of the keys are not skipped.
serializeLeaf_Unpadded(n) ==
  number(1, Uint8) \o number(Len(n.keys), Uint16)
  \o numbers(<<n.parent, n.leftSibling, n.rightSibling>>, Uint64)
  \o number(n.lowestSearchKey, KeySize)
  \o numbers(n.keys, KeySize) \o numbers(n.values, ValueSize)
  \o zeros((Fanout - 1 - Len(n.keys)) * (KeySize + ValueSize))

serializeLeaf(n) ==
  number(1, Uint8) \o number(Len(n.keys), Uint16)
  \o numbers(<<n.parent, n.leftSibling, n.rightSibling>>, Uint64)
  \o number(n.lowestSearchKey, KeySize)
  \o numbers(n.keys, KeySize) \o zeros((Fanout - 1 - Len(n.keys)) * KeySize)
  \o numbers(n.values, ValueSize) \o zeros((Fanout - 1 - Len(n.keys)) * ValueSize)

deserializeLeaf(m, at) ==
  LET numKeys  == numberAt(m, at + Uint8, Uint16)
      links    == numbersAt(m, at + Uint8 + Uint16, Uint64, 3)
      lowestAt == at + Uint8 + Uint16 + 3 * Uint64
      keysAt   == lowestAt + KeySize
      valuesAt == keysAt + (Fanout - 1) * KeySize
  IN [parent |-> links[1], leftSibling |-> links[2], rightSibling |-> links[3],
      lowestSearchKey |-> numberAt(m, lowestAt, KeySize),
      keys   |-> numbersAt(m, keysAt, KeySize, numKeys),
      values |-> numbersAt(m, valuesAt, ValueSize, numKeys)]

-----------------------------------------------------------------------------
(* Internal nodes. *)

internalSize ==
  (Fanout - 1) * KeySize + Fanout * Uint64 + MaxBufferSize * messageSize
  + Uint8 + 2 * Uint16 + 3 * Uint64 + KeySize

\* The keys of a map in the order of its iterators.
ordered(S) ==
  CHOOSE s \in [1 .. Cardinality(S) -> S] : \A i, j \in DOMAIN s : i < j => s[i] < s[j]

\* An overfull buffer is written in full, with no padding.
serializeInternal(n) ==
  LET order    == ordered(DOMAIN n.messageBuffer)
      messages == [i \in DOMAIN order |-> serializeMessage(order[i], n.messageBuffer[order[i]])]
  IN number(0, Uint8)
     \o numbers(<<Len(n.keys), Len(order)>>, Uint16)
     \o numbers(<<n.parent, n.leftSibling, n.rightSibling>>, Uint64)
     \o number(n.lowestSearchKey, KeySize)
     \o numbers(n.keys, KeySize) \o zeros((Fanout - 1 - Len(n.keys)) * KeySize)
     \o numbers(n.children, Uint64) \o zeros((Fanout - 1 - Len(n.keys)) * Uint64)
     \o joined(messages, messageSize)
     \o zeros((MaxBufferSize - Len(order)) * messageSize)

\* The constructor leaves the buffer empty; insert_or_assign keeps the last of a key.
deserializeInternal(m, at) ==
  LET counts     == numbersAt(m, at + Uint8, Uint16, 2)
      links      == numbersAt(m, at + Uint8 + 2 * Uint16, Uint64, 3)
      lowestAt   == at + Uint8 + 2 * Uint16 + 3 * Uint64
      keysAt     == lowestAt + KeySize
      childrenAt == keysAt + (Fanout - 1) * KeySize
      bufferAt   == childrenAt + Fanout * Uint64
      messages   == [i \in 1 .. counts[2] |-> deserializeMessage(m, bufferAt + (i - 1) * messageSize)]
      last(k)    == messages[CHOOSE i \in DOMAIN messages :
                      messages[i].key = k /\ \A j \in DOMAIN messages : messages[j].key = k => j <= i]
  IN [parent |-> links[1], leftSibling |-> links[2], rightSibling |-> links[3],
      lowestSearchKey |-> numberAt(m, lowestAt, KeySize),
      keys     |-> numbersAt(m, keysAt, KeySize, counts[1]),
      children |-> numbersAt(m, childrenAt, Uint64, counts[1] + 1),
      messageBuffer |-> [k \in {messages[i].key : i \in DOMAIN messages} |->
                           [type |-> last(k).type, value |-> last(k).value]]]

-----------------------------------------------------------------------------

isLeaf(n) == "values" \in DOMAIN n

\* Nodes whose arrays have the room that getSerializedSize reserves for them.
leafFits(n) ==
  /\ n \in [parent : Int, leftSibling : Int, rightSibling : Int, lowestSearchKey : Int,
            keys : Seq(Int), values : Seq(Int)]
  /\ Len(n.keys) < Fanout /\ Len(n.values) = Len(n.keys)

internalFits(n) ==
  /\ n \in [parent : Int, leftSibling : Int, rightSibling : Int, lowestSearchKey : Int,
            keys : Seq(Int), children : Seq(Int), messageBuffer : {n.messageBuffer}]
  /\ Len(n.keys) < Fanout /\ Len(n.children) = Len(n.keys) + 1
  /\ DOMAIN n.messageBuffer \subseteq Int
  /\ IsFiniteSet(DOMAIN n.messageBuffer)
  /\ Cardinality(DOMAIN n.messageBuffer) <= MaxBufferSize
  /\ n.messageBuffer \in [DOMAIN n.messageBuffer -> [type : Int, value : Int]]

getSerializedSize(n) == IF isLeaf(n) THEN leafSize ELSE internalSize

serialize(n) == IF isLeaf(n) THEN serializeLeaf(n) ELSE serializeInternal(n)
=============================================================================
