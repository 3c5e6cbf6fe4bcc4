---------------------------- MODULE ObjectLayout ----------------------------
(***************************************************************************)
(* The identifiers of the objects of the B+-tree store (ObjectFatUID.h)    *)
(* and the bytes of its nodes (DataNode.hpp, IndexNode.hpp): a byte for    *)
(* the type, the numbers of keys and of items, the keys, the items.  The   *)
(* items of an index node are identifiers.                                 *)
(***************************************************************************)
EXTENDS StoreNodes, Bytes

CONSTANT Uint32Values      \* how many values a uint32_t has

ASSUME Uint32Assumption == Uint32Values \in Nat \ {0}

Sizet == 8                 \* sizeof(size_t)

-----------------------------------------------------------------------------
(* Identifiers.  The union FATPOINTER holds the offset and the size in a   *)
(* storage or, in the same eight bytes, an address.                        *)

Volatile == 1              \* Media
DRAM == 2
PMem == 3
File == 4

NodeUID(media, offset, size) ==
  [m_nMediaType |-> media, m_nOffset |-> offset, m_nSize |-> size]

createAddressFromVolatilePointer(ptr) ==
  NodeUID(Volatile, ptr % Uint32Values, ptr \div Uint32Values)

createAddressFromDRAMCacheCounter(nPos, nBlockSize, nSize) ==
  NodeUID(DRAM, nPos * nBlockSize % Uint32Values, nSize % Uint32Values)

createAddressFromFileOffset(nPos, nBlockSize, nSize) ==
  NodeUID(File, nPos * nBlockSize % Uint32Values, nSize % Uint32Values)

createAddressFromArgs(media, nPos, nBlockSize, nSize) ==
  IF media = DRAM THEN createAddressFromDRAMCacheCounter(nPos, nBlockSize, nSize)
  ELSE createAddressFromFileOffset(nPos, nBlockSize, nSize)

\* operator==: addresses are compared as such, which compares all their bytes.
sameUID(u, v) ==
  /\ u.m_nMediaType = v.m_nMediaType /\ u.m_nMediaType # PMem
  /\ u.m_nOffset = v.m_nOffset /\ u.m_nSize = v.m_nSize

NodeUIDSize == 16          \* sizeof: seven bytes follow the medium and are never set

uidBytes(u) ==
  number(u.m_nMediaType, Uint8) \o [i \in 1 .. 7 |-> AnyByte]
  \o numbers(<<u.m_nOffset, u.m_nSize>>, Uint32)

uidAt(m, at) ==
  NodeUID(numberAt(m, at, Uint8), numberAt(m, at + 8, Uint32), numberAt(m, at + 12, Uint32))

-----------------------------------------------------------------------------
(* Data nodes *)

DataNodeUID == 1           \* TYPE_UID
IndexNodeUID == 2

counts(n) == numbers(<<Len(n.keys), Len(n.items)>>, Sizet)

\* getSize, by which prepareFlush reserves room.
dataNodeSize_OneCount(n) ==                                      \* mutant
  Uint8 + Sizet + Len(n.keys) * KeySize + Len(n.items) * ValueSize
dataNodeSize(n) ==
  Uint8 + Sizet + Sizet + Len(n.keys) * KeySize + Len(n.items) * ValueSize

serializeDataNode(n) ==
  number(DataNodeUID, Uint8) \o counts(n) \o numbers(n.keys, KeySize) \o numbers(n.items, ValueSize)

\* writeToStream, field by field.
dataNodeStream(n) == serializeDataNode(n)

\* The data node whose counts are at an offset: the constructor from a stream, of
\* which the type is read; from memory, at the type; and for a read-only node, by the
\* ends of the keys and of the values.
dataNodeAt(m, at) ==
  LET n      == numbersAt(m, at, Sizet, 2)
      keysAt == at + 2 * Sizet
  IN DataNode(numbersAt(m, keysAt, KeySize, n[1]),
              numbersAt(m, keysAt + n[1] * KeySize, ValueSize, n[2]))
dataNodeFrom(m, at) == dataNodeAt(m, at + Uint8)
readOnlyDataNode(m, at) ==
  LET n      == numbersAt(m, at + Uint8, Sizet, 2)
      keysAt == at + Uint8 + 2 * Sizet
      itemsAt == keysAt + n[1] * KeySize
  IN DataNode(numbersIn(m, keysAt, itemsAt, KeySize),
              numbersIn(m, itemsAt, itemsAt + n[2] * ValueSize, ValueSize))

-----------------------------------------------------------------------------
(* Index nodes *)

indexNodeSize(n) ==
  Uint8 + Sizet + Sizet + Len(n.keys) * KeySize + Len(n.items) * NodeUIDSize

serializeIndexNode(n) ==
  number(IndexNodeUID, Uint8) \o counts(n) \o numbers(n.keys, KeySize)
  \o joined([i \in DOMAIN n.items |-> uidBytes(n.items[i])], NodeUIDSize)

\* writeToStream, which throws, when all is written, at a child that is only in memory.
indexNodeStream(n) == serializeIndexNode(n)
isRefused(n) == ~n.leaf /\ \E u \in ToSet(n.items) : u.m_nMediaType < PMem

indexNodeAt(m, at) ==
  LET n      == numbersAt(m, at, Sizet, 2)
      keysAt == at + 2 * Sizet
  IN IndexNode(numbersAt(m, keysAt, KeySize, n[1]),
               [i \in 1 .. n[2] |-> uidAt(m, keysAt + n[1] * KeySize + (i - 1) * NodeUIDSize)])
indexNodeFrom(m, at) == indexNodeAt(m, at + Uint8)
readOnlyIndexNode(m, at) ==
  LET n       == numbersAt(m, at + Uint8, Sizet, 2)
      keysAt  == at + Uint8 + 2 * Sizet
      itemsAt == keysAt + n[1] * KeySize
  IN IndexNode(numbersIn(m, keysAt, itemsAt, KeySize),
               [i \in 1 .. n[2] |-> uidAt(m, itemsAt + (i - 1) * NodeUIDSize)])

-----------------------------------------------------------------------------
(* Objects: TypeMarshaller chooses by the type, which is the first byte. *)

NoObject == [leaf |-> TRUE, keys |-> <<Garbage>>, items |-> << >>]

getSize(n) == IF n.leaf THEN dataNodeSize(n) ELSE indexNodeSize(n)

serialized(n) == IF n.leaf THEN serializeDataNode(n) ELSE serializeIndexNode(n)
streamed(n) == IF n.leaf THEN dataNodeStream(n) ELSE indexNodeStream(n)

fromMemory(m, at) ==
  CASE numberAt(m, at, Uint8) = DataNodeUID  -> dataNodeFrom(m, at)
    [] numberAt(m, at, Uint8) = IndexNodeUID -> indexNodeFrom(m, at)
    [] OTHER -> NoObject

\* As the classes of read-only nodes have it.
readOnlyFrom(m, at) ==
  CASE numberAt(m, at, Uint8) = DataNodeUID  -> readOnlyDataNode(m, at)
    [] numberAt(m, at, Uint8) = IndexNodeUID -> readOnlyIndexNode(m, at)
    [] OTHER -> NoObject

fromStream(m, at) ==
  CASE numberAt(m, at, Uint8) = DataNodeUID  -> dataNodeAt(m, at + Uint8)
    [] numberAt(m, at, Uint8) = IndexNodeUID -> indexNodeAt(m, at + Uint8)
    [] OTHER -> NoObject
=============================================================================
