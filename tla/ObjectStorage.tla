---------------------------- MODULE ObjectStorage ----------------------------
(***************************************************************************)
(* The storages of the object cache, with the bytes that they write:       *)
(* VolatileStorage in an array, FileStorage through a stream, PMemStorage  *)
(* in a mapped file of persistent memory.  All append: an object gets the  *)
(* blocks behind the last, and its identifier says where they are.  The    *)
(* cache without threads stores an object at a time (addObject), the flush *)
(* thread a list of them, for which BPlusStore::prepareFlush has chosen    *)
(* the identifiers (addObjects).                                           *)
(***************************************************************************)
EXTENDS ObjectLayout

CONSTANTS
  ObjectBlockSize, ObjectBlocks,    \* nBlockSize, nStorageSize / nBlockSize
  DataObject,                       \* the data nodes that are stored
  Pivot,                            \* the pivot of the index nodes that are stored
  FirstPointer, SecondPointer       \* the addresses of objects in memory

ASSUME ObjectBlockAssumption == ObjectBlockSize \in Nat \ {0} /\ ObjectBlocks \in Nat
ASSUME DataObjectAssumption ==
  \A n \in DataObject : /\ n = DataNode(n.keys, n.items)
                        /\ n.keys \in Seq(Int) /\ n.items \in Seq(Int)
ASSUME PointerAssumption == Pivot \in Int /\ FirstPointer \in Nat /\ SecondPointer \in Nat
ASSUME OffsetsFit == ObjectBlocks * ObjectBlockSize <= Uint32Values

VARIABLES
  storageClass,    \* "volatile", "file" or "pmem"
  constructed,
  memory,          \* m_szStorage, the file, or hMemory with the file it maps
  m_nNextBlock,
  m_vtAllocationTable,   \* the blocks that are marked; nothing reads it
  placed           \* history: the stored objects and their identifiers

objectVars == <<storageClass, constructed, memory, m_nNextBlock, m_vtAllocationTable, placed>>

NoFile == << >>
Cleared == [o \in 0 .. ObjectBlocks * ObjectBlockSize - 1 |-> byte(0, 1)]

\* std::ceil(nSize / (float)m_nBlockSize)
requiredBlocks_Floor(size) == size \div ObjectBlockSize          \* mutant
requiredBlocks(size) == (size + ObjectBlockSize - 1) \div ObjectBlockSize

offsetOf(block) == block * ObjectBlockSize

-----------------------------------------------------------------------------
(* What the classes have in common. *)

constructs(m) ==
  /\ ~constructed
  /\ constructed' = TRUE
  /\ memory' = m
  /\ m_nNextBlock' = 0 /\ m_vtAllocationTable' = {}
  /\ UNCHANGED <<storageClass, placed>>

\* A destructor, which leaves the memory m.  Nobody knows the identifiers after it.
destroys(m) ==
  /\ constructed
  /\ constructed' = FALSE
  /\ memory' = m
  /\ m_nNextBlock' = 0 /\ m_vtAllocationTable' = {}
  /\ placed' = {}
  /\ UNCHANGED storageClass

\* The bytes of an object, written to a stream or to memory.
writtenAs(n) == IF storageClass = "file" THEN streamed(n) ELSE serialized(n)

\* addObject.  The size counts the type twice.
added(n) ==
  LET s      == writtenAs(n)
      blocks == requiredBlocks(Len(s) + Uint8)
  IN /\ constructed
     /\ m_nNextBlock + blocks <= ObjectBlocks     \* bound: there is no check in the code
     /\ memory' = put(memory, offsetOf(m_nNextBlock), s)
     /\ m_nNextBlock' = m_nNextBlock + blocks
     /\ m_vtAllocationTable' = m_vtAllocationTable \cup (m_nNextBlock .. m_nNextBlock + blocks - 1)
     /\ placed' = placed \cup
          {[uid |-> createAddressFromFileOffset(m_nNextBlock, ObjectBlockSize, Len(s) + Uint8),
            node |-> n]}
     /\ UNCHANGED <<storageClass, constructed>>

mediaType == IF storageClass = "file" THEN File ELSE DRAM

\* The child u of an index node, after the objects of the list before it.
updatedChild(u, before) ==
  IF \E e \in ToSet(before) : sameUID(u, e.old)
    THEN (CHOOSE e \in ToSet(before) : sameUID(u, e.old)).uid ELSE u

\* prepareFlush: each object of a list, with the identifier that it had, gets one of
\* the storage's medium, which the index nodes after it learn.  A clean object is left
\* out, unless it is an index node that has just learnt of one.
prepare(list) ==
  LET next(done, e) ==
        LET n   == IF e.node.leaf THEN e.node
                   ELSE [e.node EXCEPT !.items =
                           [c \in DOMAIN @ |-> updatedChild(@[c], done.objects)]]
            uid == createAddressFromArgs(mediaType, done.nPos, ObjectBlockSize, getSize(n))
        IN IF ~e.dirty /\ n = e.node THEN done
           ELSE [nPos |-> done.nPos + requiredBlocks(getSize(n)),
                 objects |-> Append(done.objects, [old |-> e.old, uid |-> uid, node |-> n])]
  IN FoldLeft(next, [nPos |-> m_nNextBlock, objects |-> << >>], list)

\* addObjects, of which only the first of the prepared objects may get written.  It
\* leaves the table as it is.
addsObjects(list, objects) ==
  /\ constructed
  /\ prepare(list).nPos <= ObjectBlocks                     \* bound
  /\ m_nNextBlock' = prepare(list).nPos
  /\ memory' = FoldLeft(LAMBDA m, e : put(m, e.uid.m_nOffset, writtenAs(e.node)), memory, objects)
  /\ UNCHANGED <<storageClass, constructed, m_vtAllocationTable>>

addedAll(list) ==
  /\ addsObjects(list, prepare(list).objects)
  /\ placed' = placed \cup {[uid |-> e.uid, node |-> e.node] : e \in ToSet(prepare(list).objects)}

-----------------------------------------------------------------------------
(* VolatileStorage *)

Construct_Volatile == storageClass = "volatile" /\ constructs(Cleared)
Destroy_Volatile == storageClass = "volatile" /\ destroys(NoFile)
AddObject_Volatile(n) == storageClass = "volatile" /\ added(n)
AddObjects_Volatile(list) == storageClass = "volatile" /\ addedAll(list)
getObject_Volatile(uid) == fromMemory(memory, uid.m_nOffset)

-----------------------------------------------------------------------------
(* FileStorage, which truncates the file, so that nothing reads what it has   *)
(* left.  An object may be refused when it has been written.                *)

Construct_File == storageClass = "file" /\ constructs(Cleared)
Destroy_File == storageClass = "file" /\ destroys(NoFile)

AddObject_File(n) ==
  /\ storageClass = "file"
  /\ ~isRefused(n)
  /\ added(n)

Refused_File(n) ==
  /\ storageClass = "file" /\ constructed
  /\ isRefused(n)
  /\ m_nNextBlock + requiredBlocks(getSize(n) + Uint8) <= ObjectBlocks      \* bound
  /\ memory' = put(memory, offsetOf(m_nNextBlock), streamed(n))
  /\ UNCHANGED <<storageClass, constructed, m_nNextBlock, m_vtAllocationTable, placed>>

AddObjects_File(list) ==
  /\ storageClass = "file"
  /\ \A e \in ToSet(prepare(list).objects) : ~isRefused(e.node)
  /\ addedAll(list)

RefusedIn_File(list) ==
  LET objects == prepare(list).objects
      first   == SelectInSeq(objects, LAMBDA e : isRefused(e.node))
  IN /\ storageClass = "file"
     /\ first # 0
     /\ addsObjects(list, SubSeq(objects, 1, first))
     /\ UNCHANGED placed

getObject_File(uid) == fromStream(memory, uid.m_nOffset)

-----------------------------------------------------------------------------
(* PMemStorage.  A file that is there is mapped as it is, and written over   *)
(* from its first block on.                                                  *)

mapFile == IF memory = NoFile THEN Cleared ELSE memory

Construct_PMem == storageClass = "pmem" /\ constructs(mapFile)
Destroy_PMem == storageClass = "pmem" /\ destroys(memory)
AddObject_PMem(n) == storageClass = "pmem" /\ added(n)
AddObjects_PMem(list) == storageClass = "pmem" /\ addedAll(list)
getObject_PMem(uid) == fromMemory(memory, uid.m_nOffset)

-----------------------------------------------------------------------------
(* What is stored: new objects, and stored ones that were read again and    *)
(* perhaps changed; index nodes have children that are stored or in memory. *)

inMemory(ptr) == createAddressFromVolatilePointer(ptr)
dataUIDs == {inMemory(FirstPointer)} \cup {e.uid : e \in {f \in placed : f.node.leaf}}
IndexObject == {IndexNode(<<Pivot>>, c) : c \in {d \in dataUIDs \X dataUIDs : d[1] # d[2]}}
Object == DataObject \cup IndexObject

changed(uid, n) == [old |-> uid, node |-> n, dirty |-> TRUE]
clean(e) == [old |-> e.uid, node |-> e.node, dirty |-> FALSE]

\* Two objects that the flush thread has picked: a data node, and after it another
\* object, which may be the parent of the first.
Lists ==
  {list \in {changed(u, n) : u \in dataUIDs, n \in DataObject}
            \X ({changed(inMemory(SecondPointer), n) : n \in Object} \cup {clean(e) : e \in placed}) :
     list[1].old # list[2].old}

ObjectClasses == {"volatile", "file", "pmem"}

ObjectInit(class) ==
  /\ storageClass = class
  /\ constructed = FALSE
  /\ memory = NoFile
  /\ m_nNextBlock = 0 /\ m_vtAllocationTable = {}
  /\ placed = {}

ObjectNext ==
  \/ Construct_Volatile \/ Construct_File \/ Construct_PMem
  \/ Destroy_Volatile \/ Destroy_File \/ Destroy_PMem
  \/ \E n \in Object :
       AddObject_Volatile(n) \/ AddObject_File(n) \/ Refused_File(n) \/ AddObject_PMem(n)
  \/ \E list \in Lists :
       AddObjects_Volatile(list) \/ AddObjects_File(list) \/ RefusedIn_File(list)
       \/ AddObjects_PMem(list)

ObjectSpec == (\E class \in ObjectClasses : ObjectInit(class)) /\ [][ObjectNext]_objectVars

-----------------------------------------------------------------------------

getObject(uid) ==
  CASE storageClass = "volatile" -> getObject_Volatile(uid)
    [] storageClass = "file"     -> getObject_File(uid)
    [] storageClass = "pmem"     -> getObject_PMem(uid)

(***************************************************************************)
(* Every stored object is read back, item by item, by the identifier that  *)
(* it was given, and no identifier is equal to that of another object:     *)
(* whichever of the two ways of storing computed the sizes and the places, *)
(* and in whatever order they alternate, also after a refusal in between   *)
(* and when a file is written over.  A read-only node in persistent memory *)
(* reads the same.                                                         *)
(***************************************************************************)
ObjectsReadBack ==
  \A e \in placed :
    /\ getObject(e.uid) = e.node
    /\ storageClass = "pmem" => readOnlyFrom(memory, e.uid.m_nOffset) = e.node
    /\ \A f \in placed : sameUID(e.uid, f.uid) => e = f
=============================================================================
