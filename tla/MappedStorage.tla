--------------------------- MODULE MappedStorage ---------------------------
(***************************************************************************)
(* The storages of the tree, with the bytes that they write: the header,   *)
(* the allocation table and the nodes.  BeTreeFileStorage writes to a      *)
(* stream; BeTreeNVMStorage, BeTreeFileMapStorage and BeTreeDRAMStorage    *)
(* write to memory, which reaches the medium when pmem_persist returns,    *)
(* when msync does, and never.  Their allocator is that of BlockStorage.   *)
(*                                                                         *)
(* What the destructor of one storage leaves another process opens; or it  *)
(* makes a new storage in the same file, over the old bytes.               *)
(***************************************************************************)
EXTENDS BlockStorage, NodeLayout

CONSTANT Magic           \* MAGIC_NUMBER

ASSUME MagicAssumption == Magic \in Nat \ {0}

\* What is saved has the size that is reserved for it.  (Where it has not, the buffers of
\* the tree are overfull: run tree_block.)
ASSUME LayoutAssumption ==
  \A n \in Node : (leafFits(n) \/ internalFits(n)) /\ SizeOf[n] = getSerializedSize(n)

VARIABLES
  medium,      \* the class of the storage
  mapped,      \* the bytes at mappedAddr, from offset 0 on
  file,        \* the bytes that outlive the process
  params,      \* rootNodeOffset, fanout and maxBufferSize, of which init reads or writes the header
  root         \* history: the root offset the tree stored last

bytes == <<mapped, file>>
mappedVars == <<vars, medium, bytes, params, root>>

Offset == 0 .. NumBlocks * BlockSize - 1
Unwritten == [o \in Offset |-> AnyByte]

\* pmem_persist: what the memory m holds at an offset is now in the file f.
persist(f, m, at, len) == [o \in DOMAIN f |-> IF o \in at .. at + len - 1 THEN m[o] ELSE f[o]]

-----------------------------------------------------------------------------
(* Header and allocation table. *)

RootOffset == Uint64           \* behind the magic number

header(p) ==
  numbers(<<Magic, p.rootNode>>, Uint64) \o numbers(<<p.fanout, p.maxBufferSize>>, Uint16)

headerAt(m) ==
  [rootNode      |-> numberAt(m, RootOffset, Uint64),
   fanout        |-> numberAt(m, RootOffset + Uint64, Uint16),
   maxBufferSize |-> numberAt(m, RootOffset + Uint64 + Uint16, Uint16)]

\* The byte whose bits are given.
byteOf(bits) ==
  LET sum[j \in 0 .. 8] ==
        IF j = 0 THEN 0 ELSE sum[j - 1] + (IF j - 1 \in bits THEN 2^(j - 1) ELSE 0)
  IN sum[8]

tableBytes(t) ==
  numbers([w \in 1 .. ceil(NumBlocks, 8) |-> byteOf(packed(t)[w - 1])], Uint8)

writeAllocationTable(m, t) == put(m, HeaderSize, tableBytes(t))

readAllocationTable(m) ==
  {i \in Block : (numberAt(m, HeaderSize + i \div 8, Uint8) \div 2^(i % 8)) % 2 = 1}

Given == [rootNode |-> 0, fanout |-> Fanout, maxBufferSize |-> MaxBufferSize]

-----------------------------------------------------------------------------
(* Nodes. *)

at(id) == id * BlockSize

\* loadNode, by the type in the first byte.
loadNode(m, id) ==
  CASE numberAt(m, at(id), Uint8) = 0 -> deserializeInternal(m, at(id))
    [] numberAt(m, at(id), Uint8) = 1 -> deserializeLeaf(m, at(id))
    [] OTHER -> Blank          \* it throws

load_File(id) == loadNode(file, id)
load_NVM(id) == loadNode(mapped, id)
load_FileMap(id) == loadNode(mapped, id)
load_DRAM(id) == loadNode(mapped, id)

-----------------------------------------------------------------------------
(* What the classes have in common.  The steps are those of BlockStorage. *)

\* What the constructor and init with a fanout write over the memory m, and updateRootNode.
initialised(m) == writeAllocationTable(put(m, 0, header(Given)), Reserved)
withRoot(m, id) == put(m, RootOffset, number(id, Uint64))

\* The constructor, and init with a fanout.
created ==
  /\ ~open
  /\ table' = Reserved /\ saved' = packed(Reserved)
  /\ stored' = << >>
  /\ open' = TRUE
  /\ params' = Given /\ root' = 0
  /\ UNCHANGED <<disk, medium>>

\* init without a fanout, which takes everything from the file.
opened ==
  /\ ~open
  /\ numberAt(file, 0, Uint64) = Magic
  /\ table' = readAllocationTable(file)
  /\ params' = headerAt(file)
  /\ open' = TRUE
  /\ UNCHANGED <<disk, saved, stored, medium, file, root>>

\* saveNode, by which the memory m gets the bytes of n at id.
wrote(m, id, n) ==
  /\ \/ isFirstFit(table, id, blocksNeeded(n)) /\ SaveNew(n)
     \/ id \in DOMAIN stored /\ Overwrite(id, n)
  /\ m' = put(m, at(id), serialize(n))
  /\ UNCHANGED <<medium, params, root>>

\* updateRootNode, with an identifier that the cache's create gave the tree.
updated(m, id) ==
  /\ open
  /\ id # 0
  /\ m' = withRoot(m, id)
  /\ params' = [params EXCEPT !.rootNode = id]
  /\ root' = id
  /\ UNCHANGED <<vars, medium>>

\* The destructor: flush, and the mapping is gone.
closed ==
  /\ Close
  /\ mapped' = Unwritten
  /\ UNCHANGED <<medium, params, root>>

SaveRejected(n) == SaveFails(n) /\ UNCHANGED <<medium, bytes, params, root>>

\* removeNode, which leaves the node's bytes where they are.
removed(id, n) == RemoveNode(id, n) /\ UNCHANGED <<medium, bytes, params, root>>

-----------------------------------------------------------------------------
(* BeTreeFileStorage: everything is read from a stream and written to it. *)

\* init truncates the file.
Create_File ==
  /\ medium = "stream"
  /\ created
  /\ file' = initialised(Unwritten)
  /\ UNCHANGED mapped

Open_File == medium = "stream" /\ opened /\ UNCHANGED mapped
Save_File(id, n) == medium = "stream" /\ wrote(file, id, n) /\ UNCHANGED mapped
Remove_File(id, n) == medium = "stream" /\ removed(id, n)
UpdateRoot_File(id) == medium = "stream" /\ updated(file, id) /\ UNCHANGED mapped
Close_File == medium = "stream" /\ closed /\ file' = writeAllocationTable(file, table)

-----------------------------------------------------------------------------
(* BeTreeNVMStorage: what is written is persisted at once. *)

Create_NVM ==
  /\ medium = "nvm"
  /\ created
  /\ mapped' = initialised(file)
  /\ file' = persist(file, mapped', 0, HeaderSize + Len(tableBytes(Reserved)))

Open_NVM == medium = "nvm" /\ opened /\ mapped' = file

Save_NVM_OneBlock(id, n) ==                                      \* mutant
  /\ medium = "nvm"
  /\ wrote(mapped, id, n)
  /\ file' = persist(file, mapped', at(id), BlockSize)

\* As many bytes are persisted as serialize says it has written.
Save_NVM(id, n) ==
  /\ medium = "nvm"
  /\ wrote(mapped, id, n)
  /\ file' = persist(file, mapped', at(id), Len(serialize(n)))

Remove_NVM(id, n) == medium = "nvm" /\ removed(id, n)

UpdateRoot_NVM(id) ==
  /\ medium = "nvm"
  /\ updated(mapped, id)
  /\ file' = persist(file, mapped', RootOffset, Uint64)

Close_NVM == medium = "nvm" /\ closed /\ file' = writeAllocationTable(mapped, table)

-----------------------------------------------------------------------------
(* BeTreeFileMapStorage: a mapped file, written back by msync in flush.  It  *)
(* may be written back earlier; nothing reads the file meanwhile.            *)

Create_FileMap == medium = "fileMap" /\ created /\ mapped' = initialised(file) /\ UNCHANGED file
Open_FileMap == medium = "fileMap" /\ opened /\ mapped' = file
Save_FileMap(id, n) == medium = "fileMap" /\ wrote(mapped, id, n) /\ UNCHANGED file
Remove_FileMap(id, n) == medium = "fileMap" /\ removed(id, n)
UpdateRoot_FileMap(id) == medium = "fileMap" /\ updated(mapped, id) /\ UNCHANGED file

Close_FileMap_NoSync ==                                          \* mutant
  /\ medium = "fileMap"
  /\ closed
  /\ file' = writeAllocationTable(file, table)

Close_FileMap ==
  /\ medium = "fileMap"
  /\ closed
  /\ file' = writeAllocationTable(mapped, table)

-----------------------------------------------------------------------------
(* BeTreeDRAMStorage: a new array each time, which nothing outlives. *)

Create_DRAM == medium = "dram" /\ created /\ mapped' = initialised(Unwritten) /\ UNCHANGED file
Save_DRAM(id, n) == medium = "dram" /\ wrote(mapped, id, n) /\ UNCHANGED file
Remove_DRAM(id, n) == medium = "dram" /\ removed(id, n)
UpdateRoot_DRAM(id) == medium = "dram" /\ updated(mapped, id) /\ UNCHANGED file
Close_DRAM == medium = "dram" /\ closed /\ UNCHANGED file

-----------------------------------------------------------------------------

Classes == {"stream", "nvm", "fileMap", "dram"}

MappedInit(class) ==
  /\ medium = class
  /\ open = FALSE
  /\ table = {} /\ saved = packed(Reserved)
  /\ disk = [b \in Block |-> Blank]
  /\ stored = << >>
  /\ mapped = Unwritten /\ file = Unwritten
  /\ params = Given /\ root = 0

MappedNext ==
  \/ Create_File \/ Open_File \/ Close_File
  \/ Create_NVM \/ Open_NVM \/ Close_NVM
  \/ Create_FileMap \/ Open_FileMap \/ Close_FileMap
  \/ Create_DRAM \/ Close_DRAM
  \/ \E id \in Block, n \in Node :
       Save_File(id, n) \/ Save_NVM(id, n) \/ Save_FileMap(id, n) \/ Save_DRAM(id, n)
  \/ \E n \in Node : SaveRejected(n)
  \/ \E id \in DOMAIN stored, n \in Node :
       Remove_File(id, n) \/ Remove_NVM(id, n) \/ Remove_FileMap(id, n) \/ Remove_DRAM(id, n)
  \/ \E id \in DOMAIN stored :
       UpdateRoot_File(id) \/ UpdateRoot_NVM(id) \/ UpdateRoot_FileMap(id) \/ UpdateRoot_DRAM(id)

MappedSpec == (\E class \in Classes : MappedInit(class)) /\ [][MappedNext]_mappedVars

-----------------------------------------------------------------------------

\* The bytes that the next reader finds: another call, or the next process.
readable == IF open /\ medium # "stream" THEN mapped ELSE file

loadedNode(id) ==
  CASE medium = "stream"  -> load_File(id)
    [] medium = "nvm"     -> load_NVM(id)
    [] medium = "fileMap" -> load_FileMap(id)
    [] medium = "dram"    -> load_DRAM(id)

Lasting == medium # "dram"

(***************************************************************************)
(* Every stored node is read back from its bytes, field by field, as it    *)
(* was last saved: whatever was saved before in the same blocks, and after *)
(* the storage was closed and opened.  The bytes are as many as            *)
(* getSerializedSize reserves, so none of them is in another node.         *)
(***************************************************************************)
NodesDecode ==
  open \/ Lasting =>
    \A id \in DOMAIN stored :
      /\ IF open THEN loadedNode(id) = stored[id] ELSE loadNode(file, id) = stored[id]
      /\ Len(serialize(stored[id])) = SizeOf[stored[id]]

(***************************************************************************)
(* The next process opens the storage with the root, the fanout and the    *)
(* buffer size of this one: nothing is written over the header, and the    *)
(* root is the one stored last.                                            *)
(***************************************************************************)
HeaderKept ==
  /\ open => params = headerAt(readable)
  /\ open \/ (Lasting /\ root # 0) => headerAt(readable) = [Given EXCEPT !.rootNode = root]

(***************************************************************************)
(* In persistent memory a call is durable when it returns: should the      *)
(* process end there, the file has every stored node as it was last saved, *)
(* and the root.  (Of the allocation table it has the one written when the *)
(* storage was closed or made.)                                            *)
(***************************************************************************)
DurableAtReturn ==
  medium = "nvm" /\ open =>
    /\ \A id \in DOMAIN stored : loadNode(file, id) = stored[id]
    /\ headerAt(file) = params
    /\ readAllocationTable(file) = unpacked(saved)
=============================================================================
