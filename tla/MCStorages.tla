------------------------------ MODULE MCStorages ------------------------------
(***************************************************************************)
(* An instance of the storages for TLC: the storages of the tree, those of *)
(* the object cache, and the nodes that are read from persistent memory.   *)
(* They do not meet in a program: a behaviour is one of a single of them.  *)
(***************************************************************************)
EXTENDS MappedStorage, ObjectStorage, ReadOnlyNodes

\* Leaves and internal nodes of the tree, each with one of two contents, of which one
\* uses all the room of its arrays.
linked(lowest) == [parent |-> 5, leftSibling |-> 6, rightSibling |-> 7, lowestSearchKey |-> lowest]

Nodes ==
  { [keys |-> <<11, 12>>, values |-> <<21, 22>>] @@ linked(11),
    [keys |-> <<13>>, values |-> <<23>>] @@ linked(12),
    [keys |-> <<14, 15>>, children |-> <<31, 32, 33>>,
     messageBuffer |-> (16 :> [type |-> 0, value |-> 24]) @@ (17 :> [type |-> 1, value |-> 0])] @@ linked(13),
    [keys |-> <<18>>, children |-> <<34, 35>>,
     messageBuffer |-> (19 :> [type |-> 1, value |-> 0])] @@ linked(14) }

Sizes == [n \in Nodes |-> getSerializedSize(n)]

\* Data nodes of the store, of one block less and of one more with an object behind them.
DataObjects == {DataNode(<<3>>, <<4>>), DataNode(<<3, 5>>, <<4, 6>>)}

StoredNodes ==
  { DataNode(<<1, 2>>, <<5, 6>>), DataNode(<<3>>, <<5>>),
    IndexNode(<<1, 2>>, <<5, 6, 5>>), IndexNode(<<3>>, <<6, 5>>) }

-----------------------------------------------------------------------------

noTree == medium = "none"
noObjects == storageClass = "none"

StoragesInit ==
  \/ /\ MappedInit("none") /\ ObjectInit("none")
     /\ NodesInit
  \/ /\ \E m \in Classes : MappedInit(m)
     /\ ObjectInit("none") /\ NodesInit
  \/ /\ \E c \in ObjectClasses : ObjectInit(c)
     /\ MappedInit("none") /\ NodesInit

StoragesNext ==
  \/ MappedNext /\ UNCHANGED <<objectVars, nodeVars>>
  \/ ObjectNext /\ UNCHANGED <<mappedVars, nodeVars>>
  \/ noTree /\ noObjects /\ NodesNext /\ UNCHANGED <<mappedVars, objectVars>>

StoragesSpec == StoragesInit /\ [][StoragesNext]_<<mappedVars, objectVars, nodeVars>>

-----------------------------------------------------------------------------
(* The view forgets what nothing reads any more: the bytes of free blocks,   *)
(* and the file of a mapping that will be written over it; the bytes of the  *)
(* object storages behind the last block, and the unread table.              *)

TreeView ==
  LET inside  == {id \in DOMAIN stored : occupied(id) \subseteq Block}
      seen(m) == << [id \in inside |-> loadNode(m, id)], headerAt(m), readAllocationTable(m) >>
  IN << [b \in Block \cap (Reserved \cup table) |-> disk[b]], table, saved, stored, open, medium, params, root,
        IF open THEN seen(readable) ELSE << >>,
        IF medium = "nvm" \/ ~open THEN seen(file) ELSE << >>,
        numberAt(file, 0, Uint64) >>

ObjectView ==
  << storageClass, constructed, memory = NoFile, m_nNextBlock, placed,
     IF constructed THEN {getObject(e.uid) : e \in placed} ELSE {} >>

StoragesView == << TreeView, ObjectView, nodeVars >>
=============================================================================
