SPECIFICATION StoragesSpec
CONSTANTS
  BlockSize = 14
  NumBlocks = 12
  Node <- Nodes
  SizeOf <- Sizes
  Fanout = 3
  MaxBufferSize = 2
  KeySize = 1
  ValueSize = 1
  Magic = 99
  Uint32Values = 256
  ObjectBlockSize = 19
  ObjectBlocks = 8
  DataObject <- DataObjects
  Pivot = 5
  FirstPointer = 300
  SecondPointer = 700
  Degree = 2
  Holder = {h1, h2}
  NodeKey = {1, 2, 3}
  Item = {5, 6}
  StoredNode <- StoredNodes
  NoNode = NoNode
VIEW StoragesView
INVARIANTS
  TypeOK
  TableExact
  ReadsBack
  ScanFindsFirstFit
  NodesDecode
  HeaderKept
  DurableAtReturn
  ObjectsReadBack
PROPERTY ImplementsPlainNodes
