SPECIFICATION Spec
CONSTANTS
  leaf = leaf
  rootLeaf = rootLeaf
  inner = inner
  fullInner = fullInner
  Objects = 4
  BlockSize = 20
  NumBlocks = 5
  Node <- Nodes
  SizeOf <- Sizes
  Root <- Roots
  Overfull <- FullNodes
  Capacity = 2
  Object <- ObjectSet
  Lost = 1
VIEW CacheView
INVARIANTS
  SingleCopy
  OnlyLostNodesLeak
PROPERTIES
  StaysNearCapacity
  ImplementsNodeMemory
