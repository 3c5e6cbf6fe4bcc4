SPECIFICATION FairDrainSpec
CONSTANTS
  MaxKey = 12
  MaxNode = 20
  Rewritten = {12}
  v1 = v1
  v2 = v2
  Absent = Absent
  None = None
  Key <- Keys
  Value <- Values
  Insertable <- Pairs
  NodeId <- Ids
  Fanout = 3
  MaxBufferSize = 2
  SpareNodes = 4
INVARIANTS
  KeysRouted
  FlushesCurrent
  UnderflowHasSibling
PROPERTIES
  ImplementsDictionary
  CallsReturn
