SPECIFICATION Spec
CONSTANTS
  MaxKey = 5
  MaxNode = 10
  Rewritten = {}
  v1 = v1
  v2 = v2
  Absent = Absent
  None = None
  Key <- Keys
  Value <- Values
  Insertable <- Pairs
  NodeId <- Ids
  Fanout = 3
  MaxBufferSize = 2
  SpareNodes = 3
VIEW CanonicalState
INVARIANTS
  TypeOK
  LowestKeyIsSeparator
  LinksAgree
  AllocationExact
  NodesFilled
  RestructuringStopsFlush
PROPERTIES
  ImplementsDictionary
