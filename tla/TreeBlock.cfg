SPECIFICATION Spec
CONSTANTS
  MaxKey = 5
  MaxNode = 11
  Rewritten = {}
  v1 = v1
  v2 = v2
  Absent = Absent
  None = None
  Key <- Keys
  Value <- Values
  Insertable <- Pairs
  NodeId <- Ids
  Fanout = 3
  MaxBufferSize = 2
  SpareNodes = 3
VIEW CanonicalState
INVARIANTS
  BufferFitsBlock
