SPECIFICATION SharedSpec
CONSTANTS
  Degree = 2
  StreamStorage = FALSE
  v1 = v1
  v2 = v2
  t1 = t1
  t2 = t2
  Absent = Absent
  None = None
  Thread = {t1, t2}
  MaxAddress = 12
  Capacity = {1, 2}
  FlushCount = 3
  Programs <- TwoReaders
  Key <- Keys
  Address <- Addresses
  Value = {v1, v2}
  Pivots <- pivots
  DataNodes <- dataNodesAtFirst
INVARIANTS
  SearchesFind
