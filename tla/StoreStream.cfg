SPECIFICATION LoadSpec
CONSTANTS
  MaxKey = 5
  MaxAddress = 20
  Capacities = {1, 3}
  UsedKeys = {1, 3, 4}
  v1 = v1
  v2 = v2
  Absent = Absent
  None = None
  Key <- Keys
  Value = {v1, v2}
  Address <- Addresses
  Capacity <- Capacities
  StreamStorage = TRUE
  Degree = 2
VIEW CanonicalState
INVARIANTS
  NoFault
