SPECIFICATION ScriptSpec
CONSTANTS
  MaxKey = 12
  MaxUID = 12
  v1 = v1
  v2 = v2
  Absent = Absent
  None = None
  Thread = {t1, t2}
  Key <- Keys
  Value = {v1, v2}
  ObjectUID <- UIDs
  Degree = 3
  Workload <- MixedWorkload
SYMMETRY Interchangeable
INVARIANTS
  ThrowsOnlyIfAbsent
