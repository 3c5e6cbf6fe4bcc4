SPECIFICATION ScriptSpec
CONSTANTS
  MaxKey = 27
  MaxUID = 60
  v1 = v1
  v2 = v2
  Absent = Absent
  None = None
  Thread = {t1, t2, t3}
  Key <- Keys
  Value = {v1, v2}
  ObjectUID <- UIDs
  Degree = 2
  Workload <- PhasedWorkload
SYMMETRY Interchangeable
INVARIANTS
  ShapeKept
  PathLocked
  SiblingsPrivate
  LiveExact
PROPERTIES
  ImplementsMap
