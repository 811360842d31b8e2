CONSTANTS
  Ids = {i1, i2}
  None = None
  Plain = Plain
  Absent = Absent
  Torn = Torn
  MaxKeys = 4
  MaxCrashes = 2
SPECIFICATION Spec
INVARIANT RotationReencrypts
CHECK_DEADLOCK FALSE
