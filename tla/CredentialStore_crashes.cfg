CONSTANTS
  Ids = {i1, i2}
  None = None
  Plain = Plain
  Absent = Absent
  Torn = Torn
  MaxKeys = 4
  MaxCrashes = 2
SPECIFICATION Spec
INVARIANTS AckedIntact SecretsDecrypt
CHECK_DEADLOCK FALSE
