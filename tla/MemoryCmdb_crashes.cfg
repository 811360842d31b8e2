CONSTANTS
  CIs = {ci1, ci2}
  Fields = {f1, f2}
  None = None
  Unknown = Unknown
  AutoSave = TRUE
  MaxFaults = 2
  MaxCrashes = 2
SPECIFICATION FairSpec
INVARIANT Durable
PROPERTY AutosaveCatchesUp
CHECK_DEADLOCK FALSE
