SPECIFICATION Spec
CONSTANTS
  Instances = {p1, p2}
  Images = {a, b, c}
  Missing = Missing
  Corrupt = Corrupt
  None = None
  MaxDamage = 2
  DamageDuring = {"readState", "readRaw", "writePrevious", "writeState", "sync"}
  SyncMayFail = FALSE
  PowerCuts = TRUE
INVARIANTS PromiseKept SavedMeansStored
PROPERTIES LastCopyKept
