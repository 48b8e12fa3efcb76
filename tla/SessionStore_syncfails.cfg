SPECIFICATION Spec
CONSTANTS
  Instances = {p1, p2}
  Images = {a, b}
  Missing = Missing
  Corrupt = Corrupt
  None = None
  MaxDamage = 0
  DamageDuring = {}
  SyncMayFail = TRUE
  PowerCuts = FALSE
INVARIANTS SavedMeansStored
