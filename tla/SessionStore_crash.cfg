SPECIFICATION Spec
CONSTANTS
  Instances = {p1, p2}
  Images = {a, b}
  Missing = Missing
  Corrupt = Corrupt
  None = None
  MaxDamage = 2
  DamageDuring = {}
  SyncMayFail = TRUE
  PowerCuts = FALSE
INVARIANTS TypeOK StoreInv
PROPERTIES ImplementsImages
