SPECIFICATION Spec
CONSTANTS
  Samples = {1, 2}
  Silence = 0
  Size = 2
  Wrap = 6
  Buffer = 2
  MaxBatch = 2
INVARIANTS TypeOK NoRace
PROPERTIES ImplementsFifo OffDrains
