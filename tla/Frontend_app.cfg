SPECIFICATION Spec
CONSTANTS
  Keys = {"CENTER", "LEFT"}
  CENTER = "CENTER"
  Long = 6
  Short = 3
  SaveTicks = 8
INVARIANTS KeysInv AutosaveBound 
PROPERTIES PulseEnds
CHECK_DEADLOCK FALSE
