CONSTANTS
  Nibble = 2
  Regs <- MCRegs
  Starts <- MCStarts
SPECIFICATION Spec
INVARIANTS CarryMoves DivisionUndoes BitReadsBack
PROPERTIES BranchDecides StackKept
CHECK_DEADLOCK FALSE
