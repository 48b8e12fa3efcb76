SPECIFICATION Spec
CONSTANTS
  Keys = {"ENTER", "LEFT"}
  ENTER = "ENTER"
  FrameCycles = 4
  SubCycles = 3
  Prescale = 2
  Modulo = 3
  Reload = 1
  Compare = 1
  Sessions = {{"ENTER", "LEFT", "IRQ0", "RTC"},
              {"ENTER", "TB1", "count B"},
              {"TW", "clock W", "count W", "CCLR", "RTC"}}
  MaxWaiting = 4
INVARIANTS QueueIsList NoStuckKey ContextKept
PROPERTIES QuarterWakes
CHECK_DEADLOCK FALSE
