SPECIFICATION Spec
CONSTANTS
  Used = {"IRQ0", "IRQ1", "SEIFG025"}
  Unset = {"IRQ1"}
  UsedKeys = {"PB0"}
  Toggles = {"IRQ0", "IRQ1", "SEIFG025", "IENRTC", "SSU", "RTC", "RUN", "PB1"}
  HandlersUnmask = TRUE
  MaxDepth = 2
  Counts = {2}
  QuarterCycles = 2
INVARIANTS NestingInv KeysKept QuarterExact
PROPERTIES WakesForFirst QuarterWakes
