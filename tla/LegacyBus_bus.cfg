SPECIFICATION Spec
CONSTANTS
  AddressByte = 2
  EepromSize = 4
  PageSize = 4
  Addresses = {1, 2}
  DataBytes = {5}
  MaxLength = 2
  Commands = {3, 23, 129, 191}
  MaxRun = 3
  Firmwares = {{"write", "read", "draw"},
               {"enable", "status", "command", "draw"},
               {"store", "sample", "write", "command"}}
INVARIANTS LcdInRange DevicesKeep ReadsBack LcdFollows
PROPERTIES Completes
