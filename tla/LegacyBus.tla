----------------------------- MODULE LegacyBus -----------------------------
(***************************************************************************)
(* The serial bus of the legacy core and the three devices behind it: the  *)
(* EEPROM, the accelerometer and the LCD controller (the SSU part of       *)
(* runNextInstruction in src/src/walker.c).                                *)
(*                                                                         *)
(* The firmware is not in the repository.  It is modelled as a driver that *)
(* selects one device, waits for an empty transmit register before it      *)
(* writes the next byte and before it deselects, and waits for the end of  *)
(* the transfer before it reads.  The record job holds what the driver is  *)
(* doing; the copies are what a correct device would hold.                 *)
(***************************************************************************)
EXTENDS Integers, Sequences

CONSTANTS
  AddressByte,  \* the values of an address byte of the EEPROM, 256 in the code
  EepromSize,   \* bytes of the EEPROM
  PageSize,     \* EEPROM_PAGE_SIZE
  Addresses,    \* where the driver starts transfers
  DataBytes,    \* the bytes it transfers
  MaxLength,    \* the longest transfer
  Commands,     \* the LCD commands it sends
  MaxRun,       \* how far it draws from a column it has set
  Firmwares     \* for each firmware the kinds of transfers it makes

Byte == 0 .. 255
Kinds == {"write", "read", "enable", "status", "store", "sample", "command", "draw"}
OffsetRange == AddressByte * AddressByte   \* the offset has the bits of two bytes

ASSUME BusAssumption ==
  /\ AddressByte \in Nat \ {0} /\ AddressByte <= 256
  /\ EepromSize \in Nat \ {0} /\ EepromSize <= OffsetRange /\ PageSize \in Nat \ {0}
  /\ Commands \subseteq Byte /\ DataBytes \subseteq Byte /\ Addresses \subseteq Nat
  /\ MaxLength \in Nat /\ MaxRun \in Nat
  /\ Firmwares \subseteq SUBSET Kinds

VARIABLES
  ssu,      \* SSER, SSSR, SSTDR, SSRDR and SSU.progress
  low,      \* the chip selects of PORT1 and PORT9 that are low
  data,     \* whether the LCD_DATA_PIN of PORT1 is high
  eeprom,   \* eeprom
  accel,    \* accel
  lcd,      \* the state, page, column and byte of lcd
  kinds,    \* the kinds of transfers of this firmware
  job,      \* the transfer the driver is in the middle of
  copy      \* what the driver has stored, and the place it draws at

vars == <<ssu, low, data, eeprom, accel, lcd, kinds, job, copy>>

Width == 96                           \* LCD_WIDTH
StripeBytes == 2                      \* LCD_BYTES_PER_STRIPE
LcdMemSize == (128 * 176) \div 4      \* LCD_MEM_SIZE
LastRegister == 28                    \* of accelStorage

Idle == [kind |-> "none", at |-> 0, head |-> <<>>, left |-> 0, got |-> <<>>]

Init ==
  /\ ssu = [te |-> FALSE, re |-> FALSE, tdre |-> TRUE, rdrf |-> FALSE, tend |-> FALSE,
            tdr |-> 0, rdr |-> 0, progress |-> 0]
  /\ low = {} /\ data = FALSE
  /\ eeprom = [memory |-> [a \in 0 .. EepromSize - 1 |-> 0], status |-> 0,
               hi |-> 0, lo |-> 0, state |-> "EMPTY", offset |-> 0]
  /\ accel = [memory |-> [a \in 0 .. LastRegister |-> IF a = 0 THEN 2 ELSE 0],
              address |-> 0, offset |-> 0, state |-> "ADDRESS"]
  /\ lcd = [state |-> "EMPTY", page |-> 0, column |-> 0, byte |-> 0]
  /\ kinds \in Firmwares /\ job = Idle
  /\ copy = [eeprom |-> eeprom.memory, status |-> 0, accel |-> accel.memory,
             cursor |-> 0, run |-> 0, contrast |-> FALSE]

-----------------------------------------------------------------------------
\* The devices are functions of d, the record of the SSU and the devices.
\* A byte of the EEPROM and a byte drawn by the LCD take seven clocks of one
\* counter; the accelerometer and the commands of the LCD take one.
Clocked(s) == [s EXCEPT !.progress = (@ + 1) % 7]

\* The mistake of a counter expected to go up to seven.
FinishedLate(s) == s.progress = 7

Finished(s) == s.progress = 6

Ready(s) == [s EXCEPT !.tdre = TRUE]
Ended(s) == [s EXCEPT !.tdre = TRUE, !.tend = TRUE]

\* The accelerometer while the CPU sends and receives: the first clock takes
\* the address, every later one gives a register and moves on.
AccelReads(d) ==
  IF d.accel.state = "ADDRESS"
  THEN [d EXCEPT !.accel.address = d.ssu.tdr % 16, !.accel.offset = 0,
                 !.accel.state = "BYTES", !.ssu.rdrf = TRUE]
  ELSE [d EXCEPT !.accel.offset = (@ + 1) % 256,
                 !.ssu = [Ended(@) EXCEPT
                            !.rdr = d.accel.memory[d.accel.address + d.accel.offset],
                            !.rdrf = TRUE]]

\* The accelerometer while the CPU only sends.
AccelWrites(d) ==
  IF d.accel.state = "ADDRESS"
  THEN [d EXCEPT !.accel.address = d.ssu.tdr, !.accel.state = "BYTES", !.ssu.rdrf = TRUE]
  ELSE [d EXCEPT !.accel.memory[d.accel.address] = d.ssu.tdr,
                 !.ssu = [Ended(@) EXCEPT !.rdrf = TRUE]]

-----------------------------------------------------------------------------
\* The mistake of forgetting how far the transfer is.
LocationStale(e) == (e.hi * AddressByte) + e.lo

Location(e) == (e.hi * AddressByte) + e.lo + e.offset

\* The address bytes are taken alike in both directions.
TakesAddress(e, x) ==
  IF e.state = "ADDRESS_HI" THEN [e EXCEPT !.hi = x, !.state = "ADDRESS_LO"]
                            ELSE [e EXCEPT !.lo = x, !.state = "BYTES"]

\* The EEPROM at the end of a byte while the CPU sends and receives.
EepromReads(d) ==
  LET e == d.eeprom
      s == [Ready(d.ssu) EXCEPT !.rdrf = TRUE]
  IN CASE e.state = "EMPTY" ->
            [d EXCEPT !.ssu = s, !.eeprom.state = CASE d.ssu.tdr = 3 -> "ADDRESS_HI"
                                                    [] d.ssu.tdr = 5 -> "STATUS"
                                                    [] OTHER -> @]
       [] e.state = "STATUS" -> [d EXCEPT !.ssu = [Ended(s) EXCEPT !.rdr = e.status]]
       [] e.state = "BYTES" ->
            [d EXCEPT !.ssu = [Ended(s) EXCEPT !.rdr = e.memory[Location(e)]],
                      !.eeprom.offset = (@ + 1) % OffsetRange]
       [] OTHER -> [d EXCEPT !.ssu = s, !.eeprom = TakesAddress(@, d.ssu.tdr)]

\* The EEPROM at the end of a byte while the CPU only sends.
EepromWrites(d) ==
  LET e == d.eeprom
  IN CASE e.state = "EMPTY" /\ d.ssu.tdr = 6 ->
            [d EXCEPT !.ssu = Ended(@), !.eeprom.status = IF @ % 4 < 2 THEN @ + 2 ELSE @]
       [] e.state = "EMPTY" /\ d.ssu.tdr # 6 ->
            [d EXCEPT !.ssu = Ready(@),
                      !.eeprom.state = IF d.ssu.tdr = 2 THEN "ADDRESS_HI" ELSE @]
       [] e.state = "BYTES" ->
            [d EXCEPT !.ssu = Ended(@), !.eeprom.memory[Location(e)] = d.ssu.tdr,
                      !.eeprom.offset = (@ + 1) % PageSize]
       [] OTHER -> [d EXCEPT !.ssu = Ready(@), !.eeprom = TakesAddress(@, d.ssu.tdr)]

-----------------------------------------------------------------------------
\* The byte of lcd.memory that is written next.
LcdIndex(l) == l.page * (Width * StripeBytes) + l.column * StripeBytes + l.byte

\* The mistake of a column that is left before its second byte.
LcdDrawsEarly(l) ==
  [l EXCEPT !.column = IF l.byte = 0 THEN (@ + 1) % 256 ELSE @, !.byte = (@ + 1) % 2]

\* The memory of the LCD is not modelled, only the place that is written.
LcdDraws(l) ==
  [l EXCEPT !.column = IF l.byte = 1 THEN (@ + 1) % 256 ELSE @, !.byte = (@ + 1) % 2]

\* The mistake of a page that is the whole low half of a command.
LcdObeysWide(l, x) ==
  CASE l.state # "EMPTY" -> [l EXCEPT !.state = "EMPTY"]
    [] x \in 176 .. 191 -> [l EXCEPT !.page = x % 128]
    [] OTHER -> l

\* A command, or the contrast that follows the command 0x81.  Neither the
\* contrast nor an unknown command changes where the LCD draws.
LcdObeys(l, x) ==
  CASE l.state # "EMPTY" -> [l EXCEPT !.state = "EMPTY"]
    [] l.state = "EMPTY" /\ x \in 0 .. 15 ->
         [l EXCEPT !.column = x + ((@ \div 16) * 16), !.byte = 0]
    [] l.state = "EMPTY" /\ x \in 16 .. 23 ->
         [l EXCEPT !.column = ((x % 8) * 16) + (@ % 16), !.byte = 0]
    [] l.state = "EMPTY" /\ x \in 176 .. 191 -> [l EXCEPT !.page = x % 16]
    [] l.state = "EMPTY" /\ x = 129 -> [l EXCEPT !.state = "CONTRAST"]
    [] OTHER -> l

-----------------------------------------------------------------------------
\* A byte on the bus while the CPU sends and receives: one device answers.
Exchange(d) ==
  CASE "ACCEL" \in low -> AccelReads(d)
    [] "ACCEL" \notin low /\ "EEPROM" \in low ->
         LET c == [d EXCEPT !.ssu = Clocked(@)]
         IN IF Finished(d.ssu) THEN EepromReads(c) ELSE c
    [] OTHER -> d

\* A byte while the CPU only sends: every selected device takes it in turn.
\* The LCD takes data whenever the data pin is high, selected or not.
SendAccel(d) == IF "ACCEL" \in low THEN AccelWrites(d) ELSE d
SendEeprom(d) ==
  LET c == [d EXCEPT !.ssu = Clocked(@)]
  IN IF "EEPROM" \notin low THEN d ELSE IF Finished(d.ssu) THEN EepromWrites(c) ELSE c
SendLcd(d) ==
  LET c == [d EXCEPT !.ssu = Clocked(@)]
  IN CASE data /\ Finished(d.ssu) -> [c EXCEPT !.ssu = Ended(@), !.lcd = LcdDraws(@)]
       [] data /\ ~Finished(d.ssu) -> c
       [] ~data /\ "LCD" \in low ->
            [d EXCEPT !.ssu = Ended(@), !.lcd = LcdObeys(@, d.ssu.tdr)]
       [] OTHER -> d

Devices == [ssu |-> IF ssu.te THEN ssu ELSE Ready(ssu),
            eeprom |-> eeprom, accel |-> accel, lcd |-> lcd]

Clocks(d) ==
  CASE d.ssu.te /\ d.ssu.re /\ ~d.ssu.tdre -> Exchange(d)
    [] d.ssu.te /\ ~d.ssu.re /\ ~d.ssu.tdre -> SendLcd(SendEeprom(SendAccel(d)))
    [] OTHER -> d

\* runNextInstruction gives up when the CPU only receives, and at the end of
\* a byte that it only sends to an EEPROM that is asked for its status.
GivesUp ==
  \/ ssu.re /\ ~ssu.te
  \/ /\ ssu.te /\ ~ssu.re /\ ~ssu.tdre /\ Finished(ssu)
     /\ "EEPROM" \in low /\ eeprom.state = "STATUS"

\* One clock of the bus, every fourth cycle.
Tick ==
  LET d == Clocks(Devices)
  IN /\ ~GivesUp
     /\ ssu' = d.ssu /\ eeprom' = d.eeprom /\ accel' = d.accel /\ lcd' = d.lcd
     /\ UNCHANGED <<low, data, kinds, job, copy>>

-----------------------------------------------------------------------------
\* The mistake of an offset that stays over a deselection.
CleanedLate(selected) ==
  /\ accel' = IF "ACCEL" \in selected THEN accel
              ELSE [accel EXCEPT !.state = "ADDRESS"]
  /\ eeprom' = IF "EEPROM" \in selected THEN eeprom
               ELSE [eeprom EXCEPT !.state = "EMPTY"]

\* What the end of an instruction does to the devices that are not selected.
Cleaned(selected) ==
  /\ accel' = IF "ACCEL" \in selected THEN accel
              ELSE [accel EXCEPT !.state = "ADDRESS", !.offset = 0]
  /\ eeprom' = IF "EEPROM" \in selected THEN eeprom
               ELSE [eeprom EXCEPT !.state = "EMPTY", !.offset = 0]

\* The device of a transfer, the bytes it begins with, and its direction.
DeviceOf(kind) ==
  CASE kind \in {"write", "read", "enable", "status"} -> "EEPROM"
    [] kind \in {"store", "sample"} -> "ACCEL"
    [] kind \in {"command", "draw"} -> "LCD"
HighByte(a) == a \div AddressByte
LowByte(a) == a % AddressByte
Header(kind, a) ==
  CASE kind = "write" -> <<2, HighByte(a), LowByte(a)>>
    [] kind = "read" -> <<3, HighByte(a), LowByte(a)>>
    [] kind = "enable" -> <<6>>          [] kind = "status" -> <<5>>
    [] kind = "store" -> <<a>>           [] kind = "sample" -> <<128 + a>>
    [] OTHER -> <<>>
Addressed(kind) == kind \in {"write", "read", "store", "sample"}
Receives(kind) == kind \in {"read", "status", "sample"}
LengthOf(kind) ==
  CASE kind = "enable" -> {0} [] kind \in {"status", "store", "command"} -> {1}
    [] OTHER -> 1 .. MaxLength

\* The driver selects a device and enables the directions it needs.
Begin(kind, a, n) ==
  /\ job = Idle
  /\ n \in LengthOf(kind)
  /\ kind \in {"write", "read"} => a + n <= EepromSize
  /\ kind = "write" => (a % PageSize) + n <= PageSize
  /\ kind = "sample" => a < 16
  /\ kind \in {"store", "sample"} => a + n <= LastRegister
  /\ kind = "draw" => copy.run + n <= MaxRun
  /\ job' = [Idle EXCEPT !.kind = kind, !.at = IF Addressed(kind) THEN a ELSE 0, !.head = Header(kind, a), !.left = n]
  /\ low' = {DeviceOf(kind)} /\ data' = (kind = "draw")
  /\ ssu' = [ssu EXCEPT !.te = TRUE, !.re = Receives(kind)]
  /\ copy' = IF kind = "enable" THEN [copy EXCEPT !.status = 2] ELSE copy
  /\ Cleaned(low')
  /\ UNCHANGED <<lcd, kinds>>

\* A write of SSTDR.
Transmit(b) == ssu' = [ssu EXCEPT !.tdr = b, !.tdre = FALSE, !.tend = FALSE]

SendHeader ==
  /\ ssu.tdre /\ job.head # <<>>
  /\ Transmit(Head(job.head))
  /\ job' = [job EXCEPT !.head = Tail(@)]
  /\ UNCHANGED <<low, data, eeprom, accel, lcd, kinds, copy>>

\* Where the LCD should draw after a byte or a command, in a numbering of
\* 512 bytes a page.
Drawn(c) ==
  [c EXCEPT !.run = @ + 1, !.cursor = IF (@ % 512) = 511 THEN @ - 511 ELSE @ + 1]
Ordered(c, b) ==
  LET page == c.cursor \div 512   column == (c.cursor % 512) \div 2
      To(p, k) == [c EXCEPT !.cursor = (p * 512) + (2 * k)]
  IN CASE c.contrast -> [c EXCEPT !.contrast = FALSE]
       [] ~c.contrast /\ b < 16 -> [To(page, ((column \div 16) * 16) + b) EXCEPT !.run = 0]
       [] ~c.contrast /\ b \in 16 .. 23 ->
            [To(page, (16 * (b - 16)) + (column % 16)) EXCEPT !.run = 0]
       [] ~c.contrast /\ b \in 176 .. 191 ->
            [c EXCEPT !.cursor = ((b - 176) * 512) + (@ % 512)]
       [] OTHER -> [c EXCEPT !.contrast = b = 129 /\ ~@]

\* The next byte of data, of a command, or one that only moves the bus.
SendByte(b) ==
  LET i == job.at + Len(job.got)
  IN /\ ssu.tdre /\ job.head = <<>> /\ job.left > 0 /\ ~Receives(job.kind)
     /\ Transmit(b)
     /\ job' = [job EXCEPT !.left = @ - 1, !.got = Append(@, b)]
     /\ copy' = CASE job.kind = "write" -> [copy EXCEPT !.eeprom[i] = b]
                  [] job.kind = "store" -> [copy EXCEPT !.accel[i] = b]
                  [] job.kind = "draw" -> Drawn(copy)
                  [] job.kind = "command" -> Ordered(copy, b)
     /\ UNCHANGED <<low, data, eeprom, accel, lcd, kinds>>

\* To receive a byte from the EEPROM the driver sends one; the first byte of
\* the accelerometer comes with the address.
SendAny ==
  /\ ssu.tdre /\ job.head = <<>> /\ job.left > 0 /\ Receives(job.kind)
  /\ ~ssu.rdrf \/ ~ssu.tend
  /\ Transmit(0)
  /\ UNCHANGED <<low, data, eeprom, accel, lcd, kinds, job, copy>>

\* A read of SSRDR.
Receive ==
  /\ ssu.tdre /\ ssu.tend /\ ssu.rdrf /\ job.head = <<>> /\ job.left > 0 /\ Receives(job.kind)
  /\ job' = [job EXCEPT !.left = @ - 1, !.got = Append(@, ssu.rdr)]
  /\ ssu' = [ssu EXCEPT !.rdrf = FALSE]
  /\ UNCHANGED <<low, data, eeprom, accel, lcd, kinds, copy>>

\* Deselection: the instruction that sets the pin ends with the clean-up.
Finish ==
  /\ job # Idle /\ job.head = <<>> /\ job.left = 0 /\ ssu.tdre
  /\ job' = Idle /\ low' = {} /\ data' = FALSE
  /\ Cleaned({})
  /\ UNCHANGED <<ssu, lcd, kinds, copy>>

\* The driver turns the SSU off between two transfers.
TurnOff ==
  /\ job = Idle /\ ssu.te
  /\ ssu' = [ssu EXCEPT !.te = FALSE, !.re = FALSE]
  /\ UNCHANGED <<low, data, eeprom, accel, lcd, kinds, job, copy>>

Next ==
  \/ Tick
  \/ \E kind \in kinds, a \in Addresses, n \in 0 .. MaxLength : Begin(kind, a, n)
  \/ SendHeader
  \/ \E b \in IF job.kind = "command" THEN Commands ELSE DataBytes : SendByte(b)
  \/ SendAny
  \/ Receive
  \/ Finish
  \/ TurnOff

\* The bus has a clock as long as the CPU is run.
Spec == Init /\ [][Next]_vars /\ WF_vars(Tick)

-----------------------------------------------------------------------------
\* The program asserts that a byte of data falls into the memory of the LCD
\* (walker.c:2742), whatever commands have set the page and the column.
LcdInRange == LcdIndex(lcd) < LcdMemSize

\* Between two transfers the EEPROM and the accelerometer hold what the
\* driver has sent them: no byte is lost, doubled or put beside its place,
\* and no transfer leaves anything behind that spoils the next.
DevicesKeep ==
  job = Idle => eeprom.memory = copy.eeprom /\ accel.memory = copy.accel

\* What the driver has received is what it once stored there.
ReadsBack ==
  \A i \in 1 .. Len(job.got) :
    /\ job.kind = "read" => job.got[i] = copy.eeprom[job.at + i - 1]
    /\ job.kind = "sample" => job.got[i] = copy.accel[job.at + i - 1]
    /\ job.kind = "status" => job.got[i] = copy.status

\* Commands and data, in any order, leave the LCD drawing at the place the
\* driver means: the two bytes of a column stay together, and the contrast is
\* not taken for a command.
LcdFollows ==
  ssu.tdre =>
    /\ copy.cursor = (lcd.page * 512) + (lcd.column * StripeBytes) + lcd.byte
    /\ copy.contrast <=> lcd.state # "EMPTY"

\* A byte that the driver has sent is taken: the transmit register is empty
\* again after some clocks, so no wait of the firmware is endless.
Completes == ~ssu.tdre ~> ssu.tdre
=============================================================================
