-------------------------- MODULE LegacyBusProofs ---------------------------
(***************************************************************************)
(* Proofs about LegacyBus, for any firmware, commands, data, addresses and *)
(* lengths of transfers.                                                   *)
(*                                                                         *)
(* LcdFollows is not inductive: while a byte is on the bus the driver is   *)
(* ahead of the LCD.  LcdInv says by how much, and which pins and switches *)
(* of the SSU go with each transfer.                                       *)
(*                                                                         *)
(* DevicesKeep is not inductive either: it speaks of no transfer.  DevInv  *)
(* says of each kind of transfer how far the EEPROM or the accelerometer is *)
(* behind the driver, byte by byte, and holds ReadsBack with it.           *)
(***************************************************************************)
EXTENDS LegacyBus, TLAPS

LcdStates == [state : {"EMPTY", "CONTRAST"}, page : 0 .. 15, column : 0 .. 255, byte : 0 .. 1]

\* Where a byte of data or a command leaves an LCD in state l.
LEMMA LcdTypes ==
  ASSUME NEW l \in LcdStates, NEW x
  PROVE  LcdDraws(l) \in LcdStates /\ LcdObeys(l, x) \in LcdStates
<1>. DEFINE At(n, h) == [l EXCEPT !.column = n, !.byte = h]
<1>a. ASSUME NEW n \in 0 .. 255, NEW h \in 0 .. 1 PROVE At(n, h) \in LcdStates
  <2>0. [l EXCEPT !.column = n] \in LcdStates
    BY DEF LcdStates
  <2>1. PICK m \in LcdStates : m = [l EXCEPT !.column = n]
    BY <2>0
  <2>2. At(n, h) = [m EXCEPT !.byte = h]
    BY <2>1
  <2>. HIDE DEF At
  <2>3. [m EXCEPT !.byte = h] \in LcdStates
    BY DEF LcdStates
  <2>. QED
    BY <2>2, <2>3
<1>1. LcdDraws(l) \in LcdStates
  <2>0. l.column \in 0 .. 255 /\ (l.column + 1) % 256 \in 0 .. 255
    BY DEF LcdStates
  <2>1. PICK n \in 0 .. 255 : n = IF l.byte = 1 THEN (l.column + 1) % 256 ELSE l.column
    BY <2>0
  <2>2. PICK h \in 0 .. 1 : h = (l.byte + 1) % 2
    BY DEF LcdStates
  <2>3. LcdDraws(l) = At(n, h)
    BY <2>1, <2>2 DEF LcdDraws
  <2>. HIDE DEF At
  <2>. QED
    BY <1>a, <2>3
<1>2. CASE l.state # "EMPTY"
  <2>1. LcdObeys(l, x) = [l EXCEPT !.state = "EMPTY"]
    BY <1>2 DEF LcdObeys
  <2>. QED
    BY <1>1, <2>1 DEF LcdStates
<1>3. CASE l.state = "EMPTY" /\ x \in 0 .. 15
  <2>1. x + ((l.column \div 16) * 16) \in 0 .. 255
    BY <1>3 DEF LcdStates
  <2>2. LcdObeys(l, x) = [l EXCEPT !.column = x + ((l.column \div 16) * 16), !.byte = 0]
    BY <1>3 DEF LcdObeys
  <2>3. PICK n \in 0 .. 255 : n = x + ((l.column \div 16) * 16)
    BY <2>1
  <2>4. LcdObeys(l, x) = At(n, 0)
    BY <2>2, <2>3
  <2>. HIDE DEF At
  <2>. QED
    BY <1>a, <1>1, <2>4
<1>4. CASE l.state = "EMPTY" /\ x \in 16 .. 23
  <2>1. ((x % 8) * 16) + (l.column % 16) \in 0 .. 255
    BY <1>4 DEF LcdStates
  <2>2. LcdObeys(l, x) = [l EXCEPT !.column = ((x % 8) * 16) + (l.column % 16), !.byte = 0]
    BY <1>4 DEF LcdObeys
  <2>3. PICK n \in 0 .. 255 : n = ((x % 8) * 16) + (l.column % 16)
    BY <2>1
  <2>4. LcdObeys(l, x) = At(n, 0)
    BY <2>2, <2>3
  <2>. HIDE DEF At
  <2>. QED
    BY <1>a, <1>1, <2>4
<1>5. CASE l.state = "EMPTY" /\ x \in 176 .. 191
  <2>1. x % 16 \in 0 .. 15
    BY <1>5
  <2>2. LcdObeys(l, x) = [l EXCEPT !.page = x % 16]
    BY <1>5 DEF LcdObeys
  <2>. QED
    BY <1>1, <2>1, <2>2 DEF LcdStates
<1>6. CASE l.state = "EMPTY" /\ x \notin 0 .. 23 /\ x \notin 176 .. 191
  <2>1. LcdObeys(l, x) \in {l, [l EXCEPT !.state = "CONTRAST"]}
    BY <1>6 DEF LcdObeys
  <2>. QED
    BY <1>1, <2>1 DEF LcdStates
<1>. QED
  BY <1>2, <1>3, <1>4, <1>5, <1>6

-----------------------------------------------------------------------------
\* The driver c means the place at which an LCD in state l draws.
Means(c, l) ==
  /\ c.cursor = (l.page * 512) + (l.column * 2) + l.byte
  /\ c.contrast <=> l.state # "EMPTY"

LEMMA Place ==
  ASSUME NEW l \in LcdStates, NEW c, Means(c, l)
  PROVE  /\ l.page \in 0 .. 15 /\ l.column \in 0 .. 255 /\ l.byte \in 0 .. 1
         /\ c.cursor \div 512 = l.page /\ c.cursor % 512 = (l.column * 2) + l.byte
         /\ (c.cursor % 512) \div 2 = l.column
<1>1. PICK p \in 0 .. 15, k \in 0 .. 255, b \in 0 .. 1 :
        p = l.page /\ k = l.column /\ b = l.byte
  BY DEF LcdStates
<1>2. PICK q \in Int : q = c.cursor /\ q = (p * 512) + (k * 2) + b
  BY <1>1 DEF Means
<1>3. q \div 512 = p /\ q % 512 = (k * 2) + b
  BY <1>2
<1>4. ((k * 2) + b) \div 2 = k
  OBVIOUS
<1>. QED
  BY <1>1, <1>2, <1>3, <1>4

\* What the driver thinks of a byte of data is what the LCD does with it.
LEMMA DrawnAlike ==
  ASSUME NEW l \in LcdStates, NEW c, "cursor" \in DOMAIN c, "run" \in DOMAIN c,
         "contrast" \in DOMAIN c, Means(c, l)
  PROVE  Means(Drawn(c), LcdDraws(l))
<1>1. /\ Drawn(c).cursor = IF (c.cursor % 512) = 511 THEN c.cursor - 511 ELSE c.cursor + 1
      /\ Drawn(c).contrast = c.contrast
  BY DEF Drawn
<1>2. /\ LcdDraws(l).page = l.page /\ LcdDraws(l).state = l.state
      /\ LcdDraws(l).column = IF l.byte = 1 THEN (l.column + 1) % 256 ELSE l.column
      /\ LcdDraws(l).byte = (l.byte + 1) % 2
  BY DEF LcdDraws, LcdStates
<1>3. l.page \in 0 .. 15 /\ l.column \in 0 .. 255 /\ l.byte \in 0 .. 1
  BY DEF LcdStates
<1>4. c.cursor % 512 = (l.column * 2) + l.byte
  BY Place
<1>5. CASE l.byte = 0
  <2>1. Drawn(c).cursor = c.cursor + 1
    BY <1>1, <1>3, <1>4, <1>5
  <2>2. LcdDraws(l).column = l.column /\ LcdDraws(l).byte = 1
    BY <1>2, <1>5
  <2>3. Drawn(c).cursor = (LcdDraws(l).page * 512) + (LcdDraws(l).column * 2) + LcdDraws(l).byte
    <3>1. PICK p \in 0 .. 15, k \in 0 .. 255 : p = l.page /\ k = l.column
      BY <1>3
    <3>2. c.cursor = (p * 512) + (k * 2) + 0
      BY <1>5, <3>1 DEF Means
    <3>3. Drawn(c).cursor = (p * 512) + (k * 2) + 1
      BY <2>1, <3>2
    <3>. QED
      BY <1>2, <2>2, <3>1, <3>3
  <2>4. Drawn(c).contrast <=> LcdDraws(l).state # "EMPTY"
    BY <1>1, <1>2 DEF Means
  <2>. QED
    BY <2>3, <2>4 DEF Means
<1>6. CASE l.byte = 1 /\ l.column = 255
  BY <1>1, <1>2, <1>3, <1>4, <1>6 DEF Means
<1>7. CASE l.byte = 1 /\ l.column # 255
  <2>1. Drawn(c).cursor = c.cursor + 1
    BY <1>1, <1>3, <1>4, <1>7
  <2>2. LcdDraws(l).column = l.column + 1 /\ LcdDraws(l).byte = 0
    BY <1>2, <1>3, <1>7
  <2>3. Drawn(c).cursor = (LcdDraws(l).page * 512) + (LcdDraws(l).column * 2) + LcdDraws(l).byte
    <3>1. PICK p \in 0 .. 15, k \in 0 .. 255 : p = l.page /\ k = l.column
      BY <1>3
    <3>2. c.cursor = (p * 512) + (k * 2) + 1
      BY <1>7, <3>1 DEF Means
    <3>3. Drawn(c).cursor = (p * 512) + ((k + 1) * 2) + 0
      BY <2>1, <3>2
    <3>. QED
      BY <1>2, <2>2, <3>1, <3>3
  <2>4. Drawn(c).contrast <=> LcdDraws(l).state # "EMPTY"
    BY <1>1, <1>2 DEF Means
  <2>. QED
    BY <2>3, <2>4 DEF Means
<1>. QED
  BY <1>3, <1>5, <1>6, <1>7

\* The same of a command, and of the contrast.
LEMMA OrderedAlike ==
  ASSUME NEW l \in LcdStates, NEW c, "cursor" \in DOMAIN c, "run" \in DOMAIN c,
         "contrast" \in DOMAIN c, c.contrast \in BOOLEAN, Means(c, l), NEW b \in Byte
  PROVE  Means(Ordered(c, b), LcdObeys(l, b))
<1>. DEFINE page == c.cursor \div 512
            column == (c.cursor % 512) \div 2
            To(p, k) == [c EXCEPT !.cursor = (p * 512) + (2 * k)]
<1>1. l.page \in 0 .. 15 /\ l.column \in 0 .. 255 /\ l.byte \in 0 .. 1
  BY DEF LcdStates
<1>2. page = l.page /\ column = l.column /\ c.cursor % 512 = (l.column * 2) + l.byte
  BY Place
<1>b. ASSUME NEW i \in Int PROVE To(l.page, i).cursor = (l.page * 512) + (2 * i)
  OBVIOUS
<1>3. CASE c.contrast
  <2>1. Ordered(c, b) = [c EXCEPT !.contrast = FALSE]
    BY <1>3 DEF Ordered
  <2>2. LcdObeys(l, b) = [l EXCEPT !.state = "EMPTY"]
    BY <1>3 DEF LcdObeys, Means
  <2>. QED
    BY <2>1, <2>2 DEF Means, LcdStates
<1>4. CASE ~c.contrast /\ b \in 0 .. 15
  <2>. DEFINE k == ((l.column \div 16) * 16) + b
  <2>1. Ordered(c, b) = [To(l.page, k) EXCEPT !.run = 0]
    <3>1. Ordered(c, b) = [To(page, ((column \div 16) * 16) + b) EXCEPT !.run = 0]
      BY <1>4 DEF Ordered
    <3>. HIDE DEF page, column, To
    <3>. QED
      BY <1>2, <3>1
  <2>2. LcdObeys(l, b) = [l EXCEPT !.column = b + ((l.column \div 16) * 16), !.byte = 0]
    BY <1>4 DEF LcdObeys, Means
  <2>3. k = b + ((l.column \div 16) * 16) /\ k \in Int
    <3>1. l.column \div 16 \in Int
      BY <1>1
    <3>. QED
      BY <1>4, <3>1
  <2>. HIDE DEF k
  <2>4. /\ Ordered(c, b).cursor = (l.page * 512) + (2 * k)
        /\ Ordered(c, b).contrast = c.contrast
    BY <2>1
  <2>5. /\ LcdObeys(l, b).page = l.page /\ LcdObeys(l, b).state = l.state
        /\ LcdObeys(l, b).column = k /\ LcdObeys(l, b).byte = 0
    BY <2>2, <2>3 DEF LcdStates
  <2>. QED
    BY <1>1, <2>3, <2>4, <2>5 DEF Means
<1>5. CASE ~c.contrast /\ b \in 16 .. 23
  <2>. DEFINE k == (16 * (b - 16)) + (l.column % 16)
  <2>1. Ordered(c, b) = [To(l.page, k) EXCEPT !.run = 0]
    <3>1. Ordered(c, b) = [To(page, (16 * (b - 16)) + (column % 16)) EXCEPT !.run = 0]
      BY <1>5 DEF Ordered
    <3>. HIDE DEF page, column, To
    <3>. QED
      BY <1>2, <3>1
  <2>2. LcdObeys(l, b) = [l EXCEPT !.column = ((b % 8) * 16) + (l.column % 16), !.byte = 0]
    BY <1>5 DEF LcdObeys, Means
  <2>3. k = ((b % 8) * 16) + (l.column % 16) /\ k \in Int
    BY <1>1, <1>5
  <2>. HIDE DEF k
  <2>4. /\ Ordered(c, b).cursor = (l.page * 512) + (2 * k)
        /\ Ordered(c, b).contrast = c.contrast
    BY <2>1
  <2>5. /\ LcdObeys(l, b).page = l.page /\ LcdObeys(l, b).state = l.state
        /\ LcdObeys(l, b).column = k /\ LcdObeys(l, b).byte = 0
    BY <2>2, <2>3 DEF LcdStates
  <2>. QED
    BY <1>1, <2>3, <2>4, <2>5 DEF Means
<1>6. CASE ~c.contrast /\ b \in 176 .. 191
  <2>1. Ordered(c, b) = [c EXCEPT !.cursor = ((b - 176) * 512) + (c.cursor % 512)]
    BY <1>6 DEF Ordered
  <2>2. LcdObeys(l, b) = [l EXCEPT !.page = b % 16]
    BY <1>6 DEF LcdObeys, Means
  <2>3. b % 16 = b - 176
    BY <1>6
  <2>4. /\ LcdObeys(l, b).page = b - 176 /\ LcdObeys(l, b).state = l.state
        /\ LcdObeys(l, b).column = l.column /\ LcdObeys(l, b).byte = l.byte
    BY <2>2, <2>3 DEF LcdStates
  <2>5. /\ Ordered(c, b).cursor = ((b - 176) * 512) + (l.column * 2) + l.byte
        /\ Ordered(c, b).contrast = c.contrast
    <3>1. /\ Ordered(c, b).cursor = ((b - 176) * 512) + (c.cursor % 512)
          /\ Ordered(c, b).contrast = c.contrast
      BY <2>1
    <3>2. ((b - 176) * 512) + (c.cursor % 512) = ((b - 176) * 512) + (l.column * 2) + l.byte
      BY <1>1, <1>2, <1>6
    <3>. QED
      BY <3>1, <3>2
  <2>. QED
    BY <2>4, <2>5 DEF Means
<1>7. CASE ~c.contrast /\ b \notin 0 .. 23 /\ b \notin 176 .. 191
  <2>1. Ordered(c, b) = [c EXCEPT !.contrast = b = 129 /\ ~@]
    BY <1>7 DEF Ordered, Byte
  <2>2. LcdObeys(l, b) = IF b = 129 THEN [l EXCEPT !.state = "CONTRAST"] ELSE l
    BY <1>7 DEF LcdObeys, Means
  <2>3. Ordered(c, b).cursor = c.cursor /\ (Ordered(c, b).contrast <=> b = 129)
    BY <1>7, <2>1
  <2>4. /\ LcdObeys(l, b).page = l.page /\ LcdObeys(l, b).column = l.column
        /\ LcdObeys(l, b).byte = l.byte /\ (LcdObeys(l, b).state # "EMPTY" <=> b = 129)
    BY <1>7, <2>2 DEF Means, LcdStates
  <2>. QED
    BY <2>3, <2>4 DEF Means
<1>. QED
  BY <1>3, <1>4, <1>5, <1>6, <1>7 DEF Byte

-----------------------------------------------------------------------------
\* The fields of the records that actions change in part.
SsuFields == {"te", "re", "tdre", "rdrf", "tend", "tdr", "rdr", "progress"}
CopyFields == {"eeprom", "status", "accel", "cursor", "run", "contrast"}
JobFields == {"kind", "at", "head", "left", "got"}
Whole(d) == DOMAIN d = {"ssu", "eeprom", "accel", "lcd"} /\ DOMAIN d.ssu = SsuFields

LcdKinds == {"draw", "command"}

\* What the LCD will have done when the byte on the bus is through.
Pending ==
  IF ssu.tdre \/ job.kind \notin LcdKinds THEN lcd
  ELSE IF job.kind = "draw" THEN LcdDraws(lcd) ELSE LcdObeys(lcd, ssu.tdr)

\* The pins and the switches of the SSU that go with a transfer.
Wired ==
  /\ job.kind \in LcdKinds => /\ ssu.te /\ ~ssu.re /\ low = {"LCD"} /\ job.head = <<>>
                              /\ data <=> job.kind = "draw"
  /\ job.kind \notin LcdKinds => ~data /\ "LCD" \notin low
  /\ job.kind \in {"none", "enable"} => job.left = 0
  /\ job.kind = "none" => ssu.tdre /\ job.head = <<>>
  /\ job.kind \in Kinds \union {"none"} /\ kinds \subseteq Kinds

LcdInv ==
  /\ lcd \in LcdStates /\ copy.contrast \in BOOLEAN
  /\ DOMAIN ssu = SsuFields /\ DOMAIN copy = CopyFields /\ DOMAIN job = JobFields
  /\ Wired
  /\ Means(copy, Pending)

\* The accelerometer and the EEPROM leave the LCD alone.
LEMMA Alone ==
  ASSUME NEW d, Whole(d)
  PROVE  /\ Whole(AccelReads(d)) /\ AccelReads(d).lcd = d.lcd
         /\ Whole(AccelWrites(d)) /\ AccelWrites(d).lcd = d.lcd
         /\ Whole(EepromReads(d)) /\ EepromReads(d).lcd = d.lcd
         /\ Whole(EepromWrites(d)) /\ EepromWrites(d).lcd = d.lcd
<1>1. Whole(AccelReads(d)) /\ AccelReads(d).lcd = d.lcd
  BY DEF Whole, AccelReads, Ended
<1>2. Whole(AccelWrites(d)) /\ AccelWrites(d).lcd = d.lcd
  BY DEF Whole, AccelWrites, Ended
<1>3. Whole(EepromReads(d)) /\ EepromReads(d).lcd = d.lcd
  BY DEF Whole, EepromReads, Ended, Ready
<1>4. Whole(EepromWrites(d)) /\ EepromWrites(d).lcd = d.lcd
  BY DEF Whole, EepromWrites, Ended, Ready
<1>. QED
  BY <1>1, <1>2, <1>3, <1>4

\* So does a clock that finds neither the LCD selected nor its data pin high.
LEMMA ClocksOther ==
  ASSUME NEW d, Whole(d), ~data, "LCD" \notin low
  PROVE  Whole(Clocks(d)) /\ Clocks(d).lcd = d.lcd
<1>. DEFINE c == [d EXCEPT !.ssu = Clocked(@)]
<1>1. ASSUME NEW e, Whole(e)
      PROVE  Whole([e EXCEPT !.ssu = Clocked(@)]) /\ [e EXCEPT !.ssu = Clocked(@)].lcd = e.lcd
  BY <1>1 DEF Whole, Clocked
<1>2. Whole(Exchange(d)) /\ Exchange(d).lcd = d.lcd
  <2>1. Whole(c) /\ c.lcd = d.lcd
    BY <1>1
  <2>2. Exchange(d) \in {AccelReads(d), EepromReads(c), c, d}
    BY DEF Exchange
  <2>. HIDE DEF c
  <2>. QED
    BY <2>1, <2>2, Alone
<1>3. Whole(SendAccel(d)) /\ SendAccel(d).lcd = d.lcd
  BY Alone DEF SendAccel
<1>4. ASSUME NEW e, Whole(e) PROVE Whole(SendEeprom(e)) /\ SendEeprom(e).lcd = e.lcd
  <2>. DEFINE f == [e EXCEPT !.ssu = Clocked(@)]
  <2>1. Whole(f) /\ f.lcd = e.lcd
    BY <1>1, <1>4
  <2>2. SendEeprom(e) \in {EepromWrites(f), f, e}
    BY DEF SendEeprom
  <2>. HIDE DEF f
  <2>. QED
    BY <1>4, <2>1, <2>2, Alone
<1>5. ASSUME NEW e PROVE SendLcd(e) = e
  BY DEF SendLcd
<1>6. Clocks(d) \in {Exchange(d), SendEeprom(SendAccel(d)), d}
  BY <1>5 DEF Clocks
<1>. QED
  BY <1>2, <1>3, <1>4, <1>6

\* A clock while the CPU sends to the LCD: the byte is through, or still on
\* its way.
LEMMA ClocksLcd ==
  ASSUME NEW d, Whole(d), d.ssu.te, ~d.ssu.re, low = {"LCD"}, NEW t, t = d.ssu.tdr
  PROVE  LET c == Clocks(d)
         IN /\ DOMAIN c.ssu = SsuFields /\ c.ssu.te /\ ~c.ssu.re
            /\ \/ c.lcd = d.lcd /\ c.ssu.tdr = t /\ (c.ssu.tdre <=> d.ssu.tdre)
               \/ /\ ~d.ssu.tdre /\ c.ssu.tdre
                  /\ c.lcd = IF data THEN LcdDraws(d.lcd) ELSE LcdObeys(d.lcd, t)
<1>1. CASE d.ssu.tdre
  BY <1>1 DEF Clocks, Whole
<1>2. CASE ~d.ssu.tdre
  <2>1. SendAccel(d) = d /\ SendEeprom(d) = d
    BY DEF SendAccel, SendEeprom
  <2>2. Clocks(d) = SendLcd(d)
    BY <1>2, <2>1 DEF Clocks
  <2>3. CASE data /\ Finished(d.ssu)
    <3>. DEFINE e == [d EXCEPT !.ssu = Clocked(@)]
    <3>1. Clocks(d) = [e EXCEPT !.ssu = Ended(@), !.lcd = LcdDraws(@)]
      BY <2>2, <2>3 DEF SendLcd
    <3>2. /\ Whole(e) /\ e.ssu.te /\ ~e.ssu.re /\ e.lcd = d.lcd
      BY DEF Whole, Clocked, SsuFields
    <3>. HIDE DEF e
    <3>3. Clocks(d).lcd = LcdDraws(d.lcd) /\ Clocks(d).ssu = Ended(e.ssu)
      BY <3>1, <3>2 DEF Whole
    <3>4. DOMAIN Ended(e.ssu) = SsuFields /\ Ended(e.ssu).tdre
          /\ Ended(e.ssu).te = e.ssu.te /\ Ended(e.ssu).re = e.ssu.re
      BY <3>2 DEF Whole, Ended, SsuFields
    <3>. QED
      BY <1>2, <2>3, <3>2, <3>3, <3>4
  <2>4. CASE data /\ ~Finished(d.ssu)
    BY <1>2, <2>2, <2>4 DEF SendLcd, Whole, Clocked, SsuFields
  <2>5. CASE ~data
    <3>1. Clocks(d) = [d EXCEPT !.ssu = Ended(@), !.lcd = LcdObeys(@, d.ssu.tdr)]
      BY <2>2, <2>5 DEF SendLcd
    <3>2. Clocks(d).lcd = LcdObeys(d.lcd, t) /\ Clocks(d).ssu = Ended(d.ssu)
      BY <3>1 DEF Whole
    <3>3. DOMAIN Ended(d.ssu) = SsuFields /\ Ended(d.ssu).tdre
          /\ Ended(d.ssu).te = d.ssu.te /\ Ended(d.ssu).re = d.ssu.re
      BY DEF Whole, Ended, SsuFields
    <3>. QED
      BY <1>2, <2>5, <3>2, <3>3
  <2>. QED
    BY <2>3, <2>4, <2>5
<1>. QED
  BY <1>1, <1>2

LEMMA TickLcd == LcdInv /\ Tick => LcdInv'
<1>. SUFFICES ASSUME LcdInv, Tick PROVE LcdInv'
  OBVIOUS
<1>. DEFINE d == Devices
<1>1. Whole(d) /\ d.lcd = lcd /\ (ssu.te => d.ssu = ssu)
  BY DEF Devices, Whole, LcdInv, Ready, SsuFields
<1>2. /\ ssu' = Clocks(d).ssu /\ lcd' = Clocks(d).lcd
      /\ low' = low /\ data' = data /\ job' = job /\ copy' = copy /\ kinds' = kinds
  BY DEF Tick
<1>. HIDE DEF d
<1>3. CASE job.kind \notin LcdKinds
  <2>1. Whole(Clocks(d)) /\ Clocks(d).lcd = lcd
    BY <1>1, <1>3, ClocksOther DEF LcdInv, Wired
  <2>2. DOMAIN ssu' = SsuFields /\ lcd' = lcd
    BY <1>2, <2>1 DEF Whole
  <2>3. job.kind = "none" => ssu'.tdre
    <3>1. d.ssu.tdre => Clocks(d) = d
      BY DEF Clocks
    <3>2. ssu.tdre => d.ssu.tdre
      BY DEF d, Devices, Ready, LcdInv, SsuFields
    <3>. QED
      BY <1>2, <3>1, <3>2 DEF LcdInv, Wired
  <2>4. Wired' /\ Pending' = Pending
    BY <1>2, <1>3, <2>2, <2>3 DEF LcdInv, Wired, Pending
  <2>. QED
    BY <1>2, <2>2, <2>4 DEF LcdInv, Means
<1>4. CASE job.kind \in LcdKinds
  <2>1. d.ssu = ssu /\ ssu.te /\ ~ssu.re /\ low = {"LCD"} /\ (data <=> job.kind = "draw")
    BY <1>1, <1>4 DEF LcdInv, Wired
  <2>2. /\ DOMAIN ssu' = SsuFields /\ ssu'.te /\ ~ssu'.re
        /\ \/ lcd' = lcd /\ ssu'.tdr = ssu.tdr /\ (ssu'.tdre <=> ssu.tdre)
           \/ /\ ~ssu.tdre /\ ssu'.tdre
              /\ lcd' = IF data THEN LcdDraws(lcd) ELSE LcdObeys(lcd, ssu.tdr)
    BY <1>1, <1>2, <2>1, ClocksLcd
  <2>3. lcd' \in LcdStates
    BY <2>2, LcdTypes DEF LcdInv
  <2>4. Wired'
    BY <1>2, <1>4, <2>2 DEF LcdInv, Wired
  <2>5. Pending' = Pending
    BY <1>2, <1>4, <2>1, <2>2 DEF Pending
  <2>. QED
    BY <1>2, <2>2, <2>3, <2>4, <2>5 DEF LcdInv, Means
<1>. QED
  BY <1>3, <1>4

-----------------------------------------------------------------------------
\* A command changes no more of the copy than the place and the contrast.
LEMMA OrderedFields ==
  ASSUME NEW c, DOMAIN c = CopyFields, c.contrast \in BOOLEAN, NEW b \in Byte
  PROVE  DOMAIN Ordered(c, b) = CopyFields /\ Ordered(c, b).contrast \in BOOLEAN
<1>1. ASSUME NEW n PROVE /\ DOMAIN [c EXCEPT !.cursor = n] = CopyFields
                         /\ [c EXCEPT !.cursor = n].contrast \in BOOLEAN
                         /\ DOMAIN [[c EXCEPT !.cursor = n] EXCEPT !.run = 0] = CopyFields
                         /\ [[c EXCEPT !.cursor = n] EXCEPT !.run = 0].contrast \in BOOLEAN
  BY DEF CopyFields
<1>2. ASSUME NEW t \in BOOLEAN PROVE /\ DOMAIN [c EXCEPT !.contrast = t] = CopyFields
                                     /\ [c EXCEPT !.contrast = t].contrast \in BOOLEAN
  BY DEF CopyFields
<1>3. CASE c.contrast
  <2>1. Ordered(c, b) = [c EXCEPT !.contrast = FALSE]
    BY <1>3 DEF Ordered
  <2>. QED
    BY <1>2, <2>1
<1>4. CASE ~c.contrast /\ b \in 0 .. 23
  <2>. DEFINE page == c.cursor \div 512
              column == (c.cursor % 512) \div 2
              To(k) == [c EXCEPT !.cursor = (page * 512) + (2 * k)]
  <2>1. CASE b < 16
    <3>1. Ordered(c, b) = [To(((column \div 16) * 16) + b) EXCEPT !.run = 0]
      BY <1>4, <2>1 DEF Ordered
    <3>. QED
      BY <1>1, <3>1
  <2>2. CASE b \in 16 .. 23
    <3>1. Ordered(c, b) = [To((16 * (b - 16)) + (column % 16)) EXCEPT !.run = 0]
      BY <1>4, <2>2 DEF Ordered
    <3>. QED
      BY <1>1, <3>1
  <2>. QED
    BY <1>4, <2>1, <2>2
<1>5. CASE ~c.contrast /\ b \in 176 .. 191
  <2>1. Ordered(c, b) = [c EXCEPT !.cursor = ((b - 176) * 512) + (c.cursor % 512)]
    BY <1>5 DEF Ordered
  <2>. QED
    BY <1>1, <2>1
<1>6. CASE ~c.contrast /\ b \notin 0 .. 23 /\ b \notin 176 .. 191
  <2>1. Ordered(c, b) = [c EXCEPT !.contrast = b = 129 /\ ~@]
    BY <1>6 DEF Ordered, Byte
  <2>2. (b = 129 /\ ~c.contrast) \in BOOLEAN
    OBVIOUS
  <2>. QED
    BY <1>2, <2>1, <2>2
<1>. QED
  BY <1>3, <1>4, <1>5, <1>6

LEMMA LcdInit == BusAssumption /\ Init => LcdInv
<1>. SUFFICES ASSUME BusAssumption, Init PROVE LcdInv
  OBVIOUS
<1>1. lcd \in LcdStates
  BY DEF Init, LcdStates
<1>2. DOMAIN ssu = SsuFields /\ DOMAIN copy = CopyFields /\ DOMAIN job = JobFields
  BY DEF Init, Idle, SsuFields, CopyFields, JobFields
<1>3. Wired
  <2>1. kinds \subseteq Kinds
    BY DEF Init, BusAssumption
  <2>2. /\ job.kind = "none" /\ job.left = 0 /\ job.head = <<>> /\ ssu.tdre
        /\ ~data /\ low = {}
    BY DEF Init, Idle
  <2>. QED
    BY <2>1, <2>2 DEF Wired, LcdKinds
<1>4. Pending = lcd /\ Means(copy, lcd) /\ copy.contrast \in BOOLEAN
  BY DEF Init, Pending, Means
<1>. QED
  BY <1>1, <1>2, <1>3, <1>4 DEF LcdInv

LEMMA LcdNext == BusAssumption /\ LcdInv /\ [Next]_vars => LcdInv'
<1>. SUFFICES ASSUME BusAssumption, LcdInv, [Next]_vars PROVE LcdInv'
  OBVIOUS
<1>. USE DEF LcdKinds
<1>0. ASSUME DOMAIN ssu' = SsuFields, lcd' = lcd, DOMAIN job' = JobFields, Wired',
             DOMAIN copy' = CopyFields, copy'.cursor = copy.cursor,
             copy'.contrast = copy.contrast, Pending = lcd, Pending' = lcd
      PROVE  LcdInv'
  BY <1>0 DEF LcdInv, Means
<1>1. CASE Tick
  BY <1>1, TickLcd
<1>2. ASSUME NEW kind \in kinds, NEW a \in Addresses, NEW n \in 0 .. MaxLength,
             Begin(kind, a, n)
      PROVE LcdInv'
  <2>1. /\ job'.kind = kind /\ job'.head = Header(kind, a) /\ job'.left = n
        /\ DOMAIN job' = JobFields
    BY <1>2 DEF Begin, Idle, JobFields
  <2>2. /\ DOMAIN ssu' = SsuFields /\ ssu'.te /\ (ssu'.re <=> Receives(kind))
        /\ ssu'.tdre = ssu.tdre
    BY <1>2 DEF Begin, LcdInv, SsuFields, Receives
  <2>3. /\ DOMAIN copy' = CopyFields /\ copy'.cursor = copy.cursor
        /\ copy'.contrast = copy.contrast /\ lcd' = lcd
    BY <1>2 DEF Begin, LcdInv, CopyFields
  <2>4. job.kind = "none" /\ ssu.tdre
    BY <1>2 DEF Begin, Idle, LcdInv, Wired
  <2>5. Pending = lcd /\ Pending' = lcd
    BY <2>2, <2>3, <2>4 DEF Pending
  <2>6. kind \in Kinds /\ kinds' = kinds /\ kinds \subseteq Kinds
    BY <1>2 DEF Begin, LcdInv, Wired
  <2>7. Wired'
    <3>1. CASE kind \in LcdKinds
      <4>1. DeviceOf(kind) = "LCD" /\ Header(kind, a) = <<>> /\ ~Receives(kind)
        BY <3>1 DEF DeviceOf, Header, Receives
      <4>2. low' = {"LCD"} /\ (data' <=> kind = "draw")
        BY <1>2, <4>1 DEF Begin
      <4>. QED
        BY <2>1, <2>2, <2>6, <3>1, <4>1, <4>2 DEF Wired
    <3>2. CASE kind \notin LcdKinds
      <4>1. DeviceOf(kind) # "LCD" /\ (kind = "enable" => n = 0)
        BY <1>2, <2>6, <3>2 DEF Begin, DeviceOf, LengthOf, Kinds
      <4>2. "LCD" \notin low' /\ ~data'
        BY <1>2, <3>2, <4>1 DEF Begin
      <4>3. kind # "none"
        BY <2>6 DEF Kinds
      <4>. QED
        BY <2>1, <2>6, <3>2, <4>1, <4>2, <4>3 DEF Wired
    <3>. QED
      BY <3>1, <3>2
  <2>. QED
    BY <1>0, <2>1, <2>2, <2>3, <2>5, <2>7
<1>3. CASE SendHeader
  <2>1. job.kind \notin LcdKinds /\ job'.kind = job.kind
    BY <1>3 DEF SendHeader, LcdInv, Wired, JobFields
  <2>2. Pending = lcd /\ Pending' = lcd
    BY <1>3, <2>1 DEF SendHeader, Pending
  <2>3. DOMAIN ssu' = SsuFields /\ DOMAIN job' = JobFields
    BY <1>3 DEF SendHeader, Transmit, LcdInv
  <2>4. Wired'
    <3>1. job'.left = job.left /\ ssu.tdre /\ job.head # <<>>
      BY <1>3 DEF SendHeader, LcdInv, JobFields
    <3>2. job.kind # "none"
      BY <3>1 DEF LcdInv, Wired
    <3>. QED
      BY <1>3, <2>1, <3>1, <3>2 DEF SendHeader, LcdInv, Wired
  <2>. QED
    BY <1>0, <1>3, <2>2, <2>3, <2>4 DEF SendHeader, LcdInv
<1>4. ASSUME NEW b \in IF job.kind = "command" THEN Commands ELSE DataBytes, SendByte(b)
      PROVE LcdInv'
  <2>1. /\ DOMAIN ssu' = SsuFields /\ DOMAIN job' = JobFields
        /\ ssu'.te = ssu.te /\ ssu'.re = ssu.re /\ ssu'.tdr = b /\ ~ssu'.tdre
        /\ job'.kind = job.kind /\ job'.head = job.head /\ lcd' = lcd
    BY <1>4 DEF SendByte, Transmit, LcdInv, SsuFields, JobFields
  <2>2. job.kind \notin {"none", "enable"}
    BY <1>4 DEF SendByte, LcdInv, Wired
  <2>3. Wired'
    BY <1>4, <2>1, <2>2 DEF SendByte, LcdInv, Wired
  <2>4. Pending = lcd
    BY <1>4 DEF SendByte, Pending
  <2>5. CASE job.kind = "draw"
    <3>1. copy' = Drawn(copy) /\ Pending' = LcdDraws(lcd)
      BY <1>4, <2>1, <2>5 DEF SendByte, Pending
    <3>2. DOMAIN copy' = CopyFields /\ copy'.contrast = copy.contrast
      BY <3>1 DEF Drawn, LcdInv, CopyFields
    <3>3. Means(copy', LcdDraws(lcd))
      BY <2>4, <3>1, DrawnAlike DEF LcdInv, CopyFields
    <3>. QED
      BY <2>1, <2>3, <3>1, <3>2, <3>3 DEF LcdInv, Means
  <2>6. CASE job.kind = "command"
    <3>1. b \in Byte
      BY <1>4, <2>6 DEF BusAssumption
    <3>2. copy' = Ordered(copy, b) /\ Pending' = LcdObeys(lcd, b)
      BY <1>4, <2>1, <2>6 DEF SendByte, Pending
    <3>3. DOMAIN copy' = CopyFields /\ copy'.contrast \in BOOLEAN
      BY <3>1, <3>2, OrderedFields DEF LcdInv
    <3>4. Means(copy', LcdObeys(lcd, b))
      BY <2>4, <3>1, <3>2, OrderedAlike DEF LcdInv, CopyFields
    <3>. QED
      BY <2>1, <2>3, <3>2, <3>3, <3>4 DEF LcdInv, Means
  <2>7. CASE job.kind \notin LcdKinds
    <3>1. DOMAIN copy' = CopyFields /\ copy'.cursor = copy.cursor /\ copy'.contrast = copy.contrast
      BY <1>4, <2>2, <2>7 DEF SendByte, Receives, Kinds, LcdInv, Wired, CopyFields
    <3>2. Pending' = lcd
      BY <2>1, <2>7 DEF Pending
    <3>. QED
      BY <1>0, <2>1, <2>3, <2>4, <3>1, <3>2
  <2>. QED
    BY <2>5, <2>6, <2>7
<1>5. CASE SendAny \/ Receive
  <2>1. job.kind \notin LcdKinds /\ job'.kind = job.kind /\ job'.head = job.head
    BY <1>5 DEF SendAny, Receive, Receives, LcdInv, JobFields
  <2>2. Pending = lcd /\ Pending' = lcd
    BY <1>5, <2>1 DEF SendAny, Receive, Pending
  <2>3. DOMAIN ssu' = SsuFields /\ DOMAIN job' = JobFields
    BY <1>5 DEF SendAny, Receive, Transmit, LcdInv
  <2>4. Wired'
    BY <1>5, <2>1 DEF SendAny, Receive, Receives, LcdInv, Wired
  <2>. QED
    BY <1>0, <1>5, <2>2, <2>3, <2>4 DEF SendAny, Receive, LcdInv
<1>6. CASE Finish
  <2>1. job'.kind = "none" /\ job'.left = 0 /\ job'.head = <<>> /\ DOMAIN job' = JobFields
    BY <1>6 DEF Finish, Idle, JobFields
  <2>2. Pending = lcd /\ Pending' = lcd
    BY <1>6, <2>1 DEF Finish, Pending
  <2>3. Wired'
    BY <1>6, <2>1 DEF Finish, Wired, LcdInv
  <2>. QED
    BY <1>0, <1>6, <2>1, <2>2, <2>3 DEF Finish, LcdInv
<1>7. CASE TurnOff
  <2>1. job.kind = "none"
    BY <1>7 DEF TurnOff, Idle
  <2>2. Pending = lcd /\ Pending' = lcd
    BY <1>7, <2>1 DEF TurnOff, Pending
  <2>3. DOMAIN ssu' = SsuFields /\ Wired'
    BY <1>7, <2>1 DEF TurnOff, LcdInv, Wired
  <2>. QED
    BY <1>0, <1>7, <2>2, <2>3 DEF TurnOff, LcdInv
<1>8. CASE UNCHANGED vars
  <2>1. Pending' = Pending
    BY <1>8 DEF vars, Pending
  <2>. QED
    BY <1>8, <2>1 DEF vars, LcdInv, Wired, Means
<1>. QED
  BY <1>1, <1>2, <1>3, <1>4, <1>5, <1>6, <1>7, <1>8 DEF Next

LEMMA LcdCorrect == Spec => []LcdInv
BY BusAssumption, LcdInit, LcdNext, PTL DEF Spec

\* The assertion of the program holds: no order of commands and data makes
\* the LCD draw outside its memory.
THEOREM LcdStaysInRange == Spec => []LcdInRange
<1>1. LcdInv => LcdInRange
  <2>. SUFFICES ASSUME LcdInv PROVE LcdInRange
    OBVIOUS
  <2>1. PICK p \in 0 .. 15, k \in 0 .. 255, b \in 0 .. 1 :
          p = lcd.page /\ k = lcd.column /\ b = lcd.byte
    BY DEF LcdInv, LcdStates
  <2>2. LcdIndex(lcd) = (p * 192) + (k * 2) + b
    BY <2>1 DEF LcdIndex, Width, StripeBytes
  <2>3. LcdMemSize = 5632
    BY DEF LcdMemSize
  <2>. QED
    BY <2>2, <2>3 DEF LcdInRange
<1>. QED
  BY <1>1, LcdCorrect, PTL

\* Whenever the transmit register is empty the LCD draws where the driver
\* means, for any firmware that follows the protocol of the driver.
THEOREM LcdStaysInStep == Spec => []LcdFollows
<1>1. LcdInv => LcdFollows
  BY DEF LcdInv, Pending, Means, LcdFollows, StripeBytes
<1>. QED
  BY <1>1, LcdCorrect, PTL

-----------------------------------------------------------------------------
\* The EEPROM and the accelerometer.  DevicesKeep says nothing of the middle
\* of a transfer.  DevInv adds, for each kind of transfer, how far the device
\* is behind the driver: which of the first bytes it has still to take, where
\* it will put or find the next byte, and which byte is on the bus.
Ssus == [te : BOOLEAN, re : BOOLEAN, tdre : BOOLEAN, rdrf : BOOLEAN, tend : BOOLEAN,
         tdr : Byte, rdr : Byte, progress : 0 .. 6]
Eeproms == [memory : [0 .. EepromSize - 1 -> Byte], status : {0, 2}, hi : Byte, lo : Byte,
            state : {"EMPTY", "ADDRESS_HI", "ADDRESS_LO", "BYTES", "STATUS"}, offset : Nat]
Accels == [memory : [0 .. LastRegister -> Byte], address : Byte, offset : Nat,
           state : {"ADDRESS", "BYTES"}]

Typed ==
  /\ ssu \in Ssus /\ eeprom \in Eeproms /\ accel \in Accels
  /\ copy.eeprom \in [0 .. EepromSize - 1 -> Byte] /\ copy.status \in {0, 2}
  /\ copy.accel \in [0 .. LastRegister -> Byte]
  /\ DOMAIN copy = CopyFields /\ DOMAIN job = JobFields
  /\ job.at \in Nat /\ job.left \in Nat /\ job.got \in Seq(Byte)

\* The pins and the switches, and what the driver has no part in.
Selected ==
  /\ job.kind \in Kinds \union {"none"} /\ kinds \subseteq Kinds
  /\ job.kind = "none" =>
       low = {} /\ ssu.tdre /\ job.head = <<>> /\ job.got = <<>> /\ job.left = 0
  /\ job.kind # "none" =>
       ssu.te /\ (ssu.re <=> Receives(job.kind)) /\ low = {DeviceOf(job.kind)}
  /\ data <=> job.kind = "draw"
  /\ ~ssu.tdre => ~ssu.tend
  /\ job.kind \in LcdKinds => job.head = <<>>
  /\ job.kind = "enable" => job.left = 0 /\ job.got = <<>>
  /\ job.kind # "enable" => eeprom.status = copy.status

\* h is what the device has still to take of the first bytes.
Coming(h) ==
  \/ ssu.tdre /\ job.head = h
  \/ ~ssu.tdre /\ h # <<>> /\ ssu.tdr = Head(h) /\ job.head = Tail(h)

\* A byte lies ready that the driver has not read.
Full == ssu.tdre /\ ssu.tend /\ ssu.rdrf

\* The EEPROM is told a command and an address, or has been told both.
High == HighByte(job.at)
Low == LowByte(job.at)
Taking(command) ==
  /\ job.got = <<>> /\ eeprom.offset = 0 /\ High \in Byte /\ Low \in Byte
  /\ \/ eeprom.state = "EMPTY" /\ Coming(<<command, High, Low>>)
     \/ eeprom.state = "ADDRESS_HI" /\ Coming(<<High, Low>>)
     \/ eeprom.state = "ADDRESS_LO" /\ eeprom.hi = High /\ Coming(<<Low>>)
Told ==
  job.head = <<>> /\ eeprom.state = "BYTES" /\ eeprom.hi = High /\ eeprom.lo = Low

\* The next byte of a transfer.
Here == job.at + Len(job.got)

Writing ==
  /\ Here + job.left <= EepromSize /\ Len(job.got) + job.left <= PageSize
  /\ \/ Taking(2) /\ eeprom.memory = copy.eeprom
     \/ /\ Told /\ ssu.tdre /\ eeprom.offset = Len(job.got) % PageSize
        /\ eeprom.memory = copy.eeprom
     \/ /\ Told /\ ~ssu.tdre /\ Len(job.got) > 0 /\ eeprom.offset = Len(job.got) - 1
        /\ copy.eeprom = [eeprom.memory EXCEPT ![Here - 1] = ssu.tdr]

Reading ==
  /\ Here + job.left <= EepromSize /\ eeprom.memory = copy.eeprom
  /\ \/ Taking(3)
     \/ /\ Told /\ ~Full /\ eeprom.offset = Len(job.got) % OffsetRange
        /\ ~ssu.tdre => job.left > 0
     \/ /\ Told /\ Full /\ eeprom.offset = (Len(job.got) + 1) % OffsetRange /\ job.left > 0
        /\ ssu.rdr = copy.eeprom[Here]

Enabling ==
  /\ eeprom.state = "EMPTY" /\ eeprom.offset = 0 /\ eeprom.memory = copy.eeprom
  /\ copy.status = 2
  /\ Coming(<<6>>) \/ (Coming(<<>>) /\ eeprom.status = 2)

Asking ==
  /\ eeprom.offset = 0 /\ eeprom.memory = copy.eeprom
  /\ \/ eeprom.state = "EMPTY" /\ Coming(<<5>>) /\ job.got = <<>>
     \/ eeprom.state = "STATUS" /\ job.head = <<>> /\ (Full => ssu.rdr = copy.status)

EepromRests == eeprom.state = "EMPTY" /\ eeprom.offset = 0 /\ eeprom.memory = copy.eeprom

EepromStep ==
  /\ job.kind = "write" => Writing
  /\ job.kind = "read" => Reading
  /\ job.kind = "enable" => Enabling
  /\ job.kind = "status" => Asking
  /\ job.kind \notin {"write", "read", "enable", "status"} => EepromRests

\* The accelerometer writes the address into the register before the byte.
Storing ==
  /\ Here + job.left <= LastRegister /\ Len(job.got) + job.left = 1
  /\ \/ /\ accel.state = "ADDRESS" /\ Coming(<<job.at>>) /\ job.got = <<>>
        /\ accel.memory = copy.accel
     \/ /\ accel.state = "BYTES" /\ accel.address = job.at /\ job.head = <<>>
        /\ \/ ssu.tdre /\ job.left = 0 /\ accel.memory = copy.accel
           \/ /\ ssu.tdre => job.left = 1
              /\ job.left = 0 => ssu.tdr = copy.accel[job.at]
              /\ \A r \in 0 .. LastRegister \ {job.at} : accel.memory[r] = copy.accel[r]

Sampling ==
  /\ Here + job.left <= LastRegister /\ job.at < 16 /\ accel.memory = copy.accel
  /\ \/ /\ accel.state = "ADDRESS" /\ accel.offset = 0 /\ Coming(<<128 + job.at>>)
        /\ job.got = <<>> /\ job.left > 0
     \/ /\ accel.state = "BYTES" /\ accel.address = job.at /\ job.head = <<>>
        /\ \/ ~Full /\ accel.offset = Len(job.got) /\ (~ssu.tdre => job.left > 0)
           \/ /\ Full /\ accel.offset = Len(job.got) + 1 /\ job.left > 0
              /\ ssu.rdr = copy.accel[Here]

AccelRests == accel.state = "ADDRESS" /\ accel.memory = copy.accel

AccelStep ==
  /\ job.kind = "store" => Storing
  /\ job.kind = "sample" => Sampling
  /\ job.kind \notin {"store", "sample"} => AccelRests /\ accel.offset = 0

DevInv == Typed /\ Selected /\ EepromStep /\ AccelStep /\ ReadsBack

\* What the devices do to the SSU leaves its switches alone.
Switched(s, t) == t \in Ssus /\ t.te = s.te /\ t.re = s.re

\* Or all but the counter of the clocks.
Moved(s, t) ==
  /\ Switched(s, t) /\ t.tdre = s.tdre /\ t.rdrf = s.rdrf /\ t.tend = s.tend
  /\ t.tdr = s.tdr /\ t.rdr = s.rdr

LEMMA SsuParts ==
  ASSUME NEW s \in Ssus
  PROVE  /\ Moved(s, Clocked(s))
         /\ Switched(s, Ready(s)) /\ Ready(s).tdre /\ Ready(s).tend = s.tend
         /\ Switched(s, Ended(s)) /\ Ended(s).tdre /\ Ended(s).tend
         /\ s.tdre => Ready(s) = s
<1>1. (s.progress + 1) % 7 \in 0 .. 6
  BY DEF Ssus
<1>2. Moved(s, Clocked(s))
  BY <1>1 DEF Moved, Switched, Clocked, Ssus
<1>3. Switched(s, Ready(s)) /\ Ready(s).tdre /\ Ready(s).tend = s.tend
  BY DEF Switched, Ready, Ssus
<1>4. Switched(s, Ended(s)) /\ Ended(s).tdre /\ Ended(s).tend
  BY DEF Switched, Ended, Ssus
<1>5. s.tdre => Ready(s) = s
  BY DEF Ready, Ssus
<1>. QED
  BY <1>2, <1>3, <1>4, <1>5

\* A byte that comes: rdrf is set, and rdr if the device has answered.
LEMMA SsuTakes ==
  ASSUME NEW s \in Ssus
  PROVE  LET t == [s EXCEPT !.rdrf = TRUE]
         IN /\ Switched(s, t) /\ t.rdrf /\ t.tdre = s.tdre /\ t.tend = s.tend
            /\ t.tdr = s.tdr /\ t.rdr = s.rdr
BY DEF Switched, Ssus

LEMMA SsuReceives ==
  ASSUME NEW s \in Ssus, NEW x \in Byte
  PROVE  LET t == [s EXCEPT !.rdr = x]
         IN /\ Switched(s, t) /\ t.rdr = x /\ t.tdre = s.tdre /\ t.tend = s.tend
            /\ t.rdrf = s.rdrf
BY DEF Switched, Ssus

\* What a byte makes of the SSU s and the EEPROM e while the CPU sends and
\* receives.
ByteRead(s, e, t, g) ==
  /\ Switched(s, t) /\ t.tdre /\ t.rdrf
  /\ e.state = "EMPTY" =>
       /\ t.tend = s.tend
       /\ s.tdr = 3 => g = [e EXCEPT !.state = "ADDRESS_HI"]
       /\ s.tdr = 5 => g = [e EXCEPT !.state = "STATUS"]
  /\ e.state = "STATUS" => g = e /\ t.rdr = e.status
  /\ e.state = "BYTES" =>
       /\ g = [e EXCEPT !.offset = (@ + 1) % OffsetRange]
       /\ t.tend /\ t.rdr = e.memory[Location(e)]
  /\ e.state \in {"ADDRESS_HI", "ADDRESS_LO"} => t.tend = s.tend /\ g = TakesAddress(e, s.tdr)

LEMMA EepromReading ==
  ASSUME NEW d, Whole(d), d.ssu \in Ssus, d.eeprom \in Eeproms,
         d.eeprom.state = "BYTES" => Location(d.eeprom) \in 0 .. EepromSize - 1
  PROVE  /\ EepromReads(d).accel = d.accel
         /\ ByteRead(d.ssu, d.eeprom, EepromReads(d).ssu, EepromReads(d).eeprom)
<1>. DEFINE e == d.eeprom
            s == [Ready(d.ssu) EXCEPT !.rdrf = TRUE]
<1>1. PICK r : r = Ready(d.ssu) /\ r \in Ssus /\ Switched(d.ssu, r) /\ r.tdre /\ r.tend = d.ssu.tend
  BY SsuParts DEF Switched
<1>2. s \in Ssus /\ Switched(d.ssu, s) /\ s.tdre /\ s.rdrf /\ s.tend = d.ssu.tend
  <2>1. s = [r EXCEPT !.rdrf = TRUE]
    BY <1>1
  <2>. HIDE DEF s
  <2>2. Switched(r, s) /\ s.rdrf /\ s.tdre = r.tdre /\ s.tend = r.tend
    BY <1>1, <2>1, SsuTakes
  <2>. QED
    BY <1>1, <2>2 DEF Switched
<1>3. ASSUME NEW x \in Byte
      PROVE  LET t == [Ended(s) EXCEPT !.rdr = x]
             IN Switched(d.ssu, t) /\ t.tdre /\ t.rdrf /\ t.tend /\ t.rdr = x
  <2>. HIDE DEF s
  <2>1. PICK n : n = Ended(s) /\ n \in Ssus /\ Switched(d.ssu, n) /\ n.tdre /\ n.tend /\ n.rdrf
    <3>1. Switched(s, Ended(s)) /\ Ended(s).tdre /\ Ended(s).tend
      BY <1>2, SsuParts
    <3>2. Ended(s).rdrf = s.rdrf
      BY <1>2 DEF Ended, Ssus
    <3>. QED
      BY <1>2, <3>1, <3>2 DEF Switched
  <2>2. PICK t : t = [n EXCEPT !.rdr = x]
    OBVIOUS
  <2>3. Switched(n, t) /\ t.rdr = x /\ t.tdre = n.tdre /\ t.tend = n.tend /\ t.rdrf = n.rdrf
    BY <2>1, <2>2, SsuReceives
  <2>. QED
    BY <2>1, <2>2, <2>3 DEF Switched
<1>4. e.state \in {"EMPTY", "ADDRESS_HI", "ADDRESS_LO", "BYTES", "STATUS"}
  BY DEF Eeproms
<1>5. CASE e.state = "EMPTY"
  <2>1. EepromReads(d) = [d EXCEPT !.ssu = s, !.eeprom.state = CASE d.ssu.tdr = 3 -> "ADDRESS_HI"
                                                    [] d.ssu.tdr = 5 -> "STATUS"
                                                    [] OTHER -> @]
    BY <1>5 DEF EepromReads
  <2>. HIDE DEF s
  <2>2. /\ EepromReads(d).ssu = s /\ EepromReads(d).accel = d.accel
        /\ d.ssu.tdr = 3 => EepromReads(d).eeprom = [e EXCEPT !.state = "ADDRESS_HI"]
        /\ d.ssu.tdr = 5 => EepromReads(d).eeprom = [e EXCEPT !.state = "STATUS"]
    BY <2>1 DEF Whole
  <2>. QED
    BY <1>2, <1>5, <2>2 DEF ByteRead
<1>6. CASE e.state = "STATUS"
  <2>1. EepromReads(d) = [d EXCEPT !.ssu = [Ended(s) EXCEPT !.rdr = e.status]]
    BY <1>6 DEF EepromReads
  <2>2. e.status \in Byte
    BY DEF Eeproms, Byte
  <2>. HIDE DEF s
  <2>3. /\ EepromReads(d).ssu = [Ended(s) EXCEPT !.rdr = e.status]
        /\ EepromReads(d).accel = d.accel /\ EepromReads(d).eeprom = e
    BY <2>1 DEF Whole
  <2>. QED
    BY <1>3, <1>6, <2>2, <2>3 DEF ByteRead
<1>7. CASE e.state = "BYTES"
  <2>1. EepromReads(d) = [d EXCEPT !.ssu = [Ended(s) EXCEPT !.rdr = e.memory[Location(e)]],
                                   !.eeprom.offset = (@ + 1) % OffsetRange]
    BY <1>7 DEF EepromReads
  <2>2. e.memory[Location(e)] \in Byte
    BY <1>7 DEF Eeproms
  <2>. HIDE DEF s
  <2>3. /\ EepromReads(d).ssu = [Ended(s) EXCEPT !.rdr = e.memory[Location(e)]]
        /\ EepromReads(d).accel = d.accel
        /\ EepromReads(d).eeprom = [e EXCEPT !.offset = (@ + 1) % OffsetRange]
    BY <2>1 DEF Whole
  <2>. QED
    BY <1>3, <1>7, <2>2, <2>3 DEF ByteRead
<1>8. CASE e.state \in {"ADDRESS_HI", "ADDRESS_LO"}
  <2>1. EepromReads(d) = [d EXCEPT !.ssu = s, !.eeprom = TakesAddress(@, d.ssu.tdr)]
    BY <1>8 DEF EepromReads
  <2>. HIDE DEF s
  <2>2. /\ EepromReads(d).ssu = s /\ EepromReads(d).accel = d.accel
        /\ EepromReads(d).eeprom = TakesAddress(e, d.ssu.tdr)
    BY <2>1 DEF Whole
  <2>. QED
    BY <1>2, <1>8, <2>2 DEF ByteRead
<1>. QED
  BY <1>4, <1>5, <1>6, <1>7, <1>8

\* And while the CPU only sends.
ByteWritten(s, e, t, g) ==
  /\ Switched(s, t) /\ t.tdre
  /\ e.state = "EMPTY" =>
       /\ s.tdr = 2 => g = [e EXCEPT !.state = "ADDRESS_HI"]
       /\ s.tdr = 6 => g = [e EXCEPT !.status = 2]
  /\ e.state = "BYTES" =>
       g = [e EXCEPT !.memory = [@ EXCEPT ![Location(e)] = s.tdr], !.offset = (@ + 1) % PageSize]
  /\ e.state \in {"ADDRESS_HI", "ADDRESS_LO"} => g = TakesAddress(e, s.tdr)

LEMMA EepromWriting ==
  ASSUME NEW d, Whole(d), d.ssu \in Ssus, d.eeprom \in Eeproms, d.eeprom.state # "STATUS"
  PROVE  /\ EepromWrites(d).accel = d.accel
         /\ ByteWritten(d.ssu, d.eeprom, EepromWrites(d).ssu, EepromWrites(d).eeprom)
<1>. DEFINE e == d.eeprom
<1>1. PICK r : r = Ready(d.ssu) /\ r \in Ssus /\ Switched(d.ssu, r) /\ r.tdre
  BY SsuParts DEF Switched
<1>2. PICK t : t = Ended(d.ssu) /\ t \in Ssus /\ Switched(d.ssu, t) /\ t.tdre
  BY SsuParts DEF Switched
<1>3. e.state \in {"EMPTY", "ADDRESS_HI", "ADDRESS_LO", "BYTES"}
  BY DEF Eeproms
<1>4. CASE e.state = "EMPTY" /\ d.ssu.tdr = 6
  <2>1. EepromWrites(d) =
          [d EXCEPT !.ssu = Ended(@), !.eeprom.status = IF @ % 4 < 2 THEN @ + 2 ELSE @]
    BY <1>4 DEF EepromWrites
  <2>2. /\ EepromWrites(d).ssu = t /\ EepromWrites(d).accel = d.accel
        /\ EepromWrites(d).eeprom = [e EXCEPT !.status = IF @ % 4 < 2 THEN @ + 2 ELSE @]
    BY <1>2, <2>1 DEF Whole
  <2>3. (IF e.status % 4 < 2 THEN e.status + 2 ELSE e.status) = 2
    BY DEF Eeproms
  <2>4. EepromWrites(d).eeprom = [e EXCEPT !.status = 2]
    BY <2>2, <2>3
  <2>. QED
    BY <1>2, <1>4, <2>2, <2>4 DEF ByteWritten
<1>5. CASE e.state = "EMPTY" /\ d.ssu.tdr # 6
  <2>1. EepromWrites(d) = [d EXCEPT !.ssu = Ready(@),
                                    !.eeprom.state = IF d.ssu.tdr = 2 THEN "ADDRESS_HI" ELSE @]
    BY <1>5 DEF EepromWrites
  <2>2. /\ EepromWrites(d).ssu = r /\ EepromWrites(d).accel = d.accel
        /\ d.ssu.tdr = 2 => EepromWrites(d).eeprom = [e EXCEPT !.state = "ADDRESS_HI"]
    BY <1>1, <2>1 DEF Whole
  <2>. QED
    BY <1>1, <1>5, <2>2 DEF ByteWritten
<1>6. CASE e.state = "BYTES"
  <2>1. EepromWrites(d) = [d EXCEPT !.ssu = Ended(@), !.eeprom.memory[Location(e)] = d.ssu.tdr,
                                    !.eeprom.offset = (@ + 1) % PageSize]
    BY <1>6 DEF EepromWrites
  <2>2. /\ EepromWrites(d).ssu = t /\ EepromWrites(d).accel = d.accel
        /\ EepromWrites(d).eeprom = [e EXCEPT !.memory = [@ EXCEPT ![Location(e)] = d.ssu.tdr],
                                              !.offset = (@ + 1) % PageSize]
    BY <1>2, <2>1 DEF Whole
  <2>. QED
    BY <1>2, <1>6, <2>2 DEF ByteWritten
<1>7. CASE e.state \in {"ADDRESS_HI", "ADDRESS_LO"}
  <2>1. EepromWrites(d) = [d EXCEPT !.ssu = Ready(@), !.eeprom = TakesAddress(@, d.ssu.tdr)]
    BY <1>7 DEF EepromWrites
  <2>2. /\ EepromWrites(d).ssu = r /\ EepromWrites(d).accel = d.accel
        /\ EepromWrites(d).eeprom = TakesAddress(e, d.ssu.tdr)
    BY <1>1, <2>1 DEF Whole
  <2>. QED
    BY <1>1, <1>7, <2>2 DEF ByteWritten
<1>. QED
  BY <1>3, <1>4, <1>5, <1>6, <1>7

\* What a clock makes of the accelerometer a while the CPU sends and receives.
ClockRead(s, a, t, b) ==
  /\ Switched(s, t)
  /\ a.state = "ADDRESS" =>
       /\ b = [a EXCEPT !.address = s.tdr % 16, !.offset = 0, !.state = "BYTES"]
       /\ t.tdre = s.tdre /\ t.tend = s.tend
  /\ a.state = "BYTES" =>
       /\ b = [a EXCEPT !.offset = (@ + 1) % 256]
       /\ t.tdre /\ t.tend /\ t.rdrf /\ t.rdr = a.memory[a.address + a.offset]

LEMMA AccelReading ==
  ASSUME NEW d, Whole(d), d.ssu \in Ssus, d.accel \in Accels,
         d.accel.state = "BYTES" => d.accel.address + d.accel.offset \in 0 .. LastRegister
  PROVE  /\ AccelReads(d).eeprom = d.eeprom
         /\ ClockRead(d.ssu, d.accel, AccelReads(d).ssu, AccelReads(d).accel)
<1>. DEFINE a == d.accel
<1>1. CASE a.state = "ADDRESS"
  <2>1. AccelReads(d) = [d EXCEPT !.accel.address = d.ssu.tdr % 16, !.accel.offset = 0,
                                  !.accel.state = "BYTES", !.ssu.rdrf = TRUE]
    BY <1>1 DEF AccelReads
  <2>2. /\ AccelReads(d).eeprom = d.eeprom /\ AccelReads(d).ssu = [d.ssu EXCEPT !.rdrf = TRUE]
        /\ AccelReads(d).accel =
             [a EXCEPT !.address = d.ssu.tdr % 16, !.offset = 0, !.state = "BYTES"]
    BY <2>1 DEF Whole
  <2>. QED
    BY <1>1, <2>2, SsuTakes DEF ClockRead
<1>2. CASE a.state = "BYTES"
  <2>1. AccelReads(d) = [d EXCEPT !.accel.offset = (@ + 1) % 256,
                                  !.ssu = [Ended(@) EXCEPT !.rdr = a.memory[a.address + a.offset],
                                                           !.rdrf = TRUE]]
    BY <1>2 DEF AccelReads
  <2>2. PICK x \in Byte : x = a.memory[a.address + a.offset]
    BY <1>2 DEF Accels
  <2>3. PICK n : n = Ended(d.ssu) /\ n \in Ssus /\ Switched(d.ssu, n) /\ n.tdre /\ n.tend
    BY SsuParts DEF Switched
  <2>4. PICK m : m = [n EXCEPT !.rdr = x] /\ m \in Ssus /\ Switched(d.ssu, m)
                 /\ m.tdre /\ m.tend /\ m.rdr = x
    <3>1. PICK m : m = [n EXCEPT !.rdr = x]
      OBVIOUS
    <3>2. Switched(n, m) /\ m.rdr = x /\ m.tdre = n.tdre /\ m.tend = n.tend
      BY <2>3, <3>1, SsuReceives
    <3>. QED
      BY <2>3, <3>1, <3>2 DEF Switched
  <2>5. /\ AccelReads(d).eeprom = d.eeprom /\ AccelReads(d).ssu = [m EXCEPT !.rdrf = TRUE]
        /\ AccelReads(d).accel = [a EXCEPT !.offset = (@ + 1) % 256]
    BY <2>1, <2>2, <2>3, <2>4 DEF Whole
  <2>6. /\ Switched(m, [m EXCEPT !.rdrf = TRUE]) /\ [m EXCEPT !.rdrf = TRUE].rdrf
        /\ [m EXCEPT !.rdrf = TRUE].tdre = m.tdre /\ [m EXCEPT !.rdrf = TRUE].tend = m.tend
        /\ [m EXCEPT !.rdrf = TRUE].rdr = m.rdr
    BY <2>4, SsuTakes
  <2>7. PICK k : k = AccelReads(d).ssu /\ Switched(m, k) /\ k.rdrf /\ k.tdre /\ k.tend /\ k.rdr = x
    BY <2>4, <2>5, <2>6
  <2>8. Switched(d.ssu, k)
    BY <2>4, <2>7 DEF Switched
  <2>. QED
    BY <1>2, <2>2, <2>5, <2>7, <2>8 DEF ClockRead
<1>3. a.state \in {"ADDRESS", "BYTES"}
  BY DEF Accels
<1>. QED
  BY <1>1, <1>2, <1>3

\* And while the CPU only sends.
ClockWritten(s, a, t, b) ==
  /\ Switched(s, t)
  /\ a.state = "ADDRESS" =>
       /\ b = [a EXCEPT !.address = s.tdr, !.state = "BYTES"]
       /\ t.tdre = s.tdre /\ t.tend = s.tend /\ t.tdr = s.tdr
  /\ a.state = "BYTES" =>
       b = [a EXCEPT !.memory = [@ EXCEPT ![a.address] = s.tdr]] /\ t.tdre

LEMMA AccelWriting ==
  ASSUME NEW d, Whole(d), d.ssu \in Ssus, d.accel \in Accels
  PROVE  /\ AccelWrites(d).eeprom = d.eeprom
         /\ ClockWritten(d.ssu, d.accel, AccelWrites(d).ssu, AccelWrites(d).accel)
<1>. DEFINE a == d.accel
<1>1. CASE a.state = "ADDRESS"
  <2>1. AccelWrites(d) = [d EXCEPT !.accel.address = d.ssu.tdr, !.accel.state = "BYTES",
                                   !.ssu.rdrf = TRUE]
    BY <1>1 DEF AccelWrites
  <2>2. /\ AccelWrites(d).eeprom = d.eeprom /\ AccelWrites(d).ssu = [d.ssu EXCEPT !.rdrf = TRUE]
        /\ AccelWrites(d).accel = [a EXCEPT !.address = d.ssu.tdr, !.state = "BYTES"]
    BY <2>1 DEF Whole
  <2>. QED
    BY <1>1, <2>2, SsuTakes DEF ClockWritten
<1>2. CASE a.state = "BYTES"
  <2>1. AccelWrites(d) = [d EXCEPT !.accel.memory[a.address] = d.ssu.tdr,
                                   !.ssu = [Ended(@) EXCEPT !.rdrf = TRUE]]
    BY <1>2 DEF AccelWrites
  <2>2. PICK n : n = Ended(d.ssu) /\ n \in Ssus /\ Switched(d.ssu, n) /\ n.tdre
    BY SsuParts DEF Switched
  <2>3. /\ AccelWrites(d).eeprom = d.eeprom /\ AccelWrites(d).ssu = [n EXCEPT !.rdrf = TRUE]
        /\ AccelWrites(d).accel = [a EXCEPT !.memory = [@ EXCEPT ![a.address] = d.ssu.tdr]]
    BY <2>1, <2>2 DEF Whole
  <2>4. Switched(n, [n EXCEPT !.rdrf = TRUE]) /\ [n EXCEPT !.rdrf = TRUE].tdre = n.tdre
    BY <2>2, SsuTakes
  <2>. QED
    BY <1>2, <2>2, <2>3, <2>4 DEF Switched, ClockWritten
<1>3. a.state \in {"ADDRESS", "BYTES"}
  BY DEF Accels
<1>. QED
  BY <1>1, <1>2, <1>3

-----------------------------------------------------------------------------
\* A clock in the middle of a byte, device by device.
LEMMA InTheMiddle ==
  ASSUME Typed, Tick, ssu.te
  PROVE  \E d : /\ Whole(d) /\ d.ssu = ssu /\ d.eeprom = eeprom /\ d.accel = accel /\ d = Devices
                /\ ssu' = Clocks(d).ssu /\ eeprom' = Clocks(d).eeprom /\ accel' = Clocks(d).accel
BY DEF Tick, Devices, Whole, Typed, Ssus, SsuFields

\* Without a byte on the bus nothing happens.
LEMMA ClockOfNoByte ==
  ASSUME Typed, Tick, ssu.tdre
  PROVE  ssu' = ssu /\ eeprom' = eeprom /\ accel' = accel
<1>1. Devices.ssu = ssu /\ Devices.eeprom = eeprom /\ Devices.accel = accel
  BY SsuParts DEF Typed, Devices
<1>2. Clocks(Devices) = Devices
  BY <1>1 DEF Clocks
<1>. QED
  BY <1>1, <1>2 DEF Tick

\* The record of the clocked SSU.
LEMMA ClockedBus ==
  ASSUME NEW d, Whole(d), d.ssu \in Ssus
  PROVE  \E c : /\ c = [d EXCEPT !.ssu = Clocked(@)] /\ Whole(c) /\ Moved(d.ssu, c.ssu)
                /\ c.eeprom = d.eeprom /\ c.accel = d.accel
<1>1. PICK c : c = [d EXCEPT !.ssu = Clocked(@)]
  OBVIOUS
<1>2. c.ssu = Clocked(d.ssu) /\ c.eeprom = d.eeprom /\ c.accel = d.accel
  BY <1>1 DEF Whole
<1>3. DOMAIN c = {"ssu", "eeprom", "accel", "lcd"} /\ DOMAIN Clocked(d.ssu) = SsuFields
  BY <1>1 DEF Whole, Clocked
<1>4. Moved(d.ssu, c.ssu)
  BY <1>2, SsuParts
<1>. QED
  BY <1>1, <1>2, <1>3, <1>4 DEF Whole

LEMMA TickReads ==
  ASSUME Typed, Tick, ~ssu.tdre, ssu.te, ssu.re, low = {"EEPROM"},
         eeprom.state = "BYTES" => Location(eeprom) \in 0 .. EepromSize - 1
  PROVE  /\ accel' = accel
         /\ \/ eeprom' = eeprom /\ Moved(ssu, ssu')
            \/ ByteRead(ssu, eeprom, ssu', eeprom')
<1>1. PICK d : /\ Whole(d) /\ d.ssu = ssu /\ d.eeprom = eeprom /\ d.accel = accel
               /\ ssu' = Clocks(d).ssu /\ eeprom' = Clocks(d).eeprom /\ accel' = Clocks(d).accel
  BY InTheMiddle
<1>2. PICK c : /\ c = [d EXCEPT !.ssu = Clocked(@)] /\ Whole(c) /\ Moved(d.ssu, c.ssu)
               /\ c.eeprom = d.eeprom /\ c.accel = d.accel
  BY <1>1, ClockedBus DEF Typed
<1>3. Clocks(d) = IF Finished(d.ssu) THEN EepromReads(c) ELSE c
  BY <1>1, <1>2 DEF Clocks, Exchange
<1>4. CASE ~Finished(d.ssu)
  BY <1>1, <1>2, <1>3, <1>4
<1>5. CASE Finished(d.ssu)
  <2>1. c.ssu \in Ssus /\ c.eeprom = eeprom /\ c.eeprom \in Eeproms
    BY <1>1, <1>2 DEF Moved, Switched, Typed
  <2>2. /\ EepromReads(c).accel = c.accel
        /\ ByteRead(c.ssu, c.eeprom, EepromReads(c).ssu, EepromReads(c).eeprom)
    BY <1>2, <2>1, EepromReading
  <2>3. accel' = accel /\ ByteRead(c.ssu, eeprom, ssu', eeprom')
    BY <1>1, <1>2, <1>3, <1>5, <2>1, <2>2
  <2>4. Moved(ssu, c.ssu)
    BY <1>1, <1>2
  <2>. QED
    BY <2>3, <2>4 DEF ByteRead, Moved, Switched
<1>. QED
  BY <1>4, <1>5

LEMMA TickWrites ==
  ASSUME Typed, Tick, ~ssu.tdre, ssu.te, ~ssu.re, low = {"EEPROM"}, ~data,
         eeprom.state # "STATUS"
  PROVE  /\ accel' = accel
         /\ \/ eeprom' = eeprom /\ Moved(ssu, ssu')
            \/ ByteWritten(ssu, eeprom, ssu', eeprom')
<1>1. PICK d : /\ Whole(d) /\ d.ssu = ssu /\ d.eeprom = eeprom /\ d.accel = accel
               /\ ssu' = Clocks(d).ssu /\ eeprom' = Clocks(d).eeprom /\ accel' = Clocks(d).accel
  BY InTheMiddle
<1>2. PICK c : /\ c = [d EXCEPT !.ssu = Clocked(@)] /\ Whole(c) /\ Moved(d.ssu, c.ssu)
               /\ c.eeprom = d.eeprom /\ c.accel = d.accel
  BY <1>1, ClockedBus DEF Typed
<1>3. Clocks(d) = IF Finished(d.ssu) THEN EepromWrites(c) ELSE c
  <2>1. SendAccel(d) = d /\ SendEeprom(d) = IF Finished(d.ssu) THEN EepromWrites(c) ELSE c
    BY <1>2 DEF SendAccel, SendEeprom
  <2>2. ASSUME NEW e PROVE SendLcd(e) = e
    BY DEF SendLcd
  <2>. QED
    BY <1>1, <2>1, <2>2 DEF Clocks
<1>4. CASE ~Finished(d.ssu)
  BY <1>1, <1>2, <1>3, <1>4
<1>5. CASE Finished(d.ssu)
  <2>1. c.ssu \in Ssus /\ c.eeprom = eeprom /\ c.eeprom \in Eeproms
    BY <1>1, <1>2 DEF Moved, Switched, Typed
  <2>2. /\ EepromWrites(c).accel = c.accel
        /\ ByteWritten(c.ssu, c.eeprom, EepromWrites(c).ssu, EepromWrites(c).eeprom)
    BY <1>2, <2>1, EepromWriting
  <2>3. accel' = accel /\ ByteWritten(c.ssu, eeprom, ssu', eeprom')
    BY <1>1, <1>2, <1>3, <1>5, <2>1, <2>2
  <2>4. Moved(ssu, c.ssu)
    BY <1>1, <1>2
  <2>. QED
    BY <2>3, <2>4 DEF ByteWritten, Moved, Switched
<1>. QED
  BY <1>4, <1>5

LEMMA TickSamples ==
  ASSUME Typed, Tick, ~ssu.tdre, ssu.te, ssu.re, low = {"ACCEL"},
         accel.state = "BYTES" => accel.address + accel.offset \in 0 .. LastRegister
  PROVE  eeprom' = eeprom /\ ClockRead(ssu, accel, ssu', accel')
<1>1. PICK d : /\ Whole(d) /\ d.ssu = ssu /\ d.eeprom = eeprom /\ d.accel = accel
               /\ ssu' = Clocks(d).ssu /\ eeprom' = Clocks(d).eeprom /\ accel' = Clocks(d).accel
  BY InTheMiddle
<1>2. Clocks(d) = AccelReads(d)
  BY <1>1 DEF Clocks, Exchange
<1>3. /\ AccelReads(d).eeprom = d.eeprom
      /\ ClockRead(d.ssu, d.accel, AccelReads(d).ssu, AccelReads(d).accel)
  BY <1>1, AccelReading DEF Typed
<1>. QED
  BY <1>1, <1>2, <1>3

LEMMA TickStores ==
  ASSUME Typed, Tick, ~ssu.tdre, ssu.te, ~ssu.re, low = {"ACCEL"}, ~data
  PROVE  eeprom' = eeprom /\ ClockWritten(ssu, accel, ssu', accel')
<1>1. PICK d : /\ Whole(d) /\ d.ssu = ssu /\ d.eeprom = eeprom /\ d.accel = accel
               /\ ssu' = Clocks(d).ssu /\ eeprom' = Clocks(d).eeprom /\ accel' = Clocks(d).accel
  BY InTheMiddle
<1>2. Clocks(d) = AccelWrites(d)
  <2>1. SendAccel(d) = AccelWrites(d)
    BY DEF SendAccel
  <2>2. ASSUME NEW e PROVE SendLcd(e) = e /\ SendEeprom(e) = e
    BY DEF SendLcd, SendEeprom
  <2>. QED
    BY <1>1, <2>1, <2>2 DEF Clocks
<1>3. /\ AccelWrites(d).eeprom = d.eeprom
      /\ ClockWritten(d.ssu, d.accel, AccelWrites(d).ssu, AccelWrites(d).accel)
  BY <1>1, AccelWriting DEF Typed
<1>. QED
  BY <1>1, <1>2, <1>3

LEMMA TickDraws ==
  ASSUME Typed, Tick, ~ssu.tdre, ~ssu.tend, ssu.te, ~ssu.re, low = {"LCD"}
  PROVE  /\ eeprom' = eeprom /\ accel' = accel /\ Switched(ssu, ssu')
         /\ ~ssu'.tdre => ~ssu'.tend
<1>1. PICK d : /\ Whole(d) /\ d.ssu = ssu /\ d.eeprom = eeprom /\ d.accel = accel
               /\ ssu' = Clocks(d).ssu /\ eeprom' = Clocks(d).eeprom /\ accel' = Clocks(d).accel
  BY InTheMiddle
<1>2. PICK c : /\ c = [d EXCEPT !.ssu = Clocked(@)] /\ Whole(c) /\ Moved(d.ssu, c.ssu)
               /\ c.eeprom = d.eeprom /\ c.accel = d.accel
  BY <1>1, ClockedBus DEF Typed
<1>3. Clocks(d) = SendLcd(d)
  <2>1. SendAccel(d) = d /\ SendEeprom(d) = d
    BY DEF SendAccel, SendEeprom
  <2>. QED
    BY <1>1, <2>1 DEF Clocks
<1>4. c.ssu \in Ssus /\ d.ssu \in Ssus /\ Switched(ssu, c.ssu)
  BY <1>1, <1>2 DEF Moved, Switched, Typed
<1>5. ASSUME NEW x \in {c, d}, NEW l
      PROVE  LET e == [x EXCEPT !.ssu = Ended(@), !.lcd = l]
             IN /\ e.eeprom = eeprom /\ e.accel = accel /\ Switched(ssu, e.ssu) /\ e.ssu.tdre
  <2>1. PICK t : t = Ended(x.ssu) /\ Switched(x.ssu, t) /\ t.tdre
    BY <1>4, SsuParts
  <2>2. Switched(ssu, t)
    BY <1>1, <1>4, <2>1 DEF Switched
  <2>3. PICK e : e = [x EXCEPT !.ssu = Ended(@), !.lcd = l]
    OBVIOUS
  <2>4. e.ssu = t /\ e.eeprom = x.eeprom /\ e.accel = x.accel
    BY <1>1, <1>2, <2>1, <2>3 DEF Whole
  <2>. QED
    BY <1>1, <1>2, <2>1, <2>2, <2>3, <2>4
<1>6. CASE data /\ Finished(d.ssu)
  <2>1. SendLcd(d) = [c EXCEPT !.ssu = Ended(@), !.lcd = LcdDraws(@)]
    BY <1>2, <1>6 DEF SendLcd
  <2>. QED
    BY <1>1, <1>3, <1>5, <2>1
<1>7. CASE data /\ ~Finished(d.ssu)
  <2>1. SendLcd(d) = c
    BY <1>2, <1>7 DEF SendLcd
  <2>. QED
    BY <1>1, <1>2, <1>3, <1>4, <2>1 DEF Moved
<1>8. CASE ~data
  <2>1. SendLcd(d) = [d EXCEPT !.ssu = Ended(@), !.lcd = LcdObeys(@, d.ssu.tdr)]
    BY <1>8 DEF SendLcd
  <2>. QED
    BY <1>1, <1>3, <1>5, <2>1
<1>. QED
  BY <1>6, <1>7, <1>8

-----------------------------------------------------------------------------
\* The first bytes, one after the other.
LEMMA Heads ==
  ASSUME NEW x, NEW y, NEW z
  PROVE  /\ Head(<<x, y, z>>) = x /\ Tail(<<x, y, z>>) = <<y, z>> /\ <<x, y, z>> # <<>>
         /\ Head(<<x, y>>) = x /\ Tail(<<x, y>>) = <<y>> /\ <<x, y>> # <<>>
         /\ Head(<<x>>) = x /\ Tail(<<x>>) = <<>> /\ <<x>> # <<>>
OBVIOUS

\* The device takes the next of them.
LEMMA Took ==
  ASSUME NEW h, Coming(h), ~ssu.tdre, ssu'.tdre, job' = job
  PROVE  ssu.tdr = Head(h) /\ job.head = Tail(h) /\ Coming(Tail(h))'
BY DEF Coming

\* Or the driver sends it.
LEMMA Sent ==
  ASSUME NEW h, Coming(h), SendHeader, ssu \in Ssus, DOMAIN job = JobFields
  PROVE  Coming(h)'
<1>1. ssu'.tdr = Head(job.head) /\ ~ssu'.tdre /\ job'.head = Tail(job.head)
  BY DEF SendHeader, Transmit, Ssus, JobFields
<1>. QED
  BY <1>1 DEF Coming, SendHeader

\* A step that only counts clocks.
LEMMA Counting ==
  ASSUME DevInv, Moved(ssu, ssu'), UNCHANGED <<low, data, eeprom, accel, kinds, job>>,
         copy'.eeprom = copy.eeprom, copy'.accel = copy.accel, copy'.status = copy.status,
         DOMAIN copy' = CopyFields
  PROVE  DevInv'
<1>1. ASSUME NEW h PROVE Coming(h)' <=> Coming(h)
  BY DEF Coming, Moved
<1>2. Full' <=> Full
  BY DEF Full, Moved
<1>3. Typed' /\ Here' = Here
  BY DEF DevInv, Typed, Moved, Switched, Here
<1>4. Selected'
  BY DEF DevInv, Selected, Moved, Switched
<1>5. EepromStep'
  <2>1. ASSUME NEW k PROVE Taking(k)' <=> Taking(k)
    BY <1>1 DEF Taking, High, Low
  <2>2. Told' <=> Told
    BY DEF Told, High, Low
  <2>3. Writing' <=> Writing
    BY <1>3, <2>1, <2>2 DEF Writing, Moved
  <2>4. Reading' <=> Reading
    BY <1>2, <1>3, <2>1, <2>2 DEF Reading, Moved
  <2>5. (Enabling' <=> Enabling) /\ (Asking' <=> Asking) /\ (EepromRests' <=> EepromRests)
    BY <1>1, <1>2 DEF Enabling, Asking, EepromRests, Moved
  <2>. QED
    BY <2>3, <2>4, <2>5 DEF DevInv, EepromStep
<1>6. AccelStep'
  <2>1. Storing' <=> Storing
    BY <1>1, <1>3 DEF Storing, Moved
  <2>2. Sampling' <=> Sampling
    BY <1>1, <1>2, <1>3 DEF Sampling, Moved
  <2>. QED
    BY <2>1, <2>2 DEF DevInv, AccelStep, AccelRests
<1>7. ReadsBack'
  BY DEF DevInv, ReadsBack
<1>. QED
  BY <1>3, <1>4, <1>5, <1>6, <1>7 DEF DevInv

\* A clock changes nothing of the driver, and leaves the pins.
LEMMA Ticked ==
  ASSUME DevInv, Tick, ~ssu.tdre, Switched(ssu, ssu'), ~ssu'.tdre => ~ssu'.tend,
         eeprom' \in Eeproms, accel' \in Accels,
         job.kind # "enable" => eeprom'.status = eeprom.status
  PROVE  Typed' /\ Selected' /\ ReadsBack' /\ Here' = Here /\ job' = job /\ copy' = copy
<1>1. low' = low /\ data' = data /\ kinds' = kinds /\ job' = job /\ copy' = copy
  BY DEF Tick
<1>2. Typed' /\ Here' = Here
  BY <1>1 DEF DevInv, Typed, Switched, Here
<1>3. Selected'
  BY <1>1 DEF DevInv, Selected, Switched
<1>4. ReadsBack'
  BY <1>1 DEF DevInv, ReadsBack
<1>. QED
  BY <1>1, <1>2, <1>3, <1>4

\* What is known in the middle of a byte.
LEMMA Driving ==
  ASSUME DevInv, Tick, ~ssu.tdre
  PROVE  /\ job.kind \in Kinds /\ ssu.te /\ ~ssu.tend /\ (ssu.re <=> Receives(job.kind))
         /\ low = {DeviceOf(job.kind)} /\ (data <=> job.kind = "draw")
         /\ Typed /\ ssu \in Ssus /\ eeprom \in Eeproms /\ accel \in Accels
         /\ job' = job /\ copy' = copy /\ low' = low /\ data' = data /\ kinds' = kinds
BY DEF DevInv, Selected, Typed, Tick

\* The numbers of a transfer.
LEMMA Counts ==
  ASSUME Typed
  PROVE  job.at \in Nat /\ job.left \in Nat /\ Len(job.got) \in Nat
BY DEF Typed

\* The EEPROM takes a byte of a command and an address.
LEMMA TakesFirst ==
  ASSUME DevInv, NEW k, Taking(k), ~ssu.tdre, ssu'.tdre, job' = job, copy' = copy,
         Switched(ssu, ssu'), eeprom.state = "EMPTY" => eeprom' = [eeprom EXCEPT !.state = "ADDRESS_HI"],
         eeprom.state \in {"ADDRESS_HI", "ADDRESS_LO"} => eeprom' = TakesAddress(eeprom, ssu.tdr)
  PROVE  /\ eeprom' \in Eeproms /\ eeprom'.status = eeprom.status
         /\ eeprom'.memory = eeprom.memory /\ eeprom'.offset = 0 /\ job.got = <<>>
         /\ Taking(k)' \/ (Told' /\ eeprom.state = "ADDRESS_LO")
<1>1. eeprom \in Eeproms /\ ssu.tdr \in Byte /\ job.got = <<>> /\ eeprom.offset = 0
  BY DEF DevInv, Typed, Ssus, Taking
<1>0. PICK y \in Byte, x \in Byte : y = High /\ x = Low /\ y = High' /\ x = Low'
  BY DEF Taking, High, Low
<1>2. CASE eeprom.state = "EMPTY" /\ Coming(<<k, High, Low>>)
  <2>1. Coming(<<y, x>>)'
    <3>1. Coming(<<k, y, x>>) /\ Tail(<<k, y, x>>) = <<y, x>>
      BY <1>0, <1>2, Heads
    <3>. QED
      BY <3>1, Took
  <2>2. eeprom' = [eeprom EXCEPT !.state = "ADDRESS_HI"]
    BY <1>2
  <2>3. /\ eeprom' \in Eeproms /\ eeprom'.status = eeprom.status
        /\ eeprom'.memory = eeprom.memory /\ eeprom'.offset = eeprom.offset
        /\ eeprom'.state = "ADDRESS_HI"
    BY <1>1, <2>2 DEF Eeproms
  <2>. QED
    BY <1>0, <1>1, <2>1, <2>3 DEF Taking
<1>3. CASE eeprom.state = "ADDRESS_HI" /\ Coming(<<High, Low>>)
  <2>1. Coming(<<x>>)' /\ ssu.tdr = y
    <3>1. Coming(<<y, x>>) /\ Tail(<<y, x>>) = <<x>> /\ Head(<<y, x>>) = y
      BY <1>0, <1>3, Heads
    <3>. QED
      BY <3>1, Took
  <2>2. eeprom' = [eeprom EXCEPT !.hi = y, !.state = "ADDRESS_LO"]
    BY <1>3, <2>1 DEF TakesAddress
  <2>3. /\ eeprom' \in Eeproms /\ eeprom'.status = eeprom.status /\ eeprom'.hi = y
        /\ eeprom'.memory = eeprom.memory /\ eeprom'.offset = eeprom.offset
        /\ eeprom'.state = "ADDRESS_LO"
    BY <1>1, <2>2 DEF Eeproms
  <2>. QED
    BY <1>0, <1>1, <2>1, <2>3 DEF Taking
<1>4. CASE eeprom.state = "ADDRESS_LO" /\ eeprom.hi = High /\ Coming(<<Low>>)
  <2>1. Coming(<<>>)' /\ ssu.tdr = x
    <3>1. Coming(<<x>>) /\ Tail(<<x>>) = <<>> /\ Head(<<x>>) = x
      BY <1>0, <1>4, Heads
    <3>. QED
      BY <3>1, Took
  <2>2. eeprom' = [eeprom EXCEPT !.lo = x, !.state = "BYTES"]
    BY <1>4, <2>1 DEF TakesAddress
  <2>3. /\ eeprom' \in Eeproms /\ eeprom'.status = eeprom.status
        /\ eeprom'.hi = y /\ eeprom'.lo = x
        /\ eeprom'.memory = eeprom.memory /\ eeprom'.offset = eeprom.offset
        /\ eeprom'.state = "BYTES"
    BY <1>0, <1>1, <1>4, <2>2 DEF Eeproms
  <2>4. job'.head = <<>>
    BY <2>1 DEF Coming
  <2>. QED
    BY <1>0, <1>1, <1>4, <2>3, <2>4 DEF Told
<1>. QED
  BY <1>2, <1>3, <1>4 DEF Taking

\* An address is put together again from the bytes it was split into, and both
\* fit into a byte when it lies in the EEPROM.
LEMMA Splitting ==
  ASSUME NEW a \in Nat
  PROVE  /\ HighByte(a) \in Nat /\ LowByte(a) \in Nat
         /\ (HighByte(a) * AddressByte) + LowByte(a) = a
         /\ LowByte(a) \in Byte
         /\ a < OffsetRange => HighByte(a) \in Byte
<1>1. PICK m \in Nat \ {0} : m = AddressByte /\ m <= 256
  BY BusAssumption
<1>2. PICK q \in Nat, r \in Nat : q = a \div m /\ r = a % m
  OBVIOUS
<1>3. r < m /\ (q * m) + r = a
  BY <1>2
<1>4. a < m * m => q < m
  <2>1. SUFFICES ASSUME a < m * m, q >= m PROVE FALSE
    OBVIOUS
  <2>2. PICK d \in Nat : q = m + d
    BY <2>1
  <2>3. q * m = (m * m) + (d * m)
    BY <2>2
  <2>4. PICK u \in Nat, v \in Nat, w \in Nat : u = m * m /\ v = d * m /\ w = q * m
    OBVIOUS
  <2>5. w = u + v /\ w + r = a /\ a < u
    BY <1>3, <2>1, <2>3, <2>4
  <2>. QED
    BY ONLY <2>5
<1>5. HighByte(a) = q /\ LowByte(a) = r /\ OffsetRange = m * m
  BY <1>1, <1>2 DEF HighByte, LowByte, OffsetRange
<1>6. r \in Byte /\ (q < m => q \in Byte)
  BY <1>1, <1>3 DEF Byte
<1>. QED
  BY <1>1, <1>3, <1>4, <1>5, <1>6

\* The place of the next byte of a transfer, as the EEPROM computes it.
LEMMA Locating ==
  ASSUME eeprom \in Eeproms, Told, job.at \in Nat, NEW i \in Nat, eeprom.offset = i
  PROVE  Location(eeprom) = job.at + i
<1>1. PICK a \in Nat, h \in Nat, l \in Nat :
        a = job.at /\ h = HighByte(a) /\ l = LowByte(a) /\ (h * AddressByte) + l = a
  BY Splitting
<1>2. eeprom.hi = h /\ eeprom.lo = l
  BY <1>1 DEF Told, High, Low
<1>3. PICK p \in Nat : p = h * AddressByte
  BY BusAssumption
<1>4. Location(eeprom) = p + l + i /\ p + l = a
  BY <1>1, <1>2, <1>3 DEF Location
<1>. QED
  BY <1>1, <1>4

LEMMA TickWriting == DevInv /\ Tick /\ ~ssu.tdre /\ job.kind = "write" => DevInv'
<1>. SUFFICES ASSUME DevInv, Tick, ~ssu.tdre, job.kind = "write" PROVE DevInv'
  OBVIOUS
<1>1. /\ ssu.te /\ ~ssu.re /\ low = {"EEPROM"} /\ ~data /\ Typed /\ job' = job /\ copy' = copy
      /\ ssu \in Ssus /\ eeprom \in Eeproms /\ accel \in Accels
      /\ low' = low /\ data' = data /\ kinds' = kinds /\ ~ssu.tend
  BY Driving DEF Receives, DeviceOf
<1>2. Writing /\ AccelRests /\ accel.offset = 0
  BY DEF DevInv, EepromStep, AccelStep
<1>3. \/ Taking(2) /\ eeprom.memory = copy.eeprom
      \/ /\ Told /\ Len(job.got) > 0 /\ eeprom.offset = Len(job.got) - 1
         /\ copy.eeprom = [eeprom.memory EXCEPT ![Here - 1] = ssu.tdr]
  BY <1>2 DEF Writing
<1>4. accel' = accel /\ (\/ eeprom' = eeprom /\ Moved(ssu, ssu')
                         \/ ByteWritten(ssu, eeprom, ssu', eeprom'))
  <2>1. eeprom.state # "STATUS"
    BY <1>3 DEF Taking, Told
  <2>. QED
    BY <1>1, <2>1, TickWrites
<1>5. CASE eeprom' = eeprom /\ Moved(ssu, ssu')
  BY <1>1, <1>4, <1>5, Counting DEF Typed
<1>6. ASSUME ByteWritten(ssu, eeprom, ssu', eeprom'), eeprom' \in Eeproms,
             eeprom'.status = eeprom.status, Writing'
      PROVE  DevInv'
  <2>1. Switched(ssu, ssu') /\ ssu'.tdre
    BY <1>6 DEF ByteWritten
  <2>2. Typed' /\ Selected' /\ ReadsBack'
    BY <1>1, <1>4, <1>6, <2>1, Ticked
  <2>3. EepromStep' /\ AccelStep'
    BY <1>1, <1>2, <1>4, <1>6 DEF EepromStep, AccelStep, AccelRests
  <2>. QED
    BY <2>2, <2>3 DEF DevInv
<1>7. CASE ByteWritten(ssu, eeprom, ssu', eeprom') /\ Taking(2)
  <2>1. /\ Switched(ssu, ssu') /\ ssu'.tdre
        /\ eeprom.state = "EMPTY" => eeprom' = [eeprom EXCEPT !.state = "ADDRESS_HI"]
        /\ eeprom.state \in {"ADDRESS_HI", "ADDRESS_LO"} => eeprom' = TakesAddress(eeprom, ssu.tdr)
    <3>1. eeprom.state = "EMPTY" => ssu.tdr = 2
      <4>1. Coming(<<2, High, Low>>) => ssu.tdr = 2
        BY Heads, <1>1 DEF Coming
      <4>. QED
        BY <1>7, <4>1 DEF Taking
    <3>. QED
      BY <1>7, <3>1 DEF ByteWritten
  <2>2. /\ eeprom' \in Eeproms /\ eeprom'.status = eeprom.status
        /\ eeprom'.memory = eeprom.memory /\ eeprom'.offset = 0 /\ job.got = <<>>
        /\ Taking(2)' \/ Told'
    BY <1>1, <1>7, <2>1, TakesFirst
  <2>3. Here' = Here /\ Len(job.got) = 0 /\ 0 % PageSize = 0
    BY <1>1, <2>2, BusAssumption DEF Here
  <2>4. eeprom.memory = copy.eeprom
    BY <1>3, <1>7 DEF Taking, Told
  <2>5. Writing'
    BY <1>1, <1>2, <2>1, <2>2, <2>3, <2>4 DEF Writing
  <2>. QED
    BY <1>6, <1>7, <2>2, <2>5
<1>8. CASE /\ ByteWritten(ssu, eeprom, ssu', eeprom') /\ Told
           /\ Len(job.got) > 0 /\ eeprom.offset = Len(job.got) - 1
           /\ copy.eeprom = [eeprom.memory EXCEPT ![Here - 1] = ssu.tdr]
  <2>1. PICK n \in Nat, a \in Nat, l \in Nat :
          n = Len(job.got) /\ a = job.at /\ l = job.left
    BY <1>1, Counts
  <2>2. /\ n > 0 /\ Here = a + n /\ eeprom.offset = n - 1
        /\ a + n + l <= EepromSize /\ n + l <= PageSize
    BY <1>2, <1>8, <2>1 DEF Here, Writing
  <2>3. Location(eeprom) = Here - 1 /\ Here - 1 \in 0 .. EepromSize - 1
    <3>1. Location(eeprom) = job.at + (n - 1)
      BY <1>1, <1>8, <2>1, <2>2, Locating DEF Typed
    <3>2. PICK z \in Nat : z = EepromSize
      BY BusAssumption
    <3>3. n > 0 /\ a + n + l <= z
      BY <2>2, <3>2
    <3>4. a + (n - 1) = (a + n) - 1 /\ (a + n) - 1 \in 0 .. z - 1
      BY <3>3
    <3>. QED
      BY <2>1, <2>2, <3>1, <3>2, <3>4
  <2>4. eeprom' = [eeprom EXCEPT !.memory = copy.eeprom, !.offset = n % PageSize]
    <3>1. eeprom' = [eeprom EXCEPT !.memory = [@ EXCEPT ![Location(eeprom)] = ssu.tdr],
                                   !.offset = (@ + 1) % PageSize]
      BY <1>8 DEF ByteWritten, Told
    <3>2. eeprom.offset + 1 = n
      BY <2>1, <2>2
    <3>. QED
      BY <1>8, <2>3, <3>1, <3>2
  <2>5. n % PageSize \in Nat
    BY BusAssumption
  <2>6. /\ eeprom' \in Eeproms /\ eeprom'.status = eeprom.status /\ eeprom'.memory = copy.eeprom
        /\ eeprom'.offset = n % PageSize /\ eeprom'.hi = eeprom.hi /\ eeprom'.lo = eeprom.lo
        /\ eeprom'.state = eeprom.state
    BY <1>1, <2>4, <2>5 DEF Eeproms, Typed
  <2>7. Writing'
    <3>1. Told' /\ Here' = Here /\ ssu'.tdre
      BY <1>1, <1>8, <2>6 DEF Told, High, Low, Here, ByteWritten
    <3>. QED
      BY <1>1, <1>2, <2>1, <2>6, <3>1 DEF Writing
  <2>. QED
    BY <1>6, <1>8, <2>6, <2>7
<1>. QED
  BY <1>3, <1>4, <1>5, <1>7, <1>8

LEMMA SmallModulus ==
  ASSUME NEW n \in Nat, NEW m \in Nat, n < m
  PROVE  n % m = n
OBVIOUS

LEMMA OffsetPositive == OffsetRange \in Nat \ {0}
BY BusAssumption DEF OffsetRange

LEMMA TickReading == DevInv /\ Tick /\ ~ssu.tdre /\ job.kind = "read" => DevInv'
<1>. SUFFICES ASSUME DevInv, Tick, ~ssu.tdre, job.kind = "read" PROVE DevInv'
  OBVIOUS
<1>1. /\ ssu.te /\ ssu.re /\ low = {"EEPROM"} /\ ~data /\ Typed /\ job' = job /\ copy' = copy
      /\ ssu \in Ssus /\ eeprom \in Eeproms /\ accel \in Accels
      /\ low' = low /\ data' = data /\ kinds' = kinds /\ ~ssu.tend
  BY Driving DEF Receives, DeviceOf
<1>2. Reading /\ AccelRests /\ accel.offset = 0 /\ eeprom.memory = copy.eeprom
  BY DEF DevInv, EepromStep, AccelStep, Reading
<1>3. \/ Taking(3)
      \/ Told /\ eeprom.offset = Len(job.got) % OffsetRange /\ job.left > 0
  BY <1>2 DEF Reading, Full
<1>4. PICK n \in Nat, a \in Nat, l \in Nat, z \in Nat, m \in Nat \ {0} :
        /\ n = Len(job.got) /\ a = job.at /\ l = job.left /\ z = EepromSize
        /\ Here = a + n /\ a + n + l <= z /\ z <= m /\ m = OffsetRange
  <2>1. Here = job.at + Len(job.got) /\ Here + job.left <= EepromSize
    BY <1>2 DEF Here, Reading
  <2>2. EepromSize \in Nat /\ EepromSize <= OffsetRange
    BY BusAssumption
  <2>3. OffsetRange \in Nat \ {0}
    BY OffsetPositive
  <2>. QED
    BY <1>1, <2>1, <2>2, <2>3, Counts
<1>5. CASE Told /\ eeprom.offset = Len(job.got) % OffsetRange /\ job.left > 0
  <2>1. eeprom.offset = n /\ Location(eeprom) = Here /\ Here \in 0 .. EepromSize - 1
    <3>1. n < m /\ a + n \in 0 .. z - 1
      <4>1. a + n + l <= z /\ z <= m /\ l > 0
        BY <1>4, <1>5
      <4>. QED
        BY <4>1
    <3>2. n % OffsetRange = n
      BY <1>4, <3>1, SmallModulus
    <3>3. eeprom.offset = n
      BY <1>4, <1>5, <3>2
    <3>4. Location(eeprom) = job.at + n
      BY <1>1, <1>5, <3>3, Locating DEF Typed
    <3>. QED
      BY <1>4, <3>1, <3>3, <3>4
  <2>2. accel' = accel /\ (\/ eeprom' = eeprom /\ Moved(ssu, ssu')
                           \/ ByteRead(ssu, eeprom, ssu', eeprom'))
    BY <1>1, <2>1, TickReads
  <2>3. CASE eeprom' = eeprom /\ Moved(ssu, ssu')
    BY <1>1, <2>2, <2>3, Counting DEF Typed
  <2>4. CASE ByteRead(ssu, eeprom, ssu', eeprom')
    <3>1. /\ Switched(ssu, ssu') /\ ssu'.tdre /\ ssu'.tend /\ ssu'.rdrf
          /\ eeprom' = [eeprom EXCEPT !.offset = (@ + 1) % OffsetRange]
          /\ ssu'.rdr = eeprom.memory[Here]
      BY <1>5, <2>1, <2>4 DEF ByteRead, Told
    <3>2. (n + 1) % OffsetRange \in Nat
      <4>1. (n + 1) % m \in Nat
        OBVIOUS
      <4>. QED
        BY <1>4, <4>1
    <3>3. /\ eeprom' \in Eeproms /\ eeprom'.status = eeprom.status
          /\ eeprom'.memory = eeprom.memory /\ eeprom'.offset = (n + 1) % OffsetRange
          /\ eeprom'.hi = eeprom.hi /\ eeprom'.lo = eeprom.lo /\ eeprom'.state = eeprom.state
      BY <1>1, <2>1, <3>1, <3>2 DEF Eeproms
    <3>4. Typed' /\ Selected' /\ ReadsBack' /\ Here' = Here
      BY <1>1, <2>2, <3>1, <3>3, Ticked
    <3>5. Told' /\ Full'
      BY <1>1, <1>5, <3>1, <3>3 DEF Told, High, Low, Full
    <3>6. Reading'
      BY <1>1, <1>2, <1>4, <1>5, <3>1, <3>3, <3>4, <3>5 DEF Reading
    <3>. QED
      BY <1>1, <1>2, <2>2, <3>4, <3>6 DEF DevInv, EepromStep, AccelStep, AccelRests
  <2>. QED
    BY <2>2, <2>3, <2>4
<1>6. CASE Taking(3)
  <2>1. accel' = accel /\ (\/ eeprom' = eeprom /\ Moved(ssu, ssu')
                           \/ ByteRead(ssu, eeprom, ssu', eeprom'))
    <3>1. eeprom.state # "BYTES"
      BY <1>6 DEF Taking
    <3>. QED
      BY <1>1, <3>1, TickReads
  <2>2. CASE eeprom' = eeprom /\ Moved(ssu, ssu')
    BY <1>1, <2>1, <2>2, Counting DEF Typed
  <2>3. CASE ByteRead(ssu, eeprom, ssu', eeprom')
    <3>1. eeprom.state = "EMPTY" => ssu.tdr = 3
      <4>1. Coming(<<3, High, Low>>) => ssu.tdr = 3
        BY Heads, <1>1 DEF Coming
      <4>. QED
        BY <1>6, <4>1 DEF Taking
    <3>2. /\ Switched(ssu, ssu') /\ ssu'.tdre
          /\ eeprom.state = "EMPTY" => eeprom' = [eeprom EXCEPT !.state = "ADDRESS_HI"]
          /\ eeprom.state \in {"ADDRESS_HI", "ADDRESS_LO"} =>
               eeprom' = TakesAddress(eeprom, ssu.tdr)
      BY <2>3, <3>1 DEF ByteRead
    <3>3. ~ssu'.tend
      BY <1>1, <1>6, <2>3 DEF ByteRead, Taking
    <3>4. /\ eeprom' \in Eeproms /\ eeprom'.status = eeprom.status
          /\ eeprom'.memory = eeprom.memory /\ eeprom'.offset = 0 /\ job.got = <<>>
          /\ Taking(3)' \/ Told'
      BY <1>1, <1>6, <3>2, TakesFirst
    <3>5. Typed' /\ Selected' /\ ReadsBack' /\ Here' = Here
      BY <1>1, <2>1, <3>2, <3>4, Ticked
    <3>6. Len(job.got) = 0 /\ 0 % OffsetRange = 0 /\ ~Full'
      BY <1>4, <3>3, <3>4 DEF Full
    <3>7. Reading'
      BY <1>1, <1>2, <3>2, <3>4, <3>5, <3>6 DEF Reading
    <3>. QED
      BY <1>1, <1>2, <2>1, <3>5, <3>7 DEF DevInv, EepromStep, AccelStep, AccelRests
  <2>. QED
    BY <2>1, <2>2, <2>3
<1>. QED
  BY <1>3, <1>5, <1>6

LEMMA TickEnabling == DevInv /\ Tick /\ ~ssu.tdre /\ job.kind = "enable" => DevInv'
<1>. SUFFICES ASSUME DevInv, Tick, ~ssu.tdre, job.kind = "enable" PROVE DevInv'
  OBVIOUS
<1>1. /\ ssu.te /\ ~ssu.re /\ low = {"EEPROM"} /\ ~data /\ Typed /\ job' = job /\ copy' = copy
      /\ ssu \in Ssus /\ eeprom \in Eeproms /\ accel \in Accels
      /\ low' = low /\ data' = data /\ kinds' = kinds /\ ~ssu.tend
  BY Driving DEF Receives, DeviceOf
<1>2. /\ Enabling /\ AccelRests /\ accel.offset = 0 /\ eeprom.memory = copy.eeprom
      /\ eeprom.state = "EMPTY" /\ eeprom.offset = 0
  BY DEF DevInv, EepromStep, AccelStep, Enabling
<1>3. ssu.tdr = 6 /\ Coming(<<6>>)
  BY <1>2, Heads DEF Enabling, Coming
<1>4. accel' = accel /\ (\/ eeprom' = eeprom /\ Moved(ssu, ssu')
                         \/ ByteWritten(ssu, eeprom, ssu', eeprom'))
  BY <1>1, <1>2, TickWrites
<1>5. CASE eeprom' = eeprom /\ Moved(ssu, ssu')
  BY <1>1, <1>4, <1>5, Counting DEF Typed
<1>6. CASE ByteWritten(ssu, eeprom, ssu', eeprom')
  <2>1. Switched(ssu, ssu') /\ ssu'.tdre /\ eeprom' = [eeprom EXCEPT !.status = 2]
    BY <1>2, <1>3, <1>6 DEF ByteWritten
  <2>2. /\ eeprom' \in Eeproms /\ eeprom'.status = 2 /\ eeprom'.memory = eeprom.memory
        /\ eeprom'.offset = eeprom.offset /\ eeprom'.state = eeprom.state
    BY <1>1, <2>1 DEF Eeproms
  <2>3. Typed' /\ Selected' /\ ReadsBack'
    BY <1>1, <1>4, <2>1, <2>2, Ticked
  <2>4. Coming(<<>>)'
    BY <1>1, <1>3, <2>1, Took, Heads
  <2>5. Enabling'
    BY <1>1, <1>2, <2>2, <2>4 DEF Enabling
  <2>. QED
    BY <1>1, <1>2, <1>4, <2>3, <2>5 DEF DevInv, EepromStep, AccelStep, AccelRests
<1>. QED
  BY <1>4, <1>5, <1>6

LEMMA TickAsking == DevInv /\ Tick /\ ~ssu.tdre /\ job.kind = "status" => DevInv'
<1>. SUFFICES ASSUME DevInv, Tick, ~ssu.tdre, job.kind = "status" PROVE DevInv'
  OBVIOUS
<1>1. /\ ssu.te /\ ssu.re /\ low = {"EEPROM"} /\ ~data /\ Typed /\ job' = job /\ copy' = copy
      /\ ssu \in Ssus /\ eeprom \in Eeproms /\ accel \in Accels
      /\ low' = low /\ data' = data /\ kinds' = kinds /\ ~ssu.tend
  BY Driving DEF Receives, DeviceOf
<1>2. /\ Asking /\ AccelRests /\ accel.offset = 0 /\ eeprom.memory = copy.eeprom
      /\ eeprom.offset = 0 /\ eeprom.status = copy.status /\ eeprom.state # "BYTES"
  BY DEF DevInv, EepromStep, AccelStep, Asking, Selected
<1>4. accel' = accel /\ (\/ eeprom' = eeprom /\ Moved(ssu, ssu')
                         \/ ByteRead(ssu, eeprom, ssu', eeprom'))
  BY <1>1, <1>2, TickReads
<1>5. CASE eeprom' = eeprom /\ Moved(ssu, ssu')
  BY <1>1, <1>4, <1>5, Counting DEF Typed
<1>6. ASSUME ByteRead(ssu, eeprom, ssu', eeprom'), eeprom' \in Eeproms,
             eeprom'.status = eeprom.status, Asking'
      PROVE  DevInv'
  <2>1. Switched(ssu, ssu') /\ ssu'.tdre
    BY <1>6 DEF ByteRead
  <2>2. Typed' /\ Selected' /\ ReadsBack'
    BY <1>1, <1>4, <1>6, <2>1, Ticked
  <2>. QED
    BY <1>1, <1>2, <1>4, <1>6, <2>2 DEF DevInv, EepromStep, AccelStep, AccelRests
<1>7. CASE /\ ByteRead(ssu, eeprom, ssu', eeprom')
           /\ eeprom.state = "EMPTY" /\ Coming(<<5>>) /\ job.got = <<>>
  <2>1. ssu.tdr = 5 /\ job.head = <<>>
    BY <1>1, <1>7, Heads DEF Coming
  <2>2. eeprom' = [eeprom EXCEPT !.state = "STATUS"] /\ ~ssu'.tend
    BY <1>1, <1>7, <2>1 DEF ByteRead
  <2>3. /\ eeprom' \in Eeproms /\ eeprom'.status = eeprom.status /\ eeprom'.state = "STATUS"
        /\ eeprom'.memory = eeprom.memory /\ eeprom'.offset = eeprom.offset
    BY <1>1, <2>2 DEF Eeproms
  <2>4. Asking'
    BY <1>1, <1>2, <2>1, <2>2, <2>3 DEF Asking, Full
  <2>. QED
    BY <1>6, <1>7, <2>3, <2>4
<1>8. CASE ByteRead(ssu, eeprom, ssu', eeprom') /\ eeprom.state = "STATUS" /\ job.head = <<>>
  <2>1. eeprom' = eeprom /\ ssu'.rdr = eeprom.status
    BY <1>8 DEF ByteRead
  <2>2. Asking'
    BY <1>1, <1>2, <1>8, <2>1 DEF Asking
  <2>. QED
    BY <1>1, <1>6, <1>8, <2>1, <2>2
<1>. QED
  BY <1>2, <1>4, <1>5, <1>7, <1>8 DEF Asking

LEMMA SameFunctions ==
  ASSUME NEW S, NEW T, NEW f \in [S -> T], NEW g \in [S -> T], \A x \in S : f[x] = g[x]
  PROVE  f = g
OBVIOUS

LEMMA TickStoring == DevInv /\ Tick /\ ~ssu.tdre /\ job.kind = "store" => DevInv'
<1>. SUFFICES ASSUME DevInv, Tick, ~ssu.tdre, job.kind = "store" PROVE DevInv'
  OBVIOUS
<1>1. /\ ssu.te /\ ~ssu.re /\ low = {"ACCEL"} /\ ~data /\ Typed /\ job' = job /\ copy' = copy
      /\ ssu \in Ssus /\ eeprom \in Eeproms /\ accel \in Accels
      /\ low' = low /\ data' = data /\ kinds' = kinds /\ ~ssu.tend
  BY Driving DEF Receives, DeviceOf
<1>2. Storing /\ EepromRests
  BY DEF DevInv, EepromStep, AccelStep
<1>3. PICK n \in Nat, a \in Nat, l \in Nat :
        /\ n = Len(job.got) /\ a = job.at /\ l = job.left /\ Here = a + n
        /\ a + n + l <= LastRegister /\ n + l = 1
  BY <1>1, <1>2, Counts DEF Storing, Here
<1>4. a \in 0 .. LastRegister /\ l \in {0, 1} /\ job.at \in Byte /\ ssu.tdr \in Byte
  <2>1. a \in 0 .. 28 /\ l \in {0, 1} /\ a \in Byte
    <3>1. a + n + l <= 28 /\ n + l = 1
      BY <1>3 DEF LastRegister
    <3>. QED
      BY <3>1 DEF Byte
  <2>. QED
    BY <1>1, <1>3, <2>1 DEF Typed, Ssus, LastRegister
<1>5. eeprom' = eeprom /\ ClockWritten(ssu, accel, ssu', accel')
  BY <1>1, TickStores
<1>6. ASSUME accel' \in Accels, Storing' PROVE DevInv'
  <2>1. ~ssu'.tdre => ~ssu'.tend
    BY <1>1, <1>5 DEF ClockWritten, Accels
  <2>2. Typed' /\ Selected' /\ ReadsBack'
    BY <1>1, <1>5, <1>6, <2>1, Ticked DEF ClockWritten
  <2>. QED
    BY <1>1, <1>2, <1>5, <1>6, <2>2 DEF DevInv, EepromStep, AccelStep, EepromRests
<1>7. CASE /\ accel.state = "ADDRESS" /\ Coming(<<job.at>>) /\ job.got = <<>>
           /\ accel.memory = copy.accel
  <2>1. ssu.tdr = job.at /\ job.head = <<>>
    BY <1>1, <1>7, Heads DEF Coming
  <2>2. accel' = [accel EXCEPT !.address = job.at, !.state = "BYTES"] /\ ~ssu'.tdre
    BY <1>5, <1>7, <2>1 DEF ClockWritten
  <2>3. /\ accel' \in Accels /\ accel'.address = job.at /\ accel'.state = "BYTES"
        /\ accel'.memory = accel.memory
    BY <1>1, <1>4, <2>2 DEF Accels
  <2>4. l = 1 /\ Here' = Here
    BY <1>1, <1>3, <1>7 DEF Here
  <2>5. Storing'
    BY <1>1, <1>2, <1>3, <1>7, <2>1, <2>2, <2>3, <2>4 DEF Storing
  <2>. QED
    BY <1>6, <2>3, <2>5
<1>8. CASE /\ accel.state = "BYTES" /\ accel.address = job.at /\ job.head = <<>>
           /\ job.left = 0 => ssu.tdr = copy.accel[job.at]
           /\ \A r \in 0 .. LastRegister \ {job.at} : accel.memory[r] = copy.accel[r]
  <2>. DEFINE m == [accel.memory EXCEPT ![job.at] = ssu.tdr]
  <2>1. accel' = [accel EXCEPT !.memory = m] /\ ssu'.tdre
    BY <1>5, <1>8 DEF ClockWritten
  <2>2. m \in [0 .. LastRegister -> Byte] /\ m[job.at] = ssu.tdr
    BY <1>1, <1>3, <1>4 DEF Accels
  <2>3. \A r \in 0 .. LastRegister \ {job.at} : m[r] = copy.accel[r]
    BY <1>1, <1>8 DEF Accels
  <2>. HIDE DEF m
  <2>4. /\ accel' \in Accels /\ accel'.memory = m /\ accel'.address = accel.address
        /\ accel'.state = accel.state
    BY <1>1, <2>1, <2>2 DEF Accels
  <2>5. job.left = 0 => m = copy.accel
    <3>. SUFFICES ASSUME job.left = 0 PROVE m = copy.accel
      OBVIOUS
    <3>1. copy.accel \in [0 .. LastRegister -> Byte]
      BY <1>1 DEF Typed
    <3>2. ASSUME NEW r \in 0 .. LastRegister PROVE m[r] = copy.accel[r]
      <4>1. CASE r = job.at
        BY <1>8, <2>2, <4>1
      <4>2. CASE r # job.at
        BY <2>3, <4>2
      <4>. QED
        BY <4>1, <4>2
    <3>3. PICK S : S = 0 .. LastRegister
      OBVIOUS
    <3>4. m \in [S -> Byte] /\ copy.accel \in [S -> Byte] /\ \A r \in S : m[r] = copy.accel[r]
      BY <2>2, <3>1, <3>2, <3>3
    <3>5. PICK f \in [S -> Byte], g \in [S -> Byte] :
            f = m /\ g = copy.accel /\ \A r \in S : f[r] = g[r]
      BY <3>4
    <3>6. f = g
      BY ONLY <3>5, SameFunctions
    <3>. QED
      BY <3>5, <3>6
  <2>6. Here' = Here
    BY <1>1 DEF Here
  <2>7. Storing'
    <3>1. CASE l = 0
      BY <1>1, <1>2, <1>3, <1>8, <2>1, <2>4, <2>5, <2>6, <3>1 DEF Storing
    <3>2. CASE l = 1
      BY <1>1, <1>2, <1>3, <1>8, <2>1, <2>3, <2>4, <2>6, <3>2 DEF Storing
    <3>. QED
      BY <1>4, <3>1, <3>2
  <2>. QED
    BY <1>6, <2>4, <2>7
<1>. QED
  BY <1>2, <1>7, <1>8 DEF Storing

LEMMA TickSampling == DevInv /\ Tick /\ ~ssu.tdre /\ job.kind = "sample" => DevInv'
<1>. SUFFICES ASSUME DevInv, Tick, ~ssu.tdre, job.kind = "sample" PROVE DevInv'
  OBVIOUS
<1>1. /\ ssu.te /\ ssu.re /\ low = {"ACCEL"} /\ ~data /\ Typed /\ job' = job /\ copy' = copy
      /\ ssu \in Ssus /\ eeprom \in Eeproms /\ accel \in Accels
      /\ low' = low /\ data' = data /\ kinds' = kinds /\ ~ssu.tend
  BY Driving DEF Receives, DeviceOf
<1>2. Sampling /\ EepromRests
  BY DEF DevInv, EepromStep, AccelStep
<1>3. PICK n \in Nat, a \in Nat, l \in Nat :
        /\ n = Len(job.got) /\ a = job.at /\ l = job.left /\ Here = a + n
        /\ a + n + l <= 28 /\ a < 16
  BY <1>1, <1>2, Counts DEF Sampling, Here, LastRegister
<1>4. \/ /\ accel.state = "ADDRESS" /\ accel.offset = 0 /\ Coming(<<128 + job.at>>)
         /\ job.got = <<>> /\ job.left > 0
      \/ /\ accel.state = "BYTES" /\ accel.address = job.at /\ job.head = <<>>
         /\ accel.offset = Len(job.got) /\ job.left > 0
  BY <1>2 DEF Sampling, Full
<1>5. a + n \in 0 .. LastRegister
  <2>1. a + n \in 0 .. 28
    <3>1. a + n + l <= 28
      BY <1>3
    <3>. QED
      BY <3>1
  <2>. QED
    BY <2>1 DEF LastRegister
<1>6. eeprom' = eeprom /\ ClockRead(ssu, accel, ssu', accel')
  <2>1. accel.state = "BYTES" => accel.address + accel.offset \in 0 .. LastRegister
    BY <1>3, <1>4, <1>5
  <2>. QED
    BY <1>1, <2>1, TickSamples
<1>7. ASSUME accel' \in Accels, Sampling' PROVE DevInv'
  <2>1. ~ssu'.tdre => ~ssu'.tend
    BY <1>1, <1>4, <1>6 DEF ClockRead
  <2>2. Typed' /\ Selected' /\ ReadsBack'
    BY <1>1, <1>6, <1>7, <2>1, Ticked DEF ClockRead
  <2>. QED
    BY <1>1, <1>2, <1>6, <1>7, <2>2 DEF DevInv, EepromStep, AccelStep, EepromRests
<1>8. Here' = Here
  BY <1>1 DEF Here
<1>9. CASE /\ accel.state = "ADDRESS" /\ accel.offset = 0 /\ Coming(<<128 + job.at>>)
           /\ job.got = <<>> /\ job.left > 0
  <2>1. ssu.tdr = 128 + a /\ job.head = <<>>
    <3>1. PICK x : x = 128 + job.at
      OBVIOUS
    <3>2. Coming(<<x>>)
      BY <1>9, <3>1
    <3>3. ssu.tdr = x /\ job.head = <<>>
      BY <1>1, <3>2, Heads DEF Coming
    <3>. QED
      BY <1>3, <3>1, <3>3
  <2>2. ssu.tdr % 16 = job.at
    <3>1. (128 + a) % 16 = a
      <4>1. a < 16
        BY <1>3
      <4>. QED
        BY <4>1
    <3>. QED
      BY <1>3, <2>1, <3>1
  <2>3. /\ accel' = [accel EXCEPT !.address = job.at, !.offset = 0, !.state = "BYTES"]
        /\ ~ssu'.tdre
    BY <1>6, <1>9, <2>2 DEF ClockRead
  <2>4. /\ accel' \in Accels /\ accel'.address = job.at /\ accel'.state = "BYTES"
        /\ accel'.memory = accel.memory /\ accel'.offset = 0
    <3>1. a \in Nat /\ a < 16
      BY <1>3
    <3>2. a \in Byte
      BY ONLY <3>1 DEF Byte
    <3>3. accel \in Accels /\ job.at \in Byte
      BY <1>1, <1>3, <3>2
    <3>. QED
      BY <2>3, <3>3 DEF Accels
  <2>5. Len(job.got) = 0 /\ ~Full'
    BY <1>9, <2>3 DEF Full
  <2>6. Sampling'
    BY <1>1, <1>2, <1>8, <1>9, <2>1, <2>3, <2>4, <2>5 DEF Sampling
  <2>. QED
    BY <1>7, <2>4, <2>6
<1>10. CASE /\ accel.state = "BYTES" /\ accel.address = job.at /\ job.head = <<>>
            /\ accel.offset = Len(job.got) /\ job.left > 0
  <2>1. (accel.offset + 1) % 256 = n + 1
    <3>1. (n + 1) % 256 = n + 1
      <4>1. n < 255
        <5>1. a + n + l <= 28
          BY <1>3
        <5>. QED
          BY <5>1
      <4>. QED
        BY <4>1
    <3>. QED
      BY <1>3, <1>10, <3>1
  <2>2. /\ accel' = [accel EXCEPT !.offset = n + 1]
        /\ ssu'.tdre /\ ssu'.tend /\ ssu'.rdrf /\ ssu'.rdr = accel.memory[Here]
    BY <1>3, <1>6, <1>10, <2>1 DEF ClockRead
  <2>3. /\ accel' \in Accels /\ accel'.address = accel.address /\ accel'.state = accel.state
        /\ accel'.memory = accel.memory /\ accel'.offset = n + 1
    BY <1>1, <2>2 DEF Accels
  <2>4. Full'
    BY <2>2 DEF Full
  <2>5. Sampling'
    BY <1>1, <1>2, <1>3, <1>8, <1>10, <2>2, <2>3, <2>4 DEF Sampling
  <2>. QED
    BY <1>7, <2>3, <2>5
<1>. QED
  BY <1>4, <1>9, <1>10

\* The LCD takes its bytes without the others.
LEMMA TickDrawing == DevInv /\ Tick /\ ~ssu.tdre /\ job.kind \in LcdKinds => DevInv'
<1>. SUFFICES ASSUME DevInv, Tick, ~ssu.tdre, job.kind \in LcdKinds PROVE DevInv'
  OBVIOUS
<1>1. /\ ssu.te /\ ~ssu.re /\ low = {"LCD"} /\ Typed /\ job' = job /\ copy' = copy
      /\ eeprom \in Eeproms /\ accel \in Accels /\ ~ssu.tend
  BY Driving DEF Receives, DeviceOf, LcdKinds
<1>2. EepromRests /\ AccelRests /\ accel.offset = 0
  BY DEF DevInv, EepromStep, AccelStep, LcdKinds
<1>3. /\ eeprom' = eeprom /\ accel' = accel /\ Switched(ssu, ssu')
      /\ ~ssu'.tdre => ~ssu'.tend
  BY <1>1, TickDraws
<1>4. Typed' /\ Selected' /\ ReadsBack'
  BY <1>1, <1>3, Ticked
<1>. QED
  BY <1>1, <1>2, <1>3, <1>4 DEF DevInv, EepromStep, AccelStep, EepromRests, AccelRests, LcdKinds

LEMMA TickDev == DevInv /\ Tick => DevInv'
<1>. SUFFICES ASSUME DevInv, Tick PROVE DevInv'
  OBVIOUS
<1>1. CASE ssu.tdre
  <2>1. ssu' = ssu /\ eeprom' = eeprom /\ accel' = accel
    BY <1>1, ClockOfNoByte DEF DevInv
  <2>2. Moved(ssu, ssu') /\ DOMAIN copy = CopyFields
    BY <2>1 DEF DevInv, Typed, Moved, Switched
  <2>. QED
    BY <2>1, <2>2, Counting DEF Tick
<1>2. CASE ~ssu.tdre
  <2>1. job.kind \in Kinds
    BY <1>2, Driving
  <2>. QED
    BY <1>2, <2>1, TickWriting, TickReading, TickEnabling, TickAsking, TickStoring,
       TickSampling, TickDrawing DEF Kinds, LcdKinds
<1>. QED
  BY <1>1, <1>2

-----------------------------------------------------------------------------
\* What is known when all the first bytes are through.
LEMMA Settled ==
  ASSUME DevInv, ssu.tdre, job.head = <<>>
  PROVE  /\ job.kind = "write" => /\ Told /\ eeprom.offset = Len(job.got) % PageSize
                                  /\ eeprom.memory = copy.eeprom
         /\ job.kind = "read" => Told
         /\ job.kind = "enable" => EepromRests /\ eeprom.status = copy.status
         /\ job.kind = "status" => eeprom.state = "STATUS"
         /\ job.kind = "store" => /\ accel.state = "BYTES"
                                  /\ job.left = 0 => accel.memory = copy.accel
         /\ job.kind = "sample" => accel.state = "BYTES"
<1>1. ASSUME NEW h, Coming(h) PROVE h = <<>>
  BY <1>1 DEF Coming
<1>2. ~Coming(<<6>>) /\ ~Coming(<<5>>) /\ ~Coming(<<job.at>>) /\ ~Coming(<<128 + job.at>>)
  BY <1>1, Heads
<1>3. ASSUME NEW k PROVE ~Taking(k)
  <2>1. ~Coming(<<k, High, Low>>) /\ ~Coming(<<High, Low>>) /\ ~Coming(<<Low>>)
    BY <1>1, Heads
  <2>. QED
    BY <2>1 DEF Taking
<1>4. job.kind = "write" => /\ Told /\ eeprom.offset = Len(job.got) % PageSize
                            /\ eeprom.memory = copy.eeprom
  BY <1>3 DEF DevInv, EepromStep, Writing
<1>5. job.kind = "read" => Told
  BY <1>3 DEF DevInv, EepromStep, Reading
<1>6. job.kind = "enable" => EepromRests /\ eeprom.status = copy.status
  BY <1>2 DEF DevInv, EepromStep, Enabling, EepromRests
<1>7. job.kind = "status" => eeprom.state = "STATUS"
  BY <1>2 DEF DevInv, EepromStep, Asking
<1>8. job.kind = "store" => /\ accel.state = "BYTES"
                            /\ job.left = 0 => accel.memory = copy.accel
  BY <1>2, Counts DEF DevInv, AccelStep, Storing
<1>9. job.kind = "sample" => accel.state = "BYTES"
  BY <1>2 DEF DevInv, AccelStep, Sampling
<1>. QED
  BY <1>4, <1>5, <1>6, <1>7, <1>8, <1>9

\* What is in the transmit register after it has been written.
LEMMA Written ==
  ASSUME NEW b \in Byte, Transmit(b), ssu \in Ssus
  PROVE  /\ Switched(ssu, ssu') /\ ~ssu'.tdre /\ ~ssu'.tend /\ ssu'.tdr = b /\ ~Full'
<1>1. /\ Switched(ssu, ssu') /\ ~ssu'.tdre /\ ~ssu'.tend /\ ssu'.tdr = b
  BY DEF Transmit, Ssus, Switched
<1>. QED
  BY <1>1 DEF Full

LEMMA HeaderDev == DevInv /\ SendHeader => DevInv'
<1>. SUFFICES ASSUME DevInv, SendHeader PROVE DevInv'
  OBVIOUS
<1>1. /\ ssu \in Ssus /\ ssu.tdre /\ job.head # <<>> /\ Transmit(Head(job.head))
      /\ job' = [job EXCEPT !.head = Tail(@)] /\ DOMAIN job = JobFields
      /\ low' = low /\ data' = data /\ eeprom' = eeprom /\ accel' = accel /\ copy' = copy
      /\ kinds' = kinds
  BY DEF SendHeader, DevInv, Typed
<1>2. /\ job'.kind = job.kind /\ job'.at = job.at /\ job'.left = job.left
      /\ job'.got = job.got /\ DOMAIN job' = JobFields /\ job'.head = Tail(job.head)
  BY <1>1 DEF JobFields
<1>3. ASSUME NEW h, Coming(h) PROVE Coming(h)' /\ Head(job.head) = Head(h)
  BY <1>1, <1>3, Sent DEF Coming
<1>4. ASSUME NEW h, NEW x, Coming(h), Head(h) = x, x \in Byte PROVE Head(job.head) \in Byte
  BY <1>3, <1>4
<1>5. ~Told /\ job.at \in Nat /\ job.kind # "none" /\ job.kind \notin LcdKinds
  BY <1>1 DEF Told, DevInv, Typed, Selected
<1>6. 0 \in Byte /\ 2 \in Byte /\ 3 \in Byte /\ 5 \in Byte /\ 6 \in Byte
  BY DEF Byte
<1>7. ASSUME NEW k \in Byte, Taking(k) PROVE Head(job.head) \in Byte /\ Taking(k)'
  <2>1. PICK y \in Byte, a \in Byte : y = High /\ a = Low /\ y = High' /\ a = Low'
    BY <1>2, <1>7 DEF Taking, High, Low
  <2>2. Head(<<k, y, a>>) = k /\ Head(<<y, a>>) = y /\ Head(<<a>>) = a
    BY Heads
  <2>3. Coming(<<k, y, a>>) \/ Coming(<<y, a>>) \/ Coming(<<a>>)
    BY <1>7, <2>1 DEF Taking
  <2>4. Head(job.head) \in Byte
    BY <1>4, <2>2, <2>3
  <2>5. /\ Coming(<<k, y, a>>) => Coming(<<k, y, a>>)'
        /\ Coming(<<y, a>>) => Coming(<<y, a>>)'
        /\ Coming(<<a>>) => Coming(<<a>>)'
    BY <1>3
  <2>6. Taking(k)'
    BY <1>1, <1>2, <1>7, <2>1, <2>5 DEF Taking
  <2>. QED
    BY <2>4, <2>6
<1>8. ASSUME Head(job.head) \in Byte, EepromStep', AccelStep' PROVE DevInv'
  <2>1. Switched(ssu, ssu') /\ ~ssu'.tdre /\ ~ssu'.tend
    BY <1>1, <1>8, Written
  <2>2. Typed'
    BY <1>1, <1>2, <2>1 DEF DevInv, Typed, Switched
  <2>3. Selected'
    BY <1>1, <1>2, <1>5, <2>1 DEF DevInv, Selected, Switched
  <2>4. ReadsBack'
    BY <1>1, <1>2 DEF DevInv, ReadsBack
  <2>. QED
    BY <1>8, <2>2, <2>3, <2>4 DEF DevInv
<1>9. Here' = Here /\ (Head(job.head) \in Byte => ~Full' /\ ~ssu'.tdre)
  BY <1>1, <1>2, Written DEF Here
<1>10. (EepromRests => EepromRests') /\ (AccelRests => AccelRests')
  BY <1>1 DEF EepromRests, AccelRests
<1>11. CASE job.kind = "write"
  <2>1. Writing /\ AccelRests /\ accel.offset = 0
    BY <1>11 DEF DevInv, EepromStep, AccelStep
  <2>2. Taking(2) /\ eeprom.memory = copy.eeprom
    BY <1>5, <2>1 DEF Writing
  <2>3. Head(job.head) \in Byte /\ Taking(2)'
    BY <1>6, <1>7, <2>2
  <2>4. Writing'
    BY <1>1, <1>2, <1>9, <2>1, <2>2, <2>3 DEF Writing
  <2>. QED
    BY <1>1, <1>2, <1>8, <1>10, <1>11, <2>1, <2>3, <2>4 DEF EepromStep, AccelStep
<1>12. CASE job.kind = "read"
  <2>1. Reading /\ AccelRests /\ accel.offset = 0
    BY <1>12 DEF DevInv, EepromStep, AccelStep
  <2>2. Taking(3) /\ eeprom.memory = copy.eeprom
    BY <1>5, <2>1 DEF Reading
  <2>3. Head(job.head) \in Byte /\ Taking(3)'
    BY <1>6, <1>7, <2>2
  <2>4. Reading'
    BY <1>1, <1>2, <1>9, <2>1, <2>2, <2>3 DEF Reading
  <2>. QED
    BY <1>1, <1>2, <1>8, <1>10, <1>12, <2>1, <2>3, <2>4 DEF EepromStep, AccelStep
<1>13. CASE job.kind = "enable"
  <2>1. Enabling /\ AccelRests /\ accel.offset = 0
    BY <1>13 DEF DevInv, EepromStep, AccelStep
  <2>2. Coming(<<6>>)
    BY <1>1, <2>1 DEF Enabling, Coming
  <2>3. Head(job.head) \in Byte /\ Coming(<<6>>)'
    BY <1>3, <1>6, <2>2, Heads
  <2>4. Enabling'
    BY <1>1, <1>2, <2>1, <2>3 DEF Enabling
  <2>. QED
    BY <1>1, <1>2, <1>8, <1>10, <1>13, <2>1, <2>3, <2>4 DEF EepromStep, AccelStep
<1>14. CASE job.kind = "status"
  <2>1. Asking /\ AccelRests /\ accel.offset = 0
    BY <1>14 DEF DevInv, EepromStep, AccelStep
  <2>2. Coming(<<5>>)
    BY <1>1, <2>1 DEF Asking
  <2>3. Head(job.head) \in Byte /\ Coming(<<5>>)'
    BY <1>3, <1>6, <2>2, Heads
  <2>4. Asking'
    BY <1>1, <1>2, <2>1, <2>3 DEF Asking
  <2>. QED
    BY <1>1, <1>2, <1>8, <1>10, <1>14, <2>1, <2>3, <2>4 DEF EepromStep, AccelStep
<1>15. CASE job.kind = "store"
  <2>1. Storing /\ EepromRests
    BY <1>15 DEF DevInv, EepromStep, AccelStep
  <2>2. Coming(<<job.at>>)
    BY <1>1, <2>1 DEF Storing
  <2>3. PICK a \in Byte : a = job.at /\ a = job'.at
    <3>1. PICK a, n, l \in Nat : a = job.at /\ n = Len(job.got) /\ l = job.left
      BY Counts DEF DevInv
    <3>2. a + n + l <= 28
      BY <2>1, <3>1 DEF Storing, Here, LastRegister
    <3>3. a \in Byte
      BY <3>2 DEF Byte
    <3>. QED
      BY <1>2, <3>1, <3>3
  <2>4. Coming(<<a>>) /\ Head(<<a>>) = a
    BY <2>2, <2>3, Heads
  <2>5. Head(job.head) \in Byte /\ Coming(<<a>>)'
    BY <1>3, <2>4
  <2>6. Storing'
    BY <1>1, <1>2, <1>9, <2>1, <2>3, <2>5 DEF Storing
  <2>. QED
    BY <1>1, <1>2, <1>8, <1>10, <1>15, <2>1, <2>5, <2>6 DEF EepromStep, AccelStep
<1>16. CASE job.kind = "sample"
  <2>1. Sampling /\ EepromRests
    BY <1>16 DEF DevInv, EepromStep, AccelStep
  <2>2. Coming(<<128 + job.at>>) /\ job.at < 16
    BY <1>1, <2>1 DEF Sampling
  <2>3. 128 + job.at \in Byte
    BY <1>5, <2>2 DEF Byte
  <2>4. PICK a \in Byte : a = 128 + job.at /\ a = 128 + job'.at
    BY <1>2, <2>3
  <2>5. Coming(<<a>>) /\ Head(<<a>>) = a
    BY <2>2, <2>4, Heads
  <2>6. Head(job.head) \in Byte /\ Coming(<<a>>)'
    BY <1>3, <2>5
  <2>7. Sampling'
    BY <1>1, <1>2, <1>9, <2>1, <2>4, <2>6 DEF Sampling
  <2>. QED
    BY <1>1, <1>2, <1>8, <1>10, <1>16, <2>1, <2>6, <2>7 DEF EepromStep, AccelStep
<1>. QED
  BY <1>5, <1>11, <1>12, <1>13, <1>14, <1>15, <1>16 DEF DevInv, Selected, Kinds, LcdKinds

\* A byte that only moves the bus.
LEMMA AnyDev == DevInv /\ SendAny => DevInv'
<1>. SUFFICES ASSUME DevInv, SendAny PROVE DevInv'
  OBVIOUS
<1>1. /\ ssu \in Ssus /\ ssu.tdre /\ job.head = <<>> /\ job.left > 0 /\ Transmit(0)
      /\ Receives(job.kind) /\ ~Full /\ job' = job
      /\ low' = low /\ data' = data /\ eeprom' = eeprom /\ accel' = accel /\ copy' = copy
      /\ kinds' = kinds
  BY DEF SendAny, DevInv, Typed, Full
<1>2. 0 \in Byte
  BY DEF Byte
<1>3. Switched(ssu, ssu') /\ ~ssu'.tdre /\ ~ssu'.tend /\ ~Full'
  BY <1>1, <1>2, Written
<1>4. Typed' /\ Here' = Here
  BY <1>1, <1>3 DEF DevInv, Typed, Switched, Here
<1>5. Selected'
  BY <1>1, <1>3 DEF DevInv, Selected, Switched, Receives
<1>6. ReadsBack'
  BY <1>1 DEF DevInv, ReadsBack
<1>7. (EepromRests => EepromRests') /\ (AccelRests => AccelRests')
  BY <1>1 DEF EepromRests, AccelRests
<1>8. CASE job.kind = "read"
  <2>1. Reading /\ Told /\ AccelRests /\ accel.offset = 0
    BY <1>1, <1>8, Settled DEF DevInv, EepromStep, AccelStep
  <2>2. Told'
    BY <1>1, <2>1 DEF Told, High, Low
  <2>3. eeprom.offset = Len(job.got) % OffsetRange
    BY <1>1, <2>1 DEF Reading, Taking, Told
  <2>4. Reading'
    BY <1>1, <1>3, <1>4, <2>1, <2>2, <2>3 DEF Reading
  <2>. QED
    BY <1>1, <1>4, <1>5, <1>6, <1>7, <1>8, <2>1, <2>4 DEF DevInv, EepromStep, AccelStep
<1>9. CASE job.kind = "status"
  <2>1. Asking /\ eeprom.state = "STATUS" /\ AccelRests /\ accel.offset = 0
    BY <1>1, <1>9, Settled DEF DevInv, EepromStep, AccelStep
  <2>2. Asking'
    BY <1>1, <1>3, <2>1 DEF Asking
  <2>. QED
    BY <1>1, <1>4, <1>5, <1>6, <1>7, <1>9, <2>1, <2>2 DEF DevInv, EepromStep, AccelStep
<1>10. CASE job.kind = "sample"
  <2>1. Sampling /\ accel.state = "BYTES" /\ EepromRests
    BY <1>1, <1>10, Settled DEF DevInv, EepromStep, AccelStep
  <2>2. accel.address = job.at /\ accel.offset = Len(job.got)
    BY <1>1, <2>1 DEF Sampling
  <2>3. Sampling'
    BY <1>1, <1>3, <1>4, <2>1, <2>2 DEF Sampling
  <2>. QED
    BY <1>1, <1>4, <1>5, <1>6, <1>7, <1>10, <2>1, <2>3 DEF DevInv, EepromStep, AccelStep
<1>. QED
  BY <1>1, <1>8, <1>9, <1>10 DEF Receives

\* The driver reads the byte that lies ready: it is the one it once stored.
LEMMA ReceiveDev == DevInv /\ Receive => DevInv'
<1>. SUFFICES ASSUME DevInv, Receive PROVE DevInv'
  OBVIOUS
<1>1. /\ ssu \in Ssus /\ ssu.tdre /\ job.head = <<>> /\ job.left > 0
      /\ Receives(job.kind) /\ Full
      /\ low' = low /\ data' = data /\ eeprom' = eeprom /\ accel' = accel /\ copy' = copy
      /\ kinds' = kinds
  BY DEF Receive, DevInv, Typed, Full
<1>2. /\ Switched(ssu, ssu') /\ ssu'.tdre /\ ~Full' /\ ssu.rdr \in Byte
  <2>1. ssu' = [ssu EXCEPT !.rdrf = FALSE]
    BY DEF Receive
  <2>2. Switched(ssu, ssu') /\ ssu'.tdre /\ ~ssu'.rdrf /\ ssu.rdr \in Byte
    BY <1>1, <2>1 DEF Ssus, Switched
  <2>. QED
    BY <2>2 DEF Full
<1>3. PICK g \in Seq(Byte), x \in Byte : g = job.got /\ x = ssu.rdr
  BY <1>2 DEF DevInv, Typed
<1>4. /\ job'.kind = job.kind /\ job'.at = job.at /\ job'.left = job.left - 1
      /\ job'.got = Append(g, x) /\ DOMAIN job' = JobFields /\ job'.head = <<>>
  BY <1>1, <1>3 DEF Receive, DevInv, Typed, JobFields
<1>5. PICK n \in Nat, a \in Nat, l \in Nat :
        n = Len(job.got) /\ a = job.at /\ l = job.left /\ l > 0
  BY <1>1, Counts DEF DevInv
<1>6. /\ Append(g, x) \in Seq(Byte) /\ Len(Append(g, x)) = n + 1
      /\ \A i \in 1 .. n : Append(g, x)[i] = g[i]
      /\ Append(g, x)[n + 1] = x
  BY <1>3, <1>5
<1>7. /\ Here = a + n /\ Here' = a + (n + 1) /\ job'.left = l - 1 /\ l - 1 \in Nat
      /\ Len(job'.got) = n + 1
  BY <1>4, <1>5, <1>6 DEF Here
<1>8. Typed'
  BY <1>1, <1>2, <1>4, <1>6, <1>7 DEF DevInv, Typed, Switched
<1>9. Selected'
  BY <1>1, <1>2, <1>4 DEF DevInv, Selected, Switched, Receives, LcdKinds
<1>10. ASSUME /\ job.kind = "read" => x = copy.eeprom[a + n]
              /\ job.kind = "sample" => x = copy.accel[a + n]
              /\ job.kind = "status" => x = copy.status
       PROVE  ReadsBack'
  <2>1. SUFFICES ASSUME NEW i \in 1 .. n + 1
                 PROVE  /\ job.kind = "read" => Append(g, x)[i] = copy.eeprom[a + i - 1]
                        /\ job.kind = "sample" => Append(g, x)[i] = copy.accel[a + i - 1]
                        /\ job.kind = "status" => Append(g, x)[i] = copy.status
    BY <1>1, <1>4, <1>5, <1>6 DEF ReadsBack
  <2>2. CASE i = n + 1
    <3>1. a + i - 1 = a + n
      BY <2>2
    <3>. QED
      BY <1>6, <1>10, <2>2, <3>1
  <2>3. CASE i \in 1 .. n
    <3>1. Append(g, x)[i] = g[i]
      BY <1>6, <2>3
    <3>2. ReadsBack
      BY DEF DevInv
    <3>. QED
      BY <1>3, <1>5, <2>3, <3>1, <3>2 DEF ReadsBack
  <2>4. i = n + 1 \/ i \in 1 .. n
    BY <1>5
  <2>. QED
    BY <2>2, <2>3, <2>4
<1>11. (EepromRests => EepromRests') /\ (AccelRests => AccelRests')
  BY <1>1 DEF EepromRests, AccelRests
<1>12. CASE job.kind = "read"
  <2>1. Reading /\ Told /\ AccelRests /\ accel.offset = 0
    BY <1>1, <1>12, Settled DEF DevInv, EepromStep, AccelStep
  <2>2. Told'
    BY <1>1, <1>4, <2>1 DEF Told, High, Low
  <2>3. eeprom.offset = (n + 1) % OffsetRange /\ x = copy.eeprom[a + n]
    <3>1. ~Taking(3)
      BY <2>1 DEF Taking, Told
    <3>. QED
      BY <1>1, <1>3, <1>5, <1>7, <2>1, <3>1 DEF Reading
  <2>4. Here' + job'.left <= EepromSize
    <3>1. a + n + l <= EepromSize
      BY <1>5, <1>7, <2>1 DEF Reading
    <3>2. PICK h, r : h = Here' /\ r = job'.left
      OBVIOUS
    <3>3. h = a + (n + 1) /\ r = l - 1 /\ l > 0
      BY <1>5, <1>7, <3>2
    <3>4. h + r = a + n + l
      BY ONLY <3>3
    <3>. QED
      BY <3>1, <3>2, <3>4
  <2>5. Reading'
    BY <1>1, <1>2, <1>7, <2>1, <2>2, <2>3, <2>4 DEF Reading
  <2>. QED
    BY <1>4, <1>8, <1>9, <1>10, <1>11, <1>12, <1>1, <2>1, <2>3, <2>5
    DEF DevInv, EepromStep, AccelStep
<1>13. CASE job.kind = "status"
  <2>1. Asking /\ eeprom.state = "STATUS" /\ AccelRests /\ accel.offset = 0
    BY <1>1, <1>13, Settled DEF DevInv, EepromStep, AccelStep
  <2>2. Asking' /\ x = copy.status
    BY <1>1, <1>2, <1>3, <1>4, <2>1 DEF Asking
  <2>. QED
    BY <1>1, <1>4, <1>8, <1>9, <1>10, <1>11, <1>13, <2>1, <2>2 DEF DevInv, EepromStep, AccelStep
<1>14. CASE job.kind = "sample"
  <2>1. Sampling /\ accel.state = "BYTES" /\ EepromRests
    BY <1>1, <1>14, Settled DEF DevInv, EepromStep, AccelStep
  <2>2. accel.address = job.at /\ accel.offset = n + 1 /\ x = copy.accel[a + n]
    BY <1>1, <1>3, <1>5, <1>7, <2>1 DEF Sampling
  <2>3. Here' + job'.left <= LastRegister
    <3>1. a + n + l <= LastRegister
      BY <1>5, <1>7, <2>1 DEF Sampling
    <3>2. PICK h, r : h = Here' /\ r = job'.left
      OBVIOUS
    <3>3. h = a + (n + 1) /\ r = l - 1 /\ l > 0
      BY <1>5, <1>7, <3>2
    <3>4. h + r = a + n + l
      BY ONLY <3>3
    <3>. QED
      BY <3>1, <3>2, <3>4
  <2>4. Sampling'
    BY <1>1, <1>2, <1>4, <1>7, <2>1, <2>2, <2>3 DEF Sampling
  <2>. QED
    BY <1>1, <1>4, <1>8, <1>9, <1>10, <1>11, <1>14, <2>1, <2>2, <2>4 DEF DevInv, EepromStep, AccelStep
<1>. QED
  BY <1>1, <1>12, <1>13, <1>14 DEF Receives

\* At the end of a transfer the device has all of it.
LEMMA FinishDev == DevInv /\ Finish => DevInv'
<1>. SUFFICES ASSUME DevInv, Finish PROVE DevInv'
  OBVIOUS
<1>1. /\ ssu \in Ssus /\ ssu.tdre /\ job.head = <<>> /\ job.left = 0 /\ job' = Idle
      /\ low' = {} /\ data' = FALSE /\ ssu' = ssu /\ copy' = copy /\ kinds' = kinds
      /\ eeprom \in Eeproms /\ accel \in Accels
  BY DEF Finish, DevInv, Typed
<1>2. eeprom' = [eeprom EXCEPT !.state = "EMPTY", !.offset = 0]
      /\ accel' = [accel EXCEPT !.state = "ADDRESS", !.offset = 0]
  BY DEF Finish, Cleaned
<1>3. /\ eeprom' \in Eeproms /\ eeprom'.memory = eeprom.memory /\ eeprom'.state = "EMPTY"
      /\ eeprom'.offset = 0 /\ eeprom'.status = eeprom.status
  BY <1>1, <1>2 DEF Eeproms
<1>4. /\ accel' \in Accels /\ accel'.memory = accel.memory /\ accel'.state = "ADDRESS"
      /\ accel'.offset = 0
  BY <1>1, <1>2 DEF Accels
<1>5. eeprom.memory = copy.eeprom /\ eeprom.status = copy.status
  <2>1. job.kind # "enable" => eeprom.status = copy.status
    BY DEF DevInv, Selected
  <2>2. job.kind = "enable" => EepromRests /\ eeprom.status = copy.status
    BY <1>1, Settled
  <2>3. job.kind = "write" => eeprom.memory = copy.eeprom
    BY <1>1, Settled
  <2>4. job.kind # "write" => eeprom.memory = copy.eeprom
    BY <2>2 DEF DevInv, EepromStep, Reading, Asking, EepromRests
  <2>. QED
    BY <2>1, <2>2, <2>3, <2>4
<1>6. accel.memory = copy.accel
  <2>1. job.kind = "store" => accel.memory = copy.accel
    BY <1>1, Settled
  <2>2. job.kind # "store" => accel.memory = copy.accel
    BY DEF DevInv, AccelStep, Sampling, AccelRests
  <2>. QED
    BY <2>1, <2>2
<1>7. /\ job'.kind = "none" /\ job'.at = 0 /\ job'.head = <<>> /\ job'.left = 0
      /\ job'.got = <<>> /\ DOMAIN job' = JobFields
  BY <1>1 DEF Idle, JobFields
<1>8. 0 \in Byte /\ <<>> \in Seq(Byte)
  BY DEF Byte
<1>9. Typed'
  BY <1>1, <1>3, <1>4, <1>7, <1>8 DEF DevInv, Typed
<1>10. Selected'
  <2>1. kinds \subseteq Kinds
    BY DEF DevInv, Selected
  <2>2. "none" \notin LcdKinds
    BY DEF LcdKinds
  <2>. QED
    BY <1>1, <1>3, <1>5, <1>7, <2>1, <2>2 DEF Selected
<1>11. ReadsBack'
  BY <1>7 DEF ReadsBack
<1>. QED
  BY <1>1, <1>3, <1>4, <1>5, <1>6, <1>7, <1>9, <1>10, <1>11
  DEF DevInv, EepromStep, AccelStep, EepromRests, AccelRests

\* Of what the devices hold, a command and a byte of data change nothing.
LEMMA OrderedKeeps ==
  ASSUME NEW c, DOMAIN c = CopyFields, NEW b \in Byte
  PROVE  /\ DOMAIN Ordered(c, b) = CopyFields /\ Ordered(c, b).eeprom = c.eeprom
         /\ Ordered(c, b).accel = c.accel /\ Ordered(c, b).status = c.status
<1>. DEFINE Same(e) == /\ DOMAIN e = CopyFields /\ e.eeprom = c.eeprom
                       /\ e.accel = c.accel /\ e.status = c.status
<1>1. ASSUME NEW n PROVE Same([c EXCEPT !.cursor = n]) /\ Same([[c EXCEPT !.cursor = n] EXCEPT !.run = 0])
  BY DEF CopyFields
<1>2. ASSUME NEW t PROVE Same([c EXCEPT !.contrast = t])
  BY DEF CopyFields
<1>. HIDE DEF Same
<1>3. CASE c.contrast
  <2>1. Ordered(c, b) = [c EXCEPT !.contrast = FALSE]
    BY <1>3 DEF Ordered
  <2>. QED
    BY <1>2, <2>1 DEF Same
<1>4. CASE ~c.contrast /\ b \in 0 .. 23
  <2>. DEFINE page == c.cursor \div 512
              column == (c.cursor % 512) \div 2
              To(k) == [c EXCEPT !.cursor = (page * 512) + (2 * k)]
  <2>1. CASE b < 16
    <3>1. Ordered(c, b) = [To(((column \div 16) * 16) + b) EXCEPT !.run = 0]
      BY <1>4, <2>1 DEF Ordered
    <3>. QED
      BY <1>1, <3>1 DEF Same
  <2>2. CASE b \in 16 .. 23
    <3>1. Ordered(c, b) = [To((16 * (b - 16)) + (column % 16)) EXCEPT !.run = 0]
      BY <1>4, <2>2 DEF Ordered
    <3>. QED
      BY <1>1, <3>1 DEF Same
  <2>. QED
    BY <1>4, <2>1, <2>2
<1>5. CASE ~c.contrast /\ b \in 176 .. 191
  <2>1. Ordered(c, b) = [c EXCEPT !.cursor = ((b - 176) * 512) + (c.cursor % 512)]
    BY <1>5 DEF Ordered
  <2>. QED
    BY <1>1, <2>1 DEF Same
<1>6. CASE ~c.contrast /\ b \notin 0 .. 23 /\ b \notin 176 .. 191
  <2>1. Ordered(c, b) = [c EXCEPT !.contrast = b = 129 /\ ~@]
    BY <1>6 DEF Ordered, Byte
  <2>. QED
    BY <1>2, <2>1 DEF Same
<1>. QED
  BY <1>3, <1>4, <1>5, <1>6

\* The driver notes a byte of data as it sends it, before the device has it.
LEMMA ByteDev ==
  ASSUME DevInv, NEW b \in Byte, SendByte(b)
  PROVE  DevInv'
<1>1. /\ ssu \in Ssus /\ ssu.tdre /\ job.head = <<>> /\ job.left > 0 /\ Transmit(b)
      /\ ~Receives(job.kind) /\ DOMAIN copy = CopyFields
      /\ low' = low /\ data' = data /\ eeprom' = eeprom /\ accel' = accel /\ kinds' = kinds
  BY DEF SendByte, DevInv, Typed
<1>2. Switched(ssu, ssu') /\ ~ssu'.tdre /\ ~ssu'.tend /\ ssu'.tdr = b
  BY <1>1, Written
<1>3. PICK g \in Seq(Byte) : g = job.got
  BY DEF DevInv, Typed
<1>4. /\ job'.kind = job.kind /\ job'.at = job.at /\ job'.left = job.left - 1
      /\ job'.got = Append(g, b) /\ DOMAIN job' = JobFields /\ job'.head = <<>>
  BY <1>1, <1>3 DEF SendByte, DevInv, Typed, JobFields
<1>5. PICK n \in Nat, a \in Nat, l \in Nat :
        n = Len(job.got) /\ a = job.at /\ l = job.left /\ l > 0
  BY <1>1, Counts DEF DevInv
<1>6. Append(g, b) \in Seq(Byte) /\ Len(Append(g, b)) = n + 1 /\ Append(g, b) # <<>>
  BY <1>3, <1>5
<1>7. /\ Here = a + n /\ Here' = a + (n + 1) /\ job'.left = l - 1 /\ l - 1 \in Nat
      /\ Len(job'.got) = n + 1
  BY <1>4, <1>5, <1>6 DEF Here
<1>8. job.kind \in {"write", "store"} \union LcdKinds
  <2>1. job.kind \notin {"none", "enable"} /\ job.kind \in Kinds \union {"none"}
    BY <1>1 DEF DevInv, Selected
  <2>. QED
    BY <1>1, <2>1 DEF Receives, Kinds, LcdKinds
<1>9. ASSUME /\ copy'.eeprom \in [0 .. EepromSize - 1 -> Byte] /\ copy'.status = copy.status
             /\ copy'.accel \in [0 .. LastRegister -> Byte] /\ DOMAIN copy' = CopyFields
             /\ EepromStep' /\ AccelStep'
      PROVE  DevInv'
  <2>1. Typed'
    BY <1>1, <1>2, <1>4, <1>6, <1>7, <1>9 DEF DevInv, Typed, Switched
  <2>2. Selected'
    BY <1>1, <1>2, <1>4, <1>6, <1>8, <1>9 DEF DevInv, Selected, Switched, LcdKinds
  <2>3. ReadsBack'
    BY <1>4, <1>8 DEF ReadsBack, LcdKinds
  <2>. QED
    BY <1>9, <2>1, <2>2, <2>3 DEF DevInv
<1>10. Here' - 1 = a + n
  <2>1. PICK h : h = Here'
    OBVIOUS
  <2>2. h = a + (n + 1)
    BY <1>7, <2>1
  <2>3. h - 1 = a + n
    BY ONLY <2>2
  <2>. QED
    BY <2>1, <2>3
<1>11. ASSUME NEW z \in Nat, a + n + l <= z PROVE Here' + job'.left <= z
  <2>1. PICK h, r : h = Here' /\ r = job'.left
    OBVIOUS
  <2>2. h = a + (n + 1) /\ r = l - 1 /\ l > 0
    BY <1>5, <1>7, <2>1
  <2>3. h + r = a + n + l
    BY ONLY <2>2
  <2>. QED
    BY <1>11, <2>1, <2>3
<1>12. CASE job.kind = "write"
  <2>1. Writing /\ AccelRests /\ accel.offset = 0
    BY <1>12 DEF DevInv, EepromStep, AccelStep
  <2>2. Told /\ eeprom.offset = n % PageSize /\ eeprom.memory = copy.eeprom
    BY <1>1, <1>5, <1>12, Settled
  <2>3. n + l <= PageSize /\ a + n + l <= EepromSize
    BY <1>5, <1>7, <2>1 DEF Writing
  <2>4. n % PageSize = n
    <3>1. PICK p \in Nat \ {0} : p = PageSize
      BY BusAssumption
    <3>2. n < p
      BY <1>5, <2>3, <3>1
    <3>3. n % p = n
      BY <3>2
    <3>. QED
      BY <3>1, <3>3
  <2>5. copy' = [copy EXCEPT !.eeprom[a + n] = b]
    BY <1>5, <1>12 DEF SendByte
  <2>6. /\ copy'.eeprom = [copy.eeprom EXCEPT ![a + n] = b] /\ copy'.status = copy.status
        /\ copy'.accel = copy.accel /\ DOMAIN copy' = CopyFields
    BY <1>1, <2>5 DEF CopyFields
  <2>7. PICK m \in [0 .. EepromSize - 1 -> Byte] : m = copy.eeprom
    BY DEF DevInv, Typed
  <2>8. [m EXCEPT ![a + n] = b] \in [0 .. EepromSize - 1 -> Byte]
    OBVIOUS
  <2>9. Told'
    BY <1>1, <1>4, <2>2 DEF Told, High, Low
  <2>10. Here' + job'.left <= EepromSize
    <3>1. EepromSize \in Nat
      BY BusAssumption
    <3>. QED
      BY <1>11, <2>3, <3>1
  <2>11. Len(job'.got) + job'.left <= PageSize
    <3>1. (n + 1) + (l - 1) = n + l
      OBVIOUS
    <3>. QED
      BY <1>7, <2>3, <3>1
  <2>12. Writing'
    <3>1. Len(job'.got) > 0 /\ eeprom'.offset = Len(job'.got) - 1
      <4>1. PICK k, e : k = Len(job'.got) /\ e = eeprom'.offset
        OBVIOUS
      <4>2. k = n + 1 /\ e = n
        BY <1>1, <1>7, <2>2, <2>4, <4>1
      <4>3. k > 0 /\ e = k - 1
        BY ONLY <4>2, n \in Nat
      <4>. QED
        BY <4>1, <4>3
    <3>2. copy'.eeprom = [eeprom'.memory EXCEPT ![Here' - 1] = ssu'.tdr]
      BY <1>1, <1>2, <1>10, <2>2, <2>6
    <3>. QED
      BY <1>2, <2>9, <2>10, <2>11, <3>1, <3>2 DEF Writing
  <2>13. EepromStep' /\ AccelStep'
    BY <1>1, <1>4, <1>12, <2>1, <2>6, <2>12 DEF EepromStep, AccelStep, AccelRests
  <2>14. copy'.eeprom \in [0 .. EepromSize - 1 -> Byte] /\ copy'.accel \in [0 .. LastRegister -> Byte]
    BY <2>6, <2>7, <2>8 DEF DevInv, Typed
  <2>. QED
    BY <1>9, <2>6, <2>13, <2>14
<1>13. CASE job.kind = "store"
  <2>1. Storing /\ EepromRests /\ accel.state = "BYTES"
    BY <1>1, <1>13, Settled DEF DevInv, EepromStep, AccelStep
  <2>2. n + l = 1 /\ a + n + l <= LastRegister
    BY <1>5, <1>7, <2>1 DEF Storing
  <2>3. n = 0 /\ l = 1 /\ a + n = a /\ a \in 0 .. LastRegister
    <3>1. n + l = 1 /\ l > 0 /\ a + n + l <= 28
      BY <1>5, <2>2 DEF LastRegister
    <3>2. n = 0 /\ l = 1
      BY <3>1
    <3>3. a + n = a /\ a \in 0 .. 28
      BY <3>1, <3>2
    <3>. QED
      BY <3>2, <3>3 DEF LastRegister
  <2>4. /\ accel.address = job.at
        /\ \A r \in 0 .. LastRegister \ {job.at} : accel.memory[r] = copy.accel[r]
    BY <1>1, <1>5, <2>1 DEF Storing
  <2>5. copy' = [copy EXCEPT !.accel[a] = b]
    BY <1>5, <1>13, <2>3 DEF SendByte
  <2>6. /\ copy'.accel = [copy.accel EXCEPT ![a] = b] /\ copy'.status = copy.status
        /\ copy'.eeprom = copy.eeprom /\ DOMAIN copy' = CopyFields
    BY <1>1, <2>5 DEF CopyFields
  <2>7. PICK m \in [0 .. LastRegister -> Byte] : m = copy.accel
    BY DEF DevInv, Typed
  <2>8. /\ [m EXCEPT ![a] = b] \in [0 .. LastRegister -> Byte] /\ [m EXCEPT ![a] = b][a] = b
        /\ \A r \in 0 .. LastRegister \ {a} : [m EXCEPT ![a] = b][r] = m[r]
    BY <2>3
  <2>9. Here' + job'.left <= LastRegister
    <3>1. LastRegister \in Nat
      BY DEF LastRegister
    <3>. QED
      BY <1>11, <2>2, <3>1
  <2>10. Len(job'.got) + job'.left = 1 /\ job'.left = 0
    BY <1>7, <2>3
  <2>11. Storing'
    <3>1. ssu'.tdr = copy'.accel[job'.at]
      BY <1>2, <1>4, <1>5, <2>6, <2>7, <2>8
    <3>2. \A r \in 0 .. LastRegister \ {job'.at} : accel'.memory[r] = copy'.accel[r]
      BY <1>1, <1>4, <1>5, <2>4, <2>6, <2>7, <2>8
    <3>. QED
      BY <1>1, <1>2, <1>4, <2>1, <2>4, <2>9, <2>10, <3>1, <3>2 DEF Storing
  <2>12. EepromStep' /\ AccelStep'
    BY <1>1, <1>4, <1>13, <2>1, <2>6, <2>11 DEF EepromStep, AccelStep, EepromRests
  <2>13. copy'.eeprom \in [0 .. EepromSize - 1 -> Byte] /\ copy'.accel \in [0 .. LastRegister -> Byte]
    BY <2>6, <2>7, <2>8 DEF DevInv, Typed
  <2>. QED
    BY <1>9, <2>6, <2>12, <2>13
<1>14. CASE job.kind \in LcdKinds
  <2>1. /\ DOMAIN copy' = CopyFields /\ copy'.eeprom = copy.eeprom
        /\ copy'.accel = copy.accel /\ copy'.status = copy.status
    <3>1. CASE job.kind = "draw"
      <4>1. copy' = Drawn(copy)
        BY <3>1 DEF SendByte
      <4>. QED
        BY <1>1, <4>1 DEF Drawn, CopyFields
    <3>2. CASE job.kind = "command"
      <4>1. copy' = Ordered(copy, b)
        BY <3>2 DEF SendByte
      <4>. QED
        BY <1>1, <4>1, OrderedKeeps
    <3>. QED
      BY <1>14, <3>1, <3>2 DEF LcdKinds
  <2>2. EepromRests /\ AccelRests /\ accel.offset = 0
    BY <1>14 DEF DevInv, EepromStep, AccelStep, LcdKinds
  <2>3. EepromStep' /\ AccelStep'
    BY <1>1, <1>4, <1>14, <2>1, <2>2
    DEF EepromStep, AccelStep, EepromRests, AccelRests, LcdKinds
  <2>. QED
    BY <1>9, <2>1, <2>3 DEF DevInv, Typed
<1>. QED
  BY <1>8, <1>12, <1>13, <1>14

\* Both bytes of an address in the EEPROM are bytes.
LEMMA InEeprom ==
  ASSUME NEW a \in Nat, NEW n \in Nat, n > 0, a + n <= EepromSize
  PROVE  HighByte(a) \in Byte /\ LowByte(a) \in Byte
<1>1. PICK z \in Nat, o \in Nat : z = EepromSize /\ o = OffsetRange /\ z <= o
  BY BusAssumption, OffsetPositive
<1>2. a + n <= z /\ z <= o
  BY <1>1
<1>3. a < o
  BY <1>2
<1>. QED
  BY <1>1, <1>3, Splitting

\* A device at rest takes a transfer from the first byte on.
LEMMA BeginDev ==
  ASSUME DevInv, NEW kind \in kinds, NEW a \in Addresses, NEW n \in 0 .. MaxLength,
         Begin(kind, a, n)
  PROVE  DevInv'
<1>1. /\ job = Idle /\ n \in LengthOf(kind) /\ kinds' = kinds
      /\ low' = {DeviceOf(kind)} /\ (data' <=> kind = "draw")
      /\ ssu' = [ssu EXCEPT !.te = TRUE, !.re = Receives(kind)]
      /\ copy' = IF kind = "enable" THEN [copy EXCEPT !.status = 2] ELSE copy
  BY DEF Begin
<1>2. /\ kind \in Kinds /\ n \in Nat /\ a \in Nat /\ kinds \subseteq Kinds /\ kind # "none"
  <2>1. kinds \subseteq Kinds
    BY DEF DevInv, Selected
  <2>2. n \in Nat /\ a \in Nat
    BY BusAssumption
  <2>. QED
    BY <2>1, <2>2 DEF Kinds
<1>3. /\ job.kind = "none" /\ Typed /\ ssu.tdre /\ EepromRests /\ AccelRests /\ accel.offset = 0
      /\ eeprom.status = copy.status
  BY <1>1 DEF Idle, DevInv, Selected, EepromStep, AccelStep
<1>4. PICK at \in Nat : at = IF Addressed(kind) THEN a ELSE 0
  BY <1>2
<1>5. job' = [Idle EXCEPT !.kind = kind, !.at = at, !.head = Header(kind, a), !.left = n]
  BY <1>4 DEF Begin
<1>6. /\ job'.kind = kind /\ job'.at = at /\ job'.head = Header(kind, a) /\ job'.left = n
      /\ job'.got = <<>> /\ DOMAIN job' = JobFields
  BY <1>5 DEF Idle, JobFields
<1>7. /\ ssu' \in Ssus /\ ssu'.te /\ (ssu'.re <=> Receives(kind)) /\ ssu'.tdre
  <2>1. Receives(kind) \in BOOLEAN
    BY DEF Receives
  <2>. QED
    BY <1>1, <1>3, <2>1 DEF Typed, Ssus
<1>8. /\ eeprom' \in Eeproms /\ eeprom'.memory = eeprom.memory /\ eeprom'.status = eeprom.status
      /\ eeprom'.state = "EMPTY" /\ eeprom'.offset = 0
  BY <1>3 DEF Begin, Cleaned, Typed, Eeproms, EepromRests
<1>9. /\ accel' \in Accels /\ accel'.memory = accel.memory
      /\ accel'.state = "ADDRESS" /\ accel'.offset = 0
  BY <1>3 DEF Begin, Cleaned, Typed, Accels, AccelRests
<1>10. /\ copy'.eeprom = copy.eeprom /\ copy'.accel = copy.accel /\ DOMAIN copy' = CopyFields
       /\ copy'.status = IF kind = "enable" THEN 2 ELSE copy.status
  BY <1>1, <1>3 DEF Typed, CopyFields
<1>11. Typed'
  <2>1. <<>> \in Seq(Byte)
    OBVIOUS
  <2>. QED
    BY <1>2, <1>3, <1>6, <1>7, <1>8, <1>9, <1>10, <2>1 DEF Typed
<1>12. Selected'
  <2>1. kind \in LcdKinds => Header(kind, a) = <<>>
    BY DEF LcdKinds, Header
  <2>2. kind = "enable" => n = 0
    BY <1>1 DEF LengthOf
  <2>. QED
    BY <1>1, <1>2, <1>3, <1>6, <1>7, <1>8, <1>10, <2>1, <2>2 DEF Selected
<1>13. ReadsBack'
  BY <1>6 DEF ReadsBack
<1>14. PICK z \in Nat : Here' = z /\ z = at
  BY <1>6 DEF Here
<1>15. EepromStep'
  <2>1. ASSUME NEW h, Header(kind, a) = h PROVE Coming(h)'
    BY <1>6, <1>7, <2>1 DEF Coming
  <2>2. kind = "write" => Writing'
    <3>. SUFFICES ASSUME kind = "write" PROVE Writing'
      OBVIOUS
    <3>1. Header(kind, a) = <<2, HighByte(a), LowByte(a)>> /\ at = a
      BY <1>4 DEF Header, Addressed
    <3>2. a + n <= EepromSize /\ (a % PageSize) + n <= PageSize
      BY DEF Begin
    <3>3. Coming(<<2, High, Low>>)' /\ High' \in Byte /\ Low' \in Byte
      <4>1. Coming(<<2, HighByte(a), LowByte(a)>>)'
        BY <2>1, <3>1
      <4>2. High' = HighByte(a) /\ Low' = LowByte(a)
        BY <1>6, <3>1 DEF High, Low
      <4>3. n > 0
        BY <1>1 DEF LengthOf
      <4>4. HighByte(a) \in Byte /\ LowByte(a) \in Byte
        BY <1>2, <3>2, <4>3, InEeprom
      <4>. QED
        BY <4>1, <4>2, <4>4
    <3>4. n <= PageSize
      <4>1. PICK p \in Nat \ {0} : p = PageSize
        BY BusAssumption
      <4>2. a \in Nat
        BY <1>2 DEF Byte
      <4>3. PICK q \in Nat : q = a % p
        BY <4>1, <4>2
      <4>4. q + n <= p
        BY <3>2, <4>1, <4>3
      <4>5. n <= p
        BY <1>2, <4>4
      <4>. QED
        BY <4>1, <4>5
    <3>5. Here' + job'.left <= EepromSize
      BY <1>6, <1>14, <3>1, <3>2
    <3>6. Len(job'.got) + job'.left <= PageSize
      BY <1>2, <1>6, <3>4
    <3>. QED
      BY <1>3, <1>6, <1>8, <1>10, <3>3, <3>5, <3>6 DEF Writing, Taking, EepromRests
  <2>3. kind = "read" => Reading'
    <3>. SUFFICES ASSUME kind = "read" PROVE Reading'
      OBVIOUS
    <3>1. Header(kind, a) = <<3, HighByte(a), LowByte(a)>> /\ at = a
      BY <1>4 DEF Header, Addressed
    <3>2. a + n <= EepromSize
      BY DEF Begin
    <3>3. Coming(<<3, High, Low>>)' /\ High' \in Byte /\ Low' \in Byte
      <4>1. Coming(<<3, HighByte(a), LowByte(a)>>)'
        BY <2>1, <3>1
      <4>2. High' = HighByte(a) /\ Low' = LowByte(a)
        BY <1>6, <3>1 DEF High, Low
      <4>3. n > 0
        BY <1>1 DEF LengthOf
      <4>4. HighByte(a) \in Byte /\ LowByte(a) \in Byte
        BY <1>2, <3>2, <4>3, InEeprom
      <4>. QED
        BY <4>1, <4>2, <4>4
    <3>4. Here' + job'.left <= EepromSize
      BY <1>6, <1>14, <3>1, <3>2
    <3>. QED
      BY <1>3, <1>6, <1>8, <1>10, <3>3, <3>4 DEF Reading, Taking, EepromRests
  <2>4. kind = "enable" => Enabling'
    <3>. SUFFICES ASSUME kind = "enable" PROVE Enabling'
      OBVIOUS
    <3>1. Coming(<<6>>)'
      BY <2>1 DEF Header
    <3>. QED
      BY <1>3, <1>8, <1>10, <3>1 DEF Enabling, EepromRests
  <2>5. kind = "status" => Asking'
    <3>. SUFFICES ASSUME kind = "status" PROVE Asking'
      OBVIOUS
    <3>1. Coming(<<5>>)'
      BY <2>1 DEF Header
    <3>. QED
      BY <1>3, <1>6, <1>8, <1>10, <3>1 DEF Asking, EepromRests
  <2>6. EepromRests'
    BY <1>3, <1>8, <1>10 DEF EepromRests
  <2>. QED
    BY <1>6, <2>2, <2>3, <2>4, <2>5, <2>6 DEF EepromStep
<1>16. AccelStep'
  <2>1. ASSUME NEW h, Header(kind, a) = h PROVE Coming(h)'
    BY <1>6, <1>7, <2>1 DEF Coming
  <2>2. kind = "store" => Storing'
    <3>. SUFFICES ASSUME kind = "store" PROVE Storing'
      OBVIOUS
    <3>1. Header(kind, a) = <<a>> /\ at = a
      BY <1>4 DEF Header, Addressed
    <3>2. a + n <= LastRegister /\ n = 1
      BY <1>1 DEF Begin, LengthOf
    <3>3. Coming(<<job.at>>)'
      <4>1. Coming(<<a>>)'
        BY <2>1, <3>1
      <4>. QED
        BY <1>6, <3>1, <4>1
    <3>4. Here' + job'.left <= LastRegister
      BY <1>6, <1>14, <3>1, <3>2
    <3>5. Len(job'.got) + job'.left = 1
      BY <1>6, <3>2
    <3>. QED
      BY <1>3, <1>6, <1>9, <1>10, <3>3, <3>4, <3>5 DEF Storing, AccelRests
  <2>3. kind = "sample" => Sampling'
    <3>. SUFFICES ASSUME kind = "sample" PROVE Sampling'
      OBVIOUS
    <3>1. Header(kind, a) = <<128 + a>> /\ at = a
      BY <1>4 DEF Header, Addressed
    <3>2. a + n <= LastRegister /\ a < 16 /\ n > 0
      BY <1>1 DEF Begin, LengthOf
    <3>3. Coming(<<128 + job.at>>)'
      <4>1. PICK x : x = 128 + a
        OBVIOUS
      <4>2. Coming(<<x>>)'
        BY <2>1, <3>1, <4>1
      <4>3. x = 128 + job'.at
        BY <1>6, <3>1, <4>1
      <4>. QED
        BY <4>2, <4>3
    <3>4. Here' + job'.left <= LastRegister
      BY <1>6, <1>14, <3>1, <3>2
    <3>. QED
      BY <1>3, <1>6, <1>9, <1>10, <3>1, <3>2, <3>3, <3>4 DEF Sampling, AccelRests
  <2>4. AccelRests' /\ accel'.offset = 0
    BY <1>3, <1>9, <1>10 DEF AccelRests
  <2>. QED
    BY <1>6, <2>2, <2>3, <2>4 DEF AccelStep
<1>. QED
  BY <1>11, <1>12, <1>13, <1>15, <1>16 DEF DevInv

LEMMA DevInit == BusAssumption /\ Init => DevInv
<1>. SUFFICES ASSUME BusAssumption, Init PROVE DevInv
  OBVIOUS
<1>1. 0 \in Byte /\ 2 \in Byte /\ <<>> \in Seq(Byte)
  BY DEF Byte
<1>2. ssu \in Ssus /\ ssu.tdre /\ ~ssu.te /\ ~ssu.re
  BY <1>1 DEF Init, Ssus
<1>3. eeprom \in Eeproms /\ EepromRests /\ eeprom.status = 0
  BY <1>1 DEF Init, Eeproms, EepromRests
<1>4. accel \in Accels /\ AccelRests /\ accel.offset = 0
  BY <1>1 DEF Init, Accels, AccelRests
<1>5. /\ copy.eeprom = eeprom.memory /\ copy.accel = accel.memory /\ copy.status = 0
      /\ DOMAIN copy = CopyFields
  BY DEF Init, CopyFields
<1>6. /\ job.kind = "none" /\ job.at = 0 /\ job.head = <<>> /\ job.left = 0 /\ job.got = <<>>
      /\ DOMAIN job = JobFields
  BY DEF Init, Idle, JobFields
<1>7. low = {} /\ data = FALSE /\ kinds \subseteq Kinds
  BY BusAssumption DEF Init
<1>8. Typed
  BY <1>1, <1>2, <1>3, <1>4, <1>5, <1>6 DEF Typed, Eeproms, Accels
<1>9. Selected
  <2>1. "none" \notin LcdKinds
    BY DEF LcdKinds
  <2>. QED
    BY <1>2, <1>3, <1>5, <1>6, <1>7, <2>1 DEF Selected
<1>10. ReadsBack
  BY <1>6 DEF ReadsBack
<1>. QED
  BY <1>3, <1>4, <1>6, <1>8, <1>9, <1>10 DEF DevInv, EepromStep, AccelStep

LEMMA DevNext == BusAssumption /\ DevInv /\ [Next]_vars => DevInv'
<1>. SUFFICES ASSUME BusAssumption, DevInv, [Next]_vars PROVE DevInv'
  OBVIOUS
<1>1. CASE Tick
  BY <1>1, TickDev
<1>2. ASSUME NEW kind \in kinds, NEW a \in Addresses, NEW n \in 0 .. MaxLength,
             Begin(kind, a, n)
      PROVE DevInv'
  BY <1>2, BeginDev
<1>3. CASE SendHeader
  BY <1>3, HeaderDev
<1>4. ASSUME NEW b \in IF job.kind = "command" THEN Commands ELSE DataBytes, SendByte(b)
      PROVE DevInv'
  <2>1. b \in Byte
    BY BusAssumption
  <2>. QED
    BY <1>4, <2>1, ByteDev
<1>5. CASE SendAny
  BY <1>5, AnyDev
<1>6. CASE Receive
  BY <1>6, ReceiveDev
<1>7. CASE Finish
  BY <1>7, FinishDev
<1>8. CASE TurnOff
  <2>1. /\ job.kind = "none" /\ ssu.tdre /\ ssu \in Ssus
        /\ ssu' = [ssu EXCEPT !.te = FALSE, !.re = FALSE]
        /\ UNCHANGED <<low, data, eeprom, accel, lcd, kinds, job, copy>>
    BY <1>8 DEF TurnOff, Idle, DevInv, Typed, Selected
  <2>2. ssu' \in Ssus /\ ssu'.tdre
    BY <2>1 DEF Ssus
  <2>3. Typed' /\ Selected' /\ ReadsBack'
    BY <2>1, <2>2 DEF DevInv, Typed, Selected, ReadsBack
  <2>4. EepromRests' /\ AccelRests' /\ accel'.offset = 0
    BY <2>1 DEF DevInv, EepromStep, AccelStep, EepromRests, AccelRests
  <2>. QED
    BY <2>1, <2>3, <2>4 DEF DevInv, EepromStep, AccelStep
<1>9. CASE UNCHANGED vars
  <2>1. /\ ssu' = ssu /\ UNCHANGED <<low, data, eeprom, accel, kinds, job>> /\ copy' = copy
        /\ ssu \in Ssus /\ DOMAIN copy = CopyFields
    BY <1>9 DEF vars, DevInv, Typed
  <2>2. Moved(ssu, ssu')
    BY <2>1 DEF Moved, Switched
  <2>. QED
    BY <2>1, <2>2, Counting
<1>. QED
  BY <1>1, <1>2, <1>3, <1>4, <1>5, <1>6, <1>7, <1>8, <1>9 DEF Next

LEMMA DevCorrect == Spec => []DevInv
BY BusAssumption, DevInit, DevNext, PTL DEF Spec

\* Between two transfers the EEPROM and the accelerometer hold what has been
\* sent, however long the transfers are and wherever they begin.
THEOREM DevicesHoldWhatWasSent == Spec => []DevicesKeep
<1>1. DevInv => DevicesKeep
  BY DEF DevInv, EepromStep, AccelStep, EepromRests, AccelRests, Idle, DevicesKeep
<1>. QED
  BY <1>1, DevCorrect, PTL

\* Every byte that the driver receives from a device, in the middle of a
\* transfer too, is the one that was stored there, or the status.
THEOREM DevicesReadBack == Spec => []ReadsBack
<1>1. DevInv => ReadsBack
  BY DEF DevInv
<1>. QED
  BY <1>1, DevCorrect, PTL
=============================================================================
