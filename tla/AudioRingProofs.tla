--------------------------- MODULE AudioRingProofs ----------------------------
(***************************************************************************)
(* Theorems about AudioRing, for any size of the ring, any width of the    *)
(* counters that the size divides, any buffer and any submission.          *)
(***************************************************************************)
EXTENDS AudioRing, Integers, SequenceTheorems, TLAPS

-----------------------------------------------------------------------------
(* Arithmetic of the counters and of the slots.                            *)

LEMMA Sizes == Size \in Nat /\ Size > 0 /\ Wrap \in Nat /\ Wrap > Size /\ Wrap % Size = 0
BY AudioRingAssumption

LEMMA SuccIs ==
  ASSUME NEW c \in Counters
  PROVE  Succ(c) \in Counters /\ Succ(c) = IF c = Wrap - 1 THEN 0 ELSE c + 1
<1>1. CASE c = Wrap - 1
  BY <1>1, Sizes DEF Succ, Counters
<1>2. CASE c # Wrap - 1
  BY <1>2, Sizes DEF Succ, Counters
<1> QED
  BY <1>1, <1>2

LEMMA DistanceIs ==
  ASSUME NEW a \in Counters, NEW b \in Counters
  PROVE  /\ Distance(a, b) \in 0..(Wrap - 1)
         /\ Distance(a, b) = IF a <= b THEN b - a ELSE b + Wrap - a
<1>1. CASE a <= b
  BY <1>1, Sizes DEF Distance, Counters
<1>2. CASE ~ (a <= b)
  BY <1>2, Sizes DEF Distance, Counters
<1> QED
  BY <1>1, <1>2

LEMMA DistanceNat ==
  ASSUME NEW a \in Counters, NEW b \in Counters
  PROVE  Distance(a, b) \in Nat
BY DistanceIs, Sizes

LEMMA Division ==
  ASSUME NEW n \in Nat, NEW d \in Nat, d > 0
  PROVE  n % d \in 0..(d - 1) /\ \E q \in Nat : n = (d * q) + (n % d)
<1>1. n = d * (n \div d) + (n % d)
  OBVIOUS
<1>2. n \div d \in Nat /\ n % d \in 0..(d - 1)
  OBVIOUS
<1> QED
  BY <1>1, <1>2

LEMMA Multiple ==
  ASSUME NEW d \in Nat, d > 0, NEW k \in Int, d * k < d, -d < d * k
  PROVE  k = 0
<1>1. k >= 1 => d * k >= d
  OBVIOUS
<1>2. k <= -1 => d * k <= -d
  OBVIOUS
<1> QED
  BY <1>1, <1>2

LEMMA RemaindersApart ==
  ASSUME NEW d \in Nat, d > 0, NEW a \in Nat, NEW b \in Nat, a < b, b - a < d
  PROVE  a % d # b % d
<1> SUFFICES ASSUME a % d = b % d PROVE FALSE
  OBVIOUS
<1>1. PICK p \in Nat : a = (d * p) + (a % d)
  BY Division
<1>2. PICK q \in Nat : b = (d * q) + (b % d)
  BY Division
<1>3. d * (q - p) = b - a
  BY <1>1, <1>2
<1>4. q - p = 0
  BY <1>3, Multiple
<1> QED
  BY <1>3, <1>4

LEMMA RemainderShifts ==
  ASSUME NEW d \in Nat, d > 0, NEW a \in Nat, NEW w \in Nat, w % d = 0
  PROVE  (a + w) % d = a % d
<1>1. PICK p \in Nat : w = (d * p) + (w % d)
  BY Division
<1>2. PICK q \in Nat : a = (d * q) + (a % d)
  BY Division
<1>3. PICK r \in Nat : a + w = (d * r) + ((a + w) % d)
  <2>1. a + w \in Nat
    OBVIOUS
  <2> QED
    BY <2>1, Division
<1>4. a % d \in 0..(d - 1) /\ (a + w) % d \in 0..(d - 1)
  BY Division
<1>5. d * (r - (p + q)) = (a % d) - ((a + w) % d)
  BY <1>1, <1>2, <1>3
<1>6. r - (p + q) = 0
  BY <1>4, <1>5, Multiple
<1> QED
  BY <1>4, <1>5, <1>6

(* Counters less than the size apart have different slots.                 *)
LEMMA SlotsApart ==
  ASSUME NEW a \in Counters, NEW b \in Counters, 0 < Distance(a, b), Distance(a, b) < Size
  PROVE  Slot(a) # Slot(b)
<1>1. a \in Nat /\ b \in Nat /\ Size \in Nat /\ Size > 0 /\ Wrap \in Nat
  BY Sizes DEF Counters
<1>2. CASE a <= b
  <2>1. a < b /\ b - a < Size
    BY <1>1, <1>2, DistanceIs
  <2> QED
    BY <1>1, <2>1, RemaindersApart DEF Slot
<1>3. CASE ~ (a <= b)
  <2> DEFINE e == b + Wrap
  <2>1. a < e /\ e - a < Size /\ e \in Nat
    BY <1>1, <1>3, DistanceIs DEF Counters
  <2>2. e % Size = b % Size
    BY <1>1, Sizes, RemainderShifts
  <2> HIDE DEF e
  <2>3. a % Size # e % Size
    BY <1>1, <2>1, RemaindersApart
  <2> QED
    BY <2>2, <2>3 DEF Slot
<1> QED
  BY <1>2, <1>3

LEMMA SlotIs == ASSUME NEW c \in Counters PROVE Slot(c) \in 0..(Size - 1)
BY Sizes, Division DEF Slot, Counters

(* The counter at an offset, and back.                                     *)
LEMMA AheadIs ==
  ASSUME NEW a \in Counters, NEW i \in 0..(Wrap - 1)
  PROVE  /\ (a + i) % Wrap \in Counters
         /\ Distance(a, (a + i) % Wrap) = i
<1>1. (a + i) % Wrap = IF a + i < Wrap THEN a + i ELSE a + i - Wrap
  <2>1. CASE a + i < Wrap
    BY <2>1, Sizes DEF Counters
  <2>2. CASE ~ (a + i < Wrap)
    BY <2>2, Sizes DEF Counters
  <2> QED
    BY <2>1, <2>2
<1>2. (a + i) % Wrap \in Counters
  BY <1>1, Sizes DEF Counters
<1> DEFINE c == (a + i) % Wrap
<1>3. Distance(a, c) = IF a <= c THEN c - a ELSE c + Wrap - a
  BY <1>2, DistanceIs
<1>4. c = IF a + i < Wrap THEN a + i ELSE a + i - Wrap
  BY <1>1
<1> HIDE DEF c
<1>5. Distance(a, c) = i
  BY <1>3, <1>4, Sizes DEF Counters
<1> QED
  BY <1>2, <1>5 DEF c

(* Writing at a counter leaves the slots before it alone.                  *)
LEMMA SlotElsewhere ==
  ASSUME NEW a \in Counters, NEW b \in Counters, NEW i \in Nat,
         i < Distance(a, b), Distance(a, b) < Size
  PROVE  SlotAt(a, i) # Slot(b)
<1> DEFINE c == (a + i) % Wrap
<1>1. i \in 0..(Wrap - 1)
  BY DistanceIs, Sizes
<1>2. c \in Counters /\ Distance(a, c) = i
  BY <1>1, AheadIs
<1> HIDE DEF c
<1>3. Distance(c, b) = Distance(a, b) - i
  <2>1. /\ Distance(a, c) = IF a <= c THEN c - a ELSE c + Wrap - a
        /\ Distance(a, b) = IF a <= b THEN b - a ELSE b + Wrap - a
        /\ Distance(c, b) = IF c <= b THEN b - c ELSE b + Wrap - c
    BY <1>2, DistanceIs
  <2> QED
    BY <1>2, <2>1, Sizes DEF Counters
<1>4. Slot(c) # Slot(b)
  BY <1>2, <1>3, SlotsApart, DistanceIs, Sizes
<1> QED
  BY <1>4 DEF SlotAt, c

-----------------------------------------------------------------------------
(* Types.                                                                  *)

LEMMA BatchTail ==
  ASSUME NEW b \in Batches, b # <<>>
  PROVE  Head(b) \in Samples /\ Tail(b) \in Batches
<1>1. PICK n \in 0..MaxBatch : b \in [1..n -> Samples]
  BY DEF Batches
<1>2. b \in Seq(Samples) /\ Len(b) = n
  BY <1>1, AudioRingAssumption
<1>3. Tail(b) \in Seq(Samples) /\ Len(Tail(b)) = n - 1 /\ n - 1 \in 0..MaxBatch
  BY <1>2, AudioRingAssumption
<1>4. Tail(b) \in [1..(n - 1) -> Samples]
  <2> DEFINE t == Tail(b)
  <2>1. t \in Seq(Samples) /\ Len(t) = n - 1
    BY <1>3
  <2> HIDE DEF t
  <2>2. t \in [1..Len(t) -> Samples]
    BY <2>1
  <2> QED
    BY <2>1, <2>2 DEF t
<1> QED
  BY <1>2, <1>3, <1>4 DEF Batches

LEMMA InitType == Init => TypeOK
<1> SUFFICES ASSUME Init PROVE TypeOK
  OBVIOUS
<1>1. 0 \in Counters
  BY Sizes DEF Counters
<1>2. <<>> \in Batches
  <2>1. <<>> \in [1..0 -> Samples] /\ 0 \in 0..MaxBatch
    BY AudioRingAssumption
  <2> QED
    BY <2>1 DEF Batches
<1>3. <<>> \in Seq(Samples \cup {Silence}) /\ Len(<<>>) = 0 /\ 0 <= Buffer
  BY AudioRingAssumption
<1>4. ring \in [0..(Size - 1) -> Samples \cup {Silence}]
  BY DEF Init
<1>5. app \in [at : {"idle", "copying"}, left : Batches, read : Counters, write : Counters]
  BY <1>1, <1>2 DEF Init
<1>6. audio \in [at : {"idle", "loaded", "copying"}, read : Counters, write : Counters,
                out : Seq(Samples \cup {Silence})]
  BY <1>1, <1>3 DEF Init
<1> QED
  BY <1>1, <1>3, <1>4, <1>5, <1>6 DEF Init, TypeOK

LEMMA StepType == TypeOK /\ [Next]_vars => TypeOK'
<1> SUFFICES ASSUME TypeOK, [Next]_vars PROVE TypeOK'
  OBVIOUS
<1> USE DEF TypeOK
<1>0. <<>> \in Batches
  <2>1. <<>> \in [1..0 -> Samples] /\ 0 \in 0..MaxBatch
    BY AudioRingAssumption
  <2> QED
    BY <2>1 DEF Batches
<1>1. ASSUME NEW value \in BOOLEAN, SetActive(value) PROVE TypeOK'
  BY <1>1 DEF SetActive
<1>2. ASSUME NEW batch \in Batches, Submit(batch) PROVE TypeOK'
  BY <1>2 DEF Submit
<1>3. CASE Fill
  <2>1. Head(app.left) \in Samples /\ Tail(app.left) \in Batches
    BY <1>3, BatchTail DEF Fill, Room
  <2>2. Succ(app.write) \in Counters
    BY SuccIs
  <2>3. ring' \in [0..(Size - 1) -> Samples \cup {Silence}]
    BY <1>3, <2>1 DEF Fill, CopyIn
  <2> QED
    BY <1>3, <2>1, <2>2, <2>3 DEF Fill, CopyIn
<1>4. CASE Publish
  BY <1>0, <1>4 DEF Publish
<1>5. CASE Render
  <2>1. <<>> \in Seq(Samples \cup {Silence}) /\ Len(<<>>) <= Buffer
    BY AudioRingAssumption
  <2> QED
    BY <1>5, <2>1 DEF Render
<1>6. CASE LoadActive
  BY <1>6 DEF LoadActive
<1>7. CASE CopyOut
  <2> DEFINE x == IF audio.read # audio.write THEN ring[Slot(audio.read)] ELSE Silence
             r == IF audio.read # audio.write THEN Succ(audio.read) ELSE audio.read
  <2>1. x \in Samples \cup {Silence} /\ r \in Counters
    BY SlotIs, SuccIs
  <2>2. audio' = [audio EXCEPT !.out = Append(@, x), !.read = r]
    BY <1>7 DEF CopyOut
  <2> HIDE DEF x, r
  <2>3. /\ Append(audio.out, x) \in Seq(Samples \cup {Silence})
        /\ Len(Append(audio.out, x)) = Len(audio.out) + 1
    BY <2>1
  <2>4. Len(audio.out) + 1 <= Buffer
    BY <1>7, AudioRingAssumption DEF CopyOut
  <2> QED
    BY <1>7, <2>1, <2>2, <2>3, <2>4 DEF CopyOut
<1>8. CASE Enqueue
  <2>1. <<>> \in Seq(Samples \cup {Silence}) /\ Len(<<>>) <= Buffer
    BY AudioRingAssumption
  <2> QED
    BY <1>8, <2>1 DEF Enqueue
<1>9. CASE UNCHANGED vars
  BY <1>9 DEF vars
<1> QED
  BY <1>1, <1>2, <1>3, <1>4, <1>5, <1>6, <1>7, <1>8, <1>9 DEF Next, AppStep, AudioStep

(* The counters and the threads' locals keep their types.                  *)
THEOREM TypeCorrect == Spec => []TypeOK
BY InitType, StepType, PTL DEF Spec

-----------------------------------------------------------------------------
(* Where the loaded counters lie, going round from read: what the renderer *)
(* still reads is published, what the application writes is not, and a     *)
(* counter loaded from the other thread is old but within the ring.        *)
Order ==
  /\ Distance(read, write) <= Size
  /\ app.at = "copying" =>
       /\ Distance(read, write) <= Distance(read, app.write)
       /\ Distance(read, app.write) <= Distance(app.read, app.write)
       /\ Distance(app.read, app.write) <= Size
  /\ audio.at # "idle" =>
       /\ Distance(read, audio.read) <= Distance(read, audio.write)
       /\ Distance(read, audio.write) <= Distance(read, write)

LEMMA InitOrder == Init => Order
<1> SUFFICES ASSUME Init PROVE Order
  OBVIOUS
<1>1. Distance(0, 0) = 0
  BY DistanceIs, Sizes DEF Counters
<1> QED
  BY <1>1, Sizes DEF Init, Order

(* One step further from any counter that is not just behind a whole turn. *)
LEMMA DistanceSucc ==
  ASSUME NEW a \in Counters, NEW b \in Counters, Distance(a, b) < Wrap - 1
  PROVE  Distance(a, Succ(b)) = Distance(a, b) + 1
<1>1. Succ(b) \in Counters /\ Succ(b) = IF b = Wrap - 1 THEN 0 ELSE b + 1
  BY SuccIs
<1>2. /\ Distance(a, b) = IF a <= b THEN b - a ELSE b + Wrap - a
      /\ Distance(a, Succ(b)) = IF a <= Succ(b) THEN Succ(b) - a ELSE Succ(b) + Wrap - a
  BY <1>1, DistanceIs
<1> QED
  BY <1>1, <1>2, Sizes DEF Counters

(* Distances add up along a way round that is not a whole turn.            *)
LEMMA DistanceSplits ==
  ASSUME NEW a \in Counters, NEW b \in Counters, NEW c \in Counters,
         Distance(a, b) <= Distance(a, c)
  PROVE  Distance(b, c) = Distance(a, c) - Distance(a, b)
<1>1. /\ Distance(a, b) = IF a <= b THEN b - a ELSE b + Wrap - a
      /\ Distance(a, c) = IF a <= c THEN c - a ELSE c + Wrap - a
      /\ Distance(b, c) = IF b <= c THEN c - b ELSE c + Wrap - b
  BY DistanceIs
<1> QED
  BY <1>1, Sizes DEF Counters

LEMMA DistanceSame == ASSUME NEW a \in Counters PROVE Distance(a, a) = 0
<1>1. Distance(a, a) = IF a <= a THEN a - a ELSE a + Wrap - a
  BY DistanceIs
<1> QED
  BY <1>1, Sizes DEF Counters

LEMMA DistanceApart ==
  ASSUME NEW a \in Counters, NEW b \in Counters, NEW c \in Counters, b # c
  PROVE  Distance(a, b) # Distance(a, c)
<1>1. /\ Distance(a, b) = IF a <= b THEN b - a ELSE b + Wrap - a
      /\ Distance(a, c) = IF a <= c THEN c - a ELSE c + Wrap - a
  BY DistanceIs
<1> QED
  BY <1>1, Sizes DEF Counters

LEMMA StepOrder == TypeOK /\ Order /\ [Next]_vars => Order'
<1> SUFFICES ASSUME TypeOK, Order, [Next]_vars PROVE Order'
  OBVIOUS
<1>0. /\ read \in Counters /\ write \in Counters
      /\ app.read \in Counters /\ app.write \in Counters
      /\ audio.read \in Counters /\ audio.write \in Counters
  BY DEF TypeOK
<1>1. ASSUME NEW value \in BOOLEAN, SetActive(value) PROVE Order'
  BY <1>1 DEF SetActive, Order, Distance
<1>2. ASSUME NEW batch \in Batches, Submit(batch) PROVE Order'
  <2>1. app'.read = read /\ app'.write = write /\ UNCHANGED <<read, write, audio>>
    BY <1>2 DEF Submit
  <2>2. Distance(read, write) \in Nat
    BY <1>0, DistanceIs, Sizes
  <2> QED
    BY <2>1, <2>2, Sizes DEF Order, Distance
<1>3. CASE Fill
  <2>1. /\ app'.at = "copying" /\ app.at = "copying" /\ app'.read = app.read
        /\ app'.write = Succ(app.write)
        /\ UNCHANGED <<read, write, audio>>
    BY <1>3 DEF Fill, CopyIn, TypeOK
  <2>2. Distance(app.read, app.write) < Size
    BY <1>3 DEF Fill, Room
  <2>3. /\ Distance(read, write) \in Nat /\ Distance(read, app.write) \in Nat
        /\ Distance(app.read, app.write) \in Nat
    BY <1>0, DistanceIs, Sizes
  <2>4. /\ Distance(read, write) <= Distance(read, app.write)
        /\ Distance(read, app.write) <= Distance(app.read, app.write)
    BY <2>1 DEF Order
  <2>5. /\ Distance(app.read, app'.write) = Distance(app.read, app.write) + 1
        /\ Distance(read, app'.write) = Distance(read, app.write) + 1
    BY <1>0, <2>1, <2>2, <2>3, <2>4, DistanceSucc, Sizes
  <2>6. /\ Distance(read, write) <= Distance(read, app'.write)
        /\ Distance(read, app'.write) <= Distance(app'.read, app'.write)
        /\ Distance(app'.read, app'.write) <= Size
    BY <2>1, <2>2, <2>3, <2>4, <2>5, Sizes
  <2> QED
    BY <2>1, <2>6 DEF Order
<1>4. CASE Publish
  <2>1. write' = app.write /\ app'.at = "idle" /\ app.at = "copying" /\ UNCHANGED <<read, audio>>
    BY <1>4 DEF Publish, TypeOK
  <2>2. /\ Distance(read, write) \in Nat /\ Distance(read, app.write) \in Nat
        /\ Distance(app.read, app.write) \in Nat /\ Distance(read, audio.write) \in Nat
    BY <1>0, DistanceIs, Sizes
  <2>3. /\ Distance(read, app.write) <= Size
        /\ audio.at # "idle" => Distance(read, audio.write) <= Distance(read, app.write)
    BY <2>1, <2>2, Sizes DEF Order
  <2> QED
    BY <2>1, <2>3 DEF Order
<1>5. CASE Render
  <2>1. audio'.read = read /\ audio'.write = write /\ UNCHANGED <<read, write, app>>
    BY <1>5 DEF Render
  <2>2. Distance(read, read) = 0 /\ Distance(read, write) \in Nat
    BY <1>0, DistanceIs, DistanceSame, Sizes
  <2> QED
    BY <2>1, <2>2 DEF Order
<1>6. CASE LoadActive
  <2>1. /\ audio'.read \in {audio.read, audio.write} /\ audio'.write = audio.write
        /\ audio.at # "idle" /\ UNCHANGED <<read, write, app>>
    BY <1>6 DEF LoadActive, TypeOK
  <2>2. Distance(read, audio.write) \in Nat
    BY <1>0, DistanceIs, Sizes
  <2> QED
    BY <2>1, <2>2 DEF Order
<1>7. CASE CopyOut
  <2>1. /\ audio.at = "copying" /\ audio'.write = audio.write /\ UNCHANGED <<read, write, app>>
        /\ audio'.read = IF audio.read # audio.write THEN Succ(audio.read) ELSE audio.read
    BY <1>7 DEF CopyOut, TypeOK
  <2>2. /\ Distance(read, audio.read) \in Nat /\ Distance(read, audio.write) \in 0..(Wrap - 1)
        /\ Distance(read, audio.read) <= Distance(read, audio.write)
    BY <1>0, <2>1, DistanceIs, Sizes DEF Order
  <2>3. CASE audio.read # audio.write
    <3>1. Distance(read, audio.read) # Distance(read, audio.write)
      BY <1>0, <2>3, DistanceApart
    <3>2. Distance(read, Succ(audio.read)) = Distance(read, audio.read) + 1
      BY <1>0, <2>2, <3>1, DistanceSucc, Sizes
    <3>3. Distance(read, audio'.read) <= Distance(read, audio.write)
      BY <2>1, <2>2, <2>3, <3>1, <3>2, Sizes
    <3> QED
      BY <2>1, <3>3 DEF Order
  <2>4. CASE audio.read = audio.write
    BY <2>1, <2>4 DEF Order
  <2> QED
    BY <2>3, <2>4
<1>8. CASE Enqueue
  <2>1. read' = audio.read /\ audio'.at = "idle" /\ audio.at # "idle" /\ UNCHANGED <<write, app>>
    BY <1>8 DEF Enqueue, TypeOK
  <2>2. /\ Distance(read, audio.read) \in Nat /\ Distance(read, audio.write) \in Nat
        /\ Distance(read, write) \in Nat /\ Distance(read, app.write) \in Nat
        /\ Distance(app.read, app.write) \in Nat
    BY <1>0, DistanceIs, Sizes
  <2>3. Distance(read, audio.read) <= Distance(read, write)
    BY <2>1, <2>2 DEF Order
  <2>4. Distance(audio.read, write) = Distance(read, write) - Distance(read, audio.read)
    BY <1>0, <2>3, DistanceSplits
  <2>5. ASSUME app.at = "copying"
        PROVE  /\ Distance(audio.read, app.write) = Distance(read, app.write) - Distance(read, audio.read)
               /\ Distance(read, write) <= Distance(read, app.write)
               /\ Distance(read, app.write) <= Distance(app.read, app.write)
               /\ Distance(app.read, app.write) <= Size
    <3>1. Distance(read, audio.read) <= Distance(read, app.write)
      BY <2>2, <2>3, <2>5 DEF Order
    <3> QED
      BY <1>0, <2>5, <3>1, DistanceSplits DEF Order
  <2>6. Distance(audio.read, write) <= Size
    BY <2>2, <2>4, Sizes DEF Order
  <2>7. ASSUME app.at = "copying"
        PROVE  /\ Distance(audio.read, write) <= Distance(audio.read, app.write)
               /\ Distance(audio.read, app.write) <= Distance(app.read, app.write)
    BY <2>2, <2>4, <2>5, <2>7
  <2> QED
    BY <2>1, <2>5, <2>6, <2>7 DEF Order
<1>9. CASE UNCHANGED vars
  BY <1>9 DEF vars, Order
<1> QED
  BY <1>1, <1>2, <1>3, <1>4, <1>5, <1>6, <1>7, <1>8, <1>9 DEF Next, AppStep, AudioStep

LEMMA OrderMeansNoRace == TypeOK /\ Order => NoRace
<1> SUFFICES ASSUME TypeOK, Order, audio.at # "idle", app.at = "copying", Room,
                    Slot(app.write) \in SlotsBetween(audio.read, audio.write)
             PROVE  FALSE
  BY DEF NoRace, Order, Reading, Writing
<1>0. /\ read \in Counters /\ app.read \in Counters /\ app.write \in Counters
      /\ write \in Counters /\ audio.read \in Counters /\ audio.write \in Counters
  BY DEF TypeOK
<1>1. PICK i \in 1..Distance(audio.read, audio.write) :
        Slot(app.write) = SlotAt(audio.read, i - 1)
  BY DEF SlotsBetween
<1>2. /\ Distance(read, audio.read) \in Nat /\ Distance(read, audio.write) \in Nat
      /\ Distance(read, write) \in Nat /\ Distance(read, app.write) \in Nat
      /\ Distance(app.read, app.write) \in Nat
  BY <1>0, DistanceIs, Sizes
<1>3. /\ Distance(read, audio.read) <= Distance(read, audio.write)
      /\ Distance(read, audio.write) <= Distance(read, app.write)
      /\ Distance(read, app.write) < Size
  BY <1>2, Sizes DEF Order, Room
<1>4. /\ Distance(audio.read, audio.write) = Distance(read, audio.write) - Distance(read, audio.read)
      /\ Distance(audio.read, app.write) = Distance(read, app.write) - Distance(read, audio.read)
  BY <1>0, <1>2, <1>3, DistanceSplits
<1>5. i - 1 \in Nat /\ i - 1 < Distance(audio.read, app.write) /\ Distance(audio.read, app.write) < Size
  BY <1>1, <1>2, <1>3, <1>4, Sizes
<1> QED
  BY <1>0, <1>1, <1>5, SlotElsewhere

(* No slot is written by one thread while it is the other's to read.       *)
THEOREM RaceFree == Spec => []NoRace
<1>1. Init => TypeOK /\ Order
  BY InitType, InitOrder
<1>2. TypeOK /\ Order /\ [Next]_vars => TypeOK' /\ Order'
  BY StepType, StepOrder
<1> QED
  BY <1>1, <1>2, OrderMeansNoRace, PTL DEF Spec

-----------------------------------------------------------------------------
(* What the slots hold: samples where the application has written, and in  *)
(* the buffer being filled the first samples of the queue and then silence *)
(* only, or silence only if the sound was off.                             *)
Prefix ==
  /\ Distance(read, audio.read) <= Len(audio.out)
  /\ Distance(read, audio.read) < Len(audio.out) => audio.read = audio.write
  /\ \A i \in 1..Len(audio.out) :
       audio.out[i] = IF i <= Distance(read, audio.read) THEN ring[SlotAt(read, i - 1)] ELSE Silence

Silent ==
  /\ audio.read = audio.write
  /\ \A i \in 1..Len(audio.out) : audio.out[i] = Silence

Content ==
  /\ app.at = "copying" =>
       \A i \in 1..Distance(write, app.write) : ring[SlotAt(write, i - 1)] \in Samples
  /\ audio.at = "loaded" => audio.read = read /\ audio.out = <<>>
  /\ audio.at = "copying" => Prefix \/ Silent

LEMMA AheadDistance ==
  ASSUME NEW a \in Counters, NEW b \in Counters
  PROVE  SlotAt(a, Distance(a, b)) = Slot(b)
<1> DEFINE d == Distance(a, b)
           c == (a + d) % Wrap
<1>1. d \in 0..(Wrap - 1)
  BY DistanceIs
<1> HIDE DEF d
<1>2. c \in Counters /\ Distance(a, c) = d
  BY <1>1, AheadIs
<1> HIDE DEF c
<1>3. c = b
  BY <1>2, DistanceApart DEF d
<1> QED
  BY <1>3 DEF SlotAt, c, d

LEMMA InitContent == Init => Content
BY DEF Init, Content

LEMMA FillContent == TypeOK /\ Order /\ Content /\ Fill => Content'
<1> SUFFICES ASSUME TypeOK, Order, Content, Fill PROVE Content'
  OBVIOUS
<1>0. /\ read \in Counters /\ app.read \in Counters /\ app.write \in Counters
      /\ write \in Counters /\ audio.read \in Counters /\ audio.write \in Counters
      /\ ring \in [0..(Size - 1) -> Samples \cup {Silence}]
  BY DEF TypeOK
<1>1. /\ app.at = "copying" /\ app.left \in Batches /\ app.left # <<>>
      /\ Distance(app.read, app.write) < Size
      /\ app'.write = Succ(app.write) /\ app'.at = "copying"
      /\ ring' = [ring EXCEPT ![Slot(app.write)] = Head(app.left)]
      /\ UNCHANGED <<read, write, audio>>
  BY DEF Fill, Room, CopyIn, TypeOK
<1>2. /\ Distance(read, write) \in Nat /\ Distance(read, app.write) \in Nat
      /\ Distance(app.read, app.write) \in Nat
      /\ Distance(read, audio.read) \in Nat /\ Distance(read, audio.write) \in Nat
  BY <1>0, DistanceNat
<1>3. /\ Distance(read, write) <= Distance(read, app.write)
      /\ Distance(read, app.write) < Size
      /\ audio.at # "idle" => Distance(read, audio.read) <= Distance(read, app.write)
  BY <1>1, <1>2, Sizes DEF Order
<1>4. Distance(write, app.write) \in Nat /\ Distance(write, app.write) < Size
  <2>1. Distance(write, app.write) = Distance(read, app.write) - Distance(read, write)
    BY <1>0, <1>3, DistanceSplits
  <2> QED
    BY <1>2, <1>3, <2>1, Sizes
<1>5. Distance(write, app'.write) = Distance(write, app.write) + 1
  BY <1>0, <1>1, <1>4, DistanceSucc, Sizes
<1>6. /\ ring'[Slot(app.write)] \in Samples
      /\ \A x \in 0..(Size - 1) : x # Slot(app.write) => ring'[x] = ring[x]
  BY <1>0, <1>1, BatchTail, SlotIs
<1>7. ASSUME NEW a \in Counters, NEW i \in 1..Distance(a, app.write), Distance(a, app.write) < Size
      PROVE  ring'[SlotAt(a, i - 1)] = ring[SlotAt(a, i - 1)]
  <2>1. Distance(a, app.write) \in 0..(Wrap - 1)
    BY <1>0, DistanceIs
  <2>2. i - 1 \in Nat /\ i - 1 < Distance(a, app.write) /\ i - 1 \in 0..(Wrap - 1)
    BY <2>1, Sizes
  <2>3. SlotAt(a, i - 1) # Slot(app.write)
    BY <1>0, <1>7, <2>2, SlotElsewhere
  <2>4. SlotAt(a, i - 1) \in 0..(Size - 1)
    BY <2>2, AheadIs, SlotIs DEF SlotAt
  <2> QED
    BY <1>6, <2>3, <2>4
<1>8. ASSUME NEW i \in 1..Distance(write, app'.write)
      PROVE  ring'[SlotAt(write, i - 1)] \in Samples
  <2>1. CASE i = Distance(write, app'.write)
    <3>1. i - 1 = Distance(write, app.write)
      BY <1>4, <1>5, <2>1
    <3> QED
      BY <1>0, <1>6, <3>1, AheadDistance
  <2>2. CASE i # Distance(write, app'.write)
    <3>1. i \in 1..Distance(write, app.write)
      BY <1>4, <1>5, <2>2
    <3> QED
      BY <1>0, <1>1, <1>4, <1>7, <3>1 DEF Content
  <2> QED
    BY <2>1, <2>2
<1>9. ASSUME audio.at = "copying", Prefix
      PROVE  Prefix'
  <2> DEFINE d == Distance(read, audio.read)
  <2>1. d \in Nat /\ d <= Distance(read, app.write)
    BY <1>2, <1>3, <1>9
  <2>2. ASSUME NEW i \in 1..Len(audio.out), i <= d
        PROVE  ring'[SlotAt(read, i - 1)] = ring[SlotAt(read, i - 1)]
    <3>1. i \in 1..Distance(read, app.write)
      BY <1>2, <2>1, <2>2
    <3> QED
      BY <1>0, <1>3, <1>7, <3>1
  <2>3. audio' = audio /\ Distance(read', audio'.read) = d
    BY <1>1
  <2> QED
    BY <1>1, <1>9, <2>2, <2>3 DEF Prefix, SlotAt
<1>10. Silent => Silent'
  BY <1>1 DEF Silent
<1> QED
  BY <1>1, <1>8, <1>9, <1>10 DEF Content

LEMMA CopyOutContent == TypeOK /\ Order /\ Content /\ CopyOut => Content'
<1> SUFFICES ASSUME TypeOK, Order, Content, CopyOut PROVE Content'
  OBVIOUS
<1> DEFINE d == Distance(read, audio.read)
           x == IF audio.read # audio.write THEN ring[Slot(audio.read)] ELSE Silence
           r == IF audio.read # audio.write THEN Succ(audio.read) ELSE audio.read
           n == Len(audio.out)
<1>0. /\ read \in Counters /\ audio.read \in Counters /\ audio.write \in Counters
      /\ ring \in [0..(Size - 1) -> Samples \cup {Silence}]
      /\ audio.out \in Seq(Samples \cup {Silence}) /\ n \in Nat
  BY DEF TypeOK
<1>1. /\ audio.at = "copying" /\ audio'.at = "copying" /\ UNCHANGED <<ring, read, write, app>>
      /\ audio'.out = Append(audio.out, x) /\ audio'.read = r /\ audio'.write = audio.write
  BY DEF CopyOut, TypeOK
<1>2. x \in Samples \cup {Silence}
  BY <1>0, SlotIs
<1>3. /\ Len(audio'.out) = n + 1 /\ audio'.out[n + 1] = x
      /\ \A i \in 1..n : audio'.out[i] = audio.out[i]
  <2> HIDE DEF x
  <2> QED
    BY <1>0, <1>1, <1>2
<1>4. d \in Nat /\ SlotAt(read, d) = Slot(audio.read)
  BY <1>0, DistanceNat, AheadDistance
<1>5. ASSUME Silent PROVE Silent'
  <2>1. x = Silence /\ audio'.read = audio'.write
    BY <1>1, <1>5 DEF Silent
  <2> HIDE DEF x
  <2>2. ASSUME NEW i \in 1..(n + 1) PROVE audio'.out[i] = Silence
    <3>1. CASE i = n + 1
      BY <1>3, <2>1, <3>1
    <3>2. CASE i # n + 1
      BY <1>0, <1>3, <1>5, <3>2 DEF Silent
    <3> QED
      BY <3>1, <3>2
  <2> QED
    BY <1>3, <2>1, <2>2 DEF Silent
<1>6. ASSUME Prefix, audio.read = audio.write PROVE Prefix'
  <2>1. d <= n /\ audio'.read = audio.read /\ x = Silence
    BY <1>1, <1>6 DEF Prefix
  <2> HIDE DEF x
  <2>2. ASSUME NEW i \in 1..(n + 1)
        PROVE  audio'.out[i] = IF i <= d THEN ring[SlotAt(read, i - 1)] ELSE Silence
    <3>1. CASE i = n + 1
      BY <1>0, <1>3, <1>4, <2>1, <3>1
    <3>2. CASE i # n + 1
      <4>1. i \in 1..n
        BY <1>0, <3>2
      <4> QED
        BY <1>3, <1>6, <4>1 DEF Prefix
    <3> QED
      BY <3>1, <3>2
  <2>3. Distance(read', audio'.read) = d
    BY <1>1, <2>1
  <2> HIDE DEF d
  <2>4. d <= n + 1
    BY <1>0, <1>4, <2>1
  <2> QED
    BY <1>1, <1>3, <1>6, <2>1, <2>2, <2>3, <2>4 DEF Prefix, SlotAt
<1>7. ASSUME Prefix, audio.read # audio.write PROVE Prefix'
  <2>1. d = n
    BY <1>0, <1>4, <1>7 DEF Prefix
  <2>2. Distance(read, audio.read) < Wrap - 1
    <3>1. /\ d <= Distance(read, audio.write) /\ d # Distance(read, audio.write)
          /\ Distance(read, audio.write) \in 0..(Wrap - 1)
      BY <1>0, <1>1, <1>7, DistanceApart, DistanceIs DEF Order
    <3> QED
      BY <1>4, <3>1, Sizes
  <2>3. Distance(read, audio'.read) = d + 1
    BY <1>0, <1>1, <1>7, <2>2, DistanceSucc
  <2>4. x = ring[SlotAt(read, d)]
    BY <1>4, <1>7
  <2> HIDE DEF x, d
  <2>5. ASSUME NEW i \in 1..(n + 1)
        PROVE  audio'.out[i] = ring[SlotAt(read, i - 1)]
    <3>1. CASE i = n + 1
      <4>1. i - 1 = d
        BY <1>0, <2>1, <3>1
      <4> QED
        BY <1>3, <2>4, <3>1, <4>1
    <3>2. CASE i # n + 1
      <4>1. i \in 1..n /\ i <= d
        BY <1>0, <2>1, <3>2
      <4> QED
        BY <1>3, <1>7, <4>1 DEF Prefix, d
    <3> QED
      BY <3>1, <3>2
  <2> QED
    BY <1>0, <1>1, <1>3, <2>1, <2>3, <2>5 DEF Prefix, SlotAt
<1> QED
  BY <1>1, <1>5, <1>6, <1>7 DEF Content

LEMMA StepContent == TypeOK /\ Order /\ Content /\ [Next]_vars => Content'
<1> SUFFICES ASSUME TypeOK, Order, Content, [Next]_vars PROVE Content'
  OBVIOUS
<1>0. read \in Counters /\ write \in Counters /\ audio.read \in Counters
  BY DEF TypeOK
<1>1. ASSUME NEW value \in BOOLEAN, SetActive(value) PROVE Content'
  BY <1>1 DEF SetActive, Content, Prefix, Silent, SlotAt
<1>2. ASSUME NEW batch \in Batches, Submit(batch) PROVE Content'
  <2>1. app'.write = write /\ UNCHANGED <<ring, read, write, audio>>
    BY <1>2 DEF Submit
  <2>2. Distance(write, app'.write) = 0 /\ write' = write
    BY <1>0, <2>1, DistanceSame
  <2> QED
    BY <2>1, <2>2 DEF Content, Prefix, Silent, SlotAt
<1>3. CASE Publish
  <2>1. app'.at = "idle" /\ UNCHANGED <<ring, read, audio>>
    BY <1>3 DEF Publish, TypeOK
  <2> QED
    BY <2>1 DEF Content, Prefix, Silent, SlotAt
<1>4. CASE Render
  <2>1. /\ audio'.at = "loaded" /\ audio'.read = read /\ audio'.out = <<>>
        /\ UNCHANGED <<ring, read, write, app>>
    BY <1>4 DEF Render
  <2> QED
    BY <2>1 DEF Content, SlotAt
<1>5. CASE LoadActive
  <2>1. /\ audio'.at = "copying" /\ audio.read = read /\ audio.out = <<>> /\ audio'.out = <<>>
        /\ audio'.write = audio.write /\ UNCHANGED <<ring, read, write, app>>
        /\ audio'.read = IF active THEN audio.read ELSE audio.write
    BY <1>5 DEF LoadActive, TypeOK, Content
  <2>2. Len(audio'.out) = 0 /\ 1..0 = {} /\ Distance(read, read) = 0
    BY <1>0, <2>1, DistanceSame
  <2>3. CASE active
    BY <2>1, <2>2, <2>3 DEF Content, Prefix, SlotAt
  <2>4. CASE ~active
    BY <2>1, <2>2, <2>4 DEF Content, Silent, SlotAt
  <2> QED
    BY <2>3, <2>4
<1>6. CASE Enqueue
  <2>1. audio'.at = "idle" /\ UNCHANGED <<ring, write, app>>
    BY <1>6 DEF Enqueue, TypeOK
  <2> QED
    BY <2>1 DEF Content, SlotAt
<1>7. CASE UNCHANGED vars
  BY <1>7 DEF vars, Content, Prefix, Silent, SlotAt
<1> QED
  BY <1>1, <1>2, <1>3, <1>4, <1>5, <1>6, <1>7, FillContent, CopyOutContent DEF Next, AppStep, AudioStep

-----------------------------------------------------------------------------
(* The refinement of SampleFifo.                                           *)

Values == Samples \cup {Silence}
Rings == [0..(Size - 1) -> Values]
SamplesIn(g, a, b) == [i \in 1..Distance(a, b) |-> g[SlotAt(a, i - 1)]]

LEMMA SamplesAre ==
  ASSUME NEW g \in Rings, NEW a \in Counters, NEW b \in Counters
  PROVE  /\ SamplesIn(g, a, b) \in Seq(Values)
         /\ Len(SamplesIn(g, a, b)) = Distance(a, b)
         /\ \A i \in 1..Distance(a, b) :
              SamplesIn(g, a, b)[i] = g[SlotAt(a, i - 1)] /\ g[SlotAt(a, i - 1)] \in Values
<1>1. Distance(a, b) \in Nat /\ Distance(a, b) < Wrap
  BY DistanceIs, DistanceNat, Sizes
<1>2. ASSUME NEW i \in 1..Distance(a, b) PROVE g[SlotAt(a, i - 1)] \in Values
  <2>1. i - 1 \in 0..(Wrap - 1)
    BY <1>1, Sizes
  <2>2. SlotAt(a, i - 1) \in 0..(Size - 1)
    BY <2>1, AheadIs, SlotIs DEF SlotAt
  <2> QED
    BY <2>2 DEF Rings
<1> QED
  BY <1>1, <1>2 DEF SamplesIn

(* From an offset past b, it is the same to start at b.                    *)
LEMMA AheadSplits ==
  ASSUME NEW a \in Counters, NEW b \in Counters, NEW j \in 0..(Wrap - 1), Distance(a, b) <= j
  PROVE  SlotAt(a, j) = SlotAt(b, j - Distance(a, b))
<1> DEFINE c == (a + j) % Wrap
           k == j - Distance(a, b)
           e == (b + k) % Wrap
<1>1. c \in Counters /\ Distance(a, c) = j
  BY AheadIs
<1>2. k \in 0..(Wrap - 1)
  BY DistanceNat, Sizes
<1> HIDE DEF c
<1>3. Distance(b, c) = k
  BY <1>1, DistanceSplits
<1> HIDE DEF k
<1>4. e \in Counters /\ Distance(b, e) = k
  BY <1>2, AheadIs
<1> HIDE DEF e
<1>5. c = e
  BY <1>1, <1>3, <1>4, DistanceApart
<1> QED
  BY <1>5 DEF SlotAt, c, k, e

(* The samples up to c are those up to b and those from b.                 *)
LEMMA SamplesSplit ==
  ASSUME NEW g \in Rings, NEW a \in Counters, NEW b \in Counters, NEW c \in Counters,
         Distance(a, b) <= Distance(a, c)
  PROVE  SamplesIn(g, a, c) = SamplesIn(g, a, b) \o SamplesIn(g, b, c)
<1> DEFINE s == SamplesIn(g, a, b)  t == SamplesIn(g, b, c)  u == SamplesIn(g, a, c)
           m == Distance(a, b)  n == Distance(a, c)
<1>1. /\ s \in Seq(Values) /\ Len(s) = m
      /\ t \in Seq(Values) /\ Len(t) = Distance(b, c)
      /\ u \in Seq(Values) /\ Len(u) = n
  BY SamplesAre
<1>2. Distance(b, c) = n - m /\ m \in Nat /\ n \in 0..(Wrap - 1) /\ m <= n
  BY DistanceSplits, DistanceIs, DistanceNat
<1>3. ASSUME NEW i \in 1..n
      PROVE  u[i] = IF i <= m THEN s[i] ELSE t[i - m]
  <2>1. CASE i <= m
    <3>1. i \in 1..m
      BY <1>2, <2>1
    <3>2. s[i] = g[SlotAt(a, i - 1)] /\ u[i] = g[SlotAt(a, i - 1)]
      BY <3>1, SamplesAre
    <3> QED
      BY <2>1, <3>2
  <2>2. CASE ~ (i <= m)
    <3>1. i - m \in 1..Distance(b, c) /\ i - 1 \in 0..(Wrap - 1) /\ m <= i - 1
      <4> HIDE DEF m, n
      <4>1. i \in Nat /\ m \in Nat /\ i > m /\ i <= n /\ n <= Wrap - 1
        BY <1>2, <2>2, Sizes
      <4>2. i - m \in 1..(n - m) /\ m <= i - 1 /\ i - 1 \in 0..(Wrap - 1)
        BY <1>2, <4>1, Sizes
      <4> QED
        BY <1>2, <4>2
    <3>2. t[i - m] = g[SlotAt(b, (i - m) - 1)] /\ u[i] = g[SlotAt(a, i - 1)]
      BY <3>1, SamplesAre
    <3>3. SlotAt(a, i - 1) = SlotAt(b, (i - 1) - m)
      BY <3>1, AheadSplits
    <3>4. (i - m) - 1 = (i - 1) - m
      BY <1>2
    <3> QED
      BY <2>2, <3>2, <3>3, <3>4
  <2> QED
    BY <2>1, <2>2
<1> HIDE DEF s, t, u, m, n
<1>4. /\ s \o t \in Seq(Values) /\ Len(s \o t) = Len(s) + Len(t)
      /\ \A i \in 1..(Len(s) + Len(t)) : (s \o t)[i] = IF i <= Len(s) THEN s[i] ELSE t[i - Len(s)]
  BY <1>1, ConcatProperties
<1>5. Len(s \o t) = n
  BY <1>1, <1>2, <1>4
<1>6. \A i \in 1..n : u[i] = (s \o t)[i]
  BY <1>1, <1>2, <1>3, <1>4
<1>7. u = s \o t
  BY <1>1, <1>4, <1>5, <1>6, SeqEqual
<1> QED
  BY <1>7 DEF s, t, u

LEMMA QueueIs == Between(read, write) = SamplesIn(ring, read, write)
BY DEF Between, SamplesIn

LEMMA InitFifo == Init => Fifo!Init
<1> SUFFICES ASSUME Init PROVE Fifo!Init
  OBVIOUS
<1>1. Distance(read, write) = 0
  BY DistanceSame, Sizes DEF Init, Counters
<1>2. Between(read, write) = <<>>
  BY <1>1 DEF Between
<1> QED
  BY <1>2 DEF Fifo!Init, Init

LEMMA FillFifo == TypeOK /\ Order /\ Fill => Between(read, write)' = Between(read, write)
<1> SUFFICES ASSUME TypeOK, Order, Fill PROVE Between(read, write)' = Between(read, write)
  OBVIOUS
<1>0. /\ read \in Counters /\ write \in Counters /\ app.write \in Counters
      /\ app.read \in Counters /\ ring \in Rings
  BY DEF TypeOK, Rings, Values
<1>1. /\ app.at = "copying" /\ Distance(app.read, app.write) < Size /\ UNCHANGED <<read, write>>
      /\ ring' = [ring EXCEPT ![Slot(app.write)] = Head(app.left)]
  BY DEF Fill, Room, CopyIn
<1>2. /\ Distance(read, write) <= Distance(read, app.write)
      /\ Distance(read, app.write) <= Distance(app.read, app.write)
  BY <1>1 DEF Order
<1>3. /\ Distance(read, write) \in Nat /\ Distance(read, app.write) \in Nat
      /\ Distance(read, app.write) < Size
  BY <1>0, <1>1, <1>2, DistanceNat, Sizes
<1>4. ASSUME NEW i \in 1..Distance(read, write)
      PROVE  ring'[SlotAt(read, i - 1)] = ring[SlotAt(read, i - 1)]
  <2>1. i - 1 \in Nat /\ i - 1 < Distance(read, app.write) /\ i - 1 \in 0..(Wrap - 1)
    BY <1>2, <1>3, Sizes
  <2>2. SlotAt(read, i - 1) # Slot(app.write)
    BY <1>0, <1>3, <2>1, SlotElsewhere
  <2>3. SlotAt(read, i - 1) \in 0..(Size - 1)
    BY <1>0, <2>1, AheadIs, SlotIs DEF SlotAt
  <2> QED
    BY <1>0, <1>1, <2>2, <2>3 DEF Rings
<1>5. Between(read, write)' = [i \in 1..Distance(read, write) |-> ring'[SlotAt(read, i - 1)]]
  BY <1>1 DEF Between, SlotAt, Slot, Distance
<1> QED
  BY <1>4, <1>5 DEF Between

LEMMA PublishFifo ==
  TypeOK /\ Order /\ Content /\ Publish
    => Fifo!Submit \/ UNCHANGED <<Between(read, write), device>>
<1> SUFFICES ASSUME TypeOK, Order, Content, Publish
             PROVE  Fifo!Submit \/ UNCHANGED <<Between(read, write), device>>
  OBVIOUS
<1> DEFINE q == SamplesIn(ring, read, write)
           b == SamplesIn(ring, write, app.write)
           n == Distance(write, app.write)
<1>0. /\ read \in Counters /\ write \in Counters /\ app.write \in Counters
      /\ app.read \in Counters /\ ring \in Rings
  BY DEF TypeOK, Rings, Values
<1>1. /\ app.at = "copying" /\ write' = app.write /\ UNCHANGED <<ring, read, device>>
  BY DEF Publish
<1>2. /\ Distance(read, write) <= Distance(read, app.write)
      /\ Distance(read, app.write) <= Distance(app.read, app.write)
      /\ Distance(app.read, app.write) <= Size
  BY <1>1 DEF Order
<1>3. /\ Distance(read, write) \in Nat /\ Distance(read, app.write) \in Nat
      /\ Distance(app.read, app.write) \in Nat /\ n \in Nat
      /\ n = Distance(read, app.write) - Distance(read, write)
  BY <1>0, <1>2, DistanceNat, DistanceSplits
<1>4. /\ Len(q) = Distance(read, write) /\ Len(b) = n /\ b \in Seq(Values) /\ q \in Seq(Values)
  BY <1>0, SamplesAre
<1>5. Between(read, write)' = SamplesIn(ring, read, app.write)
  BY <1>1 DEF Between, SamplesIn, SlotAt, Slot, Distance
<1>6. SamplesIn(ring, read, app.write) = q \o b
  BY <1>0, <1>2, SamplesSplit
<1>7. b \in [1..n -> Samples]
  <2>1. b = [i \in 1..n |-> ring[SlotAt(write, i - 1)]]
    BY DEF SamplesIn
  <2>2. \A i \in 1..n : ring[SlotAt(write, i - 1)] \in Samples
    BY <1>1 DEF Content
  <2> HIDE DEF b, n
  <2> QED
    BY <2>1, <2>2
<1>8. n <= Size - Len(q)
  BY <1>2, <1>3, <1>4, Sizes
<1> HIDE DEF q, b, n
<1>9. CASE n = 0
  <2>1. b = <<>>
    BY <1>4, <1>9
  <2>2. q \o b = q
    BY <1>4, <2>1
  <2> QED
    BY <1>1, <1>5, <1>6, <2>2, QueueIs DEF q
<1>10. CASE n # 0
  <2>1. n \in 1..(Size - Len(q))
    BY <1>3, <1>4, <1>8, <1>10, Sizes
  <2>2. Between(read, write)' = Between(read, write) \o b /\ Between(read, write) = q
    BY <1>5, <1>6, QueueIs DEF q
  <2> QED
    BY <1>1, <1>7, <2>1, <2>2 DEF Fifo!Submit
<1> QED
  BY <1>9, <1>10

LEMMA Parts ==
  ASSUME NEW V, NEW s \in Seq(V), NEW t \in Seq(V)
  PROVE  /\ SubSeq(s \o t, 1, Len(s)) = s
         /\ SubSeq(s \o t, Len(s) + 1, Len(s \o t)) = t
<1> DEFINE q == s \o t  m == Len(s)  n == Len(t)
<1>1. m \in Nat /\ n \in Nat
  OBVIOUS
<1>2. /\ q \in Seq(V) /\ Len(q) = m + n
      /\ \A i \in 1..(m + n) : q[i] = IF i <= m THEN s[i] ELSE t[i - m]
  BY ConcatProperties
<1>3. \A i \in 1..(m + n) : q[i] \in V
  BY <1>2, ElementOfSeq
<1> HIDE DEF q, m, n
<1>4. SubSeq(q, 1, m) = s
  <2>1. /\ SubSeq(q, 1, m) \in Seq(V)
        /\ Len(SubSeq(q, 1, m)) = IF 1 <= m THEN m - 1 + 1 ELSE 0
        /\ \A i \in 1..(m - 1 + 1) : SubSeq(q, 1, m)[i] = q[1 + i - 1]
    BY <1>1, <1>3, SubSeqProperties
  <2>2. Len(SubSeq(q, 1, m)) = m
    BY <1>1, <2>1
  <2>3. \A i \in 1..m : SubSeq(q, 1, m)[i] = s[i]
    BY <1>1, <1>2, <2>1
  <2> QED
    BY <2>1, <2>2, <2>3, SeqEqual DEF m
<1>5. SubSeq(q, m + 1, m + n) = t
  <2>1. /\ SubSeq(q, m + 1, m + n) \in Seq(V)
        /\ Len(SubSeq(q, m + 1, m + n)) = IF m + 1 <= m + n THEN (m + n) - (m + 1) + 1 ELSE 0
        /\ \A i \in 1..((m + n) - (m + 1) + 1) : SubSeq(q, m + 1, m + n)[i] = q[(m + 1) + i - 1]
    BY <1>1, <1>3, SubSeqProperties
  <2>2. Len(SubSeq(q, m + 1, m + n)) = n
    BY <1>1, <2>1
  <2>3. ASSUME NEW i \in 1..n PROVE SubSeq(q, m + 1, m + n)[i] = t[i]
    <3>1. (m + n) - (m + 1) + 1 = n /\ (m + 1) + i - 1 = m + i
      BY <1>1
    <3>2. SubSeq(q, m + 1, m + n)[i] = q[m + i]
      BY <2>1, <3>1
    <3>3. m + i \in 1..(m + n) /\ ~ (m + i <= m) /\ (m + i) - m = i
      BY <1>1
    <3> QED
      BY <1>2, <3>2, <3>3
  <2> QED
    BY <2>1, <2>2, <2>3, SeqEqual DEF n
<1> QED
  BY <1>2, <1>4, <1>5 DEF q, m, n

LEMMA EnqueueFifo ==
  TypeOK /\ Order /\ Content /\ Enqueue => Fifo!Play \/ Fifo!Discard
<1> SUFFICES ASSUME TypeOK, Order, Content, Enqueue PROVE Fifo!Play \/ Fifo!Discard
  OBVIOUS
<1> DEFINE q == SamplesIn(ring, read, write)
           s == SamplesIn(ring, read, audio.read)
           t == SamplesIn(ring, audio.read, write)
           n == Distance(read, audio.read)
<1>0. /\ read \in Counters /\ write \in Counters /\ audio.read \in Counters
      /\ audio.write \in Counters /\ ring \in Rings
      /\ audio.out \in Seq(Values)
  BY DEF TypeOK, Rings, Values
<1>1. /\ audio.at = "copying" /\ Len(audio.out) = Buffer /\ read' = audio.read
      /\ device' = audio.out /\ UNCHANGED <<ring, write>>
  BY DEF Enqueue
<1>2. n <= Distance(read, write)
  <2>1. /\ n <= Distance(read, audio.write) /\ Distance(read, audio.write) <= Distance(read, write)
    BY <1>1 DEF Order
  <2>2. n \in Nat /\ Distance(read, audio.write) \in Nat /\ Distance(read, write) \in Nat
    BY <1>0, DistanceNat
  <2> QED
    BY <2>1, <2>2
<1>3. n \in Nat /\ Distance(read, write) \in Nat
  BY <1>0, DistanceNat
<1>4. /\ q = s \o t /\ q \in Seq(Values) /\ Len(q) = Distance(read, write)
      /\ s \in Seq(Values) /\ Len(s) = n /\ t \in Seq(Values)
  <2>1. q = s \o t
    BY <1>0, <1>2, SamplesSplit
  <2>2. q \in Seq(Values) /\ Len(q) = Distance(read, write)
    BY <1>0, SamplesAre
  <2>3. s \in Seq(Values) /\ Len(s) = n /\ t \in Seq(Values)
    BY <1>0, SamplesAre
  <2> QED
    BY <2>1, <2>2, <2>3
<1>5. Between(read, write)' = t
  BY <1>1 DEF Between, SamplesIn, SlotAt, Slot, Distance
<1>6. /\ \A i \in 1..n : s[i] = ring[SlotAt(read, i - 1)]
  BY <1>0, SamplesAre
<1>7. Prefix => n <= Len(audio.out) /\ \A i \in 1..Len(audio.out) :
                  audio.out[i] = IF i <= n THEN ring[SlotAt(read, i - 1)] ELSE Silence
  BY DEF Prefix
<1> HIDE DEF q, s, t, n
<1>8. SubSeq(q, 1, n) = s /\ SubSeq(q, n + 1, Len(q)) = t
  BY <1>4, Parts
<1>9. n \in 0..Len(q) /\ Fifo!Remove(n) /\ Between(read, write) = q
  BY <1>2, <1>3, <1>4, <1>5, <1>8, QueueIs DEF Fifo!Remove, q
<1>10. audio.out = [i \in 1..Buffer |-> audio.out[i]]
  BY <1>0, <1>1
<1>11. CASE Prefix
  <2>1. ASSUME NEW i \in 1..Buffer
        PROVE  audio.out[i] = IF i <= Len(s) THEN s[i] ELSE Silence
    <3>1. audio.out[i] = IF i <= n THEN ring[SlotAt(read, i - 1)] ELSE Silence
      BY <1>1, <1>7, <1>11
    <3>2. CASE i <= n
      <4>1. i \in 1..n
        BY <1>3, <3>2
      <4> QED
        BY <1>4, <1>6, <3>1, <3>2, <4>1
    <3>3. CASE ~ (i <= n)
      BY <1>4, <3>1, <3>3
    <3> QED
      BY <3>2, <3>3
  <2>2. audio.out = Fifo!Padded(s)
    BY <1>10, <2>1 DEF Fifo!Padded
  <2>3. n <= Buffer
    BY <1>1, <1>7, <1>11
  <2> QED
    BY <1>1, <1>8, <1>9, <2>2, <2>3 DEF Fifo!Play
<1>12. CASE Silent
  <2>1. \A i \in 1..Buffer : audio.out[i] = IF i <= 0 THEN <<>>[i] ELSE Silence
    BY <1>1, <1>12, AudioRingAssumption DEF Silent
  <2>2. Len(<<>>) = 0
    OBVIOUS
  <2>3. audio.out = Fifo!Padded(<<>>)
    BY <1>10, <2>1, <2>2 DEF Fifo!Padded
  <2> QED
    BY <1>1, <1>9, <2>3 DEF Fifo!Discard
<1> QED
  BY <1>1, <1>11, <1>12 DEF Content

LEMMA StepFifo ==
  TypeOK /\ Order /\ Content /\ [Next]_vars => [Fifo!Next]_<<Between(read, write), device>>
<1> SUFFICES ASSUME TypeOK, Order, Content, [Next]_vars
             PROVE  [Fifo!Next]_<<Between(read, write), device>>
  OBVIOUS
<1>1. ASSUME UNCHANGED <<ring, read, write, device>>
      PROVE  UNCHANGED <<Between(read, write), device>>
  BY <1>1 DEF Between, SlotAt, Slot, Distance
<1>2. CASE \E value \in BOOLEAN : SetActive(value)
  BY <1>1, <1>2 DEF SetActive
<1>3. CASE \E batch \in Batches : Submit(batch)
  BY <1>1, <1>3 DEF Submit
<1>4. CASE Render \/ LoadActive \/ CopyOut
  BY <1>1, <1>4 DEF Render, LoadActive, CopyOut
<1>5. CASE Fill
  BY <1>5, FillFifo DEF Fill, CopyIn
<1>6. CASE Publish
  BY <1>6, PublishFifo DEF Fifo!Next
<1>7. CASE Enqueue
  BY <1>7, EnqueueFifo DEF Fifo!Next
<1>8. CASE UNCHANGED vars
  BY <1>1, <1>8 DEF vars
<1> QED
  BY <1>2, <1>3, <1>4, <1>5, <1>6, <1>7, <1>8 DEF Next, AppStep, AudioStep

(* The lock-free ring is a bounded queue of samples.                       *)
THEOREM Refinement == Spec => ImplementsFifo
<1>1. Init => TypeOK /\ Order /\ Content /\ Fifo!Init
  BY InitType, InitOrder, InitContent, InitFifo
<1>2. TypeOK /\ Order /\ Content /\ [Next]_vars => TypeOK' /\ Order' /\ Content'
  BY StepType, StepOrder, StepContent
<1>3. TypeOK /\ Order /\ Content /\ [Next]_vars => [Fifo!Next]_<<Between(read, write), device>>
  BY StepFifo
<1> QED
  BY <1>1, <1>2, <1>3, PTL DEF Spec, ImplementsFifo, Fifo!Spec
=============================================================================
