--------------------------- MODULE InterruptsProofs ---------------------------
(***************************************************************************)
(* Theorems about Interrupts, for every choice of the constants: any set   *)
(* of requests, keys and empty vectors, any nesting and any quarter.       *)
(***************************************************************************)
EXTENDS Interrupts, SequenceTheorems, TLAPS

(* Among the requests of a set that is not empty one comes first.          *)
LEMMA FirstIn ==
  ASSUME NEW S, S \subseteq Requests, S # {}
  PROVE  First(S) \in S
<1>1. DOMAIN Priority = 1..13
  BY DEF Priority
<1>2. \E i \in 1..13 : Priority[i] \in S
  BY <1>1 DEF Requests
<1>3. \E i \in 1..13 : Leads(i, S)
  <2> DEFINE Free(n) == \A j \in 1..n : Priority[j] \notin S
  <2>1. SUFFICES ASSUME \A i \in 1..13 : ~Leads(i, S) PROVE Free(13)
    BY <1>2
  <2>2. Free(0) /\ \A n \in 0..12 : Free(n) => Free(n + 1)
    BY <2>1 DEF Leads
  <2> HIDE DEF Free
  <2>3. Free(1) /\ Free(2) /\ Free(3) /\ Free(4) /\ Free(5) /\ Free(6) /\ Free(7)
    BY <2>2
  <2> QED
    BY <2>2, <2>3
<1> QED
  BY <1>1, <1>3 DEF First, Leads

(* A frame pushed on a stack.                                              *)
LEMMA Pushed ==
  ASSUME NEW f \in Frames, NEW st \in Seq(Frames)
  PROVE  /\ <<f>> \o st \in Seq(Frames)
         /\ Len(<<f>> \o st) = Len(st) + 1
         /\ \A i \in 1..(Len(st) + 1) : (<<f>> \o st)[i] = IF i = 1 THEN f ELSE st[i - 1]
OBVIOUS

LEMMA VectorsApart == ASSUME NEW s \in Requests PROVE Vector(s) \in Vectors
BY DEF Vectors

(* The controller keeps the machine a machine and its frames in order.     *)
LEMMA ServeKeeps ==
  ASSUME NEW k \in Machine, Nested(k)
  PROVE  Serve(k) \in Machine /\ Nested(Serve(k))
<1> SUFFICES ASSUME ~k.I, Pending(k) # {}, First(Pending(k)) \notin Unset
             PROVE  Serve(k) \in Machine /\ Nested(Serve(k))
  BY DEF Serve, Interrupt
<1> DEFINE s == First(Pending(k))
           f == [context |-> k.context, I |-> k.I]
           st == <<f>> \o k.stack
           j == [k EXCEPT !.stack = st, !.context = Vector(s), !.I = TRUE, !.sleep = FALSE]
<1>1. Serve(k) = j
  BY DEF Serve, Interrupt
<1>2. Vector(s) \in Vectors
  BY FirstIn DEF Pending, Machine, Vectors
<1>3. f \in Frames /\ k.stack \in Seq(Frames)
  BY DEF Frames, Machine
<1>4. /\ st \in Seq(Frames) /\ Len(st) = Len(k.stack) + 1
      /\ \A i \in 1..Len(st) : st[i] = IF i = 1 THEN f ELSE k.stack[i - 1]
  BY <1>3, Pushed
<1> HIDE DEF s, st, f
<1>5. j \in Machine
  BY <1>2, <1>4 DEF Machine
<1>6. j.stack = st /\ j.context = Vector(s) /\ j.I /\ ~j.sleep
  BY DEF Machine
<1>7. Main \notin Vectors
  BY DEF Main, Vectors, Vector, Requests, Priority
<1> HIDE DEF j
<1>8. Nested(j)
  <2>1. j.context # Main /\ j.stack # <<>>
    BY <1>2, <1>4, <1>6, <1>7, <1>3
  <2>2. ASSUME NEW i \in 1..Len(st)
        PROVE  ~st[i].I /\ (st[i].context = Main <=> i = Len(st))
    <3>1. CASE i = 1
      BY <3>1, <1>3, <1>4 DEF Nested, f
    <3>2. CASE i # 1
      BY <3>2, <1>3, <1>4 DEF Nested
    <3> QED
      BY <3>1, <3>2
  <2>3. ~HandlersUnmask => Len(st) = 1
    BY <1>3, <1>4 DEF Nested
  <2>4. DOMAIN st = 1..Len(st)
    BY <1>4
  <2> QED
    BY <1>6, <2>1, <2>2, <2>3, <2>4 DEF Nested
<1> QED
  BY <1>1, <1>5, <1>8

-----------------------------------------------------------------------------
(* What the units leave alone.                                             *)
Kept(k, j) ==
  /\ j \in Machine
  /\ j.I = k.I /\ j.sleep = k.sleep /\ j.context = k.context /\ j.stack = k.stack
  /\ IntPin \notin k.port => j.port = k.port

(* What only the RTC changes.                                              *)
Still(k, j) == j.quarter = k.quarter /\ j.quarters = k.quarters /\ j.clocks = k.clocks

LEMMA PortWritten ==
  ASSUME NEW k \in Machine, NEW bits \in SUBSET Pins
  PROVE  LET j == WritePort(k, bits)
         IN  /\ j \in Machine /\ j.port = bits /\ Still(k, j)
             /\ j.I = k.I /\ j.sleep = k.sleep /\ j.context = k.context /\ j.stack = k.stack
<1>1. {s \in k.selected : PinOf(s) \in bits} \subseteq Requests
  BY DEF Machine, PortRequests, Requests, Priority
<1> QED
  BY <1>1 DEF WritePort, Machine, Still

LEMMA PulseKeeps == ASSUME NEW k \in Machine PROVE Kept(k, Pulse(k)) /\ Still(k, Pulse(k))
<1> DEFINE up == WritePort(k, k.port \cup {IntPin})
<1>1. k.port \subseteq Pins /\ IntPin \in Pins
  BY DEF Machine, Pins
<1>2. /\ up \in Machine /\ up.port = k.port \cup {IntPin} /\ Still(k, up)
      /\ up.I = k.I /\ up.sleep = k.sleep /\ up.context = k.context /\ up.stack = k.stack
  BY <1>1, PortWritten
<1> HIDE DEF up
<1>3. LET j == WritePort(up, up.port \ {IntPin})
      IN  /\ j \in Machine /\ j.port = up.port \ {IntPin} /\ Still(up, j)
          /\ j.I = up.I /\ j.sleep = up.sleep /\ j.context = up.context /\ j.stack = up.stack
  BY <1>1, <1>2, PortWritten
<1>4. Pulse(k) = WritePort(up, up.port \ {IntPin})
  BY DEF Pulse, up
<1> QED
  BY <1>2, <1>3, <1>4 DEF Kept, Still

LEMMA FlagsKeep ==
  ASSUME NEW k \in Machine, NEW S \in SUBSET Requests
  PROVE  LET j == [k EXCEPT !.flags = @ \cup S] IN Kept(k, j) /\ Still(k, j)
BY DEF Kept, Still, Machine

LEMMA RtcKeeps ==
  ASSUME NEW k \in Machine, NEW n \in 1..QuarterCycles, NEW j \in RtcCycle(k, n)
  PROVE  Kept(k, j)
<1>1. QuarterCycles \in Nat \ {0} /\ Used \subseteq Requests
  BY InterruptsAssumption
<1>2. ASSUME NEW S \in Raised(k.quarters + 1) PROVE S \subseteq Requests
  <2>1. PICK H \in SUBSET Used : S \subseteq {"SEIFG025", "SEIFG05"} \cup H
    BY DEF Raised
  <2> QED
    BY <1>1, <2>1 DEF Requests, Priority
<1>3. CASE ~Counting(k)
  BY <1>3 DEF RtcCycle, Kept
<1>4. CASE Counting(k) /\ k.quarter + n < QuarterCycles
  <2>1. j = [k EXCEPT !.quarter = @ + n]
    BY <1>4 DEF RtcCycle
  <2>2. k.quarter + n \in 0..(QuarterCycles - 1)
    BY <1>1, <1>4 DEF Machine
  <2> QED
    BY <2>1, <2>2 DEF Kept, Machine
<1>5. CASE Counting(k) /\ ~ (k.quarter + n < QuarterCycles)
  <2>1. PICK S \in Raised(k.quarters + 1) :
          j = [k EXCEPT !.quarter = @ + n - QuarterCycles, !.quarters = (@ + 1) % 4,
                        !.flags = @ \cup S]
    BY <1>5 DEF RtcCycle
  <2>2. /\ k.quarter + n - QuarterCycles \in 0..(QuarterCycles - 1)
        /\ (k.quarters + 1) % 4 \in 0..3
    BY <1>1, <1>5 DEF Machine
  <2> QED
    BY <1>2, <2>1, <2>2 DEF Kept, Machine
<1> QED
  BY <1>3, <1>4, <1>5

(* What the units are before the RTC's turn: pulsed or not, and with the   *)
(* requests of the timers.                                                 *)
LEMMA UnitsReach ==
  ASSUME NEW k \in Machine, NEW n, NEW j \in Units(k, n)
  PROVE  \E i \in Machine : Kept(k, i) /\ Still(k, i) /\ j \in RtcCycle(i, n)
<1>1. PICK a \in {k} \cup {Pulse(k)} :
        \E S \in SUBSET TimerRequests(a) : j \in RtcCycle([a EXCEPT !.flags = @ \cup S], n)
  <2> DEFINE Timed(a) == {[a EXCEPT !.flags = @ \cup S] : S \in SUBSET TimerRequests(a)}
             sampled == {k} \cup (IF "SSU" \in k.clocks /\ "IRQ1" \in Used THEN {Pulse(k)} ELSE {})
  <2>1. j \in UNION {RtcCycle(i, n) : i \in UNION {Timed(a) : a \in sampled}}
    BY DEF Units
  <2>2. PICK a \in sampled : \E i \in Timed(a) : j \in RtcCycle(i, n)
    <3> HIDE DEF Timed, sampled
    <3> QED
      BY <2>1
  <2> QED
    BY <2>2
<1> PICK S \in SUBSET TimerRequests(a) : j \in RtcCycle([a EXCEPT !.flags = @ \cup S], n)
  BY <1>1
<1>2. Kept(k, a) /\ Still(k, a)
  BY PulseKeeps DEF Kept, Still
<1>3. S \subseteq Requests
  BY InterruptsAssumption DEF TimerRequests
<1> DEFINE i == [a EXCEPT !.flags = @ \cup S]
<1>4. Kept(a, i) /\ Still(a, i)
  BY <1>2, <1>3, FlagsKeep DEF Kept
<1>5. j \in RtcCycle(i, n)
  OBVIOUS
<1> HIDE DEF i
<1> QED
  BY <1>2, <1>4, <1>5 DEF Kept, Still

LEMMA UnitsKeep ==
  ASSUME NEW k \in Machine, NEW n \in 1..QuarterCycles, NEW j \in Units(k, n)
  PROVE  Kept(k, j)
<1>1. PICK i \in Machine : Kept(k, i) /\ j \in RtcCycle(i, n)
  BY UnitsReach
<1> QED
  BY <1>1, RtcKeeps DEF Kept

-----------------------------------------------------------------------------
(* What the RTC counts.                                                    *)

Exact(k, e) ==
  /\ e \in 0..(4 * QuarterCycles - 1)
  /\ k.quarter < QuarterCycles /\ e = k.quarters * QuarterCycles + k.quarter

(* Four quarters are a second, and what is beyond a quarter belongs to the *)
(* next one.                                                               *)
LEMMA Carried ==
  ASSUME NEW Q \in Nat \ {0}, NEW q \in 0..3, NEW r \in 0..(Q - 1), NEW n \in 1..Q,
         NEW e \in Nat, e = q * Q + r
  PROVE  /\ r + n < Q => e + n = q * Q + (r + n) /\ e + n < 4 * Q
         /\ r + n >= Q /\ q < 3 => e + n = (q + 1) * Q + (r + n - Q) /\ e + n < 4 * Q
         /\ r + n >= Q /\ q = 3 => e + n - 4 * Q = r + n - Q /\ e + n >= 4 * Q
         /\ r + n - Q < Q
<1>1. CASE q = 0
  BY <1>1
<1>2. CASE q = 1
  BY <1>2
<1>3. CASE q = 2
  BY <1>3
<1>4. CASE q = 3
  BY <1>4
<1> QED
  BY <1>1, <1>2, <1>3, <1>4

LEMMA RtcCounts ==
  ASSUME NEW k \in Machine, NEW n \in 1..QuarterCycles, NEW j \in RtcCycle(k, n),
         Exact(k, elapsed)
  PROVE  Exact(j, Elapsed(k, n))
<1>1. QuarterCycles \in Nat \ {0}
  BY InterruptsAssumption
<1>0. PICK Q \in Nat \ {0} : Q = QuarterCycles
  BY <1>1
<1>2. PICK q \in 0..3, r \in 0..(Q - 1), e \in Nat :
        Q = QuarterCycles /\ q = k.quarters /\ r = k.quarter /\ e = elapsed
  BY <1>0 DEF Exact, Machine
<1>3. e = q * Q + r /\ e < 4 * Q /\ Q > 0
  BY <1>2 DEF Exact
<1>4. n \in 1..Q
  BY <1>0
<1>5. /\ r + n < Q => e + n = q * Q + (r + n) /\ e + n < 4 * Q
      /\ r + n >= Q /\ q < 3 => e + n = (q + 1) * Q + (r + n - Q) /\ e + n < 4 * Q
      /\ r + n >= Q /\ q = 3 => e + n - 4 * Q = r + n - Q /\ e + n >= 4 * Q
      /\ r + n - Q < Q
  BY <1>3, <1>4, Carried
<1>6. e + n \in Nat /\ r + n \in Nat
  BY <1>4
<1>7. CASE ~Counting(k)
  BY <1>7 DEF RtcCycle, Elapsed
<1>8. CASE Counting(k) /\ r + n < Q
  <2>1. j.quarter = r + n /\ j.quarters = q
    BY <1>2, <1>8 DEF RtcCycle, Machine
  <2>2. e + n = q * Q + (r + n) /\ e + n < 4 * Q /\ e + n \in Nat
    BY <1>8, <1>5, <1>6
  <2>3. Elapsed(k, n) = e + n
    BY <1>2, <1>8, <2>2 DEF Elapsed
  <2> QED
    <3>1. e + n \in 0..(4 * Q - 1) /\ r + n < Q
      BY <1>8, <2>2
    <3> QED
      BY <1>2, <2>1, <2>2, <2>3, <3>1 DEF Exact
<1>9. CASE Counting(k) /\ ~ (r + n < Q)
  <2>1. j.quarter = r + n - Q /\ j.quarters = (q + 1) % 4
    BY <1>2, <1>9 DEF RtcCycle, Machine
  <2>2. r + n - Q < Q /\ r + n - Q \in Nat /\ r + n >= Q
    <3>1. r + n >= Q
      BY <1>9, <1>4
    <3>2. r + n - Q \in Nat
      BY <1>4, <1>6, <3>1
    <3> QED
      BY <1>5, <3>1, <3>2
  <2>3. CASE q < 3
    <3>1. e + n = (q + 1) * Q + (r + n - Q) /\ e + n < 4 * Q /\ e + n \in Nat
      BY <1>5, <1>6, <2>2, <2>3
    <3>2. Elapsed(k, n) = e + n /\ (q + 1) % 4 = q + 1
      BY <1>2, <1>9, <2>3, <3>1 DEF Elapsed
    <3>3. e + n \in 0..(4 * Q - 1)
      BY <3>1
    <3>4. j.quarters = q + 1
      BY <2>1, <3>2
    <3> QED
      BY <1>2, <2>1, <2>2, <3>1, <3>2, <3>3, <3>4 DEF Exact
  <2>4. CASE q = 3
    <3>1. e + n - 4 * Q = r + n - Q /\ e + n >= 4 * Q
      BY <1>5, <2>2, <2>4
    <3>2. Elapsed(k, n) = r + n - Q /\ (q + 1) % 4 = 0
      BY <1>2, <1>9, <2>4, <3>1 DEF Elapsed
    <3>3. 0 * Q = 0 /\ r + n - Q \in 0..(4 * Q - 1) /\ r + n - Q = 0 + (r + n - Q)
      BY <1>2, <2>2
    <3>4. j.quarters = 0
      BY <2>1, <3>2
    <3> QED
      BY <1>2, <2>1, <2>2, <3>2, <3>3, <3>4 DEF Exact
  <2> QED
    BY <1>2, <2>3, <2>4
<1> QED
  BY <1>7, <1>8, <1>9

LEMMA UnitsCount ==
  ASSUME NEW k \in Machine, NEW n \in 1..QuarterCycles, NEW j \in Units(k, n),
         Exact(k, elapsed)
  PROVE  Exact(j, Elapsed(k, n))
<1>1. PICK i \in Machine : Still(k, i) /\ j \in RtcCycle(i, n)
  BY UnitsReach
<1>2. Exact(i, elapsed) /\ Elapsed(i, n) = Elapsed(k, n)
  BY <1>1 DEF Still, Exact, Elapsed, Counting
<1> QED
  BY <1>1, <1>2, RtcCounts

(* One step: the CPU leaves the machine at k, and the rest of the cycle    *)
(* keeps what k satisfies.                                                 *)
LEMMA FinishKeeps ==
  ASSUME NEW k \in Machine, Nested(k), NEW n \in 1..QuarterCycles,
         Finish(k, n), held \subseteq Keys, Exact(k, elapsed)
  PROVE  /\ TypeOK' /\ NestingInv' /\ QuarterExact'
         /\ IntPin \notin k.port => m'.port = k.port
<1>1. /\ Serve(k) \in Machine /\ Nested(Serve(k)) /\ Serve(k).port = k.port
      /\ Still(k, Serve(k))
  BY ServeKeeps DEF Serve, Interrupt, Machine, Still
<1>2. Kept(Serve(k), m')
  BY <1>1, UnitsKeep DEF Finish
<1>3. Nested(m')
  BY <1>1, <1>2 DEF Kept, Nested
<1>4. Exact(Serve(k), elapsed) /\ Elapsed(Serve(k), n) = Elapsed(k, n)
  BY <1>1 DEF Still, Exact, Elapsed, Counting
<1>5. Exact(m', elapsed')
  BY <1>1, <1>4, UnitsCount DEF Finish
<1> QED
  BY <1>1, <1>2, <1>3, <1>5 DEF Kept, TypeOK, NestingInv, QuarterExact, Exact, Finish

LEMMA ExecuteKeeps ==
  ASSUME NEW k \in Machine, Nested(k), Execute(k), held \subseteq Keys, Exact(k, elapsed)
  PROVE  /\ TypeOK' /\ NestingInv' /\ QuarterExact'
         /\ IntPin \notin k.port => m'.port = k.port
<1>1. PICK n \in Counts : Finish(k, n)
  BY DEF Execute
<1>2. n \in 1..QuarterCycles
  BY InterruptsAssumption
<1> QED
  BY <1>1, <1>2, FinishKeeps

(* RTE: the frame on top is the one that the handler's caller left.        *)
LEMMA ReturnKeeps ==
  ASSUME NEW k \in Machine, Nested(k), k.context # Main, ~k.sleep, Exact(k, elapsed)
  PROVE  LET j == [k EXCEPT !.context = Head(k.stack).context, !.I = Head(k.stack).I,
                            !.stack = Tail(k.stack)]
         IN  j \in Machine /\ Nested(j) /\ j.port = k.port /\ Exact(j, elapsed)
<1> DEFINE st == k.stack
           j == [k EXCEPT !.context = Head(st).context, !.I = Head(st).I, !.stack = Tail(st)]
<1>1. st \in Seq(Frames) /\ st # <<>>
  BY DEF Machine, Nested
<1>2. /\ Head(st) = st[1] /\ st[1] \in Frames /\ Len(st) \in Nat /\ Len(st) > 0
      /\ Tail(st) \in Seq(Frames) /\ Len(Tail(st)) = Len(st) - 1
      /\ \A i \in 1..(Len(st) - 1) : Tail(st)[i] = st[i + 1]
  BY <1>1
<1>3. ~st[1].I /\ (st[1].context = Main <=> 1 = Len(st))
  <2>1. 1 \in DOMAIN st
    BY <1>1, <1>2
  <2> QED
    BY <2>1 DEF Nested
<1>4. \A i \in 1..(Len(st) - 1) : ~st[i + 1].I /\ (st[i + 1].context = Main <=> i + 1 = Len(st))
  BY <1>1, <1>2 DEF Nested
<1>5. ~HandlersUnmask => Len(st) = 1
  BY DEF Nested
<1> HIDE DEF st
<1>6. j \in Machine
  BY <1>2 DEF Machine, Frames
<1>7. Exact(j, elapsed)
  BY DEF Exact, Machine
<1>8. /\ j.context = st[1].context /\ ~j.I /\ ~j.sleep /\ j.stack = Tail(st) /\ j.port = k.port
  BY <1>2, <1>3 DEF Machine, Frames
<1> HIDE DEF j
<1>9. Nested(j)
  <2> DEFINE t == Tail(st)
  <2>0. DOMAIN t = 1..(Len(st) - 1) /\ Len(t) = Len(st) - 1 /\ (t = <<>> <=> Len(st) = 1)
    BY <1>2, SMTT(20)
  <2>1. j.context = Main <=> j.stack = <<>>
    BY <1>3, <1>8, <2>0
  <2>2. ASSUME NEW i \in DOMAIN j.stack
        PROVE  ~j.stack[i].I /\ (j.stack[i].context = Main <=> i = Len(j.stack))
    <3>1. i \in 1..(Len(st) - 1) /\ j.stack[i] = st[i + 1] /\ Len(j.stack) = Len(st) - 1
      BY <1>2, <1>8, <2>0
    <3>2. i = Len(j.stack) <=> i + 1 = Len(st)
      <4> HIDE DEF t
      <4>1. Len(st) \in Nat
        BY <1>2
      <4> QED
        BY <3>1, <4>1
    <3> QED
      BY <1>4, <3>1, <3>2
  <2>3. ~HandlersUnmask => j.context = Main
    BY <1>3, <1>5, <1>8
  <2> QED
    BY <1>8, <2>1, <2>2, <2>3 DEF Nested
<1> QED
  BY <1>6, <1>7, <1>8, <1>9 DEF j, st

(* What an instruction leaves of the machine before the rest of the cycle. *)
Instruction(k) ==
  \/ k = m
  \/ \E b \in BOOLEAN : k = [m EXCEPT !.I = b] /\ (b \/ m.context = Main \/ HandlersUnmask)
  \/ m.context = Main /\ ~m.I /\ k = [m EXCEPT !.sleep = TRUE]
  \/ \E F \in SUBSET Requests : k = [m EXCEPT !.flags = F]
  \/ \E E \in SUBSET EnableBits : k = [m EXCEPT !.ien = E]
  \/ \E C \in SUBSET Clocks : k = [m EXCEPT !.clocks = C]
  \/ \E P \in SUBSET PortRequests : k = [m EXCEPT !.selected = P]

LEMMA InstructionKeeps ==
  ASSUME TypeOK, NestingInv, QuarterExact, Awake, NEW k, Instruction(k)
  PROVE  k \in Machine /\ Nested(k) /\ k.port = m.port /\ Exact(k, elapsed)
<1> USE DEF TypeOK, NestingInv
<1>0. Exact(m, elapsed)
  BY DEF QuarterExact, Exact
<1>1. CASE k = m
  BY <1>0, <1>1
<1>2. ASSUME NEW b \in BOOLEAN, k = [m EXCEPT !.I = b], b \/ m.context = Main \/ HandlersUnmask
      PROVE  k \in Machine /\ Nested(k) /\ k.port = m.port /\ Exact(k, elapsed)
  <2>1. k \in Machine /\ k.I = b /\ k.port = m.port
        /\ k.sleep = m.sleep /\ k.context = m.context /\ k.stack = m.stack
        /\ Exact(k, elapsed)
    BY <1>0, <1>2 DEF Machine, Exact
  <2> QED
    BY <1>2, <2>1 DEF Nested, Awake
<1>3. CASE m.context = Main /\ ~m.I /\ k = [m EXCEPT !.sleep = TRUE]
  <2>1. k \in Machine /\ k.I = m.I /\ k.port = m.port
        /\ k.sleep = TRUE /\ k.context = m.context /\ k.stack = m.stack
        /\ Exact(k, elapsed)
    BY <1>0, <1>3 DEF Machine, Exact
  <2> QED
    BY <1>3, <2>1 DEF Nested
<1>4. ASSUME \/ \E F \in SUBSET Requests : k = [m EXCEPT !.flags = F]
             \/ \E E \in SUBSET EnableBits : k = [m EXCEPT !.ien = E]
             \/ \E C \in SUBSET Clocks : k = [m EXCEPT !.clocks = C]
             \/ \E P \in SUBSET PortRequests : k = [m EXCEPT !.selected = P]
      PROVE  k \in Machine /\ Nested(k) /\ k.port = m.port /\ Exact(k, elapsed)
  <2>1. k \in Machine /\ k.I = m.I /\ k.port = m.port
        /\ k.sleep = m.sleep /\ k.context = m.context /\ k.stack = m.stack
        /\ Exact(k, elapsed)
    BY <1>0, <1>4 DEF Machine, Exact
  <2> QED
    BY <2>1 DEF Nested
<1> QED
  BY <1>1, <1>2, <1>3, <1>4 DEF Instruction

LEMMA CycleKeeps ==
  ASSUME TypeOK, NestingInv, QuarterExact, CpuCycle
  PROVE  TypeOK' /\ NestingInv' /\ QuarterExact' /\ (IntPin \notin m.port => m'.port = m.port)
<1> USE DEF TypeOK, NestingInv
<1>0. Exact(m, elapsed)
  BY DEF QuarterExact, Exact
<1>1. CASE Asleep
  <2>1. 1 \in 1..QuarterCycles
    BY InterruptsAssumption
  <2> QED
    BY <1>0, <1>1, <2>1, FinishKeeps DEF Asleep
<1>2. ASSUME NEW k, Instruction(k), Execute(k)
      PROVE  TypeOK' /\ NestingInv' /\ QuarterExact' /\ (IntPin \notin m.port => m'.port = m.port)
  BY <1>2, InstructionKeeps, ExecuteKeeps DEF Execute
<1>3. CASE Return
  BY <1>0, <1>3, ReturnKeeps, ExecuteKeeps DEF Return, Execute, Awake
<1>4. CASE Compute
  BY <1>2, <1>4 DEF Compute, Instruction
<1>5. CASE Mask
  BY <1>2, <1>5 DEF Mask, Instruction
<1>6. CASE Unmask
  BY <1>2, <1>6 DEF Unmask, Instruction
<1>7. CASE Sleep
  BY <1>2, <1>7 DEF Sleep, Instruction
<1>8. ASSUME NEW s \in Requests, Acknowledge(s)
      PROVE  TypeOK' /\ NestingInv' /\ QuarterExact' /\ (IntPin \notin m.port => m'.port = m.port)
  <2>1. m.flags \ {s} \in SUBSET Requests
    BY DEF Machine
  <2> QED
    BY <1>2, <1>8, <2>1 DEF Acknowledge, Instruction
<1>9. ASSUME NEW b \in Toggles, SwitchEnable(b) \/ SwitchClock(b) \/ SelectPin(b)
      PROVE  TypeOK' /\ NestingInv' /\ QuarterExact' /\ (IntPin \notin m.port => m'.port = m.port)
  <2>1. /\ b \in EnableBits => Flip(m.ien, b) \in SUBSET EnableBits
        /\ b \in Clocks => Flip(m.clocks, b) \in SUBSET Clocks
        /\ \A s \in PortRequests : Flip(m.selected, s) \in SUBSET PortRequests
    BY DEF Machine, Flip
  <2>2. CASE SwitchEnable(b)
    BY <1>2, <2>1, <2>2 DEF SwitchEnable, Instruction
  <2>3. CASE SwitchClock(b)
    BY <1>2, <2>1, <2>3 DEF SwitchClock, Instruction
  <2>4. CASE SelectPin(b)
    BY <1>2, <2>1, <2>4 DEF SelectPin, Instruction
  <2> QED
    BY <1>9, <2>2, <2>3, <2>4
<1> QED
  BY <1>1, <1>3, <1>4, <1>5, <1>6, <1>7, <1>8, <1>9 DEF CpuCycle

LEMMA KeyKeeps ==
  ASSUME TypeOK, NestingInv, QuarterExact, Key
  PROVE  TypeOK' /\ NestingInv' /\ QuarterExact' /\ (KeysKept => KeysKept')
<1> USE DEF TypeOK, NestingInv
<1>1. PICK b \in Keys : Press(b) \/ Release(b)
  BY InterruptsAssumption DEF Key
<1>2. m.port \cup {b} \in SUBSET Pins /\ m.port \ {b} \in SUBSET Pins
  BY DEF Machine, Pins
<1>3. /\ m' \in Machine /\ m'.port = IF Press(b) THEN m.port \cup {b} ELSE m.port \ {b}
      /\ m'.I = m.I /\ m'.sleep = m.sleep /\ m'.context = m.context /\ m'.stack = m.stack
      /\ Still(m, m') /\ UNCHANGED elapsed
  BY <1>1, <1>2, PortWritten DEF Press, Release
<1>4. held' = IF Press(b) THEN held \cup {b} ELSE held \ {b}
  BY <1>1 DEF Press, Release
<1> QED
  BY <1>3, <1>4 DEF Nested, KeysKept, QuarterExact, Still

LEMMA InitHolds == Init => TypeOK /\ NestingInv /\ KeysKept /\ QuarterExact
<1> SUFFICES ASSUME Init PROVE TypeOK /\ NestingInv /\ KeysKept /\ QuarterExact
  OBVIOUS
<1>1. /\ <<>> \in Seq(Frames) /\ DOMAIN <<>> = {}
      /\ 0 \in 0..(QuarterCycles - 1) /\ 0 \in 0..(4 * QuarterCycles - 1)
      /\ 0 < QuarterCycles /\ 0 = 0 * QuarterCycles + 0
  BY InterruptsAssumption
<1>2. TypeOK
  BY <1>1 DEF Init, TypeOK, Machine
<1> QED
  BY <1>1, <1>2 DEF Init, NestingInv, Nested, KeysKept, QuarterExact

LEMMA StepHolds ==
  ASSUME TypeOK, NestingInv, KeysKept, QuarterExact, [Next]_vars
  PROVE  TypeOK' /\ NestingInv' /\ KeysKept' /\ QuarterExact'
<1>1. CASE CpuCycle
  <2>1. UNCHANGED held
    BY <1>1 DEF CpuCycle, Asleep, Compute, Mask, Unmask, Sleep, Return, Acknowledge,
                SwitchEnable, SwitchClock, SelectPin, Execute, Finish
  <2>2. IntPin \notin m.port
    BY DEF KeysKept, TypeOK, Keys, IntPin
  <2> QED
    BY <1>1, <2>1, <2>2, CycleKeeps DEF KeysKept
<1>2. CASE Key
  BY <1>2, KeyKeeps
<1>3. CASE UNCHANGED vars
  BY <1>3 DEF vars, TypeOK, NestingInv, Nested, KeysKept, QuarterExact
<1> QED
  BY <1>1, <1>2, <1>3 DEF Next

(* The registers, the frames and the port keep their types.                *)
THEOREM TypeCorrect == Spec => []TypeOK
<1>1. Init => TypeOK /\ NestingInv /\ KeysKept /\ QuarterExact
  BY InitHolds
<1>2. TypeOK /\ NestingInv /\ KeysKept /\ QuarterExact /\ [Next]_vars
        => (TypeOK /\ NestingInv /\ KeysKept /\ QuarterExact)'
  BY StepHolds
<1> QED
  BY <1>1, <1>2, PTL DEF Spec

(* Calls and returns match, however deep the handlers nest.                *)
THEOREM Nesting == Spec => []NestingInv
<1>1. Init => TypeOK /\ NestingInv /\ KeysKept /\ QuarterExact
  BY InitHolds
<1>2. TypeOK /\ NestingInv /\ KeysKept /\ QuarterExact /\ [Next]_vars
        => (TypeOK /\ NestingInv /\ KeysKept /\ QuarterExact)'
  BY StepHolds
<1> QED
  BY <1>1, <1>2, PTL DEF Spec

(* The accelerometer's pulses never lose or invent a key.                  *)
THEOREM PortKeepsKeys == Spec => []KeysKept
<1>1. Init => TypeOK /\ NestingInv /\ KeysKept /\ QuarterExact
  BY InitHolds
<1>2. TypeOK /\ NestingInv /\ KeysKept /\ QuarterExact /\ [Next]_vars
        => (TypeOK /\ NestingInv /\ KeysKept /\ QuarterExact)'
  BY StepHolds
<1> QED
  BY <1>1, <1>2, PTL DEF Spec

(* Cycles are neither lost nor counted twice when an instruction takes the *)
(* RTC over the end of a quarter: quarters fall at their exact multiples.  *)
THEOREM QuartersAreExact == Spec => []QuarterExact
<1>1. Init => TypeOK /\ NestingInv /\ KeysKept /\ QuarterExact
  BY InitHolds
<1>2. TypeOK /\ NestingInv /\ KeysKept /\ QuarterExact /\ [Next]_vars
        => (TypeOK /\ NestingInv /\ KeysKept /\ QuarterExact)'
  BY StepHolds
<1> QED
  BY <1>1, <1>2, PTL DEF Spec

(* A cycle that finds the CPU asleep leaves it in the handler of the first *)
(* enabled request, or asleep as it was when that has no vector: a CPU     *)
(* that sleeps is in the main loop and not masked (NestingInv).            *)
THEOREM WakesTheorem == Spec => WakesForFirst
<1> DEFINE s == First(Pending(m))
           Woken == Asleep =>
                      IF Pending(m) # {} /\ s \notin Unset
                      THEN ~m'.sleep /\ m'.context = Vector(s) /\ Len(m'.stack) = 1
                      ELSE m'.sleep /\ m'.context = Main /\ m'.stack = <<>>
<1>1. TypeOK /\ NestingInv /\ [Next]_vars => [Woken]_vars
  <2> SUFFICES ASSUME TypeOK, NestingInv, Asleep PROVE Woken
    OBVIOUS
  <2>1. ~m.I /\ m.sleep /\ m.context = Main /\ m.stack = <<>>
    BY DEF Asleep, NestingInv, Nested
  <2>2. m' \in Units(Serve(m), 1) /\ 1 \in 1..QuarterCycles
    BY InterruptsAssumption DEF Asleep, Finish
  <2>3. Kept(Serve(m), m')
    BY <2>2, ServeKeeps, UnitsKeep DEF TypeOK, NestingInv
  <2>4. CASE Pending(m) # {} /\ s \notin Unset
    <3> DEFINE st == <<[context |-> m.context, I |-> m.I]>> \o m.stack
    <3>1. Serve(m) = [m EXCEPT !.stack = st, !.context = Vector(s), !.I = TRUE, !.sleep = FALSE]
      BY <2>1, <2>4 DEF Serve, Interrupt
    <3>2. Serve(m).context = Vector(s) /\ ~Serve(m).sleep /\ Serve(m).stack = st
      BY <3>1 DEF TypeOK, Machine
    <3>3. Len(st) = 1
      BY <2>1
    <3> QED
      BY <2>3, <2>4, <3>2, <3>3 DEF Kept
  <2>5. CASE ~(Pending(m) # {} /\ s \notin Unset)
    <3>1. Serve(m) = m
      BY <2>1, <2>5 DEF Serve, Interrupt
    <3> QED
      BY <2>1, <2>3, <2>5, <3>1 DEF Kept
  <2> QED
    BY <2>4, <2>5
<1>2. WakesForFirst <=> [][Woken]_vars
  BY DEF WakesForFirst
<1> HIDE DEF Woken
<1> QED
  BY <1>1, <1>2, TypeCorrect, Nesting, PTL DEF Spec
=============================================================================
