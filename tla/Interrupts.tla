------------------------------ MODULE Interrupts ------------------------------
(***************************************************************************)
(* Interrupts and sleep of the emulated H8/38606F: CPU::Cycle and          *)
(* CPU::Interrupt (core/cpu/cpu.cpp), Interrupts::Cycle                    *)
(* (core/soc/interrupts/interrupts.cpp), the order of H838606::Cycle       *)
(* (core/soc/h838606.cpp), and what raises requests: port B, written by    *)
(* the keys (pw_button) and by the accelerometer's interrupt pin, the RTC  *)
(* and the timers.                                                         *)
(*                                                                         *)
(* One step is one H838606::Cycle: an instruction, or nothing while the    *)
(* CPU sleeps, then the interrupt controller, then the units in order.     *)
(* Nothing else runs during it; keys move between cycles.                  *)
(*                                                                         *)
(* The firmware is external.  It is any program whose handlers return with *)
(* RTE and only sleeps in its main loop with interrupts unmasked; where    *)
(* control is, is the vector being handled or Main, not an address.        *)
(***************************************************************************)
EXTENDS Naturals, Sequences

CONSTANTS
  Used,            \* the requests that occur in this instance
  Unset,           \* those whose vector in the ROM is 0xFFFF
  UsedKeys,        \* the keys that the user presses
  Toggles,         \* the enable bits, clocks and pins that the firmware changes
  HandlersUnmask,  \* a handler may clear the I flag
  MaxDepth,        \* bound: handlers nested before one stops unmasking
  Counts,          \* the cycles that one instruction can take
  QuarterCycles    \* cycles of a quarter second, PHI_CLK / 4

Main == "main"

(* The requests, in the order in which Interrupts::Cycle looks at them.    *)
Priority ==
  <<"IRQ0", "IRQ1", "SEIFG025", "SEIFG05", "SEIFG1", "MNIFG", "HRIFG", "DYIFG",
    "WKIFG", "FOIFG", "IRRTB1", "OVF", "IMFA">>
Requests == {Priority[i] : i \in DOMAIN Priority}

PortRequests  == {"IRQ0", "IRQ1"}
RtcRequests   == {"SEIFG025", "SEIFG05", "SEIFG1", "MNIFG", "HRIFG", "DYIFG",
                  "WKIFG", "FOIFG"}
TimerWRequests == {"OVF", "IMFA"}

(* The bits that enable a request: the request's own bit is named after    *)
(* it, and the RTC's also need IENRTC.                                     *)
Needs(s) == IF s \in RtcRequests THEN {s, "IENRTC"} ELSE {s}
EnableBits == Requests \cup {"IENRTC"}

Vector(s) == IF s \in TimerWRequests THEN "TIMER_W" ELSE s
Vectors   == {Vector(s) : s \in Requests}

(* The bits of CKSTPR1 and CKSTPR2 modelled here, and RUN of RTCCR1: the   *)
(* RTC counts when its clock is on and it runs.                            *)
Clocks  == {"SSU", "TB1", "TW", "RTC", "RUN"}
Counting(k) == {"RTC", "RUN"} \subseteq k.clocks
Center == "PB0"
IntPin == "PB1"                           \* the accelerometer's pin
Keys   == {"PB0", "PB2", "PB4"}           \* PW_CENTER, PW_LEFT, PW_RIGHT
Pins   == Keys \cup {IntPin}
PinOf(s) == IF s = "IRQ0" THEN Center ELSE IntPin

ASSUME InterruptsAssumption ==
  /\ Used \subseteq Requests
  /\ Unset \subseteq Requests
  /\ UsedKeys \subseteq Keys
  /\ Toggles \subseteq EnableBits \cup Clocks \cup Pins
  /\ HandlersUnmask \in BOOLEAN
  /\ MaxDepth \in Nat \ {0}
  /\ QuarterCycles \in Nat \ {0}
  /\ Counts \subseteq 1..QuarterCycles

VARIABLES
  m,        \* the machine
  held,     \* history: the keys the user holds down
  elapsed   \* history: the cycles counted since the last whole second

vars == <<m, held, elapsed>>

Frames == [context : Vectors \cup {Main}, I : BOOLEAN]

Machine ==
  [I       : BOOLEAN,                   \* the mask bit of the CCR
   sleep   : BOOLEAN,
   context : Vectors \cup {Main},       \* what runs
   stack   : Seq(Frames),               \* what it interrupted, innermost first
   ien     : SUBSET EnableBits,         \* IENR1, IENR2, RTCCR2, TIERW
   flags   : SUBSET Requests,           \* IRR1, IRR2, RTCFLG, TSRW
   port    : SUBSET Pins,               \* PDRB
   selected : SUBSET PortRequests,      \* those whose field of PFCR is 0
   clocks  : SUBSET Clocks,
   quarter : 0..(QuarterCycles - 1),    \* rtc_cycles
   quarters : 0..3]

TypeOK == m \in Machine /\ held \subseteq Keys /\ elapsed \in 0..(4 * QuarterCycles - 1)

Init ==
  /\ m = [I |-> FALSE, sleep |-> FALSE, context |-> Main, stack |-> <<>>, ien |-> {},
           flags |-> {}, port |-> {}, selected |-> PortRequests, clocks |-> {},
           quarter |-> 0, quarters |-> 0]
  /\ held = {}
  /\ elapsed = 0

-----------------------------------------------------------------------------
(* Interrupts::Cycle and CPU::Interrupt.                                   *)

Pending(k) == {s \in k.flags : Needs(s) \subseteq k.ien}

Leads(i, S) == Priority[i] \in S /\ \A j \in 1..(i - 1) : Priority[j] \notin S
First(S) == Priority[CHOOSE i \in DOMAIN Priority : Leads(i, S)]

(* A mistake: the CPU is left asleep.                                      *)
InterruptAsleep(k, s) ==
  IF s \in Unset THEN k
  ELSE [k EXCEPT !.stack = <<[context |-> k.context, I |-> k.I]>> \o @,
                 !.context = Vector(s), !.I = TRUE]

(* A mistake: the frame is pushed before the vector is read.               *)
InterruptPushing(k, s) ==
  LET j == [k EXCEPT !.stack = <<[context |-> k.context, I |-> k.I]>> \o @]
  IN  IF s \in Unset THEN j
      ELSE [j EXCEPT !.context = Vector(s), !.I = TRUE, !.sleep = FALSE]

(* A vector that reads 0xFFFF is ignored: nothing is pushed, and the CPU   *)
(* stays asleep if it was.                                                 *)
Interrupt(k, s) ==
  IF s \in Unset THEN k
  ELSE [k EXCEPT !.stack = <<[context |-> k.context, I |-> k.I]>> \o @,
                 !.context = Vector(s), !.I = TRUE, !.sleep = FALSE]

Serve(k) ==
  LET P == Pending(k) IN IF k.I \/ P = {} THEN k ELSE Interrupt(k, First(P))

-----------------------------------------------------------------------------
(* What raises requests.                                                   *)

(* A write of PDRB: a request for each selected pin that is high in the    *)
(* value written, whatever it was before.                                  *)
WritePort(k, bits) ==
  [k EXCEPT !.port = bits,
            !.flags = @ \cup {s \in k.selected : PinOf(s) \in bits}]

(* A mistake: the pin goes down with every other pin of the port.          *)
PulseClearing(k) == WritePort(WritePort(k, k.port \cup {IntPin}), {})

(* BMA150::Cycle when a sample is due: the pin goes up and down, each time *)
(* with a read and a write of PDRB (SSU::RegisterOutputPin).               *)
Pulse(k) ==
  LET up == WritePort(k, k.port \cup {IntPin})
  IN  WritePort(up, up.port \ {IntPin})

(* RTC::Cycle: what a quarter second raises.  Whether a second, minute,    *)
(* hour or day has passed is the host clock's affair.                      *)
Raised(n) ==
  LET always == {"SEIFG025"} \cup (IF n % 2 = 0 THEN {"SEIFG05"} ELSE {})
      host   == IF n % 4 = 0 THEN {"SEIFG1", "MNIFG", "HRIFG", "DYIFG", "WKIFG"} ELSE {}
  IN  {(always \cap Used) \cup S : S \in SUBSET (host \cap Used)}

(* A mistake: the cycles beyond the quarter second are forgotten.          *)
RtcCycleForgets(k, n) ==
  IF ~Counting(k) THEN {k}
  ELSE IF k.quarter + n < QuarterCycles THEN {[k EXCEPT !.quarter = @ + n]}
  ELSE {[k EXCEPT !.quarter = 0, !.quarters = (@ + 1) % 4,
                  !.flags = @ \cup S] : S \in Raised(k.quarters + 1)}

RtcCycle(k, n) ==
  IF ~Counting(k) THEN {k}
  ELSE IF k.quarter + n < QuarterCycles THEN {[k EXCEPT !.quarter = @ + n]}
  ELSE {[k EXCEPT !.quarter = @ + n - QuarterCycles, !.quarters = (@ + 1) % 4,
                  !.flags = @ \cup S] : S \in Raised(k.quarters + 1)}

TimerRequests(k) ==
  ((IF "TB1" \in k.clocks THEN {"IRRTB1"} ELSE {})
     \cup (IF "TW" \in k.clocks THEN TimerWRequests ELSE {})) \cap Used

(* The units, after the interrupt controller: the accelerometer cycles     *)
(* within the SSU, then the timers, then the RTC.                          *)
Units(k, n) ==
  LET sampled == {k} \cup (IF "SSU" \in k.clocks /\ "IRQ1" \in Used THEN {Pulse(k)} ELSE {})
      timed   == UNION {{[j EXCEPT !.flags = @ \cup S] : S \in SUBSET TimerRequests(j)}
                          : j \in sampled}
  IN  UNION {RtcCycle(j, n) : j \in timed}

Elapsed(k, n) ==
  LET e == elapsed + n
  IN  IF ~Counting(k) THEN elapsed
      ELSE IF e < 4 * QuarterCycles THEN e ELSE e - 4 * QuarterCycles

(* The rest of H838606::Cycle, once the CPU has left the machine at k and  *)
(* taken n cycles.                                                         *)
Finish(k, n) == m' \in Units(Serve(k), n) /\ elapsed' = Elapsed(k, n) /\ UNCHANGED held

-----------------------------------------------------------------------------
(* CPU::Cycle: one instruction of the firmware.                            *)

Awake == ~m.sleep

Execute(k) == Awake /\ \E n \in Counts : Finish(k, n)

Asleep == m.sleep /\ Finish(m, 1)

Compute == Execute(m)

Mask == Awake /\ ~m.I /\ Execute([m EXCEPT !.I = TRUE])          \* ORC, LDC

Unmask ==                                                       \* ANDC, LDC
  /\ m.I
  /\ m.context # Main => HandlersUnmask /\ Len(m.stack) < MaxDepth
  /\ Execute([m EXCEPT !.I = FALSE])

(* SLEEP sets the flag, whatever is pending; the controller then looks.    *)
Sleep == m.context = Main /\ ~m.I /\ Execute([m EXCEPT !.sleep = TRUE])

(* A mistake: SP is not moved back over the frame.                         *)
ReturnKeepingFrame ==
  /\ m.context # Main
  /\ Execute([m EXCEPT !.context = Head(m.stack).context, !.I = Head(m.stack).I])

Return ==                                                       \* RTE
  /\ m.context # Main
  /\ Execute([m EXCEPT !.context = Head(m.stack).context, !.I = Head(m.stack).I,
                       !.stack = Tail(@)])

(* BCLR on a flag register, and writes of the control registers.           *)
Acknowledge(s) == s \in m.flags /\ Execute([m EXCEPT !.flags = @ \ {s}])

Flip(set, b) == IF b \in set THEN set \ {b} ELSE set \cup {b}

SwitchEnable(b) == b \in EnableBits /\ Execute([m EXCEPT !.ien = Flip(@, b)])

SwitchClock(b) == b \in Clocks /\ Execute([m EXCEPT !.clocks = Flip(@, b)])

SelectPin(b) == \E s \in PortRequests : PinOf(s) = b /\ Execute([m EXCEPT !.selected = Flip(@, s)])

CpuCycle ==
  \/ Asleep \/ Compute \/ Mask \/ Unmask \/ Sleep \/ Return
  \/ \E s \in Requests : Acknowledge(s)
  \/ \E b \in Toggles : SwitchEnable(b) \/ SwitchClock(b) \/ SelectPin(b)

(* pw_button, between two cycles: PDRB is read, changed and written.       *)
Press(b) ==
  /\ m' = WritePort(m, m.port \cup {b})
  /\ held' = held \cup {b}
  /\ UNCHANGED elapsed

Release(b) ==
  /\ m' = WritePort(m, m.port \ {b})
  /\ held' = held \ {b}
  /\ UNCHANGED elapsed

Key == \E b \in UsedKeys : Press(b) \/ Release(b)

Next == CpuCycle \/ Key

(* pw_run calls H838606::Cycle until the frame's cycles are used up,       *)
(* whatever the keys do between frames: a sleeping CPU is cycled again.    *)
Spec == Init /\ [][Next]_vars /\ WF_vars(Asleep)

-----------------------------------------------------------------------------
(* Properties.                                                             *)

(* What RTE finds: every frame was pushed with the mask clear, the         *)
(* outermost one is the main loop's and no other is, and only a handler    *)
(* has one.  A handler that never unmasks runs masked and is not nested.   *)
Nested(k) ==
  /\ k.context = Main <=> k.stack = <<>>
  /\ \A i \in DOMAIN k.stack :
       /\ ~k.stack[i].I
       /\ k.stack[i].context = Main <=> i = Len(k.stack)
  /\ ~HandlersUnmask /\ k.context # Main => k.I /\ Len(k.stack) = 1
  /\ k.sleep => k.context = Main /\ ~k.I

(* Calls and returns match, and the CPU only sleeps where it can be woken. *)
NestingInv == Nested(m)

(* The accelerometer's pulses and the keys write the same register: after  *)
(* each of them it holds the keys that are held.                           *)
KeysKept == m.port = held

(* A cycle that finds the CPU asleep takes the first enabled request, into *)
(* its handler with the main loop on the stack, when it has a vector.  When *)
(* it has none, or nothing is enabled, the CPU sleeps on: no lower request *)
(* is taken in its place and nothing is pushed.                            *)
WakesForFirst ==
  [][Asleep =>
       IF Pending(m) # {} /\ First(Pending(m)) \notin Unset
       THEN ~m'.sleep /\ m'.context = Vector(First(Pending(m))) /\ Len(m'.stack) = 1
       ELSE m'.sleep /\ m'.context = Main /\ m'.stack = <<>>]_vars

(* The quarter-second interrupt ends every sleep in which it is enabled    *)
(* and the RTC counts, unless a request with a higher priority has no      *)
(* vector: that one may be chosen in every cycle.                          *)
QuarterWakes ==
  (/\ m.sleep /\ {"SEIFG025", "IENRTC"} \subseteq m.ien /\ Counting(m)
   /\ PortRequests \cap Unset \cap m.ien = {} /\ "SEIFG025" \in Used \ Unset)
    ~> ~m.sleep

(* The quarters fall at the multiples of a quarter second of the cycles    *)
(* that the RTC has counted, whatever the lengths of the instructions and  *)
(* however often it was stopped: an overshoot is carried into the next.    *)
QuarterExact ==
  /\ m.quarter < QuarterCycles
  /\ elapsed = m.quarters * QuarterCycles + m.quarter
=============================================================================
