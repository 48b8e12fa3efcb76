---------------------------- MODULE LegacyCore -----------------------------
(***************************************************************************)
(* The legacy core around its instructions and its bus: the loop of the    *)
(* Windows program (src/src/win_main.c), the keys and their queue          *)
(* (src/src/queue.c), the interrupts with their one saved context, the two *)
(* timers, the RTC and the clocks (src/src/walker.c).                      *)
(*                                                                         *)
(* Of the firmware, which is not in the repository, only the instructions  *)
(* that touch this state are modelled.  Its handlers clear the request     *)
(* they serve before they return, and do not clear the I flag.             *)
(***************************************************************************)
EXTENDS Integers, Sequences, FiniteSets

CONSTANTS
  Keys,          \* ENTER, LEFT and RIGHT, or some of them
  ENTER,         \* the key with an interrupt of its own
  FrameCycles,   \* cycles of a quarter of a second
  SubCycles,     \* cycles of a clock of the timers
  Prescale,      \* clocks in a count of timer B1
  Modulo,        \* counts of a timer
  Reload,        \* TLBvalue
  Compare,       \* GRA
  Sessions,      \* for each session the keys that are pressed and the
                 \* switches that the firmware uses
  MaxWaiting     \* elements of the queue

Interrupts == {"IRQ0", "QUARTER", "HALF", "SECOND", "TB1", "TW"}
Enables == {"IRQ0", "RTC", "TB1", "TW"}
Switches == Enables \union {"clock B", "count B", "clock W", "count W", "CCLR"}
Nodes == 1 .. MaxWaiting
NULL == 0

ASSUME CoreAssumption ==
  /\ ENTER \in Keys /\ Sessions \subseteq SUBSET (Keys \union Switches)
  /\ FrameCycles \in Nat \ {0} /\ SubCycles \in Nat \ {0} /\ Prescale \in Nat \ {0}
  /\ Modulo \in Nat \ {0} /\ Reload \in 0 .. Modulo - 1 /\ Compare \in 0 .. Modulo - 1
  /\ MaxWaiting \in Nat

VARIABLES
  cpu,       \* where pc is, flags.I, sleep, and the saved pc and flags.I
  irq,       \* the interrupt request flags that are set
  on,        \* the switches that are set, in IENR1, IENR2, TIERW, CKSTPR1,
             \* CKSTPR2, TMB1, TMRW and TCRW
  timer,     \* TimerB and TimerW
  clock,     \* cycleCount, subClockCyclesEllapsed, quartersEllapsed, currentBuffer
  queue,     \* inputQueue, a linked list
  shown,     \* the keys at 0xffde
  input,     \* newInput
  running,   \* walkerRunning
  uses,      \* the keys and the switches of this session
  waiting    \* what the queue stands for

walker == <<cpu, irq, on, timer, clock, queue, shown, waiting>>
vars == <<walker, input, running, uses>>

-----------------------------------------------------------------------------
\* The queue: nodes from malloc, which gives back what was freed.
Empty == [first |-> NULL, last |-> NULL, next |-> [n \in Nodes |-> NULL],
          value |-> [n \in Nodes |-> {}], used |-> {}]

Free(q) == CHOOSE n \in Nodes : n \notin q.used

Add(q, v) ==
  LET n == Free(q)
      next == [q.next EXCEPT ![n] = NULL]
  IN [first |-> IF q.first = NULL THEN n ELSE q.first,
      last |-> n,
      next |-> IF q.last = NULL THEN next ELSE [next EXCEPT ![q.last] = n],
      value |-> [q.value EXCEPT ![n] = v],
      used |-> q.used \union {n}]

\* The mistake of a last element that outlives the list.
PopKeepingLast(q) ==
  IF q.first = NULL THEN q
  ELSE [q EXCEPT !.first = q.next[q.first], !.used = @ \ {q.first}]

Pop(q) ==
  IF q.first = NULL THEN q
  ELSE [q EXCEPT !.first = q.next[q.first], !.used = @ \ {q.first},
                 !.last = IF q.next[q.first] = NULL THEN NULL ELSE @]

\* The mistake of a key that is not released.
PushHeld(m, keys) ==
  [m EXCEPT !.queue = Add(@, keys), !.waiting = Append(@, keys)]

\* A key and its simulated release.
Push(m, keys) ==
  [m EXCEPT !.queue = Add(Add(@, keys), {}), !.waiting = @ \o <<keys, {}>>]

-----------------------------------------------------------------------------
\* The rest of an instruction is a function of m, the record of the walker.
\* The mistake of an interrupt that leaves the others enabled.
EnterUnmasked(m, place) ==
  [m EXCEPT !.cpu = [at |-> place, masked |-> FALSE, asleep |-> FALSE,
                     saved |-> [at |-> m.cpu.at, masked |-> m.cpu.masked]]]

\* The mistake of an interrupt that does not end the sleep.
EnterAsleep(m, place) ==
  [m EXCEPT !.cpu = [at |-> place, masked |-> TRUE, asleep |-> m.cpu.asleep,
                     saved |-> [at |-> m.cpu.at, masked |-> m.cpu.masked]]]

\* There is one saved context for all interrupts.
Enter(m, place) ==
  [m EXCEPT !.cpu = [at |-> place, masked |-> TRUE, asleep |-> FALSE,
                     saved |-> [at |-> m.cpu.at, masked |-> m.cpu.masked]]]

\* The order in which the core looks at the requests: as long as the RTC is
\* enabled, timer B1 is not looked at.
Serve(m) ==
  LET Ready(i, e) == i \in m.irq /\ e \in m.on
      rtc == {i \in {"QUARTER", "HALF", "SECOND"} : Ready(i, "RTC")}
  IN CASE m.cpu.masked -> m
       [] ~m.cpu.masked /\ Ready("IRQ0", "IRQ0") -> Push(Enter(m, "IRQ0"), {ENTER})
       [] ~m.cpu.masked /\ ~Ready("IRQ0", "IRQ0") /\ "RTC" \in m.on ->
            CASE "QUARTER" \in rtc -> Enter(m, "QUARTER")
              [] "QUARTER" \notin rtc /\ "HALF" \in rtc -> Enter(m, "HALF")
              [] rtc = {"SECOND"} -> Enter(m, "SECOND")
              [] OTHER -> m
       [] ~m.cpu.masked /\ ~Ready("IRQ0", "IRQ0") /\ "RTC" \notin m.on /\ Ready("TB1", "TB1") ->
            Enter(m, "TB1")
       [] OTHER -> m

\* Timer B1 asks for its interrupt when its counter wraps, and starts again
\* from TLBvalue.
CountB(m) ==
  LET count == (m.timer.b + 1) % Modulo
  IN IF ~m.timer.onB \/ m.clock.sub % Prescale # 0 THEN m
     ELSE IF count # 0 THEN [m EXCEPT !.timer.b = count]
     ELSE [m EXCEPT !.timer.b = Reload, !.irq = @ \union {"TB1"}]

\* Timer W interrupts at once; a match that finds the I flag set is not
\* looked at again.
CountW(m) ==
  LET count == IF "count W" \in m.on THEN (m.timer.w + 1) % Modulo ELSE m.timer.w
      match == [m EXCEPT !.timer.w = IF "CCLR" \in m.on THEN 0 ELSE count,
                         !.irq = @ \union {"TW"}]
  IN IF ~m.timer.onW THEN m
     ELSE IF count # Compare THEN [m EXCEPT !.timer.w = count]
     ELSE IF "TW" \in m.on /\ ~m.cpu.masked THEN Enter(match, "TW")
     ELSE match

\* A timer that was switched on counts from the next clock on.
SubClock(m) ==
  LET c == CountW(CountB(m))
  IN [c EXCEPT !.timer.onB = {"clock B", "count B"} \subseteq c.on,
               !.timer.onW = {"clock W", "count W"} \subseteq c.on]

Cycle(m) ==
  LET c == [m EXCEPT !.clock.cycle = @ + 1]
  IN IF c.clock.cycle % SubCycles # 0 THEN c
     ELSE SubClock([c EXCEPT !.clock.sub = (@ + 1) % Prescale])

\* Of quartersEllapsed only the remainders of two and four are ever read.
Quarter(m) ==
  LET q == (m.clock.quarters + 1) % 4
  IN [m EXCEPT !.clock.quarters = q,
               !.irq = @ \union {"QUARTER"} \union (IF q % 2 = 0 THEN {"HALF"} ELSE {})
                         \union (IF q = 0 THEN {"SECOND"} ELSE {})]

\* The end of a turn of the loop in win_main.
Frame(m) ==
  IF m.clock.cycle < FrameCycles THEN m
  ELSE Quarter([m EXCEPT !.clock.cycle = @ - FrameCycles, !.clock.buffer = 1 - @])

Walker == [cpu |-> cpu, irq |-> irq, on |-> on, timer |-> timer, clock |-> clock,
           queue |-> queue, shown |-> shown, waiting |-> waiting]
Becomes(m) ==
  /\ cpu' = m.cpu /\ irq' = m.irq /\ on' = m.on /\ timer' = m.timer /\ clock' = m.clock
  /\ queue' = m.queue /\ shown' = m.shown /\ waiting' = m.waiting

-----------------------------------------------------------------------------
\* initializeWalkerImages.  The second of two writes meant for CKSTPR1 and
\* CKSTPR2 goes to CKSTPR1 as well: timer B1 has its clock, timer W none.
Reset(m) ==
  [m EXCEPT !.cpu = [at |-> "main", masked |-> FALSE, asleep |-> FALSE,
                     saved |-> [at |-> "none", masked |-> FALSE]],
            !.irq = {}, !.on = {"clock B"},
            !.timer = [onB |-> FALSE, b |-> 0, onW |-> FALSE, w |-> 0],
            !.clock.sub = 0, !.clock.quarters = 0, !.clock.buffer = 0,
            !.queue = Empty, !.shown = {}, !.waiting = <<>>]

Init ==
  LET m == Reset([cpu |-> {}, irq |-> {}, on |-> {}, timer |-> {},
                  clock |-> [cycle |-> 0, sub |-> 0, quarters |-> 0, buffer |-> 0],
                  queue |-> Empty, shown |-> {}, waiting |-> <<>>])
  IN /\ cpu = m.cpu /\ irq = m.irq /\ on = m.on /\ timer = m.timer /\ clock = m.clock
     /\ queue = m.queue /\ shown = m.shown /\ waiting = m.waiting
     /\ input = {} /\ running = TRUE /\ uses \in Sessions

\* initWalkerFromFiles, which a program may call again with another pair of
\* images: both are read before anything is touched.
Load(romRead, eepromRead) ==
  /\ running
  /\ IF romRead /\ eepromRead THEN Becomes(Reset(Walker)) ELSE UNCHANGED walker
  /\ UNCHANGED <<input, running, uses>>

\* A key message.  win_main hands over all keys since the last instruction.
Room == MaxWaiting - (IF "IRQ0" \in irq THEN 2 ELSE 0)
KeyDown(key) ==
  LET keys == input \union {key}
  IN /\ running /\ Len(waiting) + 2 <= Room
     /\ input' = keys
     /\ IF ~cpu.masked /\ ENTER \in keys
        THEN Becomes([Walker EXCEPT !.irq = @ \union {"IRQ0"}])
        ELSE Becomes(Push([Walker EXCEPT !.cpu.asleep = FALSE], keys))
     /\ UNCHANGED <<running, uses>>

\* A turn of the loop: after the instruction the interrupts, two cycles and
\* the frame.  The turn in which the window is closed is the last one.
Turn(m) ==
  /\ running /\ running' \in BOOLEAN
  /\ \E a \in {Serve(m)} : \E b \in {Cycle(a)} : \E c \in {Cycle(b)} :
       \E n \in {Frame(c)} : Becomes(n)
  /\ input' = {}
  /\ UNCHANGED uses

Rest == cpu.asleep /\ Turn(Walker)
Compute == ~cpu.asleep /\ Turn(Walker)

\* Calls of the firmware that the core passes over: neither an interrupt nor
\* the clock comes between.
Skip ==
  /\ running /\ ~cpu.asleep /\ running' \in BOOLEAN
  /\ Becomes(Frame(Walker)) /\ input' = {}
  /\ UNCHANGED uses

\* The instruction at 0x9b84, where the firmware is about to read its keys.
ReadKeys ==
  /\ ~cpu.asleep
  /\ Turn(IF queue.first = NULL THEN Walker
          ELSE [Walker EXCEPT !.shown = queue.value[queue.first], !.queue = Pop(@),
                              !.waiting = Tail(@)])

Sleep ==
  /\ ~cpu.asleep /\ cpu.at = "main"
  /\ Turn([Walker EXCEPT !.cpu.asleep = TRUE])

SetMask(b) ==
  /\ ~cpu.asleep /\ cpu.at = "main" /\ cpu.masked # b
  /\ Turn([Walker EXCEPT !.cpu.masked = b])

Acknowledge ==
  /\ ~cpu.asleep /\ cpu.at \in irq
  /\ Turn([Walker EXCEPT !.irq = @ \ {cpu.at}])

Return ==
  /\ ~cpu.asleep /\ cpu.at \notin {"main"} \union irq
  /\ Turn([Walker EXCEPT !.cpu.at = cpu.saved.at, !.cpu.masked = cpu.saved.masked])

Switch(s) ==
  /\ ~cpu.asleep /\ cpu.at = "main"
  /\ Turn([Walker EXCEPT !.on = IF s \in @ THEN @ \ {s} ELSE @ \union {s}])

\* An instruction the core does not know ends the program, after the frame
\* the time may still call for.
Unimplemented ==
  /\ running /\ ~cpu.asleep
  /\ running' = FALSE
  /\ Becomes(Frame(Walker)) /\ input' = {}
  /\ UNCHANGED uses

Next ==
  \/ \E romRead, eepromRead \in BOOLEAN : Load(romRead, eepromRead)
  \/ \E key \in Keys \intersect uses : KeyDown(key)
  \/ Rest \/ Compute \/ Skip \/ ReadKeys \/ Sleep
  \/ \E b \in BOOLEAN : SetMask(b)
  \/ Acknowledge \/ Return
  \/ \E s \in Switches \intersect uses : Switch(s)
  \/ Unimplemented

\* The loop of the program goes on while it runs.
Spec == Init /\ [][Next]_vars /\ WF_vars(Rest)

-----------------------------------------------------------------------------
\* q holds w, one element after the other, in the nodes s and in no other.
Listed(q, w, s) ==
  /\ q.first = IF w = <<>> THEN NULL ELSE s[1]
  /\ q.last = IF w = <<>> THEN NULL ELSE s[Len(w)]
  /\ \A i \in 1 .. Len(w) :
       /\ q.value[s[i]] = w[i]
       /\ q.next[s[i]] = IF i = Len(w) THEN NULL ELSE s[i + 1]
  /\ \A n \in q.used : \E i \in 1 .. Len(w) : s[i] = n

\* The linked list is what was put in and not yet taken out, in that order,
\* whichever freed element malloc gives back, its ends are known, and what
\* was taken out is freed.
QueueIsList == \E s \in [1 .. Len(waiting) -> queue.used] : Listed(queue, waiting, s)

\* No key stays down: what the firmware reads and what is queued alternate
\* between a key and its release, over interrupts, batches and a new session.
NoStuckKey ==
  \A i \in 1 .. Len(waiting) :
    waiting[i] = {} <=> (IF i = 1 THEN shown ELSE waiting[i - 1]) # {}

\* A handler runs awake and masked, and the one saved context is that of the
\* code it has interrupted, so that RTE goes back there.
ContextKept ==
  cpu.at # "main" =>
    cpu.masked /\ ~cpu.asleep /\ cpu.saved = [at |-> "main", masked |-> FALSE]

\* A sleeping CPU that has the RTC enabled and interrupts allowed is woken:
\* the quarter of a second comes, whatever else is pending.
QuarterWakes ==
  running /\ cpu.asleep /\ ~cpu.masked /\ "RTC" \in on ~> ~cpu.asleep \/ ~running
=============================================================================
