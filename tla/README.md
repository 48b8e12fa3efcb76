# TLA+ verification of PokeStroller

PokeStroller emulates a PokéWalker (an H8/38606F system on a chip with an EEPROM,
an LCD, an accelerometer, a buzzer and an infrared port) and wraps it in a macOS
application that saves sessions, mixes sound and links two emulators over TCP.
This directory models the parts of it that have state worth arguing about,
model-checks them with TLC on small instances and proves the central facts with
TLAPS for every instance.

Paths below are relative to the repository.  `core/` abbreviates
`src/third_party/pocketwalker/core/`: it is the native emulator core, adapted here.

## 1. Inventory

| Component | State | Operations | Interacts with | Hard behaviour | Correct when |
|---|---|---|---|---|---|
| Session store, `src/src/session_store.m` | two files, a lock, the image last saved | init, `restore:`, `save:` | application | crash and power cut between the steps of a save, failing writes, damaged files, two processes | one writer; the last readable file is never lost; a restore returns the last synchronised image or a later one |
| Application, `src/src/macos_main.m` | loaded/paused/failed, held and pulsed keys, tick count | load, reload, pause, tick, autosave, keys, infrared menu | all of the native side | events while paused or modal, failures in mid tick, reload of a running session | keys are released with the window's focus, a failed save is reported and pauses, nothing runs after a failure |
| Emulator adapter, `src/src/emulator.cpp` | target cycle, sticky error, audio queue, infrared burst | `pw_run`, `pw_ir_*`, `pw_eeprom` | core, application | queue limits, the idle gap that ends a burst | bursts are delivered whole and in order |
| Infrared link, `src/src/ir_link.cpp` | state, two sockets, tx and rx buffers | listen, connect, poll, send, read, close | application, TCP | non-blocking connect, partial sends, peer closing, a new session over an old one | bytes arrive once, in order, and never in another session |
| Audio ring, `src/src/macos_audio.c` | two counters, a ring of samples, an active flag | submit, render, active | application thread, audio thread | lock-free single producer and consumer | no sample is overwritten before it is read, order kept |
| System on a chip, `core/soc/h838606.cpp` | clock gates | Cycle | all units | order of the units in a cycle | each enabled unit advances |
| CPU control, `core/cpu/cpu.cpp` | pc, ccr, stack, sleep | Cycle, Interrupt, RTE, SLEEP | interrupts | an interrupt between any two instructions, sleep and wake | nesting is undone in reverse order, an enabled request wakes the CPU |
| Interrupt controller, `core/soc/interrupts/interrupts.cpp` | IENR, IRR, flags of the units | Cycle | CPU, units | priorities, requests raised while masked, vectors that are not set | a pending enabled request is served, none is served twice |
| Serial bus, `core/soc/ssu/ssu.cpp` | shift register state, pin levels, chip select | register handlers, Cycle | CPU, EEPROM, LCD, accelerometer | register access racing the transfer, chip select between bytes | what the CPU wrote reaches the selected peripheral once |
| EEPROM, `core/peripherals/m95512.cpp` | command state, address, write offset, memory | Receive, Transmit, Reset | serial bus | page wrap, aborted commands | a read returns what was last written |
| LCD, `core/peripherals/ssd1854.cpp` | command state, page, column, memory, contrast | Receive | serial bus | multi-byte commands | a byte lands in the addressed column |
| Accelerometer, `core/peripherals/bma150.cpp` | command state, register offset, interrupt pin | Receive, Transmit, Cycle | serial bus, interrupts | address auto-increment | reads stay inside the registers |
| Buzzer, `core/peripherals/buzzer.cpp` | cycle accumulator, phase | Cycle | emulator adapter | fractional sample rate | exactly 32,000 samples per emulated second |
| Infrared port, `core/soc/sci3/sci3.cpp` | status bits, shift counter, receive queue | register handlers, Cycle, ReceiveIR | CPU, emulator adapter | bytes arriving while disabled, overrun of the queue | bytes are received in order, none after a clear |
| Clock, `core/soc/rtc/rtc.cpp` | quarter counter, host time, flags | Cycle | interrupts | emulated against host time | an hour or a day that passed raises its flag |
| Timers, `core/soc/timer_b1`, `core/soc/timer_w` | counters, reload, compare | Cycle, handlers | interrupts | prescaler backlog, overflow | one count per period |
| A/D converter, `core/soc/adc` | result, start bit | Cycle | CPU | instant | - |
| Memory bus, `core/soc/memory` | ROM, RAM, I/O arrays, handlers | Read, Write | all | region boundaries | every address reaches one region |
| Legacy instruction set, `src/src/walker.c` | registers, flags, pc, memory | the switch of `runNextInstruction` | legacy bus, legacy interrupts | flags over 200 cases, three widths, address wrap | a branch goes where the comparison says, the stack gives back what was pushed |
| Legacy interrupts, timers and keys, `src/src/walker.c`, `src/src/queue.c` | one saved context, request flags, timers, a linked list of keys | `setKeys`, `runSubClock`, `runNextInstruction`, image loading | Windows front end | keys queued while interrupts are masked, one saved context, timers between any two instructions | a key edge is read once and released, a handler returns to what it interrupted |
| Legacy serial bus and devices, `src/src/walker.c` | SSU registers, a shared bit counter, EEPROM, accelerometer, LCD | the SSU part of `runNextInstruction` | legacy instruction set | one counter for all devices, aborted and interleaved transfers | devices hold and give back what was sent, the LCD draws where it was told |
| Windows front end, `src/src/win_main.c` | input bits, frame timing | message loop | legacy core | two keys between two instructions | no key stays down |
| Core wrapper, `core/pokewalker` | thread, running flag | Start, Stop | core | not used by the application | - |
| Viewer and helpers, `src/src/lcdMemViewer.c`, `src/src/utils.c` | none | drawing, file reading | - | - | - |


## 2. Modules

| Module | Models | Proofs |
|---|---|---|
| `SessionStore`, abstract `SessionImages` | session store | `SessionStoreProofs` |
| `Frontend` | the macOS application: tick, keys, pauses, dialogs, loads, autosave, ends | `FrontendProofs` |
| `IrLink` | infrared link of two applications with TCP, the infrared menu, the adapter's queues | `IrLinkProofs` |
| `AudioRing`, abstract `SampleFifo` | audio ring | `AudioRingProofs` |
| `Interrupts` | one cycle of the native core seen from the interrupt lines, keys and clocks | `InterruptsProofs` |
| `LegacyAlu` | widths, flags, bit operators and branch conditions of the legacy core | `LegacyCpuProofs` |
| `LegacyCpu` (extends `LegacyAlu`), `MCLegacyCpu` | every case of the legacy instruction switch; the programs that are run | `LegacyCpuProofs` |
| `LegacyBus` | the legacy SSU with EEPROM, accelerometer and LCD, and a driver | `LegacyBusProofs` |
| `LegacyCore` | legacy interrupts, timers, RTC, sleep, key queue, image loading, the Windows loop | `LegacyCoreProofs` |

The order was: what can lose the user's data or hang first (store, application, link), then
what runs concurrently or between two instructions (audio, interrupts), then the legacy core,
which is the largest part of `src/src`.

How they compose.  `IrLink` composes three layers of the native side and two instances of
it.  `LegacyCpu` extends `LegacyAlu`.  The other boundaries are answers: a save is a
sequence of steps in `SessionStore` and an answer in `Frontend`; the tick of `Frontend` is
ten slices of `IrLink` and some cycles of `Interrupts`.  The three legacy modules partition
`runNextInstruction`: the instruction (`LegacyCpu`), the SSU after it (`LegacyBus`), the
interrupts and clocks (`LegacyCore`).  What one leaves to another is an unconstrained input
there: the bus sees any order of register accesses of a driver, the interrupts see any
instruction.

Vendored code: the native core is in `src/third_party` and adapted here.  `Interrupts` and
parts of `IrLink` model what the application depends on.  Its instruction set and its
serial devices have counterparts in the legacy core, which are modelled from `src/src`.

The twelve runs ask one question each; components that share a question share a run.

## 3. Session store

`SessionStore` models one session identifier.  Its state is the contents of the two files
as the system sees them (`disk`) and as the medium holds them (`durable`), the lock, and
for each process the fields of its `PWSessionStore` and the next statement of `save:`.
`save:` is one action per step that can be the last: validate, read again, write
previous.pws, write session.pws, synchronise.  `restore:` only reads and is one action.
Deaths of a process, power cuts, write-back and damage are actions of the environment.

The file system is assumed to order data before the name in an atomic write, so that after
a power cut a file has its old or its new contents.  Damage makes a file unreadable; it
may happen between saves, and between the steps of one that the constant `DamageDuring`
names.  Two history variables note what came from outside: `damage`, and `struck`, that
session.pws was damaged between its check and its copy by a save.

| Run | Question |
|---|---|
| `store_crash` | do the two files keep the promise of `SessionImages` when processes die and writes fail? |
| `store_power` | what does a restore return after power cuts, what does the answer YES mean when fsync works, and what takes the last readable file when files are damaged at any step of a save? |
| `store_fsync_fails` | what does the answer YES mean when fsync may fail? It expects a violation |

Two processes are enough for the lock, three images for "a later one than the last" and
"not the one before". Deadlock is checked: a session whose two files are unreadable is
refused for ever, which is the action `OpenRefused`.

The finding of `store_fsync_fails` and three smaller ones are in section 11.

Proved in `SessionStoreProofs`, for any processes and images.  `StoreInv` says what each
step of a save has established: it makes "a readable session.pws is only replaced when
previous.pws holds it" inductive, and rests on there being one writer, so the lock is part
of it.  It says so while nothing has been damaged, or only between saves (`Spared`); when
session.pws was, it says what the step may still copy.  From it follow the refinement of
`SessionImages`, what may take the last readable file (`LastCopyKept`), and, with `PromiseInv`
and `CacheInv`, what a restore and an answer are worth.

`LastCopyKept` excuses three steps: damage, a power cut, and the one save that loses a copy by
itself, which validates session.pws, reads it again damaged and writes that over the good
previous.pws (`session_store.m:83-85`).  `struck` is that case and no other; without the
excuse the run finds it.  Neither this theorem nor `StoreSafe` or `PromiseTheorem` restricts
when files are damaged.  The refinement does (no power cut, damage only between saves), because
`SessionImages` promises what a death and a failed write leave; and `AnswerTheorem` assumes a
fsync that works.

`store_power` has a fsync that works, because with one that fails YES means less
(`store_fsync_fails`); that the promise of a restore survives both is proved.

## 4. Interrupts

`Interrupts` is one cycle of `H838606::Cycle` seen from the interrupt lines.  Its state is
one record `m`: the mask bit, sleep, the context that runs (main loop or a handler), the
stack of interrupted contexts, the enable bits, the request flags, port B, the pin
selection, the clock gates and the RTC's quarters; `held` is what the user holds.

A step is a whole cycle in the order of the code: the CPU executes one instruction (or
sleeps), `Interrupts::Cycle` offers the first pending request in the order of its `if` chain,
`CPU::Interrupt` takes it or, with an empty vector, does nothing, and then the enabled units
advance and may raise flags, which the next cycle finds.  What the guest computes is left open: it may mask, unmask,
sleep, return, acknowledge a flag, switch an enable bit, a clock, the bit RUN of RTCCR1 or a
pin selection.  The RTC counts when both its clock and RUN are on.  The history variable
`elapsed` is what it has counted, up to the four quarters after which it starts again.  Keys
come between cycles, as `pw_button` does between frames.  The guest is constrained in two
ways, both visible as constants or guards: it returns only from handlers, and it sleeps only
in the main loop with interrupts enabled.

| Run | Question |
|---|---|
| `interrupts` | do frames stay matched when handlers unmask and are interrupted themselves, do the accelerometer's pulses and the keys, which share one register, leave each other alone, does a sleeping CPU enter the first requested handler or none, do the quarters fall exactly, and does the quarter-second interrupt end every sleep that may expect it? |

Two nested handlers show a frame that is neither the innermost nor the outermost; the
requests of a key, of the accelerometer and of the quarter second show every kind of branch of
the controller (the timers' requests, the half second and the second are further entries of
its chain).  The accelerometer's request has no vector: while it is pending and enabled it is
chosen in every cycle and hides the quarter second, and the CPU sleeps on, as `WakesForFirst`
says.  A quarter is two cycles and an instruction takes two, a sleeping cycle one, so quarters
are reached exactly and overshot.

`QuarterWakes` speaks of a sleep in which the quarter-second interrupt is enabled, the RTC has
its clock and RUN, and no request of higher priority is enabled that has no vector.  In each
of the other cases the guest may sleep for ever, in the code as in the model.

Fairness is WF of a cycle of a sleeping CPU: `pw_run` calls `Cycle` until the frame's cycles
are used up.  `QuarterWakes` needs it and is model-checked only.

Proved in `InterruptsProofs` for any requests, vectors, keys and depth: the types (which the
run does not repeat), that calls and returns match (`Nesting`), that the port register is what
the user holds (`PortKeepsKeys`), that a sleeping CPU wakes into the first request that has a
vector and otherwise sleeps on (`WakesTheorem`), and, for any length of a quarter and any
cycle counts up to it, that the quarters fall at the multiples of a quarter of what was counted
(`QuartersAreExact`).  The
inductive invariant is `TypeOK /\ NestingInv /\ KeysKept`: a return restores the context that
the innermost frame names, so the invariant must say of every frame, not only the last, that
its mask was clear and that the outermost and no other is the main loop's.

## 5. Audio ring

`AudioRing` is `pw_audio_submit`, `pw_audio_active` and `render` with every load, store and
copied sample a step.  `ring`, `read`, `write` and `active` are shared; `app` and `audio` hold
the step and the local variables of each thread; `device` is the last buffer enqueued.  The
counters wrap at `Wrap` as unsigned numbers do.  Atomics are release and acquire, and
`NoRace` says that no slot is written while the other thread may read it, so interleaving
the steps loses no behaviour of the C program.

| Run | Question |
|---|---|
| `audio_ring` | is a slot ever raced for, is the ring the bounded queue of `SampleFifo`, and does a sound that stays off empty it? |

A ring of two slots, counters that wrap after six and buffers of two samples meet full,
empty, partial and silent buffers, and several wraps.  Fairness is WF of each thread's
steps: the audio device calls `render` again after each buffer, the application's submission
ends in a loop without waiting.  `OffDrains` (liveness) is model-checked only.

Proved in `AudioRingProofs` for any ring size, any width of the counters that the size
divides and any buffer: types, `NoRace`, and that the ring implements `SampleFifo`.  The
inductive invariant is `TypeOK /\ Order /\ Content`.  `Order` places the four counters on the
circle (what the device has read, what it may read, what is published, what is being
written) and bounds the span by the size: this is why no slot is shared.  `Content` says that
the slots between them hold the abstract queue.

## 6. Infrared link

`IrLink` composes three layers for each instance: `link` is the `PWLink` of `ir_link.cpp`;
`app` is what `macos_main.m` keeps of it (`lastLinkState`, pause, failure) with the burst
waiting in `emulator.cpp` and the receive queue of `sci3.cpp`; `net` holds the connections.
One slice of a tick is four steps, `pw_link_poll` up to its sends, its receives, the rest of
`pumpIR`, and `pw_run`, so that the other instance may act between the system calls.
Listening, connecting, disconnecting, reloading and pausing come between slices; in the code
they come between ticks, which are ten slices.

TCP is external: it keeps the bytes of a direction in order, may deliver part of them, and
resets a connection at any moment.  The sockets of a direction hold `WireLimit` bytes, so a
send may be partial.  An end that closes throws away what it had not received; a server that
closes resets who waits in its backlog.  A connection's number is used once.

A byte carries the session in which it was emitted and its place in it.  `sent` and `got`
count, per session, what the guest emitted and what was handed to the other guest.

| Run | Question |
|---|---|
| `link_order` | while a session lasts, is what lies between the two guests exactly what one emitted after what the other was handed, in order, with all limits reached? |
| `link_sessions` | over two successive sessions, dialled over one another in any state, is no byte of one read in the other and no socket left open? |
| `link_live` | does the other end notice a close, and does what is emitted arrive or the session end? |

Two instances; three bytes and limits of one and two reach a full socket, a partial send, a
full `tx`, a full receive queue and a receive limit that is met exactly.  `RecvMax <= RxLimit`
is the code's 16 reads of 4,096 bytes against 65,536.  In `link_order` and `link_live` one
instance waits and the other connects; in `link_sessions` both may do both.

Fairness (`link_live`): slices of an instance go on while it is neither paused nor failed,
which is the timer of `macos_main.m`; TCP does not keep back arrived bytes for ever; a
handshake is answered.  The two properties excuse an instance that is paused again and again
or has failed: its peer is right to wait.  The guest is assumed to fall silent for 250 us at
some time (here because its bytes are bounded).

What these runs do not promise: bytes that arrive in the same poll as the end of the
connection are thrown away with it (`ReceiveFails`), and a third instance that connects while
a server already has a peer is shown as connected, and nobody reads it.  Nor do they follow a
byte beyond the receive queue: `got` counts it when it is handed over, and what comes to a port
that the guest has disabled is dropped there (`Handed`).

`IrLinkProofs` proves `OwnSession`, `NoLeak` and `RxNeverFull` for any number of instances and
connections and any sizes of the buffers.  The inductive invariant, `LinkInv`, ties each link
to its socket and its buffers (`Tied`: the peer's socket is an end of its connection, tx and rx
hold bytes of that session alone, rx is empty but between a poll and the exchange), says when
the emulator's queues may still hold bytes of another session (`Queued`: only while pumpIR has
not yet noticed that the link changed, or the link has failed), whose ends a connection has
(`Sound`) and which link or backlog holds each end (`Held`).

`TypeOK` and `InOrder` are proved there too, for the same parameters.  `TypeOK` bounds tx, rx
and the receive queue; a wire is any sequence of bytes.  `InOrder` speaks of the
bytes between two guests and is not inductive: a step of one end changes what lies behind it
only if the model knows who the other end is and how far it is.  `OrderInv` adds to `LinkInv`,
for each connection, the numbers in its five buffers: what waits to be handed over follows
what was handed over, the socket follows that, and what the sender still holds follows the
socket up to the last byte it emitted (`Flow`, `Follows`; an end that has not yet noticed that
it is connected has emitted nothing).  `Roles` says which of the two ends dialled and which
accepted, without which a step could not tell the sender's buffers from the receiver's.  The
bounds of `TypeOK` on the counters follow from this order and cannot be proved without it.
The two liveness properties are model-checked only.

## 7. Application

`Frontend` is `macos_main.m` without its infrared slices.  `app` are the flags of the
delegate and of the window, `keys` its `heldKeys`, `pulseKeys` and `pulseTicks` with the pins
that are high in the emulator, `modal` the dialog that is open and what is to follow it.  Four
history variables say what the user may rely on: `unsaved` (ticks since the work was stored
or exported), `told` (a failed save was reported), `given` (the user chose to give the work
up) and `lost`.  A save and an export work or fail; what a save does is `SessionStore`.

AppKit is external: a dialog takes the focus, actions run one after the other, and the timer
is one that does not run in modal panels.  A tick in which the emulator fails saves at once.

| Run | Question |
|---|---|
| `frontend` | does any order of keys, buttons, pauses, dialogs, loads, failing saves and ends leave a key down, unsaved work unannounced, or a session lost without a decision? |

Two keys are one with a long pulse and one with a short one; the lengths 6 and 3 and the
period 8 keep the order of the code's numbers (a long pulse is longer than a short one, an
autosave is rarer than both) with every remainder between them.  The program may end, so
deadlock is not checked.  Fairness is WF of the tick, the repeating timer; `PulseEnds`
needs it and excuses a user who presses buttons for ever.

Proved in `FrontendProofs` for any keys, pulses and period: types, `KeysInv`,
`AutosaveBound` and `NoSilentLoss`.  `KeysInv` is inductive with the types.  `NoSilentLoss`
needs `LossInv`: a decision to give the work up is carried through the dialog that follows
it and through the closed window, and nothing else may set it.

## 8. Legacy core: instructions

`LegacyAlu` holds what the instruction cases share: operand widths, the flag functions
`setFlags...` and the conditions of the branches.  The code computes with nibbles of 16
values; here `Nibble` is a parameter, from which bytes, words and longs follow.

`LegacyCpu` has one action per case of the switch, or per group of cases that differ in the
width alone.  An instruction is a record of what the nibbles of an opcode say; decoding is
the function from nibbles to record and is not modelled bit by bit.  `rom` is the program,
`er` the eight registers, of which R, E, RH and RL are parts.  `past` and `frames` are
history: the last two instructions with the state they found, and the open pushes.  C's
undefined division is a choice between a trap and the value of a machine that does not trap.

| Run | Question |
|---|---|
| `legacy_cpu` | over every case of the switch and every operand: do a comparison and the branch behind it agree, do push and pop, a multiplication and a division, a shift and a rotation through the carry, a bit written and a bit read? |

`MCLegacyCpu` runs short programs with `Nibble = 2`: a byte has 4 values, a word 16, a long
256, so ER0 takes every value and the memory of 16 cells wraps.  The smallest even nibble is
enough because every flag is a comparison with the middle or the end of a range; that this
does not depend on the nibble is what is proved.  An execution ends, so deadlock is not
checked.

The operators `&`, `|` and `^` of C are `And`, `Or` and `Xor` of `LegacyAlu`, which take a number
apart into its nibbles and a nibble into its bits.  The operators of the module Bitwise are
recursive, and nothing can be proved in a module that reaches them.

Proved in `LegacyCpuProofs` for every even `Nibble`, 16 among them: `CompareDecides`, that a
branch behind `setFlagsSUB` is taken exactly when the operands are in the order it names,
signed or unsigned, at the three widths; and `CarryIsBorrow`.

Proved there for whole executions, for nibbles of one to four bits, any registers, any
programs of decodable instructions and any contents of registers and memory at the start:
`CarryMoves`, `DivisionUndoes`, `BitReadsBack` and `BranchDecides`.  The properties compare the
last two instructions, so they are about what two cases of the switch have in common: the
second must find what the first left.  They exclude by name the operands for which the code
deviates (section 11): a divisor that is a part of the product, BNOT, and BST on a register;
and they speak of bits that the opcode names, not of bit numbers in a register.  The inductive invariant `CpuInv` has three parts.
Registers, flags and memory are numbers of their widths (`StateTyped`), the program consists of
instructions whose nibbles can name what they name (`Decoded`), and `History` says of each of
the last two entries of `past` what it did: the last one to the state that is now (`JustRan`),
the one before it to the state that the last one found (`RanBefore`).  `Did` gives the result
and the flags of the cases the properties speak of, `Stored` the bit that was written to a
register or a memory cell, `Tested` the bit that was read.  `Get` of a `Put` (`PutGet`) is the
lemma most of it rests on: a part of a register receives its value and the parts beside it
keep theirs, RH and RL of a word, R and E of a long.  The cases the properties do not speak of
need only keep the types.

`CpuAssumption` names what is assumed of the constants: a nibble has 2, 4, 8 or 16 values, the
stack pointer is a register, registers start with 32-bit numbers and programs are `Decoded`, as
the nibbles of any opcode are.  `BranchDecides` leaves out a branch to the next instruction,
which goes there whether it is taken or not.

`StackKept` is model-checked only.  It holds of stacks that do not grow over themselves: the
code has no limit, pc and SP are 16 bits, and a stack of 32,768 words wraps and overwrites its
bottom, after which a return goes elsewhere.  A theorem would have to assume that the programs
stay below that depth, which no part of the code ensures; the runs do.

## 9. Legacy core: serial bus

`LegacyBus` is the SSU part of `runNextInstruction` with its three devices.  `Tick` is a
clock of the bus with every branch of the code; the other actions are the driver, that is
the register writes of the firmware (which is not in the repository): it selects one device,
waits for an empty transmit register before it writes or deselects, and for the end of a
transfer before it reads.  An EEPROM address is sent as two bytes, the quotient and the
remainder by `AddressByte`, the number of values of such a byte, 256 in the code; the EEPROM
puts them together again (`Location`).  `job` is what it is doing, `copy` what a correct device would
hold.  Of the LCD's memory only the place that is written is kept.

| Run | Question |
|---|---|
| `legacy_bus` | with all kinds of transfers over one bus and one counter, do the devices hold what was sent and give it back, does the LCD draw where it was told and inside its memory, and is every byte taken? |

The EEPROM has four bytes and one page of four, an address byte has two values, and transfers
have up to two bytes at the addresses 1 and 2: so both address bytes matter, and a transfer
runs over the end of the low one.  Commands are one of each kind (low and high column, page, contrast), with the
greatest page and column, where `LcdInRange` is decided.  `Firmwares` names three sets of
transfers that together pair every kind with the one it could disturb; one set with all of
them has too many states.  Drawing goes `MaxRun` bytes from a column that was set.  Fairness
is WF of the bus clock, which runs with the CPU.

Proved in `LegacyBusProofs` for any parameters: all four invariants.  `LcdInRange` and
`LcdFollows` rest on `LcdInv`, which says when a byte is under way (`Wired`), what it will do to the LCD
(`Pending`) and that the driver's place is the LCD's place after it (`Means`): the property
itself only speaks of an empty register and is not inductive.

`DevicesKeep` and `ReadsBack` are proved for any size of the memory and the pages, any
addresses and lengths of transfers, any data and any mixture of kinds.  Neither is inductive:
in the middle of a transfer the driver has noted a byte that the device does not have, or the
device has moved past a byte that the driver has not read.  `DevInv` says so for each kind of
transfer.  `Coming` is what the device has still to take of the command and the address, the
byte in SSTDR included; after them (`Told`) the offset of the device is the number of bytes the
driver has sent or received, plus one when a byte lies ready (`Full`), and the memory differs
from the driver's copy in the byte on the bus alone (`Writing`, `Storing`).  The accelerometer
clocks its address twice, because the first clock does not empty SSTDR: the second stores the
address into the register itself (`walker.c:2679`), so until the byte is through that register
may differ, and no other.  Besides, at most one device is
selected, the other two are at rest, and the counter of the clocks may stand anywhere: no
property depends on where a transfer finds it.  The address bytes are part of it: the quotient
and the remainder that `Taking` still expects make the address again (`Splitting`), and both are
bytes because the transfer lies in the memory.  The proof needs that an address byte has at most
256 values and the memory is not larger than what two of them reach
(`EepromSize <= OffsetRange`; both are 65,536 in the code, `EEPROM_SIZE` and the two `uint8_t`
and the `uint16_t offset` of `Eeprom_t` in `definitions.h`), so it holds of every address in the
EEPROM, and that the driver keeps a transfer
inside a page and the memory, as the guards of `Begin` say.  `Completes` is model-checked only.

## 10. Legacy core: interrupts, timers and keys

`LegacyCore` is the loop of `win_main.c` around an instruction: the instruction, the
interrupts in the order of the code, two cycles with the sub-clock and both timers, the
frame.  A turn is one action for each instruction that touches this state; `Compute` stands
for all others.  `queue` is the linked list of `queue.c` with its nodes, and `waiting` is the
sequence it stands for.  A key message comes between two turns and hands over all keys since
the last one, as the code does.  The handlers of the firmware are assumed to clear the
request they serve before they return and to leave the I flag alone.

| Run | Question |
|---|---|
| `legacy_core` | keys, interrupts, timers, the RTC, sleep and a new pair of images in every order: is the list the queue, is each key released, is one saved context enough, and does the quarter of a second wake the CPU? |

The numbers keep the code's relations at a small size: several clocks in a frame, several
prescaled counts in a clock.  `FrameCycles` is no multiple of `SubCycles`, as in the code,
where the division truncates, so the phase of the two shifts.  `Sessions` gives three
sessions the keys and the switches they use: keys with the RTC, timer B1 with a key, timer W
with the RTC, whose interrupts may meet in one turn.
`MaxWaiting = 4` holds two keys with their releases; a key message is only taken when there
is room for it and for the key of a pending request.  `malloc` in the code is not bounded.
The program may end, so deadlock is not checked.  Fairness is WF of a sleeping turn: the loop
goes on.

Proved in `LegacyCoreProofs` for any keys, clocks, sessions and queue size: `QueueIsList`,
`NoStuckKey` and `ContextKept`.  The invariant `CoreInv` has four parts: the list and its
nodes (`IsList`), keys and releases in turn (`Alternate`), the context (`Kept`: a handler is
always masked, so no second interrupt overwrites it) and the room kept for a pending request
(`Reserved`), without which `Add` might find no free node.  `QuarterWakes` is model-checked
only.

## 11. Deviations met while modelling

One is checked by a run that expects a violation, `store_fsync_fails`: after a failed fsync
the cached image no longer describes the file, and a later save of it is answered YES without
being written.  The others are described where the model has them, and the properties exclude
them by name or do not reach them.

Session store: an image restored after a death between write and fsync counts as saved
(`session_store.m:66`, against the comment at line 89); `_recoveredBackup` is never cleared, so
the alert repeats on every reload (`session_store.m:69`, `macos_main.m:338`); a save validates
one read of session.pws and copies a second one (`session_store.m:83`).

Infrared link: bytes that arrive in the same poll as the end of the connection are thrown away
with it; a third instance that connects to a server with a peer is shown as connected and
nobody reads it.

Legacy instructions (`walker.c`): SUBX subtracts the new carry (1312); the carry of an addition
is set in one combination of signs only (216); INC never sets Z at the end of a range (263);
BNOT tests the number of the bit instead of the bit; BST on a register writes to memory; MULXS
does not extend the sign of Rs; DIVXS fills the high half when the quotient is negative, and
both divisions test the divisor after the result may have overwritten it; BRN:16 executes its
displacement; JSR @ER7 reads its target after the push and jumps below it (1724); MOV.B to @-ERd uses the byte as address (1985, against the comment at 1961).

Legacy devices and timers (`walker.c`): the LCD takes data while another device is selected
when its data pin is high; one shift takes seven clocks, where the comment says eight; the
accelerometer gives its first byte with the address; timer B1 is not served while the RTC is
enabled (2556); a match of timer W that finds interrupts masked is lost; CKSTPR2 is never
initialised, because its value is written to CKSTPR1 (2927), so timer W has no clock; the
divisor of the sub-clock is truncated, and subtracting a frame's cycles shifts its phase.

Windows loop: `win_main.c:145` hands over the keys accumulated since the last instruction with
each message, where `walker.h:35` speaks of one; with ENTER among them and interrupts enabled
the other key is not queued.

## 12. What is proved, and what is not

Eight modules hold the theorems listed in `PROJECT.json`.  They hold for every value of the
constants that satisfies the named assumptions, which TLC evaluates in each run.  Every
theorem about a specification is the usual argument: an inductive invariant, one step per
action, and a last step in temporal logic.

Every invariant that a run checks is stated by one of these theorems, and so are the refinements
and the action properties but one: `StackKept` of `LegacyCpu`, for the reason given in
section 8.  That property and all liveness (`QuarterWakes` of both cores, `OffDrains`,
`NoticesClose`, `Delivered`, `PulseEnds`, `Completes`), which is out of the prover's reach, are
only model-checked.

## 13. Not modelled

- The native core's serial devices (`ssu.cpp` beyond port B, `m95512.cpp`, `ssd1854.cpp`,
  the registers of `bma150.cpp`), its instruction set's arithmetic and the counting of its
  timers: vendored code whose counterparts in the legacy core are modelled.
- The buzzer and the mixing of samples: floating point.  The volume scales samples.
- The A/D converter and the dispatch of the memory bus: no state of their own.
- `core/pokewalker/pocketwalker.cpp`: no target of the repository links it.
- Drawing (`lcdMemViewer.c`, the LCD's picture), file reading (`utils.c`), the wording of
  dialogs, the registers' printing.
- Switching walking, sound and volume in the application: one assignment each.
- Real time: the pace of the frames, and the baud rate of the infrared port.

Hazards of these parts are listed in `PROJECT.json` with a note instead of a property.
