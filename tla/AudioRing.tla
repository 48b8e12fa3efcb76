------------------------------- MODULE AudioRing -------------------------------
(***************************************************************************)
(* The ring of samples of src/src/macos_audio.c.  The application's thread *)
(* calls pw_audio_submit and pw_audio_active, the audio device's thread    *)
(* calls render.  They share two atomic counters and the flag; the ring's  *)
(* slots are not atomic, so no slot may be written while it is read.       *)
(*                                                                         *)
(* Every load, every store and every sample copied is a step.  A counter   *)
(* is an unsigned number that wraps; a slot is the counter modulo the      *)
(* size.  The volume scales a sample and changes nothing else: left out.   *)
(* The counters are stored with release and loaded with acquire, so what   *)
(* was written before a store is seen after its load: as the ring has no   *)
(* race (NoRace), interleaving the steps loses no behaviour.               *)
(***************************************************************************)
EXTENDS Naturals, Sequences

CONSTANTS
  Samples,    \* sample values
  Silence,    \* the value of a silent sample
  Size,       \* RING_SIZE
  Wrap,       \* the numbers of an unsigned
  Buffer,     \* BUFFER_SAMPLES
  MaxBatch    \* bound: samples in one submission

ASSUME AudioRingAssumption ==
  /\ Size \in Nat \ {0} /\ Buffer \in Nat \ {0} /\ MaxBatch \in Nat
  /\ Wrap \in Nat /\ Wrap >= 2 * Size /\ Wrap % Size = 0

VARIABLES
  ring, read, write, active,     \* what the threads share
  device,                        \* the buffer last enqueued
  app,                           \* pw_audio_submit: its step and its locals
  audio                          \* render: its step and its locals

vars == <<ring, read, write, active, device, app, audio>>

Counters == 0..(Wrap - 1)
Batches == UNION {[1..n -> Samples] : n \in 0..MaxBatch}

Slot(c) == c % Size
Succ(c) == (c + 1) % Wrap
Distance(from, to) == (to + Wrap - from) % Wrap       \* unsigned to - from

TypeOK ==
  /\ ring \in [0..(Size - 1) -> Samples \cup {Silence}]
  /\ read \in Counters /\ write \in Counters
  /\ active \in BOOLEAN
  /\ device \in Seq(Samples \cup {Silence}) /\ Len(device) \in {0, Buffer}
  /\ app \in [at : {"idle", "copying"}, left : Batches, read : Counters, write : Counters]
  /\ audio \in [at : {"idle", "loaded", "copying"}, read : Counters, write : Counters,
                out : Seq(Samples \cup {Silence})]
  /\ Len(audio.out) <= Buffer

(* calloc, atomic_init; the first three renders find the ring empty.       *)
Init ==
  /\ ring = [s \in 0..(Size - 1) |-> Silence]
  /\ read = 0 /\ write = 0 /\ active = FALSE /\ device = <<>>
  /\ app = [at |-> "idle", left |-> <<>>, read |-> 0, write |-> 0]
  /\ audio = [at |-> "idle", read |-> 0, write |-> 0, out |-> <<>>]

-----------------------------------------------------------------------------
(* The application's thread.                                               *)

SetActive(value) ==
  /\ app.at = "idle"
  /\ active' = value
  /\ UNCHANGED <<ring, read, write, device, app, audio>>

Submit(batch) ==
  /\ app.at = "idle" /\ active
  /\ app' = [at |-> "copying", left |-> batch, read |-> read, write |-> write]
  /\ UNCHANGED <<ring, read, write, active, device, audio>>

Room == app.left # <<>> /\ Distance(app.read, app.write) < Size

CopyIn ==
  /\ ring' = [ring EXCEPT ![Slot(app.write)] = Head(app.left)]
  /\ app' = [app EXCEPT !.left = Tail(@), !.write = Succ(@)]
  /\ UNCHANGED <<read, write, active, device, audio>>

(* A mistake: the ring is taken for full one sample too late.              *)
FillLate ==
  /\ app.at = "copying" /\ app.left # <<>> /\ Distance(app.read, app.write) <= Size
  /\ CopyIn

Fill == app.at = "copying" /\ Room /\ CopyIn

(* write = app.write: the samples are given to the other thread.  What     *)
(* found no room is lost.                                                  *)
Publish ==
  /\ app.at = "copying" /\ ~Room
  /\ write' = app.write
  /\ app' = [app EXCEPT !.at = "idle", !.left = <<>>]
  /\ UNCHANGED <<ring, read, active, device, audio>>

-----------------------------------------------------------------------------
(* The audio device's thread.                                              *)

Render ==
  /\ audio.at = "idle"
  /\ audio' = [at |-> "loaded", read |-> read, write |-> write, out |-> <<>>]
  /\ UNCHANGED <<ring, read, write, active, device, app>>

(* A mistake: a muted buffer is filled with silence and nothing else.      *)
LoadActiveKeeping ==
  /\ audio.at = "loaded"
  /\ audio' = [audio EXCEPT !.at = "copying", !.write = IF active THEN @ ELSE audio.read]
  /\ UNCHANGED <<ring, read, write, active, device, app>>

(* if (!active) read = write: everything published is thrown away.         *)
LoadActive ==
  /\ audio.at = "loaded"
  /\ audio' = [audio EXCEPT !.at = "copying", !.read = IF active THEN @ ELSE audio.write]
  /\ UNCHANGED <<ring, read, write, active, device, app>>

(* A mistake: one sample more than the buffer holds.                       *)
CopyOutOver ==
  /\ audio.at = "copying" /\ Len(audio.out) <= Buffer
  /\ audio' = [audio EXCEPT !.out = Append(@, Silence)]
  /\ UNCHANGED <<ring, read, write, active, device, app>>

CopyOut ==
  /\ audio.at = "copying" /\ Len(audio.out) < Buffer
  /\ audio' = IF audio.read # audio.write
              THEN [audio EXCEPT !.out = Append(@, ring[Slot(audio.read)]), !.read = Succ(@)]
              ELSE [audio EXCEPT !.out = Append(@, Silence)]
  /\ UNCHANGED <<ring, read, write, active, device, app>>

(* A mistake: the counter that was loaded is stored back.                  *)
EnqueueStale ==
  /\ audio.at = "copying" /\ Len(audio.out) = Buffer
  /\ read' = read
  /\ device' = audio.out
  /\ audio' = [audio EXCEPT !.at = "idle", !.out = <<>>]
  /\ UNCHANGED <<ring, write, active, app>>

Enqueue ==
  /\ audio.at = "copying" /\ Len(audio.out) = Buffer
  /\ read' = audio.read
  /\ device' = audio.out
  /\ audio' = [audio EXCEPT !.at = "idle", !.out = <<>>]
  /\ UNCHANGED <<ring, write, active, app>>

-----------------------------------------------------------------------------
AppStep   == Fill \/ Publish
AudioStep == Render \/ LoadActive \/ CopyOut \/ Enqueue

Next ==
  \/ \E value \in BOOLEAN : SetActive(value)
  \/ \E batch \in Batches : Submit(batch)
  \/ AppStep
  \/ AudioStep

(* Both threads go on: the device asks for the next buffer when it has     *)
(* played one, and pw_audio_submit is a loop that ends.                    *)
Spec == Init /\ [][Next]_vars /\ WF_vars(AppStep) /\ WF_vars(AudioStep)

-----------------------------------------------------------------------------
(* Properties.                                                             *)

(* The samples from one counter to another.                                *)
SlotAt(from, i) == Slot((from + i) % Wrap)
Between(from, to) == [i \in 1..Distance(from, to) |-> ring[SlotAt(from, i - 1)]]

SlotsBetween(from, to) == {SlotAt(from, i - 1) : i \in 1..Distance(from, to)}

(* The slots that a thread still reads or writes before it gives them up.  *)
Reading == IF audio.at = "idle" THEN {} ELSE SlotsBetween(audio.read, audio.write)
Writing == IF app.at = "copying" /\ Room THEN {Slot(app.write)} ELSE {}

(* No slot is written by one thread while it is the other's to read: the   *)
(* data race that the two atomic counters are there to prevent.  A counter *)
(* loaded by one thread may be old, but never by more than the ring.       *)
NoRace ==
  /\ Reading \cap Writing = {}
  /\ Distance(read, write) <= Size

(* The counters are those of a bounded queue: nothing is lost, repeated or *)
(* reordered between a publication and the device, whatever the counters'  *)
(* wrap and the loads in flight.                                           *)
Fifo == INSTANCE SampleFifo WITH queue <- Between(read, write)
ImplementsFifo == Fifo!Spec

(* With the sound off for good, nothing that was published is kept for     *)
(* when it comes back.                                                     *)
OffDrains == <>[](~active) => <>[](read = write)
=============================================================================
