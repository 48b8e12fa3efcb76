------------------------------ MODULE SampleFifo ------------------------------
(***************************************************************************)
(* What src/src/macos_audio.c promises of the samples between the          *)
(* application and the audio device: a bounded queue.  A submission adds   *)
(* the front of its samples, a buffer for the device takes samples from    *)
(* the front of the queue, in order, and fills up with silence; or, when   *)
(* sound is off, samples are thrown away and the buffer is silent.         *)
(***************************************************************************)
EXTENDS Naturals, Sequences

CONSTANTS
  Samples,   \* sample values
  Silence,   \* the value of a silent sample
  Size,      \* samples that the queue holds
  Buffer     \* samples in a buffer of the device

VARIABLES
  queue,     \* samples submitted and not yet taken
  device     \* the last buffer given to the device

Init == queue = <<>> /\ device = <<>>

Submit ==
  /\ \E n \in 1..(Size - Len(queue)) : \E b \in [1..n -> Samples] : queue' = queue \o b
  /\ UNCHANGED device

Padded(s) == [i \in 1..Buffer |-> IF i <= Len(s) THEN s[i] ELSE Silence]

Remove(n) == queue' = SubSeq(queue, n + 1, Len(queue))

Play ==
  \E n \in 0..Len(queue) :
    /\ n <= Buffer
    /\ device' = Padded(SubSeq(queue, 1, n))
    /\ Remove(n)

Discard ==
  /\ device' = Padded(<<>>)
  /\ \E n \in 0..Len(queue) : Remove(n)

Next == Submit \/ Play \/ Discard

Spec == Init /\ [][Next]_<<queue, device>>
=============================================================================
