----------------------------- MODULE SessionImages -----------------------------
(***************************************************************************)
(* What the two files of a session promise, without the program that keeps *)
(* them: a current image and a backup.  A readable current image is only   *)
(* replaced once the backup holds it; a backup is only ever a copy of the  *)
(* current image.  This is what docs/MACOS.md:71 says of previous.pws.     *)
(***************************************************************************)
CONSTANTS Images, Missing, Corrupt
VARIABLES current, backup

vars == <<current, backup>>

Init == current = Missing /\ backup = Missing

Copy ==
  /\ current \in Images
  /\ backup' = current
  /\ UNCHANGED current

Replace(i) ==
  /\ current \in Images => backup = current
  /\ current' = i
  /\ UNCHANGED backup

DamageCurrent == current \in Images /\ current' = Corrupt /\ UNCHANGED backup
DamageBackup  == backup \in Images /\ backup' = Corrupt /\ UNCHANGED current

Next == Copy \/ (\E i \in Images : Replace(i)) \/ DamageCurrent \/ DamageBackup

Spec == Init /\ [][Next]_vars
=============================================================================
