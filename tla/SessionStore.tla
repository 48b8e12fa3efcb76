----------------------------- MODULE SessionStore -----------------------------
(***************************************************************************)
(* The session store of the macOS application (src/src/session_store.m):   *)
(* session.pws holds the latest EEPROM image of a session, previous.pws a  *)
(* copy of the one before, and session.lock admits one writer.  One        *)
(* session identifier is modelled; every process that can open it is in    *)
(* Instances.  An EEPROM image is a member of Images: the container's      *)
(* version, identity, length and digest (readState:) only decide whether a *)
(* file is readable, so a file holds an image, is Missing or is Corrupt.   *)
(*                                                                         *)
(* save: is several steps, because a process can die, a write can fail and *)
(* the power can go between any two of them.  restore: only reads, first   *)
(* session.pws and then previous.pws; a file damaged in between gives what *)
(* damage before or after gives, so it is one step.                        *)
(*                                                                         *)
(* disk is what a running system reads.  durable is what the medium holds; *)
(* the system writes disk back to it whenever it likes (WriteBack), and    *)
(* fsync at once.  An atomic write replaces the file by renaming, and the  *)
(* file system orders the data before the name: after a power cut a file   *)
(* holds its old or its new contents, never a mixture.                     *)
(***************************************************************************)
EXTENDS Naturals

CONSTANTS
  Instances,      \* the processes that may open the session
  Images,         \* the EEPROM images
  Missing,        \* contents of a file that does not exist
  Corrupt,        \* contents readState: rejects
  None,           \* no image (nil)
  MaxDamage,      \* bound: how many times something outside damages a file
  DamageDuring,   \* the steps of a save during which it may do so
  SyncMayFail,    \* open or fsync of the written file may fail
  PowerCuts       \* the power may go

ASSUME StoreAssumption ==
  /\ Missing \notin Images /\ Corrupt \notin Images /\ None \notin Images
  /\ None \notin Instances
  /\ Missing # Corrupt /\ None # Missing /\ None # Corrupt
  /\ MaxDamage \in Nat
  /\ SyncMayFail \in BOOLEAN /\ PowerCuts \in BOOLEAN

Files    == {"state", "previous"}     \* session.pws and previous.pws
Contents == Images \cup {Missing, Corrupt}

(* Where an instance is: without the store, holding it, or at the next     *)
(* step of save:.                                                          *)
SaveSteps == {"readState", "readRaw", "writePrevious", "writeState", "sync"}
Steps     == {"closed", "idle"} \cup SaveSteps

VARIABLES
  disk,       \* [Files -> Contents], what a read returns
  durable,    \* [Files -> Contents], what survives a power cut
  holder,     \* the instance that holds the flock on session.lock, or None
  pc,         \* [Instances -> Steps]
  lastSaved,  \* _lastSaved of each instance's store
  raw,        \* the bytes of session.pws that save: is about to copy, or Missing
  image,      \* the argument of save:
  recovered,  \* _recoveredBackup of each instance's store
  answer,     \* history: what the latest save: returned, "yes", "no" or "none"
  promised,   \* history: the images a restore: may return after any failure
  damage,     \* history: how often a file was damaged
  struck      \* history: session.pws was damaged between the two reads of a save

local   == <<lastSaved, raw, image, recovered, answer>>
outside == <<damage, struck>>
vars    == <<disk, durable, holder, pc, local, promised, outside>>

Readable(f) == disk[f] \in Images

TypeOK ==
  /\ disk \in [Files -> Contents]
  /\ durable \in [Files -> Contents]
  /\ holder \in Instances \cup {None}
  /\ pc \in [Instances -> Steps]
  /\ lastSaved \in [Instances -> Images \cup {None}]
  /\ raw \in [Instances -> Contents]
  /\ image \in [Instances -> Images \cup {None}]
  /\ \A p \in Instances : pc[p] \in SaveSteps => image[p] \in Images
  /\ recovered \in [Instances -> BOOLEAN]
  /\ answer \in [Instances -> {"yes", "no", "none"}]
  /\ promised \subseteq Images \cup {None}
  /\ damage \in 0..MaxDamage
  /\ struck \in BOOLEAN

Init ==
  /\ disk = [f \in Files |-> Missing]
  /\ durable = disk
  /\ holder = None
  /\ pc = [p \in Instances |-> "closed"]
  /\ lastSaved = [p \in Instances |-> None]
  /\ raw = [p \in Instances |-> Missing]
  /\ image = [p \in Instances |-> None]
  /\ recovered = [p \in Instances |-> FALSE]
  /\ answer = [p \in Instances |-> "none"]
  /\ promised = {None}
  /\ damage = 0
  /\ struck = FALSE

-----------------------------------------------------------------------------
(* Opening a session and reading it back.                                  *)

(* What restore: returns: the image of the first readable file; None when  *)
(* there is neither file, and the caller starts from the input EEPROM.     *)
Restored ==
  IF Readable("state") THEN disk["state"]
  ELSE IF Readable("previous") THEN disk["previous"]
  ELSE None

(* restore: reports an error: a file exists and none is readable.          *)
Refuses == Restored = None /\ \E f \in Files : disk[f] # Missing

(* A mistake: the bytes are kept as last saved without looking at them.    *)
RestoreUnchecked(p) ==
  /\ lastSaved' = [lastSaved EXCEPT ![p] = disk["state"]]
  /\ recovered' = [recovered EXCEPT ![p] = @ \/ ~Readable("state")]

(* restore:, run on the store of p.  _recoveredBackup is only ever set.    *)
Restore(p) ==
  /\ lastSaved' = [lastSaved EXCEPT ![p] =
       IF Readable("state") THEN disk["state"]
       ELSE IF Readable("previous") THEN None ELSE @]
  /\ recovered' = [recovered EXCEPT ![p] =
       @ \/ (~Readable("state") /\ Readable("previous"))]

(* A mistake: the result of flock is not looked at.                        *)
OpenWithoutLock(p) ==
  /\ pc[p] = "closed"
  /\ ~Refuses
  /\ holder' = p
  /\ pc' = [pc EXCEPT ![p] = "idle"]
  /\ Restore(p)
  /\ UNCHANGED <<disk, durable, raw, image, answer, promised, outside>>

(* loadROM:eeprom: on a session this process does not hold: a new store    *)
(* (flock with LOCK_NB), then restore:.                                    *)
Open(p) ==
  /\ pc[p] = "closed"
  /\ holder = None
  /\ ~Refuses
  /\ holder' = p
  /\ pc' = [pc EXCEPT ![p] = "idle"]
  /\ Restore(p)
  /\ UNCHANGED <<disk, durable, raw, image, answer, promised, outside>>

(* The lock is taken, or restore: reports an error: an alert, no session,  *)
(* and the files are left as they are.                                     *)
OpenRefused(p) ==
  /\ pc[p] = "closed"
  /\ holder # None \/ Refuses
  /\ UNCHANGED vars

(* loadROM:eeprom: on the session that is open (the Restart command, or    *)
(* the same two files chosen again): the store object is kept.             *)
Reload(p) ==
  /\ pc[p] = "idle"
  /\ ~Refuses
  /\ Restore(p)
  /\ UNCHANGED <<disk, durable, holder, pc, raw, image, answer, promised, outside>>

(* The store object goes away: its fields with it, and the lock (dealloc). *)
Forget(p) ==
  /\ holder' = None
  /\ pc' = [pc EXCEPT ![p] = "closed"]
  /\ lastSaved' = [lastSaved EXCEPT ![p] = None]
  /\ raw' = [raw EXCEPT ![p] = Missing]
  /\ image' = [image EXCEPT ![p] = None]
  /\ recovered' = [recovered EXCEPT ![p] = FALSE]
  /\ answer' = [answer EXCEPT ![p] = "none"]

(* The application opens another session or quits.                         *)
Close(p) ==
  /\ pc[p] = "idle"
  /\ Forget(p)
  /\ UNCHANGED <<disk, durable, promised, outside>>

-----------------------------------------------------------------------------
(* save:error:, one action per step that can be the last one.              *)

Return(p, reply) ==
  /\ pc' = [pc EXCEPT ![p] = "idle"]
  /\ answer' = [answer EXCEPT ![p] = reply]
  /\ raw' = [raw EXCEPT ![p] = Missing]

(* The image is the one this store saved or read last: nothing to write.   *)
SaveUnchanged(p) ==
  /\ pc[p] = "idle"
  /\ lastSaved[p] # None
  /\ image' = [image EXCEPT ![p] = lastSaved[p]]
  /\ Return(p, "yes")
  /\ UNCHANGED <<disk, durable, holder, lastSaved, recovered, promised, outside>>

(* A mistake: the image counts as saved before it is written.              *)
SaveBeginCaching(p, i) ==
  /\ pc[p] = "idle"
  /\ i # lastSaved[p]
  /\ image' = [image EXCEPT ![p] = i]
  /\ lastSaved' = [lastSaved EXCEPT ![p] = i]
  /\ pc' = [pc EXCEPT ![p] = "readState"]
  /\ answer' = [answer EXCEPT ![p] = "none"]
  /\ struck' = FALSE
  /\ UNCHANGED <<disk, durable, holder, raw, recovered, promised, damage>>

SaveBegin(p, i) ==
  /\ pc[p] = "idle"
  /\ i # lastSaved[p]
  /\ image' = [image EXCEPT ![p] = i]
  /\ pc' = [pc EXCEPT ![p] = "readState"]
  /\ answer' = [answer EXCEPT ![p] = "none"]
  /\ struck' = FALSE
  /\ UNCHANGED <<disk, durable, holder, lastSaved, raw, recovered, promised, damage>>

(* A mistake: whatever session.pws holds is copied.                        *)
SaveCheckNothing(p) ==
  /\ pc[p] = "readState"
  /\ pc' = [pc EXCEPT ![p] = IF disk["state"] # Missing THEN "readRaw" ELSE "writeState"]
  /\ UNCHANGED <<disk, durable, holder, local, promised, outside>>

(* Only a session.pws that readState: accepts is worth copying.            *)
SaveCheck(p) ==
  /\ pc[p] = "readState"
  /\ pc' = [pc EXCEPT ![p] = IF Readable("state") THEN "readRaw" ELSE "writeState"]
  /\ UNCHANGED <<disk, durable, holder, local, promised, outside>>

(* The file is read a second time, unchecked, for the copy.                *)
SaveReadRaw(p) ==
  /\ pc[p] = "readRaw"
  /\ raw' = [raw EXCEPT ![p] = disk["state"]]
  /\ pc' = [pc EXCEPT ![p] = "writePrevious"]
  /\ UNCHANGED <<disk, durable, holder, lastSaved, image, recovered,
                 answer, promised, outside>>

SaveWritePrevious(p) ==
  /\ pc[p] = "writePrevious"
  /\ disk' = [disk EXCEPT !["previous"] = raw[p]]
  /\ pc' = [pc EXCEPT ![p] = "writeState"]
  /\ UNCHANGED <<durable, holder, local, promised, outside>>

SaveWriteState(p) ==
  /\ pc[p] = "writeState"
  /\ disk' = [disk EXCEPT !["state"] = image[p]]
  /\ pc' = [pc EXCEPT ![p] = "sync"]
  /\ promised' = promised \cup {image[p]}
  /\ UNCHANGED <<durable, holder, local, outside>>

(* A mistake: the file is not synchronised.                                *)
SaveWithoutSync(p) ==
  /\ pc[p] = "sync"
  /\ lastSaved' = [lastSaved EXCEPT ![p] = image[p]]
  /\ promised' = {image[p]}
  /\ Return(p, "yes")
  /\ UNCHANGED <<disk, durable, holder, image, recovered, outside>>

SaveSync(p) ==
  /\ pc[p] = "sync"
  /\ durable' = [durable EXCEPT !["state"] = disk["state"]]
  /\ lastSaved' = [lastSaved EXCEPT ![p] = image[p]]
  /\ promised' = {image[p]}
  /\ Return(p, "yes")
  /\ UNCHANGED <<disk, holder, image, recovered, outside>>

(* The container cannot be built, a read or a write fails and leaves the   *)
(* file as it was, or the fsync fails with the new session.pws already in  *)
(* place: save: returns NO.                                                *)
SaveFails(p) ==
  /\ \/ pc[p] \in SaveSteps \ {"sync"}
     \/ pc[p] = "sync" /\ SyncMayFail
  /\ Return(p, "no")
  /\ UNCHANGED <<disk, durable, holder, lastSaved, image, recovered, promised, outside>>

-----------------------------------------------------------------------------
(* What happens around the store.                                          *)

(* The process dies; the system releases its lock.                         *)
Crash(p) ==
  /\ pc[p] # "closed"
  /\ Forget(p)
  /\ UNCHANGED <<disk, durable, promised, outside>>

WriteBack(f) ==
  /\ durable[f] # disk[f]
  /\ durable' = [durable EXCEPT ![f] = disk[f]]
  /\ UNCHANGED <<disk, holder, pc, local, promised, outside>>

(* Every process dies and each file is left with what the medium held.     *)
PowerCut ==
  /\ PowerCuts
  /\ disk' = durable
  /\ holder' = None
  /\ pc' = [p \in Instances |-> "closed"]
  /\ lastSaved' = [p \in Instances |-> None]
  /\ raw' = [p \in Instances |-> Missing]
  /\ image' = [p \in Instances |-> None]
  /\ recovered' = [p \in Instances |-> FALSE]
  /\ answer' = [p \in Instances |-> "none"]
  /\ UNCHANGED <<durable, promised, outside>>

(* A user, a tool or the medium makes a file unreadable.                   *)
Damage(f) ==
  /\ damage < MaxDamage
  /\ \A p \in Instances : pc[p] \in {"closed", "idle"} \cup DamageDuring
  /\ Readable(f)
  /\ disk' = [disk EXCEPT ![f] = Corrupt]
  /\ durable' = [durable EXCEPT ![f] = Corrupt]
  /\ damage' = damage + 1
  /\ struck' = (struck \/ (f = "state" /\ \E p \in Instances : pc[p] = "readRaw"))
  /\ UNCHANGED <<holder, pc, local, promised>>

Save(p) ==
  \/ SaveUnchanged(p)
  \/ \E i \in Images : SaveBegin(p, i)
  \/ SaveCheck(p)
  \/ SaveReadRaw(p)
  \/ SaveWritePrevious(p)
  \/ SaveWriteState(p)
  \/ SaveSync(p)
  \/ SaveFails(p)

Next ==
  \/ \E p \in Instances :
       Open(p) \/ OpenRefused(p) \/ Reload(p) \/ Close(p) \/ Save(p) \/ Crash(p)
  \/ \E f \in Files : WriteBack(f) \/ Damage(f)
  \/ PowerCut

Spec == Init /\ [][Next]_vars

-----------------------------------------------------------------------------
(* Properties.                                                             *)

(* No file was damaged in the middle of a save.                            *)
Spared == damage = 0 \/ DamageDuring = {}

(* The writer is the holder of the lock, and what a save has established   *)
(* at each of its steps; the copy is readable unless the file was damaged  *)
(* between the read that checks it and the read that copies it.            *)
StoreInv ==
  /\ struck => ~Spared
  /\ \A p \in Instances :
       /\ pc[p] # "closed" <=> holder = p
       /\ pc[p] = "readRaw" => Readable("state") \/ struck
       /\ pc[p] = "writePrevious" =>
            (raw[p] \in Images \/ struck) /\ (Spared => raw[p] = disk["state"])
       /\ pc[p] = "writeState" /\ Readable("state") /\ Spared => disk["previous"] = disk["state"]
       /\ pc[p] = "sync" /\ Spared => disk["state"] = image[p]

(* No step of the program, no failed write and no death of a process takes *)
(* the last readable file away, at whatever step of a save a file is       *)
(* damaged; but for one: a save that found session.pws readable copies it  *)
(* even if it was damaged before it is read again for the copy.            *)
LastCopyKept ==
  [][(\E f \in Files : Readable(f)) /\ damage' = damage /\ ~PowerCut
       => \/ \E f \in Files : Readable(f)'
          \/ struck /\ \E p \in Instances : SaveWritePrevious(p)]_vars

(* The two files behave as SessionImages says, whichever instances open    *)
(* the session, save into it and die at any step.                          *)
Promise == INSTANCE SessionImages WITH current <- disk["state"], backup <- disk["previous"]

ImplementsImages == Promise!Spec

(* While nothing outside damages a file: after any sequence of saves,      *)
(* failures, deaths and power cuts, a restore is not refused and returns   *)
(* the last synchronised image or one written since.                       *)
PromiseKept == damage = 0 => ~Refuses /\ Restored \in promised

(* Why: until the first synchronised image, what either file or either     *)
(* copy of it holds has been promised, and so has starting afresh.         *)
PromiseInv ==
  damage = 0 =>
    /\ {disk["state"], durable["state"]} \subseteq promised \cup {Missing}
    /\ Corrupt \notin {disk["previous"], durable["previous"]} \cup {raw[p] : p \in Instances}
    /\ disk["state"] = Missing => durable["state"] = Missing
    /\ durable["state"] = Missing =>
         /\ None \in promised
         /\ {disk["previous"], durable["previous"]} \cup {raw[p] : p \in Instances}
              \subseteq promised \cup {Missing}

(* When save: returns YES, session.pws holds its argument.                 *)
SavedMeansStored ==
  \A p \in Instances : damage = 0 /\ answer[p] = "yes" => disk["state"] = image[p]

(* Why: _lastSaved, when set, is what session.pws holds until the next     *)
(* image is written, so comparing with it is comparing with the file.      *)
CacheInv ==
  \A p \in Instances :
    /\ pc[p] = "closed" => lastSaved[p] = None /\ answer[p] = "none"
    /\ answer[p] = "yes" => pc[p] = "idle"
    /\ damage = 0 /\ lastSaved[p] # None /\ pc[p] # "sync" => disk["state"] = lastSaved[p]
    /\ damage = 0 /\ answer[p] = "yes" => disk["state"] = image[p]
=============================================================================
