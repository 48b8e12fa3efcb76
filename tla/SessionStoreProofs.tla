-------------------------- MODULE SessionStoreProofs --------------------------
(***************************************************************************)
(* Theorems about SessionStore, for any number of instances and images.    *)
(***************************************************************************)
EXTENDS SessionStore, TLAPS

USE DEF Files, Contents, outside

LEMMA InitType == Init => TypeOK
<1> SUFFICES ASSUME Init PROVE TypeOK
  OBVIOUS
<1>0. struck \in BOOLEAN
  BY DEF Init
<1>1. damage \in 0..MaxDamage
  BY StoreAssumption DEF Init
<1>2. /\ disk \in [Files -> Contents] /\ durable \in [Files -> Contents]
      /\ holder \in Instances \cup {None} /\ pc \in [Instances -> Steps]
      /\ \A p \in Instances : pc[p] \notin SaveSteps
  BY StoreAssumption DEF Init, Steps, SaveSteps
<1>3. /\ lastSaved \in [Instances -> Images \cup {None}] /\ raw \in [Instances -> Contents]
      /\ image \in [Instances -> Images \cup {None}]
      /\ answer \in [Instances -> {"yes", "no", "none"}] /\ promised \subseteq Images \cup {None}
  BY DEF Init
<1>4. recovered \in [Instances -> BOOLEAN]
  BY DEF Init
<1> QED
  BY <1>0, <1>1, <1>2, <1>3, <1>4, Zenon DEF TypeOK

LEMMA SaveType ==
  ASSUME TypeOK, NEW p \in Instances, Save(p)
  PROVE  TypeOK'
<1> USE StoreAssumption DEF TypeOK, Steps, SaveSteps, Readable, Return
<1>1. CASE SaveUnchanged(p)
  BY <1>1 DEF SaveUnchanged
<1>2. ASSUME NEW i \in Images, SaveBegin(p, i) PROVE TypeOK'
  BY <1>2 DEF SaveBegin
<1>3. CASE SaveCheck(p)
  BY <1>3 DEF SaveCheck, local
<1>4. CASE SaveReadRaw(p)
  BY <1>4 DEF SaveReadRaw
<1>5. CASE SaveWritePrevious(p)
  BY <1>5 DEF SaveWritePrevious, local
<1>6. CASE SaveWriteState(p)
  BY <1>6 DEF SaveWriteState, local
<1>7. CASE SaveSync(p)
  BY <1>7 DEF SaveSync
<1>8. CASE SaveFails(p)
  BY <1>8 DEF SaveFails
<1> QED
  BY <1>1, <1>2, <1>3, <1>4, <1>5, <1>6, <1>7, <1>8 DEF Save

LEMMA OpenType ==
  ASSUME TypeOK, NEW p \in Instances, Open(p) \/ OpenRefused(p) \/ Reload(p)
  PROVE  TypeOK'
<1> USE StoreAssumption DEF TypeOK, Steps, SaveSteps, Readable, Restore
<1>1. CASE Open(p)
  BY <1>1 DEF Open
<1>2. CASE OpenRefused(p)
  BY <1>2 DEF OpenRefused, vars, local
<1>3. CASE Reload(p)
  BY <1>3 DEF Reload
<1> QED
  BY <1>1, <1>2, <1>3

LEMMA ForgetType ==
  ASSUME TypeOK, NEW p \in Instances, Close(p) \/ Crash(p)
  PROVE  TypeOK'
<1>1. Forget(p) /\ UNCHANGED <<disk, durable, promised, outside>>
  BY DEF Close, Crash
<1>2. \A q \in Instances : pc'[q] \in SaveSteps => image'[q] \in Images
  BY <1>1 DEF TypeOK, Steps, SaveSteps, Forget
<1>3. damage' \in 0..MaxDamage
  BY <1>1 DEF TypeOK
<1>4. pc' \in [Instances -> Steps] /\ answer' \in [Instances -> {"yes", "no", "none"}]
  BY <1>1 DEF TypeOK, Steps, Forget
<1>5. /\ lastSaved' \in [Instances -> Images \cup {None}] /\ raw' \in [Instances -> Contents]
      /\ image' \in [Instances -> Images \cup {None}] /\ holder' \in Instances \cup {None}
  BY <1>1 DEF TypeOK, Forget
<1>6. recovered' \in [Instances -> BOOLEAN]
  BY <1>1 DEF TypeOK, Forget
<1>7. /\ disk' \in [Files -> Contents] /\ durable' \in [Files -> Contents]
      /\ promised' \subseteq Images \cup {None}
  BY <1>1 DEF TypeOK
<1>8. struck' \in BOOLEAN
  BY <1>1 DEF TypeOK
<1> QED
  BY <1>2, <1>3, <1>4, <1>5, <1>6, <1>7, <1>8, Zenon DEF TypeOK

LEMMA OutsideType ==
  ASSUME TypeOK, PowerCut \/ \E f \in Files : WriteBack(f) \/ Damage(f)
  PROVE  TypeOK'
<1> USE StoreAssumption DEF TypeOK, Steps, SaveSteps
<1>1. CASE PowerCut
  BY <1>1 DEF PowerCut
<1>2. ASSUME NEW f \in Files, WriteBack(f) PROVE TypeOK'
  BY <1>2 DEF WriteBack, local
<1>3. ASSUME NEW f \in Files, Damage(f) PROVE TypeOK'
  BY <1>3 DEF Damage, local
<1> QED
  BY <1>1, <1>2, <1>3

(* Every variable of the store keeps its type.                             *)
THEOREM TypeCorrect == Spec => []TypeOK
<1>1. TypeOK /\ [Next]_vars => TypeOK'
  <2>1. CASE UNCHANGED vars
    BY <2>1 DEF TypeOK, vars, local
  <2>2. CASE Next
    BY <2>2, OpenType, SaveType, ForgetType, OutsideType DEF Next
  <2> QED
    BY <2>1, <2>2
<1> QED
  BY InitType, <1>1, PTL DEF Spec

-----------------------------------------------------------------------------
(* The steps of a save, under a single writer.                             *)

LEMMA InitInv == Init => StoreInv
BY StoreAssumption DEF Init, StoreInv, Spared, Readable, SaveSteps

LEMMA SaveInv ==
  ASSUME TypeOK, StoreInv, NEW p \in Instances, Save(p)
  PROVE  StoreInv'
<1> USE StoreAssumption DEF TypeOK, StoreInv, Spared, Readable, Steps, SaveSteps, Return
<1>0. \A q \in Instances \ {p} : pc[q] = "closed" /\ holder = p
  BY DEF Save, SaveUnchanged, SaveBegin, SaveCheck, SaveReadRaw,
         SaveWritePrevious, SaveWriteState, SaveSync, SaveFails
<1>1. CASE SaveUnchanged(p)
  BY <1>0, <1>1 DEF SaveUnchanged
<1>2. ASSUME NEW i \in Images, SaveBegin(p, i) PROVE StoreInv'
  BY <1>0, <1>2 DEF SaveBegin
<1>3. CASE SaveCheck(p)
  BY <1>0, <1>3 DEF SaveCheck, local
<1>4. CASE SaveReadRaw(p)
  BY <1>0, <1>4 DEF SaveReadRaw
<1>5. CASE SaveWritePrevious(p)
  BY <1>0, <1>5 DEF SaveWritePrevious, local
<1>6. CASE SaveWriteState(p)
  BY <1>0, <1>6 DEF SaveWriteState, local
<1>7. CASE SaveSync(p)
  BY <1>0, <1>7 DEF SaveSync
<1>8. CASE SaveFails(p)
  BY <1>0, <1>8 DEF SaveFails
<1> QED
  BY <1>1, <1>2, <1>3, <1>4, <1>5, <1>6, <1>7, <1>8 DEF Save

LEMMA OtherInv ==
  ASSUME TypeOK, StoreInv,
         \/ \E p \in Instances :
              Open(p) \/ OpenRefused(p) \/ Reload(p) \/ Close(p) \/ Crash(p)
         \/ PowerCut
         \/ \E f \in Files : WriteBack(f) \/ Damage(f)
  PROVE  StoreInv'
<1> USE StoreAssumption DEF TypeOK, StoreInv, Spared, Readable, Steps, SaveSteps
<1>1. ASSUME NEW p \in Instances, Open(p) \/ OpenRefused(p) \/ Reload(p)
      PROVE  StoreInv'
  BY <1>1 DEF Open, OpenRefused, Reload, Restore, vars, local
<1>2. ASSUME NEW p \in Instances, Close(p) \/ Crash(p)
      PROVE  StoreInv'
  BY <1>2 DEF Close, Crash, Forget
<1>3. CASE PowerCut
  BY <1>3 DEF PowerCut
<1>4. ASSUME NEW f \in Files, WriteBack(f) PROVE StoreInv'
  BY <1>4 DEF WriteBack, local
<1>5. ASSUME NEW f \in Files, Damage(f) PROVE StoreInv'
  <2>1. damage' = damage + 1 /\ damage \in Nat /\ ~ (damage' = 0)
    BY <1>5 DEF Damage
  <2>2. CASE DamageDuring = {}
    <3>1. /\ \A p \in Instances : pc[p] \in {"closed", "idle"}
          /\ pc' = pc /\ holder' = holder /\ struck' = struck
      BY <1>5, <2>2 DEF Damage
    <3> QED
      BY <2>2, <3>1
  <2>3. CASE DamageDuring # {}
    <3>1. ~Spared'
      BY <2>1, <2>3
    <3>2. /\ pc' = pc /\ holder' = holder /\ raw' = raw
          /\ struck' = (struck \/ (f = "state" /\ \E p \in Instances : pc[p] = "readRaw"))
          /\ disk' = [disk EXCEPT ![f] = Corrupt]
      BY <1>5 DEF Damage, local
    <3>3. ASSUME NEW p \in Instances, pc'[p] = "readRaw" PROVE Readable("state")' \/ struck'
      BY <3>2, <3>3
    <3>4. ASSUME NEW p \in Instances, pc'[p] = "writePrevious" PROVE raw'[p] \in Images \/ struck'
      BY <3>2, <3>4
    <3> QED
      BY <3>1, <3>2, <3>3, <3>4
  <2> QED
    BY <2>2, <2>3
<1> QED
  BY <1>1, <1>2, <1>3, <1>4, <1>5

(* One writer at a time; what a save is about to copy is readable unless   *)
(* session.pws was damaged since it was checked; and as long as no file is *)
(* damaged in the middle of a save, a readable session.pws is about to be  *)
(* replaced only when previous.pws holds a copy of it.                     *)
THEOREM StoreSafe == Spec => [](TypeOK /\ StoreInv)
<1>1. TypeOK /\ StoreInv /\ [Next]_vars => (TypeOK /\ StoreInv)'
  <2> SUFFICES ASSUME TypeOK, StoreInv, [Next]_vars
               PROVE  TypeOK' /\ StoreInv'
    OBVIOUS
  <2>1. CASE UNCHANGED vars
    BY <2>1 DEF TypeOK, StoreInv, Spared, Readable, vars, local
  <2>2. CASE Next
    <3>1. TypeOK'
      BY <2>2, OpenType, SaveType, ForgetType, OutsideType DEF Next
    <3>2. StoreInv'
      BY <2>2, SaveInv, OtherInv DEF Next
    <3> QED
      BY <3>1, <3>2
  <2> QED
    BY <2>1, <2>2
<1> QED
  BY InitType, InitInv, <1>1, PTL DEF Spec

-----------------------------------------------------------------------------
(* Without power cuts, the files behave as SessionImages says.             *)

LEMMA StepImages ==
  ASSUME TypeOK, StoreInv, DamageDuring = {}, ~PowerCuts, [Next]_vars
  PROVE  [Promise!Next]_(Promise!vars)
<1> USE StoreAssumption
    DEF TypeOK, StoreInv, Spared, Readable, Promise!Next, Promise!vars
<1>1. CASE UNCHANGED <<disk>>
  BY <1>1
<1>2. ASSUME NEW p \in Instances, SaveWritePrevious(p)
      PROVE  Promise!Copy
  BY <1>2 DEF SaveWritePrevious, Promise!Copy
<1>3. ASSUME NEW p \in Instances, SaveWriteState(p)
      PROVE  Promise!Replace(image[p]) /\ image[p] \in Images
  BY <1>3 DEF SaveWriteState, Promise!Replace, SaveSteps
<1>4. ASSUME NEW f \in Files, Damage(f)
      PROVE  Promise!DamageCurrent \/ Promise!DamageBackup
  BY <1>4 DEF Damage, Promise!DamageCurrent, Promise!DamageBackup
<1>5. \/ UNCHANGED <<disk>>
      \/ \E p \in Instances : SaveWritePrevious(p) \/ SaveWriteState(p)
      \/ \E f \in Files : Damage(f)
  BY DEF Next, vars, Open, OpenRefused, Reload, Close, Crash, PowerCut, WriteBack,
         Save, SaveUnchanged, SaveBegin, SaveCheck, SaveReadRaw, SaveSync, SaveFails
<1> QED
  BY <1>1, <1>2, <1>3, <1>4, <1>5

(* The store keeps the promise of docs/MACOS.md:71 at every step of a      *)
(* save, whichever instances open the session and die.                     *)
THEOREM Refinement ==
  ASSUME DamageDuring = {}, ~PowerCuts
  PROVE  Spec => ImplementsImages
<1>1. Init => Promise!Init
  BY DEF Init, Promise!Init
<1>2. TypeOK /\ StoreInv /\ [Next]_vars => [Promise!Next]_(Promise!vars)
  BY StepImages
<1> QED
  BY <1>1, <1>2, StoreSafe, PTL DEF Spec, ImplementsImages, Promise!Spec

(* Only damage from outside and a power cut take the last readable file    *)
(* away, and the copy that a save makes of a session.pws damaged after the *)
(* save has checked it.  Nothing is assumed of when files are damaged.     *)
THEOREM CopyKept == Spec => LastCopyKept
<1> DEFINE Kept == (\E f \in Files : Readable(f)) /\ damage' = damage /\ ~PowerCut
                     => \/ \E f \in Files : Readable(f)'
                        \/ struck /\ \E p \in Instances : SaveWritePrevious(p)
<1>1. TypeOK /\ StoreInv /\ [Next]_vars => [Kept]_vars
  <2> SUFFICES ASSUME TypeOK, StoreInv, [Next]_vars, damage' = damage, ~PowerCut,
                      \E f \in Files : Readable(f),
                      ~ (struck /\ \E p \in Instances : SaveWritePrevious(p))
               PROVE  \E f \in Files : Readable(f)'
    OBVIOUS
  <2> USE DEF TypeOK, Readable
  <2>1. CASE UNCHANGED <<disk>>
    BY <2>1
  <2>2. ASSUME NEW p \in Instances, SaveWritePrevious(p)
        PROVE  \E f \in Files : Readable(f)'
    BY <2>2 DEF StoreInv, SaveWritePrevious
  <2>3. ASSUME NEW p \in Instances, SaveWriteState(p)
        PROVE  \E f \in Files : Readable(f)'
    BY <2>3 DEF SaveWriteState, SaveSteps
  <2>4. ASSUME NEW f \in Files, Damage(f) PROVE FALSE
    BY <2>4 DEF Damage
  <2>5. \/ UNCHANGED <<disk>>
        \/ \E p \in Instances : SaveWritePrevious(p) \/ SaveWriteState(p)
        \/ \E f \in Files : Damage(f)
    BY DEF Next, vars, Open, OpenRefused, Reload, Close, Crash, WriteBack,
           Save, SaveUnchanged, SaveBegin, SaveCheck, SaveReadRaw, SaveSync, SaveFails
  <2> QED
    BY <2>1, <2>2, <2>3, <2>4, <2>5
<1>2. LastCopyKept <=> [][Kept]_vars
  BY DEF LastCopyKept
<1> HIDE DEF Kept
<1> QED
  BY <1>1, <1>2, StoreSafe, PTL DEF Spec

-----------------------------------------------------------------------------
(* What the last synchronised save is worth, power cuts included.          *)

LEMMA InitPromise == Init => PromiseInv
BY StoreAssumption DEF Init, PromiseInv

LEMMA StepPromise ==
  ASSUME TypeOK, StoreInv, PromiseInv, [Next]_vars
  PROVE  PromiseInv'
<1> USE StoreAssumption DEF TypeOK, PromiseInv
<1>1. CASE UNCHANGED <<disk, durable, raw, promised, damage>>
  BY <1>1
<1>2. ASSUME NEW p \in Instances, Close(p) \/ Crash(p) \/ SaveUnchanged(p) \/ SaveFails(p)
      PROVE  PromiseInv'
  BY <1>2 DEF Close, Crash, Forget, SaveUnchanged, SaveFails, Return
<1>3. ASSUME NEW p \in Instances, SaveReadRaw(p) PROVE PromiseInv'
  BY <1>3 DEF SaveReadRaw, StoreInv, Readable
<1>4. ASSUME NEW p \in Instances, SaveWritePrevious(p) PROVE PromiseInv'
  BY <1>4 DEF SaveWritePrevious, local
<1>5. ASSUME NEW p \in Instances, SaveWriteState(p) PROVE PromiseInv'
  BY <1>5 DEF SaveWriteState, SaveSteps, local
<1>6. ASSUME NEW p \in Instances, SaveSync(p) PROVE PromiseInv'
  <2> SUFFICES ASSUME damage = 0 PROVE PromiseInv'
    BY <1>6 DEF SaveSync
  <2>1. image[p] \in Images /\ disk["state"] = image[p]
    BY <1>6 DEF SaveSync, SaveSteps, StoreInv, Spared
  <2> QED
    BY <1>6, <2>1 DEF SaveSync, Return
<1>7. CASE PowerCut
  BY <1>7 DEF PowerCut
<1>8. ASSUME NEW f \in Files, WriteBack(f) PROVE PromiseInv'
  BY <1>8 DEF WriteBack, local
<1>9. ASSUME NEW f \in Files, Damage(f) PROVE PromiseInv'
  BY <1>9 DEF Damage
<1> QED
  BY <1>1, <1>2, <1>3, <1>4, <1>5, <1>6, <1>7, <1>8, <1>9
  DEF Next, vars, local, Open, OpenRefused, Reload, Save, SaveBegin, SaveCheck

(* Whatever fails, dies or loses power, a restore returns the last         *)
(* synchronised image or a later one, as long as nothing damages a file.   *)
THEOREM PromiseTheorem == Spec => []PromiseKept
<1>1. TypeOK /\ StoreInv /\ PromiseInv /\ [Next]_vars => PromiseInv'
  BY StepPromise
<1>2. TypeOK /\ PromiseInv => PromiseKept
  BY StoreAssumption DEF TypeOK, PromiseInv, PromiseKept, Refuses, Restored, Readable
<1> QED
  BY InitPromise, <1>1, <1>2, StoreSafe, PTL DEF Spec

-----------------------------------------------------------------------------
(* What the answer YES is worth.                                           *)

LEMMA InitCache == Init => CacheInv
BY DEF Init, CacheInv

LEMMA StepCache ==
  ASSUME ~SyncMayFail, TypeOK, StoreInv, CacheInv, [Next]_vars
  PROVE  CacheInv'
<1> USE StoreAssumption DEF TypeOK, StoreInv, CacheInv
<1>1. CASE UNCHANGED vars
  BY <1>1 DEF vars, local
<1>2. ASSUME NEW p \in Instances, Open(p) \/ OpenRefused(p) \/ Reload(p)
      PROVE  CacheInv'
  BY <1>2 DEF Open, OpenRefused, Reload, Restore, Readable, vars, local
<1>3. ASSUME NEW p \in Instances, Close(p) \/ Crash(p)
      PROVE  CacheInv'
  BY <1>3 DEF Close, Crash, Forget
<1>4. ASSUME NEW p \in Instances, SaveUnchanged(p) PROVE CacheInv'
  BY <1>4 DEF SaveUnchanged, Return
<1>5. ASSUME NEW p \in Instances, NEW i \in Images, SaveBegin(p, i) PROVE CacheInv'
  BY <1>5 DEF SaveBegin
<1>6. ASSUME NEW p \in Instances, SaveCheck(p) \/ SaveReadRaw(p) \/ SaveWritePrevious(p)
      PROVE  CacheInv'
  BY <1>6 DEF SaveCheck, SaveReadRaw, SaveWritePrevious, local
<1>7. ASSUME NEW p \in Instances, SaveWriteState(p) PROVE CacheInv'
  BY <1>7 DEF SaveWriteState, local
<1>8. ASSUME NEW p \in Instances, SaveSync(p) PROVE CacheInv'
  <2>1. damage = 0 => disk["state"] = image[p]
    BY <1>8 DEF SaveSync, Spared
  <2> QED
    BY <1>8, <2>1 DEF SaveSync, Return
<1>9. ASSUME NEW p \in Instances, SaveFails(p) PROVE CacheInv'
  BY <1>9 DEF SaveFails, Return
<1>10. CASE PowerCut
  BY <1>10 DEF PowerCut
<1>11. ASSUME NEW f \in Files, WriteBack(f) \/ Damage(f) PROVE CacheInv'
  BY <1>11 DEF WriteBack, Damage, local
<1> QED
  BY <1>1, <1>2, <1>3, <1>4, <1>5, <1>6, <1>7, <1>8, <1>9, <1>10, <1>11 DEF Next, Save

(* As long as no fsync fails, a save that returned YES is in session.pws,  *)
(* also when it was skipped because the image had not changed.             *)
THEOREM AnswerTheorem ==
  ASSUME ~SyncMayFail
  PROVE  Spec => []SavedMeansStored
<1>1. TypeOK /\ StoreInv /\ CacheInv /\ [Next]_vars => CacheInv'
  BY StepCache
<1>2. CacheInv => SavedMeansStored
  BY DEF CacheInv, SavedMeansStored
<1> QED
  BY InitCache, <1>1, <1>2, StoreSafe, PTL DEF Spec
=============================================================================
