--------------------------- MODULE FrontendProofs ---------------------------
(***************************************************************************)
(* Proofs about Frontend, for any keys, pulse lengths and autosave period. *)
(*                                                                         *)
(* TypeOK, KeysInv and AutosaveBound are inductive, one after the other.   *)
(* NoSilentLoss is not: that a session may go is decided before a dialog   *)
(* opens or a window closes, and it goes later.  LossInv says what is true *)
(* in between.                                                             *)
(***************************************************************************)
EXTENDS Frontend, TLAPS

Apps == [loaded : BOOLEAN, paused : BOOLEAN, failed : BOOLEAN, open : BOOLEAN,
         focus : BOOLEAN, ended : BOOLEAN]
KeyStates == [held : SUBSET Keys, pulsing : SUBSET Keys, left : Nat, down : SUBSET Keys]
Dialogs == [kind : {"none", "alert", "confirm", "choose"},
            next : {"none", "open", "restart", "close", "quit"}]
Amounts == 0 .. SaveTicks + 1

LEMMA Types ==
  TypeOK <=>
    /\ app \in Apps /\ keys \in KeyStates /\ modal \in Dialogs
    /\ ticks \in 0 .. SaveTicks - 1 /\ unsaved \in Amounts
    /\ told \in BOOLEAN /\ given \in BOOLEAN /\ lost \in BOOLEAN
BY DEF TypeOK, Apps, KeyStates, Dialogs, Amounts

LEMMA Elements ==
  /\ Released \in KeyStates /\ NoDialog \in Dialogs /\ Alert \in Dialogs
  /\ 0 \in Amounts /\ 0 \in 0 .. SaveTicks - 1
BY FrontendAssumption DEF Released, NoDialog, Alert, KeyStates, Dialogs, Amounts

LEMMA PulseType ==
  ASSUME NEW k \in KeyStates
  PROVE  Pulse(k) \in KeyStates
<1>1. CASE k.left # 1
  <2>1. (IF k.left = 0 THEN 0 ELSE k.left - 1) \in Nat
    BY DEF KeyStates
  <2>2. Pulse(k) = [k EXCEPT !.left = IF k.left = 0 THEN 0 ELSE k.left - 1]
    BY <1>1 DEF Pulse
  <2>. QED
    BY <2>1, <2>2 DEF KeyStates
<1>2. CASE k.left = 1
  BY <1>2 DEF Pulse, KeyStates
<1>. QED
  BY <1>1, <1>2

\* What a dialog leaves has the types of what it is given.
LEMMA OpensType ==
  ASSUME NEW dialog \in Dialogs, NEW a \in Apps, NEW k \in KeyStates,
         Opens(dialog, a, k)
  PROVE  app' \in Apps /\ keys' \in KeyStates /\ modal' \in Dialogs
<1>1. [a EXCEPT !.focus = FALSE] \in Apps
  BY DEF Apps
<1>. QED
  BY <1>1, Elements DEF Opens

LEMMA NoDialogOpensType ==
  ASSUME NEW a \in Apps, NEW k \in KeyStates, NoDialogOpens(a, k), modal \in Dialogs
  PROVE  app' \in Apps /\ keys' \in KeyStates /\ modal' \in Dialogs
BY DEF NoDialogOpens

LEMMA LoadsType ==
  ASSUME TypeOK, NEW good \in BOOLEAN, NEW recovered \in BOOLEAN, NEW u \in Amounts,
         NEW g \in BOOLEAN, NEW t \in BOOLEAN, Loads(good, recovered, u, g, t)
  PROVE  TypeOK'
<1>1. CASE good
  <2>1. app' \in Apps
    BY <1>1, Types DEF Loads, Apps
  <2>2. keys' \in KeyStates /\ modal' \in Dialogs
    BY <1>1, Elements DEF Loads
  <2>3. ticks' \in 0 .. SaveTicks - 1 /\ unsaved' \in Amounts
    BY <1>1, Elements DEF Loads
  <2>4. told' \in BOOLEAN /\ given' \in BOOLEAN /\ lost' \in BOOLEAN
    BY <1>1, Types DEF Loads, Loses
  <2>. QED
    BY <2>1, <2>2, <2>3, <2>4 DEF TypeOK, Apps, KeyStates, Dialogs, Amounts
<1>2. CASE ~good
  <2>1. app' \in Apps /\ keys' \in KeyStates /\ modal' \in Dialogs
    BY <1>2, Types, Elements, OpensType DEF Loads
  <2>2. /\ ticks' \in 0 .. SaveTicks - 1 /\ unsaved' \in Amounts
        /\ told' \in BOOLEAN /\ given' \in BOOLEAN /\ lost' \in BOOLEAN
    BY <1>2, Types DEF Loads
  <2>. QED
    BY <2>1, <2>2 DEF TypeOK, Apps, KeyStates, Dialogs, Amounts
<1>. QED
  BY <1>1, <1>2

LEMMA EndsType ==
  ASSUME TypeOK, NEW u \in Amounts, NEW g \in BOOLEAN, Ends(u, g)
  PROVE  TypeOK'
<1>1. app' \in Apps
  BY Types DEF Ends, Apps
<1>2. keys' \in KeyStates /\ modal' \in Dialogs
  BY Elements DEF Ends
<1>3. /\ ticks' \in 0 .. SaveTicks - 1 /\ unsaved' \in Amounts
      /\ told' \in BOOLEAN /\ given' \in BOOLEAN /\ lost' \in BOOLEAN
  BY Types DEF Ends, Loses
<1>. QED
  BY <1>1, <1>2, <1>3 DEF TypeOK, Apps, KeyStates, Dialogs, Amounts

LEMMA ProceedsType ==
  ASSUME TypeOK, NEW next, NEW u \in Amounts, NEW g \in BOOLEAN, NEW t \in BOOLEAN,
         Proceeds(next, u, g, t)
  PROVE  TypeOK'
<1>. DEFINE dialog == [kind |-> "choose", next |-> "open"]
<1>1. CASE Opens(dialog, app, keys) /\ unsaved' = u /\ told' = t /\ given' = g
           /\ UNCHANGED <<ticks, lost>>
  <2>1. dialog \in Dialogs
    BY DEF Dialogs
  <2>2. app' \in Apps /\ keys' \in KeyStates /\ modal' \in Dialogs
    BY <1>1, <2>1, Types, OpensType
  <2>. QED
    BY <1>1, <2>2, Types DEF TypeOK, Apps, KeyStates, Dialogs, Amounts
<1>2. CASE \E good, recovered \in BOOLEAN : Loads(good, recovered, u, g, t)
  BY <1>2, LoadsType
<1>3. CASE /\ app' = [app EXCEPT !.open = FALSE, !.focus = FALSE]
           /\ keys' = Released /\ modal' = NoDialog
           /\ unsaved' = u /\ told' = t /\ given' = g
           /\ UNCHANGED <<ticks, lost>>
  <2>1. app' \in Apps
    BY <1>3, Types DEF Apps
  <2>. QED
    BY <1>3, <2>1, Types, Elements DEF TypeOK, Apps, KeyStates, Dialogs, Amounts
<1>4. CASE Ends(u, g)
  BY <1>4, EndsType
<1>. QED
  BY <1>1, <1>2, <1>3, <1>4 DEF Proceeds

LEMMA TickType ==
  ASSUME TypeOK, NEW runs \in BOOLEAN, NEW rescued \in BOOLEAN, NEW saved \in BOOLEAN,
         Tick(runs, rescued, saved)
  PROVE  TypeOK'
<1>1. [app EXCEPT !.failed = ~runs] \in Apps
  BY Types DEF Apps
<1>2. [[app EXCEPT !.failed = ~runs] EXCEPT !.paused = TRUE] \in Apps
  BY <1>1 DEF Apps
<1>3. app' \in Apps /\ keys' \in KeyStates /\ modal' \in Dialogs
  <2>1. Pulse(keys) \in KeyStates
    BY Types, PulseType
  <2>2. CASE Due /\ ~saved
    BY <1>2, <2>1, <2>2, Elements, OpensType DEF Tick
  <2>3. CASE ~(Due /\ ~saved)
    BY <1>1, <2>1, <2>3, Types, NoDialogOpensType DEF Tick
  <2>. QED
    BY <2>2, <2>3
<1>4. ticks' \in 0 .. SaveTicks - 1
  BY Types, FrontendAssumption DEF Tick
<1>5. unsaved' \in Amounts
  BY Types, FrontendAssumption DEF Tick, Amounts
<1>6. told' \in BOOLEAN /\ given' \in BOOLEAN /\ lost' \in BOOLEAN
  BY Types DEF Tick
<1>. QED
  BY <1>3, <1>4, <1>5, <1>6 DEF TypeOK, Apps, KeyStates, Dialogs, Amounts

LEMMA TypeNext == TypeOK /\ [Next]_vars => TypeOK'
<1>. SUFFICES ASSUME TypeOK, [Next]_vars PROVE TypeOK'
  OBVIOUS
<1>. DEFINE Others == /\ ticks' \in 0 .. SaveTicks - 1 /\ unsaved' \in Amounts
                      /\ told' \in BOOLEAN /\ given' \in BOOLEAN /\ lost' \in BOOLEAN
            Parts == app' \in Apps /\ keys' \in KeyStates /\ modal' \in Dialogs
<1>0. ASSUME Parts, Others PROVE TypeOK'
  BY <1>0 DEF TypeOK, Apps, KeyStates, Dialogs, Amounts
<1>1. CASE AnyTick
  BY <1>1, TickType DEF AnyTick
<1>2. ASSUME NEW k \in Keys, KeyDown(k) \/ KeyUp(k) \/ PressKey(k) PROVE TypeOK'
  <2>1. keys' \in KeyStates
    <3>1. CASE KeyDown(k) \/ KeyUp(k)
      <4>1. ASSUME NEW h \in SUBSET Keys, NEW d \in SUBSET Keys
            PROVE  [keys EXCEPT !.held = h, !.down = d] \in KeyStates
        BY Types DEF KeyStates
      <4>2. keys.held \in SUBSET Keys /\ keys.down \in SUBSET Keys
        BY Types DEF KeyStates
      <4>3. \/ keys' = [keys EXCEPT !.held = keys.held \union {k}, !.down = keys.down \union {k}]
            \/ keys' = [keys EXCEPT !.held = keys.held \ {k}, !.down = keys.down \ {k}]
        BY <3>1 DEF KeyDown, KeyUp
      <4>4. /\ keys.held \union {k} \in SUBSET Keys /\ keys.down \union {k} \in SUBSET Keys
            /\ keys.held \ {k} \in SUBSET Keys /\ keys.down \ {k} \in SUBSET Keys
        BY <4>2
      <4>. QED
        BY <4>1, <4>3, <4>4
    <3>2. CASE PressKey(k)
      <4>1. (IF k = CENTER THEN Long ELSE Short) \in Nat
        BY FrontendAssumption
      <4>2. PICK n \in Nat : keys' = [keys EXCEPT !.pulsing = @ \union {k},
                                                  !.down = @ \union {k}, !.left = n]
        BY <3>2, <4>1 DEF PressKey
      <4>. QED
        BY <4>2, Types DEF KeyStates
    <3>. QED
      BY <1>2, <3>1, <3>2
  <2>. QED
    BY <1>2, <1>0, <2>1, Types DEF KeyDown, KeyUp, PressKey, work
<1>3. CASE ResignKey \/ BecomeKey
  <2>1. app' \in Apps /\ keys' \in KeyStates
    BY <1>3, Types, Elements DEF ResignKey, BecomeKey, Apps
  <2>. QED
    BY <1>3, <1>0, <2>1, Types DEF ResignKey, BecomeKey, work
<1>4. ASSUME NEW saved \in BOOLEAN, TogglePause(saved) PROVE TypeOK'
  <2>1. [app EXCEPT !.paused = ~@] \in Apps
    BY Types DEF Apps
  <2>2. Parts
    BY <1>4, <2>1, Types, Elements, OpensType, NoDialogOpensType DEF TogglePause
  <2>3. Others
    BY <1>4, Types, Elements DEF TogglePause
  <2>. QED
    BY <1>0, <2>2, <2>3
<1>5. ASSUME NEW next \in {"open", "restart", "close", "quit"}, NEW saved \in BOOLEAN,
             Ask(next, saved)
      PROVE TypeOK'
  <2>1. CASE ~app.loaded \/ saved
    <3>1. (IF app.loaded THEN 0 ELSE unsaved) \in Amounts
      BY Types, Elements
    <3>2. (told /\ ~app.loaded) \in BOOLEAN
      OBVIOUS
    <3>3. Proceeds(next, IF app.loaded THEN 0 ELSE unsaved, FALSE, told /\ ~app.loaded)
      BY <1>5, <2>1 DEF Ask
    <3>. QED
      BY <3>1, <3>2, <3>3, ProceedsType
  <2>2. CASE ~(~app.loaded \/ saved)
    <3>1. [kind |-> "confirm", next |-> next] \in Dialogs
      BY DEF Dialogs
    <3>2. Opens([kind |-> "confirm", next |-> next], app, keys)
      BY <1>5, <2>2 DEF Ask
    <3>3. Parts
      BY <3>1, <3>2, Types, OpensType
    <3>4. Others
      BY <1>5, <2>2, Types DEF Ask
    <3>. QED
      BY <1>0, <3>3, <3>4
  <2>. QED
    BY <2>1, <2>2
<1>6. CASE Abandon
  BY <1>6, Types, ProceedsType DEF Abandon
<1>7. CASE Cancel
  <2>1. app' \in Apps
    BY <1>7, Types DEF Cancel, Back, Apps
  <2>. QED
    BY <1>7, <1>0, <2>1, Types, Elements DEF Cancel, Back
<1>8. CASE ExportFirst
  BY <1>8, Elements, ProceedsType DEF ExportFirst
<1>9. CASE ExportFails
  BY <1>9, <1>0, Types, Elements DEF ExportFails, work
<1>10. ASSUME NEW good \in BOOLEAN, NEW recovered \in BOOLEAN, Choose(good, recovered)
       PROVE TypeOK'
  BY <1>10, Types, LoadsType DEF Choose
<1>11. ASSUME NEW written \in BOOLEAN, Export(written) PROVE TypeOK'
  <2>1. Parts
    BY <1>11, Types, Elements, OpensType, NoDialogOpensType DEF Export
  <2>2. Others
    BY <1>11, Types, Elements DEF Export
  <2>. QED
    BY <1>0, <2>1, <2>2
<1>12. CASE Terminate
  BY <1>12, Types, EndsType DEF Terminate
<1>13. CASE UNCHANGED vars
  BY <1>13 DEF vars, work, TypeOK
<1>. QED
  BY <1>1, <1>2, <1>3, <1>4, <1>5, <1>6, <1>7, <1>8, <1>9, <1>10, <1>11, <1>12, <1>13
     DEF Next

\* The state of the application keeps the types its declarations give it.
THEOREM TypeCorrect == Spec => []TypeOK
<1>1. Init => TypeOK
  <2>1. Init => app \in Apps
    BY DEF Init, Apps
  <2>. QED
    BY <2>1, Elements DEF Init, TypeOK, Apps, KeyStates, Dialogs, Amounts
<1>. QED
  BY <1>1, TypeNext, PTL DEF Spec

-----------------------------------------------------------------------------
\* No key is down, held or in a pulse.
Silent(k) == k.down = {} /\ k.held = {} /\ k.pulsing = {} /\ k.left = 0

\* The keys of KeysInv that a record of keys has by itself.
Matched(k) ==
  /\ k.held \subseteq k.down /\ k.down \subseteq k.held \union k.pulsing
  /\ k.pulsing = {} <=> k.left = 0

\* Pulses end without breaking what keys have in common.
LEMMA PulseMatched ==
  ASSUME NEW k \in KeyStates, Matched(k)
  PROVE  Matched(Pulse(k)) /\ (Silent(k) => Pulse(k) = k)
<1>1. CASE k.left = 1
  BY <1>1 DEF Pulse, Matched, Silent, KeyStates
<1>2. CASE k.left = 0
  <2>1. Pulse(k) = [k EXCEPT !.left = 0]
    BY <1>2 DEF Pulse
  <2>2. [k EXCEPT !.left = 0] = k
    BY <1>2 DEF KeyStates
  <2>. QED
    BY <2>1, <2>2
<1>3. CASE k.left # 0 /\ k.left # 1
  <2>1. Pulse(k) = [k EXCEPT !.left = k.left - 1] /\ k.left - 1 # 0
    BY <1>3 DEF Pulse, KeyStates
  <2>. QED
    BY <1>3, <2>1 DEF Matched, Silent, KeyStates
<1>. QED
  BY <1>1, <1>2, <1>3

\* A dialog leaves no key down, if a window without focus had none.
LEMMA OpensKeys ==
  ASSUME NEW dialog, NEW a \in Apps, NEW k, Opens(dialog, a, k), ~a.focus => Silent(k)
  PROVE  KeysInv'
<1>1. ~app'.focus
  BY DEF Opens, Apps
<1>2. Silent(keys')
  BY DEF Opens, Silent, Released
<1>. QED
  BY <1>1, <1>2 DEF KeysInv, Silent

LEMMA LoadsKeys ==
  ASSUME TypeOK, KeysInv, NEW good, NEW recovered \in BOOLEAN, NEW u, NEW g, NEW t,
         Loads(good, recovered, u, g, t)
  PROVE  KeysInv'
<1>1. CASE good
  <2>1. Silent(keys')
    BY <1>1 DEF Loads, Silent, Released
  <2>2. modal' # NoDialog => ~app'.focus
    BY <1>1, Types DEF Loads, Apps
  <2>. QED
    BY <2>1, <2>2 DEF KeysInv, Silent
<1>2. CASE ~good
  <2>1. ~app.focus => Silent(keys)
    BY DEF KeysInv, Silent
  <2>. QED
    BY <1>2, <2>1, Types, OpensKeys DEF Loads
<1>. QED
  BY <1>1, <1>2

LEMMA ProceedsKeys ==
  ASSUME TypeOK, KeysInv, NEW next, NEW u, NEW g, NEW t, Proceeds(next, u, g, t)
  PROVE  KeysInv'
<1>. DEFINE dialog == [kind |-> "choose", next |-> "open"]
<1>1. CASE Opens(dialog, app, keys)
  <2>1. ~app.focus => Silent(keys)
    BY DEF KeysInv, Silent
  <2>. QED
    BY <1>1, <2>1, Types, OpensKeys
<1>2. CASE \E good, recovered \in BOOLEAN : Loads(good, recovered, u, g, t)
  BY <1>2, LoadsKeys
<1>3. CASE keys' = Released /\ modal' = NoDialog
  BY <1>3 DEF KeysInv, Released
<1>. QED
  BY <1>1, <1>2, <1>3 DEF Proceeds, Ends

LEMMA KeysInit == Init => KeysInv
BY DEF Init, KeysInv, Released, NoDialog

LEMMA KeysNext == TypeOK /\ KeysInv /\ [Next]_vars => KeysInv'
<1>. SUFFICES ASSUME TypeOK, KeysInv, [Next]_vars PROVE KeysInv'
  OBVIOUS
<1>a. ~app.focus => Silent(keys)
  BY DEF KeysInv, Silent
<1>1. ASSUME NEW runs \in BOOLEAN, NEW rescued \in BOOLEAN, NEW saved \in BOOLEAN,
             Tick(runs, rescued, saved)
      PROVE KeysInv'
  <2>1. Matched(Pulse(keys)) /\ (~app.focus => Silent(Pulse(keys)))
    BY <1>a, Types, PulseMatched DEF KeysInv, Matched
  <2>2. CASE Due /\ ~saved
    <3>. DEFINE a == [[app EXCEPT !.failed = ~runs] EXCEPT !.paused = TRUE]
    <3>1. a \in Apps /\ a.focus = app.focus
      BY Types DEF Apps
    <3>2. Opens(Alert, a, Pulse(keys))
      BY <1>1, <2>2 DEF Tick
    <3>. HIDE DEF a
    <3>. QED
      BY <2>1, <3>1, <3>2, OpensKeys
  <2>3. CASE ~(Due /\ ~saved)
    <3>1. app' = [app EXCEPT !.failed = ~runs] /\ keys' = Pulse(keys) /\ modal' = modal
      BY <1>1, <2>3 DEF Tick, NoDialogOpens
    <3>2. app'.focus = app.focus /\ app'.paused = FALSE /\ modal = NoDialog
      BY <1>1, <3>1, Types DEF Tick, Ticking, Running, Apps
    <3>. QED
      BY <2>1, <3>1, <3>2 DEF KeysInv, Matched, Silent
  <2>. QED
    BY <2>2, <2>3
<1>2. ASSUME NEW k \in Keys, KeyDown(k) \/ KeyUp(k) \/ PressKey(k) PROVE KeysInv'
  <2>1. app' = app /\ modal' = modal /\ app.focus /\ ~app.paused /\ modal = NoDialog
    BY <1>2 DEF KeyDown, KeyUp, PressKey, Heard, Ticking, Running
  <2>2. Matched(keys')
    <3>1. CASE KeyDown(k) \/ KeyUp(k)
      BY <1>2, <3>1, Types DEF KeyDown, KeyUp, KeysInv, Matched, KeyStates
    <3>2. CASE PressKey(k)
      <4>1. (IF k = CENTER THEN Long ELSE Short) # 0
        BY FrontendAssumption
      <4>2. PICK n : n # 0 /\ keys' = [keys EXCEPT !.pulsing = @ \union {k},
                                                   !.down = @ \union {k}, !.left = n]
        BY <3>2, <4>1 DEF PressKey
      <4>. QED
        BY <4>2, Types DEF KeysInv, Matched, KeyStates
    <3>. QED
      BY <1>2, <3>1, <3>2
  <2>. QED
    BY <2>1, <2>2 DEF KeysInv, Matched
<1>3. CASE ResignKey
  <2>1. Silent(keys') /\ ~app'.focus
    BY <1>3, Types DEF ResignKey, Silent, Released, Apps
  <2>. QED
    BY <2>1 DEF KeysInv, Silent
<1>4. CASE BecomeKey
  BY <1>4 DEF BecomeKey, Free, KeysInv
<1>5. ASSUME NEW saved \in BOOLEAN, TogglePause(saved) PROVE KeysInv'
  <2>. DEFINE a == [app EXCEPT !.paused = ~@]
  <2>1. a \in Apps /\ Silent(Released)
    BY Types DEF Apps, Silent, Released
  <2>2. CASE Opens(Alert, a, Released)
    <3>. HIDE DEF a
    <3>. QED
      BY <2>1, <2>2, OpensKeys
  <2>3. CASE NoDialogOpens(a, Released)
    BY <1>5, <2>1, <2>3 DEF TogglePause, Free, NoDialogOpens, KeysInv, Silent
  <2>. QED
    BY <1>5, <2>2, <2>3 DEF TogglePause
<1>6. ASSUME NEW next, NEW saved \in BOOLEAN, Ask(next, saved) PROVE KeysInv'
  <2>1. CASE ~app.loaded \/ saved
    BY <1>6, <2>1, ProceedsKeys DEF Ask
  <2>2. CASE ~(~app.loaded \/ saved)
    BY <1>a, <1>6, <2>2, Types, OpensKeys DEF Ask
  <2>. QED
    BY <2>1, <2>2
<1>7. CASE Abandon \/ ExportFirst
  BY <1>7, ProceedsKeys DEF Abandon, ExportFirst
<1>8. CASE Cancel
  <2>1. modal # NoDialog
    BY <1>8 DEF Cancel, NoDialog
  <2>2. Silent(keys)
    BY <1>a, <2>1 DEF KeysInv
  <2>. QED
    BY <1>8, <2>2 DEF Cancel, Back, KeysInv, Silent
<1>9. CASE ExportFails
  <2>1. modal # NoDialog
    BY <1>9 DEF ExportFails, NoDialog
  <2>. QED
    BY <1>9, <2>1 DEF ExportFails, KeysInv
<1>10. ASSUME NEW good \in BOOLEAN, NEW recovered \in BOOLEAN, Choose(good, recovered)
       PROVE KeysInv'
  BY <1>10, LoadsKeys DEF Choose
<1>11. ASSUME NEW written \in BOOLEAN, Export(written) PROVE KeysInv'
  <2>1. Silent(Released)
    BY DEF Silent, Released
  <2>2. CASE Opens(Alert, app, Released)
    BY <2>1, <2>2, Types, OpensKeys
  <2>3. CASE NoDialogOpens(app, Released)
    BY <1>11, <2>1, <2>3 DEF Export, Free, NoDialogOpens, KeysInv, Silent
  <2>. QED
    BY <1>11, <2>2, <2>3 DEF Export
<1>12. CASE Terminate
  BY <1>12 DEF Terminate, Ends, KeysInv, Released
<1>13. CASE UNCHANGED vars
  BY <1>13 DEF vars, KeysInv
<1>. QED
  BY <1>1, <1>2, <1>3, <1>4, <1>5, <1>6, <1>7, <1>8, <1>9, <1>10, <1>11, <1>12, <1>13
     DEF Next, AnyTick

\* A key is down in the emulator only while somebody presses it, whatever the
\* order of keys, panel buttons, pulses, pauses, dialogs and loads.
THEOREM KeysCorrect == Spec => []KeysInv
BY KeysInit, KeysNext, TypeCorrect, PTL DEF Spec

-----------------------------------------------------------------------------
LEMMA LoadsBound ==
  ASSUME TypeOK, NEW good, NEW recovered, NEW u \in Amounts, NEW g, NEW t \in BOOLEAN,
         Loads(good, recovered, u, g, t), app.loaded /\ ~t => u <= ticks
  PROVE  AutosaveBound'
<1>1. CASE good
  BY <1>1 DEF Loads, AutosaveBound
<1>2. CASE ~good
  <2>1. app'.loaded = app.loaded
    BY <1>2, Types DEF Loads, Opens, Apps
  <2>. QED
    BY <1>2, <2>1 DEF Loads, AutosaveBound
<1>. QED
  BY <1>1, <1>2

LEMMA ProceedsBound ==
  ASSUME TypeOK, NEW next, NEW u \in Amounts, NEW g, NEW t \in BOOLEAN,
         Proceeds(next, u, g, t), app.loaded /\ ~(t /\ told) => u <= ticks
  PROVE  AutosaveBound'
<1>1. CASE \E good, recovered \in BOOLEAN : Loads(good, recovered, u, g, t)
  BY <1>1, LoadsBound
<1>2. CASE app'.loaded = app.loaded /\ unsaved' = u /\ told' \in {t, told} /\ ticks' = ticks
  BY <1>2, Types DEF AutosaveBound
<1>3. CASE next # "restart"
  <2>1. app'.loaded = app.loaded
    BY <1>3, Types DEF Proceeds, Ends, Opens, Apps
  <2>. QED
    BY <1>2, <1>3, <2>1 DEF Proceeds, Ends
<1>. QED
  BY <1>1, <1>3 DEF Proceeds

LEMMA BoundNext == TypeOK /\ AutosaveBound /\ [Next]_vars => AutosaveBound'
<1>. SUFFICES ASSUME TypeOK, AutosaveBound, [Next]_vars PROVE AutosaveBound'
  OBVIOUS
<1>0. ASSUME app'.loaded = app.loaded, told' = told, unsaved' = unsaved, ticks' = ticks
      PROVE  AutosaveBound'
  BY <1>0 DEF AutosaveBound
<1>1. ASSUME NEW runs \in BOOLEAN, NEW rescued \in BOOLEAN, NEW saved \in BOOLEAN,
             Tick(runs, rescued, saved)
      PROVE AutosaveBound'
  <2>. DEFINE kept == (~runs /\ rescued) \/ (Due /\ saved)
  <2>1. CASE kept
    BY <1>1, <2>1, Types, FrontendAssumption DEF Tick, AutosaveBound
  <2>2. CASE ~kept /\ Due
    BY <1>1, <2>2 DEF Tick, AutosaveBound
  <2>3. CASE ~kept /\ ~Due
    <3>1. ticks' = ticks + 1
      <4>1. ticks + 1 \in 0 .. SaveTicks - 1
        BY <2>3, Types, FrontendAssumption DEF Due
      <4>2. ticks' = (ticks + 1) % SaveTicks
        BY <1>1 DEF Tick
      <4>. QED
        BY <4>1, <4>2, FrontendAssumption
    <3>2. app.loaded /\ (told' => told) /\ (told => told')
      BY <1>1, <2>3, Types DEF Tick, Ticking, Running
    <3>3. unsaved' <= unsaved + 1
      BY <1>1, <2>3, Types DEF Tick, Amounts
    <3>4. unsaved' \in Int /\ unsaved \in Int /\ ticks \in Int
      BY <1>1, <2>3, Types, FrontendAssumption DEF Tick, Amounts
    <3>. QED
      BY <3>1, <3>2, <3>3, <3>4 DEF AutosaveBound
  <2>. QED
    BY <2>1, <2>2, <2>3
<1>2. ASSUME NEW k \in Keys, KeyDown(k) \/ KeyUp(k) \/ PressKey(k) PROVE AutosaveBound'
  BY <1>0, <1>2 DEF KeyDown, KeyUp, PressKey, work
<1>3. CASE ResignKey \/ BecomeKey
  <2>1. app'.loaded = app.loaded
    BY <1>3, Types DEF ResignKey, BecomeKey, Apps
  <2>. QED
    BY <1>0, <1>3, <2>1 DEF ResignKey, BecomeKey, work
<1>4. ASSUME NEW saved \in BOOLEAN, TogglePause(saved) PROVE AutosaveBound'
  <2>1. app'.loaded = app.loaded
    BY <1>4, Types DEF TogglePause, Opens, NoDialogOpens, Apps
  <2>. QED
    BY <1>4, <2>1, Types DEF TogglePause, AutosaveBound
<1>5. ASSUME NEW next, NEW saved \in BOOLEAN, Ask(next, saved) PROVE AutosaveBound'
  <2>1. CASE ~app.loaded \/ saved
    <3>. DEFINE u == IF app.loaded THEN 0 ELSE unsaved
                t == told /\ ~app.loaded
    <3>1. u \in Amounts /\ t \in BOOLEAN /\ (app.loaded => u <= ticks)
      BY Types, Elements
    <3>2. Proceeds(next, u, FALSE, t)
      BY <1>5, <2>1 DEF Ask
    <3>. HIDE DEF u, t
    <3>. QED
      BY <3>1, <3>2, ProceedsBound
  <2>2. CASE ~(~app.loaded \/ saved)
    BY <1>5, <2>2 DEF Ask, AutosaveBound
  <2>. QED
    BY <2>1, <2>2
<1>6. CASE Abandon
  BY <1>6, Types, ProceedsBound DEF Abandon, AutosaveBound
<1>7. CASE Cancel
  <2>1. app'.loaded = app.loaded
    BY <1>7, Types DEF Cancel, Back, Apps
  <2>. QED
    BY <1>0, <1>7, <2>1 DEF Cancel, Back
<1>8. CASE ExportFirst
  <2>1. 0 <= ticks
    BY Types
  <2>. QED
    BY <1>8, <2>1, Elements, ProceedsBound DEF ExportFirst
<1>9. CASE ExportFails
  BY <1>0, <1>9 DEF ExportFails, work
<1>10. ASSUME NEW good \in BOOLEAN, NEW recovered \in BOOLEAN, Choose(good, recovered)
       PROVE AutosaveBound'
  BY <1>10, Types, LoadsBound DEF Choose, AutosaveBound
<1>11. ASSUME NEW written \in BOOLEAN, Export(written) PROVE AutosaveBound'
  <2>1. app'.loaded = app.loaded
    BY <1>11, Types DEF Export, Opens, NoDialogOpens, Apps
  <2>. QED
    BY <1>11, <2>1, Types DEF Export, AutosaveBound
<1>12. CASE Terminate
  <2>1. app'.loaded = app.loaded
    BY <1>12, Types DEF Terminate, Ends, Apps
  <2>. QED
    BY <1>0, <1>12, <2>1 DEF Terminate, Ends
<1>13. CASE UNCHANGED vars
  BY <1>13 DEF vars, work, AutosaveBound
<1>. QED
  BY <1>1, <1>2, <1>3, <1>4, <1>5, <1>6, <1>7, <1>8, <1>9, <1>10, <1>11, <1>12, <1>13
     DEF Next, AnyTick

\* What the store lacks is at most the work since the last autosave, or the
\* user knows that a save has failed, for any period of the autosave.
THEOREM BoundCorrect == Spec => []AutosaveBound
<1>1. Init => AutosaveBound
  BY DEF Init, AutosaveBound
<1>. QED
  BY <1>1, BoundNext, TypeCorrect, PTL DEF Spec

-----------------------------------------------------------------------------
\* The session may go once it is saved or given up, and it may go later than
\* that: behind the dialog in which the images are chosen, or between the
\* window and the program.
LossInv ==
  /\ ~lost
  /\ app.loaded /\ (modal.kind = "choose" \/ (~app.open /\ ~app.ended)) => unsaved = 0 \/ given
  /\ modal.kind \in {"choose", "confirm"} => app.open
  /\ app.ended => modal = NoDialog

LEMMA LoadsLoss ==
  ASSUME TypeOK, LossInv, NEW good, NEW recovered \in BOOLEAN, NEW u, NEW g, NEW t,
         Loads(good, recovered, u, g, t), app.open, ~app.ended, app.loaded => u = 0 \/ g
  PROVE  LossInv'
<1>1. app'.open /\ ~app'.ended
  BY Types DEF Loads, Opens, Apps
<1>2. modal'.kind \in {"none", "alert"}
  BY DEF Loads, Opens, NoDialog, Alert
<1>3. ~lost'
  <2>1. app.loaded => ~(u > 0 /\ ~g)
    OBVIOUS
  <2>2. ~lost
    BY DEF LossInv
  <2>. QED
    BY <2>1, <2>2 DEF Loads, Loses
<1>. QED
  BY <1>1, <1>2, <1>3 DEF LossInv

LEMMA EndsLoss ==
  ASSUME TypeOK, LossInv, NEW u, NEW g, Ends(u, g), app.loaded => u = 0 \/ g
  PROVE  LossInv'
<1>1. app'.ended
  BY Types DEF Ends, Apps
<1>2. modal' = NoDialog /\ ~lost'
  <2>1. app.loaded => ~(u > 0 /\ ~g)
    OBVIOUS
  <2>2. ~lost
    BY DEF LossInv
  <2>. QED
    BY <2>1, <2>2 DEF Ends, Loses
<1>. QED
  BY <1>1, <1>2 DEF LossInv, NoDialog

LEMMA ProceedsLoss ==
  ASSUME TypeOK, LossInv, NEW next, NEW u, NEW g, NEW t, Proceeds(next, u, g, t),
         app.open, ~app.ended, app.loaded => u = 0 \/ g
  PROVE  LossInv'
<1>1. CASE \E good, recovered \in BOOLEAN : Loads(good, recovered, u, g, t)
  BY <1>1, LoadsLoss
<1>2. CASE Ends(u, g)
  BY <1>2, EndsLoss
<1>3. CASE next = "open"
  <2>1. app' = [app EXCEPT !.focus = FALSE] /\ unsaved' = u /\ given' = g /\ lost' = lost
    BY <1>3 DEF Proceeds, Opens
  <2>2. app'.open /\ ~app'.ended /\ app'.loaded = app.loaded
    BY <2>1, Types DEF Apps
  <2>. QED
    BY <2>1, <2>2 DEF LossInv
<1>4. CASE next = "close"
  <2>1. /\ app' = [app EXCEPT !.open = FALSE, !.focus = FALSE] /\ modal' = NoDialog
        /\ unsaved' = u /\ given' = g /\ lost' = lost
    BY <1>4 DEF Proceeds
  <2>2. ~app'.ended /\ app'.loaded = app.loaded
    BY <2>1, Types DEF Apps
  <2>. QED
    BY <2>1, <2>2 DEF LossInv, NoDialog
<1>. QED
  BY <1>1, <1>2, <1>3, <1>4 DEF Proceeds

LEMMA LossNext == TypeOK /\ LossInv /\ [Next]_vars => LossInv'
<1>. SUFFICES ASSUME TypeOK, LossInv, [Next]_vars PROVE LossInv'
  OBVIOUS
<1>0. ASSUME app'.loaded = app.loaded, app'.open = app.open, app'.ended = app.ended,
             modal' = modal, unsaved' \in {0, unsaved}, given' = given, lost' = lost
      PROVE  LossInv'
  BY <1>0 DEF LossInv
<1>a. ASSUME app'.open, ~app'.ended, modal'.kind # "choose", lost' = lost
      PROVE  LossInv'
  BY <1>a DEF LossInv
<1>1. ASSUME NEW runs \in BOOLEAN, NEW rescued \in BOOLEAN, NEW saved \in BOOLEAN,
             Tick(runs, rescued, saved)
      PROVE LossInv'
  <2>1. /\ app'.open = app.open /\ app'.ended = app.ended /\ app'.loaded = app.loaded
        /\ ~app.ended /\ modal = NoDialog
    BY <1>1, Types DEF Tick, Ticking, Opens, NoDialogOpens, Apps
  <2>2. modal' \in {NoDialog, Alert} /\ lost' = lost /\ given' = given
    BY <1>1, <2>1 DEF Tick, Opens, NoDialogOpens
  <2>3. ~app.open => unsaved' \in {0, unsaved}
    BY <1>1, Types DEF Tick
  <2>. QED
    BY <2>1, <2>2, <2>3 DEF LossInv, NoDialog, Alert
<1>2. ASSUME NEW k \in Keys, KeyDown(k) \/ KeyUp(k) \/ PressKey(k) PROVE LossInv'
  BY <1>0, <1>2 DEF KeyDown, KeyUp, PressKey, work
<1>3. CASE ResignKey \/ BecomeKey
  <2>1. app'.loaded = app.loaded /\ app'.open = app.open /\ app'.ended = app.ended
    BY <1>3, Types DEF ResignKey, BecomeKey, Apps
  <2>. QED
    BY <1>0, <1>3, <2>1 DEF ResignKey, BecomeKey, work
<1>4. ASSUME NEW saved \in BOOLEAN, TogglePause(saved) PROVE LossInv'
  <2>1. app'.open /\ ~app'.ended
    BY <1>4, Types DEF TogglePause, Free, Opens, NoDialogOpens, Apps
  <2>2. modal'.kind # "choose" /\ lost' = lost
    BY <1>4 DEF TogglePause, Free, Opens, NoDialogOpens, Alert, NoDialog
  <2>. QED
    BY <1>a, <2>1, <2>2
<1>5. ASSUME NEW next, NEW saved \in BOOLEAN, Ask(next, saved) PROVE LossInv'
  <2>1. app.open /\ ~app.ended
    BY <1>5 DEF Ask, Free
  <2>2. CASE ~app.loaded \/ saved
    BY <1>5, <2>1, <2>2, ProceedsLoss DEF Ask
  <2>3. CASE ~(~app.loaded \/ saved)
    <3>1. app'.open /\ ~app'.ended
      BY <1>5, <2>1, <2>3, Types DEF Ask, Opens, Apps
    <3>2. modal'.kind # "choose" /\ lost' = lost
      BY <1>5, <2>3 DEF Ask, Opens
    <3>. QED
      BY <1>a, <3>1, <3>2
  <2>. QED
    BY <2>2, <2>3
<1>6. CASE Abandon \/ ExportFirst
  <2>1. app.open /\ ~app.ended
    <3>1. modal.kind = "confirm"
      BY <1>6 DEF Abandon, ExportFirst
    <3>. QED
      BY <3>1 DEF LossInv, NoDialog
  <2>. QED
    BY <1>6, <2>1, ProceedsLoss DEF Abandon, ExportFirst
<1>7. CASE Cancel
  <2>1. app'.loaded = app.loaded /\ app'.open = app.open /\ app'.ended = app.ended
    BY <1>7, Types DEF Cancel, Back, Apps
  <2>2. /\ modal' = NoDialog /\ unsaved' = unsaved /\ lost' = lost
        /\ ~app.open => given' = given
    BY <1>7, Types DEF Cancel, Back
  <2>. QED
    BY <2>1, <2>2 DEF LossInv, NoDialog
<1>8. CASE ExportFails
  <2>1. app' = app /\ app.open /\ ~app.ended /\ lost' = lost
    BY <1>8 DEF ExportFails, LossInv, NoDialog, work
  <2>2. modal'.kind # "choose"
    BY <1>8 DEF ExportFails, Alert
  <2>. QED
    BY <1>a, <2>1, <2>2
<1>9. ASSUME NEW good \in BOOLEAN, NEW recovered \in BOOLEAN, Choose(good, recovered)
      PROVE LossInv'
  <2>1. app.open /\ ~app.ended /\ (app.loaded => unsaved = 0 \/ given)
    BY <1>9 DEF Choose, LossInv, NoDialog
  <2>. QED
    BY <1>9, <2>1, LoadsLoss DEF Choose
<1>10. ASSUME NEW written \in BOOLEAN, Export(written) PROVE LossInv'
  <2>1. app'.open /\ ~app'.ended
    BY <1>10, Types DEF Export, Free, Opens, NoDialogOpens, Apps
  <2>2. modal'.kind # "choose" /\ lost' = lost
    BY <1>10 DEF Export, Free, Opens, NoDialogOpens, Alert, NoDialog
  <2>. QED
    BY <1>a, <2>1, <2>2
<1>11. CASE Terminate
  <2>1. app.loaded => unsaved = 0 \/ given
    BY <1>11 DEF Terminate, LossInv
  <2>. QED
    BY <1>11, <2>1, EndsLoss DEF Terminate
<1>12. CASE UNCHANGED vars
  BY <1>12 DEF vars, work, LossInv
<1>. QED
  BY <1>1, <1>2, <1>3, <1>4, <1>5, <1>6, <1>7, <1>8, <1>9, <1>10, <1>11, <1>12
     DEF Next, AnyTick

\* No session is replaced or left with work that is neither saved nor given
\* up, whatever the order of dialogs, failing saves, loads and ends.
THEOREM LossCorrect == Spec => []NoSilentLoss
<1>1. Init => LossInv
  BY DEF Init, LossInv, NoDialog
<1>2. LossInv => NoSilentLoss
  BY DEF LossInv, NoSilentLoss
<1>. QED
  BY <1>1, <1>2, LossNext, TypeCorrect, PTL DEF Spec
=============================================================================
