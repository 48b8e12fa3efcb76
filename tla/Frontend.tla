----------------------------- MODULE Frontend ------------------------------
(***************************************************************************)
(* The macOS application around the emulator (src/src/macos_main.m): the   *)
(* timer tick, the keys of the keyboard and of the panel, the pauses, the  *)
(* dialogs, the autosave and the ends of a session.  AppKit is modelled by *)
(* what the code uses of it: a dialog takes the focus from the window, and *)
(* the actions of the application run one after the other.                 *)
(*                                                                         *)
(* What a save does is the module SessionStore; here it works or fails.    *)
(***************************************************************************)
EXTENDS Integers

CONSTANTS
  Keys,       \* PW_LEFT, PW_CENTER and PW_RIGHT, or some of them
  CENTER,     \* the key of a long pulse
  Long,       \* ticks of a pulse of the center key
  Short,      \* ticks of a pulse of another key
  SaveTicks   \* ticks between two autosaves

ASSUME FrontendAssumption ==
  /\ Long \in Nat \ {0} /\ Short \in Nat \ {0} /\ SaveTicks \in Nat \ {0}

VARIABLES
  app,      \* loaded, paused and failed; whether the window is open, whether
            \* it has the focus (key window), and whether the program has ended
  keys,     \* heldKeys, pulseKeys, pulseTicks, and the pins that are high
  ticks,    \* ticks, modulo SaveTicks
  modal,    \* the dialog that is open, and what is to follow it
  unsaved,  \* ticks since the session was saved or exported, up to a bound
  told,     \* whether the user has been told that a save has failed
  given,    \* whether the user has given the session up
  lost      \* whether a session has ended with work neither saved nor given up

work == <<unsaved, told, given, lost>>
vars == <<app, keys, ticks, modal, work>>

NoDialog == [kind |-> "none", next |-> "none"]
Alert == [kind |-> "alert", next |-> "none"]
Released == [held |-> {}, pulsing |-> {}, left |-> 0, down |-> {}]

TypeOK ==
  /\ app \in [loaded : BOOLEAN, paused : BOOLEAN, failed : BOOLEAN, open : BOOLEAN,
              focus : BOOLEAN, ended : BOOLEAN]
  /\ keys \in [held : SUBSET Keys, pulsing : SUBSET Keys, left : Nat, down : SUBSET Keys]
  /\ ticks \in 0 .. SaveTicks - 1
  /\ modal \in [kind : {"none", "alert", "confirm", "choose"},
                next : {"none", "open", "restart", "close", "quit"}]
  /\ unsaved \in 0 .. SaveTicks + 1
  /\ told \in BOOLEAN /\ given \in BOOLEAN /\ lost \in BOOLEAN

Init ==
  /\ app = [loaded |-> FALSE, paused |-> FALSE, failed |-> FALSE, open |-> TRUE,
            focus |-> TRUE, ended |-> FALSE]
  /\ keys = Released /\ ticks = 0 /\ modal = NoDialog
  /\ unsaved = 0 /\ told = FALSE /\ given = FALSE /\ lost = FALSE

-----------------------------------------------------------------------------
Running == app.loaded /\ ~app.paused /\ ~app.failed

\* The user's events reach the application while no dialog is open.
Free == ~app.ended /\ app.open /\ modal = NoDialog

\* A dialog takes the focus of the window, which releases all keys.
Opens(dialog, a, k) ==
  /\ modal' = dialog
  /\ app' = [a EXCEPT !.focus = FALSE]
  /\ keys' = IF a.focus THEN Released ELSE k
NoDialogOpens(a, k) == modal' = modal /\ app' = a /\ keys' = k

\* The mistake of a pulse that waits for the key to be let go.
PulseWaiting(k) ==
  IF k.left = 0 \/ k.pulsing \intersect k.held # {} THEN k
  ELSE IF k.left > 1 THEN [k EXCEPT !.left = @ - 1]
  ELSE [k EXCEPT !.left = 0, !.pulsing = {}, !.down = @ \ k.pulsing]

\* The end of a pulse releases the keys of the panel that are not held.
Pulse(k) ==
  IF k.left # 1 THEN [k EXCEPT !.left = IF @ = 0 THEN 0 ELSE @ - 1]
  ELSE [k EXCEPT !.left = 0, !.pulsing = {}, !.down = @ \ (k.pulsing \ k.held)]

\* The mistake of a timer that does not look for a dialog.
TickingThrough == Running /\ ~app.ended

\* A tick works only while the session runs and no dialog is open.
Ticking == Running /\ ~app.ended /\ modal = NoDialog

\* The mistake of a count that starts at one.
DueLate == ticks = SaveTicks

Due == ticks = SaveTicks - 1

\* tick.  In a tick in which the emulator fails the session is saved at once,
\* and again if the autosave is due.  What is played after the window was
\* closed, until the program ends, is not counted as work.
Tick(runs, rescued, saved) ==
  LET kept == (~runs /\ rescued) \/ (Due /\ saved)
      a == [app EXCEPT !.failed = ~runs]
  IN /\ Ticking
     /\ ticks' = (ticks + 1) % SaveTicks
     /\ IF Due /\ ~saved THEN Opens(Alert, [a EXCEPT !.paused = TRUE], Pulse(keys))
                         ELSE NoDialogOpens(a, Pulse(keys))
     /\ unsaved' = IF kept THEN 0
                   ELSE IF app.open /\ unsaved <= SaveTicks THEN unsaved + 1 ELSE unsaved
     /\ told' = IF Due /\ ~saved THEN TRUE ELSE told /\ ~kept
     /\ UNCHANGED <<given, lost>>

-----------------------------------------------------------------------------
\* A key of the keyboard, seen by the event monitor.
Heard == Ticking /\ app.focus
KeyDown(k) ==
  /\ Heard
  /\ keys' = [keys EXCEPT !.held = @ \union {k}, !.down = @ \union {k}]
  /\ UNCHANGED <<app, ticks, modal, work>>
KeyUp(k) ==
  /\ Heard
  /\ keys' = [keys EXCEPT !.held = @ \ {k}, !.down = @ \ {k}]
  /\ UNCHANGED <<app, ticks, modal, work>>

\* A button of the panel.  All pulses share one count.
PressKey(k) ==
  /\ Heard
  /\ keys' = [keys EXCEPT !.pulsing = @ \union {k}, !.down = @ \union {k},
                          !.left = IF k = CENTER THEN Long ELSE Short]
  /\ UNCHANGED <<app, ticks, modal, work>>

\* The mistake of a window that keeps its keys when it loses the focus.
ResignKeyHolding ==
  /\ ~app.ended /\ app.focus
  /\ app' = [app EXCEPT !.focus = FALSE]
  /\ UNCHANGED <<keys, ticks, modal, work>>

ResignKey ==
  /\ ~app.ended /\ app.focus
  /\ app' = [app EXCEPT !.focus = FALSE]
  /\ keys' = Released
  /\ UNCHANGED <<ticks, modal, work>>
BecomeKey ==
  /\ Free /\ ~app.focus
  /\ app' = [app EXCEPT !.focus = TRUE]
  /\ UNCHANGED <<keys, ticks, modal, work>>

TogglePause(saved) ==
  LET a == [app EXCEPT !.paused = ~@]
      fails == a.paused /\ ~saved
      kept == a.paused /\ saved
  IN /\ Free /\ app.loaded /\ ~app.failed
     /\ IF fails THEN Opens(Alert, a, Released) ELSE NoDialogOpens(a, Released)
     /\ unsaved' = IF kept THEN 0 ELSE unsaved
     /\ told' = IF fails THEN TRUE ELSE told /\ ~kept
     /\ UNCHANGED <<ticks, given, lost>>

-----------------------------------------------------------------------------
\* Work counts as lost when the session goes and u ticks are neither saved nor
\* exported nor, as g says, given up by the user.
Loses(u, g) == lost' = (lost \/ (app.loaded /\ u > 0 /\ ~g))

\* loadROM:eeprom:.  The images are read, the saved session is restored and
\* the emulator is made before the old session goes.
Loads(good, recovered, u, g, t) ==
  IF good
  THEN /\ app' = [app EXCEPT !.loaded = TRUE, !.failed = FALSE, !.paused = FALSE,
                             !.focus = ~recovered]
       /\ modal' = IF recovered THEN Alert ELSE NoDialog
       /\ keys' = Released /\ ticks' = 0
       /\ unsaved' = 0 /\ told' = FALSE /\ given' = FALSE /\ Loses(u, g)
  ELSE /\ Opens(Alert, app, keys)
       /\ unsaved' = u /\ told' = t /\ given' = FALSE
       /\ UNCHANGED <<ticks, lost>>

\* The end of the program.
Ends(u, g) ==
  /\ app' = [app EXCEPT !.ended = TRUE, !.open = FALSE, !.focus = FALSE]
  /\ keys' = Released /\ modal' = NoDialog
  /\ unsaved' = u /\ Loses(u, g)
  /\ UNCHANGED <<ticks, told, given>>

\* What is done once the session may go.
Proceeds(next, u, g, t) ==
  \/ /\ next = "open"
     /\ Opens([kind |-> "choose", next |-> "open"], app, keys)
     /\ unsaved' = u /\ told' = t /\ given' = g
     /\ UNCHANGED <<ticks, lost>>
  \/ /\ next = "restart"
     /\ \E good, recovered \in BOOLEAN : Loads(good, recovered, u, g, t)
  \/ /\ next = "close"
     /\ app' = [app EXCEPT !.open = FALSE, !.focus = FALSE]
     /\ keys' = Released /\ modal' = NoDialog
     /\ unsaved' = u /\ told' = t /\ given' = g
     /\ UNCHANGED <<ticks, lost>>
  \/ next = "quit" /\ Ends(u, g)

\* confirmDiscard, before the session may be replaced or left: it is saved,
\* and where that fails the user decides.
Ask(next, saved) ==
  /\ Free
  /\ next = "restart" => app.loaded
  /\ IF ~app.loaded \/ saved
     THEN Proceeds(next, IF app.loaded THEN 0 ELSE unsaved, FALSE, told /\ ~app.loaded)
     ELSE /\ Opens([kind |-> "confirm", next |-> next], app, keys)
          /\ told' = TRUE
          /\ UNCHANGED <<ticks, unsaved, given, lost>>

\* The dialog is left without a decision.  A window that was closed stays so,
\* and what was given up with it.
Back ==
  /\ modal' = NoDialog /\ app' = [app EXCEPT !.focus = app.open]
  /\ given' = (given /\ ~app.open)
  /\ UNCHANGED <<keys, ticks, unsaved, told, lost>>

Abandon == modal.kind = "confirm" /\ Proceeds(modal.next, unsaved, TRUE, told)
Cancel == modal.kind # "none" /\ Back
ExportFirst == modal.kind = "confirm" /\ Proceeds(modal.next, 0, FALSE, FALSE)

\* The export that fails shows an alert, and the session stays.
ExportFails ==
  /\ modal.kind = "confirm"
  /\ modal' = Alert
  /\ UNCHANGED <<app, keys, ticks, work>>

Choose(good, recovered) ==
  modal.kind = "choose" /\ Loads(good, recovered, unsaved, given, told)

\* exportEEPROM from the menu: its panel takes the focus and gives it back.
Export(written) ==
  /\ Free /\ app.loaded
  /\ IF written THEN NoDialogOpens(app, Released) ELSE Opens(Alert, app, Released)
  /\ unsaved' = IF written THEN 0 ELSE unsaved
  /\ told' = (told /\ ~written)
  /\ UNCHANGED <<ticks, given, lost>>

\* Closing the last window ends the program, and nobody is asked again.
Terminate ==
  /\ ~app.open /\ ~app.ended /\ modal = NoDialog
  /\ Ends(unsaved, given)

AnyTick == \E runs, rescued, saved \in BOOLEAN : Tick(runs, rescued, saved)

Next ==
  \/ AnyTick
  \/ \E k \in Keys : KeyDown(k) \/ KeyUp(k) \/ PressKey(k)
  \/ ResignKey \/ BecomeKey
  \/ \E saved \in BOOLEAN : TogglePause(saved)
  \/ \E next \in {"open", "restart", "close", "quit"}, saved \in BOOLEAN : Ask(next, saved)
  \/ Abandon \/ Cancel \/ ExportFirst \/ ExportFails
  \/ \E good, recovered \in BOOLEAN : Choose(good, recovered)
  \/ \E written \in BOOLEAN : Export(written)
  \/ Terminate

\* The timer repeats.  The user need never do anything.
Spec == Init /\ [][Next]_vars /\ WF_vars(AnyTick)

-----------------------------------------------------------------------------
\* A key is down in the emulator only while somebody presses it: a key that is
\* held is down, a key that is down is held or in a pulse, and no key is down
\* in a session that is paused, behind a dialog or without the focus, so a
\* release that the program does not see lasts until then at most.
KeysInv ==
  /\ keys.held \subseteq keys.down /\ keys.down \subseteq keys.held \union keys.pulsing
  /\ keys.pulsing = {} <=> keys.left = 0
  /\ ~app.focus \/ app.paused => keys.down = {} /\ keys.pulsing = {}
  /\ modal # NoDialog => ~app.focus

\* The work that is not in the store is at most that since the last autosave,
\* or the user has been told that a save has failed.
AutosaveBound == app.loaded /\ ~told => unsaved <= ticks

\* A session with work that is neither saved nor exported is replaced or left
\* only if the user has given it up.
NoSilentLoss == ~lost

\* Unless buttons of the panel are pressed for ever, a pulse ends: by the
\* timer, by what takes the focus, or by the end of the session.
Presses == keys'.left > keys.left
PulseEnds ==
  <>[][~Presses]_vars => [](keys.pulsing # {} => <>(keys.pulsing = {} \/ app.failed))
=============================================================================
