----------------------------- MODULE PushButton -----------------------------
(* The push button and the alarms it silences: a ticker reads the pin and   *)
(* notes presses, long ones while they are held and short ones when they    *)
(* end, the loop takes the notes, and the tick of a second rings the alarms *)
(* and sets the pin that tells of the alert.  The line bounces, and may be  *)
(* low already when a pin is set.  One button of a build with a display,    *)
(* which alone has long presses; the second one is alike.                   *)
EXTENDS Naturals

CONSTANTS
  Pins, None,        \* pins the setting may name, -1
  Debounce, Long,    \* DEBOUNCE_MS and LONG_PRESS_MS, in polls
  MaxPolls, MaxSets  \* bounds of the run

ASSUME ButtonAssumption ==
  None \notin Pins /\ {Debounce, Long, MaxPolls, MaxSets} \subseteq Nat

VARIABLES
  line,              \* the pins that are low
  pin, read, change, start, pressed, shortDue, longDue, fired,  \* BtnState
  now,               \* polls so far
  over, snoozed, ringing,  \* warn and alrt, _alarm_snoozed, the flags of the alarms
  mode, out, last_state,   \* AlertOut: _mode, the pin active, _last_state
  sets,              \* so far
  press,             \* ghost: how the press held now came about and what it was told as
  heard,             \* ghost: presses of each kind told, and of those what the loop took
  switched           \* ghost: the mode changed in this alert

button == <<pin, read, change, start, pressed, shortDue, longDue, fired>>
alarm == <<over, snoozed, ringing>>
output == <<mode, out, last_state, switched>>
buttonVars == <<line, button, now, alarm, output, sets, press, heard>>

Low(p) == p \in line
NoPress == [by |-> "none", told |-> {}]
Zero == [short |-> 0, long |-> 0, shortTaken |-> 0, longTaken |-> 0]

ButtonInit ==
  /\ line \in SUBSET Pins /\ pin = None
  /\ read = FALSE /\ pressed = FALSE /\ shortDue = FALSE /\ longDue = FALSE /\ fired = FALSE
  /\ change = 0 /\ start = 0 /\ now = 0 /\ sets = 0
  /\ over = {} /\ snoozed = FALSE /\ ringing = {}
  /\ mode = "steady" /\ out = FALSE /\ last_state = FALSE /\ switched = FALSE
  /\ press = NoPress /\ heard = Zero

\* The pin goes low or high, by a finger or a bounce.
Moves(p) ==
  /\ line' = IF Low(p) THEN line \ {p} ELSE line \union {p}
  /\ UNCHANGED <<button, now, alarm, output, sets, press, heard>>

\* mutant: a pin that is held as it is set counts from there
FiredFromNow(low) == FALSE

\* a press that was there already fires nothing
FiredAsSet(low) == low

\* set_pin(), by the settings: any change of them calls it, and only a new pin counts.
SetPin(p) ==
  /\ sets < MaxSets /\ sets' = sets + 1
  /\ IF p = pin /\ p # None THEN UNCHANGED <<button, press, heard>>
     ELSE /\ pin' = p
          /\ read' = (p # None /\ Low(p)) /\ pressed' = (p # None /\ Low(p))
          /\ fired' = (p # None /\ FiredAsSet(Low(p)))
          /\ shortDue' = FALSE /\ longDue' = FALSE /\ change' = now /\ start' = now
          /\ press' = IF p # None /\ Low(p) THEN [by |-> "set", told |-> {}] ELSE NoPress
          /\ heard' = [heard EXCEPT !.shortTaken = heard.short, !.longTaken = heard.long]
  /\ UNCHANGED <<line, now, alarm, output>>

\* tick_one(): a level that is new, one that is held, or one that has settled.
Bounces(down) ==
  /\ down # read
  /\ read' = down /\ change' = now
  /\ UNCHANGED <<pin, start, pressed, shortDue, longDue, fired, press, heard>>

Holds(down) ==
  /\ down = read /\ down = pressed
  /\ IF down /\ ~fired /\ now - start >= Long
     THEN /\ fired' = TRUE /\ longDue' = TRUE
          /\ press' = [press EXCEPT !.told = @ \union {"long"}]
          /\ heard' = [heard EXCEPT !.long = @ + 1]
     ELSE UNCHANGED <<fired, longDue, press, heard>>
  /\ UNCHANGED <<pin, read, change, start, pressed, shortDue>>

Settles(down) ==
  /\ down = read /\ down # pressed
  /\ IF now - change < Debounce THEN UNCHANGED <<button, press, heard>>
     ELSE /\ pressed' = down
          /\ start' = IF down THEN now ELSE start
          /\ fired' = (fired /\ ~down)
          /\ shortDue' = (shortDue \/ (~down /\ ~fired))
          /\ press' = IF down THEN [by |-> "finger", told |-> {}]
                      ELSE IF fired THEN press
                      ELSE [press EXCEPT !.told = @ \union {"short"}]
          /\ heard' = IF ~down /\ ~fired THEN [heard EXCEPT !.short = @ + 1] ELSE heard
          /\ UNCHANGED <<pin, read, change, longDue>>

Poll ==
  /\ now < MaxPolls /\ now' = now + 1
  /\ IF pin = None THEN UNCHANGED <<button, press, heard>>
     ELSE Bounces(Low(pin)) \/ Holds(Low(pin)) \/ Settles(Low(pin))
  /\ UNCHANGED <<line, alarm, output, sets>>

------------------------------------------------------------------------
\* reset_alarm(): alarms that do not ring are not snoozed.
ResetAlarm ==
  /\ snoozed' = (snoozed \/ ringing # {})
  /\ ringing' = {}
  /\ UNCHANGED over

\* loop(): long presses first.
Loop ==
  /\ pin # None /\ (shortDue \/ longDue)
  /\ longDue' = FALSE /\ shortDue' = FALSE
  /\ IF shortDue THEN ResetAlarm ELSE UNCHANGED alarm
  /\ heard' = [heard EXCEPT !.longTaken = heard.long, !.shortTaken = heard.short]
  /\ UNCHANGED <<line, pin, read, change, start, pressed, fired, now, output, sets, press>>

\* AlertOut::s_tick(): a square wave, or a level that is set as it changes.
AlertOut(active) ==
  /\ IF mode = "pulse" /\ active THEN out' \in BOOLEAN
     ELSE out' = IF active # last_state THEN active ELSE out
  /\ last_state' = active
  /\ switched' = (switched /\ active)
  /\ UNCHANGED mode

\* secondticker(): update_alarms() with what the second measured; the modules follow.
Second ==
  /\ over' \in SUBSET {"warning", "alert"}
  /\ snoozed' = (snoozed /\ over' # {})
  /\ ringing' = IF snoozed' THEN {} ELSE over'
  /\ AlertOut("alert" \in ringing')
  /\ UNCHANGED <<line, button, now, sets, press, heard>>

\* AlertOut::on_prefs_loaded()
SetMode ==
  /\ mode' = IF mode = "steady" THEN "pulse" ELSE "steady"
  /\ switched' = (switched \/ last_state)
  /\ UNCHANGED <<line, button, now, alarm, out, last_state, sets, press, heard>>

ButtonNext ==
  \/ \E p \in Pins : Moves(p)
  \/ \E p \in Pins \union {None} : SetPin(p)
  \/ Poll \/ Loop \/ Second \/ SetMode

ButtonSpec == ButtonInit /\ [][ButtonNext]_buttonVars

------------------------------------------------------------------------
ButtonTypeOK ==
  /\ line \subseteq Pins /\ pin \in Pins \union {None} /\ now \in 0 .. MaxPolls
  /\ change <= now /\ start <= now

\* A press is told once, long or short; one that was there when its pin was set is
\* not told at all, and no note stands for a press that was taken.
PressedOnce ==
  /\ press.told # {"long", "short"}
  /\ press.by # "finger" => press.told = {}
  /\ press.by = "finger" /\ ~pressed => press.told # {}
  /\ shortDue <=> heard.short > heard.shortTaken
  /\ longDue <=> heard.long > heard.longTaken

\* Alarms that are over ring unless somebody pressed since they were, a snooze is over
\* with them, and the pin is active only as of a tick that found the alert ringing,
\* and then steady, but for an alert in which the mode was changed.
AlarmsRing ==
  /\ ringing = IF snoozed THEN {} ELSE over
  /\ snoozed => over # {}
  /\ out => last_state
  /\ last_state /\ mode = "steady" /\ ~switched => out

PressesAreTold == PressedOnce /\ AlarmsRing
=============================================================================
