----------------------------- MODULE HighVoltage -----------------------------
(* The high voltage of the tube on the ESP8266.  HV sets frequency and duty *)
(* from the main loop; EGTimer1 makes the pulses in an NMI that no lock     *)
(* keeps out: it may come between any two stores of the main loop.  A       *)
(* handler's own state changes at once, the stores it makes for the NMI     *)
(* wait in todo.  The feedback ADC is fitted and the cut-off is on; the     *)
(* pulses' timing is PwmTrain's.  Duty counts from 1, the least.            *)
EXTENDS Integers, Sequences

CONSTANTS
  Freqs,      \* frequencies
  MaxDuty,    \* GEIGERHW_MAX_DUTY
  TrimMax,    \* _trim_max
  TripAfter,  \* _ov_trip_s: readings over the limit that cut off
  SlowEvery,  \* LOOP_SLOW: the passes to one that reads and writes
  Restarts,   \* PWM_RESTARTS
  MaxSaves, MaxStalls, MaxHolds  \* bounds of the run: settings, stalls, updates and restarts

ASSUME HvAssumption ==
  /\ Freqs \subseteq Nat \ {0} /\ MaxDuty \in Nat \ {0} /\ TrimMax \in Nat
  /\ TripAfter \in Nat /\ SlowEvery \in Nat \ {0} /\ Restarts \in Nat
  /\ {MaxSaves, MaxStalls, MaxHolds} \subseteq Nat

VARIABLES
  freq, duty, trim,  \* _hw_freq, _hw_duty, _duty_trim
  cur,               \* _cur_duty: the last duty posted, -1 for none that counts
  tripped, overs,    \* _ov_trip, _ov_secs
  held, mode,        \* _held; "run", "ota" while HV::loop() stands still, "down"
  pass, restarts,    \* the statics of loop() and check_handler()
  pwmOn, mail, gen,  \* Gen::pwm_on, mb and pwm of EGTimer1
  pin,               \* TRUE while the pin is high
  alive,             \* the NMI comes
  beats,             \* how far entries() moved since the last pass, up to 2
  todo,              \* the stores to come
  posted,            \* ghost: the pair posted last
  used               \* of the bounds

hvVars == <<freq, duty, trim, cur, tripped, overs, held, mode, pass, restarts>>
pwmVars == <<pwmOn, mail, gen, pin, alive>>
hvAll == <<hvVars, pwmVars, beats, todo, posted, used>>

Duties == 1 .. MaxDuty
Empty == [period |-> 0, on |-> 0, ready |-> FALSE]
Off == [period |-> 0, on |-> 0, high |-> FALSE]

Clamped(d) == IF d < 1 THEN 1 ELSE IF d > MaxDuty THEN MaxDuty ELSE d

------------------------------------------------------------------------
(* The stores of the main loop, one by one. *)

Do(what) == [do |-> what, val |-> 0]
Put(what, v) == [do |-> what, val |-> v]

\* mutant: the mailbox is not closed while it is written
PwmSetOpen(f, d) == <<Put("period", f), Put("on", d), Do("ready")>>

PwmSet(f, d) == <<Do("unready"), Put("period", f), Put("on", d), Do("ready")>>

PwmStop == <<Do("off"), Do("low")>>
PwmBegin == <<Do("off"), Do("low"), Do("clear"), Do("unready"), Do("go")>>

\* delay(20) is longer than any period.
Enabled(s) == s.do = "delay" => ~mail.ready \/ ~alive \/ ~pwmOn

Stored(s) ==
  /\ pwmOn' = CASE s.do = "off" -> FALSE [] s.do = "go" -> TRUE [] OTHER -> pwmOn
  /\ mail' = CASE s.do = "unready" -> [mail EXCEPT !.ready = FALSE]
               [] s.do = "ready" -> [mail EXCEPT !.ready = TRUE]
               [] s.do = "period" -> [mail EXCEPT !.period = s.val]
               [] s.do = "on" -> [mail EXCEPT !.on = s.val]
               [] OTHER -> mail
  /\ gen' = IF s.do = "clear" THEN Off ELSE gen
  /\ pin' = IF s.do = "low" THEN FALSE ELSE pin
  /\ alive' = (alive \/ s.do = "arm")
  /\ posted' = IF s.do = "ready" THEN <<mail.period, mail.on>> ELSE posted

Store ==
  /\ todo # <<>> /\ Enabled(Head(todo))
  /\ Stored(Head(todo)) /\ todo' = Tail(todo)
  /\ UNCHANGED <<hvVars, beats, used>>

------------------------------------------------------------------------
(* The NMI: the next edge, or a pulse too late to make. *)

Fall == gen.high /\ gen' = [gen EXCEPT !.high = FALSE] /\ pin' = FALSE /\ UNCHANGED mail

Period ==
  /\ ~gen.high
  /\ LET g == IF mail.ready THEN [gen EXCEPT !.period = mail.period, !.on = mail.on] ELSE gen
     IN  \E rise \in {TRUE, FALSE} \ (IF g.period = 0 THEN {TRUE} ELSE {}) :
           gen' = [g EXCEPT !.high = rise] /\ pin' = rise
  /\ mail' = [mail EXCEPT !.ready = FALSE]

Nmi ==
  /\ alive /\ beats' = IF beats < 2 THEN beats + 1 ELSE beats
  /\ IF pwmOn THEN Fall \/ Period ELSE UNCHANGED <<gen, pin, mail>>
  /\ UNCHANGED <<hvVars, pwmOn, alive, todo, posted, used>>

\* The timer is not armed again, wherever the pin is.
Stall ==
  /\ alive /\ used.stalls < MaxStalls
  /\ alive' = FALSE /\ used' = [used EXCEPT !.stalls = @ + 1]
  /\ UNCHANGED <<hvVars, pwmOn, mail, gen, pin, beats, todo, posted>>

------------------------------------------------------------------------
(* HV. *)

Eff(isTripped, isHeld, d, t) == IF isTripped \/ isHeld THEN 1 ELSE Clamped(d + t)

\* write_duty()
Write(f, from, eff) == IF from = eff THEN <<>> ELSE PwmSet(f, eff)

Over(high) == IF ~high THEN 0 ELSE IF overs < TripAfter THEN overs + 1 ELSE overs

Trimmed(err) ==
  IF err > 0 /\ trim < TrimMax THEN trim + 1
  ELSE IF err < 0 /\ trim > -TrimMax THEN trim - 1 ELSE trim

\* One pass; the slow ones post the duty, read the voltage and trim.  Passes are
\* 100 ms apart, a period 10 ms at most.
Loop(high, err) ==
  /\ mode = "run" /\ todo = <<>>
  /\ beats = 2 \/ ~alive
  /\ LET stalled == pwmOn /\ beats = 0
         mend    == stalled /\ restarts < Restarts
         eff     == Eff(tripped, held, duty, trim)
         slow    == pass + 1 = SlowEvery
         over    == IF slow /\ ~tripped THEN Over(high) ELSE overs
         trips   == slow /\ ~tripped /\ over >= TripAfter
         written == IF slow \/ mend THEN eff ELSE cur
     IN  /\ restarts' = IF mend THEN restarts + 1 ELSE restarts
         /\ pass' = (pass + 1) % SlowEvery
         /\ overs' = over /\ tripped' = (tripped \/ trips)
         /\ trim' = IF slow /\ ~tripped' THEN Trimmed(err) ELSE trim
         /\ cur' = IF trips THEN 1 ELSE written
         /\ todo' = (IF stalled THEN PwmStop ELSE <<>>)
                 \o (IF mend THEN <<Do("arm")>> \o PwmBegin ELSE <<>>)
                 \o (IF slow \/ mend THEN Write(freq, IF mend THEN -1 ELSE cur, eff) ELSE <<>>)
                 \o (IF trips THEN Write(freq, written, 1) ELSE <<>>)
  /\ beats' = 0
  /\ UNCHANGED <<freq, duty, held, mode, pwmVars, posted, used>>

\* on_prefs_loaded(): the next pass posts both.
Saved(f, d) ==
  /\ used.saves < MaxSaves /\ used' = [used EXCEPT !.saves = @ + 1]
  /\ freq' = f /\ duty' = d /\ trim' = 0 /\ cur' = -1
  /\ tripped' = FALSE /\ overs' = 0

Save(f, d) ==
  /\ mode # "down" /\ todo = <<>> /\ Saved(f, d)
  /\ UNCHANGED <<held, mode, pass, restarts, pwmVars, beats, todo, posted>>

\* /hvset: first the least at the old frequency, for 20 ms.
HvSet(f, d) ==
  /\ mode # "down" /\ todo = <<>> /\ Saved(f, d)
  /\ todo' = PwmSet(freq, 1) \o <<Do("delay")>>
  /\ UNCHANGED <<held, mode, pass, restarts, pwmVars, beats, posted>>

\* hold(): for an update, or for good.
Hold(restarting) ==
  /\ mode = "run" \/ (mode = "ota" /\ restarting)
  /\ todo = <<>>
  /\ mode = "run" => used.holds < MaxHolds
  /\ used' = IF mode = "run" THEN [used EXCEPT !.holds = @ + 1] ELSE used
  /\ held' = TRUE /\ mode' = IF restarting THEN "down" ELSE "ota"
  /\ LET eff == Eff(tripped, TRUE, duty, trim)
     IN  /\ cur' = eff
         /\ todo' = Write(freq, cur, eff) \o (IF restarting THEN PwmStop ELSE <<>>)
  /\ UNCHANGED <<freq, duty, trim, tripped, overs, pass, restarts, pwmVars, beats, posted>>

\* release_hold()
OtaFailed ==
  /\ mode = "ota" /\ todo = <<>>
  /\ held' = FALSE /\ mode' = "run"
  /\ LET eff == Eff(tripped, FALSE, duty, trim)
     IN  cur' = eff /\ todo' = Write(freq, -1, eff)
  /\ UNCHANGED <<freq, duty, trim, tripped, overs, pass, restarts, pwmVars, beats,
                 posted, used>>

Reboot ==
  /\ mode = "down" /\ todo = <<>>
  /\ trim' = 0 /\ cur' = -1 /\ tripped' = FALSE /\ overs' = 0 /\ held' = FALSE /\ mode' = "run"
  /\ pass' = 0 /\ restarts' = 0
  /\ pwmOn' = FALSE /\ mail' = Empty /\ gen' = Off /\ pin' = FALSE /\ alive' = TRUE
  /\ beats' = 0 /\ todo' = PwmBegin /\ posted' = <<0, 0>>
  /\ UNCHANGED <<freq, duty, used>>

HvInit ==
  /\ freq \in Freqs /\ duty \in Duties /\ trim = 0 /\ cur = -1
  /\ tripped = FALSE /\ overs = 0 /\ held = FALSE /\ mode = "run" /\ pass = 0 /\ restarts = 0
  /\ pwmOn = FALSE /\ mail = Empty /\ gen = Off /\ pin = FALSE /\ alive = TRUE
  /\ beats = 0 /\ todo = PwmBegin /\ posted = <<0, 0>>
  /\ used = [saves |-> 0, stalls |-> 0, holds |-> 0]

Pass == \E over \in BOOLEAN, err \in {-1, 0, 1} : Loop(over, err)

HvNext ==
  \/ Store \/ Nmi \/ Stall \/ Pass \/ OtaFailed \/ Reboot
  \/ \E f \in Freqs, d \in Duties : Save(f, d) \/ HvSet(f, d)
  \/ \E restarting \in BOOLEAN : Hold(restarting)

HvSpec == HvInit /\ [][HvNext]_hvAll

------------------------------------------------------------------------
HvTypeOK ==
  /\ freq \in Freqs /\ duty \in Duties /\ trim \in -TrimMax .. TrimMax
  /\ cur \in Duties \union {-1} /\ tripped \in BOOLEAN /\ overs \in 0 .. TripAfter
  /\ held \in BOOLEAN /\ mode \in {"run", "ota", "down"}
  /\ pass \in 0 .. SlowEvery - 1 /\ restarts \in 0 .. Restarts
  /\ mail.on \in Duties \union {0} /\ gen.on \in Duties \union {0} /\ pin \in BOOLEAN

\* The NMI may come in the middle of a post, a stop or a start: what it finds
\* ready is a duty with the frequency it was meant for.
PairsAreWhole == mail.ready => <<mail.period, mail.on>> = posted

\* Cut off or held, the least duty is the last one posted, whatever was posted,
\* restarted or saved around it.
HeldDown ==
  (tripped \/ held) /\ todo = <<>> => (IF mail.ready THEN mail.on ELSE gen.on) <= 1

\* Stopped, the pin is low and stays so: for a restart, or when the handler has
\* stalled too often.
LowWhenStopped == ~pwmOn /\ todo = <<>> => ~pin

VoltageIsSafe == PairsAreWhole /\ HeldDown /\ LowWhenStopped

\* A stall, wherever the pin was, leaves it high no longer than a pass or an
\* update, and the generator comes back with the duty asked for.
ComesLow == []<>~pin
RunsAsAsked == []<>(mode # "run" \/ ~pwmOn \/ <<gen.period, gen.on>> = <<freq, cur>>)
==============================================================================
