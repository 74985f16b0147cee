------------------------------ MODULE PulseOut ------------------------------
(* The pin that shows clicks: the loop asks for one, as often as the tokens *)
(* of max_hz allow, and a ticker of a millisecond, which owns the pin, lights *)
(* it and puts it out again, but only while there is something to do.  The  *)
(* settings may change the mode at any time; brightness is in steps.        *)
EXTENDS Naturals

CONSTANTS
  Interval, Tokens, Backlog,  \* token_interval_ms, the 5 tokens, the 5000 ms
  PulseMs, FadeMs,            \* pulse_us_eff, the 5 ms of a step
  Bright,                     \* active_level, in steps of a fade
  MaxMs                       \* bound of the run

ASSUME BlipAssumption ==
  /\ Interval \in Nat \ {0} /\ Bright \in Nat \ {0}
  /\ {Tokens, Backlog, PulseMs, FadeMs, MaxMs} \subseteq Nat

VARIABLES
  ms,                         \* ms so far
  last_token, tokens,         \* last_token_ms and tokens
  asked,                      \* s_req # s_seen
  mode, phases, next, bright, \* PulseEngine
  busy, lit,                  \* s_busy and the pin
  taken, cut                  \* ghosts: clicks let through; a fade the settings cut short

pulseOutVars == <<ms, last_token, tokens, asked, mode, phases, next, bright, busy, lit, taken, cut>>
engine == <<mode, phases, next, bright, busy, lit, cut>>

Modes == {"pulse", "burst", "fade"}

BlipInit ==
  /\ ms = 0 /\ last_token = 0 /\ tokens = 0 /\ asked = FALSE
  /\ mode \in Modes /\ phases = 0 /\ next = 0 /\ bright = 0
  /\ busy = FALSE /\ lit = FALSE /\ taken = 0 /\ cut = FALSE

Ms ==
  /\ ms < MaxMs /\ ms' = ms + 1
  /\ UNCHANGED <<last_token, tokens, asked, engine, taken>>

\* on_prefs_loaded()
SetMode(m) ==
  /\ m # mode /\ mode' = m
  /\ cut' = (cut \/ (bright > 0 /\ lit))
  /\ UNCHANGED <<ms, last_token, tokens, asked, phases, next, bright, busy, lit, taken>>

\* take(): a token for every interval gone by while there is room; what is far behind
\* is forgotten.
Fewer(x, y) == IF x < y THEN x ELSE y
Gained == Fewer((ms - last_token) \div Interval, Tokens - tokens)
Refilled == last_token + Gained * Interval

NotifyClick ==
  /\ last_token' = IF ms - Refilled > Backlog THEN ms ELSE Refilled
  /\ LET held == tokens + Gained
     IN  IF held = 0 THEN tokens' = 0 /\ UNCHANGED <<asked, taken>>
         ELSE tokens' = held - 1 /\ asked' = TRUE /\ taken' = taken + 1
  /\ UNCHANGED <<ms, engine>>

------------------------------------------------------------------------
\* mutant: a fade is not counted as busy
BusyInPulse(m, left, level) == left > 0

Busy(m, left, level) == left > 0 \/ (m = "fade" /\ level > 0)

\* startClick(): a burst is left to tone(), which ends by itself.
Started ==
  CASE mode = "fade" -> [phases |-> 0, bright |-> Bright, next |-> ms + FadeMs, lit |-> TRUE]
    [] mode = "burst" -> [phases |-> 0, bright |-> bright, next |-> next, lit |-> FALSE]
    [] mode = "pulse" -> [phases |-> 1, bright |-> bright, next |-> ms + PulseMs, lit |-> TRUE]

\* PulseEngine::loop(): the next step of a fade, or the end of a pulse.
EngineStepped(e) ==
  IF ms < e.next THEN e
  ELSE IF mode = "fade" /\ e.bright > 0
  THEN [e EXCEPT !.bright = @ - 1, !.lit = e.bright > 1, !.next = ms + FadeMs]
  ELSE IF e.phases > 0 THEN [e EXCEPT !.phases = 0, !.lit = FALSE] ELSE e

\* poll(), when due(): a click that comes while a pulse is out is part of it.
Poll ==
  /\ asked \/ busy
  /\ asked' = FALSE
  /\ LET old == [phases |-> phases, bright |-> bright, next |-> next, lit |-> lit]
         e == EngineStepped(IF asked /\ phases = 0 THEN Started ELSE old)
     IN  /\ phases' = e.phases /\ bright' = e.bright /\ next' = e.next /\ lit' = e.lit
         /\ busy' = Busy(mode, e.phases, e.bright)
  /\ cut' = (cut /\ ~(asked /\ phases = 0))
  /\ UNCHANGED <<ms, last_token, tokens, mode, taken>>

BlipNext == Ms \/ (\E m \in Modes : SetMode(m)) \/ NotifyClick \/ Poll

BlipSpec == BlipInit /\ [][BlipNext]_pulseOutVars

------------------------------------------------------------------------
BlipTypeOK ==
  /\ tokens \in 0 .. Tokens /\ phases \in 0 .. 1 /\ bright \in 0 .. Bright
  /\ last_token <= ms /\ mode \in Modes

\* The pin is lit only while the ticker is going to put it out, but for a fade that new
\* settings cut short, which stays until the next click.
PutOutAgain == lit => asked \/ busy \/ cut

\* In the long run no more than max_hz clicks are let through.
WithinTheRate == Interval * (taken + tokens) <= last_token

ClicksAreShown == PutOutAgain /\ WithinTheRate
=============================================================================
