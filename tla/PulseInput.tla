----------------------------- MODULE PulseInput -----------------------------
(* The pin of the tube: an interrupt that counts falling edges apart by the *)
(* debounce, on a clock that wraps, and the guard of each second's tick that *)
(* parks the interrupt when a floating pin floods it.  An update takes the  *)
(* interrupt away as well, and gives it back when it fails; the seconds go  *)
(* on meanwhile.  The interrupt comes between any two steps of the tick.    *)
EXTENDS Integers

CONSTANTS
  MicrosWrap, \* of micros()
  Debounce,   \* _debounce
  Threshold,  \* ISR_STORM_THRESHOLD
  Cooldown    \* ISR_STORM_COOLDOWN_S

ASSUME InputAssumption ==
  /\ MicrosWrap \in Nat \ {0} /\ Debounce \in 0 .. MicrosWrap
  /\ Threshold \in Nat /\ Cooldown \in Nat \ {0}

VARIABLES
  us, last_blip,      \* micros(), _last_blip
  attached,           \* the interrupt
  entries, cooldown,  \* s_isr_entries, up to the first above Threshold; s_isr_cooldown
  stage, seen,        \* how far the tick is, and what it read
  ota,                \* between the start of an update and its failure
  gap,                \* ghost: since the last count, at most MicrosWrap
  early, deaf,        \* ghosts: an edge counted too soon, one dropped for nothing
  loud                \* ghost: ticks in a row that left a storm on

inputVars == <<us, last_blip, attached, entries, cooldown, stage, seen, ota, gap, early, deaf, loud>>
tube == <<us, last_blip, gap, early, deaf>>

TubeInit ==
  /\ us \in 0 .. MicrosWrap - 1 /\ last_blip = us /\ gap = 0
  /\ attached = TRUE /\ entries = 0 /\ cooldown = 0 /\ stage = "rest" /\ seen = 0 /\ ota = FALSE
  /\ early = FALSE /\ deaf = FALSE /\ loud = 0

Time ==
  /\ us' = (us + 1) % MicrosWrap
  /\ gap' = IF gap < MicrosWrap THEN gap + 1 ELSE gap
  /\ UNCHANGED <<last_blip, attached, entries, cooldown, stage, seen, ota, early, deaf, loud>>

\* mutant: the end of the debounce is compared, not the time gone by
BounceAt(cycles) == cycles < last_blip + Debounce

Bounce(cycles) == (cycles - last_blip) % MicrosWrap < Debounce

\* countInterrupt()
Edge ==
  /\ attached
  /\ entries' = IF entries > Threshold THEN entries ELSE entries + 1
  /\ IF Bounce(us)
     THEN /\ deaf' = (deaf \/ gap \in Debounce .. MicrosWrap - 1)
          /\ UNCHANGED <<last_blip, gap, early>>
     ELSE /\ last_blip' = us /\ gap' = 0
          /\ early' = (early \/ gap < Debounce)
          /\ UNCHANGED deaf
  /\ UNCHANGED <<us, attached, cooldown, stage, seen, ota, loud>>

\* checkIsrStorm(): the count of the second is read, then cleared.
Read ==
  /\ stage = "rest" /\ stage' = "read" /\ seen' = entries
  /\ UNCHANGED <<tube, attached, entries, cooldown, ota, loud>>

Clear ==
  /\ stage = "read" /\ stage' = "cleared" /\ entries' = 0
  /\ UNCHANGED <<tube, attached, cooldown, seen, ota, loud>>

\* mutant: the last second of the cooldown attaches nothing
EndsAtOnce(left) == left = 0

Ends(left) == left = 1

\* Parked, the seconds are counted and the last attaches again; a storm parks.
Decide ==
  /\ stage = "cleared" /\ stage' = "rest"
  /\ IF cooldown > 0
     THEN /\ cooldown' = cooldown - 1
          /\ attached' = (attached \/ Ends(cooldown))
     ELSE /\ cooldown' = IF seen > Threshold THEN Cooldown ELSE 0
          /\ attached' = (attached /\ seen <= Threshold)
  /\ loud' = IF attached /\ attached' /\ seen > Threshold THEN loud + 1 ELSE 0
  /\ UNCHANGED <<tube, entries, seen, ota>>

\* stopForOTA() and restartAfterOTA(), by the loop.
Stop ==
  /\ stage = "rest" /\ ~ota /\ ota' = TRUE
  /\ attached' = FALSE
  /\ UNCHANGED <<tube, entries, cooldown, stage, seen, loud>>

RestartAfterOTA ==
  /\ stage = "rest" /\ ota /\ ota' = FALSE
  /\ attached' = TRUE
  /\ UNCHANGED <<tube, entries, cooldown, stage, seen, loud>>

TubeNext == Time \/ Edge \/ Read \/ Clear \/ Decide \/ Stop \/ RestartAfterOTA

TubeSpec == TubeInit /\ [][TubeNext]_inputVars

------------------------------------------------------------------------
TubeTypeOK ==
  /\ us \in 0 .. MicrosWrap - 1 /\ last_blip \in 0 .. MicrosWrap - 1 /\ gap \in 0 .. MicrosWrap
  /\ entries \in 0 .. Threshold + 1 /\ cooldown \in 0 .. Cooldown

\* No edge is counted within the debounce of another, and none is dropped for one
\* that is over, however often the clock wraps, but for the whole rounds of it.
CountsByTheDebounce == ~early /\ ~deaf

\* The input is never given up: parked, it comes back, under an update or after it; and
\* a storm is parked by the tick of its second, or, when a failed update attached the
\* interrupt within a cooldown, once that is over.
StaysWatched ==
  /\ attached \/ ota \/ cooldown > 0
  /\ loud + cooldown <= Cooldown

PulsesAreCounted == CountsByTheDebounce /\ StaysWatched
=============================================================================
