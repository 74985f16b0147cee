------------------------------ MODULE PwmTrain ------------------------------
(* The pulses of EGTimer1's precise channel: egt1_pwm_step() on a clock,    *)
(* CCOUNT, that wraps.  The NMI comes up to the lead before an edge is due, *)
(* and spins, or late: another pin was served, or the flash was busy.       *)
(* Lengths are ticks of an 80 MHz core (x2 = 0).                            *)
EXTENDS Integers

CONSTANTS
  Wrap,       \* CCOUNT's range, 2^32
  Periods,    \* EGT1_PWM_TICK_HZ / freq
  Scale,      \* HV_PWM_MAX
  Duties,     \* duties out of it
  MinOff,     \* EGT1_PWM_MIN_OFF
  Lead,       \* EGT1_LEAD_TICKS
  Spin,       \* SPIN_TICKS: the lead of a falling edge
  Idle,       \* EGT1_PWM_IDLE
  MaxLate,    \* bound of the run: how late the NMI may be
  MaxSettings \* bound of the run: settings

\* A period is far shorter than half the range of the clock, and longer than its low end.
ASSUME TrainAssumption ==
  /\ Wrap \in Nat \ {0} /\ Scale \in Nat \ {0}
  /\ Periods \union Duties \union {MinOff, Lead, Spin, Idle, MaxLate, MaxSettings} \subseteq Nat
  /\ \A p \in Periods : MinOff < p /\ p + MaxLate + Spin < Wrap \div 2
  /\ Lead < Wrap

VARIABLES
  ccount,              \* CCOUNT when it was last read
  next, begun,         \* of EGT1PwmState: the next edge, the start of its period
  period, on,          \* lengths; period 0: nothing posted yet
  debt, high,          \* ticks owed by the next pulse; the pin
  box,                 \* EGT1PwmMailbox
  rose, excess, posts  \* ghosts: the last rise; ticks of pin high above those asked
                       \* for, but for what a quarter of a pulse cannot make up; posts

trainVars == <<ccount, next, begun, period, on, debt, high, box, rose, excess, posts>>

At(t) == t % Wrap
\* (int32_t)(a - b)
Since(a, b) ==
  LET d == (a - b) % Wrap IN IF d >= Wrap \div 2 THEN d - Wrap ELSE d
Least(a, b) == IF a <= b THEN a ELSE b
Later(a, b) == IF Since(a, b) > 0 THEN a ELSE b

\* egt1_pwm_ticks() and egt1_pwm_post(); HighVoltage has the stores of the latter.
Ticks(p, duty) == [period |-> p, on |-> Least((p * duty) \div Scale, p - MinOff), ready |-> TRUE]

Post(p, duty) ==
  /\ posts < MaxSettings /\ posts' = posts + 1
  /\ box' = Ticks(p, duty)
  /\ UNCHANGED <<ccount, next, begun, period, on, debt, high, rose, excess>>

\* The NMI takes the edge up to lead early, or up to MaxLate late.
Comes(t, lead) == Since(t, ccount) >= 0 /\ Since(next, t) <= lead

\* Nothing posted yet: look again in a while.
Wait(t) ==
  /\ period = 0 /\ ~box.ready /\ Comes(t, Lead)
  /\ ccount' = t /\ next' = At(t + Idle)
  /\ UNCHANGED <<begun, period, on, debt, high, box, rose, excess, posts>>

\* mutant: a late edge is where the next period begins
FallFromLate(t) == At(Later(t, next) + period - on)

\* Where the period after a falling edge begins.
FallFrom(t) == At(begun + period)

\* egt1_pwm_late()
Late(late) == Least(late, on \div 4)

Fall(t) ==
  /\ high /\ Comes(t, Spin)
  /\ LET t2   == Later(t, next)
         late == Since(t2, next)
         more == excess + Since(t2, rose) - on - (late - Least(late, on \div 4))
     IN  /\ ccount' = t2 /\ next' = FallFrom(t) /\ high' = FALSE
         /\ debt' = Late(late)
         /\ excess' = IF more > 0 THEN more ELSE 0
  /\ rose' = 0 /\ UNCHANGED <<begun, period, on, box, posts>>

\* egt1_pwm_fall_from(): a late rise keeps its full length, the period its end.
FallAt(t, o, begin, p) ==
  LET fall  == At(t + o - debt)
      limit == At(begin + p - MinOff)
  IN  IF Since(fall, limit) > 0 THEN limit ELSE fall

\* A period begins: a pulse, or none when it is too late for one.
Period(t) ==
  /\ ~high /\ (period # 0 \/ box.ready) /\ Comes(t, Lead)
  /\ LET p == IF box.ready THEN box.period ELSE period
         o == IF box.ready THEN box.on ELSE on
         t2 == Later(t, next)
         rise == o > 0 /\ Since(t, next + o - Lead) < 0
     IN  /\ period' = p /\ on' = o /\ box' = [box EXCEPT !.ready = FALSE]
         /\ begun' = next /\ high' = rise
         /\ IF rise
            THEN ccount' = t2 /\ rose' = t2 /\ next' = FallAt(t2, o, next, p) /\ debt' = 0
            ELSE ccount' = t /\ next' = At(next + p) /\ UNCHANGED <<rose, debt>>
  /\ UNCHANGED <<excess, posts>>

\* The NMI is MaxLate late at most.
Times == {At(next + d) : d \in -Spin .. MaxLate}

TrainInit ==
  /\ ccount = 0 /\ next = Lead /\ begun = 0 /\ period = 0 /\ on = 0 /\ debt = 0 /\ high = FALSE
  /\ box = [period |-> 0, on |-> 0, ready |-> FALSE]
  /\ rose = 0 /\ excess = 0 /\ posts = 0

TrainNext ==
  \/ \E p \in Periods, d \in Duties : Post(p, d)
  \/ \E t \in Times : Wait(t) \/ Fall(t) \/ Period(t)

TrainSpec == TrainInit /\ [][TrainNext]_trainVars

------------------------------------------------------------------------
TrainTypeOK ==
  /\ {ccount, next, begun, rose} \subseteq 0 .. Wrap - 1
  /\ period \in Periods \union {0} /\ on \in 0 .. period /\ debt \in Nat /\ excess \in Nat

\* However late edges are and whatever is posted, each period begins where the
\* one before it ended: none is lost, doubled or moved.
TimelineIsFixed == [][begun' # begun /\ period # 0 => begun' = At(begun + period)]_trainVars

\* At any duty, and after a late rise, the falling edge is due MinOff before the
\* period ends.
LowEveryPeriod == high => Since(At(begun + period), next) >= MinOff

\* What a late falling edge added to a pulse, up to a quarter of it, the next pulse
\* gives back: late edges do not add up to a higher voltage.
LatenessIsPaid == ~high => excess <= debt

PulsesAreWhole == TimelineIsFixed /\ [](LowEveryPeriod /\ LatenessIsPaid)
=============================================================================
