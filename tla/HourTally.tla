---------------------------- MODULE HourTally ----------------------------
(* Clicks by the hour and by the day: the pulse interrupt counts, the tick *)
(* of each second collects, and the hour turns by a clock that reads the   *)
(* time only now and then (TickClock).  The SDK moves the time by itself   *)
(* when an NTP reply comes, and NTP_Client takes the reply later.  On the  *)
(* ESP32 late ticks are caught up; on the ESP8266 they may be lost.        *)
EXTENDS Integers

CONSTANTS
  Hour, Day,   \* boundary_seconds(), 86400
  ReadEvery,   \* TickClock::READ_EVERY
  StepS,       \* Clock::STEP_S
  StartTimes,  \* the times the first reply may set
  Moves,       \* by how much a later reply moves the clock
  MaxTime, MaxClicks, MaxOwed, MaxReplies  \* bounds of the run

\* No reply sets the time near 0, its value before the first: it is past 2020.
ASSUME HourAssumption ==
  /\ Hour \in Nat \ {0} /\ Day \in Nat \ {0} /\ ReadEvery \in Nat \ {0} /\ StepS \in Nat
  /\ StartTimes \subseteq Nat /\ Moves \subseteq Int
  /\ {MaxTime, MaxClicks, MaxOwed, MaxReplies} \subseteq Nat
  /\ \A t \in StartTimes : t >= Day /\ \A d \in Moves : t + MaxReplies * d >= Day

VARIABLES
  time,     \* time(), 0 before the first reply
  moved,    \* what the SDK has moved it since the last sync that was taken
  reply,    \* NTP's s_synced
  is_synced, \* Clock::synced()
  owed,     \* s_ticks - s_ticks_run
  event_counter, \* s_event_counter
  pulses,   \* ghost: pulses so far
  s_clock,  \* the TickClock: now and age
  turn,     \* s_next_boundary, 0: not known
  tally,    \* clicks_hour, clicks_today, clicks_yesterday, s_last_day, s_boundary_armed
  past,     \* the clicks in day_hourly_history
  counted,  \* ghost: clicks collected since the tally was armed
  gone,     \* ghost: seconds the clock passed without a tick, since the time was read
  replies   \* so far

hourVars == <<time, moved, reply, is_synced, owed, event_counter, pulses, s_clock, turn,
              tally, past, counted, gone, replies>>
clicks == <<event_counter, pulses, tally, past, counted>>

HourInit ==
  /\ time = 0 /\ moved = 0 /\ reply = FALSE /\ is_synced = FALSE
  /\ owed = 0 /\ event_counter = 0 /\ pulses = 0 /\ replies = 0
  /\ s_clock = [now |-> 0, age |-> 0] /\ turn = 0
  /\ tally = [hour |-> 0, today |-> 0, yesterday |-> 0, day |-> 0, armed |-> FALSE]
  /\ past = 0 /\ counted = 0 /\ gone = 0

Pulse ==
  /\ pulses < MaxClicks /\ pulses' = pulses + 1 /\ event_counter' = event_counter + 1
  /\ UNCHANGED <<time, moved, reply, is_synced, owed, s_clock, turn, tally, past, counted,
                 gone, replies>>

\* A second passes, and the timer posts a tick.
SecondPasses ==
  /\ time < MaxTime /\ owed < MaxOwed
  /\ time' = IF time = 0 THEN 0 ELSE time + 1
  /\ owed' = owed + 1
  /\ UNCHANGED <<moved, reply, is_synced, clicks, s_clock, turn, gone, replies>>

\* The loop was blocked for longer than a tick is kept.
LoseTick ==
  /\ owed > 1 /\ owed' = owed - 1
  /\ gone' = IF s_clock.now = 0 THEN 0 ELSE gone + 1
  /\ UNCHANGED <<time, moved, reply, is_synced, clicks, s_clock, turn, replies>>

------------------------------------------------------------------------
\* mutants: the clock is not read as the boundary comes; it goes a tick too long unread
StepPastTheBoundary(boundary) ==
  IF s_clock.now # 0 /\ s_clock.age + 1 < ReadEvery /\ boundary # 0
  THEN [now |-> s_clock.now + 1, age |-> s_clock.age + 1]
  ELSE [now |-> time, age |-> 0]

StepOnceMore(boundary) ==
  IF s_clock.now # 0 /\ s_clock.age < ReadEvery /\ s_clock.now + 1 < boundary
  THEN [now |-> s_clock.now + 1, age |-> s_clock.age + 1]
  ELSE [now |-> time, age |-> 0]

\* TickClock::step(): one on, unless it is time to read or the boundary is next.
Step(boundary) ==
  IF s_clock.now # 0 /\ s_clock.age + 1 < ReadEvery /\ s_clock.now + 1 < boundary
  THEN [now |-> s_clock.now + 1, age |-> s_clock.age + 1]
  ELSE [now |-> time, age |-> 0]

WasRead(c) == c.age = 0

NextTurn(now) == (now \div Hour + 1) * Hour

\* hour_rollover(): what the hour counted goes to the history.
RolledOver(now, t) ==
  LET day == now \div Day
  IN  [t EXCEPT !.hour = 0,
                !.today = IF day # t.day THEN 0 ELSE @,
                !.yesterday = IF day # t.day /\ t.armed THEN t.today ELSE @,
                !.day = day, !.armed = TRUE]

Fires(now) == turn = 0 \/ now >= turn

Collected(t) == [t EXCEPT !.hour = @ + event_counter, !.today = @ + event_counter]

\* secondticker()
SecondTicker ==
  /\ owed > 0 /\ owed' = owed - 1
  /\ event_counter' = 0
  /\ LET c == Step(turn) IN
     IF is_synced
     THEN /\ s_clock' = c
          /\ gone' = IF WasRead(c) THEN 0 ELSE gone
          /\ turn' = IF Fires(c.now) THEN NextTurn(c.now) ELSE turn
          /\ past' = IF Fires(c.now) /\ tally.armed THEN past + tally.hour ELSE past
          /\ tally' = Collected(IF Fires(c.now) THEN RolledOver(c.now, tally) ELSE tally)
          /\ counted' = counted + event_counter
     ELSE tally' = Collected(tally) /\ UNCHANGED <<s_clock, gone, turn, past, counted>>
  /\ UNCHANGED <<time, moved, reply, is_synced, pulses, replies>>

\* A reply comes: the SDK sets the time and leaves a note.
Reply(d) ==
  /\ replies < MaxReplies /\ replies' = replies + 1
  /\ time' = IF time = 0 THEN d ELSE time + d
  /\ moved' = IF time = 0 THEN 0 ELSE moved + d
  /\ gone' = IF d > 0 /\ s_clock.now # 0 THEN gone + d ELSE gone
  /\ reply' = TRUE
  /\ UNCHANGED <<is_synced, owed, clicks, s_clock, turn>>

\* NTP_Client: take_sync(), and Counter's clock_stepped() when it is a step.
TakeReply ==
  /\ reply /\ reply' = FALSE
  /\ is_synced' = TRUE /\ moved' = 0
  /\ turn' = IF is_synced /\ (moved > StepS \/ moved < -StepS) THEN 0 ELSE turn
  /\ UNCHANGED <<time, owed, clicks, s_clock, gone, replies>>

HourNext ==
  \/ Pulse \/ SecondPasses \/ LoseTick \/ SecondTicker \/ TakeReply
  \/ \E d \in IF time = 0 THEN StartTimes ELSE Moves : Reply(d)

HourSpec == HourInit /\ [][HourNext]_hourVars

------------------------------------------------------------------------
HourTypeOK ==
  /\ time \in Nat /\ moved \in Int /\ reply \in BOOLEAN /\ is_synced \in BOOLEAN
  /\ owed \in 0 .. MaxOwed /\ event_counter \in Nat /\ pulses \in 0 .. MaxClicks
  /\ s_clock.now \in Nat /\ s_clock.age \in 0 .. ReadEvery - 1 /\ turn \in Nat
  /\ tally \in [hour : Nat, today : Nat, yesterday : Nat, day : Nat, armed : BOOLEAN]
  /\ past \in Nat /\ counted \in Nat /\ gone \in Nat /\ replies \in 0 .. MaxReplies

\* However the clock moves, and wherever the interrupt falls, the hours of the
\* history and this one hold every click collected since the first sync.
HoursAddUp == tally.armed => past + tally.hour = counted /\ tally.today <= counted

\* The hour does not turn before its time,
NeverEarly == turn # 0 /\ turn' > turn => time >= turn

\* and a tick that leaves it open is late by no more than the seconds that
\* passed without a tick since the time was read.
NeverLate == owed' < owed /\ gone' = gone /\ turn' # 0 => time < turn' + owed' + gone'

HourTurnsOnTime == [][NeverEarly /\ NeverLate]_hourVars

\* Both.
HoursAreRight == []HoursAddUp /\ HourTurnsOnTime
============================================================================
