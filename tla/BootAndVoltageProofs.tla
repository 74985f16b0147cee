------------------------ MODULE BootAndVoltageProofs ------------------------
(***************************************************************************)
(* What keeps a device up and its tube safe.                               *)
(*                                                                         *)
(* What BootGuard promises for any number of builds and any limits: the    *)
(* type invariant, that safe mode is earned, that a crash loop is guarded  *)
(* and that a safe boot is over within a day.                              *)
(*                                                                         *)
(* None of the three is inductive.  A reset hands its cause to the next    *)
(* boot in two places, the reset reason and the crash snapshot, and the    *)
(* state in RTC memory is judged only then, so the invariant has a part    *)
(* for a booted device and one for a device between a reset and on_boot.   *)
(*                                                                         *)
(* And what HV promises for any frequencies, widths of duty and trim and   *)
(* limits, wherever its NMI falls: whole settings, the least duty when cut *)
(* off or held, a low pin when stopped.  Its invariant reads the stores    *)
(* that the main loop has still to make.                                   *)
(***************************************************************************)
EXTENDS BootGuard, HighVoltage, TLAPS

\* what OnBoot will take for a crash
LooksCrashed == dump = flash \/ reason \in CrashReasons

\* The marks of a crash are left by a crash only, and on_boot takes them away.
MarksInv ==
  /\ Booted => rtc.magic /\ dump = NoDump
  /\ ~Booted /\ (dump # NoDump \/ reason \in CrashReasons) => crashRun >= 1
  /\ rtc.magic /\ rtc.enter => asked

\* The streak in RTC memory is not ahead of the crashes that really came.
EarnedInv ==
  Booted \/ (rtc.magic /\ (dump # NoDump \/ reason \in CrashReasons)) =>
    /\ \/ crashRun >= CrashesToSafeMode
       \/ rtc.crash_streak + (IF Booted THEN 0 ELSE 1) <= crashRun
    /\ rtc.safe => asked \/ crashRun >= CrashesToSafeMode

\* Nor is it behind the early crashes of the running firmware.
GuardedInv ==
  /\ Booted => /\ rtc.crash_streak >= CrashesToSafeMode => rtc.safe
               /\ \/ guarded <= rtc.crash_streak
                  \/ rtc.crash_streak >= CrashesToSafeMode
  /\ ~Booted /\ Known(rtc, flash) /\ guarded > 0 =>
       /\ LooksCrashed
       /\ ~rtc.lived
       /\ \/ guarded <= rtc.crash_streak + 1
          \/ rtc.crash_streak >= CrashesToSafeMode

\* The way out of safe mode is always in sight.
RetryInv ==
  /\ stage = "setup" => up <= SetupMax
  /\ stage = "reset" => up = 0
  /\ retry <= Doubled[RetryShiftMax]
  /\ stage = "running" /\ rtc.safe => /\ restart_at # NoRestart
                                      /\ up <= restart_at
                                      /\ restart_at < Day

IInv == TypeOK /\ MarksInv /\ EarnedInv /\ GuardedInv

Limits == CrashesToSafeMode \in Nat \ {0} /\ StreakMax \in Nat
          /\ StreakMax >= CrashesToSafeMode /\ RetriesMax \in Nat \ {0}
          /\ RetryShiftMax \in 0..5 /\ SetupMax \in Nat /\ Day \in Nat

\* The assumption about the limits, without the length of the day.
LEMMA LimitsHold == Limits
  BY LimitAssumption DEF Limits

----------------------------------------------------------------------------
(* What the helpers return.                                                *)

\* A saturating counter stays within its limit.
LEMMA SatIncBound ==
  ASSUME NEW max \in Nat, NEW n \in 0..max
  PROVE  /\ SatInc(n, max) \in 0..max
         /\ SatInc(n, max) = IF n = max THEN max ELSE n + 1
  BY DEF SatInc, Smaller

\* The wait is one of the six of the shift, and the longest is the clamped one.
LEMMA RetryBound ==
  ASSUME NEW n \in Nat
  PROVE  RetryAfter(n) \in Nat /\ RetryAfter(n) <= Doubled[RetryShiftMax]
<1>1. \A i, j \in 0..5 : i <= j => Doubled[i] \in Nat /\ Doubled[i] <= Doubled[j]
  BY DEF Doubled
<1>2. Smaller(n, RetryShiftMax) \in 0..5 /\ Smaller(n, RetryShiftMax) <= RetryShiftMax
  BY LimitsHold DEF Smaller, Limits
<1> QED
  BY <1>1, <1>2, LimitsHold DEF RetryAfter, Limits

\* on_boot turns any RTC state into one the guard can have written.
LEMMA ApplyType ==
  ASSUME NEW s \in RtcState, NEW fw \in Firmwares, NEW end \in Endings
  PROVE  /\ Claimed(s, fw) \in RtcState
         /\ Apply(s, fw, end) \in RtcState
<1> DEFINE c == Claimed(s, fw)
<1>1. c \in RtcState
  BY LimitsHold DEF Claimed, Fresh, RtcState, Limits
<1>2. Streak(c, end) \in 0..StreakMax
  BY <1>1, LimitsHold, SatIncBound DEF Streak, RtcState, Limits
<1>3. Safe(c, end) \in BOOLEAN
  BY <1>1 DEF Safe, RtcState
<1> HIDE DEF c
<1>4. Apply(s, fw, end) = [c EXCEPT !.lived = FALSE, !.enter = FALSE,
                            !.crash_streak = Streak(c, end), !.safe = Safe(c, end)]
  BY DEF Apply, c
<1> QED
  BY <1>1, <1>2, <1>3, <1>4 DEF RtcState, c

\* Every reset reason is an end of one of three kinds.
LEMMA EndingType ==
  ASSUME NEW r
  PROVE  Ending(r) \in Endings
  BY DEF Ending, Endings

\* Which reasons there are.
LEMMA ReasonsDef == /\ CrashReasons \subseteq Reasons
                    /\ \A why \in {"restart", "pin", "power", "unknown"} : why \in Reasons
  BY DEF Reasons

\* The history counters of a crash stay within their limit.
LEMMA HistoryType ==
  ASSUME TypeOK
  PROVE  /\ SatInc(crashRun, RunMax) \in 0..RunMax
         /\ SatInc(guarded, RunMax) \in 0..RunMax
         /\ 0 \in 0..RunMax
<1>1. RunMax \in Nat
  BY LimitsHold DEF RunMax, Limits
<1> QED
  BY <1>1, SatIncBound DEF TypeOK

----------------------------------------------------------------------------
\* A device that is powered on for the first time is well formed.
LEMMA TypeCorrectInit == Init => TypeOK
<1> SUFFICES ASSUME Init PROVE TypeOK
  OBVIOUS
<1>1. PICK fw \in Firmwares : rtc = [Fresh(fw) EXCEPT !.magic = FALSE]
  BY DEF Init
<1>2. Fresh(fw) \in RtcState
  BY LimitsHold DEF Fresh, RtcState, Limits
<1>3. rtc \in RtcState
  BY <1>1, <1>2 DEF RtcState
<1>4. RunMax \in Nat /\ 0 \in 0..RunMax
  BY LimitsHold DEF RunMax, Limits
<1> QED
  BY <1>3, <1>4, ReasonsDef DEF Init, TypeOK

\* Every step of the guard, of a reset and of the running device leaves the
\* RTC state, the clock and the bookkeeping well formed.
THEOREM TypeCorrect == Spec => []TypeOK
<1>1. Init => TypeOK
  BY TypeCorrectInit
<1>2. TypeOK /\ [Next]_vars => TypeOK'
  <2> SUFFICES ASSUME TypeOK, [Next]_vars
               PROVE  TypeOK'
    OBVIOUS
  <2> USE HistoryType, ReasonsDef
  <2>1. ASSUME NEW why \in CrashReasons \cup {"restart"}, NEW dumped \in BOOLEAN,
               Crash(why, dumped)
        PROVE  TypeOK'
    <3>1. dump' \in Firmwares \cup {NoDump}
      BY <2>1 DEF Crash, TypeOK, RtcState
    <3> QED
      BY <2>1, <3>1 DEF Crash, Reset, NoteCrash, TypeOK
  <2>2. CASE PowerLoss
    <3>1. rtc' \in RtcState
      BY <2>2 DEF PowerLoss, TypeOK, RtcState
    <3> QED
      BY <2>2, <3>1 DEF PowerLoss, Reset, NoteOrderlyEnd, TypeOK
  <2>3. ASSUME NEW why \in {"pin", "unknown"}, OtherReset(why)
        PROVE  TypeOK'
    BY <2>3 DEF OtherReset, Reset, NoteOrderlyEnd, TypeOK
  <2>4. CASE SetupRestart
    BY <2>4 DEF SetupRestart, Reset, NoteOrderlyEnd, TypeOK
  <2>5. CASE OnBoot
    <3> DEFINE end == IF HasCrash THEN "crash" ELSE Ending(reason)
               s   == Apply(rtc, flash, end)
    <3>1. end \in Endings
      BY EndingType DEF Endings
    <3>2. s \in RtcState
      BY <3>1, ApplyType DEF TypeOK
    <3>3. rtc' = [s EXCEPT !.retries = IF s.safe THEN SatInc(@, RetriesMax) ELSE @]
      BY <2>5 DEF OnBoot
    <3>4. retry' = IF s.safe THEN RetryAfter(s.retries) ELSE 0
      BY <2>5 DEF OnBoot
    <3>5. asked' = (asked /\ s.safe)
      BY <2>5 DEF OnBoot
    <3> HIDE DEF end, s
    <3>6. SatInc(s.retries, RetriesMax) \in 0..RetriesMax
      BY <3>2, LimitsHold, SatIncBound DEF RtcState, Limits
    <3>7. rtc' \in RtcState
      BY <3>2, <3>3, <3>6 DEF RtcState
    <3>8. retry' \in Nat
      BY <3>2, <3>4, RetryBound, LimitsHold DEF RtcState, Limits
    <3>9. asked' \in BOOLEAN
      BY <3>5
    <3>10. waited' \in Nat
      BY <2>5, <3>8 DEF OnBoot, TypeOK
    <3> QED
      BY <2>5, <3>7, <3>8, <3>9, <3>10 DEF OnBoot, TypeOK
  <2>6. CASE SetupDone
    BY <2>6 DEF SetupDone, history, TypeOK
  <2>7. CASE Tick
    BY <2>7 DEF Tick, history, TypeOK
  <2>8. CASE MarkLived
    <3>1. rtc' \in RtcState
      BY <2>8 DEF MarkLived, TypeOK, RtcState
    <3> QED
      BY <2>8, <3>1 DEF MarkLived, history, TypeOK
  <2>9. CASE MarkDay
    <3>1. rtc' \in RtcState
      BY <2>9, LimitsHold DEF MarkDay, TypeOK, RtcState, Limits
    <3> QED
      BY <2>9, <3>1 DEF MarkDay, TypeOK
  <2>10. CASE RequestRestart
    BY <2>10 DEF RequestRestart, history, TypeOK
  <2>11. CASE RequestSafe
    <3>1. rtc' \in RtcState
      BY <2>11 DEF RequestSafe, TypeOK, RtcState
    <3> QED
      BY <2>11, <3>1 DEF RequestSafe, TypeOK
  <2>12. CASE SerialSafe
    <3>1. rtc' \in RtcState
      BY <2>12 DEF SerialSafe, TypeOK, RtcState
    <3> QED
      BY <2>12, <3>1 DEF SerialSafe, Reset, TypeOK
  <2>13. ASSUME NEW fw \in Firmwares, Update(fw)
         PROVE  TypeOK'
    BY <2>13 DEF Update, history, TypeOK
  <2>14. CASE Restart
    BY <2>14 DEF Restart, Reset, NoteOrderlyEnd, TypeOK
  <2>15. CASE UNCHANGED vars
    BY <2>15 DEF vars, TypeOK
  <2> QED
    BY <2>1, <2>2, <2>3, <2>4, <2>5, <2>6, <2>7, <2>8, <2>9, <2>10, <2>11,
       <2>12, <2>13, <2>14, <2>15 DEF Next, AnyCrash, AskSafe
<1> QED
  BY <1>1, <1>2, PTL DEF Spec

----------------------------------------------------------------------------
\* on_boot takes a leftover request, streak or safe flag only from RTC memory
\* that this firmware wrote.
LEMMA ApplyResult ==
  ASSUME NEW s \in RtcState, NEW fw \in Firmwares, NEW end \in Endings,
         NEW r, r = Apply(s, fw, end)
  PROVE  /\ r.magic /\ r.fw = fw /\ ~r.lived /\ ~r.enter
         /\ r.crash_streak = Streak(Claimed(s, fw), end)
         /\ r.safe = Safe(Claimed(s, fw), end)
         /\ r.retries = Claimed(s, fw).retries
<1>1. Claimed(s, fw) \in RtcState
  BY ApplyType
<1>2. Claimed(s, fw).magic /\ Claimed(s, fw).fw = fw
  BY DEF Claimed, Known, Fresh
<1> DEFINE c == Claimed(s, fw)
<1>3. r = [c EXCEPT !.lived = FALSE, !.enter = FALSE,
                    !.crash_streak = Streak(c, end), !.safe = Safe(c, end)]
  BY DEF Apply
<1> HIDE DEF c
<1> QED
  BY <1>1, <1>2, <1>3 DEF RtcState, c

\* The end that on_boot sees, and what it makes of it.
BootEnd == IF HasCrash THEN "crash" ELSE Ending(reason)

\* on_boot starts from what it believes of RTC memory and judges it by the end it sees.
LEMMA OnBootResult ==
  ASSUME TypeOK, OnBoot
  PROVE  LET c == Claimed(rtc, flash)
         IN  /\ BootEnd \in Endings
             /\ BootEnd = "crash" <=> LooksCrashed
             /\ c \in RtcState
             /\ rtc'.magic /\ rtc'.fw = flash /\ ~rtc'.lived /\ ~rtc'.enter
             /\ rtc'.crash_streak = Streak(c, BootEnd)
             /\ rtc'.safe = Safe(c, BootEnd)
             /\ asked' = (asked /\ Safe(c, BootEnd))
             /\ retry' <= Doubled[RetryShiftMax]
<1> DEFINE c == Claimed(rtc, flash)
           s == Apply(rtc, flash, BootEnd)
<1>1. BootEnd \in Endings
  BY EndingType DEF BootEnd, Endings
<1>2. BootEnd = "crash" <=> LooksCrashed
  BY DEF BootEnd, LooksCrashed, HasCrash, Ending, CrashReasons
<1>3. c \in RtcState /\ s \in RtcState
  BY <1>1, ApplyType DEF TypeOK
<1>4. /\ s.magic /\ s.fw = flash /\ ~s.lived /\ ~s.enter
      /\ s.crash_streak = Streak(c, BootEnd)
      /\ s.safe = Safe(c, BootEnd)
  BY <1>1, ApplyResult DEF TypeOK
<1>5. rtc' = [s EXCEPT !.retries = IF s.safe THEN SatInc(@, RetriesMax) ELSE @]
  BY DEF OnBoot, BootEnd
<1>6. /\ asked' = (asked /\ s.safe)
      /\ retry' = IF s.safe THEN RetryAfter(s.retries) ELSE 0
  BY DEF OnBoot, BootEnd
<1> HIDE DEF c, s
<1>7. rtc'.magic /\ rtc'.fw = flash /\ ~rtc'.lived /\ ~rtc'.enter
  BY <1>3, <1>4, <1>5 DEF RtcState
<1>8. rtc'.crash_streak = Streak(c, BootEnd) /\ rtc'.safe = Safe(c, BootEnd)
  BY <1>3, <1>4, <1>5 DEF RtcState
<1>9. asked' = (asked /\ Safe(c, BootEnd))
  BY <1>4, <1>6
<1>10. retry' <= Doubled[RetryShiftMax]
  <2>1. s.retries \in Nat
    BY <1>3, LimitsHold DEF RtcState, Limits
  <2>2. Doubled[RetryShiftMax] \in Nat
    BY LimitsHold DEF Doubled, Limits
  <2> QED
    BY <2>1, <2>2, <1>6, RetryBound
<1> QED
  BY <1>1, <1>2, <1>3, <1>7, <1>8, <1>9, <1>10 DEF c

----------------------------------------------------------------------------
(* The steps other than on_boot and the resets leave the verdicts alone.   *)

\* What a crash does.
LEMMA CrashEffect ==
  ASSUME TypeOK, NEW why \in CrashReasons \cup {"restart"},
         NEW dumped \in BOOLEAN, Crash(why, dumped)
  PROVE  /\ Booted /\ ~Booted'
         /\ rtc' = rtc /\ flash' = flash /\ asked' = asked
         /\ dump' \in {dump, rtc.fw}
         /\ rtc.fw = flash => LooksCrashed'
         /\ crashRun' = IF crashRun = RunMax THEN RunMax ELSE crashRun + 1
         /\ guarded' = IF rtc.lived THEN 0
                       ELSE IF guarded = RunMax THEN RunMax ELSE guarded + 1
<1>1. RunMax \in Nat
  BY LimitsHold DEF RunMax, Limits
<1>2. SatInc(crashRun, RunMax) = IF crashRun = RunMax THEN RunMax ELSE crashRun + 1
  BY <1>1, SatIncBound DEF TypeOK
<1>3. SatInc(guarded, RunMax) = IF guarded = RunMax THEN RunMax ELSE guarded + 1
  BY <1>1, SatIncBound DEF TypeOK
<1>4. rtc.fw = flash => LooksCrashed'
  BY DEF Crash, Reset, LooksCrashed
<1> QED
  BY <1>2, <1>3, <1>4 DEF Crash, Reset, NoteCrash, Booted

\* what the resets that are not crashes do
LEMMA OrderlyEffect ==
  ASSUME TypeOK,
         \/ PowerLoss
         \/ \E why \in {"pin", "unknown"} : OtherReset(why)
         \/ SetupRestart \/ Restart \/ SerialSafe
  PROVE  /\ ~Booted'
         /\ crashRun' = 0 /\ guarded' = 0
         /\ flash' = flash
         /\ reason' \notin CrashReasons
         /\ up' = 0 /\ retry' = 0
         /\ Booted /\ dump = NoDump => dump' = NoDump
         /\ ~Booted => dump' = NoDump /\ ~rtc'.magic
         /\ rtc'.magic /\ rtc'.enter => asked' \/ (asked' = asked /\ rtc.magic /\ rtc.enter)
<1>1. CASE PowerLoss
  <2>1. rtc'.magic = FALSE
    BY <1>1 DEF PowerLoss, TypeOK, RtcState
  <2> QED
    BY <1>1, <2>1 DEF PowerLoss, Reset, NoteOrderlyEnd, Booted, CrashReasons
<1>2. CASE \E why \in {"pin", "unknown"} : OtherReset(why)
  BY <1>2 DEF OtherReset, Reset, NoteOrderlyEnd, Booted, CrashReasons
<1>3. CASE SetupRestart
  BY <1>3 DEF SetupRestart, Reset, NoteOrderlyEnd, Booted, CrashReasons
<1>4. CASE Restart
  BY <1>4 DEF Restart, Reset, NoteOrderlyEnd, Booted, CrashReasons
<1>5. CASE SerialSafe
  BY <1>5 DEF SerialSafe, Reset, Booted, CrashReasons
<1> QED
  BY <1>1, <1>2, <1>3, <1>4, <1>5

\* what the steps of a device that stays up do
LEMMA RunningEffect ==
  ASSUME TypeOK,
         \/ SetupDone \/ Tick \/ MarkLived \/ MarkDay \/ RequestRestart
         \/ RequestSafe \/ (\E fw \in Firmwares : Update(fw)) \/ UNCHANGED vars
  PROVE  /\ Booted' = Booted
         /\ ~Booted => UNCHANGED vars
         /\ dump' = dump /\ reason' = reason
         /\ crashRun' = crashRun /\ guarded' = guarded
         /\ rtc'.magic = rtc.magic /\ rtc'.crash_streak = rtc.crash_streak
         /\ rtc'.safe = rtc.safe
         /\ rtc'.enter => rtc.enter \/ asked'
         /\ asked => asked'
<1>1. CASE SetupDone
  BY <1>1 DEF SetupDone, history, Booted
<1>2. CASE Tick
  BY <1>2 DEF Tick, history, Booted
<1>3. CASE MarkLived
  BY <1>3 DEF MarkLived, history, Booted, TypeOK, RtcState
<1>4. CASE MarkDay
  BY <1>4 DEF MarkDay, Booted, TypeOK, RtcState
<1>5. CASE RequestRestart
  BY <1>5 DEF RequestRestart, history, Booted
<1>6. CASE RequestSafe
  BY <1>6 DEF RequestSafe, Booted, TypeOK, RtcState
<1>7. CASE \E fw \in Firmwares : Update(fw)
  BY <1>7 DEF Update, history, Booted
<1>8. CASE UNCHANGED vars
  BY <1>8 DEF vars, Booted
<1> QED
  BY <1>1, <1>2, <1>3, <1>4, <1>5, <1>6, <1>7, <1>8

----------------------------------------------------------------------------
\* The verdicts of every boot rest on IInv.
THEOREM GuardInductive == Spec => []IInv
<1>1. Init => IInv
  <2> SUFFICES ASSUME Init, TypeOK PROVE MarksInv /\ EarnedInv /\ GuardedInv
    BY TypeCorrectInit DEF IInv
  <2>1. ~Booted /\ dump = NoDump /\ reason \notin CrashReasons /\ guarded = 0
    BY DEF Init, Booted, CrashReasons
  <2>2. rtc.magic = FALSE
    BY DEF Init, TypeOK, RtcState
  <2> QED
    BY <2>1, <2>2 DEF MarksInv, EarnedInv, GuardedInv, Booted
<1>2. IInv /\ TypeOK' /\ [Next]_vars => IInv'
  <2> SUFFICES ASSUME IInv, TypeOK', [Next]_vars
               PROVE  MarksInv' /\ EarnedInv' /\ GuardedInv'
    BY DEF IInv
  <2> USE DEF IInv
  <2>0. /\ CrashesToSafeMode \in Nat \ {0} /\ RunMax = CrashesToSafeMode + 1
        /\ StreakMax \in Nat /\ StreakMax >= CrashesToSafeMode
        /\ crashRun \in Nat /\ crashRun <= RunMax
        /\ guarded \in Nat /\ guarded <= RunMax
        /\ rtc.crash_streak \in 0..StreakMax /\ rtc.safe \in BOOLEAN
    BY LimitsHold DEF Limits, RunMax, TypeOK, RtcState
  <2>1. ASSUME NEW why \in CrashReasons \cup {"restart"}, NEW dumped \in BOOLEAN,
               Crash(why, dumped)
        PROVE  MarksInv' /\ EarnedInv' /\ GuardedInv'
    <3> USE <2>1
    <3>1. /\ Booted /\ ~Booted'
          /\ rtc' = rtc /\ flash' = flash /\ asked' = asked
          /\ rtc.fw = flash => LooksCrashed'
          /\ crashRun' = IF crashRun = RunMax THEN RunMax ELSE crashRun + 1
          /\ guarded' = IF rtc.lived THEN 0
                        ELSE IF guarded = RunMax THEN RunMax ELSE guarded + 1
      BY CrashEffect
    <3>2. MarksInv'
      BY <2>0, <3>1 DEF MarksInv
    <3>3. EarnedInv'
      BY <2>0, <3>1 DEF EarnedInv
    <3>4. GuardedInv'
      BY <2>0, <3>1 DEF GuardedInv, Known
    <3> QED
      BY <3>2, <3>3, <3>4
  <2>2. ASSUME \/ PowerLoss
               \/ \E why \in {"pin", "unknown"} : OtherReset(why)
               \/ SetupRestart \/ Restart \/ SerialSafe
        PROVE  MarksInv' /\ EarnedInv' /\ GuardedInv'
    <3>1. /\ ~Booted'
          /\ crashRun' = 0 /\ guarded' = 0
          /\ reason' \notin CrashReasons
          /\ dump' = NoDump
          /\ rtc'.magic /\ rtc'.enter => asked' \/ (asked' = asked /\ rtc.magic /\ rtc.enter)
      BY <2>2, OrderlyEffect DEF MarksInv
    <3> QED
      BY <3>1 DEF MarksInv, EarnedInv, GuardedInv
  <2>3. CASE OnBoot
    <3> DEFINE c == Claimed(rtc, flash)
    <3> USE <2>3
    <3>1. /\ Booted' /\ ~Booted /\ dump' = NoDump /\ crashRun' = crashRun
          /\ guarded' = IF Known(rtc, flash) THEN guarded ELSE 0
      BY DEF OnBoot, Booted
    <3>2. /\ BootEnd = "crash" <=> LooksCrashed
          /\ c \in RtcState
          /\ rtc'.magic /\ ~rtc'.enter
          /\ rtc'.crash_streak = Streak(c, BootEnd)
          /\ rtc'.safe = Safe(c, BootEnd)
          /\ asked' = (asked /\ Safe(c, BootEnd))
      BY OnBootResult
    <3>3. /\ c.crash_streak \in 0..StreakMax /\ c.safe \in BOOLEAN
          /\ IF Known(rtc, flash) THEN c = rtc
             ELSE c.crash_streak = 0 /\ ~c.safe /\ ~c.enter /\ ~c.lived
      BY <3>2 DEF Claimed, Fresh, RtcState
    <3> HIDE DEF c
    <3>4. Streak(c, BootEnd) = IF BootEnd # "crash" \/ c.lived THEN 0
                               ELSE IF c.crash_streak = StreakMax THEN StreakMax
                               ELSE c.crash_streak + 1
      BY <2>0, <3>3, SatIncBound DEF Streak
    <3>5. Safe(c, BootEnd) <=> IF BootEnd # "crash" THEN c.enter /\ BootEnd = "restart"
                               ELSE c.safe \/ c.enter
                                    \/ Streak(c, BootEnd) >= CrashesToSafeMode
      BY DEF Safe
    <3>6. LooksCrashed => dump # NoDump \/ reason \in CrashReasons
      BY FirmwareAssumption DEF LooksCrashed, TypeOK
    <3>7. c.enter => asked
      BY <3>3 DEF Known, MarksInv
    <3>8. MarksInv'
      BY <3>1, <3>2 DEF MarksInv
    <3>9. EarnedInv'
      <4> DEFINE Goal == /\ \/ crashRun >= CrashesToSafeMode
                            \/ Streak(c, BootEnd) <= crashRun
                         /\ Safe(c, BootEnd) => asked \/ crashRun >= CrashesToSafeMode
      <4>1. ASSUME BootEnd = "crash" PROVE Goal
        <5>1. crashRun >= 1
          BY <4>1, <3>1, <3>2, <3>6 DEF MarksInv
        <5>2. \/ crashRun >= CrashesToSafeMode
              \/ Streak(c, BootEnd) <= crashRun
          BY <4>1, <5>1, <2>0, <3>1, <3>2, <3>3, <3>4, <3>6 DEF EarnedInv, Known
        <5>3. c.safe => asked \/ crashRun >= CrashesToSafeMode
          BY <4>1, <3>1, <3>2, <3>3, <3>6 DEF EarnedInv, Known
        <5>4. Streak(c, BootEnd) \in Nat
          BY <2>0, <3>3, <3>4
        <5>5. Streak(c, BootEnd) >= CrashesToSafeMode => crashRun >= CrashesToSafeMode
          BY <5>2, <5>4, <2>0
        <5>6. Safe(c, BootEnd) => asked \/ crashRun >= CrashesToSafeMode
          BY <5>3, <5>5, <4>1, <3>5, <3>7
        <5> QED
          BY <5>2, <5>6
      <4>2. ASSUME BootEnd # "crash" PROVE Goal
        <5>1. Streak(c, BootEnd) <= crashRun
          BY <4>2, <2>0, <3>4
        <5>2. Safe(c, BootEnd) => asked
          BY <4>2, <3>5, <3>7
        <5> QED
          BY <5>1, <5>2
      <4>3. \/ crashRun >= CrashesToSafeMode
            \/ Streak(c, BootEnd) + 0 <= crashRun
        BY <4>1, <4>2, <2>0, <3>3, <3>4
      <4>4. rtc'.safe => asked' \/ crashRun' >= CrashesToSafeMode
        BY <4>1, <4>2, <3>1, <3>2, Zenon
      <4> QED
        BY <4>3, <4>4, <3>1, <3>2 DEF EarnedInv
    <3>10. GuardedInv'
      <4>1. guarded' <= rtc'.crash_streak \/ rtc'.crash_streak >= CrashesToSafeMode
        BY <2>0, <3>1, <3>2, <3>3, <3>4 DEF GuardedInv
      <4>2. rtc'.crash_streak >= CrashesToSafeMode => rtc'.safe
        BY <2>0, <3>2, <3>4, <3>5
      <4> QED
        BY <4>1, <4>2, <3>1 DEF GuardedInv
    <3> QED
      BY <3>8, <3>9, <3>10
  <2>4. ASSUME \/ SetupDone \/ Tick \/ MarkLived \/ MarkDay \/ RequestRestart
               \/ RequestSafe \/ (\E fw \in Firmwares : Update(fw)) \/ UNCHANGED vars
        PROVE  MarksInv' /\ EarnedInv' /\ GuardedInv'
    <3>1. /\ Booted' = Booted
          /\ ~Booted => UNCHANGED vars
          /\ dump' = dump /\ reason' = reason
          /\ crashRun' = crashRun /\ guarded' = guarded
          /\ rtc'.magic = rtc.magic /\ rtc'.crash_streak = rtc.crash_streak
          /\ rtc'.safe = rtc.safe
          /\ rtc'.enter => rtc.enter \/ asked'
          /\ asked => asked'
      BY <2>4, RunningEffect
    <3>2. CASE Booted
      BY <3>1, <3>2, <2>0 DEF MarksInv, EarnedInv, GuardedInv
    <3>3. CASE ~Booted
      BY <3>1, <3>3 DEF vars, MarksInv, EarnedInv, GuardedInv, Booted, Known, LooksCrashed
    <3> QED
      BY <3>2, <3>3
  <2> QED
    BY <2>1, <2>2, <2>3, <2>4 DEF Next, AnyCrash, AskSafe
<1> QED
  BY <1>1, <1>2, TypeCorrect, PTL DEF Spec, IInv

\* Safe mode is never entered by mistake.
THEOREM SafeEarned == Spec => []SafeIsEarned
<1>1. IInv => SafeIsEarned
  BY DEF IInv, EarnedInv, SafeIsEarned
<1> QED
  BY <1>1, GuardInductive, PTL

\* Crashes that no boot survives end in safe mode.
THEOREM LoopGuarded == Spec => []CrashLoopIsGuarded
<1>1. IInv => CrashLoopIsGuarded
  BY LimitsHold DEF IInv, GuardedInv, CrashLoopIsGuarded, TypeOK, RtcState, RunMax, Limits
<1> QED
  BY <1>1, GuardInductive, PTL

----------------------------------------------------------------------------
\* A boot in safe mode has its restart ahead of it, and near enough: the
\* longest wait and the longest setup() fit in a day.
THEOREM SafeBootShort == Spec => []SafeBootIsShort
<1> DEFINE RInv == TypeOK /\ RetryInv
<1>0. Doubled[RetryShiftMax] \in Nat /\ Doubled[RetryShiftMax] + SetupMax < Day
      /\ SetupMax \in Nat /\ Day \in Nat
  BY LimitAssumption DEF Doubled
<1>1. Init => RetryInv
  BY <1>0 DEF Init, RetryInv
<1>2. RInv /\ TypeOK' /\ [Next]_vars => RetryInv'
  <2> SUFFICES ASSUME RInv, TypeOK', [Next]_vars
               PROVE  RetryInv'
    OBVIOUS
  <2>0. up \in Nat /\ retry \in Nat /\ restart_at \in Nat \cup {NoRestart}
        /\ NoRestart = -1
    BY DEF TypeOK, NoRestart
  <2>1. ASSUME NEW why, Reset(why)
        PROVE  RetryInv'
    BY <2>1, <1>0 DEF Reset, RetryInv
  <2>2. CASE OnBoot
    <3>1. retry' <= Doubled[RetryShiftMax]
      BY <2>2, OnBootResult
    <3>2. stage' = "setup" /\ stage = "reset" /\ up' = up
      BY <2>2 DEF OnBoot
    <3> QED
      BY <3>1, <3>2, <1>0 DEF RetryInv
  <2>3. CASE SetupDone
    BY <2>3, <1>0, <2>0 DEF SetupDone, RetryInv
  <2>4. CASE Tick
    BY <2>4, <1>0, <2>0 DEF Tick, RestartDue, RetryInv
  <2>5. CASE MarkLived
    BY <2>5 DEF MarkLived, RetryInv, TypeOK, RtcState
  <2>6. CASE MarkDay
    BY <2>6 DEF MarkDay, RetryInv, TypeOK, RtcState
  <2>7. ASSUME restart_at' = up, stage = "running", stage' = stage, up' = up,
               retry' = retry, rtc'.safe = rtc.safe
        PROVE  RetryInv'
    BY <2>7, <1>0, <2>0 DEF RetryInv
  <2>8. CASE RequestRestart
    BY <2>8, <2>7 DEF RequestRestart
  <2>9. CASE RequestSafe
    <3>1. rtc'.safe = rtc.safe
      BY <2>9 DEF RequestSafe, TypeOK, RtcState
    <3> QED
      BY <2>9, <2>7, <3>1 DEF RequestSafe
  <2>10. ASSUME NEW fw \in Firmwares, Update(fw)
         PROVE  RetryInv'
    BY <2>10, <2>7 DEF Update
  <2>11. CASE UNCHANGED vars
    BY <2>11 DEF vars, RetryInv
  <2> QED
    BY <2>1, <2>2, <2>3, <2>4, <2>5, <2>6, <2>8, <2>9, <2>10, <2>11
    DEF Next, AnyCrash, AskSafe, Crash, PowerLoss, OtherReset, SetupRestart,
        SerialSafe, Restart
<1>3. RInv => SafeBootIsShort
  BY <1>0 DEF RetryInv, SafeBootIsShort, TypeOK
<1> QED
  BY <1>1, <1>2, <1>3, TypeCorrect, PTL DEF Spec

----------------------------------------------------------------------------
\* The waits that came so far are no longer than the next one, which the tries
\* in RTC memory give: that outlives a reset, which forgets the wait itself.
BackoffInv ==
  /\ rtc.magic => waited <= RetryAfter(rtc.retries)
  /\ BackoffGrows

\* More tries wait no less.
LEMMA RetryMonotone ==
  ASSUME NEW m \in Nat, NEW n \in Nat, m <= n
  PROVE  RetryAfter(m) <= RetryAfter(n)
<1>1. \A i, j \in 0..5 : i <= j => Doubled[i] <= Doubled[j]
  BY DEF Doubled
<1>2. /\ Smaller(m, RetryShiftMax) \in 0..5 /\ Smaller(n, RetryShiftMax) \in 0..5
      /\ Smaller(m, RetryShiftMax) <= Smaller(n, RetryShiftMax)
  BY LimitsHold DEF Smaller, Limits
<1> QED
  BY <1>1, <1>2 DEF RetryAfter

\* on_boot waits as its tries say, and only then counts this one.
LEMMA OnBootRetry ==
  ASSUME TypeOK, OnBoot
  PROVE  LET r == Claimed(rtc, flash).retries
         IN  /\ r \in Nat
             /\ rtc'.retries \in Nat /\ rtc'.retries >= r
             /\ retry' = IF rtc'.safe THEN RetryAfter(r) ELSE 0
<1> DEFINE c == Claimed(rtc, flash)
           s == Apply(rtc, flash, BootEnd)
<1>1. BootEnd \in Endings
  BY EndingType DEF BootEnd, Endings
<1>2. c \in RtcState /\ s \in RtcState /\ s.retries = c.retries
  BY <1>1, ApplyType, ApplyResult DEF TypeOK
<1>3. /\ rtc' = [s EXCEPT !.retries = IF s.safe THEN SatInc(@, RetriesMax) ELSE @]
      /\ retry' = IF s.safe THEN RetryAfter(s.retries) ELSE 0
  BY DEF OnBoot, BootEnd
<1> HIDE DEF c, s
<1>4. SatInc(s.retries, RetriesMax) \in Nat /\ SatInc(s.retries, RetriesMax) >= s.retries
  <2>1. RetriesMax \in Nat /\ s.retries \in 0..RetriesMax
    BY <1>2, LimitsHold DEF RtcState, Limits
  <2> QED
    BY <2>1, SatIncBound
<1>5. /\ rtc'.safe = s.safe
      /\ rtc'.retries = IF s.safe THEN SatInc(s.retries, RetriesMax) ELSE s.retries
  BY <1>2, <1>3 DEF RtcState
<1> QED
  BY <1>2, <1>3, <1>4, <1>5, LimitsHold DEF RtcState, Limits, c

\* The wait for the full application never gets shorter before a good day.
THEOREM BackoffGrowing == Spec => []BackoffGrows
<1>1. Init => BackoffInv
  <2>1. RetryAfter(0) \in Nat
    BY RetryBound
  <2> QED
    BY <2>1 DEF Init, BackoffInv, BackoffGrows, Booted, Fresh
<1>2. TypeOK /\ BackoffInv /\ TypeOK' /\ [Next]_vars => BackoffInv'
  <2> SUFFICES ASSUME TypeOK, BackoffInv, TypeOK', [Next]_vars
               PROVE  BackoffInv'
    OBVIOUS
  <2>0. /\ rtc.retries \in Nat /\ RetryAfter(rtc.retries) \in Nat /\ waited \in Nat
        /\ retry \in Nat
    BY RetryBound, LimitsHold DEF TypeOK, RtcState, Limits
  <2>1. ASSUME ~Booted', waited' = waited,
               rtc'.magic => rtc.magic /\ rtc'.retries = rtc.retries
        PROVE  BackoffInv'
    BY <2>1 DEF BackoffInv, BackoffGrows
  <2>2. ASSUME waited' = waited, retry' = retry, Booted' = Booted,
               rtc'.magic = rtc.magic, rtc'.safe = rtc.safe, rtc'.retries = rtc.retries
        PROVE  BackoffInv'
    BY <2>2 DEF BackoffInv, BackoffGrows
  <2>3. CASE AnyCrash
    BY <2>1, <2>3 DEF AnyCrash, Crash, Reset, NoteCrash, Booted
  <2>4. CASE PowerLoss
    <3>1. ~rtc'.magic
      BY <2>4 DEF PowerLoss, TypeOK, RtcState
    <3> QED
      BY <2>1, <2>4, <3>1 DEF PowerLoss, Reset, NoteOrderlyEnd, Booted
  <2>5. CASE \E why \in {"pin", "unknown"} : OtherReset(why)
    BY <2>1, <2>5 DEF OtherReset, Reset, NoteOrderlyEnd, Booted
  <2>6. CASE SetupRestart
    BY <2>1, <2>6 DEF SetupRestart, Reset, NoteOrderlyEnd, Booted
  <2>7. CASE OnBoot
    <3> DEFINE r == Claimed(rtc, flash).retries
               before == IF Known(rtc, flash) THEN waited ELSE 0
    <3>1. /\ r \in Nat /\ rtc'.retries \in Nat /\ rtc'.retries >= r
          /\ retry' = IF rtc'.safe THEN RetryAfter(r) ELSE 0
      BY <2>7, OnBootRetry
    <3>2. waited' = IF before < retry' THEN retry' ELSE before
      BY <2>7 DEF OnBoot
    <3>3. before \in Nat /\ before <= RetryAfter(r)
      BY <2>0, <3>1, RetryBound DEF Claimed, Known, BackoffInv
    <3> HIDE DEF r, before
    <3>4. RetryAfter(r) \in Nat /\ RetryAfter(rtc'.retries) \in Nat
      BY <3>1, RetryBound
    <3>5. RetryAfter(r) <= RetryAfter(rtc'.retries)
      BY <3>1, RetryMonotone
    <3>6. waited' <= RetryAfter(rtc'.retries)
      BY <3>1, <3>2, <3>3, <3>4, <3>5
    <3>7. rtc'.safe => retry' >= waited'
      BY <3>1, <3>2, <3>3, <3>4
    <3> QED
      BY <3>6, <3>7 DEF BackoffInv, BackoffGrows
  <2>8. CASE SetupDone
    BY <2>2, <2>8 DEF SetupDone, history, Booted
  <2>9. CASE Tick
    BY <2>2, <2>9 DEF Tick, history, Booted
  <2>10. CASE MarkLived
    BY <2>2, <2>10 DEF MarkLived, history, Booted, TypeOK, RtcState
  <2>11. CASE MarkDay
    <3>1. rtc'.retries = 0 /\ rtc'.safe = rtc.safe /\ waited' = 0
      BY <2>11 DEF MarkDay, TypeOK, RtcState
    <3>2. RetryAfter(0) \in Nat /\ retry' \in Nat
      BY RetryBound DEF TypeOK
    <3> QED
      BY <3>1, <3>2 DEF BackoffInv, BackoffGrows
  <2>12. CASE RequestRestart
    BY <2>2, <2>12 DEF RequestRestart, history, Booted
  <2>13. CASE RequestSafe
    BY <2>2, <2>13 DEF RequestSafe, Booted, TypeOK, RtcState
  <2>14. CASE SerialSafe
    BY <2>1, <2>14 DEF SerialSafe, Reset, Booted, TypeOK, RtcState
  <2>15. CASE \E fw \in Firmwares : Update(fw)
    BY <2>2, <2>15 DEF Update, history, Booted
  <2>16. CASE Restart
    BY <2>1, <2>16 DEF Restart, Reset, NoteOrderlyEnd, Booted
  <2>17. CASE UNCHANGED vars
    BY <2>2, <2>17 DEF vars, Booted
  <2> QED
    BY <2>3, <2>4, <2>5, <2>6, <2>7, <2>8, <2>9, <2>10, <2>11, <2>12, <2>13, <2>14,
       <2>15, <2>16, <2>17 DEF Next, AskSafe
<1>3. BackoffInv => BackoffGrows
  BY DEF BackoffInv
<1> QED
  BY <1>1, <1>2, <1>3, TypeCorrect, PTL DEF Spec

----------------------------------------------------------------------------
(* The high voltage: what the stores that are still to come will leave.    *)

Stores == [do : {"unready", "period", "on", "ready", "off", "low", "clear", "go", "arm", "delay"},
           val : Nat]

(* The stores of whole posts, stops and starts.                            *)
InPairs(s) ==
  /\ s \in Seq(Stores)
  /\ \A i \in 1 .. Len(s) :
       /\ s[i].do = "period" => i > 1 /\ s[i - 1].do = "unready"
       /\ s[i].do = "on" => i > 1 /\ s[i - 1].do = "period" /\ s[i].val \in Duties
       /\ s[i].do = "off" => i < Len(s) /\ s[i + 1].do = "low"

(* The rest of such: the mailbox is closed while a pair is written, and a  *)
(* pin that was left high is brought down next.                            *)
StoresInv ==
  /\ todo \in Seq(Stores)
  /\ \A i \in 1 .. Len(todo) :
       /\ todo[i].do = "period" => IF i = 1 THEN ~mail.ready ELSE todo[i - 1].do = "unready"
       /\ todo[i].do = "on" =>
            todo[i].val \in Duties /\ IF i = 1 THEN ~mail.ready ELSE todo[i - 1].do = "period"
       /\ todo[i].do = "off" => i < Len(todo) /\ todo[i + 1].do = "low"
  /\ PairsAreWhole
  /\ ~pwmOn /\ pin => todo # <<>> /\ todo[1].do = "low"

BoxInv ==
  /\ mail \in [period : Nat, on : Nat, ready : BOOLEAN]
  /\ gen \in [period : Nat, on : Nat, high : BOOLEAN]
  /\ pwmOn \in BOOLEAN /\ alive \in BOOLEAN /\ beats \in 0 .. 2

(* No store from k on moves the duty that is posted or made.               *)
Quiet(s, k) == \A i \in k .. Len(s) : s[i].do \notin {"unready", "on", "ready"}

(* These stores post the least duty, and leave it.                         *)
PostsLeast(s) ==
  \E r \in 2 .. Len(s) :
    s[r].do = "ready" /\ s[r - 1].do = "on" /\ s[r - 1].val <= 1 /\ Quiet(s, r + 1)

LeastToCome ==
  \/ Quiet(todo, 1) /\ (IF mail.ready THEN mail.on ELSE gen.on) <= 1
  \/ PostsLeast(todo)
  \/ todo # <<>> /\ todo[1].do = "ready" /\ Quiet(todo, 2) /\ mail.on <= 1

DutyInv ==
  /\ tripped => cur = 1
  /\ held => mode # "run"
  /\ cur = 1 \/ held => LeastToCome

HvInv == HvTypeOK /\ BoxInv /\ StoresInv /\ DutyInv

----------------------------------------------------------------------------
LEMMA HvWidths ==
  /\ Freqs \subseteq Nat /\ MaxDuty \in Nat /\ MaxDuty # 0 /\ TrimMax \in Nat
  /\ TripAfter \in Nat /\ SlowEvery \in Nat /\ SlowEvery # 0 /\ Restarts \in Nat
  /\ 1 \in Duties /\ Duties \subseteq Nat
BY HvAssumption DEF HvAssumption, Duties

\* Posts, stops and starts are whole, and so is one after another.
LEMMA PartsAreWhole ==
  ASSUME NEW f \in Freqs, NEW d \in Duties
  PROVE  /\ InPairs(PwmSet(f, d)) /\ InPairs(PwmStop) /\ InPairs(PwmBegin)
         /\ InPairs(<<>>) /\ InPairs(<<Do("arm")>>) /\ InPairs(<<Do("delay")>>)
<1>1. f \in Nat /\ d \in Nat
  BY HvWidths
<1>2. InPairs(PwmSet(f, d))
  <2>1. /\ Put("period", f) \in Stores /\ Put("on", d) \in Stores
        /\ Do("unready") \in Stores /\ Do("ready") \in Stores
    BY <1>1 DEF Put, Do, Stores
  <2>2. PwmSet(f, d) \in Seq(Stores) /\ Len(PwmSet(f, d)) = 4
    BY <2>1 DEF PwmSet
  <2>3. /\ PwmSet(f, d)[1].do = "unready" /\ PwmSet(f, d)[2].do = "period"
        /\ PwmSet(f, d)[3].do = "on" /\ PwmSet(f, d)[3].val = d /\ PwmSet(f, d)[4].do = "ready"
    BY DEF PwmSet, Put, Do
  <2>4. \A i \in 1 .. 4 : i = 1 \/ i = 2 \/ i = 3 \/ i = 4
    OBVIOUS
  <2> QED BY <2>2, <2>3, <2>4 DEF InPairs
<1>3. InPairs(PwmStop)
  <2>1. Do("off") \in Stores /\ Do("low") \in Stores
    BY DEF Do, Stores
  <2>2. PwmStop \in Seq(Stores) /\ Len(PwmStop) = 2
    BY <2>1 DEF PwmStop
  <2>3. PwmStop[1].do = "off" /\ PwmStop[2].do = "low"
    BY DEF PwmStop, Do
  <2>4. \A i \in 1 .. 2 : i = 1 \/ i = 2
    OBVIOUS
  <2> QED BY <2>2, <2>3, <2>4 DEF InPairs
<1>4. InPairs(PwmBegin)
  <2>1. /\ Do("off") \in Stores /\ Do("low") \in Stores /\ Do("clear") \in Stores
        /\ Do("unready") \in Stores /\ Do("go") \in Stores
    BY DEF Do, Stores
  <2>2. PwmBegin \in Seq(Stores) /\ Len(PwmBegin) = 5
    BY <2>1 DEF PwmBegin
  <2>3. /\ PwmBegin[1].do = "off" /\ PwmBegin[2].do = "low" /\ PwmBegin[3].do = "clear"
        /\ PwmBegin[4].do = "unready" /\ PwmBegin[5].do = "go"
    BY DEF PwmBegin, Do
  <2>4. \A i \in 1 .. 5 : i = 1 \/ i = 2 \/ i = 3 \/ i = 4 \/ i = 5
    OBVIOUS
  <2> QED BY <2>2, <2>3, <2>4 DEF InPairs
<1>5. InPairs(<<>>)
  BY DEF InPairs
<1>6. ASSUME NEW w \in {"arm", "delay"} PROVE InPairs(<<Do(w)>>)
  <2>1. Do(w) \in Stores /\ Do(w).do = w
    BY DEF Do, Stores
  <2>2. <<Do(w)>> \in Seq(Stores) /\ Len(<<Do(w)>>) = 1 /\ <<Do(w)>>[1] = Do(w)
    BY <2>1
  <2>3. \A i \in 1 .. 1 : i = 1
    OBVIOUS
  <2> QED BY <2>1, <2>2, <2>3 DEF InPairs
<1> QED BY <1>2, <1>3, <1>4, <1>5, <1>6

\* What stands where when stores follow stores.
LEMMA Joined ==
  ASSUME NEW s \in Seq(Stores), NEW t \in Seq(Stores)
  PROVE  /\ s \o t \in Seq(Stores) /\ Len(s \o t) = Len(s) + Len(t)
         /\ Len(s) \in Nat /\ Len(t) \in Nat
         /\ \A i \in 1 .. Len(s) : (s \o t)[i] = s[i]
         /\ \A i \in 1 .. Len(t) : (s \o t)[Len(s) + i] = t[i]
         /\ \A i \in 1 .. Len(s) + Len(t) :
              i \in 1 .. Len(s) \/ \E j \in 1 .. Len(t) : i = Len(s) + j
<1>1. Len(s) \in Nat /\ Len(t) \in Nat
  OBVIOUS
<1>2. s \o t \in Seq(Stores) /\ Len(s \o t) = Len(s) + Len(t)
  OBVIOUS
<1>3. \A i \in 1 .. Len(s) : (s \o t)[i] = s[i]
  OBVIOUS
<1>4. \A i \in 1 .. Len(t) : (s \o t)[Len(s) + i] = t[i]
  <2> TAKE i \in 1 .. Len(t)
  <2>1. Len(s) + i \in 1 .. Len(s) + Len(t) /\ ~(Len(s) + i <= Len(s)) /\ Len(s) + i - Len(s) = i
    BY <1>1
  <2> QED BY <2>1
<1>5. ASSUME NEW i \in 1 .. Len(s) + Len(t), i \notin 1 .. Len(s)
      PROVE  \E j \in 1 .. Len(t) : i = Len(s) + j
  <2>1. i - Len(s) \in 1 .. Len(t) /\ i = Len(s) + (i - Len(s))
    BY <1>1, <1>5
  <2> QED BY <2>1
<1> QED BY <1>1, <1>2, <1>3, <1>4, <1>5

LEMMA JoinedInPairs ==
  ASSUME NEW s, NEW t, InPairs(s), InPairs(t)
  PROVE  InPairs(s \o t)
<1> DEFINE m == Len(s)
           n == Len(t)
           u == s \o t
<1>1. s \in Seq(Stores) /\ t \in Seq(Stores)
  BY DEF InPairs
<1>2. /\ u \in Seq(Stores) /\ Len(u) = m + n /\ m \in Nat /\ n \in Nat
      /\ \A i \in 1 .. m : u[i] = s[i]
      /\ \A i \in 1 .. n : u[m + i] = t[i]
      /\ \A i \in 1 .. m + n : i \in 1 .. m \/ \E j \in 1 .. n : i = m + j
  BY <1>1, Joined
<1>3. /\ \A i \in 1 .. m :
           /\ s[i].do = "period" => i > 1 /\ s[i - 1].do = "unready"
           /\ s[i].do = "on" => i > 1 /\ s[i - 1].do = "period" /\ s[i].val \in Duties
           /\ s[i].do = "off" => i < m /\ s[i + 1].do = "low"
      /\ \A i \in 1 .. n :
           /\ t[i].do = "period" => i > 1 /\ t[i - 1].do = "unready"
           /\ t[i].do = "on" => i > 1 /\ t[i - 1].do = "period" /\ t[i].val \in Duties
           /\ t[i].do = "off" => i < n /\ t[i + 1].do = "low"
  BY DEF InPairs
<1> HIDE DEF m, n, u
<1>4. ASSUME NEW i \in 1 .. m + n
      PROVE  /\ u[i].do = "period" => i > 1 /\ u[i - 1].do = "unready"
             /\ u[i].do = "on" => i > 1 /\ u[i - 1].do = "period" /\ u[i].val \in Duties
             /\ u[i].do = "off" => i < m + n /\ u[i + 1].do = "low"
  <2>1. CASE i \in 1 .. m
    <3>1. u[i] = s[i] /\ (i > 1 => u[i - 1] = s[i - 1]) /\ (i < m => u[i + 1] = s[i + 1])
      <4>1. (i > 1 => i - 1 \in 1 .. m) /\ (i < m => i + 1 \in 1 .. m)
        BY <2>1, <1>2
      <4> QED BY <4>1, <2>1, <1>2
    <3>2. i < m => i < m + n
      BY <2>1, <1>2
    <3> QED BY <3>1, <3>2, <2>1, <1>3
  <2>2. ASSUME NEW j \in 1 .. n, i = m + j
        PROVE  /\ u[i].do = "period" => i > 1 /\ u[i - 1].do = "unready"
               /\ u[i].do = "on" => i > 1 /\ u[i - 1].do = "period" /\ u[i].val \in Duties
               /\ u[i].do = "off" => i < m + n /\ u[i + 1].do = "low"
    <3>1. /\ u[i] = t[j]
          /\ j > 1 => i > 1 /\ i - 1 = m + (j - 1) /\ j - 1 \in 1 .. n
          /\ j < n => i < m + n /\ i + 1 = m + (j + 1) /\ j + 1 \in 1 .. n
      <4>1. u[i] = t[j]
        BY <2>2, <1>2
      <4>2. m \in Nat /\ n \in Nat /\ j \in Nat /\ 1 <= j /\ j <= n /\ i = m + j
        BY <2>2, <1>2
      <4>3. ASSUME j > 1 PROVE i > 1 /\ i - 1 = m + (j - 1) /\ j - 1 \in 1 .. n
        <5>1. i > 1 /\ i - 1 = m + (j - 1)
          BY <4>2, <4>3
        <5>2. j - 1 \in Nat /\ 1 <= j - 1 /\ j - 1 <= n
          BY <4>2, <4>3
        <5> QED BY <5>1, <5>2
      <4>4. ASSUME j < n PROVE i < m + n /\ i + 1 = m + (j + 1) /\ j + 1 \in 1 .. n
        <5>1. i < m + n /\ i + 1 = m + (j + 1)
          BY <4>2, <4>4
        <5>2. j + 1 \in Nat /\ 1 <= j + 1 /\ j + 1 <= n
          BY <4>2, <4>4
        <5> QED BY <5>1, <5>2
      <4> QED BY <4>1, <4>3, <4>4
    <3>2. (j > 1 => u[i - 1] = t[j - 1]) /\ (j < n => u[i + 1] = t[j + 1])
      BY <3>1, <1>2
    <3> QED BY <3>1, <3>2, <1>3
  <2> QED BY <2>1, <2>2, <1>2
<1>5. /\ u \in Seq(Stores)
      /\ \A i \in 1 .. Len(u) :
           /\ u[i].do = "period" => i > 1 /\ u[i - 1].do = "unready"
           /\ u[i].do = "on" => i > 1 /\ u[i - 1].do = "period" /\ u[i].val \in Duties
           /\ u[i].do = "off" => i < Len(u) /\ u[i + 1].do = "low"
  BY <1>2, <1>4
<1> QED BY <1>5 DEF InPairs, u

\* Stores that move no duty leave it, before or after those that post the least.
LEMMA JoinedQuiet ==
  ASSUME NEW s \in Seq(Stores), NEW t \in Seq(Stores), Quiet(t, 1)
  PROVE  /\ Quiet(s, 1) => Quiet(s \o t, 1)
         /\ PostsLeast(s) => PostsLeast(s \o t)
<1> DEFINE u == s \o t
<1>1. /\ u \in Seq(Stores) /\ Len(u) = Len(s) + Len(t) /\ Len(s) \in Nat /\ Len(t) \in Nat
      /\ \A i \in 1 .. Len(s) : u[i] = s[i]
      /\ \A i \in 1 .. Len(t) : u[Len(s) + i] = t[i]
      /\ \A i \in 1 .. Len(s) + Len(t) : i \in 1 .. Len(s) \/ \E j \in 1 .. Len(t) : i = Len(s) + j
  BY Joined
<1> HIDE DEF u
<1>2. ASSUME NEW k \in Nat \ {0}, Quiet(s, k) PROVE Quiet(u, k)
  <2>1. ASSUME NEW i \in k .. Len(s) + Len(t) PROVE u[i].do \notin {"unready", "on", "ready"}
    <3>1. i \in 1 .. Len(s) + Len(t)
      BY <1>1
    <3>2. CASE i \in 1 .. Len(s)
      <4>1. i \in k .. Len(s)
        BY <3>2, <1>1
      <4> QED BY <4>1, <3>2, <1>1, <1>2 DEF Quiet
    <3>3. ASSUME NEW j \in 1 .. Len(t), i = Len(s) + j PROVE u[i].do \notin {"unready", "on", "ready"}
      BY <3>3, <1>1 DEF Quiet
    <3> QED BY <3>1, <3>2, <3>3, <1>1
  <2> QED BY <2>1, <1>1 DEF Quiet
<1>3. ASSUME PostsLeast(s) PROVE PostsLeast(u)
  <2>1. PICK r \in 2 .. Len(s) :
          s[r].do = "ready" /\ s[r - 1].do = "on" /\ s[r - 1].val <= 1 /\ Quiet(s, r + 1)
    BY <1>3 DEF PostsLeast
  <2>2. r \in 1 .. Len(s) /\ r - 1 \in 1 .. Len(s) /\ r + 1 \in Nat \ {0} /\ r \in 2 .. Len(u)
    BY <1>1
  <2>3. Quiet(u, r + 1)
    BY <2>1, <2>2, <1>2
  <2> QED BY <2>1, <2>2, <2>3, <1>1 DEF PostsLeast
<1>4. 1 \in Nat \ {0}
  OBVIOUS
<1> QED BY <1>2, <1>3, <1>4 DEF u

LEMMA PostsAfter ==
  ASSUME NEW s \in Seq(Stores), NEW t \in Seq(Stores), PostsLeast(t)
  PROVE  PostsLeast(s \o t)
<1> DEFINE u == s \o t
<1>1. /\ u \in Seq(Stores) /\ Len(u) = Len(s) + Len(t) /\ Len(s) \in Nat /\ Len(t) \in Nat
      /\ \A i \in 1 .. Len(t) : u[Len(s) + i] = t[i]
  BY Joined
<1> HIDE DEF u
<1>2. PICK r \in 2 .. Len(t) :
        t[r].do = "ready" /\ t[r - 1].do = "on" /\ t[r - 1].val <= 1 /\ Quiet(t, r + 1)
  BY DEF PostsLeast
<1> DEFINE q == Len(s) + r
<1>3. /\ q \in 2 .. Len(u) /\ q - 1 = Len(s) + (r - 1) /\ r - 1 \in 1 .. Len(t) /\ r \in 1 .. Len(t)
  <2>1. Len(s) \in Nat /\ Len(t) \in Nat /\ r \in Nat /\ 2 <= r /\ r <= Len(t)
    BY <1>1
  <2>2. r - 1 \in 1 .. Len(t) /\ r \in 1 .. Len(t) /\ q - 1 = Len(s) + (r - 1)
    BY <2>1
  <2>3. q \in 2 .. Len(s) + Len(t)
    BY <2>1
  <2> QED BY <2>2, <2>3, <1>1
<1>4. u[q] = t[r] /\ u[q - 1] = t[r - 1]
  BY <1>1, <1>3
<1>5. ASSUME NEW i \in q + 1 .. Len(u) PROVE u[i].do \notin {"unready", "on", "ready"}
  <2>1. i - Len(s) \in r + 1 .. Len(t) /\ i = Len(s) + (i - Len(s)) /\ i - Len(s) \in 1 .. Len(t)
    BY <1>1
  <2> QED BY <2>1, <1>1, <1>2 DEF Quiet
<1> HIDE DEF q
<1>6. Quiet(u, q + 1)
  BY <1>5 DEF Quiet
<1>7. PostsLeast(u)
  BY <1>2, <1>3, <1>4, <1>6 DEF PostsLeast
<1> QED BY <1>7 DEF u

\* A stop is quiet; a post of the least duty posts it.
LEMMA QuietParts ==
  /\ Quiet(<<>>, 1) /\ Quiet(PwmStop, 1) /\ Quiet(<<Do("delay")>>, 1)
  /\ \A f \in Freqs : PostsLeast(PwmSet(f, 1))
<1>1. Quiet(<<>>, 1)
  BY DEF Quiet
<1>2. Quiet(PwmStop, 1)
  <2>1. Len(PwmStop) = 2 /\ PwmStop[1].do = "off" /\ PwmStop[2].do = "low"
    BY DEF PwmStop, Do
  <2>2. \A i \in 1 .. 2 : i = 1 \/ i = 2
    OBVIOUS
  <2> QED BY <2>1, <2>2 DEF Quiet
<1>3. Quiet(<<Do("delay")>>, 1)
  <2>1. Len(<<Do("delay")>>) = 1 /\ <<Do("delay")>>[1].do = "delay"
    BY DEF Do
  <2>2. \A i \in 1 .. 1 : i = 1
    OBVIOUS
  <2> QED BY <2>1, <2>2 DEF Quiet
<1>4. ASSUME NEW f \in Freqs PROVE PostsLeast(PwmSet(f, 1))
  <2>1. Len(PwmSet(f, 1)) = 4
    BY DEF PwmSet
  <2>2. PwmSet(f, 1)[3].do = "on" /\ PwmSet(f, 1)[3].val = 1 /\ PwmSet(f, 1)[4].do = "ready"
    BY DEF PwmSet, Put, Do
  <2>3. Quiet(PwmSet(f, 1), 5)
    BY <2>1 DEF Quiet
  <2> DEFINE s == PwmSet(f, 1)
             r == 4
  <2>4. /\ r \in 2 .. Len(s)
        /\ s[r].do = "ready" /\ s[r - 1].do = "on" /\ s[r - 1].val <= 1 /\ Quiet(s, r + 1)
    BY <2>1, <2>2, <2>3
  <2> HIDE DEF s, r
  <2>5. PostsLeast(s)
    BY <2>4 DEF PostsLeast
  <2> QED BY <2>5 DEF s
<1> QED BY <1>1, <1>2, <1>3, <1>4

----------------------------------------------------------------------------
\* What is left when the first store is made, and what that one does.
LEMMA Rest ==
  ASSUME NEW s \in Seq(Stores), s # <<>>
  PROVE  /\ Head(s) = s[1] /\ s[1] \in Stores /\ Len(s) \in Nat /\ Len(s) >= 1
         /\ Tail(s) \in Seq(Stores) /\ Len(Tail(s)) = Len(s) - 1
         /\ \A i \in 1 .. Len(s) - 1 : Tail(s)[i] = s[i + 1]
         /\ \A k \in Nat \ {0} : Quiet(s, k + 1) => Quiet(Tail(s), k)
<1>1. Len(s) \in Nat /\ Len(s) >= 1
  OBVIOUS
<1>2. Head(s) = s[1] /\ s[1] \in Stores
  BY <1>1
<1>3. Tail(s) \in Seq(Stores) /\ Len(Tail(s)) = Len(s) - 1
  BY <1>1
<1>4. \A i \in 1 .. Len(s) - 1 : Tail(s)[i] = s[i + 1]
  BY <1>1
<1>5. ASSUME NEW k \in Nat \ {0}, Quiet(s, k + 1) PROVE Quiet(Tail(s), k)
  <2>1. ASSUME NEW i \in k .. Len(s) - 1 PROVE Tail(s)[i].do \notin {"unready", "on", "ready"}
    <3>1. i \in 1 .. Len(s) - 1 /\ i + 1 \in k + 1 .. Len(s)
      BY <1>1
    <3> QED BY <3>1, <1>4, <1>5 DEF Quiet
  <2> QED BY <2>1, <1>3 DEF Quiet
<1> QED BY <1>1, <1>2, <1>3, <1>4, <1>5

LEMMA StoreDoes ==
  ASSUME BoxInv, NEW h \in Stores, Stored(h)
  PROVE  /\ mail' \in [period : Nat, on : Nat, ready : BOOLEAN]
         /\ gen' \in [period : Nat, on : Nat, high : BOOLEAN]
         /\ pwmOn' \in BOOLEAN /\ alive' \in BOOLEAN
         /\ h.do = "unready" => ~mail'.ready
         /\ h.do = "ready" => mail'.ready /\ posted' = <<mail.period, mail.on>>
         /\ h.do # "ready" => posted' = posted /\ (mail'.ready => mail.ready)
         /\ h.do \notin {"unready", "ready"} => (mail.ready => mail'.ready)
         /\ h.do # "period" => mail'.period = mail.period
         /\ mail'.on = IF h.do = "on" THEN h.val ELSE mail.on
         /\ gen'.on = IF h.do = "clear" THEN 0 ELSE gen.on
         /\ pin' = IF h.do = "low" THEN FALSE ELSE pin
         /\ h.do # "off" => (~pwmOn' => ~pwmOn) /\ (h.do = "go" => pwmOn')
<1>1. /\ mail \in [period : Nat, on : Nat, ready : BOOLEAN]
      /\ gen \in [period : Nat, on : Nat, high : BOOLEAN]
      /\ pwmOn \in BOOLEAN /\ alive \in BOOLEAN
  BY DEF BoxInv
<1>2. h.do \in {"unready", "period", "on", "ready", "off", "low", "clear", "go", "arm", "delay"}
      /\ h.val \in Nat
  BY DEF Stores
<1>3. mail' = CASE h.do = "unready" -> [mail EXCEPT !.ready = FALSE]
                [] h.do = "ready" -> [mail EXCEPT !.ready = TRUE]
                [] h.do = "period" -> [mail EXCEPT !.period = h.val]
                [] h.do = "on" -> [mail EXCEPT !.on = h.val]
                [] OTHER -> mail
  BY DEF Stored
<1>4. /\ mail' \in [period : Nat, on : Nat, ready : BOOLEAN]
      /\ h.do = "unready" => ~mail'.ready
      /\ h.do = "ready" => mail'.ready
      /\ h.do # "ready" => (mail'.ready => mail.ready)
      /\ h.do \notin {"unready", "ready"} => (mail.ready => mail'.ready)
      /\ h.do # "period" => mail'.period = mail.period
      /\ mail'.on = IF h.do = "on" THEN h.val ELSE mail.on
  <2>1. CASE h.do = "unready"
    <3>1. mail' = [period |-> mail.period, on |-> mail.on, ready |-> FALSE]
      BY <2>1, <1>1, <1>3
    <3> QED BY <3>1, <2>1, <1>1
  <2>2. CASE h.do = "ready"
    <3>1. mail' = [period |-> mail.period, on |-> mail.on, ready |-> TRUE]
      BY <2>2, <1>1, <1>3
    <3> QED BY <3>1, <2>2, <1>1
  <2>3. CASE h.do = "period"
    <3>1. mail' = [period |-> h.val, on |-> mail.on, ready |-> mail.ready]
      BY <2>3, <1>1, <1>3
    <3> QED BY <3>1, <2>3, <1>1, <1>2
  <2>4. CASE h.do = "on"
    <3>1. mail' = [period |-> mail.period, on |-> h.val, ready |-> mail.ready]
      BY <2>4, <1>1, <1>3
    <3> QED BY <3>1, <2>4, <1>1, <1>2
  <2>5. CASE h.do \notin {"unready", "ready", "period", "on"}
    <3>1. mail' = mail
      BY <2>5, <1>3
    <3> QED BY <3>1, <2>5, <1>1
  <2> QED BY <2>1, <2>2, <2>3, <2>4, <2>5
<1>5. /\ gen' \in [period : Nat, on : Nat, high : BOOLEAN]
      /\ gen'.on = IF h.do = "clear" THEN 0 ELSE gen.on
  <2>1. gen' = IF h.do = "clear" THEN Off ELSE gen
    BY DEF Stored
  <2>2. Off \in [period : Nat, on : Nat, high : BOOLEAN] /\ Off.on = 0
    BY DEF Off
  <2> QED BY <2>1, <2>2, <1>1
<1>6. /\ pwmOn' \in BOOLEAN /\ alive' \in BOOLEAN
      /\ h.do # "off" => (~pwmOn' => ~pwmOn) /\ (h.do = "go" => pwmOn')
  <2>1. pwmOn' = CASE h.do = "off" -> FALSE [] h.do = "go" -> TRUE [] OTHER -> pwmOn
    BY DEF Stored
  <2>2. CASE h.do = "off"
    BY <2>1, <2>2, <1>1 DEF Stored
  <2>3. CASE h.do = "go"
    BY <2>1, <2>3, <1>1 DEF Stored
  <2>4. CASE h.do \notin {"off", "go"}
    BY <2>1, <2>4, <1>1 DEF Stored
  <2> QED BY <2>2, <2>3, <2>4
<1>7. /\ h.do = "ready" => posted' = <<mail.period, mail.on>>
      /\ h.do # "ready" => posted' = posted
      /\ pin' = IF h.do = "low" THEN FALSE ELSE pin
  BY DEF Stored
<1> QED BY <1>4, <1>5, <1>6, <1>7

\* A store of the main loop, wherever the NMI fell before it.
LEMMA StoreHolds ==
  ASSUME HvInv, Store
  PROVE  HvInv'
<1> DEFINE h == todo[1]
           n == Len(todo)
<1>1. /\ todo # <<>> /\ todo' = Tail(todo) /\ UNCHANGED <<hvVars, beats, used>>
      /\ todo \in Seq(Stores)
  BY DEF Store, HvInv, StoresInv
<1>2. /\ Head(todo) = h /\ h \in Stores /\ n \in Nat /\ n >= 1
      /\ todo' \in Seq(Stores) /\ Len(todo') = n - 1
      /\ \A i \in 1 .. n - 1 : todo'[i] = todo[i + 1]
      /\ \A k \in Nat \ {0} : Quiet(todo, k + 1) => Quiet(todo', k)
  BY <1>1, Rest
<1>3. /\ mail' \in [period : Nat, on : Nat, ready : BOOLEAN]
      /\ gen' \in [period : Nat, on : Nat, high : BOOLEAN]
      /\ pwmOn' \in BOOLEAN /\ alive' \in BOOLEAN
      /\ h.do = "unready" => ~mail'.ready
      /\ h.do = "ready" => mail'.ready /\ posted' = <<mail.period, mail.on>>
      /\ h.do # "ready" => posted' = posted /\ (mail'.ready => mail.ready)
      /\ h.do \notin {"unready", "ready"} => (mail.ready => mail'.ready)
      /\ h.do # "period" => mail'.period = mail.period
      /\ mail'.on = IF h.do = "on" THEN h.val ELSE mail.on
      /\ gen'.on = IF h.do = "clear" THEN 0 ELSE gen.on
      /\ pin' = IF h.do = "low" THEN FALSE ELSE pin
      /\ h.do # "off" => (~pwmOn' => ~pwmOn) /\ (h.do = "go" => pwmOn')
  <2>1. Stored(h)
    BY <1>2 DEF Store
  <2>2. BoxInv
    BY DEF HvInv
  <2> HIDE DEF h
  <2> QED BY <2>1, <2>2, <1>2, StoreDoes
<1>4. \A i \in 1 .. n :
        /\ todo[i].do = "period" => IF i = 1 THEN ~mail.ready ELSE todo[i - 1].do = "unready"
        /\ todo[i].do = "on" =>
             todo[i].val \in Duties /\ IF i = 1 THEN ~mail.ready ELSE todo[i - 1].do = "period"
        /\ todo[i].do = "off" => i < n /\ todo[i + 1].do = "low"
  BY DEF HvInv, StoresInv
<1>5. 1 \in 1 .. n
  BY <1>2
<1>6. h.do \in {"period", "on"} => ~mail.ready
  BY <1>4, <1>5
<1> HIDE DEF h, n
<1>7. BoxInv'
  BY <1>1, <1>3 DEF HvInv, BoxInv
<1>8. HvTypeOK'
  <2>1. mail'.on \in Duties \union {0}
    <3>1. h.do = "on" => h.val \in Duties
      BY <1>4, <1>5 DEF h
    <3> QED BY <3>1, <1>3 DEF HvInv, HvTypeOK
  <2>2. gen'.on \in Duties \union {0} /\ pin' \in BOOLEAN
    BY <1>3 DEF HvInv, HvTypeOK
  <2> QED BY <2>1, <2>2, <1>1 DEF HvInv, HvTypeOK, hvVars
<1>9. StoresInv'
  <2>1. ASSUME NEW i \in 1 .. n - 1
        PROVE  /\ todo'[i].do = "period" => IF i = 1 THEN ~mail'.ready ELSE todo'[i - 1].do = "unready"
               /\ todo'[i].do = "on" =>
                    todo'[i].val \in Duties /\ IF i = 1 THEN ~mail'.ready ELSE todo'[i - 1].do = "period"
               /\ todo'[i].do = "off" => i < n - 1 /\ todo'[i + 1].do = "low"
    <3>1. i + 1 \in 1 .. n /\ i + 1 # 1 /\ i + 1 - 1 = i /\ todo'[i] = todo[i + 1]
      BY <1>2
    <3>2. /\ todo[i + 1].do = "period" => todo[i].do = "unready"
          /\ todo[i + 1].do = "on" => todo[i + 1].val \in Duties /\ todo[i].do = "period"
          /\ todo[i + 1].do = "off" => i + 1 < n /\ todo[i + 1 + 1].do = "low"
      BY <3>1, <1>4
    <3>3. i = 1 => todo[i] = h
      BY DEF h
    <3>4. i # 1 => todo'[i - 1] = todo[i]
      <4>1. i # 1 => i - 1 \in 1 .. n - 1 /\ i - 1 + 1 = i
        BY <1>2
      <4> QED BY <4>1, <1>2
    <3>5. i + 1 < n => i < n - 1 /\ todo'[i + 1] = todo[i + 1 + 1]
      <4>1. i + 1 < n => i + 1 \in 1 .. n - 1 /\ i < n - 1
        BY <1>2
      <4> QED BY <4>1, <1>2
    <3>6. h.do \in {"unready", "period"} => ~mail'.ready
      BY <1>3, <1>6
    <3> QED BY <3>1, <3>2, <3>3, <3>4, <3>5, <3>6
  <2>2. PairsAreWhole'
    <3>1. CASE h.do = "ready"
      BY <3>1, <1>3 DEF PairsAreWhole
    <3>2. CASE h.do # "ready"
      BY <3>2, <1>3, <1>6 DEF HvInv, StoresInv, PairsAreWhole
    <3> QED BY <3>1, <3>2
  <2>3. ~pwmOn' /\ pin' => todo' # <<>> /\ todo'[1].do = "low"
    <3>1. CASE h.do = "off"
      <4>1. 1 < n /\ todo[2].do = "low"
        BY <3>1, <1>4, <1>5 DEF h
      <4>2. 1 \in 1 .. n - 1 /\ todo'[1] = todo[2]
        BY <4>1, <1>2
      <4> QED BY <4>1, <4>2, <1>2
    <3>2. CASE h.do # "off"
      BY <3>2, <1>3 DEF HvInv, StoresInv, h
    <3> QED BY <3>1, <3>2
  <2>4. PairsAreWhole' /\ todo' \in Seq(Stores)
        /\ \A i \in 1 .. Len(todo') :
             /\ todo'[i].do = "period" => IF i = 1 THEN ~mail'.ready ELSE todo'[i - 1].do = "unready"
             /\ todo'[i].do = "on" =>
                  todo'[i].val \in Duties /\ IF i = 1 THEN ~mail'.ready ELSE todo'[i - 1].do = "period"
             /\ todo'[i].do = "off" => i < Len(todo') /\ todo'[i + 1].do = "low"
    BY <2>1, <2>2, <1>2
  <2> QED BY <2>3, <2>4 DEF StoresInv
<1>10. LeastToCome => LeastToCome'
  <2>1. \A k \in Nat \ {0} : Quiet(todo, k + 1) => Quiet(todo', k)
    BY <1>2
  <2>2. mail.on \in Nat /\ gen.on \in Nat
    BY DEF HvInv, BoxInv
  <2>3. CASE Quiet(todo, 1) /\ (IF mail.ready THEN mail.on ELSE gen.on) <= 1
    <3>1. h.do \notin {"unready", "on", "ready"}
      BY <2>3, <1>5 DEF Quiet, h, n
    <3>2. Quiet(todo, 1 + 1)
      BY <2>3, <1>2 DEF Quiet
    <3>3. Quiet(todo', 1)
      BY <3>2, <2>1
    <3>4. (IF mail'.ready THEN mail'.on ELSE gen'.on) <= 1
      BY <3>1, <2>2, <2>3, <1>3
    <3> QED BY <3>3, <3>4 DEF LeastToCome
  <2>4. CASE PostsLeast(todo)
    <3>1. PICK r \in 2 .. n :
            todo[r].do = "ready" /\ todo[r - 1].do = "on" /\ todo[r - 1].val <= 1 /\ Quiet(todo, r + 1)
      BY <2>4 DEF PostsLeast, n
    <3>2. r - 1 \in 1 .. n - 1 /\ r - 1 + 1 = r /\ r \in Nat \ {0} /\ todo'[r - 1] = todo[r]
      BY <1>2
    <3>3. Quiet(todo', r)
      BY <3>1, <3>2, <2>1
    <3>4. CASE r = 2
      <4>1. h.do = "on" /\ h.val <= 1 /\ todo'[1].do = "ready" /\ todo' # <<>> /\ Quiet(todo', 2)
        BY <3>1, <3>2, <3>3, <3>4, <1>2 DEF h
      <4> QED BY <4>1, <1>3 DEF LeastToCome
    <3>5. CASE r # 2
      <4>1. r - 2 \in 1 .. n - 1 /\ r - 2 + 1 = r - 1 /\ r - 1 - 1 = r - 2 /\ r - 1 \in 2 .. Len(todo')
        BY <3>5, <1>2
      <4>2. todo'[r - 1 - 1] = todo[r - 1]
        BY <4>1, <1>2
      <4>3. Quiet(todo', r - 1 + 1)
        BY <3>2, <3>3
      <4>4. PostsLeast(todo')
        BY <3>1, <3>2, <4>1, <4>2, <4>3 DEF PostsLeast
      <4> QED BY <4>4 DEF LeastToCome
    <3> QED BY <3>4, <3>5
  <2>5. CASE todo[1].do = "ready" /\ Quiet(todo, 2) /\ mail.on <= 1
    <3>1. Quiet(todo, 1 + 1)
      BY <2>5
    <3>2. Quiet(todo', 1)
      BY <3>1, <2>1
    <3>3. mail'.ready /\ mail'.on <= 1
      BY <2>5, <1>3 DEF h
    <3> QED BY <3>2, <3>3 DEF LeastToCome
  <2> QED BY <2>3, <2>4, <2>5 DEF LeastToCome
<1>11. DutyInv'
  BY <1>1, <1>10 DEF HvInv, DutyInv, hvVars
<1> QED BY <1>7, <1>8, <1>9, <1>11 DEF HvInv

----------------------------------------------------------------------------
\* The NMI takes what is ready, whole, and leaves the duty that is to come.
LEMMA NmiHolds ==
  ASSUME HvInv, Nmi
  PROVE  HvInv'
<1>1. /\ UNCHANGED <<hvVars, pwmOn, alive, todo, posted, used>>
      /\ beats' = IF beats < 2 THEN beats + 1 ELSE beats
      /\ IF pwmOn THEN Fall \/ Period ELSE UNCHANGED <<gen, pin, mail>>
  BY DEF Nmi
<1>2. /\ mail \in [period : Nat, on : Nat, ready : BOOLEAN]
      /\ gen \in [period : Nat, on : Nat, high : BOOLEAN] /\ beats \in 0 .. 2
      /\ mail.on \in Duties \union {0} /\ gen.on \in Duties \union {0} /\ pin \in BOOLEAN
  BY DEF HvInv, BoxInv, HvTypeOK
<1>3. /\ mail' \in [period : Nat, on : Nat, ready : BOOLEAN]
      /\ gen' \in [period : Nat, on : Nat, high : BOOLEAN]
      /\ mail'.on = mail.on /\ (mail'.ready => mail' = mail)
      /\ (IF mail'.ready THEN mail'.on ELSE gen'.on) = (IF mail.ready THEN mail.on ELSE gen.on)
      /\ gen'.on \in {mail.on, gen.on} /\ pin' \in BOOLEAN
      /\ ~pwmOn => pin' = pin
  <2>1. CASE ~pwmOn
    BY <2>1, <1>1, <1>2
  <2>2. CASE pwmOn /\ Fall
    <3>1. gen' = [period |-> gen.period, on |-> gen.on, high |-> FALSE] /\ pin' = FALSE /\ mail' = mail
      BY <2>2, <1>2 DEF Fall
    <3> QED BY <3>1, <2>2, <1>2
  <2>3. CASE pwmOn /\ Period
    <3> DEFINE g == IF mail.ready THEN [gen EXCEPT !.period = mail.period, !.on = mail.on] ELSE gen
    <3>1. g \in [period : Nat, on : Nat, high : BOOLEAN]
          /\ g.on = IF mail.ready THEN mail.on ELSE gen.on
      BY <1>2
    <3>2. PICK rise \in BOOLEAN : gen' = [g EXCEPT !.high = rise] /\ pin' = rise
      BY <2>3 DEF Period
    <3>3. mail' = [period |-> mail.period, on |-> mail.on, ready |-> FALSE]
      BY <2>3, <1>2 DEF Period
    <3> HIDE DEF g
    <3>4. gen' = [period |-> g.period, on |-> g.on, high |-> rise]
      BY <3>1, <3>2
    <3>5. gen' \in [period : Nat, on : Nat, high : BOOLEAN] /\ gen'.on = g.on /\ pin' \in BOOLEAN
      BY <3>1, <3>2, <3>4
    <3> QED BY <3>1, <3>3, <3>5, <2>3, <1>2
  <2> QED BY <2>1, <2>2, <2>3, <1>1
<1>4. BoxInv'
  BY <1>1, <1>2, <1>3 DEF HvInv, BoxInv
<1>5. HvTypeOK'
  BY <1>1, <1>2, <1>3 DEF HvInv, HvTypeOK, hvVars
<1>6. StoresInv'
  <2>1. mail'.ready => mail.ready
    BY <1>3
  <2>2. PairsAreWhole'
    BY <1>1, <1>3 DEF HvInv, StoresInv, PairsAreWhole
  <2>3. ~pwmOn' /\ pin' => todo' # <<>> /\ todo'[1].do = "low"
    BY <1>1, <1>3 DEF HvInv, StoresInv
  <2> QED BY <2>1, <2>2, <2>3, <1>1 DEF HvInv, StoresInv
<1>7. LeastToCome => LeastToCome'
  BY <1>1, <1>3 DEF LeastToCome
<1>8. DutyInv'
  BY <1>1, <1>7 DEF HvInv, DutyInv, hvVars
<1> QED BY <1>4, <1>5, <1>6, <1>8 DEF HvInv

LEMMA StallHolds ==
  ASSUME HvInv, Stall
  PROVE  HvInv'
<1>1. alive' = FALSE /\ UNCHANGED <<hvVars, pwmOn, mail, gen, pin, beats, todo, posted>>
  BY DEF Stall
<1>2. BoxInv'
  <2>1. alive' \in BOOLEAN
    BY <1>1
  <2> QED BY <2>1, <1>1 DEF HvInv, BoxInv
<1>3. HvTypeOK'
  BY <1>1 DEF HvInv, HvTypeOK, hvVars
<1>4. StoresInv' /\ DutyInv'
  BY <1>1 DEF HvInv, StoresInv, DutyInv, PairsAreWhole, LeastToCome, hvVars
<1> QED BY <1>2, <1>3, <1>4 DEF HvInv

----------------------------------------------------------------------------
\* A handler runs when the stores of the last are made, and leaves whole ones.
LEMMA QueuedInPairs ==
  ASSUME HvInv, todo = <<>>, InPairs(todo'), UNCHANGED <<pwmVars, posted>>
  PROVE  StoresInv'
<1>1. ~(~pwmOn /\ pin)
  BY DEF HvInv, StoresInv
<1>2. ~(~pwmOn' /\ pin')
  BY <1>1 DEF pwmVars
<1>3. PairsAreWhole'
  BY DEF HvInv, StoresInv, PairsAreWhole, pwmVars
<1>4. /\ todo' \in Seq(Stores)
      /\ \A i \in 1 .. Len(todo') :
           /\ todo'[i].do = "period" => i > 1 /\ todo'[i - 1].do = "unready"
           /\ todo'[i].do = "on" => i > 1 /\ todo'[i - 1].do = "period" /\ todo'[i].val \in Duties
           /\ todo'[i].do = "off" => i < Len(todo') /\ todo'[i + 1].do = "low"
  BY DEF InPairs
<1>5. \A i \in 1 .. Len(todo') :
        /\ todo'[i].do = "period" => IF i = 1 THEN ~mail'.ready ELSE todo'[i - 1].do = "unready"
        /\ todo'[i].do = "on" =>
             todo'[i].val \in Duties /\ IF i = 1 THEN ~mail'.ready ELSE todo'[i - 1].do = "period"
        /\ todo'[i].do = "off" => i < Len(todo') /\ todo'[i + 1].do = "low"
  BY <1>4
<1> QED BY <1>2, <1>3, <1>4, <1>5 DEF StoresInv

\* When none is to come, the least duty is there; and quiet ones leave it.
LEMMA NoneToCome ==
  ASSUME todo = <<>>, LeastToCome
  PROVE  (IF mail.ready THEN mail.on ELSE gen.on) <= 1
<1>1. Len(todo) = 0
  OBVIOUS
<1>2. ~PostsLeast(todo)
  BY <1>1 DEF PostsLeast
<1> QED BY <1>2 DEF LeastToCome

LEMMA QueuedQuiet ==
  ASSUME todo = <<>>, LeastToCome, Quiet(todo', 1), UNCHANGED pwmVars
  PROVE  LeastToCome'
<1>1. (IF mail.ready THEN mail.on ELSE gen.on) <= 1
  BY NoneToCome
<1>2. (IF mail'.ready THEN mail'.on ELSE gen'.on) <= 1
  BY <1>1 DEF pwmVars
<1> QED BY <1>2 DEF LeastToCome

\* What write_duty() posts: nothing when the duty is the last one posted.
LEMMA Writes ==
  ASSUME NEW f \in Freqs, NEW from, NEW eff \in Duties
  PROVE  /\ InPairs(Write(f, from, eff))
         /\ from = eff => Write(f, from, eff) = <<>>
         /\ from # eff /\ eff = 1 => PostsLeast(Write(f, from, eff))
<1>1. CASE from = eff
  <2>1. Write(f, from, eff) = <<>>
    BY <1>1 DEF Write
  <2> QED BY <2>1, <1>1, PartsAreWhole
<1>2. CASE from # eff
  <2>1. Write(f, from, eff) = PwmSet(f, eff)
    BY <1>2 DEF Write
  <2> QED BY <2>1, <1>2, PartsAreWhole, QuietParts
<1> QED BY <1>1, <1>2

\* The duty asked for is one, and the least when cut off or held.
LEMMA EffIsDuty ==
  ASSUME NEW isTripped \in BOOLEAN, NEW isHeld \in BOOLEAN, NEW d \in Int, NEW t \in Int
  PROVE  /\ Eff(isTripped, isHeld, d, t) \in Duties
         /\ isTripped \/ isHeld => Eff(isTripped, isHeld, d, t) = 1
<1>1. Clamped(d + t) \in Duties
  BY HvWidths DEF Clamped, Duties
<1>2. 1 \in Duties
  BY HvWidths
<1> QED BY <1>1, <1>2 DEF Eff

LEMMA HvNumbers ==
  ASSUME HvTypeOK
  PROVE  /\ freq \in Freqs /\ duty \in Duties /\ duty \in Int /\ trim \in Int
         /\ tripped \in BOOLEAN /\ held \in BOOLEAN
         /\ overs \in Nat /\ overs <= TripAfter /\ restarts \in Nat /\ restarts <= Restarts
         /\ pass \in Nat /\ cur \in Int
BY HvWidths DEF HvTypeOK

----------------------------------------------------------------------------
\* A pass: a mended stall, the duty, and the least of it when it cuts off.
LEMMA LoopHolds ==
  ASSUME HvInv, NEW high \in BOOLEAN, NEW err \in {-1, 0, 1}, Loop(high, err)
  PROVE  HvInv'
<1> DEFINE stalled == pwmOn /\ beats = 0
           mend    == stalled /\ restarts < Restarts
           eff     == Eff(tripped, held, duty, trim)
           slow    == pass + 1 = SlowEvery
           over    == IF slow /\ ~tripped THEN Over(high) ELSE overs
           trips   == slow /\ ~tripped /\ over >= TripAfter
           written == IF slow \/ mend THEN eff ELSE cur
           from    == IF mend THEN -1 ELSE cur
           stop    == IF stalled THEN PwmStop ELSE <<>>
           start   == IF mend THEN <<Do("arm")>> \o PwmBegin ELSE <<>>
           post    == IF slow \/ mend THEN Write(freq, from, eff) ELSE <<>>
           cut     == IF trips THEN Write(freq, written, 1) ELSE <<>>
<1>1. /\ mode = "run" /\ todo = <<>> /\ beats' = 0
      /\ restarts' = (IF mend THEN restarts + 1 ELSE restarts)
      /\ pass' = (pass + 1) % SlowEvery
      /\ overs' = over /\ tripped' = (tripped \/ trips)
      /\ trim' = (IF slow /\ ~tripped' THEN Trimmed(err) ELSE trim)
      /\ cur' = (IF trips THEN 1 ELSE written)
      /\ todo' = stop \o start \o post \o cut
      /\ UNCHANGED <<freq, duty, held, mode, pwmVars, posted, used>>
  BY DEF Loop
<1>2. /\ freq \in Freqs /\ duty \in Duties /\ duty \in Int /\ trim \in Int
      /\ tripped \in BOOLEAN /\ held \in BOOLEAN
      /\ overs \in Nat /\ overs <= TripAfter /\ restarts \in Nat /\ restarts <= Restarts
      /\ pass \in Nat /\ cur \in Int
  BY HvNumbers DEF HvInv
<1>3. eff \in Duties /\ (tripped => eff = 1) /\ 1 \in Duties
  BY <1>2, EffIsDuty, HvWidths
<1>4. ~held /\ (tripped => cur = 1)
  BY <1>1 DEF HvInv, DutyInv
<1>5. InPairs(stop) /\ InPairs(start) /\ InPairs(post) /\ InPairs(cut)
  <2>1. InPairs(stop)
    BY <1>2, PartsAreWhole
  <2>2. InPairs(start)
    BY <1>2, PartsAreWhole, JoinedInPairs
  <2>3. InPairs(post)
    BY <1>2, <1>3, Writes, PartsAreWhole
  <2>4. InPairs(cut)
    BY <1>2, <1>3, Writes, PartsAreWhole
  <2> QED BY <2>1, <2>2, <2>3, <2>4
<1>6. post = <<>> \/ ~(slow \/ mend) \/ eff # from
  BY <1>2, <1>3, Writes
<1>7. /\ (slow \/ mend) /\ eff = 1 /\ from # 1 => PostsLeast(post)
      /\ (slow \/ mend) /\ eff = 1 /\ from = 1 => post = <<>>
      /\ ~(slow \/ mend) => post = <<>>
      /\ trips /\ written # 1 => PostsLeast(cut)
      /\ trips /\ written = 1 => cut = <<>>
      /\ ~trips => cut = <<>>
      /\ ~mend => start = <<>>
      /\ mend => from # 1
      /\ ~mend => from = cur
      /\ Quiet(stop, 1)
  <2>1. /\ (slow \/ mend) /\ eff = 1 /\ from # 1 => PostsLeast(post)
        /\ (slow \/ mend) /\ eff = 1 /\ from = 1 => post = <<>>
    BY <1>2, <1>3, Writes
  <2>2. /\ trips /\ written # 1 => PostsLeast(cut)
        /\ trips /\ written = 1 => cut = <<>>
    BY <1>2, <1>3, Writes
  <2>3. Quiet(stop, 1)
    BY QuietParts
  <2> QED BY <2>1, <2>2, <2>3
<1>8. over \in 0 .. TripAfter
  BY <1>2, HvWidths DEF Over
<1>9. HvTypeOK'
  <2>1. tripped' \in BOOLEAN
    BY <1>1
  <2>2. trim' \in -TrimMax .. TrimMax
    BY <1>1, HvWidths DEF HvInv, HvTypeOK, Trimmed
  <2>3. cur' \in Duties \union {-1}
    BY <1>1, <1>3 DEF HvInv, HvTypeOK
  <2>4. pass' \in 0 .. SlowEvery - 1
    BY <1>1, <1>2, HvWidths
  <2>5. restarts' \in 0 .. Restarts
    <3>1. CASE mend
      BY <3>1, <1>1, <1>2, HvWidths
    <3>2. CASE ~mend
      BY <3>2, <1>1, <1>2, HvWidths
    <3> QED BY <3>1, <3>2
  <2>6. overs' \in 0 .. TripAfter
    BY <1>1, <1>8
  <2> QED BY <2>1, <2>2, <2>3, <2>4, <2>5, <2>6, <1>1 DEF HvInv, HvTypeOK, pwmVars
<1>10. BoxInv'
  BY <1>1 DEF HvInv, BoxInv, pwmVars
<1>11. tripped' => cur' = 1
  <2>1. CASE trips
    BY <2>1, <1>1
  <2>2. CASE ~trips
    BY <2>2, <1>1, <1>3, <1>4
  <2> QED BY <2>1, <2>2
<1>12. written = 1 /\ ~(slow \/ mend) => cur = 1
  OBVIOUS
<1>13. written = 1 /\ (slow \/ mend) => eff = 1
  OBVIOUS
<1>14. cur' = 1 => written = 1 \/ (trips /\ written # 1)
  BY <1>1
<1> HIDE DEF stalled, mend, eff, slow, over, trips, written, from, stop, start, post, cut
<1>15. /\ InPairs(stop \o start) /\ InPairs(stop \o start \o post)
       /\ InPairs(stop \o start \o post \o cut)
  BY <1>5, JoinedInPairs
<1>16. StoresInv'
  BY <1>1, <1>15, QueuedInPairs
<1>17. cur' = 1 => LeastToCome'
  <2>1. ASSUME cur' = 1 PROVE LeastToCome'
    <3>1. /\ stop \in Seq(Stores) /\ start \in Seq(Stores) /\ post \in Seq(Stores) /\ cut \in Seq(Stores)
          /\ stop \o start \in Seq(Stores) /\ stop \o start \o post \in Seq(Stores)
      BY <1>5, <1>15 DEF InPairs
    <3>2. PostsLeast(stop \o start \o post \o cut) => LeastToCome'
      BY <1>1 DEF LeastToCome
    <3>3. CASE trips /\ written # 1
      BY <3>1, <3>2, <3>3, <1>7, PostsAfter
    <3>4. CASE written = 1
      <4>1. cut = <<>> /\ Quiet(cut, 1)
        BY <3>4, <1>7, QuietParts
      <4>2. CASE (slow \/ mend) /\ from # 1
        <5>1. PostsLeast(post)
          BY <3>4, <4>2, <1>7, <1>13
        <5>2. PostsLeast(stop \o start \o post)
          BY <3>1, <5>1, PostsAfter
        <5>3. PostsLeast(stop \o start \o post \o cut)
          BY <3>1, <4>1, <5>2, JoinedQuiet
        <5> QED BY <3>2, <5>3
      <4>3. CASE ~((slow \/ mend) /\ from # 1)
        <5>1. post = <<>> /\ start = <<>> /\ cur = 1
          BY <3>4, <4>3, <1>7, <1>12, <1>13
        <5>2. Quiet(stop, 1) /\ Quiet(start, 1) /\ Quiet(post, 1)
          BY <5>1, <1>7, QuietParts
        <5>3. Quiet(stop \o start, 1)
          BY <5>2, <3>1, JoinedQuiet
        <5>4. Quiet(stop \o start \o post, 1)
          BY <5>2, <5>3, <3>1, JoinedQuiet
        <5>5. Quiet(stop \o start \o post \o cut, 1)
          BY <4>1, <5>4, <3>1, JoinedQuiet
        <5>6. LeastToCome
          BY <5>1 DEF HvInv, DutyInv
        <5>7. Quiet(todo', 1) /\ UNCHANGED pwmVars
          BY <5>5, <1>1
        <5> QED BY <5>6, <5>7, <1>1, QueuedQuiet
      <4> QED BY <4>2, <4>3
    <3> QED BY <2>1, <3>3, <3>4, <1>14
  <2> QED BY <2>1
<1>18. DutyInv'
  BY <1>1, <1>4, <1>11, <1>17 DEF DutyInv
<1> QED BY <1>9, <1>10, <1>16, <1>18 DEF HvInv

----------------------------------------------------------------------------
\* Settings, while the update holds the duty down too: none is posted but the least.
LEMMA SaveHolds ==
  ASSUME HvInv, NEW f \in Freqs, NEW d \in Duties, Save(f, d)
  PROVE  HvInv'
<1>1. /\ todo = <<>> /\ freq' = f /\ duty' = d /\ trim' = 0 /\ cur' = -1
      /\ tripped' = FALSE /\ overs' = 0
      /\ UNCHANGED <<held, mode, pass, restarts, pwmVars, beats, todo, posted>>
  BY DEF Save, Saved
<1>2. HvTypeOK'
  <2>1. tripped' \in BOOLEAN
    BY <1>1
  <2>2. trim' \in -TrimMax .. TrimMax /\ overs' \in 0 .. TripAfter /\ cur' \in Duties \union {-1}
    BY <1>1, HvWidths
  <2> QED BY <2>1, <2>2, <1>1 DEF HvInv, HvTypeOK, pwmVars
<1>3. BoxInv' /\ StoresInv'
  BY <1>1 DEF HvInv, BoxInv, StoresInv, PairsAreWhole, pwmVars
<1>4. DutyInv'
  <2>1. cur' # 1 /\ (held' => LeastToCome)
    BY <1>1 DEF HvInv, DutyInv
  <2> QED BY <2>1, <1>1 DEF HvInv, DutyInv, LeastToCome, pwmVars
<1> QED BY <1>2, <1>3, <1>4 DEF HvInv

LEMMA HvSetHolds ==
  ASSUME HvInv, NEW f \in Freqs, NEW d \in Duties, HvSet(f, d)
  PROVE  HvInv'
<1> DEFINE post == PwmSet(freq, 1)
           wait == <<Do("delay")>>
<1>1. /\ todo = <<>> /\ freq' = f /\ duty' = d /\ trim' = 0 /\ cur' = -1
      /\ tripped' = FALSE /\ overs' = 0 /\ todo' = post \o wait
      /\ UNCHANGED <<held, mode, pass, restarts, pwmVars, beats, posted>>
  BY DEF HvSet, Saved
<1>2. HvTypeOK'
  <2>1. tripped' \in BOOLEAN
    BY <1>1
  <2>2. trim' \in -TrimMax .. TrimMax /\ overs' \in 0 .. TripAfter /\ cur' \in Duties \union {-1}
    BY <1>1, HvWidths
  <2> QED BY <2>1, <2>2, <1>1 DEF HvInv, HvTypeOK, pwmVars
<1>3. BoxInv'
  BY <1>1 DEF HvInv, BoxInv, pwmVars
<1>4. freq \in Freqs /\ 1 \in Duties
  BY HvNumbers, HvWidths DEF HvInv
<1>5. /\ InPairs(post) /\ InPairs(wait) /\ PostsLeast(post) /\ Quiet(wait, 1)
      /\ post \in Seq(Stores) /\ wait \in Seq(Stores)
  BY <1>4, PartsAreWhole, QuietParts DEF InPairs
<1> HIDE DEF post, wait
<1>6. InPairs(post \o wait) /\ PostsLeast(post \o wait)
  BY <1>5, JoinedInPairs, JoinedQuiet
<1>7. StoresInv'
  BY <1>1, <1>6, QueuedInPairs
<1>8. LeastToCome'
  BY <1>1, <1>6 DEF LeastToCome
<1>9. DutyInv'
  BY <1>1, <1>8 DEF HvInv, DutyInv
<1> QED BY <1>2, <1>3, <1>7, <1>9 DEF HvInv

\* An update or a restart: the least duty, and the stop after it.
LEMMA HoldHolds ==
  ASSUME HvInv, NEW restarting \in BOOLEAN, Hold(restarting)
  PROVE  HvInv'
<1> DEFINE eff  == Eff(tripped, TRUE, duty, trim)
           post == Write(freq, cur, eff)
           stop == IF restarting THEN PwmStop ELSE <<>>
<1>1. /\ todo = <<>> /\ held' = TRUE /\ mode' = (IF restarting THEN "down" ELSE "ota")
      /\ cur' = eff /\ todo' = post \o stop
      /\ UNCHANGED <<freq, duty, trim, tripped, overs, pass, restarts, pwmVars, beats, posted>>
  BY DEF Hold
<1>2. freq \in Freqs /\ duty \in Int /\ trim \in Int /\ tripped \in BOOLEAN /\ 1 \in Duties
  BY HvNumbers, HvWidths DEF HvInv
<1>3. eff = 1
  BY <1>2 DEF Eff
<1>4. HvTypeOK'
  <2>1. held' \in BOOLEAN /\ mode' \in {"run", "ota", "down"}
    BY <1>1
  <2>2. cur' \in Duties \union {-1}
    BY <1>1, <1>2, <1>3
  <2> QED BY <2>1, <2>2, <1>1 DEF HvInv, HvTypeOK, pwmVars
<1>5. BoxInv'
  BY <1>1 DEF HvInv, BoxInv, pwmVars
<1>6. InPairs(post) /\ InPairs(stop) /\ Quiet(stop, 1)
  BY <1>2, <1>3, Writes, PartsAreWhole, QuietParts
<1>7. (cur = 1 => post = <<>>) /\ (cur # 1 => PostsLeast(post))
  BY <1>2, <1>3, Writes
<1> HIDE DEF eff, post, stop
<1>8. post \in Seq(Stores) /\ stop \in Seq(Stores) /\ InPairs(post \o stop)
  BY <1>6, JoinedInPairs DEF InPairs
<1>9. StoresInv'
  BY <1>1, <1>8, QueuedInPairs
<1>10. LeastToCome'
  <2>1. CASE cur = 1
    <3>1. Quiet(post, 1) /\ LeastToCome
      BY <2>1, <1>7, QuietParts DEF HvInv, DutyInv
    <3>2. Quiet(todo', 1) /\ UNCHANGED pwmVars
      BY <3>1, <1>1, <1>6, <1>8, JoinedQuiet
    <3> QED BY <3>1, <3>2, <1>1, QueuedQuiet
  <2>2. CASE cur # 1
    <3>1. PostsLeast(todo')
      BY <2>2, <1>1, <1>6, <1>7, <1>8, JoinedQuiet
    <3> QED BY <3>1 DEF LeastToCome
  <2> QED BY <2>1, <2>2
<1>11. DutyInv'
  BY <1>1, <1>3, <1>10 DEF DutyInv
<1> QED BY <1>4, <1>5, <1>9, <1>11 DEF HvInv

\* The update failed: what was asked for is posted, or the least when it is cut off.
LEMMA OtaFailedHolds ==
  ASSUME HvInv, OtaFailed
  PROVE  HvInv'
<1> DEFINE eff == Eff(tripped, FALSE, duty, trim)
<1>1. /\ todo = <<>> /\ held' = FALSE /\ mode' = "run" /\ cur' = eff /\ todo' = Write(freq, -1, eff)
      /\ UNCHANGED <<freq, duty, trim, tripped, overs, pass, restarts, pwmVars, beats, posted>>
  BY DEF OtaFailed
<1>2. /\ freq \in Freqs /\ duty \in Int /\ trim \in Int /\ tripped \in BOOLEAN
      /\ 1 \in Duties /\ Duties \subseteq Nat
  BY HvNumbers, HvWidths DEF HvInv
<1>3. eff \in Duties /\ (tripped => eff = 1)
  BY <1>2, EffIsDuty
<1> HIDE DEF eff
<1>4. eff # -1
  BY <1>2, <1>3
<1>5. HvTypeOK'
  <2>1. held' \in BOOLEAN /\ mode' \in {"run", "ota", "down"}
    BY <1>1
  <2> QED BY <2>1, <1>1, <1>3 DEF HvInv, HvTypeOK, pwmVars
<1>6. BoxInv'
  BY <1>1 DEF HvInv, BoxInv, pwmVars
<1>7. InPairs(todo') /\ (eff = 1 => PostsLeast(todo'))
  BY <1>1, <1>2, <1>3, <1>4, Writes
<1>8. StoresInv'
  BY <1>1, <1>7, QueuedInPairs
<1>9. DutyInv'
  BY <1>1, <1>3, <1>7 DEF DutyInv, LeastToCome
<1> QED BY <1>5, <1>6, <1>8, <1>9 DEF HvInv

\* Everything begins stopped, with nothing posted.
LEMMA BeginsRight ==
  ASSUME freq \in Freqs, duty \in Duties, trim = 0, cur = -1, tripped = FALSE, overs = 0,
         held = FALSE, mode = "run", pass = 0, restarts = 0, pwmOn = FALSE, mail = Empty,
         gen = Off, pin = FALSE, alive = TRUE, beats = 0, todo = PwmBegin
  PROVE  HvInv
<1>1. mail.on = 0 /\ gen.on = 0 /\ ~mail.ready /\ mail \in [period : Nat, on : Nat, ready : BOOLEAN]
      /\ gen \in [period : Nat, on : Nat, high : BOOLEAN]
  BY DEF Empty, Off
<1>2. HvTypeOK
  <2>1. tripped \in BOOLEAN /\ held \in BOOLEAN /\ pin \in BOOLEAN
    OBVIOUS
  <2>2. /\ trim \in -TrimMax .. TrimMax /\ overs \in 0 .. TripAfter
        /\ pass \in 0 .. SlowEvery - 1 /\ restarts \in 0 .. Restarts
    BY HvWidths
  <2> QED BY <2>1, <2>2, <1>1 DEF HvTypeOK
<1>3. BoxInv
  <2>1. pwmOn \in BOOLEAN /\ alive \in BOOLEAN
    OBVIOUS
  <2> QED BY <2>1, <1>1 DEF BoxInv
<1>4. StoresInv
  <2>1. InPairs(todo)
    BY HvWidths, PartsAreWhole
  <2>2. PairsAreWhole
    BY <1>1 DEF PairsAreWhole
  <2>3. \A i \in 1 .. Len(todo) :
          /\ todo[i].do = "period" => IF i = 1 THEN ~mail.ready ELSE todo[i - 1].do = "unready"
          /\ todo[i].do = "on" =>
               todo[i].val \in Duties /\ IF i = 1 THEN ~mail.ready ELSE todo[i - 1].do = "period"
          /\ todo[i].do = "off" => i < Len(todo) /\ todo[i + 1].do = "low"
    BY <2>1, <1>1 DEF InPairs
  <2> QED BY <2>1, <2>2, <2>3 DEF StoresInv, InPairs
<1>5. DutyInv
  <2>1. cur # 1
    OBVIOUS
  <2> QED BY <2>1 DEF DutyInv
<1> QED BY <1>2, <1>3, <1>4, <1>5 DEF HvInv

LEMMA RebootHolds ==
  ASSUME HvInv, Reboot
  PROVE  HvInv'
<1>1. freq' \in Freqs /\ duty' \in Duties
  BY DEF HvInv, HvTypeOK, Reboot
<1>2. mail' = Empty /\ gen' = Off /\ todo' = PwmBegin
  BY DEF Reboot
<1>3. mail'.on = 0 /\ gen'.on = 0 /\ ~mail'.ready
      /\ mail' \in [period : Nat, on : Nat, ready : BOOLEAN]
      /\ gen' \in [period : Nat, on : Nat, high : BOOLEAN]
  BY <1>2 DEF Empty, Off
<1>4. /\ trim' = 0 /\ cur' = -1 /\ tripped' = FALSE /\ overs' = 0 /\ held' = FALSE /\ mode' = "run"
      /\ pass' = 0 /\ restarts' = 0 /\ pwmOn' = FALSE /\ pin' = FALSE /\ alive' = TRUE /\ beats' = 0
  BY DEF Reboot
<1>5. HvTypeOK'
  <2>1. tripped' \in BOOLEAN /\ held' \in BOOLEAN /\ pin' \in BOOLEAN
    BY <1>4
  <2>2. /\ trim' \in -TrimMax .. TrimMax /\ overs' \in 0 .. TripAfter
        /\ pass' \in 0 .. SlowEvery - 1 /\ restarts' \in 0 .. Restarts
    BY <1>4, HvWidths
  <2> QED BY <2>1, <2>2, <1>1, <1>3, <1>4 DEF HvTypeOK
<1>6. BoxInv'
  <2>1. pwmOn' \in BOOLEAN /\ alive' \in BOOLEAN
    BY <1>4
  <2> QED BY <2>1, <1>3, <1>4 DEF BoxInv
<1>7. StoresInv'
  <2>1. InPairs(todo')
    BY <1>1, <1>2, PartsAreWhole
  <2>2. PairsAreWhole'
    BY <1>3 DEF PairsAreWhole
  <2>3. \A i \in 1 .. Len(todo') :
          /\ todo'[i].do = "period" => IF i = 1 THEN ~mail'.ready ELSE todo'[i - 1].do = "unready"
          /\ todo'[i].do = "on" =>
               todo'[i].val \in Duties /\ IF i = 1 THEN ~mail'.ready ELSE todo'[i - 1].do = "period"
          /\ todo'[i].do = "off" => i < Len(todo') /\ todo'[i + 1].do = "low"
    BY <2>1, <1>3 DEF InPairs
  <2> QED BY <2>1, <2>2, <2>3, <1>4 DEF StoresInv, InPairs
<1>8. DutyInv'
  <2>1. cur' # 1
    BY <1>4
  <2> QED BY <2>1, <1>4 DEF DutyInv
<1> QED BY <1>5, <1>6, <1>7, <1>8 DEF HvInv

----------------------------------------------------------------------------
\* HV and EGTimer1: the inductive invariant.
THEOREM HvInductive == HvSpec => []HvInv
<1>1. HvInit => HvInv
  BY BeginsRight DEF HvInit
<1>2. HvInv /\ [HvNext]_hvAll => HvInv'
  <2>1. ASSUME HvInv, UNCHANGED hvAll PROVE HvInv'
    <3>1. HvTypeOK' /\ BoxInv'
      BY <2>1 DEF HvInv, HvTypeOK, BoxInv, hvAll, hvVars, pwmVars
    <3>2. StoresInv'
      BY <2>1 DEF HvInv, StoresInv, PairsAreWhole, hvAll, pwmVars
    <3>3. DutyInv'
      BY <2>1 DEF HvInv, DutyInv, LeastToCome, hvAll, hvVars, pwmVars
    <3> QED BY <3>1, <3>2, <3>3 DEF HvInv
  <2>2. ASSUME HvInv, Pass PROVE HvInv'
    BY <2>2, LoopHolds DEF Pass
  <2>3. ASSUME HvInv, HvNext PROVE HvInv'
    BY <2>3, <2>2, StoreHolds, NmiHolds, StallHolds, OtaFailedHolds, RebootHolds, SaveHolds,
       HvSetHolds, HoldHolds DEF HvNext
  <2> QED BY <2>1, <2>3
<1> QED BY <1>1, <1>2, PTL DEF HvSpec

\* HV and EGTimer1: settings, counters and the mailbox stay well formed, for any
\* frequencies, any widths of duty and trim, any limits.
THEOREM HvTypes == HvSpec => []HvTypeOK
<1>1. HvInv => HvTypeOK
  BY DEF HvInv
<1> QED BY <1>1, HvInductive, PTL

\* HV and EGTimer1: between whichever stores of the main loop the NMI falls, it finds a whole
\* setting; cut off or held, the least duty is the last one posted; stopped, the pin is low.
THEOREM VoltageForAll == HvSpec => []VoltageIsSafe
<1>1. HvInv => VoltageIsSafe
  <2> SUFFICES ASSUME HvInv PROVE VoltageIsSafe
    OBVIOUS
  <2>1. PairsAreWhole
    BY DEF HvInv, StoresInv
  <2>2. LowWhenStopped
    BY DEF HvInv, StoresInv, LowWhenStopped
  <2>3. HeldDown
    BY NoneToCome DEF HvInv, DutyInv, HeldDown
  <2> QED BY <2>1, <2>2, <2>3 DEF VoltageIsSafe
<1> QED BY <1>1, HvInductive, PTL
==============================================================================
