----------------------------- MODULE BootGuard -----------------------------
(***************************************************************************)
(* The crash guard of ESPGeiger: what every boot makes of the way the last *)
(* one ended (System/BootGuard, System/BootGuardState), the crash snapshot *)
(* it reads first (System/CrashDump), the pending restart of               *)
(* System/Lifecycle, and the part of setup() and of the one second ticker  *)
(* that drives them.  The device is "reset" (the chip restarts, nothing of *)
(* the firmware has run), in "setup" (on_boot is done, setup() is not) or  *)
(* "running".                                                              *)
(*                                                                         *)
(* Time is counted in half hours, the unit of the shortest safe mode       *)
(* retry; what the code does within minutes happens between two ticks.     *)
(* The device has saved WiFi credentials, so setup() is bounded; the setup *)
(* portal of a device without any waits for its user for ever.             *)
(***************************************************************************)
EXTENDS Integers

CONSTANTS
  Firmwares,        \* fingerprints of the builds that can be flashed
  NoDump,           \* no crash snapshot in RTC memory or flash
  CrashesToSafeMode,\* CRASHES_TO_SAFE_MODE
  StreakMax,        \* where crash_streak saturates (255 in the code)
  RetriesMax,       \* where retries saturates (255 in the code)
  RetryShiftMax,    \* retry_ms doubles at most this often
  SetupMax,         \* half hours setup() takes at most before it restarts
  Day               \* half hours in DAY_MS

ASSUME FirmwareAssumption == NoDump \notin Firmwares
\* one half hour shifted left by n
Doubled == [n \in 0..5 |-> CASE n = 0 -> 1 [] n = 1 -> 2 [] n = 2 -> 4
                              [] n = 3 -> 8 [] n = 4 -> 16 [] n = 5 -> 32]

ASSUME LimitAssumption ==
  /\ CrashesToSafeMode \in Nat \ {0}
  /\ StreakMax \in Nat /\ StreakMax >= CrashesToSafeMode
  /\ RetriesMax \in Nat \ {0}
  /\ RetryShiftMax \in 0..5
  /\ SetupMax \in Nat
  /\ Day \in Nat /\ Doubled[RetryShiftMax] + SetupMax < Day

VARIABLES
  rtc,        \* BootGuard's State, kept in RTC memory over a reset
  dump,       \* fingerprint in the crash snapshot, or NoDump
  flash,      \* the firmware the next boot runs
  reason,     \* DeviceInfo::resetReason of the last reset
  stage,      \* "reset", "setup" or "running"
  up,         \* half hours since the reset
  restart_at, \* Lifecycle's pending restart, NoRestart if none
  retry,      \* s_retry_ms of this boot, in half hours
  crashRun,   \* history: resets in a row that were crashes
  guarded,    \* history: crashes in a row of one firmware, each before mark_lived
  asked,      \* history: safe mode was asked for since the last normal boot
  waited      \* history: longest retry of a safe boot since retries was cleared

vars == <<rtc, dump, flash, reason, stage, up, restart_at, retry,
          crashRun, guarded, asked, waited>>

history == <<crashRun, guarded, asked, waited>>

----------------------------------------------------------------------------
(* BootGuardState: pure functions of the state kept in RTC memory.         *)

NoRestart == -1
CrashReasons == {"exception", "wdt", "brownout"}
Reasons == CrashReasons \cup {"restart", "pin", "power", "unknown"}
Endings == {"other", "restart", "crash"}

RtcState == [magic : BOOLEAN, fw : Firmwares, lived : BOOLEAN,
             crash_streak : 0..StreakMax, safe : BOOLEAN,
             retries : 0..RetriesMax, enter : BOOLEAN]

Ending(r) == IF r \in {"pin", "restart"} THEN "restart"
             ELSE IF r \in CrashReasons THEN "crash"
             ELSE "other"

Smaller(a, b) == IF a < b THEN a ELSE b
SatIncForgotten(n, max) == n + 1               \* mutant: no saturation
SatIncWraps(n, max) == (n + 1) % (max + 1)     \* mutant: the byte wraps
SatInc(n, max) == Smaller(n + 1, max)

\* mutant: the shift is not clamped
RetryUnclamped(retries) == 2 ^ retries

\* retry_ms: half an hour, doubled with every safe boot
RetryAfter(retries) == Doubled[Smaller(retries, RetryShiftMax)]

Fresh(fw) == [magic |-> TRUE, fw |-> fw, lived |-> FALSE, crash_streak |-> 0,
              safe |-> FALSE, retries |-> 0, enter |-> FALSE]

\* RTC garbage or another firmware's state is cleared
Known(s, fw) == s.magic /\ s.fw = fw
Claimed(s, fw) == IF Known(s, fw) THEN s ELSE Fresh(fw)

Streak(s, end) == IF end # "crash" \/ s.lived THEN 0
                  ELSE SatInc(s.crash_streak, StreakMax)

\* mutant: only a power cycle leaves safe mode
SafeSticky(s, end) == \/ s.enter /\ end = "restart"
                      \/ s.safe /\ end # "other"
                      \/ end = "crash" /\ Streak(s, end) >= CrashesToSafeMode

Safe(s, end) == IF end # "crash" THEN s.enter /\ end = "restart"
                ELSE s.safe \/ s.enter \/ Streak(s, end) >= CrashesToSafeMode

\* mutant: a request for safe mode that was not met is kept
ApplyKeepsEnter(old, fw, end) ==
  LET s == Claimed(old, fw)
  IN  [s EXCEPT !.lived = FALSE,
                !.crash_streak = Streak(s, end), !.safe = Safe(s, end)]

Apply(old, fw, end) ==
  LET s == Claimed(old, fw)
  IN  [s EXCEPT !.lived = FALSE, !.enter = FALSE,
                !.crash_streak = Streak(s, end), !.safe = Safe(s, end)]

----------------------------------------------------------------------------
(* Resets.  A reset forgets all of RAM; RTC memory keeps the guard's state *)
(* unless power was lost.                                                  *)

Reset(why) == /\ reason' = why
              /\ stage' = "reset"
              /\ up' = 0
              /\ restart_at' = NoRestart
              /\ retry' = 0

\* runs in the history variables never need to count further than this
RunMax == CrashesToSafeMode + 1

NoteCrash ==
  /\ crashRun' = SatInc(crashRun, RunMax)
  /\ guarded' = IF rtc.lived THEN 0 ELSE SatInc(guarded, RunMax)
  /\ UNCHANGED <<asked, waited>>

NoteOrderlyEnd ==
  /\ crashRun' = 0 /\ guarded' = 0
  /\ UNCHANGED <<asked, waited>>

\* An exception or a soft watchdog runs custom_crash_callback; a hardware
\* watchdog may not reach it and a brownout does not.  On the ESP8266 abort()
\* leaves a snapshot behind but the reset reason of an orderly restart.
Crash(why, dumped) ==
  /\ stage # "reset"
  /\ why = "exception" => dumped
  /\ why = "restart" => dumped
  /\ why = "brownout" => ~dumped
  /\ dump' = IF dumped THEN rtc.fw ELSE dump
  /\ Reset(why) /\ NoteCrash
  /\ UNCHANGED <<rtc, flash>>

\* power is lost, at any moment: nothing of RTC memory can be believed
PowerLoss ==
  /\ rtc.magic \/ dump # NoDump \/ reason # "power" \/ stage # "reset"
  /\ rtc' = [rtc EXCEPT !.magic = FALSE]
  /\ dump' = NoDump
  /\ Reset("power") /\ NoteOrderlyEnd
  /\ UNCHANGED flash

\* the reset pin, a wake up, or a cause that resetReason() does not know: RTC
\* memory is kept
OtherReset(why) ==
  /\ stage # "reset"
  /\ Reset(why) /\ NoteOrderlyEnd
  /\ UNCHANGED <<rtc, dump, flash>>

\* DeviceInfo::safeRestart from setup(): the network did not come up
SetupRestart ==
  /\ stage = "setup"
  /\ Reset("restart") /\ NoteOrderlyEnd
  /\ UNCHANGED <<rtc, dump, flash>>

----------------------------------------------------------------------------
(* setup()                                                                 *)

\* mutant: the snapshot is not looked at
NoCrashSeen == FALSE

\* CrashDump::begin keeps a snapshot of this very firmware only
HasCrash == dump = flash

\* CrashDump::begin, then BootGuard::on_boot
OnBoot ==
  /\ stage = "reset"
  /\ LET end == IF HasCrash THEN "crash" ELSE Ending(reason)
         s   == Apply(rtc, flash, end)
     IN  /\ rtc' = [s EXCEPT !.retries =
                     IF s.safe THEN SatInc(@, RetriesMax) ELSE @]
         /\ retry' = IF s.safe THEN RetryAfter(s.retries) ELSE 0
         /\ asked' = (asked /\ s.safe)
         /\ waited' = LET before == IF Known(rtc, flash) THEN waited ELSE 0
                      IN  IF before < retry' THEN retry' ELSE before
  /\ guarded' = IF Known(rtc, flash) THEN guarded ELSE 0
  /\ dump' = NoDump
  /\ stage' = "setup"
  /\ UNCHANGED <<flash, reason, up, restart_at, crashRun>>

\* the end of setup(): a safe boot is left again after its retry time
SetupDone ==
  /\ stage = "setup"
  /\ stage' = "running"
  /\ restart_at' = IF rtc.safe THEN up + retry ELSE restart_at
  /\ UNCHANGED <<rtc, dump, flash, reason, up, retry>> /\ UNCHANGED history

----------------------------------------------------------------------------
(* The running device                                                      *)

RestartDue == restart_at # NoRestart /\ up >= restart_at

\* the loop polls restart_due() every 13 ms, so half an hour never passes a
\* due restart
Tick ==
  /\ ~RestartDue
  /\ up < IF stage = "setup" THEN SetupMax ELSE Day
  /\ stage # "reset"
  /\ up' = up + 1
  /\ UNCHANGED <<rtc, dump, flash, reason, stage, restart_at, retry>>
  /\ UNCHANGED history

\* sTickerCB, up LIVED_S with the network stable or switched off
MarkLived ==
  /\ stage = "running" /\ ~rtc.lived
  /\ rtc' = [rtc EXCEPT !.lived = TRUE]
  /\ UNCHANGED <<dump, flash, reason, stage, up, restart_at, retry>>
  /\ UNCHANGED history

\* sTickerCB, up DAY_MS
MarkDay ==
  /\ stage = "running" /\ up >= Day /\ rtc.retries # 0
  /\ rtc' = [rtc EXCEPT !.retries = 0]
  /\ waited' = 0
  /\ UNCHANGED <<dump, flash, reason, stage, up, restart_at, retry>>
  /\ UNCHANGED <<crashRun, guarded, asked>>

\* Lifecycle::request_restart from a page, a command or the network code;
\* their delays are seconds
RequestRestart ==
  /\ stage = "running"
  /\ restart_at' = up
  /\ UNCHANGED <<rtc, dump, flash, reason, stage, up, retry>>
  /\ UNCHANGED history

\* /guard?enter=1
RequestSafe ==
  /\ stage = "running"
  /\ rtc' = [rtc EXCEPT !.enter = TRUE]
  /\ restart_at' = up
  /\ asked' = TRUE
  /\ UNCHANGED <<dump, flash, reason, stage, up, retry>>
  /\ UNCHANGED <<crashRun, guarded, waited>>

\* the serial command restarts on the spot
SerialSafe ==
  /\ stage = "running"
  /\ rtc' = [rtc EXCEPT !.enter = TRUE]
  /\ Reset("restart")
  /\ asked' = TRUE /\ crashRun' = 0 /\ guarded' = 0
  /\ UNCHANGED <<dump, flash, waited>>

\* an upload through /update: the new image is in place, the restart pending
Update(fw) ==
  /\ stage = "running" /\ fw # flash
  /\ flash' = fw
  /\ restart_at' = up
  /\ UNCHANGED <<rtc, dump, reason, stage, up, retry>> /\ UNCHANGED history

\* WebPortal::tick
Restart ==
  /\ stage = "running" /\ RestartDue
  /\ Reset("restart") /\ NoteOrderlyEnd
  /\ UNCHANGED <<rtc, dump, flash>>

----------------------------------------------------------------------------
Init ==
  /\ rtc \in {[Fresh(fw) EXCEPT !.magic = FALSE] : fw \in Firmwares}
  /\ dump = NoDump
  /\ flash \in Firmwares
  /\ reason = "power"
  /\ stage = "reset"
  /\ up = 0
  /\ restart_at = NoRestart
  /\ retry = 0
  /\ crashRun = 0 /\ guarded = 0 /\ waited = 0
  /\ asked = FALSE

AnyCrash == \E why \in CrashReasons \cup {"restart"}, dumped \in BOOLEAN :
              Crash(why, dumped)
AskSafe == RequestSafe \/ SerialSafe

Next ==
  \/ AnyCrash
  \/ PowerLoss
  \/ \E why \in {"pin", "unknown"} : OtherReset(why)
  \/ SetupRestart
  \/ OnBoot
  \/ SetupDone
  \/ Tick
  \/ MarkLived
  \/ MarkDay
  \/ RequestRestart
  \/ AskSafe
  \/ \E fw \in Firmwares : Update(fw)
  \/ Restart

Spec == Init /\ [][Next]_vars

\* the chip boots, setup() returns or restarts, time passes and the loop polls
Fairness ==
  /\ WF_vars(OnBoot)
  /\ WF_vars(SetupDone \/ SetupRestart)
  /\ WF_vars(Tick)
  /\ WF_vars(Restart)

FairSpec == Spec /\ Fairness

----------------------------------------------------------------------------
TypeOK ==
  /\ rtc \in RtcState
  /\ dump \in Firmwares \cup {NoDump}
  /\ flash \in Firmwares
  /\ reason \in Reasons
  /\ stage \in {"reset", "setup", "running"}
  /\ up \in Nat
  /\ restart_at \in Nat \cup {NoRestart}
  /\ retry \in Nat
  /\ crashRun \in 0..RunMax /\ guarded \in 0..RunMax
  /\ asked \in BOOLEAN
  /\ waited \in Nat

Booted == stage # "reset"

\* Safe mode is never entered by mistake: a device in it was sent there, or
\* its last CRASHES_TO_SAFE_MODE resets at least were crashes.  No leftover of
\* RTC memory, of another firmware or of an old request can put it there.
SafeIsEarned == Booted /\ rtc.safe => asked \/ crashRun >= CrashesToSafeMode

\* A crash loop always ends in safe mode: no boot that follows
\* CRASHES_TO_SAFE_MODE crashes in a row of the same firmware, each before
\* mark_lived, runs the whole of the application, whatever kind the crashes
\* were of and in whatever state of setup() they came.
CrashLoopIsGuarded == Booted /\ guarded >= CrashesToSafeMode => rtc.safe

\* The retry time outlives safe mode: a safe boot is over before a day is up,
\* so that only a day out of safe mode resets the back-off of the next one.
SafeBootIsShort == stage = "running" /\ rtc.safe => up < Day

\* The waits between two tries of the full application never get shorter, not
\* even when the counter of the tries is full, before the device was up for a
\* day, lost its RTC memory or got another firmware.
BackoffGrows == Booted /\ rtc.safe => retry >= waited

\* Safe mode ends by itself: once the crashes and the requests stop, the
\* device comes back out of safe mode.
SafeModeEnds == <>[][~(AnyCrash \/ AskSafe)]_vars => []<>~(rtc.magic /\ rtc.safe)
============================================================================
