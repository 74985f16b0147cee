------------------------------ MODULE Lifetime ------------------------------
(***************************************************************************)
(* The lifetime total (Counter): clicks and tracked seconds, kept in RAM,  *)
(* saved to the life group of the preferences every few hours and at a     *)
(* restart, and stashed in RTC memory in between, which outlives a crash   *)
(* but not a power cut.                                                    *)
(*                                                                         *)
(* A tube that counts counts one click a second, so that a click also      *)
(* stands for the second it came in.  Of the clocks, Clock::epoch() and    *)
(* TickClock, only differences are kept, and they agree to the second.     *)
(***************************************************************************)
EXTENDS Integers

CONSTANTS
  StashEvery,  \* RTC_STASH_S
  SaveEvery,   \* LIFETIME_SAVE_S
  Wrap,        \* 2^32
  LoopLag,     \* bound: the ticks until the loop stashes what one asked for
  Steps,       \* bound: by how much a sync moves the clock
  Mishaps,     \* bound: the mishaps, one of which a behaviour may meet
  ClickMax     \* bound: the clicks and the blind seconds of a behaviour

Unset == -1000   \* _last_save_time_t is 0: further back than any sync moves it
None == "none"

ASSUME LifetimeAssumption ==
  /\ StashEvery \in Nat \ {0} /\ SaveEvery \in Nat \ {0} /\ Wrap \in Nat \ {0}
  /\ LoopLag \in Nat /\ LoopLag < StashEvery
  /\ StashEvery + SaveEvery + LoopLag <= Wrap
  /\ \A d \in Steps : d \in Int /\ d > Unset
  /\ ClickMax \in Nat
  /\ Mishaps \subseteq {"pause", "late sync", "failed write", "torn save"}

VARIABLES
  disk,            \* the file of the life group
  rtc,             \* LifeRtc
  pc,              \* "off", "up" or, after the commit of save_lifetime, "saved"
  restarting,      \* the save is the one of a shutdown
  life,            \* total_clicks_lifetime, _rollover, first_boot_ts, _seconds_saved
  since,           \* Clock::epoch() less _last_save_time_t
  unsaved,         \* _rtc_unsaved_clicks
  pending,         \* _pending_work
  pending_since,   \* _rtc_pending_now less _last_save_time_t
  rtc_ctr, save_ctr,
  enabled,         \* life_en
  stopped,         \* the input is stopped for an OTA update
  synced,
  step,            \* how far the SDK has moved the clock since the last on_sync
  blind,           \* history: seconds in which the input was stopped
  recovered,       \* history: clicks that came from the stash and are not saved
  mishap           \* history: the mishap that this behaviour has met

counters == <<rtc_ctr, save_ctr>>
clock == <<since, synced, step>>
history == <<blind, recovered, mishap>>
vars == <<disk, rtc, pc, restarting, life, unsaved, pending, pending_since,
          counters, enabled, stopped, clock, history>>

Life == [clk : 0 .. Wrap - 1, clkr : Nat, fbt : {"none", "this", "before"}, secs : Int]
Zero == [clk |-> 0, clkr |-> 0, fbt |-> "none", secs |-> 0]
Stash(c, s) == [magic |-> TRUE, clicks |-> c, seconds |-> s]
NoStash == [Stash(0, 0) EXCEPT !.magic = FALSE]

\* get_lifetime_clicks_total
Value(l) == l.clkr * Wrap + l.clk

\* mutant: the total is kept in more than its 32 bits
AddWide(l, n) == [l EXCEPT !.clk = l.clk + n]

\* a sum that comes out smaller has wrapped
Add(l, n) ==
  LET sum == (l.clk + n) % Wrap
  IN  [l EXCEPT !.clk = sum, !.clkr = IF l.clk > sum THEN l.clkr + 1 ELSE l.clkr]

Mishap(kind) ==
  /\ kind \in Mishaps /\ mishap = None
  /\ mishap' = kind

----------------------------------------------------------------------------
\* on_prefs_loaded and begin: the stash goes to RAM and is cleared
Boot ==
  /\ pc = "off" /\ pc' = "up"
  /\ LET l == [disk EXCEPT !.fbt = IF @ = "none" THEN @ ELSE "before"]
     IN  IF rtc.magic /\ enabled
         THEN /\ life' = [Add(l, rtc.clicks) EXCEPT !.secs = @ + rtc.seconds]
              /\ recovered' = rtc.clicks
         ELSE life' = l /\ recovered' = 0
  /\ rtc' = NoStash
  /\ UNCHANGED <<disk, restarting, unsaved, pending, pending_since, counters,
                 enabled, stopped, clock, blind, mishap>>

\* secondticker with the second it is for
Second ==
  /\ pc = "up" /\ Value(life) + blind < ClickMax
  /\ "rtc" \in pending => rtc_ctr < LoopLag
  /\ ~enabled => pending = {} /\ life.secs + since < ClickMax
  /\ LET n == IF stopped THEN 0 ELSE 1
         now == IF since # Unset THEN since + 1
                ELSE IF synced /\ enabled THEN 0 ELSE Unset
         first == life.fbt = "none" /\ synced
         stash == rtc_ctr + 1 >= StashEvery
         save == save_ctr + 1 >= SaveEvery
     IN  /\ since' = now
         /\ IF ~enabled
            THEN UNCHANGED <<life, unsaved, pending, pending_since, counters, blind>>
            ELSE /\ life' = [Add(life, n) EXCEPT !.fbt = IF first THEN "this" ELSE @]
                 /\ unsaved' = unsaved + n
                 /\ blind' = blind + 1 - n
                 /\ rtc_ctr' = IF stash THEN 0 ELSE rtc_ctr + 1
                 /\ save_ctr' = IF save THEN 0 ELSE save_ctr + 1
                 /\ pending' = pending \cup (IF stash THEN {"rtc"} ELSE {})
                                       \cup (IF save \/ first THEN {"save"} ELSE {})
                 /\ pending_since' = IF stash THEN now ELSE pending_since
  /\ UNCHANGED <<disk, rtc, pc, restarting, enabled, stopped, synced, step,
                 recovered, mishap>>

\* RAM of a chip that was reset
Off ==
  /\ pc' = "off" /\ restarting' = FALSE
  /\ life' = Zero /\ since' = Unset /\ unsaved' = 0
  /\ pending' = {} /\ pending_since' = Unset /\ rtc_ctr' = 0 /\ save_ctr' = 0
  /\ stopped' = FALSE /\ synced' = FALSE /\ step' = 0 /\ recovered' = 0

\* save_lifetime with a total l and a last save s ago, up to its commit, which
\* says nothing when it fails
Commit(l, s, restart) ==
  /\ life' = [l EXCEPT !.secs = IF s # Unset /\ synced /\ s >= 0 THEN @ + s ELSE @]
  /\ since' = IF synced THEN 0 ELSE s
  /\ \/ disk' = life' /\ UNCHANGED mishap
     \/ Mishap("failed write") /\ UNCHANGED disk
  /\ pc' = "saved" /\ restarting' = restart

\* the last tick that asked for a stash, after the last save moved to now
Rebased ==
  IF synced /\ since # Unset /\ pending_since # Unset THEN pending_since - since
  ELSE pending_since

\* mutant: the stash of what is saved now stays
SavedStashStays ==
  /\ pc = "saved"
  /\ IF restarting THEN Off
     ELSE /\ pc' = "up" /\ unsaved' = 0 /\ recovered' = 0
          /\ UNCHANGED <<restarting, life, since, pending, pending_since, counters,
                         stopped, synced, step>>
  /\ UNCHANGED <<disk, rtc, enabled, blind, mishap>>

\* and after it
Saved ==
  /\ pc = "saved"
  /\ rtc' = Stash(0, 0)
  /\ IF restarting THEN Off
     ELSE /\ pc' = "up" /\ unsaved' = 0 /\ recovered' = 0
          /\ UNCHANGED <<restarting, life, since, pending, pending_since, counters,
                         stopped, synced, step>>
  /\ UNCHANGED <<disk, enabled, blind, mishap>>

\* what loop() stashes: seconds up to the tick that asked for it
StashNow ==
  Stash(unsaved, IF since # Unset /\ pending_since >= 0 THEN pending_since ELSE 0)

\* a stash was asked for, and there is something to stash
Stashes == "rtc" \in pending /\ StashNow # Stash(0, 0)

\* loop
Loop ==
  /\ pc = "up" /\ pending # {}
  /\ pending' = {}
  /\ rtc' = IF Stashes THEN StashNow ELSE rtc
  /\ pending_since' = Unset
  /\ IF "save" \in pending THEN Commit(life, since, FALSE)
     ELSE UNCHANGED <<disk, pc, restarting, life, since, mishap>>
  /\ UNCHANGED <<unsaved, counters, enabled, stopped, synced, step, blind, recovered>>

\* stop_for_ota, of an update that starts and of a restart
StopInput(restart) ==
  /\ pc = "up"
  /\ stopped' = TRUE
  /\ IF enabled
     THEN /\ Commit(life, since, restart)
          /\ pending_since' = Rebased
          /\ UNCHANGED <<rtc, unsaved, pending, counters, enabled, synced, step,
                         blind, recovered>>
     ELSE /\ restart = FALSE
          /\ UNCHANGED <<disk, rtc, pc, restarting, life, since, unsaved, pending,
                         pending_since, counters, enabled, synced, step, history>>

\* a restart with the lifetime turned off saves nothing
RestartUnsaved ==
  /\ pc = "up" /\ ~enabled
  /\ Off
  /\ UNCHANGED <<disk, rtc, enabled, blind, mishap>>

\* restart_after_ota
RestartInput ==
  /\ pc = "up" /\ stopped
  /\ stopped' = FALSE
  /\ UNCHANGED <<disk, rtc, pc, restarting, life, unsaved, pending, pending_since,
                 counters, enabled, clock, history>>

\* reset_lifetime
ResetLifetime ==
  /\ pc = "up"
  /\ Commit(Zero, Unset, FALSE)
  /\ pending_since' = Rebased
  /\ UNCHANGED <<rtc, unsaved, pending, counters, enabled, stopped, synced, step,
                 blind, recovered>>

\* the setting is saved and takes effect at once
Pause ==
  /\ pc = "up"
  /\ \/ enabled /\ Mishap("pause")
     \/ ~enabled /\ UNCHANGED mishap
  /\ enabled' = ~enabled
  /\ UNCHANGED <<disk, rtc, pc, restarting, life, unsaved, pending, pending_since,
                 counters, stopped, clock, blind, recovered>>

FirstSync ==
  /\ pc = "up" /\ ~synced
  /\ synced' = TRUE
  /\ UNCHANGED <<disk, rtc, pc, restarting, life, since, unsaved, pending,
                 pending_since, counters, enabled, stopped, step, history>>

Moved(t, d) == IF t = Unset THEN t ELSE t + d

\* mutant: the last save stays where it was
SteppedNot(s, d) ==
  /\ since' = s
  /\ pending_since' = pending_since
  /\ UNCHANGED pending

\* clock_stepped, with the clock s after the last save by now; a first boot of
\* this boot is moved and saved, and one of a boot whose clock was ahead
Stepped(s, d) ==
  /\ since' = Moved(s, -d)
  /\ pending_since' = Moved(pending_since, -d)
  /\ \/ life.fbt # "none" /\ pending' = pending \cup {"save"}
     \/ life.fbt # "this" /\ UNCHANGED pending

\* a sync that on_sync takes before anything else looks at the clock
Resync(d) ==
  /\ pc = "up" /\ synced /\ step = 0
  /\ "rtc" \in pending => d > 0 /\ (pending_since = Unset \/ pending_since >= 0)
  /\ Stepped(Moved(since, d), d)
  /\ UNCHANGED <<disk, rtc, pc, restarting, life, unsaved, counters, enabled,
                 stopped, synced, step, history>>

\* one that it takes later: the SDK moves the clock, then NTP_Client looks
LateSync(d) ==
  /\ pc = "up" /\ synced /\ step = 0 /\ Mishap("late sync")
  /\ since' = Moved(since, d) /\ step' = d
  /\ UNCHANGED <<disk, rtc, pc, restarting, life, unsaved, pending, pending_since,
                 counters, enabled, stopped, synced, blind, recovered>>

TakeSync ==
  /\ pc = "up" /\ step # 0
  /\ step' = 0
  /\ Stepped(since, step)
  /\ UNCHANGED <<disk, rtc, pc, restarting, life, unsaved, counters, enabled,
                 stopped, synced, history>>

\* RTC memory keeps the stash, one that the disk has already if the crash comes
\* before save_lifetime clears it
Crash ==
  /\ Off
  /\ \/ pc = "up" /\ UNCHANGED mishap
     \/ pc = "saved" /\ Mishap("torn save")
  /\ UNCHANGED <<disk, rtc, enabled, blind>>

PowerCut ==
  /\ rtc' = NoStash /\ Off
  /\ UNCHANGED <<disk, enabled, blind, mishap>>

Init ==
  /\ disk = Zero /\ rtc = NoStash /\ pc = "off" /\ restarting = FALSE
  /\ life = Zero /\ since = Unset /\ unsaved = 0
  /\ pending = {} /\ pending_since = Unset /\ rtc_ctr = 0 /\ save_ctr = 0
  /\ enabled = TRUE /\ stopped = FALSE /\ synced = FALSE /\ step = 0
  /\ blind = 0 /\ recovered = 0 /\ mishap = None

Next ==
  \/ Boot \/ Second \/ Loop \/ Saved
  \/ \E restart \in BOOLEAN : StopInput(restart)
  \/ RestartUnsaved \/ RestartInput \/ ResetLifetime \/ Pause
  \/ FirstSync \/ TakeSync
  \/ \E d \in Steps : Resync(d) \/ LateSync(d)
  \/ Crash \/ PowerCut

Spec == Init /\ [][Next]_vars

----------------------------------------------------------------------------
(* Properties *)

\* The totals, the stash and the work of the loop are well formed.
TypeOK ==
  /\ disk \in Life /\ life \in Life
  /\ rtc \in [magic : BOOLEAN, clicks : 0 .. Wrap - 1, seconds : Int]
  /\ pc \in {"off", "up", "saved"} /\ restarting \in BOOLEAN
  /\ since \in Int /\ unsaved \in 0 .. Wrap - 1 /\ pending_since \in Int
  /\ pending \subseteq {"rtc", "save"}
  /\ rtc_ctr \in 0 .. StashEvery - 1 /\ save_ctr \in 0 .. SaveEvery - 1
  /\ enabled \in BOOLEAN /\ stopped \in BOOLEAN /\ synced \in BOOLEAN
  /\ step \in Int /\ blind \in Nat /\ recovered \in 0 .. Wrap - 1
  /\ mishap \in Mishaps \cup {None}

\* the clicks that a boot after a crash finds
Found == Value(disk) + (IF rtc.magic THEN rtc.clicks ELSE 0)

\* get_lifetime_seconds
Tracked == life.secs + (IF since # Unset /\ synced /\ since >= 0 THEN since ELSE 0)

\* No click is counted twice, over restarts, crashes and a total that wraps:
\* what a crash leaves is never more than the total was (save_lifetime clears
\* the stash, begin takes it once).  Two moments are left out: save_lifetime
\* between its commit and the clearing of the stash, and a reset whose write
\* failed.
NotCountedTwice ==
  pc = "up" /\ mishap # "failed write" => Found <= Value(life)

\* A crash costs the clicks since the last stash, and those that an earlier
\* one had brought back and that were not saved since, but no others
\* (RTC_STASH_S; "RTC stash, survives a crash not a power cut").
CrashLosesLittle ==
  pc = "up" /\ enabled /\ "rtc" \notin pending /\ mishap # "failed write"
    => Value(life) - Found <= rtc_ctr + recovered

\* Both: what a crash leaves is bounded on either side.
ClicksSurvive == NotCountedTwice /\ CrashLosesLittle

\* "Tracked seconds advance only over spans where clicks were persisted, so
\* the lifetime CPM on /hist stays accurate across crashes": no second is
\* tracked whose clicks are not in the total, but for those of an OTA update,
\* whatever was saved, stashed, lost and brought back, and wherever a sync
\* moved the clock.
SecondsAreCovered ==
  pc # "off" /\ mishap \notin {"pause", "late sync", "torn save"}
    => Tracked <= Value(life) + blind

\* Counter: no click is lost or counted twice but for what a crash, a power cut or a
\* torn file costs, and the total and the time it covers go together.
TotalsSurvive == ClicksSurvive /\ SecondsAreCovered
=============================================================================
