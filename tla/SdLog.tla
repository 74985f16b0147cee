------------------------------- MODULE SdLog -------------------------------
(* The log on the SD card (SDCard, ESP8266 only): a row a minute, synced    *)
(* every few.  s_tick() only sets flags, and may come while a handler or a  *)
(* cleanup yields; the card is touched from the main loop alone.            *)
EXTENDS Naturals, Sequences

CONSTANTS
  Minutes,     \* minutes that the clock may show, from 1; it starts over after the last
  DayLen,      \* minutes of a day
  CleanEvery,  \* minutes between two cleanups
  SyncMax      \* the longest sync_min

ASSUME SdAssumption ==
  /\ Minutes \in Nat /\ DayLen \in Nat \ {0}
  /\ CleanEvery \in Nat \ {0} /\ SyncMax \in Nat \ {0}

VARIABLES
  minute,      \* the clock, once it is synced; 0 before
  sdenabled,   \* the tick is enabled with it
  freecheck, last, due, cleanup,  \* _freecheck_pending, lastWrittenMinute, _write_due, _cleanup
  open,        \* openFileDay, NoDay for no open file
  unsynced, sync_min, clean_min,
  at,          \* "loop", "clean" or "page" under a Hold, "ota", "down"
  buffer,      \* ghost: the rows that are not on the card yet, with their files
  lowered      \* ghost: sync_min was saved since the last row

sdVars == <<minute, sdenabled, freecheck, last, due, cleanup, open, unsynced, sync_min,
            clean_min, at, buffer, lowered>>

FileDay(m) == m \div DayLen
NoDay == FileDay(Minutes) + 1
CleanNone == 0
CleanFreecheck == 1
CleanFull == 2

\* scheduleCleanup()
Scheduled(have, what) == IF what > have THEN what ELSE have

\* The minutes pass, an NTP reply may move them either way, and the first one sets them.
Clock(m) ==
  /\ at # "down" /\ minute' = m
  /\ UNCHANGED <<sdenabled, freecheck, last, due, cleanup, open, unsynced, sync_min,
                 clean_min, at, buffer, lowered>>

\* s_tick(), also while a row is written.
SdTick ==
  /\ at \in {"loop", "row"} /\ sdenabled /\ minute # 0
  /\ IF freecheck
     THEN /\ freecheck' = FALSE /\ cleanup' = Scheduled(cleanup, CleanFreecheck)
          /\ UNCHANGED <<last, due>>
     ELSE /\ minute # last /\ last' = minute
          /\ due' = (due \/ last # 0)
          /\ UNCHANGED <<freecheck, cleanup>>
  /\ UNCHANGED <<minute, sdenabled, open, unsynced, sync_min, clean_min, at, buffer, lowered>>

\* pauseWriter()
Paused == open' = NoDay /\ unsynced' = 0 /\ buffer' = <<>>

\* mutant: an open file will do for any day
OpenedStill == open # NoDay

\* The file of today is open.
Opened == open = FileDay(minute)

Cleaned(force) ==
  LET full == clean_min + 1 >= CleanEvery
  IN  /\ clean_min' = IF full THEN 0 ELSE clean_min + 1
      /\ cleanup' = IF full \/ force THEN Scheduled(cleanup, CleanFull) ELSE cleanup

\* writeMinute() while openDayFile() finds no root, no file, or the file.
NoRoot == ~Opened /\ Paused /\ UNCHANGED <<clean_min, cleanup, lowered>>
NoFile == ~Opened /\ Paused /\ Cleaned(TRUE) /\ UNCHANGED lowered

Row(file, before, n, synced) ==
  LET sync == n + 1 >= sync_min
  IN  /\ synced \/ sync
      /\ open' = IF synced THEN file ELSE NoDay
      /\ unsynced' = IF sync THEN 0 ELSE n + 1
      /\ buffer' = IF sync THEN <<>> ELSE Append(before, [file |-> file, minute |-> minute])
      /\ lowered' = FALSE
      /\ Cleaned(~synced)

WriteMinute ==
  /\ due' = FALSE
  /\ \/ NoRoot \/ NoFile
     \/ \E synced \in BOOLEAN :
          IF Opened THEN Row(open, buffer, unsynced, synced) ELSE Row(FileDay(minute), <<>>, 0, synced)

\* loop(): a row, then in the same call the cleanup.
SdLoop ==
  /\ at = "loop" /\ sdenabled /\ (due \/ cleanup # CleanNone)
  /\ IF due THEN WriteMinute ELSE UNCHANGED <<due, open, unsynced, clean_min, cleanup, buffer, lowered>>
  /\ at' = "row"
  /\ UNCHANGED <<minute, sdenabled, freecheck, last, sync_min>>

StartClean ==
  /\ at = "row" /\ cleanup' = CleanNone
  /\ IF cleanup = CleanNone
     THEN at' = "loop" /\ UNCHANGED <<open, unsynced, buffer>>
     ELSE at' = "clean" /\ Paused
  /\ UNCHANGED <<minute, sdenabled, freecheck, last, due, sync_min, clean_min, lowered>>

\* Room is found, or deleteOldest() makes some, or the card is full: disableFull().
EndClean(full) ==
  /\ at = "clean" /\ at' = "loop" /\ sdenabled' = ~full
  /\ UNCHANGED <<minute, freecheck, last, due, cleanup, open, unsynced, sync_min, clean_min,
                 buffer, lowered>>

\* A list or a download under its Hold.
Page ==
  /\ at = "loop" /\ sdenabled /\ at' = "page" /\ Paused
  /\ UNCHANGED <<minute, sdenabled, freecheck, last, due, cleanup, sync_min, clean_min, lowered>>

EndPage ==
  /\ at = "page" /\ at' = "loop"
  /\ UNCHANGED <<minute, sdenabled, freecheck, last, due, cleanup, open, unsynced, sync_min,
                 clean_min, buffer, lowered>>

\* reinit() and begin(); what was due stays so.
Reinit(mounts) ==
  /\ at = "loop" /\ Paused /\ freecheck' = TRUE /\ sdenabled' = mounts
  /\ UNCHANGED <<minute, last, due, cleanup, sync_min, clean_min, at, lowered>>

\* on_prefs_loaded()
Save(n) ==
  /\ at = "loop" /\ sync_min' = n /\ lowered' = TRUE
  /\ UNCHANGED <<minute, sdenabled, freecheck, last, due, cleanup, open, unsynced, clean_min,
                 at, buffer>>

\* The listener of updates and restarts; a failed update goes on.
Lifecycle(what) ==
  /\ at = "loop" /\ Paused /\ at' = what
  /\ UNCHANGED <<minute, sdenabled, freecheck, last, due, cleanup, sync_min, clean_min, lowered>>

OtaFailed ==
  /\ at = "ota" /\ at' = "loop"
  /\ UNCHANGED <<minute, sdenabled, freecheck, last, due, cleanup, open, unsynced, sync_min,
                 clean_min, buffer, lowered>>

\* A restart, orderly or not, with a card that may be gone.
Restarted ==
  /\ minute' = 0 /\ freecheck' = TRUE /\ last' = 0 /\ due' = FALSE /\ cleanup' = CleanNone
  /\ Paused /\ clean_min' = 0 /\ at' = "loop" /\ lowered' = FALSE
  /\ sdenabled' \in BOOLEAN
  /\ UNCHANGED sync_min

SdInit ==
  /\ minute = 0 /\ freecheck = TRUE /\ last = 0 /\ due = FALSE /\ cleanup = CleanNone
  /\ open = NoDay /\ unsynced = 0 /\ clean_min = 0 /\ at = "loop" /\ buffer = <<>>
  /\ lowered = FALSE /\ sdenabled = TRUE /\ sync_min = 1

SdNext ==
  \/ \E m \in 1 .. Minutes : Clock(m)
  \/ SdTick \/ SdLoop \/ StartClean \/ Page \/ EndPage \/ OtaFailed \/ Restarted
  \/ \E full \in BOOLEAN : EndClean(full) \/ Reinit(full)
  \/ \E n \in 1 .. SyncMax : Save(n)
  \/ \E what \in {"ota", "down"} : Lifecycle(what)

SdSpec == SdInit /\ [][SdNext]_sdVars

------------------------------------------------------------------------
SdTypeOK ==
  /\ minute \in 0 .. Minutes /\ last \in 0 .. Minutes /\ cleanup \in CleanNone .. CleanFull
  /\ open \in 0 .. NoDay /\ unsynced \in 0 .. SyncMax - 1 /\ sync_min \in 1 .. SyncMax
  /\ clean_min \in 0 .. CleanEvery - 1
  /\ at \in {"loop", "row", "clean", "page", "ota", "down"}

\* A power cut costs fewer rows than the sync interval, one from before the last row
\* included, and no row waits for a day other than the file's.
FewAtRisk ==
  /\ Len(buffer) = unsynced
  /\ ~lowered => unsynced < sync_min
  /\ \A i \in DOMAIN buffer : buffer[i].file = open /\ FileDay(buffer[i].minute) = open

\* Whatever else looks at the card, updates or restarts: no file is open and no
\* row is left in RAM.
QuietCard == at \in {"clean", "page", "ota", "down"} \/ ~sdenabled => open = NoDay /\ buffer = <<>>

RowsSurvive == FewAtRisk /\ QuietCard
=============================================================================
