--------------------------- MODULE ModuleRegistry ---------------------------
(***************************************************************************)
(* The scheduler of the firmware's modules (Module/EGModuleRegistry): one  *)
(* loop task walks the modules whose loop() is due, in an order it keeps   *)
(* sorted, while the other tasks ask for other intervals at any moment.    *)
(*                                                                         *)
(* A 32 bit millisecond counter is only ever read through differences, so  *)
(* a time is kept as the code's casts compute it: a due time as its signed *)
(* distance from now, a last time as its unsigned age.  Tick moves them    *)
(* all, and they wrap as the casts do.  2 * Half stands for 2^32.          *)
(***************************************************************************)
EXTENDS Integers, SequencesExt

CONSTANTS
  Slots,          \* the modules as sort_by_priority leaves them
  Half,           \* half the range of the clock
  MaxInterval,    \* the longest loop_interval, 0xFFFF
  RetryMax,       \* a module behind a closed gate is tried again this late
  WakeMax,        \* the loop is idle for this long at most
  Stall,          \* bound: how late a pass starts, and how long it lasts
  Away,           \* bound: how late a walk is, after setup(), an OTA update or
                  \* passes that all end in apply_pending
  LoopInterval,   \* loop_interval_ms() of each module
  HasLoop,        \* the modules that start with a loop
  Needs,          \* the gates each module is behind
  DuringOta,      \* the modules that loop during an OTA update
  Core,           \* the modules that safe mode keeps
  Asked           \* what set_loop_interval is called with

Modules == ToSet(Slots)
SlotOf(m) == CHOOSE i \in DOMAIN Slots : Slots[i] = m
Gates == {"wifi", "ntp", "upload"}
Off == -1
NoRequest == -2

ASSUME TimeAssumption ==
  /\ Half \in Nat /\ MaxInterval \in Nat \ {0}
  /\ RetryMax \in Nat \ {0} /\ WakeMax \in Nat \ {0}
  /\ Stall \in Nat /\ Away \in Nat
  /\ MaxInterval + RetryMax + WakeMax + 2 * Stall + Away < Half
ASSUME ModuleAssumption ==
  /\ Slots \in Seq(Modules) /\ IsInjective(Slots)
  /\ LoopInterval \in [Modules -> Nat]
  /\ HasLoop \cup DuringOta \cup Core \subseteq Modules
  /\ Needs \in [Modules -> SUBSET Gates]
  /\ Asked \subseteq Nat \cup {Off}

VARIABLES
  quarantined,    \* FLAG_QUARANTINED
  looping,        \* FLAG_HAS_LOOP
  interval,       \* loop_interval
  age,            \* now - loop_last, up to AgeMax
  due,            \* next_due - now, signed
  order,          \* _due_order
  next_loop_due,  \* _next_loop_due - now, signed
  request,        \* pending_ms
  pending,        \* _pending
  unmet,          \* the gates that this walk found closed
  ota,            \* ota_in_progress
  pc,             \* where the loop task is
  at,             \* the now of this pass, as its distance from now
  applied,        \* the now of apply_pending
  todo,           \* the slots left to apply_pending, rebuild_due or the OTA branch
  k,              \* where the walk is in order
  hurried         \* history: modules made due by the boot or by wake()

times == <<age, due, next_loop_due, at, applied>>
slots == <<quarantined, looping, interval>>
gates == <<unmet, ota>>
asking == <<request, pending>>
walking == <<order, pc, todo, k>>

vars == <<slots, times, gates, asking, walking, hurried>>

----------------------------------------------------------------------------
Lesser(a, b) == IF a < b THEN a ELSE b

\* (int32_t)
Signed(x) == ((x + Half) % (2 * Half)) - Half

\* An older loop_last is overdue just the same, until it wraps after 49 days
\* and the module waits for one more interval.
AgeMax == MaxInterval + Stall

\* mutant: the 16 bits are forgotten
LoopIntervalUncapped(ms) == IF ms < 1 THEN 1 ELSE ms

\* loop_interval_from: 0 would run again in the same pass
LoopIntervalFrom(ms) == IF ms < 1 THEN 1 ELSE Lesser(ms, MaxInterval)

\* rebuild_due: m comes after those that are due no later than it, which are
\* the first of seq, for it is sorted
Insert(seq, m) ==
  LET before == {j \in 1 .. Len(seq) : Signed(due[seq[j]] - due[m]) <= 0}
  IN  InsertAt(seq, Cardinality(before) + 1, m)

\* sift_due: the module at position i moves past those that are due before it,
\* which are the next ones
SiftTo(seq, d, i) ==
  i + Cardinality({j \in i + 1 .. Len(seq) : Signed(d[seq[i]] - d[seq[j]]) > 0})
Sifted(seq, d, i) == InsertAt(RemoveAt(seq, i), SiftTo(seq, d, i), seq[i])

\* mutant: no fallback
NextWakeUnbounded ==
  IF order = <<>> THEN Signed(at + WakeMax) ELSE due[order[1]]

\* next_wake
NextWake ==
  LET fallback == Signed(at + WakeMax)
      next == IF order = <<>> THEN fallback ELSE due[order[1]]
  IN  IF Signed(next - fallback) > 0 THEN fallback ELSE next

----------------------------------------------------------------------------
(* set_loop_interval, from any task at any moment, and the clock           *)

\* mutants: the flag is forgotten; a quarantined module may ask
SetSilently(m, ms) ==
  /\ m \notin quarantined
  /\ request' = [request EXCEPT ![m] = ms]
  /\ UNCHANGED <<pending, slots, times, gates, walking, hurried>>
SetUnguarded(m, ms) ==
  /\ request' = [request EXCEPT ![m] = ms]
  /\ pending' = TRUE
  /\ UNCHANGED <<slots, times, gates, walking, hurried>>

SetLoopInterval(m, ms) ==
  /\ m \notin quarantined
  /\ request' = [request EXCEPT ![m] = ms]
  /\ pending' = TRUE
  /\ UNCHANGED <<slots, times, gates, walking, hurried>>

\* a millisecond passes
Tick ==
  /\ (IF pc = "idle" THEN next_loop_due ELSE at) > -Stall
  /\ \A m \in looping : due[m] > -Away
  /\ age' = [m \in Modules |-> Lesser(age[m] + 1, AgeMax)]
  /\ due' = [m \in Modules |-> Signed(due[m] - 1)]
  /\ next_loop_due' = Signed(next_loop_due - 1)
  /\ at' = IF pc = "idle" THEN 0 ELSE at - 1
  /\ applied' = IF pc \in {"apply", "rebuild"} THEN applied - 1 ELSE 0
  /\ UNCHANGED <<slots, gates, asking, walking, hurried>>

----------------------------------------------------------------------------
(* The loop task: pass() and loop_all()                                    *)

\* pass() sees that the loop is due; at is 0 as long as no pass is under way
PassStart ==
  /\ pc = "idle" /\ next_loop_due <= 0
  /\ pc' = "pass"
  /\ UNCHANGED <<slots, times, gates, asking, order, todo, k, hurried>>

\* apply_pending: the flag goes first
ApplyStart ==
  /\ pc = "pass" /\ pending
  /\ pc' = "apply"
  /\ pending' = FALSE
  /\ applied' = 0
  /\ todo' = Slots
  /\ UNCHANGED <<slots, age, due, next_loop_due, at>>
  /\ UNCHANGED <<gates, request, order, k, hurried>>

\* mutants: a module is due as it was before it was turned off; or at once
ApplyKeepsDue ==
  /\ pc = "apply" /\ todo # <<>>
  /\ LET m  == Head(todo)
         ms == request[m]
     IN  /\ request' = [request EXCEPT ![m] = NoRequest]
         /\ IF ms >= 0
              THEN /\ looping' = looping \cup {m}
                   /\ interval' = [interval EXCEPT ![m] = LoopIntervalFrom(ms)]
              ELSE /\ looping' = IF ms = Off THEN looping \ {m} ELSE looping
                   /\ UNCHANGED interval
  /\ todo' = Tail(todo)
  /\ UNCHANGED <<quarantined, times, gates, pending, order, pc, k, hurried>>
ApplyAtOnce ==
  /\ pc = "apply" /\ todo # <<>>
  /\ LET m  == Head(todo)
         ms == request[m]
     IN  /\ request' = [request EXCEPT ![m] = NoRequest]
         /\ IF ms >= 0
              THEN /\ looping' = looping \cup {m}
                   /\ interval' = [interval EXCEPT ![m] = LoopIntervalFrom(ms)]
                   /\ due' = [due EXCEPT ![m] = applied]
              ELSE /\ looping' = IF ms = Off THEN looping \ {m} ELSE looping
                   /\ UNCHANGED <<interval, due>>
  /\ todo' = Tail(todo)
  /\ UNCHANGED <<quarantined, age, next_loop_due, at, applied>>
  /\ UNCHANGED <<gates, pending, order, pc, k, hurried>>

\* apply_pending: one slot, its request taken under the lock
ApplySlot ==
  /\ pc = "apply" /\ todo # <<>>
  /\ LET m  == Head(todo)
         ms == request[m]
         every == LoopIntervalFrom(ms)
     IN  /\ request' = [request EXCEPT ![m] = NoRequest]
         /\ IF ms >= 0
              THEN /\ looping' = looping \cup {m}
                   /\ interval' = [interval EXCEPT ![m] = every]
                   /\ due' = [due EXCEPT ![m] =
                        IF applied + age[m] >= every THEN applied
                        ELSE Signed(every - age[m])]
              ELSE /\ looping' = IF ms = Off THEN looping \ {m} ELSE looping
                   /\ UNCHANGED <<interval, due>>
  /\ todo' = Tail(todo)
  /\ UNCHANGED <<quarantined, age, next_loop_due, at, applied>>
  /\ UNCHANGED <<gates, pending, order, pc, k, hurried>>

\* a pass that ends before the walk, or after it
EndPass == pc' = "idle" /\ at' = 0 /\ applied' = 0
           /\ k' = 0 /\ todo' = <<>>

\* mutant: the first slot is left out
RebuildFromSecond ==
  /\ pc = "apply" /\ todo = <<>>
  /\ pc' = "rebuild"
  /\ order' = <<>>
  /\ todo' = Tail(Slots)
  /\ UNCHANGED <<slots, times, gates, asking, k, hurried>>

\* rebuild_due: from nothing, slot by slot, the modules that loop
RebuildStart ==
  /\ pc = "apply" /\ todo = <<>>
  /\ pc' = "rebuild"
  /\ order' = <<>>
  /\ todo' = Slots
  /\ UNCHANGED <<slots, times, gates, asking, k, hurried>>

\* mutant: modules are only appended
RebuildAppends ==
  /\ pc = "rebuild" /\ todo # <<>>
  /\ order' = IF Head(todo) \in looping THEN Append(order, Head(todo)) ELSE order
  /\ todo' = Tail(todo)
  /\ UNCHANGED <<slots, times, gates, asking, pc, k, hurried>>
RebuildSlot ==
  /\ pc = "rebuild" /\ todo # <<>>
  /\ order' = IF Head(todo) \in looping THEN Insert(order, Head(todo)) ELSE order
  /\ todo' = Tail(todo)
  /\ UNCHANGED <<slots, times, gates, asking, pc, k, hurried>>

\* mutant: the flag is cleared last
ApplyEndClears ==
  /\ pc = "rebuild" /\ todo = <<>>
  /\ next_loop_due' = applied
  /\ pending' = FALSE
  /\ EndPass
  /\ UNCHANGED <<slots, age, due, gates, request, order, hurried>>

\* apply_pending ends; then loop_all looks at the clock again
ApplyEnd ==
  /\ pc = "rebuild" /\ todo = <<>>
  /\ next_loop_due' = applied
  /\ IF at < applied
       THEN EndPass
       ELSE pc' = "begin" /\ applied' = 0 /\ UNCHANGED <<at, k, todo>>
  /\ UNCHANGED <<slots, age, due, gates, asking, order, hurried>>

\* loop_all: a walk asks Wifi::stable_for, Clock::synced and
\* ExternalPause::active once, and whatever they say then holds for all of it
WalkStart ==
  /\ \/ pc = "pass" /\ ~pending
     \/ pc = "begin"
  /\ ~ota
  /\ pc' = "walk"
  /\ unmet' \in SUBSET UNION {Needs[m] : m \in Modules}
  /\ k' = 1
  /\ UNCHANGED <<slots, times, ota, asking, order, todo, hurried>>

Closed(m) == Needs[m] \cap unmet # {}

\* the module at k has its new due time d
MoveOn(d) ==
  /\ due' = [due EXCEPT ![order[k]] = d]
  /\ order' = Sifted(order, due', k)
  /\ k' = IF SiftTo(order, due', k) = k THEN k + 1 ELSE k

AtDueModule == pc = "walk" /\ k <= Len(order) /\ Signed(at - due[order[k]]) >= 0

\* a closed gate: try again within a second
Defer ==
  /\ AtDueModule /\ Closed(order[k])
  /\ MoveOn(Signed(at + Lesser(interval[order[k]], RetryMax)))
  /\ UNCHANGED <<slots, age, next_loop_due, at, applied>>
  /\ UNCHANGED <<gates, asking, pc, todo, hurried>>

\* fire_slot up to the call of loop()
Fire(m) ==
  /\ AtDueModule /\ order[k] = m /\ ~Closed(m)
  /\ pc' = "loop"
  /\ age' = [age EXCEPT ![m] = -at]
  /\ hurried' = hurried \ {m}
  /\ UNCHANGED <<slots, due, next_loop_due, at, applied>>
  /\ UNCHANGED <<gates, asking, order, todo, k>>

\* fire_slot after loop() returned
Fired ==
  /\ pc = "loop"
  /\ pc' = "walk"
  /\ MoveOn(Signed(at + interval[order[k]]))
  /\ UNCHANGED <<slots, age, next_loop_due, at, applied>>
  /\ UNCHANGED <<gates, asking, todo, hurried>>

WalkEnd ==
  /\ pc = "walk" /\ ~AtDueModule
  /\ next_loop_due' = NextWake
  /\ unmet' = {}
  /\ EndPass
  /\ UNCHANGED <<slots, age, due, ota, asking, order, hurried>>

----------------------------------------------------------------------------
(* OTA: ArduinoOTA.handle() calls back from the loop() of its module       *)

\* loop_all during an update: only the modules that may, due or not
OtaPass ==
  /\ \/ pc = "pass" /\ ~pending
     \/ pc = "begin"
  /\ ota
  /\ pc' = "ota"
  /\ todo' = SelectSeq(Slots, LAMBDA m : m \in DuringOta \ quarantined)
  /\ UNCHANGED <<slots, times, gates, asking, order, k, hurried>>

OtaLoop ==
  /\ pc = "ota" /\ todo # <<>>
  /\ todo' = Tail(todo)
  /\ UNCHANGED <<slots, times, gates, asking, order, pc, k, hurried>>

OtaPassEnd ==
  /\ pc = "ota" /\ todo = <<>>
  /\ next_loop_due' = at
  /\ EndPass
  /\ UNCHANGED <<slots, age, due, gates, asking, order, hurried>>

InOtaModule == \/ pc = "loop" /\ order[k] \in DuringOta
               \/ pc = "ota" /\ todo # <<>>

\* onStart with its wake(): everything is due
OtaStart ==
  /\ InOtaModule /\ ~ota
  /\ ota' = TRUE
  /\ due' = [m \in Modules |-> IF m \in ToSet(order) THEN 0 ELSE due[m]]
  /\ next_loop_due' = 0
  /\ hurried' = hurried \cup ToSet(order)
  /\ UNCHANGED <<slots, age, at, applied, unmet>>
  /\ UNCHANGED <<asking, walking>>

\* onError; after onEnd the device restarts
OtaError ==
  /\ InOtaModule /\ ota
  /\ ota' = FALSE
  /\ UNCHANGED <<slots, times, unmet, asking, walking, hurried>>

----------------------------------------------------------------------------
\* pre_wifi_all, with or without safe mode.  boot stands for the time setup()
\* takes: the times of every module and of the loop are 0 on the clock.
Init ==
  /\ quarantined \in {{}, Modules \ Core}
  /\ looping = HasLoop \ quarantined
  /\ interval = [m \in Modules |-> LoopIntervalFrom(LoopInterval[m])]
  /\ order \in UNION {[1..n -> looping] : n \in 0..Len(Slots)}
  /\ ToSet(order) = looping
  /\ \A i, j \in DOMAIN order : i < j => SlotOf(order[i]) < SlotOf(order[j])
  /\ \E boot \in 0 .. Away :
       /\ age = [m \in Modules |-> Lesser(boot, AgeMax)]
       /\ due = [m \in Modules |-> -boot]
       /\ next_loop_due = -boot
  /\ request = [m \in Modules |-> NoRequest]
  /\ pending = FALSE
  /\ unmet = {} /\ ota = FALSE
  /\ pc = "idle" /\ at = 0 /\ applied = 0 /\ todo = <<>>
  /\ k = 0
  /\ hurried = Modules

LoopTask == \/ PassStart \/ ApplyStart \/ ApplySlot \/ RebuildStart \/ RebuildSlot
            \/ ApplyEnd \/ WalkStart
            \/ Defer \/ (\E m \in Modules : Fire(m)) \/ Fired \/ WalkEnd
            \/ OtaPass \/ OtaLoop \/ OtaPassEnd

Ask == \E m \in Modules, ms \in Asked : SetLoopInterval(m, ms)

Next == LoopTask \/ Ask \/ Tick \/ OtaStart \/ OtaError

Spec == Init /\ [][Next]_vars

\* The Arduino core calls loop() for ever, a module's loop() returns, and time
\* passes; the modules ask as they like.
FairSpec == Spec /\ WF_vars(LoopTask) /\ WF_vars(Tick)

----------------------------------------------------------------------------
Distances == -Half .. Half - 1
Loops == {"idle", "pass", "apply", "rebuild", "begin", "walk", "loop", "ota"}

TypeOK ==
  /\ quarantined \subseteq Modules /\ looping \subseteq Modules
  /\ interval \in [Modules -> 1..MaxInterval]
  /\ age \in [Modules -> 0..AgeMax]
  /\ due \in [Modules -> Distances]
  /\ order \in Seq(Modules)
  /\ next_loop_due \in Distances
  /\ request \in [Modules -> Asked \cup {NoRequest}]
  /\ pending \in BOOLEAN
  /\ unmet \subseteq Gates /\ ota \in BOOLEAN
  /\ pc \in Loops
  /\ at \in -Stall..0 /\ applied \in -Stall..0
  /\ todo \in Seq(Modules) 
  /\ k \in Nat /\ hurried \subseteq Modules

\* The loop task and the tasks that ask never lose a request between them: one
\* that is not taken yet is announced, or lies ahead of the slot being taken.
NoLostRequest ==
  \A m \in Modules :
    request[m] # NoRequest => pending \/ (pc = "apply" /\ m \in ToSet(todo))

\* No module oversleeps: the loop is due before any module is, and never
\* further ahead than WakeMax, where it sees the requests of the other tasks.
NoOversleep ==
  pc = "idle" => /\ next_loop_due <= WakeMax
                 /\ next_loop_due > 0 =>
                      \A m \in looping : Signed(next_loop_due - due[m]) <= 0

\* A module is never due later than its interval says, however long it was off:
\* a due time that old would be ahead of the clock again.
DueInTime == pc = "idle" => \A m \in looping : due[m] <= interval[m]

\* Both: the loop wakes in time for what is due and for what is asked.
WakesInTime == NoOversleep /\ DueInTime

\* A module that safe mode keeps out never loops, whoever asks for it.
QuarantineHolds == looping \cap quarantined = {}

\* loop() is not called before its interval is over, except for the first time
\* and after wake().
NeverEarly ==
  [][\A m \in Modules : Fire(m) => m \in hurried \/ age[m] + at >= interval[m]]_vars

\* A walk leaves nothing behind that was due when it started.
WalkIsComplete ==
  [][WalkEnd => \A m \in looping : Signed(due[m] - at) > 0]_vars

\* What every module relies on: while it loops and its gates are open its
\* loop() is called again and again, whatever the others ask for, if they do
\* not ask for ever.
Open(m) == m \in looping /\ ~Closed(m) /\ ~ota
KeepsLooping ==
  <>[][~Ask]_vars =>
    \A m \in Modules : <>[]Open(m) => []<>(pc = "loop" /\ order[k] = m)

\* A request is taken, in the next pass but one at the latest.
RequestsAreTaken ==
  \A m \in Modules : []<>(request[m] = NoRequest)
=============================================================================
