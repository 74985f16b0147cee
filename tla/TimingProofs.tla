------------------------------ MODULE TimingProofs ------------------------------
(***************************************************************************)
(* What is proved of the parts that clocks, timers and interrupts drive.   *)
(*                                                                         *)
(* Of the module scheduler, for any modules, gates, intervals and requests *)
(* and for a clock of any width:                                           *)
(*   - no request to change an interval is lost between the tasks;         *)
(*   - safe mode's quarantine holds whoever asks;                          *)
(*   - no loop() is called before its interval is over;                    *)
(*   - the loop wakes before any module is due, and soon enough to see     *)
(*     the requests;                                                       *)
(*   - a walk leaves no module behind that was due.                        *)
(*                                                                         *)
(* Of the pulses of the high voltage, for any clock, periods, duties and   *)
(* lateness: the timeline stands, the pin gets low in every period, and    *)
(* what late edges added is paid back.                                     *)
(*                                                                         *)
(* Of the commands to the NMI, for any pins and slots: every caller's      *)
(* answer is true, and nothing waits on a timer that is not armed.         *)
(*                                                                         *)
(* Of the push button, for any pins and times: a press is told once, and   *)
(* the alarms ring unless somebody pressed.                                *)
(***************************************************************************)
EXTENDS ModuleRegistry, PwmTrain, EdgeCommands, PushButton, FiniteSetTheorems, SequenceTheorems, TLAPS

(* The requests: one that is not taken is announced or ahead of            *)
(* apply_pending, and there never is one of a quarantined module.          *)
RequestInv ==
  /\ request \in [Modules -> Asked \cup {NoRequest}]
  /\ pc = "apply" => todo \in Seq(Modules)
  /\ NoLostRequest
  /\ \A m \in quarantined \cap Modules : request[m] = NoRequest
  /\ QuarantineHolds

(* The times.  A module that is not hurried waits at least until the rest  *)
(* of its interval is over, but for the one whose loop() is being called.  *)
Waits(m) ==
  \/ age[m] = AgeMax
  \/ due[m] >= interval[m] - age[m]

TimeInv ==
  /\ interval \in [Modules -> 1..MaxInterval]
  /\ age \in [Modules -> 0..AgeMax]
  /\ due \in [Modules -> Distances]
  /\ at \in -Stall..0 /\ applied \in at..0
  /\ looping \subseteq Modules
  /\ \A m \in looping : due[m] \in -(Away + Stall)..MaxInterval
  /\ \A m \in looping \ hurried : Waits(m) \/ (pc = "loop" /\ order[k] = m)
  /\ pc = "loop" /\ order[k] \in Modules => age[order[k]] >= -at

(* The order: off apply_pending it holds no module that does not loop.      *)
OrderInv ==
  /\ order \in Seq(Modules)
  /\ pc # "apply" => ToSet(order) \subseteq looping
  /\ pc = "rebuild" => todo \in Seq(Modules)
  /\ pc = "walk" => k \in 1..Len(order)+1
  /\ pc = "loop" => k \in 1..Len(order)

----------------------------------------------------------------------------
\* A residue is its own remainder.
LEMMA ModSmall == ASSUME NEW n \in Nat, n > 0, NEW a \in 0..n-1 PROVE a % n = a
  BY SMT

(* The casts change nothing within half the clock's range. *)
LEMMA SignedSmall == ASSUME NEW x \in -Half..Half-1 PROVE Signed(x) = x
<1>1. Half \in Nat BY TimeAssumption
<1>2. x + Half \in 0..(2*Half)-1 BY <1>1
<1>3. (x + Half) % (2 * Half) = x + Half
  <2>1. 2 * Half \in Nat /\ 2 * Half > 0 BY <1>1
  <2> QED BY <1>2, <2>1, ModSmall
<1> QED BY <1>1, <1>3 DEF Signed

\* The cast of any difference is a distance.
LEMMA SignedRange == ASSUME NEW x \in Int PROVE Signed(x) \in Distances
<1>1. Half \in Nat /\ Half > 0 BY TimeAssumption
<1>2. (x + Half) % (2 * Half) \in 0..(2 * Half)-1
  <2>1. 2 * Half \in Nat /\ 2 * Half > 0 /\ x + Half \in Int BY <1>1
  <2> QED BY <2>1
<1> QED BY <1>1, <1>2 DEF Signed, Distances

\* Every interval asked for is cut to 1..MaxInterval (set_loop_interval, begin).
LEMMA IntervalRange ==
  ASSUME NEW ms \in Int PROVE LoopIntervalFrom(ms) \in 1..MaxInterval
BY TimeAssumption DEF LoopIntervalFrom, Lesser

----------------------------------------------------------------------------
(* Requests                                                                *)

\* begin() leaves no request behind.
LEMMA RequestInit == Init => RequestInv
BY DEF Init, RequestInv, NoLostRequest, QuarantineHolds

\* Every step of the loop task, and every request of another, keeps the requests.
LEMMA RequestStep == RequestInv /\ [Next]_vars => RequestInv'
<1> SUFFICES ASSUME RequestInv, [Next]_vars PROVE RequestInv'
  OBVIOUS
<1> USE DEF RequestInv, NoLostRequest, QuarantineHolds
<1>1. ASSUME NEW m \in Modules, NEW ms \in Asked, SetLoopInterval(m, ms)
      PROVE RequestInv'
  BY <1>1 DEF SetLoopInterval, slots, times, gates, walking
<1>2. CASE ApplyStart
  BY <1>2, ModuleAssumption DEF ApplyStart, slots, gates, Modules, ToSet
<1>3. CASE ApplySlot
  <2> DEFINE m == Head(todo)
             ms == request[m]
  <2>1. m \in Modules /\ todo \in Seq(Modules) /\ todo # <<>>
    BY <1>3 DEF ApplySlot
  <2>2. todo' = Tail(todo) /\ pc' = pc /\ pending' = pending
    BY <1>3 DEF ApplySlot
  <2>3. ToSet(todo) \subseteq ToSet(todo') \cup {m}
    <3>1. ASSUME NEW i \in 1..Len(todo), i # 1 PROVE todo[i] \in ToSet(todo')
      <4>1. i - 1 \in 1..Len(Tail(todo)) /\ Tail(todo)[i - 1] = todo[i]
        BY <2>1, <3>1
      <4>2. DOMAIN Tail(todo) = 1..Len(Tail(todo))
        BY <2>1
      <4> QED BY <2>2, <4>1, <4>2 DEF ToSet
    <3> QED BY <2>1, <3>1 DEF ToSet
  <2>4. request' = [request EXCEPT ![m] = NoRequest] /\ quarantined' = quarantined
    BY <1>3 DEF ApplySlot
  <2>5. looping' \subseteq looping \/ (ms >= 0 /\ looping' = looping \cup {m})
    BY <1>3 DEF ApplySlot
  <2>6. ms >= 0 => ms # NoRequest
    BY DEF NoRequest
  <2>7. QuarantineHolds'
    BY <2>1, <2>4, <2>5, <2>6
  <2>8. todo' \in Seq(Modules)
    BY <2>1, <2>2
  <2>9. NoLostRequest'
    BY <2>2, <2>3, <2>4
  <2> QED BY <2>2, <2>4, <2>7, <2>8, <2>9
<1>4. CASE RebuildStart \/ RebuildSlot
  BY <1>4 DEF RebuildStart, RebuildSlot, slots, times, gates, asking, ToSet
<1>5. CASE OtaLoop
  BY <1>5 DEF OtaLoop, slots, times, gates, asking
<1>6. CASE PassStart \/ WalkStart \/ OtaPass
  BY <1>6 DEF PassStart, WalkStart, OtaPass, slots, times, gates, asking
<1>7. CASE Defer \/ Fired \/ (\E m \in Modules : Fire(m))
  BY <1>7 DEF Defer, Fired, Fire, MoveOn, AtDueModule, slots, gates, asking
<1>8. CASE ApplyEnd \/ WalkEnd \/ OtaPassEnd
  BY <1>8 DEF ApplyEnd, WalkEnd, OtaPassEnd, EndPass, slots, gates, asking
<1>9. CASE OtaStart \/ OtaError
  BY <1>9 DEF OtaStart, OtaError, slots, times, asking, walking
<1>10. CASE Tick
  BY <1>10 DEF Tick, slots, gates, asking, walking
<1>11. CASE UNCHANGED vars
  BY <1>11 DEF vars, slots, gates, asking, walking
<1> QED
  BY <1>1, <1>2, <1>3, <1>4, <1>5, <1>6, <1>7, <1>8, <1>9, <1>10, <1>11
     DEF Next, LoopTask, Ask

\* The requests are safe in every state.
THEOREM RequestInductive == Spec => []RequestInv
BY RequestInit, RequestStep, PTL DEF Spec

(* set_loop_interval and apply_pending: a request is announced or about to *)
(* be taken, at every moment of their interleaving.                        *)
THEOREM RequestsKept == Spec => []NoLostRequest
<1>1. RequestInv => NoLostRequest BY DEF RequestInv
<1> QED BY <1>1, RequestInductive, PTL

(* set_loop_interval: no request makes a quarantined module loop.          *)
THEOREM Quarantined == Spec => []QuarantineHolds
<1>1. RequestInv => QuarantineHolds BY DEF RequestInv
<1> QED BY <1>1, RequestInductive, PTL

----------------------------------------------------------------------------
(* Times                                                                   *)

\* begin() starts every module at a due time near now.
LEMMA TimeInit == Init => TimeInv
<1> SUFFICES ASSUME Init PROVE TimeInv
  OBVIOUS
<1>1. PICK boot \in 0..Away : /\ age = [m \in Modules |-> Lesser(boot, AgeMax)]
                              /\ due = [m \in Modules |-> -boot]
  BY DEF Init
<1>2. interval \in [Modules -> 1..MaxInterval]
  BY IntervalRange, ModuleAssumption DEF Init
<1>3. AgeMax \in Nat /\ Stall \in Nat /\ Away \in Nat
  BY TimeAssumption DEF AgeMax
<1>4. age \in [Modules -> 0..AgeMax] /\ due \in [Modules -> Distances]
  BY <1>1, <1>3, TimeAssumption DEF Lesser, Distances
<1>5. looping \subseteq Modules /\ hurried = Modules
  BY ModuleAssumption DEF Init
<1>6. at = 0 /\ applied = 0 /\ pc = "idle"
  BY DEF Init
<1>7. \A m \in looping : due[m] \in -(Away + Stall)..MaxInterval
  BY <1>1, <1>3, <1>5, TimeAssumption
<1> QED BY <1>2, <1>3, <1>4, <1>5, <1>6, <1>7 DEF TimeInv

\* The facts about the constants that the steps need.
LEMMA Widths ==
  /\ Half \in Nat /\ MaxInterval \in Nat \ {0} /\ RetryMax \in Nat \ {0}
  /\ Stall \in Nat /\ Away \in Nat /\ AgeMax \in Nat
  /\ AgeMax = MaxInterval + Stall
  /\ MaxInterval + RetryMax + 2 * Stall + Away < Half
BY TimeAssumption DEF AgeMax

\* A due time that is near needs no cast.
LEMMA NearDistances == -(Away + Stall)..MaxInterval \subseteq Distances
BY Widths DEF Distances

\* A step that leaves the times and the walk as they are.
LEMMA TimeKept ==
  ASSUME TimeInv, UNCHANGED <<interval, age, due, at, applied, looping>>,
         hurried \subseteq hurried', UNCHANGED <<order, k>>,
         (pc = "loop") = (pc' = "loop")
  PROVE  TimeInv'
BY DEF TimeInv, Waits

\* The clock moves on: ages and due times move with it, and no looping one wraps.
LEMMA TimeTick == ASSUME TimeInv, RequestInv, Tick PROVE TimeInv'
<1> USE DEF TimeInv, Waits
<1>1. at' \in -Stall..0 /\ applied' \in at'..0
  BY Widths DEF Tick
<1>2. age' \in [Modules -> 0..AgeMax]
  BY Widths DEF Tick, Lesser
<1>3. due' \in [Modules -> Distances]
  <2>1. due' = [m \in Modules |-> Signed(due[m] - 1)]
    BY DEF Tick
  <2> QED BY <2>1, SignedRange DEF Distances
<1>4. UNCHANGED <<interval, looping, hurried, pc, order, k>>
  BY DEF Tick, slots, walking
<1>5. ASSUME NEW m \in looping \ hurried PROVE Waits(m)' \/ (pc = "loop" /\ order[k] = m)
  <2>1. m \in Modules
    OBVIOUS
  <2>2. CASE pc = "loop" /\ order[k] = m
    BY <2>2
  <2>3. CASE age[m] = AgeMax
    BY <1>4, <2>1, <2>3, Widths DEF Tick, Lesser
  <2>4. CASE due[m] >= interval[m] - age[m]
    <3>1. due[m] - 1 \in -Half..Half-1
      BY <2>1, Widths DEF Tick, Distances
    <3>2. age'[m] = Lesser(age[m] + 1, AgeMax) /\ due'[m] = Signed(due[m] - 1)
      BY <2>1 DEF Tick
    <3>3. due'[m] = due[m] - 1 /\ interval'[m] = interval[m]
      BY <1>4, <3>1, <3>2, SignedSmall
    <3>4. age[m] \in Nat /\ due[m] \in Int /\ interval[m] \in Nat
      BY <2>1, Widths DEF Distances
    <3>5. age'[m] = AgeMax \/ age'[m] = age[m] + 1
      BY <3>2 DEF Lesser
    <3>6. age'[m] = AgeMax \/ due'[m] >= interval'[m] - age'[m]
      BY <2>4, <3>3, <3>4, <3>5
    <3> QED BY <3>6
  <2> QED BY <1>5, <2>2, <2>3, <2>4
<1>6. pc = "loop" /\ order[k] \in Modules => age'[order[k]] >= -at'
  BY Widths DEF Tick, Lesser
<1>7. ASSUME NEW m \in looping PROVE due'[m] \in -(Away + Stall)..MaxInterval
  <2>1. due[m] - 1 \in -Half..Half-1 /\ due'[m] = Signed(due[m] - 1)
    BY <1>7, Widths DEF Tick, Distances
  <2>2. due'[m] = due[m] - 1
    BY <2>1, SignedSmall
  <2> QED BY <1>7, <2>2, Widths DEF Tick
<1> QED BY <1>1, <1>2, <1>3, <1>4, <1>5, <1>6, <1>7

----------------------------------------------------------------------------
(* The order                                                               *)

\* A sequence's element is in its set.
LEMMA ToSetHas ==
  ASSUME NEW S, NEW list \in Seq(S), NEW i \in 1..Len(list)
  PROVE  list[i] \in ToSet(list)
  BY DEF ToSet

\* An insertion adds one element, and the others keep their order.
LEMMA InsertAtKeeps ==
  ASSUME NEW S, NEW list \in Seq(S), NEW e \in S, NEW i \in 1..Len(list)+1
  PROVE  /\ InsertAt(list, i, e) \in Seq(S)
         /\ ToSet(InsertAt(list, i, e)) = ToSet(list) \cup {e}
         /\ Len(InsertAt(list, i, e)) = Len(list) + 1
         /\ InsertAt(list, i, e)[i] = e
         /\ \A j \in 1..i-1 : InsertAt(list, i, e)[j] = list[j]
         /\ \A j \in i+1..Len(list)+1 : InsertAt(list, i, e)[j] = list[j-1]
<1> DEFINE a == SubSeq(list, 1, i - 1)
           b == SubSeq(list, i, Len(list))
           r == InsertAt(list, i, e)
<1>1. a \in Seq(S) /\ Len(a) = i - 1 /\ \A j \in 1..i-1 : a[j] = list[j]
  OBVIOUS
<1>2. /\ b \in Seq(S) /\ Len(b) = Len(list) - i + 1
      /\ \A j \in 1..Len(b) : b[j] = list[i + j - 1]
  OBVIOUS
<1>3. r = a \o <<e>> \o b
  BY DEF InsertAt
<1> HIDE DEF a, b, r
<1> DEFINE ae == a \o <<e>>
<1>a. /\ ae \in Seq(S) /\ Len(ae) = i /\ ae[i] = e
      /\ \A j \in 1..i-1 : ae[j] = list[j]
  BY <1>1
<1> HIDE DEF ae
<1>4. r \in Seq(S) /\ Len(r) = Len(list) + 1
  <2>1. r = ae \o b BY <1>3 DEF ae
  <2>2. ae \o b \in Seq(S) /\ Len(ae \o b) = Len(ae) + Len(b)
    BY <1>2, <1>a, ConcatProperties
  <2> QED BY <1>2, <1>a, <2>1, <2>2
<1>b. \A j \in 1..Len(list)+1 : r[j] = IF j <= i THEN ae[j] ELSE b[j - i]
  <2>1. r = ae \o b BY <1>3 DEF ae
  <2> QED BY <1>2, <1>a, <2>1, ConcatProperties
<1>5. \A j \in 1..i-1 : r[j] = list[j]
  BY <1>a, <1>b
<1>6. r[i] = e
  BY <1>a, <1>b
<1>7. ASSUME NEW j \in i..Len(list) PROVE r[j + 1] = list[j]
  <2>a. i \in Int /\ j \in Int /\ Len(list) \in Nat
    OBVIOUS
  <2>b. j + 1 \in 1..Len(list)+1 /\ ~(j + 1 <= i)
    BY <2>a
  <2>c. r[j + 1] = b[j + 1 - i]
    BY <1>b, <2>b
  <2>d. Len(b) = Len(list) - i + 1
    BY <1>2
  <2>e. j + 1 - i \in 1..Len(b)
    BY <2>a, <2>d
  <2>1. r[j + 1] = b[j + 1 - i] /\ j + 1 - i \in 1..Len(b)
    BY <2>c, <2>e
  <2>2. b[j + 1 - i] = list[i + (j + 1 - i) - 1] BY <1>2, <2>1
  <2>3. i + (j + 1 - i) - 1 = j OBVIOUS
  <2> QED BY <2>1, <2>2, <2>3
<1>8. ToSet(r) \subseteq ToSet(list) \cup {e}
  <2>1. ASSUME NEW j \in 1..Len(r) PROVE r[j] \in ToSet(list) \cup {e}
    <3>1. CASE j < i
      <4>1. j \in 1..i-1 /\ j \in 1..Len(list) BY <3>1
      <4> QED BY <1>5, <4>1, ToSetHas
    <3>2. CASE j = i BY <1>6, <3>2
    <3>3. CASE j > i
      <4>1. j - 1 \in i..Len(list) /\ j = (j - 1) + 1 BY <1>4, <3>3
      <4>2. r[j] = list[j - 1] BY <1>7, <4>1
      <4>3. j - 1 \in 1..Len(list) BY <4>1
      <4> QED BY <4>2, <4>3, ToSetHas
    <3> QED BY <3>1, <3>2, <3>3
  <2> QED BY <1>4, <2>1 DEF ToSet
<1>9. ToSet(list) \cup {e} \subseteq ToSet(r)
  <2>1. ASSUME NEW j \in 1..Len(list) PROVE list[j] \in ToSet(r)
    <3>1. CASE j < i
      <4>1. r[j] = list[j] /\ j \in 1..Len(r) BY <1>4, <1>5, <3>1
      <4>2. r[j] \in ToSet(r) BY <1>4, <4>1, ToSetHas
      <4> QED BY <4>1, <4>2
    <3>2. CASE j >= i
      <4>1. r[j + 1] = list[j] /\ j + 1 \in 1..Len(r) BY <1>4, <1>7, <3>2
      <4>2. r[j + 1] \in ToSet(r) BY <1>4, <4>1, ToSetHas
      <4> QED BY <4>1, <4>2
    <3> QED BY <3>1, <3>2
  <2>2. e \in ToSet(r)
    <3>1. i \in 1..Len(r) BY <1>4
    <3> QED BY <1>4, <1>6, <3>1, ToSetHas
  <2> QED BY <2>1, <2>2 DEF ToSet
<1>10. ASSUME NEW j \in i+1..Len(list)+1 PROVE r[j] = list[j-1]
  <2>1. j - 1 \in i..Len(list) /\ j = (j - 1) + 1 OBVIOUS
  <2> QED BY <1>7, <2>1
<1> QED BY <1>4, <1>5, <1>6, <1>8, <1>9, <1>10 DEF r

\* A removal adds none and leaves one less, and the others keep their order.
LEMMA RemoveAtKeeps ==
  ASSUME NEW S, NEW list \in Seq(S), NEW i \in 1..Len(list)
  PROVE  /\ RemoveAt(list, i) \in Seq(S)
         /\ ToSet(RemoveAt(list, i)) \subseteq ToSet(list)
         /\ ToSet(list) \subseteq ToSet(RemoveAt(list, i)) \cup {list[i]}
         /\ Len(RemoveAt(list, i)) = Len(list) - 1
         /\ \A j \in 1..i-1 : RemoveAt(list, i)[j] = list[j]
         /\ \A j \in i..Len(list)-1 : RemoveAt(list, i)[j] = list[j+1]
<1> DEFINE a == SubSeq(list, 1, i - 1)
           b == SubSeq(list, i + 1, Len(list))
           r == RemoveAt(list, i)
<1>1. a \in Seq(S) /\ Len(a) = i - 1 /\ \A j \in 1..i-1 : a[j] = list[j]
  OBVIOUS
<1>2. /\ b \in Seq(S) /\ Len(b) = Len(list) - i
      /\ \A j \in 1..Len(b) : b[j] = list[i + j]
  OBVIOUS
<1>3. r = a \o b
  BY DEF RemoveAt
<1> HIDE DEF a, b, r
<1>4. /\ r \in Seq(S) /\ Len(r) = Len(list) - 1
      /\ \A j \in 1..Len(list)-1 : r[j] = IF j <= i - 1 THEN a[j] ELSE b[j - (i - 1)]
  <2>1. /\ a \o b \in Seq(S) /\ Len(a \o b) = Len(a) + Len(b)
        /\ \A j \in 1..Len(a)+Len(b) : (a \o b)[j] = IF j <= Len(a) THEN a[j] ELSE b[j - Len(a)]
    BY <1>1, <1>2, ConcatProperties
  <2>2. Len(a) + Len(b) = Len(list) - 1 BY <1>1, <1>2
  <2> QED BY <1>1, <1>3, <2>1, <2>2
<1>5. ASSUME NEW j \in 1..Len(r) PROVE r[j] \in ToSet(list)
  <2>1. CASE j < i
    <3>1. j \in 1..i-1 /\ j \in 1..Len(list)-1 /\ j \in 1..Len(list) BY <1>4, <2>1
    <3>2. r[j] = a[j] BY <1>4, <3>1
    <3>3. r[j] = list[j] BY <1>1, <3>1, <3>2
    <3> QED BY <3>1, <3>3, ToSetHas
  <2>2. CASE j >= i
    <3>1. r[j] = b[j - (i - 1)] /\ j - (i - 1) \in 1..Len(b) BY <1>2, <1>4, <2>2
    <3>2. b[j - (i - 1)] = list[i + (j - (i - 1))] BY <1>2, <3>1
    <3>3. i + (j - (i - 1)) \in 1..Len(list) BY <1>2, <3>1
    <3> QED BY <3>1, <3>2, <3>3, ToSetHas
  <2> QED BY <2>1, <2>2
<1>6. ToSet(r) \subseteq ToSet(list)
  BY <1>4, <1>5 DEF ToSet
<1>7. \A j \in 1..i-1 : r[j] = list[j]
  <2>1. ASSUME NEW j \in 1..i-1 PROVE r[j] = list[j]
    <3>1. j \in 1..Len(list)-1 /\ j <= i - 1
      OBVIOUS
    <3>2. r[j] = a[j]
      BY <1>4, <3>1
    <3> QED BY <1>1, <3>2
  <2> QED BY <2>1
<1>8. ASSUME NEW j \in i..Len(list)-1 PROVE r[j] = list[j+1]
  <2>1. r[j] = b[j - (i - 1)] /\ j - (i - 1) \in 1..Len(b) BY <1>2, <1>4
  <2>2. b[j - (i - 1)] = list[i + (j - (i - 1))] BY <1>2, <2>1
  <2>3. i + (j - (i - 1)) = j + 1 OBVIOUS
  <2> QED BY <2>1, <2>2, <2>3
<1>9. ASSUME NEW j \in 1..Len(list) PROVE list[j] \in ToSet(r) \cup {list[i]}
  <2>1. CASE j < i
    <3>1. j \in 1..Len(r) /\ r[j] = list[j] BY <1>4, <1>7, <2>1
    <3>2. r[j] \in ToSet(r) BY <1>4, <3>1, ToSetHas
    <3> QED BY <3>1, <3>2
  <2>2. CASE j > i
    <3>1. j - 1 \in i..Len(list)-1 /\ j - 1 \in 1..Len(r) /\ j = (j - 1) + 1 BY <1>4, <2>2
    <3>2. r[j - 1] = list[j] BY <1>8, <3>1
    <3>3. r[j - 1] \in ToSet(r) BY <1>4, <3>1, ToSetHas
    <3> QED BY <3>2, <3>3
  <2> QED BY <2>1, <2>2
<1>10. ToSet(list) \subseteq ToSet(r) \cup {list[i]}
  BY <1>9 DEF ToSet
<1> QED BY <1>4, <1>6, <1>7, <1>8, <1>10 DEF r

\* A part of an interval has no more elements than the interval.
LEMMA PartOfInterval ==
  ASSUME NEW a \in Nat, NEW b \in Nat, NEW S \in SUBSET (a + 1 .. b)
  PROVE  Cardinality(S) \in 0 .. (IF a <= b THEN b - a ELSE 0)
<1>1. IsFiniteSet(a + 1 .. b) /\
      Cardinality(a + 1 .. b) = IF a + 1 <= b THEN b - (a + 1) + 1 ELSE 0
  BY FS_Interval
<1>2. IsFiniteSet(S) /\ Cardinality(S) <= Cardinality(a + 1 .. b)
  BY <1>1, FS_Subset
<1>3. Cardinality(S) \in Nat
  BY <1>2, FS_CardinalityType
<1> QED BY <1>1, <1>2, <1>3

\* insert_due adds the module to the order and takes none out.
LEMMA InsertKeeps ==
  ASSUME NEW list \in Seq(Modules), NEW m \in Modules
  PROVE  /\ Insert(list, m) \in Seq(Modules)
         /\ ToSet(Insert(list, m)) = ToSet(list) \cup {m}
<1> DEFINE before == {j \in 1 .. Len(list) : Signed(due[list[j]] - due[m]) <= 0}
<1>1. before \in SUBSET (0 + 1 .. Len(list))
  OBVIOUS
<1>2. Cardinality(before) \in 0..Len(list)
  <2>1. 0 \in Nat /\ Len(list) \in Nat /\ 0 <= Len(list) /\ Len(list) - 0 = Len(list)
    OBVIOUS
  <2> HIDE DEF before
  <2> QED BY <1>1, <2>1, PartOfInterval
<1> HIDE DEF before
<1>3. Cardinality(before) + 1 \in 1..Len(list)+1
  BY <1>2
<1>4. Insert(list, m) = InsertAt(list, Cardinality(before) + 1, m)
  BY DEF Insert, before
<1> QED BY <1>3, <1>4, InsertAtKeeps

\* sift_due moves a module: it adds none and takes none out.
LEMMA SiftedKeeps ==
  ASSUME NEW list \in Seq(Modules), NEW d, NEW i \in 1..Len(list)
  PROVE  /\ Sifted(list, d, i) \in Seq(Modules)
         /\ ToSet(Sifted(list, d, i)) = ToSet(list)
         /\ Len(Sifted(list, d, i)) = Len(list)
<1> DEFINE passed == {j \in i + 1 .. Len(list) : Signed(d[list[i]] - d[list[j]]) > 0}
<1>1. passed \in SUBSET (i + 1 .. Len(list))
  OBVIOUS
<1> HIDE DEF passed
<1>2. Cardinality(passed) \in 0..Len(list)-i
  BY <1>1, PartOfInterval
<1>3. SiftTo(list, d, i) = i + Cardinality(passed)
  BY DEF SiftTo, passed
<1>4. SiftTo(list, d, i) \in 1..Len(list)
  BY <1>2, <1>3
<1> DEFINE rest == RemoveAt(list, i)
<1>5. /\ rest \in Seq(Modules) /\ Len(rest) = Len(list) - 1
      /\ ToSet(rest) \subseteq ToSet(list) /\ ToSet(list) \subseteq ToSet(rest) \cup {list[i]}
  BY RemoveAtKeeps
<1>6. list[i] \in Modules /\ list[i] \in ToSet(list)
  BY DEF ToSet
<1>7. Sifted(list, d, i) = InsertAt(rest, SiftTo(list, d, i), list[i])
  BY DEF Sifted
<1> HIDE DEF rest
<1>8. SiftTo(list, d, i) \in 1..Len(rest)+1
  <2>1. Len(list) \in Nat
    OBVIOUS
  <2>2. Len(rest) + 1 = Len(list)
    BY <1>5, <2>1
  <2> QED BY <1>4, <2>2
<1>9. /\ InsertAt(rest, SiftTo(list, d, i), list[i]) \in Seq(Modules)
      /\ ToSet(InsertAt(rest, SiftTo(list, d, i), list[i])) = ToSet(rest) \cup {list[i]}
      /\ Len(InsertAt(rest, SiftTo(list, d, i), list[i])) = Len(rest) + 1
  <2> DEFINE place == SiftTo(list, d, i)
             moved == list[i]
  <2>1. moved \in Modules /\ place \in 1..Len(rest)+1 /\ rest \in Seq(Modules)
    BY <1>5, <1>6, <1>8
  <2> HIDE DEF place, moved
  <2>2. /\ InsertAt(rest, place, moved) \in Seq(Modules)
        /\ ToSet(InsertAt(rest, place, moved)) = ToSet(rest) \cup {moved}
        /\ Len(InsertAt(rest, place, moved)) = Len(rest) + 1
    BY <2>1, InsertAtKeeps
  <2> QED BY <2>2 DEF place, moved
<1> QED BY <1>5, <1>6, <1>7, <1>9

\* begin() orders the modules that loop.
LEMMA OrderInit == Init => OrderInv
<1> SUFFICES ASSUME Init PROVE OrderInv
  OBVIOUS
<1>1. PICK n \in 0..Len(Slots) : order \in [1..n -> looping]
  BY DEF Init
<1>2. pc = "idle" /\ ToSet(order) = looping /\ looping \subseteq Modules
  BY ModuleAssumption DEF Init
<1>3. n \in Nat
  BY ModuleAssumption
<1>4. order \in Seq(Modules)
  BY <1>1, <1>2, <1>3
<1> QED BY <1>2, <1>4 DEF OrderInv

\* Every step keeps a module that does not loop out of the order.
LEMMA OrderStep == OrderInv /\ RequestInv /\ [Next]_vars => OrderInv'
<1> SUFFICES ASSUME OrderInv, RequestInv, [Next]_vars PROVE OrderInv'
  OBVIOUS
<1> USE DEF OrderInv
<1>1. ASSUME NEW m \in Modules, NEW ms \in Asked, SetLoopInterval(m, ms)
      PROVE OrderInv'
  BY <1>1 DEF SetLoopInterval, slots, walking
<1>2. CASE ApplyStart
  BY <1>2 DEF ApplyStart, slots
<1>3. CASE ApplySlot
  BY <1>3 DEF ApplySlot
<1>4. CASE RebuildStart
  BY <1>4, ModuleAssumption DEF RebuildStart, slots, ToSet
<1>5. CASE RebuildSlot
  <2>1. /\ Head(todo) \in Modules /\ Tail(todo) \in Seq(Modules)
        /\ todo' = Tail(todo) /\ pc' = "rebuild" /\ looping' = looping
        /\ order' = IF Head(todo) \in looping THEN Insert(order, Head(todo)) ELSE order
    BY <1>5 DEF RebuildSlot, slots
  <2>2. order' \in Seq(Modules) /\ ToSet(order') \subseteq looping
    <3>1. CASE Head(todo) \in looping
      <4>1. order' = Insert(order, Head(todo))
        BY <2>1, <3>1
      <4>2. ToSet(order) \subseteq looping
        BY <1>5 DEF RebuildSlot
      <4> HIDE DEF OrderInv
      <4>3. order \in Seq(Modules)
        BY DEF OrderInv
      <4>4. /\ Insert(order, Head(todo)) \in Seq(Modules)
            /\ ToSet(Insert(order, Head(todo))) = ToSet(order) \cup {Head(todo)}
        BY <2>1, <4>3, InsertKeeps
      <4> QED BY <3>1, <4>1, <4>2, <4>4
    <3>2. CASE Head(todo) \notin looping
      BY <1>5, <2>1, <3>2 DEF RebuildSlot
    <3> QED BY <3>1, <3>2
  <2> QED BY <2>1, <2>2
<1>6. CASE ApplyEnd \/ WalkEnd \/ OtaPassEnd
  BY <1>6 DEF ApplyEnd, WalkEnd, OtaPassEnd, EndPass, slots
<1>7. CASE PassStart \/ WalkStart \/ OtaPass \/ OtaLoop
  BY <1>7 DEF PassStart, WalkStart, OtaPass, OtaLoop, slots
<1>8. CASE \E m \in Modules : Fire(m)
  BY <1>8 DEF Fire, AtDueModule, slots
<1>9. CASE Defer \/ Fired
  <2>1. /\ k \in 1..Len(order) /\ pc \in {"walk", "loop"} /\ pc' = "walk"
        /\ looping' = looping
    BY <1>9 DEF Defer, Fired, AtDueModule, slots
  <2>2. order' = Sifted(order, due', k) /\ k' \in {k, k + 1}
    BY <1>9 DEF Defer, Fired, MoveOn
  <2>3. order' \in Seq(Modules) /\ ToSet(order') \subseteq looping /\ Len(order') = Len(order)
    BY <2>1, <2>2, SiftedKeeps
  <2> QED BY <2>1, <2>2, <2>3
<1>10. CASE OtaStart \/ OtaError
  BY <1>10 DEF OtaStart, OtaError, slots, walking
<1>11. CASE Tick
  BY <1>11 DEF Tick, slots, walking
<1>12. CASE UNCHANGED vars
  BY <1>12 DEF vars, slots, walking
<1> QED
  BY <1>1, <1>2, <1>3, <1>4, <1>5, <1>6, <1>7, <1>8, <1>9, <1>10, <1>11, <1>12
     DEF Next, LoopTask, Ask

----------------------------------------------------------------------------
(* The times, step by step                                                 *)

\* apply_pending takes a request: the due time it sets is near and not too early.
LEMMA TimeApply == ASSUME TimeInv, RequestInv, ApplySlot PROVE TimeInv'
<1> DEFINE m == Head(todo)
           ms == request[m]
           every == LoopIntervalFrom(ms)
<1>1. m \in Modules /\ ms \in Int
  <2>1. todo \in Seq(Modules) /\ todo # <<>>
    BY DEF ApplySlot, RequestInv
  <2>2. m \in Modules
    BY <2>1
  <2>3. request[m] \in Asked \cup {NoRequest}
    BY <2>2 DEF RequestInv
  <2> HIDE DEF m
  <2>4. Asked \cup {NoRequest} \subseteq Int
    BY ModuleAssumption DEF Off, NoRequest
  <2> QED BY <2>2, <2>3, <2>4
<1> USE DEF TimeInv
<1>2. every \in 1..MaxInterval
  BY <1>1, IntervalRange
<1>3. UNCHANGED <<age, at, applied, hurried, pc, order, k>> /\ pc = "apply"
  BY DEF ApplySlot
<1> DEFINE d == IF applied + age[m] >= every THEN applied ELSE Signed(every - age[m])
<1>4. CASE ms >= 0
  <2>1. /\ looping' = looping \cup {m}
        /\ interval' = [interval EXCEPT ![m] = every]
        /\ due' = [due EXCEPT ![m] = d]
    BY <1>4 DEF ApplySlot
  <2> HIDE DEF m, every, d
  <2>2. d \in -(Away + Stall)..MaxInterval /\ (age[m] = AgeMax \/ d >= every - age[m])
    <3>1. age[m] \in 0..AgeMax
      BY <1>1
    <3>2. CASE applied + age[m] >= every
      BY <1>2, <3>1, <3>2, Widths DEF d
    <3>3. CASE ~(applied + age[m] >= every)
      <4>1. every - age[m] \in -Half..Half-1
        BY <1>2, <3>1, Widths
      <4>2. d = every - age[m]
        BY <3>3, <4>1, SignedSmall DEF d
      <4> QED BY <1>2, <3>1, <3>3, <4>2, Widths
    <3> QED BY <3>2, <3>3
  <2>3. d \in Distances
    BY <2>2, Widths DEF Distances
  <2>4. interval' \in [Modules -> 1..MaxInterval] /\ due' \in [Modules -> Distances]
    BY <1>1, <1>2, <2>1, <2>3
  <2>5. interval'[m] = every /\ due'[m] = d /\ age'[m] = age[m]
    BY <1>1, <1>3, <2>1
  <2>6. \A n \in Modules \ {m} : interval'[n] = interval[n] /\ due'[n] = due[n] /\ age'[n] = age[n]
    BY <1>1, <1>3, <2>1
  <2>7. \A n \in looping' : due'[n] \in -(Away + Stall)..MaxInterval
    BY <2>1, <2>2, <2>5, <2>6
  <2>8. \A n \in looping' \ hurried' : Waits(n)'
    BY <1>3, <2>1, <2>2, <2>5, <2>6 DEF Waits
  <2> QED BY <1>1, <1>3, <2>1, <2>4, <2>7, <2>8
<1>5. CASE ms < 0
  <2>1. looping' \subseteq looping /\ UNCHANGED <<interval, due>>
    BY <1>1, <1>5 DEF ApplySlot
  <2> QED BY <1>3, <2>1 DEF Waits
<1> QED BY <1>1, <1>4, <1>5

\* A step that starts no loop() and leaves the times of the modules.
LEMMA TimeEnd ==
  ASSUME TimeInv, UNCHANGED <<interval, age, due, looping, hurried>>,
         at' \in -Stall..0, applied' \in at'..0, pc # "loop", pc' # "loop"
  PROVE  TimeInv'
BY DEF TimeInv, Waits

\* Defer and Fired move the module at k: d is its new due time.
LEMMA TimeMove ==
  ASSUME TimeInv, NEW d \in -(Away + Stall)..MaxInterval, MoveOn(d),
         UNCHANGED <<interval, age, at, applied, looping, hurried>>,
         pc' = "walk", k \in 1..Len(order),
         order[k] \in looping \ hurried =>
           age[order[k]] = AgeMax \/ d >= interval[order[k]] - age[order[k]]
  PROVE  TimeInv'
<1> DEFINE m == order[k]
<1>1. due' = [due EXCEPT ![m] = d]
  BY DEF MoveOn
<1>2. d \in Distances
  BY NearDistances
<1> USE DEF TimeInv
<1>3. due' \in [Modules -> Distances]
  BY <1>1, <1>2
<1>4. \A n \in Modules : due'[n] = IF n = m THEN d ELSE due[n]
  BY <1>1
<1> HIDE DEF m
<1>5. ASSUME NEW n \in looping PROVE due'[n] \in -(Away + Stall)..MaxInterval
  BY <1>4
<1>6. ASSUME NEW n \in looping \ hurried PROVE Waits(n)'
  <2>1. CASE n = m
    <3>1. due'[n] = d
      BY <1>4, <2>1
    <3> QED BY <2>1, <3>1 DEF Waits, m
  <2>2. CASE n # m
    <3>1. Waits(n)
      BY <2>2 DEF m
    <3>2. due'[n] = due[n]
      BY <1>4, <2>2
    <3> QED BY <3>1, <3>2 DEF Waits
  <2> QED BY <2>1, <2>2
<1> QED BY <1>3, <1>5, <1>6

\* A module behind a closed gate is put off, never forward of its interval.
LEMMA TimeDefer == ASSUME TimeInv, OrderInv, Defer PROVE TimeInv'
<1> DEFINE m == order[k]
           r == Lesser(interval[m], RetryMax)
<1>1. /\ k \in 1..Len(order) /\ m \in looping /\ m \in Modules
      /\ Signed(at - due[m]) >= 0
  BY DEF Defer, AtDueModule, OrderInv, TimeInv, ToSet
<1>2. UNCHANGED <<interval, age, at, applied, looping, hurried, pc>> /\ pc = "walk"
  BY DEF Defer, AtDueModule, slots
<1>3. /\ interval[m] \in 1..MaxInterval /\ age[m] \in 0..AgeMax
      /\ due[m] \in -(Away + Stall)..MaxInterval /\ at \in -Stall..0
  BY <1>1 DEF TimeInv
<1>4. r \in 1..RetryMax /\ r <= interval[m]
  BY <1>3, Widths DEF Lesser
<1>5. MoveOn(Signed(at + r))
  BY DEF Defer
<1> HIDE DEF m, r
<1>6. at - due[m] \in -Half..Half-1 /\ at + r \in -Half..Half-1
  BY <1>3, <1>4, Widths
<1>7. at >= due[m] /\ Signed(at + r) = at + r
  BY <1>1, <1>3, <1>6, SignedSmall
<1>8. at + r \in -(Away + Stall)..MaxInterval
  BY <1>3, <1>4, Widths
<1>9. m \in hurried \/ age[m] = AgeMax \/ due[m] >= interval[m] - age[m]
  BY <1>1, <1>2 DEF TimeInv, Waits
<1>10. m \in hurried \/ age[m] = AgeMax \/ at + r >= interval[m] - age[m]
  BY <1>3, <1>4, <1>7, <1>9, Widths
<1> QED BY <1>1, <1>2, <1>5, <1>7, <1>8, <1>10, TimeMove DEF m

\* After its loop() a module is due an interval later.
LEMMA TimeFired == ASSUME TimeInv, OrderInv, Fired PROVE TimeInv'
<1> DEFINE m == order[k]
<1>1. /\ k \in 1..Len(order) /\ m \in looping /\ m \in Modules
      /\ age[m] >= -at
  BY DEF Fired, OrderInv, TimeInv, ToSet
<1>2. UNCHANGED <<interval, age, at, applied, looping, hurried>> /\ pc' = "walk"
  BY DEF Fired, slots
<1>3. /\ interval[m] \in 1..MaxInterval /\ age[m] \in 0..AgeMax
      /\ at \in -Stall..0
  BY <1>1 DEF TimeInv
<1>4. MoveOn(Signed(at + interval[m]))
  BY DEF Fired
<1> HIDE DEF m
<1>5. at + interval[m] \in -Half..Half-1
  BY <1>3, Widths
<1>6. Signed(at + interval[m]) = at + interval[m]
  BY <1>5, SignedSmall
<1>7. at + interval[m] \in -(Away + Stall)..MaxInterval
  BY <1>3, Widths
<1>8. at + interval[m] >= interval[m] - age[m]
  <2> DEFINE a == age[m]
             x == interval[m]
  <2>1. a \in Int /\ x \in Int /\ a >= -at
    BY <1>1, <1>3
  <2>a. at \in Int
    BY <1>3, Widths
  <2> HIDE DEF a, x
  <2>2. at + x >= x - a
    BY <2>1, <2>a
  <2> QED BY <2>2 DEF a, x
<1> QED BY <1>1, <1>2, <1>4, <1>6, <1>7, <1>8, TimeMove DEF m

\* fire_slot: who is called is due.
LEMMA TimeFire ==
  ASSUME TimeInv, OrderInv, NEW m \in Modules, Fire(m) PROVE TimeInv'
<1> USE DEF TimeInv
<1>1. /\ UNCHANGED <<interval, due, at, applied, looping, order, k>>
      /\ pc' = "loop" /\ order[k] = m /\ hurried' = hurried \ {m}
      /\ age' = [age EXCEPT ![m] = -at] /\ pc = "walk"
  BY DEF Fire, AtDueModule, slots
<1>2. -at \in 0..AgeMax
  BY Widths
<1>3. age' \in [Modules -> 0..AgeMax] /\ age'[m] = -at
  BY <1>1, <1>2
<1>4. ASSUME NEW n \in looping' \ hurried', n # m PROVE Waits(n)'
  <2>1. Waits(n)
    BY <1>1, <1>4
  <2>2. age'[n] = age[n] /\ interval'[n] = interval[n] /\ due'[n] = due[n]
    BY <1>1, <1>4
  <2> QED BY <2>1, <2>2 DEF Waits
<1>5. age'[order'[k']] >= -at'
  BY <1>1, <1>3
<1> QED BY <1>1, <1>3, <1>4, <1>5

\* onStart wakes every module, and so all of them are hurried.
LEMMA TimeOtaStart == ASSUME TimeInv, OrderInv, OtaStart PROVE TimeInv'
<1> USE DEF TimeInv
<1>1. UNCHANGED <<interval, age, at, applied, looping, pc, order, k>>
  BY DEF OtaStart, slots, walking
<1>2. /\ due' = [m \in Modules |-> IF m \in ToSet(order) THEN 0 ELSE due[m]]
      /\ hurried' = hurried \cup ToSet(order)
  BY DEF OtaStart
<1>3. 0 \in -(Away + Stall)..MaxInterval /\ 0 \in Distances
  BY Widths DEF Distances
<1>4. due' \in [Modules -> Distances]
  BY <1>2, <1>3
<1>5. \A n \in looping : due'[n] \in -(Away + Stall)..MaxInterval
  BY <1>2, <1>3
<1>6. ASSUME NEW n \in looping \ hurried' PROVE Waits(n)' \/ (pc = "loop" /\ order[k] = n)
  <2>1. n \notin ToSet(order) /\ n \in looping \ hurried
    BY <1>2, <1>6
  <2>2. due'[n] = due[n] /\ age'[n] = age[n] /\ interval'[n] = interval[n]
    BY <1>1, <1>2, <2>1
  <2> QED BY <2>1, <2>2 DEF Waits
<1> QED BY <1>1, <1>4, <1>5, <1>6

\* Every step keeps the times.
LEMMA TimeStep == TimeInv /\ OrderInv /\ RequestInv /\ [Next]_vars => TimeInv'
<1> SUFFICES ASSUME TimeInv, OrderInv, RequestInv, [Next]_vars PROVE TimeInv'
  OBVIOUS
<1>0. at \in -Stall..0 /\ applied \in at..0 /\ 0 \in -Stall..0
  BY Widths DEF TimeInv
<1>1. ASSUME NEW m \in Modules, NEW ms \in Asked, SetLoopInterval(m, ms)
      PROVE TimeInv'
  BY <1>1, TimeKept DEF SetLoopInterval, slots, times, walking
<1>2. CASE ApplyStart
  <2>1. /\ UNCHANGED <<interval, age, due, looping, hurried, at>> /\ applied' = 0
        /\ pc # "loop" /\ pc' # "loop"
    BY <1>2 DEF ApplyStart, slots
  <2> QED BY <1>0, <2>1, TimeEnd
<1>3. CASE ApplySlot
  BY <1>3, TimeApply
<1>4. CASE PassStart \/ RebuildStart \/ RebuildSlot \/ WalkStart \/ OtaPass \/ OtaLoop
  <2>1. /\ UNCHANGED <<interval, age, due, at, applied, looping, hurried>>
        /\ pc # "loop" /\ pc' # "loop"
    BY <1>4 DEF PassStart, RebuildStart, RebuildSlot, WalkStart, OtaPass, OtaLoop, slots, times
  <2> QED BY <1>0, <2>1, TimeEnd
<1>5. CASE ApplyEnd \/ WalkEnd \/ OtaPassEnd
  <2>1. UNCHANGED <<interval, age, due, looping, hurried>> /\ pc # "loop" /\ pc' # "loop"
    BY <1>5 DEF ApplyEnd, WalkEnd, OtaPassEnd, EndPass, slots
  <2>2. (at' = 0 \/ at' = at) /\ applied' = 0
    BY <1>5 DEF ApplyEnd, WalkEnd, OtaPassEnd, EndPass
  <2> QED BY <1>0, <2>1, <2>2, TimeEnd
<1>6. CASE Defer
  BY <1>6, TimeDefer
<1>7. CASE \E m \in Modules : Fire(m)
  BY <1>7, TimeFire
<1>8. CASE Fired
  BY <1>8, TimeFired
<1>9. CASE OtaStart
  BY <1>9, TimeOtaStart
<1>10. CASE OtaError
  BY <1>10, TimeKept DEF OtaError, slots, times, walking
<1>11. CASE Tick
  BY <1>11, TimeTick
<1>12. CASE UNCHANGED vars
  BY <1>12, TimeKept DEF vars, slots, times, walking
<1> QED
  BY <1>1, <1>2, <1>3, <1>4, <1>5, <1>6, <1>7, <1>8, <1>9, <1>10, <1>11, <1>12
     DEF Next, LoopTask, Ask

\* The invariant of the scheduler.
THEOREM TimesInductive == Spec => [](RequestInv /\ OrderInv /\ TimeInv)
BY RequestInit, OrderInit, TimeInit, RequestStep, OrderStep, TimeStep, PTL DEF Spec

(* fire_slot: no loop() is called before the interval since its last call  *)
(* is over, but for the first one and for the one after wake(), whatever   *)
(* other intervals the tasks ask for meanwhile and wherever the clock      *)
(* wraps.                                                                  *)
THEOREM FiresInTime == Spec => NeverEarly
<1>1. ASSUME RequestInv, OrderInv, TimeInv, NEW m \in Modules, Fire(m)
      PROVE  m \in hurried \/ age[m] + at >= interval[m]
  <2>1. /\ m \in looping /\ pc = "walk" /\ Signed(at - due[m]) >= 0
    BY <1>1 DEF Fire, AtDueModule, OrderInv, ToSet
  <2>2. /\ interval[m] \in 1..MaxInterval /\ age[m] \in 0..AgeMax
        /\ due[m] \in -(Away + Stall)..MaxInterval /\ at \in -Stall..0
    BY <1>1, <2>1 DEF TimeInv
  <2>3. at - due[m] \in -Half..Half-1
    BY <2>2, Widths
  <2>4. at >= due[m]
    BY <2>1, <2>2, <2>3, SignedSmall
  <2>5. m \in hurried \/ age[m] = AgeMax \/ due[m] >= interval[m] - age[m]
    BY <1>1, <2>1 DEF TimeInv, Waits
  <2> QED BY <2>2, <2>4, <2>5, Widths
<1>2. RequestInv /\ OrderInv /\ TimeInv /\ [Next]_vars =>
        [\A m \in Modules : Fire(m) => m \in hurried \/ age[m] + at >= interval[m]]_vars
  BY <1>1
<1> QED BY <1>2, TimesInductive, PTL DEF Spec, NeverEarly

----------------------------------------------------------------------------
(* The order by due time                                                   *)

Sorted(list, d) == \A i, j \in 1 .. Len(list) : i < j => d[list[i]] <= d[list[j]]
Once(list) == \A i, j \in 1 .. Len(list) : i # j => list[i] # list[j]

\* A set that lies in an interval as long as it is large fills it.
LEMMA Filled ==
  ASSUME NEW a \in Nat, NEW b \in Nat, NEW S \in SUBSET (a + 1 .. b),
         \/ S \subseteq a + 1 .. a + Cardinality(S)
         \/ a + 1 .. a + Cardinality(S) \subseteq S
  PROVE  S = a + 1 .. a + Cardinality(S)
<1> DEFINE c == Cardinality(S)
           T == a + 1 .. a + c
<1>1. c \in Nat
  <2>1. Cardinality(S) \in 0 .. (IF a <= b THEN b - a ELSE 0) BY PartOfInterval
  <2> QED BY <2>1
<1>2. IsFiniteSet(S)
  <2>1. IsFiniteSet(a + 1 .. b) BY FS_Interval
  <2> QED BY <2>1, FS_Subset
<1>3. IsFiniteSet(T) /\ Cardinality(T) = c
  <2> DEFINE lo == a + 1
             hi == a + c
  <2>1. lo \in Int /\ hi \in Int /\ T = lo .. hi BY <1>1
  <2> HIDE DEF c, T, lo, hi
  <2>a. IsFiniteSet(T) /\ Cardinality(T) = IF lo <= hi THEN hi - lo + 1 ELSE 0
    BY <2>1, FS_Interval
  <2>2. IsFiniteSet(T) /\ Cardinality(T) = IF a + 1 <= a + c THEN (a + c) - (a + 1) + 1 ELSE 0
    BY <2>a DEF lo, hi
  <2>3. c = IF a + 1 <= a + c THEN (a + c) - (a + 1) + 1 ELSE 0
    BY <1>1
  <2> QED BY <2>2, <2>3
<1> HIDE DEF T
<1>4. CASE S \subseteq T
  BY <1>3, <1>4, FS_Subset DEF T
<1>5. CASE T \subseteq S
  BY <1>2, <1>3, <1>5, FS_Subset DEF T
<1> QED BY <1>4, <1>5 DEF T

\* Of a sorted sequence, those that are no later than a time come first: a count
\* of them is the place of the last of them.
LEMMA CountIsPlace ==
  ASSUME NEW a \in Nat, NEW b \in Nat, NEW S \in SUBSET (a + 1 .. b),
         \A i, j \in a + 1 .. b : i < j /\ j \in S => i \in S
  PROVE  S = a + 1 .. a + Cardinality(S)
<1> DEFINE c == Cardinality(S)
<1>1. c \in Nat
  <2>1. Cardinality(S) \in 0 .. (IF a <= b THEN b - a ELSE 0) BY PartOfInterval
  <2> QED BY <2>1
<1> HIDE DEF c
<1>2. CASE S \subseteq a + 1 .. a + c
  BY <1>2, Filled DEF c
<1>3. CASE ~(S \subseteq a + 1 .. a + c)
  <2>1. PICK j \in S : j \notin a + 1 .. a + c
    BY <1>3
  <2>2. j \in a + 1 .. b /\ j > a + c
    BY <1>1, <2>1
  <2>3. a + 1 .. a + c \subseteq S
    BY <1>1, <2>1, <2>2
  <2> QED BY <2>3, Filled DEF c
<1> QED BY <1>2, <1>3

\* A module that is put between those due no later and those due no earlier
\* leaves the order sorted.
LEMMA InsertSorted ==
  ASSUME NEW list \in Seq(Modules), NEW d \in [Modules -> Int], Sorted(list, d),
         NEW m \in Modules, NEW p \in 1 .. Len(list) + 1,
         \A i \in 1 .. p - 1 : d[list[i]] <= d[m],
         \A i \in p .. Len(list) : d[m] <= d[list[i]]
  PROVE  Sorted(InsertAt(list, p, m), d)
<1> DEFINE r == InsertAt(list, p, m)
<1>1. /\ Len(r) = Len(list) + 1 /\ r[p] = m
      /\ \A j \in 1..p-1 : r[j] = list[j]
      /\ \A j \in p+1..Len(list)+1 : r[j] = list[j-1]
  BY InsertAtKeeps
<1>2. Len(list) \in Nat /\ \A j \in 1..Len(list) : list[j] \in Modules /\ d[list[j]] \in Int
  OBVIOUS
<1> HIDE DEF r
<1>3. ASSUME NEW i \in 1..Len(r), NEW j \in 1..Len(r), i < j
      PROVE  d[r[i]] <= d[r[j]]
  <2>1. CASE j < p
    <3>1. i \in 1..p-1 /\ j \in 1..p-1 /\ i \in 1..Len(list) /\ j \in 1..Len(list)
      BY <1>1, <1>3, <2>1
    <3> QED BY <1>1, <1>3, <3>1 DEF Sorted
  <2>2. CASE j = p
    <3>1. i \in 1..p-1
      BY <1>3, <2>2
    <3> QED BY <1>1, <2>2, <3>1
  <2>3. CASE j > p /\ i = p
    <3>1. j \in p+1..Len(list)+1 /\ j - 1 \in p..Len(list)
      BY <1>1, <2>3
    <3> QED BY <1>1, <2>3, <3>1
  <2>4. CASE j > p /\ i < p
    <3>1. i \in Nat /\ j \in Nat /\ 1 <= i /\ i < p /\ p < j /\ j <= Len(list) + 1
      BY <1>1, <1>2, <1>3, <2>4
    <3>2. i \in 1..p-1 /\ i \in 1..Len(list)
      BY <1>2, <3>1
    <3>3. j \in p+1..Len(list)+1 /\ j - 1 \in 1..Len(list) /\ i < j - 1
      BY <1>2, <3>1
    <3>4. r[i] = list[i] /\ r[j] = list[j-1]
      BY <1>1, <3>2, <3>3
    <3> QED BY <3>2, <3>3, <3>4 DEF Sorted
  <2>5. CASE j > p /\ i > p
    <3>1. /\ i \in p+1..Len(list)+1 /\ j \in p+1..Len(list)+1
          /\ i - 1 \in 1..Len(list) /\ j - 1 \in 1..Len(list) /\ i - 1 < j - 1
      BY <1>1, <1>3, <2>5
    <3> QED BY <1>1, <3>1 DEF Sorted
  <2> QED BY <2>1, <2>2, <2>3, <2>4, <2>5
<1> QED BY <1>3 DEF Sorted, r

\* A module that is put into an order without it is there once.
LEMMA InsertOnce ==
  ASSUME NEW list \in Seq(Modules), Once(list), NEW m \in Modules, m \notin ToSet(list),
         NEW p \in 1 .. Len(list) + 1
  PROVE  Once(InsertAt(list, p, m))
<1> DEFINE r == InsertAt(list, p, m)
<1>1. /\ Len(r) = Len(list) + 1 /\ r[p] = m
      /\ \A j \in 1..p-1 : r[j] = list[j]
      /\ \A j \in p+1..Len(list)+1 : r[j] = list[j-1]
  BY InsertAtKeeps
<1>2. Len(list) \in Nat /\ \A j \in 1..Len(list) : list[j] # m
  BY DEF ToSet
<1> HIDE DEF r
<1> DEFINE from(j) == IF j < p THEN j ELSE j - 1
<1>3. \A j \in 1..Len(r) : j # p => from(j) \in 1..Len(list) /\ r[j] = list[from(j)]
  <2>1. ASSUME NEW j \in 1..Len(r), j # p
        PROVE  from(j) \in 1..Len(list) /\ r[j] = list[from(j)]
    <3>1. CASE j < p
      BY <1>1, <1>2, <3>1
    <3>2. CASE j > p
      BY <1>1, <1>2, <3>2
    <3> QED BY <2>1, <3>1, <3>2
  <2> QED BY <2>1
<1>4. \A i, j \in 1..Len(r) : i # j /\ i # p /\ j # p => from(i) # from(j)
  BY <1>1, <1>2
<1> HIDE DEF from
<1>5. ASSUME NEW i \in 1..Len(r), NEW j \in 1..Len(r), i # j PROVE r[i] # r[j]
  <2>1. CASE i # p /\ j # p
    BY <1>3, <1>4, <1>5, <2>1 DEF Once
  <2>2. CASE i = p
    BY <1>1, <1>2, <1>3, <1>5, <2>2
  <2>3. CASE j = p
    BY <1>1, <1>2, <1>3, <1>5, <2>3
  <2> QED BY <2>1, <2>2, <2>3
<1> QED BY <1>5 DEF Once, r

\* sift_due leaves every module in the order once.
LEMMA SiftedOnce ==
  ASSUME NEW list \in Seq(Modules), Once(list), NEW d, Len(list) > 0
  PROVE  Once(Sifted(list, d, 1))
<1> DEFINE rest == RemoveAt(list, 1)
           passed == {j \in 1 + 1 .. Len(list) : Signed(d[list[1]] - d[list[j]]) > 0}
           p == 1 + Cardinality(passed)
<1>1. /\ rest \in Seq(Modules) /\ Len(rest) = Len(list) - 1
      /\ \A j \in 1..Len(list)-1 : rest[j] = list[j+1]
  BY RemoveAtKeeps
<1>2. Len(list) \in Nat /\ list[1] \in Modules /\ passed \in SUBSET (1 + 1 .. Len(list))
  OBVIOUS
<1>3. Sifted(list, d, 1) = InsertAt(rest, p, list[1])
  BY DEF Sifted, SiftTo
<1> HIDE DEF rest, passed
<1>4. p \in 1..Len(rest)+1
  <2>1. Cardinality(passed) \in 0 .. (IF 1 <= Len(list) THEN Len(list) - 1 ELSE 0)
    BY <1>2, PartOfInterval
  <2> QED BY <1>1, <1>2, <2>1
<1>5. Once(rest)
  <2>1. ASSUME NEW i \in 1..Len(rest), NEW j \in 1..Len(rest), i # j PROVE rest[i] # rest[j]
    <3>1. i + 1 \in 1..Len(list) /\ j + 1 \in 1..Len(list) /\ i + 1 # j + 1
          /\ i \in 1..Len(list)-1 /\ j \in 1..Len(list)-1
      BY <1>1, <1>2, <2>1
    <3> QED BY <1>1, <3>1 DEF Once
  <2> QED BY <2>1 DEF Once
<1>6. list[1] \notin ToSet(rest)
  <2>1. ASSUME NEW j \in 1..Len(rest) PROVE rest[j] # list[1]
    <3>1. j + 1 \in 1..Len(list) /\ j + 1 # 1 /\ 1 \in 1..Len(list) /\ j \in 1..Len(list)-1
      BY <1>1, <1>2, <2>1
    <3> QED BY <1>1, <3>1 DEF Once
  <2> QED BY <1>1, <2>1 DEF ToSet
<1> HIDE DEF p
<1> QED BY <1>1, <1>2, <1>3, <1>4, <1>5, <1>6, InsertOnce

\* insert_due puts in a module once.
LEMMA InsertIsOnce ==
  ASSUME NEW list \in Seq(Modules), Once(list), NEW m \in Modules, m \notin ToSet(list)
  PROVE  Once(Insert(list, m))
<1> DEFINE before == {j \in 1 .. Len(list) : Signed(due[list[j]] - due[m]) <= 0}
<1>1. before \in SUBSET (0 + 1 .. Len(list)) /\ 0 \in Nat /\ Len(list) \in Nat
      /\ Len(list) - 0 = Len(list)
  OBVIOUS
<1>2. Insert(list, m) = InsertAt(list, Cardinality(before) + 1, m)
  BY DEF Insert
<1> HIDE DEF before
<1>3. Cardinality(before) + 1 \in 1..Len(list)+1
  <2>1. Cardinality(before) \in 0 .. (IF 0 <= Len(list) THEN Len(list) - 0 ELSE 0)
    BY <1>1, PartOfInterval
  <2> QED BY <1>1, <2>1
<1> QED BY <1>2, <1>3, InsertOnce

\* Near due times are compared as numbers: the difference is cast unchanged.
LEMMA NearCompared ==
  ASSUME NEW x \in -(Away + Stall)..MaxInterval, NEW y \in -(Away + Stall)..MaxInterval
  PROVE  Signed(x - y) = x - y
<1>1. x - y \in -Half..Half-1
  BY Widths
<1> QED BY <1>1, SignedSmall

\* insert_due keeps the order sorted.
LEMMA InsertIsSorted ==
  ASSUME NEW list \in Seq(Modules), NEW m \in Modules, due \in [Modules -> Distances],
         Sorted(list, due),
         \A n \in ToSet(list) \cup {m} : due[n] \in -(Away + Stall)..MaxInterval
  PROVE  Sorted(Insert(list, m), due)
<1> DEFINE before == {j \in 1 .. Len(list) : Signed(due[list[j]] - due[m]) <= 0}
           p == Cardinality(before) + 1
<1>1. due \in [Modules -> Int] /\ due[m] \in Int
      /\ \A j \in 1..Len(list) : due[list[j]] \in Int
  BY DEF Distances
<1>2. \A j \in 1..Len(list) : Signed(due[list[j]] - due[m]) = due[list[j]] - due[m]
  <2>1. \A j \in 1..Len(list) : list[j] \in ToSet(list)
    BY ToSetHas
  <2> QED BY <2>1, NearCompared
<1>3. \A j \in 1..Len(list) : j \in before <=> due[list[j]] <= due[m]
  BY <1>1, <1>2
<1>4. before \in SUBSET (0 + 1 .. Len(list)) /\ Len(list) \in Nat
  OBVIOUS
<1> HIDE DEF before
<1>5. \A i, j \in 0 + 1 .. Len(list) : i < j /\ j \in before => i \in before
  BY <1>1, <1>3 DEF Sorted
<1>6. before = 0 + 1 .. 0 + Cardinality(before)
  <2>1. 0 \in Nat OBVIOUS
  <2> QED BY <1>4, <1>5, <2>1, CountIsPlace
<1>c. Cardinality(before) \in 0..Len(list)
  <2>1. 0 \in Nat /\ 0 <= Len(list) /\ Len(list) - 0 = Len(list) BY <1>4
  <2>2. Cardinality(before) \in 0 .. (IF 0 <= Len(list) THEN Len(list) - 0 ELSE 0)
    BY <1>4, <2>1, PartOfInterval
  <2> QED BY <2>1, <2>2
<1>7. p \in 1..Len(list)+1
  BY <1>c
<1>8. \A i \in 1..p-1 : due[list[i]] <= due[m]
  BY <1>3, <1>6, <1>c
<1>9. \A i \in p..Len(list) : due[m] <= due[list[i]]
  BY <1>1, <1>3, <1>6, <1>c
<1>10. Insert(list, m) = InsertAt(list, p, m)
  BY DEF Insert, before
<1> HIDE DEF p
<1> QED BY <1>1, <1>7, <1>8, <1>9, <1>10, InsertSorted

\* sift_due keeps the order sorted when the first module is due later than it was.
LEMMA SiftedIsSorted ==
  ASSUME NEW list \in Seq(Modules), NEW d \in [Modules -> Distances], Len(list) > 0,
         \A i, j \in 2 .. Len(list) : i < j => d[list[i]] <= d[list[j]],
         \A n \in ToSet(list) : d[n] \in -(Away + Stall)..MaxInterval
  PROVE  Sorted(Sifted(list, d, 1), d)
<1> DEFINE m == list[1]
           rest == RemoveAt(list, 1)
           passed == {j \in 1 + 1 .. Len(list) : Signed(d[list[1]] - d[list[j]]) > 0}
           p == 1 + Cardinality(passed)
<1>1. d \in [Modules -> Int] /\ m \in Modules /\ d[m] \in Int /\ Len(list) \in Nat
      /\ \A j \in 1..Len(list) : d[list[j]] \in Int
  BY DEF Distances
<1>2. \A j \in 1..Len(list) : Signed(d[m] - d[list[j]]) = d[m] - d[list[j]]
  <2>1. \A j \in 1..Len(list) : list[j] \in ToSet(list)
    BY ToSetHas
  <2>2. m \in ToSet(list)
    BY <2>1
  <2> QED BY <2>1, <2>2, NearCompared
<1>3. \A j \in 2..Len(list) : j \in passed <=> d[list[j]] < d[m]
  BY <1>1, <1>2
<1>4. passed \in SUBSET (1 + 1 .. Len(list))
  OBVIOUS
<1>5. /\ rest \in Seq(Modules) /\ Len(rest) = Len(list) - 1
      /\ \A j \in 1..Len(list)-1 : rest[j] = list[j+1]
  BY RemoveAtKeeps
<1>6. Sifted(list, d, 1) = InsertAt(rest, p, m)
  BY DEF Sifted, SiftTo
<1> HIDE DEF passed, rest, m
<1>7. \A i, j \in 1 + 1 .. Len(list) : i < j /\ j \in passed => i \in passed
  <2>1. \A i, j \in 2 .. Len(list) : i < j /\ j \in passed => i \in passed
    BY <1>1, <1>3
  <2> QED BY <2>1
<1>8. passed = 1 + 1 .. 1 + Cardinality(passed)
  BY <1>1, <1>4, <1>7, CountIsPlace
<1>9. Cardinality(passed) \in 0..Len(list)-1
  <2>1. Cardinality(passed) \in 0 .. (IF 1 <= Len(list) THEN Len(list) - 1 ELSE 0)
    BY <1>1, <1>4, PartOfInterval
  <2> QED BY <1>1, <2>1
<1>10. p \in 1..Len(rest)+1
  BY <1>1, <1>5, <1>9
<1>11. \A i \in 1..p-1 : d[rest[i]] <= d[m]
  <2>1. ASSUME NEW i \in 1..p-1 PROVE d[rest[i]] <= d[m]
    <3>1. i \in Nat /\ 1 <= i /\ i <= Cardinality(passed) /\ Cardinality(passed) <= Len(list) - 1
          /\ Len(list) \in Nat /\ Cardinality(passed) \in Nat
      BY <1>1, <1>9, <2>1
    <3>2. i + 1 \in 2..Len(list) /\ i \in 1..Len(list)-1 /\ i + 1 \in 1 + 1 .. 1 + Cardinality(passed)
      BY <3>1
    <3>3. i + 1 \in passed
      BY <1>8, <3>2
    <3>4. d[list[i+1]] < d[m]
      BY <1>3, <3>2, <3>3
    <3>5. rest[i] = list[i+1]
      BY <1>5, <3>2
    <3>6. list[i+1] \in Modules
      BY <3>2, <3>1
    <3>7. d[list[i+1]] \in Int
      BY <1>1, <3>6
    <3> QED BY <1>1, <3>4, <3>5, <3>7
  <2> QED BY <2>1
<1>12. \A i \in p..Len(rest) : d[m] <= d[rest[i]]
  <2>1. ASSUME NEW i \in p..Len(rest) PROVE d[m] <= d[rest[i]]
    <3>1. i \in Nat /\ Cardinality(passed) < i /\ i <= Len(list) - 1
          /\ Len(list) \in Nat /\ Cardinality(passed) \in Nat
      BY <1>1, <1>5, <1>9, <2>1
    <3>2. i + 1 \in 2..Len(list) /\ i \in 1..Len(list)-1
          /\ i + 1 \notin 1 + 1 .. 1 + Cardinality(passed)
      BY <3>1
    <3>3. i + 1 \notin passed
      BY <1>8, <3>2
    <3>4. ~(d[list[i+1]] < d[m])
      BY <1>3, <3>2, <3>3
    <3>5. rest[i] = list[i+1]
      BY <1>5, <3>2
    <3>6. list[i+1] \in Modules
      BY <3>2, <3>1
    <3>7. d[list[i+1]] \in Int
      BY <1>1, <3>6
    <3> QED BY <1>1, <3>4, <3>5, <3>7
  <2> QED BY <2>1
<1>13. Sorted(rest, d)
  <2>1. ASSUME NEW i \in 1..Len(rest), NEW j \in 1..Len(rest), i < j
        PROVE  d[rest[i]] <= d[rest[j]]
    <3>1. i \in 1..Len(list)-1 /\ j \in 1..Len(list)-1
      BY <1>5, <2>1
    <3>2. Len(list) \in Nat
      BY <1>1
    <3>3. i + 1 \in 1..Len(list) /\ j + 1 \in 1..Len(list) /\ i + 1 < j + 1 /\ i + 1 # 1
      BY <2>1, <3>1, <3>2
    <3>4. i + 1 \in 2..Len(list) /\ j + 1 \in 2..Len(list)
      BY <3>2, <3>1
    <3> QED BY <1>5, <3>1, <3>3, <3>4
  <2> QED BY <2>1 DEF Sorted
<1> HIDE DEF p
<1> QED BY <1>1, <1>5, <1>6, <1>10, <1>11, <1>12, <1>13, InsertSorted

----------------------------------------------------------------------------
(* The wake: the order is sorted by due time, but where apply_pending is   *)
(* about to rebuild it, and holds every module that loops, once.  A walk only    *)
(* ever runs the first of it, and leaves it only when its next due time    *)
(* lies ahead.                                                             *)
QueueInv ==
  /\ pc # "apply" => Sorted(order, due) /\ Once(order)
  /\ pc = "rebuild" => Once(todo) /\ ToSet(order) \cap ToSet(todo) = {}
  /\ pc \notin {"apply", "rebuild"} => looping \subseteq ToSet(order)
  /\ pc = "rebuild" => looping \subseteq ToSet(order) \cup ToSet(todo)
  /\ pc = "walk" => \A i \in 1 .. k - 1 : due[order[i]] > at
  /\ pc = "loop" => k = 1 /\ due[order[1]] <= 0

(* The time the loop is due again, which is near, is before that of any    *)
(* module, and no module is due later than in its interval.                *)
WakeInv ==
  /\ pc = "idle" => at = 0
  /\ next_loop_due \in at - (Away + Stall) .. WakeMax
  /\ pc = "idle" /\ next_loop_due > 0 => \A m \in looping : next_loop_due <= due[m]
  /\ \A m \in looping : due[m] <= interval[m]

\* What is in a sequence is its head or in its tail.
LEMMA HeadOrTail ==
  ASSUME NEW S, NEW list \in Seq(S), list # <<>>
  PROVE  ToSet(list) \subseteq ToSet(Tail(list)) \cup {Head(list)}
<1>1. ASSUME NEW i \in 1..Len(list), i # 1 PROVE list[i] \in ToSet(Tail(list))
  <2>1. i - 1 \in 1..Len(Tail(list)) /\ Tail(list)[i - 1] = list[i]
    BY <1>1
  <2>2. Tail(list) \in Seq(S)
    OBVIOUS
  <2> QED BY <2>1, <2>2, ToSetHas
<1> QED BY <1>1 DEF ToSet

\* The modules in the order are due near now.
LEMMA OrderNear ==
  ASSUME TimeInv, OrderInv, pc # "apply"
  PROVE  /\ \A m \in ToSet(order) : m \in Modules /\ due[m] \in -(Away + Stall)..MaxInterval
         /\ \A i \in 1..Len(order) : order[i] \in ToSet(order)
<1>1. \A i \in 1..Len(order) : order[i] \in ToSet(order)
  BY ToSetHas DEF OrderInv
<1> QED BY <1>1 DEF TimeInv, OrderInv

\* A module that the walk runs is the first of the order.
LEMMA DueIsFirst ==
  ASSUME QueueInv, TimeInv, OrderInv, AtDueModule
  PROVE  k = 1 /\ due[order[1]] <= 0 /\ Len(order) > 0
<1>1. /\ pc = "walk" /\ k \in 1..Len(order) /\ Len(order) \in Nat
      /\ Signed(at - due[order[k]]) >= 0
  BY DEF AtDueModule, OrderInv
<1>2. \A i \in 1..Len(order) : due[order[i]] \in -(Away + Stall)..MaxInterval
  BY <1>1, OrderNear
<1>3. at \in -Stall..0
  BY DEF TimeInv
<1>4. due[order[k]] <= at
  <2>1. due[order[k]] \in -(Away + Stall)..MaxInterval
    BY <1>1, <1>2
  <2>2. at \in -(Away + Stall)..MaxInterval
    BY <1>3, Widths
  <2>3. Signed(at - due[order[k]]) = at - due[order[k]]
    BY <2>1, <2>2, NearCompared
  <2> DEFINE d == due[order[k]]
  <2>4. at - d >= 0
    BY <1>1, <2>3
  <2>5. at \in Int /\ d \in Int
    BY <2>1, <2>2, Widths
  <2> HIDE DEF d
  <2>6. d <= at
    BY <2>4, <2>5
  <2> QED BY <2>6 DEF d
<1>5. k = 1
  <2>1. SUFFICES ASSUME k # 1 PROVE FALSE
    OBVIOUS
  <2>2. k - 1 \in 1..k-1 /\ k - 1 \in 1..Len(order) /\ k - 1 < k
    BY <1>1, <2>1
  <2>3. due[order[k-1]] > at /\ due[order[k-1]] <= due[order[k]]
    BY <1>1, <2>2 DEF QueueInv, Sorted
  <2> DEFINE d == due[order[k]]
             e == due[order[k-1]]
  <2>4. at \in Int /\ d \in -(Away + Stall)..MaxInterval /\ e \in -(Away + Stall)..MaxInterval
    BY <1>1, <1>2, <2>2, <1>3, Widths
  <2>5. d \in Int /\ e \in Int
    BY <2>4, Widths
  <2>6. e > at /\ e <= d /\ d <= at
    BY <1>4, <2>3
  <2> HIDE DEF d, e
  <2> QED BY <2>4, <2>5, <2>6
<1>6. due[order[k]] <= 0
  <2>1. due[order[k]] \in -(Away + Stall)..MaxInterval
    BY <1>1, <1>2
  <2>2. due[order[k]] \in Int
    BY <2>1, Widths
  <2> QED BY <1>3, <1>4, <2>2
<1> QED BY <1>1, <1>5, <1>6

\* begin() makes every module that loops due at once.
LEMMA QueueInit == Init => QueueInv
<1> SUFFICES ASSUME Init PROVE QueueInv
  OBVIOUS
<1>1. PICK boot \in 0..Away : due = [m \in Modules |-> -boot]
  BY DEF Init
<1>2. OrderInv /\ pc = "idle" /\ ToSet(order) = looping
  BY OrderInit DEF Init
<1>3. \A i \in 1..Len(order) : due[order[i]] = -boot
  BY <1>1, <1>2 DEF OrderInv
<1>4. Sorted(order, due)
  BY <1>1, <1>3, TimeAssumption DEF Sorted
<1>5. Once(order)
  <2>1. DOMAIN order = 1..Len(order)
    BY <1>2 DEF OrderInv
  <2>2. \A i, j \in 1..Len(order) : i < j => SlotOf(order[i]) < SlotOf(order[j])
    BY <2>1 DEF Init
  <2>3. \A m \in Modules : SlotOf(m) \in Int
    <3>1. ASSUME NEW m \in Modules PROVE SlotOf(m) \in Int
      <4>1. \E i \in DOMAIN Slots : Slots[i] = m
        BY DEF Modules, ToSet
      <4>2. SlotOf(m) \in DOMAIN Slots
        BY <4>1 DEF SlotOf
      <4> QED BY <4>2, ModuleAssumption
    <3> QED BY <3>1
  <2>4. \A i \in 1..Len(order) : order[i] \in Modules
    BY <1>2 DEF OrderInv
  <2>5. ASSUME NEW i \in 1..Len(order), NEW j \in 1..Len(order), i < j
        PROVE  order[i] # order[j]
    <3>1. SlotOf(order[i]) \in Int /\ SlotOf(order[i]) < SlotOf(order[j])
      BY <2>2, <2>3, <2>4, <2>5
    <3> QED BY <3>1
  <2> QED BY <2>5 DEF Once
<1> QED BY <1>2, <1>4, <1>5 DEF QueueInv

\* A step that moves neither the order nor the due times.
LEMMA QueueKept ==
  ASSUME QueueInv, UNCHANGED <<order, due, looping, todo, k, at, pc>>
  PROVE  QueueInv'
BY DEF QueueInv, Sorted, Once

\* A pass that begins, ends, or comes to a walk.
LEMMA QueuePass ==
  ASSUME QueueInv, UNCHANGED <<order, due, looping>>,
         pc \notin {"apply", "rebuild"}, pc' \notin {"rebuild", "loop"},
         pc' = "walk" => k' = 1
  PROVE  QueueInv'
BY DEF QueueInv, Sorted, Once

\* The clock moves every due time and the start of the pass alike.
LEMMA QueueTick == ASSUME QueueInv, TimeInv, OrderInv, Tick PROVE QueueInv'
<1>1. UNCHANGED <<looping, order, pc, todo, k>>
  BY DEF Tick, slots, walking
<1>2. pc \in {"walk", "loop"} => at' = at - 1
  BY DEF Tick
<1>3. ASSUME pc # "apply"
      PROVE  \A i \in 1..Len(order) : due'[order[i]] = due[order[i]] - 1 /\ due[order[i]] \in Int
  <2>1. ASSUME NEW i \in 1..Len(order)
        PROVE  due'[order[i]] = due[order[i]] - 1 /\ due[order[i]] \in Int
    <3>1. /\ order[i] \in Modules /\ order[i] \in looping
          /\ due[order[i]] \in -(Away + Stall)..MaxInterval
      BY <1>3, OrderNear DEF OrderInv
    <3>2. due'[order[i]] = Signed(due[order[i]] - 1)
      BY <3>1 DEF Tick
    <3>3. due[order[i]] - 1 \in -Half..Half-1
      BY <3>1, Widths
    <3> QED BY <3>1, <3>2, <3>3, SignedSmall, Widths
  <2> QED BY <2>1
<1>4. pc # "apply" => Sorted(order, due)'
  <2>1. ASSUME pc # "apply", NEW i \in 1..Len(order), NEW j \in 1..Len(order), i < j
        PROVE  due'[order[i]] <= due'[order[j]]
    <3>1. due[order[i]] <= due[order[j]]
      BY <2>1 DEF QueueInv, Sorted
    <3>2. /\ due'[order[i]] = due[order[i]] - 1 /\ due[order[i]] \in Int
          /\ due'[order[j]] = due[order[j]] - 1 /\ due[order[j]] \in Int
      BY <1>3, <2>1
    <3> QED BY <3>1, <3>2
  <2> QED BY <1>1, <2>1 DEF Sorted
<1>5. at \in Int
  BY DEF TimeInv
<1>6. ASSUME pc = "walk", NEW i \in 1..k-1 PROVE due'[order[i]] > at'
  <2>1. due[order[i]] > at
    BY <1>6 DEF QueueInv
  <2>2. CASE i \in 1..Len(order)
    BY <1>2, <1>3, <1>5, <1>6, <2>1, <2>2
  <2>3. CASE i \notin 1..Len(order)
    BY <1>6, <2>3 DEF OrderInv
  <2> QED BY <2>2, <2>3
<1>7. pc = "loop" => due'[order[1]] <= 0
  BY <1>3 DEF QueueInv, OrderInv
<1>8. pc # "apply" => Once(order)'
  BY <1>1 DEF QueueInv, Once
<1> QED BY <1>1, <1>4, <1>6, <1>7, <1>8 DEF QueueInv, Once

\* apply_pending starts to order the modules anew, and puts them in one by one.
LEMMA QueueRebuild ==
  ASSUME QueueInv, TimeInv, OrderInv, RebuildStart \/ RebuildSlot PROVE QueueInv'
<1>1. pc' = "rebuild" /\ UNCHANGED <<looping, due>>
  BY DEF RebuildStart, RebuildSlot, slots, times
<1>2. CASE RebuildStart
  <2>1. order' = <<>> /\ todo' = Slots
    BY <1>2 DEF RebuildStart
  <2>2. Len(order') = 0 /\ looping \subseteq ToSet(todo') /\ ToSet(order') = {}
    BY <2>1 DEF TimeInv, Modules, ToSet
  <2>3. Once(todo')
    BY <2>1, ModuleAssumption DEF Once, IsInjective
  <2> QED BY <1>1, <2>2, <2>3 DEF QueueInv, Sorted, Once
<1>3. CASE RebuildSlot
  <2> DEFINE m == Head(todo)
  <2>1. /\ pc = "rebuild" /\ todo # <<>> /\ todo \in Seq(Modules) /\ todo' = Tail(todo)
        /\ order' = IF m \in looping THEN Insert(order, m) ELSE order
    BY <1>3 DEF RebuildSlot, OrderInv
  <2>2. m \in Modules /\ order \in Seq(Modules)
    BY <2>1 DEF OrderInv
  <2>3. ToSet(todo) \subseteq ToSet(todo') \cup {m}
    BY <2>1, HeadOrTail
  <2> HIDE DEF m
  <2>4. /\ Sorted(order, due) /\ looping \subseteq ToSet(order) \cup ToSet(todo)
        /\ Once(order) /\ Once(todo) /\ ToSet(order) \cap ToSet(todo) = {}
    BY <2>1 DEF QueueInv
  <2>a. Len(todo) \in Nat /\ Len(todo) > 0 /\ m = todo[1] /\ m \in ToSet(todo)
        /\ todo' \in Seq(Modules) /\ Len(todo') = Len(todo) - 1
        /\ \A i \in 1..Len(todo') : todo'[i] = todo[i + 1]
    BY <2>1, ToSetHas DEF m
  <2>b. ASSUME NEW i \in 1..Len(todo') PROVE todo'[i] \in ToSet(todo) /\ todo'[i] # m
    <3>1. i + 1 \in 1..Len(todo) /\ 1 \in 1..Len(todo) /\ i + 1 # 1
      BY <2>a, <2>b
    <3> QED BY <2>1, <2>4, <2>a, <3>1, ToSetHas DEF Once
  <2>c. ToSet(todo') \subseteq ToSet(todo) \ {m}
    BY <2>a, <2>b DEF ToSet
  <2>d. Once(todo')
    <3>1. ASSUME NEW i \in 1..Len(todo'), NEW j \in 1..Len(todo'), i # j
          PROVE  todo'[i] # todo'[j]
      <4>1. i + 1 \in 1..Len(todo) /\ j + 1 \in 1..Len(todo) /\ i + 1 # j + 1
        BY <2>a, <3>1
      <4> QED BY <2>4, <2>a, <4>1 DEF Once
    <3> QED BY <3>1 DEF Once
  <2>5. CASE m \in looping
    <3>1. order' = Insert(order, m)
      BY <2>1, <2>5
    <3>2. ToSet(order') = ToSet(order) \cup {m}
      BY <2>2, <3>1, InsertKeeps
    <3>3. \A n \in ToSet(order) \cup {m} : due[n] \in -(Away + Stall)..MaxInterval
      BY <2>1, <2>5, OrderNear DEF TimeInv
    <3>4. due \in [Modules -> Distances]
      BY DEF TimeInv
    <3>5. Sorted(Insert(order, m), due)
      BY <2>2, <2>4, <3>3, <3>4, InsertIsSorted
    <3>6. Sorted(order', due')
      BY <1>1, <3>1, <3>5
    <3>7. looping \subseteq ToSet(order') \cup ToSet(todo')
      BY <2>3, <2>4, <3>2
    <3>8. Once(order') /\ ToSet(order') \cap ToSet(todo') = {}
      BY <2>2, <2>4, <2>a, <2>c, <3>1, <3>2, InsertIsOnce
    <3> QED BY <1>1, <2>d, <3>6, <3>7, <3>8 DEF QueueInv
  <2>6. CASE m \notin looping
    <3>1. order' = order
      BY <2>1, <2>6
    <3>2. looping \subseteq ToSet(order') \cup ToSet(todo')
      BY <2>3, <2>4, <2>6, <3>1
    <3>3. Sorted(order', due')
      BY <1>1, <2>4, <3>1
    <3>4. Once(order') /\ ToSet(order') \cap ToSet(todo') = {}
      BY <2>4, <2>c, <3>1
    <3> QED BY <1>1, <2>d, <3>2, <3>3, <3>4 DEF QueueInv
  <2> QED BY <2>5, <2>6
<1> QED BY <1>2, <1>3

\* Defer and Fired: the first of the order is due at d, after this pass, and is
\* moved to its place.
LEMMA QueueMove ==
  ASSUME QueueInv, TimeInv, OrderInv, TimeInv', NEW d \in Int, d > at, MoveOn(d),
         k = 1, Len(order) > 0, pc \in {"walk", "loop"}, pc' = "walk",
         UNCHANGED <<looping, at>>
  PROVE  QueueInv'
<1>1. /\ due' = [due EXCEPT ![order[1]] = d]
      /\ order' = Sifted(order, due', 1)
      /\ k' = IF SiftTo(order, due', 1) = 1 THEN 2 ELSE 1
  BY DEF MoveOn
<1>2. /\ order \in Seq(Modules) /\ Len(order) \in Nat /\ 1 \in 1..Len(order)
      /\ ToSet(order) \subseteq looping /\ looping \subseteq Modules
  BY DEF OrderInv, TimeInv
<1>3. Sorted(order, due) /\ looping \subseteq ToSet(order) /\ Once(order)
  BY DEF QueueInv
<1>4. due' \in [Modules -> Distances]
  BY DEF TimeInv
<1>5. \A n \in ToSet(order) : due'[n] \in -(Away + Stall)..MaxInterval
  BY <1>2 DEF TimeInv
<1>6. ToSet(order') = ToSet(order)
  BY <1>1, <1>2, SiftedKeeps
<1>7. \A i \in 2..Len(order) : order[i] # order[1] /\ order[i] \in Modules /\ i \in 1..Len(order)
  BY <1>2, <1>3 DEF Once
<1>8. \A i \in 2..Len(order) : due'[order[i]] = due[order[i]]
  BY <1>1, <1>7 DEF TimeInv
<1>9. \A i, j \in 2..Len(order) : i < j => due'[order[i]] <= due'[order[j]]
  BY <1>3, <1>7, <1>8 DEF Sorted
<1>10. Sorted(order', due') /\ Once(order')
  BY <1>1, <1>2, <1>3, <1>4, <1>5, <1>9, SiftedIsSorted, SiftedOnce
<1>11. due'[order[1]] = d /\ order[1] \in Modules
  BY <1>1, <1>2 DEF TimeInv
<1>12. ASSUME NEW i \in 1 .. k' - 1 PROVE due'[order'[i]] > at'
  <2>1. i = 1 /\ SiftTo(order, due', 1) = 1
    BY <1>1, <1>12
  <2>2. order' = InsertAt(RemoveAt(order, 1), 1, order[1])
    BY <1>1, <2>1 DEF Sifted
  <2>3. RemoveAt(order, 1) \in Seq(Modules) /\ Len(RemoveAt(order, 1)) = Len(order) - 1
    BY <1>2, RemoveAtKeeps
  <2>4. order'[1] = order[1]
    <3>1. 1 \in 1..Len(RemoveAt(order, 1))+1
      BY <1>2, <2>3
    <3> QED BY <1>11, <2>2, <2>3, <3>1, InsertAtKeeps
  <2> QED BY <1>11, <2>1, <2>4
<1> QED BY <1>3, <1>6, <1>10, <1>12 DEF QueueInv

\* fire_slot and a closed gate: the new due time lies after the start of the pass.
LEMMA QueueRun ==
  ASSUME QueueInv, TimeInv, OrderInv, TimeInv', Defer \/ Fired PROVE QueueInv'
<1>1. /\ k = 1 /\ Len(order) > 0 /\ pc \in {"walk", "loop"} /\ pc' = "walk"
      /\ UNCHANGED <<looping, at>>
  <2>1. CASE Defer
    BY <2>1, DueIsFirst DEF Defer, AtDueModule, slots
  <2>2. CASE Fired
    BY <2>2 DEF Fired, QueueInv, OrderInv, slots
  <2> QED BY <2>1, <2>2
<1> DEFINE m == order[1]
<1>2. m \in Modules /\ interval[m] \in 1..MaxInterval /\ at \in -Stall..0
  BY <1>1 DEF OrderInv, TimeInv
<1> DEFINE r == IF Fired THEN interval[m] ELSE Lesser(interval[m], RetryMax)
<1>3. MoveOn(Signed(at + r))
  BY <1>1 DEF Defer, Fired
<1> HIDE DEF m
<1>4. r \in 1..MaxInterval
  BY <1>2, Widths DEF Lesser
<1> HIDE DEF r
<1>5. at + r \in -Half..Half-1
  BY <1>2, <1>4, Widths
<1>6. Signed(at + r) = at + r
  BY <1>5, SignedSmall
<1>7. at + r \in Int /\ at + r > at /\ MoveOn(at + r)
  BY <1>2, <1>3, <1>4, <1>6
<1> HIDE DEF TimeInv, QueueInv, OrderInv
<1> QED BY <1>1, <1>7, QueueMove

\* onStart: everything in the order is due at once.
LEMMA QueueOtaStart == ASSUME QueueInv, TimeInv, OrderInv, OtaStart PROVE QueueInv'
<1>1. /\ UNCHANGED <<looping, order, pc, k, todo, at>> /\ pc \in {"loop", "ota"}
      /\ due' = [m \in Modules |-> IF m \in ToSet(order) THEN 0 ELSE due[m]]
  BY DEF OtaStart, InOtaModule, slots, walking
<1>2. ASSUME NEW i \in 1..Len(order) PROVE due'[order[i]] = 0
  BY <1>1, <1>2, ToSetHas DEF OrderInv
<1>3. Sorted(order', due')
  BY <1>1, <1>2 DEF Sorted
<1>4. pc = "loop" => due'[order[1]] <= 0
  BY <1>2 DEF OrderInv, QueueInv
<1> QED BY <1>1, <1>3, <1>4 DEF QueueInv, Once

\* Every step keeps the order.
LEMMA QueueStep ==
  QueueInv /\ TimeInv /\ OrderInv /\ RequestInv /\ [Next]_vars => QueueInv'
<1> SUFFICES ASSUME QueueInv, TimeInv, OrderInv, RequestInv, [Next]_vars PROVE QueueInv'
  OBVIOUS
<1>0. TimeInv'
  BY TimeStep
<1>1. ASSUME NEW m \in Modules, NEW ms \in Asked, SetLoopInterval(m, ms)
      PROVE QueueInv'
  BY <1>1, QueueKept DEF SetLoopInterval, slots, times, walking
<1>2. CASE ApplyStart \/ ApplySlot
  <2>1. pc' = "apply"
    BY <1>2 DEF ApplyStart, ApplySlot
  <2> QED BY <2>1 DEF QueueInv
<1>3. CASE RebuildStart \/ RebuildSlot
  BY <1>3, QueueRebuild
<1>4. CASE ApplyEnd
  <2>1. /\ pc = "rebuild" /\ todo = <<>> /\ pc' \in {"idle", "begin"}
        /\ UNCHANGED <<order, due, looping>>
    BY <1>4 DEF ApplyEnd, EndPass, slots
  <2>2. ToSet(todo) = {}
    BY <2>1 DEF ToSet
  <2> QED BY <2>1, <2>2 DEF QueueInv, Sorted, Once
<1>5. CASE PassStart \/ WalkStart \/ OtaPass \/ OtaLoop \/ OtaPassEnd \/ WalkEnd
  <2>1. /\ UNCHANGED <<order, due, looping>>
        /\ pc \notin {"apply", "rebuild"} /\ pc' \notin {"rebuild", "loop"}
        /\ pc' = "walk" => k' = 1
    BY <1>5 DEF PassStart, WalkStart, OtaPass, OtaLoop, OtaPassEnd, WalkEnd, EndPass,
                slots, times
  <2> QED BY <2>1, QueuePass
<1>6. CASE Defer \/ Fired
  BY <1>0, <1>6, QueueRun
<1>7. CASE \E m \in Modules : Fire(m)
  <2>1. /\ AtDueModule /\ pc' = "loop" /\ pc = "walk"
        /\ UNCHANGED <<order, due, looping, k>>
    BY <1>7 DEF Fire, AtDueModule, slots
  <2>2. k = 1 /\ due[order[1]] <= 0
    BY <2>1, DueIsFirst
  <2> QED BY <2>1, <2>2 DEF QueueInv, Sorted, Once
<1>8. CASE OtaStart
  BY <1>8, QueueOtaStart
<1>9. CASE OtaError
  BY <1>9, QueueKept DEF OtaError, slots, times, walking
<1>10. CASE Tick
  BY <1>10, QueueTick
<1>11. CASE UNCHANGED vars
  BY <1>11, QueueKept DEF vars, slots, times, walking
<1> QED
  BY <1>1, <1>2, <1>3, <1>4, <1>5, <1>6, <1>7, <1>8, <1>9, <1>10, <1>11
     DEF Next, LoopTask, Ask

----------------------------------------------------------------------------
\* next_wake: before any module of the order is due, and near.
LEMMA NextWakeInTime ==
  ASSUME QueueInv, TimeInv, OrderInv, pc = "walk"
  PROVE  /\ NextWake \in -(Away + Stall)..WakeMax
         /\ \A m \in looping : NextWake <= due[m]
<1>1. at \in -Stall..0 /\ WakeMax \in Nat \ {0} /\ Stall \in Nat /\ Away \in Nat
  BY TimeAssumption DEF TimeInv
<1>2. MaxInterval + RetryMax + WakeMax + 2 * Stall + Away < Half /\ Half \in Nat
      /\ RetryMax \in Nat /\ MaxInterval \in Nat
  BY TimeAssumption
<1>3. at + WakeMax \in -Half..Half-1
  BY <1>1, <1>2
<1>4. Signed(at + WakeMax) = at + WakeMax
  BY <1>3, SignedSmall
<1>5. looping \subseteq ToSet(order) /\ Sorted(order, due) /\ order \in Seq(Modules)
  BY DEF QueueInv, OrderInv
<1>6. CASE order = <<>>
  <2>1. looping = {}
    BY <1>5, <1>6 DEF ToSet
  <2>2. NextWake = at + WakeMax
    BY <1>4, <1>6 DEF NextWake
  <2> QED BY <1>1, <2>1, <2>2
<1>7. CASE order # <<>>
  <2>1. 1 \in 1..Len(order) /\ Len(order) \in Nat
    BY <1>5, <1>7
  <2> DEFINE d == due[order[1]]
  <2>2. d \in -(Away + Stall)..MaxInterval
    BY <2>1, OrderNear
  <2>3. ASSUME NEW m \in looping PROVE d <= due[m]
    <3>1. PICK i \in 1..Len(order) : order[i] = m
      BY <1>5 DEF ToSet
    <3>2. i = 1 \/ 1 < i
      BY <3>1
    <3>3. due[m] \in Int
      BY DEF TimeInv, Distances
    <3> QED BY <1>5, <2>1, <3>1, <3>2, <3>3 DEF Sorted
  <2>4. NextWake = IF Signed(d - (at + WakeMax)) > 0 THEN at + WakeMax ELSE d
    BY <1>4, <1>7 DEF NextWake
  <2> HIDE DEF d
  <2>5. d - (at + WakeMax) \in -Half..Half-1
    BY <1>1, <1>2, <2>2
  <2>6. NextWake = IF d > at + WakeMax THEN at + WakeMax ELSE d
    <3>1. Signed(d - (at + WakeMax)) = d - (at + WakeMax)
      BY <2>5, SignedSmall
    <3> QED BY <1>1, <1>2, <2>2, <2>4, <3>1
  <2>7. \A m \in looping : due[m] \in Int
    BY DEF TimeInv, Distances
  <2> QED BY <1>1, <1>2, <2>2, <2>3, <2>6, <2>7
<1> QED BY <1>6, <1>7

\* begin() starts a loop that is due at once.
LEMMA WakeInit == Init => WakeInv
<1> SUFFICES ASSUME Init PROVE WakeInv
  OBVIOUS
<1>1. PICK boot \in 0..Away : due = [m \in Modules |-> -boot] /\ next_loop_due = -boot
  BY DEF Init
<1>2. at = 0 /\ boot \in Nat /\ boot <= Away
  BY <1>1, TimeAssumption DEF Init
<1>3. next_loop_due \in at - (Away + Stall) .. WakeMax /\ ~(next_loop_due > 0)
  BY <1>1, <1>2, TimeAssumption
<1>4. TimeInv
  BY TimeInit
<1>5. ASSUME NEW m \in looping PROVE due[m] <= interval[m]
  <2>1. m \in Modules /\ interval[m] \in 1..MaxInterval
    BY <1>4 DEF TimeInv
  <2> QED BY <1>1, <1>2, <2>1, TimeAssumption
<1> QED BY <1>2, <1>3, <1>5 DEF WakeInv

\* A step that leaves the times.
LEMMA WakeKept ==
  ASSUME WakeInv, UNCHANGED <<due, interval, looping, at, next_loop_due>>, pc' # "idle"
  PROVE  WakeInv'
BY DEF WakeInv

\* The clock moves the time of the loop and those of the modules alike.
LEMMA WakeTick == ASSUME WakeInv, TimeInv, OrderInv, Tick PROVE WakeInv'
<1>1. UNCHANGED <<looping, interval, pc>>
  BY DEF Tick, slots, walking
<1>2. /\ Stall \in Nat /\ Away \in Nat /\ WakeMax \in Nat \ {0}
      /\ WakeMax + 2 * Stall + Away + 1 < Half /\ Half \in Nat
  BY TimeAssumption
<1>3. /\ at \in -Stall..0 /\ (pc = "idle" => at = 0)
      /\ next_loop_due \in at - (Away + Stall) .. WakeMax
  BY DEF TimeInv, WakeInv
<1>4. next_loop_due - 1 \in -Half..Half-1
  BY <1>2, <1>3
<1>5. next_loop_due' = next_loop_due - 1
  BY <1>4, SignedSmall DEF Tick
<1>6. next_loop_due' \in at' - (Away + Stall) .. WakeMax
  <2>1. CASE pc = "idle"
    BY <1>2, <1>3, <1>5, <2>1 DEF Tick
  <2>2. CASE pc # "idle"
    BY <1>2, <1>3, <1>5, <2>2 DEF Tick
  <2> QED BY <2>1, <2>2
<1>7. ASSUME NEW m \in looping
      PROVE  due'[m] = due[m] - 1 /\ due[m] \in Int /\ interval[m] \in Int
  <2>1. m \in Modules /\ due[m] \in -(Away + Stall)..MaxInterval /\ interval[m] \in Int
    BY DEF TimeInv
  <2>2. due[m] - 1 \in -Half..Half-1
    BY <2>1, Widths
  <2> QED BY <2>1, <2>2, SignedSmall, Widths DEF Tick
<1>8. pc = "idle" => at' = 0
  BY DEF Tick
<1>9. ASSUME pc = "idle", next_loop_due' > 0, NEW m \in looping
      PROVE  next_loop_due' <= due'[m]
  <2>1. next_loop_due > 0 /\ next_loop_due \in Int
    BY <1>3, <1>5, <1>9, <1>2
  <2>2. next_loop_due <= due[m]
    BY <1>9, <2>1 DEF WakeInv
  <2> QED BY <1>5, <1>7, <2>1, <2>2
<1>10. ASSUME NEW m \in looping PROVE due'[m] <= interval[m]
  <2>1. due[m] <= interval[m]
    BY DEF WakeInv
  <2> QED BY <1>7, <2>1
<1> QED BY <1>1, <1>6, <1>8, <1>9, <1>10 DEF WakeInv

\* apply_pending: what is asked for is due within its interval.
LEMMA WakeApply == ASSUME WakeInv, TimeInv, RequestInv, ApplySlot PROVE WakeInv'
<1> DEFINE m == Head(todo)
           ms == request[m]
           every == LoopIntervalFrom(ms)
           d == IF applied + age[m] >= every THEN applied ELSE Signed(every - age[m])
<1>1. m \in Modules /\ ms \in Int
  <2>1. todo \in Seq(Modules) /\ todo # <<>>
    BY DEF ApplySlot, RequestInv
  <2>2. m \in Modules
    BY <2>1
  <2>3. request[m] \in Asked \cup {NoRequest}
    BY <2>2 DEF RequestInv
  <2> HIDE DEF m
  <2>4. Asked \cup {NoRequest} \subseteq Int
    BY ModuleAssumption DEF Off, NoRequest
  <2> QED BY <2>2, <2>3, <2>4
<1>2. every \in 1..MaxInterval
  BY <1>1, IntervalRange
<1>3. UNCHANGED <<at, next_loop_due, pc>> /\ pc = "apply"
  BY DEF ApplySlot
<1>4. CASE ms >= 0
  <2>1. /\ looping' = looping \cup {m}
        /\ interval' = [interval EXCEPT ![m] = every]
        /\ due' = [due EXCEPT ![m] = d]
    BY <1>4 DEF ApplySlot
  <2> HIDE DEF ms, every
  <2>2. d <= every
    <3>1. age[m] \in 0..AgeMax /\ applied <= 0 /\ applied \in Int
      BY <1>1 DEF TimeInv
    <3>2. every - age[m] \in -Half..Half-1
      BY <1>2, <3>1, Widths
    <3>3. Signed(every - age[m]) = every - age[m]
      BY <3>2, SignedSmall
    <3> QED BY <1>2, <3>1, <3>3, Widths
  <2> HIDE DEF m, d
  <2>3. interval'[m] = every /\ due'[m] = d
    BY <1>1, <2>1 DEF TimeInv
  <2>4. \A n \in Modules \ {m} : interval'[n] = interval[n] /\ due'[n] = due[n]
    BY <1>1, <2>1 DEF TimeInv
  <2>5. \A n \in looping' : due'[n] <= interval'[n]
    BY <2>1, <2>2, <2>3, <2>4 DEF WakeInv, TimeInv
  <2> QED BY <1>3, <2>5 DEF WakeInv
<1>5. CASE ms < 0
  <2>1. looping' \subseteq looping /\ UNCHANGED <<interval, due>>
    BY <1>1, <1>5 DEF ApplySlot
  <2> QED BY <1>3, <2>1 DEF WakeInv
<1> QED BY <1>1, <1>4, <1>5

\* fire_slot and a closed gate: the module is due again within its interval.
LEMMA WakeRun == ASSUME WakeInv, TimeInv, OrderInv, Defer \/ Fired PROVE WakeInv'
<1> DEFINE m == order[k]
           r == IF Fired THEN interval[m] ELSE Lesser(interval[m], RetryMax)
<1>1. /\ m \in Modules /\ interval[m] \in 1..MaxInterval /\ at \in -Stall..0
      /\ UNCHANGED <<looping, interval, at, next_loop_due>> /\ pc' = "walk"
  BY DEF Defer, Fired, AtDueModule, OrderInv, TimeInv, slots
<1>2. due' = [due EXCEPT ![m] = Signed(at + r)]
  BY <1>1 DEF Defer, Fired, MoveOn
<1>3. r \in 1..interval[m]
  BY <1>1, Widths DEF Lesser
<1> HIDE DEF m, r
<1>4. at + r \in -Half..Half-1
  BY <1>1, <1>3, Widths
<1>5. Signed(at + r) = at + r /\ at + r <= interval[m]
  BY <1>1, <1>3, <1>4, SignedSmall
<1>6. \A n \in looping : due'[n] <= interval[n]
  BY <1>2, <1>5 DEF WakeInv, TimeInv
<1> QED BY <1>1, <1>6 DEF WakeInv

\* A pass ends: the loop is due again, at once or when next_wake says.
LEMMA WakeEnd ==
  ASSUME WakeInv, TimeInv, OrderInv, QueueInv, ApplyEnd \/ WalkEnd \/ OtaPassEnd
  PROVE  WakeInv'
<1>1. /\ Stall \in Nat /\ Away \in Nat /\ WakeMax \in Nat
      /\ at \in -Stall..0 /\ applied \in at..0
  BY TimeAssumption DEF TimeInv
<1>2. UNCHANGED <<looping, interval, due>>
  BY DEF ApplyEnd, WalkEnd, OtaPassEnd, slots
<1>3. CASE ApplyEnd
  <2>1. next_loop_due' = applied /\ (pc' = "idle" => at' = 0) /\ (at' = 0 \/ at' = at)
    BY <1>3 DEF ApplyEnd, EndPass
  <2> QED BY <1>1, <1>2, <2>1 DEF WakeInv
<1>4. CASE OtaPassEnd
  <2>1. next_loop_due' = at /\ at' = 0
    BY <1>4 DEF OtaPassEnd, EndPass
  <2> QED BY <1>1, <1>2, <2>1 DEF WakeInv
<1>5. CASE WalkEnd
  <2>1. next_loop_due' = NextWake /\ at' = 0 /\ pc = "walk"
    BY <1>5 DEF WalkEnd, EndPass
  <2> QED BY <1>1, <1>2, <2>1, NextWakeInTime DEF WakeInv
<1> QED BY <1>3, <1>4, <1>5

\* Every step keeps the time at which the loop wakes.
LEMMA WakeStep ==
  WakeInv /\ QueueInv /\ TimeInv /\ OrderInv /\ RequestInv /\ [Next]_vars => WakeInv'
<1> SUFFICES ASSUME WakeInv, QueueInv, TimeInv, OrderInv, RequestInv, [Next]_vars
             PROVE  WakeInv'
  OBVIOUS
<1>1. CASE ApplyStart \/ PassStart \/ RebuildStart \/ RebuildSlot \/ WalkStart
           \/ OtaPass \/ OtaLoop \/ (\E m \in Modules : Fire(m))
  <2>1. UNCHANGED <<due, interval, looping, at, next_loop_due>> /\ pc' # "idle"
    BY <1>1 DEF ApplyStart, PassStart, RebuildStart, RebuildSlot, WalkStart, OtaPass,
                OtaLoop, Fire, slots, times
  <2> QED BY <2>1, WakeKept
<1>2. CASE ApplySlot
  BY <1>2, WakeApply
<1>3. CASE ApplyEnd \/ WalkEnd \/ OtaPassEnd
  BY <1>3, WakeEnd
<1>4. CASE Defer \/ Fired
  BY <1>4, WakeRun
<1>5. CASE OtaStart
  <2>1. /\ UNCHANGED <<looping, interval, pc, at>> /\ pc \in {"loop", "ota"}
        /\ due' = [m \in Modules |-> IF m \in ToSet(order) THEN 0 ELSE due[m]]
        /\ next_loop_due' = 0
    BY <1>5 DEF OtaStart, InOtaModule, slots, walking
  <2>2. \A m \in looping : due'[m] <= interval[m]
    BY <2>1 DEF WakeInv, TimeInv
  <2>3. 0 \in at - (Away + Stall) .. WakeMax
    BY TimeAssumption DEF TimeInv
  <2> QED BY <2>1, <2>2, <2>3 DEF WakeInv
<1>6. CASE Tick
  BY <1>6, WakeTick
<1>7. CASE OtaError \/ Ask \/ UNCHANGED vars
  <2>1. UNCHANGED <<due, interval, looping, at, next_loop_due, pc>>
    BY <1>7 DEF OtaError, Ask, SetLoopInterval, vars, slots, times, walking
  <2> QED BY <2>1 DEF WakeInv
<1> QED
  BY <1>1, <1>2, <1>3, <1>4, <1>5, <1>6, <1>7 DEF Next, LoopTask

\* The invariant of the wake.
THEOREM WakeInductive == Spec => [](WakeInv /\ QueueInv /\ TimeInv /\ OrderInv)
<1>1. Init => WakeInv /\ QueueInv
  BY WakeInit, QueueInit
<1>2. WakeInv /\ QueueInv /\ (RequestInv /\ OrderInv /\ TimeInv) /\ [Next]_vars
        => (WakeInv /\ QueueInv)'
  BY QueueStep, WakeStep
<1> QED BY <1>1, <1>2, TimesInductive, PTL DEF Spec

(* next_wake and apply_pending: while the loop is idle it is due before    *)
(* any module is, soon enough to see the requests of the other tasks, and  *)
(* no module waits for longer than its interval, for any modules, any      *)
(* intervals and requests, and wherever the clock wraps.                   *)
THEOREM WakesForAll == Spec => []WakesInTime
<1>1. ASSUME WakeInv, TimeInv PROVE WakesInTime
  <2>1. DueInTime
    BY <1>1 DEF WakeInv, DueInTime
  <2>2. next_loop_due <= WakeMax /\ next_loop_due \in Int
    BY <1>1, TimeAssumption DEF WakeInv, TimeInv
  <2>3. ASSUME pc = "idle", next_loop_due > 0, NEW m \in looping
        PROVE  Signed(next_loop_due - due[m]) <= 0
    <3>1. next_loop_due <= due[m] /\ due[m] \in -(Away + Stall)..MaxInterval
      BY <1>1, <2>3 DEF WakeInv, TimeInv
    <3>2. next_loop_due - due[m] \in -Half..Half-1
      BY <2>2, <2>3, <3>1, TimeAssumption
    <3> QED BY <2>2, <3>1, <3>2, SignedSmall, Widths
  <2> QED BY <2>1, <2>2, <2>3 DEF WakesInTime, NoOversleep
<1> QED BY <1>1, WakeInductive, PTL

(* loop_all: when a walk ends, every module that loops is due after the    *)
(* start of the pass.                                                      *)
THEOREM WalksAreComplete == Spec => WalkIsComplete
<1>1. ASSUME QueueInv, TimeInv, OrderInv, WalkEnd, NEW m \in looping
      PROVE  Signed(due[m] - at) > 0
  <2>1. /\ pc = "walk" /\ ~AtDueModule /\ k \in 1..Len(order)+1 /\ Len(order) \in Nat
        /\ at \in -Stall..0
    BY <1>1 DEF WalkEnd, OrderInv, TimeInv
  <2>2. PICK i \in 1..Len(order) : order[i] = m
    BY <1>1, <2>1 DEF QueueInv, ToSet
  <2>3. \A j \in 1..Len(order) : due[order[j]] \in -(Away + Stall)..MaxInterval
    BY <1>1, <2>1, OrderNear
  <2>4. due[m] > at
    <3>1. CASE i < k
      <4>1. i \in 1..k-1
        BY <2>1, <2>2, <3>1
      <4> QED BY <1>1, <2>1, <2>2, <4>1 DEF QueueInv
    <3>2. CASE i >= k
      <4>1. k \in 1..Len(order) /\ ~(Signed(at - due[order[k]]) >= 0)
        BY <2>1, <2>2, <3>2 DEF AtDueModule
      <4> DEFINE e == due[order[k]]
      <4>2. e \in -(Away + Stall)..MaxInterval /\ e \in Int
        <5>1. e \in -(Away + Stall)..MaxInterval
          BY <2>3, <4>1
        <5> QED BY <5>1, Widths
      <4>a. at \in -(Away + Stall)..MaxInterval /\ at \in Int
        BY <2>1, Widths
      <4>b. ~(at - e >= 0)
        BY <4>1, <4>2, <4>a, NearCompared
      <4>3. due[order[k]] > at
        <5> HIDE DEF e
        <5>1. e > at
          BY <4>2, <4>a, <4>b
        <5> QED BY <5>1 DEF e
      <4>4. due[order[k]] <= due[order[i]]
        <5>1. i = k \/ k < i
          BY <2>1, <2>2, <3>2
        <5> QED BY <1>1, <2>1, <2>2, <2>3, <4>1, <5>1, Widths DEF QueueInv, Sorted
      <4> QED BY <2>1, <2>2, <2>3, <4>1, <4>3, <4>4, Widths
    <3> QED BY <2>1, <2>2, <3>1, <3>2
  <2>5. due[m] - at \in -Half..Half-1 /\ due[m] \in Int
    <3>1. due[m] \in -(Away + Stall)..MaxInterval
      BY <2>2, <2>3
    <3> QED BY <2>1, <3>1, Widths
  <2> QED BY <2>1, <2>4, <2>5, SignedSmall
<1>2. WakeInv /\ QueueInv /\ TimeInv /\ OrderInv /\ [Next]_vars =>
        [WalkEnd => \A m \in looping : Signed(due[m] - at) > 0]_vars
  BY <1>1
<1> QED BY <1>2, WakeInductive, PTL DEF Spec, WalkIsComplete

----------------------------------------------------------------------------
(* The commands to the NMI: the stores that a caller has yet to make are    *)
(* the last ones of post() or of timer_start(), and while the loop makes    *)
(* those of post() no interrupt comes.                                      *)
AllPins == LoopPins \cup InterruptPins \cup {NoPin}
PostTails == {PostStores, <<"idle", "write">>, <<"write">>, <<>>}
TimerTails ==
  {TimerStores, <<"on", "idle", "write">>, <<"idle", "write">>, <<"write">>, <<>>}

SoftType == [pin : AllPins, high : BOOLEAN, ends : BOOLEAN]
CallerType ==
  [at : {"rest", "ask", "wait", "late", "timer"}, ask : {"none", "start", "stop"},
   pin : AllPins, ends : BOOLEAN, todo : PostTails \cup TimerTails, mine : 0 .. MaxPosts]

EdgeTypes ==
  /\ op \in {"none", "start", "stop"} /\ cmd \in [pin : AllPins, ends : BOOLEAN, seq : Nat]
  /\ seq \in 0 .. MaxPosts /\ done \in 0 .. seq
  /\ ok_bits \in [0 .. Bits - 1 -> BOOLEAN] /\ soft \in [1 .. SoftMax -> SoftType]
  /\ timed \in BOOLEAN /\ armed \in BOOLEAN /\ caller \in [Callers -> CallerType]
  /\ fate \in [1 .. MaxPosts -> {"none", "accepted", "refused"}]
  /\ told \in [1 .. MaxPosts -> {"none", "yes", "no"}]

StoresInv ==
  /\ \A who \in Callers :
       /\ caller[who].at \in {"rest", "ask", "late"} => caller[who].todo = <<>>
       /\ caller[who].at = "wait" => caller[who].todo \in PostTails
       /\ caller[who].at = "timer" => who = "loop" /\ caller[who].todo \in TimerTails
       /\ caller[who].at \in {"ask", "wait"} => caller[who].ask # "none"
  /\ caller["loop"].at = "wait" /\ caller["loop"].todo # <<>> => caller["interrupt"].at = "rest"

(* The numbers: a caller that waits has one of its own, and no answer yet.  *)
(* What is in the slot has the last number, and is not done; what a caller  *)
(* that gave up left there is not in it any more.                           *)
Posted(who) == caller[who].at \in {"wait", "late"}

CallersInv ==
  /\ \A who \in Callers :
       /\ Posted(who) => caller[who].mine \in 1 .. seq /\ told[caller[who].mine] = "none"
       /\ caller[who].todo = PostStores =>
            op = "none" /\ caller[who].mine = seq /\ done < seq
       /\ caller[who].at = "late" /\ caller[who].mine = seq => op = "none"
  /\ Posted("loop") /\ Posted("interrupt") => caller["loop"].mine # caller["interrupt"].mine

NumbersInv ==
  /\ cmd.seq = seq
  /\ op # "none" => done < seq
  /\ \A n \in 1 .. MaxPosts :
       /\ fate[n] # "none" => n <= done
       /\ told[n] # "none" => n <= seq
       /\ ok_bits[n] <=> fate[n] = "accepted"

OneSlotEach ==
  \A i, j \in 1 .. SoftMax : soft[i].pin = soft[j].pin /\ soft[i].pin # NoPin => i = j

EdgeInv ==
  /\ EdgeTypes /\ StoresInv /\ CallersInv /\ NumbersInv /\ OneSlotEach
  /\ AnswersAreTrue /\ NeverAsleep

LEMMA EdgeNat == /\ MaxPosts \in Nat /\ Bits \in Nat /\ Bits > MaxPosts /\ SoftMax \in Nat
                 /\ NoPin \notin LoopPins \cup InterruptPins
BY EdgeAssumption, Zenon

\* Every number of the run has a bit of its own.
LEMMA BitIsOwn == ASSUME NEW n \in 1 .. MaxPosts PROVE Bit(n) = n /\ n \in 0 .. Bits - 1
<1>1. Bits \in Nat /\ n \in Nat /\ n < Bits /\ n >= 0
  BY EdgeNat
<1>2. n % Bits = n
  BY <1>1, SMT
<1> QED BY <1>1, <1>2 DEF Bit

\* The stores, one by one.
LEMMA Tails ==
  ASSUME NEW t \in PostTails \cup TimerTails, t # <<>>
  PROVE  /\ Head(t) \in {"op", "idle", "write", "off", "on"}
         /\ Head(t) = "op" <=> t = PostStores
         /\ Tail(t) \in PostTails \cup TimerTails
         /\ t \in PostTails => Tail(t) \in PostTails /\ Head(t) \in {"op", "idle", "write"}
         /\ t \in TimerTails => Tail(t) \in TimerTails
         /\ Tail(t) # PostStores
         /\ Tail(t) = <<>> => Head(t) = "write"
<1>1. CASE t = PostStores
  <2>1. Head(t) = "op" /\ Tail(t) = <<"idle", "write">>
    BY <1>1 DEF PostStores
  <2> QED BY <1>1, <2>1 DEF PostTails, TimerTails, PostStores, TimerStores
<1>2. CASE t = TimerStores
  <2>1. Head(t) = "off" /\ t = <<"off", "on", "idle", "write">>
    BY <1>2 DEF TimerStores
  <2>2. Tail(<<"off", "on", "idle", "write">>) = <<"on", "idle", "write">>
    OBVIOUS
  <2>3. Tail(t) = <<"on", "idle", "write">>
    BY <2>1, <2>2
  <2>4. Tail(t) \in TimerTails /\ t \notin PostTails /\ t # PostStores
        /\ Tail(t) # PostStores /\ Tail(t) # <<>>
    BY <2>1, <2>3 DEF PostTails, TimerTails, PostStores
  <2> QED BY <2>1, <2>4
<1>3. CASE t = <<"on", "idle", "write">>
  <2>1. Head(t) = "on"
    BY <1>3
  <2>2. Tail(<<"on", "idle", "write">>) = <<"idle", "write">>
    OBVIOUS
  <2>3. Tail(t) = <<"idle", "write">>
    BY <1>3, <2>2
  <2>4. Tail(t) \in TimerTails /\ t \notin PostTails /\ t # PostStores
        /\ Tail(t) # PostStores /\ Tail(t) # <<>>
    BY <1>3, <2>3 DEF PostTails, TimerTails, PostStores
  <2> QED BY <2>1, <2>4
<1>4. CASE t = <<"idle", "write">>
  <2>1. Head(t) = "idle" /\ Tail(t) = <<"write">>
    BY <1>4
  <2> QED BY <1>4, <2>1 DEF PostTails, TimerTails, PostStores, TimerStores
<1>5. CASE t = <<"write">>
  <2>1. Head(t) = "write" /\ Tail(t) = <<>>
    BY <1>5
  <2> QED BY <1>5, <2>1 DEF PostTails, TimerTails, PostStores, TimerStores
<1> QED BY <1>1, <1>2, <1>3, <1>4, <1>5 DEF PostTails, TimerTails

\* Who runs finds no store of post() ahead of the other caller.
LEMMA RunsAlone ==
  ASSUME EdgeTypes, StoresInv, NEW who \in Callers, Runs(who),
         NEW o \in Callers, o # who
  PROVE  /\ caller[o].todo # PostStores
         /\ ~(caller[o].at = "wait" /\ caller[o].todo # <<>>)
<1>1. CASE who = "loop"
  <2>1. o = "interrupt" /\ caller[o].todo = <<>> /\ caller[o].at = "rest"
    BY <1>1 DEF Callers, Runs, StoresInv
  <2> QED BY <2>1 DEF PostStores
<1>2. CASE who = "interrupt"
  <2>1. o = "loop" /\ ~Masked("loop")
    BY <1>2 DEF Callers, Runs
  <2>2. caller[o] \in CallerType
    BY DEF EdgeTypes
  <2>3. caller[o].todo \in PostTails \cup TimerTails
    BY <2>2 DEF CallerType
  <2>4. caller[o].todo # PostStores
    <3>1. PostStores # <<>> /\ Head(PostStores) = "op"
      BY DEF PostStores
    <3> QED BY <2>1, <3>1 DEF Masked
  <2>5. ~(caller[o].at = "wait" /\ caller[o].todo # <<>>)
    BY <2>1, <2>3, Tails DEF Masked, StoresInv
  <2> QED BY <2>4, <2>5
<1> QED BY <1>1, <1>2 DEF Callers

\* What becomes of one caller leaves the other alone.
LEMMA CallerBecomes ==
  ASSUME EdgeTypes, NEW who \in Callers, NEW r \in CallerType,
         caller' = [caller EXCEPT ![who] = r]
  PROVE  /\ caller' \in [Callers -> CallerType] /\ caller'[who] = r
         /\ \A o \in Callers : o # who => caller'[o] = caller[o]
BY DEF EdgeTypes

\* A caller at rest.
LEMMA RestingType == Resting \in CallerType /\ <<>> # PostStores
BY EdgeNat DEF Resting, CallerType, AllPins, PostTails, PostStores

\* To call or to give up before the slot is filled.
LEMMA CallKeeps ==
  ASSUME EdgeInv, NEW who \in Callers, NEW what \in {"start", "stop"},
         NEW p \in PinsOf(who), NEW ends \in BOOLEAN, Call(who, what, p, ends)
  PROVE  EdgeInv'
<1> DEFINE r == [Resting EXCEPT !.at = "ask", !.ask = what, !.pin = p, !.ends = ends]
<1>1. /\ Runs(who) /\ caller[who].at = "rest" /\ caller' = [caller EXCEPT ![who] = r]
      /\ UNCHANGED <<op, cmd, seq, done, ok_bits, soft, timed, armed, fate, told>>
  BY DEF Call
<1>2. r \in CallerType
  BY RestingType DEF CallerType, AllPins, PinsOf
<1>3. /\ caller' \in [Callers -> CallerType] /\ caller'[who] = r
      /\ \A o \in Callers : o # who => caller'[o] = caller[o]
  BY <1>1, <1>2, CallerBecomes DEF EdgeInv
<1>4. /\ r.at = "ask" /\ r.ask = what /\ r.todo = <<>> /\ <<>> # PostStores
  BY RestingType DEF Resting
<1> HIDE DEF r
<1>5. EdgeTypes'
  BY <1>1, <1>3 DEF EdgeInv, EdgeTypes
<1>6. StoresInv'
  BY <1>1, <1>3, <1>4, RunsAlone DEF EdgeInv, StoresInv, Callers
<1>7. CallersInv'
  BY <1>1, <1>3, <1>4 DEF EdgeInv, CallersInv, Callers, Posted
<1>8. NumbersInv' /\ OneSlotEach' /\ AnswersAreTrue'
  BY <1>1 DEF EdgeInv, NumbersInv, OneSlotEach, AnswersAreTrue
<1>9. NeverAsleep'
  <2>1. caller[who].todo = <<>>
    BY <1>1 DEF EdgeInv, StoresInv
  <2> QED BY <1>1, <1>3, <2>1 DEF EdgeInv, NeverAsleep, Carried
<1> QED BY <1>5, <1>6, <1>7, <1>8, <1>9 DEF EdgeInv

LEMMA BusyKeeps == ASSUME EdgeInv, NEW who \in Callers, Busy(who) PROVE EdgeInv'
<1>1. /\ Runs(who) /\ caller[who].at = "ask" /\ caller' = [caller EXCEPT ![who] = Resting]
      /\ UNCHANGED <<op, cmd, seq, done, ok_bits, soft, timed, armed, fate, told>>
  BY DEF Busy
<1>2. /\ caller' \in [Callers -> CallerType] /\ caller'[who] = Resting
      /\ \A o \in Callers : o # who => caller'[o] = caller[o]
  BY <1>1, RestingType, CallerBecomes DEF EdgeInv
<1>3. Resting.at = "rest" /\ Resting.todo = <<>> /\ <<>> # PostStores
  BY RestingType DEF Resting
<1>4. EdgeTypes'
  BY <1>1, <1>2 DEF EdgeInv, EdgeTypes
<1>5. StoresInv'
  BY <1>1, <1>2, <1>3, RunsAlone DEF EdgeInv, StoresInv, Callers
<1>6. CallersInv'
  BY <1>1, <1>2, <1>3 DEF EdgeInv, CallersInv, Callers, Posted
<1>7. NumbersInv' /\ OneSlotEach' /\ AnswersAreTrue'
  BY <1>1 DEF EdgeInv, NumbersInv, OneSlotEach, AnswersAreTrue
<1>8. NeverAsleep'
  <2>1. caller[who].todo = <<>>
    BY <1>1 DEF EdgeInv, StoresInv
  <2> QED BY <1>1, <1>2, <2>1 DEF EdgeInv, NeverAsleep, Carried
<1> QED BY <1>4, <1>5, <1>6, <1>7, <1>8 DEF EdgeInv

\* The timer, by the loop.
LEMMA StartTimerKeeps == ASSUME EdgeInv, StartTimer PROVE EdgeInv'
<1> DEFINE r == [Resting EXCEPT !.at = "timer", !.todo = TimerStores]
<1>1. /\ Runs("loop") /\ caller["loop"].at = "rest" /\ caller' = [caller EXCEPT !["loop"] = r]
      /\ UNCHANGED <<op, cmd, seq, done, ok_bits, soft, timed, armed, fate, told>>
  BY DEF StartTimer
<1>2. r \in CallerType /\ "loop" \in Callers
  BY RestingType DEF CallerType, TimerTails, Callers
<1>3. /\ caller' \in [Callers -> CallerType] /\ caller'["loop"] = r
      /\ \A o \in Callers : o # "loop" => caller'[o] = caller[o]
  BY <1>1, <1>2, CallerBecomes DEF EdgeInv
<1>4. /\ r.at = "timer" /\ r.todo = TimerStores /\ TimerStores # PostStores
      /\ TimerStores # <<>> /\ TimerStores \in TimerTails
  BY DEF TimerStores, PostStores, TimerTails, Resting
<1> HIDE DEF r
<1>5. EdgeTypes'
  BY <1>1, <1>3 DEF EdgeInv, EdgeTypes
<1>6. StoresInv'
  BY <1>1, <1>3, <1>4, RunsAlone DEF EdgeInv, StoresInv, Callers
<1>7. CallersInv'
  BY <1>1, <1>3, <1>4 DEF EdgeInv, CallersInv, Callers, Posted
<1>8. NumbersInv' /\ OneSlotEach' /\ AnswersAreTrue'
  BY <1>1 DEF EdgeInv, NumbersInv, OneSlotEach, AnswersAreTrue
<1>9. NeverAsleep'
  BY <1>2, <1>3, <1>4 DEF NeverAsleep
<1> QED BY <1>5, <1>6, <1>7, <1>8, <1>9 DEF EdgeInv

LEMMA TimerStartedKeeps == ASSUME EdgeInv, TimerStarted PROVE EdgeInv'
<1>1. /\ Runs("loop") /\ caller["loop"].at = "timer" /\ caller["loop"].todo = <<>>
      /\ caller' = [caller EXCEPT !["loop"] = Resting] /\ "loop" \in Callers
      /\ UNCHANGED <<op, cmd, seq, done, ok_bits, soft, timed, armed, fate, told>>
  BY DEF TimerStarted, Callers
<1>2. /\ caller' \in [Callers -> CallerType] /\ caller'["loop"] = Resting
      /\ \A o \in Callers : o # "loop" => caller'[o] = caller[o]
  BY <1>1, RestingType, CallerBecomes DEF EdgeInv
<1>3. Resting.at = "rest" /\ Resting.todo = <<>> /\ <<>> # PostStores
  BY RestingType DEF Resting
<1>4. EdgeTypes'
  BY <1>1, <1>2 DEF EdgeInv, EdgeTypes
<1>5. StoresInv'
  BY <1>1, <1>2, <1>3, RunsAlone DEF EdgeInv, StoresInv, Callers
<1>6. CallersInv'
  BY <1>1, <1>2, <1>3 DEF EdgeInv, CallersInv, Callers, Posted
<1>7. NumbersInv' /\ OneSlotEach' /\ AnswersAreTrue'
  BY <1>1 DEF EdgeInv, NumbersInv, OneSlotEach, AnswersAreTrue
<1>8. NeverAsleep'
  BY <1>1, <1>2 DEF EdgeInv, NeverAsleep, Carried
<1> QED BY <1>4, <1>5, <1>6, <1>7, <1>8 DEF EdgeInv

LEMMA StopTimerKeeps == ASSUME EdgeInv, StopTimer PROVE EdgeInv'
<1>1. timed' = FALSE /\ UNCHANGED <<op, cmd, seq, done, ok_bits, soft, armed, caller, fate, told>>
  BY DEF StopTimer
<1>2. EdgeTypes' /\ StoresInv' /\ CallersInv'
  BY <1>1 DEF EdgeInv, EdgeTypes, StoresInv, CallersInv, Posted
<1>3. NumbersInv' /\ OneSlotEach' /\ AnswersAreTrue'
  BY <1>1 DEF EdgeInv, NumbersInv, OneSlotEach, AnswersAreTrue
<1>4. NeverAsleep'
  BY <1>1 DEF EdgeInv, NeverAsleep, Carried
<1> QED BY <1>2, <1>3, <1>4 DEF EdgeInv

\* The slot is filled: the number is new, and nobody else has stores of post() to make.
LEMMA FillKeeps == ASSUME EdgeInv, NEW who \in Callers, Fill(who) PROVE EdgeInv'
<1> DEFINE r == [caller[who] EXCEPT !.at = "wait", !.todo = PostStores, !.mine = seq + 1]
<1>1. /\ Runs(who) /\ caller[who].at = "ask" /\ op = "none" /\ seq < MaxPosts
      /\ seq' = seq + 1
      /\ cmd' = [pin |-> caller[who].pin, ends |-> caller[who].ends, seq |-> seq + 1]
      /\ caller' = [caller EXCEPT ![who] = r]
      /\ UNCHANGED <<op, done, ok_bits, soft, timed, armed, fate, told>>
  BY DEF Fill, EdgeInv, EdgeTypes
<1>2. /\ seq \in Nat /\ seq + 1 \in 1 .. MaxPosts /\ done \in 0 .. seq
      /\ caller[who] \in CallerType
  BY <1>1, EdgeNat DEF EdgeInv, EdgeTypes
<1>3. r \in CallerType /\ r.at = "wait" /\ r.todo = PostStores /\ r.mine = seq + 1
      /\ r.ask = caller[who].ask
  <2>1. seq + 1 \in 0 .. MaxPosts /\ PostStores \in PostTails \cup TimerTails
    BY <1>2, EdgeNat DEF PostTails
  <2> QED BY <1>2, <2>1 DEF CallerType
<1>4. /\ caller' \in [Callers -> CallerType] /\ caller'[who] = r
      /\ \A o \in Callers : o # who => caller'[o] = caller[o]
  BY <1>1, <1>3, CallerBecomes DEF EdgeInv
<1> HIDE DEF r
<1>5. EdgeTypes'
  <2>1. cmd' \in [pin : AllPins, ends : BOOLEAN, seq : Nat] /\ cmd'.seq = seq + 1
    BY <1>1, <1>2 DEF CallerType
  <2> QED BY <1>1, <1>2, <1>4, <2>1 DEF EdgeInv, EdgeTypes
<1>6. StoresInv'
  <2>1. \A o \in Callers : o # who => ~(caller[o].at = "wait" /\ caller[o].todo # <<>>)
    BY <1>1, RunsAlone DEF EdgeInv
  <2>2. who = "loop" => caller["interrupt"].at = "rest"
    BY <1>1 DEF Runs
  <2>3. caller[who].ask # "none" /\ PostStores \in PostTails
    BY <1>1 DEF EdgeInv, StoresInv, PostTails
  <2> QED BY <1>3, <1>4, <2>1, <2>2, <2>3 DEF EdgeInv, StoresInv, Callers
<1>7. told[seq + 1] = "none"
  BY <1>2, EdgeNat DEF EdgeInv, NumbersInv, EdgeTypes
<1>8. CallersInv'
  <2>1. \A o \in Callers : o # who => caller[o].todo # PostStores
    BY <1>1, RunsAlone DEF EdgeInv
  <2>2. ASSUME NEW o \in Callers
        PROVE  /\ Posted(o)' => caller'[o].mine \in 1 .. seq' /\ told'[caller'[o].mine] = "none"
               /\ caller'[o].todo = PostStores =>
                    op' = "none" /\ caller'[o].mine = seq' /\ done' < seq'
               /\ caller'[o].at = "late" /\ caller'[o].mine = seq' => op' = "none"
    <3>1. CASE o = who
      BY <1>1, <1>2, <1>3, <1>4, <1>7, <3>1 DEF Posted
    <3>2. CASE o # who
      <4>1. caller'[o] = caller[o] /\ caller[o].todo # PostStores
        BY <1>4, <2>1, <3>2
      <4>2. Posted(o) => caller[o].mine \in 1 .. seq /\ told[caller[o].mine] = "none"
        BY DEF EdgeInv, CallersInv
      <4> QED BY <1>1, <1>2, <4>1, <4>2 DEF Posted
    <3> QED BY <3>1, <3>2
  <2>3. (Posted("loop") /\ Posted("interrupt") =>
           caller["loop"].mine # caller["interrupt"].mine)'
    <3>1. \A o \in Callers : Posted(o) => caller[o].mine \in 1 .. seq
      BY DEF EdgeInv, CallersInv
    <3> QED BY <1>2, <1>3, <1>4, <3>1 DEF Callers, Posted
  <2> QED BY <2>2, <2>3 DEF CallersInv
<1>9. NumbersInv'
  <2>1. cmd'.seq = seq' /\ op' = "none"
    BY <1>1
  <2>2. \A n \in 1 .. MaxPosts : told[n] # "none" => n <= seq + 1
    BY <1>2, EdgeNat DEF EdgeInv, NumbersInv
  <2> QED BY <1>1, <2>1, <2>2 DEF EdgeInv, NumbersInv
<1>10. OneSlotEach' /\ AnswersAreTrue'
  BY <1>1 DEF EdgeInv, OneSlotEach, AnswersAreTrue
<1>11. NeverAsleep'
  <2>1. PostStores # <<>>
    BY DEF PostStores
  <2> QED BY <1>3, <1>4, <2>1 DEF NeverAsleep
<1> QED BY <1>5, <1>6, <1>8, <1>9, <1>10, <1>11 DEF EdgeInv

\* A store, or the rest of them at once: the command goes into the slot with the first.
LEMMA StoreKeeps == ASSUME EdgeInv, NEW who \in Callers, Store(who) PROVE EdgeInv'
<1> DEFINE t == caller[who].todo
           first == Head(t)
<1>1. t \in PostTails \cup TimerTails /\ t # <<>> /\ Runs(who) /\ caller[who] \in CallerType
  BY DEF Store, EdgeInv, EdgeTypes, CallerType
<1>2. PICK left \in {<<>>, Tail(t)} :
        /\ caller' = [caller EXCEPT ![who].todo = left]
        /\ left = Tail(t) \/ armed
  BY DEF Store
<1>3. /\ op' = (IF first = "op" THEN caller[who].ask ELSE op)
      /\ timed' \in {FALSE, TRUE, timed}
      /\ armed' = (armed \/ first = "write")
      /\ UNCHANGED <<cmd, seq, done, ok_bits, soft, fate, told>>
  BY DEF Store
<1> DEFINE r == [caller[who] EXCEPT !.todo = left]
<1>4. /\ left \in PostTails \cup TimerTails /\ left # PostStores
      /\ t \in PostTails => left \in PostTails
      /\ t \in TimerTails => left \in TimerTails
      /\ left = <<>> => armed'
  BY <1>1, <1>2, <1>3, Tails, RestingType DEF PostTails, TimerTails
<1>5. caller[who].at \in {"wait", "timer"}
  BY <1>1 DEF EdgeInv, StoresInv, CallerType
<1>6. caller[who].at = "wait" => t \in PostTails
  BY DEF EdgeInv, StoresInv
<1>7. first = "op" <=> t = PostStores
  BY <1>1, Tails
<1>8. caller[who].at = "timer" => t # PostStores
  <2>1. PostStores \notin TimerTails
    BY DEF PostStores, TimerTails, TimerStores
  <2> QED BY <2>1 DEF EdgeInv, StoresInv
<1>9. /\ r \in CallerType /\ r.todo = left /\ r.at = caller[who].at /\ r.ask = caller[who].ask
      /\ r.mine = caller[who].mine /\ caller' = [caller EXCEPT ![who] = r]
  <2> HIDE DEF t
  <2> QED BY <1>1, <1>2, <1>4 DEF CallerType, EdgeInv, EdgeTypes
<1> HIDE DEF r
<1>10. /\ caller' \in [Callers -> CallerType] /\ caller'[who] = r
       /\ \A o \in Callers : o # who => caller'[o] = caller[o]
  BY <1>9, CallerBecomes DEF EdgeInv
<1>11. /\ op' \in {"none", "start", "stop"}
       /\ op' # op => /\ t = PostStores /\ op = "none" /\ caller[who].at = "wait"
                      /\ caller[who].mine = seq /\ done < seq
  <2>1. CASE first = "op"
    <3>1. t = PostStores /\ caller[who].at = "wait"
      BY <1>5, <1>7, <1>8, <2>1
    <3>2. op = "none" /\ caller[who].mine = seq /\ done < seq
      BY <3>1 DEF EdgeInv, CallersInv
    <3>3. op' = caller[who].ask /\ caller[who].ask \in {"none", "start", "stop"}
      BY <1>1, <1>3, <2>1 DEF CallerType
    <3> QED BY <3>1, <3>2, <3>3
  <2>2. CASE first # "op"
    BY <1>3, <2>2 DEF EdgeInv, EdgeTypes
  <2> QED BY <2>1, <2>2
<1>12. EdgeTypes'
  <2>1. timed' \in BOOLEAN /\ armed' \in BOOLEAN
    BY <1>3 DEF EdgeInv, EdgeTypes
  <2> QED BY <1>3, <1>10, <1>11, <2>1 DEF EdgeInv, EdgeTypes
<1>13. StoresInv'
  <2>1. \A o \in Callers : o # who => ~(caller[o].at = "wait" /\ caller[o].todo # <<>>)
    BY <1>1, RunsAlone DEF EdgeInv
  <2>2. who = "loop" => caller["interrupt"].at = "rest"
    BY <1>1 DEF Runs
  <2>3. \A o \in Callers : o # who => caller'[o] = caller[o]
    BY <1>10
  <2>4. /\ caller'[who].at = caller[who].at /\ caller'[who].at \in {"wait", "timer"}
        /\ caller'[who].ask = caller[who].ask
        /\ caller'[who].at = "wait" => caller'[who].todo \in PostTails
        /\ caller'[who].at = "timer" => caller'[who].todo \in TimerTails
    BY <1>4, <1>5, <1>6, <1>9, <1>10 DEF EdgeInv, StoresInv
  <2> HIDE DEF t
  <2> QED BY <2>1, <2>2, <2>3, <2>4 DEF EdgeInv, StoresInv, Callers
<1>14. CallersInv'
  <2>1. \A o \in Callers : o # who => caller[o].todo # PostStores
    BY <1>1, RunsAlone DEF EdgeInv
  <2>2. \A o \in Callers : /\ caller'[o].at = caller[o].at /\ caller'[o].mine = caller[o].mine
                           /\ caller'[o].todo # PostStores
    BY <1>4, <1>9, <1>10, <2>1
  <2>3. ASSUME NEW o \in Callers, caller[o].at = "late", caller[o].mine = seq
        PROVE  op' = "none"
    <3>1. op = "none"
      BY <2>3 DEF EdgeInv, CallersInv
    <3>2. CASE op' # op
      <4>1. caller[who].at = "wait" /\ caller[who].mine = seq
        BY <1>11, <3>2
      <4>2. Posted(who) /\ Posted(o) /\ o # who
        BY <2>3, <4>1 DEF Posted
      <4> QED BY <2>3, <4>1, <4>2 DEF EdgeInv, CallersInv, Callers
    <3> QED BY <3>1, <3>2
  <2>4. \A o \in Callers : /\ Posted(o)' <=> Posted(o)
                           /\ Posted(o) => caller[o].mine \in 1 .. seq
                                            /\ told[caller[o].mine] = "none"
    BY <2>2 DEF EdgeInv, CallersInv, Posted
  <2>5. (Posted("loop") /\ Posted("interrupt") =>
           caller["loop"].mine # caller["interrupt"].mine)'
    BY <2>2, <2>4 DEF EdgeInv, CallersInv, Callers
  <2> HIDE DEF t
  <2> QED BY <1>3, <2>2, <2>3, <2>4, <2>5 DEF CallersInv
<1>15. NumbersInv'
  <2>1. op' # "none" => done < seq
    BY <1>11 DEF EdgeInv, NumbersInv
  <2> QED BY <1>3, <2>1 DEF EdgeInv, NumbersInv
<1>16. AnswersAreTrue'
  <2>1. CASE op' = op
    BY <1>3, <2>1 DEF EdgeInv, AnswersAreTrue
  <2>2. CASE op' # op
    <3>1. told[seq] = "none" /\ cmd.seq = seq
      BY <1>11, <2>2 DEF EdgeInv, CallersInv, NumbersInv, Posted
    <3> QED BY <1>3, <3>1 DEF EdgeInv, AnswersAreTrue
  <2> QED BY <2>1, <2>2
<1>17. OneSlotEach'
  BY <1>3 DEF EdgeInv, OneSlotEach
<1>18. NeverAsleep'
  <2>1. caller'[who].todo = left
    BY <1>9, <1>10
  <2> QED BY <1>4, <2>1 DEF NeverAsleep
<1> QED BY <1>12, <1>13, <1>14, <1>15, <1>16, <1>17, <1>18 DEF EdgeInv

\* An answer is given: the caller rests, and what it heard is true.
LEMMA AnswerKeeps ==
  ASSUME EdgeInv, NEW who \in Callers, NEW yes \in BOOLEAN, Answer(who, yes), Posted(who),
         caller[who].todo = <<>>,
         yes => fate[caller[who].mine] = "accepted",
         ~yes => fate[caller[who].mine] # "accepted" /\ ~(op # "none" /\ cmd.seq = caller[who].mine),
         UNCHANGED <<op, cmd, seq, done, ok_bits, soft, timed, armed, fate>>
  PROVE  EdgeInv'
<1> DEFINE m == caller[who].mine
<1>1. m \in 1 .. seq /\ m \in 1 .. MaxPosts
  BY EdgeNat DEF EdgeInv, CallersInv, EdgeTypes
<1>2. told' = [told EXCEPT ![m] = IF yes THEN "yes" ELSE "no"]
      /\ caller' = [caller EXCEPT ![who] = Resting]
  BY DEF Answer
<1>3. /\ caller' \in [Callers -> CallerType] /\ caller'[who] = Resting
      /\ \A o \in Callers : o # who => caller'[o] = caller[o]
  BY <1>2, RestingType, CallerBecomes DEF EdgeInv
<1>4. /\ Resting.at = "rest" /\ Resting.todo = <<>> /\ <<>> # PostStores
  BY RestingType DEF Resting
<1>5. \A o \in Callers : o # who /\ Posted(o) => caller[o].mine # m
  BY DEF EdgeInv, CallersInv, Callers
<1>6. /\ told' \in [1 .. MaxPosts -> {"none", "yes", "no"}]
      /\ told'[m] = IF yes THEN "yes" ELSE "no"
      /\ \A n \in 1 .. MaxPosts : n # m => told'[n] = told[n]
  BY <1>1, <1>2 DEF EdgeInv, EdgeTypes
<1>7. EdgeTypes'
  BY <1>3, <1>6 DEF EdgeInv, EdgeTypes
<1>8. StoresInv'
  BY <1>3, <1>4 DEF EdgeInv, StoresInv, Callers
<1>9. CallersInv'
  <2>1. ASSUME NEW o \in Callers
        PROVE  /\ Posted(o)' => caller'[o].mine \in 1 .. seq' /\ told'[caller'[o].mine] = "none"
               /\ caller'[o].todo = PostStores =>
                    op' = "none" /\ caller'[o].mine = seq' /\ done' < seq'
               /\ caller'[o].at = "late" /\ caller'[o].mine = seq' => op' = "none"
    <3>1. CASE o = who
      BY <1>3, <1>4, <3>1 DEF Posted
    <3>2. CASE o # who
      <4>1. caller'[o] = caller[o]
        BY <1>3, <3>2
      <4>2. Posted(o) => told'[caller[o].mine] = "none"
        <5>1. Posted(o) => caller[o].mine \in 1 .. MaxPosts /\ told[caller[o].mine] = "none"
          BY EdgeNat DEF EdgeInv, CallersInv, EdgeTypes
        <5> QED BY <1>5, <1>6, <3>2, <5>1
      <4> HIDE DEF m
      <4> QED BY <4>1, <4>2 DEF EdgeInv, CallersInv, Posted
    <3> QED BY <3>1, <3>2
  <2>2. (Posted("loop") /\ Posted("interrupt") =>
           caller["loop"].mine # caller["interrupt"].mine)'
    BY <1>3, <1>4 DEF Callers, Posted
  <2> QED BY <2>1, <2>2 DEF CallersInv
<1>10. NumbersInv'
  <2>1. \A n \in 1 .. MaxPosts : told'[n] # "none" => n <= seq
    BY <1>1, <1>6 DEF EdgeInv, NumbersInv
  <2> HIDE DEF m
  <2> QED BY <2>1 DEF EdgeInv, NumbersInv
<1>11. AnswersAreTrue'
  <2>1. ASSUME NEW n \in 1 .. MaxPosts
        PROVE  /\ told'[n] = "yes" => fate[n] = "accepted"
               /\ told'[n] = "no" => fate[n] # "accepted" /\ ~(op # "none" /\ cmd.seq = n)
    <3>1. CASE n = m
      BY <1>6, <3>1
    <3>2. CASE n # m
      BY <1>6, <3>2 DEF EdgeInv, AnswersAreTrue
    <3> QED BY <3>1, <3>2
  <2> QED BY <2>1 DEF AnswersAreTrue
<1>12. OneSlotEach' /\ NeverAsleep'
  <2>1. \A o \in Callers : caller[o].todo # <<>> => caller'[o].todo # <<>>
    BY <1>3
  <2> QED BY <2>1 DEF EdgeInv, OneSlotEach, NeverAsleep, Carried
<1> QED BY <1>7, <1>8, <1>9, <1>10, <1>11, <1>12 DEF EdgeInv

LEMMA HearKeeps == ASSUME EdgeInv, NEW who \in Callers, Hear(who) PROVE EdgeInv'
<1> DEFINE m == caller[who].mine
<1>1. /\ caller[who].at = "wait" /\ caller[who].todo = <<>> /\ done >= m
      /\ Answer(who, ok_bits[Bit(m)])
      /\ UNCHANGED <<op, cmd, seq, done, ok_bits, soft, timed, armed, fate>>
  BY DEF Hear
<1>2. m \in 1 .. seq /\ m \in 1 .. MaxPosts
  BY <1>1, EdgeNat DEF EdgeInv, CallersInv, EdgeTypes, Posted
<1>3. Bit(m) = m /\ ok_bits[m] \in BOOLEAN /\ (ok_bits[m] <=> fate[m] = "accepted")
  BY <1>2, BitIsOwn DEF EdgeInv, EdgeTypes, NumbersInv
<1>4. ~(op # "none" /\ cmd.seq = m)
  <2>1. op # "none" => done < seq /\ cmd.seq = seq
    BY DEF EdgeInv, NumbersInv
  <2>2. done \in Nat /\ seq \in Nat /\ m \in Nat /\ done >= m
    BY <1>1, <1>2, EdgeNat DEF EdgeInv, EdgeTypes
  <2> HIDE DEF m
  <2> QED BY <2>1, <2>2
<1> QED BY <1>1, <1>3, <1>4, AnswerKeeps DEF Posted

LEMMA LookAgainKeeps == ASSUME EdgeInv, NEW who \in Callers, LookAgain(who) PROVE EdgeInv'
<1> DEFINE m == caller[who].mine
           yes == done >= m /\ ok_bits[Bit(m)]
<1>1. /\ caller[who].at = "late" /\ Answer(who, yes)
      /\ UNCHANGED <<op, cmd, seq, done, ok_bits, soft, timed, armed, fate>>
  BY DEF LookAgain
<1>2. m \in 1 .. seq /\ m \in 1 .. MaxPosts
  BY <1>1, EdgeNat DEF EdgeInv, CallersInv, EdgeTypes, Posted
<1>3. Bit(m) = m /\ ok_bits[m] \in BOOLEAN /\ (ok_bits[m] <=> fate[m] = "accepted")
  BY <1>2, BitIsOwn DEF EdgeInv, EdgeTypes, NumbersInv
<1>4. fate[m] # "none" => m <= done
  BY <1>2 DEF EdgeInv, NumbersInv
<1>5. ~(op # "none" /\ cmd.seq = m) /\ caller[who].todo = <<>>
  BY <1>1 DEF EdgeInv, NumbersInv, CallersInv, StoresInv
<1>6. yes \in BOOLEAN /\ (yes <=> fate[m] = "accepted")
  <2>1. done \in Nat /\ m \in Nat
    BY <1>2, EdgeNat DEF EdgeInv, EdgeTypes
  <2> HIDE DEF m
  <2> QED BY <1>3, <1>4, <2>1
<1> HIDE DEF yes
<1> QED BY <1>1, <1>5, <1>6, AnswerKeeps DEF Posted

\* 2 ms are over: a command of another is not withdrawn.
LEMMA WithdrawKeeps == ASSUME EdgeInv, NEW who \in Callers, Withdraw(who) PROVE EdgeInv'
<1> DEFINE r == [caller[who] EXCEPT !.at = "late"]
<1>1. /\ Runs(who) /\ caller[who].at = "wait" /\ caller[who].todo = <<>>
      /\ op' = (IF cmd.seq = caller[who].mine THEN "none" ELSE op)
      /\ UNCHANGED <<cmd, seq, done, ok_bits, soft, timed, armed, fate, told>>
      /\ caller[who] \in CallerType
  BY DEF Withdraw, EdgeInv, EdgeTypes
<1>2. caller' = [caller EXCEPT ![who] = r]
  BY DEF Withdraw, EdgeInv, EdgeTypes
<1>3. /\ r \in CallerType /\ r.at = "late" /\ r.todo = <<>> /\ r.mine = caller[who].mine
      /\ <<>> # PostStores
  BY <1>1, RestingType DEF CallerType
<1> HIDE DEF r
<1>4. /\ caller' \in [Callers -> CallerType] /\ caller'[who] = r
      /\ \A o \in Callers : o # who => caller'[o] = caller[o]
  BY <1>2, <1>3, CallerBecomes DEF EdgeInv
<1>5. op' = "none" \/ op' = op
  BY <1>1
<1>6. EdgeTypes'
  BY <1>1, <1>4, <1>5 DEF EdgeInv, EdgeTypes
<1>7. StoresInv'
  BY <1>1, <1>3, <1>4 DEF EdgeInv, StoresInv, Callers
<1>8. CallersInv'
  <2>1. cmd.seq = seq
    BY DEF EdgeInv, NumbersInv
  <2>2. ASSUME NEW o \in Callers
        PROVE  /\ Posted(o)' => caller'[o].mine \in 1 .. seq' /\ told'[caller'[o].mine] = "none"
               /\ caller'[o].todo = PostStores =>
                    op' = "none" /\ caller'[o].mine = seq' /\ done' < seq'
               /\ caller'[o].at = "late" /\ caller'[o].mine = seq' => op' = "none"
    <3>1. CASE o = who
      BY <1>1, <1>3, <1>4, <2>1, <3>1 DEF EdgeInv, CallersInv, Posted
    <3>2. CASE o # who
      BY <1>1, <1>4, <1>5, <3>2 DEF EdgeInv, CallersInv, Posted
    <3> QED BY <3>1, <3>2
  <2>3. (Posted("loop") /\ Posted("interrupt") =>
           caller["loop"].mine # caller["interrupt"].mine)'
    BY <1>1, <1>3, <1>4 DEF EdgeInv, CallersInv, Callers, Posted
  <2> QED BY <2>2, <2>3 DEF CallersInv
<1>9. NumbersInv' /\ OneSlotEach' /\ AnswersAreTrue'
  BY <1>1, <1>5 DEF EdgeInv, NumbersInv, OneSlotEach, AnswersAreTrue
<1>10. NeverAsleep'
  <2>1. \A o \in Callers : caller[o].todo # <<>> => caller'[o].todo # <<>>
    BY <1>1, <1>4
  <2> QED BY <1>1, <1>5, <2>1 DEF EdgeInv, NeverAsleep, Carried
<1> QED BY <1>6, <1>7, <1>8, <1>9, <1>10 DEF EdgeInv

\* The slot of soft edges that egt1_apply leaves.
LEMMA AppliedSlots ==
  ASSUME EdgeTypes, OneSlotEach
  PROVE  /\ Applied \in [1 .. SoftMax -> SoftType]
         /\ \A i, j \in 1 .. SoftMax :
              Applied[i].pin = Applied[j].pin /\ Applied[i].pin # NoPin => i = j
<1>1. /\ soft \in [1 .. SoftMax -> SoftType] /\ cmd.pin \in AllPins /\ cmd.ends \in BOOLEAN
      /\ Free \in SoftType /\ Free.pin = NoPin
  BY DEF EdgeTypes, Free, SoftType, AllPins
<1>2. CASE op = "none"
  BY <1>1, <1>2 DEF Applied, OneSlotEach
<1>3. CASE op = "stop"
  <2>1. Applied = [i \in 1 .. SoftMax |-> IF Has(i) THEN Free ELSE soft[i]]
    BY <1>3 DEF Applied
  <2>2. \A i \in 1 .. SoftMax : Applied[i].pin = soft[i].pin \/ Applied[i].pin = NoPin
    BY <1>1, <2>1
  <2> QED BY <1>1, <2>1, <2>2 DEF OneSlotEach
<1>4. CASE op \notin {"none", "stop"} /\ \E i \in 1 .. SoftMax : Has(i)
  <2>1. Applied = [i \in 1 .. SoftMax |->
                     IF Has(i) THEN [soft[i] EXCEPT !.ends = cmd.ends] ELSE soft[i]]
    BY <1>4 DEF Applied
  <2>2. \A i \in 1 .. SoftMax : Applied[i] \in SoftType /\ Applied[i].pin = soft[i].pin
    BY <1>1, <2>1 DEF SoftType
  <2> QED BY <2>1, <2>2 DEF OneSlotEach
<1>5. CASE op \notin {"none", "stop"} /\ ~\E i \in 1 .. SoftMax : Has(i)
  <2> DEFINE new == [pin |-> cmd.pin, high |-> FALSE, ends |-> cmd.ends]
  <2>1. Applied = [i \in 1 .. SoftMax |-> IF Spare(i) THEN new ELSE soft[i]]
    BY <1>5 DEF Applied
  <2>2. new \in SoftType /\ new.pin = cmd.pin
    BY <1>1 DEF SoftType
  <2> HIDE DEF new
  <2>3. \A i, j \in 1 .. SoftMax : Spare(i) /\ Spare(j) => i = j
    <3>1. ASSUME NEW i \in 1 .. SoftMax, NEW j \in 1 .. SoftMax, Spare(i), Spare(j), i < j
          PROVE  FALSE
      <4>1. i \in 1 .. j - 1
        BY <3>1, EdgeNat
      <4> QED BY <3>1, <4>1 DEF Spare
    <3> QED BY <3>1, EdgeNat
  <2>4. \A i \in 1 .. SoftMax : soft[i].pin # cmd.pin
    BY <1>5 DEF Has
  <2> QED BY <1>1, <2>1, <2>2, <2>3, <2>4 DEF OneSlotEach
<1> QED BY <1>2, <1>3, <1>4, <1>5

\* An edge leaves the pin or frees the slot.
LEMMA EdgeOfSlot ==
  ASSUME NEW c \in SoftType, NEW d \in Edges(c)
  PROVE  d \in SoftType /\ (d.pin = c.pin \/ d.pin = NoPin)
<1>1. CASE d = Free
  <2>1. Free \in SoftType /\ Free.pin = NoPin
    BY DEF Free, SoftType, AllPins
  <2> QED BY <1>1, <2>1
<1>2. CASE d = [c EXCEPT !.high = ~c.high]
  <2>1. c.pin \in AllPins /\ (~c.high) \in BOOLEAN /\ c.ends \in BOOLEAN
    BY DEF SoftType
  <2>2. d \in SoftType /\ d.pin = c.pin
    BY <1>2, <2>1 DEF SoftType
  <2> QED BY <2>2
<1> QED BY <1>1, <1>2 DEF Edges

LEMMA NmiKeeps == ASSUME EdgeInv, Nmi PROVE EdgeInv'
<1>1. /\ op' = "none" /\ timed' \in {FALSE, timed}
      /\ armed' = (Carried(soft)' # {} \/ timed') /\ UNCHANGED <<cmd, seq, caller, told>>
  BY DEF Nmi
<1>2. soft' \in [1 .. SoftMax -> SoftType] /\ OneSlotEach'
  <2>1. PICK moves \in SUBSET (1 .. SoftMax) :
          \E edge \in [moves -> UNION {Edges(Applied[i]) : i \in moves}] :
            /\ \A i \in moves : edge[i] \in Edges(Applied[i])
            /\ soft' = [i \in 1 .. SoftMax |-> IF i \in moves THEN edge[i] ELSE Applied[i]]
    BY Zenon DEF Nmi
  <2>2. PICK edge :
          /\ \A i \in moves : edge[i] \in Edges(Applied[i])
          /\ soft' = [i \in 1 .. SoftMax |-> IF i \in moves THEN edge[i] ELSE Applied[i]]
    BY <2>1
  <2>3. /\ Applied \in [1 .. SoftMax -> SoftType]
        /\ \A i, j \in 1 .. SoftMax :
             Applied[i].pin = Applied[j].pin /\ Applied[i].pin # NoPin => i = j
    BY AppliedSlots DEF EdgeInv
  <2>4. \A i \in 1 .. SoftMax :
          soft'[i] \in SoftType /\ (soft'[i].pin = Applied[i].pin \/ soft'[i].pin = NoPin)
    BY <2>2, <2>3, EdgeOfSlot
  <2>5. soft' \in [1 .. SoftMax -> SoftType]
    BY <2>2, <2>4
  <2>6. OneSlotEach'
    BY <2>3, <2>4 DEF OneSlotEach
  <2> QED BY <2>5, <2>6
<1>3. StoresInv'
  BY <1>1 DEF EdgeInv, StoresInv
<1>4. NeverAsleep'
  BY <1>1 DEF NeverAsleep
<1>5. timed' \in BOOLEAN /\ armed' \in BOOLEAN
  BY <1>1 DEF EdgeInv, EdgeTypes
<1>6. CASE op = "none"
  <2>1. UNCHANGED <<op, done, ok_bits, fate>>
    BY <1>1, <1>6 DEF Nmi
  <2>2. EdgeTypes'
    BY <1>1, <1>2, <1>5, <2>1 DEF EdgeInv, EdgeTypes
  <2>3. CallersInv' /\ NumbersInv' /\ AnswersAreTrue'
    BY <1>1, <2>1 DEF EdgeInv, CallersInv, NumbersInv, AnswersAreTrue, Posted
  <2> QED BY <1>2, <1>3, <1>4, <2>2, <2>3 DEF EdgeInv
<1>7. CASE op # "none"
  <2> DEFINE verdict == IF Accepted THEN "accepted" ELSE "refused"
  <2>1. cmd.seq = seq /\ done < seq /\ seq \in 1 .. MaxPosts /\ done \in 0 .. seq
    BY <1>7, EdgeNat DEF EdgeInv, NumbersInv, EdgeTypes
  <2>2. Bit(seq) = seq /\ seq \in 0 .. Bits - 1
    BY <2>1, BitIsOwn
  <2>3. Accepted \in BOOLEAN
    BY DEF Accepted
  <2>4. done' = seq /\ ok_bits' = [ok_bits EXCEPT ![seq] = Accepted]
        /\ fate' = [fate EXCEPT ![seq] = verdict]
    BY <1>7, <2>1, <2>2 DEF Nmi
  <2>5. verdict \in {"accepted", "refused"} /\ (verdict = "accepted" <=> Accepted)
    OBVIOUS
  <2> HIDE DEF verdict
  <2>6. /\ ok_bits' \in [0 .. Bits - 1 -> BOOLEAN] /\ ok_bits'[seq] = Accepted
        /\ \A n \in 0 .. Bits - 1 : n # seq => ok_bits'[n] = ok_bits[n]
    BY <2>2, <2>3, <2>4 DEF EdgeInv, EdgeTypes
  <2>7. /\ fate' \in [1 .. MaxPosts -> {"none", "accepted", "refused"}]
        /\ fate'[seq] = verdict
        /\ \A n \in 1 .. MaxPosts : n # seq => fate'[n] = fate[n]
    BY <2>1, <2>4, <2>5 DEF EdgeInv, EdgeTypes
  <2>8. EdgeTypes'
    <3>1. done' \in 0 .. seq' /\ seq' \in 0 .. MaxPosts
      BY <1>1, <2>1, <2>4
    <3> QED BY <1>1, <1>2, <1>5, <2>6, <2>7, <3>1 DEF EdgeInv, EdgeTypes
  <2>9. CallersInv'
    <3>1. \A o \in Callers : caller[o].todo # PostStores
      BY <1>7 DEF EdgeInv, CallersInv
    <3> QED BY <1>1, <3>1 DEF EdgeInv, CallersInv, Posted
  <2>10. NumbersInv'
    <3>1. ASSUME NEW n \in 1 .. MaxPosts
          PROVE  /\ fate'[n] # "none" => n <= done'
                 /\ ok_bits'[n] <=> fate'[n] = "accepted"
      <4>1. CASE n = seq
        BY <2>1, <2>4, <2>5, <2>6, <2>7, <4>1
      <4>2. CASE n # seq
        <5>1. fate'[n] = fate[n] /\ ok_bits'[n] = ok_bits[n]
          BY <2>6, <2>7, <4>2, BitIsOwn
        <5>2. n <= done => n <= seq
          BY <2>1
        <5> QED BY <2>4, <5>1, <5>2 DEF EdgeInv, NumbersInv
      <4> QED BY <4>1, <4>2
    <3> QED BY <1>1, <2>1, <3>1 DEF EdgeInv, NumbersInv
  <2>11. AnswersAreTrue'
    <3>1. fate[seq] = "none"
      <4>1. fate[seq] # "none" => seq <= done
        BY <2>1 DEF EdgeInv, NumbersInv
      <4> QED BY <2>1, <4>1
    <3>2. told[seq] = "none"
      <4>1. told[seq] # "yes" /\ told[seq] # "no"
        BY <1>7, <2>1, <3>1 DEF EdgeInv, AnswersAreTrue
      <4> QED BY <2>1, <4>1 DEF EdgeInv, EdgeTypes
    <3>3. ASSUME NEW n \in 1 .. MaxPosts
          PROVE  /\ told[n] = "yes" => fate'[n] = "accepted"
                 /\ told[n] = "no" => fate'[n] # "accepted"
      <4>1. CASE n = seq
        BY <3>2, <4>1
      <4>2. CASE n # seq
        BY <2>7, <4>2 DEF EdgeInv, AnswersAreTrue
      <4> QED BY <4>1, <4>2
    <3> QED BY <1>1, <3>3 DEF AnswersAreTrue
  <2> QED BY <1>2, <1>3, <1>4, <2>8, <2>9, <2>10, <2>11 DEF EdgeInv
<1> QED BY <1>6, <1>7

LEMMA EdgeInvInit == EdgeInit => EdgeInv
<1> SUFFICES ASSUME EdgeInit PROVE EdgeInv
  OBVIOUS
<1>1. /\ op = "none" /\ cmd = [pin |-> NoPin, ends |-> FALSE, seq |-> 0] /\ seq = 0 /\ done = 0
      /\ ok_bits = [b \in 0 .. Bits - 1 |-> FALSE]
      /\ soft = [i \in 1 .. SoftMax |-> Free] /\ timed = FALSE /\ armed = FALSE
      /\ caller = [who \in Callers |-> Resting]
      /\ fate = [n \in 1 .. MaxPosts |-> "none"] /\ told = [n \in 1 .. MaxPosts |-> "none"]
  BY DEF EdgeInit
<1>2. /\ Free \in SoftType /\ Free.pin = NoPin /\ Resting \in CallerType
      /\ Resting.at = "rest" /\ Resting.todo = <<>> /\ <<>> # PostStores
  BY RestingType DEF Free, SoftType, AllPins, Resting
<1>3. EdgeTypes
  <2>1. seq \in 0 .. MaxPosts /\ done \in 0 .. seq
    BY <1>1, EdgeNat
  <2>2. cmd \in [pin : AllPins, ends : BOOLEAN, seq : Nat]
    BY <1>1 DEF AllPins
  <2>3. timed \in BOOLEAN /\ armed \in BOOLEAN /\ op \in {"none", "start", "stop"}
    BY <1>1
  <2>4. /\ ok_bits \in [0 .. Bits - 1 -> BOOLEAN] /\ soft \in [1 .. SoftMax -> SoftType]
        /\ caller \in [Callers -> CallerType]
        /\ fate \in [1 .. MaxPosts -> {"none", "accepted", "refused"}]
        /\ told \in [1 .. MaxPosts -> {"none", "yes", "no"}]
    BY <1>1, <1>2
  <2> QED BY <2>1, <2>2, <2>3, <2>4 DEF EdgeTypes
<1>4. StoresInv /\ CallersInv
  <2>1. \A who \in Callers : caller[who] = Resting
    BY <1>1
  <2> QED BY <1>2, <2>1 DEF StoresInv, CallersInv, Posted, Callers
<1>5. NumbersInv /\ OneSlotEach /\ AnswersAreTrue
  <2>1. \A n \in 1 .. MaxPosts : fate[n] = "none" /\ told[n] = "none" /\ ~ok_bits[n]
    BY <1>1, BitIsOwn
  <2>2. \A i \in 1 .. SoftMax : soft[i].pin = NoPin
    BY <1>1, <1>2
  <2>3. cmd.seq = seq /\ op = "none"
    BY <1>1
  <2> QED BY <2>1, <2>2, <2>3 DEF NumbersInv, OneSlotEach, AnswersAreTrue
<1>6. NeverAsleep
  <2>1. Carried(soft) = {}
    BY <1>1, <1>2 DEF Carried
  <2> QED BY <1>1, <2>1 DEF NeverAsleep
<1> QED BY <1>3, <1>4, <1>5, <1>6 DEF EdgeInv

LEMMA EdgeInvNext == ASSUME EdgeInv, [EdgeNext]_edgeVars PROVE EdgeInv'
<1>1. CASE UNCHANGED edgeVars
  <2>1. EdgeTypes' /\ StoresInv' /\ CallersInv' /\ NumbersInv'
    BY <1>1 DEF EdgeInv, edgeVars, EdgeTypes, StoresInv, CallersInv, NumbersInv, Posted
  <2>2. OneSlotEach' /\ AnswersAreTrue' /\ NeverAsleep'
    BY <1>1 DEF EdgeInv, edgeVars, OneSlotEach, AnswersAreTrue, NeverAsleep, Carried
  <2> QED BY <2>1, <2>2 DEF EdgeInv
<1>2. ASSUME NEW who \in Callers,
             \/ \E p \in PinsOf(who), ends \in BOOLEAN, what \in {"start", "stop"} :
                  Call(who, what, p, ends)
             \/ Fill(who) \/ Busy(who) \/ Store(who) \/ Hear(who) \/ Withdraw(who) \/ LookAgain(who)
      PROVE  EdgeInv'
  BY <1>2, CallKeeps, FillKeeps, BusyKeeps, StoreKeeps, HearKeeps, WithdrawKeeps, LookAgainKeeps
<1> QED BY <1>1, <1>2, StartTimerKeeps, TimerStartedKeeps, StopTimerKeeps, NmiKeeps
        DEF EdgeNext

(* The numbers of the callers, the slot, its answers and the stores to come *)
(* agree in every interleaving of the loop, an interrupt and the NMI, for   *)
(* any pins, slots and numbers of commands below the bits of the answers.   *)
THEOREM EdgeInductive == EdgeSpec => []EdgeInv
<1>1. EdgeInit => EdgeInv
  BY EdgeInvInit
<1>2. EdgeInv /\ [EdgeNext]_edgeVars => EdgeInv'
  BY EdgeInvNext
<1> QED BY <1>1, <1>2, PTL DEF EdgeSpec

(* No pin has two slots of soft edges, and no command is done before it is  *)
(* posted.                                                                  *)
THEOREM SlotsForAll == EdgeSpec => []EdgeTypeOK
<1>1. EdgeInv => EdgeTypeOK
  BY DEF EdgeInv, EdgeTypes, EdgeTypeOK, OneSlotEach
<1> QED BY <1>1, EdgeInductive, PTL

(* A caller that hears yes was obeyed and one that hears no never is, and   *)
(* no command, waveform or callback waits on a timer that is not armed.     *)
THEOREM CommandsForAll == EdgeSpec => []CommandsAreAnswered
<1>1. EdgeInv => CommandsAreAnswered
  BY DEF EdgeInv, CommandsAreAnswered
<1> QED BY <1>1, EdgeInductive, PTL

----------------------------------------------------------------------------
(* The push button: what it holds, and what a press has been told as.  A   *)
(* press that a finger made has fired just when it was told as long; one    *)
(* that was there when the pin was set has fired from the first.            *)
ButtonTypes ==
  /\ line \subseteq Pins /\ pin \in Pins \cup {None}
  /\ read \in BOOLEAN /\ pressed \in BOOLEAN /\ fired \in BOOLEAN
  /\ shortDue \in BOOLEAN /\ longDue \in BOOLEAN
  /\ now \in 0 .. MaxPolls /\ change \in 0 .. now /\ start \in 0 .. now
  /\ press \in [by : {"none", "finger", "set"}, told : SUBSET {"short", "long"}]

HeldInv ==
  /\ press.by # "finger" => press.told = {}
  /\ press.by = "none" => ~pressed
  /\ pressed => "short" \notin press.told
  /\ pressed /\ press.by = "finger" => (fired <=> "long" \in press.told)
  /\ pressed /\ press.by = "set" => fired
  /\ ~pressed /\ press.by = "finger" => press.told # {}
  /\ press.told # {"long", "short"}

(* The notes: one stands just for the presses that the loop did not take.   *)
NotesInv ==
  /\ heard \in [short : Nat, long : Nat, shortTaken : Nat, longTaken : Nat]
  /\ heard.shortTaken <= heard.short /\ heard.longTaken <= heard.long
  /\ shortDue <=> heard.short > heard.shortTaken
  /\ longDue <=> heard.long > heard.longTaken

(* The alarms, and the pin that tells of them.                              *)
RingInv ==
  /\ over \subseteq {"warning", "alert"} /\ snoozed \in BOOLEAN
  /\ out \in BOOLEAN /\ last_state \in BOOLEAN /\ switched \in BOOLEAN
  /\ mode \in {"steady", "pulse"}
  /\ AlarmsRing

ButtonInv == ButtonTypes /\ HeldInv /\ NotesInv /\ RingInv

LEMMA PollsAreCounted == MaxPolls \in Nat /\ None \notin Pins
<1>1. None \notin Pins /\ MaxPolls \in {Debounce, Long, MaxPolls, MaxSets}
      /\ {Debounce, Long, MaxPolls, MaxSets} \subseteq Nat
  BY ButtonAssumption, Zenon
<1> QED BY <1>1

LEMMA ButtonInvInit == ButtonInit => ButtonInv
<1> SUFFICES ASSUME ButtonInit PROVE ButtonInv
  OBVIOUS
<1>1. ButtonTypes
  <2>1. line \subseteq Pins /\ pin = None /\ press = [by |-> "none", told |-> {}]
        /\ read = FALSE /\ pressed = FALSE /\ shortDue = FALSE /\ longDue = FALSE /\ fired = FALSE
        /\ change = 0 /\ start = 0 /\ now = 0
    BY DEF ButtonInit, NoPress
  <2>2. press \in [by : {"none", "finger", "set"}, told : SUBSET {"short", "long"}]
    BY <2>1
  <2>3. now \in 0 .. MaxPolls /\ change \in 0 .. now /\ start \in 0 .. now
    <3>1. 0 \in 0 .. MaxPolls /\ 0 \in 0 .. 0
      BY PollsAreCounted
    <3> QED BY <2>1, <3>1, Zenon
  <2>4. /\ line \subseteq Pins /\ pin \in Pins \cup {None}
        /\ read \in BOOLEAN /\ pressed \in BOOLEAN /\ fired \in BOOLEAN
        /\ shortDue \in BOOLEAN /\ longDue \in BOOLEAN
    BY <2>1, Zenon
  <2> QED BY <2>2, <2>3, <2>4, Zenon DEF ButtonTypes
<1>2. HeldInv
  BY DEF ButtonInit, HeldInv, NoPress
<1>3. NotesInv
  BY DEF ButtonInit, NotesInv, Zero
<1>4. RingInv
  BY DEF ButtonInit, RingInv, AlarmsRing
<1> QED BY <1>1, <1>2, <1>3, <1>4 DEF ButtonInv

\* What leaves a part alone keeps what is said of it.
LEMMA NotesKept ==
  ASSUME NotesInv, UNCHANGED <<shortDue, longDue, heard>> PROVE NotesInv'
BY DEF NotesInv

LEMMA RingKept == ASSUME RingInv, UNCHANGED <<alarm, output>> PROVE RingInv'
BY DEF RingInv, AlarmsRing, alarm, output

LEMMA HeldKept ==
  ASSUME HeldInv, UNCHANGED <<pressed, fired, press>> PROVE HeldInv'
BY DEF HeldInv

\* One press more of a kind is one note that stands.
LEMMA OneMore ==
  ASSUME NotesInv
  PROVE  /\ [heard EXCEPT !.long = @ + 1]
               \in [short : Nat, long : Nat, shortTaken : Nat, longTaken : Nat]
         /\ [heard EXCEPT !.short = @ + 1]
               \in [short : Nat, long : Nat, shortTaken : Nat, longTaken : Nat]
         /\ [heard EXCEPT !.long = @ + 1].long > heard.longTaken
         /\ [heard EXCEPT !.short = @ + 1].short > heard.shortTaken
BY DEF NotesInv

\* The poll: what it may do to a button with a pin.
LEMMA BouncesKeeps ==
  ASSUME ButtonInv, NEW down \in BOOLEAN, Bounces(down), now' = now + 1, now < MaxPolls,
         UNCHANGED <<line, alarm, output>>
  PROVE  ButtonInv'
<1>1. UNCHANGED <<pin, start, pressed, shortDue, longDue, fired, press, heard>>
      /\ read' = down /\ change' = now
  BY DEF Bounces
<1>2. ButtonTypes'
  BY <1>1, PollsAreCounted DEF ButtonInv, ButtonTypes
<1> QED BY <1>1, <1>2, HeldKept, NotesKept, RingKept DEF ButtonInv

LEMMA HoldsKeeps ==
  ASSUME ButtonInv, NEW down \in BOOLEAN, Holds(down), now' = now + 1, now < MaxPolls,
         UNCHANGED <<line, alarm, output>>
  PROVE  ButtonInv'
<1>1. UNCHANGED <<pin, read, change, start, pressed, shortDue>> /\ down = pressed
  BY DEF Holds
<1>2. CASE UNCHANGED <<fired, longDue, press, heard>>
  <2>1. ButtonTypes'
    BY <1>1, <1>2, PollsAreCounted DEF ButtonInv, ButtonTypes
  <2> QED BY <1>1, <1>2, <2>1, HeldKept, NotesKept, RingKept DEF ButtonInv
<1>3. CASE /\ pressed /\ ~fired /\ fired' = TRUE /\ longDue' = TRUE
           /\ press' = [press EXCEPT !.told = @ \cup {"long"}]
           /\ heard' = [heard EXCEPT !.long = @ + 1]
  <2>1. press.by = "finger" /\ press.told = {}
    BY <1>3 DEF ButtonInv, HeldInv, ButtonTypes
  <2>2. press' = [by |-> "finger", told |-> {"long"}]
    BY <1>3, <2>1 DEF ButtonInv, ButtonTypes
  <2>3. ButtonTypes'
    BY <1>1, <1>3, <2>2, PollsAreCounted DEF ButtonInv, ButtonTypes
  <2>4. HeldInv'
    BY <1>1, <1>3, <2>2 DEF HeldInv
  <2>5. NotesInv'
    BY <1>1, <1>3, OneMore DEF ButtonInv, NotesInv
  <2> QED BY <2>3, <2>4, <2>5, RingKept DEF ButtonInv
<1>4. CASE down /\ ~fired /\ now - start >= Long
  <2>1. /\ fired' = TRUE /\ longDue' = TRUE
        /\ press' = [press EXCEPT !.told = @ \cup {"long"}]
        /\ heard' = [heard EXCEPT !.long = @ + 1]
    BY <1>4, Zenon DEF Holds
  <2> QED BY <1>1, <1>3, <1>4, <2>1
<1>5. CASE ~(down /\ ~fired /\ now - start >= Long)
  BY <1>2, <1>5, Zenon DEF Holds
<1> QED BY <1>4, <1>5

LEMMA SettlesKeeps ==
  ASSUME ButtonInv, NEW down \in BOOLEAN, Settles(down), now' = now + 1, now < MaxPolls,
         UNCHANGED <<line, alarm, output>>
  PROVE  ButtonInv'
<1>1. CASE UNCHANGED <<button, press, heard>>
  <2>1. ButtonTypes'
    BY <1>1, PollsAreCounted DEF ButtonInv, ButtonTypes, button
  <2>2. UNCHANGED <<pressed, fired, press, shortDue, longDue, heard>>
    BY <1>1 DEF button
  <2> QED BY <2>1, <2>2, HeldKept, NotesKept, RingKept DEF ButtonInv
<1>2. CASE /\ pressed' = down /\ fired' = (fired /\ ~down)
           /\ start' = (IF down THEN now ELSE start)
           /\ shortDue' = (shortDue \/ (~down /\ ~fired))
           /\ press' = (IF down THEN [by |-> "finger", told |-> {}]
                        ELSE IF fired THEN press
                        ELSE [press EXCEPT !.told = @ \cup {"short"}])
           /\ heard' = (IF ~down /\ ~fired THEN [heard EXCEPT !.short = @ + 1] ELSE heard)
           /\ UNCHANGED <<pin, read, change, longDue>> /\ down # pressed
  <2>1. CASE down
    <3>1. /\ press' = [by |-> "finger", told |-> {}] /\ pressed' = TRUE /\ fired' = FALSE
          /\ shortDue' = shortDue /\ heard' = heard
      BY <1>2, <2>1 DEF ButtonInv, ButtonTypes
    <3>2. ButtonTypes'
      BY <1>2, <3>1, PollsAreCounted DEF ButtonInv, ButtonTypes
    <3>3. HeldInv'
      BY <3>1 DEF HeldInv
    <3> QED BY <1>2, <3>1, <3>2, <3>3, NotesKept, RingKept DEF ButtonInv
  <2>2. CASE ~down /\ fired
    <3>1. /\ press' = press /\ pressed' = FALSE /\ fired' = TRUE /\ pressed
          /\ shortDue' = shortDue /\ heard' = heard
      BY <1>2, <2>2 DEF ButtonInv, ButtonTypes
    <3>2. ButtonTypes'
      BY <1>2, <2>2, <3>1, PollsAreCounted DEF ButtonInv, ButtonTypes
    <3>3. HeldInv'
      BY <2>2, <3>1 DEF ButtonInv, HeldInv
    <3> QED BY <1>2, <3>1, <3>2, <3>3, NotesKept, RingKept DEF ButtonInv
  <2>3. CASE ~down /\ ~fired
    <3>1. pressed /\ press.by = "finger" /\ press.told = {}
      BY <1>2, <2>3 DEF ButtonInv, ButtonTypes, HeldInv
    <3>2. press' = [by |-> "finger", told |-> {"short"}]
      BY <1>2, <2>3, <3>1 DEF ButtonInv, ButtonTypes
    <3>3. /\ pressed' = FALSE /\ fired' = FALSE /\ shortDue' = TRUE
          /\ heard' = [heard EXCEPT !.short = @ + 1]
      BY <1>2, <2>3
    <3>4. ButtonTypes'
      BY <1>2, <2>3, <3>2, <3>3, PollsAreCounted DEF ButtonInv, ButtonTypes
    <3>5. HeldInv'
      BY <3>2, <3>3 DEF HeldInv
    <3>6. NotesInv'
      BY <1>2, <3>3, OneMore DEF ButtonInv, NotesInv
    <3> QED BY <3>4, <3>5, <3>6, RingKept DEF ButtonInv
  <2> QED BY <2>1, <2>2, <2>3
<1> QED BY <1>1, <1>2 DEF Settles

LEMMA PollKeeps == ASSUME ButtonInv, Poll PROVE ButtonInv'
<1>1. now' = now + 1 /\ now < MaxPolls /\ UNCHANGED <<line, alarm, output>>
  BY DEF Poll
<1>2. Low(pin) \in BOOLEAN
  BY DEF Low
<1>3. CASE UNCHANGED <<button, press, heard>>
  <2>1. ButtonTypes'
    BY <1>1, <1>3, PollsAreCounted DEF ButtonInv, ButtonTypes, button
  <2>2. UNCHANGED <<pressed, fired, press, shortDue, longDue, heard>>
    BY <1>3 DEF button
  <2> QED BY <1>1, <2>1, <2>2, HeldKept, NotesKept, RingKept DEF ButtonInv
<1> QED BY <1>1, <1>2, <1>3, BouncesKeeps, HoldsKeeps, SettlesKeeps DEF Poll

\* The settings.
LEMMA SetPinKeeps ==
  ASSUME ButtonInv, NEW p \in Pins \cup {None}, SetPin(p) PROVE ButtonInv'
<1>1. UNCHANGED <<line, now, alarm, output>>
  BY DEF SetPin
<1>2. CASE UNCHANGED <<button, press, heard>>
  <2>1. ButtonTypes'
    BY <1>1, <1>2 DEF ButtonInv, ButtonTypes, button
  <2>2. UNCHANGED <<pressed, fired, press, shortDue, longDue, heard>>
    BY <1>2 DEF button
  <2> QED BY <1>1, <2>1, <2>2, HeldKept, NotesKept, RingKept DEF ButtonInv
<1>3. CASE ~(p = pin /\ p # None)
  <2> DEFINE held == p # None /\ Low(p)
  <2>1. /\ pin' = p /\ read' = held /\ pressed' = held /\ fired' = held
        /\ shortDue' = FALSE /\ longDue' = FALSE /\ change' = now /\ start' = now
        /\ press' = IF held THEN [by |-> "set", told |-> {}] ELSE NoPress
        /\ heard' = [heard EXCEPT !.shortTaken = heard.short, !.longTaken = heard.long]
    BY <1>3 DEF SetPin, FiredAsSet
  <2>2. held \in BOOLEAN
    BY DEF Low
  <2> HIDE DEF held
  <2>3. press' = [by |-> IF held THEN "set" ELSE "none", told |-> {}]
    BY <2>1 DEF NoPress
  <2>4. ButtonTypes'
    <3>1. press' \in [by : {"none", "finger", "set"}, told : SUBSET {"short", "long"}]
      BY <2>2, <2>3
    <3>2. now \in 0 .. now
      BY PollsAreCounted DEF ButtonInv, ButtonTypes
    <3> QED BY <1>1, <2>1, <2>2, <3>1, <3>2 DEF ButtonInv, ButtonTypes
  <2>5. HeldInv'
    BY <2>1, <2>2, <2>3 DEF HeldInv
  <2>6. heard' = [short |-> heard.short, long |-> heard.long,
                  shortTaken |-> heard.short, longTaken |-> heard.long]
        /\ heard.short \in Nat /\ heard.long \in Nat
    BY <2>1 DEF ButtonInv, NotesInv
  <2>7. NotesInv'
    BY <2>1, <2>6 DEF NotesInv
  <2> QED BY <1>1, <2>4, <2>5, <2>7, RingKept DEF ButtonInv
<1> QED BY <1>2, <1>3 DEF SetPin

LEMMA LoopKeeps == ASSUME ButtonInv, Loop PROVE ButtonInv'
<1>1. /\ UNCHANGED <<line, pin, read, change, start, pressed, fired, now, output, sets, press>>
      /\ longDue' = FALSE /\ shortDue' = FALSE
      /\ heard' = [heard EXCEPT !.longTaken = heard.long, !.shortTaken = heard.short]
  BY DEF Loop
<1>2. ButtonTypes' /\ HeldInv'
  BY <1>1, HeldKept DEF ButtonInv, ButtonTypes
<1>3. heard' = [short |-> heard.short, long |-> heard.long,
                shortTaken |-> heard.short, longTaken |-> heard.long]
      /\ heard.short \in Nat /\ heard.long \in Nat
  BY <1>1 DEF ButtonInv, NotesInv
<1>4. NotesInv'
  BY <1>1, <1>3 DEF NotesInv
<1>5. RingInv'
  <2>1. CASE UNCHANGED alarm
    BY <1>1, <2>1, RingKept DEF ButtonInv
  <2>2. CASE ResetAlarm
    BY <1>1, <2>2 DEF ButtonInv, RingInv, AlarmsRing, ResetAlarm, output
  <2> QED BY <2>1, <2>2 DEF Loop
<1> QED BY <1>2, <1>4, <1>5 DEF ButtonInv

\* The tick of a second, and the setting of the pin that tells of an alert.
LEMMA SecondKeeps == ASSUME ButtonInv, Second PROVE ButtonInv'
<1>1. UNCHANGED <<line, button, now, sets, press, heard>>
  BY DEF Second
<1>2. ButtonTypes' /\ HeldInv' /\ NotesInv'
  BY <1>1, HeldKept, NotesKept DEF ButtonInv, ButtonTypes, button
<1>3. over' \subseteq {"warning", "alert"} /\ snoozed' = (snoozed /\ over' # {})
      /\ ringing' = (IF snoozed' THEN {} ELSE over')
  BY DEF Second
<1>4. PICK active \in BOOLEAN :
        /\ out' \in BOOLEAN /\ last_state' = active /\ switched' = (switched /\ active)
        /\ mode' = mode
        /\ \/ mode = "pulse" /\ active
           \/ out' = IF active # last_state THEN active ELSE out
  <2> DEFINE rings == "alert" \in ringing'
  <2>1. rings \in BOOLEAN /\ AlertOut(rings)
    BY DEF Second
  <2> HIDE DEF rings
  <2>2. /\ last_state' = rings /\ switched' = (switched /\ rings) /\ mode' = mode
        /\ \/ mode = "pulse" /\ rings /\ out' \in BOOLEAN
           \/ out' = (IF rings # last_state THEN rings ELSE out)
    BY <2>1 DEF AlertOut
  <2>3. out' \in BOOLEAN
    BY <2>1, <2>2 DEF ButtonInv, RingInv
  <2> QED BY <2>1, <2>2, <2>3
<1>5. RingInv'
  BY <1>3, <1>4 DEF ButtonInv, RingInv, AlarmsRing
<1> QED BY <1>2, <1>5 DEF ButtonInv

LEMMA SetModeKeeps == ASSUME ButtonInv, SetMode PROVE ButtonInv'
<1>1. ButtonTypes' /\ HeldInv' /\ NotesInv'
  BY HeldKept, NotesKept DEF ButtonInv, ButtonTypes, button, SetMode
<1>2. RingInv'
  BY DEF ButtonInv, RingInv, AlarmsRing, SetMode, alarm
<1> QED BY <1>1, <1>2 DEF ButtonInv

LEMMA ButtonInvNext == ASSUME ButtonInv, [ButtonNext]_buttonVars PROVE ButtonInv'
<1>1. CASE UNCHANGED buttonVars
  <2>1. ButtonTypes' /\ HeldInv' /\ NotesInv' /\ RingInv'
    BY <1>1, HeldKept, NotesKept, RingKept DEF ButtonInv, ButtonTypes, buttonVars, button
  <2> QED BY <2>1 DEF ButtonInv
<1>2. ASSUME NEW p \in Pins, Moves(p) PROVE ButtonInv'
  <2>1. ButtonTypes' /\ HeldInv' /\ NotesInv' /\ RingInv'
    BY <1>2, HeldKept, NotesKept, RingKept DEF ButtonInv, ButtonTypes, Moves, button
  <2> QED BY <2>1 DEF ButtonInv
<1> QED BY <1>1, <1>2, SetPinKeeps, PollKeeps, LoopKeeps, SecondKeeps, SetModeKeeps
        DEF ButtonNext

(* A finger's press has fired just when it was told as long, one that its  *)
(* pin was set with has fired from the first, a note stands just for the    *)
(* presses the loop has not taken, and the alarms ring and fall silent      *)
(* together, for any pins and times.                                        *)
THEOREM ButtonInductive == ButtonSpec => []ButtonInv
<1>1. ButtonInit => ButtonInv
  BY ButtonInvInit
<1>2. ButtonInv /\ [ButtonNext]_buttonVars => ButtonInv'
  BY ButtonInvNext
<1> QED BY <1>1, <1>2, PTL DEF ButtonSpec

(* The times of the button never lie ahead of the poll.                     *)
THEOREM ButtonTimes == ButtonSpec => []ButtonTypeOK
<1>1. ButtonInv => ButtonTypeOK
  BY PollsAreCounted DEF ButtonInv, ButtonTypes, ButtonTypeOK
<1> QED BY <1>1, ButtonInductive, PTL

(* A press is told once, as long or as short, and one that was there when   *)
(* its pin was set not at all; alarms ring unless somebody pressed since.   *)
THEOREM PressesForAll == ButtonSpec => []PressesAreTold
<1>1. ButtonInv => PressesAreTold
  BY DEF ButtonInv, HeldInv, NotesInv, RingInv, PressesAreTold, PressedOnce
<1> QED BY <1>1, ButtonInductive, PTL

(***************************************************************************)
(* The pulses of the high voltage                                          *)
(***************************************************************************)
\* What is set, and what is owed.
TrainTypes ==
  /\ (ccount \in 0 .. Wrap - 1) /\ (next \in 0 .. Wrap - 1)
  /\ (begun \in 0 .. Wrap - 1) /\ (rose \in 0 .. Wrap - 1)
  /\ period \in Periods \union {0} /\ on \in Nat
  /\ on <= period /\ (period # 0 => on + MinOff <= period)
  /\ (debt \in 0 .. MaxLate) /\ excess \in Nat /\ high \in BOOLEAN
  /\ box \in [period : Nat, on : Nat, ready : BOOLEAN]
  /\ (box.ready => box.period \in Periods /\ box.on + MinOff <= box.period)

\* A pulse rose by r after the start of its period and is to fall by f after it, before the
\* period's low end, and with what was too much before it stays within what was asked for.
Pulse(r, f) ==
  /\ rose = At(begun + r) /\ next = At(begun + f)
  /\ -MaxLate <= f /\ f + MinOff <= period
  /\ -MaxLate <= f - r /\ excess + (f - r) <= on

HighInv == high => period # 0 /\ \E r \in Int, f \in Int : Pulse(r, f)

\* With the pin low the next edge is the end of the period.
LowInv == ~high => excess <= debt /\ (period # 0 => next = At(begun + period))

TrainInv == TrainTypes /\ HighInv /\ LowInv

LEMMA TrainWidths ==
  /\ Wrap \in Nat /\ Wrap # 0 /\ Scale \in Nat /\ Scale # 0
  /\ MinOff \in Nat /\ Lead \in Nat /\ Spin \in Nat /\ Idle \in Nat /\ MaxLate \in Nat
  /\ \A p \in Periods : p \in Nat /\ MinOff < p /\ p + MaxLate + Spin < Wrap \div 2
  /\ Duties \subseteq Nat /\ Lead < Wrap
BY TrainAssumption DEF TrainAssumption

LEMMA TimesGrow ==
  ASSUME NEW n \in Nat, NEW d \in Int, NEW e \in Int, d <= e
  PROVE  n * d <= n * e
<1>1. e - d \in Nat
  OBVIOUS
<1>2. n * (e - d) >= 0
  BY <1>1
<1>3. n * (e - d) = n * e - n * d
  OBVIOUS
<1>4. n * d \in Int /\ n * e \in Int
  OBVIOUS
<1> QED BY <1>2, <1>3, <1>4

\* What is left of a time when whole rounds of the clock are taken off.
LEMMA OneRest ==
  ASSUME NEW x \in Int, NEW w \in Nat, w # 0, NEW q \in Int, NEW s \in 0 .. w - 1, x = w * q + s
  PROVE  (x % w) = s
<1> DEFINE turns == x \div w
           r == x % w
<1>1. x = w * turns + r /\ r \in 0 .. w - 1 /\ turns \in Int
  OBVIOUS
<1> HIDE DEF turns, r
<1>2. w * q \in Int /\ w * turns \in Int /\ r \in Nat /\ s \in Nat /\ r < w /\ s < w
  BY <1>1
<1>3. ASSUME q < turns PROVE FALSE
  <2>1. w * (q + 1) <= w * turns
    BY <1>1, <1>3, TimesGrow
  <2>2. w * (q + 1) = w * q + w
    OBVIOUS
  <2> QED BY <2>1, <2>2, <1>1, <1>2
<1>4. ASSUME turns < q PROVE FALSE
  <2>1. w * (turns + 1) <= w * q
    BY <1>1, <1>4, TimesGrow
  <2>2. w * (turns + 1) = w * turns + w
    BY <1>1
  <2> QED BY <2>1, <2>2, <1>1, <1>2
<1>5. q = turns
  BY <1>1, <1>3, <1>4
<1>6. r = s
  BY <1>1, <1>2, <1>5
<1> QED BY <1>6 DEF r

\* The clock shows a time as a whole number of rounds less.
LEMMA Shown ==
  ASSUME NEW x \in Int
  PROVE  /\ (At(x) \in 0 .. Wrap - 1) /\ At(x) \in Int
         /\ \E q \in Int : x = Wrap * q + At(x)
<1>1. Wrap \in Nat /\ Wrap # 0
  BY TrainWidths
<1> DEFINE turns == x \div Wrap
<1>2. x = Wrap * turns + (x % Wrap) /\ (x % Wrap) \in 0 .. Wrap - 1 /\ turns \in Int
  BY <1>1
<1>3. At(x) = (x % Wrap)
  BY DEF At
<1> HIDE DEF turns
<1>4. x = Wrap * turns + At(x) /\ (At(x) \in 0 .. Wrap - 1)
  BY <1>2, <1>3
<1>5. At(x) \in Int
  BY <1>1, <1>4
<1>6. \E q \in Int : x = Wrap * q + At(x)
  BY <1>2, <1>4, Zenon
<1> QED BY <1>4, <1>5, <1>6

LEMMA ShownIs ==
  ASSUME NEW x \in 0 .. Wrap - 1
  PROVE  At(x) = x
<1>1. Wrap \in Nat /\ Wrap # 0 /\ x \in Int /\ x = Wrap * 0 + x
  BY TrainWidths
<1> QED BY <1>1, OneRest DEF At

\* From a time that the clock shows one goes on as from the time itself.
LEMMA GoesOn ==
  ASSUME NEW x \in Int, NEW y \in Int
  PROVE  At(At(x) + y) = At(x + y)
<1>1. PICK q \in Int : x = Wrap * q + At(x)
  BY Shown
<1>2. At(x) \in Int /\ Wrap \in Nat /\ Wrap # 0
  BY Shown, TrainWidths
<1> DEFINE a == At(x)
           s == At(a + y)
<1>3. a + y \in Int
  BY <1>2
<1>4. PICK turns \in Int : a + y = Wrap * turns + s
  BY <1>3, Shown
<1>5. s \in 0 .. Wrap - 1 /\ s \in Int
  BY <1>3, Shown
<1> HIDE DEF a, s
<1>6. x = Wrap * q + a /\ a \in Int
  BY <1>1, <1>2 DEF a
<1>7. Wrap * (q + turns) = Wrap * q + Wrap * turns /\ Wrap * q \in Int /\ Wrap * turns \in Int
  BY <1>2
<1>8. x + y = Wrap * (q + turns) + s /\ q + turns \in Int /\ x + y \in Int
  BY <1>2, <1>4, <1>5, <1>6, <1>7
<1>9. ((x + y) % Wrap) = s
  BY <1>2, <1>5, <1>8, OneRest
<1> QED BY <1>9 DEF At, a, s

\* The difference that the code's cast gives is that of the times, when they are nearer
\* than half a round.
LEMMA CastIs ==
  ASSUME NEW x \in Int, NEW y \in Int, -(Wrap \div 2) <= x - y, x - y < Wrap \div 2
  PROVE  Since(At(x), At(y)) = x - y
<1>1. PICK q \in Int : x = Wrap * q + At(x)
  BY Shown
<1>2. PICK turns \in Int : y = Wrap * turns + At(y)
  BY Shown
<1>3. At(x) \in Int /\ At(y) \in Int /\ Wrap \in Nat /\ Wrap # 0
  BY Shown, TrainWidths
<1> DEFINE a == At(x)
           b == At(y)
           h == Wrap \div 2
<1>4. h \in Nat /\ h + h <= Wrap /\ h < Wrap
  BY <1>3
<1>5. x = Wrap * q + a /\ y = Wrap * turns + b /\ a \in Int /\ b \in Int
  BY <1>1, <1>2, <1>3
<1>6. -h <= x - y /\ x - y < h
  OBVIOUS
<1>7. Since(a, b) = IF ((a - b) % Wrap) >= h THEN ((a - b) % Wrap) - Wrap ELSE ((a - b) % Wrap)
  BY DEF Since
<1> HIDE DEF a, b, h
<1>8. /\ Wrap * (turns - q) = Wrap * turns - Wrap * q
      /\ Wrap * ((turns - q) - 1) = Wrap * turns - Wrap * q - Wrap
      /\ Wrap * turns \in Int /\ Wrap * q \in Int
  <2>1. Wrap \in Int /\ turns \in Int /\ q \in Int
    BY <1>3
  <2>2. Wrap * (turns - q) = Wrap * turns - Wrap * q
    BY <2>1
  <2>3. Wrap * ((turns - q) - 1) = Wrap * (turns - q) - Wrap
    BY <2>1
  <2>4. Wrap * turns \in Int /\ Wrap * q \in Int
    BY <2>1
  <2> QED BY <2>2, <2>3, <2>4
<1>9. CASE x >= y
  <2>1. a - b = Wrap * (turns - q) + (x - y) /\ a - b \in Int /\ turns - q \in Int
    BY <1>5, <1>8
  <2>2. x - y \in 0 .. Wrap - 1
    BY <1>3, <1>4, <1>6, <1>9
  <2>3. ((a - b) % Wrap) = x - y
    BY <1>3, <2>1, <2>2, OneRest
  <2>4. ~(x - y >= h)
    BY <1>4, <1>6
  <2> QED BY <1>7, <2>3, <2>4 DEF a, b
<1>10. CASE x < y
  <2>1. a - b = Wrap * ((turns - q) - 1) + ((x - y) + Wrap) /\ a - b \in Int /\ (turns - q) - 1 \in Int
    BY <1>3, <1>5, <1>8
  <2>2. (x - y) + Wrap \in 0 .. Wrap - 1
    BY <1>3, <1>4, <1>6, <1>10
  <2>3. ((a - b) % Wrap) = (x - y) + Wrap
    BY <1>3, <2>1, <2>2, OneRest
  <2>4. (x - y) + Wrap >= h
    BY <1>3, <1>4, <1>6
  <2>5. ((x - y) + Wrap) - Wrap = x - y
    BY <1>3
  <2> QED BY <1>7, <2>3, <2>4, <2>5 DEF a, b
<1> QED BY <1>9, <1>10

\* Half a round of the clock holds a period and the lateness of an edge.
LEMMA PeriodFits ==
  ASSUME NEW p \in Periods
  PROVE  /\ p \in Nat /\ MinOff < p /\ MaxLate \in Nat /\ Spin \in Nat /\ MinOff \in Nat
         /\ Wrap \div 2 \in Nat /\ p + MaxLate + Spin < Wrap \div 2
BY TrainWidths

\* The times the NMI comes at: late, it reads the clock; early, it waits for the edge.
LEMMA NmiComes ==
  ASSUME NEW p \in Periods, NEW n \in Int, NEW d \in Int, -Spin <= d, d <= MaxLate
  PROVE  /\ At(At(n) + d) = At(n + d)
         /\ \E e \in 0 .. MaxLate :
              Later(At(n + d), At(n)) = At(n + e) /\ Since(At(n + e), At(n)) = e
<1>1. At(At(n) + d) = At(n + d)
  BY GoesOn
<1>2. /\ p \in Nat /\ MaxLate \in Nat /\ Spin \in Nat /\ MinOff \in Nat /\ Wrap \div 2 \in Nat
      /\ p + MaxLate + Spin < Wrap \div 2
  BY PeriodFits
<1> DEFINE h == Wrap \div 2
<1>3. h \in Nat /\ p + MaxLate + Spin < h
  BY <1>2
<1>4. \A e \in Int : -h <= (n + e) - n /\ (n + e) - n < h => Since(At(n + e), At(n)) = (n + e) - n
  BY CastIs
<1> HIDE DEF h
<1>5. \A e \in Int : -Spin <= e /\ e <= MaxLate => Since(At(n + e), At(n)) = e
  <2> SUFFICES ASSUME NEW e \in Int, -Spin <= e, e <= MaxLate
               PROVE  Since(At(n + e), At(n)) = e
    OBVIOUS
  <2>1. (n + e) - n = e
    OBVIOUS
  <2>2. -h <= e /\ e < h
    BY <1>2, <1>3
  <2> QED BY <1>4, <2>1, <2>2
<1>6. CASE d > 0
  <2>1. Since(At(n + d), At(n)) = d /\ d \in 0 .. MaxLate
    BY <1>2, <1>5, <1>6
  <2>2. Later(At(n + d), At(n)) = At(n + d)
    BY <1>6, <2>1 DEF Later
  <2> QED BY <1>1, <2>1, <2>2
<1>7. CASE d <= 0
  <2>1. Since(At(n + d), At(n)) = d /\ Since(At(n + 0), At(n)) = 0
    BY <1>2, <1>5
  <2>2. n + 0 = n /\ ~(d > 0) /\ 0 \in 0 .. MaxLate
    BY <1>2, <1>7
  <2>3. Later(At(n + d), At(n)) = At(n)
    BY <2>1, <2>2 DEF Later
  <2> QED BY <1>1, <2>1, <2>2, <2>3
<1> QED BY <1>6, <1>7

\* What is set of a duty leaves the low end of its period.
LEMMA TicksAreRight ==
  ASSUME NEW p \in Periods, NEW d \in Duties
  PROVE  /\ Ticks(p, d) \in [period : Nat, on : Nat, ready : BOOLEAN]
         /\ Ticks(p, d).period = p /\ Ticks(p, d).on + MinOff <= p
<1>1. p \in Nat /\ MinOff \in Nat /\ MinOff < p /\ d \in Nat /\ Scale \in Nat /\ Scale # 0
  BY TrainWidths
<1>2. p * d \in Nat
  BY <1>1
<1> DEFINE x == p * d
           o == x \div Scale
<1> HIDE DEF x
<1>3. o \in Nat
  BY <1>1, <1>2 DEF x
<1> HIDE DEF o
<1>4. Least(o, p - MinOff) \in Nat /\ Least(o, p - MinOff) <= p - MinOff
  BY <1>1, <1>3 DEF Least
<1>5. Ticks(p, d) = [period |-> p, on |-> Least(o, p - MinOff), ready |-> TRUE]
  BY DEF Ticks, o, x
<1> QED BY <1>1, <1>4, <1>5

LEMMA PostKeeps ==
  ASSUME TrainInv, NEW p \in Periods, NEW d \in Duties, Post(p, d)
  PROVE  TrainInv'
<1>1. /\ box' = Ticks(p, d)
      /\ UNCHANGED <<ccount, next, begun, period, on, debt, high, rose, excess>>
  BY DEF Post
<1>2. TrainTypes'
  BY <1>1, TicksAreRight DEF TrainInv, TrainTypes
<1>3. HighInv' /\ LowInv'
  BY <1>1 DEF TrainInv, HighInv, LowInv, Pulse
<1> QED BY <1>2, <1>3 DEF TrainInv

LEMMA WaitKeeps ==
  ASSUME TrainInv, NEW t \in Times, Wait(t)
  PROVE  TrainInv'
<1>1. /\ period = 0 /\ ccount' = t /\ next' = At(t + Idle)
      /\ UNCHANGED <<begun, period, on, debt, high, box, rose, excess>>
  BY DEF Wait
<1>2. PICK d \in -Spin .. MaxLate : t = At(next + d)
  BY DEF Times
<1>3. next \in Int /\ d \in Int /\ Idle \in Int /\ next + d \in Int
  BY TrainWidths DEF TrainInv, TrainTypes
<1>4. (t \in 0 .. Wrap - 1) /\ t + Idle \in Int
  BY <1>2, <1>3, Shown
<1>5. next' \in 0 .. Wrap - 1
  BY <1>1, <1>4, Shown
<1>6. TrainTypes'
  BY <1>1, <1>4, <1>5 DEF TrainInv, TrainTypes
<1>7. ~high /\ excess <= debt
  BY <1>1 DEF TrainInv, HighInv, LowInv
<1>8. HighInv' /\ LowInv'
  BY <1>1, <1>7 DEF HighInv, LowInv
<1> QED BY <1>6, <1>8 DEF TrainInv

\* A falling edge: the next period begins where this one ends, and what the lateness added
\* is owed up to a quarter of the pulse.
LEMMA FallKeeps ==
  ASSUME TrainInv, NEW t \in Times, Fall(t)
  PROVE  TrainInv'
<1>1. /\ high /\ high' = FALSE /\ rose' = 0 /\ UNCHANGED <<begun, period, on, box>>
      /\ next' = At(begun + period)
  BY DEF Fall, FallFrom
<1>2. PICK r \in Int, f \in Int : Pulse(r, f)
  BY <1>1 DEF TrainInv, HighInv
<1>3. period \in Periods
  BY <1>1 DEF TrainInv, TrainTypes, HighInv
<1>4. /\ period \in Nat /\ MaxLate \in Nat /\ Spin \in Nat /\ MinOff \in Nat /\ Wrap \div 2 \in Nat
      /\ period + MaxLate + Spin < Wrap \div 2 /\ MinOff < period
  BY <1>3, PeriodFits
<1>5. /\ begun \in Int /\ on \in Nat /\ excess \in Nat /\ debt \in Nat /\ on + MinOff <= period
      /\ (begun \in 0 .. Wrap - 1)
  BY <1>3, <1>4, TrainWidths DEF TrainInv, TrainTypes
<1>6. PICK d \in -Spin .. MaxLate : t = At(next + d)
  BY DEF Times
<1>7. d \in Int /\ -Spin <= d /\ d <= MaxLate
  BY <1>4, <1>6
<1> DEFINE n == begun + f
<1>8. n \in Int /\ next = At(n)
  BY <1>2, <1>5 DEF Pulse
<1> HIDE DEF n
<1>9. t = At(n + d)
  BY <1>3, <1>6, <1>7, <1>8, NmiComes
<1>10. PICK e \in 0 .. MaxLate : Later(t, next) = At(n + e) /\ Since(At(n + e), At(n)) = e
  BY <1>3, <1>7, <1>8, <1>9, NmiComes
<1> DEFINE t2 == Later(t, next)
           late == Since(t2, next)
           quarter == Least(late, on \div 4)
           high2 == Since(t2, rose)
           more == excess + high2 - on - (late - quarter)
<1>11. /\ ccount' = t2 /\ debt' = quarter /\ excess' = IF more > 0 THEN more ELSE 0
  BY DEF Fall, Late
<1>12. late = e /\ e \in Nat /\ e <= MaxLate
  BY <1>4, <1>8, <1>10
<1>13. high2 = (f - r) + e
  <2> DEFINE x == n + e
             y == begun + r
             h == Wrap \div 2
  <2>1. x - y = (f - r) + e /\ x \in Int /\ y \in Int
    BY <1>2, <1>5, <1>12 DEF n
  <2>2. -MaxLate <= f - r /\ f - r <= on /\ f - r \in Int
    BY <1>2, <1>5 DEF Pulse
  <2>3. h \in Nat /\ period + MaxLate + Spin < h
    BY <1>4
  <2> HIDE DEF h, x, y
  <2>4. -h <= x - y /\ x - y < h
    BY <1>4, <1>5, <1>12, <2>1, <2>2, <2>3
  <2>5. Since(At(x), At(y)) = x - y
    BY <2>1, <2>4, CastIs DEF h
  <2>6. t2 = At(x) /\ rose = At(y)
    BY <1>2, <1>10 DEF Pulse, x, y
  <2> QED BY <2>1, <2>5, <2>6
<1>14. /\ quarter = (IF late <= on \div 4 THEN late ELSE on \div 4)
  BY DEF Least
<1>15. ccount' = At(n + e) /\ n + e \in Int
  BY <1>8, <1>10, <1>11, <1>12
<1> HIDE DEF t2, late, quarter, high2
<1>16. quarter \in Nat /\ quarter <= MaxLate
  <2> DEFINE w == on \div 4
  <2>1. w \in Nat
    BY <1>5
  <2>2. quarter = (IF late <= w THEN late ELSE w)
    BY <1>14
  <2> HIDE DEF w
  <2> QED BY <1>4, <1>12, <2>1, <2>2
<1>17. /\ excess + (f - r) <= on
  BY <1>2 DEF Pulse
<1>18. more \in Int /\ more <= quarter
  BY <1>2, <1>5, <1>12, <1>13, <1>16, <1>17
<1> HIDE DEF more
<1>19. /\ (debt' \in 0 .. MaxLate) /\ excess' \in Nat /\ excess' <= debt'
  BY <1>4, <1>11, <1>16, <1>18
<1>20. begun + period \in Int
  BY <1>4, <1>5
<1>21. (next' \in 0 .. Wrap - 1) /\ (ccount' \in 0 .. Wrap - 1)
  BY <1>1, <1>15, <1>20, Shown
<1>22. rose' \in 0 .. Wrap - 1
  BY <1>1, TrainWidths
<1>23. TrainTypes'
  <2>1. TrainTypes
    BY DEF TrainInv
  <2>2. high' \in BOOLEAN
    BY <1>1
  <2> QED BY <1>1, <1>19, <1>21, <1>22, <2>1, <2>2 DEF TrainTypes
<1>24. HighInv' /\ LowInv'
  BY <1>1, <1>19 DEF HighInv, LowInv
<1> QED BY <1>23, <1>24 DEF TrainInv

\* Where a pulse that rose e late is to fall: it keeps its length, less what is owed, but
\* for the low end of the period.
LEMMA FallIsDue ==
  ASSUME TrainTypes, NEW p \in Periods, NEW o \in Nat, o + MinOff <= p,
         NEW e \in 0 .. MaxLate, NEW n \in Int
  PROVE  \E f \in Int :
           /\ FallAt(At(n + e), o, At(n), p) = At(n + f)
           /\ -MaxLate <= f /\ f + MinOff <= p
           /\ -MaxLate <= f - e /\ f - e <= o - debt
<1>1. /\ p \in Nat /\ MaxLate \in Nat /\ Spin \in Nat /\ MinOff \in Nat /\ Wrap \div 2 \in Nat
      /\ p + MaxLate + Spin < Wrap \div 2 /\ MinOff < p
  BY PeriodFits
<1>2. debt \in Nat /\ debt <= MaxLate /\ e \in Nat /\ e <= MaxLate
  BY <1>1 DEF TrainTypes
<1> DEFINE u == e + (o - debt)
           v == p - MinOff
           h == Wrap \div 2
           fall == At(At(n + e) + o - debt)
           limit == At(At(n) + p - MinOff)
<1>3. u \in Int /\ v \in Int /\ h \in Nat /\ p + MaxLate + Spin < h
  BY <1>1, <1>2
<1>4. FallAt(At(n + e), o, At(n), p) = IF Since(fall, limit) > 0 THEN limit ELSE fall
  BY DEF FallAt
<1>5. fall = At(n + u)
  <2>0. n + e \in Int /\ o - debt \in Int
    BY <1>2
  <2>1. At(n + e) \in Int /\ At(At(n + e) + (o - debt)) = At((n + e) + (o - debt))
    <3> DEFINE x == n + e
               y == o - debt
    <3>1. x \in Int /\ y \in Int
      BY <2>0
    <3> HIDE DEF x, y
    <3>2. At(x) \in Int /\ At(At(x) + y) = At(x + y)
      BY <3>1, Shown, GoesOn
    <3> QED BY <3>2 DEF x, y
  <2>2. At(n + e) + (o - debt) = At(n + e) + o - debt /\ (n + e) + (o - debt) = n + u
    BY <1>2, <2>1
  <2> QED BY <2>1, <2>2
<1>6. limit = At(n + v)
  <2>1. At(n) \in Int /\ At(At(n) + (p - MinOff)) = At(n + (p - MinOff))
    <3> DEFINE y == p - MinOff
    <3>1. y \in Int
      BY <1>1
    <3> HIDE DEF y
    <3>2. At(n) \in Int /\ At(At(n) + y) = At(n + y)
      BY <3>1, Shown, GoesOn
    <3> QED BY <3>2 DEF y
  <2>2. At(n) + (p - MinOff) = At(n) + p - MinOff
    BY <1>1, <2>1
  <2> QED BY <2>1, <2>2
<1>7. -MaxLate <= u /\ v + MinOff <= p /\ 0 <= v /\ -MaxLate <= u - e /\ u - e <= o - debt
      /\ v - e \in Int /\ -MaxLate <= v - e
  BY <1>1, <1>2
<1>8. -h <= (n + u) - (n + v) /\ (n + u) - (n + v) < h /\ (n + u) - (n + v) = u - v
  BY <1>1, <1>2, <1>3
<1>9. u - v > 0 => v - e <= o - debt
  BY <1>1, <1>2
<1>10. u - v <= 0 => u + MinOff <= p
  BY <1>1, <1>2
<1> HIDE DEF u, v, fall, limit
<1>11. n + u \in Int /\ n + v \in Int
  BY <1>3
<1>12. Since(At(n + u), At(n + v)) = u - v
  BY <1>8, <1>11, CastIs DEF h
<1>13. CASE u - v > 0
  <2>1. FallAt(At(n + e), o, At(n), p) = At(n + v)
    BY <1>4, <1>5, <1>6, <1>12, <1>13
  <2>2. -MaxLate <= v
    BY <1>1, <1>3, <1>7
  <2> QED BY <1>3, <1>7, <1>9, <1>13, <2>1, <2>2
<1>14. CASE ~(u - v > 0)
  <2>1. FallAt(At(n + e), o, At(n), p) = At(n + u)
    BY <1>4, <1>5, <1>6, <1>12, <1>14
  <2>2. u + MinOff <= p
    BY <1>3, <1>10, <1>14
  <2> QED BY <1>3, <1>7, <2>1, <2>2
<1> QED BY <1>13, <1>14

\* A period begins where the one before it ended; its pulse pays what is owed.
LEMMA PeriodKeeps ==
  ASSUME TrainInv, NEW t \in Times, Period(t)
  PROVE  TrainInv'
<1> DEFINE p == IF box.ready THEN box.period ELSE period
           o == IF box.ready THEN box.on ELSE on
           t2 == Later(t, next)
           rise == o > 0 /\ Since(t, next + o - Lead) < 0
<1>1. /\ ~high /\ (period # 0 \/ box.ready)
      /\ period' = p /\ on' = o /\ box' = [box EXCEPT !.ready = FALSE]
      /\ begun' = next /\ high' = rise /\ excess' = excess
  BY DEF Period
<1>2. rise => ccount' = t2 /\ rose' = t2 /\ next' = FallAt(t2, o, next, p) /\ debt' = 0
  BY DEF Period
<1>3. ~rise => ccount' = t /\ next' = At(next + p) /\ rose' = rose /\ debt' = debt
  BY DEF Period
<1>4. TrainTypes /\ excess <= debt
  BY <1>1 DEF TrainInv, LowInv
<1>5. (p \in Periods) /\ o \in Nat /\ o + MinOff <= p
  BY <1>1, <1>4 DEF TrainTypes
<1> HIDE DEF p, o
<1>6. rise \in BOOLEAN
  OBVIOUS
<1> HIDE DEF rise
<1>7. /\ p \in Nat /\ p # 0 /\ MaxLate \in Nat /\ MinOff \in Nat /\ Spin \in Nat /\ o <= p
  BY <1>5, PeriodFits
<1>8. PICK d \in -Spin .. MaxLate : t = At(next + d)
  BY DEF Times
<1>9. (next \in 0 .. Wrap - 1) /\ next \in Int /\ At(next) = next
  BY <1>4, TrainWidths, ShownIs DEF TrainTypes
<1>10. d \in Int /\ -Spin <= d /\ d <= MaxLate
  BY <1>7, <1>8
<1>11. PICK e \in 0 .. MaxLate : Later(At(next + d), At(next)) = At(next + e)
  BY <1>5, <1>9, <1>10, NmiComes
<1>12. t2 = At(next + e)
  BY <1>8, <1>9, <1>11
<1> HIDE DEF t2
<1>13. e \in Nat /\ e <= MaxLate /\ next + e \in Int /\ next + d \in Int /\ next + p \in Int
  BY <1>7, <1>9, <1>10
<1>14. (t \in 0 .. Wrap - 1) /\ (t2 \in 0 .. Wrap - 1)
  BY <1>8, <1>12, <1>13, Shown
<1>15. /\ (begun' \in 0 .. Wrap - 1) /\ (period' \in Periods \union {0}) /\ on' \in Nat
       /\ on' <= period' /\ (period' # 0 => on' + MinOff <= period')
       /\ excess' \in Nat /\ high' \in BOOLEAN
  BY <1>1, <1>4, <1>5, <1>6, <1>7, <1>9 DEF TrainTypes
<1>16. /\ box' \in [period : Nat, on : Nat, ready : BOOLEAN]
       /\ (box'.ready => box'.period \in Periods /\ box'.on + MinOff <= box'.period)
  BY <1>1, <1>4 DEF TrainTypes
<1>17. CASE rise
  <2>1. PICK f \in Int :
          /\ FallAt(At(next + e), o, At(next), p) = At(next + f)
          /\ -MaxLate <= f /\ f + MinOff <= p
          /\ -MaxLate <= f - e /\ f - e <= o - debt
    BY <1>4, <1>5, <1>9, FallIsDue
  <2>2. rose' = At(begun' + e) /\ next' = At(begun' + f) /\ ccount' = t2 /\ debt' = 0
    BY <1>1, <1>2, <1>9, <1>12, <1>17, <2>1
  <2>3. debt \in Nat /\ excess \in Nat
    BY <1>4, <1>7 DEF TrainTypes
  <2>4. excess + (f - e) <= o
    BY <1>4, <1>5, <1>13, <2>1, <2>3
  <2>5. Pulse(e, f)'
    BY <1>1, <2>1, <2>2, <2>4 DEF Pulse
  <2>6. e \in Int /\ f \in Int
    BY <1>13
  <2>7. \E r \in Int, g \in Int : Pulse(r, g)'
    BY <2>5, <2>6, Zenon
  <2>8. HighInv'
    BY <1>1, <1>7, <2>7 DEF HighInv
  <2>9. LowInv'
    BY <1>1, <1>17 DEF LowInv
  <2>10. next' \in 0 .. Wrap - 1
    <3>1. next + f \in Int
      BY <1>9, <2>6
    <3> QED BY <1>1, <2>2, <3>1, Shown
  <2>11. (ccount' \in 0 .. Wrap - 1) /\ (rose' \in 0 .. Wrap - 1) /\ debt' \in 0 .. MaxLate
    BY <1>2, <1>7, <1>14, <1>17
  <2>12. TrainTypes'
    BY <1>15, <1>16, <2>10, <2>11 DEF TrainTypes
  <2> QED BY <2>8, <2>9, <2>12 DEF TrainInv
<1>18. CASE ~rise
  <2>1. next' = At(begun' + period') /\ high' = FALSE /\ excess' <= debt'
    BY <1>1, <1>3, <1>4, <1>18
  <2>2. HighInv' /\ LowInv'
    BY <2>1 DEF HighInv, LowInv
  <2>3. next' \in 0 .. Wrap - 1
    BY <1>3, <1>13, <1>18, Shown
  <2>4. (ccount' \in 0 .. Wrap - 1) /\ (rose' \in 0 .. Wrap - 1) /\ debt' \in 0 .. MaxLate
    BY <1>3, <1>4, <1>14, <1>18 DEF TrainTypes
  <2>5. TrainTypes'
    BY <1>15, <1>16, <2>3, <2>4 DEF TrainTypes
  <2> QED BY <2>2, <2>5 DEF TrainInv
<1> QED BY <1>17, <1>18

LEMMA TrainStarts ==
  ASSUME TrainInit
  PROVE  TrainInv
<1>1. TrainTypes
  <2>1. /\ ccount = 0 /\ next = Lead /\ begun = 0 /\ period = 0 /\ on = 0 /\ debt = 0
        /\ high = FALSE /\ box = [period |-> 0, on |-> 0, ready |-> FALSE]
        /\ rose = 0 /\ excess = 0
    BY DEF TrainInit
  <2>2. /\ (ccount \in 0 .. Wrap - 1) /\ (next \in 0 .. Wrap - 1)
        /\ (begun \in 0 .. Wrap - 1) /\ (rose \in 0 .. Wrap - 1)
        /\ (debt \in 0 .. MaxLate) /\ on <= period
    BY <2>1, TrainWidths
  <2>3. box \in [period : Nat, on : Nat, ready : BOOLEAN] /\ box.ready = FALSE
    BY <2>1
  <2>4. high \in BOOLEAN /\ period \in Periods \union {0} /\ on \in Nat /\ excess \in Nat
    BY <2>1
  <2> QED BY <2>1, <2>2, <2>3, <2>4 DEF TrainTypes
<1>2. HighInv /\ LowInv
  BY DEF TrainInit, HighInv, LowInv
<1> QED BY <1>1, <1>2 DEF TrainInv

LEMMA TrainSteps ==
  ASSUME TrainInv, [TrainNext]_trainVars
  PROVE  TrainInv'
<1>1. CASE UNCHANGED trainVars
  BY <1>1 DEF TrainInv, TrainTypes, HighInv, LowInv, Pulse, trainVars
<1>2. CASE TrainNext
  BY <1>2, PostKeeps, WaitKeeps, FallKeeps, PeriodKeeps DEF TrainNext
<1> QED BY <1>1, <1>2

\* What was posted, what runs and what is owed stay consistent, for every range of the clock.
THEOREM TrainTypesForAll == TrainSpec => [](TrainTypeOK /\ TrainInv)
<1>1. TrainInv => TrainTypeOK
  <2> SUFFICES ASSUME TrainInv PROVE TrainTypeOK
    OBVIOUS
  <2>1. on \in 0 .. period
    BY TrainWidths DEF TrainInv, TrainTypes
  <2>2. debt \in Nat
    BY TrainWidths DEF TrainInv, TrainTypes
  <2> QED BY <2>1, <2>2 DEF TrainInv, TrainTypes, TrainTypeOK
<1> QED BY <1>1, TrainStarts, TrainSteps, PTL DEF TrainSpec

\* The falling edge of a pulse that is out is due before the low end of its period.
LEMMA LowEnds ==
  ASSUME TrainInv
  PROVE  LowEveryPeriod
<1> SUFFICES ASSUME high PROVE Since(At(begun + period), next) >= MinOff
  BY DEF LowEveryPeriod
<1>1. PICK r \in Int, f \in Int : Pulse(r, f)
  BY DEF TrainInv, HighInv
<1>2. period \in Periods /\ begun \in Int
  BY TrainWidths DEF TrainInv, TrainTypes, HighInv
<1>3. /\ period \in Nat /\ MaxLate \in Nat /\ Spin \in Nat /\ MinOff \in Nat /\ Wrap \div 2 \in Nat
      /\ period + MaxLate + Spin < Wrap \div 2 /\ MinOff < period
  BY <1>2, PeriodFits
<1> DEFINE x == begun + period
           y == begun + f
           h == Wrap \div 2
<1>4. /\ h \in Nat /\ x \in Int /\ y \in Int /\ x - y = period - f /\ next = At(y)
      /\ -MaxLate <= f /\ f + MinOff <= period /\ period + MaxLate + Spin < h
  BY <1>1, <1>2, <1>3 DEF Pulse
<1> HIDE DEF x, y, h
<1>5. -h <= x - y /\ x - y < h /\ x - y >= MinOff
  BY <1>3, <1>4
<1>6. Since(At(x), At(y)) = x - y
  BY <1>4, <1>5, CastIs DEF h
<1> QED BY <1>4, <1>5, <1>6 DEF x

\* A period begins on an edge that is the end of the one before it.
LEMMA PeriodsFollow ==
  ASSUME TrainInv, [TrainNext]_trainVars
  PROVE  [begun' # begun /\ period # 0 => begun' = At(begun + period)]_trainVars
<1> SUFFICES ASSUME TrainNext, begun' # begun, period # 0
             PROVE  begun' = At(begun + period)
  OBVIOUS
<1>1. PICK t \in Times : Period(t)
  BY DEF TrainNext, Post, Wait, Fall
<1>2. ~high /\ begun' = next
  BY <1>1 DEF Period
<1> QED BY <1>2 DEF TrainInv, LowInv

\* However late the NMI is and whatever is posted: each period begins where the one before
\* it ended, each pulse is due to fall before the low end of its period, and what late falls
\* added to the pulses is paid back.
THEOREM TrainForAll == TrainSpec => PulsesAreWhole
<1>1. TrainInv => LowEveryPeriod /\ LatenessIsPaid
  BY LowEnds DEF TrainInv, LowInv, LatenessIsPaid
<1>2. TrainInv /\ [TrainNext]_trainVars
        => [begun' # begun /\ period # 0 => begun' = At(begun + period)]_trainVars
  BY PeriodsFollow
<1> QED BY <1>1, <1>2, TrainStarts, TrainSteps, PTL
     DEF TrainSpec, PulsesAreWhole, TimelineIsFixed
=============================================================================
