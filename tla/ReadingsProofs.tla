---------------------------- MODULE ReadingsProofs ----------------------------
(***************************************************************************)
(* What is proved of where clicks are kept, sent and shown.                *)
(*                                                                         *)
(* Of the lifetime total, for any stash and save periods, any width of the *)
(* total, any steps of the clock and any mishaps: what a crash leaves of   *)
(* the clicks is bounded on either side, and no second is tracked whose    *)
(* clicks are not in the total.                                            *)
(*                                                                         *)
(* Of the tally, for any hours, clocks and replies: the hours hold every   *)
(* click that was collected since the first sync, and turn on time.        *)
(*                                                                         *)
(* Of the log on the SD card, for any length of a day and of the run: what *)
(* a power cut, an update or a full card costs of the rows.                *)
(*                                                                         *)
(* Of a poster, for any interval and any times: one post to a slot, and no *)
(* slot slept through.                                                     *)
(*                                                                         *)
(* Of the pins, for any clock, debounce and rates: edges count by the time *)
(* between them, an input that was parked comes back, what is lit is put   *)
(* out again, and the clicks shown keep to their rate.                     *)
(*                                                                         *)
(* Of the clicks over UDP, for any producers, slots, gaps and counts: no   *)
(* click is credited twice, and what lost datagrams carried is made good.  *)
(***************************************************************************)
EXTENDS Lifetime, HourTally, SdLog, Poster, PulseInput, PulseOut, UdpClicks, SelectionProofs, TLAPS

(* The clicks that are not saved yet: fewer than come in between two saves *)
(* and while the loop is late, and so they do not wrap.                    *)
PaceInv ==
  /\ pc = "off" => unsaved = 0 /\ pending = {}
  /\ "rtc" \in pending => rtc_ctr <= LoopLag
  /\ pc = "up" /\ "save" \notin pending => unsaved <= save_ctr
  /\ pc = "up" /\ "save" \in pending =>
       unsaved <= SaveEvery - 1 + rtc_ctr + (IF "rtc" \in pending THEN StashEvery ELSE 0)

(* The three copies of the total: RAM is ahead of the file by the clicks   *)
(* that a crash had brought back and by those that came in since; the      *)
(* stash holds some of the latter, all of them but those since the last    *)
(* tick that asked for it.                                                 *)
Stashed == IF rtc.magic THEN rtc.clicks ELSE 0

CopiesInv ==
  /\ mishap # "failed write" /\ pc = "up" => Value(life) = Value(disk) + recovered + unsaved
  /\ mishap # "failed write" /\ pc = "saved" => life = disk
  /\ pc # "off" => Stashed <= unsaved
  /\ pc = "up" /\ "rtc" \notin pending => unsaved - Stashed <= rtc_ctr

(* The seconds: each copy covers no more of them than clicks and blind     *)
(* seconds, and the time since the last save no more than those since.     *)
Sound == mishap \notin {"pause", "late sync", "torn save"}

CoverInv ==
  Sound =>
    /\ enabled /\ step = 0
    /\ since # Unset => since >= 0 /\ synced /\ pc # "off"
    /\ pc = "saved" /\ since # Unset => since = 0
    /\ since = Unset => pending_since < 0
    /\ "rtc" \notin pending => pending_since = Unset
    /\ pending_since <= since \/ pending_since < 0
    /\ disk.secs <= Value(disk) + blind
    /\ pc # "saved" /\ rtc.magic => disk.secs + rtc.seconds <= Value(disk) + rtc.clicks + blind
    /\ pc # "off" /\ since # Unset => life.secs + since <= Value(life) + blind
    /\ pc # "off" => life.secs <= Value(life) + blind
    /\ pc # "off" /\ since # Unset => disk.secs + since <= Value(disk) + unsaved + blind

----------------------------------------------------------------------------
\* The facts about the constants that the steps need.
LEMMA Widths ==
  /\ StashEvery \in Nat \ {0} /\ SaveEvery \in Nat \ {0} /\ Wrap \in Nat \ {0}
  /\ LoopLag \in Nat /\ LoopLag < StashEvery
  /\ StashEvery + SaveEvery + LoopLag <= Wrap
  /\ Wrap >= 2 /\ 0 \in 0 .. Wrap - 1 /\ 1 \in 0 .. Wrap - 1
<1>1. /\ StashEvery \in Nat \ {0} /\ SaveEvery \in Nat \ {0} /\ Wrap \in Nat \ {0}
      /\ LoopLag \in Nat /\ LoopLag < StashEvery
      /\ StashEvery + SaveEvery + LoopLag <= Wrap
  BY LifetimeAssumption, Zenon
<1> QED BY <1>1

LEMMA StepsMove == ASSUME NEW d \in Steps PROVE d \in Int /\ d > Unset
BY LifetimeAssumption, Zenon

\* A sum of two counts wraps at most once.
LEMMA SumWraps ==
  ASSUME NEW c \in 0 .. Wrap - 1, NEW n \in 0 .. Wrap - 1
  PROVE  (c + n) % Wrap = IF c + n < Wrap THEN c + n ELSE c + n - Wrap
<1>1. Wrap \in Nat /\ Wrap > 0
  BY Widths
<1>2. CASE c + n < Wrap
  <2>1. c + n \in 0 .. Wrap - 1
    BY <1>1, <1>2
  <2> QED BY <1>1, <1>2, <2>1, SMT
<1>3. CASE c + n >= Wrap
  <2> DEFINE a == c + n - Wrap
  <2>1. a \in 0 .. Wrap - 1 /\ c + n = a + Wrap
    BY <1>1, <1>3
  <2> HIDE DEF a
  <2>2. (a + Wrap) % Wrap = a
    BY <1>1, <2>1, SMT
  <2> QED BY <1>1, <1>3, <2>1, <2>2 DEF a
<1> QED BY <1>1, <1>2, <1>3

\* A total and its rollovers make one number: to add to it is to add to that.
LEMMA AddCounts ==
  ASSUME NEW l \in Life, NEW n \in 0 .. Wrap - 1
  PROVE  /\ Add(l, n) \in Life
         /\ Value(Add(l, n)) = Value(l) + n
         /\ Add(l, n).secs = l.secs /\ Add(l, n).fbt = l.fbt
<1> DEFINE sum == (l.clk + n) % Wrap
           carry == IF l.clk > sum THEN l.clkr + 1 ELSE l.clkr
<1>1. Add(l, n) = [l EXCEPT !.clk = sum, !.clkr = carry]
  BY DEF Add
<1>2. l.clk \in 0 .. Wrap - 1 /\ l.clkr \in Nat /\ Wrap \in Nat
  BY Widths DEF Life
<1>3. sum = IF l.clk + n < Wrap THEN l.clk + n ELSE l.clk + n - Wrap
  BY <1>2, SumWraps
<1> HIDE DEF sum
<1>4. sum \in 0 .. Wrap - 1 /\ carry \in Nat
  BY <1>2, <1>3
<1>5. carry * Wrap + sum = l.clkr * Wrap + l.clk + n
  <2>1. CASE l.clk + n < Wrap
    BY <1>2, <1>3, <2>1
  <2>2. CASE l.clk + n >= Wrap
    <3>1. carry = l.clkr + 1 /\ sum = l.clk + n - Wrap
      BY <1>2, <1>3, <2>2
    <3>2. (l.clkr + 1) * Wrap = l.clkr * Wrap + Wrap
      BY <1>2
    <3> DEFINE x == l.clkr * Wrap
               y == carry * Wrap
    <3>3. x \in Int /\ y = x + Wrap
      BY <1>2, <3>1, <3>2
    <3> HIDE DEF x, y
    <3>4. y + sum = x + l.clk + n
      BY <1>2, <3>1, <3>3
    <3> QED BY <3>4 DEF x, y
  <2> QED BY <1>2, <2>1, <2>2
<1> HIDE DEF carry
<1>6. Add(l, n).clk = sum /\ Add(l, n).clkr = carry
      /\ Add(l, n).secs = l.secs /\ Add(l, n).fbt = l.fbt /\ Add(l, n) \in Life
  BY <1>1, <1>4 DEF Life
<1> QED BY <1>2, <1>5, <1>6 DEF Value

\* What save_lifetime leaves up to its commit.
LEMMA CommitFacts ==
  ASSUME NEW l \in Life, NEW s \in Int, NEW restart \in BOOLEAN, Commit(l, s, restart)
  PROVE  /\ life' \in Life /\ Value(life') = Value(l)
         /\ life'.secs = IF s # Unset /\ synced /\ s >= 0 THEN l.secs + s ELSE l.secs
         /\ since' = IF synced THEN 0 ELSE s
         /\ \/ disk' = life' /\ mishap' = mishap
            \/ disk' = disk /\ mishap' = "failed write" /\ mishap' \in Mishaps
         /\ pc' = "saved" /\ restarting' = restart
<1> DEFINE total == IF s # Unset /\ synced /\ s >= 0 THEN l.secs + s ELSE l.secs
<1>1. /\ life' = [l EXCEPT !.secs = total]
      /\ since' = IF synced THEN 0 ELSE s
      /\ \/ disk' = life' /\ mishap' = mishap
         \/ disk' = disk /\ mishap' = "failed write" /\ mishap' \in Mishaps
      /\ pc' = "saved" /\ restarting' = restart
  BY DEF Commit, Mishap
<1>2. total \in Int
  BY DEF Life
<1>3. life' \in Life /\ life'.clk = l.clk /\ life'.clkr = l.clkr /\ life'.secs = total
  <2> HIDE DEF total
  <2> QED BY <1>1, <1>2 DEF Life
<1> QED BY <1>1, <1>3 DEF Value

\* A total that was reset is one.
LEMMA ZeroIsLife == Zero \in Life /\ Value(Zero) = 0 /\ Zero.secs = 0
BY Widths DEF Zero, Life, Value

\* What the file holds may be of a boot before.
LEMMA BootFacts ==
  ASSUME TypeOK, Boot
  PROVE  /\ life' \in Life /\ recovered' \in 0 .. Wrap - 1
         /\ Value(life') = Value(disk) + recovered'
         /\ \/ rtc.magic /\ enabled /\ recovered' = rtc.clicks
               /\ life'.secs = disk.secs + rtc.seconds
            \/ ~(rtc.magic /\ enabled) /\ recovered' = 0 /\ life'.secs = disk.secs
<1> DEFINE l == [disk EXCEPT !.fbt = IF @ = "none" THEN @ ELSE "before"]
<1>1. /\ l \in Life /\ Value(l) = Value(disk) /\ l.secs = disk.secs
      /\ disk \in Life /\ Value(disk) \in Int
  BY Widths DEF TypeOK, Life, Value
<1>2. rtc.clicks \in 0 .. Wrap - 1 /\ rtc.seconds \in Int
  BY DEF TypeOK
<1>3. IF rtc.magic /\ enabled
      THEN /\ life' = [Add(l, rtc.clicks) EXCEPT !.secs = @ + rtc.seconds]
           /\ recovered' = rtc.clicks
      ELSE life' = l /\ recovered' = 0
  BY DEF Boot
<1> HIDE DEF l
<1>4. CASE rtc.magic /\ enabled
  <2> DEFINE a == Add(l, rtc.clicks)
  <2>1. a \in Life /\ Value(a) = Value(l) + rtc.clicks /\ a.secs = l.secs
    BY <1>1, <1>2, AddCounts
  <2>2. life' = [a EXCEPT !.secs = @ + rtc.seconds] /\ recovered' = rtc.clicks
    BY <1>3, <1>4
  <2> HIDE DEF a
  <2>3. /\ life' \in Life /\ life'.clk = a.clk /\ life'.clkr = a.clkr
        /\ life'.secs = a.secs + rtc.seconds
    BY <1>2, <2>1, <2>2 DEF Life
  <2> QED BY <1>1, <1>2, <1>4, <2>1, <2>2, <2>3 DEF Value
<1>5. CASE ~(rtc.magic /\ enabled)
  <2>1. life' = l /\ recovered' = 0
    BY <1>3, <1>5
  <2> QED BY <1>1, <1>5, <2>1, Widths
<1> QED BY <1>4, <1>5

\* What a second of the ticker does while the lifetime is kept.
LEMMA SecondFacts ==
  ASSUME TypeOK, Second, enabled
  PROVE  \E n \in {0, 1} :
           /\ life' \in Life /\ Value(life') = Value(life) + n /\ life'.secs = life.secs
           /\ unsaved' = unsaved + n /\ blind' = blind + 1 - n
<1> DEFINE n == IF stopped THEN 0 ELSE 1
           first == life.fbt = "none" /\ synced
           a == Add(life, n)
<1>1. n \in {0, 1} /\ n \in 0 .. Wrap - 1
  BY Widths
<1>2. life' = [a EXCEPT !.fbt = IF first THEN "this" ELSE @]
      /\ unsaved' = unsaved + n /\ blind' = blind + 1 - n
  BY DEF Second
<1>3. a \in Life /\ Value(a) = Value(life) + n /\ a.secs = life.secs
  BY <1>1, AddCounts DEF TypeOK
<1> HIDE DEF n, a, first
<1>4. life' \in Life /\ life'.clk = a.clk /\ life'.clkr = a.clkr /\ life'.secs = a.secs
  BY <1>2, <1>3 DEF Life
<1> QED BY <1>1, <1>2, <1>3, <1>4 DEF Value

----------------------------------------------------------------------------
(* Types and pace                                                          *)

\* A stash that is not there is an empty one.
LEMMA NoStashType ==
  /\ NoStash \in [magic : BOOLEAN, clicks : 0 .. Wrap - 1, seconds : Int]
  /\ NoStash.magic = FALSE
<1> DEFINE r == Stash(0, 0)
<1>1. r \in [magic : BOOLEAN, clicks : 0 .. Wrap - 1, seconds : Int]
  BY Widths DEF Stash
<1>2. NoStash = [r EXCEPT !.magic = FALSE]
  BY DEF NoStash
<1> HIDE DEF r
<1> QED BY <1>1, <1>2

\* A new device has no clicks.
LEMMA PaceInit == Init => TypeOK /\ PaceInv
<1> SUFFICES ASSUME Init PROVE TypeOK /\ PaceInv
  OBVIOUS
<1>1. 0 \in 0 .. StashEvery - 1 /\ 0 \in 0 .. SaveEvery - 1 /\ Unset \in Int /\ 0 \in Nat
  BY Widths DEF Unset
<1>2. Zero \in Life /\ NoStash \in [magic : BOOLEAN, clicks : 0 .. Wrap - 1, seconds : Int]
  BY ZeroIsLife, NoStashType
<1>3. TypeOK
  <2>1. disk \in Life /\ life \in Life
    BY <1>2 DEF Init
  <2>2. rtc \in [magic : BOOLEAN, clicks : 0 .. Wrap - 1, seconds : Int]
    BY <1>2 DEF Init
  <2>3. /\ pc \in {"off", "up", "saved"} /\ restarting \in BOOLEAN
        /\ pending \subseteq {"rtc", "save"} /\ mishap \in Mishaps \cup {None}
        /\ enabled \in BOOLEAN /\ stopped \in BOOLEAN /\ synced \in BOOLEAN
    BY DEF Init
  <2>4. /\ since \in Int /\ unsaved \in 0 .. Wrap - 1 /\ pending_since \in Int
        /\ rtc_ctr \in 0 .. StashEvery - 1 /\ save_ctr \in 0 .. SaveEvery - 1
        /\ step \in Int /\ blind \in Nat /\ recovered \in 0 .. Wrap - 1
    BY <1>1, Widths DEF Init
  <2> QED BY <2>1, <2>2, <2>3, <2>4 DEF TypeOK
<1> QED BY <1>3 DEF Init, PaceInv

\* A reset leaves the file and the stash.
LEMMA PaceOff ==
  ASSUME TypeOK, Off, disk' = disk, enabled' = enabled,
         rtc' \in [magic : BOOLEAN, clicks : 0 .. Wrap - 1, seconds : Int],
         blind' = blind, mishap' \in Mishaps \cup {None}
  PROVE  TypeOK' /\ PaceInv'
<1>1. 0 \in 0 .. StashEvery - 1 /\ 0 \in 0 .. SaveEvery - 1 /\ Unset \in Int
  BY Widths DEF Unset
<1>2. Zero \in Life
  BY ZeroIsLife
<1>3. TypeOK'
  <2>1. disk' \in Life /\ life' \in Life
    BY <1>2 DEF Off, TypeOK
  <2>2. pc' \in {"off", "up", "saved"} /\ restarting' \in BOOLEAN
    BY DEF Off
  <2>3. since' \in Int /\ unsaved' \in 0 .. Wrap - 1 /\ pending_since' \in Int
    BY <1>1, Widths DEF Off
  <2>4. pending' \subseteq {"rtc", "save"}
    BY DEF Off
  <2>5. rtc_ctr' \in 0 .. StashEvery - 1 /\ save_ctr' \in 0 .. SaveEvery - 1
    BY <1>1 DEF Off
  <2>6. enabled' \in BOOLEAN /\ stopped' \in BOOLEAN /\ synced' \in BOOLEAN
    BY DEF Off, TypeOK
  <2>7. step' \in Int /\ blind' \in Nat /\ recovered' \in 0 .. Wrap - 1
    BY Widths DEF Off, TypeOK
  <2> QED BY <2>1, <2>2, <2>3, <2>4, <2>5, <2>6, <2>7 DEF TypeOK
<1> QED BY <1>3 DEF Off, PaceInv

\* The clicks of a save period, of a stash period and of a late loop do not wrap.
LEMMA LatePace ==
  ASSUME NEW u \in Nat, NEW r \in Nat, r <= LoopLag, u <= SaveEvery - 1 + r + StashEvery
  PROVE  u \in 0 .. Wrap - 1
BY Widths

LEMMA FreshPace ==
  ASSUME NEW u \in Nat, NEW r \in Nat, NEW v \in Nat, r < StashEvery, v < SaveEvery,
         u <= SaveEvery - 1 + r + 0 \/ u <= v
  PROVE  u \in 0 .. Wrap - 1
BY Widths

\* A second: the clicks that are not saved keep to the pace of the counters.
LEMMA PaceSecond == ASSUME TypeOK, PaceInv, Second PROVE TypeOK' /\ PaceInv'
<1>1. /\ UNCHANGED <<disk, rtc, pc, restarting, enabled, stopped, synced, step, recovered, mishap>>
      /\ pc = "up" /\ ("rtc" \in pending => rtc_ctr < LoopLag)
  BY DEF Second
<1>2. since' \in Int
  BY DEF Second, TypeOK, Unset
<1>3. CASE ~enabled
  <2>1. UNCHANGED <<life, unsaved, pending, pending_since, rtc_ctr, save_ctr, blind>>
    BY <1>3 DEF Second, counters
  <2> QED BY <1>1, <1>2, <2>1 DEF TypeOK, PaceInv
<1>4. CASE enabled
  <2>1. PICK n \in {0, 1} :
          /\ life' \in Life /\ Value(life') = Value(life) + n /\ life'.secs = life.secs
          /\ unsaved' = unsaved + n /\ blind' = blind + 1 - n
    BY <1>4, SecondFacts
  <2> DEFINE stash == rtc_ctr + 1 >= StashEvery
             save == save_ctr + 1 >= SaveEvery
             first == life.fbt = "none" /\ synced
  <2>2. /\ rtc_ctr' = IF stash THEN 0 ELSE rtc_ctr + 1
        /\ save_ctr' = IF save THEN 0 ELSE save_ctr + 1
        /\ pending' = pending \cup (IF stash THEN {"rtc"} ELSE {})
                              \cup (IF save \/ first THEN {"save"} ELSE {})
        /\ pending_since' = IF stash THEN since' ELSE pending_since
    BY <1>4 DEF Second
  <2>3. /\ rtc_ctr \in 0 .. StashEvery - 1 /\ save_ctr \in 0 .. SaveEvery - 1
        /\ unsaved \in 0 .. Wrap - 1 /\ blind \in Nat /\ pending \subseteq {"rtc", "save"}
        /\ pending_since \in Int
    BY DEF TypeOK
  <2>4. /\ rtc_ctr' \in 0 .. StashEvery - 1 /\ save_ctr' \in 0 .. SaveEvery - 1
        /\ pending' \subseteq {"rtc", "save"} /\ pending_since' \in Int /\ blind' \in Nat
    BY <1>2, <2>1, <2>2, <2>3, Widths
  <2> HIDE DEF first
  <2>5. "rtc" \in pending' => rtc_ctr' <= LoopLag
    BY <1>1, <2>2, <2>3, Widths
  <2>6. "save" \notin pending' => unsaved' <= save_ctr'
    <3>1. "save" \notin pending => unsaved <= save_ctr
      BY <1>1 DEF PaceInv
    <3> QED BY <2>1, <2>2, <2>3, <3>1
  <2>7. "save" \in pending' =>
          unsaved' <= SaveEvery - 1 + rtc_ctr' + (IF "rtc" \in pending' THEN StashEvery ELSE 0)
    <3>1. CASE "save" \in pending
      <4>1. unsaved <= SaveEvery - 1 + rtc_ctr + (IF "rtc" \in pending THEN StashEvery ELSE 0)
        BY <1>1, <3>1 DEF PaceInv
      <4>2. CASE stash
        <5>1. "rtc" \notin pending /\ "rtc" \in pending' /\ rtc_ctr' = 0
          BY <1>1, <2>2, <2>3, <4>2, Widths
        <5> QED BY <2>1, <2>3, <4>1, <5>1, Widths
      <4>3. CASE ~stash
        <5>1. rtc_ctr' = rtc_ctr + 1 /\ ("rtc" \in pending' <=> "rtc" \in pending)
          BY <2>2, <4>3
        <5> QED BY <2>1, <2>3, <4>1, <5>1, Widths
      <4> QED BY <4>2, <4>3
    <3>2. CASE "save" \notin pending
      <4>1. unsaved' <= SaveEvery
        <5>1. unsaved <= save_ctr
          BY <1>1, <3>2 DEF PaceInv
        <5> QED BY <2>1, <2>3, <5>1, Widths
      <4>2. CASE stash
        BY <2>1, <2>2, <2>3, <4>1, <4>2, Widths
      <4>3. CASE ~stash
        BY <2>1, <2>2, <2>3, <4>1, <4>3, Widths
      <4> QED BY <4>2, <4>3
    <3> QED BY <3>1, <3>2
  <2>8. unsaved' \in 0 .. Wrap - 1
    <3>1. unsaved' \in Nat /\ rtc_ctr' \in Nat /\ rtc_ctr' < StashEvery
          /\ save_ctr' \in Nat /\ save_ctr' < SaveEvery
      BY <2>1, <2>3, <2>4, Widths
    <3>2. CASE "save" \in pending' /\ "rtc" \in pending'
      BY <2>5, <2>7, <3>1, <3>2, LatePace
    <3>3. CASE "save" \in pending' /\ "rtc" \notin pending'
      BY <2>7, <3>1, <3>3, FreshPace
    <3>4. CASE "save" \notin pending'
      BY <2>6, <3>1, <3>4, FreshPace
    <3> QED BY <3>2, <3>3, <3>4
  <2>9. TypeOK'
    BY <1>1, <1>2, <2>1, <2>4, <2>8 DEF TypeOK
  <2> QED BY <1>1, <2>5, <2>6, <2>7, <2>9 DEF PaceInv
<1> QED BY <1>3, <1>4

\* A commit keeps the types, whatever becomes of its write.
LEMMA PaceCommit ==
  ASSUME TypeOK, PaceInv, NEW l \in Life, NEW s \in Int, NEW restart \in BOOLEAN,
         Commit(l, s, restart), pending' \in {pending, {}}, pending_since' \in Int,
         rtc' \in [magic : BOOLEAN, clicks : 0 .. Wrap - 1, seconds : Int],
         stopped' \in BOOLEAN,
         UNCHANGED <<unsaved, rtc_ctr, save_ctr, enabled, synced, step, blind, recovered>>
  PROVE  TypeOK' /\ PaceInv'
<1>1. /\ life' \in Life
      /\ since' = IF synced THEN 0 ELSE s
      /\ \/ disk' = life' /\ mishap' = mishap
         \/ disk' = disk /\ mishap' = "failed write" /\ mishap' \in Mishaps
      /\ pc' = "saved" /\ restarting' = restart
  BY CommitFacts
<1>2. TypeOK'
  <2>1. disk' \in Life /\ life' \in Life /\ mishap' \in Mishaps \cup {None}
    BY <1>1 DEF TypeOK
  <2>2. pc' \in {"off", "up", "saved"} /\ restarting' \in BOOLEAN
    BY <1>1
  <2>3. since' \in Int /\ pending_since' \in Int
    <3>1. since' = 0 \/ since' = s
      BY <1>1, Zenon
    <3>2. 0 \in Int
      OBVIOUS
    <3> QED BY <3>1, <3>2, Zenon
  <2>4. pending' \subseteq {"rtc", "save"}
    BY DEF TypeOK
  <2>5. /\ unsaved' \in 0 .. Wrap - 1 /\ recovered' \in 0 .. Wrap - 1
        /\ rtc_ctr' \in 0 .. StashEvery - 1 /\ save_ctr' \in 0 .. SaveEvery - 1
        /\ enabled' \in BOOLEAN /\ stopped' \in BOOLEAN /\ synced' \in BOOLEAN
        /\ step' \in Int /\ blind' \in Nat
    BY DEF TypeOK
  <2> QED BY <2>1, <2>2, <2>3, <2>4, <2>5 DEF TypeOK
<1> QED BY <1>1, <1>2 DEF PaceInv

\* What loop stashes is a stash.
LEMMA StashTypes ==
  ASSUME TypeOK
  PROVE  /\ StashNow \in [magic : BOOLEAN, clicks : 0 .. Wrap - 1, seconds : Int]
         /\ StashNow.magic /\ StashNow.clicks = unsaved
         /\ StashNow.seconds = IF since # Unset /\ pending_since >= 0 THEN pending_since ELSE 0
<1> DEFINE s == IF since # Unset /\ pending_since >= 0 THEN pending_since ELSE 0
<1>1. s \in Int /\ unsaved \in 0 .. Wrap - 1
  BY DEF TypeOK
<1>2. StashNow = [magic |-> TRUE, clicks |-> unsaved, seconds |-> s]
  BY DEF StashNow, Stash
<1> HIDE DEF s
<1>3. /\ StashNow \in [magic : BOOLEAN, clicks : 0 .. Wrap - 1, seconds : Int]
      /\ StashNow.magic /\ StashNow.clicks = unsaved /\ StashNow.seconds = s
  BY <1>1, <1>2
<1> QED BY <1>3 DEF s

\* The empty stash that save_lifetime leaves.
LEMMA EmptyStash ==
  LET r == Stash(0, 0)
  IN  /\ r \in [magic : BOOLEAN, clicks : 0 .. Wrap - 1, seconds : Int]
      /\ r.magic /\ r.clicks = 0 /\ r.seconds = 0
BY Widths DEF Stash

\* clock_stepped moves the time of the last save and asks for a save at most.
LEMMA SteppedTypes ==
  ASSUME TypeOK, NEW s \in Int, NEW d \in Int, Stepped(s, d)
  PROVE  /\ since' \in Int /\ pending_since' \in Int
         /\ pending' = pending \cup {"save"} \/ pending' = pending
<1>1. /\ since' = IF s = Unset THEN s ELSE s + (-d)
      /\ pending_since' = IF pending_since = Unset THEN pending_since ELSE pending_since + (-d)
      /\ pending' = pending \cup {"save"} \/ pending' = pending
  BY DEF Stepped, Moved
<1>2. since' \in Int
  BY <1>1
<1>3. pending_since' \in Int
  BY <1>1 DEF TypeOK
<1> QED BY <1>1, <1>2, <1>3

\* No step lets the clicks that are not saved run ahead of the counters.
LEMMA PaceStep == TypeOK /\ PaceInv /\ [Next]_vars => TypeOK' /\ PaceInv'
<1> SUFFICES ASSUME TypeOK, PaceInv, [Next]_vars PROVE TypeOK' /\ PaceInv'
  OBVIOUS
<1>1. CASE Boot
  <2>1. /\ pc' = "up" /\ rtc' = NoStash
        /\ UNCHANGED <<disk, restarting, unsaved, pending, pending_since, rtc_ctr, save_ctr,
                       enabled, stopped, since, synced, step, blind, mishap>>
        /\ pc = "off"
    BY <1>1 DEF Boot, counters, clock
  <2>2. life' \in Life /\ recovered' \in 0 .. Wrap - 1
    BY <1>1, BootFacts
  <2>3. rtc' \in [magic : BOOLEAN, clicks : 0 .. Wrap - 1, seconds : Int]
    BY <2>1, NoStashType
  <2>4. TypeOK'
    BY <2>1, <2>2, <2>3 DEF TypeOK
  <2>5. unsaved = 0 /\ pending = {} /\ save_ctr \in 0 .. SaveEvery - 1
    BY <2>1 DEF PaceInv, TypeOK
  <2> QED BY <2>1, <2>4, <2>5 DEF PaceInv
<1>2. CASE Second
  BY <1>2, PaceSecond
<1>3. CASE Loop
  <2>1. /\ pc = "up" /\ pending' = {} /\ pending_since' = Unset
        /\ rtc' = IF Stashes THEN StashNow ELSE rtc
        /\ UNCHANGED <<unsaved, rtc_ctr, save_ctr, enabled, stopped, synced, step, blind,
                       recovered>>
    BY <1>3 DEF Loop, counters
  <2>2. rtc' \in [magic : BOOLEAN, clicks : 0 .. Wrap - 1, seconds : Int]
    <3>1. StashNow \in [magic : BOOLEAN, clicks : 0 .. Wrap - 1, seconds : Int]
      BY StashTypes
    <3> QED BY <2>1, <3>1 DEF TypeOK
  <2>3. CASE "save" \in pending
    <3>1. Commit(life, since, FALSE)
      BY <1>3, <2>3 DEF Loop
    <3>2. life \in Life /\ since \in Int /\ stopped' \in BOOLEAN /\ pending_since' \in Int
      BY <2>1 DEF TypeOK, Unset
    <3> QED BY <2>1, <2>2, <3>1, <3>2, PaceCommit
  <2>4. CASE "save" \notin pending
    <3>1. UNCHANGED <<disk, pc, restarting, life, since, mishap>>
      BY <1>3, <2>4 DEF Loop
    <3>2. TypeOK'
      BY <2>1, <2>2, <3>1 DEF TypeOK, Unset
    <3> QED BY <2>1, <2>4, <3>1, <3>2 DEF PaceInv
  <2> QED BY <2>3, <2>4
<1>4. CASE Saved
  <2>1. /\ pc = "saved" /\ rtc' = Stash(0, 0) /\ UNCHANGED <<disk, enabled, blind, mishap>>
    BY <1>4 DEF Saved
  <2>2. rtc' \in [magic : BOOLEAN, clicks : 0 .. Wrap - 1, seconds : Int]
    BY <2>1, EmptyStash
  <2>3. CASE restarting
    <3>1. Off
      BY <1>4, <2>3 DEF Saved
    <3> QED BY <2>1, <2>2, <3>1, PaceOff DEF TypeOK
  <2>4. CASE ~restarting
    <3>1. /\ pc' = "up" /\ unsaved' = 0 /\ recovered' = 0
          /\ UNCHANGED <<restarting, life, since, pending, pending_since, rtc_ctr, save_ctr,
                         stopped, synced, step>>
      BY <1>4, <2>4 DEF Saved, counters
    <3>2. TypeOK'
      BY <2>1, <2>2, <3>1, Widths DEF TypeOK
    <3>3. rtc_ctr \in 0 .. StashEvery - 1 /\ save_ctr \in 0 .. SaveEvery - 1
      BY DEF TypeOK
    <3> QED BY <3>1, <3>2, <3>3, Widths DEF PaceInv
  <2> QED BY <2>3, <2>4
<1>5. ASSUME NEW restart \in BOOLEAN, StopInput(restart) PROVE TypeOK' /\ PaceInv'
  <2>1. pc = "up" /\ stopped' = TRUE
    BY <1>5 DEF StopInput
  <2>2. CASE enabled
    <3>1. /\ Commit(life, since, restart) /\ pending_since' = Rebased
          /\ UNCHANGED <<rtc, unsaved, pending, rtc_ctr, save_ctr, enabled, synced, step,
                         blind, recovered>>
      BY <1>5, <2>2 DEF StopInput, counters
    <3>2. /\ life \in Life /\ since \in Int /\ pending_since \in Int
          /\ rtc \in [magic : BOOLEAN, clicks : 0 .. Wrap - 1, seconds : Int]
      BY DEF TypeOK
    <3>3. pending_since' \in Int
      BY <3>1, <3>2 DEF Rebased
    <3> QED BY <2>1, <3>1, <3>2, <3>3, PaceCommit
  <2>3. CASE ~enabled
    <3>1. UNCHANGED <<disk, rtc, pc, restarting, life, since, unsaved, pending,
                      pending_since, rtc_ctr, save_ctr, enabled, synced, step, blind,
                      recovered, mishap>>
      BY <1>5, <2>3 DEF StopInput, counters, history
    <3> QED BY <2>1, <3>1 DEF TypeOK, PaceInv
  <2> QED BY <2>2, <2>3
<1>6. CASE RestartUnsaved
  BY <1>6, PaceOff DEF RestartUnsaved, TypeOK
<1>7. CASE RestartInput
  BY <1>7 DEF RestartInput, TypeOK, PaceInv, counters, clock, history
<1>8. CASE ResetLifetime
  <2>1. /\ Commit(Zero, Unset, FALSE) /\ pending_since' = Rebased
        /\ UNCHANGED <<rtc, unsaved, pending, rtc_ctr, save_ctr, enabled, stopped, synced,
                       step, blind, recovered>>
    BY <1>8 DEF ResetLifetime, counters
  <2>2. /\ Zero \in Life /\ Unset \in Int /\ pending_since' \in Int /\ stopped' \in BOOLEAN
        /\ rtc \in [magic : BOOLEAN, clicks : 0 .. Wrap - 1, seconds : Int]
    BY <2>1, ZeroIsLife DEF TypeOK, Unset, Rebased
  <2> QED BY <2>1, <2>2, PaceCommit
<1>9. CASE Pause
  <2>1. /\ enabled' \in BOOLEAN /\ mishap' \in Mishaps \cup {None}
        /\ UNCHANGED <<disk, rtc, pc, restarting, life, unsaved, pending, pending_since,
                       rtc_ctr, save_ctr, stopped, since, synced, step, blind, recovered>>
    BY <1>9 DEF Pause, Mishap, TypeOK, counters, clock
  <2> QED BY <2>1 DEF TypeOK, PaceInv
<1>10. CASE FirstSync
  <2>1. /\ synced' = TRUE
        /\ UNCHANGED <<disk, rtc, pc, restarting, life, since, unsaved, pending,
                 pending_since, rtc_ctr, save_ctr, enabled, stopped, step, blind, recovered,
                 mishap>>
    BY <1>10 DEF FirstSync, counters, history
  <2> QED BY <2>1 DEF TypeOK, PaceInv
<1>11. ASSUME NEW s \in Int, NEW d \in Int, Stepped(s, d), step' \in Int,
              UNCHANGED <<disk, rtc, pc, restarting, life, unsaved, rtc_ctr, save_ctr,
                          enabled, stopped, synced, blind, recovered, mishap>>,
              pc = "up"
       PROVE  TypeOK' /\ PaceInv'
  <2>1. /\ since' \in Int /\ pending_since' \in Int
        /\ pending' = pending \cup {"save"} \/ pending' = pending
    BY <1>11, SteppedTypes
  <2>2. TypeOK'
    BY <1>11, <2>1 DEF TypeOK
  <2>3. CASE pending' = pending
    BY <1>11, <2>2, <2>3 DEF PaceInv
  <2>4. CASE "save" \notin pending /\ pending' = pending \cup {"save"}
    <3>1. /\ save_ctr \in 0 .. SaveEvery - 1 /\ rtc_ctr \in 0 .. StashEvery - 1
          /\ unsaved \in 0 .. Wrap - 1 /\ unsaved <= save_ctr
      BY <1>11, <2>4 DEF TypeOK, PaceInv
    <3>2. unsaved <= SaveEvery - 1 + rtc_ctr + (IF "rtc" \in pending' THEN StashEvery ELSE 0)
      BY <3>1, Widths
    <3> QED BY <1>11, <2>2, <2>4, <3>2 DEF PaceInv
  <2>5. CASE "save" \in pending /\ pending' = pending \cup {"save"}
    <3>1. pending' = pending
      BY <2>5
    <3> QED BY <2>3, <3>1
  <2> QED BY <2>1, <2>3, <2>4, <2>5
<1>12. CASE TakeSync
  BY <1>11, <1>12 DEF TakeSync, TypeOK, counters, history
<1>13. ASSUME NEW d \in Steps, Resync(d) PROVE TypeOK' /\ PaceInv'
  <2>1. d \in Int /\ Moved(since, d) \in Int
    <3>1. d \in Int /\ since \in Int
      BY StepsMove DEF TypeOK
    <3>2. Moved(since, d) = IF since = Unset THEN since ELSE since + d
      BY DEF Moved
    <3> QED BY <3>1, <3>2
  <2>2. /\ Stepped(Moved(since, d), d) /\ pc = "up" /\ step' \in Int
        /\ UNCHANGED <<disk, rtc, pc, restarting, life, unsaved, rtc_ctr, save_ctr, enabled,
                 stopped, synced, blind, recovered, mishap>>
    BY <1>13 DEF Resync, counters, history, TypeOK
  <2> QED BY <1>11, <2>1, <2>2
<1>14. ASSUME NEW d \in Steps, LateSync(d) PROVE TypeOK' /\ PaceInv'
  <2>1. d \in Int /\ Moved(since, d) \in Int
    <3>1. d \in Int /\ since \in Int
      BY StepsMove DEF TypeOK
    <3>2. Moved(since, d) = IF since = Unset THEN since ELSE since + d
      BY DEF Moved
    <3> QED BY <3>1, <3>2
  <2>2. /\ since' \in Int /\ step' \in Int /\ mishap' \in Mishaps \cup {None}
        /\ UNCHANGED <<disk, rtc, pc, restarting, life, unsaved, pending, pending_since,
                 rtc_ctr, save_ctr, enabled, stopped, synced, blind, recovered>>
    BY <1>14, <2>1 DEF LateSync, Mishap, counters
  <2> QED BY <2>2 DEF TypeOK, PaceInv
<1>15. CASE Crash
  <2>1. Off /\ UNCHANGED <<disk, rtc, enabled, blind>> /\ mishap' \in Mishaps \cup {None}
    BY <1>15 DEF Crash, Mishap, TypeOK
  <2> QED BY <2>1, PaceOff DEF TypeOK
<1>16. CASE PowerCut
  <2>1. Off /\ UNCHANGED <<disk, enabled, blind, mishap>> /\ rtc' = NoStash
    BY <1>16 DEF PowerCut
  <2> QED BY <2>1, NoStashType, PaceOff DEF TypeOK
<1>17. CASE UNCHANGED vars
  BY <1>17 DEF vars, counters, clock, history, TypeOK, PaceInv
<1> QED BY <1>1, <1>2, <1>3, <1>4, <1>5, <1>6, <1>7, <1>8, <1>9, <1>10, <1>12, <1>13, <1>14,
           <1>15, <1>16, <1>17 DEF Next

----------------------------------------------------------------------------
(* The copies of the total                                                 *)

\* No click is nowhere: the file, what a crash brought back and what is not
\* saved yet make the total, and the stash is a part of the latter.
LEMMA CopiesStep == TypeOK /\ PaceInv /\ CopiesInv /\ [Next]_vars => CopiesInv'
<1> SUFFICES ASSUME TypeOK, PaceInv, CopiesInv, [Next]_vars PROVE CopiesInv'
  OBVIOUS
<1>0. /\ unsaved \in Nat /\ recovered \in Nat /\ rtc_ctr \in Nat /\ Value(life) \in Int
      /\ Value(disk) \in Int /\ rtc.clicks \in Nat /\ rtc.magic \in BOOLEAN
  BY Widths DEF TypeOK, Life, Value
<1>1. CASE Boot
  <2>1. /\ pc = "off" /\ pc' = "up" /\ rtc' = NoStash
        /\ UNCHANGED <<disk, unsaved, rtc_ctr>>
    BY <1>1 DEF Boot, counters
  <2>2. Value(life') = Value(disk) + recovered' /\ recovered' \in Nat
    BY <1>1, BootFacts
  <2>3. unsaved = 0 /\ rtc'.magic = FALSE
    BY <2>1, NoStashType DEF PaceInv
  <2>4. Value(life)' = Value(life') /\ Value(disk)' = Value(disk)
    BY <2>1 DEF Value
  <2>5. Stashed' = 0
    BY <2>3 DEF Stashed
  <2>6. Value(life)' = Value(disk)' + recovered' + unsaved'
    BY <1>0, <2>1, <2>2, <2>3, <2>4
  <2>7. Stashed' <= unsaved' /\ unsaved' - Stashed' <= rtc_ctr'
    BY <1>0, <2>1, <2>3, <2>5
  <2> QED BY <2>1, <2>6, <2>7 DEF CopiesInv
<1>2. CASE Second
  <2>1. pc = "up" /\ UNCHANGED <<disk, rtc, pc, recovered, mishap>>
    BY <1>2 DEF Second
  <2>2. CASE enabled
    <3>1. PICK n \in {0, 1} :
            /\ life' \in Life /\ Value(life') = Value(life) + n /\ life'.secs = life.secs
            /\ unsaved' = unsaved + n /\ blind' = blind + 1 - n
      BY <1>2, <2>2, SecondFacts
    <3>2. /\ rtc_ctr' = rtc_ctr + 1 \/ "rtc" \in pending'
          /\ pending \subseteq pending'
      BY <1>2, <2>2 DEF Second
    <3>3. Value(life)' = Value(life') /\ Value(disk)' = Value(disk) /\ Stashed' = Stashed
      BY <2>1 DEF Value, Stashed
    <3>4. Stashed \in Nat /\ Stashed <= unsaved
      <4>1. Stashed \in Nat
        BY <1>0 DEF Stashed
      <4> QED BY <2>1, <4>1 DEF CopiesInv
    <3>5. ASSUME "rtc" \notin pending' PROVE unsaved' - Stashed' <= rtc_ctr'
      <4>1. unsaved - Stashed <= rtc_ctr
        BY <2>1, <3>2, <3>5 DEF CopiesInv
      <4>2. rtc_ctr' = rtc_ctr + 1
        BY <3>2, <3>5
      <4> QED BY <1>0, <3>1, <3>3, <3>4, <4>1, <4>2
    <3>6. ASSUME mishap # "failed write" PROVE Value(life)' = Value(disk)' + recovered' + unsaved'
      <4>1. Value(life) = Value(disk) + recovered + unsaved
        BY <2>1, <3>6 DEF CopiesInv
      <4> QED BY <1>0, <2>1, <3>1, <3>3, <4>1
    <3>7. Stashed' <= unsaved'
      BY <1>0, <3>1, <3>3, <3>4
    <3> QED BY <2>1, <3>5, <3>6, <3>7 DEF CopiesInv
  <2>3. CASE ~enabled
    <3>1. UNCHANGED <<life, unsaved, pending, rtc_ctr>>
      BY <1>2, <2>3 DEF Second, counters
    <3> QED BY <2>1, <3>1 DEF CopiesInv, Value, Stashed
  <2> QED BY <2>2, <2>3
<1>3. CASE Loop
  <2>1. /\ pc = "up" /\ pending' = {} /\ rtc' = IF Stashes THEN StashNow ELSE rtc
        /\ UNCHANGED <<unsaved, rtc_ctr, recovered>>
    BY <1>3 DEF Loop, counters
  <2>2. StashNow.magic /\ StashNow.clicks = unsaved
    BY StashTypes
  <2>3. "rtc" \in pending /\ ~Stashes => unsaved = 0
    <3>1. SUFFICES ASSUME StashNow = Stash(0, 0) PROVE unsaved = 0
      BY DEF Stashes
    <3> QED BY <2>2, <3>1, EmptyStash
  <2>4. Stashed' <= unsaved' /\ unsaved' - Stashed' <= rtc_ctr'
    <3>1. CASE Stashes
      <4>1. rtc'.magic /\ rtc'.clicks = unsaved
        BY <2>1, <2>2, <3>1
      <4>2. Stashed' = unsaved
        BY <4>1 DEF Stashed
      <4> QED BY <1>0, <2>1, <4>2
    <3>2. CASE ~Stashes /\ "rtc" \in pending
      <4>1. Stashed' = Stashed /\ Stashed <= unsaved /\ unsaved = 0
        BY <2>1, <2>3, <3>2 DEF CopiesInv, Stashed
      <4>2. Stashed \in Nat
        BY <1>0 DEF Stashed
      <4> QED BY <1>0, <2>1, <4>1, <4>2
    <3>3. CASE ~Stashes /\ "rtc" \notin pending
      BY <1>0, <2>1, <3>3 DEF CopiesInv, Stashed
    <3> QED BY <3>1, <3>2, <3>3
  <2>5. CASE "save" \in pending
    <3>1. Commit(life, since, FALSE) /\ life \in Life /\ since \in Int
      BY <1>3, <2>5 DEF Loop, TypeOK
    <3>2. /\ pc' = "saved"
          /\ \/ disk' = life'
             \/ mishap' = "failed write"
      BY <3>1, CommitFacts
    <3> QED BY <2>4, <3>2 DEF CopiesInv
  <2>6. CASE "save" \notin pending
    <3>1. UNCHANGED <<disk, pc, life, mishap>>
      BY <1>3, <2>6 DEF Loop
    <3> QED BY <2>1, <2>4, <3>1 DEF CopiesInv, Value, Stashed
  <2> QED BY <2>5, <2>6
<1>4. CASE Saved
  <2>1. pc = "saved" /\ rtc' = Stash(0, 0) /\ UNCHANGED <<disk, mishap>>
    BY <1>4 DEF Saved
  <2>2. CASE restarting
    <3>1. pc' = "off"
      BY <1>4, <2>2 DEF Saved, Off
    <3> QED BY <3>1 DEF CopiesInv
  <2>3. CASE ~restarting
    <3>1. pc' = "up" /\ unsaved' = 0 /\ recovered' = 0 /\ UNCHANGED <<life, rtc_ctr>>
      BY <1>4, <2>3 DEF Saved, counters
    <3>2. rtc'.clicks = 0
      BY <2>1, EmptyStash
    <3>3. Value(life)' = Value(life) /\ Value(disk)' = Value(disk)
      BY <2>1, <3>1 DEF Value
    <3>4. mishap # "failed write" => life = disk
      BY <2>1 DEF CopiesInv
    <3>5. Stashed' = 0
      BY <3>2 DEF Stashed
    <3>6. mishap # "failed write" => Value(life)' = Value(disk)' + recovered' + unsaved'
      <4>1. Value(disk)' = Value(disk)' + recovered' + unsaved'
        BY <1>0, <3>1, <3>3
      <4>2. mishap # "failed write" => Value(life)' = Value(disk)'
        BY <3>3, <3>4
      <4> QED BY <4>1, <4>2
    <3>7. Stashed' <= unsaved' /\ unsaved' - Stashed' <= rtc_ctr'
      BY <1>0, <3>1, <3>5
    <3> QED BY <2>1, <3>1, <3>6, <3>7 DEF CopiesInv
  <2> QED BY <2>2, <2>3
<1>5. ASSUME NEW l \in Life, NEW s \in Int, NEW restart \in BOOLEAN,
             Commit(l, s, restart), pc = "up", UNCHANGED <<rtc, unsaved>>
      PROVE  CopiesInv'
  <2>1. /\ pc' = "saved"
        /\ disk' = life' \/ mishap' = "failed write"
    BY <1>5, CommitFacts
  <2>2. Stashed' <= unsaved'
    BY <1>5 DEF CopiesInv, Stashed
  <2> QED BY <2>1, <2>2 DEF CopiesInv
<1>6. ASSUME NEW restart \in BOOLEAN, StopInput(restart) PROVE CopiesInv'
  <2>1. CASE enabled
    BY <1>5, <1>6, <2>1 DEF StopInput, TypeOK
  <2>2. CASE ~enabled
    <3>1. UNCHANGED <<disk, rtc, pc, life, unsaved, pending, rtc_ctr, recovered, mishap>>
      BY <1>6, <2>2 DEF StopInput, counters, history
    <3> QED BY <3>1 DEF CopiesInv, Value, Stashed
  <2> QED BY <2>1, <2>2
<1>7. CASE Off
  BY <1>7 DEF Off, CopiesInv
<1>8. CASE RestartInput
  BY <1>8 DEF RestartInput, CopiesInv, Stashed, Value, counters, history
<1>9. CASE ResetLifetime
  <2>1. Commit(Zero, Unset, FALSE) /\ pc = "up" /\ UNCHANGED <<rtc, unsaved>>
    BY <1>9 DEF ResetLifetime
  <2>2. Zero \in Life /\ Unset \in Int
    BY ZeroIsLife DEF Unset
  <2> QED BY <1>5, <2>1, <2>2
<1>10. CASE Pause
  <2>1. /\ UNCHANGED <<disk, rtc, pc, life, unsaved, pending, rtc_ctr, recovered>>
        /\ mishap = "failed write" => mishap' = mishap
    BY <1>10 DEF Pause, Mishap, None, counters
  <2> QED BY <2>1 DEF CopiesInv, Value, Stashed
<1>11. CASE FirstSync
  BY <1>11 DEF FirstSync, CopiesInv, Stashed, Value, counters, history
<1>12. CASE TakeSync
  <2>1. /\ UNCHANGED <<disk, rtc, pc, life, unsaved, rtc_ctr, recovered, mishap>>
        /\ pending \subseteq pending' /\ ("rtc" \in pending' => "rtc" \in pending)
    BY <1>12 DEF TakeSync, Stepped, counters, history
  <2> QED BY <2>1 DEF CopiesInv, Value, Stashed
<1>13. ASSUME NEW d \in Steps, Resync(d) PROVE CopiesInv'
  <2>1. /\ UNCHANGED <<disk, rtc, pc, life, unsaved, rtc_ctr, recovered, mishap>>
        /\ pending \subseteq pending' /\ ("rtc" \in pending' => "rtc" \in pending)
    BY <1>13 DEF Resync, Stepped, counters, history
  <2> QED BY <2>1 DEF CopiesInv, Value, Stashed
<1>14. ASSUME NEW d \in Steps, LateSync(d) PROVE CopiesInv'
  <2>1. /\ UNCHANGED <<disk, rtc, pc, life, unsaved, pending, rtc_ctr, recovered>>
        /\ mishap = "failed write" => mishap' = mishap
    BY <1>14 DEF LateSync, Mishap, None, counters
  <2> QED BY <2>1 DEF CopiesInv, Value, Stashed
<1>15. CASE UNCHANGED vars
  BY <1>15 DEF vars, counters, history, CopiesInv, Value, Stashed
<1> QED BY <1>1, <1>2, <1>3, <1>4, <1>6, <1>7, <1>8, <1>9, <1>10, <1>11, <1>12, <1>13, <1>14,
           <1>15 DEF Next, RestartUnsaved, Crash, PowerCut

----------------------------------------------------------------------------
(* The seconds that are covered                                            *)

\* The totals and the clock are numbers.
LEMMA Numbers ==
  ASSUME TypeOK
  PROVE  /\ Value(disk) \in Nat /\ Value(life) \in Nat
         /\ disk.secs \in Int /\ life.secs \in Int
         /\ rtc.seconds \in Int /\ rtc.clicks \in Nat
         /\ since \in Int /\ pending_since \in Int /\ Unset \in Int /\ Unset < 0
         /\ unsaved \in Nat /\ blind \in Nat
<1>1. disk \in Life /\ life \in Life
  BY DEF TypeOK
<1>2. ASSUME NEW l \in Life PROVE Value(l) \in Nat /\ l.secs \in Int
  <2>1. l.clk \in Nat /\ l.clkr \in Nat /\ Wrap \in Nat
    BY Widths DEF Life
  <2> QED BY <2>1 DEF Life, Value
<1>3. /\ rtc.seconds \in Int /\ rtc.clicks \in Nat
      /\ since \in Int /\ pending_since \in Int /\ Unset \in Int /\ Unset < 0
      /\ unsaved \in Nat /\ blind \in Nat
  BY Widths DEF TypeOK, Unset
<1> QED BY <1>1, <1>2, <1>3

\* No mishap is undone.
LEMMA SoundBefore ==
  ASSUME TypeOK, [Next]_vars, Sound'
  PROVE  Sound
<1>1. ASSUME NEW kind \in {"pause", "late sync", "failed write", "torn save"}, Mishap(kind)
      PROVE  Sound
  BY <1>1 DEF Mishap, Sound, None
<1>2. ASSUME NEW l, NEW s, NEW restart, Commit(l, s, restart) PROVE Sound
  <2>1. mishap' = mishap \/ Mishap("failed write")
    BY <1>2 DEF Commit
  <2> QED BY <1>1, <2>1 DEF Sound
<1>3. CASE mishap' = mishap
  BY <1>3 DEF Sound
<1>4. mishap' = mishap \/ Sound
  <2>1. CASE Loop
    BY <1>2, <2>1 DEF Loop
  <2>2. ASSUME NEW restart \in BOOLEAN, StopInput(restart) PROVE mishap' = mishap \/ Sound
    BY <1>2, <2>2 DEF StopInput, history
  <2>3. CASE ResetLifetime
    BY <1>2, <2>3 DEF ResetLifetime
  <2>4. CASE Pause
    BY <1>1, <2>4 DEF Pause
  <2>5. ASSUME NEW d \in Steps, LateSync(d) PROVE mishap' = mishap \/ Sound
    BY <1>1, <2>5 DEF LateSync
  <2>6. CASE Crash
    BY <1>1, <2>6 DEF Crash
  <2>7. CASE Boot \/ Second \/ Saved \/ RestartUnsaved
    BY <2>7 DEF Boot, Second, Saved, RestartUnsaved
  <2>8. CASE RestartInput \/ FirstSync \/ TakeSync \/ PowerCut
    BY <2>8 DEF RestartInput, FirstSync, TakeSync, PowerCut, history
  <2>9. ASSUME NEW d \in Steps, Resync(d) PROVE mishap' = mishap
    BY <2>9 DEF Resync, history
  <2>10. CASE UNCHANGED vars
    BY <2>10 DEF vars, history
  <2> QED BY <2>1, <2>2, <2>3, <2>4, <2>5, <2>6, <2>7, <2>8, <2>9, <2>10 DEF Next
<1> QED BY <1>3, <1>4

\* A commit moves what was tracked since the last save to the total.
LEMMA CoverCommit ==
  ASSUME TypeOK, CoverInv, Sound, NEW restart \in BOOLEAN, Commit(life, since, restart),
         pc = "up", UNCHANGED <<unsaved, enabled, synced, step, blind>>,
         \/ pending_since' = Unset
         \/ pending_since' = Rebased /\ pending' = pending
  PROVE  CoverInv'
<1>1. /\ Value(life') = Value(life)
      /\ life'.secs = IF since # Unset /\ synced /\ since >= 0 THEN life.secs + since ELSE life.secs
      /\ since' = IF synced THEN 0 ELSE since
      /\ disk' = life' \/ disk' = disk
      /\ pc' = "saved"
  BY CommitFacts DEF TypeOK
<1>2. /\ Value(disk) \in Nat /\ Value(life) \in Nat
      /\ disk.secs \in Int /\ life.secs \in Int
      /\ since \in Int /\ pending_since \in Int /\ Unset \in Int /\ Unset < 0
      /\ unsaved \in Nat /\ blind \in Nat
  BY Numbers
<1>3. /\ enabled /\ step = 0
      /\ since # Unset => since >= 0 /\ synced
      /\ since = Unset => pending_since < 0
      /\ pending_since <= since \/ pending_since < 0
      /\ "rtc" \notin pending => pending_since = Unset
      /\ disk.secs <= Value(disk) + blind
      /\ since # Unset => life.secs + since <= Value(life) + blind
      /\ life.secs <= Value(life) + blind
  BY DEF CoverInv
<1>4. life'.secs \in Int /\ life'.secs <= Value(life') + blind
  <2>1. CASE since # Unset
    BY <1>1, <1>2, <1>3, <2>1
  <2>2. CASE since = Unset
    BY <1>1, <1>2, <1>3, <2>2
  <2> QED BY <2>1, <2>2
<1>5. /\ Value(disk') \in Nat /\ disk'.secs \in Int /\ disk'.secs <= Value(disk') + blind
  BY <1>1, <1>2, <1>3, <1>4
<1>6. since' # Unset => since' = 0 /\ synced
  BY <1>1, <1>3
<1>7. since' = Unset => pending_since' < 0
  BY <1>1, <1>2, <1>3 DEF Rebased
<1>8. pending_since' < 0 \/ pending_since' <= since'
  <2>1. CASE pending_since' = Unset
    BY <1>2, <2>1
  <2>2. CASE pending_since' = Rebased
    <3>1. CASE synced /\ since # Unset /\ pending_since # Unset
      <4>1. pending_since' = pending_since - since /\ since' = 0
        BY <1>1, <2>2, <3>1 DEF Rebased
      <4> QED BY <1>2, <1>3, <3>1, <4>1
    <3>2. CASE ~(synced /\ since # Unset /\ pending_since # Unset)
      <4>1. pending_since' = pending_since
        BY <2>2, <3>2 DEF Rebased
      <4>2. pending_since < 0
        BY <1>2, <1>3, <3>2
      <4> QED BY <4>1, <4>2
    <3> QED BY <3>1, <3>2
  <2> QED BY <2>1, <2>2
<1>9. "rtc" \notin pending' => pending_since' = Unset
  BY <1>3 DEF Rebased
<1>10. since' # Unset => /\ life'.secs + since' <= Value(life') + blind
                         /\ disk'.secs + since' <= Value(disk') + unsaved + blind
  BY <1>1, <1>2, <1>4, <1>5, <1>6
<1>11. since' # Unset => since' >= 0 /\ synced
  BY <1>6
<1> QED BY <1>1, <1>3, <1>4, <1>5, <1>6, <1>7, <1>8, <1>9, <1>10, <1>11 DEF CoverInv

\* A reset of the chip loses what was tracked since the last save, and keeps
\* no more in the stash than the clicks that are in it.
LEMMA CoverOff ==
  ASSUME TypeOK, CoverInv, Sound, Off, UNCHANGED <<disk, enabled, blind>>,
         rtc'.magic => disk.secs + rtc'.seconds <= Value(disk) + rtc'.clicks + blind
  PROVE  CoverInv'
<1>1. enabled /\ disk.secs <= Value(disk) + blind
  BY DEF CoverInv
<1>2. Unset < 0
  BY Numbers
<1> QED BY <1>1, <1>2 DEF CoverInv, Off

\* No step tracks a second whose clicks are not in the total.
LEMMA CoverStep == TypeOK /\ PaceInv /\ CoverInv /\ [Next]_vars => CoverInv'
<1> SUFFICES ASSUME TypeOK, PaceInv, CoverInv, [Next]_vars, Sound' PROVE CoverInv'
  BY DEF CoverInv
<1>1. Sound
  BY SoundBefore
<1>2. /\ Value(disk) \in Nat /\ Value(life) \in Nat
      /\ disk.secs \in Int /\ life.secs \in Int
      /\ rtc.seconds \in Int /\ rtc.clicks \in Nat
      /\ since \in Int /\ pending_since \in Int /\ Unset \in Int /\ Unset < 0
      /\ unsaved \in Nat /\ blind \in Nat
  BY Numbers
<1>3. /\ enabled /\ step = 0
      /\ since # Unset => since >= 0 /\ synced /\ pc # "off"
      /\ pc = "saved" /\ since # Unset => since = 0
      /\ since = Unset => pending_since < 0
      /\ "rtc" \notin pending => pending_since = Unset
      /\ pending_since <= since \/ pending_since < 0
      /\ disk.secs <= Value(disk) + blind
      /\ pc # "saved" /\ rtc.magic => disk.secs + rtc.seconds <= Value(disk) + rtc.clicks + blind
      /\ pc # "off" /\ since # Unset => life.secs + since <= Value(life) + blind
      /\ pc # "off" => life.secs <= Value(life) + blind
      /\ pc # "off" /\ since # Unset => disk.secs + since <= Value(disk) + unsaved + blind
  BY <1>1 DEF CoverInv
<1>4. CASE Boot
  <2>1. /\ pc = "off" /\ pc' = "up" /\ rtc' = NoStash
        /\ UNCHANGED <<disk, unsaved, pending, pending_since, enabled, since, synced, step, blind>>
    BY <1>4 DEF Boot, counters, clock
  <2>2. rtc'.magic = FALSE
    BY <2>1, NoStashType
  <2>3. life'.secs <= Value(life') + blind
    <3>1. /\ Value(life') = Value(disk) + recovered'
          /\ \/ rtc.magic /\ recovered' = rtc.clicks /\ life'.secs = disk.secs + rtc.seconds
             \/ recovered' = 0 /\ life'.secs = disk.secs
      BY <1>4, BootFacts
    <3>2. CASE rtc.magic /\ recovered' = rtc.clicks /\ life'.secs = disk.secs + rtc.seconds
      BY <1>2, <1>3, <2>1, <3>1, <3>2
    <3>3. CASE recovered' = 0 /\ life'.secs = disk.secs
      BY <1>2, <1>3, <2>1, <3>1, <3>3
    <3> QED BY <3>1, <3>2, <3>3
  <2>4. since = Unset
    BY <1>3, <2>1
  <2> QED BY <1>3, <2>1, <2>2, <2>3, <2>4 DEF CoverInv
<1>5. CASE Second
  <2>1. pc = "up" /\ UNCHANGED <<disk, rtc, pc, enabled, synced, step>>
    BY <1>5 DEF Second
  <2>2. PICK n \in {0, 1} :
          /\ life' \in Life /\ Value(life') = Value(life) + n /\ life'.secs = life.secs
          /\ unsaved' = unsaved + n /\ blind' = blind + 1 - n
    BY <1>3, <1>5, SecondFacts
  <2>3. /\ since' = IF since # Unset THEN since + 1
                    ELSE IF synced /\ enabled THEN 0 ELSE Unset
        /\ \/ pending_since' = pending_since /\ pending \subseteq pending'
           \/ pending_since' = since' /\ "rtc" \in pending'
    BY <1>3, <1>5 DEF Second
  <2>4. /\ unsaved' \in Nat /\ blind' \in Nat /\ Value(life') \in Nat
        /\ blind' >= blind /\ Value(life') >= Value(life) /\ unsaved' >= unsaved
        /\ Value(life') + blind' = Value(life) + blind + 1
        /\ unsaved' + blind' = unsaved + blind + 1
    BY <1>2, <2>2
  <2>5. /\ disk.secs <= Value(disk) + blind'
        /\ rtc.magic => disk.secs + rtc.seconds <= Value(disk) + rtc.clicks + blind'
        /\ life'.secs <= Value(life') + blind'
    BY <1>2, <1>3, <2>1, <2>2, <2>4
  <2>6. /\ since' # Unset => since' >= 0 /\ synced
        /\ since' = Unset => pending_since' < 0
        /\ "rtc" \notin pending' => pending_since' = Unset
        /\ pending_since' <= since' \/ pending_since' < 0
    <3>1. CASE since # Unset
      BY <1>2, <1>3, <2>3, <3>1
    <3>2. CASE since = Unset /\ synced
      BY <1>2, <1>3, <2>3, <3>2
    <3>3. CASE since = Unset /\ ~synced
      BY <1>2, <1>3, <2>3, <3>3
    <3> QED BY <3>1, <3>2, <3>3
  <2>7. since' # Unset => /\ life'.secs + since' <= Value(life') + blind'
                          /\ disk.secs + since' <= Value(disk) + unsaved' + blind'
    <3>1. CASE since # Unset
      <4>1. since' = since + 1
        BY <2>3, <3>1
      <4> QED BY <1>2, <1>3, <2>1, <2>2, <2>4, <3>1, <4>1
    <3>2. CASE since = Unset
      <4>1. since' = 0 \/ since' = Unset
        BY <2>3, <3>2
      <4> QED BY <1>2, <1>3, <2>1, <2>2, <2>4, <2>5, <4>1
    <3> QED BY <3>1, <3>2
  <2> QED BY <1>3, <2>1, <2>5, <2>6, <2>7 DEF CoverInv
<1>6. CASE Loop
  <2>1. /\ pc = "up" /\ pending' = {} /\ pending_since' = Unset
        /\ rtc' = IF Stashes THEN StashNow ELSE rtc
        /\ UNCHANGED <<unsaved, enabled, synced, step, blind>>
    BY <1>6 DEF Loop
  <2>2. CASE "save" \in pending
    <3>1. Commit(life, since, FALSE)
      BY <1>6, <2>2 DEF Loop
    <3> QED BY <1>1, <2>1, <3>1, CoverCommit
  <2>3. CASE "save" \notin pending
    <3>1. UNCHANGED <<disk, pc, life, since>>
      BY <1>6, <2>3 DEF Loop
    <3>2. rtc'.magic => disk.secs + rtc'.seconds <= Value(disk) + rtc'.clicks + blind
      <4>1. CASE Stashes
        <5>1. /\ rtc'.clicks = unsaved
              /\ rtc'.seconds = IF since # Unset /\ pending_since >= 0 THEN pending_since ELSE 0
          BY <2>1, <4>1, StashTypes
        <5>2. CASE since # Unset /\ pending_since >= 0
          <6>1. pending_since <= since
            BY <1>2, <1>3, <5>2
          <6> QED BY <1>2, <1>3, <2>1, <5>1, <5>2, <6>1
        <5>3. CASE ~(since # Unset /\ pending_since >= 0)
          <6>1. rtc'.seconds = 0
            BY <5>1, <5>3
          <6> QED BY <1>2, <1>3, <5>1, <6>1
        <5> QED BY <5>2, <5>3
      <4>2. CASE ~Stashes
        BY <1>3, <2>1, <4>2
      <4> QED BY <4>1, <4>2
    <3> QED BY <1>2, <1>3, <2>1, <3>1, <3>2 DEF CoverInv
  <2> QED BY <2>2, <2>3
<1>7. CASE Saved
  <2>1. pc = "saved" /\ rtc' = Stash(0, 0) /\ UNCHANGED <<disk, enabled, blind>>
    BY <1>7 DEF Saved
  <2>2. rtc'.clicks = 0 /\ rtc'.seconds = 0
    BY <2>1, EmptyStash
  <2>3. disk.secs + rtc'.seconds <= Value(disk) + rtc'.clicks + blind
    BY <1>2, <1>3, <2>2
  <2>4. CASE restarting
    <3>1. Off
      BY <1>7, <2>4 DEF Saved
    <3> QED BY <1>1, <2>1, <2>3, <3>1, CoverOff
  <2>5. CASE ~restarting
    <3>1. /\ pc' = "up" /\ unsaved' = 0
          /\ UNCHANGED <<life, since, pending, pending_since, synced, step>>
      BY <1>7, <2>5 DEF Saved
    <3>2. since # Unset => disk.secs + since <= Value(disk) + unsaved' + blind
      BY <1>2, <1>3, <2>1, <3>1
    <3> QED BY <1>3, <2>1, <2>3, <3>1, <3>2 DEF CoverInv
  <2> QED BY <2>4, <2>5
<1>8. ASSUME NEW restart \in BOOLEAN, StopInput(restart) PROVE CoverInv'
  BY <1>1, <1>3, <1>8, CoverCommit DEF StopInput
<1>9. CASE RestartInput
  <2>1. UNCHANGED <<disk, rtc, pc, life, unsaved, pending, pending_since, enabled, since,
                    synced, step, blind>>
    BY <1>9 DEF RestartInput, clock, history
  <2> QED BY <1>3, <2>1 DEF CoverInv
<1>10. CASE ResetLifetime
  <2>1. /\ Commit(Zero, Unset, FALSE) /\ pending_since' = Rebased /\ pc = "up"
        /\ UNCHANGED <<rtc, unsaved, pending, enabled, synced, step, blind>>
    BY <1>10 DEF ResetLifetime
  <2>2. /\ Value(life') = Value(Zero) /\ life'.secs = Zero.secs
        /\ since' = IF synced THEN 0 ELSE Unset
        /\ disk' = life' \/ disk' = disk
        /\ pc' = "saved"
    <3>1. /\ Value(life') = Value(Zero)
          /\ life'.secs = IF Unset # Unset /\ synced /\ Unset >= 0 THEN Zero.secs + Unset
                          ELSE Zero.secs
          /\ since' = IF synced THEN 0 ELSE Unset
          /\ disk' = life' \/ disk' = disk
          /\ pc' = "saved"
      BY <1>2, <2>1, CommitFacts, ZeroIsLife
    <3> QED BY <3>1
  <2>3. /\ life'.secs = 0 /\ Value(life') = 0
        /\ Value(disk') \in Nat /\ disk'.secs \in Int /\ disk'.secs <= Value(disk') + blind
    BY <1>2, <1>3, <2>2, ZeroIsLife
  <2>4. \/ since' = 0 /\ synced
        \/ since' = Unset /\ ~synced
    BY <2>2
  <2>5. /\ since' = Unset => pending_since' < 0
        /\ "rtc" \notin pending => pending_since' = Unset
        /\ pending_since' <= since' \/ pending_since' < 0
    <3>1. CASE synced /\ since # Unset /\ pending_since # Unset
      <4>1. pending_since' = pending_since - since /\ since' = 0
        BY <1>2, <2>1, <2>4, <3>1 DEF Rebased
      <4> QED BY <1>2, <1>3, <3>1, <4>1
    <3>2. CASE ~(synced /\ since # Unset /\ pending_since # Unset)
      <4>1. pending_since' = pending_since
        BY <2>1, <3>2 DEF Rebased
      <4>2. pending_since < 0
        BY <1>2, <1>3, <3>2
      <4> QED BY <1>3, <4>1, <4>2
    <3> QED BY <3>1, <3>2
  <2>6. since' # Unset => disk'.secs + since' <= Value(disk') + unsaved + blind
    BY <1>2, <2>3, <2>4
  <2> QED BY <1>2, <1>3, <2>1, <2>2, <2>3, <2>4, <2>5, <2>6 DEF CoverInv
<1>11. CASE Pause
  <2>1. Mishap("pause")
    BY <1>3, <1>11 DEF Pause
  <2> QED BY <2>1 DEF Mishap, Sound
<1>12. CASE FirstSync
  <2>1. /\ synced' = TRUE
        /\ UNCHANGED <<disk, rtc, pc, life, since, unsaved, pending, pending_since, enabled,
                       step, blind>>
    BY <1>12 DEF FirstSync, history
  <2> QED BY <1>3, <2>1 DEF CoverInv
<1>13. CASE TakeSync
  BY <1>3, <1>13 DEF TakeSync
<1>14. ASSUME NEW d \in Steps, Resync(d) PROVE CoverInv'
  <2>1. d \in Int /\ d > Unset
    BY StepsMove
  <2>2. /\ pc = "up" /\ ("rtc" \in pending => d > 0)
        /\ since' = Moved(Moved(since, d), -d) /\ pending_since' = Moved(pending_since, -d)
        /\ UNCHANGED <<disk, rtc, pc, life, unsaved, enabled, synced, step, blind>>
        /\ "rtc" \in pending' <=> "rtc" \in pending
    BY <1>14 DEF Resync, Stepped, history
  <2>3. since' = since
    <3>1. CASE since = Unset
      BY <2>2, <3>1 DEF Moved
    <3>2. CASE since # Unset
      <4>1. since + d \in Int /\ since + d # Unset /\ Moved(since, d) = since + d
        BY <1>2, <1>3, <2>1, <3>2 DEF Moved
      <4>2. since' = since + d + (-d)
        BY <2>2, <4>1 DEF Moved
      <4> QED BY <1>2, <2>1, <4>2
    <3> QED BY <3>1, <3>2
  <2>4. /\ pending_since' \in Int
        /\ pending_since' <= pending_since \/ pending_since' < 0
        /\ "rtc" \notin pending => pending_since' = Unset
    <3>1. CASE pending_since = Unset
      <4>1. pending_since' = Unset
        BY <2>2, <3>1 DEF Moved
      <4> QED BY <1>2, <4>1
    <3>2. CASE pending_since # Unset
      <4>1. d > 0 /\ pending_since' = pending_since + (-d) /\ "rtc" \in pending
        BY <1>3, <2>2, <3>2 DEF Moved
      <4> QED BY <1>2, <2>1, <4>1
    <3> QED BY <3>1, <3>2
  <2>5. /\ since = Unset => pending_since' < 0
        /\ pending_since' <= since \/ pending_since' < 0
    BY <1>2, <1>3, <2>4
  <2> QED BY <1>3, <2>2, <2>3, <2>4, <2>5 DEF CoverInv
<1>15. ASSUME NEW d \in Steps, LateSync(d) PROVE CoverInv'
  BY <1>15 DEF LateSync, Mishap, Sound
<1>16. CASE Crash
  <2>1. Off /\ UNCHANGED <<disk, rtc, enabled, blind>> /\ pc = "up"
    BY <1>16 DEF Crash, Mishap, Sound
  <2> QED BY <1>1, <1>3, <2>1, CoverOff
<1>17. CASE PowerCut
  <2>1. Off /\ UNCHANGED <<disk, enabled, blind>> /\ rtc' = NoStash
    BY <1>17 DEF PowerCut
  <2> QED BY <1>1, <2>1, NoStashType, CoverOff
<1>18. CASE RestartUnsaved
  BY <1>3, <1>18 DEF RestartUnsaved
<1>19. CASE UNCHANGED vars
  <2>1. UNCHANGED <<disk, rtc, pc, life, unsaved, pending, pending_since, enabled, since,
                    synced, step, blind>>
    BY <1>19 DEF vars, clock, history
  <2> QED BY <1>3, <2>1 DEF CoverInv
<1> QED BY <1>4, <1>5, <1>6, <1>7, <1>8, <1>9, <1>10, <1>11, <1>12, <1>13, <1>14, <1>15, <1>16,
           <1>17, <1>18, <1>19 DEF Next

----------------------------------------------------------------------------
(* The theorems                                                            *)

Inductive == TypeOK /\ PaceInv /\ CopiesInv /\ CoverInv

\* A new device has nothing to lose, and no step takes the copies apart.
THEOREM LifetimeInductive == Spec => []Inductive
<1>1. Init => Inductive
  <2> SUFFICES ASSUME Init PROVE Inductive
    OBVIOUS
  <2>1. TypeOK /\ PaceInv
    BY PaceInit
  <2>2. /\ pc = "off" /\ since = Unset /\ pending_since = Unset /\ pending = {} /\ step = 0
        /\ enabled /\ mishap = None /\ disk = Zero /\ rtc = NoStash /\ blind = 0
    BY DEF Init
  <2>3. CopiesInv
    BY <2>2 DEF CopiesInv
  <2>4. rtc.magic = FALSE /\ disk.secs <= Value(disk) + blind /\ Unset < 0
    BY <2>2, ZeroIsLife, NoStashType DEF Unset
  <2>5. CoverInv
    BY <2>2, <2>4 DEF CoverInv
  <2> QED BY <2>1, <2>3, <2>5 DEF Inductive
<1>2. Inductive /\ [Next]_vars => Inductive'
  BY PaceStep, CopiesStep, CoverStep DEF Inductive
<1> QED BY <1>1, <1>2, PTL DEF Spec

\* Counter: the totals, the stash and the work of the loop stay well formed;
\* in particular the clicks that are not saved never wrap their 32 bits.
THEOREM TypeCorrect == Spec => []TypeOK
<1>1. Inductive => TypeOK
  BY DEF Inductive
<1> QED BY <1>1, LifetimeInductive, PTL

\* Counter::save_lifetime, loop, begin: what a crash leaves of the clicks is never more
\* than the total was, and less by no more than came in since the last stash or
\* came from one; and no second is tracked whose clicks are not in the total.
THEOREM TotalsForAll == Spec => []TotalsSurvive
<1>1. Inductive => TotalsSurvive
  <2> SUFFICES ASSUME Inductive PROVE TotalsSurvive
    OBVIOUS
  <2>1. TypeOK /\ CopiesInv /\ CoverInv
    BY DEF Inductive
  <2>2. /\ Value(disk) \in Nat /\ Value(life) \in Nat /\ unsaved \in Nat
        /\ recovered \in Nat /\ Stashed \in Nat /\ rtc_ctr \in Nat /\ blind \in Nat
        /\ life.secs \in Int /\ since \in Int
    <3>1. Value(disk) \in Nat /\ Value(life) \in Nat /\ unsaved \in Nat /\ rtc.clicks \in Nat
          /\ blind \in Nat /\ life.secs \in Int /\ since \in Int
      BY <2>1, Numbers
    <3>2. recovered \in Nat /\ rtc_ctr \in Nat
      BY <2>1, Widths DEF TypeOK
    <3> QED BY <3>1, <3>2 DEF Stashed
  <2>3. Found = Value(disk) + Stashed
    BY DEF Found, Stashed
  <2>4. NotCountedTwice
    <3>1. SUFFICES ASSUME pc = "up", mishap # "failed write" PROVE Found <= Value(life)
      BY DEF NotCountedTwice
    <3>2. Value(life) = Value(disk) + recovered + unsaved /\ Stashed <= unsaved
      BY <2>1, <3>1 DEF CopiesInv
    <3> QED BY <2>2, <2>3, <3>2
  <2>5. CrashLosesLittle
    <3>1. SUFFICES ASSUME pc = "up", "rtc" \notin pending, mishap # "failed write"
                   PROVE  Value(life) - Found <= rtc_ctr + recovered
      BY DEF CrashLosesLittle
    <3>2. Value(life) = Value(disk) + recovered + unsaved /\ unsaved - Stashed <= rtc_ctr
      BY <2>1, <3>1 DEF CopiesInv
    <3> QED BY <2>2, <2>3, <3>2
  <2>6. SecondsAreCovered
    <3>1. SUFFICES ASSUME pc # "off", Sound PROVE Tracked <= Value(life) + blind
      BY DEF SecondsAreCovered, Sound
    <3>2. /\ since # Unset => life.secs + since <= Value(life) + blind
          /\ life.secs <= Value(life) + blind
      BY <2>1, <3>1 DEF CoverInv
    <3> QED BY <2>2, <3>2 DEF Tracked
  <2> QED BY <2>4, <2>5, <2>6 DEF TotalsSurvive, ClicksSurvive
<1> QED BY <1>1, LifetimeInductive, PTL

----------------------------------------------------------------------------
(* The hours: what the tally and its clock keep. *)

(* The time stays past the first day, whatever replies are still to come.  *)
TimeInv ==
  /\ time # 0 => time >= Day /\ \A d \in Moves : time + (MaxReplies - replies) * d >= Day
  /\ reply \/ is_synced => time # 0

(* The clock was read after a sync only, and is behind the time by no more *)
(* than the ticks that are owed and those that were lost.                  *)
ClockInv ==
  /\ s_clock.now # 0 => is_synced /\ time <= s_clock.now + owed + gone
  /\ turn # 0 => s_clock.now # 0

(* Until the first turn of an hour nothing is collected.                   *)
TallyInv ==
  /\ HoursAddUp
  /\ tally.armed => is_synced
  /\ ~tally.armed => turn = 0 /\ tally.day = 0 /\ past = 0 /\ counted = 0

HourInv == HourTypeOK /\ TimeInv /\ ClockInv /\ TallyInv

----------------------------------------------------------------------------
LEMMA HourWidths ==
  /\ Hour \in Nat /\ Hour # 0 /\ Day \in Nat /\ Day # 0 /\ ReadEvery \in Nat /\ ReadEvery # 0
  /\ MaxTime \in Nat /\ MaxClicks \in Nat /\ MaxOwed \in Nat /\ MaxReplies \in Nat
  /\ StartTimes \subseteq Nat /\ Moves \subseteq Int
BY HourAssumption DEF HourAssumption

\* More of what is not smaller is not less.
LEMMA TimesGrows ==
  ASSUME NEW n \in Nat, NEW d \in Int, NEW e \in Int, d <= e
  PROVE  n * d <= n * e
<1>1. e - d \in Nat
  OBVIOUS
<1>2. n * (e - d) >= 0
  BY <1>1
<1>3. n * (e - d) = n * e - n * d
  OBVIOUS
<1>4. n * d \in Int /\ n * e \in Int
  OBVIOUS
<1> QED BY <1>2, <1>3, <1>4

\* Of the replies that may come, one more of some kind and the rest of another keep
\* the time past b when those of either kind alone do.
LEMMA OneMove ==
  ASSUME NEW t \in Int, NEW b \in Int, NEW n \in Nat \ {0}, NEW d \in Int, NEW e \in Int,
         t + n * d >= b, t + n * e >= b
  PROVE  t + d + (n - 1) * e >= b
<1>1. n - 1 \in Nat
  OBVIOUS
<1>2. n * d = d + (n - 1) * d /\ n * e = e + (n - 1) * e
  OBVIOUS
<1>3. (n - 1) * d \in Int /\ (n - 1) * e \in Int
  BY <1>1
<1>4. CASE d <= e
  <2>1. (n - 1) * d <= (n - 1) * e
    BY <1>1, <1>4, TimesGrows
  <2> QED BY <2>1, <1>2, <1>3
<1>5. CASE e <= d
  BY <1>5, <1>2, <1>3
<1> QED BY <1>4, <1>5

\* and some of them keep it past b when none and all of them do.
LEMMA SomeMoves ==
  ASSUME NEW t \in Int, NEW b \in Int, NEW n \in Nat, NEW k \in 0 .. n, NEW d \in Int,
         t >= b, t + n * d >= b
  PROVE  t + k * d >= b
<1>1. k \in Nat /\ n - k \in Nat
  OBVIOUS
<1>2. k * d \in Int /\ n * d \in Int /\ (n - k) * d \in Int
  BY <1>1
<1>3. n * d = k * d + (n - k) * d
  BY <1>1
<1>4. CASE d >= 0
  <2>1. k * 0 <= k * d
    BY <1>1, <1>4, TimesGrows
  <2> QED BY <2>1, <1>1, <1>2
<1>5. CASE d <= 0
  <2>1. (n - k) * d <= (n - k) * 0
    BY <1>1, <1>5, TimesGrows
  <2> QED BY <2>1, <1>1, <1>2, <1>3
<1> QED BY <1>4, <1>5

\* The turn of the hour is ahead of the time it is reckoned from, and a time past
\* the first day has a day of its own.
LEMMA TurnIsAhead ==
  ASSUME NEW now \in Nat
  PROVE  NextTurn(now) \in Nat /\ NextTurn(now) > now
<1>1. Hour \in Nat /\ Hour # 0
  BY HourWidths
<1>2. now \div Hour \in Nat
  BY <1>1
<1>3. now = Hour * (now \div Hour) + (now % Hour) /\ (now % Hour) \in 0 .. Hour - 1
  BY <1>1
<1>4. (now \div Hour + 1) * Hour = Hour * (now \div Hour) + Hour
  BY <1>1, <1>2
<1>5. Hour * (now \div Hour) \in Nat
  BY <1>1, <1>2
<1> QED BY <1>1, <1>3, <1>4, <1>5 DEF NextTurn

LEMMA DayOfItsOwn ==
  ASSUME NEW now \in Nat
  PROVE  now \div Day \in Nat /\ (now >= Day => now \div Day # 0)
<1>1. Day \in Nat /\ Day # 0
  BY HourWidths
<1>2. now \div Day \in Nat
  BY <1>1
<1>3. now = Day * (now \div Day) + (now % Day) /\ (now % Day) \in 0 .. Day - 1
  BY <1>1
<1>4. now \div Day = 0 => now < Day
  BY <1>1, <1>3
<1> QED BY <1>1, <1>2, <1>4

----------------------------------------------------------------------------
\* A step of the clock: one on from the last, or the time itself, and that whenever
\* the turn comes or the clock was never read.
LEMMA StepReads ==
  ASSUME HourTypeOK, NEW c, c = Step(turn)
  PROVE  /\ c.now \in Nat /\ c.age \in 0 .. ReadEvery - 1
         /\ \/ c.now = time /\ c.age = 0
            \/ c.now = s_clock.now + 1 /\ c.age # 0 /\ s_clock.now # 0 /\ c.now < turn
<1>1. /\ time \in Nat /\ s_clock.now \in Nat /\ s_clock.age \in 0 .. ReadEvery - 1 /\ turn \in Nat
  BY DEF HourTypeOK
<1>2. ReadEvery \in Nat /\ ReadEvery # 0
  BY HourWidths
<1>3. CASE s_clock.now # 0 /\ s_clock.age + 1 < ReadEvery /\ s_clock.now + 1 < turn
  <2>1. c = [now |-> s_clock.now + 1, age |-> s_clock.age + 1]
    BY <1>3 DEF Step
  <2> QED BY <2>1, <1>1, <1>2, <1>3
<1>4. CASE ~(s_clock.now # 0 /\ s_clock.age + 1 < ReadEvery /\ s_clock.now + 1 < turn)
  <2>1. c = [now |-> time, age |-> 0]
    BY <1>4 DEF Step
  <2> QED BY <2>1, <1>1, <1>2
<1> QED BY <1>3, <1>4

\* What the tick of a second does once the clock is synced: the hour turns or it stays.
LEMMA TickOfSynced ==
  ASSUME HourInv, SecondTicker, is_synced, NEW c, c = Step(turn)
  PROVE  /\ s_clock' = c /\ gone' = IF c.age = 0 THEN 0 ELSE gone
         /\ counted' = counted + event_counter /\ tally' \in [hour : Nat, today : Nat, yesterday : Nat,
                                                            day : Nat, armed : BOOLEAN]
         /\ tally'.armed
         /\ \/ /\ turn = 0 \/ c.now >= turn
               /\ c.now = time /\ c.age = 0 /\ turn' = NextTurn(c.now)
               /\ past' = IF tally.armed THEN past + tally.hour ELSE past
               /\ tally'.hour = event_counter
               /\ \/ tally'.today = event_counter
                  \/ tally'.today = tally.today + event_counter /\ tally.armed
            \/ /\ turn # 0 /\ c.now < turn /\ turn' = turn /\ past' = past
               /\ tally.armed
               /\ tally'.hour = tally.hour + event_counter
               /\ tally'.today = tally.today + event_counter
<1>1. /\ tally \in [hour : Nat, today : Nat, yesterday : Nat, day : Nat, armed : BOOLEAN]
      /\ event_counter \in Nat /\ turn \in Nat /\ time \in Nat
  BY DEF HourInv, HourTypeOK
<1>2. /\ c.now \in Nat
      /\ \/ c.now = time /\ c.age = 0
         \/ c.now = s_clock.now + 1 /\ c.age # 0 /\ s_clock.now # 0 /\ c.now < turn
  BY StepReads DEF HourInv
<1>3. /\ s_clock' = c /\ gone' = IF c.age = 0 THEN 0 ELSE gone
      /\ turn' = IF Fires(c.now) THEN NextTurn(c.now) ELSE turn
      /\ past' = IF Fires(c.now) /\ tally.armed THEN past + tally.hour ELSE past
      /\ tally' = Collected(IF Fires(c.now) THEN RolledOver(c.now, tally) ELSE tally)
      /\ counted' = counted + event_counter
  BY DEF SecondTicker, WasRead
<1>4. CASE Fires(c.now)
  <2> DEFINE day == c.now \div Day
  <2>1. turn = 0 \/ c.now >= turn
    BY <1>4 DEF Fires
  <2>2. c.now = time /\ c.age = 0
    BY <1>1, <1>2, <2>1
  <2>3. day \in Nat /\ (~tally.armed => day # tally.day)
    <3>1. time >= Day
      BY DEF HourInv, TimeInv
    <3>2. ~tally.armed => tally.day = 0
      BY DEF HourInv, TallyInv
    <3> QED BY <3>1, <3>2, <2>2, <1>2, DayOfItsOwn
  <2>4. tally' = Collected(RolledOver(c.now, tally))
    BY <1>3, <1>4
  <2>5. tally' = [hour |-> 0 + event_counter,
                  today |-> (IF day # tally.day THEN 0 ELSE tally.today) + event_counter,
                  yesterday |-> IF day # tally.day /\ tally.armed THEN tally.today
                                ELSE tally.yesterday,
                  day |-> day, armed |-> TRUE]
    BY <2>4, <1>1 DEF Collected, RolledOver
  <2> HIDE DEF day
  <2>6. /\ tally' \in [hour : Nat, today : Nat, yesterday : Nat, day : Nat, armed : BOOLEAN]
        /\ tally'.armed /\ tally'.hour = event_counter
        /\ \/ tally'.today = event_counter
           \/ tally'.today = tally.today + event_counter /\ tally.armed
    BY <2>5, <2>3, <1>1
  <2> QED BY <2>1, <2>2, <2>6, <1>3, <1>4
<1>5. CASE ~Fires(c.now)
  <2>1. turn # 0 /\ c.now < turn
    BY <1>5, <1>1, <1>2 DEF Fires
  <2>2. tally.armed
    BY <2>1 DEF HourInv, TallyInv
  <2>3. tally' = [hour |-> tally.hour + event_counter, today |-> tally.today + event_counter,
                  yesterday |-> tally.yesterday, day |-> tally.day, armed |-> tally.armed]
    BY <1>1, <1>3, <1>5 DEF Collected
  <2>4. /\ tally' \in [hour : Nat, today : Nat, yesterday : Nat, day : Nat, armed : BOOLEAN]
        /\ tally'.armed /\ tally'.hour = tally.hour + event_counter
        /\ tally'.today = tally.today + event_counter
    BY <2>2, <2>3, <1>1
  <2> QED BY <2>1, <2>2, <2>4, <1>3, <1>5
<1> QED BY <1>4, <1>5

----------------------------------------------------------------------------
\* Between two ticks only what the pulse counts changes, or the time.
LEMMA PulseHolds ==
  ASSUME HourInv, Pulse
  PROVE  HourInv'
<1> USE DEF Pulse
<1>1. HourTypeOK'
  BY HourWidths DEF HourInv, HourTypeOK
<1>2. TimeInv' /\ ClockInv' /\ TallyInv'
  BY DEF HourInv, TimeInv, ClockInv, TallyInv, HoursAddUp
<1> QED BY <1>1, <1>2 DEF HourInv

LEMMA SecondHolds ==
  ASSUME HourInv, SecondPasses
  PROVE  HourInv'
<1>1. /\ time \in Nat /\ owed \in Nat /\ gone \in Nat /\ s_clock.now \in Nat /\ replies \in 0 .. MaxReplies
      /\ MaxReplies \in Nat /\ MaxOwed \in Nat /\ Day \in Nat /\ Moves \subseteq Int
  BY HourWidths DEF HourInv, HourTypeOK
<1>2. /\ time' = IF time = 0 THEN 0 ELSE time + 1
      /\ owed' = owed + 1 /\ owed < MaxOwed
      /\ UNCHANGED <<moved, reply, is_synced, clicks, s_clock, turn, gone, replies>>
  BY DEF SecondPasses
<1>3. HourTypeOK'
  BY <1>1, <1>2 DEF HourInv, HourTypeOK, clicks
<1>4. TimeInv'
  <2>1. ASSUME time # 0, NEW d \in Moves
        PROVE  time + 1 + (MaxReplies - replies) * d >= Day
    <3>1. (MaxReplies - replies) * d \in Int
      BY <1>1
    <3>2. time + (MaxReplies - replies) * d >= Day
      BY <2>1 DEF HourInv, TimeInv
    <3> QED BY <3>1, <3>2, <1>1
  <2> QED BY <2>1, <1>1, <1>2 DEF HourInv, TimeInv
<1>5. ClockInv'
  BY <1>1, <1>2 DEF HourInv, ClockInv
<1>6. TallyInv'
  BY <1>2 DEF HourInv, TallyInv, HoursAddUp, clicks
<1> QED BY <1>3, <1>4, <1>5, <1>6 DEF HourInv

LEMMA LoseHolds ==
  ASSUME HourInv, LoseTick
  PROVE  HourInv'
<1>1. /\ time \in Nat /\ owed \in 0 .. MaxOwed /\ gone \in Nat /\ s_clock.now \in Nat
      /\ MaxOwed \in Nat
  BY HourWidths DEF HourInv, HourTypeOK
<1>2. /\ owed > 1 /\ owed' = owed - 1
      /\ gone' = IF s_clock.now = 0 THEN 0 ELSE gone + 1
      /\ UNCHANGED <<time, moved, reply, is_synced, clicks, s_clock, turn, replies>>
  BY DEF LoseTick
<1>3. HourTypeOK'
  BY <1>1, <1>2 DEF HourInv, HourTypeOK, clicks
<1>4. TimeInv' /\ TallyInv'
  BY <1>2 DEF HourInv, TimeInv, TallyInv, HoursAddUp, clicks
<1>5. ClockInv'
  BY <1>1, <1>2 DEF HourInv, ClockInv
<1> QED BY <1>3, <1>4, <1>5 DEF HourInv

\* The tick collects the clicks, and turns the hour by a time that is the clock's own.
LEMMA TickHolds ==
  ASSUME HourInv, SecondTicker
  PROVE  HourInv'
<1> DEFINE c == Step(turn)
<1>1. /\ time \in Nat /\ owed \in 0 .. MaxOwed /\ MaxOwed \in Nat /\ gone \in Nat
      /\ s_clock.now \in Nat /\ turn \in Nat /\ event_counter \in Nat
      /\ past \in Nat /\ counted \in Nat /\ ReadEvery \in Nat
      /\ tally \in [hour : Nat, today : Nat, yesterday : Nat, day : Nat, armed : BOOLEAN]
  BY HourWidths DEF HourInv, HourTypeOK
<1>2. /\ owed > 0 /\ owed' = owed - 1 /\ event_counter' = 0
      /\ UNCHANGED <<time, moved, reply, is_synced, pulses, replies>>
  BY DEF SecondTicker
<1>3. TimeInv'
  BY <1>2 DEF HourInv, TimeInv
<1>4. CASE is_synced
  <2>1. /\ c.now \in Nat /\ c.age \in 0 .. ReadEvery - 1
        /\ \/ c.now = time /\ c.age = 0
           \/ c.now = s_clock.now + 1 /\ c.age # 0 /\ s_clock.now # 0 /\ c.now < turn
    BY StepReads DEF HourInv
  <2>2. /\ s_clock' = c /\ gone' = IF c.age = 0 THEN 0 ELSE gone
        /\ counted' = counted + event_counter
        /\ tally' \in [hour : Nat, today : Nat, yesterday : Nat, day : Nat, armed : BOOLEAN]
        /\ tally'.armed
        /\ \/ /\ turn = 0 \/ c.now >= turn
              /\ c.now = time /\ c.age = 0 /\ turn' = NextTurn(c.now)
              /\ past' = IF tally.armed THEN past + tally.hour ELSE past
              /\ tally'.hour = event_counter
              /\ \/ tally'.today = event_counter
                 \/ tally'.today = tally.today + event_counter /\ tally.armed
           \/ /\ turn # 0 /\ c.now < turn /\ turn' = turn /\ past' = past
              /\ tally.armed
              /\ tally'.hour = tally.hour + event_counter
              /\ tally'.today = tally.today + event_counter
    BY <1>4, TickOfSynced
  <2>3. time # 0
    BY <1>4 DEF HourInv, TimeInv
  <2> HIDE DEF c
  <2>4. NextTurn(c.now) \in Nat
    BY <2>1, TurnIsAhead
  <2>5. HourTypeOK'
    <3>1. /\ turn' \in Nat /\ past' \in Nat /\ counted' \in Nat /\ gone' \in Nat
          /\ s_clock'.now \in Nat /\ s_clock'.age \in 0 .. ReadEvery - 1 /\ owed' \in 0 .. MaxOwed
      BY <2>1, <2>2, <2>4, <1>1, <1>2
    <3>2. tally' \in [hour : Nat, today : Nat, yesterday : Nat, day : Nat, armed : BOOLEAN]
      BY <2>2
    <3>3. /\ time' \in Nat /\ moved' \in Int /\ reply' \in BOOLEAN /\ is_synced' \in BOOLEAN
          /\ event_counter' \in Nat /\ pulses' \in 0 .. MaxClicks /\ replies' \in 0 .. MaxReplies
      BY <1>2 DEF HourInv, HourTypeOK
    <3> QED BY <3>1, <3>2, <3>3 DEF HourTypeOK
  <2>6. ClockInv'
    <3>1. s_clock.now # 0 => time <= s_clock.now + owed + gone
      BY DEF HourInv, ClockInv
    <3>2. c.now # 0 /\ time <= c.now + owed' + gone'
      BY <3>1, <2>1, <2>2, <2>3, <1>1, <1>2
    <3> QED BY <3>2, <2>2, <1>2, <1>4 DEF ClockInv
  <2>7. TallyInv'
    <3>1. /\ tally.armed => past + tally.hour = counted /\ tally.today <= counted
          /\ ~tally.armed => past = 0 /\ counted = 0
      BY DEF HourInv, TallyInv, HoursAddUp
    <3>2. tally.hour \in Nat /\ tally.today \in Nat
      BY <1>1
    <3>3. past' + tally'.hour = counted' /\ tally'.today <= counted'
      BY <3>1, <3>2, <2>2, <1>1
    <3> QED BY <3>3, <2>2, <1>2, <1>4 DEF TallyInv, HoursAddUp
  <2> QED BY <2>5, <2>6, <2>7, <1>3 DEF HourInv
<1>5. CASE ~is_synced
  <2>1. tally' = Collected(tally) /\ UNCHANGED <<s_clock, gone, turn, past, counted>>
    BY <1>5 DEF SecondTicker
  <2>2. tally' = [hour |-> tally.hour + event_counter, today |-> tally.today + event_counter,
                  yesterday |-> tally.yesterday, day |-> tally.day, armed |-> tally.armed]
    BY <2>1, <1>1 DEF Collected
  <2>3. /\ tally' \in [hour : Nat, today : Nat, yesterday : Nat, day : Nat, armed : BOOLEAN]
        /\ tally'.armed = tally.armed /\ tally'.day = tally.day
    BY <2>2, <1>1
  <2>4. ~tally.armed /\ s_clock.now = 0
    BY <1>5 DEF HourInv, TallyInv, ClockInv
  <2>5. HourTypeOK'
    BY <2>1, <2>3, <1>1, <1>2 DEF HourInv, HourTypeOK
  <2>6. ClockInv' /\ TallyInv'
    BY <2>1, <2>3, <2>4 DEF HourInv, ClockInv, TallyInv, HoursAddUp
  <2> QED BY <2>5, <2>6, <1>3 DEF HourInv
<1> QED BY <1>4, <1>5

\* A reply leaves the time where those that may still come keep it past the first day.
LEMMA ReplyHolds ==
  ASSUME HourInv, NEW d \in IF time = 0 THEN StartTimes ELSE Moves, Reply(d)
  PROVE  HourInv'
<1>1. /\ time \in Nat /\ owed \in Nat /\ gone \in Nat /\ s_clock.now \in Nat
      /\ moved \in Int /\ replies \in 0 .. MaxReplies /\ MaxReplies \in Nat /\ Day \in Nat
      /\ StartTimes \subseteq Nat /\ Moves \subseteq Int /\ Day # 0
  BY HourWidths DEF HourInv, HourTypeOK
<1>2. /\ replies < MaxReplies /\ replies' = replies + 1
      /\ time' = IF time = 0 THEN d ELSE time + d
      /\ moved' = IF time = 0 THEN 0 ELSE moved + d
      /\ gone' = IF d > 0 /\ s_clock.now # 0 THEN gone + d ELSE gone
      /\ reply' = TRUE
      /\ UNCHANGED <<is_synced, owed, clicks, s_clock, turn>>
  BY DEF Reply
<1>3. d \in Int
  BY <1>1
<1> DEFINE n == MaxReplies - replies
<1>4. n \in Nat \ {0} /\ MaxReplies - replies' = n - 1
  BY <1>1, <1>2
<1>5. time' >= Day /\ \A e \in Moves : time' + (n - 1) * e >= Day
  <2>1. CASE time = 0
    <3>1. d \in StartTimes /\ d >= Day /\ \A e \in Moves : d + MaxReplies * e >= Day
      BY <2>1, HourAssumption DEF HourAssumption
    <3>2. ASSUME NEW e \in Moves PROVE d + (n - 1) * e >= Day
      <4>1. e \in Int /\ n - 1 \in 0 .. MaxReplies
        BY <1>1, <1>4
      <4> QED BY <3>1, <4>1, <1>1, <1>3, SomeMoves
    <3> QED BY <2>1, <3>1, <3>2, <1>2
  <2>2. CASE time # 0
    <3>1. /\ d \in Moves /\ time >= Day
          /\ \A e \in Moves : time + n * e >= Day
      BY <2>2 DEF HourInv, TimeInv
    <3>2. time + d >= Day
      <4>1. time + n * d >= Day /\ 1 \in 0 .. n
        BY <3>1, <1>4
      <4>2. n \in Nat
        BY <1>4
      <4> HIDE DEF n
      <4>3. time + 1 * d >= Day
        BY <4>1, <4>2, <3>1, <1>1, <1>3, SomeMoves
      <4> QED BY <4>3, <1>3
    <3>3. ASSUME NEW e \in Moves PROVE time + d + (n - 1) * e >= Day
      <4>1. e \in Int /\ time + n * e >= Day /\ time + n * d >= Day
        BY <3>1, <1>1
      <4> HIDE DEF n
      <4> QED BY <4>1, <1>1, <1>3, <1>4, OneMove
    <3> QED BY <2>2, <3>2, <3>3, <1>2
  <2> QED BY <2>1, <2>2
<1>6. TimeInv'
  <2>1. time' # 0
    BY <1>1, <1>5
  <2> QED BY <2>1, <1>4, <1>5 DEF TimeInv
<1>7. HourTypeOK'
  <2>1. time' \in Nat
    <3>1. time' \in Int
      BY <1>1, <1>2, <1>3
    <3> QED BY <3>1, <1>1, <1>5
  <2>2. moved' \in Int /\ gone' \in Nat /\ replies' \in 0 .. MaxReplies
    BY <1>1, <1>2, <1>3
  <2> QED BY <2>1, <2>2, <1>2 DEF HourInv, HourTypeOK, clicks
<1>8. ClockInv'
  <2>1. time = 0 => s_clock.now = 0
    BY DEF HourInv, TimeInv, ClockInv
  <2> QED BY <2>1, <1>1, <1>2, <1>3 DEF HourInv, ClockInv
<1>9. TallyInv'
  BY <1>2 DEF HourInv, TallyInv, HoursAddUp, clicks
<1> QED BY <1>6, <1>7, <1>8, <1>9 DEF HourInv

LEMMA TakeHolds ==
  ASSUME HourInv, TakeReply
  PROVE  HourInv'
<1>1. /\ reply /\ reply' = FALSE /\ is_synced' = TRUE /\ moved' = 0 /\ turn' \in {0, turn}
      /\ UNCHANGED <<time, owed, clicks, s_clock, gone, replies>>
  BY DEF TakeReply
<1>2. HourTypeOK'
  <2>1. reply' \in BOOLEAN /\ is_synced' \in BOOLEAN
    BY <1>1
  <2>2. turn' \in Nat /\ moved' \in Int
    BY <1>1 DEF HourInv, HourTypeOK
  <2> QED BY <2>1, <2>2, <1>1 DEF HourInv, HourTypeOK, clicks
<1>3. TimeInv' /\ ClockInv'
  BY <1>1 DEF HourInv, TimeInv, ClockInv
<1>4. TallyInv'
  BY <1>1 DEF HourInv, TallyInv, HoursAddUp, clicks
<1> QED BY <1>2, <1>3, <1>4 DEF HourInv

----------------------------------------------------------------------------
\* Every step is one of these.
LEMMA HourSteps ==
  ASSUME HourInv, [HourNext]_hourVars
  PROVE  HourInv'
<1>1. CASE UNCHANGED hourVars
  <2>1. HourTypeOK'
    BY <1>1 DEF HourInv, HourTypeOK, hourVars
  <2>2. TimeInv' /\ ClockInv' /\ TallyInv'
    BY <1>1 DEF HourInv, TimeInv, ClockInv, TallyInv, HoursAddUp, hourVars
  <2> QED BY <2>1, <2>2 DEF HourInv
<1>2. CASE HourNext
  BY <1>2, PulseHolds, SecondHolds, LoseHolds, TickHolds, TakeHolds, ReplyHolds DEF HourNext
<1> QED BY <1>1, <1>2

\* Counter: the hour does not turn before its time, and a tick that leaves it open is late
\* by no more than the seconds that passed without one.
LEMMA TurnsOnTime ==
  ASSUME HourInv, [HourNext]_hourVars
  PROVE  [NeverEarly /\ NeverLate]_hourVars
<1>1. /\ time \in Nat /\ owed \in 0 .. MaxOwed /\ MaxOwed \in Nat /\ gone \in Nat
      /\ s_clock.now \in Nat /\ turn \in Nat
      /\ s_clock.now # 0 => is_synced /\ time <= s_clock.now + owed + gone
      /\ turn # 0 => s_clock.now # 0
  BY HourWidths DEF HourInv, HourTypeOK, ClockInv
<1>2. CASE UNCHANGED hourVars
  BY <1>2
<1>3. CASE Pulse
  BY <1>1, <1>3 DEF Pulse, NeverEarly, NeverLate
<1>4. CASE SecondPasses
  BY <1>1, <1>4 DEF SecondPasses, NeverEarly, NeverLate
<1>5. CASE LoseTick
  BY <1>1, <1>5 DEF LoseTick, NeverEarly, NeverLate
<1>6. CASE TakeReply
  BY <1>1, <1>6 DEF TakeReply, NeverEarly, NeverLate
<1>7. ASSUME NEW d \in IF time = 0 THEN StartTimes ELSE Moves, Reply(d)
      PROVE  NeverEarly /\ NeverLate
  BY <1>1, <1>7 DEF Reply, NeverEarly, NeverLate
<1>8. CASE SecondTicker
  <2> DEFINE c == Step(turn)
  <2>1. owed > 0 /\ owed' = owed - 1
    BY <1>8 DEF SecondTicker
  <2>2. CASE is_synced
    <3>1. /\ c.now \in Nat
          /\ \/ c.now = time /\ c.age = 0
             \/ c.now = s_clock.now + 1 /\ c.age # 0 /\ s_clock.now # 0 /\ c.now < turn
      BY StepReads DEF HourInv
    <3>2. /\ gone' = IF c.age = 0 THEN 0 ELSE gone
          /\ \/ (turn = 0 \/ c.now >= turn) /\ c.now = time /\ c.age = 0 /\ turn' = NextTurn(c.now)
             \/ turn # 0 /\ c.now < turn /\ turn' = turn
      BY <1>8, <2>2, TickOfSynced
    <3> HIDE DEF c
    <3>3. NextTurn(c.now) \in Nat /\ NextTurn(c.now) > c.now
      BY <3>1, TurnIsAhead
    <3>4. NeverEarly
      BY <3>1, <3>2, <3>3, <1>1 DEF NeverEarly
    <3>5. c.now < turn'
      BY <3>2, <3>3
    <3>6. time < turn' + owed' + gone'
      BY <3>1, <3>2, <3>3, <3>5, <2>1, <1>1
    <3> QED BY <3>4, <3>6 DEF NeverLate
  <2>3. CASE ~is_synced
    <3>1. turn = 0 /\ turn' = turn
      BY <1>1, <1>8, <2>3 DEF SecondTicker
    <3> QED BY <3>1 DEF NeverEarly, NeverLate
  <2> QED BY <2>2, <2>3
<1> QED BY <1>2, <1>3, <1>4, <1>5, <1>6, <1>7, <1>8 DEF HourNext

\* Counter::secondticker, hour_rollover and TickClock: the inductive invariant.
THEOREM HourInductive == HourSpec => []HourInv
<1>1. HourInit => HourInv
  <2> SUFFICES ASSUME HourInit PROVE HourInv
    OBVIOUS
  <2>1. HourTypeOK
    <3>1. reply \in BOOLEAN /\ is_synced \in BOOLEAN
      BY DEF HourInit
    <3>2. /\ time \in Nat /\ moved \in Int /\ owed \in 0 .. MaxOwed /\ event_counter \in Nat
          /\ pulses \in 0 .. MaxClicks /\ turn \in Nat /\ past \in Nat /\ counted \in Nat
          /\ gone \in Nat /\ replies \in 0 .. MaxReplies
          /\ s_clock.now \in Nat /\ s_clock.age \in 0 .. ReadEvery - 1
      BY HourWidths DEF HourInit
    <3>3. tally \in [hour : Nat, today : Nat, yesterday : Nat, day : Nat, armed : BOOLEAN]
      BY DEF HourInit
    <3> QED BY <3>1, <3>2, <3>3 DEF HourTypeOK
  <2>2. TimeInv /\ ClockInv /\ TallyInv
    BY DEF HourInit, TimeInv, ClockInv, TallyInv, HoursAddUp
  <2> QED BY <2>1, <2>2 DEF HourInv
<1>2. HourInv /\ [HourNext]_hourVars => HourInv'
  BY HourSteps
<1> QED BY <1>1, <1>2, PTL DEF HourSpec

\* TickClock and the tally: the clock, the hours and the counts stay well formed,
\* wherever replies move the time.
THEOREM HourTypes == HourSpec => []HourTypeOK
<1>1. HourInv => HourTypeOK
  BY DEF HourInv
<1> QED BY <1>1, HourInductive, PTL

\* Counter::secondticker: for any hours, clocks and replies, the hours of the history hold
\* every click that was collected since the first sync, and the hour turns on time.
THEOREM HoursForAll == HourSpec => HoursAreRight
<1>1. HourInv => HoursAddUp
  BY DEF HourInv, TallyInv
<1>2. HourInv /\ [HourNext]_hourVars => [NeverEarly /\ NeverLate]_hourVars
  BY TurnsOnTime
<1>3. HourSpec => []HoursAddUp
  BY <1>1, HourInductive, PTL
<1>4. HourSpec => HourTurnsOnTime
  BY <1>2, HourInductive, PTL DEF HourSpec, HourTurnsOnTime
<1> QED BY <1>3, <1>4 DEF HoursAreRight

(***************************************************************************)
(* The log on the SD card                                                  *)
(***************************************************************************)
SdInv ==
  /\ SdTypeOK
  /\ sdenabled \in BOOLEAN /\ freecheck \in BOOLEAN /\ due \in BOOLEAN /\ lowered \in BOOLEAN
  /\ buffer \in Seq([file : Nat, minute : Nat])
  /\ RowsSurvive

LEMMA SdWidths ==
  /\ Minutes \in Nat /\ DayLen \in Nat /\ DayLen # 0
  /\ CleanEvery \in Nat /\ CleanEvery # 0 /\ SyncMax \in Nat /\ SyncMax # 0
BY SdAssumption DEF SdAssumption

\* Each minute has a day that a file may be of.
LEMMA DayOfMinute ==
  ASSUME NEW m \in 0 .. Minutes
  PROVE  FileDay(m) \in Nat /\ NoDay \in Nat /\ FileDay(m) < NoDay
<1>1. Minutes \in Nat /\ DayLen \in Nat /\ DayLen # 0 /\ m \in Nat /\ m <= Minutes
  BY SdWidths
<1> DEFINE p == m \div DayLen
           q == Minutes \div DayLen
<1>2. p \in Nat /\ q \in Nat
  BY <1>1
<1>3. m = DayLen * p + (m % DayLen) /\ (m % DayLen) \in 0 .. DayLen - 1
  BY <1>1
<1>4. Minutes = DayLen * q + (Minutes % DayLen) /\ (Minutes % DayLen) \in 0 .. DayLen - 1
  BY <1>1
<1> HIDE DEF p, q
<1>5. ASSUME q < p PROVE FALSE
  <2>1. DayLen * (q + 1) <= DayLen * p
    BY <1>1, <1>2, <1>5, TimesGrows
  <2>2. DayLen * (q + 1) = DayLen * q + DayLen
    BY <1>1, <1>2
  <2>3. DayLen * q \in Nat /\ DayLen * p \in Nat
    BY <1>1, <1>2
  <2> QED BY <2>1, <2>2, <2>3, <1>1, <1>3, <1>4
<1>6. p <= q
  BY <1>2, <1>5
<1> QED BY <1>2, <1>6 DEF FileDay, NoDay, p, q

\* A file is closed with all its rows.
LEMMA PausedHolds ==
  ASSUME Paused
  PROVE  /\ (open' \in 0 .. NoDay) /\ (unsynced' \in 0 .. SyncMax - 1)
         /\ buffer' \in Seq([file : Nat, minute : Nat])
         /\ open' = NoDay /\ buffer' = <<>> /\ Len(buffer') = 0 /\ unsynced' = 0
<1>1. open' = NoDay /\ unsynced' = 0 /\ buffer' = <<>>
  BY DEF Paused
<1>2. SyncMax \in Nat /\ SyncMax # 0
  BY SdWidths
<1>3. NoDay \in Nat
  <2>1. 0 \in 0 .. Minutes
    BY SdWidths
  <2> QED BY <2>1, DayOfMinute
<1> QED BY <1>1, <1>2, <1>3

\* and with it goes everything that was at risk.
LEMMA PausedIsSafe ==
  ASSUME Paused, (sync_min' \in 1 .. SyncMax)
  PROVE  RowsSurvive'
<1>1. open' = NoDay /\ buffer' = <<>> /\ Len(buffer') = 0 /\ unsynced' = 0
  BY PausedHolds
<1>2. sync_min' \in Nat /\ sync_min' >= 1
  BY SdWidths
<1>3. DOMAIN buffer' = {}
  BY <1>1
<1> QED BY <1>1, <1>2, <1>3 DEF RowsSurvive, FewAtRisk, QuietCard

\* What a step that opens nothing and saves nothing leaves.
LEMMA RowsRest ==
  ASSUME RowsSurvive, UNCHANGED <<open, unsynced, buffer, lowered, sync_min>>,
         at' \in {"clean", "page", "ota", "down"} \/ ~sdenabled' =>
           at \in {"clean", "page", "ota", "down"} \/ ~sdenabled
  PROVE  RowsSurvive'
BY DEF RowsSurvive, FewAtRisk, QuietCard

LEMMA CleanedTypes ==
  ASSUME SdTypeOK, NEW force \in BOOLEAN, Cleaned(force)
  PROVE  (clean_min' \in 0 .. CleanEvery - 1) /\ (cleanup' \in CleanNone .. CleanFull)
<1>1. CleanEvery \in Nat /\ CleanEvery # 0
  BY SdWidths
<1>2. (clean_min' \in 0 .. CleanEvery - 1)
  BY <1>1 DEF SdTypeOK, Cleaned
<1>3. (cleanup' \in CleanNone .. CleanFull)
  BY DEF SdTypeOK, Cleaned, Scheduled, CleanNone, CleanFull
<1> QED BY <1>2, <1>3

\* A row, into the open file or a new one.
LEMMA RowHolds ==
  ASSUME SdInv, NEW done \in BOOLEAN, NEW before, NEW file, NEW k,
         Row(file, before, k, done), UNCHANGED <<minute, sync_min, sdenabled>>,
         sdenabled, at' = "row",
         file = FileDay(minute), before \in Seq([file : Nat, minute : Nat]), k = Len(before),
         \A i \in DOMAIN before : before[i].file = file /\ FileDay(before[i].minute) = file
  PROVE  /\ (open' \in 0 .. NoDay) /\ (unsynced' \in 0 .. SyncMax - 1)
         /\ buffer' \in Seq([file : Nat, minute : Nat]) /\ lowered' \in BOOLEAN
         /\ (clean_min' \in 0 .. CleanEvery - 1) /\ (cleanup' \in CleanNone .. CleanFull)
         /\ RowsSurvive'
<1>1. /\ minute \in 0 .. Minutes /\ minute \in Nat /\ sync_min \in Nat /\ sync_min <= SyncMax
      /\ sync_min >= 1 /\ SyncMax \in Nat
  BY SdWidths DEF SdInv, SdTypeOK
<1>2. file \in Nat /\ NoDay \in Nat /\ file < NoDay
  BY <1>1, DayOfMinute
<1>3. k \in Nat
  OBVIOUS
<1>4. (clean_min' \in 0 .. CleanEvery - 1) /\ (cleanup' \in CleanNone .. CleanFull)
  BY CleanedTypes DEF SdInv, Row
<1>5. lowered' = FALSE /\ sync_min' = sync_min
  BY DEF Row
<1>6. CASE k + 1 >= sync_min
  <2>1. open' \in {file, NoDay} /\ unsynced' = 0 /\ buffer' = <<>>
    BY <1>6 DEF Row
  <2>2. RowsSurvive'
    BY <2>1, <1>1, <1>5 DEF RowsSurvive, FewAtRisk, QuietCard
  <2>3. (open' \in 0 .. NoDay) /\ (unsynced' \in 0 .. SyncMax - 1)
    BY <2>1, <1>1, <1>2
  <2>4. buffer' \in Seq([file : Nat, minute : Nat])
    BY <2>1
  <2> QED BY <2>2, <2>3, <2>4, <1>4, <1>5
<1>7. CASE ~(k + 1 >= sync_min)
  <2> DEFINE row == [file |-> file, minute |-> minute]
  <2>1. open' = file /\ unsynced' = k + 1 /\ buffer' = Append(before, row)
    BY <1>7 DEF Row
  <2>2. row \in [file : Nat, minute : Nat] /\ row.file = file /\ row.minute = minute
    BY <1>1, <1>2
  <2> HIDE DEF row
  <2>3. /\ buffer' \in Seq([file : Nat, minute : Nat]) /\ Len(buffer') = k + 1
        /\ \A i \in DOMAIN buffer' : i # k + 1 => i \in DOMAIN before /\ (buffer')[i] = before[i]
        /\ (buffer')[k + 1] = row
    BY <2>1, <2>2
  <2>4. \A i \in DOMAIN buffer' : (buffer')[i].file = file /\ FileDay((buffer')[i].minute) = file
    BY <2>2, <2>3
  <2>5. FewAtRisk'
    BY <2>1, <2>3, <2>4, <1>1, <1>3, <1>5, <1>7 DEF FewAtRisk
  <2>6. QuietCard'
    BY DEF QuietCard
  <2>7. (open' \in 0 .. NoDay) /\ (unsynced' \in 0 .. SyncMax - 1)
    BY <2>1, <1>1, <1>2, <1>3, <1>7
  <2> QED BY <2>3, <2>5, <2>6, <2>7, <1>4, <1>5 DEF RowsSurvive
<1> QED BY <1>6, <1>7

----------------------------------------------------------------------------
LEMMA SdTickHolds == ASSUME SdInv, SdTick PROVE SdInv'
<1>1. UNCHANGED <<open, unsynced, buffer, lowered, sync_min, at, sdenabled, minute, clean_min>>
  BY DEF SdTick
<1>2. RowsSurvive'
  BY <1>1, RowsRest DEF SdInv
<1>3. (last' \in 0 .. Minutes) /\ (cleanup' \in CleanNone .. CleanFull)
  BY DEF SdInv, SdTypeOK, SdTick, Scheduled, CleanNone, CleanFreecheck, CleanFull
<1>4. freecheck' \in BOOLEAN /\ due' \in BOOLEAN
  BY DEF SdInv, SdTick
<1> QED BY <1>1, <1>2, <1>3, <1>4 DEF SdInv, SdTypeOK

LEMMA SdLoopHolds == ASSUME SdInv, SdLoop PROVE SdInv'
<1>1. /\ at = "loop" /\ at' = "row" /\ sdenabled
      /\ UNCHANGED <<minute, sdenabled, freecheck, last, sync_min>>
  BY DEF SdLoop
<1> DEFINE Kept ==
      /\ (open' \in 0 .. NoDay) /\ (unsynced' \in 0 .. SyncMax - 1)
      /\ buffer' \in Seq([file : Nat, minute : Nat]) /\ lowered' \in BOOLEAN
      /\ (clean_min' \in 0 .. CleanEvery - 1) /\ (cleanup' \in CleanNone .. CleanFull)
      /\ RowsSurvive'
<1>2. CASE ~due
  <2>1. UNCHANGED <<due, open, unsynced, clean_min, cleanup, buffer, lowered>>
    BY <1>2 DEF SdLoop
  <2>2. RowsSurvive'
    BY <2>1, <1>1, RowsRest DEF SdInv
  <2>3. due' \in BOOLEAN /\ lowered' \in BOOLEAN /\ buffer' \in Seq([file : Nat, minute : Nat])
    BY <2>1 DEF SdInv
  <2>4. SdTypeOK'
    BY <2>1, <1>1 DEF SdInv, SdTypeOK
  <2> QED BY <2>2, <2>3, <2>4, <1>1 DEF SdInv
<1>3. CASE due
  <2>1. WriteMinute /\ due' = FALSE
    BY <1>3 DEF SdLoop, WriteMinute
  <2>2. sync_min' \in 1 .. SyncMax
    BY <1>1 DEF SdInv, SdTypeOK
  <2>3. ASSUME NoRoot PROVE Kept
    <3>1. Paused /\ UNCHANGED <<clean_min, cleanup, lowered>>
      BY <2>3 DEF NoRoot
    <3>2. /\ (open' \in 0 .. NoDay) /\ (unsynced' \in 0 .. SyncMax - 1)
          /\ buffer' \in Seq([file : Nat, minute : Nat])
      BY <3>1, PausedHolds
    <3>3. RowsSurvive'
      BY <3>1, <2>2, PausedIsSafe
    <3>4. /\ (clean_min' \in 0 .. CleanEvery - 1) /\ (cleanup' \in CleanNone .. CleanFull)
          /\ lowered' \in BOOLEAN
      BY <3>1 DEF SdInv, SdTypeOK
    <3> QED BY <3>2, <3>3, <3>4
  <2>4. ASSUME NoFile PROVE Kept
    <3>1. Paused /\ Cleaned(TRUE) /\ UNCHANGED lowered
      BY <2>4 DEF NoFile
    <3> QED BY <3>1, <2>2, PausedHolds, PausedIsSafe, CleanedTypes DEF SdInv
  <2>5. ASSUME NEW done \in BOOLEAN, Opened, Row(open, buffer, unsynced, done)
        PROVE  Kept
    <3>1. open = FileDay(minute)
      BY <2>5 DEF Opened
    <3>2. /\ buffer \in Seq([file : Nat, minute : Nat]) /\ unsynced = Len(buffer)
          /\ \A i \in DOMAIN buffer : buffer[i].file = open /\ FileDay(buffer[i].minute) = open
      BY DEF SdInv, RowsSurvive, FewAtRisk
    <3> QED BY <3>1, <3>2, <2>5, <1>1, RowHolds
  <2>6. ASSUME NEW done \in BOOLEAN, Row(FileDay(minute), <<>>, 0, done)
        PROVE  Kept
    <3> DEFINE none == <<>>
    <3>1. none \in Seq([file : Nat, minute : Nat]) /\ Len(none) = 0 /\ DOMAIN none = {}
      OBVIOUS
    <3>2. Row(FileDay(minute), none, 0, done)
      BY <2>6
    <3> HIDE DEF none
    <3>3. \A i \in DOMAIN none :
            none[i].file = FileDay(minute) /\ FileDay(none[i].minute) = FileDay(minute)
      BY <3>1
    <3>4. /\ FileDay(minute) = FileDay(minute) /\ 0 = Len(none)
          /\ UNCHANGED <<minute, sync_min, sdenabled>>
      BY <3>1, <1>1
    <3> QED BY <3>1, <3>2, <3>3, <3>4, <1>1, <2>6, RowHolds, Zenon
  <2>7. Kept
    BY <2>1, <2>3, <2>4, <2>5, <2>6 DEF WriteMinute
  <2> QED BY <2>1, <2>7, <1>1 DEF SdInv, SdTypeOK
<1> QED BY <1>2, <1>3

LEMMA StartCleanHolds == ASSUME SdInv, StartClean PROVE SdInv'
<1>1. /\ at = "row" /\ cleanup' = CleanNone
      /\ UNCHANGED <<minute, sdenabled, freecheck, last, due, sync_min, clean_min, lowered>>
  BY DEF StartClean
<1>2. (cleanup' \in CleanNone .. CleanFull)
  BY <1>1 DEF CleanNone, CleanFull
<1>3. CASE cleanup = CleanNone
  <2>1. at' = "loop" /\ UNCHANGED <<open, unsynced, buffer>>
    BY <1>3 DEF StartClean
  <2>2. RowsSurvive'
    BY <1>1, <2>1, RowsRest DEF SdInv
  <2> QED BY <1>1, <1>2, <2>1, <2>2 DEF SdInv, SdTypeOK
<1>4. CASE cleanup # CleanNone
  <2>1. at' = "clean" /\ Paused
    BY <1>4 DEF StartClean
  <2>2. sync_min' \in 1 .. SyncMax
    BY <1>1 DEF SdInv, SdTypeOK
  <2> QED BY <1>1, <1>2, <2>1, <2>2, PausedHolds, PausedIsSafe DEF SdInv, SdTypeOK
<1> QED BY <1>3, <1>4

\* What changes neither the file nor a row.
LEMMA SdRestHolds ==
  ASSUME SdInv,
         \/ \E m \in 1 .. Minutes : Clock(m)
         \/ \E full \in BOOLEAN : EndClean(full)
         \/ EndPage \/ OtaFailed \/ UNCHANGED sdVars
  PROVE  SdInv'
<1>1. ASSUME NEW m \in 1 .. Minutes, Clock(m) PROVE SdInv'
  <2>1. /\ minute' = m
        /\ UNCHANGED <<sdenabled, freecheck, last, due, cleanup, open, unsynced, sync_min,
                       clean_min, at, buffer, lowered>>
    BY <1>1 DEF Clock
  <2>2. minute' \in 0 .. Minutes
    BY <2>1, SdWidths
  <2>3. RowsSurvive'
    BY <2>1, RowsRest DEF SdInv
  <2> QED BY <2>1, <2>2, <2>3 DEF SdInv, SdTypeOK
<1>2. ASSUME NEW full \in BOOLEAN, EndClean(full) PROVE SdInv'
  <2>1. /\ at = "clean" /\ at' = "loop" /\ sdenabled' = ~full
        /\ UNCHANGED <<minute, freecheck, last, due, cleanup, open, unsynced, sync_min, clean_min,
                       buffer, lowered>>
    BY <1>2 DEF EndClean
  <2>2. RowsSurvive'
    BY <2>1, RowsRest DEF SdInv
  <2>3. sdenabled' \in BOOLEAN
    BY <2>1
  <2> QED BY <2>1, <2>2, <2>3 DEF SdInv, SdTypeOK
<1>3. CASE EndPage \/ OtaFailed \/ UNCHANGED sdVars
  <2>1. /\ UNCHANGED <<minute, sdenabled, freecheck, last, due, cleanup, open, unsynced, sync_min,
                       clean_min, buffer, lowered>>
        /\ at' = "loop" \/ at' = at
    BY <1>3 DEF EndPage, OtaFailed, sdVars
  <2>2. RowsSurvive'
    BY <2>1, RowsRest DEF SdInv
  <2> QED BY <2>1, <2>2 DEF SdInv, SdTypeOK
<1> QED BY <1>1, <1>2, <1>3

\* What closes the file.
LEMMA SdPauseHolds ==
  ASSUME SdInv,
         \/ Page \/ Restarted
         \/ \E mounts \in BOOLEAN : Reinit(mounts)
         \/ \E what \in {"ota", "down"} : Lifecycle(what)
  PROVE  SdInv'
<1>1. sync_min' = sync_min /\ Paused
  BY DEF Page, Restarted, Reinit, Lifecycle
<1>2. sync_min' \in 1 .. SyncMax
  BY <1>1 DEF SdInv, SdTypeOK
<1>3. RowsSurvive'
  BY <1>1, <1>2, PausedIsSafe
<1>4. /\ (minute' \in 0 .. Minutes) /\ (last' \in 0 .. Minutes)
      /\ (clean_min' \in 0 .. CleanEvery - 1)
  BY SdWidths DEF SdInv, SdTypeOK, Page, Restarted, Reinit, Lifecycle
<1>5. (cleanup' \in CleanNone .. CleanFull)
  BY DEF SdInv, SdTypeOK, Page, Restarted, Reinit, Lifecycle, CleanNone, CleanFull
<1>6. /\ sdenabled' \in BOOLEAN /\ freecheck' \in BOOLEAN /\ due' \in BOOLEAN
      /\ lowered' \in BOOLEAN
      /\ at' \in {"loop", "row", "clean", "page", "ota", "down"}
  BY DEF SdInv, SdTypeOK, Page, Restarted, Reinit, Lifecycle
<1> QED BY <1>1, <1>2, <1>3, <1>4, <1>5, <1>6, PausedHolds DEF SdInv, SdTypeOK

LEMMA SdSaveHolds == ASSUME SdInv, NEW k \in 1 .. SyncMax, Save(k) PROVE SdInv'
<1>1. /\ sync_min' = k /\ lowered' = TRUE
      /\ UNCHANGED <<minute, sdenabled, freecheck, last, due, cleanup, open, unsynced, clean_min,
                     at, buffer>>
  BY DEF Save
<1>2. RowsSurvive'
  BY <1>1 DEF SdInv, RowsSurvive, FewAtRisk, QuietCard
<1> QED BY <1>1, <1>2 DEF SdInv, SdTypeOK

\* SDCard: the inductive invariant. The rows in RAM are those of the open file since its
\* last sync, and the file is closed whenever anything else looks at the card.
THEOREM SdInductive == SdSpec => []SdInv
<1>1. SdInit => SdInv
  <2> SUFFICES ASSUME SdInit PROVE SdInv
    OBVIOUS
  <2>1. NoDay \in Nat
    <3>1. 0 \in 0 .. Minutes
      BY SdWidths
    <3> QED BY <3>1, DayOfMinute
  <2>2. SdTypeOK
    <3>1. (minute \in 0 .. Minutes) /\ (last \in 0 .. Minutes) /\ (clean_min \in 0 .. CleanEvery - 1)
      BY SdWidths DEF SdInit
    <3>2. (cleanup \in CleanNone .. CleanFull) /\ (open \in 0 .. NoDay)
      BY <2>1 DEF SdInit, CleanNone, CleanFull
    <3>3. (unsynced \in 0 .. SyncMax - 1) /\ (sync_min \in 1 .. SyncMax)
      BY SdWidths DEF SdInit
    <3> QED BY <3>1, <3>2, <3>3 DEF SdInit, SdTypeOK
  <2>3. RowsSurvive
    BY DEF SdInit, RowsSurvive, FewAtRisk, QuietCard
  <2>4. buffer = <<>> /\ sdenabled = TRUE /\ freecheck = TRUE /\ due = FALSE /\ lowered = FALSE
    BY DEF SdInit
  <2>5. buffer \in Seq([file : Nat, minute : Nat])
    BY <2>4
  <2> QED BY <2>2, <2>3, <2>4, <2>5 DEF SdInv
<1>2. SdInv /\ [SdNext]_sdVars => SdInv'
  <2> SUFFICES ASSUME SdInv, [SdNext]_sdVars PROVE SdInv'
    OBVIOUS
  <2>1. CASE SdTick \/ SdLoop \/ StartClean
    BY <2>1, SdTickHolds, SdLoopHolds, StartCleanHolds
  <2>2. CASE \/ \E m \in 1 .. Minutes : Clock(m)
             \/ \E full \in BOOLEAN : EndClean(full)
             \/ EndPage \/ OtaFailed \/ UNCHANGED sdVars
    BY <2>2, SdRestHolds
  <2>3. CASE \/ Page \/ Restarted
             \/ \E mounts \in BOOLEAN : Reinit(mounts)
             \/ \E what \in {"ota", "down"} : Lifecycle(what)
    BY <2>3, SdPauseHolds
  <2>4. CASE \E k \in 1 .. SyncMax : Save(k)
    BY <2>4, SdSaveHolds
  <2> QED BY <2>1, <2>2, <2>3, <2>4 DEF SdNext
<1> QED BY <1>1, <1>2, PTL DEF SdSpec

\* SDCard: for any days, sync intervals and cleanups, a power cut costs fewer rows than the
\* sync interval, none is in the file of another day, and pages, cleanups, updates and a
\* card that is given up find no file open.
THEOREM RowsForAll == SdSpec => []RowsSurvive
<1>1. SdInv => RowsSurvive
  BY DEF SdInv
<1> QED BY <1>1, SdInductive, PTL

(***************************************************************************)
(* The posters                                                             *)
(***************************************************************************)
\* A post is behind its slot's begin, so the slot has no other.
OnePost == started /\ posts # 0 => ago < interval

\* The loop is due when the slot ends, or as soon after the last reply, gate or setting as
\* the poll and the gate let it.
DueInTime ==
  started /\ sending => wake <= interval - ago \/ wake <= Most(ReplyPoll, Retry) - free

ClosedGate == ~gate => free = 0

\* The loop's times; and what was posted.
WakeInv == /\ (wake \in -Late .. Asleep) /\ (free \in 0 .. Slack + 1)
           /\ DueInTime /\ ClosedGate /\ LetsGo
SlotInv == /\ interval \in Intervals /\ ago \in Nat /\ posts \in Nat /\ (slot \in 0 .. interval - 1)
           /\ KeepsSlot /\ OnePost

PosterInv ==
  /\ WakeInv /\ SlotInv /\ (age \in 0 .. Deadline)
  /\ sending \in BOOLEAN /\ started \in BOOLEAN /\ request \in BOOLEAN /\ gate \in BOOLEAN

LEMMA PosterWidths ==
  /\ \A i \in Intervals : i \in Nat /\ i # 0
  /\ Far \in Nat /\ Near \in Nat /\ Early \in Nat /\ Nap \in Nat /\ ReplyPoll \in Nat
  /\ Retry \in Nat /\ Deadline \in Nat /\ Late \in Nat /\ Missed \in Nat /\ Missed # 0
  /\ Early <= Near /\ Near <= Far /\ Nap <= Retry
BY PosterAssumption DEF PosterAssumption

LEMMA Delays ==
  /\ Asleep \in Nat /\ Far < Asleep /\ ReplyPoll < Asleep /\ Retry < Asleep /\ Nap < Asleep
  /\ Most(ReplyPoll, Retry) \in Nat /\ ReplyPoll <= Most(ReplyPoll, Retry)
  /\ Retry <= Most(ReplyPoll, Retry) /\ Most(ReplyPoll, Retry) < Asleep
  /\ Slack = Late + Most(ReplyPoll, Retry)
  /\ Slack \in Nat
BY PosterWidths DEF Asleep, Most, Slack

\* What is left of a number when whole intervals are taken off.
LEMMA RestOf ==
  ASSUME NEW x \in Int, NEW i \in Nat, i # 0, NEW p \in Int, NEW s \in 0 .. i - 1, x = i * p + s
  PROVE  (x % i) = s
<1> DEFINE q == x \div i
           r == x % i
<1>1. x = i * q + r /\ r \in 0 .. i - 1 /\ q \in Int
  OBVIOUS
<1> HIDE DEF q, r
<1>2. i * p \in Int /\ i * q \in Int /\ r \in Nat /\ s \in Nat /\ r < i /\ s < i
  BY <1>1
<1>3. ASSUME p < q PROVE FALSE
  <2>1. i * (p + 1) <= i * q
    BY <1>1, <1>3, TimesGrows
  <2>2. i * (p + 1) = i * p + i
    OBVIOUS
  <2> QED BY <2>1, <2>2, <1>1, <1>2
<1>4. ASSUME q < p PROVE FALSE
  <2>1. i * (q + 1) <= i * p
    BY <1>1, <1>4, TimesGrows
  <2>2. i * (q + 1) = i * q + i
    BY <1>1
  <2> QED BY <2>1, <2>2, <1>1, <1>2
<1>5. p = q
  BY <1>1, <1>3, <1>4
<1>6. r = s
  BY <1>1, <1>2, <1>5
<1> QED BY <1>6 DEF r

\* The next second of a slot, and that it is the same a whole interval on.
LEMMA NextInSlot ==
  ASSUME NEW a \in Nat, NEW i \in Nat, i # 0
  PROVE  /\ (a % i) \in 0 .. i - 1
         /\ ((a + 1) % i) = (((a % i) + 1) % i)
         /\ a < i => (a % i) = a
         /\ ((a % i) % i) = (a % i)
<1> DEFINE r == a % i
           q == a \div i
<1>1. a = i * q + r /\ r \in 0 .. i - 1 /\ q \in Int
  OBVIOUS
<1> HIDE DEF q, r
<1>2. ASSUME a < i PROVE (a % i) = a
  <2>1. a = i * 0 + a /\ a \in 0 .. i - 1
    BY <1>2
  <2> QED BY <2>1, RestOf
<1>3. (r % i) = r
  <2>1. r = i * 0 + r
    BY <1>1
  <2> QED BY <2>1, <1>1, RestOf
<1>4. CASE r + 1 < i
  <2>1. r + 1 \in 0 .. i - 1 /\ r + 1 = i * 0 + (r + 1)
    BY <1>1, <1>4
  <2>2. a + 1 = i * q + (r + 1)
    BY <1>1
  <2>3. ((a + 1) % i) = r + 1 /\ ((r + 1) % i) = r + 1
    BY <2>1, <2>2, <1>1, RestOf
  <2> QED BY <2>3, <1>1, <1>2, <1>3 DEF r
<1>5. CASE r + 1 = i
  <2>1. 0 \in 0 .. i - 1 /\ r + 1 = i * 1 + 0
    BY <1>5
  <2>2. i * (q + 1) = i * q + i
    BY <1>1
  <2>3. a + 1 = i * (q + 1) + 0
    BY <1>1, <1>5, <2>2
  <2>4. ((a + 1) % i) = 0 /\ ((r + 1) % i) = 0
    BY <2>1, <2>3, <1>1, RestOf
  <2> QED BY <2>4, <1>1, <1>2, <1>3 DEF r
<1> QED BY <1>1, <1>4, <1>5

LEMMA IntervalOff ==
  ASSUME NEW a \in Nat, NEW i \in Nat, i # 0, a >= i
  PROVE  ((a - i) % i) = (a % i) /\ a - i \in Nat
<1> DEFINE r == a % i
           q == a \div i
<1>1. a = i * q + r /\ r \in 0 .. i - 1 /\ q \in Int
  OBVIOUS
<1> HIDE DEF q, r
<1>2. i * (q - 1) = i * q - i
  BY <1>1
<1>3. a - i = i * (q - 1) + r
  BY <1>1, <1>2
<1>4. ((a - i) % i) = r
  BY <1>1, <1>3, RestOf
<1> QED BY <1>4 DEF r

LEMMA ManyIntervals ==
  ASSUME NEW i \in Nat PROVE Missed * i >= i
<1>1. Missed - 1 \in Nat
  BY PosterWidths
<1>2. Missed * i = (Missed - 1) * i + i
  BY <1>1, PosterWidths
<1>3. (Missed - 1) * i \in Nat
  BY <1>1
<1> QED BY <1>2, <1>3

----------------------------------------------------------------------------
\* What sleep_until() asks for ends with the slot, or after a nap.
LEMMA SleepsInTime ==
  ASSUME NEW u \in Int
  PROVE  /\ SleepUntil(u) \in Nat /\ SleepUntil(u) < Asleep
         /\ SleepUntil(u) <= u \/ SleepUntil(u) <= Retry
BY PosterWidths, Delays DEF SleepUntil

LEMMA PrefsLoadedHolds ==
  ASSUME PosterInv, NEW i \in Intervals, NEW on \in BOOLEAN, PrefsLoaded(i, on)
  PROVE  PosterInv'
<1>1. /\ interval' = i /\ sending' = on /\ free' = 0
      /\ UNCHANGED <<started, ago, request, age, gate>>
  BY DEF PrefsLoaded
<1>2. WakeInv'
  <2>1. /\ wake' \in Int /\ wake' >= 0
        /\ wake' <= ReplyPoll \/ (wake' = Asleep /\ ~on /\ ~request)
    BY PosterWidths, Delays DEF PrefsLoaded
  <2>2. (wake' \in -Late .. Asleep) /\ (free' \in 0 .. Slack + 1)
    BY <1>1, <2>1, PosterWidths, Delays
  <2>3. DueInTime'
    BY <1>1, <2>1, Delays, PosterWidths DEF DueInTime
  <2>4. LetsGo'
    BY <1>1, <2>1, Delays, PosterWidths DEF LetsGo
  <2> QED BY <1>1, <2>2, <2>3, <2>4 DEF WakeInv, ClosedGate
<1>3. SlotInv'
  <2>1. SlotInv
    BY DEF PosterInv
  <2>2. CASE i = interval
    BY <1>1, <2>1, <2>2 DEF PrefsLoaded, SlotInv, KeepsSlot, OnePost
  <2>3. CASE i # interval
    <3>1. slot' = (ago % i) /\ posts' = 0
      BY <2>3 DEF PrefsLoaded
    <3>2. ago \in Nat /\ i \in Nat /\ i # 0
      BY <2>1, PosterWidths DEF SlotInv
    <3>3. (ago % i) \in 0 .. i - 1
      BY <3>2, NextInSlot
    <3> QED BY <1>1, <3>1, <3>2, <3>3 DEF SlotInv, KeepsSlot, OnePost
  <2> QED BY <2>2, <2>3
<1> QED BY <1>1, <1>2, <1>3 DEF PosterInv

\* What the loop leaves its next turn at.
LEMMA LoopWakes ==
  ASSUME PosterInv, wake' \in Nat, free' = 0,
         \/ wake' <= interval' - ago' /\ wake' < Asleep
         \/ wake' <= Most(ReplyPoll, Retry) - free'
         \/ wake' = Asleep /\ ~request' /\ ~sending'
  PROVE  WakeInv'
<1>1. wake' < Asleep \/ (wake' = Asleep /\ ~request' /\ ~sending')
  BY Delays
<1>2. (wake' \in -Late .. Asleep) /\ (free' \in 0 .. Slack + 1)
  BY <1>1, Delays, PosterWidths
<1>3. DueInTime'
  BY DEF DueInTime
<1>4. LetsGo'
  <2>1. wake' < Asleep => wake' # Asleep
    BY Delays
  <2> QED BY <1>1, <2>1 DEF LetsGo
<1> QED BY <1>2, <1>3, <1>4 DEF WakeInv, ClosedGate

LEMMA PosterLoopHolds == ASSUME PosterInv, NEW done \in BOOLEAN, PosterLoop(done) PROVE PosterInv'
<1> DEFINE flying == request /\ ~done
<1>1. free' = 0 /\ UNCHANGED <<interval, sending, gate>>
  BY DEF PosterLoop
<1>2. /\ SlotInv /\ (age \in 0 .. Deadline) /\ interval \in Nat /\ interval # 0 /\ ago \in Nat
      /\ sending \in BOOLEAN /\ started \in BOOLEAN /\ request \in BOOLEAN /\ gate \in BOOLEAN
  BY PosterWidths DEF PosterInv, SlotInv
<1>3. flying \in BOOLEAN
  BY <1>2
<1>4. CASE ~sending
  <2>1. /\ request' = flying /\ wake' = IF flying THEN ReplyPoll ELSE Asleep
        /\ UNCHANGED <<started, ago, age, slot, posts>>
    BY <1>4 DEF PosterLoop
  <2>2. SlotInv'
    BY <1>1, <1>2, <2>1 DEF SlotInv, KeepsSlot, OnePost
  <2>3. WakeInv'
    <3>1. CASE flying
      <4>1. wake' = ReplyPoll /\ wake' <= Most(ReplyPoll, Retry) - free'
        BY <3>1, <2>1, <1>1, Delays
      <4> QED BY <4>1, <1>1, LoopWakes, PosterWidths
    <3>2. CASE ~flying
      BY <3>2, <2>1, <1>1, <1>2, <1>4, LoopWakes, Delays
    <3> QED BY <3>1, <3>2
  <2> QED BY <1>1, <1>2, <1>3, <2>1, <2>2, <2>3 DEF PosterInv
<1>5. CASE sending
  <2>1. wake' = IF request' THEN ReplyPoll ELSE SleepUntil(interval - ago')
    BY <1>5 DEF PosterLoop
  <2>2. /\ SlotInv' /\ (age' \in 0 .. Deadline) /\ request' \in BOOLEAN /\ started' \in BOOLEAN
    <3>1. CASE ~started /\ Start(flying)
      <4>1. started' = TRUE /\ (ago' \in 1 .. interval) /\ slot' = (ago' % interval) /\ posts' = 0
            /\ request' = flying /\ UNCHANGED age
        BY <3>1 DEF Start
      <4>2. ago' \in Nat
        BY <4>1, <1>2
      <4>3. (ago' % interval) \in 0 .. interval - 1
        BY <4>2, <1>2, NextInSlot
      <4>4. SlotInv'
        <5>1. /\ interval' = interval /\ interval \in Intervals /\ posts' = 0 /\ ago' \in Nat
              /\ slot' = (ago' % interval) /\ (slot' \in 0 .. interval - 1)
          BY <4>1, <4>2, <4>3, <1>1, <1>2 DEF SlotInv
        <5> QED BY <5>1 DEF SlotInv, KeepsSlot, OnePost
      <4> QED BY <4>1, <4>4, <1>2, <1>3
    <3>2. CASE started /\ ago < interval /\ request' = flying
               /\ UNCHANGED <<started, ago, age, slot, posts>>
      BY <3>2, <1>1, <1>2, <1>3 DEF SlotInv, KeepsSlot, OnePost
    <3>3. CASE started /\ ago >= interval /\ ago' = Slotted(ago)
               /\ Post(flying) /\ UNCHANGED <<started, slot>>
      <4>1. ago' = (ago % interval)
        BY <3>3 DEF Slotted
      <4>2. /\ (ago % interval) \in 0 .. interval - 1
            /\ ((ago % interval) % interval) = (ago % interval)
        BY <1>2, NextInSlot
      <4>3. posts = 0
        BY <3>3, <1>2 DEF SlotInv, OnePost
      <4>4. /\ request' \in BOOLEAN /\ (age' \in 0 .. Deadline) /\ posts' \in Nat /\ posts' <= 1
        <5> HIDE DEF flying
        <5>1. Post(flying)
          BY <3>3
        <5>2. request' \in BOOLEAN /\ (age' = age \/ age' = 0) /\ (posts' = posts \/ posts' = posts + 1)
          BY <5>1 DEF Post
        <5> QED BY <5>2, <4>3, <1>2, PosterWidths
      <4>5. slot = (ago % interval)
        BY <3>3, <1>2 DEF SlotInv, KeepsSlot
      <4> HIDE DEF flying
      <4>6. ago' \in Nat /\ ago' < interval /\ (ago' % interval) = slot'
        BY <4>1, <4>2, <4>5, <3>3, <1>2
      <4>7. SlotInv'
        BY <3>3, <4>4, <4>6, <1>1, <1>2 DEF SlotInv, KeepsSlot, OnePost
      <4> QED BY <3>3, <4>4, <4>7
    <3> QED BY <1>5, <3>1, <3>2, <3>3 DEF PosterLoop
  <2>3. WakeInv'
    <3>1. interval' \in Nat /\ ago' \in Nat
      BY <1>1, <1>2, <2>2 DEF SlotInv
    <3>2. CASE request'
      <4>1. wake' = ReplyPoll /\ wake' <= Most(ReplyPoll, Retry) - free'
        BY <3>2, <2>1, <1>1, Delays
      <4> QED BY <4>1, <1>1, LoopWakes, PosterWidths
    <3>3. CASE ~request'
      <4>1. wake' = SleepUntil(interval - ago') /\ interval - ago' \in Int
        BY <3>1, <3>3, <2>1, <1>2
      <4>2. /\ wake' \in Nat /\ wake' < Asleep
            /\ wake' <= interval - ago' \/ wake' <= Retry
        BY <4>1, SleepsInTime
      <4>3. wake' <= interval' - ago' \/ wake' <= Most(ReplyPoll, Retry) - free'
        BY <4>2, <1>1, Delays, PosterWidths
      <4> QED BY <4>2, <4>3, <1>1, LoopWakes
    <3> QED BY <2>2, <3>2, <3>3
  <2> QED BY <1>1, <1>2, <2>2, <2>3 DEF PosterInv
<1> QED BY <1>2, <1>4, <1>5

LEMMA DeferHolds == ASSUME PosterInv, Defer PROVE PosterInv'
<1>1. /\ (wake' \in 1 .. Retry) /\ ~gate
      /\ UNCHANGED <<interval, sending, started, ago, request, age, gate, slot, posts, free>>
  BY DEF Defer
<1>2. /\ wake' \in Int /\ wake' >= 1 /\ wake' <= Retry
      /\ gate \in BOOLEAN /\ ClosedGate /\ (free \in 0 .. Slack + 1)
  BY <1>1, PosterWidths DEF PosterInv, WakeInv
<1>3. free' = 0 /\ gate' = FALSE /\ free = 0
  BY <1>1, <1>2 DEF ClosedGate
<1>4. DueInTime'
  BY <1>2, <1>3, Delays, PosterWidths DEF DueInTime
<1>5. (wake' \in -Late .. Asleep) /\ (free' \in 0 .. Slack + 1)
  BY <1>1, <1>2, Delays, PosterWidths
<1>6. WakeInv'
  BY <1>2, <1>3, <1>4, <1>5, Delays, PosterWidths DEF WakeInv, LetsGo, ClosedGate
<1>7. SlotInv'
  BY <1>1 DEF PosterInv, SlotInv, KeepsSlot, OnePost
<1> QED BY <1>1, <1>6, <1>7 DEF PosterInv

LEMMA GateHolds == ASSUME PosterInv, Gate PROVE PosterInv'
<1>1. /\ gate' = ~gate /\ free' = 0
      /\ UNCHANGED <<interval, sending, started, ago, request, age, wake, slot, posts>>
  BY DEF Gate
<1>2. (free \in 0 .. Slack + 1) /\ DueInTime /\ (wake \in -Late .. Asleep) /\ LetsGo
      /\ interval \in Nat /\ ago \in Nat
  BY PosterWidths DEF PosterInv, WakeInv, SlotInv
<1>3. DueInTime'
  BY <1>1, <1>2, Delays DEF DueInTime
<1>4. WakeInv'
  BY <1>1, <1>2, <1>3, Delays DEF WakeInv, LetsGo, ClosedGate
<1>5. SlotInv'
  BY <1>1 DEF PosterInv, SlotInv, KeepsSlot, OnePost
<1> QED BY <1>1, <1>4, <1>5 DEF PosterInv

LEMMA OneLess ==
  ASSUME NEW w \in Int, NEW i \in Int, NEW a \in Int, NEW b \in Int, b <= a + 1, w <= i - a
  PROVE  w - 1 <= i - b
OBVIOUS

LEMMA PosterTickHolds == ASSUME PosterInv, Tick PROVE PosterInv'
<1>1. UNCHANGED <<interval, sending, started, request, gate>>
  BY DEF Tick
<1>2. /\ interval \in Intervals /\ interval \in Nat /\ interval # 0 /\ ago \in Nat /\ posts \in Nat
      /\ (slot \in 0 .. interval - 1) /\ slot \in Nat /\ slot < interval
      /\ (started => (ago % interval) = slot /\ posts <= 1) /\ OnePost
      /\ (wake \in -Late .. Asleep) /\ wake \in Int /\ (free \in 0 .. Slack + 1) /\ free \in Nat
      /\ DueInTime /\ LetsGo /\ ClosedGate /\ (age \in 0 .. Deadline)
      /\ sending \in BOOLEAN /\ started \in BOOLEAN /\ request \in BOOLEAN /\ gate \in BOOLEAN
  BY PosterWidths, Delays DEF PosterInv, WakeInv, SlotInv, KeepsSlot
<1>3. /\ ago' = IF ~started THEN ago
                ELSE IF ago + 1 >= Missed * interval THEN ago + 1 - interval ELSE ago + 1
      /\ slot' = ((slot + 1) % interval)
      /\ posts' = IF slot + 1 >= interval THEN 0 ELSE posts
  BY DEF Tick
<1>4. Missed * interval >= interval /\ Missed * interval \in Nat
  BY <1>2, ManyIntervals, PosterWidths
<1>5. ago' \in Nat
  BY <1>2, <1>3, <1>4
<1>6. (slot' \in 0 .. interval - 1)
  <2>1. slot + 1 \in Nat
    BY <1>2
  <2> QED BY <2>1, <1>2, <1>3, NextInSlot
<1>7. started => (ago' % interval) = slot'
  <2> SUFFICES ASSUME started PROVE (ago' % interval) = slot'
    OBVIOUS
  <2>1. ((ago + 1) % interval) = slot'
    <3>1. ((ago + 1) % interval) = (((ago % interval) + 1) % interval)
      BY <1>2, NextInSlot
    <3>2. (ago % interval) = slot
      BY <1>2
    <3> QED BY <3>1, <3>2, <1>3
  <2>2. CASE ago' = ago + 1
    BY <2>1, <2>2
  <2>3. CASE ago' = (ago + 1) - interval /\ ago + 1 >= interval
    <3>1. ago + 1 \in Nat
      BY <1>2
    <3> QED BY <2>1, <2>3, <3>1, <1>2, IntervalOff
  <2> QED BY <2>2, <2>3, <1>2, <1>3, <1>4
<1>8. started => posts' <= 1 /\ (posts' # 0 => ago' < interval)
  <2> SUFFICES ASSUME started, posts' # 0 PROVE posts' <= 1 /\ ago' < interval
    BY <1>3, <1>2
  <2>1. slot + 1 < interval /\ posts' = posts
    BY <1>2, <1>3
  <2>2. ago < interval
    BY <1>2, <2>1 DEF OnePost
  <2>3. (ago % interval) = ago
    BY <1>2, <2>2, NextInSlot
  <2>4. ago + 1 < interval
    BY <1>2, <2>1, <2>3
  <2> QED BY <2>1, <2>4, <1>2, <1>3, <1>4
<1>9. SlotInv'
  BY <1>1, <1>2, <1>3, <1>5, <1>6, <1>7, <1>8 DEF SlotInv, KeepsSlot, OnePost
<1>10. (age' \in 0 .. Deadline)
  BY <1>2, PosterWidths DEF Tick, Least
<1>11. /\ free' = IF gate /\ ~request /\ sending THEN Least(free + 1, Slack + 1) ELSE 0
       /\ wake' = IF wake = Asleep THEN Asleep ELSE wake - 1
       /\ wake = Asleep \/ wake > -Late
  BY <1>2, PosterWidths DEF Tick
<1>12. (free' \in 0 .. Slack + 1) /\ (free' <= free + 1) /\ (free' = 0 \/ gate)
       /\ (free = Slack + 1 \/ free' = free + 1 \/ free' = 0)
  BY <1>2, <1>11, Delays DEF Least
<1>13. (wake' \in -Late .. Asleep)
  BY <1>2, <1>11, Delays, PosterWidths
<1>14. LetsGo'
  BY <1>1, <1>2, <1>11 DEF LetsGo
<1>15. DueInTime'
  <2> SUFFICES ASSUME started, sending
               PROVE  wake' <= interval - ago' \/ wake' <= Most(ReplyPoll, Retry) - free'
    BY <1>1 DEF DueInTime
  <2>1. wake' = wake - 1
    BY <1>2, <1>11 DEF LetsGo
  <2>2. ago' <= ago + 1
    BY <1>2, <1>3
  <2>3. CASE wake <= interval - ago
    <3>1. ago' \in Int /\ ago \in Int /\ interval \in Int /\ wake \in Int
      BY <1>2, <1>5
    <3>2. wake - 1 <= interval - ago'
      BY <2>2, <2>3, <3>1, OneLess
    <3> QED BY <2>1, <3>2
  <2>4. CASE wake <= Most(ReplyPoll, Retry) - free
    <3> DEFINE delay == Most(ReplyPoll, Retry)
    <3>1. delay \in Int /\ free \in Int /\ free' \in Int /\ wake \in Int /\ free' <= free + 1
      BY <1>2, <1>12, Delays
    <3>2. wake <= delay - free
      BY <2>4
    <3> HIDE DEF delay
    <3>3. wake - 1 <= delay - free'
      BY <3>1, <3>2, OneLess
    <3> QED BY <2>1, <3>3 DEF delay
  <2> QED BY <2>3, <2>4, <1>2 DEF DueInTime
<1>16. ClosedGate'
  BY <1>1, <1>12 DEF ClosedGate
<1>17. WakeInv'
  BY <1>12, <1>13, <1>14, <1>15, <1>16 DEF WakeInv
<1> QED BY <1>1, <1>2, <1>9, <1>10, <1>17 DEF PosterInv

\* EGHttpPoster: the inductive invariant. The time since the last ping and the slot agree
\* but for whole intervals, and the loop is due when the slot ends or before.
THEOREM PosterInductive == PosterSpec => []PosterInv
<1>1. PosterInit => PosterInv
  <2> SUFFICES ASSUME PosterInit PROVE PosterInv
    OBVIOUS
  <2>1. /\ interval \in Intervals /\ interval \in Nat /\ interval # 0
        /\ ago = 0 /\ age = 0 /\ slot = 0 /\ posts = 0 /\ free = 0
        /\ started = FALSE /\ request = FALSE /\ gate = FALSE /\ sending \in BOOLEAN
        /\ wake = (IF sending THEN ReplyPoll ELSE Asleep)
    BY PosterWidths DEF PosterInit
  <2>2. SlotInv
    BY <2>1 DEF SlotInv, KeepsSlot, OnePost
  <2>3. WakeInv
    BY <2>1, PosterWidths, Delays DEF WakeInv, DueInTime, LetsGo, ClosedGate
  <2>4. started \in BOOLEAN /\ request \in BOOLEAN /\ gate \in BOOLEAN
    BY DEF PosterInit
  <2>5. age = 0
    BY DEF PosterInit
  <2>6. (age \in 0 .. Deadline)
    BY <2>5, PosterWidths
  <2> QED BY <2>1, <2>2, <2>3, <2>4, <2>6 DEF PosterInv
<1>2. PosterInv /\ [PosterNext]_posterVars => PosterInv'
  <2> SUFFICES ASSUME PosterInv, [PosterNext]_posterVars PROVE PosterInv'
    OBVIOUS
  <2>1. CASE UNCHANGED posterVars
    BY <2>1 DEF posterVars, PosterInv, WakeInv, SlotInv, KeepsSlot, OnePost, DueInTime, LetsGo,
                ClosedGate
  <2>2. CASE PosterNext
    BY <2>2, PrefsLoadedHolds, PosterLoopHolds, DeferHolds, GateHolds, PosterTickHolds
    DEF PosterNext
  <2> QED BY <2>1, <2>2
<1> QED BY <1>1, <1>2, PTL DEF PosterSpec

\* EGHttpPoster: for any intervals, naps and polls, a post keeps to the slot it was given and
\* has it for itself, no slot is slept through while nothing hinders a post, and a poster
\* that is switched off sleeps when its last reply is in.
THEOREM PostsForAll == PosterSpec => []PostsKeepTheirSlot
<1>1. PosterInv => PostsKeepTheirSlot
  <2> SUFFICES ASSUME PosterInv PROVE PostsKeepTheirSlot
    OBVIOUS
  <2>1. NotOverslept
    <3> SUFFICES ASSUME started, sending, ago > interval + Slack PROVE free <= Slack
      BY DEF NotOverslept
    <3>1. /\ wake \in Int /\ wake >= -Late /\ free \in Nat /\ ago \in Nat /\ interval \in Nat
          /\ DueInTime
      BY PosterWidths, Delays DEF PosterInv, WakeInv, SlotInv
    <3>2. ~(wake <= interval - ago)
      BY <3>1, Delays, PosterWidths
    <3>3. wake <= Most(ReplyPoll, Retry) - free
      BY <3>1, <3>2 DEF DueInTime
    <3> QED BY <3>1, <3>3, Delays, PosterWidths
  <2> QED BY <2>1 DEF PosterInv, WakeInv, SlotInv, PostsKeepTheirSlot
<1> QED BY <1>1, PosterInductive, PTL

(***************************************************************************)
(* The pin of the tube                                                     *)
(***************************************************************************)
\* While the clock has not gone round since the last count, it is that much on from it.
SinceBlip ==
  gap < MicrosWrap => us = last_blip + gap \/ us = (last_blip + gap) - MicrosWrap

TubeInv ==
  /\ TubeTypeOK
  /\ attached \in BOOLEAN /\ ota \in BOOLEAN /\ early \in BOOLEAN /\ deaf \in BOOLEAN
  /\ stage \in {"rest", "read", "cleared"} /\ seen \in Nat /\ loud \in Nat
  /\ SinceBlip /\ PulsesAreCounted

LEMMA TubeWidths ==
  /\ MicrosWrap \in Nat /\ MicrosWrap # 0 /\ Debounce \in Nat /\ Debounce <= MicrosWrap
  /\ Threshold \in Nat /\ Cooldown \in Nat /\ Cooldown # 0
BY InputAssumption DEF InputAssumption

\* The interrupt's difference of times is the time since the last count.
LEMMA GapShows ==
  ASSUME TubeInv, gap < MicrosWrap
  PROVE  ((us - last_blip) % MicrosWrap) = gap
<1>1. /\ us \in Int /\ last_blip \in Int /\ gap \in Nat /\ MicrosWrap \in Nat /\ MicrosWrap # 0
      /\ gap \in 0 .. MicrosWrap - 1 /\ us - last_blip \in Int
  BY TubeWidths DEF TubeInv, TubeTypeOK
<1>2. CASE us = last_blip + gap
  <2>1. us - last_blip = MicrosWrap * 0 + gap
    BY <1>1, <1>2
  <2> QED BY <1>1, <2>1, RestOf
<1>3. CASE us = (last_blip + gap) - MicrosWrap
  <2>1. us - last_blip = MicrosWrap * (-1) + gap
    BY <1>1, <1>3
  <2>2. -1 \in Int
    OBVIOUS
  <2> QED BY <1>1, <2>1, <2>2, RestOf
<1> QED BY <1>2, <1>3 DEF TubeInv, SinceBlip

LEMMA TimeHolds == ASSUME TubeInv, Time PROVE TubeInv'
<1>1. /\ us' = ((us + 1) % MicrosWrap) /\ gap' = (IF gap < MicrosWrap THEN gap + 1 ELSE gap)
      /\ UNCHANGED <<last_blip, attached, entries, cooldown, stage, seen, ota, early, deaf, loud>>
  BY DEF Time
<1>2. /\ us \in Nat /\ us < MicrosWrap /\ last_blip \in Nat /\ gap \in Nat /\ gap <= MicrosWrap
      /\ MicrosWrap \in Nat /\ MicrosWrap # 0
  BY TubeWidths DEF TubeInv, TubeTypeOK
<1>3. \/ us' = us + 1 /\ us + 1 < MicrosWrap
      \/ us' = 0 /\ us + 1 = MicrosWrap
  <2>1. CASE us + 1 < MicrosWrap
    <3>1. us + 1 \in 0 .. MicrosWrap - 1 /\ us + 1 \in Int /\ us + 1 = MicrosWrap * 0 + (us + 1)
      BY <1>2, <2>1
    <3>2. ((us + 1) % MicrosWrap) = us + 1
      BY <3>1, <1>2, RestOf
    <3> QED BY <3>2, <1>1, <2>1
  <2>2. CASE us + 1 = MicrosWrap
    <3>1. 0 \in 0 .. MicrosWrap - 1 /\ us + 1 \in Int /\ us + 1 = MicrosWrap * 1 + 0
      BY <1>2, <2>2
    <3>2. ((us + 1) % MicrosWrap) = 0
      BY <3>1, <1>2, RestOf
    <3> QED BY <3>2, <1>1, <2>2
  <2> QED BY <2>1, <2>2, <1>2
<1>4. (us' \in 0 .. MicrosWrap - 1) /\ (gap' \in 0 .. MicrosWrap)
  BY <1>1, <1>2, <1>3
<1>5. SinceBlip'
  <2> SUFFICES ASSUME gap' < MicrosWrap
               PROVE  us' = last_blip + gap' \/ us' = (last_blip + gap') - MicrosWrap
    BY <1>1 DEF SinceBlip
  <2>1. gap < MicrosWrap /\ gap' = gap + 1
    BY <1>1, <1>2
  <2>2. us = last_blip + gap \/ us = (last_blip + gap) - MicrosWrap
    BY <2>1 DEF TubeInv, SinceBlip
  <2>3. CASE us' = us + 1
    BY <2>1, <2>2, <2>3, <1>2
  <2>4. CASE us' = 0 /\ us + 1 = MicrosWrap
    <3>1. us = last_blip + gap
      BY <2>1, <2>2, <2>4, <1>1, <1>2 DEF TubeInv, TubeTypeOK
    <3> QED BY <3>1, <2>1, <2>4, <1>2
  <2> QED BY <2>3, <2>4, <1>3
<1>6. TubeTypeOK'
  BY <1>1, <1>4 DEF TubeInv, TubeTypeOK
<1>7. PulsesAreCounted'
  BY <1>1 DEF TubeInv, PulsesAreCounted, CountsByTheDebounce, StaysWatched
<1> QED BY <1>1, <1>5, <1>6, <1>7 DEF TubeInv

LEMMA EdgeHolds == ASSUME TubeInv, Edge PROVE TubeInv'
<1>1. /\ entries' = (IF entries > Threshold THEN entries ELSE entries + 1)
      /\ UNCHANGED <<us, attached, cooldown, stage, seen, ota, loud>>
  BY DEF Edge
<1>2. /\ us \in Nat /\ us < MicrosWrap /\ gap \in Nat /\ gap <= MicrosWrap
      /\ (us \in 0 .. MicrosWrap - 1) /\ (gap \in 0 .. MicrosWrap) /\ (last_blip \in 0 .. MicrosWrap - 1)
      /\ MicrosWrap \in Nat /\ MicrosWrap # 0 /\ Debounce \in Nat /\ Debounce <= MicrosWrap
      /\ ~early /\ ~deaf
  BY TubeWidths DEF TubeInv, TubeTypeOK, PulsesAreCounted, CountsByTheDebounce
<1>3. (entries' \in 0 .. Threshold + 1)
  BY <1>1, TubeWidths DEF TubeInv, TubeTypeOK
<1>4. gap < MicrosWrap => (Bounce(us) <=> gap < Debounce)
  BY GapShows DEF Bounce
<1>5. CASE Bounce(us)
  <2>1. UNCHANGED <<last_blip, gap, early>> /\ deaf' = (deaf \/ (gap \in Debounce .. MicrosWrap - 1))
    BY <1>5 DEF Edge
  <2>2. (gap \notin Debounce .. MicrosWrap - 1)
    BY <1>2, <1>4, <1>5
  <2>3. deaf' = FALSE /\ early' = FALSE
    BY <2>1, <2>2, <1>2 DEF TubeInv
  <2> QED BY <1>1, <1>2, <1>3, <2>1, <2>3
          DEF TubeInv, TubeTypeOK, SinceBlip, PulsesAreCounted, CountsByTheDebounce, StaysWatched
<1>6. CASE ~Bounce(us)
  <2>1. last_blip' = us /\ gap' = 0 /\ early' = (early \/ gap < Debounce) /\ deaf' = deaf
    BY <1>6 DEF Edge
  <2>2. ~(gap < Debounce)
    BY <1>2, <1>4, <1>6
  <2>3. deaf' = FALSE /\ early' = FALSE
    BY <2>1, <2>2, <1>2 DEF TubeInv
  <2>4. us' = last_blip' + gap'
    BY <1>1, <1>2, <2>1
  <2>5. (gap' \in 0 .. MicrosWrap) /\ (last_blip' \in 0 .. MicrosWrap - 1)
    BY <1>2, <2>1
  <2>6. SinceBlip'
    BY <2>4 DEF SinceBlip
  <2> QED BY <1>1, <1>2, <1>3, <2>3, <2>5, <2>6
          DEF TubeInv, TubeTypeOK, PulsesAreCounted, CountsByTheDebounce, StaysWatched
<1> QED BY <1>5, <1>6

\* The tick, and an update, leave the clock and the last count alone.
LEMMA TubeKept ==
  ASSUME TubeInv, UNCHANGED tube, (entries' \in 0 .. Threshold + 1), (cooldown' \in 0 .. Cooldown),
         attached' \in BOOLEAN, ota' \in BOOLEAN, stage' \in {"rest", "read", "cleared"},
         seen' \in Nat, loud' \in Nat, StaysWatched'
  PROVE  TubeInv'
<1>1. UNCHANGED <<us, last_blip, gap, early, deaf>>
  BY DEF tube
<1>2. TubeTypeOK' /\ SinceBlip' /\ CountsByTheDebounce'
  BY <1>1 DEF TubeInv, TubeTypeOK, SinceBlip, PulsesAreCounted, CountsByTheDebounce
<1> QED BY <1>1, <1>2 DEF TubeInv, PulsesAreCounted

LEMMA GuardReads == ASSUME TubeInv, Read \/ Clear PROVE TubeInv'
<1>1. UNCHANGED <<tube, attached, cooldown, ota, loud>>
  BY DEF Read, Clear
<1>2. (entries' \in 0 .. Threshold + 1) /\ seen' \in Nat
  <2>1. (entries \in 0 .. Threshold + 1) /\ entries \in Nat /\ seen \in Nat
    BY TubeWidths DEF TubeInv, TubeTypeOK
  <2> QED BY <2>1, TubeWidths DEF Read, Clear
<1>3. stage' \in {"rest", "read", "cleared"}
  BY DEF Read, Clear
<1>4. StaysWatched'
  BY <1>1 DEF TubeInv, PulsesAreCounted, StaysWatched
<1> QED BY <1>1, <1>2, <1>3, <1>4, TubeKept DEF TubeInv, TubeTypeOK

LEMMA CoolsDown ==
  ASSUME NEW c \in Nat, NEW l \in Nat, NEW k \in Nat, NEW m \in Nat, c > 0, k <= l + 1, l + c <= m
  PROVE  c - 1 \in Nat /\ c - 1 <= m /\ k + (c - 1) <= m /\ (c # 1 => c - 1 > 0)
OBVIOUS

LEMMA DecideHolds == ASSUME TubeInv, Decide PROVE TubeInv'
<1>1. stage' = "rest" /\ UNCHANGED <<tube, entries, seen, ota>>
  BY DEF Decide
<1>2. /\ attached \in BOOLEAN /\ cooldown \in Nat /\ cooldown <= Cooldown /\ Cooldown \in Nat
      /\ Cooldown # 0 /\ loud \in Nat /\ loud + cooldown <= Cooldown /\ seen \in Nat
      /\ Threshold \in Nat /\ (attached \/ ota \/ cooldown > 0)
  BY TubeWidths DEF TubeInv, TubeTypeOK, PulsesAreCounted, StaysWatched
<1>3. loud' = IF attached /\ attached' /\ seen > Threshold THEN loud + 1 ELSE 0
  BY DEF Decide
<1>4. /\ (cooldown' \in 0 .. Cooldown) /\ attached' \in BOOLEAN /\ loud' \in Nat
      /\ attached' \/ ota \/ cooldown' > 0
      /\ loud' + cooldown' <= Cooldown
  <2>1. CASE cooldown > 0
    <3>1. cooldown' = cooldown - 1 /\ attached' = (attached \/ cooldown = 1)
      BY <2>1 DEF Decide, Ends
    <3>2. loud' \in Nat /\ loud' <= loud + 1
      BY <1>2, <1>3
    <3>3. /\ cooldown - 1 \in Nat /\ cooldown - 1 <= Cooldown /\ loud' + (cooldown - 1) <= Cooldown
          /\ cooldown # 1 => cooldown - 1 > 0
      BY <1>2, <2>1, <3>2, CoolsDown
    <3>4. cooldown' \in Nat /\ cooldown' <= Cooldown /\ loud' + cooldown' <= Cooldown
      BY <3>1, <3>3
    <3>5. attached' \/ cooldown' > 0
      BY <3>1, <3>3
    <3>6. attached' \in BOOLEAN
      BY <1>2, <3>1
    <3>7. (cooldown' \in 0 .. Cooldown)
      BY <3>4, <1>2
    <3> QED BY <3>2, <3>4, <3>5, <3>6, <3>7
  <2>2. CASE ~(cooldown > 0)
    <3>1. cooldown = 0
      BY <1>2, <2>2
    <3>2. /\ cooldown' = (IF seen > Threshold THEN Cooldown ELSE 0)
          /\ attached' = (attached /\ seen <= Threshold)
      BY <2>2 DEF Decide
    <3>3. CASE seen > Threshold
      <4>1. cooldown' = Cooldown
        BY <3>2, <3>3
      <4>2. ~(seen <= Threshold)
        BY <3>3, <1>2
      <4>3. attached' = FALSE
        BY <3>2, <4>2
      <4>4. loud' = 0
        BY <1>3, <4>3
      <4>5. cooldown' > 0 /\ (cooldown' \in 0 .. Cooldown) /\ loud' + cooldown' <= Cooldown
        BY <4>1, <4>4, <1>2
      <4> QED BY <4>3, <4>4, <4>5
    <3>4. CASE ~(seen > Threshold)
      <4>1. seen <= Threshold
        BY <3>4, <1>2
      <4>2. cooldown' = 0 /\ attached' = attached
        BY <3>2, <3>4, <4>1, <1>2
      <4>3. loud' = 0
        BY <1>3, <3>4
      <4>4. (cooldown' \in 0 .. Cooldown) /\ loud' + cooldown' <= Cooldown
        BY <4>2, <4>3, <1>2
      <4>5. attached' \/ ota
        BY <4>2, <3>1, <1>2
      <4> QED BY <4>2, <4>3, <4>4, <4>5, <1>2
    <3> QED BY <3>3, <3>4
  <2> QED BY <2>1, <2>2
<1>5. StaysWatched'
  BY <1>1, <1>4 DEF StaysWatched
<1>6. (entries' \in 0 .. Threshold + 1) /\ ota' \in BOOLEAN /\ seen' \in Nat
  BY <1>1 DEF TubeInv, TubeTypeOK
<1> QED BY <1>1, <1>4, <1>5, <1>6, TubeKept

LEMMA UpdateHolds == ASSUME TubeInv, Stop \/ RestartAfterOTA PROVE TubeInv'
<1>1. /\ UNCHANGED <<tube, entries, cooldown, stage, seen, loud>>
      /\ ota' \in BOOLEAN /\ attached' \in BOOLEAN
      /\ ota' \/ attached'
  BY DEF Stop, RestartAfterOTA
<1>2. StaysWatched'
  BY <1>1 DEF TubeInv, PulsesAreCounted, StaysWatched
<1>3. /\ (entries' \in 0 .. Threshold + 1) /\ (cooldown' \in 0 .. Cooldown) /\ seen' \in Nat
      /\ loud' \in Nat /\ stage' \in {"rest", "read", "cleared"}
  BY <1>1 DEF TubeInv, TubeTypeOK
<1> QED BY <1>1, <1>2, <1>3, TubeKept

\* GeigerInput: the inductive invariant. The clock says how long ago the last count was,
\* but for whole rounds of it, and a pin without its interrupt waits for something.
THEOREM TubeInductive == TubeSpec => []TubeInv
<1>1. TubeInit => TubeInv
  <2> SUFFICES ASSUME TubeInit PROVE TubeInv
    OBVIOUS
  <2>1. /\ (us \in 0 .. MicrosWrap - 1) /\ last_blip = us /\ gap = 0 /\ entries = 0
        /\ cooldown = 0 /\ seen = 0 /\ loud = 0
    BY DEF TubeInit
  <2>2. (gap \in 0 .. MicrosWrap) /\ (entries \in 0 .. Threshold + 1) /\ (cooldown \in 0 .. Cooldown)
    BY <2>1, TubeWidths
  <2>3. TubeTypeOK
    BY <2>1, <2>2 DEF TubeTypeOK
  <2>4. us = last_blip + gap /\ loud + cooldown <= Cooldown
    BY <2>1, TubeWidths
  <2>5. SinceBlip /\ PulsesAreCounted
    BY <2>4 DEF TubeInit, SinceBlip, PulsesAreCounted, CountsByTheDebounce, StaysWatched
  <2> QED BY <2>3, <2>5 DEF TubeInv, TubeInit
<1>2. TubeInv /\ [TubeNext]_inputVars => TubeInv'
  <2> SUFFICES ASSUME TubeInv, [TubeNext]_inputVars PROVE TubeInv'
    OBVIOUS
  <2>1. CASE UNCHANGED inputVars
    BY <2>1 DEF inputVars, TubeInv, TubeTypeOK, SinceBlip, PulsesAreCounted, CountsByTheDebounce,
                StaysWatched
  <2>2. CASE TubeNext
    BY <2>2, TimeHolds, EdgeHolds, GuardReads, DecideHolds, UpdateHolds DEF TubeNext
  <2> QED BY <2>1, <2>2
<1> QED BY <1>1, <1>2, PTL DEF TubeSpec

\* GeigerInput: for any width of the clock, any debounce, threshold and cooldown, edges count
\* by the debounce, and an input that was parked or taken by an update comes back.
THEOREM PulsesForAll == TubeSpec => []PulsesAreCounted
<1>1. TubeInv => PulsesAreCounted
  BY DEF TubeInv
<1> QED BY <1>1, TubeInductive, PTL

(***************************************************************************)
(* The pin that shows clicks                                               *)
(***************************************************************************)
\* What is lit is a pulse that the ticker ends, or a fade, which it works off while the mode is
\* still that.
LitInv ==
  /\ phases # 0 => busy
  /\ lit => phases # 0 \/ (bright # 0 /\ (cut \/ (mode = "fade" /\ busy)))

BlipInv ==
  /\ BlipTypeOK
  /\ ms \in Nat /\ last_token \in Nat /\ taken \in Nat /\ next \in Nat
  /\ asked \in BOOLEAN /\ busy \in BOOLEAN /\ lit \in BOOLEAN /\ cut \in BOOLEAN
  /\ LitInv /\ WithinTheRate

LEMMA BlipWidths ==
  /\ Interval \in Nat /\ Interval # 0 /\ Bright \in Nat /\ Bright # 0
  /\ Tokens \in Nat /\ Backlog \in Nat /\ PulseMs \in Nat /\ FadeMs \in Nat /\ MaxMs \in Nat
BY BlipAssumption DEF BlipAssumption

LEMMA MsHolds == ASSUME BlipInv, Ms PROVE BlipInv'
<1>1. ms' = ms + 1 /\ UNCHANGED <<last_token, tokens, asked, engine, taken>>
  BY DEF Ms
<1>2. UNCHANGED <<mode, phases, next, bright, busy, lit, cut>>
  BY <1>1 DEF engine
<1>3. ms' \in Nat /\ last_token' <= ms'
  BY <1>1 DEF BlipInv, BlipTypeOK
<1>4. BlipTypeOK'
  BY <1>1, <1>2, <1>3 DEF BlipInv, BlipTypeOK
<1>5. LitInv' /\ WithinTheRate'
  BY <1>1, <1>2 DEF BlipInv, LitInv, WithinTheRate
<1> QED BY <1>1, <1>2, <1>3, <1>4, <1>5 DEF BlipInv

LEMMA SetModeHolds == ASSUME BlipInv, NEW m \in Modes, SetMode(m) PROVE BlipInv'
<1>1. /\ mode' = m /\ cut' = (cut \/ (bright > 0 /\ lit))
      /\ UNCHANGED <<ms, last_token, tokens, asked, phases, next, bright, busy, lit, taken>>
  BY DEF SetMode
<1>2. cut' \in BOOLEAN
  BY <1>1 DEF BlipInv
<1>3. lit' /\ bright' # 0 => cut'
  <2>1. bright # 0 => bright > 0
    BY BlipWidths DEF BlipInv, BlipTypeOK
  <2> QED BY <1>1, <2>1
<1>4. LitInv'
  BY <1>1, <1>3 DEF BlipInv, LitInv
<1>5. BlipTypeOK' /\ WithinTheRate'
  BY <1>1 DEF BlipInv, BlipTypeOK, WithinTheRate
<1> QED BY <1>1, <1>2, <1>4, <1>5 DEF BlipInv

\* What is gained fits the time gone by and the room that is left.
LEMMA GainedFits ==
  ASSUME BlipInv
  PROVE  /\ Gained \in Nat /\ tokens + Gained <= Tokens
         /\ Gained * Interval \in Nat
         /\ Refilled = last_token + Gained * Interval /\ Refilled <= ms
<1> DEFINE since_last == ms - last_token
           q == since_last \div Interval
<1>1. /\ since_last \in Nat /\ Interval \in Nat /\ Interval # 0 /\ tokens \in Nat /\ Tokens \in Nat
      /\ tokens <= Tokens /\ ms \in Nat /\ last_token \in Nat
  BY BlipWidths DEF BlipInv, BlipTypeOK
<1> HIDE DEF since_last
<1>2. since_last = Interval * q + (since_last % Interval) /\ (since_last % Interval) \in 0 .. Interval - 1
  BY <1>1
<1>3. q \in Nat
  BY <1>1
<1> HIDE DEF q
<1>4. Gained = Fewer(q, Tokens - tokens)
  BY DEF Gained, q, since_last
<1>5. Gained \in Nat /\ Gained <= q /\ Gained <= Tokens - tokens
  BY <1>1, <1>3, <1>4 DEF Fewer
<1>6. Interval * Gained <= Interval * q
  BY <1>1, <1>3, <1>5, TimesGrows
<1>7. Gained * Interval = Interval * Gained /\ Gained * Interval \in Nat /\ Interval * q \in Nat
  BY <1>1, <1>3, <1>5
<1>8. Gained * Interval <= since_last
  BY <1>1, <1>2, <1>6, <1>7
<1>9. last_token + Gained * Interval <= ms
  BY <1>1, <1>7, <1>8 DEF since_last
<1> QED BY <1>1, <1>5, <1>7, <1>9 DEF Refilled

LEMMA NotifyHolds == ASSUME BlipInv, NotifyClick PROVE BlipInv'
<1> DEFINE g == Gained
           r == Refilled
<1>1. /\ tokens \in Nat /\ Tokens \in Nat /\ ms \in Nat /\ last_token \in Nat /\ taken \in Nat
      /\ Interval \in Nat /\ Backlog \in Nat /\ asked \in BOOLEAN
  BY BlipWidths DEF BlipInv, BlipTypeOK
<1>2. g \in Nat /\ tokens + g <= Tokens /\ g * Interval \in Nat /\ r = last_token + g * Interval /\ r <= ms
  BY GainedFits
<1>3. ms' = ms /\ UNCHANGED <<mode, phases, next, bright, busy, lit, cut>>
  BY DEF NotifyClick, engine
<1>4. last_token' = IF ms - r > Backlog THEN ms ELSE r
  BY DEF NotifyClick
<1> DEFINE h == tokens + g
<1>5. \/ h = 0 /\ tokens' = 0 /\ asked' = asked /\ taken' = taken
      \/ h # 0 /\ tokens' = h - 1 /\ asked' = TRUE /\ taken' = taken + 1
  BY DEF NotifyClick
<1> HIDE DEF g, r
<1>h. h \in Nat /\ h <= Tokens /\ h = tokens + g
  BY <1>1, <1>2
<1> HIDE DEF h
<1>6. /\ (tokens' \in 0 .. Tokens) /\ taken' \in Nat /\ asked' \in BOOLEAN
      /\ taken' + tokens' = (taken + tokens) + g
  <2>1. CASE h = 0 /\ tokens' = 0 /\ asked' = asked /\ taken' = taken
    <3>1. tokens = 0 /\ g = 0
      BY <2>1, <1>h, <1>1, <1>2
    <3>2. (0 \in 0 .. Tokens) /\ taken + 0 = (taken + 0) + 0
      BY <1>1
    <3> QED BY <2>1, <3>1, <3>2, <1>1
  <2>2. CASE h # 0 /\ tokens' = h - 1 /\ asked' = TRUE /\ taken' = taken + 1
    <3>1. (h - 1 \in 0 .. Tokens) /\ taken + 1 \in Nat
      BY <2>2, <1>h, <1>1
    <3>2. (taken + 1) + (h - 1) = (taken + tokens) + g
      BY <1>h, <1>1, <1>2
    <3> QED BY <2>2, <3>1, <3>2
  <2> QED BY <2>1, <2>2, <1>5
<1>7. last_token' \in Nat /\ last_token' <= ms' /\ r <= last_token'
  BY <1>1, <1>2, <1>3, <1>4
<1>8. Interval * (taken' + tokens') <= last_token'
  <2>1. Interval * (taken + tokens) <= last_token
    BY DEF BlipInv, WithinTheRate
  <2>2. Interval * ((taken + tokens) + g) = Interval * (taken + tokens) + g * Interval
    BY <1>1, <1>2
  <2>3. Interval * (taken' + tokens') = Interval * (taken + tokens) + g * Interval
    BY <2>2, <1>6, <1>1, <1>2
  <2>4. Interval * (taken + tokens) \in Nat
    BY <1>1
  <2> DEFINE x == Interval * (taken + tokens)
             y == g * Interval
             z == Interval * (taken' + tokens')
  <2>5. x \in Nat /\ y \in Nat /\ z = x + y /\ x <= last_token /\ r = last_token + y
    BY <2>1, <2>3, <2>4, <1>2
  <2> HIDE DEF x, y, z
  <2>6. z <= last_token'
    BY <2>5, <1>1, <1>7
  <2> QED BY <2>6 DEF z
<1>9. BlipTypeOK'
  BY <1>3, <1>6, <1>7 DEF BlipInv, BlipTypeOK
<1>10. LitInv' /\ WithinTheRate'
  BY <1>3, <1>8 DEF BlipInv, LitInv, WithinTheRate
<1> QED BY <1>1, <1>3, <1>6, <1>7, <1>9, <1>10 DEF BlipInv

\* A step of the engine: what is lit is still to be put out by a later one.
LEMMA EngineLit ==
  ASSUME NEW e \in [phases : 0 .. 1, bright : 0 .. Bright, next : Nat, lit : BOOLEAN],
         NEW c \in BOOLEAN, ms \in Nat,
         e.lit => e.phases # 0 \/ (e.bright # 0 /\ (c \/ mode = "fade"))
  PROVE  /\ EngineStepped(e).phases \in 0 .. 1 /\ EngineStepped(e).bright \in 0 .. Bright
         /\ EngineStepped(e).next \in Nat /\ EngineStepped(e).lit \in BOOLEAN
         /\ EngineStepped(e).lit =>
              \/ EngineStepped(e).phases # 0
              \/ EngineStepped(e).bright # 0 /\ (c \/ mode = "fade")
<1> DEFINE f == EngineStepped(e)
<1>1. /\ e.phases \in 0 .. 1 /\ e.bright \in 0 .. Bright /\ e.next \in Nat /\ e.lit \in BOOLEAN
      /\ e.phases \in Nat /\ e.bright \in Nat /\ e.bright <= Bright /\ Bright \in Nat /\ FadeMs \in Nat
  BY BlipWidths
<1>2. CASE f = e
  BY <1>1, <1>2
<1>3. CASE mode = "fade" /\ e.bright > 0 /\ f # e
  <2>1. f = [e EXCEPT !.bright = @ - 1, !.lit = e.bright > 1, !.next = ms + FadeMs]
    BY <1>3 DEF EngineStepped
  <2>2. /\ f.phases = e.phases /\ f.bright = e.bright - 1 /\ f.lit = (e.bright > 1)
        /\ f.next = ms + FadeMs
    BY <2>1
  <2>3. f.bright \in 0 .. Bright /\ (f.lit => f.bright # 0)
    <3> DEFINE k == e.bright
    <3>1. k \in Nat /\ k > 0 /\ k <= Bright /\ Bright \in Nat
      BY <1>1, <1>3
    <3> HIDE DEF k
    <3>2. k - 1 \in 0 .. Bright /\ (k > 1 => k - 1 # 0)
      BY <3>1
    <3> QED BY <2>2, <3>2 DEF k
  <2>4. f.next \in Nat /\ f.lit \in BOOLEAN
    BY <2>2, <1>1
  <2> HIDE DEF f
  <2> QED BY <2>2, <2>3, <2>4, <1>1, <1>3 DEF f
<1>4. CASE ~(mode = "fade" /\ e.bright > 0) /\ f # e
  <2>1. f = [e EXCEPT !.phases = 0, !.lit = FALSE]
    BY <1>4 DEF EngineStepped
  <2>2. f.phases = 0 /\ f.bright = e.bright /\ f.lit = FALSE /\ f.next = e.next
    BY <2>1
  <2>3. f.phases \in 0 .. 1
    BY <2>2
  <2> QED BY <2>2, <2>3, <1>1
<1> QED BY <1>2, <1>3, <1>4

LEMMA PollHolds == ASSUME BlipInv, Poll PROVE BlipInv'
<1> DEFINE Engine == [phases : 0 .. 1, bright : 0 .. Bright, next : Nat, lit : BOOLEAN]
           old == [phases |-> phases, bright |-> bright, next |-> next, lit |-> lit]
           begins == asked /\ phases = 0
           b == IF begins THEN Started ELSE old
           e == EngineStepped(b)
<1>1. /\ phases \in 0 .. 1 /\ bright \in 0 .. Bright /\ next \in Nat /\ lit \in BOOLEAN /\ ms \in Nat
      /\ asked \in BOOLEAN /\ cut \in BOOLEAN /\ mode \in Modes /\ LitInv
      /\ PulseMs \in Nat /\ FadeMs \in Nat /\ Bright \in Nat /\ Bright # 0
  BY BlipWidths DEF BlipInv, BlipTypeOK
<1>2. /\ asked' = FALSE /\ cut' = (cut /\ ~begins)
      /\ UNCHANGED <<ms, last_token, tokens, mode, taken>>
      /\ phases' = e.phases /\ bright' = e.bright /\ next' = e.next /\ lit' = e.lit
      /\ busy' = Busy(mode, e.phases, e.bright)
  BY DEF Poll
<1>3. cut' \in BOOLEAN
  BY <1>1, <1>2
<1>4. b \in Engine /\ (b.lit => b.phases # 0 \/ (b.bright # 0 /\ (cut' \/ mode = "fade")))
  <2>1. CASE ~begins
    <3>1. b = old /\ cut' = cut
      BY <2>1, <1>1, <1>2
    <3>2. old \in Engine
      BY <1>1
    <3> QED BY <3>1, <3>2, <1>1 DEF LitInv
  <2>2. CASE begins
    <3>1. b = Started
      BY <2>2
    <3>2. ms + FadeMs \in Nat /\ ms + PulseMs \in Nat
      BY <1>1
    <3>3. CASE mode = "fade"
      <4>1. b = [phases |-> 0, bright |-> Bright, next |-> ms + FadeMs, lit |-> TRUE]
        BY <3>1, <3>3 DEF Started
      <4> HIDE DEF b
      <4> QED BY <4>1, <3>2, <3>3, <1>1
    <3>4. CASE mode = "burst"
      <4>1. b = [phases |-> 0, bright |-> bright, next |-> next, lit |-> FALSE]
        BY <3>1, <3>4 DEF Started
      <4> HIDE DEF b
      <4> QED BY <4>1, <3>2, <1>1
    <3>5. CASE mode = "pulse"
      <4>1. b = [phases |-> 1, bright |-> bright, next |-> ms + PulseMs, lit |-> TRUE]
        BY <3>1, <3>5 DEF Started
      <4> HIDE DEF b
      <4> QED BY <4>1, <3>2, <1>1
    <3> QED BY <3>3, <3>4, <3>5, <1>1 DEF Modes
  <2> QED BY <2>1, <2>2
<1> HIDE DEF b
<1>5. /\ e.phases \in 0 .. 1 /\ e.bright \in 0 .. Bright /\ e.next \in Nat /\ e.lit \in BOOLEAN
      /\ e.lit => e.phases # 0 \/ (e.bright # 0 /\ (cut' \/ mode = "fade"))
  BY <1>1, <1>3, <1>4, EngineLit
<1> HIDE DEF e
<1>6. busy' = (e.phases > 0 \/ (mode = "fade" /\ e.bright > 0))
  BY <1>2 DEF Busy
<1>7. (e.phases # 0 => e.phases > 0) /\ (e.bright # 0 => e.bright > 0)
  BY <1>1, <1>5
<1>8. LitInv' /\ busy' \in BOOLEAN
  BY <1>2, <1>5, <1>6, <1>7 DEF LitInv
<1>9. BlipTypeOK'
  BY <1>2, <1>5 DEF BlipInv, BlipTypeOK
<1>10. WithinTheRate'
  BY <1>2 DEF BlipInv, WithinTheRate
<1>11. /\ ms' \in Nat /\ last_token' \in Nat /\ taken' \in Nat /\ next' \in Nat
       /\ asked' \in BOOLEAN /\ lit' \in BOOLEAN
  BY <1>2, <1>5 DEF BlipInv
<1> QED BY <1>3, <1>8, <1>9, <1>10, <1>11 DEF BlipInv

\* PulseEngine and PulseOut: the inductive invariant. What is lit is a pulse that counts as
\* busy, or a fade that does so in its mode.
THEOREM BlipInductive == BlipSpec => []BlipInv
<1>1. BlipInit => BlipInv
  <2> SUFFICES ASSUME BlipInit PROVE BlipInv
    OBVIOUS
  <2>1. /\ ms = 0 /\ last_token = 0 /\ tokens = 0 /\ taken = 0 /\ phases = 0 /\ bright = 0
        /\ next = 0 /\ mode \in Modes
    BY DEF BlipInit
  <2>2. /\ (tokens \in 0 .. Tokens) /\ (phases \in 0 .. 1) /\ (bright \in 0 .. Bright)
        /\ last_token <= ms
    BY <2>1, BlipWidths
  <2>3. BlipTypeOK
    BY <2>1, <2>2 DEF BlipTypeOK
  <2>4. WithinTheRate
    <3>1. Interval * (0 + 0) <= 0
      BY BlipWidths
    <3> QED BY <3>1, <2>1 DEF WithinTheRate
  <2>5. LitInv
    BY DEF BlipInit, LitInv
  <2>6. /\ asked \in BOOLEAN /\ busy \in BOOLEAN /\ lit \in BOOLEAN /\ cut \in BOOLEAN
    BY DEF BlipInit
  <2> QED BY <2>1, <2>3, <2>4, <2>5, <2>6 DEF BlipInv
<1>2. BlipInv /\ [BlipNext]_pulseOutVars => BlipInv'
  <2> SUFFICES ASSUME BlipInv, [BlipNext]_pulseOutVars PROVE BlipInv'
    OBVIOUS
  <2>1. CASE UNCHANGED pulseOutVars
    <3>1. UNCHANGED <<ms, last_token, tokens, asked, mode, phases, next, bright, busy, lit, taken, cut>>
      BY <2>1 DEF pulseOutVars
    <3>2. BlipTypeOK' /\ LitInv' /\ WithinTheRate'
      BY <3>1 DEF BlipInv, BlipTypeOK, LitInv, WithinTheRate
    <3> QED BY <3>1, <3>2 DEF BlipInv
  <2>2. CASE BlipNext
    BY <2>2, MsHolds, SetModeHolds, NotifyHolds, PollHolds DEF BlipNext
  <2> QED BY <2>1, <2>2
<1> QED BY <1>1, <1>2, PTL DEF BlipSpec

\* PulseEngine and PulseOut: for any rate, backlog, length and brightness, and settings that
\* change at any moment, what is lit goes out again and no more clicks are let through in the
\* long run than the rate allows.
THEOREM ClicksForAll == BlipSpec => []ClicksAreShown
<1>1. BlipInv => ClicksAreShown
  BY DEF BlipInv, LitInv, ClicksAreShown, PutOutAgain
<1> QED BY <1>1, BlipInductive, PTL

(***************************************************************************)
(* The clicks over UDP                                                     *)
(***************************************************************************)
Counts == 0 .. CountWrap - 1
Datagrams == [from : Producers, n : Counts, ts : Nat, at : Nat]
ProducerRecords ==
  [id : Producers, heard : BOOLEAN, last : Counts, ts : Nat, first : Counts, since : Int]

UdpTypes ==
  /\ count \in [Producers -> Counts] /\ told \in [Producers -> Counts]
  /\ up \in [Producers -> Nat] /\ made \in [Producers -> Nat] /\ credited \in [Producers -> Nat]
  /\ air \in SUBSET Datagrams /\ table \in Seq(ProducerRecords)
  /\ \A i, j \in 1 .. Len(table) : table[i].id = table[j].id => i = j
  /\ local \in Nat /\ drain \in Nat

\* How many clicks a producer had when its count was 0 the last time, by a
\* boot or because it wrapped.
Base(p) == made[p] - count[p]

\* Datagrams are of the count as it runs now, and none is ahead of what was told.
AirOk(d) ==
  /\ told[d.from] <= count[d.from] /\ d.n <= told[d.from]
  /\ d.at = d.n + Base(d.from) /\ d.ts <= up[d.from]
AirInv == \A d \in air : AirOk(d)

\* No more is credited than was told, or than there was when the count wrapped.
LedgerOk(p) == credited[p] <= IF told[p] <= count[p] THEN told[p] + Base(p) ELSE Base(p) - 1
LedgerInv == \A p \in Producers : LedgerOk(p)

\* What is on its way is ahead of what is credited.
Newer(p) == \A d \in air : d.from = p => credited[p] < d.at

\* The anchor is of the count as it runs now, or of an earlier run.
Anchored(r) ==
  /\ credited[r.id] <= r.last + Base(r.id) /\ r.last <= count[r.id] /\ r.ts <= up[r.id]
Outdated(r) == credited[r.id] <= Base(r.id) /\ Newer(r.id)

RowOk(r) == r.heard => r.since = r.last - r.first + 1 /\ (Anchored(r) \/ Outdated(r))

HeardOf(p) == \E i \in 1 .. Len(table) : table[i].id = p /\ table[i].heard

RowsInv ==
  /\ \A i \in 1 .. Len(table) : RowOk(table[i])
  /\ \A p \in Producers : ~HeardOf(p) => Newer(p)

UdpInv == UdpTypes /\ AirInv /\ LedgerInv /\ RowsInv

LEMMA UdpFields ==
  ASSUME UdpTypes, NEW p \in Producers
  PROVE  /\ count[p] \in Counts /\ count[p] \in Nat /\ told[p] \in Counts /\ told[p] \in Nat
         /\ up[p] \in Nat /\ made[p] \in Nat /\ credited[p] \in Nat /\ Base(p) \in Int
<1>1. /\ count[p] \in Counts /\ told[p] \in Counts
      /\ up[p] \in Nat /\ made[p] \in Nat /\ credited[p] \in Nat
  BY DEF UdpTypes
<1>2. Counts \subseteq Nat
  BY UdpAssumption DEF Counts
<1>3. count[p] \in Nat /\ told[p] \in Nat
  BY <1>1, <1>2
<1>4. Base(p) \in Int
  BY <1>1, <1>3 DEF Base
<1> QED BY <1>1, <1>3, <1>4

LEMMA DatagramFields ==
  ASSUME NEW d \in Datagrams
  PROVE  /\ d.from \in Producers /\ d.n \in Counts /\ d.n \in Nat /\ d.ts \in Nat /\ d.at \in Nat
<1>1. d.from \in Producers /\ d.n \in Counts /\ d.ts \in Nat /\ d.at \in Nat
  BY DEF Datagrams
<1>2. Counts \subseteq Nat
  BY UdpAssumption DEF Counts
<1> QED BY <1>1, <1>2

LEMMA RecordFields ==
  ASSUME NEW r \in ProducerRecords
  PROVE  /\ r.id \in Producers /\ r.heard \in BOOLEAN /\ r.last \in Counts /\ r.last \in Nat
         /\ r.ts \in Nat /\ r.first \in Counts /\ r.first \in Nat /\ r.since \in Int
<1>1. /\ r.id \in Producers /\ r.heard \in BOOLEAN /\ r.last \in Counts
      /\ r.ts \in Nat /\ r.first \in Counts /\ r.since \in Int
  BY DEF ProducerRecords
<1>2. Counts \subseteq Nat
  BY UdpAssumption DEF Counts
<1> QED BY <1>1, <1>2

LEMMA RowIs ==
  ASSUME UdpTypes, NEW i \in 1 .. Len(table)
  PROVE  table[i] \in ProducerRecords /\ table[i].id \in Producers
<1>1. table \in Seq(ProducerRecords)
  BY DEF UdpTypes
<1>2. table[i] \in ProducerRecords
  BY <1>1
<1> QED BY <1>2, RecordFields

\* While the table stays, it is enough to look at the producer that moved.
LEMMA RowsStay ==
  ASSUME UdpTypes, RowsInv, UNCHANGED <<table, credited>>, NEW p \in Producers,
         \A q \in Producers : q # p =>
           made'[q] = made[q] /\ count'[q] = count[q] /\ up'[q] = up[q],
         \A d \in air' : d.from # p => d \in air,
         \A r \in ProducerRecords : r.id = p /\ (Anchored(r) \/ Outdated(r)) =>
           Anchored(r)' \/ Outdated(r)',
         ~HeardOf(p) /\ Newer(p) => Newer(p)'
  PROVE  RowsInv'
<1>1. ASSUME NEW q \in Producers, q # p PROVE Base(q)' = Base(q) /\ (Newer(q) => Newer(q)')
  BY <1>1 DEF Base, Newer
<1>2. ASSUME NEW i \in 1 .. Len(table) PROVE RowOk(table[i])'
  <2>1. RowOk(table[i]) /\ table[i] \in ProducerRecords /\ table[i].id \in Producers
    BY RowIs DEF RowsInv
  <2> DEFINE r == table[i]
  <2>2. table' = table /\ credited' = credited
    OBVIOUS
  <2>3. CASE ~r.heard
    BY <2>2, <2>3 DEF RowOk
  <2>4. CASE r.heard /\ r.id = p
    <3>1. r.since = r.last - r.first + 1 /\ (Anchored(r) \/ Outdated(r))
      BY <2>1, <2>4 DEF RowOk
    <3>2. ASSUME NEW x \in ProducerRecords, x = r PROVE Anchored(x)' \/ Outdated(x)'
      BY <2>4, <3>1, <3>2
    <3>3. Anchored(r)' \/ Outdated(r)'
      BY <2>1, <2>2, <3>2 DEF Anchored, Outdated
    <3> QED BY <2>2, <3>1, <3>3 DEF RowOk
  <2>5. CASE r.heard /\ r.id # p
    <3>1. r.since = r.last - r.first + 1 /\ (Anchored(r) \/ Outdated(r))
      BY <2>1, <2>5 DEF RowOk
    <3>2. Base(r.id)' = Base(r.id) /\ (Newer(r.id) => Newer(r.id)')
      <4>1. ASSUME NEW q \in Producers, q = r.id PROVE Base(q)' = Base(q) /\ (Newer(q) => Newer(q)')
        BY <1>1, <2>5, <4>1
      <4> QED BY <2>1, <2>2, <4>1 DEF Base, Newer
    <3>3. Anchored(r)' \/ Outdated(r)'
      BY <2>1, <2>2, <2>5, <3>1, <3>2 DEF Anchored, Outdated
    <3> QED BY <2>2, <3>1, <3>3 DEF RowOk
  <2> QED BY <2>3, <2>4, <2>5
<1>3. ASSUME NEW q \in Producers, ~HeardOf(q)' PROVE Newer(q)'
  <2>1. ~HeardOf(q)
    BY <1>3 DEF HeardOf
  <2>2. Newer(q)
    BY <2>1 DEF RowsInv
  <2> QED BY <1>1, <2>1, <2>2
<1> QED BY <1>2, <1>3 DEF RowsInv

LEMMA ProducerMoved ==
  ASSUME UdpInv, UdpTypes', UNCHANGED <<table, credited>>, NEW p \in Producers,
         \A q \in Producers : q # p =>
           made'[q] = made[q] /\ count'[q] = count[q] /\ told'[q] = told[q] /\ up'[q] = up[q],
         \A d \in air' : d.from # p => d \in air,
         \A d \in Datagrams : d \in air' /\ d.from = p => AirOk(d)',
         LedgerOk(p)',
         \A r \in ProducerRecords : r.id = p /\ (Anchored(r) \/ Outdated(r)) =>
           Anchored(r)' \/ Outdated(r)',
         ~HeardOf(p) /\ Newer(p) => Newer(p)'
  PROVE  UdpInv'
<1>1. UdpTypes /\ AirInv /\ LedgerInv /\ RowsInv
  BY DEF UdpInv
<1>2. \A q \in Producers : q # p => Base(q)' = Base(q)
  BY DEF Base
<1>3. ASSUME NEW d \in air' PROVE AirOk(d)'
  <2>1. d \in Datagrams /\ d.from \in Producers
    BY DatagramFields DEF UdpTypes
  <2>2. CASE d.from # p
    BY <1>1, <1>2, <2>1, <2>2 DEF AirInv, AirOk
  <2> QED BY <2>1, <2>2
<1>4. ASSUME NEW q \in Producers PROVE LedgerOk(q)'
  <2>1. CASE q # p
    BY <1>1, <1>2, <2>1 DEF LedgerInv, LedgerOk
  <2> QED BY <2>1
<1>5. RowsInv'
  BY <1>1, RowsStay
<1> QED BY <1>3, <1>4, <1>5 DEF UdpInv, AirInv, LedgerInv

LEMMA CountGoesOn ==
  ASSUME NEW c \in Counts
  PROVE  /\ (c + 1) % CountWrap \in Counts
         /\ (c + 1) % CountWrap = c + 1 \/ (c + 1) % CountWrap = 0
<1>1. CountWrap \in Nat /\ CountWrap > 0 /\ c \in Nat /\ c < CountWrap
  BY UdpAssumption DEF Counts
<1> DEFINE m == (c + 1) % CountWrap
           q == (c + 1) \div CountWrap
<1>2. m \in 0 .. CountWrap - 1 /\ q \in Int /\ c + 1 = CountWrap * q + m
  BY <1>1
<1>3. CASE c + 1 < CountWrap
  <2>1. m = c + 1
    BY <1>1, <1>3
  <2> QED BY <1>2, <2>1 DEF Counts
<1>4. CASE c + 1 = CountWrap
  <2>1. m = 0
    BY <1>1, <1>4
  <2> QED BY <1>2, <2>1 DEF Counts
<1> QED BY <1>1, <1>3, <1>4

LEMMA ClickKeeps ==
  ASSUME UdpInv, NEW p \in Producers, Click(p)
  PROVE  UdpInv'
<1> DEFINE c == (count[p] + 1) % CountWrap
           m == made[p] + 1
<1>1. UdpTypes /\ AirInv /\ LedgerInv /\ RowsInv
  BY DEF UdpInv
<1>2. /\ count[p] \in Counts /\ count[p] \in Nat /\ told[p] \in Counts /\ told[p] \in Nat
      /\ up[p] \in Nat /\ made[p] \in Nat /\ credited[p] \in Nat /\ Base(p) \in Int
  BY <1>1, UdpFields
<1>3. c \in Counts /\ (c = count[p] + 1 \/ c = 0) /\ m \in Nat /\ c \in Nat /\ m = made[p] + 1
  BY <1>2, CountGoesOn, UdpAssumption DEF Counts
<1>4. /\ count' = [count EXCEPT ![p] = c] /\ made' = [made EXCEPT ![p] = m]
      /\ UNCHANGED <<up, told, rxVars, turns>>
  BY DEF Click
<1>5. air' = {d \in air : d.from # p \/ count'[p] # 0}
  BY DEF Click
<1> HIDE DEF c, m
<1>6. /\ UdpTypes' /\ count'[p] = c /\ told'[p] = told[p] /\ up'[p] = up[p] /\ made'[p] = m
      /\ \A q \in Producers : q # p =>
           count'[q] = count[q] /\ told'[q] = told[q] /\ up'[q] = up[q] /\ made'[q] = made[q]
  <2>1. count \in [Producers -> Counts] /\ made \in [Producers -> Nat]
    BY <1>1 DEF UdpTypes
  <2>2. /\ count' \in [Producers -> Counts] /\ count'[p] = c
        /\ \A q \in Producers : q # p => count'[q] = count[q]
    BY <1>3, <1>4, <2>1
  <2>3. /\ made' \in [Producers -> Nat] /\ made'[p] = m
        /\ \A q \in Producers : q # p => made'[q] = made[q]
    BY <1>3, <1>4, <2>1
  <2>4. UdpTypes'
    BY <1>1, <1>4, <1>5, <2>2, <2>3 DEF UdpTypes, rxVars
  <2> QED BY <1>4, <2>2, <2>3, <2>4
<1>7. UNCHANGED <<table, credited>> /\ air' \subseteq air
  BY <1>4, <1>5 DEF rxVars
<1>8. \A q \in Producers : q # p => Base(q)' = Base(q)
  BY <1>6 DEF Base
<1>9. /\ credited'[p] = credited[p] /\ credited[p] <= made[p]
      /\ credited[p] <= IF told[p] <= count[p] THEN told[p] + Base(p) ELSE Base(p) - 1
  <2>1. credited[p] <= IF told[p] <= count[p] THEN told[p] + Base(p) ELSE Base(p) - 1
    BY <1>1 DEF LedgerInv, LedgerOk
  <2> QED BY <1>2, <1>7, <2>1 DEF Base
<1>10. CASE c = count[p] + 1
  <2>1. Base(p)' = Base(p)
    BY <1>2, <1>3, <1>6, <1>10 DEF Base
  <2>2. ASSUME NEW d \in Datagrams, d \in air', d.from = p PROVE AirOk(d)'
    <3>1. AirOk(d) /\ d.n \in Nat /\ d.ts \in Nat
      BY <1>1, <1>7, <2>2, DatagramFields DEF AirInv
    <3> QED BY <1>2, <1>6, <1>10, <2>1, <2>2, <3>1 DEF AirOk
  <2>3. LedgerOk(p)'
    BY <1>2, <1>6, <1>9, <1>10, <2>1 DEF LedgerOk
  <2>4. Newer(p) => Newer(p)'
    BY <1>7 DEF Newer
  <2>5. ASSUME NEW r \in ProducerRecords, r.id = p, Anchored(r) \/ Outdated(r)
        PROVE  Anchored(r)' \/ Outdated(r)'
    <3>1. CASE Anchored(r)
      <4>1. credited[p] <= r.last + Base(p) /\ r.last <= count[p] /\ r.ts <= up[p]
        BY <2>5, <3>1 DEF Anchored
      <4>2. credited'[p] <= r.last + Base(p)' /\ r.last <= count'[p] /\ r.ts <= up'[p]
        BY <1>2, <1>6, <1>7, <1>10, <2>1, <4>1, RecordFields
      <4> QED BY <2>5, <4>2 DEF Anchored
    <3>2. CASE Outdated(r)
      BY <1>7, <2>1, <2>4, <2>5, <3>2 DEF Outdated
    <3> QED BY <2>5, <3>1, <3>2
  <2> QED BY <1>6, <1>7, <2>2, <2>3, <2>4, <2>5, ProducerMoved
<1>11. CASE c = 0
  <2>1. Base(p)' = m /\ credited[p] <= m - 1
    BY <1>2, <1>3, <1>6, <1>9, <1>11 DEF Base
  <2>2. \A d \in air' : d \in air /\ d.from # p
    BY <1>5, <1>6, <1>11
  <2>3. LedgerOk(p)'
    BY <1>2, <1>3, <1>6, <1>9, <2>1 DEF LedgerOk
  <2>4. Newer(p)'
    BY <2>2 DEF Newer
  <2>5. ASSUME NEW r \in ProducerRecords, r.id = p PROVE Outdated(r)'
    <3>1. credited'[p] <= Base(p)'
      BY <1>2, <1>3, <1>9, <2>1
    <3> QED BY <2>4, <2>5, <3>1 DEF Outdated
  <2> QED BY <1>6, <1>7, <2>2, <2>3, <2>4, <2>5, ProducerMoved
<1> QED BY <1>3, <1>10, <1>11

LEMMA AgeKeeps ==
  ASSUME UdpInv, NEW p \in Producers, Age(p)
  PROVE  UdpInv'
<1>1. UdpTypes /\ AirInv /\ LedgerInv /\ RowsInv
  BY DEF UdpInv
<1>2. up[p] \in Nat /\ up \in [Producers -> Nat]
  BY <1>1, UdpFields DEF UdpTypes
<1>3. /\ up' = [up EXCEPT ![p] = @ + 1]
      /\ UNCHANGED <<count, told, made, air, table, local, drain, credited>>
  BY DEF Age, rxVars
<1>4. /\ up' \in [Producers -> Nat] /\ up'[p] = up[p] + 1
      /\ \A q \in Producers : q # p => up'[q] = up[q]
  BY <1>2, <1>3
<1>5. UdpTypes'
  BY <1>1, <1>3, <1>4 DEF UdpTypes
<1>6. Base(p)' = Base(p) /\ (Newer(p) => Newer(p)')
  BY <1>3 DEF Base, Newer
<1>7. ASSUME NEW d \in Datagrams, d \in air', d.from = p PROVE AirOk(d)'
  <2>1. AirOk(d) /\ d.ts \in Nat
    BY <1>1, <1>3, <1>7, DatagramFields DEF AirInv
  <2> QED BY <1>2, <1>3, <1>4, <1>6, <1>7, <2>1 DEF AirOk
<1>8. LedgerOk(p)'
  BY <1>1, <1>3, <1>6 DEF LedgerInv, LedgerOk
<1>9. ASSUME NEW r \in ProducerRecords, r.id = p, Anchored(r) \/ Outdated(r)
      PROVE  Anchored(r)' \/ Outdated(r)'
  <2>1. CASE Anchored(r)
    <3>1. r.ts \in Nat
      BY RecordFields
    <3> QED BY <1>2, <1>3, <1>4, <1>6, <1>9, <2>1, <3>1 DEF Anchored
  <2>2. CASE Outdated(r)
    BY <1>3, <1>6, <1>9, <2>2 DEF Outdated
  <2> QED BY <1>9, <2>1, <2>2
<1> QED BY <1>3, <1>4, <1>5, <1>6, <1>7, <1>8, <1>9, ProducerMoved

LEMMA EmitKeeps ==
  ASSUME UdpInv, NEW p \in Producers, Emit(p)
  PROVE  UdpInv'
<1> DEFINE e == [from |-> p, n |-> count[p], ts |-> up[p], at |-> made[p]]
<1>1. UdpTypes /\ AirInv /\ LedgerInv /\ RowsInv
  BY DEF UdpInv
<1>2. /\ count[p] \in Counts /\ count[p] \in Nat /\ told[p] \in Counts /\ told[p] \in Nat
      /\ up[p] \in Nat /\ made[p] \in Nat /\ credited[p] \in Nat /\ Base(p) \in Int
      /\ made[p] = count[p] + Base(p)
  <2>1. /\ count[p] \in Counts /\ count[p] \in Nat /\ told[p] \in Counts /\ told[p] \in Nat
        /\ up[p] \in Nat /\ made[p] \in Nat /\ credited[p] \in Nat /\ Base(p) \in Int
    BY <1>1, UdpFields
  <2> QED BY <2>1 DEF Base
<1>3. /\ told' = [told EXCEPT ![p] = count[p]] /\ count[p] # told[p]
      /\ UNCHANGED <<count, up, made, table, local, drain, credited>>
      /\ air' = air \union {e} \/ air' = air
  BY DEF Emit, rxVars
<1>4. e \in Datagrams /\ e.from = p /\ e.n = count[p] /\ e.ts = up[p] /\ e.at = made[p]
  BY <1>2 DEF Datagrams
<1> HIDE DEF e
<1>5. /\ told' \in [Producers -> Counts] /\ told'[p] = count[p]
      /\ \A q \in Producers : q # p => told'[q] = told[q]
  BY <1>1, <1>2, <1>3 DEF UdpTypes
<1>6. \A d \in air' : d \in Datagrams /\ (d \in air \/ d = e)
  BY <1>1, <1>3, <1>4 DEF UdpTypes
<1>7. UdpTypes'
  BY <1>1, <1>3, <1>5, <1>6 DEF UdpTypes
<1>8. Base(p)' = Base(p)
  BY <1>3 DEF Base
<1>9. credited[p] < made[p]
  <2>1. credited[p] <= IF told[p] <= count[p] THEN told[p] + Base(p) ELSE Base(p) - 1
    BY <1>1 DEF LedgerInv, LedgerOk
  <2> QED BY <1>2, <1>3, <2>1
<1>10. ASSUME NEW d \in Datagrams, d \in air', d.from = p PROVE AirOk(d)'
  <2>1. CASE d = e
    <3>1. told'[p] <= count'[p] /\ d.n <= told'[p] /\ d.at = d.n + Base(p)' /\ d.ts <= up'[p]
      BY <1>2, <1>3, <1>4, <1>5, <1>8, <2>1
    <3> QED BY <1>10, <3>1 DEF AirOk
  <2>2. CASE d \in air
    <3>1. told[p] <= count[p] /\ d.n <= told[p] /\ d.at = d.n + Base(p) /\ d.ts <= up[p]
      BY <1>1, <1>10, <2>2 DEF AirInv, AirOk
    <3>2. told'[p] <= count'[p] /\ d.n <= told'[p] /\ d.at = d.n + Base(p)' /\ d.ts <= up'[p]
      BY <1>2, <1>3, <1>5, <1>8, <3>1, DatagramFields
    <3> QED BY <1>10, <3>2 DEF AirOk
  <2> QED BY <1>6, <1>10, <2>1, <2>2
<1>11. LedgerOk(p)'
  <2>1. credited'[p] <= told'[p] + Base(p)' /\ told'[p] <= count'[p]
    BY <1>2, <1>3, <1>5, <1>8, <1>9
  <2> QED BY <2>1 DEF LedgerOk
<1>12. Newer(p) => Newer(p)'
  BY <1>3, <1>4, <1>6, <1>9 DEF Newer
<1>13. ASSUME NEW r \in ProducerRecords, r.id = p, Anchored(r) \/ Outdated(r)
      PROVE  Anchored(r)' \/ Outdated(r)'
  BY <1>3, <1>8, <1>12, <1>13 DEF Anchored, Outdated
<1>14. \A d \in air' : d.from # p => d \in air
  BY <1>4, <1>6
<1> QED BY <1>3, <1>5, <1>7, <1>10, <1>11, <1>12, <1>13, <1>14, ProducerMoved

LEMMA RebootKeeps ==
  ASSUME UdpInv, NEW p \in Producers, Reboot(p)
  PROVE  UdpInv'
<1>1. UdpTypes /\ AirInv /\ LedgerInv /\ RowsInv
  BY DEF UdpInv
<1>2. /\ count[p] \in Nat /\ told[p] \in Nat /\ made[p] \in Nat /\ credited[p] \in Nat
  BY <1>1, UdpFields
<1>3. /\ count' = [count EXCEPT ![p] = 0] /\ told' = [told EXCEPT ![p] = 0]
      /\ up' = [up EXCEPT ![p] = 0] /\ air' = {d \in air : d.from # p}
      /\ UNCHANGED <<made, table, local, drain, credited>>
  BY DEF Reboot, rxVars
<1>4. 0 \in Counts
  BY UdpAssumption DEF Counts
<1>5. /\ count' \in [Producers -> Counts] /\ count'[p] = 0
      /\ \A q \in Producers : q # p => count'[q] = count[q]
  BY <1>1, <1>3, <1>4 DEF UdpTypes
<1>6. /\ told' \in [Producers -> Counts] /\ told'[p] = 0
      /\ \A q \in Producers : q # p => told'[q] = told[q]
  BY <1>1, <1>3, <1>4 DEF UdpTypes
<1>7. /\ up' \in [Producers -> Nat] /\ \A q \in Producers : q # p => up'[q] = up[q]
  BY <1>1, <1>3 DEF UdpTypes
<1>8. UdpTypes'
  BY <1>1, <1>3, <1>5, <1>6, <1>7 DEF UdpTypes
<1>9. credited[p] <= made[p]
  <2>1. credited[p] <= IF told[p] <= count[p] THEN told[p] + Base(p) ELSE Base(p) - 1
    BY <1>1 DEF LedgerInv, LedgerOk
  <2> QED BY <1>2, <2>1 DEF Base
<1>10. Base(p)' = made[p] /\ credited'[p] <= Base(p)'
  BY <1>2, <1>3, <1>5, <1>9 DEF Base
<1>11. \A d \in air' : d \in air /\ d.from # p
  BY <1>3
<1>12. Newer(p)'
  BY <1>11 DEF Newer
<1>13. LedgerOk(p)'
  BY <1>2, <1>5, <1>6, <1>10 DEF LedgerOk
<1>14. ASSUME NEW r \in ProducerRecords, r.id = p PROVE Outdated(r)'
  BY <1>10, <1>12, <1>14 DEF Outdated
<1> QED BY <1>3, <1>5, <1>6, <1>7, <1>8, <1>11, <1>12, <1>13, <1>14, ProducerMoved

\* The table after a producer was found, or has taken a slot: its record comes last.
LEMMA TableTouched ==
  ASSUME UdpTypes, NEW p \in Producers, NEW x \in ProducerRecords, x.id = p
  PROVE  LET t == Append(Others(p), x)
             leaving == {p} \union Evicted(p)
         IN  /\ t \in Seq(ProducerRecords)
             /\ \A i \in 1 .. Len(t) :
                  t[i] = x \/ \E j \in 1 .. Len(table) : t[i] = table[j] /\ table[j].id \notin leaving
             /\ \A i, j \in 1 .. Len(t) : t[i].id = t[j].id => i = j
             /\ \E i \in 1 .. Len(t) : t[i] = x
             /\ \A j \in 1 .. Len(table) :
                  table[j].id \notin leaving => \E i \in 1 .. Len(t) : t[i] = table[j]
<1> DEFINE leaving == {p} \union Evicted(p)
           K == {i \in DOMAIN table : table[i].id \notin leaving}
           o == Others(p)
           t == Append(o, x)
<1>1. /\ table \in Seq(ProducerRecords) /\ DOMAIN table = 1 .. Len(table)
      /\ \A i, j \in 1 .. Len(table) : table[i].id = table[j].id => i = j
  BY DEF UdpTypes
<1>2. K \in SUBSET (1 .. Len(table)) /\ o = Only(table, K)
  BY <1>1 DEF Others
<1>3. o \in Seq(ProducerRecords) /\ Picks(o, table, K)
  BY <1>1, <1>2, OnlyPicks
<1> HIDE DEF o
<1>4. PICK f : Follows(f, o, table, K)
  BY <1>3 DEF Picks
<1>5. /\ \A i \in 1 .. Len(o) : f[i] \in K /\ o[i] = table[f[i]]
      /\ \A i, j \in 1 .. Len(o) : i < j => f[i] < f[j]
      /\ \A k \in K : \E i \in 1 .. Len(o) : f[i] = k
  BY <1>4 DEF Follows
<1>6. p \in leaving /\ \A k \in K : k \in 1 .. Len(table) /\ table[k].id \notin leaving
  BY <1>1
<1> HIDE DEF K, leaving
<1>7. /\ t \in Seq(ProducerRecords) /\ Len(t) = Len(o) + 1 /\ Len(o) \in Nat
      /\ \A i \in 1 .. Len(o) : t[i] = o[i]
      /\ t[Len(o) + 1] = x
  BY <1>3
<1> HIDE DEF t
<1>8. \A i \in 1 .. Len(t) : i \in 1 .. Len(o) \/ i = Len(o) + 1
  BY <1>7
<1>9. ASSUME NEW i \in 1 .. Len(o)
      PROVE  f[i] \in 1 .. Len(table) /\ t[i] = table[f[i]] /\ table[f[i]].id \notin leaving /\ table[f[i]].id # p
  BY <1>5, <1>6, <1>7
<1>10. ASSUME NEW i \in 1 .. Len(t)
       PROVE  t[i] = x \/ \E j \in 1 .. Len(table) : t[i] = table[j] /\ table[j].id \notin leaving
  BY <1>7, <1>8, <1>9
<1>11. ASSUME NEW i \in 1 .. Len(o), NEW j \in 1 .. Len(o), t[i].id = t[j].id PROVE i = j
  <2>1. f[i] = f[j]
    BY <1>1, <1>9, <1>11
  <2>2. f[i] \in Nat /\ f[j] \in Nat /\ i \in Nat /\ j \in Nat
    BY <1>9
  <2> QED BY <1>5, <2>1, <2>2
<1>12. ASSUME NEW i \in 1 .. Len(t), NEW j \in 1 .. Len(t), t[i].id = t[j].id PROVE i = j
  <2>1. CASE i \in 1 .. Len(o) /\ j \in 1 .. Len(o)
    BY <1>11, <1>12, <2>1
  <2>2. CASE i \in 1 .. Len(o) /\ j = Len(o) + 1
    BY <1>7, <1>9, <1>12, <2>2
  <2>3. CASE i = Len(o) + 1 /\ j \in 1 .. Len(o)
    BY <1>7, <1>9, <1>12, <2>3
  <2> QED BY <1>8, <2>1, <2>2, <2>3
<1>13. \E i \in 1 .. Len(t) : t[i] = x
  BY <1>7
<1>14. ASSUME NEW j \in 1 .. Len(table), table[j].id \notin leaving
       PROVE  \E i \in 1 .. Len(t) : t[i] = table[j]
  <2>1. j \in K
    BY <1>1, <1>14 DEF K
  <2>2. PICK i \in 1 .. Len(o) : f[i] = j
    BY <1>5, <2>1
  <2>3. i \in 1 .. Len(t) /\ t[i] = table[j]
    BY <1>7, <1>9, <2>2
  <2> QED BY <2>3
<1> QED BY <1>7, <1>10, <1>12, <1>13, <1>14 DEF t, o, leaving

\* The record of a producer: its own, if it has one, and it was not heard otherwise.
LEMMA FoundIs ==
  ASSUME UdpTypes, RowsInv, NEW p \in Producers
  PROVE  LET r == FindOrAlloc(p) IN
         /\ r \in ProducerRecords /\ r.id = p /\ RowOk(r)
         /\ (~r.heard => Newer(p))
<1> DEFINE r == FindOrAlloc(p)
<1>1. table \in Seq(ProducerRecords) /\ DOMAIN table = 1 .. Len(table)
  BY DEF UdpTypes
<1>2. CASE Known(p) = {}
  <2>1. r = Fresh(p)
    BY <1>2 DEF FindOrAlloc
  <2>2. 0 \in Counts
    BY UdpAssumption DEF Counts
  <2>3. r \in ProducerRecords /\ r.id = p /\ ~r.heard
    BY <2>1, <2>2 DEF Fresh, ProducerRecords
  <2>4. ~HeardOf(p)
    BY <1>1, <1>2 DEF Known, HeardOf
  <2>5. Newer(p)
    BY <2>4 DEF RowsInv
  <2> QED BY <2>3, <2>5 DEF RowOk
<1>3. CASE Known(p) # {}
  <2> DEFINE k == CHOOSE i \in Known(p) : TRUE
  <2>1. k \in Known(p) /\ r = table[k]
    BY <1>3 DEF FindOrAlloc
  <2> HIDE DEF k
  <2>2. k \in 1 .. Len(table) /\ table[k].id = p
    BY <1>1, <2>1 DEF Known
  <2>3. r \in ProducerRecords /\ r.id = p /\ RowOk(r)
    BY <2>1, <2>2, RowIs DEF RowsInv
  <2>4. ASSUME ~r.heard PROVE Newer(p)
    <3>1. \A i \in 1 .. Len(table) : table[i].id = p => i = k
      BY <2>2 DEF UdpTypes
    <3>2. ~HeardOf(p)
      BY <2>1, <2>2, <2>4, <3>1 DEF HeardOf
    <3> QED BY <3>2 DEF RowsInv
  <2> QED BY <2>3, <2>4
<1> QED BY <1>2, <1>3

\* What a datagram is worth, and what its producer's record says then.
LEMMA CreditIs ==
  ASSUME NEW r \in ProducerRecords, NEW d \in Datagrams, NEW c, c = Credit(r, d),
         r.heard => r.since = r.last - r.first + 1
  PROVE  LET x == Noted(r, d, c)
             g == c.now + c.later
         IN  /\ c.now \in Nat /\ c.later \in Nat
             /\ x \in ProducerRecords /\ x.id = r.id /\ x.heard /\ x.since = x.last - x.first + 1
             /\ ~r.heard => g = 1
             /\ r.heard /\ d.n >= r.last => g <= d.n - r.last
             /\ (~r.heard \/ d.n >= r.last) => x.last = d.n /\ x.ts = d.ts
             /\ r.heard /\ d.n < r.last =>
                  \/ ~producerRestarted(r, d) /\ g = 0 /\ x.last = r.last /\ x.ts = r.ts
                  \/ producerRestarted(r, d) /\ g = 1 /\ x.last = d.n /\ x.ts = d.ts
<1> DEFINE x == Noted(r, d, c)
           lead == d.n - r.last - 1
           y == [id |-> r.id, heard |-> TRUE,
                 last |-> IF Overtaken(r, d) THEN r.last ELSE d.n,
                 ts |-> IF Overtaken(r, d) THEN r.ts ELSE d.ts,
                 first |-> IF c.sync THEN d.n ELSE r.first,
                 since |-> IF c.sync THEN 1 ELSE r.since + c.now + c.later]
<1>1. /\ r.id \in Producers /\ r.heard \in BOOLEAN /\ r.last \in Counts /\ r.last \in Nat
      /\ r.ts \in Nat /\ r.first \in Counts /\ r.first \in Nat /\ r.since \in Int
      /\ d.n \in Counts /\ d.n \in Nat /\ d.ts \in Nat
  BY RecordFields, DatagramFields
<1>2. ASSUME r.heard \/ c.now > 0 PROVE x = y
  <2> DEFINE noted == [r EXCEPT !.heard = @ \/ c.now > 0,
                               !.first = IF c.sync THEN d.n ELSE @,
                               !.since = IF c.sync THEN 1 ELSE @ + c.now + c.later]
  <2>1. r = [id |-> r.id, heard |-> r.heard, last |-> r.last, ts |-> r.ts,
             first |-> r.first, since |-> r.since]
    BY DEF ProducerRecords
  <2>2. noted = [id |-> r.id, heard |-> TRUE, last |-> r.last, ts |-> r.ts,
                first |-> IF c.sync THEN d.n ELSE r.first,
                since |-> IF c.sync THEN 1 ELSE r.since + c.now + c.later]
    <3> DEFINE f == IF c.sync THEN d.n ELSE r.first
               s == IF c.sync THEN 1 ELSE r.since + c.now + c.later
               h == r.heard \/ c.now > 0
    <3>1. noted = [r EXCEPT !.heard = h, !.first = f, !.since = s]
      BY <2>1
    <3>2. h = TRUE
      BY <1>1, <1>2
    <3> HIDE DEF f, s, h, noted
    <3>3. noted = [id |-> r.id, heard |-> h, last |-> r.last, ts |-> r.ts, first |-> f, since |-> s]
      BY <2>1, <3>1
    <3> QED BY <3>2, <3>3 DEF f, s
  <2>3. x = IF Overtaken(r, d) THEN noted ELSE [noted EXCEPT !.last = d.n, !.ts = d.ts]
    BY DEF Noted
  <2> HIDE DEF noted, x
  <2> QED BY <2>2, <2>3
<1> HIDE DEF x
<1>3. CASE ~r.heard
  <2>2. ~Overtaken(r, d)
    BY <1>3 DEF Overtaken
  <2>1. c.now = 1 /\ c.later = 0 /\ c.sync = TRUE
    <3>1. Credit(r, d) = [now |-> 1, later |-> 0, sync |-> TRUE]
      BY <1>1, <1>3, <2>2 DEF Credit
    <3> QED BY <3>1
  <2>3. x = y
    BY <1>2, <2>1
  <2>4. y \in ProducerRecords
    BY <1>1, <2>1, <2>2 DEF ProducerRecords
  <2> QED BY <1>1, <1>3, <2>1, <2>2, <2>3, <2>4 DEF x
<1>4. CASE r.heard /\ d.n = r.last
  <2>1. c.now = 0 /\ c.later = 0 /\ c.sync = FALSE
    <3>1. Credit(r, d) = [now |-> 0, later |-> 0, sync |-> FALSE]
      BY <1>1, <1>4 DEF Credit
    <3> QED BY <3>1
  <2>2. ~Overtaken(r, d)
    BY <1>1, <1>4 DEF Overtaken
  <2>3. x = y
    BY <1>2, <1>4
  <2>4. y \in ProducerRecords
    BY <1>1, <2>1, <2>2 DEF ProducerRecords
  <2> QED BY <1>1, <1>4, <2>1, <2>2, <2>3, <2>4 DEF x
<1>5. CASE r.heard /\ d.n > r.last
  <2>1. lead \in Nat /\ d.n = r.last + lead + 1
    BY <1>1, <1>5
  <2>2. c = ForwardGap(r, d)
    <3>1. d.n # r.last /\ ~Overtaken(r, d)
      BY <1>1, <1>5 DEF Overtaken
    <3>2. Credit(r, d) = ForwardGap(r, d)
      BY <1>5, <3>1 DEF Credit
    <3> QED BY <3>2
  <2>3. \/ c.now = lead + 1 /\ c.later = 0 /\ c.sync = FALSE
        \/ c.now = 1 /\ c.later = lead /\ c.sync = FALSE
        \/ c.now = 1 /\ c.later = 0 /\ c.sync = TRUE
    BY <2>2 DEF ForwardGap
  <2>4. ~Overtaken(r, d)
    BY <1>1, <1>5 DEF Overtaken
  <2> HIDE DEF lead
  <2>5. x = y
    BY <1>2, <1>5
  <2>6. c.now \in Nat /\ c.later \in Nat /\ c.now + c.later <= d.n - r.last
        /\ (~c.sync => c.now + c.later = d.n - r.last)
    BY <1>1, <2>1, <2>3
  <2>7. c.sync \in BOOLEAN
    BY <2>3
  <2>8. y \in ProducerRecords
    BY <1>1, <2>4, <2>6, <2>7 DEF ProducerRecords
  <2>9. y.since = y.last - y.first + 1
    BY <1>1, <1>5, <2>4, <2>6, <2>7
  <2> QED BY <1>1, <1>5, <2>4, <2>5, <2>6, <2>8, <2>9 DEF x
<1>6. CASE r.heard /\ d.n < r.last /\ ~producerRestarted(r, d)
  <2>1. Overtaken(r, d)
    BY <1>6 DEF Overtaken
  <2>2. c.now = 0 /\ c.later = 0 /\ c.sync = FALSE
    BY <1>1, <1>6, <2>1 DEF Credit
  <2>3. x = y
    BY <1>2, <1>6
  <2>4. y \in ProducerRecords
    BY <1>1, <2>1, <2>2 DEF ProducerRecords
  <2> QED BY <1>1, <1>6, <2>1, <2>2, <2>3, <2>4 DEF x
<1>7. CASE r.heard /\ d.n < r.last /\ producerRestarted(r, d)
  <2>1. ~Overtaken(r, d)
    BY <1>7 DEF Overtaken
  <2>2. c.now = 1 /\ c.later = 0 /\ c.sync = TRUE
    BY <1>1, <1>7, <2>1 DEF Credit
  <2>3. x = y
    BY <1>2, <1>7
  <2>4. y \in ProducerRecords
    BY <1>1, <2>1, <2>2 DEF ProducerRecords
  <2> QED BY <1>1, <1>7, <2>1, <2>2, <2>3, <2>4 DEF x
<1> QED BY <1>1, <1>3, <1>4, <1>5, <1>6, <1>7

\* A producer's record moves to the end of the table, and another may go.
LEMMA TableMoves ==
  ASSUME UdpInv, NEW p \in Producers, NEW x \in ProducerRecords, x.id = p,
         table' = Append(Others(p), x), \A d \in air' : d \in air /\ d.from \notin Evicted(p),
         UNCHANGED txVars, credited' \in [Producers -> Nat],
         \A q \in Producers : q # p => credited'[q] = credited[q],
         local' \in Nat, drain' \in Nat,
         LedgerOk(p)', RowOk(x)', ~x.heard => Newer(p)'
  PROVE  UdpInv'
<1>1. UdpTypes /\ AirInv /\ LedgerInv /\ RowsInv
  BY DEF UdpInv
<1> DEFINE leaving == {p} \union Evicted(p)
<1>2. /\ table' \in Seq(ProducerRecords)
      /\ \A i \in 1 .. Len(table') :
           table'[i] = x \/ \E j \in 1 .. Len(table) : table'[i] = table[j] /\ table[j].id \notin leaving
      /\ \A i, j \in 1 .. Len(table') : table'[i].id = table'[j].id => i = j
      /\ \E i \in 1 .. Len(table') : table'[i] = x
      /\ \A j \in 1 .. Len(table) :
           table[j].id \notin leaving => \E i \in 1 .. Len(table') : table'[i] = table[j]
  <2> DEFINE t == Append(Others(p), x)
  <2>1. /\ t \in Seq(ProducerRecords)
        /\ \A i \in 1 .. Len(t) :
             t[i] = x \/ \E j \in 1 .. Len(table) : t[i] = table[j] /\ table[j].id \notin leaving
        /\ \A i, j \in 1 .. Len(t) : t[i].id = t[j].id => i = j
        /\ \E i \in 1 .. Len(t) : t[i] = x
        /\ \A j \in 1 .. Len(table) :
             table[j].id \notin leaving => \E i \in 1 .. Len(t) : t[i] = table[j]
    BY <1>1, TableTouched
  <2>2. table' = t
    OBVIOUS
  <2> HIDE DEF t, leaving
  <2> QED BY <2>1, <2>2
<1>3. p \in leaving
  OBVIOUS
<1>4. \A q \in leaving : q = p \/ q \in Evicted(p)
  OBVIOUS
<1> HIDE DEF leaving
<1>5. count' = count /\ up' = up /\ told' = told /\ made' = made
  BY DEF txVars
<1>6. UdpTypes'
  BY <1>1, <1>2, <1>5 DEF UdpTypes
<1>7. \A q \in Producers : Base(q)' = Base(q)
  BY <1>5 DEF Base
<1>8. AirInv'
  <2>1. ASSUME NEW d \in air' PROVE AirOk(d)'
    <3>1. d \in air /\ AirOk(d) /\ d.from \in Producers
      BY <1>1, DatagramFields DEF AirInv, UdpTypes
    <3> QED BY <1>5, <1>7, <3>1 DEF AirOk
  <2> QED BY <2>1 DEF AirInv
<1>9. LedgerInv'
  <2>1. ASSUME NEW q \in Producers, q # p PROVE LedgerOk(q)'
    BY <1>1, <1>5, <1>7, <2>1 DEF LedgerInv, LedgerOk
  <2> QED BY <2>1 DEF LedgerInv
<1>10. ASSUME NEW q \in Producers, q # p, Newer(q) PROVE Newer(q)'
  BY <1>10 DEF Newer
<1>11. ASSUME NEW y \in ProducerRecords, RowOk(y), y.id # p PROVE RowOk(y)'
  <2>1. y.id \in Producers
    BY RecordFields
  <2> QED BY <1>5, <1>7, <1>10, <1>11, <2>1 DEF RowOk, Anchored, Outdated
<1>12. ASSUME NEW i \in 1 .. Len(table') PROVE RowOk(table[i])'
  <2>1. CASE table'[i] = x
    BY <2>1 DEF RowOk, Anchored, Outdated, Newer, Base
  <2>2. CASE \E j \in 1 .. Len(table) : table'[i] = table[j] /\ table[j].id \notin leaving
    <3>1. PICK j \in 1 .. Len(table) : table'[i] = table[j] /\ table[j].id \notin leaving
      BY <2>2
    <3>2. table[j] \in ProducerRecords /\ RowOk(table[j]) /\ table[j].id # p
      BY <1>1, <1>3, <3>1, RowIs DEF RowsInv
    <3>3. ASSUME NEW y \in ProducerRecords, y = table[j] PROVE RowOk(y)'
      BY <1>11, <3>2, <3>3
    <3>4. ASSUME NEW y \in ProducerRecords, y = table'[i], RowOk(y)' PROVE RowOk(table[i])'
      BY <3>4 DEF RowOk, Anchored, Outdated, Newer, Base
    <3> QED BY <3>1, <3>2, <3>3, <3>4
  <2> QED BY <1>2, <2>1, <2>2
<1>13. ASSUME NEW q \in Producers, ~HeardOf(q)' PROVE Newer(q)'
  <2>1. CASE q = p
    <3>1. ~x.heard
      BY <1>2, <1>13, <2>1 DEF HeardOf
    <3> QED BY <2>1, <3>1
  <2>2. CASE q \in Evicted(p)
    BY <2>2 DEF Newer
  <2>3. CASE q \notin leaving
    <3>1. ~HeardOf(q)
      <4> SUFFICES ASSUME NEW j \in 1 .. Len(table), table[j].id = q, table[j].heard PROVE FALSE
        BY DEF HeardOf
      <4>1. PICK i \in 1 .. Len(table') : table'[i] = table[j]
        BY <1>2, <2>3
      <4> QED BY <1>13, <4>1 DEF HeardOf
    <3> QED BY <1>1, <1>3, <1>10, <2>3, <3>1 DEF RowsInv
  <2> QED BY <1>4, <2>1, <2>2, <2>3
<1> QED BY <1>6, <1>8, <1>9, <1>12, <1>13 DEF UdpInv, RowsInv

\* A step that only loses datagrams, or shows what is owed, changes nothing of it.
LEMMA FewerInTheAir ==
  ASSUME UdpInv, UNCHANGED <<count, up, told, made, table, credited>>,
         local' \in Nat, drain' \in Nat, \A d \in air' : d \in air
  PROVE  UdpInv'
<1>1. UdpTypes /\ AirInv /\ LedgerInv /\ RowsInv
  BY DEF UdpInv
<1>2. UdpTypes'
  BY <1>1 DEF UdpTypes
<1>3. AirInv' /\ LedgerInv'
  BY <1>1 DEF AirInv, AirOk, LedgerInv, LedgerOk, Base
<1>4. \A p \in Producers : Newer(p) => Newer(p)'
  BY DEF Newer
<1>5. ASSUME NEW r \in ProducerRecords, RowOk(r) PROVE RowOk(r)'
  <2>1. r.id \in Producers
    BY RecordFields
  <2> QED BY <1>4, <1>5, <2>1 DEF RowOk, Anchored, Outdated, Base
<1>6. ASSUME NEW i \in 1 .. Len(table) PROVE RowOk(table[i])'
  <2>1. table[i] \in ProducerRecords /\ RowOk(table[i])
    BY <1>1, RowIs DEF RowsInv
  <2>2. ASSUME NEW y \in ProducerRecords, y = table[i] PROVE RowOk(y)'
    BY <1>5, <2>1, <2>2
  <2>3. ASSUME NEW y \in ProducerRecords, y = table'[i], RowOk(y)' PROVE RowOk(table[i])'
    BY <2>3 DEF RowOk, Anchored, Outdated, Newer, Base
  <2> QED BY <2>1, <2>2, <2>3
<1>7. ASSUME NEW p \in Producers, ~HeardOf(p)' PROVE Newer(p)'
  <2>1. ~HeardOf(p)
    BY <1>7 DEF HeardOf
  <2> QED BY <1>1, <1>4, <2>1 DEF RowsInv
<1> QED BY <1>2, <1>3, <1>6, <1>7 DEF UdpInv, RowsInv

LEMMA ReceiveKeeps ==
  ASSUME UdpInv, NEW d \in air, Receive(d)
  PROVE  UdpInv'
<1> DEFINE left1 == air
           left2 == air \ {d}
<1>1. UdpTypes /\ AirInv /\ LedgerInv /\ RowsInv
  BY DEF UdpInv
<1>2. d \in Datagrams /\ d.from \in Producers /\ d.n \in Nat /\ d.ts \in Nat /\ d.at \in Nat
  BY <1>1, DatagramFields DEF UdpTypes
<1>3. /\ made[d.from] - d.at <= NearGap /\ up[d.from] - d.ts <= GapSpan
      /\ UNCHANGED txVars
  BY DEF Receive
<1>4. CASE Accepts(d.from) /\ ProcessClick(d) /\ \A e \in air' : e \in air /\ e.from \notin Evicted(d.from)
  <2>1. PICK p \in Producers : p = d.from
    BY <1>2
  <2>2. PICK r \in ProducerRecords : r = FindOrAlloc(p) /\ r.id = p /\ RowOk(r) /\ (~r.heard => Newer(p))
    BY <1>1, FoundIs
  <2>3. PICK c : c = Credit(r, d)
    OBVIOUS
  <2>4. PICK x : x = Noted(r, d, c)
    OBVIOUS
  <2>5. PICK g : g = c.now + c.later
    OBVIOUS
  <2>6. /\ c.now \in Nat /\ c.later \in Nat
        /\ x \in ProducerRecords /\ x.id = p /\ x.heard /\ x.since = x.last - x.first + 1
        /\ ~r.heard => g = 1
        /\ r.heard /\ d.n >= r.last => g <= d.n - r.last
        /\ (~r.heard \/ d.n >= r.last) => x.last = d.n /\ x.ts = d.ts
        /\ r.heard /\ d.n < r.last =>
             \/ ~producerRestarted(r, d) /\ g = 0 /\ x.last = r.last /\ x.ts = r.ts
             \/ producerRestarted(r, d) /\ g = 1 /\ x.last = d.n /\ x.ts = d.ts
    BY <1>2, <2>2, <2>3, <2>4, <2>5, CreditIs DEF RowOk
  <2>7. g \in Nat /\ g = c.now + c.later
    BY <2>5, <2>6
  <2>8. /\ table' = Append(Others(p), x)
        /\ local' = local + c.now /\ drain' = drain + c.later
        /\ credited' = [credited EXCEPT ![p] = @ + c.now + c.later]
    BY <1>4, <2>1, <2>2, <2>3, <2>4 DEF ProcessClick
  <2>9. /\ count[p] \in Nat /\ told[p] \in Nat /\ up[p] \in Nat /\ made[p] \in Nat
        /\ credited[p] \in Nat /\ Base(p) \in Int /\ made[p] = count[p] + Base(p)
    <3>1. /\ count[p] \in Nat /\ told[p] \in Nat /\ up[p] \in Nat /\ made[p] \in Nat
          /\ credited[p] \in Nat /\ Base(p) \in Int
      BY <1>1, UdpFields
    <3> QED BY <3>1 DEF Base
  <2>10. /\ credited' \in [Producers -> Nat] /\ credited'[p] = credited[p] + g
         /\ \A q \in Producers : q # p => credited'[q] = credited[q]
    <3>1. credited \in [Producers -> Nat] /\ credited' = [credited EXCEPT ![p] = credited[p] + c.now + c.later]
      BY <1>1, <2>8 DEF UdpTypes
    <3>2. credited[p] + c.now + c.later = credited[p] + g /\ credited[p] + g \in Nat
      BY <2>6, <2>7, <2>9
    <3> QED BY <3>1, <3>2
  <2>11. local' \in Nat /\ drain' \in Nat
    <3>1. local \in Nat /\ drain \in Nat
      BY <1>1 DEF UdpTypes
    <3>2. c.now \in Nat /\ c.later \in Nat /\ local' = local + c.now /\ drain' = drain + c.later
      BY <2>6, <2>8
    <3> QED BY <3>1, <3>2
  <2>12. /\ count' = count /\ told' = told /\ up' = up /\ made' = made /\ Base(p)' = Base(p)
    BY <1>3 DEF txVars, Base
  <2>13. /\ told[p] <= count[p] /\ d.n <= told[p] /\ d.at = d.n + Base(p) /\ d.ts <= up[p]
    BY <1>1, <2>1 DEF AirInv, AirOk
  <2>14. r.last \in Nat /\ r.ts \in Nat
    BY RecordFields
  \* Who moves its anchor to d has no more credited than d says.
  <2>15. ASSUME credited[p] + g <= d.n + Base(p), x.last = d.n, x.ts = d.ts
         PROVE  LedgerOk(p)' /\ Anchored(x)'
    <3>1. credited'[p] <= told'[p] + Base(p)' /\ told'[p] <= count'[p]
      BY <1>2, <2>9, <2>10, <2>12, <2>13, <2>15
    <3>2. credited'[p] <= x.last + Base(p)' /\ x.last <= count'[p] /\ x.ts <= up'[p]
      BY <1>2, <2>9, <2>10, <2>12, <2>13, <2>15
    <3> QED BY <2>6, <3>1, <3>2 DEF LedgerOk, Anchored
  <2>16. LedgerOk(p)' /\ (Anchored(x)' \/ Outdated(x)')
    <3>1. CASE ~r.heard
      <4>1. credited[p] < d.at
        BY <2>1, <2>2, <3>1 DEF Newer
      <4>2. credited[p] + g <= d.n + Base(p)
        BY <1>2, <2>6, <2>9, <2>13, <3>1, <4>1
      <4> QED BY <2>6, <2>15, <3>1, <4>2
    <3>2. CASE r.heard /\ Anchored(r)
      <4>1. credited[p] <= r.last + Base(p) /\ r.last <= count[p] /\ r.ts <= up[p]
        BY <2>2, <3>2 DEF Anchored
      <4>2. CASE d.n >= r.last
        <5>1. credited[p] + g <= d.n + Base(p)
          BY <1>2, <2>6, <2>7, <2>9, <2>14, <3>2, <4>1, <4>2
        <5> QED BY <2>6, <2>15, <4>2, <5>1
      <4>3. CASE d.n < r.last
        <5>1. r.last - d.n <= NearGap
          BY <1>2, <1>3, <2>1, <2>9, <2>13, <2>14, <4>1, UdpAssumption
        <5>2. ~(d.ts - r.ts < -GapSpan)
          BY <1>2, <1>3, <2>1, <2>9, <2>14, <4>1, UdpAssumption
        <5>3. ~(r.last - d.n > NearGap)
          BY <1>2, <2>14, <5>1, UdpAssumption
        <5>4. ~producerRestarted(r, d)
          BY <5>2, <5>3 DEF producerRestarted
        <5>5. g = 0 /\ x.last = r.last /\ x.ts = r.ts
          BY <2>6, <3>2, <4>3, <5>4
        <5>6. credited'[p] = credited[p]
          BY <2>9, <2>10, <5>5
        <5>7. Anchored(x)'
          BY <2>6, <2>12, <4>1, <5>5, <5>6 DEF Anchored
        <5>8. LedgerOk(p)'
          BY <1>1, <2>12, <5>6 DEF LedgerInv, LedgerOk
        <5> QED BY <5>7, <5>8
      <4> QED BY <1>2, <2>14, <4>2, <4>3
    <3>3. CASE r.heard /\ Outdated(r)
      <4>1. credited[p] <= Base(p) /\ Newer(p) /\ credited[p] < d.at
        BY <2>1, <2>2, <3>3 DEF Outdated, Newer
      <4>2. CASE d.n >= r.last
        <5>1. credited[p] + g <= d.n + Base(p)
          BY <1>2, <2>6, <2>7, <2>9, <2>14, <3>3, <4>1, <4>2
        <5> QED BY <2>6, <2>15, <4>2, <5>1
      <4>3. CASE d.n < r.last /\ producerRestarted(r, d)
        <5>1. g = 1 /\ x.last = d.n /\ x.ts = d.ts
          BY <2>6, <3>3, <4>3
        <5>2. credited[p] + g <= d.n + Base(p)
          BY <1>2, <2>9, <2>13, <4>1, <5>1
        <5> QED BY <2>15, <5>1, <5>2
      <4>4. CASE d.n < r.last /\ ~producerRestarted(r, d)
        <5>1. g = 0
          BY <2>6, <3>3, <4>4
        <5>2. credited'[p] = credited[p]
          BY <2>9, <2>10, <5>1
        <5>3. Newer(p)'
          BY <1>4, <4>1, <5>2 DEF Newer
        <5>4. Outdated(x)'
          BY <2>6, <2>12, <4>1, <5>2, <5>3 DEF Outdated
        <5>5. LedgerOk(p)'
          BY <1>1, <2>12, <5>2 DEF LedgerInv, LedgerOk
        <5> QED BY <5>4, <5>5
      <4> QED BY <1>2, <2>14, <4>2, <4>3, <4>4
    <3> QED BY <2>2, <3>1, <3>2, <3>3 DEF RowOk
  <2>17. RowOk(x)'
    BY <2>6, <2>16 DEF RowOk
  <2>18. \A e \in air' : e \in air /\ e.from \notin Evicted(p)
    BY <1>4, <2>1
  <2> QED BY <1>3, <2>6, <2>8, <2>10, <2>11, <2>16, <2>17, <2>18, TableMoves
<1>5. CASE ~Accepts(d.from) /\ (\A e \in air' : e \in air) /\ UNCHANGED <<table, local, drain, credited>>
  <2>1. local' \in Nat /\ drain' \in Nat
    <3>1. local \in Nat /\ drain \in Nat
      BY <1>1 DEF UdpTypes
    <3> QED BY <1>5, <3>1
  <2>2. UNCHANGED <<count, up, told, made, table, credited>>
    BY <1>3, <1>5 DEF txVars
  <2>3. \A e \in air' : e \in air
    BY <1>5
  <2> QED BY <2>1, <2>2, <2>3, FewerInTheAir
<1>6. Accepts(d.from) =>
        ProcessClick(d) /\ \A e \in air' : e \in air /\ e.from \notin Evicted(d.from)
  BY DEF Receive, InTime
<1>7. ~Accepts(d.from) => (\A e \in air' : e \in air) /\ UNCHANGED <<table, local, drain, credited>>
  BY DEF Receive
<1> QED BY <1>4, <1>5, <1>6, <1>7

LEMMA BeatKeeps ==
  ASSUME UdpInv, NEW p \in Producers, Beat(p)
  PROVE  UdpInv'
<1>1. UdpTypes /\ AirInv /\ LedgerInv /\ RowsInv
  BY DEF UdpInv
<1>2. PICK r \in ProducerRecords : r = FindOrAlloc(p) /\ r.id = p /\ RowOk(r) /\ (~r.heard => Newer(p))
  BY <1>1, FoundIs
<1>3. /\ table' = Append(Others(p), r) /\ UNCHANGED txVars
      /\ UNCHANGED <<local, drain, credited>>
      /\ \A d \in air' : d \in air /\ d.from \notin Evicted(p)
  BY <1>2 DEF Beat, InTime
<1>4. count' = count /\ told' = told /\ up' = up /\ made' = made /\ Base(p)' = Base(p)
  BY <1>3 DEF txVars, Base
<1>5. LedgerOk(p)'
  BY <1>1, <1>3, <1>4 DEF LedgerInv, LedgerOk
<1>6. Newer(p) => Newer(p)'
  BY <1>3 DEF Newer
<1>7. RowOk(r)'
  BY <1>2, <1>3, <1>4, <1>6 DEF RowOk, Anchored, Outdated
<1>8. credited' \in [Producers -> Nat] /\ local' \in Nat /\ drain' \in Nat
  BY <1>1, <1>3 DEF UdpTypes
<1> QED BY <1>2, <1>3, <1>5, <1>6, <1>7, <1>8, TableMoves

LEMMA UdpInitial == UdpInit => UdpInv
<1> SUFFICES ASSUME UdpInit PROVE UdpInv
  OBVIOUS
<1>1. /\ count \in [Producers -> Starts] /\ told = count
      /\ up = [p \in Producers |-> 0] /\ made = [p \in Producers |-> 0]
      /\ credited = [p \in Producers |-> 0] /\ air = {} /\ table = <<>> /\ local = 0 /\ drain = 0
  BY DEF UdpInit
<1>2. count \in [Producers -> Counts]
  BY <1>1, UdpAssumption DEF Counts
<1>3. UdpTypes
  BY <1>1, <1>2 DEF UdpTypes
<1>4. AirInv /\ RowsInv
  BY <1>1 DEF AirInv, RowsInv, Newer
<1>5. ASSUME NEW p \in Producers PROVE LedgerOk(p)
  <2>1. count[p] \in Nat /\ told[p] = count[p] /\ made[p] = 0 /\ credited[p] = 0
    BY <1>1, <1>3, UdpFields
  <2> QED BY <2>1 DEF LedgerOk, Base
<1> QED BY <1>3, <1>4, <1>5 DEF UdpInv, LedgerInv

LEMMA UdpStep == UdpInv /\ [UdpNext]_udpVars => UdpInv'
<1> SUFFICES ASSUME UdpInv, [UdpNext]_udpVars PROVE UdpInv'
  OBVIOUS
<1>1. UdpTypes /\ AirInv /\ LedgerInv /\ RowsInv
  BY DEF UdpInv
<1>2. ASSUME NEW p \in Producers, Click(p) \/ Age(p) \/ Emit(p) \/ Reboot(p) \/ Beat(p) PROVE UdpInv'
  BY <1>2, ClickKeeps, AgeKeeps, EmitKeeps, RebootKeeps, BeatKeeps
<1>3. ASSUME NEW d \in air, Receive(d) PROVE UdpInv'
  BY <1>3, ReceiveKeeps
<1>4. ASSUME NEW d \in air, Lose(d) PROVE UdpInv'
  <2>1. local' \in Nat /\ drain' \in Nat
    <3>1. local \in Nat /\ drain \in Nat
      BY <1>1 DEF UdpTypes
    <3>2. local' = local /\ drain' = drain
      BY <1>4 DEF Lose, rxVars
    <3> QED BY <3>1, <3>2
  <2>2. UNCHANGED <<count, up, told, made, table, credited>>
    BY <1>4 DEF Lose, txVars, rxVars
  <2>3. \A e \in air' : e \in air
    BY <1>4 DEF Lose
  <2> QED BY <2>1, <2>2, <2>3, FewerInTheAir
<1>5. ASSUME NEW k \in 1 .. drain, Drain(k) PROVE UdpInv'
  <2>1. drain \in Nat /\ local \in Nat /\ drain' = drain - k /\ local' = local + k
    BY <1>1, <1>5 DEF UdpTypes, Drain
  <2>2. drain' \in Nat /\ local' \in Nat
    BY <2>1
  <2> QED BY <1>1, <1>5, <2>2, FewerInTheAir DEF Drain, txVars
<1>6. ASSUME NEW m \in ListenModes, Settings(m) PROVE UdpInv'
  BY <1>1, <1>6, FewerInTheAir DEF Settings, txVars, UdpTypes
<1>7. CASE UNCHANGED udpVars
  BY <1>1, <1>7, FewerInTheAir DEF udpVars, UdpTypes
<1> QED BY <1>2, <1>3, <1>4, <1>5, <1>6, <1>7 DEF UdpNext

\* GeigerUdpRx: the invariant of what was credited against what was told.
THEOREM UdpInductive == UdpSpec => []UdpInv
<1> QED BY UdpInitial, UdpStep, PTL DEF UdpSpec

\* GeigerUdpRx: for any producers, slots, gaps and counts, and a network that loses, repeats and
\* reorders, no click of a producer is credited twice, and what lost datagrams carried is made good.
THEOREM UdpForAll == UdpSpec => [](NeverOvercounts /\ GapsAreFilled)
<1>1. UdpInv => NeverOvercounts
  <2> SUFFICES ASSUME UdpInv, NEW p \in Producers PROVE credited[p] <= made[p]
    BY DEF NeverOvercounts
  <2>1. UdpTypes /\ LedgerOk(p)
    BY DEF UdpInv, LedgerInv
  <2>2. count[p] \in Nat /\ told[p] \in Nat /\ made[p] \in Nat /\ credited[p] \in Nat
    BY <2>1, UdpFields
  <2> QED BY <2>1, <2>2 DEF LedgerOk, Base
<1>2. UdpInv => GapsAreFilled
  BY DEF UdpInv, RowsInv, RowOk, GapsAreFilled
<1> QED BY <1>1, <1>2, UdpInductive, PTL
=============================================================================
