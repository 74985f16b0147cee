---------------------------- MODULE UdpClicks ----------------------------
(* Clicks over UDP: each producer (UdpBlip) sends datagrams that carry its *)
(* running count, and a receiver (GeigerUdpRx) counts clicks from them.    *)
(* Datagrams are lost, repeated and overtaken; the network delays one by   *)
(* no more than NearGap clicks and a minute, and not past a reboot, the    *)
(* wrap of the count or the eviction of its producer (the code would count *)
(* it again).  Tokens and failed sends only put a datagram off, or lose    *)
(* it: both are the choice to send later or in vain.  Time is in quarter   *)
(* minutes.                                                                *)
EXTENDS Integers, Sequences, FiniteSets, FiniteSetsExt, Selections

CONSTANTS
  Producers,  \* devices that send clicks
  ProducerSlots, \* UDPRX_PRODUCER_SLOTS
  NearGap,    \* a gap credited at once, a step back that is reordering (1024)
  FarGap,     \* a gap credited by the second (65535)
  GapSpan,    \* 60 s, the span of a gap that is believed
  CountWrap,  \* 2^32
  Starts,     \* counts the producers may have reached when the run starts
  ClickLimit, \* bounds of the run: the clicks of each producer,
  MaxUp,      \* its age, and
  MaxAir, MaxTurns  \* the datagrams at once and the boots and new settings

ASSUME UdpAssumption ==
  /\ ProducerSlots \in Nat \ {0} /\ NearGap \in Nat /\ FarGap \in Nat /\ GapSpan \in Nat
  /\ CountWrap \in Nat \ {0} /\ Starts \subseteq 0 .. CountWrap - 1
  /\ ClickLimit \in [Producers -> Nat] /\ MaxUp \in [Producers -> Nat]

VARIABLES
  count,    \* Counter::total_clicks + s_event_counter of each producer
  up,       \* its clock, since its boot
  told,     \* UdpBlipModule::_last_clicks
  made,     \* ghost: all the clicks of each producer since the run started
  air,      \* datagrams on their way
  listen,   \* GeigerUdpRx::_mode and _pinned_chipid
  locked,   \* _locked_chipid, or "none"
  table,    \* _producers, the one heard longest ago first
  local,    \* _local_count
  drain,    \* _drain_pending
  credited, \* ghost: what was counted, or is owed, of each producer
  turns     \* boots and changed settings so far

udpVars == <<count, up, told, made, air, listen, locked, table, local, drain, credited, turns>>
rxVars  == <<listen, locked, table, local, drain, credited>>
txVars  == <<count, up, told, made>>

ListenModes == {"sum", "first"} \union Producers

UdpInit ==
  /\ count \in [Producers -> Starts] /\ told = count
  /\ up = [p \in Producers |-> 0] /\ made = [p \in Producers |-> 0]
  /\ air = {} /\ listen \in {"sum", "first"} /\ locked = "none"
  /\ table = <<>> /\ local = 0 /\ drain = 0
  /\ credited = [p \in Producers |-> 0]
  /\ turns = 0

------------------------------------------------------------------------
(* The producer. *)

Click(p) ==
  /\ made[p] < ClickLimit[p]
  /\ count' = [count EXCEPT ![p] = (@ + 1) % CountWrap]
  /\ made' = [made EXCEPT ![p] = @ + 1]
  /\ air' = {d \in air : d.from # p \/ count'[p] # 0}
  /\ UNCHANGED <<up, told, rxVars, turns>>

\* The quarter minute passes for a producer.
Age(p) ==
  /\ up[p] < MaxUp[p]
  /\ up' = [up EXCEPT ![p] = @ + 1]
  /\ UNCHANGED <<count, told, made, air, rxVars, turns>>

\* One datagram stands for every click since the last one.
Emit(p) ==
  /\ count[p] # told[p]
  /\ told' = [told EXCEPT ![p] = count[p]]
  /\ \/ Cardinality(air) < MaxAir
        /\ air' = air \union {[from |-> p, n |-> count[p], ts |-> up[p], at |-> made[p]]}
     \/ UNCHANGED air
  /\ UNCHANGED <<count, up, made, rxVars, turns>>

Reboot(p) ==
  /\ turns < MaxTurns /\ turns' = turns + 1
  /\ count' = [count EXCEPT ![p] = 0] /\ told' = [told EXCEPT ![p] = 0]
  /\ up' = [up EXCEPT ![p] = 0]
  /\ air' = {d \in air : d.from # p}
  /\ UNCHANGED <<made, rxVars>>

------------------------------------------------------------------------
(* The receiver. *)

Accepts(p) ==
  \/ listen \in {"sum", p}
  \/ listen = "first" /\ locked \in {"none", p}

Latch(p) == IF listen = "first" THEN p ELSE locked

Fresh(p) == [id |-> p, heard |-> FALSE, last |-> 0, ts |-> 0, first |-> 0, since |-> 0]

Known(p) == {i \in DOMAIN table : table[i].id = p}

\* The one heard longest ago gives p its slot.
Evicted(p) == IF Known(p) = {} /\ Len(table) = ProducerSlots THEN {table[1].id} ELSE {}

Others(p) == Only(table, {i \in DOMAIN table : table[i].id \notin {p} \union Evicted(p)})

InTime(p, ds) == {d \in ds : d.from \notin Evicted(p)}

FindOrAlloc(p) == IF Known(p) = {} THEN Fresh(p) ELSE table[CHOOSE i \in Known(p) : TRUE]

\* What a datagram that is ahead by a gap is worth: [now, later, sync].
ForwardGap(r, d) ==
  LET gap == d.n - r.last - 1
      dt  == d.ts - r.ts
  IN  IF gap <= NearGap THEN [now |-> gap + 1, later |-> 0, sync |-> FALSE]
      ELSE IF gap <= FarGap /\ dt > 0 /\ dt < GapSpan
           THEN [now |-> 1, later |-> gap, sync |-> FALSE]
      ELSE [now |-> 1, later |-> 0, sync |-> TRUE]

producerRestarted(r, d) == r.last - d.n > NearGap \/ d.ts - r.ts < -GapSpan

\* Only a datagram that is behind and no restart leaves the anchor alone.
Overtaken(r, d) == r.heard /\ d.n < r.last /\ ~producerRestarted(r, d)

Credit(r, d) ==
  CASE r.heard /\ d.n = r.last -> [now |-> 0, later |-> 0, sync |-> FALSE]
    [] r.heard /\ d.n > r.last -> ForwardGap(r, d)
    [] Overtaken(r, d) -> [now |-> 0, later |-> 0, sync |-> FALSE]
    [] OTHER -> [now |-> 1, later |-> 0, sync |-> TRUE]

\* first and since are ghosts: the count a run of credits began at, and their sum.
Noted(r, d, c) ==
  LET seen == [r EXCEPT !.heard = @ \/ c.now > 0,
                        !.first = IF c.sync THEN d.n ELSE @,
                        !.since = IF c.sync THEN 1 ELSE @ + c.now + c.later]
  IN  IF Overtaken(r, d) THEN seen ELSE [seen EXCEPT !.last = d.n, !.ts = d.ts]

ProcessClick(d) ==
  LET r == FindOrAlloc(d.from)
      c == Credit(r, d)
  IN  /\ table' = Append(Others(d.from), Noted(r, d, c))
      /\ local' = local + c.now
      /\ drain' = drain + c.later
      /\ credited' = [credited EXCEPT ![d.from] = @ + c.now + c.later]

\* A datagram arrives, and may arrive again.
Receive(d) ==
  /\ made[d.from] - d.at <= NearGap /\ up[d.from] - d.ts <= GapSpan
  /\ \E left \in {air, air \ {d}} :
       IF Accepts(d.from)
       THEN ProcessClick(d) /\ locked' = Latch(d.from) /\ air' = InTime(d.from, left)
       ELSE air' = left /\ UNCHANGED <<table, local, drain, credited, locked>>
  /\ UNCHANGED <<txVars, listen, turns>>

Lose(d) == air' = air \ {d} /\ UNCHANGED <<txVars, rxVars, turns>>

\* Readings of another kind only keep the producer's slot.
Beat(p) ==
  /\ Accepts(p)
  /\ table' = Append(Others(p), FindOrAlloc(p)) /\ locked' = Latch(p)
  /\ air' = InTime(p, air)
  /\ UNCHANGED <<txVars, listen, local, drain, credited, turns>>

\* secondTicker(): a part of what is owed, at the rate of the longest gap.
Drain(k) ==
  /\ drain' = drain - k /\ local' = local + k
  /\ UNCHANGED <<txVars, air, listen, locked, table, credited, turns>>

\* on_prefs_saved(): another mode latches again.
Settings(m) ==
  /\ turns < MaxTurns /\ turns' = turns + 1 /\ m # listen
  /\ listen' = m
  /\ locked' = IF (m = "sum") # (listen = "sum") THEN "none" ELSE locked
  /\ UNCHANGED <<txVars, air, table, local, drain, credited>>

UdpNext ==
  \/ \E p \in Producers : Click(p) \/ Age(p) \/ Emit(p) \/ Reboot(p) \/ Beat(p)
  \/ \E d \in air : Receive(d) \/ Lose(d)
  \/ \E k \in 1 .. drain : Drain(k)
  \/ \E m \in ListenModes : Settings(m)

UdpSpec == UdpInit /\ [][UdpNext]_udpVars

------------------------------------------------------------------------
Total(f) == MapThenSumSet(LAMBDA p : f[p], DOMAIN f)

UdpTypeOK ==
  /\ count \in [Producers -> 0 .. CountWrap - 1] /\ told \in [Producers -> 0 .. CountWrap - 1]
  /\ \A p \in Producers : up[p] \in 0 .. MaxUp[p] /\ made[p] \in 0 .. ClickLimit[p]
  /\ \A d \in air : d.from \in Producers /\ d.n \in 0 .. CountWrap - 1 /\ d.ts \in 0 .. MaxUp[d.from]
  /\ listen \in ListenModes /\ locked \in Producers \union {"none"}
  /\ Len(table) <= ProducerSlots /\ \A i, j \in 1 .. Len(table) : table[i].id = table[j].id => i = j
  /\ local \in Nat /\ drain \in Nat

\* However datagrams are lost, repeated or overtaken and producers boot, the receiver
\* never counts, or owes, more clicks of a producer than it had.
NeverOvercounts == \A p \in Producers : credited[p] <= made[p]

\* What it shows, with what it owes, is what it credited.
CreditsAreCounted == local + drain = Total(credited)

\* Between two resyncs the credits of a producer add up to its count: what the
\* lost datagrams carried is made good by the next, and a late one adds nothing.
GapsAreFilled ==
  \A i \in 1 .. Len(table) :
    LET r == table[i] IN r.heard => r.since = r.last - r.first + 1

ClicksCountOnce == NeverOvercounts /\ GapsAreFilled /\ CreditsAreCounted
============================================================================
