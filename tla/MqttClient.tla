---------------------------- MODULE MqttClient ----------------------------
(* MQTT_Client: what the device tells its broker and Home Assistant, over  *)
(* EGMqtt, whose outbox keeps messages over lost connections (MqttSession  *)
(* models it in full; here its records take a slot each).  s_tick() queues *)
(* work as pending bits, loop() does one piece a call, and the callbacks   *)
(* of EGMqtt run first in it.  ALERT is handled as WARN is and is left out, *)
(* as are the counts of publish results.                                   *)
EXTENDS Naturals, Sequences, SequencesExt

CONSTANTS
  Configs,   \* settings that may be saved: [server, good, hass, need]
  Room,      \* slots of the outbox, of which need are kept for a CONNECT
  HassRoom,  \* slots HASS_PACKET_MAX asks for
  Rows,      \* entities of a discovery walk
  MaxTurns   \* bound: saves, lost connections, level changes, births of HA, timed publishes

VARIABLES
  conf,    \* the saved settings: a server, credentials it takes, HA on, CONNECT's slots
  m,       \* MQTT_Client
  mq,      \* EGMqtt: its state, the outbox, the slots reserved by the last CONNECT
  sent,    \* the broker has taken so many records of the outbox
  broker,  \* what it shows: lwt and warn
  level,   \* gcounter.is_warning(), once warm
  birth,   \* ghost: HA came online: "no", "heard", "walking"
  lost,    \* ghost: stop() dropped a message
  spent    \* turns so far

mqcVars == <<conf, m, mq, sent, broker, level, birth, lost, spent>>

Pending == {"connect", "lwt", "sub", "warn", "status", "ping"}

Rec(what, v) == [what |-> what, v |-> v]

Fresh(s) ==
  [enabled |-> s.server, pending |-> {}, auth |-> 0, reanchor |-> FALSE, connected |-> FALSE,
   listen |-> FALSE, retrigger |-> FALSE, next |-> "none", recent |-> FALSE,
   walk |-> 0, idx |-> 0, warnSent |-> FALSE]

Init ==
  /\ conf \in Configs /\ m = Fresh(conf)
  /\ mq = [state |-> "down", out |-> <<>>, reserve |-> conf.need]
  /\ sent = 0 /\ broker = [lwt |-> "offline", warn |-> FALSE] /\ level = FALSE
  /\ birth = "no" /\ lost = FALSE /\ spent = 0

------------------------------------------------------------------------
(* EGMqtt, as the client uses it: q is mq. *)

Fits(q, slots) == Len(q.out) + slots <= Room - q.reserve

Publish(q, r) == [q EXCEPT !.out = Append(@, r)]

\* end(): a subscribe that was not answered is lost with its connection.
Ended(q) == [q EXCEPT !.state = "down", !.out = SelectSeq(@, LAMBDA r : r.what # "sub")]

Stopped(q) == [q EXCEPT !.state = "down", !.out = <<>>]

------------------------------------------------------------------------
(* The callbacks: what EGMqtt met since the last call. *)

SetupHassCB(c) ==
  [c EXCEPT !.listen = conf.hass,
            !.pending = IF conf.hass THEN @ \union {"sub"} ELSE @ \ {"sub"}]

OnMqttConnect(c) ==
  SetupHassCB([c EXCEPT !.connected = TRUE, !.reanchor = TRUE, !.auth = 0,
                        !.pending = @ \union {"lwt"}])

\* Three refused credentials stop the client till the settings are saved.
OnMqttDisconnect(c, denied) ==
  LET auth == IF denied THEN c.auth + 1 ELSE c.auth IN
  [c EXCEPT !.auth = auth, !.connected = FALSE,
            !.enabled = @ /\ ~(denied /\ auth >= 3),
            !.idx = IF c.walk # 0 THEN 0 ELSE @]

OnMqttMessage(c) == [c EXCEPT !.retrigger = c.listen \/ @]

\* The new client, EGMqtt, the records the broker has, what it shows, and birth.
Event(e) ==
  CASE e = "up" ->
         [m |-> OnMqttConnect(m), mq |-> [mq EXCEPT !.state = "up"],
          sent |-> 0, broker |-> broker, birth |-> birth]
    [] e = "refused" ->
         LET c == OnMqttDisconnect(m, ~conf.good) IN
         [m |-> c, mq |-> IF c.enabled THEN Ended(mq) ELSE Stopped(mq),
          sent |-> 0, broker |-> broker, birth |-> birth]
    [] e = "lost" ->
         [m |-> OnMqttDisconnect(m, FALSE), mq |-> Ended(mq),
          sent |-> 0, broker |-> [broker EXCEPT !.lwt = "offline"], birth |-> birth]
    [] e = "ack" ->
         [m |-> m, mq |-> [mq EXCEPT !.out = Tail(@)],
          sent |-> sent - 1, broker |-> broker, birth |-> birth]
    [] e = "birth" ->
         [m |-> OnMqttMessage(m), mq |-> mq, sent |-> sent, broker |-> broker,
          birth |-> IF m.listen THEN "heard" ELSE birth]
    [] OTHER ->
         [m |-> m, mq |-> mq, sent |-> sent, broker |-> broker, birth |-> birth]

Meets(e) ==
  \/ e = "none"
  \/ e = "up" /\ mq.state = "dialing" /\ conf.good
  \/ e = "refused" /\ mq.state = "dialing" /\ (~conf.good \/ spent < MaxTurns)
  \/ e = "lost" /\ mq.state = "up" /\ spent < MaxTurns
  \/ e = "ack" /\ mq.state = "up" /\ sent > 0
  \/ e = "birth" /\ mq.state = "up" /\ spent < MaxTurns

Costs(e) == e \in {"lost", "birth"} \/ (e = "refused" /\ conf.good)

------------------------------------------------------------------------
(* loop(), after the callbacks: s is what Event left. *)

Done(s, bit) == [s EXCEPT !.m.pending = @ \ {bit}]

\* Queued when there is room; whether the bit goes as well is the caller's.
Queued(s, r) == IF Fits(s.mq, 1) THEN [s EXCEPT !.mq = Publish(@, r)] ELSE s

\* The settings are set anew, each refused unless the CONNECT fits the queue.
Reconnect(s, dials) ==
  IF s.mq.state # "down" THEN s
  ELSE IF Len(s.mq.out) + conf.need > Room THEN s
  ELSE [s EXCEPT !.mq.reserve = conf.need,
                 !.mq.state = IF dials THEN "dialing" ELSE "down"]

\* mutant: Online is taken for sent though the outbox was full
SendHelloOnce(s) ==
  IF "lwt" \in s.m.pending THEN Done(Queued(s, Rec("lwt", TRUE)), "lwt")
  ELSE Done(Queued(s, Rec("sub", TRUE)), "sub")

SendHello(s) ==
  IF "lwt" \in s.m.pending
  THEN IF Fits(s.mq, 1) THEN Done(Queued(s, Rec("lwt", TRUE)), "lwt") ELSE s
  ELSE IF Fits(s.mq, 1) THEN Done(Queued(s, Rec("sub", TRUE)), "sub") ELSE s

PublishWarn(s) ==
  IF Fits(s.mq, 1) THEN Done(Queued(s, Rec("warn", s.m.warnSent)), "warn") ELSE s

PublishStatus(s) == Done(Queued(s, Rec("status", TRUE)), "status")

PublishPing(s) == Done(Queued(s, Rec("ping", TRUE)), "ping")

\* A walk waits for acks, and ends in the call after its last row.
StepHassDiscovery(s) ==
  IF ~Fits(s.mq, HassRoom) THEN s
  ELSE IF s.m.idx < Rows
  THEN [Queued(s, Rec(IF s.m.walk > 0 THEN "row" ELSE "gone", TRUE)) EXCEPT !.m.idx = @ + 1]
  ELSE [s EXCEPT !.m.walk = 0, !.m.recent = @ \/ s.m.walk > 0,
                 !.birth = IF s.m.walk > 0 /\ @ = "walking" THEN "no" ELSE @]

Work(s, backoff, dials) ==
  LET p == s.m.pending IN
  CASE ~s.m.enabled -> s
    [] s.m.enabled /\ "connect" \in p ->
         IF backoff THEN Done(s, "connect") ELSE Reconnect(Done(s, "connect"), dials)
    [] OTHER ->
         CASE s.mq.state # "up"            -> s
           [] s.mq.state = "up" /\ p \intersect {"lwt", "sub"} # {} -> SendHello(s)
           [] OTHER ->
                IF "warn" \in p THEN PublishWarn(s)
                ELSE IF "status" \in p /\ Fits(s.mq, 1) THEN PublishStatus(s)
                ELSE IF "ping" \in p THEN PublishPing(s)
                ELSE IF s.m.walk # 0 THEN StepHassDiscovery(s)
                ELSE s

LoopStep(e, backoff, dials) ==
  /\ conf.server /\ Meets(e)
  /\ LET s == Work(Event(e), backoff, dials) IN
       /\ m' = s.m /\ mq' = s.mq /\ sent' = s.sent /\ broker' = s.broker /\ birth' = s.birth
       /\ lost' = (lost \/ (e = "refused" /\ ~s.m.enabled /\ mq.out # <<>>))
  /\ spent' = IF Costs(e) THEN spent + 1 ELSE spent
  /\ UNCHANGED <<conf, level>>

Loop ==
  \E e \in {"none", "up", "refused", "lost", "ack", "birth"}, backoff, dials \in BOOLEAN :
    (backoff => dials) /\ LoopStep(e, backoff, dials)

------------------------------------------------------------------------
(* s_tick() *)

SetupHassAuto(c) ==
  IF conf.hass /\ c.walk = 0 THEN [c EXCEPT !.walk = 1, !.idx = 0] ELSE c

\* Once a walk is over and the last one is not recent.
TriggerHassDiscovery(c) ==
  IF c.walk # 0 \/ c.recent THEN c
  ELSE [SetupHassAuto(c) EXCEPT !.next = "waiting"]

ScheduleHassDiscovery(c, reconnected) ==
  LET at == IF c.retrigger \/ (reconnected /\ c.next \in {"none", "due"}) THEN "waiting" ELSE c.next
      u  == [c EXCEPT !.retrigger = FALSE, !.next = at]
  IN  IF at = "due" THEN TriggerHassDiscovery(u) ELSE u

TickStep(timed, warm) ==
  /\ conf.server /\ m.enabled
  /\ timed # {} => spent < MaxTurns
  /\ spent' = IF timed = {} THEN spent ELSE spent + 1
  /\ IF mq.state # "up"
     THEN m' = [m EXCEPT !.pending = @ \union {"connect"}] /\ UNCHANGED birth
     ELSE LET c == ScheduleHassDiscovery([m EXCEPT !.reanchor = FALSE], m.reanchor)
              u == [c EXCEPT !.pending = @ \union timed]
          IN /\ m' = IF warm /\ level # m.warnSent
                     THEN [u EXCEPT !.warnSent = level, !.pending = @ \union {"warn"}] ELSE u
             /\ birth' = IF birth = "heard" /\ c.walk = 1 /\ m.walk = 0 THEN "walking" ELSE birth
  /\ UNCHANGED <<conf, mq, sent, broker, level, lost>>

Tick == \E timed \in {{}, {"status", "ping"}}, warm \in BOOLEAN : TickStep(timed, warm)

\* The hour of the refresh, the spread of a birth, or the throttle is over.
Due ==
  /\ m.next = "waiting" /\ m' = [m EXCEPT !.next = "due"]
  /\ UNCHANGED <<conf, mq, sent, broker, level, birth, lost, spent>>

Forget ==
  /\ m.recent /\ m' = [m EXCEPT !.recent = FALSE]
  /\ UNCHANGED <<conf, mq, sent, broker, level, birth, lost, spent>>

------------------------------------------------------------------------
\* on_prefs_saved() and begin(): the connection is closed with a DISCONNECT,
\* and what waits in the outbox waits for the next one.
SavePrefs(s) ==
  /\ spent < MaxTurns /\ spent' = spent + 1 /\ conf' = s
  /\ LET walk == IF m.walk > 0 THEN 0 ELSE m.walk
         gone == m.connected /\ ~s.hass /\ walk = 0
     IN m' = [m EXCEPT !.connected = FALSE, !.enabled = s.server, !.auth = 0, !.next = "none",
                       !.walk = IF gone THEN -1 ELSE walk,
                       !.idx = IF gone THEN 0 ELSE @]
  /\ mq' = IF s.server THEN Ended(mq) ELSE Stopped(mq)
  /\ lost' = (lost \/ (~s.server /\ mq.out # <<>>))
  /\ sent' = 0 /\ birth' = "no"
  /\ UNCHANGED <<broker, level>>

LevelChanges ==
  /\ spent < MaxTurns /\ spent' = spent + 1 /\ level' = ~level
  /\ UNCHANGED <<conf, m, mq, sent, broker, birth, lost>>

\* The broker takes the next record; the same again after a lost connection.
Deliver ==
  /\ mq.state = "up" /\ sent < Len(mq.out) /\ sent' = sent + 1
  /\ LET r == mq.out[sent + 1] IN
     broker' = CASE r.what = "lwt"  -> [broker EXCEPT !.lwt = "online"]
                 [] r.what = "warn" -> [broker EXCEPT !.warn = r.v]
                 [] OTHER           -> broker
  /\ UNCHANGED <<conf, m, mq, level, birth, lost, spent>>

Next ==
  \/ Loop \/ Tick \/ Due \/ Forget \/ LevelChanges \/ Deliver
  \/ \E s \in Configs : SavePrefs(s)

Works(e) == LoopStep(e, FALSE, TRUE)

\* The module is looped and ticked, time passes, and a broker that keeps its
\* connection takes what it is sent.
Fairness ==
  /\ WF_mqcVars(TickStep({}, TRUE)) /\ WF_mqcVars(Due) /\ WF_mqcVars(Forget)
  /\ WF_mqcVars(Deliver) /\ WF_mqcVars(Works("up")) /\ WF_mqcVars(Works("ack"))
  /\ SF_mqcVars(Works("none"))

Spec == Init /\ [][Next]_mqcVars /\ Fairness

------------------------------------------------------------------------
TypeOK ==
  /\ conf \in Configs /\ m.pending \subseteq Pending /\ m.auth \in 0 .. 3
  /\ m.next \in {"none", "waiting", "due"} /\ m.walk \in {-1, 0, 1} /\ m.idx \in 0 .. Rows
  /\ mq.state \in {"down", "dialing", "up"} /\ Len(mq.out) <= Room
  /\ sent \in 0 .. Len(mq.out) /\ broker.lwt \in {"offline", "online"}
  /\ birth \in {"no", "heard", "walking"} /\ spent \in 0 .. MaxTurns

\* The alarm the broker will show when it has what it was sent.
Shown == LET a == SelectSeq(mq.out, LAMBDA r : r.what = "warn")
         IN IF a = <<>> THEN broker.warn ELSE Last(a).v

\* An alarm that was noted as sent is with the broker, in the outbox, or still
\* to do, through a full outbox and lost connections.
AlarmsAreKept == lost \/ "warn" \in m.pending \/ Shown = m.warnSent

\* With settings the broker takes the device connects again, ...
Reachable == conf.server /\ conf.good

Connects == []<>(~Reachable \/ mq.state = "up")

\* ... shows Online there, whatever its will said, ...
SaysOnline == []<>(~Reachable \/ broker.lwt = "online")

\* ... and answers each birth of Home Assistant with a whole walk begun after it.
BirthIsAnswered == []<>(~Reachable \/ ~conf.hass \/ birth = "no")
============================================================================
