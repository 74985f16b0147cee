----------------------------- MODULE MqttSession -----------------------------
(***************************************************************************)
(* EGMqtt, the MQTT 3.1.1 client run from the main loop: an outbox that    *)
(* keeps QoS 1 and 2 messages over lost connections, the handshake of both *)
(* levels in both directions, and the session the broker may or may not    *)
(* have kept.                                                              *)
(*                                                                         *)
(* Sizes are slots: a record of the outbox takes one, OUT_CAP is Room and  *)
(* what publish leaves free for a CONNECT and acks is Reserve.  A PUBREL   *)
(* takes the slot of its PUBLISH, which is never smaller.  A write moves   *)
(* whole packets: the rest of one cut short is dropped with the connection *)
(* (end clears _txOff) and the broker drops its beginning.                 *)
(*                                                                         *)
(* Left out: QoS 0, pings, unsubscribe (as subscribe), packets over        *)
(* IN_CAP, the bytes of a packet.  The broker and the TCP connection are   *)
(* external.                                                               *)
(***************************************************************************)
EXTENDS Naturals, Sequences, SequencesExt, FiniteSets, Selections

CONSTANTS
  Qos,          \* QoS (1 or 2) of each message the caller publishes, in order
  InQos,        \* the QoS (1 or 2) that each message of the broker may have, in order
  Room,         \* records the outbox holds (EGMQTT_OUT_CAP)
  Reserve,      \* of these, kept from publish and subscribe (_reserve)
  IdMax,        \* packet ids are 1..IdMax (65535)
  Q2Max,        \* EGMQTT_QOS2_IN
  Asks,         \* bound: subscribe calls
  Breaks        \* bound: connections lost or stopped, and sessions the broker loses

ASSUME SizesAssumption == /\ {Room, Reserve, IdMax, Q2Max} \subseteq Nat \ {0}
                          /\ Reserve < Room
                          /\ IdMax >= Room - Reserve
                          /\ Qos \in Seq({1, 2}) /\ InQos \in Seq(SUBSET {1, 2})
                          /\ Asks \in Nat /\ Breaks \in Nat

VARIABLES
  clean,        \* _clean, set before the first connect
  out,          \* _m->out: the records, without the S_DONE ones
  phase,        \* _phase
  q2,           \* _q2: ids of QoS 2 messages delivered, PUBREL awaited
  up, old,      \* packets on their way to the broker; the first `old` are of an ended connection
  down,         \* packets on their way to us
  kept,         \* the broker holds a session for us
  bq2,          \* its ids of QoS 2 messages taken, PUBREL awaited
  sending,      \* its messages to us that are not acked
  next, asked,  \* history: messages published, subscribe calls accepted
  acked, told,  \* history: messages acked to the caller, subscribe calls answered
  dropped,      \* history: messages stop() dropped
  ever, taken,  \* history: messages the broker took, and how often in this session
  given, got,   \* history: QoS of the messages the broker sent, how often each was delivered
  finished,     \* history: messages to us that the broker knows were delivered
  forgot,       \* history: the broker lost a session
  breaks

client == <<clean, out, phase, q2>>
pipes == <<up, old, down>>
broker == <<kept, bq2, sending>>
caller == <<next, asked, acked, told, dropped>>
peer == <<ever, taken, given, finished, forgot>>
vars == <<clean, out, phase, q2, up, old, down, kept, bq2, sending, next, asked, acked, told, dropped,
          ever, taken, given, got, finished, forgot, breaks>>

Messages == 1..Len(Qos)
Inbound == 1..Len(InQos)
Ids == 1..IdMax

\* Kinds from K_PUB1 on: kept till acked.
KeptKinds == {"pub1", "pub2", "rel", "sub"}
Kinds == KeptKinds \cup {"connect", "once"}

\* An outbox record; `pkt` tells the acks apart, which all are K_ONCE.
Rec(kind, pkt, id, m) == [kind |-> kind, pkt |-> pkt, id |-> id, m |-> m, sent |-> "new"]
Packet(pkt, id, m) == [pkt |-> pkt, id |-> id, m |-> m]

Has(o, kind, id) == \E j \in DOMAIN o : o[j].kind = kind /\ o[j].id = id
Without(o, kind, id) == Only(o, {j \in DOMAIN o : o[j].kind # kind \/ o[j].id # id})
\* The messages of the records `find` would give, for the caller's ack.
Of(o, kind, id) == {o[j].m : j \in {k \in DOMAIN o : o[k].kind = kind /\ o[k].id = id}}

\* mutant: an id is not kept from wrapping to 0
FreeIdsWithZero == (0..IdMax) \ {out[j].id : j \in DOMAIN out}

\* _lastId may stand anywhere: the caller's QoS 0 and refused calls move it too.
FreeIds == Ids \ {out[j].id : j \in DOMAIN out}

\* mutant: reading stops when no publish fits
AcksFitPublish == Len(out) < Room - Reserve

\* tail(&cap, true), and acks_fit()
RoomToPublish == Len(out) < Room - Reserve
AcksFit == Len(out) < Room

-----------------------------------------------------------------------------
(* Calls of the application *)

\* publish or publish_end.  The flush at its end is Flush, which the TCP window may delay.
Publish ==
  /\ next < Len(Qos) /\ RoomToPublish
  /\ next' = next + 1
  /\ \E id \in FreeIds, kind \in {"pub1", "pub2"} :
       /\ kind = IF Qos[next + 1] = 1 THEN "pub1" ELSE "pub2"
       /\ out' = Append(out, Rec(kind, kind, id, next + 1))
  /\ UNCHANGED <<clean, phase, q2, pipes, broker, asked, acked, told, dropped, peer, got, breaks>>

Subscribe ==
  /\ asked < Asks /\ phase = "up" /\ RoomToPublish
  /\ asked' = asked + 1
  /\ \E id \in FreeIds : out' = Append(out, Rec("sub", "sub", id, 0))
  /\ UNCHANGED <<clean, phase, q2, pipes, broker, next, acked, told, dropped, peer, got, breaks>>

Connect ==
  /\ phase = "idle"
  /\ phase' = "dial"
  /\ UNCHANGED <<clean, out, q2, pipes, broker, caller, peer, got, breaks>>

-----------------------------------------------------------------------------
(* The end of a connection *)

\* mutant: a subscribe goes with its connection, untold
EndedUntold(o) == Only(o, {j \in DOMAIN o : o[j].kind \in KeptKinds \ {"sub"}})

\* A subscribe is lost with its connection, told from events(); acks and CONNECT go.
Ended(o) ==
  LET lost == [j \in DOMAIN o |-> IF o[j].kind = "sub" THEN [o[j] EXCEPT !.sent = "lost"] ELSE o[j]]
  IN Only(lost, {j \in DOMAIN o : o[j].kind \in KeptKinds})

\* The broker may still read a part of what was written.
CloseTcp ==
  /\ \E n \in 0..Len(up) : up' = SubSeq(up, 1, n) /\ old' = n
  /\ down' = <<>>

\* A timeout, a refusal, a broken connection, or disconnect().
End ==
  /\ phase # "idle" /\ breaks < Breaks
  /\ phase' = "idle"
  /\ out' = Ended(out)
  /\ CloseTcp
  /\ breaks' = breaks + 1
  /\ UNCHANGED <<clean, q2, broker, caller, peer, got>>

\* Only by a caller that does not ask for its session back, as ESPGeiger is: the broker of
\* one that does would take a new message for the resend of a dropped one of the same id.
Stop ==
  /\ clean /\ breaks < Breaks /\ out # <<>>
  /\ phase' = "idle"
  /\ out' = <<>>
  /\ IF phase = "idle" THEN UNCHANGED pipes ELSE CloseTcp
  /\ dropped' = dropped \cup ((1..next) \ acked)
  /\ asked' = told
  /\ breaks' = breaks + 1
  /\ UNCHANGED <<clean, q2, broker, next, acked, told, peer, got>>

\* lost(), from events(): a subscribe whose connection is gone is answered 0x80.
TellLost ==
  /\ \E j \in DOMAIN out :
       /\ out[j].sent = "lost"
       /\ \A k \in 1..(j - 1) : out[k].sent # "lost"
       /\ out' = RemoveAt(out, j)
  /\ told' = told + 1
  /\ UNCHANGED <<clean, phase, q2, pipes, broker, next, asked, acked, dropped, peer, got, breaks>>

-----------------------------------------------------------------------------
(* The loop: dial, flush, receive *)

\* CONNECT goes first and alone till the CONNACK.
Dial ==
  /\ phase = "dial" /\ AcksFit
  /\ phase' = "hello"
  /\ out' = <<Rec("connect", "connect", 0, 0)>> \o out
  /\ UNCHANGED <<clean, q2, pipes, broker, caller, peer, got, breaks>>

\* The record that is written next.
ToWrite(j) == /\ out[j].sent = "new"
              /\ \A k \in 1..(j - 1) : out[k].sent # "new"
              /\ phase = "up" \/ out[j].kind = "connect"

Flush ==
  /\ phase \in {"hello", "up"}
  /\ \E j \in DOMAIN out :
       /\ ToWrite(j)
       /\ up' = Append(up, Packet(out[j].pkt, out[j].id, out[j].m))
       /\ out' = IF out[j].kind \in KeptKinds THEN [out EXCEPT ![j].sent = "sent"] ELSE RemoveAt(out, j)
  /\ UNCHANGED <<clean, phase, q2, old, down, broker, caller, peer, got, breaks>>

\* A packet is read when an ack of it fits.
Reads(pkt) == phase \in {"hello", "up"} /\ down # <<>> /\ AcksFit /\ Head(down).pkt = pkt /\ down' = Tail(down)

\* settle(): nothing to release in a fresh session, so the caller is told.
Settled(o) == Only(o, {j \in DOMAIN o : o[j].kind # "rel"})

\* mutant: what is resent queues behind what is new
RewoundBehind(o) ==
  LET sent == {j \in DOMAIN o : o[j].sent = "sent"}
      again == Only(o, sent)
  IN Only(o, DOMAIN o \ sent) \o [j \in DOMAIN again |-> [again[j] EXCEPT !.sent = "new"]]

Rewound(o) == [j \in DOMAIN o |-> IF o[j].sent = "sent" THEN [o[j] EXCEPT !.sent = "new"] ELSE o[j]]

OnConnack ==
  /\ Reads("connack")
  /\ phase' = "up"
  /\ IF Head(down).m = 1
     THEN out' = Rewound(out) /\ UNCHANGED <<q2, acked>>
     ELSE /\ out' = Rewound(Settled(out))
          /\ q2' = {}
          /\ acked' = acked \cup {out[j].m : j \in {k \in DOMAIN out : out[k].kind = "rel"}}
  /\ UNCHANGED <<clean, up, old, broker, next, asked, told, dropped, peer, got, breaks>>

OnPuback ==
  /\ Reads("puback")
  /\ LET id == Head(down).id
     IN out' = Without(out, "pub1", id) /\ acked' = acked \cup Of(out, "pub1", id)
  /\ UNCHANGED <<clean, phase, q2, up, old, broker, next, asked, told, dropped, peer, got, breaks>>

\* A repeat gets the PUBREL that is queued.
OnPubrec ==
  /\ Reads("pubrec")
  /\ LET id == Head(down).id
     IN \E m \in Of(out, "pub2", id) \cup {0} :
          /\ Has(out, "pub2", id) => m # 0
          /\ out' = IF Has(out, "rel", id) THEN Without(out, "pub2", id)
                    ELSE Append(Without(out, "pub2", id), Rec("rel", "pubrel", id, m))
  /\ UNCHANGED <<clean, phase, q2, up, old, broker, caller, peer, got, breaks>>

OnPubcomp ==
  /\ Reads("pubcomp")
  /\ LET id == Head(down).id
     IN out' = Without(out, "rel", id) /\ acked' = acked \cup Of(out, "rel", id)
  /\ UNCHANGED <<clean, phase, q2, up, old, broker, next, asked, told, dropped, peer, got, breaks>>

OnSuback ==
  /\ Reads("suback")
  /\ LET id == Head(down).id
     IN /\ out' = Without(out, "sub", id)
        /\ told' = IF Has(out, "sub", id) THEN told + 1 ELSE told
  /\ UNCHANGED <<clean, phase, q2, up, old, broker, next, asked, acked, dropped, peer, got, breaks>>

Delivered(i) == got' = [got EXCEPT ![i] = @ + 1]

OnPublish1 ==
  /\ Reads("pub1")
  /\ Delivered(Head(down).m)
  /\ out' = Append(out, Rec("once", "puback", Head(down).id, 0))
  /\ UNCHANGED <<clean, phase, q2, up, old, broker, caller, peer, breaks>>

\* mutant: the id of a message that was delivered is not kept
RememberedNever(id) == q2

\* q2_known: with _q2 full the id is forgotten and a resend would be delivered again.
Remembered(id) == IF Cardinality(q2) < Q2Max THEN q2 \cup {id} ELSE q2

OnPublish2 ==
  /\ Reads("pub2")
  /\ LET p == Head(down)
     IN /\ IF p.id \in q2 THEN UNCHANGED <<q2, got>> ELSE q2' = Remembered(p.id) /\ Delivered(p.m)
        /\ out' = Append(out, Rec("once", "pubrec", p.id, 0))
  /\ UNCHANGED <<clean, phase, up, old, broker, caller, peer, breaks>>

OnPubrel ==
  /\ Reads("pubrel")
  /\ q2' = q2 \ {Head(down).id}
  /\ out' = Append(out, Rec("once", "pubcomp", Head(down).id, 0))
  /\ UNCHANGED <<clean, phase, up, old, broker, caller, peer, got, breaks>>

-----------------------------------------------------------------------------
(* The broker (external) *)

\* It takes the first packet; an answer to an ended connection goes nowhere.
Takes(pkts) == up # <<>> /\ Head(up).pkt \in pkts /\ up' = Tail(up) /\ old' = IF old > 0 THEN old - 1 ELSE 0
Answers(s) == down' = IF old > 0 THEN down ELSE down \o s

Resends == [j \in DOMAIN sending |->
              Packet(IF sending[j].released THEN "pubrel" ELSE IF given[sending[j].m] = 1 THEN "pub1" ELSE "pub2",
                     sending[j].id, sending[j].m)]
FreshSession == /\ bq2' = {} /\ sending' = <<>>
                /\ taken' = [m \in Messages |-> 0]

BrokerConnects ==
  /\ Takes({"connect"})
  /\ kept' = TRUE
  /\ IF kept /\ ~clean
     THEN Answers(<<Packet("connack", 0, 1)>> \o Resends) /\ UNCHANGED <<bq2, sending, taken>>
     ELSE Answers(<<Packet("connack", 0, 0)>>) /\ FreshSession
  /\ UNCHANGED <<client, caller, ever, given, got, finished, forgot, breaks>>

\* QoS 2 goes by the id: a known one is acked and not taken again.
BrokerTakes ==
  /\ Takes({"pub1", "pub2"})
  /\ LET p == Head(up)
         again == p.pkt = "pub2" /\ p.id \in bq2
     IN /\ bq2' = IF p.pkt = "pub2" THEN bq2 \cup {p.id} ELSE bq2
        /\ taken' = IF again \/ taken[p.m] = 2 THEN taken ELSE [taken EXCEPT ![p.m] = @ + 1]
        /\ ever' = IF again THEN ever ELSE ever \cup {p.m}
        /\ Answers(<<Packet(IF p.pkt = "pub1" THEN "puback" ELSE "pubrec", p.id, 0)>>)
  /\ UNCHANGED <<client, kept, sending, caller, given, got, finished, forgot, breaks>>

BrokerReleases ==
  /\ Takes({"pubrel"})
  /\ bq2' = bq2 \ {Head(up).id}
  /\ Answers(<<Packet("pubcomp", Head(up).id, 0)>>)
  /\ UNCHANGED <<client, kept, sending, caller, peer, got, breaks>>

BrokerSubscribes ==
  /\ Takes({"sub"})
  /\ Answers(<<Packet("suback", Head(up).id, 0)>>)
  /\ UNCHANGED <<client, broker, caller, peer, got, breaks>>

\* PUBACK and PUBCOMP end a message, PUBREC turns it into a PUBREL.
BrokerIsAcked ==
  /\ Takes({"puback", "pubrec", "pubcomp"})
  /\ LET p == Head(up)
         mine == {j \in DOMAIN sending : sending[j].id = p.id}
     IN IF p.pkt = "pubrec"
        THEN /\ sending' = [j \in DOMAIN sending |-> IF j \in mine THEN [sending[j] EXCEPT !.released = TRUE] ELSE sending[j]]
             /\ Answers(<<Packet("pubrel", p.id, 0)>>)
             /\ UNCHANGED finished
        ELSE /\ sending' = Only(sending, DOMAIN sending \ mine)
             /\ finished' = finished \cup {sending[j].m : j \in mine}
             /\ UNCHANGED down
  /\ UNCHANGED <<client, kept, bq2, caller, ever, taken, given, got, forgot, breaks>>

Welcomed == phase = "up" \/ \E j \in DOMAIN down : down[j].pkt = "connack"

BrokerSends ==
  /\ Welcomed /\ Len(given) < Len(InQos)
  /\ LET i == Len(given) + 1
     IN \E qos \in InQos[i], id \in Ids \ {sending[j].id : j \in DOMAIN sending} :
          /\ given' = Append(given, qos)
          /\ sending' = Append(sending, [m |-> i, id |-> id, released |-> FALSE])
          /\ down' = Append(down, Packet(IF qos = 1 THEN "pub1" ELSE "pub2", id, i))
  /\ UNCHANGED <<client, up, old, kept, bq2, caller, ever, taken, got, finished, forgot, breaks>>

\* A restart of a broker that stores nothing, or an expired session.
BrokerForgets ==
  /\ kept /\ breaks < Breaks /\ phase \in {"idle", "dial"}
  /\ kept' = FALSE /\ forgot' = TRUE
  /\ FreshSession
  /\ up' = <<>> /\ old' = 0
  /\ breaks' = breaks + 1
  /\ UNCHANGED <<client, down, caller, ever, given, got, finished>>

-----------------------------------------------------------------------------
Init ==
  /\ clean \in BOOLEAN
  /\ out = <<>> /\ phase = "idle" /\ q2 = {}
  /\ up = <<>> /\ old = 0 /\ down = <<>>
  /\ kept = FALSE /\ bq2 = {} /\ sending = <<>>
  /\ next = 0 /\ asked = 0 /\ acked = {} /\ told = 0 /\ dropped = {}
  /\ ever = {} /\ taken = [m \in Messages |-> 0]
  /\ given = <<>> /\ got = [i \in Inbound |-> 0] /\ finished = {} /\ forgot = FALSE
  /\ breaks = 0

Application == Publish \/ Subscribe \/ Connect \/ Stop
Handle == OnConnack \/ OnPuback \/ OnPubrec \/ OnPubcomp \/ OnSuback \/ OnPublish1 \/ OnPublish2 \/ OnPubrel
Loop == Dial \/ Flush \/ Handle \/ TellLost
Broker == BrokerConnects \/ BrokerTakes \/ BrokerReleases \/ BrokerSubscribes \/ BrokerIsAcked

Next == Application \/ Loop \/ End \/ Broker \/ BrokerSends \/ BrokerForgets

Spec == Init /\ [][Next]_vars

\* loop() runs every pass of the main loop, and MQTT_Client connects again after its
\* back-off; a broker that is reached answers.
FairSpec == /\ Spec
            /\ WF_vars(Connect) /\ WF_vars(Dial) /\ WF_vars(Flush) /\ WF_vars(Handle) /\ WF_vars(TellLost)
            /\ WF_vars(Broker)

-----------------------------------------------------------------------------
(* Properties *)

TypeOK ==
  /\ clean \in BOOLEAN /\ kept \in BOOLEAN
  /\ \A j \in DOMAIN out : /\ out[j].kind \in Kinds /\ out[j].sent \in {"new", "sent", "lost"}
                           /\ out[j].id \in (IF out[j].kind = "connect" THEN {0} ELSE Ids)
                           /\ out[j].m \in 0..Len(Qos)
  /\ Len(out) <= Room
  /\ phase \in {"idle", "dial", "hello", "up"}
  /\ q2 \subseteq Ids /\ Cardinality(q2) <= Q2Max /\ bq2 \subseteq Ids
  /\ old \in 0..Len(up)
  /\ acked \subseteq 1..next /\ told \in 0..Asks /\ asked \in 0..Asks

\* The broker takes a QoS 2 message once in a session it keeps, however often the connection
\* breaks: the outbox resends the PUBLISH under its id, or the PUBREL after a PUBREC (rewind,
\* on_ack), and gives the id to nobody else (next_id).
TakenOnce == \A m \in Messages : Qos[m] = 2 => taken[m] <= 1

\* A QoS 2 message to us is delivered once, and once for certain when the broker is through
\* with it, although the broker repeats packets and uses its ids again (q2_known, q2_drop).
\* A broker that lost a session we want kept, and opens one for a CONNECT of a connection
\* that is gone by then, resumes that one next: ids we still know are new messages to it.
ReceivedOnce == /\ \A i \in DOMAIN given : given[i] = 2 => got[i] <= 1
                /\ clean \/ ~forgot => \A i \in finished : got[i] >= 1

\* Both ways: a QoS 2 message is taken once.
ExactlyOnce == TakenOnce /\ ReceivedOnce

\* What was accepted is answered or still has exactly one record in the outbox: no publish
\* vanishes on the way from PUBLISH to PUBREL or over a lost connection, and no subscribe
\* is answered twice or never (end, rewind, settle, lost, compact).
NothingForgotten ==
  /\ \A m \in (1..next) \ (acked \cup dropped) : Cardinality({j \in DOMAIN out : out[j].m = m}) = 1
  /\ \A m \in acked : \A j \in DOMAIN out : out[j].m # m
  /\ told + Cardinality({j \in DOMAIN out : out[j].kind = "sub"}) = asked

\* The outbox is well formed, its ids are those of the calls that wait, and it loses none.
OutboxIsSound == TypeOK /\ NothingForgotten

Status(m) == IF m \in acked THEN "acked"
             ELSE IF m \in dropped THEN "dropped"
             ELSE IF m \in ever THEN "taken"
             ELSE IF m <= next THEN "queued" ELSE "unpublished"

Delivery == INSTANCE MqttDelivery WITH N <- Len(Qos), status <- [m \in Messages |-> Status(m)]

\* The caller's view: messages reach the broker in the order of the publishes and are acked
\* only after that.
Delivers == Delivery!Spec

\* With connections that break only so often, every publish is acked and every subscribe is
\* answered, or stop() dropped it: reading stops while no ack fits, and must go on again.
EveryoneIsTold == []<>(asked = told /\ 1..next = acked \cup dropped)
==============================================================================
