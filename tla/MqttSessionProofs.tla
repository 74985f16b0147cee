-------------------------- MODULE MqttSessionProofs --------------------------
(***************************************************************************)
(* What is proved of the MQTT session, for any messages, any room in the   *)
(* outbox, any number of ids and of lost connections: nothing the outbox   *)
(* accepted is forgotten, what is QoS 2 is taken once, both ways, and      *)
(* messages reach the broker in order and are acked after that only.       *)
(***************************************************************************)
EXTENDS MqttSession, SelectionProofs

\* Packets that are answered, and what answers them.
Calls == {"pub1", "pub2", "pubrel", "sub"}
Acks == {"puback", "pubrec", "pubcomp", "suback"}
CallOf == [puback |-> "pub1", pubrec |-> "pub2", pubcomp |-> "pubrel", suback |-> "sub"]
WireOf == [pub1 |-> "pub1", pub2 |-> "pub2", rel |-> "pubrel", sub |-> "sub"]

\* Of the messages: what we send of ours, what we answer to those of the broker.
OurPackets == {"pub1", "pub2", "pubrel"}
OurAcks == {"puback", "pubrec", "pubcomp"}
MessageKinds == {"pub1", "pub2", "rel"}

RecType ==
  [kind : Kinds, pkt : Calls \cup OurAcks \cup {"connect"}, id : Nat, m : Nat,
   sent : {"new", "sent", "lost"}]
UpType ==
  {p \in [pkt : Calls \cup OurAcks \cup {"connect"}, id : Nat, m : Nat] : p.pkt # "connect" => p.id \in Ids}
DownType ==
  {p \in [pkt : Acks \cup OurPackets \cup {"connack"}, id : Nat, m : Nat] : p.pkt # "connack" => p.id \in Ids}

(* The client, what is on its way, and the broker's session are well       *)
(* formed.                                                                 *)
OutTypes == out \in Seq(RecType) /\ Len(out) <= Room
ClientTypes ==
  /\ clean \in BOOLEAN /\ phase \in {"idle", "dial", "hello", "up"}
  /\ q2 \in SUBSET Ids /\ IsFiniteSet(q2) /\ Cardinality(q2) <= Q2Max
PipeTypes == up \in Seq(UpType) /\ down \in Seq(DownType) /\ old \in 0 .. Len(up)
BrokerTypes ==
  /\ kept \in BOOLEAN /\ bq2 \in SUBSET Ids
  /\ sending \in Seq([m : Nat, id : Ids, released : BOOLEAN])
CallerTypes ==
  /\ next \in 0 .. Len(Qos) /\ asked \in 0 .. Asks /\ told \in 0 .. Asks
  /\ acked \in SUBSET (1 .. next) /\ dropped \in SUBSET (1 .. next)
PeerTypes ==
  /\ ever \in SUBSET Nat /\ taken \in [Messages -> Nat] /\ finished \in SUBSET Nat
  /\ given \in Seq({1, 2}) /\ Len(given) <= Len(InQos) /\ got \in [Inbound -> Nat]
  /\ forgot \in BOOLEAN /\ breaks \in Nat

Types == OutTypes /\ ClientTypes /\ PipeTypes /\ BrokerTypes /\ CallerTypes /\ PeerTypes

(* A record by itself, when n messages were published; two of one outbox;  *)
(* and an outbox, when the messages in D are done with.                    *)
RecordOk(r, n) ==
  /\ r.kind \in KeptKinds => r.pkt = WireOf[r.kind]
  /\ r.kind = "once" => r.pkt \in OurAcks
  /\ r.kind = "connect" => r.pkt = "connect" /\ r.id = 0
  /\ r.kind # "connect" => r.id \in Ids
  /\ r.kind \notin KeptKinds => r.sent = "new"
  /\ r.sent = "lost" => r.kind = "sub"
  /\ r.kind \in MessageKinds => r.m \in 1 .. n /\ Qos[r.m] = IF r.kind = "pub1" THEN 1 ELSE 2
  /\ r.kind \notin MessageKinds => r.m = 0

ApartOk(r, s) ==
  /\ r.kind \in KeptKinds /\ s.kind \in KeptKinds => r.id # s.id
  /\ r.m # 0 => r.m # s.m

OutOk(o, n, D) ==
  /\ \A j \in 1 .. Len(o) : RecordOk(o[j], n)
  /\ \A i, j \in 1 .. Len(o) : i # j => ApartOk(o[i], o[j])
  /\ \A m \in 1 .. n : m \in D <=> ~\E j \in 1 .. Len(o) : o[j].m = m

Subs(o) == {j \in 1 .. Len(o) : o[j].kind = "sub"}

OutInv == OutOk(out, next, acked \cup dropped) /\ told + Cardinality(Subs(out)) = asked

(* The handshake: CONNECT goes alone, and what is older than it is read by *)
(* then.                                                                   *)
Connecting == \E j \in 1 .. Len(out) : out[j].kind = "connect"

ConnOut ==
  /\ \A j \in 1 .. Len(out) : out[j].kind = "connect" => phase = "hello" /\ j = 1
  /\ \A j \in 1 .. Len(out) : out[j].kind = "once" => phase = "up"

ConnUp == \A i, k \in 1 .. Len(up) : i < k /\ up[i].pkt = "connect" => up[k].pkt = "connect"

ConnPhase ==
  /\ phase \in {"idle", "dial"} => down = <<>> /\ old = Len(up)
  /\ phase = "hello" /\ down = <<>> /\ Connecting => old = Len(up)
  /\ phase = "hello" /\ down = <<>> /\ ~Connecting =>
       Len(up) = old + 1 /\ up[Len(up)].pkt = "connect"
  /\ phase = "hello" /\ down # <<>> =>
       /\ up = <<>> /\ ~Connecting /\ down[1].pkt = "connack"
       /\ \A k \in 2 .. Len(down) : down[k].pkt \in OurPackets
  /\ phase = "up" => /\ old = 0
                     /\ \A k \in 1 .. Len(up) : up[k].pkt # "connect"
                     /\ \A k \in 1 .. Len(down) : down[k].pkt # "connack"

ConnInv == ConnOut /\ ConnUp /\ ConnPhase

(* What is asked of the broker in this connection: each packet and each    *)
(* answer is of a record that was sent, and no record has two of them.     *)
FlightUp ==
  \A i, k \in 1 .. Len(up) : i # k /\ up[i].pkt \in Calls /\ up[k].pkt \in Calls => up[i].id # up[k].id

FlightIds ==
  phase = "up" =>
    /\ \A i, k \in 1 .. Len(down) :
         i # k /\ down[i].pkt \in Acks /\ down[k].pkt \in Acks => down[i].id # down[k].id
    /\ \A i \in 1 .. Len(up), k \in 1 .. Len(down) :
         up[i].pkt \in Calls /\ down[k].pkt \in Acks => up[i].id # down[k].id

SentCall(o, p) == \E j \in 1 .. Len(o) : o[j].sent = "sent" /\ o[j].pkt = p.pkt /\ o[j].id = p.id /\ o[j].m = p.m
SentFor(o, p) == \E j \in 1 .. Len(o) : o[j].sent = "sent" /\ o[j].pkt = CallOf[p.pkt] /\ o[j].id = p.id

FlightSent ==
  phase = "up" =>
    /\ \A k \in 1 .. Len(up) : up[k].pkt \in Calls => SentCall(out, up[k])
    /\ \A k \in 1 .. Len(down) : down[k].pkt \in Acks => SentFor(out, down[k])

FlightInv == FlightUp /\ FlightIds /\ FlightSent

OutboxInv == Types /\ OutInv /\ ConnInv /\ FlightInv

----------------------------------------------------------------------------
(* A fresh session is still to come, and its acknowledgement with it.      *)
FreshAhead == clean /\ (phase \in {"idle", "dial"} \/ (phase = "hello" /\ down = <<>>))

(* What the broker took: what was published only, and of QoS 2 once in a   *)
(* session; what is acked is taken.                                        *)
EverInv ==
  /\ ever \subseteq 1 .. next /\ acked \subseteq ever
  /\ \A m \in Messages : taken[m] >= 1 => m \in ever
  /\ TakenOnce

(* A packet, a record and an answer by themselves: the broker keeps the id *)
(* of what it took as long as it may come again, and a known id is the id  *)
(* of what was taken.                                                      *)
PacketOk(p) ==
  /\ p.pkt \in OurPackets => p.m \in 1 .. next /\ Qos[p.m] = IF p.pkt = "pub1" THEN 1 ELSE 2
  /\ p.pkt = "pubrel" => p.m \in ever
  /\ p.pkt = "pub2" /\ p.id \in bq2 => p.m \in ever
  /\ p.pkt = "pub2" /\ taken[p.m] >= 1 => p.id \in bq2

RecordKnown(r) ==
  /\ r.kind = "rel" => r.m \in ever
  /\ r.kind = "pub2" /\ taken[r.m] >= 1 => r.id \in bq2

\* A packet and a record of the outbox, an answer and a record.
PacketFits(p, r) ==
  r.kind \in MessageKinds =>
    /\ p.pkt \in OurPackets /\ p.m = r.m => p.id = r.id
    /\ p.pkt = "pubrel" /\ r.kind = "pub2" /\ p.id = r.id => r.m \notin ever

AckFits(a, r) ==
  a.pkt \in {"puback", "pubrec"} /\ r.kind \in MessageKinds /\ r.id = a.id => r.m \in ever

PacketInv ==
  /\ \A k \in 1 .. Len(up) : PacketOk(up[k])
  /\ \A i, k \in 1 .. Len(up) :
       i # k /\ up[i].pkt \in OurPackets /\ up[k].pkt \in OurPackets => up[i].m # up[k].m

RecordInv ==
  /\ \A j \in 1 .. Len(out) : RecordKnown(out[j])
  /\ \A k \in 1 .. Len(up), j \in 1 .. Len(out) : PacketFits(up[k], out[j])

AckInv == phase = "up" =>
  /\ \A k \in 1 .. Len(down), j \in 1 .. Len(out) : AckFits(down[k], out[j])
  /\ \A k \in 1 .. Len(down) : down[k].pkt = "pubcomp" => down[k].id \notin bq2

(* An id the broker keeps is that of a record we keep, unless its session  *)
(* ends before we write again; a broker that resumes one does as we asked. *)
Holds(o, x, m) == \E j \in 1 .. Len(o) : o[j].kind \in {"pub2", "rel"} /\ o[j].id = x /\ o[j].m = m

KeepsIds == ~FreshAhead => \A x \in bq2 : \E m \in ever : Holds(out, x, m)
KeepsUp == ~clean => \A k \in 1 .. Len(up) : up[k].pkt \in {"pub2", "pubrel"} => Holds(out, up[k].id, up[k].m)
WelcomeFits == phase = "hello" /\ down # <<>> => (down[1].m = 1 => ~clean) /\ (down[1].m # 1 => bq2 = {})

HeldInv == KeepsIds /\ KeepsUp /\ WelcomeFits

(* Nothing overtakes: the records of what is published are in the order of *)
(* the publishes, and what is sent and not taken is on its way, in order.  *)
Publishes == {"pub1", "pub2"}

Ordered(o) ==
  \A i, j \in 1 .. Len(o) : i < j /\ o[i].kind \in Publishes /\ o[j].kind \in Publishes => o[i].m < o[j].m

OrderSent == phase = "up" =>
  \A j \in 1 .. Len(out) : out[j].kind \in Publishes /\ out[j].sent = "sent" /\ out[j].m \notin ever =>
    \E k \in 1 .. Len(up) : up[k].pkt \in Publishes /\ up[k].m = out[j].m

OrderUp ==
  \A k \in 1 .. Len(up) : up[k].pkt \in Publishes /\ up[k].m \notin ever =>
    \A m \in 1 .. up[k].m - 1 :
      m \in ever \cup dropped \/ \E i \in 1 .. k - 1 : up[i].pkt \in Publishes /\ up[i].m = m

OrderInv == Ordered(out) /\ OrderSent /\ OrderUp

TakenInv == EverInv /\ PacketInv /\ RecordInv /\ AckInv /\ HeldInv /\ OrderInv

----------------------------------------------------------------------------
(* The messages of the broker: each has at most one packet or answer       *)
(* between us, and what it says fits the broker's entry of the message.    *)
Single(s, T) ==
  \A i, k \in 1 .. Len(s) : i # k /\ s[i].pkt \in T /\ s[k].pkt \in T => s[i].id # s[k].id
Disjoint(s, T, t, V) ==
  \A i \in 1 .. Len(s), k \in 1 .. Len(t) : s[i].pkt \in T /\ t[k].pkt \in V => s[i].id # t[k].id

Apart(d, u, o) ==
  /\ Single(d, OurPackets) /\ Single(u, OurAcks) /\ Single(o, OurAcks)
  /\ Disjoint(d, OurPackets, u, OurAcks) /\ Disjoint(d, OurPackets, o, OurAcks) /\ Disjoint(u, OurAcks, o, OurAcks)

\* The ids we know once the CONNACK on its way is read.
Known == IF phase = "hello" /\ down # <<>> /\ down[1].m # 1 THEN {} ELSE q2

\* The broker has the session we have.
InStep == clean \/ ~forgot

Pushed(s, p) ==
  /\ s.id = p.id
  /\ p.pkt # "pubrel" => s.m = p.m
  /\ p.pkt = "pub1" => given[s.m] = 1 /\ ~s.released
  /\ p.pkt = "pub2" => given[s.m] = 2 /\ ~s.released
  /\ p.pkt = "pubrel" => given[s.m] = 2 /\ s.released

AnswerFits(s, p) ==
  /\ s.id = p.id
  /\ p.pkt = "puback" => given[s.m] = 1 /\ got[s.m] >= 1
  /\ p.pkt = "pubrec" => given[s.m] = 2 /\ ~s.released /\ (InStep => got[s.m] >= 1)
  /\ p.pkt = "pubcomp" => given[s.m] = 2 /\ s.released

FitsDown == \A k \in 1 .. Len(down) : down[k].pkt \in OurPackets => \E i \in 1 .. Len(sending) : Pushed(sending[i], down[k])
FitsUp == \A k \in 1 .. Len(up) : up[k].pkt \in OurAcks => \E i \in 1 .. Len(sending) : AnswerFits(sending[i], up[k])
FitsOut == \A k \in 1 .. Len(out) : out[k].pkt \in OurAcks => \E i \in 1 .. Len(sending) : AnswerFits(sending[i], out[k])

TokenInv == Apart(down, up, out) /\ FitsDown /\ FitsUp /\ FitsOut

\* An entry, the message it is of, and whether we know its id.
EntryOk(s) ==
  /\ s.m \in 1 .. Len(given)
  /\ s.released => given[s.m] = 2 /\ (InStep => got[s.m] >= 1)
  /\ given[s.m] = 2 /\ ~s.released /\ got[s.m] >= 1 => s.id \in Known

EntryInv ==
  /\ \A i \in 1 .. Len(sending) : EntryOk(sending[i])
  /\ \A i, j \in 1 .. Len(sending) : i # j => sending[i].id # sending[j].id /\ sending[i].m # sending[j].m
  /\ finished \subseteq 1 .. Len(given) /\ \A i \in Inbound : i > Len(given) => got[i] = 0

\* An id we know is that of a message that was delivered and is not through.
KnownFits(x) == \E i \in 1 .. Len(sending) : sending[i].id = x /\ given[sending[i].m] = 2 /\ got[sending[i].m] >= 1

KnownInv == InStep /\ ~FreshAhead =>
  /\ \A x \in Known : KnownFits(x)
  /\ \A k \in 1 .. Len(up) : up[k].pkt = "pubcomp" => up[k].id \notin Known
  /\ \A k \in 1 .. Len(out) : out[k].pkt = "pubcomp" => out[k].id \notin Known

\* No session, no messages; and a broker that never lost one knows of none we know of.
SessionInv ==
  /\ ~kept => sending = <<>>
  /\ phase = "up" \/ (phase = "hello" /\ down # <<>>) => kept
  /\ ~clean /\ ~forgot => Known = q2

InboundInv == ReceivedOnce /\ TokenInv /\ EntryInv /\ KnownInv /\ SessionInv

----------------------------------------------------------------------------
(* Parts of an outbox                                                      *)

Alike(r, s) == r.kind = s.kind /\ r.pkt = s.pkt /\ r.id = s.id /\ r.m = s.m

\* t holds the records of s at the places K, in order, sent or not.
Keeps(f, t, s, K) ==
  /\ f \in [1 .. Len(t) -> K]
  /\ \A i, j \in 1 .. Len(t) : i < j => f[i] < f[j]
  /\ \A k \in K : \E i \in 1 .. Len(t) : f[i] = k
  /\ \A i \in 1 .. Len(t) : Alike(t[i], s[f[i]])

\* Part of an outbox is as good as it was, when the messages of what is left
\* out are done with.
LEMMA PartIsOk ==
  ASSUME NEW s \in Seq(RecType), NEW t \in Seq(RecType), NEW n \in Nat, NEW D, NEW E,
         NEW K \in SUBSET (1 .. Len(s)), NEW f, Keeps(f, t, s, K), OutOk(s, n, D),
         \A i \in 1 .. Len(t) : t[i].sent \in {"new", s[f[i]].sent} \/ (t[i].kind = "sub" /\ t[i].sent = "lost"),
         \A m \in 1 .. n : m \in E <=> m \in D \/ \E j \in (1 .. Len(s)) \ K : s[j].m = m
  PROVE  OutOk(t, n, E)
<1>1. \A i \in 1 .. Len(t) : f[i] \in 1 .. Len(s) /\ Alike(t[i], s[f[i]])
  BY DEF Keeps
<1>2. \A i \in 1 .. Len(t) : RecordOk(t[i], n)
  <2>1. SUFFICES ASSUME NEW i \in 1 .. Len(t) PROVE RecordOk(t[i], n)
    OBVIOUS
  <2>2. RecordOk(s[f[i]], n) /\ Alike(t[i], s[f[i]])
    BY <1>1 DEF OutOk
  <2>3. t[i].kind \notin KeptKinds => t[i].sent = "new"
    BY <2>2 DEF RecordOk, Alike, KeptKinds
  <2>4. t[i].sent = "lost" => t[i].kind = "sub"
    BY <2>2 DEF RecordOk, Alike
  <2> QED BY <2>2, <2>3, <2>4 DEF RecordOk, Alike
<1>3. \A i, j \in 1 .. Len(t) : i # j => f[i] # f[j]
  <2>1. SUFFICES ASSUME NEW i \in 1 .. Len(t), NEW j \in 1 .. Len(t), i # j PROVE f[i] # f[j]
    OBVIOUS
  <2>2. i < j \/ j < i
    BY <2>1
  <2>3. f[i] < f[j] \/ f[j] < f[i]
    BY <2>2 DEF Keeps
  <2>4. f[i] \in Nat /\ f[j] \in Nat
    BY <1>1
  <2> QED BY <2>3, <2>4
<1>4. \A i, j \in 1 .. Len(t) : i # j => ApartOk(t[i], t[j])
  <2>1. SUFFICES ASSUME NEW i \in 1 .. Len(t), NEW j \in 1 .. Len(t), i # j
                 PROVE  ApartOk(t[i], t[j])
    OBVIOUS
  <2>2. f[i] \in 1 .. Len(s) /\ f[j] \in 1 .. Len(s) /\ f[i] # f[j]
    BY <1>1, <1>3, <2>1
  <2>3. ApartOk(s[f[i]], s[f[j]])
    BY <2>2 DEF OutOk
  <2>4. Alike(t[i], s[f[i]]) /\ Alike(t[j], s[f[j]])
    BY <1>1
  <2> QED BY <2>3, <2>4 DEF ApartOk, Alike
<1>5. \A m \in 1 .. n : m \in E <=> ~\E j \in 1 .. Len(t) : t[j].m = m
  <2>1. SUFFICES ASSUME NEW m \in 1 .. n PROVE m \in E <=> ~\E j \in 1 .. Len(t) : t[j].m = m
    OBVIOUS
  <2>2. (\E j \in 1 .. Len(t) : t[j].m = m) <=> \E k \in K : s[k].m = m
    <3>1. \A k \in K : \E i \in 1 .. Len(t) : f[i] = k
      BY DEF Keeps
    <3>2. \A i \in 1 .. Len(t) : f[i] \in K /\ t[i].m = s[f[i]].m
      BY DEF Keeps, Alike
    <3>3. ASSUME NEW k \in K, s[k].m = m PROVE \E j \in 1 .. Len(t) : t[j].m = m
      <4>1. PICK i \in 1 .. Len(t) : f[i] = k
        BY <3>1
      <4> QED BY <3>2, <3>3, <4>1
    <3>4. ASSUME NEW j \in 1 .. Len(t), t[j].m = m PROVE \E k \in K : s[k].m = m
      BY <3>2, <3>4
    <3> QED BY <3>3, <3>4
  <2>3. m \in D <=> ~\E j \in 1 .. Len(s) : s[j].m = m
    BY DEF OutOk
  <2>4. \A j, k \in 1 .. Len(s) : j # k /\ s[j].m = m => s[k].m # m
    BY DEF OutOk, ApartOk
  <2> QED BY <2>2, <2>3, <2>4
<1> QED BY <1>2, <1>4, <1>5 DEF OutOk

LEMMA SubsAreFinite ==
  ASSUME NEW s \in Seq(RecType)
  PROVE  IsFiniteSet(Subs(s)) /\ Cardinality(Subs(s)) \in Nat
<1>1. Len(s) \in Nat
  OBVIOUS
<1>2. IsFiniteSet(1 .. Len(s))
  BY <1>1, FS_Interval
<1>3. Subs(s) \in SUBSET (1 .. Len(s))
  BY DEF Subs
<1> QED BY <1>2, <1>3, FS_Subset, FS_CardinalityType

\* The subscribes that are kept are counted in the whole.
LEMMA PartCounts ==
  ASSUME NEW s \in Seq(RecType), NEW t \in Seq(RecType), NEW K \in SUBSET (1 .. Len(s)),
         NEW f, Keeps(f, t, s, K)
  PROVE  /\ IsFiniteSet(Subs(s)) /\ Cardinality(Subs(s)) \in Nat
         /\ Cardinality(Subs(t)) = Cardinality(Subs(s) \cap K)
<1>1. IsFiniteSet(Subs(s)) /\ Cardinality(Subs(s)) \in Nat
  BY SubsAreFinite
<1> DEFINE g == [i \in Subs(t) |-> f[i]]
<1>2. IsFiniteSet(Subs(t))
  BY SubsAreFinite
<1>3. \A i \in 1 .. Len(t) : f[i] \in K /\ f[i] \in Nat /\ t[i].kind = s[f[i]].kind
  <2>1. \A i \in 1 .. Len(t) : f[i] \in K /\ t[i].kind = s[f[i]].kind
    BY DEF Keeps, Alike
  <2>2. \A k \in K : k \in Nat
    OBVIOUS
  <2> QED BY <2>1, <2>2
<1>4. g \in [Subs(t) -> Subs(s) \cap K]
  BY <1>3 DEF Subs
<1>5. \A i, j \in Subs(t) : g[i] = g[j] => i = j
  <2>1. SUFFICES ASSUME NEW i \in 1 .. Len(t), NEW j \in 1 .. Len(t), f[i] = f[j], i # j PROVE FALSE
    BY DEF Subs
  <2>2. i < j \/ j < i
    BY <2>1
  <2>3. f[i] < f[j] \/ f[j] < f[i]
    BY <2>2 DEF Keeps
  <2> QED BY <1>3, <2>1, <2>3
<1>6. \A k \in Subs(s) \cap K : \E i \in Subs(t) : g[i] = k
  <2>1. SUFFICES ASSUME NEW k \in Subs(s) \cap K PROVE \E i \in Subs(t) : g[i] = k
    OBVIOUS
  <2>2. PICK i \in 1 .. Len(t) : f[i] = k
    BY DEF Keeps
  <2>3. i \in Subs(t)
    BY <1>3, <2>2 DEF Subs
  <2> QED BY <2>2, <2>3
<1>7. g \in Bijection(Subs(t), Subs(s) \cap K)
  BY <1>4, <1>5, <1>6 DEF Bijection, Injection, Surjection, IsInjective
<1>8. Cardinality(Subs(s) \cap K) = Cardinality(Subs(t))
  BY <1>2, <1>7, FS_Bijection DEF ExistsBijection
<1> QED BY <1>1, <1>8

\* One record more.
LEMMA MoreIsOk ==
  ASSUME NEW s \in Seq(RecType), NEW r \in RecType, NEW n \in Nat, NEW k \in {n, n + 1}, NEW D, NEW E,
         OutOk(s, n, D), RecordOk(r, k),
         \A j \in 1 .. Len(s) : ApartOk(r, s[j]) /\ ApartOk(s[j], r),
         k = n + 1 => r.m = k,
         \A m \in 1 .. n : m \in E <=> m \in D /\ m # r.m,
         k = n + 1 => k \notin E
  PROVE  /\ OutOk(Append(s, r), k, E)
         /\ Append(s, r) \in Seq(RecType) /\ Len(Append(s, r)) = Len(s) + 1
         /\ \A j \in 1 .. Len(s) : Append(s, r)[j] = s[j]
         /\ Append(s, r)[Len(s) + 1] = r
<1> DEFINE t == Append(s, r)
<1>1. /\ t \in Seq(RecType) /\ Len(t) = Len(s) + 1
      /\ \A j \in 1 .. Len(s) : t[j] = s[j]
      /\ t[Len(s) + 1] = r
  BY AppendProperties
<1> HIDE DEF t
<1>2. \A j \in 1 .. Len(t) : j \in 1 .. Len(s) \/ j = Len(s) + 1
  BY <1>1
<1>3. \A j \in 1 .. Len(s) : RecordOk(s[j], k)
  BY DEF OutOk, RecordOk
<1>4. \A j \in 1 .. Len(t) : RecordOk(t[j], k)
  BY <1>1, <1>2, <1>3
<1>5. \A i, j \in 1 .. Len(t) : i # j => ApartOk(t[i], t[j])
  BY <1>1, <1>2 DEF OutOk
<1>6. \A m \in 1 .. k : m \in E <=> ~\E j \in 1 .. Len(t) : t[j].m = m
  <2>1. SUFFICES ASSUME NEW m \in 1 .. k PROVE m \in E <=> ~\E j \in 1 .. Len(t) : t[j].m = m
    OBVIOUS
  <2>2. (\E j \in 1 .. Len(t) : t[j].m = m) <=> r.m = m \/ \E j \in 1 .. Len(s) : s[j].m = m
    <3>1. Len(s) + 1 \in 1 .. Len(t) /\ \A j \in 1 .. Len(s) : j \in 1 .. Len(t)
      BY <1>1
    <3> QED BY <1>1, <1>2, <3>1
  <2>3. CASE m \in 1 .. n
    BY <2>2, <2>3 DEF OutOk
  <2>4. CASE m = n + 1 /\ k = n + 1
    BY <2>2, <2>4
  <2>5. m \in 1 .. n \/ (m = n + 1 /\ k = n + 1)
    BY <2>1
  <2> QED BY <2>3, <2>4, <2>5
<1> QED BY <1>1, <1>4, <1>5, <1>6 DEF OutOk, t

LEMMA MoreCounts ==
  ASSUME NEW s \in Seq(RecType), NEW r \in RecType
  PROVE  /\ IsFiniteSet(Subs(s)) /\ Cardinality(Subs(s)) \in Nat
         /\ Cardinality(Subs(Append(s, r))) = Cardinality(Subs(s)) + IF r.kind = "sub" THEN 1 ELSE 0
<1> DEFINE t == Append(s, r)
<1>1. /\ t \in Seq(RecType) /\ Len(t) = Len(s) + 1
      /\ \A j \in 1 .. Len(s) : t[j] = s[j]
      /\ t[Len(s) + 1] = r
  BY AppendProperties
<1>2. IsFiniteSet(Subs(s)) /\ Cardinality(Subs(s)) \in Nat
  BY SubsAreFinite
<1> HIDE DEF t
<1>3. Subs(t) = IF r.kind = "sub" THEN Subs(s) \cup {Len(s) + 1} ELSE Subs(s)
  BY <1>1 DEF Subs
<1>4. Len(s) + 1 \notin Subs(s)
  BY DEF Subs
<1>5. CASE r.kind = "sub"
  BY <1>2, <1>3, <1>4, <1>5, FS_AddElement DEF t
<1>6. CASE r.kind # "sub"
  BY <1>2, <1>3, <1>6 DEF t
<1> QED BY <1>2, <1>5, <1>6

\* Picked records are the records as they were.
LEMMA PickedIsOk ==
  ASSUME NEW s \in Seq(RecType), NEW t \in Seq(RecType), NEW n \in Nat, NEW D, NEW E,
         NEW K \in SUBSET (1 .. Len(s)), Picks(t, s, K), OutOk(s, n, D),
         \A m \in 1 .. n : m \in E <=> m \in D \/ \E j \in (1 .. Len(s)) \ K : s[j].m = m
  PROVE  OutOk(t, n, E)
<1>1. PICK f : Follows(f, t, s, K)
  BY DEF Picks
<1>2. Keeps(f, t, s, K) /\ \A i \in 1 .. Len(t) : t[i].sent = s[f[i]].sent
  BY <1>1 DEF Follows, Keeps, Alike
<1> QED BY <1>2, PartIsOk

LEMMA PickedParts ==
  ASSUME NEW s \in Seq(RecType), NEW t \in Seq(RecType), NEW K \in SUBSET (1 .. Len(s)), Picks(t, s, K)
  PROVE  /\ Cardinality(Subs(t)) = Cardinality(Subs(s) \cap K)
         /\ \A i \in 1 .. Len(t) : \E k \in K : t[i] = s[k]
         /\ \A k \in K : \E i \in 1 .. Len(t) : t[i] = s[k]
<1>1. PICK f : Follows(f, t, s, K)
  BY DEF Picks
<1>2. Keeps(f, t, s, K)
  BY <1>1 DEF Follows, Keeps, Alike
<1>3. Cardinality(Subs(t)) = Cardinality(Subs(s) \cap K)
  BY <1>2, PartCounts
<1>4. \A i \in 1 .. Len(t) : \E k \in K : t[i] = s[k]
  BY <1>1 DEF Follows
<1>5. \A k \in K : \E i \in 1 .. Len(t) : t[i] = s[k]
  BY <1>1 DEF Follows
<1> QED BY <1>3, <1>4, <1>5

\* Marks change, the records stay.
LEMMA MarkedIsOk ==
  ASSUME NEW s \in Seq(RecType), NEW t \in Seq(RecType), NEW n \in Nat, NEW D, OutOk(s, n, D),
         Len(t) = Len(s),
         \A i \in 1 .. Len(s) : /\ Alike(t[i], s[i])
                                /\ t[i].sent \in {"new", s[i].sent} \/ (t[i].kind = "sub" /\ t[i].sent = "lost")
  PROVE  OutOk(t, n, D) /\ Cardinality(Subs(t)) = Cardinality(Subs(s))
<1> DEFINE K == 1 .. Len(s)
           f == [i \in 1 .. Len(t) |-> i]
<1>1. Keeps(f, t, s, K)
  BY DEF Keeps
<1>2. \A i \in 1 .. Len(t) : t[i].sent \in {"new", s[f[i]].sent} \/ (t[i].kind = "sub" /\ t[i].sent = "lost")
  OBVIOUS
<1>3. \A m \in 1 .. n : m \in D <=> m \in D \/ \E j \in (1 .. Len(s)) \ K : s[j].m = m
  OBVIOUS
<1>4. Subs(s) \cap K = Subs(s)
  BY DEF Subs
<1> HIDE DEF f
<1>5. OutOk(t, n, D)
  BY <1>1, <1>2, <1>3, PartIsOk
<1>6. Cardinality(Subs(t)) = Cardinality(Subs(s))
  BY <1>1, <1>4, PartCounts
<1> QED BY <1>5, <1>6

LEMMA NothingPublishedYet ==
  ASSUME OutOk(out, next, acked \cup dropped), next \in Nat
  PROVE  \A j \in 1 .. Len(out) : out[j].m # next + 1
<1>1. ASSUME NEW j \in 1 .. Len(out) PROVE out[j].m # next + 1
  <2>1. RecordOk(out[j], next)
    BY DEF OutOk
  <2> QED BY <2>1 DEF RecordOk
<1> QED BY <1>1

----------------------------------------------------------------------------
(* The outbox, step by step                                                *)

(* A record that is queued changes nothing on the way.                     *)
LEMMA AppendKeepsFlight ==
  ASSUME ConnInv, FlightInv, out \in Seq(RecType), NEW r \in RecType, out' = Append(out, r),
         r.kind \in KeptKinds \/ (r.kind = "once" /\ phase = "up"),
         UNCHANGED <<phase, up, old, down>>
  PROVE  ConnInv' /\ FlightInv'
<1>1. /\ Len(out') = Len(out) + 1 /\ Len(out) \in Nat
      /\ \A j \in 1 .. Len(out) : out'[j] = out[j]
      /\ out'[Len(out) + 1] = r
  BY AppendProperties
<1>2. r.kind # "connect" /\ (r.kind = "once" => phase = "up")
  BY DEF KeptKinds
<1>3. \A j \in 1 .. Len(out') : j \in 1 .. Len(out) \/ j = Len(out) + 1
  BY <1>1
<1>4. \A j \in 1 .. Len(out) : j \in 1 .. Len(out')
  BY <1>1
<1>5. ConnOut'
  BY <1>1, <1>2, <1>3 DEF ConnInv, ConnOut
<1>6. Connecting' <=> Connecting
  BY <1>1, <1>2, <1>3, <1>4 DEF Connecting
<1>7. ConnUp' /\ ConnPhase'
  BY <1>6 DEF ConnInv, ConnUp, ConnPhase
<1>8. FlightUp' /\ FlightIds'
  BY DEF FlightInv, FlightUp, FlightIds
<1>9. \A p : (SentCall(out, p) => SentCall(out', p)) /\ (SentFor(out, p) => SentFor(out', p))
  BY <1>1, <1>4 DEF SentCall, SentFor
<1>10. FlightSent'
  BY <1>9 DEF FlightInv, FlightSent
<1> QED BY <1>5, <1>7, <1>8, <1>10 DEF ConnInv, FlightInv

LEMMA PublishKeepsOutbox ==
  ASSUME OutboxInv, Publish
  PROVE  OutboxInv'
<1> USE DEF OutboxInv, Types, OutTypes
<1>0. /\ next < Len(Qos) /\ next \in Nat /\ Qos \in Seq({1, 2}) /\ Len(out) < Room
      /\ acked \in SUBSET (1 .. next) /\ dropped \in SUBSET (1 .. next)
  BY SizesAssumption DEF Publish, RoomToPublish, CallerTypes
<1>1. PICK id \in FreeIds, kind \in {"pub1", "pub2"} :
        /\ kind = IF Qos[next + 1] = 1 THEN "pub1" ELSE "pub2"
        /\ out' = Append(out, Rec(kind, kind, id, next + 1))
  BY DEF Publish
<1> DEFINE r == Rec(kind, kind, id, next + 1)
<1>2. next' = next + 1 /\ UNCHANGED <<clean, phase, q2, up, old, down, broker, asked, acked, told, dropped, peer, got, breaks>>
  BY DEF Publish, pipes
<1>3. id \in Ids /\ id \in Nat /\ \A j \in 1 .. Len(out) : out[j].id # id
  BY DEF FreeIds, Ids
<1>4. r.kind = kind /\ r.pkt = kind /\ r.id = id /\ r.m = next + 1 /\ r.sent = "new"
  BY DEF Rec
<1>5. r \in RecType
  BY <1>0, <1>3 DEF Rec, RecType, Kinds, KeptKinds, Calls
<1> HIDE DEF r
<1>6. Qos[next + 1] = IF kind = "pub1" THEN 1 ELSE 2
  <2>1. Qos[next + 1] \in {1, 2}
    BY <1>0
  <2> QED BY <1>1, <2>1
<1>7. RecordOk(r, next + 1)
  BY <1>0, <1>3, <1>4, <1>6 DEF RecordOk, KeptKinds, MessageKinds, WireOf
<1>8. \A j \in 1 .. Len(out) : ApartOk(r, out[j]) /\ ApartOk(out[j], r)
  <2>1. \A j \in 1 .. Len(out) : out[j].m # next + 1
    BY <1>0, NothingPublishedYet DEF OutInv
  <2> QED BY <1>3, <1>4, <2>1 DEF ApartOk
<1>9. /\ \A m \in 1 .. next : m \in acked \cup dropped <=> m \in acked \cup dropped /\ m # r.m
      /\ next + 1 \notin acked \cup dropped
  BY <1>0, <1>4
<1>10. OutOk(out, next, acked \cup dropped) /\ out' = Append(out, r) /\ next + 1 \in {next, next + 1}
  BY <1>1 DEF OutInv, r
<1>11. /\ OutOk(out', next + 1, acked \cup dropped)
       /\ out' \in Seq(RecType) /\ Len(out') = Len(out) + 1
       /\ \A j \in 1 .. Len(out) : out'[j] = out[j]
       /\ out'[Len(out) + 1] = r
  <2> DEFINE D == acked \cup dropped
  <2>1. /\ OutOk(out, next, D) /\ next + 1 \in {next, next + 1} /\ next + 1 \notin D
        /\ \A m \in 1 .. next : m \in D <=> m \in D /\ m # r.m
    BY <1>9, <1>10
  <2>2. out \in Seq(RecType)
    OBVIOUS
  <2> HIDE DEF D, OutboxInv
  <2>3. /\ OutOk(Append(out, r), next + 1, D)
        /\ Append(out, r) \in Seq(RecType) /\ Len(Append(out, r)) = Len(out) + 1
        /\ \A j \in 1 .. Len(out) : Append(out, r)[j] = out[j]
        /\ Append(out, r)[Len(out) + 1] = r
    BY <1>0, <1>4, <1>5, <1>7, <1>8, <2>1, <2>2, MoreIsOk
  <2> QED BY <1>10, <2>3 DEF D
<1>12. Cardinality(Subs(out')) = Cardinality(Subs(out))
  <2>1. Cardinality(Subs(out')) = Cardinality(Subs(out)) + 0 /\ Cardinality(Subs(out)) \in Nat
    BY <1>1, <1>4, <1>5, <1>10, MoreCounts
  <2> QED BY <2>1
<1>13. Types'
  <2>1. OutTypes' 
    BY <1>0, <1>11, SizesAssumption
  <2>2. CallerTypes'
    BY <1>0, <1>2 DEF CallerTypes
  <2>3. ClientTypes' /\ PipeTypes' /\ BrokerTypes' /\ PeerTypes'
    BY <1>2 DEF ClientTypes, PipeTypes, BrokerTypes, PeerTypes, broker, peer
  <2> QED BY <2>1, <2>2, <2>3
<1>14. OutInv'
  BY <1>2, <1>11, <1>12 DEF OutInv
<1>15. ConnInv' /\ FlightInv'
  <2>1. r.kind \in KeptKinds
    BY <1>4 DEF KeptKinds
  <2>2. UNCHANGED <<phase, up, old, down>>
    BY <1>2
  <2> QED BY <1>5, <1>10, <2>1, <2>2, AppendKeepsFlight
<1> QED BY <1>13, <1>14, <1>15

\* What is read after the CONNACK is read in phase up.
LEMMA ReadIsUp ==
  ASSUME OutboxInv, NEW pkt \in Acks \cup OurPackets, Reads(pkt)
  PROVE  /\ phase = "up" /\ Len(out) < Room
         /\ down \in Seq(DownType) /\ down # <<>> /\ down' = Tail(down)
         /\ down' \in Seq(DownType) /\ Len(down') = Len(down) - 1 /\ Len(down) > 0
         /\ \A i \in 1 .. Len(down') : down'[i] = down[i + 1]
         /\ Head(down) = down[1] /\ down[1] \in DownType /\ down[1].pkt = pkt /\ down[1].id \in Ids
<1>1. down \in Seq(DownType) /\ down # <<>> /\ down' = Tail(down) /\ Head(down).pkt = pkt
  BY DEF Reads, OutboxInv, Types, PipeTypes
<1>2. /\ down' \in Seq(DownType) /\ Len(down') = Len(down) - 1 /\ Head(down) = down[1] /\ Len(down) > 0
      /\ \A i \in 1 .. Len(down') : down'[i] = down[i + 1]
  BY <1>1, TailPicks
<1>3. down[1] \in DownType
  BY <1>1, <1>2
<1>4. pkt # "connack"
  BY DEF Acks, OurPackets
<1>5. phase = "up"
  BY <1>1, <1>2, <1>4 DEF Reads, OutboxInv, ConnInv, ConnPhase
<1>6. Len(out) < Room
  BY DEF Reads, AcksFit
<1>7. down[1].id \in Ids
  BY <1>1, <1>2, <1>3, <1>4 DEF DownType
<1> QED BY <1>1, <1>2, <1>3, <1>5, <1>6, <1>7

\* A packet that was read leaves the others as they were.
LEMMA ReadKeepsFlight ==
  ASSUME OutboxInv, NEW pkt \in Acks \cup OurPackets, Reads(pkt), out' \in Seq(RecType),
         \A j \in 1 .. Len(out') : out'[j].kind = "connect" => \E i \in 1 .. Len(out) : out[i].kind = "connect",
         \A j \in 1 .. Len(out) :
           out[j].sent = "sent" /\ (pkt \in Acks => out[j].id # down[1].id) =>
             \E i \in 1 .. Len(out') : out'[i] = out[j],
         UNCHANGED <<phase, up, old>>
  PROVE  ConnInv' /\ FlightInv' /\ PipeTypes'
<1>1. /\ phase = "up" /\ phase' = "up" /\ up' = up /\ old' = old
      /\ down \in Seq(DownType) /\ Len(down) > 0
      /\ down' \in Seq(DownType) /\ Len(down') = Len(down) - 1
      /\ \A i \in 1 .. Len(down') : down'[i] = down[i + 1]
      /\ down[1] \in DownType /\ down[1].pkt = pkt
  BY ReadIsUp
<1>2. PipeTypes'
  BY <1>1 DEF OutboxInv, Types, PipeTypes
<1>3. ConnOut /\ ConnUp /\ ConnPhase /\ FlightUp /\ FlightIds /\ FlightSent
  BY DEF OutboxInv, ConnInv, FlightInv
<1>4. \A i \in 1 .. Len(out) : out[i].kind # "connect"
  BY <1>1, <1>3 DEF ConnOut
<1>5. ConnOut'
  BY <1>1, <1>4 DEF ConnOut
<1>6. ConnUp' /\ FlightUp'
  BY <1>1, <1>3 DEF ConnUp, FlightUp
<1>7. \A i \in 1 .. Len(down') : i + 1 \in 1 .. Len(down) /\ down'[i] = down[i + 1]
  BY <1>1
<1>8. ConnPhase'
  BY <1>1, <1>3, <1>7 DEF ConnPhase
<1>9. FlightIds'
  <2>1. \A i, k \in 1 .. Len(down') :
          i # k /\ down'[i].pkt \in Acks /\ down'[k].pkt \in Acks => down'[i].id # down'[k].id
    <3>1. SUFFICES ASSUME NEW i \in 1 .. Len(down'), NEW k \in 1 .. Len(down'), i # k,
                          down'[i].pkt \in Acks, down'[k].pkt \in Acks
                   PROVE  down'[i].id # down'[k].id
      OBVIOUS
    <3>2. i + 1 # k + 1
      BY <3>1
    <3> QED BY <1>1, <1>3, <1>7, <3>1, <3>2, ZenonT(60) DEF FlightIds
  <2>2. \A i \in 1 .. Len(up'), k \in 1 .. Len(down') :
          up'[i].pkt \in Calls /\ down'[k].pkt \in Acks => up'[i].id # down'[k].id
    BY <1>1, <1>3, <1>7, ZenonT(60) DEF FlightIds
  <2> QED BY <2>1, <2>2 DEF FlightIds
<1>10. ASSUME NEW j \in 1 .. Len(out), out[j].sent = "sent", pkt \in Acks => out[j].id # down[1].id
       PROVE  \E i \in 1 .. Len(out') : out'[i] = out[j]
  BY <1>10
<1>11. ASSUME NEW k \in 1 .. Len(up'), up'[k].pkt \in Calls PROVE SentCall(out', up'[k])
  <2>1. PICK j \in 1 .. Len(out) : out[j].sent = "sent" /\ out[j].pkt = up[k].pkt
                                 /\ out[j].id = up[k].id /\ out[j].m = up[k].m
    BY <1>1, <1>3, <1>11 DEF FlightSent, SentCall
  <2>2. pkt \in Acks => out[j].id # down[1].id
    <3>1. 1 \in 1 .. Len(down)
      BY <1>1
    <3> QED BY <1>1, <1>3, <1>11, <2>1, <3>1 DEF FlightIds
  <2>3. PICK i \in 1 .. Len(out') : out'[i] = out[j]
    BY <1>10, <2>1, <2>2
  <2> QED BY <1>1, <2>1, <2>3 DEF SentCall
<1>12. ASSUME NEW k \in 1 .. Len(down'), down'[k].pkt \in Acks PROVE SentFor(out', down'[k])
  <2>0. k + 1 \in 1 .. Len(down) /\ down'[k] = down[k + 1] /\ 1 \in 1 .. Len(down) /\ k + 1 # 1
    BY <1>1, <1>7
  <2>1. PICK j \in 1 .. Len(out) : out[j].sent = "sent" /\ out[j].pkt = CallOf[down'[k].pkt]
                                 /\ out[j].id = down'[k].id
    BY <1>1, <1>3, <1>12, <2>0 DEF FlightSent, SentFor
  <2>2. pkt \in Acks => out[j].id # down[1].id
    BY <1>1, <1>3, <1>12, <2>0, <2>1 DEF FlightIds
  <2>3. PICK i \in 1 .. Len(out') : out'[i] = out[j]
    BY <1>10, <2>1, <2>2
  <2> QED BY <1>1, <2>1, <2>3 DEF SentFor
<1>13. FlightSent'
  BY <1>11, <1>12 DEF FlightSent
<1> QED BY <1>2, <1>5, <1>6, <1>8, <1>9, <1>13 DEF ConnInv, FlightInv

\* A record that holds no message.
LEMMA PlainIsOk ==
  ASSUME OutTypes, CallerTypes, OutInv, NEW r \in RecType, r.m = 0, r.kind \in {"sub", "once"}, RecordOk(r, next),
         r.kind = "sub" => \A j \in 1 .. Len(out) : out[j].id # r.id
  PROVE  /\ OutOk(Append(out, r), next, acked \cup dropped)
         /\ Append(out, r) \in Seq(RecType) /\ Len(Append(out, r)) = Len(out) + 1
         /\ \A j \in 1 .. Len(out) : Append(out, r)[j] = out[j]
         /\ Append(out, r)[Len(out) + 1] = r
         /\ \A j \in 1 .. Len(out) : j \in 1 .. Len(Append(out, r))
         /\ Cardinality(Subs(Append(out, r))) = Cardinality(Subs(out)) + IF r.kind = "sub" THEN 1 ELSE 0
         /\ Cardinality(Subs(out)) \in Nat
<1> DEFINE D == acked \cup dropped
<1>1. /\ out \in Seq(RecType) /\ OutOk(out, next, D) /\ next \in {next, next + 1} /\ next \in Nat /\ next # next + 1
      /\ \A m \in 1 .. next : m \in D <=> m \in D /\ m # r.m
  BY DEF OutTypes, CallerTypes, OutInv
<1>2. \A j \in 1 .. Len(out) : ApartOk(r, out[j]) /\ ApartOk(out[j], r)
  <2>1. SUFFICES ASSUME NEW j \in 1 .. Len(out) PROVE ApartOk(r, out[j]) /\ ApartOk(out[j], r)
    OBVIOUS
  <2>2. "once" \notin KeptKinds
    BY DEF KeptKinds
  <2> QED BY <2>2 DEF ApartOk
<1> HIDE DEF D
<1>3. /\ OutOk(Append(out, r), next, D)
      /\ Append(out, r) \in Seq(RecType) /\ Len(Append(out, r)) = Len(out) + 1
      /\ \A j \in 1 .. Len(out) : Append(out, r)[j] = out[j]
      /\ Append(out, r)[Len(out) + 1] = r
  BY <1>1, <1>2, MoreIsOk
<1>4. /\ Cardinality(Subs(Append(out, r))) = Cardinality(Subs(out)) + IF r.kind = "sub" THEN 1 ELSE 0
      /\ Cardinality(Subs(out)) \in Nat
  BY <1>1, MoreCounts
<1>5. \A j \in 1 .. Len(out) : j \in 1 .. Len(Append(out, r))
  BY <1>1, <1>3
<1> QED BY <1>3, <1>4, <1>5 DEF D

LEMMA SubscribeKeepsOutbox ==
  ASSUME OutboxInv, Subscribe
  PROVE  OutboxInv'
<1>1. PICK id \in FreeIds : out' = Append(out, Rec("sub", "sub", id, 0))
  BY DEF Subscribe
<1> DEFINE r == Rec("sub", "sub", id, 0)
<1>2. /\ OutTypes /\ CallerTypes /\ OutInv /\ ConnInv /\ FlightInv
      /\ out \in Seq(RecType) /\ Len(out) < Room /\ Room \in Nat
      /\ asked < Asks /\ asked' = asked + 1
  BY SizesAssumption DEF OutboxInv, Types, OutTypes, CallerTypes, Subscribe, RoomToPublish
<1>3. UNCHANGED <<clean, phase, q2, up, old, down, broker, next, acked, told, dropped, peer, got, breaks>>
  BY DEF Subscribe, pipes
<1>4. id \in Ids /\ id \in Nat /\ \A j \in 1 .. Len(out) : out[j].id # id
  BY <1>2 DEF FreeIds, Ids
<1>5. r.kind = "sub" /\ r.pkt = "sub" /\ r.id = id /\ r.m = 0 /\ r.sent = "new"
  BY DEF Rec
<1>6. r \in RecType
  BY <1>4 DEF Rec, RecType, Kinds, KeptKinds, Calls
<1> HIDE DEF r
<1>7. RecordOk(r, next)
  BY <1>4, <1>5 DEF RecordOk, KeptKinds, MessageKinds, WireOf
<1>8. out' = Append(out, r)
  BY <1>1 DEF r
<1>9. /\ OutOk(out', next, acked \cup dropped)
      /\ out' \in Seq(RecType) /\ Len(out') = Len(out) + 1
      /\ Cardinality(Subs(out')) = Cardinality(Subs(out)) + 1
      /\ Cardinality(Subs(out)) \in Nat
  BY <1>2, <1>4, <1>5, <1>6, <1>7, <1>8, PlainIsOk
<1>10. OutTypes'
  BY <1>2, <1>9 DEF OutTypes
<1>11. CallerTypes'
  BY <1>2, <1>3, SizesAssumption DEF CallerTypes
<1>12. ClientTypes' /\ PipeTypes' /\ BrokerTypes' /\ PeerTypes'
  BY <1>3 DEF OutboxInv, Types, ClientTypes, PipeTypes, BrokerTypes, PeerTypes, broker, peer
<1>13. OutInv'
  BY <1>2, <1>3, <1>9 DEF OutInv, CallerTypes
<1>14. ConnInv' /\ FlightInv'
  <2>1. r.kind \in KeptKinds
    BY <1>5 DEF KeptKinds
  <2>2. UNCHANGED <<phase, up, old, down>>
    BY <1>3
  <2> QED BY <1>2, <1>6, <1>8, <2>1, <2>2, AppendKeepsFlight
<1> QED BY <1>10, <1>11, <1>12, <1>13, <1>14 DEF OutboxInv, Types

\* The answer to what was read.
LEMMA AnswerKeepsOutbox ==
  ASSUME OutboxInv, NEW pkt \in OurPackets, Reads(pkt), NEW ack \in OurAcks,
         out' = Append(out, Rec("once", ack, down[1].id, 0)),
         UNCHANGED <<phase, up, old, next, asked, acked, told, dropped>>
  PROVE  OutTypes' /\ PipeTypes' /\ CallerTypes' /\ OutInv' /\ ConnInv' /\ FlightInv'
<1> DEFINE r == Rec("once", ack, down[1].id, 0)
<1>1. /\ OutTypes /\ CallerTypes /\ OutInv /\ out \in Seq(RecType) /\ Room \in Nat
  BY SizesAssumption DEF OutboxInv, Types, OutTypes
<1>2. phase = "up" /\ Len(out) < Room /\ down[1].id \in Ids
  BY ReadIsUp DEF OurPackets
<1>3. r.kind = "once" /\ r.pkt = ack /\ r.id = down[1].id /\ r.m = 0 /\ r.sent = "new"
  BY DEF Rec
<1>4. r \in RecType
  BY <1>2 DEF Rec, RecType, Kinds, Ids
<1> HIDE DEF r
<1>5. RecordOk(r, next)
  BY <1>2, <1>3 DEF RecordOk, KeptKinds, MessageKinds
<1>6. out' = Append(out, r)
  BY DEF r
<1>7. /\ OutOk(out', next, acked \cup dropped)
      /\ out' \in Seq(RecType) /\ Len(out') = Len(out) + 1
      /\ \A j \in 1 .. Len(out) : j \in 1 .. Len(out') /\ out'[j] = out[j]
      /\ out'[Len(out) + 1] = r
      /\ Cardinality(Subs(out')) = Cardinality(Subs(out)) + 0
      /\ Cardinality(Subs(out)) \in Nat
  <2>1. r.m = 0 /\ r.kind \in {"sub", "once"} /\ r.kind # "sub"
    BY <1>3
  <2> QED BY <1>1, <1>3, <1>4, <1>5, <1>6, <2>1, PlainIsOk, ZenonT(60)
<1>8. OutTypes'
  BY <1>1, <1>2, <1>7 DEF OutTypes
<1>9. CallerTypes' /\ OutInv'
  BY <1>1, <1>7 DEF CallerTypes, OutInv
<1>10. \A j \in 1 .. Len(out') : out'[j].kind = "connect" => \E i \in 1 .. Len(out) : out[i].kind = "connect"
  <2>1. \A j \in 1 .. Len(out') : j \in 1 .. Len(out) \/ j = Len(out) + 1
    BY <1>7
  <2> QED BY <1>3, <1>7, <2>1
<1>11. \A j \in 1 .. Len(out) :
         out[j].sent = "sent" /\ (pkt \in Acks => out[j].id # down[1].id) =>
           \E i \in 1 .. Len(out') : out'[i] = out[j]
  BY <1>7
<1>12. ConnInv' /\ FlightInv' /\ PipeTypes'
  BY <1>7, <1>10, <1>11, ReadKeepsFlight
<1> QED BY <1>8, <1>9, <1>12

LEMMA DeliveredType ==
  ASSUME got \in [Inbound -> Nat], NEW i, Delivered(i) \/ got' = got
  PROVE  got' \in [Inbound -> Nat]
<1>1. CASE Delivered(i)
  <2>1. got' = [got EXCEPT ![i] = got[i] + 1]
    BY <1>1 DEF Delivered
  <2>2. \A j \in Inbound : got[j] \in Nat
    OBVIOUS
  <2>3. DOMAIN got' = Inbound /\ \A j \in Inbound : got'[j] = IF j = i THEN got[i] + 1 ELSE got[j]
    BY <2>1
  <2>4. got' = [j \in Inbound |-> got'[j]]
    BY <2>1, <2>3
  <2> QED BY <2>2, <2>3, <2>4
<1>2. CASE got' = got
  BY <1>2
<1> QED BY <1>1, <1>2

LEMMA OnPublish1KeepsOutbox ==
  ASSUME OutboxInv, OnPublish1
  PROVE  OutboxInv'
<1>1. "pub1" \in OurPackets /\ "puback" \in OurAcks /\ Reads("pub1")
  BY DEF OurPackets, OurAcks, OnPublish1
<1>2. Head(down) = down[1]
  BY <1>1, ReadIsUp
<1>3. out' = Append(out, Rec("once", "puback", down[1].id, 0)) /\ Delivered(down[1].m)
  BY <1>2 DEF OnPublish1
<1>4. UNCHANGED <<clean, phase, q2, up, old, broker, next, asked, acked, told, dropped, peer, breaks>>
  BY DEF OnPublish1, caller
<1>5. OutTypes' /\ PipeTypes' /\ CallerTypes' /\ OutInv' /\ ConnInv' /\ FlightInv'
  <2>1. UNCHANGED <<phase, up, old, next, asked, acked, told, dropped>>
    BY <1>4
  <2> QED BY <1>1, <1>3, <2>1, AnswerKeepsOutbox
<1>6. got' \in [Inbound -> Nat]
  BY <1>3, DeliveredType DEF OutboxInv, Types, PeerTypes
<1>7. ClientTypes' /\ BrokerTypes' /\ PeerTypes'
  BY <1>4, <1>6 DEF OutboxInv, Types, ClientTypes, BrokerTypes, PeerTypes, broker, peer
<1> QED BY <1>5, <1>7 DEF OutboxInv, Types

LEMMA OnPublish2KeepsOutbox ==
  ASSUME OutboxInv, OnPublish2
  PROVE  OutboxInv'
<1>1. "pub2" \in OurPackets /\ "pubrec" \in OurAcks /\ Reads("pub2")
  BY DEF OurPackets, OurAcks, OnPublish2
<1>2. Head(down) = down[1]
  BY <1>1, ReadIsUp
<1>3. /\ out' = Append(out, Rec("once", "pubrec", down[1].id, 0))
      /\ \/ UNCHANGED <<q2, got>>
         \/ q2' = Remembered(down[1].id) /\ Delivered(down[1].m)
  BY <1>2 DEF OnPublish2
<1>4. UNCHANGED <<clean, phase, up, old, broker, next, asked, acked, told, dropped, peer, breaks>>
  BY DEF OnPublish2, caller
<1>5. OutTypes' /\ PipeTypes' /\ CallerTypes' /\ OutInv' /\ ConnInv' /\ FlightInv'
  <2>1. UNCHANGED <<phase, up, old, next, asked, acked, told, dropped>>
    BY <1>4
  <2> QED BY <1>1, <1>3, <2>1, AnswerKeepsOutbox
<1>6. got' \in [Inbound -> Nat]
  BY <1>3, DeliveredType DEF OutboxInv, Types, PeerTypes
<1>7. q2' \in SUBSET Ids /\ IsFiniteSet(q2') /\ Cardinality(q2') <= Q2Max
  <2>1. q2 \in SUBSET Ids /\ IsFiniteSet(q2) /\ Cardinality(q2) <= Q2Max /\ Q2Max \in Nat
    BY SizesAssumption DEF OutboxInv, Types, ClientTypes
  <2>2. CASE Cardinality(q2) < Q2Max /\ q2' = q2 \cup {down[1].id}
    <3>1. /\ IsFiniteSet(q2 \cup {down[1].id})
          /\ Cardinality(q2 \cup {down[1].id}) \in {Cardinality(q2), Cardinality(q2) + 1}
          /\ Cardinality(q2) \in Nat
      BY <2>1, FS_AddElement, FS_CardinalityType
    <3>2. down[1].id \in Ids
      BY <1>1, ReadIsUp
    <3> QED BY <2>1, <2>2, <3>1, <3>2
  <2>3. CASE q2' = q2
    BY <2>1, <2>3
  <2> QED BY <1>3, <2>2, <2>3 DEF Remembered
<1>8. ClientTypes' /\ BrokerTypes' /\ PeerTypes'
  BY <1>4, <1>6, <1>7 DEF OutboxInv, Types, ClientTypes, BrokerTypes, PeerTypes, broker, peer
<1> QED BY <1>5, <1>8 DEF OutboxInv, Types

LEMMA OnPubrelKeepsOutbox ==
  ASSUME OutboxInv, OnPubrel
  PROVE  OutboxInv'
<1>1. "pubrel" \in OurPackets /\ "pubcomp" \in OurAcks /\ Reads("pubrel")
  BY DEF OurPackets, OurAcks, OnPubrel
<1>2. Head(down) = down[1]
  BY <1>1, ReadIsUp
<1>3. out' = Append(out, Rec("once", "pubcomp", down[1].id, 0)) /\ q2' = q2 \ {down[1].id}
  BY <1>2 DEF OnPubrel
<1>4. UNCHANGED <<clean, phase, up, old, broker, next, asked, acked, told, dropped, peer, got, breaks>>
  BY DEF OnPubrel, caller
<1>5. OutTypes' /\ PipeTypes' /\ CallerTypes' /\ OutInv' /\ ConnInv' /\ FlightInv'
  <2>1. UNCHANGED <<phase, up, old, next, asked, acked, told, dropped>>
    BY <1>4
  <2> QED BY <1>1, <1>3, <2>1, AnswerKeepsOutbox
<1>6. q2' \in SUBSET Ids /\ IsFiniteSet(q2') /\ Cardinality(q2') <= Q2Max
  <2>1. /\ q2 \in SUBSET Ids /\ IsFiniteSet(q2) /\ Cardinality(q2) <= Q2Max /\ Q2Max \in Nat
        /\ q2' \in SUBSET q2
    BY <1>3, SizesAssumption DEF OutboxInv, Types, ClientTypes
  <2>2. IsFiniteSet(q2') /\ Cardinality(q2') <= Cardinality(q2)
    BY <2>1, FS_Subset
  <2>3. Cardinality(q2') \in Nat /\ Cardinality(q2) \in Nat
    BY <2>1, <2>2, FS_CardinalityType
  <2> QED BY <2>1, <2>2, <2>3
<1>7. ClientTypes' /\ BrokerTypes' /\ PeerTypes'
  BY <1>4, <1>6 DEF OutboxInv, Types, ClientTypes, BrokerTypes, PeerTypes, broker, peer
<1> QED BY <1>5, <1>7 DEF OutboxInv, Types

\* An acked record goes, and no other.
LEMMA WithoutPicks ==
  ASSUME NEW o \in Seq(RecType), NEW kind, NEW id
  PROVE  /\ Without(o, kind, id) \in Seq(RecType) /\ Len(Without(o, kind, id)) <= Len(o)
         /\ Picks(Without(o, kind, id), o, {j \in 1 .. Len(o) : o[j].kind # kind \/ o[j].id # id})
<1> DEFINE K == {j \in 1 .. Len(o) : o[j].kind # kind \/ o[j].id # id}
<1>1. DOMAIN o = 1 .. Len(o) /\ K \in SUBSET (1 .. Len(o))
  OBVIOUS
<1>2. Without(o, kind, id) = Only(o, K)
  BY <1>1 DEF Without
<1> HIDE DEF K
<1>3. Only(o, K) \in Seq(RecType) /\ Len(Only(o, K)) <= Len(o) /\ Picks(Only(o, K), o, K)
  BY <1>1, OnlyPicks
<1> QED BY <1>2, <1>3 DEF K

\* t is what is left of o without a kind and id.
Rest(t, o, kind, id) ==
  /\ \A i \in 1 .. Len(t) : \E j \in 1 .. Len(o) : t[i] = o[j] /\ (o[j].kind # kind \/ o[j].id # id)
  /\ \A j \in 1 .. Len(o) : o[j].kind # kind \/ o[j].id # id => \E i \in 1 .. Len(t) : t[i] = o[j]

LEMMA WithoutKeeps ==
  ASSUME NEW o \in Seq(RecType), NEW kind \in KeptKinds, NEW id
  PROVE  /\ Without(o, kind, id) \in Seq(RecType) /\ Len(Without(o, kind, id)) <= Len(o)
         /\ Rest(Without(o, kind, id), o, kind, id)
<1> DEFINE K == {j \in 1 .. Len(o) : o[j].kind # kind \/ o[j].id # id}
           t == Without(o, kind, id)
<1>3. K \in SUBSET (1 .. Len(o))
  OBVIOUS
<1>4. t \in Seq(RecType) /\ Len(t) <= Len(o) /\ Picks(t, o, K)
  BY WithoutPicks
<1>5. \A j \in 1 .. Len(o) : j \in K <=> o[j].kind # kind \/ o[j].id # id
  OBVIOUS
<1> HIDE DEF t, K
<1>6. /\ \A i \in 1 .. Len(t) : \E k \in K : t[i] = o[k]
      /\ \A k \in K : \E i \in 1 .. Len(t) : t[i] = o[k]
  BY <1>3, <1>4, PickedParts
<1>7. \A i \in 1 .. Len(t) : \E j \in 1 .. Len(o) : t[i] = o[j] /\ (o[j].kind # kind \/ o[j].id # id)
  BY <1>3, <1>5, <1>6
<1>8. \A j \in 1 .. Len(o) : o[j].kind # kind \/ o[j].id # id => \E i \in 1 .. Len(t) : t[i] = o[j]
  BY <1>5, <1>6
<1>9. Rest(t, o, kind, id)
  BY <1>7, <1>8 DEF Rest
<1> QED BY <1>4, <1>9 DEF t

LEMMA WithoutIsOk ==
  ASSUME NEW o \in Seq(RecType), NEW n \in Nat, NEW D, OutOk(o, n, D), NEW kind \in KeptKinds, NEW id
  PROVE  OutOk(Without(o, kind, id), n, D \cup Of(o, kind, id))
<1> DEFINE K == {j \in 1 .. Len(o) : o[j].kind # kind \/ o[j].id # id}
           t == Without(o, kind, id)
           E == D \cup Of(o, kind, id)
<1>1. DOMAIN o = 1 .. Len(o) /\ K \in SUBSET (1 .. Len(o))
  OBVIOUS
<1>2. t \in Seq(RecType) /\ Picks(t, o, K)
  BY WithoutPicks
<1>3. \A m \in 1 .. n : m \in E <=> m \in D \/ \E j \in (1 .. Len(o)) \ K : o[j].m = m
  BY <1>1 DEF Of
<1> HIDE DEF t, E, K
<1>4. OutOk(t, n, E)
  BY <1>1, <1>2, <1>3, PickedIsOk
<1> QED BY <1>4 DEF t, E

\* No two subscribes have one id.
LEMMA WithoutCounts ==
  ASSUME NEW o \in Seq(RecType), NEW n \in Nat, NEW D, OutOk(o, n, D), NEW kind \in KeptKinds, NEW id
  PROVE  /\ kind = "sub" /\ Has(o, kind, id) => Cardinality(Subs(Without(o, kind, id))) = Cardinality(Subs(o)) - 1
         /\ ~(kind = "sub" /\ Has(o, kind, id)) => Cardinality(Subs(Without(o, kind, id))) = Cardinality(Subs(o))
<1> DEFINE K == {j \in 1 .. Len(o) : o[j].kind # kind \/ o[j].id # id}
           t == Without(o, kind, id)
<1>1. DOMAIN o = 1 .. Len(o) /\ K \in SUBSET (1 .. Len(o))
  OBVIOUS
<1>2. t \in Seq(RecType) /\ Picks(t, o, K)
  BY WithoutPicks
<1>3. \A j \in 1 .. Len(o) : j \in K <=> o[j].kind # kind \/ o[j].id # id
  OBVIOUS
<1> HIDE DEF t, K
<1>4. Cardinality(Subs(t)) = Cardinality(Subs(o) \cap K)
  BY <1>1, <1>2, PickedParts
<1>5. IsFiniteSet(Subs(o)) /\ Cardinality(Subs(o)) \in Nat
  BY SubsAreFinite
<1>6. ASSUME kind = "sub", Has(o, kind, id) PROVE Cardinality(Subs(t)) = Cardinality(Subs(o)) - 1
  <2>1. PICK j \in 1 .. Len(o) : o[j].kind = "sub" /\ o[j].id = id
    BY <1>1, <1>6 DEF Has
  <2>2. \A k \in 1 .. Len(o) : k # j /\ o[k].kind = "sub" => o[k].id # id
    BY <2>1 DEF OutOk, ApartOk, KeptKinds
  <2>3. Subs(o) \cap K = Subs(o) \ {j} /\ j \in Subs(o)
    BY <1>3, <1>6, <2>1, <2>2 DEF Subs
  <2>4. Cardinality(Subs(o) \ {j}) = Cardinality(Subs(o)) - 1
    BY <1>5, <2>3, FS_RemoveElement
  <2> QED BY <1>4, <2>3, <2>4
<1>7. ASSUME ~(kind = "sub" /\ Has(o, kind, id)) PROVE Cardinality(Subs(t)) = Cardinality(Subs(o))
  <2>1. Subs(o) \cap K = Subs(o)
    BY <1>1, <1>3, <1>7 DEF Subs, Has
  <2> QED BY <1>4, <2>1
<1> QED BY <1>6, <1>7 DEF t

LEMMA OfIsPublished ==
  ASSUME NEW o \in Seq(RecType), NEW n \in Nat, NEW D, OutOk(o, n, D), NEW kind \in MessageKinds, NEW id
  PROVE  Of(o, kind, id) \in SUBSET (1 .. n)
<1>1. ASSUME NEW j \in 1 .. Len(o), o[j].kind = kind PROVE o[j].m \in 1 .. n
  <2>1. RecordOk(o[j], n)
    BY DEF OutOk
  <2> QED BY <1>1, <2>1 DEF RecordOk
<1>2. DOMAIN o = 1 .. Len(o)
  OBVIOUS
<1> QED BY <1>1, <1>2 DEF Of

\* The answer to a call takes its record from the outbox, at most.
LEMMA AckedIsOk ==
  ASSUME OutboxInv, NEW pkt \in Acks, Reads(pkt), NEW kind \in KeptKinds,
         out' = Without(out, kind, down[1].id),
         UNCHANGED <<phase, up, old>>
  PROVE  /\ OutTypes' /\ ConnInv' /\ FlightInv' /\ PipeTypes'
         /\ OutOk(out', next, acked \cup dropped \cup Of(out, kind, down[1].id))
         /\ kind = "sub" /\ Has(out, kind, down[1].id) => Cardinality(Subs(out')) = Cardinality(Subs(out)) - 1
         /\ ~(kind = "sub" /\ Has(out, kind, down[1].id)) => Cardinality(Subs(out')) = Cardinality(Subs(out))
<1> DEFINE id == down[1].id
           D == acked \cup dropped
<1>1. /\ OutOk(out, next, D) /\ out \in Seq(RecType) /\ next \in Nat /\ Len(out) <= Room
      /\ Room \in Nat /\ out' = Without(out, kind, id)
  BY SizesAssumption DEF OutboxInv, Types, OutTypes, CallerTypes, OutInv
<1> HIDE DEF id, D
<1>2. OutOk(out', next, D \cup Of(out, kind, id))
  BY <1>1, WithoutIsOk
<1>3. /\ out' \in Seq(RecType) /\ Len(out') <= Len(out)
      /\ \A i \in 1 .. Len(out') : \E j \in 1 .. Len(out) :
           out'[i] = out[j] /\ (out[j].kind # kind \/ out[j].id # id)
      /\ \A j \in 1 .. Len(out) : out[j].kind # kind \/ out[j].id # id => \E i \in 1 .. Len(out') : out'[i] = out[j]
  <2>1. out' \in Seq(RecType) /\ Len(out') <= Len(out) /\ Rest(out', out, kind, id)
    BY <1>1, WithoutKeeps
  <2> QED BY <2>1 DEF Rest
<1>4. /\ kind = "sub" /\ Has(out, kind, id) => Cardinality(Subs(out')) = Cardinality(Subs(out)) - 1
      /\ ~(kind = "sub" /\ Has(out, kind, id)) => Cardinality(Subs(out')) = Cardinality(Subs(out))
  BY <1>1, WithoutCounts
<1>5. OutTypes'
  <2>1. Len(out') <= Room
    BY <1>1, <1>3
  <2> QED BY <1>3, <2>1 DEF OutTypes
<1>6. ConnInv' /\ FlightInv' /\ PipeTypes'
  <2>1. \A j \in 1 .. Len(out') : out'[j].kind = "connect" => \E i \in 1 .. Len(out) : out[i].kind = "connect"
    BY <1>3
  <2>2. \A j \in 1 .. Len(out) :
          out[j].sent = "sent" /\ (pkt \in Acks => out[j].id # down[1].id) =>
            \E i \in 1 .. Len(out') : out'[i] = out[j]
    BY <1>3 DEF id
  <2> QED BY <1>3, <2>1, <2>2, ReadKeepsFlight
<1> QED BY <1>2, <1>4, <1>5, <1>6 DEF id, D

LEMMA OnPubackKeepsOutbox ==
  ASSUME OutboxInv, OnPuback
  PROVE  OutboxInv'
<1>1. "puback" \in Acks /\ "pub1" \in KeptKinds /\ "pub1" \in MessageKinds /\ Reads("puback")
  BY DEF Acks, KeptKinds, MessageKinds, OnPuback
<1>2. Head(down) = down[1]
  BY <1>1, ReadIsUp
<1>3. out' = Without(out, "pub1", down[1].id) /\ acked' = acked \cup Of(out, "pub1", down[1].id)
  BY <1>2 DEF OnPuback
<1>4. UNCHANGED <<clean, phase, q2, up, old, broker, next, asked, told, dropped, peer, got, breaks>>
  BY DEF OnPuback
<1>5. /\ OutTypes' /\ ConnInv' /\ FlightInv' /\ PipeTypes'
      /\ OutOk(out', next, acked \cup dropped \cup Of(out, "pub1", down[1].id))
      /\ Cardinality(Subs(out')) = Cardinality(Subs(out))
  <2>1. UNCHANGED <<phase, up, old>>
    BY <1>4
  <2> QED BY <1>1, <1>3, <2>1, AckedIsOk
<1>6. Of(out, "pub1", down[1].id) \in SUBSET (1 .. next)
  BY <1>1, OfIsPublished DEF OutboxInv, Types, OutTypes, CallerTypes, OutInv
<1>7. CallerTypes'
  BY <1>3, <1>4, <1>6 DEF OutboxInv, Types, CallerTypes
<1>8. OutInv'
  <2>1. acked' \cup dropped' = acked \cup dropped \cup Of(out, "pub1", down[1].id)
    BY <1>3, <1>4
  <2>2. Cardinality(Subs(out)) \in Nat /\ told + Cardinality(Subs(out)) = asked
    BY SubsAreFinite DEF OutboxInv, Types, OutTypes, OutInv
  <2> QED BY <1>4, <1>5, <2>1, <2>2 DEF OutInv
<1>9. ClientTypes' /\ BrokerTypes' /\ PeerTypes'
  BY <1>4 DEF OutboxInv, Types, ClientTypes, BrokerTypes, PeerTypes, broker, peer
<1> QED BY <1>5, <1>7, <1>8, <1>9 DEF OutboxInv, Types

LEMMA OnPubcompKeepsOutbox ==
  ASSUME OutboxInv, OnPubcomp
  PROVE  OutboxInv'
<1>1. "pubcomp" \in Acks /\ "rel" \in KeptKinds /\ "rel" \in MessageKinds /\ Reads("pubcomp")
  BY DEF Acks, KeptKinds, MessageKinds, OnPubcomp
<1>2. Head(down) = down[1]
  BY <1>1, ReadIsUp
<1>3. out' = Without(out, "rel", down[1].id) /\ acked' = acked \cup Of(out, "rel", down[1].id)
  BY <1>2 DEF OnPubcomp
<1>4. UNCHANGED <<clean, phase, q2, up, old, broker, next, asked, told, dropped, peer, got, breaks>>
  BY DEF OnPubcomp
<1>5. /\ OutTypes' /\ ConnInv' /\ FlightInv' /\ PipeTypes'
      /\ OutOk(out', next, acked \cup dropped \cup Of(out, "rel", down[1].id))
      /\ Cardinality(Subs(out')) = Cardinality(Subs(out))
  <2>1. UNCHANGED <<phase, up, old>>
    BY <1>4
  <2> QED BY <1>1, <1>3, <2>1, AckedIsOk
<1>6. Of(out, "rel", down[1].id) \in SUBSET (1 .. next)
  BY <1>1, OfIsPublished DEF OutboxInv, Types, OutTypes, CallerTypes, OutInv
<1>7. CallerTypes'
  BY <1>3, <1>4, <1>6 DEF OutboxInv, Types, CallerTypes
<1>8. OutInv'
  <2>1. acked' \cup dropped' = acked \cup dropped \cup Of(out, "rel", down[1].id)
    BY <1>3, <1>4
  <2>2. Cardinality(Subs(out)) \in Nat /\ told + Cardinality(Subs(out)) = asked
    BY SubsAreFinite DEF OutboxInv, Types, OutTypes, OutInv
  <2> QED BY <1>4, <1>5, <2>1, <2>2 DEF OutInv
<1>9. ClientTypes' /\ BrokerTypes' /\ PeerTypes'
  BY <1>4 DEF OutboxInv, Types, ClientTypes, BrokerTypes, PeerTypes, broker, peer
<1> QED BY <1>5, <1>7, <1>8, <1>9 DEF OutboxInv, Types

LEMMA OnSubackKeepsOutbox ==
  ASSUME OutboxInv, OnSuback
  PROVE  OutboxInv'
<1>1. "suback" \in Acks /\ "sub" \in KeptKinds /\ Reads("suback")
  BY DEF Acks, KeptKinds, OnSuback
<1>2. Head(down) = down[1]
  BY <1>1, ReadIsUp
<1>3. /\ out' = Without(out, "sub", down[1].id)
      /\ told' = IF Has(out, "sub", down[1].id) THEN told + 1 ELSE told
  BY <1>2 DEF OnSuback
<1>4. UNCHANGED <<clean, phase, q2, up, old, broker, next, asked, acked, dropped, peer, got, breaks>>
  BY DEF OnSuback
<1>5. /\ OutTypes' /\ ConnInv' /\ FlightInv' /\ PipeTypes'
      /\ OutOk(out', next, acked \cup dropped \cup Of(out, "sub", down[1].id))
      /\ Has(out, "sub", down[1].id) => Cardinality(Subs(out')) = Cardinality(Subs(out)) - 1
      /\ ~Has(out, "sub", down[1].id) => Cardinality(Subs(out')) = Cardinality(Subs(out))
  <2>1. UNCHANGED <<phase, up, old>>
    BY <1>4
  <2> QED BY <1>1, <1>3, <2>1, AckedIsOk
<1>6. Of(out, "sub", down[1].id) \in SUBSET {0} /\ OutOk(out', next, acked \cup dropped)
  <2>1. ASSUME NEW j \in 1 .. Len(out), out[j].kind = "sub" PROVE out[j].m = 0
    <3>1. RecordOk(out[j], next) /\ out[j].kind \notin MessageKinds
      BY <2>1 DEF OutboxInv, OutInv, OutOk, MessageKinds
    <3> QED BY <3>1 DEF RecordOk
  <2>2. DOMAIN out = 1 .. Len(out)
    BY DEF OutboxInv, Types, OutTypes
  <2>3. Of(out, "sub", down[1].id) \in SUBSET {0}
    BY <2>1, <2>2 DEF Of
  <2>4. \A m \in 1 .. next : m \in acked \cup dropped \cup Of(out, "sub", down[1].id) <=> m \in acked \cup dropped
    <3>1. 0 \notin 1 .. next
      OBVIOUS
    <3> QED BY <2>3, <3>1
  <2> QED BY <1>5, <2>3, <2>4 DEF OutOk
<1>7. /\ Cardinality(Subs(out)) \in Nat /\ told + Cardinality(Subs(out)) = asked
      /\ Cardinality(Subs(out')) \in Nat
      /\ told \in Nat /\ asked \in 0 .. Asks /\ Asks \in Nat
  <2>1. out \in Seq(RecType) /\ out' \in Seq(RecType)
    BY <1>5 DEF OutboxInv, Types, OutTypes
  <2>2. Cardinality(Subs(out)) \in Nat /\ Cardinality(Subs(out')) \in Nat
    BY <2>1, SubsAreFinite
  <2> QED BY <2>2, SizesAssumption DEF OutboxInv, Types, CallerTypes, OutInv
<1>8. told' \in 0 .. Asks /\ told' + Cardinality(Subs(out')) = asked
  <2>1. CASE Has(out, "sub", down[1].id)
    BY <1>3, <1>5, <1>7, <2>1
  <2>2. CASE ~Has(out, "sub", down[1].id)
    BY <1>3, <1>5, <1>7, <2>2
  <2> QED BY <2>1, <2>2
<1>9. CallerTypes' /\ OutInv'
  BY <1>4, <1>6, <1>8 DEF OutboxInv, Types, CallerTypes, OutInv
<1>10. ClientTypes' /\ BrokerTypes' /\ PeerTypes'
  BY <1>4 DEF OutboxInv, Types, ClientTypes, BrokerTypes, PeerTypes, broker, peer
<1> QED BY <1>5, <1>9, <1>10 DEF OutboxInv, Types

\* A PUBREC is of the PUBLISH in record j, which its PUBREL replaces.
PubrecOf(j) ==
  /\ out[j].kind = "pub2" /\ out[j].id = down[1].id
  /\ out[j].m \in 1 .. next /\ Qos[out[j].m] = 2
  /\ \A k \in 1 .. Len(out) : k # j => /\ out[k].kind \in KeptKinds => out[k].id # down[1].id
                                      /\ out[k].m # out[j].m
  /\ out' = Append(Without(out, "pub2", down[1].id), Rec("rel", "pubrel", down[1].id, out[j].m))

LEMMA OnPubrecFinds ==
  ASSUME OutboxInv, OnPubrec
  PROVE  \E j \in 1 .. Len(out) : PubrecOf(j)
<1> DEFINE id == down[1].id
           D == acked \cup dropped
           o == Without(out, "pub2", id)
<1>1. "pubrec" \in Acks /\ "pub2" \in KeptKinds /\ Reads("pubrec")
  BY DEF Acks, KeptKinds, OnPubrec
<1>2. /\ Head(down) = down[1] /\ phase = "up" /\ Len(down) > 0 /\ Len(out) < Room /\ id \in Ids /\ id \in Nat
      /\ down[1].pkt = "pubrec"
  BY <1>1, ReadIsUp DEF Ids
<1>3. PICK m \in Of(out, "pub2", id) \cup {0} :
        /\ Has(out, "pub2", id) => m # 0
        /\ out' = IF Has(out, "rel", id) THEN o ELSE Append(o, Rec("rel", "pubrel", id, m))
  BY <1>2 DEF OnPubrec
<1>4. UNCHANGED <<clean, phase, q2, up, old, broker, next, asked, acked, told, dropped, peer, got, breaks>>
  BY DEF OnPubrec, caller
<1>5. /\ out \in Seq(RecType) /\ OutOk(out, next, D) /\ next \in Nat /\ Room \in Nat /\ DOMAIN out = 1 .. Len(out)
      /\ told + Cardinality(Subs(out)) = asked
  BY SizesAssumption DEF OutboxInv, Types, OutTypes, CallerTypes, OutInv
<1> HIDE DEF id, D, o
<1>6. PICK j \in 1 .. Len(out) : out[j].kind = "pub2" /\ out[j].id = id
  <2>1. SentFor(out, down[1])
    BY <1>1, <1>2 DEF OutboxInv, FlightInv, FlightSent
  <2>2. PICK j \in 1 .. Len(out) : out[j].pkt = "pub2" /\ out[j].id = id
    BY <1>2, <2>1 DEF SentFor, CallOf, id
  <2>3. RecordOk(out[j], next) /\ out[j].kind \in Kinds
    <3>1. out[j] \in RecType
      BY <1>5
    <3>2. out[j].kind \in Kinds
      BY <3>1 DEF RecType
    <3> QED BY <1>5, <3>2 DEF OutOk
  <2>4. out[j].kind = "pub2"
    BY <2>2, <2>3 DEF RecordOk, Kinds, KeptKinds, WireOf, OurAcks
  <2> QED BY <2>2, <2>4
<1>7. \A k \in 1 .. Len(out) : k # j => /\ out[k].kind \in KeptKinds => out[k].id # id
                                        /\ out[k].m # out[j].m
  <2>1. SUFFICES ASSUME NEW k \in 1 .. Len(out), k # j
                 PROVE  /\ out[k].kind \in KeptKinds => out[k].id # id
                        /\ out[k].m # out[j].m
    OBVIOUS
  <2>2. RecordOk(out[j], next) /\ out[j].kind \in MessageKinds
    BY <1>5, <1>6 DEF OutOk, MessageKinds
  <2>3. out[j].m \in 1 .. next /\ Qos[out[j].m] = 2
    BY <1>6, <2>2 DEF RecordOk
  <2>4. ApartOk(out[j], out[k])
    BY <1>5, <2>1 DEF OutOk
  <2> QED BY <1>1, <1>6, <2>3, <2>4 DEF ApartOk
<1>8. out[j].m \in 1 .. next /\ Qos[out[j].m] = 2
  BY <1>5, <1>6 DEF OutOk, MessageKinds, RecordOk
<1>9. Of(out, "pub2", id) = {out[j].m} /\ m = out[j].m
  <2>1. \A k \in 1 .. Len(out) : out[k].kind = "pub2" /\ out[k].id = id => k = j
    BY <1>1, <1>7
  <2>2. Of(out, "pub2", id) = {out[j].m}
    BY <1>5, <1>6, <2>1 DEF Of
  <2>3. Has(out, "pub2", id)
    BY <1>5, <1>6 DEF Has
  <2> QED BY <1>3, <2>2, <2>3
<1>10. out' = Append(o, Rec("rel", "pubrel", id, m))
  <2>1. ~Has(out, "rel", id)
    BY <1>5, <1>6, <1>7 DEF Has, KeptKinds
  <2> QED BY <1>3, <2>1
<1> QED BY <1>6, <1>7, <1>8, <1>9, <1>10 DEF PubrecOf, id, o

LEMMA OnPubrecKeepsOutbox ==
  ASSUME OutboxInv, OnPubrec
  PROVE  OutboxInv'
<1>0. PICK j \in 1 .. Len(out) : PubrecOf(j)
  BY OnPubrecFinds
<1> DEFINE id == down[1].id
           m == out[j].m
           D == acked \cup dropped
           o == Without(out, "pub2", id)
           r == Rec("rel", "pubrel", id, m)
<1>1. "pubrec" \in Acks /\ "pub2" \in KeptKinds /\ "pub2" \in MessageKinds /\ Reads("pubrec")
  BY DEF Acks, KeptKinds, MessageKinds, OnPubrec
<1>2. /\ Head(down) = down[1] /\ phase = "up" /\ Len(down) > 0 /\ Len(out) < Room /\ id \in Ids /\ id \in Nat
      /\ down[1].pkt = "pubrec"
  BY <1>1, ReadIsUp DEF Ids
<1>4. UNCHANGED <<clean, phase, q2, up, old, broker, next, asked, acked, told, dropped, peer, got, breaks>>
  BY DEF OnPubrec, caller
<1>5. /\ out \in Seq(RecType) /\ OutOk(out, next, D) /\ next \in Nat /\ Room \in Nat /\ DOMAIN out = 1 .. Len(out)
      /\ told + Cardinality(Subs(out)) = asked
  BY SizesAssumption DEF OutboxInv, Types, OutTypes, CallerTypes, OutInv
<1>6. out[j].kind = "pub2" /\ out[j].id = id
  BY <1>0 DEF PubrecOf
<1>7. \A k \in 1 .. Len(out) : k # j => /\ out[k].kind \in KeptKinds => out[k].id # id
                                        /\ out[k].m # out[j].m
  BY <1>0 DEF PubrecOf
<1>8. out[j].m \in 1 .. next /\ Qos[out[j].m] = 2
  BY <1>0 DEF PubrecOf
<1>10. out' = Append(o, r)
  BY <1>0 DEF PubrecOf
<1>9. Of(out, "pub2", id) = {m}
  <2>1. \A k \in 1 .. Len(out) : out[k].kind = "pub2" /\ out[k].id = id => k = j
    BY <1>1, <1>7
  <2> QED BY <1>5, <1>6, <2>1 DEF Of
<1> HIDE DEF id, D, o
<1>11. r.kind = "rel" /\ r.pkt = "pubrel" /\ r.id = id /\ r.m = m /\ r.sent = "new"
  BY DEF Rec
<1>12. r \in RecType
  BY <1>2, <1>8, <1>9 DEF Rec, RecType, Kinds, KeptKinds, Calls
<1> HIDE DEF r
<1>13. RecordOk(r, next)
  BY <1>2, <1>8, <1>9, <1>11 DEF RecordOk, KeptKinds, MessageKinds, WireOf
<1>14. /\ OutOk(o, next, D \cup {m}) /\ o \in Seq(RecType) /\ Len(o) <= Len(out)
       /\ Cardinality(Subs(o)) = Cardinality(Subs(out))
  <2>1. OutOk(o, next, D \cup Of(out, "pub2", id))
    BY <1>1, <1>5, WithoutIsOk DEF o
  <2>2. o \in Seq(RecType) /\ Len(o) <= Len(out)
    BY <1>1, <1>5, WithoutKeeps DEF o
  <2>3. Cardinality(Subs(o)) = Cardinality(Subs(out))
    BY <1>1, <1>5, WithoutCounts DEF o
  <2> QED BY <1>9, <2>1, <2>2, <2>3
<1>15. \A i \in 1 .. Len(o) : \E k \in 1 .. Len(out) : k # j /\ o[i] = out[k]
  <2>1. \A i \in 1 .. Len(o) : \E k \in 1 .. Len(out) : o[i] = out[k] /\ (out[k].kind # "pub2" \/ out[k].id # id)
    <3>1. Rest(o, out, "pub2", id)
      BY <1>1, <1>5, WithoutKeeps DEF o
    <3> QED BY <3>1 DEF Rest
  <2> QED BY <1>6, <2>1
<1>16. \A k \in 1 .. Len(out) : out[k].kind # "pub2" \/ out[k].id # id => \E i \in 1 .. Len(o) : o[i] = out[k]
  <2>1. Rest(o, out, "pub2", id)
    BY <1>1, <1>5, WithoutKeeps DEF o
  <2> QED BY <2>1 DEF Rest
<1>17. \A i \in 1 .. Len(o) : ApartOk(r, o[i]) /\ ApartOk(o[i], r)
  <2>1. SUFFICES ASSUME NEW i \in 1 .. Len(o) PROVE ApartOk(r, o[i]) /\ ApartOk(o[i], r)
    OBVIOUS
  <2>2. PICK k \in 1 .. Len(out) : k # j /\ o[i] = out[k]
    BY <1>15
  <2> QED BY <1>7, <1>9, <1>11, <2>2 DEF ApartOk
<1>18. \A l \in 1 .. next : l \in D <=> l \in D \cup {m} /\ l # r.m
  <2>1. m \notin D
    BY <1>5, <1>8, <1>9 DEF OutOk
  <2> QED BY <1>11, <2>1
<1>19. /\ OutOk(out', next, D) /\ out' \in Seq(RecType) /\ Len(out') = Len(o) + 1
       /\ \A i \in 1 .. Len(o) : out'[i] = o[i]
       /\ out'[Len(o) + 1] = r
  <2> DEFINE E == D \cup {m}
  <2>1. /\ OutOk(o, next, E) /\ \A l \in 1 .. next : l \in D <=> l \in E /\ l # r.m
        /\ next \in {next, next + 1} /\ next # next + 1
    BY <1>5, <1>14, <1>18
  <2> HIDE DEF E
  <2>2. OutOk(Append(o, r), next, D)
    BY <1>5, <1>12, <1>13, <1>14, <1>17, <2>1, MoreIsOk
  <2>3. /\ Append(o, r) \in Seq(RecType) /\ Len(Append(o, r)) = Len(o) + 1
        /\ \A i \in 1 .. Len(o) : Append(o, r)[i] = o[i]
        /\ Append(o, r)[Len(o) + 1] = r
    BY <1>12, <1>14, AppendProperties
  <2> QED BY <1>10, <2>2, <2>3
<1>20. Cardinality(Subs(out')) = Cardinality(Subs(out))
  <2>1. Cardinality(Subs(out')) = Cardinality(Subs(o)) + 0 /\ Cardinality(Subs(o)) \in Nat
    BY <1>10, <1>11, <1>12, <1>14, MoreCounts
  <2> QED BY <1>14, <2>1
<1>21. OutTypes'
  BY <1>2, <1>5, <1>14, <1>19 DEF OutTypes
<1>22. ConnInv' /\ FlightInv' /\ PipeTypes'
  <2>1. \A i \in 1 .. Len(out') : out'[i].kind = "connect" => \E k \in 1 .. Len(out) : out[k].kind = "connect"
    <3>1. \A i \in 1 .. Len(out') : i \in 1 .. Len(o) \/ i = Len(o) + 1
      BY <1>14, <1>19
    <3> QED BY <1>11, <1>15, <1>19, <3>1
  <2>2. \A k \in 1 .. Len(out) :
          out[k].sent = "sent" /\ ("pubrec" \in Acks => out[k].id # down[1].id) =>
            \E i \in 1 .. Len(out') : out'[i] = out[k]
    <3>1. \A i \in 1 .. Len(o) : i \in 1 .. Len(out') /\ out'[i] = o[i]
      BY <1>14, <1>19
    <3> QED BY <1>1, <1>16, <3>1 DEF id
  <2>3. UNCHANGED <<phase, up, old>>
    BY <1>4
  <2> QED BY <1>1, <1>19, <2>1, <2>2, <2>3, ReadKeepsFlight
<1>23. OutInv'
  BY <1>4, <1>5, <1>19, <1>20 DEF OutInv, D
<1>24. ClientTypes' /\ CallerTypes' /\ BrokerTypes' /\ PeerTypes'
  BY <1>4 DEF OutboxInv, Types, ClientTypes, CallerTypes, BrokerTypes, PeerTypes, broker, peer
<1> QED BY <1>21, <1>22, <1>23, <1>24 DEF OutboxInv, Types

\* Everything that was sent is to be sent again.
LEMMA RewoundIsOk ==
  ASSUME NEW o \in Seq(RecType), NEW n \in Nat, NEW D, OutOk(o, n, D)
  PROVE  /\ Rewound(o) \in Seq(RecType) /\ Len(Rewound(o)) = Len(o)
         /\ \A i \in 1 .. Len(o) : Alike(Rewound(o)[i], o[i])
         /\ OutOk(Rewound(o), n, D)
         /\ Cardinality(Subs(Rewound(o))) = Cardinality(Subs(o))
<1> DEFINE t == Rewound(o)
<1>1. DOMAIN o = 1 .. Len(o) /\ Len(o) \in Nat
  OBVIOUS
<1>2. t = [j \in 1 .. Len(o) |-> IF o[j].sent = "sent" THEN [o[j] EXCEPT !.sent = "new"] ELSE o[j]]
  BY <1>1 DEF Rewound
<1> HIDE DEF t
<1>3. ASSUME NEW j \in 1 .. Len(o)
      PROVE  t[j] \in RecType /\ Alike(t[j], o[j]) /\ t[j].sent \in {"new", o[j].sent}
  <2>1. o[j] \in RecType
    OBVIOUS
  <2>2. CASE o[j].sent = "sent"
    <3>1. t[j] = [o[j] EXCEPT !.sent = "new"]
      BY <1>2, <2>2
    <3> QED BY <2>1, <3>1 DEF RecType, Alike
  <2>3. CASE o[j].sent # "sent"
    <3>1. t[j] = o[j]
      BY <1>2, <2>3
    <3> QED BY <2>1, <3>1 DEF Alike
  <2> QED BY <2>2, <2>3
<1>4. t \in Seq(RecType) /\ Len(t) = Len(o)
  BY <1>1, <1>2, <1>3
<1>5. OutOk(t, n, D) /\ Cardinality(Subs(t)) = Cardinality(Subs(o))
  BY <1>3, <1>4, MarkedIsOk
<1> QED BY <1>3, <1>4, <1>5 DEF t

\* What the PUBREL of an unknown session would release is done with.
Rels(o) == {o[j].m : j \in {k \in DOMAIN o : o[k].kind = "rel"}}

LEMMA SettledIsOk ==
  ASSUME NEW o \in Seq(RecType), NEW n \in Nat, NEW D, OutOk(o, n, D)
  PROVE  /\ Settled(o) \in Seq(RecType) /\ Len(Settled(o)) <= Len(o)
         /\ \A i \in 1 .. Len(Settled(o)) : \E j \in 1 .. Len(o) : Settled(o)[i] = o[j]
         /\ OutOk(Settled(o), n, D \cup Rels(o))
         /\ Cardinality(Subs(Settled(o))) = Cardinality(Subs(o))
         /\ Rels(o) \in SUBSET (1 .. n)
<1> DEFINE K == {j \in 1 .. Len(o) : o[j].kind # "rel"}
           t == Settled(o)
           E == D \cup Rels(o)
<1>0. DOMAIN o = 1 .. Len(o)
  OBVIOUS
<1>1. DOMAIN o = 1 .. Len(o) /\ K \in SUBSET (1 .. Len(o)) /\ t = Only(o, K)
  <2>1. K = {j \in DOMAIN o : o[j].kind # "rel"}
    BY <1>0
  <2> QED BY <1>0, <2>1 DEF Settled
<1>2. t \in Seq(RecType) /\ Len(t) <= Len(o) /\ Picks(t, o, K)
  BY <1>1, OnlyPicks
<1>3. \A m \in 1 .. n : m \in E <=> m \in D \/ \E j \in (1 .. Len(o)) \ K : o[j].m = m
  BY <1>1 DEF Rels
<1>4. Subs(o) \cap K = Subs(o)
  BY DEF Subs
<1>5. \A j \in 1 .. Len(o) : o[j].kind = "rel" => o[j].m \in 1 .. n
  BY DEF OutOk, RecordOk, MessageKinds
<1>6. Rels(o) \in SUBSET (1 .. n)
  BY <1>1, <1>5 DEF Rels
<1> HIDE DEF t, E, K
<1>7. OutOk(t, n, E)
  BY <1>1, <1>2, <1>3, PickedIsOk
<1>8. Cardinality(Subs(t)) = Cardinality(Subs(o) \cap K)
  BY <1>1, <1>2, PickedParts
<1>9. \A i \in 1 .. Len(t) : \E k \in K : t[i] = o[k]
  BY <1>1, <1>2, PickedParts
<1>10. \A i \in 1 .. Len(t) : \E k \in 1 .. Len(o) : t[i] = o[k]
  BY <1>1, <1>9
<1> QED BY <1>2, <1>4, <1>6, <1>7, <1>8, <1>10 DEF t, E

LEMMA OnConnackKeepsOutbox ==
  ASSUME OutboxInv, OnConnack
  PROVE  OutboxInv'
<1> DEFINE D == acked \cup dropped
<1>1. /\ down \in Seq(DownType) /\ down # <<>> /\ down' = Tail(down) /\ Head(down).pkt = "connack"
      /\ phase \in {"hello", "up"} /\ phase' = "up"
  BY DEF OnConnack, Reads, OutboxInv, Types, PipeTypes
<1>2. /\ down' \in Seq(DownType) /\ Len(down') = Len(down) - 1 /\ Head(down) = down[1] /\ Len(down) > 0
      /\ \A i \in 1 .. Len(down') : down'[i] = down[i + 1]
  BY <1>1, TailPicks
<1>3. phase = "hello"
  <2>1. 1 \in 1 .. Len(down) /\ down[1].pkt = "connack"
    BY <1>1, <1>2
  <2> QED BY <1>1, <2>1 DEF OutboxInv, ConnInv, ConnPhase
<1>4. /\ up = <<>> /\ ~Connecting /\ \A k \in 2 .. Len(down) : down[k].pkt \in OurPackets
      /\ old = 0 /\ Len(up) = 0
  BY <1>1, <1>3 DEF OutboxInv, ConnInv, ConnPhase, Types, PipeTypes
<1>5. UNCHANGED <<clean, up, old, broker, next, asked, told, dropped, peer, got, breaks>>
  BY DEF OnConnack
<1>6. /\ out \in Seq(RecType) /\ OutOk(out, next, D) /\ next \in Nat /\ Room \in Nat /\ Len(out) <= Room
      /\ told + Cardinality(Subs(out)) = asked /\ DOMAIN out = 1 .. Len(out)
  BY SizesAssumption DEF OutboxInv, Types, OutTypes, CallerTypes, OutInv
<1> HIDE DEF D
<1>7. /\ out' \in Seq(RecType) /\ Len(out') <= Len(out)
      /\ \A i \in 1 .. Len(out') : \E j \in 1 .. Len(out) : out'[i].kind = out[j].kind
      /\ Cardinality(Subs(out')) = Cardinality(Subs(out))
      /\ OutOk(out', next, acked' \cup dropped)
      /\ acked' \in SUBSET (1 .. next)
      /\ q2' \in {q2, {}}
  <2>1. acked \in SUBSET (1 .. next)
    BY DEF OutboxInv, Types, CallerTypes
  <2>2. CASE Head(down).m = 1
    <3>1. out' = Rewound(out) /\ q2' = q2 /\ acked' = acked
      BY <2>2 DEF OnConnack
    <3>2. /\ out' \in Seq(RecType) /\ Len(out') = Len(out) /\ OutOk(out', next, D)
          /\ Cardinality(Subs(out')) = Cardinality(Subs(out))
      BY <1>6, <3>1, RewoundIsOk
    <3>3. \A i \in 1 .. Len(out) : Alike(Rewound(out)[i], out[i])
      BY <1>6, RewoundIsOk
    <3> QED BY <1>6, <2>1, <3>1, <3>2, <3>3 DEF D, Alike
  <2>3. CASE Head(down).m # 1
    <3> DEFINE o == Settled(out)
               E == D \cup Rels(out)
    <3>1. out' = Rewound(o) /\ q2' = {} /\ acked' = acked \cup Rels(out)
      BY <2>3 DEF OnConnack, Rels
    <3>2. /\ o \in Seq(RecType) /\ Len(o) <= Len(out) /\ OutOk(o, next, E)
          /\ Cardinality(Subs(o)) = Cardinality(Subs(out)) /\ Rels(out) \in SUBSET (1 .. next)
      BY <1>6, SettledIsOk
    <3>3. \A i \in 1 .. Len(o) : \E j \in 1 .. Len(out) : o[i] = out[j]
      BY <1>6, SettledIsOk
    <3> HIDE DEF o, E
    <3>4. /\ out' \in Seq(RecType) /\ Len(out') = Len(o) /\ OutOk(out', next, E)
          /\ Cardinality(Subs(out')) = Cardinality(Subs(o))
      BY <1>6, <3>1, <3>2, RewoundIsOk
    <3>5. \A i \in 1 .. Len(o) : Alike(Rewound(o)[i], o[i])
      BY <1>6, <3>2, RewoundIsOk
    <3>6. E = acked' \cup dropped
      BY <3>1 DEF E, D
    <3>7. \A i \in 1 .. Len(out') : \E j \in 1 .. Len(out) : out'[i].kind = out[j].kind
      BY <3>1, <3>3, <3>4, <3>5 DEF Alike
    <3> QED BY <1>6, <2>1, <3>1, <3>2, <3>4, <3>6, <3>7
  <2> QED BY <2>2, <2>3
<1>8. OutTypes' /\ PipeTypes'
  BY <1>2, <1>4, <1>5, <1>6, <1>7 DEF OutTypes, PipeTypes, OutboxInv, Types
<1>9. ClientTypes'
  <2>1. IsFiniteSet({}) /\ Cardinality({}) = 0 /\ Q2Max \in Nat
    BY SizesAssumption, FS_EmptySet
  <2>2. q2 \in SUBSET Ids /\ IsFiniteSet(q2) /\ Cardinality(q2) <= Q2Max /\ clean \in BOOLEAN
    BY DEF OutboxInv, Types, ClientTypes
  <2>3. q2' \in SUBSET Ids /\ IsFiniteSet(q2') /\ Cardinality(q2') <= Q2Max
    <3>1. CASE q2' = q2
      BY <2>2, <3>1
    <3>2. CASE q2' = {}
      BY <2>1, <3>2
    <3> QED BY <1>7, <3>1, <3>2
  <2> QED BY <1>1, <1>5, <2>2, <2>3 DEF ClientTypes
<1>10. CallerTypes' /\ BrokerTypes' /\ PeerTypes'
  BY <1>5, <1>7 DEF OutboxInv, Types, CallerTypes, BrokerTypes, PeerTypes, broker, peer
<1>11. OutInv'
  BY <1>5, <1>6, <1>7 DEF OutInv
<1>12. \A k \in 1 .. Len(down') : down'[k].pkt \in OurPackets
  BY <1>2, <1>4
<1>13. ConnInv'
  <2>1. ~Connecting'
    BY <1>4, <1>7 DEF Connecting
  <2>2. ConnOut'
    BY <1>1, <2>1 DEF ConnOut, Connecting
  <2>3. ConnUp'
    BY <1>4, <1>5 DEF ConnUp
  <2>4. ConnPhase'
    BY <1>1, <1>4, <1>5, <1>12 DEF ConnPhase, OurPackets
  <2> QED BY <2>2, <2>3, <2>4 DEF ConnInv
<1>14. FlightInv'
  <2>1. \A k \in 1 .. Len(down') : down'[k].pkt \notin Acks
    BY <1>12 DEF OurPackets, Acks
  <2> QED BY <1>4, <1>5, <2>1 DEF FlightInv, FlightUp, FlightIds, FlightSent
<1> QED BY <1>8, <1>9, <1>10, <1>11, <1>13, <1>14 DEF OutboxInv, Types

----------------------------------------------------------------------------
(* The end of a connection keeps what is not acked.                        *)
LEMMA EndedIsOk ==
  ASSUME NEW o \in Seq(RecType), NEW n \in Nat, NEW D, OutOk(o, n, D)
  PROVE  /\ Ended(o) \in Seq(RecType) /\ Len(Ended(o)) <= Len(o)
         /\ \A i \in 1 .. Len(Ended(o)) : Ended(o)[i].kind \in KeptKinds
         /\ OutOk(Ended(o), n, D)
         /\ Cardinality(Subs(Ended(o))) = Cardinality(Subs(o))
<1> DEFINE K == {j \in 1 .. Len(o) : o[j].kind \in KeptKinds}
           s == [j \in 1 .. Len(o) |-> IF o[j].kind = "sub" THEN [o[j] EXCEPT !.sent = "lost"] ELSE o[j]]
           t == Ended(o)
<1>0. DOMAIN o = 1 .. Len(o) /\ Len(o) \in Nat
  OBVIOUS
<1>1. t = Only(s, K)
  <2>1. K = {j \in DOMAIN o : o[j].kind \in KeptKinds}
    BY <1>0
  <2> QED BY <1>0, <2>1 DEF Ended
<1>2. ASSUME NEW j \in 1 .. Len(o)
      PROVE  /\ s[j] \in RecType /\ Alike(s[j], o[j])
             /\ s[j].sent = o[j].sent \/ (s[j].kind = "sub" /\ s[j].sent = "lost")
  <2>1. o[j] \in RecType
    OBVIOUS
  <2>2. CASE o[j].kind = "sub"
    <3>1. s[j] = [o[j] EXCEPT !.sent = "lost"]
      BY <2>2
    <3> QED BY <2>1, <2>2, <3>1 DEF RecType, Alike
  <2>3. CASE o[j].kind # "sub"
    <3>1. s[j] = o[j]
      BY <2>3
    <3> QED BY <2>1, <3>1 DEF Alike
  <2> QED BY <2>2, <2>3
<1>3. s \in Seq(RecType) /\ Len(s) = Len(o)
  BY <1>0, <1>2
<1>4. K \in SUBSET (1 .. Len(s)) /\ K \in SUBSET (1 .. Len(o))
  BY <1>3
<1>5. \A j \in 1 .. Len(o) : j \in K <=> o[j].kind \in KeptKinds
  OBVIOUS
<1> HIDE DEF s, t, K
<1>6. OutOk(s, n, D) /\ Cardinality(Subs(s)) = Cardinality(Subs(o))
  BY <1>2, <1>3, MarkedIsOk
<1>7. t \in Seq(RecType) /\ Len(t) <= Len(s) /\ Picks(t, s, K)
  BY <1>1, <1>3, <1>4, OnlyPicks
<1>8. \A m \in 1 .. n : m \in D <=> m \in D \/ \E j \in (1 .. Len(s)) \ K : s[j].m = m
  <2>1. ASSUME NEW j \in (1 .. Len(s)) \ K PROVE s[j].m = 0
    <3>1. s[j].kind \notin MessageKinds /\ RecordOk(s[j], n)
      BY <1>2, <1>3, <1>5, <1>6 DEF Alike, OutOk, KeptKinds, MessageKinds
    <3> QED BY <3>1 DEF RecordOk
  <2> QED BY <2>1
<1>9. OutOk(t, n, D)
  BY <1>3, <1>4, <1>6, <1>7, <1>8, PickedIsOk
<1>10. Cardinality(Subs(t)) = Cardinality(Subs(o))
  <2>1. Cardinality(Subs(t)) = Cardinality(Subs(s) \cap K)
    BY <1>3, <1>4, <1>7, PickedParts
  <2>2. Subs(s) \cap K = Subs(s)
    BY <1>2, <1>3, <1>5 DEF Subs, Alike, KeptKinds
  <2> QED BY <1>6, <2>1, <2>2
<1>11. \A i \in 1 .. Len(t) : \E k \in K : t[i] = s[k]
  BY <1>3, <1>4, <1>7, PickedParts
<1>12. \A i \in 1 .. Len(t) : t[i].kind \in KeptKinds
  BY <1>2, <1>4, <1>5, <1>11 DEF Alike
<1> QED BY <1>3, <1>7, <1>9, <1>10, <1>12 DEF t

LEMMA CutByClose ==
  ASSUME OutboxInv, CloseTcp \/ (phase = "idle" /\ UNCHANGED pipes)
  PROVE  /\ up' \in Seq(UpType) /\ Len(up') <= Len(up) /\ old' = Len(up') /\ down' = <<>>
         /\ \A i \in 1 .. Len(up') : up'[i] = up[i]
<1>1. up \in Seq(UpType) /\ ConnPhase
  BY DEF OutboxInv, Types, PipeTypes, ConnInv
<1>2. CASE CloseTcp
  <2>1. PICK n \in 0 .. Len(up) : up' = SubSeq(up, 1, n) /\ old' = n
    BY <1>2 DEF CloseTcp
  <2>2. /\ SubSeq(up, 1, n) \in Seq(UpType) /\ Len(SubSeq(up, 1, n)) = n
        /\ \A i \in 1 .. n : SubSeq(up, 1, n)[i] = up[i]
    BY <1>1, PrefixPicks
  <2> QED BY <1>2, <2>1, <2>2 DEF CloseTcp
<1>3. CASE phase = "idle" /\ UNCHANGED pipes
  BY <1>1, <1>3 DEF pipes, ConnPhase
<1> QED BY <1>2, <1>3

LEMMA ClosedFlight ==
  ASSUME OutboxInv, phase' = "idle", CloseTcp \/ (phase = "idle" /\ UNCHANGED pipes),
         out' \in Seq(RecType), \A i \in 1 .. Len(out') : out'[i].kind \in KeptKinds
  PROVE  ConnInv' /\ FlightInv' /\ PipeTypes'
<1>1. up \in Seq(UpType) /\ down \in Seq(DownType) /\ ConnUp /\ FlightUp /\ ConnPhase
  BY DEF OutboxInv, Types, PipeTypes, ConnInv, FlightInv
<1>2. /\ up' \in Seq(UpType) /\ Len(up') <= Len(up) /\ old' = Len(up') /\ down' = <<>>
      /\ \A i \in 1 .. Len(up') : up'[i] = up[i]
  BY CutByClose
<1>3. PipeTypes'
  BY <1>2 DEF PipeTypes
<1>4. Len(up') \in Nat /\ Len(up) \in Nat
  BY <1>1, <1>2
<1>5. ConnOut'
  BY DEF ConnOut, KeptKinds
<1>6. ConnUp' /\ FlightUp'
  <2>1. \A i \in 1 .. Len(up') : i \in 1 .. Len(up) /\ up'[i] = up[i]
    BY <1>2, <1>4
  <2> QED BY <1>1, <2>1 DEF ConnUp, FlightUp
<1>7. ConnPhase'
  BY <1>2 DEF ConnPhase
<1>8. FlightIds' /\ FlightSent'
  BY DEF FlightIds, FlightSent
<1> QED BY <1>3, <1>5, <1>6, <1>7, <1>8 DEF ConnInv, FlightInv

LEMMA EndKeepsOutbox ==
  ASSUME OutboxInv, End
  PROVE  OutboxInv'
<1>1. /\ phase' = "idle" /\ out' = Ended(out) /\ CloseTcp /\ breaks' = breaks + 1
      /\ UNCHANGED <<clean, q2, broker, next, asked, acked, told, dropped, peer, got>>
  BY DEF End, caller
<1>2. /\ out \in Seq(RecType) /\ OutOk(out, next, acked \cup dropped) /\ next \in Nat /\ Room \in Nat
      /\ Len(out) <= Room /\ breaks \in Nat
  BY SizesAssumption DEF OutboxInv, Types, OutTypes, CallerTypes, PeerTypes, OutInv
<1>3. /\ out' \in Seq(RecType) /\ Len(out') <= Len(out) /\ OutOk(out', next, acked \cup dropped)
      /\ Cardinality(Subs(out')) = Cardinality(Subs(out))
  <2> DEFINE D == acked \cup dropped
  <2>1. OutOk(out, next, D)
    BY <1>2
  <2> HIDE DEF D
  <2>2. /\ out' \in Seq(RecType) /\ Len(out') <= Len(out) /\ OutOk(out', next, D)
        /\ Cardinality(Subs(out')) = Cardinality(Subs(out))
    BY <1>1, <1>2, <2>1, EndedIsOk
  <2> QED BY <2>2 DEF D
<1>4. \A i \in 1 .. Len(out') : out'[i].kind \in KeptKinds
  BY <1>1, <1>2, EndedIsOk
<1>5. ConnInv' /\ FlightInv' /\ PipeTypes'
  BY <1>1, <1>3, <1>4, ClosedFlight
<1>6. OutTypes'
  BY <1>2, <1>3 DEF OutTypes
<1>7. OutInv'
  BY <1>1, <1>3 DEF OutboxInv, OutInv
<1>8. ClientTypes' /\ CallerTypes' /\ BrokerTypes' /\ PeerTypes'
  BY <1>1, <1>2 DEF OutboxInv, Types, ClientTypes, CallerTypes, BrokerTypes, PeerTypes, broker, peer
<1> QED BY <1>5, <1>6, <1>7, <1>8 DEF OutboxInv, Types

LEMMA StopKeepsOutbox ==
  ASSUME OutboxInv, Stop
  PROVE  OutboxInv'
<1>1. /\ phase' = "idle" /\ out' = <<>> /\ breaks' = breaks + 1
      /\ CloseTcp \/ (phase = "idle" /\ UNCHANGED pipes)
      /\ dropped' = dropped \cup ((1 .. next) \ acked) /\ asked' = told
      /\ UNCHANGED <<clean, q2, broker, next, acked, told, peer, got>>
  BY DEF Stop
<1>2. out' \in Seq(RecType) /\ Len(out') = 0 /\ Room \in Nat
  BY <1>1, SizesAssumption
<1>3. \A i \in 1 .. Len(out') : out'[i].kind \in KeptKinds
  BY <1>2
<1>4. ConnInv' /\ FlightInv' /\ PipeTypes'
  BY <1>1, <1>2, <1>3, ClosedFlight
<1>5. OutTypes'
  BY <1>2 DEF OutTypes
<1>6. OutOk(out', next', acked' \cup dropped')
  BY <1>1, <1>2 DEF OutOk
<1>7. Cardinality(Subs(out')) = 0
  <2>1. Subs(out') = {}
    BY <1>2 DEF Subs
  <2> QED BY <2>1, FS_EmptySet
<1>8. told \in Nat
  BY DEF OutboxInv, Types, CallerTypes
<1>9. OutInv'
  BY <1>1, <1>6, <1>7, <1>8 DEF OutInv
<1>10. CallerTypes'
  BY <1>1 DEF OutboxInv, Types, CallerTypes
<1>11. ClientTypes' /\ BrokerTypes' /\ PeerTypes'
  BY <1>1 DEF OutboxInv, Types, ClientTypes, BrokerTypes, PeerTypes, broker, peer
<1> QED BY <1>4, <1>5, <1>9, <1>10, <1>11 DEF OutboxInv, Types

----------------------------------------------------------------------------
(* The loop                                                                *)

LEMMA CallIsKept ==
  ASSUME NEW r \in RecType, NEW n, RecordOk(r, n)
  PROVE  /\ r.pkt \in Calls => r.kind \in KeptKinds
         /\ r.kind \in KeptKinds => r.pkt \in Calls
         /\ r.kind = "once" => r.pkt \notin Calls
         /\ r.kind = "connect" => r.pkt \notin Calls
         /\ r.sent # "new" => r.kind \in KeptKinds
<1>1. r.kind \in Kinds
  BY DEF RecType
<1> QED BY <1>1 DEF RecordOk, Kinds, KeptKinds, Calls, OurAcks, WireOf

\* A record that is taken out leaves the others as they were.
LEMMA RemovedIsOk ==
  ASSUME NEW o \in Seq(RecType), NEW n \in Nat, NEW D, OutOk(o, n, D), NEW j \in 1 .. Len(o), o[j].m = 0
  PROVE  /\ RemoveAt(o, j) \in Seq(RecType) /\ Len(RemoveAt(o, j)) = Len(o) - 1
         /\ OutOk(RemoveAt(o, j), n, D)
         /\ o[j].kind = "sub" => Cardinality(Subs(o)) \in Nat \ {0}
         /\ Cardinality(Subs(RemoveAt(o, j))) = Cardinality(Subs(o)) - IF o[j].kind = "sub" THEN 1 ELSE 0
<1> DEFINE K == (1 .. Len(o)) \ {j}
           t == RemoveAt(o, j)
<1>1. t \in Seq(RecType) /\ Len(t) = Len(o) - 1 /\ Picks(t, o, K)
  BY RemoveAtPicks
<1>2. K \in SUBSET (1 .. Len(o)) /\ \A i \in 1 .. Len(o) : i \in K <=> i # j
  OBVIOUS
<1>3. \A m \in 1 .. n : m \in D <=> m \in D \/ \E i \in (1 .. Len(o)) \ K : o[i].m = m
  OBVIOUS
<1> HIDE DEF t, K
<1>4. OutOk(t, n, D)
  BY <1>1, <1>2, <1>3, PickedIsOk
<1>5. Cardinality(Subs(t)) = Cardinality(Subs(o) \cap K)
  BY <1>1, <1>2, PickedParts
<1>6. IsFiniteSet(Subs(o)) /\ Cardinality(Subs(o)) \in Nat
  BY SubsAreFinite
<1>7. CASE o[j].kind = "sub"
  <2>1. j \in Subs(o) /\ Subs(o) \cap K = Subs(o) \ {j}
    BY <1>2, <1>7 DEF Subs
  <2>2. Cardinality(Subs(o) \ {j}) = Cardinality(Subs(o)) - 1
    BY <1>6, <2>1, FS_RemoveElement
  <2>3. Cardinality(Subs(o)) # 0
    BY <1>6, <2>1, FS_EmptySet
  <2> QED BY <1>1, <1>4, <1>5, <1>6, <1>7, <2>1, <2>2, <2>3 DEF t
<1>8. CASE o[j].kind # "sub"
  <2>1. Subs(o) \cap K = Subs(o)
    BY <1>2, <1>8 DEF Subs
  <2>2. Cardinality(Subs(t)) = Cardinality(Subs(o))
    BY <1>5, <2>1
  <2>3. Cardinality(Subs(t)) = Cardinality(Subs(o)) - 0
    BY <1>6, <2>2
  <2> QED BY <1>1, <1>4, <1>8, <2>3 DEF t
<1> QED BY <1>7, <1>8

LEMMA RemovedParts ==
  ASSUME NEW o \in Seq(RecType), NEW j \in 1 .. Len(o)
  PROVE  /\ RemoveAt(o, j) \in Seq(RecType) /\ Len(RemoveAt(o, j)) = Len(o) - 1
         /\ \A i \in 1 .. Len(RemoveAt(o, j)) : \E k \in 1 .. Len(o) : k # j /\ (k = 1 => i = 1) /\ RemoveAt(o, j)[i] = o[k]
         /\ \A k \in 1 .. Len(o) : k # j => \E i \in 1 .. Len(RemoveAt(o, j)) : RemoveAt(o, j)[i] = o[k]
<1> DEFINE K == (1 .. Len(o)) \ {j}
           t == RemoveAt(o, j)
<1>1. t \in Seq(RecType) /\ Len(t) = Len(o) - 1 /\ Picks(t, o, K)
  BY RemoveAtPicks
<1> HIDE DEF t
<1>2. PICK f : Follows(f, t, o, K)
  BY <1>1 DEF Picks
<1>3. /\ \A i \in 1 .. Len(t) : f[i] \in 1 .. Len(o) /\ f[i] # j /\ t[i] = o[f[i]]
      /\ \A k \in 1 .. Len(o) : k # j => \E i \in 1 .. Len(t) : f[i] = k
      /\ \A i, k \in 1 .. Len(t) : i < k => f[i] < f[k]
  BY <1>2 DEF Follows
<1>4. \A i \in 1 .. Len(t) : f[i] = 1 => i = 1
  <2>1. SUFFICES ASSUME NEW i \in 1 .. Len(t), f[i] = 1, i # 1 PROVE FALSE
    OBVIOUS
  <2>2. 1 \in 1 .. Len(t) /\ 1 < i
    BY <1>1, <2>1
  <2>3. f[1] < 1 /\ f[1] \in 1 .. Len(o)
    BY <1>3, <2>1, <2>2
  <2> QED BY <2>3
<1>5. \A i \in 1 .. Len(t) : \E k \in 1 .. Len(o) : k # j /\ (k = 1 => i = 1) /\ t[i] = o[k]
  BY <1>3, <1>4
<1>6. \A k \in 1 .. Len(o) : k # j => \E i \in 1 .. Len(t) : t[i] = o[k]
  <2>1. SUFFICES ASSUME NEW k \in 1 .. Len(o), k # j PROVE \E i \in 1 .. Len(t) : t[i] = o[k]
    OBVIOUS
  <2>2. PICK i \in 1 .. Len(t) : f[i] = k
    BY <1>3, <2>1
  <2> QED BY <1>3, <2>2
<1> QED BY <1>1, <1>5, <1>6 DEF t

\* Records that stay are still those of what is on its way.
LEMMA HeldCalls ==
  ASSUME NEW o, NEW t, NEW p,
         \A k \in 1 .. Len(o) : o[k].sent = "sent" => \E i \in 1 .. Len(t) : t[i] = o[k]
  PROVE  (SentCall(o, p) => SentCall(t, p)) /\ (SentFor(o, p) => SentFor(t, p))
<1>1. ASSUME SentCall(o, p) PROVE SentCall(t, p)
  <2>1. PICK k \in 1 .. Len(o) : o[k].sent = "sent" /\ o[k].pkt = p.pkt /\ o[k].id = p.id /\ o[k].m = p.m
    BY <1>1 DEF SentCall
  <2>2. PICK i \in 1 .. Len(t) : t[i] = o[k]
    BY <2>1
  <2> QED BY <2>1, <2>2 DEF SentCall
<1>2. ASSUME SentFor(o, p) PROVE SentFor(t, p)
  <2>1. PICK k \in 1 .. Len(o) : o[k].sent = "sent" /\ o[k].pkt = CallOf[p.pkt] /\ o[k].id = p.id
    BY <1>2 DEF SentFor
  <2>2. PICK i \in 1 .. Len(t) : t[i] = o[k]
    BY <2>1
  <2> QED BY <2>1, <2>2 DEF SentFor
<1> QED BY <1>1, <1>2

LEMMA TellLostKeepsOutbox ==
  ASSUME OutboxInv, TellLost
  PROVE  OutboxInv'
<1> DEFINE D == acked \cup dropped
<1>1. /\ out \in Seq(RecType) /\ OutOk(out, next, D) /\ next \in Nat /\ Room \in Nat /\ Len(out) <= Room
      /\ told + Cardinality(Subs(out)) = asked /\ DOMAIN out = 1 .. Len(out) /\ Asks \in Nat
      /\ told \in 0 .. Asks /\ asked \in 0 .. Asks
  BY SizesAssumption DEF OutboxInv, Types, OutTypes, CallerTypes, OutInv
<1>2. PICK j \in 1 .. Len(out) : out[j].sent = "lost" /\ out' = RemoveAt(out, j)
  BY <1>1 DEF TellLost
<1>3. /\ told' = told + 1
      /\ UNCHANGED <<clean, phase, q2, up, old, down, broker, next, asked, acked, dropped, peer, got, breaks>>
  BY DEF TellLost, pipes
<1> HIDE DEF D
<1>4. out[j].kind = "sub" /\ out[j].m = 0
  BY <1>1, <1>2 DEF OutOk, RecordOk, MessageKinds
<1>5. /\ out' \in Seq(RecType) /\ Len(out') = Len(out) - 1 /\ OutOk(out', next, D)
      /\ Cardinality(Subs(out)) \in Nat \ {0}
      /\ Cardinality(Subs(out')) = Cardinality(Subs(out)) - 1
  BY <1>1, <1>2, <1>4, RemovedIsOk
<1>6. \A i \in 1 .. Len(out') : \E k \in 1 .. Len(out) : k # j /\ (k = 1 => i = 1) /\ out'[i] = out[k]
  BY <1>1, <1>2, RemovedParts, ZenonT(60)
<1>7. \A k \in 1 .. Len(out) : k # j => \E i \in 1 .. Len(out') : out'[i] = out[k]
  BY <1>1, <1>2, RemovedParts
<1>8. OutTypes' /\ OutInv' /\ CallerTypes'
  <2>1. OutTypes'
    BY <1>1, <1>5 DEF OutTypes
  <2>2. OutInv'
    BY <1>1, <1>3, <1>5 DEF OutInv, D
  <2>3. CallerTypes'
    BY <1>1, <1>3, <1>5 DEF OutboxInv, Types, CallerTypes
  <2> QED BY <2>1, <2>2, <2>3
<1>9. ConnOut'
  BY <1>3, <1>6 DEF OutboxInv, ConnInv, ConnOut
<1>10. Connecting' <=> Connecting
  <2>1. ASSUME NEW k \in 1 .. Len(out), out[k].kind = "connect" PROVE Connecting'
    <3>1. PICK i \in 1 .. Len(out') : out'[i] = out[k]
      BY <1>4, <1>7, <2>1
    <3> QED BY <2>1, <3>1 DEF Connecting
  <2>2. ASSUME NEW i \in 1 .. Len(out'), out'[i].kind = "connect" PROVE Connecting
    <3>1. PICK k \in 1 .. Len(out) : out'[i] = out[k]
      BY <1>6
    <3> QED BY <2>2, <3>1 DEF Connecting
  <2> QED BY <2>1, <2>2 DEF Connecting
<1>11. ConnUp' /\ ConnPhase'
  BY <1>3, <1>10 DEF OutboxInv, ConnInv, ConnUp, ConnPhase
<1>12. FlightUp' /\ FlightIds'
  BY <1>3 DEF OutboxInv, FlightInv, FlightUp, FlightIds
<1>13. \A p : (SentCall(out, p) => SentCall(out', p)) /\ (SentFor(out, p) => SentFor(out', p))
  <2>1. \A k \in 1 .. Len(out) : out[k].sent = "sent" => \E i \in 1 .. Len(out') : out'[i] = out[k]
    BY <1>2, <1>7
  <2> QED BY <2>1, HeldCalls
<1>14. FlightSent'
  BY <1>3, <1>13 DEF OutboxInv, FlightInv, FlightSent
<1>15. ClientTypes' /\ PipeTypes' /\ BrokerTypes' /\ PeerTypes'
  BY <1>3 DEF OutboxInv, Types, ClientTypes, PipeTypes, BrokerTypes, PeerTypes, broker, peer
<1> QED BY <1>8, <1>9, <1>11, <1>12, <1>14, <1>15 DEF OutboxInv, Types, ConnInv, FlightInv

LEMMA ConnectKeepsOutbox ==
  ASSUME OutboxInv, Connect
  PROVE  OutboxInv'
<1>1. /\ phase = "idle" /\ phase' = "dial"
      /\ UNCHANGED <<clean, out, q2, up, old, down, broker, caller, peer, got, breaks>>
  BY DEF Connect, pipes
<1>2. Types'
  BY <1>1 DEF OutboxInv, Types, OutTypes, ClientTypes, PipeTypes, BrokerTypes, CallerTypes, PeerTypes, broker, caller, peer
<1>3. OutInv'
  BY <1>1 DEF OutboxInv, OutInv, caller
<1>4. ConnInv'
  BY <1>1 DEF OutboxInv, ConnInv, ConnOut, ConnUp, ConnPhase, Connecting
<1>5. FlightInv'
  BY <1>1 DEF OutboxInv, FlightInv, FlightUp, FlightIds, FlightSent
<1> QED BY <1>2, <1>3, <1>4, <1>5 DEF OutboxInv

LEMMA PrependIs ==
  ASSUME NEW o \in Seq(RecType), NEW r \in RecType
  PROVE  /\ <<r>> \o o \in Seq(RecType) /\ Len(<<r>> \o o) = Len(o) + 1 /\ (<<r>> \o o)[1] = r
         /\ \A i \in 1 .. Len(o) : (<<r>> \o o)[i + 1] = o[i]
         /\ \A i \in 2 .. Len(<<r>> \o o) : (<<r>> \o o)[i] = o[i - 1]
<1> DEFINE t == <<r>> \o o
<1>1. <<r>> \in Seq(RecType) /\ Len(<<r>>) = 1 /\ <<r>>[1] = r
  OBVIOUS
<1>2. /\ t \in Seq(RecType) /\ Len(t) = Len(<<r>>) + Len(o)
      /\ \A i \in 1 .. Len(<<r>>) + Len(o) :
           t[i] = IF i <= Len(<<r>>) THEN <<r>>[i] ELSE o[i - Len(<<r>>)]
  BY <1>1, ConcatProperties
<1> HIDE DEF t
<1>3. /\ t \in Seq(RecType) /\ Len(t) = Len(o) + 1
      /\ \A i \in 1 .. Len(o) + 1 : t[i] = IF i <= 1 THEN r ELSE o[i - 1]
  BY <1>1, <1>2
<1>4. Len(o) \in Nat
  OBVIOUS
<1>5. \A i \in 1 .. Len(o) : i + 1 \in 1 .. Len(o) + 1 /\ ~(i + 1 <= 1) /\ i + 1 - 1 = i
  BY <1>4
<1>6. t[1] = r /\ \A i \in 1 .. Len(o) : t[i + 1] = o[i]
  BY <1>3, <1>4, <1>5
<1>7. \A i \in 2 .. Len(t) : t[i] = o[i - 1]
  BY <1>3, <1>4
<1> QED BY <1>3, <1>6, <1>7 DEF t

LEMMA DialKeepsOutbox ==
  ASSUME OutboxInv, Dial
  PROVE  OutboxInv'
<1> DEFINE r == Rec("connect", "connect", 0, 0)
           D == acked \cup dropped
<1>1. /\ phase = "dial" /\ Len(out) < Room /\ phase' = "hello" /\ out' = <<r>> \o out
      /\ UNCHANGED <<clean, q2, up, old, down, broker, caller, peer, got, breaks>>
  BY DEF Dial, pipes, AcksFit
<1>2. /\ out \in Seq(RecType) /\ OutOk(out, next, D) /\ next \in Nat /\ Room \in Nat
      /\ told + Cardinality(Subs(out)) = asked
  BY SizesAssumption DEF OutboxInv, Types, OutTypes, CallerTypes, OutInv
<1>3. r.kind = "connect" /\ r.pkt = "connect" /\ r.id = 0 /\ r.m = 0 /\ r.sent = "new" /\ r \in RecType
  BY DEF Rec, RecType, Kinds
<1> HIDE DEF r, D
<1>4. /\ out' \in Seq(RecType) /\ Len(out') = Len(out) + 1 /\ out'[1] = r
      /\ \A i \in 1 .. Len(out) : out'[i + 1] = out[i]
      /\ \A i \in 2 .. Len(out') : out'[i] = out[i - 1]
  BY <1>1, <1>2, <1>3, PrependIs
<1>5. \A i \in 1 .. Len(out') : i = 1 \/ (i \in 2 .. Len(out') /\ i - 1 \in 1 .. Len(out) /\ out'[i] = out[i - 1])
  BY <1>2, <1>4
<1>6. \A i \in 1 .. Len(out) : out[i].kind # "connect" /\ out[i].kind # "once"
  BY <1>1 DEF OutboxInv, ConnInv, ConnOut
<1>7. OutOk(out', next, D)
  <2>1. RecordOk(r, next)
    BY <1>3 DEF RecordOk, KeptKinds, MessageKinds
  <2>2. \A i \in 1 .. Len(out') : RecordOk(out'[i], next)
    BY <1>2, <1>4, <1>5, <2>1 DEF OutOk
  <2>3. \A i \in 1 .. Len(out) : ApartOk(r, out[i]) /\ ApartOk(out[i], r)
    <3>1. SUFFICES ASSUME NEW i \in 1 .. Len(out) PROVE ApartOk(r, out[i]) /\ ApartOk(out[i], r)
      OBVIOUS
    <3>2. "connect" \notin KeptKinds
      BY DEF KeptKinds
    <3> QED BY <1>3, <3>2 DEF ApartOk
  <2>4. ASSUME NEW i \in 1 .. Len(out'), NEW k \in 1 .. Len(out'), i # k PROVE ApartOk(out'[i], out'[k])
    <3>1. CASE i = 1 /\ k # 1
      BY <1>4, <1>5, <2>3, <3>1
    <3>2. CASE i # 1 /\ k = 1
      BY <1>4, <1>5, <2>3, <3>2
    <3>3. CASE i # 1 /\ k # 1
      <4>1. /\ i - 1 \in 1 .. Len(out) /\ k - 1 \in 1 .. Len(out) /\ i - 1 # k - 1
            /\ out'[i] = out[i - 1] /\ out'[k] = out[k - 1]
        BY <1>5, <2>4, <3>3
      <4> QED BY <1>2, <4>1 DEF OutOk
    <3> QED BY <2>4, <3>1, <3>2, <3>3
  <2>5. \A m \in 1 .. next : m \in D <=> ~\E i \in 1 .. Len(out') : out'[i].m = m
    <3>1. SUFFICES ASSUME NEW m \in 1 .. next PROVE m \in D <=> ~\E i \in 1 .. Len(out') : out'[i].m = m
      OBVIOUS
    <3>2. m \in D <=> ~\E i \in 1 .. Len(out) : out[i].m = m
      BY <1>2 DEF OutOk
    <3>3. ASSUME NEW i \in 1 .. Len(out), out[i].m = m PROVE \E k \in 1 .. Len(out') : out'[k].m = m
      <4>1. i + 1 \in 1 .. Len(out') /\ out'[i + 1] = out[i]
        BY <1>2, <1>4
      <4> QED BY <3>3, <4>1
    <3>4. ASSUME NEW i \in 1 .. Len(out'), out'[i].m = m PROVE \E k \in 1 .. Len(out) : out[k].m = m
      BY <1>3, <1>4, <1>5, <3>4
    <3> QED BY <3>2, <3>3, <3>4
  <2> QED BY <2>2, <2>4, <2>5 DEF OutOk
<1>8. Cardinality(Subs(out')) = Cardinality(Subs(out))
  <2> DEFINE K == 2 .. Len(out')
             f == [i \in 1 .. Len(out) |-> i + 1]
  <2>1. K \in SUBSET (1 .. Len(out'))
    OBVIOUS
  <2>2. Follows(f, out, out', K)
    <3>1. \A k \in K : k - 1 \in 1 .. Len(out) /\ f[k - 1] = k
      BY <1>2, <1>4
    <3>2. \A i \in 1 .. Len(out) : f[i] \in K /\ out[i] = out'[f[i]]
      BY <1>2, <1>4
    <3>3. f \in [1 .. Len(out) -> K]
      BY <3>2
    <3>4. \A i, k \in 1 .. Len(out) : i < k => f[i] < f[k]
      BY <1>2
    <3>5. \A k \in K : \E i \in 1 .. Len(out) : f[i] = k
      BY <3>1
    <3> HIDE DEF f, K
    <3> QED BY <3>2, <3>3, <3>4, <3>5 DEF Follows
  <2>3. Picks(out, out', K)
    BY <2>2 DEF Picks
  <2>4. Subs(out') \cap K = Subs(out')
    BY <1>3, <1>4 DEF Subs
  <2> HIDE DEF K
  <2> QED BY <1>2, <1>4, <2>1, <2>3, <2>4, PickedParts
<1>9. OutTypes' /\ OutInv'
  BY <1>1, <1>2, <1>4, <1>7, <1>8 DEF OutTypes, OutInv, caller, D
<1>10. ClientTypes' /\ PipeTypes' /\ BrokerTypes' /\ CallerTypes' /\ PeerTypes'
  BY <1>1 DEF OutboxInv, Types, ClientTypes, PipeTypes, BrokerTypes, CallerTypes, PeerTypes, broker, caller, peer
<1>11. ConnOut' /\ Connecting'
  <2>1. 1 \in 1 .. Len(out')
    BY <1>2, <1>4
  <2> QED BY <1>1, <1>3, <1>4, <1>5, <1>6, <2>1 DEF ConnOut, Connecting
<1>12. ConnUp' /\ ConnPhase'
  BY <1>1, <1>11 DEF OutboxInv, ConnInv, ConnUp, ConnPhase
<1>13. FlightInv'
  BY <1>1 DEF OutboxInv, FlightInv, FlightUp, FlightIds, FlightSent
<1> QED BY <1>9, <1>10, <1>11, <1>12, <1>13 DEF OutboxInv, Types, ConnInv

LEMMA FlushKeepsOutbox ==
  ASSUME OutboxInv, Flush
  PROVE  OutboxInv'
<1> DEFINE D == acked \cup dropped
<1>1. /\ out \in Seq(RecType) /\ OutOk(out, next, D) /\ next \in Nat /\ Room \in Nat /\ Len(out) <= Room
      /\ told + Cardinality(Subs(out)) = asked /\ DOMAIN out = 1 .. Len(out) /\ up \in Seq(UpType)
      /\ down \in Seq(DownType) /\ old \in 0 .. Len(up)
  BY SizesAssumption DEF OutboxInv, Types, OutTypes, CallerTypes, OutInv, PipeTypes
<1>2. PICK j \in 1 .. Len(out) :
        /\ ToWrite(j)
        /\ up' = Append(up, Packet(out[j].pkt, out[j].id, out[j].m))
        /\ out' = IF out[j].kind \in KeptKinds THEN [out EXCEPT ![j].sent = "sent"] ELSE RemoveAt(out, j)
  BY <1>1 DEF Flush
<1> DEFINE p == Packet(out[j].pkt, out[j].id, out[j].m)
<1>3. /\ phase \in {"hello", "up"}
      /\ UNCHANGED <<clean, phase, q2, old, down, broker, caller, peer, got, breaks>>
  BY DEF Flush
<1>4. out[j] \in RecType /\ RecordOk(out[j], next) /\ out[j].sent = "new" /\ (phase = "up" \/ out[j].kind = "connect")
  BY <1>1, <1>2 DEF OutOk, ToWrite
<1>5. p.pkt = out[j].pkt /\ p.id = out[j].id /\ p.m = out[j].m
  BY DEF Packet
<1>6. p \in UpType
  <2>1. out[j].pkt \in Calls \cup OurAcks \cup {"connect"} /\ out[j].id \in Nat /\ out[j].m \in Nat /\ out[j].kind \in Kinds
    BY <1>4 DEF RecType
  <2>2. out[j].pkt # "connect" => out[j].id \in Ids
    BY <1>4 DEF RecordOk
  <2> QED BY <2>1, <2>2 DEF Packet, UpType
<1> HIDE DEF p, D
<1>7. /\ up' \in Seq(UpType) /\ Len(up') = Len(up) + 1 /\ up'[Len(up) + 1] = p
      /\ \A i \in 1 .. Len(up) : up'[i] = up[i]
  BY <1>1, <1>2, <1>6, AppendProperties DEF p
<1>8. \A i \in 1 .. Len(up') : (i \in 1 .. Len(up) /\ up'[i] = up[i]) \/ (i = Len(up) + 1 /\ up'[i] = p)
  BY <1>1, <1>7
<1>9. PipeTypes'
  BY <1>1, <1>3, <1>7 DEF PipeTypes
<1>10. ClientTypes' /\ CallerTypes' /\ BrokerTypes' /\ PeerTypes'
  BY <1>3 DEF OutboxInv, Types, ClientTypes, BrokerTypes, CallerTypes, PeerTypes, broker, caller, peer
<1>11. CASE out[j].kind \in KeptKinds
  <2>1. out' = [out EXCEPT ![j].sent = "sent"]
    BY <1>2, <1>11
  <2>2. phase = "up" /\ p.pkt \in Calls /\ p.pkt # "connect"
    BY <1>4, <1>5, <1>11, CallIsKept DEF KeptKinds, Calls
  <2>3. /\ \A i \in 1 .. Len(out) : i # j => out'[i] = out[i]
        /\ out'[j] = [out[j] EXCEPT !.sent = "sent"]
        /\ out' \in Seq(RecType) /\ Len(out') = Len(out)
    <3>1. [out[j] EXCEPT !.sent = "sent"] \in RecType
      BY <1>4 DEF RecType
    <3>2. out' = [out EXCEPT ![j] = [out[j] EXCEPT !.sent = "sent"]]
      BY <2>1
    <3> QED BY <1>1, <3>1, <3>2
  <2>4. /\ Alike(out'[j], out[j]) /\ out'[j].sent = "sent"
        /\ \A i \in 1 .. Len(out) : Alike(out'[i], out[i])
    BY <1>4, <2>3, ZenonT(60) DEF Alike, RecType
  <2>5. OutOk(out', next, D) /\ Cardinality(Subs(out')) = Cardinality(Subs(out))
    <3> DEFINE K == 1 .. Len(out)
               f == [i \in 1 .. Len(out') |-> i]
    <3>1. Keeps(f, out', out, K)
      BY <2>3, <2>4 DEF Keeps
    <3>2. Subs(out) \cap K = Subs(out)
      BY DEF Subs
    <3>3. Cardinality(Subs(out')) = Cardinality(Subs(out) \cap K)
      <4> HIDE DEF f
      <4> QED BY <1>1, <2>3, <3>1, PartCounts
    <3>4. \A i \in 1 .. Len(out') : RecordOk(out'[i], next)
      <4>1. RecordOk(out'[j], next)
        BY <1>4, <1>11, <2>4 DEF RecordOk, Alike
      <4> QED BY <1>1, <2>3, <4>1 DEF OutOk
    <3>5. \A i, k \in 1 .. Len(out') : i # k => ApartOk(out'[i], out'[k])
      <4>1. SUFFICES ASSUME NEW i \in 1 .. Len(out), NEW k \in 1 .. Len(out), i # k PROVE ApartOk(out'[i], out'[k])
        BY <2>3
      <4>2. ApartOk(out[i], out[k])
        BY <1>1, <4>1 DEF OutOk
      <4>3. Alike(out'[i], out[i]) /\ Alike(out'[k], out[k])
        BY <2>4
      <4> QED BY <4>2, <4>3 DEF ApartOk, Alike
    <3>6. \A i \in 1 .. Len(out) : out'[i].m = out[i].m
      BY <2>4 DEF Alike
    <3>7. \A m \in 1 .. next : m \in D <=> ~\E i \in 1 .. Len(out') : out'[i].m = m
      BY <1>1, <2>3, <3>6 DEF OutOk
    <3> QED BY <3>2, <3>3, <3>4, <3>5, <3>7 DEF OutOk
  <2>6. OutTypes' /\ OutInv'
    BY <1>1, <1>3, <2>3, <2>5 DEF OutTypes, OutInv, caller, D
  <2>7. ConnInv'
    <3>1. ConnOut'
      BY <1>3, <2>3, <2>4 DEF OutboxInv, ConnInv, ConnOut, Alike
    <3>2. ConnUp'
      <4>1. \A i \in 1 .. Len(up') : up'[i].pkt # "connect"
        BY <1>8, <2>2 DEF OutboxInv, ConnInv, ConnPhase
      <4> QED BY <4>1 DEF ConnUp
    <3>3. ConnPhase'
      BY <1>3, <1>8, <2>2 DEF OutboxInv, ConnInv, ConnPhase
    <3> QED BY <3>1, <3>2, <3>3 DEF ConnInv
  <2>8. ASSUME NEW i \in 1 .. Len(out), i # j, out[i].kind \in KeptKinds PROVE out[i].id # p.id
    <3>1. ApartOk(out[i], out[j])
      BY <1>1, <2>8 DEF OutOk
    <3> QED BY <1>5, <1>11, <2>8, <3>1 DEF ApartOk
  <2>9. ASSUME NEW i \in 1 .. Len(out), out[i].sent = "sent" PROVE i # j /\ out[i].kind \in KeptKinds
    <3>1. out[i] \in RecType /\ RecordOk(out[i], next)
      BY <1>1 DEF OutOk
    <3> QED BY <1>4, <2>9, <3>1, CallIsKept
  <2>10. ASSUME NEW i \in 1 .. Len(up), up[i].pkt \in Calls PROVE up[i].id # p.id
    <3>1. PICK k \in 1 .. Len(out) : out[k].sent = "sent" /\ out[k].id = up[i].id
      BY <2>2, <2>10 DEF OutboxInv, FlightInv, FlightSent, SentCall
    <3> QED BY <2>8, <2>9, <3>1
  <2>11. ASSUME NEW i \in 1 .. Len(down), down[i].pkt \in Acks PROVE down[i].id # p.id
    <3>1. PICK k \in 1 .. Len(out) : out[k].sent = "sent" /\ out[k].id = down[i].id
      BY <2>2, <2>11 DEF OutboxInv, FlightInv, FlightSent, SentFor
    <3> QED BY <2>8, <2>9, <3>1
  <2>12. FlightUp'
    BY <1>8, <2>10 DEF OutboxInv, FlightInv, FlightUp
  <2>13. FlightIds'
    BY <1>3, <1>8, <2>2, <2>11 DEF OutboxInv, FlightInv, FlightIds
  <2>14. FlightSent'
    <3>1. \A k \in 1 .. Len(out) : out[k].sent = "sent" => \E i \in 1 .. Len(out') : out'[i] = out[k]
      BY <2>3, <2>9
    <3>2. \A q : (SentCall(out, q) => SentCall(out', q)) /\ (SentFor(out, q) => SentFor(out', q))
      BY <3>1, HeldCalls
    <3>3. SentCall(out', p)
      BY <1>5, <2>3, <2>4 DEF SentCall, Alike
    <3> QED BY <1>3, <1>8, <3>2, <3>3 DEF OutboxInv, FlightInv, FlightSent
  <2> QED BY <1>9, <1>10, <2>6, <2>7, <2>12, <2>13, <2>14 DEF OutboxInv, Types, FlightInv
<1>12. CASE out[j].kind \notin KeptKinds
  <2>1. out' = RemoveAt(out, j)
    BY <1>2, <1>12
  <2>2. out[j].kind \in {"connect", "once"} /\ out[j].m = 0 /\ out[j].kind # "sub"
    <3>1. out[j].kind \in Kinds
      BY <1>4 DEF RecType
    <3> QED BY <1>4, <1>12, <3>1 DEF Kinds, KeptKinds, RecordOk, MessageKinds
  <2>3. p.pkt \notin Calls /\ (out[j].kind = "connect" <=> p.pkt = "connect")
    BY <1>4, <1>5, <2>2 DEF RecordOk, Calls, OurAcks
  <2>4. /\ out' \in Seq(RecType) /\ Len(out') = Len(out) - 1 /\ OutOk(out', next, D)
        /\ Cardinality(Subs(out')) = Cardinality(Subs(out)) - 0
    BY <1>1, <2>1, <2>2, RemovedIsOk
  <2>5. \A i \in 1 .. Len(out') : \E k \in 1 .. Len(out) : k # j /\ (k = 1 => i = 1) /\ out'[i] = out[k]
    BY <1>1, <2>1, RemovedParts, ZenonT(60)
  <2>6. \A k \in 1 .. Len(out) : k # j => \E i \in 1 .. Len(out') : out'[i] = out[k]
    BY <1>1, <2>1, RemovedParts, ZenonT(60)
  <2>7. OutTypes' /\ OutInv'
    <3>1. Cardinality(Subs(out)) \in Nat
      BY <1>1, SubsAreFinite
    <3> QED BY <1>1, <1>3, <2>4, <3>1 DEF OutTypes, OutInv, caller, D
  <2>8. ConnOut'
    BY <1>3, <2>5 DEF OutboxInv, ConnInv, ConnOut
  <2>9. CASE out[j].kind = "connect"
    <3>1. phase = "hello" /\ j = 1 /\ ~Connecting'
      BY <2>5, <2>9 DEF OutboxInv, ConnInv, ConnOut, Connecting
    <3>2. Connecting /\ down = <<>> /\ old = Len(up)
      BY <2>9, <3>1 DEF Connecting, OutboxInv, ConnInv, ConnPhase
    <3>3. ConnUp'
      BY <1>1, <1>8, <2>3, <2>9, SMTT(30) DEF OutboxInv, ConnInv, ConnUp
    <3>4. ConnPhase'
      <4>1. Len(up') = old' + 1 /\ up'[Len(up')].pkt = "connect"
        BY <1>1, <1>3, <1>7, <2>3, <2>9, <3>2
      <4> QED BY <1>3, <3>1, <3>2, <4>1 DEF ConnPhase
    <3>5. FlightUp'
      BY <1>8, <2>3 DEF OutboxInv, FlightInv, FlightUp
    <3>6. FlightIds' /\ FlightSent'
      BY <1>3, <3>1 DEF FlightIds, FlightSent
    <3> QED BY <1>9, <1>10, <2>7, <2>8, <3>3, <3>4, <3>5, <3>6 DEF OutboxInv, Types, ConnInv, FlightInv
  <2>10. CASE out[j].kind # "connect"
    <3>1. phase = "up" /\ p.pkt # "connect"
      BY <1>4, <2>3, <2>10
    <3>2. ConnUp'
      <4>1. \A i \in 1 .. Len(up') : up'[i].pkt # "connect"
        BY <1>8, <3>1 DEF OutboxInv, ConnInv, ConnPhase
      <4> QED BY <4>1 DEF ConnUp
    <3>3. ConnPhase'
      BY <1>3, <1>8, <3>1 DEF OutboxInv, ConnInv, ConnPhase
    <3>4. FlightUp'
      BY <1>8, <2>3 DEF OutboxInv, FlightInv, FlightUp
    <3>5. FlightIds'
      BY <1>3, <1>8, <2>3, ZenonT(60) DEF OutboxInv, FlightInv, FlightIds
    <3>6. FlightSent'
      <4>1. \A k \in 1 .. Len(out) : out[k].sent = "sent" => \E i \in 1 .. Len(out') : out'[i] = out[k]
        BY <1>4, <2>6
      <4>2. \A q : (SentCall(out, q) => SentCall(out', q)) /\ (SentFor(out, q) => SentFor(out', q))
        BY <4>1, HeldCalls
      <4> QED BY <1>3, <1>8, <2>3, <4>2 DEF OutboxInv, FlightInv, FlightSent
    <3> QED BY <1>9, <1>10, <2>7, <2>8, <3>2, <3>3, <3>4, <3>5, <3>6 DEF OutboxInv, Types, ConnInv, FlightInv
  <2> QED BY <2>9, <2>10
<1> QED BY <1>11, <1>12

----------------------------------------------------------------------------
(* The broker                                                              *)

\* What it reads, and what is left.
LEMMA BrokerReads ==
  ASSUME OutboxInv, NEW pkts, Takes(pkts)
  PROVE  /\ up \in Seq(UpType) /\ Len(up) > 0 /\ Head(up) = up[1] /\ up[1] \in UpType /\ up[1].pkt \in pkts
         /\ up' \in Seq(UpType) /\ Len(up') = Len(up) - 1
         /\ \A i \in 1 .. Len(up') : i + 1 \in 1 .. Len(up) /\ up'[i] = up[i + 1]
         /\ old \in 0 .. Len(up) /\ old' \in 0 .. Len(up') /\ old' = IF old > 0 THEN old - 1 ELSE 0
         /\ down \in Seq(DownType)
<1>1. up \in Seq(UpType) /\ up # <<>> /\ up' = Tail(up) /\ old \in 0 .. Len(up) /\ down \in Seq(DownType)
  BY DEF OutboxInv, Types, PipeTypes, Takes
<1>2. /\ up' \in Seq(UpType) /\ Len(up') = Len(up) - 1 /\ Head(up) = up[1] /\ Len(up) > 0
      /\ \A i \in 1 .. Len(up') : up'[i] = up[i + 1]
  BY <1>1, TailPicks
<1>3. up[1] \in UpType
  BY <1>1, <1>2
<1>4. \A i \in 1 .. Len(up') : i + 1 \in 1 .. Len(up)
  BY <1>1, <1>2
<1>5. old' = IF old > 0 THEN old - 1 ELSE 0
  BY DEF Takes
<1>6. old' \in 0 .. Len(up')
  BY <1>1, <1>2, <1>5
<1>7. up[1].pkt \in pkts
  BY <1>2 DEF Takes
<1> QED BY <1>1, <1>2, <1>3, <1>4, <1>5, <1>6, <1>7

\* Its answer to anything but a CONNECT: none, one that goes nowhere, or one.
LEMMA AnswerKeepsFlight ==
  ASSUME OutboxInv, NEW pkts \in SUBSET (Calls \cup OurAcks), Takes(pkts), NEW q,
         down' = down \/ (old = 0 /\ down' = Append(down, q)),
         q \in DownType, q.pkt \in Acks \cup {"pubrel"},
         q.pkt \in Acks => CallOf[q.pkt] = up[1].pkt /\ q.id = up[1].id,
         UNCHANGED <<out, phase>>
  PROVE  ConnInv' /\ FlightInv' /\ PipeTypes'
<1>1. /\ up \in Seq(UpType) /\ Len(up) > 0 /\ up[1].pkt \in pkts
      /\ up' \in Seq(UpType) /\ Len(up') = Len(up) - 1
      /\ \A i \in 1 .. Len(up') : i + 1 \in 1 .. Len(up) /\ up'[i] = up[i + 1]
      /\ old \in 0 .. Len(up) /\ old' \in 0 .. Len(up') /\ old' = IF old > 0 THEN old - 1 ELSE 0
      /\ down \in Seq(DownType) /\ 1 \in 1 .. Len(up)
  <2>1. /\ up \in Seq(UpType) /\ Len(up) > 0 /\ up[1].pkt \in pkts
        /\ up' \in Seq(UpType) /\ Len(up') = Len(up) - 1
        /\ \A i \in 1 .. Len(up') : i + 1 \in 1 .. Len(up) /\ up'[i] = up[i + 1]
        /\ old \in 0 .. Len(up) /\ old' \in 0 .. Len(up') /\ old' = IF old > 0 THEN old - 1 ELSE 0
        /\ down \in Seq(DownType)
    BY BrokerReads
  <2> QED BY <2>1
<1>2. up[1].pkt # "connect" /\ up # <<>>
  BY <1>1 DEF Calls, OurAcks
<1>3. ConnOut /\ ConnUp /\ ConnPhase /\ FlightUp /\ FlightIds /\ FlightSent
  BY DEF OutboxInv, ConnInv, FlightInv
<1>4. Connecting' <=> Connecting
  BY DEF Connecting
<1>5. ConnOut'
  BY <1>3 DEF ConnOut
<1>6. ConnUp' /\ FlightUp'
  <2>1. \A i, k \in 1 .. Len(up') : i # k => i + 1 # k + 1
    OBVIOUS
  <2>2. \A i, k \in 1 .. Len(up') : i < k => i + 1 < k + 1
    OBVIOUS
  <2>3. ConnUp'
    <3>1. SUFFICES ASSUME NEW i \in 1 .. Len(up'), NEW k \in 1 .. Len(up'), i < k, up'[i].pkt = "connect"
                   PROVE  up'[k].pkt = "connect"
      BY DEF ConnUp
    <3>2. i + 1 \in 1 .. Len(up) /\ k + 1 \in 1 .. Len(up) /\ i + 1 < k + 1 /\ up[i + 1].pkt = "connect"
      BY <1>1, <2>2, <3>1
    <3>3. up[k + 1].pkt = "connect"
      BY <1>3, <3>2 DEF ConnUp
    <3> QED BY <1>1, <3>3
  <2>4. FlightUp'
    BY <1>1, <1>3, <2>1, SMTT(30) DEF FlightUp
  <2> QED BY <2>3, <2>4
<1>7. CASE phase # "up"
  <2>1. phase \in {"idle", "dial", "hello"}
    BY <1>7 DEF OutboxInv, Types, ClientTypes
  <2>2. down = <<>>
    BY <1>2, <1>3, <2>1 DEF ConnPhase
  <2>3. old > 0
    <3>1. CASE phase \in {"idle", "dial"} \/ Connecting
      BY <1>1, <1>3, <2>1, <2>2, <3>1 DEF ConnPhase
    <3>2. CASE phase = "hello" /\ ~Connecting
      <4>1. Len(up) = old + 1 /\ up[Len(up)].pkt = "connect"
        BY <1>3, <2>2, <3>2 DEF ConnPhase
      <4>2. Len(up) # 1
        BY <1>2, <4>1
      <4> QED BY <1>1, <4>1, <4>2
    <3> QED BY <2>1, <3>1, <3>2
  <2>4. down' = <<>> /\ old' = old - 1
    BY <1>1, <2>2, <2>3
  <2>5. PipeTypes'
    BY <1>1, <2>4 DEF PipeTypes
  <2>6. ConnPhase'
    <3>1. CASE phase \in {"idle", "dial"}
      BY <1>1, <1>3, <2>4, <3>1 DEF ConnPhase
    <3>2. CASE phase = "hello" /\ Connecting
      BY <1>1, <1>3, <1>4, <2>2, <2>4, <3>2 DEF ConnPhase
    <3>3. CASE phase = "hello" /\ ~Connecting
      <4>1. Len(up) = old + 1 /\ up[Len(up)].pkt = "connect"
        BY <1>3, <2>2, <3>3 DEF ConnPhase
      <4>2. Len(up') = old' + 1 /\ Len(up') \in 1 .. Len(up') /\ Len(up') + 1 = Len(up)
        BY <1>1, <2>3, <2>4, <4>1
      <4>3. up'[Len(up')].pkt = "connect"
        BY <1>1, <4>1, <4>2
      <4> QED BY <1>4, <2>4, <3>3, <4>2, <4>3 DEF ConnPhase
    <3> QED BY <2>1, <3>1, <3>2, <3>3
  <2>7. FlightIds' /\ FlightSent'
    BY <1>7 DEF FlightIds, FlightSent
  <2> QED BY <1>3, <1>5, <1>6, <2>5, <2>6, <2>7 DEF ConnInv, FlightInv
<1>8. CASE phase = "up" /\ down' = down
  <2>1. PipeTypes'
    BY <1>1, <1>8 DEF PipeTypes
  <2>2. ConnPhase'
    <3>1. \A i \in 1 .. Len(up') : up'[i].pkt # "connect"
      BY <1>1, <1>3, <1>8 DEF ConnPhase
    <3>2. old' = 0
      BY <1>1, <1>3, <1>8 DEF ConnPhase
    <3> QED BY <1>3, <1>8, <3>1, <3>2 DEF ConnPhase
  <2>3. FlightIds' /\ FlightSent'
    <3>1. ASSUME NEW i \in 1 .. Len(up')
          PROVE  \E n \in 1 .. Len(up) : up'[i] = up[n]
      BY <1>1
    <3>2. FlightIds'
      BY <1>3, <1>8, <3>1 DEF FlightIds
    <3>3. FlightSent'
      BY <1>3, <1>8, <3>1 DEF FlightSent
    <3> QED BY <3>2, <3>3
  <2> QED BY <1>5, <1>6, <2>1, <2>2, <2>3 DEF ConnInv, FlightInv
<1>9. CASE phase = "up" /\ old = 0 /\ down' = Append(down, q)
  <2>1. /\ down' \in Seq(DownType) /\ Len(down') = Len(down) + 1 /\ down'[Len(down) + 1] = q
        /\ \A i \in 1 .. Len(down) : down'[i] = down[i]
    BY <1>1, <1>9, AppendProperties
  <2>2. \A i \in 1 .. Len(down') : (i \in 1 .. Len(down) /\ down'[i] = down[i]) \/ (i = Len(down) + 1 /\ down'[i] = q)
    BY <1>1, <2>1
  <2>3. PipeTypes'
    BY <1>1, <2>1 DEF PipeTypes
  <2>4. q.pkt # "connack"
    BY DEF Acks
  <2>5. ConnPhase'
    <3>1. \A i \in 1 .. Len(up') : up'[i].pkt # "connect"
      BY <1>1, <1>3, <1>9 DEF ConnPhase
    <3>2. \A i \in 1 .. Len(down') : down'[i].pkt # "connack"
      BY <1>3, <1>9, <2>2, <2>4 DEF ConnPhase
    <3>3. old' = 0
      BY <1>1, <1>9
    <3> QED BY <1>9, <3>1, <3>2, <3>3 DEF ConnPhase
  <2>6. q.pkt \in Acks => up[1].pkt \in Calls
    BY DEF CallOf, Acks, Calls
  <2>7. FlightIds'
    <3>1. \A i \in 1 .. Len(down) : q.pkt \in Acks /\ down[i].pkt \in Acks => down[i].id # q.id
      BY <1>1, <1>3, <1>9, <2>6 DEF FlightIds
    <3>2. \A i \in 1 .. Len(up') : q.pkt \in Acks /\ up'[i].pkt \in Calls => up'[i].id # q.id
      <4>1. \A i \in 1 .. Len(up') : i + 1 # 1
        OBVIOUS
      <4> QED BY <1>1, <1>3, <2>6, <4>1 DEF FlightUp
    <3>3. \A i, k \in 1 .. Len(down') :
            i # k /\ down'[i].pkt \in Acks /\ down'[k].pkt \in Acks => down'[i].id # down'[k].id
      BY <1>3, <1>9, <2>2, <3>1 DEF FlightIds
    <3>4. \A i \in 1 .. Len(up'), k \in 1 .. Len(down') :
            up'[i].pkt \in Calls /\ down'[k].pkt \in Acks => up'[i].id # down'[k].id
      <4>1. ASSUME NEW i \in 1 .. Len(up') PROVE \E n \in 1 .. Len(up) : up'[i] = up[n]
        BY <1>1
      <4>2. \A i \in 1 .. Len(up'), k \in 1 .. Len(down) :
              up'[i].pkt \in Calls /\ down[k].pkt \in Acks => up'[i].id # down[k].id
        BY <1>3, <1>9, <4>1 DEF FlightIds
      <4> QED BY <2>2, <3>2, <4>2
    <3> QED BY <3>3, <3>4 DEF FlightIds
  <2>8. FlightSent'
    <3>1. q.pkt \in Acks => SentFor(out, q)
      <4>1. SUFFICES ASSUME q.pkt \in Acks PROVE SentFor(out, q)
        OBVIOUS
      <4>2. SentCall(out, up[1])
        BY <1>1, <1>3, <1>9, <2>6, <4>1 DEF FlightSent
      <4> QED BY <4>1, <4>2 DEF SentCall, SentFor
    <3>2. \A k \in 1 .. Len(up') : up'[k].pkt \in Calls => SentCall(out', up'[k])
      BY <1>1, <1>3, <1>9 DEF FlightSent
    <3>3. \A k \in 1 .. Len(down') : down'[k].pkt \in Acks => SentFor(out', down'[k])
      BY <1>3, <1>9, <2>2, <3>1 DEF FlightSent
    <3> QED BY <3>2, <3>3 DEF FlightSent
  <2> QED BY <1>5, <1>6, <2>3, <2>5, <2>7, <2>8 DEF ConnInv, FlightInv
<1> QED BY <1>7, <1>8, <1>9

\* The broker touches nothing of ours.
LEMMA BrokerKeepsClient ==
  ASSUME OutboxInv, UNCHANGED <<clean, out, phase, q2, next, asked, acked, told, dropped>>
  PROVE  OutTypes' /\ ClientTypes' /\ CallerTypes' /\ OutInv'
BY DEF OutboxInv, Types, OutTypes, ClientTypes, CallerTypes, OutInv

LEMMA FreshSessionTypes ==
  ASSUME FreshSession
  PROVE  /\ bq2' \in SUBSET Ids /\ sending' \in Seq([m : Nat, id : Ids, released : BOOLEAN])
         /\ taken' \in [Messages -> Nat]
BY DEF FreshSession

LEMMA BrokerTakesKeepsOutbox ==
  ASSUME OutboxInv, BrokerTakes
  PROVE  OutboxInv'
<1> DEFINE p == up[1]
           q == Packet(IF p.pkt = "pub1" THEN "puback" ELSE "pubrec", p.id, 0)
<1>1. Takes({"pub1", "pub2"}) /\ {"pub1", "pub2"} \in SUBSET (Calls \cup OurAcks)
  BY DEF BrokerTakes, Calls
<1>2. /\ Head(up) = up[1] /\ p \in UpType /\ p.pkt \in {"pub1", "pub2"} /\ down \in Seq(DownType)
      /\ old \in 0 .. Len(up)
  BY <1>1, BrokerReads
<1>3. p.id \in Ids /\ p.id \in Nat /\ p.m \in Nat
  BY <1>2 DEF UpType, Ids
<1>4. q.pkt = (IF p.pkt = "pub1" THEN "puback" ELSE "pubrec") /\ q.id = p.id /\ q \in DownType
  BY <1>3 DEF Packet, DownType, Acks
<1>5. /\ q.pkt \in Acks \cup {"pubrel"}
      /\ q.pkt \in Acks => CallOf[q.pkt] = up[1].pkt /\ q.id = up[1].id
  BY <1>2, <1>4 DEF Acks, CallOf
<1>6. /\ bq2' = IF p.pkt = "pub2" THEN bq2 \cup {p.id} ELSE bq2
      /\ taken' = taken \/ taken' = [taken EXCEPT ![p.m] = @ + 1]
      /\ ever' = ever \/ ever' = ever \cup {p.m}
      /\ Answers(<<q>>)
      /\ UNCHANGED <<clean, out, phase, q2, kept, sending, next, asked, acked, told, dropped, given, got, finished, forgot, breaks>>
  BY <1>2 DEF BrokerTakes, client, caller
<1> HIDE DEF p, q
<1>7. down' = down \/ (old = 0 /\ down' = Append(down, q))
  <2>1. down \o <<q>> = Append(down, q)
    BY <1>2, <1>4
  <2> QED BY <1>2, <1>6, <2>1 DEF Answers
<1>8. ConnInv' /\ FlightInv' /\ PipeTypes'
  BY <1>1, <1>4, <1>5, <1>6, <1>7, AnswerKeepsFlight
<1>9. OutTypes' /\ ClientTypes' /\ CallerTypes' /\ OutInv'
  BY <1>6, BrokerKeepsClient
<1>10. BrokerTypes'
  BY <1>3, <1>6 DEF OutboxInv, Types, BrokerTypes
<1>11. taken' \in [Messages -> Nat]
  <2>1. taken \in [Messages -> Nat]
    BY DEF OutboxInv, Types, PeerTypes
  <2>2. CASE taken' = [taken EXCEPT ![p.m] = @ + 1]
    <3>1. \A j \in Messages : taken[j] \in Nat
      BY <2>1
    <3>2. DOMAIN taken' = Messages /\ \A j \in Messages : taken'[j] = IF j = p.m THEN taken[p.m] + 1 ELSE taken[j]
      BY <2>1, <2>2
    <3>3. taken' = [j \in Messages |-> taken'[j]]
      BY <2>1, <2>2
    <3> QED BY <3>1, <3>2, <3>3
  <2> QED BY <1>6, <2>1, <2>2
<1>12. PeerTypes'
  BY <1>3, <1>6, <1>11 DEF OutboxInv, Types, PeerTypes
<1> QED BY <1>8, <1>9, <1>10, <1>12 DEF OutboxInv, Types

LEMMA BrokerReleasesKeepsOutbox ==
  ASSUME OutboxInv, BrokerReleases
  PROVE  OutboxInv'
<1> DEFINE p == up[1]
           q == Packet("pubcomp", p.id, 0)
<1>1. Takes({"pubrel"}) /\ {"pubrel"} \in SUBSET (Calls \cup OurAcks)
  BY DEF BrokerReleases, Calls
<1>2. /\ Head(up) = up[1] /\ p \in UpType /\ p.pkt \in {"pubrel"} /\ down \in Seq(DownType)
      /\ old \in 0 .. Len(up)
  BY <1>1, BrokerReads
<1>3. p.id \in Ids /\ p.id \in Nat
  BY <1>2 DEF UpType, Ids
<1>4. q.pkt = "pubcomp" /\ q.id = p.id /\ q \in DownType
  BY <1>3 DEF Packet, DownType, Acks
<1>5. /\ q.pkt \in Acks \cup {"pubrel"}
      /\ q.pkt \in Acks => CallOf[q.pkt] = up[1].pkt /\ q.id = up[1].id
  BY <1>2, <1>4 DEF Acks, CallOf
<1>6. /\ bq2' = bq2 \ {p.id} /\ Answers(<<q>>)
      /\ UNCHANGED <<clean, out, phase, q2, kept, sending, next, asked, acked, told, dropped, peer, got, breaks>>
  BY <1>2 DEF BrokerReleases, client, caller
<1> HIDE DEF p, q
<1>7. down' = down \/ (old = 0 /\ down' = Append(down, q))
  <2>1. down \o <<q>> = Append(down, q)
    BY <1>2, <1>4
  <2> QED BY <1>2, <1>6, <2>1 DEF Answers
<1>8. ConnInv' /\ FlightInv' /\ PipeTypes'
  BY <1>1, <1>4, <1>5, <1>6, <1>7, AnswerKeepsFlight
<1>9. OutTypes' /\ ClientTypes' /\ CallerTypes' /\ OutInv'
  BY <1>6, BrokerKeepsClient
<1>10. BrokerTypes' /\ PeerTypes'
  BY <1>6 DEF OutboxInv, Types, BrokerTypes, PeerTypes, peer
<1> QED BY <1>8, <1>9, <1>10 DEF OutboxInv, Types

LEMMA BrokerSubscribesKeepsOutbox ==
  ASSUME OutboxInv, BrokerSubscribes
  PROVE  OutboxInv'
<1> DEFINE p == up[1]
           q == Packet("suback", p.id, 0)
<1>1. Takes({"sub"}) /\ {"sub"} \in SUBSET (Calls \cup OurAcks)
  BY DEF BrokerSubscribes, Calls
<1>2. /\ Head(up) = up[1] /\ p \in UpType /\ p.pkt \in {"sub"} /\ down \in Seq(DownType)
      /\ old \in 0 .. Len(up)
  BY <1>1, BrokerReads
<1>3. p.id \in Ids /\ p.id \in Nat
  BY <1>2 DEF UpType, Ids
<1>4. q.pkt = "suback" /\ q.id = p.id /\ q \in DownType
  BY <1>3 DEF Packet, DownType, Acks
<1>5. /\ q.pkt \in Acks \cup {"pubrel"}
      /\ q.pkt \in Acks => CallOf[q.pkt] = up[1].pkt /\ q.id = up[1].id
  BY <1>2, <1>4 DEF Acks, CallOf
<1>6. /\ Answers(<<q>>)
      /\ UNCHANGED <<clean, out, phase, q2, broker, next, asked, acked, told, dropped, peer, got, breaks>>
  BY <1>2 DEF BrokerSubscribes, client, caller
<1> HIDE DEF p, q
<1>7. down' = down \/ (old = 0 /\ down' = Append(down, q))
  <2>1. down \o <<q>> = Append(down, q)
    BY <1>2, <1>4
  <2> QED BY <1>2, <1>6, <2>1 DEF Answers
<1>8. ConnInv' /\ FlightInv' /\ PipeTypes'
  BY <1>1, <1>4, <1>5, <1>6, <1>7, AnswerKeepsFlight
<1>9. OutTypes' /\ ClientTypes' /\ CallerTypes' /\ OutInv'
  BY <1>6, BrokerKeepsClient
<1>10. BrokerTypes' /\ PeerTypes'
  BY <1>6 DEF OutboxInv, Types, BrokerTypes, PeerTypes, peer, broker
<1> QED BY <1>8, <1>9, <1>10 DEF OutboxInv, Types

LEMMA BrokerIsAckedKeepsOutbox ==
  ASSUME OutboxInv, BrokerIsAcked
  PROVE  OutboxInv'
<1> DEFINE p == up[1]
           q == Packet("pubrel", p.id, 0)
           mine == {j \in DOMAIN sending : sending[j].id = p.id}
           T == [m : Nat, id : Ids, released : BOOLEAN]
<1>1. Takes({"puback", "pubrec", "pubcomp"}) /\ {"puback", "pubrec", "pubcomp"} \in SUBSET (Calls \cup OurAcks)
  BY DEF BrokerIsAcked, OurAcks
<1>2. /\ Head(up) = up[1] /\ p \in UpType /\ p.pkt \in {"puback", "pubrec", "pubcomp"} /\ down \in Seq(DownType)
      /\ old \in 0 .. Len(up)
  BY <1>1, BrokerReads
<1>3. p.id \in Ids /\ p.id \in Nat
  BY <1>2 DEF UpType, Ids
<1>4. q.pkt = "pubrel" /\ q.id = p.id /\ q \in DownType
  BY <1>3 DEF Packet, DownType, Acks, OurPackets
<1>5. /\ q.pkt \in Acks \cup {"pubrel"}
      /\ q.pkt \in Acks => CallOf[q.pkt] = up[1].pkt /\ q.id = up[1].id
  BY <1>4 DEF Acks
<1>6. UNCHANGED <<clean, out, phase, q2, kept, bq2, next, asked, acked, told, dropped, ever, taken, given, got, forgot, breaks>>
  BY DEF BrokerIsAcked, client, caller
<1>7. \/ /\ sending' = [j \in DOMAIN sending |-> IF j \in mine THEN [sending[j] EXCEPT !.released = TRUE] ELSE sending[j]]
         /\ Answers(<<q>>)
         /\ finished' = finished
      \/ /\ sending' = Only(sending, DOMAIN sending \ mine)
         /\ finished' = finished \cup {sending[j].m : j \in mine}
         /\ down' = down
  BY <1>2 DEF BrokerIsAcked
<1>8. sending \in Seq(T) /\ DOMAIN sending = 1 .. Len(sending)
  BY DEF OutboxInv, Types, BrokerTypes
<1> HIDE DEF p, q, T
<1>9. down' = down \/ (old = 0 /\ down' = Append(down, q))
  <2>1. down \o <<q>> = Append(down, q)
    BY <1>2, <1>4
  <2> QED BY <1>2, <1>7, <2>1 DEF Answers
<1>10. ConnInv' /\ FlightInv' /\ PipeTypes'
  BY <1>1, <1>4, <1>5, <1>6, <1>9, AnswerKeepsFlight
<1>11. OutTypes' /\ ClientTypes' /\ CallerTypes' /\ OutInv'
  BY <1>6, BrokerKeepsClient
<1>12. mine \in SUBSET (1 .. Len(sending)) /\ (1 .. Len(sending)) \ mine \in SUBSET (1 .. Len(sending))
  BY <1>8
<1>13. \A j \in 1 .. Len(sending) : sending[j].m \in Nat /\ [sending[j] EXCEPT !.released = TRUE] \in T
  <2>1. SUFFICES ASSUME NEW j \in 1 .. Len(sending)
                 PROVE  sending[j].m \in Nat /\ [sending[j] EXCEPT !.released = TRUE] \in T
    OBVIOUS
  <2>2. sending[j] \in T
    BY <1>8
  <2> QED BY <2>2 DEF T
<1>14. BrokerTypes' /\ finished' \in SUBSET Nat
  <2>1. finished \in SUBSET Nat
    BY DEF OutboxInv, Types, PeerTypes
  <2>2. CASE /\ sending' = [j \in DOMAIN sending |-> IF j \in mine THEN [sending[j] EXCEPT !.released = TRUE] ELSE sending[j]]
             /\ finished' = finished
    <3>1. sending' = [j \in 1 .. Len(sending) |-> IF j \in mine THEN [sending[j] EXCEPT !.released = TRUE] ELSE sending[j]]
      BY <1>8, <2>2
    <3>2. \A j \in 1 .. Len(sending) : sending'[j] \in T
      BY <1>8, <1>13, <3>1
    <3>3. Len(sending) \in Nat
      BY <1>8
    <3> HIDE DEF mine
    <3>4. sending' \in Seq(T)
      BY <3>1, <3>2, <3>3
    <3> QED BY <1>6, <2>1, <2>2, <3>4 DEF OutboxInv, Types, BrokerTypes, T
  <2>3. CASE /\ sending' = Only(sending, DOMAIN sending \ mine)
             /\ finished' = finished \cup {sending[j].m : j \in mine}
    <3>1. \A j \in mine : sending[j].m \in Nat
      BY <1>12, <1>13
    <3> HIDE DEF mine
    <3>2. sending' \in Seq(T)
      BY <1>8, <1>12, <2>3, OnlyPicks
    <3> QED BY <1>6, <2>1, <2>3, <3>1, <3>2 DEF OutboxInv, Types, BrokerTypes, T
  <2> QED BY <1>7, <2>2, <2>3
<1>15. PeerTypes'
  BY <1>6, <1>14 DEF OutboxInv, Types, PeerTypes
<1> QED BY <1>10, <1>11, <1>14, <1>15 DEF OutboxInv, Types

\* What the broker tries again after a CONNACK.
LEMMA ResendsAre ==
  ASSUME OutboxInv
  PROVE  /\ Resends \in Seq(DownType) /\ Len(Resends) = Len(sending)
         /\ \A j \in 1 .. Len(Resends) : Resends[j].pkt \in OurPackets
<1>1. sending \in Seq([m : Nat, id : Ids, released : BOOLEAN]) /\ DOMAIN sending = 1 .. Len(sending)
      /\ Len(sending) \in Nat
  BY DEF OutboxInv, Types, BrokerTypes
<1> DEFINE k(j) == IF sending[j].released THEN "pubrel" ELSE IF given[sending[j].m] = 1 THEN "pub1" ELSE "pub2"
           t == Resends
<1>2. t = [j \in 1 .. Len(sending) |-> Packet(k(j), sending[j].id, sending[j].m)]
  BY <1>1 DEF Resends
<1> HIDE DEF t
<1>3. ASSUME NEW j \in 1 .. Len(sending) PROVE t[j] \in DownType /\ t[j].pkt \in OurPackets
  <2>1. sending[j].id \in Ids /\ sending[j].id \in Nat /\ sending[j].m \in Nat
    <3> DEFINE T == [m : Nat, id : Ids, released : BOOLEAN]
    <3> HIDE DEF T
    <3>0. sending \in Seq(T)
      BY <1>1 DEF T
    <3>1. sending[j] \in T
      BY <3>0
    <3>2. sending[j] \in [m : Nat, id : Ids, released : BOOLEAN]
      BY <3>1 DEF T
    <3> QED BY <3>2 DEF Ids
  <2>2. t[j] = Packet(k(j), sending[j].id, sending[j].m)
    BY <1>2
  <2>3. k(j) \in OurPackets
    BY DEF OurPackets
  <2> HIDE DEF k
  <2> QED BY <2>1, <2>2, <2>3 DEF Packet, DownType
<1> HIDE DEF k
<1>4. t \in Seq(DownType) /\ Len(t) = Len(sending)
  BY <1>1, <1>2, <1>3
<1> QED BY <1>3, <1>4 DEF t

LEMMA BrokerConnectsTypes ==
  ASSUME OutboxInv, BrokerConnects
  PROVE  OutTypes' /\ ClientTypes' /\ BrokerTypes' /\ CallerTypes' /\ PeerTypes' /\ OutInv'
<1>1. UNCHANGED <<clean, out, phase, q2, next, asked, acked, told, dropped, ever, given, got, finished, forgot, breaks>>
  BY DEF BrokerConnects, client, caller
<1>2. kept' = TRUE /\ (UNCHANGED <<bq2, sending, taken>> \/ FreshSession)
  BY DEF BrokerConnects
<1>3. BrokerTypes' /\ PeerTypes'
  BY <1>1, <1>2, FreshSessionTypes DEF OutboxInv, Types, BrokerTypes, PeerTypes
<1> QED BY <1>1, <1>3, BrokerKeepsClient

LEMMA BrokerConnectsKeepsOutbox ==
  ASSUME OutboxInv, BrokerConnects
  PROVE  OutboxInv'
<1>1. Takes({"connect"})
  BY DEF BrokerConnects
<1>2. /\ up \in Seq(UpType) /\ Len(up) > 0 /\ up[1].pkt = "connect"
      /\ up' \in Seq(UpType) /\ Len(up') = Len(up) - 1
      /\ old \in 0 .. Len(up) /\ old' \in 0 .. Len(up') /\ old' = IF old > 0 THEN old - 1 ELSE 0
      /\ down \in Seq(DownType) /\ 1 \in 1 .. Len(up)
  <2>1. /\ up \in Seq(UpType) /\ Len(up) > 0 /\ up[1].pkt \in {"connect"}
        /\ up' \in Seq(UpType) /\ Len(up') = Len(up) - 1
        /\ old \in 0 .. Len(up) /\ old' \in 0 .. Len(up') /\ old' = IF old > 0 THEN old - 1 ELSE 0
        /\ down \in Seq(DownType)
    BY <1>1, BrokerReads
  <2> QED BY <2>1
<1>3. \A i \in 1 .. Len(up') : i + 1 \in 1 .. Len(up) /\ up'[i] = up[i + 1]
  BY <1>1, BrokerReads
<1>4. ConnOut /\ ConnUp /\ ConnPhase /\ FlightUp
  BY DEF OutboxInv, ConnInv, FlightInv
<1>5. UNCHANGED <<clean, out, phase, q2, next, asked, acked, told, dropped, ever, given, got, finished, forgot, breaks>>
  BY DEF BrokerConnects, client, caller
<1>6. PICK m \in Nat, s \in Seq(DownType) :
        /\ Answers(<<Packet("connack", 0, m)>> \o s)
        /\ \A j \in 1 .. Len(s) : s[j].pkt \in OurPackets
  <2>1. CASE kept /\ ~clean
    <3>1. Answers(<<Packet("connack", 0, 1)>> \o Resends)
      BY <2>1 DEF BrokerConnects
    <3> QED BY <3>1, ResendsAre
  <2>2. CASE ~(kept /\ ~clean)
    <3>1. Answers(<<Packet("connack", 0, 0)>>)
      BY <2>2 DEF BrokerConnects
    <3>2. <<Packet("connack", 0, 0)>> \o <<>> = <<Packet("connack", 0, 0)>> /\ <<>> \in Seq(DownType) /\ Len(<<>>) = 0
      <4>1. Packet("connack", 0, 0) \in DownType
        BY DEF Packet, DownType
      <4> HIDE DEF Packet
      <4> QED BY <4>1
    <3>3. \A j \in 1 .. Len(<<>>) : <<>>[j].pkt \in OurPackets
      OBVIOUS
    <3> QED BY <3>1, <3>2, <3>3
  <2> QED BY <2>1, <2>2
<1> DEFINE c == Packet("connack", 0, m)
<1>7. c.pkt = "connack" /\ c \in DownType
  BY DEF Packet, DownType
<1> HIDE DEF c
<1>8. phase # "up"
  BY <1>2, <1>4 DEF ConnPhase
<1>9. phase \in {"idle", "dial", "hello"} /\ down = <<>>
  <2>1. phase \in {"idle", "dial", "hello"}
    BY <1>8 DEF OutboxInv, Types, ClientTypes
  <2> QED BY <1>2, <1>4, <2>1 DEF ConnPhase
<1>10. Connecting' <=> Connecting
  BY <1>5 DEF Connecting
<1>11. ConnOut'
  BY <1>4, <1>5 DEF ConnOut
<1>12. ConnUp' /\ FlightUp'
  <2>1. \A i, k \in 1 .. Len(up') : i # k => i + 1 # k + 1
    OBVIOUS
  <2>2. FlightUp'
    BY <1>3, <1>4, <2>1 DEF FlightUp
  <2>3. \A k \in 1 .. Len(up') : up'[k].pkt = "connect"
    <3>1. SUFFICES ASSUME NEW k \in 1 .. Len(up') PROVE up'[k].pkt = "connect"
      OBVIOUS
    <3>2. k + 1 \in 1 .. Len(up) /\ 1 < k + 1
      BY <1>3
    <3> QED BY <1>2, <1>3, <1>4, <3>2 DEF ConnUp
  <2> QED BY <2>2, <2>3 DEF ConnUp
<1>13. FlightIds' /\ FlightSent'
  BY <1>5, <1>8 DEF FlightIds, FlightSent
<1>14. CASE old > 0
  <2>1. down' = <<>> /\ old' = old - 1
    BY <1>2, <1>6, <1>9, <1>14 DEF Answers
  <2>2. PipeTypes'
    BY <1>2, <2>1 DEF PipeTypes
  <2>3. ConnPhase'
    <3>1. CASE phase \in {"idle", "dial"}
      BY <1>2, <1>4, <1>5, <2>1, <3>1 DEF ConnPhase
    <3>2. CASE phase = "hello" /\ Connecting
      BY <1>2, <1>4, <1>5, <1>9, <1>10, <2>1, <3>2 DEF ConnPhase
    <3>3. CASE phase = "hello" /\ ~Connecting
      <4>1. Len(up) = old + 1 /\ up[Len(up)].pkt = "connect"
        BY <1>4, <1>9, <3>3 DEF ConnPhase
      <4>2. Len(up') = old' + 1 /\ Len(up') \in 1 .. Len(up') /\ Len(up') + 1 = Len(up)
        BY <1>2, <1>14, <2>1, <4>1
      <4>3. up'[Len(up')].pkt = "connect"
        BY <1>3, <4>1, <4>2
      <4> QED BY <1>5, <1>10, <2>1, <3>3, <4>2, <4>3 DEF ConnPhase
    <3> QED BY <1>9, <3>1, <3>2, <3>3
  <2> QED BY <1>11, <1>12, <1>13, <2>2, <2>3, BrokerConnectsTypes DEF OutboxInv, Types, ConnInv, FlightInv
<1>15. CASE old = 0
  <2>1. phase = "hello" /\ ~Connecting /\ Len(up) = 1
    BY <1>2, <1>4, <1>9, <1>15 DEF ConnPhase
  <2>2. up' = <<>> /\ old' = 0
    <3>1. Len(up') = 0
      BY <1>2, <2>1
    <3> QED BY <1>2, <1>15, <3>1, EmptySeq
  <2>3. down' = down \o (<<c>> \o s)
    BY <1>6, <1>15 DEF Answers, c
  <2>4. /\ <<c>> \o s \in Seq(DownType) /\ Len(<<c>> \o s) = Len(s) + 1 /\ (<<c>> \o s)[1] = c
        /\ \A k \in 2 .. Len(s) + 1 : (<<c>> \o s)[k] = s[k - 1]
    <3>1. <<c>> \in Seq(DownType) /\ Len(<<c>>) = 1 /\ <<c>>[1] = c
      BY <1>7
    <3>2. /\ <<c>> \o s \in Seq(DownType) /\ Len(<<c>> \o s) = Len(<<c>>) + Len(s)
          /\ \A i \in 1 .. Len(<<c>>) + Len(s) :
               (<<c>> \o s)[i] = IF i <= Len(<<c>>) THEN <<c>>[i] ELSE s[i - Len(<<c>>)]
      BY <3>1, ConcatProperties
    <3>3. Len(s) \in Nat
      OBVIOUS
    <3> QED BY <3>1, <3>2, <3>3
  <2>5. down' = <<c>> \o s
    BY <1>9, <2>3, <2>4
  <2>6. PipeTypes'
    BY <2>2, <2>4, <2>5 DEF PipeTypes
  <2>7. ConnPhase'
    <3>1. down' # <<>> /\ down'[1].pkt = "connack" /\ Len(down') = Len(s) + 1
      <4>1. Len(s) + 1 # 0 /\ Len(<<>>) = 0
        OBVIOUS
      <4> QED BY <1>7, <2>4, <2>5, <4>1
    <3>2. \A k \in 2 .. Len(down') : down'[k].pkt \in OurPackets
      <4>1. SUFFICES ASSUME NEW k \in 2 .. Len(down') PROVE down'[k].pkt \in OurPackets
        OBVIOUS
      <4>2. k - 1 \in 1 .. Len(s) /\ down'[k] = s[k - 1]
        BY <2>4, <2>5, <3>1
      <4> QED BY <1>6, <4>2
    <3> QED BY <1>5, <1>10, <2>1, <2>2, <3>1, <3>2 DEF ConnPhase
  <2> QED BY <1>11, <1>12, <1>13, <2>6, <2>7, BrokerConnectsTypes DEF OutboxInv, Types, ConnInv, FlightInv
<1> QED BY <1>2, <1>14, <1>15

LEMMA BrokerSendsKeepsOutbox ==
  ASSUME OutboxInv, BrokerSends
  PROVE  OutboxInv'
<1> DEFINE i == Len(given) + 1
<1>1. PICK qos \in InQos[i], id \in Ids \ {sending[j].id : j \in DOMAIN sending} :
        /\ given' = Append(given, qos)
        /\ sending' = Append(sending, [m |-> i, id |-> id, released |-> FALSE])
        /\ down' = Append(down, Packet(IF qos = 1 THEN "pub1" ELSE "pub2", id, i))
  BY DEF BrokerSends
<1> DEFINE p == Packet(IF qos = 1 THEN "pub1" ELSE "pub2", id, i)
<1>2. /\ UNCHANGED <<clean, out, phase, q2, up, old, kept, bq2, next, asked, acked, told, dropped>>
      /\ UNCHANGED <<ever, taken, got, finished, forgot, breaks>>
      /\ Len(given) < Len(InQos)
  BY DEF BrokerSends, client, caller
<1>3. /\ given \in Seq({1, 2}) /\ sending \in Seq([m : Nat, id : Ids, released : BOOLEAN])
      /\ down \in Seq(DownType) /\ up \in Seq(UpType) /\ old \in 0 .. Len(up)
  BY DEF OutboxInv, Types, PipeTypes, BrokerTypes, PeerTypes
<1>4. i \in Nat /\ i \in 1 .. Len(InQos) /\ qos \in {1, 2} /\ id \in Ids /\ id \in Nat
  <2>1. InQos \in Seq(SUBSET {1, 2}) /\ i \in Nat /\ i \in 1 .. Len(InQos)
    BY <1>2, <1>3, SizesAssumption, SMTT(30)
  <2>2. InQos[i] \in SUBSET {1, 2}
    BY <2>1
  <2>3. id \in Ids /\ id \in Nat
    BY DEF Ids
  <2> QED BY <2>1, <2>2, <2>3
<1>5. p.pkt \in {"pub1", "pub2"} /\ p \in DownType
  BY <1>4 DEF Packet, DownType, OurPackets
<1> HIDE DEF p
<1>6. /\ down' = Append(down, p) /\ down' \in Seq(DownType) /\ Len(down') = Len(down) + 1 /\ down'[Len(down) + 1] = p
      /\ \A k \in 1 .. Len(down) : down'[k] = down[k]
  BY <1>1, <1>3, <1>5, AppendProperties DEF p
<1>7. \A k \in 1 .. Len(down') : (k \in 1 .. Len(down) /\ down'[k] = down[k]) \/ (k = Len(down) + 1 /\ down'[k] = p)
  BY <1>3, <1>6
<1>8. given' \in Seq({1, 2}) /\ Len(given') <= Len(InQos)
  BY <1>1, <1>2, <1>3, <1>4, AppendProperties
<1>9. sending' \in Seq([m : Nat, id : Ids, released : BOOLEAN])
  BY <1>1, <1>3, <1>4, AppendProperties
<1>10. Types'
  BY <1>2, <1>6, <1>8, <1>9
  DEF OutboxInv, Types, OutTypes, ClientTypes, PipeTypes, BrokerTypes, CallerTypes, PeerTypes
<1>11. OutInv'
  BY <1>2 DEF OutboxInv, OutInv
<1>12. p.pkt \notin Acks /\ p.pkt # "connack" /\ p.pkt \in OurPackets
  BY <1>5 DEF Acks, OurPackets
<1>13. phase = "up" \/ (phase = "hello" /\ down # <<>>)
  <2>1. Welcomed /\ phase \in {"idle", "dial", "hello", "up"}
    BY DEF BrokerSends, OutboxInv, Types, ClientTypes
  <2>2. down = <<>> => ~\E j \in DOMAIN down : down[j].pkt = "connack"
    OBVIOUS
  <2> QED BY <2>1, <2>2 DEF Welcomed, OutboxInv, ConnInv, ConnPhase
<1>14. ConnOut' /\ ConnUp' /\ (Connecting' <=> Connecting) /\ FlightUp'
  BY <1>2 DEF OutboxInv, ConnInv, ConnOut, ConnUp, Connecting, FlightInv, FlightUp
<1>15. ConnPhase'
  <2>1. CASE phase = "up"
    BY <1>2, <1>7, <1>12, <2>1 DEF OutboxInv, ConnInv, ConnPhase
  <2>2. CASE phase = "hello" /\ down # <<>>
    <3>1. up = <<>> /\ ~Connecting /\ down[1].pkt = "connack" /\ \A k \in 2 .. Len(down) : down[k].pkt \in OurPackets
      BY <2>2 DEF OutboxInv, ConnInv, ConnPhase
    <3>2. Len(down) > 0
      BY <1>3, <2>2, EmptySeq
    <3>3. down' # <<>> /\ down'[1] = down[1]
      BY <1>3, <1>6, <3>2, EmptySeq
    <3>4. \A k \in 2 .. Len(down') : down'[k].pkt \in OurPackets
      BY <1>7, <1>12, <3>1
    <3> QED BY <1>2, <1>14, <2>2, <3>1, <3>3, <3>4 DEF ConnPhase
  <2> QED BY <1>13, <2>1, <2>2
<1>16. FlightIds' /\ FlightSent'
  BY <1>2, <1>7, <1>12, ZenonT(60) DEF OutboxInv, FlightInv, FlightIds, FlightSent
<1> QED BY <1>10, <1>11, <1>14, <1>15, <1>16 DEF OutboxInv, ConnInv, FlightInv

LEMMA BrokerForgetsKeepsOutbox ==
  ASSUME OutboxInv, BrokerForgets
  PROVE  OutboxInv'
<1>1. /\ phase \in {"idle", "dial"} /\ kept' = FALSE /\ forgot' = TRUE /\ FreshSession
      /\ up' = <<>> /\ old' = 0 /\ breaks' = breaks + 1
      /\ UNCHANGED <<clean, out, phase, q2, down, next, asked, acked, told, dropped, ever, given, got, finished>>
  BY DEF BrokerForgets, client, caller
<1>2. OutTypes' /\ ClientTypes' /\ CallerTypes' /\ OutInv'
  BY <1>1, BrokerKeepsClient
<1>3. Len(up') = 0 /\ up' \in Seq(UpType)
  BY <1>1
<1>4. PipeTypes'
  BY <1>1, <1>3 DEF OutboxInv, Types, PipeTypes
<1>5. BrokerTypes' /\ PeerTypes'
  <2>1. breaks \in Nat /\ breaks' \in Nat
    BY <1>1 DEF OutboxInv, Types, PeerTypes
  <2>2. BrokerTypes'
    BY <1>1, FreshSessionTypes DEF BrokerTypes
  <2>3. PeerTypes'
    BY <1>1, <2>1, FreshSessionTypes DEF OutboxInv, Types, PeerTypes
  <2> QED BY <2>2, <2>3
<1>6. ConnInv'
  BY <1>1, <1>3 DEF OutboxInv, ConnInv, ConnOut, ConnUp, ConnPhase, Connecting
<1>7. FlightInv'
  BY <1>1, <1>3 DEF FlightInv, FlightUp, FlightIds, FlightSent
<1> QED BY <1>2, <1>4, <1>5, <1>6, <1>7 DEF OutboxInv, Types

----------------------------------------------------------------------------
(* Nothing the outbox accepted is forgotten.                               *)

LEMMA OutboxStarts == Init => OutboxInv
<1> SUFFICES ASSUME Init PROVE OutboxInv
  OBVIOUS
<1>1. /\ Room \in Nat /\ Q2Max \in Nat /\ Asks \in Nat /\ Qos \in Seq({1, 2}) /\ InQos \in Seq(SUBSET {1, 2})
      /\ Len(out) = 0 /\ Len(up) = 0 /\ Len(given) = 0 /\ Len(Qos) \in Nat /\ Len(InQos) \in Nat
  BY SizesAssumption DEF Init
<1>2. OutTypes /\ PipeTypes /\ BrokerTypes
  <2>1. /\ \A S : <<>> \in Seq(S)
        /\ out = <<>> /\ up = <<>> /\ down = <<>> /\ sending = <<>> /\ old = 0 /\ kept = FALSE /\ bq2 = {}
    BY DEF Init
  <2>2. OutTypes
    BY <1>1, <2>1 DEF OutTypes
  <2>3. PipeTypes
    BY <1>1, <2>1 DEF PipeTypes
  <2>4. BrokerTypes
    BY <2>1 DEF BrokerTypes
  <2> QED BY <2>2, <2>3, <2>4
<1>3. ClientTypes
  BY <1>1, FS_EmptySet DEF Init, ClientTypes
<1>4. CallerTypes /\ PeerTypes
  <2>1. CallerTypes
    BY <1>1 DEF Init, CallerTypes
  <2>2. given = <<>> /\ given \in Seq({1, 2})
    BY DEF Init
  <2>3. taken \in [Messages -> Nat] /\ got \in [Inbound -> Nat]
    BY DEF Init
  <2>4. ever \in SUBSET Nat /\ finished \in SUBSET Nat /\ forgot \in BOOLEAN /\ breaks \in Nat
    BY DEF Init
  <2>5. PeerTypes
    BY <1>1, <2>2, <2>3, <2>4 DEF PeerTypes
  <2> QED BY <2>1, <2>5
<1>5. OutInv
  <2>1. Subs(out) = {}
    BY <1>1 DEF Subs
  <2>2. Cardinality(Subs(out)) = 0
    BY <2>1, FS_EmptySet
  <2>3. OutOk(out, next, acked \cup dropped)
    BY <1>1 DEF Init, OutOk
  <2> QED BY <2>2, <2>3 DEF Init, OutInv
<1>6. ConnInv /\ FlightInv
  BY <1>1 DEF Init, ConnInv, ConnOut, ConnUp, ConnPhase, FlightInv, FlightUp, FlightIds, FlightSent
<1> QED BY <1>2, <1>3, <1>4, <1>5, <1>6 DEF OutboxInv, Types

LEMMA OutboxSteps == OutboxInv /\ [Next]_vars => OutboxInv'
<1> SUFFICES ASSUME OutboxInv, [Next]_vars PROVE OutboxInv'
  OBVIOUS
<1>1. CASE Application
  BY <1>1, PublishKeepsOutbox, SubscribeKeepsOutbox, ConnectKeepsOutbox, StopKeepsOutbox DEF Application
<1>2. CASE Handle
  BY <1>2, OnConnackKeepsOutbox, OnPubackKeepsOutbox, OnPubrecKeepsOutbox, OnPubcompKeepsOutbox,
     OnSubackKeepsOutbox, OnPublish1KeepsOutbox, OnPublish2KeepsOutbox, OnPubrelKeepsOutbox DEF Handle
<1>3. CASE Dial \/ Flush \/ TellLost \/ End
  BY <1>3, DialKeepsOutbox, FlushKeepsOutbox, TellLostKeepsOutbox, EndKeepsOutbox
<1>4. CASE Broker \/ BrokerSends \/ BrokerForgets
  BY <1>4, BrokerConnectsKeepsOutbox, BrokerTakesKeepsOutbox, BrokerReleasesKeepsOutbox,
     BrokerSubscribesKeepsOutbox, BrokerIsAckedKeepsOutbox, BrokerSendsKeepsOutbox, BrokerForgetsKeepsOutbox
  DEF Broker
<1>5. CASE UNCHANGED vars
  <2>1. UNCHANGED <<clean, out, phase, q2, up, old, down, kept, bq2, sending, next, asked, acked, told, dropped,
                    ever, taken, given, got, finished, forgot, breaks>>
    BY <1>5 DEF vars
  <2>2. Types'
    BY <2>1 DEF OutboxInv, Types, OutTypes, ClientTypes, PipeTypes, BrokerTypes, CallerTypes, PeerTypes
  <2>3. OutInv' /\ ConnInv' /\ FlightInv'
    BY <2>1 DEF OutboxInv, OutInv, ConnInv, ConnOut, ConnUp, ConnPhase, Connecting,
                FlightInv, FlightUp, FlightIds, FlightSent
  <2> QED BY <2>2, <2>3 DEF OutboxInv
<1> QED BY <1>1, <1>2, <1>3, <1>4, <1>5 DEF Next, Loop

THEOREM OutboxInductive == Spec => []OutboxInv
BY OutboxStarts, OutboxSteps, PTL DEF Spec

LEMMA OutboxIsSoundThen == OutboxInv => OutboxIsSound
<1> SUFFICES ASSUME OutboxInv PROVE OutboxIsSound
  OBVIOUS
<1>1. /\ out \in Seq(RecType) /\ OutOk(out, next, acked \cup dropped) /\ DOMAIN out = 1 .. Len(out)
      /\ next \in 0 .. Len(Qos) /\ Len(Qos) \in Nat
  BY SizesAssumption DEF OutboxInv, Types, OutTypes, OutInv, CallerTypes
<1>2. ASSUME NEW j \in 1 .. Len(out)
      PROVE  /\ out[j].kind \in Kinds /\ out[j].sent \in {"new", "sent", "lost"}
             /\ out[j].id \in (IF out[j].kind = "connect" THEN {0} ELSE Ids)
             /\ out[j].m \in 0 .. Len(Qos)
  <2>1. out[j] \in RecType /\ RecordOk(out[j], next)
    BY <1>1 DEF OutOk
  <2>2. out[j].m \in 0 .. Len(Qos)
    BY <1>1, <2>1 DEF RecordOk
  <2>3. out[j].id \in (IF out[j].kind = "connect" THEN {0} ELSE Ids)
    BY <2>1 DEF RecordOk
  <2> QED BY <2>1, <2>2, <2>3 DEF RecType
<1>3. TypeOK
  BY <1>1, <1>2 DEF TypeOK, OutboxInv, Types, OutTypes, ClientTypes, PipeTypes, BrokerTypes, CallerTypes
<1>4. ASSUME NEW m \in (1 .. next) \ (acked \cup dropped) PROVE Cardinality({j \in DOMAIN out : out[j].m = m}) = 1
  <2>1. PICK j \in 1 .. Len(out) : out[j].m = m
    BY <1>1 DEF OutOk
  <2>2. \A i \in 1 .. Len(out) : i # j => out[i].m # m
    BY <1>1, <1>4, <2>1 DEF OutOk, ApartOk
  <2>3. {i \in DOMAIN out : out[i].m = m} = {j}
    BY <1>1, <2>1, <2>2
  <2> QED BY <2>3, FS_Singleton
<1>5. \A m \in acked : \A j \in DOMAIN out : out[j].m # m
  BY <1>1 DEF OutOk, OutboxInv, Types, CallerTypes
<1>6. {j \in DOMAIN out : out[j].kind = "sub"} = Subs(out)
  BY <1>1 DEF Subs
<1>7. NothingForgotten
  BY <1>4, <1>5, <1>6 DEF NothingForgotten, OutboxInv, OutInv
<1> QED BY <1>3, <1>7 DEF OutboxIsSound

\* What was accepted is answered, or waits in the outbox as one record under an id of its
\* own, over lost connections and sessions, for any number of them (end, rewind, settle,
\* lost, on_ack, compact, next_id).
THEOREM OutboxForAll == Spec => []OutboxIsSound
BY OutboxInductive, OutboxIsSoundThen, PTL

----------------------------------------------------------------------------
(* Taken once and in order: the steps of the client                        *)

\* A record that is new to the outbox, when d is on its way to us.
Joins(r, d) ==
  /\ r.sent = "new" /\ RecordKnown(r)
  /\ \A k \in 1 .. Len(up) : PacketFits(up[k], r)
  /\ \A k \in 1 .. Len(d) : AckFits(d[k], r)

\* r is a record of o, sent or to be sent again.
In(r, o) == \E i \in 1 .. Len(o) : Alike(r, o[i]) /\ r.sent \in {"new", o[i].sent}

\* The ids of o are all still held.
Linked(t, o) == \A i \in 1 .. Len(o) : o[i].kind \in {"pub2", "rel"} => Holds(t, o[i].id, o[i].m)

\* What was written stays written, or is cut short.
CutShort == Len(up') <= Len(up) /\ \A k \in 1 .. Len(up') : up'[k] = up[k]

LEMMA LinkedIsHeld ==
  ASSUME OutboxInv, OutboxInv', HeldInv, Linked(out', out), CutShort, UNCHANGED <<clean, bq2, ever>>,
         FreshAhead => FreshAhead', WelcomeFits'
  PROVE  HeldInv'
<1>1. ASSUME NEW x, NEW m, Holds(out, x, m) PROVE Holds(out', x, m)
  <2>1. PICK i \in 1 .. Len(out) : out[i].kind \in {"pub2", "rel"} /\ out[i].id = x /\ out[i].m = m
    BY <1>1 DEF Holds
  <2> QED BY <2>1 DEF Linked
<1>2. KeepsIds'
  <2>1. SUFFICES ASSUME ~FreshAhead', NEW x \in bq2' PROVE \E m \in ever' : Holds(out', x, m)
    BY DEF KeepsIds
  <2>2. PICK m \in ever : Holds(out, x, m)
    BY <2>1 DEF HeldInv, KeepsIds
  <2>3. Holds(out', x, m) /\ m \in ever'
    BY <1>1, <2>2
  <2> QED BY <2>3
<1>3. KeepsUp'
  <2>1. SUFFICES ASSUME ~clean', NEW k \in 1 .. Len(up'), up'[k].pkt \in {"pub2", "pubrel"}
                 PROVE  Holds(out', up'[k].id, up'[k].m)
    BY DEF KeepsUp
  <2>2. k \in 1 .. Len(up) /\ up'[k] = up[k]
    BY <2>1 DEF CutShort, OutboxInv, Types, PipeTypes
  <2>3. Holds(out, up[k].id, up[k].m)
    BY <2>1, <2>2 DEF HeldInv, KeepsUp
  <2> QED BY <1>1, <2>2, <2>3
<1> QED BY <1>2, <1>3 DEF HeldInv

LEMMA ClientKeepsTaken ==
  ASSUME OutboxInv, OutboxInv', TakenInv, UNCHANGED <<clean, ever, taken, bq2>>,
         acked' \subseteq ever, dropped \subseteq dropped', next <= next', CutShort,
         phase' = "up" => \A k \in 1 .. Len(down') : down'[k].pkt \in Acks =>
                            phase = "up" /\ \E i \in 1 .. Len(down) : down'[k] = down[i],
         phase' = "up" => (phase = "up" /\ up' = up) \/ \A j \in 1 .. Len(out') : out'[j].sent # "sent",
         \A j \in 1 .. Len(out') : out'[j].kind \in MessageKinds => Joins(out'[j], down') \/ In(out'[j], out),
         Ordered(out'), HeldInv'
  PROVE  TakenInv'
<1>1. EverInv'
  <2>1. ever \subseteq 1 .. next /\ next \in Nat /\ next' \in Nat
    BY SizesAssumption DEF TakenInv, EverInv, OutboxInv, Types, CallerTypes
  <2>2. ever' \subseteq 1 .. next'
    BY <2>1
  <2> QED BY <2>2 DEF TakenInv, EverInv, TakenOnce
<1>2. /\ \A k \in 1 .. Len(up') : k \in 1 .. Len(up) /\ up'[k] = up[k]
      /\ next \in Nat /\ next' \in Nat /\ Len(up) \in Nat
  <2>1. up \in Seq(UpType) /\ up' \in Seq(UpType)
    BY DEF OutboxInv, Types, PipeTypes
  <2>2. next \in Nat /\ next' \in Nat
    BY SizesAssumption DEF OutboxInv, Types, CallerTypes
  <2>3. Len(up) \in Nat /\ Len(up') \in Nat
    BY <2>1
  <2> QED BY <2>2, <2>3 DEF CutShort
<1>3. PacketInv'
  <2>1. ASSUME NEW k \in 1 .. Len(up') PROVE PacketOk(up[k])'
    <3>1. PacketOk(up[k])
      BY <1>2, <2>1 DEF TakenInv, PacketInv
    <3> QED BY <1>2, <2>1, <3>1 DEF PacketOk
  <2> QED BY <1>2, <2>1 DEF TakenInv, PacketInv
<1>4. RecordInv'
  <2>1. SUFFICES ASSUME NEW j \in 1 .. Len(out'), out'[j].kind \in MessageKinds
                 PROVE  RecordKnown(out[j])' /\ \A k \in 1 .. Len(up') : PacketFits(up[k], out[j])'
    BY DEF RecordInv, RecordKnown, PacketFits, MessageKinds
  <2>2. CASE Joins(out'[j], down')
    BY <1>2, <2>2 DEF Joins, RecordKnown, PacketFits
  <2>3. CASE In(out'[j], out)
    <3>1. PICK i \in 1 .. Len(out) : Alike(out'[j], out[i])
      BY <2>3 DEF In
    <3>2. RecordKnown(out[i]) /\ \A k \in 1 .. Len(up) : PacketFits(up[k], out[i])
      BY DEF TakenInv, RecordInv
    <3> QED BY <1>2, <3>1, <3>2 DEF Alike, RecordKnown, PacketFits
  <2> QED BY <2>1, <2>2, <2>3
<1>5. AckInv'
  <2>1. SUFFICES ASSUME phase' = "up"
                 PROVE  /\ \A k \in 1 .. Len(down'), j \in 1 .. Len(out') : AckFits(down[k], out[j])'
                        /\ \A k \in 1 .. Len(down') : down'[k].pkt = "pubcomp" => down'[k].id \notin bq2'
    BY DEF AckInv
  <2>2. ASSUME NEW k \in 1 .. Len(down'), down'[k].pkt = "pubcomp" PROVE down'[k].id \notin bq2'
    BY <2>1, <2>2 DEF TakenInv, AckInv, Acks
  <2>3. ASSUME NEW k \in 1 .. Len(down'), NEW j \in 1 .. Len(out') PROVE AckFits(down[k], out[j])'
    <3>1. SUFFICES ASSUME down'[k].pkt \in {"puback", "pubrec"}, out'[j].kind \in MessageKinds, out'[j].id = down'[k].id
                   PROVE  out'[j].m \in ever
      BY DEF AckFits
    <3>2. CASE Joins(out'[j], down')
      BY <2>3, <3>1, <3>2 DEF Joins, AckFits
    <3>3. CASE In(out'[j], out)
      <4>1. PICK i \in 1 .. Len(out) : Alike(out'[j], out[i])
        BY <3>3 DEF In
      <4>2. PICK l \in 1 .. Len(down) : down'[k] = down[l] /\ phase = "up"
        BY <2>1, <2>3, <3>1 DEF Acks
      <4>3. AckFits(down[l], out[i])
        BY <4>2 DEF TakenInv, AckInv
      <4> QED BY <3>1, <4>1, <4>2, <4>3 DEF AckFits, Alike
    <3> QED BY <2>3, <3>1, <3>2, <3>3
  <2> QED BY <2>2, <2>3
<1>6. OrderSent'
  <2>1. SUFFICES ASSUME phase' = "up", NEW j \in 1 .. Len(out'), out'[j].kind \in Publishes,
                        out'[j].sent = "sent", out'[j].m \notin ever'
                 PROVE  \E k \in 1 .. Len(up') : up'[k].pkt \in Publishes /\ up'[k].m = out'[j].m
    BY DEF OrderSent
  <2>2. phase = "up" /\ up' = up /\ In(out'[j], out)
    BY <2>1 DEF Joins, Publishes, MessageKinds
  <2>3. PICK i \in 1 .. Len(out) : Alike(out'[j], out[i]) /\ out[i].sent = "sent"
    BY <2>1, <2>2 DEF In
  <2> QED BY <2>1, <2>2, <2>3 DEF TakenInv, OrderInv, OrderSent, Alike
<1>7. OrderUp'
  <2>1. SUFFICES ASSUME NEW k \in 1 .. Len(up'), up'[k].pkt \in Publishes, up'[k].m \notin ever',
                        NEW m \in 1 .. up'[k].m - 1
                 PROVE  m \in ever' \cup dropped' \/ \E i \in 1 .. k - 1 : up'[i].pkt \in Publishes /\ up'[i].m = m
    BY DEF OrderUp
  <2>2. m \in ever \cup dropped \/ \E i \in 1 .. k - 1 : up[i].pkt \in Publishes /\ up[i].m = m
    BY <1>2, <2>1 DEF TakenInv, OrderInv, OrderUp
  <2>3. ASSUME NEW i \in 1 .. k - 1 PROVE up'[i] = up[i]
    <3>1. Len(up') \in Nat
      BY DEF OutboxInv, Types, PipeTypes
    <3>2. i \in 1 .. Len(up')
      BY <2>1, <3>1
    <3> QED BY <1>2, <3>2
  <2> QED BY <2>2, <2>3
<1> QED BY <1>1, <1>3, <1>4, <1>5, <1>6, <1>7 DEF TakenInv, OrderInv

\* The message records of t are of o, and in their order.
Partly(t, o) ==
  /\ \A i \in 1 .. Len(t) : t[i].kind \in MessageKinds => In(t[i], o)
  /\ Ordered(o) => Ordered(t)

LEMMA PicksPartly ==
  ASSUME NEW o \in Seq(RecType), NEW t \in Seq(RecType), NEW K \in SUBSET (1 .. Len(o)), Picks(t, o, K)
  PROVE  /\ Partly(t, o)
         /\ (\A k \in 1 .. Len(o) : o[k].kind \in {"pub2", "rel"} => k \in K) => Linked(t, o)
<1>1. PICK f : Follows(f, t, o, K)
  BY DEF Picks
<1>2. /\ \A i \in 1 .. Len(t) : f[i] \in 1 .. Len(o) /\ t[i] = o[f[i]]
      /\ \A i, j \in 1 .. Len(t) : i < j => f[i] < f[j]
      /\ \A k \in K : \E i \in 1 .. Len(t) : f[i] = k
  BY <1>1 DEF Follows
<1>3. \A i \in 1 .. Len(t) : In(t[i], o)
  BY <1>2 DEF In, Alike
<1>4. Ordered(o) => Ordered(t)
  BY <1>2 DEF Ordered
<1>5. ASSUME \A k \in 1 .. Len(o) : o[k].kind \in {"pub2", "rel"} => k \in K PROVE Linked(t, o)
  <2>1. SUFFICES ASSUME NEW k \in 1 .. Len(o), o[k].kind \in {"pub2", "rel"} PROVE Holds(t, o[k].id, o[k].m)
    BY DEF Linked
  <2>2. PICK i \in 1 .. Len(t) : f[i] = k
    BY <1>2, <1>5, <2>1
  <2> QED BY <1>2, <2>1, <2>2 DEF Holds
<1> QED BY <1>3, <1>4, <1>5 DEF Partly

LEMMA MarksPartly ==
  ASSUME NEW o, NEW t, Len(t) = Len(o),
         \A j \in 1 .. Len(o) : /\ Alike(t[j], o[j])
                                /\ o[j].kind \in MessageKinds => t[j].sent \in {"new", o[j].sent}
  PROVE  Partly(t, o) /\ Linked(t, o)
<1>1. \A i \in 1 .. Len(t) : t[i].kind \in MessageKinds => In(t[i], o)
  BY DEF In, Alike
<1>2. Ordered(o) => Ordered(t)
  BY DEF Ordered, Alike
<1>3. Linked(t, o)
  BY DEF Linked, Holds, Alike
<1> QED BY <1>1, <1>2, <1>3 DEF Partly

LEMMA PartlyOfPart ==
  ASSUME NEW o, NEW s, NEW t, Partly(s, o), Partly(t, s)
  PROVE  Partly(t, o)
<1>1. ASSUME NEW i \in 1 .. Len(t), t[i].kind \in MessageKinds PROVE In(t[i], o)
  <2>1. PICK j \in 1 .. Len(s) : Alike(t[i], s[j]) /\ t[i].sent \in {"new", s[j].sent}
    BY <1>1 DEF Partly, In
  <2>2. s[j].kind \in MessageKinds
    BY <1>1, <2>1 DEF Alike
  <2>3. PICK k \in 1 .. Len(o) : Alike(s[j], o[k]) /\ s[j].sent \in {"new", o[k].sent}
    BY <2>2 DEF Partly, In
  <2> QED BY <2>1, <2>3 DEF In, Alike
<1> QED BY <1>1 DEF Partly

LEMMA LinkedOfLinked ==
  ASSUME NEW o, NEW s, NEW t, Linked(s, o), Linked(t, s)
  PROVE  Linked(t, o)
<1>1. SUFFICES ASSUME NEW k \in 1 .. Len(o), o[k].kind \in {"pub2", "rel"} PROVE Holds(t, o[k].id, o[k].m)
  BY DEF Linked
<1>2. PICK j \in 1 .. Len(s) : s[j].kind \in {"pub2", "rel"} /\ s[j].id = o[k].id /\ s[j].m = o[k].m
  BY <1>1 DEF Linked, Holds
<1>3. Holds(t, s[j].id, s[j].m)
  BY <1>2 DEF Linked
<1> QED BY <1>2, <1>3

LEMMA AppendPartly ==
  ASSUME NEW o \in Seq(RecType), NEW r \in RecType, r.kind \notin MessageKinds
  PROVE  Partly(Append(o, r), o) /\ Linked(Append(o, r), o)
<1> DEFINE t == Append(o, r)
<1>1. /\ Len(t) = Len(o) + 1 /\ Len(o) \in Nat
      /\ \A j \in 1 .. Len(o) : t[j] = o[j]
      /\ t[Len(o) + 1] = r
  BY AppendProperties
<1> HIDE DEF t
<1>2. \A j \in 1 .. Len(t) : j \in 1 .. Len(o) \/ j = Len(o) + 1
  BY <1>1
<1>3. ASSUME NEW j \in 1 .. Len(t), t[j].kind \in MessageKinds PROVE j \in 1 .. Len(o) /\ t[j] = o[j]
  BY <1>1, <1>2, <1>3
<1>4. \A j \in 1 .. Len(t) : t[j].kind \in MessageKinds => In(t[j], o)
  BY <1>3 DEF In, Alike
<1>5. Ordered(o) => Ordered(t)
  BY <1>3 DEF Ordered, Publishes, MessageKinds
<1>6. Linked(t, o)
  <2>1. \A j \in 1 .. Len(o) : j \in 1 .. Len(t)
    BY <1>1
  <2> QED BY <1>1, <2>1 DEF Linked, Holds
<1> QED BY <1>4, <1>5, <1>6 DEF Partly, t

LEMMA WithoutPartly ==
  ASSUME NEW o \in Seq(RecType), NEW kind, NEW id
  PROVE  /\ Partly(Without(o, kind, id), o)
         /\ kind \notin {"pub2", "rel"} => Linked(Without(o, kind, id), o)
<1> DEFINE K == {j \in 1 .. Len(o) : o[j].kind # kind \/ o[j].id # id}
           t == Without(o, kind, id)
<1>1. t \in Seq(RecType) /\ Picks(t, o, K) /\ K \in SUBSET (1 .. Len(o))
  BY WithoutPicks
<1>2. \A j \in 1 .. Len(o) : o[j].kind # kind => j \in K
  OBVIOUS
<1> HIDE DEF t, K
<1>3. /\ Partly(t, o)
      /\ (\A k \in 1 .. Len(o) : o[k].kind \in {"pub2", "rel"} => k \in K) => Linked(t, o)
  BY <1>1, PicksPartly
<1> QED BY <1>2, <1>3 DEF t

LEMMA RemovedPartly ==
  ASSUME NEW o \in Seq(RecType), NEW j \in 1 .. Len(o)
  PROVE  /\ Partly(RemoveAt(o, j), o)
         /\ o[j].kind \notin {"pub2", "rel"} => Linked(RemoveAt(o, j), o)
<1> DEFINE K == (1 .. Len(o)) \ {j}
           t == RemoveAt(o, j)
<1>1. t \in Seq(RecType) /\ Picks(t, o, K) /\ K \in SUBSET (1 .. Len(o))
  BY RemoveAtPicks
<1>2. \A i \in 1 .. Len(o) : i # j => i \in K
  OBVIOUS
<1> HIDE DEF t, K
<1>3. /\ Partly(t, o)
      /\ (\A k \in 1 .. Len(o) : o[k].kind \in {"pub2", "rel"} => k \in K) => Linked(t, o)
  BY <1>1, PicksPartly
<1> QED BY <1>2, <1>3 DEF t

LEMMA EndedPartly ==
  ASSUME NEW o \in Seq(RecType)
  PROVE  Partly(Ended(o), o) /\ Linked(Ended(o), o)
<1> DEFINE K == {j \in 1 .. Len(o) : o[j].kind \in KeptKinds}
           s == [j \in 1 .. Len(o) |-> IF o[j].kind = "sub" THEN [o[j] EXCEPT !.sent = "lost"] ELSE o[j]]
           t == Ended(o)
<1>0. DOMAIN o = 1 .. Len(o) /\ Len(o) \in Nat
  OBVIOUS
<1>1. t = Only(s, K)
  <2>1. K = {j \in DOMAIN o : o[j].kind \in KeptKinds}
    BY <1>0
  <2> QED BY <1>0, <2>1 DEF Ended
<1>2. ASSUME NEW j \in 1 .. Len(o)
      PROVE  /\ s[j] \in RecType /\ Alike(s[j], o[j])
             /\ o[j].kind \in MessageKinds => s[j].sent \in {"new", o[j].sent}
  <2>1. o[j] \in RecType
    OBVIOUS
  <2>2. CASE o[j].kind = "sub"
    <3>1. s[j] = [o[j] EXCEPT !.sent = "lost"]
      BY <2>2
    <3> QED BY <2>1, <2>2, <3>1 DEF RecType, Alike, MessageKinds
  <2>3. CASE o[j].kind # "sub"
    <3>1. s[j] = o[j]
      BY <2>3
    <3> QED BY <2>1, <3>1 DEF Alike
  <2> QED BY <2>2, <2>3
<1>3. s \in Seq(RecType) /\ Len(s) = Len(o)
  BY <1>0, <1>2
<1>4. K \in SUBSET (1 .. Len(s))
  BY <1>3
<1>5. \A k \in 1 .. Len(s) : s[k].kind \in {"pub2", "rel"} => k \in K
  BY <1>2, <1>3 DEF KeptKinds, Alike
<1> HIDE DEF s, t, K
<1>6. Partly(s, o) /\ Linked(s, o)
  BY <1>2, <1>3, MarksPartly
<1>7. t \in Seq(RecType) /\ Picks(t, s, K)
  BY <1>1, <1>3, <1>4, OnlyPicks
<1>8. Partly(t, s) /\ ((\A k \in 1 .. Len(s) : s[k].kind \in {"pub2", "rel"} => k \in K) => Linked(t, s))
  BY <1>3, <1>4, <1>7, PicksPartly
<1>9. Partly(t, o)
  BY <1>6, <1>8, PartlyOfPart
<1>10. Linked(t, o)
  BY <1>5, <1>6, <1>8, LinkedOfLinked
<1> QED BY <1>9, <1>10 DEF t

LEMMA RewoundPartly ==
  ASSUME NEW o \in Seq(RecType)
  PROVE  /\ Rewound(o) \in Seq(RecType) /\ Partly(Rewound(o), o) /\ Linked(Rewound(o), o)
         /\ \A j \in 1 .. Len(Rewound(o)) : Rewound(o)[j].sent # "sent"
<1> DEFINE t == Rewound(o)
<1>1. DOMAIN o = 1 .. Len(o) /\ Len(o) \in Nat
  OBVIOUS
<1>2. t = [j \in 1 .. Len(o) |-> IF o[j].sent = "sent" THEN [o[j] EXCEPT !.sent = "new"] ELSE o[j]]
  BY <1>1 DEF Rewound
<1> HIDE DEF t
<1>3. ASSUME NEW j \in 1 .. Len(o)
      PROVE  t[j] \in RecType /\ Alike(t[j], o[j]) /\ t[j].sent \in {"new", o[j].sent} /\ t[j].sent # "sent"
  <2>1. o[j] \in RecType
    OBVIOUS
  <2>2. CASE o[j].sent = "sent"
    <3>1. t[j] = [o[j] EXCEPT !.sent = "new"]
      BY <1>2, <2>2
    <3> QED BY <2>1, <3>1 DEF RecType, Alike
  <2>3. CASE o[j].sent # "sent"
    <3>1. t[j] = o[j]
      BY <1>2, <2>3
    <3> QED BY <2>1, <2>3, <3>1 DEF Alike
  <2> QED BY <2>2, <2>3
<1>4. t \in Seq(RecType) /\ Len(t) = Len(o)
  BY <1>1, <1>2, <1>3
<1>5. Partly(t, o) /\ Linked(t, o)
  BY <1>3, <1>4, MarksPartly
<1> QED BY <1>3, <1>4, <1>5 DEF t

LEMMA SettledPartly ==
  ASSUME NEW o \in Seq(RecType)
  PROVE  Settled(o) \in Seq(RecType) /\ Partly(Settled(o), o)
<1> DEFINE K == {j \in 1 .. Len(o) : o[j].kind # "rel"}
           t == Settled(o)
<1>0. DOMAIN o = 1 .. Len(o)
  OBVIOUS
<1>1. K \in SUBSET (1 .. Len(o)) /\ t = Only(o, K)
  <2>1. K = {j \in DOMAIN o : o[j].kind # "rel"}
    BY <1>0
  <2> QED BY <1>0, <2>1 DEF Settled
<1> HIDE DEF K, t
<1>2. t \in Seq(RecType) /\ Picks(t, o, K)
  BY <1>1, OnlyPicks
<1>3. Partly(t, o)
  BY <1>1, <1>2, PicksPartly
<1> QED BY <1>2, <1>3 DEF t

\* A packet is read, and of the records at most some go.
LEMMA ReadKeepsTaken ==
  ASSUME OutboxInv, OutboxInv', TakenInv, NEW pkt \in Acks \cup OurPackets, Reads(pkt),
         \A j \in 1 .. Len(out') : out'[j].kind \in MessageKinds => Joins(out'[j], down') \/ In(out'[j], out),
         Ordered(out'), Linked(out', out) \/ HeldInv',
         acked' \subseteq ever, UNCHANGED <<clean, ever, taken, bq2, dropped, next, phase, up>>
  PROVE  TakenInv'
<1>1. /\ phase = "up" /\ Len(down) > 0 /\ down \in Seq(DownType)
      /\ \A i \in 1 .. Len(down') : down'[i] = down[i + 1]
      /\ Len(down') = Len(down) - 1
  BY ReadIsUp
<1>2. CutShort /\ dropped \subseteq dropped' /\ next <= next' /\ phase' = "up" /\ up' = up
  BY <1>1, SizesAssumption DEF CutShort, OutboxInv, Types, PipeTypes, CallerTypes
<1>3. HeldInv'
  <2>1. FreshAhead = FALSE /\ WelcomeFits'
    BY <1>1, <1>2 DEF FreshAhead, WelcomeFits
  <2>2. CASE Linked(out', out)
    BY <1>2, <2>1, <2>2, LinkedIsHeld DEF TakenInv
  <2> QED BY <2>2
<1>4. \A k \in 1 .. Len(down') : \E i \in 1 .. Len(down) : down'[k] = down[i]
  <2>1. SUFFICES ASSUME NEW k \in 1 .. Len(down') PROVE \E i \in 1 .. Len(down) : down'[k] = down[i]
    OBVIOUS
  <2>2. k + 1 \in 1 .. Len(down) /\ down'[k] = down[k + 1]
    BY <1>1
  <2> QED BY <2>2
<1> QED BY <1>1, <1>2, <1>3, <1>4, ClientKeepsTaken

\* What is acked to the caller was taken.
LEMMA AckedIsEver ==
  ASSUME OutboxInv, TakenInv, NEW pkt \in {"puback", "pubrec"}, Reads(pkt), NEW kind \in MessageKinds
  PROVE  Of(out, kind, down[1].id) \subseteq ever
<1>1. phase = "up" /\ Len(down) > 0 /\ down[1].pkt = pkt /\ DOMAIN out = 1 .. Len(out) /\ down \in Seq(DownType)
  BY ReadIsUp DEF Acks, OutboxInv, Types, OutTypes
<1>2. 1 \in 1 .. Len(down)
  BY <1>1
<1>3. \A j \in 1 .. Len(out) : AckFits(down[1], out[j])
  BY <1>1, <1>2 DEF TakenInv, AckInv
<1> QED BY <1>1, <1>3 DEF Of, AckFits

LEMMA OnPubackKeepsTaken ==
  ASSUME OutboxInv, OutboxInv', TakenInv, OnPuback
  PROVE  TakenInv'
<1>1. "puback" \in Acks /\ Reads("puback") /\ out \in Seq(RecType) /\ "pub1" \in MessageKinds
  BY DEF Acks, OnPuback, OutboxInv, Types, OutTypes, MessageKinds
<1>2. Head(down) = down[1]
  BY <1>1, ReadIsUp
<1>3. out' = Without(out, "pub1", down[1].id) /\ acked' = acked \cup Of(out, "pub1", down[1].id)
  BY <1>2 DEF OnPuback
<1>4. UNCHANGED <<clean, ever, taken, bq2, dropped, next, phase, up>>
  BY DEF OnPuback, broker, peer
<1>5. Partly(out', out) /\ Linked(out', out)
  BY <1>1, <1>3, WithoutPartly
<1>6. acked' \subseteq ever
  BY <1>1, <1>3, AckedIsEver DEF TakenInv, EverInv
<1>7. Ordered(out') /\ \A j \in 1 .. Len(out') : out'[j].kind \in MessageKinds => In(out'[j], out)
  BY <1>5 DEF Partly, TakenInv, OrderInv
<1> QED BY <1>1, <1>4, <1>5, <1>6, <1>7, ReadKeepsTaken

LEMMA OnSubackKeepsTaken ==
  ASSUME OutboxInv, OutboxInv', TakenInv, OnSuback
  PROVE  TakenInv'
<1>1. "suback" \in Acks /\ Reads("suback") /\ out \in Seq(RecType)
  BY DEF Acks, OnSuback, OutboxInv, Types, OutTypes
<1>2. Head(down) = down[1]
  BY <1>1, ReadIsUp
<1>3. out' = Without(out, "sub", down[1].id)
  BY <1>2 DEF OnSuback
<1>4. UNCHANGED <<clean, ever, taken, bq2, dropped, next, phase, up>> /\ acked' = acked
  BY DEF OnSuback, broker, peer
<1>5. Partly(out', out) /\ Linked(out', out)
  BY <1>1, <1>3, WithoutPartly
<1>6. acked' \subseteq ever
  BY <1>4 DEF TakenInv, EverInv
<1>7. Ordered(out') /\ \A j \in 1 .. Len(out') : out'[j].kind \in MessageKinds => In(out'[j], out)
  BY <1>5 DEF Partly, TakenInv, OrderInv
<1> QED BY <1>1, <1>4, <1>5, <1>6, <1>7, ReadKeepsTaken

\* A message of the broker is answered by a record that holds none.
LEMMA AnswerKeepsTaken ==
  ASSUME OutboxInv, OutboxInv', TakenInv, NEW pkt \in OurPackets, Reads(pkt), NEW r \in RecType, r.kind = "once",
         out' = Append(out, r), UNCHANGED <<clean, ever, taken, bq2, dropped, acked, next, phase, up>>
  PROVE  TakenInv'
<1>1. out \in Seq(RecType) /\ r.kind \notin MessageKinds
  BY DEF OutboxInv, Types, OutTypes, MessageKinds
<1>2. Partly(out', out) /\ Linked(out', out)
  BY <1>1, AppendPartly
<1>3. Ordered(out') /\ \A j \in 1 .. Len(out') : out'[j].kind \in MessageKinds => In(out'[j], out)
  BY <1>2 DEF Partly, TakenInv, OrderInv
<1>4. acked' \subseteq ever
  BY DEF TakenInv, EverInv
<1> QED BY <1>2, <1>3, <1>4, ReadKeepsTaken

LEMMA OnPublishKeepsTaken ==
  ASSUME OutboxInv, OutboxInv', TakenInv, OnPublish1 \/ OnPublish2 \/ OnPubrel
  PROVE  TakenInv'
<1>1. PICK pkt \in OurPackets, ack \in OurAcks : /\ Reads(pkt)
                                                /\ out' = Append(out, Rec("once", ack, Head(down).id, 0))
  BY DEF OnPublish1, OnPublish2, OnPubrel, OurPackets, OurAcks
<1>2. UNCHANGED <<clean, ever, taken, bq2, dropped, acked, next, phase, up>>
  BY DEF OnPublish1, OnPublish2, OnPubrel, broker, caller, peer
<1> DEFINE r == Rec("once", ack, Head(down).id, 0)
<1>3. Head(down).id \in Nat
  <2>1. Head(down) = down[1] /\ down[1].id \in Ids
    BY <1>1, ReadIsUp
  <2> QED BY <2>1 DEF Ids
<1>4. r.kind = "once" /\ r \in RecType
  BY <1>3 DEF Rec, RecType, Kinds
<1> HIDE DEF r
<1>5. out' = Append(out, r)
  BY <1>1 DEF r
<1> QED BY <1>1, <1>2, <1>4, <1>5, AnswerKeepsTaken

LEMMA OnPubrecKeepsTaken ==
  ASSUME OutboxInv, OutboxInv', TakenInv, OnPubrec
  PROVE  TakenInv'
<1>1. "pubrec" \in Acks /\ Reads("pubrec") /\ out \in Seq(RecType) /\ "pub2" \in MessageKinds
  BY DEF Acks, OnPubrec, OutboxInv, Types, OutTypes, MessageKinds
<1>2. PICK j \in 1 .. Len(out) : PubrecOf(j)
  BY OnPubrecFinds
<1> DEFINE id == down[1].id
           o == Without(out, "pub2", id)
           r == Rec("rel", "pubrel", id, out[j].m)
<1>3. /\ phase = "up" /\ Len(down) > 0 /\ down[1].pkt = "pubrec" /\ down \in Seq(DownType) /\ id \in Nat
      /\ \A i \in 1 .. Len(down') : down'[i] = down[i + 1]
      /\ Len(down') = Len(down) - 1
  BY <1>1, ReadIsUp DEF Ids
<1>4. UNCHANGED <<clean, ever, taken, bq2, dropped, acked, next, phase, up>>
  BY DEF OnPubrec, broker, caller, peer
<1>5. /\ out[j].kind = "pub2" /\ out[j].id = id /\ out[j].m \in 1 .. next
      /\ \A k \in 1 .. Len(out) : k # j => (out[k].kind \in KeptKinds => out[k].id # id)
      /\ out' = Append(o, r)
  BY <1>2 DEF PubrecOf
<1>6. r.kind = "rel" /\ r.pkt = "pubrel" /\ r.id = id /\ r.m = out[j].m /\ r.sent = "new"
  BY DEF Rec
<1>7. /\ o \in Seq(RecType) /\ Partly(o, out) /\ Rest(o, out, "pub2", id)
      /\ out' \in Seq(RecType)
  BY <1>1, WithoutPartly, WithoutKeeps DEF KeptKinds, OutboxInv, Types, OutTypes
<1> HIDE DEF id, o, r
<1>8. /\ Len(out') = Len(o) + 1 /\ Len(o) \in Nat
      /\ \A i \in 1 .. Len(o) : out'[i] = o[i]
      /\ out'[Len(o) + 1] = r
      /\ \A i \in 1 .. Len(out') : i \in 1 .. Len(o) \/ i = Len(o) + 1
  <2>1. /\ Len(out') = Len(o) + 1 /\ Len(o) \in Nat
        /\ \A i \in 1 .. Len(o) : out'[i] = o[i]
        /\ out'[Len(o) + 1] = r
    BY <1>5, <1>7, AppendProperties
  <2> QED BY <2>1
<1>9. out[j].m \in ever
  <2>1. AckFits(down[1], out[j])
    <3>1. 1 \in 1 .. Len(down)
      BY <1>3
    <3> QED BY <1>3, <3>1 DEF TakenInv, AckInv
  <2> QED BY <1>1, <1>3, <1>5, <2>1 DEF AckFits, id
<1>10. Joins(r, down')
  <2>1. RecordKnown(r)
    BY <1>6, <1>9 DEF RecordKnown
  <2>2. ASSUME NEW k \in 1 .. Len(up) PROVE PacketFits(up[k], r)
    <3>1. PacketFits(up[k], out[j])
      BY DEF TakenInv, RecordInv
    <3> QED BY <1>1, <1>5, <1>6, <3>1 DEF PacketFits
  <2>3. ASSUME NEW k \in 1 .. Len(down') PROVE AckFits(down'[k], r)
    BY <1>6, <1>9 DEF AckFits
  <2> QED BY <1>6, <2>1, <2>2, <2>3 DEF Joins
<1>11. \A i \in 1 .. Len(out') : out'[i].kind \in MessageKinds => Joins(out'[i], down') \/ In(out'[i], out)
  BY <1>7, <1>8, <1>10 DEF Partly
<1>12. Ordered(out')
  <2>1. Ordered(o)
    BY <1>7 DEF Partly, TakenInv, OrderInv
  <2> QED BY <1>6, <1>8, <2>1 DEF Ordered, Publishes
<1>13. Linked(out', out)
  <2>1. SUFFICES ASSUME NEW k \in 1 .. Len(out), out[k].kind \in {"pub2", "rel"} PROVE Holds(out', out[k].id, out[k].m)
    BY DEF Linked
  <2>2. CASE k = j
    <3>1. Len(o) + 1 \in 1 .. Len(out')
      BY <1>8
    <3> QED BY <1>5, <1>6, <1>8, <2>2, <3>1 DEF Holds
  <2>3. CASE k # j
    <3>1. out[k].id # id
      BY <1>5, <2>1, <2>3 DEF KeptKinds
    <3>2. PICK i \in 1 .. Len(o) : o[i] = out[k]
      BY <1>7, <3>1 DEF Rest
    <3>3. i \in 1 .. Len(out') /\ out'[i] = out[k]
      BY <1>8, <3>2
    <3> QED BY <2>1, <3>3 DEF Holds
  <2> QED BY <2>2, <2>3
<1>14. acked' \subseteq ever
  BY <1>4 DEF TakenInv, EverInv
<1> QED BY <1>1, <1>4, <1>11, <1>12, <1>13, <1>14, ReadKeepsTaken

LEMMA OnPubcompKeepsTaken ==
  ASSUME OutboxInv, OutboxInv', TakenInv, OnPubcomp
  PROVE  TakenInv'
<1> DEFINE id == down[1].id
<1>1. "pubcomp" \in Acks /\ Reads("pubcomp") /\ out \in Seq(RecType) /\ DOMAIN out = 1 .. Len(out)
  BY DEF Acks, OnPubcomp, OutboxInv, Types, OutTypes
<1>2. /\ Head(down) = down[1] /\ phase = "up" /\ Len(down) > 0 /\ down[1].pkt = "pubcomp" /\ down \in Seq(DownType)
  BY <1>1, ReadIsUp
<1>3. out' = Without(out, "rel", id) /\ acked' = acked \cup Of(out, "rel", id)
  BY <1>2 DEF OnPubcomp
<1>4. UNCHANGED <<clean, ever, taken, bq2, dropped, next, phase, up>>
  BY DEF OnPubcomp, broker, peer
<1>5. Partly(out', out) /\ Rest(out', out, "rel", id)
  BY <1>1, <1>3, WithoutPartly, WithoutKeeps DEF KeptKinds
<1>6. acked' \subseteq ever
  <2>1. \A j \in 1 .. Len(out) : out[j].kind = "rel" => out[j].m \in ever
    BY DEF TakenInv, RecordInv, RecordKnown
  <2> QED BY <1>1, <1>3, <2>1 DEF Of, TakenInv, EverInv
<1>7. Ordered(out') /\ \A j \in 1 .. Len(out') : out'[j].kind \in MessageKinds => In(out'[j], out)
  BY <1>5 DEF Partly, TakenInv, OrderInv
<1> HIDE DEF id
<1>8. ASSUME NEW x, NEW m, x # id, Holds(out, x, m) PROVE Holds(out', x, m)
  <2>1. PICK j \in 1 .. Len(out) : out[j].kind \in {"pub2", "rel"} /\ out[j].id = x /\ out[j].m = m
    BY <1>8 DEF Holds
  <2>2. PICK i \in 1 .. Len(out') : out'[i] = out[j]
    BY <1>5, <1>8, <2>1 DEF Rest
  <2> QED BY <2>1, <2>2 DEF Holds
<1>9. 1 \in 1 .. Len(down)
  BY <1>2
<1>10. HeldInv'
  <2>1. KeepsIds'
    <3>1. SUFFICES ASSUME NEW x \in bq2 PROVE \E m \in ever : Holds(out', x, m)
      BY <1>4 DEF KeepsIds
    <3>2. x # id
      BY <1>2, <1>9 DEF TakenInv, AckInv, id
    <3>3. PICK m \in ever : Holds(out, x, m)
      BY <1>2 DEF TakenInv, HeldInv, KeepsIds, FreshAhead
    <3> QED BY <1>8, <3>2, <3>3
  <2>2. KeepsUp'
    <3>1. SUFFICES ASSUME ~clean, NEW k \in 1 .. Len(up), up[k].pkt \in {"pub2", "pubrel"}
                   PROVE  Holds(out', up[k].id, up[k].m)
      BY <1>4 DEF KeepsUp
    <3>2. up[k].id # id
      BY <1>1, <1>2, <1>9, <3>1 DEF OutboxInv, FlightInv, FlightIds, Calls, id
    <3>3. Holds(out, up[k].id, up[k].m)
      BY <3>1 DEF TakenInv, HeldInv, KeepsUp
    <3> QED BY <1>8, <3>2, <3>3
  <2>3. WelcomeFits'
    BY <1>2, <1>4 DEF WelcomeFits
  <2> QED BY <2>1, <2>2, <2>3 DEF HeldInv
<1> QED BY <1>1, <1>4, <1>6, <1>7, <1>10, ReadKeepsTaken

\* Away from an open connection: the packets written stay or are cut short.
LEMMA IdleKeepsTaken ==
  ASSUME OutboxInv, OutboxInv', TakenInv, phase' # "up", CutShort,
         UNCHANGED <<clean, ever, taken, bq2, acked, next>>, dropped \subseteq dropped',
         Partly(out', out), HeldInv'
  PROVE  TakenInv'
<1>1. acked' \subseteq ever /\ next <= next'
  BY SizesAssumption DEF TakenInv, EverInv, OutboxInv, Types, CallerTypes
<1>2. Ordered(out') /\ \A j \in 1 .. Len(out') : out'[j].kind \in MessageKinds => In(out'[j], out)
  BY DEF Partly, TakenInv, OrderInv
<1> QED BY <1>1, <1>2, ClientKeepsTaken

LEMMA ConnectKeepsTaken ==
  ASSUME OutboxInv, OutboxInv', TakenInv, Connect
  PROVE  TakenInv'
<1>1. /\ phase = "idle" /\ phase' = "dial"
      /\ UNCHANGED <<clean, ever, taken, bq2, acked, next, dropped, out, up, down>>
  BY DEF Connect, pipes, broker, caller, peer
<1>2. out \in Seq(RecType) /\ Len(up') <= Len(up) /\ CutShort
  <2>1. up \in Seq(UpType)
    BY DEF OutboxInv, Types, PipeTypes
  <2>2. Len(up) \in Nat
    BY <2>1
  <2> QED BY <1>1, <2>2 DEF CutShort, OutboxInv, Types, OutTypes
<1>3. Partly(out', out) /\ Linked(out', out)
  BY <1>1, <1>2, MarksPartly DEF Alike
<1>4. HeldInv'
  <2>1. (FreshAhead => FreshAhead') /\ WelcomeFits'
    BY <1>1 DEF FreshAhead, WelcomeFits
  <2> QED BY <1>1, <1>2, <1>3, <2>1, LinkedIsHeld DEF TakenInv
<1> QED BY <1>1, <1>2, <1>3, <1>4, IdleKeepsTaken

LEMMA EndKeepsTaken ==
  ASSUME OutboxInv, OutboxInv', TakenInv, End
  PROVE  TakenInv'
<1>1. /\ phase' = "idle" /\ out' = Ended(out) /\ CloseTcp
      /\ UNCHANGED <<clean, ever, taken, bq2, acked, next, dropped>>
  BY DEF End, broker, caller, peer
<1>2. CutShort /\ down' = <<>>
  BY <1>1, CutByClose DEF CutShort
<1>3. Partly(out', out) /\ Linked(out', out)
  BY <1>1, EndedPartly DEF OutboxInv, Types, OutTypes
<1>4. HeldInv'
  <2>1. (FreshAhead => FreshAhead') /\ WelcomeFits'
    BY <1>1 DEF FreshAhead, WelcomeFits
  <2> QED BY <1>1, <1>2, <1>3, <2>1, LinkedIsHeld DEF TakenInv
<1> QED BY <1>1, <1>2, <1>3, <1>4, IdleKeepsTaken

LEMMA StopKeepsTaken ==
  ASSUME OutboxInv, OutboxInv', TakenInv, Stop
  PROVE  TakenInv'
<1>1. /\ clean /\ phase' = "idle" /\ out' = <<>> /\ dropped \subseteq dropped'
      /\ CloseTcp \/ (phase = "idle" /\ UNCHANGED pipes)
      /\ UNCHANGED <<clean, ever, taken, bq2, acked, next>>
  BY DEF Stop, broker, peer
<1>2. CutShort /\ down' = <<>>
  BY <1>1, CutByClose DEF CutShort
<1>3. Partly(out', out)
  BY <1>1 DEF Partly, Ordered
<1>4. HeldInv'
  BY <1>1, <1>2 DEF HeldInv, KeepsIds, KeepsUp, WelcomeFits, FreshAhead
<1> QED BY <1>1, <1>2, <1>3, <1>4, IdleKeepsTaken

LEMMA TellLostKeepsTaken ==
  ASSUME OutboxInv, OutboxInv', TakenInv, TellLost
  PROVE  TakenInv'
<1>1. PICK j \in 1 .. Len(out) : out[j].sent = "lost" /\ out' = RemoveAt(out, j)
  BY DEF TellLost, OutboxInv, Types, OutTypes
<1>2. UNCHANGED <<clean, ever, taken, bq2, acked, next, dropped, up, down, phase>>
  BY DEF TellLost, pipes, broker, peer
<1>3. out[j].kind \notin {"pub2", "rel"}
  BY <1>1 DEF OutboxInv, OutInv, OutOk, RecordOk
<1>4. Partly(out', out) /\ Linked(out', out)
  BY <1>1, <1>3, RemovedPartly DEF OutboxInv, Types, OutTypes
<1>5. CutShort
  <2>1. up \in Seq(UpType)
    BY DEF OutboxInv, Types, PipeTypes
  <2>2. Len(up) \in Nat
    BY <2>1
  <2> QED BY <1>2, <2>2 DEF CutShort
<1>6. HeldInv'
  <2>1. (FreshAhead => FreshAhead') /\ WelcomeFits'
    BY <1>2 DEF FreshAhead, WelcomeFits, TakenInv, HeldInv
  <2> QED BY <1>2, <1>4, <1>5, <2>1, LinkedIsHeld DEF TakenInv
<1>7. acked' \subseteq ever /\ next <= next'
  BY <1>2, SizesAssumption DEF TakenInv, EverInv, OutboxInv, Types, CallerTypes
<1>8. Ordered(out') /\ \A i \in 1 .. Len(out') : out'[i].kind \in MessageKinds => In(out'[i], out)
  BY <1>4 DEF Partly, TakenInv, OrderInv
<1>9. \A k \in 1 .. Len(down') : \E i \in 1 .. Len(down) : down'[k] = down[i]
  BY <1>2
<1> QED BY <1>2, <1>5, <1>6, <1>7, <1>8, <1>9, ClientKeepsTaken

LEMMA DialKeepsTaken ==
  ASSUME OutboxInv, OutboxInv', TakenInv, Dial
  PROVE  TakenInv'
<1> DEFINE r == Rec("connect", "connect", 0, 0)
<1>1. /\ phase = "dial" /\ phase' = "hello" /\ out' = <<r>> \o out
      /\ UNCHANGED <<clean, ever, taken, bq2, acked, next, dropped, up, down>>
  BY DEF Dial, pipes, broker, caller, peer
<1>2. r.kind = "connect" /\ r \in RecType
  BY DEF Rec, RecType, Kinds
<1>3. out \in Seq(RecType) /\ up \in Seq(UpType) /\ down = <<>>
  BY <1>1 DEF OutboxInv, Types, OutTypes, PipeTypes, ConnInv, ConnPhase
<1> HIDE DEF r
<1>4. /\ Len(out') = Len(out) + 1 /\ out'[1] = r /\ Len(out) \in Nat
      /\ \A i \in 1 .. Len(out) : out'[i + 1] = out[i]
      /\ \A i \in 2 .. Len(out') : out'[i] = out[i - 1]
  <2>1. Len(out) \in Nat
    BY <1>3
  <2> QED BY <1>1, <1>2, <1>3, <2>1, PrependIs
<1>5. \A i \in 1 .. Len(out') : i = 1 \/ (i - 1 \in 1 .. Len(out) /\ out'[i] = out[i - 1])
  BY <1>4
<1>6. \A i \in 1 .. Len(out) : i + 1 \in 1 .. Len(out')
  BY <1>4
<1>7. Partly(out', out)
  <2>1. \A i \in 1 .. Len(out') : out'[i].kind \in MessageKinds => In(out'[i], out)
    BY <1>2, <1>4, <1>5 DEF In, Alike, MessageKinds
  <2>2. ASSUME Ordered(out), NEW i \in 1 .. Len(out'), NEW j \in 1 .. Len(out'), i < j,
               out'[i].kind \in Publishes, out'[j].kind \in Publishes
        PROVE  out'[i].m < out'[j].m
    <3>1. i # 1 /\ j # 1
      BY <1>2, <1>4, <2>2 DEF Publishes
    <3>2. i - 1 \in 1 .. Len(out) /\ j - 1 \in 1 .. Len(out) /\ out'[i] = out[i - 1] /\ out'[j] = out[j - 1]
      BY <1>5, <3>1
    <3>3. i - 1 < j - 1
      BY <2>2
    <3> QED BY <2>2, <3>2, <3>3 DEF Ordered
  <2> QED BY <2>1, <2>2 DEF Partly, Ordered
<1>8. Linked(out', out)
  BY <1>4, <1>6 DEF Linked, Holds
<1>9. CutShort
  <2>1. Len(up) \in Nat
    BY <1>3
  <2> QED BY <1>1, <2>1 DEF CutShort
<1>10. HeldInv'
  <2>1. (FreshAhead => FreshAhead') /\ WelcomeFits'
    BY <1>1, <1>3 DEF FreshAhead, WelcomeFits
  <2> QED BY <1>1, <1>8, <1>9, <2>1, LinkedIsHeld DEF TakenInv
<1> QED BY <1>1, <1>7, <1>9, <1>10, IdleKeepsTaken

\* A record joins the outbox, with an id that no other has.
LEMMA NewIdIsNew ==
  ASSUME OutboxInv, NEW id, \A j \in 1 .. Len(out) : out[j].id # id,
         NEW k \in 1 .. Len(down), down[k].pkt \in {"puback", "pubrec"}
  PROVE  down[k].id # id
<1>1. down \in Seq(DownType) /\ down[k].pkt \in Acks /\ down[k].pkt \notin OurPackets /\ down[k].pkt # "connack"
  BY DEF OutboxInv, Types, PipeTypes, Acks, OurPackets
<1>2. phase = "up"
  <2>1. phase \in {"idle", "dial", "hello", "up"} /\ ConnPhase
    BY DEF OutboxInv, Types, ClientTypes, ConnInv
  <2>2. down # <<>>
    BY <1>1
  <2>3. CASE phase = "hello"
    <3>1. down[1].pkt = "connack" /\ \A i \in 2 .. Len(down) : down[i].pkt \in OurPackets
      BY <2>1, <2>2, <2>3 DEF ConnPhase
    <3>2. k = 1 \/ k \in 2 .. Len(down)
      BY <1>1
    <3> QED BY <1>1, <3>1, <3>2
  <2> QED BY <2>1, <2>2, <2>3 DEF ConnPhase
<1>3. SentFor(out, down[k])
  BY <1>1, <1>2 DEF OutboxInv, FlightInv, FlightSent
<1> QED BY <1>3 DEF SentFor

LEMMA JoinKeepsTaken ==
  ASSUME OutboxInv, OutboxInv', TakenInv, NEW r \in RecType, out' = Append(out, r),
         r.kind \in MessageKinds => r.kind \in Publishes /\ r.m = next + 1 /\ r.sent = "new" /\ next + 1 \in Messages,
         \A j \in 1 .. Len(out) : out[j].id # r.id, next <= next',
         UNCHANGED <<clean, ever, taken, bq2, acked, dropped, up, down, phase>>
  PROVE  TakenInv'
<1>1. /\ out \in Seq(RecType) /\ up \in Seq(UpType) /\ next \in Nat /\ OutOk(out, next, acked \cup dropped)
      /\ ever \subseteq 1 .. next /\ next + 1 \notin ever
  <2>1. out \in Seq(RecType) /\ up \in Seq(UpType) /\ next \in Nat /\ OutOk(out, next, acked \cup dropped)
    BY SizesAssumption DEF OutboxInv, Types, OutTypes, PipeTypes, CallerTypes, OutInv
  <2>2. ever \subseteq 1 .. next
    BY DEF TakenInv, EverInv
  <2> QED BY <2>1, <2>2
<1>2. /\ Len(out') = Len(out) + 1 /\ Len(out) \in Nat
      /\ \A j \in 1 .. Len(out) : out'[j] = out[j]
      /\ out'[Len(out) + 1] = r
  BY <1>1, AppendProperties
<1>3. \A j \in 1 .. Len(out') : j \in 1 .. Len(out) \/ j = Len(out) + 1
  BY <1>2
<1>4. r.kind \in MessageKinds => Joins(r, down')
  <2>1. SUFFICES ASSUME r.kind \in MessageKinds PROVE Joins(r, down')
    OBVIOUS
  <2>2. r.m = next + 1 /\ r.m \notin ever /\ r.kind \in Publishes /\ r.sent = "new" /\ r.m \in Messages
    BY <1>1, <2>1
  <2>3. RecordKnown(r)
    BY <2>2 DEF RecordKnown, Publishes, TakenInv, EverInv
  <2>4. ASSUME NEW k \in 1 .. Len(up) PROVE PacketFits(up[k], r)
    <3>1. PacketOk(up[k])
      BY DEF TakenInv, PacketInv
    <3>2. up[k].pkt \in OurPackets => up[k].m # next + 1
      BY <1>1, <3>1 DEF PacketOk
    <3> QED BY <2>2, <3>2 DEF PacketFits
  <2>5. ASSUME NEW k \in 1 .. Len(down') PROVE AckFits(down'[k], r)
    <3>1. down[k].pkt \in {"puback", "pubrec"} => down[k].id # r.id
      BY <2>5, NewIdIsNew
    <3> QED BY <3>1 DEF AckFits
  <2> QED BY <2>2, <2>3, <2>4, <2>5 DEF Joins
<1>5. ASSUME NEW j \in 1 .. Len(out'), out'[j].kind \in MessageKinds PROVE Joins(out'[j], down') \/ In(out'[j], out)
  <2>1. CASE j \in 1 .. Len(out)
    BY <1>2, <2>1 DEF In, Alike
  <2> QED BY <1>2, <1>3, <1>4, <1>5, <2>1
<1>6. Ordered(out')
  <2>1. SUFFICES ASSUME NEW i \in 1 .. Len(out'), NEW j \in 1 .. Len(out'), i < j,
                        out'[i].kind \in Publishes, out'[j].kind \in Publishes
                 PROVE  out'[i].m < out'[j].m
    BY DEF Ordered
  <2>2. i \in 1 .. Len(out) /\ out'[i] = out[i]
    BY <1>2, <1>3, <2>1
  <2>3. CASE j \in 1 .. Len(out)
    BY <1>2, <2>1, <2>2, <2>3 DEF Ordered, TakenInv, OrderInv
  <2>4. CASE j = Len(out) + 1
    <3>1. RecordOk(out[i], next) /\ out[i].kind \in MessageKinds
      BY <1>1, <2>1, <2>2 DEF OutOk, Publishes, MessageKinds
    <3>2. out[i].m \in 1 .. next
      BY <3>1 DEF RecordOk
    <3>3. out'[j].m = next + 1
      BY <1>2, <2>1, <2>4 DEF Publishes, MessageKinds
    <3> QED BY <1>1, <2>2, <3>2, <3>3
  <2> QED BY <1>3, <2>3, <2>4
<1>7. Linked(out', out)
  <2>1. \A j \in 1 .. Len(out) : j \in 1 .. Len(out')
    BY <1>2
  <2> QED BY <1>2, <2>1 DEF Linked, Holds
<1>8. CutShort
  <2>1. Len(up) \in Nat
    BY <1>1
  <2> QED BY <2>1 DEF CutShort
<1>9. HeldInv'
  <2>1. (FreshAhead => FreshAhead') /\ WelcomeFits'
    BY DEF FreshAhead, WelcomeFits, TakenInv, HeldInv
  <2> QED BY <1>7, <1>8, <2>1, LinkedIsHeld DEF TakenInv
<1>10. acked' \subseteq ever
  BY DEF TakenInv, EverInv
<1>11. \A k \in 1 .. Len(down') : \E i \in 1 .. Len(down) : down'[k] = down[i]
  OBVIOUS
<1> QED BY <1>5, <1>6, <1>8, <1>9, <1>10, <1>11, ClientKeepsTaken

LEMMA SubscribeKeepsTaken ==
  ASSUME OutboxInv, OutboxInv', TakenInv, Subscribe
  PROVE  TakenInv'
<1>1. PICK id \in FreeIds : out' = Append(out, Rec("sub", "sub", id, 0))
  BY DEF Subscribe
<1> DEFINE r == Rec("sub", "sub", id, 0)
<1>2. UNCHANGED <<clean, ever, taken, bq2, acked, dropped, up, down, phase>> /\ next' = next
  BY DEF Subscribe, pipes, broker, peer
<1>3. id \in Nat /\ \A j \in 1 .. Len(out) : out[j].id # id
  BY DEF FreeIds, Ids, OutboxInv, Types, OutTypes
<1>4. r \in RecType /\ r.kind = "sub" /\ r.id = id /\ r.kind \notin MessageKinds
  BY <1>3 DEF Rec, RecType, Kinds, KeptKinds, Calls, MessageKinds
<1> HIDE DEF r
<1>5. out' = Append(out, r) /\ next <= next'
  BY <1>1, <1>2, SizesAssumption DEF r, OutboxInv, Types, CallerTypes
<1> QED BY <1>2, <1>3, <1>4, <1>5, JoinKeepsTaken

LEMMA PublishKeepsTaken ==
  ASSUME OutboxInv, OutboxInv', TakenInv, Publish
  PROVE  TakenInv'
<1>1. PICK id \in FreeIds, kind \in {"pub1", "pub2"} : out' = Append(out, Rec(kind, kind, id, next + 1))
  BY DEF Publish
<1> DEFINE r == Rec(kind, kind, id, next + 1)
<1>2. UNCHANGED <<clean, ever, taken, bq2, acked, dropped, up, down, phase>> /\ next' = next + 1 /\ next < Len(Qos)
  BY DEF Publish, pipes, broker, peer
<1>3. id \in Nat /\ \A j \in 1 .. Len(out) : out[j].id # id
  BY DEF FreeIds, Ids, OutboxInv, Types, OutTypes
<1>4. next \in Nat /\ next + 1 \in Messages /\ next <= next'
  BY <1>2, SizesAssumption DEF OutboxInv, Types, CallerTypes, Messages
<1>5. r \in RecType /\ r.kind \in Publishes /\ r.id = id /\ r.m = next + 1 /\ r.sent = "new"
  BY <1>3, <1>4 DEF Rec, RecType, Kinds, KeptKinds, Calls, Publishes
<1> HIDE DEF r
<1>6. out' = Append(out, r)
  BY <1>1 DEF r
<1> QED BY <1>2, <1>3, <1>4, <1>5, <1>6, JoinKeepsTaken

LEMMA OnConnackKeepsTaken ==
  ASSUME OutboxInv, OutboxInv', TakenInv, OnConnack
  PROVE  TakenInv'
<1>1. /\ down \in Seq(DownType) /\ down # <<>> /\ down' = Tail(down) /\ Head(down).pkt = "connack"
      /\ phase \in {"hello", "up"} /\ phase' = "up" /\ out \in Seq(RecType) /\ DOMAIN out = 1 .. Len(out)
  BY DEF OnConnack, Reads, OutboxInv, Types, PipeTypes, OutTypes
<1>2. /\ down' \in Seq(DownType) /\ Len(down') = Len(down) - 1 /\ Head(down) = down[1] /\ Len(down) > 0
      /\ \A i \in 1 .. Len(down') : down'[i] = down[i + 1]
  BY <1>1, TailPicks
<1>3. phase = "hello"
  <2>1. 1 \in 1 .. Len(down) /\ down[1].pkt = "connack"
    BY <1>1, <1>2
  <2> QED BY <1>1, <2>1 DEF OutboxInv, ConnInv, ConnPhase
<1>4. /\ up = <<>> /\ \A k \in 2 .. Len(down) : down[k].pkt \in OurPackets
      /\ UNCHANGED <<clean, up, old, ever, taken, bq2, next, dropped>>
  BY <1>1, <1>3 DEF OutboxInv, ConnInv, ConnPhase, OnConnack, broker, peer
<1>5. CutShort /\ next <= next'
  <2>1. next \in Nat
    BY SizesAssumption DEF OutboxInv, Types, CallerTypes
  <2> QED BY <1>4, <2>1 DEF CutShort
<1>6. \A k \in 1 .. Len(down') : down'[k].pkt \notin Acks
  <2>1. SUFFICES ASSUME NEW k \in 1 .. Len(down') PROVE down'[k].pkt \notin Acks
    OBVIOUS
  <2>2. k + 1 \in 2 .. Len(down) /\ down'[k] = down[k + 1]
    BY <1>2
  <2> QED BY <1>4, <2>2 DEF Acks, OurPackets
<1>7. CASE down[1].m = 1
  <2>1. out' = Rewound(out) /\ acked' = acked
    BY <1>2, <1>7 DEF OnConnack
  <2>2. Partly(out', out) /\ Linked(out', out) /\ \A j \in 1 .. Len(out') : out'[j].sent # "sent"
    BY <1>1, <2>1, RewoundPartly
  <2>3. (FreshAhead => FreshAhead') /\ WelcomeFits'
    BY <1>1, <1>3 DEF FreshAhead, WelcomeFits
  <2>4. HeldInv'
    BY <1>4, <1>5, <2>2, <2>3, LinkedIsHeld DEF TakenInv
  <2>5. acked' \subseteq ever
    BY <2>1 DEF TakenInv, EverInv
  <2>6. Ordered(out') /\ \A j \in 1 .. Len(out') : out'[j].kind \in MessageKinds => In(out'[j], out)
    BY <2>2 DEF Partly, TakenInv, OrderInv
  <2> QED BY <1>4, <1>5, <1>6, <2>2, <2>4, <2>5, <2>6, ClientKeepsTaken
<1>8. CASE down[1].m # 1
  <2>1. /\ out' = Rewound(Settled(out))
        /\ acked' = acked \cup {out[j].m : j \in {k \in DOMAIN out : out[k].kind = "rel"}}
    BY <1>2, <1>8 DEF OnConnack
  <2>2. Settled(out) \in Seq(RecType) /\ Partly(Settled(out), out)
    BY <1>1, SettledPartly
  <2>3. Partly(out', Settled(out)) /\ \A j \in 1 .. Len(out') : out'[j].sent # "sent"
    BY <2>1, <2>2, RewoundPartly
  <2>4. Partly(out', out)
    BY <2>2, <2>3, PartlyOfPart
  <2>5. HeldInv'
    <3>1. bq2 = {}
      BY <1>1, <1>3, <1>8 DEF TakenInv, HeldInv, WelcomeFits
    <3> QED BY <1>1, <1>4, <3>1 DEF HeldInv, KeepsIds, KeepsUp, WelcomeFits
  <2>6. acked' \subseteq ever
    <3>1. \A j \in 1 .. Len(out) : out[j].kind = "rel" => out[j].m \in ever
      BY DEF TakenInv, RecordInv, RecordKnown
    <3> QED BY <1>1, <2>1, <3>1 DEF TakenInv, EverInv
  <2>7. Ordered(out') /\ \A j \in 1 .. Len(out') : out'[j].kind \in MessageKinds => In(out'[j], out)
    BY <2>4 DEF Partly, TakenInv, OrderInv
  <2> QED BY <1>4, <1>5, <1>6, <2>3, <2>5, <2>6, <2>7, ClientKeepsTaken
<1> QED BY <1>7, <1>8

\* What is written is a record that was not sent: it is sent from now on, or it goes.
FlushOf(j) ==
  /\ out[j].sent = "new" /\ (phase = "up" \/ out[j].kind = "connect")
  /\ \A k \in 1 .. j - 1 : out[k].sent # "new"
  /\ Len(up') = Len(up) + 1 /\ \A k \in 1 .. Len(up) : up'[k] = up[k]
  /\ up'[Len(up) + 1] = Packet(out[j].pkt, out[j].id, out[j].m)
  /\ Ordered(out') /\ Linked(out', out)
  /\ \A i \in 1 .. Len(out') : out'[i].kind \in MessageKinds =>
       \E k \in 1 .. Len(out) : Alike(out'[i], out[k]) /\ (out'[i].sent \in {"new", out[k].sent} \/ k = j)

LEMMA FlushIs ==
  ASSUME OutboxInv, TakenInv, Flush
  PROVE  \E j \in 1 .. Len(out) : FlushOf(j)
<1>1. /\ out \in Seq(RecType) /\ OutOk(out, next, acked \cup dropped) /\ DOMAIN out = 1 .. Len(out)
      /\ up \in Seq(UpType)
  BY DEF OutboxInv, Types, OutTypes, OutInv, PipeTypes
<1>2. PICK j \in 1 .. Len(out) :
        /\ ToWrite(j)
        /\ up' = Append(up, Packet(out[j].pkt, out[j].id, out[j].m))
        /\ out' = IF out[j].kind \in KeptKinds THEN [out EXCEPT ![j].sent = "sent"] ELSE RemoveAt(out, j)
  BY <1>1 DEF Flush
<1> DEFINE p == Packet(out[j].pkt, out[j].id, out[j].m)
<1>3. p \in UpType
  <2>1. out[j] \in RecType /\ RecordOk(out[j], next)
    BY <1>1 DEF OutOk
  <2>2. out[j].pkt \in Calls \cup OurAcks \cup {"connect"} /\ out[j].id \in Nat /\ out[j].m \in Nat /\ out[j].kind \in Kinds
    BY <2>1 DEF RecType
  <2>3. out[j].pkt # "connect" => out[j].id \in Ids
    BY <2>1 DEF RecordOk
  <2> QED BY <2>2, <2>3 DEF Packet, UpType
<1> HIDE DEF p
<1>4. Len(up') = Len(up) + 1 /\ up'[Len(up) + 1] = p /\ \A i \in 1 .. Len(up) : up'[i] = up[i]
  BY <1>1, <1>2, <1>3, AppendProperties DEF p
<1>5. Ordered(out)
  BY DEF TakenInv, OrderInv
<1>6. /\ Ordered(out') /\ Linked(out', out)
      /\ \A i \in 1 .. Len(out') : out'[i].kind \in MessageKinds =>
           \E k \in 1 .. Len(out) : Alike(out'[i], out[k]) /\ (out'[i].sent \in {"new", out[k].sent} \/ k = j)
  <2>1. CASE out[j].kind \in KeptKinds
    <3>1. out' = [out EXCEPT ![j].sent = "sent"]
      BY <1>2, <2>1
    <3>2. out[j] \in RecType
      BY <1>1
    <3>3. Len(out') = Len(out) /\ \A i \in 1 .. Len(out) : Alike(out'[i], out[i]) /\ (i # j => out'[i] = out[i])
      BY <1>1, <3>1, <3>2 DEF RecType, Alike
    <3>4. \A i \in 1 .. Len(out') : Alike(out'[i], out[i]) /\ (out'[i].sent \in {"new", out[i].sent} \/ i = j)
      BY <3>3
    <3>5. Ordered(out')
      BY <1>5, <3>3 DEF Ordered, Alike
    <3>6. Linked(out', out)
      BY <3>3 DEF Linked, Holds, Alike
    <3> QED BY <3>3, <3>4, <3>5, <3>6
  <2>2. CASE out[j].kind \notin KeptKinds
    <3>1. out' = RemoveAt(out, j) /\ out[j].kind \notin {"pub2", "rel"}
      BY <1>2, <2>2 DEF KeptKinds
    <3>2. Partly(out', out) /\ Linked(out', out)
      BY <1>1, <3>1, RemovedPartly
    <3> QED BY <1>5, <3>2 DEF Partly, In
  <2> QED BY <2>1, <2>2
<1> QED BY <1>2, <1>4, <1>6, <1>1 DEF FlushOf, ToWrite, p

LEMMA FlushKeepsTaken ==
  ASSUME OutboxInv, OutboxInv', TakenInv, Flush
  PROVE  TakenInv'
<1>1. PICK j \in 1 .. Len(out) : FlushOf(j)
  BY FlushIs
<1> DEFINE r == out[j]
           p == Packet(r.pkt, r.id, r.m)
<1>2. /\ UNCHANGED <<clean, phase, down, ever, taken, bq2, acked, next, dropped>>
      /\ phase \in {"hello", "up"}
  BY DEF Flush, broker, caller, peer
<1>3. /\ OutOk(out, next, acked \cup dropped) /\ next \in Nat /\ up \in Seq(UpType) /\ Len(up) \in Nat
      /\ RecordOk(r, next) /\ r \in RecType /\ r.kind \in Kinds
  <2>1. /\ OutOk(out, next, acked \cup dropped) /\ next \in Nat /\ up \in Seq(UpType) /\ out \in Seq(RecType)
    BY SizesAssumption DEF OutboxInv, Types, OutTypes, PipeTypes, CallerTypes, OutInv
  <2>2. RecordOk(r, next) /\ r \in RecType /\ Len(up) \in Nat
    BY <2>1 DEF OutOk
  <2>3. r.kind \in Kinds
    BY <2>2 DEF RecType
  <2> QED BY <2>1, <2>2, <2>3
<1>4. p.pkt = r.pkt /\ p.id = r.id /\ p.m = r.m
  BY DEF Packet
<1>5. /\ r.sent = "new" /\ (phase = "up" \/ r.kind = "connect")
      /\ \A k \in 1 .. j - 1 : out[k].sent # "new"
      /\ Len(up') = Len(up) + 1 /\ \A k \in 1 .. Len(up) : up'[k] = up[k]
      /\ up'[Len(up) + 1] = p
      /\ Ordered(out') /\ Linked(out', out)
      /\ \A i \in 1 .. Len(out') : out'[i].kind \in MessageKinds =>
           \E k \in 1 .. Len(out) : Alike(out'[i], out[k]) /\ (out'[i].sent \in {"new", out[k].sent} \/ k = j)
  BY <1>1 DEF FlushOf
<1>6. \A k \in 1 .. Len(up') : k \in 1 .. Len(up) \/ k = Len(up) + 1
  BY <1>3, <1>5
<1> HIDE DEF p, r
<1>7. /\ p.pkt \in OurPackets => r.kind \in MessageKinds /\ p.pkt = WireOf[r.kind] /\ phase = "up"
      /\ p.pkt = "pubrel" => r.kind = "rel"
      /\ p.pkt = "pub2" => r.kind = "pub2"
      /\ p.pkt \in Publishes => p.pkt = r.kind
  BY <1>3, <1>4, <1>5 DEF RecordOk, OurPackets, OurAcks, Kinds, KeptKinds, MessageKinds, WireOf, Publishes
<1>8. /\ RecordKnown(r) /\ \A k \in 1 .. Len(up) : PacketFits(up[k], r)
      /\ \A k \in 1 .. Len(out) : k # j => ApartOk(r, out[k])
  BY <1>3 DEF TakenInv, RecordInv, OutOk, r
<1>9. \A k \in 1 .. Len(out) : out[k].kind \in MessageKinds => RecordKnown(out[k]) /\ PacketFits(p, out[k])
  <2>1. SUFFICES ASSUME NEW k \in 1 .. Len(out), out[k].kind \in MessageKinds
                 PROVE  RecordKnown(out[k]) /\ PacketFits(p, out[k])
    OBVIOUS
  <2>2. RecordKnown(out[k])
    BY DEF TakenInv, RecordInv
  <2>3. CASE k = j
    BY <1>4, <1>7, <2>2, <2>3 DEF PacketFits, r
  <2>4. CASE k # j
    <3>1. ApartOk(r, out[k])
      BY <1>8, <2>4
    <3>2. p.pkt \in OurPackets => r.m # 0
      BY <1>3, <1>7 DEF RecordOk
    <3>3. p.pkt \in OurPackets => p.m # out[k].m
      BY <1>4, <3>1, <3>2 DEF ApartOk
    <3>4. p.pkt = "pubrel" => p.id # out[k].id
      BY <1>4, <1>7, <2>1, <3>1 DEF ApartOk, MessageKinds, KeptKinds
    <3> QED BY <2>2, <3>3, <3>4 DEF PacketFits
  <2> QED BY <2>2, <2>3, <2>4
<1>10. PacketOk(p)
  <2>1. p.pkt \in OurPackets => p.m \in 1 .. next /\ Qos[p.m] = IF p.pkt = "pub1" THEN 1 ELSE 2
    BY <1>3, <1>4, <1>7 DEF RecordOk, MessageKinds, WireOf
  <2>2. p.pkt = "pubrel" => p.m \in ever
    BY <1>4, <1>7, <1>8 DEF RecordKnown
  <2>3. ASSUME p.pkt = "pub2", p.id \in bq2 PROVE p.m \in ever
    <3>1. phase = "up" /\ r.kind = "pub2"
      BY <1>7, <2>3 DEF OurPackets
    <3>2. PICK m \in ever : Holds(out, p.id, m)
      BY <2>3, <3>1 DEF TakenInv, HeldInv, KeepsIds, FreshAhead
    <3>3. PICK k \in 1 .. Len(out) : out[k].kind \in {"pub2", "rel"} /\ out[k].id = p.id /\ out[k].m = m
      BY <3>2 DEF Holds
    <3>4. k = j
      BY <1>4, <1>8, <3>1, <3>3 DEF ApartOk, KeptKinds
    <3> QED BY <1>4, <3>2, <3>3, <3>4 DEF r
  <2>4. p.pkt = "pub2" /\ taken[p.m] >= 1 => p.id \in bq2
    BY <1>4, <1>7, <1>8 DEF RecordKnown
  <2> QED BY <2>1, <2>2, <2>3, <2>4 DEF PacketOk
<1>11. EverInv'
  BY <1>2 DEF TakenInv, EverInv, TakenOnce
<1>12. PacketInv'
  <2>1. ASSUME NEW k \in 1 .. Len(up') PROVE PacketOk(up[k])'
    <3>1. PacketOk(up'[k])
      BY <1>5, <1>6, <1>10, <2>1 DEF TakenInv, PacketInv
    <3> QED BY <1>2, <3>1 DEF PacketOk
  <2>2. ASSUME p.pkt \in OurPackets, NEW k \in 1 .. Len(up), up[k].pkt \in OurPackets PROVE up[k].m # p.m
    <3>1. phase = "up" /\ r.kind \in MessageKinds /\ r.m \in 1 .. next
      BY <1>3, <1>7, <2>2 DEF RecordOk
    <3>2. SentCall(out, up[k])
      BY <2>2, <3>1 DEF OutboxInv, FlightInv, FlightSent, OurPackets, Calls
    <3>3. PICK i \in 1 .. Len(out) : out[i].sent = "sent" /\ out[i].m = up[k].m
      BY <3>2 DEF SentCall
    <3>4. i # j
      BY <1>5, <3>3 DEF r
    <3> QED BY <1>3, <1>4, <1>8, <3>1, <3>3, <3>4 DEF ApartOk
  <2>3. ASSUME NEW i \in 1 .. Len(up'), NEW k \in 1 .. Len(up'), i # k,
               up'[i].pkt \in OurPackets, up'[k].pkt \in OurPackets
        PROVE  up'[i].m # up'[k].m
    <3>1. CASE i \in 1 .. Len(up) /\ k \in 1 .. Len(up)
      BY <1>5, <2>3, <3>1 DEF TakenInv, PacketInv
    <3>2. CASE i \in 1 .. Len(up) /\ k = Len(up) + 1
      BY <1>5, <2>2, <2>3, <3>2
    <3>3. CASE i = Len(up) + 1 /\ k \in 1 .. Len(up)
      BY <1>5, <2>2, <2>3, <3>3
    <3> QED BY <1>6, <2>3, <3>1, <3>2, <3>3
  <2> QED BY <2>1, <2>3 DEF PacketInv
<1>13. RecordInv'
  <2>1. SUFFICES ASSUME NEW i \in 1 .. Len(out'), out'[i].kind \in MessageKinds
                 PROVE  RecordKnown(out[i])' /\ \A k \in 1 .. Len(up') : PacketFits(up[k], out[i])'
    BY DEF RecordInv, RecordKnown, PacketFits, MessageKinds
  <2>2. PICK l \in 1 .. Len(out) : Alike(out'[i], out[l])
    BY <1>5, <2>1
  <2>3. out[l].kind \in MessageKinds
    BY <2>1, <2>2 DEF Alike
  <2>4. RecordKnown(out[l]) /\ PacketFits(p, out[l]) /\ \A k \in 1 .. Len(up) : PacketFits(up[k], out[l])
    BY <1>9, <2>3 DEF TakenInv, RecordInv
  <2>5. RecordKnown(out[i])'
    BY <1>2, <2>2, <2>4 DEF RecordKnown, Alike
  <2>6. ASSUME NEW k \in 1 .. Len(up') PROVE PacketFits(up[k], out[i])'
    <3>1. PacketFits(up'[k], out[l])
      BY <1>5, <1>6, <2>4, <2>6
    <3> QED BY <1>2, <2>2, <3>1 DEF PacketFits, Alike
  <2> QED BY <2>5, <2>6
<1>14. AckInv'
  <2>1. SUFFICES ASSUME phase = "up", NEW k \in 1 .. Len(down), NEW i \in 1 .. Len(out'), out'[i].kind \in MessageKinds
                 PROVE  AckFits(down[k], out[i])'
    BY <1>2 DEF TakenInv, AckInv, AckFits
  <2>2. PICK l \in 1 .. Len(out) : Alike(out'[i], out[l])
    BY <1>5, <2>1
  <2>3. AckFits(down[k], out[l])
    BY <2>1 DEF TakenInv, AckInv
  <2> QED BY <1>2, <2>2, <2>3 DEF AckFits, Alike
<1>15. ASSUME NEW x, NEW m, Holds(out, x, m) PROVE Holds(out', x, m)
  <2>1. PICK i \in 1 .. Len(out) : out[i].kind \in {"pub2", "rel"} /\ out[i].id = x /\ out[i].m = m
    BY <1>15 DEF Holds
  <2> QED BY <1>5, <2>1 DEF Linked
<1>16. HeldInv'
  <2>1. KeepsIds'
    <3>1. SUFFICES ASSUME ~FreshAhead, NEW x \in bq2 PROVE \E m \in ever : Holds(out', x, m)
      BY <1>2 DEF KeepsIds, FreshAhead
    <3>2. PICK m \in ever : Holds(out, x, m)
      BY <3>1 DEF TakenInv, HeldInv, KeepsIds
    <3> QED BY <1>15, <3>2
  <2>2. KeepsUp'
    <3>1. SUFFICES ASSUME ~clean, NEW k \in 1 .. Len(up'), up'[k].pkt \in {"pub2", "pubrel"}
                   PROVE  Holds(out', up'[k].id, up'[k].m)
      BY <1>2 DEF KeepsUp
    <3>2. Holds(out, up'[k].id, up'[k].m)
      <4>1. CASE k \in 1 .. Len(up)
        BY <1>5, <3>1, <4>1 DEF TakenInv, HeldInv, KeepsUp
      <4>2. CASE k = Len(up) + 1
        BY <1>4, <1>5, <1>7, <3>1, <4>2 DEF Holds, r
      <4> QED BY <1>6, <4>1, <4>2
    <3> QED BY <1>15, <3>2
  <2>3. WelcomeFits'
    BY <1>2 DEF TakenInv, HeldInv, WelcomeFits
  <2> QED BY <2>1, <2>2, <2>3 DEF HeldInv
<1>17. OrderSent'
  <2>1. SUFFICES ASSUME phase = "up", NEW i \in 1 .. Len(out'), out'[i].kind \in Publishes,
                        out'[i].sent = "sent", out'[i].m \notin ever
                 PROVE  \E k \in 1 .. Len(up') : up'[k].pkt \in Publishes /\ up'[k].m = out'[i].m
    BY <1>2 DEF OrderSent
  <2>2. PICK l \in 1 .. Len(out) : Alike(out'[i], out[l]) /\ (out[l].sent = "sent" \/ l = j)
    BY <1>5, <2>1 DEF Publishes, MessageKinds
  <2>3. CASE l = j
    <3>1. p.pkt \in Publishes /\ p.m = out'[i].m
      <4>1. r.kind \in Publishes /\ r.m = out'[i].m
        BY <2>1, <2>2, <2>3 DEF Alike, r
      <4> QED BY <1>3, <1>4, <4>1 DEF RecordOk, Publishes, KeptKinds, WireOf
    <3>2. Len(up) + 1 \in 1 .. Len(up')
      BY <1>3, <1>5
    <3> QED BY <1>5, <3>1, <3>2
  <2>4. CASE l # j
    <3>1. PICK k \in 1 .. Len(up) : up[k].pkt \in Publishes /\ up[k].m = out'[i].m
      BY <2>1, <2>2, <2>4 DEF TakenInv, OrderInv, OrderSent, Alike
    <3>2. k \in 1 .. Len(up')
      BY <1>3, <1>5
    <3> QED BY <1>5, <3>1, <3>2
  <2> QED BY <2>3, <2>4
<1>18. ASSUME p.pkt \in Publishes, NEW m \in 1 .. p.m - 1
       PROVE  m \in ever \cup dropped \/ \E i \in 1 .. Len(up) : up[i].pkt \in Publishes /\ up[i].m = m
  <2>1. phase = "up" /\ r.kind \in Publishes /\ r.m = p.m /\ r.m \in 1 .. next
    BY <1>3, <1>4, <1>7, <1>18 DEF RecordOk, Publishes, OurPackets, MessageKinds
  <2>2. m \in 1 .. next /\ m < r.m
    BY <1>3, <1>18, <2>1
  <2>3. CASE m \in acked \cup dropped
    BY <2>3 DEF TakenInv, EverInv
  <2>4. CASE m \notin acked \cup dropped
    <3>1. PICK i \in 1 .. Len(out) : out[i].m = m
      BY <1>3, <2>2, <2>4 DEF OutOk
    <3>2. out[i].kind \in MessageKinds /\ RecordOk(out[i], next) /\ RecordKnown(out[i])
      BY <1>3, <2>2, <3>1 DEF OutOk, RecordOk, TakenInv, RecordInv
    <3>3. CASE out[i].kind = "rel"
      BY <3>1, <3>2, <3>3 DEF RecordKnown
    <3>4. CASE out[i].kind \in Publishes
      <4>0. j < i => out[j].m < out[i].m
        BY <2>1, <3>4 DEF TakenInv, OrderInv, Ordered, r
      <4>1. ~(j < i) /\ i # j
        <5>1. m \in Nat /\ r.m \in Nat /\ out[j].m = r.m
          BY <1>3, <2>1, <2>2 DEF r
        <5> QED BY <2>2, <3>1, <4>0, <5>1
      <4>2. i \in 1 .. j - 1
        BY <4>1
      <4>3. out[i].sent = "sent"
        <5>1. out[i].sent \in {"new", "sent", "lost"}
          <6>1. out[i] \in RecType
            BY DEF OutboxInv, Types, OutTypes
          <6> QED BY <6>1 DEF RecType
        <5>2. out[i].sent # "new"
          BY <1>5, <4>2
        <5> QED BY <3>2, <3>4, <5>1, <5>2 DEF RecordOk, Publishes
      <4> QED BY <2>1, <3>1, <3>4, <4>3 DEF TakenInv, OrderInv, OrderSent
    <3> QED BY <3>2, <3>3, <3>4 DEF MessageKinds, Publishes
  <2> QED BY <2>3, <2>4
<1>19. OrderUp'
  <2>1. SUFFICES ASSUME NEW k \in 1 .. Len(up'), up'[k].pkt \in Publishes, up'[k].m \notin ever,
                        NEW m \in 1 .. up'[k].m - 1
                 PROVE  m \in ever \cup dropped \/ \E i \in 1 .. k - 1 : up'[i].pkt \in Publishes /\ up'[i].m = m
    BY <1>2 DEF OrderUp
  <2>2. m \in ever \cup dropped \/ \E i \in 1 .. k - 1 : up[i].pkt \in Publishes /\ up[i].m = m
    <3>1. CASE k \in 1 .. Len(up)
      BY <1>5, <2>1, <3>1 DEF TakenInv, OrderInv, OrderUp
    <3>2. CASE k = Len(up) + 1
      <4>1. k - 1 = Len(up) /\ up'[k] = p
        BY <1>3, <1>5, <3>2
      <4> QED BY <1>18, <2>1, <4>1
    <3> QED BY <1>6, <3>1, <3>2
  <2>3. ASSUME NEW i \in 1 .. k - 1 PROVE up'[i] = up[i]
    <3>1. i \in 1 .. Len(up)
      BY <1>3, <1>5, <2>1
    <3> QED BY <1>5, <3>1
  <2> QED BY <2>2, <2>3
<1>20. OrderInv'
  BY <1>5, <1>17, <1>19 DEF OrderInv
<1> QED BY <1>11, <1>12, <1>13, <1>14, <1>16, <1>20 DEF TakenInv

----------------------------------------------------------------------------
(* Taken once and in order: the steps of the broker                        *)

\* What is left is behind what was read.
LEMMA TailIs ==
  ASSUME OutboxInv, NEW pkts, Takes(pkts)
  PROVE  /\ Len(up) \in Nat /\ Len(up) > 0 /\ 1 \in 1 .. Len(up) /\ up[1] \in UpType /\ up[1].pkt \in pkts
         /\ Len(up') = Len(up) - 1
         /\ \A i \in 1 .. Len(up') : i + 1 \in 1 .. Len(up) /\ i + 1 # 1 /\ up'[i] = up[i + 1]
         /\ \A i \in 1 .. Len(up) : i # 1 => i - 1 \in 1 .. Len(up') /\ up'[i - 1] = up[i]
<1>1. /\ up \in Seq(UpType) /\ Len(up) > 0 /\ up[1] \in UpType /\ up[1].pkt \in pkts
      /\ Len(up') = Len(up) - 1
  BY BrokerReads
<1>2. \A i \in 1 .. Len(up') : i + 1 \in 1 .. Len(up) /\ up'[i] = up[i + 1]
  BY BrokerReads
<1>3. Len(up) \in Nat
  BY <1>1
<1>4. \A i \in 1 .. Len(up) : i # 1 => i - 1 \in 1 .. Len(up') /\ (i - 1) + 1 = i
  BY <1>1, <1>3
<1>5. \A i \in 1 .. Len(up) : i # 1 => up'[i - 1] = up[i]
  BY <1>2, <1>4
<1> QED BY <1>1, <1>2, <1>3, <1>4, <1>5

LEMMA TailKeepsOrder ==
  ASSUME OutboxInv, TakenInv, NEW pkts, Takes(pkts), up[1].pkt \in Publishes => up[1].m \in ever',
         ever \subseteq ever', UNCHANGED <<out, phase, dropped>>
  PROVE  OrderInv'
<1>1. /\ Len(up) \in Nat /\ 1 \in 1 .. Len(up) /\ Len(up') = Len(up) - 1
      /\ \A i \in 1 .. Len(up') : i + 1 \in 1 .. Len(up) /\ i + 1 # 1 /\ up'[i] = up[i + 1]
  BY TailIs
<1>2. \A i \in 1 .. Len(up) : i # 1 => i - 1 \in 1 .. Len(up') /\ up'[i - 1] = up[i]
  BY TailIs
<1>3. OrderSent'
  <2>1. SUFFICES ASSUME phase = "up", NEW j \in 1 .. Len(out), out[j].kind \in Publishes,
                        out[j].sent = "sent", out[j].m \notin ever'
                 PROVE  \E k \in 1 .. Len(up') : up'[k].pkt \in Publishes /\ up'[k].m = out[j].m
    BY DEF OrderSent
  <2>2. PICK k \in 1 .. Len(up) : up[k].pkt \in Publishes /\ up[k].m = out[j].m
    BY <2>1 DEF TakenInv, OrderInv, OrderSent
  <2>3. k # 1
    BY <2>1, <2>2
  <2> QED BY <1>2, <2>2, <2>3
<1>4. OrderUp'
  <2>1. SUFFICES ASSUME NEW k \in 1 .. Len(up'), up'[k].pkt \in Publishes, up'[k].m \notin ever',
                        NEW m \in 1 .. up'[k].m - 1, m \notin ever' \cup dropped
                 PROVE  \E i \in 1 .. k - 1 : up'[i].pkt \in Publishes /\ up'[i].m = m
    BY DEF OrderUp
  <2>2. k + 1 \in 1 .. Len(up) /\ up'[k] = up[k + 1]
    BY <1>1
  <2>3. \E i \in 1 .. (k + 1) - 1 : up[i].pkt \in Publishes /\ up[i].m = m
    BY <2>1, <2>2 DEF TakenInv, OrderInv, OrderUp
  <2>4. PICK i \in 1 .. k : up[i].pkt \in Publishes /\ up[i].m = m
    BY <2>3
  <2>5. i # 1
    BY <2>1, <2>4
  <2>6. i \in 1 .. Len(up) /\ i - 1 \in 1 .. k - 1
    BY <2>2, <2>5
  <2> QED BY <1>2, <2>4, <2>5, <2>6
<1> QED BY <1>3, <1>4 DEF TakenInv, OrderInv

\* An answer to anything but a CONNECT meets no handshake.
LEMMA QuietHello ==
  ASSUME OutboxInv, NEW pkts \in SUBSET (Calls \cup OurAcks), Takes(pkts), NEW q,
         down' = down \/ (old = 0 /\ down' = Append(down, q)), UNCHANGED <<clean, phase>>
  PROVE  (FreshAhead' <=> FreshAhead) /\ WelcomeFits'
<1>1. Len(up) > 0 /\ Len(up) \in Nat /\ up[1].pkt # "connect"
  BY TailIs DEF Calls, OurAcks
<1>2. ASSUME phase = "hello" PROVE down = <<>> /\ down' = <<>>
  <2>1. down = <<>>
    BY <1>1, <1>2 DEF OutboxInv, ConnInv, ConnPhase
  <2>2. old # 0
    <3>1. old \in Nat
      BY DEF OutboxInv, Types, PipeTypes
    <3> QED BY <1>1, <1>2, <2>1, <3>1 DEF OutboxInv, ConnInv, ConnPhase
  <2> QED BY <2>1, <2>2
<1> QED BY <1>2 DEF FreshAhead, WelcomeFits

LEMMA DownGrows ==
  ASSUME OutboxInv, NEW q \in DownType, down' = down \/ (old = 0 /\ down' = Append(down, q))
  PROVE  \A k \in 1 .. Len(down') : (k \in 1 .. Len(down) /\ down'[k] = down[k]) \/ down'[k] = q
<1>1. down \in Seq(DownType)
  BY DEF OutboxInv, Types, PipeTypes
<1>2. CASE down' = Append(down, q)
  <2>1. Len(down') = Len(down) + 1 /\ down'[Len(down) + 1] = q /\ \A k \in 1 .. Len(down) : down'[k] = down[k]
    BY <1>1, <1>2, AppendProperties
  <2>2. Len(down) \in Nat
    BY <1>1
  <2>3. \A k \in 1 .. Len(down') : k \in 1 .. Len(down) \/ k = Len(down) + 1
    BY <2>1, <2>2
  <2> QED BY <2>1, <2>3
<1> QED BY <1>2

LEMMA MessageOf ==
  ASSUME OutboxInv, NEW j \in 1 .. Len(out), out[j].kind \in MessageKinds
  PROVE  out[j].m \in Messages /\ out[j].m \in 1 .. next
<1>1. RecordOk(out[j], next)
  BY DEF OutboxInv, OutInv, OutOk
<1>2. out[j].m \in 1 .. next
  BY <1>1 DEF RecordOk
<1>3. next \in 0 .. Len(Qos) /\ Len(Qos) \in Nat
  BY SizesAssumption DEF OutboxInv, Types, CallerTypes
<1> QED BY <1>2, <1>3 DEF Messages

\* A packet that is no PUBLISH takes nothing.
LEMMA TailKeepsTaken ==
  ASSUME OutboxInv, OutboxInv', TakenInv, NEW pkts \in SUBSET (Calls \cup OurAcks), Takes(pkts),
         up[1].pkt \notin Publishes, NEW q \in DownType,
         down' = down \/ (old = 0 /\ down' = Append(down, q)),
         q.pkt \notin {"puback", "pubrec"}, q.pkt = "pubcomp" => q.id \notin bq2',
         bq2' = bq2 \/ (up[1].pkt = "pubrel" /\ bq2' = bq2 \ {up[1].id}),
         UNCHANGED <<clean, out, phase, acked, dropped, next, ever, taken>>
  PROVE  TakenInv'
<1>1. /\ Len(up) \in Nat /\ 1 \in 1 .. Len(up) /\ Len(up') = Len(up) - 1
      /\ \A i \in 1 .. Len(up') : i + 1 \in 1 .. Len(up) /\ i + 1 # 1 /\ up'[i] = up[i + 1]
  BY TailIs
<1>2. OrderInv'
  BY TailKeepsOrder
<1>3. EverInv'
  BY DEF TakenInv, EverInv, TakenOnce
<1>4. PacketInv'
  <2>1. ASSUME NEW k \in 1 .. Len(up') PROVE PacketOk(up[k])'
    <3>1. PacketOk(up[k + 1]) /\ up'[k] = up[k + 1] /\ k + 1 \in 1 .. Len(up) /\ k + 1 # 1
      BY <1>1 DEF TakenInv, PacketInv
    <3>2. up[1].pkt = "pubrel" /\ up[k + 1].pkt = "pub2" => up[k + 1].id # up[1].id
      BY <1>1, <3>1 DEF OutboxInv, FlightInv, FlightUp, Calls
    <3> QED BY <3>1, <3>2 DEF PacketOk
  <2>2. ASSUME NEW i \in 1 .. Len(up'), NEW k \in 1 .. Len(up'), i # k,
               up'[i].pkt \in OurPackets, up'[k].pkt \in OurPackets
        PROVE  up'[i].m # up'[k].m
    <3>1. i + 1 # k + 1
      BY <2>2
    <3> QED BY <1>1, <2>2, <3>1 DEF TakenInv, PacketInv
  <2> QED BY <2>1, <2>2 DEF PacketInv
<1>5. RecordInv'
  <2>1. ASSUME NEW j \in 1 .. Len(out) PROVE RecordKnown(out[j])'
    <3>1. RecordKnown(out[j]) /\ PacketFits(up[1], out[j])
      BY <1>1 DEF TakenInv, RecordInv
    <3>2. out[j].kind = "pub2" => out[j].m \in Messages /\ out[j].kind \in MessageKinds
      BY MessageOf DEF MessageKinds
    <3>3. out[j].kind = "pub2" /\ taken[out[j].m] >= 1 => out[j].m \in ever
      BY <3>2 DEF TakenInv, EverInv
    <3>4. out[j].kind = "pub2" /\ taken[out[j].m] >= 1 => out[j].id \in bq2'
      BY <3>1, <3>2, <3>3 DEF RecordKnown, PacketFits
    <3> QED BY <3>1, <3>4 DEF RecordKnown
  <2>2. ASSUME NEW k \in 1 .. Len(up'), NEW j \in 1 .. Len(out) PROVE PacketFits(up[k], out[j])'
    <3>1. PacketFits(up[k + 1], out[j]) /\ up'[k] = up[k + 1]
      BY <1>1 DEF TakenInv, RecordInv
    <3> QED BY <3>1 DEF PacketFits
  <2> QED BY <2>1, <2>2 DEF RecordInv
<1>6. AckInv'
  <2>1. SUFFICES ASSUME phase = "up", NEW k \in 1 .. Len(down')
                 PROVE  /\ \A j \in 1 .. Len(out) : AckFits(down[k], out[j])'
                        /\ down'[k].pkt = "pubcomp" => down'[k].id \notin bq2'
    BY DEF AckInv
  <2>2. (k \in 1 .. Len(down) /\ down'[k] = down[k]) \/ down'[k] = q
    BY DownGrows
  <2>3. CASE down'[k] = q
    BY <2>3 DEF AckFits
  <2>4. CASE k \in 1 .. Len(down) /\ down'[k] = down[k]
    <3>1. \A j \in 1 .. Len(out) : AckFits(down[k], out[j])
      BY <2>1, <2>4 DEF TakenInv, AckInv
    <3>2. down[k].pkt = "pubcomp" => down[k].id \notin bq2
      BY <2>1, <2>4 DEF TakenInv, AckInv
    <3> QED BY <2>4, <3>1, <3>2 DEF AckFits
  <2> QED BY <2>2, <2>3, <2>4
<1>7. HeldInv'
  <2>1. (FreshAhead' <=> FreshAhead) /\ WelcomeFits'
    BY QuietHello
  <2>2. KeepsIds'
    BY <2>1 DEF TakenInv, HeldInv, KeepsIds
  <2>3. KeepsUp'
    BY <1>1 DEF TakenInv, HeldInv, KeepsUp
  <2> QED BY <2>1, <2>2, <2>3 DEF HeldInv
<1> QED BY <1>2, <1>3, <1>4, <1>5, <1>6, <1>7 DEF TakenInv

LEMMA OneAnswer ==
  ASSUME OutboxInv, NEW q \in DownType, Answers(<<q>>)
  PROVE  down' = down \/ (old = 0 /\ down' = Append(down, q))
<1>1. down \in Seq(DownType) /\ old \in Nat
  BY DEF OutboxInv, Types, PipeTypes
<1>2. down \o <<q>> = Append(down, q)
  BY <1>1
<1> QED BY <1>1, <1>2 DEF Answers

LEMMA BrokerReleasesKeepsTaken ==
  ASSUME OutboxInv, OutboxInv', TakenInv, BrokerReleases
  PROVE  TakenInv'
<1> DEFINE q == Packet("pubcomp", up[1].id, 0)
<1>1. Takes({"pubrel"}) /\ {"pubrel"} \in SUBSET (Calls \cup OurAcks)
  BY DEF BrokerReleases, Calls
<1>2. Head(up) = up[1] /\ up[1] \in UpType /\ up[1].pkt = "pubrel"
  BY <1>1, BrokerReads
<1>3. up[1].pkt \notin Publishes
  BY <1>2 DEF Publishes
<1>4. up[1].id \in Ids /\ up[1].id \in Nat
  BY <1>2 DEF UpType, Ids
<1>5. q.pkt = "pubcomp" /\ q.id = up[1].id /\ q \in DownType
  BY <1>4 DEF Packet, DownType, Acks
<1>6. /\ bq2' = bq2 \ {up[1].id} /\ Answers(<<q>>)
      /\ UNCHANGED <<clean, out, phase, acked, dropped, next, ever, taken>>
  BY <1>2 DEF BrokerReleases, client, caller, peer
<1> HIDE DEF q
<1>7. down' = down \/ (old = 0 /\ down' = Append(down, q))
  BY <1>5, <1>6, OneAnswer
<1>8. q.pkt \notin {"puback", "pubrec"} /\ q.id \notin bq2'
  BY <1>5, <1>6
<1> QED BY <1>1, <1>2, <1>3, <1>5, <1>6, <1>7, <1>8, TailKeepsTaken

LEMMA BrokerSubscribesKeepsTaken ==
  ASSUME OutboxInv, OutboxInv', TakenInv, BrokerSubscribes
  PROVE  TakenInv'
<1> DEFINE q == Packet("suback", up[1].id, 0)
<1>1. Takes({"sub"}) /\ {"sub"} \in SUBSET (Calls \cup OurAcks)
  BY DEF BrokerSubscribes, Calls
<1>2. Head(up) = up[1] /\ up[1] \in UpType /\ up[1].pkt = "sub"
  BY <1>1, BrokerReads
<1>3. up[1].pkt \notin Publishes
  BY <1>2 DEF Publishes
<1>4. up[1].id \in Ids /\ up[1].id \in Nat
  BY <1>2 DEF UpType, Ids
<1>5. q.pkt = "suback" /\ q \in DownType
  BY <1>4 DEF Packet, DownType, Acks
<1>6. Answers(<<q>>) /\ UNCHANGED <<clean, out, phase, bq2, acked, dropped, next, ever, taken>>
  BY <1>2 DEF BrokerSubscribes, client, broker, caller, peer
<1> HIDE DEF q
<1>7. down' = down \/ (old = 0 /\ down' = Append(down, q))
  BY <1>5, <1>6, OneAnswer
<1>8. q.pkt \notin {"puback", "pubrec", "pubcomp"}
  BY <1>5
<1> QED BY <1>1, <1>3, <1>5, <1>6, <1>7, <1>8, TailKeepsTaken

LEMMA BrokerIsAckedKeepsTaken ==
  ASSUME OutboxInv, OutboxInv', TakenInv, BrokerIsAcked
  PROVE  TakenInv'
<1> DEFINE q == Packet("pubrel", up[1].id, 0)
           pkts == {"puback", "pubrec", "pubcomp"}
<1>1. Takes(pkts) /\ pkts \in SUBSET (Calls \cup OurAcks)
  BY DEF BrokerIsAcked, OurAcks
<1>2. Head(up) = up[1] /\ up[1] \in UpType /\ up[1].pkt \in pkts
  BY <1>1, BrokerReads
<1>3. up[1].pkt \notin Publishes
  BY <1>2 DEF Publishes
<1>4. up[1].id \in Ids /\ up[1].id \in Nat
  BY <1>2 DEF UpType, Ids
<1>5. q.pkt = "pubrel" /\ q \in DownType
  BY <1>4 DEF Packet, DownType, OurPackets
<1>6. /\ down' = down \/ Answers(<<q>>)
      /\ UNCHANGED <<clean, out, phase, bq2, acked, dropped, next, ever, taken>>
  BY <1>2 DEF BrokerIsAcked, client, caller
<1> HIDE DEF q, pkts
<1>7. down' = down \/ (old = 0 /\ down' = Append(down, q))
  BY <1>5, <1>6, OneAnswer
<1>8. q.pkt \notin {"puback", "pubrec", "pubcomp"}
  BY <1>5
<1> QED BY <1>1, <1>3, <1>5, <1>6, <1>7, <1>8, TailKeepsTaken

LEMMA BrokerForgetsKeepsTaken ==
  ASSUME OutboxInv, OutboxInv', TakenInv, BrokerForgets
  PROVE  TakenInv'
<1>1. /\ phase \in {"idle", "dial"} /\ bq2' = {} /\ taken' = [m \in Messages |-> 0]
      /\ up' = <<>> /\ UNCHANGED <<clean, out, phase, down, acked, dropped, next, ever>>
  BY DEF BrokerForgets, FreshSession, client, caller
<1>2. Len(up') = 0 /\ phase # "up" /\ phase # "hello"
  BY <1>1
<1>3. EverInv'
  BY <1>1 DEF TakenInv, EverInv, TakenOnce
<1>4. PacketInv'
  BY <1>2 DEF PacketInv
<1>5. RecordInv'
  <2>1. ASSUME NEW j \in 1 .. Len(out) PROVE RecordKnown(out[j])'
    <3>1. RecordKnown(out[j])
      BY DEF TakenInv, RecordInv
    <3>2. out[j].kind = "pub2" => out[j].m \in Messages
      BY MessageOf DEF MessageKinds
    <3> QED BY <1>1, <3>1, <3>2 DEF RecordKnown
  <2> QED BY <1>1, <1>2, <2>1 DEF RecordInv
<1>6. AckInv' /\ HeldInv'
  BY <1>1, <1>2 DEF AckInv, HeldInv, KeepsIds, KeepsUp, WelcomeFits
<1>7. OrderInv'
  BY <1>1, <1>2 DEF TakenInv, OrderInv, OrderSent, OrderUp
<1> QED BY <1>3, <1>4, <1>5, <1>6, <1>7 DEF TakenInv

LEMMA BrokerSendsKeepsTaken ==
  ASSUME OutboxInv, OutboxInv', TakenInv, BrokerSends
  PROVE  TakenInv'
<1>1. PICK p \in DownType : p.pkt \in Publishes /\ down' = Append(down, p)
  <2> DEFINE i == Len(given) + 1
  <2>1. PICK qos \in InQos[i], id \in Ids : down' = Append(down, Packet(IF qos = 1 THEN "pub1" ELSE "pub2", id, i))
    BY DEF BrokerSends
  <2>2. given \in Seq({1, 2}) /\ i \in Nat /\ id \in Nat
    BY DEF OutboxInv, Types, PeerTypes, Ids
  <2>3. Packet(IF qos = 1 THEN "pub1" ELSE "pub2", id, i) \in DownType
    BY <2>2 DEF Packet, DownType, OurPackets
  <2>4. Packet(IF qos = 1 THEN "pub1" ELSE "pub2", id, i).pkt \in Publishes
    BY DEF Packet, Publishes
  <2> QED BY <2>1, <2>3, <2>4
<1>2. UNCHANGED <<clean, out, phase, up, bq2, acked, dropped, next, ever, taken>>
  BY DEF BrokerSends, client, caller
<1>3. /\ down \in Seq(DownType) /\ Len(down') = Len(down) + 1 /\ down'[Len(down) + 1] = p /\ Len(down) \in Nat
      /\ \A k \in 1 .. Len(down) : down'[k] = down[k]
  BY <1>1, AppendProperties DEF OutboxInv, Types, PipeTypes
<1>4. \A k \in 1 .. Len(down') : (k \in 1 .. Len(down) /\ down'[k] = down[k]) \/ down'[k] = p
  BY <1>3
<1>5. phase = "up" \/ (phase = "hello" /\ down # <<>>)
  <2>1. Welcomed /\ phase \in {"idle", "dial", "hello", "up"}
    BY DEF BrokerSends, OutboxInv, Types, ClientTypes
  <2>2. down = <<>> => ~\E j \in DOMAIN down : down[j].pkt = "connack"
    OBVIOUS
  <2> QED BY <2>1, <2>2 DEF Welcomed, OutboxInv, ConnInv, ConnPhase
<1>6. down' # <<>> /\ (down # <<>> => down'[1] = down[1])
  BY <1>3, EmptySeq
<1>7. EverInv' /\ PacketInv' /\ RecordInv' /\ OrderInv'
  <2>1. EverInv'
    BY <1>2 DEF TakenInv, EverInv, TakenOnce
  <2>2. PacketInv'
    BY <1>2 DEF TakenInv, PacketInv, PacketOk
  <2>3. RecordInv'
    BY <1>2 DEF TakenInv, RecordInv, RecordKnown, PacketFits
  <2>4. OrderInv'
    BY <1>2 DEF TakenInv, OrderInv, OrderSent, OrderUp
  <2> QED BY <2>1, <2>2, <2>3, <2>4
<1>8. AckInv'
  BY <1>1, <1>2, <1>4 DEF TakenInv, AckInv, AckFits, Publishes
<1>9. HeldInv'
  BY <1>2, <1>5, <1>6 DEF TakenInv, HeldInv, KeepsIds, KeepsUp, WelcomeFits, FreshAhead
<1> QED BY <1>7, <1>8, <1>9 DEF TakenInv

\* A record of a packet on its way in an open connection is the only one under its id.
LEMMA SentIsOne ==
  ASSUME OutboxInv, phase = "up", NEW k \in 1 .. Len(up), up[k].pkt \in Publishes
  PROVE  \E i \in 1 .. Len(out) :
           /\ out[i].kind = up[k].pkt /\ out[i].id = up[k].id /\ out[i].m = up[k].m
           /\ \A j \in 1 .. Len(out) : out[j].kind \in MessageKinds /\ out[j].id = up[k].id => j = i
<1>1. SentCall(out, up[k])
  BY DEF OutboxInv, FlightInv, FlightSent, Publishes, Calls
<1>2. PICK i \in 1 .. Len(out) :
        out[i].sent = "sent" /\ out[i].pkt = up[k].pkt /\ out[i].id = up[k].id /\ out[i].m = up[k].m
  BY <1>1 DEF SentCall
<1>3. RecordOk(out[i], next) /\ out[i].kind \in KeptKinds
  BY <1>2 DEF OutboxInv, OutInv, OutOk, RecordOk
<1>4. out[i].kind = up[k].pkt
  BY <1>2, <1>3 DEF RecordOk, KeptKinds, WireOf, Publishes
<1>5. ASSUME NEW j \in 1 .. Len(out), out[j].kind \in MessageKinds, out[j].id = up[k].id PROVE j = i
  <2>1. i # j => ApartOk(out[i], out[j])
    BY DEF OutboxInv, OutInv, OutOk
  <2> QED BY <1>2, <1>3, <1>5, <2>1 DEF ApartOk, MessageKinds, KeptKinds
<1> QED BY <1>2, <1>4, <1>5

\* A PUBLISH is taken: once, if its id is new.
LEMMA TakeIs ==
  ASSUME OutboxInv, TakenInv, BrokerTakes
  PROVE  /\ up[1].pkt \in Publishes /\ up[1].m \in Messages /\ up[1].m \in 1 .. next
         /\ up[1].m \in ever' /\ ever \subseteq ever' /\ ever' \subseteq ever \cup {up[1].m}
         /\ bq2 \subseteq bq2' /\ bq2' \subseteq bq2 \cup {up[1].id}
         /\ up[1].pkt = "pub2" => up[1].id \in bq2'
         /\ up[1].pkt # "pub2" => bq2' = bq2
         /\ \A m \in Messages : m # up[1].m => taken'[m] = taken[m]
         /\ up[1].pkt = "pub2" => taken'[up[1].m] <= 1
         /\ Qos[up[1].m] = IF up[1].pkt = "pub1" THEN 1 ELSE 2
<1> DEFINE p == up[1]
           again == p.pkt = "pub2" /\ p.id \in bq2
<1>1. Takes({"pub1", "pub2"})
  BY DEF BrokerTakes
<1>2. Head(up) = up[1] /\ p.pkt \in {"pub1", "pub2"}
  BY <1>1, BrokerReads
<1>3. /\ bq2' = IF p.pkt = "pub2" THEN bq2 \cup {p.id} ELSE bq2
      /\ taken' = IF again \/ taken[p.m] = 2 THEN taken ELSE [taken EXCEPT ![p.m] = @ + 1]
      /\ ever' = IF again THEN ever ELSE ever \cup {p.m}
  BY <1>2 DEF BrokerTakes
<1>4. 1 \in 1 .. Len(up)
  BY <1>1, TailIs
<1>5. PacketOk(p) /\ p.pkt \in OurPackets
  BY <1>2, <1>4 DEF TakenInv, PacketInv, OurPackets
<1>6. taken \in [Messages -> Nat] /\ next \in 0 .. Len(Qos) /\ Len(Qos) \in Nat
  BY SizesAssumption DEF OutboxInv, Types, CallerTypes, PeerTypes
<1> HIDE DEF p
<1>7. p.m \in 1 .. next /\ Qos[p.m] = IF p.pkt = "pub1" THEN 1 ELSE 2
  BY <1>5 DEF PacketOk
<1>8. p.m \in Messages
  BY <1>6, <1>7 DEF Messages
<1>9. again => p.m \in ever
  BY <1>5 DEF PacketOk
<1>10. \A m \in Messages : m # p.m => taken'[m] = taken[m]
  BY <1>3, <1>6
<1>11. ASSUME p.pkt = "pub2" PROVE taken'[p.m] <= 1
  <2>1. taken[p.m] \in Nat
    BY <1>6, <1>8
  <2>2. CASE again
    <3>1. taken' = taken
      BY <1>3, <2>2
    <3> QED BY <1>7, <1>8, <1>11, <3>1 DEF TakenInv, EverInv, TakenOnce
  <2>3. CASE ~again
    <3>1. ~(taken[p.m] >= 1)
      BY <1>5, <1>11, <2>3 DEF PacketOk
    <3>2. taken[p.m] = 0
      BY <2>1, <3>1
    <3>3. taken'[p.m] = 1
      BY <1>3, <1>6, <1>8, <2>3, <3>2
    <3> QED BY <3>3
  <2> QED BY <2>2, <2>3
<1>12. p.pkt \in Publishes
  BY <1>2 DEF Publishes, p
<1>13. p.m \in ever' /\ ever \subseteq ever' /\ ever' \subseteq ever \cup {p.m}
  BY <1>3, <1>9
<1>14. /\ bq2 \subseteq bq2' /\ bq2' \subseteq bq2 \cup {p.id}
       /\ p.pkt = "pub2" => p.id \in bq2'
       /\ p.pkt # "pub2" => bq2' = bq2
  BY <1>3
<1> QED BY <1>7, <1>8, <1>10, <1>11, <1>12, <1>13, <1>14 DEF p

LEMMA BrokerTakesKeepsTaken ==
  ASSUME OutboxInv, OutboxInv', TakenInv, BrokerTakes
  PROVE  TakenInv'
<1> DEFINE p == up[1]
           q == Packet(IF p.pkt = "pub1" THEN "puback" ELSE "pubrec", p.id, 0)
           pkts == {"pub1", "pub2"}
<1>1. Takes(pkts) /\ pkts \in SUBSET (Calls \cup OurAcks)
  BY DEF BrokerTakes, Calls
<1>2. Head(up) = up[1] /\ p \in UpType /\ p.pkt \in pkts
  BY <1>1, BrokerReads
<1>3. p.id \in Ids /\ p.id \in Nat
  BY <1>2 DEF UpType, Ids
<1>4. q.pkt = (IF p.pkt = "pub1" THEN "puback" ELSE "pubrec") /\ q.id = p.id /\ q \in DownType
  BY <1>3 DEF Packet, DownType, Acks
<1>5. /\ Answers(<<q>>)
      /\ UNCHANGED <<clean, out, phase, acked, dropped, next>>
  BY <1>2 DEF BrokerTakes, client, caller
<1>6. /\ p.pkt \in Publishes /\ p.m \in Messages /\ p.m \in 1 .. next
      /\ p.m \in ever' /\ ever \subseteq ever' /\ ever' \subseteq ever \cup {p.m}
      /\ bq2 \subseteq bq2' /\ bq2' \subseteq bq2 \cup {p.id}
      /\ p.pkt = "pub2" => p.id \in bq2'
      /\ p.pkt # "pub2" => bq2' = bq2
      /\ \A m \in Messages : m # p.m => taken'[m] = taken[m]
      /\ p.pkt = "pub2" => taken'[p.m] <= 1
      /\ Qos[p.m] = IF p.pkt = "pub1" THEN 1 ELSE 2
  BY TakeIs
<1>7. /\ Len(up) \in Nat /\ 1 \in 1 .. Len(up) /\ Len(up') = Len(up) - 1
      /\ \A i \in 1 .. Len(up') : i + 1 \in 1 .. Len(up) /\ i + 1 # 1 /\ up'[i] = up[i + 1]
  BY <1>1, TailIs
<1>8. /\ \A k \in 1 .. Len(up) : k # 1 /\ up[k].pkt \in Calls => up[k].id # p.id
      /\ \A k \in 1 .. Len(up) : k # 1 /\ up[k].pkt \in OurPackets => up[k].m # p.m
  <2>1. p.pkt \in Calls /\ p.pkt \in OurPackets
    BY <1>6 DEF Publishes, Calls, OurPackets
  <2>2. \A k \in 1 .. Len(up) : k # 1 /\ up[k].pkt \in Calls => up[k].id # p.id
    BY <1>7, <2>1 DEF OutboxInv, FlightInv, FlightUp
  <2>3. \A k \in 1 .. Len(up) : k # 1 /\ up[k].pkt \in OurPackets => up[k].m # p.m
    BY <1>7, <2>1 DEF TakenInv, PacketInv
  <2> QED BY <2>2, <2>3
<1>9. OrderInv'
  BY <1>1, <1>5, <1>6, TailKeepsOrder
<1>10. (FreshAhead' <=> FreshAhead) /\ WelcomeFits' /\ (down' = down \/ (old = 0 /\ down' = Append(down, q)))
  <2>1. down' = down \/ (old = 0 /\ down' = Append(down, q))
    BY <1>4, <1>5, OneAnswer
  <2>2. (FreshAhead' <=> FreshAhead) /\ WelcomeFits'
    BY <1>1, <1>5, <2>1, QuietHello
  <2> QED BY <2>1, <2>2
<1> HIDE DEF p, q, pkts
<1>11. EverInv'
  <2>1. \A m \in Messages : m # p.m => taken'[m] = taken[m]
    BY <1>6
  <2>2. Qos[p.m] = 2 => taken'[p.m] <= 1
    BY <1>6 DEF Publishes
  <2>3. \A m \in Messages : taken'[m] >= 1 => m \in ever'
    BY <1>6, <2>1 DEF TakenInv, EverInv
  <2>4. TakenOnce'
    BY <2>1, <2>2 DEF TakenInv, EverInv, TakenOnce
  <2>5. ever' \subseteq 1 .. next' /\ acked' \subseteq ever'
    BY <1>5, <1>6 DEF TakenInv, EverInv
  <2> QED BY <2>3, <2>4, <2>5 DEF EverInv
<1>12. PacketInv'
  <2>1. ASSUME NEW k \in 1 .. Len(up') PROVE PacketOk(up[k])'
    <3> DEFINE r == up[k + 1]
    <3>1. PacketOk(r) /\ up'[k] = r /\ k + 1 \in 1 .. Len(up) /\ k + 1 # 1
      BY <1>7 DEF TakenInv, PacketInv
    <3>2. /\ r.pkt = "pub2" => r.id # p.id /\ r.m # p.m
          /\ r.pkt \in OurPackets => r.m \in Messages
      <4>1. r.pkt \in OurPackets => r.m \in 1 .. next
        BY <3>1 DEF PacketOk
      <4>2. next \in 0 .. Len(Qos) /\ Len(Qos) \in Nat
        BY SizesAssumption DEF OutboxInv, Types, CallerTypes
      <4>3. r.pkt \in OurPackets => r.m \in Messages
        BY <4>1, <4>2 DEF Messages
      <4>4. r.pkt = "pub2" => r.id # p.id /\ r.m # p.m
        BY <1>8, <3>1 DEF Calls, OurPackets
      <4> QED BY <4>3, <4>4
    <3> HIDE DEF r
    <3>3. r.pkt = "pub2" => taken'[r.m] = taken[r.m]
      BY <1>6, <3>2 DEF OurPackets
    <3>4. r.pkt = "pub2" /\ r.id \in bq2' => r.id \in bq2
      BY <1>6, <3>2
    <3> QED BY <1>5, <1>6, <3>1, <3>3, <3>4 DEF PacketOk
  <2>2. ASSUME NEW i \in 1 .. Len(up'), NEW k \in 1 .. Len(up'), i # k,
               up'[i].pkt \in OurPackets, up'[k].pkt \in OurPackets
        PROVE  up'[i].m # up'[k].m
    <3>1. i + 1 # k + 1
      BY <2>2
    <3> QED BY <1>7, <2>2, <3>1 DEF TakenInv, PacketInv
  <2> QED BY <2>1, <2>2 DEF PacketInv
<1>13. ASSUME NEW j \in 1 .. Len(out), out[j].kind \in MessageKinds, out[j].m = p.m
       PROVE  out[j].id = p.id /\ (out[j].kind = "pub2" => p.pkt = "pub2")
  <2>1. PacketFits(p, out[j]) /\ RecordOk(out[j], next)
    BY <1>7 DEF TakenInv, RecordInv, OutboxInv, OutInv, OutOk, p
  <2>2. out[j].id = p.id
    BY <1>6, <1>13, <2>1 DEF PacketFits, Publishes, OurPackets
  <2>3. out[j].kind = "pub2" => Qos[p.m] = 2
    BY <1>13, <2>1 DEF RecordOk
  <2> QED BY <1>6, <2>2, <2>3 DEF Publishes
<1>14. RecordInv'
  <2>1. ASSUME NEW j \in 1 .. Len(out) PROVE RecordKnown(out[j])'
    <3>1. RecordKnown(out[j])
      BY DEF TakenInv, RecordInv
    <3>2. ASSUME out[j].kind = "pub2", taken'[out[j].m] >= 1 PROVE out[j].id \in bq2'
      <4>1. out[j].kind \in MessageKinds /\ out[j].m \in Messages
        BY <3>2, MessageOf DEF MessageKinds
      <4>2. CASE out[j].m = p.m
        BY <1>6, <1>13, <3>2, <4>1, <4>2
      <4>3. CASE out[j].m # p.m
        BY <1>6, <3>1, <3>2, <4>1, <4>3 DEF RecordKnown
      <4> QED BY <4>2, <4>3
    <3> QED BY <1>5, <1>6, <3>1, <3>2 DEF RecordKnown
  <2>2. ASSUME NEW k \in 1 .. Len(up'), NEW j \in 1 .. Len(out) PROVE PacketFits(up[k], out[j])'
    <3>1. PacketFits(up[k + 1], out[j]) /\ up'[k] = up[k + 1] /\ k + 1 \in 1 .. Len(up) /\ k + 1 # 1
      BY <1>7 DEF TakenInv, RecordInv
    <3>2. ASSUME up'[k].pkt = "pubrel", out[j].kind = "pub2", up'[k].id = out[j].id PROVE out[j].m # p.m
      <4>1. up[k + 1].id # p.id
        BY <1>8, <3>1, <3>2 DEF Calls
      <4> QED BY <1>13, <3>1, <3>2, <4>1 DEF MessageKinds
    <3> QED BY <1>5, <1>6, <3>1, <3>2 DEF PacketFits
  <2> QED BY <1>5, <2>1, <2>2 DEF RecordInv
<1>15. AckInv'
  <2>1. SUFFICES ASSUME phase = "up", NEW k \in 1 .. Len(down')
                 PROVE  /\ \A j \in 1 .. Len(out) : AckFits(down[k], out[j])'
                        /\ down'[k].pkt = "pubcomp" => down'[k].id \notin bq2'
    BY <1>5 DEF AckInv
  <2>2. (k \in 1 .. Len(down) /\ down'[k] = down[k]) \/ down'[k] = q
    BY <1>4, <1>10, DownGrows
  <2>3. CASE down'[k] = q
    <3>1. ASSUME NEW j \in 1 .. Len(out), out[j].kind \in MessageKinds, out[j].id = p.id PROVE out[j].m = p.m
      BY <1>6, <1>7, <2>1, <3>1, SentIsOne DEF p
    <3>2. \A j \in 1 .. Len(out) : AckFits(down[k], out[j])'
      BY <1>4, <1>5, <1>6, <2>3, <3>1 DEF AckFits
    <3> QED BY <1>4, <2>3, <3>2
  <2>4. CASE k \in 1 .. Len(down) /\ down'[k] = down[k]
    <3>1. \A j \in 1 .. Len(out) : AckFits(down[k], out[j])
      BY <2>1, <2>4 DEF TakenInv, AckInv
    <3>2. down[k].pkt = "pubcomp" => down[k].id \notin bq2
      BY <2>1, <2>4 DEF TakenInv, AckInv
    <3>3. down[k].pkt = "pubcomp" => down[k].id # p.id
      <4>1. p.pkt \in Calls
        BY <1>6 DEF Publishes, Calls
      <4> QED BY <1>7, <2>1, <2>4, <4>1 DEF OutboxInv, FlightInv, FlightIds, Acks, p
    <3> QED BY <1>5, <1>6, <2>4, <3>1, <3>2, <3>3 DEF AckFits
  <2> QED BY <2>2, <2>3, <2>4
<1>16. HeldInv'
  <2>1. KeepsIds'
    <3>1. SUFFICES ASSUME ~FreshAhead, NEW x \in bq2' PROVE \E m \in ever' : Holds(out, x, m)
      BY <1>5, <1>10 DEF KeepsIds
    <3>2. CASE x \in bq2
      <4>1. PICK m \in ever : Holds(out, x, m)
        BY <3>1, <3>2 DEF TakenInv, HeldInv, KeepsIds
      <4> QED BY <1>6, <4>1
    <3>3. CASE x \notin bq2
      <4>1. x = p.id /\ p.pkt = "pub2"
        BY <1>6, <3>1, <3>3
      <4>2. Holds(out, p.id, p.m)
        <5>1. CASE phase = "up"
          <6>1. PICK i \in 1 .. Len(out) : out[i].kind = p.pkt /\ out[i].id = p.id /\ out[i].m = p.m
            BY <1>6, <1>7, <5>1, SentIsOne DEF p
          <6> QED BY <4>1, <6>1 DEF Holds
        <5>2. CASE phase # "up"
          <6>1. phase \in {"idle", "dial", "hello"}
            BY <5>2 DEF OutboxInv, Types, ClientTypes
          <6>2. phase = "hello" => down = <<>>
            <7>1. up # <<>>
              BY <1>7
            <7> QED BY <7>1 DEF OutboxInv, ConnInv, ConnPhase
          <6>3. ~clean
            BY <3>1, <6>1, <6>2 DEF FreshAhead, OutboxInv, Types, ClientTypes
          <6> QED BY <1>7, <4>1, <6>3 DEF TakenInv, HeldInv, KeepsUp, p
        <5> QED BY <5>1, <5>2
      <4> QED BY <1>6, <4>1, <4>2
    <3> QED BY <3>2, <3>3
  <2>2. KeepsUp'
    BY <1>5, <1>7 DEF TakenInv, HeldInv, KeepsUp
  <2> QED BY <1>10, <2>1, <2>2 DEF HeldInv
<1> QED BY <1>9, <1>11, <1>12, <1>14, <1>15, <1>16 DEF TakenInv

LEMMA BrokerConnectsKeepsTaken ==
  ASSUME OutboxInv, OutboxInv', TakenInv, BrokerConnects
  PROVE  TakenInv'
<1> DEFINE kc == kept /\ ~clean
           s == IF kc THEN Resends ELSE <<>>
           c == Packet("connack", 0, IF kc THEN 1 ELSE 0)
<1>1. Takes({"connect"}) /\ UNCHANGED <<clean, out, phase, acked, dropped, next, ever>>
  BY DEF BrokerConnects, client, caller
<1>2. \/ kc /\ UNCHANGED <<bq2, taken>>
      \/ ~kc /\ bq2' = {} /\ taken' = [m \in Messages |-> 0]
  BY DEF BrokerConnects, FreshSession
<1>3. Answers(<<c>> \o s)
  <2>1. CASE kc
    BY <2>1 DEF BrokerConnects
  <2>2. CASE ~kc
    <3>1. Answers(<<c>>)
      BY <2>2 DEF BrokerConnects
    <3> HIDE DEF c
    <3>2. <<c>> \o <<>> = <<c>>
      OBVIOUS
    <3> QED BY <2>2, <3>1, <3>2
  <2> QED BY <2>1, <2>2
<1>4. /\ Len(up) > 0 /\ Len(up) \in Nat /\ 1 \in 1 .. Len(up) /\ up[1].pkt = "connect"
      /\ \A i \in 1 .. Len(up') : i + 1 \in 1 .. Len(up) /\ i + 1 # 1 /\ up'[i] = up[i + 1]
  <2>1. /\ Len(up) > 0 /\ Len(up) \in Nat /\ 1 \in 1 .. Len(up) /\ up[1].pkt \in {"connect"}
        /\ \A i \in 1 .. Len(up') : i + 1 \in 1 .. Len(up) /\ i + 1 # 1 /\ up'[i] = up[i + 1]
    BY <1>1, TailIs
  <2> QED BY <2>1
<1>5. \A k \in 1 .. Len(up') : up'[k].pkt = "connect"
  <2>1. SUFFICES ASSUME NEW k \in 1 .. Len(up') PROVE up'[k].pkt = "connect"
    OBVIOUS
  <2>2. k + 1 \in 1 .. Len(up) /\ 1 < k + 1 /\ up'[k] = up[k + 1]
    BY <1>4
  <2> QED BY <1>4, <2>2 DEF OutboxInv, ConnInv, ConnUp
<1>6. phase # "up"
  BY <1>4 DEF OutboxInv, ConnInv, ConnPhase
<1>7. phase = "hello" => down = <<>>
  <2>1. up # <<>>
    BY <1>4
  <2> QED BY <2>1 DEF OutboxInv, ConnInv, ConnPhase
<1>8. EverInv'
  BY <1>1, <1>2 DEF TakenInv, EverInv, TakenOnce
<1>9. PacketInv'
  BY <1>5 DEF PacketInv, PacketOk, OurPackets
<1>10. RecordInv'
  <2>1. ASSUME NEW j \in 1 .. Len(out) PROVE RecordKnown(out[j])'
    <3>1. RecordKnown(out[j])
      BY DEF TakenInv, RecordInv
    <3>2. out[j].kind = "pub2" => out[j].m \in Messages
      BY MessageOf DEF MessageKinds
    <3> QED BY <1>1, <1>2, <3>1, <3>2 DEF RecordKnown
  <2>2. ASSUME NEW k \in 1 .. Len(up'), NEW j \in 1 .. Len(out) PROVE PacketFits(up[k], out[j])'
    BY <1>5 DEF PacketFits, OurPackets
  <2> QED BY <1>1, <2>1, <2>2 DEF RecordInv
<1>11. AckInv'
  BY <1>1, <1>6 DEF AckInv
<1>12. OrderInv'
  BY <1>1, <1>5, <1>6 DEF TakenInv, OrderInv, OrderSent, OrderUp, Publishes
<1>13. KeepsIds' /\ KeepsUp'
  <2>1. KeepsIds'
    BY <1>1, <1>2 DEF TakenInv, HeldInv, KeepsIds, FreshAhead
  <2>2. KeepsUp'
    BY <1>5 DEF KeepsUp
  <2> QED BY <2>1, <2>2
<1>14. c.m = IF kc THEN 1 ELSE 0
  BY DEF Packet
<1> HIDE DEF c
<1>15. WelcomeFits'
  <2>1. SUFFICES ASSUME phase = "hello", down' # <<>>
                 PROVE  (down'[1].m = 1 => ~clean) /\ (down'[1].m # 1 => bq2' = {})
    BY <1>1 DEF WelcomeFits
  <2>2. down = <<>> /\ down' = down \o (<<c>> \o s)
    BY <1>3, <1>7, <2>1 DEF Answers
  <2>3. down'[1] = c
    <3>1. s \in Seq(DownType)
      BY ResendsAre, EmptySeq
    <3> HIDE DEF s
    <3>2. c \in {c} \cup DownType
      OBVIOUS
    <3>3. s \in Seq({c} \cup DownType) /\ <<c>> \in Seq({c} \cup DownType) /\ Len(<<c>>) = 1 /\ <<c>>[1] = c
      BY <3>1
    <3>4. (<<c>> \o s)[1] = c /\ <<c>> \o s \in Seq({c} \cup DownType)
      BY <3>3, ConcatProperties
    <3>5. <<>> \o (<<c>> \o s) = <<c>> \o s
      BY <3>4
    <3> QED BY <2>2, <3>4, <3>5
  <2> QED BY <1>2, <1>14, <2>3
<1> QED BY <1>8, <1>9, <1>10, <1>11, <1>12, <1>13, <1>15 DEF TakenInv, HeldInv

----------------------------------------------------------------------------
(* Taken once, in order, and acked after that.                             *)

LEMMA TakenStarts == Init => TakenInv
<1> SUFFICES ASSUME Init PROVE TakenInv
  OBVIOUS
<1>1. /\ Len(out) = 0 /\ Len(up) = 0 /\ down = <<>> /\ phase = "idle" /\ bq2 = {}
      /\ ever = {} /\ acked = {} /\ taken = [m \in Messages |-> 0]
  BY DEF Init
<1>2. EverInv
  BY <1>1 DEF EverInv, TakenOnce
<1>3. PacketInv /\ RecordInv /\ AckInv
  BY <1>1 DEF PacketInv, RecordInv, AckInv
<1>4. HeldInv
  BY <1>1 DEF HeldInv, KeepsIds, KeepsUp, WelcomeFits
<1>5. OrderInv
  BY <1>1 DEF OrderInv, Ordered, OrderSent, OrderUp
<1> QED BY <1>2, <1>3, <1>4, <1>5 DEF TakenInv

LEMMA TakenSteps == OutboxInv /\ TakenInv /\ [Next]_vars => TakenInv'
<1> SUFFICES ASSUME OutboxInv, TakenInv, [Next]_vars PROVE TakenInv'
  OBVIOUS
<1>1. OutboxInv'
  BY OutboxSteps
<1>2. CASE Application
  BY <1>1, <1>2, PublishKeepsTaken, SubscribeKeepsTaken, ConnectKeepsTaken, StopKeepsTaken DEF Application
<1>3. CASE Handle
  BY <1>1, <1>3, OnConnackKeepsTaken, OnPubackKeepsTaken, OnPubrecKeepsTaken, OnPubcompKeepsTaken,
     OnSubackKeepsTaken, OnPublishKeepsTaken DEF Handle
<1>4. CASE Dial \/ Flush \/ TellLost \/ End
  BY <1>1, <1>4, DialKeepsTaken, FlushKeepsTaken, TellLostKeepsTaken, EndKeepsTaken
<1>5. CASE Broker \/ BrokerSends \/ BrokerForgets
  BY <1>1, <1>5, BrokerConnectsKeepsTaken, BrokerTakesKeepsTaken, BrokerReleasesKeepsTaken,
     BrokerSubscribesKeepsTaken, BrokerIsAckedKeepsTaken, BrokerSendsKeepsTaken, BrokerForgetsKeepsTaken
  DEF Broker
<1>6. CASE UNCHANGED vars
  <2>1. UNCHANGED <<clean, out, phase, up, down, bq2, next, acked, dropped, ever, taken>>
    BY <1>6 DEF vars
  <2>2. EverInv' /\ PacketInv' /\ RecordInv'
    BY <2>1 DEF TakenInv, EverInv, TakenOnce, PacketInv, PacketOk, RecordInv, RecordKnown, PacketFits
  <2>3. AckInv' /\ HeldInv'
    BY <2>1 DEF TakenInv, AckInv, AckFits, HeldInv, KeepsIds, KeepsUp, WelcomeFits, FreshAhead, Holds
  <2>4. OrderInv'
    BY <2>1 DEF TakenInv, OrderInv, Ordered, OrderSent, OrderUp
  <2> QED BY <2>2, <2>3, <2>4 DEF TakenInv
<1> QED BY <1>2, <1>3, <1>4, <1>5, <1>6 DEF Next, Loop

\* The ids and the places of what the broker took, of what is on its way and of what the
\* outbox holds fit together after any number of lost connections and sessions.
THEOREM TakenInductive == Spec => [](OutboxInv /\ TakenInv)
<1>1. Init => OutboxInv /\ TakenInv
  BY OutboxStarts, TakenStarts
<1>2. OutboxInv /\ TakenInv /\ [Next]_vars => (OutboxInv /\ TakenInv)'
  BY OutboxSteps, TakenSteps
<1> QED BY <1>1, <1>2, PTL DEF Spec

\* The broker takes a QoS 2 message once in a session it keeps: the outbox resends it under
\* its id, or its PUBREL, and gives the id to nobody else (rewind, on_ack, next_id).
THEOREM TakenOnceForAll == Spec => []TakenOnce
<1>1. TakenInv => TakenOnce
  BY DEF TakenInv, EverInv
<1> QED BY <1>1, TakenInductive, PTL

----------------------------------------------------------------------------
(* What the caller sees of it: each step is one of MqttDelivery, or none.  *)

Seen == [m \in Messages |-> Status(m)]
Hidden == UNCHANGED <<next, acked, dropped, ever>>

\* Messages that are not published are in no set.
LEMMA SeenIs ==
  ASSUME OutboxInv, TakenInv
  PROVE  /\ next \in Nat /\ next \in 0 .. Len(Qos) /\ Len(Qos) \in Nat
         /\ ever \subseteq 1 .. next /\ acked \subseteq ever /\ dropped \subseteq 1 .. next
         /\ 1 .. next \subseteq Messages
         /\ \A m \in Messages : Seen[m] = Status(m) /\ m \in Nat
<1>1. next \in 0 .. Len(Qos) /\ Len(Qos) \in Nat /\ dropped \subseteq 1 .. next
  BY SizesAssumption DEF OutboxInv, Types, CallerTypes
<1>2. ever \subseteq 1 .. next /\ acked \subseteq ever
  BY DEF TakenInv, EverInv
<1>3. next \in Nat /\ 1 .. next \subseteq Messages /\ \A m \in Messages : m \in Nat
  BY <1>1 DEF Messages
<1>4. \A m \in Messages : Seen[m] = Status(m)
  BY DEF Seen
<1> QED BY <1>1, <1>2, <1>3, <1>4

LEMMA HiddenIsUnseen ==
  ASSUME Hidden
  PROVE  Seen' = Seen
BY DEF Hidden, Seen, Status

\* Publish accepts the next message.
LEMMA PublishIsSeen ==
  ASSUME OutboxInv, TakenInv, Publish
  PROVE  \E m \in Messages :
           /\ \A k \in 1 .. m - 1 : Seen[k] # "unpublished"
           /\ Seen[m] = "unpublished" /\ Seen' = [Seen EXCEPT ![m] = "queued"]
<1> DEFINE n == next + 1
<1>1. next' = n /\ next < Len(Qos) /\ UNCHANGED <<acked, dropped, ever>>
  BY DEF Publish, peer
<1>2. /\ next \in Nat /\ ever \subseteq 1 .. next /\ acked \subseteq ever /\ dropped \subseteq 1 .. next
      /\ Len(Qos) \in Nat /\ \A m \in Messages : Seen[m] = Status(m) /\ m \in Nat
  BY SeenIs
<1>3. n \in Messages /\ n \notin acked /\ n \notin dropped /\ n \notin ever
  BY <1>1, <1>2 DEF Messages
<1>4. Seen[n] = "unpublished"
  BY <1>2, <1>3 DEF Status
<1>5. ASSUME NEW k \in 1 .. n - 1 PROVE Seen[k] # "unpublished"
  <2>1. k \in Messages /\ k <= next
    BY <1>1, <1>2 DEF Messages
  <2> QED BY <1>2, <2>1 DEF Status
<1>6. ASSUME NEW m \in Messages PROVE Status(m)' = IF m = n THEN "queued" ELSE Status(m)
  <2>1. CASE m = n
    BY <1>1, <1>2, <1>3, <2>1 DEF Status
  <2>2. CASE m # n
    <3>1. m <= n <=> m <= next
      BY <1>2, <2>2
    <3> QED BY <1>1, <2>2, <3>1 DEF Status
  <2> QED BY <2>1, <2>2
<1>7. Seen' = [Seen EXCEPT ![n] = "queued"]
  BY <1>6 DEF Seen
<1> QED BY <1>3, <1>4, <1>5, <1>7

\* The broker takes a message, unless it knows it or stop() dropped it meanwhile.
LEMMA BrokerTakesIsSeen ==
  ASSUME OutboxInv, TakenInv, BrokerTakes
  PROVE  \/ Seen' = Seen
         \/ \E m \in Messages :
              /\ \A k \in 1 .. m - 1 : Seen[k] # "queued"
              /\ Seen[m] = "queued" /\ Seen' = [Seen EXCEPT ![m] = "taken"]
<1> DEFINE m == up[1].m
<1>1. /\ up[1].pkt \in Publishes /\ m \in Messages /\ m \in 1 .. next
      /\ m \in ever' /\ ever \subseteq ever' /\ ever' \subseteq ever \cup {m}
  BY TakeIs
<1>2. UNCHANGED <<next, acked, dropped>>
  BY DEF BrokerTakes, caller
<1>3. /\ next \in Nat /\ ever \subseteq 1 .. next /\ acked \subseteq ever
      /\ 1 .. next \subseteq Messages /\ \A k \in Messages : Seen[k] = Status(k) /\ k \in Nat
  BY SeenIs
<1>4. 1 \in 1 .. Len(up)
  <2>1. Takes({"pub1", "pub2"})
    BY DEF BrokerTakes
  <2> QED BY <2>1, TailIs
<1>5. m \notin ever => \A k \in 1 .. m - 1 : k \in ever \cup dropped
  BY <1>1, <1>4 DEF TakenInv, OrderInv, OrderUp
<1> HIDE DEF m
<1>6. CASE m \in ever \/ m \in dropped
  <2>1. ASSUME NEW k \in Messages PROVE Status(k)' = Status(k)
    BY <1>1, <1>2, <1>6 DEF Status
  <2> QED BY <2>1 DEF Seen
<1>7. CASE m \notin ever /\ m \notin dropped
  <2>1. Seen[m] = "queued"
    BY <1>1, <1>3, <1>7 DEF Status
  <2>2. ASSUME NEW k \in 1 .. m - 1 PROVE Seen[k] # "queued"
    <3>1. k \in Messages /\ k \in ever \cup dropped
      BY <1>1, <1>3, <1>5, <1>7
    <3> QED BY <1>3, <3>1 DEF Status
  <2>3. ASSUME NEW k \in Messages PROVE Status(k)' = IF k = m THEN "taken" ELSE Status(k)
    BY <1>1, <1>2, <1>3, <1>7 DEF Status
  <2>4. Seen' = [Seen EXCEPT ![m] = "taken"]
    BY <2>3 DEF Seen
  <2> QED BY <1>1, <2>1, <2>2, <2>4
<1> QED BY <1>6, <1>7

\* What a PUBACK, a PUBCOMP or a fresh session acks was taken.
LEMMA AcksAreSeen ==
  ASSUME OutboxInv, TakenInv, TakenInv', NEW A, acked' = acked \cup A, UNCHANGED <<next, dropped, ever>>,
         \A m \in A : \E j \in 1 .. Len(out) : out[j].kind \in MessageKinds /\ out[j].m = m
  PROVE  \E S \in SUBSET Messages :
           /\ \A m \in S : Seen[m] = "taken"
           /\ Seen' = [m \in Messages |-> IF m \in S THEN "acked" ELSE Seen[m]]
<1> DEFINE S == A \ acked
<1>1. /\ ever \subseteq 1 .. next /\ acked \subseteq ever
      /\ 1 .. next \subseteq Messages /\ \A m \in Messages : Seen[m] = Status(m) /\ m \in Nat
  BY SeenIs
<1>2. A \subseteq ever
  BY DEF TakenInv, EverInv
<1>3. A \cap dropped = {}
  <2>1. SUFFICES ASSUME NEW m \in A PROVE m \notin dropped
    OBVIOUS
  <2>2. PICK j \in 1 .. Len(out) : out[j].kind \in MessageKinds /\ out[j].m = m
    OBVIOUS
  <2>3. m \in 1 .. next
    BY <2>2, MessageOf
  <2> QED BY <2>2, <2>3 DEF OutboxInv, OutInv, OutOk
<1>4. \A m \in S : Seen[m] = "taken"
  BY <1>1, <1>2, <1>3 DEF Status
<1>5. ASSUME NEW m \in Messages PROVE Status(m)' = IF m \in S THEN "acked" ELSE Seen[m]
  <2>1. Seen[m] = Status(m)
    BY <1>1
  <2> QED BY <2>1 DEF Status
<1>6. Seen' = [m \in Messages |-> IF m \in S THEN "acked" ELSE Seen[m]]
  BY <1>5 DEF Seen
<1>7. S \in SUBSET Messages
  BY <1>1, <1>2
<1> QED BY <1>4, <1>6, <1>7

\* stop() drops what waits.
LEMMA StopIsSeen ==
  ASSUME OutboxInv, TakenInv, Stop
  PROVE  Seen' = [m \in Messages |-> IF Seen[m] \in {"queued", "taken"} THEN "dropped" ELSE Seen[m]]
<1>1. dropped' = dropped \cup ((1 .. next) \ acked) /\ UNCHANGED <<next, acked, ever>>
  BY DEF Stop, peer
<1>2. /\ next \in Nat /\ ever \subseteq 1 .. next /\ acked \subseteq ever /\ dropped \subseteq 1 .. next
      /\ \A m \in Messages : Seen[m] = Status(m) /\ m \in Nat
  BY SeenIs
<1>3. ASSUME NEW m \in Messages
      PROVE  Status(m)' = IF Seen[m] \in {"queued", "taken"} THEN "dropped" ELSE Seen[m]
  <2>1. Seen[m] = Status(m) /\ m \in Nat /\ m >= 1
    BY <1>2 DEF Messages
  <2>2. m \in 1 .. next <=> m <= next
    BY <1>2, <2>1
  <2> QED BY <1>1, <1>2, <2>1, <2>2 DEF Status
<1> QED BY <1>3 DEF Seen

\* Every other step says nothing to the caller.
LEMMA OthersAreHidden ==
  ASSUME \/ Subscribe \/ Connect \/ TellLost \/ Dial \/ Flush \/ End
         \/ OnPubrec \/ OnSuback \/ OnPublish1 \/ OnPublish2 \/ OnPubrel
         \/ BrokerConnects \/ BrokerReleases \/ BrokerSubscribes \/ BrokerIsAcked \/ BrokerSends \/ BrokerForgets
  PROVE  Hidden
<1>1. CASE Subscribe \/ Connect \/ TellLost \/ Dial \/ Flush \/ End
  BY <1>1 DEF Hidden, Subscribe, Connect, TellLost, Dial, Flush, End, caller, peer
<1>2. CASE OnPubrec \/ OnSuback \/ OnPublish1 \/ OnPublish2 \/ OnPubrel
  BY <1>2 DEF Hidden, OnPubrec, OnSuback, OnPublish1, OnPublish2, OnPubrel, caller, peer
<1>3. CASE BrokerConnects \/ BrokerReleases \/ BrokerSubscribes \/ BrokerIsAcked \/ BrokerSends \/ BrokerForgets
  BY <1>3 DEF Hidden, BrokerConnects, BrokerReleases, BrokerSubscribes, BrokerIsAcked, BrokerSends, BrokerForgets,
              caller, peer
<1> QED BY <1>1, <1>2, <1>3

LEMMA HandledIsSeen ==
  ASSUME OutboxInv, TakenInv, TakenInv', OnConnack \/ OnPuback \/ OnPubcomp
  PROVE  Hidden \/ \E S \in SUBSET Messages :
                     /\ \A m \in S : Seen[m] = "taken"
                     /\ Seen' = [m \in Messages |-> IF m \in S THEN "acked" ELSE Seen[m]]
<1>1. DOMAIN out = 1 .. Len(out)
  BY DEF OutboxInv, Types, OutTypes
<1>2. UNCHANGED <<next, dropped, ever>>
  BY DEF OnConnack, OnPuback, OnPubcomp, peer
<1>3. CASE OnConnack
  <2> DEFINE A == {out[j].m : j \in {k \in DOMAIN out : out[k].kind = "rel"}}
  <2>1. acked' = acked \/ acked' = acked \cup A
    BY <1>3 DEF OnConnack
  <2>2. \A m \in A : \E j \in 1 .. Len(out) : out[j].kind \in MessageKinds /\ out[j].m = m
    BY <1>1 DEF MessageKinds
  <2> HIDE DEF A
  <2>3. CASE acked' = acked
    BY <1>2, <2>3 DEF Hidden
  <2>4. CASE acked' = acked \cup A
    BY <1>2, <2>2, <2>4, AcksAreSeen
  <2> QED BY <2>1, <2>3, <2>4
<1>4. CASE OnPuback
  <2> DEFINE A == Of(out, "pub1", Head(down).id)
  <2>1. acked' = acked \cup A
    BY <1>4 DEF OnPuback
  <2>2. \A m \in A : \E j \in 1 .. Len(out) : out[j].kind \in MessageKinds /\ out[j].m = m
    BY <1>1 DEF Of, MessageKinds
  <2> HIDE DEF A
  <2> QED BY <1>2, <2>1, <2>2, AcksAreSeen
<1>5. CASE OnPubcomp
  <2> DEFINE A == Of(out, "rel", Head(down).id)
  <2>1. acked' = acked \cup A
    BY <1>5 DEF OnPubcomp
  <2>2. \A m \in A : \E j \in 1 .. Len(out) : out[j].kind \in MessageKinds /\ out[j].m = m
    BY <1>1 DEF Of, MessageKinds
  <2> HIDE DEF A
  <2> QED BY <1>2, <2>1, <2>2, AcksAreSeen
<1> QED BY <1>3, <1>4, <1>5

LEMMA StepsAreSeen ==
  ASSUME OutboxInv, TakenInv, TakenInv', [Next]_vars
  PROVE  Delivery!Next \/ Seen' = Seen
<1>1. Messages = Delivery!Messages
  BY DEF Messages, Delivery!Messages
<1>2. CASE Publish
  <2>1. PICK m \in Messages :
          /\ \A k \in 1 .. m - 1 : Seen[k] # "unpublished"
          /\ Seen[m] = "unpublished" /\ Seen' = [Seen EXCEPT ![m] = "queued"]
    BY <1>2, PublishIsSeen
  <2>2. Delivery!Publish(m)
    BY <2>1 DEF Delivery!Publish, Delivery!Becomes, Seen
  <2> QED BY <1>1, <2>2 DEF Delivery!Next
<1>3. CASE BrokerTakes
  <2>1. SUFFICES ASSUME NEW m \in Messages, \A k \in 1 .. m - 1 : Seen[k] # "queued",
                        Seen[m] = "queued", Seen' = [Seen EXCEPT ![m] = "taken"]
                 PROVE  Delivery!Next
    BY <1>3, BrokerTakesIsSeen
  <2>2. Delivery!Take(m)
    BY <2>1 DEF Delivery!Take, Delivery!Becomes, Seen
  <2> QED BY <1>1, <2>2 DEF Delivery!Next
<1>4. CASE OnConnack \/ OnPuback \/ OnPubcomp
  <2>1. Hidden => Seen' = Seen
    BY HiddenIsUnseen
  <2>2. SUFFICES ASSUME NEW S \in SUBSET Messages, \A m \in S : Seen[m] = "taken",
                        Seen' = [m \in Messages |-> IF m \in S THEN "acked" ELSE Seen[m]]
                 PROVE  Delivery!Next
    BY <1>4, <2>1, HandledIsSeen
  <2>3. Delivery!Settle(S)
    BY <1>1, <2>2 DEF Delivery!Settle, Seen
  <2> QED BY <1>1, <2>3 DEF Delivery!Next
<1>5. CASE Stop
  <2>1. Delivery!Drop
    BY <1>1, <1>5, StopIsSeen DEF Delivery!Drop, Seen
  <2> QED BY <2>1 DEF Delivery!Next
<1>6. CASE \/ Subscribe \/ Connect \/ TellLost \/ Dial \/ Flush \/ End
           \/ OnPubrec \/ OnSuback \/ OnPublish1 \/ OnPublish2 \/ OnPubrel
           \/ BrokerConnects \/ BrokerReleases \/ BrokerSubscribes \/ BrokerIsAcked \/ BrokerSends \/ BrokerForgets
  <2>1. Hidden
    BY <1>6, OthersAreHidden
  <2> QED BY <2>1, HiddenIsUnseen
<1>7. CASE UNCHANGED vars
  <2>1. Hidden
    BY <1>7 DEF vars, Hidden
  <2> QED BY <2>1, HiddenIsUnseen
<1> QED BY <1>2, <1>3, <1>4, <1>5, <1>6, <1>7 DEF Next, Application, Loop, Handle, Broker

\* EGMqtt implements MqttDelivery: over any lost connections and sessions a message is taken
\* after those published before it, is acked after that, and is dropped by stop() only.
THEOREM DeliversForAll == Spec => Delivers
<1>1. Init => Delivery!Init
  <2> SUFFICES ASSUME Init PROVE Delivery!Init
    OBVIOUS
  <2>1. next = 0 /\ acked = {} /\ dropped = {} /\ ever = {}
    BY DEF Init
  <2>2. ASSUME NEW m \in Messages PROVE Status(m) = "unpublished"
    <3>1. ~(m <= 0)
      BY SizesAssumption DEF Messages
    <3> QED BY <2>1, <3>1 DEF Status
  <2> QED BY <2>2 DEF Delivery!Init, Messages, Delivery!Messages
<1>2. (OutboxInv /\ TakenInv) /\ (OutboxInv /\ TakenInv)' /\ [Next]_vars => [Delivery!Next]_Seen
  BY StepsAreSeen
<1>3. [Delivery!Next]_Seen => [Delivery!Next]_[m \in Messages |-> Status(m)]
  BY DEF Seen
<1> QED BY <1>1, <1>2, <1>3, TakenInductive, PTL DEF Spec, Delivers, Delivery!Spec

----------------------------------------------------------------------------
(* Delivered once: packets and answers of the broker's messages            *)

\* No packet of the kinds T carries the id; and t has no more of them than s.
Unused(s, T, x) == \A k \in 1 .. Len(s) : s[k].pkt \in T => s[k].id # x

Same(p, q) == p.pkt = q.pkt /\ p.id = q.id /\ p.m = q.m

Less(t, s, T) ==
  /\ Single(s, T) => Single(t, T)
  /\ \A k \in 1 .. Len(t) : t[k].pkt \in T => \E j \in 1 .. Len(s) : Same(t[k], s[j])

LEMMA LessIsApart ==
  ASSUME NEW d, NEW u, NEW o, NEW d2, NEW u2, NEW o2, Apart(d, u, o),
         Less(d2, d, OurPackets), Less(u2, u, OurAcks), Less(o2, o, OurAcks)
  PROVE  Apart(d2, u2, o2)
<1>1. ASSUME NEW s, NEW t, NEW T, NEW s2, NEW t2, NEW V, Disjoint(s, T, t, V), Less(s2, s, T), Less(t2, t, V)
      PROVE  Disjoint(s2, T, t2, V)
  <2>1. SUFFICES ASSUME NEW i \in 1 .. Len(s2), NEW k \in 1 .. Len(t2), s2[i].pkt \in T, t2[k].pkt \in V
                 PROVE  s2[i].id # t2[k].id
    BY DEF Disjoint
  <2>2. PICK a \in 1 .. Len(s) : Same(s2[i], s[a])
    BY <1>1, <2>1 DEF Less
  <2>3. PICK b \in 1 .. Len(t) : Same(t2[k], t[b])
    BY <1>1, <2>1 DEF Less
  <2> QED BY <1>1, <2>1, <2>2, <2>3 DEF Disjoint, Same
<1>2. Disjoint(d2, OurPackets, u2, OurAcks)
  BY <1>1 DEF Apart
<1>3. Disjoint(d2, OurPackets, o2, OurAcks)
  BY <1>1 DEF Apart
<1>4. Disjoint(u2, OurAcks, o2, OurAcks)
  BY <1>1 DEF Apart
<1>5. Single(d2, OurPackets) /\ Single(u2, OurAcks) /\ Single(o2, OurAcks)
  BY DEF Apart, Less
<1> QED BY <1>2, <1>3, <1>4, <1>5 DEF Apart

LEMMA SameIsLess ==
  ASSUME NEW s, NEW T
  PROVE  Less(s, s, T)
BY DEF Less, Same

LEMMA NoneIsLess ==
  ASSUME NEW s, NEW t, NEW T, \A k \in 1 .. Len(t) : t[k].pkt \notin T
  PROVE  Less(t, s, T)
BY DEF Less, Single

LEMMA LessOfLess ==
  ASSUME NEW r, NEW s, NEW t, NEW T, Less(t, s, T), Less(s, r, T)
  PROVE  Less(t, r, T)
<1>1. ASSUME NEW k \in 1 .. Len(t), t[k].pkt \in T PROVE \E j \in 1 .. Len(r) : Same(t[k], r[j])
  <2>1. PICK i \in 1 .. Len(s) : Same(t[k], s[i])
    BY <1>1 DEF Less
  <2>2. PICK j \in 1 .. Len(r) : Same(s[i], r[j])
    BY <1>1, <2>1 DEF Less, Same
  <2> QED BY <2>1, <2>2 DEF Same
<1> QED BY <1>1 DEF Less

LEMMA PickedIsLess ==
  ASSUME NEW S, NEW s \in Seq(S), NEW t \in Seq(S), NEW K \in SUBSET (1 .. Len(s)), Picks(t, s, K), NEW T
  PROVE  Less(t, s, T)
<1>1. PICK f : Follows(f, t, s, K)
  BY DEF Picks
<1>2. /\ \A i \in 1 .. Len(t) : f[i] \in 1 .. Len(s) /\ t[i] = s[f[i]]
      /\ \A i, j \in 1 .. Len(t) : i < j => f[i] < f[j]
  BY <1>1 DEF Follows
<1>3. \A i, j \in 1 .. Len(t) : i # j => f[i] # f[j]
  <2>1. SUFFICES ASSUME NEW i \in 1 .. Len(t), NEW j \in 1 .. Len(t), i # j PROVE f[i] # f[j]
    OBVIOUS
  <2>2. i < j \/ j < i
    BY <2>1
  <2>3. f[i] \in 1 .. Len(s) /\ f[j] \in 1 .. Len(s) /\ (f[i] < f[j] \/ f[j] < f[i])
    BY <1>2, <2>2
  <2> QED BY <2>3
<1>4. Single(s, T) => Single(t, T)
  BY <1>2, <1>3, SMTT(30) DEF Single
<1>5. ASSUME NEW k \in 1 .. Len(t) PROVE \E j \in 1 .. Len(s) : Same(t[k], s[j])
  BY <1>2 DEF Same
<1> QED BY <1>4, <1>5 DEF Less

LEMMA MarkedIsLess ==
  ASSUME NEW s, NEW t, Len(t) = Len(s), \A j \in 1 .. Len(s) : Same(t[j], s[j]), NEW T
  PROVE  Less(t, s, T)
BY DEF Less, Single, Same

LEMMA AppendIsLess ==
  ASSUME NEW S, NEW s \in Seq(S), NEW r \in S, NEW T, r.pkt \notin T
  PROVE  Less(Append(s, r), s, T)
<1> DEFINE t == Append(s, r)
<1>1. Len(t) = Len(s) + 1 /\ Len(s) \in Nat /\ t[Len(s) + 1] = r /\ \A k \in 1 .. Len(s) : t[k] = s[k]
  BY AppendProperties
<1> HIDE DEF t
<1>2. \A k \in 1 .. Len(t) : t[k].pkt \in T => k \in 1 .. Len(s) /\ t[k] = s[k]
  BY <1>1
<1> QED BY <1>2 DEF Less, Single, Same, t

\* The first one is gone with the head.
LEMMA TailIsLess ==
  ASSUME NEW S, NEW s \in Seq(S), s # <<>>, NEW T
  PROVE  /\ Less(Tail(s), s, T)
         /\ Single(s, T) /\ s[1].pkt \in T => Unused(Tail(s), T, s[1].id)
<1> DEFINE t == Tail(s)
<1>1. /\ t \in Seq(S) /\ Len(t) = Len(s) - 1 /\ Len(s) > 0 /\ Picks(t, s, 2 .. Len(s))
      /\ \A i \in 1 .. Len(t) : t[i] = s[i + 1]
  BY TailPicks
<1>2. Len(s) \in Nat /\ 2 .. Len(s) \in SUBSET (1 .. Len(s))
  OBVIOUS
<1> HIDE DEF t
<1>3. Less(t, s, T)
  BY <1>1, <1>2, PickedIsLess
<1>4. \A i \in 1 .. Len(t) : i + 1 \in 1 .. Len(s) /\ i + 1 # 1 /\ 1 \in 1 .. Len(s)
  BY <1>1, <1>2
<1>5. Single(s, T) /\ s[1].pkt \in T => Unused(t, T, s[1].id)
  BY <1>1, <1>4 DEF Single, Unused
<1> QED BY <1>3, <1>5 DEF t

LEMMA LessIsUnused ==
  ASSUME NEW s, NEW t, NEW T, Less(t, s, T), NEW x, Unused(s, T, x)
  PROVE  Unused(t, T, x)
<1>1. SUFFICES ASSUME NEW k \in 1 .. Len(t), t[k].pkt \in T PROVE t[k].id # x
  BY DEF Unused
<1>2. PICK j \in 1 .. Len(s) : Same(t[k], s[j])
  BY <1>1 DEF Less
<1> QED BY <1>1, <1>2 DEF Unused, Same

\* One more, under an id that is not in use.
LEMMA AppendIsSingle ==
  ASSUME NEW S, NEW s \in Seq(S), NEW r \in S, NEW T, Single(s, T), Unused(s, T, r.id)
  PROVE  /\ Single(Append(s, r), T)
         /\ \A t, V : Disjoint(t, V, s, T) /\ Unused(t, V, r.id) => Disjoint(t, V, Append(s, r), T)
         /\ \A t, V : Disjoint(s, T, t, V) /\ Unused(t, V, r.id) => Disjoint(Append(s, r), T, t, V)
<1> DEFINE a == Append(s, r)
<1>1. Len(a) = Len(s) + 1 /\ Len(s) \in Nat /\ a[Len(s) + 1] = r /\ \A k \in 1 .. Len(s) : a[k] = s[k]
  BY AppendProperties
<1> HIDE DEF a
<1>2. \A k \in 1 .. Len(a) : (k \in 1 .. Len(s) /\ a[k] = s[k]) \/ (k = Len(s) + 1 /\ a[k] = r)
  BY <1>1
<1>3. Single(a, T)
  BY <1>2 DEF Single, Unused
<1>4. \A t, V : Disjoint(t, V, s, T) /\ Unused(t, V, r.id) => Disjoint(t, V, a, T)
  BY <1>2 DEF Disjoint, Unused
<1>5. \A t, V : Disjoint(s, T, t, V) /\ Unused(t, V, r.id) => Disjoint(a, T, t, V)
  BY <1>2 DEF Disjoint, Unused
<1> QED BY <1>3, <1>4, <1>5 DEF a

\* Packets and answers go on as they are, or are lost.
LEMMA LessKeepsInbound ==
  ASSUME OutboxInv, InboundInv, UNCHANGED <<clean, kept, sending, given, got, finished, forgot>>,
         Less(down', down, OurPackets), Less(up', up, OurAcks), Less(out', out, OurAcks),
         Known \subseteq Known', InStep /\ ~FreshAhead' => ~FreshAhead /\ Known' = Known,
         phase' = "up" \/ (phase' = "hello" /\ down' # <<>>) => kept,
         ~clean /\ ~forgot => Known' = q2'
  PROVE  InboundInv'
<1>1. InStep' <=> InStep
  BY DEF InStep
<1>2. ReceivedOnce'
  BY DEF InboundInv, ReceivedOnce
<1>3. Apart(down', up', out')
  BY LessIsApart DEF InboundInv, TokenInv
<1>4. FitsDown'
  <2>1. SUFFICES ASSUME NEW k \in 1 .. Len(down'), down'[k].pkt \in OurPackets
                 PROVE  \E i \in 1 .. Len(sending) : Pushed(sending[i], down[k])'
    BY DEF FitsDown
  <2>2. PICK j \in 1 .. Len(down) : Same(down'[k], down[j])
    BY <2>1 DEF Less
  <2>3. PICK i \in 1 .. Len(sending) : Pushed(sending[i], down[j])
    BY <2>1, <2>2 DEF InboundInv, TokenInv, FitsDown, Same
  <2> QED BY <2>2, <2>3 DEF Pushed, Same
<1>5. FitsUp'
  <2>1. SUFFICES ASSUME NEW k \in 1 .. Len(up'), up'[k].pkt \in OurAcks
                 PROVE  \E i \in 1 .. Len(sending) : AnswerFits(sending[i], up[k])'
    BY DEF FitsUp
  <2>2. PICK j \in 1 .. Len(up) : Same(up'[k], up[j])
    BY <2>1 DEF Less
  <2>3. PICK i \in 1 .. Len(sending) : AnswerFits(sending[i], up[j])
    BY <2>1, <2>2 DEF InboundInv, TokenInv, FitsUp, Same
  <2> QED BY <1>1, <2>2, <2>3 DEF AnswerFits, Same
<1>6. FitsOut'
  <2>1. SUFFICES ASSUME NEW k \in 1 .. Len(out'), out'[k].pkt \in OurAcks
                 PROVE  \E i \in 1 .. Len(sending) : AnswerFits(sending[i], out[k])'
    BY DEF FitsOut
  <2>2. PICK j \in 1 .. Len(out) : Same(out'[k], out[j])
    BY <2>1 DEF Less
  <2>3. PICK i \in 1 .. Len(sending) : AnswerFits(sending[i], out[j])
    BY <2>1, <2>2 DEF InboundInv, TokenInv, FitsOut, Same
  <2> QED BY <1>1, <2>2, <2>3 DEF AnswerFits, Same
<1>7. EntryInv'
  <2>1. \A i \in 1 .. Len(sending) : EntryOk(sending[i])'
    BY <1>1 DEF InboundInv, EntryInv, EntryOk
  <2> QED BY <2>1 DEF InboundInv, EntryInv
<1>8. KnownInv'
  <2>1. SUFFICES ASSUME InStep, ~FreshAhead', ~FreshAhead, Known' = Known
                 PROVE  /\ \A x \in Known : KnownFits(x)'
                        /\ \A k \in 1 .. Len(up') : up'[k].pkt = "pubcomp" => up'[k].id \notin Known
                        /\ \A k \in 1 .. Len(out') : out'[k].pkt = "pubcomp" => out'[k].id \notin Known
    BY <1>1 DEF KnownInv
  <2>2. \A x \in Known : KnownFits(x)'
    BY <2>1 DEF InboundInv, KnownInv, KnownFits
  <2>3. ASSUME NEW k \in 1 .. Len(up'), up'[k].pkt = "pubcomp" PROVE up'[k].id \notin Known
    <3>1. PICK j \in 1 .. Len(up) : Same(up'[k], up[j])
      BY <2>3 DEF Less, OurAcks
    <3> QED BY <2>1, <2>3, <3>1 DEF InboundInv, KnownInv, Same
  <2>4. ASSUME NEW k \in 1 .. Len(out'), out'[k].pkt = "pubcomp" PROVE out'[k].id \notin Known
    <3>1. PICK j \in 1 .. Len(out) : Same(out'[k], out[j])
      BY <2>4 DEF Less, OurAcks
    <3> QED BY <2>1, <2>4, <3>1 DEF InboundInv, KnownInv, Same
  <2> QED BY <2>2, <2>3, <2>4
<1>9. SessionInv'
  BY DEF InboundInv, SessionInv
<1> QED BY <1>2, <1>3, <1>4, <1>5, <1>6, <1>7, <1>8, <1>9 DEF InboundInv, TokenInv

\* In an open connection.
LEMMA OpenKeepsInbound ==
  ASSUME OutboxInv, InboundInv, phase = "up", UNCHANGED <<clean, phase, q2, kept, sending, given, got, finished, forgot>>,
         Less(down', down, OurPackets), Less(up', up, OurAcks), Less(out', out, OurAcks)
  PROVE  InboundInv'
<1>1. Known = q2 /\ Known' = q2' /\ ~FreshAhead
  BY DEF Known, FreshAhead
<1>2. kept
  BY DEF InboundInv, SessionInv
<1> QED BY <1>1, <1>2, LessKeepsInbound

\* A packet that is read and not one of the broker's messages.
LEMMA ReadKeepsInbound ==
  ASSUME OutboxInv, InboundInv, NEW pkt \in Acks, Reads(pkt),
         UNCHANGED <<clean, phase, q2, up, kept, sending, given, got, finished, forgot>>, Less(out', out, OurAcks)
  PROVE  InboundInv'
<1>1. phase = "up" /\ down \in Seq(DownType) /\ down # <<>> /\ down' = Tail(down)
  BY ReadIsUp
<1>2. Less(down', down, OurPackets)
  BY <1>1, TailIsLess
<1>3. Less(up', up, OurAcks)
  BY SameIsLess
<1> QED BY <1>1, <1>2, <1>3, OpenKeepsInbound

LEMMA WithoutIsLess ==
  ASSUME NEW o \in Seq(RecType), NEW kind, NEW id, NEW T
  PROVE  Less(Without(o, kind, id), o, T)
<1> DEFINE K == {j \in 1 .. Len(o) : o[j].kind # kind \/ o[j].id # id}
<1>1. Without(o, kind, id) \in Seq(RecType) /\ Picks(Without(o, kind, id), o, K)
  BY WithoutPicks
<1>2. K \in SUBSET (1 .. Len(o))
  OBVIOUS
<1> HIDE DEF K
<1> QED BY <1>1, <1>2, PickedIsLess

LEMMA OnAckKeepsInbound ==
  ASSUME OutboxInv, OutboxInv', InboundInv, OnPuback \/ OnPubcomp \/ OnSuback \/ OnPubrec
  PROVE  InboundInv'
<1>1. out \in Seq(RecType) /\ out' \in Seq(RecType)
  BY DEF OutboxInv, Types, OutTypes
<1>2. /\ \E pkt \in Acks : Reads(pkt)
      /\ UNCHANGED <<clean, phase, q2, up, kept, sending, given, got, finished, forgot>>
  BY DEF OnPuback, OnPubcomp, OnSuback, OnPubrec, broker, peer, Acks
<1>3. CASE OnPuback \/ OnPubcomp \/ OnSuback
  <2>1. \E kind : out' = Without(out, kind, Head(down).id)
    BY <1>3 DEF OnPuback, OnPubcomp, OnSuback
  <2>2. Less(out', out, OurAcks)
    BY <1>1, <2>1, WithoutIsLess
  <2> QED BY <1>2, <2>2, ReadKeepsInbound
<1>4. CASE OnPubrec
  <2> DEFINE o == Without(out, "pub2", Head(down).id)
  <2>1. PICK m : \/ out' = o
                 \/ out' = Append(o, Rec("rel", "pubrel", Head(down).id, m))
    BY <1>4 DEF OnPubrec
  <2>2. Less(o, out, OurAcks) /\ o \in Seq(RecType)
    BY <1>1, WithoutIsLess, WithoutPicks
  <2> DEFINE r == Rec("rel", "pubrel", Head(down).id, m)
             S == RecType \cup {r}
  <2>3. r.pkt \notin OurAcks
    BY DEF Rec, OurAcks
  <2> HIDE DEF o, r
  <2>4. o \in Seq(S) /\ r \in S
    BY <2>2
  <2>5. Less(Append(o, r), o, OurAcks)
    BY <2>3, <2>4, AppendIsLess
  <2>6. Less(out', out, OurAcks)
    BY <2>1, <2>2, <2>5, LessOfLess DEF r
  <2> QED BY <1>2, <2>6, ReadKeepsInbound
<1> QED BY <1>3, <1>4

\* The outbox alone changes, and takes no answer.
LEMMA OutKeepsInbound ==
  ASSUME OutboxInv, InboundInv, UNCHANGED <<clean, phase, q2, up, down, kept, sending, given, got, finished, forgot>>,
         Less(out', out, OurAcks)
  PROVE  InboundInv'
<1>1. Known' = Known /\ (FreshAhead' <=> FreshAhead)
  BY DEF Known, FreshAhead
<1>2. Less(down', down, OurPackets) /\ Less(up', up, OurAcks)
  BY SameIsLess
<1>3. /\ phase' = "up" \/ (phase' = "hello" /\ down' # <<>>) => kept
      /\ ~clean /\ ~forgot => Known' = q2'
  BY <1>1 DEF InboundInv, SessionInv
<1> QED BY <1>1, <1>2, <1>3, LessKeepsInbound

LEMMA CallKeepsInbound ==
  ASSUME OutboxInv, InboundInv, Publish \/ Subscribe \/ TellLost
  PROVE  InboundInv'
<1>1. out \in Seq(RecType) /\ DOMAIN out = 1 .. Len(out)
  BY DEF OutboxInv, Types, OutTypes
<1>2. UNCHANGED <<clean, phase, q2, up, down, kept, sending, given, got, finished, forgot>>
  BY DEF Publish, Subscribe, TellLost, pipes, broker, peer
<1>3. CASE Publish \/ Subscribe
  <2>1. PICK r : out' = Append(out, r) /\ r.pkt \in {"pub1", "pub2", "sub"}
    <3>1. CASE Publish
      <4>1. PICK id \in FreeIds, kind \in {"pub1", "pub2"} : out' = Append(out, Rec(kind, kind, id, next + 1))
        BY <3>1 DEF Publish
      <4> QED BY <4>1 DEF Rec
    <3>2. CASE Subscribe
      <4>1. PICK id \in FreeIds : out' = Append(out, Rec("sub", "sub", id, 0))
        BY <3>2 DEF Subscribe
      <4> QED BY <4>1 DEF Rec
    <3> QED BY <1>3, <3>1, <3>2
  <2>2. out \in Seq(RecType \cup {r}) /\ r \in RecType \cup {r} /\ r.pkt \notin OurAcks
    BY <1>1, <2>1 DEF OurAcks
  <2>3. Less(out', out, OurAcks)
    BY <2>1, <2>2, AppendIsLess
  <2> QED BY <1>2, <2>3, OutKeepsInbound
<1>4. CASE TellLost
  <2>1. PICK j \in 1 .. Len(out) : out' = RemoveAt(out, j)
    BY <1>1, <1>4 DEF TellLost
  <2>2. /\ RemoveAt(out, j) \in Seq(RecType) /\ Picks(RemoveAt(out, j), out, (1 .. Len(out)) \ {j})
        /\ (1 .. Len(out)) \ {j} \in SUBSET (1 .. Len(out))
    BY <1>1, RemoveAtPicks
  <2>3. Less(out', out, OurAcks)
    BY <1>1, <2>1, <2>2, PickedIsLess
  <2> QED BY <1>2, <2>3, OutKeepsInbound
<1> QED BY <1>3, <1>4

\* Away from an open connection no answer waits.
LEMMA NoAnswers ==
  ASSUME NEW o \in Seq(RecType), NEW n, NEW D, OutOk(o, n, D), \A j \in 1 .. Len(o) : o[j].kind # "once"
  PROVE  \A j \in 1 .. Len(o) : o[j].pkt \notin OurAcks
<1>1. SUFFICES ASSUME NEW j \in 1 .. Len(o) PROVE o[j].pkt \notin OurAcks
  OBVIOUS
<1>2. o[j] \in RecType /\ RecordOk(o[j], n)
  BY DEF OutOk
<1>3. o[j].kind \in Kinds
  BY <1>2 DEF RecType
<1> QED BY <1>2, <1>3 DEF RecordOk, Kinds, KeptKinds, WireOf, OurAcks

\* A connection ends, or is tried.
LEMMA ClosedKeepsInbound ==
  ASSUME OutboxInv, OutboxInv', InboundInv, phase' # "up", CutShort, down' = <<>>,
         UNCHANGED <<clean, q2, kept, sending, given, got, finished, forgot>>,
         FreshAhead => FreshAhead', clean => FreshAhead'
  PROVE  InboundInv'
<1>1. Known' = q2' /\ q2' = q2 /\ Known \subseteq q2
  BY DEF Known
<1>2. Less(out', out, OurAcks)
  <2>1. /\ out' \in Seq(RecType) /\ OutOk(out', next', acked' \cup dropped')
        /\ \A j \in 1 .. Len(out') : out'[j].kind # "once"
    BY DEF OutboxInv, Types, OutTypes, OutInv, ConnInv, ConnOut
  <2>2. \A j \in 1 .. Len(out') : out'[j].pkt \notin OurAcks
    BY <2>1, NoAnswers
  <2> QED BY <2>2, NoneIsLess
<1>3. Less(down', down, OurPackets)
  <2>1. Len(down') = 0
    OBVIOUS
  <2> QED BY <2>1, NoneIsLess
<1>4. Less(up', up, OurAcks)
  <2>1. up' \in Seq(UpType) /\ up \in Seq(UpType)
    BY DEF OutboxInv, Types, PipeTypes
  <2>2. \A k \in 1 .. Len(up') : k \in 1 .. Len(up) /\ up'[k] = up[k]
    BY <2>1 DEF CutShort
  <2> QED BY <2>2 DEF Less, Single, Same
<1>5. InStep /\ ~FreshAhead' => ~FreshAhead /\ Known' = Known
  BY <1>1 DEF InStep, InboundInv, SessionInv
<1> QED BY <1>1, <1>2, <1>3, <1>4, <1>5, LessKeepsInbound

LEMMA IdleKeepsInbound ==
  ASSUME OutboxInv, OutboxInv', InboundInv, Connect \/ Dial \/ End \/ Stop
  PROVE  InboundInv'
<1>1. UNCHANGED <<clean, q2, kept, sending, given, got, finished, forgot>>
  BY DEF Connect, Dial, End, Stop, broker, peer
<1>2. phase' # "up"
  BY DEF Connect, Dial, End, Stop
<1>3. CASE Connect \/ Dial
  <2>1. phase \in {"idle", "dial"} /\ phase' \in {"dial", "hello"} /\ UNCHANGED <<up, down>>
    BY <1>3 DEF Connect, Dial, pipes
  <2>2. down = <<>> /\ CutShort
    <3>1. up \in Seq(UpType) /\ Len(up) \in Nat
      BY DEF OutboxInv, Types, PipeTypes
    <3> QED BY <2>1, <3>1 DEF OutboxInv, ConnInv, ConnPhase, CutShort
  <2>3. clean => FreshAhead'
    BY <1>1, <2>1, <2>2 DEF FreshAhead
  <2>4. FreshAhead => FreshAhead'
    BY <2>3 DEF FreshAhead
  <2> QED BY <1>1, <1>2, <2>1, <2>2, <2>3, <2>4, ClosedKeepsInbound
<1>4. CASE End \/ Stop
  <2>1. phase' = "idle" /\ (CloseTcp \/ (phase = "idle" /\ UNCHANGED pipes))
    BY <1>4 DEF End, Stop
  <2>2. CutShort /\ down' = <<>>
    BY <2>1, CutByClose DEF CutShort
  <2>3. clean => FreshAhead'
    BY <1>1, <2>1 DEF FreshAhead
  <2>4. FreshAhead => FreshAhead'
    BY <2>3 DEF FreshAhead
  <2> QED BY <1>1, <1>2, <2>2, <2>3, <2>4, ClosedKeepsInbound
<1> QED BY <1>3, <1>4

LEMMA OnConnackKeepsInbound ==
  ASSUME OutboxInv, OutboxInv', InboundInv, OnConnack
  PROVE  InboundInv'
<1>1. /\ down \in Seq(DownType) /\ down # <<>> /\ down' = Tail(down) /\ Head(down).pkt = "connack"
      /\ phase \in {"hello", "up"} /\ phase' = "up" /\ out \in Seq(RecType) /\ Head(down) = down[1]
      /\ 1 \in 1 .. Len(down) /\ OutOk(out, next, acked \cup dropped) /\ next \in Nat
  <2>1. /\ down \in Seq(DownType) /\ down # <<>> /\ down' = Tail(down) /\ Head(down).pkt = "connack"
        /\ phase \in {"hello", "up"} /\ phase' = "up" /\ out \in Seq(RecType)
    BY DEF OnConnack, Reads, OutboxInv, Types, PipeTypes, OutTypes
  <2>2. Head(down) = down[1] /\ Len(down) > 0
    BY <2>1, TailPicks
  <2>3. 1 \in 1 .. Len(down)
    BY <2>1, <2>2
  <2>4. OutOk(out, next, acked \cup dropped) /\ next \in Nat
    BY SizesAssumption DEF OutboxInv, OutInv, Types, CallerTypes
  <2> QED BY <2>1, <2>2, <2>3, <2>4
<1>2. phase = "hello"
  BY <1>1 DEF OutboxInv, ConnInv, ConnPhase
<1>3. UNCHANGED <<clean, up, kept, sending, given, got, finished, forgot>>
  BY DEF OnConnack, broker, peer
<1>4. Known' = Known /\ ~FreshAhead /\ ~FreshAhead'
  BY <1>1, <1>2 DEF OnConnack, Known, FreshAhead
<1>5. Less(down', down, OurPackets) /\ Less(up', up, OurAcks)
  BY <1>1, <1>3, TailIsLess, SameIsLess
<1>6. ASSUME NEW o \in Seq(RecType), NEW D, OutOk(o, next, D) PROVE Less(Rewound(o), o, OurAcks)
  <2>1. Len(Rewound(o)) = Len(o) /\ \A i \in 1 .. Len(o) : Alike(Rewound(o)[i], o[i])
    BY <1>1, <1>6, RewoundIsOk
  <2>2. \A i \in 1 .. Len(o) : Same(Rewound(o)[i], o[i])
    BY <2>1 DEF Alike, Same
  <2> QED BY <2>1, <2>2, MarkedIsLess
<1>7. Less(out', out, OurAcks)
  <2>1. CASE out' = Rewound(out)
    BY <1>1, <1>6, <2>1
  <2>2. CASE out' = Rewound(Settled(out))
    <3> DEFINE K == {j \in 1 .. Len(out) : out[j].kind # "rel"}
               o == Settled(out)
    <3>1. o = Only(out, K) /\ K \in SUBSET (1 .. Len(out))
      <4>1. DOMAIN out = 1 .. Len(out)
        BY <1>1
      <4> QED BY <4>1 DEF Settled
    <3> HIDE DEF K
    <3>2. o \in Seq(RecType) /\ Picks(o, out, K)
      BY <1>1, <3>1, OnlyPicks
    <3>3. OutOk(o, next, (acked \cup dropped) \cup Rels(out))
      BY <1>1, SettledIsOk
    <3> HIDE DEF o
    <3>4. Less(o, out, OurAcks)
      BY <1>1, <3>1, <3>2, PickedIsLess
    <3>5. Less(Rewound(o), o, OurAcks)
      BY <1>6, <3>2, <3>3
    <3>6. out' = Rewound(o)
      BY <2>2 DEF o
    <3> QED BY <3>4, <3>5, <3>6, LessOfLess
  <2> QED BY <2>1, <2>2 DEF OnConnack
<1>8. kept /\ (~clean /\ ~forgot => Known' = q2')
  BY <1>1, <1>2 DEF InboundInv, SessionInv, Known
<1> QED BY <1>3, <1>4, <1>5, <1>7, <1>8, LessKeepsInbound

\* Our own packets and their answers.
LEMMA BrokerAnswersKeepsInbound ==
  ASSUME OutboxInv, OutboxInv', InboundInv, BrokerTakes \/ BrokerReleases \/ BrokerSubscribes
  PROVE  InboundInv'
<1> DEFINE pkts == {"pub1", "pub2", "pubrel", "sub"}
<1>1. Takes(pkts) /\ pkts \in SUBSET (Calls \cup OurAcks)
  BY DEF BrokerTakes, BrokerReleases, BrokerSubscribes, Takes, Calls
<1>2. UNCHANGED <<clean, out, phase, q2, kept, sending, given, got, finished, forgot>>
  BY DEF BrokerTakes, BrokerReleases, BrokerSubscribes, client, broker, peer
<1>3. PICK q : Answers(<<q>>) /\ q.pkt \in Acks
  <2>1. CASE BrokerTakes
    BY <2>1 DEF BrokerTakes, Packet, Acks
  <2>2. CASE BrokerReleases
    BY <2>2 DEF BrokerReleases, Packet, Acks
  <2>3. CASE BrokerSubscribes
    BY <2>3 DEF BrokerSubscribes, Packet, Acks
  <2> QED BY <2>1, <2>2, <2>3
<1> HIDE DEF pkts
<1>4. /\ down \in Seq(DownType \cup {q}) /\ q \in DownType \cup {q} /\ q.pkt \notin OurPackets
      /\ up \in Seq(UpType) /\ up # <<>> /\ up' = Tail(up) /\ old \in Nat
  BY <1>1, <1>3 DEF OutboxInv, Types, PipeTypes, OurPackets, Acks, Takes
<1>5. down' = down \/ (old = 0 /\ down' = Append(down, q))
  <2>1. down \o <<q>> = Append(down, q)
    BY <1>4
  <2> QED BY <1>3, <1>4, <2>1 DEF Answers
<1>6. Less(down', down, OurPackets)
  BY <1>4, <1>5, AppendIsLess, SameIsLess
<1>7. Less(up', up, OurAcks)
  BY <1>4, TailIsLess
<1>8. Less(out', out, OurAcks)
  BY <1>2, SameIsLess
<1>9. (FreshAhead' <=> FreshAhead) /\ (phase = "hello" => down = <<>> /\ down' = <<>>)
  <2>1. FreshAhead' <=> FreshAhead
    BY <1>1, <1>2, <1>5, QuietHello
  <2>2. ASSUME phase = "hello" PROVE down = <<>> /\ down' = <<>>
    <3>1. Len(up) > 0 /\ Len(up) \in Nat /\ up[1].pkt # "connect"
      BY <1>1, TailIs DEF Calls, OurAcks
    <3>2. down = <<>>
      BY <1>4, <2>2 DEF OutboxInv, ConnInv, ConnPhase
    <3>3. old # 0
      BY <1>4, <2>2, <3>1, <3>2 DEF OutboxInv, ConnInv, ConnPhase
    <3> QED BY <1>5, <3>2, <3>3
  <2> QED BY <2>1, <2>2
<1>10. Known' = Known
  BY <1>2, <1>9 DEF Known
<1>11. /\ phase' = "up" \/ (phase' = "hello" /\ down' # <<>>) => kept
       /\ ~clean /\ ~forgot => Known' = q2'
  BY <1>2, <1>9, <1>10 DEF InboundInv, SessionInv
<1> QED BY <1>2, <1>6, <1>7, <1>8, <1>9, <1>10, <1>11, LessKeepsInbound

LEMMA DisjointIsUnused ==
  ASSUME NEW s, NEW T, NEW t, NEW V, Disjoint(s, T, t, V)
  PROVE  /\ \A k \in 1 .. Len(s) : s[k].pkt \in T => Unused(t, V, s[k].id)
         /\ \A k \in 1 .. Len(t) : t[k].pkt \in V => Unused(s, T, t[k].id)
BY DEF Disjoint, Unused

\* An answer is written: it leaves the outbox for the connection.
LEMMA AnswerIsWritten ==
  ASSUME OutboxInv, InboundInv, Flush, NEW j \in 1 .. Len(out), ToWrite(j), out[j].kind = "once",
         out' = RemoveAt(out, j), up' = Append(up, Packet(out[j].pkt, out[j].id, out[j].m))
  PROVE  InboundInv'
<1> DEFINE p == Packet(out[j].pkt, out[j].id, out[j].m)
           S == UpType \cup {p}
<1>1. UNCHANGED <<clean, phase, q2, down, kept, sending, given, got, finished, forgot>>
  BY DEF Flush, broker, peer
<1>2. Same(p, out[j]) /\ up' = Append(up, p)
  BY DEF Packet, Same
<1>3. out \in Seq(RecType) /\ up \in Seq(S) /\ p \in S /\ out[j].pkt \in OurAcks
  BY DEF OutboxInv, Types, OutTypes, PipeTypes, OutInv, OutOk, RecordOk
<1> HIDE DEF p, S
<1>4. /\ Single(out, OurAcks) /\ Disjoint(up, OurAcks, out, OurAcks) /\ Disjoint(down, OurPackets, out, OurAcks)
      /\ Apart(down, up, out)
  BY DEF InboundInv, TokenInv, Apart
<1>5. /\ \A i \in 1 .. Len(out') : \E k \in 1 .. Len(out) : k # j /\ out'[i] = out[k]
      /\ Less(out', out, OurAcks)
  <2>1. \A i \in 1 .. Len(out') : \E k \in 1 .. Len(out) : k # j /\ out'[i] = out[k]
    BY <1>3, RemovedParts, ZenonT(60)
  <2>2. /\ RemoveAt(out, j) \in Seq(RecType) /\ Picks(RemoveAt(out, j), out, (1 .. Len(out)) \ {j})
        /\ (1 .. Len(out)) \ {j} \in SUBSET (1 .. Len(out))
    BY <1>3, RemoveAtPicks
  <2>3. Less(out', out, OurAcks)
    BY <1>3, <2>2, PickedIsLess
  <2> QED BY <2>1, <2>3
<1>6. Unused(out', OurAcks, p.id) /\ Unused(up, OurAcks, p.id) /\ Unused(down, OurPackets, p.id)
  <2>1. Unused(out', OurAcks, p.id)
    BY <1>2, <1>3, <1>4, <1>5 DEF Unused, Single, Same
  <2>2. Unused(up, OurAcks, p.id) /\ Unused(down, OurPackets, p.id)
    BY <1>2, <1>3, <1>4, DisjointIsUnused DEF Same
  <2> QED BY <2>1, <2>2
<1>7. Apart(down, up, out')
  BY <1>4, <1>5, SameIsLess, LessIsApart
<1>8. Apart(down', up', out')
  <2>1. /\ Single(up', OurAcks)
        /\ \A t, V : Disjoint(t, V, up, OurAcks) /\ Unused(t, V, p.id) => Disjoint(t, V, up', OurAcks)
        /\ \A t, V : Disjoint(up, OurAcks, t, V) /\ Unused(t, V, p.id) => Disjoint(up', OurAcks, t, V)
    BY <1>2, <1>3, <1>4, <1>6, AppendIsSingle DEF Apart
  <2> QED BY <1>1, <1>6, <1>7, <2>1 DEF Apart
<1>9. \A k \in 1 .. Len(up') : (k \in 1 .. Len(up) /\ up'[k] = up[k]) \/ up'[k] = p
  <2>1. Len(up') = Len(up) + 1 /\ Len(up) \in Nat /\ up'[Len(up) + 1] = p /\ \A k \in 1 .. Len(up) : up'[k] = up[k]
    BY <1>2, <1>3, AppendProperties
  <2> QED BY <2>1
<1>10. Known' = Known /\ (FreshAhead' <=> FreshAhead) /\ (InStep' <=> InStep)
  BY <1>1 DEF Known, FreshAhead, InStep
<1>11. FitsUp'
  <2>1. SUFFICES ASSUME NEW k \in 1 .. Len(up'), up'[k].pkt \in OurAcks
                 PROVE  \E i \in 1 .. Len(sending) : AnswerFits(sending[i], up[k])'
    BY <1>1 DEF FitsUp
  <2>2. CASE k \in 1 .. Len(up) /\ up'[k] = up[k]
    <3>1. PICK i \in 1 .. Len(sending) : AnswerFits(sending[i], up[k])
      BY <2>1, <2>2 DEF InboundInv, TokenInv, FitsUp
    <3> QED BY <1>1, <1>10, <2>2, <3>1 DEF AnswerFits
  <2>3. CASE up'[k] = p
    <3>1. PICK i \in 1 .. Len(sending) : AnswerFits(sending[i], out[j])
      BY <1>3 DEF InboundInv, TokenInv, FitsOut
    <3> QED BY <1>1, <1>2, <1>10, <2>3, <3>1 DEF AnswerFits, Same
  <2> QED BY <1>9, <2>2, <2>3
<1>12. FitsOut'
  <2>1. SUFFICES ASSUME NEW k \in 1 .. Len(out'), out'[k].pkt \in OurAcks
                 PROVE  \E i \in 1 .. Len(sending) : AnswerFits(sending[i], out[k])'
    BY <1>1 DEF FitsOut
  <2>2. PICK l \in 1 .. Len(out) : out'[k] = out[l]
    BY <1>5
  <2>3. PICK i \in 1 .. Len(sending) : AnswerFits(sending[i], out[l])
    BY <2>1, <2>2 DEF InboundInv, TokenInv, FitsOut
  <2> QED BY <1>1, <1>10, <2>2, <2>3 DEF AnswerFits
<1>13. FitsDown'
  BY <1>1 DEF InboundInv, TokenInv, FitsDown, Pushed
<1>14. EntryInv' /\ ReceivedOnce'
  BY <1>1, <1>10 DEF InboundInv, EntryInv, EntryOk, ReceivedOnce
<1>15. KnownInv'
  <2>1. SUFFICES ASSUME InStep, ~FreshAhead
                 PROVE  /\ \A x \in Known : KnownFits(x)'
                        /\ \A k \in 1 .. Len(up') : up'[k].pkt = "pubcomp" => up'[k].id \notin Known
                        /\ \A k \in 1 .. Len(out') : out'[k].pkt = "pubcomp" => out'[k].id \notin Known
    BY <1>10 DEF KnownInv
  <2>2. \A x \in Known : KnownFits(x)'
    BY <1>1, <2>1 DEF InboundInv, KnownInv, KnownFits
  <2>3. \A k \in 1 .. Len(up') : up'[k].pkt = "pubcomp" => up'[k].id \notin Known
    BY <1>2, <1>9, <2>1 DEF InboundInv, KnownInv, Same
  <2>4. \A k \in 1 .. Len(out') : out'[k].pkt = "pubcomp" => out'[k].id \notin Known
    BY <1>5, <2>1 DEF InboundInv, KnownInv
  <2> QED BY <2>2, <2>3, <2>4
<1>16. SessionInv'
  BY <1>1, <1>10 DEF InboundInv, SessionInv
<1> QED BY <1>8, <1>11, <1>12, <1>13, <1>14, <1>15, <1>16 DEF InboundInv, TokenInv

LEMMA FlushKeepsInbound ==
  ASSUME OutboxInv, OutboxInv', InboundInv, Flush
  PROVE  InboundInv'
<1>1. /\ out \in Seq(RecType) /\ up \in Seq(UpType) /\ DOMAIN out = 1 .. Len(out)
      /\ \A j \in 1 .. Len(out) : RecordOk(out[j], next) /\ out[j].kind \in Kinds
  <2>1. out \in Seq(RecType) /\ up \in Seq(UpType) /\ DOMAIN out = 1 .. Len(out)
    BY DEF OutboxInv, Types, OutTypes, PipeTypes
  <2>2. ASSUME NEW j \in 1 .. Len(out) PROVE RecordOk(out[j], next) /\ out[j].kind \in Kinds
    <3>1. out[j] \in RecType
      BY <2>1
    <3> QED BY <3>1 DEF RecType, OutboxInv, OutInv, OutOk
  <2> QED BY <2>1, <2>2
<1>2. PICK j \in 1 .. Len(out) :
        /\ ToWrite(j)
        /\ up' = Append(up, Packet(out[j].pkt, out[j].id, out[j].m))
        /\ out' = IF out[j].kind \in KeptKinds THEN [out EXCEPT ![j].sent = "sent"] ELSE RemoveAt(out, j)
  BY <1>1 DEF Flush
<1>3. UNCHANGED <<clean, phase, q2, down, kept, sending, given, got, finished, forgot>>
  BY DEF Flush, broker, peer
<1>4. CASE out[j].kind = "once"
  <2>1. out' = RemoveAt(out, j)
    BY <1>2, <1>4 DEF KeptKinds
  <2> QED BY <1>2, <1>4, <2>1, AnswerIsWritten
<1>5. CASE out[j].kind # "once"
  <2> DEFINE p == Packet(out[j].pkt, out[j].id, out[j].m)
  <2>1. p.pkt \notin OurAcks
    <3>1. p.pkt = out[j].pkt
      BY DEF Packet
    <3>2. RecordOk(out[j], next) /\ out[j].kind \in Kinds
      BY <1>1
    <3> HIDE DEF p
    <3>3. out[j].pkt \notin OurAcks
      BY <1>5, <3>2 DEF RecordOk, Kinds, KeptKinds, WireOf, OurAcks
    <3> QED BY <3>1, <3>3
  <2> HIDE DEF p
  <2>2. up \in Seq(UpType \cup {p}) /\ p \in UpType \cup {p} /\ up' = Append(up, p)
    BY <1>1, <1>2 DEF p
  <2>3. Less(up', up, OurAcks)
    BY <2>1, <2>2, AppendIsLess
  <2>4. Less(out', out, OurAcks)
    <3>1. CASE out[j].kind \in KeptKinds
      <4>1. out' = [out EXCEPT ![j].sent = "sent"]
        BY <1>2, <3>1
      <4>2. Len(out') = Len(out)
        BY <1>1, <4>1
      <4>3. ASSUME NEW k \in 1 .. Len(out) PROVE Same(out'[k], out[k])
        <5>1. out[k] \in RecType
          BY <1>1
        <5>2. CASE k = j
          <6>1. out'[k] = [out[k] EXCEPT !.sent = "sent"]
            BY <1>1, <4>1, <5>2
          <6> QED BY <5>1, <6>1 DEF RecType, Same
        <5>3. CASE k # j
          <6>1. out'[k] = out[k]
            BY <1>1, <4>1, <5>3
          <6> QED BY <6>1 DEF Same
        <5> QED BY <5>2, <5>3
      <4> QED BY <4>2, <4>3, MarkedIsLess
    <3>2. CASE out[j].kind \notin KeptKinds
      <4>1. /\ out' = RemoveAt(out, j) /\ RemoveAt(out, j) \in Seq(RecType)
            /\ Picks(RemoveAt(out, j), out, (1 .. Len(out)) \ {j})
            /\ (1 .. Len(out)) \ {j} \in SUBSET (1 .. Len(out))
        BY <1>1, <1>2, <3>2, RemoveAtPicks
      <4> QED BY <1>1, <4>1, PickedIsLess
    <3> QED BY <3>1, <3>2
  <2>5. Less(down', down, OurPackets)
    BY <1>3, SameIsLess
  <2>6. Known' = Known /\ (FreshAhead' <=> FreshAhead)
    BY <1>3 DEF Known, FreshAhead
  <2>7. /\ phase' = "up" \/ (phase' = "hello" /\ down' # <<>>) => kept
        /\ ~clean /\ ~forgot => Known' = q2'
    BY <1>3, <2>6 DEF InboundInv, SessionInv
  <2> QED BY <1>3, <2>3, <2>4, <2>5, <2>6, <2>7, LessKeepsInbound
<1> QED BY <1>4, <1>5

\* One of the broker's messages is read, and its answer queued.
Answering(pkt, a) ==
  /\ Reads(pkt) /\ pkt \in OurPackets /\ a \in OurAcks
  /\ out' = Append(out, Rec("once", a, down[1].id, 0))
  /\ UNCHANGED <<clean, phase, up, kept, sending, given, finished, forgot>>

LEMMA AnswerIsApart ==
  ASSUME OutboxInv, InboundInv, NEW pkt, NEW a, Answering(pkt, a)
  PROVE  /\ Apart(down', up', out')
         /\ Unused(up, OurAcks, down[1].id) /\ Unused(out, OurAcks, down[1].id)
         /\ \A k \in 1 .. Len(down') : \E j \in 1 .. Len(down) : down'[k] = down[j]
         /\ \A k \in 1 .. Len(out') :
              (k \in 1 .. Len(out) /\ out'[k] = out[k]) \/ (out'[k].pkt = a /\ out'[k].id = down[1].id)
<1> DEFINE r == Rec("once", a, down[1].id, 0)
           S == RecType \cup {r}
<1>1. /\ down \in Seq(DownType) /\ down # <<>> /\ down' = Tail(down) /\ Len(down) > 0 /\ Len(down) \in Nat
      /\ Len(down') = Len(down) - 1 /\ \A i \in 1 .. Len(down') : down'[i] = down[i + 1]
      /\ down[1].pkt = pkt /\ pkt \in OurPackets
  <2>1. pkt \in Acks \cup OurPackets /\ Reads(pkt)
    BY DEF Answering
  <2>2. /\ down \in Seq(DownType) /\ down # <<>> /\ down' = Tail(down) /\ Len(down) > 0
        /\ down[1].pkt = pkt /\ Len(down') = Len(down) - 1 /\ \A i \in 1 .. Len(down') : down'[i] = down[i + 1]
    BY <2>1, ReadIsUp
  <2>3. Len(down) \in Nat
    BY <2>2
  <2> QED BY <2>2, <2>3 DEF Answering
<1>2. r.id = down[1].id /\ r.pkt = a /\ out' = Append(out, r) /\ up' = up
  BY DEF Rec, Answering
<1>3. out \in Seq(S) /\ r \in S
  BY DEF OutboxInv, Types, OutTypes
<1> HIDE DEF r, S
<1>4. /\ Apart(down, up, out) /\ Single(down, OurPackets) /\ Single(out, OurAcks)
      /\ Disjoint(down, OurPackets, up, OurAcks) /\ Disjoint(down, OurPackets, out, OurAcks)
  BY DEF InboundInv, TokenInv, Apart
<1>5. Less(down', down, OurPackets) /\ Unused(down', OurPackets, r.id)
  BY <1>1, <1>2, <1>4, TailIsLess
<1>6. Unused(up, OurAcks, r.id) /\ Unused(out, OurAcks, r.id)
  <2>1. 1 \in 1 .. Len(down)
    BY <1>1
  <2> QED BY <1>1, <1>2, <1>4, <2>1, DisjointIsUnused
<1>7. Apart(down', up, out)
  BY <1>4, <1>5, SameIsLess, LessIsApart
<1>8. Apart(down', up', out')
  <2>1. /\ Single(out', OurAcks)
        /\ \A t, V : Disjoint(t, V, out, OurAcks) /\ Unused(t, V, r.id) => Disjoint(t, V, out', OurAcks)
    BY <1>2, <1>3, <1>4, <1>6, AppendIsSingle
  <2> QED BY <1>2, <1>5, <1>6, <1>7, <2>1 DEF Apart
<1>9. \A k \in 1 .. Len(down') : \E j \in 1 .. Len(down) : down'[k] = down[j]
  <2>1. \A k \in 1 .. Len(down') : k + 1 \in 1 .. Len(down) /\ down'[k] = down[k + 1]
    BY <1>1
  <2> QED BY <2>1
<1>10. \A k \in 1 .. Len(out') : (k \in 1 .. Len(out) /\ out'[k] = out[k]) \/ out'[k] = r
  <2>1. Len(out') = Len(out) + 1 /\ Len(out) \in Nat /\ out'[Len(out) + 1] = r /\ \A k \in 1 .. Len(out) : out'[k] = out[k]
    BY <1>2, <1>3, AppendProperties
  <2> QED BY <2>1
<1> QED BY <1>2, <1>6, <1>8, <1>9, <1>10

LEMMA AnswerFitsToo ==
  ASSUME OutboxInv, InboundInv, NEW pkt, NEW a, Answering(pkt, a),
         \A m \in Inbound : got[m] >= 1 => got'[m] >= 1,
         \E i \in 1 .. Len(sending) : \A p : p.pkt = a /\ p.id = down[1].id => AnswerFits(sending[i], p)'
  PROVE  TokenInv'
<1>1. /\ UNCHANGED <<clean, up, sending, given, forgot>> /\ (InStep' <=> InStep)
      /\ \A i \in 1 .. Len(sending) : sending[i].m \in Inbound
  <2>1. UNCHANGED <<clean, up, sending, given, forgot>>
    BY DEF Answering
  <2>2. Len(given) \in Nat /\ Len(given) <= Len(InQos) /\ Len(InQos) \in Nat
    BY SizesAssumption DEF OutboxInv, Types, PeerTypes
  <2>3. \A i \in 1 .. Len(sending) : sending[i].m \in 1 .. Len(given)
    BY DEF InboundInv, EntryInv, EntryOk
  <2>4. 1 .. Len(given) \subseteq Inbound
    BY <2>2 DEF Inbound
  <2> QED BY <2>1, <2>3, <2>4 DEF InStep
<1>2. /\ Apart(down', up', out')
      /\ \A k \in 1 .. Len(down') : \E j \in 1 .. Len(down) : down'[k] = down[j]
      /\ \A k \in 1 .. Len(out') :
           (k \in 1 .. Len(out) /\ out'[k] = out[k]) \/ (out'[k].pkt = a /\ out'[k].id = down[1].id)
  BY AnswerIsApart
<1>3. ASSUME NEW p, NEW i \in 1 .. Len(sending), AnswerFits(sending[i], p)
      PROVE  AnswerFits(sending[i], p)'
  BY <1>1, <1>3 DEF AnswerFits
<1>4. FitsDown'
  <2>1. SUFFICES ASSUME NEW k \in 1 .. Len(down'), down'[k].pkt \in OurPackets
                 PROVE  \E i \in 1 .. Len(sending) : Pushed(sending[i], down[k])'
    BY <1>1 DEF FitsDown
  <2>2. PICK j \in 1 .. Len(down) : down'[k] = down[j]
    BY <1>2
  <2>3. PICK i \in 1 .. Len(sending) : Pushed(sending[i], down[j])
    BY <2>1, <2>2 DEF InboundInv, TokenInv, FitsDown
  <2> QED BY <1>1, <2>2, <2>3 DEF Pushed
<1>5. FitsUp'
  <2>1. SUFFICES ASSUME NEW k \in 1 .. Len(up'), up'[k].pkt \in OurAcks
                 PROVE  \E i \in 1 .. Len(sending) : AnswerFits(sending[i], up[k])'
    BY <1>1 DEF FitsUp
  <2>2. PICK i \in 1 .. Len(sending) : AnswerFits(sending[i], up[k])
    BY <1>1, <2>1 DEF InboundInv, TokenInv, FitsUp
  <2>3. up'[k] = up[k]
    BY <1>1
  <2> QED BY <1>1, <1>3, <2>2, <2>3 DEF AnswerFits
<1>6. FitsOut'
  <2>1. SUFFICES ASSUME NEW k \in 1 .. Len(out'), out'[k].pkt \in OurAcks
                 PROVE  \E i \in 1 .. Len(sending) : AnswerFits(sending[i], out[k])'
    BY <1>1 DEF FitsOut
  <2>2. CASE k \in 1 .. Len(out) /\ out'[k] = out[k]
    <3>1. PICK i \in 1 .. Len(sending) : AnswerFits(sending[i], out[k])
      BY <2>1, <2>2 DEF InboundInv, TokenInv, FitsOut
    <3> QED BY <1>1, <1>3, <2>2, <3>1 DEF AnswerFits
  <2>3. CASE out'[k].pkt = a /\ out'[k].id = down[1].id
    <3>1. PICK i \in 1 .. Len(sending) : \A p : p.pkt = a /\ p.id = down[1].id => AnswerFits(sending[i], p)'
      OBVIOUS
    <3> QED BY <1>1, <2>3, <3>1 DEF AnswerFits
  <2> QED BY <1>2, <2>2, <2>3
<1> QED BY <1>2, <1>4, <1>5, <1>6 DEF TokenInv

LEMMA DeliveredIs ==
  ASSUME OutboxInv, NEW m \in Inbound, Delivered(m)
  PROVE  /\ got'[m] = got[m] + 1 /\ got[m] \in Nat /\ got'[m] >= 1
         /\ \A j \in Inbound : j # m => got'[j] = got[j]
         /\ \A j \in Inbound : got[j] >= 1 => got'[j] >= 1
<1>1. got \in [Inbound -> Nat] /\ got' = [got EXCEPT ![m] = got[m] + 1]
  BY DEF Delivered, OutboxInv, Types, PeerTypes
<1>2. got[m] \in Nat /\ got'[m] = got[m] + 1 /\ \A j \in Inbound : j # m => got'[j] = got[j]
  BY <1>1
<1>3. got'[m] >= 1
  BY <1>2
<1>4. \A j \in Inbound : got[j] >= 1 => got'[j] >= 1
  BY <1>2, <1>3
<1> QED BY <1>2, <1>3, <1>4

LEMMA MessageIsRead ==
  ASSUME OutboxInv, InboundInv, NEW pkt, NEW a, Answering(pkt, a)
  PROVE  /\ kept /\ Known = q2 /\ Known' = q2' /\ ~FreshAhead /\ ~FreshAhead' /\ (InStep' <=> InStep)
         /\ down[1].pkt = pkt /\ Head(down) = down[1] /\ \E i \in 1 .. Len(sending) : Pushed(sending[i], down[1])
         /\ \A i \in 1 .. Len(sending) : sending[i].m \in Inbound /\ sending[i].m <= Len(given)
         /\ \A i \in 1 .. Len(given) : i \in Inbound
<1>1. pkt \in Acks \cup OurPackets /\ Reads(pkt)
  BY DEF Answering
<1>2. /\ phase = "up" /\ down[1].pkt = pkt /\ Head(down) = down[1]
      /\ 1 \in 1 .. Len(down)
  <2>1. /\ phase = "up" /\ down[1].pkt = pkt /\ Head(down) = down[1]
        /\ Len(down) > 0 /\ down \in Seq(DownType)
    BY <1>1, ReadIsUp
  <2>2. Len(down) \in Nat
    BY <2>1
  <2> QED BY <2>1, <2>2
<1>3. kept /\ Known = q2 /\ Known' = q2' /\ ~FreshAhead /\ ~FreshAhead' /\ (InStep' <=> InStep)
  BY <1>2 DEF Answering, Known, FreshAhead, InStep, InboundInv, SessionInv
<1>4. \E i \in 1 .. Len(sending) : Pushed(sending[i], down[1])
  BY <1>2 DEF InboundInv, TokenInv, FitsDown, Answering
<1>5. Len(given) \in Nat /\ Len(given) <= Len(InQos) /\ Len(InQos) \in Nat
  BY SizesAssumption DEF OutboxInv, Types, PeerTypes
<1>6. \A i \in 1 .. Len(given) : i \in Inbound /\ i <= Len(given)
  BY <1>5 DEF Inbound
<1>7. \A i \in 1 .. Len(sending) : sending[i].m \in 1 .. Len(given)
  BY DEF InboundInv, EntryInv, EntryOk
<1> QED BY <1>2, <1>3, <1>4, <1>6, <1>7

LEMMA OnPublish1KeepsInbound ==
  ASSUME OutboxInv, OutboxInv', InboundInv, OnPublish1
  PROVE  InboundInv'
<1> DEFINE m == down[1].m
<1>1. Answering("pub1", "puback") /\ Delivered(m) /\ q2' = q2
  <2>1. "pub1" \in OurPackets /\ "puback" \in OurAcks /\ Reads("pub1")
    BY DEF OurPackets, OurAcks, OnPublish1
  <2>2. Head(down) = down[1]
    BY <2>1, ReadIsUp
  <2> QED BY <2>1, <2>2 DEF OnPublish1, Answering, peer, broker
<1>2. UNCHANGED <<clean, phase, up, kept, sending, given, finished, forgot>>
  BY <1>1 DEF Answering
<1>3. /\ kept /\ Known = q2 /\ Known' = q2' /\ ~FreshAhead /\ ~FreshAhead' /\ (InStep' <=> InStep)
      /\ down[1].pkt = "pub1"
      /\ \A i \in 1 .. Len(sending) : sending[i].m \in Inbound /\ sending[i].m <= Len(given)
      /\ \A i \in 1 .. Len(given) : i \in Inbound
  BY <1>1, MessageIsRead
<1>4. PICK e \in 1 .. Len(sending) : Pushed(sending[e], down[1])
  BY <1>1, MessageIsRead
<1>5. sending[e].m = m /\ sending[e].id = down[1].id /\ given[m] = 1 /\ m \in Inbound /\ m <= Len(given)
  BY <1>3, <1>4 DEF Pushed
<1>6. /\ got'[m] >= 1
      /\ \A j \in Inbound : j # m => got'[j] = got[j]
      /\ \A j \in Inbound : got[j] >= 1 => got'[j] >= 1
  BY <1>1, <1>5, DeliveredIs
<1> HIDE DEF m
<1>7. TokenInv'
  <2>1. \A p : p.pkt = "puback" /\ p.id = down[1].id => AnswerFits(sending[e], p)'
    BY <1>2, <1>5, <1>6 DEF AnswerFits
  <2> QED BY <1>1, <1>6, <2>1, AnswerFitsToo
<1>8. EntryInv'
  <2>1. ASSUME NEW i \in 1 .. Len(sending) PROVE EntryOk(sending[i])'
    <3>1. EntryOk(sending[i])
      BY DEF InboundInv, EntryInv
    <3>2. sending[i].m \in Inbound /\ (given[sending[i].m] = 2 => sending[i].m # m)
      BY <1>3, <1>5
    <3> QED BY <1>1, <1>2, <1>3, <1>5, <1>6, <3>1, <3>2 DEF EntryOk
  <2>2. \A i \in Inbound : i > Len(given) => got'[i] = 0
    <3>1. \A i \in Inbound : i > Len(given) => i # m
      <4>1. Len(given) \in Nat /\ m \in Nat
        BY <1>5 DEF OutboxInv, Types, PeerTypes, Inbound
      <4> QED BY <1>5, <4>1
    <3> QED BY <1>6, <3>1 DEF InboundInv, EntryInv
  <2> QED BY <1>2, <2>1, <2>2 DEF InboundInv, EntryInv
<1>9. ReceivedOnce'
  <2>1. DOMAIN given = 1 .. Len(given)
    BY DEF OutboxInv, Types, PeerTypes
  <2>2. \A i \in DOMAIN given : given[i] = 2 => got'[i] <= 1
    BY <1>3, <1>5, <1>6, <2>1 DEF InboundInv, ReceivedOnce
  <2>3. clean \/ ~forgot => \A i \in finished : got'[i] >= 1
    BY <1>3, <1>6 DEF InboundInv, ReceivedOnce, EntryInv
  <2> QED BY <1>2, <2>2, <2>3 DEF ReceivedOnce
<1>10. KnownInv'
  <2>1. \A k \in 1 .. Len(out') :
          (k \in 1 .. Len(out) /\ out'[k] = out[k]) \/ (out'[k].pkt = "puback" /\ out'[k].id = down[1].id)
    BY <1>1, AnswerIsApart
  <2>2. ASSUME InStep, NEW x \in q2 PROVE KnownFits(x)'
    <3>1. PICK i \in 1 .. Len(sending) : sending[i].id = x /\ given[sending[i].m] = 2 /\ got[sending[i].m] >= 1
      BY <1>3, <2>2 DEF InboundInv, KnownInv, KnownFits
    <3> QED BY <1>2, <1>3, <1>6, <3>1 DEF KnownFits
  <2> QED BY <1>1, <1>2, <1>3, <2>1, <2>2 DEF InboundInv, KnownInv
<1>11. SessionInv'
  BY <1>2, <1>3 DEF InboundInv, SessionInv
<1> QED BY <1>7, <1>8, <1>9, <1>10, <1>11 DEF InboundInv

\* The table of the ids of QoS 2 messages has room for the one that is read.
RoomForId == OnPublish2 => Head(down).id \in q2 \/ Cardinality(q2) < Q2Max

LEMMA OnPublish2KeepsInbound ==
  ASSUME OutboxInv, OutboxInv', InboundInv, OnPublish2, RoomForId
  PROVE  InboundInv'
<1> DEFINE m == down[1].m
           x == down[1].id
<1>1. Answering("pub2", "pubrec")
  <2>1. "pub2" \in OurPackets /\ "pubrec" \in OurAcks /\ Reads("pub2")
    BY DEF OurPackets, OurAcks, OnPublish2
  <2>2. Head(down) = down[1]
    BY <2>1, ReadIsUp
  <2> QED BY <2>1, <2>2 DEF OnPublish2, Answering, peer, broker
<1>2. UNCHANGED <<clean, phase, up, kept, sending, given, finished, forgot>>
  BY <1>1 DEF Answering
<1>3. /\ kept /\ Known = q2 /\ Known' = q2' /\ ~FreshAhead /\ ~FreshAhead' /\ (InStep' <=> InStep)
      /\ down[1].pkt = "pub2" /\ Head(down) = down[1]
      /\ \A i \in 1 .. Len(sending) : sending[i].m \in Inbound /\ sending[i].m <= Len(given)
      /\ \A i \in 1 .. Len(given) : i \in Inbound
  BY <1>1, MessageIsRead
<1>4. PICK e \in 1 .. Len(sending) : Pushed(sending[e], down[1])
  BY <1>1, MessageIsRead
<1>5. /\ sending[e].m = m /\ sending[e].id = x /\ given[m] = 2 /\ ~sending[e].released
      /\ m \in Inbound /\ m <= Len(given) /\ got[m] \in Nat
  BY <1>3, <1>4 DEF Pushed, OutboxInv, Types, PeerTypes
<1>6. ASSUME x \in q2 PROVE q2' = q2 /\ got' = got /\ (InStep => got[m] >= 1)
  <2>1. q2' = q2 /\ got' = got
    BY <1>3, <1>6 DEF OnPublish2
  <2>2. InStep => got[m] >= 1
    <3>1. SUFFICES ASSUME InStep PROVE got[m] >= 1
      OBVIOUS
    <3>2. PICK i \in 1 .. Len(sending) : sending[i].id = x /\ given[sending[i].m] = 2 /\ got[sending[i].m] >= 1
      BY <1>3, <1>6, <3>1 DEF InboundInv, KnownInv, KnownFits
    <3>3. i = e
      BY <1>5, <3>2 DEF InboundInv, EntryInv
    <3> QED BY <1>5, <3>2, <3>3
  <2> QED BY <2>1, <2>2
<1>7. ASSUME x \notin q2 PROVE q2' = q2 \cup {x} /\ Delivered(m) /\ got[m] = 0
  <2>1. q2' = q2 \cup {x} /\ Delivered(m)
    BY <1>3, <1>7 DEF OnPublish2, RoomForId, Remembered
  <2>2. got[m] = 0
    <3>1. EntryOk(sending[e])
      BY DEF InboundInv, EntryInv
    <3>2. ~(got[m] >= 1)
      BY <1>3, <1>5, <1>7, <3>1 DEF EntryOk
    <3> QED BY <1>5, <3>2
  <2> QED BY <2>1, <2>2
<1>8. /\ q2 \subseteq q2' /\ x \in q2' /\ q2' \subseteq q2 \cup {x}
      /\ InStep => got'[m] >= 1
      /\ got'[m] <= 1 \/ got'[m] = got[m]
      /\ \A j \in Inbound : j # m => got'[j] = got[j]
      /\ \A j \in Inbound : got[j] >= 1 => got'[j] >= 1
  <2>1. CASE x \in q2
    BY <1>6, <2>1
  <2>2. CASE x \notin q2
    <3>1. q2' = q2 \cup {x} /\ Delivered(m) /\ got[m] = 0
      BY <1>7, <2>2
    <3>2. /\ got'[m] = got[m] + 1
          /\ \A j \in Inbound : j # m => got'[j] = got[j]
          /\ \A j \in Inbound : got[j] >= 1 => got'[j] >= 1
      BY <1>5, <3>1, DeliveredIs
    <3>3. got'[m] = 1
      BY <3>1, <3>2
    <3> QED BY <3>1, <3>2, <3>3
  <2> QED BY <2>1, <2>2
<1> HIDE DEF m, x
<1>9. TokenInv'
  <2>1. \A p : p.pkt = "pubrec" /\ p.id = down[1].id => AnswerFits(sending[e], p)'
    BY <1>2, <1>3, <1>5, <1>8 DEF AnswerFits, x
  <2> QED BY <1>1, <1>8, <2>1, AnswerFitsToo
<1>10. EntryInv'
  <2>1. ASSUME NEW i \in 1 .. Len(sending) PROVE EntryOk(sending[i])'
    <3>1. EntryOk(sending[i])
      BY DEF InboundInv, EntryInv
    <3>2. sending[i].m \in Inbound
      BY <1>3
    <3>3. CASE i = e
      BY <1>2, <1>3, <1>5, <1>8, <3>1, <3>3 DEF EntryOk
    <3>4. CASE i # e
      <4>1. sending[i].m # m
        BY <1>5, <3>4 DEF InboundInv, EntryInv
      <4>2. got'[sending[i].m] = got[sending[i].m]
        BY <1>8, <3>2, <4>1
      <4> QED BY <1>2, <1>3, <1>8, <3>1, <4>2 DEF EntryOk
    <3> QED BY <3>3, <3>4
  <2>2. \A i \in Inbound : i > Len(given) => got'[i] = 0
    <3>1. \A i \in Inbound : i > Len(given) => i # m
      <4>1. Len(given) \in Nat /\ m \in Nat
        BY <1>5 DEF OutboxInv, Types, PeerTypes, Inbound
      <4> QED BY <1>5, <4>1
    <3> QED BY <1>8, <3>1 DEF InboundInv, EntryInv
  <2> QED BY <1>2, <2>1, <2>2 DEF InboundInv, EntryInv
<1>11. ReceivedOnce'
  <2>1. DOMAIN given = 1 .. Len(given)
    BY DEF OutboxInv, Types, PeerTypes
  <2>2. ASSUME NEW i \in DOMAIN given, given[i] = 2 PROVE got'[i] <= 1
    <3>1. i \in Inbound /\ got[i] <= 1
      BY <1>3, <2>1, <2>2 DEF InboundInv, ReceivedOnce
    <3> QED BY <1>8, <3>1
  <2>3. clean \/ ~forgot => \A i \in finished : got'[i] >= 1
    BY <1>3, <1>8 DEF InboundInv, ReceivedOnce, EntryInv
  <2> QED BY <1>2, <2>2, <2>3 DEF ReceivedOnce
<1>12. KnownInv'
  <2>1. \A k \in 1 .. Len(out') :
          (k \in 1 .. Len(out) /\ out'[k] = out[k]) \/ (out'[k].pkt = "pubrec" /\ out'[k].id = down[1].id)
    BY <1>1, AnswerIsApart
  <2>2. Unused(up, OurAcks, x) /\ Unused(out, OurAcks, x)
    BY <1>1, AnswerIsApart DEF x
  <2>3. ASSUME InStep, NEW y \in q2' PROVE KnownFits(y)'
    <3>1. CASE y = x
      BY <1>2, <1>5, <1>8, <2>3, <3>1 DEF KnownFits
    <3>2. CASE y \in q2
      <4>1. PICK i \in 1 .. Len(sending) : sending[i].id = y /\ given[sending[i].m] = 2 /\ got[sending[i].m] >= 1
        BY <1>3, <2>3, <3>2 DEF InboundInv, KnownInv, KnownFits
      <4> QED BY <1>2, <1>3, <1>8, <4>1 DEF KnownFits
    <3> QED BY <1>8, <2>3, <3>1, <3>2
  <2>4. ASSUME InStep, NEW k \in 1 .. Len(up), up[k].pkt = "pubcomp" PROVE up[k].id \notin q2'
    <3>1. up[k].id \notin q2 /\ up[k].id # x
      BY <1>3, <2>2, <2>4 DEF InboundInv, KnownInv, Unused, OurAcks
    <3> QED BY <1>8, <3>1
  <2>5. ASSUME InStep, NEW k \in 1 .. Len(out'), out'[k].pkt = "pubcomp" PROVE out'[k].id \notin q2'
    <3>1. k \in 1 .. Len(out) /\ out'[k] = out[k]
      BY <2>1, <2>5
    <3>2. out[k].id \notin q2 /\ out[k].id # x
      BY <1>3, <2>2, <2>5, <3>1 DEF InboundInv, KnownInv, Unused, OurAcks
    <3> QED BY <1>8, <3>1, <3>2
  <2> QED BY <1>2, <1>3, <2>3, <2>4, <2>5 DEF KnownInv
<1>13. SessionInv'
  BY <1>2, <1>3 DEF InboundInv, SessionInv
<1> QED BY <1>9, <1>10, <1>11, <1>12, <1>13 DEF InboundInv

LEMMA OnPubrelKeepsInbound ==
  ASSUME OutboxInv, OutboxInv', InboundInv, OnPubrel
  PROVE  InboundInv'
<1> DEFINE x == down[1].id
<1>1. Answering("pubrel", "pubcomp") /\ q2' = q2 \ {x} /\ got' = got
  <2>1. "pubrel" \in OurPackets /\ "pubcomp" \in OurAcks /\ Reads("pubrel")
    BY DEF OurPackets, OurAcks, OnPubrel
  <2>2. Head(down) = down[1]
    BY <2>1, ReadIsUp
  <2> QED BY <2>1, <2>2 DEF OnPubrel, Answering, peer, broker
<1>2. UNCHANGED <<clean, phase, up, kept, sending, given, finished, forgot>>
  BY <1>1 DEF Answering
<1>3. /\ kept /\ Known = q2 /\ Known' = q2' /\ ~FreshAhead /\ ~FreshAhead' /\ (InStep' <=> InStep)
      /\ down[1].pkt = "pubrel"
  BY <1>1, MessageIsRead
<1>4. PICK e \in 1 .. Len(sending) : Pushed(sending[e], down[1])
  BY <1>1, MessageIsRead
<1>5. sending[e].id = x /\ given[sending[e].m] = 2 /\ sending[e].released
  BY <1>3, <1>4 DEF Pushed
<1> HIDE DEF x
<1>6. TokenInv'
  <2>1. \A p : p.pkt = "pubcomp" /\ p.id = down[1].id => AnswerFits(sending[e], p)'
    BY <1>2, <1>5 DEF AnswerFits, x
  <2> QED BY <1>1, <2>1, AnswerFitsToo
<1>7. EntryInv'
  <2>1. ASSUME NEW i \in 1 .. Len(sending) PROVE EntryOk(sending[i])'
    <3>1. EntryOk(sending[i])
      BY DEF InboundInv, EntryInv
    <3>2. ~sending[i].released => sending[i].id # x
      BY <1>5 DEF InboundInv, EntryInv
    <3> QED BY <1>1, <1>2, <1>3, <3>1, <3>2 DEF EntryOk
  <2> QED BY <1>1, <1>2, <2>1 DEF InboundInv, EntryInv
<1>8. ReceivedOnce'
  BY <1>1, <1>2 DEF InboundInv, ReceivedOnce
<1>9. KnownInv'
  <2>1. \A k \in 1 .. Len(out') :
          (k \in 1 .. Len(out) /\ out'[k] = out[k]) \/ (out'[k].pkt = "pubcomp" /\ out'[k].id = x)
    BY <1>1, AnswerIsApart DEF x
  <2>2. ASSUME InStep, NEW y \in q2' PROVE KnownFits(y)'
    BY <1>1, <1>2, <1>3, <2>2 DEF InboundInv, KnownInv, KnownFits
  <2> QED BY <1>1, <1>2, <1>3, <2>1, <2>2 DEF InboundInv, KnownInv
<1>10. SessionInv'
  BY <1>2, <1>3 DEF InboundInv, SessionInv
<1> QED BY <1>6, <1>7, <1>8, <1>9, <1>10 DEF InboundInv

LEMMA EmptyIsApart ==
  ASSUME NEW d, NEW u, NEW o, \A k \in 1 .. Len(u) : u[k].pkt \notin OurAcks,
         \A k \in 1 .. Len(o) : o[k].pkt \notin OurAcks, Single(d, OurPackets)
  PROVE  Apart(d, u, o)
BY DEF Apart, Single, Disjoint

LEMMA BrokerForgetsKeepsInbound ==
  ASSUME OutboxInv, OutboxInv', InboundInv, BrokerForgets
  PROVE  InboundInv'
<1>1. /\ phase \in {"idle", "dial"} /\ kept' = FALSE /\ forgot' = TRUE /\ sending' = <<>> /\ up' = <<>>
      /\ UNCHANGED <<clean, out, phase, q2, down, given, got, finished>>
  BY DEF BrokerForgets, client, caller, FreshSession
<1>2. down = <<>> /\ \A k \in 1 .. Len(out) : out[k].pkt \notin OurAcks
  <2>1. /\ out \in Seq(RecType) /\ OutOk(out, next, acked \cup dropped)
        /\ \A j \in 1 .. Len(out) : out[j].kind # "once"
    BY <1>1 DEF OutboxInv, Types, OutTypes, OutInv, ConnInv, ConnOut
  <2>2. \A k \in 1 .. Len(out) : out[k].pkt \notin OurAcks
    BY <2>1, NoAnswers
  <2> QED BY <1>1, <2>2 DEF OutboxInv, ConnInv, ConnPhase
<1>3. Len(up') = 0 /\ Len(down') = 0 /\ Len(sending') = 0 /\ out' = out
  BY <1>1, <1>2
<1>4. TokenInv'
  <2>1. Apart(down', up', out')
    BY <1>2, <1>3, EmptyIsApart DEF Single
  <2> QED BY <1>2, <1>3, <2>1 DEF TokenInv, FitsDown, FitsUp, FitsOut
<1>5. EntryInv'
  BY <1>1, <1>3 DEF InboundInv, EntryInv
<1>6. ReceivedOnce'
  BY <1>1 DEF InboundInv, ReceivedOnce
<1>7. KnownInv'
  BY <1>1 DEF KnownInv, InStep, FreshAhead
<1>8. SessionInv'
  BY <1>1 DEF SessionInv
<1> QED BY <1>4, <1>5, <1>6, <1>7, <1>8 DEF InboundInv

LEMMA BrokerSendsKeepsInbound ==
  ASSUME OutboxInv, OutboxInv', InboundInv, BrokerSends
  PROVE  InboundInv'
<1> DEFINE i == Len(given) + 1
           n == Len(sending) + 1
<1>1. PICK qos \in InQos[i], id \in Ids \ {sending[j].id : j \in DOMAIN sending} :
        /\ given' = Append(given, qos)
        /\ sending' = Append(sending, [m |-> i, id |-> id, released |-> FALSE])
        /\ down' = Append(down, Packet(IF qos = 1 THEN "pub1" ELSE "pub2", id, i))
  BY DEF BrokerSends
<1> DEFINE p == Packet(IF qos = 1 THEN "pub1" ELSE "pub2", id, i)
           s == [m |-> i, id |-> id, released |-> FALSE]
           D == DownType \cup {p}
<1>2. UNCHANGED <<clean, out, phase, q2, up, kept, got, finished, forgot>> /\ Len(given) < Len(InQos)
  BY DEF BrokerSends, client
<1>3. /\ given \in Seq({1, 2}) /\ sending \in Seq([m : Nat, id : Ids, released : BOOLEAN])
      /\ down \in Seq(D) /\ p \in D
  BY DEF OutboxInv, Types, PipeTypes, BrokerTypes, PeerTypes
<1>4. /\ Len(given) \in Nat /\ Len(sending) \in Nat /\ Len(down) \in Nat /\ i \in Inbound /\ qos \in {1, 2}
      /\ \A j \in 1 .. Len(sending) : sending[j].id # id
  <2>1. InQos \in Seq(SUBSET {1, 2}) /\ Len(given) \in Nat /\ Len(sending) \in Nat /\ Len(down) \in Nat
    BY <1>3, SizesAssumption
  <2>2. i \in 1 .. Len(InQos)
    BY <1>2, <2>1
  <2>3. InQos[i] \in SUBSET {1, 2}
    BY <2>1, <2>2
  <2>4. \A j \in 1 .. Len(sending) : sending[j].id # id
    <3>1. DOMAIN sending = 1 .. Len(sending)
      BY <1>3
    <3> QED BY <3>1
  <2> QED BY <2>1, <2>2, <2>3, <2>4 DEF Inbound
<1>5. p.id = id /\ p.m = i /\ p.pkt = (IF qos = 1 THEN "pub1" ELSE "pub2") /\ p.pkt \in OurPackets
  BY DEF Packet, OurPackets
<1>6. s.m = i /\ s.id = id /\ s.released = FALSE
  OBVIOUS
<1>7. down' = Append(down, p) /\ sending' = Append(sending, s) /\ given' = Append(given, qos)
  BY <1>1
<1> HIDE DEF p, s, D
<1>8. /\ Len(down') = Len(down) + 1 /\ down'[Len(down) + 1] = p
      /\ \A k \in 1 .. Len(down) : down'[k] = down[k]
  BY <1>3, <1>7, AppendProperties
<1>9. /\ Len(sending') = n /\ sending'[n] = s /\ \A k \in 1 .. Len(sending) : sending'[k] = sending[k]
  BY <1>3, <1>7, AppendProperties
<1>10. Len(given') = i /\ given'[i] = qos /\ \A k \in 1 .. Len(given) : given'[k] = given[k]
  BY <1>3, <1>4, <1>7, AppendProperties
<1>11. /\ \A k \in 1 .. Len(down') : (k \in 1 .. Len(down) /\ down'[k] = down[k]) \/ down'[k] = p
       /\ \A k \in 1 .. Len(sending') :
            (k \in 1 .. Len(sending) /\ sending'[k] = sending[k]) \/ (k = n /\ sending'[k] = s)
       /\ \A k \in 1 .. Len(sending) : k \in 1 .. Len(sending') /\ sending'[k] = sending[k]
       /\ n \in 1 .. Len(sending')
  BY <1>4, <1>8, <1>9
<1>12. \A k \in 1 .. Len(sending) : /\ EntryOk(sending[k]) /\ sending[k].m \in 1 .. Len(given) /\ sending[k].m # i
                                    /\ given'[sending[k].m] = given[sending[k].m]
  <2>1. \A k \in 1 .. Len(sending) : EntryOk(sending[k]) /\ sending[k].m \in 1 .. Len(given)
    BY DEF InboundInv, EntryInv, EntryOk
  <2>2. \A m \in 1 .. Len(given) : m # i
    BY <1>4
  <2> QED BY <1>10, <2>1, <2>2
<1>13. phase = "up" \/ (phase = "hello" /\ down # <<>>)
  <2>1. Welcomed /\ phase \in {"idle", "dial", "hello", "up"}
    BY DEF BrokerSends, OutboxInv, Types, ClientTypes
  <2>2. down = <<>> => ~\E j \in DOMAIN down : down[j].pkt = "connack"
    OBVIOUS
  <2> QED BY <2>1, <2>2 DEF Welcomed, OutboxInv, ConnInv, ConnPhase
<1>14. kept /\ Known' = Known /\ ~FreshAhead /\ ~FreshAhead' /\ (InStep' <=> InStep)
  <2>1. down' # <<>>
    BY <1>3, <1>4, <1>8
  <2>2. down # <<>> => down'[1] = down[1]
    <3>1. down # <<>> => 1 \in 1 .. Len(down)
      BY <1>3
    <3> QED BY <1>8, <3>1
  <2> QED BY <1>2, <1>13, <2>1, <2>2 DEF InboundInv, SessionInv, Known, FreshAhead, InStep
<1>15. Unused(down, OurPackets, id) /\ Unused(up, OurAcks, id) /\ Unused(out, OurAcks, id)
  <2>1. Unused(down, OurPackets, id)
    <3>1. \A k \in 1 .. Len(down) : down[k].pkt \in OurPackets => \E j \in 1 .. Len(sending) : sending[j].id = down[k].id
      BY DEF InboundInv, TokenInv, FitsDown, Pushed
    <3> QED BY <1>4, <3>1 DEF Unused
  <2>2. Unused(up, OurAcks, id)
    <3>1. \A k \in 1 .. Len(up) : up[k].pkt \in OurAcks => \E j \in 1 .. Len(sending) : sending[j].id = up[k].id
      BY DEF InboundInv, TokenInv, FitsUp, AnswerFits
    <3> QED BY <1>4, <3>1 DEF Unused
  <2>3. Unused(out, OurAcks, id)
    <3>1. \A k \in 1 .. Len(out) : out[k].pkt \in OurAcks => \E j \in 1 .. Len(sending) : sending[j].id = out[k].id
      BY DEF InboundInv, TokenInv, FitsOut, AnswerFits
    <3> QED BY <1>4, <3>1 DEF Unused
  <2> QED BY <2>1, <2>2, <2>3
<1>16. Apart(down', up', out')
  <2>1. Apart(down, up, out) /\ Single(down, OurPackets)
    BY DEF InboundInv, TokenInv, Apart
  <2>2. /\ Single(down', OurPackets)
        /\ \A t, V : Disjoint(down, OurPackets, t, V) /\ Unused(t, V, p.id) => Disjoint(down', OurPackets, t, V)
    BY <1>3, <1>5, <1>7, <1>15, <2>1, AppendIsSingle
  <2> QED BY <1>2, <1>5, <1>15, <2>1, <2>2 DEF Apart
<1>17. TokenInv'
  <2>1. FitsDown'
    <3>1. SUFFICES ASSUME NEW k \in 1 .. Len(down'), down'[k].pkt \in OurPackets
                   PROVE  \E j \in 1 .. Len(sending') : Pushed(sending[j], down[k])'
      BY DEF FitsDown
    <3>2. CASE k \in 1 .. Len(down) /\ down'[k] = down[k]
      <4>1. PICK j \in 1 .. Len(sending) : Pushed(sending[j], down[k])
        BY <3>1, <3>2 DEF InboundInv, TokenInv, FitsDown
      <4> QED BY <1>11, <1>12, <3>2, <4>1 DEF Pushed
    <3>3. CASE down'[k] = p
      BY <1>4, <1>5, <1>6, <1>9, <1>10, <1>11, <3>3 DEF Pushed
    <3> QED BY <1>11, <3>2, <3>3
  <2>2. FitsUp'
    <3>1. SUFFICES ASSUME NEW k \in 1 .. Len(up'), up'[k].pkt \in OurAcks
                   PROVE  \E j \in 1 .. Len(sending') : AnswerFits(sending[j], up[k])'
      BY DEF FitsUp
    <3>2. PICK j \in 1 .. Len(sending) : AnswerFits(sending[j], up[k])
      BY <1>2, <3>1 DEF InboundInv, TokenInv, FitsUp
    <3> QED BY <1>2, <1>11, <1>12, <1>14, <3>2 DEF AnswerFits
  <2>3. FitsOut'
    <3>1. SUFFICES ASSUME NEW k \in 1 .. Len(out'), out'[k].pkt \in OurAcks
                   PROVE  \E j \in 1 .. Len(sending') : AnswerFits(sending[j], out[k])'
      BY DEF FitsOut
    <3>2. PICK j \in 1 .. Len(sending) : AnswerFits(sending[j], out[k])
      BY <1>2, <3>1 DEF InboundInv, TokenInv, FitsOut
    <3> QED BY <1>2, <1>11, <1>12, <1>14, <3>2 DEF AnswerFits
  <2> QED BY <1>16, <2>1, <2>2, <2>3 DEF TokenInv
<1>18. got'[i] = 0
  <2>1. i > Len(given)
    BY <1>4
  <2> QED BY <1>2, <1>4, <2>1 DEF InboundInv, EntryInv
<1>19. EntryInv'
  <2>1. ASSUME NEW k \in 1 .. Len(sending') PROVE EntryOk(sending[k])'
    <3>1. CASE k \in 1 .. Len(sending) /\ sending'[k] = sending[k]
      <4>1. EntryOk(sending[k]) /\ sending[k].m \in 1 .. Len(given') /\ given'[sending[k].m] = given[sending[k].m]
        BY <1>4, <1>10, <1>12, <3>1
      <4> QED BY <1>2, <1>14, <3>1, <4>1 DEF EntryOk
    <3>2. CASE sending'[k] = s
      <4>1. i \in 1 .. Len(given')
        BY <1>4, <1>10
      <4> QED BY <1>6, <1>18, <3>2, <4>1 DEF EntryOk
    <3> QED BY <1>11, <3>1, <3>2
  <2>2. \A k, l \in 1 .. Len(sending') :
          k # l => sending'[k].id # sending'[l].id /\ sending'[k].m # sending'[l].m
    <3>1. \A k, l \in 1 .. Len(sending) :
            k # l => sending[k].id # sending[l].id /\ sending[k].m # sending[l].m
      BY DEF InboundInv, EntryInv
    <3>2. \A k \in 1 .. Len(sending) : sending[k].id # s.id /\ sending[k].m # s.m
      BY <1>4, <1>6, <1>12
    <3> QED BY <1>11, <3>1, <3>2
  <2>3. finished' \subseteq 1 .. Len(given')
    <3>1. finished \subseteq 1 .. Len(given) /\ 1 .. Len(given) \subseteq 1 .. Len(given')
      BY <1>4, <1>10 DEF InboundInv, EntryInv
    <3> QED BY <1>2, <3>1
  <2>4. \A j \in Inbound : j > Len(given') => got'[j] = 0
    <3>1. \A j \in Inbound : j > Len(given') => j > Len(given)
      BY <1>4, <1>10 DEF Inbound
    <3> QED BY <1>2, <3>1 DEF InboundInv, EntryInv
  <2> QED BY <2>1, <2>2, <2>3, <2>4 DEF EntryInv
<1>20. ReceivedOnce'
  <2>1. DOMAIN given' = 1 .. Len(given') /\ DOMAIN given = 1 .. Len(given)
    BY DEF OutboxInv, Types, PeerTypes
  <2>2. ASSUME NEW j \in DOMAIN given', given'[j] = 2 PROVE got'[j] <= 1
    <3>1. j \in 1 .. Len(given) \/ j = i
      BY <1>4, <1>10, <2>1
    <3>2. CASE j \in 1 .. Len(given)
      BY <1>2, <1>10, <2>1, <2>2, <3>2 DEF InboundInv, ReceivedOnce
    <3>3. CASE j = i
      BY <1>18, <3>3
    <3> QED BY <3>1, <3>2, <3>3
  <2> QED BY <1>2, <2>2 DEF InboundInv, ReceivedOnce
<1>21. KnownInv'
  <2>1. ASSUME InStep, NEW x \in Known PROVE KnownFits(x)'
    <3>1. PICK j \in 1 .. Len(sending) : sending[j].id = x /\ given[sending[j].m] = 2 /\ got[sending[j].m] >= 1
      BY <1>14, <2>1 DEF InboundInv, KnownInv, KnownFits
    <3> QED BY <1>2, <1>11, <1>12, <3>1 DEF KnownFits
  <2> QED BY <1>2, <1>14, <2>1 DEF InboundInv, KnownInv
<1>22. SessionInv'
  BY <1>2, <1>14 DEF InboundInv, SessionInv
<1> QED BY <1>17, <1>19, <1>20, <1>21, <1>22 DEF InboundInv

\* The broker takes an answer: it is about one entry, and nothing else has its id.
Acked(e) ==
  /\ AnswerFits(sending[e], up[1]) /\ sending[e].id = up[1].id
  /\ \A j \in 1 .. Len(sending) : j # e => sending[j].id # up[1].id /\ sending[j].m # sending[e].m
  /\ Unused(up', OurAcks, up[1].id) /\ Unused(down, OurPackets, up[1].id) /\ Unused(out, OurAcks, up[1].id)
  /\ Less(up', up, OurAcks) /\ \A k \in 1 .. Len(up') : \E j \in 1 .. Len(up) : up'[k] = up[j]

LEMMA AckIsTaken ==
  ASSUME OutboxInv, OutboxInv', InboundInv, BrokerIsAcked
  PROVE  /\ UNCHANGED <<clean, out, phase, q2, kept, given, got, forgot>> /\ (InStep' <=> InStep)
         /\ Head(up) = up[1] /\ 1 \in 1 .. Len(up) /\ up[1].pkt \in OurAcks
         /\ Known' = Known /\ (FreshAhead' <=> FreshAhead)
         /\ \E e \in 1 .. Len(sending) : Acked(e)
<1> DEFINE q == Packet("pubrel", up[1].id, 0)
           pkts == {"puback", "pubrec", "pubcomp"}
<1>1. Takes(pkts) /\ pkts \in SUBSET (Calls \cup OurAcks)
  BY DEF BrokerIsAcked, OurAcks
<1>2. UNCHANGED <<clean, out, phase, q2, kept, given, got, forgot>>
  BY DEF BrokerIsAcked, client
<1>3. /\ up \in Seq(UpType) /\ up # <<>> /\ up' = Tail(up) /\ Head(up) = up[1] /\ 1 \in 1 .. Len(up)
      /\ up[1].pkt \in OurAcks /\ Len(up) \in Nat /\ old \in Nat /\ down \in Seq(DownType) /\ up[1].pkt # "connect"
      /\ \A i \in 1 .. Len(up') : i + 1 \in 1 .. Len(up) /\ up'[i] = up[i + 1]
  <2>1. /\ up \in Seq(UpType) /\ Len(up) > 0 /\ Head(up) = up[1] /\ up[1].pkt \in pkts /\ down \in Seq(DownType)
        /\ old \in 0 .. Len(up) /\ \A i \in 1 .. Len(up') : i + 1 \in 1 .. Len(up) /\ up'[i] = up[i + 1]
    BY <1>1, BrokerReads
  <2>2. Len(up) \in Nat
    BY <2>1
  <2> QED BY <1>1, <2>1, <2>2 DEF OurAcks, Takes
<1> HIDE DEF pkts, q
<1>4. down' = down \/ (old = 0 /\ down' = Append(down, q))
  <2>1. down \o <<q>> = Append(down, q)
    BY <1>3
  <2> QED BY <1>3, <2>1 DEF BrokerIsAcked, Answers, q
<1>5. (FreshAhead' <=> FreshAhead) /\ (phase = "hello" => down = <<>> /\ down' = <<>>)
  <2>1. FreshAhead' <=> FreshAhead
    BY <1>1, <1>2, <1>4, QuietHello
  <2>2. ASSUME phase = "hello" PROVE down = <<>> /\ down' = <<>>
    <3>1. down = <<>>
      BY <1>3, <2>2 DEF OutboxInv, ConnInv, ConnPhase
    <3>2. old # 0
      BY <1>3, <2>2, <3>1 DEF OutboxInv, ConnInv, ConnPhase
    <3> QED BY <1>4, <3>1, <3>2
  <2> QED BY <2>1, <2>2
<1>6. Known' = Known /\ (InStep' <=> InStep)
  BY <1>2, <1>5 DEF Known, InStep
<1>7. PICK e \in 1 .. Len(sending) : AnswerFits(sending[e], up[1])
  BY <1>3 DEF InboundInv, TokenInv, FitsUp
<1>8. sending[e].id = up[1].id
  BY <1>7 DEF AnswerFits
<1>9. \A j \in 1 .. Len(sending) : j # e => sending[j].id # up[1].id /\ sending[j].m # sending[e].m
  BY <1>8 DEF InboundInv, EntryInv
<1>10. Less(up', up, OurAcks) /\ Unused(up', OurAcks, up[1].id)
  BY <1>3, TailIsLess DEF InboundInv, TokenInv, Apart
<1>11. Unused(down, OurPackets, up[1].id) /\ Unused(out, OurAcks, up[1].id)
  BY <1>3, DisjointIsUnused DEF InboundInv, TokenInv, Apart
<1>12. \A k \in 1 .. Len(up') : \E j \in 1 .. Len(up) : up'[k] = up[j]
  BY <1>3
<1>13. Acked(e)
  BY <1>7, <1>8, <1>9, <1>10, <1>11, <1>12 DEF Acked
<1> QED BY <1>2, <1>3, <1>5, <1>6, <1>13

\* PUBACK or PUBCOMP: the entry goes.
LEMMA ThroughKeepsInbound ==
  ASSUME OutboxInv, OutboxInv', InboundInv, BrokerIsAcked, Head(up).pkt # "pubrec"
  PROVE  InboundInv'
<1>1. /\ UNCHANGED <<clean, out, phase, q2, kept, given, got, forgot>> /\ (InStep' <=> InStep)
      /\ Head(up) = up[1] /\ 1 \in 1 .. Len(up) /\ up[1].pkt \in OurAcks
      /\ Known' = Known /\ (FreshAhead' <=> FreshAhead)
  BY AckIsTaken
<1>2. PICK e \in 1 .. Len(sending) : Acked(e)
  BY AckIsTaken
<1> DEFINE x == up[1].id
           T == [m : Nat, id : Ids, released : BOOLEAN]
           K == (1 .. Len(sending)) \ {e}
<1>3. sending \in Seq(T) /\ DOMAIN sending = 1 .. Len(sending) /\ K \in SUBSET (1 .. Len(sending))
  BY DEF OutboxInv, Types, BrokerTypes
<1>4. sending' = Only(sending, K) /\ finished' = finished \cup {sending[e].m} /\ down' = down
  <2> DEFINE mine == {j \in DOMAIN sending : sending[j].id = up[1].id}
  <2>1. /\ sending' = Only(sending, DOMAIN sending \ mine) /\ down' = down
        /\ finished' = finished \cup {sending[j].m : j \in mine}
    BY <1>1 DEF BrokerIsAcked
  <2>2. mine = {e}
    BY <1>2, <1>3 DEF Acked
  <2> QED BY <1>3, <2>1, <2>2
<1> HIDE DEF x, T, K
<1>5. Picks(sending', sending, K)
  BY <1>3, <1>4, OnlyPicks
<1>6. PICK f : Follows(f, sending', sending, K)
  BY <1>5 DEF Picks
<1>7. /\ \A i \in 1 .. Len(sending') : f[i] \in 1 .. Len(sending) /\ f[i] # e /\ sending'[i] = sending[f[i]]
      /\ \A j \in 1 .. Len(sending) : j # e => \E i \in 1 .. Len(sending') : sending'[i] = sending[j]
  <2>1. \A k \in K : \E i \in 1 .. Len(sending') : f[i] = k
    BY <1>6 DEF Follows
  <2>2. \A i \in 1 .. Len(sending') : f[i] \in K /\ sending'[i] = sending[f[i]]
    BY <1>6 DEF Follows
  <2> QED BY <2>1, <2>2, SMTT(30) DEF K
<1>8. \A i, j \in 1 .. Len(sending') : i # j => f[i] # f[j]
  <2>1. SUFFICES ASSUME NEW i \in 1 .. Len(sending'), NEW j \in 1 .. Len(sending'), i # j PROVE f[i] # f[j]
    OBVIOUS
  <2>2. i < j \/ j < i
    BY <2>1
  <2>3. f[i] < f[j] \/ f[j] < f[i]
    BY <1>6, <2>2 DEF Follows
  <2>4. f[i] \in Nat /\ f[j] \in Nat
    BY <1>7
  <2> QED BY <2>3, <2>4
<1>9. TokenInv'
  <2>1. Apart(down', up', out')
    <3>1. Less(down', down, OurPackets) /\ Less(out', out, OurAcks) /\ Less(up', up, OurAcks)
      BY <1>1, <1>2, <1>4, SameIsLess DEF Acked
    <3> QED BY <3>1, LessIsApart DEF InboundInv, TokenInv
  <2>2. FitsDown'
    <3>1. SUFFICES ASSUME NEW k \in 1 .. Len(down), down[k].pkt \in OurPackets
                   PROVE  \E i \in 1 .. Len(sending') : Pushed(sending'[i], down[k])
      BY <1>1, <1>4 DEF FitsDown, Pushed
    <3>2. PICK j \in 1 .. Len(sending) : Pushed(sending[j], down[k])
      BY <3>1 DEF InboundInv, TokenInv, FitsDown
    <3>3. j # e
      BY <1>2, <3>1, <3>2 DEF Acked, Unused, Pushed
    <3>4. PICK i \in 1 .. Len(sending') : sending'[i] = sending[j]
      BY <1>7, <3>3
    <3> QED BY <3>2, <3>4
  <2>3. FitsUp'
    <3>1. SUFFICES ASSUME NEW k \in 1 .. Len(up'), up'[k].pkt \in OurAcks
                   PROVE  \E i \in 1 .. Len(sending') : AnswerFits(sending'[i], up'[k])
      BY <1>1 DEF FitsUp, AnswerFits
    <3>2. PICK l \in 1 .. Len(up) : up'[k] = up[l]
      BY <1>2, <3>1 DEF Acked
    <3>3. PICK j \in 1 .. Len(sending) : AnswerFits(sending[j], up'[k])
      BY <3>1, <3>2 DEF InboundInv, TokenInv, FitsUp
    <3>4. j # e
      BY <1>2, <3>1, <3>3 DEF Acked, Unused, AnswerFits
    <3>5. PICK i \in 1 .. Len(sending') : sending'[i] = sending[j]
      BY <1>7, <3>4
    <3> QED BY <3>3, <3>5
  <2>4. FitsOut'
    <3>1. SUFFICES ASSUME NEW k \in 1 .. Len(out), out[k].pkt \in OurAcks
                   PROVE  \E i \in 1 .. Len(sending') : AnswerFits(sending'[i], out[k])
      BY <1>1 DEF FitsOut, AnswerFits
    <3>2. PICK j \in 1 .. Len(sending) : AnswerFits(sending[j], out[k])
      BY <3>1 DEF InboundInv, TokenInv, FitsOut
    <3>3. j # e
      BY <1>2, <3>1, <3>2 DEF Acked, Unused, AnswerFits
    <3>4. PICK i \in 1 .. Len(sending') : sending'[i] = sending[j]
      BY <1>7, <3>3
    <3> QED BY <3>2, <3>4
  <2> QED BY <2>1, <2>2, <2>3, <2>4 DEF TokenInv
<1>10. EntryOk(sending[e]) /\ sending[e].m \in 1 .. Len(given)
  BY DEF InboundInv, EntryInv, EntryOk
<1>11. EntryInv'
  <2>1. ASSUME NEW i \in 1 .. Len(sending') PROVE EntryOk(sending[i])'
    <3>1. EntryOk(sending[f[i]]) /\ sending'[i] = sending[f[i]]
      BY <1>7 DEF InboundInv, EntryInv
    <3> QED BY <1>1, <3>1 DEF EntryOk
  <2>2. \A i, j \in 1 .. Len(sending') :
          i # j => sending'[i].id # sending'[j].id /\ sending'[i].m # sending'[j].m
    <3>1. SUFFICES ASSUME NEW i \in 1 .. Len(sending'), NEW j \in 1 .. Len(sending'), i # j
                   PROVE  sending'[i].id # sending'[j].id /\ sending'[i].m # sending'[j].m
      OBVIOUS
    <3>2. /\ f[i] \in 1 .. Len(sending) /\ f[j] \in 1 .. Len(sending) /\ f[i] # f[j]
          /\ sending'[i] = sending[f[i]] /\ sending'[j] = sending[f[j]]
      BY <1>7, <1>8, <3>1
    <3> QED BY <3>2 DEF InboundInv, EntryInv
  <2> QED BY <1>1, <1>4, <1>10, <2>1, <2>2 DEF InboundInv, EntryInv
<1>12. InStep => got[sending[e].m] >= 1
  <2>1. up[1].pkt \in {"puback", "pubcomp"}
    BY <1>1 DEF OurAcks
  <2> QED BY <1>2, <1>10, <2>1 DEF Acked, AnswerFits, EntryOk
<1>13. ReceivedOnce'
  BY <1>1, <1>4, <1>12 DEF InboundInv, ReceivedOnce, InStep
<1>14. KnownInv'
  <2>1. SUFFICES ASSUME InStep, ~FreshAhead
                 PROVE  /\ \A y \in Known : KnownFits(y)'
                        /\ \A k \in 1 .. Len(up') : up'[k].pkt = "pubcomp" => up'[k].id \notin Known
                        /\ \A k \in 1 .. Len(out') : out'[k].pkt = "pubcomp" => out'[k].id \notin Known
    BY <1>1 DEF KnownInv
  <2>2. ASSUME NEW y \in Known PROVE KnownFits(y)'
    <3>1. PICK j \in 1 .. Len(sending) : sending[j].id = y /\ given[sending[j].m] = 2 /\ got[sending[j].m] >= 1
      BY <2>1, <2>2 DEF InboundInv, KnownInv, KnownFits
    <3>2. j # e
      <4>1. up[1].pkt = "puback" => given[sending[e].m] = 1
        BY <1>2 DEF Acked, AnswerFits
      <4>2. up[1].pkt = "pubcomp" => up[1].id # y
        BY <1>1, <2>1, <2>2 DEF InboundInv, KnownInv
      <4>3. up[1].pkt \in {"puback", "pubcomp"} /\ sending[e].id = up[1].id
        BY <1>1, <1>2 DEF OurAcks, Acked
      <4> QED BY <3>1, <4>1, <4>2, <4>3
    <3>3. PICK i \in 1 .. Len(sending') : sending'[i] = sending[j]
      BY <1>7, <3>2
    <3> QED BY <1>1, <3>1, <3>3 DEF KnownFits
  <2>3. \A k \in 1 .. Len(up') : up'[k].pkt = "pubcomp" => up'[k].id \notin Known
    BY <1>2, <2>1 DEF InboundInv, KnownInv, Acked
  <2> QED BY <1>1, <2>1, <2>2, <2>3 DEF InboundInv, KnownInv
<1>15. SessionInv'
  <2>1. sending # <<>>
    BY <1>3
  <2>2. kept
    BY <2>1 DEF InboundInv, SessionInv
  <2> QED BY <1>1, <1>4, <2>2 DEF InboundInv, SessionInv
<1> QED BY <1>9, <1>11, <1>13, <1>14, <1>15 DEF InboundInv

\* PUBREC: the entry is released, and a PUBREL says so.
LEMMA ReleasedKeepsInbound ==
  ASSUME OutboxInv, OutboxInv', InboundInv, BrokerIsAcked, Head(up).pkt = "pubrec"
  PROVE  InboundInv'
<1>1. /\ UNCHANGED <<clean, out, phase, q2, kept, given, got, forgot>> /\ (InStep' <=> InStep)
      /\ Head(up) = up[1] /\ 1 \in 1 .. Len(up) /\ up[1].pkt = "pubrec"
      /\ Known' = Known /\ (FreshAhead' <=> FreshAhead)
  BY AckIsTaken
<1>2. PICK e \in 1 .. Len(sending) : Acked(e)
  BY AckIsTaken
<1> DEFINE x == up[1].id
           T == [m : Nat, id : Ids, released : BOOLEAN]
           q == Packet("pubrel", x, 0)
           D == DownType \cup {q}
<1>3. /\ sending \in Seq(T) /\ DOMAIN sending = 1 .. Len(sending) /\ Len(sending) \in Nat
      /\ old \in Nat /\ down \in Seq(D) /\ q \in D /\ q.pkt = "pubrel" /\ q.id = x
  <2>1. q.pkt = "pubrel" /\ q.id = x
    BY DEF Packet
  <2> HIDE DEF q
  <2>2. sending \in Seq(T) /\ old \in Nat /\ down \in Seq(D) /\ q \in D
    BY DEF OutboxInv, Types, BrokerTypes, PipeTypes
  <2> QED BY <2>1, <2>2
<1>4. /\ sending' = [j \in 1 .. Len(sending) |-> IF j = e THEN [sending[j] EXCEPT !.released = TRUE] ELSE sending[j]]
      /\ finished' = finished /\ Answers(<<q>>)
  <2> DEFINE mine == {j \in DOMAIN sending : sending[j].id = up[1].id}
  <2>1. /\ sending' = [j \in DOMAIN sending |-> IF j \in mine THEN [sending[j] EXCEPT !.released = TRUE] ELSE sending[j]]
        /\ finished' = finished /\ Answers(<<q>>)
    BY <1>1 DEF BrokerIsAcked
  <2>2. mine = {e}
    BY <1>2, <1>3 DEF Acked
  <2> QED BY <1>3, <2>1, <2>2
<1>5. /\ Len(sending') = Len(sending)
      /\ \A j \in 1 .. Len(sending) : j # e => sending'[j] = sending[j]
      /\ \A j \in 1 .. Len(sending) : sending'[j].id = sending[j].id /\ sending'[j].m = sending[j].m
      /\ sending'[e].released
  <2>1. Len(sending') = Len(sending)
    BY <1>3, <1>4
  <2> HIDE DEF T
  <2>2. \A j \in 1 .. Len(sending) : sending[j] \in T
    BY <1>3
  <2> QED BY <1>4, <2>1, <2>2 DEF T
<1>6. \/ down' = down
      \/ down' = Append(down, q)
  <2>1. down \o <<q>> = Append(down, q)
    BY <1>3
  <2> QED BY <1>4, <2>1 DEF Answers
<1> HIDE DEF x, T, q, D
<1>7. \A k \in 1 .. Len(down') : (k \in 1 .. Len(down) /\ down'[k] = down[k]) \/ down'[k] = q
  <2>1. ASSUME down' = Append(down, q)
        PROVE  \A k \in 1 .. Len(down') : (k \in 1 .. Len(down) /\ down'[k] = down[k]) \/ down'[k] = q
    <3>1. Len(down') = Len(down) + 1 /\ down'[Len(down) + 1] = q /\ \A k \in 1 .. Len(down) : down'[k] = down[k]
      BY <1>3, <2>1, AppendProperties
    <3>2. Len(down) \in Nat
      BY <1>3
    <3> QED BY <3>1, <3>2
  <2> QED BY <1>6, <2>1
<1>8. Unused(up', OurAcks, q.id) /\ Unused(down, OurPackets, q.id) /\ Unused(out, OurAcks, q.id)
  BY <1>2, <1>3 DEF Acked, x
<1>9. TokenInv'
  <2>1. Apart(down', up', out')
    <3>1. Less(out', out, OurAcks) /\ Less(up', up, OurAcks)
      BY <1>1, <1>2, SameIsLess DEF Acked
    <3>2. Apart(down, up', out') /\ Single(down, OurPackets)
      <4>1. Apart(down, up', out')
        BY <3>1, SameIsLess, LessIsApart DEF InboundInv, TokenInv
      <4> QED BY <4>1 DEF Apart
    <3>3. ASSUME down' = Append(down, q) PROVE Apart(down', up', out')
      <4>1. /\ Single(down', OurPackets)
            /\ \A t, V : Disjoint(down, OurPackets, t, V) /\ Unused(t, V, q.id) => Disjoint(down', OurPackets, t, V)
        BY <1>3, <1>8, <3>2, <3>3, AppendIsSingle
      <4> QED BY <1>1, <1>8, <3>2, <4>1 DEF Apart
    <3> QED BY <1>6, <3>2, <3>3
  <2>2. FitsDown'
    <3>1. SUFFICES ASSUME NEW k \in 1 .. Len(down'), down'[k].pkt \in OurPackets
                   PROVE  \E i \in 1 .. Len(sending') : Pushed(sending'[i], down'[k])
      BY <1>1 DEF FitsDown, Pushed
    <3>2. CASE k \in 1 .. Len(down) /\ down'[k] = down[k]
      <4>1. PICK j \in 1 .. Len(sending) : Pushed(sending[j], down[k])
        BY <3>1, <3>2 DEF InboundInv, TokenInv, FitsDown
      <4>2. j # e
        BY <1>2, <3>1, <3>2, <4>1 DEF Acked, Unused, Pushed
      <4> QED BY <1>5, <3>2, <4>1, <4>2
    <3>3. CASE down'[k] = q
      <4>1. given[sending[e].m] = 2 /\ sending[e].id = x
        BY <1>1, <1>2 DEF Acked, AnswerFits, x
      <4>2. Pushed(sending'[e], q)
        BY <1>3, <1>5, <4>1 DEF Pushed
      <4> QED BY <1>5, <3>3, <4>2
    <3> QED BY <1>7, <3>2, <3>3
  <2>3. FitsUp'
    <3>1. SUFFICES ASSUME NEW k \in 1 .. Len(up'), up'[k].pkt \in OurAcks
                   PROVE  \E i \in 1 .. Len(sending') : AnswerFits(sending'[i], up'[k])
      BY <1>1 DEF FitsUp, AnswerFits
    <3>2. PICK l \in 1 .. Len(up) : up'[k] = up[l]
      BY <1>2, <3>1 DEF Acked
    <3>3. PICK j \in 1 .. Len(sending) : AnswerFits(sending[j], up'[k])
      BY <3>1, <3>2 DEF InboundInv, TokenInv, FitsUp
    <3>4. j # e
      BY <1>2, <3>1, <3>3 DEF Acked, Unused, AnswerFits
    <3> QED BY <1>5, <3>3, <3>4
  <2>4. FitsOut'
    <3>1. SUFFICES ASSUME NEW k \in 1 .. Len(out), out[k].pkt \in OurAcks
                   PROVE  \E i \in 1 .. Len(sending') : AnswerFits(sending'[i], out[k])
      BY <1>1 DEF FitsOut, AnswerFits
    <3>2. PICK j \in 1 .. Len(sending) : AnswerFits(sending[j], out[k])
      BY <3>1 DEF InboundInv, TokenInv, FitsOut
    <3>3. j # e
      BY <1>2, <3>1, <3>2 DEF Acked, Unused, AnswerFits
    <3> QED BY <1>5, <3>2, <3>3
  <2> QED BY <2>1, <2>2, <2>3, <2>4 DEF TokenInv
<1>10. EntryInv'
  <2>1. ASSUME NEW i \in 1 .. Len(sending') PROVE EntryOk(sending[i])'
    <3>1. EntryOk(sending[i]) /\ i \in 1 .. Len(sending)
      BY <1>5 DEF InboundInv, EntryInv
    <3>2. CASE i = e
      <4>1. given[sending[e].m] = 2 /\ (InStep => got[sending[e].m] >= 1)
        BY <1>1, <1>2 DEF Acked, AnswerFits
      <4> QED BY <1>1, <1>5, <3>1, <3>2, <4>1 DEF EntryOk
    <3>3. CASE i # e
      BY <1>1, <1>5, <3>1, <3>3 DEF EntryOk
    <3> QED BY <3>2, <3>3
  <2>2. \A i, j \in 1 .. Len(sending') :
          i # j => sending'[i].id # sending'[j].id /\ sending'[i].m # sending'[j].m
    <3>1. SUFFICES ASSUME NEW i \in 1 .. Len(sending), NEW j \in 1 .. Len(sending), i # j
                   PROVE  sending'[i].id # sending'[j].id /\ sending'[i].m # sending'[j].m
      BY <1>5
    <3>2. sending[i].id # sending[j].id /\ sending[i].m # sending[j].m
      BY <3>1 DEF InboundInv, EntryInv
    <3> QED BY <1>5, <3>2
  <2> QED BY <1>1, <1>4, <2>1, <2>2 DEF InboundInv, EntryInv
<1>11. ReceivedOnce'
  BY <1>1, <1>4 DEF InboundInv, ReceivedOnce
<1>12. KnownInv'
  <2>1. SUFFICES ASSUME InStep, ~FreshAhead
                 PROVE  /\ \A y \in Known : KnownFits(y)'
                        /\ \A k \in 1 .. Len(up') : up'[k].pkt = "pubcomp" => up'[k].id \notin Known
                        /\ \A k \in 1 .. Len(out') : out'[k].pkt = "pubcomp" => out'[k].id \notin Known
    BY <1>1 DEF KnownInv
  <2>2. ASSUME NEW y \in Known PROVE KnownFits(y)'
    <3>1. PICK j \in 1 .. Len(sending) : sending[j].id = y /\ given[sending[j].m] = 2 /\ got[sending[j].m] >= 1
      BY <2>1, <2>2 DEF InboundInv, KnownInv, KnownFits
    <3> QED BY <1>1, <1>5, <3>1 DEF KnownFits
  <2>3. \A k \in 1 .. Len(up') : up'[k].pkt = "pubcomp" => up'[k].id \notin Known
    BY <1>2, <2>1 DEF InboundInv, KnownInv, Acked
  <2> QED BY <1>1, <2>1, <2>2, <2>3 DEF InboundInv, KnownInv
<1>13. SessionInv'
  <2>1. sending # <<>>
    BY <1>3
  <2>2. kept
    BY <2>1 DEF InboundInv, SessionInv
  <2> QED BY <1>1, <2>2 DEF InboundInv, SessionInv
<1> QED BY <1>9, <1>10, <1>11, <1>12, <1>13 DEF InboundInv

LEMMA BrokerIsAckedKeepsInbound ==
  ASSUME OutboxInv, OutboxInv', InboundInv, BrokerIsAcked
  PROVE  InboundInv'
BY ThroughKeepsInbound, ReleasedKeepsInbound

LEMMA BrokerConnectsKeepsInbound ==
  ASSUME OutboxInv, OutboxInv', InboundInv, BrokerConnects
  PROVE  InboundInv'
<1> DEFINE c(m) == Packet("connack", 0, m)
           R == Resends
<1>1. /\ UNCHANGED <<clean, out, phase, q2, given, got, finished, forgot>> /\ kept' = TRUE /\ (InStep' <=> InStep)
      /\ IF kept /\ ~clean THEN Answers(<<c(1)>> \o R) /\ sending' = sending
                           ELSE Answers(<<c(0)>>) /\ sending' = <<>>
  BY DEF BrokerConnects, client, FreshSession, InStep
<1>2. /\ Len(up) \in Nat /\ Len(up) > 0 /\ 1 \in 1 .. Len(up) /\ up[1].pkt = "connect"
      /\ \A i \in 1 .. Len(up') : i + 1 \in 1 .. Len(up) /\ i + 1 # 1 /\ up'[i] = up[i + 1]
  <2>1. Takes({"connect"})
    BY DEF BrokerConnects
  <2> QED BY <2>1, TailIs
<1>3. \A k \in 1 .. Len(up') : up'[k].pkt \notin OurAcks
  <2>1. SUFFICES ASSUME NEW k \in 1 .. Len(up') PROVE up'[k].pkt = "connect"
    BY DEF OurAcks
  <2>2. k + 1 \in 1 .. Len(up) /\ 1 < k + 1 /\ up'[k] = up[k + 1]
    BY <1>2
  <2> QED BY <1>2, <2>2 DEF OutboxInv, ConnInv, ConnUp
<1>4. phase \in {"idle", "dial", "hello"} /\ down = <<>>
  <2>1. phase \in {"idle", "dial", "hello", "up"}
    BY DEF OutboxInv, Types, ClientTypes
  <2> QED BY <1>2, <2>1 DEF OutboxInv, ConnInv, ConnPhase
<1>5. \A k \in 1 .. Len(out') : out'[k].pkt \notin OurAcks
  <2>1. /\ out \in Seq(RecType) /\ OutOk(out, next, acked \cup dropped)
        /\ \A j \in 1 .. Len(out) : out[j].kind # "once"
    BY <1>4 DEF OutboxInv, Types, OutTypes, OutInv, ConnInv, ConnOut
  <2>2. \A k \in 1 .. Len(out) : out[k].pkt \notin OurAcks
    BY <2>1, NoAnswers
  <2> QED BY <1>1, <2>2
<1>6. FitsUp' /\ FitsOut' /\ (Single(down', OurPackets) => Apart(down', up', out'))
  BY <1>3, <1>5, EmptyIsApart DEF FitsUp, FitsOut
<1>7. ReceivedOnce' /\ Known = q2
  BY <1>1, <1>4 DEF InboundInv, ReceivedOnce, Known
<1>8. \A m : c(m).pkt = "connack" /\ c(m).m = m
  BY DEF Packet
<1> HIDE DEF c
<1>9. CASE kept /\ ~clean
  <2>1. /\ R \in Seq(DownType) /\ Len(R) = Len(sending) /\ Len(sending) \in Nat
        /\ \A j \in 1 .. Len(sending) :
             R[j] = Packet(IF sending[j].released THEN "pubrel" ELSE IF given[sending[j].m] = 1 THEN "pub1" ELSE "pub2",
                           sending[j].id, sending[j].m)
    <3>1. sending \in Seq([m : Nat, id : Ids, released : BOOLEAN])
      BY DEF OutboxInv, Types, BrokerTypes
    <3>2. DOMAIN sending = 1 .. Len(sending) /\ Len(sending) \in Nat
      BY <3>1
    <3> QED BY <3>2, ResendsAre DEF Resends
  <2>2. \A j \in 1 .. Len(sending) : Pushed(sending[j], R[j]) /\ R[j].id = sending[j].id
    <3>1. SUFFICES ASSUME NEW j \in 1 .. Len(sending) PROVE Pushed(sending[j], R[j]) /\ R[j].id = sending[j].id
      OBVIOUS
    <3>2. sending[j].m \in 1 .. Len(given) /\ (sending[j].released => given[sending[j].m] = 2)
      BY DEF InboundInv, EntryInv, EntryOk
    <3>3. given[sending[j].m] \in {1, 2}
      BY <3>2 DEF OutboxInv, Types, PeerTypes
    <3>4. /\ R[j].id = sending[j].id /\ R[j].m = sending[j].m
          /\ R[j].pkt = IF sending[j].released THEN "pubrel" ELSE IF given[sending[j].m] = 1 THEN "pub1" ELSE "pub2"
      <4> DEFINE w == IF sending[j].released THEN "pubrel" ELSE IF given[sending[j].m] = 1 THEN "pub1" ELSE "pub2"
      <4>1. R[j] = Packet(w, sending[j].id, sending[j].m)
        BY <2>1
      <4> HIDE DEF w, R
      <4>2. R[j].id = sending[j].id /\ R[j].m = sending[j].m /\ R[j].pkt = w
        BY <4>1 DEF Packet
      <4> QED BY <4>2 DEF w
    <3> QED BY <3>2, <3>3, <3>4 DEF Pushed
  <2> DEFINE S == DownType \cup {c(1)}
  <2>3. R \in Seq(S) /\ c(1) \in S
    BY <2>1
  <2> HIDE DEF R, S
  <2>4. \/ down' = <<>>
        \/ /\ down' # <<>> /\ down'[1] = c(1)
           /\ \A k \in 1 .. Len(down') : k # 1 => k - 1 \in 1 .. Len(sending) /\ down'[k] = R[k - 1]
    <3>1. down' = <<>> \/ down' = <<c(1)>> \o R
      BY <1>1, <1>4, <1>9, <2>3 DEF Answers
    <3> DEFINE d == <<c(1)>> \o R
    <3>2. Len(d) = Len(R) + 1 /\ d[1] = c(1) /\ \A k \in 1 .. Len(d) : k # 1 => d[k] = R[k - 1]
      BY <2>3
    <3>3. d # <<>> /\ \A k \in 1 .. Len(d) : k # 1 => k - 1 \in 1 .. Len(sending)
      BY <2>1, <2>3, <3>2
    <3> HIDE DEF d
    <3>4. down' = <<>> \/ down' = d
      BY <3>1 DEF d
    <3> QED BY <3>2, <3>3, <3>4
  <2>5. \A k \in 1 .. Len(down') : down'[k].pkt \in OurPackets =>
          k # 1 /\ k - 1 \in 1 .. Len(sending) /\ down'[k] = R[k - 1]
    BY <1>8, <2>4 DEF OurPackets
  <2>6. Single(down', OurPackets)
    <3>1. SUFFICES ASSUME NEW i \in 1 .. Len(down'), NEW k \in 1 .. Len(down'), i # k,
                          down'[i].pkt \in OurPackets, down'[k].pkt \in OurPackets
                   PROVE  down'[i].id # down'[k].id
      BY DEF Single
    <3>2. /\ i - 1 \in 1 .. Len(sending) /\ k - 1 \in 1 .. Len(sending) /\ i - 1 # k - 1
          /\ down'[i] = R[i - 1] /\ down'[k] = R[k - 1]
      BY <2>5, <3>1
    <3> QED BY <2>2, <3>2 DEF InboundInv, EntryInv
  <2>7. FitsDown'
    <3>1. SUFFICES ASSUME NEW k \in 1 .. Len(down'), down'[k].pkt \in OurPackets
                   PROVE  \E i \in 1 .. Len(sending') : Pushed(sending'[i], down'[k])
      BY <1>1 DEF FitsDown, Pushed
    <3>2. k - 1 \in 1 .. Len(sending) /\ down'[k] = R[k - 1]
      BY <2>5, <3>1
    <3> QED BY <1>1, <1>9, <2>2, <3>2
  <2>8. Known' = Known
    BY <1>1, <1>7, <1>8, <2>4 DEF Known
  <2>9. EntryInv'
    <3>1. \A i \in 1 .. Len(sending) : EntryOk(sending[i])'
      BY <1>1, <1>9, <2>8 DEF InboundInv, EntryInv, EntryOk
    <3> QED BY <1>1, <1>9, <3>1 DEF InboundInv, EntryInv
  <2>10. KnownInv'
    <3>1. ~FreshAhead /\ ~FreshAhead'
      BY <1>1, <1>9 DEF FreshAhead
    <3>2. InStep => \A x \in Known : KnownFits(x)'
      BY <1>1, <1>9, <3>1 DEF InboundInv, KnownInv, KnownFits
    <3> QED BY <1>1, <1>3, <1>5, <2>8, <3>2 DEF KnownInv, OurAcks
  <2>11. SessionInv'
    BY <1>1, <1>7, <2>8 DEF SessionInv
  <2> QED BY <1>6, <1>7, <2>6, <2>7, <2>9, <2>10, <2>11 DEF InboundInv, TokenInv
<1>10. CASE ~(kept /\ ~clean)
  <2>1. sending' = <<>> /\ Len(sending') = 0
    BY <1>1, <1>10
  <2>2. down' = <<>> \/ (down' = <<c(0)>> /\ down' # <<>> /\ down'[1] = c(0))
    BY <1>1, <1>4, <1>10 DEF Answers
  <2>3. \A k \in 1 .. Len(down') : down'[k].pkt \notin OurPackets
    BY <1>8, <2>2 DEF OurPackets
  <2>4. TokenInv'
    BY <1>6, <2>3 DEF Single, TokenInv, FitsDown
  <2>5. EntryInv'
    BY <1>1, <2>1 DEF InboundInv, EntryInv
  <2>6. ~clean /\ ~forgot => q2 = {}
    <3>1. SUFFICES ASSUME ~clean, ~forgot PROVE q2 = {}
      OBVIOUS
    <3>2. InStep /\ ~FreshAhead
      BY <3>1 DEF InStep, FreshAhead
    <3>3. Len(sending) = 0
      BY <1>10, <3>1 DEF InboundInv, SessionInv
    <3> QED BY <1>7, <3>2, <3>3 DEF InboundInv, KnownInv, KnownFits
  <2>7. InStep /\ ~FreshAhead' => Known' = {}
    <3>1. CASE clean
      BY <1>1, <1>4, <1>8, <2>2, <3>1 DEF FreshAhead, Known
    <3>2. CASE ~clean
      BY <1>1, <2>6, <3>2 DEF InStep, Known
    <3> QED BY <3>1, <3>2
  <2>8. KnownInv'
    BY <1>1, <2>7 DEF KnownInv
  <2>9. SessionInv'
    BY <1>1, <2>6 DEF SessionInv, Known
  <2> QED BY <1>7, <2>4, <2>5, <2>8, <2>9 DEF InboundInv
<1> QED BY <1>9, <1>10

----------------------------------------------------------------------------
(* Once, both ways.                                                        *)

LEMMA InboundStarts == Init => InboundInv
<1> SUFFICES ASSUME Init PROVE InboundInv
  OBVIOUS
<1>1. /\ Len(out) = 0 /\ Len(up) = 0 /\ down = <<>> /\ Len(down) = 0 /\ sending = <<>> /\ Len(sending) = 0
      /\ phase = "idle" /\ q2 = {} /\ given = <<>> /\ DOMAIN given = {} /\ finished = {}
      /\ got = [i \in Inbound |-> 0]
  BY DEF Init
<1>2. TokenInv
  BY <1>1 DEF TokenInv, Apart, Single, Disjoint, FitsDown, FitsUp, FitsOut
<1>3. EntryInv /\ ReceivedOnce
  BY <1>1 DEF EntryInv, ReceivedOnce
<1>4. KnownInv /\ SessionInv
  BY <1>1 DEF KnownInv, SessionInv, Known
<1> QED BY <1>2, <1>3, <1>4 DEF InboundInv

LEMMA StillInbound ==
  ASSUME OutboxInv, InboundInv, UNCHANGED vars
  PROVE  InboundInv'
<1>1. UNCHANGED <<clean, out, phase, q2, up, down, kept, sending, given, got, finished, forgot>>
  BY DEF vars
<1>2. /\ Less(down', down, OurPackets) /\ Less(up', up, OurAcks) /\ Less(out', out, OurAcks)
      /\ Known' = Known /\ (FreshAhead' <=> FreshAhead)
  BY <1>1, SameIsLess DEF Known, FreshAhead
<1>3. /\ phase' = "up" \/ (phase' = "hello" /\ down' # <<>>) => kept
      /\ ~clean /\ ~forgot => Known' = q2'
  BY <1>1, <1>2 DEF InboundInv, SessionInv
<1> QED BY <1>1, <1>2, <1>3, LessKeepsInbound

LEMMA InboundSteps == OutboxInv /\ InboundInv /\ RoomForId /\ [Next]_vars => InboundInv'
<1> SUFFICES ASSUME OutboxInv, InboundInv, RoomForId, [Next]_vars PROVE InboundInv'
  OBVIOUS
<1>1. OutboxInv'
  BY OutboxSteps
<1>2. CASE Application
  BY <1>1, <1>2, CallKeepsInbound, IdleKeepsInbound DEF Application
<1>3. CASE Handle
  BY <1>1, <1>3, OnConnackKeepsInbound, OnAckKeepsInbound, OnPublish1KeepsInbound, OnPublish2KeepsInbound,
     OnPubrelKeepsInbound DEF Handle
<1>4. CASE Dial \/ Flush \/ TellLost \/ End
  BY <1>1, <1>4, IdleKeepsInbound, FlushKeepsInbound, CallKeepsInbound
<1>5. CASE Broker \/ BrokerSends \/ BrokerForgets
  BY <1>1, <1>5, BrokerConnectsKeepsInbound, BrokerAnswersKeepsInbound, BrokerIsAckedKeepsInbound,
     BrokerSendsKeepsInbound, BrokerForgetsKeepsInbound DEF Broker
<1>6. CASE UNCHANGED vars
  BY <1>6, StillInbound
<1> QED BY <1>2, <1>3, <1>4, <1>5, <1>6 DEF Next, Loop

\* A QoS 2 message is taken once and one of the broker's is delivered once, and was delivered
\* when the broker is through with it, over any number of lost connections, as long as _q2 has
\* room for the id of each that is read: with the table full, q2_known forgets the id, and the
\* repeat of the message is a new one.
THEOREM ExactlyOnceForAll == Spec /\ [][RoomForId]_vars => []ExactlyOnce
<1>1. Init => OutboxInv /\ TakenInv /\ InboundInv
  BY OutboxStarts, TakenStarts, InboundStarts
<1>2. OutboxInv /\ TakenInv /\ InboundInv /\ [Next]_vars /\ [RoomForId]_vars => (OutboxInv /\ TakenInv /\ InboundInv)'
  <2> SUFFICES ASSUME OutboxInv, TakenInv, InboundInv, [Next]_vars, [RoomForId]_vars
               PROVE  (OutboxInv /\ TakenInv /\ InboundInv)'
    OBVIOUS
  <2>1. OutboxInv' /\ TakenInv'
    BY OutboxSteps, TakenSteps
  <2>2. CASE RoomForId
    BY <2>1, <2>2, InboundSteps
  <2>3. CASE UNCHANGED vars
    BY <2>1, <2>3, StillInbound
  <2> QED BY <2>2, <2>3
<1>3. OutboxInv /\ TakenInv /\ InboundInv => ExactlyOnce
  BY DEF TakenInv, EverInv, InboundInv, ExactlyOnce
<1> QED BY <1>1, <1>2, <1>3, PTL DEF Spec
=============================================================================
