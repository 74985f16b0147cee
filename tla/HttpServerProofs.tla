-------------------------- MODULE HttpServerProofs --------------------------
(***************************************************************************)
(* What is proved of the web server and its two tasks, for any number of   *)
(* connections, slots and parts, any window and any limit: whoever closes  *)
(* a connection first, its client, slot and buffers are freed once and     *)
(* after their last use, and the handler of an upload hears what           *)
(* HttpUpload promises.                                                    *)
(***************************************************************************)
EXTENDS HttpServer, SelectionProofs, WellFoundedInduction

Kinds == {"accept", "recv", "fin", "error", "close", "release"}
Heads == {"page", "upload"}
Data == Heads \cup {"part"}
States == {"idle", "receiving", "ready", "responding", "done"}
TaskAts == {"idle", "accept", "alloc", "recv", "take", "flag", "error", "expire", "close", "told"}
Draining == {"drain", "deliver", "settle", "end", "letgo"}
Answering == {"respond", "answered", "hangup", "mark"}
Reclaiming == {"late", "clean", "reset"}
LoopAts == {"idle", "scan", "drained", "release"} \cup Draining \cup Answering \cup Reclaiming

ConnType ==
  [obj : {"none", "alive", "freed"}, pcb : BOOLEAN, wired : BOOLEAN, released : BOOLEAN,
   closed : BOOLEAN]
PeerType == [head : BOOLEAN, sent : 0 .. Parts, acked : Nat]
EventType ==
  {e \in [ev : Kinds, c : Clients, x : Data \cup {None}] : e.ev = "recv" <=> e.x # None}
SlotType ==
  [client : Clients \cup {None}, state : States, del : BOOLEAN, gone : BOOLEAN, buf : BOOLEAN,
   streaming : BOOLEAN, begun : BOOLEAN, ended : BOOLEAN, aborted : BOOLEAN,
   acked : 0 .. Parts, responded : BOOLEAN]
StreamType == [owner : 0 .. Slots, len : 0 .. Window]
TaskType ==
  [at : TaskAts, c : Clients \cup {None}, s : 0 .. Slots,
   x : Data \cup {None, "error", "expire"}]
LoopType ==
  [at : LoopAts, s : 0 .. Slots, n : 0 .. Window,
   next : {"idle", "scan", "drained", "late", "clean"}, dead : Clients \cup {None}]
UploadType == [events : {"none", "begun", "ended", "aborted"}, got : 0 .. Parts]

Types ==
  /\ conn \in [Clients -> ConnType] /\ peer \in [Clients -> PeerType]
  /\ queue \in Seq(EventType) /\ slot \in [1 .. Slots -> SlotType] /\ stream \in StreamType
  /\ inFlight \in Nat /\ wanted \in BOOLEAN
  /\ task \in TaskType /\ loop \in LoopType /\ upload \in [Clients -> UploadType]

----------------------------------------------------------------------------
(* The queue, as each client sees it: what is in it, of which some comes   *)
(* once, and what comes after the accept.                                  *)

Label(e) == IF e.x \in Heads THEN "head" ELSE e.ev
Labels == Kinds \cup {"head"}
Singles == {"accept", "head", "error", "close"}

Places(q, c) == {i \in 1 .. Len(q) : q[i].c = c}
Events(q, c) == {Label(q[i]) : i \in Places(q, c)}

Once(q) ==
  \A i, j \in 1 .. Len(q) :
    q[i].c = q[j].c /\ Label(q[i]) = Label(q[j]) /\ Label(q[i]) \in Singles => i = j

Led(q, c) ==
  \A i \in Places(q, c) :
    \/ Label(q[i]) \in {"accept", "error"}
    \/ \E j \in Places(q, c) : j < i /\ Label(q[j]) = "accept"

PartsIn(q, c) == {i \in Places(q, c) : q[i].x = "part"}
Queued(q, c) == Cardinality(PartsIn(q, c))

----------------------------------------------------------------------------
(* Where a client is: in the queue, with the task, in a slot, with the     *)
(* loop.  Whose end was told is given back by the loop; whose was not is   *)
(* open, or is about to be told.                                           *)

Ev(c) == Events(queue, c)
On(c, A) == task.c = c /\ task.at \in A
Has(s, c) == slot[s].client = c
LoopOn(s, A) == loop.s = s /\ loop.at \in A

Slotted(c) == \E s \in 1 .. Slots : Has(s, c)
Gone(c) == \E s \in 1 .. Slots : Has(s, c) /\ slot[s].gone
Dead(c) == loop.at = "release" /\ loop.dead = c
Told(c) == Gone(c) \/ Dead(c) \/ conn[c].released
Failing(c) == On(c, {"error", "told"}) \/ (On(c, {"close"}) /\ task.x = "error")
Pending(c) == conn[c].pcb \/ "error" \in Ev(c) \/ Failing(c)

LifeOk(c) ==
  /\ ~Alive(c) => ~conn[c].pcb /\ Ev(c) = {}
  /\ conn[c].obj = "none" => ~conn[c].wired
  /\ Slotted(c) \/ Dead(c) => Alive(c) /\ conn[c].wired
  /\ Dead(c) \/ conn[c].released => ~Slotted(c)
  /\ conn[c].released => conn[c].wired /\ ~Dead(c)
  /\ Alive(c) => (conn[c].released <=> "release" \in Ev(c))
  /\ Alive(c) /\ conn[c].wired /\ ~Told(c) => Pending(c)
  /\ Alive(c) /\ Told(c) => ~Pending(c) /\ (task.c = c => task.at = "close")

TaskOk(c) ==
  /\ task.c = c => Alive(c) /\ (conn[c].wired <=> task.at # "accept")
  /\ On(c, {"accept"}) => Pending(c)
  /\ On(c, {"alloc"}) => ~Slotted(c) /\ ~Told(c)
  /\ Failing(c) => ~conn[c].pcb /\ "error" \notin Ev(c)

(* A connection that nobody knows of yet has its accept before all else.   *)
EventsOk(c) ==
  /\ conn[c].pcb /\ ~conn[c].wired => "accept" \in Ev(c) \/ On(c, {"accept"})
  /\ "accept" \in Ev(c) => ~conn[c].wired /\ task.c # c
  /\ ~conn[c].wired => On(c, {"accept"}) \/ Led(queue, c)
  /\ ~conn[c].pcb => Ev(c) \subseteq {"error", "close", "release"}
  /\ conn[c].pcb => "error" \notin Ev(c)
  /\ "close" \in Ev(c) => conn[c].wired /\ ~On(c, {"alloc"})

(* The loop hangs up on a client once.                                     *)
Hung(s) == slot[s].responded /\ ~LoopOn(s, {"answered", "hangup"})

HangOk(c) ==
  /\ "close" \in Ev(c) => \A s \in 1 .. Slots : Has(s, c) => Hung(s)
  /\ Told(c) /\ On(c, {"close"}) =>
       "close" \notin Ev(c) /\ \A s \in 1 .. Slots : Has(s, c) => Hung(s)

ClientOk(c) == LifeOk(c) /\ TaskOk(c) /\ EventsOk(c) /\ HangOk(c)
ClientInv == Once(queue) /\ \A c \in Clients : ClientOk(c)

(* What the task has in hand.                                              *)
TaskInv ==
  /\ task.at = "idle" => task = AtRest
  /\ task.at # "idle" => task.c \in Clients
  /\ task.at \in {"recv", "take"} => task.x \in Data
  /\ task.at = "take" => task.s \in 1 .. Slots /\ Has(task.s, task.c) /\ slot[task.s].state = "receiving"

(* A head is sent once, and is queued, in hand, or streams its upload.     *)
HeadHand(c) == On(c, {"recv", "take"}) /\ task.x \in Heads
Streams(c) == \E s \in 1 .. Slots : Has(s, c) /\ slot[s].streaming

HeadOk(c) ==
  /\ "head" \in Ev(c) \/ HeadHand(c) \/ Streams(c) => peer[c].head
  /\ ~("head" \in Ev(c) /\ HeadHand(c))
  /\ ~("head" \in Ev(c) /\ Streams(c))
  /\ ~(HeadHand(c) /\ Streams(c))
HeadInv == \A c \in Clients : HeadOk(c)

----------------------------------------------------------------------------
(* The slots, the stream and the loop.                                     *)

SlotOk(r) ==
  /\ r.client = None => r = FreeSlot
  /\ r.client # None => r.state # "idle"
  /\ r.state = "receiving" => ~r.del /\ r.buf /\ ~r.ended /\ ~r.responded
  /\ r.state = "ready" => r.buf /\ ~r.responded
  /\ r.state = "ready" /\ (r.streaming \/ r.del) => r.ended
  /\ r.responded /\ r.streaming => r.ended
  /\ r.gone => r.del
  /\ r.ended /\ ~r.responded => r.buf
  /\ r.ended \/ r.begun => r.streaming
  /\ r.ended => r.begun
  /\ ~r.streaming => r.acked = 0

SlotInv ==
  /\ \A s \in 1 .. Slots : SlotOk(slot[s])
  /\ \A s, t \in 1 .. Slots : s # t /\ slot[s].client = slot[t].client => slot[s].client = None

StreamInv ==
  /\ stream.owner # 0 =>
       /\ slot[stream.owner].client # None /\ slot[stream.owner].streaming
       /\ slot[stream.owner].ended => LoopOn(stream.owner, {"letgo"})
  /\ \A s \in 1 .. Slots :
       slot[s].streaming /\ ~slot[s].ended => stream.owner = s \/ LoopOn(s, {"reset"})
  /\ \A s \in 1 .. Slots : slot[s].aborted => LoopOn(s, {"reset"})

LoopInv ==
  LET r == slot[loop.s] IN
  /\ loop.at = "idle" => loop = NoLoop
  /\ loop.at # "idle" => loop.s \in 1 .. Slots
  /\ loop.at = "release" => loop.dead \in Clients
  /\ loop.at \in Draining \cup Answering \cup Reclaiming \cup {"drained"} => r.client # None
  /\ loop.at \in Draining => /\ r.streaming /\ loop.next \in {"drained", "late"}
                             /\ loop.next = "late" => r.del
  /\ loop.at \in {"deliver", "settle", "end"} => stream.owner = loop.s /\ ~r.ended /\ r.begun
  /\ loop.at \in {"deliver", "settle"} => loop.n <= stream.len
  /\ loop.at = "end" => r.acked = Parts
  /\ loop.at = "letgo" => stream.owner = loop.s /\ r.ended
  /\ loop.at \in Answering => /\ r.state # "receiving" /\ loop.next \in {"scan", "clean"}
                              /\ loop.next = "clean" => r.del
  /\ loop.at \in Answering /\ r.streaming => r.ended
  /\ loop.at = "respond" => r.buf /\ ~r.responded
  /\ loop.at \in {"answered", "hangup", "mark"} => r.responded /\ r.state # "ready"
  /\ loop.at = "answered" => r.buf
  /\ loop.at \in Reclaiming => r.del
  /\ loop.at \in {"clean", "reset"} /\ r.ended => r.responded
  /\ loop.at = "reset" => stream.owner # loop.s /\ (r.begun /\ ~r.ended => r.aborted)

(* Who is to be reclaimed will be: it is wanted, or the pass is not past.  *)
Ahead(s) ==
  \/ loop.at # "idle" /\ loop.s < s
  \/ LoopOn(s, {"scan"} \cup Reclaiming)
  \/ LoopOn(s, Draining) /\ loop.next = "late"
  \/ LoopOn(s, Answering) /\ loop.next = "clean"

PromiseInv == \A s \in 1 .. Slots : slot[s].del => wanted \/ Ahead(s)

SlotsInv == SlotInv /\ StreamInv /\ LoopInv /\ PromiseInv

----------------------------------------------------------------------------
(* The parts of an upload: what is queued, in the task's hands and in the  *)
(* buffer, what was refused, and what was acked, were sent.                *)

InHand(c) == IF On(c, {"recv", "take"}) /\ task.x = "part" THEN 1 ELSE 0
Buffered(c) == IF stream.owner # 0 /\ slot[stream.owner].client = c THEN stream.len ELSE 0
Dropped(s) == IF slot[s].buf \/ slot[s].responded \/ LoopOn(s, {"reset"}) THEN 0 ELSE 1
Left(c) == Queued(queue, c) + InHand(c) + Buffered(c)

PartInv ==
  /\ \A c \in Clients : Left(c) <= peer[c].sent /\ (~peer[c].head => peer[c].sent = 0)
  /\ \A s \in 1 .. Slots : slot[s].client # None /\ slot[s].streaming =>
       slot[s].acked + Left(slot[s].client) + Dropped(s) <= peer[slot[s].client].sent

(* What the handler of an upload heard.                                    *)
Heard(r) ==
  IF ~r.begun THEN "none" ELSE IF r.ended THEN "ended" ELSE IF r.aborted THEN "aborted" ELSE "begun"

HeardInv ==
  /\ \A c \in Clients : ~conn[c].wired \/ On(c, {"alloc"}) => upload[c].events = "none" /\ upload[c].got = 0
  /\ \A c \in Clients : upload[c].events = "begun" => Slotted(c)
  /\ \A s \in 1 .. Slots : slot[s].client # None =>
       /\ upload[slot[s].client].events = Heard(slot[s])
       /\ upload[slot[s].client].got = slot[s].acked + (IF LoopOn(s, {"settle"}) THEN loop.n ELSE 0)

(* Who is counted has been accepted and not been told.                     *)
Counted == {c \in Clients : Alive(c) /\ conn[c].wired /\ ~Told(c)}
CountInv == IsFiniteSet(Counted) /\ inFlight = Cardinality(Counted) /\ inFlight <= MaxInFlight

ServerInv ==
  /\ Types /\ TaskInv /\ ClientInv /\ HeadInv /\ SlotsInv /\ PartInv /\ HeardInv /\ CountInv

----------------------------------------------------------------------------
(* Queues that grow and shrink.                                            *)

LEMMA Counting ==
  ASSUME NEW q \in Seq(EventType), NEW c
  PROVE  IsFiniteSet(PartsIn(q, c)) /\ Queued(q, c) \in Nat
<1>1. Len(q) \in Nat /\ PartsIn(q, c) \in SUBSET (1 .. Len(q))
  BY DEF PartsIn, Places
<1>2. IsFiniteSet(1 .. Len(q))
  BY <1>1, FS_Interval
<1>3. IsFiniteSet(PartsIn(q, c))
  BY <1>1, <1>2, FS_Subset
<1> QED BY <1>3, FS_CardinalityType DEF Queued

LEMMA LabelIs ==
  ASSUME NEW e \in EventType
  PROVE  /\ Label(e) \in Labels /\ (e.x = "part" => Label(e) = "recv")
         /\ (Label(e) = "head" <=> e.ev = "recv" /\ e.x \in Heads)
         /\ (e.ev # "recv" => Label(e) = e.ev)
         /\ (e.ev = "recv" => Label(e) \in {"head", "recv"} /\ e.x \in Data)
BY DEF Label, Labels, EventType, Heads, Data, Kinds, None

\* A new event is the last.
LEMMA Appended ==
  ASSUME NEW q \in Seq(EventType), NEW e \in EventType
  PROVE  LET t == Append(q, e) IN
         /\ t \in Seq(EventType)
         /\ \A c \in Clients :
              /\ Events(t, c) = IF c = e.c THEN Events(q, c) \cup {Label(e)} ELSE Events(q, c)
              /\ Queued(t, c) = Queued(q, c) + IF c = e.c /\ e.x = "part" THEN 1 ELSE 0
              /\ Led(q, c) /\ (c # e.c \/ "accept" \in Events(q, c) \/ Label(e) = "error") => Led(t, c)
         /\ Once(q) /\ Label(e) \notin Events(q, e.c) \cap Singles => Once(t)
<1> DEFINE t == Append(q, e)
           n == Len(q) + 1
<1>1. /\ t \in Seq(EventType) /\ Len(t) = n /\ n \in Nat /\ Len(q) \in Nat
      /\ \A i \in 1 .. Len(q) : t[i] = q[i]
      /\ t[n] = e
  BY AppendProperties
<1> HIDE DEF t
<1>2. 1 .. Len(t) = (1 .. Len(q)) \cup {n} /\ n \notin 1 .. Len(q)
  BY <1>1
<1> HIDE DEF n
<1>3. \A c \in Clients : Places(t, c) = IF c = e.c THEN Places(q, c) \cup {n} ELSE Places(q, c)
  BY <1>1, <1>2 DEF Places
<1>4. \A c \in Clients : Events(t, c) = IF c = e.c THEN Events(q, c) \cup {Label(e)} ELSE Events(q, c)
  <2>1. \A c \in Clients : \A i \in Places(q, c) : t[i] = q[i]
    BY <1>1 DEF Places
  <2>2. SUFFICES ASSUME NEW c \in Clients
                 PROVE  Events(t, c) = IF c = e.c THEN Events(q, c) \cup {Label(e)} ELSE Events(q, c)
    OBVIOUS
  <2>3. \A i \in Places(q, c) : Label(t[i]) = Label(q[i])
    BY <2>1
  <2>4. Label(t[n]) = Label(e)
    BY <1>1
  <2> QED BY <1>3, <2>3, <2>4 DEF Events
<1>5. \A c \in Clients : Queued(t, c) = Queued(q, c) + IF c = e.c /\ e.x = "part" THEN 1 ELSE 0
  <2>1. SUFFICES ASSUME NEW c \in Clients
                 PROVE  Queued(t, c) = Queued(q, c) + IF c = e.c /\ e.x = "part" THEN 1 ELSE 0
    OBVIOUS
  <2>2. IsFiniteSet(PartsIn(q, c)) /\ Queued(q, c) \in Nat /\ n \notin PartsIn(q, c)
    BY <1>2, Counting DEF PartsIn, Places
  <2>3. PartsIn(t, c) = IF c = e.c /\ e.x = "part" THEN PartsIn(q, c) \cup {n} ELSE PartsIn(q, c)
    BY <1>1, <1>2 DEF PartsIn, Places
  <2>4. CASE c = e.c /\ e.x = "part"
    <3>1. Cardinality(PartsIn(q, c) \cup {n}) = Cardinality(PartsIn(q, c)) + 1
      BY <2>2, FS_AddElement
    <3> QED BY <2>3, <2>4, <3>1 DEF Queued
  <2>5. CASE ~(c = e.c /\ e.x = "part")
    BY <2>2, <2>3, <2>5 DEF Queued
  <2> QED BY <2>4, <2>5
<1>6. \A c \in Clients :
        Led(q, c) /\ (c # e.c \/ "accept" \in Events(q, c) \/ Label(e) = "error") => Led(t, c)
  <2>1. SUFFICES ASSUME NEW c \in Clients, Led(q, c),
                        c # e.c \/ "accept" \in Events(q, c) \/ Label(e) = "error",
                        NEW i \in Places(t, c), Label(t[i]) \notin {"accept", "error"}
                 PROVE  \E j \in Places(t, c) : j < i /\ Label(t[j]) = "accept"
    BY DEF Led
  <2>2. \A j \in Places(q, c) : j \in 1 .. Len(q) /\ t[j] = q[j] /\ j \in Places(t, c)
    BY <1>1, <1>3 DEF Places
  <2>3. CASE i \in Places(q, c)
    <3>1. PICK j \in Places(q, c) : j < i /\ Label(q[j]) = "accept"
      BY <2>1, <2>2, <2>3 DEF Led
    <3> QED BY <2>2, <3>1
  <2>4. CASE i = n /\ c = e.c
    <3>1. "accept" \in Events(q, c)
      BY <1>1, <2>1, <2>4
    <3>2. PICK j \in Places(q, c) : Label(q[j]) = "accept"
      BY <3>1 DEF Events
    <3>3. j < n
      BY <1>1, <2>2, <3>2 DEF n
    <3> QED BY <2>2, <2>4, <3>2, <3>3
  <2> QED BY <1>3, <2>1, <2>3, <2>4
<1>7. Once(q) /\ Label(e) \notin Events(q, e.c) \cap Singles => Once(t)
  <2>1. SUFFICES ASSUME Once(q), Label(e) \notin Events(q, e.c) \cap Singles,
                        NEW i \in 1 .. Len(t), NEW j \in 1 .. Len(t),
                        t[i].c = t[j].c, Label(t[i]) = Label(t[j]), Label(t[i]) \in Singles
                 PROVE  i = j
    BY DEF Once
  <2>2. \A k \in 1 .. Len(q) : q[k].c = e.c => Label(q[k]) \in Events(q, e.c)
    BY DEF Events, Places
  <2>3. CASE i \in 1 .. Len(q) /\ j \in 1 .. Len(q)
    BY <1>1, <2>1, <2>3 DEF Once
  <2>4. CASE i = n /\ j \in 1 .. Len(q)
    BY <1>1, <2>1, <2>2, <2>4
  <2>5. CASE j = n /\ i \in 1 .. Len(q)
    BY <1>1, <2>1, <2>2, <2>5
  <2> QED BY <1>2, <2>3, <2>4, <2>5
<1> QED BY <1>1, <1>4, <1>5, <1>6, <1>7 DEF t

\* An accept is the first.
LEMMA Fronted ==
  ASSUME NEW q \in Seq(EventType), NEW e \in EventType, e.ev = "accept", Events(q, e.c) = {}
  PROVE  LET t == <<e>> \o q IN
         /\ t \in Seq(EventType)
         /\ \A c \in Clients :
              /\ Events(t, c) = IF c = e.c THEN {"accept"} ELSE Events(q, c)
              /\ Queued(t, c) = Queued(q, c)
              /\ Led(q, c) => Led(t, c)
         /\ Once(q) => Once(t)
<1> DEFINE t == <<e>> \o q
           up == [i \in 1 .. Len(q) |-> i + 1]
<1>1. <<e>> \in Seq(EventType) /\ Len(<<e>>) = 1 /\ <<e>>[1] = e
  OBVIOUS
<1>2. /\ t \in Seq(EventType) /\ Len(t) = Len(<<e>>) + Len(q)
      /\ \A i \in 1 .. Len(<<e>>) + Len(q) :
           t[i] = IF i <= Len(<<e>>) THEN <<e>>[i] ELSE q[i - Len(<<e>>)]
  BY <1>1, ConcatProperties
<1> HIDE DEF t
<1>3. /\ t \in Seq(EventType) /\ Len(t) = Len(q) + 1 /\ Len(q) \in Nat
      /\ \A i \in 1 .. Len(q) + 1 : t[i] = IF i <= 1 THEN e ELSE q[i - 1]
  BY <1>1, <1>2
<1>4. /\ t[1] = e /\ 1 \in 1 .. Len(t)
      /\ \A i \in 1 .. Len(q) : i + 1 \in 1 .. Len(t) /\ t[i + 1] = q[i]
  <2>1. \A i \in 1 .. Len(q) : i + 1 \in 1 .. Len(q) + 1 /\ ~(i + 1 <= 1) /\ i + 1 - 1 = i
    BY <1>3
  <2> QED BY <1>3, <2>1
<1>5. \A i \in 1 .. Len(t) : i = 1 \/ (i - 1 \in 1 .. Len(q) /\ t[i] = q[i - 1])
  BY <1>3
<1>6. e.x # "part" /\ Label(e) = "accept" /\ "accept" \notin Heads
  BY LabelIs DEF Labels, Heads, EventType, Data, None
<1>7. \A c \in Clients : Places(q, c) = {} <=> Events(q, c) = {}
  BY DEF Events
<1>8. Places(q, e.c) = {} /\ e.c \in Clients
  BY <1>7 DEF EventType
<1>9. \A c \in Clients : c # e.c =>
        /\ \A i \in Places(q, c) : i + 1 \in Places(t, c) /\ t[i + 1] = q[i]
        /\ \A i \in Places(t, c) : i # 1 /\ i - 1 \in Places(q, c) /\ t[i] = q[i - 1]
  BY <1>4, <1>5 DEF Places
<1>10. Places(t, e.c) = {1}
  <2>1. \A k \in 1 .. Len(q) : q[k].c # e.c
    BY <1>8 DEF Places
  <2>2. \A i \in 1 .. Len(t) : t[i].c = e.c <=> i = 1
    BY <1>4, <1>5, <2>1
  <2> QED BY <1>4, <2>2 DEF Places
<1>11. \A c \in Clients : Events(t, c) = IF c = e.c THEN {"accept"} ELSE Events(q, c)
  <2>1. SUFFICES ASSUME NEW c \in Clients
                 PROVE  Events(t, c) = IF c = e.c THEN {"accept"} ELSE Events(q, c)
    OBVIOUS
  <2>2. CASE c = e.c
    BY <1>4, <1>6, <1>10, <2>2 DEF Events
  <2>3. CASE c # e.c
    <3>1. \A i \in Places(t, c) : Label(t[i]) \in Events(q, c)
      BY <1>9, <2>3 DEF Events
    <3>2. \A i \in Places(q, c) : Label(q[i]) \in Events(t, c)
      BY <1>9, <2>3 DEF Events
    <3>3. Events(t, c) \subseteq Events(q, c)
      BY <3>1 DEF Events
    <3>4. Events(q, c) \subseteq Events(t, c)
      BY <3>2 DEF Events
    <3> QED BY <2>3, <3>3, <3>4
  <2> QED BY <2>2, <2>3
<1>12. \A c \in Clients : Queued(t, c) = Queued(q, c)
  <2>1. SUFFICES ASSUME NEW c \in Clients PROVE Queued(t, c) = Queued(q, c)
    OBVIOUS
  <2> DEFINE g == [i \in PartsIn(q, c) |-> i + 1]
  <2>2. \A i \in PartsIn(q, c) : i \in Nat /\ i + 1 \in PartsIn(t, c)
    <3>1. PartsIn(q, c) # {} => c # e.c
      BY <1>8 DEF PartsIn
    <3> QED BY <1>9, <3>1 DEF PartsIn, Places
  <2>3. \A i \in PartsIn(t, c) : i \in Nat /\ i - 1 \in PartsIn(q, c) /\ i - 1 + 1 = i
    <3>1. PartsIn(t, c) # {} => c # e.c
      BY <1>4, <1>6, <1>10 DEF PartsIn
    <3> QED BY <1>9, <3>1 DEF PartsIn, Places
  <2>4. g \in [PartsIn(q, c) -> PartsIn(t, c)]
    BY <2>2
  <2>5. \A i, j \in PartsIn(q, c) : g[i] = g[j] => i = j
    BY <2>2
  <2>6. \A k \in PartsIn(t, c) : \E i \in PartsIn(q, c) : g[i] = k
    BY <2>3
  <2>7. g \in Bijection(PartsIn(q, c), PartsIn(t, c))
    BY <2>4, <2>5, <2>6 DEF Bijection, Injection, Surjection, IsInjective
  <2>8. IsFiniteSet(PartsIn(q, c))
    BY Counting
  <2> HIDE DEF g
  <2> QED BY <2>7, <2>8, FS_Bijection DEF ExistsBijection, Queued
<1>13. \A c \in Clients : Led(q, c) => Led(t, c)
  <2>1. SUFFICES ASSUME NEW c \in Clients, Led(q, c), NEW i \in Places(t, c),
                        Label(t[i]) \notin {"accept", "error"}
                 PROVE  \E j \in Places(t, c) : j < i /\ Label(t[j]) = "accept"
    BY DEF Led
  <2>2. c # e.c
    BY <1>4, <1>6, <1>10, <2>1
  <2>3. i - 1 \in Places(q, c) /\ t[i] = q[i - 1]
    BY <1>9, <2>2
  <2>4. PICK j \in Places(q, c) : j < i - 1 /\ Label(q[j]) = "accept"
    BY <2>1, <2>3 DEF Led
  <2>5. j + 1 \in Places(t, c) /\ t[j + 1] = q[j]
    BY <1>9, <2>2
  <2>6. j \in Nat /\ i \in Nat /\ j + 1 < i
    BY <2>4 DEF Places
  <2> QED BY <2>4, <2>5, <2>6
<1>14. Once(q) => Once(t)
  <2>1. SUFFICES ASSUME Once(q), NEW i \in 1 .. Len(t), NEW j \in 1 .. Len(t),
                        t[i].c = t[j].c, Label(t[i]) = Label(t[j]), Label(t[i]) \in Singles
                 PROVE  i = j
    BY DEF Once
  <2>2. \A k \in 1 .. Len(q) : q[k].c # e.c
    BY <1>8 DEF Places
  <2>3. CASE i = 1
    BY <1>4, <1>5, <2>1, <2>2, <2>3
  <2>4. CASE j = 1
    BY <1>4, <1>5, <2>1, <2>2, <2>4
  <2>5. CASE i # 1 /\ j # 1
    <3>1. i - 1 \in 1 .. Len(q) /\ j - 1 \in 1 .. Len(q) /\ t[i] = q[i - 1] /\ t[j] = q[j - 1]
      BY <1>5, <2>5
    <3>2. i - 1 = j - 1
      BY <2>1, <3>1 DEF Once
    <3> QED BY <3>2
  <2> QED BY <2>3, <2>4, <2>5
<1> QED BY <1>3, <1>11, <1>12, <1>13, <1>14 DEF t

\* What is left of a queue is as it was.
LEMMA Picked ==
  ASSUME NEW q \in Seq(EventType), NEW t \in Seq(EventType), NEW K \in SUBSET (1 .. Len(q)),
         Picks(t, q, K)
  PROVE  /\ \A c \in Clients :
              /\ Events(t, c) = {Label(q[i]) : i \in K \cap Places(q, c)}
              /\ Queued(t, c) = Cardinality(PartsIn(q, c) \cap K) /\ Queued(t, c) <= Queued(q, c)
              /\ Led(q, c) /\ (\A i \in Places(q, c) : Label(q[i]) = "accept" => i \in K) => Led(t, c)
         /\ Once(q) => Once(t)
<1>1. PICK f : Follows(f, t, q, K)
  BY DEF Picks
<1>2. Len(q) \in Nat /\ Len(t) \in Nat
  OBVIOUS
<1>3. /\ \A i \in 1 .. Len(t) : f[i] \in K /\ f[i] \in 1 .. Len(q) /\ f[i] \in Nat /\ t[i] = q[f[i]]
      /\ \A i, j \in 1 .. Len(t) : i < j => f[i] < f[j]
      /\ \A k \in K : \E i \in 1 .. Len(t) : f[i] = k
  <2>1. \A k \in K : k \in 1 .. Len(q) /\ k \in Nat
    BY <1>2
  <2>2. \A i \in 1 .. Len(t) : f[i] \in K /\ t[i] = q[f[i]]
    BY <1>1 DEF Follows
  <2>3. /\ \A i, j \in 1 .. Len(t) : i < j => f[i] < f[j]
        /\ \A k \in K : \E i \in 1 .. Len(t) : f[i] = k
    BY <1>1 DEF Follows
  <2> QED BY <2>1, <2>2, <2>3
<1>4. \A i, j \in 1 .. Len(t) : f[i] = f[j] => i = j
  <2>1. SUFFICES ASSUME NEW i \in 1 .. Len(t), NEW j \in 1 .. Len(t), f[i] = f[j], i # j PROVE FALSE
    OBVIOUS
  <2>2. i < j \/ j < i
    BY <1>2, <2>1
  <2>3. f[i] < f[j] \/ f[j] < f[i]
    BY <1>3, <2>2
  <2> QED BY <1>3, <2>1, <2>3
<1>5. \A i, j \in 1 .. Len(t) : f[i] < f[j] => i < j
  <2>1. SUFFICES ASSUME NEW i \in 1 .. Len(t), NEW j \in 1 .. Len(t), f[i] < f[j], ~(i < j) PROVE FALSE
    OBVIOUS
  <2>2. i = j \/ j < i
    BY <1>2, <2>1
  <2>3. f[i] = f[j] \/ f[j] < f[i]
    BY <1>3, <2>2
  <2>4. f[i] \in Nat /\ f[j] \in Nat
    BY <1>3
  <2> QED BY <2>1, <2>3, <2>4
<1>6. \A c : \A i \in Places(t, c) : i \in 1 .. Len(t) /\ f[i] \in K \cap Places(q, c) /\ t[i] = q[f[i]]
  BY <1>3 DEF Places
<1>7. \A c : \A k \in K \cap Places(q, c) : \E i \in Places(t, c) : f[i] = k /\ t[i] = q[k]
  <2>1. SUFFICES ASSUME NEW c, NEW k \in K \cap Places(q, c)
                 PROVE  \E i \in Places(t, c) : f[i] = k /\ t[i] = q[k]
    OBVIOUS
  <2>2. PICK i \in 1 .. Len(t) : f[i] = k
    BY <1>3
  <2>3. t[i] = q[k] /\ q[k].c = c
    BY <1>3, <2>2 DEF Places
  <2> QED BY <2>2, <2>3 DEF Places
<1>8. \A c \in Clients : Events(t, c) = {Label(q[i]) : i \in K \cap Places(q, c)}
  <2>1. SUFFICES ASSUME NEW c \in Clients
                 PROVE  Events(t, c) = {Label(q[i]) : i \in K \cap Places(q, c)}
    OBVIOUS
  <2> DEFINE M == {Label(q[i]) : i \in K \cap Places(q, c)}
  <2>2. \A i \in Places(t, c) : Label(t[i]) \in M
    BY <1>6
  <2>3. \A k \in K \cap Places(q, c) : Label(q[k]) \in Events(t, c)
    BY <1>7 DEF Events
  <2>4. Events(t, c) \subseteq M
    BY <2>2 DEF Events
  <2>5. M \subseteq Events(t, c)
    BY <2>3
  <2> QED BY <2>4, <2>5
<1>9. \A c \in Clients : Queued(t, c) = Cardinality(PartsIn(q, c) \cap K) /\ Queued(t, c) <= Queued(q, c)
  <2>1. SUFFICES ASSUME NEW c \in Clients
                 PROVE  Queued(t, c) = Cardinality(PartsIn(q, c) \cap K) /\ Queued(t, c) <= Queued(q, c)
    OBVIOUS
  <2> DEFINE g == [i \in PartsIn(t, c) |-> f[i]]
  <2>2. g \in [PartsIn(t, c) -> PartsIn(q, c) \cap K]
    BY <1>6 DEF PartsIn
  <2>3. \A i, j \in PartsIn(t, c) : g[i] = g[j] => i = j
    BY <1>4 DEF PartsIn, Places
  <2>4. \A k \in PartsIn(q, c) \cap K : \E i \in PartsIn(t, c) : g[i] = k
    <3>1. SUFFICES ASSUME NEW k \in PartsIn(q, c) \cap K PROVE \E i \in PartsIn(t, c) : g[i] = k
      OBVIOUS
    <3>2. PICK i \in Places(t, c) : f[i] = k /\ t[i] = q[k]
      BY <1>7 DEF PartsIn
    <3>3. i \in PartsIn(t, c)
      BY <3>2 DEF PartsIn
    <3> QED BY <3>2, <3>3
  <2>5. g \in Bijection(PartsIn(t, c), PartsIn(q, c) \cap K)
    BY <2>2, <2>3, <2>4 DEF Bijection, Injection, Surjection, IsInjective
  <2>6. IsFiniteSet(PartsIn(q, c)) /\ IsFiniteSet(PartsIn(t, c))
    BY Counting
  <2> HIDE DEF g
  <2>7. Queued(t, c) = Cardinality(PartsIn(q, c) \cap K)
    BY <2>5, <2>6, FS_Bijection DEF ExistsBijection, Queued
  <2>8. Cardinality(PartsIn(q, c) \cap K) <= Cardinality(PartsIn(q, c))
    BY <2>6, FS_Subset
  <2> QED BY <2>7, <2>8 DEF Queued
<1>10. \A c \in Clients :
         Led(q, c) /\ (\A i \in Places(q, c) : Label(q[i]) = "accept" => i \in K) => Led(t, c)
  <2>1. SUFFICES ASSUME NEW c \in Clients, Led(q, c),
                        \A i \in Places(q, c) : Label(q[i]) = "accept" => i \in K,
                        NEW i \in Places(t, c), Label(t[i]) \notin {"accept", "error"}
                 PROVE  \E j \in Places(t, c) : j < i /\ Label(t[j]) = "accept"
    BY DEF Led
  <2>2. f[i] \in Places(q, c) /\ t[i] = q[f[i]] /\ i \in 1 .. Len(t)
    BY <1>6
  <2>3. PICK k \in Places(q, c) : k < f[i] /\ Label(q[k]) = "accept"
    BY <2>1, <2>2 DEF Led
  <2>4. k \in K \cap Places(q, c)
    BY <2>1, <2>3
  <2>5. PICK j \in Places(t, c) : f[j] = k /\ t[j] = q[k]
    BY <1>7, <2>4
  <2>6. j \in 1 .. Len(t)
    BY DEF Places
  <2>7. j < i
    BY <1>5, <2>2, <2>3, <2>5, <2>6
  <2> QED BY <2>3, <2>5, <2>7
<1>11. Once(q) => Once(t)
  <2>1. SUFFICES ASSUME Once(q), NEW i \in 1 .. Len(t), NEW j \in 1 .. Len(t),
                        t[i].c = t[j].c, Label(t[i]) = Label(t[j]), Label(t[i]) \in Singles
                 PROVE  i = j
    BY DEF Once
  <2>2. t[i] = q[f[i]] /\ t[j] = q[f[j]] /\ f[i] \in 1 .. Len(q) /\ f[j] \in 1 .. Len(q)
    BY <1>3
  <2>3. f[i] = f[j]
    BY <2>1, <2>2 DEF Once
  <2> QED BY <1>4, <2>3
<1> QED BY <1>8, <1>9, <1>10, <1>11

\* The first event is taken.
LEMMA Taken ==
  ASSUME NEW q \in Seq(EventType), q # <<>>, Once(q)
  PROVE  LET e == Head(q)
             t == Tail(q)
         IN /\ t \in Seq(EventType) /\ e \in EventType /\ Once(t)
            /\ \A c \in Clients :
                 /\ Events(q, c) = Events(t, c) \cup IF c = e.c THEN {Label(e)} ELSE {}
                 /\ Queued(q, c) = Queued(t, c) + IF c = e.c /\ e.x = "part" THEN 1 ELSE 0
                 /\ Led(q, c) /\ (c # e.c \/ Label(e) # "accept") => Led(t, c)
                 /\ Led(q, c) /\ c = e.c => Label(e) \in {"accept", "error"}
                 /\ c = e.c /\ Label(e) \in Singles => Label(e) \notin Events(t, c)
<1> DEFINE t == Tail(q)
           K == 2 .. Len(q)
<1>1. /\ t \in Seq(EventType) /\ Len(t) = Len(q) - 1 /\ Head(q) = q[1] /\ Len(q) > 0
      /\ Picks(t, q, K)
  BY TailPicks
<1>2. Len(q) \in Nat /\ 1 .. Len(q) = K \cup {1} /\ 1 \notin K /\ 1 \in 1 .. Len(q) /\ K \in SUBSET (1 .. Len(q))
  BY <1>1
<1>3. q[1] \in EventType
  BY <1>2
<1> HIDE DEF t, K
<1>4. /\ \A c \in Clients :
           /\ Events(t, c) = {Label(q[i]) : i \in K \cap Places(q, c)}
           /\ Queued(t, c) = Cardinality(PartsIn(q, c) \cap K) /\ Queued(t, c) <= Queued(q, c)
           /\ Led(q, c) /\ (\A i \in Places(q, c) : Label(q[i]) = "accept" => i \in K) => Led(t, c)
      /\ Once(t)
  BY <1>1, <1>2, Picked
<1>5. \A c \in Clients : Places(q, c) = (K \cap Places(q, c)) \cup IF c = q[1].c THEN {1} ELSE {}
  BY <1>2 DEF Places
<1>6. \A c \in Clients : Events(q, c) = Events(t, c) \cup IF c = q[1].c THEN {Label(q[1])} ELSE {}
  <2>1. SUFFICES ASSUME NEW c \in Clients
                 PROVE  Events(q, c) = Events(t, c) \cup IF c = q[1].c THEN {Label(q[1])} ELSE {}
    OBVIOUS
  <2> DEFINE kept == K \cap Places(q, c)
             all == Places(q, c)
  <2>2. Events(t, c) = {Label(q[i]) : i \in kept} /\ Events(q, c) = {Label(q[i]) : i \in all}
    BY <1>4 DEF Events
  <2>3. all = kept \cup IF c = q[1].c THEN {1} ELSE {}
    BY <1>5
  <2> HIDE DEF kept, all
  <2>4. CASE c = q[1].c
    BY <2>2, <2>3, <2>4
  <2>5. CASE c # q[1].c
    BY <2>2, <2>3, <2>5
  <2> QED BY <2>4, <2>5
<1>7. \A c \in Clients : Queued(q, c) = Queued(t, c) + IF c = q[1].c /\ q[1].x = "part" THEN 1 ELSE 0
  <2>1. SUFFICES ASSUME NEW c \in Clients
                 PROVE  Queued(q, c) = Queued(t, c) + IF c = q[1].c /\ q[1].x = "part" THEN 1 ELSE 0
    OBVIOUS
  <2> DEFINE P == PartsIn(q, c)
  <2>2. IsFiniteSet(P) /\ Queued(q, c) \in Nat /\ IsFiniteSet(P \cap K)
    BY Counting, FS_Subset
  <2>3. 1 \in P <=> c = q[1].c /\ q[1].x = "part"
    BY <1>2 DEF PartsIn, Places
  <2>4. P \cap K = P \ {1}
    BY <1>2 DEF PartsIn, Places
  <2>5. Queued(q, c) = Cardinality(P) /\ Queued(t, c) = Cardinality(P \ {1})
    BY <1>4, <2>4 DEF Queued
  <2> HIDE DEF P
  <2>6. Cardinality(P \ {1}) = IF 1 \in P THEN Cardinality(P) - 1 ELSE Cardinality(P)
    BY <2>2, FS_RemoveElement
  <2> QED BY <2>2, <2>3, <2>5, <2>6
<1>8. \A c \in Clients : Led(q, c) /\ (c # q[1].c \/ Label(q[1]) # "accept") => Led(t, c)
  BY <1>4, <1>5
<1>9. \A c \in Clients : Led(q, c) /\ c = q[1].c => Label(q[1]) \in {"accept", "error"}
  <2>1. SUFFICES ASSUME NEW c \in Clients, Led(q, c), c = q[1].c, NEW j \in Places(q, c), j < 1
                 PROVE  FALSE
    BY <1>2 DEF Led, Places
  <2> QED BY <2>1 DEF Places
<1>10. \A c \in Clients : c = q[1].c /\ Label(q[1]) \in Singles => Label(q[1]) \notin Events(t, c)
  <2>1. SUFFICES ASSUME NEW c \in Clients, c = q[1].c, Label(q[1]) \in Singles,
                        NEW i \in K \cap Places(q, c), Label(q[i]) = Label(q[1])
                 PROVE  FALSE
    BY <1>4
  <2>2. i = 1
    BY <1>2, <2>1 DEF Once, Places
  <2> QED BY <1>2, <2>2
<1> QED BY <1>1, <1>3, <1>4, <1>6, <1>7, <1>8, <1>9, <1>10 DEF t

\* The events of a client are removed, but for its release.
LEMMA Removed ==
  ASSUME queue \in Seq(EventType), NEW c \in Clients
  PROVE  /\ Without(c) \in Seq(EventType) /\ (Once(queue) => Once(Without(c)))
         /\ \A d \in Clients :
              /\ Events(Without(c), d) = IF d = c THEN Ev(d) \cap {"release"} ELSE Ev(d)
              /\ Queued(Without(c), d) <= Queued(queue, d)
              /\ Led(queue, d) /\ d # c => Led(Without(c), d)
         /\ Len(Without(c)) < Len(queue) <=> Ev(c) \ {"release"} # {}
<1> DEFINE K == {i \in DOMAIN queue : queue[i].c # c \/ queue[i].ev = "release"}
           t == Without(c)
<1>1. K \in SUBSET (1 .. Len(queue)) /\ Len(queue) \in Nat
      /\ \A i \in 1 .. Len(queue) : queue[i] \in EventType
  OBVIOUS
<1>2. t \in Seq(EventType) /\ Picks(t, queue, K) /\ Len(t) = Cardinality(K)
  BY <1>1, OnlyPicks DEF Without
<1>3. \A i \in 1 .. Len(queue) : i \in K <=> queue[i].c # c \/ Label(queue[i]) = "release"
  BY <1>1, LabelIs
<1> HIDE DEF K, t
<1>4. /\ \A d \in Clients :
           /\ Events(t, d) = {Label(queue[i]) : i \in K \cap Places(queue, d)}
           /\ Queued(t, d) <= Queued(queue, d)
           /\ Led(queue, d) /\ (\A i \in Places(queue, d) : Label(queue[i]) = "accept" => i \in K) => Led(t, d)
      /\ Once(queue) => Once(t)
  BY <1>1, <1>2, Picked
<1>5. \A d \in Clients : d # c => K \cap Places(queue, d) = Places(queue, d)
  BY <1>3 DEF Places
<1>6. \A i \in K \cap Places(queue, c) : Label(queue[i]) = "release"
  BY <1>3 DEF Places
<1>7. \A i \in Places(queue, c) : Label(queue[i]) = "release" => i \in K
  BY <1>3 DEF Places
<1>8. Events(t, c) = Ev(c) \cap {"release"}
  BY <1>4, <1>6, <1>7 DEF Ev, Events
<1>9. \A d \in Clients : d # c => Events(t, d) = Ev(d) /\ (Led(queue, d) => Led(t, d))
  BY <1>4, <1>5 DEF Ev, Events
<1>10. Len(t) < Len(queue) <=> Ev(c) \ {"release"} # {}
  <2>1. IsFiniteSet(1 .. Len(queue)) /\ Cardinality(1 .. Len(queue)) = Len(queue)
    <3>1. Len(queue) \in Int /\ 1 \in Int
      BY <1>1
    <3>2. /\ IsFiniteSet(1 .. Len(queue))
          /\ Cardinality(1 .. Len(queue)) = IF 1 > Len(queue) THEN 0 ELSE Len(queue) - 1 + 1
      BY ONLY <3>1, FS_Interval
    <3> QED BY <1>1, <3>2
  <2>2. K = 1 .. Len(queue) <=> Ev(c) \ {"release"} = {}
    <3>1. K = 1 .. Len(queue) <=> \A i \in 1 .. Len(queue) : i \in K
      BY <1>1
    <3>2. Ev(c) \ {"release"} = {} <=> \A i \in Places(queue, c) : Label(queue[i]) = "release"
      BY DEF Ev, Events
    <3> QED BY <1>3, <3>1, <3>2 DEF Places
  <2>3. Cardinality(K) <= Len(queue) /\ (Cardinality(K) = Len(queue) => K = 1 .. Len(queue))
    <3>1. /\ Cardinality(K) <= Cardinality(1 .. Len(queue))
          /\ Cardinality(1 .. Len(queue)) = Cardinality(K) => 1 .. Len(queue) = K
      BY <1>1, <2>1, FS_Subset
    <3> QED BY <2>1, <3>1
  <2>4. K = 1 .. Len(queue) => Cardinality(K) = Len(queue)
    BY <2>1
  <2>5. Cardinality(K) \in Nat
    BY <1>1, PlacesAre
  <2> QED BY <1>1, <1>2, <2>2, <2>3, <2>4, <2>5
<1> QED BY <1>2, <1>4, <1>8, <1>9, <1>10 DEF t

\* With the first event all others of its client are removed.
LEMMA Cleared ==
  ASSUME queue \in Seq(EventType), queue # <<>>, NEW c \in Clients, c = Head(queue).c
  PROVE  /\ Others(c) \in Seq(EventType) /\ (Once(queue) => Once(Others(c)))
         /\ \A d \in Clients :
              /\ Events(Others(c), d) = IF d = c THEN {} ELSE Ev(d)
              /\ Queued(Others(c), d) <= Queued(queue, d)
              /\ Led(queue, d) /\ d # c => Led(Others(c), d)
<1> DEFINE K == {i \in 2 .. Len(queue) : queue[i].c # c}
           t == Others(c)
<1>1. /\ K \in SUBSET (1 .. Len(queue)) /\ Len(queue) \in Nat
      /\ \A i \in 1 .. Len(queue) : i = 1 \/ i \in 2 .. Len(queue)
      /\ queue[1].c = c
  BY HeadTailProperties
<1>2. t \in Seq(EventType) /\ Picks(t, queue, K)
  BY <1>1, OnlyPicks DEF Others
<1>3. \A i \in 1 .. Len(queue) : i \in K <=> queue[i].c # c
  BY <1>1
<1> HIDE DEF K, t
<1>4. /\ \A d \in Clients :
           /\ Events(t, d) = {Label(queue[i]) : i \in K \cap Places(queue, d)}
           /\ Queued(t, d) <= Queued(queue, d)
           /\ Led(queue, d) /\ (\A i \in Places(queue, d) : Label(queue[i]) = "accept" => i \in K) => Led(t, d)
      /\ Once(queue) => Once(t)
  BY <1>1, <1>2, Picked
<1>5. \A d \in Clients : d # c => K \cap Places(queue, d) = Places(queue, d)
  BY <1>3 DEF Places
<1>6. K \cap Places(queue, c) = {}
  BY <1>3 DEF Places
<1>7. Events(t, c) = {}
  BY <1>4, <1>6
<1>8. \A d \in Clients : d # c => Events(t, d) = Ev(d) /\ (Led(queue, d) => Led(t, d))
  BY <1>4, <1>5 DEF Ev, Events
<1> QED BY <1>2, <1>4, <1>7, <1>8 DEF t

----------------------------------------------------------------------------
(* What a step leaves alone.                                               *)

Aside(c) ==
  /\ conn'[c] = conn[c]
  /\ Events(queue', c) = Events(queue, c) /\ (Led(queue, c) => Led(queue', c))
  /\ task' = task \/ (task.c # c /\ task'.c # c)
  /\ \A s \in 1 .. Slots :
       /\ slot'[s].client = c <=> slot[s].client = c
       /\ Has(s, c) => slot'[s].gone = slot[s].gone /\ (Hung(s) => Hung(s)')
  /\ Dead(c)' <=> Dead(c)

LEMMA TypesAre ==
  ASSUME Types
  PROVE  /\ \A c \in Clients : conn[c] \in ConnType /\ peer[c] \in PeerType /\ upload[c] \in UploadType
         /\ \A s \in 1 .. Slots : slot[s] \in SlotType
         /\ queue \in Seq(EventType) /\ stream \in StreamType /\ task \in TaskType /\ loop \in LoopType
         /\ Slots \in Nat \ {0} /\ Parts \in Nat \ {0} /\ Window \in Nat \ {0}
         /\ MaxInFlight \in Nat \ {0} /\ None \notin Clients
BY ServerAssumption DEF Types, None

LEMMA Bystander ==
  ASSUME NEW c \in Clients, ClientOk(c), Aside(c)
  PROVE  ClientOk(c)'
<1>1. Ev(c)' = Ev(c) /\ (Alive(c)' <=> Alive(c)) /\ conn'[c] = conn[c]
  BY DEF Aside, Ev, Alive
<1>2. /\ \A s \in 1 .. Slots : Has(s, c)' <=> Has(s, c)
      /\ \A s \in 1 .. Slots : Has(s, c) => slot'[s].gone = slot[s].gone /\ (Hung(s) => Hung(s)')
  BY DEF Aside, Has
<1>3. (Slotted(c)' <=> Slotted(c)) /\ (Gone(c)' <=> Gone(c)) /\ (Dead(c)' <=> Dead(c))
  BY <1>2 DEF Slotted, Gone, Aside
<1>4. Told(c)' <=> Told(c)
  BY <1>1, <1>3 DEF Told
<1>5. task' = task \/ (task.c # c /\ task'.c # c)
  BY DEF Aside
<1>6. (Failing(c)' <=> Failing(c)) /\ (Pending(c)' <=> Pending(c))
  BY <1>1, <1>5 DEF Failing, Pending, On
<1>7. LifeOk(c)'
  BY <1>1, <1>3, <1>4, <1>5, <1>6 DEF ClientOk, LifeOk
<1>8. TaskOk(c)'
  BY <1>1, <1>3, <1>4, <1>5, <1>6 DEF ClientOk, TaskOk, On
<1>9. EventsOk(c)'
  BY <1>1, <1>5 DEF ClientOk, EventsOk, On, Aside
<1>10. HangOk(c)'
  BY <1>1, <1>2, <1>4, <1>5 DEF ClientOk, HangOk, On
<1> QED BY <1>7, <1>8, <1>9, <1>10 DEF ClientOk

LEMMA SlotsStay ==
  ASSUME SlotsInv, UNCHANGED <<slot, stream, loop>>, wanted => wanted'
  PROVE  SlotsInv'
<1>1. SlotInv' /\ StreamInv'
  BY DEF SlotsInv, SlotInv, StreamInv, LoopOn
<1>2. LoopInv'
  BY DEF SlotsInv, LoopInv
<1>3. PromiseInv'
  BY DEF SlotsInv, PromiseInv, Ahead, LoopOn
<1> QED BY <1>1, <1>2, <1>3 DEF SlotsInv

LEMMA CountStays ==
  ASSUME CountInv, inFlight' = inFlight,
         \A c \in Clients : (Alive(c) /\ conn[c].wired /\ ~Told(c))' <=> Alive(c) /\ conn[c].wired /\ ~Told(c)
  PROVE  CountInv'
<1>1. Counted' = Counted
  BY DEF Counted
<1> QED BY <1>1 DEF CountInv

\* What is queued or in hand grows by no more than what was sent.
LEMMA PartsMove ==
  ASSUME Types, Types', PartInv, UNCHANGED <<slot, stream, loop>>,
         \A c \in Clients :
           /\ Queued(queue', c) + InHand(c)' + peer[c].sent <= Queued(queue, c) + InHand(c) + peer'[c].sent
           /\ ~peer'[c].head => peer'[c].sent = 0
  PROVE  PartInv'
<1>1. \A c \in Clients : Buffered(c)' = Buffered(c) /\ Buffered(c) \in Nat
  BY TypesAre DEF Buffered, StreamType
<1>2. \A c \in Clients : Queued(queue, c) + InHand(c) \in Nat /\ Queued(queue', c) + InHand(c)' \in Nat
  <2>1. \A c : InHand(c) \in Nat /\ InHand(c)' \in Nat
    BY DEF InHand
  <2>2. \A c : Queued(queue, c) \in Nat /\ Queued(queue', c) \in Nat
    BY Counting DEF Types
  <2> QED BY <2>1, <2>2
<1>3. \A c \in Clients : peer[c].sent \in Nat /\ peer'[c].sent \in Nat
  BY TypesAre DEF Types, PeerType
<1>4. \A c \in Clients :
        Left(c)' + peer[c].sent <= Left(c) + peer'[c].sent /\ Left(c)' \in Nat /\ Left(c) \in Nat
  BY <1>1, <1>2, <1>3 DEF Left
<1>5. \A s : Dropped(s)' = Dropped(s) /\ Dropped(s) \in Nat
  BY DEF Dropped, LoopOn
<1>6. \A c \in Clients : Left(c)' <= peer'[c].sent /\ (~peer'[c].head => peer'[c].sent = 0)
  BY <1>3, <1>4 DEF PartInv
<1>7. ASSUME NEW s \in 1 .. Slots, slot'[s].client # None, slot'[s].streaming
      PROVE  slot'[s].acked + Left(slot[s].client)' + Dropped(s)' <= peer'[slot'[s].client].sent
  <2>1. slot[s].client \in Clients /\ slot[s].acked \in Nat
    BY <1>7, TypesAre DEF SlotType
  <2>2. slot[s].acked + Left(slot[s].client) + Dropped(s) <= peer[slot[s].client].sent
    BY <1>7 DEF PartInv
  <2>3. \E c \in Clients : c = slot[s].client
    BY <2>1
  <2> QED BY <1>3, <1>4, <1>5, <2>1, <2>2, <2>3
<1> QED BY <1>6, <1>7 DEF PartInv

\* Events are taken, and no more is in hand than was.
LEMMA PartsStay ==
  ASSUME Types, Types', PartInv, UNCHANGED <<slot, stream, loop, peer>>,
         \A c \in Clients : Queued(queue', c) + InHand(c)' <= Queued(queue, c) + InHand(c)
  PROVE  PartInv'
<1>1. \A c \in Clients : Queued(queue, c) + InHand(c) \in Nat /\ Queued(queue', c) + InHand(c)' \in Nat
  <2>1. \A c : InHand(c) \in Nat /\ InHand(c)' \in Nat
    BY DEF InHand
  <2>2. \A c : Queued(queue, c) \in Nat /\ Queued(queue', c) \in Nat
    BY Counting DEF Types
  <2> QED BY <2>1, <2>2
<1>2. \A c \in Clients : peer[c].sent \in Nat /\ (~peer[c].head => peer[c].sent = 0)
  BY TypesAre DEF PeerType, PartInv
<1>3. \A c \in Clients :
        /\ Queued(queue', c) + InHand(c)' + peer[c].sent <= Queued(queue, c) + InHand(c) + peer'[c].sent
        /\ ~peer'[c].head => peer'[c].sent = 0
  BY <1>1, <1>2
<1> QED BY <1>3, PartsMove

LEMMA PlacesStay ==
  ASSUME NEW c, UNCHANGED <<slot, loop>>
  PROVE  /\ (Slotted(c)' <=> Slotted(c)) /\ (Gone(c)' <=> Gone(c)) /\ (Dead(c)' <=> Dead(c))
         /\ (Streams(c)' <=> Streams(c)) /\ \A s : (Has(s, c)' <=> Has(s, c)) /\ (Hung(s)' <=> Hung(s))
BY DEF Slotted, Gone, Dead, Streams, Has, Hung, LoopOn

LEMMA AsideOf ==
  ASSUME NEW c, UNCHANGED <<slot, loop>>, conn'[c] = conn[c],
         Events(queue', c) = Events(queue, c), Led(queue, c) => Led(queue', c),
         task' = task \/ (task.c # c /\ task'.c # c)
  PROVE  Aside(c)
BY PlacesStay DEF Aside

LEMMA HeardStays ==
  ASSUME HeardInv, UNCHANGED <<slot, loop, upload>>,
         \A c \in Clients : ~conn'[c].wired \/ On(c, {"alloc"})' => ~conn[c].wired \/ On(c, {"alloc"})
  PROVE  HeardInv'
BY DEF HeardInv, Slotted, Has, LoopOn, Heard

LEMMA HeadsStay ==
  ASSUME HeadInv, UNCHANGED <<slot, peer>>,
         \A c \in Clients :
           /\ "head" \in Ev(c)' => "head" \in Ev(c)
           /\ HeadHand(c)' => \/ HeadHand(c)
                              \/ "head" \in Ev(c) /\ ~("head" \in Ev(c)')
  PROVE  HeadInv'
<1>1. ASSUME NEW c \in Clients PROVE HeadOk(c)'
  <2>1. Streams(c)' <=> Streams(c)
    BY DEF Streams, Has
  <2>2. HeadOk(c)
    BY DEF HeadInv
  <2>3. /\ "head" \in Ev(c)' => "head" \in Ev(c)
        /\ HeadHand(c)' => HeadHand(c) \/ ("head" \in Ev(c) /\ ~("head" \in Ev(c)'))
    OBVIOUS
  <2> QED BY <2>1, <2>2, <2>3 DEF HeadOk
<1> QED BY <1>1 DEF HeadInv

LEMMA TaskStays ==
  ASSUME TaskInv, UNCHANGED <<task, slot>>
  PROVE  TaskInv'
BY DEF TaskInv, Has

\* What the task may hold.
LEMMA TaskIs ==
  ASSUME Types, TaskInv
  PROVE  /\ task.at \in TaskAts /\ task.c \in Clients \cup {None}
         /\ task.at = "idle" => task.c = None /\ task.x = None /\ task.s = 0
         /\ \A c \in Clients : task.c = c => task.at # "idle"
         /\ task.at # "idle" => task.c \in Clients
BY TypesAre DEF TaskInv, AtRest, TaskType

----------------------------------------------------------------------------
(* lwIP and the peer.                                                      *)

LEMMA ConnectKeeps ==
  ASSUME ServerInv, NEW c \in Clients, Connect(c)
  PROVE  ServerInv'
<1> DEFINE e == Event("accept", c, None)
<1>0. Types /\ TaskInv /\ ClientInv /\ HeadInv /\ SlotsInv /\ PartInv /\ HeardInv /\ CountInv
  BY DEF ServerInv
<1>1. /\ conn[c].obj = "none" /\ conn' = [conn EXCEPT ![c].obj = "alive", ![c].pcb = TRUE]
      /\ queue' = <<e>> \o queue
      /\ UNCHANGED <<peer, slot, stream, inFlight, wanted, task, loop, upload>>
  BY DEF Connect, lwipKeeps
<1>2. conn \in [Clients -> ConnType] /\ queue \in Seq(EventType) /\ task.c \in Clients \cup {None}
  BY <1>0, TaskIs DEF Types
<1>3. e \in EventType /\ e.ev = "accept" /\ e.c = c
  BY DEF Event, EventType, Kinds, Data, Heads, None
<1>4. /\ conn' \in [Clients -> ConnType]
      /\ conn'[c] = [conn[c] EXCEPT !.obj = "alive", !.pcb = TRUE]
      /\ \A d \in Clients : d # c => conn'[d] = conn[d]
  BY <1>1, <1>2 DEF ConnType
<1>5. ClientOk(c) /\ ~Alive(c) /\ ~conn[c].wired /\ ~conn[c].pcb /\ Ev(c) = {} /\ ~Slotted(c) /\ ~Dead(c)
      /\ ~conn[c].released /\ task.c # c
  BY <1>0, <1>1 DEF ClientInv, ClientOk, LifeOk, TaskOk, Alive
<1> HIDE DEF e
<1>6. /\ queue' \in Seq(EventType) /\ Once(queue')
      /\ \A d \in Clients :
           /\ Events(queue', d) = IF d = c THEN {"accept"} ELSE Events(queue, d)
           /\ Queued(queue', d) = Queued(queue, d)
           /\ Led(queue, d) => Led(queue', d)
  BY <1>0, <1>1, <1>2, <1>3, <1>5, Fronted DEF Ev, ClientInv
<1>7. Types'
  BY <1>0, <1>1, <1>4, <1>6 DEF Types
<1>8. TaskInv'
  BY <1>0, <1>1, TaskStays
<1>9. ASSUME NEW d \in Clients, d # c PROVE ClientOk(d)'
  <2>1. Aside(d)
    BY <1>1, <1>4, <1>6, <1>9, AsideOf
  <2> QED BY <1>0, <2>1, Bystander DEF ClientInv
<1>10. ClientOk(c)'
  <2>1. ~Slotted(c)' /\ ~Dead(c)' /\ ~Gone(c)'
    BY <1>1, <1>5, PlacesStay DEF Gone, Slotted
  <2>2. /\ Alive(c)' /\ ~conn'[c].wired /\ conn'[c].pcb /\ Ev(c)' = {"accept"} /\ ~conn'[c].released
        /\ conn'[c].obj = "alive"
    BY <1>2, <1>4, <1>5, <1>6 DEF Alive, Ev, ConnType
  <2>3. ~Told(c)' /\ task'.c # c
    BY <1>1, <1>5, <2>1, <2>2 DEF Told
  <2>4. Led(queue', c)
    BY <1>5, <1>6 DEF Ev, Events, Led
  <2> QED BY <2>1, <2>2, <2>3, <2>4 DEF ClientOk, LifeOk, TaskOk, EventsOk, HangOk, On, Failing
<1>11. ClientInv'
  BY <1>6, <1>9, <1>10 DEF ClientInv
<1>12. HeadInv'
  BY <1>0, <1>1, <1>5, <1>6, HeadsStay DEF Ev, HeadHand, On
<1>13. SlotsInv'
  BY <1>0, <1>1, SlotsStay
<1>14. PartInv'
  <2>1. \A d \in Clients : Queued(queue', d) + InHand(d)' <= Queued(queue, d) + InHand(d)
    <3>1. \A d \in Clients : InHand(d)' = InHand(d) /\ InHand(d) \in Nat /\ Queued(queue, d) \in Nat
      BY <1>1, <1>2, Counting DEF InHand, On
    <3> QED BY <1>6, <3>1
  <2> QED BY <1>0, <1>1, <1>7, <2>1, PartsStay
<1>15. HeardInv'
  <2>1. \A d \in Clients : ~conn'[d].wired \/ On(d, {"alloc"})' => ~conn[d].wired \/ On(d, {"alloc"})
    BY <1>1, <1>4, <1>5 DEF On
  <2> QED BY <1>0, <1>1, <2>1, HeardStays
<1>16. CountInv'
  <2>1. \A d \in Clients : (Alive(d) /\ conn[d].wired /\ ~Told(d))' <=> Alive(d) /\ conn[d].wired /\ ~Told(d)
    <3>1. SUFFICES ASSUME NEW d \in Clients
                   PROVE  (Alive(d) /\ conn[d].wired /\ ~Told(d))' <=> Alive(d) /\ conn[d].wired /\ ~Told(d)
      OBVIOUS
    <3>2. CASE d = c
      BY <1>2, <1>4, <1>5, <3>2 DEF ConnType
    <3>3. CASE d # c
      BY <1>1, <1>4, <3>3, PlacesStay DEF Alive, Told
    <3> QED BY <3>2, <3>3
  <2> QED BY <1>0, <1>1, <2>1, CountStays
<1> QED BY <1>7, <1>8, <1>11, <1>12, <1>13, <1>14, <1>15, <1>16 DEF ServerInv

\* What a step of the queue, of a connection and of the task does to one client
\* is all it does.
LEMMA OthersStay ==
  ASSUME ServerInv, NEW c \in Clients, UNCHANGED <<slot, loop>>, Once(queue'),
         \A d \in Clients : d # c => /\ conn'[d] = conn[d] /\ Events(queue', d) = Events(queue, d)
                                     /\ Led(queue, d) => Led(queue', d),
         task' = task \/ (task.c \in {c, None} /\ task'.c \in {c, None}),
         ClientOk(c)'
  PROVE  ClientInv'
<1>1. None \notin Clients
  BY TypesAre DEF ServerInv
<1>2. ASSUME NEW d \in Clients, d # c PROVE ClientOk(d)'
  <2>1. Aside(d)
    BY <1>1, <1>2, AsideOf
  <2> QED BY <2>1, Bystander DEF ServerInv, ClientInv
<1> QED BY <1>2 DEF ClientInv

LEMMA SentKeeps ==
  ASSUME ServerInv, NEW c \in Clients, NEW e \in EventType, e.c = c, e.ev \in {"recv", "fin"},
         conn[c].pcb, queue' = Append(queue, e), UNCHANGED <<conn, lwipKeeps>>,
         peer' \in [Clients -> PeerType], \A d \in Clients : d # c => peer'[d] = peer[d],
         peer'[c].head, peer'[c].sent >= peer[c].sent + (IF e.x = "part" THEN 1 ELSE 0),
         Label(e) = "head" => ~peer[c].head
  PROVE  ServerInv'
<1>0. Types /\ TaskInv /\ ClientInv /\ HeadInv /\ SlotsInv /\ PartInv /\ HeardInv /\ CountInv
  BY DEF ServerInv
<1>1. UNCHANGED <<conn, slot, stream, inFlight, wanted, task, loop, upload>>
  BY DEF lwipKeeps
<1>2. conn[c] \in ConnType /\ queue \in Seq(EventType)
  BY <1>0, TypesAre
<1>3. Alive(c) /\ ClientOk(c) /\ "error" \notin Ev(c) /\ ~Told(c)
  BY <1>0 DEF ClientInv, ClientOk, LifeOk, EventsOk, Pending
<1>4. Label(e) \in {"head", "recv", "fin"} /\ e \in EventType
  BY LabelIs
<1>5. Label(e) \notin Events(queue, c) \cap Singles
  BY <1>0, <1>4 DEF HeadInv, HeadOk, Ev, Singles
<1>6. /\ queue' \in Seq(EventType) /\ Once(queue')
      /\ \A d \in Clients :
           /\ Events(queue', d) = IF d = c THEN Events(queue, d) \cup {Label(e)} ELSE Events(queue, d)
           /\ Queued(queue', d) = Queued(queue, d) + IF d = c /\ e.x = "part" THEN 1 ELSE 0
           /\ Led(queue, d) /\ (d # c \/ "accept" \in Events(queue, d)) => Led(queue', d)
  BY <1>0, <1>2, <1>5, Appended DEF ClientInv
<1>7. Types'
  BY <1>0, <1>1, <1>6 DEF Types
<1>8. TaskInv'
  BY <1>0, <1>1, TaskStays
<1>9. ClientOk(c)'
  <2>1. /\ Ev(c)' = Ev(c) \cup {Label(e)} /\ (Alive(c)' <=> Alive(c)) /\ (Told(c)' <=> Told(c))
        /\ (Slotted(c)' <=> Slotted(c)) /\ (Dead(c)' <=> Dead(c))
        /\ \A s : (Has(s, c)' <=> Has(s, c)) /\ (Hung(s)' <=> Hung(s))
    BY <1>1, <1>6, PlacesStay DEF Ev, Alive, Told
  <2>2. (Failing(c)' <=> Failing(c)) /\ (Pending(c)' <=> Pending(c))
    BY <1>1, <1>4, <2>1 DEF Failing, Pending, On
  <2>3. LifeOk(c)' /\ TaskOk(c)'
    BY <1>1, <1>3, <1>4, <2>1, <2>2 DEF ClientOk, LifeOk, TaskOk, On
  <2>4. ~conn[c].wired => On(c, {"accept"}) \/ Led(queue', c)
    BY <1>3, <1>6 DEF ClientOk, EventsOk, Ev
  <2>5. EventsOk(c)'
    BY <1>1, <1>3, <1>4, <2>1, <2>4 DEF ClientOk, EventsOk, On
  <2>6. HangOk(c)'
    BY <1>1, <1>3, <1>4, <2>1 DEF ClientOk, HangOk, On
  <2> QED BY <2>3, <2>5, <2>6 DEF ClientOk
<1>10. ClientInv'
  BY <1>1, <1>6, <1>9, OthersStay
<1>11. HeadInv'
  <2>1. ASSUME NEW d \in Clients PROVE HeadOk(d)'
    <3>1. /\ Ev(d)' = IF d = c THEN Ev(d) \cup {Label(e)} ELSE Ev(d)
          /\ (HeadHand(d)' <=> HeadHand(d)) /\ (Streams(d)' <=> Streams(d)) /\ HeadOk(d)
      BY <1>0, <1>1, <1>6, PlacesStay DEF Ev, HeadHand, On, HeadInv
    <3>2. CASE d = c
      BY <3>1, <3>2 DEF HeadOk
    <3>3. CASE d # c
      BY <3>1, <3>3 DEF HeadOk
    <3> QED BY <3>2, <3>3
  <2> QED BY <2>1 DEF HeadInv
<1>12. SlotsInv'
  BY <1>0, <1>1, SlotsStay
<1>13. PartInv'
  <2>1. \A d \in Clients : InHand(d)' = InHand(d) /\ InHand(d) \in Nat /\ Queued(queue, d) \in Nat
    BY <1>1, <1>2, Counting DEF InHand, On
  <2>2. \A d \in Clients : peer[d].sent \in Nat /\ peer'[d].sent \in Nat
    BY <1>0, TypesAre DEF PeerType
  <2>3. ASSUME NEW d \in Clients
        PROVE  /\ Queued(queue', d) + InHand(d)' + peer[d].sent
                    <= Queued(queue, d) + InHand(d) + peer'[d].sent
               /\ ~peer'[d].head => peer'[d].sent = 0
    <3>1. CASE d = c
      BY <1>6, <2>1, <2>2, <3>1
    <3>2. CASE d # c
      BY <1>0, <1>6, <2>1, <2>2, <3>2 DEF PartInv
    <3> QED BY <3>1, <3>2
  <2> QED BY <1>0, <1>1, <1>7, <2>3, PartsMove
<1>14. HeardInv'
  BY <1>0, <1>1, HeardStays DEF On
<1>15. CountInv'
  <2>1. \A d \in Clients : (Alive(d) /\ conn[d].wired /\ ~Told(d))' <=> Alive(d) /\ conn[d].wired /\ ~Told(d)
    BY <1>1, PlacesStay DEF Alive, Told
  <2> QED BY <1>0, <1>1, <2>1, CountStays
<1> QED BY <1>7, <1>8, <1>10, <1>11, <1>12, <1>13, <1>14, <1>15 DEF ServerInv

LEMMA PeerKeeps ==
  ASSUME ServerInv, NEW c \in Clients, SendPart(c) \/ Fin(c) \/ \E x \in Asks[c] : SendHead(c, x)
  PROVE  ServerInv'
<1>1. peer \in [Clients -> PeerType] /\ peer[c] \in PeerType /\ Parts \in Nat \ {0}
  BY TypesAre DEF ServerInv, Types
<1>2. ASSUME NEW x \in Asks[c], SendHead(c, x) PROVE ServerInv'
  <2> DEFINE e == Event("recv", c, x)
  <2>1. x \in Heads
    BY ServerAssumption DEF Heads
  <2>2. e \in EventType /\ e.c = c /\ e.ev = "recv" /\ e.x # "part"
    BY <2>1 DEF Event, EventType, Kinds, Data, Heads, None
  <2>3. /\ conn[c].pcb /\ ~peer[c].head /\ queue' = Append(queue, e) /\ UNCHANGED <<conn, lwipKeeps>>
        /\ peer' = [peer EXCEPT ![c].head = TRUE, ![c].sent = IF x = "upload" THEN 0 ELSE Parts]
    BY <1>2 DEF SendHead
  <2>4. /\ peer' \in [Clients -> PeerType] /\ peer'[c].head /\ peer'[c].sent \in Nat
        /\ \A d \in Clients : d # c => peer'[d] = peer[d]
    <3>1. (IF x = "upload" THEN 0 ELSE Parts) \in 0 .. Parts
      BY <1>1
    <3> QED BY <1>1, <2>3, <3>1 DEF PeerType
  <2>5. peer[c].sent = 0
    BY <2>3 DEF ServerInv, PartInv
  <2> HIDE DEF e
  <2> QED BY <2>2, <2>3, <2>4, <2>5, SentKeeps
<1>3. CASE SendPart(c)
  <2> DEFINE e == Event("recv", c, "part")
  <2>1. e \in EventType /\ e.c = c /\ e.ev = "recv" /\ e.x = "part" /\ Label(e) # "head"
    BY DEF Event, EventType, Kinds, Data, Heads, None, Label
  <2>2. /\ conn[c].pcb /\ peer[c].head /\ peer[c].sent < Parts /\ queue' = Append(queue, e)
        /\ UNCHANGED <<conn, lwipKeeps>> /\ peer' = [peer EXCEPT ![c].sent = peer[c].sent + 1]
    BY <1>3 DEF SendPart
  <2>3. /\ peer' \in [Clients -> PeerType] /\ peer'[c].head /\ peer'[c].sent = peer[c].sent + 1
        /\ \A d \in Clients : d # c => peer'[d] = peer[d]
    <3>1. peer[c].sent + 1 \in 0 .. Parts
      BY <1>1, <2>2 DEF PeerType
    <3> QED BY <1>1, <2>2, <3>1 DEF PeerType
  <2> HIDE DEF e
  <2>4. peer'[c].sent >= peer[c].sent + 1
    BY <1>1, <2>3 DEF PeerType
  <2> QED BY <2>1, <2>2, <2>3, <2>4, SentKeeps
<1>4. CASE Fin(c)
  <2> DEFINE e == Event("fin", c, None)
  <2>1. e \in EventType /\ e.c = c /\ e.ev = "fin" /\ e.x # "part" /\ Label(e) # "head"
    BY DEF Event, EventType, Kinds, Data, Heads, None, Label
  <2>2. /\ conn[c].pcb /\ peer[c].head /\ queue' = Append(queue, e)
        /\ UNCHANGED <<conn, lwipKeeps>> /\ peer' = [peer EXCEPT ![c].sent = Parts]
    BY <1>4 DEF Fin
  <2>3. /\ peer' \in [Clients -> PeerType] /\ peer'[c].head /\ peer'[c].sent = Parts
        /\ \A d \in Clients : d # c => peer'[d] = peer[d]
    <3> DEFINE r == [peer[c] EXCEPT !.sent = Parts]
    <3>0. Parts \in 0 .. Parts
      BY <1>1
    <3>1. r \in PeerType /\ r.head /\ r.sent = Parts
      BY <1>1, <2>2, <3>0 DEF PeerType
    <3>2. peer' = [peer EXCEPT ![c] = r]
      BY <1>1, <2>2 DEF PeerType
    <3> HIDE DEF r
    <3> QED BY <1>1, <3>1, <3>2
  <2> HIDE DEF e
  <2>4. peer'[c].sent >= peer[c].sent + 0
    BY <1>1, <2>3 DEF PeerType
  <2> QED BY <2>1, <2>2, <2>3, <2>4, SentKeeps
<1> QED BY <1>2, <1>3, <1>4

\* The pcb is gone, and what was queued; nobody was told.
LEMMA BrokenKeeps ==
  ASSUME ServerInv, NEW c \in Clients, Broken(c)
  PROVE  ServerInv'
<1> DEFINE e == Event("error", c, None)
           w == Without(c)
<1>0. Types /\ TaskInv /\ ClientInv /\ HeadInv /\ SlotsInv /\ PartInv /\ HeardInv /\ CountInv
  BY DEF ServerInv
<1>1. /\ conn[c].pcb /\ conn' = [conn EXCEPT ![c].pcb = FALSE] /\ queue' = Append(w, e)
      /\ UNCHANGED <<peer, slot, stream, inFlight, wanted, task, loop, upload>>
  BY DEF Broken, lwipKeeps
<1>2. conn \in [Clients -> ConnType] /\ queue \in Seq(EventType)
  BY <1>0 DEF Types
<1>3. e \in EventType /\ e.c = c /\ e.x # "part" /\ Label(e) = "error"
  BY DEF Event, EventType, Kinds, Data, Heads, None, Label
<1>4. /\ conn' \in [Clients -> ConnType] /\ conn'[c] = [conn[c] EXCEPT !.pcb = FALSE]
      /\ \A d \in Clients : d # c => conn'[d] = conn[d]
  BY <1>1, <1>2 DEF ConnType
<1>5. ClientOk(c) /\ Alive(c) /\ ~Told(c) /\ ~conn[c].released /\ ~Failing(c) /\ "release" \notin Ev(c)
  BY <1>0, <1>1 DEF ClientInv, ClientOk, LifeOk, TaskOk, Pending, Told
<1>6. /\ w \in Seq(EventType) /\ Once(w)
      /\ \A d \in Clients :
           /\ Events(w, d) = IF d = c THEN Ev(d) \cap {"release"} ELSE Ev(d)
           /\ Queued(w, d) <= Queued(queue, d)
           /\ Led(queue, d) /\ d # c => Led(w, d)
  BY <1>0, <1>2, Removed DEF ClientInv
<1> HIDE DEF e, w
<1>7. /\ queue' \in Seq(EventType)
      /\ \A d \in Clients :
           /\ Events(queue', d) = IF d = c THEN Events(w, d) \cup {Label(e)} ELSE Events(w, d)
           /\ Queued(queue', d) = Queued(w, d) + IF d = c /\ e.x = "part" THEN 1 ELSE 0
           /\ Led(w, d) /\ d # c => Led(queue', d)
      /\ Once(w) /\ Label(e) \notin Events(w, e.c) \cap Singles => Once(queue')
  BY <1>1, <1>3, <1>6, Appended
<1>8. /\ Ev(c)' = {"error"} /\ Once(queue')
      /\ \A d \in Clients :
           /\ d # c => Events(queue', d) = Events(queue, d) /\ (Led(queue, d) => Led(queue', d))
           /\ Queued(queue', d) <= Queued(queue, d)
  <2>1. Events(w, c) = {}
    BY <1>5, <1>6
  <2>2. \A d \in Clients : Queued(w, d) \in Nat
    BY <1>6, Counting
  <2> QED BY <1>3, <1>6, <1>7, <2>1, <2>2 DEF Ev
<1>9. Types'
  BY <1>0, <1>1, <1>4, <1>7 DEF Types
<1>10. TaskInv'
  BY <1>0, <1>1, TaskStays
<1>11. ClientOk(c)'
  <2>1. /\ (Slotted(c)' <=> Slotted(c)) /\ (Dead(c)' <=> Dead(c)) /\ (Gone(c)' <=> Gone(c))
        /\ \A s : (Has(s, c)' <=> Has(s, c)) /\ (Hung(s)' <=> Hung(s))
    BY <1>1, PlacesStay
  <2>2. /\ Alive(c)' /\ (conn'[c].wired <=> conn[c].wired) /\ ~conn'[c].released /\ ~conn'[c].pcb
        /\ conn'[c].obj = "alive"
    BY <1>2, <1>4, <1>5 DEF Alive, ConnType
  <2>3. ~Told(c)' /\ Pending(c)' /\ ~Failing(c)'
    BY <1>1, <1>5, <1>8, <2>1, <2>2 DEF Told, Pending, Failing, On
  <2>4. Led(queue', c)
    <3>1. \A i \in Places(queue', c) : Label(queue'[i]) = "error"
      BY <1>8 DEF Ev, Events
    <3> QED BY <3>1 DEF Led
  <2>5. LifeOk(c)' /\ TaskOk(c)'
    BY <1>1, <1>5, <1>8, <2>1, <2>2, <2>3 DEF ClientOk, LifeOk, TaskOk, On
  <2>6. EventsOk(c)' /\ HangOk(c)'
    BY <1>1, <1>8, <2>2, <2>3, <2>4 DEF EventsOk, HangOk
  <2> QED BY <2>5, <2>6 DEF ClientOk
<1>12. ClientInv'
  BY <1>1, <1>4, <1>8, <1>11, OthersStay
<1>13. HeadInv'
  BY <1>0, <1>1, <1>8, HeadsStay DEF Ev, HeadHand, On
<1>14. SlotsInv'
  BY <1>0, <1>1, SlotsStay
<1>15. PartInv'
  <2>1. \A d \in Clients : InHand(d)' = InHand(d) /\ InHand(d) \in Nat /\ Queued(queue, d) \in Nat
                           /\ Queued(queue', d) \in Nat
    BY <1>1, <1>2, <1>7, Counting DEF InHand, On
  <2>2. \A d \in Clients : Queued(queue', d) + InHand(d)' <= Queued(queue, d) + InHand(d)
    BY <1>8, <2>1
  <2> QED BY <1>0, <1>1, <1>9, <2>2, PartsStay
<1>16. HeardInv'
  <2>1. \A d \in Clients : conn'[d].wired = conn[d].wired
    BY <1>2, <1>4 DEF ConnType
  <2> QED BY <1>0, <1>1, <2>1, HeardStays DEF On
<1>17. CountInv'
  <2>1. \A d \in Clients : /\ conn'[d].wired = conn[d].wired /\ (Alive(d)' <=> Alive(d))
                           /\ conn'[d].released = conn[d].released
    BY <1>2, <1>4 DEF ConnType, Alive
  <2>2. \A d \in Clients : (Alive(d) /\ conn[d].wired /\ ~Told(d))' <=> Alive(d) /\ conn[d].wired /\ ~Told(d)
    BY <1>1, <2>1, PlacesStay DEF Told
  <2> QED BY <1>0, <1>1, <2>2, CountStays
<1> QED BY <1>9, <1>10, <1>12, <1>13, <1>14, <1>15, <1>16, <1>17 DEF ServerInv

----------------------------------------------------------------------------
(* async_tcp.                                                              *)

\* A step of the task that leaves the slots alone, for a client c.
LEMMA TaskStepKeeps ==
  ASSUME ServerInv, Types', TaskInv', CountInv', NEW c \in Clients,
         UNCHANGED <<peer, slot, stream, loop, upload>>, wanted => wanted', Once(queue'),
         \A d \in Clients : d # c => /\ conn'[d] = conn[d] /\ Events(queue', d) = Events(queue, d)
                                     /\ Led(queue, d) => Led(queue', d)
                                     /\ Queued(queue', d) <= Queued(queue, d),
         task.c \in {c, None}, task'.c \in {c, None}, ClientOk(c)',
         Queued(queue', c) + InHand(c)' <= Queued(queue, c) + InHand(c),
         "head" \in Ev(c)' => "head" \in Ev(c),
         HeadHand(c)' => HeadHand(c) \/ ("head" \in Ev(c) /\ ~("head" \in Ev(c)')),
         ~conn'[c].wired \/ On(c, {"alloc"})' => ~conn[c].wired \/ On(c, {"alloc"})
  PROVE  ServerInv'
<1>0. Types /\ TaskInv /\ ClientInv /\ HeadInv /\ SlotsInv /\ PartInv /\ HeardInv /\ CountInv
  BY DEF ServerInv
<1>1. None \notin Clients
  BY <1>0, TypesAre
<1>2. \A d \in Clients : d # c => task.c # d /\ task'.c # d
  BY <1>1
<1>3. ClientInv'
  BY OthersStay
<1>4. HeadInv'
  <2>1. \A d \in Clients :
          /\ "head" \in Ev(d)' => "head" \in Ev(d)
          /\ HeadHand(d)' => HeadHand(d) \/ ("head" \in Ev(d) /\ ~("head" \in Ev(d)'))
    <3>1. SUFFICES ASSUME NEW d \in Clients, d # c
                   PROVE  /\ "head" \in Ev(d)' => "head" \in Ev(d)
                          /\ HeadHand(d)' => HeadHand(d) \/ ("head" \in Ev(d) /\ ~("head" \in Ev(d)'))
      OBVIOUS
    <3>2. Ev(d)' = Ev(d)
      BY <3>1 DEF Ev
    <3>3. ~HeadHand(d)'
      BY <1>2, <3>1 DEF HeadHand, On
    <3> QED BY <3>2, <3>3
  <2> QED BY <1>0, <2>1, HeadsStay
<1>5. SlotsInv'
  BY <1>0, SlotsStay
<1>6. PartInv'
  <2>1. \A d \in Clients : Queued(queue', d) + InHand(d)' <= Queued(queue, d) + InHand(d)
    <3>1. SUFFICES ASSUME NEW d \in Clients, d # c
                   PROVE  Queued(queue', d) + InHand(d)' <= Queued(queue, d) + InHand(d)
      OBVIOUS
    <3>2. InHand(d)' = 0 /\ InHand(d) = 0
      BY <1>2, <3>1 DEF InHand, On
    <3>3. Queued(queue, d) \in Nat /\ Queued(queue', d) \in Nat
      BY <1>0, Counting DEF Types
    <3> QED BY <3>1, <3>2, <3>3
  <2> QED BY <1>0, <2>1, PartsStay
<1>7. HeardInv'
  <2>1. \A d \in Clients : ~conn'[d].wired \/ On(d, {"alloc"})' => ~conn[d].wired \/ On(d, {"alloc"})
    BY <1>2 DEF On
  <2> QED BY <1>0, <2>1, HeardStays
<1> QED BY <1>3, <1>4, <1>5, <1>6, <1>7 DEF ServerInv

\* Who is counted is the same, if c is.
LEMMA CountedBut ==
  ASSUME ServerInv, NEW c \in Clients, UNCHANGED <<slot, loop, inFlight>>,
         \A d \in Clients : d # c => conn'[d] = conn[d],
         (Alive(c) /\ conn[c].wired /\ ~Told(c))' <=> Alive(c) /\ conn[c].wired /\ ~Told(c)
  PROVE  CountInv'
<1>1. ASSUME NEW d \in Clients
      PROVE  (Alive(d) /\ conn[d].wired /\ ~Told(d))' <=> Alive(d) /\ conn[d].wired /\ ~Told(d)
  <2>1. CASE d = c
    BY <2>1
  <2>2. CASE d # c
    <3>1. conn'[d] = conn[d] /\ (Gone(d)' <=> Gone(d)) /\ (Dead(d)' <=> Dead(d))
      BY <2>2, PlacesStay
    <3> QED BY <3>1 DEF Alive, Told
  <2> QED BY <2>1, <2>2
<1> QED BY <1>1, CountStays DEF ServerInv

LEMMA DispatchKeeps ==
  ASSUME ServerInv, Dispatch
  PROVE  ServerInv'
<1> DEFINE t == Tail(queue)
<1>0. Types /\ TaskInv /\ ClientInv /\ HeadInv /\ SlotsInv /\ PartInv /\ HeardInv /\ CountInv
  BY DEF ServerInv
<1>e. PICK e \in EventType : e = Head(queue)
  BY <1>0, Taken DEF Dispatch, ClientInv, Types
<1>c. PICK c \in Clients : c = e.c
  BY DEF EventType
<1>1. /\ task.at = "idle" /\ queue # <<>> /\ UNCHANGED <<slot, stream, inFlight, wanted, peer, loop, upload>>
      /\ IF e.ev = "release" /\ conn[c].obj = "alive"
         THEN conn' = Freed(c) /\ queue' = Others(c) /\ task' = AtRest
         ELSE /\ queue' = t /\ conn' = conn
              /\ IF \/ conn[c].obj # "alive" \/ conn[c].released
                    \/ e.ev = "recv" /\ conn[c].closed
                    \/ e.ev = "error" /\ ~conn[c].wired
                 THEN task' = AtRest
                 ELSE task' = [at |-> IF e.ev = "fin" THEN "close" ELSE e.ev, c |-> c, s |-> 0, x |-> e.x]
  BY <1>e, <1>c DEF Dispatch, TaskAt, Goes, Rests, taskKeeps
<1>2. queue \in Seq(EventType) /\ conn \in [Clients -> ConnType] /\ None \notin Clients
  BY <1>0, TypesAre DEF Types
<1>3. /\ t \in Seq(EventType) /\ Once(t)
      /\ \A d \in Clients :
           /\ Events(queue, d) = Events(t, d) \cup IF d = c THEN {Label(e)} ELSE {}
           /\ Queued(queue, d) = Queued(t, d) + IF d = c /\ e.x = "part" THEN 1 ELSE 0
           /\ Led(queue, d) /\ (d # c \/ Label(e) # "accept") => Led(t, d)
           /\ Led(queue, d) /\ d = c => Label(e) \in {"accept", "error"}
           /\ d = c /\ Label(e) \in Singles => Label(e) \notin Events(t, d)
  BY <1>0, <1>1, <1>2, <1>e, <1>c, Taken DEF ClientInv
<1>4. c \in Clients /\ e.ev \in Kinds /\ e.x \in Data \cup {None} /\ (e.ev = "recv" <=> e.x # None)
  BY <1>3 DEF EventType
<1>5. /\ \A d \in Clients : Queued(queue, d) \in Nat /\ Queued(t, d) \in Nat
      /\ task = AtRest /\ task.c = None /\ InHand(c) = 0
  <2>1. task = AtRest
    BY <1>0, <1>1 DEF TaskInv
  <2> QED BY <1>2, <1>3, <1>4, <2>1, Counting DEF AtRest, InHand, On
<1>6. ClientOk(c) /\ Label(e) \in Ev(c) /\ Alive(c) /\ conn[c] \in ConnType
  <2>1. ClientOk(c) /\ Label(e) \in Ev(c) /\ conn[c] \in ConnType
    BY <1>0, <1>2, <1>3, <1>4 DEF ClientInv, Ev
  <2> QED BY <2>1 DEF ClientOk, LifeOk
<1>7. /\ e.ev # "recv" => Label(e) = e.ev
      /\ e.ev = "recv" => Label(e) \in {"head", "recv"} /\ (Label(e) = "head" <=> e.x \in Heads)
  BY <1>3, LabelIs
<1> HIDE DEF t
<1>8. CASE e.ev = "release"
  <2>1. conn' = Freed(c) /\ queue' = Others(c) /\ task' = AtRest
    BY <1>1, <1>6, <1>8 DEF Alive
  <2>2. /\ queue' \in Seq(EventType) /\ Once(queue')
        /\ \A d \in Clients :
             /\ Events(queue', d) = IF d = c THEN {} ELSE Ev(d)
             /\ Queued(queue', d) <= Queued(queue, d)
             /\ Led(queue, d) /\ d # c => Led(queue', d)
    BY <1>0, <1>1, <1>2, <1>4, <2>1, <1>e, <1>c, Cleared DEF ClientInv
  <2>3. /\ conn' \in [Clients -> ConnType] /\ conn'[c] = [conn[c] EXCEPT !.obj = "freed", !.pcb = FALSE]
        /\ \A d \in Clients : d # c => conn'[d] = conn[d]
    <3> DEFINE r == [conn[c] EXCEPT !.obj = "freed", !.pcb = FALSE]
    <3>1. r \in ConnType
      BY <1>6 DEF ConnType
    <3>2. conn' = [conn EXCEPT ![c] = r]
      BY <1>2, <1>6, <2>1 DEF Freed, ConnType
    <3> HIDE DEF r
    <3>3. conn' \in [Clients -> ConnType] /\ conn'[c] = r /\ \A d \in Clients : d # c => conn'[d] = conn[d]
      BY <1>2, <1>4, <3>1, <3>2
    <3> QED BY <3>3 DEF r
  <2>4. Types' /\ TaskInv'
    <3>1. task' = task /\ Types'
      BY <1>0, <1>1, <1>5, <2>1, <2>2, <2>3 DEF Types
    <3> QED BY <1>0, <1>1, <3>1, TaskStays
  <2>5. conn[c].released /\ Told(c) /\ conn[c].wired /\ ~Slotted(c) /\ ~Dead(c)
    BY <1>6, <1>7, <1>8 DEF ClientOk, LifeOk, Told
  <2>6. ~Alive(c)' /\ ~conn'[c].pcb /\ conn'[c].wired /\ conn'[c].obj = "freed"
    BY <1>6, <2>3, <2>5 DEF Alive, ConnType
  <2>7. ~Slotted(c)' /\ ~Dead(c)'
    BY <1>1, <2>5, PlacesStay
  <2>8. Ev(c)' = {} /\ task'.c # c /\ task'.c = None /\ task'.at = "idle"
    BY <1>2, <1>4, <2>1, <2>2 DEF Ev, AtRest
  <2>9. ClientOk(c)'
    BY <2>6, <2>7, <2>8 DEF ClientOk, LifeOk, TaskOk, EventsOk, HangOk, On, Failing
  <2>10. CountInv'
    BY <1>1, <1>4, <2>3, <2>5, <2>6, CountedBut
  <2>11. InHand(c)' = 0 /\ ~HeadHand(c)' /\ ~On(c, {"alloc"})'
    BY <2>8 DEF InHand, HeadHand, On
  <2>12. Queued(queue', c) + InHand(c)' <= Queued(queue, c) + InHand(c)
    <3>1. Queued(queue', c) \in Nat /\ Queued(queue', c) <= Queued(queue, c)
      BY <1>4, <2>2, Counting
    <3> QED BY <1>4, <1>5, <2>11, <3>1
  <2> QED BY <1>1, <1>4, <1>5, <2>2, <2>3, <2>4, <2>6, <2>8, <2>9, <2>10, <2>11, <2>12,
             TaskStepKeeps DEF Ev
<1>9. CASE e.ev # "release"
  <2>1. queue' = t /\ conn' = conn /\ Label(e) # "release"
    BY <1>1, <1>7, <1>9
  <2>2. /\ Ev(c) = Ev(c)' \cup {Label(e)}
        /\ Label(e) \in Singles => Label(e) \notin Ev(c)'
        /\ \A d \in Clients : d # c => Events(queue', d) = Events(queue, d) /\ (Led(queue, d) => Led(queue', d))
        /\ \A d \in Clients : Queued(queue', d) <= Queued(queue, d)
        /\ Queued(queue', c) = Queued(queue, c) - (IF e.x = "part" THEN 1 ELSE 0)
    <3>1. \A d \in Clients : d # c => Events(queue', d) = Events(queue, d) /\ (Led(queue, d) => Led(queue', d))
      BY <1>3, <2>1
    <3>2. /\ Ev(c) = Ev(c)' \cup {Label(e)}
          /\ Label(e) \in Singles => Label(e) \notin Ev(c)'
      BY <1>3, <1>4, <2>1 DEF Ev
    <3>3. /\ \A d \in Clients : Queued(queue', d) <= Queued(queue, d)
          /\ Queued(queue', c) = Queued(queue, c) - (IF e.x = "part" THEN 1 ELSE 0)
      <4>1. \A d \in Clients : Queued(queue, d) = Queued(t, d) + IF d = c /\ e.x = "part" THEN 1 ELSE 0
        BY <1>3
      <4> QED BY <1>4, <1>5, <2>1, <4>1
    <3> QED BY <3>1, <3>2, <3>3
  <2>3. /\ (Slotted(c)' <=> Slotted(c)) /\ (Dead(c)' <=> Dead(c)) /\ (Gone(c)' <=> Gone(c))
        /\ \A s : (Has(s, c)' <=> Has(s, c)) /\ (Hung(s)' <=> Hung(s))
    BY <1>1, PlacesStay
  <2>4. /\ (Alive(c)' <=> Alive(c)) /\ (Told(c)' <=> Told(c)) /\ Once(queue') /\ conn'[c] = conn[c]
    BY <1>3, <2>1, <2>3 DEF Alive, Told
  <2>5. /\ ~conn[c].wired /\ Label(e) # "accept" => Led(queue', c) /\ Label(e) = "error"
        /\ ~Failing(c) /\ (Told(c) => ~Pending(c))
    BY <1>3, <1>4, <1>5, <1>6, <2>1 DEF ClientOk, LifeOk, EventsOk, Failing, On, AtRest
  <2>6. CountInv'
    BY <1>1, <1>4, <2>1, <2>4, CountedBut
  <2>7. CASE task' = AtRest /\ (\/ conn[c].released \/ Label(e) \in {"recv", "head"}
                                \/ Label(e) = "error" /\ ~conn[c].wired)
    <3>1. task'.c # c /\ task'.c = None /\ task' = task
      BY <1>2, <1>4, <1>5, <2>7 DEF AtRest
    <3>2. Types' /\ TaskInv'
      <4>1. Types'
        BY <1>0, <1>1, <1>3, <2>1, <3>1 DEF Types
      <4> QED BY <1>0, <1>1, <3>1, <4>1, TaskStays
    <3>3. Label(e) # "accept"
      BY <1>6, <2>7 DEF ClientOk, LifeOk, EventsOk
    <3>4. ~Failing(c)' /\ (Pending(c)' <=> conn[c].pcb \/ "error" \in Ev(c)')
      BY <2>4, <3>1 DEF Failing, On, Pending
    <3>5. conn[c].wired /\ ~Told(c) /\ ~conn[c].released => Label(e) # "error"
      BY <2>7
    <3>6. LifeOk(c)'
      BY <1>6, <2>1, <2>2, <2>3, <2>4, <2>5, <3>1, <3>4, <3>5 DEF ClientOk, LifeOk, Pending, Told
    <3>7. TaskOk(c)' /\ HangOk(c)'
      BY <1>6, <2>2, <2>3, <3>1, <3>4 DEF ClientOk, TaskOk, HangOk, On
    <3>8. EventsOk(c)'
      BY <1>6, <2>2, <2>4, <2>5, <3>1, <3>3 DEF ClientOk, EventsOk, On
    <3>9. InHand(c)' = 0 /\ ~HeadHand(c)' /\ ~On(c, {"alloc"})'
      BY <3>1 DEF InHand, HeadHand, On
    <3>10. Queued(queue', c) + InHand(c)' <= Queued(queue, c) + InHand(c)
      BY <1>4, <1>5, <2>1, <2>2, <3>9
    <3>11. ClientOk(c)'
      BY <3>6, <3>7, <3>8 DEF ClientOk
    <3> QED BY <1>1, <1>4, <1>5, <2>1, <2>2, <2>4, <2>6, <3>1, <3>2, <3>9, <3>10, <3>11, TaskStepKeeps
  <2>8. CASE /\ task' = [at |-> IF e.ev = "fin" THEN "close" ELSE e.ev, c |-> c, s |-> 0, x |-> e.x]
             /\ ~conn[c].released /\ (e.ev = "error" => conn[c].wired)
    <3>1. /\ task'.c = c /\ task'.x = e.x /\ task'.s = 0
          /\ task'.at = IF e.ev = "fin" THEN "close" ELSE e.ev
      BY <2>8
    <3>2. task' \in TaskType /\ Types'
      <4>1. task' \in TaskType
        BY <1>0, <1>4, <1>9, <2>8, TypesAre DEF TaskType, TaskAts, Kinds
      <4> QED BY <1>0, <1>1, <1>3, <2>1, <4>1 DEF Types
    <3>3. TaskInv'
      <4>1. task'.at # "idle" /\ task'.at # "take"
        BY <1>4, <3>1 DEF Kinds
      <4>2. task'.at = "recv" => task'.x \in Data
        BY <1>4, <3>1
      <4> QED BY <1>4, <3>1, <4>1, <4>2 DEF TaskInv
    <3>4. e.ev # "accept" => conn[c].wired
      BY <1>7, <2>5, <2>8
    <3>5. e.ev \in {"accept", "recv", "fin"} => conn[c].pcb /\ ~Told(c) /\ "error" \notin Ev(c)
      BY <1>6, <1>7 DEF ClientOk, LifeOk, EventsOk, Pending, Told
    <3>6. e.ev = "error" => ~conn[c].pcb /\ ~Told(c) /\ "error" \notin Ev(c)'
      BY <1>6, <1>7, <2>2 DEF ClientOk, LifeOk, EventsOk, Pending, Singles
    <3>7. e.ev = "accept" => ~conn[c].wired /\ "accept" \notin Ev(c)'
      BY <1>6, <1>7, <2>2 DEF ClientOk, EventsOk, Singles
    <3>8. e.ev = "close" => /\ "close" \notin Ev(c)' /\ e.x = None
                            /\ \A s \in 1 .. Slots : Has(s, c) => Hung(s)
      BY <1>4, <1>6, <1>7, <2>2 DEF ClientOk, HangOk, Singles
    <3>9. Failing(c)' <=> e.ev = "error"
      <4>1. e.x # "error"
        BY <1>4 DEF Data, Heads, None
      <4> QED BY <1>4, <3>1, <4>1 DEF Failing, On, Kinds
    <3>10. Pending(c)' <=> conn[c].pcb \/ "error" \in Ev(c)' \/ e.ev = "error"
      BY <2>4, <3>9 DEF Pending
    <3>11. ASSUME conn[c].wired, ~Told(c) PROVE Pending(c)'
      BY <1>6, <1>7, <2>2, <2>5, <3>10, <3>11 DEF ClientOk, LifeOk, Pending
    <3>12. ASSUME Told(c) PROVE ~Pending(c)' /\ task'.at = "close" /\ e.ev = "close"
      <4>1. e.ev = "close"
        BY <1>4, <1>9, <3>5, <3>6, <3>12 DEF Kinds
      <4> QED BY <2>2, <2>5, <3>1, <3>10, <3>12, <4>1 DEF Pending
    <3>13. LifeOk(c)'
      BY <1>6, <2>1, <2>2, <2>3, <2>4, <3>11, <3>12 DEF ClientOk, LifeOk
    <3>14. TaskOk(c)'
      <4>1. task'.at = "accept" <=> e.ev = "accept"
        BY <3>1
      <4>2. e.ev = "accept" => Pending(c)'
        BY <3>5, <3>10
      <4>3. task'.at # "alloc"
        BY <1>4, <3>1 DEF Kinds
      <4> QED BY <1>6, <2>1, <2>4, <3>4, <3>6, <3>7, <3>9, <4>1, <4>2, <4>3 DEF TaskOk, On
    <3>15. EventsOk(c)'
      <4>1. e.ev = "accept" => On(c, {"accept"})'
        BY <3>1 DEF On
      <4>2. ~On(c, {"alloc"})'
        BY <1>4, <3>1 DEF On, Kinds
      <4>3. "accept" \notin Ev(c)'
        BY <1>6, <2>2, <3>4, <3>7 DEF ClientOk, EventsOk
      <4> QED BY <1>6, <2>2, <2>4, <3>4, <4>1, <4>2, <4>3 DEF ClientOk, EventsOk
    <3>16. HangOk(c)'
      BY <1>6, <2>2, <2>3, <2>4, <3>8, <3>12 DEF ClientOk, HangOk
    <3>17. InHand(c)' = (IF e.x = "part" THEN 1 ELSE 0) /\ ~On(c, {"alloc"})'
      BY <1>4, <3>1 DEF InHand, On, Kinds, None
    <3>18. Queued(queue', c) + InHand(c)' <= Queued(queue, c) + InHand(c)
      BY <1>4, <1>5, <2>1, <2>2, <3>17
    <3>19. HeadHand(c)' => "head" \in Ev(c) /\ ~("head" \in Ev(c)')
      <4>1. HeadHand(c)' => e.ev = "recv" /\ e.x \in Heads
        BY <1>4, <3>1 DEF HeadHand, On, Kinds, Heads, None
      <4> QED BY <1>6, <1>7, <2>2, <4>1 DEF Singles
    <3>20. ClientOk(c)'
      BY <3>13, <3>14, <3>15, <3>16 DEF ClientOk
    <3>21. task'.c \in {c, None} /\ task.c \in {c, None} /\ ("head" \in Ev(c)' => "head" \in Ev(c))
      BY <1>5, <2>2, <3>1
    <3> QED BY <1>1, <1>4, <2>1, <2>2, <2>4, <2>6, <3>2, <3>3, <3>17, <3>18, <3>19, <3>20, <3>21, TaskStepKeeps
  <2> QED BY <1>1, <1>6, <1>7, <1>9, <2>7, <2>8 DEF Alive
<1> QED BY <1>8, <1>9

\* A set of slots that is not empty has a first one.
LEMMA FirstSlot ==
  ASSUME NEW S \in SUBSET (1 .. Slots), S # {}
  PROVE  Min(S) \in S
<1> DEFINE R == OpToRel(<, Nat)
<1>1. \A x, y \in Nat : y < x => <<y, x>> \in R
  BY Zenon DEF OpToRel
<1>2. IsWellFoundedOn(R, Nat)
  BY NatLessThanWellFounded, Zenon
<1>3. S \in SUBSET Nat
  BY ServerAssumption
<1> HIDE DEF R
<1>4. PICK x \in S : \A y \in S : ~(<<y, x>> \in R)
  BY <1>2, <1>3, WFMin
<1>5. \A y \in S : x <= y
  <2> SUFFICES ASSUME NEW y \in S PROVE x <= y
    OBVIOUS
  <2>1. x \in Nat /\ y \in Nat /\ ~(y < x)
    BY <1>1, <1>3, <1>4
  <2> QED BY <2>1
<1> QED BY <1>4, <1>5, Zenon DEF Min

\* The task turns to something else for a client that was not told.
LEMMA TurnOk ==
  ASSUME ServerInv, NEW c \in Clients, UNCHANGED <<conn, queue, loop>>,
         \A s \in 1 .. Slots : /\ slot'[s].client = c <=> slot[s].client = c
                               /\ slot'[s].gone = slot[s].gone /\ slot'[s].responded = slot[s].responded,
         conn[c].wired, Alive(c), ~Told(c), task.c \in {c, None},
         task'.c = c => task'.at \notin {"accept", "alloc"}, Failing(c)' <=> Failing(c)
  PROVE  ClientOk(c)'
<1>1. /\ Ev(c)' = Ev(c) /\ (Alive(c)' <=> Alive(c)) /\ ClientOk(c) /\ (Dead(c)' <=> Dead(c))
      /\ \A s \in 1 .. Slots : (Has(s, c)' <=> Has(s, c)) /\ (Hung(s)' <=> Hung(s))
  BY DEF Ev, Alive, ServerInv, ClientInv, Dead, Has, Hung, LoopOn
<1>2. (Slotted(c)' <=> Slotted(c)) /\ (Gone(c)' <=> Gone(c))
  BY <1>1 DEF Slotted, Gone
<1>3. (Told(c)' <=> Told(c)) /\ (Pending(c)' <=> Pending(c))
  BY <1>1, <1>2 DEF Told, Pending
<1>4. LifeOk(c)' /\ TaskOk(c)'
  BY <1>1, <1>2, <1>3 DEF ClientOk, LifeOk, TaskOk, On
<1>5. EventsOk(c)' /\ HangOk(c)'
  BY <1>1, <1>2, <1>3 DEF ClientOk, EventsOk, HangOk, On
<1> QED BY <1>4, <1>5 DEF ClientOk

\* So does a step of the task that changes nothing else.
LEMMA TurnKeeps ==
  ASSUME ServerInv, NEW c \in Clients,
         UNCHANGED <<conn, queue, peer, slot, stream, loop, upload, inFlight>>,
         wanted' \in BOOLEAN, wanted => wanted',
         conn[c].wired, Alive(c), ~Told(c), task.c \in {c, None}, task' \in TaskType, TaskInv',
         task'.c \in {c, None}, task'.c = c => task'.at \notin {"accept", "alloc"},
         Failing(c)' <=> Failing(c), InHand(c)' <= InHand(c), HeadHand(c)' => HeadHand(c)
  PROVE  ServerInv'
<1>1. Types' /\ Once(queue')
  BY DEF ServerInv, Types, ClientInv
<1>2. ClientOk(c)'
  BY TurnOk
<1>3. CountInv'
  <2>1. (Alive(c)' <=> Alive(c)) /\ (Told(c)' <=> Told(c))
    BY PlacesStay DEF Alive, Told
  <2> QED BY <2>1, CountedBut
<1>4. Queued(queue', c) + InHand(c)' <= Queued(queue, c) + InHand(c)
  <2>1. Queued(queue, c) \in Nat /\ InHand(c) \in Nat /\ InHand(c)' \in Nat
    BY Counting DEF ServerInv, Types, InHand
  <2> QED BY <2>1
<1>5. \A d \in Clients : Queued(queue', d) <= Queued(queue, d)
  BY Counting DEF ServerInv, Types
<1>6. ~On(c, {"alloc"})' /\ Ev(c)' = Ev(c)
  BY DEF On, Ev
<1> QED BY <1>1, <1>2, <1>3, <1>4, <1>5, <1>6, TaskStepKeeps

LEMMA ExpireKeeps ==
  ASSUME ServerInv, NEW c \in Clients, Expire(c)
  PROVE  ServerInv'
<1>0. Types /\ TaskInv /\ ClientInv
  BY DEF ServerInv
<1>1. /\ task.at = "idle" /\ conn[c].pcb
      /\ ~\E i \in DOMAIN queue : queue[i].ev = "accept" /\ queue[i].c = c
      /\ UNCHANGED <<conn, queue, peer, slot, stream, loop, upload, inFlight, wanted>>
      /\ \E at \in {"close", "expire"} : task' = [at |-> at, c |-> c, s |-> 0, x |-> None]
  BY DEF Expire, TaskAt, Goes, taskKeeps
<1>2. PICK at \in {"close", "expire"} : task' = [at |-> at, c |-> c, s |-> 0, x |-> None]
  BY <1>1
<1>3. task.c = None /\ None \notin Clients /\ wanted \in BOOLEAN
  BY <1>0, <1>1, TaskIs, TypesAre DEF Types
<1>4. "accept" \notin Ev(c)
  <2>1. \A i \in 1 .. Len(queue) : Label(queue[i]) = "accept" => queue[i].ev = "accept"
    BY <1>0, TypesAre DEF Label, Heads, EventType
  <2> QED BY <1>0, <1>1, <2>1, TypesAre DEF Ev, Events, Places
<1>5. ClientOk(c) /\ Alive(c) /\ conn[c].wired /\ ~Told(c) /\ ~Failing(c)
  BY <1>0, <1>1, <1>3, <1>4 DEF ClientInv, ClientOk, LifeOk, EventsOk, TaskOk, On, Failing, Pending
<1>6. task' \in TaskType /\ task'.c = c /\ task'.at = at /\ task'.x = None
  BY <1>0, <1>2, TypesAre DEF TaskType, TaskAts, Data, Heads
<1>7. TaskInv'
  BY <1>6 DEF TaskInv
<1>8. ~Failing(c)' /\ InHand(c)' = 0 /\ ~HeadHand(c)' /\ InHand(c) = 0
  BY <1>3, <1>6 DEF Failing, On, InHand, HeadHand, None
<1> QED BY <1>1, <1>3, <1>5, <1>6, <1>7, <1>8, TurnKeeps

\* The client that the task is at.
LEMMA TaskClient ==
  ASSUME ServerInv, task.at # "idle"
  PROVE  /\ task.c \in Clients /\ ClientOk(task.c) /\ Alive(task.c) /\ None \notin Clients
         /\ task.at # "accept" <=> conn[task.c].wired
         /\ task.at # "close" => ~Told(task.c)
         /\ task.at \notin {"error", "told", "close"} => ~Failing(task.c)
         /\ Types /\ TaskInv /\ ClientInv /\ task \in TaskType /\ wanted \in BOOLEAN
<1>1. Types /\ TaskInv /\ ClientInv
  BY DEF ServerInv
<1>2. task.c \in Clients /\ ClientOk(task.c) /\ None \notin Clients /\ task \in TaskType /\ wanted \in BOOLEAN
  BY <1>1, TypesAre DEF TaskInv, ClientInv, Types
<1>3. Alive(task.c) /\ (task.at # "accept" <=> conn[task.c].wired)
  BY <1>2 DEF ClientOk, TaskOk
<1>4. task.at # "close" => ~Told(task.c)
  BY <1>2, <1>3 DEF ClientOk, LifeOk
<1>5. task.at \notin {"error", "told", "close"} => ~Failing(task.c)
  BY DEF Failing, On
<1> QED BY <1>1, <1>2, <1>3, <1>4, <1>5

LEMMA RestIs ==
  ASSUME task' = AtRest, None \notin Clients
  PROVE  /\ TaskInv' /\ task'.c = None /\ task'.at = "idle" /\ (Slots \in Nat => task' \in TaskType)
         /\ \A c \in Clients :
              ~Failing(c)' /\ InHand(c)' = 0 /\ ~HeadHand(c)' /\ task'.c # c /\ \A A : ~On(c, A)'
BY DEF AtRest, TaskInv, TaskType, TaskAts, Failing, On, InHand, HeadHand

LEMMA FlagKeeps ==
  ASSUME ServerInv, Flag
  PROVE  ServerInv'
<1>1. /\ task.at = "flag" /\ wanted' = TRUE /\ task' = AtRest
      /\ UNCHANGED <<conn, queue, peer, slot, stream, loop, upload, inFlight>>
  BY DEF Flag, TaskAt, Rests, taskKeeps
<1>2. PICK c \in Clients : c = task.c
  BY <1>1, TaskClient
<1>3. conn[c].wired /\ Alive(c) /\ ~Told(c) /\ ~Failing(c) /\ None \notin Clients
  BY <1>1, <1>2, TaskClient
<1>4. InHand(c) = 0 /\ Slots \in Nat
  BY <1>1, ServerAssumption DEF InHand, On
<1> QED BY <1>1, <1>2, <1>3, <1>4, RestIs, TurnKeeps

LEMMA ReceiveKeeps ==
  ASSUME ServerInv, Receive
  PROVE  ServerInv'
<1> DEFINE live == {s \in SlotsOf(task.c) : slot[s].state = "receiving"}
<1>1. /\ task.at = "recv" /\ UNCHANGED <<conn, queue, peer, slot, stream, loop, upload, inFlight, wanted>>
      /\ IF live = {} THEN task' = AtRest
         ELSE task' = [at |-> "take", c |-> task.c, s |-> Min(live), x |-> task.x]
  BY DEF Receive, TaskAt, Rests, Goes, taskKeeps
<1>2. PICK c \in Clients : c = task.c
  BY <1>1, TaskClient
<1>3. /\ conn[c].wired /\ Alive(c) /\ ~Told(c) /\ ~Failing(c) /\ None \notin Clients
      /\ wanted \in BOOLEAN /\ task \in TaskType /\ TaskInv /\ Types
  BY <1>1, <1>2, TaskClient
<1>4. Slots \in Nat
  BY ServerAssumption
<1>5. CASE live = {}
  <2>1. InHand(c)' <= InHand(c)
    BY <1>1, <1>3, <1>5, RestIs DEF InHand
  <2> QED BY <1>1, <1>2, <1>3, <1>4, <1>5, <2>1, RestIs, TurnKeeps
<1>6. CASE live # {}
  <2>1. Min(live) \in live
    BY <1>6, FirstSlot DEF SlotsOf
  <2>2. /\ Min(live) \in 1 .. Slots /\ slot[Min(live)].client = c /\ slot[Min(live)].state = "receiving"
    BY <1>2, <2>1 DEF SlotsOf
  <2>3. task'.at = "take" /\ task'.c = c /\ task'.s = Min(live) /\ task'.x = task.x
    BY <1>1, <1>2, <1>6
  <2>4. task' \in TaskType
    BY <1>1, <1>2, <1>3, <1>6, <2>2 DEF TaskType, TaskAts
  <2>5. TaskInv'
    BY <1>1, <1>3, <2>2, <2>3 DEF TaskInv, Has
  <2>6. InHand(c)' = InHand(c) /\ (HeadHand(c)' => HeadHand(c)) /\ ~Failing(c)' /\ InHand(c) \in Nat
    BY <1>1, <1>2, <2>3 DEF InHand, HeadHand, On, Failing
  <2> QED BY <1>1, <1>2, <1>3, <2>3, <2>4, <2>5, <2>6, TurnKeeps
<1> QED BY <1>5, <1>6

\* Past the limit the client is freed; else it counts.
LEMMA AcceptKeeps ==
  ASSUME ServerInv, Accept
  PROVE  ServerInv'
<1>1. /\ task.at = "accept" /\ wanted' = TRUE
      /\ UNCHANGED <<peer, slot, stream, loop, upload>>
  BY DEF Accept, TaskAt, taskKeeps
<1>2. PICK c \in Clients : c = task.c
  BY <1>1, TaskClient
<1>3. /\ ClientOk(c) /\ Alive(c) /\ None \notin Clients /\ ~conn[c].wired /\ ~Told(c)
      /\ Types /\ TaskInv /\ ClientInv /\ CountInv
  BY <1>1, <1>2, TaskClient DEF ServerInv
<1>4. /\ ~Slotted(c) /\ ~Dead(c) /\ ~conn[c].released /\ ~Gone(c) /\ Pending(c)
      /\ "release" \notin Ev(c) /\ "accept" \notin Ev(c) /\ "close" \notin Ev(c)
  BY <1>1, <1>2, <1>3 DEF ClientOk, LifeOk, TaskOk, EventsOk, Told, On
<1>5. conn \in [Clients -> ConnType] /\ queue \in Seq(EventType) /\ inFlight \in Nat /\ MaxInFlight \in Nat
      /\ Slots \in Nat /\ InHand(c) = 0
  BY <1>1, <1>3, TypesAre DEF Types, InHand, On
<1>6. \A d \in Clients : Queued(queue, d) \in Nat
  BY <1>5, Counting
<1>7. /\ (Slotted(c)' <=> Slotted(c)) /\ (Dead(c)' <=> Dead(c)) /\ (Gone(c)' <=> Gone(c))
      /\ \A s : (Has(s, c)' <=> Has(s, c))
  BY <1>1, PlacesStay
<1>8. CASE inFlight >= MaxInFlight
  <2>1. conn' = Freed(c) /\ queue' = Without(c) /\ task' = AtRest /\ inFlight' = inFlight
    BY <1>2, <1>8 DEF Accept, Rests
  <2>2. /\ conn' \in [Clients -> ConnType] /\ conn'[c] = [conn[c] EXCEPT !.obj = "freed", !.pcb = FALSE]
        /\ \A d \in Clients : d # c => conn'[d] = conn[d]
    BY <1>5, <2>1 DEF ConnType, Freed
  <2>3. /\ conn'[c].obj = "freed" /\ ~conn'[c].pcb /\ ~conn'[c].wired /\ ~conn'[c].released
    BY <1>3, <1>4, <1>5, <2>2 DEF ConnType
  <2>4. /\ queue' \in Seq(EventType) /\ Once(queue') /\ Ev(c)' = {}
        /\ \A d \in Clients :
             /\ Queued(queue', d) <= Queued(queue, d)
             /\ d # c => Events(queue', d) = Events(queue, d) /\ (Led(queue, d) => Led(queue', d))
    <3>1. /\ queue' \in Seq(EventType) /\ Once(queue')
          /\ \A d \in Clients :
               /\ Events(queue', d) = IF d = c THEN Ev(d) \cap {"release"} ELSE Ev(d)
               /\ Queued(queue', d) <= Queued(queue, d)
               /\ Led(queue, d) /\ d # c => Led(queue', d)
      BY <1>3, <1>5, <2>1, Removed DEF ClientInv
    <3> QED BY <1>4, <3>1 DEF Ev
  <2>5. /\ TaskInv' /\ task'.c = None /\ task'.at = "idle" /\ task' \in TaskType
        /\ ~Failing(c)' /\ InHand(c)' = 0 /\ ~HeadHand(c)' /\ task'.c # c /\ \A A : ~On(c, A)'
    BY <1>3, <1>5, <2>1, RestIs
  <2>6. Types'
    BY <1>1, <1>3, <2>1, <2>2, <2>4, <2>5 DEF Types
  <2>7. ~Alive(c)' /\ ~Told(c)'
    BY <1>4, <1>7, <2>3 DEF Alive, Told
  <2>8. Led(queue', c)
    BY <2>4 DEF Led, Ev, Events
  <2>9. LifeOk(c)' /\ TaskOk(c)'
    BY <1>4, <1>7, <2>3, <2>4, <2>5, <2>7 DEF LifeOk, TaskOk
  <2>10. EventsOk(c)' /\ HangOk(c)'
    BY <2>3, <2>4, <2>5, <2>7, <2>8 DEF EventsOk, HangOk
  <2>11. ClientOk(c)'
    BY <2>9, <2>10 DEF ClientOk
  <2>12. CountInv'
    BY <1>1, <1>3, <2>1, <2>2, <2>7, CountedBut
  <2>13. Queued(queue', c) + InHand(c)' <= Queued(queue, c) + InHand(c)
    <3>1. Queued(queue', c) \in Nat
      BY <2>4, Counting
    <3> QED BY <1>5, <1>6, <2>4, <2>5, <3>1
  <2> QED BY <1>1, <1>2, <1>3, <2>2, <2>4, <2>5, <2>6, <2>11, <2>12, <2>13, TaskStepKeeps
<1>9. CASE ~(inFlight >= MaxInFlight)
  <2>1. /\ conn' = [conn EXCEPT ![c].wired = TRUE] /\ inFlight' = inFlight + 1 /\ queue' = queue
        /\ task' = [at |-> "alloc", c |-> c, s |-> 0, x |-> None]
    BY <1>2, <1>9 DEF Accept, Goes
  <2>2. /\ conn' \in [Clients -> ConnType] /\ conn'[c] = [conn[c] EXCEPT !.wired = TRUE]
        /\ \A d \in Clients : d # c => conn'[d] = conn[d]
    BY <1>5, <2>1 DEF ConnType
  <2>3. /\ conn'[c].obj = "alive" /\ conn'[c].pcb = conn[c].pcb /\ conn'[c].wired /\ ~conn'[c].released
    BY <1>3, <1>4, <1>5, <2>2 DEF ConnType, Alive
  <2>4. /\ task'.c = c /\ task'.at = "alloc" /\ task'.x = None /\ task' \in TaskType
    BY <1>5, <2>1 DEF TaskType, TaskAts
  <2>5. TaskInv'
    BY <2>4 DEF TaskInv
  <2>6. inFlight' \in Nat /\ inFlight' <= MaxInFlight
    BY <1>5, <1>9, <2>1
  <2>7. Types'
    BY <1>1, <1>3, <2>1, <2>2, <2>4, <2>6 DEF Types
  <2>8. ~Failing(c)' /\ InHand(c)' = 0 /\ ~HeadHand(c)' /\ Ev(c)' = Ev(c)
    BY <2>1, <2>4 DEF Failing, InHand, HeadHand, On, Ev
  <2>9. Alive(c)' /\ ~Told(c)' /\ Pending(c)'
    <3>1. ~Failing(c)
      BY <1>1 DEF Failing, On
    <3> QED BY <1>4, <1>7, <2>3, <2>8, <3>1 DEF Alive, Told, Pending
  <2>10. LifeOk(c)' /\ TaskOk(c)'
    BY <1>4, <1>7, <2>3, <2>4, <2>8, <2>9 DEF LifeOk, TaskOk, On
  <2>11. EventsOk(c)' /\ HangOk(c)'
    BY <1>3, <1>4, <2>3, <2>4, <2>8, <2>9 DEF ClientOk, EventsOk, HangOk, On
  <2>12. ClientOk(c)'
    BY <2>10, <2>11 DEF ClientOk
  <2>13. CountInv'
    <3>1. Counted' = Counted \cup {c} /\ c \notin Counted
      <4>1. \A d \in Clients : d # c => ((Alive(d) /\ conn[d].wired /\ ~Told(d))' <=> Alive(d) /\ conn[d].wired /\ ~Told(d))
        BY <1>1, <2>2, PlacesStay DEF Alive, Told
      <4> QED BY <1>3, <2>3, <2>9, <4>1 DEF Counted
    <3>2. IsFiniteSet(Counted') /\ Cardinality(Counted') = Cardinality(Counted) + 1
      BY <1>3, <3>1, FS_AddElement DEF CountInv
    <3> QED BY <1>3, <2>1, <2>6, <3>2 DEF CountInv
  <2>14. /\ Queued(queue', c) + InHand(c)' <= Queued(queue, c) + InHand(c) /\ Once(queue')
         /\ \A d \in Clients : Queued(queue', d) <= Queued(queue, d)
    BY <1>3, <1>5, <1>6, <2>1, <2>8 DEF ClientInv
  <2> QED BY <1>1, <1>2, <1>3, <2>1, <2>2, <2>4, <2>5, <2>7, <2>8, <2>12, <2>13, <2>14, TaskStepKeeps
<1> QED BY <1>8, <1>9

\* close(): what is ended is told, but to whom it was told before.
LEMMA CloseKeeps ==
  ASSUME ServerInv, Close
  PROVE  ServerInv'
<1>1. /\ task.at = "close" /\ UNCHANGED <<peer, slot, stream, loop, upload, inFlight, wanted>>
  BY DEF Close, TaskAt, taskKeeps
<1>2. PICK c \in Clients : c = task.c
  BY <1>1, TaskClient
<1> DEFINE ends == conn[c].pcb \/ Len(Without(c)) < Len(queue)
<1>3. /\ ClientOk(c) /\ Alive(c) /\ None \notin Clients /\ conn[c].wired
      /\ Types /\ TaskInv /\ ClientInv /\ CountInv
  BY <1>1, <1>2, TaskClient DEF ServerInv
<1>4. conn \in [Clients -> ConnType] /\ queue \in Seq(EventType) /\ Slots \in Nat /\ InHand(c) = 0
  BY <1>1, <1>3, TypesAre DEF Types, InHand, On
<1>5. /\ conn' = [conn EXCEPT ![c].pcb = FALSE, ![c].closed = TRUE] /\ queue' = Without(c)
      /\ task' = IF (ends /\ ~conn[c].released) \/ task.x = "error"
                 THEN [at |-> "told", c |-> c, s |-> 0, x |-> None] ELSE AtRest
  BY <1>2, <1>3 DEF Close, Goes, Rests
<1>6. /\ conn' \in [Clients -> ConnType] /\ conn'[c] = [conn[c] EXCEPT !.pcb = FALSE, !.closed = TRUE]
      /\ \A d \in Clients : d # c => conn'[d] = conn[d]
  BY <1>4, <1>5 DEF ConnType
<1>7. /\ conn'[c].obj = "alive" /\ ~conn'[c].pcb /\ conn'[c].wired /\ conn'[c].released = conn[c].released
  BY <1>3, <1>4, <1>6 DEF ConnType, Alive
<1>8. /\ queue' \in Seq(EventType) /\ Once(queue') /\ Ev(c)' = Ev(c) \cap {"release"}
      /\ \A d \in Clients :
           /\ Queued(queue', d) <= Queued(queue, d)
           /\ d # c => Events(queue', d) = Events(queue, d) /\ (Led(queue, d) => Led(queue', d))
      /\ Len(Without(c)) < Len(queue) <=> Ev(c) \ {"release"} # {}
  BY <1>3, <1>4, <1>5, Removed DEF ClientInv, Ev
<1>9. \A d \in Clients : Queued(queue, d) \in Nat
  BY <1>4, Counting
<1>10. /\ (Slotted(c)' <=> Slotted(c)) /\ (Dead(c)' <=> Dead(c)) /\ (Gone(c)' <=> Gone(c))
       /\ \A s : (Has(s, c)' <=> Has(s, c)) /\ (Hung(s)' <=> Hung(s))
  BY <1>1, PlacesStay
<1>11. Alive(c)' /\ (Told(c)' <=> Told(c))
  BY <1>7, <1>10 DEF Alive, Told
<1>12. Queued(queue', c) \in Nat /\ Queued(queue', c) <= Queued(queue, c)
  BY <1>8, Counting
<1>13. CASE Told(c)
  <2>1. ~Pending(c) /\ ~Failing(c) /\ "close" \notin Ev(c)
    BY <1>1, <1>2, <1>3, <1>13 DEF ClientOk, LifeOk, HangOk, On, Pending
  <2>2. Ev(c) \subseteq {"release"} /\ ~conn[c].pcb
    BY <1>3, <2>1 DEF ClientOk, EventsOk, Pending
  <2>3. ~ends /\ task.x # "error"
    BY <1>1, <1>2, <1>8, <2>1, <2>2 DEF Failing, On
  <2>4. task' = AtRest
    BY <1>5, <2>3
  <2>5. /\ TaskInv' /\ task'.c = None /\ task'.at = "idle" /\ task' \in TaskType
        /\ ~Failing(c)' /\ InHand(c)' = 0 /\ ~HeadHand(c)' /\ task'.c # c /\ \A A : ~On(c, A)'
    BY <1>3, <1>4, <2>4, RestIs
  <2>6. Ev(c)' = Ev(c) /\ ~Pending(c)'
    BY <1>7, <1>8, <2>2, <2>5 DEF Pending
  <2>7. LifeOk(c)' /\ TaskOk(c)'
    BY <1>3, <1>7, <1>10, <1>11, <1>13, <2>5, <2>6 DEF ClientOk, LifeOk, TaskOk
  <2>8. EventsOk(c)' /\ HangOk(c)'
    BY <1>7, <2>2, <2>5, <2>6 DEF EventsOk, HangOk
  <2>9. Types'
    BY <1>1, <1>3, <1>6, <1>8, <2>5 DEF Types
  <2>10. CountInv'
    BY <1>1, <1>3, <1>6, <1>11, <1>13, CountedBut
  <2>11. Queued(queue', c) + InHand(c)' <= Queued(queue, c) + InHand(c)
    BY <1>4, <1>9, <1>12, <2>5
  <2>12. ClientOk(c)'
    BY <2>7, <2>8 DEF ClientOk
  <2>13. "head" \in Ev(c)' => "head" \in Ev(c)
    BY <1>8
  <2> QED BY <1>1, <1>2, <1>6, <1>7, <1>8, <2>5, <2>9, <2>10, <2>11, <2>12, <2>13, TaskStepKeeps
<1>14. CASE ~Told(c)
  <2>1. Pending(c) /\ ~conn[c].released /\ "release" \notin Ev(c)
    BY <1>3, <1>14 DEF ClientOk, LifeOk, Told
  <2>2. conn[c].pcb \/ "error" \in Ev(c) \/ task.x = "error"
    BY <1>1, <2>1 DEF Pending, Failing, On
  <2>3. task' = [at |-> "told", c |-> c, s |-> 0, x |-> None]
    BY <1>5, <1>8, <2>1, <2>2
  <2>4. /\ task'.c = c /\ task'.at = "told" /\ task'.x = None /\ task' \in TaskType
    BY <1>4, <2>3 DEF TaskType, TaskAts
  <2>5. TaskInv'
    BY <2>4 DEF TaskInv
  <2>6. Types'
    BY <1>1, <1>3, <1>6, <1>8, <2>4 DEF Types
  <2>7. Failing(c)' /\ InHand(c)' = 0 /\ ~HeadHand(c)' /\ Ev(c)' = {}
    BY <1>8, <2>1, <2>4 DEF Failing, InHand, HeadHand, On
  <2>8. LifeOk(c)' /\ TaskOk(c)'
    BY <1>3, <1>7, <1>10, <1>11, <1>14, <2>1, <2>4, <2>7 DEF ClientOk, LifeOk, TaskOk, On, Pending
  <2>9. EventsOk(c)' /\ HangOk(c)'
    BY <1>7, <1>11, <1>14, <2>4, <2>7 DEF EventsOk, HangOk, On
  <2>10. ClientOk(c)'
    BY <2>8, <2>9 DEF ClientOk
  <2>11. CountInv'
    BY <1>1, <1>3, <1>6, <1>7, <1>11, <1>14, CountedBut
  <2>12. Queued(queue', c) + InHand(c)' <= Queued(queue, c) + InHand(c)
    BY <1>4, <1>9, <1>12, <2>7
  <2>13. ~On(c, {"alloc"})'
    BY <2>4 DEF On
  <2> QED BY <1>1, <1>2, <1>6, <1>7, <1>8, <2>4, <2>5, <2>6, <2>7, <2>10, <2>11, <2>12, <2>13, TaskStepKeeps
<1> QED BY <1>13, <1>14

----------------------------------------------------------------------------
(* Steps of the task that change a slot.                                   *)

\* A slot that goes on with what it has, or whose answer is off.
Kept(r, q) ==
  /\ q.client = r.client /\ q.streaming = r.streaming /\ q.begun = r.begun /\ q.ended = r.ended
  /\ q.aborted = r.aborted /\ q.acked = r.acked /\ q.responded = r.responded

Ends(r, q) ==
  /\ Kept(r, q) /\ r.client # None /\ q.state = "done" /\ q.del
  /\ q.buf = r.buf \/ r.state = "receiving"

LEMMA SlotsEnd ==
  ASSUME Types, SlotsInv, UNCHANGED <<stream, loop>>, wanted \/ slot' # slot => wanted',
         slot' \in [1 .. Slots -> SlotType],
         \A s \in 1 .. Slots : slot'[s] = slot[s] \/ Ends(slot[s], slot'[s])
  PROVE  SlotsInv'
<1>0. SlotInv /\ StreamInv /\ LoopInv /\ PromiseInv
  BY DEF SlotsInv
<1>1. \A s \in 1 .. Slots : Kept(slot[s], slot'[s])
  BY DEF Ends, Kept
<1>2. SlotInv'
  <2>1. ASSUME NEW s \in 1 .. Slots PROVE SlotOk(slot'[s])
    <3>1. SlotOk(slot[s]) /\ slot[s] \in SlotType /\ slot'[s] \in SlotType
      BY <1>0, TypesAre DEF SlotInv
    <3>2. CASE Ends(slot[s], slot'[s])
      BY <3>1, <3>2 DEF Ends, Kept, SlotOk
    <3> QED BY <3>1, <3>2
  <2>2. \A s, t \in 1 .. Slots :
          s # t /\ slot'[s].client = slot'[t].client => slot'[s].client = None
    BY <1>0, <1>1 DEF SlotInv, Kept
  <2> QED BY <2>1, <2>2 DEF SlotInv
<1>3. StreamInv'
  <2>1. stream.owner # 0 => stream.owner \in 1 .. Slots
    BY TypesAre DEF StreamType
  <2> QED BY <1>0, <1>1, <2>1 DEF StreamInv, Kept, LoopOn
<1>4. LoopInv'
  <2>1. CASE loop.at = "idle"
    BY <1>0, <2>1 DEF LoopInv, Draining, Answering, Reclaiming
  <2>2. CASE loop.at # "idle"
    <3>1. loop.s \in 1 .. Slots
      BY <1>0, <2>2 DEF LoopInv
    <3>2. CASE slot'[loop.s] = slot[loop.s]
      BY <1>0, <3>2 DEF LoopInv
    <3>3. CASE Ends(slot[loop.s], slot'[loop.s])
      BY <1>0, <3>1, <3>3 DEF LoopInv, Ends, Kept, Draining, Answering, Reclaiming
    <3> QED BY <3>1, <3>2, <3>3
  <2> QED BY <2>1, <2>2
<1>5. PromiseInv'
  <2>1. CASE slot' = slot
    BY <1>0, <2>1 DEF PromiseInv, Ahead, LoopOn
  <2>2. CASE slot' # slot
    BY <2>2 DEF PromiseInv
  <2> QED BY <2>1, <2>2
<1> QED BY <1>2, <1>3, <1>4, <1>5 DEF SlotsInv

LEMMA HeardKept ==
  ASSUME HeardInv, UNCHANGED <<conn, loop, upload>>,
         \A s \in 1 .. Slots : Kept(slot[s], slot'[s]),
         \A c \in Clients : ~On(c, {"alloc"})'
  PROVE  HeardInv'
<1>1. \A s \in 1 .. Slots : Heard(slot'[s]) = Heard(slot[s])
  BY DEF Kept, Heard
<1>2. \A c \in Clients : Slotted(c)' <=> Slotted(c)
  BY DEF Kept, Slotted, Has
<1> QED BY <1>1, <1>2 DEF HeardInv, Kept, LoopOn

LEMMA HeadsKept ==
  ASSUME HeadInv, UNCHANGED <<queue, peer>>,
         \A s \in 1 .. Slots : Kept(slot[s], slot'[s]),
         \A c \in Clients : HeadHand(c)' => HeadHand(c)
  PROVE  HeadInv'
<1>1. \A c \in Clients : (Streams(c)' <=> Streams(c)) /\ Ev(c)' = Ev(c)
  BY DEF Streams, Has, Kept, Ev
<1> QED BY <1>1 DEF HeadInv, HeadOk

LEMMA PartsKept ==
  ASSUME Types, Types', PartInv, UNCHANGED peer,
         \A s \in 1 .. Slots : Kept(slot[s], slot'[s]),
         \A c \in Clients : Left(c)' <= Left(c),
         \A s \in 1 .. Slots :
           slot[s].client # None /\ slot[s].streaming =>
             Left(slot[s].client)' + Dropped(s)' <= Left(slot[s].client) + Dropped(s)
  PROVE  PartInv'
<1>1. ASSUME NEW c \in Clients
      PROVE  Left(c) \in Nat /\ Left(c)' \in Nat /\ peer[c].sent \in Nat
  <2>1. Queued(queue, c) \in Nat /\ Queued(queue', c) \in Nat /\ peer[c].sent \in Nat
    BY Counting, TypesAre DEF Types, PeerType
  <2>2. InHand(c) \in Nat /\ InHand(c)' \in Nat
    BY DEF InHand
  <2>3. Buffered(c) \in Nat /\ Buffered(c)' \in Nat
    BY DEF Buffered, Types, StreamType
  <2> QED BY <2>1, <2>2, <2>3 DEF Left
<1>2. ASSUME NEW c \in Clients PROVE Left(c)' <= peer'[c].sent /\ (~peer'[c].head => peer'[c].sent = 0)
  <2>1. Left(c) <= peer[c].sent /\ Left(c)' <= Left(c)
    BY DEF PartInv
  <2>2. ~peer'[c].head => peer'[c].sent = 0
    BY DEF PartInv
  <2> QED BY <1>1, <2>1, <2>2
<1>3. ASSUME NEW s \in 1 .. Slots, slot'[s].client # None, slot'[s].streaming
      PROVE  slot'[s].acked + Left(slot[s].client)' + Dropped(s)' <= peer'[slot'[s].client].sent
  <2>1. /\ slot[s].client # None /\ slot[s].streaming /\ slot'[s].acked = slot[s].acked
        /\ slot'[s].client = slot[s].client
    BY <1>3 DEF Kept
  <2>2. slot[s].client \in Clients /\ slot[s].acked \in Nat
    BY <2>1, TypesAre DEF SlotType
  <2>3. /\ slot[s].acked + Left(slot[s].client) + Dropped(s) <= peer[slot[s].client].sent
        /\ Left(slot[s].client)' + Dropped(s)' <= Left(slot[s].client) + Dropped(s)
    BY <2>1 DEF PartInv
  <2>4. PICK c \in Clients : c = slot[s].client
    BY <2>2
  <2>5. Left(c) \in Nat /\ Left(c)' \in Nat /\ peer[c].sent \in Nat
    BY <1>1
  <2>6. Dropped(s) \in Nat /\ Dropped(s)' \in Nat
    BY DEF Dropped
  <2>7. Left(slot[s].client)' = Left(c)'
    BY <2>4, <2>1
  <2> QED BY <2>1, <2>2, <2>3, <2>4, <2>5, <2>6, <2>7
<1> QED BY <1>2, <1>3 DEF PartInv

\* What a step does to one client and its slots is all it does.
LEMMA OthersKept ==
  ASSUME ServerInv, NEW c \in Clients, UNCHANGED <<conn, queue, loop>>,
         \A s \in 1 .. Slots :
           /\ slot[s].client \notin {c, None} => slot'[s] = slot[s]
           /\ slot[s].client \in {c, None} => slot'[s].client \in {c, None},
         task.c \in {c, None}, task'.c \in {c, None}, ClientOk(c)'
  PROVE  ClientInv'
<1>1. None \notin Clients
  BY TypesAre DEF ServerInv
<1>2. ASSUME NEW d \in Clients, d # c PROVE ClientOk(d)'
  <2>1. \A s \in 1 .. Slots :
          /\ slot'[s].client = d <=> slot[s].client = d
          /\ Has(s, d) => slot'[s].gone = slot[s].gone /\ (Hung(s) => Hung(s)')
    BY <1>1, <1>2 DEF Has, Hung, LoopOn
  <2>2. Aside(d)
    BY <1>1, <1>2, <2>1 DEF Aside, Dead
  <2> QED BY <2>2, Bystander DEF ServerInv, ClientInv
<1> QED BY <1>2 DEF ClientInv, ServerInv

\* A step of the task for c that no one is told of.
LEMMA SlotStepKeeps ==
  ASSUME ServerInv, NEW c \in Clients, UNCHANGED <<conn, queue, loop, upload, peer, inFlight>>,
         conn[c].wired, Alive(c), ~Told(c), task.c \in {c, None}, task'.c \in {c, None},
         task'.c = c => task'.at \notin {"accept", "alloc"}, Failing(c)' <=> Failing(c),
         slot' \in [1 .. Slots -> SlotType], stream' \in StreamType, wanted' \in BOOLEAN,
         task' \in TaskType, TaskInv', SlotsInv', PartInv', HeadInv',
         \A s \in 1 .. Slots :
           /\ slot[s].client # c => slot'[s] = slot[s]
           /\ slot'[s].client = slot[s].client /\ slot'[s].responded = slot[s].responded
           /\ slot'[s].gone = slot[s].gone /\ Heard(slot'[s]) = Heard(slot[s])
           /\ slot'[s].acked = slot[s].acked
  PROVE  ServerInv'
<1>1. Types'
  BY DEF ServerInv, Types
<1>2. ClientOk(c)'
  BY TurnOk
<1>3. ClientInv'
  <2>1. \A s \in 1 .. Slots :
          /\ slot[s].client \notin {c, None} => slot'[s] = slot[s]
          /\ slot[s].client \in {c, None} => slot'[s].client \in {c, None}
    OBVIOUS
  <2> QED BY ONLY <1>2, <2>1, ServerInv, UNCHANGED <<conn, queue, loop>>,
             task.c \in {c, None}, task'.c \in {c, None}, OthersKept
<1>4. \A d \in Clients : (Alive(d)' <=> Alive(d)) /\ (Told(d)' <=> Told(d)) /\ (Slotted(d)' <=> Slotted(d))
  BY DEF Alive, Told, Gone, Dead, Slotted, Has
<1>5. CountInv'
  BY <1>4, CountStays DEF ServerInv
<1>6. HeardInv'
  <2>1. None \notin Clients
    BY TypesAre DEF ServerInv
  <2>2. \A d \in Clients : ~On(d, {"alloc"})'
    BY <2>1 DEF On
  <2> QED BY <1>4, <2>2 DEF ServerInv, HeardInv, LoopOn
<1> QED BY <1>1, <1>3, <1>5, <1>6 DEF ServerInv

\* The task has a slot, and in it a client that was not told.
LEMMA TaskSlot ==
  ASSUME ServerInv, task.at = "take"
  PROVE  \E c \in Clients :
           /\ c = task.c /\ task.s \in 1 .. Slots /\ slot[task.s].client = c /\ task.x \in Data
           /\ slot[task.s].state = "receiving" /\ SlotOk(slot[task.s])
           /\ conn[c].wired /\ Alive(c) /\ ~Told(c) /\ ~Failing(c) /\ None \notin Clients
           /\ \A s \in 1 .. Slots : slot[s].client = c => s = task.s
           /\ \A d \in Clients : d # c => InHand(d) = 0
           /\ InHand(c) = (IF task.x = "part" THEN 1 ELSE 0)
           /\ task.x # "part" => ~slot[task.s].streaming
<1>1. PICK c \in Clients : c = task.c
  BY TaskClient
<1>2. /\ conn[c].wired /\ Alive(c) /\ ~Told(c) /\ ~Failing(c) /\ None \notin Clients
      /\ TaskInv
  BY <1>1, TaskClient
<1>3. /\ task.s \in 1 .. Slots /\ slot[task.s].client = c /\ slot[task.s].state = "receiving"
      /\ task.x \in Data
  BY <1>1, <1>2 DEF TaskInv, Has
<1>4. SlotOk(slot[task.s]) /\ \A s \in 1 .. Slots : slot[s].client = c => s = task.s
  BY <1>2, <1>3 DEF ServerInv, SlotsInv, SlotInv
<1>5. ASSUME task.x # "part" PROVE ~slot[task.s].streaming
  <2>1. HeadHand(c) /\ HeadOk(c)
    BY <1>1, <1>3, <1>5 DEF HeadHand, On, Data, Heads, ServerInv, HeadInv
  <2> QED BY <1>3, <2>1 DEF HeadOk, Streams, Has
<1>6. /\ \A d \in Clients : d # c => InHand(d) = 0
      /\ InHand(c) = (IF task.x = "part" THEN 1 ELSE 0)
  BY <1>1 DEF InHand, On
<1> QED BY <1>1, <1>2, <1>3, <1>4, <1>5, <1>6

LEMMA MarkedIs ==
  ASSUME NEW r \in SlotType
  PROVE  LET q == MarkedDone(r) IN
         q \in SlotType /\ Kept(r, q) /\ q.state = "done" /\ q.del /\ ~q.buf /\ q.gone = r.gone
BY DEF MarkedDone, Kept, SlotType, States

LEMMA RefuseKeeps ==
  ASSUME ServerInv, task.at = "take", Refuse, UNCHANGED <<conn, queue, inFlight, taskKeeps>>
  PROVE  ServerInv'
<1> DEFINE t == task.s
<1>1. PICK c \in Clients :
        /\ c = task.c /\ t \in 1 .. Slots /\ slot[t].client = c /\ task.x \in Data
        /\ slot[t].state = "receiving" /\ SlotOk(slot[t])
        /\ conn[c].wired /\ Alive(c) /\ ~Told(c) /\ ~Failing(c) /\ None \notin Clients
        /\ \A s \in 1 .. Slots : slot[s].client = c => s = t
        /\ \A d \in Clients : d # c => InHand(d) = 0
        /\ InHand(c) = (IF task.x = "part" THEN 1 ELSE 0)
        /\ task.x # "part" => ~slot[t].streaming
  BY TaskSlot
<1>2. PICK k \in 1 .. Slots : k = t
  BY <1>1
<1>3. /\ slot' = [slot EXCEPT ![k] = MarkedDone(slot[k])] /\ wanted' = TRUE
      /\ task' = [at |-> "close", c |-> c, s |-> 0, x |-> None]
      /\ UNCHANGED <<conn, queue, inFlight, peer, loop, upload, stream>>
  BY <1>1, <1>2 DEF Refuse, Goes, taskKeeps
<1>4. /\ Types /\ SlotsInv /\ PartInv /\ HeadInv /\ slot \in [1 .. Slots -> SlotType]
      /\ stream \in StreamType /\ queue \in Seq(EventType)
  BY DEF ServerInv, Types
<1>5. /\ slot' \in [1 .. Slots -> SlotType] /\ slot'[k] = MarkedDone(slot[k])
      /\ \A s \in 1 .. Slots : s # k => slot'[s] = slot[s]
  <2>1. MarkedDone(slot[k]) \in SlotType
    BY <1>4, MarkedIs
  <2> QED BY <1>3, <1>4, <2>1
<1>6. Ends(slot[k], slot'[k]) /\ slot'[k].gone = slot[k].gone /\ ~slot'[k].buf /\ slot[k].buf
  <2>1. slot[k] \in SlotType
    BY <1>4
  <2> QED BY <1>1, <1>2, <1>5, <2>1, MarkedIs DEF Ends, SlotOk
<1>7. /\ task'.c = c /\ task'.at = "close" /\ task'.x = None /\ task' \in TaskType
  BY <1>3, <1>4, TypesAre DEF TaskType, TaskAts
<1>8. TaskInv'
  BY <1>7 DEF TaskInv
<1>9. ~Failing(c)' /\ \A d \in Clients : InHand(d)' = 0 /\ ~HeadHand(d)'
  BY <1>7 DEF Failing, On, InHand, HeadHand, None
<1>10. \A s \in 1 .. Slots : Kept(slot[s], slot'[s]) /\ slot'[s].gone = slot[s].gone
  BY <1>5, <1>6 DEF Ends, Kept
<1>11. SlotsInv'
  BY <1>3, <1>4, <1>5, <1>6, SlotsEnd
<1>12. HeadInv'
  BY <1>3, <1>4, <1>9, <1>10, HeadsKept
<1>13. Types'
  BY <1>3, <1>4, <1>5, <1>7 DEF Types
<1>14. PartInv'
  <2>1. \A d \in Clients : Queued(queue', d) = Queued(queue, d) /\ Buffered(d)' = Buffered(d)
    <3>1. stream.owner # 0 => slot'[stream.owner].client = slot[stream.owner].client
      BY <1>4, <1>10 DEF StreamType, Kept
    <3> QED BY <1>3, <3>1 DEF Buffered
  <2>2. \A d \in Clients : Queued(queue, d) \in Nat /\ Buffered(d) \in Nat
    BY <1>4, Counting DEF Buffered, StreamType
  <2>3. \A d \in Clients : d # c => Left(d)' = Left(d) /\ Left(d) \in Nat
    BY <1>1, <1>9, <2>1, <2>2 DEF Left
  <2>4. Left(c)' + (IF task.x = "part" THEN 1 ELSE 0) = Left(c) /\ Left(c)' \in Nat /\ Left(c) \in Nat
    BY <1>1, <1>9, <2>1, <2>2 DEF Left
  <2>5. \A d \in Clients : Left(d)' <= Left(d)
    BY <2>3, <2>4
  <2>6. ASSUME NEW s \in 1 .. Slots, slot[s].client # None, slot[s].streaming
        PROVE  Left(slot[s].client)' + Dropped(s)' <= Left(slot[s].client) + Dropped(s)
    <3>1. PICK d \in Clients : d = slot[s].client
      BY <1>4, <2>6 DEF SlotType
    <3>2. Left(slot[s].client)' = Left(d)'
      BY <1>10, <3>1 DEF Kept
    <3>3. CASE s = k
      <4>1. d = c /\ task.x = "part" /\ Dropped(s) = 0 /\ Dropped(s)' \in {0, 1}
        BY <1>1, <1>2, <1>6, <2>6, <3>1, <3>3 DEF Dropped
      <4> QED BY <2>4, <3>1, <3>2, <4>1
    <3>4. CASE s # k
      <4>1. Dropped(s)' = Dropped(s) /\ Dropped(s) \in Nat /\ d # c
        BY <1>1, <1>2, <1>3, <1>5, <3>1, <3>4 DEF Dropped, LoopOn
      <4> QED BY <2>3, <3>1, <3>2, <4>1
    <3> QED BY <3>3, <3>4
  <2> QED BY <1>3, <1>4, <1>10, <1>13, <2>5, <2>6, PartsKept
<1>15. \A s \in 1 .. Slots :
         /\ slot[s].client # c => slot'[s] = slot[s]
         /\ slot'[s].client = slot[s].client /\ slot'[s].responded = slot[s].responded
         /\ slot'[s].gone = slot[s].gone /\ Heard(slot'[s]) = Heard(slot[s])
         /\ slot'[s].acked = slot[s].acked
  BY <1>1, <1>2, <1>5, <1>10 DEF Kept, Heard
<1> QED BY <1>1, <1>3, <1>4, <1>5, <1>7, <1>8, <1>9, <1>11, <1>12, <1>14, <1>15, SlotStepKeeps

\* A part is buffered, dropped as another's, or the upload is refused.
LEMMA TakePartKeeps ==
  ASSUME ServerInv, TakePart
  PROVE  ServerInv'
<1> DEFINE r == slot[task.s]
           mine == stream.owner = task.s /\ r.client = task.c /\ r.acked + stream.len < Parts
<1>1. task.at = "take" /\ task.x = "part" /\ UNCHANGED <<conn, queue, inFlight, taskKeeps>>
  BY DEF TakePart, TaskAt
<1>2. CASE mine /\ stream.len >= Window
  <2>1. Refuse
    BY <1>2 DEF TakePart
  <2> QED BY <1>1, <2>1, RefuseKeeps
<1>3. CASE ~(mine /\ stream.len >= Window)
  <2>1. PICK c \in Clients :
          /\ c = task.c /\ task.s \in 1 .. Slots /\ slot[task.s].client = c
          /\ conn[c].wired /\ Alive(c) /\ ~Told(c) /\ ~Failing(c) /\ None \notin Clients
          /\ \A s \in 1 .. Slots : slot[s].client = c => s = task.s
          /\ \A d \in Clients : d # c => InHand(d) = 0
          /\ InHand(c) = 1
    BY <1>1, TaskSlot
  <2>2. /\ stream' = (IF mine THEN [stream EXCEPT !.len = @ + 1] ELSE stream)
        /\ task' = [at |-> "flag", c |-> c, s |-> 0, x |-> None]
        /\ UNCHANGED <<conn, queue, inFlight, peer, loop, upload, slot, wanted>>
    BY <1>1, <1>3, <2>1 DEF TakePart, Goes, taskKeeps
  <2>3. /\ Types /\ SlotsInv /\ PartInv /\ HeadInv /\ slot \in [1 .. Slots -> SlotType]
        /\ stream \in StreamType /\ queue \in Seq(EventType) /\ wanted \in BOOLEAN /\ Window \in Nat
        /\ inFlight \in Nat
    BY TypesAre DEF ServerInv, Types
  <2>4. /\ task'.c = c /\ task'.at = "flag" /\ task'.x = None /\ task' \in TaskType
    BY <2>2, <2>3, TypesAre DEF TaskType, TaskAts
  <2>5. TaskInv'
    BY <2>4 DEF TaskInv
  <2>6. ~Failing(c)' /\ \A d \in Clients : InHand(d)' = 0 /\ ~HeadHand(d)'
    BY <2>4 DEF Failing, On, InHand, HeadHand, None
  <2>7. stream' \in StreamType /\ stream'.owner = stream.owner /\ stream'.len >= stream.len
        /\ stream'.len = stream.len + (IF mine THEN 1 ELSE 0)
    <3>1. mine => stream.len + 1 \in 0 .. Window
      BY <1>3, <2>3 DEF StreamType
    <3>2. CASE mine
      BY <2>2, <2>3, <3>1, <3>2 DEF StreamType
    <3>3. CASE ~mine
      BY <2>2, <2>3, <3>3 DEF StreamType
    <3> QED BY <3>2, <3>3
  <2>8. SlotsInv'
    <3>1. SlotInv /\ StreamInv /\ LoopInv /\ PromiseInv
      BY <2>3 DEF SlotsInv
    <3>2. SlotInv' /\ StreamInv'
      BY <2>2, <2>7, <3>1 DEF SlotInv, StreamInv, LoopOn
    <3>3. LoopInv'
      <4>1. loop.at \in {"deliver", "settle"} => loop.n <= stream'.len
        BY <2>3, <2>7, <3>1, TypesAre DEF LoopInv, StreamType, LoopType
      <4> QED BY <2>2, <2>7, <3>1, <4>1 DEF LoopInv
    <3>4. PromiseInv'
      BY <2>2, <3>1 DEF PromiseInv, Ahead, LoopOn
    <3> QED BY <3>2, <3>3, <3>4 DEF SlotsInv
  <2>9. \A s \in 1 .. Slots : Kept(slot[s], slot'[s]) /\ Heard(slot'[s]) = Heard(slot[s])
    BY <2>2 DEF Kept
  <2>10. HeadInv'
    BY <2>2, <2>3, <2>6, <2>9, HeadsKept
  <2>11. Types'
    BY <2>2, <2>3, <2>4, <2>7 DEF Types
  <2>12. PartInv'
    <3>1. \A d \in Clients : Queued(queue, d) \in Nat /\ Buffered(d) \in Nat /\ Buffered(d)' \in Nat
      BY <2>3, <2>7, Counting DEF Buffered, StreamType
    <3>2. \A d \in Clients : d # c => Buffered(d)' = Buffered(d)
      <4>1. mine => slot[stream.owner].client = c
        BY <2>1
      <4>2. ~mine => stream' = stream
        BY <2>2
      <4> QED BY <2>2, <2>7, <4>1, <4>2 DEF Buffered
    <3>3. Buffered(c)' <= Buffered(c) + 1
      BY <2>2, <2>3, <2>7 DEF Buffered, StreamType
    <3>4. \A d \in Clients : Left(d)' <= Left(d) /\ Left(d) \in Nat /\ Left(d)' \in Nat
      BY <2>1, <2>2, <2>6, <3>1, <3>2, <3>3 DEF Left
    <3>5. ASSUME NEW s \in 1 .. Slots, slot[s].client # None
          PROVE  Left(slot[s].client)' + Dropped(s)' <= Left(slot[s].client) + Dropped(s)
      <4>1. PICK d \in Clients : d = slot[s].client
        BY <2>3, <3>5 DEF SlotType
      <4>2. Left(slot[s].client)' = Left(d)'
        BY <2>2, <4>1
      <4>3. Dropped(s)' = Dropped(s) /\ Dropped(s) \in Nat
        BY <2>2 DEF Dropped, LoopOn
      <4> QED BY <3>4, <4>1, <4>2, <4>3
    <3> QED BY <2>2, <2>3, <2>9, <2>11, <3>4, <3>5, PartsKept
  <2>13. \A s \in 1 .. Slots :
           /\ slot[s].client # c => slot'[s] = slot[s]
           /\ slot'[s].client = slot[s].client /\ slot'[s].responded = slot[s].responded
           /\ slot'[s].gone = slot[s].gone /\ Heard(slot'[s]) = Heard(slot[s])
           /\ slot'[s].acked = slot[s].acked
    BY <2>2
  <2> QED BY <2>1, <2>2, <2>3, <2>4, <2>5, <2>6, <2>7, <2>8, <2>10, <2>12, <2>13, SlotStepKeeps
<1> QED BY <1>2, <1>3

\* A page is ready, an upload has the stream, or the head is refused.
LEMMA TakeHeadKeeps ==
  ASSUME ServerInv, TakeHead
  PROVE  ServerInv'
<1>1. task.at = "take" /\ task.x # "part" /\ UNCHANGED <<conn, queue, inFlight, taskKeeps>>
  BY DEF TakeHead, TaskAt
<1>2. CASE Refuse
  BY <1>1, <1>2, RefuseKeeps
<1>3. CASE /\ Goes("flag", task.c, 0, None) /\ UNCHANGED wanted
           /\ \/ slot' = [slot EXCEPT ![task.s].state = "ready"] /\ UNCHANGED stream
              \/ /\ stream.owner = 0 /\ stream' = [owner |-> task.s, len |-> 0]
                 /\ slot' = [slot EXCEPT ![task.s].streaming = TRUE]
  <2>1. PICK c \in Clients :
          /\ c = task.c /\ task.s \in 1 .. Slots /\ slot[task.s].client = c /\ task.x \in Data
          /\ slot[task.s].state = "receiving" /\ SlotOk(slot[task.s])
          /\ conn[c].wired /\ Alive(c) /\ ~Told(c) /\ ~Failing(c) /\ None \notin Clients
          /\ \A s \in 1 .. Slots : slot[s].client = c => s = task.s
          /\ \A d \in Clients : d # c => InHand(d) = 0
          /\ InHand(c) = 0 /\ ~slot[task.s].streaming
    BY <1>1, TaskSlot
  <2>2. PICK k \in 1 .. Slots : k = task.s
    BY <2>1
  <2> DEFINE page == slot' = [slot EXCEPT ![k].state = "ready"] /\ stream' = stream
             up == /\ stream.owner = 0 /\ stream' = [owner |-> k, len |-> 0]
                   /\ slot' = [slot EXCEPT ![k].streaming = TRUE]
  <2>3. /\ task' = [at |-> "flag", c |-> c, s |-> 0, x |-> None]
        /\ UNCHANGED <<conn, queue, inFlight, peer, loop, upload, wanted>> /\ (page \/ up)
    BY <1>1, <1>3, <2>1, <2>2 DEF Goes, taskKeeps
  <2>4. /\ Types /\ SlotInv /\ StreamInv /\ LoopInv /\ PromiseInv /\ PartInv /\ HeadInv
        /\ slot \in [1 .. Slots -> SlotType] /\ stream \in StreamType /\ queue \in Seq(EventType)
        /\ wanted \in BOOLEAN /\ Slots \in Nat
    BY TypesAre DEF ServerInv, Types, SlotsInv
  <2>5. /\ task'.c = c /\ task'.at = "flag" /\ task'.x = None /\ task' \in TaskType
    BY <2>3, <2>4, TypesAre DEF TaskType, TaskAts
  <2>6. TaskInv'
    BY <2>5 DEF TaskInv
  <2>7. ~Failing(c)' /\ \A d \in Clients : InHand(d)' = 0 /\ ~HeadHand(d)'
    BY <2>5 DEF Failing, On, InHand, HeadHand, None
  <2>8. HeadHand(c)
    BY <1>1, <2>1 DEF HeadHand, On, Data
  <2>9. slot[k].client = c /\ slot[k].state = "receiving" /\ SlotOk(slot[k]) /\ ~slot[k].streaming
        /\ slot[k] \in SlotType
    BY <2>1, <2>2, <2>4
  <2>10. /\ slot' \in [1 .. Slots -> SlotType] /\ \A s \in 1 .. Slots : s # k => slot'[s] = slot[s]
    <3>1. /\ [slot[k] EXCEPT !.state = "ready"] \in SlotType
          /\ [slot[k] EXCEPT !.streaming = TRUE] \in SlotType
      BY <2>9 DEF SlotType, States
    <3>2. CASE page
      BY <2>4, <3>1, <3>2
    <3>3. CASE up
      BY <2>4, <3>1, <3>3
    <3> QED BY <2>3, <3>2, <3>3
  <2>11. \/ page /\ slot'[k] = [slot[k] EXCEPT !.state = "ready"]
         \/ up /\ slot'[k] = [slot[k] EXCEPT !.streaming = TRUE]
    BY <2>3, <2>4
  <2>12. /\ slot'[k].client = slot[k].client /\ slot'[k].begun = slot[k].begun
         /\ slot'[k].ended = slot[k].ended /\ slot'[k].aborted = slot[k].aborted
         /\ slot'[k].acked = slot[k].acked /\ slot'[k].responded = slot[k].responded
         /\ slot'[k].del = slot[k].del /\ slot'[k].gone = slot[k].gone /\ slot'[k].buf = slot[k].buf
         /\ \/ page /\ slot'[k].state = "ready" /\ ~slot'[k].streaming
            \/ up /\ slot'[k].state = "receiving" /\ slot'[k].streaming
    BY <2>9, <2>11 DEF SlotType
  <2>13. /\ ~slot[k].del /\ slot[k].buf /\ ~slot[k].ended /\ ~slot[k].responded /\ ~slot[k].begun
         /\ slot[k].acked = 0 /\ ~slot[k].gone
    BY <2>9 DEF SlotOk
  <2>14. SlotInv'
    <3>1. ASSUME NEW s \in 1 .. Slots PROVE SlotOk(slot'[s])
      <4>1. CASE s = k
        <5>1. /\ slot'[k].client # None /\ ~slot'[k].del /\ slot'[k].buf /\ ~slot'[k].ended /\ ~slot'[k].responded
              /\ ~slot'[k].begun /\ slot'[k].acked = 0 /\ ~slot'[k].gone
          BY <2>1, <2>9, <2>12, <2>13
        <5>2. \/ slot'[k].state = "ready" /\ ~slot'[k].streaming
              \/ slot'[k].state = "receiving" /\ slot'[k].streaming
          BY <2>12
        <5> QED BY <4>1, <5>1, <5>2 DEF SlotOk
      <4>2. CASE s # k
        BY <2>4, <2>10, <4>2 DEF SlotInv
      <4> QED BY <4>1, <4>2
    <3>2. \A s \in 1 .. Slots : slot'[s].client = slot[s].client
      BY <2>10, <2>12
    <3> QED BY <2>4, <3>1, <3>2 DEF SlotInv
  <2>15. loop.at \notin Draining \cup Answering \cup Reclaiming \/ loop.s # k
    BY <2>4, <2>9, <2>13 DEF LoopInv
  <2>16. loop.at \in {"deliver", "settle", "end", "letgo"} => stream.owner \in 1 .. Slots
    BY <2>4 DEF LoopInv, Draining
  <2>17. StreamInv'
    <3>1. CASE page
      <4>1. stream.owner # k
        BY <2>2, <2>4, <2>9 DEF StreamInv
      <4>2. stream.owner # 0 => stream.owner \in 1 .. Slots
        BY <2>4 DEF StreamType
      <4> QED BY <2>3, <2>4, <2>10, <2>12, <2>13, <3>1, <4>1, <4>2 DEF StreamInv, LoopOn
    <3>2. CASE up
      <4>1. stream'.owner = k
        BY <3>2
      <4>2. slot'[k].client # None /\ slot'[k].streaming /\ ~slot'[k].ended
        BY <2>1, <2>9, <2>12, <2>13, <3>2
      <4>3. \A s \in 1 .. Slots : s # k /\ slot'[s].streaming /\ ~slot'[s].ended => LoopOn(s, {"reset"})'
        BY <2>3, <2>4, <2>10, <3>2 DEF StreamInv, LoopOn
      <4>4. \A s \in 1 .. Slots : slot'[s].aborted => LoopOn(s, {"reset"})'
        BY <2>3, <2>4, <2>10, <2>12 DEF StreamInv, LoopOn
      <4> QED BY <4>1, <4>2, <4>3, <4>4 DEF StreamInv
    <3> QED BY <2>3, <3>1, <3>2
  <2>18. LoopInv'
    <3>1. CASE loop.s = k
      <4>1. loop.at \notin {"deliver", "settle", "end", "letgo", "reset", "respond", "answered", "hangup",
                            "mark", "clean"}
        BY <2>15, <3>1 DEF Draining, Answering, Reclaiming
      <4>2. slot'[k].client # None
        BY <2>1, <2>9, <2>12
      <4> QED BY <2>3, <2>4, <2>15, <3>1, <4>1, <4>2 DEF LoopInv
    <3>2. CASE loop.s # k
      <4>1. CASE loop.at = "idle"
        BY <2>3, <2>4, <4>1 DEF LoopInv, Draining, Answering, Reclaiming
      <4>2. CASE loop.at # "idle"
        <5>1. loop.s \in 1 .. Slots
          BY <2>4, <4>2 DEF LoopInv
        <5>2. slot'[loop.s] = slot[loop.s]
          BY <2>10, <3>2, <5>1
        <5>3. loop.at \in {"deliver", "settle", "end", "letgo"} => stream' = stream
          BY <2>3, <2>4, <2>16
        <5>4. loop.at = "reset" => stream'.owner # loop.s
          BY <2>3, <2>4, <3>2 DEF LoopInv
        <5> QED BY <2>3, <2>4, <5>1, <5>2, <5>3, <5>4 DEF LoopInv
      <4> QED BY <4>1, <4>2
    <3> QED BY <3>1, <3>2
  <2>19. PromiseInv'
    <3>1. \A s \in 1 .. Slots : slot'[s].del = slot[s].del
      BY <2>10, <2>12
    <3> QED BY <2>3, <2>4, <3>1 DEF PromiseInv, Ahead, LoopOn
  <2>20. HeadInv'
    <3>1. ASSUME NEW d \in Clients PROVE HeadOk(d)'
      <4>1. Ev(d)' = Ev(d) /\ peer' = peer /\ HeadOk(d) /\ ~HeadHand(d)'
        BY <2>3, <2>4, <2>7 DEF Ev, HeadInv
      <4>2. Streams(d)' => Streams(d) \/ d = c
        BY <2>9, <2>10, <2>12 DEF Streams, Has
      <4> QED BY <2>8, <4>1, <4>2 DEF HeadOk
    <3> QED BY <3>1 DEF HeadInv
  <2>21. PartInv'
    <3>1. \A d \in Clients : Queued(queue', d) = Queued(queue, d) /\ Queued(queue, d) \in Nat
      BY <2>3, <2>4, Counting
    <3>2. \A d \in Clients : Buffered(d)' = Buffered(d) /\ Buffered(d) \in Nat
      <4>1. \A d \in Clients : Buffered(d) \in Nat
        BY <2>4 DEF Buffered, StreamType
      <4>2. CASE page
        <5>1. stream.owner # 0 => slot'[stream.owner].client = slot[stream.owner].client
          BY <2>4, <2>10, <2>12 DEF StreamType
        <5> QED BY <4>1, <4>2, <5>1 DEF Buffered
      <4>3. CASE up
        BY <4>1, <4>3 DEF Buffered
      <4> QED BY <2>3, <4>1, <4>2, <4>3
    <3>3. \A d \in Clients : Left(d)' = Left(d) /\ Left(d) \in Nat
      BY <2>1, <2>7, <3>1, <3>2 DEF Left
    <3>4. \A s \in 1 .. Slots : Dropped(s)' = Dropped(s)
      BY <2>3, <2>10, <2>12 DEF Dropped, LoopOn
    <3>5. \A d \in Clients : peer[d].sent \in Nat
      BY <2>4, TypesAre DEF PeerType
    <3>6. ASSUME NEW s \in 1 .. Slots, slot'[s].client # None, slot'[s].streaming
          PROVE  slot'[s].acked + Left(slot[s].client)' + Dropped(s)' <= peer'[slot'[s].client].sent
      <4>1. PICK d \in Clients : d = slot[s].client /\ d = slot'[s].client
        BY <2>4, <2>10, <2>12, <3>6 DEF SlotType
      <4>2. CASE s = k
        <5>1. slot'[s].acked = 0 /\ Dropped(s)' = 0
          BY <2>12, <2>13, <3>4, <4>2 DEF Dropped
        <5>2. Left(d) <= peer[d].sent
          BY <2>4 DEF PartInv
        <5> QED BY <2>3, <3>3, <3>5, <4>1, <5>1, <5>2
      <4>3. CASE s # k
        <5>1. slot[s].acked + Left(d) + Dropped(s) <= peer[d].sent
          BY <2>4, <2>10, <3>6, <4>1, <4>3 DEF PartInv
        <5>2. slot'[s].acked = slot[s].acked
          BY <2>10, <4>3
        <5> QED BY <2>3, <3>3, <3>4, <4>1, <5>1, <5>2
      <4> QED BY <4>2, <4>3
    <3>7. \A d \in Clients : Left(d)' <= peer'[d].sent /\ (~peer'[d].head => peer'[d].sent = 0)
      BY <2>3, <2>4, <3>3 DEF PartInv
    <3> QED BY <3>6, <3>7 DEF PartInv
  <2>22. \A s \in 1 .. Slots :
           /\ slot[s].client # c => slot'[s] = slot[s]
           /\ slot'[s].client = slot[s].client /\ slot'[s].responded = slot[s].responded
           /\ slot'[s].gone = slot[s].gone /\ Heard(slot'[s]) = Heard(slot[s])
           /\ slot'[s].acked = slot[s].acked
    BY <2>9, <2>10, <2>12 DEF Heard
  <2>23. stream' \in StreamType
    BY <2>3, <2>4, ServerAssumption DEF StreamType
  <2>24. SlotsInv'
    BY <2>14, <2>17, <2>18, <2>19 DEF SlotsInv
  <2> QED BY <2>1, <2>3, <2>4, <2>5, <2>6, <2>7, <2>10, <2>20, <2>21, <2>22, <2>23, <2>24, SlotStepKeeps
<1> QED BY <1>2, <1>3 DEF TakeHead

LEMMA PartsAside ==
  ASSUME Types, Types', PartInv, UNCHANGED <<peer, queue, stream>>,
         \A s \in 1 .. Slots : Kept(slot[s], slot'[s]) /\ Dropped(s)' <= Dropped(s),
         \A c \in Clients : InHand(c)' <= InHand(c)
  PROVE  PartInv'
<1>1. \A c \in Clients : Buffered(c)' = Buffered(c) /\ Buffered(c) \in Nat
  <2>1. stream \in StreamType
    BY TypesAre
  <2>2. stream.owner # 0 => slot'[stream.owner].client = slot[stream.owner].client
    BY <2>1 DEF StreamType, Kept
  <2> QED BY <2>1, <2>2 DEF Buffered, StreamType
<1>2. \A c \in Clients : Queued(queue, c) \in Nat /\ Queued(queue', c) = Queued(queue, c)
  BY Counting DEF Types
<1>3. \A c \in Clients : InHand(c) \in Nat /\ InHand(c)' \in Nat
  BY DEF InHand
<1>4. \A c \in Clients : Left(c)' <= Left(c) /\ Left(c)' \in Nat /\ Left(c) \in Nat
  BY <1>1, <1>2, <1>3 DEF Left
<1>5. ASSUME NEW s \in 1 .. Slots, slot[s].client # None
      PROVE  Left(slot[s].client)' + Dropped(s)' <= Left(slot[s].client) + Dropped(s)
  <2>1. PICK c \in Clients : c = slot[s].client
    BY <1>5, TypesAre DEF SlotType
  <2>2. Left(slot[s].client)' = Left(c)'
    BY <2>1 DEF Kept
  <2>3. Dropped(s) \in Nat /\ Dropped(s)' \in Nat /\ Dropped(s)' <= Dropped(s)
    BY DEF Dropped
  <2> QED BY <1>4, <2>1, <2>2, <2>3
<1> QED BY <1>4, <1>5, PartsKept

\* What markDoneAsync() and onDisconnect() make of a slot.
Ended(r) == [r EXCEPT !.state = "done", !.del = TRUE]
Deserted(r) == [r EXCEPT !.state = "done", !.del = TRUE, !.gone = TRUE]

LEMMA EndedIs ==
  ASSUME NEW r \in SlotType, r.client # None
  PROVE  /\ Ended(r) \in SlotType /\ Ends(r, Ended(r))
         /\ Ended(r).gone = r.gone /\ Ended(r).buf = r.buf
         /\ Deserted(r) \in SlotType /\ Ends(r, Deserted(r))
         /\ Deserted(r).gone /\ Deserted(r).buf = r.buf
BY DEF SlotType, States, Ends, Kept, Ended, Deserted

\* An error or a timeout marks the slot, and its connection is closed.
LEMMA MarkDoneKeeps ==
  ASSUME ServerInv, MarkDoneAsync
  PROVE  ServerInv'
<1>1. /\ task.at \in {"error", "expire"} /\ UNCHANGED <<conn, queue, stream, inFlight, peer, loop, upload>>
  BY Zenon DEF MarkDoneAsync, TaskAt, taskKeeps
<1>2. PICK c \in Clients : c = task.c
  BY <1>1, TaskClient
<1>3. /\ conn[c].wired /\ Alive(c) /\ ~Told(c) /\ None \notin Clients /\ wanted \in BOOLEAN /\ Types
  BY <1>1, <1>2, TaskClient
<1>4. /\ slot \in [1 .. Slots -> SlotType] /\ queue \in Seq(EventType) /\ stream \in StreamType
      /\ inFlight \in Nat /\ Slots \in Nat
  BY <1>3, TypesAre DEF Types
<1>5. Failing(c) <=> task.at = "error"
  BY <1>1, <1>2 DEF Failing, On
<1>6. \A d \in Clients : InHand(d) = 0
  BY <1>1 DEF InHand, On
<1> DEFINE found == SlotsOf(c)
<1>7. /\ slot' = [s \in 1 .. Slots |->
                   IF s \in found THEN Ended(slot[s]) ELSE slot[s]]
      /\ wanted' = (wanted \/ found # {})
      /\ IF found # {} THEN task' = [at |-> "close", c |-> c, s |-> 0, x |-> task.at]
         ELSE IF task.at = "error" THEN task' = [at |-> "told", c |-> c, s |-> 0, x |-> None]
         ELSE task' = AtRest
  BY <1>2, Zenon DEF MarkDoneAsync, Goes, Rests, TaskAt, Ended
<1>8. CASE found = {}
  <2>1. slot' = slot
    BY <1>4, <1>7, <1>8
  <2>2. CASE task.at = "error"
    <3>1. /\ task'.c = c /\ task'.at = "told" /\ task'.x = None /\ task' \in TaskType
      BY <1>4, <1>7, <1>8, <2>2 DEF TaskType, TaskAts
    <3>2. TaskInv'
      BY <3>1 DEF TaskInv
    <3>3. Failing(c)' /\ InHand(c)' = 0 /\ ~HeadHand(c)'
      BY <3>1 DEF Failing, On, InHand, HeadHand
    <3> QED BY <1>1, <1>2, <1>3, <1>5, <1>6, <1>7, <1>8, <2>1, <2>2, <3>1, <3>2, <3>3, TurnKeeps
  <2>3. CASE task.at # "error"
    <3>1. task' = AtRest
      BY <1>7, <1>8, <2>3
    <3>2. /\ TaskInv' /\ task'.c = None /\ task' \in TaskType
          /\ ~Failing(c)' /\ InHand(c)' = 0 /\ ~HeadHand(c)'
      BY <1>3, <1>4, <3>1, RestIs
    <3> QED BY <1>1, <1>2, <1>3, <1>5, <1>6, <1>7, <1>8, <2>1, <2>3, <3>2, TurnKeeps
  <2> QED BY <2>2, <2>3
<1>9. CASE found # {}
  <2>1. /\ task'.c = c /\ task'.at = "close" /\ task'.x = task.at /\ task' \in TaskType
    BY <1>1, <1>4, <1>7, <1>9 DEF TaskType, TaskAts
  <2>2. TaskInv'
    BY <2>1 DEF TaskInv
  <2>3. (Failing(c)' <=> Failing(c)) /\ \A d \in Clients : InHand(d)' = 0 /\ ~HeadHand(d)'
    BY <1>1, <1>5, <2>1 DEF Failing, On, InHand, HeadHand
  <2>4. \A s \in 1 .. Slots :
          \/ slot[s].client # c /\ slot'[s] = slot[s]
          \/ /\ slot[s].client = c /\ slot'[s] \in SlotType /\ Ends(slot[s], slot'[s])
             /\ slot'[s].gone = slot[s].gone /\ slot'[s].buf = slot[s].buf
    <3> SUFFICES ASSUME NEW s \in 1 .. Slots
                 PROVE  \/ slot[s].client # c /\ slot'[s] = slot[s]
                        \/ /\ slot[s].client = c /\ slot'[s] \in SlotType /\ Ends(slot[s], slot'[s])
                           /\ slot'[s].gone = slot[s].gone /\ slot'[s].buf = slot[s].buf
      OBVIOUS
    <3>1. CASE slot[s].client # c
      BY <1>7, <3>1 DEF SlotsOf
    <3>2. CASE slot[s].client = c
      <4>1. slot[s] \in SlotType /\ slot[s].client # None
        BY <1>3, <1>4, <3>2
      <4>2. slot'[s] = Ended(slot[s])
        BY <1>7, <3>2 DEF SlotsOf
      <4> QED BY <3>2, <4>1, <4>2, EndedIs
    <3> QED BY <3>1, <3>2
  <2>5. slot' \in [1 .. Slots -> SlotType] /\ wanted'
    BY <1>4, <1>7, <1>9, <2>4
  <2>6. \A s \in 1 .. Slots :
          /\ Kept(slot[s], slot'[s]) /\ slot'[s].gone = slot[s].gone /\ slot'[s].buf = slot[s].buf
          /\ slot[s].client # c => slot'[s] = slot[s]
    BY <2>4 DEF Ends, Kept
  <2>7. SlotsInv'
    <3>1. \A s \in 1 .. Slots : slot'[s] = slot[s] \/ Ends(slot[s], slot'[s])
      BY <2>4
    <3> QED BY <1>1, <1>3, <2>5, <3>1, SlotsEnd DEF ServerInv
  <2>8. Types'
    BY <1>1, <1>3, <2>1, <2>5 DEF Types
  <2>9. HeadInv'
    BY <1>1, <2>3, <2>6, HeadsKept DEF ServerInv
  <2>10. PartInv'
    <3>1. \A s \in 1 .. Slots : Dropped(s)' <= Dropped(s)
      BY <1>1, <2>6 DEF Dropped, LoopOn, Kept
    <3> QED BY <1>1, <1>3, <1>6, <2>3, <2>6, <2>8, <3>1, PartsAside DEF ServerInv
  <2>11. \A s \in 1 .. Slots :
           /\ slot[s].client # c => slot'[s] = slot[s]
           /\ slot'[s].client = slot[s].client /\ slot'[s].responded = slot[s].responded
           /\ slot'[s].gone = slot[s].gone /\ Heard(slot'[s]) = Heard(slot[s])
           /\ slot'[s].acked = slot[s].acked
    BY <2>6 DEF Kept, Heard
  <2> QED BY <1>1, <1>2, <1>3, <1>4, <2>1, <2>2, <2>3, <2>5, <2>7, <2>9, <2>10, <2>11, SlotStepKeeps
<1> QED BY <1>8, <1>9

\* onDisconnect(): told once, a client without a slot is freed, and one with a
\* slot is left to the loop.
LEMMA LeaveKeeps ==
  ASSUME ServerInv, OnDisconnect
  PROVE  ServerInv'
<1>1. /\ task.at = "told" /\ task' = AtRest /\ UNCHANGED <<stream, peer, loop, upload>>
  BY Zenon DEF OnDisconnect, TaskAt, Rests, taskKeeps
<1>2. PICK c \in Clients : c = task.c
  BY <1>1, TaskClient
<1>3. /\ ClientOk(c) /\ conn[c].wired /\ Alive(c) /\ ~Told(c) /\ None \notin Clients /\ wanted \in BOOLEAN
      /\ Types /\ ClientInv /\ CountInv
  BY <1>1, <1>2, TaskClient DEF ServerInv
<1>4. /\ conn \in [Clients -> ConnType] /\ slot \in [1 .. Slots -> SlotType] /\ queue \in Seq(EventType)
      /\ stream \in StreamType /\ inFlight \in Nat /\ Slots \in Nat /\ MaxInFlight \in Nat
  BY <1>3, TypesAre DEF Types
<1>5. ~conn[c].pcb /\ "error" \notin Ev(c)
  BY <1>1, <1>2, <1>3 DEF ClientOk, TaskOk, Failing, On
<1>6. ~Gone(c) /\ ~Dead(c) /\ ~conn[c].released /\ "release" \notin Ev(c) /\ "accept" \notin Ev(c)
  BY <1>3, <1>5 DEF ClientOk, LifeOk, EventsOk, Told
<1>7. /\ TaskInv' /\ task'.c = None /\ task'.at = "idle" /\ task' \in TaskType
      /\ \A d \in Clients :
           ~Failing(d)' /\ InHand(d)' = 0 /\ ~HeadHand(d)' /\ task'.c # d /\ \A A : ~On(d, A)'
  BY <1>1, <1>3, <1>4, RestIs
<1>8. \A d \in Clients : InHand(d) = 0
  BY <1>1 DEF InHand, On
<1>9. Leave(c) = 1
  BY <1>6 DEF Leave, SlotsOf, Gone, Has
<1>10. c \in Counted /\ inFlight > 0
  <2>1. c \in Counted
    BY <1>3 DEF Counted
  <2>2. IsFiniteSet(Counted) /\ inFlight = Cardinality(Counted)
    BY <1>3 DEF CountInv
  <2>3. Cardinality(Counted) # 0
    BY <2>1, <2>2, FS_EmptySet
  <2> QED BY <1>4, <2>1, <2>2, <2>3
<1>11. inFlight' = inFlight - 1
  <2>1. inFlight' = IF inFlight > 0 THEN inFlight - Leave(c) ELSE 0
    BY <1>2, Zenon DEF OnDisconnect
  <2> QED BY <1>9, <1>10, <2>1
<1>12. ASSUME ~(Alive(c) /\ conn[c].wired /\ ~Told(c))',
              \A d \in Clients : d # c => ((Alive(d) /\ conn[d].wired /\ ~Told(d))'
                                            <=> Alive(d) /\ conn[d].wired /\ ~Told(d))
       PROVE  CountInv'
  <2>1. Counted' = Counted \ {c}
    BY <1>12 DEF Counted
  <2>2. IsFiniteSet(Counted') /\ Cardinality(Counted') = Cardinality(Counted) - 1
    BY <1>3, <1>10, <2>1, FS_RemoveElement DEF CountInv
  <2>3. inFlight - 1 <= MaxInFlight
    BY <1>3, <1>4 DEF CountInv
  <2> QED BY <1>3, <1>11, <2>2, <2>3 DEF CountInv
<1>13. inFlight' \in Nat
  BY <1>4, <1>10, <1>11
<1>14. CASE SlotsOf(c) = {}
  <2>1. conn' = Freed(c) /\ queue' = Without(c) /\ UNCHANGED <<slot, wanted>>
    BY <1>2, <1>14 DEF OnDisconnect
  <2>2. /\ conn' \in [Clients -> ConnType] /\ conn'[c] = [conn[c] EXCEPT !.obj = "freed", !.pcb = FALSE]
        /\ \A d \in Clients : d # c => conn'[d] = conn[d]
    BY <1>4, <2>1 DEF ConnType, Freed
  <2>3. /\ conn'[c].obj = "freed" /\ ~conn'[c].pcb /\ conn'[c].wired /\ ~conn'[c].released
    BY <1>3, <1>4, <1>6, <2>2 DEF ConnType
  <2>4. /\ queue' \in Seq(EventType) /\ Once(queue') /\ Ev(c)' = {}
        /\ \A d \in Clients :
             /\ Queued(queue', d) <= Queued(queue, d)
             /\ d # c => Events(queue', d) = Events(queue, d) /\ (Led(queue, d) => Led(queue', d))
    <3>1. /\ queue' \in Seq(EventType) /\ Once(queue')
          /\ \A d \in Clients :
               /\ Events(queue', d) = IF d = c THEN Ev(d) \cap {"release"} ELSE Ev(d)
               /\ Queued(queue', d) <= Queued(queue, d)
               /\ Led(queue, d) /\ d # c => Led(queue', d)
      BY <1>3, <1>4, <2>1, Removed DEF ClientInv
    <3> QED BY <1>6, <3>1 DEF Ev
  <2>5. ~Slotted(c)' /\ ~Gone(c)' /\ ~Dead(c)'
    BY <1>1, <1>6, <1>14, <2>1, PlacesStay DEF Slotted, Has, SlotsOf
  <2>6. ~Alive(c)' /\ ~Told(c)'
    BY <2>3, <2>5 DEF Alive, Told
  <2>7. LifeOk(c)' /\ TaskOk(c)'
    BY <1>7, <2>3, <2>4, <2>5, <2>6 DEF LifeOk, TaskOk
  <2>8. EventsOk(c)' /\ HangOk(c)'
    BY <1>7, <2>3, <2>4, <2>6 DEF EventsOk, HangOk
  <2>9. ClientOk(c)'
    BY <2>7, <2>8 DEF ClientOk
  <2>10. Types'
    BY <1>1, <1>3, <1>7, <1>13, <2>1, <2>2, <2>4 DEF Types
  <2>11. CountInv'
    <3>1. \A d \in Clients : d # c => ((Alive(d) /\ conn[d].wired /\ ~Told(d))'
                                        <=> Alive(d) /\ conn[d].wired /\ ~Told(d))
      BY <1>1, <2>1, <2>2, PlacesStay DEF Alive, Told
    <3> QED BY <1>12, <2>6, <3>1
  <2>12. Queued(queue', c) + InHand(c)' <= Queued(queue, c) + InHand(c)
    <3>1. Queued(queue', c) \in Nat /\ Queued(queue, c) \in Nat
      BY <1>4, <2>4, Counting
    <3> QED BY <1>7, <1>8, <2>4, <3>1
  <2> QED BY <1>1, <1>2, <1>7, <2>1, <2>2, <2>3, <2>4, <2>9, <2>10, <2>11, <2>12, TaskStepKeeps
<1>15. CASE SlotsOf(c) # {}
  <2>1. /\ slot' = [s \in 1 .. Slots |->
                     IF s \in SlotsOf(c) /\ ~slot[s].gone
                     THEN Deserted(slot[s]) ELSE slot[s]]
        /\ wanted' /\ UNCHANGED <<conn, queue>> /\ wanted' \in BOOLEAN
      <3>1. /\ slot' = [s \in 1 .. Slots |->
                       IF s \in SlotsOf(c) /\ ~slot[s].gone THEN Deserted(slot[s]) ELSE slot[s]]
          /\ wanted' = (wanted \/ Leave(c) = 1) /\ UNCHANGED <<conn, queue>>
      BY <1>2, <1>15, Zenon DEF OnDisconnect, Deserted
    <3> QED BY <1>9, <3>1
  <2>2. \A s \in 1 .. Slots :
          \/ slot[s].client # c /\ slot'[s] = slot[s]
          \/ /\ slot[s].client = c /\ slot'[s] \in SlotType /\ Ends(slot[s], slot'[s])
             /\ slot'[s].gone /\ slot'[s].buf = slot[s].buf
    <3> SUFFICES ASSUME NEW s \in 1 .. Slots
                 PROVE  \/ slot[s].client # c /\ slot'[s] = slot[s]
                        \/ /\ slot[s].client = c /\ slot'[s] \in SlotType /\ Ends(slot[s], slot'[s])
                           /\ slot'[s].gone /\ slot'[s].buf = slot[s].buf
      OBVIOUS
    <3>1. CASE slot[s].client # c
      BY <2>1, <3>1 DEF SlotsOf
    <3>2. CASE slot[s].client = c
      <4>1. slot[s] \in SlotType /\ slot[s].client # None /\ ~slot[s].gone
        BY <1>3, <1>4, <1>6, <3>2 DEF Gone, Has
      <4>2. slot'[s] = Deserted(slot[s])
        BY <2>1, <3>2, <4>1 DEF SlotsOf
      <4> QED BY <3>2, <4>1, <4>2, EndedIs
    <3> QED BY <3>1, <3>2
  <2>3. slot' \in [1 .. Slots -> SlotType]
    BY <1>4, <2>1, <2>2
  <2>4. \A s \in 1 .. Slots :
          /\ Kept(slot[s], slot'[s]) /\ slot'[s].buf = slot[s].buf
          /\ slot[s].client # c => slot'[s] = slot[s]
          /\ slot[s].client = c => slot'[s].gone
    BY <2>2 DEF Ends, Kept
  <2>5. SlotsInv'
    <3>1. \A s \in 1 .. Slots : slot'[s] = slot[s] \/ Ends(slot[s], slot'[s])
      BY <2>2
    <3> QED BY <1>1, <1>3, <2>1, <2>3, <3>1, SlotsEnd DEF ServerInv
  <2>6. Types'
    BY <1>1, <1>3, <1>7, <1>13, <2>1, <2>3 DEF Types
  <2>7. HeadInv'
    BY <1>1, <1>7, <2>1, <2>4, HeadsKept DEF ServerInv
  <2>8. PartInv'
    <3>1. \A s \in 1 .. Slots : Dropped(s)' <= Dropped(s)
      BY <1>1, <2>4 DEF Dropped, LoopOn, Kept
    <3>2. UNCHANGED <<peer, queue, stream>>
      BY <1>1, <2>1
    <3> QED BY <1>3, <1>7, <1>8, <2>4, <2>6, <3>1, <3>2, PartsAside DEF ServerInv
  <2>9. HeardInv'
    BY <1>1, <1>7, <2>1, <2>4, HeardKept DEF ServerInv
  <2>10. /\ (Alive(c)' <=> Alive(c)) /\ Ev(c)' = Ev(c) /\ conn'[c] = conn[c] /\ (Dead(c)' <=> Dead(c))
         /\ \A s \in 1 .. Slots : (Has(s, c)' <=> Has(s, c)) /\ (Hung(s)' <=> Hung(s))
    BY <1>1, <2>1, <2>4 DEF Alive, Ev, Dead, Has, Hung, LoopOn, Kept
  <2>11. Slotted(c)' /\ Gone(c)' /\ Slotted(c) /\ Told(c)'
    <3>1. PICK s \in 1 .. Slots : slot[s].client = c
      BY <1>15 DEF SlotsOf
    <3>2. slot'[s].client = c /\ slot'[s].gone
      BY <2>4, <3>1 DEF Kept
    <3> QED BY <3>1, <3>2 DEF Slotted, Gone, Has, Told
  <2>12. ~Pending(c)'
    BY <1>5, <1>7, <2>10 DEF Pending
  <2>13. LifeOk(c)' /\ TaskOk(c)'
    BY <1>3, <1>5, <1>6, <1>7, <2>10, <2>11, <2>12 DEF ClientOk, LifeOk, TaskOk, Alive
  <2>14. EventsOk(c)' /\ HangOk(c)'
    BY <1>3, <1>5, <1>6, <1>7, <2>10 DEF ClientOk, EventsOk, HangOk
  <2>15. ClientOk(c)'
    BY <2>13, <2>14 DEF ClientOk
  <2>16. ClientInv'
    <3>1. \A s \in 1 .. Slots :
            /\ slot[s].client \notin {c, None} => slot'[s] = slot[s]
            /\ slot[s].client \in {c, None} => slot'[s].client \in {c, None}
      BY <2>4 DEF Kept
    <3> QED BY <1>1, <1>2, <1>7, <2>1, <2>15, <3>1, OthersKept
  <2>17. CountInv'
    <3>1. \A d \in Clients : d # c => ((Alive(d) /\ conn[d].wired /\ ~Told(d))'
                                        <=> Alive(d) /\ conn[d].wired /\ ~Told(d))
      <4> SUFFICES ASSUME NEW d \in Clients, d # c
                   PROVE  (Alive(d) /\ conn[d].wired /\ ~Told(d))' <=> Alive(d) /\ conn[d].wired /\ ~Told(d)
        OBVIOUS
      <4>1. \A s \in 1 .. Slots : (Has(s, d)' <=> Has(s, d)) /\ (Has(s, d) => slot'[s] = slot[s])
        BY <2>4 DEF Has, Kept
      <4>2. (Gone(d)' <=> Gone(d)) /\ (Dead(d)' <=> Dead(d))
        BY <1>1, <4>1 DEF Gone, Dead
      <4> QED BY <2>1, <4>2 DEF Alive, Told
    <3> QED BY <1>12, <2>11, <3>1
  <2> QED BY <1>7, <2>5, <2>6, <2>7, <2>8, <2>9, <2>16, <2>17 DEF ServerInv
<1> QED BY <1>14, <1>15

\* A connection gets a slot that nobody has, or is closed.
LEMMA AllocKeeps ==
  ASSUME ServerInv, Alloc
  PROVE  ServerInv'
<1>1. task.at = "alloc" /\ UNCHANGED <<conn, queue, stream, inFlight, wanted, peer, loop, upload>>
  BY DEF Alloc, TaskAt, taskKeeps
<1>2. PICK c \in Clients : c = task.c
  BY <1>1, TaskClient
<1>3. /\ ClientOk(c) /\ conn[c].wired /\ Alive(c) /\ ~Told(c) /\ ~Failing(c) /\ None \notin Clients
      /\ wanted \in BOOLEAN /\ Types /\ ClientInv /\ CountInv /\ HeardInv /\ HeadInv /\ PartInv
  BY <1>1, <1>2, TaskClient DEF ServerInv
<1>4. /\ slot \in [1 .. Slots -> SlotType] /\ queue \in Seq(EventType) /\ stream \in StreamType
      /\ Slots \in Nat /\ Parts \in Nat
  BY <1>3, TypesAre DEF Types
<1>5. /\ On(c, {"alloc"}) /\ ~Slotted(c) /\ "close" \notin Ev(c) /\ "accept" \notin Ev(c) /\ Pending(c)
      /\ \A d \in Clients : InHand(d) = 0
  BY <1>1, <1>2, <1>3 DEF ClientOk, LifeOk, TaskOk, EventsOk, On, InHand
<1>6. CASE Goes("close", task.c, 0, None) /\ UNCHANGED slot
  <2>1. /\ task'.c = c /\ task'.at = "close" /\ task'.x = None /\ task' \in TaskType
    BY <1>2, <1>4, <1>6 DEF Goes, TaskType, TaskAts
  <2>2. TaskInv'
    BY <2>1 DEF TaskInv
  <2>3. ~Failing(c)' /\ InHand(c)' = 0 /\ ~HeadHand(c)'
    BY <2>1 DEF Failing, On, InHand, HeadHand, None
  <2> QED BY <1>1, <1>2, <1>3, <1>5, <1>6, <2>1, <2>2, <2>3, TurnKeeps
<1>7. CASE /\ Unused # {} /\ Rests
           /\ slot' = [slot EXCEPT ![Min(Unused)] =
                         [FreeSlot EXCEPT !.client = task.c, !.buf = TRUE, !.state = "receiving"]]
  <2> DEFINE r == [FreeSlot EXCEPT !.client = c, !.buf = TRUE, !.state = "receiving"]
  <2>1. PICK m \in 1 .. Slots : m = Min(Unused) /\ slot[m].client = None
    <3>1. Min(Unused) \in Unused
      BY <1>7, FirstSlot DEF Unused
    <3> QED BY <3>1 DEF Unused
  <2>2. slot' = [slot EXCEPT ![m] = r] /\ task' = AtRest
    BY <1>2, <1>7, <2>1 DEF Rests
  <2>3. /\ r.client = c /\ r.state = "receiving" /\ r.buf /\ ~r.del /\ ~r.gone /\ ~r.streaming
        /\ ~r.begun /\ ~r.ended /\ ~r.aborted /\ r.acked = 0 /\ ~r.responded /\ r \in SlotType
    <3>1. FreeSlot \in SlotType
      BY <1>4 DEF FreeSlot, SlotType, States
    <3>2. r \in SlotType
      BY <3>1 DEF SlotType, States
    <3>3. /\ ~FreeSlot.del /\ ~FreeSlot.gone /\ ~FreeSlot.streaming /\ ~FreeSlot.begun /\ ~FreeSlot.ended
          /\ ~FreeSlot.aborted /\ FreeSlot.acked = 0 /\ ~FreeSlot.responded
      BY DEF FreeSlot
    <3> QED BY <3>1, <3>2, <3>3 DEF SlotType
  <2>4. slot[m] = FreeSlot
    BY <2>1 DEF ServerInv, SlotsInv, SlotInv, SlotOk
  <2> HIDE DEF r
  <2>5. /\ slot' \in [1 .. Slots -> SlotType] /\ slot'[m] = r
        /\ \A s \in 1 .. Slots : s # m => slot'[s] = slot[s]
    BY <1>4, <2>2, <2>3
  <2>6. /\ TaskInv' /\ task'.c = None /\ task'.at = "idle" /\ task' \in TaskType
        /\ \A d \in Clients :
             ~Failing(d)' /\ InHand(d)' = 0 /\ ~HeadHand(d)' /\ task'.c # d /\ \A A : ~On(d, A)'
    BY <1>3, <1>4, <2>2, RestIs
  <2>7. Types'
    BY <1>1, <1>3, <2>5, <2>6 DEF Types
  <2>8. /\ ~slot[m].streaming /\ ~slot[m].del /\ ~slot[m].gone /\ ~slot[m].aborted /\ ~slot[m].responded
    BY <2>4 DEF FreeSlot
  <2>9. SlotInv /\ StreamInv /\ LoopInv /\ PromiseInv
    BY DEF ServerInv, SlotsInv
  <2>10. stream.owner # m /\ (stream.owner # 0 => stream.owner \in 1 .. Slots)
         /\ (loop.s = m => loop.at \in {"scan", "release"}) /\ (loop.at = "idle" => loop.s = 0)
    <3>1. stream.owner # m
      BY <1>4, <2>1, <2>8, <2>9 DEF StreamInv
    <3>2. loop.at = "idle" => loop.s = 0
      BY <2>9 DEF LoopInv, NoLoop
    <3>3. loop.s = m => loop.at \in {"scan", "release"}
      <4>1. loop.at \in LoopAts
        BY <1>3, TypesAre DEF LoopType
      <4> QED BY <1>4, <2>1, <2>9, <3>2, <4>1 DEF LoopInv, LoopAts
    <3> QED BY <1>4, <3>1, <3>2, <3>3 DEF StreamType
  <2>11. SlotInv'
    <3>1. \A s \in 1 .. Slots : slot[s].client # c
      BY <1>5 DEF Slotted, Has
    <3>2. SlotOk(r)
      BY <1>3, <2>3 DEF SlotOk
    <3>3. \A s \in 1 .. Slots : SlotOk(slot'[s])
      BY <2>5, <2>9, <3>2 DEF SlotInv
    <3>4. \A s, t \in 1 .. Slots : s # t /\ slot'[s].client = slot'[t].client => slot'[s].client = None
      BY <2>3, <2>5, <2>9, <3>1 DEF SlotInv
    <3> QED BY <3>3, <3>4 DEF SlotInv
  <2>12. StreamInv'
    BY <1>1, <2>3, <2>5, <2>9, <2>10 DEF StreamInv, LoopOn
  <2>13. LoopInv'
    <3>1. CASE loop.s = m
      BY <1>1, <2>9, <2>10, <3>1 DEF LoopInv, Draining, Answering, Reclaiming
    <3>2. CASE loop.s # m /\ loop.at # "idle"
      <4>1. slot'[loop.s] = slot[loop.s]
        BY <2>5, <2>9, <3>2 DEF LoopInv
      <4> QED BY <1>1, <2>9, <4>1 DEF LoopInv
    <3>3. CASE loop.at = "idle"
      BY <1>1, <2>9, <3>3 DEF LoopInv, Draining, Answering, Reclaiming
    <3> QED BY <3>1, <3>2, <3>3
  <2>14. PromiseInv'
    BY <1>1, <2>3, <2>5, <2>9 DEF PromiseInv, Ahead, LoopOn
  <2>15. SlotsInv'
    BY <2>11, <2>12, <2>13, <2>14 DEF SlotsInv
  <2>16. \A d \in Clients :
           /\ Ev(d)' = Ev(d) /\ (Streams(d)' <=> Streams(d)) /\ (Gone(d)' <=> Gone(d))
           /\ (Dead(d)' <=> Dead(d)) /\ (Slotted(d)' <=> Slotted(d) \/ d = c)
    <3>1. ASSUME NEW d \in Clients
          PROVE  (Streams(d)' <=> Streams(d)) /\ (Gone(d)' <=> Gone(d)) /\ (Slotted(d)' <=> Slotted(d) \/ d = c)
      <4>1. ~Has(m, d) /\ (Has(m, d)' <=> d = c) /\ \A s \in 1 .. Slots : s # m => (Has(s, d)' <=> Has(s, d))
        BY <1>3, <2>1, <2>3, <2>5 DEF Has
      <4>2. ~slot'[m].gone /\ ~slot'[m].streaming
        BY <2>3, <2>5
      <4> QED BY <2>5, <4>1, <4>2 DEF Streams, Gone, Slotted
    <3> QED BY <1>1, <3>1 DEF Ev, Dead
  <2>17. HeadInv'
    BY <1>1, <1>3, <2>6, <2>16 DEF HeadInv, HeadOk
  <2>18. PartInv'
    <3>1. \A d \in Clients : Queued(queue', d) = Queued(queue, d)
      BY <1>1
    <3>2. \A d \in Clients : Buffered(d)' = Buffered(d)
      <4>1. stream.owner # 0 => slot'[stream.owner] = slot[stream.owner]
        BY <2>5, <2>10
      <4> QED BY <1>1, <4>1 DEF Buffered
    <3>3. \A d \in Clients : Left(d)' = Left(d)
      BY <1>5, <2>6, <3>1, <3>2 DEF Left
    <3>4. \A d \in Clients : Left(d)' <= peer'[d].sent /\ (~peer'[d].head => peer'[d].sent = 0)
      BY <1>1, <1>3, <3>3 DEF PartInv
    <3>5. ASSUME NEW s \in 1 .. Slots, slot'[s].client # None, slot'[s].streaming
          PROVE  slot'[s].acked + Left(slot[s].client)' + Dropped(s)' <= peer'[slot'[s].client].sent
      <4>1. s # m /\ slot'[s] = slot[s]
        BY <2>3, <2>5, <3>5
      <4>2. PICK d \in Clients : d = slot[s].client
        BY <1>4, <3>5, <4>1 DEF SlotType
      <4>3. Dropped(s)' = Dropped(s)
        BY <1>1, <4>1 DEF Dropped, LoopOn
      <4>4. slot[s].acked + Left(d) + Dropped(s) <= peer[d].sent
        BY <1>3, <3>5, <4>1, <4>2 DEF PartInv
      <4> QED BY <1>1, <3>3, <4>1, <4>2, <4>3, <4>4
    <3> QED BY <3>4, <3>5 DEF PartInv
  <2>19. HeardInv'
    <3>1. upload[c].events = "none" /\ upload[c].got = 0
      BY <1>3, <1>5 DEF HeardInv
    <3>2. ~LoopOn(m, {"settle"})
      BY <2>10 DEF LoopOn
    <3>3. Heard(r) = "none"
      BY <2>3 DEF Heard
    <3>4. \A d \in Clients : ~conn'[d].wired \/ On(d, {"alloc"})' => upload'[d].events = "none" /\ upload'[d].got = 0
      BY <1>1, <1>3, <2>6 DEF HeardInv
    <3>5. \A d \in Clients : upload'[d].events = "begun" => Slotted(d)'
      BY <1>1, <1>3, <2>16 DEF HeardInv
    <3>6. ASSUME NEW s \in 1 .. Slots, slot'[s].client # None
          PROVE  /\ upload'[slot'[s].client].events = Heard(slot'[s])
                 /\ upload'[slot'[s].client].got = slot'[s].acked + (IF LoopOn(s, {"settle"})' THEN loop'.n ELSE 0)
      <4>1. CASE s = m
        BY <1>1, <2>3, <2>5, <3>1, <3>2, <3>3, <4>1 DEF LoopOn
      <4>2. CASE s # m
        BY <1>1, <1>3, <2>5, <3>6, <4>2 DEF HeardInv, LoopOn
      <4> QED BY <4>1, <4>2
    <3> QED BY <3>4, <3>5, <3>6 DEF HeardInv
  <2>20. \A d \in Clients : (Alive(d)' <=> Alive(d)) /\ (Told(d)' <=> Told(d)) /\ conn'[d] = conn[d]
    BY <1>1, <2>16 DEF Alive, Told
  <2>21. CountInv'
    BY <1>1, <1>3, <2>20, CountStays
  <2>22. ClientOk(c)'
    <3>1. ~Dead(c) /\ ~conn[c].released /\ ~Gone(c)
      BY <1>3 DEF Told
    <3>2. Pending(c)'
      BY <1>3, <1>5, <2>16, <2>20 DEF Pending
    <3>3. LifeOk(c)' /\ TaskOk(c)'
      BY <1>3, <2>6, <2>16, <2>20, <3>1, <3>2 DEF ClientOk, LifeOk, TaskOk
    <3>4. EventsOk(c)' /\ HangOk(c)'
      BY <1>3, <1>5, <2>6, <2>16, <2>20 DEF ClientOk, EventsOk, HangOk
    <3> QED BY <3>3, <3>4 DEF ClientOk
  <2>23. ClientInv'
    <3>1. \A s \in 1 .. Slots :
            /\ slot[s].client \notin {c, None} => slot'[s] = slot[s]
            /\ slot[s].client \in {c, None} => slot'[s].client \in {c, None}
      BY <2>1, <2>3, <2>5
    <3> QED BY <1>1, <1>2, <2>6, <2>22, <3>1, OthersKept
  <2> QED BY <2>6, <2>7, <2>15, <2>17, <2>18, <2>19, <2>21, <2>23 DEF ServerInv
<1> QED BY <1>6, <1>7 DEF Alloc

LEMMA TaskKeeps ==
  ASSUME ServerInv, Task
  PROVE  ServerInv'
BY DispatchKeeps, AcceptKeeps, AllocKeeps, ReceiveKeeps, TakeHeadKeeps, TakePartKeeps, FlagKeeps,
   MarkDoneKeeps, CloseKeeps, LeaveKeeps DEF Task

----------------------------------------------------------------------------
(* The main loop.                                                          *)

\* A step of the loop that no client sees.
LEMMA LoopStepKeeps ==
  ASSUME ServerInv, Types', SlotsInv', PartInv', HeardInv', UNCHANGED <<conn, queue, task, inFlight>>,
         loop.at # "release", loop'.at # "release",
         \A s \in 1 .. Slots :
           /\ slot'[s].client = slot[s].client /\ slot'[s].gone = slot[s].gone
           /\ slot'[s].streaming = slot[s].streaming /\ (Hung(s) => Hung(s)')
           /\ task.at = "take" /\ task.s = s /\ slot[s].state = "receiving" => slot'[s].state = "receiving",
         \A c \in Clients : peer'[c].head = peer[c].head
  PROVE  ServerInv'
<1>1. TaskInv'
  BY DEF ServerInv, TaskInv, Has
<1>2. \A c \in Clients : /\ ~Dead(c) /\ ~Dead(c)' /\ (Gone(c)' <=> Gone(c)) /\ (Streams(c)' <=> Streams(c))
                         /\ Ev(c)' = Ev(c)
  BY DEF Dead, Gone, Streams, Has, Ev
<1>3. ClientInv'
  <2>1. ASSUME NEW c \in Clients PROVE ClientOk(c)'
    <3>1. \A s \in 1 .. Slots :
            /\ slot'[s].client = c <=> slot[s].client = c
            /\ Has(s, c) => slot'[s].gone = slot[s].gone /\ (Hung(s) => Hung(s)')
      OBVIOUS
    <3>2. Aside(c)
      BY <1>2, <3>1 DEF Aside
    <3> QED BY <3>2, Bystander DEF ServerInv, ClientInv
  <2> QED BY <2>1 DEF ClientInv, ServerInv
<1>4. HeadInv'
  BY <1>2 DEF ServerInv, HeadInv, HeadOk, HeadHand, On
<1>5. CountInv'
  <2>1. \A c \in Clients : (Alive(c)' <=> Alive(c)) /\ (Told(c)' <=> Told(c))
    BY <1>2 DEF Alive, Told
  <2> QED BY <2>1, CountStays DEF ServerInv
<1> QED BY <1>1, <1>3, <1>4, <1>5 DEF ServerInv

\* A step of the loop that only moves it.
LEMMA LoopMoveKeeps ==
  ASSUME ServerInv, UNCHANGED <<conn, peer, queue, slot, stream, upload, inFlight, task>>,
         wanted' \in BOOLEAN, loop' \in LoopType, LoopInv', PromiseInv',
         loop.at \notin {"settle", "letgo", "reset", "release"},
         loop'.at \notin {"settle", "letgo", "reset", "release", "answered"},
         loop'.at = "hangup" => loop.at = "answered" /\ loop'.s = loop.s
  PROVE  ServerInv'
<1>0. Types /\ SlotInv /\ StreamInv /\ LoopInv /\ PromiseInv /\ PartInv /\ HeardInv
  BY DEF ServerInv, SlotsInv
<1>1. Types'
  BY <1>0 DEF Types
<1>2. \A s : ~LoopOn(s, {"letgo"}) /\ ~LoopOn(s, {"reset"}) /\ ~LoopOn(s, {"settle"})
             /\ ~LoopOn(s, {"letgo"})' /\ ~LoopOn(s, {"reset"})' /\ ~LoopOn(s, {"settle"})'
  BY DEF LoopOn
<1>3. SlotsInv'
  BY <1>0, <1>2 DEF SlotsInv, SlotInv, StreamInv
<1>4. PartInv'
  <2>1. \A c : Left(c)' = Left(c)
    BY DEF Left, InHand, On, Buffered
  <2>2. \A s : Dropped(s)' = Dropped(s)
    BY <1>2 DEF Dropped
  <2>3. \A c \in Clients : Left(c)' <= peer'[c].sent /\ (~peer'[c].head => peer'[c].sent = 0)
    BY <1>0, <2>1 DEF PartInv
  <2>4. \A s \in 1 .. Slots : Left(slot[s].client)' = Left(slot[s].client)
    BY <2>1
  <2>5. \A s \in 1 .. Slots : slot'[s].client # None /\ slot'[s].streaming =>
          slot'[s].acked + Left(slot[s].client)' + Dropped(s)' <= peer'[slot'[s].client].sent
    BY <1>0, <2>2, <2>4 DEF PartInv
  <2> QED BY <2>3, <2>5 DEF PartInv
<1>5. HeardInv'
  BY <1>0, <1>2 DEF HeardInv, Heard, On, Slotted, Has
<1>6. \A s \in 1 .. Slots : Hung(s) => Hung(s)'
  BY DEF Hung, LoopOn
<1>7. loop.at # "release" /\ loop'.at # "release"
  OBVIOUS
<1>8. \A s \in 1 .. Slots :
        /\ slot'[s].client = slot[s].client /\ slot'[s].gone = slot[s].gone
        /\ slot'[s].streaming = slot[s].streaming /\ (Hung(s) => Hung(s)')
        /\ task.at = "take" /\ task.s = s /\ slot[s].state = "receiving" => slot'[s].state = "receiving"
  BY <1>6
<1> QED BY <1>1, <1>3, <1>4, <1>5, <1>7, <1>8, LoopStepKeeps

\* Where it moves to.
Nexts == {"idle", "scan", "drained", "late", "clean"}

LEMMA MovesAre ==
  ASSUME loop \in LoopType, NEW at \in LoopAts, NEW next \in Nexts
  PROVE  /\ To(at) => /\ loop' \in LoopType /\ loop'.at = at /\ loop'.s = loop.s /\ loop'.n = loop.n
                      /\ loop'.next = loop.next /\ loop'.dead = loop.dead
         /\ Via(at, next) => /\ loop' \in LoopType /\ loop'.at = at /\ loop'.s = loop.s /\ loop'.n = loop.n
                             /\ loop'.next = next /\ loop'.dead = loop.dead
BY DEF To, Via, LoopType, Nexts

LEMMA NextIs ==
  ASSUME loop.s \in 1 .. Slots, NextSlot
  PROVE  /\ loop' \in LoopType /\ LoopInv' /\ loop'.at \in {"idle", "scan"} /\ loop'.dead = None
         /\ loop.s < Slots => loop'.at = "scan" /\ loop'.s = loop.s + 1
<1>1. Slots \in Nat /\ Window \in Nat
  BY ServerAssumption
<1>2. CASE loop.s = Slots
  <2>1. loop' = NoLoop
    BY <1>2 DEF NextSlot
  <2>2. loop' \in LoopType /\ loop'.at = "idle" /\ loop'.dead = None
    BY <1>1, <2>1 DEF NoLoop, LoopType, LoopAts
  <2>3. LoopInv'
    BY <2>1, <2>2 DEF LoopInv, Draining, Answering, Reclaiming
  <2> QED BY <1>1, <1>2, <2>2, <2>3
<1>3. CASE loop.s # Slots
  <2>1. loop' = [NoLoop EXCEPT !.at = "scan", !.s = loop.s + 1] /\ loop.s + 1 \in 1 .. Slots
    BY <1>1, <1>3 DEF NextSlot
  <2>2. loop' \in LoopType /\ loop'.at = "scan" /\ loop'.s = loop.s + 1 /\ loop'.dead = None
    <3>1. NoLoop \in LoopType /\ NoLoop.dead = None
      BY <1>1 DEF NoLoop, LoopType, LoopAts
    <3>2. "scan" \in LoopAts /\ loop.s + 1 \in 0 .. Slots
      BY <1>1, <2>1 DEF LoopAts
    <3> QED BY <2>1, <3>1, <3>2 DEF LoopType
  <2>3. LoopInv'
    BY <2>1, <2>2 DEF LoopInv, Draining, Answering, Reclaiming
  <2> QED BY <2>2, <2>3
<1> QED BY <1>2, <1>3

\* Promises are kept for the slots that are still to come.
LEMMA PromiseStays ==
  ASSUME PromiseInv, loop'.s = loop.s, loop'.at # "idle", loop.at # "idle", wanted => wanted',
         \A s \in 1 .. Slots : s # loop.s /\ slot'[s].del => slot[s].del,
         NEW k \in 1 .. Slots, k = loop.s, slot'[k].del => wanted' \/ Ahead(k)'
  PROVE  PromiseInv'
<1>1. ASSUME NEW s \in 1 .. Slots, s # k, slot'[s].del PROVE wanted' \/ Ahead(s)'
  <2>1. wanted \/ Ahead(s)
    BY <1>1 DEF PromiseInv
  <2>2. Ahead(s) => loop.s < s
    BY <1>1 DEF Ahead, LoopOn
  <2> QED BY <2>1, <2>2 DEF Ahead
<1> QED BY <1>1 DEF PromiseInv

LEMMA PromiseNext ==
  ASSUME PromiseInv, NextSlot, loop.at # "idle", wanted => wanted',
         \A s \in 1 .. Slots : s # loop.s /\ slot'[s].del => slot[s].del,
         NEW k \in 1 .. Slots, k = loop.s, slot'[k].del => wanted'
  PROVE  PromiseInv'
<1>1. ASSUME NEW s \in 1 .. Slots, s # k, slot'[s].del PROVE wanted' \/ Ahead(s)'
  <2>1. wanted \/ Ahead(s)
    BY <1>1 DEF PromiseInv
  <2>2. CASE Ahead(s)
    <3>1. k < s /\ k < Slots /\ s \in Nat /\ k \in Nat
      BY <1>1, <2>2, ServerAssumption DEF Ahead, LoopOn
    <3>2. loop'.at = "scan" /\ loop'.s = k + 1
      BY <3>1, NextIs
    <3>3. k + 1 < s \/ s = k + 1
      BY <3>1
    <3> QED BY <3>2, <3>3 DEF Ahead, LoopOn
  <2> QED BY <2>1, <2>2
<1> QED BY <1>1 DEF PromiseInv

LEMMA TickStartsKeeps ==
  ASSUME ServerInv, TickStarts
  PROVE  ServerInv'
<1>1. /\ loop.at = "idle" /\ wanted' = FALSE /\ loop' = [NoLoop EXCEPT !.at = "scan", !.s = 1]
      /\ UNCHANGED <<conn, peer, queue, slot, stream, upload, inFlight, task>>
  BY DEF TickStarts, LoopAt, loopKeeps
<1>2. Slots \in Nat \ {0} /\ Window \in Nat
  BY ServerAssumption
<1>3. loop'.at = "scan" /\ loop'.s = 1 /\ loop' \in LoopType
  <2>1. NoLoop \in LoopType /\ "scan" \in LoopAts /\ 1 \in 0 .. Slots
    BY <1>2 DEF NoLoop, LoopType, LoopAts
  <2> QED BY <1>1, <2>1 DEF LoopType
<1>4. LoopInv'
  BY <1>2, <1>3 DEF LoopInv, Draining, Answering, Reclaiming
<1>5. PromiseInv'
  <2>1. \A s \in 1 .. Slots : s = 1 \/ 1 < s
    BY <1>2
  <2> QED BY <1>3, <2>1 DEF PromiseInv, Ahead, LoopOn
<1> QED BY <1>1, <1>3, <1>4, <1>5, LoopMoveKeeps

\* The slot the loop is at.
LEMMA LoopSlot ==
  ASSUME ServerInv, loop.at # "idle"
  PROVE  \E k \in 1 .. Slots :
           /\ k = loop.s /\ slot[k] \in SlotType /\ SlotOk(slot[k])
           /\ loop \in LoopType /\ wanted \in BOOLEAN /\ None \notin Clients
           /\ Types /\ SlotInv /\ StreamInv /\ LoopInv /\ PromiseInv /\ PartInv /\ HeardInv
           /\ slot \in [1 .. Slots -> SlotType] /\ stream \in StreamType /\ queue \in Seq(EventType)
           /\ upload \in [Clients -> UploadType] /\ peer \in [Clients -> PeerType]
<1>1. Types /\ SlotInv /\ StreamInv /\ LoopInv /\ PromiseInv /\ PartInv /\ HeardInv
  BY DEF ServerInv, SlotsInv
<1>2. loop.s \in 1 .. Slots
  BY <1>1 DEF LoopInv
<1> QED BY <1>1, <1>2, TypesAre DEF SlotInv, Types

LEMMA ScanKeeps ==
  ASSUME ServerInv, Scan
  PROVE  ServerInv'
<1>1. /\ loop.at = "scan" /\ UNCHANGED <<conn, peer, queue, slot, stream, wanted, upload, inFlight, task>>
  BY DEF Scan, LoopAt, loopKeeps
<1>2. PICK k \in 1 .. Slots :
        /\ k = loop.s /\ slot[k] \in SlotType /\ SlotOk(slot[k]) /\ loop \in LoopType /\ wanted \in BOOLEAN
        /\ LoopInv /\ PromiseInv
  BY <1>1, LoopSlot
<1> DEFINE r == slot[k]
<1>3. \/ r.del /\ r.streaming /\ Via("drain", "late")
      \/ r.del /\ To("late")
      \/ ~r.del /\ r.state = "receiving" /\ r.streaming /\ Via("drain", "drained")
      \/ ~r.del /\ r.state = "ready" /\ Via("respond", "scan")
      \/ ~r.del /\ NextSlot
  BY <1>2 DEF Scan, Cur, Open
<1>4. r.client = None => ~r.del /\ r.state = "idle"
  BY <1>2 DEF SlotOk, FreeSlot
<1>5. {"drain", "late", "respond", "drained", "scan"} \subseteq LoopAts
      /\ {"late", "drained", "scan"} \subseteq Nexts
  BY DEF LoopAts, Draining, Answering, Reclaiming, Nexts
<1>6. CASE r.del /\ r.streaming /\ Via("drain", "late")
  <2>1. loop' \in LoopType /\ loop'.at = "drain" /\ loop'.next = "late" /\ loop'.s = k
    BY <1>2, <1>5, <1>6, MovesAre
  <2>2. LoopInv'
    BY <1>1, <1>4, <1>6, <2>1 DEF LoopInv, Draining, Answering, Reclaiming
  <2>3. PromiseInv'
    <3>1. Ahead(k)'
      BY <2>1 DEF Ahead, LoopOn, Draining
    <3> QED BY <1>1, <1>2, <2>1, <3>1, PromiseStays
  <2> QED BY <1>1, <1>2, <2>1, <2>2, <2>3, LoopMoveKeeps
<1>7. CASE r.del /\ To("late")
  <2>1. loop' \in LoopType /\ loop'.at = "late" /\ loop'.s = k
    BY <1>2, <1>5, <1>7, MovesAre DEF Nexts
  <2>2. LoopInv'
    BY <1>1, <1>4, <1>7, <2>1 DEF LoopInv, Draining, Answering, Reclaiming
  <2>3. PromiseInv'
    <3>1. Ahead(k)'
      BY <2>1 DEF Ahead, LoopOn, Reclaiming
    <3> QED BY <1>1, <1>2, <2>1, <3>1, PromiseStays
  <2> QED BY <1>1, <1>2, <2>1, <2>2, <2>3, LoopMoveKeeps
<1>8. CASE ~r.del /\ r.state = "receiving" /\ r.streaming /\ Via("drain", "drained")
  <2>1. loop' \in LoopType /\ loop'.at = "drain" /\ loop'.next = "drained" /\ loop'.s = k
    BY <1>2, <1>5, <1>8, MovesAre
  <2>2. LoopInv'
    BY <1>1, <1>4, <1>8, <2>1 DEF LoopInv, Draining, Answering, Reclaiming
  <2>3. PromiseInv'
    BY <1>1, <1>2, <1>8, <2>1, PromiseStays
  <2> QED BY <1>1, <1>2, <2>1, <2>2, <2>3, LoopMoveKeeps
<1>9. CASE ~r.del /\ r.state = "ready" /\ Via("respond", "scan")
  <2>1. loop' \in LoopType /\ loop'.at = "respond" /\ loop'.next = "scan" /\ loop'.s = k
    BY <1>2, <1>5, <1>9, MovesAre
  <2>2. r.buf /\ ~r.responded /\ (r.streaming => r.ended)
    BY <1>2, <1>9 DEF SlotOk
  <2>3. LoopInv'
    BY <1>1, <1>4, <1>9, <2>1, <2>2 DEF LoopInv, Draining, Answering, Reclaiming
  <2>4. PromiseInv'
    BY <1>1, <1>2, <1>9, <2>1, PromiseStays
  <2> QED BY <1>1, <1>2, <2>1, <2>3, <2>4, LoopMoveKeeps
<1>10. CASE ~r.del /\ NextSlot
  <2>1. loop' \in LoopType /\ LoopInv' /\ loop'.at \in {"idle", "scan"}
    BY <1>2, <1>10, NextIs
  <2>2. PromiseInv'
    BY <1>1, <1>2, <1>10, PromiseNext
  <2> QED BY <1>1, <1>2, <2>1, <2>2, LoopMoveKeeps
<1> QED BY <1>3, <1>6, <1>7, <1>8, <1>9, <1>10

LEMMA DrainedKeeps ==
  ASSUME ServerInv, Drained
  PROVE  ServerInv'
<1>1. /\ loop.at = "drained" /\ UNCHANGED <<conn, peer, queue, slot, stream, wanted, upload, inFlight, task>>
  BY DEF Drained, LoopAt, loopKeeps
<1>2. PICK k \in 1 .. Slots :
        /\ k = loop.s /\ slot[k] \in SlotType /\ SlotOk(slot[k]) /\ loop \in LoopType /\ wanted \in BOOLEAN
        /\ LoopInv /\ PromiseInv
  BY <1>1, LoopSlot
<1> DEFINE r == slot[k]
<1>3. r.del => wanted
  <2>1. ~Ahead(k)
    BY <1>1, <1>2 DEF Ahead, LoopOn, Draining, Answering, Reclaiming
  <2> QED BY <1>2, <2>1 DEF PromiseInv
<1>4. CASE r.state = "ready" /\ Via("respond", "scan")
  <2>1. loop' \in LoopType /\ loop'.at = "respond" /\ loop'.next = "scan" /\ loop'.s = k
    BY <1>2, <1>4, MovesAre DEF LoopAts, Answering, Nexts
  <2>2. r.buf /\ ~r.responded /\ (r.streaming => r.ended) /\ r.client # None
    BY <1>1, <1>2, <1>4 DEF SlotOk, LoopInv
  <2>3. LoopInv'
    BY <1>1, <1>4, <2>1, <2>2 DEF LoopInv, Draining, Answering, Reclaiming
  <2>4. PromiseInv'
    BY <1>1, <1>2, <1>3, <2>1, PromiseStays
  <2> QED BY <1>1, <1>2, <2>1, <2>3, <2>4, LoopMoveKeeps
<1>5. CASE NextSlot
  <2>1. loop' \in LoopType /\ LoopInv' /\ loop'.at \in {"idle", "scan"}
    BY <1>2, <1>5, NextIs
  <2>2. PromiseInv'
    BY <1>1, <1>2, <1>3, <1>5, PromiseNext
  <2> QED BY <1>1, <1>2, <2>1, <2>2, LoopMoveKeeps
<1> QED BY <1>2, <1>4, <1>5 DEF Drained, Cur

LEMMA AnsweredKeeps ==
  ASSUME ServerInv, Answered
  PROVE  ServerInv'
<1>1. /\ loop.at = "answered" /\ UNCHANGED <<conn, peer, queue, slot, stream, wanted, upload, inFlight, task>>
      /\ To("hangup") \/ To("mark")
  BY DEF Answered, LoopAt, loopKeeps
<1>2. PICK k \in 1 .. Slots :
        /\ k = loop.s /\ slot[k] \in SlotType /\ loop \in LoopType /\ wanted \in BOOLEAN
        /\ LoopInv /\ PromiseInv
  BY <1>1, LoopSlot
<1>3. /\ loop' \in LoopType /\ loop'.at \in {"hangup", "mark"} /\ loop'.s = k /\ loop'.next = loop.next
  BY <1>1, <1>2, MovesAre DEF LoopAts, Answering, Nexts
<1>4. LoopInv'
  <2>1. LET r == slot[k] IN
        /\ r.client # None /\ r.state # "receiving" /\ loop.next \in {"scan", "clean"}
        /\ loop.next = "clean" => r.del
        /\ r.streaming => r.ended
        /\ r.responded /\ r.state # "ready"
    BY <1>1, <1>2 DEF LoopInv, Answering
  <2> QED BY <1>1, <1>2, <1>3, <2>1 DEF LoopInv, Draining, Answering, Reclaiming
<1>5. PromiseInv'
  <2>1. Ahead(k) => Ahead(k)'
    BY <1>1, <1>2, <1>3 DEF Ahead, LoopOn, Answering, Draining, Reclaiming
  <2>2. slot'[k].del => wanted' \/ Ahead(k)'
    BY <1>1, <1>2, <2>1 DEF PromiseInv
  <2> QED BY <1>1, <1>2, <1>3, <2>2, PromiseStays
<1> QED BY <1>1, <1>2, <1>3, <1>4, <1>5, LoopMoveKeeps

LEMMA LateKeeps ==
  ASSUME ServerInv, Late
  PROVE  ServerInv'
<1>1. /\ loop.at = "late" /\ UNCHANGED <<conn, peer, queue, slot, stream, wanted, upload, inFlight, task>>
  BY DEF Late, LoopAt, loopKeeps
<1>2. PICK k \in 1 .. Slots :
        /\ k = loop.s /\ slot[k] \in SlotType /\ SlotOk(slot[k]) /\ loop \in LoopType /\ wanted \in BOOLEAN
        /\ LoopInv /\ PromiseInv
  BY <1>1, LoopSlot
<1> DEFINE r == slot[k]
<1>3. r.client # None /\ r.del
  BY <1>1, <1>2 DEF LoopInv, Reclaiming
<1>4. CASE r.ended /\ ~r.responded /\ Via("respond", "clean")
  <2>1. loop' \in LoopType /\ loop'.at = "respond" /\ loop'.next = "clean" /\ loop'.s = k
    BY <1>2, <1>4, MovesAre DEF LoopAts, Answering, Nexts
  <2>2. r.buf /\ r.state # "receiving"
    BY <1>2, <1>4 DEF SlotOk
  <2>3. LoopInv'
    BY <1>1, <1>3, <1>4, <2>1, <2>2 DEF LoopInv, Draining, Answering, Reclaiming
  <2>4. PromiseInv'
    <3>1. Ahead(k)'
      BY <2>1 DEF Ahead, LoopOn, Answering
    <3> QED BY <1>1, <1>2, <2>1, <3>1, PromiseStays
  <2> QED BY <1>1, <1>2, <2>1, <2>3, <2>4, LoopMoveKeeps
<1>5. CASE ~(r.ended /\ ~r.responded) /\ To("clean")
  <2>1. loop' \in LoopType /\ loop'.at = "clean" /\ loop'.s = k
    BY <1>2, <1>5, MovesAre DEF LoopAts, Reclaiming, Nexts
  <2>2. LoopInv'
    BY <1>1, <1>3, <1>5, <2>1 DEF LoopInv, Draining, Answering, Reclaiming
  <2>3. PromiseInv'
    <3>1. Ahead(k)'
      BY <2>1 DEF Ahead, LoopOn, Reclaiming
    <3> QED BY <1>1, <1>2, <2>1, <3>1, PromiseStays
  <2> QED BY <1>1, <1>2, <2>1, <2>2, <2>3, LoopMoveKeeps
<1> QED BY <1>2, <1>4, <1>5 DEF Late, Cur

\* What the loop tells the handler, and where it goes back to.
LEMMA SaysIs ==
  ASSUME upload \in [Clients -> UploadType], NEW c \in Clients, NEW n,
         NEW ev \in {"none", "begun", "ended", "aborted"}, upload[c].got + n \in 0 .. Parts, Says(c, ev, n)
  PROVE  /\ upload' \in [Clients -> UploadType]
         /\ upload'[c].events = ev /\ upload'[c].got = upload[c].got + n
         /\ \A d \in Clients : d # c => upload'[d] = upload[d]
<1> DEFINE r == [[upload[c] EXCEPT !.events = ev] EXCEPT !.got = upload[c].got + n]
<1>1. r \in UploadType /\ r.events = ev /\ r.got = upload[c].got + n
  <2>1. upload[c] \in UploadType
    OBVIOUS
  <2> QED BY <2>1 DEF UploadType
<1>2. upload' = [upload EXCEPT ![c] = r]
  BY DEF Says
<1> HIDE DEF r
<1> QED BY <1>1, <1>2

LEMMA BackIs ==
  ASSUME loop \in LoopType, loop.next \in {"drained", "late", "clean"}, Returns
  PROVE  /\ loop' \in LoopType /\ loop'.at = loop.next /\ loop'.s = loop.s /\ loop'.n = loop.n
         /\ loop'.next = loop.next /\ loop'.dead = loop.dead
<1>1. To(loop.next) /\ loop.next \in LoopAts
  BY DEF Returns, LoopAts, Reclaiming
<1> QED BY <1>1, MovesAre DEF Nexts

LEMMA PromiseBack ==
  ASSUME PromiseInv, loop.at \in Draining, loop'.at = loop.next, loop.next \in {"drained", "late"},
         loop'.s = loop.s, wanted' = wanted, \A s \in 1 .. Slots : slot'[s].del = slot[s].del,
         NEW k \in 1 .. Slots, k = loop.s
  PROVE  PromiseInv'
<1>1. Ahead(k) => Ahead(k)'
  BY DEF Ahead, LoopOn, Draining, Answering, Reclaiming
<1>2. slot'[k].del => wanted' \/ Ahead(k)'
  BY <1>1 DEF PromiseInv
<1>3. loop.at # "idle" /\ loop'.at # "idle"
  BY DEF Draining
<1> QED BY <1>2, <1>3, PromiseStays

\* The client of the loop's slot is the only one that hears of it.
LEMMA HeardStep ==
  ASSUME ServerInv, NEW k \in 1 .. Slots, NEW c \in Clients, slot[k].client = c, UNCHANGED <<conn, task>>,
         \A s \in 1 .. Slots : slot'[s].client = slot[s].client /\ (s # k => slot'[s] = slot[s]),
         loop.s = k, loop'.at = "settle" => loop'.s = k,
         \A d \in Clients : d # c => upload'[d] = upload[d],
         upload'[c].events = Heard(slot'[k]),
         upload'[c].got = slot'[k].acked + (IF LoopOn(k, {"settle"})' THEN loop'.n ELSE 0)
  PROVE  HeardInv'
<1>1. HeardInv /\ SlotInv /\ ClientOk(c) /\ None \notin Clients
  BY TypesAre DEF ServerInv, SlotsInv, ClientInv
<1>2. conn[c].wired /\ ~On(c, {"alloc"}) /\ Slotted(c)'
  <2>1. Slotted(c)
    BY DEF Slotted, Has
  <2>2. Slotted(c)'
    BY DEF Slotted, Has
  <2> QED BY <1>1, <2>1, <2>2 DEF ClientOk, LifeOk, TaskOk
<1>3. \A d \in Clients : ~conn'[d].wired \/ On(d, {"alloc"})' => upload'[d].events = "none" /\ upload'[d].got = 0
  BY <1>1, <1>2 DEF HeardInv, On
<1>4. \A d \in Clients : upload'[d].events = "begun" => Slotted(d)'
  <2>1. \A d \in Clients : Slotted(d)' <=> Slotted(d)
    BY DEF Slotted, Has
  <2> QED BY <1>1, <1>2, <2>1 DEF HeardInv
<1>5. ASSUME NEW s \in 1 .. Slots, slot'[s].client # None
      PROVE  /\ upload'[slot'[s].client].events = Heard(slot'[s])
             /\ upload'[slot'[s].client].got = slot'[s].acked + (IF LoopOn(s, {"settle"})' THEN loop'.n ELSE 0)
  <2>1. CASE s = k
    BY <2>1
  <2>2. CASE s # k
    <3>1. slot[s].client # c /\ slot[s].client # None /\ slot'[s] = slot[s]
      BY <1>1, <1>5, <2>2 DEF SlotInv
    <3>2. ~LoopOn(s, {"settle"}) /\ ~LoopOn(s, {"settle"})'
      BY <2>2 DEF LoopOn
    <3>3. slot[s].client \in Clients
      BY <3>1, TypesAre DEF ServerInv, SlotType
    <3> QED BY <1>1, <3>1, <3>2, <3>3 DEF HeardInv
  <2> QED BY <2>1, <2>2
<1> QED BY <1>3, <1>4, <1>5 DEF HeardInv

\* What is buffered is acked or dropped, and no more.
LEMMA PartsDrain ==
  ASSUME ServerInv, Types', UNCHANGED <<queue, task>>,
         \A c \in Clients : /\ Buffered(c)' <= Buffered(c)
                            /\ peer'[c].sent = peer[c].sent /\ peer'[c].head = peer[c].head,
         \A s \in 1 .. Slots :
           /\ slot'[s].client = slot[s].client /\ slot'[s].streaming = slot[s].streaming
           /\ slot[s].client # None /\ slot[s].streaming =>
                slot'[s].acked + Buffered(slot[s].client)' + Dropped(s)'
                  <= slot[s].acked + Buffered(slot[s].client) + Dropped(s)
  PROVE  PartInv'
<1>1. Types /\ PartInv
  BY DEF ServerInv
<1>2. ASSUME NEW c \in Clients
      PROVE  /\ Left(c) = Queued(queue, c) + InHand(c) + Buffered(c)
             /\ Left(c)' = Queued(queue, c) + InHand(c) + Buffered(c)'
             /\ Queued(queue, c) \in Nat /\ InHand(c) \in Nat /\ Buffered(c) \in Nat /\ Buffered(c)' \in Nat
             /\ peer[c].sent \in Nat
  <2>1. Queued(queue, c) \in Nat /\ peer[c].sent \in Nat
    BY <1>1, Counting, TypesAre DEF Types, PeerType
  <2>2. InHand(c) \in Nat /\ InHand(c)' = InHand(c)
    BY DEF InHand, On
  <2>3. Buffered(c) \in Nat /\ Buffered(c)' \in Nat
    BY <1>1 DEF Buffered, Types, StreamType
  <2> QED BY <2>1, <2>2, <2>3 DEF Left
<1>3. \A c \in Clients : Left(c)' <= peer'[c].sent /\ (~peer'[c].head => peer'[c].sent = 0)
  <2> SUFFICES ASSUME NEW c \in Clients
               PROVE  Left(c)' <= peer'[c].sent /\ (~peer'[c].head => peer'[c].sent = 0)
    OBVIOUS
  <2>1. Left(c) <= peer[c].sent /\ (~peer[c].head => peer[c].sent = 0)
    BY <1>1 DEF PartInv
  <2>2. Buffered(c)' <= Buffered(c) /\ peer'[c].sent = peer[c].sent /\ peer'[c].head = peer[c].head
    OBVIOUS
  <2> QED BY <1>2, <2>1, <2>2
<1>4. ASSUME NEW s \in 1 .. Slots, slot'[s].client # None, slot'[s].streaming
      PROVE  slot'[s].acked + Left(slot[s].client)' + Dropped(s)' <= peer'[slot'[s].client].sent
  <2>1. slot'[s].client = slot[s].client /\ slot[s].client # None /\ slot[s].streaming
    BY <1>4
  <2>2. PICK c \in Clients : c = slot[s].client
    BY <1>1, <2>1, TypesAre DEF SlotType
  <2>3. slot[s].acked \in Nat /\ slot'[s].acked \in Nat
    BY <1>1 DEF Types, SlotType
  <2>4. slot[s].acked + Left(c) + Dropped(s) <= peer[c].sent
    BY <1>1, <2>1, <2>2 DEF PartInv
  <2>5. slot'[s].acked + Buffered(c)' + Dropped(s)' <= slot[s].acked + Buffered(c) + Dropped(s)
    <3>1. Buffered(slot[s].client)' = Buffered(c)'
      BY <2>1, <2>2
    <3> QED BY <2>1, <2>2, <3>1
  <2>6. Dropped(s) \in Nat /\ Dropped(s)' \in Nat
    BY DEF Dropped
  <2>7. Left(slot[s].client)' = Left(c)' /\ peer'[slot'[s].client].sent = peer[c].sent
    BY <2>1, <2>2
  <2> QED BY <1>2, <2>3, <2>4, <2>5, <2>6, <2>7
<1> QED BY <1>3, <1>4 DEF PartInv

\* What the buffer holds came, and is the upload's of the slot.
LEMMA BufferCame ==
  ASSUME ServerInv, NEW k \in 1 .. Slots, NEW c \in Clients, slot[k].client = c, slot[k].streaming
  PROVE  /\ slot[k].acked + Queued(queue, c) + InHand(c) + Buffered(c) + Dropped(k) <= Parts
         /\ stream.owner = k => Buffered(c) = stream.len
         /\ slot[k].acked \in Nat /\ Queued(queue, c) \in Nat /\ InHand(c) \in Nat /\ Buffered(c) \in Nat
         /\ Dropped(k) \in Nat /\ stream.len \in 0 .. Window /\ Parts \in Nat /\ Window \in Nat
         /\ \A d \in Clients : d # c /\ stream.owner = k => Buffered(d) = 0
<1>1. Types /\ PartInv
  BY DEF ServerInv
<1>2. /\ slot[k] \in SlotType /\ peer[c] \in PeerType /\ stream \in StreamType /\ queue \in Seq(EventType)
      /\ Parts \in Nat /\ Window \in Nat /\ None \notin Clients
  BY <1>1, TypesAre
<1>3. slot[k].acked + Left(c) + Dropped(k) <= peer[c].sent
  BY <1>1, <1>2 DEF PartInv
<1>4. /\ slot[k].acked \in Nat /\ Queued(queue, c) \in Nat /\ InHand(c) \in Nat /\ Buffered(c) \in Nat
      /\ Dropped(k) \in Nat /\ peer[c].sent \in Nat /\ peer[c].sent <= Parts /\ stream.len \in 0 .. Window
  BY <1>2, Counting DEF InHand, Buffered, Dropped, SlotType, PeerType, StreamType
<1>5. slot[k].acked + Queued(queue, c) + InHand(c) + Buffered(c) + Dropped(k) <= Parts
  <2>1. slot[k].acked + (Queued(queue, c) + InHand(c) + Buffered(c)) + Dropped(k) <= peer[c].sent
    BY <1>3 DEF Left
  <2>2. \A a, q, h, b, d, t, p \in Nat : a + (q + h + b) + d <= t /\ t <= p => a + q + h + b + d <= p
    OBVIOUS
  <2>3. peer[c].sent \in Nat /\ peer[c].sent <= Parts /\ Parts \in Nat
    BY <1>2, <1>4
  <2>4. slot[k].acked \in Nat /\ Queued(queue, c) \in Nat /\ InHand(c) \in Nat /\ Buffered(c) \in Nat /\ Dropped(k) \in Nat
    BY <1>4
  <2> QED BY <2>1, <2>2, <2>3, <2>4
<1>6. stream.owner = k => Buffered(c) = stream.len
  BY ServerAssumption DEF Buffered
<1>7. \A d \in Clients : d # c /\ stream.owner = k => Buffered(d) = 0
  BY DEF Buffered
<1> QED BY <1>2, <1>4, <1>5, <1>6, <1>7

\* One slot changes.
LEMMA TouchIs ==
  ASSUME slot \in [1 .. Slots -> SlotType], NEW k \in 1 .. Slots, NEW r \in SlotType,
         slot' = [slot EXCEPT ![k] = r]
  PROVE  /\ slot' \in [1 .. Slots -> SlotType] /\ slot'[k] = r
         /\ \A s \in 1 .. Slots : s # k => slot'[s] = slot[s]
OBVIOUS

LEMMA TouchKeeps ==
  ASSUME SlotInv, NEW k \in 1 .. Slots, \A s \in 1 .. Slots : s # k => slot'[s] = slot[s],
         slot'[k].client = slot[k].client, SlotOk(slot'[k])
  PROVE  SlotInv'
<1>1. \A s \in 1 .. Slots : SlotOk(slot'[s])
  BY DEF SlotInv
<1>2. \A s \in 1 .. Slots : slot'[s].client = slot[s].client
  OBVIOUS
<1> QED BY <1>1, <1>2 DEF SlotInv

\* Inside of drainStream() the promise stands.
LEMMA PromiseDrains ==
  ASSUME PromiseInv, loop.at \in Draining, loop'.at \in Draining, loop'.next = loop.next,
         loop'.s = loop.s, wanted' = wanted, \A s \in 1 .. Slots : slot'[s].del = slot[s].del,
         NEW k \in 1 .. Slots, k = loop.s
  PROVE  PromiseInv'
<1>1. Ahead(k) => Ahead(k)'
  BY DEF Ahead, LoopOn, Draining, Answering, Reclaiming
<1>2. slot'[k].del => wanted' \/ Ahead(k)'
  BY <1>1 DEF PromiseInv
<1>3. loop.at # "idle" /\ loop'.at # "idle"
  BY DEF Draining
<1> QED BY <1>2, <1>3, PromiseStays

\* The slot, its client and its stream as drainStream() finds them.
LEMMA DrainSlot ==
  ASSUME ServerInv, loop.at \in Draining
  PROVE  \E k \in 1 .. Slots, c \in Clients :
           /\ k = loop.s /\ c = slot[k].client /\ slot[k].streaming
           /\ loop.next \in {"drained", "late"} /\ (loop.next = "late" => slot[k].del)
           /\ \A s \in 1 .. Slots : ~slot[s].aborted /\ ~LoopOn(s, {"answered", "hangup", "reset"})
           /\ loop.at # "letgo" /\ stream.owner # 0 => ~slot[stream.owner].ended
<1>0. loop.at \notin {"idle", "answered", "hangup", "reset"}
  BY DEF Draining
<1>1. PICK k \in 1 .. Slots :
        k = loop.s /\ slot[k] \in SlotType /\ StreamInv /\ LoopInv /\ stream \in StreamType
  BY <1>0, LoopSlot
<1>2. /\ slot[k].client \in Clients /\ slot[k].streaming
      /\ loop.next \in {"drained", "late"} /\ (loop.next = "late" => slot[k].del)
  BY <1>1 DEF LoopInv, SlotType
<1>3. \A s \in 1 .. Slots : ~slot[s].aborted /\ ~LoopOn(s, {"answered", "hangup", "reset"})
  BY <1>0, <1>1 DEF StreamInv, LoopOn
<1>4. loop.at # "letgo" /\ stream.owner # 0 => ~slot[stream.owner].ended
  BY <1>1 DEF StreamInv, LoopOn
<1> QED BY <1>1, <1>2, <1>3, <1>4

LEMMA DrainKeeps ==
  ASSUME ServerInv, Drain
  PROVE  ServerInv'
<1>1. loop.at = "drain" /\ UNCHANGED <<conn, peer, queue, stream, wanted, inFlight, task>>
  BY DEF Drain, LoopAt, loopKeeps
<1>2. PICK k \in 1 .. Slots, c \in Clients :
        /\ k = loop.s /\ c = slot[k].client /\ slot[k].streaming
        /\ loop.next \in {"drained", "late"} /\ (loop.next = "late" => slot[k].del)
        /\ \A s \in 1 .. Slots : ~slot[s].aborted /\ ~LoopOn(s, {"answered", "hangup", "reset"})
        /\ loop.at # "letgo" /\ stream.owner # 0 => ~slot[stream.owner].ended
  BY <1>1, DrainSlot DEF Draining
<1>3. /\ slot[k] \in SlotType /\ SlotOk(slot[k]) /\ loop \in LoopType /\ wanted \in BOOLEAN /\ None \notin Clients
      /\ Types /\ SlotInv /\ StreamInv /\ LoopInv /\ PromiseInv /\ HeardInv
      /\ slot \in [1 .. Slots -> SlotType] /\ stream \in StreamType
      /\ upload \in [Clients -> UploadType]
  BY <1>1, <1>2, LoopSlot
<1> DEFINE r == slot[k]
<1>4. CASE stream.owner = k /\ ~r.ended
  <2> DEFINE q == [r EXCEPT !.begun = TRUE]
  <2>1. /\ loop' = [loop EXCEPT !.at = "deliver", !.n = stream.len] /\ slot' = [slot EXCEPT ![k] = q]
        /\ IF r.begun THEN UNCHANGED upload ELSE Says(c, "begun", 0)
    BY <1>2, <1>4 DEF Drain, Cur
  <2>2. /\ q \in SlotType /\ q.client = c /\ q.begun /\ q.streaming /\ ~q.ended /\ ~q.aborted /\ q.state = r.state
        /\ q.del = r.del /\ q.gone = r.gone /\ q.buf = r.buf /\ q.acked = r.acked /\ q.responded = r.responded
        /\ q.streaming = r.streaming /\ q.ended = r.ended /\ q.aborted = r.aborted
    BY <1>2, <1>3, <1>4 DEF SlotType
  <2> HIDE DEF q
  <2>3. slot' \in [1 .. Slots -> SlotType] /\ slot'[k] = q /\ \A s \in 1 .. Slots : s # k => slot'[s] = slot[s]
    BY <1>3, <2>1, <2>2, TouchIs
  <2>4. loop' \in LoopType /\ loop'.at = "deliver" /\ loop'.s = k /\ loop'.n = stream.len /\ loop'.next = loop.next
    <3>1. "deliver" \in LoopAts /\ stream.len \in 0 .. Window
      BY <1>3 DEF LoopAts, Draining, StreamType
    <3> QED BY <1>2, <1>3, <2>1, <3>1 DEF LoopType
  <2>5. \A s \in 1 .. Slots :
          /\ slot'[s].client = slot[s].client /\ slot'[s].streaming = slot[s].streaming
          /\ slot'[s].ended = slot[s].ended /\ slot'[s].aborted = slot[s].aborted /\ slot'[s].del = slot[s].del
          /\ slot'[s].gone = slot[s].gone /\ slot'[s].state = slot[s].state /\ slot'[s].acked = slot[s].acked
          /\ slot'[s].responded = slot[s].responded /\ slot'[s].buf = slot[s].buf
    <3>1. q.client = r.client
      BY <1>2, <2>2
    <3> HIDE DEF r
    <3> QED BY <2>2, <2>3, <3>1, Zenon DEF r
  <2>6. SlotInv'
    <3>1. SlotOk(q)
      BY <1>2, <1>3, <1>4, <2>2 DEF SlotOk
    <3> QED BY <1>3, <2>3, <2>5, <3>1, TouchKeeps
  <2>7. StreamInv'
    <3>1. stream.owner # 0 => stream.owner \in 1 .. Slots
      BY <1>3 DEF StreamType
    <3>2. stream'.owner # 0 => /\ slot'[stream'.owner].client # None /\ slot'[stream'.owner].streaming
                               /\ ~slot'[stream'.owner].ended
      BY <1>1, <1>2, <1>3, <2>5, <3>1 DEF StreamInv
    <3>3. \A s \in 1 .. Slots : slot'[s].streaming /\ ~slot'[s].ended => stream'.owner = s
      BY <1>1, <1>2, <1>3, <2>5 DEF StreamInv, LoopOn
    <3> QED BY <1>2, <2>5, <3>2, <3>3 DEF StreamInv
  <2>8. LoopInv'
    <3>1. stream.len \in Nat
      BY <1>3 DEF StreamType
    <3> QED BY <1>1, <1>2, <1>3, <1>4, <2>2, <2>3, <2>4, <3>1 DEF LoopInv, Draining, Answering, Reclaiming
  <2>9. PromiseInv'
    BY <1>1, <1>2, <1>3, <2>4, <2>5, PromiseDrains DEF Draining
  <2>10. upload' \in [Clients -> UploadType] /\ upload'[c].events = "begun" /\ upload'[c].got = r.acked
         /\ \A d \in Clients : d # c => upload'[d] = upload[d]
    <3>1. upload[c].events = Heard(r) /\ upload[c].got = r.acked
      BY <1>1, <1>2, <1>3 DEF HeardInv, LoopOn, SlotType
    <3>2. CASE r.begun
      BY <1>2, <1>3, <1>4, <2>1, <3>1, <3>2 DEF Heard
    <3>3. CASE ~r.begun
      <4>1. upload[c].got + 0 = upload[c].got /\ upload[c].got + 0 \in 0 .. Parts
        BY <1>3, ServerAssumption DEF UploadType
      <4>2. Says(c, "begun", 0)
        BY <2>1, <3>3
      <4> QED BY <1>3, <3>1, <4>1, <4>2, SaysIs
    <3> QED BY <3>2, <3>3
  <2>11. HeardInv'
    <3>1. Heard(slot'[k]) = "begun"
      BY <2>2, <2>3 DEF Heard
    <3>2. upload'[c].got = slot'[k].acked + (IF LoopOn(k, {"settle"})' THEN loop'.n ELSE 0)
      BY <1>3, <2>2, <2>3, <2>4, <2>10 DEF LoopOn, SlotType
    <3>3. \A s \in 1 .. Slots : slot'[s].client = slot[s].client /\ (s # k => slot'[s] = slot[s])
      BY <2>3, <2>5
    <3> QED BY <1>1, <1>2, <2>4, <2>10, <3>1, <3>2, <3>3, HeardStep
  <2>12. Types'
    BY <1>1, <1>3, <2>3, <2>4, <2>10 DEF Types
  <2>13. PartInv'
    <3>1. \A d \in Clients : Buffered(d)' = Buffered(d) /\ Buffered(d) \in Nat
      <4>1. stream.owner # 0 => slot'[stream.owner].client = slot[stream.owner].client
        BY <1>3, <2>5 DEF StreamType
      <4> QED BY <1>1, <1>3, <4>1 DEF Buffered, StreamType
    <3>2. \A s \in 1 .. Slots : Dropped(s)' = Dropped(s) /\ Dropped(s) \in Nat /\ slot[s].acked \in Nat
      BY <1>1, <1>3, <2>4, <2>5 DEF Dropped, LoopOn, SlotType
    <3>3. \A d \in Clients : Buffered(d)' <= Buffered(d) /\ peer'[d].sent = peer[d].sent /\ peer'[d].head = peer[d].head
      BY <1>1, <3>1
    <3>4. ASSUME NEW s \in 1 .. Slots, slot[s].client # None
          PROVE  slot'[s].acked + Buffered(slot[s].client)' + Dropped(s)'
                   <= slot[s].acked + Buffered(slot[s].client) + Dropped(s)
      <4>1. PICK d \in Clients : d = slot[s].client
        BY <1>3, <3>4 DEF SlotType
      <4>2. Buffered(slot[s].client)' = Buffered(d)'
        BY <2>5, <4>1
      <4> QED BY <2>5, <3>1, <3>2, <4>1, <4>2
    <3> QED BY <1>1, <2>5, <2>12, <3>3, <3>4, PartsDrain
  <2>14. \A s \in 1 .. Slots : Hung(s) => Hung(s)'
    BY <2>4, <2>5 DEF Hung, LoopOn
  <2>15. SlotsInv'
    BY <2>6, <2>7, <2>8, <2>9 DEF SlotsInv
  <2> QED BY <1>1, <2>4, <2>5, <2>11, <2>12, <2>13, <2>14, <2>15, LoopStepKeeps
<1>5. CASE ~(stream.owner = k /\ ~r.ended)
  <2>1. Returns /\ UNCHANGED <<slot, upload>>
    BY <1>2, <1>5 DEF Drain, Cur
  <2>2. loop' \in LoopType /\ loop'.at = loop.next /\ loop'.s = k /\ loop'.next = loop.next
    BY <1>2, <1>3, <2>1, BackIs
  <2>3. LoopInv'
    BY <1>2, <1>3, <2>1, <2>2 DEF LoopInv, Draining, Answering, Reclaiming
  <2>4. PromiseInv'
    BY <1>1, <1>2, <1>3, <2>1, <2>2, PromiseBack DEF Draining
  <2> QED BY <1>1, <1>2, <1>3, <2>1, <2>2, <2>3, <2>4, LoopMoveKeeps
<1> QED BY <1>4, <1>5

\* What was delivered is in the window again, and not yet counted.
LEMMA DeliverKeeps ==
  ASSUME ServerInv, Deliver
  PROVE  ServerInv'
<1>1. loop.at = "deliver" /\ UNCHANGED <<conn, queue, slot, stream, wanted, inFlight, task>>
  BY DEF Deliver, LoopAt, loopKeeps
<1>2. PICK k \in 1 .. Slots, c \in Clients :
        /\ k = loop.s /\ c = slot[k].client /\ slot[k].streaming
        /\ loop.next \in {"drained", "late"} /\ (loop.next = "late" => slot[k].del)
        /\ \A s \in 1 .. Slots : ~slot[s].aborted /\ ~LoopOn(s, {"answered", "hangup", "reset"})
        /\ loop.at # "letgo" /\ stream.owner # 0 => ~slot[stream.owner].ended
  BY <1>1, DrainSlot DEF Draining
<1>3. /\ slot[k] \in SlotType /\ loop \in LoopType /\ wanted \in BOOLEAN /\ None \notin Clients
      /\ Types /\ SlotInv /\ StreamInv /\ LoopInv /\ PromiseInv /\ HeardInv
      /\ slot \in [1 .. Slots -> SlotType] /\ stream \in StreamType
      /\ upload \in [Clients -> UploadType] /\ peer \in [Clients -> PeerType]
  BY <1>1, <1>2, LoopSlot
<1>4. /\ To("settle") /\ Says(c, upload[c].events, loop.n)
      /\ peer' = [peer EXCEPT ![c].acked = @ + loop.n]
  BY <1>2 DEF Deliver, Cur
<1>5. /\ loop' \in LoopType /\ loop'.at = "settle" /\ loop'.s = k /\ loop'.n = loop.n /\ loop'.next = loop.next
  BY <1>2, <1>3, <1>4, MovesAre DEF LoopAts, Draining, Nexts
<1>6. stream.owner = k /\ ~slot[k].ended /\ slot[k].begun /\ loop.n <= stream.len /\ loop.n \in Nat
      /\ slot[k].client # None
  BY <1>1, <1>2, <1>3 DEF LoopInv, LoopType
<1>7. upload[c].events = "begun" /\ upload[c].got = slot[k].acked /\ slot[k].acked \in Nat
  BY <1>1, <1>2, <1>3, <1>6 DEF HeardInv, LoopOn, Heard, SlotType
<1>8. slot[k].acked + loop.n <= Parts
  <2>1. /\ slot[k].acked + Queued(queue, c) + InHand(c) + Buffered(c) + Dropped(k) <= Parts
        /\ Buffered(c) = stream.len /\ Parts \in Nat /\ stream.len \in Nat
        /\ Queued(queue, c) \in Nat /\ InHand(c) \in Nat /\ Dropped(k) \in Nat
    BY <1>2, <1>6, BufferCame
  <2> QED BY <1>6, <1>7, <2>1
<1>9. /\ upload' \in [Clients -> UploadType] /\ upload'[c].events = "begun"
      /\ upload'[c].got = slot[k].acked + loop.n
      /\ \A d \in Clients : d # c => upload'[d] = upload[d]
  <2>1. upload[c].got + loop.n \in 0 .. Parts
    BY <1>6, <1>7, <1>8, ServerAssumption
  <2> QED BY <1>3, <1>4, <1>7, <2>1, SaysIs
<1>10. /\ peer' \in [Clients -> PeerType]
       /\ \A d \in Clients : peer'[d].sent = peer[d].sent /\ peer'[d].head = peer[d].head
  <2> DEFINE q == [peer[c] EXCEPT !.acked = @ + loop.n]
  <2>1. q \in PeerType /\ q.sent = peer[c].sent /\ q.head = peer[c].head
    <3>1. peer[c] \in PeerType
      BY <1>3
    <3>2. peer[c].acked + loop.n \in Nat
      BY <1>6, <3>1 DEF PeerType
    <3> QED BY <3>1, <3>2 DEF PeerType
  <2>2. peer' = [peer EXCEPT ![c] = q]
    BY <1>4
  <2> HIDE DEF q
  <2> QED BY <1>3, <2>1, <2>2
<1>11. Types'
  BY <1>1, <1>3, <1>5, <1>9, <1>10 DEF Types
<1>12. HeardInv'
  <2>1. Heard(slot'[k]) = "begun"
    BY <1>1, <1>2, <1>6 DEF Heard
  <2>2. upload'[c].got = slot'[k].acked + (IF LoopOn(k, {"settle"})' THEN loop'.n ELSE 0)
    BY <1>1, <1>5, <1>9 DEF LoopOn
  <2> QED BY <1>1, <1>2, <1>5, <1>9, <2>1, <2>2, HeardStep
<1>13. PartInv'
  <2>1. \A d \in Clients : Buffered(d)' = Buffered(d) /\ Buffered(d) \in Nat
    BY <1>1, <1>3 DEF Buffered, StreamType
  <2>2. \A s \in 1 .. Slots : Dropped(s)' = Dropped(s) /\ Dropped(s) \in Nat /\ slot[s].acked \in Nat
    BY <1>1, <1>3, <1>5 DEF Dropped, LoopOn, SlotType
  <2>3. \A d \in Clients : Buffered(d)' <= Buffered(d) /\ peer'[d].sent = peer[d].sent /\ peer'[d].head = peer[d].head
    BY <1>10, <2>1
  <2>4. ASSUME NEW s \in 1 .. Slots, slot[s].client # None
        PROVE  slot'[s].acked + Buffered(slot[s].client)' + Dropped(s)'
                 <= slot[s].acked + Buffered(slot[s].client) + Dropped(s)
    <3>1. PICK d \in Clients : d = slot[s].client
      BY <1>3, <2>4 DEF SlotType
    <3>2. Buffered(slot[s].client)' = Buffered(d)'
      BY <1>1, <3>1
    <3> QED BY <1>1, <2>1, <2>2, <3>1, <3>2
  <2> QED BY <1>1, <1>11, <2>3, <2>4, PartsDrain
<1>14. SlotsInv'
  <2>1. StreamInv'
    BY <1>1, <1>2, <1>3, <1>5 DEF StreamInv, LoopOn
  <2>2. LoopInv'
    BY <1>1, <1>2, <1>3, <1>5, <1>6 DEF LoopInv, Draining, Answering, Reclaiming
  <2>3. PromiseInv'
    BY <1>1, <1>2, <1>3, <1>5, PromiseDrains DEF Draining
  <2> QED BY <1>1, <1>3, <2>1, <2>2, <2>3 DEF SlotsInv, SlotInv
<1>15. \A s \in 1 .. Slots : Hung(s) => Hung(s)'
  BY <1>1, <1>5 DEF Hung, LoopOn
<1> QED BY <1>1, <1>5, <1>10, <1>11, <1>12, <1>13, <1>14, <1>15, LoopStepKeeps

LEMMA SettleKeeps ==
  ASSUME ServerInv, Settle
  PROVE  ServerInv'
<1>1. loop.at = "settle" /\ UNCHANGED <<conn, peer, queue, wanted, upload, inFlight, task>>
  BY DEF Settle, LoopAt, loopKeeps
<1>2. PICK k \in 1 .. Slots, c \in Clients :
        /\ k = loop.s /\ c = slot[k].client /\ slot[k].streaming
        /\ loop.next \in {"drained", "late"} /\ (loop.next = "late" => slot[k].del)
        /\ \A s \in 1 .. Slots : ~slot[s].aborted /\ ~LoopOn(s, {"answered", "hangup", "reset"})
        /\ loop.at # "letgo" /\ stream.owner # 0 => ~slot[stream.owner].ended
  BY <1>1, DrainSlot DEF Draining
<1>3. /\ slot[k] \in SlotType /\ SlotOk(slot[k]) /\ loop \in LoopType /\ wanted \in BOOLEAN /\ None \notin Clients
      /\ Types /\ SlotInv /\ StreamInv /\ LoopInv /\ PromiseInv /\ HeardInv
      /\ slot \in [1 .. Slots -> SlotType] /\ stream \in StreamType
  BY <1>1, <1>2, LoopSlot
<1> DEFINE r == slot[k]
           q == [r EXCEPT !.acked = @ + loop.n]
<1>4. /\ slot' = [slot EXCEPT ![k] = q] /\ stream' = [stream EXCEPT !.len = @ - loop.n]
      /\ IF r.acked + loop.n >= Parts THEN To("end") ELSE Returns
  BY <1>2 DEF Settle, Cur
<1>5. stream.owner = k /\ ~r.ended /\ r.begun /\ loop.n <= stream.len /\ loop.n \in Nat /\ r.client # None
  BY <1>1, <1>2, <1>3 DEF LoopInv, LoopType
<1>6. r.acked \in Nat /\ r.acked + loop.n <= Parts /\ Parts \in Nat /\ stream.len \in 0 .. Window /\ Window \in Nat
  <2>1. /\ r.acked + Queued(queue, c) + InHand(c) + Buffered(c) + Dropped(k) <= Parts
        /\ Buffered(c) = stream.len /\ Parts \in Nat /\ stream.len \in 0 .. Window /\ r.acked \in Nat
        /\ Queued(queue, c) \in Nat /\ InHand(c) \in Nat /\ Dropped(k) \in Nat /\ Window \in Nat
    BY <1>2, <1>5, BufferCame
  <2> QED BY <1>5, <2>1
<1>7. /\ q \in SlotType /\ q.acked = r.acked + loop.n
      /\ q.client = r.client /\ q.begun = r.begun /\ q.streaming = r.streaming /\ q.ended = r.ended
      /\ q.aborted = r.aborted /\ q.state = r.state /\ q.del = r.del /\ q.gone = r.gone /\ q.buf = r.buf
      /\ q.responded = r.responded
  <2>1. r \in SlotType /\ r.acked + loop.n \in 0 .. Parts
    BY <1>3, <1>5, <1>6
  <2> QED BY <2>1 DEF SlotType
<1>8. SlotOk(q)
  BY <1>2, <1>3, <1>7, <1>5 DEF SlotOk
<1> HIDE DEF q
<1>9. slot' \in [1 .. Slots -> SlotType] /\ slot'[k] = q /\ \A s \in 1 .. Slots : s # k => slot'[s] = slot[s]
  BY <1>3, <1>4, <1>7, TouchIs
<1> HIDE DEF r
<1>10. \A s \in 1 .. Slots :
         /\ slot'[s].client = slot[s].client /\ slot'[s].begun = slot[s].begun
         /\ slot'[s].streaming = slot[s].streaming
         /\ slot'[s].ended = slot[s].ended /\ slot'[s].aborted = slot[s].aborted /\ slot'[s].del = slot[s].del
         /\ slot'[s].gone = slot[s].gone /\ slot'[s].state = slot[s].state
         /\ slot'[s].responded = slot[s].responded /\ slot'[s].buf = slot[s].buf
  BY <1>7, <1>9, Zenon DEF r
<1> USE DEF r
<1>11. stream' \in StreamType /\ stream'.owner = k /\ stream'.len = stream.len - loop.n /\ stream'.len \in Nat
  BY <1>3, <1>4, <1>5, <1>6 DEF StreamType
<1>12. /\ loop' \in LoopType /\ loop'.at \in {"end", "drained", "late"} /\ loop'.s = k /\ loop'.next = loop.next
       /\ \/ loop'.at = "end" /\ q.acked = Parts
          \/ loop'.at = loop.next
  <2>1. CASE r.acked + loop.n >= Parts
    <3>1. To("end") /\ r.acked + loop.n = Parts
      BY <1>4, <1>5, <1>6, <2>1
    <3> QED BY <1>2, <1>3, <1>7, <3>1, MovesAre DEF LoopAts, Draining, Nexts
  <2>2. CASE ~(r.acked + loop.n >= Parts)
    BY <1>2, <1>3, <1>4, <2>2, BackIs
  <2> QED BY <2>1, <2>2
<1>13. SlotInv'
  BY <1>3, <1>8, <1>9, <1>10, TouchKeeps
<1>14. StreamInv'
  <2>1. stream'.owner # 0 => /\ slot'[stream'.owner].client # None /\ slot'[stream'.owner].streaming
                             /\ ~slot'[stream'.owner].ended
    BY <1>2, <1>5, <1>10, <1>11
  <2>2. \A s \in 1 .. Slots : slot'[s].streaming /\ ~slot'[s].ended => stream'.owner = s
    BY <1>2, <1>3, <1>5, <1>10, <1>11 DEF StreamInv, LoopOn
  <2> QED BY <1>2, <1>10, <2>1, <2>2 DEF StreamInv
<1>15. LoopInv'
  BY <1>2, <1>5, <1>7, <1>9, <1>11, <1>12 DEF LoopInv, Draining, Answering, Reclaiming
<1>16. PromiseInv'
  <2>1. CASE loop'.at = "end"
    BY <1>1, <1>2, <1>3, <1>10, <1>12, <2>1, PromiseDrains DEF Draining
  <2>2. CASE loop'.at = loop.next
    BY <1>1, <1>2, <1>3, <1>10, <1>12, <2>2, PromiseBack DEF Draining
  <2> QED BY <1>12, <2>1, <2>2
<1>17. SlotsInv'
  BY <1>13, <1>14, <1>15, <1>16 DEF SlotsInv
<1>18. Types'
  BY <1>1, <1>3, <1>9, <1>11, <1>12 DEF Types
<1>19. HeardInv'
  <2>1. upload[c].events = Heard(r) /\ upload[c].got = r.acked + loop.n
    BY <1>1, <1>2, <1>3, <1>5 DEF HeardInv, LoopOn
  <2>2. Heard(slot'[k]) = Heard(r)
    BY <1>10 DEF Heard
  <2>3. upload'[c].got = slot'[k].acked + (IF LoopOn(k, {"settle"})' THEN loop'.n ELSE 0)
    BY <1>1, <1>5, <1>6, <1>7, <1>9, <1>12, <2>1 DEF LoopOn
  <2>4. \A s \in 1 .. Slots : slot'[s].client = slot[s].client /\ (s # k => slot'[s] = slot[s])
    BY <1>9, <1>10
  <2>5. loop'.s = k /\ upload' = upload
    BY <1>1, <1>12
  <2> QED BY <1>1, <1>2, <2>1, <2>2, <2>3, <2>4, <2>5, HeardStep
<1>20. PartInv'
  <2>1. /\ Buffered(c) = stream.len /\ Buffered(c)' = stream.len - loop.n
        /\ \A d \in Clients : d # c => Buffered(d) = 0 /\ Buffered(d)' = 0
    <3>1. slot'[stream'.owner].client = c /\ slot[stream.owner].client = c /\ k # 0
      BY <1>2, <1>5, <1>10, <1>11, ServerAssumption
    <3> QED BY <1>5, <1>11, <3>1 DEF Buffered
  <2>2. \A s \in 1 .. Slots : Dropped(s)' = Dropped(s) /\ Dropped(s) \in Nat /\ slot[s].acked \in Nat
    BY <1>1, <1>3, <1>10, <1>12 DEF Dropped, LoopOn, SlotType
  <2>3. \A d \in Clients : Buffered(d)' <= Buffered(d) /\ peer'[d].sent = peer[d].sent /\ peer'[d].head = peer[d].head
    <3>1. stream.len - loop.n <= stream.len /\ 0 <= 0
      BY <1>5, <1>6
    <3> QED BY <1>1, <2>1, <3>1
  <2>4. ASSUME NEW s \in 1 .. Slots, slot[s].client # None
        PROVE  slot'[s].acked + Buffered(slot[s].client)' + Dropped(s)'
                 <= slot[s].acked + Buffered(slot[s].client) + Dropped(s)
    <3>1. PICK d \in Clients : d = slot[s].client
      BY <1>3, <2>4 DEF SlotType
    <3>2. Buffered(slot[s].client)' = Buffered(d)'
      BY <1>10, <3>1
    <3>3. CASE s = k
      <4>1. d = c /\ slot'[s].acked = r.acked + loop.n
        BY <1>2, <1>7, <1>9, <3>1, <3>3
      <4>2. (r.acked + loop.n) + (stream.len - loop.n) + Dropped(k) <= r.acked + stream.len + Dropped(k)
        BY <1>5, <1>6, <2>2
      <4> QED BY <2>1, <2>2, <3>1, <3>2, <3>3, <4>1, <4>2
    <3>4. CASE s # k
      <4>1. d # c /\ slot'[s] = slot[s]
        BY <1>2, <1>3, <1>9, <2>4, <3>1, <3>4 DEF SlotInv
      <4> QED BY <2>1, <2>2, <3>1, <3>2, <4>1
    <3> QED BY <3>3, <3>4
  <2> QED BY <1>1, <1>10, <1>18, <2>3, <2>4, PartsDrain
<1>21. \A s \in 1 .. Slots : Hung(s) => Hung(s)'
  BY <1>10, <1>12 DEF Hung, LoopOn
<1> QED BY <1>1, <1>10, <1>12, <1>17, <1>18, <1>19, <1>20, <1>21, LoopStepKeeps

\* A step of the loop in its slot that gives no window back.
LEMMA LoopTouchKeeps ==
  ASSUME ServerInv, NEW k \in 1 .. Slots, NEW c \in Clients, k = loop.s, c = slot[k].client,
         UNCHANGED <<conn, peer, queue, task, inFlight>>, wanted' \in BOOLEAN,
         slot' \in [1 .. Slots -> SlotType], \A s \in 1 .. Slots : s # k => slot'[s] = slot[s],
         slot'[k].client = c, slot'[k].gone = slot[k].gone, slot'[k].streaming = slot[k].streaming,
         slot'[k].acked = slot[k].acked, SlotOk(slot'[k]),
         stream' = stream \/ stream' = [owner |-> 0, len |-> 0],
         loop' \in LoopType, loop.at \notin {"settle", "release"}, loop'.at \notin {"settle", "release"},
         loop'.at \in {"answered", "hangup"} => loop'.s = k,
         StreamInv', LoopInv', PromiseInv',
         upload' \in [Clients -> UploadType], \A d \in Clients : d # c => upload'[d] = upload[d],
         upload'[c].events = Heard(slot'[k]), upload'[c].got = slot'[k].acked,
         Dropped(k)' <= Dropped(k), Hung(k) => Hung(k)',
         task.at = "take" /\ task.s = k /\ slot[k].state = "receiving" => slot'[k].state = "receiving"
  PROVE  ServerInv'
<1>1. Types /\ SlotInv /\ None \notin Clients /\ stream \in StreamType /\ stream' \in StreamType
      /\ slot \in [1 .. Slots -> SlotType] /\ Slots \in Nat
  <2>1. Types /\ SlotInv
    BY DEF ServerInv, SlotsInv
  <2>2. [owner |-> 0, len |-> 0] \in StreamType
    BY ServerAssumption DEF StreamType
  <2> QED BY <2>1, <2>2, TypesAre DEF Types
<1>2. Types'
  BY <1>1 DEF Types
<1>3. SlotsInv'
  BY <1>1, TouchKeeps DEF SlotsInv
<1>4. HeardInv'
  <2>1. \A s \in 1 .. Slots : slot'[s].client = slot[s].client /\ (s # k => slot'[s] = slot[s])
    OBVIOUS
  <2>2. upload'[c].got = slot'[k].acked + (IF LoopOn(k, {"settle"})' THEN loop'.n ELSE 0)
    <3>1. slot'[k].acked \in Nat
      BY DEF SlotType
    <3> QED BY <3>1 DEF LoopOn
  <2> QED BY <2>1, <2>2, HeardStep
<1>5. \A s \in 1 .. Slots :
        /\ slot'[s].client = slot[s].client /\ slot'[s].gone = slot[s].gone
        /\ slot'[s].streaming = slot[s].streaming /\ slot'[s].acked = slot[s].acked
  OBVIOUS
<1>6. \A s \in 1 .. Slots : s # k => (Hung(s) => Hung(s)') /\ Dropped(s)' <= Dropped(s)
  BY DEF Hung, Dropped, LoopOn
<1>7. PartInv'
  <2>1. ASSUME NEW d \in Clients PROVE Buffered(d) \in Nat /\ Buffered(d)' \in Nat /\ Buffered(d)' <= Buffered(d)
    <3>1. Buffered(d) \in Nat
      BY <1>1 DEF Buffered, StreamType
    <3>2. CASE stream' = stream
      <4>1. stream.owner # 0 => slot'[stream.owner].client = slot[stream.owner].client
        BY <1>1, <1>5 DEF StreamType
      <4>2. Buffered(d)' = Buffered(d)
        BY <3>2, <4>1 DEF Buffered
      <4> QED BY <3>1, <4>2
    <3>3. CASE stream' = [owner |-> 0, len |-> 0]
      <4>1. Buffered(d)' = 0
        BY <3>3 DEF Buffered
      <4> QED BY <3>1, <4>1
    <3> QED BY <3>2, <3>3
  <2>2. \A s \in 1 .. Slots : Dropped(s)' <= Dropped(s) /\ Dropped(s) \in Nat /\ Dropped(s)' \in Nat
                              /\ slot[s].acked \in Nat
    BY <1>1, <1>6 DEF Dropped, SlotType
  <2>3. ASSUME NEW s \in 1 .. Slots, slot[s].client # None
        PROVE  slot'[s].acked + Buffered(slot[s].client)' + Dropped(s)'
                 <= slot[s].acked + Buffered(slot[s].client) + Dropped(s)
    <3>1. PICK d \in Clients : d = slot[s].client
      BY <1>1, <2>3 DEF SlotType
    <3>2. Buffered(slot[s].client)' = Buffered(d)'
      BY <1>5, <3>1
    <3>3. slot'[s].acked = slot[s].acked
      BY <1>5
    <3> QED BY <2>1, <2>2, <3>1, <3>2, <3>3
  <2> QED BY <1>2, <1>5, <2>1, <2>3, PartsDrain
<1>8. \A s \in 1 .. Slots :
        /\ slot'[s].client = slot[s].client /\ slot'[s].gone = slot[s].gone
        /\ slot'[s].streaming = slot[s].streaming /\ (Hung(s) => Hung(s)')
        /\ task.at = "take" /\ task.s = s /\ slot[s].state = "receiving" => slot'[s].state = "receiving"
  BY <1>5, <1>6
<1> QED BY <1>2, <1>3, <1>4, <1>7, <1>8, LoopStepKeeps

\* Nobody takes what comes for an upload that is whole.
LEMMA NothingIsTaken ==
  ASSUME ServerInv, NEW k \in 1 .. Slots, NEW c \in Clients, c = slot[k].client, slot[k].streaming,
         slot[k].acked = Parts
  PROVE  Dropped(k) = 0 /\ ~(task.at = "take" /\ task.s = k)
<1>1. InHand(c) = 0 /\ Dropped(k) = 0
  <2>1. /\ slot[k].acked + Queued(queue, c) + InHand(c) + Buffered(c) + Dropped(k) <= Parts
        /\ Queued(queue, c) \in Nat /\ InHand(c) \in Nat /\ Buffered(c) \in Nat /\ Dropped(k) \in Nat /\ Parts \in Nat
    BY BufferCame
  <2> QED BY <2>1
<1>2. ASSUME task.at = "take", task.s = k PROVE FALSE
  <2>1. task.c = c /\ task.x \in Data
    BY <1>2 DEF ServerInv, TaskInv, Has
  <2>2. CASE task.x = "part"
    BY <1>1, <1>2, <2>1, <2>2 DEF InHand, On
  <2>3. CASE task.x \in Heads
    <3>1. HeadHand(c) /\ Streams(c)
      BY <1>2, <2>1, <2>3 DEF HeadHand, On, Streams, Has
    <3> QED BY <3>1 DEF ServerInv, HeadInv, HeadOk
  <2> QED BY <2>1, <2>2, <2>3 DEF Data
<1> QED BY <1>1, <1>2

LEMMA EndBodyKeeps ==
  ASSUME ServerInv, EndBody
  PROVE  ServerInv'
<1>1. loop.at = "end" /\ UNCHANGED <<conn, peer, queue, stream, wanted, inFlight, task>>
  BY DEF EndBody, LoopAt, loopKeeps
<1>2. PICK k \in 1 .. Slots, c \in Clients :
        /\ k = loop.s /\ c = slot[k].client /\ slot[k].streaming
        /\ loop.next \in {"drained", "late"} /\ (loop.next = "late" => slot[k].del)
        /\ \A s \in 1 .. Slots : ~slot[s].aborted /\ ~LoopOn(s, {"answered", "hangup", "reset"})
        /\ loop.at # "letgo" /\ stream.owner # 0 => ~slot[stream.owner].ended
  BY <1>1, DrainSlot DEF Draining
<1>3. /\ slot[k] \in SlotType /\ SlotOk(slot[k]) /\ loop \in LoopType /\ wanted \in BOOLEAN /\ None \notin Clients
      /\ Types /\ SlotInv /\ StreamInv /\ LoopInv /\ PromiseInv /\ HeardInv
      /\ slot \in [1 .. Slots -> SlotType] /\ stream \in StreamType
      /\ upload \in [Clients -> UploadType]
  BY <1>1, <1>2, LoopSlot
<1> DEFINE r == slot[k]
           q == [[r EXCEPT !.ended = TRUE] EXCEPT !.state = "ready"]
<1>4. /\ slot' = [slot EXCEPT ![k] = q] /\ To("letgo") /\ Says(c, "ended", 0)
  BY <1>2 DEF EndBody, Cur
<1>5. stream.owner = k /\ ~r.ended /\ r.begun /\ r.client # None /\ r.acked = Parts
  BY <1>1, <1>2, <1>3 DEF LoopInv
<1>6. Dropped(k) = 0 /\ ~(task.at = "take" /\ task.s = k)
  BY <1>2, <1>5, NothingIsTaken
<1>7. ~r.responded /\ r.buf
  <2>1. ~r.responded
    BY <1>2, <1>3, <1>5 DEF SlotOk
  <2> QED BY <1>2, <1>6, <2>1 DEF Dropped, LoopOn
<1>8. /\ q \in SlotType /\ q.acked = r.acked /\ q.ended /\ q.state = "ready"
      /\ q.client = r.client /\ q.begun = r.begun /\ q.streaming = r.streaming
      /\ q.aborted = r.aborted /\ q.del = r.del /\ q.gone = r.gone /\ q.buf = r.buf
      /\ q.responded = r.responded
  BY <1>3 DEF SlotType, States
<1>9. SlotOk(q)
  BY <1>2, <1>3, <1>5, <1>7, <1>8 DEF SlotOk
<1> HIDE DEF q
<1>10. slot' \in [1 .. Slots -> SlotType] /\ slot'[k] = q /\ \A s \in 1 .. Slots : s # k => slot'[s] = slot[s]
  BY <1>3, <1>4, <1>8, TouchIs
<1>11. /\ loop' \in LoopType /\ loop'.at = "letgo" /\ loop'.s = k /\ loop'.next = loop.next
  BY <1>2, <1>3, <1>4, MovesAre DEF LoopAts, Draining, Nexts
<1>12. StreamInv'
  <2>1. slot'[k].client # None /\ slot'[k].streaming /\ ~slot'[k].aborted /\ LoopOn(k, {"letgo"})'
    BY <1>2, <1>3, <1>5, <1>8, <1>10, <1>11 DEF LoopOn
  <2>2. \A s \in 1 .. Slots : s # k => ~slot'[s].aborted /\ (slot'[s].streaming => slot'[s].ended)
    BY <1>2, <1>3, <1>5, <1>10 DEF StreamInv, LoopOn
  <2> QED BY <1>1, <1>5, <2>1, <2>2 DEF StreamInv
<1>13. LoopInv'
  BY <1>1, <1>2, <1>5, <1>8, <1>10, <1>11 DEF LoopInv, Draining, Answering, Reclaiming
<1>14. PromiseInv'
  <2>1. \A s \in 1 .. Slots : slot'[s].del = slot[s].del
    BY <1>8, <1>10
  <2> QED BY <1>1, <1>2, <1>3, <1>11, <2>1, PromiseDrains DEF Draining
<1>15. /\ upload' \in [Clients -> UploadType] /\ upload'[c].events = "ended" /\ upload'[c].got = r.acked
       /\ \A d \in Clients : d # c => upload'[d] = upload[d]
  <2>1. upload[c].got = r.acked /\ r.acked + 0 = r.acked /\ r.acked \in 0 .. Parts
    BY <1>1, <1>2, <1>3 DEF HeardInv, LoopOn, SlotType
  <2> QED BY <1>3, <1>4, <2>1, SaysIs
<1>16. Heard(slot'[k]) = "ended"
  BY <1>5, <1>8, <1>10 DEF Heard
<1>17. Dropped(k)' <= Dropped(k) /\ (Hung(k) => Hung(k)')
  <2>1. slot'[k].buf /\ ~slot[k].responded
    BY <1>7, <1>8, <1>10
  <2>2. Dropped(k)' = 0 /\ 0 <= 0
    BY <2>1 DEF Dropped
  <2> QED BY <1>6, <2>1, <2>2 DEF Hung
<1>18. /\ slot'[k].client = c /\ slot'[k].gone = slot[k].gone /\ slot'[k].streaming = slot[k].streaming
       /\ slot'[k].acked = slot[k].acked /\ SlotOk(slot'[k])
  BY <1>2, <1>8, <1>9, <1>10
<1>19. upload'[c].events = Heard(slot'[k]) /\ upload'[c].got = slot'[k].acked
  BY <1>8, <1>10, <1>15, <1>16
<1> QED BY <1>1, <1>2, <1>3, <1>6, <1>10, <1>11, <1>12, <1>13, <1>14, <1>15, <1>17, <1>18, <1>19, LoopTouchKeeps

LEMMA LetGoKeeps ==
  ASSUME ServerInv, LetGo
  PROVE  ServerInv'
<1>1. /\ loop.at = "letgo" /\ UNCHANGED <<conn, peer, queue, slot, wanted, upload, inFlight, task>>
      /\ Returns /\ stream' = [owner |-> 0, len |-> 0]
  BY DEF LetGo, LoopAt, loopKeeps
<1>2. PICK k \in 1 .. Slots, c \in Clients :
        /\ k = loop.s /\ c = slot[k].client /\ slot[k].streaming
        /\ loop.next \in {"drained", "late"} /\ (loop.next = "late" => slot[k].del)
        /\ \A s \in 1 .. Slots : ~slot[s].aborted /\ ~LoopOn(s, {"answered", "hangup", "reset"})
        /\ loop.at # "letgo" /\ stream.owner # 0 => ~slot[stream.owner].ended
  BY <1>1, DrainSlot DEF Draining
<1>3. /\ slot[k] \in SlotType /\ SlotOk(slot[k]) /\ loop \in LoopType /\ wanted \in BOOLEAN /\ None \notin Clients
      /\ Types /\ SlotInv /\ StreamInv /\ LoopInv /\ PromiseInv /\ HeardInv
      /\ slot \in [1 .. Slots -> SlotType] /\ upload \in [Clients -> UploadType]
  BY <1>1, <1>2, LoopSlot
<1>4. stream.owner = k /\ slot[k].ended
  BY <1>1, <1>2, <1>3 DEF LoopInv
<1>5. /\ loop' \in LoopType /\ loop'.at = loop.next /\ loop'.s = k /\ loop'.next = loop.next
  BY <1>1, <1>2, <1>3, BackIs
<1>6. StreamInv'
  <2>1. \A s \in 1 .. Slots : ~slot'[s].aborted /\ (slot'[s].streaming => slot'[s].ended)
    BY <1>1, <1>2, <1>3, <1>4 DEF StreamInv, LoopOn
  <2> QED BY <1>1, <2>1 DEF StreamInv
<1>7. LoopInv'
  BY <1>1, <1>2, <1>3, <1>5 DEF LoopInv, Draining, Answering, Reclaiming
<1>8. PromiseInv'
  BY <1>1, <1>2, <1>3, <1>5, PromiseBack DEF Draining
<1>9. upload[c].events = Heard(slot[k]) /\ upload[c].got = slot[k].acked
  BY <1>1, <1>2, <1>3 DEF HeardInv, LoopOn, SlotType
<1>10. Dropped(k)' <= Dropped(k) /\ (Hung(k) => Hung(k)')
  BY <1>1, <1>2, <1>5 DEF Dropped, Hung, LoopOn
<1>11. loop'.at \notin {"settle", "release", "answered", "hangup"}
  BY <1>2, <1>5
<1>12. slot'[k] = slot[k] /\ \A s \in 1 .. Slots : slot'[s] = slot[s]
  BY <1>1
<1> QED BY <1>1, <1>2, <1>3, <1>5, <1>6, <1>7, <1>8, <1>9, <1>10, <1>11, <1>12, LoopTouchKeeps

\* The slot of a loop that answers or reclaims.
LEMMA ServedSlot ==
  ASSUME ServerInv, loop.at \in Answering \cup Reclaiming
  PROVE  \E k \in 1 .. Slots, c \in Clients :
           /\ k = loop.s /\ c = slot[k].client /\ None \notin Clients
           /\ slot[k] \in SlotType /\ SlotOk(slot[k]) /\ loop \in LoopType /\ wanted \in BOOLEAN
           /\ SlotInv /\ StreamInv /\ LoopInv /\ PromiseInv
           /\ slot \in [1 .. Slots -> SlotType] /\ stream \in StreamType
           /\ upload \in [Clients -> UploadType]
           /\ upload[c].events = Heard(slot[k]) /\ upload[c].got = slot[k].acked
           /\ upload[c].got + 0 = upload[c].got /\ upload[c].got + 0 \in 0 .. Parts
           /\ slot[k].state # "receiving"
           /\ \A s \in 1 .. Slots : ~LoopOn(s, {"letgo"})
<1>0. loop.at \notin {"idle", "settle", "letgo"}
  BY DEF Answering, Reclaiming
<1>1. PICK k \in 1 .. Slots :
        /\ k = loop.s /\ slot[k] \in SlotType /\ SlotOk(slot[k])
        /\ loop \in LoopType /\ wanted \in BOOLEAN /\ None \notin Clients
        /\ SlotInv /\ StreamInv /\ LoopInv /\ PromiseInv /\ HeardInv
        /\ slot \in [1 .. Slots -> SlotType] /\ stream \in StreamType
        /\ upload \in [Clients -> UploadType]
  BY <1>0, LoopSlot
<1>2. slot[k].client # None /\ slot[k].state # "receiving"
  BY <1>1 DEF LoopInv, SlotOk
<1>3. PICK c \in Clients : c = slot[k].client
  BY <1>1, <1>2 DEF SlotType
<1>4. slot[k].acked \in 0 .. Parts /\ slot[k].acked \in Nat
  BY <1>1 DEF SlotType
<1>5. upload[c].events = Heard(slot[k]) /\ upload[c].got = slot[k].acked
  BY <1>0, <1>1, <1>2, <1>3, <1>4 DEF HeardInv, LoopOn
<1> QED BY <1>0, <1>1, <1>2, <1>3, <1>4, <1>5 DEF LoopOn

\* respond() writes the answer once.
LEMMA RespondKeeps ==
  ASSUME ServerInv, Respond
  PROVE  ServerInv'
<1>1. loop.at = "respond" /\ UNCHANGED <<conn, peer, queue, stream, wanted, upload, inFlight, task>>
  BY DEF Respond, LoopAt, loopKeeps
<1>2. PICK k \in 1 .. Slots, c \in Clients :
           /\ k = loop.s /\ c = slot[k].client /\ None \notin Clients
           /\ slot[k] \in SlotType /\ SlotOk(slot[k]) /\ loop \in LoopType /\ wanted \in BOOLEAN
           /\ SlotInv /\ StreamInv /\ LoopInv /\ PromiseInv
           /\ slot \in [1 .. Slots -> SlotType] /\ stream \in StreamType
           /\ upload \in [Clients -> UploadType]
           /\ upload[c].events = Heard(slot[k]) /\ upload[c].got = slot[k].acked
           /\ slot[k].state # "receiving"
           /\ \A s \in 1 .. Slots : ~LoopOn(s, {"letgo"})
  BY <1>1, ServedSlot DEF Answering
<1> DEFINE r == slot[k]
           q == [[r EXCEPT !.responded = TRUE] EXCEPT !.state = "responding"]
<1>3. slot' = [slot EXCEPT ![k] = q] /\ To("answered")
  BY <1>2 DEF Respond
<1>4. /\ r.client # None /\ loop.next \in {"scan", "clean"} /\ (loop.next = "clean" => r.del)
      /\ (r.streaming => r.ended) /\ r.buf /\ ~r.responded
  BY <1>1, <1>2 DEF LoopInv, Answering
<1>5. /\ q \in SlotType /\ q.acked = r.acked /\ q.ended = r.ended /\ q.state = "responding"
      /\ q.client = r.client /\ q.begun = r.begun /\ q.streaming = r.streaming
      /\ q.aborted = r.aborted /\ q.del = r.del /\ q.gone = r.gone /\ q.buf = r.buf
      /\ q.responded
  BY <1>2 DEF SlotType, States
<1>6. SlotOk(q)
  BY <1>2, <1>4, <1>5 DEF SlotOk
<1> HIDE DEF q
<1>7. slot' \in [1 .. Slots -> SlotType] /\ slot'[k] = q /\ \A s \in 1 .. Slots : s # k => slot'[s] = slot[s]
  BY <1>2, <1>3, <1>5, TouchIs
<1> HIDE DEF r
<1>8. \A s \in 1 .. Slots :
        /\ slot'[s].client = slot[s].client /\ slot'[s].streaming = slot[s].streaming
        /\ slot'[s].ended = slot[s].ended /\ slot'[s].aborted = slot[s].aborted /\ slot'[s].del = slot[s].del
  BY <1>5, <1>7, Zenon DEF r
<1> USE DEF r
<1>9. /\ loop' \in LoopType /\ loop'.at = "answered" /\ loop'.s = k /\ loop'.next = loop.next
  BY <1>2, <1>3, MovesAre DEF LoopAts, Answering, Nexts
<1>10. StreamInv'
  <2>1. stream.owner # 0 => stream.owner \in 1 .. Slots
    BY <1>2 DEF StreamType
  <2>2. \A s \in 1 .. Slots : ~slot'[s].aborted /\ (slot'[s].streaming /\ ~slot'[s].ended => stream'.owner = s)
    BY <1>1, <1>2, <1>8 DEF StreamInv, LoopOn
  <2>3. stream'.owner # 0 => /\ slot'[stream'.owner].client # None /\ slot'[stream'.owner].streaming
                             /\ ~slot'[stream'.owner].ended
    BY <1>1, <1>2, <1>8, <2>1 DEF StreamInv
  <2> QED BY <2>2, <2>3 DEF StreamInv
<1>11. LoopInv'
  BY <1>4, <1>5, <1>7, <1>9 DEF LoopInv, Draining, Answering, Reclaiming
<1>12. PromiseInv'
  <2>1. Ahead(k) => Ahead(k)'
    BY <1>1, <1>2, <1>9 DEF Ahead, LoopOn, Draining, Answering, Reclaiming
  <2>2. slot'[k].del => wanted' \/ Ahead(k)'
    BY <1>1, <1>2, <1>8, <2>1 DEF PromiseInv
  <2> QED BY <1>1, <1>2, <1>8, <1>9, <2>2, PromiseStays
<1>13. Dropped(k)' <= Dropped(k) /\ (Hung(k) => Hung(k)')
  <2>1. Dropped(k)' = 0 /\ Dropped(k) = 0
    BY <1>4, <1>5, <1>7 DEF Dropped
  <2> QED BY <1>4, <2>1 DEF Hung
<1>14. Heard(slot'[k]) = Heard(r)
  BY <1>5, <1>7 DEF Heard
<1>15. /\ slot'[k].client = c /\ slot'[k].gone = slot[k].gone /\ slot'[k].streaming = slot[k].streaming
       /\ slot'[k].acked = slot[k].acked /\ SlotOk(slot'[k])
  BY <1>2, <1>5, <1>6, <1>7
<1> QED BY <1>1, <1>2, <1>7, <1>9, <1>10, <1>11, <1>12, <1>13, <1>14, <1>15, LoopTouchKeeps

\* What is answered is done, and goes on to be reclaimed.
LEMMA MarkKeeps ==
  ASSUME ServerInv, Mark
  PROVE  ServerInv'
<1>1. /\ loop.at = "mark" /\ UNCHANGED <<conn, peer, queue, stream, upload, inFlight, task>>
      /\ wanted' = TRUE /\ Returns
  BY DEF Mark, LoopAt, loopKeeps
<1>2. PICK k \in 1 .. Slots, c \in Clients :
           /\ k = loop.s /\ c = slot[k].client /\ None \notin Clients
           /\ slot[k] \in SlotType /\ SlotOk(slot[k]) /\ loop \in LoopType /\ wanted \in BOOLEAN
           /\ SlotInv /\ StreamInv /\ LoopInv /\ PromiseInv
           /\ slot \in [1 .. Slots -> SlotType] /\ stream \in StreamType
           /\ upload \in [Clients -> UploadType]
           /\ upload[c].events = Heard(slot[k]) /\ upload[c].got = slot[k].acked
           /\ slot[k].state # "receiving"
           /\ \A s \in 1 .. Slots : ~LoopOn(s, {"letgo"})
  BY <1>1, ServedSlot DEF Answering
<1> DEFINE r == slot[k]
           q == MarkedDone(r)
<1>3. slot' = [slot EXCEPT ![k] = q]
  BY <1>2 DEF Mark
<1>4. /\ r.client # None /\ loop.next \in {"scan", "clean"}
      /\ (r.streaming => r.ended) /\ r.responded
  BY <1>1, <1>2 DEF LoopInv, Answering
<1>5. /\ q \in SlotType /\ q.acked = r.acked /\ q.ended = r.ended /\ q.state = "done"
      /\ q.client = r.client /\ q.begun = r.begun /\ q.streaming = r.streaming
      /\ q.aborted = r.aborted /\ q.del /\ q.gone = r.gone /\ ~q.buf
      /\ q.responded
  BY <1>2, <1>4 DEF SlotType, States, MarkedDone
<1>6. SlotOk(q)
  BY <1>2, <1>4, <1>5 DEF SlotOk
<1> HIDE DEF q
<1>7. slot' \in [1 .. Slots -> SlotType] /\ slot'[k] = q /\ \A s \in 1 .. Slots : s # k => slot'[s] = slot[s]
  BY <1>2, <1>3, <1>5, TouchIs
<1> HIDE DEF r
<1>8. \A s \in 1 .. Slots :
        /\ slot'[s].client = slot[s].client /\ slot'[s].streaming = slot[s].streaming
        /\ slot'[s].ended = slot[s].ended /\ slot'[s].aborted = slot[s].aborted
  BY <1>5, <1>7, Zenon DEF r
<1> USE DEF r
<1>9. /\ loop' \in LoopType /\ loop'.at \in {"idle", "scan", "clean"} /\ LoopInv'
  <2>1. CASE loop.next = "scan"
    <3>1. NextSlot
      BY <1>1, <2>1 DEF Returns
    <3> QED BY <1>2, <3>1, NextIs
  <2>2. CASE loop.next = "clean"
    <3>1. loop' \in LoopType /\ loop'.at = "clean" /\ loop'.s = k /\ loop'.next = loop.next
      BY <1>1, <1>2, <2>2, BackIs
    <3>2. LoopInv'
      BY <1>4, <1>5, <1>7, <3>1 DEF LoopInv, Draining, Answering, Reclaiming
    <3> QED BY <3>1, <3>2
  <2> QED BY <1>4, <2>1, <2>2
<1>10. StreamInv'
  <2>1. stream.owner # 0 => stream.owner \in 1 .. Slots
    BY <1>2 DEF StreamType
  <2>2. \A s \in 1 .. Slots : ~slot'[s].aborted /\ (slot'[s].streaming /\ ~slot'[s].ended => stream'.owner = s)
    BY <1>1, <1>2, <1>8 DEF StreamInv, LoopOn
  <2>3. stream'.owner # 0 => /\ slot'[stream'.owner].client # None /\ slot'[stream'.owner].streaming
                             /\ ~slot'[stream'.owner].ended
    BY <1>1, <1>2, <1>8, <2>1 DEF StreamInv
  <2> QED BY <2>2, <2>3 DEF StreamInv
<1>11. PromiseInv'
  BY <1>1 DEF PromiseInv
<1>12. Dropped(k)' <= Dropped(k) /\ (Hung(k) => Hung(k)')
  <2>1. Dropped(k)' = 0 /\ Dropped(k) = 0
    BY <1>4, <1>5, <1>7 DEF Dropped
  <2>2. Hung(k)'
    BY <1>5, <1>7, <1>9 DEF Hung, LoopOn
  <2> QED BY <2>1, <2>2
<1>13. Heard(slot'[k]) = Heard(r)
  BY <1>5, <1>7 DEF Heard
<1>14. /\ slot'[k].client = c /\ slot'[k].gone = slot[k].gone /\ slot'[k].streaming = slot[k].streaming
       /\ slot'[k].acked = slot[k].acked /\ SlotOk(slot'[k])
  BY <1>2, <1>5, <1>6, <1>7
<1>15. wanted' \in BOOLEAN
  BY <1>1
<1> QED BY <1>1, <1>2, <1>7, <1>9, <1>10, <1>11, <1>12, <1>13, <1>14, <1>15, LoopTouchKeeps

\* reclaimSlot(): the buffers are freed, and an upload that is open is aborted.
LEMMA CleanKeeps ==
  ASSUME ServerInv, Clean
  PROVE  ServerInv'
<1>1. loop.at = "clean" /\ UNCHANGED <<conn, peer, queue, wanted, inFlight, task>>
  BY DEF Clean, LoopAt, loopKeeps
<1>2. PICK k \in 1 .. Slots, c \in Clients :
           /\ k = loop.s /\ c = slot[k].client /\ None \notin Clients
           /\ slot[k] \in SlotType /\ SlotOk(slot[k]) /\ loop \in LoopType /\ wanted \in BOOLEAN
           /\ SlotInv /\ StreamInv /\ LoopInv /\ PromiseInv
           /\ slot \in [1 .. Slots -> SlotType] /\ stream \in StreamType
           /\ upload \in [Clients -> UploadType]
           /\ upload[c].events = Heard(slot[k]) /\ upload[c].got = slot[k].acked
           /\ upload[c].got + 0 = upload[c].got /\ upload[c].got + 0 \in 0 .. Parts
           /\ slot[k].state # "receiving"
           /\ \A s \in 1 .. Slots : ~LoopOn(s, {"letgo"})
  BY <1>1, ServedSlot DEF Reclaiming
<1> DEFINE r == slot[k]
           open == r.streaming /\ r.begun /\ ~r.ended
           q == [[r EXCEPT !.buf = FALSE] EXCEPT !.aborted = open]
<1>3. \A s \in 1 .. Slots : ~slot[s].aborted
  BY <1>1, <1>2 DEF StreamInv, LoopOn
<1>4. /\ slot' = [slot EXCEPT ![k] = q] /\ To("reset")
      /\ IF open THEN Says(c, "aborted", 0) ELSE UNCHANGED upload
      /\ stream' = IF stream.owner = k THEN [owner |-> 0, len |-> 0] ELSE stream
  <2>1. (r.aborted \/ open) = open /\ (open /\ ~r.aborted <=> open)
    BY <1>2, <1>3
  <2>2. /\ slot' = [slot EXCEPT ![k].buf = FALSE, ![k].aborted = @ \/ open] /\ To("reset")
        /\ IF open /\ ~r.aborted THEN Says(c, "aborted", 0) ELSE UNCHANGED upload
        /\ stream' = IF stream.owner = k THEN [owner |-> 0, len |-> 0] ELSE stream
    BY <1>2 DEF Clean, Cur, Open
  <2>3. slot' = [slot EXCEPT ![k] = q]
    BY <2>1, <2>2
  <2> QED BY <2>1, <2>2, <2>3
<1>5. r.client # None /\ r.del /\ (r.ended => r.responded)
  BY <1>1, <1>2 DEF LoopInv, Reclaiming
<1>6. /\ q \in SlotType /\ q.acked = r.acked /\ q.ended = r.ended /\ q.state = r.state
      /\ q.client = r.client /\ q.begun = r.begun /\ q.streaming = r.streaming
      /\ q.aborted = open /\ q.del = r.del /\ q.gone = r.gone /\ ~q.buf
      /\ q.responded = r.responded
  <2>1. open \in BOOLEAN
    OBVIOUS
  <2> HIDE DEF open
  <2> QED BY <1>2, <2>1 DEF SlotType
<1>7. SlotOk(q)
  <2>1. r.state # "ready"
    BY <1>2, <1>5 DEF SlotOk
  <2> QED BY <1>2, <1>5, <1>6, <2>1 DEF SlotOk
<1> HIDE DEF q
<1>8. slot' \in [1 .. Slots -> SlotType] /\ slot'[k] = q /\ \A s \in 1 .. Slots : s # k => slot'[s] = slot[s]
  BY <1>2, <1>4, <1>6, TouchIs
<1>9. /\ loop' \in LoopType /\ loop'.at = "reset" /\ loop'.s = k /\ loop'.next = loop.next
  BY <1>2, <1>4, MovesAre DEF LoopAts, Reclaiming, Nexts
<1>10. stream'.owner # k /\ (stream'.owner # 0 => stream' = stream /\ stream.owner \in 1 .. Slots)
       /\ (stream' = stream \/ stream' = [owner |-> 0, len |-> 0])
  BY <1>2, <1>4 DEF StreamType
<1>11. StreamInv'
  <2>1. LoopOn(k, {"reset"})'
    BY <1>9 DEF LoopOn
  <2>2. \A s \in 1 .. Slots : s # k => ~slot'[s].aborted /\ (slot'[s].streaming /\ ~slot'[s].ended => stream'.owner = s)
    <3>1. \A s \in 1 .. Slots : slot[s].streaming /\ ~slot[s].ended => stream.owner = s
      BY <1>1, <1>2 DEF StreamInv, LoopOn
    <3>2. \A s \in 1 .. Slots : s # k /\ stream.owner = s => stream'.owner = s
      BY <1>2, <1>4
    <3> QED BY <1>3, <1>8, <3>1, <3>2
  <2>3. stream'.owner # 0 => /\ slot'[stream'.owner].client # None /\ slot'[stream'.owner].streaming
                             /\ ~slot'[stream'.owner].ended
    BY <1>2, <1>8, <1>10 DEF StreamInv
  <2> QED BY <2>1, <2>2, <2>3 DEF StreamInv
<1>12. LoopInv'
  <2>1. r.begun => r.streaming
    BY <1>2 DEF SlotOk
  <2>2. /\ slot'[k].client # None /\ slot'[k].del /\ (slot'[k].ended => slot'[k].responded)
        /\ (slot'[k].begun /\ ~slot'[k].ended => slot'[k].aborted)
    BY <1>5, <1>6, <1>8, <2>1
  <2> QED BY <1>9, <1>10, <2>2 DEF LoopInv, Draining, Answering, Reclaiming
<1>13. PromiseInv'
  <2>1. Ahead(k)'
    BY <1>9 DEF Ahead, LoopOn, Reclaiming
  <2>2. \A s \in 1 .. Slots : s # k /\ slot'[s].del => slot[s].del
    BY <1>8
  <2> QED BY <1>1, <1>2, <1>9, <2>1, <2>2, PromiseStays
<1>14. Dropped(k)' <= Dropped(k) /\ (Hung(k) => Hung(k)')
  <2>1. Dropped(k)' = 0
    BY <1>9 DEF Dropped, LoopOn
  <2>2. Dropped(k) \in Nat
    BY DEF Dropped
  <2>3. Hung(k) => Hung(k)'
    BY <1>6, <1>8, <1>9 DEF Hung, LoopOn
  <2> QED BY <2>1, <2>2, <2>3
<1>15. /\ upload' \in [Clients -> UploadType] /\ upload'[c].events = Heard(slot'[k])
       /\ upload'[c].got = slot'[k].acked /\ \A d \in Clients : d # c => upload'[d] = upload[d]
  <2>1. CASE open
    <3>1. Says(c, "aborted", 0) /\ Heard(slot'[k]) = "aborted"
      BY <1>4, <1>6, <1>8, <2>1 DEF Heard
    <3> QED BY <1>2, <1>6, <1>8, <3>1, SaysIs
  <2>2. CASE ~open
    <3>1. upload' = upload
      BY <1>4, <2>2
    <3>2. Heard(slot'[k]) = Heard(r)
      BY <1>3, <1>6, <1>8, <2>2 DEF Heard
    <3> QED BY <1>2, <1>6, <1>8, <3>1, <3>2
  <2> QED BY <2>1, <2>2
<1>16. /\ slot'[k].client = c /\ slot'[k].gone = slot[k].gone /\ slot'[k].streaming = slot[k].streaming
       /\ slot'[k].acked = slot[k].acked /\ SlotOk(slot'[k])
  BY <1>2, <1>6, <1>7, <1>8
<1> QED BY <1>1, <1>2, <1>8, <1>9, <1>10, <1>11, <1>12, <1>13, <1>14, <1>15, <1>16, LoopTouchKeeps

\* resetSlot(): the slot is free, and its client is the loop's to release if
\* its end was told.
LEMMA ResetKeeps ==
  ASSUME ServerInv, Reset
  PROVE  ServerInv'
<1>1. loop.at = "reset" /\ UNCHANGED <<conn, peer, queue, stream, wanted, upload, inFlight, task>>
  BY DEF Reset, LoopAt, loopKeeps
<1>2. PICK k \in 1 .. Slots, c \in Clients :
           /\ k = loop.s /\ c = slot[k].client /\ None \notin Clients
           /\ slot[k] \in SlotType /\ SlotOk(slot[k]) /\ loop \in LoopType /\ wanted \in BOOLEAN
           /\ SlotInv /\ StreamInv /\ LoopInv /\ PromiseInv
           /\ slot \in [1 .. Slots -> SlotType] /\ stream \in StreamType
           /\ upload \in [Clients -> UploadType]
           /\ upload[c].events = Heard(slot[k]) /\ upload[c].got = slot[k].acked
           /\ slot[k].state # "receiving"
           /\ \A s \in 1 .. Slots : ~LoopOn(s, {"letgo"})
  BY <1>1, ServedSlot DEF Reclaiming
<1> DEFINE r == slot[k]
<1>3. /\ slot' = [slot EXCEPT ![k] = FreeSlot]
      /\ IF r.gone THEN loop' = [loop EXCEPT !.at = "release", !.dead = c] ELSE NextSlot
  BY <1>2 DEF Reset, Cur
<1>4. Types /\ TaskInv /\ ClientInv /\ HeadInv /\ PartInv /\ HeardInv /\ CountInv /\ Slots \in Nat /\ Parts \in Nat
  BY TypesAre DEF ServerInv
<1>5. r.client # None /\ r.del /\ stream.owner # k /\ (r.begun /\ ~r.ended => r.aborted)
  BY <1>1, <1>2 DEF LoopInv, Reclaiming
<1>6. /\ FreeSlot \in SlotType /\ FreeSlot.client = None /\ ~FreeSlot.del /\ ~FreeSlot.streaming /\ ~FreeSlot.aborted
      /\ ~FreeSlot.gone /\ SlotOk(FreeSlot)
  BY <1>4 DEF FreeSlot, SlotType, States, SlotOk
<1>7. slot' \in [1 .. Slots -> SlotType] /\ slot'[k] = FreeSlot /\ \A s \in 1 .. Slots : s # k => slot'[s] = slot[s]
  BY <1>2, <1>3, <1>6, TouchIs
<1>8. /\ loop' \in LoopType /\ LoopInv' /\ loop'.at \in {"release", "idle", "scan"}
      /\ \A d \in Clients : Dead(d)' <=> (r.gone /\ d = c)
  <2>1. CASE r.gone
    <3>1. loop' = [loop EXCEPT !.at = "release", !.dead = c] /\ "release" \in LoopAts
      BY <1>3, <2>1 DEF LoopAts
    <3>2. loop' \in LoopType /\ loop'.at = "release" /\ loop'.dead = c /\ loop'.s = k
      BY <1>2, <3>1 DEF LoopType
    <3>3. LoopInv'
      BY <3>2 DEF LoopInv, Draining, Answering, Reclaiming
    <3> QED BY <2>1, <3>2, <3>3 DEF Dead
  <2>2. CASE ~r.gone
    <3>1. NextSlot
      BY <1>3, <2>2
    <3>2. loop' \in LoopType /\ LoopInv' /\ loop'.at \in {"idle", "scan"}
      BY <1>2, <3>1, NextIs
    <3> QED BY <2>2, <3>2 DEF Dead
  <2> QED BY <2>1, <2>2
<1>9. PromiseInv'
  <2>1. ~slot'[k].del /\ \A s \in 1 .. Slots : s # k /\ slot'[s].del => slot[s].del
    BY <1>6, <1>7
  <2>2. CASE r.gone
    <3>1. loop' = [loop EXCEPT !.at = "release", !.dead = c]
      BY <1>3, <2>2
    <3>2. loop'.at = "release" /\ loop'.s = loop.s
      BY <1>2, <3>1 DEF LoopType
    <3> QED BY <1>1, <1>2, <2>1, <3>2, PromiseStays
  <2>3. CASE ~r.gone
    <3>1. NextSlot
      BY <1>3, <2>3
    <3> QED BY <1>1, <1>2, <2>1, <3>1, PromiseNext
  <2> QED BY <2>2, <2>3
<1>10. SlotInv'
  <2>1. \A s \in 1 .. Slots : SlotOk(slot'[s])
    BY <1>2, <1>6, <1>7 DEF SlotInv
  <2>2. \A s, t \in 1 .. Slots : s # t /\ slot'[s].client = slot'[t].client => slot'[s].client = None
    BY <1>2, <1>6, <1>7 DEF SlotInv
  <2> QED BY <2>1, <2>2 DEF SlotInv
<1>11. \A s \in 1 .. Slots :
         /\ ~LoopOn(s, {"letgo"})' /\ ~LoopOn(s, {"reset"})' /\ ~LoopOn(s, {"settle"})'
         /\ ~LoopOn(s, {"answered", "hangup"})'
         /\ (s # k => ~LoopOn(s, {"reset"})) /\ ~LoopOn(s, {"settle"}) /\ ~LoopOn(s, {"answered", "hangup"})
  BY <1>1, <1>2, <1>8 DEF LoopOn
<1>12. StreamInv'
  <2>1. stream.owner # 0 => /\ stream.owner \in 1 .. Slots /\ slot[stream.owner].client # None
                            /\ slot[stream.owner].streaming /\ ~slot[stream.owner].ended
    BY <1>2 DEF StreamInv, StreamType
  <2>2. stream.owner # 0 => slot'[stream.owner] = slot[stream.owner]
    BY <1>5, <1>7, <2>1
  <2>3. \A s \in 1 .. Slots : ~slot'[s].aborted /\ (slot'[s].streaming /\ ~slot'[s].ended => stream.owner = s)
    BY <1>2, <1>6, <1>7, <1>11 DEF StreamInv
  <2>4. stream' = stream
    BY <1>1
  <2> QED BY <2>1, <2>2, <2>3, <2>4 DEF StreamInv
<1>13. SlotsInv'
  BY <1>8, <1>9, <1>10, <1>12 DEF SlotsInv
<1>14. Types'
  BY <1>1, <1>4, <1>7, <1>8 DEF Types
<1>15. TaskInv'
  <2>1. task.at = "take" => task.s # k /\ task.s \in 1 .. Slots
    BY <1>2, <1>4 DEF TaskInv
  <2> QED BY <1>1, <1>4, <1>7, <2>1 DEF TaskInv, Has
<1>16. \A s \in 1 .. Slots : s # k => slot[s].client # c
  BY <1>2, <1>5 DEF SlotInv
<1>17. /\ ~Slotted(c)' /\ ~Gone(c)' /\ Slotted(c) /\ (Gone(c) <=> r.gone) /\ ~Streams(c)'
  <2>1. \A s \in 1 .. Slots : slot'[s].client # c
    BY <1>2, <1>6, <1>7, <1>16
  <2> QED BY <1>2, <1>16, <2>1 DEF Slotted, Gone, Has, Streams
<1>18. ASSUME NEW d \in Clients, d # c
       PROVE  /\ (Slotted(d)' <=> Slotted(d)) /\ (Gone(d)' <=> Gone(d)) /\ (Streams(d)' <=> Streams(d))
              /\ \A s \in 1 .. Slots : (Has(s, d)' <=> Has(s, d)) /\ (Has(s, d) => slot'[s] = slot[s])
  <2>1. \A s \in 1 .. Slots : (Has(s, d)' <=> Has(s, d)) /\ (Has(s, d) => slot'[s] = slot[s])
    BY <1>2, <1>6, <1>7, <1>18 DEF Has
  <2> QED BY <2>1 DEF Slotted, Gone, Streams
<1>19. \A d \in Clients : /\ ~Dead(d) /\ (Told(d)' <=> Told(d)) /\ Ev(d)' = Ev(d) /\ conn'[d] = conn[d]
                          /\ (Alive(d)' <=> Alive(d)) /\ (Pending(d)' <=> Pending(d))
  <2>1. \A d \in Clients : ~Dead(d)
    BY <1>1 DEF Dead
  <2>2. \A d \in Clients : Told(d)' <=> Told(d)
    BY <1>1, <1>8, <1>17, <1>18, <2>1 DEF Told
  <2> QED BY <1>1, <2>1, <2>2 DEF Ev, Alive, Pending, Failing, On
<1>20. CountInv'
  BY <1>1, <1>4, <1>19, CountStays
<1>21. HeadInv'
  BY <1>1, <1>4, <1>17, <1>18, <1>19 DEF HeadInv, HeadOk, HeadHand, On
<1>22. ClientInv'
  <2>1. ASSUME NEW d \in Clients, d # c PROVE ClientOk(d)'
    <3>1. \A s \in 1 .. Slots :
            /\ slot'[s].client = d <=> slot[s].client = d
            /\ Has(s, d) => slot'[s].gone = slot[s].gone /\ (Hung(s) => Hung(s)')
      BY <1>11, <1>18, <2>1 DEF Has, Hung
    <3>2. Aside(d)
      BY <1>1, <1>8, <1>19, <2>1, <3>1 DEF Aside
    <3> QED BY <1>4, <3>2, Bystander DEF ClientInv
  <2>2. ClientOk(c)'
    <3>1. ClientOk(c) /\ Alive(c) /\ conn[c].wired /\ ~conn[c].released
      BY <1>4, <1>17 DEF ClientInv, ClientOk, LifeOk
    <3>2. LifeOk(c)'
      BY <1>1, <1>17, <1>19, <3>1 DEF ClientOk, LifeOk
    <3>3. TaskOk(c)'
      BY <1>1, <1>17, <1>19, <3>1 DEF ClientOk, TaskOk, On, Failing
    <3>4. EventsOk(c)'
      BY <1>1, <1>19, <3>1 DEF ClientOk, EventsOk, On
    <3>5. HangOk(c)'
      <4>1. \A s \in 1 .. Slots : ~Has(s, c)'
        BY <1>17 DEF Slotted
      <4> QED BY <1>1, <1>19, <3>1, <4>1 DEF ClientOk, HangOk, On
    <3> QED BY <3>2, <3>3, <3>4, <3>5 DEF ClientOk
  <2>3. Once(queue')
    BY <1>1, <1>4 DEF ClientInv
  <2> QED BY <2>1, <2>2, <2>3 DEF ClientInv
<1>23. PartInv'
  <2>1. \A d \in Clients : Left(d)' = Left(d)
    <3>1. stream.owner # 0 => slot'[stream.owner] = slot[stream.owner]
      BY <1>2, <1>5, <1>7 DEF StreamType
    <3> QED BY <1>1, <3>1 DEF Left, InHand, On, Buffered
  <2>2. \A d \in Clients : Left(d)' <= peer'[d].sent /\ (~peer'[d].head => peer'[d].sent = 0)
    BY <1>1, <1>4, <2>1 DEF PartInv
  <2>3. ASSUME NEW s \in 1 .. Slots, slot'[s].client # None, slot'[s].streaming
        PROVE  slot'[s].acked + Left(slot[s].client)' + Dropped(s)' <= peer'[slot'[s].client].sent
    <3>1. s # k /\ slot'[s] = slot[s]
      BY <1>6, <1>7, <2>3
    <3>2. PICK d \in Clients : d = slot[s].client
      BY <1>2, <2>3, <3>1 DEF SlotType
    <3>3. Dropped(s)' = Dropped(s)
      BY <1>11, <3>1 DEF Dropped
    <3>4. slot[s].acked + Left(d) + Dropped(s) <= peer[d].sent
      BY <1>4, <2>3, <3>1, <3>2 DEF PartInv
    <3> QED BY <1>1, <2>1, <3>1, <3>2, <3>3, <3>4
  <2> QED BY <2>2, <2>3 DEF PartInv
<1>24. HeardInv'
  <2>1. \A d \in Clients : ~conn'[d].wired \/ On(d, {"alloc"})' => upload'[d].events = "none" /\ upload'[d].got = 0
    BY <1>1, <1>4 DEF HeardInv, On
  <2>2. upload[c].events # "begun"
    BY <1>2, <1>5 DEF Heard
  <2>3. \A d \in Clients : upload'[d].events = "begun" => Slotted(d)'
    BY <1>1, <1>4, <1>18, <2>2 DEF HeardInv
  <2>4. ASSUME NEW s \in 1 .. Slots, slot'[s].client # None
        PROVE  /\ upload'[slot'[s].client].events = Heard(slot'[s])
               /\ upload'[slot'[s].client].got = slot'[s].acked + (IF LoopOn(s, {"settle"})' THEN loop'.n ELSE 0)
    <3>1. slot'[s] = slot[s]
      BY <1>6, <1>7, <2>4
    <3> QED BY <1>1, <1>4, <1>11, <2>4, <3>1 DEF HeardInv
  <2> QED BY <2>1, <2>3, <2>4 DEF HeardInv
<1> QED BY <1>13, <1>14, <1>15, <1>20, <1>21, <1>22, <1>23, <1>24 DEF ServerInv

\* The loop queues an event for a client, that no other client sees.
LEMMA LoopSendsKeeps ==
  ASSUME ServerInv, NEW c \in Clients, NEW ev \in {"close", "release"},
         queue' = Append(queue, Event(ev, c, None)), ev = "close" => ev \notin Ev(c),
         UNCHANGED <<peer, slot, stream, wanted, upload, inFlight, task>>,
         conn' \in [Clients -> ConnType],
         \A d \in Clients : /\ conn'[d].wired = conn[d].wired /\ conn'[d].obj = conn[d].obj
                            /\ d # c => conn'[d] = conn[d] /\ ~Dead(d),
         loop.at \in {"hangup", "release"}, loop'.at \in {"mark", "scan", "idle"},
         loop' \in LoopType, LoopInv', PromiseInv', Told(c)' <=> Told(c), ClientOk(c)'
  PROVE  ServerInv'
<1> DEFINE e == Event(ev, c, None)
<1>1. /\ Types /\ TaskInv /\ ClientInv /\ HeadInv /\ PartInv /\ HeardInv /\ CountInv
      /\ SlotInv /\ StreamInv /\ queue \in Seq(EventType) /\ None \notin Clients
  BY TypesAre DEF ServerInv, SlotsInv
<1>2. e \in EventType /\ Label(e) = ev /\ e.c = c /\ e.x = None
  BY <1>1 DEF Event, EventType, Label, Kinds, Heads, Data, None
<1> HIDE DEF e
<1>3. /\ queue' \in Seq(EventType) /\ Once(queue')
      /\ \A d \in Clients :
           /\ Events(queue', d) = IF d = c THEN Ev(d) \cup {ev} ELSE Ev(d)
           /\ Queued(queue', d) = Queued(queue, d)
           /\ Led(queue, d) /\ d # c => Led(queue', d)
  <2>1. queue' = Append(queue, e)
    BY DEF e
  <2>2. Label(e) \notin Events(queue, e.c) \cap Singles
    BY <1>2 DEF Ev, Singles
  <2>3. \A d \in Clients : Queued(queue', d) = Queued(queue, d) + 0
    BY <1>1, <1>2, <2>1, Appended DEF None
  <2>4. \A d \in Clients : Queued(queue', d) = Queued(queue, d)
    BY <1>1, <2>3, Counting
  <2> QED BY <1>1, <1>2, <2>1, <2>2, <2>4, Appended DEF Ev, ClientInv
<1>4. \A s : /\ ~LoopOn(s, {"letgo"}) /\ ~LoopOn(s, {"reset"}) /\ ~LoopOn(s, {"settle"})
             /\ ~LoopOn(s, {"letgo"})' /\ ~LoopOn(s, {"reset"})' /\ ~LoopOn(s, {"settle"})'
             /\ ~LoopOn(s, {"answered", "hangup"})'
  BY DEF LoopOn
<1>5. Types'
  BY <1>1, <1>3 DEF Types
<1>6. TaskInv'
  BY <1>1 DEF TaskInv, Has
<1>7. SlotsInv'
  BY <1>1, <1>4 DEF SlotsInv, SlotInv, StreamInv
<1>8. HeadInv'
  <2>1. \A d \in Clients : "head" \in Ev(d)' <=> "head" \in Ev(d)
    BY <1>3 DEF Ev
  <2> QED BY <1>1, <2>1 DEF HeadInv, HeadOk, HeadHand, Streams, Has, On
<1>9. PartInv'
  <2>1. \A d \in Clients : Left(d)' = Left(d)
    <3>1. \A d : InHand(d)' = InHand(d) /\ Buffered(d)' = Buffered(d)
      BY DEF InHand, On, Buffered
    <3> QED BY <1>3, <3>1 DEF Left
  <2>2. \A s : Dropped(s)' = Dropped(s)
    BY <1>4 DEF Dropped
  <2>3. \A d \in Clients : Left(d)' <= peer'[d].sent /\ (~peer'[d].head => peer'[d].sent = 0)
    BY <1>1, <2>1 DEF PartInv
  <2>4. ASSUME NEW s \in 1 .. Slots, slot'[s].client # None, slot'[s].streaming
        PROVE  slot'[s].acked + Left(slot[s].client)' + Dropped(s)' <= peer'[slot'[s].client].sent
    <3>1. slot'[s] = slot[s]
      OBVIOUS
    <3>2. PICK d \in Clients : d = slot[s].client
      BY <1>1, <2>4, <3>1, TypesAre DEF SlotType
    <3>3. slot[s].acked + Left(d) + Dropped(s) <= peer[d].sent
      BY <1>1, <2>4, <3>1, <3>2 DEF PartInv
    <3> QED BY <2>1, <2>2, <3>1, <3>2, <3>3
  <2> QED BY <2>3, <2>4 DEF PartInv
<1>10. HeardInv'
  BY <1>1, <1>4 DEF HeardInv, Heard, On, Slotted, Has
<1>11. ASSUME NEW d \in Clients, d # c
       PROVE  ClientOk(d)' /\ (Told(d)' <=> Told(d))
  <2>1. \A s \in 1 .. Slots :
          /\ slot'[s].client = d <=> slot[s].client = d
          /\ Has(s, d) => slot'[s].gone = slot[s].gone /\ (Hung(s) => Hung(s)')
    BY <1>4 DEF Hung
  <2>2. ~Dead(d) /\ ~Dead(d)' /\ conn'[d] = conn[d]
    BY <1>11 DEF Dead
  <2>3. Aside(d)
    BY <1>3, <1>11, <2>1, <2>2 DEF Aside, Ev
  <2>4. Told(d)' <=> Told(d)
    BY <2>2 DEF Told, Gone, Has
  <2>5. ClientOk(d)
    BY <1>1 DEF ClientInv
  <2> QED BY <2>3, <2>4, <2>5, Bystander
<1>12. ClientInv'
  BY <1>3, <1>11 DEF ClientInv
<1>13. CountInv'
  <2>1. \A d \in Clients : (Told(d)' <=> Told(d)) /\ (Alive(d)' <=> Alive(d)) /\ (conn[d].wired <=> conn'[d].wired)
    BY <1>11 DEF Alive
  <2> QED BY <1>1, <2>1, CountStays
<1> QED BY <1>5, <1>6, <1>7, <1>8, <1>9, <1>10, <1>12, <1>13 DEF ServerInv

\* The loop asks the task to close what it has answered.
LEMMA HangUpKeeps ==
  ASSUME ServerInv, HangUp
  PROVE  ServerInv'
<1>1. loop.at = "hangup" /\ UNCHANGED <<conn, peer, slot, stream, wanted, upload, inFlight, task>>
  BY DEF HangUp, LoopAt, loopKeeps
<1>2. PICK k \in 1 .. Slots, c \in Clients :
           /\ k = loop.s /\ c = slot[k].client /\ None \notin Clients
           /\ slot[k] \in SlotType /\ SlotOk(slot[k]) /\ loop \in LoopType /\ wanted \in BOOLEAN
           /\ SlotInv /\ StreamInv /\ LoopInv /\ PromiseInv
           /\ slot \in [1 .. Slots -> SlotType]
           /\ slot[k].state # "receiving"
  BY <1>1, ServedSlot DEF Answering
<1>3. queue' = Append(queue, Event("close", c, None)) /\ To("mark")
  BY <1>2 DEF HangUp, Cur
<1>4. Types /\ ClientInv /\ queue \in Seq(EventType)
  BY TypesAre DEF ServerInv
<1>5. /\ loop' \in LoopType /\ loop'.at = "mark" /\ loop'.s = k /\ loop'.next = loop.next
  BY <1>2, <1>3, MovesAre DEF LoopAts, Answering, Nexts
<1>6. LoopInv'
  <2>1. LET r == slot[k] IN
        /\ r.client # None /\ r.state # "receiving" /\ loop.next \in {"scan", "clean"}
        /\ loop.next = "clean" => r.del
        /\ r.streaming => r.ended
        /\ r.responded /\ r.state # "ready"
    BY <1>1, <1>2 DEF LoopInv, Answering
  <2> QED BY <1>1, <1>2, <1>5, <2>1 DEF LoopInv, Draining, Answering, Reclaiming
<1>7. PromiseInv'
  <2>1. Ahead(k) => Ahead(k)'
    BY <1>1, <1>2, <1>5 DEF Ahead, LoopOn, Answering, Draining, Reclaiming
  <2>2. slot'[k].del => wanted' \/ Ahead(k)'
    BY <1>1, <1>2, <2>1 DEF PromiseInv
  <2> QED BY <1>1, <1>2, <1>5, <2>2, PromiseStays
<1>8. slot[k].responded /\ Hung(k)' /\ ~Hung(k)
  <2>1. slot[k].responded
    BY <1>1, <1>2 DEF LoopInv
  <2> QED BY <1>1, <1>2, <1>5, <2>1 DEF Hung, LoopOn
<1>9. Slotted(c) /\ Has(k, c) /\ \A s \in 1 .. Slots : Has(s, c) => s = k
  BY <1>2 DEF Slotted, Has, SlotInv
<1>10. /\ ClientOk(c) /\ Alive(c) /\ conn[c].wired /\ "close" \notin Ev(c) /\ ~(Told(c) /\ On(c, {"close"}))
       /\ "accept" \notin Ev(c)
  <2>1. ClientOk(c) /\ Alive(c) /\ conn[c].wired
    BY <1>4, <1>9 DEF ClientInv, ClientOk, LifeOk
  <2> QED BY <1>8, <1>9, <2>1 DEF ClientOk, HangOk, EventsOk
<1>11. \A d \in Clients : Dead(d)' <=> Dead(d)
  BY <1>1, <1>5 DEF Dead
<1>12. Told(c)' <=> Told(c)
  BY <1>1, <1>11 DEF Told, Gone, Has
<1>13. Ev(c)' = Ev(c) \cup {"close"}
  <2> DEFINE e == Event("close", c, None)
  <2>1. e \in EventType /\ Label(e) = "close" /\ e.c = c
    BY <1>2 DEF Event, EventType, Label, Kinds, Heads, Data, None
  <2>2. queue' = Append(queue, e)
    BY <1>3
  <2> HIDE DEF e
  <2> QED BY <1>4, <2>1, <2>2, Appended DEF Ev
<1>14. ClientOk(c)'
  <2>1. /\ (Alive(c)' <=> Alive(c)) /\ conn'[c] = conn[c] /\ (Slotted(c)' <=> Slotted(c)) /\ task' = task
        /\ (Failing(c)' <=> Failing(c))
    BY <1>1 DEF Alive, Slotted, Has, Failing, On
  <2>2. Pending(c)' <=> Pending(c)
    BY <1>13, <2>1 DEF Pending
  <2>3. LifeOk(c)'
    BY <1>10, <1>11, <1>12, <1>13, <2>1, <2>2 DEF ClientOk, LifeOk
  <2>4. TaskOk(c)'
    BY <1>10, <1>12, <1>13, <2>1, <2>2 DEF ClientOk, TaskOk, On
  <2>5. EventsOk(c)'
    <3>1. ~On(c, {"alloc"})
      BY <1>9, <1>10 DEF ClientOk, TaskOk
    <3> QED BY <1>10, <1>13, <2>1, <3>1 DEF ClientOk, EventsOk, On
  <2>6. HangOk(c)'
    <3>1. \A s \in 1 .. Slots : Has(s, c)' => Hung(s)'
      <4>1. \A s \in 1 .. Slots : Has(s, c)' => s = k
        BY <1>1, <1>9 DEF Has
      <4> QED BY <1>8, <4>1
    <3> QED BY <1>10, <1>12, <2>1, <3>1 DEF HangOk, On
  <2> QED BY <2>3, <2>4, <2>5, <2>6 DEF ClientOk
<1>15. conn' \in [Clients -> ConnType] /\ \A d \in Clients : ~Dead(d)
  BY <1>1, <1>4 DEF Types, Dead
<1> QED BY <1>1, <1>3, <1>5, <1>6, <1>7, <1>10, <1>12, <1>14, <1>15, LoopSendsKeeps

\* A client whose slot is free is released by the loop.
LEMMA ReleaseKeeps ==
  ASSUME ServerInv, Release
  PROVE  ServerInv'
<1>1. loop.at = "release" /\ NextSlot /\ UNCHANGED <<peer, slot, stream, wanted, upload, inFlight, task>>
  BY DEF Release, LoopAt, loopKeeps
<1>2. PICK k \in 1 .. Slots : k = loop.s /\ PromiseInv /\ LoopInv /\ None \notin Clients
  BY <1>1, LoopSlot
<1>3. PICK c \in Clients : c = loop.dead
  BY <1>1, <1>2 DEF LoopInv
<1>4. queue' = Append(queue, Event("release", c, None)) /\ conn' = [conn EXCEPT ![c].released = TRUE]
  BY <1>3 DEF Release
<1>5. Types /\ ClientInv /\ queue \in Seq(EventType) /\ conn \in [Clients -> ConnType]
  BY TypesAre DEF ServerInv, Types
<1>6. loop' \in LoopType /\ LoopInv' /\ loop'.at \in {"idle", "scan"}
  BY <1>1, <1>2, NextIs
<1>7. PromiseInv'
  <2>1. ~Ahead(k)
    BY <1>1, <1>2 DEF Ahead, LoopOn, Draining, Answering, Reclaiming
  <2>2. slot'[k].del => wanted'
    BY <1>1, <1>2, <2>1 DEF PromiseInv
  <2> QED BY <1>1, <1>2, <2>2, PromiseNext
<1>8. /\ conn' \in [Clients -> ConnType] /\ conn'[c].released /\ conn'[c].wired = conn[c].wired
      /\ conn'[c].obj = conn[c].obj /\ conn'[c].pcb = conn[c].pcb
      /\ \A d \in Clients : d # c => conn'[d] = conn[d]
  <2> DEFINE q == [conn[c] EXCEPT !.released = TRUE]
  <2>1. q \in ConnType /\ q.released /\ q.wired = conn[c].wired /\ q.obj = conn[c].obj /\ q.pcb = conn[c].pcb
    <3>1. conn[c] \in ConnType
      BY <1>5
    <3> QED BY <3>1 DEF ConnType
  <2>2. conn' = [conn EXCEPT ![c] = q]
    BY <1>4
  <2> HIDE DEF q
  <2> QED BY <1>5, <2>1, <2>2
<1>9. \A d \in Clients : (Dead(d) <=> d = c) /\ ~Dead(d)'
  BY <1>1, <1>3, <1>6 DEF Dead
<1>10. /\ ClientOk(c) /\ Alive(c) /\ conn[c].wired /\ ~Slotted(c) /\ Told(c) /\ Told(c)'
       /\ ~Pending(c) /\ (task.c = c => task.at = "close") /\ "accept" \notin Ev(c)
  <2>1. ClientOk(c) /\ Dead(c)
    BY <1>5, <1>9 DEF ClientInv
  <2>2. Told(c) /\ Told(c)'
    BY <1>8, <2>1 DEF Told
  <2>3. Alive(c) /\ conn[c].wired
    BY <2>1 DEF ClientOk, LifeOk
  <2> QED BY <2>1, <2>2, <2>3 DEF ClientOk, LifeOk, EventsOk
<1>11. Ev(c)' = Ev(c) \cup {"release"}
  <2> DEFINE e == Event("release", c, None)
  <2>1. e \in EventType /\ Label(e) = "release" /\ e.c = c
    BY <1>2 DEF Event, EventType, Label, Kinds, Heads, Data, None
  <2>2. queue' = Append(queue, e)
    BY <1>4
  <2> HIDE DEF e
  <2> QED BY <1>5, <2>1, <2>2, Appended DEF Ev
<1>12. ClientOk(c)'
  <2>1. /\ Alive(c)' /\ conn'[c].wired /\ ~Slotted(c)' /\ task' = task /\ (Failing(c)' <=> Failing(c))
    BY <1>1, <1>8, <1>10 DEF Alive, Slotted, Has, Failing, On
  <2>2. ~Pending(c)' /\ ~conn'[c].pcb /\ ~Failing(c) /\ "error" \notin Ev(c)'
    BY <1>8, <1>10, <1>11, <2>1 DEF Pending
  <2>3. LifeOk(c)'
    BY <1>8, <1>9, <1>10, <1>11, <2>1, <2>2 DEF LifeOk, Alive
  <2>4. TaskOk(c)'
    BY <1>10, <2>1, <2>2 DEF TaskOk, On
  <2>5. EventsOk(c)'
    BY <1>8, <1>10, <1>11, <2>1, <2>2 DEF ClientOk, EventsOk, On
  <2>6. HangOk(c)'
    <3>1. \A s \in 1 .. Slots : ~Has(s, c) /\ ~Has(s, c)'
      BY <2>1, <1>10 DEF Slotted
    <3> QED BY <1>10, <1>11, <2>1, <3>1 DEF ClientOk, HangOk, On
  <2> QED BY <2>3, <2>4, <2>5, <2>6 DEF ClientOk
<1>13. \A d \in Clients : /\ conn'[d].wired = conn[d].wired /\ conn'[d].obj = conn[d].obj
                          /\ d # c => conn'[d] = conn[d] /\ ~Dead(d)
  BY <1>8, <1>9
<1> QED BY <1>1, <1>4, <1>6, <1>7, <1>8, <1>10, <1>12, <1>13, LoopSendsKeeps

----------------------------------------------------------------------------
(* The whole.                                                              *)

LEMMA ServerStarts ==
  ASSUME Init
  PROVE  ServerInv
<1>1. /\ Slots \in Nat \ {0} /\ Parts \in Nat \ {0} /\ Window \in Nat \ {0} /\ MaxInFlight \in Nat \ {0}
      /\ None \notin Clients
  BY ServerAssumption DEF None
<1>2. /\ \A c \in Clients : /\ conn[c].obj = "none" /\ ~conn[c].pcb /\ ~conn[c].wired /\ ~conn[c].released
                            /\ ~peer[c].head /\ peer[c].sent = 0
                            /\ upload[c].events = "none" /\ upload[c].got = 0
      /\ queue = <<>> /\ stream.owner = 0 /\ stream.len = 0 /\ inFlight = 0 /\ wanted = FALSE
      /\ task = AtRest /\ loop = NoLoop /\ \A s \in 1 .. Slots : slot[s] = FreeSlot
  BY DEF Init
<1>3. Types
  <2>1. conn \in [Clients -> ConnType] /\ peer \in [Clients -> PeerType] /\ upload \in [Clients -> UploadType]
    BY <1>1 DEF Init, ConnType, PeerType, UploadType
  <2>2. slot \in [1 .. Slots -> SlotType]
    <3>1. FreeSlot \in SlotType
      BY <1>1 DEF FreeSlot, SlotType, States
    <3> QED BY <3>1 DEF Init
  <2>3. task \in TaskType /\ loop \in LoopType /\ stream \in StreamType
    BY <1>1 DEF Init, AtRest, NoLoop, TaskType, TaskAts, LoopType, LoopAts, StreamType
  <2>4. queue \in Seq(EventType)
    BY <1>2
  <2> QED BY <1>2, <2>1, <2>2, <2>3, <2>4 DEF Types
<1>4. task.at = "idle" /\ task.c = None /\ loop.at = "idle"
  BY <1>2 DEF AtRest, NoLoop
<1>5. \A c \in Clients : task.c # c /\ (\A A : ~On(c, A)) /\ ~Dead(c)
  BY <1>1, <1>4 DEF On, Dead
<1>6. /\ FreeSlot.client = None /\ ~FreeSlot.del /\ ~FreeSlot.streaming /\ ~FreeSlot.aborted /\ ~FreeSlot.gone
      /\ SlotOk(FreeSlot)
  BY <1>1 DEF FreeSlot, SlotOk
<1>7. \A c \in Clients : /\ ~Slotted(c) /\ ~Gone(c) /\ ~Streams(c) /\ \A s \in 1 .. Slots : ~Has(s, c)
  BY <1>1, <1>2, <1>6 DEF Slotted, Gone, Streams, Has
<1>8. Once(queue) /\ \A c \in Clients : Ev(c) = {} /\ Led(queue, c) /\ PartsIn(queue, c) = {}
  <2>1. Len(queue) = 0
    BY <1>2
  <2> QED BY <2>1 DEF Once, Ev, Events, Led, Places, PartsIn
<1>9. TaskInv
  BY <1>2, <1>4 DEF TaskInv
<1>10. ClientInv
  <2>1. ASSUME NEW c \in Clients PROVE ClientOk(c)
    <3>1. ~Alive(c) /\ ~Told(c) /\ ~Pending(c) /\ ~Failing(c)
      BY <1>2, <1>5, <1>7, <1>8 DEF Alive, Told, Pending, Failing
    <3>2. LifeOk(c) /\ TaskOk(c)
      BY <1>2, <1>5, <1>7, <1>8, <3>1 DEF LifeOk, TaskOk
    <3>3. EventsOk(c) /\ HangOk(c)
      BY <1>2, <1>5, <1>7, <1>8, <3>1 DEF EventsOk, HangOk
    <3> QED BY <3>2, <3>3 DEF ClientOk
  <2> QED BY <1>8, <2>1 DEF ClientInv
<1>11. HeadInv
  BY <1>5, <1>7, <1>8 DEF HeadInv, HeadOk, HeadHand
<1>12. SlotsInv
  <2>1. SlotInv
    BY <1>2, <1>6 DEF SlotInv
  <2>2. StreamInv
    BY <1>2, <1>6 DEF StreamInv
  <2>3. LoopInv
    BY <1>2, <1>4 DEF LoopInv, Draining, Answering, Reclaiming
  <2>4. PromiseInv
    BY <1>2, <1>6 DEF PromiseInv
  <2> QED BY <2>1, <2>2, <2>3, <2>4 DEF SlotsInv
<1>13. PartInv
  <2>1. \A c \in Clients : Left(c) = 0
    <3>1. \A c \in Clients : Queued(queue, c) = 0
      BY <1>8, FS_EmptySet DEF Queued
    <3>2. \A c \in Clients : InHand(c) = 0 /\ Buffered(c) = 0
      BY <1>2, <1>5 DEF InHand, Buffered
    <3> QED BY <3>1, <3>2 DEF Left
  <2> QED BY <1>2, <1>6, <2>1 DEF PartInv
<1>14. HeardInv
  BY <1>2, <1>6 DEF HeardInv
<1>15. CountInv
  <2>1. Counted = {}
    BY <1>2 DEF Counted, Alive
  <2> QED BY <1>1, <1>2, <2>1, FS_EmptySet DEF CountInv
<1> QED BY <1>3, <1>9, <1>10, <1>11, <1>12, <1>13, <1>14, <1>15 DEF ServerInv

LEMMA ServerStutters ==
  ASSUME ServerInv, UNCHANGED httpdVars
  PROVE  ServerInv'
<1>1. UNCHANGED <<conn, peer, queue, slot, stream, inFlight, wanted, task, loop, upload>>
  BY DEF httpdVars
<1>2. Types' /\ TaskInv' /\ SlotsInv'
  BY <1>1 DEF ServerInv, Types, TaskInv, Has, SlotsInv, SlotInv, StreamInv, LoopInv, PromiseInv, Ahead, LoopOn
<1>3. \A c : /\ Ev(c)' = Ev(c) /\ (Alive(c)' <=> Alive(c)) /\ (Told(c)' <=> Told(c))
             /\ (Streams(c)' <=> Streams(c)) /\ (HeadHand(c)' <=> HeadHand(c)) /\ Left(c)' = Left(c)
             /\ (Slotted(c)' <=> Slotted(c)) /\ (Dead(c)' <=> Dead(c))
  BY <1>1 DEF Ev, Alive, Told, Gone, Has, Dead, Streams, HeadHand, On, Left, InHand, Buffered, Slotted
<1>4. HeadInv' /\ CountInv'
  BY <1>1, <1>3, CountStays DEF ServerInv, HeadInv, HeadOk
<1>5. ClientInv'
  <2>1. \A c : Aside(c)
    BY <1>1, <1>3 DEF Aside, Has, Hung, LoopOn
  <2> QED BY <1>1, <2>1, Bystander DEF ServerInv, ClientInv
<1>6. PartInv' /\ HeardInv'
  <2>1. PartInv'
    <3>1. \A c \in Clients : /\ Queued(queue', c) = Queued(queue, c) /\ Queued(queue, c) \in Nat
                             /\ InHand(c)' = InHand(c) /\ InHand(c) \in Nat
      BY <1>1, Counting DEF ServerInv, InHand, On, Types
    <3>2. \A c \in Clients : Queued(queue', c) + InHand(c)' <= Queued(queue, c) + InHand(c)
      BY <3>1
    <3> QED BY <1>1, <1>2, <3>2, PartsStay DEF ServerInv
  <2>2. HeardInv'
    BY <1>1, HeardStays DEF ServerInv, On
  <2> QED BY <2>1, <2>2
<1> QED BY <1>2, <1>4, <1>5, <1>6 DEF ServerInv

LEMMA ServerSteps == ServerInv /\ [Next]_httpdVars => ServerInv'
<1> SUFFICES ASSUME ServerInv, [Next]_httpdVars PROVE ServerInv'
  OBVIOUS
<1>1. CASE Task
  BY <1>1, TaskKeeps
<1>2. CASE Tick
  BY <1>2, TickStartsKeeps, ScanKeeps, DrainedKeeps, DrainKeeps, DeliverKeeps, SettleKeeps, EndBodyKeeps,
     LetGoKeeps, RespondKeeps, AnsweredKeeps, HangUpKeeps, MarkKeeps, LateKeeps, CleanKeeps, ResetKeeps,
     ReleaseKeeps DEF Tick
<1>3. ASSUME NEW c \in Clients, Peer(c) \/ Expire(c) PROVE ServerInv'
  BY <1>3, ConnectKeeps, PeerKeeps, BrokenKeeps, ExpireKeeps DEF Peer
<1>4. CASE UNCHANGED httpdVars
  BY <1>4, ServerStutters
<1> QED BY <1>1, <1>2, <1>3, <1>4 DEF Next

\* The invariant behind all that follows: who holds a client and how far its end is told, where
\* its events and the parts of its body are, and what the main loop has still to do.
THEOREM ServerInductive == Spec => []ServerInv
<1>1. Init => ServerInv
  BY ServerStarts
<1> QED BY <1>1, ServerSteps, PTL DEF Spec

\* The buffer stays within the TCP window and the connections in flight within their limit.
THEOREM ServerTypes == Spec => []TypeOK
<1>1. ServerInv => TypeOK
  <2> SUFFICES ASSUME ServerInv PROVE TypeOK
    OBVIOUS
  <2>1. /\ \A c \in Clients : conn[c] \in ConnType /\ upload[c] \in UploadType
        /\ \A s \in 1 .. Slots : slot[s] \in SlotType
        /\ stream \in StreamType /\ inFlight \in Nat /\ inFlight <= MaxInFlight /\ MaxInFlight \in Nat
    BY TypesAre DEF ServerInv, Types, CountInv
  <2> QED BY <2>1 DEF TypeOK, ConnType, UploadType, SlotType, StreamType
<1> QED BY <1>1, ServerInductive, PTL

LEMMA NothingDangles ==
  ASSUME ServerInv
  PROVE  NoDangling
<1>1. /\ Types /\ TaskInv /\ ClientInv /\ SlotInv /\ LoopInv /\ None \notin Clients
      /\ \A s \in 1 .. Slots : slot[s] \in SlotType
      /\ task.c \in Clients \cup {None}
  BY TypesAre DEF ServerInv, SlotsInv, TaskType
<1>2. \A c \in Clients : (Slotted(c) \/ Dead(c) \/ task.c = c) => Alive(c)
  BY <1>1 DEF ClientInv, ClientOk, LifeOk, TaskOk
<1>3. \A s \in 1 .. Slots : slot[s].client # None => Alive(slot[s].client)
  <2> SUFFICES ASSUME NEW s \in 1 .. Slots, slot[s].client # None PROVE Alive(slot[s].client)
    OBVIOUS
  <2>1. PICK c \in Clients : c = slot[s].client
    BY <1>1 DEF SlotType
  <2> QED BY <1>2, <2>1 DEF Slotted, Has
<1>4. LoopAt("release") => Alive(loop.dead)
  BY <1>1, <1>2 DEF LoopAt, Dead, LoopInv
<1>5. LoopAt("respond") \/ LoopAt("answered") => Cur.buf
  BY <1>1 DEF LoopAt, LoopInv, Cur
<1>6. TaskAt("take") /\ ~slot[task.s].streaming => slot[task.s].buf
  BY <1>1 DEF TaskAt, TaskInv, SlotInv, SlotOk
<1>7. task.c # None => Alive(task.c)
  BY <1>1, <1>2
<1> QED BY <1>3, <1>4, <1>5, <1>6, <1>7 DEF NoDangling

LEMMA NothingStays ==
  ASSUME ServerInv
  PROVE  NothingLeaks
<1> SUFFICES ASSUME queue = <<>>, TaskAt("idle"), LoopAt("idle"), ~wanted, \A c \in Clients : ~conn[c].pcb
             PROVE  /\ inFlight = 0 /\ stream.owner = 0
                    /\ \A s \in 1 .. Slots : slot[s] = FreeSlot
                    /\ \A c \in Clients : ~Alive(c) \/ Missed(c)
  BY DEF NothingLeaks
<1>1. /\ Types /\ TaskInv /\ ClientInv /\ SlotInv /\ StreamInv /\ PromiseInv /\ CountInv /\ None \notin Clients
      /\ \A s \in 1 .. Slots : slot[s] \in SlotType
      /\ stream \in StreamType
  BY TypesAre DEF ServerInv, SlotsInv
<1>2. \A s \in 1 .. Slots : ~slot[s].del /\ ~slot[s].gone
  BY <1>1 DEF PromiseInv, Ahead, LoopOn, LoopAt, SlotInv, SlotOk, Draining, Answering, Reclaiming
<1>3. \A c \in Clients : Ev(c) = {} /\ task.c # c /\ ~Gone(c) /\ ~Dead(c)
  <2>1. Len(queue) = 0 /\ task.c = None
    BY <1>1 DEF TaskAt, TaskInv, AtRest
  <2> QED BY <1>1, <1>2, <2>1 DEF Ev, Events, Places, Gone, Dead, LoopAt
<1>4. \A c \in Clients : ~(Alive(c) /\ conn[c].wired)
  <2> SUFFICES ASSUME NEW c \in Clients, Alive(c), conn[c].wired PROVE FALSE
    OBVIOUS
  <2>1. ~Pending(c)
    BY <1>3 DEF Pending, Failing, On
  <2>2. ~Told(c)
    BY <1>1, <1>3 DEF ClientInv, ClientOk, LifeOk, Told
  <2> QED BY <1>1, <2>1, <2>2 DEF ClientInv, ClientOk, LifeOk
<1>5. \A s \in 1 .. Slots : slot[s].client = None
  <2> SUFFICES ASSUME NEW s \in 1 .. Slots, slot[s].client # None PROVE FALSE
    OBVIOUS
  <2>1. PICK c \in Clients : c = slot[s].client
    BY <1>1 DEF SlotType
  <2>2. Slotted(c)
    BY <2>1 DEF Slotted, Has
  <2> QED BY <1>1, <1>4, <2>2 DEF ClientInv, ClientOk, LifeOk
<1>6. inFlight = 0
  <2>1. Counted = {}
    BY <1>4 DEF Counted
  <2> QED BY <1>1, <2>1, FS_EmptySet DEF CountInv
<1>7. stream.owner = 0
  BY <1>1, <1>5 DEF StreamInv, StreamType
<1>8. \A s \in 1 .. Slots : slot[s] = FreeSlot
  BY <1>1, <1>5 DEF SlotInv, SlotOk
<1>9. \A c \in Clients : ~Alive(c) \/ Missed(c)
  BY <1>4 DEF Missed
<1> QED BY <1>6, <1>7, <1>8, <1>9

\* Whoever closes a connection first, the peer, a timeout, the task or the main loop, nobody is
\* left holding a client or a buffer that another freed, and when all is still nothing is left
\* that nobody will free, but the client of a connection that broke before onClient() knew it.
THEOREM FreedForAll == Spec => []FreedOnce
<1>1. ServerInv => FreedOnce
  BY NothingDangles, NothingStays DEF FreedOnce
<1> QED BY <1>1, ServerInductive, PTL

----------------------------------------------------------------------------
(* HttpUpload.                                                             *)

LEMMA SaysStep ==
  ASSUME upload \in [Clients -> UploadType], NEW c \in Clients,
         NEW ev \in {"none", "begun", "ended", "aborted"}, Says(c, ev, 0)
  PROVE  upload' = [upload EXCEPT ![c].events = ev]
<1>1. upload[c] \in UploadType
  OBVIOUS
<1>2. upload[c].got + 0 = upload[c].got
  BY <1>1, ServerAssumption DEF UploadType
<1>3. [[upload[c] EXCEPT !.events = ev] EXCEPT !.got = upload[c].got] = [upload[c] EXCEPT !.events = ev]
  BY <1>1 DEF UploadType
<1>4. upload' = [upload EXCEPT ![c] = [[upload[c] EXCEPT !.events = ev] EXCEPT !.got = upload[c].got]]
  BY <1>2 DEF Says
<1> QED BY <1>3, <1>4

\* Only the owner of the stream has begun and not ended.
LEMMA OneBegun ==
  ASSUME ServerInv, loop.at # "reset", NEW d \in Clients, upload[d].events = "begun"
  PROVE  \E s \in 1 .. Slots : stream.owner = s /\ slot[s].client = d /\ slot[s].begun
<1>1. HeardInv /\ StreamInv /\ SlotInv /\ None \notin Clients
  BY TypesAre DEF ServerInv, SlotsInv
<1>2. PICK s \in 1 .. Slots : slot[s].client = d
  BY <1>1 DEF HeardInv, Slotted, Has
<1>3. Heard(slot[s]) = "begun"
  BY <1>1, <1>2 DEF HeardInv
<1>4. slot[s].begun /\ ~slot[s].ended
  BY <1>3 DEF Heard
<1>5. slot[s].streaming
  BY <1>1, <1>4 DEF SlotInv, SlotOk
<1> QED BY <1>1, <1>2, <1>4, <1>5 DEF StreamInv, LoopOn

LEMMA DrainRefines ==
  ASSUME ServerInv, Drain
  PROVE  B!Next \/ UNCHANGED upload
<1>1. loop.at = "drain"
  BY DEF Drain, LoopAt
<1>2. PICK k \in 1 .. Slots, c \in Clients :
        /\ k = loop.s /\ c = slot[k].client
  BY <1>1, DrainSlot DEF Draining
<1>3. upload \in [Clients -> UploadType] /\ HeardInv /\ None \notin Clients
  BY <1>1, LoopSlot
<1>4. CASE ~slot[k].begun /\ stream.owner = k /\ Says(c, "begun", 0)
  <2>1. upload[c].events = "none"
    BY <1>2, <1>3, <1>4 DEF HeardInv, Heard
  <2>2. \A d \in Clients : upload[d].events # "begun"
    BY <1>1, <1>2, <1>4, OneBegun
  <2>3. B!Begin(c)
    BY <1>3, <1>4, <2>1, <2>2, SaysStep DEF B!Begin, B!Is
  <2> QED BY <2>3 DEF B!Next
<1>5. CASE UNCHANGED upload
  BY <1>5
<1> QED BY <1>2, <1>4, <1>5 DEF Drain, Cur

LEMMA DeliverRefines ==
  ASSUME ServerInv, Deliver
  PROVE  B!Next \/ UNCHANGED upload
<1>1. loop.at = "deliver"
  BY DEF Deliver, LoopAt
<1>2. PICK k \in 1 .. Slots, c \in Clients : k = loop.s /\ c = slot[k].client /\ slot[k].streaming
  BY <1>1, DrainSlot DEF Draining
<1>3. /\ upload \in [Clients -> UploadType] /\ HeardInv /\ LoopInv /\ None \notin Clients /\ StreamInv
      /\ loop \in LoopType /\ slot[k] \in SlotType
  BY <1>1, <1>2, LoopSlot
<1>4. stream.owner = k /\ ~slot[k].ended /\ slot[k].begun /\ loop.n <= stream.len /\ loop.n \in Nat
      /\ ~slot[k].aborted
  BY <1>1, <1>2, <1>3, ServerAssumption DEF LoopInv, LoopType, StreamInv, LoopOn
<1>5. upload[c].events = "begun" /\ upload[c].got = slot[k].acked /\ slot[k].acked \in Nat
  BY <1>1, <1>2, <1>3, <1>4 DEF HeardInv, LoopOn, Heard, SlotType
<1>6. slot[k].acked + loop.n <= Parts /\ Parts \in Nat
  <2>1. /\ slot[k].acked + Queued(queue, c) + InHand(c) + Buffered(c) + Dropped(k) <= Parts
        /\ Buffered(c) = stream.len /\ Parts \in Nat /\ stream.len \in Nat
        /\ Queued(queue, c) \in Nat /\ InHand(c) \in Nat /\ Dropped(k) \in Nat
    BY <1>2, <1>4, BufferCame
  <2> QED BY <1>4, <1>5, <2>1
<1>7. PICK n \in Nat : n = upload[c].got + loop.n
  BY <1>4, <1>5
<1>8. upload' = [upload EXCEPT ![c].got = n]
  <2>1. upload[c] \in UploadType
    BY <1>3
  <2>2. [[upload[c] EXCEPT !.events = upload[c].events] EXCEPT !.got = n] = [upload[c] EXCEPT !.got = n]
    BY <2>1 DEF UploadType
  <2>3. Says(c, upload[c].events, loop.n)
    BY <1>2 DEF Deliver, Cur
  <2>4. upload' = [upload EXCEPT ![c] = [[upload[c] EXCEPT !.events = upload[c].events] EXCEPT !.got = n]]
    BY <1>7, <2>3 DEF Says
  <2> QED BY <2>2, <2>4
<1>9. CASE loop.n = 0
  <2>1. n = upload[c].got
    BY <1>5, <1>7, <1>9
  <2>2. [upload[c] EXCEPT !.got = upload[c].got] = upload[c]
    <3>1. upload[c] \in UploadType
      BY <1>3
    <3> QED BY <3>1 DEF UploadType
  <2> QED BY <1>3, <1>8, <2>1, <2>2
<1>10. CASE loop.n # 0
  <2>1. n \in upload[c].got + 1 .. Parts
    BY <1>4, <1>5, <1>6, <1>7, <1>10
  <2>2. B!Data(c)
    BY <1>5, <1>8, <2>1 DEF B!Data, B!Is
  <2> QED BY <2>2 DEF B!Next
<1> QED BY <1>9, <1>10

LEMMA EndRefines ==
  ASSUME ServerInv, EndBody
  PROVE  B!Next
<1>1. loop.at = "end"
  BY DEF EndBody, LoopAt
<1>2. PICK k \in 1 .. Slots, c \in Clients : k = loop.s /\ c = slot[k].client
  BY <1>1, DrainSlot DEF Draining
<1>3. /\ upload \in [Clients -> UploadType] /\ HeardInv /\ LoopInv /\ None \notin Clients /\ StreamInv
      /\ Parts \in Nat
  BY <1>1, LoopSlot, ServerAssumption
<1>4. ~slot[k].ended /\ slot[k].begun /\ slot[k].acked = Parts /\ ~slot[k].aborted
  BY <1>1, <1>2, <1>3 DEF LoopInv, StreamInv, LoopOn
<1>5. upload[c].events = "begun" /\ upload[c].got = Parts
  BY <1>1, <1>2, <1>3, <1>4 DEF HeardInv, LoopOn, Heard
<1>6. Says(c, "ended", 0)
  BY <1>2 DEF EndBody, Cur
<1>7. B!End(c)
  BY <1>3, <1>5, <1>6, SaysStep DEF B!End, B!Is
<1> QED BY <1>7 DEF B!Next

LEMMA CleanRefines ==
  ASSUME ServerInv, Clean
  PROVE  B!Next \/ UNCHANGED upload
<1>1. loop.at = "clean"
  BY DEF Clean, LoopAt
<1>2. PICK k \in 1 .. Slots, c \in Clients :
        /\ k = loop.s /\ c = slot[k].client /\ upload \in [Clients -> UploadType]
        /\ upload[c].events = Heard(slot[k])
  BY <1>1, ServedSlot DEF Reclaiming
<1>3. CASE Open(slot[k]) /\ ~slot[k].aborted /\ Says(c, "aborted", 0)
  <2>1. upload[c].events = "begun"
    BY <1>2, <1>3 DEF Open, Heard
  <2>2. B!Abort(c)
    BY <1>2, <1>3, <2>1, SaysStep DEF B!Abort, B!Is
  <2> QED BY <2>2 DEF B!Next
<1>4. CASE UNCHANGED upload
  BY <1>4
<1>5. \/ Open(slot[k]) /\ ~slot[k].aborted /\ Says(c, "aborted", 0)
      \/ UNCHANGED upload
  BY <1>2, Zenon DEF Clean, Cur
<1> QED BY <1>3, <1>4, <1>5

LEMMA StepsRefine == ServerInv /\ [Next]_httpdVars => [B!Next]_upload
<1> SUFFICES ASSUME ServerInv, [Next]_httpdVars PROVE B!Next \/ UNCHANGED upload
  OBVIOUS
<1>1. CASE Task
  BY <1>1 DEF Task, Dispatch, Accept, Alloc, Receive, TakeHead, TakePart, Flag, MarkDoneAsync, Close,
              OnDisconnect, taskKeeps
<1>2. CASE Tick
  <2>1. CASE Drain \/ Deliver \/ EndBody \/ Clean
    BY <2>1, DrainRefines, DeliverRefines, EndRefines, CleanRefines
  <2>2. CASE ~(Drain \/ Deliver \/ EndBody \/ Clean)
    BY <1>2, <2>2 DEF Tick, TickStarts, Scan, Drained, Settle, LetGo, Respond, Answered, HangUp, Mark, Late,
                      Reset, Release
  <2> QED BY <2>1, <2>2
<1>3. ASSUME NEW c \in Clients, Peer(c) \/ Expire(c) PROVE UNCHANGED upload
  BY <1>3 DEF Peer, Connect, SendPart, Fin, Broken, SendHead, Expire, lwipKeeps, taskKeeps
<1>4. CASE UNCHANGED httpdVars
  BY <1>4 DEF httpdVars
<1> QED BY <1>1, <1>2, <1>3, <1>4 DEF Next

\* Through any number of uploads at once, bodies cut short, timeouts and slots used again, the
\* handler hears one upload at a time, its data in order, and END only with the last part.
THEOREM BodiesForAll == Spec => BodiesAreWhole
<1>1. Init => B!Init
  BY DEF Init, B!Init
<1> QED BY <1>1, ServerInductive, StepsRefine, PTL DEF Spec, BodiesAreWhole, B!Spec
============================================================================
