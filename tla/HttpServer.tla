---------------------------- MODULE HttpServer ----------------------------
(* EGHttpServer over EGAsyncTCP32 on the ESP32: lwIP queues what happens to *)
(* a connection, the async_tcp task takes the events and runs the server's *)
(* callbacks, and the main loop's tick() answers and gives back.  Each     *)
(* action runs from one critical section to the next.  A request is a head *)
(* for a page, a bad head, or a head and Parts parts of an upload; the peer *)
(* keeps to the TCP window, which is what the stream buffer holds.         *)
EXTENDS Naturals, Sequences, SequencesExt, FiniteSets, FiniteSetsExt, Selections

CONSTANTS
  Clients,      \* connections, each used once
  Asks,         \* what each may ask for, "page" or "upload"
  Slots,        \* EGHTTP_MAX_CLIENTS
  MaxInFlight,  \* EGHTTP_MAX_INFLIGHT
  Parts,        \* Content-Length of an upload
  Window        \* STREAM_BUF_SIZE, "one TCP window"

ASSUME ServerAssumption ==
  /\ Asks \in [Clients -> SUBSET {"page", "upload"}] /\ "none" \notin Clients
  /\ Slots \in Nat \ {0} /\ MaxInFlight \in Nat \ {0}
  /\ Parts \in Nat \ {0} /\ Window \in Nat \ {0}

VARIABLES
  conn,      \* AsyncClient: obj, pcb (open), wired (has its callbacks), released, closed
  peer,      \* the other end: its head is out, parts sent and acked
  queue,     \* _async_queue
  slot,      \* _slots
  stream,    \* _streamOwner (0: none) and _streamLen
  inFlight,  \* _inFlight
  wanted,    \* _tickWanted
  task,      \* where async_tcp is, with which client, slot and data
  loop,      \* where tick() is, in which slot, to go where next
  upload     \* ghost: the body events of each connection, the parts delivered

httpdVars == <<conn, peer, queue, slot, stream, inFlight, wanted, task, loop, upload>>
taskKeeps == <<peer, loop, upload>>
loopKeeps == <<inFlight, task>>

None == "none"

FreeSlot ==
  [client |-> None, state |-> "idle", del |-> FALSE, gone |-> FALSE, buf |-> FALSE,
   streaming |-> FALSE, begun |-> FALSE, ended |-> FALSE, aborted |-> FALSE,
   acked |-> 0, responded |-> FALSE]

AtRest == [at |-> "idle", c |-> None, s |-> 0, x |-> None]

NoLoop == [at |-> "idle", s |-> 0, n |-> 0, next |-> "idle", dead |-> None]

Init ==
  /\ conn = [c \in Clients |-> [obj |-> "none", pcb |-> FALSE, wired |-> FALSE, released |-> FALSE, closed |-> FALSE]]
  /\ peer = [c \in Clients |-> [head |-> FALSE, sent |-> 0, acked |-> 0]]
  /\ queue = <<>> /\ slot = [s \in 1 .. Slots |-> FreeSlot]
  /\ stream = [owner |-> 0, len |-> 0] /\ inFlight = 0 /\ wanted = FALSE
  /\ task = AtRest /\ loop = NoLoop
  /\ upload = [c \in Clients |-> [events |-> "none", got |-> 0]]

------------------------------------------------------------------------
(* lwIP and the peer. *)

Event(ev, c, x) == [ev |-> ev, c |-> c, x |-> x]

\* A queued release still has to free its client.
Without(c) == Only(queue, {i \in DOMAIN queue : queue[i].c # c \/ queue[i].ev = "release"})

lwipKeeps == <<slot, stream, inFlight, wanted, task, loop, upload>>

\* tcp_accept(): the event goes in front.
Connect(c) ==
  /\ conn[c].obj = "none"
  /\ conn' = [conn EXCEPT ![c].obj = "alive", ![c].pcb = TRUE]
  /\ queue' = <<Event("accept", c, None)>> \o queue
  /\ UNCHANGED <<peer, lwipKeeps>>

SendHead(c, x) ==
  /\ conn[c].pcb /\ ~peer[c].head
  /\ peer' = [peer EXCEPT ![c].head = TRUE, ![c].sent = IF x = "upload" THEN 0 ELSE Parts]
  /\ queue' = Append(queue, Event("recv", c, x))
  /\ UNCHANGED <<conn, lwipKeeps>>

SendPart(c) ==
  /\ conn[c].pcb /\ peer[c].head /\ peer[c].sent < Parts
  /\ peer[c].sent - peer[c].acked < Window
  /\ peer' = [peer EXCEPT ![c].sent = @ + 1]
  /\ queue' = Append(queue, Event("recv", c, "part"))
  /\ UNCHANGED <<conn, lwipKeeps>>

\* Nothing is sent after a FIN.
Fin(c) ==
  /\ conn[c].pcb /\ peer[c].head
  /\ ~\E i \in DOMAIN queue : queue[i] = Event("fin", c, None)
  /\ peer' = [peer EXCEPT ![c].sent = Parts]
  /\ queue' = Append(queue, Event("fin", c, None))
  /\ UNCHANGED <<conn, lwipKeeps>>

\* tcp_error(): lwIP has freed the pcb, what it queued is dropped, an accept too.
Broken(c) ==
  /\ conn[c].pcb /\ conn' = [conn EXCEPT ![c].pcb = FALSE]
  /\ queue' = Append(Without(c), Event("error", c, None))
  /\ UNCHANGED <<peer, lwipKeeps>>

------------------------------------------------------------------------
(* async_tcp: one event at a time. *)

Goes(at, c, s, x) == task' = [at |-> at, c |-> c, s |-> s, x |-> x]

Rests == task' = AtRest

SlotsOf(c) == {s \in 1 .. Slots : slot[s].client = c}

TaskAt(at) == task.at = at

Freed(c) == [conn EXCEPT ![c].obj = "freed", ![c].pcb = FALSE]

\* What else is queued, but for the events of c.
Others(c) == Only(queue, {i \in 2 .. Len(queue) : queue[i].c # c})

\* handle_async_event(); an error nobody listens to is lost, and its client with it.
Dispatch ==
  /\ TaskAt("idle") /\ queue # <<>>
  /\ LET e == Head(queue)
         k == conn[e.c]
     IN /\ IF e.ev = "release" /\ k.obj = "alive"
           THEN /\ conn' = Freed(e.c) /\ queue' = Others(e.c)
                /\ Rests
           ELSE /\ queue' = Tail(queue) /\ UNCHANGED conn
                /\ IF \/ k.obj # "alive" \/ k.released
                      \/ e.ev = "recv" /\ k.closed
                      \/ e.ev = "error" /\ ~k.wired THEN Rests
                   ELSE Goes(IF e.ev = "fin" THEN "close" ELSE e.ev, e.c, 0, e.x)
  /\ UNCHANGED <<slot, stream, inFlight, wanted, taskKeeps>>

\* onClient(): past the limit the client is closed and released at once.
Accept ==
  /\ TaskAt("accept") /\ wanted' = TRUE
  /\ IF inFlight >= MaxInFlight
     THEN conn' = Freed(task.c) /\ queue' = Without(task.c) /\ Rests /\ UNCHANGED inFlight
     ELSE /\ conn' = [conn EXCEPT ![task.c].wired = TRUE] /\ inFlight' = inFlight + 1
          /\ Goes("alloc", task.c, 0, None) /\ UNCHANGED queue
  /\ UNCHANGED <<slot, stream, taskKeeps>>

Unused == {s \in 1 .. Slots : slot[s].state = "idle" /\ slot[s].client = None}

\* allocSlot(): a full table, or no memory for the buffer, is a 503 and the end.
Alloc ==
  /\ TaskAt("alloc")
  /\ \/ Goes("close", task.c, 0, None) /\ UNCHANGED slot
     \/ /\ Unused # {} /\ Rests
        /\ slot' = [slot EXCEPT ![Min(Unused)] =
                      [FreeSlot EXCEPT !.client = task.c, !.buf = TRUE, !.state = "receiving"]]
  /\ UNCHANGED <<conn, queue, stream, inFlight, wanted, taskKeeps>>

\* onData: only a slot that is receiving.
Receive ==
  /\ TaskAt("recv")
  /\ LET live == {s \in SlotsOf(task.c) : slot[s].state = "receiving"} IN
     IF live = {} THEN Rests ELSE Goes("take", task.c, Min(live), task.x)
  /\ UNCHANGED <<conn, queue, slot, stream, inFlight, wanted, taskKeeps>>

MarkedDone(r) == [r EXCEPT !.buf = FALSE, !.state = "done", !.del = TRUE]

Refuse ==
  /\ slot' = [slot EXCEPT ![task.s] = MarkedDone(@)] /\ wanted' = TRUE
  /\ Goes("close", slot[task.s].client, 0, None)
  /\ UNCHANGED stream

\* receiveHeaders(): a page is ready, an upload begins, or it is refused.
TakeHead ==
  /\ TaskAt("take") /\ task.x # "part"
  /\ \/ Refuse  \* a bad head, or busy, or no memory
     \/ /\ task.x = "page"
        /\ slot' = [slot EXCEPT ![task.s].state = "ready"] /\ UNCHANGED stream
        /\ Goes("flag", task.c, 0, None) /\ UNCHANGED wanted
     \/ /\ task.x = "upload" /\ stream.owner = 0
        /\ stream' = [owner |-> task.s, len |-> 0]
        /\ slot' = [slot EXCEPT ![task.s].streaming = TRUE]
        /\ Goes("flag", task.c, 0, None) /\ UNCHANGED wanted
  /\ UNCHANGED <<conn, queue, inFlight, taskKeeps>>

\* takeStream(): the slot may be another's by now; past the buffer it is over.
TakePart ==
  /\ TaskAt("take") /\ task.x = "part"
  /\ LET r == slot[task.s]
         mine == stream.owner = task.s /\ r.client = task.c /\ r.acked + stream.len < Parts
     IN IF mine /\ stream.len >= Window THEN Refuse
        ELSE /\ stream' = IF mine THEN [stream EXCEPT !.len = @ + 1] ELSE stream
             /\ Goes("flag", task.c, 0, None) /\ UNCHANGED <<slot, wanted>>
  /\ UNCHANGED <<conn, queue, inFlight, taskKeeps>>

\* "flag last, tick() may be mid-scan"
Flag ==
  /\ TaskAt("flag") /\ wanted' = TRUE /\ Rests
  /\ UNCHANGED <<conn, queue, slot, stream, inFlight, taskKeeps>>

\* markDoneAsync(), for onError and onTimeout.
MarkDoneAsync ==
  /\ \E at \in {"error", "expire"} : TaskAt(at)
  /\ LET found == SlotsOf(task.c) IN
     /\ slot' = [s \in 1 .. Slots |->
                  IF s \in found THEN [slot[s] EXCEPT !.state = "done", !.del = TRUE] ELSE slot[s]]
     /\ wanted' = (wanted \/ found # {})
     /\ IF found # {} THEN Goes("close", task.c, 0, task.at)
        ELSE IF TaskAt("error") THEN Goes("told", task.c, 0, None) ELSE Rests
  /\ UNCHANGED <<conn, queue, stream, inFlight, taskKeeps>>

\* close() on the task; onDisconnect follows if there was something to end,
\* and after an error anyway.
Close ==
  /\ TaskAt("close")
  /\ IF task.c = None THEN Rests /\ UNCHANGED <<conn, queue>>
     ELSE LET ends == conn[task.c].pcb \/ Len(Without(task.c)) < Len(queue) IN
          /\ conn' = [conn EXCEPT ![task.c].pcb = FALSE, ![task.c].closed = TRUE]
          /\ queue' = Without(task.c)
          /\ IF (ends /\ ~conn[task.c].released) \/ task.x = "error"
             THEN Goes("told", task.c, 0, None) ELSE Rests
  /\ UNCHANGED <<slot, stream, inFlight, wanted, taskKeeps>>

\* mutant: the place of a connection that got no slot is not given back
LeaveWithSlot(c) == IF SlotsOf(c) = {} THEN 0 ELSE 1

Leave(c) == IF \E s \in SlotsOf(c) : slot[s].gone THEN 0 ELSE 1

\* mutant: onDisconnect releases a client its slot still holds
OnDisconnectFrees ==
  /\ TaskAt("told") /\ Rests
  /\ inFlight' = IF inFlight > 0 THEN inFlight - Leave(task.c) ELSE 0
  /\ conn' = Freed(task.c) /\ queue' = Without(task.c)
  /\ slot' = [s \in 1 .. Slots |->
               IF s \in SlotsOf(task.c)
               THEN [slot[s] EXCEPT !.state = "done", !.del = TRUE, !.gone = TRUE] ELSE slot[s]]
  /\ wanted' = TRUE /\ UNCHANGED <<stream, taskKeeps>>

\* onDisconnect(): the slot's owner releases it, or nobody else will.
OnDisconnect ==
  /\ TaskAt("told") /\ Rests
  /\ LET found == SlotsOf(task.c) IN
     /\ inFlight' = IF inFlight > 0 THEN inFlight - Leave(task.c) ELSE 0
     /\ IF found = {}
        THEN conn' = Freed(task.c) /\ queue' = Without(task.c) /\ UNCHANGED <<slot, wanted>>
        ELSE /\ slot' = [s \in 1 .. Slots |->
                          IF s \in found /\ ~slot[s].gone
                          THEN [slot[s] EXCEPT !.state = "done", !.del = TRUE, !.gone = TRUE]
                          ELSE slot[s]]
             /\ wanted' = (wanted \/ Leave(task.c) = 1) /\ UNCHANGED <<conn, queue>>
  /\ UNCHANGED <<stream, taskKeeps>>

\* _poll(): nothing came for a minute, or no ack, which is for the slot to hear.
Expire(c) ==
  /\ TaskAt("idle") /\ conn[c].pcb /\ ~conn[c].released
  /\ ~\E i \in DOMAIN queue : queue[i].ev = "accept" /\ queue[i].c = c
  /\ \/ Goes("close", c, 0, None)
     \/ SlotsOf(c) # {} /\ Goes("expire", c, 0, None)
  /\ UNCHANGED <<conn, queue, slot, stream, inFlight, wanted, taskKeeps>>

Task ==
  \/ Dispatch \/ Accept \/ Alloc \/ Receive \/ TakeHead \/ TakePart \/ Flag
  \/ MarkDoneAsync \/ Close \/ OnDisconnect

------------------------------------------------------------------------
(* tick() *)

LoopAt(at) == loop.at = at

Cur == slot[loop.s]

To(at) == loop' = [loop EXCEPT !.at = at]

Via(at, next) == loop' = [loop EXCEPT !.at = at, !.next = next]

NextSlot == loop' = IF loop.s = Slots THEN NoLoop ELSE [NoLoop EXCEPT !.at = "scan", !.s = loop.s + 1]

\* Back to the scan, or to what follows in the same pass.
Returns == IF loop.next = "scan" THEN NextSlot ELSE To(loop.next)

Says(c, ev, n) == upload' = [upload EXCEPT ![c].events = ev, ![c].got = @ + n]

TickStarts ==
  /\ LoopAt("idle") /\ wanted /\ wanted' = FALSE
  /\ loop' = [NoLoop EXCEPT !.at = "scan", !.s = 1]
  /\ UNCHANGED <<conn, peer, queue, slot, stream, upload, loopKeeps>>

\* mutant: an upload that ended is aborted as its slot is reclaimed
OpenStill(r) == r.streaming /\ r.begun

Open(r) == r.streaming /\ r.begun /\ ~r.ended

Scan ==
  /\ LoopAt("scan")
  /\ CASE Cur.del -> IF Open(Cur) /\ stream.owner = loop.s /\ stream.len > 0
                     THEN Via("drain", "late") ELSE To("late")
       [] ~Cur.del /\ Cur.state = "receiving" /\ Cur.streaming -> Via("drain", "drained")
       [] ~Cur.del /\ Cur.state = "ready" -> Via("respond", "scan")
       [] OTHER -> NextSlot
  /\ UNCHANGED <<conn, peer, queue, slot, stream, wanted, upload, loopKeeps>>

Drained ==
  /\ LoopAt("drained")
  /\ IF Cur.state = "ready" THEN Via("respond", "scan") ELSE NextSlot
  /\ UNCHANGED <<conn, peer, queue, slot, stream, wanted, upload, loopKeeps>>

\* drainStream(): a snapshot of what came, and BODY_BEGIN the first time.
Drain ==
  /\ LoopAt("drain")
  /\ IF Cur.streaming /\ stream.owner = loop.s /\ ~Cur.ended
     THEN /\ loop' = [loop EXCEPT !.at = "deliver", !.n = stream.len]
          /\ slot' = [slot EXCEPT ![loop.s].begun = TRUE]
          /\ IF Cur.begun THEN UNCHANGED upload ELSE Says(Cur.client, "begun", 0)
     ELSE Returns /\ UNCHANGED <<slot, upload>>
  /\ UNCHANGED <<conn, peer, queue, stream, wanted, loopKeeps>>

\* BODY_DATA, and the window opens again, before the buffer is empty.
Deliver ==
  /\ LoopAt("deliver") /\ To("settle")
  /\ Says(Cur.client, upload[Cur.client].events, loop.n)
  /\ peer' = [peer EXCEPT ![Cur.client].acked = @ + loop.n]
  /\ UNCHANGED <<conn, queue, slot, stream, wanted, loopKeeps>>

Settle ==
  /\ LoopAt("settle")
  /\ slot' = [slot EXCEPT ![loop.s].acked = @ + loop.n]
  /\ stream' = [stream EXCEPT !.len = @ - loop.n]
  /\ IF Cur.acked + loop.n >= Parts THEN To("end") ELSE Returns
  /\ UNCHANGED <<conn, peer, queue, wanted, upload, loopKeeps>>

EndBody ==
  /\ LoopAt("end") /\ To("letgo") /\ Says(Cur.client, "ended", 0)
  /\ slot' = [slot EXCEPT ![loop.s].ended = TRUE, ![loop.s].state = "ready"]
  /\ UNCHANGED <<conn, peer, queue, stream, wanted, loopKeeps>>

LetGo ==
  /\ LoopAt("letgo") /\ Returns /\ stream' = [owner |-> 0, len |-> 0]
  /\ UNCHANGED <<conn, peer, queue, slot, wanted, upload, loopKeeps>>

\* respond(): the handler writes to the client as long as it is connected.
Respond ==
  /\ LoopAt("respond")
  /\ slot' = [slot EXCEPT ![loop.s].responded = TRUE, ![loop.s].state = "responding"]
  /\ To("answered")
  /\ UNCHANGED <<conn, peer, queue, stream, wanted, upload, loopKeeps>>

Answered ==
  /\ LoopAt("answered")
  /\ To(IF Cur.client # None /\ conn[Cur.client].pcb THEN "hangup" ELSE "mark")
  /\ UNCHANGED <<conn, peer, queue, slot, stream, wanted, upload, loopKeeps>>

\* close() off the task only queues.
HangUp ==
  /\ LoopAt("hangup") /\ To("mark")
  /\ queue' = Append(queue, Event("close", Cur.client, None))
  /\ UNCHANGED <<conn, peer, slot, stream, wanted, upload, loopKeeps>>

Mark ==
  /\ LoopAt("mark") /\ Returns /\ wanted' = TRUE
  /\ slot' = [slot EXCEPT ![loop.s] = MarkedDone(@)]
  /\ UNCHANGED <<conn, peer, queue, stream, upload, loopKeeps>>

\* reclaimSlot(), after what was left is drained: an upload that came whole is
\* answered still, one that did not is aborted.
Late ==
  /\ LoopAt("late")
  /\ IF Cur.ended /\ ~Cur.responded THEN Via("respond", "clean") ELSE To("clean")
  /\ UNCHANGED <<conn, peer, queue, slot, stream, wanted, upload, loopKeeps>>

Clean ==
  /\ LoopAt("clean") /\ To("reset")
  /\ slot' = [slot EXCEPT ![loop.s].buf = FALSE, ![loop.s].aborted = @ \/ Open(Cur)]
  /\ IF Open(Cur) /\ ~Cur.aborted THEN Says(Cur.client, "aborted", 0) ELSE UNCHANGED upload
  /\ stream' = IF stream.owner = loop.s THEN [owner |-> 0, len |-> 0] ELSE stream
  /\ UNCHANGED <<conn, peer, queue, wanted, loopKeeps>>

\* resetSlot(): "IDLE last, else buf freed under a new client"
Reset ==
  /\ LoopAt("reset") /\ slot' = [slot EXCEPT ![loop.s] = FreeSlot]
  /\ IF Cur.gone THEN loop' = [loop EXCEPT !.at = "release", !.dead = Cur.client] ELSE NextSlot
  /\ UNCHANGED <<conn, peer, queue, stream, wanted, upload, loopKeeps>>

Release ==
  /\ LoopAt("release") /\ NextSlot
  /\ conn' = [conn EXCEPT ![loop.dead].released = TRUE]
  /\ queue' = Append(queue, Event("release", loop.dead, None))
  /\ UNCHANGED <<peer, slot, stream, wanted, upload, loopKeeps>>

Tick ==
  \/ TickStarts \/ Scan \/ Drained \/ Drain \/ Deliver \/ Settle \/ EndBody \/ LetGo
  \/ Respond \/ Answered \/ HangUp \/ Mark \/ Late \/ Clean \/ Reset \/ Release

Peer(c) ==
  \/ Connect(c) \/ SendPart(c) \/ Fin(c) \/ Broken(c)
  \/ \E x \in Asks[c] : SendHead(c, x)

Next == Task \/ Tick \/ \E c \in Clients : Peer(c) \/ Expire(c)

\* Both loops run, and a connection on which nothing happens expires.
Fairness ==
  /\ WF_httpdVars(Task) /\ WF_httpdVars(Tick)
  /\ WF_httpdVars(\E c \in Clients : Expire(c))

Spec == Init /\ [][Next]_httpdVars /\ Fairness

------------------------------------------------------------------------
TypeOK ==
  /\ \A c \in Clients : conn[c].obj \in {"none", "alive", "freed"} /\ upload[c].got \in 0 .. Parts
  /\ \A s \in 1 .. Slots : slot[s].client \in Clients \union {None} /\ slot[s].acked \in 0 .. Parts
  /\ stream.owner \in 0 .. Slots /\ stream.len \in 0 .. Window /\ inFlight \in 0 .. MaxInFlight

Alive(c) == conn[c].obj = "alive"

\* No task is left holding a client or a buffer that another freed,
NoDangling ==
  /\ \A s \in 1 .. Slots : slot[s].client # None => Alive(slot[s].client)
  /\ LoopAt("release") => Alive(loop.dead)
  /\ LoopAt("respond") \/ LoopAt("answered") => Cur.buf
  /\ TaskAt("take") /\ ~slot[task.s].streaming => slot[task.s].buf
  /\ task.c # None => Alive(task.c)

\* A connection that broke before onClient() knew it: its client stays for good.
Missed(c) == Alive(c) /\ ~conn[c].wired /\ ~conn[c].pcb

\* and when all is still nothing else is left that nobody will free.
NothingLeaks ==
  queue = <<>> /\ TaskAt("idle") /\ LoopAt("idle") /\ ~wanted /\ (\A c \in Clients : ~conn[c].pcb) =>
    /\ inFlight = 0 /\ stream.owner = 0
    /\ \A s \in 1 .. Slots : slot[s] = FreeSlot
    /\ \A c \in Clients : ~Alive(c) \/ Missed(c)

\* Whoever closes a connection first, the peer, a timeout, the task or the main
\* loop, its client, slot and buffers are freed once and after their last use.
FreedOnce == NoDangling /\ NothingLeaks

B == INSTANCE HttpUpload

\* Through two uploads at once, bodies cut short, timeouts and slots used again
\* the events keep the order of HttpUpload: one upload at a time, and END only
\* with the last part.
BodiesAreWhole == B!Spec

\* In the end every connection that was accepted was given back: its place, its
\* slot, the stream buffer and the client itself, freed exactly once.
AllGivenBack ==
  <>[](/\ inFlight = 0 /\ stream.owner = 0
       /\ \A s \in 1 .. Slots : slot[s] = FreeSlot
       /\ \A c \in Clients : (Alive(c) => Missed(c)) /\ upload[c].events # "begun")
============================================================================
