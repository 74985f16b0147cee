------------------------------ MODULE TcpConn ------------------------------
(* EGTcpConn over an AsyncClient on the ESP32.  Three tasks meet: the main *)
(* loop connects, reads and closes; lwIP queues what happens; async_tcp    *)
(* takes the events and calls back.  Each action runs from one critical    *)
(* section to the next.  A connect() makes a client of its own, and no     *)
(* client has the address of an earlier one.                               *)
EXTENDS Naturals, Sequences, Selections

CONSTANTS
  MaxConns,  \* calls of connect()
  MaxSent,   \* what a peer sends
  RxWindow   \* what it may send before it is acked

ASSUME TcpAssumption == MaxConns \in Nat /\ MaxSent \in Nat /\ RxWindow \in Nat

Conns == 1 .. MaxConns

VARIABLES
  sock,     \* EGTcpConn: _client (0: none), _state, _err, and the blocks
  obj,      \* the AsyncClients: live, pcb, released, closed, credit (_rx_ack_len)
  pcb,      \* their connections in lwIP: how far, sent and acked, FIN came
  events,   \* _async_queue
  callback, \* the callback async_tcp is about to make, for which client
  failing,  \* the connection for which tcp_error() found no _pcb to clear (0: none)
  reader,   \* where the main loop is, with which client, to do what next
  made,     \* ghost: clients made so far
  got       \* ghost: how much was read from the last of them

tcpVars == <<sock, obj, pcb, events, callback, failing, reader, made, got>>

NoCallback == [at |-> "idle", c |-> 0, x |-> 0]
NoReader == [at |-> "idle", c |-> 0, next |-> "idle"]

TcpInit ==
  /\ sock = [client |-> 0, state |-> "idle", err |-> 0, rx |-> <<>>]
  /\ obj = [n \in Conns |->
              [live |-> FALSE, pcb |-> FALSE, released |-> FALSE, closed |-> FALSE, credit |-> 0]]
  /\ pcb = [n \in Conns |-> [st |-> "none", sent |-> 0, acked |-> 0, fin |-> FALSE]]
  /\ events = <<>> /\ callback = NoCallback /\ failing = 0
  /\ reader = NoReader /\ made = 0 /\ got = 0

Queued(ev, n, x) == [ev |-> ev, c |-> n, x |-> x]

\* _remove_events_for_client(): a queued release still has to free it.
Kept(n, places) == {i \in places : events[i].c # n \/ events[i].ev = "release"}
WithoutEventsOf(n) == Only(events, Kept(n, DOMAIN events))

------------------------------------------------------------------------
(* lwIP and the peers *)

tcpipKeeps == <<sock, callback, reader, made, got>>

Resolved(n, found) ==
  /\ pcb[n].st = "asking" /\ pcb' = [pcb EXCEPT ![n].st = "asked"]
  /\ events' = Append(events, Queued("dns", n, IF found THEN 1 ELSE 0))
  /\ UNCHANGED <<obj, failing, tcpipKeeps>>

Connected(n) ==
  /\ pcb[n].st = "syn" /\ pcb' = [pcb EXCEPT ![n].st = "open"]
  /\ events' = Append(events, Queued("connected", n, 0))
  /\ UNCHANGED <<obj, failing, tcpipKeeps>>

Arrives(n) ==
  /\ pcb[n].st = "open" /\ ~pcb[n].fin
  /\ pcb[n].sent < MaxSent /\ pcb[n].sent - pcb[n].acked < RxWindow
  /\ pcb' = [pcb EXCEPT ![n].sent = @ + 1]
  /\ events' = Append(events, Queued("recv", n, pcb'[n].sent))
  /\ UNCHANGED <<obj, failing, tcpipKeeps>>

Ends(n) ==
  /\ pcb[n].st = "open" /\ ~pcb[n].fin
  /\ pcb' = [pcb EXCEPT ![n].fin = TRUE]
  /\ events' = Append(events, Queued("fin", n, 0))
  /\ UNCHANGED <<obj, failing, tcpipKeeps>>

\* tcp_error() first looks for the pcb of its client, and may find none yet.
FindsNone(n) ==
  /\ pcb[n].st \in {"syn", "open"} /\ obj[n].live /\ ~obj[n].pcb /\ failing' = n
  /\ UNCHANGED <<obj, pcb, events, tcpipKeeps>>

\* And then: what the client had queued goes with its pcb.  A pcb that it found
\* it cleared at once, of which nothing but an ack that opens nothing takes notice.
Errs(n) ==
  /\ pcb[n].st \in {"syn", "open"} /\ pcb' = [pcb EXCEPT ![n].st = "over"] /\ failing' = 0
  /\ IF obj[n].live
     THEN obj' = [obj EXCEPT ![n].pcb = @ /\ failing = n]
          /\ events' = Append(WithoutEventsOf(n), Queued("error", n, 1))
     ELSE UNCHANGED <<obj, events>>
  /\ UNCHANGED tcpipKeeps

------------------------------------------------------------------------
(* async_tcp *)

Calls(at, n, x) == callback' = [at |-> at, c |-> n, x |-> x]

\* _tcp_close_api(): the pcb and whatever is queued for its client.
Shut(n) ==
  /\ pcb' = [pcb EXCEPT ![n].st = IF obj[n].pcb THEN "over" ELSE @]
  /\ events' = Only(events, Kept(n, 2 .. Len(events)))

\* handle_async_event(): pop and dispatch, up to the callback.  lwIP never takes
\* the lock this holds: tcp_error() may fall in between.  It leaves the same
\* whether before or after, except where the pcb is still to be stored.  What
\* closes a pcb waits for it.
HandleEvent ==
  /\ callback.at = "idle" /\ events # <<>>
  /\ LET e == Head(events)
         o == obj[e.c]
         Drops == events' = Tail(events) /\ UNCHANGED <<obj, pcb, callback>>
     IN CASE ~o.live \/ (o.released /\ e.ev # "release") -> Drops
          [] o.live /\ e.ev = "release" ->
               Shut(e.c) /\ obj' = [obj EXCEPT ![e.c].live = FALSE, ![e.c].pcb = FALSE] /\ UNCHANGED callback
          [] o.live /\ ~o.released /\ e.ev = "dns" ->
               /\ events' = Tail(events) /\ UNCHANGED obj
               /\ \/ e.x = 1 /\ pcb' = [pcb EXCEPT ![e.c].st = "syn"] /\ UNCHANGED callback
                  \/ Calls("error", e.c, 1) /\ UNCHANGED pcb  \* not found, or no pcb for it
          [] o.live /\ ~o.released /\ e.ev = "connected" ->
               events' = Tail(events) /\ Calls("up", e.c, 0) /\ UNCHANGED <<obj, pcb>>
          [] o.live /\ ~o.released /\ e.ev = "recv" ->
               IF o.closed THEN Drops
               ELSE /\ events' = Tail(events) /\ UNCHANGED pcb
                    /\ obj' = [obj EXCEPT ![e.c].credit = @ + 1] /\ Calls("data", e.c, e.x)
          [] o.live /\ ~o.released /\ e.ev = "fin" ->
               /\ Shut(e.c) /\ Calls("disconnect", e.c, 0)
               /\ obj' = [obj EXCEPT ![e.c].closed = TRUE, ![e.c].pcb = FALSE]
          [] o.live /\ ~o.released /\ e.ev = "error" ->
               events' = Tail(events) /\ Calls("error", e.c, e.x) /\ UNCHANGED <<obj, pcb>>
  /\ UNCHANGED <<sock, failing, reader, made, got>>

\* _connected(): whatever became of the pcb since the event was taken.
StorePcb ==
  /\ callback.at = "up" /\ Calls("connect", callback.c, 0)
  /\ obj' = [obj EXCEPT ![callback.c].pcb = TRUE]
  /\ UNCHANGED <<sock, pcb, events, failing, reader, made, got>>

\* _tcp_close_api() of a pcb that lwIP freed: its memory may be a later
\* connection's, which then is closed, and nobody told.  The later one is
\* never that of an event but a release: only the last client made has others.
CloseFreed ==
  /\ callback.at = "idle" /\ events # <<>> /\ Head(events).ev = "release"
  /\ LET n == Head(events).c IN
       /\ obj[n].live /\ obj[n].pcb /\ pcb[n].st = "over"
       /\ obj' = [obj EXCEPT ![n].pcb = FALSE]
       /\ \E m \in Conns \ {failing} :
            m > n /\ pcb[m].st \in {"syn", "open"} /\ pcb' = [pcb EXCEPT ![m].st = "over"]
  /\ UNCHANGED <<sock, events, callback, failing, reader, made, got>>

callKeeps == <<obj, pcb, events, failing, reader, made, got>>

\* mutant: a callback does not ask whose it is
Anyones == sock.client # 0

Mine == sock.client = callback.c

Failed(s, e) == [s EXCEPT !.state = "closed", !.err = IF s.err = 0 THEN e ELSE s.err]

on_connect ==
  /\ callback.at = "connect" /\ callback' = NoCallback
  /\ sock' = IF Mine /\ sock.state = "connecting" THEN [sock EXCEPT !.state = "open"] ELSE sock
  /\ UNCHANGED callKeeps

\* ackLater(), and a block for it unless there is no memory.
on_data ==
  /\ callback.at = "data" /\ callback' = NoCallback
  /\ IF Mine /\ sock.state = "open"
     THEN \/ sock' = [sock EXCEPT !.rx = Append(@, <<callback.c, callback.x>>)]
          \/ sock' = Failed(sock, 2)
     ELSE UNCHANGED sock
  /\ UNCHANGED callKeeps

\* _error() calls onDisconnect too.
on_error ==
  /\ callback.at = "error" /\ Calls("disconnect", callback.c, 0)
  /\ sock' = IF Mine THEN Failed(sock, 1) ELSE sock
  /\ UNCHANGED callKeeps

on_disconnect ==
  /\ callback.at = "disconnect" /\ callback' = NoCallback
  /\ sock' = IF Mine THEN [sock EXCEPT !.state = "closed"] ELSE sock
  /\ UNCHANGED callKeeps

AsyncTask == HandleEvent \/ StorePcb \/ CloseFreed \/ on_connect \/ on_data \/ on_error \/ on_disconnect

------------------------------------------------------------------------
(* The main loop *)

ReaderAt(at) == reader.at = at
ReaderTo(at) == reader' = [reader EXCEPT !.at = at]

\* close(), by itself and first of all in connect()
CloseConn(next) ==
  /\ ReaderAt("idle") /\ (next = "open" => made < MaxConns)
  /\ sock' = [sock EXCEPT !.client = 0, !.state = "idle", !.err = 0]
  /\ reader' = [at |-> "drop", c |-> sock.client, next |-> next]
  /\ UNCHANGED <<obj, pcb, events, callback, failing, made, got>>

DropRx ==
  /\ ReaderAt("drop") /\ sock' = [sock EXCEPT !.rx = <<>>] /\ got' = 0
  /\ ReaderTo(IF reader.c = 0 THEN reader.next ELSE "release")
  /\ UNCHANGED <<obj, pcb, events, callback, failing, made>>

ReleaseClient ==
  /\ ReaderAt("release") /\ reader' = [NoReader EXCEPT !.at = reader.next]
  /\ obj' = [obj EXCEPT ![reader.c].released = TRUE]
  /\ events' = Append(events, Queued("release", reader.c, 0))
  /\ UNCHANGED <<sock, pcb, callback, failing, made, got>>

Make ==
  /\ ReaderAt("open")
  /\ \/ sock' = Failed(sock, 2) /\ reader' = NoReader /\ UNCHANGED <<obj, made>>
     \/ /\ made' = made + 1 /\ ReaderTo("start")
        /\ sock' = [sock EXCEPT !.client = made', !.state = "connecting", !.err = 0]
        /\ obj' = [obj EXCEPT ![made'].live = TRUE]
  /\ UNCHANGED <<pcb, events, callback, failing, got>>

\* AsyncClient::connect(): the name is known, has to be asked for, or it fails.
Start ==
  /\ ReaderAt("start")
  /\ \/ pcb' = [pcb EXCEPT ![made].st = "syn"] /\ reader' = NoReader
     \/ pcb' = [pcb EXCEPT ![made].st = "asking"] /\ reader' = NoReader
     \/ ReaderTo("failed") /\ UNCHANGED pcb
  /\ UNCHANGED <<sock, obj, events, callback, failing, made, got>>

\* "no callback will say so"
GiveUp ==
  /\ ReaderAt("failed") /\ reader' = [at |-> "release", c |-> sock.client, next |-> "idle"]
  /\ sock' = [Failed(sock, 3) EXCEPT !.client = 0]
  /\ UNCHANGED <<obj, pcb, events, callback, failing, made, got>>

Take(k) ==
  /\ ReaderAt("idle") /\ k <= Len(sock.rx)
  /\ sock' = [sock EXCEPT !.rx = SubSeq(@, k + 1, Len(@))]
  /\ got' = got + k /\ reader' = [NoReader EXCEPT !.at = "ack", !.c = k]
  /\ UNCHANGED <<obj, pcb, events, callback, failing, made>>

\* ack(): no more than was credited, and only with a pcb.  What is acked once
\* the connection is over opens nothing, and is not looked at again.
Acked(k) == IF k < obj[sock.client].credit THEN k ELSE obj[sock.client].credit

Ack ==
  /\ ReaderAt("ack") /\ reader' = NoReader
  /\ IF sock.client = 0 THEN UNCHANGED <<obj, pcb>>
     ELSE /\ obj' = [obj EXCEPT ![sock.client].credit = @ - Acked(reader.c)]
          /\ pcb' = IF obj[sock.client].pcb THEN [pcb EXCEPT ![sock.client].acked = @ + Acked(reader.c)] ELSE pcb
  /\ UNCHANGED <<sock, events, callback, failing, made, got>>

MainLoop ==
  \/ \E next \in {"idle", "open"} : CloseConn(next)
  \/ DropRx \/ ReleaseClient \/ Make \/ Start \/ GiveUp \/ Ack
  \/ \E k \in 1 .. RxWindow : Take(k)

\* lwIP does nothing else until tcp_error() is through.
Network ==
  LET through == failing # 0 => pcb[failing].st = "over" IN
  \E n \in Conns :
    \/ through /\ (Connected(n) \/ Arrives(n) \/ Ends(n) \/ FindsNone(n))
    \/ through /\ (\E found \in BOOLEAN : Resolved(n, found))
    \/ (through \/ failing = n) /\ Errs(n)

TcpNext == AsyncTask \/ MainLoop \/ Network

TcpSpec == TcpInit /\ [][TcpNext]_tcpVars

------------------------------------------------------------------------
TcpTypeOK ==
  /\ sock.client \in 0 .. made /\ sock.state \in {"idle", "connecting", "open", "closed"}
  /\ \A n \in Conns : obj[n].credit \in 0 .. RxWindow /\ pcb[n].acked \in 0 .. pcb[n].sent
  /\ reader.c \in 0 .. MaxConns \union 0 .. RxWindow

\* Open is what came up, and what the loop reads is what the peer of this very connection sent, in its
\* order and without a gap, though the callbacks of an earlier one still come;
\* a connection that ended without an error was read, or can be, to its end.
ReadsTheStream ==
  /\ sock.state = "open" => pcb[sock.client].st \in {"open", "over"}
  /\ ~ReaderAt("drop") => \A j \in DOMAIN sock.rx : sock.rx[j] = <<sock.client, got + j>>
  /\ sock.state = "closed" /\ sock.err = 0 =>
       pcb[sock.client].fin /\ got + Len(sock.rx) = pcb[sock.client].sent

Coming(n) == {i \in DOMAIN events : events[i].ev = "recv" /\ events[i].c = n}

\* What is held unread is no more than a window, and once all of it was read
\* the whole window is open again: the peer never waits for a loop that waits.
WindowFollows ==
  /\ Len(sock.rx) <= RxWindow
  /\ sock.state = "open" /\ sock.rx = <<>> /\ ReaderAt("idle") /\ callback.at # "data"
     /\ Coming(sock.client) = {} /\ pcb[sock.client].st = "open" =>
       pcb[sock.client].acked = pcb[sock.client].sent

\* A client is freed once, when neither the loop nor a callback can still meet
\* it, and none is left behind.
ClientsAreFreed ==
  /\ sock.client # 0 => obj[sock.client].live
  /\ ReaderAt("release") => obj[reader.c].live /\ ~obj[reader.c].released
  /\ callback.at # "idle" => obj[callback.c].live
  /\ ReaderAt("idle") /\ events = <<>> /\ callback.at = "idle" =>
       \A n \in Conns : obj[n].live => n = sock.client

\* What the peer sent is read once, in order, at the pace of the reader, by clients
\* of which each is freed once, however late what async_tcp calls back for an earlier one.
StreamsAreRead == ReadsTheStream /\ WindowFollows /\ ClientsAreFreed

\* EGTcpConn.cpp:69, of the release in close(): "closes it too".
ClosesItToo ==
  ReaderAt("idle") /\ events = <<>> /\ callback.at = "idle" =>
    \A n \in Conns : pcb[n].st = "open" => n = sock.client
============================================================================
