---------------------------- MODULE HttpClient ----------------------------
(* EGHttpClient: one request at a time, polled, over a connection that may *)
(* stall, break or close early, to servers that answer with a length, in   *)
(* chunks, until they close, or with a redirect.  A reply is a sequence of *)
(* tokens: a status line, the headers, parts of a body and, for chunks,    *)
(* the last; step() stops after any of them, as the network may.           *)
EXTENDS Naturals, Sequences

CONSTANTS
  Hosts,       \* hosts that serve http
  Replies,     \* what one may answer: [kind, by, size, to]
  Redirects,   \* setRedirects()
  Timeout,     \* setTimeout(), of silence
  Deadline     \* setDeadline(), of the whole request; 0: none

ASSUME HttpAssumption ==
  /\ Redirects \in Nat /\ Timeout \in Nat \ {0} /\ Deadline \in Nat
  /\ \A r \in Replies :
       /\ r.kind \in {"ok", "none", "moved", "see", "wait", "junk"}
       /\ r.by \in {"length", "chunks", "close"} /\ r.size \in Nat /\ r.to \in Hosts

VARIABLES
  c,      \* the client: phase, pending, ready, err, host, hdrs, body, hops, held, got
  tcp,    \* _tcp: its state, the reply of the server, the tokens that came and were read
  quiet,  \* now - _heardMs
  age,    \* now - _startMs
  told    \* ghost: what each host was sent

httpVars == <<c, tcp, quiet, age, told>>

Flying == {"dial", "send", "reply", "head", "body"}

NoReply == [kind |-> "none", by |-> "length", size |-> 0, to |-> CHOOSE h \in Hosts : TRUE]

Closed == [state |-> "closed", reset |-> FALSE, reply |-> NoReply, came |-> 0, read |-> 0]

Idle == [phase |-> "idle", pending |-> FALSE, ready |-> FALSE, err |-> "",
         host |-> NoReply.to, hdrs |-> {}, body |-> {}, hops |-> 0,
         held |-> FALSE, got |-> 0]

Init == c = Idle /\ tcp = Closed /\ quiet = 0 /\ age = 0 /\ told = {}

Tokens(r) ==
  <<"status", "headers">>
    \o (IF r.kind = "ok" THEN [i \in 1 .. r.size |-> "part"] ELSE <<>>)
    \o (IF r.kind = "ok" /\ r.by = "chunks" THEN <<"last">> ELSE <<>>)

Available == tcp.came > tcp.read

Gone == ~Available /\ tcp.state = "closed"

------------------------------------------------------------------------
\* end(): the first ending wins, and the connection closes.
Ended(cc, err) == [cc EXCEPT !.phase = "done", !.pending = TRUE, !.err = err, !.hdrs = {}]

Hung == tcp' = [tcp EXCEPT !.state = "closed"]

End(err) == c' = Ended(c, err) /\ Hung /\ UNCHANGED <<quiet, age, told>>

\* start(): a fresh request and a connection on its way.
Started(cc, h) ==
  [cc EXCEPT !.phase = "dial", !.ready = FALSE, !.host = h, !.held = FALSE, !.got = 0]

\* mutant: an ended request may be opened over before it is taken
IsIdleWhenDone == c.phase \in {"idle", "done"}

IsIdle == c.phase = "idle" \/ (c.phase = "done" /\ ~c.pending)

\* The connection may be refused at once: then nobody is told later.
Open(h) ==
  /\ IsIdle
  /\ \/ c' = Started(Idle, h) /\ tcp' = [Closed EXCEPT !.state = "dialing"]
     \/ c' = [Ended(Idle, "not_connected") EXCEPT !.pending = FALSE] /\ tcp' = Closed
  /\ quiet' = 0 /\ age' = 0 /\ told' = {}

SetReqHeader ==
  /\ c.phase = "dial" /\ ~c.ready
  /\ c' = [c EXCEPT !.hdrs = {c.host}]
  /\ UNCHANGED <<tcp, quiet, age, told>>

\* hdrs and body hold the host they were given for.
Sealed(cc, body) == [cc EXCEPT !.ready = TRUE, !.body = body]

\* send(): it fails when the request does not fit in memory.
Send(body) ==
  /\ c.phase = "dial" /\ ~c.ready
  /\ \/ c' = Sealed(c, body) /\ UNCHANGED <<tcp, quiet, age, told>>
     \/ End("ram")

Abort ==
  /\ c.phase \in Flying
  /\ c' = [Ended(c, "lost") EXCEPT !.pending = FALSE] /\ Hung
  /\ UNCHANGED <<quiet, age, told>>

TakeDone ==
  /\ c.phase = "done" /\ c.pending
  /\ c' = [c EXCEPT !.pending = FALSE]
  /\ UNCHANGED <<tcp, quiet, age, told>>

------------------------------------------------------------------------
(* step() *)

IsLate == (Deadline > 0 /\ age >= Deadline) \/ (quiet >= Timeout /\ ~c.held)

TimeOut == c.phase \in Flying /\ IsLate /\ End("timeout")

Dial ==
  /\ c.phase = "dial" /\ ~IsLate
  /\ \/ tcp.state = "closed" /\ End("not_connected")
     \/ /\ tcp.state = "open" /\ c.ready
        /\ c' = [c EXCEPT !.phase = "send"] /\ quiet' = 0
        /\ UNCHANGED <<tcp, age, told>>

Push ==
  /\ c.phase = "send" /\ ~IsLate
  /\ \/ ~Available /\ tcp.state = "closed" /\ End("lost")
     \/ /\ ~Available /\ tcp.state = "open"
        /\ told' = told \union {[to |-> c.host, given |-> c.hdrs \union c.body]}
        /\ c' = [c EXCEPT !.phase = "reply"] /\ quiet' = 0
        /\ UNCHANGED <<tcp, age>>
     \/ /\ Available  \* an early reply ends the sending
        /\ c' = [c EXCEPT !.phase = "reply"]
        /\ UNCHANGED <<tcp, quiet, age, told>>

Read == tcp' = [tcp EXCEPT !.read = @ + 1]

\* The next token, when it is t.
NextIs(t) == Available /\ ~IsLate /\ Tokens(tcp.reply)[tcp.read + 1] = t

StatusLine ==
  /\ c.phase = "reply" /\ NextIs("status")
  /\ IF tcp.reply.kind = "junk" THEN End("no_http")
     ELSE c' = [c EXCEPT !.phase = "head"] /\ Read /\ quiet' = 0 /\ UNCHANGED <<age, told>>

\* mutant: one redirect too many
ToFollowOnceMore ==
  /\ tcp.reply.kind \in {"moved", "see"}
  /\ c.body = {} \/ tcp.reply.kind = "see"
  /\ c.hops <= Redirects

\* 303 means GET, anything else is sent again only without a body.
ToFollow ==
  /\ tcp.reply.kind \in {"moved", "see"}
  /\ c.body = {} \/ tcp.reply.kind = "see"
  /\ c.hops < Redirects

\* follow(): the headers go along to the same host only.
Followed(cc) ==
  LET to == tcp.reply.to
      s  == Started([cc EXCEPT !.hops = @ + 1], to)
  IN  Sealed([s EXCEPT !.hdrs = IF to = cc.host THEN @ ELSE {}], {})

HeadDone ==
  /\ c.phase = "head" /\ NextIs("headers")
  /\ CASE tcp.reply.kind = "wait" ->
            /\ c' = [c EXCEPT !.phase = "reply"] /\ quiet' = 0
            /\ \E r \in Replies : tcp' = [tcp EXCEPT !.reply = r, !.came = 0, !.read = 0]
            /\ UNCHANGED <<age, told>>
       [] ToFollow ->
            \/ /\ c' = Followed(c) /\ tcp' = [Closed EXCEPT !.state = "dialing"]
               /\ quiet' = 0 /\ UNCHANGED <<age, told>>
            \/ End("not_connected")
       [] ~ToFollow /\ tcp.reply.kind = "ok" /\ (tcp.reply.by # "length" \/ tcp.reply.size > 0) ->
            c' = [c EXCEPT !.phase = "body"] /\ Read /\ quiet' = 0 /\ UNCHANGED <<age, told>>
       [] OTHER -> End("")

\* The sink takes the part, has no room for it now, or wants no more.
Part ==
  /\ c.phase = "body" /\ NextIs("part")
  /\ \/ LET g == c.got + 1 IN
        IF tcp.reply.by = "length" /\ g = tcp.reply.size
        THEN c' = Ended([c EXCEPT !.got = g], "") /\ Hung /\ UNCHANGED <<quiet, age, told>>
        ELSE c' = [c EXCEPT !.got = g, !.held = FALSE] /\ Read /\ quiet' = 0 /\ UNCHANGED <<age, told>>
     \/ c' = [c EXCEPT !.held = TRUE] /\ quiet' = 0 /\ UNCHANGED <<tcp, age, told>>
     \/ End("stream")

LastChunk == c.phase = "body" /\ NextIs("last") /\ End("")

\* mutant: the connection is gone: what came is the body
CutIsTheEnd ==
  /\ c.phase \in {"reply", "head", "body"} /\ Gone /\ ~IsLate
  /\ IF c.phase = "body" /\ ~tcp.reset THEN End("") ELSE End("lost")

\* Without a length a clean close is the end.
Cut ==
  /\ c.phase \in {"reply", "head", "body"} /\ Gone /\ ~IsLate
  /\ IF c.phase = "body" /\ tcp.reply.by = "close" /\ ~tcp.reset THEN End("") ELSE End("lost")

Step == TimeOut \/ Dial \/ Push \/ StatusLine \/ HeadDone \/ Part \/ LastChunk \/ Cut

------------------------------------------------------------------------
(* The network, the servers and the clock. *)

Answer ==
  /\ tcp.state = "dialing"
  /\ \/ \E r \in Replies : tcp' = [tcp EXCEPT !.state = "open", !.reply = r]
     \/ Hung
  /\ UNCHANGED <<c, quiet, age, told>>

Arrive ==
  /\ tcp.state = "open" /\ tcp.came < Len(Tokens(tcp.reply))
  /\ tcp' = [tcp EXCEPT !.came = @ + 1]
  /\ UNCHANGED <<c, quiet, age, told>>

HangUp ==
  /\ tcp.state = "open"
  /\ \E reset \in BOOLEAN : tcp' = [tcp EXCEPT !.state = "closed", !.reset = reset]
  /\ UNCHANGED <<c, quiet, age, told>>

TimePasses ==
  /\ c.phase \in Flying
  /\ quiet' = IF quiet < Timeout THEN quiet + 1 ELSE quiet
  /\ age' = IF age < Deadline THEN age + 1 ELSE age
  /\ UNCHANGED <<c, tcp, told>>

Next ==
  \/ \E h \in Hosts : Open(h)
  \/ SetReqHeader \/ Abort \/ TakeDone
  \/ \E body \in {{}, {c.host}} : Send(body)
  \/ Step \/ Answer \/ Arrive \/ HangUp \/ TimePasses

\* The loop polls the client, and time goes on.
Spec == Init /\ [][Next]_httpVars /\ WF_httpVars(Step) /\ WF_httpVars(TimePasses)

------------------------------------------------------------------------
TypeOK ==
  /\ c.phase \in Flying \union {"idle", "done"} /\ c.hdrs \subseteq Hosts
  /\ c.hops \in 0 .. Redirects /\ tcp.read <= tcp.came /\ tcp.came <= Len(Tokens(tcp.reply))
  /\ quiet \in 0 .. Timeout /\ age \in 0 .. Deadline

Call ==
  CASE c.phase = "idle" \/ (c.phase = "done" /\ ~c.pending) -> "free"
    [] c.phase = "dial" /\ ~c.ready -> "open"
    [] c.phase \in Flying /\ c.ready -> "sent"
    [] OTHER -> IF c.err = "" THEN "ok" ELSE "failed"

A == INSTANCE HttpCall WITH call <- Call

\* Through redirects, early replies, timeouts and broken connections a call
\* ends once, in an order its caller knows, and no other starts before; with a
\* deadline it ends whatever the server, the sink and the caller do.
CallsEndOnce == A!Safety /\ (Deadline > 0 => A!Ends)

\* What ends well is the whole reply: a body cut by the network never passes
\* for one, unless only the close could have told where it ends.
OkIsWhole ==
  c.phase = "done" /\ c.err = "" =>
    \/ tcp.reply.kind # "ok"
    \/ c.got = tcp.reply.size
    \/ tcp.reply.by = "close" /\ ~tcp.reset

\* A redirect takes neither the headers nor the body to another host.
SecretsStay == \A t \in told : t.given \subseteq {t.to}

\* What is received is whole and what is sent stays with whom it is for.
RepliesAreHonest == OkIsWhole /\ SecretsStay
============================================================================
