--------------------------- MODULE HttpClientProofs ---------------------------
(***************************************************************************)
(* What is proved of the HTTP client, for any hosts and replies, any       *)
(* number of redirects and any timeouts, however the network stalls,       *)
(* breaks or closes: what ends well is whole, what was given for one host  *)
(* is sent to no other, and a call goes the way HttpCall promises.  And of *)
(* the connections it stands on, for any number of them, though one may    *)
(* break as it comes up: what is read is what this peer sent, in order,    *)
(* and each client is freed once.                                          *)
(***************************************************************************)
EXTENDS HttpClient, TcpConn, Integers, SelectionProofs, SequenceTheorems, TLAPS

Phases == Flying \cup {"idle", "done"}
Errors == {"", "not_connected", "ram", "lost", "timeout", "no_http", "stream"}
Names == Hosts \cup {NoReply.to}
Answers == Replies \cup {NoReply}

ClientType ==
  [phase : Phases, pending : BOOLEAN, ready : BOOLEAN, err : Errors, host : Names,
   hdrs : SUBSET Hosts, body : SUBSET Hosts, hops : 0 .. Redirects, held : BOOLEAN, got : Nat]

ConnType ==
  [state : {"closed", "dialing", "open"}, reset : BOOLEAN, reply : Answers, came : Nat, read : Nat]

(* The client, its connection and the clocks are well formed.              *)
Types ==
  /\ c \in ClientType /\ tcp \in ConnType
  /\ quiet \in 0 .. Timeout /\ age \in 0 .. Deadline
  /\ tcp.came <= Len(Tokens(tcp.reply)) /\ tcp.read <= tcp.came

(* How much of a reply was read follows from the phase, and a body is read *)
(* of a good reply only; who is not flying has no connection.              *)
ReadInv ==
  /\ c.phase \notin Flying => tcp.state = "closed"
  /\ tcp.state = "dialing" => tcp.came = 0 /\ tcp.read = 0
  /\ c.phase \in {"dial", "send", "reply"} => tcp.read = 0 /\ c.got = 0
  /\ c.phase = "head" => tcp.read = 1 /\ c.got = 0
  /\ c.phase = "body" => tcp.reply.kind = "ok" /\ tcp.read = c.got + 2
  /\ c.phase \in {"send", "reply", "head", "body"} => c.ready

(* A request that is on its way holds what was given for its host.         *)
HostInv ==
  /\ c.phase \in Flying => /\ c.host \in Hosts
                           /\ c.hdrs \subseteq {c.host} /\ c.body \subseteq {c.host}
  /\ SecretsStay

HttpInv == Types /\ ReadInv /\ HostInv /\ OkIsWhole

----------------------------------------------------------------------------
(* The replies and their tokens                                            *)

\* What a server may answer, and what a connection holds before it does.
LEMMA AnswerIs ==
  ASSUME NEW r \in Answers
  PROVE  /\ r.kind \in {"ok", "none", "moved", "see", "wait", "junk"}
         /\ r.by \in {"length", "chunks", "close"} /\ r.size \in Nat
         /\ r.kind # "none" => r.to \in Hosts
<1>1. CASE r \in Replies
  BY <1>1, HttpAssumption
<1>2. CASE r = NoReply
  BY <1>2 DEF NoReply
<1> QED BY <1>1, <1>2 DEF Answers

\* The place of a token tells which it is: the parts of a body come third and
\* the end of the chunks after all of them.
LEMMA TokensAre ==
  ASSUME NEW r \in Answers
  PROVE  /\ Len(Tokens(r)) \in Nat /\ Len(Tokens(r)) >= 2
         /\ Tokens(r)[1] = "status" /\ Tokens(r)[2] = "headers"
         /\ \A i \in 3 .. Len(Tokens(r)) :
              /\ r.kind = "ok"
              /\ \/ Tokens(r)[i] = "part" /\ i <= r.size + 2
                 \/ Tokens(r)[i] = "last" /\ i = r.size + 3
<1> DEFINE S == {"status", "headers", "part", "last"}
           T == <<"status", "headers">>
           P == IF r.kind = "ok" THEN [i \in 1 .. r.size |-> "part"] ELSE <<>>
           L == IF r.kind = "ok" /\ r.by = "chunks" THEN <<"last">> ELSE <<>>
<1>1. r.size \in Nat
  BY AnswerIs
<1>2. /\ P \in Seq(S) /\ (r.kind # "ok" => Len(P) = 0) /\ (r.kind = "ok" => Len(P) = r.size)
      /\ \A i \in 1 .. Len(P) : P[i] = "part"
  <2>1. CASE r.kind = "ok"
    BY <1>1, <2>1
  <2>2. CASE r.kind # "ok"
    BY <2>2
  <2> QED BY <2>1, <2>2
<1>3. /\ L \in Seq(S) /\ Len(L) \in {0, 1} /\ (r.kind # "ok" => Len(L) = 0)
      /\ \A i \in 1 .. Len(L) : L[i] = "last"
  <2>1. CASE r.kind = "ok" /\ r.by = "chunks"
    <3>1. L = <<"last">>
      BY <2>1
    <3> QED BY <2>1, <3>1
  <2>2. CASE ~(r.kind = "ok" /\ r.by = "chunks")
    BY <2>2
  <2> QED BY <2>1, <2>2
<1>4. T \in Seq(S) /\ Len(T) = 2 /\ T[1] = "status" /\ T[2] = "headers"
  OBVIOUS
<1>5. Tokens(r) = (T \o P) \o L
  BY DEF Tokens
<1> HIDE DEF T, P, L
<1> DEFINE B == T \o P
<1>6. /\ B \in Seq(S) /\ Len(B) = 2 + Len(P) /\ B[1] = "status" /\ B[2] = "headers"
      /\ \A i \in 3 .. Len(B) : B[i] = "part"
  <2> HIDE DEF S
  <2>1. /\ B \in Seq(S) /\ Len(B) = Len(T) + Len(P)
        /\ \A i \in 1 .. Len(T) : B[i] = T[i]
        /\ \A i \in Len(T) + 1 .. Len(T) + Len(P) : B[i] = P[i - Len(T)]
    <3>1. /\ T \o P \in Seq(S) /\ Len(T \o P) = Len(T) + Len(P)
          /\ \A i \in 1 .. Len(T) + Len(P) :
               (T \o P)[i] = IF i <= Len(T) THEN T[i] ELSE P[i - Len(T)]
      BY <1>2, <1>4, ConcatProperties, ZenonT(60)
    <3> QED BY <1>2, <1>4, <3>1
  <2>2. \A i \in 3 .. 2 + Len(P) : i - 2 \in 1 .. Len(P)
    BY <1>2
  <2> QED BY <1>2, <1>4, <2>1, <2>2
<1> HIDE DEF B
<1>7. /\ Len(Tokens(r)) = Len(B) + Len(L)
      /\ \A i \in 1 .. Len(B) : Tokens(r)[i] = B[i]
      /\ \A i \in Len(B) + 1 .. Len(B) + Len(L) : Tokens(r)[i] = L[i - Len(B)]
  BY <1>3, <1>5, <1>6, SMTT(30) DEF B
<1> QED BY <1>1, <1>2, <1>3, <1>6, <1>7, SMTT(30)

\* The next token tells what may follow.
LEMMA NextToken ==
  ASSUME HttpInv, NEW t, NextIs(t)
  PROVE  /\ tcp.read + 1 <= tcp.came
         /\ t = "status" => tcp.read = 0
         /\ t = "headers" => tcp.read = 1
         /\ t = "part" => tcp.read + 1 <= tcp.reply.size + 2
         /\ t = "last" => tcp.read = tcp.reply.size + 2
<1>1. /\ tcp.reply \in Answers /\ tcp.read \in Nat /\ tcp.came \in Nat
      /\ tcp.came <= Len(Tokens(tcp.reply))
  BY DEF HttpInv, Types, ConnType
<1>2. tcp.read + 1 <= tcp.came /\ Tokens(tcp.reply)[tcp.read + 1] = t
  BY <1>1 DEF NextIs, Available
<1>3. tcp.reply.size \in Nat
  BY <1>1, AnswerIs
<1>4. Len(Tokens(tcp.reply)) \in Nat /\ tcp.read + 1 \in 1 .. Len(Tokens(tcp.reply))
  BY <1>1, <1>2, TokensAre
<1> DEFINE n == tcp.read + 1
           T == Tokens(tcp.reply)
<1>5. /\ T[1] = "status" /\ T[2] = "headers"
      /\ \A i \in 3 .. Len(T) : \/ T[i] = "part" /\ i <= tcp.reply.size + 2
                                \/ T[i] = "last" /\ i = tcp.reply.size + 3
  BY <1>1, TokensAre
<1> HIDE DEF T
<1>6. n = 1 \/ n = 2 \/ n \in 3 .. Len(T)
  BY <1>1, <1>4 DEF T
<1>7. CASE n = 1
  BY <1>1, <1>2, <1>5, <1>7 DEF T
<1>8. CASE n = 2
  BY <1>1, <1>2, <1>5, <1>8 DEF T
<1>9. CASE n \in 3 .. Len(T)
  <2>1. t = T[n]
    BY <1>2 DEF T
  <2>2. \/ t = "part" /\ n <= tcp.reply.size + 2
        \/ t = "last" /\ n = tcp.reply.size + 3
    BY <1>5, <1>9, <2>1
  <2> QED BY <1>1, <1>2, <1>3, <2>2
<1> QED BY <1>6, <1>7, <1>8, <1>9

----------------------------------------------------------------------------
(* The steps                                                               *)

\* end(): of a body that is not whole only the close may be the good end.
LEMMA EndInv ==
  ASSUME HttpInv, c.phase \in Flying, NEW e \in Errors, NEW g \in Nat,
         c' = Ended([c EXCEPT !.got = g], e) \/ c' = [Ended([c EXCEPT !.got = g], e) EXCEPT !.pending = FALSE],
         Hung, UNCHANGED <<quiet, age, told>>,
         e = "" => \/ tcp.reply.kind # "ok" \/ g = tcp.reply.size
                   \/ tcp.reply.by = "close" /\ ~tcp.reset
  PROVE  HttpInv'
<1>1. c \in ClientType /\ tcp \in ConnType
  BY DEF HttpInv, Types
<1>2. /\ c' \in ClientType /\ c'.phase = "done" /\ c'.err = e /\ c'.got = g
  <2> DEFINE d == Ended([c EXCEPT !.got = g], e)
  <2>1. d \in ClientType /\ d.phase = "done" /\ d.err = e /\ d.got = g
    BY <1>1 DEF ClientType, Ended, Phases
  <2> HIDE DEF d
  <2>2. CASE c' = d
    BY <2>1, <2>2
  <2>3. CASE c' = [d EXCEPT !.pending = FALSE]
    BY <2>1, <2>3 DEF ClientType
  <2> QED BY <2>2, <2>3 DEF d
<1>3. /\ tcp' \in ConnType /\ tcp'.state = "closed"
      /\ tcp'.reply = tcp.reply /\ tcp'.came = tcp.came /\ tcp'.read = tcp.read
      /\ tcp'.reset = tcp.reset
  BY <1>1 DEF ConnType, Hung
<1>4. Types'
  BY <1>2, <1>3 DEF HttpInv, Types
<1>5. ReadInv' /\ HostInv'
  BY <1>2, <1>3 DEF HttpInv, ReadInv, HostInv, SecretsStay, Flying
<1>6. OkIsWhole'
  BY <1>2, <1>3 DEF OkIsWhole
<1> QED BY <1>4, <1>5, <1>6 DEF HttpInv

LEMMA EndStep ==
  ASSUME HttpInv, c.phase \in Flying, NEW e \in Errors, End(e),
         e = "" => \/ tcp.reply.kind # "ok" \/ c.got = tcp.reply.size
                   \/ tcp.reply.by = "close" /\ ~tcp.reset
  PROVE  HttpInv'
<1>1. c \in ClientType
  BY DEF HttpInv, Types
<1>2. c.got \in Nat /\ c = [c EXCEPT !.got = c.got]
  BY <1>1 DEF ClientType
<1>3. c' = Ended([c EXCEPT !.got = c.got], e)
  BY <1>2 DEF End
<1> QED BY <1>2, <1>3, EndInv DEF End

\* What a step does to a request that stays on its way: the phase, what was
\* read and what the request holds have to fit each other.
LEMMA FlyInv ==
  ASSUME HttpInv, c' \in ClientType, c'.phase \in Flying, tcp' \in ConnType,
         quiet' \in 0 .. Timeout, age' \in 0 .. Deadline, told' = told,
         tcp'.came <= Len(Tokens(tcp'.reply)), tcp'.read <= tcp'.came, ReadInv',
         c'.host \in Hosts, c'.hdrs \subseteq {c'.host}, c'.body \subseteq {c'.host}
  PROVE  HttpInv'
<1>1. Types'
  BY DEF Types, HttpInv
<1>2. HostInv'
  BY DEF HostInv, HttpInv, SecretsStay
<1>3. OkIsWhole'
  BY DEF OkIsWhole, Flying
<1> QED BY <1>1, <1>2, <1>3 DEF HttpInv

\* An unused client and a connection not yet made are well formed.
LEMMA UnusedIs ==
  /\ Idle \in ClientType /\ Closed \in ConnType
  /\ Closed.came = 0 /\ Closed.read = 0 /\ Closed.state = "closed"
  /\ 0 <= Len(Tokens(Closed.reply))
<1>1. NoReply \in Answers
  BY DEF Answers
<1>2. Closed \in ConnType /\ Closed.reply = NoReply
  BY <1>1 DEF Closed, ConnType
<1>3. 0 \in 0 .. Redirects
  BY HttpAssumption
<1>4. Idle \in ClientType
  BY <1>3 DEF Idle, ClientType, Names, Errors, Phases
<1> QED BY <1>1, <1>2, <1>4, TokensAre DEF Closed

\* The calls of the application.
LEMMA CallStep ==
  ASSUME HttpInv,
         (\E h \in Hosts : Open(h)) \/ SetReqHeader \/ Abort \/ TakeDone
           \/ \E body \in {{}, {c.host}} : Send(body)
  PROVE  HttpInv'
<1>1. /\ c \in ClientType /\ tcp \in ConnType /\ quiet \in 0 .. Timeout /\ age \in 0 .. Deadline
      /\ tcp.came <= Len(Tokens(tcp.reply)) /\ tcp.read <= tcp.came /\ ReadInv /\ HostInv
  BY DEF HttpInv, Types
<1>2. 0 \in 0 .. Timeout /\ 0 \in 0 .. Deadline /\ 0 \in 0 .. Redirects
  BY HttpAssumption
<1>3. /\ Idle \in ClientType /\ Closed \in ConnType
      /\ Closed.came = 0 /\ Closed.read = 0 /\ Closed.state = "closed"
      /\ 0 <= Len(Tokens(Closed.reply))
  BY UnusedIs
<1>4. ASSUME NEW h \in Hosts, Open(h) PROVE HttpInv'
  <2>1. quiet' = 0 /\ age' = 0 /\ told' = {}
    BY <1>4 DEF Open
  <2>2. CASE c' = Started(Idle, h) /\ tcp' = [Closed EXCEPT !.state = "dialing"]
    <3>1. /\ tcp' \in ConnType /\ tcp'.came = 0 /\ tcp'.read = 0 /\ tcp'.state = "dialing"
          /\ tcp'.reply = Closed.reply
      BY <1>3, <2>2 DEF ConnType
    <3>2. /\ c' \in ClientType /\ c'.phase = "dial" /\ c'.host = h /\ c'.hdrs = {} /\ c'.body = {}
          /\ c'.got = 0
      <4>1. Idle.hdrs = {} /\ Idle.body = {}
        BY DEF Idle
      <4> HIDE DEF Idle
      <4> QED BY <1>3, <2>2, <4>1 DEF ClientType, Started, Phases, Flying, Names
    <3>3. Types'
      BY <1>2, <1>3, <2>1, <3>1, <3>2 DEF Types
    <3>4. ReadInv' /\ HostInv' /\ OkIsWhole'
      BY <2>1, <3>1, <3>2 DEF ReadInv, HostInv, OkIsWhole, SecretsStay, Flying
    <3> QED BY <3>3, <3>4 DEF HttpInv
  <2>3. CASE c' = [Ended(Idle, "not_connected") EXCEPT !.pending = FALSE] /\ tcp' = Closed
    <3>1. c' \in ClientType /\ c'.phase = "done" /\ c'.err = "not_connected"
      <4> HIDE DEF Idle
      <4> QED BY <1>3, <2>3 DEF ClientType, Ended, Phases, Errors
    <3>2. Types'
      BY <1>2, <1>3, <2>1, <2>3, <3>1 DEF Types
    <3>3. ReadInv' /\ HostInv' /\ OkIsWhole'
      BY <1>3, <2>1, <2>3, <3>1 DEF ReadInv, HostInv, OkIsWhole, SecretsStay, Flying
    <3> QED BY <3>2, <3>3 DEF HttpInv
  <2> QED BY <1>4, <2>2, <2>3 DEF Open
<1>5. CASE SetReqHeader
  <2>1. /\ c.phase = "dial" /\ c' = [c EXCEPT !.hdrs = {c.host}]
        /\ UNCHANGED <<tcp, quiet, age, told>>
    BY <1>5 DEF SetReqHeader
  <2>2. c.host \in Hosts /\ c.body \subseteq {c.host}
    BY <1>1, <2>1 DEF HostInv, Flying
  <2>3. /\ c' \in ClientType /\ c'.phase = "dial" /\ c'.got = c.got
        /\ c'.host = c.host /\ c'.hdrs = {c.host} /\ c'.body = c.body
    BY <1>1, <2>1, <2>2 DEF ClientType
  <2>4. ReadInv'
    BY <1>1, <2>1, <2>3 DEF ReadInv
  <2> QED BY <1>1, <2>1, <2>2, <2>3, <2>4, FlyInv DEF Flying
<1>6. CASE Abort
  <2>1. /\ c.phase \in Flying /\ c' = [Ended(c, "lost") EXCEPT !.pending = FALSE] /\ Hung
        /\ UNCHANGED <<quiet, age, told>>
    BY <1>6 DEF Abort
  <2>2. c.got \in Nat /\ c = [c EXCEPT !.got = c.got]
    BY <1>1 DEF ClientType
  <2>3. c' = [Ended([c EXCEPT !.got = c.got], "lost") EXCEPT !.pending = FALSE]
    BY <2>1, <2>2
  <2>4. "lost" \in Errors
    BY DEF Errors
  <2> QED BY <2>1, <2>2, <2>3, <2>4, EndInv
<1>7. CASE TakeDone
  <2>1. /\ c.phase = "done" /\ c' = [c EXCEPT !.pending = FALSE]
        /\ UNCHANGED <<tcp, quiet, age, told>>
    BY <1>7 DEF TakeDone
  <2>2. c' \in ClientType /\ c'.phase = "done" /\ c'.err = c.err /\ c'.got = c.got
    BY <1>1, <2>1 DEF ClientType
  <2>3. ReadInv' /\ HostInv' /\ OkIsWhole'
    BY <1>1, <2>1, <2>2 DEF HttpInv, ReadInv, HostInv, OkIsWhole, SecretsStay, Flying
  <2> QED BY <1>1, <2>1, <2>2, <2>3 DEF HttpInv, Types
<1>8. ASSUME NEW body \in {{}, {c.host}}, Send(body) PROVE HttpInv'
  <2>1. c.phase = "dial"
    BY <1>8 DEF Send
  <2>2. CASE c' = Sealed(c, body) /\ UNCHANGED <<tcp, quiet, age, told>>
    <3>1. c.host \in Hosts /\ c.hdrs \subseteq {c.host}
      BY <1>1, <2>1 DEF HostInv, Flying
    <3>2. /\ c' \in ClientType /\ c'.phase = "dial" /\ c'.got = c.got
          /\ c'.host = c.host /\ c'.hdrs = c.hdrs /\ c'.body = body
      BY <1>1, <1>8, <2>1, <2>2, <3>1 DEF ClientType, Sealed
    <3>3. ReadInv'
      BY <1>1, <2>1, <2>2, <3>2 DEF ReadInv
    <3> QED BY <1>1, <1>8, <2>2, <3>1, <3>2, <3>3, FlyInv DEF Flying
  <2>3. CASE End("ram")
    BY <2>1, <2>3, EndStep DEF Errors, Flying
  <2> QED BY <1>8, <2>2, <2>3 DEF Send
<1> QED BY <1>4, <1>5, <1>6, <1>7, <1>8

\* step(), before a reply comes: it dials, sends, and gives up in time.
LEMMA SendingStep ==
  ASSUME HttpInv, TimeOut \/ Dial \/ Push
  PROVE  HttpInv'
<1>1. /\ c \in ClientType /\ tcp \in ConnType /\ quiet \in 0 .. Timeout /\ age \in 0 .. Deadline
      /\ tcp.came <= Len(Tokens(tcp.reply)) /\ tcp.read <= tcp.came
      /\ ReadInv /\ HostInv /\ SecretsStay
  BY DEF HttpInv, Types, HostInv
<1>2. 0 \in 0 .. Timeout
  BY HttpAssumption
<1>3. CASE TimeOut
  BY <1>3, EndStep DEF TimeOut, Errors
<1>4. CASE Dial
  <2>1. c.phase = "dial"
    BY <1>4 DEF Dial
  <2>2. CASE End("not_connected")
    BY <2>1, <2>2, EndStep DEF Errors, Flying
  <2>3. CASE /\ tcp.state = "open" /\ c.ready /\ c' = [c EXCEPT !.phase = "send"] /\ quiet' = 0
             /\ UNCHANGED <<tcp, age, told>>
    <3>1. c.host \in Hosts /\ c.hdrs \subseteq {c.host} /\ c.body \subseteq {c.host}
      BY <1>1, <2>1 DEF HostInv, Flying
    <3>2. /\ c' \in ClientType /\ c'.phase = "send" /\ c'.got = c.got /\ c'.ready
          /\ c'.host = c.host /\ c'.hdrs = c.hdrs /\ c'.body = c.body
      BY <1>1, <2>3 DEF ClientType, Phases, Flying
    <3>3. ReadInv'
      BY <1>1, <2>1, <2>3, <3>2 DEF ReadInv, Flying
    <3> QED BY <1>1, <1>2, <2>3, <3>1, <3>2, <3>3, FlyInv DEF Flying
  <2> QED BY <1>4, <2>2, <2>3 DEF Dial
<1>5. CASE Push
  <2>1. c.phase = "send"
    BY <1>5 DEF Push
  <2>2. CASE End("lost")
    BY <2>1, <2>2, EndStep DEF Errors, Flying
  <2>3. CASE /\ c' = [c EXCEPT !.phase = "reply"] /\ quiet' \in {0, quiet}
             /\ told' \in {told, told \cup {[to |-> c.host, given |-> c.hdrs \cup c.body]}}
             /\ UNCHANGED <<tcp, age>>
    <3>1. c.host \in Hosts /\ c.hdrs \subseteq {c.host} /\ c.body \subseteq {c.host} /\ c.ready
      BY <1>1, <2>1 DEF HostInv, ReadInv, Flying
    <3>2. /\ c' \in ClientType /\ c'.phase = "reply" /\ c'.got = c.got /\ c'.ready
          /\ c'.host = c.host /\ c'.hdrs = c.hdrs /\ c'.body = c.body
      BY <1>1, <2>3, <3>1 DEF ClientType, Phases, Flying
    <3>3. ReadInv'
      BY <1>1, <2>1, <2>3, <3>2 DEF ReadInv, Flying
    <3>4. SecretsStay'
      BY <1>1, <2>3, <3>1 DEF SecretsStay
    <3>5. HostInv' /\ OkIsWhole'
      BY <3>1, <3>2, <3>4 DEF HostInv, OkIsWhole, Flying
    <3>6. Types'
      BY <1>1, <1>2, <2>3, <3>2 DEF Types
    <3> QED BY <3>3, <3>5, <3>6 DEF HttpInv
  <2> QED BY <1>5, <2>2, <2>3 DEF Push
<1> QED BY <1>3, <1>4, <1>5

\* What reading a token does to the connection.
LEMMA ReadIs ==
  ASSUME HttpInv, Read, tcp.read + 1 <= tcp.came
  PROVE  /\ tcp' \in ConnType /\ tcp'.read = tcp.read + 1 /\ tcp'.came = tcp.came
         /\ tcp'.reply = tcp.reply /\ tcp'.state = tcp.state /\ tcp'.reset = tcp.reset
         /\ tcp'.came <= Len(Tokens(tcp'.reply)) /\ tcp'.read <= tcp'.came
BY DEF HttpInv, Types, ConnType, Read

\* The status line and the headers: a reply begins, is put off, goes on
\* elsewhere or is done with.
LEMMA HeadStep ==
  ASSUME HttpInv, StatusLine \/ HeadDone
  PROVE  HttpInv'
<1>1. /\ c \in ClientType /\ tcp \in ConnType /\ quiet \in 0 .. Timeout /\ age \in 0 .. Deadline
      /\ ReadInv /\ HostInv
  BY DEF HttpInv, Types
<1>2. 0 \in 0 .. Timeout /\ tcp.reply \in Answers
  BY <1>1, HttpAssumption DEF ConnType
<1>3. CASE StatusLine
  <2>1. c.phase = "reply" /\ NextIs("status")
    BY <1>3 DEF StatusLine
  <2>2. CASE End("no_http")
    BY <2>1, <2>2, EndStep DEF Errors, Flying
  <2>3. CASE c' = [c EXCEPT !.phase = "head"] /\ Read /\ quiet' = 0 /\ UNCHANGED <<age, told>>
    <3>1. c.host \in Hosts /\ c.hdrs \subseteq {c.host} /\ c.body \subseteq {c.host} /\ c.ready
      BY <1>1, <2>1 DEF HostInv, ReadInv, Flying
    <3>2. /\ c' \in ClientType /\ c'.phase = "head" /\ c'.got = c.got /\ c'.ready
          /\ c'.host = c.host /\ c'.hdrs = c.hdrs /\ c'.body = c.body
      BY <1>1, <2>3, <3>1 DEF ClientType, Phases, Flying
    <3>3. tcp.read + 1 <= tcp.came
      BY <2>1, NextToken
    <3>4. /\ tcp' \in ConnType /\ tcp'.read = 1 /\ tcp'.state = tcp.state /\ tcp.came > 0
          /\ tcp'.came <= Len(Tokens(tcp'.reply)) /\ tcp'.read <= tcp'.came
      BY <1>1, <2>1, <2>3, <3>3, ReadIs DEF ReadInv, ConnType
    <3>5. ReadInv'
      BY <1>1, <2>1, <3>2, <3>4 DEF ReadInv, Flying
    <3> QED BY <1>1, <1>2, <2>3, <3>1, <3>2, <3>4, <3>5, FlyInv DEF Flying
  <2> QED BY <1>3, <2>2, <2>3 DEF StatusLine
<1>4. CASE HeadDone
  <2>1. c.phase = "head" /\ NextIs("headers")
    BY <1>4 DEF HeadDone
  <2>2. /\ c.host \in Hosts /\ c.hdrs \subseteq {c.host} /\ c.body \subseteq {c.host} /\ c.ready
        /\ c.got = 0 /\ tcp.read = 1 /\ tcp.read + 1 <= tcp.came
    BY <1>1, <2>1, NextToken DEF HostInv, ReadInv, Flying
  <2>3. ASSUME NEW r \in Replies, c' = [c EXCEPT !.phase = "reply"], quiet' = 0,
               tcp' = [tcp EXCEPT !.reply = r, !.came = 0, !.read = 0], UNCHANGED <<age, told>>
        PROVE  HttpInv'
    <3>1. /\ c' \in ClientType /\ c'.phase = "reply" /\ c'.got = 0 /\ c'.ready
          /\ c'.host = c.host /\ c'.hdrs = c.hdrs /\ c'.body = c.body
      BY <1>1, <2>2, <2>3 DEF ClientType, Phases, Flying
    <3>2. r \in Answers /\ 0 <= Len(Tokens(r))
      BY TokensAre DEF Answers
    <3>3. tcp' \in ConnType /\ tcp'.reply = r /\ tcp'.came = 0 /\ tcp'.read = 0
      BY <1>1, <2>3, <3>2 DEF ConnType
    <3>4. ReadInv'
      BY <3>1, <3>3 DEF ReadInv, Flying
    <3> QED BY <1>1, <1>2, <2>2, <2>3, <3>1, <3>2, <3>3, <3>4, FlyInv DEF Flying
  <2>4. ASSUME ToFollow, c' = Followed(c), tcp' = [Closed EXCEPT !.state = "dialing"],
               quiet' = 0, UNCHANGED <<age, told>>
        PROVE  HttpInv'
    <3>1. tcp.reply.to \in Hosts /\ c.hops + 1 \in 0 .. Redirects
      BY <1>1, <1>2, <2>4, AnswerIs, HttpAssumption DEF ToFollow, ClientType
    <3>2. /\ c' \in ClientType /\ c'.phase = "dial" /\ c'.got = 0
          /\ c'.host = tcp.reply.to /\ c'.body = {}
          /\ c'.hdrs = IF tcp.reply.to = c.host THEN c.hdrs ELSE {}
      <4> DEFINE d == [c EXCEPT !.hops = @ + 1]
                 s == Started(d, tcp.reply.to)
      <4>1. d \in ClientType /\ d.hdrs = c.hdrs
        BY <1>1, <3>1 DEF ClientType
      <4> HIDE DEF d
      <4>2. /\ s \in ClientType /\ s.phase = "dial" /\ s.got = 0 /\ s.host = tcp.reply.to
            /\ s.hdrs = c.hdrs
        BY <3>1, <4>1 DEF ClientType, Started, Phases, Flying, Names
      <4>3. c' = Sealed([s EXCEPT !.hdrs = IF tcp.reply.to = c.host THEN @ ELSE {}], {})
        BY <2>4 DEF Followed, d
      <4> HIDE DEF s
      <4> QED BY <4>2, <4>3 DEF ClientType, Sealed
    <3>3. NoReply \in Answers /\ 0 <= Len(Tokens(NoReply))
      BY TokensAre DEF Answers
    <3>4. /\ tcp' \in ConnType /\ tcp'.reply = NoReply /\ tcp'.came = 0 /\ tcp'.read = 0
      BY <2>4, <3>3 DEF ConnType, Closed
    <3>5. ReadInv'
      BY <3>2, <3>4 DEF ReadInv, Flying
    <3>6. c'.hdrs \subseteq {c'.host} /\ c'.body \subseteq {c'.host} /\ c'.host \in Hosts
      BY <2>2, <3>1, <3>2
    <3> QED BY <1>1, <1>2, <2>4, <3>2, <3>3, <3>4, <3>5, <3>6, FlyInv DEF Flying
  <2>5. ASSUME tcp.reply.kind = "ok", c' = [c EXCEPT !.phase = "body"], Read, quiet' = 0,
               UNCHANGED <<age, told>>
        PROVE  HttpInv'
    <3>1. /\ c' \in ClientType /\ c'.phase = "body" /\ c'.got = 0 /\ c'.ready
          /\ c'.host = c.host /\ c'.hdrs = c.hdrs /\ c'.body = c.body
      BY <1>1, <2>2, <2>5 DEF ClientType, Phases, Flying
    <3>2. /\ tcp' \in ConnType /\ tcp'.read = 2 /\ tcp'.state = tcp.state
          /\ tcp'.reply = tcp.reply
          /\ tcp'.came <= Len(Tokens(tcp'.reply)) /\ tcp'.read <= tcp'.came
      BY <2>2, <2>5, ReadIs
    <3>3. ReadInv'
      BY <1>1, <2>2, <2>5, <3>1, <3>2 DEF ReadInv, Flying
    <3> QED BY <1>1, <1>2, <2>2, <2>5, <3>1, <3>2, <3>3, FlyInv DEF Flying
  <2>6. ASSUME tcp.reply.kind # "ok" \/ tcp.reply.size = 0, End("") PROVE HttpInv'
    BY <2>1, <2>2, <2>6, EndStep DEF Errors, Flying
  <2>7. ASSUME End("not_connected") PROVE HttpInv'
    BY <2>1, <2>7, EndStep DEF Errors, Flying
  <2>8. tcp.reply.size \in Nat
    BY <1>2, AnswerIs
  <2>9. CASE tcp.reply.kind = "wait"
    BY <1>4, <2>3, <2>9 DEF HeadDone, ToFollow
  <2>10. CASE ToFollow
    <3>1. tcp.reply.kind # "wait" /\ tcp.reply.kind # "ok"
      BY <2>10 DEF ToFollow
    <3> QED BY <1>4, <2>4, <2>7, <2>10, <3>1 DEF HeadDone
  <2>11. CASE tcp.reply.kind # "wait" /\ ~ToFollow
    <3>1. CASE tcp.reply.kind = "ok" /\ (tcp.reply.by # "length" \/ tcp.reply.size > 0)
      <4>1. c' = [c EXCEPT !.phase = "body"] /\ Read /\ quiet' = 0 /\ UNCHANGED <<age, told>>
        BY <1>4, <2>11, <3>1 DEF HeadDone
      <4> QED BY <2>5, <3>1, <4>1
    <3>2. CASE ~(tcp.reply.kind = "ok" /\ (tcp.reply.by # "length" \/ tcp.reply.size > 0))
      <4>1. End("")
        BY <1>4, <2>11, <3>2 DEF HeadDone
      <4>2. tcp.reply.kind # "ok" \/ tcp.reply.size = 0
        BY <2>8, <3>2
      <4> QED BY <2>6, <4>1, <4>2
    <3> QED BY <3>1, <3>2
  <2> QED BY <2>9, <2>10, <2>11
<1> QED BY <1>3, <1>4

\* The body: what ends it well is its length, its last chunk or a clean close.
LEMMA BodyStep ==
  ASSUME HttpInv, Part \/ LastChunk \/ Cut
  PROVE  HttpInv'
<1>1. /\ c \in ClientType /\ tcp \in ConnType /\ quiet \in 0 .. Timeout /\ age \in 0 .. Deadline
      /\ tcp.came <= Len(Tokens(tcp.reply)) /\ tcp.read <= tcp.came
      /\ ReadInv /\ HostInv
  BY DEF HttpInv, Types
<1>2. 0 \in 0 .. Timeout /\ tcp.reply \in Answers /\ c.got \in Nat /\ tcp.read \in Nat
  BY <1>1, HttpAssumption DEF ConnType, ClientType
<1>3. tcp.reply.size \in Nat
  BY <1>2, AnswerIs
<1>4. CASE Part
  <2>1. c.phase = "body" /\ NextIs("part")
    BY <1>4 DEF Part
  <2>2. /\ c.host \in Hosts /\ c.hdrs \subseteq {c.host} /\ c.body \subseteq {c.host} /\ c.ready
        /\ tcp.reply.kind = "ok" /\ tcp.read = c.got + 2 /\ tcp.read + 1 <= tcp.came
    BY <1>1, <2>1, NextToken DEF HostInv, ReadInv, Flying
  <2>3. CASE /\ c.got + 1 = tcp.reply.size
             /\ c' = Ended([c EXCEPT !.got = c.got + 1], "") /\ Hung
             /\ UNCHANGED <<quiet, age, told>>
    <3>1. c.got + 1 \in Nat /\ "" \in Errors /\ c.phase \in Flying
      BY <1>2, <2>1 DEF Errors, Flying
    <3> QED BY <2>3, <3>1, EndInv
  <2>4. CASE /\ c' = [c EXCEPT !.got = c.got + 1, !.held = FALSE] /\ Read /\ quiet' = 0
             /\ UNCHANGED <<age, told>>
    <3>1. /\ c' \in ClientType /\ c'.phase = "body" /\ c'.got = c.got + 1 /\ c'.ready
          /\ c'.host = c.host /\ c'.hdrs = c.hdrs /\ c'.body = c.body
      <4> DEFINE g == c.got + 1
      <4>1. g \in Nat
        BY <1>2
      <4>2. c' = [c EXCEPT !.got = g, !.held = FALSE]
        BY <2>4
      <4> HIDE DEF g
      <4>3. /\ c' \in ClientType /\ c'.phase = "body" /\ c'.got = g /\ c'.ready
            /\ c'.host = c.host /\ c'.hdrs = c.hdrs /\ c'.body = c.body
        BY <1>1, <2>1, <2>2, <4>1, <4>2 DEF ClientType
      <4> QED BY <4>3 DEF g
    <3>2. /\ tcp' \in ConnType /\ tcp'.read = tcp.read + 1 /\ tcp'.state = tcp.state
          /\ tcp'.reply = tcp.reply /\ tcp'.came = tcp.came
          /\ tcp'.came <= Len(Tokens(tcp'.reply)) /\ tcp'.read <= tcp'.came
      BY <2>2, <2>4, ReadIs
    <3>3. ReadInv'
      BY <1>1, <1>2, <2>1, <2>2, <3>1, <3>2 DEF ReadInv, Flying
    <3> QED BY <1>1, <1>2, <2>2, <2>4, <3>1, <3>2, <3>3, FlyInv DEF Flying
  <2>5. CASE c' = [c EXCEPT !.held = TRUE] /\ quiet' = 0 /\ UNCHANGED <<tcp, age, told>>
    <3>1. /\ c' \in ClientType /\ c'.phase = "body" /\ c'.got = c.got /\ c'.ready
          /\ c'.host = c.host /\ c'.hdrs = c.hdrs /\ c'.body = c.body
      BY <1>1, <2>1, <2>2, <2>5 DEF ClientType
    <3>2. ReadInv'
      BY <1>1, <2>1, <2>2, <2>5, <3>1 DEF ReadInv, Flying
    <3> QED BY <1>1, <1>2, <2>2, <2>5, <3>1, <3>2, FlyInv DEF Flying
  <2>6. CASE End("stream")
    BY <2>1, <2>6, EndStep DEF Errors, Flying
  <2> QED BY <1>4, <2>3, <2>4, <2>5, <2>6 DEF Part
<1>5. CASE LastChunk
  <2>1. c.phase = "body" /\ NextIs("last") /\ End("")
    BY <1>5 DEF LastChunk
  <2>2. c.got = tcp.reply.size
    <3>1. tcp.read = c.got + 2
      BY <1>1, <2>1 DEF ReadInv
    <3>2. tcp.read = tcp.reply.size + 2
      BY <2>1, NextToken
    <3> QED BY <1>2, <1>3, <3>1, <3>2
  <2> QED BY <2>1, <2>2, EndStep DEF Errors, Flying
<1>6. CASE Cut
  <2>1. c.phase \in Flying
    BY <1>6 DEF Cut, Flying
  <2>2. CASE End("lost")
    BY <2>1, <2>2, EndStep DEF Errors
  <2>3. CASE tcp.reply.by = "close" /\ ~tcp.reset /\ End("")
    BY <2>1, <2>3, EndStep DEF Errors
  <2> QED BY <1>6, <2>2, <2>3 DEF Cut
<1> QED BY <1>4, <1>5, <1>6

\* The network and the clock.
LEMMA NetworkStep ==
  ASSUME HttpInv, Answer \/ Arrive \/ HangUp \/ TimePasses
  PROVE  HttpInv'
<1>1. /\ c \in ClientType /\ tcp \in ConnType /\ quiet \in 0 .. Timeout /\ age \in 0 .. Deadline
      /\ tcp.came <= Len(Tokens(tcp.reply)) /\ tcp.read <= tcp.came
      /\ ReadInv /\ HostInv /\ OkIsWhole
  BY DEF HttpInv, Types
<1>2. /\ tcp.reply \in Answers /\ tcp.came \in Nat /\ tcp.read \in Nat
      /\ Len(Tokens(tcp.reply)) \in Nat
  BY <1>1, TokensAre DEF ConnType
<1>3. ASSUME c' = c, told' = told, c.phase \in Flying, tcp' \in ConnType,
             tcp'.came <= Len(Tokens(tcp'.reply)), tcp'.read <= tcp'.came,
             quiet' \in 0 .. Timeout, age' \in 0 .. Deadline, ReadInv'
      PROVE  HttpInv'
  BY <1>1, <1>3, FlyInv DEF HostInv
<1>4. CASE Answer
  <2>1. tcp.state = "dialing" /\ UNCHANGED <<c, quiet, age, told>>
    BY <1>4 DEF Answer
  <2>2. c.phase \in Flying /\ tcp.came = 0 /\ tcp.read = 0
    BY <1>1, <2>1 DEF ReadInv
  <2>3. ASSUME NEW r \in Replies, tcp' = [tcp EXCEPT !.state = "open", !.reply = r] PROVE HttpInv'
    <3>1. r \in Answers /\ 0 <= Len(Tokens(r))
      BY TokensAre DEF Answers
    <3>2. /\ tcp' \in ConnType /\ tcp'.reply = r /\ tcp'.came = 0 /\ tcp'.read = 0
          /\ tcp'.state = "open"
      BY <1>1, <2>2, <2>3, <3>1 DEF ConnType
    <3>3. ReadInv'
      BY <1>1, <1>2, <2>1, <2>2, <3>2 DEF ReadInv, Flying, ClientType
    <3> QED BY <1>1, <1>3, <2>1, <2>2, <3>1, <3>2, <3>3
  <2>4. CASE Hung
    <3>1. /\ tcp' \in ConnType /\ tcp'.reply = tcp.reply /\ tcp'.came = 0 /\ tcp'.read = 0
          /\ tcp'.state = "closed"
      BY <1>1, <2>2, <2>4 DEF ConnType, Hung
    <3>2. ReadInv'
      BY <1>1, <1>2, <2>1, <2>2, <3>1 DEF ReadInv, Flying
    <3> QED BY <1>1, <1>3, <2>1, <2>2, <3>1, <3>2
  <2> QED BY <1>4, <2>3, <2>4 DEF Answer
<1>5. CASE Arrive
  <2>1. /\ tcp.state = "open" /\ tcp.came < Len(Tokens(tcp.reply))
        /\ tcp' = [tcp EXCEPT !.came = @ + 1] /\ UNCHANGED <<c, quiet, age, told>>
    BY <1>5 DEF Arrive
  <2>2. c.phase \in Flying
    BY <1>1, <2>1 DEF ReadInv
  <2>3. /\ tcp' \in ConnType /\ tcp'.reply = tcp.reply /\ tcp'.came = tcp.came + 1
        /\ tcp'.read = tcp.read /\ tcp'.state = tcp.state
    BY <1>1, <2>1 DEF ConnType
  <2>4. ReadInv'
    BY <1>1, <2>1, <2>3 DEF ReadInv
  <2> QED BY <1>1, <1>2, <1>3, <2>1, <2>2, <2>3, <2>4
<1>6. CASE HangUp
  <2>1. /\ tcp.state = "open" /\ UNCHANGED <<c, quiet, age, told>>
        /\ \E reset \in BOOLEAN : tcp' = [tcp EXCEPT !.state = "closed", !.reset = reset]
    BY <1>6 DEF HangUp
  <2>2. c.phase \in Flying
    BY <1>1, <2>1 DEF ReadInv
  <2>3. /\ tcp' \in ConnType /\ tcp'.reply = tcp.reply /\ tcp'.came = tcp.came
        /\ tcp'.read = tcp.read /\ tcp'.state = "closed"
    BY <1>1, <2>1 DEF ConnType
  <2>4. ReadInv'
    BY <1>1, <2>1, <2>3 DEF ReadInv
  <2> QED BY <1>1, <1>2, <1>3, <2>1, <2>2, <2>3, <2>4
<1>7. CASE TimePasses
  <2>1. /\ c.phase \in Flying /\ UNCHANGED <<c, tcp, told>>
        /\ quiet' = IF quiet < Timeout THEN quiet + 1 ELSE quiet
        /\ age' = IF age < Deadline THEN age + 1 ELSE age
    BY <1>7 DEF TimePasses
  <2>2. quiet' \in 0 .. Timeout /\ age' \in 0 .. Deadline
    BY <1>1, <2>1, HttpAssumption
  <2>3. ReadInv'
    BY <1>1, <2>1 DEF ReadInv
  <2> QED BY <1>1, <1>3, <2>1, <2>2, <2>3
<1> QED BY <1>4, <1>5, <1>6, <1>7

----------------------------------------------------------------------------
(* The invariant, and what it gives                                        *)

LEMMA InvInit == Init => HttpInv
<1> SUFFICES ASSUME Init PROVE HttpInv
  OBVIOUS
<1>1. c = Idle /\ tcp = Closed /\ quiet = 0 /\ age = 0 /\ told = {}
  BY DEF Init
<1>2. 0 \in 0 .. Timeout /\ 0 \in 0 .. Deadline
  BY HttpAssumption
<1>3. /\ Idle \in ClientType /\ Closed \in ConnType
      /\ Closed.came = 0 /\ Closed.read = 0 /\ 0 <= Len(Tokens(Closed.reply))
  BY UnusedIs
<1>4. Types
  BY <1>1, <1>2, <1>3 DEF Types
<1>5. ReadInv /\ HostInv /\ OkIsWhole
  BY <1>1 DEF ReadInv, HostInv, OkIsWhole, SecretsStay, Idle, Closed, Flying
<1> QED BY <1>4, <1>5 DEF HttpInv

LEMMA InvNext == HttpInv /\ [Next]_httpVars => HttpInv'
<1> SUFFICES ASSUME HttpInv, [Next]_httpVars PROVE HttpInv'
  OBVIOUS
<1>1. CASE (\E h \in Hosts : Open(h)) \/ SetReqHeader \/ Abort \/ TakeDone
             \/ \E body \in {{}, {c.host}} : Send(body)
  BY <1>1, CallStep
<1>2. CASE Step
  BY <1>2, SendingStep, HeadStep, BodyStep DEF Step
<1>3. CASE Answer \/ Arrive \/ HangUp \/ TimePasses
  BY <1>3, NetworkStep
<1>4. CASE UNCHANGED httpVars
  BY <1>4 DEF httpVars, HttpInv, Types, ReadInv, HostInv, OkIsWhole, SecretsStay
<1> QED BY <1>1, <1>2, <1>3, <1>4 DEF Next

\* The invariant holds of every request, whatever the network does.
THEOREM HttpInductive == Spec => []HttpInv
<1> QED BY InvInit, InvNext, PTL DEF Spec

\* The client, its connection and the clocks stay well formed.
THEOREM TypeCorrect == Spec => []TypeOK
<1>1. HttpInv => TypeOK
  BY DEF HttpInv, Types, ClientType, TypeOK, Phases
<1> QED BY <1>1, HttpInductive, PTL

\* What ends well is the whole reply, and no host is told what was given for
\* another one.
THEOREM HonestForAll == Spec => []RepliesAreHonest
<1>1. HttpInv => RepliesAreHonest
  BY DEF HttpInv, HostInv, RepliesAreHonest
<1> QED BY <1>1, HttpInductive, PTL

----------------------------------------------------------------------------
(* HttpCall: what the caller sees of a request                             *)

CallTold ==
  /\ c.phase \in Flying => Call = IF c.ready THEN "sent" ELSE "open"
  /\ c.phase = "idle" => Call = "free"
  /\ c.phase = "done" => Call = IF ~c.pending THEN "free"
                                ELSE IF c.err = "" THEN "ok" ELSE "failed"

\* Where a call stands is told by the phase, before a step and after it.
LEMMA CallIs ==
  ASSUME HttpInv, HttpInv'
  PROVE  CallTold /\ CallTold'
<1>1. CallTold
  <2>1. c.phase \in {"send", "reply", "head", "body"} => c.ready
    BY DEF HttpInv, ReadInv
  <2> QED BY <2>1 DEF CallTold, Call, Flying
<1>2. CallTold'
  <2>1. c'.phase \in {"send", "reply", "head", "body"} => c'.ready
    BY DEF HttpInv, ReadInv
  <2> QED BY <2>1 DEF CallTold, Call, Flying
<1> QED BY <1>1, <1>2

\* Every end of a request is one end of the call, and a good one is of a call
\* that was sent.
LEMMA EndMaps ==
  ASSUME HttpInv, HttpInv', c.phase \in Flying, NEW e \in Errors, End(e), e = "" => c.ready
  PROVE  A!End
<1>1. c' = Ended(c, e) /\ c \in ClientType
  BY DEF End, HttpInv, Types
<1>2. c'.phase = "done" /\ c'.pending /\ c'.err = e
  BY <1>1 DEF Ended, ClientType
<1>3. Call' = IF e = "" THEN "ok" ELSE "failed"
  BY <1>2, CallIs DEF CallTold
<1>4. Call = IF c.ready THEN "sent" ELSE "open"
  BY CallIs DEF CallTold
<1> QED BY <1>3, <1>4 DEF A!End

\* A request that goes on its way does not move the call.
LEMMA StaysMaps ==
  ASSUME HttpInv, HttpInv', c.phase \in Flying, c'.phase \in Flying, c'.ready = c.ready
  PROVE  Call' = Call
<1>1. /\ Call = IF c.ready THEN "sent" ELSE "open"
      /\ Call' = IF c'.ready THEN "sent" ELSE "open"
  BY CallIs DEF CallTold
<1> QED BY <1>1

LEMMA CallMaps ==
  ASSUME HttpInv, HttpInv',
         (\E h \in Hosts : Open(h)) \/ SetReqHeader \/ Abort \/ TakeDone
           \/ \E body \in {{}, {c.host}} : Send(body)
  PROVE  A!Next \/ Call' = Call
<1>1. c \in ClientType
  BY DEF HttpInv, Types
<1>2. ASSUME NEW h \in Hosts, Open(h) PROVE A!Open
  <2>1. Call = "free"
    BY <1>2, CallIs DEF CallTold, Open, IsIdle
  <2>2. CASE c' = Started(Idle, h)
    <3>1. c'.phase = "dial" /\ c'.ready = FALSE
      BY <2>2 DEF Started, Idle
    <3>2. Call' = "open"
      BY <3>1, CallIs DEF CallTold, Flying
    <3> QED BY <2>1, <3>2 DEF A!Open
  <2>3. CASE c' = [Ended(Idle, "not_connected") EXCEPT !.pending = FALSE]
    <3>1. c'.phase = "done" /\ c'.pending = FALSE
      BY <2>3 DEF Ended, Idle
    <3>2. Call' = "free"
      BY <3>1, CallIs DEF CallTold
    <3> QED BY <2>1, <3>2 DEF A!Open
  <2> QED BY <1>2, <2>2, <2>3 DEF Open
<1>3. CASE SetReqHeader
  <2>1. c.phase = "dial" /\ c'.phase = "dial" /\ c'.ready = c.ready
    BY <1>1, <1>3 DEF SetReqHeader, ClientType
  <2> QED BY <2>1, StaysMaps DEF Flying
<1>4. CASE Abort
  <2>1. c.phase \in Flying /\ c'.phase = "done" /\ c'.pending = FALSE
    BY <1>1, <1>4 DEF Abort, Ended, ClientType
  <2>2. Call \in {"open", "sent"} /\ Call' = "free"
    BY <2>1, CallIs DEF CallTold
  <2> QED BY <2>2 DEF A!Next, A!Abort
<1>5. CASE TakeDone
  <2>1. c.phase = "done" /\ c.pending /\ c'.phase = "done" /\ c'.pending = FALSE
    BY <1>1, <1>5 DEF TakeDone, ClientType
  <2>2. Call \in {"ok", "failed"} /\ Call' = "free"
    BY <2>1, CallIs DEF CallTold
  <2> QED BY <2>2 DEF A!Next, A!Take
<1>6. ASSUME NEW body \in {{}, {c.host}}, Send(body) PROVE A!Send \/ A!End
  <2>1. c.phase = "dial" /\ ~c.ready /\ c.phase \in Flying
    BY <1>6 DEF Send, Flying
  <2>2. CASE c' = Sealed(c, body)
    <3>1. c'.phase = "dial" /\ c'.ready
      BY <1>1, <2>1, <2>2 DEF Sealed, ClientType
    <3>2. Call = "open" /\ Call' = "sent"
      BY <2>1, <3>1, CallIs DEF CallTold, Flying
    <3> QED BY <3>2 DEF A!Send
  <2>3. CASE End("ram")
    <3>1. "ram" \in Errors
      BY DEF Errors
    <3> QED BY <2>1, <2>3, <3>1, EndMaps
  <2> QED BY <1>6, <2>2, <2>3 DEF Send
<1> QED BY <1>2, <1>3, <1>4, <1>5, <1>6 DEF A!Next

\* step() ends the call or leaves it where it is: a redirect too.
LEMMA StepMaps ==
  ASSUME HttpInv, HttpInv', Step
  PROVE  A!Next \/ Call' = Call
<1>1. c \in ClientType /\ ReadInv
  BY DEF HttpInv, Types
<1>2. c.phase \in Flying
  BY DEF Step, TimeOut, Dial, Push, StatusLine, HeadDone, Part, LastChunk, Cut, Flying
<1>3. ASSUME NEW e \in Errors, End(e), e = "" => c.ready PROVE A!Next
  BY <1>2, <1>3, EndMaps DEF A!Next
<1>4. ASSUME c'.phase \in Flying, c'.ready = c.ready PROVE Call' = Call
  BY <1>2, <1>4, StaysMaps
<1>5. {"not_connected", "lost", "timeout", "no_http", "stream", ""} \subseteq Errors
  BY DEF Errors
<1>6. ASSUME NEW p \in Flying, c' = [c EXCEPT !.phase = p] PROVE Call' = Call
  BY <1>1, <1>4, <1>6 DEF ClientType
<1>7. CASE TimeOut
  BY <1>3, <1>5, <1>7 DEF TimeOut
<1>8. CASE Dial
  <2>1. CASE End("not_connected")
    BY <1>3, <1>5, <2>1
  <2>2. CASE c' = [c EXCEPT !.phase = "send"]
    BY <1>6, <2>2 DEF Flying
  <2> QED BY <1>8, <2>1, <2>2 DEF Dial
<1>9. CASE Push
  <2>1. CASE End("lost")
    BY <1>3, <1>5, <2>1
  <2>2. CASE c' = [c EXCEPT !.phase = "reply"]
    BY <1>6, <2>2 DEF Flying
  <2> QED BY <1>9, <2>1, <2>2 DEF Push
<1>10. CASE StatusLine
  <2>1. CASE End("no_http")
    BY <1>3, <1>5, <2>1
  <2>2. CASE c' = [c EXCEPT !.phase = "head"]
    BY <1>6, <2>2 DEF Flying
  <2> QED BY <1>10, <2>1, <2>2 DEF StatusLine
<1>11. CASE HeadDone
  <2>1. c.ready
    BY <1>1, <1>11 DEF HeadDone, ReadInv
  <2>2. \/ c' = [c EXCEPT !.phase = "reply"] \/ c' = Followed(c)
        \/ c' = [c EXCEPT !.phase = "body"] \/ End("") \/ End("not_connected")
    BY <1>11 DEF HeadDone
  <2>3. CASE c' = Followed(c)
    <3>1. c'.phase = "dial" /\ c'.ready = TRUE
      BY <1>1, <2>3 DEF Followed, Started, Sealed, ClientType
    <3> QED BY <1>1, <1>4, <2>1, <3>1 DEF Flying, ClientType
  <2>4. CASE c' = [c EXCEPT !.phase = "reply"] \/ c' = [c EXCEPT !.phase = "body"]
    BY <1>6, <2>4 DEF Flying
  <2>5. CASE End("") \/ End("not_connected")
    BY <1>3, <1>5, <2>1, <2>5
  <2> QED BY <2>2, <2>3, <2>4, <2>5
<1>12. CASE Part
  <2>1. c.ready
    BY <1>1, <1>12 DEF Part, ReadInv
  <2>2. \/ c' = Ended([c EXCEPT !.got = c.got + 1], "")
        \/ c' = [c EXCEPT !.got = c.got + 1, !.held = FALSE]
        \/ c' = [c EXCEPT !.held = TRUE] \/ End("stream")
    BY <1>12 DEF Part
  <2>3. CASE c' = Ended([c EXCEPT !.got = c.got + 1], "")
    <3>1. c'.phase = "done" /\ c'.pending = TRUE /\ c'.err = ""
      BY <1>1, <2>3 DEF Ended, ClientType
    <3>2. Call = "sent" /\ Call' = "ok"
      BY <1>2, <2>1, <3>1, CallIs DEF CallTold
    <3> QED BY <3>2 DEF A!Next, A!End
  <2>4. CASE \/ c' = [c EXCEPT !.got = c.got + 1, !.held = FALSE]
             \/ c' = [c EXCEPT !.held = TRUE]
    <3>1. c'.phase = c.phase /\ c'.ready = c.ready
      BY <1>1, <2>4 DEF ClientType
    <3> QED BY <1>2, <1>4, <3>1
  <2>5. CASE End("stream")
    BY <1>3, <1>5, <2>5
  <2> QED BY <2>2, <2>3, <2>4, <2>5
<1>13. CASE LastChunk
  <2>1. c.ready /\ End("")
    BY <1>1, <1>13 DEF LastChunk, ReadInv
  <2> QED BY <1>3, <1>5, <2>1
<1>14. CASE Cut
  <2>1. c.ready \/ End("lost")
    BY <1>1, <1>14 DEF Cut, ReadInv
  <2>2. End("") \/ End("lost")
    BY <1>14 DEF Cut
  <2> QED BY <1>3, <1>5, <2>1, <2>2
<1> QED BY <1>7, <1>8, <1>9, <1>10, <1>11, <1>12, <1>13, <1>14 DEF Step

\* EGHttpClient implements HttpCall: each step of a request, of its caller and
\* of the network is a step of the call or none.  That a call ends is liveness.
THEOREM ImplementsCall == Spec => A!Safety
<1>1. Init => A!Init
  <2> SUFFICES ASSUME Init PROVE A!Init
    OBVIOUS
  <2>1. c = Idle
    BY DEF Init
  <2>2. c.phase = "idle"
    BY <2>1 DEF Idle
  <2>3. Call = "free"
    BY <2>2 DEF Call, Flying
  <2> QED BY <2>3 DEF A!Init
<1>2. HttpInv /\ HttpInv' /\ [Next]_httpVars => [A!Next]_Call
  <2> SUFFICES ASSUME HttpInv, HttpInv', [Next]_httpVars PROVE A!Next \/ Call' = Call
    OBVIOUS
  <2>1. CASE (\E h \in Hosts : Open(h)) \/ SetReqHeader \/ Abort \/ TakeDone
               \/ \E body \in {{}, {c.host}} : Send(body)
    BY <2>1, CallMaps
  <2>2. CASE Step
    BY <2>2, StepMaps
  <2>3. CASE Answer \/ Arrive \/ HangUp \/ TimePasses \/ UNCHANGED httpVars
    <3>1. c' = c
      BY <2>3 DEF Answer, Arrive, HangUp, TimePasses, httpVars
    <3> QED BY <3>1 DEF Call
  <2> QED BY <2>1, <2>2, <2>3 DEF Next
<1> QED BY <1>1, <1>2, HttpInductive, PTL DEF Spec, A!Safety

(***************************************************************************)
(* The outgoing connections                                                *)
(***************************************************************************)
TcpEvents == [ev : {"dns", "connected", "recv", "fin", "error", "release"}, c : Conns, x : Nat]
TcpBlocks == Nat \X Nat
TcpRecord ==
  [client : Nat, state : {"idle", "connecting", "open", "closed"}, err : Nat, rx : Seq(TcpBlocks)]
ObjRecord ==
  [live : BOOLEAN, pcb : BOOLEAN, released : BOOLEAN, closed : BOOLEAN, credit : Nat]
PcbRecord ==
  [st : {"none", "asking", "asked", "syn", "open", "over"}, sent : Nat, acked : Nat, fin : BOOLEAN]
CallRecord ==
  [at : {"idle", "up", "connect", "data", "error", "disconnect"}, c : Conns \union {0}, x : Nat]
ReaderRecord ==
  [at : {"idle", "drop", "release", "open", "start", "failed", "ack"}, c : Nat,
   next : {"idle", "open"}]

TcpTypes ==
  /\ sock \in TcpRecord /\ obj \in [Conns -> ObjRecord] /\ pcb \in [Conns -> PcbRecord]
  /\ events \in Seq(TcpEvents) /\ callback \in CallRecord /\ reader \in ReaderRecord
  /\ made \in Nat /\ made <= MaxConns /\ got \in Nat
  /\ (callback.at # "idle" => callback.c \in Conns)

(* The queue, as each client sees it: what is in it, and the stream. *)
PlacesOf(q, n) == {i \in 1 .. Len(q) : q[i].c = n}
EventsOf(q, n) == {q[i].ev : i \in PlacesOf(q, n)}
RecvsOf(q, n) == {i \in PlacesOf(q, n) : q[i].ev = "recv"}
Blocks(q, n) == {q[i].x : i \in RecvsOf(q, n)}

\* Blocks come in their order, and the end after them.
InOrder(q, n) ==
  /\ \A i \in RecvsOf(q, n), j \in RecvsOf(q, n) : i < j => q[i].x < q[j].x
  /\ \A i \in RecvsOf(q, n), j \in PlacesOf(q, n) : q[j].ev = "fin" => i < j

\* What a connection brings comes after the news that it is up.
UpFirst(q, n) ==
  \A i \in PlacesOf(q, n) : q[i].ev \in {"recv", "fin"} =>
    \E j \in PlacesOf(q, n) : j < i /\ q[j].ev = "connected"

\* One name is asked for, and one connection comes up.
Once == {"dns", "connected"}

OneAnswer(q, n) ==
  \A i \in PlacesOf(q, n), j \in PlacesOf(q, n) : q[i].ev \in Once /\ q[j].ev = q[i].ev => i = j

(* Where each client is. *)
Evs(n) == EventsOf(events, n)
Called(n, at) == callback.at = at /\ callback.c = n
Leaving(n) == reader.at \in {"drop", "release"} /\ reader.c = n
Held(n) == n = sock.client \/ Leaving(n)
Current(n) == obj[n].live /\ ~obj[n].released
Early == {"none", "asking", "asked", "syn"}

\* The client is still to learn of its pcb, which may be gone by then.
Upcoming(n) == "connected" \in Evs(n) \/ Called(n, "up")

\* What the peer sent is to be handed on, though the connection may be over.
Streams(n) ==
  Current(n) /\ (pcb[n].st = "open" \/ (pcb[n].st = "over" /\ Evs(n) \cap {"connected", "recv", "fin"} # {}))

\* Nothing is known of a client before it is made; who is not held was
\* released, and its release is queued.
LifeOk(n) ==
  /\ n > made => ~obj[n].live /\ ~obj[n].released /\ ~obj[n].closed /\ Evs(n) = {} /\ pcb[n].st = "none"
  /\ Current(n) <=> Held(n)
  /\ obj[n].live /\ obj[n].released => "release" \in Evs(n)
  /\ "release" \in Evs(n) => obj[n].released
  /\ obj[n].pcb => obj[n].live /\ ~obj[n].closed /\ pcb[n].st \in {"open", "over"}
  /\ obj[n].closed => pcb[n].st = "over" /\ Evs(n) \subseteq {"release"}
  /\ callback.at # "idle" /\ callback.c = n => obj[n].live /\ pcb[n].st # "none"
  /\ callback.at \in {"up", "connect", "data"} /\ callback.c = n => pcb[n].st \in {"open", "over"}
  /\ Called(n, "up") => ~obj[n].pcb /\ ~obj[n].closed /\ "connected" \notin Evs(n)

\* What may be queued for a client, by how far its connection is.
NewsOk(n) ==
  /\ pcb[n].st \in {"none", "asking"} => Evs(n) \subseteq {"release"}
  /\ Current(n) =>
       /\ pcb[n].st = "asked" => Evs(n) \subseteq {"dns"}
       /\ pcb[n].st = "syn" => Evs(n) = {}
       /\ Streams(n) => Evs(n) \subseteq {"connected", "recv", "fin"} /\ (obj[n].pcb \/ Upcoming(n))
       /\ pcb[n].st = "over" => Evs(n) \subseteq {"connected", "recv", "fin", "error"}
       /\ OneAnswer(events, n) /\ ("connected" \in Evs(n) => UpFirst(events, n) /\ ~obj[n].pcb)

\* The stream: what was credited or acked was called back, and the rest is
\* queued in its order.
FlowOk(n) ==
  /\ obj[n].credit + pcb[n].acked <= pcb[n].sent /\ pcb[n].sent <= pcb[n].acked + RxWindow
  /\ pcb[n].st \in Early => pcb[n].sent = 0 /\ ~pcb[n].fin
  /\ Streams(n) =>
       /\ InOrder(events, n)
       /\ Blocks(events, n) = obj[n].credit + pcb[n].acked + 1 .. pcb[n].sent
       /\ "fin" \in Evs(n) => pcb[n].fin
  /\ Current(n) /\ Upcoming(n) => obj[n].credit + pcb[n].acked = 0

TcpClientInv == \A n \in Conns : LifeOk(n) /\ NewsOk(n) /\ FlowOk(n)

(* What the main loop has of it. *)
Pending == IF reader.at = "ack" THEN reader.c ELSE 0
Handed == IF Called(sock.client, "data") THEN 1 ELSE 0
Unread == Len(sock.rx)

LoopInv ==
  /\ reader.at \in {"drop", "release", "open"} => sock.client = 0
  /\ reader.at = "release" => reader.c # 0
  /\ reader.at \in {"drop", "release"} /\ reader.c # 0 => reader.c \in Conns
  /\ reader.at = "open" \/ (reader.at \in {"drop", "release"} /\ reader.next = "open") => made < MaxConns
  /\ reader.at \in {"start", "failed"} =>
       made \in Conns /\ sock.client = made /\ sock.state = "connecting" /\ pcb[made].st = "none"
  /\ reader.at \notin {"drop", "release", "ack"} => reader.c = 0
  /\ reader.at = "ack" => reader.c <= RxWindow

\* What ended well was read to its end, or can be.
AllCame(m) == pcb[m].fin /\ pcb[m].st = "over" /\ got + Unread = pcb[m].sent

StreamInv ==
  /\ Unread <= RxWindow
  /\ sock.err # 0 => sock.state = "closed"
  /\ sock.client = 0 =>
       /\ sock.state = "idle" \/ (sock.state = "closed" /\ sock.err # 0)
       /\ reader.at # "drop" => sock.rx = <<>> /\ got = 0
  /\ sock.client # 0 =>
       /\ sock.client \in Conns /\ sock.client <= made /\ sock.state # "idle"
       /\ sock.state = "connecting" =>
            sock.rx = <<>> /\ got = 0 /\ Pending = 0 /\ obj[sock.client].credit = 0
       /\ Unread + Pending + Handed <= obj[sock.client].credit
       /\ sock.state = "open" =>
            /\ Unread + Pending + Handed = obj[sock.client].credit
            /\ pcb[sock.client].st \in {"open", "over"}
            /\ Called(sock.client, "data") => callback.x = got + Unread + 1
       /\ obj[sock.client].pcb =>
            /\ pcb[sock.client].acked + Pending = got
            /\ Called(sock.client, "connect") \/ sock.state # "connecting"
       /\ Upcoming(sock.client) \/ pcb[sock.client].st \in Early => got = 0
       /\ sock.state = "closed" /\ sock.err = 0 => AllCame(sock.client)
       /\ Called(sock.client, "disconnect") /\ sock.err = 0 => AllCame(sock.client)
       /\ \A j \in 1 .. Unread : sock.rx[j] = <<sock.client, got + j>>

TcpInv == TcpTypes /\ TcpClientInv /\ LoopInv /\ StreamInv

LEMMA PartOf ==
  ASSUME NEW q \in Seq(TcpEvents), NEW t \in Seq(TcpEvents), NEW K \in SUBSET (1 .. Len(q)),
         Picks(t, q, K), NEW n
  PROVE  /\ EventsOf(t, n) = {q[i].ev : i \in K \cap PlacesOf(q, n)}
         /\ Blocks(t, n) = {q[i].x : i \in K \cap RecvsOf(q, n)}
         /\ InOrder(q, n) => InOrder(t, n)
         /\ OneAnswer(q, n) => OneAnswer(t, n)
         /\ UpFirst(q, n) /\ (\A i \in PlacesOf(q, n) : q[i].ev = "connected" => i \in K)
              => UpFirst(t, n)
<1>1. PICK f : Follows(f, t, q, K)
  BY DEF Picks
<1>2. Len(q) \in Nat /\ Len(t) \in Nat
  OBVIOUS
<1>3. /\ \A i \in 1 .. Len(t) : f[i] \in K /\ f[i] \in 1 .. Len(q) /\ f[i] \in Nat /\ t[i] = q[f[i]]
      /\ \A i, j \in 1 .. Len(t) : i < j => f[i] < f[j]
      /\ \A k \in K : \E i \in 1 .. Len(t) : f[i] = k
  <2>1. \A k \in K : k \in 1 .. Len(q) /\ k \in Nat
    BY <1>2
  <2>2. \A i \in 1 .. Len(t) : f[i] \in K /\ t[i] = q[f[i]]
    BY <1>1 DEF Follows
  <2>3. /\ \A i, j \in 1 .. Len(t) : i < j => f[i] < f[j]
        /\ \A k \in K : \E i \in 1 .. Len(t) : f[i] = k
    BY <1>1 DEF Follows
  <2> QED BY <2>1, <2>2, <2>3
<1>4. \A i, j \in 1 .. Len(t) : f[i] = f[j] => i = j
  <2>1. SUFFICES ASSUME NEW i \in 1 .. Len(t), NEW j \in 1 .. Len(t), f[i] = f[j], i # j PROVE FALSE
    OBVIOUS
  <2>2. i < j \/ j < i
    BY <1>2, <2>1
  <2>3. f[i] < f[j] \/ f[j] < f[i]
    BY <1>3, <2>2
  <2> QED BY <1>3, <2>1, <2>3
<1>5. \A i, j \in 1 .. Len(t) : f[i] < f[j] => i < j
  <2>1. SUFFICES ASSUME NEW i \in 1 .. Len(t), NEW j \in 1 .. Len(t), f[i] < f[j], ~(i < j) PROVE FALSE
    OBVIOUS
  <2>2. i = j \/ j < i
    BY <1>2, <2>1
  <2>3. f[i] = f[j] \/ f[j] < f[i]
    BY <1>3, <2>2
  <2>4. f[i] \in Nat /\ f[j] \in Nat
    BY <1>3
  <2> QED BY <2>1, <2>3, <2>4
<1>6. \A i \in PlacesOf(t, n) : i \in 1 .. Len(t) /\ f[i] \in K \cap PlacesOf(q, n) /\ t[i] = q[f[i]]
  BY <1>3 DEF PlacesOf
<1>7. \A k \in K \cap PlacesOf(q, n) : \E i \in PlacesOf(t, n) : f[i] = k /\ t[i] = q[k]
  <2>1. SUFFICES ASSUME NEW k \in K \cap PlacesOf(q, n)
                 PROVE  \E i \in PlacesOf(t, n) : f[i] = k /\ t[i] = q[k]
    OBVIOUS
  <2>2. PICK i \in 1 .. Len(t) : f[i] = k
    BY <1>3
  <2>3. t[i] = q[k] /\ q[k].c = n
    BY <1>3, <2>2 DEF PlacesOf
  <2> QED BY <2>2, <2>3 DEF PlacesOf
<1>8. \A i \in RecvsOf(t, n) :
        i \in 1 .. Len(t) /\ f[i] \in K \cap RecvsOf(q, n) /\ t[i] = q[f[i]] /\ f[i] \in PlacesOf(q, n)
  BY <1>6 DEF RecvsOf
<1>9. EventsOf(t, n) = {q[i].ev : i \in K \cap PlacesOf(q, n)}
  <2> DEFINE M == {q[i].ev : i \in K \cap PlacesOf(q, n)}
  <2>1. \A i \in PlacesOf(t, n) : t[i].ev \in M
    BY <1>6
  <2>2. \A k \in K \cap PlacesOf(q, n) : q[k].ev \in EventsOf(t, n)
    BY <1>7 DEF EventsOf
  <2>3. EventsOf(t, n) \subseteq M
    BY <2>1 DEF EventsOf
  <2>4. M \subseteq EventsOf(t, n)
    BY <2>2
  <2> QED BY <2>3, <2>4
<1>10. Blocks(t, n) = {q[i].x : i \in K \cap RecvsOf(q, n)}
  <2> DEFINE M == {q[i].x : i \in K \cap RecvsOf(q, n)}
  <2>1. \A i \in RecvsOf(t, n) : t[i].x \in M
    BY <1>8
  <2>2. \A k \in K \cap RecvsOf(q, n) : q[k].x \in Blocks(t, n)
    <3>1. SUFFICES ASSUME NEW k \in K \cap RecvsOf(q, n) PROVE q[k].x \in Blocks(t, n)
      OBVIOUS
    <3>2. PICK i \in PlacesOf(t, n) : t[i] = q[k]
      BY <1>7 DEF RecvsOf
    <3>3. i \in RecvsOf(t, n)
      BY <3>2 DEF RecvsOf
    <3> QED BY <3>2, <3>3 DEF Blocks
  <2>3. Blocks(t, n) \subseteq M
    BY <2>1 DEF Blocks
  <2>4. M \subseteq Blocks(t, n)
    BY <2>2
  <2> QED BY <2>3, <2>4
<1>11. ASSUME InOrder(q, n) PROVE InOrder(t, n)
  <2>1. ASSUME NEW i \in RecvsOf(t, n), NEW j \in RecvsOf(t, n), i < j PROVE t[i].x < t[j].x
    BY <1>3, <1>8, <1>11, <2>1, SMTT(30) DEF InOrder
  <2>2. ASSUME NEW i \in RecvsOf(t, n), NEW j \in PlacesOf(t, n), t[j].ev = "fin" PROVE i < j
    <3>1. f[i] < f[j]
      BY <1>6, <1>8, <1>11, <2>2 DEF InOrder
    <3> QED BY <1>5, <1>6, <1>8, <3>1
  <2> QED BY <2>1, <2>2 DEF InOrder
<1>12. ASSUME OneAnswer(q, n) PROVE OneAnswer(t, n)
  BY <1>4, <1>6, <1>12 DEF OneAnswer
<1>13. ASSUME UpFirst(q, n), \A i \in PlacesOf(q, n) : q[i].ev = "connected" => i \in K
       PROVE  UpFirst(t, n)
  <2>1. SUFFICES ASSUME NEW i \in PlacesOf(t, n), t[i].ev \in {"recv", "fin"}
                 PROVE  \E j \in PlacesOf(t, n) : j < i /\ t[j].ev = "connected"
    BY DEF UpFirst
  <2>2. f[i] \in PlacesOf(q, n) /\ t[i] = q[f[i]] /\ i \in 1 .. Len(t)
    BY <1>6
  <2>3. PICK k \in PlacesOf(q, n) : k < f[i] /\ q[k].ev = "connected"
    BY <1>13, <2>1, <2>2 DEF UpFirst
  <2>4. PICK j \in PlacesOf(t, n) : f[j] = k /\ t[j] = q[k]
    BY <1>7, <1>13, <2>3
  <2>5. j < i
    BY <1>5, <1>6, <2>2, <2>3, <2>4
  <2> QED BY <2>3, <2>4, <2>5
<1> QED BY <1>9, <1>10, <1>11, <1>12, <1>13

LEMMA QueueAppended ==
  ASSUME NEW q \in Seq(TcpEvents), NEW e \in TcpEvents, NEW n
  PROVE  LET t == Append(q, e) IN
         /\ t \in Seq(TcpEvents)
         /\ EventsOf(t, n) = EventsOf(q, n) \union IF n = e.c THEN {e.ev} ELSE {}
         /\ Blocks(t, n) = Blocks(q, n) \union IF n = e.c /\ e.ev = "recv" THEN {e.x} ELSE {}
         /\ InOrder(q, n)
              /\ (n = e.c /\ e.ev = "recv" => "fin" \notin EventsOf(q, n) /\ \A x \in Blocks(q, n) : x < e.x)
              => InOrder(t, n)
         /\ OneAnswer(q, n) /\ (n = e.c /\ e.ev \in Once => e.ev \notin EventsOf(q, n)) => OneAnswer(t, n)
         /\ UpFirst(q, n) /\ (n = e.c /\ e.ev \in {"recv", "fin"} => "connected" \in EventsOf(q, n))
              => UpFirst(t, n)
<1> DEFINE t == Append(q, e)
           m == Len(q) + 1
<1>1. /\ t \in Seq(TcpEvents) /\ Len(t) = m /\ m \in Nat /\ Len(q) \in Nat
      /\ \A i \in 1 .. Len(q) : t[i] = q[i]
      /\ t[m] = e
  BY AppendProperties
<1>2. 1 .. m = (1 .. Len(q)) \union {m} /\ m \notin 1 .. Len(q) /\ \A i \in 1 .. Len(q) : i < m /\ ~(m < i)
  BY <1>1
<1> HIDE DEF t, m
<1>3. PlacesOf(t, n) = PlacesOf(q, n) \union IF n = e.c THEN {m} ELSE {}
  BY <1>1, <1>2 DEF PlacesOf
<1>4. \A i \in PlacesOf(q, n) : t[i] = q[i] /\ i < m /\ ~(m < i) /\ i # m /\ i \in Nat
  BY <1>1, <1>2 DEF PlacesOf
<1>5. RecvsOf(t, n) = RecvsOf(q, n) \union IF n = e.c /\ e.ev = "recv" THEN {m} ELSE {}
  BY <1>1, <1>3, <1>4 DEF RecvsOf
<1>6. \A i \in RecvsOf(q, n) : i \in PlacesOf(q, n) /\ t[i] = q[i]
  BY <1>4 DEF RecvsOf
<1>7. EventsOf(t, n) = EventsOf(q, n) \union IF n = e.c THEN {e.ev} ELSE {}
  <2>1. \A i \in PlacesOf(q, n) : t[i].ev = q[i].ev
    BY <1>4
  <2> QED BY <1>1, <1>3, <2>1 DEF EventsOf
<1>8. Blocks(t, n) = Blocks(q, n) \union IF n = e.c /\ e.ev = "recv" THEN {e.x} ELSE {}
  <2>1. \A i \in RecvsOf(q, n) : t[i].x = q[i].x
    BY <1>6
  <2> QED BY <1>1, <1>5, <2>1 DEF Blocks
<1>9. ASSUME InOrder(q, n),
             n = e.c /\ e.ev = "recv" => "fin" \notin EventsOf(q, n) /\ \A x \in Blocks(q, n) : x < e.x
      PROVE  InOrder(t, n)
  <2>1. ASSUME NEW i \in RecvsOf(t, n), NEW j \in RecvsOf(t, n), i < j PROVE t[i].x < t[j].x
    <3>1. CASE j = m
      <4>1. i # m
        BY <1>1, <2>1, <3>1
      <4>2. i \in RecvsOf(q, n)
        BY <1>5, <4>1
      <4>3. j \notin RecvsOf(q, n) /\ n = e.c /\ e.ev = "recv"
        BY <1>4, <1>5, <1>6, <3>1
      <4>4. q[i].x \in Blocks(q, n)
        BY <4>2 DEF Blocks
      <4> QED BY <1>1, <1>6, <1>9, <3>1, <4>2, <4>3, <4>4
    <3>2. CASE j # m
      <4>1. j \in RecvsOf(q, n)
        BY <1>5, <3>2
      <4>2. i # m
        BY <1>4, <1>6, <2>1, <4>1
      <4>3. i \in RecvsOf(q, n)
        BY <1>5, <4>2
      <4> QED BY <1>6, <1>9, <2>1, <4>1, <4>3 DEF InOrder
    <3> QED BY <3>1, <3>2
  <2>2. ASSUME NEW i \in RecvsOf(t, n), NEW j \in PlacesOf(t, n), t[j].ev = "fin" PROVE i < j
    <3>1. CASE j = m
      <4>1. e.ev = "fin"
        BY <1>1, <2>2, <3>1
      <4>2. i \in RecvsOf(q, n)
        BY <1>5, <4>1
      <4> QED BY <1>4, <1>6, <3>1, <4>2
    <3>2. CASE j # m
      <4>1. j \in PlacesOf(q, n) /\ q[j].ev = "fin"
        BY <1>3, <1>4, <2>2, <3>2
      <4>2. "fin" \in EventsOf(q, n)
        BY <4>1 DEF EventsOf
      <4>3. i \in RecvsOf(q, n)
        BY <1>5, <1>9, <4>2
      <4> QED BY <1>9, <4>1, <4>3 DEF InOrder
    <3> QED BY <3>1, <3>2
  <2> QED BY <2>1, <2>2 DEF InOrder
<1>10. ASSUME OneAnswer(q, n), n = e.c /\ e.ev \in Once => e.ev \notin EventsOf(q, n)
       PROVE  OneAnswer(t, n)
  <2>1. SUFFICES ASSUME NEW i \in PlacesOf(t, n), NEW j \in PlacesOf(t, n), t[i].ev \in Once, t[j].ev = t[i].ev
                 PROVE  i = j
    BY DEF OneAnswer
  <2>2. \A k \in PlacesOf(q, n) : t[k].ev \in EventsOf(q, n) /\ q[k].ev = t[k].ev
    BY <1>4 DEF EventsOf
  <2>3. CASE i \in PlacesOf(q, n) /\ j \in PlacesOf(q, n)
    BY <1>10, <2>1, <2>2, <2>3 DEF OneAnswer
  <2>4. CASE i = m /\ j = m
    BY <2>4
  <2>5. CASE (i = m /\ j \in PlacesOf(q, n)) \/ (j = m /\ i \in PlacesOf(q, n))
    <3>1. e.ev = t[i].ev /\ e.ev = t[j].ev /\ n = e.c
      BY <1>1, <1>3, <1>4, <2>1, <2>5
    <3> QED BY <1>10, <2>1, <2>2, <2>5, <3>1
  <2> QED BY <1>3, <2>3, <2>4, <2>5
<1>11. ASSUME UpFirst(q, n), n = e.c /\ e.ev \in {"recv", "fin"} => "connected" \in EventsOf(q, n)
       PROVE  UpFirst(t, n)
  <2>1. SUFFICES ASSUME NEW i \in PlacesOf(t, n), t[i].ev \in {"recv", "fin"}
                 PROVE  \E j \in PlacesOf(t, n) : j < i /\ t[j].ev = "connected"
    BY DEF UpFirst
  <2>2. CASE i \in PlacesOf(q, n)
    <3>1. PICK j \in PlacesOf(q, n) : j < i /\ q[j].ev = "connected"
      BY <1>4, <1>11, <2>1, <2>2 DEF UpFirst
    <3> QED BY <1>3, <1>4, <3>1
  <2>3. CASE i = m /\ n = e.c
    <3>1. PICK j \in PlacesOf(q, n) : q[j].ev = "connected"
      BY <1>1, <1>11, <2>1, <2>3 DEF EventsOf
    <3> QED BY <1>3, <1>4, <2>3, <3>1
  <2> QED BY <1>3, <2>2, <2>3
<1> QED BY <1>1, <1>7, <1>8, <1>9, <1>10, <1>11 DEF t

LEMMA QueueTaken ==
  ASSUME NEW q \in Seq(TcpEvents), q # <<>>, NEW n
  PROVE  LET t == Tail(q)
             e == Head(q)
         IN  /\ t \in Seq(TcpEvents) /\ e \in TcpEvents
             /\ EventsOf(q, n) = EventsOf(t, n) \union IF n = e.c THEN {e.ev} ELSE {}
             /\ Blocks(q, n) = Blocks(t, n) \union IF n = e.c /\ e.ev = "recv" THEN {e.x} ELSE {}
             /\ InOrder(q, n) => InOrder(t, n)
             /\ InOrder(q, n) /\ n = e.c /\ e.ev = "recv" => \A x \in Blocks(t, n) : e.x < x
             /\ InOrder(q, n) /\ n = e.c /\ e.ev = "fin" => Blocks(t, n) = {}
             /\ OneAnswer(q, n) => OneAnswer(t, n)
             /\ OneAnswer(q, n) /\ n = e.c /\ e.ev \in Once => e.ev \notin EventsOf(t, n)
             /\ UpFirst(q, n) /\ (n # e.c \/ e.ev # "connected") => UpFirst(t, n)
             /\ UpFirst(q, n) /\ n = e.c => e.ev \notin {"recv", "fin"}
<1> DEFINE t == Tail(q)
           e == q[1]
           K == 2 .. Len(q)
<1>1. /\ t \in Seq(TcpEvents) /\ Len(t) = Len(q) - 1 /\ Head(q) = e /\ Len(q) > 0
      /\ Picks(t, q, K)
  BY TailPicks
<1>2. /\ Len(q) \in Nat /\ 1 .. Len(q) = K \union {1} /\ 1 \notin K /\ 1 \in 1 .. Len(q)
      /\ K \in SUBSET (1 .. Len(q)) /\ \A i \in K : 1 < i /\ ~(i < 1) /\ i # 1
  BY <1>1
<1>3. e \in TcpEvents
  BY <1>2
<1>4. PlacesOf(q, n) = (K \cap PlacesOf(q, n)) \union IF n = e.c THEN {1} ELSE {}
  BY <1>2 DEF PlacesOf
<1>5. RecvsOf(q, n) = (K \cap RecvsOf(q, n)) \union IF n = e.c /\ e.ev = "recv" THEN {1} ELSE {}
  <2>1. \A i : i \in RecvsOf(q, n) <=> i \in PlacesOf(q, n) /\ q[i].ev = "recv"
    BY DEF RecvsOf
  <2> QED BY <1>2, <1>4, <2>1
<1> HIDE DEF t, K
<1>6. /\ EventsOf(t, n) = {q[i].ev : i \in K \cap PlacesOf(q, n)}
      /\ Blocks(t, n) = {q[i].x : i \in K \cap RecvsOf(q, n)}
      /\ InOrder(q, n) => InOrder(t, n)
      /\ OneAnswer(q, n) => OneAnswer(t, n)
      /\ UpFirst(q, n) /\ (\A i \in PlacesOf(q, n) : q[i].ev = "connected" => i \in K)
           => UpFirst(t, n)
  BY <1>1, <1>2, PartOf
<1>7. EventsOf(q, n) = EventsOf(t, n) \union IF n = e.c THEN {e.ev} ELSE {}
  <2> DEFINE M == K \cap PlacesOf(q, n)
             P == PlacesOf(q, n)
  <2>1. P = M \union IF n = e.c THEN {1} ELSE {}
    BY <1>4
  <2>2. EventsOf(t, n) = {q[i].ev : i \in M} /\ EventsOf(q, n) = {q[i].ev : i \in P}
    BY <1>6 DEF EventsOf
  <2> HIDE DEF M, P
  <2> QED BY <2>1, <2>2
<1>8. Blocks(q, n) = Blocks(t, n) \union IF n = e.c /\ e.ev = "recv" THEN {e.x} ELSE {}
  <2> DEFINE M == K \cap RecvsOf(q, n)
             P == RecvsOf(q, n)
  <2>1. P = M \union IF n = e.c /\ e.ev = "recv" THEN {1} ELSE {}
    BY <1>5
  <2>2. Blocks(t, n) = {q[i].x : i \in M} /\ Blocks(q, n) = {q[i].x : i \in P}
    BY <1>6 DEF Blocks
  <2> HIDE DEF M, P
  <2> QED BY <2>1, <2>2
<1>9. ASSUME InOrder(q, n), n = e.c, e.ev = "recv" PROVE \A x \in Blocks(t, n) : e.x < x
  <2>1. 1 \in RecvsOf(q, n)
    BY <1>5, <1>9
  <2>2. \A i \in K \cap RecvsOf(q, n) : q[1].x < q[i].x
    BY <1>2, <1>9, <2>1 DEF InOrder
  <2> QED BY <1>6, <2>2
<1>10. ASSUME InOrder(q, n), n = e.c, e.ev = "fin" PROVE Blocks(t, n) = {}
  <2>1. 1 \in PlacesOf(q, n)
    BY <1>4, <1>10
  <2>2. \A i \in RecvsOf(q, n) : i < 1
    BY <1>10, <2>1 DEF InOrder
  <2>3. K \cap RecvsOf(q, n) = {}
    BY <1>2, <2>2
  <2> QED BY <1>6, <2>3
<1>11. ASSUME OneAnswer(q, n), n = e.c, e.ev \in Once PROVE e.ev \notin EventsOf(t, n)
  <2>1. 1 \in PlacesOf(q, n)
    BY <1>4, <1>11
  <2>2. \A i \in K \cap PlacesOf(q, n) : q[i].ev # e.ev
    BY <1>2, <1>11, <2>1 DEF OneAnswer
  <2> QED BY <1>6, <2>2
<1>12. ASSUME UpFirst(q, n), n # e.c \/ e.ev # "connected" PROVE UpFirst(t, n)
  <2>1. \A i \in PlacesOf(q, n) : q[i].ev = "connected" => i \in K
    BY <1>4, <1>12
  <2> QED BY <1>6, <1>12, <2>1
<1>13. ASSUME UpFirst(q, n), n = e.c PROVE e.ev \notin {"recv", "fin"}
  <2>1. 1 \in PlacesOf(q, n) /\ \A j \in PlacesOf(q, n) : ~(j < 1)
    BY <1>2, <1>4, <1>13
  <2> QED BY <1>13, <2>1 DEF UpFirst
<1> QED BY <1>1, <1>3, <1>6, <1>7, <1>8, <1>9, <1>10, <1>11, <1>12, <1>13 DEF t

\* What is taken out for a client: all but its releases.
LEMMA QueueKept ==
  ASSUME NEW n, events \in Seq(TcpEvents), NEW S \in SUBSET (1 .. Len(events)), NEW d,
         d # n => PlacesOf(events, d) \subseteq S
  PROVE  LET t == Only(events, Kept(n, S)) IN
         /\ t \in Seq(TcpEvents)
         /\ d # n => /\ EventsOf(t, d) = Evs(d) /\ Blocks(t, d) = Blocks(events, d)
                     /\ (InOrder(events, d) => InOrder(t, d)) /\ (OneAnswer(events, d) => OneAnswer(t, d))
                     /\ (UpFirst(events, d) => UpFirst(t, d))
         /\ d = n => /\ EventsOf(t, d) \subseteq Evs(d) \cap {"release"}
                     /\ (PlacesOf(events, d) \ S = {} => EventsOf(t, d) = Evs(d) \cap {"release"})
                     /\ (\A i \in PlacesOf(events, d) \ S : events[i].ev # "release")
                          => EventsOf(t, d) = Evs(d) \cap {"release"}
<1> DEFINE K == Kept(n, S)
           t == Only(events, K)
<1>1. K \in SUBSET (1 .. Len(events)) /\ \A i \in K : i \in S
  BY DEF Kept
<1>2. t \in Seq(TcpEvents) /\ Picks(t, events, K)
  BY <1>1, OnlyPicks
<1>3. \A i : i \in K <=> i \in S /\ (events[i].c # n \/ events[i].ev = "release")
  BY DEF Kept
<1> HIDE DEF K, t
<1>4. /\ EventsOf(t, d) = {events[i].ev : i \in K \cap PlacesOf(events, d)}
      /\ Blocks(t, d) = {events[i].x : i \in K \cap RecvsOf(events, d)}
      /\ InOrder(events, d) => InOrder(t, d)
      /\ OneAnswer(events, d) => OneAnswer(t, d)
      /\ UpFirst(events, d) /\ (\A i \in PlacesOf(events, d) : events[i].ev = "connected" => i \in K)
           => UpFirst(t, d)
  BY <1>1, <1>2, PartOf
<1>5. ASSUME d # n
      PROVE  /\ EventsOf(t, d) = Evs(d) /\ Blocks(t, d) = Blocks(events, d)
             /\ (UpFirst(events, d) => UpFirst(t, d))
  <2>1. \A i \in PlacesOf(events, d) : i \in K
    BY <1>3, <1>5 DEF PlacesOf
  <2>2. K \cap PlacesOf(events, d) = PlacesOf(events, d)
    BY <2>1
  <2>3. K \cap RecvsOf(events, d) = RecvsOf(events, d)
    BY <2>1 DEF RecvsOf
  <2> QED BY <1>4, <2>1, <2>2, <2>3 DEF Evs, EventsOf, Blocks
<1>6. ASSUME d = n
      PROVE  /\ EventsOf(t, d) \subseteq Evs(d) \cap {"release"}
             /\ (\A i \in PlacesOf(events, d) \ S : events[i].ev # "release")
                  => EventsOf(t, d) = Evs(d) \cap {"release"}
  <2>1. \A i \in K \cap PlacesOf(events, d) : events[i].ev = "release"
    BY <1>3, <1>6 DEF PlacesOf
  <2>2. EventsOf(t, d) \subseteq Evs(d) \cap {"release"}
    BY <1>4, <2>1 DEF Evs, EventsOf
  <2>3. ASSUME \A i \in PlacesOf(events, d) \ S : events[i].ev # "release"
        PROVE  Evs(d) \cap {"release"} \subseteq EventsOf(t, d)
    <3>1. \A i \in PlacesOf(events, d) : events[i].ev = "release" => i \in K \cap PlacesOf(events, d)
      BY <1>3, <2>3
    <3> QED BY <1>4, <3>1 DEF Evs, EventsOf
  <2> QED BY <2>2, <2>3
<1> QED BY <1>2, <1>4, <1>5, <1>6 DEF t, K

\* What the types say of each part.
LEMMA TcpFields ==
  ASSUME TcpTypes
  PROVE  /\ MaxConns \in Nat /\ MaxSent \in Nat /\ RxWindow \in Nat
         /\ Conns \subseteq Nat /\ 0 \notin Conns
         /\ sock.client \in Nat /\ sock.state \in {"idle", "connecting", "open", "closed"}
         /\ sock.err \in Nat /\ sock.rx \in Seq(TcpBlocks) /\ Len(sock.rx) \in Nat
         /\ \A n \in Conns :
              /\ obj[n] \in ObjRecord /\ obj[n].live \in BOOLEAN /\ obj[n].pcb \in BOOLEAN
              /\ obj[n].released \in BOOLEAN /\ obj[n].closed \in BOOLEAN /\ obj[n].credit \in Nat
              /\ pcb[n] \in PcbRecord /\ pcb[n].st \in Early \union {"open", "over"}
              /\ pcb[n].sent \in Nat /\ pcb[n].acked \in Nat /\ pcb[n].fin \in BOOLEAN
         /\ DOMAIN obj = Conns /\ DOMAIN pcb = Conns
         /\ reader.c \in Nat /\ Pending \in Nat /\ Handed \in {0, 1} /\ Unread \in Nat
         /\ made \in Nat /\ made <= MaxConns /\ got \in Nat
         /\ (\A i \in Conns : i <= MaxConns /\ i >= 1)
<1>1. MaxConns \in Nat /\ MaxSent \in Nat /\ RxWindow \in Nat
  BY TcpAssumption
<1>2. Conns \subseteq Nat /\ 0 \notin Conns /\ (\A i \in Conns : i <= MaxConns /\ i >= 1)
  BY <1>1 DEF Conns
<1>3. /\ sock.client \in Nat /\ sock.state \in {"idle", "connecting", "open", "closed"}
      /\ sock.err \in Nat /\ sock.rx \in Seq(TcpBlocks)
  BY DEF TcpTypes, TcpRecord
<1>4. Len(sock.rx) \in Nat
  BY <1>3
<1>5. ASSUME NEW n \in Conns
      PROVE  /\ obj[n] \in ObjRecord /\ obj[n].live \in BOOLEAN /\ obj[n].pcb \in BOOLEAN
             /\ obj[n].released \in BOOLEAN /\ obj[n].closed \in BOOLEAN /\ obj[n].credit \in Nat
             /\ pcb[n] \in PcbRecord /\ pcb[n].st \in Early \union {"open", "over"}
             /\ pcb[n].sent \in Nat /\ pcb[n].acked \in Nat /\ pcb[n].fin \in BOOLEAN
  <2>1. obj[n] \in ObjRecord /\ pcb[n] \in PcbRecord
    BY DEF TcpTypes
  <2> QED BY <2>1 DEF ObjRecord, PcbRecord, Early
<1>6. reader.c \in Nat /\ made \in Nat /\ made <= MaxConns /\ got \in Nat
  BY DEF TcpTypes, ReaderRecord
<1>7. Pending \in Nat /\ Handed \in {0, 1} /\ Unread \in Nat
  BY <1>4, <1>6 DEF Pending, Handed, Unread
<1>8. DOMAIN obj = Conns /\ DOMAIN pcb = Conns
  BY DEF TcpTypes
<1> QED BY <1>1, <1>2, <1>3, <1>4, <1>5, <1>6, <1>7, <1>8

\* What the queue holds of a client is what it was.
QueueSame(n) ==
  /\ EventsOf(events', n) = EventsOf(events, n) /\ Blocks(events', n) = Blocks(events, n)
  /\ (InOrder(events, n) => InOrder(events', n))
  /\ (OneAnswer(events, n) => OneAnswer(events', n))
  /\ (UpFirst(events, n) => UpFirst(events', n))

\* A callback that is made is one for a client that is there.
CallFits(n) ==
  callback'.at # "idle" /\ callback'.c = n =>
    /\ obj[n].live /\ pcb[n].st # "none" /\ callback'.at # "up"
    /\ callback'.at \in {"connect", "data"} => pcb[n].st \in {"open", "over"}

ClientOk(n) == LifeOk(n) /\ NewsOk(n) /\ FlowOk(n)

\* A step that leaves a client and its queue alone keeps it sound.
LEMMA Untouched ==
  ASSUME TcpTypes, NEW n \in Conns, ClientOk(n), obj'[n] = obj[n], pcb'[n] = pcb[n], QueueSame(n),
         made' \in Nat, made' >= made, Held(n)' <=> Held(n),
         UNCHANGED callback \/ (CallFits(n) /\ ~Called(n, "up"))
  PROVE  ClientOk(n)'
<1> USE TcpFields
<1>0. /\ Evs(n)' = Evs(n) /\ (Current(n)' <=> Current(n)) /\ (Called(n, "up")' <=> Called(n, "up"))
      /\ obj'[n] = obj[n] /\ pcb'[n] = pcb[n]
  BY DEF QueueSame, Evs, Current, Called, CallFits
<1>4. (Upcoming(n)' <=> Upcoming(n)) /\ (Streams(n)' <=> Streams(n))
  BY <1>0 DEF Upcoming, Streams
<1>1. LifeOk(n)'
  BY <1>0 DEF ClientOk, LifeOk, CallFits
<1>2. NewsOk(n)'
  BY <1>0, <1>4 DEF ClientOk, NewsOk, QueueSame
<1>3. FlowOk(n)'
  BY <1>0, <1>4 DEF ClientOk, FlowOk, QueueSame
<1> QED BY <1>1, <1>2, <1>3 DEF ClientOk

\* A step of lwIP or async_tcp that leaves the flow of the client in use alone keeps the stream.
LEMMA StreamStays ==
  ASSUME TcpTypes, StreamInv, UNCHANGED <<sock, reader, made, got>>,
         callback.at \in {"idle", "up"} \/ UNCHANGED callback,
         sock.client # 0 =>
           /\ obj'[sock.client].credit = obj[sock.client].credit
           /\ obj'[sock.client].pcb => obj[sock.client].pcb
           /\ pcb'[sock.client].acked = pcb[sock.client].acked
           /\ pcb'[sock.client].sent = pcb[sock.client].sent \/ pcb[sock.client].st # "over"
           /\ pcb[sock.client].fin => pcb'[sock.client].fin
           /\ (pcb[sock.client].st = "over" => pcb'[sock.client].st = "over")
           /\ (pcb[sock.client].st = "open" => pcb'[sock.client].st \in {"open", "over"})
           /\ Upcoming(sock.client)' \/ pcb'[sock.client].st \in Early =>
                Upcoming(sock.client) \/ pcb[sock.client].st \in Early
           /\ obj[sock.client].pcb \in BOOLEAN /\ obj'[sock.client].pcb \in BOOLEAN
           /\ callback' # callback /\ callback'.at \in {"connect", "data", "disconnect"} =>
                callback'.c # sock.client
  PROVE  StreamInv'
<1> USE TcpFields
<1>1. Unread' = Unread /\ Pending' = Pending
  BY DEF Unread, Pending
<1>2. sock.client # 0 =>
        \A at \in {"connect", "data", "disconnect"} : Called(sock.client, at)' <=> Called(sock.client, at)
  BY DEF Called
<1>3. sock.client # 0 => Handed' = Handed
  BY <1>2 DEF Handed, Called
<1>4. sock.client # 0 => (AllCame(sock.client) => AllCame(sock.client)')
  BY <1>1 DEF AllCame
<1>5. sock.client # 0 /\ Called(sock.client, "data") => callback' = callback
  BY DEF Called
<1> QED BY <1>1, <1>2, <1>3, <1>4, <1>5 DEF StreamInv

\* What was appended for another client.
LEMMA AppendedForAnother ==
  ASSUME TcpTypes, NEW e \in TcpEvents, events' = Append(events, e), NEW n, n # e.c
  PROVE  QueueSame(n)
<1>1. events \in Seq(TcpEvents)
  BY DEF TcpTypes
<1>2. /\ EventsOf(events', n) = EventsOf(events, n) \union IF n = e.c THEN {e.ev} ELSE {}
      /\ Blocks(events', n) = Blocks(events, n) \union IF n = e.c /\ e.ev = "recv" THEN {e.x} ELSE {}
      /\ (InOrder(events, n) => InOrder(events', n))
      /\ (OneAnswer(events, n) => OneAnswer(events', n))
      /\ (UpFirst(events, n) => UpFirst(events', n))
  BY <1>1, QueueAppended
<1> QED BY <1>2 DEF QueueSame

LEMMA NothingQueued ==
  ASSUME NEW q, NEW n, EventsOf(q, n) = {}
  PROVE  InOrder(q, n) /\ OneAnswer(q, n) /\ UpFirst(q, n) /\ Blocks(q, n) = {}
<1>1. PlacesOf(q, n) = {}
  BY DEF EventsOf
<1>2. RecvsOf(q, n) = {}
  BY <1>1 DEF RecvsOf
<1> QED BY <1>1, <1>2 DEF InOrder, OneAnswer, UpFirst, Blocks

\* A step of lwIP or async_tcp is about one client: it is enough to look at it.
LEMMA OneClientMoves ==
  ASSUME TcpInv, NEW n \in Conns, UNCHANGED <<sock, reader, made, got>>, TcpTypes',
         \A d \in Conns : d # n => obj'[d] = obj[d] /\ pcb'[d] = pcb[d] /\ QueueSame(d),
         \/ UNCHANGED callback
         \/ (callback.at = "idle" \/ Called(n, "up")) /\ callback'.c = n,
         n = sock.client => pcb[n].st # "none" /\ StreamInv',
         ClientOk(n)'
  PROVE  TcpInv'
<1> USE TcpFields
<1>1. TcpTypes /\ LoopInv /\ StreamInv /\ \A d \in Conns : ClientOk(d)
  BY DEF TcpInv, TcpClientInv, ClientOk
<1>2. ASSUME NEW d \in Conns, d # n PROVE ClientOk(d)'
  <2>1. Held(d)' <=> Held(d)
    BY DEF Held, Leaving
  <2>2. UNCHANGED callback \/ (CallFits(d) /\ ~Called(d, "up"))
    BY <1>2 DEF CallFits, Called
  <2>3. made' \in Nat /\ made' >= made
    BY <1>1
  <2> QED BY <1>1, <1>2, <2>1, <2>2, <2>3, Untouched
<1>3. TcpClientInv'
  BY <1>2 DEF TcpClientInv, ClientOk
<1>4. LoopInv'
  BY <1>1 DEF LoopInv
<1>5. ASSUME sock.client # n PROVE StreamInv'
  <2>3. callback.at \in {"idle", "up"} \/ UNCHANGED callback
    BY DEF Called
  <2>1. CASE sock.client = 0
    BY <1>1, <2>1, <2>3, StreamStays
  <2>2. CASE sock.client # 0
    <3>1. sock.client \in Conns
      BY <1>1, <2>2 DEF StreamInv
    <3>2. /\ obj'[sock.client] = obj[sock.client] /\ pcb'[sock.client] = pcb[sock.client]
          /\ obj[sock.client].pcb \in BOOLEAN
      BY <1>1, <1>5, <3>1
    <3>4. callback' # callback /\ callback'.at \in {"connect", "data", "disconnect"} =>
                callback'.c # sock.client
      BY <1>5
    <3>5. Upcoming(sock.client)' => Upcoming(sock.client)
      BY <1>5, <3>1 DEF Upcoming, Called, Evs, QueueSame
    <3> QED BY <1>1, <2>3, <3>2, <3>4, <3>5, StreamStays
  <2> QED BY <2>1, <2>2
<1>6. StreamInv'
  BY <1>5
<1> QED BY <1>3, <1>4, <1>6 DEF TcpInv

\* What lwIP appends for a client.
LEMMA AppendedFor ==
  ASSUME TcpTypes, NEW e \in TcpEvents, events' = Append(events, e)
  PROVE  LET n == e.c IN
         /\ events' \in Seq(TcpEvents) /\ n \in Conns
         /\ EventsOf(events', n) = Evs(n) \union {e.ev}
         /\ (e.ev # "recv" => Blocks(events', n) = Blocks(events, n))
         /\ (e.ev = "recv" => Blocks(events', n) = Blocks(events, n) \union {e.x})
         /\ InOrder(events, n)
              /\ (e.ev = "recv" => "fin" \notin Evs(n) /\ \A x \in Blocks(events, n) : x < e.x)
              => InOrder(events', n)
         /\ OneAnswer(events, n) /\ (e.ev \in Once => e.ev \notin Evs(n)) => OneAnswer(events', n)
         /\ UpFirst(events, n) /\ (e.ev \in {"recv", "fin"} => "connected" \in Evs(n))
              => UpFirst(events', n)
<1>1. events \in Seq(TcpEvents)
  BY DEF TcpTypes
<1>2. e.c \in Conns
  BY DEF TcpEvents
<1> DEFINE n == e.c
<1>3. /\ events' \in Seq(TcpEvents)
      /\ EventsOf(events', n) = EventsOf(events, n) \union IF n = e.c THEN {e.ev} ELSE {}
      /\ Blocks(events', n) = Blocks(events, n) \union IF n = e.c /\ e.ev = "recv" THEN {e.x} ELSE {}
      /\ (InOrder(events, n)
              /\ (n = e.c /\ e.ev = "recv" => "fin" \notin EventsOf(events, n) /\ \A x \in Blocks(events, n) : x < e.x)
              => InOrder(events', n))
      /\ (OneAnswer(events, n) /\ (n = e.c /\ e.ev \in Once => e.ev \notin EventsOf(events, n))
              => OneAnswer(events', n))
      /\ (UpFirst(events, n) /\ (n = e.c /\ e.ev \in {"recv", "fin"} => "connected" \in EventsOf(events, n))
              => UpFirst(events', n))
  BY <1>1, QueueAppended
<1> HIDE DEF n
<1>4. n = e.c
  BY DEF n
<1>5. EventsOf(events', n) = Evs(n) \union {e.ev}
  BY <1>3, <1>4 DEF Evs
<1>6. /\ (e.ev # "recv" => Blocks(events', n) = Blocks(events, n))
      /\ (e.ev = "recv" => Blocks(events', n) = Blocks(events, n) \union {e.x})
  BY <1>3, <1>4
<1> QED BY <1>2, <1>3, <1>4, <1>5, <1>6 DEF Evs

LEMMA ResolvedKeeps ==
  ASSUME TcpInv, NEW n \in Conns, NEW found \in BOOLEAN, Resolved(n, found)
  PROVE  TcpInv'
<1> USE TcpFields
<1> DEFINE e == Queued("dns", n, IF found THEN 1 ELSE 0)
<1>1. e \in TcpEvents /\ e.c = n /\ e.ev = "dns"
  BY DEF Queued, TcpEvents
<1> HIDE DEF e
<1>2. /\ TcpTypes /\ StreamInv /\ LifeOk(n) /\ NewsOk(n) /\ FlowOk(n)
      /\ pcb[n].st = "asking" /\ events' = Append(events, e)
      /\ UNCHANGED <<obj, sock, callback, reader, made, got>>
  BY DEF TcpInv, TcpClientInv, Resolved, tcpipKeeps, e
<1>3. /\ pcb' \in [Conns -> PcbRecord] /\ (\A d \in Conns : d # n => pcb'[d] = pcb[d])
      /\ pcb'[n] = [pcb[n] EXCEPT !.st = "asked"]
  BY <1>2 DEF Resolved, PcbRecord, TcpTypes
<1>4. /\ pcb'[n].st = "asked" /\ pcb'[n].sent = pcb[n].sent /\ pcb'[n].acked = pcb[n].acked
      /\ pcb'[n].fin = pcb[n].fin
  BY <1>2, <1>3 DEF PcbRecord
<1>5. /\ events' \in Seq(TcpEvents)
      /\ Evs(n)' = Evs(n) \union {"dns"}
      /\ (OneAnswer(events, n) /\ "dns" \notin Evs(n) => OneAnswer(events', n))
      /\ (UpFirst(events, n) => UpFirst(events', n))
  BY <1>1, <1>2, AppendedFor DEF Evs
<1>6. TcpTypes'
  BY <1>2, <1>3, <1>5 DEF TcpTypes
<1>7. \A d \in Conns : d # n => obj'[d] = obj[d] /\ pcb'[d] = pcb[d] /\ QueueSame(d)
  BY <1>1, <1>2, <1>3, AppendedForAnother
<1>8. LifeOk(n)'
  BY <1>2, <1>4, <1>5 DEF LifeOk, Called, Current, Held, Leaving, Evs
<1>9. NewsOk(n)'
  BY <1>2, <1>4, <1>5 DEF NewsOk, Streams, Upcoming, Called, LifeOk, Current
<1>10. FlowOk(n)'
  BY <1>2, <1>4, SMTT(30) DEF FlowOk, Streams, Upcoming, Called, Early
<1>11. n = sock.client => StreamInv'
  BY <1>2, <1>4, StreamStays
<1> QED BY <1>2, <1>6, <1>7, <1>8, <1>9, <1>10, <1>11, OneClientMoves DEF ClientOk

LEMMA ConnectedKeeps ==
  ASSUME TcpInv, NEW n \in Conns, Connected(n)
  PROVE  TcpInv'
<1> USE TcpFields
<1> DEFINE e == Queued("connected", n, 0)
<1>1. e \in TcpEvents /\ e.c = n /\ e.ev = "connected"
  BY DEF Queued, TcpEvents
<1> HIDE DEF e
<1>2. /\ TcpTypes /\ StreamInv /\ LifeOk(n) /\ NewsOk(n) /\ FlowOk(n)
      /\ pcb[n].st = "syn" /\ events' = Append(events, e)
      /\ UNCHANGED <<obj, sock, callback, reader, made, got>>
  BY DEF TcpInv, TcpClientInv, Connected, tcpipKeeps, e
<1>3. /\ pcb' \in [Conns -> PcbRecord] /\ (\A d \in Conns : d # n => pcb'[d] = pcb[d])
      /\ pcb'[n] = [pcb[n] EXCEPT !.st = "open"]
  BY <1>2 DEF Connected, PcbRecord, TcpTypes
<1>4. /\ pcb'[n].st = "open" /\ pcb'[n].sent = pcb[n].sent /\ pcb'[n].acked = pcb[n].acked
      /\ pcb'[n].fin = pcb[n].fin
  BY <1>2, <1>3 DEF PcbRecord
<1>5. /\ events' \in Seq(TcpEvents)
      /\ Evs(n)' = Evs(n) \union {"connected"} /\ Blocks(events', n) = Blocks(events, n)
      /\ (InOrder(events, n) => InOrder(events', n))
      /\ (OneAnswer(events, n) /\ "connected" \notin Evs(n) => OneAnswer(events', n))
      /\ (UpFirst(events, n) => UpFirst(events', n))
  BY <1>1, <1>2, AppendedFor DEF Evs
<1>6. TcpTypes'
  BY <1>2, <1>3, <1>5 DEF TcpTypes
<1>7. \A d \in Conns : d # n => obj'[d] = obj[d] /\ pcb'[d] = pcb[d] /\ QueueSame(d)
  BY <1>1, <1>2, <1>3, AppendedForAnother
<1>8. LifeOk(n)'
  BY <1>2, <1>4, <1>5 DEF LifeOk, Called, Current, Held, Leaving, Evs
<1>9. Current(n) => InOrder(events, n) /\ OneAnswer(events, n) /\ UpFirst(events, n) /\ Blocks(events, n) = {}
  BY <1>2, NothingQueued DEF NewsOk, Evs
<1>10. NewsOk(n)'
  BY <1>2, <1>4, <1>5, <1>9 DEF NewsOk, Streams, Upcoming, Called, LifeOk, Current
<1>11. FlowOk(n)'
  <2>1. pcb[n].sent = 0 /\ ~pcb[n].fin /\ obj[n].credit = 0 /\ pcb[n].acked = 0
    BY <1>2, SMTT(30) DEF FlowOk, Early
  <2>2. 0 + 0 + 1 .. 0 = {}
    OBVIOUS
  <2>3. Current(n)' => "fin" \notin Evs(n)' /\ InOrder(events', n) /\ Blocks(events', n) = {}
    BY <1>2, <1>5, <1>9 DEF NewsOk, Current
  <2> QED BY <1>2, <1>4, <2>1, <2>2, <2>3 DEF FlowOk, Streams, Upcoming, Called, Early
<1>12. n = sock.client => StreamInv'
  BY <1>2, <1>4, StreamStays DEF LifeOk
<1> QED BY <1>2, <1>6, <1>7, <1>8, <1>10, <1>11, <1>12, OneClientMoves DEF ClientOk

LEMMA ArrivesKeeps ==
  ASSUME TcpInv, NEW n \in Conns, Arrives(n)
  PROVE  TcpInv'
<1> USE TcpFields
<1> DEFINE s == pcb[n].sent + 1
           e == Queued("recv", n, s)
<1>0. TcpTypes
  BY DEF TcpInv
<1>1. e \in TcpEvents /\ e.c = n /\ e.ev = "recv" /\ e.x = s /\ s = pcb[n].sent + 1 /\ s \in Nat
  BY <1>0 DEF Queued, TcpEvents
<1> HIDE DEF e, s
<1>3. /\ pcb' \in [Conns -> PcbRecord] /\ (\A d \in Conns : d # n => pcb'[d] = pcb[d])
      /\ pcb'[n] = [pcb[n] EXCEPT !.sent = s]
  <2>1. pcb' = [pcb EXCEPT ![n].sent = s]
    BY DEF Arrives, s
  <2>2. pcb \in [Conns -> PcbRecord]
    BY <1>0 DEF TcpTypes
  <2>3. [pcb[n] EXCEPT !.sent = s] \in PcbRecord
    BY <1>1, <2>2 DEF PcbRecord
  <2> QED BY <2>1, <2>2, <2>3
<1>4. /\ pcb'[n].sent = s /\ pcb'[n].st = pcb[n].st /\ pcb'[n].acked = pcb[n].acked
      /\ pcb'[n].fin = pcb[n].fin
  BY <1>0, <1>3 DEF PcbRecord
<1>2. /\ TcpTypes /\ StreamInv /\ LifeOk(n) /\ NewsOk(n) /\ FlowOk(n)
      /\ pcb[n].st = "open" /\ ~pcb[n].fin /\ pcb[n].sent - pcb[n].acked < RxWindow
      /\ events' = Append(events, e)
      /\ UNCHANGED <<obj, sock, callback, reader, made, got>>
  BY <1>4 DEF TcpInv, TcpClientInv, Arrives, tcpipKeeps, e
<1>5. /\ events' \in Seq(TcpEvents)
      /\ Evs(n)' = Evs(n) \union {"recv"} /\ Blocks(events', n) = Blocks(events, n) \union {s}
      /\ (InOrder(events, n) /\ "fin" \notin Evs(n) /\ (\A x \in Blocks(events, n) : x < s)
            => InOrder(events', n))
      /\ (OneAnswer(events, n) => OneAnswer(events', n))
      /\ (UpFirst(events, n) /\ "connected" \in Evs(n) => UpFirst(events', n))
  <2>1. e.c = n /\ e.ev = "recv" /\ e.x = s /\ e \in TcpEvents
    BY <1>1
  <2> QED BY <1>2, <2>1, AppendedFor, SMTT(30) DEF Evs, Once
<1>6. TcpTypes'
  BY <1>2, <1>3, <1>5 DEF TcpTypes
<1>7. \A d \in Conns : d # n => obj'[d] = obj[d] /\ pcb'[d] = pcb[d] /\ QueueSame(d)
  BY <1>1, <1>2, <1>3, AppendedForAnother
<1>8. LifeOk(n)'
  BY <1>2, <1>4, <1>5 DEF LifeOk, Called, Current, Held, Leaving, Evs
<1>9. NewsOk(n)'
  BY <1>2, <1>4, <1>5 DEF NewsOk, Streams, Upcoming, Called, LifeOk, Current
<1>12. Upcoming(n)' <=> Upcoming(n)
  BY <1>2, <1>5 DEF Upcoming, Called
<1>10. FlowOk(n)'
  <2> DEFINE a == obj[n].credit + pcb[n].acked
  <2>1. /\ a <= pcb[n].sent /\ a \in Nat /\ a = obj[n].credit + pcb[n].acked
        /\ s <= pcb[n].acked + RxWindow /\ a <= s
    <3>1. /\ pcb[n].sent \in Nat /\ pcb[n].acked \in Nat /\ obj[n].credit \in Nat /\ RxWindow \in Nat
          /\ a <= pcb[n].sent
      BY <1>2 DEF FlowOk
    <3>2. pcb[n].sent - pcb[n].acked < RxWindow /\ s = pcb[n].sent + 1
      BY <1>1, <1>2
    <3> HIDE TcpFields
    <3> QED BY <3>1, <3>2
  <2> HIDE DEF a
  <2>2. (a + 1) .. s = ((a + 1) .. pcb[n].sent) \union {s} /\ \A x \in (a + 1) .. pcb[n].sent : x < s
    <3>1. pcb[n].sent \in Nat
      BY <1>2
    <3> QED BY <1>1, <2>1, <3>1
  <2>3. ASSUME Current(n)
        PROVE  /\ InOrder(events', n) /\ Blocks(events', n) = a + 1 .. s
               /\ "fin" \notin Evs(n)'
    <3>1. InOrder(events, n) /\ Blocks(events, n) = a + 1 .. pcb[n].sent /\ "fin" \notin Evs(n)
      BY <1>2, <2>1, <2>3 DEF FlowOk, Streams
    <3> QED BY <1>5, <2>2, <3>1
  <2>4. Current(n) /\ Upcoming(n) => obj[n].credit + pcb[n].acked = 0
    BY <1>2 DEF FlowOk
  <2>5. /\ Current(n)' <=> Current(n)
        /\ (Streams(n)' => Current(n)) /\ pcb'[n].st = "open"
    BY <1>2, <1>4 DEF Current, Streams
  <2> QED BY <1>2, <1>4, <1>12, <2>1, <2>3, <2>4, <2>5 DEF FlowOk, Early
<1>11. n = sock.client => StreamInv'
  BY <1>2, <1>4, <1>12, StreamStays DEF LifeOk, Early
<1> QED BY <1>2, <1>6, <1>7, <1>8, <1>9, <1>10, <1>11, OneClientMoves DEF ClientOk

LEMMA EndsKeeps ==
  ASSUME TcpInv, NEW n \in Conns, Ends(n)
  PROVE  TcpInv'
<1> USE TcpFields
<1> DEFINE e == Queued("fin", n, 0)
<1>1. e \in TcpEvents /\ e.c = n /\ e.ev = "fin"
  BY DEF Queued, TcpEvents
<1> HIDE DEF e
<1>2. /\ TcpTypes /\ StreamInv /\ LifeOk(n) /\ NewsOk(n) /\ FlowOk(n)
      /\ pcb[n].st = "open" /\ ~pcb[n].fin /\ events' = Append(events, e)
      /\ UNCHANGED <<obj, sock, callback, reader, made, got>>
  BY DEF TcpInv, TcpClientInv, Ends, tcpipKeeps, e
<1>3. /\ pcb' \in [Conns -> PcbRecord] /\ (\A d \in Conns : d # n => pcb'[d] = pcb[d])
      /\ pcb'[n] = [pcb[n] EXCEPT !.fin = TRUE]
  BY <1>2 DEF Ends, PcbRecord, TcpTypes
<1>4. /\ pcb'[n].fin /\ pcb'[n].sent = pcb[n].sent /\ pcb'[n].acked = pcb[n].acked
      /\ pcb'[n].st = pcb[n].st
  BY <1>2, <1>3 DEF PcbRecord
<1>5. /\ events' \in Seq(TcpEvents)
      /\ Evs(n)' = Evs(n) \union {"fin"} /\ Blocks(events', n) = Blocks(events, n)
      /\ (InOrder(events, n) => InOrder(events', n))
      /\ (OneAnswer(events, n) => OneAnswer(events', n))
      /\ (UpFirst(events, n) /\ "connected" \in Evs(n) => UpFirst(events', n))
  BY <1>1, <1>2, AppendedFor DEF Evs, Once
<1>6. TcpTypes'
  BY <1>2, <1>3, <1>5 DEF TcpTypes
<1>7. \A d \in Conns : d # n => obj'[d] = obj[d] /\ pcb'[d] = pcb[d] /\ QueueSame(d)
  BY <1>1, <1>2, <1>3, AppendedForAnother
<1>8. LifeOk(n)'
  BY <1>2, <1>4, <1>5 DEF LifeOk, Called, Current, Held, Leaving, Evs
<1>9. NewsOk(n)'
  BY <1>2, <1>4, <1>5 DEF NewsOk, Streams, Upcoming, Called, LifeOk, Current
<1>12. (Upcoming(n)' <=> Upcoming(n)) /\ (Current(n)' <=> Current(n)) /\ (Streams(n)' <=> Streams(n))
  BY <1>2, <1>4, <1>5 DEF Upcoming, Called, Current, Streams
<1>10. FlowOk(n)'
  BY <1>2, <1>4, <1>5, <1>12 DEF FlowOk, Early
<1>11. n = sock.client => StreamInv'
  BY <1>2, <1>4, <1>12, StreamStays DEF LifeOk, Early
<1> QED BY <1>2, <1>6, <1>7, <1>8, <1>9, <1>10, <1>11, OneClientMoves DEF ClientOk

LEMMA ErrsKeeps ==
  ASSUME TcpInv, NEW n \in Conns, Errs(n)
  PROVE  TcpInv'
<1> USE TcpFields
<1> DEFINE e == Queued("error", n, 1)
           w == WithoutEventsOf(n)
<1>1. e \in TcpEvents /\ e.c = n /\ e.ev = "error"
  BY DEF Queued, TcpEvents
<1>2. /\ TcpTypes /\ StreamInv /\ LifeOk(n) /\ NewsOk(n) /\ FlowOk(n)
      /\ pcb[n].st \in {"syn", "open"}
      /\ (obj[n].live => obj' = [obj EXCEPT ![n].pcb = @ /\ failing = n] /\ events' = Append(w, e))
      /\ (~obj[n].live => UNCHANGED <<obj, events>>)
      /\ UNCHANGED <<sock, callback, reader, made, got>>
  BY DEF TcpInv, TcpClientInv, Errs, tcpipKeeps
<1>3. /\ pcb' \in [Conns -> PcbRecord] /\ (\A d \in Conns : d # n => pcb'[d] = pcb[d])
      /\ pcb'[n] = [pcb[n] EXCEPT !.st = "over"]
  <2> DEFINE p == [pcb[n] EXCEPT !.st = "over"]
  <2>1. pcb \in [Conns -> PcbRecord] /\ pcb[n] \in PcbRecord
    BY <1>2 DEF TcpTypes
  <2>3. p \in PcbRecord
    BY <2>1 DEF PcbRecord
  <2>4. pcb' = [pcb EXCEPT ![n] = p]
    <3>1. pcb' = [pcb EXCEPT ![n].st = "over"]
      BY DEF Errs
    <3> QED BY <2>1, <3>1
  <2> HIDE DEF p
  <2> HIDE TcpFields
  <2>2. pcb' \in [Conns -> PcbRecord] /\ (\A d \in Conns : d # n => pcb'[d] = pcb[d]) /\ pcb'[n] = p
    BY <2>1, <2>3, <2>4
  <2> QED BY <2>2 DEF p
<1>4. /\ pcb'[n].fin = pcb[n].fin /\ pcb'[n].sent = pcb[n].sent /\ pcb'[n].acked = pcb[n].acked
      /\ pcb'[n].st = "over"
  BY <1>2, <1>3 DEF PcbRecord
<1>5. /\ obj' \in [Conns -> ObjRecord] /\ \A d \in Conns : d # n => obj'[d] = obj[d]
  <2>1. CASE ~obj[n].live
    BY <1>2, <2>1 DEF TcpTypes
  <2>2. CASE obj[n].live
    <3> DEFINE stays == obj[n].pcb /\ failing = n
               o == [obj[n] EXCEPT !.pcb = stays]
    <3>1. obj \in [Conns -> ObjRecord] /\ obj[n] \in ObjRecord
      BY <1>2 DEF TcpTypes
    <3>2. stays \in BOOLEAN
      BY <3>1 DEF ObjRecord
    <3>3. obj' = [obj EXCEPT ![n] = o]
      BY <1>2, <2>2, <3>1
    <3> HIDE DEF stays
    <3>4. o \in ObjRecord
      BY <3>1, <3>2 DEF ObjRecord
    <3> HIDE DEF o
    <3> QED BY <3>1, <3>3, <3>4
  <2> QED BY <2>1, <2>2
<1>6. /\ obj'[n].live = obj[n].live /\ obj'[n].released = obj[n].released
      /\ obj'[n].closed = obj[n].closed /\ obj'[n].credit = obj[n].credit
      /\ (obj'[n].pcb => obj[n].pcb)
  BY <1>2, SMTT(30) DEF TcpTypes, ObjRecord, LifeOk
<1>7. /\ events \in Seq(TcpEvents) /\ DOMAIN events = 1 .. Len(events)
      /\ (1 .. Len(events)) \in SUBSET (1 .. Len(events))
      /\ \A d : PlacesOf(events, d) \subseteq 1 .. Len(events)
  BY <1>2 DEF TcpTypes, PlacesOf
<1>8. \A d : /\ w \in Seq(TcpEvents)
             /\ (d # n => /\ EventsOf(w, d) = Evs(d) /\ Blocks(w, d) = Blocks(events, d)
                          /\ (InOrder(events, d) => InOrder(w, d))
                          /\ (OneAnswer(events, d) => OneAnswer(w, d))
                          /\ (UpFirst(events, d) => UpFirst(w, d)))
             /\ (d = n => EventsOf(w, d) = Evs(d) \cap {"release"})
  <2>1. SUFFICES ASSUME NEW d
                 PROVE  /\ w \in Seq(TcpEvents)
                        /\ (d # n => /\ EventsOf(w, d) = Evs(d) /\ Blocks(w, d) = Blocks(events, d)
                                     /\ (InOrder(events, d) => InOrder(w, d))
                                     /\ (OneAnswer(events, d) => OneAnswer(w, d))
                                     /\ (UpFirst(events, d) => UpFirst(w, d)))
                        /\ (d = n => EventsOf(w, d) = Evs(d) \cap {"release"})
    OBVIOUS
  <2>2. \A i \in PlacesOf(events, d) \ (1 .. Len(events)) : events[i].ev # "release"
    BY <1>7
  <2> DEFINE S == 1 .. Len(events)
  <2>3. S \in SUBSET (1 .. Len(events)) /\ PlacesOf(events, d) \subseteq S
    BY <1>7
  <2>4. w = Only(events, Kept(n, S))
    BY <1>7 DEF WithoutEventsOf
  <2>5. \A i \in PlacesOf(events, d) \ S : events[i].ev # "release"
    BY <2>2
  <2> HIDE DEF S, w
  <2> QED BY <1>7, <2>3, <2>4, <2>5, QueueKept
<1> HIDE DEF w, e
<1>17. w \in Seq(TcpEvents)
  BY <1>8
<1>9. events' \in Seq(TcpEvents)
  <2>1. Append(w, e) \in Seq(TcpEvents)
    BY <1>1, <1>17
  <2> QED BY <1>2, <1>7, <2>1
<1>10. TcpTypes'
  BY <1>2, <1>3, <1>5, <1>9 DEF TcpTypes
<1>11. \A d \in Conns : d # n => obj'[d] = obj[d] /\ pcb'[d] = pcb[d] /\ QueueSame(d)
  <2>1. SUFFICES ASSUME NEW d \in Conns, d # n PROVE QueueSame(d)
    BY <1>3, <1>5
  <2>2. CASE ~obj[n].live
    BY <1>2, <2>2 DEF QueueSame
  <2>3. CASE obj[n].live
    <3>1. /\ EventsOf(events', d) = EventsOf(w, d) \union IF d = e.c THEN {e.ev} ELSE {}
          /\ Blocks(events', d) = Blocks(w, d) \union IF d = e.c /\ e.ev = "recv" THEN {e.x} ELSE {}
          /\ (InOrder(w, d) => InOrder(events', d))
          /\ (OneAnswer(w, d) => OneAnswer(events', d))
          /\ (UpFirst(w, d) => UpFirst(events', d))
      <4>1. events' = Append(w, e)
        BY <1>2, <2>3
      <4> HIDE TcpFields
      <4> QED BY <1>1, <1>17, <2>1, <4>1, QueueAppended
    <3> QED BY <1>1, <1>8, <2>1, <3>1 DEF QueueSame, Evs
  <2> QED BY <1>2, <2>2, <2>3
<1>12. obj[n].live => /\ Evs(n)' = (Evs(n) \cap {"release"}) \union {"error"}
                      /\ (Evs(n) \cap {"release"} = {} => OneAnswer(events', n) /\ UpFirst(events', n))
  <2>1. SUFFICES ASSUME obj[n].live
                 PROVE  /\ Evs(n)' = (Evs(n) \cap {"release"}) \union {"error"}
                        /\ (Evs(n) \cap {"release"} = {} => OneAnswer(events', n) /\ UpFirst(events', n))
    OBVIOUS
  <2>2. /\ EventsOf(events', n) = EventsOf(w, n) \union IF n = e.c THEN {e.ev} ELSE {}
        /\ (OneAnswer(w, n) => OneAnswer(events', n))
        /\ (UpFirst(w, n) => UpFirst(events', n))
    <3>1. events' = Append(w, e)
      BY <1>2, <2>1
    <3> HIDE TcpFields
    <3>2. e.ev \notin Once
      BY <1>1 DEF Once
    <3> QED BY <1>1, <1>17, <3>1, <3>2, QueueAppended
  <2>3. EventsOf(w, n) = Evs(n) \cap {"release"}
    BY <1>8
  <2>4. Evs(n) \cap {"release"} = {} => OneAnswer(w, n) /\ UpFirst(w, n)
    BY <2>3, NothingQueued
  <2> QED BY <1>1, <2>2, <2>3, <2>4 DEF Evs
<1>13. LifeOk(n)'
  <2>1. ~obj[n].live => Evs(n)' = Evs(n)
    BY <1>2 DEF Evs
  <2> QED BY <1>2, <1>4, <1>6, <1>12, <2>1 DEF LifeOk, Called, Current, Held, Leaving
<1>18. /\ Current(n)' <=> Current(n)
       /\ Current(n) => Evs(n)' = {"error"} /\ OneAnswer(events', n)
       /\ ~Streams(n)' /\ (Current(n) /\ Upcoming(n)' => Upcoming(n))
  <2>1. Current(n)' <=> Current(n)
    BY <1>6 DEF Current
  <2>2. Current(n) => Evs(n)' = {"error"} /\ OneAnswer(events', n)
    BY <1>2, <1>12 DEF Current, LifeOk
  <2> QED BY <1>2, <1>4, <2>1, <2>2 DEF Streams, Upcoming, Called
<1>14. NewsOk(n)'
  BY <1>4, <1>18 DEF NewsOk
<1>15. FlowOk(n)'
  BY <1>2, <1>4, <1>6, <1>18 DEF FlowOk, Early
<1>16. n = sock.client => StreamInv'
  <2>1. n = sock.client => Current(n)
    BY <1>2 DEF LifeOk, Held
  <2>2. obj[n].pcb \in BOOLEAN /\ obj'[n].pcb \in BOOLEAN
    <3>1. obj[n] \in ObjRecord /\ obj'[n] \in ObjRecord
      BY <1>2, <1>5 DEF TcpTypes
    <3> QED BY <3>1 DEF ObjRecord
  <2>3. n = sock.client => (Upcoming(n)' \/ pcb'[n].st \in Early => Upcoming(n) \/ pcb[n].st \in Early)
    BY <1>4, <1>18, <2>1 DEF Early
  <2> QED BY <1>2, <1>4, <1>6, <2>2, <2>3, StreamStays
<1> QED BY <1>2, <1>10, <1>11, <1>13, <1>14, <1>15, <1>16, OneClientMoves DEF ClientOk

\* The first event is taken.
LEMMA Popped ==
  ASSUME TcpTypes, events # <<>>, NEW e, e = Head(events), events' = Tail(events)
  PROVE  LET n == e.c IN
         /\ e \in TcpEvents /\ n \in Conns /\ events' \in Seq(TcpEvents)
         /\ \A d : d # n => QueueSame(d)
         /\ Evs(n) = Evs(n)' \union {e.ev}
         /\ (e.ev # "recv" => Blocks(events', n) = Blocks(events, n))
         /\ (e.ev = "recv" => Blocks(events, n) = Blocks(events', n) \union {e.x})
         /\ (InOrder(events, n) => InOrder(events', n))
         /\ (InOrder(events, n) /\ e.ev = "recv" => \A x \in Blocks(events', n) : e.x < x)
         /\ (InOrder(events, n) /\ e.ev = "fin" => Blocks(events', n) = {})
         /\ (OneAnswer(events, n) => OneAnswer(events', n))
         /\ (OneAnswer(events, n) /\ e.ev \in Once => e.ev \notin Evs(n)')
         /\ (UpFirst(events, n) /\ e.ev # "connected" => UpFirst(events', n))
         /\ (UpFirst(events, n) => e.ev \notin {"recv", "fin"})
<1>1. events \in Seq(TcpEvents)
  BY DEF TcpTypes
<1>2. \A d : /\ events' \in Seq(TcpEvents) /\ e \in TcpEvents
             /\ EventsOf(events, d) = EventsOf(events', d) \union IF d = e.c THEN {e.ev} ELSE {}
             /\ Blocks(events, d)
                  = Blocks(events', d) \union IF d = e.c /\ e.ev = "recv" THEN {e.x} ELSE {}
             /\ (InOrder(events, d) => InOrder(events', d))
             /\ (InOrder(events, d) /\ d = e.c /\ e.ev = "recv" => \A x \in Blocks(events', d) : e.x < x)
             /\ (InOrder(events, d) /\ d = e.c /\ e.ev = "fin" => Blocks(events', d) = {})
             /\ (OneAnswer(events, d) => OneAnswer(events', d))
             /\ (OneAnswer(events, d) /\ d = e.c /\ e.ev \in Once => e.ev \notin EventsOf(events', d))
             /\ (UpFirst(events, d) /\ (d # e.c \/ e.ev # "connected") => UpFirst(events', d))
             /\ (UpFirst(events, d) /\ d = e.c => e.ev \notin {"recv", "fin"})
  BY <1>1, QueueTaken
<1>3. e.c \in Conns
  BY <1>2 DEF TcpEvents
<1>4. ASSUME NEW d, d # e.c PROVE QueueSame(d)
  <2>1. EventsOf(events, d) = EventsOf(events', d) /\ Blocks(events, d) = Blocks(events', d)
    <3>1. /\ EventsOf(events, d) = EventsOf(events', d) \union IF d = e.c THEN {e.ev} ELSE {}
          /\ Blocks(events, d)
               = Blocks(events', d) \union IF d = e.c /\ e.ev = "recv" THEN {e.x} ELSE {}
      BY <1>2
    <3> QED BY <1>4, <3>1
  <2> QED BY <1>2, <1>4, <2>1 DEF QueueSame
<1> DEFINE n == e.c
<1>5. n = e.c
  OBVIOUS
<1> HIDE DEF n
<1>6. EventsOf(events, n) = EventsOf(events', n) \union {e.ev}
  BY <1>2, <1>5
<1>7. /\ (e.ev # "recv" => Blocks(events', n) = Blocks(events, n))
      /\ (e.ev = "recv" => Blocks(events, n) = Blocks(events', n) \union {e.x})
  <2>1. Blocks(events, n)
          = Blocks(events', n) \union IF n = e.c /\ e.ev = "recv" THEN {e.x} ELSE {}
    BY <1>2
  <2> QED BY <1>5, <2>1
<1>8. /\ (InOrder(events, n) => InOrder(events', n))
      /\ (InOrder(events, n) /\ e.ev = "recv" => \A x \in Blocks(events', n) : e.x < x)
      /\ (InOrder(events, n) /\ e.ev = "fin" => Blocks(events', n) = {})
  BY <1>2, <1>5
<1>9. /\ (OneAnswer(events, n) => OneAnswer(events', n))
      /\ (OneAnswer(events, n) /\ e.ev \in Once => e.ev \notin EventsOf(events', n))
      /\ (UpFirst(events, n) /\ e.ev # "connected" => UpFirst(events', n))
      /\ (UpFirst(events, n) => e.ev \notin {"recv", "fin"})
  BY <1>2, <1>5
<1>10. events' \in Seq(TcpEvents) /\ e \in TcpEvents
  BY <1>2
<1> QED BY <1>3, <1>4, <1>5, <1>6, <1>7, <1>8, <1>9, <1>10 DEF Evs

\* The first event is taken, and what else its client had queued.
LEMMA PoppedAll ==
  ASSUME TcpTypes, events # <<>>, NEW e, e = Head(events),
         events' = Only(events, Kept(e.c, 2 .. Len(events)))
  PROVE  LET n == e.c IN
         /\ e \in TcpEvents /\ n \in Conns /\ events' \in Seq(TcpEvents)
         /\ \A d : d # n => QueueSame(d)
         /\ Evs(n)' \subseteq Evs(n) \cap {"release"}
         /\ e.ev \in Evs(n)
<1> DEFINE S == 2 .. Len(events)
<1>1. /\ events \in Seq(TcpEvents) /\ S \in SUBSET (1 .. Len(events)) /\ e = events[1] /\ 1 \in 1 .. Len(events)
      /\ \A i \in 1 .. Len(events) : i = 1 \/ i \in S
  BY EmptySeq DEF TcpTypes
<1>2. e \in TcpEvents
  BY <1>1
<1>3. e.c \in Conns
  BY <1>2 DEF TcpEvents
<1> HIDE DEF S
<1>4. events' = Only(events, Kept(e.c, S))
  BY DEF S
<1>5. \A d : d # e.c => PlacesOf(events, d) \subseteq S
  BY <1>1 DEF PlacesOf
<1>6. events' \in Seq(TcpEvents) /\ EventsOf(events', e.c) \subseteq Evs(e.c) \cap {"release"}
  <2> DEFINE d == e.c
  <2>1. d = e.c
    OBVIOUS
  <2> HIDE DEF d
  <2>2. /\ Only(events, Kept(d, S)) \in Seq(TcpEvents)
        /\ EventsOf(Only(events, Kept(d, S)), d) \subseteq Evs(d) \cap {"release"}
    BY <1>1, QueueKept
  <2> QED BY <1>4, <2>1, <2>2
<1>7. ASSUME NEW d, d # e.c PROVE QueueSame(d)
  <2>1. /\ EventsOf(events', d) = Evs(d) /\ Blocks(events', d) = Blocks(events, d)
        /\ (InOrder(events, d) => InOrder(events', d)) /\ (OneAnswer(events, d) => OneAnswer(events', d))
        /\ (UpFirst(events, d) => UpFirst(events', d))
    BY <1>1, <1>4, <1>5, <1>7, QueueKept
  <2> QED BY <2>1 DEF QueueSame, Evs
<1>8. e.ev \in Evs(e.c)
  BY <1>1 DEF Evs, EventsOf, PlacesOf
<1> QED BY <1>2, <1>3, <1>6, <1>7, <1>8 DEF Evs

\* async_tcp takes the event e.
Taking(e) ==
  /\ callback.at = "idle" /\ events # <<>> /\ e = Head(events)
  /\ UNCHANGED <<sock, reader, made, got>>

LEMMA DroppedKeeps ==
  ASSUME TcpInv, NEW e, Taking(e), events' = Tail(events), UNCHANGED <<obj, pcb, callback>>,
         ~obj[e.c].live \/ (obj[e.c].released /\ e.ev # "release")
  PROVE  TcpInv'
<1> USE TcpFields
<1> DEFINE n == e.c
<1>1. TcpTypes /\ StreamInv
  BY DEF TcpInv
<1>2. /\ n \in Conns /\ events' \in Seq(TcpEvents)
      /\ (\A d : d # n => QueueSame(d)) /\ Evs(n) = Evs(n)' \union {e.ev}
  BY <1>1, Popped DEF Taking
<1>3. LifeOk(n) /\ NewsOk(n) /\ FlowOk(n) /\ (~obj[n].live \/ (obj[n].released /\ e.ev # "release"))
  BY <1>2 DEF TcpInv, TcpClientInv
<1> HIDE DEF n
<1>4. TcpTypes'
  BY <1>1, <1>2 DEF TcpTypes, Taking
<1>5. ~Current(n) /\ n # sock.client
  BY <1>1, <1>2, <1>3 DEF Current, LifeOk, Held
<1>6. LifeOk(n)'
  BY <1>1, <1>2, <1>3 DEF LifeOk, Called, Current, Held, Leaving, Taking
<1>7. NewsOk(n)'
  BY <1>1, <1>2, <1>3, <1>5 DEF NewsOk, Current
<1>8. FlowOk(n)'
  BY <1>1, <1>2, <1>3, <1>5 DEF FlowOk, Streams, Upcoming, Called, Current
<1>9. \A d \in Conns : d # n => obj'[d] = obj[d] /\ pcb'[d] = pcb[d] /\ QueueSame(d)
  BY <1>2
<1> QED BY <1>2, <1>4, <1>5, <1>6, <1>7, <1>8, <1>9, OneClientMoves DEF ClientOk, Taking

LEMMA PcbWith ==
  ASSUME NEW p \in PcbRecord, NEW s \in Early \union {"open", "over"}
  PROVE  LET q == [p EXCEPT !.st = s] IN
         q \in PcbRecord /\ q.st = s /\ q.sent = p.sent /\ q.acked = p.acked /\ q.fin = p.fin
BY DEF PcbRecord, Early

LEMMA FreedKeeps ==
  ASSUME TcpInv, NEW e, Taking(e), obj[e.c].live, e.ev = "release", Shut(e.c),
         obj' = [obj EXCEPT ![e.c].live = FALSE, ![e.c].pcb = FALSE], UNCHANGED callback
  PROVE  TcpInv'
<1> USE TcpFields
<1> DEFINE n == e.c
<1>1. TcpTypes /\ StreamInv
  BY DEF TcpInv
<1>2. /\ n \in Conns /\ events' \in Seq(TcpEvents)
      /\ (\A d : d # n => QueueSame(d)) /\ Evs(n)' \subseteq Evs(n) \cap {"release"} /\ "release" \in Evs(n)
  BY <1>1, PoppedAll DEF Taking, Shut
<1>3. /\ LifeOk(n) /\ NewsOk(n) /\ FlowOk(n) /\ obj[n].live
      /\ obj' = [obj EXCEPT ![n].live = FALSE, ![n].pcb = FALSE]
      /\ pcb' = [pcb EXCEPT ![n].st = IF obj[n].pcb THEN "over" ELSE @]
  BY <1>2 DEF TcpInv, TcpClientInv, Shut
<1> HIDE DEF n
<1>4. /\ pcb' \in [Conns -> PcbRecord] /\ (\A d \in Conns : d # n => pcb'[d] = pcb[d])
      /\ pcb'[n] = [pcb[n] EXCEPT !.st = IF obj[n].pcb THEN "over" ELSE @]
  <2>1. pcb \in [Conns -> PcbRecord] /\ pcb[n] \in PcbRecord /\ pcb[n].st \in Early \union {"open", "over"}
    BY <1>1, <1>2 DEF TcpTypes
  <2> DEFINE s == IF obj[n].pcb THEN "over" ELSE pcb[n].st
  <2>2. s \in Early \union {"open", "over"} /\ pcb' = [pcb EXCEPT ![n].st = s]
    BY <1>3, <2>1
  <2> HIDE DEF s
  <2>3. [pcb[n] EXCEPT !.st = s] \in PcbRecord
    BY <2>1, <2>2, PcbWith
  <2>4. /\ pcb' \in [Conns -> PcbRecord] /\ (\A d \in Conns : d # n => pcb'[d] = pcb[d])
        /\ pcb'[n] = [pcb[n] EXCEPT !.st = s]
    BY <1>2, <2>1, <2>2, <2>3
  <2> QED BY <2>4 DEF s
<1>5. /\ pcb'[n].sent = pcb[n].sent /\ pcb'[n].acked = pcb[n].acked /\ pcb'[n].fin = pcb[n].fin
      /\ pcb'[n].st = IF obj[n].pcb THEN "over" ELSE pcb[n].st
  <2>1. pcb[n] \in PcbRecord /\ pcb[n].st \in Early \union {"open", "over"}
    BY <1>1, <1>2
  <2> DEFINE s == IF obj[n].pcb THEN "over" ELSE pcb[n].st
  <2>2. s \in Early \union {"open", "over"} /\ pcb'[n] = [pcb[n] EXCEPT !.st = s]
    BY <1>4, <2>1
  <2> HIDE DEF s
  <2>3. /\ pcb'[n].sent = pcb[n].sent /\ pcb'[n].acked = pcb[n].acked /\ pcb'[n].fin = pcb[n].fin
        /\ pcb'[n].st = s
    BY <2>1, <2>2, PcbWith
  <2> QED BY <2>3 DEF s
<1>6. /\ obj' \in [Conns -> ObjRecord] /\ (\A d \in Conns : d # n => obj'[d] = obj[d])
      /\ obj'[n] = [obj[n] EXCEPT !.live = FALSE, !.pcb = FALSE]
  <2>1. obj \in [Conns -> ObjRecord] /\ obj[n] \in ObjRecord
    BY <1>1, <1>2 DEF TcpTypes
  <2> DEFINE o == [obj[n] EXCEPT !.live = FALSE, !.pcb = FALSE]
  <2>2. o \in ObjRecord
    BY <2>1 DEF ObjRecord
  <2>3. obj' = [obj EXCEPT ![n] = o]
    BY <1>2, <1>3, <2>1
  <2> HIDE DEF o
  <2>4. /\ obj' \in [Conns -> ObjRecord] /\ (\A d \in Conns : d # n => obj'[d] = obj[d])
        /\ obj'[n] = o
    <3>1. n \in Conns /\ obj \in [Conns -> ObjRecord]
      BY <1>2, <2>1
    <3> HIDE TcpFields
    <3> QED BY <2>2, <2>3, <3>1
  <2> QED BY <2>4 DEF o
<1>7. /\ obj'[n].live = FALSE /\ obj'[n].pcb = FALSE /\ obj'[n].released = obj[n].released
      /\ obj'[n].closed = obj[n].closed /\ obj'[n].credit = obj[n].credit
  <2>1. obj[n] \in ObjRecord
    BY <1>1, <1>2
  <2> DEFINE o == [obj[n] EXCEPT !.live = FALSE, !.pcb = FALSE]
  <2>2. /\ o.live = FALSE /\ o.pcb = FALSE /\ o.released = obj[n].released
        /\ o.closed = obj[n].closed /\ o.credit = obj[n].credit
    BY <2>1 DEF ObjRecord
  <2>3. obj'[n] = o
    BY <1>6
  <2> HIDE DEF o
  <2> QED BY <2>2, <2>3
<1>8. obj[n].released /\ ~Current(n) /\ ~Held(n) /\ n # sock.client
  BY <1>1, <1>2, <1>3 DEF Current, LifeOk, Held
<1>9. TcpTypes'
  BY <1>1, <1>2, <1>4, <1>6 DEF TcpTypes, Taking
<1>10. LifeOk(n)'
  BY <1>1, <1>2, <1>3, <1>5, <1>7, <1>8 DEF LifeOk, Called, Current, Held, Leaving, Taking
<1>11. NewsOk(n)'
  BY <1>2, <1>3, <1>5, <1>7 DEF NewsOk, Current
<1>12. FlowOk(n)'
  BY <1>2, <1>3, <1>5, <1>7 DEF FlowOk, Streams, Upcoming, Called, Current, Early
<1>13. \A d \in Conns : d # n => obj'[d] = obj[d] /\ pcb'[d] = pcb[d] /\ QueueSame(d)
  BY <1>2, <1>4, <1>6
<1> QED BY <1>2, <1>8, <1>9, <1>10, <1>11, <1>12, <1>13, OneClientMoves DEF ClientOk, Taking

\* A name that was found, and a connection that is on its way.
LEMMA FoundKeeps ==
  ASSUME TcpInv, NEW e, Taking(e), obj[e.c].live, ~obj[e.c].released, e.ev = "dns",
         events' = Tail(events), UNCHANGED obj,
         \/ pcb' = [pcb EXCEPT ![e.c].st = "syn"] /\ UNCHANGED callback
         \/ Calls("error", e.c, 1) /\ UNCHANGED pcb
  PROVE  TcpInv'
<1> USE TcpFields
<1> DEFINE n == e.c
<1>1. TcpTypes /\ StreamInv
  BY DEF TcpInv
<1>2. /\ n \in Conns /\ events' \in Seq(TcpEvents)
      /\ (\A d : d # n => QueueSame(d)) /\ Evs(n) = Evs(n)' \union {"dns"}
      /\ (OneAnswer(events, n) => OneAnswer(events', n) /\ "dns" \notin Evs(n)')
      /\ (UpFirst(events, n) => UpFirst(events', n))
  BY <1>1, Popped, SMTT(30) DEF Taking, Once
<1>3. /\ LifeOk(n) /\ NewsOk(n) /\ FlowOk(n) /\ Current(n)
      /\ \/ pcb' = [pcb EXCEPT ![n].st = "syn"] /\ UNCHANGED callback
         \/ Calls("error", n, 1) /\ UNCHANGED pcb
  BY <1>2 DEF TcpInv, TcpClientInv, Current
<1> HIDE DEF n
<1>4. pcb[n].st = "asked" /\ OneAnswer(events, n)
  BY <1>1, <1>2, <1>3 DEF NewsOk, Streams, Upcoming, Called, Early
<1>5. Evs(n)' = {}
  BY <1>2, <1>3, <1>4 DEF NewsOk
<1>6. /\ pcb' \in [Conns -> PcbRecord] /\ (\A d \in Conns : d # n => pcb'[d] = pcb[d])
      /\ pcb'[n].sent = pcb[n].sent /\ pcb'[n].acked = pcb[n].acked /\ pcb'[n].fin = pcb[n].fin
      /\ pcb'[n].st = IF callback' = callback THEN "syn" ELSE "asked"
  <2>1. CASE pcb' = [pcb EXCEPT ![n].st = "syn"] /\ UNCHANGED callback
    <3>1. pcb \in [Conns -> PcbRecord] /\ pcb[n] \in PcbRecord
      BY <1>1, <1>2 DEF TcpTypes
    <3>2. [pcb[n] EXCEPT !.st = "syn"] \in PcbRecord
      BY <3>1, PcbWith DEF Early
    <3>3. /\ pcb' \in [Conns -> PcbRecord] /\ (\A d \in Conns : d # n => pcb'[d] = pcb[d])
          /\ pcb'[n] = [pcb[n] EXCEPT !.st = "syn"]
      BY <1>2, <2>1, <3>1, <3>2
    <3> DEFINE p == [pcb[n] EXCEPT !.st = "syn"]
    <3>4. p.sent = pcb[n].sent /\ p.acked = pcb[n].acked /\ p.fin = pcb[n].fin /\ p.st = "syn"
      BY <3>1, PcbWith DEF Early
    <3>5. pcb'[n] = p
      BY <3>3
    <3> HIDE DEF p
    <3> QED BY <2>1, <3>3, <3>4, <3>5
  <2>2. CASE Calls("error", n, 1) /\ UNCHANGED pcb
    <3>1. callback' # callback
      BY <2>2 DEF Calls, Taking
    <3> QED BY <1>1, <1>4, <2>2, <3>1 DEF TcpTypes
  <2> QED BY <1>3, <2>1, <2>2
<1>7. UNCHANGED callback \/ callback' = [at |-> "error", c |-> n, x |-> 1]
  BY <1>3 DEF Calls
<1>8. TcpTypes'
  <2>1. callback' \in CallRecord /\ (callback'.at # "idle" => callback'.c \in Conns)
    BY <1>1, <1>2, <1>7 DEF TcpTypes, CallRecord
  <2> QED BY <1>1, <1>2, <1>6, <2>1 DEF TcpTypes, Taking
<1>9. LifeOk(n)'
  BY <1>1, <1>2, <1>3, <1>4, <1>5, <1>6, <1>7, SMTT(30) DEF LifeOk, Current, Held, Leaving, Taking
<1>10. NewsOk(n)'
  BY <1>2, <1>3, <1>4, <1>5, <1>6 DEF NewsOk, Streams, Upcoming, Called, Current
<1>11. FlowOk(n)'
  <2>1. ~Upcoming(n)' /\ ~Streams(n)'
    BY <1>1, <1>5, <1>6, <1>7 DEF Upcoming, Streams, Called, Taking
  <2> QED BY <1>3, <1>4, <1>6, <2>1 DEF FlowOk, Early
<1>12. \A d \in Conns : d # n => obj'[d] = obj[d] /\ pcb'[d] = pcb[d] /\ QueueSame(d)
  BY <1>2, <1>6
<1>13. callback' # callback => callback'.at = "error" /\ callback'.c = n
  BY <1>7
<1>14. n = sock.client => StreamInv'
  BY <1>1, <1>2, <1>4, <1>6, <1>13, StreamStays DEF Taking, LifeOk, Early
<1> QED BY <1>2, <1>4, <1>8, <1>9, <1>10, <1>11, <1>12, <1>13, <1>14, OneClientMoves DEF ClientOk, Taking

\* The connection came up, or had.
LEMMA UpKeeps ==
  ASSUME TcpInv, NEW e, Taking(e), obj[e.c].live, ~obj[e.c].released, e.ev = "connected",
         events' = Tail(events), UNCHANGED <<obj, pcb>>, Calls("up", e.c, 0)
  PROVE  TcpInv'
<1> USE TcpFields
<1> DEFINE n == e.c
<1>1. TcpTypes /\ StreamInv
  BY DEF TcpInv
<1>2. /\ n \in Conns /\ events' \in Seq(TcpEvents)
      /\ (\A d : d # n => QueueSame(d)) /\ Evs(n) = Evs(n)' \union {"connected"}
      /\ Blocks(events', n) = Blocks(events, n)
      /\ (InOrder(events, n) => InOrder(events', n))
      /\ (OneAnswer(events, n) => OneAnswer(events', n) /\ "connected" \notin Evs(n)')
  BY <1>1, Popped DEF Taking, Once
<1>3. /\ LifeOk(n) /\ NewsOk(n) /\ FlowOk(n) /\ Current(n)
      /\ callback' = [at |-> "up", c |-> n, x |-> 0]
      /\ callback.at = "idle" /\ UNCHANGED <<obj, pcb, sock, reader, made, got>>
  BY <1>2 DEF TcpInv, TcpClientInv, Current, Calls, Taking
<1> HIDE DEF n
<1>4. /\ pcb[n].st \in {"open", "over"} /\ ~obj[n].pcb /\ ~obj[n].closed
      /\ Streams(n) /\ Upcoming(n) /\ OneAnswer(events, n)
  <2>1. pcb[n].st \in {"open", "over"} /\ ~obj[n].pcb /\ OneAnswer(events, n)
    BY <1>1, <1>2, <1>3 DEF NewsOk, Early
  <2>2. ~obj[n].closed
    BY <1>2, <1>3 DEF LifeOk
  <2> QED BY <1>2, <1>3, <2>1, <2>2 DEF Streams, Upcoming
<1>5. /\ Called(n, "up")' /\ Upcoming(n)' /\ (Streams(n)' => Streams(n)) /\ (Current(n)' <=> Current(n))
      /\ "connected" \notin Evs(n)'
  BY <1>2, <1>3, <1>4 DEF Called, Upcoming, Streams, Current
<1>6. TcpTypes'
  <2>1. callback' \in CallRecord /\ (callback'.at # "idle" => callback'.c \in Conns)
    BY <1>2, <1>3 DEF CallRecord
  <2> QED BY <1>1, <1>2, <1>3, <2>1 DEF TcpTypes
<1>7. LifeOk(n)'
  BY <1>1, <1>2, <1>3, <1>4, <1>5 DEF LifeOk, Held, Leaving, Current
<1>8. NewsOk(n)'
  BY <1>2, <1>3, <1>4, <1>5 DEF NewsOk
<1>9. FlowOk(n)'
  BY <1>2, <1>3, <1>4, <1>5 DEF FlowOk
<1>10. \A d \in Conns : d # n => obj'[d] = obj[d] /\ pcb'[d] = pcb[d] /\ QueueSame(d)
  BY <1>2, <1>3
<1>11. callback'.at = "up" /\ callback'.c = n
  BY <1>3
<1>12. n = sock.client => StreamInv'
  BY <1>1, <1>2, <1>3, <1>4, <1>11, StreamStays
<1> QED BY <1>2, <1>3, <1>4, <1>6, <1>7, <1>8, <1>9, <1>10, <1>11, <1>12, OneClientMoves DEF ClientOk

\* The client has its pcb, whatever became of it since.
LEMMA StorePcbKeeps ==
  ASSUME TcpInv, NEW n, n = callback.c, StorePcb
  PROVE  TcpInv'
<1> USE TcpFields
<1>1. /\ TcpTypes /\ StreamInv /\ callback.at = "up" /\ callback' = [at |-> "connect", c |-> n, x |-> 0]
      /\ obj' = [obj EXCEPT ![n].pcb = TRUE] /\ UNCHANGED <<sock, pcb, events, reader, made, got>>
  BY DEF TcpInv, StorePcb, Calls
<1>2. n \in Conns
  BY <1>1 DEF TcpTypes
<1>3. LifeOk(n) /\ NewsOk(n) /\ FlowOk(n) /\ Called(n, "up") /\ Upcoming(n)
  BY <1>1, <1>2 DEF TcpInv, TcpClientInv, Called, Upcoming
<1>4. pcb[n].st \in {"open", "over"} /\ obj[n].live /\ ~obj[n].closed /\ "connected" \notin Evs(n)
  BY <1>1, <1>3 DEF LifeOk
<1>5. /\ obj' \in [Conns -> ObjRecord] /\ (\A d \in Conns : d # n => obj'[d] = obj[d])
      /\ obj'[n].pcb = TRUE /\ obj'[n].live = obj[n].live /\ obj'[n].released = obj[n].released
      /\ obj'[n].closed = obj[n].closed /\ obj'[n].credit = obj[n].credit
  <2>1. obj \in [Conns -> ObjRecord] /\ obj[n] \in ObjRecord
    BY <1>1, <1>2 DEF TcpTypes
  <2> DEFINE o == [obj[n] EXCEPT !.pcb = TRUE]
  <2>2. /\ o \in ObjRecord /\ o.pcb = TRUE /\ o.live = obj[n].live /\ o.released = obj[n].released
        /\ o.closed = obj[n].closed /\ o.credit = obj[n].credit
    BY <2>1 DEF ObjRecord
  <2>3. obj' = [obj EXCEPT ![n] = o] /\ n \in Conns
    BY <1>1, <1>2, <2>1
  <2> HIDE DEF o
  <2> HIDE TcpFields
  <2>4. /\ obj' \in [Conns -> ObjRecord] /\ (\A d \in Conns : d # n => obj'[d] = obj[d])
        /\ obj'[n] = o
    BY <2>1, <2>2, <2>3
  <2> QED BY <2>2, <2>4
<1>6. TcpTypes'
  <2>1. callback' \in CallRecord /\ (callback'.at # "idle" => callback'.c \in Conns)
    BY <1>1, <1>2 DEF CallRecord
  <2> QED BY <1>1, <1>5, <2>1 DEF TcpTypes
<1>7. /\ Evs(n)' = Evs(n) /\ ~Called(n, "up")' /\ ~Upcoming(n)'
      /\ (Streams(n)' <=> Streams(n)) /\ (Current(n)' <=> Current(n))
  BY <1>1, <1>4, <1>5 DEF Evs, Called, Upcoming, Streams, Current
<1>8. LifeOk(n)'
  BY <1>1, <1>3, <1>4, <1>5, <1>7 DEF LifeOk, Held, Leaving
<1>9. NewsOk(n)'
  BY <1>1, <1>3, <1>4, <1>5, <1>7 DEF NewsOk
<1>10. FlowOk(n)'
  BY <1>1, <1>3, <1>4, <1>5, <1>7 DEF FlowOk
<1>11. \A d \in Conns : d # n => obj'[d] = obj[d] /\ pcb'[d] = pcb[d] /\ QueueSame(d)
  BY <1>1, <1>5 DEF QueueSame
<1>12. ASSUME n = sock.client PROVE StreamInv'
  <2>1. /\ Unread' = Unread /\ Pending' = Pending /\ Handed = 0 /\ Handed' = 0
        /\ Called(n, "connect")' /\ ~Called(n, "data")' /\ ~Called(n, "disconnect")'
    BY <1>1, <1>12 DEF Unread, Pending, Handed, Called
  <2>2. pcb[n].acked + Pending = got
    <3>1. got = 0 /\ Unread + Pending + Handed <= obj[n].credit
      BY <1>2, <1>1, <1>3, <1>12 DEF StreamInv
    <3>2. obj[n].credit + pcb[n].acked = 0
      BY <1>2, <1>3, <1>12 DEF FlowOk, LifeOk, Held
    <3>3. /\ Unread \in Nat /\ Pending \in Nat /\ obj[n].credit \in Nat /\ pcb[n].acked \in Nat
      BY <1>1, <1>2
    <3> HIDE TcpFields
    <3> QED BY <2>1, <3>1, <3>2, <3>3
  <2>3. AllCame(n)' <=> AllCame(n)
    BY <1>1, <2>1 DEF AllCame
  <2> QED BY <1>1, <1>2, <1>4, <1>5, <1>7, <1>12, <2>1, <2>2, <2>3 DEF StreamInv, Early
<1>13. callback'.c = n
  BY <1>1
<1> QED BY <1>1, <1>2, <1>3, <1>4, <1>6, <1>8, <1>9, <1>10, <1>11, <1>12, <1>13, OneClientMoves DEF ClientOk

\* A freed pcb is closed, and with it the connection that has its memory: its
\* client has what it had, and is told nothing.
LEMMA CloseFreedKeeps ==
  ASSUME TcpInv, NEW n \in Conns, NEW m \in Conns, n # m,
         "release" \in Evs(n),
         obj' = [obj EXCEPT ![n].pcb = FALSE],
         pcb[m].st \in {"syn", "open"}, pcb' = [pcb EXCEPT ![m].st = "over"],
         UNCHANGED <<sock, events, callback, reader, made, got>>
  PROVE  TcpInv'
<1> USE TcpFields
<1>1. TcpTypes /\ StreamInv /\ LoopInv /\ \A d \in Conns : ClientOk(d)
  BY DEF TcpInv, TcpClientInv, ClientOk
<1>2. /\ obj' \in [Conns -> ObjRecord] /\ (\A d \in Conns : d # n => obj'[d] = obj[d])
      /\ obj'[n].pcb = FALSE /\ obj'[n].live = obj[n].live /\ obj'[n].released = obj[n].released
      /\ obj'[n].closed = obj[n].closed /\ obj'[n].credit = obj[n].credit
  <2>1. obj \in [Conns -> ObjRecord] /\ obj[n] \in ObjRecord
    BY <1>1 DEF TcpTypes
  <2> DEFINE o == [obj[n] EXCEPT !.pcb = FALSE]
  <2>2. /\ o \in ObjRecord /\ o.pcb = FALSE /\ o.live = obj[n].live /\ o.released = obj[n].released
        /\ o.closed = obj[n].closed /\ o.credit = obj[n].credit
    BY <2>1 DEF ObjRecord
  <2>3. obj' = [obj EXCEPT ![n] = o] /\ n \in Conns
    BY <2>1
  <2> HIDE DEF o
  <2> HIDE TcpFields
  <2>4. /\ obj' \in [Conns -> ObjRecord] /\ (\A d \in Conns : d # n => obj'[d] = obj[d])
        /\ obj'[n] = o
    BY <2>1, <2>2, <2>3
  <2> QED BY <2>2, <2>4
<1>3. /\ pcb' \in [Conns -> PcbRecord] /\ (\A d \in Conns : d # m => pcb'[d] = pcb[d])
      /\ pcb'[m].sent = pcb[m].sent /\ pcb'[m].acked = pcb[m].acked /\ pcb'[m].fin = pcb[m].fin
      /\ pcb'[m].st = "over"
  <2>1. pcb \in [Conns -> PcbRecord] /\ pcb[m] \in PcbRecord
    BY <1>1 DEF TcpTypes
  <2> DEFINE p == [pcb[m] EXCEPT !.st = "over"]
  <2>2. p \in PcbRecord /\ p.st = "over" /\ p.sent = pcb[m].sent /\ p.acked = pcb[m].acked /\ p.fin = pcb[m].fin
    BY <2>1 DEF PcbRecord
  <2>3. pcb' = [pcb EXCEPT ![m] = p] /\ m \in Conns
    BY <2>1
  <2> HIDE DEF p
  <2> HIDE TcpFields
  <2>4. /\ pcb' \in [Conns -> PcbRecord] /\ (\A d \in Conns : d # m => pcb'[d] = pcb[d])
        /\ pcb'[m] = p
    BY <2>1, <2>2, <2>3
  <2> QED BY <2>2, <2>4
<1>4. /\ TcpTypes'
      /\ \A d : QueueSame(d) /\ Evs(d)' = Evs(d) /\ (Held(d)' <=> Held(d)) /\ (Upcoming(d)' <=> Upcoming(d))
      /\ \A d, at : Called(d, at)' <=> Called(d, at)
  BY <1>1, <1>2, <1>3 DEF TcpTypes, QueueSame, Evs, Held, Leaving, Upcoming, Called
<1>5. ASSUME NEW d \in Conns, d # n, d # m PROVE ClientOk(d)'
  <2>1. ClientOk(d) /\ obj'[d] = obj[d] /\ pcb'[d] = pcb[d] /\ made' \in Nat /\ made' >= made
    BY <1>1, <1>2, <1>3, <1>5
  <2> QED BY <1>1, <1>4, <2>1, Untouched
<1>6. ClientOk(n)'
  <2>1. LifeOk(n) /\ NewsOk(n) /\ FlowOk(n) /\ pcb'[n] = pcb[n]
    BY <1>1, <1>3 DEF ClientOk
  <2>2. ~Current(n)' /\ ~Streams(n)' /\ ~Current(n)
    BY <1>2, <2>1 DEF LifeOk, Current, Streams
  <2>3. LifeOk(n)'
    BY <1>2, <1>4, <2>1, <2>2 DEF LifeOk
  <2>4. NewsOk(n)'
    BY <1>2, <1>4, <2>1, <2>2 DEF NewsOk
  <2>5. FlowOk(n)'
    BY <1>2, <2>1, <2>2 DEF FlowOk
  <2> QED BY <2>3, <2>4, <2>5 DEF ClientOk
<1>7. ClientOk(m)'
  <2>1. LifeOk(m) /\ NewsOk(m) /\ FlowOk(m) /\ obj'[m] = obj[m] /\ (Current(m)' <=> Current(m))
    BY <1>1, <1>2 DEF ClientOk, Current
  <2>2. /\ Streams(m)' => Streams(m)
        /\ Current(m) => Evs(m) \subseteq {"connected", "recv", "fin"}
    BY <1>3, <1>4, <2>1 DEF Streams, NewsOk
  <2>3. LifeOk(m)'
    BY <1>3, <1>4, <2>1 DEF LifeOk
  <2>4. NewsOk(m)'
    BY <1>3, <1>4, <2>1, <2>2 DEF NewsOk
  <2>5. FlowOk(m)'
    BY <1>3, <1>4, <2>1, <2>2 DEF FlowOk, Early
  <2> QED BY <2>3, <2>4, <2>5 DEF ClientOk
<1>8. LoopInv'
  BY <1>1 DEF LoopInv
<1>9. StreamInv'
  <2>1. CASE sock.client = 0
    BY <1>1, <2>1, StreamStays
  <2>2. CASE sock.client # 0
    <3>1. sock.client \in Conns
      BY <1>1, <2>2 DEF StreamInv
    <3>2. sock.client # n
      <4>1. LifeOk(n)
        BY <1>1 DEF ClientOk
      <4> QED BY <4>1 DEF LifeOk, Current, Held
    <3> QED BY <1>1, <1>2, <1>3, <1>4, <3>1, <3>2, StreamStays DEF Early
  <2> QED BY <2>1, <2>2
<1> QED BY <1>4, <1>5, <1>6, <1>7, <1>8, <1>9 DEF TcpInv, TcpClientInv, ClientOk

\* What a peer sent is credited, and called back.
LEMMA CreditedKeeps ==
  ASSUME TcpInv, NEW e, Taking(e), obj[e.c].live, ~obj[e.c].released, e.ev = "recv",
         events' = Tail(events), UNCHANGED pcb,
         obj' = [obj EXCEPT ![e.c].credit = @ + 1], Calls("data", e.c, e.x)
  PROVE  TcpInv'
<1> USE TcpFields
<1> DEFINE n == e.c
<1>1. TcpTypes /\ StreamInv
  BY DEF TcpInv
<1>2. /\ n \in Conns /\ events' \in Seq(TcpEvents) /\ e.x \in Nat
      /\ (\A d : d # n => QueueSame(d)) /\ Evs(n) = Evs(n)' \union {"recv"}
      /\ Blocks(events, n) = Blocks(events', n) \union {e.x}
      /\ (InOrder(events, n) => InOrder(events', n) /\ \A x \in Blocks(events', n) : e.x < x)
      /\ (OneAnswer(events, n) => OneAnswer(events', n)) /\ ~UpFirst(events, n)
  <2>1. e \in TcpEvents
    BY <1>1, Popped DEF Taking
  <2>2. e.x \in Nat
    BY <2>1 DEF TcpEvents
  <2> QED BY <1>1, <2>2, Popped DEF Taking
<1> DEFINE x == e.x
           k == obj[n].credit + 1
<1>3. /\ LifeOk(n) /\ NewsOk(n) /\ FlowOk(n) /\ Current(n)
      /\ obj' = [obj EXCEPT ![n].credit = k] /\ callback' = [at |-> "data", c |-> n, x |-> x]
      /\ callback.at = "idle" /\ UNCHANGED <<pcb, sock, reader, made, got>>
  <2>1. obj' = [obj EXCEPT ![n].credit = k]
    OBVIOUS
  <2> HIDE DEF k
  <2> QED BY <1>2, <2>1 DEF TcpInv, TcpClientInv, Current, Calls, Taking
<1>4. k = obj[n].credit + 1 /\ k \in Nat /\ x = e.x
  BY <1>1, <1>2, SMTT(30)
<1> HIDE DEF n, x, k
<1>5. /\ pcb[n].st \in {"open", "over"} /\ obj[n].pcb /\ ~obj[n].closed /\ Streams(n) /\ "connected" \notin Evs(n)
      /\ Evs(n) \subseteq {"connected", "recv", "fin"} /\ OneAnswer(events, n) /\ ~Upcoming(n)
  <2>1. pcb[n].st \in {"open", "over"} /\ "connected" \notin Evs(n)
    BY <1>1, <1>2, <1>3 DEF NewsOk, Early
  <2>2. Streams(n) /\ ~Upcoming(n)
    BY <1>2, <1>3, <2>1 DEF Streams, Upcoming, Called
  <2>3. obj[n].pcb /\ Evs(n) \subseteq {"connected", "recv", "fin"} /\ OneAnswer(events, n)
    BY <1>3, <2>2 DEF NewsOk
  <2> QED BY <1>3, <2>1, <2>2, <2>3 DEF LifeOk
<1>6. /\ obj' \in [Conns -> ObjRecord] /\ (\A d \in Conns : d # n => obj'[d] = obj[d])
      /\ obj'[n].pcb = obj[n].pcb /\ obj'[n].live = obj[n].live /\ obj'[n].released = obj[n].released
      /\ obj'[n].closed = obj[n].closed /\ obj'[n].credit = k
  <2>1. obj \in [Conns -> ObjRecord] /\ obj[n] \in ObjRecord
    BY <1>1, <1>2 DEF TcpTypes
  <2> DEFINE o == [obj[n] EXCEPT !.credit = k]
  <2>2. /\ o \in ObjRecord /\ o.pcb = obj[n].pcb /\ o.live = obj[n].live /\ o.released = obj[n].released
        /\ o.closed = obj[n].closed /\ o.credit = k
    BY <1>4, <2>1 DEF ObjRecord
  <2>3. obj' = [obj EXCEPT ![n] = o] /\ n \in Conns
    BY <1>2, <1>3, <2>1
  <2> HIDE DEF o
  <2> HIDE TcpFields
  <2>4. /\ obj' \in [Conns -> ObjRecord] /\ (\A d \in Conns : d # n => obj'[d] = obj[d])
        /\ obj'[n] = o
    BY <2>1, <2>2, <2>3
  <2> QED BY <2>2, <2>4
<1>7. TcpTypes'
  <2>1. callback' \in CallRecord /\ (callback'.at # "idle" => callback'.c \in Conns)
    BY <1>2, <1>3, <1>4 DEF CallRecord
  <2> QED BY <1>1, <1>2, <1>3, <1>6, <2>1 DEF TcpTypes
<1> DEFINE a == obj[n].credit + pcb[n].acked
<1>8. /\ a = obj[n].credit + pcb[n].acked /\ a \in Nat /\ a + 1 = k + pcb[n].acked
      /\ Blocks(events, n) = (a + 1) .. pcb[n].sent
      /\ InOrder(events, n) /\ ("fin" \in Evs(n) => pcb[n].fin)
      /\ pcb[n].sent \in Nat /\ pcb[n].acked \in Nat /\ pcb[n].sent <= pcb[n].acked + RxWindow
  <2>1. obj[n].credit \in Nat /\ pcb[n].acked \in Nat /\ pcb[n].sent \in Nat
    BY <1>1, <1>2
  <2>2. /\ Blocks(events, n) = (a + 1) .. pcb[n].sent /\ pcb[n].sent <= pcb[n].acked + RxWindow
        /\ InOrder(events, n) /\ ("fin" \in Evs(n) => pcb[n].fin)
    BY <1>3, <1>5 DEF FlowOk
  <2>3. a \in Nat /\ a + 1 = k + pcb[n].acked
    <3>1. k = obj[n].credit + 1 /\ k \in Nat
      BY <1>4
    <3> HIDE TcpFields
    <3> QED BY <2>1, <3>1
  <2> QED BY <2>1, <2>2, <2>3
<1> HIDE DEF a
<1>9. x = a + 1 /\ a + 1 <= pcb[n].sent /\ Blocks(events', n) = (a + 1 + 1) .. pcb[n].sent
  <2> HIDE TcpFields
  <2> DEFINE B == Blocks(events', n)
  <2>1. /\ B \union {x} = (a + 1) .. pcb[n].sent /\ (\A y \in B : x < y) /\ x \in Nat
    BY <1>2, <1>4, <1>8
  <2> HIDE DEF B
  <2>2. x \in (a + 1) .. pcb[n].sent /\ (\A y \in B : y \in (a + 1) .. pcb[n].sent)
    BY <2>1
  <2>3. a + 1 <= pcb[n].sent
    BY <1>8, <2>2
  <2>4. a + 1 \in (a + 1) .. pcb[n].sent
    BY <1>8, <2>3
  <2>5. a + 1 = x \/ a + 1 \in B
    BY <2>1, <2>4
  <2>6. x = a + 1
    BY <1>8, <2>1, <2>2, <2>5
  <2>7. \A y : y \in B <=> y \in (a + 1 + 1) .. pcb[n].sent
    <3>1. ASSUME NEW y \in B PROVE y \in (a + 1 + 1) .. pcb[n].sent
      <4>1. y \in (a + 1) .. pcb[n].sent /\ a + 1 < y
        BY <2>1, <2>2, <2>6
      <4> QED BY <1>8, <4>1
    <3>2. ASSUME NEW y \in (a + 1 + 1) .. pcb[n].sent PROVE y \in B
      <4>1. y \in (a + 1) .. pcb[n].sent /\ y # a + 1
        BY <1>8
      <4> QED BY <2>1, <2>6, <4>1
    <3> QED BY <3>1, <3>2
  <2> QED BY <2>3, <2>6, <2>7 DEF B
<1>16. (Streams(n)' => Streams(n)) /\ (Current(n)' <=> Current(n)) /\ ~Upcoming(n)'
  BY <1>2, <1>3, <1>5, <1>6 DEF Streams, Upcoming, Called, Current
<1>10. LifeOk(n)'
  BY <1>1, <1>2, <1>3, <1>5, <1>6 DEF LifeOk, Called, Current, Held, Leaving
<1>11. NewsOk(n)'
  BY <1>2, <1>3, <1>5, <1>6, <1>16 DEF NewsOk
<1>12. FlowOk(n)'
  <2>1. InOrder(events', n) /\ ("fin" \in Evs(n)' => pcb[n].fin)
    BY <1>2, <1>8
  <2> QED BY <1>3, <1>5, <1>6, <1>8, <1>9, <1>16, <2>1 DEF FlowOk, Early
<1>13. \A d \in Conns : d # n => obj'[d] = obj[d] /\ pcb'[d] = pcb[d] /\ QueueSame(d)
  BY <1>2, <1>3, <1>6
<1>14. ASSUME n = sock.client PROVE StreamInv'
  <2>1. /\ Unread' = Unread /\ Pending' = Pending /\ Handed = 0 /\ Handed' = 1
        /\ ~Called(n, "connect") /\ ~Called(n, "disconnect")' /\ callback'.x = x
    BY <1>3, <1>14 DEF Unread, Pending, Handed, Called
  <2>2. /\ sock.state # "connecting" /\ pcb[n].acked + Pending = got
        /\ Unread + Pending + Handed <= obj[n].credit
        /\ (sock.state = "open" => Unread + Pending + Handed = obj[n].credit)
    BY <1>1, <1>2, <1>5, <1>14, <2>1 DEF StreamInv
  <2>3. AllCame(n)' <=> AllCame(n)
    BY <1>3, <2>1 DEF AllCame
  <2>4. /\ Unread + Pending + 1 <= k
        /\ (sock.state = "open" => Unread + Pending + 1 = k /\ x = got + Unread + 1)
    <3>1. Unread \in Nat /\ Pending \in Nat /\ obj[n].credit \in Nat /\ got \in Nat
      BY <1>1, <1>2
    <3> HIDE TcpFields
    <3>2. Unread + Pending <= obj[n].credit /\ (sock.state = "open" => Unread + Pending = obj[n].credit)
      BY <2>1, <2>2, <3>1
    <3>3. Unread + Pending + 1 <= k /\ (sock.state = "open" => Unread + Pending + 1 = k)
      BY <1>4, <3>1, <3>2
    <3>4. ASSUME sock.state = "open" PROVE x = got + Unread + 1
      BY <1>4, <1>8, <1>9, <2>2, <3>1, <3>2, <3>4
    <3> QED BY <3>3, <3>4
  <2> QED BY <1>1, <1>2, <1>3, <1>5, <1>6, <1>14, <1>16, <2>1, <2>2, <2>3, <2>4 DEF StreamInv, Early
<1>15. callback'.c = n
  BY <1>3
<1> QED BY <1>2, <1>3, <1>5, <1>7, <1>10, <1>11, <1>12, <1>13, <1>14, <1>15, OneClientMoves DEF ClientOk

\* The peer has ended its stream, and the callback comes after all it sent.
LEMMA EndedKeeps ==
  ASSUME TcpInv, NEW e, Taking(e), obj[e.c].live, ~obj[e.c].released, e.ev = "fin", Shut(e.c),
         obj' = [obj EXCEPT ![e.c].closed = TRUE, ![e.c].pcb = FALSE], Calls("disconnect", e.c, 0)
  PROVE  TcpInv'
<1> USE TcpFields
<1> DEFINE n == e.c
<1>1. TcpTypes /\ StreamInv
  BY DEF TcpInv
<1>2. /\ n \in Conns /\ events' \in Seq(TcpEvents)
      /\ (\A d : d # n => QueueSame(d)) /\ Evs(n)' \subseteq Evs(n) \cap {"release"} /\ "fin" \in Evs(n)
  BY <1>1, PoppedAll DEF Taking, Shut
<1>3. /\ LifeOk(n) /\ NewsOk(n) /\ FlowOk(n) /\ Current(n)
      /\ obj' = [obj EXCEPT ![n].closed = TRUE, ![n].pcb = FALSE]
      /\ pcb' = [pcb EXCEPT ![n].st = IF obj[n].pcb THEN "over" ELSE @]
      /\ callback' = [at |-> "disconnect", c |-> n, x |-> 0]
      /\ callback.at = "idle" /\ UNCHANGED <<sock, reader, made, got>>
  BY <1>2 DEF TcpInv, TcpClientInv, Shut, Calls, Current, Taking
<1>4. /\ (InOrder(events, n) => Blocks(events, n) = {}) /\ ~UpFirst(events, n)
  <2> DEFINE q == Tail(events)
  <2>1. events \in Seq(TcpEvents) /\ events # <<>> /\ e = Head(events) /\ e.ev = "fin" /\ n = e.c
    BY <1>1 DEF TcpTypes, Taking
  <2> HIDE DEF n
  <2>2. /\ Blocks(events, n) = Blocks(Tail(events), n) \union
             IF n = Head(events).c /\ Head(events).ev = "recv" THEN {Head(events).x} ELSE {}
        /\ (InOrder(events, n) /\ n = Head(events).c /\ Head(events).ev = "fin" => Blocks(Tail(events), n) = {})
        /\ (UpFirst(events, n) /\ n = Head(events).c => Head(events).ev \notin {"recv", "fin"})
    BY <2>1, QueueTaken
  <2> QED BY <2>1, <2>2
<1> HIDE DEF n
<1>5. pcb[n].st \in {"open", "over"} /\ obj[n].pcb /\ pcb[n].fin /\ "release" \notin Evs(n) /\ Streams(n) /\ ~Upcoming(n)
  <2>1. pcb[n].st \in {"open", "over"} /\ "connected" \notin Evs(n)
    BY <1>1, <1>2, <1>3, <1>4 DEF NewsOk, Early
  <2>2. Streams(n) /\ ~Upcoming(n)
    BY <1>2, <1>3, <2>1 DEF Streams, Upcoming, Called
  <2>3. obj[n].pcb /\ pcb[n].fin
    BY <1>2, <1>3, <2>2 DEF NewsOk, FlowOk
  <2> QED BY <1>3, <2>1, <2>2, <2>3 DEF LifeOk, Current
<1>6. /\ pcb' \in [Conns -> PcbRecord] /\ (\A d \in Conns : d # n => pcb'[d] = pcb[d])
      /\ pcb'[n].sent = pcb[n].sent /\ pcb'[n].acked = pcb[n].acked /\ pcb'[n].fin = pcb[n].fin
      /\ pcb'[n].st = "over"
  <2>1. pcb \in [Conns -> PcbRecord] /\ pcb[n] \in PcbRecord
    BY <1>1, <1>2 DEF TcpTypes
  <2> DEFINE p == [pcb[n] EXCEPT !.st = "over"]
  <2>2. p \in PcbRecord /\ p.st = "over" /\ p.sent = pcb[n].sent /\ p.acked = pcb[n].acked /\ p.fin = pcb[n].fin
    BY <2>1 DEF PcbRecord
  <2>3. pcb' = [pcb EXCEPT ![n] = p] /\ n \in Conns
    BY <1>2, <1>3, <1>5, <2>1
  <2> HIDE DEF p
  <2> HIDE TcpFields
  <2>4. /\ pcb' \in [Conns -> PcbRecord] /\ (\A d \in Conns : d # n => pcb'[d] = pcb[d])
        /\ pcb'[n] = p
    BY <2>1, <2>2, <2>3
  <2> QED BY <2>2, <2>4
<1>7. /\ obj' \in [Conns -> ObjRecord] /\ (\A d \in Conns : d # n => obj'[d] = obj[d])
      /\ obj'[n].pcb = FALSE /\ obj'[n].live = obj[n].live /\ obj'[n].released = obj[n].released
      /\ obj'[n].closed = TRUE /\ obj'[n].credit = obj[n].credit
  <2>1. obj \in [Conns -> ObjRecord] /\ obj[n] \in ObjRecord
    BY <1>1, <1>2 DEF TcpTypes
  <2> DEFINE o == [obj[n] EXCEPT !.closed = TRUE, !.pcb = FALSE]
  <2>2. /\ o \in ObjRecord /\ o.pcb = FALSE /\ o.live = obj[n].live /\ o.released = obj[n].released
        /\ o.closed = TRUE /\ o.credit = obj[n].credit
    BY <2>1 DEF ObjRecord
  <2>3. obj' = [obj EXCEPT ![n] = o] /\ n \in Conns
    BY <1>2, <1>3, <2>1
  <2> HIDE DEF o
  <2> HIDE TcpFields
  <2>4. /\ obj' \in [Conns -> ObjRecord] /\ (\A d \in Conns : d # n => obj'[d] = obj[d])
        /\ obj'[n] = o
    BY <2>1, <2>2, <2>3
  <2> QED BY <2>2, <2>4
<1>8. TcpTypes'
  <2>1. callback' \in CallRecord /\ (callback'.at # "idle" => callback'.c \in Conns)
    BY <1>2, <1>3 DEF CallRecord
  <2> QED BY <1>1, <1>2, <1>3, <1>6, <1>7, <2>1 DEF TcpTypes
<1>9. EventsOf(events', n) = {} /\ OneAnswer(events', n) /\ UpFirst(events', n)
  <2>1. EventsOf(events', n) = {}
    BY <1>2, <1>5 DEF Evs
  <2> QED BY <2>1, NothingQueued
<1>16. Evs(n)' = {} /\ ~Upcoming(n)' /\ ~Streams(n)'
  BY <1>3, <1>6, <1>9 DEF Evs, Upcoming, Called, Streams
<1>10. LifeOk(n)'
  BY <1>1, <1>2, <1>3, <1>5, <1>6, <1>7, <1>9 DEF LifeOk, Called, Current, Held, Leaving, Evs
<1>11. NewsOk(n)'
  BY <1>6, <1>9, <1>16 DEF NewsOk
<1>12. FlowOk(n)'
  BY <1>3, <1>5, <1>6, <1>7, <1>16 DEF FlowOk, Early
<1>13. \A d \in Conns : d # n => obj'[d] = obj[d] /\ pcb'[d] = pcb[d] /\ QueueSame(d)
  BY <1>2, <1>6, <1>7
<1>14. ASSUME n = sock.client PROVE StreamInv'
  <2>1. /\ Unread' = Unread /\ Pending' = Pending /\ Handed = 0 /\ Handed' = 0
        /\ ~Called(n, "connect") /\ ~Called(n, "data")'
    BY <1>3, <1>14 DEF Unread, Pending, Handed, Called
  <2>2. AllCame(n) => got + Unread = pcb[n].sent
    BY DEF AllCame
  <2>3. /\ sock.state # "connecting" /\ pcb[n].acked + Pending = got
        /\ (sock.state = "open" => Unread + Pending + Handed = obj[n].credit)
        /\ (sock.state = "closed" /\ sock.err = 0 => AllCame(n)) /\ sock.state # "idle"
    BY <1>1, <1>2, <1>5, <1>14, <2>1, <2>2 DEF StreamInv
  <2>4. sock.err = 0 => AllCame(n)'
    <3>1. SUFFICES ASSUME sock.err = 0 PROVE got + Unread = pcb[n].sent
      BY <1>3, <1>5, <1>6, <1>7, <2>1 DEF AllCame
    <3>8. sock.state = "open" \/ AllCame(n)
      BY <1>1, <2>3, <3>1
    <3>2. SUFFICES ASSUME sock.state = "open" PROVE got + Unread = pcb[n].sent
      BY <2>2, <3>8
    <3>3. /\ Unread \in Nat /\ Pending \in Nat /\ obj[n].credit \in Nat /\ got \in Nat
          /\ pcb[n].acked \in Nat /\ pcb[n].sent \in Nat
      BY <1>1, <1>2
    <3>4. (obj[n].credit + pcb[n].acked + 1) .. pcb[n].sent = {} /\ obj[n].credit + pcb[n].acked <= pcb[n].sent
      BY <1>3, <1>4, <1>5 DEF FlowOk
    <3> HIDE TcpFields
    <3> DEFINE a == obj[n].credit + pcb[n].acked
               s == pcb[n].sent
    <3>5. (a + 1) .. s = {} /\ a <= s /\ a \in Nat /\ s \in Nat
      BY <3>3, <3>4
    <3> HIDE DEF a, s
    <3>6. a = s
      <4>1. ~(a + 1 <= s)
        <5>1. a + 1 <= s => a + 1 \in (a + 1) .. s
          BY <3>5
        <5> QED BY <3>5, <5>1
      <4> QED BY <3>5, <4>1
    <3>7. obj[n].credit + pcb[n].acked = pcb[n].sent
      BY <3>6 DEF a, s
    <3> QED BY <2>1, <2>3, <3>2, <3>3, <3>7
  <2> QED BY <1>1, <1>2, <1>3, <1>5, <1>6, <1>7, <1>14, <1>16, <2>1, <2>3, <2>4, SMTT(30) DEF StreamInv, Early
<1>15. callback'.c = n
  BY <1>3
<1> QED BY <1>2, <1>3, <1>5, <1>8, <1>10, <1>11, <1>12, <1>13, <1>14, <1>15, OneClientMoves DEF ClientOk

\* A connection that broke is told of.
LEMMA ToldKeeps ==
  ASSUME TcpInv, NEW e, Taking(e), obj[e.c].live, ~obj[e.c].released, e.ev = "error",
         events' = Tail(events), UNCHANGED <<obj, pcb>>, Calls("error", e.c, e.x)
  PROVE  TcpInv'
<1> USE TcpFields
<1> DEFINE n == e.c
           x == e.x
<1>1. TcpTypes /\ StreamInv
  BY DEF TcpInv
<1>2. /\ n \in Conns /\ events' \in Seq(TcpEvents) /\ x \in Nat
      /\ (\A d : d # n => QueueSame(d)) /\ Evs(n) = Evs(n)' \union {"error"}
      /\ Blocks(events', n) = Blocks(events, n)
      /\ (InOrder(events, n) => InOrder(events', n))
      /\ (OneAnswer(events, n) => OneAnswer(events', n))
      /\ (UpFirst(events, n) => UpFirst(events', n))
  <2>1. e \in TcpEvents
    BY <1>1, Popped DEF Taking
  <2>2. e.x \in Nat
    BY <2>1 DEF TcpEvents
  <2> QED BY <1>1, <2>2, Popped, SMTT(30) DEF Taking
<1>3. /\ LifeOk(n) /\ NewsOk(n) /\ FlowOk(n) /\ Current(n)
      /\ callback' = [at |-> "error", c |-> n, x |-> x]
      /\ callback.at = "idle" /\ UNCHANGED <<obj, pcb, sock, reader, made, got>>
  BY <1>2 DEF TcpInv, TcpClientInv, Current, Calls, Taking
<1> HIDE DEF n, x
<1>4. pcb[n].st = "over"
  BY <1>1, <1>2, <1>3 DEF NewsOk, Streams, Upcoming, Called, Early
<1>5. TcpTypes'
  <2>1. callback' \in CallRecord /\ (callback'.at # "idle" => callback'.c \in Conns)
    BY <1>2, <1>3 DEF CallRecord
  <2> QED BY <1>1, <1>2, <1>3, <2>1 DEF TcpTypes
<1>12. (Current(n)' <=> Current(n)) /\ ~Streams(n)' /\ (Upcoming(n)' => Upcoming(n))
  <2>1. (Streams(n)' => Streams(n)) /\ (Current(n)' <=> Current(n)) /\ (Upcoming(n)' => Upcoming(n))
    BY <1>2, <1>3 DEF Streams, Upcoming, Called, Current
  <2>2. ~Streams(n)
    BY <1>2, <1>3 DEF NewsOk
  <2> QED BY <2>1, <2>2
<1>6. LifeOk(n)'
  BY <1>1, <1>2, <1>3, <1>4 DEF LifeOk, Called, Current, Held, Leaving
<1>7. NewsOk(n)'
  BY <1>2, <1>3, <1>4 DEF NewsOk, Streams, Upcoming, Called, Current
<1>8. FlowOk(n)'
  BY <1>3, <1>12 DEF FlowOk
<1>9. \A d \in Conns : d # n => obj'[d] = obj[d] /\ pcb'[d] = pcb[d] /\ QueueSame(d)
  BY <1>2, <1>3
<1>10. callback'.at = "error" /\ callback'.c = n
  BY <1>3
<1>11. n = sock.client => StreamInv'
  BY <1>1, <1>2, <1>3, <1>10, <1>12, StreamStays
<1> QED BY <1>2, <1>3, <1>4, <1>5, <1>6, <1>7, <1>8, <1>9, <1>10, <1>11, OneClientMoves DEF ClientOk

LEMMA HandleEventKeeps ==
  ASSUME TcpInv, HandleEvent
  PROVE  TcpInv'
<1> DEFINE e == Head(events)
           o == obj[e.c]
           Drops == events' = Tail(events) /\ UNCHANGED <<obj, pcb, callback>>
<1>1. Taking(e)
  BY DEF HandleEvent, Taking
<1>2. TcpTypes
  BY DEF TcpInv
<1>3. e \in TcpEvents /\ e.c \in Conns
  <2>1. e \in TcpEvents
    BY <1>1, <1>2, QueueTaken DEF Taking, TcpTypes
  <2> QED BY <2>1 DEF TcpEvents
<1>4. CASE ~o.live \/ (o.released /\ e.ev # "release")
  <2>1. Drops
    BY <1>4 DEF HandleEvent
  <2> QED BY <1>1, <1>4, <2>1, DroppedKeeps
<1>5. CASE o.live /\ e.ev = "release"
  BY <1>1, <1>5, FreedKeeps DEF HandleEvent
<1>6. CASE o.live /\ ~o.released /\ e.ev = "dns"
  BY <1>1, <1>6, FoundKeeps DEF HandleEvent
<1>7. CASE o.live /\ ~o.released /\ e.ev = "connected"
  BY <1>1, <1>7, UpKeeps DEF HandleEvent
<1>8. CASE o.live /\ ~o.released /\ e.ev = "recv"
  <2>1. CASE ~o.closed
    BY <1>1, <1>8, <2>1, CreditedKeeps DEF HandleEvent
  <2>2. CASE o.closed
    <3>1. LifeOk(e.c) /\ e.ev \in Evs(e.c)
      <4>1. e.ev \in Evs(e.c)
        BY <1>1, <1>2, QueueTaken DEF Evs, Taking, TcpTypes
      <4> QED BY <1>3, <4>1 DEF TcpInv, TcpClientInv
    <3> QED BY <1>8, <2>2, <3>1 DEF LifeOk
  <2> QED BY <2>1, <2>2
<1>9. CASE o.live /\ ~o.released /\ e.ev = "fin"
  BY <1>1, <1>9, EndedKeeps DEF HandleEvent
<1>10. CASE o.live /\ ~o.released /\ e.ev = "error"
  BY <1>1, <1>10, ToldKeeps DEF HandleEvent
<1>11. e.ev \in {"dns", "connected", "recv", "fin", "error", "release"}
  BY <1>3 DEF TcpEvents
<1> QED BY <1>4, <1>5, <1>6, <1>7, <1>8, <1>9, <1>10, <1>11

\* A callback leaves all but the connection and itself alone.
LEMMA CallbackKeeps ==
  ASSUME TcpInv, UNCHANGED callKeeps, callback.at \notin {"idle", "up"}, callback' \in CallRecord,
         callback'.at = "idle" \/ (callback'.at \notin {"up", "connect", "data"} /\ callback'.c = callback.c),
         sock' \in TcpRecord, sock'.client = sock.client,
         \/ sock' = sock
         \/ sock.client = callback.c /\ (reader.at \in {"start", "failed"} => sock'.state = "connecting")
  PROVE  TcpTypes' /\ TcpClientInv' /\ LoopInv'
<1> USE TcpFields
<1>1. TcpTypes /\ LoopInv /\ callback.c \in Conns /\ UNCHANGED <<obj, pcb, events, reader, made, got>>
  BY DEF TcpInv, TcpTypes, callKeeps
<1>2. TcpTypes'
  BY <1>1 DEF TcpTypes
<1>3. ASSUME NEW n \in Conns PROVE ClientOk(n)'
  <2>1. ClientOk(n) /\ QueueSame(n) /\ (Held(n)' <=> Held(n))
    BY <1>1 DEF TcpInv, TcpClientInv, ClientOk, QueueSame, Held, Leaving
  <2>2. CallFits(n) /\ ~Called(n, "up")
    BY <1>1, <2>1 DEF ClientOk, LifeOk, CallFits, Called
  <2> QED BY <1>1, <2>1, <2>2, Untouched
<1>4. LoopInv'
  BY <1>1 DEF LoopInv
<1> QED BY <1>2, <1>3, <1>4 DEF TcpClientInv, ClientOk

\* What a callback finds: while the reader starts a client none comes for it.
LEMMA NoneYet ==
  ASSUME TcpInv, callback.at # "idle", sock.client = callback.c
  PROVE  reader.at \notin {"start", "failed"} /\ sock.client \in Conns /\ sock.client # 0
<1> USE TcpFields
<1>1. TcpTypes /\ LoopInv /\ callback.c \in Conns
  BY DEF TcpInv, TcpTypes
<1>2. LifeOk(callback.c)
  BY <1>1 DEF TcpInv, TcpClientInv
<1> QED BY <1>1, <1>2 DEF LoopInv, LifeOk

LEMMA on_connectKeeps ==
  ASSUME TcpInv, on_connect
  PROVE  TcpInv'
<1> USE TcpFields
<1>1. TcpTypes /\ StreamInv /\ callback.at = "connect" /\ callback' = NoCallback /\ UNCHANGED callKeeps
  BY DEF TcpInv, on_connect
<1>2. callback' \in CallRecord /\ callback'.at = "idle" /\ callback'.c = 0
  BY <1>1 DEF CallRecord, NoCallback
<1>3. CASE Mine /\ sock.state = "connecting"
  <2>1. sock' = [sock EXCEPT !.state = "open"] /\ sock \in TcpRecord
    BY <1>1, <1>3 DEF on_connect, TcpTypes
  <2>2. /\ sock' \in TcpRecord /\ sock'.client = sock.client /\ sock'.state = "open"
        /\ sock'.err = sock.err /\ sock'.rx = sock.rx
    BY <2>1 DEF TcpRecord
  <2>3. sock.client = callback.c
    BY <1>3 DEF Mine
  <2>4. reader.at \notin {"start", "failed"} /\ sock.client \in Conns /\ sock.client # 0
    BY <1>1, <2>3, NoneYet
  <2>5. TcpTypes' /\ TcpClientInv' /\ LoopInv'
    BY <1>1, <1>2, <2>2, <2>3, <2>4, CallbackKeeps
  <2>6. StreamInv'
    <3>1. UNCHANGED <<obj, pcb, events, reader, made, got>>
      BY <1>1 DEF callKeeps
    <3>2. /\ Unread' = Unread /\ Pending' = Pending /\ Handed' = 0 /\ Handed = 0
          /\ ~Called(sock.client, "data")' /\ ~Called(sock.client, "disconnect")'
      BY <1>1, <1>2, <2>2, <3>1 DEF Unread, Pending, Handed, Called
    <3>3. pcb[sock.client].st \in {"open", "over"}
      <4>1. LifeOk(callback.c)
        BY <1>1, <2>3, <2>4 DEF TcpInv, TcpClientInv
      <4> QED BY <1>1, <2>3, <4>1 DEF LifeOk
    <3>4. /\ Unread = 0 /\ Pending = 0 /\ obj[sock.client].credit = 0 /\ sock.err = 0
          /\ sock.rx = <<>> /\ got = 0
      BY <1>1, <1>3, <2>4 DEF StreamInv, Unread
    <3>5. obj[sock.client].pcb => pcb[sock.client].acked + Pending = got
      BY <1>1, <2>4 DEF StreamInv
    <3>6. Upcoming(sock.client)' \/ pcb[sock.client].st \in Early => got = 0
      BY <3>4
    <3> QED BY <1>1, <2>2, <2>4, <3>1, <3>2, <3>3, <3>4, <3>5, <3>6 DEF StreamInv
  <2> QED BY <2>5, <2>6 DEF TcpInv
<1>4. CASE ~(Mine /\ sock.state = "connecting")
  <2>1. sock' = sock
    BY <1>1, <1>4 DEF on_connect
  <2>2. TcpTypes' /\ TcpClientInv' /\ LoopInv'
    BY <1>1, <1>2, <2>1, CallbackKeeps DEF TcpTypes
  <2>3. StreamInv'
    <3>1. UNCHANGED <<obj, pcb, events, reader, made, got>>
      BY <1>1 DEF callKeeps
    <3>2. /\ Unread' = Unread /\ Pending' = Pending
          /\ (sock.client # 0 =>
                /\ Handed' = 0 /\ Handed = 0
                /\ ~Called(sock.client, "data")' /\ ~Called(sock.client, "disconnect")')
      BY <1>1, <1>2, <2>1, <3>1 DEF Unread, Pending, Handed, Called
    <3>3. AllCame(sock.client)' = AllCame(sock.client)
      BY <2>1, <3>1, <3>2 DEF AllCame
    <3>4. Called(sock.client, "connect") => Mine
      BY DEF Called, Mine
    <3>5. Upcoming(sock.client)' => Upcoming(sock.client)
      BY <1>2, <2>1, <3>1 DEF Upcoming, Called, Evs
    <3> QED BY <1>1, <1>4, <2>1, <3>1, <3>2, <3>3, <3>4, <3>5 DEF StreamInv
  <2> QED BY <2>2, <2>3 DEF TcpInv
<1> QED BY <1>3, <1>4

LEMMA FailedIs ==
  ASSUME NEW s \in TcpRecord, NEW x \in Nat \ {0}
  PROVE  /\ Failed(s, x) \in TcpRecord /\ Failed(s, x).client = s.client /\ Failed(s, x).rx = s.rx
         /\ Failed(s, x).state = "closed" /\ Failed(s, x).err # 0
BY DEF Failed, TcpRecord

\* A connection that failed keeps what it has, and hands out no more.
LEMMA FailedKeeps ==
  ASSUME TcpInv, UNCHANGED callKeeps, sock.client # 0,
         NEW x \in Nat \ {0}, sock' = Failed(sock, x),
         callback'.at \notin {"up", "data"}
  PROVE  StreamInv'
<1> USE TcpFields
<1>1. TcpTypes /\ StreamInv /\ sock \in TcpRecord
  BY DEF TcpInv, TcpTypes
<1>2. /\ sock'.client = sock.client /\ sock'.rx = sock.rx /\ sock'.state = "closed" /\ sock'.err # 0
  BY <1>1, FailedIs
<1>3. UNCHANGED <<obj, pcb, events, reader, made, got>>
  BY DEF callKeeps
<1>4. /\ Unread' = Unread /\ Pending' = Pending /\ Handed' = 0
      /\ ~Called(sock.client, "data")'
  BY <1>2, <1>3 DEF Unread, Pending, Handed, Called
<1>5. Unread + Pending + 0 <= obj[sock.client].credit
  <2>1. Unread + Pending + Handed <= obj[sock.client].credit /\ sock.client \in Conns
    BY <1>1 DEF StreamInv
  <2>2. Unread \in Nat /\ Pending \in Nat /\ Handed \in {0, 1} /\ obj[sock.client].credit \in Nat
    BY <1>1, <2>1
  <2> HIDE TcpFields
  <2> QED BY <2>1, <2>2
<1>6. Upcoming(sock.client)' => Upcoming(sock.client)
  BY <1>2, <1>3 DEF Upcoming, Called, Evs
<1> QED BY <1>1, <1>2, <1>3, <1>4, <1>5, <1>6 DEF StreamInv

LEMMA on_dataKeeps ==
  ASSUME TcpInv, on_data
  PROVE  TcpInv'
<1> USE TcpFields
<1>1. TcpTypes /\ StreamInv /\ callback.at = "data" /\ callback' = NoCallback /\ UNCHANGED callKeeps
  BY DEF TcpInv, on_data
<1>2. callback' \in CallRecord /\ callback'.at = "idle" /\ callback'.c = 0
  BY <1>1 DEF CallRecord, NoCallback
<1>3. sock \in TcpRecord /\ callback.c \in Conns /\ callback.x \in Nat
  BY <1>1 DEF TcpTypes, CallRecord
<1>4. UNCHANGED <<obj, pcb, events, reader, made, got>>
  BY <1>1 DEF callKeeps
<1>5. CASE Mine /\ sock.state = "open"
  <2>1. sock.client = callback.c
    BY <1>5 DEF Mine
  <2>2. reader.at \notin {"start", "failed"} /\ sock.client \in Conns /\ sock.client # 0
    BY <1>1, <2>1, NoneYet
  <2>3. CASE sock' = Failed(sock, 2)
    <3>1. sock' \in TcpRecord /\ sock'.client = sock.client
      BY <1>3, <2>3, FailedIs
    <3>2. TcpTypes' /\ TcpClientInv' /\ LoopInv'
      BY <1>1, <1>2, <2>1, <2>2, <3>1, CallbackKeeps
    <3>3. StreamInv'
      BY <1>1, <1>2, <2>2, <2>3, FailedKeeps
    <3> QED BY <3>2, <3>3 DEF TcpInv
  <2>4. CASE sock' = [sock EXCEPT !.rx = Append(@, <<callback.c, callback.x>>)]
    <3> DEFINE b == <<callback.c, callback.x>>
               rx == Append(sock.rx, b)
    <3>1. /\ rx \in Seq(TcpBlocks) /\ Len(rx) = Len(sock.rx) + 1
          /\ \A i \in 1 .. Len(sock.rx) : rx[i] = sock.rx[i]
          /\ rx[Len(sock.rx) + 1] = b
      <4>1. sock.rx \in Seq(TcpBlocks) /\ b \in TcpBlocks
        BY <1>1, <1>3 DEF TcpBlocks
      <4> HIDE DEF b
      <4> QED BY <4>1, AppendProperties
    <3>2. sock' = [sock EXCEPT !.rx = rx]
      BY <2>4
    <3> HIDE DEF rx, b
    <3>3. /\ sock' \in TcpRecord /\ sock'.client = sock.client /\ sock'.state = "open"
          /\ sock'.err = sock.err /\ sock'.rx = rx
      BY <1>3, <1>5, <3>1, <3>2 DEF TcpRecord
    <3>4. TcpTypes' /\ TcpClientInv' /\ LoopInv'
      BY <1>1, <1>2, <2>1, <2>2, <3>3, CallbackKeeps
    <3>5. StreamInv'
      <4>1. /\ Unread' = Unread + 1 /\ Pending' = Pending /\ Handed' = 0 /\ Handed = 1
            /\ ~Called(sock.client, "data")' /\ ~Called(sock.client, "disconnect")'
            /\ ~Called(sock.client, "connect")
        BY <1>1, <1>2, <1>4, <2>1, <3>1, <3>3 DEF Unread, Pending, Handed, Called
      <4>2. /\ Unread + Pending + 1 = obj[sock.client].credit /\ callback.x = got + Unread + 1
            /\ pcb[sock.client].st \in {"open", "over"} /\ sock.err = 0
        BY <1>1, <1>5, <2>1, <2>2, <4>1 DEF StreamInv, Called
      <4>3. Unread + 1 <= RxWindow
        <5>1. FlowOk(sock.client)
          BY <2>2 DEF TcpInv, TcpClientInv
        <5> DEFINE k == obj[sock.client].credit
                   a == pcb[sock.client].acked
                   s == pcb[sock.client].sent
        <5>2. k + a <= s /\ s <= a + RxWindow
          BY <5>1 DEF FlowOk
        <5>3. /\ k \in Nat /\ a \in Nat /\ s \in Nat /\ Unread \in Nat /\ Pending \in Nat
              /\ RxWindow \in Nat /\ Unread + Pending + 1 = k
          BY <1>1, <2>2, <4>2
        <5> HIDE DEF k, a, s
        <5> HIDE TcpFields
        <5> QED BY <5>2, <5>3
      <4>4. Unread \in Nat /\ Pending \in Nat /\ got \in Nat /\ obj[sock.client].credit \in Nat
        BY <1>1, <2>2
      <4>5. Unread' + Pending' + Handed' = obj[sock.client].credit
        <5> HIDE TcpFields
        <5> QED BY <4>1, <4>2, <4>4
      <4>6. \A j \in 1 .. Unread' : rx[j] = <<sock.client, got + j>>
        <5>1. \A j \in 1 .. Unread : sock.rx[j] = <<sock.client, got + j>>
          BY <1>1, <2>2 DEF StreamInv
        <5>2. rx[Unread + 1] = <<sock.client, got + (Unread + 1)>>
          <6>1. got + (Unread + 1) = callback.x
            BY <4>2, <4>4
          <6> QED BY <2>1, <3>1, <6>1 DEF Unread, b
        <5>3. \A j \in 1 .. Unread' : j \in 1 .. Unread \/ j = Unread + 1
          BY <4>1, <4>4
        <5>4. \A j \in 1 .. Unread : rx[j] = sock.rx[j]
          BY <3>1 DEF Unread
        <5> HIDE TcpFields
        <5> QED BY <5>1, <5>2, <5>3, <5>4
      <4>7. Unread' + Pending' + Handed' <= obj[sock.client].credit
        BY <4>4, <4>5
      <4>10. Upcoming(sock.client)' => Upcoming(sock.client)
        BY <1>2, <1>4, <3>3 DEF Upcoming, Called, Evs
      <4>8. /\ obj[sock.client].pcb => pcb[sock.client].acked + Pending = got
            /\ Upcoming(sock.client)' \/ pcb[sock.client].st \in Early => got = 0
        BY <1>1, <2>2, <4>10 DEF StreamInv
      <4>9. sock.client <= made
        BY <1>1, <2>2 DEF StreamInv
      <4> QED BY <1>1, <1>4, <2>2, <3>3, <4>1, <4>2, <4>3, <4>5, <4>6, <4>7, <4>8, <4>9 DEF StreamInv
    <3> QED BY <3>4, <3>5 DEF TcpInv
  <2> QED BY <1>5, <2>3, <2>4 DEF on_data
<1>6. CASE ~(Mine /\ sock.state = "open")
  <2>1. sock' = sock
    BY <1>6 DEF on_data
  <2>2. TcpTypes' /\ TcpClientInv' /\ LoopInv'
    BY <1>1, <1>2, <1>3, <2>1, CallbackKeeps
  <2>3. StreamInv'
    <3>2. /\ Unread' = Unread /\ Pending' = Pending
          /\ (sock.client # 0 =>
                /\ Handed' = 0 /\ ~Called(sock.client, "connect")
                /\ (sock.state = "open" => Handed = 0)
                /\ ~Called(sock.client, "data")' /\ ~Called(sock.client, "disconnect")')
      BY <1>1, <1>2, <1>4, <1>6, <2>1 DEF Unread, Pending, Handed, Called, Mine
    <3>3. AllCame(sock.client)' = AllCame(sock.client)
      BY <1>4, <2>1, <3>2 DEF AllCame
    <3>4. sock.client # 0 => /\ Unread + Pending + 0 <= obj[sock.client].credit
                             /\ (sock.state = "open" => Unread + Pending + 0 = obj[sock.client].credit)
      <4>1. SUFFICES ASSUME sock.client # 0
                     PROVE  /\ Unread + Pending + 0 <= obj[sock.client].credit
                            /\ (sock.state = "open" => Unread + Pending + 0 = obj[sock.client].credit)
        OBVIOUS
      <4>2. /\ Unread + Pending + Handed <= obj[sock.client].credit /\ sock.client \in Conns
            /\ (sock.state = "open" => Unread + Pending + Handed = obj[sock.client].credit)
        BY <1>1, <4>1 DEF StreamInv
      <4>3. Unread \in Nat /\ Pending \in Nat /\ Handed \in {0, 1} /\ obj[sock.client].credit \in Nat
        BY <1>1, <4>2
      <4> HIDE TcpFields
      <4> QED BY <3>2, <4>1, <4>2, <4>3
    <3>5. Upcoming(sock.client)' => Upcoming(sock.client)
      BY <1>2, <1>4, <2>1 DEF Upcoming, Called, Evs
    <3> QED BY <1>1, <1>4, <2>1, <3>2, <3>3, <3>4, <3>5 DEF StreamInv
  <2> QED BY <2>2, <2>3 DEF TcpInv
<1> QED BY <1>5, <1>6

LEMMA on_errorKeeps ==
  ASSUME TcpInv, on_error
  PROVE  TcpInv'
<1> USE TcpFields
<1>1. /\ TcpTypes /\ StreamInv /\ callback.at = "error" /\ UNCHANGED callKeeps
      /\ callback' = [at |-> "disconnect", c |-> callback.c, x |-> 0]
      /\ sock' = IF Mine THEN Failed(sock, 1) ELSE sock
  BY DEF TcpInv, on_error, Calls
<1>2. sock \in TcpRecord /\ callback.c \in Conns
  BY <1>1 DEF TcpTypes, CallRecord
<1>3. callback' \in CallRecord /\ callback'.at = "disconnect" /\ callback'.c = callback.c
  BY <1>1, <1>2 DEF CallRecord
<1>4. UNCHANGED <<obj, pcb, events, reader, made, got>>
  BY <1>1 DEF callKeeps
<1>5. CASE Mine
  <2>1. sock.client = callback.c /\ sock' = Failed(sock, 1)
    BY <1>1, <1>5 DEF Mine
  <2>2. reader.at \notin {"start", "failed"} /\ sock.client \in Conns /\ sock.client # 0
    BY <1>1, <2>1, NoneYet
  <2>3. sock' \in TcpRecord /\ sock'.client = sock.client
    BY <1>2, <2>1, FailedIs
  <2>4. TcpTypes' /\ TcpClientInv' /\ LoopInv'
    BY <1>1, <1>3, <2>1, <2>2, <2>3, CallbackKeeps
  <2>5. StreamInv'
    BY <1>1, <1>3, <2>1, <2>2, FailedKeeps
  <2> QED BY <2>4, <2>5 DEF TcpInv
<1>6. CASE ~Mine
  <2>1. sock' = sock
    BY <1>1, <1>6
  <2>2. TcpTypes' /\ TcpClientInv' /\ LoopInv'
    BY <1>1, <1>2, <1>3, <2>1, CallbackKeeps
  <2>3. StreamInv'
    <3>1. /\ Unread' = Unread /\ Pending' = Pending
          /\ (sock.client # 0 =>
                /\ Handed' = 0 /\ Handed = 0 /\ ~Called(sock.client, "connect")
                /\ ~Called(sock.client, "data")' /\ ~Called(sock.client, "disconnect")')
      BY <1>1, <1>3, <1>4, <1>6, <2>1 DEF Unread, Pending, Handed, Called, Mine
    <3>2. AllCame(sock.client)' = AllCame(sock.client)
      BY <1>4, <2>1, <3>1 DEF AllCame
    <3>3. Upcoming(sock.client)' => Upcoming(sock.client)
      BY <1>3, <1>4, <2>1 DEF Upcoming, Called, Evs
    <3> QED BY <1>1, <1>4, <2>1, <3>1, <3>2, <3>3 DEF StreamInv
  <2> QED BY <2>2, <2>3 DEF TcpInv
<1> QED BY <1>5, <1>6

LEMMA on_disconnectKeeps ==
  ASSUME TcpInv, on_disconnect
  PROVE  TcpInv'
<1> USE TcpFields
<1>1. /\ TcpTypes /\ StreamInv /\ callback.at = "disconnect" /\ callback' = NoCallback /\ UNCHANGED callKeeps
      /\ sock' = IF Mine THEN [sock EXCEPT !.state = "closed"] ELSE sock
  BY DEF TcpInv, on_disconnect
<1>2. callback' \in CallRecord /\ callback'.at = "idle" /\ callback'.c = 0
  BY <1>1 DEF CallRecord, NoCallback
<1>3. sock \in TcpRecord
  BY <1>1 DEF TcpTypes
<1>4. /\ sock' \in TcpRecord /\ sock'.client = sock.client /\ sock'.rx = sock.rx /\ sock'.err = sock.err
      /\ sock'.state = IF Mine THEN "closed" ELSE sock.state
  BY <1>1, <1>3 DEF TcpRecord
<1>5. sock' = sock \/ (sock.client = callback.c /\ (reader.at \in {"start", "failed"} => FALSE))
  BY <1>1, NoneYet DEF Mine
<1>6. TcpTypes' /\ TcpClientInv' /\ LoopInv'
  BY <1>1, <1>2, <1>4, <1>5, CallbackKeeps
<1>7. StreamInv'
  <2>1. UNCHANGED <<obj, pcb, events, reader, made, got>>
    BY <1>1 DEF callKeeps
  <2>2. /\ Unread' = Unread /\ Pending' = Pending
        /\ (sock.client # 0 =>
              /\ Handed' = 0 /\ Handed = 0 /\ ~Called(sock.client, "connect")
              /\ (Mine => Called(sock.client, "disconnect"))
              /\ ~Called(sock.client, "data")' /\ ~Called(sock.client, "disconnect")')
    BY <1>1, <1>2, <1>4, <2>1 DEF Unread, Pending, Handed, Called, Mine
  <2>3. AllCame(sock.client)' = AllCame(sock.client)
    BY <1>4, <2>1, <2>2 DEF AllCame
  <2>4. Mine => sock.client # 0
    BY <1>1, NoneYet DEF Mine
  <2>5. Upcoming(sock.client)' => Upcoming(sock.client)
    BY <1>2, <1>4, <2>1 DEF Upcoming, Called, Evs
  <2> QED BY <1>1, <1>4, <2>1, <2>2, <2>3, <2>4, <2>5, SMTT(30) DEF StreamInv
<1> QED BY <1>6, <1>7 DEF TcpInv

\* The main loop alone changes what it holds of a client: here it holds what it held.
LEMMA LoopAlone ==
  ASSUME TcpInv, UNCHANGED <<obj, pcb, events, callback, made>>,
         \A n \in Conns : Held(n)' <=> Held(n)
  PROVE  TcpClientInv'
<1> USE TcpFields
<1>1. TcpTypes
  BY DEF TcpInv
<1>2. ASSUME NEW n \in Conns PROVE ClientOk(n)'
  <2>1. ClientOk(n) /\ QueueSame(n) /\ made' \in Nat /\ made' >= made
    BY <1>1 DEF TcpInv, TcpClientInv, ClientOk, QueueSame
  <2> QED BY <1>1, <2>1, Untouched
<1> QED BY <1>2 DEF TcpClientInv, ClientOk

LEMMA CloseConnKeeps ==
  ASSUME TcpInv, NEW next \in {"idle", "open"}, CloseConn(next)
  PROVE  TcpInv'
<1> USE TcpFields
<1>1. /\ TcpTypes /\ StreamInv /\ LoopInv /\ reader.at = "idle" /\ (next = "open" => made < MaxConns)
      /\ sock' = [sock EXCEPT !.client = 0, !.state = "idle", !.err = 0]
      /\ reader' = [at |-> "drop", c |-> sock.client, next |-> next]
      /\ UNCHANGED <<obj, pcb, events, callback, made, got>>
  BY DEF TcpInv, CloseConn, ReaderAt
<1>2. sock \in TcpRecord /\ sock.client \in Conns \union {0} /\ sock.client \in Nat
  BY <1>1 DEF TcpTypes, StreamInv
<1>3. sock' \in TcpRecord /\ sock'.client = 0 /\ sock'.state = "idle" /\ sock'.err = 0 /\ sock'.rx = sock.rx
  BY <1>1, <1>2 DEF TcpRecord
<1>4. /\ reader' \in ReaderRecord /\ reader'.at = "drop" /\ reader'.c = sock.client /\ reader'.next = next
  BY <1>1, <1>2 DEF ReaderRecord
<1>5. TcpTypes'
  BY <1>1, <1>3, <1>4 DEF TcpTypes
<1>6. \A n \in Conns : Held(n)' <=> Held(n)
  BY <1>1, <1>3, <1>4 DEF Held, Leaving
<1>7. LoopInv'
  BY <1>1, <1>2, <1>3, <1>4 DEF LoopInv
<1>8. StreamInv'
  BY <1>1, <1>3, <1>4 DEF StreamInv, Unread
<1> QED BY <1>1, <1>5, <1>6, <1>7, <1>8, LoopAlone DEF TcpInv

LEMMA DropRxKeeps ==
  ASSUME TcpInv, DropRx
  PROVE  TcpInv'
<1> USE TcpFields
<1>1. /\ TcpTypes /\ StreamInv /\ LoopInv /\ reader.at = "drop" /\ sock' = [sock EXCEPT !.rx = <<>>] /\ got' = 0
      /\ reader' = [reader EXCEPT !.at = IF reader.c = 0 THEN reader.next ELSE "release"]
      /\ UNCHANGED <<obj, pcb, events, callback, made>>
  BY DEF TcpInv, DropRx, ReaderAt, ReaderTo
<1>2. sock \in TcpRecord /\ sock.client = 0 /\ reader \in ReaderRecord
  BY <1>1 DEF TcpTypes, LoopInv
<1>3. /\ sock' \in TcpRecord /\ sock'.client = 0 /\ sock'.state = sock.state /\ sock'.err = sock.err
      /\ sock'.rx = <<>> /\ Len(sock'.rx) = 0
  <2>1. <<>> \in Seq(TcpBlocks) /\ Len(<<>>) = 0
    OBVIOUS
  <2>2. sock'.rx = <<>>
    BY <1>1, <1>2 DEF TcpRecord
  <2> QED BY <1>1, <1>2, <2>1, <2>2 DEF TcpRecord
<1>4. /\ reader' \in ReaderRecord /\ reader'.at = (IF reader.c = 0 THEN reader.next ELSE "release")
      /\ reader'.c = reader.c /\ reader'.next = reader.next /\ reader.next \in {"idle", "open"}
  BY <1>1, <1>2 DEF ReaderRecord
<1>5. TcpTypes'
  BY <1>1, <1>3, <1>4 DEF TcpTypes
<1>6. \A n \in Conns : Held(n)' <=> Held(n)
  BY <1>1, <1>2, <1>3, <1>4 DEF Held, Leaving
<1>7. LoopInv'
  BY <1>1, <1>2, <1>3, <1>4 DEF LoopInv
<1>8. StreamInv'
  <2>1. 0 <= RxWindow
    BY <1>1
  <2> QED BY <1>1, <1>2, <1>3, <1>4, <2>1 DEF StreamInv, Unread
<1> QED BY <1>1, <1>5, <1>6, <1>7, <1>8, LoopAlone DEF TcpInv

LEMMA GiveUpKeeps ==
  ASSUME TcpInv, GiveUp
  PROVE  TcpInv'
<1> USE TcpFields
<1> DEFINE f == Failed(sock, 3)
<1>1. /\ TcpTypes /\ StreamInv /\ LoopInv /\ reader.at = "failed"
      /\ reader' = [at |-> "release", c |-> sock.client, next |-> "idle"]
      /\ sock' = [f EXCEPT !.client = 0]
      /\ UNCHANGED <<obj, pcb, events, callback, made, got>>
  BY DEF TcpInv, GiveUp, ReaderAt
<1>2. sock \in TcpRecord /\ made \in Conns /\ sock.client = made /\ sock.state = "connecting" /\ reader.c = 0
  BY <1>1 DEF TcpTypes, LoopInv
<1>3. f \in TcpRecord /\ f.rx = sock.rx /\ f.state = "closed" /\ f.err # 0
  BY <1>2, FailedIs
<1> HIDE DEF f
<1>4. /\ sock' \in TcpRecord /\ sock'.client = 0 /\ sock'.state = "closed" /\ sock'.err # 0 /\ sock'.rx = sock.rx
  BY <1>1, <1>3 DEF TcpRecord
<1>5. /\ reader' \in ReaderRecord /\ reader'.at = "release" /\ reader'.c = made /\ reader'.next = "idle"
  BY <1>1, <1>2 DEF ReaderRecord
<1>6. TcpTypes'
  BY <1>1, <1>4, <1>5 DEF TcpTypes
<1>7. \A n \in Conns : Held(n)' <=> Held(n)
  BY <1>1, <1>2, <1>4, <1>5 DEF Held, Leaving
<1>8. LoopInv'
  BY <1>1, <1>2, <1>4, <1>5 DEF LoopInv
<1>9. StreamInv'
  BY <1>1, <1>2, <1>4, <1>5 DEF StreamInv, Unread
<1> QED BY <1>1, <1>6, <1>7, <1>8, <1>9, LoopAlone DEF TcpInv

LEMMA TakeKeeps ==
  ASSUME TcpInv, NEW k \in 1 .. RxWindow, Take(k)
  PROVE  TcpInv'
<1> USE TcpFields
<1> DEFINE rx == SubSeq(sock.rx, k + 1, Len(sock.rx))
<1>1. /\ TcpTypes /\ StreamInv /\ LoopInv /\ reader.at = "idle" /\ k <= Len(sock.rx)
      /\ sock' = [sock EXCEPT !.rx = rx] /\ got' = got + k
      /\ reader' = [at |-> "ack", c |-> k, next |-> "idle"]
      /\ UNCHANGED <<obj, pcb, events, callback, made>>
  BY DEF TcpInv, Take, ReaderAt, NoReader
<1>2. sock \in TcpRecord /\ sock.rx \in Seq(TcpBlocks) /\ k \in Nat /\ k >= 1 /\ Len(sock.rx) \in Nat /\ k <= RxWindow
  BY <1>1 DEF TcpTypes
<1>3. /\ rx \in Seq(TcpBlocks) /\ Len(rx) = Len(sock.rx) - k
      /\ \A i \in 1 .. Len(sock.rx) - k : rx[i] = sock.rx[k + i]
  <2> DEFINE m == Len(sock.rx)
             l == IF k + 1 <= m THEN m - (k + 1) + 1 ELSE 0
  <2>1. /\ rx \in Seq(TcpBlocks) /\ Len(rx) = l
        /\ \A i \in 1 .. m - (k + 1) + 1 : rx[i] = sock.rx[k + 1 + i - 1]
    <3>1. /\ sock.rx \in Seq(TcpBlocks) /\ k + 1 \in 1 .. Len(sock.rx) + 1
          /\ Len(sock.rx) \in k + 1 - 1 .. Len(sock.rx)
      BY <1>1, <1>2, SMTT(30)
    <3> HIDE TcpFields
    <3> QED BY <3>1, SubSeqProperties
  <2> HIDE DEF rx
  <2>2. m \in Nat /\ k <= m
    BY <1>1, <1>2
  <2>3. rx \in Seq(TcpBlocks)
    BY <2>1
  <2> HIDE TcpFields
  <2>4. l = m - k /\ m - (k + 1) + 1 = m - k
    BY <1>2, <2>2
  <2>5. \A i \in 1 .. m - k : k + 1 + i - 1 = k + i
    BY <1>2, <2>2
  <2>6. \A i \in 1 .. m - k : rx[i] = sock.rx[k + i]
    BY <2>1, <2>4, <2>5
  <2>7. Len(rx) = m - k
    BY <2>1, <2>4
  <2> QED BY <2>3, <2>6, <2>7
<1> HIDE DEF rx
<1>4. /\ sock' \in TcpRecord /\ sock'.client = sock.client /\ sock'.state = sock.state
      /\ sock'.err = sock.err /\ sock'.rx = rx
  BY <1>1, <1>2, <1>3 DEF TcpRecord
<1>5. /\ reader' \in ReaderRecord /\ reader'.at = "ack" /\ reader'.c = k
  BY <1>1, <1>2 DEF ReaderRecord
<1>6. TcpTypes'
  BY <1>1, <1>2, <1>4, <1>5, SMTT(30) DEF TcpTypes
<1>7. \A n \in Conns : Held(n)' <=> Held(n)
  BY <1>1, <1>4, <1>5 DEF Held, Leaving
<1>8. LoopInv'
  BY <1>1, <1>2, <1>5 DEF LoopInv
<1>9. /\ sock.client # 0 /\ sock.client \in Conns /\ sock.state # "connecting" /\ Unread >= 1
  <2>1. sock.rx # <<>>
    BY <1>1, <1>2
  <2> QED BY <1>1, <1>2, <2>1, SMTT(30) DEF StreamInv, Unread
<1>10. StreamInv'
  <2> DEFINE m == sock.client
  <2>1. /\ Unread' = Unread - k /\ Pending' = k /\ Pending = 0 /\ Handed' = Handed
        /\ \A at \in {"connect", "data", "disconnect"} : Called(m, at)' <=> Called(m, at)
    BY <1>1, <1>3, <1>4, <1>5 DEF Unread, Pending, Handed, Called
  <2>2. /\ Unread \in Nat /\ Handed \in {0, 1} /\ obj[m].credit \in Nat /\ got \in Nat
        /\ pcb[m].acked \in Nat /\ pcb[m].sent \in Nat /\ k <= Unread /\ m \in Conns
        /\ pcb[m].st \in Early \union {"open", "over"}
    BY <1>1, <1>9 DEF Unread
  <2>3. /\ Unread + Pending + Handed <= obj[m].credit /\ Unread <= RxWindow
        /\ (sock.state = "open" => Unread + Pending + Handed = obj[m].credit)
        /\ (Called(m, "data") /\ sock.state = "open" => callback.x = got + Unread + 1)
        /\ (obj[m].pcb => pcb[m].acked + Pending = got)
    BY <1>1, <1>9 DEF StreamInv
  <2>4. /\ Unread' + Pending' + Handed' = Unread + Pending + Handed
        /\ got' + Unread' = got + Unread /\ Unread' <= RxWindow
        /\ (obj[m].pcb => pcb[m].acked + Pending' = got')
        /\ got' + Unread' + 1 = got + Unread + 1
    <3>1. got' = got + k /\ k \in Nat /\ RxWindow \in Nat
      BY <1>1, <1>2
    <3> HIDE DEF m
    <3> HIDE TcpFields
    <3>2. Unread' = Unread - k /\ Pending' = k /\ Pending = 0 /\ Handed' = Handed
      BY <2>1
    <3>3. /\ Unread \in Nat /\ Handed \in {0, 1} /\ got \in Nat /\ k <= Unread /\ pcb[m].acked \in Nat
          /\ Unread <= RxWindow
      BY <2>2, <2>3
    <3>4. obj[m].pcb => pcb[m].acked = got
      BY <2>3, <3>2, <3>3
    <3> QED BY <3>1, <3>2, <3>3, <3>4
  <2>5. AllCame(m)' <=> AllCame(m)
    BY <1>1, <2>4 DEF AllCame
  <2>6. ~Upcoming(m)' /\ pcb[m].st \notin Early
    <3>1. Current(m) /\ FlowOk(m)
      BY <1>9 DEF TcpInv, TcpClientInv, LifeOk, Held
    <3>2. /\ (Upcoming(m) => obj[m].credit + pcb[m].acked = 0)
          /\ (pcb[m].st \in Early => obj[m].credit + pcb[m].acked <= 0)
      BY <3>1 DEF FlowOk
    <3>3. obj[m].credit + pcb[m].acked > 0
      <4> HIDE DEF m
      <4> HIDE TcpFields
      <4>1. Unread + 0 + Handed <= obj[m].credit /\ Unread >= 1
        BY <1>9, <2>1, <2>3
      <4> QED BY <2>2, <4>1
    <3>4. Upcoming(m)' => Upcoming(m)
      BY <1>1, <1>4 DEF Upcoming, Called, Evs
    <3>5. ~(Upcoming(m) \/ pcb[m].st \in Early)
      <4>1. obj[m].credit \in Nat /\ pcb[m].acked \in Nat
        BY <2>2
      <4> HIDE TcpFields
      <4> QED BY <3>2, <3>3, <4>1
    <3> QED BY <3>4, <3>5
  <2>7. \A j \in 1 .. Unread' : sock'.rx[j] = <<m, got' + j>>
    <3>1. \A j \in 1 .. Unread : sock.rx[j] = <<m, got + j>>
      BY <1>1, <1>9 DEF StreamInv
    <3>2. \A j \in 1 .. Unread - k : rx[j] = sock.rx[k + j]
      BY <1>3 DEF Unread
    <3>3. \A j \in 1 .. Unread - k : k + j \in 1 .. Unread /\ got + (k + j) = got + k + j
      BY <1>2, <2>2
    <3>4. got' = got + k
      BY <1>1
    <3> HIDE TcpFields
    <3> HIDE DEF m
    <3> QED BY <1>4, <2>1, <3>1, <3>2, <3>3, <3>4
  <2>8. /\ m \in Conns /\ m <= made /\ sock.state # "idle" /\ (sock.err # 0 => sock.state = "closed")
        /\ (sock.state = "open" => pcb[m].st \in {"open", "over"})
        /\ (sock.state = "closed" /\ sock.err = 0 => AllCame(m))
        /\ (Called(m, "disconnect") /\ sock.err = 0 => AllCame(m))
    BY <1>1, <1>9 DEF StreamInv
  <2>9. sock'.client = m /\ sock'.state = sock.state /\ sock'.err = sock.err
    BY <1>4
  <2> HIDE TcpFields
  <2> QED BY <1>1, <1>9, <2>1, <2>3, <2>4, <2>5, <2>6, <2>7, <2>8, <2>9 DEF StreamInv
<1> QED BY <1>1, <1>6, <1>7, <1>8, <1>10, LoopAlone DEF TcpInv

LEMMA ReleaseClientKeeps ==
  ASSUME TcpInv, NEW n, n = reader.c, ReleaseClient
  PROVE  TcpInv'
<1> USE TcpFields
<1> DEFINE e == Queued("release", n, 0)
<1>1. /\ TcpTypes /\ StreamInv /\ LoopInv /\ reader.at = "release"
      /\ reader' = [NoReader EXCEPT !.at = reader.next]
      /\ obj' = [obj EXCEPT ![n].released = TRUE] /\ events' = Append(events, e)
      /\ UNCHANGED <<sock, pcb, callback, made, got>>
  BY DEF TcpInv, ReleaseClient, ReaderAt
<1>2. sock.client = 0 /\ n \in Conns /\ n # 0 /\ reader \in ReaderRecord
  BY <1>1 DEF TcpTypes, LoopInv
<1>3. LifeOk(n) /\ NewsOk(n) /\ FlowOk(n)
  BY <1>2 DEF TcpInv, TcpClientInv
<1>4. e \in TcpEvents /\ e.c = n /\ e.ev = "release"
  BY <1>2 DEF TcpEvents, Queued
<1> HIDE DEF e
<1>5. /\ events' \in Seq(TcpEvents) /\ Evs(n)' = Evs(n) \union {"release"}
  BY <1>1, <1>4, AppendedFor DEF Evs
<1>6. /\ obj' \in [Conns -> ObjRecord] /\ (\A d \in Conns : d # n => obj'[d] = obj[d])
      /\ obj'[n].pcb = obj[n].pcb /\ obj'[n].live = obj[n].live /\ obj'[n].released = TRUE
      /\ obj'[n].closed = obj[n].closed /\ obj'[n].credit = obj[n].credit
  <2>1. obj \in [Conns -> ObjRecord] /\ obj[n] \in ObjRecord
    BY <1>1, <1>2 DEF TcpTypes
  <2> DEFINE o == [obj[n] EXCEPT !.released = TRUE]
  <2>2. /\ o \in ObjRecord /\ o.pcb = obj[n].pcb /\ o.live = obj[n].live /\ o.released = TRUE
        /\ o.closed = obj[n].closed /\ o.credit = obj[n].credit
    BY <2>1 DEF ObjRecord
  <2>3. obj' = [obj EXCEPT ![n] = o] /\ n \in Conns
    BY <1>1, <1>2, <2>1
  <2> HIDE DEF o
  <2> HIDE TcpFields
  <2>4. /\ obj' \in [Conns -> ObjRecord] /\ (\A d \in Conns : d # n => obj'[d] = obj[d])
        /\ obj'[n] = o
    BY <2>1, <2>2, <2>3
  <2> QED BY <2>2, <2>4
<1>7. /\ reader' \in ReaderRecord /\ reader'.at = reader.next /\ reader'.c = 0 /\ reader'.next = "idle"
      /\ reader.next \in {"idle", "open"}
  BY <1>1, <1>2 DEF ReaderRecord, NoReader
<1>8. TcpTypes'
  BY <1>1, <1>5, <1>6, <1>7 DEF TcpTypes
<1>9. Held(n) /\ Current(n) /\ ~Held(n)'
  BY <1>1, <1>2, <1>3, <1>7 DEF Held, Leaving, LifeOk
<1>10. ASSUME NEW d \in Conns, d # n PROVE ClientOk(d)'
  <2>1. QueueSame(d)
    BY <1>1, <1>4, <1>10, AppendedForAnother
  <2>2. Held(d)' <=> Held(d)
    BY <1>1, <1>2, <1>7, <1>10 DEF Held, Leaving
  <2>3. ClientOk(d) /\ obj'[d] = obj[d] /\ pcb'[d] = pcb[d] /\ made' \in Nat /\ made' >= made
    BY <1>1, <1>6, <1>10 DEF TcpInv, TcpClientInv, ClientOk
  <2> QED BY <1>1, <2>1, <2>2, <2>3, Untouched
<1>11. LifeOk(n)'
  BY <1>1, <1>2, <1>3, <1>5, <1>6, <1>9 DEF LifeOk, Called, Current
<1>12. NewsOk(n)'
  BY <1>1, <1>2, <1>3, <1>5, <1>6, <1>9 DEF NewsOk, Current
<1>13. FlowOk(n)'
  BY <1>1, <1>3, <1>6 DEF FlowOk, Streams, Upcoming, Called, Current
<1>14. TcpClientInv'
  BY <1>2, <1>10, <1>11, <1>12, <1>13 DEF TcpClientInv, ClientOk
<1>15. LoopInv'
  BY <1>1, <1>2, <1>7 DEF LoopInv
<1>16. StreamInv'
  BY <1>1, <1>2 DEF StreamInv, Unread
<1> QED BY <1>8, <1>14, <1>15, <1>16 DEF TcpInv

LEMMA MakeKeeps ==
  ASSUME TcpInv, NEW n, n = made + 1, Make
  PROVE  TcpInv'
<1> USE TcpFields
<1>1. /\ TcpTypes /\ StreamInv /\ LoopInv /\ reader.at = "open"
      /\ sock.client = 0 /\ made < MaxConns /\ reader.c = 0
      /\ UNCHANGED <<pcb, events, callback, got>>
  BY DEF TcpInv, LoopInv, Make, ReaderAt
<1>2. sock \in TcpRecord /\ reader \in ReaderRecord /\ sock.rx = <<>> /\ got = 0
  BY <1>1 DEF TcpTypes, StreamInv
<1>5. n = made + 1
  OBVIOUS
<1>3. CASE sock' = Failed(sock, 2) /\ reader' = NoReader /\ UNCHANGED <<obj, made>>
  <2>1. /\ sock' \in TcpRecord /\ sock'.client = 0 /\ sock'.state = "closed" /\ sock'.err # 0 /\ sock'.rx = <<>>
    <3> DEFINE f == Failed(sock, 2)
    <3>1. f \in TcpRecord /\ f.client = sock.client /\ f.rx = sock.rx /\ f.state = "closed" /\ f.err # 0
      BY <1>2, FailedIs
    <3>2. sock' = f
      BY <1>3
    <3> HIDE DEF f
    <3> QED BY <1>1, <1>2, <3>1, <3>2
  <2>2. reader' \in ReaderRecord /\ reader'.at = "idle" /\ reader'.c = 0
    BY <1>3 DEF ReaderRecord, NoReader
  <2>3. TcpTypes'
    BY <1>1, <1>3, <2>1, <2>2 DEF TcpTypes
  <2>4. \A k \in Conns : Held(k)' <=> Held(k)
    BY <1>1, <2>1, <2>2 DEF Held, Leaving
  <2>5. LoopInv'
    BY <1>1, <2>1, <2>2 DEF LoopInv
  <2>6. StreamInv'
    BY <1>1, <1>2, <2>1, <2>2 DEF StreamInv, Unread
  <2> QED BY <1>1, <1>3, <2>3, <2>4, <2>5, <2>6, LoopAlone DEF TcpInv
<1>4. CASE /\ made' = made + 1 /\ ReaderTo("start")
           /\ sock' = [sock EXCEPT !.client = made', !.state = "connecting", !.err = 0]
           /\ obj' = [obj EXCEPT ![made'].live = TRUE]
  <2>1. n \in Conns /\ n = made' /\ n = made + 1 /\ n \in Nat /\ n # 0
    BY <1>1, <1>4, <1>5 DEF Conns
  <2>2. /\ sock' \in TcpRecord /\ sock'.client = n /\ sock'.state = "connecting" /\ sock'.err = 0 /\ sock'.rx = <<>>
    BY <1>2, <1>4, <2>1 DEF TcpRecord
  <2>3. /\ reader' \in ReaderRecord /\ reader'.at = "start" /\ reader'.c = 0
    BY <1>1, <1>2, <1>4 DEF ReaderRecord, ReaderTo
  <2>4. /\ obj' \in [Conns -> ObjRecord] /\ (\A d \in Conns : d # n => obj'[d] = obj[d])
        /\ obj'[n].pcb = obj[n].pcb /\ obj'[n].live = TRUE /\ obj'[n].released = obj[n].released
        /\ obj'[n].closed = obj[n].closed /\ obj'[n].credit = obj[n].credit
    <3>1. obj \in [Conns -> ObjRecord] /\ obj[n] \in ObjRecord
      BY <1>1, <2>1 DEF TcpTypes
    <3> DEFINE o == [obj[n] EXCEPT !.live = TRUE]
    <3>2. /\ o \in ObjRecord /\ o.pcb = obj[n].pcb /\ o.released = obj[n].released /\ o.live = TRUE
          /\ o.closed = obj[n].closed /\ o.credit = obj[n].credit
      BY <3>1 DEF ObjRecord
    <3>3. obj' = [obj EXCEPT ![n] = o] /\ n \in Conns
      BY <1>4, <2>1, <3>1
    <3> HIDE DEF o
    <3> HIDE TcpFields
    <3>4. /\ obj' \in [Conns -> ObjRecord] /\ (\A d \in Conns : d # n => obj'[d] = obj[d])
          /\ obj'[n] = o
      BY <3>1, <3>2, <3>3
    <3> QED BY <3>2, <3>4
  <2>5. /\ ~obj[n].live /\ ~obj[n].released /\ ~obj[n].closed /\ Evs(n) = {} /\ pcb[n].st = "none"
        /\ ~obj[n].pcb /\ ~(callback.at # "idle" /\ callback.c = n) /\ FlowOk(n)
    <3>1. LifeOk(n) /\ FlowOk(n)
      BY <2>1 DEF TcpInv, TcpClientInv
    <3>2. n > made
      BY <1>1, <2>1
    <3> QED BY <1>1, <3>1, <3>2 DEF LifeOk
  <2>6. /\ pcb[n].sent = 0 /\ obj[n].credit = 0 /\ pcb[n].acked = 0
    <3>1. obj[n].credit + pcb[n].acked <= pcb[n].sent /\ pcb[n].sent = 0
      BY <2>5 DEF FlowOk, Early
    <3>2. obj[n].credit \in Nat /\ pcb[n].acked \in Nat
      BY <1>1, <2>1
    <3> HIDE TcpFields
    <3> QED BY <3>1, <3>2
  <2>7. TcpTypes'
    <3>1. made' \in Nat /\ made' <= MaxConns
      BY <1>1, <2>1
    <3> QED BY <1>1, <2>2, <2>3, <2>4, <3>1 DEF TcpTypes
  <2>8. OneAnswer(events, n) /\ UpFirst(events, n)
    BY <2>5, NothingQueued DEF Evs
  <2>9. Evs(n)' = {}
    BY <1>1, <2>5 DEF Evs
  <2>10. LifeOk(n)'
    <3>1. ~(n > made')
      BY <1>1, <2>1
    <3>2. Held(n)'
      BY <2>2 DEF Held
    <3> QED BY <1>1, <2>4, <2>5, <2>9, <3>1, <3>2 DEF LifeOk, Current
  <2>11. NewsOk(n)'
    BY <1>1, <2>5, <2>8, <2>9 DEF NewsOk, Streams, Upcoming, Called, Current
  <2>12. FlowOk(n)'
    BY <1>1, <2>4, <2>5, <2>6 DEF FlowOk, Streams, Upcoming, Called, Early
  <2>13. ASSUME NEW d \in Conns, d # n PROVE ClientOk(d)'
    <3>1. ClientOk(d) /\ QueueSame(d) /\ obj'[d] = obj[d] /\ pcb'[d] = pcb[d]
      BY <1>1, <2>4, <2>13 DEF TcpInv, TcpClientInv, ClientOk, QueueSame
    <3>2. Held(d)' <=> Held(d)
      BY <1>1, <2>2, <2>3, <2>13 DEF Held, Leaving
    <3>3. made' \in Nat /\ made' >= made
      BY <1>1, <1>4
    <3> QED BY <1>1, <3>1, <3>2, <3>3, Untouched
  <2>14. TcpClientInv'
    BY <2>1, <2>10, <2>11, <2>12, <2>13 DEF TcpClientInv, ClientOk
  <2>15. LoopInv'
    BY <1>1, <2>1, <2>2, <2>3, <2>5 DEF LoopInv
  <2>16. StreamInv'
    <3>1. /\ Unread' = 0 /\ Pending' = 0 /\ Handed' = 0
          /\ ~Called(n, "disconnect")' /\ sock'.rx = <<>>
      BY <1>1, <2>2, <2>3, <2>5 DEF Unread, Pending, Handed, Called
    <3>2. 0 <= RxWindow /\ n <= made'
      BY <1>1, <2>1
    <3> QED BY <1>1, <1>2, <2>1, <2>2, <2>3, <2>4, <2>5, <2>6, <3>1, <3>2 DEF StreamInv
  <2> QED BY <2>7, <2>14, <2>15, <2>16 DEF TcpInv
<1> QED BY <1>3, <1>4 DEF Make

LEMMA StartKeeps ==
  ASSUME TcpInv, NEW n, n = made, Start
  PROVE  TcpInv'
<1> USE TcpFields
<1>1. /\ TcpTypes /\ StreamInv /\ LoopInv /\ reader.at = "start" /\ UNCHANGED <<sock, obj, events, callback, made, got>>
  BY DEF TcpInv, Start, ReaderAt
<1>2. /\ n \in Conns /\ sock.client = n /\ sock.state = "connecting" /\ pcb[n].st = "none"
      /\ reader.c = 0 /\ reader \in ReaderRecord
  BY <1>1 DEF LoopInv, TcpTypes
<1>3. LifeOk(n) /\ NewsOk(n) /\ FlowOk(n)
  BY <1>2 DEF TcpInv, TcpClientInv
<1>4. CASE ReaderTo("failed") /\ UNCHANGED pcb
  <2>1. reader' \in ReaderRecord /\ reader'.at = "failed" /\ reader'.c = 0
    BY <1>2, <1>4 DEF ReaderTo, ReaderRecord
  <2>2. TcpTypes'
    BY <1>1, <1>4, <2>1 DEF TcpTypes
  <2>3. \A d \in Conns : Held(d)' <=> Held(d)
    BY <1>1, <2>1 DEF Held, Leaving
  <2>4. LoopInv'
    BY <1>1, <1>4, <2>1 DEF LoopInv
  <2>5. StreamInv'
    <3>1. /\ Unread' = Unread /\ Pending' = Pending /\ Handed' = Handed
          /\ (AllCame(sock.client)' <=> AllCame(sock.client))
          /\ \A at : Called(sock.client, at)' <=> Called(sock.client, at)
      BY <1>1, <1>4, <2>1 DEF Unread, Pending, Handed, Called, AllCame
    <3>2. Upcoming(sock.client)' => Upcoming(sock.client)
      BY <1>1 DEF Upcoming, Called, Evs
    <3> QED BY <1>1, <1>4, <2>1, <3>1, <3>2 DEF StreamInv
  <2> QED BY <1>1, <1>4, <2>2, <2>3, <2>4, <2>5, LoopAlone DEF TcpInv
<1>5. ASSUME NEW s \in {"syn", "asking"}, pcb' = [pcb EXCEPT ![made].st = s], reader' = NoReader
      PROVE  TcpInv'
  <2>1. reader' \in ReaderRecord /\ reader'.at = "idle" /\ reader'.c = 0
    BY <1>5 DEF ReaderRecord, NoReader
  <2>2. /\ pcb' \in [Conns -> PcbRecord] /\ (\A d \in Conns : d # n => pcb'[d] = pcb[d])
        /\ pcb'[n].sent = pcb[n].sent /\ pcb'[n].acked = pcb[n].acked /\ pcb'[n].fin = pcb[n].fin
        /\ pcb'[n].st = s
    <3>1. pcb \in [Conns -> PcbRecord] /\ pcb[n] \in PcbRecord
      BY <1>1, <1>2 DEF TcpTypes
    <3> DEFINE p == [pcb[n] EXCEPT !.st = s]
    <3>2. p \in PcbRecord /\ p.st = s /\ p.sent = pcb[n].sent /\ p.acked = pcb[n].acked /\ p.fin = pcb[n].fin
      BY <1>5, <3>1 DEF PcbRecord
    <3>3. pcb' = [pcb EXCEPT ![n] = p] /\ n \in Conns
      BY <1>2, <1>5, <3>1
    <3> HIDE DEF p
    <3> HIDE TcpFields
    <3>4. /\ pcb' \in [Conns -> PcbRecord] /\ (\A d \in Conns : d # n => pcb'[d] = pcb[d])
          /\ pcb'[n] = p
      BY <3>1, <3>2, <3>3
    <3> QED BY <3>2, <3>4
  <2>3. TcpTypes'
    BY <1>1, <2>1, <2>2 DEF TcpTypes
  <2>4. Held(n) /\ Current(n) /\ Evs(n) = {} /\ ~obj[n].pcb /\ ~(n > made)
        /\ ~(callback.at # "idle" /\ callback.c = n)
    BY <1>1, <1>2, <1>3 DEF Held, LifeOk, NewsOk, Current
  <2>5. ASSUME NEW d \in Conns, d # n PROVE ClientOk(d)'
    <3>1. ClientOk(d) /\ QueueSame(d) /\ (Held(d)' <=> Held(d)) /\ obj'[d] = obj[d] /\ pcb'[d] = pcb[d]
          /\ made' \in Nat /\ made' >= made
      BY <1>1, <2>1, <2>2, <2>5 DEF TcpInv, TcpClientInv, ClientOk, QueueSame, Held, Leaving
    <3> QED BY <1>1, <3>1, Untouched
  <2>6. LifeOk(n)'
    BY <1>1, <1>2, <1>3, <2>1, <2>2, <2>4 DEF LifeOk, Current, Held, Leaving, Evs
  <2>7. NewsOk(n)'
    BY <1>1, <1>3, <1>5, <2>2, <2>4, NothingQueued DEF NewsOk, Streams, Upcoming, Called, Current, Evs
  <2>8. FlowOk(n)'
    BY <1>1, <1>2, <1>3, <1>5, <2>2, SMTT(30) DEF FlowOk, Streams, Upcoming, Called, Early
  <2>9. TcpClientInv'
    BY <2>5, <2>6, <2>7, <2>8 DEF TcpClientInv, ClientOk
  <2>10. LoopInv'
    BY <1>1, <2>1 DEF LoopInv
  <2>11. StreamInv'
    <3>1. /\ Unread' = Unread /\ Pending' = Pending /\ Handed' = Handed
          /\ \A at : Called(sock.client, at)' <=> Called(sock.client, at)
      BY <1>1, <2>1 DEF Unread, Pending, Handed, Called
    <3>2. ~Called(sock.client, "disconnect") /\ ~Called(sock.client, "data")
      BY <1>2, <2>4 DEF Called
    <3> QED BY <1>1, <1>2, <2>1, <2>2, <2>4, <3>1, <3>2 DEF StreamInv
  <2> QED BY <2>3, <2>9, <2>10, <2>11 DEF TcpInv
<1> QED BY <1>4, <1>5 DEF Start

LEMMA AckKeeps ==
  ASSUME TcpInv, NEW n, n = sock.client, Ack
  PROVE  TcpInv'
<1> USE TcpFields
<1>1. /\ TcpTypes /\ StreamInv /\ LoopInv /\ reader.at = "ack" /\ reader' = NoReader
      /\ UNCHANGED <<sock, events, callback, made, got>>
  BY DEF TcpInv, Ack, ReaderAt
<1>2. reader' \in ReaderRecord /\ reader'.at = "idle" /\ reader'.c = 0
  BY <1>1 DEF ReaderRecord, NoReader
<1>3. LoopInv'
  BY <1>1, <1>2 DEF LoopInv
<1>4. \A d \in Conns : Held(d)' <=> Held(d)
  BY <1>1, <1>2 DEF Held, Leaving
<1>5. CASE n = 0
  <2>1. UNCHANGED <<obj, pcb>>
    BY <1>5 DEF Ack
  <2>2. TcpTypes'
    BY <1>1, <1>2, <2>1 DEF TcpTypes
  <2>3. StreamInv'
    BY <1>1, <1>2, <1>5 DEF StreamInv, Unread
  <2> QED BY <1>1, <1>3, <1>4, <2>1, <2>2, <2>3, LoopAlone DEF TcpInv
<1>6. CASE n # 0
  <2> DEFINE k == reader.c
             cr == obj[n].credit - k
             ak == IF obj[n].pcb THEN pcb[n].acked + k ELSE pcb[n].acked
  <2>1. n \in Conns /\ Unread + Pending + Handed <= obj[n].credit /\ Pending = k
    BY <1>1, <1>6 DEF StreamInv, Pending
  <2>2. /\ Unread \in Nat /\ Handed \in {0, 1} /\ obj[n].credit \in Nat /\ got \in Nat /\ k \in Nat
        /\ pcb[n].acked \in Nat /\ pcb[n].sent \in Nat /\ RxWindow \in Nat
        /\ pcb[n].st \in Early \union {"open", "over"} /\ obj[n].pcb \in BOOLEAN
    BY <1>1, <2>1
  <2>3. k <= obj[n].credit /\ cr \in Nat /\ ak \in Nat
    <3> HIDE TcpFields
    <3>1. k <= obj[n].credit
      BY <2>1, <2>2
    <3> QED BY <2>2, <3>1
  <2>4. Acked(k) = k
    BY <1>6, <2>2, <2>3 DEF Acked
  <2>5. LifeOk(n) /\ NewsOk(n) /\ FlowOk(n)
    BY <2>1 DEF TcpInv, TcpClientInv
  <2>6. /\ obj' = [obj EXCEPT ![n].credit = cr]
        /\ pcb' = IF obj[n].pcb THEN [pcb EXCEPT ![n].acked = ak] ELSE pcb
    BY <1>6, <2>4 DEF Ack
  <2>7. cr + ak = IF obj[n].pcb THEN obj[n].credit + pcb[n].acked ELSE obj[n].credit + pcb[n].acked - k
    <3> HIDE TcpFields
    <3> QED BY <2>2, <2>3
  <2>20. /\ cr + k = obj[n].credit
         /\ (obj[n].pcb => ak = pcb[n].acked + k) /\ (~obj[n].pcb => ak = pcb[n].acked)
    BY <2>2, <2>3
  <2> HIDE DEF k, cr, ak
  <2>8. /\ obj' \in [Conns -> ObjRecord] /\ (\A d \in Conns : d # n => obj'[d] = obj[d])
        /\ obj'[n].pcb = obj[n].pcb /\ obj'[n].live = obj[n].live /\ obj'[n].released = obj[n].released
        /\ obj'[n].closed = obj[n].closed /\ obj'[n].credit = cr
    <3>1. obj \in [Conns -> ObjRecord] /\ obj[n] \in ObjRecord
      BY <1>1, <2>1 DEF TcpTypes
    <3> DEFINE o == [obj[n] EXCEPT !.credit = cr]
    <3>2. /\ o \in ObjRecord /\ o.pcb = obj[n].pcb /\ o.released = obj[n].released /\ o.live = obj[n].live
          /\ o.closed = obj[n].closed /\ o.credit = cr
      BY <2>3, <3>1 DEF ObjRecord
    <3>3. obj' = [obj EXCEPT ![n] = o] /\ n \in Conns
      BY <2>1, <2>6, <3>1
    <3> HIDE DEF o
    <3> HIDE TcpFields
    <3>4. /\ obj' \in [Conns -> ObjRecord] /\ (\A d \in Conns : d # n => obj'[d] = obj[d])
          /\ obj'[n] = o
      BY <3>1, <3>2, <3>3
    <3> QED BY <3>2, <3>4
  <2>9. /\ pcb' \in [Conns -> PcbRecord] /\ (\A d \in Conns : d # n => pcb'[d] = pcb[d])
        /\ pcb'[n].sent = pcb[n].sent /\ pcb'[n].acked = ak /\ pcb'[n].fin = pcb[n].fin
        /\ pcb'[n].st = pcb[n].st
    <3>1. pcb \in [Conns -> PcbRecord] /\ pcb[n] \in PcbRecord
      BY <1>1, <2>1 DEF TcpTypes
    <3>2. CASE ~obj[n].pcb
      BY <2>6, <2>20, <3>1, <3>2
    <3>3. CASE obj[n].pcb
      <4> DEFINE p == [pcb[n] EXCEPT !.acked = ak]
      <4>2. p \in PcbRecord /\ p.st = pcb[n].st /\ p.sent = pcb[n].sent /\ p.acked = ak /\ p.fin = pcb[n].fin
        BY <2>3, <3>1 DEF PcbRecord
      <4>3. pcb' = [pcb EXCEPT ![n] = p] /\ n \in Conns
        BY <2>1, <2>6, <3>1, <3>3
      <4> HIDE DEF p
      <4> HIDE TcpFields
      <4>4. /\ pcb' \in [Conns -> PcbRecord] /\ (\A d \in Conns : d # n => pcb'[d] = pcb[d])
            /\ pcb'[n] = p
        BY <3>1, <4>2, <4>3
      <4> QED BY <4>2, <4>4
    <3> QED BY <2>2, <3>2, <3>3
  <2>10. TcpTypes'
    BY <1>1, <1>2, <2>8, <2>9 DEF TcpTypes
  <2>11. ASSUME NEW d \in Conns, d # n PROVE ClientOk(d)'
    <3>1. ClientOk(d) /\ QueueSame(d) /\ (Held(d)' <=> Held(d)) /\ obj'[d] = obj[d] /\ pcb'[d] = pcb[d]
          /\ made' \in Nat /\ made' >= made
      BY <1>1, <1>4, <2>8, <2>9, <2>11 DEF TcpInv, TcpClientInv, ClientOk, QueueSame
    <3> QED BY <1>1, <3>1, Untouched
  <2>12. LifeOk(n)'
    BY <1>1, <1>4, <2>1, <2>5, <2>8, <2>9 DEF LifeOk, Called, Current, Evs
  <2>13. NewsOk(n)'
    BY <1>1, <2>5, <2>8, <2>9 DEF NewsOk, Streams, Upcoming, Called, Current, Evs
  <2>14. FlowOk(n)'
    <3> HIDE TcpFields
    <3>1. /\ obj[n].credit + pcb[n].acked <= pcb[n].sent /\ pcb[n].sent <= pcb[n].acked + RxWindow
      BY <2>5 DEF FlowOk
    <3>2. /\ cr + ak <= pcb[n].sent /\ pcb[n].sent <= ak + RxWindow
      <4>1. CASE obj[n].pcb
        BY <2>2, <2>3, <2>7, <2>20, <3>1, <4>1
      <4>2. CASE ~obj[n].pcb
        BY <2>2, <2>3, <2>7, <2>20, <3>1, <4>2
      <4> QED BY <4>1, <4>2
    <3>3. ASSUME Current(n), Upcoming(n) PROVE cr + ak = 0 /\ obj[n].credit + pcb[n].acked = 0
      <4>1. obj[n].credit + pcb[n].acked = 0
        BY <2>5, <3>3 DEF FlowOk
      <4>2. k = 0
        BY <2>2, <2>3, <4>1
      <4> QED BY <2>2, <2>7, <4>1, <4>2
    <3>4. Streams(n) => cr + ak = obj[n].credit + pcb[n].acked
      <4>1. Streams(n) /\ ~obj[n].pcb => Current(n) /\ Upcoming(n)
        BY <2>5 DEF NewsOk, Streams
      <4> QED BY <2>2, <2>7, <3>3, <4>1
    <3>5. /\ (Streams(n)' <=> Streams(n)) /\ (Upcoming(n)' <=> Upcoming(n)) /\ (Current(n)' <=> Current(n))
          /\ Evs(n)' = Evs(n) /\ events' = events
      BY <1>1, <2>8, <2>9 DEF Streams, Upcoming, Called, Current, Evs
    <3> QED BY <2>2, <2>5, <2>8, <2>9, <3>2, <3>3, <3>4, <3>5 DEF FlowOk
  <2>15. TcpClientInv'
    BY <2>11, <2>12, <2>13, <2>14 DEF TcpClientInv, ClientOk
  <2>16. StreamInv'
    <3>1. /\ Unread' = Unread /\ Pending' = 0 /\ Handed' = Handed
          /\ \A at : Called(sock.client, at)' <=> Called(sock.client, at)
      BY <1>1, <1>2 DEF Unread, Pending, Handed, Called
    <3>2. /\ Unread + 0 + Handed <= cr
          /\ (sock.state = "open" => Unread + 0 + Handed = cr)
          /\ (obj[n].pcb => ak + 0 = got)
          /\ (sock.state = "connecting" => cr = 0)
      <4>1. /\ Unread + k + Handed <= obj[n].credit
            /\ (sock.state = "open" => Unread + k + Handed = obj[n].credit)
            /\ (obj[n].pcb => pcb[n].acked + k = got)
            /\ (sock.state = "connecting" => k = 0 /\ obj[n].credit = 0)
        BY <1>1, <1>6, <2>1 DEF StreamInv
      <4> HIDE TcpFields
      <4> QED BY <2>2, <2>3, <2>20, <4>1
    <3>3. AllCame(sock.client) => AllCame(sock.client)'
      BY <1>1, <2>8, <2>9, <3>1 DEF AllCame
    <3>4. Upcoming(sock.client)' => Upcoming(sock.client)
      BY <1>1 DEF Upcoming, Called, Evs
    <3> QED BY <1>1, <1>2, <1>6, <2>1, <2>8, <2>9, <3>1, <3>2, <3>3, <3>4 DEF StreamInv
  <2> QED BY <1>3, <2>10, <2>15, <2>16 DEF TcpInv
<1> QED BY <1>5, <1>6

LEMMA TcpStarts == TcpInit => TcpInv
<1> SUFFICES ASSUME TcpInit PROVE TcpInv
  OBVIOUS
<1>1. MaxConns \in Nat /\ MaxSent \in Nat /\ RxWindow \in Nat
  BY TcpAssumption
<1>2. /\ sock.client = 0 /\ sock.state = "idle" /\ sock.err = 0 /\ sock.rx = <<>>
      /\ reader.at = "idle" /\ reader.c = 0 /\ callback.at = "idle" /\ events = <<>> /\ made = 0 /\ got = 0
      /\ Len(sock.rx) = 0
  BY DEF TcpInit, NoReader, NoCallback
<1>3. \A n \in Conns :
        /\ n \in Nat /\ n > 0
        /\ ~obj[n].live /\ ~obj[n].pcb /\ ~obj[n].released /\ ~obj[n].closed /\ obj[n].credit = 0
        /\ pcb[n].st = "none" /\ pcb[n].sent = 0 /\ pcb[n].acked = 0 /\ ~pcb[n].fin
  BY <1>1 DEF TcpInit, Conns
<1>4. TcpTypes
  <2>1. sock \in TcpRecord
    BY DEF TcpInit, TcpRecord
  <2>2. obj \in [Conns -> ObjRecord] /\ pcb \in [Conns -> PcbRecord]
    BY DEF TcpInit, ObjRecord, PcbRecord
  <2>3. callback \in CallRecord /\ reader \in ReaderRecord
    BY DEF TcpInit, CallRecord, ReaderRecord, NoCallback, NoReader
  <2>4. events \in Seq(TcpEvents)
    BY <1>2
  <2> QED BY <1>1, <1>2, <2>1, <2>2, <2>3, <2>4 DEF TcpTypes
<1>5. \A n : Evs(n) = {}
  BY <1>2 DEF Evs, EventsOf, PlacesOf
<1>6. ASSUME NEW n \in Conns PROVE LifeOk(n) /\ NewsOk(n) /\ FlowOk(n)
  <2>1. ~Held(n)
    BY <1>2, <1>3 DEF Held, Leaving
  <2>2. LifeOk(n)
    BY <1>2, <1>3, <1>5, <2>1 DEF LifeOk, Current
  <2>3. NewsOk(n)
    BY <1>3, <1>5 DEF NewsOk, Current
  <2>4. FlowOk(n)
    BY <1>1, <1>3 DEF FlowOk, Streams, Upcoming, Called, Early
  <2> QED BY <2>2, <2>3, <2>4
<1>7. LoopInv
  BY <1>2 DEF LoopInv
<1>8. StreamInv
  BY <1>1, <1>2 DEF StreamInv, Unread
<1> QED BY <1>4, <1>6, <1>7, <1>8 DEF TcpInv, TcpClientInv

LEMMA TcpKeeps == TcpInv /\ [TcpNext]_tcpVars => TcpInv'
<1> SUFFICES ASSUME TcpInv, [TcpNext]_tcpVars PROVE TcpInv'
  OBVIOUS
<1>1. CASE AsyncTask
  <2>1. ASSUME CloseFreed PROVE TcpInv'
    <3> DEFINE n == Head(events).c
    <3>1. /\ events \in Seq(TcpEvents) /\ events # <<>> /\ Head(events).ev = "release"
          /\ obj' = [obj EXCEPT ![n].pcb = FALSE]
          /\ UNCHANGED <<sock, events, callback, reader, made, got>>
      BY <2>1 DEF CloseFreed, TcpInv, TcpTypes
    <3>2. events[1] = Head(events) /\ 1 \in 1 .. Len(events) /\ Head(events) \in TcpEvents
      BY <3>1, EmptySeq
    <3>3. n \in Conns /\ "release" \in Evs(n)
      BY <3>1, <3>2 DEF TcpEvents, Evs, EventsOf, PlacesOf
    <3>4. PICK m \in Conns \ {failing} : m > n /\ pcb[m].st \in {"syn", "open"} /\ pcb' = [pcb EXCEPT ![m].st = "over"]
      BY <2>1 DEF CloseFreed
    <3>5. n # m
      BY <3>3, <3>4, TcpAssumption DEF Conns
    <3> HIDE DEF n
    <3> QED BY <3>1, <3>3, <3>4, <3>5, CloseFreedKeeps
  <2> QED BY <1>1, <2>1, HandleEventKeeps, StorePcbKeeps, on_connectKeeps, on_dataKeeps, on_errorKeeps,
             on_disconnectKeeps DEF AsyncTask
<1>2. CASE MainLoop
  <2>1. ASSUME NEW next \in {"idle", "open"}, CloseConn(next) PROVE TcpInv'
    BY <2>1, CloseConnKeeps
  <2>2. CASE DropRx
    BY <2>2, DropRxKeeps
  <2>3. CASE ReleaseClient
    BY <2>3, ReleaseClientKeeps
  <2>4. CASE Make
    BY <2>4, MakeKeeps
  <2>5. CASE Start
    BY <2>5, StartKeeps
  <2>6. CASE GiveUp
    BY <2>6, GiveUpKeeps
  <2>7. CASE Ack
    BY <2>7, AckKeeps
  <2>8. ASSUME NEW k \in 1 .. RxWindow, Take(k) PROVE TcpInv'
    BY <2>8, TakeKeeps
  <2> QED BY <1>2, <2>1, <2>2, <2>3, <2>4, <2>5, <2>6, <2>7, <2>8 DEF MainLoop
<1>4. ASSUME UNCHANGED <<sock, obj, pcb, events, callback, reader, made, got>> PROVE TcpInv'
  <2>2. TcpTypes'
    BY <1>4 DEF TcpInv, TcpTypes
  <2>3. \A n \in Conns : Held(n)' <=> Held(n)
    BY <1>4 DEF Held, Leaving
  <2>4. LoopInv'
    BY <1>4 DEF TcpInv, LoopInv
  <2>5. StreamInv'
    BY <1>4 DEF TcpInv, StreamInv, Unread, Pending, Handed, Called, AllCame, Upcoming, Evs
  <2> QED BY <1>4, <2>2, <2>3, <2>4, <2>5, LoopAlone DEF TcpInv
<1>3. CASE Network
  <2>1. PICK n \in Conns : \/ Connected(n) \/ Arrives(n) \/ Ends(n) \/ FindsNone(n) \/ Errs(n)
                           \/ \E found \in BOOLEAN : Resolved(n, found)
    BY <1>3 DEF Network
  <2>2. CASE FindsNone(n)
    BY <1>4, <2>2 DEF FindsNone, tcpipKeeps
  <2> QED BY <2>1, <2>2, ResolvedKeeps, ConnectedKeeps, ArrivesKeeps, EndsKeeps, ErrsKeeps
<1>5. CASE UNCHANGED tcpVars
  BY <1>4, <1>5 DEF tcpVars
<1> QED BY <1>1, <1>2, <1>3, <1>5 DEF TcpNext

\* What every outgoing connection is between two steps.
THEOREM TcpInductive == TcpSpec => []TcpInv
<1> QED BY TcpStarts, TcpKeeps, PTL DEF TcpSpec

LEMMA TcpReads == TcpInv => ReadsTheStream
<1> SUFFICES ASSUME TcpInv PROVE ReadsTheStream
  OBVIOUS
<1>1. TcpTypes /\ StreamInv /\ sock.rx \in Seq(TcpBlocks)
  BY DEF TcpInv, TcpTypes, TcpRecord
<1>2. DOMAIN sock.rx = 1 .. Unread
  BY <1>1 DEF Unread
<1>3. sock.client = 0 /\ ~ReaderAt("drop") => sock.rx = <<>>
  BY <1>1 DEF StreamInv, ReaderAt
<1>4. ASSUME ~ReaderAt("drop"), NEW j \in DOMAIN sock.rx PROVE sock.rx[j] = <<sock.client, got + j>>
  <2>1. sock.client # 0
    BY <1>3, <1>4
  <2> QED BY <1>1, <1>2, <1>4, <2>1 DEF StreamInv
<1>5. sock.state = "open" => pcb[sock.client].st \in {"open", "over"}
  BY <1>1 DEF StreamInv
<1>6. sock.state = "closed" /\ sock.err = 0 => AllCame(sock.client)
  BY <1>1 DEF StreamInv
<1> QED BY <1>4, <1>5, <1>6 DEF ReadsTheStream, AllCame, Unread

LEMMA TcpWindow == TcpInv => WindowFollows
<1> SUFFICES ASSUME TcpInv PROVE WindowFollows
  OBVIOUS
<1>1. TcpTypes /\ StreamInv /\ LoopInv /\ events \in Seq(TcpEvents)
  BY DEF TcpInv, TcpTypes
<1>2. SUFFICES ASSUME sock.state = "open", sock.rx = <<>>, ReaderAt("idle"), callback.at # "data",
                      Coming(sock.client) = {}, pcb[sock.client].st = "open"
               PROVE  pcb[sock.client].acked = pcb[sock.client].sent
  BY <1>1 DEF WindowFollows, StreamInv, Unread
<1> DEFINE m == sock.client
<1>3. m # 0 /\ m \in Conns
  BY <1>1, <1>2 DEF StreamInv
<1>4. obj[m].credit = 0
  <2>1. Unread = 0 /\ Pending = 0 /\ Handed = 0
    BY <1>2 DEF Unread, Pending, Handed, Called, ReaderAt
  <2> QED BY <1>1, <1>2, <1>3, <2>1 DEF StreamInv
<1>5. LifeOk(m) /\ FlowOk(m)
  BY <1>3 DEF TcpInv, TcpClientInv
<1>6. Streams(m)
  BY <1>2, <1>5 DEF LifeOk, Held, Streams
<1>7. Blocks(events, m) = {}
  <2>1. DOMAIN events = 1 .. Len(events)
    BY <1>1
  <2> QED BY <1>2, <2>1 DEF Coming, Blocks, RecvsOf, PlacesOf
<1>8. (obj[m].credit + pcb[m].acked + 1) .. pcb[m].sent = {} /\ obj[m].credit + pcb[m].acked <= pcb[m].sent
  BY <1>5, <1>6, <1>7 DEF FlowOk
<1>9. pcb[m].acked \in Nat /\ pcb[m].sent \in Nat
  BY <1>1, <1>3, TcpFields
<1> DEFINE a == pcb[m].acked
           s == pcb[m].sent
<1>10. (a + 1) .. s = {} /\ a <= s /\ a \in Nat /\ s \in Nat
  BY <1>4, <1>8, <1>9
<1> HIDE DEF a, s
<1>11. a = s
  <2>1. a + 1 <= s => a + 1 \in (a + 1) .. s
    BY <1>10
  <2> QED BY <1>10, <2>1
<1> QED BY <1>11 DEF a, s

LEMMA TcpFrees == TcpInv => ClientsAreFreed
<1> SUFFICES ASSUME TcpInv PROVE ClientsAreFreed
  OBVIOUS
<1>1. TcpTypes /\ StreamInv /\ LoopInv
  BY DEF TcpInv
<1>2. \A n \in Conns : LifeOk(n)
  BY DEF TcpInv, TcpClientInv
<1>3. sock.client # 0 => obj[sock.client].live
  BY <1>1, <1>2 DEF StreamInv, LifeOk, Current, Held
<1>4. ReaderAt("release") => obj[reader.c].live /\ ~obj[reader.c].released
  BY <1>1, <1>2 DEF ReaderAt, LoopInv, LifeOk, Current, Held, Leaving
<1>5. callback.at # "idle" => obj[callback.c].live
  BY <1>1, <1>2 DEF TcpTypes, LifeOk
<1>6. ASSUME ReaderAt("idle"), events = <<>>, NEW n \in Conns, obj[n].live PROVE n = sock.client
  <2>1. Evs(n) = {}
    BY <1>6 DEF Evs, EventsOf, PlacesOf
  <2> QED BY <1>1, <1>2, <1>6, <2>1, TcpFields DEF ReaderAt, LifeOk, Current, Held, Leaving
<1> QED BY <1>3, <1>4, <1>5, <1>6 DEF ClientsAreFreed

\* The types: no connection owes its peer more than a window.
THEOREM TcpTypesForAll == TcpSpec => []TcpTypeOK
<1>1. TcpInv => TcpTypeOK
  <2> SUFFICES ASSUME TcpInv PROVE TcpTypeOK
    OBVIOUS
  <2>1. TcpTypes /\ StreamInv /\ LoopInv
    BY DEF TcpInv
  <2>2. sock.client \in 0 .. made /\ sock.state \in {"idle", "connecting", "open", "closed"}
    BY <2>1, TcpFields DEF StreamInv
  <2>3. ASSUME NEW n \in Conns PROVE obj[n].credit \in 0 .. RxWindow /\ pcb[n].acked \in 0 .. pcb[n].sent
    <3>1. FlowOk(n)
      BY DEF TcpInv, TcpClientInv
    <3> DEFINE k == obj[n].credit
               a == pcb[n].acked
               s == pcb[n].sent
    <3>2. k + a <= s /\ s <= a + RxWindow
      BY <3>1 DEF FlowOk
    <3>3. k \in Nat /\ a \in Nat /\ s \in Nat /\ RxWindow \in Nat
      BY <2>1, TcpFields
    <3> HIDE DEF k, a, s
    <3>4. k \in 0 .. RxWindow /\ a \in 0 .. s
      BY <3>2, <3>3
    <3> QED BY <3>4 DEF k, a, s
  <2>4. reader.c \in 0 .. MaxConns \union 0 .. RxWindow
    <3>1. reader.at \in {"idle", "drop", "release", "open", "start", "failed", "ack"}
      BY <2>1 DEF TcpTypes, ReaderRecord
    <3>2. reader.c = 0 \/ reader.c \in Conns \/ reader.c <= RxWindow
      BY <2>1, <3>1 DEF LoopInv
    <3>3. reader.c \in Nat /\ MaxConns \in Nat /\ RxWindow \in Nat
      BY <2>1, TcpFields
    <3> QED BY <3>2, <3>3 DEF Conns
  <2> QED BY <2>2, <2>3, <2>4 DEF TcpTypeOK
<1> QED BY <1>1, TcpInductive, PTL

\* EGTcpConn: however its callbacks, the packets and the main loop interleave, what is read is
\* the stream of this very connection, the window follows what was read, and clients are freed
\* once, and all of them.
THEOREM StreamsForAll == TcpSpec => []StreamsAreRead
<1>1. TcpInv => StreamsAreRead
  BY TcpReads, TcpWindow, TcpFrees DEF StreamsAreRead
<1> QED BY <1>1, TcpInductive, PTL
=============================================================================
