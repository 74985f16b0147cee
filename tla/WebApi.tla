------------------------------ MODULE WebApi ------------------------------
(* The station network: a handshake registers the device's key as a station, *)
(* posts carry its readings, and a forget deletes it.  One EGHttpClient, used *)
(* for one request at a time, serves all three; the server may not hear a    *)
(* request, and the device may not hear the reply.                           *)
EXTENDS Naturals

CONSTANTS
  HealthEvery,   \* WEBAPI_HEALTH_EVERY
  MaxIds, MaxTurns  \* bounds of the run: stations given out, presses and reboots

VARIABLES
  w,       \* WebAPI: station, mode, forget, sent, hs, ping, health, parked
  call,    \* request: its stage, its kind, the station it carries, the reply
  server,  \* the station of our key, and the last id it gave out
  turns    \* presses and reboots so far

webVars == <<w, call, server, turns>>

Timers == {"unset", "waiting", "due"}

NoCall == [stage |-> "idle", kind |-> "none", id |-> 0, reply |-> "none"]

Fresh(mode) == [station |-> 0, mode |-> mode, forget |-> FALSE, sent |-> "none",
                hs |-> "unset", ping |-> "unset", health |-> 0, parked |-> mode = 0]

Init ==
  /\ w \in {Fresh(m) : m \in 0 .. 2} /\ call = NoCall
  /\ server = [id |-> 0, last |-> 0] /\ turns = 0

------------------------------------------------------------------------
(* loop(): each part takes what the one before left, [w, call]. *)

Idle(s) == s.call.stage = "idle"

NextHealth(h) == (h + 1) % HealthEvery

OnHandshake(v, r) ==
  CASE r.reply = "ok"      -> [v EXCEPT !.station = r.id, !.hs = "waiting"]
    [] r.reply = "limited" -> v
    [] OTHER               -> [v EXCEPT !.hs = "waiting"]

\* mutant: a post that is denied keeps its station
OnPostKept(v, r) == IF r.reply = "ok" THEN [v EXCEPT !.health = NextHealth(@)] ELSE v

\* Any 403, the one for a clock that is off too, drops the station.
OnPost(v, r) ==
  CASE r.reply = "ok" -> [v EXCEPT !.health = NextHealth(@)]
    [] r.reply \in {"denied", "clock_off"} -> [v EXCEPT !.station = 0, !.hs = "unset"]
    [] OTHER -> v

OnForget(v, r) ==
  IF r.reply \in {"ok", "denied"}
  THEN [v EXCEPT !.station = 0, !.hs = "unset", !.ping = "unset", !.health = 0]
  ELSE v

\* takeDone() and take_reply(): by what was sent, not by what came.
TakeReply(s) ==
  IF s.call.stage # "done" THEN s
  ELSE LET v == [s.w EXCEPT !.sent = "none"] IN
       [call |-> NoCall,
        w |-> CASE s.w.sent = "handshake" -> OnHandshake(v, s.call)
                [] s.w.sent = "post"      -> OnPost(v, s.call)
                [] s.w.sent = "forget"    -> OnForget(v, s.call)
                [] OTHER                  -> v]

\* _sent and open(): when it is refused no reply will come.
Sent(s, kind, opens) ==
  IF opens
  THEN [w |-> [s.w EXCEPT !.sent = kind],
        call |-> [stage |-> "asked", kind |-> kind, id |-> s.w.station, reply |-> "none"]]
  ELSE [s EXCEPT !.w.sent = "none"]

SendForget(s, works) ==
  LET u == [s EXCEPT !.w.forget = FALSE] IN
  IF ~s.w.forget \/ ~Idle(s) THEN s
  ELSE IF s.w.station = 0 THEN u ELSE Sent(u, "forget", works)

\* doHandshake(): the backoff comes first, whatever fails after it.
DoHandshake(s, works) ==
  LET u == [s EXCEPT !.w.hs = "waiting"] IN IF Idle(s) THEN Sent(u, "handshake", works) ELSE u

\* A signature that fails is tried again in the next loop.
PostMeasurement(s, works, signs) ==
  IF ~signs THEN [s EXCEPT !.w.ping = "due"]
  ELSE IF Idle(s) THEN Sent(s, "post", works) ELSE s

PingIfDue(s, works, signs) ==
  LET u == [s EXCEPT !.w.ping = "waiting"] IN
  IF s.w.ping # "due" THEN u
  ELSE IF s.w.mode = 2 \/ s.w.health = 0 THEN PostMeasurement(u, works, signs)
       ELSE [u EXCEPT !.w.health = NextHealth(@)]

Uploads(s, works, signs) ==
  CASE s.w.mode = 0       -> [s EXCEPT !.w.parked = Idle(s)]
    [] s.w.mode # 0 /\ s.w.hs = "unset" -> [s EXCEPT !.w.hs = "waiting"]
    [] s.w.mode # 0 /\ s.w.hs = "due"   -> DoHandshake(s, works)
    [] OTHER -> IF s.w.station # 0 THEN PingIfDue(s, works, signs) ELSE s

LoopStep(works, signs) ==
  /\ ~w.parked
  /\ LET s == Uploads(SendForget(TakeReply([w |-> w, call |-> call]), works), works, signs)
     IN  w' = s.w /\ call' = s.call
  /\ UNCHANGED <<server, turns>>

Loop == \E works, signs \in BOOLEAN : LoopStep(works, signs)

------------------------------------------------------------------------
HandshakeDue == w.hs = "waiting" /\ w' = [w EXCEPT !.hs = "due"] /\ UNCHANGED <<call, server, turns>>
PingDue == w.ping = "waiting" /\ w' = [w EXCEPT !.ping = "due"] /\ UNCHANGED <<call, server, turns>>

\* on_prefs_loaded(): the loop stops when there is nothing left to do.
PrefsLoaded(v) == [v EXCEPT !.parked = v.mode = 0 /\ ~v.forget /\ call.stage = "idle"]

SaveMode(m) ==
  /\ turns < MaxTurns /\ turns' = turns + 1 /\ m # w.mode
  /\ w' = PrefsLoaded([w EXCEPT !.mode = m])
  /\ UNCHANGED <<call, server>>

\* hForget.  Whoever has the page, an old one too, may press it: the mode is
\* saved, and on_prefs_loaded() called, only if the sharing was still on.
PressForget ==
  /\ turns < MaxTurns /\ turns' = turns + 1
  /\ w' = IF w.mode = 0 THEN [w EXCEPT !.forget = TRUE]
          ELSE PrefsLoaded([w EXCEPT !.forget = TRUE, !.mode = 0])
  /\ UNCHANGED <<call, server>>

\* With the key reset the next handshake registers another station.
Reboot ==
  /\ turns < MaxTurns /\ turns' = turns + 1
  /\ w' = Fresh(w.mode) /\ call' = NoCall
  /\ \E keep \in BOOLEAN : server' = [server EXCEPT !.id = IF keep THEN @ ELSE 0]

------------------------------------------------------------------------
(* The server. *)

Reply(r) == call' = [call EXCEPT !.stage = "served", !.reply = r] /\ UNCHANGED <<w, turns>>

Known == call.id = server.id /\ server.id # 0

Register ==
  /\ call.stage = "asked" /\ call.kind = "handshake"
  /\ server.id # 0 \/ server.last < MaxIds
  /\ LET id == IF server.id = 0 THEN server.last + 1 ELSE server.id IN
       /\ server' = [id |-> id, last |-> IF id > server.last THEN id ELSE server.last]
       /\ call' = [call EXCEPT !.stage = "served", !.reply = "ok", !.id = id]
  /\ UNCHANGED <<w, turns>>

Store ==
  /\ call.stage = "asked" /\ call.kind = "post"
  /\ Reply(IF Known THEN "ok" ELSE "denied") /\ UNCHANGED server

Delete ==
  /\ call.stage = "asked" /\ call.kind = "forget"
  /\ Reply(IF Known THEN "ok" ELSE "denied")
  /\ server' = [server EXCEPT !.id = IF Known THEN 0 ELSE @]

\* The sender's clock is off, it asks too often, or the server fails.
Refuse ==
  /\ call.stage = "asked"
  /\ \E r \in {"clock_off", "limited", "error"} : Reply(r)
  /\ UNCHANGED server

Arrive == call.stage = "served" /\ call' = [call EXCEPT !.stage = "done"] /\ UNCHANGED <<w, server, turns>>

Fail ==
  /\ call.stage \in {"asked", "served"}
  /\ call' = [call EXCEPT !.stage = "done", !.reply = "error"]
  /\ UNCHANGED <<w, server, turns>>

Next ==
  \/ Loop \/ HandshakeDue \/ PingDue \/ PressForget \/ Reboot
  \/ \E m \in 0 .. 2 : SaveMode(m)
  \/ Register \/ Store \/ Delete \/ Refuse \/ Arrive \/ Fail

\* The loop runs, time passes, and a request is served and answered or fails.
Serve == Register \/ Store \/ Delete \/ Refuse

Fairness ==
  /\ WF_webVars(Loop) /\ WF_webVars(HandshakeDue) /\ WF_webVars(PingDue)
  /\ WF_webVars(Serve \/ Arrive \/ Fail)

Spec == Init /\ [][Next]_webVars /\ Fairness

\* What keeps a request from being sent, served and answered.
Fails == (Loop /\ ~LoopStep(TRUE, TRUE)) \/ Refuse \/ Fail

------------------------------------------------------------------------
TypeOK ==
  /\ w.station \in 0 .. MaxIds /\ w.mode \in 0 .. 2 /\ w.hs \in Timers /\ w.ping \in Timers
  /\ w.health \in 0 .. HealthEvery - 1 /\ w.forget \in BOOLEAN /\ w.parked \in BOOLEAN
  /\ call.stage \in {"idle", "asked", "served", "done"} /\ server.id \in 0 .. MaxIds

\* One client serves three kinds of request, refused, skipped and cut short at
\* any step: the reply of each goes to its own handler.
RightHandler == call.stage # "idle" => w.sent = call.kind

\* A forget that finds the loop running is not left waiting, though it switches
\* the sharing off, and a loop without sharing stops: it does so only after it
\* took the forget, whatever is in flight, saved and pressed meanwhile.  (One
\* that is pressed while the loop stands still waits until sharing is on again.)
ForgetIsTaken ==
  /\ [][~w.parked /\ w'.forget => ~w'.parked]_webVars
  /\ (w.forget /\ ~w.parked) ~> ~w.forget

\* Once requests get through, a device that shares comes to be the station the
\* server knows, whatever was lost, refused, forgotten or reset before.
StaysRegistered ==
  <>[][~Fails]_webVars => []<>(w.mode = 0 \/ (w.station # 0 /\ w.station = server.id))

\* "sent when idle, even once off" (WebAPI.h): a forget of a device that has a
\* station is given up as there is none only when the server has none.
ForgetReachesTheServer ==
  [][w.forget /\ w.station # 0 /\ ~w'.forget /\ w'.station = 0 /\ turns' = turns
       => server.id = 0]_webVars
============================================================================
