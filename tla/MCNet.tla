------------------------------- MODULE MCNet -------------------------------
(* For TLC: five parts of the device that share nothing here, each checked  *)
(* by itself in one run; part says which, and the others rest.  The modules *)
(* loop with one module behind the WiFi gate; the HTTP client; the web API; *)
(* the MQTT client; the HTTP server with one slot and one place.            *)
EXTENDS HttpClient, Integers, TLC

CONSTANTS h1, h2, ota_module

VARIABLES
  part,
  w, call, server, turns,
  conf, m, mq, sent, broker, level, birth, lost, spent,
  conn, peer, queue, slot, stream, inFlight, wanted, task, loop, upload,
  quarantined, looping, interval, since, due, order, next_loop_due, request, pending,
  unmet, ota, pc, at, applied, todo, k, hurried

W == INSTANCE WebApi WITH HealthEvery <- 2, MaxIds <- 3, MaxTurns <- 2

Conf(srv, good, hass) == [server |-> srv, good |-> good, hass |-> hass, need |-> 1]

M == INSTANCE MqttClient WITH
       Configs <- {Conf(TRUE, TRUE, TRUE), Conf(TRUE, FALSE, TRUE), Conf(FALSE, TRUE, FALSE)},
       Room <- 4, HassRoom <- 2, Rows <- 1, MaxTurns <- 2

S == INSTANCE HttpServer WITH
       Clients <- {"c1"}, Asks <- [c1 |-> {"page", "upload"}],
       Slots <- 1, MaxInFlight <- 1, Parts <- 2, Window <- 1

R == INSTANCE ModuleRegistry WITH
       Slots <- <<ota_module>>, LoopInterval <- ota_module :> 1, HasLoop <- {ota_module},
       Needs <- ota_module :> {"wifi"}, DuringOta <- {ota_module}, Core <- {ota_module},
       Asked <- {-1, 0, 2}, Half <- 8, MaxInterval <- 2, RetryMax <- 1, WakeMax <- 1,
       Stall <- 1, Away <- 1, age <- since

Reply(kind, by, size, to) == [kind |-> kind, by |-> by, size |-> size, to |-> to]

MCReplies ==
  {Reply("ok", "length", 2, h1), Reply("ok", "close", 1, h1), Reply("ok", "chunks", 1, h1),
   Reply("see", "length", 0, h2), Reply("moved", "length", 0, h2),
   Reply("wait", "length", 0, h1), Reply("junk", "length", 0, h1)}

------------------------------------------------------------------------
http == <<c, tcp, quiet, age, told>>
web == <<w, call, server, turns>>
mqtt == <<conf, m, mq, sent, broker, level, birth, lost, spent>>
httpd == <<conn, peer, queue, slot, stream, inFlight, wanted, task, loop, upload>>
modules == <<quarantined, looping, interval, since, due, order, next_loop_due, request,
             pending, unmet, ota, pc, at, applied, todo, k, hurried>>

parts == <<http, web, mqtt, httpd, modules>>

NetInit ==
  /\ part \in {"http", "web", "mqtt", "server", "loop"}
  /\ Init /\ W!Init /\ M!Init /\ S!Init /\ R!Init
  /\ part # "web" => w.mode = 0
  /\ part # "mqtt" => ~conf.server
  /\ part # "loop" => ~ota

HttpNext ==
  /\ part = "http"
  /\ UNCHANGED <<part, web, mqtt, httpd, modules>>
  /\ Next
WebNext ==
  /\ part = "web"
  /\ UNCHANGED <<part, http, mqtt, httpd, modules>>
  /\ W!Next
MqttNext ==
  /\ part = "mqtt"
  /\ UNCHANGED <<part, http, web, httpd, modules>>
  /\ M!Next
ServerNext ==
  /\ part = "server"
  /\ UNCHANGED <<part, http, web, mqtt, modules>>
  /\ S!Next
LoopNext ==
  /\ part = "loop"
  /\ UNCHANGED <<part, http, web, mqtt, httpd>>
  /\ R!Next

\* The fairness of each module, while it is the one that runs.
HttpFair ==
  WF_http(part = "http" /\ Step) /\ WF_http(part = "http" /\ TimePasses)
WebFair ==
  /\ WF_web(part = "web" /\ W!Loop) /\ WF_web(part = "web" /\ W!HandshakeDue)
  /\ WF_web(part = "web" /\ W!PingDue)
  /\ WF_web(part = "web" /\ (W!Serve \/ W!Arrive \/ W!Fail))
MqttFair ==
  /\ WF_mqtt(part = "mqtt" /\ M!TickStep({}, TRUE)) /\ WF_mqtt(part = "mqtt" /\ M!Due)
  /\ WF_mqtt(part = "mqtt" /\ M!Forget) /\ WF_mqtt(part = "mqtt" /\ M!Deliver)
  /\ WF_mqtt(part = "mqtt" /\ M!Works("up")) /\ WF_mqtt(part = "mqtt" /\ M!Works("ack"))
  /\ SF_mqtt(part = "mqtt" /\ M!Works("none"))
ServerFair ==
  /\ WF_httpd(part = "server" /\ S!Task) /\ WF_httpd(part = "server" /\ S!Tick)
  /\ WF_httpd(part = "server" /\ S!Expire("c1"))
LoopFair ==
  WF_modules(part = "loop" /\ R!LoopTask) /\ WF_modules(part = "loop" /\ R!Tick)

NetNext == HttpNext \/ WebNext \/ MqttNext \/ ServerNext \/ LoopNext

NetSpec ==
  /\ NetInit /\ [][NetNext]_<<part, parts>>
  /\ HttpFair /\ WebFair /\ MqttFair /\ ServerFair /\ LoopFair

------------------------------------------------------------------------
\* The types of the parts.
TypesOK ==
  CASE part = "http" -> TypeOK
    [] part = "web" -> W!TypeOK
    [] part = "mqtt" -> M!TypeOK
    [] part = "server" -> S!TypeOK
    [] part = "loop" -> R!TypeOK

\* WebAPI: a reply comes to the handler that asked for it, a forget is taken, and
\* who shares comes to be the station the server knows.
StationIsKept == []W!RightHandler /\ W!ForgetIsTaken /\ W!StaysRegistered

\* MQTT_Client: no alarm is forgotten, and the broker comes to show that the
\* device is there and all its entities.
BrokerHearsUs == []M!AlarmsAreKept /\ M!SaysOnline /\ M!BirthIsAnswered

\* EGHttpServer: every connection is given back, with its slot and the stream.
AllGivenBack == S!AllGivenBack

\* EGModuleRegistry: it keeps looping, and every request is taken.
LoopIsFair == ([]<>(part # "loop") \/ R!KeepsLooping) /\ R!RequestsAreTaken
============================================================================
