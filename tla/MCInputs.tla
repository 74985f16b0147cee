------------------------------ MODULE MCInputs ------------------------------
(* For TLC: parts of the device that share nothing here, each checked by    *)
(* itself in one run; part says which, and the others rest.  The HTTP       *)
(* server with two uploads at once; an outgoing connection after another;   *)
(* the hours of the tally.                                                  *)
EXTENDS HttpServer, TcpConn, HourTally, TLC

CONSTANTS c1, c2

VARIABLE part

MCMoves == {-3, -1, 1, 5}
MCAsks == c1 :> {"upload"} @@ c2 :> {"upload"}

InputsInit ==
  part \in {"server", "conn", "hours"} /\ Init /\ TcpInit /\ HourInit

ServerNext == part = "server" /\ UNCHANGED <<part, hourVars, tcpVars>> /\ Next
ConnNext == part = "conn" /\ UNCHANGED <<part, hourVars, httpdVars>> /\ TcpNext
HoursNext == part = "hours" /\ UNCHANGED <<part, httpdVars, tcpVars>> /\ HourNext

InputsNext == ServerNext \/ ConnNext \/ HoursNext

InputsSpec == InputsInit /\ [][InputsNext]_<<part, httpdVars, tcpVars, hourVars>>

------------------------------------------------------------------------
\* The types of the parts.
TypesOK ==
  CASE part = "server" -> TypeOK
    [] part = "conn" -> TcpTypeOK
    [] part = "hours" -> HourTypeOK
============================================================================
