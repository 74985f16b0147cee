----------------------------- MODULE MCReadings -----------------------------
(* For TLC: where clicks come in, are kept, sent and shown, six parts that  *)
(* share nothing here, each checked by itself in one run; part says which,  *)
(* and the others rest.  The lifetime total, with a sync that moves the     *)
(* clock by more than a save interval, either way; the log on the SD card;  *)
(* a poster of readings, with an interval above and one below the longest   *)
(* that sleep_until() asks for; the pin of the tube; the clicks of two      *)
(* producers over UDP; the pin that shows clicks.                           *)
EXTENDS Lifetime, SdLog, Poster, PulseInput, PulseOut, UdpClicks, TLC

CONSTANTS p1, p2

VARIABLE part

MCSteps == {-5, 5}

MCClickLimit == p1 :> 4 @@ p2 :> 1
MCMaxUp == p1 :> 2 @@ p2 :> 0

ReadingsInit ==
  /\ part \in {"lifetime", "sd", "poster", "tube", "udp", "blip"}
  /\ Init /\ SdInit /\ PosterInit /\ TubeInit /\ UdpInit /\ BlipInit
  /\ part # "poster" => interval = 4 /\ ~sending
  /\ part # "tube" => us = 0
  /\ part # "udp" => listen = "sum"
  /\ part # "blip" => mode = "pulse"

LifetimePart ==
  part = "lifetime" /\ UNCHANGED <<part, udpVars, sdVars, posterVars, inputVars, pulseOutVars>> /\ Next
SdPart ==
  part = "sd" /\ UNCHANGED <<part, udpVars, vars, posterVars, inputVars, pulseOutVars>> /\ SdNext
PosterPart ==
  part = "poster" /\ UNCHANGED <<part, udpVars, vars, sdVars, inputVars, pulseOutVars>> /\ PosterNext
TubePart ==
  part = "tube" /\ UNCHANGED <<part, udpVars, vars, sdVars, posterVars, pulseOutVars>> /\ TubeNext
UdpPart ==
  part = "udp" /\ UNCHANGED <<part, vars, sdVars, posterVars, inputVars, pulseOutVars>> /\ UdpNext
BlipPart ==
  part = "blip" /\ UNCHANGED <<part, udpVars, vars, sdVars, posterVars, inputVars>> /\ BlipNext

ReadingsNext == LifetimePart \/ SdPart \/ PosterPart \/ TubePart \/ UdpPart \/ BlipPart

ReadingsSpec ==
  ReadingsInit
  /\ [][ReadingsNext]_<<part, udpVars, vars, sdVars, posterVars, inputVars, pulseOutVars>>

------------------------------------------------------------------------
\* The types of the parts.
TypesOK ==
  CASE part = "lifetime" -> TypeOK
    [] part = "sd" -> SdTypeOK
    [] part = "poster" -> PosterTypeOK
    [] part = "tube" -> TubeTypeOK
    [] part = "udp" -> UdpTypeOK
    [] part = "blip" -> BlipTypeOK

\* GeigerInput: edges count by the debounce however the clock wraps, and an input that
\* was parked comes back.  UdpRx: however datagrams are lost, repeated or overtaken and
\* producers boot, none of their clicks counts twice and what a lost one carried is made
\* good.  PulseOut: what is lit is put out again, and the rate of the clicks shown is
\* kept in the long run.
PulsesInAndOut == /\ part = "tube" => PulsesAreCounted
                  /\ part = "udp" => ClicksCountOnce
                  /\ part = "blip" => ClicksAreShown
=============================================================================
