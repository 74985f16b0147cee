------------------------------ MODULE MCTiming ------------------------------
(* For TLC: what clocks, timers and interrupts drive, four parts that       *)
(* share nothing here, each checked by itself in one run; part says which,  *)
(* and the others rest.  The modules loop: the OTA module, which safe mode  *)
(* keeps, and an uploader, behind the upload pause and with an interval     *)
(* above the longest.  The pulses of the high voltage, at duties that       *)
(* change.  The commands to the NMI, by the loop, which has two pins, and   *)
(* an interrupt.  The push button, on one of two pins, and the alarms.      *)
EXTENDS ModuleRegistry, PwmTrain, EdgeCommands, PushButton, TLC

CONSTANTS ota_module, uploader, led, buzzer, relay, left, right, none

VARIABLE part

\* two modules that may ask for other intervals
MCTwoSlots == <<ota_module, uploader>>
MCTwoLoopInterval == (ota_module :> 1) @@ (uploader :> 3)
MCTwoNeeds == (ota_module :> {}) @@ (uploader :> {"upload"})
MCAsked == {Off, 2}

TimingInit ==
  /\ part \in {"loop", "train", "edge", "button"}
  /\ Init /\ TrainInit /\ EdgeInit /\ ButtonInit
  /\ part # "loop" => ota = FALSE /\ quarantined = {}
  /\ part # "button" => line = {}

LoopNext == part = "loop" /\ UNCHANGED <<part, trainVars, edgeVars, buttonVars>> /\ Next
PulsesNext == part = "train" /\ UNCHANGED <<part, vars, edgeVars, buttonVars>> /\ TrainNext
CommandsNext == part = "edge" /\ UNCHANGED <<part, vars, trainVars, buttonVars>> /\ EdgeNext
PressesNext == part = "button" /\ UNCHANGED <<part, vars, trainVars, edgeVars>> /\ ButtonNext

TimingNext == LoopNext \/ PulsesNext \/ CommandsNext \/ PressesNext

TimingSpec ==
  TimingInit /\ [][TimingNext]_<<part, vars, trainVars, edgeVars, buttonVars>>

------------------------------------------------------------------------
\* The types of the parts.
TypesOK ==
  CASE part = "loop" -> TypeOK
    [] part = "train" -> TrainTypeOK
    [] part = "edge" -> EdgeTypeOK
    [] part = "button" -> ButtonTypeOK
=============================================================================
