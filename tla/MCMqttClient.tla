---------------------------- MODULE MCMqttClient ----------------------------
(* For TLC: settings that are changed to others whose CONNECT is longer.    *)
EXTENDS MqttClient

MCConfigs ==
  {[server |-> TRUE, good |-> TRUE, hass |-> TRUE, need |-> n] : n \in 1 .. 2}
=============================================================================
