---- MODULE MCMqttSession ----
\* Bounds for TLC: a QoS 2 message and one more out, a message of either level in, one subscribe.
EXTENDS MqttSession
MCQos == <<2, 1>>
MCInQos == <<{1, 2}>>
====
