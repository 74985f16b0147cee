---------------------------- MODULE MqttDelivery ----------------------------
(***************************************************************************)
(* What a QoS 1 or 2 publish of EGMqtt promises its caller, with no        *)
(* connection, packet or outbox in sight: a message the outbox accepted is *)
(* taken by the broker, in the order of the publishes, and acked to the    *)
(* caller only after that.  Nothing is dropped but by stop().              *)
(* MqttSession implements it.                                              *)
(***************************************************************************)
EXTENDS Naturals

CONSTANT N              \* messages 1..N, in the order they are published

VARIABLE status         \* of each message

Messages == 1..N

Init == status = [m \in Messages |-> "unpublished"]

Becomes(m, from, to) == status[m] = from /\ status' = [status EXCEPT ![m] = to]

Publish(m) == /\ \A k \in 1..(m - 1) : status[k] # "unpublished"
              /\ Becomes(m, "unpublished", "queued")

\* A message never overtakes one published before it.
Take(m) == /\ \A k \in 1..(m - 1) : status[k] # "queued"
           /\ Becomes(m, "queued", "taken")

Ack(m) == Becomes(m, "taken", "acked")

\* A lost session may release several messages at once (settle).
Settle(S) == /\ \A m \in S : status[m] = "taken"
             /\ status' = [m \in Messages |-> IF m \in S THEN "acked" ELSE status[m]]

\* stop() drops the queue.
Drop == status' = [m \in Messages |-> IF status[m] \in {"queued", "taken"} THEN "dropped" ELSE status[m]]

Next == \/ \E m \in Messages : Publish(m) \/ Take(m) \/ Ack(m)
        \/ \E S \in SUBSET Messages : Settle(S)
        \/ Drop

Spec == Init /\ [][Next]_status
=============================================================================
