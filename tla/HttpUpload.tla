---------------------------- MODULE HttpUpload ----------------------------
(* What a handler of EGHttpServer may rely on: one upload at a time, its    *)
(* events begin, then the data in order, then one end, which is good only   *)
(* when all of it came.                                                     *)
EXTENDS Naturals

CONSTANTS Clients, Parts

VARIABLE upload

Init == upload = [c \in Clients |-> [events |-> "none", got |-> 0]]

Is(c, ev) == upload[c].events = ev

Begin(c) ==
  /\ Is(c, "none") /\ \A d \in Clients : ~Is(d, "begun")
  /\ upload' = [upload EXCEPT ![c].events = "begun"]

Data(c) ==
  /\ Is(c, "begun")
  /\ \E n \in upload[c].got + 1 .. Parts : upload' = [upload EXCEPT ![c].got = n]

End(c) ==
  /\ Is(c, "begun") /\ upload[c].got = Parts
  /\ upload' = [upload EXCEPT ![c].events = "ended"]

Abort(c) == Is(c, "begun") /\ upload' = [upload EXCEPT ![c].events = "aborted"]

Next == \E c \in Clients : Begin(c) \/ Data(c) \/ End(c) \/ Abort(c)

Spec == Init /\ [][Next]_upload
============================================================================
