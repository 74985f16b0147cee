----------------------------- MODULE HttpCall -----------------------------
(* What a caller of EGHttpClient may rely on: one call at a time, each ended *)
(* once, and taken once unless it was refused or aborted.                  *)
VARIABLE call

Calls == {"free", "open", "sent", "ok", "failed"}

Init == call = "free"

Open == call = "free" /\ call' \in {"open", "free"}

Send == call = "open" /\ call' = "sent"

\* Only a call that was sent can end well.
End == \/ call = "sent" /\ call' = "ok"
       \/ call \in {"open", "sent"} /\ call' = "failed"

Take == call \in {"ok", "failed"} /\ call' = "free"

Abort == call \in {"open", "sent"} /\ call' = "free"

Next == Open \/ Send \/ End \/ Take \/ Abort

Safety == Init /\ [][Next]_call

\* Nothing of the caller is needed for a call to end.
Ends == []<>(call \notin {"open", "sent"})

Spec == Safety /\ Ends
============================================================================
