------------------------------- MODULE Poster -------------------------------
(* A poster of readings (EGHttpPoster: Radmon, ThingSpeak, Webhook, GMC):   *)
(* one request every interval, in a slot of its own, over a loop that is    *)
(* called late, or not while the Wi-Fi is down.  Times are ages.            *)
EXTENDS Integers

CONSTANTS
  Intervals,   \* pingIntervalMs
  Far, Near, Early, Nap,  \* of sleep_until(): 60000, 2000, 1000, and 100 or 200
  ReplyPoll,   \* loop_interval_ms()
  Retry,       \* for how long a closed gate puts the loop off at most
  Deadline,    \* setDeadline(): a request ends by then
  Late,        \* bound: how late the loop is, the gate open
  Missed       \* bound: the intervals missed that are told apart

\* The loop naps for no longer than a reply's poll or a closed gate puts it off.
ASSUME PosterAssumption ==
  /\ Intervals \subseteq Nat \ {0}
  /\ {Far, Near, Early, Nap, ReplyPoll, Retry, Deadline, Late} \subseteq Nat
  /\ Early <= Near /\ Near <= Far /\ Nap <= Retry
  /\ Missed \in Nat \ {0}

VARIABLES
  interval,    \* pingIntervalMs
  sending,     \* _send_enabled
  started,     \* lastPing # 0, which it will not be again but once in 2^32 ms
  ago,         \* now - lastPing
  request,     \* request # nullptr
  age,         \* of the request, up to its deadline
  wake,        \* until the loop is due, negative when late; Asleep
  gate,        \* requires_wifi
  slot, posts, \* ghosts: since the slot began, by the clock; posts in it
  free         \* ghost: for how long nothing has hindered a post

posterVars == <<interval, sending, started, ago, request, age, wake, gate, slot, posts, free>>

\* The interval of -1, longer than any other.
Asleep == Far + ReplyPoll + Retry + Nap + 1

Least(a, b) == IF a <= b THEN a ELSE b
Most(a, b) == IF a >= b THEN a ELSE b

\* When the gate opens or a reply is in, the loop comes that much later at most.
Slack == Late + Most(ReplyPoll, Retry)

\* sleep_until(), that long before the next slot
SleepUntil(until) ==
  IF until <= 0 THEN Nap
  ELSE IF until > Far THEN Far
  ELSE IF until > Near THEN until - Early ELSE Nap

\* on_prefs_loaded(): the interval holds from now on, set_enabled() wakes the loop.
PrefsLoaded(i, on) ==
  /\ interval' = i /\ sending' = on
  /\ IF on \/ request THEN wake' \in 0 .. ReplyPoll ELSE wake' = Asleep
  /\ IF i = interval THEN UNCHANGED <<slot, posts>> ELSE slot' = ago % i /\ posts' = 0
  /\ free' = 0
  /\ UNCHANGED <<started, ago, request, age, gate>>

\* mutant: one interval at a time
SlottedOnce(a) == a - interval

\* Whole intervals go: what is left of the time since lastPing.
Slotted(a) == a % interval

\* post(): the last reply is not in yet, there is nothing to send or it cannot be
\* sent, or it is.
Post(flying) ==
  IF flying THEN request' = TRUE /\ UNCHANGED <<age, posts>>
  ELSE \/ request' = FALSE /\ UNCHANGED <<age, posts>>
       \/ request' = TRUE /\ age' = 0 /\ posts' = posts + 1

\* initial_ping(): when a post would have come.
Start(flying) ==
  /\ started' = TRUE /\ ago' \in 1 .. interval
  /\ slot' = ago' % interval /\ posts' = 0
  /\ request' = flying /\ UNCHANGED age

\* takeDone() sees the reply, or that the deadline is over; then the next post.
PosterLoop(done) ==
  /\ wake <= 0 /\ gate
  /\ done => request
  /\ request /\ age = Deadline => done
  /\ LET flying == request /\ ~done
     IN  \/ /\ ~sending /\ request' = flying /\ wake' = IF flying THEN ReplyPoll ELSE Asleep
            /\ UNCHANGED <<started, ago, age, slot, posts>>
         \/ /\ sending
            /\ \/ ~started /\ Start(flying)
               \/ /\ started /\ ago < interval /\ request' = flying
                  /\ UNCHANGED <<started, ago, age, slot, posts>>
               \/ /\ started /\ ago >= interval /\ ago' = Slotted(ago)
                  /\ Post(flying) /\ UNCHANGED <<started, slot>>
            /\ wake' = IF request' THEN ReplyPoll ELSE SleepUntil(interval - ago')
  /\ free' = 0
  /\ UNCHANGED <<interval, sending, gate>>

\* Behind the closed gate the loop is put off.
Defer ==
  /\ wake <= 0 /\ ~gate /\ wake' \in 1 .. Retry
  /\ UNCHANGED <<interval, sending, started, ago, request, age, gate, slot, posts, free>>

\* The Wi-Fi goes and comes.
Gate ==
  /\ gate' = ~gate /\ free' = 0
  /\ UNCHANGED <<interval, sending, started, ago, request, age, wake, slot, posts>>

Tick ==
  /\ wake = Asleep \/ (IF gate THEN wake > -Late ELSE wake > 0)
  /\ wake' = IF wake = Asleep THEN Asleep ELSE wake - 1
  /\ ago' = IF ~started THEN ago ELSE IF ago + 1 >= Missed * interval THEN ago + 1 - interval ELSE ago + 1
  /\ age' = Least(age + 1, Deadline)
  /\ slot' = (slot + 1) % interval
  /\ posts' = IF slot + 1 >= interval THEN 0 ELSE posts
  /\ free' = IF gate /\ ~request /\ sending THEN Least(free + 1, Slack + 1) ELSE 0
  /\ UNCHANGED <<interval, sending, started, request, gate>>

PosterInit ==
  /\ interval \in Intervals /\ sending \in BOOLEAN /\ started = FALSE /\ ago = 0
  /\ request = FALSE /\ age = 0 /\ wake = (IF sending THEN ReplyPoll ELSE Asleep) /\ gate = FALSE
  /\ slot = 0 /\ posts = 0 /\ free = 0

PosterNext ==
  \/ \E i \in Intervals, on \in BOOLEAN : PrefsLoaded(i, on)
  \/ \E done \in BOOLEAN : PosterLoop(done)
  \/ Defer \/ Gate \/ Tick

PosterSpec == PosterInit /\ [][PosterNext]_posterVars

------------------------------------------------------------------------
PosterTypeOK ==
  /\ interval \in Intervals /\ ago \in Nat /\ age \in 0 .. Deadline
  /\ wake \in -Late .. Asleep /\ posts \in Nat /\ slot \in 0 .. interval - 1

\* However late the loop is, and for however long there was no Wi-Fi, posts keep the slot
\* that the poster was given, and a slot gets one at most: what was missed is not made up for.
KeepsSlot == started => ago % interval = slot /\ posts <= 1

\* With Wi-Fi and no reply to wait for, a slot is not slept through.
NotOverslept == started /\ sending /\ ago > interval + Slack => free <= Slack

\* Switched off in the middle of a post, the poster keeps looping until the reply is
\* in and nothing is held, and only then sleeps for good.
LetsGo == wake = Asleep => ~request /\ ~sending

PostsKeepTheirSlot == KeepsSlot /\ NotOverslept /\ LetsGo
=============================================================================
