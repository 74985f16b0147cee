---------------------------- MODULE EdgeCommands ----------------------------
(* How the program tells EGTimer1's NMI to start and stop the waveforms of  *)
(* analogWrite() and tone(): one slot for a command, a number to know its   *)
(* answer by, and a timer that is armed while there is something to do.     *)
(* post() is called by the main loop, and may be by an interrupt that comes *)
(* while the loop is in it, as the API of the core allows; the NMI comes    *)
(* between any two of their stores.  Every pin has one owner (PinSafety);   *)
(* time is left to chance.                                                  *)
EXTENDS Naturals, Sequences, FiniteSets

CONSTANTS
  LoopPins, InterruptPins,  \* by owner
  NoPin,                 \* no pin
  SoftMax,               \* EGT1_SOFT_MAX
  Bits,                  \* of ok_bits, 32; more than MaxPosts, or a bit is used again
  MaxPosts               \* bound of the run: commands that reach the slot

ASSUME EdgeAssumption ==
  /\ NoPin \notin LoopPins \union InterruptPins /\ SoftMax \in Nat
  /\ Bits \in Nat /\ MaxPosts \in Nat /\ Bits > MaxPosts

VARIABLES
  op, cmd,         \* EGT1Cmd: op, and the pin, run and number (cmd_seq)
  seq, done,       \* s_seq and Gen::done
  ok_bits,         \* answers, by number
  soft,            \* EGT1Soft: the pin, its level and whether the run ends
  timed,           \* tmr_on: the callback of the test pulses
  armed,           \* ~Gen::idle
  caller,          \* of each caller: what it does, its stores to come, its number
  fate, told       \* ghosts: what became of each command, what its caller heard

edgeVars == <<op, cmd, seq, done, ok_bits, soft, timed, armed, caller, fate, told>>

Callers == {"loop", "interrupt"}
PinsOf(who) == IF who = "loop" THEN LoopPins ELSE InterruptPins
Free == [pin |-> NoPin, high |-> FALSE, ends |-> FALSE]
Carried(s) == {s[i].pin : i \in 1 .. SoftMax} \ {NoPin}
Resting == [at |-> "rest", ask |-> "none", pin |-> NoPin, ends |-> FALSE, todo |-> <<>>, mine |-> 0]

\* mutant: one bit for all answers
BitShared(n) == 0

\* request n at bit n % 32
Bit(n) == n % Bits

\* The stores of post() once the slot is free, interrupts off, and of timer_start().
PostStores == <<"op", "idle", "write">>
TimerStores == <<"off", "on", "idle", "write">>

Masked(who) == caller[who].todo # <<>> /\ Head(caller[who].todo) \in {"op", "idle", "write"}

\* The interrupt comes before any step of the loop with its interrupts on.
Runs(who) == IF who = "loop" THEN caller["interrupt"].at = "rest" ELSE ~Masked("loop")

------------------------------------------------------------------------
(* post() *)

\* startWaveformClockCycles() or, for a pin with a waveform, stopWaveform().
Call(who, what, pin, ends) ==
  /\ Runs(who) /\ caller[who].at = "rest" /\ seq < MaxPosts
  /\ what = "stop" => pin \in Carried(soft)
  /\ caller' = [caller EXCEPT ![who] =
                  [Resting EXCEPT !.at = "ask", !.ask = what, !.pin = pin, !.ends = ends]]
  /\ UNCHANGED <<op, cmd, seq, done, ok_bits, soft, timed, armed, fate, told>>

\* The slot is free: the number and the fields first.
Fill(who) ==
  /\ Runs(who) /\ caller[who].at = "ask" /\ op = "none" /\ seq < MaxPosts
  /\ seq' = seq + 1
  /\ cmd' = [pin |-> caller[who].pin, ends |-> caller[who].ends, seq |-> seq + 1]
  /\ caller' = [caller EXCEPT ![who].at = "wait", ![who].todo = PostStores, ![who].mine = seq + 1]
  /\ UNCHANGED <<op, done, ok_bits, soft, timed, armed, fate, told>>

\* It is not, for 2 ms.
Busy(who) ==
  /\ Runs(who) /\ caller[who].at = "ask" /\ op # "none"
  /\ caller' = [caller EXCEPT ![who] = Resting]
  /\ UNCHANGED <<op, cmd, seq, done, ok_bits, soft, timed, armed, fate, told>>

\* kick() reads idle, and the timer's count when it was not, and only then writes.
Store(who) ==
  /\ Runs(who) /\ caller[who].todo # <<>>
  /\ LET next == Head(caller[who].todo)
         rest == Tail(caller[who].todo)
     IN  /\ op' = IF next = "op" THEN caller[who].ask ELSE op
         /\ timed' = CASE next = "off" -> FALSE [] next = "on" -> TRUE [] OTHER -> timed
         /\ armed' = (armed \/ next = "write")
         /\ \E soon \in {FALSE} \union (IF next = "idle" /\ armed THEN {TRUE} ELSE {}) :
              caller' = [caller EXCEPT ![who].todo = IF soon THEN <<>> ELSE rest]
  /\ UNCHANGED <<cmd, seq, done, ok_bits, soft, fate, told>>

Answer(who, yes) ==
  /\ told' = [told EXCEPT ![caller[who].mine] = IF yes THEN "yes" ELSE "no"]
  /\ caller' = [caller EXCEPT ![who] = Resting]

\* The answer is in.
Hear(who) ==
  /\ Runs(who) /\ caller[who].at = "wait" /\ caller[who].todo = <<>>
  /\ done >= caller[who].mine
  /\ Answer(who, ok_bits[Bit(caller[who].mine)])
  /\ UNCHANGED <<op, cmd, seq, done, ok_bits, soft, timed, armed, fate>>

\* 2 ms are over: the command is withdrawn, unless the slot is another's, and then
\* looked at once more.
Withdraw(who) ==
  /\ Runs(who) /\ caller[who].at = "wait" /\ caller[who].todo = <<>>
  /\ op' = IF cmd.seq = caller[who].mine THEN "none" ELSE op
  /\ caller' = [caller EXCEPT ![who].at = "late"]
  /\ UNCHANGED <<cmd, seq, done, ok_bits, soft, timed, armed, fate, told>>

LookAgain(who) ==
  /\ Runs(who) /\ caller[who].at = "late"
  /\ Answer(who, done >= caller[who].mine /\ ok_bits[Bit(caller[who].mine)])
  /\ UNCHANGED <<op, cmd, seq, done, ok_bits, soft, timed, armed, fate>>

\* timer_start() and timer_stop(), by the loop.
StartTimer ==
  /\ Runs("loop") /\ caller["loop"].at = "rest"
  /\ caller' = [caller EXCEPT !["loop"] = [Resting EXCEPT !.at = "timer", !.todo = TimerStores]]
  /\ UNCHANGED <<op, cmd, seq, done, ok_bits, soft, timed, armed, fate, told>>

TimerStarted ==
  /\ Runs("loop") /\ caller["loop"].at = "timer" /\ caller["loop"].todo = <<>>
  /\ caller' = [caller EXCEPT !["loop"] = Resting]
  /\ UNCHANGED <<op, cmd, seq, done, ok_bits, soft, timed, armed, fate, told>>

StopTimer ==
  /\ Runs("loop") /\ caller["loop"].at = "rest" /\ timed /\ timed' = FALSE
  /\ UNCHANGED <<op, cmd, seq, done, ok_bits, soft, armed, caller, fate, told>>

------------------------------------------------------------------------
(* The NMI. *)

\* egt1_apply(): the slot with the pin, or the first spare one.
Has(i) == soft[i].pin = cmd.pin
Spare(i) == soft[i].pin = NoPin /\ \A j \in 1 .. i - 1 : soft[j].pin # NoPin
Applied ==
  IF op = "none" THEN soft
  ELSE IF op = "stop" THEN [i \in 1 .. SoftMax |-> IF Has(i) THEN Free ELSE soft[i]]
  ELSE IF \E i \in 1 .. SoftMax : Has(i)
  THEN [i \in 1 .. SoftMax |-> IF Has(i) THEN [soft[i] EXCEPT !.ends = cmd.ends] ELSE soft[i]]
  ELSE [i \in 1 .. SoftMax |->
          IF Spare(i) THEN [pin |-> cmd.pin, high |-> FALSE, ends |-> cmd.ends] ELSE soft[i]]

Accepted == op = "stop" \/ cmd.pin \in Carried(Applied)

\* egt1_soft_edge(): a pulse ends, the next begins, or the run is over.
Edges(c) == {[c EXCEPT !.high = ~c.high]} \union (IF c.ends /\ ~c.high THEN {Free} ELSE {})

Nmi ==
  /\ armed
  /\ op' = "none"
  /\ IF op = "none" THEN UNCHANGED <<done, ok_bits, fate>>
     ELSE /\ done' = cmd.seq
          /\ ok_bits' = [ok_bits EXCEPT ![Bit(cmd.seq)] = Accepted]
          /\ fate' = [fate EXCEPT ![cmd.seq] = IF Accepted THEN "accepted" ELSE "refused"]
  /\ \E moves \in {{}} \union {{i} : i \in {j \in 1 .. SoftMax : Applied[j].pin # NoPin}} :
       \E now \in [moves -> UNION {Edges(Applied[i]) : i \in moves}] :
         /\ \A i \in moves : now[i] \in Edges(Applied[i])
         /\ soft' = [i \in 1 .. SoftMax |-> IF i \in moves THEN now[i] ELSE Applied[i]]
  /\ timed' \in {FALSE, timed}
  /\ armed' = (Carried(soft') # {} \/ timed')
  /\ UNCHANGED <<cmd, seq, caller, told>>

EdgeInit ==
  /\ op = "none" /\ cmd = [pin |-> NoPin, ends |-> FALSE, seq |-> 0] /\ seq = 0 /\ done = 0
  /\ ok_bits = [b \in 0 .. Bits - 1 |-> FALSE]
  /\ soft = [i \in 1 .. SoftMax |-> Free] /\ timed = FALSE /\ armed = FALSE
  /\ caller = [who \in Callers |-> Resting]
  /\ fate = [n \in 1 .. MaxPosts |-> "none"] /\ told = [n \in 1 .. MaxPosts |-> "none"]

EdgeNext ==
  \/ \E who \in Callers :
       \/ \E pin \in PinsOf(who), ends \in BOOLEAN, what \in {"start", "stop"} :
            Call(who, what, pin, ends)
       \/ Fill(who) \/ Busy(who) \/ Store(who) \/ Hear(who) \/ Withdraw(who) \/ LookAgain(who)
  \/ StartTimer \/ TimerStarted \/ StopTimer \/ Nmi

EdgeSpec == EdgeInit /\ [][EdgeNext]_edgeVars

------------------------------------------------------------------------
EdgeTypeOK ==
  /\ op \in {"none", "start", "stop"} /\ seq \in 0 .. MaxPosts /\ done \in 0 .. seq
  /\ \A i, j \in 1 .. SoftMax : soft[i].pin = soft[j].pin /\ soft[i].pin # NoPin => i = j
  /\ armed \in BOOLEAN /\ timed \in BOOLEAN

\* A caller that hears yes was obeyed, and one that hears no never is, not even after
\* it gave up: whoever else posts meanwhile.
AnswersAreTrue ==
  \A n \in 1 .. MaxPosts :
    /\ told[n] = "yes" => fate[n] = "accepted"
    /\ told[n] = "no" => fate[n] # "accepted" /\ ~(op # "none" /\ cmd.seq = n)

\* A command, a waveform or the callback never waits on a timer that is not armed, but
\* for the store that is about to arm it.
NeverAsleep ==
  op # "none" \/ Carried(soft) # {} \/ timed
    => armed \/ \E who \in Callers : caller[who].todo # <<>>

CommandsAreAnswered == AnswersAreTrue /\ NeverAsleep
=============================================================================
