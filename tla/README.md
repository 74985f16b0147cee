# TLA+ models of the ESPGeiger firmware

ESPGeiger is the firmware of a networked Geiger counter on an ESP8266 or ESP32: it counts pulses, keeps rates and a
lifetime total, and publishes them over MQTT, HTTP and a web page. This directory holds TLA+ modules of the parts of
it whose behaviour over time is hard to test on a bench, the TLC configurations that check them on small instances,
and theorems about eighteen of them that TLAPS proves for all values of the constants.

* [The system](#the-system)
* [Modules](#modules), and how each corresponds to the code
* [Runs and bounds](#runs-and-bounds)
* [Fairness](#fairness)
* [Proofs](#proofs)
* [Findings](#findings) and [known weaknesses](#known-weaknesses)
* [What is not modelled](#what-is-not-modelled) and [what could follow](#what-could-follow)

Line numbers refer to the repository. `PROJECT.json` has the line range of every definition (`map`), a mutant for
every checked property (`mutants`), and every hazard with the properties that watch it (`hazards`).

## The system

One task runs everything that matters: the Arduino `loop()`. Around it there are a one second ticker and the pulse
interrupt, the network task (lwIP callbacks; on the ESP32 the web server's handlers too) and the other core's tasks.
Little is locked. What crosses from one to the other is a flag, a word or a ring, and the loop task picks it up on
its next pass. The device may lose power at any moment and is reset by watchdogs and crashes; what outlives a reset
is a few words of RTC memory (until the power goes), files on LittleFS, and the credentials the SDK keeps.

| Component | State | Operations | Talks to | What is hard | What makes it correct |
|---|---|---|---|---|---|
| Boot guard (`Corium/System/BootGuard*`, `CrashDump`, `Lifecycle`) | RTC: firmware, lived, streak, safe, retries, enter; the crash snapshot; the pending restart | `on_boot`, `mark_lived`, `mark_day`, `request_safe`, `request_restart` | `setup()`, the ticker, the web page, the serial port, OTA | resets of every cause at every moment, RTC garbage, another build's state | a crash loop ends in safe mode, nothing else does, and safe mode ends |
| Module registry (`Corium/Module/EGModuleRegistry`) | intervals, due times, the order of the walk, requests | `loop_all`, `apply_pending`, `set_loop_interval`, `wake`, OTA passes | every module; asked by any task | requests in mid pass, a clock that wraps, an OTA that begins inside a module's `loop()` | no request lost, none called early, none forgotten |
| Preferences (`Corium/Prefs`) | a file per group, a copy in RAM, dirty flags | `begin`, `put`, `commit`, `reset_all`, import | the web page, the serial port, every module | a power cut between two file operations, keys that move between versions, one write of several failing | what is saved changes only as a whole group or by a reset |
| Wi-Fi link (`Corium/Net/Wifi`) | SDK credentials, the network preferences, a backup of each | boot association, portal, save, restore, outage watch | the SDK, the web page, the installer | a change of network that fails, cut short at any step | the device knows a network that exists, and gets back onto it |
| Lifetime total (`Counter`) | RAM, RTC stash, file; two clocks | tick, stash, save, reset, recovery | the ticker, NTP, OTA, preferences | three copies updated one after the other; a clock that jumps | no click counted twice, few lost in a crash, no second without its clicks |
| MQTT session (`lib/EGMqtt`) | outbox, packet ids, ids of QoS 2 messages received | publish, subscribe, connect, stop, `loop` | TCP, the broker, `MQTT_Client` | a connection that ends between any two packets; a session the broker forgot | delivered in order, acked after it was taken, QoS 2 once |
| MQTT application (`ESPGeiger/src/Mqtt`) | pending bits, back-off, refused logins, the walk of the discovery | `s_tick`, `loop`, the callbacks of EGMqtt | MQTT session, counter, settings | a full outbox, a birth of Home Assistant in the middle of a walk, settings that change | no alarm forgotten, Online in the end, every birth answered |
| TCP connection and AsyncTCP (`lib/EGTcp`, `lib/EGAsyncTCP32`) | client, stream, event queue | connect, read, ack, close, callbacks | MQTT session, HTTP client and server | the callbacks of one connection come during the next | read as sent; freed once, after the last use |
| HTTP client, server (`lib/EGHttp`) | one request; slots, one stream buffer | open, poll, take; accept, answer, release | posters, web API, portal | broken bodies, redirects, two tasks that may each close first | whole or failed, ended once, all given back |
| Posters, web API (`EGHttpPoster`, `WebAPI`) | slot of the interval, request; station, timers | loop, post, handshake, forget | HTTP client, registry, settings | a late loop, outages, replies that come too late | a post per slot; a forget the loop takes is sent; who shares is known |
| Pulse input, clicks over UDP (`GeigerInput`, `UdpBlip`) | the last pulse, the storm guard; a count per producer | interrupt, second tick, datagrams | counter, OTA | wrap of `micros()`, interrupt against tick; loss and reordering | no click twice, none too soon, an input that comes back |
| Hours and alarms (`Counter`, `TickClock`) | hour and day tallies, warning, alert, snooze | second tick, reset of the alarm | NTP, push button, outputs | lost ticks, a clock that jumps; a press as an alarm starts | the hours hold every click; an alarm rings |
| High voltage (`HV`, `EGTimer1Pwm`) | frequency, duty, trim, trip | loop, settings, restart | the NMI of Timer1, OTA | an NMI between any two stores | what the NMI finds is whole; cut off is low |
| Waveforms (`EGTimer1`) | one command slot, channels, timer | post, start and stop of the timer | the NMI | a command withdrawn as it is taken | answers are true, nothing sleeps for good |
| Push button, click output (`PushButton`, `PulseOut`) | the button's notes; tokens, the pulse that is out | ticker, loop, settings | counter, displays | ticker against loop and settings | a press told once; what is lit goes out |
| SD log (`SDCard`) | rows not synced, the file of the day | tick, row, cleanup, page, remount | ticker, OTA, web pages | pages and cleanups that yield to the tick | few rows at risk, none in the wrong file |

The other components (displays, sensors, sound, serial port, text helpers...) are listed with their files
and the reason in `PROJECT.json` under `components`.

## Modules

Read them in this order. Each module names in its header what it leaves out, and before every property the code
behaviour it is about. `MC*` modules give the constants of a run; `*Proofs` hold the theorems, `BootAndVoltageProofs`,
`TimingProofs` and `ReadingsProofs` those of several modules that a run checks side by side.

### BootGuard

The state is the RTC record (`rtc`), the firmware of the crash snapshot (`dump`), the flashed build (`flash`), the
reset reason, the stage of the boot and the pending restart. `OnBoot` is all of `on_boot`: the snapshot is read, RTC
memory of another firmware is cleared, the verdict is made and the retry is armed. `Crash`, `PowerLoss`,
`OtherReset`, `SetupRestart` and `Restart` end a boot at any stage; after a power loss RTC memory holds anything.
`Tick`, `MarkLived` and `MarkDay` are the ticker's, `RequestSafe` is the page's "restart into safe mode" and
`SerialSafe` the serial command's. `history` variables count the crashes for the properties and are read by no
action. The pure functions of `BootGuardState.cpp` (`Apply`, `Streak`, `Safe`, `RetryAfter`) are operators.

### ModuleRegistry

One pass of `loop_all` is a run of steps: `PassStart`, then either `ApplyStart`..`ApplyEnd` (one `ApplySlot` for each
slot, so that a request of another task falls between any two) with the rebuilding of the order, or `WalkStart`,
`Defer`/`Fire`/`Fired` for each module that is due, and `WalkEnd`; or the shorter OTA pass. `SetLoopInterval` is the
whole of `set_loop_interval` as a task runs it. `OtaStart` and `OtaError` are what the callbacks of ArduinoOTA do
inside its `loop()`, in mid walk. A 32 bit time is kept as what the code's casts compute from it: a signed distance
or an unsigned age; `Tick` shifts them all and wraps them.

### Settings and Prefs

`Settings` is the promise: what is saved changes by saving a whole group or by a wipe, and by nothing else; a power
cut and a boot keep it. `Prefs` is the code: `begin` with its moves of keys (`Adopt*`) and the legacy import
(`Import*`), `Put`, `Commit*`, `Reset*`, step by step at every file operation, with `PowerCut` between any two. The
refinement mapping reads as `saved` what the next boot would find, through the old groups and the legacy file that
are not moved yet.

### WifiLink

`Boot`, `Join`/`JoinFails`, `Restore`/`RestoreFails` and `PortalMinute`/`JoinHeld` are the association at boot,
`SaveNetwork`, `EraseWifi`, `WebReset`, `SerialResetNet`, `SerialResetWifi`, `PortalSave` and `ImprovWifi` what users
do, `Minute` the outage watch and the end of the trial. `Reaches` tells association from traffic: one may join a
network with a static address that it does not carry.

A handler that stores more than once lists its stores in `writes` (`Stores`), and `Write` makes the next; `PowerCut`
may come before any of them. So a save is: the backup of the address opened, written, the address committed, the backup of the
credentials opened, written (`hWifiSave`), and the new credentials are the SDK's only as the restart applies them. A backup
that was opened and not written is `Torn`: `tryRestoreBackup` removes it, `restoreNetBackup` reads DHCP from it, as the code does.

### Lifetime

`Second` is a tick of the counter with or without a click, `Loop` the work it leaves to the loop, `Commit` and
`Saved` the two halves of `save_lifetime` with a crash in between, `StopInput`/`RestartInput` an OTA, `FirstSync`,
`Resync`, `LateSync` and `TakeSync` the two clocks as NTP moves them, `Boot` the recovery of the stash. A tube that
counts gives one click a second, so a click also stands for its second: `SecondsAreCovered` can then compare the
tracked seconds with the clicks in the total.

### MqttDelivery and MqttSession

`MqttDelivery` is the promise to the caller: a message goes from queued to taken to acked, in the order of the
publishes, and is dropped by `stop()` only. `MqttSession` is the outbox with its records and their states, the
packets on their way in both directions, the broker's session and what our side knows of it; it implements
`MqttDelivery` (`Delivers`). `Publish`, `Subscribe`, `Connect` and `Stop` are the caller's, `Flush`, the `On...`
handlers and `TellLost` are `loop()`. `End` is a connection that ends between any two packets, and the packets the
broker had not read yet may reach it all the same (`old`). A size is a number of records; ids are any that are unused.
The `Broker...` actions are external: a broker that takes a QoS 2 message by its id, repeats what is not acked, and may
forget the session (`forgot`). `Selections` has the part of a sequence at some of its places, which is what compaction leaves.

### MqttClient

The application over an outbox of slots. `TickStep` is `s_tick()`, which only sets pending bits; `Works` is one
`loop()`: the callbacks of EGMqtt first, then one piece of work. `Due`, `Forget` and `Deliver` are the timers, the
end of the session and the broker with its will. `conf` is what the settings say, of which `need` is the room that
the CONNECT takes beside the outbox.

### TcpConn, HttpServer and HttpUpload

Three tasks: lwIP queues events, async_tcp takes them and calls back, the main loop ticks. Each action goes from one
critical section to the next, so that any callback can fall between. `TcpConn` is an outgoing connection after
another. lwIP does not take the lock under which async_tcp pops an event and calls back, so `HandleEvent` pops "connected"
and `StorePcb` is `_connected()`, and `tcp_error()` is two steps of its own around it, where it looks for the pcb (`FindsNone`)
and where it queues the error (`Errs`): a connection that breaks as it comes up leaves its client a pcb that lwIP freed.
`CloseFreed` is what the release of such a client may do to the connection made after it. `HttpServer` is `onData`, `onDisconnect`, `tick` and the release of slots; a client is `wired` once
`onClient()` gave it its callbacks. `HttpUpload` is what a handler may rely on (one upload at a time, its parts in
order, one end, which is good only when all came), and `HttpServer` implements it.

### HttpCall, HttpClient, WebApi and Poster

`HttpCall` is the promise of one call at a time, ended once; `HttpClient` implements it, with replies as sequences of tokens that the
network may stop after any of. `WebApi` is registration, posts and forgets over one such client; `Poster` the
one loop that all posters share, with its times as ages.

### HourTally, UdpClicks and PulseInput

`HourTally` is the tick of a second, whether it comes late or is lost, and the turn of the hour by a clock that is
read once a minute while the SDK moves the time under it. `UdpClicks` has producers with a running count that wraps,
a network that loses, repeats and reorders, and the receiver's slots, gaps and latch. `PulseInput` is the pin:
`Edge` is the interrupt, `Read`, `Clear` and `Decide` the three steps of the storm guard between which it may come,
`Stop` and `RestartAfterOTA` an update.

### HighVoltage, PwmTrain and EdgeCommands

EGTimer1 serves everything from one NMI, which no lock keeps out. `HighVoltage` has the handlers of HV, whose stores
for the NMI wait in a sequence that `Store` works off; `PwmTrain` has the timing of the pulses. `EdgeCommands` is how
`post()` hands over a command for the waveform of another pin, waits for its answer or withdraws it, and how the
timer is kept armed; an interrupt may post in the middle of a post of the loop.

### PushButton and PulseOut

`PushButton` is the ticker that reads the pin (`Bounces`, `Holds`, `Settles`), the settings that name another
(`SetPin`), the loop that takes the notes, and what a short press does: it silences the alarms of the counter, and
the alert output follows. `PulseOut` is the pin that shows clicks: the tokens of the rate, the request, and the ticker
that lights the pin and puts it out.

### SdLog

`SdTick` only sets flags; `Row`, `StartClean`/`EndClean` and `Page`/`EndPage` touch the card from the loop and may
yield, and then an `SdTick` comes in between. The length of a day, of a sync and of
a cleanup are constants; a row is the file it is for and its minute.

### How they compose

`MCBoot`, `MCTiming`, `MCReadings`, `MCInputs` and `MCNet` each put modules side by side that share no state: a
variable `part` says which one runs, the others rest, and each property of the run is about its part. So a run
is the union of its parts' state spaces and not their product: it checks the parts, not an interplay that the code
does not have.

The modules meet in narrow places, and each models its neighbour's side of the place as the nondeterminism it sees:
the registry's gates open and close freely, which covers `WifiLink`'s outages; the restarts of `WifiLink`, `Prefs`,
`HighVoltage` and `Lifetime` are orderly ends for `BootGuard`; a commit of the `life` group is one step of `Lifetime`, since
`KeepsSettings` shows that a group is saved as a whole or not at all; the loops of `MqttSession`, `HttpClient`,
`WebApi` and `Poster` are one module's `loop()`, and `LoopIsFair` is what their fairness rests on; the calls of
`WebApi` and `Poster` end once, which is what `CallsEndOnce` says of `HttpClient`; the outbox of `MqttClient` keeps its messages in order over lost
connections, which `Delivers` says of `MqttSession`; and both stand on connections whose streams come in order (`StreamsAreRead`).

## Runs and bounds

Each property has a mutant of the code (a definition with a plausible bug) that the run refutes. `TypesOK` of a run
is the type invariant of its parts.

| Run | Parts | Properties | Bounds |
|---|---|---|---|
| `boot` | `BootGuard` | `SafeIsEarned`, `CrashLoopIsGuarded`, `SafeBootIsShort`, `BackoffGrows`, `ComesBack` | two builds; 3 crashes to safe mode, as in the code; the streak saturates at 4 and the retries at 3 |
| | `WifiLink` | `NetworkIsKept`, `ComesBack` | two networks and wrong credentials; DHCP, a static address of one network, and one of none; a cut between any two stores |
| | `HighVoltage` | `VoltageIsSafe`, `ComesBack` | two frequencies, two duties, a trim of 1, two stalls, one restart, one save, one hold |
| `timing` | `ModuleRegistry` | `NoLostRequest`, `WakesInTime`, `QuarantineHolds`, `NeverEarly`, `WalkIsComplete` | two modules; a clock of 14 values; intervals 1 and 2; requests for "off" and 2 |
| | `PwmTrain` | `PulsesAreWhole` | a clock of 48 ticks, periods of 6 and 12, two duties, edges late by up to 7 ticks, two new settings |
| | `EdgeCommands` | `CommandsAreAnswered` | three commands from the loop, with two pins, and an interrupt, with one; two channels |
| | `PushButton` | `PressesAreTold` | 9 polls, a debounce of 2 and a long press of 4; two pins, set twice |
| `prefs` | `Prefs` | `StoreIsSound`, `KeepsSettings` | three groups, one of the network; two moves of keys into one group; two values and one that is refused; every mix of old files |
| `readings` | `Lifetime` | `TotalsSurvive` | 6 clicks; the total wraps at 6; a stash every 2 s, a save every 3 s |
| | `SdLog` | `RowsSurvive` | 5 minutes, days of 3, a sync every 1 to 3, a cleanup every 3 |
| | `Poster` | `PostsKeepTheirSlot` | intervals of 4 and 9, one above and one below the longest sleep; a loop up to 2 late; 3 slots missed |
| | `PulseInput` | `PulsesInAndOut` | a clock of 6, a debounce of 2, a storm of 2 edges a second, a cooldown of 3 s |
| | `UdpClicks` | `PulsesInAndOut` | two producers for one slot, of 4 and 1 clicks, counts that wrap at 8 and reach it; one reboot; two datagrams in the air |
| | `PulseOut` | `PulsesInAndOut` | 14 ms, a token every 2 ms and at most 2, a fade of 2 steps |
| `inputs` | `HttpServer` | `FreedOnce`, `BodiesAreWhole` | two uploads into two slots, one part each |
| | `TcpConn` | `StreamsAreRead` | two connections, two blocks each, a window of 2 |
| | `HourTally` | `HoursAreRight` | hours of 4 and days of 8; the time moves by -3, -1, 1 or 5, twice; two ticks owed |
| `mqtt` | `MqttSession` | `OutboxIsSound`, `ExactlyOnce`, `Delivers`, `EveryoneIsTold` | a QoS 2 and a QoS 1 message out, one in of either level, a subscribe; 3 slots, 1 reserved; 2 ids; two faults: connections lost or stopped, sessions forgotten |
| `net` | `HttpClient` | `RepliesAreHonest`, `CallsEndOnce` | two hosts, replies that end in three ways, redirect or say wait |
| | `WebApi` | `StationIsKept` | three stations, two turns of the user |
| | `MqttClient` | `BrokerHearsUs` | three settings, four slots, a walk of one row |
| | `HttpServer` | `AllGivenBack` | one slot, a page or an upload of two parts |
| | `ModuleRegistry` | `LoopIsFair` | one module behind the Wi-Fi gate, all requests, a clock of 16 values |
| `prefs_import` | `Prefs` | `ImportLeavesTheRest` (violated) | as `prefs` |
| `wifi_both` | `WifiLink` | `NotStranded` (violated) | network and address saved together |
| `webapi_forget` | `WebApi` | `ForgetReachesTheServer` (violated) | as `net` |
| `mqttclient_longer` | `MqttClient` | `Connects` (violated) | settings whose CONNECT is longer |
| `tcp_late` | `TcpConn` | `ClosesItToo` (violated) | one connection |

Why the bounds are enough:

* `BootGuard`: time is in half hours, the unit of the back-off. A day is 6 of them, longer than the longest wait (4) and
  the longest `setup()` (1): the relation of the code (16 h and 24 h) is kept. Both saturating counters go past
  their limit. Two builds make every "of another firmware" case: the state, the snapshot, and the build come apart.
  The proofs cover all other values.
* `WifiLink`: any number of saves, erases, power cuts and outages. A minute counter is bounded just above the largest limit the
  code compares it with (`StableAfter` 1 for 5 minutes, `DownMax` 2, `PortalRetry` 1; one more of the last two in `wifi_both`). The users are: one of the page who changes the
  address, and one of page, portal and installer who changes the network; `wifi_both` has the one who does both.
* `HighVoltage`: one change of each setting already falls between any two stores; a stall that comes a second time
  finds the restarts used up.
* `ModuleRegistry`: the clock is as short as its assumption allows, so that everything wraps in the run: times of a module
  that is off pass the half range and lie ahead of the clock again. Two modules are the least with an order between
  them; the walk never looks at more than the module at hand and those before it. The proofs cover
  its safety for any number of modules. Liveness is checked with one module, whose clock and
  gate nobody else's requests touch.
* `EdgeCommands`: three commands fill both channels and are refused one, or find the slot busy; the number of the bits
  of answers (32 in the code) is kept above that of the commands, see the weaknesses. `PushButton`: nine polls are a
  bounce, a long press and its end, and a pin set at any poll of it.
* `Prefs`: two moves end in one group (`counter`) and the legacy file has rows of two groups, which are the cases
  where two sources meet one target. Every step on the file system is a point where the power may go, any number of
  times. `BootFails` and `LegacyKept` are `FALSE`: see the weaknesses that they would show.
* `Lifetime`: six clicks pass a stash, a save and the wrap of the total more than once. A behaviour meets any number of crashes,
  power cuts, updates and syncs, and at most one "mishap" (a pause, a late sync, a failed write, a torn save), as
  each breaks one of the promises on its own: the property that it breaks leaves it out by name and the others do not.
* `PulseInput`: unbounded but for the clock, which is three debounces long; the count of a second saturates above the threshold.
  `PulseOut`: the longest run of clicks uses up the tokens, and a quiet time passes the backlog.
* `SdLog`, `Poster`: a change of day, a cleanup and a sync fall together and apart; of missed slots only "many" and
  "few" differ.
* `MqttSession`: two ids for two messages and a subscribe: an id is used again as soon as it may be. Two faults: a
  message is resent and lost again, or resent to a broker that has forgotten the session. The proofs cover
  any number of messages, ids and faults.
* `HttpServer`, `TcpConn`: two of each are the least with a neighbour or a predecessor; uploads of two parts
  are in `net`; the proofs cover both with any number of connections, slots, parts and blocks.
  `UdpClicks`: one slot and two producers make every eviction; the count wraps in the run.
  `HourTally`: an hour of 4 s reads the clock every 3, so that a read, a boundary and a step meet in every order.

`CHECK_DEADLOCK FALSE` is in the configurations of the runs with bounds on what may still happen: clicks, commands,
polls, milliseconds, packets, connections. A behaviour ends there, and the device does not. In `boot`, `prefs` and
`net` a deadlock is an error.

## Fairness

No fairness is assumed of users, other tasks, the air, crashes or the network.

* `BootGuard`: the chip boots after a reset, `setup()` returns or restarts (it has timeouts, as credentials are saved),
  the ticker runs, and `loop()` polls the pending restart. `SafeModeEnds` supposes that crashes and requests for
  safe mode stop, since a device that crashes again and again is to stay in safe mode.
* `WifiLink`: the same of the steps of the loop task. That the SDK reassociates by itself (`Associate`) is not assumed:
  the outage watch has to do without it. `ComesBack` supposes the network the SDK keeps is there to stay and the user
  leaves the device alone.
* `HighVoltage`: the loop goes on storing, the NMI comes while it is armed, an update that began ends.
* `ModuleRegistry`: the Arduino core calls `loop()` for ever, a module's `loop()` returns, time passes. `KeepsLooping`
  supposes that the requests stop one day and the gate stays open.
* `MqttSession`: `EGMqtt::loop()` is called on every pass, the caller connects again after its back-off, and a broker
  that is reached reads and answers. Connections break a bounded number of times.
* `HttpClient`: the poll goes on and time passes; nothing is assumed of the server, since the deadline ends the call.
* `WebApi`: the loop and its timers, and each request is served, refused or lost. `StaysRegistered` supposes that
  failures stop one day. `ForgetIsTaken` is said of a
  forget that finds the loop running, which then does not stop before it took it; one that finds it parked may wait for ever.
* `MqttClient`: the ticks, the timers and the broker. That the loop works while the broker answers is weak fairness;
  that it gets to its own work between callbacks is strong fairness, since each pass runs the callbacks that are there
  and then one piece of work.
* `HttpServer`: async_tcp takes its events, the loop ticks, and a connection that is silent expires.

## Proofs

The `*Proofs` modules hold machine-checked proofs (TLAPS), from the named assumptions on the constants, which TLC
evaluates in the runs, and from the hypotheses named below: two of the preferences and one of the MQTT session. Each
has the same plan: an
inductive invariant of named parts, one lemma per action or handler, and theorems that read the properties of the
runs off it. `SelectionProofs` holds lemmas on parts of sequences that the queues need.

### The boot guard

Assumed: `LimitAssumption` (a positive number of crashes to safe mode, a streak that saturates no lower, a shift of
at most 5 as in the code, and the longest wait plus the longest `setup()` shorter than a day) and
`FirmwareAssumption` ("no snapshot" is no firmware).

| Theorem | Says |
|---|---|
| `TypeCorrect` | `TypeOK` is invariant |
| `GuardInductive` | `IInv` is invariant |
| `SafeEarned` | `SafeIsEarned`: nothing left over puts the device in safe mode |
| `LoopGuarded` | `CrashLoopIsGuarded`: a crash loop ends in safe mode |
| `SafeBootShort` | `SafeBootIsShort`: a safe boot ends within a day |
| `BackoffGrowing` | `BackoffGrows`: the waits of safe boots do not shrink until a day is good |

The first properties are not inductive: both speak of the boot's verdict, which depends on what RTC memory held in the resets
before. `IInv` is `TypeOK` with three parts. `MarksInv`: what marks a crash, a reset reason or a snapshot,
is there only if the last reset was one, and `on_boot` takes it away. `EarnedInv`: the streak in RTC memory counts
no more crashes than came. `GuardedInv`: it counts no fewer of those
that came early. The first bounds what `Ending` and `HasCrash` can say, the second gives `SafeIsEarned`, the third
`CrashLoopIsGuarded`. `SafeBootIsShort` has an invariant of its own, `RetryInv`: a safe boot that runs has its restart
pending, before the day is up. So has `BackoffGrows`: the wait itself is forgotten in a reset and only the number of
tries outlives it, so `BackoffInv` bounds what was waited by what that number gives, and more tries give no less.

### The high voltage

Assumed: `HvAssumption` (positive frequencies, a largest duty, counts). Any frequencies, duties and trims, any number of
stalls, saves and holds, the NMI between any two stores.

| Theorem | Says |
|---|---|
| `HvInductive` | `HvInv` is invariant |
| `HvTypes` | `HvTypeOK`: settings, counters and the mailbox stay well formed |
| `VoltageForAll` | `VoltageIsSafe`: what the NMI finds is whole, cut off or held the duty is the least, stopped the pin is low |

The stores a handler has still to make (`todo`) are part of the state, so the invariant reads them. `StoresInv` is their grammar: a
period and an "on" are stored only behind an "unready", and no "off" comes without its "low". `DutyInv` says what
cut-off and hold mean while stores are on their way: the least duty is in the mailbox or with the NMI and no store
moves it, or the stores to come post it and leave it (`LeastToCome`). That is why a settings handler which was under
way when the cut-off came cannot bring the old duty back.

### The pulses of the high voltage

Assumed: `TrainAssumption`: a period is longer than its low end of 4 us, and with the lateness and the lead of an edge shorter
than half a round of CCOUNT. `HV.h:58-69` keeps the frequency between 100 Hz and 80 kHz, so a period is 1,000 to 800,000 ticks of 2^31; only
an NMI that came many seconds late would break it. Any posts, at any time.

| Theorem | Says |
|---|---|
| `TrainTypesForAll` | `TrainInv` is invariant; `TrainTypeOK` |
| `TrainForAll` | `PulsesAreWhole`: no period is lost or moved, each pulse is due to fall before its low end, what late falls added is paid back |

CCOUNT wraps, so `TrainInv` cannot compare times. It says instead how far from the start of its period a pulse that is out
rose and is to fall (`Pulse`), as integers of which the clock shows the rest; `GoesOn` and `CastIs` say that from a shown time
one goes on as from the time itself, and that the code's cast gives the true difference of two that are near. With the
ticks that are too much so far, a pulse then lasts no longer than was asked for, which is what keeps debts from adding up.

### The module registry

Assumed: `TimeAssumption` (the longest interval, retry, wake, stall and absence together stay within half the range
of the clock: 65.5 s and some against 24 days) and `ModuleAssumption` (the shape of the constants). Any number of
modules, any intervals, gates and requests.

| Theorem | Says |
|---|---|
| `RequestsKept` | `NoLostRequest` under every interleaving of the tasks |
| `Quarantined` | `QuarantineHolds` |
| `TimesInductive` | `RequestInv /\ OrderInv /\ TimeInv` is invariant |
| `FiresInTime` | `NeverEarly`: no `loop()` before its interval is over |
| `WakeInductive` | `WakeInv /\ QueueInv` is invariant with them |
| `WakesForAll` | `WakesInTime`: who sleeps is woken before any module is due, and none waits longer than its interval |
| `WalksAreComplete` | `WalkIsComplete`: a walk that ends leaves no module due |

`NeverEarly` is about one step, but rests on what the times were since the last one. `RequestInv` (`NoLostRequest`
and `QuarantineHolds`) is inductive as it stands. `OrderInv` says the order holds looping modules only; the
lemmas about `Insert` and `Sifted` carry it. `TimeInv` bounds each due time of a looping module
(a distance, so that no cast wraps) and says that whoever is not hurried is due no
earlier than what is left of the interval. Each step of the loop task has a lemma of its own.

The last two need the queue as a queue. `QueueInv`: the order is sorted by due time except where `apply_pending` is
about to rebuild it, has every looping module once, and a walk runs only the first of it, and passes it only when its
next due time lies ahead, which is why an early stop of the walk leaves nobody behind. `WakeInv`: the loop's own due time is near
and before that of every module, through requests, clocks that wrap, and passes of an OTA.

### The commands to the NMI and the push button

Assumed: `EdgeAssumption` (no pin is "none", and fewer commands than bits of answers: with 32 bits and a wait of one
command at a time the code keeps to it, see the weaknesses) and `ButtonAssumption` (no pin is "none"). Any pins, slots
of soft edges, debounce and length of a long press.

| Theorem | Says |
|---|---|
| `EdgeInductive`, `SlotsForAll` | `EdgeInv` is invariant; no pin has two slots, nothing is done before it is posted |
| `CommandsForAll` | `CommandsAreAnswered`: each answer is true, and nothing waits on a timer that is not armed |
| `ButtonInductive`, `ButtonTimes` | `ButtonInv` is invariant; the times of the button never lie ahead of the poll |
| `PressesForAll` | `PressesAreTold`: a press is told once and silences what rings |

`EdgeInv` has the stores that `post()` and the timer's start and stop have still to make (`StoresInv`: they are tails
of fixed sequences, and an interrupt that posts in the middle of the loop's post has ended before the loop goes on),
the number each waiting caller owns (`CallersInv`: two that wait have different ones, what a caller withdrew is not in the
slot) and the slot against the answers (`NumbersInv`: a command in the slot is not done, a bit stands just for what was
accepted). `ButtonInv` ties the press held now to what was told of it (`HeldInv`), the notes to the presses the loop did not
take (`NotesInv`), and the alarms to each other (`RingInv`).

### The preferences

Assumed: `GroupAssumption`, `MovedAssumption` (what the table `MOVED` in `EGPrefs.cpp` satisfies: no group is both a
source and a target, a move into a live group takes no key that group has), `ValueAssumption` and `StoreAssumption` (the
shape of what an older firmware left). Two hypotheses, as in the runs: a boot can write what it moves (`~BootFails`)
and no import comes while a legacy file is left (`~LegacyKept`). Any groups, keys and values, any table of such moves, any files,
a power cut between any two file operations, any commit failing.

| Theorem | Says |
|---|---|
| `PrefsInductive` | `PrefsInv` is invariant |
| `StoreForAll` | `StoreIsSound`: the store is well formed and no change in RAM goes unsaved unnoticed |
| `KeepsForAll` | `KeepsSettings`: `Prefs` implements `Settings` |

The refinement reads what the next boot would find, so the invariant says at every step what that is. `PlaceInv`:
where the loops are. `BootInv`: what a boot has loaded is what the next boot would load, moves and legacy file
included, and who has been passed has nothing older left. `ServeInv`: while the device is up each group is settled,
it has a file or nothing to come from, and RAM is on file or the group is dirty. `WipeInv`: a reset leaves no file
behind it and spares the network of an import; the order of its removals is what keeps an old file from coming back.

### The lifetime total

Assumed: `LifetimeAssumption` (a loop late by less than a stash period, and stash, save and lateness together within
the width of the total: some 21 700 s against 2^32 clicks). Any periods, any steps of the clock.

| Theorem | Says |
|---|---|
| `LifetimeInductive` | `Inductive` is invariant |
| `TypeCorrect` | `TypeOK` is invariant |
| `TotalsForAll` | `TotalsSurvive`: no click twice, few lost in a crash, no second without its clicks |

Three copies are updated one after the other. `PaceInv` bounds the clicks not saved yet by the times since, so that
they never wrap. `CopiesInv` says RAM is ahead of the file by what came in and what a crash brought back, and the stash
holds that but for the last period. `CoverInv` says the same of seconds against clicks for each copy and for
the running time that is in none, wherever the clock jumps.

### The hours, the SD log, the posters and the pins

| Assumed | Which the code justifies by |
|---|---|
| `HourAssumption` | a time that was synced is later than the first day of 1970, wherever a reply moves it |
| `SdAssumption` | a day has minutes; a sync and a cleanup have a period |
| `PosterAssumption` | an interval is not 0; 1, 2 and 60 s, in this order; a closed gate puts the loop off for at least a nap of 100 or 200 ms |
| `InputAssumption` | the debounce is shorter than 2^32 us; a cooldown takes a second at least |
| `BlipAssumption` | the rate and the brightness are not 0 |
| `UdpAssumption` | there is a slot; gaps and clocks are counts, and a count wraps |

| Theorem | Says |
|---|---|
| `HourInductive`, `HourTypes` | `HourInv` is invariant; the clock and the tally stay well formed |
| `HoursForAll` | `HoursAreRight`: the hours hold every click since the first sync, and turn in time |
| `SdInductive`, `RowsForAll` | `SdInv` is invariant; `RowsSurvive`: few rows are at risk, none in the wrong file |
| `PosterInductive`, `PostsForAll` | `PosterInv` is invariant; `PostsKeepTheirSlot` |
| `TubeInductive`, `PulsesForAll` | `TubeInv` is invariant; `PulsesAreCounted`, the part of `PulsesInAndOut` about the tube |
| `BlipInductive`, `ClicksForAll` | `BlipInv` is invariant; `ClicksAreShown`, its part about the pin that shows clicks |
| `UdpInductive`, `UdpForAll` | `UdpInv` is invariant; `NeverOvercounts` and `GapsAreFilled`, the two parts of `ClicksCountOnce` that bound the credits |

* `HourInv`: the clock of the tick is behind the time by no more than the ticks owed and those lost (`ClockInv`), which
  is what keeps an hour from turning late; nothing is collected before an hour has begun (`TallyInv`).
* `SdInv`: `RowsSurvive` is inductive with its types. The proof rests on `DayOfMinute`, that a later minute is of
  no earlier day, and on the order of `Row`: the day is looked at before the row is added.
* `PosterInv`: `SlotInv` says the time since the last ping and the slot agree but for whole intervals, and that a slot
  that has its post is not over yet (`OnePost`); `WakeInv` that the loop is due when the slot ends, or as soon after
  the last reply, gate or setting as poll and gate let it (`DueInTime`). `TimesGrows` and `RestOf` are the arithmetic of it.
* `TubeInv`: the clock says how long ago the last count was unless it has gone round since (`SinceBlip`). With `GapShows` the
  interrupt's subtraction, which wraps, is then that time.
* `BlipInv`: what is lit is a pulse that counts as busy or a fade that does so in its mode (`LitInv`), and the
  clicks let through with the tokens left cost no more than the time up to the last token (`WithinTheRate`).
* `UdpInv` compares what a receiver credited with what the producer told. `Base` is how many clicks a producer had when its
  count last began at 0, so clicks and counts compare although counts wrap and boots clear them. `LedgerInv`: no more is credited than
  was told, or than there was before the wrap while that is untold. `AirInv`: what is on its way is of the count as it runs now.
  `RowsInv`: the anchor of a slot is of this run of the count and covers the credits, or of an earlier run, and then
  all on its way is ahead of them; so taking a step back for a restart can only be right. A producer without a slot is in the
  second case too: this is why the network must not hold a datagram past an eviction.

### The HTTP client

Assumed: `HttpAssumption` (the shape of the constants). Any hosts and replies, redirects and timeouts.

| Theorem | Says |
|---|---|
| `HttpInductive` | `HttpInv` is invariant |
| `TypeCorrect` | `TypeOK` is invariant |
| `HonestForAll` | `RepliesAreHonest`: who ends well is whole, and what was given for a host goes to no other |
| `ImplementsCall` | `HttpClient` implements the safety of `HttpCall`: a call ends once, well only if it was sent |

`ReadInv` says how much of a reply was read by the phase, and that only a good reply has its body read: a reply can be whole only
if each part was read in its turn. `HostInv` says what a request holds is for the host it goes to.

### The outgoing connections

Assumed: `TcpAssumption` (the bounds are counts). Any number of connections, one after another, any stream and window, every
interleaving of lwIP, async_tcp and the main loop, also between an event and what `_connected` stores; calls without memory
or a name fail.

| Theorem | Says |
|---|---|
| `TcpInductive` | `TcpInv` is invariant |
| `TcpTypesForAll` | `TcpTypeOK`: no more is credited than the window, nor acked than was sent |
| `StreamsForAll` | `StreamsAreRead`: the stream of this very connection is read, the window follows, each client is freed once |

What is read now was queued, called back and stored before, and in each place a client that was given up meanwhile may
still have some. `TcpClientInv` follows each client: `LifeOk` says that who is not held by the loop was released and
has its release in the queue, which no removal takes; `NewsOk` what may be queued for it by how far its connection
is; `FlowOk` that what was acked, credited and is queued are the blocks sent, in order and without a gap. `LoopInv` says where the
main loop is, and `StreamInv` that unread, pending and called back are what was credited, so that what is read next is the next block.
A connection that ended well is the delicate case: its FIN is taken after all its blocks (`InOrder`), and only
then is it said to have ended without an error (`AllCame`). A client may hold a pcb that lwIP freed (`LifeOk`): then its error
is queued or was taken, nothing of its stream comes any more, and its release may end a later connection, of which the
invariant then only keeps what it read.

### The MQTT session

Assumed: `SizesAssumption` (the outbox has room beside its reserve, and as many ids as that). Any messages either way,
any room, any number of ids, lost connections and lost sessions.

| Theorem | Says |
|---|---|
| `OutboxInductive`, `OutboxForAll` | `OutboxIsSound`: nothing the outbox accepted is forgotten, a subscribe is answered once |
| `TakenInductive`, `TakenOnceForAll` | the broker takes a QoS 2 message once in a session that it keeps |
| `DeliversForAll` | `Delivers`: `MqttSession` implements `MqttDelivery` |
| `ExactlyOnceForAll` | `ExactlyOnce`: QoS 2 is once, both ways |

The proof is in three layers, each an invariant on top of the one before.

* `OutboxInv`. `OutInv`: each record is what it was queued as, no two share an id or a message, and a message is in
  the outbox exactly until it is acked or dropped. `ConnInv`: the CONNECT goes alone, and what an older connection left is
  read before it. `FlightInv`: in a connection each packet, and each answer that comes, is of a record
  that was sent, and no record has two of them on the way; so no answer can settle the wrong record although ids are used
  again at once.
* `TakenInv`. The broker's ids against ours: it keeps the id of what it took for as long as that may come again
  (`PacketInv`, `RecordInv`), an id it keeps is that of a record we keep unless the session is about to end
  (`HeldInv`), an answer says what it says of the message taken (`AckInv`), and what is sent and not taken is on its
  way in the order of the publishes (`OrderInv`). This gives `TakenOnce`, and with it the step map of `Delivers`.
* `InboundInv`, the other direction. Each message of the broker has at most one packet or answer between us (`TokenInv`);
  what that says fits the broker's entry of the message (`EntryInv`); an id we know is of a message that was
  delivered and is not through, until a PUBCOMP is on its way (`KnownInv`); after a session that was lost
  nothing is left that could be taken for the new one (`SessionInv`).

`ExactlyOnceForAll` has one hypothesis, `RoomForId`: a QoS 2 message is read while the table of received ids has room for
its id, or knows it. With more than `EGMQTT_QOS2_IN` open the client forgets one, as its header says. `TakenOnceForAll`
needs none.

The outbox is compacted by selecting records. The model writes that with `Only` (`Selections`), which names the places
that stay, and not with the recursive `SelectSeq`: the former can be reasoned about. `SelectionProofs` shows what
such parts are: `OnlyPicks` says they hold what the sequence held there, in order and each once, and the like for tails, prefixes and
removals.

### The HTTP server

Assumed: `ServerAssumption` (the shape of the constants). Any number of connections and slots, any window and limit,
uploads of any number of parts, every interleaving of lwIP, async_tcp and the main loop.

| Theorem | Says |
|---|---|
| `ServerInductive` | `ServerInv` is invariant |
| `ServerTypes` | `TypeOK`: the buffer keeps to its window and the connections to their limit |
| `FreedForAll` | `FreedOnce`: client, slot and buffers are freed once, after their last use |
| `BodiesForAll` | `BodiesAreWhole`: `HttpServer` implements `HttpUpload` |

`FreedOnce` speaks of what is held now and of what is left when all is still; both rest on where every client is
meanwhile, and `ServerInv` says that in layers.

* `ClientInv`, for each client. `LifeOk`: it is open, or about to be told of its end, or was told, and only the
  last is given back by the loop. `EventsOk`: what may be queued for it, with its accept before all else. `HangOk`: the
  loop closes it once. `TaskOk` with `TaskInv`: what async_tcp has in hand is for a client that lives.
* `SlotsInv`. `SlotInv`: what a slot may be, and that no two have one client. `StreamInv`: the buffer belongs to the one slot whose
  upload goes on. `LoopInv`: what each step of a pass may rely on, though callbacks came since the last. `PromiseInv`: a
  slot to be reclaimed is wanted, or still ahead in this pass, so none is forgotten.
* `HeadInv` and `PartInv` count: a request has one head, and what of an upload is queued, in hand, buffered,
  taken or refused is no more than was sent. So a buffer never overflows unnoticed, and an upload that lost a part
  never reaches its end. `HeardInv` ties to that what the handler heard, and `CountInv` the connections in flight.

The queue is known to the invariant only by what each client has in it (`Events`, `Queued`, `Led`, `Once`); the lemmas
`Appended`, `Fronted`, `Taken`, `Removed` and `Cleared` say how that changes, and the lemmas of the actions need no sequences. The proof of `LifeOk`
failed at first where a connection breaks before its accept is taken: the client is left behind, as TLC then
showed, and as the library does (see the weaknesses).

### Only model-checked

Liveness (the `ComesBack` of three parts, `LoopIsFair`, `StationIsKept`, `BrokerHearsUs`, `AllGivenBack`, `EveryoneIsTold`, the end of
`CallsEndOnce`) is out of the prover's reach. Of the safety properties these rest on TLC at their bounds:
`NetworkIsKept` of `WifiLink`, `CreditsAreCounted` of `UdpClicks` (a sum over producers, so induction over data), and what is safety in
`StationIsKept` of `WebApi` and `BrokerHearsUs` of `MqttClient`. The proofs of the other eighteen modules cover the models at
every size; what the models leave out they do not cover. `TypesOK` of a run is stated module by module.

## Findings

1. **An import resets what the backup does not hold** (run `prefs_import`). `applyImport` calls `reset_all(true)`
   before it applies the lines (`WebPortal.cpp:2103`); `docs/configuration/configuration.md:35` says settings that
   are not in the export are left alone.
2. **A network and a static address that are saved together are undone by halves** (run `wifi_both`). When the new network
   cannot be joined, `tryRestoreBackup` brings the old one back and returns (`Wifi.cpp:506`); the address
   stays, and five minutes later its backup is gone.
3. **A forget may never be sent** (run `webapi_forget`). A post in flight whose reply is a 403 because the clock is off sets
   the station to 0 (`WebAPI.cpp:560`); a forget pressed meanwhile finds no station and is dropped, though the server
   keeps it and `WebAPI.h:67` says "sent when idle, even once off".
4. **A full outbox and longer settings keep the device from connecting** (run `mqttclient_longer`). `setWill` and
   `set_credentials` are refused while outbox and CONNECT do not fit together, `reconnect()` returns before it connects
   (`MQTT_Client.cpp:594`), and nothing empties the outbox.
5. **A connection given up while it is being made may stay open** (run `tcp_late`). The client does not know its pcb
   before `_connected`; `close()` drops it under the comment "closes it too" (`EGTcpConn.cpp:69`), and an answer that comes later opens a
   connection that nobody closes.

Noted without a run: with `life_en` off the clicks stop and the seconds do not (`Counter.cpp:385`, against
`docs/configuration/configuration.md:62`).

## Known weaknesses

Met while modelling and left outside the checked behaviours, each by a constant, a guard or an exception the property
names. None is stated as a finding, as no line of the repository promises otherwise, or its window is a moment.

* Preferences: `commit()` forgets the restart that a group wants when its write fails, and a later commit does not
  ask again (`EGPrefs.cpp:677`; `StoreIsSound` does not speak of it). The legacy file is removed after its last
  group although the write of another failed (`:516`, `:533`; `BootFails`). `reset_all(true)` leaves the legacy file
  (`:706`; `LegacyKept`). A power cut in an import loses the page's password, which is put back last (`:713`). A
  `put` that finds no memory says nothing (`:132`).
* Wi-Fi: the five minutes of one change may end while the restart of the next is pending, and its backup goes too
  (`Wifi.cpp:178`; `Late` = 1). An offline build clears the backups while it is not connected (`:161`). A blank
  name saves no password (`WebPortal.cpp:1074`, against `webportal.md:87`). `reset_wifi` keeps a static
  address (`SerialCommand.cpp:153`). Two wrong tries with the installer overwrite the backup (`ImprovSerial.cpp:227`).
  A power cut while `/net_backup` is written leaves an empty file, which counts as the last good address (`Wifi.cpp:296`)
  until the device was up for five minutes: an address saved meanwhile is undone to DHCP. Whether the backup of the credentials was
  written is not looked at (`WebPortal.cpp:1089`). A power cut in the middle of `clearSavedCreds` (`Wifi.cpp:215`) leaves a backup,
  which a join that fails later brings back.
* Web API: a forget that is pressed while sharing is already off, on an old page say, changes no setting, so nothing is saved
  and nothing wakes the parked loop (`WebAPI.cpp:181`, `EGPrefs.cpp:652`): it waits until a mode is saved, though
  `WebAPI.h:67` says "sent when idle, even once off". `StationIsKept` promises nothing of a forget that finds the loop parked.
* Lifetime: a crash between the commit and the clearing of the stash counts the stash's seconds and clicks again (`Counter.cpp:380`; the state `"saved"`).
  A failed write clears the stash all the same. A sync that the SDK makes before NTP_Client takes it counts the
  step as tracked (`NTP.cpp:114`; "late sync"). Clicks from a stash are in RAM only until the next save: a second crash
  loses them (`recovered`). A boot with `life_en` off clears the stash. A factory reset saves the totals back on its way down.
  `clock_stepped` pushes a part of an hour into the history (`:245`).
* MQTT session: after `stop()` or a restart with a kept session an id that the broker remembers may be used again, and the
  new message is taken for the old one; `MQTT_Client` stops with a clean session. An ack callback that publishes from
  within `settle()` sends ahead of `rewind()` and then again (`EGMqtt.cpp:474`); the application's does not. With more than
  `EGMQTT_QOS2_IN` messages open, an old one may be delivered again, as its header says. A broker that lost a kept
  session and opened a new one, for a CONNECT whose connection broke before the CONNACK, resumes that one next: the ids we
  still know are new messages to it, and one of them may be taken for old (`ExactlyOnce` asks for a clean session or
  none lost).
* Outgoing connections: `tcp_error` may fall between the event of a connection that came up and `_connected`
  (`AsyncTCP.cpp:349`, `:650`, `:1393`): it finds no pcb to clear, and the client keeps one that lwIP freed. The client is told of
  the error next, and nothing more is read. But its release closes that memory: a later connection that has it ends, and
  nobody tells its client (`CloseFreed`), or it is freed twice, which the model cannot say. An ack or a write through it before the error is
  told is left out, as is which connection got the memory: the model lets it be any made later.
* HTTP server: a connection that breaks while its accept is still queued has that event dropped with the others
  (`AsyncTCP.cpp:665`); the error that follows finds no callbacks, and the client, never handed to the server, stays for
  good (`Missed`, which `FreedOnce` and `AllGivenBack` leave out; its memory is a client's, no slot and no place).
* Boot guard: the safe mode page tells the two ways into safe mode apart by the crash streak (`WebPortal.cpp:393`): a
  single crash before or in a safe mode that was asked for reads as "keeps crashing".
* Upload pause: `active()` clears a pause that another task starts between its two reads (`ExternalPause.cpp:57`).
* Rates: the windowed modes measure back from the newest pulse and do not age when a tube dies (`Counter.cpp:534`).
* MQTT application: one ack is tracked at a time, and a message noted as failed may still be delivered (`MQTT_Client.cpp:431`).
  A save of the settings disconnects in good order, so the will is not sent and the old topic or broker keeps "Online"
  (`docs/outputs/mqtt.md:23` has Offline there).
* Pulse input: a cooldown goes on through an update and attaches the interrupt under it (`GeigerInput.cpp:123`); after
  an update that failed a storm is parked only as that cooldown ends. A pulse whole wraps of `micros()` (71 minutes) after
  the last may fall into its debounce.
* Click output: `take()` lets its time lag by up to 5 s, so after a quiet spell a burst of up to 5 s' worth of clicks
  passes, though the help text says "Cap clicks per second" (`PulseEngine.h:123`); in the long run the rate holds, which is what is
  checked. New settings in the middle of a fade leave the pin lit until the next click (`cut`).
* Alert output: a mode changed from pulse to steady within an alert keeps the level it had (`AlertOut.cpp:82`; `switched`).
* Push button: a press that waits for the loop (50 ms at most) silences an alarm that began meanwhile. An alert that follows a warning
  that was snoozed stays silent until both are over (`Counter.cpp:299`), as the log line there says.
* Waveforms: with more posts than bits, 32, between a withdrawal and the look after it, the answer of another would be read
  (`EGTimer1.cpp:531`); it takes an interrupt that posts, and this program has none.
* Posters: after a post that was late the next slot may follow at once; a ping at exactly 0 ms counts as none.
* SD log: a late loop may give a minute two rows; a lower `sync_min` takes effect with the next row.
* High voltage: a pulse at the least duty that is shorter than the lead of the NMI is skipped.

## What is not modelled

* Pure data: formats of packets, pages, JSON, headers, time zones, base64, serial tubes. The repository has unit tests
  for them, and a model would repeat the code.
* Analogue and statistical parts: sound and voice samples, brightness, averages in floating point, compensation of
  sensors, random numbers.
* Output of what others hold: displays, pages, serial output, LEDs.
* Third-party code: `EGAsyncTCP` of the ESP8266 (a maintained copy; its callbacks run between the passes of the loop), everything
  in `src/vendor`, lwIP, the SDK, LittleFS, SdFat. What the modelled code expects of them is in the guards of the
  actions marked external. These files and the data above (the voice tables alone have 7000 lines, the vendored
  file system more) are most of the repository's lines, so the share of them that the map covers is small.
* Within modelled components: status JSON and profiles of the registry, `remove_group` (called by nothing),
  radio settings, QoS 0, pings and unsubscribe of MQTT, writing on a TCP connection, the ledc of the ESP32, PCNT, the test inputs with
  their callbacks, the clock of the upload pause. Each component's note in `PROJECT.json` is exact about it.
* Assumptions of the models: in `TcpConn` no client has the address of an earlier one; in `UdpClicks` the network
  delays a datagram by a few clicks and a minute at most; in `HighVoltage` the cut-off is on and the
  divider is fitted; in `Poster` and `WebApi` requests are stepped from `loop()` alone, as in the code.

## What could follow

The ring of pulses with its windowed rates, and the clock of the upload pause, are the next modules. Of what is modelled,
`NetworkIsKept` of `WifiLink` has no theorem: it is a promise for a restart that is not late (`Late` is 0) and for networks that
exist among those people enter, as in the run, and a proof that assumed both would say little of the code.
