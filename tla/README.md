# Formal models of the LoRa hub

TLA+ modules for the hub side of this repository: the ESPHome components
`lora_client` (one *listener* per remote node) and `lora_tracker` (the radio
queue), which drive battery-powered blinds over LoRa, the entities of `loracover`
as far as they change a schedule, and the independent `rika_stove`. Paths below are relative
to `src/configuration/local_components/lora_client/` unless they say otherwise.
The firmware of the nodes is not in this repository; the nodes appear here as
the environment, as far as the hub's code and docs rely on them.

## 1. The system

### Parts, their state and their operations

| Part | Source | State | Operations | What must be true of it |
|---|---|---|---|---|
| Session keys | `HubLinkSecurity.*`, `lora_client_session.cpp` | session id, key pair and key epoch per node; pending base nonce; confirmed and relogin flags | `send_login`, REGISTER, opening uplink (candidate keys), confirm, seal, tag per copy | no keystream used twice; a copy is tagged with the keys it was sealed with; keys belong to the current session id |
| Frame counter | `Sequencer.h`, `Mac1Freshness.h`, `FcntReservation.h` | tx and rx counters, the last persisted ones, reserved blocks | allocate, check, commit, reset, restore, reserve, take | stays in the CTR space; an uplink is accepted once; a block has one owner |
| Measurement streams | `lora_client_bench.cpp`, `ModeTestPolicy.h` | active flag, timer, busy flag, one frame buffer | start, stop, timer callback | one writer of the buffer at a time; a stop ends |
| Command delivery | `lora_client_delivery.cpp`, `DeliveryPolicy.h` | the command in hand, the line behind it, retries, ack ids, stored frame, timers | submit, send, timeout, ack, refuse, give up, hold, defer, release | a command reported delivered was run; no second run where the policy forbids it; every command ends |
| Ack cache of a node | `AckCache.h` | four remembered commands | note, classify, re-ack | a retry is re-acked, not run |
| Onboarding | `OnboardingGate.h`, `lora_client_session.cpp` | the gate (holder, line, denials); per listener the hold and the login ladder | tryAcquire, release, assess, login, retry, REGISTER, config-sync relogin | one onboarding at a time; no node is forgotten |
| Schedule push | `lora_client.cpp`, `DeliveryPolicy.h` | slots and mode, their copy in flash, the push in flight and its ids | edit, push, ack, retry, give up, reconcile on a beacon | the node ends with the hub's schedule; an edit is undone only by a later one, or by a crash before it is written |
| Grid push | `lora_client_timing.cpp`, `lora_client.cpp`, `TimedModePolicy.h` | what is acked, the ladder, rate limits | publish, withdraw, regrid, refuse, answer a request, forced relogin | a node without a grid, or with a wrong one, gets it again |
| Transmit queue | `TxQueue.h`, `lora_tracker/lora_tracker.cpp` | buffer pool, hand-off queue, reordering queue, supersession table | send, drain, pop, air copy by copy, listen, read | priority and order; a superseded command is not sent; no buffer is lost |
| The air | `lora_tracker.cpp`, `lora_client_timing.cpp`, `lora_client_bench.cpp`, `ClassAWindows.h` | reserved spans, priced drain, marks | search for a mark, place, reserve, beacon, answer in a window | a mark is clear when it is chosen; nobody's ack timer starts too early |
| Grid arithmetic | `GridState.h`, `PhaseTracker.h`, `TimedGrid.h` | anchor, rate, phase samples | solve, search, aim, learn, trust | hub and node mean the same mark |
| Single shot | `TimedModePolicy.h`, `SingleShotAckWait.h` | the belief about a node's reception | confirm, refuse, place, miss | no run of single copies into a node that does not listen |
| Mode B supervisor | `ModeBSupervisor.h` | arbiter (queue, holder, lease), machine per node | request, grant, tick, restart, yield | one warm-up at a time; no node is stuck |
| Pending-data mask | `PendingData.h`, `PendingShadow.h` | the last mask | compute, query | a node with data is told to listen |
| Sleep and wake | `lora_client.cpp`, `SleepModel.h` | last sleep, last uplink, last beacon; the sensor | sleep acked or unconfirmed, heard, refresh, overdue | the belief is true of the node |
| Weekly scheduler | `Scheduler.*`, `ScheduleText.h` | none (pure) | next and last occurrence, parse | agrees with the definition |
| Stove | `rika_stove/climate/rika_stove.*` | queue of orders, lines received | read, delete, send | what is deleted was read |

Wire formats, sublayer interfaces, entities that only issue commands, generated
code and tools are listed in `PROJECT.json` with the reason they are left out.

### How they interact

Three tasks share the session (`configuration/docs/threading-model.md`): the
*loop* runs every handler and timer of every listener; the *esp_timer* task runs
the callbacks of the measurement streams; the tracker's *send task* transmits
queued bursts and tags each copy just before it leaves. They meet at the locks of
the key store, of the FCNT reservations, of the pool, of the reserved spans and of
the radio. Within the loop the listeners meet at the onboarding gate and at the
warm-up arbiter, and one listener's parts call each other directly: an uplink
confirms the session, which releases the deferred command, the config push, the
grid push and the relogin timer; a command given up starts a login; a login or a
REGISTER destroys keys, stored frames, reserved counters, ack ids and the belief
that the node receives on the grid; a command yields the warm-up of its node; a
beacon is the reconciliation point of schedule, grid, clock and sleep.

### What is hard

Threads that read a key epoch, take a counter and seal under two different
locks; frames that wait in a queue across a rekey; timers that race the answer
they wait for; a session rebuilt by either side at any moment; a node that
sleeps, demotes itself or reboots without saying so; several listeners that want
one radio; marks chosen by one task and taken by another; arithmetic on two
clocks; firmware that ignores part of a message. `PROJECT.json` lists each
hazard at its line with the properties that guard it.

## 2. Modules

| Module | Models | Kind |
|---|---|---|
| `HubSession` | session keys, counters, streams and the three tasks, for one node | machine |
| `HubSessionProofs` | theorems about `HubSession` | proofs |
| `WaitLine` | a fixed array of waiters: who waits after one joins or leaves | operators and their lemmas, used by `CommandLine`, `Delivery`, `Onboarding`, `TxQueue`, `ModeB` |
| `CommandLine` | what the Control channel promises: a line of commands | abstract specification |
| `Delivery` | the Control channel of one node, its radio and the node | machine, implements `CommandLine` |
| `DeliveryProofs` | theorems about `Delivery`, the refinement among them | proofs |
| `AckCache`, `Sequencer` | the node's answered commands and its replay window | operators, used by `Delivery` |
| `Onboarding` | the gate, several listeners and their nodes | machine |
| `OnboardingProofs` | theorems about `Onboarding` | proofs |
| `DownlinkQueue` | what the tracker promises the tasks that send | abstract specification |
| `TxQueue` | reordering queue and supersession table | operators |
| `Tracker` | pool, hand-off, send task, radio | machine, implements `DownlinkQueue` |
| `TrackerProofs` | theorems about `Tracker`, the refinement among them | proofs |
| `Air` | marks, reservations, drain, beacons, Class A replies | machine |
| `ModeB` | arbiter, supervisors and their glue in the listener | machine |
| `ModeBProofs` | theorems about `ModeB`, `GridSync` and `NodeGrid` | proofs |
| `GridMath` | the arithmetic hub and node share | operators |
| `NodeGrid` | a node that keeps time with the hub | machine, over `GridMath` |
| `GridSync` | the grid of one node: publish, loss, repair | machine |
| `ScheduleSync` | the schedule of one node: edit, push, reconcile | machine |
| `ScheduleSyncProofs` | theorems about `ScheduleSync`, `Week` and `WakePlan` | proofs |
| `SingleShot` | when one copy may be sent instead of a burst | machine |
| `SingleShotProofs` | theorems about `SingleShot` and `Air` | proofs |
| `Week` | next and last occurrence, what a text parses to | operators |
| `WakePlan` | sleep, wake and the hub's belief of both | machine, over `Week` |
| `RikaStove` | the stove's modem dialogue | machine |

`MC...` modules hold the model values of the machine they are named after. `Init`,
`Next` and `Spec` of `Air`, `GridSync`, `NodeGrid` and `WakePlan` are named `AirSpec`,
`GridSpec`, `NodeSpec`, `PlanSpec` and so on, since their theorems stand beside those of another machine.

### HubSession

One action is the code between two places where another task can run. A loop
handler with several critical sections is a sequence driven by `lpc`
(`send_login`: `SendLogin`, `DropKeyedState`, `RestartCounters`,
`PublishLogin`; the opening uplink: `AcceptUplink`, `ConfirmSession`); a callback
is a sequence driven by `tpc[s]` (read the epoch, take an FCNT, read the confirmed
flag, seal, check the epoch again, hand over). `SendCopy` is the send task: it
holds the key lock. A key is named by what it is derived from, `<<session id,
node nonce>>`; a frame carries the key, session id, FCNT and epoch it was sealed
with. Encryption, CMAC and derivation are not modelled: equal names mean equal
keys. `handed` and `reused` are history.

Abstractions: frames stay in the tracker's queue as long as they like and are
sent in any order and number (the queue's order and bursts cannot matter to
`CopyMatchesSeal`); session ids and node nonces are random in the code and never
repeat here; the hub crashes only between actions; the busy flag is raised in the
step in which the timer fires; adjacent critical sections of one handler that no
other task can tell apart are one action. Plaintext uplinks never move the receive
counter and are refused in a confirmed session; they are left out. A hub restart
keeps counters and no keys, so the save of the counter is the margin it skips.

### CommandLine and Delivery

`CommandLine` has one command in hand, a line of bounded length, and an end for
every command. `Delivery` is the code: `hub` is the listener as a record and each
function of the code a function from hub to hub, so a handler is the
composition of its calls, in their order. What the environment decides inside a
handler is the record `e` (can the frame be built, is it an optimistic single
shot, is the gate free). Uplinks are a FIFO that may lose; downlinks are the set
of frames still queued, from which starting a newer command removes older ones
(the supersession table). The node has a replay window (`Sequencer`) and remembers
what it answered (`AckCache`); a frame of another channel, heard or lost in one
step while a command is awaited, takes a counter and an entry of the cache.
`Line == INSTANCE CommandLine WITH ...` maps the slot, the line and the ends;
`Contract` is the refinement. A command leaves its place in the line as in
`ControlQueue`: the first of its kind is found and those behind it move up
(`WaitLine`); that no second one of the kind waits is part of the invariant.

What the node runs is recorded in `ran`; `RunsNoMoreOften` is about the commands
that arrive sealed. One sent in the clear is protected by no replay window that
survives a restart of the node, so its retry may run it again; the hub is not meant
to send one to a node it shares keys with, but may (finding 2).

Assumed: the copies of one burst are one frame, and retries come later than
`kBurstSpanUs` and `kMinReAckIntervalUs`; the node keeps window and cache across
its sleep; the config-sync relogin does not happen (the configuration is in sync);
the expiry of a sleep request is a timer that fires once. The code's `kMaxReAcks`
(3) is below `kControlMaxRetries` (4), so a fourth retry is by design not
re-acked; the instance keeps budget and ladder equal.

### Onboarding

`gate` is the `Gate` object with `TryAcquire` and `Released` as its methods;
`held`, `hold`, `timer` and `login` are the listener's fields. Every path to a
LOGIN is an action: the startup timer, the retry timer, the config-sync timer, a
stray uplink of an unknown session, a command given up. Time has two grains: a
*later* timer fires when it likes; polls happen in rounds of `kPollMs`, in which
everything due runs once, in any order. Constants counted in polls are the
code's milliseconds divided by `kPollMs`.

Left out: stagger and backoff are delays of unknown length, with one assumption:
a login retry waits for the round trip of its LOGIN (`ack_wait_ms_`,
`ms_until_node_awake_`) unless the answer is slow, which is counted as a fault.
The settle conditions `tx_drain_us` and `schedule_outstanding` are free. A
REGISTER inside `kRegisterRateLimitUs` is a lost frame.

### DownlinkQueue, TxQueue and Tracker

`DownlinkQueue` promises that an accepted frame leaves once, in the order of
urgency, instant and acceptance, and that a command was current when the radio
took it up. `Tracker` is the code: `send` is three actions of a producer (take a
buffer, announce the generation, hand over), because esp_timer may run between
any two; the send task is driven by `spc`: drain, pop and check, wait for the
instant, write the FIFO under the radio mutex, transmit, the gap between copies,
back to the pool. Its wait (`Wakes`) ends by a hand-off or by the next eligible
instant. `Arrive` is the radio receiving. Left out: diagnostics counters, the
watchdog of TxDone, modem settings. The hand-off queue is at least as deep as the
pool, and so is the scheduler; both are the code's values and are assumptions.

### Air

The plan of the air: marks of the nodes (`T0`), the search for a clear one, the
reserved spans with their eviction, the span priced at `send` and at the start of
a burst, the drain that ack timers add, beacons on beacon rounds, and the answer to
a node that opens two windows after its uplink. A send takes effect at once, except
that the mark is chosen in a step before it, since the other task may run in
between. Time is in coarse units and does not pass an instant the send task must
act on. The pool is smaller than the table of reservations, as in the code. Frame
lengths are the stamped ones (as `onAirLen_` says; `serviceTxQueue` itself prices a
burst without the stamp, a difference below one unit). The loop may be arbitrarily
late with its answer (`ReplyAfter` is a lower bound). An answer in a window is
placed without a search for a clear one, as in the code, so it may wait behind a
burst; `ReplyOnTime` says that nothing else makes it late.

### ModeB

Supervisors tick once per unit, in any order; `Advance` ends the unit. A time in
the code is a countdown here. What happens to a node from outside (a command, a
push, a relogin, sleep, reboot, a refusal, the switch, an operator's test) is
`Environment`, bounded by `MaxEvents`. Assumed: the loop is not stalled for a
whole unit, and the lease outlives a warm-up with its stop timer by more than one
tick (`LeaseAssumption`, the code's constants).

### GridMath and NodeGrid

`GridMath` is the header-only arithmetic, with C's division, in units chosen small;
`NodeGrid` is a node that adopts a grid, learns its rate from beacons, is promoted
on phase samples and opens one window at a time. The node's firmware is not in this
repository: the order of its calls is taken from the headers' contracts and from
`configuration/tests/proto_sim/scenarios` (`grid_state_test.cpp`,
`real_cmd_dispatcher_test.cpp`). The hub
sends `AllListening`; `ClearsBits` makes it send the mask it computes in shadow,
which is the mask whose safety is in question.

### GridSync, ScheduleSync, SingleShot

Three machines about one node each, on the loop, with the node external and its
uplinks in order. `GridSync`: the ladder of publishes, its ack, the counters that
make a rebooted node deaf, and the three ways the hub notices. Elapsed-time tests
are flags raised by their event and lowered by `Pass...` actions. A node that is
promoted or demoted owes an announcement and makes it when the minute since its last
one is over (`owes`, `announced60`), by then perhaps of another state; a node that
boots sends BOOT, with or without a phase report, and as a rule its first announcement
before it. Any frame may be lost; `unheard` and `missedBoot` are history: the hub's
belief contradicts the node's latest word, which it has missed, and it has missed a
BOOT since the login. `ScheduleSync`: a version is the schedule itself, in RAM, in
what ESPHome has in hand (`staged`), in flash, in flight and on the node; ESPHome may
fail to take a blob in hand, writes what it has at some time of its own (`Flush`) and
before a clean restart (`HubRestart`), and not before a crash (`HubCrash`); ids of
earlier attempts stay acceptable as in `AckIds`. `SingleShot`: the belief of
`TimedModePolicy.h` as a record, the ladder of refusals over it, and the slots of
the two channels that place frames; `exposed` counts single copies of one request
sent into a demoted node.

### Week and WakePlan

`Week` translates the searches of `Scheduler.cpp` and what a text parses to.
`WakePlan` runs them inside the hub's model of a node that sleeps on command or by
itself: a day has `DayLen` minutes and a week `Weekdays` days, time is in whole
seconds, and the zone moves. Assumed: an automatic node stays awake for less than
the grace after its beacon, and resets come more than a second after a sleep ack. A restart of the hub restores the
latest sleep, table and mode; that a crash may restore older ones (`flash_write_interval`)
is in `ScheduleSync` only.

### RikaStove

The stove reads, obeys, deletes and answers; Home Assistant gives orders meanwhile.
The wire carries whole lines.

## 3. Runs

| Run | Checks | Bounds and why they are enough | States |
|---|---|---|---|
| `session` | `SealSound`, `KeysAreLive`, `AcceptedOnce`, `BufferOwnership`, `StopCompletes` | two logins and a hub reboot, three key epochs, a ping and a test stream with blocks of two, a counter of four: a relogin can fall between any two steps of a callback, and counter, blocks and callbacks all meet the end of the space. One node nonce: a second live session is left to `HubSessionSafety.cfg` | 0.68 M |
| `delivery` | `AcksAreTrue`, `RunsNoMoreOften`, `NothingSentToSleeper`, `Contract`, `EveryCommandEnds` | two commands of three kinds (cover, sleep, OTA), one retry, one fault (relogin, reboot, status uplink, failed pack or a frame of another channel), a cache of two. Two commands fill a line of one but never overflow it | 0.41 M |
| `onboarding` | `OnboardingAgrees`, `OneOnboarding`, `EveryNodeOnboarded` | three nodes, one of older firmware (its relogins do not end), one in sync and one absent, one fault: a line of two, a front that stops asking, the give-up | 0.62 M |
| `tracker` | `NothingLost`, `FifoHoldsFrame`, `Contract`, `QueueEmpties` | three frames through a pool of two: pool, hand-off and scheduler are full; two copies per burst, so that there is a gap; two producers | 0.77 M |
| `air` | `PlanSound`, `MarksAreOwn`, `ReplyOnTime` | two rounds of two nodes and a beacon, three frames and a pool of three: spans overlap and the table (four) evicts; the loop late by any amount | 3.1 M |
| `mode_b` | `WarmupAlone`, `TokenSound`, `ManualUndisturbed`, `EveryoneGetsATurn` | two nodes, two outside events: a command or a test meets a warm-up of its own node and of the other | 0.80 M |
| `grid_sync` | `PromotionIsTrue`, `PromotionComesBack`, `AnchorIsRepaired` | two events (reboot, login, demotion, drift, the switch) and two lost frames of any kind, three in all; three uplinks in flight; the ladder (four) is longer than all together, as the code's is meant to be. The belief is put wrong by a demotion inside the announce floor, a lost or report-less BOOT, a report overtaken by another | 0.34 M |
| `schedule_sync` | `PendingIsTrue`, `IntentIsKept`, `ScheduleArrives` | two edits (A, B, A on two tables and two modes), two faults (clean restart, crash, failed save, login, reset, lost frame), three in all, one retry, two acceptable ids | 1.4 M |
| `single_shot` | `BoundedExposure`, `MissIsRetriedAsBurst`, `OldSessionProvesNothing` | the Control channel with the optimistic switch on, two retries, a restart, two uplinks on their way | 2.1 M |
| `node_grid` | `SearchesAreExact`, `OnTheGridOnceLearned`, `NoMarkTwiceOrMissed`, `NothingWaitsBehindASkip` | three slots, a clock that runs slow or fast, seven rounds, one beacon in a row lost: the rate is learned and used across a lost beacon, two nodes share a slot | 0.29 M |
| `wake_plan` | `ScheduleSearchIsExact`, `SensorEndsOnTime`, `BeliefIsTrue` | two weekdays of six minutes, two slots, one edit, one fault, one hub reboot, two sleeps | 0.81 M |
| `stove_queue` | `OnlyReadIsDeleted` is violated | a queue of two, three orders | |

`CHECK_DEADLOCK FALSE` is used where everything comes to rest once bounded
commands, faults and time are spent.

The bounds are the constants named `Max...` in each module and the shrunk limits
of the code, each named in the comment of its constant: for instance `MaxRetries`
1 for 4, `QueueDepth` 1 for 4, `AckCap` 2 for 8, `CacheEntries` 2 for 4,
`FcntLimit` 4 for 2^31, `RxWindow` 3 for 1024, `MaxLoginRetries` 2 for 24,
`HoldPolls` 2 for 120. Units of time are chosen so that the order of the code's
constants is kept. In `NodeGrid` a rate is in parts per thousand, and the shortest
span a rate is learned from (`MinSpan`) is as long as that coarseness needs to stay
within the guard over one lost beacon.

Further configurations are run by hand: `HubSessionSafety.cfg` (one stream, two node
nonces, 3.1 M states), `HubSessionInductive.cfg` (types and the inductive invariants
of the proofs), `OnboardingLive.cfg` (two faults after which every node is onboarded),
`OnboardingLegacy.cfg` (a node of older firmware, whose relogins do not end, and two
faults: no other node is kept out for good), and the violations of section 4.

### Properties that join several

`SealSound` joins `KeystreamUnique`, `FcntInSpace`, `CopyMatchesSeal` and
`KeysMatchSessionId`; `KeysAreLive` joins `ConfirmedHasKeys` and `StoredFrameIsLive`;
`AcksAreTrue` joins `DeliveredWasExecuted` and `RetryIsRecognised`; `RunsNoMoreOften`
joins `OncePerSession` and `OtaAtMostOnce`; `OnboardingAgrees` joins `GateAgrees` and
`ConfirmedIsShared`; `NothingLost` joins `PoolSound` and `NothingRefused`; `PlanSound`
joins `StaysReserved` and `DrainCovers`; `MarksAreOwn` joins `PlacedClear` and
`OneFramePerMark`; `WarmupAlone` joins `OneWarmup` and `CommandGoesFirst`;
`BeliefIsTrue` joins `HeardIsNotAsleep`, `OverdueIsTrue` and `AutoNodeIsLeftAlone`.

### Fairness

- `HubSession`: a callback that has started runs to its end (the esp_timer task
  has a higher priority than the loop), and the loop's spin sees that it has.
- `Delivery`: the loop runs its timers; a node that sleeps wakes; an uplink, and
  the answer to a LOGIN, gets through if it is offered for ever (strong
  fairness: the radio loses, but not always). Nothing says that a node ever runs
  or acks a command.
- `Onboarding`: the loop runs timers that are due and handles uplinks it has
  received, time passes, and a node that has a LOGIN answers it. Losses, slow
  answers, restarts and give-ups are bounded by `MaxFaults`: the property is about
  what follows the last of them. No fairness is asked of faults. Time passes under
  strong fairness, since every delay of the code is at least one poll: handlers that
  start timers again and again cannot keep a round from ending. A node of older
  firmware, to which no configuration is ever pushed, is brought up again and again,
  hence `[]<>` for it and `<>[]` for the others.
- `Tracker`: the send task runs, time passes, and a producer that has taken a buffer
  hands it over. No producer has to send.
- `ModeB`: every supervisor ticks, the stop timer of a test fires, the unit ends.
  Nothing is asked of nodes or users.
- `GridSync`: the loop runs its timers and handles what arrives, a node hears what is
  not lost (losses are bounded), and elapsed times elapse. The times pass with weak
  fairness, except the one a node waits before it asks again, which passes although
  warm-ups go on failing meanwhile (strong fairness). A node that owes an announcement
  makes it, and the floor between two ends.
- `ScheduleSync`: timers, arriving frames, and beacons: a node wakes for its check-in
  or after its nightly sleep (`on_sleep_start` in `configuration/loradevices.yml`).

## 4. Disagreements between the code and what it says

1. **The stove's delete** (`stove_queue`). `AT+CMGD` removes the front of the queue of
   orders, and a full queue drops its front to make room. If Home Assistant gives an
   order to a full queue between the stove's read and its delete, the delete removes an
   order the stove has never read.

The following are shown in the same way by configurations run by hand; the property
named is violated, and its comment quotes what is promised.

2. **A plaintext command in a session** (`HubPlaintext.cfg`,
   `NoPlaintextCommandInSession`). Giving up a command (`lora_client_delivery.cpp:671`)
   clears `session_confirmed_`; if another node holds the gate, the login is only polled
   for and `relogin_pending_` stays false. The next command is sent in the clear to a
   node that refuses plaintext, though lines 223-227 mean to defer it "rather than this
   sending a plaintext frame now".
3. **A keystream used twice** (`HubRestartKeystream.cfg`, `KeystreamUnique`). Starting a
   mode or drift test while it runs replaces the reservation that the running callback's
   epoch check then reads (`lora_client_bench.cpp:481`). It takes a callback that stalls
   across a relogin and a second press of the button; with `RestartTests = FALSE` the
   property is proved. `docs/threading-model.md:61-68` promises the check.
4. **An OTA run twice** (`DeliveryOptimistic.cfg`, `OtaAtMostOnce`). The short wait of an
   optimistic single shot (`lora_client_delivery.cpp:654`) re-packs without asking whether
   the command may be re-packed; `DeliveryPolicy.h:283-285` says "AT MOST ONCE".
5. **`hub_rebooted` on every LOGIN** (`OnboardingReboot.cfg`, `HubRebootedOnlyOnce`). The
   flag it is computed from (`lora_client_session.cpp:1419`) is cleared just before, at
   line 94.
6. **A relogin loop** (`OnboardingSync.cfg`, `ConfigReloginsEnd`). The guard that the
   comment at `lora_client_session.cpp:627-632` calls loop-safe is reopened by the relogin
   itself, for firmware that ignores `request_register`.
7. **Two frames on one mark** (`AirRace.cfg`, `OneFramePerMark`). The loop
   (`send_aligned_`) and the esp_timer callback (`lora_client_bench.cpp:521`) each look for
   a clear mark and reserve it only in `send`, each with its own record of the last mark, so
   both can choose the same one. `lora_client_timing.cpp:479`: "one frame per mark is the
   invariant that was wanted".
8. **A deaf node without a grid** (`GridWedge.cfg`, `GridComesBack`). A node that reboots
   twice within 20 s while the first publish of its session is being repeated: no regrid is
   stamped (`lora_client_timing.cpp:886`), so the spent ladder forces no login, and the node
   stays behind its replay mark until the next one.
9. **A switch that does nothing** (`ModeSwitch.cfg`, `AskedReachesNode`). `set_auto_mode`
   (`lora_client.cpp:1187`) returns when its own flag has the value asked for, which after a
   button at the blind is not what the node does nor what the switch shows.
   `lora_client.h:406` promises the change "reaches the node on its next beacon".
10. **Single copies on the Config channel** (`ConfigShot.cfg`, `BoundedExposure`). The miss
    of a schedule push is not recorded, because `sent_single_shot` is set for the Control
    channel only: every retry of the push (`lora_client.cpp:1358`) is again one copy.
    `TimedModePolicy.h:31-33`: "at most ONE single-shot frame".
11. **Hearing beats the clock, but not across a restart** (`HearingBeatsTheClock` in
    `WakePlan`, in no configuration). The time of the last sleep is kept in flash, that of
    the last uplink is not: after a hub restart a node heard before it may be believed
    asleep. `SleepModel.h:22-24` states it without that exception.

Met while reading, with no property of their own:

- A TimeSync is throttled from the moment it is admitted (`lora_client.cpp:1683`). If the
  frame is then dropped because its windows have passed, refused by the pool, or lost, an
  automatic node gets no other for a week; `lora_client_delivery.cpp:393-402` says its next
  beacon gets one, and the stamp survives a REGISTER.
- `next_wake_epoch_` counts switched-off slots as active (`lora_client.cpp:320`), and
  prefers the last commanded sleep even after a switch to automatic (`lora_client.cpp:296`,
  against the comment at 291): predictions of wakes that do not come. `Agreed` in `WakePlan`
  excludes both.
- `promoted` has no age in `mbs_inputs_`, though `ModeBSupervisor.h` says "(fresh)": a node
  whose last word is lost (the announcement of a demotion; a BOOT and the first announcement
  that goes with it), or comes without its phase report while a publish is awaited, stays
  promoted in the hub's belief until it next says how it is. Until the announcement, for up
  to a minute, the belief may be wrong with nothing lost (`kModeAnnounceMinS`,
  `TimedModePolicy.h:182`). `PromotionIsTrue` says that it is wrong in no other case,
  `PromotionComesBack` excepts the belief nobody ever corrects, and also a BOOT missed in the
  session, after which the hub's counter may stay behind the node's replay mark.
- Schedule edits A, B, A: the late ack of the first A sets `node_sched_version_` to A
  (`lora_client.cpp:727`) while the push of B is still under way, or has been taken. "Schedule
  Pending" clears and the record of ids is dropped, although the node runs B, until its next
  beacon. Lines 718-719 call the ack "the only positive confirmation the hub gets that the
  schedule actually landed". `PendingIsTrue` excepts this case and no other; with
  `PendingIsExact` in its place `ScheduleSync.cfg` shows it. `ScheduleArrives` holds all
  the same.
- A schedule edit is in flash only when ESPHome next writes (`flash_write_interval: 30min`,
  `configuration/loradevices.yml:55-56`) or the hub is restarted cleanly; `save_schedule_`
  does not sync, and a save that fails is only logged (`lora_client.cpp:1125-1126`). A crash
  or power loss before that brings the previous schedule back and pushes it to the node,
  which is what persisting is meant to prevent (`lora_client.cpp:1052-1056`: "Without this an
  HA-entered schedule would be silently reverted"; `loracover/datetime/__init__.py:12-13`:
  "which is what actually survives a reboot"). The YAML says so of its switches (1425-1429).
  `IntentIsKept` states that an edit is given up in these cases and in no other.
- `serviceTxQueue` prices the burst on the air without the stamp that `onAirLen_` adds.
- A mark within the prepare lead of now is chosen by `nextPlacementT0_` and missed by a few
  milliseconds; an unplaced burst popped while a placed frame waits makes that one late.
- `lora_client.h:1510-1516` says `session_confirmed_` is cleared on sleep;
  `on_sleep_acknowledged_` does not clear it.
- An uplink that has arrived and is not yet read when the next copy is written to the FIFO
  is lost.
- An enabled slot without days is formatted "daily"; eight long slots exceed the text's
  240 characters; the slot entities and the text are not republished on each other's edits.

## 5. Proofs

For every set of streams or nodes, length of a line, size of a block or a pool,
counter limit, timing constant and bound:

| Module | Theorem | States |
|---|---|---|
| `HubSession` | `TypeCorrect` | `Spec => []TypeOK` |
| | `KeysMatchSession`, `CopyMatchesSealHolds` | the two parts of `SealSound` that need no hypothesis |
| | `KeysAreLiveHolds` | `Spec => []KeysAreLive` |
| | `AcceptedOnceHolds` | `Spec => AcceptedOnce` |
| | `IInvHolds` | `Spec => []IInv`, given `~RestartTests` |
| | `KeystreamUniqueHolds`, `FcntInSpaceHolds`, `SealSoundHolds`, `BufferOwnershipHolds` | the properties, given `~RestartTests` |
| `Delivery` | `DeliveryInvHolds` | `Spec => []DeliveryInv` |
| | `ContractHolds` | `Spec => Contract`: it implements `CommandLine` |
| | `AcksAreTrueHolds` | `Spec => []AcksAreTrue`: what is acked was run, a retry is recognised |
| | `NothingSentToSleeperHolds` | `Spec => []NothingSentToSleeper` |
| | `OncePerSessionHolds` | no sealed command runs twice in a session |
| | `RunsNoMoreOftenHolds` | `Spec => []RunsNoMoreOften`, given `~Optimistic` |
| `Onboarding` | `OnboardingInvHolds` | `Spec => []OnboardingInv` |
| | `OnboardingAgreesHolds`, `OneOnboardingHolds` | both safety properties |
| `Tracker` | `TrackerInvHolds` | `Spec => []TrackerInv` |
| | `NothingLostHolds`, `FifoHoldsFrameHolds` | both invariants |
| | `ContractHolds` | `Spec => Contract`: it implements `DownlinkQueue` |
| `ModeB` | `WarmupInvHolds` | `Spec => []WarmupInv` |
| | `OneWarmupHolds`, `CommandGoesFirstHolds`, `WarmupAloneHolds` | the three invariants |
| | `TokenSoundHolds` | `Spec => []TokenSound` |
| | `ManualUndisturbedHolds` | `Spec => ManualUndisturbed` |
| `SingleShot` | `ShotInvHolds` | `Spec => []ShotInv` |
| | `BoundedExposureHolds`, `MissIsRetriedAsBurstHolds` | the properties, given `"config" \notin Channels` |
| | `CommandsExposeOnce` | the first of them for the commands, with the Config channel in use |
| | `OldSessionProvesNothingHolds` | `Spec => OldSessionProvesNothing` |
| `Air` | `ReplyOnTimeHolds` | `AirSpec => []ReplyOnTime` |
| | `OneMarkPerSenderHolds` | two frames of one task for one node have two marks |
| | `OneFramePerMarkHolds` | so have any two frames, given that only the loop places frames |
| `GridSync` | `PromotionIsTrueHolds` | `GridSpec => []PromotionIsTrue` |
| `NodeGrid` | `ClocksTypedHolds` | `NodeSpec => []ClocksTyped` |
| | `SearchesAreExactHolds` | `NodeSpec => []SearchesAreExact` |
| `ScheduleSync` | `TypeCorrect`, `ScheduleInvHolds` | `Spec => []TypeOK`, `Spec => []ScheduleInv` |
| | `PendingIsTrueHolds`, `IntentIsKeptHolds` | both safety properties |
| `WakePlan` | `PlanTypeCorrect` | `PlanSpec => []PlanTypeOK` |
| | `ScheduleSearchIsExactHolds` | `PlanSpec => []ScheduleSearchIsExact`, given `SearchDays > Weekdays` |
| | `SensorEndsOnTimeHolds` | `PlanSpec => []SensorEndsOnTime` |
| | `HeardAndSeenAreTrue` | the first two parts of `BeliefIsTrue`, given `SleepFor > 1` |
| | `BeliefIsTrueHolds` | `PlanSpec => []BeliefIsTrue`, given also a check-in, `Stay > 0` and `SearchDays > Weekdays` |

The theorems about `GridSync` and `NodeGrid` are in `ModeBProofs`, those about `Air` in
`SingleShotProofs`, those about `WakePlan` in `ScheduleSyncProofs`, all others in the
module of the first column with `Proofs` added. TLC finds no state that violates an
inductive invariant on the instance of its machine's run: `HubSessionInductive.cfg` for
the session; for the others the run's configuration with the invariant (`DeliveryInv`,
`OnboardingInv`, `TrackerInv`, `WarmupInv`, `ShotInv`, `RepliesInv` and `MarksInv`,
`PromotionInv`, `ScheduleInv`, `PlanInv`, and `ClocksTyped` with intervals for `Int` and
`Nat`) in place of its properties.

**Lines.** `WaitLine` has what every one of these arrays needs, once: who waits
after one is appended, leaves a place or leaves by name; that nobody comes to wait
twice; how the length changes.

**The session.** `HubSessionProofs` builds up in layers, each inductive on the layers
below: types; the session (`SessionInv`: keys exist only for the current id, and
beside a pending challenge only in the instant of its confirmation); key epochs
(`EpochInv`: a frame of the current epoch was sealed under the live keys, which is
why the epoch comparison under the key lock suffices); uplinks (`AcceptedInv`:
what was accepted in the current session is not above the counter); belief
(`LiveInv`: a frame kept for a retry is of the live keys; a login leaves none
because a fresh challenge drops it and a repeated one finds the keys already gone).

`KeystreamUnique` is not inductive: that no two frames *were* sealed alike says
nothing of the FCNTs that streams still own. `IInv` gives every FCNT one owner:
a frame handed over (`FrameInv`), the frame a stream has ready (`Upcoming`), or
the block and the taken FCNT of a stream that may still seal (`OwnInv`). A step
moves FCNTs between owners (lemma `Claims`); a key change moves the epoch, which
leaves every block unusable at once. `StreamInv` supplies that a start never
meets a running callback, and it is the part that fails when a running test may
be started again: hence the hypothesis `~RestartTests`, and finding 3 of section 4
that shows it is needed.

**Delivery.** That a delivered command was run is a statement about the hub's slot
and the node's history, with nothing about what lies between. `DeliveryInv` follows
an ack back along its way. `DeliveredRan`: what ended as delivered is in `ran`.
`AcksKept`: an uplink that acks a number as done under some key was sent after
that number ran under that key. `MemoryKept`: what the node remembers as done of the
hub's commands under the key it has, it has run.
`FramesKept`: an id on record belongs to the command in hand, a command that waits
has not been packed, and one command has one frame under one key, so an id names a
command. `KeysKept`: a key the hub is still to learn has sealed nothing; a REGISTER
on its way separates the uplinks of the old key from those of the new, and the node
draws fresh nonces. `LineKept` and `LineOnce` (no two covers and no two sleeps wait),
`SlotKept` (a login in progress leaves no key and no stored frame; what is deferred
has a reason) and `SleepKept` make the handlers' early returns sound. `RunsKept` and
`FramesKept` give the number of runs: a retry repeats the stored bytes, which the
window of the node refuses.

A handler of the code is a composition of functions from hub to hub, and so is its
proof: one lemma for each function (`Sends`, `NextTakesOver`, `LadderEnds`,
`Confirms`, `Registers`, ...) says what it makes of these parts when node, air and history stand
still, and what it does to the line; the lemma of a handler takes one step for
each function it calls. The refinement falls out of the same lemmas: `LineStep` says
that what a handler did to the line is one step of `CommandLine` or none.

`RunsNoMoreOften` needs `~Optimistic`, since with it the short wait packs a command
again under the next key, and an OTA may run in both sessions: finding 4 is its
counterexample. Once per session holds either way.

That a retry is recognised is the other half of `AcksAreTrue`. `RecognitionKept`: a frame that
may come again is new to the node's window, or stands in its cache with no more entries
behind it than frames overtook it, unless too many have. Only one command at a time has
such frames (`OneCommand`), and the window is never ahead of the hub's counter
(`WindowKept`), so a command packed now is new.

**Onboarding.** `OnboardingAgrees` lacks what is on the air. `FramesAgree` adds that a
LOGIN offers the session the hub has, that a sealed uplink carries its node's, and
that a node which left a confirmed session has said so in a REGISTER nobody asked
for, which is repeated until it is heard. `RetriesLeft` bounds the ladder, and
`GateAgrees` is inductive once the line is `Distinct`. That a LOGIN goes out only
under the gate is then shown for each of the paths to one.

**Transmit path.** `TrackerInv` says of every buffer that it is in one place of six
(free, with one of the producers, handed over, scheduled, sending), that each queue
has it once, and that a buffer out of the pool is marked and has its frame. That the
buffers add up to the pool (`NothingLost`), and that neither queue can be full when
a frame is announced, is counted from that. `Exclusive` ties the radio's mutex to
the copy being sent. The refinement maps the two queues, laid end to end, to the
promised order of acceptance: draining is a stutter, a pop is the promised choice
because the code's and the promise's order agree on every entry (`EntriesMatch`).

**Mode B.** `OneWarmup` is not inductive: the arbiter does not stop a warm-up, it only
lets its lease end. `WarmupInv` says that a warm-up on the air has the token, that
its holder is in the phase *Warming*, and that what is left of the test is less than
what is left of the lease, so that the lease can end only after the test has. This
uses `LeaseAssumption`. `TokenSound` uses it and the lemmas of `WaitLine`.

**Single shot.** `ShotInv`: the slot of a command records its shot, and once a shot has
met a demoted node none is on its way and the next attempt finds a reason to be a
burst (the slot's own record, a belief with an unanswered shot, or one that never saw
a report). The record is made for the Control channel only; with `"config"` among the
channels the two properties are false (finding 10), hence the hypothesis, and
`CommandsExposeOnce` shows that the gap does not spread to commands.

**The air.** A reply is accepted `Lead` or more ahead of its instant, and the clock passes an
instant at which something is due only while a burst is on the air, which ends where
`burstBusy` says (`RepliesInv`). Marks of one sender go up (`MarksInv`): the mark a task has
chosen is above the last it gave that node, whatever round the search came to, and a
beacon's is that of a later round than the one remembered. Two tasks compare with two
records, hence the hypothesis of `OneFramePerMarkHolds`; finding 7 is its counterexample.

**The grid of a node.** `BeliefCorrected` looks at everything that says the node is timed:
the belief itself, and each beacon or ack under way that says so. Unless the node is
timed or owes an announcement, something further back in the queue takes each of them
back; for the belief, a lost last word (`unheard`) is the other way out. A node that stops
receiving timed owes the announcement from that step on, and pays it with a frame that
says so; a boot says so at once. A loss takes the front of the queue only, and when that was the
only word left, `unheard` records it; a BOOT without a report leaves the belief alone only while
no regrid is due, and counts as unheard. No frame is assumed to arrive.

**The searches of a node.** Of two spans the longer, stretched by any learned rate, stays the
longer by three quarters of the difference less two instants, the truncation of both
products included (`StretchGrows`; `RateAssumption` allows a rate of a quarter where the
code clamps it to 200 ppm). So marks go up by one instant at least from each to the next
(`MarksGrow`), and the two loops of a search end at the first mark that serves whatever the
guess was (`FirstFromIs`). `FirstMarkIsNear` says in how many rounds that mark is found, which
makes the least mark of a bounded range the least of all. `ClocksTyped` is what the
searches are called with: the clamp holds across every beacon.

**The schedule.** `KnowledgeKept`: an id on the air names its own push, and once the hub
knows, or something on its way would tell it, that the node runs the hub's schedule, no
older push can still reach the node - unless `crossed`, an edit that went back to a
schedule the node has had while the push of another was unanswered, which a beacon that
nothing follows ends (`LastIsTrue`: the latest uplink, when it is a beacon, is how the node
is). `BlobsKept`: what ESPHome has in hand is the schedule, or the save of the last edit
failed; of flash nothing is claimed, a crash restores whatever was written. `IntentIsKept`
then follows action by action. Fresh ids exist because
those in use are finitely many (`FreshId`).

**Sleep and wake.** `Week` is about division. Weekday and minute of an instant are its
unique quotient and remainder, whatever the zone; what fires today fires a week later, so
that searching `SearchDays` days from today's midnight finds the first of all
(`ScheduleSearchIsExactHolds`; the code's eight days are one more than a week, as the
hypothesis asks). On that rests the belief. `NapInv`: the hub stamps a sleep at most one
second after the node went down, and the node wakes after that stamp and when its own plan
says. `ShownInv`: the timeout that ends the sensor is set for the sleep that is shown.
`HeardInv` and `SeenInv`: what was heard since the node woke is later than its sleep; what
the last beacon told still holds, and an acknowledged sleep after it is the one the node is
in. The hypotheses are about whole seconds: a commanded sleep is longer than one, an
automatic node is awake for at least one, and a check-in is configured (with neither
check-in nor slot a node never wakes, which the hub cannot tell).

Assumptions: those named `...Assumption` in the machines, all of them facts of the
code's constants or of the sets' elements, and those of the models (fresh nonces,
atomic critical sections, a tick in every unit; section 2).

Only model-checked:

- liveness (out of the prover's reach): `StopCompletes`, `EveryCommandEnds`,
  `EveryNodeOnboarded`, `QueueEmpties`, `EveryoneGetsATurn`, `PromotionComesBack`,
  `AnchorIsRepaired`, `ScheduleArrives`;
- `DrainCovers` of `Air`. It adds up all frames that wait, and it is not true of every value
  of the constants: a frame that goes first is taken up to `Lead` before its instant, and
  the air is idle for that long while another frame waits, which its price does not
  count. It holds while the idle times of those that overtake are shorter than the frame
  they overtake, as 15 ms (`kPrepareLeadUs`) are than the code's frames;
- `StaysReserved` and `PlacedClear` of `Air`. The table of reservations also holds the spans
  of frames dropped as superseded until their end, so that a waiting frame keeps its own
  only if few of those are alive at once; and the search for a clear mark gives up after
  `MaxSearchRounds`. Both are about how many spans fit into a stretch of air;
- `OnTheGridOnceLearned`, `NoMarkTwiceOrMissed` and `NothingWaitsBehindASkip` of `NodeGrid`: they
  compare the node's marks with the hub's, and depend on how much of the guard a rate learned
  over so short a span, rounded, may use up before the next beacon, one lost in between.

## 6. What could follow

1. By proof: `StaysReserved` and `PlacedClear` of `Air`, for a table with room for the spans
   of dropped frames, and how far a node's marks may be from the hub's.
2. The save of the frame counter (margins, a save that fails unnoticed at
   `lora_client_session.cpp:1280`): keys do not survive a restart, so no keystream
   depends on it, but a node drops frames until the next login.
3. Two live sessions and two streams in one instance of `HubSession`.
4. The weekly throttle of the TimeSync against a node's drift.

## 7. Not modelled

Cryptographic primitives and wire encodings (no state to interleave; the repository
tests them with vectors); register access of the radio; the plans, statistics and
reports of the measurement streams; diagnostics (wake clock fit, shadow report,
counters); Home Assistant entities that only issue commands or show values; the
contents of a slot's position and action; generated protobuf code; configuration
files, bench tools and the host simulation. Daylight saving appears as a shift of
the zone. What is left out of a modelled part is said in section 2 and in the notes
of `PROJECT.json`.

## 8. Running

    tlc -workers 2 -config HubSessionRun.cfg MCHubSession.tla
    tlc -workers 2 -config Delivery.cfg Delivery.tla
    tlapm HubSessionProofs.tla
    tlapm ModeBProofs.tla
    tlapm OnboardingProofs.tla
    tlapm ScheduleSyncProofs.tla
    tlapm SingleShotProofs.tla
    tlapm TrackerProofs.tla
    tlapm DeliveryProofs.tla
    tlapm WaitLine.tla

Each run's module and configuration file are in `PROJECT.json`; the module of a
configuration run by hand is the `MC` module of its machine, or the machine. A
definition whose comment begins with "Mutant" is a plausible mistake in the
definition it names: substituted for it, it breaks the property listed with it there.
