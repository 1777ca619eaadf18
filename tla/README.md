# Verification of the zonal control system over 10BASE-T1S

The repository is a vehicle zone controller: a Raspberry Pi master (Python) and
control nodes (SAM E70 firmware in C) that exchange zenoh messages over a
10BASE-T1S bus. Messages carry an end-to-end header (CRC, sequence counter) and a
SecOC trailer; faults drive a four-state safety machine on either side. This
directory holds TLA+ modules of the parts that decide what the vehicle does when
something goes wrong, TLC runs that check them on small instances, and TLAPS
proofs for every value of their constants.

Paths below are relative to the repository's root.

## 1. The system

### Components, their state and operations

| Component | Source | State | Operations | Model |
|---|---|---|---|---|
| Safety manager | `src/master/safety_manager.py` | safety state, offline nodes, CRC counts per source, timer | `notify_fault`, `notify_recovery`, `reset`, timer handler | `SafetyManager`, abstractly `SafetyFSM` |
| E2E supervisor | `src/master/e2e_supervisor.py` | per channel: status, failures, sequence checker, time of the last valid message; monitor thread | `register_channel`, `on_message_received`, `start/stop_monitoring`, `check_timeouts` | `E2ESupervisor` |
| E2E protection | `src/common/e2e_protection.py` | sender's counter, receiver's `SequenceChecker` | encode, decode, verify, `check` | `SequenceChecker` (the receiver), `SecOC` (the sender) |
| DTC manager | `src/master/dtc_manager.py` | table of trouble codes and its file | `set_dtc`, `report_passing`, `clear_dtc`, `clear_all`, `_save`, `_load` | `DTCManager` |
| Control node | `firmware/sam-e70/safety_manager.c`, `app_zenoh.c` | safety state and counters, lights, hazard flag | two message callbacks, the main loop | `ControlNode` |
| The node's message path | `firmware/sam-e70/ids_engine.c`, `secoc.c`, `e2e_protection.c` | ring of timestamps, last sequence number | `ids_check_message`, `secoc_decode_ex`, `e2e_decode`, `e2e_seq_check`, encoding | `SecureReceiver` |
| Safety and security log | `src/master/safety_log.py`, `security_log.py` | file of records, next sequence number, last hash | append, rotate, recover, verify | `SafetyLog`, `SecurityLog` on `LogFile` |
| Node manager | `src/master/node_manager.py` | known nodes and whether they are alive | liveliness events, initial snapshot, `register_node`, `start/stop_discovery` | `NodeManager` |
| Watchdog | `src/master/watchdog.py` | time of the last kick, running flag, stop event, thread | `kick`, `start`, `stop`, `_monitor_loop` | `Watchdog` |
| SecOC | `src/master/secoc.py`, `src/common/payloads.py` | sender's freshness counter, receiver's last freshness value | `FreshnessCounter.next`, `secoc_encode/decode`, `encode_secoc`, `decode_secoc` | `SecOC` |
| Flow monitor, keys | `src/master/flow_monitor.py`, `key_manager.py` | checkpoints of a cycle; derived keys and the key file | checkpoint, verify; derive, rotate, save, load | not modelled |
| Intrusion detection, ACL | `src/master/ids_engine.py`, `acl_manager.py` | time stamps per node, statistics; rules | `check_message`, `check_access` | not modelled |
| Scenario runner | `src/master/scenario_runner.py` | latest values, running flag | steps with waits and timeouts | not modelled |
| The rest | CLI, network set-up, diagnostics, certificates, payload formats, GUI, simulation harness, slave examples, drivers | | device and file I/O, conversion, wiring | not modelled |

`PROJECT.json` lists every component with its sources and the reason where there
is no model. Vendored code (zenoh-pico, the MCC configuration, FreeRTOS, CMSIS)
is not ours; of it only task priorities and the LED macros matter.

### How they interact

* Zenoh callbacks call the E2E supervisor, which calls the safety manager and the
  DTC manager **while it holds its own lock**; the safety manager calls the log,
  the DTC manager and a state listener while it holds its lock.
* The supervisor's monitor thread and the safety manager's `threading.Timer`
  threads run beside the callbacks.
* On the node nothing is locked. The callbacks run in the zenoh-pico read task
  (priority 2), the main loop in `zenoh_task` (priority 1), with preemption: a
  callback may come between any two accesses of the loop and runs to its end.
* DTC store and logs are files that a restart reads again.
* Zenoh runs the node manager's liveliness callback in a thread of its own, while the
  thread in `start_discovery` still applies the replies of the snapshot query. Either
  gives the lock back before it calls the application.
* The watchdog's thread calls its owner without a lock, and `stop` waits for that
  thread for a limited time only. Its class comment wires it to the safety manager; in
  the repository nothing does, nor is the node manager wired to it (the CLI prints).

### What is hard

Late timer handlers and cancelled timers; a clock read before a lock is taken; a
lock taken twice; counters that two components keep of the same failures and
reset at different times; a callback made after the lock was given back; a snapshot
applied after newer events; a thread left behind by a `join` that gave up; a time of
day that is set back and counters that overflow; a test of shared state and an action on it with a
preemption in between; unsigned tick arithmetic; a file rewritten in place and a
process that stops meanwhile. `PROJECT.json` has these as hazards, each at its
line, with the property that covers it or the reason why there is none.

### What makes the components correct

* Safety manager: the state fits what is known (no `NORMAL` with a node offline,
  no less than `SAFE_STATE` in an outage), `SAFE_STATE` ends, `FAIL_SILENT` is
  left by `reset` only, the listener is never behind.
* Supervisor: status follows failures, timeouts are real, silence is reported,
  what it finds reaches the safety manager, its lock is given back.
* DTC manager: status bits agree with counters by the code's rule, the file with the
  table, codes survive a restart.
* Logs: the numbers of all records increase, finished lines stay, the hash chain verifies.
* Node manager: when all is quiet, registry and application know who is there; a
  departure is told.
* Watchdog: a hang is reported in time and once, and `stop` is final.
* SecOC: nothing is accepted twice, the order of freshness is that of sending, and the
  sequence check tells gap, repetition and lateness apart.
* Control node: lights are off in the silent states, messages cannot leave them,
  `DEGRADED` is bounded.
* Message path: the rate limit is exact, what is accepted is fresh and newer than before,
  except where wrapped counters and a restart of the node cannot be told apart.

## 2. Modules

`X.tla` is a component, `MCX.tla` extends it for TLC (with its symmetry set, if any),
`X_proofs.tla` holds its theorems (`E2ESupervisor_proofs` also those of the safety manager,
which the supervisor extends, and `Log_proofs` those of both logs). Definitions whose comment begins with *Mutant*
are wrong variants of the definition below them; each makes the property it is
listed for in `PROJECT.json` fail, which shows the property can fail.

### SafetyManager, SafetyFSM

Every public method holds one lock from beginning to end, so a call is one step;
`NotifyFault` has one disjunct per rule of `notify_fault`. What interleaves is the
timer thread. `timer` is the Timer in `_safe_state_timer`: `armed` while it waits
for its 60 s, `fired` when its handler waits for the lock, `spent` when it is done.
`cancel()` stops an armed timer only; a handler past that point becomes one of the
`stale` ones, which will still run (`StaleTimeoutHandler`). `TransitionTo` carries
what `_transition_to` does besides the assignment: listener and timer. `record` is
the last log record of a call, with the DTC that goes with it (`DtcOf`).

`SafetyFSM` is the promise: a state and the offline nodes only. Faults never make
the state better, recovery leads to `NORMAL` or nowhere, `FAIL_SILENT` comes from
`SAFE_STATE` by expiry, and the state is always adequate for the outage.
`ImplementsFSM` says that `SafetyManager` refines it, with `Outage` instantiated by
`OutageOf`; the variables have the same names.

Abstractions: the sources of faults are model values; `details` is reduced to the
ASIL, the only key that is read; times are left out except that the timer fires.

### SequenceChecker, E2ESupervisor

`SequenceChecker` has `check` as two pure operators, the verdict `CheckResult` and
the next checker `CheckNext`, with the counter modulo `SeqMod` (65536) and the
message count capped at `InitCount` (3), the only value it is compared with.

`E2ESupervisor` extends the safety manager, so that a fault it finds and the
safety manager's reaction are one step, as in the code. A callback is one step,
taken when the lock is free. The monitor thread takes one step to read the clock
(before the lock, as `check_timeouts` does), one for the lock, one for each
channel, one to end its round; it keeps the lock meanwhile, but others go on using
the safety manager. Time is the flag `late` of a channel, and `due`, the channels
that were late when the clock was read and have had no valid message since. A
message for an unregistered `data_id` sets `wedged`: the callback waits for ever
for the lock it holds.

Abstractions: a payload is whether its CRC is right; statistics are left out;
`consecutive_failures` is capped at its threshold; `stop_monitoring` is taken to
have waited for the thread (its `join` gives up after 2 s; a second thread would
add rounds, each of which holds the lock). The second DTC call of `_report_fault`
is left out.

### ControlNode

The node's callbacks are single steps (`HeadlightHandler`, `HazardHandler`): they
decode (`Decode`, with the verdict as an input), which may report a fault or an
OK, then compare the `data_id`, ask `safety_actuator_allowed`, and obey. The main
loop has a step for each access to shared memory, numbered by `pc`: `now`, the
test and the subtraction in `safety_tick`, the write of the state, each light of
the safe action, load and store of `total_faults`, the cases of
`safety_report_fault`, the blinker's test, and read and write of `LED2_Toggle`,
which inverts an output register.

Time is relative: `lag` ticks ago `now` was read, `age` ticks ago
`degraded_enter_tick` was set, both in a counter of `TickMod` values (2^32), so
`Elapsed` is the unsigned difference the code computes.

Abstractions: MAC, freshness, CRC, sequence and rate checks are the verdict; IDS
and DTC calls change nothing here; the flow monitor cannot fail in this loop;
whether the self-test or the blinker is due is left open. The first state is
`NORMAL` or, after a failed self-test, `SAFE_STATE`.

### DTCManager

A call changes the table and then saves it, with the lock held: `phase` says how
far the save is. `open(path, "w")` empties the file (`OpenFile`), which has
contents again after `json.dump` and `fsync` (`WriteFile`); an `OSError` anywhere
is logged and forgotten (`SaveFails`, ghost `dirty`; if it is the `fsync` that fails, the
new contents may be there); the process may stop at any
moment (`Restart`), after which `_load` takes an unreadable file for an empty
one. Status bits that always change together are one. `durable`, an observation
of the environment, has the codes once written and not cleared since, and is
emptied when a stop or a failed write hits the emptied file: `CodesSurvive` says
that there is no other way to lose a code.

### LogFile, SafetyLog, SecurityLog

`LogFile` is a file of JSON lines as a value: its lines, of which some cannot be
parsed (`Junk`), and whether the last one still lacks its newline. `Extended` is an
append that gets to some `Extent`: `os.write` may write less than it is given, and
the result is not looked at; what is appended behind an open line is lost with it. The
variables of both logs and the first steps of `log_event`, which are the same in both, are
here too.

Both logs hold a lock during `log_event`, and `phase` says how far it is: the number
is taken (`LogEvent`), the record written (`WriteLine`, or `WriteFails`), then synced
(`SyncLine`, or `SyncFails`). The safety log goes on to rotate: every `RotateEvery`
numbers it reads the file (`BeginRotation`) and, if it is too long, rewrites it in
place (`EndRotation`, or `RotationFails`, which leaves a prefix). `Restart` is a
power failure or a new process at any moment: of what was not synced any part may
be there (`FileAfterCrash`), and number and hash come from the last line, or start
afresh if it cannot be parsed or the file cannot be read. In the security log
a hash is the sequence of what it was made of, which is what makes SHA-256 injective
here, and its operations are named `Security...`. `errors` observes the events after which
a property promises less: a restart whose last line cannot be parsed (`torn`) or whose file
cannot be read (`read`), and in the security log a failed `fsync`. `SequenceIncreases` is
about all records of the file, whatever is torn or lost between them, and the next number.
`FinishedLinesStay` says what a rotation may leave, and `LinesAreDurable` what the
documents want it to leave.

### SecureReceiver

The way of a message to the node: a sender with the counters of `e2e_encode` and
`secoc_encode`, a network, and `decode_secure_message` in the code's order. The
rate limiter comes first and records what it lets through (`Admit`), also what is
rejected afterwards; then MAC, freshness (`ReceiveStale`), CRC (`ReceiveCorrupt`) and
sequence (`ReceiveOutOfSequence`, `ReceiveInSequence`). `ControlNode` takes the outcome as
given. A message has its true number and the true time of the reading behind its stamp, and
the ring the true times of its entries; the code sees remainders of them, and the
properties compare the two.

The clock of the node is its tick since boot modulo `TickMod`, and the node may be started
again at any time (`Reboot`): ring, checker and tick begin afresh, messages under way stay.
The sender does not have that clock. `clock` chooses between the two senders there are:
the one of `tests/test_mcu_safety_security.py` reads a tick of the node from a message of the
node (`ReadTick`) and stamps what it sends with it, then or any time later; the
master's `secoc.py` stamps milliseconds since 1970 (`TimeOfDay`), which no tick comes near.
The network keeps a message for as long as it likes, and the time goes on for more than a turn of
the tick counter: it wraps, a timestamp of the ring becomes older than half of its range, and a
message comes a turn later.

Left out: a message for another `data_id` on this channel, and the sender's freshness
counter, which `secoc_decode_ex` parses and does not look at.

### NodeManager

`token` is who is really connected; zenoh queues an event for each change (`Join`,
`Leave`) once there is a subscriber, and answers the snapshot query from the tokens of
that moment (`Answer`). A handler is two steps: the registry under the lock
(`OnLivelinessEvent`, `ApplyReply`), then the call of the application (`CallBack`),
between which the other thread may run. `_handle_node_offline` looks the node up a
second time after the lock, hence the test in `CallBack`. Events of one node come in
order, as zenoh delivers them. `excused` observes nodes about which the code promises
nothing: those that leave while discovery is off or its query is running (a reply
older than the `DELETE` may be applied after it), and those that `register_node`
replaces while they are online. A later event of the node ends the excuse.

### Watchdog

Time is counted in ticks, of which `Second` make a second; `CheckInterval` is a quarter
of the timeout, or a second if that is less. A thread that is due runs before the next
tick. The expiry callback takes up to `MaxBusy` ticks and makes its report at any
moment of them (`Report`); kicks, `Stop` and a `Start` after it come in between. `stop` is
two steps, up to the `join` and its return (`EndStop`); a `join` that gives up sets
`gaveUp`, and the thread it leaves behind goes on if `start` clears the stop event first.
Left out: the notices to systemd, and a callback that calls `stop` itself.

### SecOC

Sender, network and receiver of one secured channel of the master. Messages once sent
stay in the network, so that loss, repetition, delay and reordering are all choices of
`DecodeSecoc`. Both ends read one time of day, which may be set back (`ClockSetBack`).
`Init` chooses how the functions are used: the sender keeps its `FreshnessCounter`
(`keeps`) or makes one for each message, as `encode_secoc` does; the receiver passes the
last freshness (`tracks`) or not, as `decode_secoc` does. `last` is the message accepted
last, and doubles as its true number, with which the properties compare the verdicts of
`SequenceChecker`. The MAC is an outcome: a message that fails it changes nothing. `epoch`,
an observation, counts how often the freshness values start again.

## 3. Runs

| Run | Instance | Shows |
|---|---|---|
| `manager` | 3 sources, 4 nodes, CRC counts to 4, 2 stale handlers; 117,029 states | `TypeOK`, `NormalHasNoOfflineNode`, `OutageIsSafe`, `TimerInStep`, `ListenerInStep`, `FailSilentUntilReset`, `ImplementsFSM`, and `SafeStateEnds` under fairness |
| `supervisor` | 1 channel, counter modulo 4, gap 2, others report node and watchdog faults; 305,904 states | `SupervisorTypeOK`, `StatusMatchesFailures`, `TimeoutIsReal`, `FailureDegrades`, and `SilenceIsReported` and `LockIsReleased` under fairness |
| `node` | recovery after 3, timeout 3, counter of 8 values, loop period 2; 111,054 states | `TypeOK`, `HeadlightIsDark`, `DegradedIsBounded`, `MessagesNeverRevive` |
| `node_safe_dark` | the same | violation of `SafeStateIsDark` |
| `dtc` | 3 codes, room for 2, aging after 3; 31,129 states | `TypeOK`, `StatusIsConsistent`, `SavedIsCurrent`, `CodesSurvive` |
| `receiver` | counter modulo 3, ticks modulo 4, windows of 1, limit 2 in a ring of 3, time from 3 to 7, 2 messages under way; 786,021 states | `TypeOK`, `RateIsExact`, `AcceptedIsFresh`, `AcceptedMovesForward` |
| `safety_log` | numbers to 5, 5 lines, rotation every 2 to the newest 2; 265,205 states | `SequenceIncreases`, `FinishedLinesStay` |
| `safety_log_kept` | the same | violation of `LinesAreDurable` |
| `security_log` | numbers to 4, 4 lines; 137,680 states | `SecuritySequenceIncreases`, `ChainVerifies`, `SecurityLinesStay` |
| `nodes` | 2 nodes, 3 events waiting; 65,897 states | `TypeOK`, `RegistryIsRight`, and `DepartureIsTold` under fairness |
| `watchdog` | timeout of 4 ticks (and as many seconds), callbacks of up to 6, 2 threads; 37,858 states | `HangIsReported`, `NoRepeatedReport`, `StopIsFinal` |
| `secoc` | sequence modulo 4, counter modulo 2, window 1, time to 3, 5 messages; 260,715 states | `FreshIsNewer`, `AcceptedOnce`, `SequenceTellsGap` |

**Why the bounds are enough.** `manager`: two of four nodes are an outage, the
third source makes it possible to have a node offline, another back and CRC
failures of a third; 4 is one more than the CRC threshold; two stale handlers and
one in time can wait for the lock together. `supervisor`: a channel's variables are its own,
and what several channels share, the lock, the reading of the clock and the manager, is disturbed
by the other callers too; the safety properties are proved for every set of channels (section
4), and only the two liveness properties rest on one. Modulo 4 with a gap of 2 gives OK, loss,
repetition and error. Its CRC counts go to the threshold, and with two nodes a single offline report
is an outage, so that all four states occur. `node`: faults are counted to 4 as in
the code, the rest is scaled: recovery takes more than one message, the timeout
is longer than a period of the loop, and the counter wraps soon after it, as near
as `TimeAssumption` lets it. `dtc`: one code more than there is room for, and an
aging period longer than one passing cycle. The logs: room for two rotations of
a file with torn lines, and for a record on either side of a failure and a restart.
`receiver`: three messages wrap the sequence counter, and three values are the fewest that
`FreshAssumption` allows; the ring is full after three messages; the channel starts with the
last tick before the counter wraps and ends a whole turn later, so that a message of the first
tick meets the same tick again, and a timestamp of the first tick is older than half of the
range by more than the window; with the node started again in any of these ticks. `nodes`: two nodes, so that the two threads can
be busy with different ones, and three events, so that a node can leave and come back while
a reply about it waits. `watchdog`: a callback may outlast the timeout and the five ticks
that `stop` waits, and two threads are one that was left behind and one new. `secoc`: five
messages wrap the sequence counter and, twice, the counter of a millisecond; with three
values of time a message can leave the window on either side, and the clock can be set back
by one and by two.

**Bounds in guards.** `MaxCrcCount` stops CRC reports of a source whose count is
beyond every comparison; `MaxStale` stops a timer from firing while that many
handlers wait; `MaxLag` says that the loop comes round within that many ticks
(it sleeps `STEERING_INTERVAL_MS` in each cycle); `MaxSeq` and `MaxLines` end a log; `LastTick` ends
a channel's time and `MaxNet` the messages under way; the sender sends one message in a tick;
`MaxEvents` bounds the queue of a node's events; `MaxBusy` the time a watchdog callback
takes, and `Horizon` is where its ages are no longer counted; `MaxTime` and `MaxSent` end the
time and the messages of a secured channel. Counters compared with one
threshold only are capped there and not in a guard: failures of a channel,
faults of the node, occurrences and passing cycles of a code.

**Fairness.** `manager` assumes weak fairness of the timer threads: a
`threading.Timer` runs when its time is up, and the lock it waits for is given back by
every call. `supervisor` assumes weak fairness of the
monitor thread, which loops every 0.5 s while monitoring is on. `nodes` assumes that the
zenoh thread finishes its callback (weak fairness), and strong fairness of each
node's events: the thread takes events in the order they come, so that one node's cannot
be passed over for ever though they are not enabled while another's are handled. No
fairness is assumed of messages, faults, recoveries, nodes, replies or calls.
`SilenceIsReported` and `LockIsReleased` except a supervisor that has `wedged` itself.

Deadlock is checked in every run, and no configuration turns it off.
The logs, `Watchdog` and `SecOC` also define a `TypeOK`, the base of their proofs; no
run lists it, but it holds on the same instances when it is added to the configuration.

### Disagreements shown by a run

Two runs end in a violation of what the repository says:

* `node_safe_dark`: the blinker's toggle after a callback's safe action lights the
  hazard light in `SAFE_STATE`, where `safety_manager.h:67` says that the safe action turns
  off all actuators.
* `safety_log_kept`: the rotation empties the safety log and then writes the newest lines
  again (`safety_log.py:115`); stopped or failing in between it loses lines that were written and
  synced, where `safety_log.py:27-30` and `docs/functional_safety.md:485-488` say that none is
  deleted, all are durable and the last 10,000 are retained.

Four passing runs show that the code does something else than a document says; the property
states what it does:

* `node`, `HeadlightIsDark`: the safe action switches the headlight off (`safety_manager.c:129`,
  as its header says), where `docs/functional_safety.md:290` and the tests of the master's
  `SAFE_ACTIONS` (`tests/test_safety_foundation.py:172`, `tests/test_safety_manager.py:51`) want
  it on.
* `dtc`, `StatusIsConsistent`: any second occurrence confirms a code, and after ageing the
  first fault does (`dtc_manager.py:132`), where `docs/functional_safety.md:463` says two
  consecutive cycles.
* `safety_log`, `SequenceIncreases`: after a restart that cannot parse the last line the numbers
  start from 1 again, behind higher ones (`safety_log.py:58`), where `:28` and
  `docs/functional_safety.md:486` say monotonically increasing. The property holds until then.
* `receiver`, `AcceptedIsFresh`: a message of the master, stamped with the time of day
  (`secoc.py:71`, `docs/cybersecurity.md:241`), is never accepted by the node, which compares the
  stamp with its tick (`secoc.c:272`) and calls itself compatible with the master (`:5`,
  `secoc.h:12`).

### Exceptions that a passing property names

The code does less here than its comments say; the property holds with the exception
that it states, and would fail without it.

* A timer handler that waits for the lock while its timer is cancelled ends the *next*
  `SAFE_STATE` before its 60 s (`safety_manager.py:276`, against `:40`): the handlers that
  `stale` counts in `TimerInStep`.
* A message of an unregistered channel makes `on_message_received` take its lock twice
  (`e2e_supervisor.py:118`): `wedged` in `LockIsReleased` and `SilenceIsReported`.
* A stop or a failed write between truncating and writing the DTC file loses all codes
  (`dtc_manager.py:233`, where `docs/functional_safety.md:473` says that they are kept):
  `StillDurable` in `CodesSurvive`.
* `count_in_window` takes a timestamp older than half of the tick counter's range (24.8 days) for
  a recent one (`ids_engine.c:34`): `HasRelic` in `RateIsExact`.
* A message whose tick was read before the node was last started, or about a turn of the counter
  (49.7 days) ago, is accepted when the tick fits (`secoc.c:272`): the last two cases of
  `AcceptedIsFresh`. In them, and after a counted sequence fault, which sets `last_seq` back
  (`e2e_protection.c:150`), `AcceptedMovesForward` says nothing of older messages.
* A torn last line or an unreadable file starts numbers and hash chain of the security log
  afresh (`security_log.py:62`): `errors` in `SecuritySequenceIncreases`, and the neighbours of
  torn lines in `ChainVerifies`; a failed `fsync` breaks the chain for `verify_chain` though
  nobody tampered with it (`:113`).
* Numbers of records that were lost, by a failed write or with the end of the file, are given out
  again after a restart: `SequenceIncreases` is about the records in the file.
* A reply of the snapshot query that is applied after the node's `DELETE` makes a node that
  is gone online, for good (`node_manager.py:200`, against "DELETE event -> node offline"
  at `:8`), and `register_node` makes a node offline that is connected (`:85`): `excused` in
  `RegistryIsRight`.
* `Watchdog.stop` gives up after its timeout and a second; a `start` after that clears the
  stop event, and two threads watch (`watchdog.py:124`): `gaveUp` in `StopIsFinal` and
  `NoRepeatedReport`. A hang that begins while the callback runs is counted from its return,
  because `_last_kick` is set again there without a look at it (`:149`): the second
  callback in the bound of `HangIsReported`.
* `encode_secoc` makes a new `FreshnessCounter` for each message, so that two of one
  millisecond have one freshness value and a receiver that tracks drops the second
  (`payloads.py:172`): the epoch in `FreshIsNewer`. `decode_secoc` passes no last freshness, so
  that a repeated message in its window is valid (`:196`) and only the sequence check tells:
  `tracks` in `AcceptedOnce`.

### Disagreements seen on reading, without a run

* An ASIL-D timeout in `NORMAL` asks for `SAFE_STATE`, which is not a valid transition
  from there: it is ignored and the state stays `NORMAL` (`safety_manager.py:198`), where
  `docs/functional_safety.md:172` asks for `SAFE_STATE` at once.
* SAFE_STATE is left for `NORMAL` with CRC counts still above the threshold
  (`safety_manager.py:133`; its docstring says full recovery).
* `reset` writes no log record, unlike every other change of state (`:173`).
* CRC counts of the safety manager are never reset by good messages (`:191`);
  `docs/functional_safety.md:274` says three in a row.
* A channel is `VALID` after one message, not after the three of `_init_count`.
* With one DTC manager wired to both reporters a single E2E fault is set twice, which confirms
  it (`e2e_supervisor.py:246`).
* On the node: `total_faults` counts since boot (`safety_manager.c:84`), where the
  comment says three additional faults; a message for another `data_id` counts as OK
  before it counts as a fault (`app_zenoh.c:147`); `safety_tick` can overwrite
  `FAIL_SILENT` by `SAFE_STATE` (`safety_manager.c:116`); a `DEGRADED` entered after
  `now` was read ends at once, because the difference wraps (`:114`); a hazard "off"
  just before the toggle leaves the light on (`app_zenoh.c:420`).
* A watchdog expiry or a flow error in `NORMAL` is ignored by the safety manager, since
  `SAFE_STATE` is not reachable from there in one transition (`tests/test_sim_safety.py`
  goes through `DEGRADED` first).
* `verify_cycle` of the flow monitor does not empty its list when its error callback
  raises; the master key's file is emptied before it is written (`key_manager.py:112`).
* `config/initialization.c` disables the watchdog timer first; `WDT_MR` can be written
  once, so `watchdog_init` has no effect.

## 4. Proofs

All are checked by TLAPS with SMT, Zenon and LS4. They hold for every value of the
constants that satisfies the named assumptions of the component's module, which
TLC evaluates for the instances above.

* `E2ESupervisor_proofs`, the safety manager (assumptions: finitely many sources, at least one node, natural
  bounds). `OutageIsSafe` is not inductive alone: a node fault in `NORMAL` must reach
  `SAFE_STATE` in two legal transitions, and a recovery may leave `SAFE_STATE` only when
  nobody is offline, which needs `NormalHasNoOfflineNode` and the code's percentage form
  of the outage (`OutageHandled`); that the cancellation of a timer respects the bound on
  stale handlers needs the third part of `TimerInStep`. The inductive invariant is the
  conjunction of these with the types and `ListenerInStep`. From it: `TypeCorrect`,
  `NormalIsHealthy`, `OutageSafety`, `TimerSafety`, `ListenerSafety`, the action property
  `FailSilentSticky`, and `Refinement`, where each action is mapped to `Fault`,
  `Recovery`, `Expiry`, `Restart` or a stutter. Cardinality enters by two lemmas:
  nobody offline is no outage, and more nodes offline do not end one.
* `E2ESupervisor_proofs`, the supervisor (assumptions: every channel is a source; a natural
  `max_gap`). `ManagerIsUndisturbed` shows that every step of the supervisor, its monitor
  thread and the other callers is a step of the safety manager or leaves it alone:
  `SupervisorSpec => Spec`, so all of the above holds beside the supervisor. Its own
  invariant says how status, failures and checker of a channel belong together, and that
  `due`, the list the monitor made from a clock it read before it had the lock, holds no
  channel heard since; without that `TimeoutIsReal` is not provable. From it
  `SupervisorTypeCorrect`, `StatusSafety` and the action properties `TimeoutSafety` and
  `FailureSafety`.
* `ControlNode_proofs` (assumptions: positive recovery count and timeout, a tick
  counter that does not wrap within the timeout and two periods of the loop).
  `DegradedIsBounded` is not inductive: it needs `DegradedIsSeen`, which says for each
  place of the loop how old a `DEGRADED` it has already passed by can be. With types
  and `HeadlightIsDark` that is the inductive invariant. `MessageSafety` is an action
  property and needs the types only.
* `DTCManager_proofs` (assumptions: finitely many codes, a natural limit, at least one
  aging cycle). The invariant says of *both* tables, in memory and in the file, that they
  are good (typed, within the limit, consistent entries), since a restart makes the one
  of the other; and `SavedIsCurrent`. `SurvivalSafety` needs only these and that an
  operation keeps the codes a table has, up to the one it clears. Lemmas say what `set_dtc`, `report_passing` and
  `clear_dtc` make of one entry and of one table.

* `SecOC_proofs` (assumptions: positive counter widths, a window, a `max_gap` of at least one and
  below the width of the sequence counter). The invariant ties what the code sees to what is
  true: a message carries the remainder of its number, the checker is at the message accepted
  last, nothing accepted is newer than that, a kept counter has counted the messages of its
  millisecond (`CountIsTrue`, with the cardinality of the run of messages that share it), and
  within an epoch freshness grows. From it `AcceptedOnce`, `FreshIsNewer` and `SequenceTellsGap`
  follow, for every width: lemmas on remainders (their uniqueness, difference and successor)
  do the arithmetic modulo a symbolic width that the solver does not do by itself.

* `NodeManager_proofs` (assumption: a queue has room for an event). `RegistryIsRight` speaks of
  quiet nodes only, so the invariant says what is true before it is quiet: the last
  waiting event of a node tells whether its token is there (`EventsAreTrue`), a reply of the
  snapshot was sent for a token that still is (`ReplyIsTrue`), the registry is right once no
  event waits (`RegistryIsSettled`), and what a thread is about to tell, or has told, is
  what the registry says (`CallsAreTrue`, `ToldIsTrue`).
* `Watchdog_proofs` (assumptions: a timeout of at least four ticks, a bound on the time of a
  callback). `HangIsReported` bounds one number; the invariant bounds it for each place of
  each thread: one that waits has its next look at the clock in time, one that has found
  the expiry reports in time (`InTime`), and `_last_kick`, which a callback sets afresh, is
  never ahead of the last sign of life by more than a callback (`ClockIsHonest`).
  `NoRepeatedReport` needs `Spaced`: the clock a thread waits on was set after the report.
* `SecureReceiver_proofs` (assumptions: natural bounds; fresh messages have different counters;
  a rate window below half of the tick counter's range). Nothing is assumed of how long the node
  runs, how long a message is under way or when the node is started again; `LastTick` is any
  number. The invariant gives the true values behind what the code keeps modulo a width: a stamp
  is the node's tick of its reading unless the node was started since (`StampInv`), a message is
  not further behind the sender in number than its reading is in time (`NetInv`), `last_seq` is
  the counter of a message sent (`SeqInv`), and the newest entries of the ring are the admitted
  messages of the window in order, all before them being older than the window (`RingInv`). The
  signed difference counts exactly the former as long as none of the latter is a relic. From it
  `RateSafety`, `FreshnessSafety` and the action property `SequenceSafety`.
* `Log_proofs` (assumptions: positive `MAX_EVENTS` and rotation period, natural bounds). The
  module extends both logs, so that one set of lemmas on files of lines (what an append of
  any extent, a rotation and a beginning cut off by a power failure leave, line by line)
  serves both. To `SequenceIncreases`, which orders all records and not neighbours only, so that
  it survives a cut at any place, the safety log's invariant adds that an open line is a
  line, that a number was taken before a write and that a rewrite has something to
  remove; the security log's adds that the hash in memory
  is that of a readable last line and the genesis hash for an empty file (`ChainInv`), from
  which `ChainVerifies` goes on after a restart. From them `SequenceSafety` and `LinesSafety`,
  `SecuritySequenceSafety`, `ChainSafety` and `SecurityLinesSafety`. The theorems keep the
  exceptions of the properties: a restart that cannot read or parse the last line, a failed
  `fsync`; what a rotation loses is in the statement of `LinesSafety`.

The inductive invariants of the supervisor, the node manager, the watchdog, the receiver and
the logs were also checked by TLC on the instance of the component's run.

Only model-checked: liveness (`SafeStateEnds`, `SilenceIsReported`, `LockIsReleased`,
`DepartureIsTold`), which the prover does not handle, and the two violations. Every invariant and
every action property of the passing runs is a theorem.

## 5. Plan

The components whose state is worth checking have their modules, and their safety
properties have proofs. What is left:

1. Abstract specifications of the logs (a sequence of records to which one is added or from
   which the oldest are dropped) and of the receiver, with the refinement proved from the
   invariants there are.
2. Shorter proofs: lemmas on remainders are stated in both `SecOC_proofs` and
   `SecureReceiver_proofs` and could be shared.

## 6. Not modelled

Of the repository's lines nearly all are vendored or generated firmware code (zenoh-pico,
lwIP, FreeRTOS, CMSIS, the MCC configuration and device packs): it is the environment of
the modules. The repository's own code is some 5,400 lines of Python and 2,700 lines
of C, of which these parts have no module:

* Cryptography (HMAC, HKDF, CRC arithmetic) is an outcome, not an algorithm; the key
  manager is a cache of derived keys that one thread uses.
* The intrusion detection of the master raises alerts on which nothing acts; they go to
  the security log, which is modelled. Its means and deviations are real arithmetic. The
  rate limiter of the node, which does drop messages, is in `SecureReceiver`.
* The ACL is a list of rules without state. The flow monitors compare one list
  with another, in one thread. The node's DTC ring is written and only its count is read.
* The scenario runner is a demonstration: one coroutine that goes through a YAML file.
* Device, network and file I/O of `diagnostics.py`, `network_setup.py`,
  `cert_provisioner.py`, the thumbstick driver and the network bring-up have no decisions
  to check. The GUI has its own copy of the state machine for demonstration. The
  self-tests are lists of independent checks. Data classes, key expressions and payload
  formats are conversions that no property here depends on.
