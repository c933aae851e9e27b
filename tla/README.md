# A verification of ironharness

ironharness gives language-model agents access to hardware. `io_core` holds the
transports (serial, Modbus, MQTT), the session that guards them, the journal
that records every operation and the sandbox; an MCP server exposes them as
tools. `ironbench` runs benchmark tasks on top of it: simulated firmware (unix,
Renode, Wokwi, a plant simulation), live boards, and "ops" tasks in which an
agent works on a board and a judge looks at the result.

This directory holds TLA+ modules of the parts whose correctness depends on
interleaving, failure and order, the TLC configurations that check them on small
instances, and proofs, checked by TLAPS, that the properties hold for every value
of the constants. Paths below are relative to `src/src/`.

## 1. Inventory

| Part | State | Operations | Talks to | Hard because | Correct when |
|---|---|---|---|---|---|
| Session (`io_core/session.py`) | `_transports`, `_kinds`, `_serial_base`, `_readers`, `_transfers`, `_monitors`, `_closed`, one lock | open / write / read / reset / put / get / monitor / reader start and stop / close one / close all | transports, readers, journal, sandbox | several agent threads; checks under the lock, I/O outside it; a join under the lock | the dictionaries agree, the ceiling holds, the read side of a port has one owner, no port is lost, nobody waits for ever |
| SerialReader (`io_core/serial_reader.py`) | deque of chunks, byte and drop counters, offset, `_stop`, `_error`, `io_lock` | the thread's loop, `tail`, `read_until`, `stop` | serial transport, session | bounded buffer that evicts while consumers take from it; a thread that may outlive its join | every byte is delivered once or counted, in order, and consumers of a dead reader come back |
| SerialTransport (`io_core/serial_transport.py`) | the pyserial handle | open, close, read, write, reset, cancel_read | the OS | close may fail; the cable may go | used by Session |
| Journal (`io_core/journal.py`) | live file, archived parts, `seq`, sidecar lock | append, rotate, read the chain | file system, other processes | several processes; a crash between two renames; a write cut short | readers get the newest events in order or an error, never a silent hole |
| MqttTransport (`io_core/mqtt_transport.py`) | inbox, SUBACK table, connected flag | open, subscribe, publish, read, close, four callbacks | paho's network thread | callbacks against callers; timeouts against late answers | a subscribe succeeds only on its own SUBACK; the inbox keeps the newest messages in order |
| MqttSimBroker (`io_core/mqtt_sim.py`) | clients, subscriptions, retained | serve, broadcast, stop | sockets | one thread per client; broadcast outside the lock | subscribers end up with the retained value; stop leaves no client |
| Limits (`io_core/limits.py`) | window and count; time of the last success | acquire, forwarded calls | any transport | parallel calls at a window's edge | at most `max_calls` in a window; an idle transport is refused |
| FileSandbox (`io_core/file_sandbox.py`) | files | write, read, list, delete | file system | quota checks under parallel writers | quota and root never passed |
| MpRepl (`io_core/mprepl.py`) | stream buffer, board mode | enter, exec, put, get | board over serial | boards reboot, answer late, fail in the middle | a file is transferred whole or the call fails; the board is left in the normal mode |
| MCP server (`io_core/mcp_server.py`) | the session singleton | get, reset, tools | Session | parallel tool calls | one live session |
| Policy, Replay, Faults, ESP flasher, Modbus | small | | | sequential | refusals are typed and recorded; a replay is complete |
| Solve campaign (`ironbench/agent.py`, `cli.py`, `report.py`) | messages, iteration, last verdict; results file, journal, attempt directories | ask, run, feed back; tombstone, replace; load and aggregate | LLM endpoint, runner, report | many ways to end; killed between two writes of one file | the classification says why the attempt ended; nothing stale is counted |
| Ops campaign (`ironbench/ops_*.py`, `mcp_wire.py`, `cli.py`) | the board, the server process and its running call, claim, verdict, rows | assets, preflight, setup, arm, judge, restore, row | MCP server, board, LLM | one step of many fails; a server or a script goes on alone | the agent starts on a seeded board, the board is restored, a failure of the bench is not blamed on the agent |
| Plant runner (`ironbench/runner_plant.py`, `_StdinWriter` in `runner_common.py`) | stdin queue and flags, answer queue and drop counter, verdict | write setpoints, take answers, tear down, judge | the controller, a foreign process | three threads; the controller reads, prints and dies as it likes; wall deadline | the plant is fed the answers in order or the run fails; no run hangs |
| Unix runner (`ironbench/runner_unix.py`) | output box with stamps, stimulus, waits | drive the firmware, wait for answers, score | child process, broker, stdin pump | reader, pump and main thread; wall deadline | an unprompted answer is not credited, an honest one not convicted |
| REPL runners (`ironbench/realhw.py`, `runner_real.py`, `runner_renode.py`) | text with stamps, backup, position in the stimulus | interrupt, backup, wipe, paste, trim the echo, play, judge | a board on a serial line, Renode on a socket | output that is late, partial, lost or an echo | no user file is removed without a backup; a pass is the entry's own output |
| Task loader, other reports, plant physics, Wokwi | files | aggregation | | sequential | not modelled |

How they interact: a tool call of the MCP server (any of several worker threads)
enters a `Session` method. The method takes the session lock, checks the registry,
and releases the lock before it touches the transport. A serial connection may
have a `SerialReader` whose thread drains the raw port under its own `io_lock`;
writes take that lock when they saw a reader. Every operation is written to the
`JsonlJournal`, which other processes (a second server, the ops harness) may be
appending to as well.

The solve and ops front ends run one attempt after the other in one process. Both write
files that a report, or the next campaign, may read at any moment, and both may be killed.
The runners talk to firmware they do not trust: it may print answers nobody has asked
for, and it may be perfectly honest and slow.

## 2. Modules

| Module | Models | Used by |
|---|---|---|
| `Session` | `session.py`, with the reader threads and the ports as the session sees them | `MCSession`, `SessionProofs` |
| `ReaderBuffer` | the buffer of `serial_reader.py` | run, `DropOldestProofs` |
| `ByteFeed` | the abstract specification of that buffer | refinement of `ReaderBuffer` |
| `Journal` | `journal.py` | run, `DropOldestProofs` |
| `Mqtt` | `mqtt_transport.py` with `mqtt_sim.py` | `MCMqtt`, `MqttProofs` |
| `Tools` | the session singleton of `mcp_server.py`, `limits.py`, `file_sandbox.py` | run, `ToolsProofs` |
| `StdinPump` | `_StdinWriter` of `runner_common.py`, with the pipe | `PlantRun`, `PlantRunProofs` |
| `PlantRun` | `_run_plant` and `_pump_lines` of `runner_plant.py`, on top of `StdinPump` | runs, `PlantRunProofs` |
| `UnixRun` | `_run_unix` of `runner_unix.py` with its reader thread | `MCUnixRun`, `UnixRunProofs` |
| `ReplBoard` | the board, its main.py and the link behind the REPL runners | `ReplRun` |
| `ReplRun` | `realhw.py` and `runner_real.py`; `runner_renode.py` | `MCReplRun`, `ScoringProofs` |
| `Solve` | `agent.py`, the solve campaign of `cli.py`, what `report.py` reads | run, `ScoringProofs` |
| `Ops` | `ops_run.py`, `ops_arms.py`, `ops_judge.py`, `mcp_wire.py`, the ops campaign of `cli.py` | `MCOps`, `OpsProofs` |
| `MC*` | symmetry sets, task files, stimuli and filters for TLC | runs |
| `*Proofs` | theorems, of the module of that name or of two modules: `DropOldestProofs` of `ReaderBuffer` and `Journal`, `PlantRunProofs` of `StdinPump` and `PlantRun`, `ScoringProofs` of `Solve` and `ReplRun` | |

### Session

A method that decides under `_lock` and works after it becomes two actions or
more. `Begin` is the call and its unlocked `_check_open`; the *gate* (`Open`,
`WriteGate`, `ReadGate`, `TransferGate`, `MonitorGate`, `StartReader`,
`StopReader`, `CloseGate`, `CloseSnapshot`) is the whole locked block; what comes
after works on the transport `tr` and the reader `rd` the gate captured, and any
other thread may run in between. Only a join keeps the lock beyond one action: that is
`slock`. A gate that refuses is `Refuse`; refusals change no registry.

| Code | Model |
|---|---|
| `_transports`, `_kinds`, `_serial_base`, `_readers` | functions from names, `NIL` for an absent key |
| `_transfers`, `_monitors` | sets of names |
| the pyserial handle | `port`: `new`, `open`, `lost` (cable pulled), `stuck` (close raised), `closed` |
| bytes waiting at the device | `rx`, a number of chunks |
| the reader thread: loop head, waiting for `io_lock`, inside `read()` | `rpc` = `poll`, `want`, `reading`, and `new`, `dead` |
| `reader._stop`, `reader.io_lock`, the raw transport it drains | `rstop`, `io_lock`, `rbase` |
| `serial_write`, `serial_reset` | `WriteGate`, `AcquireIo`, `EndIo` |
| `serial_read`, `serial_read_line`, `modbus_*`, `mqtt_*` operations | `ReadGate`, `EndIo` |
| `serial_put`, `serial_get`, `serial_monitor` | `TransferGate` / `MonitorGate`, `EndIo`, `Leave` (the `finally`) |
| `serial_reader_stop` | `StopReader`, then `StopReturns` when the join is over |
| `_close_typed`, `close_transport` | `CloseGate` (with `_stop_reader`), `CloseDrops`, `CloseTransportEnds` |
| `close` | `BeginClose`, `CloseSnapshot`, `SweepStops`, `SweepJoined`, `SweepCloses`, `CloseReturns` |

Left out: what a call returns, argument checks, the access policy except its
connection ceiling, the esp_* and file_* methods (they touch none of this state; `Tools` has the file_* ones),
the content of a monitor's capture, and the journal: **a journal call is assumed to
succeed here**. That hides one hazard, listed in `PROJECT.json`:
`serial_reader_start` journals after it registered the reader and before it starts
the thread, so a journal that raises leaves a registered reader without a thread.

### ReaderBuffer and ByteFeed

The chunks of the deque are consecutive slices of what the device sent, so the deque
is the set of its boundary positions (`cuts`); `bytes`, `dropped` and `consumed` are
the code's counters, kept as separate variables because their agreement with the
deque is what could go wrong. What a byte *is* matters only for where the consumers'
pattern occurs: `marks` holds those positions, chosen freely as bytes arrive.
`Find`/`Miss` are the locked half of `read_until`'s loop, `GiveUp`/`Retry` the
unlocked check of error, stop and deadline that follows. `tail` and `stats` only read
and are not actions; while reading them we noticed that `tail`'s docstring
(`serial_reader.py` 218-221) counts the bytes consumed by `read_until` into
`dropped` while the code (226) counts only those of the first chunk.

`ByteFeed` knows nothing of chunks: bytes arrive, the oldest may be lost when more
than `MaxBytes` would be held, a consumer is handed everything up to the next
occurrence. `FeedSpec` is the refinement, with the read position as `next`.

### Journal

A line is its writer and its seq; a file's size is its number of lines; a torn line
is `Torn`. The locked block is cut at every file operation (`Unlink`, `Shift` once per
index, `MoveLive`, `Append_`), and a writer may `Die` between any two of them, or in
the middle of its write. `Chain` is `read_events_chain`, made by a reader holding the
lock: the files `Joined` from the oldest part on, then the `Lines` of the live file.
`Corrupt` is its `JournalCorrupt`. `log` is a history variable: the lines that
reached the file.

### StdinPump and PlantRun

`StdinPump` is one `_StdinWriter`. A step of it is a block under `_lock` or the call
that follows it outside: `Write` and `CloseWriter` are the locked blocks, `SetWake` the
`_wake.set()` after either; `PumpPops`, `PumpChecks` and `PumpLatches` are the three
locked blocks of the thread, and its write to the pipe goes through, blocks or fails.
A line is the number of the call that wrote it and has length one, so that the cap
counts lines. `CloseStdin` needs `StreamFree`: Python's buffered stream keeps its lock while
a write blocks, and its `close()` takes that lock.

`PlantRun` puts three parties around it. The main thread (`mpc`) is the closed loop,
whose control function is `ipc_control`, then the success path, the `finally` block and
the verdict. The stdout pump (`opc`) is `_pump_lines`, cut where it
looks at the queue's size, counts, and drops. The controller is foreign code, and the
model lets it do anything with its pipes at any moment: print, read, close either end,
exit with either status, or fork a process that inherits both pipes and outlives it
(`heir`; a comment of the code names this case). What a printed line says is decided when it is
parsed. Left out: the stderr pump, the metrics and the log, and a process that cannot be
started. The error of a nan or inf answer has no `error_kind` in the code
(`runner_plant.py` 286 takes `run_closed_loop`'s error and leaves `error_kind` at "none",
though `TaskResult` reserves that for "no error"): it is `err` = `"odd"` here.

| Code | Model |
|---|---|
| `_queue`, `_pending`, `_overflow`, `_broken`, `_closing`, `_wake` | the variables of these names |
| the pipe to the controller | `pipe`, `got`, and its two ends `stdin`, `readable` |
| `out_q`, `dropped["lines"]` | `outq`, `dropped` |
| the deadline | `late`, which time may set at any moment of the loop |
| `error` with `error_kind`, `exit_code` | `err`, `exit` |
| `pump_thread.join(timeout=2)` | no step: its outcome is not looked at |
| `writer.join(timeout=2)` | `JoinsPump`, at any time, with what the thread is then |

### Mqtt

One topic; a payload is the number of the call that published it. Every transport has one
caller and, while it is open, paho's network thread (external: it connects, delivers
packets to the callbacks, reconnects by itself as a clean session, and sends an
unacknowledged QoS 1 publication again). What is written to the broker's side of a
connection travels in order through `wire`; the opposite direction is delivered with the
write, as the order of packets on one socket is all that the callbacks see.

| Code | Model |
|---|---|
| `open`, its wait for CONNACK, `_teardown` | `Open`, `OpenReturns`, `OpenTimesOut`; `TeardownEnds` after the join of the network thread |
| `subscribe`: send, wait on the Condition, pop the mid | `Subscribe`, `SubscribeReturns`, `SubscribeTimesOut`, with `_suback_results` as `results` |
| `_on_message` with `deque(maxlen)` | `Kept` |
| `_on_connect`, `_on_disconnect`, `_on_subscribe` | `OnPacket`, `OnDisconnect` |
| `_Client.serve` | one serving thread per connection: `Connect`, `HandleSubscribe` to `Replay`, `HandlePublish`, `Store`, `Aim`, `Cast`, `ServeEnds` |
| `_accept_loop`, `stop` | `Accept`; `Sweep`, then `StopListening` |
| `topic_matches` | `TopicMatches`, its loop written as "the first level that decides" |

Abstractions: a transport has one caller and is opened once; devices publish and do not
look at what they get; `MaxConns` connections, `MaxOps` calls and cuts of the network.

### Tools

The unlocked and the locked look at `_session` are two actions (`Call`, `Build`), what
`get_session` returns a third (`Take`), and `reset_session` two under its lock. Only tests
and environment switches call `reset_session` in the program. A call then passes the
rate limiter (one locked step: `RateGate`), the deadline's check, the device, and the shift
of the deadline, with the clock ticking anywhere; or the sandbox, whose lock is held from
`LockFiles` to the write, which may be cut short. Time is a number up to `MaxTime`.
`passes` and `ok` are history. Left out: the policy, and tools that change no state.

### UnixRun

A stamp is modelled as the number of triggers stamped before it, which is all the
anti-cheat compares. The main thread's wait is cut between `_first_answer_stamp`, the
look at the text that follows outside the lock, and the look at the deadline and the end of
the output. `_wait_quiet` does what the code does: it counts the *ingested* chunks until the
number stays the same, and says nothing of what is printed and not ingested, so that the stamp,
a step of its own, may find lines in the pipe. The history variable `leaked` records which
answers those were. The firmware is foreign code: a `dump` prints any answer at any time, an
`honest` one prints an answer only once it has read the question; either may print other
lines, exit with either status, close its stdout and run on, leave a process behind that
holds its stdout and stdin (`heir`), or never do anything. The output ends when nobody holds
the child's stdout. Left out: event and period scoring, the noise section, overflow of the stdin
pump (`StdinPump` has it), staging. The three equal looks of `_wait_quiet` are one: more of
them exclude no order of steps.

| Code | Model |
|---|---|
| `box["text"]`, `chunks`, `dropped`, `eof` | `first` (the stamp of each needle's first occurrence), `kept`, `dropped`, `eof` |
| `last_trigger_stamp` | `stamped` |
| `_wait_quiet`; the stamp; the write | `BeginWrite`, `CountsChunks`, `IsQuiet` with `seen`; `Stamps`; `Writes` |
| a wait-serial step | `BeginWait`, `LooksForStamp`, `LooksAtText`, `LooksAtTime` |
| the rest of the output, the wait for the child or its kill | `Drained`, `Reap`; `error` is `"raised"` when the `TimeoutExpired` of 564 leaves `_run_unix` |
| the join of the reader, with or without success; `serial_text` | `Joins`, `log` |
| the two rules of the anti-cheat and the exit code | `Verdict`, with `Convicted` and `NoneCredited` |
| the `finally` blocks: the kill, then the close of the child's stdout | `TearsDown`, `Closes` |

### ReplBoard and ReplRun

`ReplBoard` is the far side: a board that runs the user's old main.py, waits at the prompt,
takes a paste, or runs the entry; and a link that delivers late and may lose `MaxLost`
tokens of output (a line, or one hex digit of the backup) or bytes of a pasted line.
`ReplRun` is the single-threaded runner, in two versions chosen by `target`: on a live
board it interrupts, saves main.py as hex, wipes, pastes, plays the stimulus with stamps
and judges by stamps; in Renode it connects, pastes, trims the echo and judges by
position. Every action that ingests takes all that has arrived and stamps it with the
triggers sent so far.

| Code | Model |
|---|---|
| `RealRepl._text`, `_chunks` | `text`, tokens with a stamp `at` |
| the driver's buffer | `driver`; what is still on its way is `line` |
| the probe's answer, `bytes.fromhex` | `FromHex`: an odd number of digits, or none, is refused |
| `_truncate_after_staging_echo`, `_truncate_paste_echo` | `TailLost` and the cuts around it |
| `repl.output()` before the stamp | `Drains` |
| the two looks of a wait | `LooksForStamp`, `Weighs` |

Abstractions: pasted lines are paced, so that only the echo of what was written last may
be under way; a board obeys Ctrl+C, Ctrl+E and Ctrl+D at once; the entry has a first and a
last line, which is what the trims look at; one noise line, one loss. Left out: the
retention cap, the telnet filter, `set-control`, and a connection that is lost.

### Solve

One campaign is `Begin` (old directories go), the tombstone with its retried rename,
attempts of iterations (`ReplyWithCode` and a run, `ReplyWithoutCode`, `LlmFails`), then
`Journals` and `Replaces`. `Kill` and `Aborts` (an exception nothing handles) may end it
anywhere; then another campaign may begin, with more or fewer attempts. The report is
the operator `Effective` over the file as it is at any moment. A directory that cannot be
removed is left out (`rmtree` ignores errors).

### Ops

The board is what the properties ask of it: has it firmware, and is each of two files
absent, right or wrong; `raw` says whether it was left in raw mode. A step of setup or
restore works (`Applied`), or fails and may leave its target half done (`HalfDone`). The
agent may do to the board whatever the steps can, through scripts (bare arm) or through
a server process (mcp arm). A script may leave a stray process on the board whether it is timed
out or ends by itself. A line of the server that is JSON and no object raises what no handler
expects: the attempt then ends in the crash path (`fate` = `"crash"`), without a restore. The server and its running call are a process of their own: a
call that has timed out goes on, a killed driver leaves it behind. `MaxFaults` bounds the
failures of line, wire, endpoint and disk. A tool call beyond the one that carried the
claim is still executed, as in the code.

| Code | Model |
|---|---|
| `_start_rows_campaign`, `_append_row`, the exit code | `StartCampaign`, `WriteRow`, `rc` |
| `run_ops_attempt` | `ResolveAssets`, `Preflight`, `SetupStep` / `SetupFails`, the arm, `AfterArm`, `Check`, `RestoreStep` / `RestoreFails` |
| `BareArm.run` | `WritesScript`, `ScriptEnds`, `ScriptTimesOut`, `Claims` |
| `McpArm.run` | `Spawn`, `CallsTools`, `NextCall`, `Answer`, `NoMoreCalls` |
| `McpWireClient.request`, `.close` | `WireBreaks`; `ClosesStdin`, `Closed` |
| `OpsJudge.run` | `Check` per check, all of them run whatever the first says |

## 3. Runs

| Run | Question | Bounds |
|---|---|---|
| `Session_safety` | with two threads, can any order of calls break the registry, the single owner, or lose a port? | 2 agents, 2 names, ceiling 1, 2 transports, 2 readers, serial and mqtt, 1 chunk |
| `Session_liveness` | does close() return, does a dropped reader end? | 2 agents, 1 serial connection with 1 reader, opened once |
| `ReaderBuffer` | is every byte delivered once or counted, is the deque a ByteFeed, do consumers come back? | buffer of 3, chunks of up to 2, pattern of 2, 5 bytes, 2 consumers |
| `Journal` | does any crash or short write give a reader a hole, a repeat or a wrong order? | 2 writers, 3 archived parts of one line or two, 5 events, 1 fault |
| `PlantRun` | do setpoints arrive in order, can a flood shift the answers unnoticed, does the loop end at its deadline, does the teardown return? | 2 steps; a pipe, a backlog and an answer queue of one line each; 3 lines printed |
| `PlantRun_hang` | does every run return? (no) | the same, 2 lines printed |
| `Mqtt` | can a live subscriber miss the retained value, can a subscribe return without its subscription, is the inbox the newest messages? | 1 transport, 1 device, 2 connections, an inbox of 1, 3 calls and cuts, one filter that matches and one that does not |
| `Tools` | one live session, the quota, denials that are due? | 2 callers, 2 files, quotas of 2 bytes and 2 files, 1 call per window of 2, idle time 1, clock to 3, 3 calls, 2 sessions |
| `UnixRun` | is a pass earned, is an honest firmware never convicted by its stamps, what can keep a run from its end? | a stimulus of two questions and answers with a delay and an mqtt-collect, 1 line of noise, 3 lines retained |
| `ReplRun` | is the user's file kept, is a pass the entry's own, are answers judged by when they came? | two questions and answers, a main.py of one byte (or none), an entry whose source shows both answers, 1 loss, 1 noise line, both targets |
| `Solve` | does a report ever count stale rows, tries the model was not given, rows without a journal entry? | 2 campaigns of up to 2 attempts of 3 iterations, 2 tries of the endpoint and of a rename |
| `Ops` | seeded start, honest restore, true verdicts, rows that are the campaign's own, an end to every attempt? | 2 campaigns of 2 attempts of 1 iteration, 2 of the bench's tasks, both arms, 2 faults |

The bounds are the least at which the interesting cases happen. In Session one name
can be closed and opened again under a call that captured the old transport (two
transports), one reader can be a zombie of a timed-out join while the next is started
(two readers), and the second name is refused at the ceiling, or holds the other
agent's reader. In ReaderBuffer the buffer is smaller than two full chunks, so that
eviction meets a partly consumed first chunk, and the pattern straddles chunks. In Journal
the fifth event rotates a live file while all three archived parts exist, so that the
oldest is unlinked; an event with a key conflict writes two lines. In PlantRun the pipe
holds one line, so that the second setpoint blocks an unread pipe; the answer queue holds
one line, so that every early print meets its bound, and may be emptied between the pump's
look at its size and its `get_nowait()`. In Mqtt one operation of the three subscribes, one
publishes from the other side, one cuts the line or subscribes again after a timeout. In
Tools the third call meets a window that two others have used or turned. In
UnixRun the second question comes after an answer, so that a dump may print both answers
before the first, between the two, or late; with the noise line and the collected one there are
more chunks than are retained, so that the log may overflow. In ReplRun
one lost token is enough to damage a hex byte, an end of the echo or an answer. In Solve the
second campaign may be shorter than the first; three iterations let a run's verdict, a
reply without code and an endpoint's failure follow each other. In Ops two faults are one
that breaks an attempt and one that breaks its repair, and the second attempt finds what
the first left.

Deadlock is checked in the runs of Session and ReaderBuffer, where an idle agent may always
call again, and in those of PlantRun and UnixRun, where only a run that is done may stop.
The other runs say `CHECK_DEADLOCK FALSE`: their systems stop when the bounds are used up
(campaigns, calls, time) or the run is over. What must not wait for ever there is
stated as liveness where the code's scheduling justifies fairness (`LockComesFree`,
`EveryAttemptEnds`).

### Properties and fairness

`Session_safety`: `RegistriesAgree` (the four dictionaries, and the reader's own port);
`OneReadOwner`; `RegistrationsAreLive` (a name is in `_transfers` exactly while one call is
in its exchange, whatever was closed or reopened meanwhile); `NoThief` (during a transfer
or monitor no thread of that port is alive, zombies included); `NoLostPort`.

`Session_liveness`: `CloseCompletes`, `DroppedReaderEnds`. Fairness: a thread inside a call
keeps running (the code never waits for another agent except at the locks and joins
modelled), and so does a reader thread that has something to do. A join is forced to end
only when its thread is dead: nothing relies on the timeout, which is the strong form of the
lock-order comment in `serial_write`. Nothing is assumed about the agents' choice to call,
the device or the clock.

`ReaderBuffer`: `EveryByteAccounted`, `NoByteTwice`, `NoOccurrencePassedOver`, `FeedSpec`
(the refinement), and `DeadReaderReleasesConsumers` under weak fairness of the consumers'
loops (it only sleeps and looks again; the deadline is not used).

`Journal`: `ChainIsNewestEvents`, and `LockComesFree` under weak fairness of a writer inside
the locked block.

`PlantRun`: `LinesInOrder` (child, pipe, hand and queue hold 1, 2, 3, ... without a gap, and
a line in none of them was reported lost); `NoLostWakeup`; `UsedAnswersAreFirst` (a run
without an error used the controller's first lines in order: the three checks of the drop
counter leave no gap); `LoopMeetsDeadline` and `AbortedRunReturns` under weak fairness of
the main thread, the two pump threads and the clock. Nothing is assumed of the controller.
The success path between loop and teardown is in none of them: it may hang
(`PlantRun_hang`).

`Mqtt`: `NoValueMissed` (when no handler is at work, a live connection whose filter matches
has been sent, or has itself published, the retained payload);
`SubscribeOkMeansSubscribed` (or the loss of the connection is in the journal, or about to
be noticed); `InboxIsNewest`.

`Tools`: `OneLiveSession`; `QuotaKept` (of one session); `DenialsAreEarned` (an action
property: a call is denied by rate only if the limit was used up within the last period,
as stale only if nothing succeeded within the idle time).

`UnixRun`: `AnswersAreEarned` (in a passed run, the answer of every wait reached was first
printed after its trigger was stamped, or was in the pipe at the moment of that stamp: the one
leak of the quiet window); `HonestNeverPrePrinted` (the stamps never convict an honest firmware, and
it gets the words "pre-printed" only while none of its answers has been credited, by the
second rule); and `RunEnds` (the child always goes, and the run returns unless a process
the child left behind holds the output open for ever) under weak fairness of the main and the
reader thread and of the clock. The firmware and its heir owe nothing.

`ReplRun`: `UserCodeIsKept`, `OnlyTheEntryIsScored`, `AnswersArriveAfterTheDrain`,
`HonestNeverConvicted`. The first speaks of lines that lose one token at most; the other
three leave out runs in which the echo's first line was lost: what happens in those is
listed below. The last speaks of stimuli whose every wait is for an answer to the
same writes, at least one (`EveryWaitIsAsked`): the runner cannot tell the answers apart
otherwise, and convicts a wait that comes before any write.

`Solve`: `NothingStale` (rows from the tombstone on, directories at the end),
`CountsOnlyFullTries`, `JournalHasResults`.

`Ops`: `SeededStart`, `RestoredTruth`, `VerdictsAreTrue` (a pass holds of the board at the end
of the judging, and an unsolved row that counts was judged), `CampaignAccount` (rows and exit
code) — the board properties as long as no stray process is at work — and
`EveryAttemptEnds`, under weak fairness of the driver and of the server (a tool call ends;
a server at the end of its stdin leaves), and strong fairness of the end of a reply's list
of calls, which is finite. Nothing is assumed of strays, kills and restarts.

### Where code and text disagree

| Run | Text | Code |
|---|---|---|
| `PlantRun_hang` | "close() + join() during teardown never block the runner for long: killing the process breaks any write stuck inside the pipe" | the success path closes stdin before any join or kill, and waits for the pump's blocked write; the counterexample ends there, with the main thread in `closeIn`. Outside the model, a script with this class and a child that only sleeps showed the same: 4000 setpoints do not reach the cap, and `close()` returned when the child ended |

### Observed, without a run of their own

Noticed while the modules were written, with the place in the code. Some are harmless,
some are the reason for an exemption in a property above.

- Session: `_check_open` is read before the lock and not again at the insert (`session.py`
  271), so that an open which passed it registers a port behind close() (the comment at 80
  says this no longer happens). A write that saw no reader takes no `io_lock`, so that it
  may overlap the reads of a reader started meanwhile (372; `serial_reader.py` 144 says "a
  read and a write never overlap"). A `serial_read` past its gate goes on beside a monitor
  (425; 667 says the monitor "owns the read side").
- SerialReader: a dead reader's answer is a snapshot taken before the error is looked at
  (`serial_reader.py` 262, 242). `tail`'s docstring (218-221) counts the bytes consumed by
  `read_until` into `dropped`, the code (226) only those of the first chunk.
- Journal: `chain_files` stops at the first missing index (`journal.py` 243), and a crash in
  a rotation leaves one; 236 promises all files of the chain. `ChainIsNewestEvents` holds
  because the parts beyond the hole are older.
- Mqtt: a transport that is opened again starts its mids anew while `_suback_results`
  survives; the PUBACK goes out before the retained payload is stored; a snapshot of the old
  payload may reach a new subscriber after the broadcast of the new one; a client accepted
  behind stop()'s sweep stays; an automatic reconnect loses the subscriptions while
  `_connected` is set again.
- Tools: `get_session` reads `_session` a second time outside the lock and may return None;
  a write in flight when its session is closed is done and not journaled; two sessions on
  one root have two sandbox locks; a fixed window lets twice the limit through around its
  turn; a token is spent before the deadline is looked at.
- Unix runner: a line printed after the last look of `_wait_quiet`, or held up before the
  reader's lock, is ingested behind the stamp and credited (`runner_unix.py` 505-506), though
  the docstring (247-249) says that everything printed so far has been ingested by then: the
  exemption `leaked`. Between `_first_answer_stamp` and the look at the text (487-489) an answer
  may be ingested; the wait then ends without credit and the rest of the stimulus is not
  played, and if that was the first wait and the firmware ends, the second rule (610-634) gives it
  "pre-printed", though the comment (592-595) says that a genuine answer is credited before EOF can be
  observed: the reason why `HonestNeverPrePrinted` exempts a run without a credit. Only the waits
  reached are judged. At an end of the output with a child that lives on,
  `proc.wait(timeout=5)` (564) raises `TimeoutExpired`, which none of the handlers (669-680)
  catches. A process left behind that keeps stdout open blocks `proc.stdout.close()` (685) for
  as long as it lives, because the reader thread holds the stream's lock in its read. An exit
  code replaces the wording of the anti-cheat.
- Live board: the same two looks (`runner_real.py` 121-124), though 152-154 says honest fast
  answers cannot race by construction; output that arrives between the drain (139) and the
  stamp (140) counts as an answer; two lost hex digits leave a shorter backup that parses,
  and main.py is wiped (`realhw.py` 161-168 promises a verified backup); a wait before any
  write is always convicted; a constructor that fails in `interrupt()` leaves the port open;
  an echo whose first line is lost is taken for none, so that the source's own text is scored,
  and an answer's text in the last pasted line, arriving late, is taken for the answer.
- Renode: the trim looks at the last line first and at a lost first line not at all (355-368
  of `runner_renode.py`); the early end of the collecting loop counts the source's echo, so
  that a slow honest entry may be missed; the positional anti-cheat checks only what has been
  read.
- Ops: `remove_file` execs on a fresh `MpRepl` without `enter()` (`ops_run.py` 150), so that it
  succeeds only on a board left in raw mode, and a restore with it fails on a sound line (the
  model has it so: `Answered`). Exceptions other than `OSError` and `McpWireError` skip the
  restore. An infra row does not tell of its restore. `close()` waits on the server's stdout
  before the kill that would end it. A server whose `initialize` fails is left running. A
  script's timeout kills only the direct child. A judge whose line fails counts against the
  agent.
- Solve: `attempt_result` is journaled only after all attempts, so that an exception in a later
  one loses the earlier ones' entries; `rmtree` ignores errors, so that a stale directory may
  stay.

## 4. Proofs

Assumptions are the named `ASSUME`s of the modules, and nothing else. Sizes, rates, quotas and
bounds are natural numbers, some of them positive, as the constructors and the command line
demand; a pipe holds a line; the chunk is not larger than the buffer (the constructor raises
otherwise); `Names` and `Files` are finite; `NIL`, `NoWriter` and `NotYet` are none of the objects
or stamps; a missing file is no list of lines and half a line is no line; publish calls have the
fields paho's have (`Forms`), and tasks the steps and checks the loader accepts (`OpsTask`); a
stimulus is a sequence of the step kinds; the literals a task expects are no words of the
staging protocol, and a file has an even number of hex digits.

With the theorems below every safety property of every passing run holds for all values of the
constants that meet these assumptions. Hardly any of them is inductive alone; each paragraph
says what had to be added, and why.

**SessionProofs** proves `SessionInvariant` and from it `Lockstep` (`RegistriesAgree`),
`SingleOwner` (`OneReadOwner`), `LiveRegistrations` (`RegistrationsAreLive`),
`NoByteThief` (`NoThief`) and `Limit` (parallel opens never pass the ceiling) for any number
of agents, names, transports and readers. `NoThief` is the
deepest: a transfer sees only that no reader is *registered*, and must conclude that no
reader is *alive* on its port. The invariant therefore says that a live thread whose port is
still registered is itself registered, or belongs to a close that holds the session lock;
that a port is registered under one name at most and opened before; that readers are started
once and drain the port of the name they were started on; and that whoever waits in a join
holds the lock. The proof has one lemma per kind of step (those that leave the registry
alone, those of the reader threads, opens, starts, exchanges, closes) so that each
conjunct is argued once per kind. `NoPortIsLost` (`NoLostPort`) needs two facts more: a close
that waits in its join still holds the very transport the name is registered with
(`HandleKept`), and only the sweep of `close()` keeps a list of transports (`SweepEmptied`).

**DropOldestProofs** holds the two stores that throw away what is oldest. For the reader's
buffer it proves `BufferInvariant` and from it `Bounded`, `Accounted`
(`EveryByteAccounted`), `OnlyOnce` (`NoByteTwice`) and `Refinement` (`Spec => FeedSpec`). The
strengthening says that the deliveries and the losses lie below the read position and that no
boundary lies strictly inside the first chunk before the offset. The least and greatest
boundary exist because boundaries are natural numbers, bounded by `hi`. `NothingPassedOver`
(`NoOccurrencePassedOver`) rests on `MovedByReason`: the read position is where a delivery
ended or directly behind a lost byte, so that an occurrence that begins before it and ends
after it meets one or the other.

For the journal it proves `JournalInvariant` and `ChainIsTheEnd` (`ChainIsNewestEvents`), for any
number of writers, parts, and lines to a part. What a reader finds stops at the first missing
index, and in the middle of a rotation there is one. The invariant therefore speaks of *all*
files, those a reader does not find included: behind its last torn line their
concatenation is the end of `log` (`EndOf`, `FilesInv`). Moving a part to the free index next to
it changes nothing of that concatenation; that the index is free is `LockedInv`, as is that
only the holder of the lock moves files. What a reader does find is again an end of the whole,
because the parts beyond the hole are older. `Joined` is a recursive function over the
indices; where an argument goes through all of them (`Joined` of two lists of parts that
agree, of a list with one part taken away) it takes the least index for which the claim fails.

**PlantRunProofs** proves `PumpInvariant` of the stdin pump for any cap and pipe and any writer. The
strengthening ties the place of the thread to its hand (it holds exactly one line
between the pop and the end of the write), and says that the wake-up stays
set from the moment the thread wakes to the check that clears it, which is why that check
must look at the queue under the lock. `RunDrivesPump` (`Spec => PumpSpec`) shows that
a plant run touches the pump only through its operations, whatever the controller does, so that
`SetpointsInOrder` (`LinesInOrder`) and `PumpNeverSleepsOnWork` (`NoLostWakeup`) hold of
every run. It then proves `FloodIsSeen` (`UsedAnswersAreFirst`) for any number of
steps and any bound of the queue: while nothing was dropped, the used answers, the queue and
the line in hand are all the lines the pump has moved, and the counter goes up before a line
goes.

**ToolsProofs** proves `OneSession` (`OneLiveSession`): of the sessions built only the current one
may be open, and whoever is about to forget it has closed it before, under the lock.
`QuotaHolds` (`QuotaKept`): a write that has passed the check still fits when it is made, as
with one session nobody else is between check and write (`OneInside`); the sums over the
tree are cardinalities of finite sets. `DenialsEarned` (`DenialsAreEarned`, an action
property): the calls that passed since the window began are at least those the limiter has
counted (`Counted`), and the deadline counts from the last success. `ToolsTypes` says besides
types in which places a call has a session, a lock and a tool.

**MqttProofs** proves `MqttInvariant`, for any number of transports, devices, connections and calls.
`InboxKeepsNewest` (`InboxIsNewest`) is nearly inductive. `GrantedIsSubscribed`
(`SubscribeOkMeansSubscribed`) is not: the call takes whatever result its packet
identifier has in the table, and must conclude that it is the answer to *its* SUBSCRIBE. A connection
belongs to one network thread (`LineInv`), identifiers on the line and in the table are no greater than the
call's, and a packet with the call's own identifier carries its filter (`AccountedFor`), until the loss of the
connection is noticed. `ValueReaches` (`NoValueMissed`) speaks of a broker at rest; the invariant
says of one at work that a subscriber that lacks the retained payload has it on its way
(`OnTheWay`): with the SUBACK of a matching filter, in its own replay, or in a broadcast that has
looked at the clients after it subscribed, or has yet to look.

**OpsProofs** proves `OpsTypes` and from it `AgentStartsSeeded` (`SeededStart`), `RestoreIsTrue`
(`RestoredTruth`), `VerdictsHold` (`VerdictsAreTrue`) and `CampaignIsAccounted`
(`CampaignAccount`), for any set of tasks, any length of setup, judgement and restore, and any
number of faults, attempts and campaigns. The properties speak of the board at the end of a phase, the invariant of
how far the phase has come (`SettledUpTo`, `JudgeKnown`). The board changes under the driver's feet only through a server
or a stray script; hence the invariant says in which places a server is alive (`ServerInv`).
The book is kept by few actions; for all the others one lemma (`BookIsShut`) says that they leave
it alone.

**UnixRunProofs** proves `AnswersAreEarnedHolds` and `HonestNeverPrePrintedHolds` for any
stimulus, any cap of the retained output and any firmware. The firmware's time
and the reader's meet in the pipe: what is in it when a stamp is taken is recorded in
`leaked`, so that what is ingested with that stamp or a later one was printed after it or is
recorded (`FairIn`). The invariant adds that a first occurrence is
stamped no earlier than it was printed (`PrintedFirst`), that a wait's trigger is the count of writes before
it (`CountNext`, `AskedByFact`), and that an honest answer follows the reading of its
question, which was stamped, sent and delivered in that order. The verdict is made of the log and
of stamps the reader may still be adding to; a first occurrence does not move
(`FirstStays`), the log holds needles with a stamp (`Logged`), hence whoever is convicted at the verdict stays convicted
(`ConvictionStays`), and whoever was not convicted then can be called to account later (`Judged`).

**ScoringProofs** first proves all three properties of a solve campaign for any number of attempts,
iterations and campaigns. The properties speak of the file; the invariant carries what makes
them true from the moment a result is made: every result of the running campaign is a *good*
one (infra, solved, or with all its iterations used, those without code in the reply included), rows are results of the campaign that
owns the file, the owner is the running campaign from the tombstone on, and the directories
below the attempt at hand are its own while those above are gone.

It then proves the four properties of a run on the live board or in Renode (`UserCodeKept`,
`EntryIsScored`, `AnswersAreNew`, `HonestRuns`), for any stimulus, content, and literals shown by
the source, and any delay and loss. The runner's text, the driver's buffer and the line are argued
about as *one* stream, text first: a step keeps it, takes some of it away (a loss, a cut), or appends
what is said (`StreamStep`), whatever has been ingested or has arrived. So each of these is an invariant:

- the stream is ordered, the old program and the prompt before the echo's lines, these before the entry
  (`Ordered`, `HeardInv`), so that behind the last echoed line there is only the entry's
  output, and a cut there or at the first line leaves nothing else to be scored (`CleanInv`);
- as long as the first line of the echo is not lost it is in the stream until the cut, hence the cut
  that waits for it happens (`EchoInv`);
- an answer in the text is stamped no later than it arrived, one in the driver has
  arrived since the last drain (`ArriveInv`), and a wait has the stamp of the writes
  before it (`CountInv`, `WaitedInv`), so that a run that passes the check of its waits got new answers;
- an honest entry's answer is stamped with its trigger or later wherever it is on its way (`HonestInv`);
- while the probe is read, between its marks there is the whole file, or one digit less: an odd
  number, which `bytes.fromhex` refuses (`Intact`, `KeptInv`).

What is only model-checked is liveness: `CloseCompletes`, `DroppedReaderEnds`,
`DeadReaderReleasesConsumers`, `LockComesFree`, `LoopMeetsDeadline`, `AbortedRunReturns`,
`RunEnds` and `EveryAttemptEnds` rest on fairness and ENABLED, which TLAPS does not treat here.

## 5. What is left

To prove next: no safety property of a run is left without a theorem. What would say more is
safety lemmas the liveness runs rest on (a join under the session lock is always for a thread
that has been told to stop; a consumer of a dead reader is never asleep), as invariants of
`Session` and `ReaderBuffer`, and abstract specifications for `Session` (one owner
per port) and `Journal` (a bounded log) with their refinements.

To model next, where it pays: a journal that raises inside `Session` (`serial_reader_start`);
the chunked transfer of `mprepl.py` with an abstract "whole or fails" specification; replay.

Not modelled: the Wokwi runner (one call of an external tool), the start and stop of Renode,
esptool, Modbus (a handle and a register list under one lock), policy and task file parsing,
fault injection, the plant's physics (floating point), the judge's bus, inventory and MQTT
checks (they read the board and change nothing the other checks see), the ops fault family
(it runs the same attempts), argument parsing, and reports other than what decides which
attempts count.
