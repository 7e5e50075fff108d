# Asterion ONE: a verification project

TLA+ models, model-checking runs and machine-checked proofs for Asterion ONE,
a small satellite system: Python flight software, a Node.js ground segment
with PostgreSQL and a React console, and a Python digital twin.  Paths below
are relative to the repository root; every definition that models code is
mapped to its lines in `PROJECT.json`.

## 1. Inventory of the system

| Part | State it keeps | Operations | What makes it correct |
|---|---|---|---|
| **FSW core** `flight/fsw_core.py`, `config.py`, `infra/systemd/asterion-fsw.service` | `_state`, `_running`, `_consecutive_wd_restarts`, the boot counter file, telemetry and stability timers | constructor, `start`, `stop`, `tick` (`_do_boot`, `_do_nominal`, `_do_safe`, `_do_critical`), `_load/_save_boot_counter` | escalates to CRITICAL neither early nor late over restarts, torn saves included; no oscillation between SAFE and NOMINAL; recovers when calm |
| **Comms client** `flight/comms_client.py` | next number, highest ack, transport, statistics | `send*`, `connect` with `_replay_queued`, `disconnect`, `receive_one`, `drain_receives`, `_handle_telemetry_ack` | frames arrive in order, a file is removed only for a frame the ground has, the queue drains, losses have known causes |
| **Disk queue** `flight/disk_queue.py` | one file per message, named by number | `enqueue` (overflow drops the oldest, tmp + rename), `get_from`, `remove_up_to`, `peek`, `clear` | survives restarts, keeps order, loses only by overflow |
| **Flight main loop** `flight/__main__.py` | loop flag, time of the last connect attempt | connect, tick, drain, sleep; signal handler | a signal ends it wherever it is; a dead link is found out and replaced; plans that arrive are handled |
| **Command executor, crypto verifier** `flight/cmd_executor.py`, `crypto_verifier.py` | handlers, trusted keys | `execute_plan`, `execute_single`, `verify` | executes only signed plans, in NOMINAL, in order, up to the first failure |
| **Flight audit log** `flight/audit_logger.py` | JSONL file, last hash | `log`, `verify_chain`, load at start | an unbroken hash chain over restarts |
| **Window scheduler** `flight/window_scheduler.py` | open or closed, forced closure, lock | `tick`, `force_closed`, `clear_force`, `current_window_info`, queries, `start_loop`, `stop` | windows take turns whatever is forced, the listener knows whether the window is open, every call returns |
| **Sensor simulator** `flight/sensor_sim.py` | overrides, random readings | `read_all`, overrides | (input of the core) |
| **Gateway** `ground/src/ws/gateway.js` | the flight connection, UI connections, statistics | handlers for TELEMETRY, COMMAND_ACK, COMMAND_NACK, AUDIT_EVENT, REPLAY_REQUEST; upload | one flight client, the newest; plan and command status follow the flight's reports |
| **Plans and windows** `ground/src/api/routes/commandPlans.js`, `contactWindows.js`, `db/manager.js` | rows of plans, commands and windows | create, sign, upload, status updates; create and update windows | statuses move along their graphs, one upload per plan, no overlapping windows |
| **Ground audit** `ground/src/services/audit.js`, `routes/events.js` | audit rows chained by hash | `logEvent`, `verifyChain`, `GET /verify` | one unforked chain that both verifications accept |
| **Twin** `twin/*.py` | none but its cycle | fetch, forecast, alert, post | (floating-point forecasts) |
| **Console, REST plumbing, infrastructure** `ground/ui`, `ground/src/api`, `infra` | none of the protocol | | |

How they interact: systemd starts the flight process, kills it when the
heartbeat stops, and restarts it with `RECOVERY_MODE=SAFE`.  The main loop
calls `fsw.tick()`; the core calls back into the comms client with every
telemetry frame; the client sends on a WebSocket or stores in the disk queue,
and replays the queue when it connects again.  The gateway stores telemetry,
acks it, forwards plans that operators create, sign and upload over the REST
API, and turns the flight's ACKs and NACKs into status updates.  Both sides
write audit chains.

What is hard: kills between two steps of a save; restarts that see half of
what the last process did; links that die without notice; acks lost, late or
repeated; overflow of the queue; Node.js handlers that interleave at every
`await` around read-then-write sequences; hash chains written by several
writers.  The full list, each at its line, is `hazards` in `PROJECT.json`.

## 2. Modules

| Module | What it is |
|---|---|
| `FswCore` | the FSW core over many incarnations of its process |
| `MCFswCore` | its small instance |
| `FswCoreProofs` | theorems about `FswCore` |
| `OrderedDelivery` | abstract: an ordered channel that may lose frames for good |
| `StoreForward` | comms client, disk queue, transport and the acks of the ground; implements `OrderedDelivery` |
| `MCStoreForward` (2 cfgs) | its small instances |
| `StoreForwardProofs` | theorems about `StoreForward`, the refinement included |
| `CommandPlans` | one plan at the ground: API requests and gateway handlers interleaving at their awaits |
| `MCCommandPlans` (2 cfgs) | its small instances |
| `CommandPlansProofs` | theorems about `CommandPlans` |
| `FlightAudit` | the flight's audit log over kills, restarts and failed appends |
| `MCFlightAudit` | its small instance |
| `FlightAuditProofs` | theorems about `FlightAudit` |
| `WindowScheduler` | the flight's contact-window scheduler: threads, lock, forces, callbacks |
| `MCWindowScheduler` (2 cfgs) | its small instances |
| `WindowSchedulerProofs` | theorems about `WindowScheduler` |
| `GroundAudit` | the ground's audit chain: concurrent `logEvent`, flight's rows, both verifications |
| `ContactWindows` | requests on contact windows, on top of `GroundAudit` |
| `MCContactWindows` | the small instance of the two |
| `ContactWindowsProofs` | theorems about the two, the refinement of `AuditSpec` included |
| `FlightLink` | main loop, gateway connection and the two ends of each socket |
| `MCFlightLink` | its small instance |
| `FlightLinkProofs` | theorems about `FlightLink` |
| `DiskQueue` | the queue directory over several processes, in steps that a kill can separate |
| `MCDiskQueue` (2 cfgs) | its small instances |
| `DiskQueueProofs` | theorems about `DiskQueue` |

### FswCore

One behaviour spans all incarnations of the process; the boot counter file is
all one leaves to the next.  `pc` is where the main thread is: `down` (killed),
`halted` (exited; `Restart=on-failure` leaves it alone), `open` and `write`
(the two steps of `_save_boot_counter`: `open(path, "w")` truncates, the count
reaches the file at close, either may raise the OSError the code swallows),
`finish` (what follows the save, told apart by `task`: a recovery start, a
normal boot, or the clearing on NOMINAL), `tick` and `sleep`.  `Launch` is the
constructor and `start()` up to its save; `TickBoot`, `TickNominal`,
`TickSafeSkip`, `TickSafe` are the handlers; `Stop` may fall anywhere in the
main thread, as a signal handler may; `Crash` is a SIGKILL or an uncaught
exception at any of these points.  What a kill cannot tell apart is one step.
Of `_transition_to` the state remains (`TransitionTo`), of a telemetry frame the age
of the last one (`EmitTelemetry`), of the self-tests that they pass or not
(`SelfTests`).

Numbers are integers: volts and state of charge in hundredths, the error rate
in thousandths.  Ages of timers are capped where the code stops telling them
apart.  `calmFor`, `restarts`, `uncounted` and `uncleared` are history that no
action reads (`uncleared` only in the bound of `Launch`).  `restarts` counts the recovery starts
after a kill since NOMINAL or a normal boot, `uncounted` those that a torn or
failed save of `start()` has lost, and `uncleared` the recovery starts since
the counter was cleared.  `calmFor` is calm *at the samples*: between two
samples of SAFE, 10 s apart, the code does not look and the model does not
either.

### StoreForward

A frame is its `seq_id`.  `disk` is the set of files; `Enqueued`, `GetFrom` and
`RemovedUpTo` are the queue's operations.  `link` is what the transport is:
`dead` is a WebSocket whose peer is gone while `is_connected()` still holds,
so that a send may be swallowed (`SendIntoDeadLink`) or fail
(`NoticeDeadLink`, which sets `_ws` to None).  `Replay` is one message of
`_replay_queued`; the client is one thread, so no `send()` or drain falls
between (`Idle`), but the link and the ground move meanwhile.  `ReceiveAck` is
`_handle_telemetry_ack` as a whole.  `Deliver` is one TELEMETRY message at the
ground, with its ack.  `LinkLoses` covers both transports: a socket loses what
it holds when it closes, the in-process queues do not (`KeptOnClose`).  `GroundAcksHighest`
covers both ground ends: `MockGateway` sends `highest_ack_seq_id`, which is
what the client reads; `gateway.js` sends `acked_seq_id`, which the client
reads as 0.

Abstractions: payloads, timestamps, latency statistics and audit entries are
left out; each message is a telemetry frame (the only kind `__main__` sends);
a fault of the database insert does not matter to the client, since the gateway
acks all the same; one incarnation of the flight process.

### CommandPlans

The rows of one plan (`plan`, `signature`, `cmd`) and the handlers that run on
them.  A handler is a record: what it serves (`kind`), the await it is at
(`at`), the status it wants to write (`want`) and the command it is about.  An
action is what a handler does from one await to the next, so Node.js
interleaves handlers exactly where the model does; each query is atomic and
none of them share a transaction.  `DecideStatus` and `CommitStatus` are the
two queries of `commandPlans.updateStatus`, `Proceed` how its callers go on
when it returns or throws: the ACK and NACK handlers catch, the upload does
not.  `FlightExecutes(k)` is `execute_plan`: k commands are executed in order,
then one fails or the plan is done (k = 0 also when a gate rejects it);
the handler of the command that fails may have run before the audit log raised
(`RanThoughFailed`).  What follows is either `Report`, the result of each
command (`EXECUTED` or `FAILED`, the status that its ACK carries and the
gateway writes) and a NACK if the plan was stopped, or `ReportNothing`: the
audit log may raise out of `execute_plan` at any point, after the last command
too (lines 42 to 142, 196), `bytes.fromhex` raises on the null key of an upload
without one, unless the state gate has rejected the plan before, and the main
loop drops what `execute_plan` returns.  A replay sends no `public_key`, so that
no command of it runs.  `QueryFails` is a failed query at any await; `Restart`,
an event from outside the code, loses the handlers and both connections and
keeps the rows.

`executed`, `refused`, `silent`, `uploads`, `overlapped` and `raced` are
history: what flight has done, whether it has run commands and reported nothing
of it, how many uploads were sent, whether two requests ever ran at once, and
whether a report was ever handled beside an upload request.  Two hazards are
outside what the properties forbid: after a failure or a restart a plan may stay
SIGNED while flight executes it, which `StatusTruthful` allows since no row
claims too much; and handlers under way may overwrite each other, so that
`ClosedForGood` starts from a closed plan without any.

Abstractions: one plan; audit events, broadcasts and read-only endpoints are
left out; two reads of one handler with no decision between are one step; the
first `getByPlanId` of an ACK only finds the row's id. Reports are the ones the
gateway reads, as `gateway.test.js` sends them. The flight code of this
repository would not get that far: `__main__` drops every result of
`execute_plan` (`silent` is the rule there), and `send_command_ack` names the
field `sequence_id` where the gateway reads `command_seq_id`.

### FlightAudit

One behaviour spans the processes that write one file.  `lines` is the file,
each line an entry or `Junk`, and `ended` whether the last one has its newline.
`log()` holds its lock from the hash to the end of the append, so one entry is
under way at a time: `AppendEntry` is `log()` up to the flush, `FinishLog` the
rest, and between them a kill (`Kill`) or a failing `fsync` (`FailSync`) leaves
a line that `log()` has not returned.  `CutEntry` writes a part of the line, at
most all but its newline; the process is killed or the write raises.  `Extend`
is the append: on a line of its own, or onto the unended one, which then parses
no more.  `Start` loads the pointer from the last line that parses
(`LastHash`), and `ChainValid` is `verify_chain` over the lines that parse.

`logged`, `cuts` and `astray` are history: the entries that were returned, how
often a line was cut, and whether a sync ever failed.  Abstractions: a hash is
the number of its entry, so a changed content is not looked for; what `fsync`
has returned is on disk, and so is what the flush has handed to the system,
since only the process dies, not the machine.

### WindowScheduler

What a call does under `_lock` is one step, because nothing under it waits,
and what it does after the release is another: `ForceClosed` then `TellForced`,
`ClearForce` then `ReadAfterClear` (it reads `_is_open` without the lock) then
`TellCleared`.  `Tick` calls the listener under the lock.  The exception is
`current_window_info` of a closed window, which keeps the lock and waits for it
in `time_until_next_open` (`InfoWhenClosed`).  `CheckExpiry` is part of every
call that the code starts with `_check_force_expiry`.  Time passes in seconds,
capped at the longer duration; `Forever` is `_force_until = None`.  The
listener is any `on_state_change` that records what it hears and does not call
back.  `gap` is history: why, since the last turn of the window, the listener
may have heard wrong.  The transition log is left out.

### GroundAudit and ContactWindows

One action is what a handler does from one await to the next; each query is
atomic and no transaction joins two.  In `GroundAudit`, `ReadLast` is the query
for the last row, `TakeStamp` the code after it, `InsertRow` the insert;
`FlightEvent` is a row of flight with hashes of another chain and an older
timestamp.  A hash is the number of its row: two rows have different hashes as
they differ in what is hashed, and a changed content is not looked for.
Timestamps are milliseconds that rows may share.  The clock never steps back,
although `audit.js:60` takes the wall clock, which may; and the last row is the
last inserted, although `audit.js:56` orders by timestamp and `ctid`, which
PostgreSQL does not tie to the order of insertion.  `AuditSpec` is what the chain
promises to any user; `ContactWindows` EXTENDS the module and uses its actions
inside its own: `CreateWindow` inserts the window and calls `logEvent`, whose
end is the end of the request (`LogReturns`).  `OtherEvent` is any other
request that logs (plans, the twin).  `QueryFails` and `Restart` may come
between any two queries: a failed query ends its request, a restart all.

`forked`, `raced` and `unlogged` are history: whether a row was inserted after
another than the one it had read, whether a window was written on a reading
that no longer held (`stale` in the job of its handler: of a creation since a
window over an overlapping span came in between, of a status change since the
row changed), and the windows whose request ended between their insert and
their log entry.

### FlightLink

A connection is numbered as the gateway accepts it and has two ends that learn
of a failure each in its own time: `Cut` breaks the path, `ClientEndDies` is the
library of flight finding out, `CloseEvent` the gateway's `close` event, which
may come long after the client it belongs to was replaced; it then nulls the
newer one (`erased`).  The main loop is `loop`: `head` (the condition and the
connect), `replay`, `tick`, `drain`; `Signal` may fall anywhere, also inside
`fsw.start()`, which sets the core's `_running` after it.  `_ws` is given up
when a send raises (`GiveUpSocket`); `recv` swallows every exception
(`ReceiveNone`), so that a dead socket is found out by the next frame only.
`Receive` is `receive_one` with its handler, which may raise and so ends the
drain.  A message to flight is a plan or 0, one whose handler does not raise.
`StopHonoured` is about this loop, which asks a flag of its own besides the
core's: `run_loop` of the core asks `_running` only and goes on after a signal
inside `start()`.

Abstractions: telemetry itself is the business of `StoreForward`; `queued`
counts files, none of which the gateway's acks ever remove; the pause between
attempts, the sleep and the watchdog are the freedom of the scheduler, a kill
included.  A ping timeout of either library is a cut.

### DiskQueue

`StoreForward` takes the queue as a set of one incarnation; here it is a
directory that outlives its process.  A frame is the process that made it and
its number; `dir` gives for each file name the process whose frame is in it.
An enqueue is three steps: numbering, `MakeRoom` (the drop at capacity and the
temporary file), `Rename`; a `Kill` may come between any two.  `NameBefore`
compares names as text: `%06d` gives one width up to `Limit` and a wider name
from there.  `owed`, `dropped`, `heard` and `reached` are history: the frames
whose enqueue has returned, which the ground lacks and for which no newer frame
was put in at capacity; the frame that the enqueue under way has dropped, which
stays owed if the process is killed before the rename; and for each process the
highest of its numbers that the ground has got, and the last it has given.  The
link is reliable up to a disconnect; both kinds of ack are in one run
(`acksHighest`).  Acks that wait for the client are one, the last: it outdoes
those before it.  What `os.rename`
has returned is on disk: only processes die, so that power loss with a
directory that was not synced is out of the model.

## 3. Runs

| Run | Result | What it shows |
|---|---|---|
| `fsw_core` | pass, 38 k states | `TickingUnderLimit`: no tick in CRITICAL or over the limit, so T6 in `_do_safe` and `_do_critical` are dead code. `NoPrematureEscalation`, `EscalationHonoured`: CRITICAL exactly at the limit, up to what torn saves lose. `StableBeforeNominal`: T5 only after a full timer of clear samples. `RecoversWhenCalm`: a process left alone under clear readings gets to NOMINAL and stays. |
| `store_forward` | pass, 318 k states | `OrderedChannel` (refinement), `AckCoversPrefix`, `RemovedOnlyIfReceived`, `LossHasCause`, `QueueDrains`, with both transports in one run |
| `store_forward_gateway` | violation | with the gateway's acks the queue never drains |
| `command_plans` | pass, 1.04 M states | `StatusTruthful`: no row claims an upload, execution or refusal that did not happen. `UploadedOnce`: one upload if requests do not overlap and nothing fails. `ClosedForGood`: a closed plan is not reopened once its handlers are done. `CompletesUnlessRaced`: a plan that flight has executed, and not kept quiet about, completes unless a report was handled beside an upload |
| `command_plans_completes` | violation | an ACK handled while the upload marks commands SENT is lost, and the plan stays UPLOADED |
| `flight_audit` | pass, 10 k states | `ChainSurvivesKills`: kills alone never break the chain. `LoggedStays`: append-only, whatever fails. `LossBounded`: one returned entry lost at most for each cut |
| `window_scheduler` | pass, 214 k states | `IndInv`: numbers of windows agree with the state, and the lock is held over a step only by `current_window_info`. `ListenerErrsWithCause`: the listener is wrong only after a force ran out, a window opened under a force, or a callback was overtaken. `WindowsTurn`, `CallsReturn`: turns and calls go on until somebody asks for the info of a closed window |
| `window_scheduler_blocks` | violation | that call waits for its own lock, for ever |
| `ground_records` | pass, 2.36 M states | `ForkBound`: no row has more heirs than handlers. `VerifiersAccept`: both verifications accept a chain in which nothing was overtaken, up to equal timestamps. `LiveDisjoint`, `ClosedStays`: windows overlap or come back only by a write on an old reading. `CreatedIsLogged`: one row per window, or none for ever |
| `flight_link` | pass, 60 k states | `ClientIsNewest`: the gateway answers on the newest connection or on none. `HandledInOrder`, `PlansArrive`: plans in order, none twice, none forgotten in a drain cut short. `StopHonoured`: a signal ends the loop wherever it falls. `LinkSettles`: a dead link is found out and replaced |
| `disk_queue` | pass, 2.05 M states | `OnlyRenumberingLoses`: of the frames whose number no other process gave, each kill loses one at most, the one dropped for a frame that was never put in. `OnlyWiderOvertakes`: a frame on disk is overtaken by a later one of its process only if that has a wider name, or if another process gave its number too |
| `disk_queue_restart` | violation | a restarted process overwrites the files of the one before |

Bounds.  `fsw_core`: limit 2 (the code's 3 differs in nothing but length),
sampling every 2 s, a timer of 3 s, ticks 1 or 2 s apart, at most
`MaxUncleared` = 5 recovery starts without a cleared counter, which lets the
count pass the limit, be lost, and pass it again.  The readings are a clear
one, one inside every hysteresis band, one on every threshold, and one for each
fault.  `store_forward`: a queue of 2 for 5 frames and 3 drops, so that the
queue overflows, replays overlap with deliveries of an earlier connection, and
a replay is cut and repeated.  `command_plans`: two commands, so that ACKs
race each other and the marking of the other command; three requests, for a
sign and two uploads; one replay, one failure or restart, and two handlers at
once (`MaxHandlers`), which gives every race of a pair; with three handlers
and the same bounds the invariants were checked once, over 6.5 M states.
`flight_audit`: five entries and three failures, so that
two cut lines and what they swallow lie in one file, with restarts between.
`window_scheduler`: two callers
and the loop's thread; windows of 1 and 2 s, forces that end before, at and
after a turn.  `ground_records`: two handlers, since every race is of a pair,
three spans, of which neighbours overlap and the outer ones touch, three
requests and two failures or restarts; rows and time so that a window is
cancelled, replaced and raced.  With four requests and one failure it was
checked once, over 11.3 M states.  `flight_link`: three
connections and two plans, so that a client is replaced and its close event
comes after; drains of two messages.  `disk_queue`: three processes, so that a
file may be overwritten twice; names written to base 2 that get wider at 4, with
numbers up to 5 on both sides, and a depth of 3, at which two wider names
are replayed before the older one (2 in `disk_queue_restart`).

Deadlock checking is off: a halted process and a link that has used its drops
and frames may stop, a closed plan stays, and logs, tables and counters that
have reached their bounds are full.

Every property of a passing run has a mutant in `PROJECT.json`: a changed
definition, kept beside the original, under which TLC finds the property
violated.

Fairness.  `FswCore`: weak fairness of `Step`, the steps of a process that is
neither killed nor blocked; nothing is assumed of kills, signals, launches or
readings, and `RecoversWhenCalm` states its calm and its quiet as premises.
`StoreForward`: weak fairness of connecting, replaying, reading acks and
delivering, which the main loop and the ground's event loop do for ever;
`Connect` is enabled only with a reachable ground.  Drops are bounded, so the
link is eventually left alone; a client that sits on a dead link without
sending is excluded by the premise of `QueueDrains`.  `CommandPlans`: weak
fairness of the handlers' steps and of the delivery of reports, the Node.js
event loop; nothing is assumed of operators, of flight, or of failures.
`WindowScheduler`: weak fairness of every call, of the loop and of time; the
lock passes to each thread that waits, as it is held for moments only; nobody
has to call or to stop.  `FlightLink`: weak fairness of the loop's steps; strong
fairness of `Connect` (an attempt that is made again and again succeeds some
time: failures are bounded), of `TickSends` (no state of the core is quiet for
ever: BOOT, NOMINAL and SAFE emit frames, CRITICAL ends the loop) and of
`Receive` (`recv` returns a message that is there); weak fairness of
`ClientEndDies` (TCP or the ping gives a broken connection up); nothing is
assumed of signals, restarts, plans and close events.

## 4. Findings

Each is a run that TLC ends with a counterexample.

1. **Acks the client does not understand** (`store_forward_gateway`):
   `acked_seq_id` against `highest_ack_seq_id`; the queue never drains.
2. **A plan that never completes** (`command_plans_completes`).  The upload
   sends first and marks the commands SENT afterwards, over the EXECUTED of an
   ACK handled in between.
3. **A call that waits for itself** (`window_scheduler_blocks`).
   `current_window_info` of a closed window takes the scheduler's lock twice.
4. **Frames overwritten after a restart** (`disk_queue_restart`).  Numbers start
   again at 1, and files are named by number.

Seven more claims of the repository that the code does not keep are stated at
the end of the modules.  They have no run of their own; to see the
counterexample, put the name as the only property into the module's cfg.

- `FswCore!EscalationAlwaysHonoured`: a kill inside the save of the boot counter
  loses every counted restart.
- `FswCore!ConsecutiveRestartsOnly`: the first start under systemd counts as a
  restart, and a stale count survives a kill just after NOMINAL.
- `StoreForward!ZeroLossReport`: a frame lost with its connection is passed over
  by the next ack, and `verify_zero_loss` reports zero loss.
- `CommandPlans!StatusGraph`: `updateStatus` checks and writes in two queries, so
  that two ACK handlers take a plan from COMPLETED to EXECUTING.
- `FlightAudit!VerifiedIsComplete`: an entry written onto a cut line disappears
  from a chain that still verifies.
- `DiskQueue!DeliversInOrder` ("guarantees ordered delivery",
  `disk_queue.py:4`): a frame with a wider name is replayed before the older
  ones.
- `FlightLink!OneFlightClient` ("Only allow one Flight client at a time",
  `gateway.js:81`): a late close event nulls the newer client, and the next
  connection then does not close it.

## 5. Proofs

`FswCoreProofs` proves, for every limit, timer, threshold, set of readings and
pace of the loop (assumptions `LimitsAssumption` and `InputsAssumption`), the
safety properties of the run `fsw_core`.  The inductive invariant `IndInv` adds
what the properties alone do not carry over a step: the state a save is made in
(`SaveOfState`); that the counter file, or the count about to replace it, is at
most the uncleared recovery starts (`CounterUpperBound`) and at least the
restarts that no save has lost (`CounterLowerBound`), with the two half-way
points of a save apart; that NOMINAL and a normal boot start the count again
(`FreshCount`); and that the stability timer runs in SAFE only, never ahead of
the calm (`TimerSound`).  Types are proved in two lemmas because flags and
numbers need different provers, then each part of the invariant in a lemma of
its own with one step per action.

`StoreForwardProofs` proves, for every queue depth, number of frames and of
drops, for either transport and either kind of ack (`DepthAssumption`,
`LinkAssumption`), the safety properties of `store_forward` and that
`StoreForward` implements `OrderedDelivery`.  The key is `WireInOrder`: a frame
the ground lacks is, on the wire, behind every older frame that is on the wire
or on disk.  It holds because a live send needs a finished replay
(`ReplayComplete`) and a replay sends the oldest file first.  From it the
ground never overtakes (`NoneOvertaken`), so that an ack of a highest number
covers the files it removes (`AcksSound`).  In the refinement a send is a
`Produce`, the delivery of the oldest pending frame a `Deliver`, the delivery of
a second copy a stutter, and all else a `Lose`, which may lose nothing.

`CommandPlansProofs` proves, for every number of commands, requests, replays,
failures and concurrent handlers (`CommandPlansAssumption`), that the rows are
truthful.  A row is written by a handler that read what justifies it some
awaits earlier, so `StatusTruthful` alone is not inductive: `HandlerTruthful`
says what a handler may rely on at each await (an ACK handler that decides has
seen all commands executed, a NACK handler serves a refusal, a status about to
be written was allowed when it was read, hence the plan was uploaded), and
`ReportTruthful` the same of a report on its way.  All of it is about history
that only grows (`NextHistory`), which is why no interleaving breaks it, while
statements about the *current* status, such as `StatusGraph`, do break.

What does hold of the current status needs more.  `UploadsOnce` rests on
`SerialInv`: while requests come one at a time and nothing fails, a plan leaves
SIGNED only by the commit of its one upload, and the handlers of ACKs and NACKs
that run beside it have read, and so write, only a plan past it (`UpToDate`).
`ClosedPlansStay` proves the temporal formula `ClosedForGood` from a step lemma
(`ClosedStep`): no transition leaves a closed status, and a handler that has yet
to read the plan goes on to no write.

`FlightAuditProofs` proves, for any number of entries and failures
(`AuditAssumption`), all that `flight_audit` checks.  Two arguments are in
`IndInv`.  While nothing was cut and no sync has failed the file is one chain
without a gap (`Unbroken`) whose last hash is the pointer when no entry is
under way; a kill between write and move of the pointer keeps the file and a
start loads the pointer again (`LastHashUnbroken`).  Otherwise the losses are
counted: an unended line, and an entry under way that cannot be read, are debts
(`Owed`), each incurred by a cut, and a returned entry goes missing only by
taking over such a debt (`Paid`).  `TailSound`, that an unended line is no
returned entry, is why spoiling it loses nothing.

`WindowSchedulerProofs` proves, for every duration, set of forces and number of
threads (`SchedulerAssumption`), the two invariants of `window_scheduler`.  That
the listener's errors have a cause is not inductive as one formula: a wrong
answer in one direction is mended by one kind of callback under way and not by
the other.  `WrongOpen`, `WrongForced` and `WrongClosed` say which.

`ContactWindowsProofs` proves, for every number of handlers, rows and failures
(`GroundAuditAssumption`), what holds of the chain under any user.  `ForksBounded`
rests on counting: the heirs of a row and the handlers that are about to become
one are together at most the handlers, because a handler reads the last row, and
once a row has an heir it is not the last any more, so that no handler joins.
`ChainAccepted` rests on every unforked row referring to the one before it,
with timestamps that do not decrease.  Then, for every set of spans and number
of requests (`WindowsAssumption`), it shows that requests on windows implement
`AuditSpec` (`UsesAuditChain`: each action is an action of the chain or leaves it
alone), which carries both over, and proves
`LiveDisjoint` and `ClosedStays` from an invariant that ties each reading under
way to the rows it was of: a handler about to insert that is not `stale` has no
live window over its span, and one about to write a status that is not `stale`
still finds the change allowed.  `RequestInv` relates requests to their calls of
`logEvent` (`CallMatches`) and to the windows that were created (`AboutCreated`):
a row, a call or a request that was given up names no window that does not
exist, so that a new window starts with its own call and nothing else.  From it
`WindowsAccountedFor` counts: an action moves a window from being logged to
logged or to given up, and one request at most is logging it
(`CountWhileLogged`).

`DiskQueueProofs` proves, for every capacity, base, width of names, number of
frames and of processes (`DiskQueueAssumption`), the three properties of
`disk_queue`.  An ack removes files by number, whoever wrote them, so
`OnlyRenumberingLoses` needs to know why a file that an ack removes is of a frame
that the ground has.  `SkippedInv` says so: once a replay is over the ground has
every frame on disk but those at or under the highest ack this process has read,
and those have a number that another process gave (`GivenTwice`), since the
highest number the ground has seen was given by somebody (`AckInv`).  That a
wider name sorts too early does not matter to it: an ack is read only after a
replay of all files is over.  The kills are counted: the frame that an enqueue
has dropped is one at most (`DropInv`) and moves to the lost ones by a kill
only, while every other step leaves their number alone (`LossKept`).
`OvertakingHasCause` needs the order within a replay: `OrderInv` says that of a
process's frames on disk that the ground lacks, those under the highest number
heard of it are sorted behind a wider name, or were skipped; a live frame
follows a replay that is over, so that it overtakes only what was skipped.
`FirstProcessLosesNothing` is the other side of the
finding on restarts: what `SurvivesRestarts` claims holds until the first one.

`FlightLinkProofs` proves, for every number of failures, plans and messages
(`FlightLinkAssumption`), the three invariants of `flight_link`.  `OneSocket` says
that flight's open end, if any, is the newest connection and that nothing is left
to read on others; `DownInOrder` that what waits there is in order and newer than
all that was handled.  Together they carry `HandledInOrder` over every
reconnection.

Every safety property that a passing run checks, invariant or action property,
is a theorem.  Only model-checked: `RecoversWhenCalm`, `QueueDrains`,
`CompletesUnlessRaced`, `WindowsTurn`, `CallsReturn`, `PlansArrive`,
`StopHonoured` and `LinkSettles`, which are liveness under fairness and outside
the prover, and the counterexamples that the violation runs show.  TLC checked
each inductive invariant on its small instance before it was proved.

## 6. Not modelled

Parts without a module, or modelled in part, are listed with their reason in
`PROJECT.json`.  What could still be added:

- the gates of `execute_plan` one by one, with their audit entries;
- several plans in one replay, and the creation of plans;
- the clock of the main loop: a connect that blocks for its 3 s beside a
  watchdog of the same length.  The unit that systemd starts runs `fsw_core.py`,
  not `__main__`, so the two do not meet in this repository;
- power loss with a directory that was not synced (`disk_queue.py`,
  `audit_logger.py` sync the file only);
- the twin, whose cycle keeps nothing between rounds and whose forecasts are
  floating-point arithmetic; the sensor simulator, the console, REST plumbing and
  the fault-injection scripts, which hold no protocol state.
