# HangAnalyzer: verification project

TLA+ models of HangAnalyzer, checked by TLC on small instances, and theorems
about them checked by TLAPS. Paths are relative to the repository; a number
after a path is a line. The target of the program is an Ascend host: Linux on
AArch64, several threads per worker process, one worker per device, a watchdog
process beside them, and offline analysis of the files they leave.

## 1. Inventory

| Component | Code | State it keeps | Operations |
|---|---|---|---|
| Checkpoint manager | `src/flight_checkpoint.cpp` | a pool of slots per stream (`state`, `generation`, token, two reported generations), a submit cursor per stream, `poll_cursor`, the `polling` flag, `poller_running`, `stop_poller`, a `std::thread` | create, register_stream, submit, poll, start_poller, stop_poller, destroy |
| CANN adapter, ctypes wrapper | `src/cann_checkpoint.cpp`, `flightrecorder/checkpoint.py` | the manager's handle | create/destroy/record/query an event; `close` |
| Flight recorder ring | `src/flight_recorder.cpp` | mmap file: `write_seq`, `last_ns`, slots published by `seq` | flight_init, flight_record, flight_close |
| Flight file reader | `flightrecorder/format.py`, `client.py` | none | read_header, read_events |
| Watchdog | `flightrecorder/watchdog.py` | `seen_stalls`, `seen_exit`, the snapshot directories | poll headers, judge stall and exit, snapshot |
| Analyzer, checkpoint part | `flightrecorder/analyzer.py` 77-132 | none | pairing, watermark, stale confirmations |
| Analyzer, scopes, collectives, cycles | `flightrecorder/analyzer.py` | none | choice of the latest file per rank, open scopes, collective comparison, last host events, event dependencies, find_cycles |
| msPTI collector library | `src/hang_mspti.cpp` | `g_header`, `g_subscriber`, `g_enabled`, `g_pool_busy`, mmap file | start, set_enabled, flush, stop, buffer_request, buffer_complete, callback |
| msPTI ring reader | `flightrecorder/mspti_ring.py` | none | read_ring, report |
| msPTI worker bootstrap | `python/hang_mspti.py`, `python/bootstrap/sitecustomize.py` | `_stop`, `_thread`, the worker's `active` and `collecting`, the control file | start, worker loop, stop |
| msPTI Python capture | `python/mspti_activity_capture.py` | a bounded queue, writer and flush threads, monitors | start, callbacks, flush, stop |
| Four-card example | `examples/four_card_hccl_hang.py` | the workers, the watchdog's process, the snapshots | worker, run: start, wait for the hang, wait for a stalled snapshot, kill, analyse, judge |
| AICPU sampler, device ops, smoke tests | `flightrecorder/aicpu_sampler.py`, `device_ops.py`, `tests/` | none shared | sequential probes and drivers |

How they interact. Submitters and pollers of the checkpoint manager share the
slots by compare-and-swap, share the flag that admits one poller, call back into
the device runtime, and write each event to the flight ring. Ring writers share
the slots of a file with no lock and with readers in other processes: the
watchdog reads headers and copies files, the analyzer reads the copies. The
worker of `hang_mspti.py` calls the library, msPTI calls the library's buffer
callbacks on its own threads, the operator changes the control file, and
`read_ring` maps the live file. In the Python capture the flush thread owns the two
monitors, msPTI calls back on threads of its own, the writer thread owns the file,
and a bounded queue joins them; the operator changes an enable file. The example
runs all of it: workers that record, the watchdog that copies their rings, the
analyzer on the copies.

What is hard: lock-free reuse of slots and events; two steps (device, log) that
are not atomic; readers of memory that is being written, on a machine with weak
ordering; SIGKILL at any instruction; processes that start and exit between two
steps of the watchdog; a failure in the middle of five msPTI switches; buffers
out at msPTI while the collection is disabled, restarted or stopped; a start of two
monitors of which one fails; joins that time out; a writer that dies with records in
the queue; a report that is made from copies taken while the job was still moving.

What makes each component correct:

- *Checkpoint manager*: a slot has one owner; an event is not reused or destroyed
  while the device still has it; a CONFIRMED record is true and exact; statuses
  appear once per use; full means full; polling makes progress; stop returns;
  destroy leaves nothing behind.
- *Analyzer*: what it reports as passed has been passed, for every suffix of the log.
- *Rings*: no finished record is lost to a crash, a reader accepts intact records only.
- *Watchdog*: each stall and exit is captured, once, in a complete snapshot, and an
  exit snapshot has the final file.
- *msPTI collector*: buffers have one holder, losses are counted, the file says
  whether collection is on, collection follows the control file.
- *Capture*: a summary without a loss is true of the file, the file is a log of what
  was accepted, it reaches the disk, the monitors agree and follow the enable file.
- *Cycles*: a reported cycle is a deadlock of the device, a deadlock is reported.
- *Example*: it passes only if the job hangs the way it was staged.

## 2. Modules

| Module | Models | Uses |
|---|---|---|
| `Checkpoint` | the manager against a device that runs streams in order | |
| `CheckpointReport` | the analyzer's conclusions as operators on a set of records | |
| `CheckpointLedger` | the abstract promise: queued, passed, accepted, reported | |
| `CheckpointProps` | the properties of the three together, the refinement mapping | `Checkpoint`, `CheckpointReport`, `CheckpointLedger` |
| `CheckpointProofs` | all safety properties of `Checkpoint`, the ledger implemented, proved | `CheckpointProps`, TLAPS |
| `FlightRing` | `flight_record` by several threads, a crash, `read_events` | |
| `FlightRingProofs` | types, finished records are retained, quiet slots are read, proved | `FlightRing`, TLAPS |
| `MsptiRing` | the same writers without `last_ns`, the callbacks, recorded or switched off, `read_ring`, open calls | `FlightRing` |
| `MsptiRingProofs` | events read are intact and complete, open calls are open, proved | `MsptiRing`, `FlightRingProofs` |
| `Watchdog` | the loop and its snapshots against processes | |
| `WatchdogProofs` | all safety properties of `Watchdog`, proved | `Watchdog`, TLAPS |
| `MsptiCollector` | library, worker thread, control file, buffer pool, msPTI | |
| `MsptiCollectorProofs` | all safety properties of `MsptiCollector`, proved | `MsptiCollector`, TLAPS |
| `MsptiCapture` | start, stop, flush thread, writer thread, queue, callbacks | `CaptureLog` |
| `MsptiCaptureProofs` | all safety properties of `MsptiCapture`, the log implemented, proved | `MsptiCapture`, TLAPS |
| `CaptureLog` | the abstract promise: an ordered log that counts what it refuses | |
| `AnalyzerReport` | the analyzer's other conclusions as operators on the ranks' events | |
| `Job` | hosts that log and submit, devices that run streams in order | `AnalyzerReport` |
| `FourCard` | the workers' programs, the watchdog's snapshots, and `run`, the report judged | `Job` |
| `FourCardProofs` | types, the search for cycles, cycles are deadlocks, deadlocks are reported, proved | `FourCard`, TLAPS |
| `VerdictProofs` | the example's verdict is right, proved | `FourCardProofs` |
| `MCCheckpoint`, `MCFlightRing`, `MCMsptiRing`, `MCFourCard` | constants, symmetry and programs for TLC | |

Definitions whose comment begins with "Mutant" are altered forms of the one that
follows: each property was seen to fail when its mutant takes that place. They
are in no next-state relation.

### Checkpoint

One action per atomic operation. `submit` is `SubmitCall` (cursor fetch-add),
`ProbeMiss`/`ProbeHit` (one compare-and-swap each), then `RecordOk`/`RecordFails`
(`backend.record`), `LogSubmitted`, `Publish` (the release store of PENDING), or
`PoolFull`. `poll` is `PollBegin`, `Skip`/`Claim`, one of
`QueryReady`/`QueryNotReady`/`QueryFails`, the log record, `Release`/`Requeue`,
`PollEnd`. The background loop, start (which may fail), stop, join and destroy are
actions of one control thread. A slot's plain fields are filled in by `ProbeHit`,
because no other thread reads them while the slot is RESERVED, which is what
`ExclusiveSlot` says. `flight_record` is one atomic append to `log`; `FlightRing`
looks inside. A token stands for (`submitted_seq`, `checkpoint_id`).
`device` is external: streams run in order, `DeviceComplete` may never come.

Assumed of the client, as the code and its header ask: streams are registered
before traffic; one control thread; no submit or poll of the client in flight
when `destroy` is called. Argument validation changes no state and is left out.

### FlightRing and MsptiRing

A slot is its `seq` and two groups of plain fields. A call claims, stores 0 into
`seq` and the fields, publishes, and stores `last_ns` from the slot. With
`InOrder = FALSE` the stores of one call become visible in any order before the
publication: a release store of 0 does not hold back the stores after it. The
history variable `raced` collects records whose calls wrote one slot at the same
time (two calls `Capacity` apart, one of them delayed for a whole round of the
ring), for which the code promises nothing; `touched` the slots some call could
write since the reader took the header. `read_events` copies the whole file after
the header and filters by `seq`; `read_ring` looks at `seq` before and after it
copies a slot. In `MsptiRing` a claim is made by a callback that enters a call or
leaves the thread's innermost one (`Callback`); `call` says what was written with
each `seq`, and `inside` which calls a thread is in. The collector switches its callback
domains off and on while the process runs (`set_enabled_locked`), so a thread may also
enter or leave a call without a record (`Unrecorded`). A call that returns then is listed
as open by `report`, and so may be those around it: `OpenCallsAreOpen` compares the calls
that `report` finds open with those that really were (`atHeader`) as far as every
callback of the thread since the call's enter has left a record, whatever was missing
before it.

### Watchdog

The stages of a file are what `read_header` finds in the middle of `flight_init`:
no file, unreadable, valid with pid still 0, `last_ns` still 0, ready. The order of
the plain stores is not promised. Of a timestamp only "older than `--timeout`"
matters; `Age` may happen at any step, and `TakeNow` may find anything old that was
fresh when it was read. `StoreLastNs` is separate from `Record`, and may store a
time older than the one that is there. A snapshot is taken file by file. Side
files (`/proc`, logs, npu-smi) are left out; `Die` is any unguarded error or the
user's interrupt.

### MsptiCollector

Each subscription, switch and flush is a step that may fail; a caller (the application's
thread or the worker) takes the result. `SwitchOk` is one of the five domains and activity
kinds, in their order, `gates` the switches that are on. A buffer holds one activity.
`buffer_request` looks at one buffer per step (`RequestOn`, `RequestHit`), so it may miss
(`RequestMiss`) although a buffer behind it is free again. A flush returns when the
buffers that were out at the call have come back, which msPTI need not ever do, or fails:
that of `hang_mspti_flush` with a status record, those of `set_enabled_locked` and
`hang_mspti_stop` (146, 216) with nothing, because their results are not looked at
(`FlushEnds`, `FlushedFirst`, `StopFlushed`). Assumed of msPTI: it has one request under
way at a time, and the call that switches the last kind off returns after it has ended.
`unflushed` is a history variable: the flush of `stop` has failed with a buffer out.
`ring` is the count of activity records, the count of dropped buffers, the last status and
whether any status was an error. The file exists after a start that got past mmap, so a
second start fails, as O_EXCL makes it. msptiUnsubscribe changes nothing the model has and
has no failure of its own.

### MsptiCapture and CaptureLog

One action per call of the flush thread that may block, fail or be seen by others:
`Look` (the enable file and the early return of `_set_monitor_active`),
`StartKernel`, `StartComm`, `RollBack`, `StopKernel`, `StopComm`, `Mark`, `FlushAll`,
`Tick`, `Wait`; of the writer: `Open`, `Get` (the loop's condition, one record or an
empty queue), `Sync`; of the application: `Start`, `Stop` and its two joins, each of
which may time out. A record is the monitor it comes from, "on" or "off" of a
`capture_state`, or a tick; ticks are periodic and are left out of the file and of the
count of dropped records, but take their place in the queue. Each call of a monitor
fails in two ways, as the code tells them apart: by a result that is not success, which
is noted or rolled back, or by an exception (`Raise`), which leaves
`_set_monitor_active` where it is. So an exception of the second `start` skips the rollback
and leaves the first monitor on, and one of a `stop` leaves the other monitor, and perhaps
the flag, as they were. `stuck`, a history variable, says that this has happened since the
last switch that went through. Assumed of msPTI: a
monitor's `stop` delivers what the monitor has before it returns success; a stop
that fails or raises leaves the monitor as it was. `CaptureLog` counts what it is offered,
so that a record it neither accepts nor counts as lost is no step of it. It is refined with
the offered records being what the monitors have delivered and the transitions, the
accepted ones the file, the record a dying writer held, and the queue.

### AnalyzerReport, Job and FourCard

`AnalyzerReport` is pure: what `analyze` makes of the events of the ranks, whose
indices are their seqs. The recursion of `find_cycles` is a stack here: a state of the
search has the calls of `visit` under way, what the loop of each has yet to look at, the
visited nodes and the cycles, and a turn follows an edge, returns, or enters the next
node. Neighbours are taken in an arbitrary but fixed order; the list of cycles is a set.
`Job` gives the events a meaning to judge them by. It is external except for what
the worker's program and the recorder do: a stream runs its operations in order, a
wait holds its stream until the event is recorded, a collective completes when every
rank's stream has come to it, a host waits in a synchronization. A program is a
sequence of steps, and `log` and `queue` have what the host has logged and submitted.
What the programs are assumed to keep (`IsProgram`, an ASSUME that TLC evaluates on those
it runs) is what the worker does: an event record or wait is submitted, then logged
at once, and a stream for collectives has no event calls.
`FourCard` has the worker's program for each rank, `run`, and the watchdog's snapshots
(`watchdog.py` 51-84 and 112-122) as they meet it; `Watchdog` has the loop that takes them.
Without a clock any worker may have logged nothing for `--timeout` at any moment, so a
stalled snapshot may begin at any (`BeginStalled`), before START is seen or while the other
workers move, and an exit snapshot after the kill (`BeginExit`). The rings are copied one
after the other while the workers go on (`Copy`), or skipped, and the directory then gets
its name (`Publish`). `pathlib`'s `glob` and `rglob` find hidden names, too: the wait at 240
already ends at the `.partial` directory, and the report at 267 is made of its files if the
watchdog is killed in the middle. Of the copies of a rank `files` keeps the one that the
analyzer takes (`Latest`). The kill of the workers is one step. Jobs other than the
example's run without `run`, for the properties of cycles.

## 3. Runs

Every run's next-state relation is fully fired by the passing runs together.

| Run | Instance | Question | Answer |
|---|---|---|---|
| `checkpoint_reuse` | 1 slot, 2 submitters, 2 pollers, 3 submits, 2 failures | exclusive slots, kept events, final destroy, confirmations are facts, statuses once, implements the ledger | holds |
| `checkpoint_watermark` | 2 slots, one submitter for the stream, 2 pollers, 1 failure | the reported watermark, honest POOL_FULL | holds |
| `checkpoint_progress` | 2 streams of 1 slot, budget 1, fairness | confirmation despite a hung stream, stop returns | holds |
| `shared_stream_watermark` | 2 submitters on one stream | the same watermark | violated |
| `ring_live_reader` | 2 writers, 2 slots, 3 records, any store order, crash | finished records survive, quiet slots are read exactly | holds |
| `mspti_ring_reader` | 2 writers with nested calls, callbacks of one switched off, 3 slots, 4 records, stores in order, crash | `read_ring` returns intact records, and all quiet ones; open calls are open | holds |
| `torn_read` | 2 writers, stores in order | `read_events` accepts intact records only | violated |
| `watchdog_capture` | 2 processes, one of them early and monitored, 1 record each, fairness | capture of stalls and exits | holds |
| `watchdog_missed_exit` | 1 monitored process | the exit snapshot at the end of the loop | violated |
| `mspti_toggle` | 2 buffers, 3 switches, 3 toggles, 2 failures, 4 activities, fairness | accounting, agreement, status, following the file | holds |
| `mspti_capture` | queue of 2, 1 activity, 1 toggle, 1 failure by result or exception, fairness | honest summary, monitors agree, implements the log, durability, following the file | holds |
| `four_card_jobs` | the example with 2 ranks and a watchdog, 2 stalled snapshots; every program of 5 event calls on 2 streams and 2 events | the verdict is right, cycles are deadlocks, deadlocks are reported | holds |

The bounds, and why they are enough:

- Two submitters and two pollers are every pair of threads that can meet at a slot;
  the flag admits one poller, so a third adds no new meeting. Three submits on one
  slot fill it and use one event three times, so that a late answer could meet the
  use after the next one; three on two slots also move the cursor past the end.
  What the proofs cover holds for every size.
- `CursorMod` stands for 2^32. It matters only modulo the pool size, and 2 divides the
  pool sizes of the runs as 2^32 does; other sizes are treated below.
- `Budget = 1` is less than the pool, so a poll never sees all of it.
- Faults: one or two, at any backend call, thread creation, msPTI call or file call.
- Capacity 2 is the smallest the code takes, and three records overwrite the first slot
  under a reader; with three slots and four records `read_ring` finds a window with old,
  new and overwritten records, and a call's exit can outlive its enter. Calls are up to
  `MaxDepth` (2) inside one another. `Gaps` says which threads may have unrecorded callbacks
  at which values of `write_seq`; here one thread, any number of them after the first
  record, so that a returned call stays listed under the records that follow.
- Two watchdog processes make one round judge one header while the snapshot of
  another is written; one record lets a process stall, move on and stall again.
- Two buffers and four activities exhaust the pool and refill it; three toggles are
  on, off, on (or off, on, off) with a failure before, in and after each; three of the five
  switches have a first, a middle and a last one. Failures are of any switch and any
  flush, the two unreported ones included; a request can miss a buffer freed behind it.
- In the capture the control starts on or off; one toggle and the final stop give two
  switches in a row, which with ticks and an activity overfill a queue of two when the
  writer is slow. One failure leaves a monitor on by each of the ways the code has but
  one: a rollback that fails needs the failed start before it. The safety properties were
  therefore also checked with two failures, which with liveness takes too long for a run;
  the proofs have any number.
- Two ranks are one that is missing and one that enters; more ranks and any number of
  snapshots are the proof's. `SlowCalls` are the steps at which a worker may take
  `--timeout`: the first collective, whose call may block, and whatever waits. `MaxDumps` is
  two snapshots, an early one and a late one, each of which copies the two rings at
  different moments. Five calls on two streams
  and two events are enough for the smallest deadlock of two streams (two waits, two
  records) with one call before, between or after, a reused event and a hand-over
  back and forth.

Symmetry is used over the writers in the runs of `MCFlightRing`, which check
invariants only. Deadlock is not checked: in every model the clients may
stop calling, the device may hang and the programs end.

### Fairness

- `Checkpoint`: weak fairness of each thread inside a call, of the background
  thread's loop and of the join: the operating system runs threads. None for the
  device, for new submits or for business threads to poll.
- `Watchdog`: weak fairness of its steps (its system calls return) and of `Age`
  (time passes). None for processes to record or exit.
- `MsptiCollector`: weak fairness of the library, of the worker, of the main thread inside
  a call, and of the two buffer callbacks, one step of a request at a time. None for msPTI
  to hand a buffer back, for toggles or for a stop; `FollowsControl` therefore asks that
  flushes return.
- `MsptiCapture`: weak fairness of the flush thread's steps except `FlushAll`, which is
  a call into msPTI that may block; of the writer; of its deadline (time passes); and of
  the callbacks (msPTI delivers what it holds). None for the operator or the
  application. `FollowsControl` asks that `flush_all` does not block for ever, and speaks of
  the monitors themselves, but for a monitor that has been left on or off as described above
  (`stuck`): the loop believes `monitor_active` and does not try again.

In all of these failures are finite in number, so that a thread that retries succeeds in
the end; it is a bound of the instance, and what the liveness properties assume.

### What the violations show

- `shared_stream_watermark`: two threads put their events on the device in one order
  and their SUBMITTED records into the log in the other; the watermark then covers a
  checkpoint the device has not passed. With one submitting thread per stream the
  property holds (`checkpoint_watermark`).
- `torn_read`: `read_events` looks at a slot's `seq` only in its copy, so a record
  overwritten during the copy is accepted torn.
- `watchdog_missed_exit`: a process that exits after it was judged alive and before
  the test of all pids ends the loop without an exit snapshot.

### Seen while modelling, in no run

- `start + n` wraps at 2^32 before it is reduced modulo the pool size
  (`flight_checkpoint.cpp` 89): for sizes that do not divide 2^32 the submit at the wrap
  can miss a free slot and report POOL_FULL. With `CursorMod` 4 and 3 slots
  `PoolFullHonest` fails.
- A header read between `magic` and `pid` gives a stall of pid 0; one with
  `last_ns` 0 gives a stall of a process that has just started
  (`flight_recorder.cpp` 68-77, `watchdog.py` 115).
- `last_ns` can go backwards (`flight_recorder.cpp` 99), so a process that records
  can be reported as stalled.
- On a machine that reorders the store of 0 with later plain stores, `read_ring` too
  can return a torn event; `ReadIsIntact` is stated for stores in program order.
- A start that fails after some switches leaves them on; the ring is unmapped, the
  file exists, and no later start succeeds (`hang_mspti.cpp` 194-198).
- A start on the application's thread that fails raises and writes no `.error`
  file (`hang_mspti.py` 36-40; compare `MSPTI_FLIGHT_RECORDER.md` 46).
- The flushes at `hang_mspti.cpp` 146 and 216 may fail without a status record. If that of
  `stop` does with a buffer out, the file is unmapped and the buffer's records are lost
  with nothing in the file that tells of it; `KeptAcrossStop` is stated without this case,
  whereas a failed flush of an earlier disable loses nothing.
- A call that returns while the domains are off stays listed as open by `report`, with
  those around it (`mspti_ring.py` 61-71; the warning at 96-97 is of a wrapped ring only).
- An error other than a missing control file ends the worker thread with the
  collection left as it is (`hang_mspti.py` 75-79).
- Capture: the last batch before the end may not be fsynced (`python/README.md` 50
  admits a short tail). If the join of the writer times out, the summary is taken while
  it still writes and can look clean. If the flush thread cannot be started, `stop`
  raises and the writer runs on. The result of the stop in a rollback is not looked at.
  An exception of the second monitor's start (141) is not rolled back: the kernel monitor
  stays on with `monitor_active` False until a later start goes through. One of a stop (149)
  leaves the other monitor and the flag as they were; a stop that only reports failure
  clears the flag (152) with the monitor on, and is not tried again.
  A monitor whose stop failed may deliver after the writer has ended.
  `dropped += 1` is made by several threads; the model takes it as atomic.
- Example: a stalled snapshot begun before the hang, or one that is still being written in
  its hidden directory, ends the wait at `four_card_hccl_hang.py` 240, and the workers may
  be killed before DEVICE_SYNC_BEGIN is in a copy, so that the assertions fail;
  `VerdictIsRight` says it fails only then. It may also pass with the missing rank not yet
  at its gate but at the KV_BEGIN before it: the report's last host event can be the
  KV_BEGIN of the first step. A rank whose HCCL_BEGIN was overwritten in its ring would be
  reported as missing.
- `event_producers` keeps the last record of an event id (`analyzer.py` 174), so
  an id that is reused can give a cycle where there is none; `CyclesAreDeadlocks` is
  stated for events that are recorded once. `DeadlocksAreReported` needs no such condition.

## 4. Proofs

Every theorem holds for all values of the constants that satisfy the ASSUMEs of its
component (sizes positive, the background thread none of the callers, the missing rank
one of the ranks, and the like);
the bounds on calls, faults, switches and records are arbitrary numbers. Three
theorems have a hypothesis of their own, stated with them below. In each component
the properties that the runs check are not inductive; what follows names what has
to be added, and why.

### The checkpoint manager

`CheckpointProofs`:

- `TypeCorrect == Spec => []TypeOK`. `TypeOK` is inductive. Small lemmas say what each
  update does to one record (a slot, a submitter's locals, a poller's); `TypeNext`
  has one step per action.
- `Exclusive == Spec => []ExclusiveSlot`. Inductive together with `TypeOK`: the
  property names the state, token and generation of an owned slot, which is what
  makes the next compare-and-swap fail for everybody else. `OwnersKept` covers
  steps that move no ownership; the remaining steps are those that take a slot
  (`ProbeHit`, `Claim`) or give it back (`RecordFails`, `Publish`, `Release`,
  `Requeue`).
- `EventKept == Spec => []EventKeptWhilePending` and
  `DestroyFinal == Spec => []DestroyIsFinal`, both from `ManagerInv`. `OnePoller`: the
  flag is set exactly while one poller is inside `poll`. `ThreadInv`: where the
  background thread may be while it is running, told to stop and joined; without it
  nothing says that no poll is under way after the join. `QuietUnlessReady`: nothing is
  in flight before registration ends or after destroy. `EventObjects`: which event
  objects exist. `PendingEvents` ties every event at the device to the slot and token
  it was recorded for; it excludes the submitter that has not recorded yet and the
  poller that has seen the event complete, which are the two steps at which the slot's
  state alone does not tell.

And about the log:

- `ConfirmedIsFact == Spec => []ConfirmationIsFact` and
  `StatusOnce == Spec => []StatusOncePerUse`, both from `FactInv`. `TokensOnce`: a token
  is one call's or one slot's. `LogBounds`: what a call under way may have in the log.
  `UseRecords`: which records the current use of a slot has in each of its states, the
  two windows included in which a record is written and the state not yet stored.
  `Marks`: a slot's `reported_not_ready` and `reported_query_error` generations say
  exactly whether this use has that record; it is why a slot that is requeued and
  claimed again does not report twice. `Facts`: every confirmation, of whatever
  generation, is of a token that has left the device.

And about what a client and the reader of the log rely on:

- `LedgerImplemented == Spec => ImplementsLedger`: initial states map to initial states
  and each step of the manager to a step of `CheckpointLedger` or to a stutter. It needs
  the invariants above and three more: what is accepted and not reported has a slot of its
  stream (`AcceptedHasSlot`), the event on the device is that of a call that has logged it
  or is about to (`EventRecorded`), and therefore the ledger always has room for a call
  that holds a slot (`RoomLeft`).
- `WatermarkIsSound == OneFeeder => (Spec => []WatermarkSound)`, for every suffix of the
  log. `OneFeeder` says that no two threads submit to one stream; without it the
  property is false, which is the run `shared_stream_watermark`. `LogIsOrder`: as long as
  an earlier submit of a stream is on the device, so is a later one, behind it.
  `NewestLast` carries this through the window between `backend.record` and the log
  record.
- `RefusalIsHonest == OneFeeder /\ CursorMod % SlotsPerStream = 0 => (Spec =>
  []PoolFullHonest)`. `OpenSlots`: the slots of the stream that were free at the call are
  still free and not probed yet; since n probes visit all n slots (`ProbesVisitAll`) none
  is left when POOL_FULL is logged. The second hypothesis is the wrap of the cursor,
  which is a real exception of the code (end of section 3); with two submitters of one
  stream, a slot that was free at the call can be taken by the other before it is probed.

### The rings

`FlightRingProofs`, for every capacity of at least 2, number of writers and order of
stores:

- `TypeCorrect == Spec => []TypeOK`, with `Claimed` (a call's seq has been claimed, and
  by one call in flight only), without which a store might leave the slots.
- `FinishedRetained == Spec => []FinishedIsRetained`. Two seqs of one slot are a whole
  number of capacities apart (`SameRemainder`), so a window has one record per slot
  (`OnePerSlot`). The invariant adds that calls meeting in a slot are raced
  (`MeetingsAreRaced`), that a call late for its slot races the newer record
  (`LateCallsAreRaced`), and that what a call alone in its slot has stored is still there
  (`StoresStay`); the last makes the record complete at `Publish`.
- `QuietRead == Spec => []QuietSlotsAreRead`, with `QuietInv`: while the copy is made every
  call writes to touched slots only, every claim since the header has touched its slot,
  and what is copied of another slot is what was there.

`MsptiRingProofs`, for the same writers under `read_ring`:

- `ReadIntact == RingSpec => []ReadIsIntact` and `ReadComplete == RingSpec =>
  []ReadIsComplete`, from `ReadInv`. The argument for the two looks at `seq`: a seq in a
  slot is that of a call that has published it (`Published`); a call that has cleared its
  slot finds no seq there but a raced one (`ClearedStays`); hence a seq vouches for the
  slot's other fields (`SeqVouches`), and what was copied is of the record as long as the
  slot still shows its seq (`CopyVouched`): the second look decides exactly that. `Passed`
  says that what the loop has gone by and nobody could overwrite is among the events.
- `OpenCallsOpen == RingSpec => []OpenCallsAreOpen`. `Follows` is the stack of calls that
  all the records give, `Pending` (what `report` finds open) the one with gaps where records
  were overwritten. `NestInv`: from the first enter after a thread's last unrecorded callback
  on, the calls it is in are what the first stack says (`Mirrors`), now and when the header
  was read. `SameAbove` compares two such stacks from an
  enter on that is in both records: they stay equal above it whatever is below, by induction over
  the later records, since an exit removes from the common part or, when that is empty,
  from what is below in either (`GrowAlike`, `ShrinkAlike`). `ReadComplete` supplies that
  the later records of the thread are all there.

### Watchdog

`WatchdogProofs`, for any number of processes, of which any are early or monitored:
`WatchdogTypes`, `ExitIsFinal == Spec => []ExitDumpIsFinal`, `Captured == Spec =>
[]CapturedOnce` and the action property `DumpsComplete == Spec => DumpsAreComplete`, from
`WatchInv`. `HeadersInv`: a header that is judged is of a file that has not gone back
since. `SnapshotInv` and `CopiesInv` carry the judged process, its seq and what has been
copied through the file by file snapshot, in which processes go on; a dead process's
file is final when the judgement is made, so its copy is too. `DumpsComplete` is about the
moment at which a directory gets its final name. `SeenInv`: whatever is in a
snapshot, or is about to be, is in `seen_stalls` or `seen_exit`.

### msPTI collector

`MsptiCollectorProofs`, for any number of buffers, switches and activities:
`CollectorTypes`, `OneHolder == Spec => []BufferHasOneHolder`, `Accounted == Spec =>
[]AccountedFor`, `Mirrors == Spec => []MirrorsLibrary`, `Reported == Spec =>
[]SwitchesAsReported` and `KeptOnStop == Spec => []KeptAcrossStop`, from `CollectorInv`.
`Counts`: activities are counted from the time the file exists. `Callers` and `Progress`:
who is inside the library, and what it has done at each of its msPTI calls, of which any
may fail; `Copies`: what the worker believes at each of them, before it has the result.
`Gates` says how far an interrupted sequence of switches has come, `Settled` that the last
status in the file is the library's own. `Off`, which needs no absence of errors: whatever
has failed, a library that is mapped and not enabled has no switch on but in the middle of
an enable, and a buffer is looked for only while the last switch is on. `Kept`: once a stop
has found collection disabled, nothing more completes, so that the buffers still outside are
all there is to wait for; a flush that fails in an earlier disable leaves buffers outside,
and they are waited for here. What `KeptOnStop` leaves out is the failure of this last flush.

### Python capture

`MsptiCaptureProofs`, for every size of the queue: `CaptureTypes`, `Agree == Spec =>
[]MonitorsAgree`, `CleanSummary == Spec => []CleanSummaryIsTrue`, and the refinement
`CaptureImplementsLog == Spec => ImplementsLog`, from `CaptureInv`. `FlushInv`: what each
step of a switch has decided. `MonitorInv`: which monitors are on at each of them (`Fit`),
unless a stop has failed or the second start has raised since the last switch that went
through, and a monitor that is off holds nothing. `ErrorInv`: which failures are in
`last_error`. `Counted`: every activity is in the file, in the queue or with its monitor,
unless something was lost. `Parity` and `MarksInOrder`: the marks in file and queue, taken
together, alternate from "on", and one transition is missing exactly between the switch
and its mark. In the refinement each step that delivers a record or makes a mark moves
what is offered by one (`OfferedMore`) and so must accept it or count it; no other step
does (`OfferedSame`). `EndInv`: the writer ends after the flush thread has and with an
empty queue, which makes a summary taken after it final.

`Only` (the records of a kind in a sequence) is a recursive function, and so are the stacks
of `MsptiRing`. That such a function is what its definition says for each length, and what
it gives for a longer or a shorter sequence, is proved by induction over the length. The
library's induction theorems take an operator; `Induction` states the same for a set of
numbers, proved from the well-foundedness of `<` on the naturals.

### The analyzer's cycles

`FourCardProofs`, for any ranks, streams and programs: `JobTypes == Spec => []TypeOK`,
`CyclesDeadlock == Spec => []CyclesAreDeadlocks` and `DeadlocksReported == Spec =>
[]DeadlocksAreReported`. They join a result about the search and one about the job.

- The search, for every finite graph. `SearchInv`: the stack is a path, each cycle found
  is closed (each of its nodes has an edge into it), and as long as none is found the
  visited nodes lead to visited nodes only and hold no closed set. Each turn makes a
  finite set smaller (`Remaining`: edges not looked at, nodes not entered, nodes not
  returned from), so the turns that `FindCycles` allows are enough (`TurnsSuffice`,
  `SearchEnds`). Hence `SearchIsSound` and `SearchIsComplete`: a cycle is reported if and only if
  there is a closed set of operations.
- The job. `JobInv` has `Queued` and `LastQueued` (a queue holds what the host has
  submitted), `Counted`, `Placed` and `Found` (the logged events of a stream are those of
  its queue, in order, but for one that is submitted and not logged yet), and
  `WaitsServed`. With it the edges of the graph are an order of the device: a wait comes
  after the record of its event, a record after the waits before it. `NoneHeld`, its main
  part, says that no set of completed operations is such that each comes after another
  of them; it is inductive because the operation that completes last is after one that
  has completed before, and no completed one can be after it. That needs events that are
  recorded once: a wait may complete after either of two records.
- `CyclesDeadlock`: if one operation of a closed set had completed, so would have those
  that it comes after (`CycleHeld`), against `NoneHeld`. `DeadlocksReported`: the waits at
  the heads of the blocked streams, with the last records of their events, are a closed set
  (`DeadlockClosed`); of these the records may be the later of two.

### The example's verdict

`VerdictProofs`, for any ranks, streams and programs beside the workers' own:
`VerdictRight == Spec => []VerdictIsRight`, from `VerdictInv`, which follows the worker's
32 steps. Its parts:

- `Written`: each logged step of a program stands in the line of the log that the number
  of logged steps before it gives (`Line`), so that a position in the log and a position
  in the program are the same knowledge. `Staged`: the jobs that `run` watches are the
  workers' programs.
- `SentOut`: what a worker at a step has submitted to each stream. `Synchronized`: what a
  synchronization has waited for, and that nobody gets past the second collective, since
  the missing rank never submits its own.
- `Taken`, `HangSeen`: each copy of a ring is the log of its worker at some step, another
  one for each rank; the wait has seen the hang before it ends. A rank may have no copy.
  `Judged`: the result is what the assertions say of the report.
- `Snapped`, `Quieted`: once a snapshot has begun of a job that had stalled nothing moves; the
  copies it has made, and in the end all, are of the logs as they are.

Two arguments use it. A job that has stalled holds no worker in its first step or its
first collective (`FirstStepEnds`, `FirstCollectiveEnds`, hence `StalledAt`): what such a
worker waits for can go on. The report of a snapshot taken then is as the example asserts
(`StalledAsserts`), so the example fails only without one. And a report that is as
asserted, of copies of whatever different moments, can only be of workers that stand where
the hang holds them (`AssertedAt`): the missing rank at its gate or at the record before it,
the others in the second synchronization.

### Only model-checked

Only liveness, with the fairness behind it: `PassedIsConfirmed`, `StopReturns`,
`StallCaptured`, `ExitCaptured`, `PeriodicallyDurable` and the two `FollowsControl`. They
are out of the prover's reach.

## 5. Not modelled

- The communicator filter, the collective type mismatch, the warning on checkpoint
  coverage and the text and trace output of the analyzer.
- `flight_close` and the library's munmap against a call in flight: undefined
  behaviour with no state to describe; listed as a hazard.
- The counts of `report` in `mspti_ring.py`, and its matching of kernels with calls.
- The example's optional libraries (checkpoints, msPTI, profiler, sampler) and the
  assertions on them.
- `aicpu_sampler.py` and `device_ops.py`: one thread that parses the output of a command
  or CSV files, with no state between samples. The smoke tests and recorded results are
  read as statements about the components.
- Fork: both libraries refuse a process that is not the owner; the documentation
  excludes the automatic path for forked workers.

## 6. Plan

Done, in this order: the checkpoint manager and its log, because every conclusion about
the device rests on it; the rings that carry the log; the watchdog that saves them; the
msPTI collector and the Python capture; the analyzer's cycles and collectives against a
job, and the example that puts them together. Every safety property that a passing run checks
is proved. Next:

1. A composition of `Watchdog` snapshots of a ring that holds checkpoint records with
   `CheckpointReport`, if it stays small: what the analyzer says of a copy that was
   taken while the manager was moving.
2. Runs: bounds as now; a new run takes the place of one that it contains, so that
   each keeps a question of its own.

