----------------------------- MODULE Checkpoint -----------------------------
(***************************************************************************)
(* The device-checkpoint manager of src/src/flight_checkpoint.cpp: a pool  *)
(* of reusable device events per stream, lock-free submitters, pollers     *)
(* that exclude each other with a test-and-set flag, an optional           *)
(* background polling thread, and the control operations register, start,  *)
(* stop and destroy.  The device runs each stream in order and is external *)
(* code, modelled by what the manager's backend callbacks observe of it.   *)
(*                                                                         *)
(* A call of flight_record is one atomic append to log; FlightRing models  *)
(* what happens inside that call.                                          *)
(***************************************************************************)
EXTENDS Integers, FiniteSets

CONSTANTS
    NumStreams,      \* streams the client registers
    SlotsPerStream,  \* the pool size given to flight_checkpoint_create
    CursorMod,       \* 2^32, scaled down: where the submit cursor wraps
    Budget,          \* the budget argument of flight_checkpoint_poll
    Submitters,      \* threads that call flight_checkpoint_submit
    Feeds,           \* Feeds[t]: the streams thread t submits to
    Callers,         \* business threads that call flight_checkpoint_poll
    Poller,          \* the background thread
    MaxCalls,        \* bound: submit calls
    MaxFaults        \* bound: backend errors and thread-creation failures

Streams == 0..(NumStreams - 1)
Indices == 0..(SlotsPerStream - 1)
SlotId  == Streams \X Indices
Pollers == Callers \cup {Poller}

ASSUME SizesAssumption ==
    /\ NumStreams \in Nat \ {0}
    /\ SlotsPerStream \in Nat \ {0}      \* flight_checkpoint.cpp:52
    /\ CursorMod \in Nat \ {0}
    /\ Budget \in Nat \ {0}              \* flight_checkpoint.cpp:116
    /\ MaxCalls \in Nat
    /\ MaxFaults \in Nat
ASSUME FeedsAssumption == Feeds \in [Submitters -> SUBSET Streams]
ASSUME PollerAssumption == Poller \notin Callers

SlotStates == {"FREE", "RESERVED", "PENDING", "QUERYING"}

\* The records of this part of the code.  A token stands for the pair
\* (submitted_seq, checkpoint_id), which the client uses once.
Kinds == {"SUBMITTED", "POOL_FULL", "NOT_READY", "QUERY_ERROR", "CONFIRMED"}
LogRecord == [seq : Nat, kind : Kinds, stream : Streams, tok : Nat, gen : Nat]

VARIABLES
    slot,        \* the pool: state, generation, token, the two reported_generation
    cursor,      \* cursor[s]: where the next submit on s starts to probe
    nstreams,    \* registered streams are 0..nstreams-1
    created,     \* slots of the stream being registered whose event exists
    events,      \* device events of registered streams, not destroyed
    alive,       \* the manager has not been deleted
    polling,     \* the atomic_flag that admits one poller
    pollCursor,  \* poll_cursor, modulo the number of slots
    running,     \* poller_running
    stop,        \* stop_poller
    thread,      \* where the background thread is in its loop; absent: not joinable
    ctl,         \* the control thread: free, or inside join
    sub,         \* locals of the submitters
    pol,         \* locals of the pollers
    device,      \* external: recorded events the device has not passed
    npos,        \* external: position of the last event recorded
    log,         \* what flight_record wrote
    nrec,        \* its write_seq
    ncalls, faults

poolVars    == <<slot, cursor>>
setupVars   == <<nstreams, created, events, alive>>
threadVars  == <<running, stop, thread, ctl>>
pollVars    == <<polling, pollCursor, pol>>
deviceVars  == <<device, npos>>
logVars     == <<log, nrec>>
boundVars   == <<ncalls, faults>>
\* What the steps of submit, of poll and of the control operations leave alone.
submitFrame  == <<setupVars, threadVars, pollVars>>
pollFrame    == <<cursor, setupVars, threadVars, polling, pollCursor, sub,
                  deviceVars, ncalls>>
controlFrame == <<poolVars, pollVars, sub, deviceVars, logVars, ncalls>>

vars == <<poolVars, setupVars, threadVars, pollVars, sub, deviceVars, logVars,
          boundVars>>

-----------------------------------------------------------------------------
Total == NumStreams * SlotsPerStream
Flat(x) == x[1] * SlotsPerStream + x[2]
Registered == {x \in SlotId : x[1] < nstreams}

\* slots[(start+n) % slots_per_stream], where start+n is a uint32_t.
ProbeIndex(start, n) == ((start + n) % CursorMod) % SlotsPerStream

FreeIndices(s) == {i \in Indices : slot[<<s, i>>].state = "FREE"}

SubSlot(t) == <<sub[t].stream, sub[t].idx>>

\* An event the device has not passed yet: its query returns 0.
OnDevice(x) == \E e \in device : e.stream = x[1] /\ e.idx = x[2]
TokenOnDevice(k) == \E e \in device : e.tok = k

Append2Log(kind, s, k, g) ==
    /\ nrec' = nrec + 1
    /\ log' = log \cup {[seq |-> nrec + 1, kind |-> kind, stream |-> s,
                         tok |-> k, gen |-> g]}

IdleSub == [pc |-> "idle", stream |-> 0, tok |-> 0, start |-> 0, n |-> 0,
            idx |-> 0, open |-> {}]
IdlePol == [pc |-> "idle", start |-> 0, off |-> 0, chk |-> 0,
            at |-> <<0, 0>>, gen |-> 0]

Init ==
    /\ slot = [x \in SlotId |-> [state |-> "FREE", gen |-> 0, tok |-> 0,
                                 nr |-> 0, qe |-> 0]]
    /\ cursor = [s \in Streams |-> 0]
    /\ nstreams = 0 /\ created = 0 /\ events = {} /\ alive = TRUE
    /\ polling = FALSE /\ pollCursor = 0
    /\ running = FALSE /\ stop = FALSE /\ thread = "absent" /\ ctl = "free"
    /\ sub = [t \in Submitters |-> IdleSub]
    /\ pol = [p \in Pollers |-> IdlePol]
    /\ device = {} /\ npos = 0
    /\ log = {} /\ nrec = 0
    /\ ncalls = 0 /\ faults = 0

Fault == faults < MaxFaults /\ faults' = faults + 1

-----------------------------------------------------------------------------
(* flight_checkpoint_register_stream.  "Streams are registered before      *)
(* traffic and never removed" (flight_checkpoint.cpp:44): the client        *)
(* registers all of them before its first submit, poll or start_poller.    *)

Registering == alive /\ nstreams < NumStreams
Ready == alive /\ nstreams = NumStreams

CreateEvent ==
    /\ Registering
    /\ created + 1 < SlotsPerStream
    /\ created' = created + 1
    /\ UNCHANGED <<controlFrame, threadVars, nstreams, events, alive, faults>>

\* The last event of the pool: the stream becomes visible.
RegisterStream ==
    /\ Registering
    /\ created + 1 = SlotsPerStream
    /\ created' = 0
    /\ nstreams' = nstreams + 1
    /\ events' = events \cup {x \in SlotId : x[1] = nstreams}
    /\ UNCHANGED <<controlFrame, threadVars, alive, faults>>

\* backend.create fails: the events made so far are destroyed again.
CreateEventFails ==
    /\ Registering
    /\ Fault
    /\ created' = 0
    /\ UNCHANGED <<controlFrame, threadVars, nstreams, events, alive>>

-----------------------------------------------------------------------------
(* flight_checkpoint_submit                                                *)

\* Mutant: the probe loop starts at 1 and skips the slot under the cursor.
SubmitCallSkips(t, s) ==
    /\ Ready /\ sub[t].pc = "idle" /\ s \in Feeds[t] /\ ncalls < MaxCalls
    /\ ncalls' = ncalls + 1
    /\ cursor' = [cursor EXCEPT ![s] = IF @ + 1 = CursorMod THEN 0 ELSE @ + 1]
    /\ sub' = [sub EXCEPT ![t] =
                  [IdleSub EXCEPT !.pc = "probe", !.stream = s, !.n = 1,
                   !.tok = ncalls + 1, !.start = cursor[s], !.open = FreeIndices(s)]]
    /\ UNCHANGED <<submitFrame, deviceVars, logVars, slot, faults>>

SubmitCall(t, s) ==
    /\ Ready
    /\ sub[t].pc = "idle"
    /\ s \in Feeds[t]
    /\ ncalls < MaxCalls
    /\ ncalls' = ncalls + 1
    /\ cursor' = [cursor EXCEPT ![s] = IF @ + 1 = CursorMod THEN 0 ELSE @ + 1]
    /\ sub' = [sub EXCEPT ![t] =
                  [pc |-> "probe", stream |-> s, tok |-> ncalls + 1,
                   start |-> cursor[s], n |-> 0, idx |-> 0,
                   open |-> FreeIndices(s)]]
    /\ UNCHANGED <<submitFrame, deviceVars, logVars, slot, faults>>

\* Mutant: the loop bound is n <= slots_per_stream.
ProbeMissOneMore(t) ==
    /\ sub[t].pc = "probe" /\ sub[t].n =< SlotsPerStream
    /\ slot[<<sub[t].stream, ProbeIndex(sub[t].start, sub[t].n)>>].state # "FREE"
    /\ sub' = [sub EXCEPT ![t].n = @ + 1]
    /\ UNCHANGED <<submitFrame, poolVars, deviceVars, logVars, boundVars>>

\* The compare-and-swap fails: try the next slot.
ProbeMiss(t) ==
    /\ sub[t].pc = "probe" /\ sub[t].n < SlotsPerStream
    /\ \E i \in Indices :
          /\ i = ProbeIndex(sub[t].start, sub[t].n)
          /\ slot[<<sub[t].stream, i>>].state # "FREE"
    /\ sub' = [sub EXCEPT ![t].n = @ + 1]
    /\ UNCHANGED <<submitFrame, poolVars, deviceVars, logVars, boundVars>>

\* The slot for its next use: a new generation and the call's token.
Reserved(r, k) == [state |-> "RESERVED", gen |-> r.gen + 1, tok |-> k,
                   nr |-> r.nr, qe |-> r.qe]

\* Mutants: a slot being queried counts as free; the generation is not renewed.
ProbeHitQuerying(t) ==
    /\ sub[t].pc = "probe" /\ sub[t].n < SlotsPerStream
    /\ \E i \in Indices :
          /\ i = ProbeIndex(sub[t].start, sub[t].n)
          /\ slot[<<sub[t].stream, i>>].state \in {"FREE", "QUERYING"}
          /\ LET x == <<sub[t].stream, i>> IN
                slot' = [slot EXCEPT ![x] = Reserved(slot[x], sub[t].tok)]
          /\ sub' = [sub EXCEPT ![t].pc = "reserved", ![t].idx = i]
    /\ UNCHANGED <<submitFrame, deviceVars, logVars, boundVars, cursor>>
ProbeHitSameGeneration(t) ==
    /\ sub[t].pc = "probe" /\ sub[t].n < SlotsPerStream
    /\ \E i \in Indices :
          /\ i = ProbeIndex(sub[t].start, sub[t].n)
          /\ slot[<<sub[t].stream, i>>].state = "FREE"
          /\ LET x == <<sub[t].stream, i>> IN
                slot' = [slot EXCEPT ![x] =
                            [Reserved(slot[x], sub[t].tok) EXCEPT !.gen = 1]]
          /\ sub' = [sub EXCEPT ![t].pc = "reserved", ![t].idx = i]
    /\ UNCHANGED <<submitFrame, deviceVars, logVars, boundVars, cursor>>

\* FREE becomes RESERVED; nobody else reads the slot's fields while it is
\* RESERVED, so filling them in is part of the step.
ProbeHit(t) ==
    /\ sub[t].pc = "probe" /\ sub[t].n < SlotsPerStream
    /\ \E i \in Indices :
          /\ i = ProbeIndex(sub[t].start, sub[t].n)
          /\ slot[<<sub[t].stream, i>>].state = "FREE"
          /\ LET x == <<sub[t].stream, i>> IN
                slot' = [slot EXCEPT ![x] = Reserved(slot[x], sub[t].tok)]
          /\ sub' = [sub EXCEPT ![t].pc = "reserved", ![t].idx = i]
    /\ UNCHANGED <<submitFrame, deviceVars, logVars, boundVars, cursor>>

\* Every probe failed: record it and return EAGAIN.
PoolFull(t) ==
    /\ sub[t].pc = "probe" /\ sub[t].n = SlotsPerStream
    /\ Append2Log("POOL_FULL", sub[t].stream, sub[t].tok, 0)
    /\ sub' = [sub EXCEPT ![t] = IdleSub]
    /\ UNCHANGED <<submitFrame, poolVars, deviceVars, boundVars>>

\* Mutant: the slot becomes PENDING before its SUBMITTED record is written.
RecordPublishes(t) ==
    /\ sub[t].pc = "reserved"
    /\ npos' = npos + 1
    /\ device' = device \cup {[stream |-> sub[t].stream, idx |-> sub[t].idx,
                               tok |-> sub[t].tok, pos |-> npos + 1]}
    /\ slot' = [slot EXCEPT ![SubSlot(t)].state = "PENDING"]
    /\ sub' = [sub EXCEPT ![t].pc = "recorded"]
    /\ UNCHANGED <<submitFrame, cursor, logVars, boundVars>>

\* backend.record puts the event at the end of the stream.
RecordOk(t) ==
    /\ sub[t].pc = "reserved"
    /\ npos' = npos + 1
    /\ device' = device \cup {[stream |-> sub[t].stream, idx |-> sub[t].idx,
                               tok |-> sub[t].tok, pos |-> npos + 1]}
    /\ sub' = [sub EXCEPT ![t].pc = "recorded"]
    /\ UNCHANGED <<submitFrame, poolVars, logVars, boundVars>>

RecordFails(t) ==
    /\ sub[t].pc = "reserved"
    /\ Fault
    /\ slot' = [slot EXCEPT ![SubSlot(t)].state = "FREE"]
    /\ sub' = [sub EXCEPT ![t] = IdleSub]
    /\ UNCHANGED <<submitFrame, deviceVars, logVars, cursor, ncalls>>

LogSubmitted(t) ==
    /\ sub[t].pc = "recorded"
    /\ Append2Log("SUBMITTED", sub[t].stream, sub[t].tok, slot[SubSlot(t)].gen)
    /\ sub' = [sub EXCEPT ![t].pc = "logged"]
    /\ UNCHANGED <<submitFrame, poolVars, deviceVars, boundVars>>

Publish(t) ==
    /\ sub[t].pc = "logged"
    /\ slot' = [slot EXCEPT ![SubSlot(t)].state = "PENDING"]
    /\ sub' = [sub EXCEPT ![t] = IdleSub]
    /\ UNCHANGED <<submitFrame, deviceVars, logVars, boundVars, cursor>>

SubmitStep(t) ==
    \/ ProbeMiss(t) \/ ProbeHit(t) \/ PoolFull(t)
    \/ RecordOk(t) \/ RecordFails(t) \/ LogSubmitted(t) \/ Publish(t)

-----------------------------------------------------------------------------
(* flight_checkpoint_poll, by a business thread or by the background one   *)

\* Mutant: every poll scans from the first slot.
PollBeginAtZero(p) ==
    /\ Ready /\ pol[p].pc = "idle" /\ ~polling
    /\ p = Poller => thread = "go"
    /\ polling' = TRUE
    /\ pol' = [pol EXCEPT ![p].pc = "scan", ![p].start = pollCursor]
    /\ UNCHANGED <<poolVars, setupVars, threadVars, deviceVars, logVars,
                   boundVars, sub, pollCursor>>

\* The flag is clear: take it and the next Budget positions of the pool.
PollBegin(p) ==
    /\ Ready
    /\ pol[p].pc = "idle"
    /\ p = Poller => thread = "go"
    /\ ~polling
    /\ polling' = TRUE
    /\ pollCursor' = (pollCursor + Budget) % Total
    /\ pol' = [pol EXCEPT ![p].pc = "scan", ![p].start = pollCursor]
    /\ UNCHANGED <<poolVars, setupVars, threadVars, deviceVars, logVars,
                   boundVars, sub>>

\* The flag is set: poll returns 0 and the loop sleeps.  (For a business
\* thread the refused call changes nothing.)
PollRefused ==
    /\ thread = "go" /\ pol[Poller].pc = "idle"
    /\ polling
    /\ thread' = "check"
    /\ UNCHANGED <<controlFrame, setupVars, running, stop, ctl, faults>>

Scanning(p) ==
    /\ pol[p].pc = "scan"
    /\ pol[p].off < Total /\ pol[p].chk < Budget

At(p, x) == Flat(x) = (pol[p].start + pol[p].off) % Total

\* The poll goes on past a slot it has claimed.
Querying(r, x, g) == [pc |-> "query", start |-> r.start, off |-> r.off + 1,
                      chk |-> r.chk + 1, at |-> x, gen |-> g]

\* The compare-and-swap fails: the slot is not PENDING.
Skip(p) ==
    /\ Scanning(p)
    /\ \E x \in SlotId : At(p, x) /\ slot[x].state # "PENDING"
    /\ pol' = [pol EXCEPT ![p].off = @ + 1]
    /\ UNCHANGED <<pollFrame, logVars, slot, faults>>

Claim(p) ==
    /\ Scanning(p)
    /\ \E x \in SlotId :
          /\ At(p, x) /\ slot[x].state = "PENDING"
          /\ slot' = [slot EXCEPT ![x].state = "QUERYING"]
          /\ pol' = [pol EXCEPT ![p] = Querying(pol[p], x, slot[x].gen)]
    /\ UNCHANGED <<pollFrame, logVars, faults>>

\* Mutant: the slot is released before its CONFIRMED record is written.
QueryReadyReleases(p) ==
    /\ pol[p].pc = "query" /\ ~OnDevice(pol[p].at)
    /\ slot' = [slot EXCEPT ![pol[p].at].state = "FREE"]
    /\ pol' = [pol EXCEPT ![p].pc = "confirm"]
    /\ UNCHANGED <<pollFrame, logVars, faults>>

\* backend.query answers 1, 0 or an error.
QueryReady(p) ==
    /\ pol[p].pc = "query"
    /\ ~OnDevice(pol[p].at)
    /\ pol' = [pol EXCEPT ![p].pc = "confirm"]
    /\ UNCHANGED <<pollFrame, logVars, slot, faults>>

QueryNotReady(p) ==
    /\ pol[p].pc = "query"
    /\ OnDevice(pol[p].at)
    /\ pol' = [pol EXCEPT ![p].pc =
                  IF slot[pol[p].at].nr # pol[p].gen THEN "notready" ELSE "requeue"]
    /\ UNCHANGED <<pollFrame, logVars, slot, faults>>

\* Mutants: an error frees the slot; any nonzero answer means complete.
QueryFailsReleases(p) ==
    /\ pol[p].pc = "query" /\ Fault
    /\ pol' = [pol EXCEPT ![p].pc = "release"]
    /\ UNCHANGED <<pollFrame, logVars, slot>>
QueryFailsConfirms(p) ==
    /\ pol[p].pc = "query" /\ Fault
    /\ pol' = [pol EXCEPT ![p].pc = "confirm"]
    /\ UNCHANGED <<pollFrame, logVars, slot>>

QueryFails(p) ==
    /\ pol[p].pc = "query"
    /\ Fault
    /\ pol' = [pol EXCEPT ![p].pc =
                  IF slot[pol[p].at].qe # pol[p].gen THEN "error" ELSE "requeue"]
    /\ UNCHANGED <<pollFrame, logVars, slot>>

LogPolled(p, kind) ==
    Append2Log(kind, pol[p].at[1], slot[pol[p].at].tok, pol[p].gen)

\* "Exact generation is persisted before releasing the reusable slot."
Confirm(p) ==
    /\ pol[p].pc = "confirm"
    /\ LogPolled(p, "CONFIRMED")
    /\ pol' = [pol EXCEPT ![p].pc = "release"]
    /\ UNCHANGED <<pollFrame, slot, faults>>

Release(p) ==
    /\ pol[p].pc = "release"
    /\ slot' = [slot EXCEPT ![pol[p].at].state = "FREE"]
    /\ pol' = [pol EXCEPT ![p].pc = "scan"]
    /\ UNCHANGED <<pollFrame, logVars, faults>>

LogNotReady(p) ==
    /\ pol[p].pc = "notready"
    /\ LogPolled(p, "NOT_READY")
    /\ slot' = [slot EXCEPT ![pol[p].at].nr = pol[p].gen]
    /\ pol' = [pol EXCEPT ![p].pc = "requeue"]
    /\ UNCHANGED <<pollFrame, faults>>

LogQueryError(p) ==
    /\ pol[p].pc = "error"
    /\ LogPolled(p, "QUERY_ERROR")
    /\ slot' = [slot EXCEPT ![pol[p].at].qe = pol[p].gen]
    /\ pol' = [pol EXCEPT ![p].pc = "requeue"]
    /\ UNCHANGED <<pollFrame, faults>>

Requeue(p) ==
    /\ pol[p].pc = "requeue"
    /\ slot' = [slot EXCEPT ![pol[p].at].state = "PENDING"]
    /\ pol' = [pol EXCEPT ![p].pc = "scan"]
    /\ UNCHANGED <<pollFrame, logVars, faults>>

PollEnd(p) ==
    /\ pol[p].pc = "scan" /\ ~Scanning(p)
    /\ polling' = FALSE
    /\ pol' = [pol EXCEPT ![p] = IdlePol]
    /\ thread' = IF p = Poller THEN "check" ELSE thread
    /\ UNCHANGED <<poolVars, setupVars, deviceVars, logVars, boundVars,
                   running, stop, ctl, pollCursor, sub>>

PollStep(p) ==
    \/ Skip(p) \/ Claim(p)
    \/ QueryReady(p) \/ QueryNotReady(p) \/ QueryFails(p)
    \/ Confirm(p) \/ Release(p)
    \/ LogNotReady(p) \/ LogQueryError(p) \/ Requeue(p)
    \/ PollEnd(p)

-----------------------------------------------------------------------------
(* The background thread's loop and the control operations.  One control   *)
(* thread calls them (the ctypes wrapper is used by one thread).           *)

\* Mutant: the loop does not look at stop_poller.
LoopForever ==
    /\ thread = "check" /\ thread' = "go"
    /\ UNCHANGED <<controlFrame, setupVars, running, stop, ctl, faults>>

LoopAgain ==
    /\ thread = "check" /\ ~stop
    /\ thread' = "go"
    /\ UNCHANGED <<controlFrame, setupVars, running, stop, ctl, faults>>

LoopExit ==
    /\ thread = "check" /\ stop
    /\ thread' = "exited" /\ running' = FALSE
    /\ UNCHANGED <<controlFrame, setupVars, stop, ctl, faults>>

StartPoller ==
    /\ Ready /\ ctl = "free"
    /\ ~running
    /\ running' = TRUE /\ stop' = FALSE /\ thread' = "check"
    /\ UNCHANGED <<controlFrame, setupVars, ctl, faults>>

\* std::thread throws: running is withdrawn, stop stays cleared.
StartPollerFails ==
    /\ Ready /\ ctl = "free"
    /\ ~running
    /\ Fault
    /\ stop' = FALSE
    /\ UNCHANGED <<controlFrame, setupVars, running, thread, ctl>>

StopPoller ==
    /\ alive /\ ctl = "free"
    /\ stop' = TRUE
    /\ ctl' = IF thread # "absent" THEN "join" ELSE "free"
    /\ UNCHANGED <<controlFrame, setupVars, running, thread, faults>>

Join ==
    /\ ctl = "join" /\ thread = "exited"
    /\ thread' = "absent" /\ ctl' = "free"
    /\ UNCHANGED <<controlFrame, setupVars, running, stop, faults>>

\* Mutant: destroy does not ask whether the poller still runs.
DestroyUnchecked ==
    /\ alive /\ ctl = "free" /\ created = 0
    /\ \A t \in Submitters : sub[t].pc = "idle"
    /\ \A p \in Callers : pol[p].pc = "idle"
    /\ \A x \in Registered : slot[x].state = "FREE"
    /\ events' = {} /\ alive' = FALSE
    /\ UNCHANGED <<controlFrame, threadVars, nstreams, created, faults>>

\* The client closes with no submit or poll of its own in flight.  When the
\* guard on the poller or on the slots fails the call returns EBUSY and
\* changes nothing.
Destroy ==
    /\ alive /\ ctl = "free" /\ created = 0
    /\ \A t \in Submitters : sub[t].pc = "idle"
    /\ \A p \in Callers : pol[p].pc = "idle"
    /\ ~running /\ thread = "absent"
    /\ \A x \in Registered : slot[x].state = "FREE"
    /\ events' = {} /\ alive' = FALSE
    /\ UNCHANGED <<controlFrame, threadVars, nstreams, created, faults>>

-----------------------------------------------------------------------------
\* External: a stream runs its work in the order it was enqueued.
DeviceComplete(e) ==
    /\ \A f \in device : f.stream = e.stream => e.pos =< f.pos
    /\ device' = device \ {e}
    /\ UNCHANGED <<submitFrame, poolVars, logVars, boundVars, sub, npos>>

Next ==
    \/ CreateEvent \/ RegisterStream \/ CreateEventFails
    \/ \E t \in Submitters : SubmitStep(t) \/ \E s \in Streams : SubmitCall(t, s)
    \/ \E p \in Pollers : PollBegin(p) \/ PollStep(p)
    \/ PollRefused
    \/ LoopAgain \/ LoopExit
    \/ StartPoller \/ StartPollerFails \/ StopPoller \/ Join \/ Destroy
    \/ \E e \in device : DeviceComplete(e)

Spec == Init /\ [][Next]_vars

\* Every thread that is inside a call keeps running, and the background
\* thread keeps looping: the operating system schedules them.  Nothing says
\* that clients call again or that the device makes progress.
Fairness ==
    /\ \A t \in Submitters : WF_vars(SubmitStep(t))
    /\ \A p \in Pollers : WF_vars(PollStep(p))
    /\ WF_vars(PollBegin(Poller) \/ PollRefused \/ LoopAgain \/ LoopExit)
    /\ WF_vars(Join)

FairSpec == Spec /\ Fairness
=============================================================================
