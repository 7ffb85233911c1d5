--------------------------- MODULE CheckpointProps ---------------------------
(***************************************************************************)
(* What the checkpoint manager (Checkpoint) and the analyzer's conclusions *)
(* (CheckpointReport) promise together.                                    *)
(***************************************************************************)
EXTENDS Checkpoint, CheckpointReport

SlotRecord == [state : SlotStates, gen : Nat, tok : Nat, nr : Nat, qe : Nat]
SubRecord ==
    [pc : {"idle", "probe", "reserved", "recorded", "logged"}, stream : Streams,
     tok : Nat, start : 0..(CursorMod - 1), n : 0..SlotsPerStream, idx : Indices,
     open : SUBSET Indices]
PolRecord ==
    [pc : {"idle", "scan", "query", "confirm", "release", "notready", "error",
           "requeue"},
     start : 0..(Total - 1), off : Nat, chk : Nat, at : SlotId, gen : Nat]
DeviceRecord == [stream : Streams, idx : Indices, tok : Nat, pos : Nat]

\* Every variable has its type (the atomics, the locals and the records).
TypeOK ==
    /\ slot \in [SlotId -> SlotRecord]
    /\ cursor \in [Streams -> 0..(CursorMod - 1)]
    /\ nstreams \in 0..NumStreams /\ created \in Indices
    /\ events \subseteq SlotId
    /\ alive \in BOOLEAN /\ polling \in BOOLEAN
    /\ pollCursor \in 0..(Total - 1)
    /\ running \in BOOLEAN /\ stop \in BOOLEAN
    /\ thread \in {"absent", "check", "go", "exited"}
    /\ ctl \in {"free", "join"}
    /\ sub \in [Submitters -> SubRecord]
    /\ pol \in [Pollers -> PolRecord]
    /\ device \subseteq DeviceRecord
    /\ npos \in Nat
    /\ log \subseteq LogRecord
    /\ nrec \in Nat /\ ncalls \in Nat /\ faults \in Nat

-----------------------------------------------------------------------------
(* Who may touch a slot.                                                   *)

SubmitOwns(t, x) ==
    sub[t].pc \in {"reserved", "recorded", "logged"} /\ SubSlot(t) = x
PollOwns(p, x) ==
    /\ pol[p].pc \in {"query", "confirm", "release", "notready", "error", "requeue"}
    /\ pol[p].at = x

\* A slot's plain fields have one accessor at a time: the submitter that
\* reserved it or the poller that is querying it, never two threads, and no
\* thread holds a slot another may take.  (The compare-and-swaps and the
\* release stores of submit and poll.)
ExclusiveSlot ==
    \A x \in SlotId :
       /\ \A t \in Submitters : SubmitOwns(t, x) =>
             /\ slot[x].state = "RESERVED" /\ slot[x].tok = sub[t].tok
             /\ \A u \in Submitters : SubmitOwns(u, x) => u = t
       /\ \A p \in Pollers : PollOwns(p, x) =>
             /\ slot[x].state = "QUERYING" /\ slot[x].gen = pol[p].gen
             /\ \A q \in Pollers : PollOwns(q, x) => q = p

\* An event that the device has still to pass belongs to a live event object,
\* and its slot is kept for the checkpoint that recorded it: it is neither
\* free nor reused nor destroyed.  ("Event 未完成时绝不复用", CHECKPOINTS.md:75,
\* and EBUSY of destroy, flight_checkpoint.h:41.)
EventKeptWhilePending ==
    \A e \in device :
       LET x == <<e.stream, e.idx>> IN
       /\ x \in events
       /\ slot[x].state # "FREE" /\ slot[x].tok = e.tok
       /\ \A f \in device : f.stream = e.stream /\ f.idx = e.idx => f = e

-----------------------------------------------------------------------------
(* What the log may say.                                                   *)

\* A confirmation is a fact: the device passed the checkpoint, whose
\* SUBMITTED record with the same generation is earlier in the log.  So the
\* analyzer finds no stale confirmation in a complete log.
ConfirmationIsFact ==
    /\ \A r \in ConfirmedIn(log) :
          /\ ~TokenOnDevice(r.tok)
          /\ \E q \in SubmittedIn(log) : Key(q) = Key(r) /\ q.seq < r.seq
    /\ Stale(log) = {}

\* For one use of a slot each status is recorded at most once, nothing is
\* recorded after its confirmation, and a slot marked as reported for its
\* current generation has the NOT_READY record of that very use.
StatusOncePerUse ==
    /\ \A r, q \in log :
          /\ r.kind = q.kind /\ Key(r) = Key(q) /\ r.kind # "POOL_FULL" => r = q
          /\ r.kind = "CONFIRMED" /\ Key(r) = Key(q) => q.seq =< r.seq
    /\ \A x \in SlotId :
          slot[x].gen # 0 /\ slot[x].nr = slot[x].gen =>
             \E r \in log : r.kind = "NOT_READY"
                               /\ Key(r) = <<x[1], slot[x].tok, slot[x].gen>>

\* submit refuses only a full pool: when its last probe has failed, every
\* slot of the stream was in use when the call began.
PoolFullHonest ==
    \A t \in Submitters :
       sub[t].pc = "probe" /\ sub[t].n = SlotsPerStream => sub[t].open = {}

\* The views a reader can have: the ring has forgotten the records up to low.
View(low) == {r \in log : r.seq > low}

\* What the report calls confirmed, the device has passed; so where the
\* device hangs is after the reported watermark.  (analyzer.py:98-130;
\* "这表示设备已确认越过 seq 100", CHECKPOINTS.md:97.)
WatermarkSound ==
    \A low \in 0..nrec : \A s \in Streams :
       \A r \in ReportedConfirmed(View(low), s) : ~TokenOnDevice(r.tok)

-----------------------------------------------------------------------------
(* The ledger the manager implements.                                      *)

QueuedOnDevice == {<<e.stream, e.tok>> : e \in device}
Accepted == {<<r.stream, r.tok>> : r \in SubmittedIn(log)}
Reported == {<<r.stream, r.tok>> : r \in ConfirmedIn(log)}
\* Recorded on the device at some time: in the log, or about to be.
Recorded == Accepted \cup
    {<<sub[t].stream, sub[t].tok>> : t \in {u \in Submitters : sub[u].pc = "recorded"}}

Ledger == INSTANCE CheckpointLedger WITH
    Tokens <- 1..MaxCalls, Capacity <- SlotsPerStream,
    queued <- QueuedOnDevice, passed <- Recorded \ QueuedOnDevice,
    accepted <- Accepted, reported <- Reported

\* The manager implements the ledger: every step of its threads and of the
\* device is a step of CheckpointLedger or changes nothing the ledger shows.
\* (submit, poll and the release of a slot only after its CONFIRMED record.)
ImplementsLedger == Ledger!Spec

-----------------------------------------------------------------------------
(* The end of the manager.                                                 *)

\* After destroy nothing uses the freed manager: the background thread is
\* joined, no poll holds the flag, no event is left on the device, and every
\* event object was destroyed.  While the manager lives a start never
\* assigns over a joinable std::thread.
DestroyIsFinal ==
    /\ ~alive => /\ thread = "absent" /\ ~polling /\ events = {}
                 /\ \A p \in Pollers : pol[p].pc = "idle"
                 /\ \A x \in SlotId : slot[x].state = "FREE" /\ ~OnDevice(x)
    /\ ctl = "free" /\ ~running => thread = "absent"

-----------------------------------------------------------------------------
(* Progress.                                                               *)

Looping == thread \in {"check", "go"}

\* A checkpoint the device has passed is confirmed in the log while the
\* background poller runs, however long other streams hang and whatever the
\* business threads do ("keeps progressing even when the Python/business
\* thread blocks", flight_checkpoint.h:36).
PassedIsConfirmed ==
    \A k \in 1..MaxCalls :
       (\E r \in SubmittedIn(log) : r.tok = k) /\ ~TokenOnDevice(k)
          ~> (\E r \in ConfirmedIn(log) : r.tok = k) \/ ~Looping

\* stop_poller returns: the thread it joins leaves its loop.
StopReturns == ctl = "join" ~> ctl = "free"
=============================================================================
