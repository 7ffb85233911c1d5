------------------------------ MODULE FourCard ------------------------------
(***************************************************************************)
(* src/examples/four_card_hccl_hang.py: workers that complete one step and *)
(* hang in the second, because one rank never enters its collective; and   *)
(* run, which starts them under a watchdog, waits for the hang and for the *)
(* watchdog's stalled snapshot, kills them, has the snapshots analysed and *)
(* judges the report.  Other jobs run here unattended.                     *)
(*                                                                         *)
(* The watchdog runs beside them and copies the rings one after the other. *)
(* How it judges a process is Watchdog's: without a clock any worker may   *)
(* have logged nothing for --timeout at any moment, so that a stalled      *)
(* snapshot may begin at any moment.  The optional libraries (checkpoints, *)
(* msPTI, profiler, AICPU sampler) are left out.                           *)
(***************************************************************************)
EXTENDS Job

CONSTANTS
    MissingRank,
    SlowCalls,    \* bound: the steps that may take a worker --timeout
    MaxDumps      \* bound: stalled snapshots

ASSUME MissingAssumption == MissingRank \in Ranks
ASSUME DumpsAssumption == MaxDumps \in Nat

VARIABLES
    h,       \* run: where it is, or its outcome
    snap,    \* the snapshot being written: its reason, the ranks still to be
             \* copied; history: the job had stalled when it began, none was skipped
    files,   \* the latest file in a snapshot of each rank: how many events it has
    dumps,   \* stalled snapshots with their final name
    quiet    \* history: one of them is of the job that had stalled, and whole

harness == <<h, snap, files, dumps, quiet>>
watch == <<snap, files, dumps, quiet>>
vars == <<jobVars, harness>>

NoSnap == [reason |-> "none", todo |-> {}, stalled |-> FALSE]

-----------------------------------------------------------------------------
(* worker                                                                  *)

\* The first step: request, model on the compute stream, transfer, and back.
FirstStep ==
    << Record("REQUEST_BEGIN", "none", 101),
       Record("SCHEDULER_BEGIN", "none", 1),
       Record("MODEL_BEGIN", "compute", 1),
       Submit("record", "compute", 1000),
       Record("EVENT_RECORD", "compute", 1000),
       Record("KV_BEGIN", "transfer", 2000),
       Submit("wait", "transfer", 1000),
       Record("EVENT_WAIT", "transfer", 1000),
       Submit("record", "transfer", 2000),
       Record("EVENT_RECORD", "transfer", 2000),
       Record("KV_END", "transfer", 2000),
       Submit("wait", "compute", 2000),
       Record("EVENT_WAIT", "compute", 2000),
       Record("MODEL_END", "compute", 1),
       Record("DEVICE_SYNC_BEGIN", "none", 1),
       Synchronize,
       Record("DEVICE_SYNC_END", "none", 1),
       Record("DEVICE_CONFIRMED", "none", 1) >>

\* A collective of all ranks: the call returns when the task is submitted.
AllReduce(n) ==
    << Record("HCCL_BEGIN", "default", n),
       Submit("collective", "default", n),
       Record("HCCL_END", "default", n) >>

FirstCollective ==
    AllReduce(1) \o
    << Synchronize,
       Record("DEVICE_CONFIRMED", "none", 1),
       Record("SCHEDULER_END", "none", 1),
       Record("SCHEDULER_BEGIN", "none", 2) >>

\* The missing rank is held before the second collective.
SecondCollective(r) ==
    IF r = MissingRank
    THEN << Record("KV_BEGIN", "transfer", 3000), Gate >>
    ELSE AllReduce(2) \o
         << Record("DEVICE_SYNC_BEGIN", "none", 2),
            Synchronize,
            Record("DEVICE_SYNC_END", "none", 2),
            Record("DEVICE_CONFIRMED", "none", 2) >>

Worker(r) == FirstStep \o FirstCollective \o SecondCollective(r)

-----------------------------------------------------------------------------
(* run                                                                     *)

Attended == h # "absent"
Alive == h \in {"absent", "waiting", "dumping"}

Init ==
    /\ JobInit
    /\ h = IF job = [r \in Ranks |-> Worker(r)] THEN "starting" ELSE "absent"
    /\ snap = NoSnap /\ files = {} /\ dumps = 0 /\ quiet = FALSE

\* The workers are ready: the watchdog is started, then START is written.
Begin ==
    /\ h = "starting"
    /\ h' = "waiting"
    /\ UNCHANGED <<jobVars, watch>>

\* reached_hang, which reads the live rings.
ReachedHang ==
    \A r \in Ranks :
       Saw(log[r], IF r = MissingRank THEN "SCHEDULER_BEGIN" ELSE "HCCL_BEGIN", 2)

SeeHang ==
    /\ h = "waiting" /\ ReachedHang
    /\ h' = "dumping"
    /\ UNCHANGED <<jobVars, watch>>

\* A stalled snapshot is there, or is being written: glob finds its hidden
\* directory, too.  The finally block kills the workers.
SeeDump ==
    /\ h = "dumping" /\ (dumps > 0 \/ snap.reason = "stalled")
    /\ h' = "reaping"
    /\ UNCHANGED <<jobVars, watch>>

\* wait_until raises, at any of the three waits; the workers are killed.
TimesOut ==
    /\ h \in {"starting", "waiting", "dumping"}
    /\ h' = "raised" /\ snap' = NoSnap
    /\ UNCHANGED <<jobVars, files, dumps, quiet>>

\* The watchdog has ended, or 15 seconds are over and it is killed, be it in the
\* middle of a snapshot.
Reaped ==
    /\ h = "reaping"
    /\ h' = "judging" /\ snap' = NoSnap
    /\ UNCHANGED <<jobVars, files, dumps, quiet>>

\* The report on the snapshots: rglob finds what is in a hidden directory, too.
EventsOf(r) == CHOOSE n \in {f.events : f \in files} : [rank |-> r, events |-> n] \in files
Report == [r \in {f.rank : f \in files} |-> SubSeq(log[r], 1, EventsOf(r))]

\* The assertions on it.
Asserts(view) ==
    /\ Missing(view, Ranks, 2) = {MissingRank}
    /\ Entered(view, 2) = Ranks \ {MissingRank}
    /\ EndObserved(view, 2) = Ranks \ {MissingRank}
    /\ \A r \in Ranks :
          /\ r \in DOMAIN view
          /\ LastHostEvent(view[r]) =
                {IF r = MissingRank THEN "KV_BEGIN" ELSE "DEVICE_SYNC_BEGIN"}

\* Without a single file run raises.
Judge ==
    /\ h = "judging"
    /\ h' = IF files = {} THEN "raised" ELSE IF Asserts(Report) THEN "passed" ELSE "failed"
    /\ UNCHANGED <<jobVars, watch>>

-----------------------------------------------------------------------------
(* The watchdog: main and snapshot.                                        *)

Watched == h \in {"waiting", "dumping", "reaping"}

\* Mutant: a stall that has had its snapshot gets another one, and again.
BeginStalledAgain ==
    /\ Watched /\ snap.reason = "none"
    /\ snap' = [reason |-> "stalled", todo |-> Ranks, stalled |-> Stalled]
    /\ UNCHANGED <<jobVars, h, files, dumps, quiet>>

\* A worker was alive and had logged nothing for --timeout.  It may have been
\* killed since.
BeginStalled ==
    /\ Watched /\ snap.reason = "none" /\ dumps < MaxDumps
    /\ \E r \in Ranks : pc[r] <= Len(job[r]) /\ job[r][pc[r]] \in SlowCalls
    /\ snap' = [reason |-> "stalled", todo |-> Ranks, stalled |-> Stalled]
    /\ UNCHANGED <<jobVars, h, files, dumps, quiet>>

\* A worker has exited.
BeginExit ==
    /\ h = "reaping" /\ snap.reason = "none"
    /\ snap' = [reason |-> "exit", todo |-> Ranks, stalled |-> FALSE]
    /\ UNCHANGED <<jobVars, h, files, dumps, quiet>>

\* The files are copied one after the other, while the workers go on.  Of the
\* copies of a rank the one is kept that the report will be on.
Copy(r) ==
    /\ Watched /\ r \in snap.todo
    /\ files' = Latest(files \cup {[rank |-> r, events |-> Len(log[r])]})
    /\ snap' = [snap EXCEPT !.todo = @ \ {r}]
    /\ UNCHANGED <<jobVars, h, dumps, quiet>>

\* A file that cannot be read or copied is an entry in "errors".
Skip(r) ==
    /\ Watched /\ r \in snap.todo
    /\ snap' = [snap EXCEPT !.todo = @ \ {r}, !.stalled = FALSE]
    /\ UNCHANGED <<jobVars, h, files, dumps, quiet>>

\* The rename to the final name, with the reason in it.
Publish ==
    /\ Watched /\ snap.reason # "none" /\ snap.todo = {}
    /\ dumps' = IF snap.reason = "stalled" THEN dumps + 1 ELSE dumps
    /\ quiet' = (quiet \/ snap.stalled)
    /\ snap' = NoSnap
    /\ UNCHANGED <<jobVars, h, files>>

WatchdogStep ==
    \/ BeginStalled \/ BeginExit \/ Publish
    \/ \E r \in Ranks : Copy(r) \/ Skip(r)

Next ==
    \/ Alive /\ (\E r \in Ranks : HostStep(r)) /\ UNCHANGED harness
    \/ Alive /\ DeviceStep /\ UNCHANGED harness
    \/ Begin \/ SeeHang \/ SeeDump \/ TimesOut \/ Reaped \/ Judge
    \/ WatchdogStep

Spec == Init /\ [][Next]_vars
-----------------------------------------------------------------------------
Outcomes == {"raised", "passed", "failed"}

\* Every variable has its type.
TypeOK ==
    /\ job \in [Ranks -> Seq(Steps)]
    /\ pc \in [Ranks -> Nat] /\ \A r \in Ranks : pc[r] \in 1..(Len(job[r]) + 1)
    /\ log \in [Ranks -> Seq(Steps)]
    /\ queue \in [Ranks -> [Streams -> Seq(Steps)]]
    /\ done \in [Ranks -> [Streams -> Nat]]
    /\ \A r \in Ranks, s \in Streams : done[r][s] <= Len(queue[r][s])
    /\ h \in {"absent", "starting", "waiting", "dumping", "reaping", "judging"} \cup Outcomes
    /\ snap \in [reason : {"none", "stalled", "exit"}, todo : SUBSET Ranks, stalled : BOOLEAN]
    /\ files \subseteq [rank : Ranks, events : Nat]
    /\ dumps \in 0..MaxDumps /\ quiet \in BOOLEAN

\* The verdict of the example is right.  If it passes, the missing rank stands
\* at its gate and never submitted the second collective, while every other
\* rank did and waits for it, in a device synchronization that the report shows
\* as open.  It fails only if every stalled snapshot came before the job had
\* stalled.  (run, 238-243 and 289-298.)
VerdictIsRight ==
    /\ h = "passed" =>
          \A r \in Ranks :
             IF r = MissingRank
             THEN job[r][pc[r]] \in {Record("KV_BEGIN", "transfer", 3000), Gate}
             ELSE /\ job[r][pc[r]] = Synchronize
                  /\ AtHead(r, "collective", 2) = {"default"}
                  /\ Record("DEVICE_SYNC_BEGIN", "none", 2) \in OpenScopes(Report[r])
    /\ h = "failed" => ~quiet

\* An operation on a reported cycle never completes, so the usual hand-over
\* between two streams and back is not reported; for events that are recorded
\* once.  (analyzer.py:157-160, FOUR_CARD_VALIDATION.md:38.)
CyclesAreDeadlocks ==
    LET view == View IN
    (\A r \in Ranks : RecordedOnce(r)) =>
       \A c \in FindCycles(Edges(view)) : \A i \in DOMAIN c :
          LET r == c[i][1]  q == c[i][2] IN
          done[r][view[r][q].stream] < Position(view[r], q)

\* Streams that wait for each other's records for ever: each is held by a wait
\* for an event whose records are all submitted to streams of the set.
Deadlocked(r, set) ==
    \A s \in set : \E x \in Pending(r, s) :
       /\ x.type = "wait" /\ ~Completed(r, "record", x.corr)
       /\ \E q \in Streams : \E i \in DOMAIN queue[r][q] : Is(queue[r][q][i], "record", x.corr)
       /\ \A q \in Streams : \A i \in DOMAIN queue[r][q] :
             Is(queue[r][q][i], "record", x.corr) => q \in set

\* Streams that block each other for ever are reported as a cycle, once what
\* was submitted is logged, whatever else was recorded or waited for.
\* (find_cycles and the edges, 21-36 and 156-181.)
DeadlocksAreReported ==
    \A r \in Ranks, set \in (SUBSET Streams) \ {{}} :
       /\ Deadlocked(r, set)
       /\ pc[r] > 1 /\ job[r][pc[r] - 1].do # "submit"
       => FindCycles(Edges(View)) # {}
=============================================================================
