---------------------------- MODULE MsptiCapture ----------------------------
(***************************************************************************)
(* MsptiCapture of src/python/mspti_activity_capture.py: the flush thread, *)
(* which owns the two msPTI monitors and starts and stops them as the      *)
(* enable file says, the writer thread, which owns the JSONL file, the     *)
(* bounded queue of records between them, the callbacks that msPTI makes   *)
(* on threads of its own, and start and stop of the application.           *)
(*                                                                         *)
(* A record is what tells it apart here: the monitor it comes from, "on"   *)
(* or "off" of a capture_state, or "tick".  Ticks are periodic, so the     *)
(* model leaves them out of the file and of the count of dropped records.  *)
(***************************************************************************)
EXTENDS Naturals, Sequences, FiniteSets

CONSTANTS
    QueueSize,      \* queue_size
    MaxActivities,  \* bound: activities that complete
    MaxToggles,     \* bound: writes to the enable file
    MaxFaults       \* bound: failing calls to msPTI or the operating system

ASSUME CaptureAssumption ==
    /\ QueueSize \in Nat \ {0}
    /\ MaxActivities \in Nat /\ MaxToggles \in Nat /\ MaxFaults \in Nat

Monitors == {"kernel", "comm"}
Marks == {"on", "off"}

VARIABLES
    control,     \* the enable file says 1
    main,        \* the application's thread
    stopSet,     \* stop_requested
    writerDone,  \* writer_done
    flush,       \* the flush thread: pc, enabled, past its loop
    active,      \* monitor_active
    mon,         \* external: monitors that are started
    buffered,    \* external: completed activities a monitor has not delivered
    items,       \* the queue
    writer,      \* the writer thread: pc, the record it died on, if any
    due,         \* the writer's deadline has passed
    file,        \* the file, without ticks
    synced,      \* how much of it an fsync has covered
    dropped,     \* dropped, without ticks
    errors,      \* callback_errors, whether last_error is set
    transitions,
    summary,     \* the last summary: taken, without a loss or an error, the writer had ended
    completed,   \* external: activities completed
    stuck,       \* history: since the last switch that went through, a stop has failed
                 \* or the second monitor's start has raised
    toggles, faults

control_ == <<control, toggles>>
app      == <<main, stopSet, writerDone, summary>>
lifecycle == <<flush, active, mon, transitions, stuck>>
device   == <<buffered, completed>>
queue    == <<items, dropped>>
disk     == <<writer, due, file, synced>>
vars     == <<control_, app, lifecycle, device, queue, disk, errors, faults>>

Init ==
    /\ control \in BOOLEAN /\ toggles = 0 /\ faults = 0
    /\ main = "new" /\ stopSet = FALSE /\ writerDone = FALSE
    /\ flush = [pc |-> "absent", enabled |-> FALSE, final |-> FALSE]
    /\ active = FALSE /\ mon = {} /\ transitions = 0 /\ stuck = FALSE
    /\ buffered = [m \in Monitors |-> 0] /\ completed = 0
    /\ items = << >> /\ dropped = 0
    /\ writer = [pc |-> "absent", held |-> << >>]
    /\ due = FALSE /\ file = << >> /\ synced = 0
    /\ errors = [callback |-> 0, last |-> FALSE]
    /\ summary = [taken |-> FALSE, clean |-> FALSE, ended |-> FALSE]

Fault == faults < MaxFaults /\ faults' = faults + 1
Error == errors' = [errors EXCEPT !.last = TRUE]

\* Mutant: the queue is not bounded.
EnqueueAlways(r) == items' = Append(items, r) /\ UNCHANGED dropped

\* put_nowait of a record; queue.Full counts it as dropped.
Enqueue(r) ==
    IF Len(items) < QueueSize
    THEN items' = Append(items, r) /\ UNCHANGED dropped
    ELSE dropped' = dropped + (IF r = "tick" THEN 0 ELSE 1) /\ UNCHANGED items

-----------------------------------------------------------------------------
(* External: the operator, and msPTI, which completes activities and calls  *)
(* back on its own threads.                                                *)

Toggle ==
    /\ toggles < MaxToggles /\ toggles' = toggles + 1
    /\ control' = ~control
    /\ UNCHANGED <<app, lifecycle, device, queue, disk, errors, faults>>

Complete(m) ==
    /\ m \in mon /\ completed < MaxActivities
    /\ completed' = completed + 1
    /\ buffered' = [buffered EXCEPT ![m] = @ + 1]
    /\ UNCHANGED <<control_, app, lifecycle, queue, disk, errors, faults>>

\* Mutant: an exception in a callback is swallowed without being counted.
DeliverUncounted(m) ==
    /\ buffered[m] > 0
    /\ buffered' = [buffered EXCEPT ![m] = @ - 1]
    /\ \/ Enqueue(m) /\ UNCHANGED <<errors, faults>>
       \/ Fault /\ UNCHANGED <<queue, errors>>
    /\ UNCHANGED <<control_, app, lifecycle, completed, disk>>

\* _enqueue, the callback: the record is copied and queued, or counted.
Deliver(m) ==
    /\ buffered[m] > 0
    /\ buffered' = [buffered EXCEPT ![m] = @ - 1]
    /\ \/ Enqueue(m) /\ UNCHANGED <<errors, faults>>
       \/ /\ Fault
          /\ errors' = [callback |-> errors.callback + 1, last |-> TRUE]
          /\ UNCHANGED queue
    /\ UNCHANGED <<control_, app, lifecycle, completed, disk>>

-----------------------------------------------------------------------------
(* _flush_loop and _set_monitor_active                                     *)

At(pc) == flush.pc = pc
Goto(pc) == flush' = [flush EXCEPT !.pc = pc]

\* An exception leaves _set_monitor_active or flush_all: the loop notes it and
\* waits; in the final stop the thread notes it and ends.
Raise == Error /\ Goto(IF flush.final THEN "gone" ELSE "wait")

flushFrame == <<control_, app, device, disk>>

\* What the loop does when the monitors are as it wants them.
Settled(on) == IF on THEN "flush" ELSE "tick"

\* _enabled_by_file: an error, of the file or in it, reads as 0 and is noted.
EnabledByFile(enabled) ==
    \/ enabled = control /\ UNCHANGED <<errors, faults>>
    \/ ~enabled /\ Fault /\ Error

\* The top of the loop, and the early return of _set_monitor_active.  A file
\* that is no text raises.
Look ==
    /\ At("top") /\ ~stopSet
    /\ \/ \E enabled \in BOOLEAN :
             /\ EnabledByFile(enabled)
             /\ flush' = [flush EXCEPT !.enabled = enabled,
                             !.pc = IF enabled = active THEN Settled(active)
                                    ELSE IF enabled THEN "start kernel" ELSE "stop kernel"]
       \/ Fault /\ Raise
    /\ UNCHANGED <<flushFrame, active, mon, transitions, stuck, queue>>

\* After the loop, the final stop.
LeaveLoop ==
    /\ At("top") /\ stopSet
    /\ flush' = [enabled |-> FALSE, final |-> TRUE,
                 pc |-> IF active THEN "stop kernel" ELSE "gone"]
    /\ UNCHANGED <<flushFrame, active, mon, transitions, stuck, queue, errors, faults>>

\* Mutant: the exception of a failed start ends the flush thread.
StartKernelOnce ==
    /\ At("start kernel")
    /\ \/ mon' = mon \cup {"kernel"} /\ Goto("start comm") /\ UNCHANGED <<errors, faults>>
       \/ Fault /\ Error /\ Goto("gone") /\ UNCHANGED mon
    /\ UNCHANGED <<flushFrame, active, transitions, stuck, queue>>

\* A start that fails, by its result or an exception, is left to the next round.
StartKernel ==
    /\ At("start kernel")
    /\ \/ mon' = mon \cup {"kernel"} /\ Goto("start comm") /\ UNCHANGED <<errors, faults>>
       \/ Fault /\ Raise /\ UNCHANGED mon
    /\ UNCHANGED <<flushFrame, active, transitions, stuck, queue>>

\* A result that is not success has the kernel monitor stopped again; an
\* exception leaves it on.
StartComm ==
    /\ At("start comm")
    /\ \/ /\ mon' = mon \cup {"comm"} /\ active' = TRUE /\ stuck' = FALSE
          /\ Goto("mark") /\ UNCHANGED <<errors, faults>>
       \/ Fault /\ Goto("roll back") /\ UNCHANGED <<mon, active, stuck, errors>>
       \/ Fault /\ Raise /\ stuck' = TRUE /\ UNCHANGED <<mon, active>>
    /\ UNCHANGED <<flushFrame, transitions, queue>>

\* stop() of a monitor delivers what it has before it removes the callback; one
\* that fails, by its result or an exception, leaves the monitor as it is.
Stops(m) == buffered[m] = 0 /\ mon' = mon \ {m} /\ UNCHANGED faults
StopFails == Fault /\ stuck' = TRUE /\ UNCHANGED mon

\* Mutant: a failed start of the second monitor leaves the first one on.
RollBackNothing ==
    /\ At("roll back")
    /\ Raise
    /\ UNCHANGED <<flushFrame, mon, stuck, faults, active, transitions, queue>>

\* The result of the stop is not looked at; the start raises.
RollBack ==
    /\ At("roll back")
    /\ (Stops("kernel") /\ UNCHANGED stuck) \/ StopFails
    /\ Raise
    /\ UNCHANGED <<flushFrame, active, transitions, queue>>

\* A result that is not success is noted and the stop goes on; an exception
\* ends it, with the communication monitor and the flag as they were.
StopKernel ==
    /\ At("stop kernel")
    /\ \/ /\ Stops("kernel") /\ stuck' = FALSE
          /\ Goto("stop comm") /\ UNCHANGED errors
       \/ StopFails /\ Error /\ Goto("stop comm")
       \/ StopFails /\ Raise
    /\ UNCHANGED <<flushFrame, active, transitions, queue>>

StopComm ==
    /\ At("stop comm")
    /\ \/ /\ (Stops("comm") /\ UNCHANGED <<stuck, errors>>) \/ (StopFails /\ Error)
          /\ active' = FALSE /\ Goto("mark")
       \/ StopFails /\ Raise /\ UNCHANGED active
    /\ UNCHANGED <<flushFrame, transitions, queue>>

\* The transition is counted and written into the capture.
Mark ==
    /\ At("mark")
    /\ transitions' = transitions + 1
    /\ Enqueue(IF flush.enabled THEN "on" ELSE "off")
    /\ Goto(IF flush.final THEN "gone" ELSE Settled(active))
    /\ UNCHANGED <<flushFrame, active, mon, stuck, errors, faults>>

\* flush_all returns when what had completed is delivered, or fails, or raises.
FlushAll ==
    /\ At("flush")
    /\ \/ (\A m \in Monitors : buffered[m] = 0) /\ Goto("tick") /\ UNCHANGED <<errors, faults>>
       \/ Fault /\ Error /\ Goto("tick")
       \/ Fault /\ Raise
    /\ UNCHANGED <<flushFrame, active, mon, transitions, stuck, queue>>

Tick ==
    /\ At("tick")
    /\ Enqueue("tick") /\ Goto("wait")
    /\ UNCHANGED <<flushFrame, active, mon, transitions, stuck, errors, faults>>

Wait ==
    /\ At("wait")
    /\ Goto("top")
    /\ UNCHANGED <<flushFrame, active, mon, transitions, stuck, queue, errors, faults>>

FlushStep ==
    \/ Look \/ LeaveLoop \/ StartKernel \/ StartComm \/ RollBack
    \/ StopKernel \/ StopComm \/ Mark \/ Tick \/ Wait

-----------------------------------------------------------------------------
(* _write_loop                                                             *)

WriterAt(pc) == writer.pc = pc
WriterGoto(pc) == writer' = [writer EXCEPT !.pc = pc]
writerFrame == <<control_, app, lifecycle, device, dropped>>
Die(held) == Fault /\ Error /\ writer' = [pc |-> "dead", held |-> held]
Stored(r) == IF r = "tick" THEN << >> ELSE <<r>>

Open ==
    /\ WriterAt("open")
    /\ \/ WriterGoto("get") /\ UNCHANGED <<errors, faults>>
       \/ Die(<< >>)
    /\ UNCHANGED <<writerFrame, items, due, file, synced>>

\* The loop's condition, then a record written and counted, or an empty queue.
Get ==
    /\ WriterAt("get")
    /\ IF items = << >>
       THEN /\ WriterGoto(IF writerDone THEN "gone" ELSE "check")
            /\ UNCHANGED <<items, file, errors, faults>>
       ELSE /\ items' = Tail(items)
            /\ \/ /\ file' = file \o Stored(Head(items))
                  /\ WriterGoto("check") /\ UNCHANGED <<errors, faults>>
               \/ Die(Stored(Head(items))) /\ UNCHANGED file
    /\ UNCHANGED <<writerFrame, due, synced>>

\* Mutant: every record moves the deadline.
SyncIdle ==
    /\ WriterAt("check")
    /\ IF (due /\ items = << >>) \/ writerDone
       THEN synced' = Len(file) /\ due' = FALSE
       ELSE UNCHANGED synced /\ due' = FALSE
    /\ WriterGoto("get")
    /\ UNCHANGED <<writerFrame, items, file, errors, faults>>

\* flush and fsync when the deadline has passed or the end is near.
Sync ==
    /\ WriterAt("check")
    /\ IF due \/ writerDone
       THEN \/ /\ synced' = Len(file) /\ due' = FALSE
               /\ WriterGoto("get") /\ UNCHANGED <<errors, faults>>
            \/ Die(<< >>) /\ UNCHANGED <<synced, due>>
       ELSE WriterGoto("get") /\ UNCHANGED <<synced, due, errors, faults>>
    /\ UNCHANGED <<writerFrame, items, file>>

DeadlinePasses ==
    /\ ~due /\ writer.pc \in {"get", "check"}
    /\ due' = TRUE
    /\ UNCHANGED <<writerFrame, items, writer, file, synced, errors, faults>>

WriterStep == Open \/ Get \/ Sync

-----------------------------------------------------------------------------
(* start and stop                                                          *)

mainFrame == <<control_, active, mon, transitions, stuck, device, queue, due, file,
               synced, errors>>

\* start raises before its first thread runs, and may be called again; or after
\* it, when the flush thread cannot be started: then stop cannot join it.
Start ==
    /\ main = "new"
    /\ \/ /\ main' = "started"
          /\ WriterGoto("open") /\ Goto("top") /\ UNCHANGED faults
       \/ Fault /\ UNCHANGED <<main, writer, flush>>
       \/ Fault /\ main' = "broken" /\ WriterGoto("open") /\ UNCHANGED flush
    /\ UNCHANGED <<mainFrame, stopSet, writerDone, summary>>

\* Mutant: stop tells the writer before the flush thread is done.
StopAll ==
    /\ main \in {"started", "broken"}
    /\ stopSet' = TRUE /\ writerDone' = TRUE
    /\ main' = IF main = "started" THEN "joining" ELSE "broken"
    /\ UNCHANGED <<mainFrame, summary, writer, flush, faults>>

Stop ==
    /\ main \in {"started", "broken"}
    /\ stopSet' = TRUE
    /\ main' = IF main = "started" THEN "joining" ELSE "broken"
    /\ UNCHANGED <<mainFrame, writerDone, summary, writer, flush, faults>>

\* The flush thread is gone, or ten seconds are over and stop raises.
JoinFlush ==
    /\ main = "joining"
    /\ IF At("gone") THEN writerDone' = TRUE /\ main' = "draining"
                     ELSE main' = "started" /\ UNCHANGED writerDone
    /\ UNCHANGED <<mainFrame, stopSet, summary, writer, flush, faults>>

Clean == dropped = 0 /\ ~active /\ ~errors.last
Ended == writer.pc \in {"gone", "dead"}

\* The writer is gone or ten seconds are over: nobody looks which.
JoinWriter ==
    /\ main = "draining"
    /\ main' = "stopped"
    /\ summary' = [taken |-> TRUE, clean |-> Clean, ended |-> Ended]
    /\ UNCHANGED <<mainFrame, stopSet, writerDone, writer, flush, faults>>

MainStep == Start \/ Stop \/ JoinFlush \/ JoinWriter

Next ==
    \/ Toggle \/ (\E m \in Monitors : Complete(m) \/ Deliver(m))
    \/ FlushStep \/ FlushAll \/ WriterStep \/ DeadlinePasses \/ MainStep

Spec == Init /\ [][Next]_vars

\* The threads run, time passes and msPTI delivers what it holds.  flush_all
\* need not return.
FairSpec == /\ Spec
            /\ WF_vars(FlushStep) /\ WF_vars(WriterStep) /\ WF_vars(DeadlinePasses)
            /\ \A m \in Monitors : WF_vars(Deliver(m))
-----------------------------------------------------------------------------
FlushPcs == {"absent", "top", "start kernel", "start comm", "roll back", "stop kernel",
             "stop comm", "mark", "flush", "tick", "wait", "gone"}
Records == Monitors \cup Marks

\* Every variable has its type.
TypeOK ==
    /\ control \in BOOLEAN /\ stopSet \in BOOLEAN /\ writerDone \in BOOLEAN
    /\ active \in BOOLEAN /\ due \in BOOLEAN /\ stuck \in BOOLEAN
    /\ main \in {"new", "started", "broken", "joining", "draining", "stopped"}
    /\ flush \in [pc : FlushPcs, enabled : BOOLEAN, final : BOOLEAN]
    /\ mon \subseteq Monitors
    /\ buffered \in [Monitors -> Nat] /\ completed \in Nat
    /\ dropped \in Nat /\ transitions \in Nat
    /\ items \in Seq(Records \cup {"tick"}) /\ Len(items) <= QueueSize
    /\ writer \in [pc : {"absent", "open", "get", "check", "gone", "dead"},
                   held : Seq(Records)]
    /\ file \in Seq(Records) /\ synced \in 0..Len(file)
    /\ errors \in [callback : Nat, last : BOOLEAN]
    /\ summary \in [taken : BOOLEAN, clean : BOOLEAN, ended : BOOLEAN]
    /\ toggles \in 0..MaxToggles /\ faults \in 0..MaxFaults

\* The records of s that are in rs, in order.
Only(s, rs) ==
    LET upTo[i \in 0..Len(s)] ==
            IF i = 0 THEN << >>
            ELSE IF s[i] \in rs THEN Append(upTo[i - 1], s[i]) ELSE upTo[i - 1]
    IN  upTo[Len(s)]

\* A summary without a loss and without an error, of a writer that had ended,
\* is true of the file: every activity that completed is in it, and its marks
\* are the transitions, "on" and "off" in turn, ending with the collection off.
\* (The order of the two joins in stop; "若不为 0，采集结果不完整",
\* src/python/README.md:50.)
CleanSummaryIsTrue ==
    summary.taken /\ summary.clean /\ summary.ended =>
       LET marks == Only(file, Marks) IN
       /\ Len(Only(file, Monitors)) = completed
       /\ Len(marks) = transitions
       /\ \A i \in 1..Len(marks) : marks[i] = IF i % 2 = 1 THEN "on" ELSE "off"
       /\ transitions % 2 = 0 /\ mon = {}

\* Outside a switch either both monitors are on or none, as monitor_active
\* says, whichever start has failed and however often.  Where they are not, a
\* stop has failed or the second monitor's start has raised since the last switch
\* that went through, and last_error says that something has gone wrong.
\* (_set_monitor_active, 137-152, and its callers' handlers, 173 and 180.)
MonitorsAgree ==
    /\ flush.pc \in {"top", "flush", "tick", "wait", "gone"}
    /\ mon # IF active THEN Monitors ELSE {}
    => stuck /\ errors.last

\* The capture is a log: every record offered to it is either accepted or
\* counted as lost, what is accepted is stored in that order, and the writer
\* ends in good order only with all of it.  Offered are what the monitors have
\* delivered and the transitions.  (_enqueue, _put_control and _write_loop.)
Log == INSTANCE CaptureLog WITH
          offered <- completed - (buffered["kernel"] + buffered["comm"]) + transitions,
          accepted <- file \o writer.held \o Only(items, Records),
          stored <- Len(file),
          lost <- dropped + errors.callback,
          ended <- IF writer.pc = "gone" THEN "closed"
                   ELSE IF writer.pc = "dead" THEN "failed" ELSE "no"
ImplementsLog == Log!Spec

\* While the writer lives, what it has written reaches the disk.
\* ("Each 0.5 s batch is flushed and fsynced", 89.)
PeriodicallyDurable ==
    \A k \in 1..(MaxActivities + MaxToggles) :
       Len(file) >= k ~> synced >= k \/ Ended

Looping == main \in {"started", "joining"} /\ ~stopSet

\* The monitors follow the enable file, unless flush_all blocks for ever: left
\* at 1 both are on for good, left at 0 both off, whatever has failed before.
\* Beyond this is a monitor that disagrees with monitor_active since the last
\* switch: the loop believes the flag and does not try again.
\* (_flush_loop, 159-176.)
FollowsControl ==
    []<>~At("flush") =>
       /\ <>[](control /\ Looping) => <>[](active /\ (stuck \/ mon = Monitors))
       /\ <>[](~control /\ Looping) => <>[](~active /\ (stuck \/ mon = {}))
=============================================================================
