--------------------------- MODULE MsptiCollector ---------------------------
(***************************************************************************)
(* The msPTI collector of one worker process: the library of               *)
(* src/src/hang_mspti.cpp, the Python worker thread of                     *)
(* src/python/hang_mspti.py that starts, toggles, flushes and stops it as  *)
(* the control file says, and msPTI, external code that fills buffers of   *)
(* the library's pool with completed activities and hands them back.       *)
(*                                                                         *)
(* The ring is what a reader finds in it: the number of activity records,  *)
(* the last status record, whether a status reports an error.  FlightRing  *)
(* models how a record gets there.  A buffer holds one activity.           *)
(***************************************************************************)
EXTENDS Integers, FiniteSets

CONSTANTS
    NumBuffers,    \* BUFFER_COUNT
    NumSwitches,   \* msPTI domains and activity kinds, switched in this order
    MaxToggles,    \* bound: writes to the control file
    MaxFaults,     \* bound: failing calls to msPTI or the operating system
    MaxActivities  \* bound: activities that complete

ASSUME CollectorAssumption ==
    /\ NumBuffers \in Nat \ {0} /\ NumSwitches \in Nat \ {0}
    /\ MaxToggles \in Nat /\ MaxFaults \in Nat /\ MaxActivities \in Nat

Buffers == 1..NumBuffers
Switches == 1..NumSwitches

VARIABLES
    control,    \* the control file says 1
    main,       \* the application's thread: before, in or after start and stop
    stopSet,    \* _stop
    w,          \* the worker thread: pc, active, collecting
    lib,        \* g_header is set, g_subscriber is set, g_enabled
    call,       \* the library call in progress: where it is, why, next switch
    gates,      \* external: switches that are on
    busy,       \* g_pool_busy
    buf,        \* external: where each buffer is, and whether it has a record
    owed,       \* external: buffers the flush in progress waits for
    scan,       \* buffer_request: the next buffer to look at, 0 if there is no request
    made,       \* the ring's file exists
    ring,       \* what the file shows: delivered, dropped, status, error
    errorFile,  \* mspti-<pid>.error exists
    completed,  \* external: activities completed while the ring was mapped
    unflushed,  \* history: the flush of hang_mspti_stop has failed with a buffer outside
    toggles, faults

thread   == <<main, stopSet, w>>
library  == <<lib, call, made, unflushed>>
pool     == <<busy, buf, owed, scan, completed>>
bounds   == <<toggles, faults>>
vars     == <<control, thread, library, gates, pool, ring, errorFile, bounds>>

NoCall == [op |-> "none", why |-> "none", i |-> 0]

Init ==
    /\ control \in BOOLEAN
    /\ main = "before" /\ stopSet = FALSE
    /\ w = [pc |-> "absent", active |-> FALSE, collecting |-> FALSE]
    /\ lib = [mapped |-> FALSE, subscribed |-> FALSE, enabled |-> FALSE]
    /\ call = NoCall /\ made = FALSE
    /\ gates = {}
    /\ busy = [b \in Buffers |-> FALSE]
    /\ buf = [b \in Buffers |-> [at |-> "pool", full |-> FALSE]]
    /\ owed = {} /\ scan = 0 /\ completed = 0
    /\ ring = [delivered |-> 0, dropped |-> 0, status |-> "none", error |-> FALSE]
    /\ errorFile = FALSE /\ unflushed = FALSE
    /\ toggles = 0 /\ faults = 0

Fault == faults < MaxFaults /\ faults' = faults + 1

Outside == {b \in Buffers : buf[b].at # "pool"}
Full == {b \in Buffers : buf[b].full}

-----------------------------------------------------------------------------
(* External: the operator and msPTI.                                       *)

Toggle ==
    /\ toggles < MaxToggles /\ toggles' = toggles + 1
    /\ control' = ~control
    /\ UNCHANGED <<thread, library, gates, pool, ring, errorFile, faults>>

\* An activity completes while its kind is on, the last switch standing for
\* all kinds.  With no buffer at hand msPTI asks for one, one request at a time.
Complete ==
    /\ scan = 0 /\ NumSwitches \in gates /\ completed < MaxActivities /\ lib.mapped
    /\ completed' = completed + 1 /\ scan' = 1
    /\ UNCHANGED <<control, thread, library, gates, busy, buf, owed, ring, errorFile, bounds>>

-----------------------------------------------------------------------------
(* buffer_request                                                          *)

requestFrame == <<control, thread, library, gates, owed, completed, errorFile, bounds>>

\* The exchange fails: on to the next buffer.
RequestOn ==
    /\ scan \in Buffers /\ busy[scan]
    /\ scan' = scan + 1
    /\ UNCHANGED <<requestFrame, busy, buf, ring>>

RequestHit ==
    /\ scan \in Buffers /\ ~busy[scan]
    /\ busy' = [busy EXCEPT ![scan] = TRUE]
    /\ buf' = [buf EXCEPT ![scan] = [at |-> "held", full |-> TRUE]]
    /\ scan' = 0
    /\ UNCHANGED <<requestFrame, ring>>

\* Mutant: an exhausted pool is not counted.
RequestUncounted ==
    /\ scan > NumBuffers
    /\ scan' = 0
    /\ UNCHANGED <<requestFrame, busy, buf, ring>>

\* Each buffer was busy when the scan came to it; some may be free again.
RequestMiss ==
    /\ scan > NumBuffers
    /\ ring' = IF lib.mapped THEN [ring EXCEPT !.dropped = @ + 1] ELSE ring
    /\ scan' = 0
    /\ UNCHANGED <<requestFrame, busy, buf>>

RequestStep == RequestOn \/ RequestHit \/ RequestMiss

-----------------------------------------------------------------------------
(* buffer_complete                                                         *)

\* msPTI hands a buffer back, on a thread of its own or inside a flush.
HandBack(b) ==
    /\ buf[b].at = "held"
    /\ buf' = [buf EXCEPT ![b].at = "back"]
    /\ UNCHANGED <<control, thread, library, gates, busy, owed, scan, completed, ring,
                   errorFile, bounds>>

\* record: nothing is written when the ring is not mapped.
Deliver(b) ==
    /\ buf[b].at = "back" /\ buf[b].full
    /\ buf' = [buf EXCEPT ![b].full = FALSE]
    /\ ring' = IF lib.mapped THEN [ring EXCEPT !.delivered = @ + 1] ELSE ring
    /\ UNCHANGED <<control, thread, library, gates, busy, owed, scan, completed, errorFile,
                   bounds>>

\* Mutant: the buffer is free again before its records are read.
ReleaseUnread(b) ==
    /\ buf[b].at = "back" /\ busy[b]
    /\ busy' = [busy EXCEPT ![b] = FALSE]
    /\ UNCHANGED <<control, thread, library, gates, buf, owed, scan, completed, ring,
                   errorFile, bounds>>

Release(b) ==
    /\ buf[b].at = "back" /\ ~buf[b].full
    /\ busy' = [busy EXCEPT ![b] = FALSE]
    /\ buf' = [buf EXCEPT ![b].at = "pool"]
    /\ owed' = owed \ {b}
    /\ UNCHANGED <<control, thread, library, gates, scan, completed, ring, errorFile, bounds>>

-----------------------------------------------------------------------------
(* hang_mspti_start, hang_mspti_set_enabled and hang_mspti_stop, one msPTI  *)
(* call at a time.  The caller takes the result "ok" or "failed".           *)

In(op) == call.op = op
Call(op, why) == call' = [op |-> op, why |-> why, i |-> 1]
libraryFrame == <<control, thread, busy, buf, scan, completed, errorFile, toggles>>

Unmapped(l) == [l EXCEPT !.mapped = FALSE, !.subscribed = FALSE]

\* open with O_EXCL, ftruncate, mmap, the header, the pool, subscribe.
StartMap ==
    /\ In("start") /\ ~made
    /\ made' = TRUE
    /\ lib' = [lib EXCEPT !.mapped = TRUE, !.subscribed = TRUE]
    /\ Call("enable", "start")
    /\ UNCHANGED <<libraryFrame, gates, owed, ring, faults, unflushed>>

\* The file exists; or it cannot be made, sized or mapped; or the pool or the
\* subscription fails when it is mapped, which the file reports.
StartFails ==
    /\ In("start")
    /\ \/ made /\ UNCHANGED <<made, ring, faults>>
       \/ ~made /\ Fault /\ UNCHANGED <<made, ring>>
       \/ ~made /\ Fault /\ made' = TRUE
          /\ ring' = [ring EXCEPT !.status = "error", !.error = TRUE]
    /\ call' = [call EXCEPT !.op = "failed"]
    /\ UNCHANGED <<libraryFrame, gates, owed, lib, unflushed>>

Switching == call.op \in {"enable", "disable"}

\* Mutant: the loop over the switches runs one past the last.
SwitchOkPastLast ==
    /\ Switching /\ call.i \in 1..(NumSwitches + 1)
    /\ In("disable") /\ call.i = NumSwitches => scan = 0
    /\ gates' = IF In("enable") THEN gates \cup {call.i} ELSE gates \ {call.i}
    /\ call' = [call EXCEPT !.i = @ + 1]
    /\ UNCHANGED <<libraryFrame, lib, made, unflushed, owed, ring, faults>>

\* Before msPTI has switched the last kind off, a request of it has ended.
SwitchOk ==
    /\ Switching /\ call.i \in Switches
    /\ In("disable") /\ call.i = NumSwitches => scan = 0
    /\ gates' = IF In("enable") THEN gates \cup {call.i} ELSE gates \ {call.i}
    /\ call' = [call EXCEPT !.i = @ + 1]
    /\ UNCHANGED <<libraryFrame, lib, made, unflushed, owed, ring, faults>>

\* Mutant: an error of msPTI leaves no status record.
SwitchFailsSilently ==
    /\ Switching /\ call.i \in Switches
    /\ Fault
    /\ lib' = IF call.why = "toggle" THEN lib ELSE Unmapped(lib)
    /\ call' = [call EXCEPT !.op = IF call.why = "stop" THEN "ok" ELSE "failed"]
    /\ UNCHANGED <<libraryFrame, gates, made, unflushed, owed, ring>>

\* The first error ends the sequence: switches stay as they are and so does
\* g_enabled.  A start is undone up to the map; stop does not look at it.
SwitchFails ==
    /\ Switching /\ call.i \in Switches
    /\ Fault
    /\ ring' = [ring EXCEPT !.status = "error", !.error = TRUE]
    /\ lib' = IF call.why = "toggle" THEN lib ELSE Unmapped(lib)
    /\ call' = [call EXCEPT !.op = IF call.why = "stop" THEN "ok" ELSE "failed"]
    /\ UNCHANGED <<libraryFrame, gates, made, unflushed, owed>>

Switched ==
    /\ Switching /\ call.i \notin Switches
    /\ ring' = [ring EXCEPT !.status = IF In("enable") THEN "enabled" ELSE "disabled"]
    /\ LET l == [lib EXCEPT !.enabled = In("enable")] IN
          lib' = IF call.why = "stop" THEN Unmapped(l) ELSE l
    /\ call' = [call EXCEPT !.op = "ok"]
    /\ UNCHANGED <<libraryFrame, gates, made, unflushed, owed, faults>>

\* msptiActivityFlushAll waits for the buffers msPTI has, or fails: set_enabled_locked
\* and hang_mspti_stop do not look at its result, and record nothing.
FlushEnds == IF owed = {} THEN UNCHANGED faults ELSE Fault

\* Disabling begins with a flush.
FlushedFirst ==
    /\ In("flush") /\ FlushEnds /\ owed' = {}
    /\ Call("disable", call.why)
    /\ UNCHANGED <<libraryFrame, lib, made, unflushed, gates, ring>>

\* stop flushes, then disables if enabled, then unsubscribes and unmaps.
StopFlushed ==
    /\ In("stop") /\ FlushEnds
    /\ unflushed' = (owed # {})
    /\ IF lib.enabled
       THEN Call("flush", "stop") /\ owed' = Outside /\ UNCHANGED lib
       ELSE call' = [call EXCEPT !.op = "ok"] /\ lib' = Unmapped(lib) /\ owed' = {}
    /\ UNCHANGED <<libraryFrame, made, gates, ring>>

LibraryStep ==
    \/ StartMap \/ StartFails \/ SwitchOk \/ SwitchFails \/ Switched
    \/ FlushedFirst \/ StopFlushed

-----------------------------------------------------------------------------
(* The worker thread of hang_mspti.start.                                  *)

workerFrame == <<control, main, stopSet, lib, made, unflushed, gates, busy, buf, scan,
                 completed, toggles>>

\* Mutant: collection is disabled when the file says so, but not enabled again.
LookDisablesOnly ==
    /\ w.pc = "look" /\ ~stopSet
    /\ IF control /\ ~w.active
       THEN Call("start", "start") /\ w' = [w EXCEPT !.pc = "calling"] /\ UNCHANGED owed
       ELSE IF w.active /\ w.collecting /\ ~control
       THEN Call("flush", "toggle") /\ owed' = Outside /\ w' = [w EXCEPT !.pc = "calling"]
       ELSE /\ w' = [w EXCEPT !.pc = IF w.collecting THEN "flush" ELSE "wait"]
            /\ UNCHANGED <<call, owed>>
    /\ UNCHANGED <<workerFrame, ring, errorFile, faults>>

\* The next round: start, toggle, or nothing but a flush if collecting.
Look ==
    /\ w.pc = "look" /\ ~stopSet
    /\ IF control /\ ~w.active
       THEN Call("start", "start") /\ w' = [w EXCEPT !.pc = "calling"] /\ UNCHANGED owed
       ELSE IF w.active /\ control # w.collecting
       THEN /\ IF control THEN Call("enable", "toggle") /\ UNCHANGED owed
                         ELSE Call("flush", "toggle") /\ owed' = Outside
            /\ w' = [w EXCEPT !.pc = "calling"]
       ELSE /\ w' = [w EXCEPT !.pc = IF w.collecting THEN "flush" ELSE "wait"]
            /\ UNCHANGED <<call, owed>>
    /\ UNCHANGED <<workerFrame, ring, errorFile, faults>>

\* Reading the control file fails other than by its absence: the thread dies.
LookRaises ==
    /\ w.pc = "look" /\ ~stopSet
    /\ Fault
    /\ w' = [w EXCEPT !.pc = "dead"]
    /\ UNCHANGED <<workerFrame, call, owed, ring, errorFile>>

\* Mutant: collecting keeps its old value.
TakeOkForgets ==
    /\ w.pc = "calling" /\ In("ok") /\ call.why # "stop"
    /\ w' = [w EXCEPT !.active = TRUE, !.pc = "wait"]
    /\ call' = NoCall
    /\ UNCHANGED <<workerFrame, owed, ring, errorFile, faults>>

TakeOk ==
    /\ w.pc = "calling" /\ In("ok") /\ call.why # "stop"
    /\ LET on == call.why = "start" \/ ~w.collecting IN
          w' = [active |-> TRUE, collecting |-> on, pc |-> IF on THEN "flush" ELSE "wait"]
    /\ call' = NoCall
    /\ UNCHANGED <<workerFrame, owed, ring, errorFile, faults>>

\* The thread writes the error file and returns.
TakeError ==
    /\ w.pc = "calling" /\ In("failed")
    /\ w' = [w EXCEPT !.pc = "dead"]
    /\ errorFile' = TRUE
    /\ call' = NoCall
    /\ UNCHANGED <<workerFrame, owed, ring, faults>>

\* hang_mspti_flush.  Its error is recorded and not looked at.
Flush ==
    /\ w.pc = "flush"
    /\ w' = [w EXCEPT !.pc = "flushing"] /\ owed' = Outside
    /\ UNCHANGED <<workerFrame, call, ring, errorFile, faults>>

Flushed ==
    /\ w.pc = "flushing" /\ owed = {}
    /\ w' = [w EXCEPT !.pc = "wait"]
    /\ UNCHANGED <<workerFrame, call, owed, ring, errorFile, faults>>

FlushFails ==
    /\ w.pc = "flushing"
    /\ Fault
    /\ ring' = [ring EXCEPT !.status = "error", !.error = TRUE]
    /\ w' = [w EXCEPT !.pc = "wait"] /\ owed' = {}
    /\ UNCHANGED <<workerFrame, call, errorFile>>

Wait ==
    /\ w.pc = "wait"
    /\ w' = [w EXCEPT !.pc = "look"]
    /\ UNCHANGED <<workerFrame, call, owed, ring, errorFile, faults>>

\* Mutant: the final stop does not flush first.
LeaveUnflushed ==
    /\ w.pc = "look" /\ stopSet
    /\ IF w.active THEN Call("stop", "stop") /\ w' = [w EXCEPT !.pc = "calling"]
                   ELSE w' = [w EXCEPT !.pc = "gone"] /\ UNCHANGED call
    /\ UNCHANGED <<workerFrame, owed, ring, errorFile, faults>>

Leave ==
    /\ w.pc = "look" /\ stopSet
    /\ IF w.active
       THEN Call("stop", "stop") /\ owed' = Outside /\ w' = [w EXCEPT !.pc = "calling"]
       ELSE w' = [w EXCEPT !.pc = "gone"] /\ UNCHANGED <<call, owed>>
    /\ UNCHANGED <<workerFrame, ring, errorFile, faults>>

Left ==
    /\ w.pc = "calling" /\ In("ok") /\ call.why = "stop"
    /\ w' = [w EXCEPT !.pc = "gone"]
    /\ call' = NoCall
    /\ UNCHANGED <<workerFrame, owed, ring, errorFile, faults>>

WorkerStep ==
    \/ Look \/ LookRaises \/ TakeOk \/ TakeError
    \/ Flush \/ Flushed \/ FlushFails \/ Wait \/ Leave \/ Left

-----------------------------------------------------------------------------
(* start and stop, on the application's thread.                            *)

mainFrame == <<control, lib, made, unflushed, gates, pool, ring, errorFile, bounds>>

\* With the file at 1 the library is started at once, else by the worker.
StartCall ==
    /\ main = "before"
    /\ IF control THEN Call("start", "start") /\ main' = "starting" /\ UNCHANGED w
                  ELSE main' = "running" /\ w' = [w EXCEPT !.pc = "look"] /\ UNCHANGED call
    /\ UNCHANGED <<mainFrame, stopSet>>

Started ==
    /\ main = "starting" /\ In("ok")
    /\ main' = "running" /\ call' = NoCall
    /\ w' = [pc |-> "look", active |-> TRUE, collecting |-> TRUE]
    /\ UNCHANGED <<mainFrame, stopSet>>

\* start raises and may be called again.
StartRaises ==
    /\ main = "starting" /\ In("failed")
    /\ main' = "before" /\ call' = NoCall
    /\ UNCHANGED <<mainFrame, stopSet, w>>

StopCall ==
    /\ main = "running"
    /\ stopSet' = TRUE
    /\ main' = IF w.pc \in {"gone", "dead"} THEN "returned" ELSE "joining"
    /\ UNCHANGED <<mainFrame, call, w>>

\* The thread has ended or two seconds have passed.
JoinReturns ==
    /\ main = "joining"
    /\ main' = "returned"
    /\ UNCHANGED <<mainFrame, call, stopSet, w>>

MainStep == StartCall \/ Started \/ StartRaises \/ StopCall \/ JoinReturns

BufferStep(b) == Deliver(b) \/ Release(b)

Next ==
    \/ Toggle \/ Complete \/ RequestStep
    \/ \E b \in Buffers : HandBack(b) \/ BufferStep(b)
    \/ LibraryStep \/ WorkerStep \/ MainStep

Spec == Init /\ [][Next]_vars

\* The threads run.  msPTI need never hand a buffer back: a flush may block.
FairSpec == /\ Spec
            /\ WF_vars(LibraryStep) /\ WF_vars(WorkerStep)
            /\ WF_vars(Started \/ StartRaises \/ JoinReturns)
            /\ WF_vars(RequestStep) /\ \A b \in Buffers : WF_vars(BufferStep(b))
-----------------------------------------------------------------------------
WorkerPcs == {"absent", "look", "calling", "flush", "flushing", "wait", "gone", "dead"}
CallOps == {"none", "start", "enable", "flush", "disable", "stop", "ok", "failed"}

\* Every variable has its type.
TypeOK ==
    /\ control \in BOOLEAN /\ stopSet \in BOOLEAN /\ made \in BOOLEAN
    /\ errorFile \in BOOLEAN /\ unflushed \in BOOLEAN
    /\ main \in {"before", "starting", "running", "joining", "returned"}
    /\ w \in [pc : WorkerPcs, active : BOOLEAN, collecting : BOOLEAN]
    /\ lib \in [mapped : BOOLEAN, subscribed : BOOLEAN, enabled : BOOLEAN]
    /\ call \in [op : CallOps, why : {"none", "start", "toggle", "stop"},
                 i : 0..(NumSwitches + 1)]
    /\ gates \subseteq Switches
    /\ busy \in [Buffers -> BOOLEAN]
    /\ buf \in [Buffers -> [at : {"pool", "held", "back"}, full : BOOLEAN]]
    /\ owed \subseteq Buffers /\ scan \in 0..(NumBuffers + 1)
    /\ ring \in [delivered : 0..MaxActivities, dropped : 0..MaxActivities,
                 status : {"none", "enabled", "disabled", "error"}, error : BOOLEAN]
    /\ completed \in 0..MaxActivities
    /\ toggles \in 0..MaxToggles /\ faults \in 0..MaxFaults

\* A buffer is busy in the library's pool exactly while msPTI has it or its
\* records are being read: it is not handed out twice and not leaked.
\* (buffer_request and buffer_complete on different threads.)
BufferHasOneHolder == {b \in Buffers : busy[b]} = Outside

\* Nothing is lost silently: an activity completed under a mapped ring is in
\* it, in a buffer, counted as dropped, or a buffer is being looked for, through
\* every disable and enable.
\* ("池耗尽时增加 `dropped_buffers`", MSPTI_FLIGHT_RECORDER.md:57.)
AccountedFor ==
    lib.mapped =>
       completed = ring.delivered + Cardinality(Full) + ring.dropped
                   + (IF scan = 0 THEN 0 ELSE 1)

\* If collection was already disabled when the worker stops, nothing that
\* completed before is left out of the file, nor out of its counts, whatever
\* failed before, an earlier flush among it.  It is if the flush of stop itself
\* fails: hang_mspti_stop unmaps the file all the same and no status tells of it.
\* (The flush of hang_mspti_stop, after which nothing more can complete.)
KeptAcrossStop ==
    w.pc = "gone" /\ w.active /\ ~w.collecting /\ ~unflushed =>
       completed = ring.delivered + ring.dropped

\* Between its calls the worker's two booleans agree with the library's
\* globals, whatever failed before; so a toggle is never lost nor repeated.
\* (active and collecting of worker, g_header and g_enabled.)
MirrorsLibrary ==
    w.pc \in {"look", "flush", "flushing", "wait"} =>
       w.active = lib.mapped /\ w.collecting = lib.enabled

\* The file tells the state of the collection: without an error in it the
\* switches are all on or all off, as its last status record says, and all
\* off when the ring is closed.  (set_enabled_locked, its callers and check;
\* "先看 `status`（含启停和错误）", MSPTI_FLIGHT_RECORDER.md:66.)
SwitchesAsReported ==
    call.op = "none" /\ ~ring.error =>
       /\ gates = IF lib.mapped /\ lib.enabled THEN Switches ELSE {}
       /\ lib.mapped => ring.status = IF lib.enabled THEN "enabled" ELSE "disabled"

Looping == w.pc \notin {"absent", "gone", "dead"} /\ ~stopSet
Flushing == w.pc = "flushing" \/ call.op \in {"flush", "stop"}

\* The collection follows the control file: as long as the worker runs and
\* no flush blocks for ever, a file left at 1 switches everything on for good,
\* and at 0 off.  Not off, if it never started: a start that fails in the
\* middle leaves switches on that nothing turns off.
\* (MSPTI_FLIGHT_RECORDER.md:46.)
FollowsControl ==
    /\ <>[](control /\ Looping) /\ []<>~Flushing => <>[](gates = Switches)
    /\ <>[](~control /\ Looping /\ w.active) /\ []<>~Flushing => <>[](gates = {})
=============================================================================
