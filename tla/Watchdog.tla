------------------------------ MODULE Watchdog ------------------------------
(***************************************************************************)
(* src/flightrecorder/watchdog.py and the processes it watches: it polls   *)
(* the headers of their flight files, and copies all files to a snapshot   *)
(* when a live process has recorded nothing for Timeout or a process has   *)
(* exited.  The processes create their file (flight_init), record and exit *)
(* at any moment, between any two steps of the watchdog.                   *)
(*                                                                         *)
(* Process p is its own pid and its file the p-th in the sorted directory. *)
(* The pid in a header is 0 until flight_init has stored it, and the       *)
(* watchdog's alive(0) is true: kill(0, 0) succeeds, /proc/0 is not there. *)
(*                                                                         *)
(* Of a timestamp only its age matters: fresh, less than --timeout ago, or *)
(* not.  Growing old is a step of its own (Age), possible at any moment.   *)
(***************************************************************************)
EXTENDS Integers, FiniteSets

CONSTANTS
    NumProcs,   \* recorded processes are 1..NumProcs
    Early,      \* processes whose flight_init is done when the watchdog starts
    Monitored,  \* the --pid arguments
    MaxRecords  \* bound: records of one process

Procs == 1..NumProcs

ASSUME WatchdogAssumption ==
    /\ NumProcs \in Nat
    /\ Early \subseteq Procs /\ Monitored \subseteq Procs
    /\ MaxRecords \in Nat

\* What read_header finds: no file; too short or no magic; valid, but pid or
\* last_ns not stored; all stored.
Stages == {"none", "unreadable", "nopid", "nolast", "ready"}
Readable == {"nopid", "nolast", "ready"}

VARIABLES
    file,     \* file[p]: stage, write_seq, whether last_ns is fresh
    calls,    \* calls[p]: calls that published their record but not yet last_ns
    exited,   \* processes that have exited (gone or zombie)
    wd,       \* the loop: pc, files of the round, headers still to be judged
    seenStalls, seenExit,
    snap,     \* the snapshot being written, in its hidden directory
    dumps     \* snapshots under their final name (their content is snap's)

recorder == <<file, calls, exited>>
seen     == <<seenStalls, seenExit>>
vars     == <<recorder, wd, seen, snap, dumps>>

-----------------------------------------------------------------------------
NoSnap == [reason |-> "none", pid |-> 0, seq |-> 0, todo |-> {},
           meta |-> <<>>, copy |-> <<>>, errors |-> {}]
IdleLoop == [pc |-> "glob", files |-> {}, unread |-> {}, headers |-> <<>>]

Init ==
    /\ file = [p \in Procs |-> [stage |-> IF p \in Early THEN "ready" ELSE "none",
                                 seq |-> 0, fresh |-> p \in Early]]
    /\ calls = [p \in Procs |-> 0]
    /\ exited = {}
    /\ wd = IdleLoop
    /\ seenStalls = {} /\ seenExit = {}
    /\ snap = NoSnap /\ dumps = {}

\* Mutants: pid is unpacked from another field; a zombie counts as alive.
HeaderMisaligned(p) == [pid |-> NumProcs + 1, seq |-> file[p].seq, fresh |-> file[p].fresh]
AliveAsZombie(pid) == pid \in 0..NumProcs

Header(p) == [pid |-> IF file[p].stage = "nopid" THEN 0 ELSE p,
              seq |-> file[p].seq, fresh |-> file[p].fresh]

\* kill(pid, 0) succeeds and the process is no zombie.
Alive(pid) == pid \notin exited

Without(f, p) == [q \in DOMAIN f \ {p} |-> f[q]]
With(f, p, v) == [q \in DOMAIN f \cup {p} |-> IF q = p THEN v ELSE f[q]]
FirstOf(p, S) == p \in S /\ \A q \in S : p =< q

\* The timeout passes over the timestamp in the header.
Age(p) ==
    /\ file[p].fresh
    /\ file' = [file EXCEPT ![p].fresh = FALSE]
    /\ UNCHANGED <<calls, exited, wd, seen, snap, dumps>>

-----------------------------------------------------------------------------
(* The recorded processes.                                                 *)

\* flight_init: open, ftruncate, the plain stores of the header in an order
\* only the last one, of last_ns, is held to.
InitStore(p) ==
    /\ p \notin exited
    /\ \E s \in Stages :
          /\ \/ file[p].stage = "none" /\ s = "unreadable"
             \/ file[p].stage = "unreadable" /\ s \in {"nopid", "nolast"}
             \/ file[p].stage = "nopid" /\ s = "nolast"
          /\ file' = [file EXCEPT ![p].stage = s]
    /\ UNCHANGED <<calls, exited, wd, seen, snap, dumps>>

InitLastNs(p) ==
    /\ p \notin exited
    /\ file[p].stage = "nolast"
    /\ file' = [file EXCEPT ![p].stage = "ready", ![p].fresh = TRUE]
    /\ UNCHANGED <<calls, exited, wd, seen, snap, dumps>>

\* flight_record up to the publication of the record.
Record(p) ==
    /\ p \notin exited
    /\ file[p].stage = "ready"
    /\ file[p].seq < MaxRecords
    /\ file' = [file EXCEPT ![p].seq = @ + 1]
    /\ calls' = [calls EXCEPT ![p] = @ + 1]
    /\ UNCHANGED <<exited, wd, seen, snap, dumps>>

\* Its last store, of the timestamp taken before, which may be old by now; a
\* later call may have stored a newer one.
StoreLastNs(p) ==
    /\ p \notin exited
    /\ calls[p] > 0
    /\ calls' = [calls EXCEPT ![p] = @ - 1]
    /\ \E b \in BOOLEAN : file' = [file EXCEPT ![p].fresh = b]
    /\ UNCHANGED <<exited, wd, seen, snap, dumps>>

Exit(p) ==
    /\ p \notin exited
    /\ exited' = exited \cup {p}
    /\ UNCHANGED <<file, calls, wd, seen, snap, dumps>>

-----------------------------------------------------------------------------
(* The watchdog's loop.                                                    *)

Glob ==
    /\ wd.pc = "glob"
    /\ LET F == {p \in Procs : file[p].stage # "none"} IN
          wd' = [IdleLoop EXCEPT !.pc = "read", !.files = F, !.unread = F]
    /\ UNCHANGED <<recorder, seen, snap, dumps>>

\* A file that read_header refuses is left out of the round.
ReadHeader(p) ==
    /\ wd.pc = "read" /\ FirstOf(p, wd.unread)
    /\ wd' = [wd EXCEPT !.unread = @ \ {p},
                        !.headers = IF file[p].stage \in Readable
                                    THEN With(@, p, Header(p)) ELSE @]
    /\ UNCHANGED <<recorder, seen, snap, dumps>>

\* now = monotonic_ns(): what was fresh when it was read may be so no longer.
TakeNow ==
    /\ wd.pc = "read" /\ wd.unread = {}
    /\ \E S \in SUBSET DOMAIN wd.headers :
          wd' = [wd EXCEPT !.pc = "judge", !.headers =
                    [p \in DOMAIN @ |-> [@[p] EXCEPT !.fresh = @ /\ p \notin S]]]
    /\ UNCHANGED <<recorder, seen, snap, dumps>>

Stale(h) == ~h.fresh

\* partial.mkdir: every file of the round is to be copied.
Begin(reason, h) ==
    snap' = [NoSnap EXCEPT !.reason = reason, !.pid = h.pid, !.seq = h.seq,
                           !.todo = wd.files]

\* Mutants: stalls are remembered by pid alone; an exit is not remembered.
JudgeStallByPid(p) ==
    /\ wd.pc = "judge" /\ FirstOf(p, DOMAIN wd.headers)
    /\ LET h == wd.headers[p] IN
          /\ Alive(h.pid) /\ Stale(h) /\ \A k \in seenStalls : k[1] # h.pid
          /\ seenStalls' = seenStalls \cup {<<h.pid, h.seq>>}
          /\ Begin("stalled", h)
    /\ wd' = [wd EXCEPT !.pc = "snapshot", !.headers = Without(@, p)]
    /\ UNCHANGED <<recorder, seenExit, dumps>>
JudgeExitForgets(p) ==
    /\ wd.pc = "judge" /\ FirstOf(p, DOMAIN wd.headers)
    /\ LET h == wd.headers[p] IN
          /\ ~Alive(h.pid)
          /\ Begin("exit", h)
    /\ wd' = [wd EXCEPT !.pc = "snapshot", !.headers = Without(@, p)]
    /\ UNCHANGED <<recorder, seen, dumps>>
JudgeExitWhenStale(p) ==
    /\ wd.pc = "judge" /\ FirstOf(p, DOMAIN wd.headers)
    /\ LET h == wd.headers[p] IN
          /\ (Stale(h) \/ ~Alive(h.pid)) /\ h.pid \notin seenExit
          /\ seenExit' = seenExit \cup {h.pid}
          /\ Begin("exit", h)
    /\ wd' = [wd EXCEPT !.pc = "snapshot", !.headers = Without(@, p)]
    /\ UNCHANGED <<recorder, seenStalls, dumps>>

\* The process lives and has recorded nothing for Timeout.
JudgeStall(p) ==
    /\ wd.pc = "judge" /\ FirstOf(p, DOMAIN wd.headers)
    /\ LET h == wd.headers[p] IN
          /\ Alive(h.pid) /\ Stale(h) /\ <<h.pid, h.seq>> \notin seenStalls
          /\ seenStalls' = seenStalls \cup {<<h.pid, h.seq>>}
          /\ Begin("stalled", h)
    /\ wd' = [wd EXCEPT !.pc = "snapshot", !.headers = Without(@, p)]
    /\ UNCHANGED <<recorder, seenExit, dumps>>

JudgeExit(p) ==
    /\ wd.pc = "judge" /\ FirstOf(p, DOMAIN wd.headers)
    /\ LET h == wd.headers[p] IN
          /\ ~Alive(h.pid) /\ h.pid \notin seenExit
          /\ seenExit' = seenExit \cup {h.pid}
          /\ Begin("exit", h)
    /\ wd' = [wd EXCEPT !.pc = "snapshot", !.headers = Without(@, p)]
    /\ UNCHANGED <<recorder, seenStalls, dumps>>

\* Fresh, or captured before.
JudgeNothing(p) ==
    /\ wd.pc = "judge" /\ FirstOf(p, DOMAIN wd.headers)
    /\ LET h == wd.headers[p] IN
          \/ Alive(h.pid) /\ (~Stale(h) \/ <<h.pid, h.seq>> \in seenStalls)
          \/ ~Alive(h.pid) /\ h.pid \in seenExit
    /\ wd' = [wd EXCEPT !.headers = Without(@, p)]
    /\ UNCHANGED <<recorder, seen, snap, dumps>>

\* Every monitored process is dead: leave the loop.  Otherwise sleep.
EndRound ==
    /\ wd.pc = "judge" /\ DOMAIN wd.headers = {}
    /\ wd' = IF Monitored # {} /\ \A p \in Monitored : ~Alive(p)
             THEN [IdleLoop EXCEPT !.pc = "done"] ELSE IdleLoop
    /\ UNCHANGED <<recorder, seen, snap, dumps>>

-----------------------------------------------------------------------------
(* snapshot                                                                *)

\* The header for the metadata, then a copy of the file.
SnapHeader(p) ==
    /\ wd.pc = "snapshot" /\ FirstOf(p, snap.todo)
    /\ file[p].stage \in Readable
    /\ p \notin DOMAIN snap.meta
    /\ snap' = [snap EXCEPT !.meta = With(@, p, file[p].seq)]
    /\ UNCHANGED <<recorder, wd, seen, dumps>>

SnapCopy(p) ==
    /\ wd.pc = "snapshot" /\ FirstOf(p, snap.todo)
    /\ p \in DOMAIN snap.meta
    /\ snap' = [snap EXCEPT !.todo = @ \ {p}, !.copy = With(@, p, file[p].seq)]
    /\ UNCHANGED <<recorder, wd, seen, dumps>>

\* The header cannot be read, or the copy fails: an entry in "errors".
SnapSkip(p) ==
    /\ wd.pc = "snapshot" /\ FirstOf(p, snap.todo)
    /\ file[p].stage \notin Readable \/ p \in DOMAIN snap.meta
    /\ snap' = [snap EXCEPT !.todo = @ \ {p}, !.meta = Without(@, p),
                            !.errors = @ \cup {p}]
    /\ UNCHANGED <<recorder, wd, seen, dumps>>

Name(s) == [reason |-> s.reason, pid |-> s.pid, seq |-> s.seq]

\* Mutant: the snapshot gets its final name before the files are copied.
PublishEarly ==
    /\ wd.pc = "snapshot"
    /\ dumps' = dumps \cup {Name(snap)}
    /\ snap' = NoSnap
    /\ wd' = [wd EXCEPT !.pc = "judge"]
    /\ UNCHANGED <<recorder, seen>>

\* metadata.json, then the rename to the final name.
Publish ==
    /\ wd.pc = "snapshot" /\ snap.todo = {}
    /\ dumps' = dumps \cup {Name(snap)}
    /\ snap' = NoSnap
    /\ wd' = [wd EXCEPT !.pc = "judge"]
    /\ UNCHANGED <<recorder, seen>>

\* An error outside the guarded reads and copies (mkdir, metadata.json, rename)
\* ends the program, and so may its user: the hidden directory stays behind.
Die ==
    /\ wd.pc \notin {"done", "dead"}
    /\ wd' = [IdleLoop EXCEPT !.pc = "dead"]
    /\ snap' = NoSnap /\ seenStalls' = {} /\ seenExit' = {}
    /\ UNCHANGED <<recorder, dumps>>

-----------------------------------------------------------------------------
WatchdogStep ==
    \/ Glob \/ TakeNow \/ EndRound \/ Publish
    \/ \E p \in Procs :
          \/ ReadHeader(p)
          \/ JudgeStall(p) \/ JudgeExit(p) \/ JudgeNothing(p)
          \/ SnapHeader(p) \/ SnapCopy(p) \/ SnapSkip(p)

ProcStep(p) ==
    InitStore(p) \/ InitLastNs(p) \/ Record(p) \/ StoreLastNs(p) \/ Exit(p)

Next == WatchdogStep \/ Die \/ \E p \in Procs : ProcStep(p) \/ Age(p)

Spec == Init /\ [][Next]_vars

\* Time passes and the watchdog is scheduled; its system calls return.
FairSpec == Spec /\ WF_vars(WatchdogStep) /\ \A p \in Procs : WF_vars(Age(p))
-----------------------------------------------------------------------------
\* The snapshots in the output directory.
Dumps(reason) == {d \in dumps : d.reason = reason}

Headers == [pid : 0..NumProcs, seq : 0..MaxRecords, fresh : BOOLEAN]
PartialMap(f, S) == DOMAIN f \subseteq Procs /\ \A p \in DOMAIN f : f[p] \in S
Reasons == {"stalled", "exit"}
DumpNames == [reason : Reasons, pid : 0..NumProcs, seq : 0..MaxRecords]

\* Every variable has its type.
TypeOK ==
    /\ file \in [Procs -> [stage : Stages, seq : 0..MaxRecords, fresh : BOOLEAN]]
    /\ calls \in [Procs -> 0..MaxRecords]
    /\ exited \subseteq Procs
    /\ wd.pc \in {"glob", "read", "judge", "snapshot", "done", "dead"}
    /\ wd.files \subseteq Procs /\ wd.unread \subseteq wd.files
    /\ PartialMap(wd.headers, Headers)
    /\ seenStalls \subseteq (0..NumProcs) \X (0..MaxRecords)
    /\ seenExit \subseteq Procs
    /\ snap.reason \in Reasons \cup {"none"} /\ snap.todo \subseteq Procs
    /\ snap.pid \in 0..NumProcs /\ snap.seq \in 0..MaxRecords
    /\ snap.errors \subseteq Procs
    /\ PartialMap(snap.meta, 0..MaxRecords) /\ PartialMap(snap.copy, 0..MaxRecords)
    /\ dumps \subseteq DumpNames

\* A snapshot gets its final name when it is complete: each rank in its
\* metadata has a copy no older than that entry, and unless its copy failed
\* the file of the process that caused it is there, no older than the header
\* it was judged by.  ("先写隐藏 partial 目录，完成 metadata.json 后原子
\* rename", VALIDATION.md:45; snapshot.)
DumpsAreComplete ==
    [][dumps' # dumps =>
          /\ snap.todo = {}
          /\ DOMAIN snap.copy = DOMAIN snap.meta
          /\ \A p \in DOMAIN snap.meta : snap.meta[p] =< snap.copy[p]
          /\ snap.pid \notin snap.errors \cup {0} =>
                snap.pid \in DOMAIN snap.copy /\ snap.seq =< snap.copy[snap.pid]
      ]_vars

\* What the exit snapshot of a process holds of its file is the file as the
\* process left it.  (alive is asked before the copy is made.)
ExitDumpIsFinal ==
    LET p == snap.pid IN
    snap.reason = "exit" =>
       p \in exited /\ (p \in DOMAIN snap.copy => snap.copy[p] = file[p].seq)

\* A stall is captured once for each point where a process stops, an exit once:
\* no snapshot repeats one that is there.
\* (seen_stalls and seen_exit over many rounds.)
CapturedOnce ==
    \A d \in dumps :
       ~ /\ wd.pc = "snapshot"
         /\ d.reason = snap.reason /\ d.pid = snap.pid
         /\ d.reason = "stalled" => d.seq = snap.seq

Watching == wd.pc \notin {"done", "dead"}

\* A process that lives but records nothing more is captured: at the very
\* record where it stopped, whatever was captured before.  (main's loop.)
StallCaptured ==
    \A p \in Procs :
       file[p].stage = "ready" /\ p \notin exited
          ~> \/ \E s \in Dumps("stalled") : s.pid = p /\ s.seq = file[p].seq
             \/ p \in exited \/ ~Watching

\* The exit of a process whose pid is in its header is captured while the
\* watchdog goes on watching another.  (main's loop.)
ExitCaptured ==
    \A p \in Procs :
       p \in exited /\ file[p].stage \in {"nolast", "ready"}
          ~> (\E s \in Dumps("exit") : s.pid = p) \/ ~Watching

\* What VALIDATION.md:17 and test_watchdog_integration.py:58 say of the end: a
\* process captured stalled and then exited has its exit snapshot when the
\* loop ends.
NoExitMissed ==
    wd.pc = "done" =>
       \A s \in Dumps("stalled") : s.pid \in Monitored =>
          \E e \in Dumps("exit") : e.pid = s.pid
=============================================================================
