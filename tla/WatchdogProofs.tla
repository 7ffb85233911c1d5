--------------------------- MODULE WatchdogProofs ---------------------------
(***************************************************************************)
(* Theorems about the watchdog for every number of processes, of which any *)
(* may be early or monitored: a snapshot that gets its final name is       *)
(* complete, the snapshot of an exit holds what the process left, and no   *)
(* stall or exit is captured twice.  The processes go on between any two   *)
(* steps of the watchdog.                                                  *)
(***************************************************************************)
EXTENDS Watchdog, TLAPS

USE DEF recorder, seen

-----------------------------------------------------------------------------
\* The loop and the snapshot have the fields they begin with; a call has published
\* its record before it stores last_ns.
Shapes ==
    /\ TypeOK
    /\ wd = [pc |-> wd.pc, files |-> wd.files, unread |-> wd.unread, headers |-> wd.headers]
    /\ snap = [reason |-> snap.reason, pid |-> snap.pid, seq |-> snap.seq,
               todo |-> snap.todo, meta |-> snap.meta, copy |-> snap.copy,
               errors |-> snap.errors]
    /\ \A p \in Procs : calls[p] =< file[p].seq

\* A header of the round is of a file of the round, with its process's pid or 0,
\* and the file has not gone back since it was read.
HeadersInv ==
    \A p \in DOMAIN wd.headers :
       /\ p \in wd.files
       /\ wd.headers[p].pid \in {0, p}
       /\ wd.headers[p].seq =< file[p].seq

\* The snapshot is made between judging its header and its publication.
SnapshotInv ==
    /\ wd.pc # "snapshot" => snap.reason = "none"
    /\ wd.pc = "snapshot" =>
          /\ snap.reason \in Reasons
          /\ snap.todo \subseteq wd.files
          /\ wd.files \subseteq snap.todo \cup snap.errors \cup DOMAIN snap.copy
          /\ snap.pid # 0 => snap.pid \in wd.files /\ snap.seq =< file[snap.pid].seq

\* What has been copied so far: a file's entry in the metadata comes first.
CopiesInv ==
    /\ DOMAIN snap.copy \subseteq DOMAIN snap.meta
    /\ DOMAIN snap.meta \subseteq snap.todo \cup DOMAIN snap.copy
    /\ DOMAIN snap.copy \cap snap.todo = {}
    /\ \A p \in DOMAIN snap.meta : snap.meta[p] =< file[p].seq
    /\ \A p \in DOMAIN snap.copy : snap.meta[p] =< snap.copy[p]
    /\ snap.pid \in DOMAIN snap.copy => snap.seq =< snap.copy[snap.pid]

\* What has been captured is remembered as long as the watchdog runs.
Key(s) == <<s.pid, s.seq>>
Remembered(s) ==
    /\ s.reason = "stalled" => Key(s) \in seenStalls
    /\ s.reason = "exit" => s.pid \in seenExit
SeenInv ==
    /\ wd.pc # "dead" => \A d \in dumps : Remembered(d)
    /\ Remembered(snap)

WatchInv ==
    /\ Shapes /\ HeadersInv /\ SnapshotInv /\ CopiesInv /\ SeenInv
    /\ ExitDumpIsFinal /\ CapturedOnce

-----------------------------------------------------------------------------
(* What the steps do.                                                      *)

LEMMA WithIs ==
  ASSUME NEW f, NEW p, NEW v
  PROVE  /\ DOMAIN With(f, p, v) = DOMAIN f \cup {p}
         /\ With(f, p, v)[p] = v
         /\ \A q \in DOMAIN f : q # p => With(f, p, v)[q] = f[q]
BY DEF With

LEMMA WithoutIs ==
  ASSUME NEW f, NEW p
  PROVE  /\ DOMAIN Without(f, p) = DOMAIN f \ {p}
         /\ \A q \in DOMAIN f : q # p => Without(f, p)[q] = f[q]
BY DEF Without

LEMMA PartialMapWith ==
  ASSUME NEW S, NEW f, PartialMap(f, S), NEW p \in Procs, NEW v \in S
  PROVE  PartialMap(With(f, p, v), S)
BY DEF With, PartialMap

LEMMA PartialMapWithout ==
  ASSUME NEW S, NEW f, PartialMap(f, S), NEW p
  PROVE  PartialMap(Without(f, p), S)
BY DEF Without, PartialMap

LEMMA EmptyMap == DOMAIN <<>> = {}
OBVIOUS

LEMMA IdleIs ==
  /\ IdleLoop.pc = "glob" /\ IdleLoop.files = {} /\ IdleLoop.unread = {}
  /\ DOMAIN IdleLoop.headers = {}
BY EmptyMap DEF IdleLoop

LEMMA NoSnapIs ==
  /\ NoSnap.reason = "none" /\ NoSnap.pid = 0 /\ NoSnap.seq = 0 /\ NoSnap.todo = {}
  /\ DOMAIN NoSnap.meta = {} /\ DOMAIN NoSnap.copy = {} /\ NoSnap.errors = {}
BY EmptyMap DEF NoSnap

LEMMA HeaderIs ==
  ASSUME TypeOK, NEW p \in Procs
  PROVE  Header(p) \in Headers /\ Header(p).pid \in {0, p} /\ Header(p).seq = file[p].seq
<1>1. file[p].seq \in 0..MaxRecords /\ file[p].fresh \in BOOLEAN /\ p \in 0..NumProcs
  BY WatchdogAssumption DEF TypeOK, Procs
<1> QED BY <1>1, WatchdogAssumption DEF Header, Headers

ProcStepAny == \E p \in Procs : ProcStep(p) \/ Age(p)

\* A process's step: its file's write_seq only grows, and not once it has exited.
LEMMA ProcDoes ==
  ASSUME Shapes, ProcStepAny
  PROVE  /\ file' \in [Procs -> [stage : Stages, seq : 0..MaxRecords, fresh : BOOLEAN]]
         /\ calls' \in [Procs -> 0..MaxRecords] /\ exited' \subseteq Procs
         /\ \A q \in Procs : /\ file[q].seq =< file'[q].seq /\ calls'[q] =< file'[q].seq
                             /\ q \in exited => file'[q].seq = file[q].seq
         /\ exited \subseteq exited'
         /\ UNCHANGED <<wd, seen, snap, dumps>>
<1> USE WatchdogAssumption
<1> SUFFICES ASSUME NEW p \in Procs, ProcStep(p) \/ Age(p)
             PROVE  /\ file' \in [Procs -> [stage : Stages, seq : 0..MaxRecords, fresh : BOOLEAN]]
                    /\ calls' \in [Procs -> 0..MaxRecords] /\ exited' \subseteq Procs
                    /\ \A q \in Procs : /\ file[q].seq =< file'[q].seq /\ calls'[q] =< file'[q].seq
                                        /\ q \in exited => file'[q].seq = file[q].seq
                    /\ exited \subseteq exited'
                    /\ UNCHANGED <<wd, seen, snap, dumps>>
  BY DEF ProcStepAny
<1>0. /\ file \in [Procs -> [stage : Stages, seq : 0..MaxRecords, fresh : BOOLEAN]]
      /\ calls \in [Procs -> 0..MaxRecords] /\ exited \subseteq Procs
      /\ \A q \in Procs : calls[q] =< file[q].seq
  BY DEF Shapes, TypeOK
<1>1. \A b \in BOOLEAN : \A f : f = [file EXCEPT ![p].fresh = b] =>
         /\ f \in [Procs -> [stage : Stages, seq : 0..MaxRecords, fresh : BOOLEAN]]
         /\ \A q \in Procs : f[q].seq = file[q].seq
  BY <1>0
<1>5. CASE Age(p)
  <2>1. \E b \in BOOLEAN : file' = [file EXCEPT ![p].fresh = b]
    BY <1>5, Zenon DEF Age
  <2>2. UNCHANGED <<calls, exited, wd, seen, snap, dumps>>
    BY <1>5 DEF Age
  <2> QED BY <1>0, <1>1, <2>1, <2>2
<1>6. CASE InitStore(p)
  BY <1>0, <1>6 DEF InitStore, Stages
<1>7. CASE InitLastNs(p)
  <2> DEFINE F(b) == [file EXCEPT ![p].stage = "ready", ![p].fresh = b]
  <2>1. ASSUME NEW b \in BOOLEAN
        PROVE  /\ F(b) \in [Procs -> [stage : Stages, seq : 0..MaxRecords, fresh : BOOLEAN]]
               /\ \A q \in Procs : F(b)[q].seq = file[q].seq
    <3> DEFINE g == [file EXCEPT ![p].stage = "ready"]
    <3>1. /\ g \in [Procs -> [stage : Stages, seq : 0..MaxRecords, fresh : BOOLEAN]]
          /\ \A q \in Procs : g[q].seq = file[q].seq
      BY <1>0 DEF Stages
    <3>2. F(b) = [g EXCEPT ![p].fresh = b]
      BY <1>0
    <3> HIDE DEF F, g
    <3> QED BY <3>1, <3>2
  <2>2. \E b \in BOOLEAN : file' = F(b)
    BY <1>7, Zenon DEF InitLastNs
  <2>3. UNCHANGED <<calls, exited, wd, seen, snap, dumps>>
    BY <1>7 DEF InitLastNs
  <2> HIDE DEF F
  <2> QED BY <1>0, <2>1, <2>2, <2>3
<1>2. CASE Record(p)
  BY <1>0, <1>2 DEF Record
<1>3. CASE StoreLastNs(p)
  BY <1>0, <1>3 DEF StoreLastNs
<1>4. CASE Exit(p)
  BY <1>0, <1>4 DEF Exit
<1> QED BY <1>2, <1>3, <1>4, <1>5, <1>6, <1>7 DEF ProcStep

\* The steps of the watchdog, by the fields of the loop and the snapshot.
LoopIs(pc, files, unread, headers) ==
    wd' = [pc |-> pc, files |-> files, unread |-> unread, headers |-> headers]

LEMMA GlobDoes ==
  ASSUME Shapes, Glob
  PROVE  /\ \E F \in SUBSET Procs : LoopIs("read", F, F, <<>>)
         /\ wd.pc = "glob" /\ UNCHANGED <<recorder, seen, snap, dumps>>
BY DEF Glob, LoopIs, IdleLoop

LEMMA ReadHeaderDoes ==
  ASSUME Shapes, NEW p \in Procs, ReadHeader(p)
  PROVE  /\ \E H \in {wd.headers, With(wd.headers, p, Header(p))} :
               LoopIs("read", wd.files, wd.unread \ {p}, H)
         /\ wd.pc = "read" /\ p \in wd.files /\ UNCHANGED <<recorder, seen, snap, dumps>>
<1>1. wd.pc = "read" /\ p \in wd.files /\ UNCHANGED <<recorder, seen, snap, dumps>>
  BY DEF ReadHeader, FirstOf, Shapes, TypeOK
<1> DEFINE H == IF file[p].stage \in Readable THEN With(wd.headers, p, Header(p))
                ELSE wd.headers
<1>2. LoopIs("read", wd.files, wd.unread \ {p}, H)
  <2> HIDE DEF H
  <2>1. wd' = [wd EXCEPT !.unread = wd.unread \ {p}, !.headers = H]
    BY DEF ReadHeader, H
  <2> QED BY <1>1, <2>1 DEF LoopIs, Shapes
<1> QED BY <1>1, <1>2

LEMMA TakeNowDoes ==
  ASSUME Shapes, TakeNow
  PROVE  /\ \E H : /\ DOMAIN H = DOMAIN wd.headers
                   /\ \A p \in DOMAIN H : /\ H[p] \in Headers /\ H[p].pid = wd.headers[p].pid
                                          /\ H[p].seq = wd.headers[p].seq
                   /\ LoopIs("judge", wd.files, wd.unread, H)
         /\ wd.pc = "read" /\ UNCHANGED <<recorder, seen, snap, dumps>>
<1>1. PICK S \in SUBSET DOMAIN wd.headers :
         wd' = [wd EXCEPT !.pc = "judge", !.headers =
                   [p \in DOMAIN @ |-> [@[p] EXCEPT !.fresh = @ /\ p \notin S]]]
  BY DEF TakeNow
<1>2. LoopIs("judge", wd.files, wd.unread, wd'.headers)
  BY <1>1 DEF LoopIs, Shapes
<1>3. DOMAIN wd'.headers = DOMAIN wd.headers
  BY <1>1 DEF Shapes
<1>4. ASSUME NEW p \in DOMAIN wd.headers
      PROVE  /\ wd'.headers[p] \in Headers /\ wd'.headers[p].pid = wd.headers[p].pid
             /\ wd'.headers[p].seq = wd.headers[p].seq
  BY <1>1 DEF Shapes, TypeOK, PartialMap, Headers
<1>5. wd.pc = "read" /\ UNCHANGED <<recorder, seen, snap, dumps>>
  BY DEF TakeNow
<1> QED BY <1>2, <1>3, <1>4, <1>5

\* A snapshot begins with nothing copied.
SnapIs(reason, pid, seq, todo, meta, copy, errors) ==
    snap' = [reason |-> reason, pid |-> pid, seq |-> seq, todo |-> todo,
             meta |-> meta, copy |-> copy, errors |-> errors]

LEMMA JudgeDoes ==
  ASSUME Shapes, NEW p \in Procs, JudgeStall(p) \/ JudgeExit(p)
  PROVE  /\ wd.pc = "judge" /\ p \in DOMAIN wd.headers
         /\ LoopIs("snapshot", wd.files, wd.unread, Without(wd.headers, p))
         /\ \E reason \in Reasons :
               /\ SnapIs(reason, wd.headers[p].pid, wd.headers[p].seq, wd.files, <<>>, <<>>, {})
               /\ reason = "stalled" =>
                     /\ Key(wd.headers[p]) \notin seenStalls
                     /\ seenStalls' = seenStalls \cup {Key(wd.headers[p])} /\ seenExit' = seenExit
               /\ reason = "exit" =>
                     /\ wd.headers[p].pid \in exited /\ wd.headers[p].pid \notin seenExit
                     /\ seenExit' = seenExit \cup {wd.headers[p].pid} /\ seenStalls' = seenStalls
         /\ UNCHANGED <<recorder, dumps>>
<1>1. /\ wd.pc = "judge" /\ p \in DOMAIN wd.headers /\ UNCHANGED <<recorder, dumps>>
      /\ LoopIs("snapshot", wd.files, wd.unread, Without(wd.headers, p))
  BY DEF JudgeStall, JudgeExit, FirstOf, LoopIs, Shapes
<1>2. \A r, h : Begin(r, h) => SnapIs(r, h.pid, h.seq, wd.files, <<>>, <<>>, {})
  BY DEF Begin, SnapIs, NoSnap
<1>3. CASE JudgeStall(p)
  <2>1. /\ SnapIs("stalled", wd.headers[p].pid, wd.headers[p].seq, wd.files, <<>>, <<>>, {})
        /\ Key(wd.headers[p]) \notin seenStalls
        /\ seenStalls' = seenStalls \cup {Key(wd.headers[p])} /\ seenExit' = seenExit
    BY <1>2, <1>3 DEF JudgeStall, Key
  <2> QED BY <1>1, <2>1 DEF Reasons
<1>4. CASE JudgeExit(p)
  <2>1. /\ SnapIs("exit", wd.headers[p].pid, wd.headers[p].seq, wd.files, <<>>, <<>>, {})
        /\ wd.headers[p].pid \in exited /\ wd.headers[p].pid \notin seenExit
        /\ seenExit' = seenExit \cup {wd.headers[p].pid} /\ seenStalls' = seenStalls
    BY <1>2, <1>4 DEF JudgeExit, Alive
  <2> QED BY <1>1, <2>1 DEF Reasons
<1> QED BY <1>3, <1>4

LEMMA JudgeNothingDoes ==
  ASSUME Shapes, NEW p \in Procs, JudgeNothing(p)
  PROVE  /\ wd.pc = "judge" /\ UNCHANGED <<recorder, seen, snap, dumps>>
         /\ LoopIs("judge", wd.files, wd.unread, Without(wd.headers, p))
BY DEF JudgeNothing, LoopIs, Shapes

LEMMA EndRoundDoes ==
  ASSUME Shapes, EndRound
  PROVE  /\ wd.pc = "judge" /\ UNCHANGED <<recorder, seen, snap, dumps>>
         /\ LoopIs("glob", {}, {}, <<>>) \/ LoopIs("done", {}, {}, <<>>)
BY DEF EndRound, LoopIs, IdleLoop

LEMMA SnapHeaderDoes ==
  ASSUME Shapes, NEW p \in Procs, SnapHeader(p)
  PROVE  /\ wd.pc = "snapshot" /\ p \in snap.todo /\ p \notin DOMAIN snap.meta
         /\ SnapIs(snap.reason, snap.pid, snap.seq, snap.todo,
                   With(snap.meta, p, file[p].seq), snap.copy, snap.errors)
         /\ UNCHANGED <<recorder, wd, seen, dumps>>
BY DEF SnapHeader, FirstOf, SnapIs, Shapes

LEMMA SnapCopyDoes ==
  ASSUME Shapes, NEW p \in Procs, SnapCopy(p)
  PROVE  /\ wd.pc = "snapshot" /\ p \in snap.todo /\ p \in DOMAIN snap.meta
         /\ SnapIs(snap.reason, snap.pid, snap.seq, snap.todo \ {p},
                   snap.meta, With(snap.copy, p, file[p].seq), snap.errors)
         /\ UNCHANGED <<recorder, wd, seen, dumps>>
BY DEF SnapCopy, FirstOf, SnapIs, Shapes

LEMMA SnapSkipDoes ==
  ASSUME Shapes, NEW p \in Procs, SnapSkip(p)
  PROVE  /\ wd.pc = "snapshot" /\ p \in snap.todo
         /\ SnapIs(snap.reason, snap.pid, snap.seq, snap.todo \ {p},
                   Without(snap.meta, p), snap.copy, snap.errors \cup {p})
         /\ UNCHANGED <<recorder, wd, seen, dumps>>
BY DEF SnapSkip, FirstOf, SnapIs, Shapes

LEMMA PublishDoes ==
  ASSUME Shapes, Publish
  PROVE  /\ wd.pc = "snapshot" /\ snap.todo = {} /\ dumps' = dumps \cup {Name(snap)}
         /\ snap' = NoSnap /\ LoopIs("judge", wd.files, wd.unread, wd.headers)
         /\ UNCHANGED <<recorder, seen>>
BY DEF Publish, LoopIs, Shapes

LEMMA DieDoes ==
  ASSUME Shapes, Die
  PROVE  /\ LoopIs("dead", {}, {}, <<>>) /\ snap' = NoSnap
         /\ seenStalls' = {} /\ seenExit' = {} /\ UNCHANGED <<recorder, dumps>>
BY DEF Die, LoopIs, IdleLoop

LEMMA LoopFields ==
  ASSUME NEW pc, NEW files, NEW unread, NEW headers, LoopIs(pc, files, unread, headers)
  PROVE  /\ wd'.pc = pc /\ wd'.files = files /\ wd'.unread = unread /\ wd'.headers = headers
         /\ wd' = [pc |-> wd'.pc, files |-> wd'.files, unread |-> wd'.unread,
                   headers |-> wd'.headers]
BY DEF LoopIs

LEMMA SnapFields ==
  ASSUME NEW r, NEW i, NEW s, NEW t, NEW m, NEW c, NEW e, SnapIs(r, i, s, t, m, c, e)
  PROVE  /\ snap'.reason = r /\ snap'.pid = i /\ snap'.seq = s /\ snap'.todo = t
         /\ snap'.meta = m /\ snap'.copy = c /\ snap'.errors = e
         /\ snap' = [reason |-> snap'.reason, pid |-> snap'.pid, seq |-> snap'.seq,
                     todo |-> snap'.todo, meta |-> snap'.meta, copy |-> snap'.copy,
                     errors |-> snap'.errors]
BY DEF SnapIs

-----------------------------------------------------------------------------
(* Types.                                                                  *)

LoopOK ==
    /\ wd = [pc |-> wd.pc, files |-> wd.files, unread |-> wd.unread, headers |-> wd.headers]
    /\ wd.pc \in {"glob", "read", "judge", "snapshot", "done", "dead"}
    /\ wd.files \subseteq Procs /\ wd.unread \subseteq wd.files
    /\ PartialMap(wd.headers, Headers)

SnapOK ==
    /\ snap = [reason |-> snap.reason, pid |-> snap.pid, seq |-> snap.seq,
               todo |-> snap.todo, meta |-> snap.meta, copy |-> snap.copy,
               errors |-> snap.errors]
    /\ snap.reason \in Reasons \cup {"none"} /\ snap.todo \subseteq Procs
    /\ snap.pid \in 0..NumProcs /\ snap.seq \in 0..MaxRecords
    /\ snap.errors \subseteq Procs
    /\ PartialMap(snap.meta, 0..MaxRecords) /\ PartialMap(snap.copy, 0..MaxRecords)

LEMMA LoopNext == Shapes /\ [Next]_vars => LoopOK'
<1> SUFFICES ASSUME Shapes, [Next]_vars PROVE LoopOK'
  OBVIOUS
<1>0. LoopOK
  BY DEF Shapes, TypeOK, LoopOK
<1>1. CASE ProcStepAny \/ UNCHANGED vars
  <2>1. wd' = wd
    BY <1>1, ProcDoes DEF vars
  <2> QED BY <1>0, <2>1 DEF LoopOK, PartialMap
<1>2. ASSUME NEW pc \in {"glob", "read", "judge", "snapshot", "done", "dead"},
             NEW files, files \subseteq Procs, NEW unread, unread \subseteq files,
             NEW headers, PartialMap(headers, Headers), LoopIs(pc, files, unread, headers)
      PROVE  LoopOK'
  BY <1>2, LoopFields DEF LoopOK, PartialMap
<1>3. PartialMap(<<>>, Headers)
  BY EmptyMap DEF PartialMap
<1>4. CASE Glob
  BY <1>2, <1>3, <1>4, GlobDoes
<1>5. ASSUME NEW p \in Procs, ReadHeader(p) PROVE LoopOK'
  <2>1. Header(p) \in Headers
    BY HeaderIs DEF Shapes
  <2>2. PartialMap(With(wd.headers, p, Header(p)), Headers)
    BY <1>0, <2>1, PartialMapWith DEF LoopOK
  <2> QED BY <1>0, <1>2, <1>5, <2>2, ReadHeaderDoes DEF LoopOK
<1>6. CASE TakeNow
  <2>1. PICK H : /\ DOMAIN H = DOMAIN wd.headers /\ \A p \in DOMAIN H : H[p] \in Headers
                 /\ LoopIs("judge", wd.files, wd.unread, H)
    BY <1>6, TakeNowDoes
  <2>2. PartialMap(H, Headers)
    BY <1>0, <2>1 DEF PartialMap, LoopOK
  <2> QED BY <1>0, <1>2, <2>1, <2>2 DEF LoopOK
<1>7. \A p : PartialMap(Without(wd.headers, p), Headers)
  BY <1>0, PartialMapWithout DEF LoopOK
<1>8. ASSUME NEW p \in Procs, JudgeStall(p) \/ JudgeExit(p) PROVE LoopOK'
  BY <1>0, <1>2, <1>7, <1>8, JudgeDoes DEF LoopOK
<1>9. ASSUME NEW p \in Procs, JudgeNothing(p) PROVE LoopOK'
  BY <1>0, <1>2, <1>7, <1>9, JudgeNothingDoes DEF LoopOK
<1>10. CASE EndRound
  BY <1>2, <1>3, <1>10, EndRoundDoes
<1>11. ASSUME NEW p \in Procs, SnapHeader(p) \/ SnapCopy(p) \/ SnapSkip(p) PROVE LoopOK'
  <2>1. wd' = wd
    BY <1>11, SnapHeaderDoes, SnapCopyDoes, SnapSkipDoes
  <2> QED BY <1>0, <2>1 DEF LoopOK, PartialMap
<1>12. CASE Publish
  BY <1>0, <1>2, <1>12, PublishDoes DEF LoopOK
<1>13. CASE Die
  BY <1>2, <1>3, <1>13, DieDoes
<1> QED BY <1>1, <1>4, <1>5, <1>6, <1>8, <1>9, <1>10, <1>11, <1>12, <1>13
        DEF Next, WatchdogStep, ProcStepAny

LEMMA SnapNext == Shapes /\ [Next]_vars => SnapOK'
<1> SUFFICES ASSUME Shapes, [Next]_vars PROVE SnapOK'
  OBVIOUS
<1>0. SnapOK /\ LoopOK
  BY DEF Shapes, TypeOK, SnapOK, LoopOK
<1>1. CASE UNCHANGED snap
  BY <1>0, <1>1 DEF SnapOK, PartialMap
<1>2. ASSUME NEW r \in Reasons \cup {"none"}, NEW i \in 0..NumProcs, NEW s \in 0..MaxRecords,
             NEW t, t \subseteq Procs, NEW m, PartialMap(m, 0..MaxRecords),
             NEW c, PartialMap(c, 0..MaxRecords), NEW e, e \subseteq Procs,
             SnapIs(r, i, s, t, m, c, e)
      PROVE  SnapOK'
  BY <1>2, SnapFields DEF SnapOK, PartialMap
<1>3. PartialMap(<<>>, 0..MaxRecords)
  BY EmptyMap DEF PartialMap
<1>4. CASE snap' = NoSnap
  <2>1. SnapIs("none", 0, 0, {}, <<>>, <<>>, {})
    BY <1>4 DEF SnapIs, NoSnap
  <2> QED BY <1>2, <1>3, <2>1, WatchdogAssumption
<1>5. ASSUME NEW p \in Procs, JudgeStall(p) \/ JudgeExit(p) PROVE SnapOK'
  <2>1. wd.headers[p] \in Headers
    BY <1>0, <1>5, JudgeDoes DEF LoopOK, PartialMap
  <2>2. wd.headers[p].pid \in 0..NumProcs /\ wd.headers[p].seq \in 0..MaxRecords
    BY <2>1 DEF Headers
  <2> QED BY <1>0, <1>2, <1>3, <1>5, <2>2, JudgeDoes DEF LoopOK
<1>6. \A p \in Procs : file[p].seq \in 0..MaxRecords
  BY DEF Shapes, TypeOK
<1>7. ASSUME NEW p \in Procs, SnapHeader(p) PROVE SnapOK'
  <2>1. PartialMap(With(snap.meta, p, file[p].seq), 0..MaxRecords)
    BY <1>0, <1>6, PartialMapWith DEF SnapOK
  <2> QED BY <1>0, <1>2, <1>7, <2>1, SnapHeaderDoes DEF SnapOK
<1>8. ASSUME NEW p \in Procs, SnapCopy(p) PROVE SnapOK'
  <2>1. PartialMap(With(snap.copy, p, file[p].seq), 0..MaxRecords)
    BY <1>0, <1>6, PartialMapWith DEF SnapOK
  <2>2. snap.todo \ {p} \subseteq Procs
    BY <1>0 DEF SnapOK
  <2> QED BY <1>0, <1>2, <1>8, <2>1, <2>2, SnapCopyDoes DEF SnapOK
<1>9. ASSUME NEW p \in Procs, SnapSkip(p) PROVE SnapOK'
  <2>1. PartialMap(Without(snap.meta, p), 0..MaxRecords)
    BY <1>0, PartialMapWithout DEF SnapOK
  <2>2. snap.todo \ {p} \subseteq Procs /\ snap.errors \cup {p} \subseteq Procs
    BY <1>0 DEF SnapOK
  <2> QED BY <1>0, <1>2, <1>9, <2>1, <2>2, SnapSkipDoes DEF SnapOK
<1>10. CASE Publish \/ Die
  BY <1>4, <1>10, PublishDoes, DieDoes
<1>11. CASE Glob \/ TakeNow \/ EndRound
            \/ \E p \in Procs : ReadHeader(p) \/ JudgeNothing(p)
  BY <1>1, <1>11, GlobDoes, TakeNowDoes, EndRoundDoes, ReadHeaderDoes, JudgeNothingDoes
<1>12. CASE ProcStepAny \/ UNCHANGED vars
  BY <1>1, <1>12, ProcDoes DEF vars
<1> QED BY <1>5, <1>7, <1>8, <1>9, <1>10, <1>11, <1>12 DEF Next, WatchdogStep, ProcStepAny

\* In every step a file's write_seq only grows, and not once its process has exited.
LEMMA FileNext ==
  Shapes /\ [Next]_vars =>
     /\ file' \in [Procs -> [stage : Stages, seq : 0..MaxRecords, fresh : BOOLEAN]]
     /\ calls' \in [Procs -> 0..MaxRecords] /\ exited' \subseteq Procs
     /\ \A q \in Procs : /\ file[q].seq =< file'[q].seq /\ calls'[q] =< file'[q].seq
                         /\ q \in exited => file'[q].seq = file[q].seq
     /\ exited \subseteq exited'
<1> SUFFICES ASSUME Shapes, [Next]_vars
             PROVE  /\ file' \in [Procs -> [stage : Stages, seq : 0..MaxRecords, fresh : BOOLEAN]]
                    /\ calls' \in [Procs -> 0..MaxRecords] /\ exited' \subseteq Procs
                    /\ \A q \in Procs : /\ file[q].seq =< file'[q].seq /\ calls'[q] =< file'[q].seq
                                        /\ q \in exited => file'[q].seq = file[q].seq
                    /\ exited \subseteq exited'
  OBVIOUS
<1>1. CASE ProcStepAny
  BY <1>1, ProcDoes
<1>2. CASE UNCHANGED recorder
  BY <1>2, WatchdogAssumption DEF Shapes, TypeOK
<1>3. CASE WatchdogStep \/ Die \/ UNCHANGED vars
  <2>1. UNCHANGED recorder
    BY <1>3 DEF WatchdogStep, Die, Glob, TakeNow, EndRound, Publish, ReadHeader, JudgeStall,
       JudgeExit, JudgeNothing, SnapHeader, SnapCopy, SnapSkip, vars
  <2> QED BY <1>2, <2>1
<1> QED BY <1>1, <1>3 DEF Next, ProcStepAny

LEMMA ShapesNext == Shapes /\ SnapshotInv /\ [Next]_vars => Shapes'
<1> SUFFICES ASSUME Shapes, SnapshotInv, [Next]_vars PROVE Shapes'
  OBVIOUS
<1>1. LoopOK' /\ SnapOK'
  BY LoopNext, SnapNext
<1>2. /\ seenStalls' \subseteq (0..NumProcs) \X (0..MaxRecords)
      /\ seenExit' \subseteq Procs /\ dumps' \subseteq DumpNames
  <2>0. /\ seenStalls \subseteq (0..NumProcs) \X (0..MaxRecords)
        /\ seenExit \subseteq Procs /\ dumps \subseteq DumpNames
    BY DEF Shapes, TypeOK
  <2>1. ASSUME NEW p \in Procs, JudgeStall(p) \/ JudgeExit(p)
        PROVE  /\ seenStalls' \subseteq (0..NumProcs) \X (0..MaxRecords)
               /\ seenExit' \subseteq Procs /\ dumps' = dumps
    <3>1. wd.headers[p] \in Headers
      BY <2>1, JudgeDoes DEF Shapes, TypeOK, PartialMap
    <3>2. Key(wd.headers[p]) \in (0..NumProcs) \X (0..MaxRecords)
      BY <3>1 DEF Headers, Key
    <3>3. exited \subseteq Procs
      BY DEF Shapes, TypeOK
    <3> QED BY <2>0, <2>1, <3>2, <3>3, JudgeDoes DEF Reasons
  <2>2. CASE Publish
    <3>1. Name(snap) \in DumpNames
      BY <2>2, PublishDoes DEF Shapes, TypeOK, SnapshotInv, Name, DumpNames
    <3> QED BY <2>0, <2>2, <3>1, PublishDoes
  <2>3. CASE Die
    BY <2>0, <2>3, DieDoes
  <2>4. CASE UNCHANGED <<seen, dumps>>
    BY <2>0, <2>4
  <2>5. CASE ProcStepAny \/ UNCHANGED vars
    BY <2>4, <2>5, ProcDoes DEF vars
  <2>6. CASE Glob \/ TakeNow \/ EndRound
    BY <2>4, <2>6, GlobDoes, TakeNowDoes, EndRoundDoes
  <2>7. ASSUME NEW p \in Procs, \/ ReadHeader(p) \/ JudgeNothing(p)
                                \/ SnapHeader(p) \/ SnapCopy(p) \/ SnapSkip(p)
        PROVE  UNCHANGED <<seen, dumps>>
    BY <2>7, ReadHeaderDoes, JudgeNothingDoes, SnapHeaderDoes, SnapCopyDoes, SnapSkipDoes
  <2> QED BY <2>0, <2>1, <2>2, <2>3, <2>4, <2>5, <2>6, <2>7
          DEF Next, WatchdogStep, ProcStepAny
<1>3. TypeOK'
  BY <1>1, <1>2, FileNext DEF LoopOK, SnapOK, TypeOK
<1> QED BY <1>1, <1>3, FileNext DEF Shapes, LoopOK, SnapOK

-----------------------------------------------------------------------------
(* The headers of the round.                                               *)

LEMMA HeadersNext == Shapes /\ HeadersInv /\ [Next]_vars => HeadersInv'
<1> SUFFICES ASSUME Shapes, HeadersInv, [Next]_vars PROVE HeadersInv'
  OBVIOUS
<1>0. /\ wd.files \subseteq Procs /\ \A p \in DOMAIN wd.headers : wd.headers[p] \in Headers
      /\ \A p \in Procs : file[p].seq \in 0..MaxRecords /\ file'[p].seq \in 0..MaxRecords
      /\ \A p \in Procs : file[p].seq =< file'[p].seq
  BY FileNext DEF Shapes, TypeOK, PartialMap
<1>1. \A p \in DOMAIN wd.headers : wd.headers[p].seq \in 0..MaxRecords
  BY <1>0 DEF Headers
\* The headers that stay are as they were.
<1>2. ASSUME wd'.files = wd.files, DOMAIN wd'.headers \subseteq DOMAIN wd.headers,
             \A p \in DOMAIN wd'.headers : /\ wd'.headers[p].pid = wd.headers[p].pid
                                           /\ wd'.headers[p].seq = wd.headers[p].seq
      PROVE  HeadersInv'
  <2> SUFFICES ASSUME NEW p \in DOMAIN wd'.headers
               PROVE  /\ p \in wd'.files /\ wd'.headers[p].pid \in {0, p}
                      /\ wd'.headers[p].seq =< file'[p].seq
    BY DEF HeadersInv
  <2>1. p \in wd.files /\ wd.headers[p].pid \in {0, p} /\ wd.headers[p].seq =< file[p].seq
    BY <1>2 DEF HeadersInv
  <2> QED BY <1>0, <1>1, <1>2, <2>1
<1>3. ASSUME DOMAIN wd'.headers = {} PROVE HeadersInv'
  BY <1>3 DEF HeadersInv
<1>4. CASE Glob \/ EndRound \/ Die
  <2>1. wd'.headers = <<>>
    BY <1>4, GlobDoes, EndRoundDoes, DieDoes, LoopFields
  <2> QED BY <1>3, <2>1, EmptyMap
<1>5. ASSUME NEW p \in Procs, ReadHeader(p) PROVE HeadersInv'
  <2>1. CASE wd'.headers = wd.headers /\ wd'.files = wd.files
    BY <1>2, <2>1
  <2>2. CASE wd'.headers = With(wd.headers, p, Header(p)) /\ wd'.files = wd.files
    <3> SUFFICES ASSUME NEW q \in DOMAIN wd'.headers
                 PROVE  /\ q \in wd'.files /\ wd'.headers[q].pid \in {0, q}
                        /\ wd'.headers[q].seq =< file'[q].seq
      BY DEF HeadersInv
    <3>1. CASE q = p
      <4>1. wd'.headers[q] = Header(p)
        BY <2>2, <3>1 DEF With
      <4>2. p \in wd'.files
        BY <1>5, <2>2, ReadHeaderDoes
      <4> QED BY <1>0, <3>1, <4>1, <4>2, HeaderIs DEF Shapes
    <3>2. CASE q # p
      <4>1. q \in DOMAIN wd.headers /\ wd'.headers[q] = wd.headers[q]
        BY <2>2, <3>2 DEF With
      <4>2. q \in wd.files /\ wd.headers[q].pid \in {0, q} /\ wd.headers[q].seq =< file[q].seq
        BY <4>1 DEF HeadersInv
      <4> QED BY <1>0, <1>1, <2>2, <4>1, <4>2
    <3> QED BY <3>1, <3>2
  <2>3. PICK H \in {wd.headers, With(wd.headers, p, Header(p))} :
               LoopIs("read", wd.files, wd.unread \ {p}, H)
    BY <1>5, ReadHeaderDoes
  <2>4. wd'.headers = H /\ wd'.files = wd.files
    BY <2>3, LoopFields
  <2> QED BY <2>1, <2>2, <2>4
<1>6. CASE TakeNow
  BY <1>2, <1>6, TakeNowDoes, LoopFields
<1>7. ASSUME NEW p \in Procs, JudgeStall(p) \/ JudgeExit(p) \/ JudgeNothing(p)
      PROVE  HeadersInv'
  <2>1. wd'.files = wd.files /\ wd'.headers = Without(wd.headers, p)
    BY <1>7, JudgeDoes, JudgeNothingDoes, LoopFields
  <2> QED BY <1>2, <2>1 DEF Without
<1>8. CASE Publish
  BY <1>2, <1>8, PublishDoes, LoopFields
<1>9. ASSUME NEW p \in Procs, SnapHeader(p) \/ SnapCopy(p) \/ SnapSkip(p) PROVE HeadersInv'
  <2>1. wd' = wd
    BY <1>9, SnapHeaderDoes, SnapCopyDoes, SnapSkipDoes
  <2> QED BY <1>2, <2>1
<1>10. CASE ProcStepAny \/ UNCHANGED vars
  BY <1>2, <1>10, ProcDoes DEF vars
<1> QED BY <1>4, <1>5, <1>6, <1>7, <1>8, <1>9, <1>10 DEF Next, WatchdogStep, ProcStepAny

-----------------------------------------------------------------------------
(* The snapshot.                                                           *)

LEMMA SnapshotNext == Shapes /\ HeadersInv /\ SnapshotInv /\ [Next]_vars => SnapshotInv'
<1> SUFFICES ASSUME Shapes, HeadersInv, SnapshotInv, [Next]_vars PROVE SnapshotInv'
  OBVIOUS
<1>0. /\ \A p \in Procs : file[p].seq \in 0..MaxRecords /\ file'[p].seq \in 0..MaxRecords
      /\ \A p \in Procs : file[p].seq =< file'[p].seq
      /\ wd.files \subseteq Procs /\ snap.seq \in 0..MaxRecords
  BY FileNext DEF Shapes, TypeOK
\* The snapshot stays, or a file of it is dealt with.
<1>1. ASSUME wd'.pc = wd.pc, wd'.files = wd.files,
             snap'.reason = snap.reason, snap'.pid = snap.pid, snap'.seq = snap.seq,
             snap'.todo \subseteq snap.todo,
             snap.todo \cup snap.errors \cup DOMAIN snap.copy
                \subseteq snap'.todo \cup snap'.errors \cup DOMAIN snap'.copy
      PROVE  SnapshotInv'
  <2>1. CASE wd.pc # "snapshot"
    BY <1>1, <2>1 DEF SnapshotInv
  <2>2. CASE wd.pc = "snapshot"
    <3>1. snap'.pid # 0 => snap'.pid \in wd'.files /\ snap'.seq =< file'[snap'.pid].seq
      BY <1>0, <1>1, <2>2 DEF SnapshotInv
    <3>2. wd'.files \subseteq snap'.todo \cup snap'.errors \cup DOMAIN snap'.copy
          /\ snap'.todo \subseteq wd'.files /\ snap'.reason \in Reasons
      BY <1>1, <2>2 DEF SnapshotInv
    <3> QED BY <1>1, <2>2, <3>1, <3>2 DEF SnapshotInv
  <2> QED BY <2>1, <2>2
<1>2. ASSUME wd'.pc # "snapshot", snap'.reason = "none" PROVE SnapshotInv'
  BY <1>2 DEF SnapshotInv
<1>3. CASE Publish \/ Die
  <2>1. wd'.pc # "snapshot" /\ snap' = NoSnap
    BY <1>3, PublishDoes, DieDoes, LoopFields
  <2> QED BY <1>2, <2>1, NoSnapIs
<1>4. CASE \/ Glob \/ TakeNow \/ EndRound \/ \E p \in Procs : ReadHeader(p) \/ JudgeNothing(p)
  <2>1. wd.pc # "snapshot" /\ wd'.pc # "snapshot" /\ snap' = snap
    BY <1>4, GlobDoes, TakeNowDoes, EndRoundDoes, ReadHeaderDoes, JudgeNothingDoes, LoopFields
  <2> QED BY <1>2, <2>1 DEF SnapshotInv
<1>5. ASSUME NEW p \in Procs, JudgeStall(p) \/ JudgeExit(p) PROVE SnapshotInv'
  <2>1. /\ wd'.pc = "snapshot" /\ wd'.files = wd.files /\ p \in DOMAIN wd.headers
        /\ snap'.reason \in Reasons /\ snap'.todo = wd.files
        /\ snap'.pid = wd.headers[p].pid /\ snap'.seq = wd.headers[p].seq
        /\ file' = file
    BY <1>5, JudgeDoes, LoopFields, SnapFields
  <2>2. p \in wd.files /\ wd.headers[p].pid \in {0, p} /\ wd.headers[p].seq =< file[p].seq
    BY <2>1 DEF HeadersInv
  <2> QED BY <2>1, <2>2 DEF SnapshotInv
<1>6. ASSUME NEW p \in Procs, SnapHeader(p) PROVE SnapshotInv'
  BY <1>1, <1>6, SnapHeaderDoes, SnapFields
<1>7. ASSUME NEW p \in Procs, SnapCopy(p) PROVE SnapshotInv'
  <2>1. /\ snap'.copy = With(snap.copy, p, file[p].seq) /\ snap'.todo = snap.todo \ {p}
        /\ snap'.reason = snap.reason /\ snap'.pid = snap.pid /\ snap'.seq = snap.seq
        /\ snap'.errors = snap.errors /\ wd' = wd
    BY <1>7, SnapCopyDoes DEF SnapIs
  <2>2. DOMAIN snap'.copy = DOMAIN snap.copy \cup {p}
    BY <2>1 DEF With
  <2> QED BY <1>1, <2>1, <2>2
<1>8. ASSUME NEW p \in Procs, SnapSkip(p) PROVE SnapshotInv'
  <2>1. /\ snap'.copy = snap.copy /\ snap'.todo = snap.todo \ {p}
        /\ snap'.reason = snap.reason /\ snap'.pid = snap.pid /\ snap'.seq = snap.seq
        /\ snap'.errors = snap.errors \cup {p} /\ wd' = wd
    BY <1>8, SnapSkipDoes DEF SnapIs
  <2> QED BY <1>1, <2>1
<1>9. CASE ProcStepAny \/ UNCHANGED vars
  BY <1>1, <1>9, ProcDoes DEF vars
<1> QED BY <1>3, <1>4, <1>5, <1>6, <1>7, <1>8, <1>9 DEF Next, WatchdogStep, ProcStepAny

LEMMA CopiesNext == Shapes /\ SnapshotInv /\ CopiesInv /\ [Next]_vars => CopiesInv'
<1> SUFFICES ASSUME Shapes, SnapshotInv, CopiesInv, [Next]_vars PROVE CopiesInv'
  OBVIOUS
<1>0. /\ \A p \in Procs : file[p].seq \in 0..MaxRecords /\ file'[p].seq \in 0..MaxRecords
      /\ \A p \in Procs : file[p].seq =< file'[p].seq
      /\ DOMAIN snap.meta \subseteq Procs /\ DOMAIN snap.copy \subseteq Procs
      /\ \A p \in DOMAIN snap.meta : snap.meta[p] \in 0..MaxRecords
      /\ snap.seq \in 0..MaxRecords
  BY FileNext DEF Shapes, TypeOK, PartialMap
<1>1. CASE snap' = snap
  <2>1. \A p \in DOMAIN snap.meta : snap.meta[p] =< file'[p].seq
    BY <1>0 DEF CopiesInv
  <2> QED BY <1>1, <2>1 DEF CopiesInv
<1>2. ASSUME DOMAIN snap'.meta = {}, DOMAIN snap'.copy = {} PROVE CopiesInv'
  BY <1>2 DEF CopiesInv
<1>3. CASE Publish \/ Die
  BY <1>2, <1>3, PublishDoes, DieDoes, NoSnapIs
<1>4. ASSUME NEW p \in Procs, JudgeStall(p) \/ JudgeExit(p) PROVE CopiesInv'
  <2>1. snap'.meta = <<>> /\ snap'.copy = <<>>
    BY <1>4, JudgeDoes, SnapFields
  <2> QED BY <1>2, <2>1, EmptyMap
<1>5. ASSUME NEW p \in Procs, SnapHeader(p) PROVE CopiesInv'
  <2>1. /\ snap'.meta = With(snap.meta, p, file[p].seq) /\ snap'.copy = snap.copy
        /\ snap'.todo = snap.todo /\ snap'.pid = snap.pid /\ snap'.seq = snap.seq
        /\ p \in snap.todo /\ p \notin DOMAIN snap.meta /\ file' = file
    BY <1>5, SnapHeaderDoes, SnapFields
  <2>2. DOMAIN snap'.meta = DOMAIN snap.meta \cup {p}
    BY <2>1 DEF With
  <2>3. \A q \in DOMAIN snap.meta : snap'.meta[q] = snap.meta[q]
    BY <2>1 DEF With
  <2>4. snap'.meta[p] = file'[p].seq
    BY <2>1 DEF With
  <2>5. \A q \in DOMAIN snap'.meta : snap'.meta[q] =< file'[q].seq
    BY <1>0, <2>1, <2>2, <2>3, <2>4 DEF CopiesInv
  <2>6. \A q \in DOMAIN snap'.copy : snap'.meta[q] =< snap'.copy[q]
    BY <2>1, <2>3 DEF CopiesInv
  <2> QED BY <2>1, <2>2, <2>5, <2>6 DEF CopiesInv
<1>6. ASSUME NEW p \in Procs, SnapCopy(p) PROVE CopiesInv'
  <2>1. /\ snap'.copy = With(snap.copy, p, file[p].seq) /\ snap'.meta = snap.meta
        /\ snap'.todo = snap.todo \ {p} /\ snap'.pid = snap.pid /\ snap'.seq = snap.seq
        /\ p \in snap.todo /\ p \in DOMAIN snap.meta /\ file' = file
        /\ wd.pc = "snapshot"
    BY <1>6, SnapCopyDoes DEF SnapIs
  <2>2. DOMAIN snap'.copy = DOMAIN snap.copy \cup {p}
    BY <2>1 DEF With
  <2>3. \A q \in DOMAIN snap.copy : q # p => snap'.copy[q] = snap.copy[q]
    BY <2>1 DEF With
  <2>4. snap'.copy[p] = file[p].seq
    BY <2>1 DEF With
  <2>5. \A q \in DOMAIN snap'.copy : snap'.meta[q] =< snap'.copy[q]
    BY <2>1, <2>2, <2>3, <2>4 DEF CopiesInv
  <2>6. snap'.pid \in DOMAIN snap'.copy => snap'.seq =< snap'.copy[snap'.pid]
    <3>1. CASE snap.pid = p
      <4>1. snap.pid # 0
        BY <3>1 DEF Procs
      <4> QED BY <2>1, <2>4, <3>1, <4>1 DEF SnapshotInv
    <3>2. CASE snap.pid # p
      BY <2>1, <2>2, <2>3, <3>2 DEF CopiesInv
    <3> QED BY <3>1, <3>2
  <2>7. DOMAIN snap'.copy \subseteq DOMAIN snap'.meta
        /\ DOMAIN snap'.meta \subseteq snap'.todo \cup DOMAIN snap'.copy
        /\ DOMAIN snap'.copy \cap snap'.todo = {}
    BY <2>1, <2>2 DEF CopiesInv
  <2>8. \A q \in DOMAIN snap'.meta : snap'.meta[q] =< file'[q].seq
    BY <2>1 DEF CopiesInv
  <2> QED BY <2>5, <2>6, <2>7, <2>8 DEF CopiesInv
<1>7. ASSUME NEW p \in Procs, SnapSkip(p) PROVE CopiesInv'
  <2>1. /\ snap'.copy = snap.copy /\ snap'.meta = Without(snap.meta, p)
        /\ snap'.todo = snap.todo \ {p} /\ snap'.pid = snap.pid /\ snap'.seq = snap.seq
        /\ p \in snap.todo /\ file' = file
    BY <1>7, SnapSkipDoes DEF SnapIs
  <2>2. DOMAIN snap'.meta = DOMAIN snap.meta \ {p}
    BY <2>1 DEF Without
  <2>3. \A q \in DOMAIN snap'.meta : snap'.meta[q] = snap.meta[q]
    BY <2>1 DEF Without
  <2> QED BY <2>1, <2>2, <2>3 DEF CopiesInv
<1>8. CASE \/ Glob \/ TakeNow \/ EndRound \/ \E p \in Procs : ReadHeader(p) \/ JudgeNothing(p)
  BY <1>1, <1>8, GlobDoes, TakeNowDoes, EndRoundDoes, ReadHeaderDoes, JudgeNothingDoes
<1>9. CASE ProcStepAny \/ UNCHANGED vars
  BY <1>1, <1>9, ProcDoes DEF vars
<1> QED BY <1>3, <1>4, <1>5, <1>6, <1>7, <1>8, <1>9 DEF Next, WatchdogStep, ProcStepAny

\* The steps that leave the reason, the process and the seq of the snapshot alone.
LEMMA SameSnapshot ==
  ASSUME Shapes, \/ Glob \/ TakeNow \/ EndRound \/ ProcStepAny \/ UNCHANGED vars
                 \/ \E p \in Procs : \/ ReadHeader(p) \/ JudgeNothing(p) \/ SnapHeader(p)
                                     \/ SnapCopy(p) \/ SnapSkip(p)
  PROVE  /\ snap'.reason = snap.reason /\ snap'.pid = snap.pid /\ snap'.seq = snap.seq
         /\ UNCHANGED <<seen, dumps>>
         /\ (wd'.pc = "snapshot" <=> wd.pc = "snapshot") /\ (wd'.pc = "dead" <=> wd.pc = "dead")
<1>1. CASE Glob \/ TakeNow \/ EndRound \/ \E p \in Procs : ReadHeader(p) \/ JudgeNothing(p)
  BY <1>1, GlobDoes, TakeNowDoes, EndRoundDoes, ReadHeaderDoes, JudgeNothingDoes, LoopFields
<1>2. CASE ProcStepAny \/ UNCHANGED vars
  BY <1>2, ProcDoes DEF vars
<1>3. ASSUME NEW p \in Procs, SnapHeader(p) PROVE UNCHANGED <<seen, dumps, wd>>
                     /\ snap'.reason = snap.reason /\ snap'.pid = snap.pid /\ snap'.seq = snap.seq
  BY <1>3, SnapHeaderDoes DEF SnapIs
<1>4. ASSUME NEW p \in Procs, SnapCopy(p) PROVE UNCHANGED <<seen, dumps, wd>>
                     /\ snap'.reason = snap.reason /\ snap'.pid = snap.pid /\ snap'.seq = snap.seq
  BY <1>4, SnapCopyDoes DEF SnapIs
<1>5. ASSUME NEW p \in Procs, SnapSkip(p) PROVE UNCHANGED <<seen, dumps, wd>>
                     /\ snap'.reason = snap.reason /\ snap'.pid = snap.pid /\ snap'.seq = snap.seq
  BY <1>5, SnapSkipDoes DEF SnapIs
<1> QED BY <1>1, <1>2, <1>3, <1>4, <1>5

LEMMA SeenNext == Shapes /\ SnapshotInv /\ SeenInv /\ [Next]_vars => SeenInv'
<1> SUFFICES ASSUME Shapes, SnapshotInv, SeenInv, [Next]_vars PROVE SeenInv'
  OBVIOUS
<1>1. CASE \/ Glob \/ TakeNow \/ EndRound \/ ProcStepAny \/ UNCHANGED vars
           \/ \E p \in Procs : \/ ReadHeader(p) \/ JudgeNothing(p) \/ SnapHeader(p)
                               \/ SnapCopy(p) \/ SnapSkip(p)
  BY <1>1, SameSnapshot DEF SeenInv, Remembered, Key
<1>2. ASSUME NEW p \in Procs, JudgeStall(p) \/ JudgeExit(p) PROVE SeenInv'
  <2>1. /\ seenStalls \subseteq seenStalls' /\ seenExit \subseteq seenExit'
        /\ snap'.reason = "stalled" => Key(wd.headers[p]) \in seenStalls'
        /\ snap'.reason = "exit" => wd.headers[p].pid \in seenExit'
        /\ snap'.pid = wd.headers[p].pid /\ snap'.seq = wd.headers[p].seq
        /\ dumps' = dumps /\ wd.pc = "judge"
    BY <1>2, JudgeDoes, SnapFields DEF Reasons
  <2> QED BY <2>1 DEF SeenInv, Remembered, Key
<1>3. CASE Publish
  <2>1. /\ dumps' = dumps \cup {Name(snap)} /\ UNCHANGED seen /\ snap'.reason = "none"
        /\ wd.pc = "snapshot"
    BY <1>3, PublishDoes, NoSnapIs
  <2>2. Remembered(snap) => Remembered(Name(snap))
    BY DEF Remembered, Name, Key
  <2> QED BY <2>1, <2>2 DEF SeenInv, Remembered, Key
<1>4. CASE Die
  <2>1. wd'.pc = "dead" /\ snap'.reason = "none"
    BY <1>4, DieDoes, LoopFields, NoSnapIs
  <2> QED BY <2>1 DEF SeenInv, Remembered
<1> QED BY <1>1, <1>2, <1>3, <1>4 DEF Next, WatchdogStep, ProcStepAny

LEMMA CapturedNext == Shapes /\ SeenInv /\ CapturedOnce /\ [Next]_vars => CapturedOnce'
<1> SUFFICES ASSUME Shapes, SeenInv, CapturedOnce, [Next]_vars PROVE CapturedOnce'
  OBVIOUS
<1>1. CASE \/ Glob \/ TakeNow \/ EndRound \/ ProcStepAny \/ UNCHANGED vars
           \/ \E p \in Procs : \/ ReadHeader(p) \/ JudgeNothing(p) \/ SnapHeader(p)
                               \/ SnapCopy(p) \/ SnapSkip(p)
  BY <1>1, SameSnapshot DEF CapturedOnce
\* Its process, and for a stall its seq, were not in the set that remembers all dumps.
<1>2. ASSUME NEW p \in Procs, JudgeStall(p) \/ JudgeExit(p) PROVE CapturedOnce'
  <2>1. /\ snap'.reason \in Reasons
        /\ snap'.reason = "stalled" => Key(wd.headers[p]) \notin seenStalls
        /\ snap'.reason = "exit" => wd.headers[p].pid \notin seenExit
        /\ snap'.pid = wd.headers[p].pid /\ snap'.seq = wd.headers[p].seq
        /\ dumps' = dumps /\ wd.pc = "judge"
    BY <1>2, JudgeDoes, SnapFields DEF Reasons
  <2>2. \A d \in dumps : Remembered(d)
    BY <2>1 DEF SeenInv
  <2> QED BY <2>1, <2>2 DEF CapturedOnce, Remembered, Key, Reasons
<1>3. CASE Publish \/ Die
  <2>1. wd'.pc # "snapshot"
    BY <1>3, PublishDoes, DieDoes, LoopFields
  <2> QED BY <2>1 DEF CapturedOnce
<1> QED BY <1>1, <1>2, <1>3 DEF Next, WatchdogStep, ProcStepAny

LEMMA ExitNext == Shapes /\ ExitDumpIsFinal /\ [Next]_vars => ExitDumpIsFinal'
<1> SUFFICES ASSUME Shapes, ExitDumpIsFinal, [Next]_vars PROVE ExitDumpIsFinal'
  OBVIOUS
<1>0. /\ exited \subseteq exited' /\ exited \subseteq Procs
      /\ \A q \in exited : file'[q].seq = file[q].seq
  BY FileNext DEF Shapes, TypeOK
<1>1. ASSUME snap'.reason = snap.reason, snap'.pid = snap.pid,
             snap.pid \in DOMAIN snap'.copy =>
                \/ snap.pid \in DOMAIN snap.copy /\ snap'.copy[snap.pid] = snap.copy[snap.pid]
                \/ snap'.copy[snap.pid] = file[snap.pid].seq
      PROVE  ExitDumpIsFinal'
  BY <1>0, <1>1 DEF ExitDumpIsFinal
<1>2. CASE snap'.reason # "exit"
  BY <1>2 DEF ExitDumpIsFinal
<1>3. CASE Publish \/ Die
  BY <1>2, <1>3, PublishDoes, DieDoes, NoSnapIs
<1>4. ASSUME NEW p \in Procs, JudgeStall(p) \/ JudgeExit(p) PROVE ExitDumpIsFinal'
  <2>1. /\ snap'.copy = <<>> /\ snap'.pid = wd.headers[p].pid
        /\ snap'.reason = "exit" => wd.headers[p].pid \in exited
    BY <1>4, JudgeDoes, SnapFields
  <2> QED BY <1>0, <2>1, EmptyMap DEF ExitDumpIsFinal
<1>5. ASSUME NEW p \in Procs, SnapCopy(p) PROVE ExitDumpIsFinal'
  <2>1. /\ snap'.copy = With(snap.copy, p, file[p].seq)
        /\ snap'.reason = snap.reason /\ snap'.pid = snap.pid
    BY <1>5, SnapCopyDoes DEF SnapIs
  <2>2. ASSUME snap.pid \in DOMAIN snap'.copy
        PROVE  \/ snap.pid \in DOMAIN snap.copy /\ snap'.copy[snap.pid] = snap.copy[snap.pid]
               \/ snap'.copy[snap.pid] = file[snap.pid].seq
    BY <2>1, <2>2 DEF With
  <2> QED BY <1>1, <2>1, <2>2
<1>6. ASSUME NEW p \in Procs, SnapHeader(p) \/ SnapSkip(p) PROVE ExitDumpIsFinal'
  <2>1. snap'.copy = snap.copy /\ snap'.reason = snap.reason /\ snap'.pid = snap.pid
    BY <1>6, SnapHeaderDoes, SnapSkipDoes DEF SnapIs
  <2> QED BY <1>1, <2>1
<1>7. CASE \/ Glob \/ TakeNow \/ EndRound \/ ProcStepAny \/ UNCHANGED vars
           \/ \E p \in Procs : ReadHeader(p) \/ JudgeNothing(p)
  <2>1. snap' = snap
    BY <1>7, GlobDoes, TakeNowDoes, EndRoundDoes, ReadHeaderDoes, JudgeNothingDoes, ProcDoes
       DEF vars
  <2> QED BY <1>1, <2>1
<1> QED BY <1>3, <1>4, <1>5, <1>6, <1>7 DEF Next, WatchdogStep, ProcStepAny

-----------------------------------------------------------------------------
LEMMA WatchInit == Init => WatchInv
<1> SUFFICES ASSUME Init PROVE WatchInv
  OBVIOUS
<1>1. /\ snap = NoSnap /\ wd = IdleLoop /\ wd.pc = "glob" /\ snap.reason = "none"
      /\ DOMAIN wd.headers = {} /\ DOMAIN snap.meta = {} /\ DOMAIN snap.copy = {}
  BY IdleIs, NoSnapIs DEF Init
<1>2. /\ wd = [pc |-> wd.pc, files |-> wd.files, unread |-> wd.unread, headers |-> wd.headers]
      /\ snap = [reason |-> snap.reason, pid |-> snap.pid, seq |-> snap.seq,
                 todo |-> snap.todo, meta |-> snap.meta, copy |-> snap.copy,
                 errors |-> snap.errors]
  BY <1>1 DEF NoSnap, IdleLoop
<1>3. /\ file \in [Procs -> [stage : Stages, seq : 0..MaxRecords, fresh : BOOLEAN]]
      /\ calls \in [Procs -> 0..MaxRecords] /\ exited \subseteq Procs
      /\ \A p \in Procs : calls[p] =< file[p].seq
  BY WatchdogAssumption DEF Init, Stages
<1>4. TypeOK
  BY <1>1, <1>3, IdleIs, NoSnapIs, WatchdogAssumption DEF Init, TypeOK, PartialMap
<1>5. Shapes
  BY <1>2, <1>3, <1>4 DEF Shapes
<1>6. SnapshotInv /\ CopiesInv /\ HeadersInv
  BY <1>1 DEF SnapshotInv, CopiesInv, HeadersInv
<1>7. SeenInv /\ ExitDumpIsFinal /\ CapturedOnce
  BY <1>1 DEF Init, SeenInv, Remembered, ExitDumpIsFinal, CapturedOnce
<1> QED BY <1>5, <1>6, <1>7 DEF WatchInv

LEMMA WatchInductive == Spec => []WatchInv
<1>1. WatchInv /\ [Next]_vars => WatchInv'
  BY ShapesNext, HeadersNext, SnapshotNext, CopiesNext, SeenNext, ExitNext, CapturedNext
     DEF WatchInv
<1> QED BY <1>1, WatchInit, PTL DEF Spec

\* Every variable has its type, for every number of processes and any early ones.
THEOREM WatchdogTypes == Spec => []TypeOK
<1>1. WatchInv => TypeOK
  BY DEF WatchInv, Shapes
<1> QED BY <1>1, WatchInductive, PTL

\* The copy an exit snapshot holds of its process's file is the file as it was left.
THEOREM ExitIsFinal == Spec => []ExitDumpIsFinal
BY WatchInductive, PTL DEF WatchInv

\* No snapshot repeats a stall or an exit captured before, over all rounds.
THEOREM Captured == Spec => []CapturedOnce
BY WatchInductive, PTL DEF WatchInv

\* What gets its final name is complete: no file of the round is missing without an
\* error, and no copy is older than the header it was judged or described by.
THEOREM DumpsComplete == Spec => DumpsAreComplete
<1> DEFINE Complete ==
             dumps' # dumps =>
                /\ snap.todo = {}
                /\ DOMAIN snap.copy = DOMAIN snap.meta
                /\ \A p \in DOMAIN snap.meta : snap.meta[p] =< snap.copy[p]
                /\ snap.pid \notin snap.errors \cup {0} =>
                      snap.pid \in DOMAIN snap.copy /\ snap.seq =< snap.copy[snap.pid]
<1>1. WatchInv /\ [Next]_vars => [Complete]_vars
  <2> SUFFICES ASSUME WatchInv, Next, dumps' # dumps PROVE Complete
    OBVIOUS
  <2>0. Shapes /\ SnapshotInv /\ CopiesInv
    BY DEF WatchInv
  <2>1. Publish
    BY <2>0, SameSnapshot, JudgeDoes, DieDoes DEF Next, WatchdogStep, ProcStepAny
  <2>2. snap.todo = {} /\ wd.pc = "snapshot"
    BY <2>0, <2>1, PublishDoes
  <2>3. DOMAIN snap.copy = DOMAIN snap.meta
    BY <2>0, <2>2 DEF CopiesInv
  <2>4. snap.pid \notin snap.errors \cup {0} =>
           snap.pid \in DOMAIN snap.copy /\ snap.seq =< snap.copy[snap.pid]
    BY <2>0, <2>2 DEF SnapshotInv, CopiesInv
  <2> QED BY <2>0, <2>2, <2>3, <2>4 DEF CopiesInv
<1> QED BY <1>1, WatchInductive, PTL DEF Spec, DumpsAreComplete
=============================================================================
