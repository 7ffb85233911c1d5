------------------------ MODULE MsptiCollectorProofs ------------------------
(***************************************************************************)
(* Theorems about the msPTI collector for every number of buffers and      *)
(* switches: no buffer has two holders, no completed activity is lost      *)
(* without being counted, and neither the worker's copies of the library's *)
(* state nor the file's last status record is ever wrong.                  *)
(***************************************************************************)
EXTENDS MsptiCollector, FiniteSetTheorems, TLAPS

USE DEF thread, library, pool, bounds, libraryFrame, workerFrame, mainFrame, requestFrame

-----------------------------------------------------------------------------
(* The activities.                                                         *)

\* An activity is counted once the file exists; no activity is in a free buffer.
Counts ==
    /\ \A b \in Buffers : buf[b].full => buf[b].at # "pool"
    /\ lib.mapped => made
    /\ ~made => /\ completed = 0 /\ Full = {} /\ ring.delivered = 0 /\ ring.dropped = 0
                /\ scan = 0

-----------------------------------------------------------------------------
(* Who calls the library, and where the call is.                           *)

\* A call is the application's inside start, or else the worker's.
Callers ==
    /\ main \in {"before", "starting"} => ~w.active
    /\ ~w.active => ~w.collecting
    /\ main = "before" =>
          w.pc = "absent" /\ call.op = "none" /\ ~lib.mapped /\ ~lib.enabled
    /\ main = "starting" => w.pc = "absent" /\ call.op # "none" /\ call.why = "start"
    /\ main \notin {"before", "starting"} =>
          w.pc # "absent" /\ (w.pc = "calling" <=> call.op # "none")

\* What the library has done when a call is at op.
Progress ==
    /\ call.op # "none" => call.why # "none"
    /\ call.op = "start" => call.why = "start" /\ ~lib.mapped /\ ~lib.enabled
    /\ call.op = "enable" =>
          /\ call.why \in {"start", "toggle"} /\ lib.mapped /\ ~lib.enabled
          /\ call.i \in 1..(NumSwitches + 1)
    /\ call.op = "flush" => call.why \in {"toggle", "stop"} /\ lib.mapped /\ lib.enabled
    /\ call.op = "disable" =>
          /\ call.why \in {"toggle", "stop"} /\ lib.mapped /\ lib.enabled
          /\ call.i \in 1..(NumSwitches + 1)
    /\ call.op = "stop" => call.why = "stop" /\ lib.mapped
    /\ call.op = "ok" => /\ lib.mapped <=> call.why # "stop"
                         /\ call.why = "start" => lib.enabled
    /\ call.op = "failed" =>
          call.why # "stop" /\ (call.why = "start" => ~lib.mapped /\ ~lib.enabled)

\* What the worker's copies are while it is inside a call.
Copies ==
    w.pc = "calling" =>
       /\ call.why = "toggle" => /\ call.op = "enable" => ~w.collecting
                                 /\ call.op \in {"flush", "disable"} => w.collecting
                                 /\ call.op = "ok" => lib.enabled = ~w.collecting
       /\ call.why = "stop" => /\ w.active
                               /\ call.op = "stop" => w.collecting = lib.enabled
                               /\ call.op \in {"flush", "disable"} => w.collecting

-----------------------------------------------------------------------------
(* The switches.                                                           *)

Settled ==
    /\ gates = IF lib.mapped /\ lib.enabled THEN Switches ELSE {}
    /\ lib.mapped => ring.status = IF lib.enabled THEN "enabled" ELSE "disabled"

\* Without an error in the file a sequence of switches has come as far as call.i.
Gates ==
    ~ring.error =>
       /\ call.op \notin {"enable", "disable"} => Settled
       /\ call.op = "enable" => gates = 1..(call.i - 1)
       /\ call.op = "disable" => gates = call.i..NumSwitches

\* All switches are off once they have been switched off, and no request is under way.
Off ==
    /\ scan # 0 => NumSwitches \in gates
    /\ call.op = "disable" => gates \subseteq call.i..NumSwitches
    /\ /\ lib.mapped /\ ~lib.enabled /\ w.pc # "dead"
       /\ call.op \notin {"enable", "failed"}
       => gates = {}

\* A stop that found collection disabled waits for the buffers still outside, and
\* nothing completes meanwhile.
Kept ==
    /\ w.pc = "gone" /\ w.active => ~lib.mapped
    /\ w.active /\ ~w.collecting /\ w.pc = "calling" /\ call.op = "stop" =>
          Outside \subseteq owed
    /\ ~unflushed /\ w.active /\ ~w.collecting =>
          /\ \/ w.pc = "calling" /\ call.op = "ok" /\ call.why = "stop"
             \/ w.pc = "gone"
             => /\ gates = {} /\ Full = {}
                /\ completed = ring.delivered + ring.dropped

CollectorInv ==
    /\ TypeOK /\ BufferHasOneHolder /\ AccountedFor /\ Counts
    /\ Callers /\ Progress /\ Copies /\ MirrorsLibrary /\ Gates /\ Off /\ Kept

-----------------------------------------------------------------------------
(* The buffers.                                                            *)

LEMMA CardFull ==
  ASSUME TypeOK
  PROVE  /\ IsFiniteSet(Buffers) /\ Full \subseteq Buffers /\ IsFiniteSet(Full)
         /\ Cardinality(Full) \in Nat
<1>1. IsFiniteSet(Buffers)
  BY FS_Interval, CollectorAssumption DEF Buffers
<1> QED BY <1>1, FS_Subset, FS_CardinalityType DEF Full

\* A buffer's activity arrives, or is read.
LEMMA FullAdds ==
  ASSUME TypeOK, NEW b \in Buffers, ~buf[b].full, NEW r, r.full,
         buf' = [buf EXCEPT ![b] = r]
  PROVE  Full' = Full \cup {b} /\ Cardinality(Full') = Cardinality(Full) + 1
<1>1. Full' = Full \cup {b} /\ b \notin Full
  BY DEF Full, TypeOK
<1> QED BY <1>1, CardFull, FS_AddElement

LEMMA FullRemoves ==
  ASSUME TypeOK, NEW b \in Buffers, buf[b].full, buf' = [buf EXCEPT ![b].full = FALSE]
  PROVE  Full' = Full \ {b} /\ Cardinality(Full') = Cardinality(Full) - 1
         /\ Cardinality(Full) >= 1
<1>1. Full' = Full \ {b} /\ b \in Full
  BY DEF Full, TypeOK
<1>2. Cardinality(Full') = Cardinality(Full) - 1
  BY <1>1, CardFull, FS_RemoveElement
<1>3. Cardinality(Full) # 0
  BY <1>1, CardFull, FS_EmptySet
<1> QED BY <1>1, <1>2, <1>3, CardFull

LEMMA PoolInit ==
  Init => TypeOK /\ BufferHasOneHolder /\ AccountedFor /\ Counts
<1> SUFFICES ASSUME Init PROVE TypeOK /\ BufferHasOneHolder /\ AccountedFor /\ Counts
  OBVIOUS
<1>1. Full = {} /\ Outside = {}
  BY DEF Init, Full, Outside
<1>2. /\ call \in [op : CallOps, why : {"none", "start", "toggle", "stop"},
                   i : 0..(NumSwitches + 1)]
      /\ ring \in [delivered : 0..MaxActivities, dropped : 0..MaxActivities,
                   status : {"none", "enabled", "disabled", "error"}, error : BOOLEAN]
      /\ w \in [pc : WorkerPcs, active : BOOLEAN, collecting : BOOLEAN]
  BY CollectorAssumption DEF Init, NoCall, WorkerPcs, CallOps
<1>3. /\ buf \in [Buffers -> [at : {"pool", "held", "back"}, full : BOOLEAN]]
      /\ 0 \in 0..MaxActivities /\ 0 \in 0..MaxToggles /\ 0 \in 0..MaxFaults
      /\ 0 \in 0..(NumBuffers + 1)
  BY CollectorAssumption DEF Init
<1>4. TypeOK
  BY <1>2, <1>3 DEF Init, TypeOK
<1>5. BufferHasOneHolder
  BY <1>1 DEF Init, BufferHasOneHolder
<1> QED BY <1>1, <1>4, <1>5 DEF Init, AccountedFor, Counts

\* The steps of the library, the worker and the application move no buffer; they may
\* map the ring once.
LEMMA Unmoved ==
  ASSUME TypeOK, LibraryStep \/ WorkerStep \/ MainStep \/ Toggle \/ UNCHANGED vars
  PROVE  /\ UNCHANGED <<busy, buf, scan, completed>>
         /\ ring'.delivered = ring.delivered /\ ring'.dropped = ring.dropped
         /\ lib'.mapped => lib.mapped \/ (~made /\ made')
         /\ made => made'
<1>1. CASE LibraryStep
  <2>1. UNCHANGED <<busy, buf, scan, completed>>
    BY <1>1 DEF LibraryStep, StartMap, StartFails, SwitchOk, SwitchFails, Switched,
       FlushedFirst, StopFlushed
  <2>2. ring'.delivered = ring.delivered /\ ring'.dropped = ring.dropped
    BY <1>1 DEF TypeOK, LibraryStep, StartMap, StartFails, SwitchOk, SwitchFails, Switched,
       FlushedFirst, StopFlushed
  <2>3. made => made'
    BY <1>1 DEF LibraryStep, StartMap, StartFails, SwitchOk, SwitchFails, Switched,
       FlushedFirst, StopFlushed
  <2>4. lib'.mapped => lib.mapped \/ (~made /\ made')
    BY <1>1 DEF TypeOK, LibraryStep, StartMap, StartFails, SwitchOk, SwitchFails, Switched,
       FlushedFirst, StopFlushed, Unmapped
  <2> QED BY <2>1, <2>2, <2>3, <2>4
<1>2. CASE WorkerStep
  <2>1. UNCHANGED <<busy, buf, scan, completed, lib, made>>
    BY <1>2 DEF WorkerStep, Look, LookRaises, TakeOk, TakeError, Flush, Flushed,
       FlushFails, Wait, Leave, Left
  <2>2. ring'.delivered = ring.delivered /\ ring'.dropped = ring.dropped
    BY <1>2 DEF TypeOK, WorkerStep, Look, LookRaises, TakeOk, TakeError, Flush, Flushed,
       FlushFails, Wait, Leave, Left
  <2> QED BY <2>1, <2>2
<1>3. CASE MainStep \/ Toggle \/ UNCHANGED vars
  <2>1. UNCHANGED <<busy, buf, scan, completed, lib, made, ring>>
    BY <1>3 DEF MainStep, StartCall, Started, StartRaises, StopCall, JoinReturns,
       Toggle, vars
  <2> QED BY <2>1
<1> QED BY <1>1, <1>2, <1>3

-----------------------------------------------------------------------------
(* Type correctness, one variable at a time.                               *)

WorkerRec == [pc : WorkerPcs, active : BOOLEAN, collecting : BOOLEAN]
LibRec    == [mapped : BOOLEAN, subscribed : BOOLEAN, enabled : BOOLEAN]
CallRec   == [op : CallOps, why : {"none", "start", "toggle", "stop"},
              i : 0..(NumSwitches + 1)]
RingRec   == [delivered : 0..MaxActivities, dropped : 0..MaxActivities,
              status : {"none", "enabled", "disabled", "error"}, error : BOOLEAN]

\* What a step makes of these records.
LEMMA RecordUpdates ==
  /\ \A r \in WorkerRec, c \in WorkerPcs : [r EXCEPT !.pc = c] \in WorkerRec
  /\ \A l \in LibRec, e \in BOOLEAN : /\ [l EXCEPT !.enabled = e] \in LibRec
                                      /\ Unmapped(l) \in LibRec
                                      /\ [l EXCEPT !.mapped = TRUE, !.subscribed = TRUE] \in LibRec
  /\ \A r \in RingRec : [r EXCEPT !.status = "error", !.error = TRUE] \in RingRec
BY DEF WorkerRec, LibRec, RingRec, Unmapped

LEMMA LibraryTypes ==
  ASSUME TypeOK, LibraryStep
  PROVE  /\ UNCHANGED <<control, main, stopSet, w, errorFile, toggles>>
         /\ made' \in BOOLEAN /\ lib' \in LibRec /\ call' \in CallRec
         /\ gates' \subseteq Switches /\ owed' \subseteq Buffers /\ ring' \in RingRec
         /\ faults' \in 0..MaxFaults /\ unflushed' \in BOOLEAN
<1> USE CollectorAssumption DEF FlushEnds
<1>1. UNCHANGED <<control, main, stopSet, w, errorFile, toggles>> /\ made' \in BOOLEAN
      /\ unflushed' \in BOOLEAN
  BY DEF TypeOK, LibraryStep, StartMap, StartFails, SwitchOk, SwitchFails, Switched,
     FlushedFirst, StopFlushed
<1>2. lib' \in LibRec
  <2>1. lib \in LibRec /\ In("enable") \in BOOLEAN
    BY DEF TypeOK, LibRec, In
  <2>2. CASE StartMap
    BY <2>1, <2>2, RecordUpdates DEF StartMap
  <2>4. CASE Switched
    <3> DEFINE l == [lib EXCEPT !.enabled = In("enable")]
    <3>1. l \in LibRec
      BY <2>1, RecordUpdates
    <3>2. lib' \in {l, Unmapped(l)}
      BY <2>4 DEF Switched
    <3> HIDE DEF l
    <3> QED BY <3>1, <3>2, RecordUpdates
  <2>3. CASE StartFails \/ SwitchOk \/ SwitchFails \/ FlushedFirst \/ StopFlushed
    BY <2>1, <2>3, RecordUpdates DEF StartFails, SwitchOk, SwitchFails, FlushedFirst,
       StopFlushed
  <2> QED BY <2>2, <2>3, <2>4 DEF LibraryStep
<1>3. call' \in CallRec
  <2>1. CASE StartMap \/ StartFails \/ FlushedFirst \/ StopFlushed
    BY <2>1 DEF TypeOK, CallRec, CallOps, StartMap, StartFails, FlushedFirst, StopFlushed, Call
  <2>2. CASE SwitchOk \/ SwitchFails \/ Switched
    BY <2>2 DEF TypeOK, CallRec, CallOps, Switches, SwitchOk, SwitchFails, Switched
  <2> QED BY <2>1, <2>2 DEF LibraryStep
<1>4. gates' \subseteq Switches /\ owed' \subseteq Buffers
  BY DEF TypeOK, LibraryStep, StartMap, StartFails, SwitchOk, SwitchFails, Switched,
     FlushedFirst, StopFlushed, Outside
<1>5. ring' \in RingRec
  <2>1. ring \in RingRec
    BY DEF TypeOK, RingRec
  <2>2. CASE StartMap \/ SwitchOk \/ FlushedFirst \/ StopFlushed
    BY <2>1, <2>2 DEF StartMap, SwitchOk, FlushedFirst, StopFlushed
  <2>3. CASE StartFails \/ SwitchFails
    BY <2>1, <2>3, RecordUpdates DEF StartFails, SwitchFails
  <2>4. CASE Switched
    <3>1. \E c \in {"enabled", "disabled"} : ring' = [ring EXCEPT !.status = c]
      BY <2>4 DEF Switched
    <3> QED BY <2>1, <3>1 DEF RingRec
  <2> QED BY <2>2, <2>3, <2>4 DEF LibraryStep
<1>6. faults' \in 0..MaxFaults
  BY DEF TypeOK, LibraryStep, StartMap, StartFails, SwitchOk, SwitchFails, Switched,
     FlushedFirst, StopFlushed, Fault
<1> QED BY <1>1, <1>2, <1>3, <1>4, <1>5, <1>6

LEMMA WorkerTypes ==
  ASSUME TypeOK, WorkerStep
  PROVE  /\ UNCHANGED <<control, main, stopSet, lib, made, unflushed, gates, toggles>>
         /\ errorFile' \in BOOLEAN /\ w' \in WorkerRec /\ call' \in CallRec
         /\ owed' \subseteq Buffers /\ ring' \in RingRec /\ faults' \in 0..MaxFaults
<1> USE CollectorAssumption
<1>1. /\ UNCHANGED <<control, main, stopSet, lib, made, unflushed, gates, toggles>>
      /\ errorFile' \in BOOLEAN
  BY DEF TypeOK, WorkerStep, Look, LookRaises, TakeOk, TakeError, Flush, Flushed,
     FlushFails, Wait, Leave, Left
<1>2. w' \in WorkerRec
  <2>1. w \in WorkerRec
    BY DEF TypeOK, WorkerRec
  <2>2. CASE TakeOk
    BY <2>1, <2>2 DEF TakeOk, WorkerRec, WorkerPcs
  <2>3. CASE Look \/ LookRaises \/ TakeError \/ Leave \/ Left
    BY <2>1, <2>3, RecordUpdates DEF Look, LookRaises, TakeError, Leave, Left, WorkerPcs
  <2>4. CASE Flush \/ Flushed \/ FlushFails \/ Wait
    BY <2>1, <2>4, RecordUpdates DEF Flush, Flushed, FlushFails, Wait, WorkerPcs
  <2> QED BY <2>2, <2>3, <2>4 DEF WorkerStep
<1>3. call' \in CallRec
  BY DEF TypeOK, CallRec, CallOps, Call, NoCall, WorkerStep, Look, LookRaises, TakeOk,
     TakeError, Flush, Flushed, FlushFails, Wait, Leave, Left
<1>4. owed' \subseteq Buffers
  BY DEF TypeOK, Outside, WorkerStep, Look, LookRaises, TakeOk, TakeError, Flush, Flushed,
     FlushFails, Wait, Leave, Left
<1>5. ring' \in RingRec /\ faults' \in 0..MaxFaults
  <2>1. ring \in RingRec /\ faults \in 0..MaxFaults
    BY DEF TypeOK, RingRec
  <2>2. CASE FlushFails
    <3>1. ring' \in RingRec
      BY <2>1, <2>2, RecordUpdates DEF FlushFails
    <3>2. faults' \in 0..MaxFaults
      BY <2>1, <2>2 DEF FlushFails, Fault
    <3> QED BY <3>1, <3>2
  <2>3. CASE LookRaises
    BY <2>1, <2>3 DEF LookRaises, Fault
  <2>4. CASE Look \/ TakeOk \/ TakeError \/ Flush \/ Flushed \/ Wait \/ Leave \/ Left
    BY <2>1, <2>4 DEF Look, TakeOk, TakeError, Flush, Flushed, Wait, Leave, Left
  <2> QED BY <2>2, <2>3, <2>4 DEF WorkerStep
<1> QED BY <1>1, <1>2, <1>3, <1>4, <1>5

LEMMA MainTypes ==
  ASSUME TypeOK, MainStep
  PROVE  /\ UNCHANGED <<control, lib, made, unflushed, gates, owed, ring, errorFile, toggles,
                     faults>>
         /\ stopSet' \in BOOLEAN
         /\ main' \in {"before", "starting", "running", "joining", "returned"}
         /\ w' \in WorkerRec /\ call' \in CallRec
<1> USE CollectorAssumption
<1>1. /\ UNCHANGED <<control, lib, made, unflushed, gates, owed, ring, errorFile, toggles,
                     faults>>
      /\ stopSet' \in BOOLEAN
  BY DEF TypeOK, MainStep, StartCall, Started, StartRaises, StopCall, JoinReturns
<1>2. main' \in {"before", "starting", "running", "joining", "returned"}
  BY DEF TypeOK, MainStep, StartCall, Started, StartRaises, StopCall, JoinReturns
<1>3. w' \in WorkerRec
  <2>1. w \in WorkerRec /\ "look" \in WorkerPcs
    BY DEF TypeOK, WorkerRec, WorkerPcs
  <2>2. CASE Started
    BY <2>2 DEF Started, WorkerRec, WorkerPcs
  <2>3. CASE StartCall \/ StartRaises \/ StopCall \/ JoinReturns
    BY <2>1, <2>3, RecordUpdates DEF StartCall, StartRaises, StopCall, JoinReturns
  <2> QED BY <2>2, <2>3 DEF MainStep
<1>4. call' \in CallRec
  BY DEF TypeOK, CallRec, CallOps, Call, NoCall, MainStep, StartCall, Started, StartRaises,
     StopCall, JoinReturns
<1> QED BY <1>1, <1>2, <1>3, <1>4

LEMMA TypeNext ==
  TypeOK /\ BufferHasOneHolder /\ AccountedFor /\ Counts /\ [Next]_vars => TypeOK'
<1> SUFFICES ASSUME TypeOK, BufferHasOneHolder, AccountedFor, Counts, [Next]_vars
             PROVE  TypeOK'
  OBVIOUS
<1>0. /\ MaxActivities \in Nat /\ completed \in 0..MaxActivities
      /\ ring.delivered \in 0..MaxActivities /\ ring.dropped \in 0..MaxActivities
  BY CollectorAssumption DEF TypeOK
<1>1. CASE LibraryStep
  BY <1>1, Unmoved, LibraryTypes DEF TypeOK, LibRec, CallRec, RingRec
<1>2. CASE WorkerStep
  BY <1>2, Unmoved, WorkerTypes DEF TypeOK, WorkerRec, CallRec, RingRec
<1>3. CASE MainStep
  BY <1>3, Unmoved, MainTypes DEF TypeOK, WorkerRec, CallRec
<1>4. CASE Toggle
  BY <1>4, CollectorAssumption DEF TypeOK, Toggle
<1>5. CASE UNCHANGED vars
  BY <1>5 DEF TypeOK, vars
<1>6. ASSUME busy' \in [Buffers -> BOOLEAN],
             buf' \in [Buffers -> [at : {"pool", "held", "back"}, full : BOOLEAN]],
             owed' \subseteq Buffers, scan' \in 0..(NumBuffers + 1),
             completed' \in 0..MaxActivities, ring' \in RingRec,
             UNCHANGED <<control, thread, library, gates, errorFile, bounds>>
      PROVE  TypeOK'
  BY <1>6 DEF TypeOK, RingRec
<1>7. ring \in RingRec /\ busy \in [Buffers -> BOOLEAN] /\ owed \subseteq Buffers
      /\ scan \in 0..(NumBuffers + 1) /\ 0 \in 0..(NumBuffers + 1)
      /\ buf \in [Buffers -> [at : {"pool", "held", "back"}, full : BOOLEAN]]
  BY CollectorAssumption DEF TypeOK, RingRec
<1>8. CASE RequestHit
  <2>2. /\ buf' \in [Buffers -> [at : {"pool", "held", "back"}, full : BOOLEAN]]
        /\ busy' \in [Buffers -> BOOLEAN]
    BY <1>7, <1>8 DEF RequestHit
  <2> QED BY <1>0, <1>6, <1>7, <1>8, <2>2 DEF RequestHit
<1>9. CASE RequestMiss
  <2>1. lib.mapped => ring.dropped + 1 \in 0..MaxActivities
    <3>1. scan # 0
      BY <1>9, CollectorAssumption DEF RequestMiss
    <3> QED BY <1>0, <3>1, CardFull DEF AccountedFor
  <2>2. ring' \in RingRec
    BY <1>7, <1>9, <2>1 DEF RequestMiss, RingRec
  <2> QED BY <1>0, <1>6, <1>7, <1>9, <2>2 DEF RequestMiss
<1>13. CASE Complete
  <2>1. completed' \in 0..MaxActivities /\ 1 \in 0..(NumBuffers + 1)
    BY <1>0, <1>13, CollectorAssumption DEF Complete
  <2> QED BY <1>6, <1>7, <1>13, <2>1 DEF Complete
<1>14. CASE RequestOn
  <2>1. scan' \in 0..(NumBuffers + 1)
    BY <1>7, <1>14, CollectorAssumption DEF RequestOn, Buffers
  <2> QED BY <1>0, <1>6, <1>7, <1>14, <2>1 DEF RequestOn
<1>10. ASSUME NEW b \in Buffers, HandBack(b) PROVE TypeOK'
  <2>1. buf' \in [Buffers -> [at : {"pool", "held", "back"}, full : BOOLEAN]]
    BY <1>7, <1>10 DEF HandBack
  <2> QED BY <1>0, <1>6, <1>7, <1>10, <2>1 DEF HandBack
<1>11. ASSUME NEW b \in Buffers, Release(b) PROVE TypeOK'
  <2>1. buf' \in [Buffers -> [at : {"pool", "held", "back"}, full : BOOLEAN]]
    BY <1>7, <1>11 DEF Release
  <2>2. busy' \in [Buffers -> BOOLEAN]
    BY <1>7, <1>11 DEF Release
  <2> QED BY <1>0, <1>6, <1>7, <1>11, <2>1, <2>2 DEF Release
<1>12. ASSUME NEW b \in Buffers, Deliver(b) PROVE TypeOK'
  <2>1. Cardinality(Full) >= 1 /\ Cardinality(Full) \in Nat
    BY <1>12, FullRemoves, CardFull DEF Deliver
  <2>2. lib.mapped => ring.delivered + 1 \in 0..MaxActivities
    BY <1>0, <2>1 DEF AccountedFor
  <2>3. ring' \in RingRec
    BY <1>7, <1>12, <2>2 DEF Deliver, RingRec
  <2>4. buf' \in [Buffers -> [at : {"pool", "held", "back"}, full : BOOLEAN]]
    BY <1>7, <1>12 DEF Deliver
  <2> QED BY <1>0, <1>6, <1>7, <1>12, <2>3, <2>4 DEF Deliver
<1> QED BY <1>1, <1>2, <1>3, <1>4, <1>5, <1>8, <1>9, <1>10, <1>11, <1>12, <1>13, <1>14
        DEF Next, RequestStep, BufferStep

LEMMA HolderNext == TypeOK /\ BufferHasOneHolder /\ [Next]_vars => BufferHasOneHolder'
<1> SUFFICES ASSUME TypeOK, BufferHasOneHolder, [Next]_vars PROVE BufferHasOneHolder'
  OBVIOUS
<1>0. \A b \in Buffers : busy[b] <=> buf[b].at # "pool"
  BY DEF BufferHasOneHolder, Outside, TypeOK
<1>1. ASSUME \A b \in Buffers : busy'[b] <=> buf'[b].at # "pool" PROVE BufferHasOneHolder'
  BY <1>1 DEF BufferHasOneHolder, Outside
<1>2. CASE LibraryStep \/ WorkerStep \/ MainStep \/ Toggle \/ UNCHANGED vars
  BY <1>0, <1>1, <1>2, Unmoved
<1>3. CASE RequestHit
  BY <1>0, <1>1, <1>3 DEF RequestHit, TypeOK
<1>4. CASE Complete \/ RequestOn \/ RequestMiss
  BY <1>0, <1>1, <1>4 DEF Complete, RequestOn, RequestMiss
<1>5. ASSUME NEW b \in Buffers, HandBack(b) PROVE BufferHasOneHolder'
  BY <1>0, <1>1, <1>5 DEF TypeOK, HandBack
<1>6. ASSUME NEW b \in Buffers, Release(b) PROVE BufferHasOneHolder'
  BY <1>0, <1>1, <1>6 DEF TypeOK, Release
<1>7. ASSUME NEW b \in Buffers, Deliver(b) PROVE BufferHasOneHolder'
  BY <1>0, <1>1, <1>7 DEF TypeOK, Deliver
<1> QED BY <1>2, <1>3, <1>4, <1>5, <1>6, <1>7 DEF Next, RequestStep, BufferStep

LEMMA CountsNext ==
  TypeOK /\ BufferHasOneHolder /\ AccountedFor /\ Counts /\ [Next]_vars
  => AccountedFor' /\ Counts'
<1> SUFFICES ASSUME TypeOK, BufferHasOneHolder, AccountedFor, Counts, [Next]_vars
             PROVE  AccountedFor' /\ Counts'
  OBVIOUS
<1>0. /\ completed \in Nat /\ ring.delivered \in Nat /\ ring.dropped \in Nat
      /\ Cardinality(Full) \in Nat
  BY CardFull DEF TypeOK
<1>1. CASE LibraryStep \/ WorkerStep \/ MainStep \/ Toggle \/ UNCHANGED vars
  <2>1. Full' = Full
    BY <1>1, Unmoved DEF Full
  <2>2. Full = {} => Cardinality(Full) = 0
    BY FS_EmptySet
  <2> QED BY <1>0, <1>1, <2>1, <2>2, Unmoved DEF AccountedFor, Counts
<1>2. CASE RequestHit
  <2> DEFINE b == scan
  <2>1. /\ b \in Buffers /\ ~busy[b] /\ b # 0
        /\ buf' = [buf EXCEPT ![b] = [at |-> "held", full |-> TRUE]]
    BY <1>2 DEF RequestHit, Buffers
  <2>2. buf[b].at = "pool"
    BY <2>1 DEF BufferHasOneHolder, Outside
  <2>3. ~buf[b].full
    BY <2>1, <2>2 DEF Counts
  <2>4. Cardinality(Full') = Cardinality(Full) + 1
    <3> DEFINE r == [at |-> "held", full |-> TRUE]
    <3>1. r.full /\ buf' = [buf EXCEPT ![b] = r]
      BY <2>1
    <3> HIDE DEF b, r
    <3> QED BY <2>1, <2>3, <3>1, FullAdds
  <2>5. UNCHANGED <<completed, ring, lib, made>> /\ scan # 0 /\ scan' = 0
    BY <1>2, <2>1 DEF RequestHit
  <2>6. AccountedFor'
    BY <1>0, <2>4, <2>5 DEF AccountedFor
  <2>7. \A c \in Buffers : buf'[c].full => buf'[c].at # "pool"
    BY <2>1 DEF Counts, TypeOK
  <2> QED BY <2>5, <2>6, <2>7 DEF Counts
<1>3. CASE RequestMiss
  <2>1. /\ ring'.dropped = IF lib.mapped THEN ring.dropped + 1 ELSE ring.dropped
        /\ ring'.delivered = ring.delivered /\ UNCHANGED <<buf, completed, lib, made>>
        /\ scan # 0 /\ scan' = 0
    BY <1>3, CollectorAssumption DEF RequestMiss, TypeOK
  <2>2. Full' = Full
    BY <2>1 DEF Full
  <2> QED BY <1>0, <2>1, <2>2 DEF AccountedFor, Counts
<1>6. CASE Complete \/ RequestOn
  <2>1. /\ UNCHANGED <<buf, ring, lib, made>> /\ scan' # 0
        /\ \/ scan = 0 /\ lib.mapped /\ completed' = completed + 1
           \/ scan # 0 /\ completed' = completed
    <3>1. CASE Complete
      BY <3>1 DEF Complete
    <3>2. CASE RequestOn
      <4>1. scan \in 1..NumBuffers /\ scan' = scan + 1
        BY <3>2 DEF RequestOn, Buffers
      <4>2. scan # 0 /\ scan' # 0
        BY <4>1, CollectorAssumption
      <4> QED BY <3>2, <4>2 DEF RequestOn
    <3> QED BY <1>6, <3>1, <3>2
  <2>2. Full' = Full
    BY <2>1 DEF Full
  <2>3. Counts'
    BY <2>1, <2>2 DEF Counts
  <2>4. AccountedFor'
    <3> DEFINE n == ring.delivered + Cardinality(Full) + ring.dropped
    <3>1. ring'.delivered + Cardinality(Full') + ring'.dropped = n
      BY <2>1, <2>2
    <3>2. lib.mapped => completed = n + (IF scan = 0 THEN 0 ELSE 1)
      BY <1>0 DEF AccountedFor
    <3>3. n \in Int
      <4>1. ring.delivered \in Int /\ ring.dropped \in Int
        BY CollectorAssumption DEF TypeOK
      <4> QED BY <4>1, CardFull
    <3> HIDE DEF n
    <3>4. lib.mapped => completed' = n + (IF scan' = 0 THEN 0 ELSE 1)
      <4>1. CASE scan = 0
        BY <2>1, <3>2, <3>3, <4>1
      <4>2. CASE scan # 0
        BY <2>1, <3>2, <3>3, <4>2
      <4> QED BY <4>1, <4>2
    <3> QED BY <2>1, <3>1, <3>4 DEF AccountedFor
  <2> QED BY <2>3, <2>4
<1>4. ASSUME NEW b \in Buffers, HandBack(b) \/ Release(b) PROVE AccountedFor' /\ Counts'
  <2>1. UNCHANGED <<scan, completed, ring, lib, made>>
    BY <1>4 DEF HandBack, Release
  <2>2. Full' = Full /\ \A c \in Buffers : buf'[c].full => buf'[c].at # "pool"
    <3>1. CASE HandBack(b)
      BY <3>1 DEF HandBack, Full, TypeOK, Counts
    <3>2. CASE Release(b)
      BY <3>2 DEF Release, Full, TypeOK, Counts
    <3> QED BY <1>4, <3>1, <3>2
  <2> QED BY <2>1, <2>2 DEF AccountedFor, Counts
<1>5. ASSUME NEW b \in Buffers, Deliver(b) PROVE AccountedFor' /\ Counts'
  <2>1. /\ Full' = Full \ {b} /\ Cardinality(Full') = Cardinality(Full) - 1
        /\ b \in Full
    BY <1>5, FullRemoves DEF Deliver, Full
  <2>2. /\ UNCHANGED <<scan, completed, lib, made>> /\ ring'.dropped = ring.dropped
        /\ ring'.delivered = IF lib.mapped THEN ring.delivered + 1 ELSE ring.delivered
    BY <1>5 DEF Deliver, TypeOK
  <2>3. \A c \in Buffers : buf'[c].full => buf'[c].at # "pool"
    BY <1>5 DEF Deliver, TypeOK, Counts
  <2> QED BY <1>0, <2>1, <2>2, <2>3 DEF AccountedFor, Counts
<1> QED BY <1>1, <1>2, <1>3, <1>4, <1>5, <1>6 DEF Next, RequestStep, BufferStep

-----------------------------------------------------------------------------
(* The calls.                                                              *)

ControlInv == Callers /\ Progress /\ Copies /\ MirrorsLibrary

\* The fields of the records after the steps that write several of them.
LEMMA StartMapDoes ==
  ASSUME TypeOK, StartMap
  PROVE  /\ call.op = "start" /\ ~made /\ made'
         /\ call'.op = "enable" /\ call'.why = "start" /\ call'.i = 1
         /\ lib'.mapped /\ lib'.enabled = lib.enabled
         /\ UNCHANGED <<control, main, stopSet, w, buf, scan, completed, gates, owed, ring>>
BY DEF TypeOK, StartMap, In, Call

LEMMA SwitchOkDoes ==
  ASSUME TypeOK, SwitchOk
  PROVE  /\ call.op \in {"enable", "disable"} /\ call.i \in Switches
         /\ call'.op = call.op /\ call'.why = call.why /\ call'.i = call.i + 1
         /\ gates' = IF call.op = "enable" THEN gates \cup {call.i} ELSE gates \ {call.i}
         /\ call.op = "disable" /\ call.i = NumSwitches => scan = 0
         /\ UNCHANGED <<control, main, stopSet, w, lib, made, buf, scan, completed, owed, ring>>
BY DEF TypeOK, SwitchOk, Switching, In

LEMMA SwitchFailsDoes ==
  ASSUME TypeOK, SwitchFails
  PROVE  /\ call.op \in {"enable", "disable"} /\ call'.why = call.why
         /\ call'.op = IF call.why = "stop" THEN "ok" ELSE "failed"
         /\ lib'.mapped = (call.why = "toggle" /\ lib.mapped)
         /\ lib'.enabled = lib.enabled /\ ring'.error
         /\ UNCHANGED <<control, main, stopSet, w, made, buf, scan, completed, gates, owed>>
<1>1. lib'.mapped = (call.why = "toggle" /\ lib.mapped) /\ lib'.enabled = lib.enabled
  BY DEF TypeOK, SwitchFails, Unmapped
<1>2. ring'.error
  BY DEF TypeOK, SwitchFails
<1> QED BY <1>1, <1>2 DEF TypeOK, SwitchFails, Switching

LEMMA SwitchedDoes ==
  ASSUME TypeOK, Switched
  PROVE  /\ call.op \in {"enable", "disable"} /\ call.i \notin Switches
         /\ call'.op = "ok" /\ call'.why = call.why
         /\ lib'.mapped = (call.why # "stop" /\ lib.mapped)
         /\ lib'.enabled = (call.op = "enable")
         /\ ring'.status = IF call.op = "enable" THEN "enabled" ELSE "disabled"
         /\ ring'.error = ring.error
         /\ UNCHANGED <<control, main, stopSet, w, made, buf, scan, completed, gates, owed>>
<1>1. lib'.mapped = (call.why # "stop" /\ lib.mapped)
  BY DEF TypeOK, Switched, Unmapped
<1>2. lib'.enabled = (call.op = "enable")
  BY DEF TypeOK, Switched, Unmapped, In
<1>3. /\ ring'.status = IF call.op = "enable" THEN "enabled" ELSE "disabled"
      /\ ring'.error = ring.error
  BY DEF TypeOK, Switched, In
<1> QED BY <1>1, <1>2, <1>3 DEF TypeOK, Switched, Switching

LEMMA StopFlushedDoes ==
  ASSUME TypeOK, StopFlushed
  PROVE  /\ call.op = "stop" /\ (unflushed' <=> owed # {})
         /\ IF lib.enabled
            THEN /\ call'.op = "flush" /\ call'.why = "stop" /\ lib' = lib
                 /\ owed' = Outside
            ELSE /\ call'.op = "ok" /\ call'.why = call.why /\ ~lib'.mapped
                 /\ lib'.enabled = lib.enabled
         /\ UNCHANGED <<control, main, stopSet, w, made, buf, scan, completed, gates, ring>>
<1>1. /\ call.op = "stop" /\ unflushed' = (owed # {})
      /\ UNCHANGED <<control, main, stopSet, w, made, buf, scan, completed, gates, ring>>
  BY DEF StopFlushed, In
<1>2. CASE lib.enabled
  <2>1. Call("flush", "stop") /\ owed' = Outside /\ lib' = lib
    BY <1>2 DEF StopFlushed
  <2>2. call'.op = "flush" /\ call'.why = "stop"
    BY <2>1 DEF Call
  <2> QED BY <1>1, <1>2, <2>1, <2>2
<1>3. CASE ~lib.enabled
  <2>1. call' = [call EXCEPT !.op = "ok"] /\ lib' = Unmapped(lib)
    BY <1>3 DEF StopFlushed
  <2>2. call'.op = "ok" /\ call'.why = call.why
    BY <2>1 DEF TypeOK
  <2>3. ~lib'.mapped /\ lib'.enabled = lib.enabled
    BY <2>1 DEF TypeOK, Unmapped
  <2> QED BY <1>1, <1>3, <2>2, <2>3
<1> QED BY <1>1, <1>2, <1>3

\* The worker begins a call, or goes on without one.
LEMMA LookDoes ==
  ASSUME TypeOK, Look
  PROVE  /\ w.pc = "look" /\ w'.active = w.active /\ w'.collecting = w.collecting
         /\ \/ /\ w'.pc = "calling" /\ ~w.active
               /\ call'.op = "start" /\ call'.why = "start"
            \/ /\ w'.pc = "calling" /\ w.active /\ ~w.collecting
               /\ call'.op = "enable" /\ call'.why = "toggle" /\ call'.i = 1
            \/ /\ w'.pc = "calling" /\ w.active /\ w.collecting
               /\ call'.op = "flush" /\ call'.why = "toggle"
            \/ w'.pc \in {"flush", "wait"} /\ call' = call
         /\ UNCHANGED <<control, main, stopSet, lib, made, buf, scan, completed, gates, ring>>
<1>1. CASE control /\ ~w.active
  BY <1>1 DEF TypeOK, Look, Call, WorkerPcs
<1>2. CASE w.active /\ control /\ ~w.collecting
  <2>1. (control # w.collecting) /\ ~(control /\ ~w.active)
    BY <1>2 DEF TypeOK
  <2>2. /\ w' = [w EXCEPT !.pc = "calling"] /\ Call("enable", "toggle") /\ w.pc = "look"
        /\ UNCHANGED <<workerFrame, ring, errorFile, faults>>
    BY <1>2, <2>1 DEF Look
  <2> QED BY <1>2, <2>2 DEF TypeOK, Call, WorkerPcs
<1>3. CASE w.active /\ ~control /\ w.collecting
  <2>1. (control # w.collecting) /\ ~(control /\ ~w.active)
    BY <1>3 DEF TypeOK
  <2>2. /\ w' = [w EXCEPT !.pc = "calling"] /\ Call("flush", "toggle") /\ w.pc = "look"
        /\ UNCHANGED <<workerFrame, ring, errorFile, faults>>
    BY <1>3, <2>1 DEF Look
  <2> QED BY <1>3, <2>2 DEF TypeOK, Call, WorkerPcs
<1>4. CASE ~(control /\ ~w.active) /\ ~(w.active /\ control # w.collecting)
  BY <1>4 DEF TypeOK, Look, WorkerPcs
<1> QED BY <1>1, <1>2, <1>3, <1>4 DEF TypeOK

LEMMA StartCallDoes ==
  ASSUME TypeOK, StartCall
  PROVE  /\ main = "before"
         /\ \/ main' = "starting" /\ w' = w /\ call'.op = "start" /\ call'.why = "start"
            \/ /\ main' = "running" /\ w'.pc = "look" /\ call' = call
               /\ w'.active = w.active /\ w'.collecting = w.collecting
         /\ UNCHANGED <<lib, made, buf, scan, completed, gates, ring, owed>>
<1>1. CASE control
  BY <1>1 DEF TypeOK, StartCall, Call
<1>2. CASE ~control
  BY <1>2 DEF TypeOK, StartCall
<1> QED BY <1>1, <1>2

LEMMA ControlInit == Init => ControlInv
BY DEF Init, ControlInv, Callers, Progress, Copies, MirrorsLibrary, NoCall

LEMMA ControlNext == TypeOK /\ ControlInv /\ [Next]_vars => ControlInv'
<1> SUFFICES ASSUME TypeOK, ControlInv, [Next]_vars PROVE ControlInv'
  OBVIOUS
<1> USE CollectorAssumption
        DEF ControlInv, Callers, Progress, Copies, MirrorsLibrary, TypeOK, In, Call, NoCall,
            WorkerPcs, CallOps
<1>1. CASE StartMap
  BY <1>1, StartMapDoes
<1>2. CASE StartFails
  BY <1>2 DEF StartFails
<1>3. CASE SwitchOk
  BY <1>3, SwitchOkDoes DEF Switches
<1>4. CASE SwitchFails
  BY <1>4, SwitchFailsDoes
<1>5. CASE Switched
  <2>1. Callers'
    BY <1>5, SwitchedDoes DEF Switches
  <2>2. Progress'
    BY <1>5, SwitchedDoes DEF Switches
  <2>3. Copies' /\ MirrorsLibrary'
    BY <1>5, SwitchedDoes DEF Switches
  <2> QED BY <2>1, <2>2, <2>3
<1>6. CASE FlushedFirst
  BY <1>6 DEF FlushedFirst
<1>7. CASE StopFlushed
  BY <1>7, StopFlushedDoes
<1>8. CASE Look
  <2>1. /\ main \notin {"before", "starting"} /\ call.op = "none"
        /\ w.active = lib.mapped /\ w.collecting = lib.enabled
    BY <1>8, LookDoes
  <2>2. CASE call'.op = "start" /\ call'.why = "start" /\ w'.pc = "calling"
    BY <1>8, <2>1, <2>2, LookDoes
  <2>3. CASE call'.op \in {"enable", "flush"} /\ call'.why = "toggle" /\ w'.pc = "calling"
    BY <1>8, <2>1, <2>3, LookDoes
  <2>4. CASE w'.pc \in {"flush", "wait"} /\ call' = call
    BY <1>8, <2>1, <2>4, LookDoes
  <2> QED BY <1>8, <2>2, <2>3, <2>4, LookDoes
<1>9. CASE LookRaises
  BY <1>9 DEF LookRaises
<1>10. CASE TakeOk
  BY <1>10 DEF TakeOk
<1>11. CASE TakeError
  BY <1>11 DEF TakeError
<1>12. CASE Flush
  BY <1>12 DEF Flush
<1>13. CASE Flushed
  BY <1>13 DEF Flushed
<1>14. CASE FlushFails
  BY <1>14 DEF FlushFails
<1>15. CASE Wait
  BY <1>15 DEF Wait
<1>16. CASE Leave
  BY <1>16 DEF Leave
<1>17. CASE Left
  BY <1>17 DEF Left
<1>18. CASE StartCall
  <2>1. /\ main = "before" /\ w.pc = "absent" /\ call.op = "none"
        /\ ~lib.mapped /\ ~lib.enabled /\ lib' = lib
    BY <1>18, StartCallDoes
  <2>2. CASE main' = "starting" /\ w' = w /\ call'.op = "start" /\ call'.why = "start"
    BY <2>1, <2>2
  <2>3. CASE main' = "running"
    BY <1>18, <2>1, <2>3, StartCallDoes
  <2> QED BY <1>18, <2>2, <2>3, StartCallDoes
<1>19. CASE Started
  BY <1>19 DEF Started
<1>20. CASE StartRaises
  BY <1>20 DEF StartRaises
<1>21. CASE StopCall
  BY <1>21 DEF StopCall
<1>22. CASE JoinReturns
  BY <1>22 DEF JoinReturns
<1>23. CASE Toggle \/ Complete \/ RequestStep \/ UNCHANGED vars
  BY <1>23 DEF Toggle, Complete, RequestStep, RequestOn, RequestHit, RequestMiss, vars
<1>24. ASSUME NEW b \in Buffers, HandBack(b) \/ Deliver(b) \/ Release(b) PROVE ControlInv'
  BY <1>24 DEF HandBack, Deliver, Release
<1> QED
  <2> HIDE DEF ControlInv, TypeOK
  <2> QED BY <1>1, <1>2, <1>3, <1>4, <1>5, <1>6, <1>7, <1>8, <1>9, <1>10, <1>11, <1>12, <1>13, <1>14, <1>15, <1>16, <1>17, <1>18, <1>19, <1>20, <1>21, <1>22, <1>23, <1>24
          DEF Next, LibraryStep, WorkerStep, MainStep, BufferStep

-----------------------------------------------------------------------------
(* The switches and the last status.                                       *)

\* A step that moves no switch and writes no status, outside the sequences.
LEMMA GatesKept ==
  ASSUME Gates, gates' = gates, lib'.mapped = lib.mapped, lib'.enabled = lib.enabled,
         ring'.status = ring.status, ring'.error = ring.error,
         \/ call' = call
         \/ {call.op, call'.op} \cap {"enable", "disable"} = {}
  PROVE  Gates'
BY DEF Gates, Settled

LEMMA GatesNext == TypeOK /\ ControlInv /\ Gates /\ [Next]_vars => Gates'
<1> SUFFICES ASSUME TypeOK, ControlInv, Gates, [Next]_vars PROVE Gates'
  OBVIOUS
<1> USE CollectorAssumption
<1>0. call.i \in 0..(NumSwitches + 1) /\ lib.mapped \in BOOLEAN /\ lib.enabled \in BOOLEAN
  BY DEF TypeOK
<1>1. CASE StartMap
  <2>1. call.op = "start" /\ ~lib.mapped
    BY <1>1, StartMapDoes DEF ControlInv, Progress
  <2>2. ~ring.error => gates = {}
    BY <2>1 DEF Gates, Settled
  <2>3. call'.op = "enable" /\ call'.i = 1 /\ UNCHANGED <<gates, ring>>
    BY <1>1, StartMapDoes
  <2> QED BY <2>2, <2>3 DEF Gates
<1>2. CASE StartFails
  <2>1. call.op = "start" /\ call'.op = "failed" /\ UNCHANGED <<gates, lib>>
        /\ (ring' = ring \/ ring'.error)
    BY <1>2 DEF StartFails, In, TypeOK
  <2>2. CASE ring' = ring
    BY <2>1, <2>2, GatesKept
  <2>3. CASE ring'.error
    BY <2>3 DEF Gates
  <2> QED BY <2>1, <2>2, <2>3
<1>3. CASE SwitchOk
  <2>1. /\ call.op \in {"enable", "disable"} /\ call.i \in 1..NumSwitches
        /\ call'.op = call.op /\ call'.i = call.i + 1 /\ ring' = ring
        /\ gates' = IF call.op = "enable" THEN gates \cup {call.i} ELSE gates \ {call.i}
    BY <1>3, SwitchOkDoes DEF Switches
  <2>2. CASE call.op = "enable"
    <3>1. ~ring.error => gates = 1..(call.i - 1)
      BY <2>2 DEF Gates
    <3> QED BY <2>1, <2>2, <3>1 DEF Gates
  <2>3. CASE call.op = "disable"
    <3>1. ~ring.error => gates = call.i..NumSwitches
      BY <2>3 DEF Gates
    <3> QED BY <2>1, <2>3, <3>1 DEF Gates
  <2> QED BY <2>1, <2>2, <2>3
<1>4. CASE SwitchFails
  BY <1>4, SwitchFailsDoes DEF Gates
<1>5. CASE Switched
  <2>1. /\ call.op \in {"enable", "disable"} /\ call.i \notin 1..NumSwitches
        /\ call'.op = "ok" /\ lib'.mapped = (call.why # "stop" /\ lib.mapped)
        /\ lib'.enabled = (call.op = "enable")
        /\ ring'.status = IF call.op = "enable" THEN "enabled" ELSE "disabled"
        /\ ring'.error = ring.error /\ gates' = gates
    BY <1>5, SwitchedDoes DEF Switches
  <2>2. call.i = NumSwitches + 1 /\ lib.mapped /\ (call.op = "enable" => call.why # "stop")
    BY <2>1 DEF ControlInv, Progress
  <2>3. CASE call.op = "enable"
    <3>1. ~ring.error => gates = Switches
      BY <2>2, <2>3 DEF Gates, Switches
    <3> QED BY <2>1, <2>2, <2>3, <3>1 DEF Gates, Settled
  <2>4. CASE call.op = "disable"
    <3>1. ~ring.error => gates = {}
      BY <2>2, <2>4 DEF Gates
    <3> QED BY <2>1, <2>2, <2>4, <3>1 DEF Gates, Settled
  <2> QED BY <2>1, <2>3, <2>4
<1>6. CASE FlushedFirst
  <2>1. call.op = "flush" /\ lib.mapped /\ lib.enabled
    BY <1>6 DEF FlushedFirst, In, ControlInv, Progress
  <2>2. ~ring.error => gates = 1..NumSwitches
    BY <2>1 DEF Gates, Settled, Switches
  <2>3. call'.op = "disable" /\ call'.i = 1 /\ UNCHANGED <<gates, ring>>
    BY <1>6 DEF FlushedFirst, Call
  <2> QED BY <2>2, <2>3 DEF Gates
<1>7. CASE StopFlushed
  <2>1. CASE lib.enabled
    BY <1>7, <2>1, StopFlushedDoes, GatesKept
  <2>2. CASE ~lib.enabled
    <3>1. call.op = "stop" /\ call'.op = "ok" /\ ~lib'.mapped /\ UNCHANGED <<gates, ring>>
      BY <1>7, <2>2, StopFlushedDoes
    <3>2. ~ring.error => gates = {}
      BY <2>2, <3>1 DEF Gates, Settled
    <3> QED BY <3>1, <3>2 DEF Gates, Settled
  <2> QED BY <2>1, <2>2
<1>8. CASE Look
  <2>1. /\ call.op = "none" /\ w.active = lib.mapped /\ w.collecting = lib.enabled
        /\ UNCHANGED <<gates, lib, ring>>
    BY <1>8, LookDoes DEF ControlInv, Callers, MirrorsLibrary
  <2>2. CASE call'.op \in {"start", "flush"} \/ call' = call
    BY <2>1, <2>2, GatesKept
  <2>3. CASE call'.op = "enable" /\ call'.i = 1 /\ ~w.collecting
    <3>1. ~ring.error => gates = {}
      BY <2>1, <2>3 DEF Gates, Settled
    <3> QED BY <2>1, <2>3, <3>1 DEF Gates
  <2> QED BY <1>8, <2>2, <2>3, LookDoes
<1>9. CASE LookRaises \/ Flush \/ Flushed \/ Wait
  BY <1>9, GatesKept DEF LookRaises, Flush, Flushed, Wait
<1>10. CASE TakeOk \/ TakeError \/ Left
  <2>1. call.op \in {"ok", "failed"} /\ call'.op = "none" /\ UNCHANGED <<gates, lib, ring>>
    BY <1>10 DEF TakeOk, TakeError, Left, In, NoCall
  <2> QED BY <2>1, GatesKept
<1>11. CASE FlushFails
  BY <1>11 DEF FlushFails, Gates, TypeOK
<1>12. CASE Leave
  <2>1. call.op = "none" /\ UNCHANGED <<gates, lib, ring>>
    BY <1>12 DEF Leave, ControlInv, Callers
  <2>2. call' = call \/ call'.op = "stop"
    BY <1>12 DEF Leave, Call
  <2> QED BY <2>1, <2>2, GatesKept
<1>13. CASE MainStep
  <2>1. UNCHANGED <<gates, lib, ring>>
    BY <1>13 DEF MainStep, StartCall, Started, StartRaises, StopCall, JoinReturns
  <2>2. CASE StartCall
    BY <2>1, <2>2, StartCallDoes, GatesKept DEF ControlInv, Callers
  <2>3. CASE Started \/ StartRaises
    <3>1. call.op \in {"ok", "failed"} /\ call'.op = "none"
      BY <2>3 DEF Started, StartRaises, In, NoCall
    <3> QED BY <2>1, <3>1, GatesKept
  <2>4. CASE StopCall \/ JoinReturns
    BY <2>1, <2>4, GatesKept DEF StopCall, JoinReturns
  <2> QED BY <1>13, <2>2, <2>3, <2>4 DEF MainStep
<1>14. ASSUME ring'.status = ring.status, ring'.error = ring.error,
              UNCHANGED <<gates, lib, call>>
       PROVE  Gates'
  BY <1>14, GatesKept
<1>15. CASE Toggle \/ Complete \/ RequestOn \/ RequestHit \/ UNCHANGED vars
  BY <1>14, <1>15 DEF Toggle, Complete, RequestOn, RequestHit, vars
<1>16. CASE RequestMiss
  BY <1>14, <1>16 DEF RequestMiss, TypeOK
<1>17. ASSUME NEW b \in Buffers, HandBack(b) \/ Release(b) PROVE Gates'
  BY <1>14, <1>17 DEF HandBack, Release
<1>18. ASSUME NEW b \in Buffers, Deliver(b) PROVE Gates'
  BY <1>14, <1>18 DEF Deliver, TypeOK
<1> QED BY <1>1, <1>2, <1>3, <1>4, <1>5, <1>6, <1>7, <1>8, <1>9, <1>10, <1>11, <1>12, <1>13,
           <1>15, <1>16, <1>17, <1>18
        DEF Next, LibraryStep, WorkerStep, RequestStep, BufferStep

-----------------------------------------------------------------------------
(* The switches that are off.                                              *)

LEMMA OffNext == TypeOK /\ ControlInv /\ Off /\ [Next]_vars => Off'
<1> SUFFICES ASSUME TypeOK, ControlInv, Off, [Next]_vars PROVE Off'
  OBVIOUS
<1> USE CollectorAssumption
<1>0. /\ call.i \in 0..(NumSwitches + 1) /\ lib.mapped \in BOOLEAN /\ lib.enabled \in BOOLEAN
      /\ gates \subseteq 1..NumSwitches
  BY DEF TypeOK, Switches
\* No switch moves, and what is asked of them does not grow.
<1>1. ASSUME gates' = gates, scan' # 0 => scan # 0 \/ NumSwitches \in gates,
             call'.op = "disable" => gates \subseteq call'.i..NumSwitches,
             /\ lib'.mapped /\ ~lib'.enabled /\ w'.pc # "dead"
             /\ call'.op \notin {"enable", "failed"}
             => \/ gates = {}
                \/ /\ lib.mapped /\ ~lib.enabled /\ w.pc # "dead"
                   /\ call.op \notin {"enable", "failed"}
      PROVE  Off'
  BY <1>1 DEF Off
<1>2. CASE StartMap
  BY <1>1, <1>2, StartMapDoes
<1>3. CASE StartFails
  <2>1. call'.op = "failed" /\ UNCHANGED <<gates, scan>>
    BY <1>3 DEF StartFails, TypeOK
  <2> QED BY <1>1, <2>1
<1>4. CASE SwitchOk
  <2>1. /\ call.op \in {"enable", "disable"} /\ call.i \in 1..NumSwitches
        /\ call'.op = call.op /\ call'.i = call.i + 1 /\ UNCHANGED <<scan, lib, w>>
        /\ gates' = IF call.op = "enable" THEN gates \cup {call.i} ELSE gates \ {call.i}
        /\ call.op = "disable" /\ call.i = NumSwitches => scan = 0
    BY <1>4, SwitchOkDoes DEF Switches
  <2>2. CASE call.op = "enable"
    BY <2>1, <2>2 DEF Off
  <2>3. CASE call.op = "disable"
    <3>1. scan' # 0 => NumSwitches \in gates'
      BY <2>1, <2>3 DEF Off
    <3>2. gates' \subseteq (call.i + 1)..NumSwitches
      BY <2>1, <2>3 DEF Off
    <3>3. lib.enabled
      BY <2>3 DEF ControlInv, Progress
    <3> QED BY <2>1, <2>3, <3>1, <3>2, <3>3 DEF Off
  <2> QED BY <2>1, <2>2, <2>3
<1>5. CASE SwitchFails
  <2>1. /\ call.op \in {"enable", "disable"} /\ call'.op \in {"ok", "failed"}
        /\ (call'.op = "ok" => call.why = "stop")
        /\ lib'.mapped = (call.why = "toggle" /\ lib.mapped) /\ UNCHANGED <<gates, scan>>
    BY <1>5, SwitchFailsDoes
  <2> QED BY <1>1, <2>1
<1>6. CASE Switched
  <2>1. /\ call.op \in {"enable", "disable"} /\ call.i \notin 1..NumSwitches
        /\ call'.op = "ok" /\ lib'.enabled = (call.op = "enable")
        /\ UNCHANGED <<gates, scan>>
    BY <1>6, SwitchedDoes DEF Switches
  <2>2. call.op = "disable" => gates = {}
    <3>1. call.op = "disable" => call.i = NumSwitches + 1
      BY <1>0, <2>1 DEF ControlInv, Progress
    <3> QED BY <3>1 DEF Off
  <2> QED BY <1>1, <2>1, <2>2
<1>7. CASE FlushedFirst
  <2>1. /\ call.op = "flush" /\ lib.enabled /\ call'.op = "disable" /\ call'.i = 1
        /\ UNCHANGED <<gates, scan, lib>>
    BY <1>7 DEF FlushedFirst, In, Call, ControlInv, Progress
  <2> QED BY <1>0, <1>1, <2>1
<1>8. CASE StopFlushed
  <2>1. /\ call.op = "stop" /\ call'.op \in {"flush", "ok"} /\ UNCHANGED <<gates, scan, w>>
        /\ (call'.op = "flush" => lib.enabled /\ lib' = lib)
        /\ (call'.op = "ok" => ~lib'.mapped)
    BY <1>8, StopFlushedDoes
  <2> QED BY <1>1, <2>1
<1>9. CASE Look
  <2>1. /\ call.op = "none" /\ w.pc = "look" /\ UNCHANGED <<gates, scan, lib>>
        /\ call'.op \in {"start", "enable", "flush", "none"}
    BY <1>9, LookDoes DEF ControlInv, Callers, TypeOK
  <2> QED BY <1>1, <2>1
\* A call is over, or the worker goes on without one.
<1>10. ASSUME UNCHANGED <<gates, scan, lib>>, w.pc # "dead",
              \/ call.op \notin {"enable", "failed"} /\ call' = call
              \/ call.op = "ok" /\ call'.op = "none"
              \/ w'.pc = "dead" /\ call'.op # "disable"
       PROVE  Off'
  BY <1>1, <1>10 DEF Off
<1>11. CASE TakeOk \/ Left
  BY <1>10, <1>11 DEF TakeOk, Left, In, NoCall
<1>12. CASE TakeError
  <2>1. w'.pc = "dead" /\ call'.op = "none" /\ w.pc # "dead"
    BY <1>12 DEF TakeError, NoCall, TypeOK
  <2> QED BY <1>10, <1>12, <2>1 DEF TakeError
<1>13. CASE LookRaises \/ Flush \/ Flushed \/ FlushFails \/ Wait
  <2>1. w.pc \in {"look", "flush", "flushing", "wait"} /\ call' = call
        /\ UNCHANGED <<gates, scan, lib>>
    BY <1>13 DEF LookRaises, Flush, Flushed, FlushFails, Wait
  <2>2. call.op = "none"
    BY <2>1 DEF ControlInv, Callers, TypeOK
  <2> QED BY <1>10, <2>1, <2>2
<1>14. CASE Leave
  <2>1. /\ w.pc = "look" /\ UNCHANGED <<gates, scan, lib>>
        /\ (call'.op = "stop" \/ call' = call)
    BY <1>14 DEF Leave, Call, TypeOK
  <2>2. call.op = "none"
    BY <2>1 DEF ControlInv, Callers, TypeOK
  <2> QED BY <1>1, <2>1, <2>2
<1>15. CASE MainStep
  <2>1. UNCHANGED <<gates, scan, lib>>
    BY <1>15 DEF MainStep, StartCall, Started, StartRaises, StopCall, JoinReturns
  <2>2. CASE StartCall
    <3>1. call.op = "none" /\ ~lib.mapped
      BY <2>2 DEF StartCall, ControlInv, Callers
    <3>2. call' = call \/ call'.op = "start"
      BY <2>2, StartCallDoes
    <3> QED BY <1>1, <2>1, <3>1, <3>2
  <2>3. CASE Started
    <3>1. call.op = "ok" /\ call'.op = "none" /\ w.pc = "absent"
      BY <2>3 DEF Started, In, NoCall, ControlInv, Callers
    <3> QED BY <1>10, <2>1, <3>1
  <2>4. CASE StartRaises
    <3>1. call.op = "failed" /\ call'.op = "none" /\ call.why = "start"
      BY <2>4 DEF StartRaises, In, NoCall, ControlInv, Callers
    <3>2. ~lib.mapped
      BY <3>1 DEF ControlInv, Progress
    <3> QED BY <1>1, <2>1, <3>1, <3>2
  <2>5. CASE StopCall \/ JoinReturns
    BY <1>1, <2>1, <2>5 DEF StopCall, JoinReturns, Off
  <2> QED BY <1>15, <2>2, <2>3, <2>4, <2>5 DEF MainStep
<1>16. ASSUME UNCHANGED <<gates, lib, call, w>>,
              scan' # 0 => scan # 0 \/ NumSwitches \in gates
       PROVE  Off'
  BY <1>1, <1>16 DEF Off
<1>17. CASE Toggle \/ Complete \/ UNCHANGED vars
  BY <1>16, <1>17 DEF Toggle, Complete, vars
<1>18. CASE RequestOn \/ RequestHit \/ RequestMiss
  BY <1>16, <1>18 DEF RequestOn, RequestHit, RequestMiss, Buffers
<1>19. ASSUME NEW b \in Buffers, HandBack(b) \/ Deliver(b) \/ Release(b) PROVE Off'
  BY <1>16, <1>19 DEF HandBack, Deliver, Release
<1> QED BY <1>2, <1>3, <1>4, <1>5, <1>6, <1>7, <1>8, <1>9, <1>11, <1>12, <1>13, <1>14, <1>15,
           <1>17, <1>18, <1>19
        DEF Next, LibraryStep, WorkerStep, RequestStep, BufferStep

-----------------------------------------------------------------------------
(* The stop of a collection that was disabled.                             *)

\* Nothing completes between such a stop's call and the end.
LEMMA NothingCompletes ==
  ASSUME TypeOK, ControlInv, Off, Kept, w.active, ~w.collecting,
         \/ w.pc = "calling" /\ call.op = "stop"
         \/ /\ ~unflushed
            /\ \/ w.pc = "calling" /\ call.op = "ok" /\ call.why = "stop"
               \/ w.pc = "gone"
  PROVE  gates = {} /\ scan = 0 /\ ~Complete /\ ~RequestStep
<1>1. gates = {}
  <2>1. CASE w.pc = "calling" /\ call.op = "stop"
    BY <2>1 DEF ControlInv, Progress, Copies, Off, TypeOK
  <2> QED BY <2>1 DEF Kept
<1>2. scan = 0
  BY <1>1 DEF Off
<1>3. ~Complete /\ ~RequestStep
  BY <1>1, <1>2, CollectorAssumption
     DEF Complete, RequestStep, RequestOn, RequestHit, RequestMiss, Buffers
<1> QED BY <1>1, <1>2, <1>3

LEMMA KeptNext ==
  /\ TypeOK /\ AccountedFor /\ Counts /\ ControlInv /\ Off /\ Kept /\ [Next]_vars
  => Kept'
<1> SUFFICES ASSUME TypeOK, AccountedFor, Counts, ControlInv, Off, Kept, [Next]_vars
             PROVE  Kept'
  OBVIOUS
\* The call and the worker stay where they are.
<1>1. ASSUME UNCHANGED <<w, call, lib, gates, unflushed>>,
             \/ UNCHANGED <<buf, owed, completed>> /\ ring'.delivered = ring.delivered
                /\ ring'.dropped = ring.dropped
             \/ Complete \/ RequestStep
      PROVE  Kept'
  BY <1>1, NothingCompletes DEF Kept, Full, Outside
<1>2. CASE Toggle \/ UNCHANGED vars
  BY <1>1, <1>2 DEF Toggle, vars
<1>3. CASE Complete
  BY <1>1, <1>3 DEF Complete
<1>4. CASE RequestStep
  BY <1>1, <1>4 DEF RequestStep, RequestOn, RequestHit, RequestMiss
<1>5. ASSUME NEW b \in Buffers, HandBack(b) PROVE Kept'
  <2>1. Outside' = Outside /\ Full' = Full
    BY <1>5 DEF HandBack, Outside, Full, TypeOK
  <2> QED BY <1>5, <2>1 DEF HandBack, Kept
<1>6. ASSUME NEW b \in Buffers, Release(b) PROVE Kept'
  <2>1. Outside' = Outside \ {b} /\ Full' = Full /\ owed' = owed \ {b}
    BY <1>6 DEF Release, Outside, Full, TypeOK
  <2> QED BY <1>6, <2>1 DEF Release, Kept
<1>7. ASSUME NEW b \in Buffers, Deliver(b) PROVE Kept'
  <2>1. Outside' = Outside /\ Full # {}
    BY <1>7 DEF Deliver, Outside, Full, TypeOK
  <2> QED BY <1>7, <2>1 DEF Deliver, Kept
<1>8. CASE LibraryStep
  <2>1. /\ w' = w /\ w.pc # "gone" /\ call.op # "none"
        /\ (w.pc = "calling" /\ call'.why = "stop" => call.why = "stop")
        /\ UNCHANGED <<buf, scan, completed>>
    <3>1. call.op \in {"start", "enable", "flush", "disable", "stop"}
      BY <1>8 DEF LibraryStep, StartMap, StartFails, SwitchOk, SwitchFails, Switched,
         FlushedFirst, StopFlushed, Switching, In
    <3>2. w.pc # "gone"
      BY <3>1 DEF ControlInv, Callers, TypeOK
    <3>3. w' = w /\ UNCHANGED <<buf, scan, completed>>
      BY <1>8, Unmoved, LibraryTypes
    <3>4. CASE StartMap \/ StartFails \/ FlushedFirst
      <4>1. call'.why = call.why \/ call'.why = "start"
        BY <3>4 DEF StartMap, StartFails, FlushedFirst, Call, TypeOK
      <4> QED BY <3>1, <3>2, <3>3, <4>1
    <3>5. CASE SwitchOk \/ SwitchFails \/ Switched
      <4>1. call'.why = call.why
        BY <3>5, SwitchOkDoes, SwitchFailsDoes, SwitchedDoes
      <4> QED BY <3>1, <3>2, <3>3, <4>1
    <3>6. CASE StopFlushed
      <4>1. call.why = "stop"
        BY <3>6, StopFlushedDoes DEF ControlInv, Progress
      <4> QED BY <3>1, <3>2, <3>3, <4>1
    <3> QED BY <1>8, <3>4, <3>5, <3>6 DEF LibraryStep
  <2>2. CASE StopFlushed
    <3>1. call.op = "stop" /\ (unflushed' <=> owed # {}) /\ UNCHANGED <<ring, gates>>
      BY <2>2, StopFlushedDoes
    <3>2. ASSUME ~unflushed', w.active, ~w.collecting, w.pc = "calling"
          PROVE  gates = {} /\ Full = {} /\ completed = ring.delivered + ring.dropped
      <4>1. Outside = {} /\ gates = {} /\ scan = 0
        BY <3>1, <3>2, NothingCompletes DEF Kept
      <4>2. Full = {} /\ lib.mapped
        BY <3>1, <4>1 DEF Full, Outside, Counts, ControlInv, Progress
      <4>3. Cardinality(Full) = 0
        BY <4>2, FS_EmptySet
      <4> QED BY <4>1, <4>2, <4>3 DEF AccountedFor, TypeOK
    <3>3. Full' = Full /\ call'.op # "stop"
      BY <2>1, <2>2, StopFlushedDoes DEF Full
    <3> QED BY <2>1, <3>1, <3>2, <3>3 DEF Kept
  <2>6. ~StopFlushed => unflushed' = unflushed
    BY <1>8 DEF LibraryStep, StartMap, StartFails, SwitchOk, SwitchFails, Switched,
       FlushedFirst
  <2>3. CASE Switched
    <3>1. /\ call.op \in {"enable", "disable"} /\ call'.op = "ok" /\ call'.why = call.why
      BY <2>3, SwitchedDoes
    <3>2. w.pc = "calling" /\ call.why = "stop" => w.collecting
      BY <3>1 DEF ControlInv, Progress, Copies
    <3> QED BY <2>1, <3>1, <3>2 DEF Kept
  <2>4. CASE SwitchFails
    <3>1. call.op \in {"enable", "disable"} /\ call'.op # "stop" /\ call'.why = call.why
      BY <2>4, SwitchFailsDoes
    <3>2. w.pc = "calling" /\ call.why = "stop" => w.collecting
      BY <3>1 DEF ControlInv, Progress, Copies
    <3> QED BY <2>1, <3>1, <3>2 DEF Kept
  <2>5. CASE StartMap \/ StartFails \/ SwitchOk \/ FlushedFirst
    <3>1. call'.op \in {"enable", "failed", "disable"}
      BY <2>5 DEF StartMap, StartFails, SwitchOk, FlushedFirst, Call, Switching, TypeOK
    <3> QED BY <2>1, <3>1 DEF Kept
  <2> QED BY <1>8, <2>2, <2>3, <2>4, <2>5 DEF LibraryStep
<1>9. CASE Leave
  <2>1. CASE w.active
    <3>1. w'.pc = "calling" /\ call'.op = "stop" /\ owed' = Outside /\ buf' = buf
      BY <1>9, <2>1 DEF Leave, Call, TypeOK
    <3> QED BY <3>1 DEF Kept, Outside
  <2>2. CASE ~w.active
    <3>1. w'.active = w.active
      BY <1>9, <2>2 DEF Leave, TypeOK
    <3> QED BY <2>2, <3>1 DEF Kept
  <2> QED BY <2>1, <2>2
<1>10. CASE Left
  <2>1. /\ w.pc = "calling" /\ call.op = "ok" /\ call.why = "stop" /\ w'.pc = "gone"
        /\ w'.active = w.active /\ w'.collecting = w.collecting
        /\ UNCHANGED <<lib, gates, unflushed, buf, completed, ring>>
    BY <1>10 DEF Left, In, TypeOK
  <2>2. ~lib.mapped /\ Full' = Full
    BY <2>1 DEF ControlInv, Progress, TypeOK, Full
  <2> QED BY <2>1, <2>2 DEF Kept
<1>11. CASE Look
  <2>1. w'.pc \in {"calling", "flush", "wait"}
    BY <1>11, LookDoes
  <2>2. w'.pc = "calling" => call'.why \in {"start", "toggle"} /\ call'.op # "stop"
    BY <1>11, LookDoes
  <2> QED BY <2>1, <2>2 DEF Kept
<1>12. CASE LookRaises \/ TakeOk \/ TakeError \/ Flush \/ Flushed \/ FlushFails \/ Wait
  <2>1. w'.pc \in {"look", "flush", "flushing", "wait", "dead"}
    BY <1>12 DEF LookRaises, TakeOk, TakeError, Flush, Flushed, FlushFails, Wait, TypeOK
  <2> QED BY <2>1 DEF Kept
<1>13. CASE StartCall \/ Started \/ StartRaises
  <2>1. w'.pc \in {"absent", "look"}
    BY <1>13 DEF StartCall, Started, StartRaises, ControlInv, Callers, TypeOK
  <2> QED BY <2>1 DEF Kept
<1>14. CASE StopCall \/ JoinReturns
  BY <1>1, <1>14 DEF StopCall, JoinReturns
<1> QED BY <1>2, <1>3, <1>4, <1>5, <1>6, <1>7, <1>8, <1>9, <1>10, <1>11, <1>12, <1>13, <1>14
        DEF Next, WorkerStep, MainStep, BufferStep

-----------------------------------------------------------------------------
LEMMA CollectorInductive == Spec => []CollectorInv
<1>1. Init => CollectorInv
  <2> SUFFICES ASSUME Init PROVE CollectorInv
    OBVIOUS
  <2>1. Gates /\ Off /\ Kept
    BY DEF Init, Gates, Settled, Off, Kept, NoCall
  <2> QED BY <2>1, PoolInit, ControlInit DEF CollectorInv, ControlInv
<1>2. CollectorInv /\ [Next]_vars => CollectorInv'
  <2> SUFFICES ASSUME CollectorInv, [Next]_vars PROVE CollectorInv'
    OBVIOUS
  <2>1. /\ ControlInv /\ Gates /\ Off /\ Kept
        /\ TypeOK /\ BufferHasOneHolder /\ AccountedFor /\ Counts
    BY DEF CollectorInv, ControlInv
  <2>2. TypeOK' /\ BufferHasOneHolder' /\ AccountedFor' /\ Counts'
    BY <2>1, TypeNext, HolderNext, CountsNext
  <2>3. ControlInv' /\ Gates' /\ Off' /\ Kept'
    BY <2>1, ControlNext, GatesNext, OffNext, KeptNext
  <2> QED BY <2>2, <2>3 DEF CollectorInv, ControlInv
<1> QED BY <1>1, <1>2, PTL DEF Spec

\* Every variable has its type, whatever the numbers of buffers, switches and faults.
THEOREM CollectorTypes == Spec => []TypeOK
BY CollectorInductive, PTL DEF CollectorInv

\* The library's busy flags agree with where the buffers are.
THEOREM OneHolder == Spec => []BufferHasOneHolder
BY CollectorInductive, PTL DEF CollectorInv

\* An activity completed while the ring is mapped is delivered, in a buffer or counted
\* as dropped, through every start, toggle and failure.
THEOREM Accounted == Spec => []AccountedFor
BY CollectorInductive, PTL DEF CollectorInv

\* The worker's two booleans agree with the library's globals between its calls.
THEOREM Mirrors == Spec => []MirrorsLibrary
BY CollectorInductive, PTL DEF CollectorInv

\* Without an error in the file its last status tells the state of all switches.
THEOREM Reported == Spec => []SwitchesAsReported
<1>1. CollectorInv => SwitchesAsReported
  BY DEF CollectorInv, Gates, Settled, SwitchesAsReported
<1> QED BY <1>1, CollectorInductive, PTL

\* A worker that stops a disabled collection leaves nothing out of the file's counts.
THEOREM KeptOnStop == Spec => []KeptAcrossStop
<1>1. CollectorInv => KeptAcrossStop
  BY DEF CollectorInv, Kept, KeptAcrossStop
<1> QED BY <1>1, CollectorInductive, PTL
=============================================================================
