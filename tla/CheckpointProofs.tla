-------------------------- MODULE CheckpointProofs --------------------------
(***************************************************************************)
(* Theorems about the checkpoint manager for every number of streams,      *)
(* slots, submitters, pollers and calls: its types, the one owner of a     *)
(* slot, an event on the device that keeps its slot and its event object,  *)
(* and a destroy that leaves nothing behind; about what it writes to the   *)
(* log: a CONFIRMED record is a fact, and each use of a slot has each      *)
(* status at most once; and about what its client and the reader of the    *)
(* log rely on: it implements the ledger and, where each stream has one    *)
(* submitting thread, the watermark is sound and a refused submit found a  *)
(* full pool.                                                              *)
(***************************************************************************)
EXTENDS CheckpointProps, FiniteSetTheorems, TLAPS

\* The frame conditions of the actions are tuples of variables.
USE DEF poolVars, setupVars, threadVars, pollVars, deviceVars, logVars, boundVars,
        submitFrame, pollFrame, controlFrame

-----------------------------------------------------------------------------
(* Facts about the constants and the arithmetic of the pool.               *)

\* The sizes are positive, so the zero records and cursors are well typed.
LEMMA Sizes ==
    /\ NumStreams \in Nat /\ NumStreams >= 1 /\ 0 \in Streams
    /\ SlotsPerStream \in Nat /\ SlotsPerStream >= 1 /\ 0 \in Indices
    /\ CursorMod \in Nat /\ CursorMod >= 1
    /\ Budget \in Nat
    /\ Total \in Nat /\ Total >= 1
<1>1. NumStreams \in Nat /\ NumStreams >= 1 /\ SlotsPerStream \in Nat /\ SlotsPerStream >= 1
  BY SizesAssumption
<1>2. NumStreams * SlotsPerStream \in Nat /\ NumStreams * SlotsPerStream >= 1
  BY <1>1, SMT
<1> QED BY <1>1, <1>2, SizesAssumption DEF Streams, Indices, Total

\* The modulus keeps the poll cursor within the pool.
LEMMA ModBound == ASSUME NEW a \in Nat, NEW m \in Nat, m >= 1
                  PROVE a % m \in 0..(m - 1)
BY SMT

-----------------------------------------------------------------------------
(* Type correctness.                                                       *)

\* The idle locals are well typed.
LEMMA IdleTypes == IdleSub \in SubRecord /\ IdlePol \in PolRecord
BY Sizes DEF IdleSub, IdlePol, SubRecord, PolRecord, SlotId

\* Updating a function at one point keeps its range.
LEMMA FunUpdate ==
  ASSUME NEW S, NEW T, NEW f \in [S -> T], NEW x, NEW v \in T
  PROVE  [f EXCEPT ![x] = v] \in [S -> T]
OBVIOUS

\* The updates the actions make to one record keep its type.
LEMMA SlotStateUpdate ==
  ASSUME NEW r \in SlotRecord, NEW st \in SlotStates
  PROVE  [r EXCEPT !.state = st] \in SlotRecord
BY DEF SlotRecord

LEMMA SlotReported ==
  ASSUME NEW r \in SlotRecord, NEW g \in Nat
  PROVE  [r EXCEPT !.nr = g] \in SlotRecord /\ [r EXCEPT !.qe = g] \in SlotRecord
BY DEF SlotRecord

LEMMA SlotReserved ==
  ASSUME NEW r \in SlotRecord, NEW k \in Nat
  PROVE  Reserved(r, k) \in SlotRecord
BY DEF SlotRecord, Reserved, SlotStates

SubPcs == {"idle", "probe", "reserved", "recorded", "logged"}
LEMMA SubPcUpdate ==
  ASSUME NEW r \in SubRecord, NEW c \in SubPcs
  PROVE  [r EXCEPT !.pc = c] \in SubRecord
BY DEF SubRecord, SubPcs

LEMMA SubReserved ==
  ASSUME NEW r \in SubRecord, NEW c \in SubPcs, NEW i \in Indices
  PROVE  [r EXCEPT !.pc = c, !.idx = i] \in SubRecord
BY DEF SubRecord, SubPcs

LEMMA SubProbed ==
  ASSUME NEW r \in SubRecord, r.n < SlotsPerStream
  PROVE  [r EXCEPT !.n = @ + 1] \in SubRecord
BY Sizes DEF SubRecord

PolPcs == {"idle", "scan", "query", "confirm", "release", "notready", "error", "requeue"}
LEMMA PolPcUpdate ==
  ASSUME NEW r \in PolRecord, NEW c \in PolPcs
  PROVE  [r EXCEPT !.pc = c] \in PolRecord
BY DEF PolRecord, PolPcs

LEMMA PolBegun ==
  ASSUME NEW r \in PolRecord, NEW c \in PolPcs, NEW c0 \in 0..(Total - 1)
  PROVE  [r EXCEPT !.pc = c, !.start = c0] \in PolRecord
BY DEF PolRecord, PolPcs

LEMMA PolSkipped ==
  ASSUME NEW r \in PolRecord
  PROVE  [r EXCEPT !.off = @ + 1] \in PolRecord
BY DEF PolRecord

LEMMA PolQuerying ==
  ASSUME NEW r \in PolRecord, NEW x \in SlotId, NEW g \in Nat
  PROVE  Querying(r, x, g) \in PolRecord
BY DEF PolRecord, Querying

\* One more record keeps the log well typed.
LEMMA LogUpdate ==
  ASSUME TypeOK, NEW kind \in Kinds, NEW s \in Streams, NEW k \in Nat, NEW g \in Nat,
         Append2Log(kind, s, k, g)
  PROVE  log' \subseteq LogRecord /\ nrec' \in Nat
BY DEF TypeOK, Append2Log, LogRecord

\* What the locals of a submitter and of a poller refer to.
LEMMA SubFields ==
  ASSUME TypeOK, NEW t \in Submitters
  PROVE  /\ sub[t] \in SubRecord /\ sub[t].tok \in Nat /\ sub[t].stream \in Streams
         /\ sub[t].idx \in Indices /\ SubSlot(t) \in SlotId
         /\ slot[SubSlot(t)] \in SlotRecord /\ slot[SubSlot(t)].gen \in Nat
BY DEF TypeOK, SubRecord, SubSlot, SlotId, SlotRecord

LEMMA PolFields ==
  ASSUME TypeOK, NEW p \in Pollers
  PROVE  /\ pol[p] \in PolRecord /\ pol[p].at \in SlotId /\ pol[p].gen \in Nat
         /\ pol[p].at[1] \in Streams /\ slot[pol[p].at] \in SlotRecord
         /\ slot[pol[p].at].tok \in Nat
BY DEF TypeOK, PolRecord, SlotId, SlotRecord

LEMMA TypeInit == Init => TypeOK
<1> SUFFICES ASSUME Init PROVE TypeOK
  OBVIOUS
<1>1. slot \in [SlotId -> SlotRecord]
  BY DEF Init, SlotRecord, SlotStates
<1>2. cursor \in [Streams -> 0..(CursorMod - 1)] /\ pollCursor \in 0..(Total - 1)
  BY Sizes DEF Init
<1>3. sub \in [Submitters -> SubRecord] /\ pol \in [Pollers -> PolRecord]
  BY IdleTypes DEF Init
<1>4. nstreams \in 0..NumStreams /\ created \in Indices
  BY Sizes DEF Init
<1> QED BY <1>1, <1>2, <1>3, <1>4 DEF Init, TypeOK

LEMMA TypeNext == TypeOK /\ [Next]_vars => TypeOK'
<1> SUFFICES ASSUME TypeOK, [Next]_vars PROVE TypeOK'
  OBVIOUS
<1> USE DEF TypeOK
<1>1. CASE CreateEvent
  BY <1>1, Sizes DEF CreateEvent, Indices
<1>2. CASE RegisterStream
  BY <1>2, Sizes DEF RegisterStream, Registering
<1>3. CASE CreateEventFails
  BY <1>3, Sizes DEF CreateEventFails, Fault
<1>4. ASSUME NEW t \in Submitters, NEW s \in Streams, SubmitCall(t, s) PROVE TypeOK'
  <2>1. cursor' \in [Streams -> 0..(CursorMod - 1)]
    BY <1>4, Sizes DEF SubmitCall
  <2>2. [pc |-> "probe", stream |-> s, tok |-> ncalls + 1, start |-> cursor[s],
         n |-> 0, idx |-> 0, open |-> FreeIndices(s)] \in SubRecord
    BY Sizes DEF SubRecord, FreeIndices
  <2>3. sub' \in [Submitters -> SubRecord]
    BY <1>4, <2>2 DEF SubmitCall
  <2> QED BY <1>4, <2>1, <2>3 DEF SubmitCall
<1>5. ASSUME NEW t \in Submitters, ProbeMiss(t) PROVE TypeOK'
  <2>1. [sub[t] EXCEPT !.n = @ + 1] \in SubRecord
    BY <1>5, SubProbed DEF ProbeMiss
  <2> QED BY <1>5, <2>1 DEF ProbeMiss
<1>6. ASSUME NEW t \in Submitters, ProbeHit(t) PROVE TypeOK'
  <2>1. PICK i \in Indices :
          /\ slot' = [slot EXCEPT ![<<sub[t].stream, i>>] =
                         Reserved(slot[<<sub[t].stream, i>>], sub[t].tok)]
          /\ sub' = [sub EXCEPT ![t].pc = "reserved", ![t].idx = i]
    BY <1>6 DEF ProbeHit
  <2>2. [sub[t] EXCEPT !.pc = "reserved", !.idx = i] \in SubRecord
    BY SubReserved DEF SubPcs
  <2>3. sub' \in [Submitters -> SubRecord]
    BY <2>1, <2>2
  <2>4. <<sub[t].stream, i>> \in SlotId
    BY SubFields DEF SlotId
  <2>5. Reserved(slot[<<sub[t].stream, i>>], sub[t].tok) \in SlotRecord
    BY <2>4, SlotReserved, SubFields
  <2>6. slot' \in [SlotId -> SlotRecord]
    BY <2>1, <2>5, FunUpdate
  <2> QED BY <1>6, <2>3, <2>6 DEF ProbeHit
<1>7. ASSUME NEW t \in Submitters, PoolFull(t) PROVE TypeOK'
  <2>1. log' \subseteq LogRecord /\ nrec' \in Nat
    BY <1>7, SubFields, LogUpdate DEF PoolFull, Kinds
  <2> QED BY <1>7, <2>1, IdleTypes DEF PoolFull
<1>8. ASSUME NEW t \in Submitters, RecordOk(t) PROVE TypeOK'
  <2>1. [sub[t] EXCEPT !.pc = "recorded"] \in SubRecord
    BY SubPcUpdate DEF SubPcs
  <2>2. device' \subseteq DeviceRecord
    BY <1>8, SubFields DEF RecordOk, DeviceRecord
  <2> QED BY <1>8, <2>1, <2>2 DEF RecordOk
<1>9. ASSUME NEW t \in Submitters, RecordFails(t) PROVE TypeOK'
  <2>1. [slot[SubSlot(t)] EXCEPT !.state = "FREE"] \in SlotRecord
    BY SlotStateUpdate, SubFields DEF SlotStates
  <2>2. faults' \in Nat
    BY <1>9 DEF RecordFails, Fault
  <2>3. slot' \in [SlotId -> SlotRecord] /\ sub' \in [Submitters -> SubRecord]
    BY <1>9, <2>1, IdleTypes DEF RecordFails
  <2> QED BY <1>9, <2>2, <2>3 DEF RecordFails
<1>10. ASSUME NEW t \in Submitters, LogSubmitted(t) PROVE TypeOK'
  <2>1. [sub[t] EXCEPT !.pc = "logged"] \in SubRecord
    BY SubPcUpdate DEF SubPcs
  <2>2. log' \subseteq LogRecord /\ nrec' \in Nat
    BY <1>10, SubFields, LogUpdate DEF LogSubmitted, Kinds
  <2> QED BY <1>10, <2>1, <2>2 DEF LogSubmitted
<1>11. ASSUME NEW t \in Submitters, Publish(t) PROVE TypeOK'
  <2>1. [slot[SubSlot(t)] EXCEPT !.state = "PENDING"] \in SlotRecord
    BY SlotStateUpdate, SubFields DEF SlotStates
  <2> QED BY <1>11, <2>1, IdleTypes DEF Publish
<1>12. ASSUME NEW p \in Pollers, PollBegin(p) PROVE TypeOK'
  <2>1. (pollCursor + Budget) % Total \in 0..(Total - 1)
    <3>1. pollCursor + Budget \in Nat
      BY Sizes
    <3> QED BY <3>1, ModBound, Sizes
  <2>2. [pol[p] EXCEPT !.pc = "scan", !.start = pollCursor] \in PolRecord
    BY PolFields, PolBegun DEF PolPcs
  <2>3. pol' \in [Pollers -> PolRecord]
    BY <1>12, <2>2 DEF PollBegin
  <2> QED BY <1>12, <2>1, <2>3 DEF PollBegin
<1>13. ASSUME NEW p \in Pollers, Skip(p) PROVE TypeOK'
  <2>1. [pol[p] EXCEPT !.off = @ + 1] \in PolRecord
    BY PolFields, PolSkipped
  <2> QED BY <1>13, <2>1 DEF Skip
<1>14. ASSUME NEW p \in Pollers, Claim(p) PROVE TypeOK'
  <2>1. PICK x \in SlotId :
          /\ slot' = [slot EXCEPT ![x].state = "QUERYING"]
          /\ pol' = [pol EXCEPT ![p] = Querying(pol[p], x, slot[x].gen)]
    BY <1>14 DEF Claim
  <2>2. slot[x].gen \in Nat
    BY DEF SlotRecord
  <2>3. Querying(pol[p], x, slot[x].gen) \in PolRecord
    BY <2>2, PolFields, PolQuerying
  <2>4. [slot[x] EXCEPT !.state = "QUERYING"] \in SlotRecord
    BY SlotStateUpdate DEF SlotStates
  <2>5. slot' \in [SlotId -> SlotRecord] /\ pol' \in [Pollers -> PolRecord]
    BY <2>1, <2>3, <2>4
  <2> QED BY <1>14, <2>5 DEF Claim
<1>15. ASSUME NEW p \in Pollers,
              QueryReady(p) \/ QueryNotReady(p) \/ QueryFails(p)
       PROVE  TypeOK'
  <2>1. \A c \in {"confirm", "notready", "error", "requeue"} :
           [pol[p] EXCEPT !.pc = c] \in PolRecord
    BY PolFields, PolPcUpdate DEF PolPcs
  <2>2. pol' \in [Pollers -> PolRecord]
    BY <1>15, <2>1 DEF QueryReady, QueryNotReady, QueryFails
  <2>3. faults' \in Nat
    BY <1>15 DEF QueryReady, QueryNotReady, QueryFails, Fault
  <2> QED BY <1>15, <2>2, <2>3 DEF QueryReady, QueryNotReady, QueryFails
<1>16. ASSUME NEW p \in Pollers, Confirm(p) PROVE TypeOK'
  <2>1. log' \subseteq LogRecord /\ nrec' \in Nat
    BY <1>16, PolFields, LogUpdate DEF Confirm, LogPolled, Kinds
  <2>2. [pol[p] EXCEPT !.pc = "release"] \in PolRecord
    BY PolFields, PolPcUpdate DEF PolPcs
  <2> QED BY <1>16, <2>1, <2>2 DEF Confirm
<1>17. ASSUME NEW p \in Pollers, NEW st \in {"FREE", "PENDING"},
              slot' = [slot EXCEPT ![pol[p].at].state = st],
              pol' = [pol EXCEPT ![p].pc = "scan"],
              UNCHANGED <<pollFrame, logVars, faults>>
       PROVE  TypeOK'
  <2>1. [slot[pol[p].at] EXCEPT !.state = st] \in SlotRecord
    BY SlotStateUpdate, PolFields DEF SlotStates
  <2>2. [pol[p] EXCEPT !.pc = "scan"] \in PolRecord
    BY PolFields, PolPcUpdate DEF PolPcs
  <2> QED BY <1>17, <2>1, <2>2
<1>18. ASSUME NEW p \in Pollers, LogNotReady(p) \/ LogQueryError(p) PROVE TypeOK'
  <2>1. log' \subseteq LogRecord /\ nrec' \in Nat
    BY <1>18, PolFields, LogUpdate DEF LogNotReady, LogQueryError, LogPolled, Kinds
  <2>2. [pol[p] EXCEPT !.pc = "requeue"] \in PolRecord
    BY PolFields, PolPcUpdate DEF PolPcs
  <2>3. /\ [slot[pol[p].at] EXCEPT !.nr = pol[p].gen] \in SlotRecord
        /\ [slot[pol[p].at] EXCEPT !.qe = pol[p].gen] \in SlotRecord
    BY SlotReported, PolFields
  <2>4. slot' \in [SlotId -> SlotRecord] /\ pol' \in [Pollers -> PolRecord]
    BY <1>18, <2>2, <2>3 DEF LogNotReady, LogQueryError
  <2> QED BY <1>18, <2>1, <2>4 DEF LogNotReady, LogQueryError
<1>19. ASSUME NEW p \in Pollers, PollEnd(p) PROVE TypeOK'
  BY <1>19, IdleTypes DEF PollEnd
<1>20. CASE PollRefused
  BY <1>20 DEF PollRefused
<1>21. CASE LoopAgain \/ LoopExit \/ StartPoller \/ StopPoller \/ Join \/ Destroy
  BY <1>21 DEF LoopAgain, LoopExit, StartPoller, StopPoller, Join, Destroy
<1>22. CASE StartPollerFails
  <2>1. faults' \in Nat
    BY <1>22 DEF StartPollerFails, Fault
  <2> QED BY <1>22, <2>1 DEF StartPollerFails
<1>23. ASSUME NEW e \in device, DeviceComplete(e) PROVE TypeOK'
  BY <1>23 DEF DeviceComplete
<1>24. CASE UNCHANGED vars
  BY <1>24 DEF vars
<1>25. ASSUME NEW p \in Pollers, Release(p) \/ Requeue(p) PROVE TypeOK'
  BY <1>17, <1>25 DEF Release, Requeue
<1> HIDE DEF TypeOK
<1>26. ASSUME NEW t \in Submitters, SubmitStep(t) PROVE TypeOK'
  BY <1>5, <1>6, <1>7, <1>8, <1>9, <1>10, <1>11, <1>26 DEF SubmitStep
<1>27. ASSUME NEW p \in Pollers, PollStep(p) PROVE TypeOK'
  BY <1>13, <1>14, <1>15, <1>16, <1>18, <1>19, <1>25, <1>27 DEF PollStep
<1> QED
  BY <1>1, <1>2, <1>3, <1>4, <1>12, <1>20, <1>21, <1>22, <1>23, <1>24, <1>26, <1>27
  DEF Next

\* TypeOK holds in every reachable state, whatever the sizes.
THEOREM TypeCorrect == Spec => []TypeOK
<1> QED BY TypeInit, TypeNext, PTL DEF Spec

-----------------------------------------------------------------------------
(* Exclusive access to the slots.                                          *)

\* A step that changes no slot's state, token or generation and moves no
\* thread into or out of ownership.
LEMMA OwnersKept ==
  ASSUME ExclusiveSlot,
         \A x \in SlotId : /\ slot'[x].state = slot[x].state
                           /\ slot'[x].tok = slot[x].tok /\ slot'[x].gen = slot[x].gen,
         \A t \in Submitters, x \in SlotId : SubmitOwns(t, x)' =>
             SubmitOwns(t, x) /\ sub'[t].tok = sub[t].tok,
         \A p \in Pollers, x \in SlotId : PollOwns(p, x)' =>
             PollOwns(p, x) /\ pol'[p].gen = pol[p].gen
  PROVE  ExclusiveSlot'
BY DEF ExclusiveSlot

LEMMA ExclusiveInit == Init => ExclusiveSlot
BY DEF Init, ExclusiveSlot, SubmitOwns, PollOwns, IdleSub, IdlePol

LEMMA ExclusiveNext == TypeOK /\ ExclusiveSlot /\ [Next]_vars => ExclusiveSlot'
<1> SUFFICES ASSUME TypeOK, ExclusiveSlot, [Next]_vars PROVE ExclusiveSlot'
  OBVIOUS
<1>1. CASE UNCHANGED <<slot, sub, pol>>
  BY <1>1, OwnersKept DEF SubmitOwns, SubSlot, PollOwns
<1>2. ASSUME NEW t \in Submitters, NEW s \in Streams,
             SubmitCall(t, s) \/ ProbeMiss(t) \/ PoolFull(t) \/ RecordOk(t) \/ LogSubmitted(t)
      PROVE  ExclusiveSlot'
  <2>1. slot' = slot /\ pol' = pol
    BY <1>2 DEF SubmitCall, ProbeMiss, PoolFull, RecordOk, LogSubmitted
  <2>2. \A u \in Submitters, x \in SlotId : SubmitOwns(u, x)' =>
             SubmitOwns(u, x) /\ sub'[u].tok = sub[u].tok
    BY <1>2 DEF TypeOK, SubRecord, SubmitCall, ProbeMiss, PoolFull, RecordOk, LogSubmitted,
                SubmitOwns, SubSlot, IdleSub
  <2>3. \A p \in Pollers, x \in SlotId : PollOwns(p, x)' =>
             PollOwns(p, x) /\ pol'[p].gen = pol[p].gen
    BY <2>1 DEF PollOwns
  <2> QED BY <2>1, <2>2, <2>3, OwnersKept
<1>3. ASSUME NEW t \in Submitters, ProbeHit(t) PROVE ExclusiveSlot'
  <2>1. PICK i \in Indices :
          /\ slot[<<sub[t].stream, i>>].state = "FREE"
          /\ slot' = [slot EXCEPT ![<<sub[t].stream, i>>] =
                         Reserved(slot[<<sub[t].stream, i>>], sub[t].tok)]
          /\ sub' = [sub EXCEPT ![t].pc = "reserved", ![t].idx = i]
    BY <1>3 DEF ProbeHit
  <2> DEFINE y == <<sub[t].stream, i>>
  <2>2. y \in SlotId /\ pol' = pol
    BY <1>3, SubFields DEF SlotId, ProbeHit
  <2>3. slot'[y].state = "RESERVED" /\ slot'[y].tok = sub[t].tok
    BY <2>1, <2>2 DEF TypeOK, Reserved
  <2>4. \A x \in SlotId : x # y => slot'[x] = slot[x]
    BY <2>1, <2>2 DEF TypeOK
  <2>5. sub'[t].tok = sub[t].tok /\ \A x : SubmitOwns(t, x)' => x = y
    BY <2>1 DEF TypeOK, SubRecord, SubmitOwns, SubSlot
  <2>6. \A u \in Submitters : u # t => sub'[u] = sub[u]
    BY <2>1 DEF TypeOK
  <2>7. \A u \in Submitters : ~SubmitOwns(u, y)
    BY <2>1, <2>2 DEF ExclusiveSlot
  <2>8. \A p \in Pollers : ~PollOwns(p, y)
    BY <2>1, <2>2 DEF ExclusiveSlot
  <2>9. \A u \in Submitters, x \in SlotId : SubmitOwns(u, x)' =>
           \/ u = t /\ x = y
           \/ u # t /\ x # y /\ SubmitOwns(u, x) /\ sub'[u].tok = sub[u].tok
    BY <2>5, <2>6, <2>7 DEF SubmitOwns, SubSlot
  <2>10. \A p \in Pollers, x \in SlotId : PollOwns(p, x)' =>
           PollOwns(p, x) /\ x # y /\ pol'[p].gen = pol[p].gen
    BY <2>2, <2>8 DEF PollOwns
  <2> QED BY <2>2, <2>3, <2>4, <2>5, <2>9, <2>10 DEF ExclusiveSlot
<1>4. ASSUME NEW t \in Submitters, RecordFails(t) \/ Publish(t) PROVE ExclusiveSlot'
  <2> DEFINE y == SubSlot(t)
  <2>1. SubmitOwns(t, y) /\ y \in SlotId /\ pol' = pol
    BY <1>4, SubFields DEF RecordFails, Publish, SubmitOwns
  <2>2. \A x \in SlotId : x # y => slot'[x] = slot[x]
    BY <1>4, <2>1 DEF TypeOK, RecordFails, Publish
  <2>3. sub' = [sub EXCEPT ![t] = IdleSub]
    BY <1>4 DEF RecordFails, Publish
  <2>4. \A u \in Submitters, x \in SlotId : SubmitOwns(u, x)' =>
           u # t /\ SubmitOwns(u, x) /\ sub'[u] = sub[u]
    BY <2>3 DEF TypeOK, IdleSub, SubmitOwns, SubSlot
  <2>5. \A u \in Submitters, x \in SlotId : SubmitOwns(u, x)' => x # y
    BY <2>1, <2>4 DEF ExclusiveSlot
  <2>6. \A p \in Pollers : ~PollOwns(p, y)
    BY <2>1 DEF ExclusiveSlot
  <2>7. \A p \in Pollers, x \in SlotId : PollOwns(p, x)' => PollOwns(p, x) /\ x # y
    BY <2>1, <2>6 DEF PollOwns
  <2> QED BY <2>1, <2>2, <2>4, <2>5, <2>7 DEF ExclusiveSlot
<1>5. ASSUME NEW p \in Pollers,
             \/ PollBegin(p) \/ Skip(p) \/ PollEnd(p) \/ Confirm(p)
             \/ QueryReady(p) \/ QueryNotReady(p) \/ QueryFails(p)
      PROVE  ExclusiveSlot'
  <2>1. slot' = slot /\ sub' = sub
    BY <1>5 DEF PollBegin, Skip, PollEnd, Confirm, QueryReady, QueryNotReady, QueryFails
  <2>2. \A q \in Pollers, x \in SlotId : PollOwns(q, x)' =>
             PollOwns(q, x) /\ pol'[q].gen = pol[q].gen
    BY <1>5 DEF TypeOK, PolRecord, PollBegin, Skip, PollEnd, Confirm, QueryReady,
                QueryNotReady, QueryFails, PollOwns, IdlePol
  <2>3. \A u \in Submitters, x \in SlotId : SubmitOwns(u, x)' =>
             SubmitOwns(u, x) /\ sub'[u].tok = sub[u].tok
    BY <2>1 DEF SubmitOwns, SubSlot
  <2> QED BY <2>1, <2>2, <2>3, OwnersKept
<1>6. ASSUME NEW p \in Pollers, Claim(p) PROVE ExclusiveSlot'
  <2>1. PICK y \in SlotId :
          /\ slot[y].state = "PENDING"
          /\ slot' = [slot EXCEPT ![y].state = "QUERYING"]
          /\ pol' = [pol EXCEPT ![p] = Querying(pol[p], y, slot[y].gen)]
    BY <1>6 DEF Claim
  <2>2. sub' = sub /\ slot'[y].state = "QUERYING" /\ slot'[y].gen = slot[y].gen
    BY <1>6, <2>1 DEF Claim, TypeOK, SlotRecord
  <2>3. \A x \in SlotId : x # y => slot'[x] = slot[x]
    BY <2>1 DEF TypeOK
  <2>4. /\ \A u \in Submitters : ~SubmitOwns(u, y)
        /\ \A q \in Pollers : ~PollOwns(q, y)
    BY <2>1 DEF ExclusiveSlot
  <2>5. pol'[p].gen = slot[y].gen /\ \A x : PollOwns(p, x)' => x = y
    BY <2>1 DEF TypeOK, Querying, PollOwns
  <2>6. \A q \in Pollers, x \in SlotId : PollOwns(q, x)' =>
           \/ q = p /\ x = y
           \/ q # p /\ x # y /\ PollOwns(q, x) /\ pol'[q] = pol[q]
    BY <2>1, <2>4, <2>5 DEF TypeOK, PollOwns
  <2>7. \A u \in Submitters, x \in SlotId : SubmitOwns(u, x)' =>
           SubmitOwns(u, x) /\ x # y /\ sub'[u].tok = sub[u].tok
    BY <2>2, <2>4 DEF SubmitOwns, SubSlot
  <2> QED BY <2>2, <2>3, <2>5, <2>6, <2>7 DEF ExclusiveSlot
<1>7. ASSUME NEW p \in Pollers, Release(p) \/ Requeue(p) PROVE ExclusiveSlot'
  <2> DEFINE y == pol[p].at
  <2>1. PollOwns(p, y) /\ y \in SlotId /\ sub' = sub
    BY <1>7, PolFields DEF Release, Requeue, PollOwns
  <2>2. \A x \in SlotId : x # y => slot'[x] = slot[x]
    BY <1>7, <2>1 DEF TypeOK, Release, Requeue
  <2>3. pol' = [pol EXCEPT ![p].pc = "scan"]
    BY <1>7 DEF Release, Requeue
  <2>4. \A q \in Pollers, x \in SlotId : PollOwns(q, x)' =>
           q # p /\ PollOwns(q, x) /\ pol'[q] = pol[q]
    BY <2>3 DEF TypeOK, PolRecord, PollOwns
  <2>5. \A q \in Pollers, x \in SlotId : PollOwns(q, x)' => x # y
    BY <2>1, <2>4 DEF ExclusiveSlot
  <2>6. \A u \in Submitters, x \in SlotId : SubmitOwns(u, x)' => SubmitOwns(u, x) /\ x # y
    BY <2>1 DEF SubmitOwns, SubSlot, ExclusiveSlot
  <2> QED BY <2>1, <2>2, <2>4, <2>5, <2>6 DEF ExclusiveSlot
<1>8. ASSUME NEW p \in Pollers, LogNotReady(p) \/ LogQueryError(p) PROVE ExclusiveSlot'
  <2>1. \A x \in SlotId : /\ slot'[x].state = slot[x].state
                          /\ slot'[x].tok = slot[x].tok /\ slot'[x].gen = slot[x].gen
    BY <1>8, PolFields DEF TypeOK, SlotRecord, LogNotReady, LogQueryError
  <2>2. \A q \in Pollers, x \in SlotId : PollOwns(q, x)' =>
             PollOwns(q, x) /\ pol'[q].gen = pol[q].gen
    BY <1>8 DEF TypeOK, PolRecord, LogNotReady, LogQueryError, PollOwns
  <2>3. \A u \in Submitters, x \in SlotId : SubmitOwns(u, x)' =>
             SubmitOwns(u, x) /\ sub'[u].tok = sub[u].tok
    BY <1>8 DEF LogNotReady, LogQueryError, SubmitOwns, SubSlot
  <2> QED BY <2>1, <2>2, <2>3, OwnersKept
<1>9. ASSUME \/ CreateEvent \/ RegisterStream \/ CreateEventFails \/ PollRefused
             \/ LoopAgain \/ LoopExit \/ StartPoller \/ StartPollerFails \/ StopPoller
             \/ Join \/ Destroy \/ (\E e \in device : DeviceComplete(e)) \/ UNCHANGED vars
      PROVE  UNCHANGED <<slot, sub, pol>>
  BY <1>9 DEF CreateEvent, RegisterStream, CreateEventFails, PollRefused, LoopAgain,
       LoopExit, StartPoller, StartPollerFails, StopPoller, Join, Destroy,
       DeviceComplete, vars
<1>10. ASSUME NEW t \in Submitters, SubmitStep(t) PROVE ExclusiveSlot'
  <2>1. 0 \in Streams
    BY Sizes
  <2> QED BY <1>2, <1>3, <1>4, <1>10, <2>1 DEF SubmitStep
<1>11. ASSUME NEW p \in Pollers, PollStep(p) PROVE ExclusiveSlot'
  BY <1>5, <1>6, <1>7, <1>8, <1>11 DEF PollStep
<1> QED
  BY <1>1, <1>2, <1>5, <1>9, <1>10, <1>11 DEF Next

\* At any time a slot's fields belong to one thread at most.
THEOREM Exclusive == Spec => []ExclusiveSlot
<1>1. Init => TypeOK /\ ExclusiveSlot
  BY TypeInit, ExclusiveInit
<1>2. TypeOK /\ ExclusiveSlot /\ [Next]_vars => (TypeOK /\ ExclusiveSlot)'
  BY TypeNext, ExclusiveNext
<1> QED BY <1>1, <1>2, PTL DEF Spec

-----------------------------------------------------------------------------
(* Who polls, and where the background thread is.                          *)

\* The flag is set exactly while one poller is inside poll.
OnePoller ==
    /\ polling <=> \E p \in Pollers : pol[p].pc # "idle"
    /\ \A p, q \in Pollers : pol[p].pc # "idle" /\ pol[q].pc # "idle" => p = q

\* The background thread polls only from its loop; it runs from start to exit;
\* once it is told to stop, or has, the control thread is about to join it.
ThreadInv ==
    /\ pol[Poller].pc # "idle" => thread = "go"
    /\ thread \in {"check", "go"} => running
    /\ thread = "exited" => ctl = "join"
    /\ thread # "absent" /\ stop => ctl = "join"
    /\ ~alive => thread = "absent"

-----------------------------------------------------------------------------
(* Where the events are.                                                   *)

\* Before all streams are registered and after destroy nothing is under way.
QuietUnlessReady ==
    ~Ready => /\ \A x \in SlotId : slot[x].state = "FREE"
              /\ \A t \in Submitters : sub[t].pc = "idle"
              /\ \A p \in Pollers : pol[p].pc = "idle"
              /\ device = {}

\* The event objects are those of the registered streams, until destroy.
EventObjects == events = IF alive THEN Registered ELSE {}

Home(e) == <<e.stream, e.idx>>

\* A pending event's slot is in use, by the checkpoint that recorded it; the
\* submitter that holds it has recorded it, and a poller that holds it has not
\* seen it complete.
PendingEvents ==
    \A e \in device :
       /\ slot[Home(e)].state # "FREE" /\ slot[Home(e)].tok = e.tok
       /\ \A f \in device : Home(f) = Home(e) => f = e
       /\ \A t \in Submitters : sub[t].pc = "reserved" => SubSlot(t) # Home(e)
       /\ \A p \in Pollers : pol[p].pc \in {"confirm", "release"} => pol[p].at # Home(e)

ManagerInv == OnePoller /\ ThreadInv /\ QuietUnlessReady /\ EventObjects /\ PendingEvents

-----------------------------------------------------------------------------
(* The two locks: the polling flag and the background thread.              *)

LEMMA LocksInit == Init => OnePoller /\ ThreadInv
BY DEF Init, OnePoller, ThreadInv, IdlePol, Pollers

\* The steps in the middle of a poll keep its thread inside and change no flag.
LEMMA MiddleOfPoll ==
  ASSUME TypeOK, NEW p \in Pollers, PollStep(p), ~PollEnd(p)
  PROVE  /\ pol[p].pc # "idle" /\ pol'[p].pc # "idle"
         /\ \A q \in Pollers : q # p => pol'[q] = pol[q]
         /\ UNCHANGED <<polling, threadVars, setupVars, sub, device>>
<1>1. CASE Skip(p) \/ Claim(p)
  BY <1>1 DEF TypeOK, PolRecord, Skip, Claim, Scanning, Querying
<1>2. CASE QueryReady(p) \/ QueryNotReady(p) \/ QueryFails(p)
  BY <1>2 DEF TypeOK, PolRecord, QueryReady, QueryNotReady, QueryFails
<1>3. CASE Confirm(p) \/ Release(p) \/ Requeue(p)
  BY <1>3 DEF TypeOK, PolRecord, Confirm, Release, Requeue
<1>4. CASE LogNotReady(p) \/ LogQueryError(p)
  BY <1>4 DEF TypeOK, PolRecord, LogNotReady, LogQueryError
<1> QED BY <1>1, <1>2, <1>3, <1>4 DEF PollStep

\* The steps that concern neither lock.
LEMMA NotLocked ==
  ASSUME \/ CreateEvent \/ RegisterStream \/ CreateEventFails
         \/ (\E t \in Submitters : SubmitStep(t) \/ \E s \in Streams : SubmitCall(t, s))
         \/ (\E e \in device : DeviceComplete(e)) \/ UNCHANGED vars
  PROVE  UNCHANGED <<polling, pol, threadVars, alive>>
BY DEF CreateEvent, RegisterStream, CreateEventFails, SubmitStep, SubmitCall, ProbeMiss,
       ProbeHit, PoolFull, RecordOk, RecordFails, LogSubmitted, Publish, DeviceComplete, vars

LEMMA LocksNext ==
  TypeOK /\ OnePoller /\ ThreadInv /\ [Next]_vars => OnePoller' /\ ThreadInv'
<1> SUFFICES ASSUME TypeOK, OnePoller, ThreadInv, [Next]_vars
             PROVE  OnePoller' /\ ThreadInv'
  OBVIOUS
<1>1. CASE UNCHANGED <<polling, pol, threadVars, alive>>
  BY <1>1 DEF OnePoller, ThreadInv
<1>2. ASSUME NEW p \in Pollers, PollBegin(p) PROVE OnePoller' /\ ThreadInv'
  <2>1. /\ pol'[p].pc = "scan" /\ polling'
        /\ \A q \in Pollers : q # p => pol'[q] = pol[q] /\ pol[q].pc = "idle"
        /\ p = Poller => thread = "go"
        /\ UNCHANGED <<threadVars, alive>>
    BY <1>2 DEF TypeOK, PolRecord, PollBegin, OnePoller
  <2> QED BY <2>1 DEF OnePoller, ThreadInv, Pollers
<1>3. ASSUME NEW p \in Pollers, PollStep(p), ~PollEnd(p) PROVE OnePoller' /\ ThreadInv'
  BY <1>3, MiddleOfPoll DEF OnePoller, ThreadInv, Pollers
<1>4. ASSUME NEW p \in Pollers, PollEnd(p) PROVE OnePoller' /\ ThreadInv'
  <2>1. pol[p].pc # "idle" /\ pol'[p].pc = "idle" /\ polling' = FALSE
    BY <1>4 DEF TypeOK, PollEnd, IdlePol
  <2>2. \A q \in Pollers : pol'[q].pc = "idle"
    BY <1>4, <2>1 DEF TypeOK, PollEnd, OnePoller
  <2>3. thread' = IF p = Poller THEN "check" ELSE thread
    BY <1>4 DEF PollEnd
  <2>4. p = Poller => thread = "go"
    BY <2>1 DEF ThreadInv
  <2>5. UNCHANGED <<running, stop, ctl, alive>>
    BY <1>4 DEF PollEnd
  <2> QED BY <2>2, <2>1, <2>3, <2>4, <2>5 DEF OnePoller, ThreadInv, Pollers
<1>5. CASE PollRefused \/ LoopAgain \/ LoopExit
  BY <1>5 DEF PollRefused, LoopAgain, LoopExit, OnePoller, ThreadInv
<1>6. CASE StartPoller \/ StartPollerFails \/ StopPoller \/ Join \/ Destroy
  BY <1>6 DEF StartPoller, StartPollerFails, StopPoller, Join, Destroy, Ready, TypeOK,
              OnePoller, ThreadInv
<1> QED BY <1>1, <1>2, <1>3, <1>4, <1>5, <1>6, NotLocked DEF Next

-----------------------------------------------------------------------------
(* Events and slots.                                                       *)

LEMMA HomeType == TypeOK => \A e \in device : Home(e) \in SlotId
BY DEF TypeOK, DeviceRecord, Home, SlotId

LEMMA EventsInit == Init => QuietUnlessReady /\ EventObjects /\ PendingEvents
<1> SUFFICES ASSUME Init PROVE QuietUnlessReady /\ EventObjects /\ PendingEvents
  OBVIOUS
<1>1. QuietUnlessReady /\ PendingEvents
  BY DEF Init, QuietUnlessReady, PendingEvents, IdleSub, IdlePol
<1>2. \A x \in SlotId : x[1] \in Nat
  BY Sizes DEF SlotId, Streams
<1>3. Registered = {}
  BY <1>2 DEF Init, Registered
<1> QED BY <1>1, <1>3 DEF Init, EventObjects

\* While a thread is inside submit or poll, or a slot is not free, the manager
\* is ready.
LEMMA ReadyInside ==
  ASSUME TypeOK, QuietUnlessReady,
         \/ \E t \in Submitters : SubmitStep(t)
         \/ \E t \in Submitters, s \in Streams : SubmitCall(t, s)
         \/ \E p \in Pollers : PollBegin(p) \/ PollStep(p)
         \/ \E e \in device : DeviceComplete(e)
  PROVE  Ready /\ UNCHANGED <<nstreams, alive, events>>
<1>1. ASSUME NEW t \in Submitters, SubmitStep(t)
      PROVE  sub[t].pc # "idle" /\ UNCHANGED setupVars
  BY <1>1 DEF SubmitStep, ProbeMiss, ProbeHit, PoolFull, RecordOk, RecordFails,
              LogSubmitted, Publish
<1>2. ASSUME NEW p \in Pollers, PollStep(p)
      PROVE  pol[p].pc # "idle" /\ UNCHANGED setupVars
  <2>1. CASE PollEnd(p)
    BY <2>1 DEF PollEnd
  <2> QED BY <1>2, <2>1, MiddleOfPoll
<1>3. ASSUME NEW t \in Submitters, NEW s \in Streams, SubmitCall(t, s)
      PROVE  Ready /\ UNCHANGED setupVars
  BY <1>3 DEF SubmitCall
<1>4. ASSUME NEW p \in Pollers, PollBegin(p) PROVE Ready /\ UNCHANGED setupVars
  BY <1>4 DEF PollBegin
<1>5. ASSUME NEW e \in device, DeviceComplete(e) PROVE UNCHANGED setupVars
  BY <1>5 DEF DeviceComplete
<1> QED BY <1>1, <1>2, <1>3, <1>4, <1>5 DEF QuietUnlessReady

LEMMA QuietNext ==
  /\ TypeOK /\ ThreadInv /\ QuietUnlessReady /\ EventObjects /\ PendingEvents
  /\ [Next]_vars
  => QuietUnlessReady' /\ EventObjects'
<1> SUFFICES ASSUME TypeOK, ThreadInv, QuietUnlessReady, EventObjects, PendingEvents,
                    [Next]_vars
             PROVE  QuietUnlessReady' /\ EventObjects'
  OBVIOUS
<1>1. CASE Ready /\ UNCHANGED <<nstreams, alive, events>>
  BY <1>1 DEF Ready, QuietUnlessReady, EventObjects, Registered
<1>2. CASE /\ UNCHANGED <<slot, sub, pol, device>>
           /\ UNCHANGED <<nstreams, alive, events>>
  BY <1>2 DEF Ready, QuietUnlessReady, EventObjects, Registered
<1>3. CASE RegisterStream
  <2>1. QuietUnlessReady'
    BY <1>3, Sizes DEF RegisterStream, Registering, Ready, QuietUnlessReady, TypeOK
  <2>2. Registered' = Registered \cup {x \in SlotId : x[1] = nstreams}
    BY <1>3 DEF RegisterStream, Registered, TypeOK, SlotId, Streams
  <2>3. alive /\ alive' /\ events' = events \cup {x \in SlotId : x[1] = nstreams}
    BY <1>3 DEF RegisterStream, Registering
  <2> QED BY <2>1, <2>2, <2>3 DEF EventObjects
<1>4. CASE Destroy
  <2>1. \A p \in Pollers : pol[p].pc = "idle"
    BY <1>4 DEF Destroy, ThreadInv, Pollers
  <2>2. \A x \in SlotId : slot[x].state = "FREE"
    <3>1. \A x \in SlotId : x[1] < NumStreams
      BY Sizes DEF SlotId, Streams
    <3>2. CASE Ready
      BY <1>4, <3>1, <3>2 DEF Destroy, Ready, Registered
    <3> QED BY <3>2 DEF QuietUnlessReady
  <2>3. device = {}
    BY <2>2, HomeType DEF PendingEvents
  <2> QED BY <1>4, <2>1, <2>2, <2>3 DEF Destroy, QuietUnlessReady, EventObjects
<1>5. ASSUME \/ CreateEvent \/ CreateEventFails \/ PollRefused \/ LoopAgain \/ LoopExit
             \/ StartPoller \/ StartPollerFails \/ StopPoller \/ Join \/ UNCHANGED vars
      PROVE  UNCHANGED <<slot, sub, pol, device, nstreams, alive, events>>
  BY <1>5 DEF CreateEvent, CreateEventFails, PollRefused, LoopAgain, LoopExit,
              StartPoller, StartPollerFails, StopPoller, Join, vars
<1> QED BY <1>1, <1>2, <1>3, <1>4, <1>5, ReadyInside DEF Next

\* A step that only takes events from the device and changes no slot's token,
\* frees no slot in use, and brings no thread to a point where it must not
\* hold a pending event's slot.
LEMMA EventsKept ==
  ASSUME TypeOK, PendingEvents, device' \subseteq device,
         \A x \in SlotId : /\ slot[x].state # "FREE" => slot'[x].state # "FREE"
                           /\ slot'[x].tok = slot[x].tok,
         \A t \in Submitters : sub'[t].pc = "reserved" =>
             sub[t].pc = "reserved" /\ sub'[t].stream = sub[t].stream /\ sub'[t].idx = sub[t].idx,
         \A p \in Pollers : pol'[p].pc \in {"confirm", "release"} =>
             pol[p].pc \in {"confirm", "release"} /\ pol'[p].at = pol[p].at
  PROVE  PendingEvents'
<1> SUFFICES ASSUME NEW e \in device'
             PROVE  /\ slot'[Home(e)].state # "FREE" /\ slot'[Home(e)].tok = e.tok
                    /\ \A f \in device' : Home(f) = Home(e) => f = e
                    /\ \A t \in Submitters : sub'[t].pc = "reserved" => SubSlot(t)' # Home(e)
                    /\ \A p \in Pollers : pol'[p].pc \in {"confirm", "release"} =>
                          pol'[p].at # Home(e)
  BY DEF PendingEvents, Home
<1>1. e \in device /\ Home(e) \in SlotId
  BY HomeType
<1>2. \A t \in Submitters : sub'[t].pc = "reserved" =>
         sub[t].pc = "reserved" /\ SubSlot(t)' = SubSlot(t)
  BY DEF SubSlot
<1> QED BY <1>1, <1>2 DEF PendingEvents

\* A slot that no pending event has may change in any way.
LEMMA EventsElsewhere ==
  ASSUME TypeOK, PendingEvents, NEW y \in SlotId, device' = device,
         \A e \in device : Home(e) # y,
         \A x \in SlotId : x # y => slot'[x] = slot[x],
         \A t \in Submitters : sub'[t].pc = "reserved" =>
             \/ sub[t].pc = "reserved" /\ SubSlot(t)' = SubSlot(t)
             \/ SubSlot(t)' = y,
         \A p \in Pollers : pol'[p].pc \in {"confirm", "release"} =>
             pol[p].pc \in {"confirm", "release"} /\ pol'[p].at = pol[p].at
  PROVE  PendingEvents'
<1> SUFFICES ASSUME NEW e \in device
             PROVE  /\ slot'[Home(e)].state # "FREE" /\ slot'[Home(e)].tok = e.tok
                    /\ \A f \in device : Home(f) = Home(e) => f = e
                    /\ \A t \in Submitters : sub'[t].pc = "reserved" => SubSlot(t)' # Home(e)
                    /\ \A p \in Pollers : pol'[p].pc \in {"confirm", "release"} =>
                          pol'[p].at # Home(e)
  BY DEF PendingEvents, Home
<1>1. Home(e) \in SlotId /\ Home(e) # y
  BY HomeType
<1> QED BY <1>1 DEF PendingEvents

LEMMA PendingNext ==
  TypeOK /\ ExclusiveSlot /\ PendingEvents /\ [Next]_vars => PendingEvents'
<1> SUFFICES ASSUME TypeOK, ExclusiveSlot, PendingEvents, [Next]_vars
             PROVE  PendingEvents'
  OBVIOUS
<1>1. CASE UNCHANGED <<slot, sub, pol>> /\ device' \subseteq device
  BY <1>1, EventsKept
<1>2. ASSUME NEW t \in Submitters, NEW s \in Streams,
             SubmitCall(t, s) \/ ProbeMiss(t) \/ PoolFull(t) \/ LogSubmitted(t)
      PROVE  PendingEvents'
  <2>1. UNCHANGED <<slot, pol, device>>
    BY <1>2 DEF SubmitCall, ProbeMiss, PoolFull, LogSubmitted
  <2>2. \A u \in Submitters : sub'[u].pc = "reserved" => sub'[u] = sub[u]
    BY <1>2 DEF TypeOK, SubRecord, SubmitCall, ProbeMiss, PoolFull, LogSubmitted, IdleSub
  <2> QED BY <2>1, <2>2, EventsKept
<1>3. ASSUME NEW t \in Submitters, ProbeHit(t) PROVE PendingEvents'
  <2>1. PICK i \in Indices :
          /\ slot[<<sub[t].stream, i>>].state = "FREE"
          /\ slot' = [slot EXCEPT ![<<sub[t].stream, i>>] =
                         Reserved(slot[<<sub[t].stream, i>>], sub[t].tok)]
          /\ sub' = [sub EXCEPT ![t].pc = "reserved", ![t].idx = i]
    BY <1>3 DEF ProbeHit
  <2> DEFINE y == <<sub[t].stream, i>>
  <2>2. y \in SlotId /\ UNCHANGED <<pol, device>>
    BY <1>3, SubFields DEF SlotId, ProbeHit
  <2>3. \A e \in device : Home(e) # y
    BY <2>1 DEF PendingEvents
  <2>4. \A x \in SlotId : x # y => slot'[x] = slot[x]
    BY <2>1, <2>2 DEF TypeOK
  <2>5. SubSlot(t)' = y /\ \A u \in Submitters : u # t => sub'[u] = sub[u]
    BY <2>1 DEF TypeOK, SubRecord, SubSlot
  <2>6. \A u \in Submitters : sub'[u].pc = "reserved" =>
           \/ sub[u].pc = "reserved" /\ SubSlot(u)' = SubSlot(u)
           \/ SubSlot(u)' = y
    BY <2>5 DEF SubSlot
  <2> HIDE DEF y
  <2> QED BY <2>2, <2>3, <2>4, <2>6, EventsElsewhere
<1>4. ASSUME NEW t \in Submitters, RecordOk(t) PROVE PendingEvents'
  <2> DEFINE new == [stream |-> sub[t].stream, idx |-> sub[t].idx,
                     tok |-> sub[t].tok, pos |-> npos + 1]
             y == SubSlot(t)
  <2>1. /\ sub[t].pc = "reserved" /\ sub' = [sub EXCEPT ![t].pc = "recorded"]
        /\ device' = device \cup {new} /\ UNCHANGED <<slot, pol>>
    BY <1>4 DEF RecordOk
  <2>2. Home(new) = y /\ new.tok = sub[t].tok /\ y \in SlotId
    BY SubFields DEF Home, SubSlot
  <2>3. SubmitOwns(t, y)
    BY <2>1 DEF SubmitOwns
  <2>4. slot[y].state = "RESERVED" /\ slot[y].tok = sub[t].tok
    BY <2>2, <2>3 DEF ExclusiveSlot
  <2>5. \A f \in device : Home(f) # y
    BY <2>1 DEF PendingEvents
  <2>6. \A u \in Submitters : sub'[u].pc = "reserved" => u # t /\ sub'[u] = sub[u]
    BY <2>1 DEF TypeOK, SubRecord
  <2>7. \A u \in Submitters : sub'[u].pc = "reserved" =>
           SubSlot(u)' = SubSlot(u) /\ sub[u].pc = "reserved" /\ SubSlot(u) # y
    BY <2>2, <2>3, <2>6 DEF ExclusiveSlot, SubmitOwns, SubSlot
  <2>8. \A p \in Pollers : pol[p].pc \in {"confirm", "release"} => pol[p].at # y
    BY <2>2, <2>4 DEF ExclusiveSlot, PollOwns
  <2> HIDE DEF new, y
  <2> QED BY <2>1, <2>2, <2>4, <2>5, <2>7, <2>8 DEF PendingEvents
<1>5. ASSUME NEW t \in Submitters, RecordFails(t) PROVE PendingEvents'
  <2>1. /\ sub[t].pc = "reserved" /\ SubSlot(t) \in SlotId
        /\ slot' = [slot EXCEPT ![SubSlot(t)].state = "FREE"]
        /\ sub' = [sub EXCEPT ![t] = IdleSub] /\ UNCHANGED <<pol, device>>
    BY <1>5, SubFields DEF RecordFails
  <2>2. \A e \in device : Home(e) # SubSlot(t)
    BY <2>1 DEF PendingEvents
  <2>3. \A x \in SlotId : x # SubSlot(t) => slot'[x] = slot[x]
    BY <2>1 DEF TypeOK
  <2>4. \A u \in Submitters : sub'[u].pc = "reserved" =>
           sub[u].pc = "reserved" /\ SubSlot(u)' = SubSlot(u)
    BY <2>1 DEF TypeOK, IdleSub, SubSlot
  <2> QED BY <2>1, <2>2, <2>3, <2>4, EventsElsewhere
<1>6. ASSUME NEW t \in Submitters, Publish(t) PROVE PendingEvents'
  <2>1. /\ SubSlot(t) \in SlotId /\ UNCHANGED <<pol, device>>
        /\ slot' = [slot EXCEPT ![SubSlot(t)].state = "PENDING"]
        /\ sub' = [sub EXCEPT ![t] = IdleSub]
    BY <1>6, SubFields DEF Publish
  <2>2. \A x \in SlotId : /\ slot[x].state # "FREE" => slot'[x].state # "FREE"
                          /\ slot'[x].tok = slot[x].tok
    BY <2>1 DEF TypeOK, SlotRecord
  <2>3. \A u \in Submitters : sub'[u].pc = "reserved" => sub'[u] = sub[u]
    BY <2>1 DEF TypeOK, IdleSub
  <2> QED BY <2>1, <2>2, <2>3, EventsKept
<1>7. ASSUME NEW p \in Pollers,
             \/ PollBegin(p) \/ Skip(p) \/ PollEnd(p) \/ Confirm(p)
             \/ QueryNotReady(p) \/ QueryFails(p)
      PROVE  PendingEvents'
  <2>1. UNCHANGED <<slot, sub, device>>
    BY <1>7 DEF PollBegin, Skip, PollEnd, Confirm, QueryNotReady, QueryFails
  <2>2. \A q \in Pollers : pol'[q].pc \in {"confirm", "release"} =>
           pol[q].pc \in {"confirm", "release"} /\ pol'[q].at = pol[q].at
    BY <1>7 DEF TypeOK, PolRecord, PollBegin, Skip, PollEnd, Confirm, QueryNotReady,
                QueryFails, IdlePol
  <2> QED BY <2>1, <2>2, EventsKept
<1>8. ASSUME NEW p \in Pollers, QueryReady(p) PROVE PendingEvents'
  <2>1. /\ UNCHANGED <<slot, sub, device>> /\ ~OnDevice(pol[p].at)
        /\ pol' = [pol EXCEPT ![p].pc = "confirm"]
    BY <1>8 DEF QueryReady
  <2>2. \A e \in device : Home(e) # pol[p].at
    BY <2>1 DEF OnDevice, Home
  <2>3. \A q \in Pollers : pol'[q].at = pol[q].at /\ (q # p => pol'[q] = pol[q])
    BY <2>1 DEF TypeOK, PolRecord
  <2> QED BY <2>1, <2>2, <2>3 DEF PendingEvents, SubSlot
<1>9. ASSUME NEW p \in Pollers, Claim(p) \/ Requeue(p) \/ LogNotReady(p) \/ LogQueryError(p)
      PROVE  PendingEvents'
  <2>1. UNCHANGED <<sub, device>>
    BY <1>9 DEF Claim, Requeue, LogNotReady, LogQueryError
  <2>2. \A x \in SlotId : /\ slot[x].state # "FREE" => slot'[x].state # "FREE"
                          /\ slot'[x].tok = slot[x].tok
    BY <1>9 DEF TypeOK, SlotRecord, Claim, Requeue, LogNotReady, LogQueryError
  <2>3. \A q \in Pollers : pol'[q].pc \in {"confirm", "release"} => pol'[q] = pol[q]
    BY <1>9 DEF TypeOK, PolRecord, Claim, Querying, Requeue, LogNotReady, LogQueryError
  <2> QED BY <2>1, <2>2, <2>3, EventsKept
<1>10. ASSUME NEW p \in Pollers, Release(p) PROVE PendingEvents'
  <2>1. /\ pol[p].pc = "release" /\ pol[p].at \in SlotId /\ UNCHANGED <<sub, device>>
        /\ slot' = [slot EXCEPT ![pol[p].at].state = "FREE"]
        /\ pol' = [pol EXCEPT ![p].pc = "scan"]
    BY <1>10, PolFields DEF Release
  <2>2. \A e \in device : Home(e) # pol[p].at
    BY <2>1 DEF PendingEvents
  <2>3. \A x \in SlotId : x # pol[p].at => slot'[x] = slot[x]
    BY <2>1 DEF TypeOK
  <2>4. \A q \in Pollers : pol'[q].pc \in {"confirm", "release"} => pol'[q] = pol[q]
    BY <2>1 DEF TypeOK, PolRecord
  <2>5. \A u \in Submitters : SubSlot(u)' = SubSlot(u)
    BY <2>1 DEF SubSlot
  <2> QED BY <2>1, <2>2, <2>3, <2>4, <2>5, EventsElsewhere
<1>11. ASSUME \/ CreateEvent \/ RegisterStream \/ CreateEventFails \/ PollRefused
              \/ LoopAgain \/ LoopExit \/ StartPoller \/ StartPollerFails \/ StopPoller
              \/ Join \/ Destroy \/ (\E e \in device : DeviceComplete(e)) \/ UNCHANGED vars
       PROVE  UNCHANGED <<slot, sub, pol>> /\ device' \subseteq device
  BY <1>11 DEF CreateEvent, RegisterStream, CreateEventFails, PollRefused, LoopAgain,
       LoopExit, StartPoller, StartPollerFails, StopPoller, Join, Destroy,
       DeviceComplete, vars
<1>12. ASSUME NEW t \in Submitters, SubmitStep(t) PROVE PendingEvents'
  BY <1>2, <1>3, <1>4, <1>5, <1>6, <1>12, Sizes DEF SubmitStep
<1>13. ASSUME NEW p \in Pollers, PollStep(p) PROVE PendingEvents'
  BY <1>7, <1>8, <1>9, <1>10, <1>13 DEF PollStep
<1> QED
  BY <1>1, <1>2, <1>7, <1>11, <1>12, <1>13 DEF Next

-----------------------------------------------------------------------------
LEMMA ManagerInductive ==
  Spec => [](TypeOK /\ ExclusiveSlot /\ ManagerInv)
<1> DEFINE IInv == TypeOK /\ ExclusiveSlot /\ ManagerInv
<1>1. Init => IInv
  BY TypeInit, ExclusiveInit, LocksInit, EventsInit DEF ManagerInv
<1>2. IInv /\ [Next]_vars => IInv'
  BY TypeNext, ExclusiveNext, LocksNext, QuietNext, PendingNext DEF ManagerInv
<1> QED BY <1>1, <1>2, PTL DEF Spec

\* An event that the device has still to pass has its event object and its
\* slot, whatever the sizes: submit, poll and destroy leave it alone.
THEOREM EventKept == Spec => []EventKeptWhilePending
<1>1. TypeOK /\ ManagerInv => EventKeptWhilePending
  <2> SUFFICES ASSUME TypeOK, ManagerInv, NEW e \in device
               PROVE  /\ Home(e) \in events
                      /\ slot[Home(e)].state # "FREE" /\ slot[Home(e)].tok = e.tok
                      /\ \A f \in device : f.stream = e.stream /\ f.idx = e.idx => f = e
    BY DEF EventKeptWhilePending, Home
  <2>1. Ready
    BY DEF ManagerInv, QuietUnlessReady
  <2>2. Home(e) \in SlotId /\ Home(e)[1] < NumStreams
    BY HomeType, Sizes DEF SlotId, Streams
  <2>3. Home(e) \in events
    BY <2>1, <2>2 DEF ManagerInv, EventObjects, Ready, Registered
  <2> QED BY <2>3 DEF ManagerInv, PendingEvents, Home
<1> QED BY <1>1, ManagerInductive, PTL

\* Once destroy has freed the manager nothing is left that could use it, and a
\* start never overwrites a thread that has not been joined, whatever the sizes.
THEOREM DestroyFinal == Spec => []DestroyIsFinal
<1>1. TypeOK /\ ManagerInv => DestroyIsFinal
  <2> SUFFICES ASSUME TypeOK, ManagerInv PROVE DestroyIsFinal
    OBVIOUS
  <2>1. ctl = "free" /\ ~running => thread = "absent"
    BY DEF ManagerInv, ThreadInv, TypeOK
  <2>2. ASSUME ~alive
        PROVE  /\ thread = "absent" /\ ~polling /\ events = {}
               /\ \A p \in Pollers : pol[p].pc = "idle"
               /\ \A x \in SlotId : slot[x].state = "FREE" /\ ~OnDevice(x)
    BY <2>2 DEF ManagerInv, ThreadInv, OnePoller, EventObjects, QuietUnlessReady, Ready,
                OnDevice
  <2> QED BY <2>1, <2>2 DEF DestroyIsFinal
<1> QED BY <1>1, ManagerInductive, PTL

-----------------------------------------------------------------------------
(* A token is used for one checkpoint, a slot for one checkpoint at a time. *)

InUse(x) == slot[x].state # "FREE"

\* The pair of identities the records of the slot's current use carry.
UseKey(x) == <<x[1], slot[x].tok, slot[x].gen>>
Logged(kind, x) == \E r \in log : r.kind = kind /\ Key(r) = UseKey(x)

\* A token in use belongs to one call, or to one slot, or to the call that holds
\* that slot.
TokensOnce ==
    /\ \A t \in Submitters : sub[t].pc # "idle" => sub[t].tok \in 1..ncalls
    /\ \A t, u \in Submitters :
          sub[t].pc # "idle" /\ sub[u].pc # "idle" /\ sub[t].tok = sub[u].tok => t = u
    /\ \A x \in SlotId : InUse(x) => slot[x].tok \in 1..ncalls /\ slot[x].gen # 0
    /\ \A x, y \in SlotId : InUse(x) /\ InUse(y) /\ slot[x].tok = slot[y].tok => x = y
    /\ \A t \in Submitters, x \in SlotId :
          sub[t].pc # "idle" /\ InUse(x) /\ slot[x].tok = sub[t].tok => SubmitOwns(t, x)
    /\ ncalls =< MaxCalls

\* The records so far have lower numbers than the next one and tokens of calls made;
\* of a call under way there is at most the SUBMITTED record.
LogBounds ==
    \A r \in log :
       /\ r.seq =< nrec /\ r.tok \in 1..ncalls
       /\ \A t \in Submitters : sub[t].pc # "idle" /\ r.tok = sub[t].tok =>
             sub[t].pc = "logged" /\ r.kind = "SUBMITTED"

\* The SUBMITTED record precedes PENDING, the CONFIRMED record precedes the release,
\* and not more.
UseRecords ==
    /\ \A x \in SlotId : slot[x].state \in {"PENDING", "QUERYING"} => Logged("SUBMITTED", x)
    /\ \A t \in Submitters, x \in SlotId :
          sub[t].pc = "logged" /\ SubSlot(t) = x => Logged("SUBMITTED", x)
    /\ \A p \in Pollers, x \in SlotId :
          pol[p].pc = "release" /\ pol[p].at = x => Logged("CONFIRMED", x)
    /\ \A r \in log, x \in SlotId :
          r.kind = "CONFIRMED" /\ InUse(x) /\ r.tok = slot[x].tok =>
             \E p \in Pollers : pol[p].pc = "release" /\ pol[p].at = x

\* A slot is marked for a status exactly when its current use has that record.
Marks ==
    /\ \A x \in SlotId : slot[x].nr =< slot[x].gen /\ slot[x].qe =< slot[x].gen
    /\ \A x \in SlotId :
          /\ InUse(x) /\ Logged("NOT_READY", x) => slot[x].nr = slot[x].gen
          /\ InUse(x) /\ Logged("QUERY_ERROR", x) => slot[x].qe = slot[x].gen
    /\ \A p \in Pollers :
          /\ pol[p].pc = "notready" => slot[pol[p].at].nr # pol[p].gen
          /\ pol[p].pc = "error" => slot[pol[p].at].qe # pol[p].gen

\* ConfirmationIsFact, for records of any generation.
Facts ==
    \A r \in log : r.kind = "CONFIRMED" =>
       /\ r.gen # 0
       /\ ~TokenOnDevice(r.tok)
       /\ \E q \in log : q.kind = "SUBMITTED" /\ Key(q) = Key(r) /\ q.seq < r.seq

FactInv == TokensOnce /\ LogBounds /\ UseRecords /\ Marks /\ Facts /\ StatusOncePerUse

-----------------------------------------------------------------------------
(* What the actions do to the variables these invariants speak of.         *)

Others(t) == \A u \in Submitters : u # t => sub'[u] = sub[u]
OtherPollers(p) == \A q \in Pollers : q # p => pol'[q] = pol[q]
OtherSlots(y) == \A x \in SlotId : x # y => slot'[x] = slot[x]
\* The slots keep token, generation and marks.
SameUses == \A x \in SlotId : /\ slot'[x].tok = slot[x].tok /\ slot'[x].gen = slot[x].gen
                              /\ slot'[x].nr = slot[x].nr /\ slot'[x].qe = slot[x].qe

LEMMA SubmitCallDoes ==
  ASSUME TypeOK, NEW t \in Submitters, NEW s \in Streams, SubmitCall(t, s)
  PROVE  /\ sub[t].pc = "idle" /\ sub'[t].pc = "probe" /\ sub'[t].tok = ncalls + 1
         /\ Others(t) /\ ncalls' = ncalls + 1 /\ ncalls < MaxCalls
         /\ UNCHANGED <<slot, pol, device, log, nrec>>
BY DEF TypeOK, SubmitCall, Others

LEMMA ProbeMissDoes ==
  ASSUME TypeOK, NEW t \in Submitters, ProbeMiss(t)
  PROVE  /\ sub[t].pc = "probe" /\ sub'[t].pc = "probe"
         /\ sub'[t].tok = sub[t].tok /\ sub'[t].stream = sub[t].stream
         /\ Others(t) /\ UNCHANGED <<slot, pol, device, log, nrec, ncalls>>
BY DEF TypeOK, SubRecord, ProbeMiss, Others

LEMMA ProbeHitDoes ==
  ASSUME TypeOK, NEW t \in Submitters, ProbeHit(t)
  PROVE  \E y \in SlotId :
            /\ sub[t].pc = "probe" /\ sub'[t].pc = "reserved"
            /\ sub'[t].tok = sub[t].tok /\ SubSlot(t)' = y
            /\ y[1] = sub[t].stream /\ sub'[t].stream = sub[t].stream
            /\ slot[y].state = "FREE" /\ slot'[y].state = "RESERVED"
            /\ slot'[y].tok = sub[t].tok /\ slot'[y].gen = slot[y].gen + 1
            /\ slot'[y].nr = slot[y].nr /\ slot'[y].qe = slot[y].qe
            /\ OtherSlots(y) /\ Others(t) /\ UNCHANGED <<pol, device, log, nrec, ncalls>>
<1>1. PICK i \in Indices :
        /\ slot[<<sub[t].stream, i>>].state = "FREE"
        /\ slot' = [slot EXCEPT ![<<sub[t].stream, i>>] =
                       Reserved(slot[<<sub[t].stream, i>>], sub[t].tok)]
        /\ sub' = [sub EXCEPT ![t].pc = "reserved", ![t].idx = i]
  BY DEF ProbeHit
<1> DEFINE y == <<sub[t].stream, i>>
<1>2. y \in SlotId /\ y[1] = sub[t].stream
  BY SubFields DEF SlotId
<1>3. /\ sub'[t].pc = "reserved" /\ sub'[t].tok = sub[t].tok /\ SubSlot(t)' = y
      /\ sub'[t].stream = sub[t].stream /\ Others(t)
  BY <1>1 DEF TypeOK, SubRecord, SubSlot, Others
<1>4. /\ slot'[y] = Reserved(slot[y], sub[t].tok) /\ OtherSlots(y)
  BY <1>1, <1>2 DEF TypeOK, OtherSlots
<1>5. sub[t].pc = "probe" /\ UNCHANGED <<pol, device, log, nrec, ncalls>>
  BY DEF ProbeHit
<1>6. slot[y].state = "FREE"
  BY <1>1
<1> HIDE DEF y
<1> QED BY <1>2, <1>3, <1>4, <1>5, <1>6 DEF Reserved

\* The new record of a step.
Rec(kind, s, k, g) == [seq |-> nrec + 1, kind |-> kind, stream |-> s, tok |-> k, gen |-> g]

LEMMA PoolFullDoes ==
  ASSUME TypeOK, NEW t \in Submitters, PoolFull(t)
  PROVE  /\ sub[t].pc = "probe" /\ sub'[t].pc = "idle" /\ Others(t)
         /\ nrec' = nrec + 1
         /\ log' = log \cup {Rec("POOL_FULL", sub[t].stream, sub[t].tok, 0)}
         /\ UNCHANGED <<slot, pol, device, ncalls>>
BY DEF TypeOK, PoolFull, Append2Log, Rec, IdleSub, Others

LEMMA RecordOkDoes ==
  ASSUME TypeOK, NEW t \in Submitters, RecordOk(t)
  PROVE  /\ sub[t].pc = "reserved" /\ sub'[t].pc = "recorded"
         /\ sub'[t].tok = sub[t].tok /\ sub'[t].stream = sub[t].stream
         /\ SubSlot(t)' = SubSlot(t) /\ Others(t)
         /\ device' = device \cup {[stream |-> sub[t].stream, idx |-> sub[t].idx,
                                    tok |-> sub[t].tok, pos |-> npos + 1]}
         /\ UNCHANGED <<slot, pol, log, nrec, ncalls>>
BY DEF TypeOK, SubRecord, RecordOk, SubSlot, Others

LEMMA RecordFailsDoes ==
  ASSUME TypeOK, NEW t \in Submitters, RecordFails(t)
  PROVE  /\ sub[t].pc = "reserved" /\ sub'[t].pc = "idle" /\ Others(t)
         /\ slot'[SubSlot(t)].state = "FREE" /\ OtherSlots(SubSlot(t)) /\ SameUses
         /\ UNCHANGED <<pol, device, log, nrec, ncalls>>
<1>1. /\ sub[t].pc = "reserved" /\ sub' = [sub EXCEPT ![t] = IdleSub]
      /\ slot' = [slot EXCEPT ![SubSlot(t)].state = "FREE"]
      /\ UNCHANGED <<pol, device, log, nrec, ncalls>>
  BY DEF RecordFails
<1>2. SubSlot(t) \in SlotId
  BY SubFields
<1>3. slot'[SubSlot(t)].state = "FREE" /\ OtherSlots(SubSlot(t)) /\ SameUses
  BY <1>1, <1>2 DEF TypeOK, SlotRecord, OtherSlots, SameUses
<1> QED BY <1>1, <1>3 DEF TypeOK, IdleSub, Others

LEMMA LogSubmittedDoes ==
  ASSUME TypeOK, NEW t \in Submitters, LogSubmitted(t)
  PROVE  /\ sub[t].pc = "recorded" /\ sub'[t].pc = "logged"
         /\ sub'[t].tok = sub[t].tok /\ sub'[t].stream = sub[t].stream
         /\ SubSlot(t)' = SubSlot(t) /\ Others(t)
         /\ nrec' = nrec + 1
         /\ log' = log \cup {Rec("SUBMITTED", sub[t].stream, sub[t].tok,
                                 slot[SubSlot(t)].gen)}
         /\ UNCHANGED <<slot, pol, device, ncalls>>
<1>1. /\ sub[t].pc = "recorded" /\ sub' = [sub EXCEPT ![t].pc = "logged"]
      /\ UNCHANGED <<slot, pol, device, ncalls>>
      /\ Append2Log("SUBMITTED", sub[t].stream, sub[t].tok, slot[SubSlot(t)].gen)
  BY DEF LogSubmitted
<1>2. /\ sub'[t].pc = "logged" /\ sub'[t].tok = sub[t].tok
      /\ sub'[t].stream = sub[t].stream /\ sub'[t].idx = sub[t].idx /\ Others(t)
  BY <1>1 DEF TypeOK, SubRecord, Others
<1> QED BY <1>1, <1>2 DEF SubSlot, Append2Log, Rec

LEMMA PublishDoes ==
  ASSUME TypeOK, NEW t \in Submitters, Publish(t)
  PROVE  /\ sub[t].pc = "logged" /\ sub'[t].pc = "idle" /\ Others(t)
         /\ slot'[SubSlot(t)].state = "PENDING" /\ OtherSlots(SubSlot(t)) /\ SameUses
         /\ UNCHANGED <<pol, device, log, nrec, ncalls>>
<1>1. /\ sub[t].pc = "logged" /\ sub' = [sub EXCEPT ![t] = IdleSub]
      /\ slot' = [slot EXCEPT ![SubSlot(t)].state = "PENDING"]
      /\ UNCHANGED <<pol, device, log, nrec, ncalls>>
  BY DEF Publish
<1>2. SubSlot(t) \in SlotId
  BY SubFields
<1>3. slot'[SubSlot(t)].state = "PENDING" /\ OtherSlots(SubSlot(t)) /\ SameUses
  BY <1>1, <1>2 DEF TypeOK, SlotRecord, OtherSlots, SameUses
<1> QED BY <1>1, <1>3 DEF TypeOK, IdleSub, Others

LEMMA ClaimDoes ==
  ASSUME TypeOK, NEW p \in Pollers, Claim(p)
  PROVE  \E y \in SlotId :
            /\ pol[p].pc = "scan" /\ pol'[p].pc = "query" /\ OtherPollers(p)
            /\ slot[y].state = "PENDING" /\ slot'[y].state = "QUERYING"
            /\ OtherSlots(y) /\ SameUses
            /\ UNCHANGED <<sub, device, log, nrec, ncalls>>
<1>1. PICK y \in SlotId :
        /\ slot[y].state = "PENDING"
        /\ slot' = [slot EXCEPT ![y].state = "QUERYING"]
        /\ pol' = [pol EXCEPT ![p] = Querying(pol[p], y, slot[y].gen)]
  BY DEF Claim
<1>2. slot'[y].state = "QUERYING" /\ OtherSlots(y) /\ SameUses
  BY <1>1 DEF TypeOK, SlotRecord, OtherSlots, SameUses
<1>3. pol'[p].pc = "query" /\ OtherPollers(p)
  BY <1>1 DEF TypeOK, Querying, OtherPollers
<1> QED BY <1>1, <1>2, <1>3 DEF Claim, Scanning

\* The answer of the query decides what the poller does next.
LEMMA QueryDoes ==
  ASSUME TypeOK, NEW p \in Pollers, QueryReady(p) \/ QueryNotReady(p) \/ QueryFails(p)
  PROVE  /\ pol[p].pc = "query" /\ pol'[p].pc \in {"confirm", "notready", "error", "requeue"}
         /\ pol'[p].at = pol[p].at /\ pol'[p].gen = pol[p].gen /\ OtherPollers(p)
         /\ pol'[p].pc = "notready" => slot[pol[p].at].nr # pol[p].gen
         /\ pol'[p].pc = "error" => slot[pol[p].at].qe # pol[p].gen
         /\ UNCHANGED <<slot, sub, device, log, nrec, ncalls>>
<1>1. CASE QueryReady(p)
  BY <1>1 DEF TypeOK, PolRecord, QueryReady, OtherPollers
<1>2. CASE QueryNotReady(p)
  BY <1>2 DEF TypeOK, PolRecord, QueryNotReady, OtherPollers
<1>3. CASE QueryFails(p)
  BY <1>3 DEF TypeOK, PolRecord, QueryFails, OtherPollers
<1> QED BY <1>1, <1>2, <1>3

LEMMA ConfirmDoes ==
  ASSUME TypeOK, NEW p \in Pollers, Confirm(p)
  PROVE  /\ pol[p].pc = "confirm" /\ pol'[p].pc = "release"
         /\ pol'[p].at = pol[p].at /\ pol'[p].gen = pol[p].gen /\ OtherPollers(p)
         /\ nrec' = nrec + 1
         /\ log' = log \cup {Rec("CONFIRMED", pol[p].at[1], slot[pol[p].at].tok, pol[p].gen)}
         /\ UNCHANGED <<slot, sub, device, ncalls>>
<1>1. /\ pol[p].pc = "confirm" /\ pol' = [pol EXCEPT ![p].pc = "release"]
      /\ LogPolled(p, "CONFIRMED") /\ UNCHANGED <<slot, sub, device, ncalls>>
  BY DEF Confirm
<1>2. /\ pol'[p].pc = "release" /\ pol'[p].at = pol[p].at /\ pol'[p].gen = pol[p].gen
      /\ OtherPollers(p)
  BY <1>1 DEF TypeOK, PolRecord, OtherPollers
<1> QED BY <1>1, <1>2 DEF LogPolled, Append2Log, Rec

LEMMA ReleaseDoes ==
  ASSUME TypeOK, NEW p \in Pollers, NEW st, NEW c,
         \/ Release(p) /\ st = "FREE" /\ c = "release"
         \/ Requeue(p) /\ st = "PENDING" /\ c = "requeue"
  PROVE  /\ pol[p].pc = c /\ pol'[p].pc = "scan" /\ OtherPollers(p)
         /\ slot'[pol[p].at].state = st /\ OtherSlots(pol[p].at) /\ SameUses
         /\ UNCHANGED <<sub, device, log, nrec, ncalls>>
<1>1. /\ pol[p].pc = c /\ pol' = [pol EXCEPT ![p].pc = "scan"]
      /\ slot' = [slot EXCEPT ![pol[p].at].state = st]
      /\ UNCHANGED <<sub, device, log, nrec, ncalls>>
  BY DEF Release, Requeue
<1>2. pol[p].at \in SlotId
  BY PolFields
<1>3. slot'[pol[p].at].state = st /\ OtherSlots(pol[p].at) /\ SameUses
  BY <1>1, <1>2 DEF TypeOK, SlotRecord, OtherSlots, SameUses
<1>4. pol'[p].pc = "scan" /\ OtherPollers(p)
  BY <1>1 DEF TypeOK, PolRecord, OtherPollers
<1> QED BY <1>1, <1>3, <1>4

\* Both kinds of repeated answer: the record, the mark, and on to requeue.
LEMMA MarkDoes ==
  ASSUME TypeOK, NEW p \in Pollers, NEW kind, NEW c,
         \/ LogNotReady(p) /\ kind = "NOT_READY" /\ c = "notready"
         \/ LogQueryError(p) /\ kind = "QUERY_ERROR" /\ c = "error"
  PROVE  /\ pol[p].pc = c /\ pol'[p].pc = "requeue"
         /\ pol'[p].at = pol[p].at /\ pol'[p].gen = pol[p].gen /\ OtherPollers(p)
         /\ nrec' = nrec + 1
         /\ log' = log \cup {Rec(kind, pol[p].at[1], slot[pol[p].at].tok, pol[p].gen)}
         /\ slot'[pol[p].at].nr = IF c = "notready" THEN pol[p].gen ELSE slot[pol[p].at].nr
         /\ slot'[pol[p].at].qe = IF c = "error" THEN pol[p].gen ELSE slot[pol[p].at].qe
         /\ OtherSlots(pol[p].at)
         /\ \A x \in SlotId : /\ slot'[x].state = slot[x].state
                              /\ slot'[x].tok = slot[x].tok /\ slot'[x].gen = slot[x].gen
         /\ UNCHANGED <<sub, device, ncalls>>
<1>1. /\ pol[p].pc = c /\ pol' = [pol EXCEPT ![p].pc = "requeue"]
      /\ LogPolled(p, kind) /\ UNCHANGED <<sub, device, ncalls>>
  BY DEF LogNotReady, LogQueryError
<1>2. pol[p].at \in SlotId
  BY PolFields
<1>3. \/ c = "notready" /\ slot' = [slot EXCEPT ![pol[p].at].nr = pol[p].gen]
      \/ c = "error" /\ slot' = [slot EXCEPT ![pol[p].at].qe = pol[p].gen]
  BY DEF LogNotReady, LogQueryError
<1>4. /\ slot'[pol[p].at].nr = IF c = "notready" THEN pol[p].gen ELSE slot[pol[p].at].nr
      /\ slot'[pol[p].at].qe = IF c = "error" THEN pol[p].gen ELSE slot[pol[p].at].qe
      /\ OtherSlots(pol[p].at)
  BY <1>2, <1>3 DEF TypeOK, SlotRecord, OtherSlots
<1>5. \A x \in SlotId : /\ slot'[x].state = slot[x].state
                        /\ slot'[x].tok = slot[x].tok /\ slot'[x].gen = slot[x].gen
  BY <1>2, <1>3 DEF TypeOK, SlotRecord
<1>6. /\ pol'[p].pc = "requeue" /\ pol'[p].at = pol[p].at /\ pol'[p].gen = pol[p].gen
      /\ OtherPollers(p)
  BY <1>1 DEF TypeOK, PolRecord, OtherPollers
<1> QED BY <1>1, <1>4, <1>5, <1>6 DEF LogPolled, Append2Log, Rec

\* The rest: setup, control, the start, the end and the misses of a poll, the device.
LEMMA RestDoes ==
  ASSUME TypeOK,
         \/ \E p \in Pollers : PollBegin(p) \/ Skip(p) \/ PollEnd(p)
         \/ CreateEvent \/ RegisterStream \/ CreateEventFails \/ PollRefused
         \/ LoopAgain \/ LoopExit \/ StartPoller \/ StartPollerFails \/ StopPoller
         \/ Join \/ Destroy \/ (\E e \in device : DeviceComplete(e)) \/ UNCHANGED vars
  PROVE  /\ \A p \in Pollers : \/ pol'[p] = pol[p]
                               \/ pol[p].pc \in {"idle", "scan"} /\ pol'[p].pc \in {"idle", "scan"}
         /\ device' \subseteq device
         /\ UNCHANGED <<slot, sub, log, nrec, ncalls>>
<1>1. ASSUME NEW p \in Pollers, PollBegin(p) \/ Skip(p) \/ PollEnd(p)
      PROVE  /\ pol[p].pc \in {"idle", "scan"} /\ pol'[p].pc \in {"idle", "scan"}
             /\ OtherPollers(p) /\ UNCHANGED <<device, slot, sub, log, nrec, ncalls>>
  BY <1>1 DEF TypeOK, PolRecord, PollBegin, Skip, Scanning, PollEnd, IdlePol, OtherPollers
<1>2. CASE \/ CreateEvent \/ RegisterStream \/ CreateEventFails \/ PollRefused
           \/ LoopAgain \/ LoopExit \/ StartPoller \/ StartPollerFails \/ StopPoller
           \/ Join \/ Destroy \/ (\E e \in device : DeviceComplete(e)) \/ UNCHANGED vars
  <2>1. UNCHANGED <<pol, slot, sub, log, nrec, ncalls>> /\ device' \subseteq device
    BY <1>2 DEF CreateEvent, RegisterStream, CreateEventFails, PollRefused, LoopAgain,
       LoopExit, StartPoller, StartPollerFails, StopPoller, Join, Destroy,
       DeviceComplete, vars
  <2> QED BY <2>1
<1> QED BY <1>1, <1>2 DEF OtherPollers

-----------------------------------------------------------------------------
(* Tokens.                                                                 *)

LEMMA FactInit == Init => TokensOnce /\ LogBounds /\ UseRecords /\ Marks /\ Facts
                          /\ StatusOncePerUse
<1> SUFFICES ASSUME Init PROVE TokensOnce /\ LogBounds /\ UseRecords /\ Marks /\ Facts
                               /\ StatusOncePerUse
  OBVIOUS
<1>1. TokensOnce /\ UseRecords
  BY SizesAssumption DEF Init, TokensOnce, UseRecords, InUse, IdleSub, IdlePol
<1>2. LogBounds /\ Facts /\ StatusOncePerUse
  BY DEF Init, LogBounds, Facts, StatusOncePerUse
<1>3. Marks
  BY DEF Init, Marks, InUse, IdlePol
<1> QED BY <1>1, <1>2, <1>3

\* A step that starts no call and reserves no slot.
LEMMA TokensKept ==
  ASSUME TokensOnce, ncalls' = ncalls,
         \A x \in SlotId : /\ InUse(x)' => InUse(x)
                           /\ slot'[x].tok = slot[x].tok /\ slot'[x].gen = slot[x].gen,
         \A t \in Submitters : sub'[t].pc # "idle" =>
             /\ sub[t].pc # "idle" /\ sub'[t].tok = sub[t].tok
             /\ \A x \in SlotId : SubmitOwns(t, x) => SubmitOwns(t, x)'
  PROVE  TokensOnce'
BY DEF TokensOnce, InUse

LEMMA TokensNext ==
  TypeOK /\ ExclusiveSlot /\ TokensOnce /\ [Next]_vars => TokensOnce'
<1> SUFFICES ASSUME TypeOK, ExclusiveSlot, TokensOnce, [Next]_vars PROVE TokensOnce'
  OBVIOUS
<1>1. ASSUME NEW t \in Submitters, NEW s \in Streams, SubmitCall(t, s) PROVE TokensOnce'
  <2>1. /\ sub[t].pc = "idle" /\ sub'[t].pc = "probe" /\ sub'[t].tok = ncalls + 1
        /\ Others(t) /\ ncalls' = ncalls + 1 /\ ncalls < MaxCalls /\ slot' = slot
    BY <1>1, SubmitCallDoes
  <2>2. ncalls \in Nat /\ MaxCalls \in Nat
    BY SizesAssumption DEF TypeOK
  <2>3. \A u \in Submitters : sub'[u].pc # "idle" =>
           \/ u = t
           \/ u # t /\ sub'[u] = sub[u] /\ sub[u].pc # "idle" /\ sub[u].tok \in 1..ncalls
    BY <2>1 DEF Others, TokensOnce
  <2>4. \A x \in SlotId : InUse(x)' = InUse(x) /\ slot'[x] = slot[x]
    BY <2>1 DEF InUse
  <2>5. \A u \in Submitters, x \in SlotId :
           u # t /\ SubmitOwns(u, x) => SubmitOwns(u, x)'
    BY <2>1 DEF Others, SubmitOwns, SubSlot
  <2> QED BY <2>1, <2>2, <2>3, <2>4, <2>5 DEF TokensOnce
<1>2. ASSUME NEW t \in Submitters, ProbeHit(t) PROVE TokensOnce'
  <2>1. PICK y \in SlotId :
            /\ sub[t].pc = "probe" /\ sub'[t].pc = "reserved"
            /\ sub'[t].tok = sub[t].tok /\ SubSlot(t)' = y
            /\ slot[y].state = "FREE" /\ slot'[y].state = "RESERVED"
            /\ slot'[y].tok = sub[t].tok /\ slot'[y].gen = slot[y].gen + 1
            /\ OtherSlots(y) /\ Others(t) /\ ncalls' = ncalls
    BY <1>2, ProbeHitDoes
  <2>2. sub[t].tok \in 1..ncalls /\ slot[y].gen \in Nat
    BY <2>1 DEF TokensOnce, TypeOK, SlotRecord
  <2>3. InUse(y)' /\ SubmitOwns(t, y)' /\ slot'[y].gen # 0
    BY <2>1, <2>2 DEF InUse, SubmitOwns
  <2>4. \A x \in SlotId : x # y => slot'[x] = slot[x] /\ (InUse(x)' <=> InUse(x))
    BY <2>1 DEF OtherSlots, InUse
  <2>5. \A x \in SlotId : InUse(x) => slot[x].tok # sub[t].tok
    BY <2>1 DEF TokensOnce, SubmitOwns
  <2>6. \A u \in Submitters : u # t => /\ sub'[u] = sub[u]
                                       /\ \A x : SubmitOwns(u, x)' <=> SubmitOwns(u, x)
    BY <2>1 DEF Others, SubmitOwns, SubSlot
  <2>7. \A u \in Submitters : u # t /\ sub[u].pc # "idle" => sub[u].tok # sub[t].tok
    BY <2>1 DEF TokensOnce
  <2> QED BY <2>1, <2>2, <2>3, <2>4, <2>5, <2>6, <2>7 DEF TokensOnce
<1>3. ASSUME NEW t \in Submitters,
             ProbeMiss(t) \/ PoolFull(t) \/ RecordOk(t) \/ LogSubmitted(t)
      PROVE  TokensOnce'
  <2>1. slot' = slot /\ ncalls' = ncalls /\ Others(t)
    BY <1>3, ProbeMissDoes, PoolFullDoes, RecordOkDoes, LogSubmittedDoes
  <2>2. sub'[t].pc # "idle" => /\ sub[t].pc # "idle" /\ sub'[t].tok = sub[t].tok
                               /\ \A x \in SlotId : SubmitOwns(t, x) => SubmitOwns(t, x)'
    BY <1>3, ProbeMissDoes, PoolFullDoes, RecordOkDoes, LogSubmittedDoes DEF SubmitOwns
  <2>3. \A u \in Submitters : u # t =>
           sub'[u] = sub[u] /\ \A x \in SlotId : SubmitOwns(u, x) => SubmitOwns(u, x)'
    BY <2>1 DEF Others, SubmitOwns, SubSlot
  <2>4. \A x \in SlotId : InUse(x)' => InUse(x)
    BY <2>1 DEF InUse
  <2> QED BY <2>1, <2>2, <2>3, <2>4, TokensKept
<1>4. ASSUME NEW t \in Submitters, RecordFails(t) \/ Publish(t) PROVE TokensOnce'
  <2>1. /\ sub[t].pc \in {"reserved", "logged"} /\ sub'[t].pc = "idle" /\ Others(t)
        /\ OtherSlots(SubSlot(t)) /\ SameUses /\ ncalls' = ncalls
    BY <1>4, RecordFailsDoes, PublishDoes
  <2>2. SubmitOwns(t, SubSlot(t)) /\ SubSlot(t) \in SlotId
    BY <2>1, SubFields DEF SubmitOwns
  <2>3. InUse(SubSlot(t))
    BY <2>2 DEF ExclusiveSlot, InUse
  <2>4. \A x \in SlotId : InUse(x)' => InUse(x)
    BY <2>1, <2>3 DEF OtherSlots, InUse
  <2>5. \A u \in Submitters : u # t =>
           sub'[u] = sub[u] /\ \A x \in SlotId : SubmitOwns(u, x) => SubmitOwns(u, x)'
    BY <2>1 DEF Others, SubmitOwns, SubSlot
  <2> QED BY <2>1, <2>4, <2>5, TokensKept DEF SameUses
<1>5. CASE /\ sub' = sub /\ ncalls' = ncalls
           /\ \A x \in SlotId : /\ slot[x].state = "FREE" => slot'[x].state = "FREE"
                                /\ slot'[x].tok = slot[x].tok /\ slot'[x].gen = slot[x].gen
  BY <1>5, TokensKept DEF InUse, SubmitOwns, SubSlot
<1>6. ASSUME NEW p \in Pollers, Claim(p) PROVE TokensOnce'
  BY <1>5, <1>6, ClaimDoes DEF OtherSlots, SameUses
<1>7. ASSUME NEW p \in Pollers, QueryReady(p) \/ QueryNotReady(p) \/ QueryFails(p)
      PROVE TokensOnce'
  BY <1>5, <1>7, QueryDoes
<1>8. ASSUME NEW p \in Pollers, Confirm(p) PROVE TokensOnce'
  BY <1>5, <1>8, ConfirmDoes
<1>9. ASSUME NEW p \in Pollers, Release(p) \/ Requeue(p) PROVE TokensOnce'
  <2>1. slot[pol[p].at].state = "QUERYING" /\ pol[p].at \in SlotId
    BY <1>9, PolFields DEF ExclusiveSlot, PollOwns, Release, Requeue
  <2> QED BY <1>5, <1>9, <2>1, ReleaseDoes DEF OtherSlots, SameUses
<1>10. ASSUME NEW p \in Pollers, LogNotReady(p) \/ LogQueryError(p) PROVE TokensOnce'
  BY <1>5, <1>10, MarkDoes
<1> QED BY <1>1, <1>2, <1>3, <1>4, <1>5, <1>6, <1>7, <1>8, <1>9, <1>10, RestDoes
        DEF Next, SubmitStep, PollStep

-----------------------------------------------------------------------------
(* The log.                                                                *)

\* A step that writes nothing.
LEMMA BoundsKept ==
  ASSUME LogBounds, log' = log, nrec' = nrec, ncalls' = ncalls,
         \A t \in Submitters : sub'[t].pc # "idle" =>
             /\ sub[t].pc # "idle" /\ sub'[t].tok = sub[t].tok
             /\ sub[t].pc = "logged" => sub'[t].pc = "logged"
  PROVE  LogBounds'
BY DEF LogBounds

\* A step of a poll that writes a record with the token of the slot it holds.
LEMMA BoundsPolled ==
  ASSUME TypeOK, ExclusiveSlot, TokensOnce, LogBounds, NEW p \in Pollers, NEW kind,
         PollOwns(p, pol[p].at),
         log' = log \cup {Rec(kind, pol[p].at[1], slot[pol[p].at].tok, pol[p].gen)},
         nrec' = nrec + 1, UNCHANGED <<sub, ncalls>>
  PROVE  LogBounds'
<1>1. pol[p].at \in SlotId /\ nrec \in Nat /\ ncalls \in Nat /\ log \subseteq LogRecord
  BY PolFields DEF TypeOK
<1>2. slot[pol[p].at].state = "QUERYING"
  BY <1>1 DEF ExclusiveSlot
<1>3. InUse(pol[p].at) /\ \A t \in Submitters : ~SubmitOwns(t, pol[p].at)
  BY <1>1, <1>2 DEF InUse, ExclusiveSlot
<1>4. /\ slot[pol[p].at].tok \in 1..ncalls
      /\ \A t \in Submitters : sub[t].pc # "idle" => sub[t].tok # slot[pol[p].at].tok
  BY <1>1, <1>3 DEF TokensOnce
<1>5. \A r \in log : r.seq \in Nat
  BY <1>1 DEF LogRecord
<1> QED BY <1>1, <1>4, <1>5 DEF LogBounds, Rec

LEMMA BoundsNext ==
  TypeOK /\ ExclusiveSlot /\ TokensOnce /\ LogBounds /\ [Next]_vars => LogBounds'
<1> SUFFICES ASSUME TypeOK, ExclusiveSlot, TokensOnce, LogBounds, [Next]_vars
             PROVE  LogBounds'
  OBVIOUS
<1>0. nrec \in Nat /\ ncalls \in Nat /\ \A r \in log : r.seq \in Nat /\ r.tok \in Nat
  BY DEF TypeOK, LogRecord
<1>1. ASSUME NEW t \in Submitters, NEW s \in Streams, SubmitCall(t, s) PROVE LogBounds'
  BY <1>0, <1>1, SubmitCallDoes DEF LogBounds, Others
<1>2. ASSUME NEW t \in Submitters,
             ProbeMiss(t) \/ ProbeHit(t) \/ RecordOk(t) \/ RecordFails(t) \/ Publish(t)
      PROVE LogBounds'
  <2>1. UNCHANGED <<log, nrec, ncalls>> /\ Others(t)
    BY <1>2, ProbeMissDoes, ProbeHitDoes, RecordOkDoes, RecordFailsDoes, PublishDoes
  <2>2. sub'[t].pc # "idle" =>
           sub[t].pc \notin {"idle", "logged"} /\ sub'[t].tok = sub[t].tok
    BY <1>2, ProbeMissDoes, ProbeHitDoes, RecordOkDoes, RecordFailsDoes, PublishDoes
  <2> QED BY <2>1, <2>2, BoundsKept DEF Others
<1>3. ASSUME NEW t \in Submitters, PoolFull(t) PROVE LogBounds'
  <2>1. /\ sub[t].pc = "probe" /\ sub'[t].pc = "idle" /\ Others(t) /\ nrec' = nrec + 1
        /\ log' = log \cup {Rec("POOL_FULL", sub[t].stream, sub[t].tok, 0)}
        /\ ncalls' = ncalls
    BY <1>3, PoolFullDoes
  <2>2. /\ sub[t].tok \in 1..ncalls
        /\ \A u \in Submitters : u # t /\ sub[u].pc # "idle" => sub[u].tok # sub[t].tok
    BY <2>1 DEF TokensOnce
  <2> QED BY <1>0, <2>1, <2>2 DEF LogBounds, Others, Rec
<1>4. ASSUME NEW t \in Submitters, LogSubmitted(t) PROVE LogBounds'
  <2>1. /\ sub[t].pc = "recorded" /\ sub'[t].pc = "logged" /\ sub'[t].tok = sub[t].tok
        /\ Others(t) /\ nrec' = nrec + 1 /\ ncalls' = ncalls
        /\ log' = log \cup {Rec("SUBMITTED", sub[t].stream, sub[t].tok,
                                slot[SubSlot(t)].gen)}
    BY <1>4, LogSubmittedDoes
  <2>2. /\ sub[t].tok \in 1..ncalls
        /\ \A u \in Submitters : u # t /\ sub[u].pc # "idle" => sub[u].tok # sub[t].tok
    BY <2>1 DEF TokensOnce
  <2> QED BY <1>0, <2>1, <2>2 DEF LogBounds, Others, Rec
<1>5. ASSUME NEW p \in Pollers, Confirm(p) PROVE LogBounds'
  <2>1. PollOwns(p, pol[p].at)
    BY <1>5 DEF Confirm, PollOwns
  <2> QED BY <1>5, <2>1, ConfirmDoes, BoundsPolled
<1>6. ASSUME NEW p \in Pollers, LogNotReady(p) PROVE LogBounds'
  <2>1. PollOwns(p, pol[p].at)
    BY <1>6 DEF LogNotReady, PollOwns
  <2> QED BY <1>6, <2>1, MarkDoes, BoundsPolled
<1>7. ASSUME NEW p \in Pollers, LogQueryError(p) PROVE LogBounds'
  <2>1. PollOwns(p, pol[p].at)
    BY <1>7 DEF LogQueryError, PollOwns
  <2> QED BY <1>7, <2>1, MarkDoes, BoundsPolled
<1>8. CASE UNCHANGED <<sub, log, nrec, ncalls>>
  BY <1>8, BoundsKept
<1>9. ASSUME NEW p \in Pollers,
             \/ Claim(p) \/ QueryReady(p) \/ QueryNotReady(p) \/ QueryFails(p)
             \/ Release(p) \/ Requeue(p)
      PROVE  LogBounds'
  BY <1>8, <1>9, ClaimDoes, QueryDoes, ReleaseDoes
<1> QED BY <1>1, <1>2, <1>3, <1>4, <1>5, <1>6, <1>7, <1>8, <1>9, RestDoes
        DEF Next, SubmitStep, PollStep

-----------------------------------------------------------------------------
(* The records of the current use of a slot.                               *)

\* A step after which every slot is in the same use, that confirms nothing.
LEMMA RecordsKept ==
  ASSUME TypeOK, UseRecords, log \subseteq log',
         \A r \in log' : r.kind = "CONFIRMED" => r \in log,
         \A x \in SlotId : /\ slot'[x].tok = slot[x].tok /\ slot'[x].gen = slot[x].gen
                           /\ InUse(x)' => InUse(x)
                           /\ slot'[x].state \in {"PENDING", "QUERYING"} => Logged("SUBMITTED", x),
         \A t \in Submitters, x \in SlotId :
             sub'[t].pc = "logged" /\ SubSlot(t)' = x => Logged("SUBMITTED", x),
         \A p \in Pollers : pol'[p].pc = "release" =>
             pol[p].pc = "release" /\ pol'[p].at = pol[p].at,
         \A p \in Pollers : pol[p].pc = "release" /\ slot'[pol[p].at].state # "FREE" =>
             pol'[p].pc = "release" /\ pol'[p].at = pol[p].at
  PROVE  UseRecords'
<1>1. \A x \in SlotId : UseKey(x)' = UseKey(x)
  BY DEF UseKey
<1>2. \A kind, x : x \in SlotId /\ Logged(kind, x) => Logged(kind, x)'
  BY <1>1 DEF Logged
<1>3. /\ \A x \in SlotId : slot'[x].state \in {"PENDING", "QUERYING"} => Logged("SUBMITTED", x)'
      /\ \A t \in Submitters, x \in SlotId :
            sub'[t].pc = "logged" /\ SubSlot(t)' = x => Logged("SUBMITTED", x)'
  BY <1>2
<1>4. \A p \in Pollers, x \in SlotId :
         pol'[p].pc = "release" /\ pol'[p].at = x => Logged("CONFIRMED", x)'
  BY <1>2 DEF UseRecords
<1>5. \A r \in log', x \in SlotId :
          r.kind = "CONFIRMED" /\ InUse(x)' /\ r.tok = slot'[x].tok =>
             \E p \in Pollers : pol'[p].pc = "release" /\ pol'[p].at = x
  <2> SUFFICES ASSUME NEW r \in log', NEW x \in SlotId,
                      r.kind = "CONFIRMED", InUse(x)', r.tok = slot'[x].tok
               PROVE  \E p \in Pollers : pol'[p].pc = "release" /\ pol'[p].at = x
    OBVIOUS
  <2>1. PICK p \in Pollers : pol[p].pc = "release" /\ pol[p].at = x
    BY DEF UseRecords
  <2> QED BY <2>1 DEF InUse
<1> QED BY <1>3, <1>4, <1>5 DEF UseRecords

LEMMA RecordsNext ==
  /\ TypeOK /\ ExclusiveSlot /\ TokensOnce /\ LogBounds /\ UseRecords /\ [Next]_vars
  => UseRecords'
<1> SUFFICES ASSUME TypeOK, ExclusiveSlot, TokensOnce, LogBounds, UseRecords, [Next]_vars
             PROVE  UseRecords'
  OBVIOUS
<1>0. \A p \in Pollers : pol[p].at \in SlotId
  BY PolFields
<1>1. CASE /\ UNCHANGED <<slot, log>>
           /\ \A t \in Submitters : sub'[t].pc = "logged" => sub'[t] = sub[t]
           /\ \A p \in Pollers : \/ pol'[p] = pol[p]
                                 \/ pol[p].pc # "release" /\ pol'[p].pc # "release"
  <2>1. \A t \in Submitters, x \in SlotId :
           sub'[t].pc = "logged" /\ SubSlot(t)' = x => Logged("SUBMITTED", x)
    BY <1>1 DEF UseRecords, SubSlot
  <2>2. \A x \in SlotId : InUse(x)' => InUse(x)
    BY <1>1 DEF InUse
  <2>3. \A x \in SlotId : slot[x].state \in {"PENDING", "QUERYING"} => Logged("SUBMITTED", x)
    BY DEF UseRecords
  <2> QED BY <1>1, <2>1, <2>2, <2>3, RecordsKept
<1>2. ASSUME NEW t \in Submitters, NEW s \in Streams,
             SubmitCall(t, s) \/ ProbeMiss(t) \/ RecordOk(t)
      PROVE  UseRecords'
  BY <1>1, <1>2, SubmitCallDoes, ProbeMissDoes, RecordOkDoes DEF Others
<1>3. ASSUME NEW t \in Submitters, ProbeHit(t) PROVE UseRecords'
  <2>1. PICK y \in SlotId :
            /\ sub[t].pc = "probe" /\ sub'[t].pc = "reserved" /\ SubSlot(t)' = y
            /\ slot[y].state = "FREE" /\ slot'[y].state = "RESERVED"
            /\ slot'[y].tok = sub[t].tok
            /\ OtherSlots(y) /\ Others(t) /\ UNCHANGED <<pol, log>>
    BY <1>3, ProbeHitDoes
  <2>2. \A kind, x : x \in SlotId /\ x # y => (Logged(kind, x)' <=> Logged(kind, x))
    BY <2>1 DEF Logged, UseKey, OtherSlots
  <2>3. \A u \in Submitters, x \in SlotId : sub'[u].pc = "logged" /\ SubSlot(u)' = x =>
           sub[u].pc = "logged" /\ SubSlot(u) = x /\ x # y
    BY <2>1 DEF Others, SubSlot, ExclusiveSlot, SubmitOwns
  <2>4. \A p \in Pollers : pol[p].pc = "release" => pol[p].at # y
    BY <1>0, <2>1 DEF ExclusiveSlot, PollOwns
  <2>5. \A r \in log : r.tok # slot'[y].tok
    BY <2>1 DEF LogBounds
  <2>6. \A x \in SlotId : x # y => slot'[x] = slot[x] /\ (InUse(x)' <=> InUse(x))
    BY <2>1 DEF OtherSlots, InUse
  <2> QED BY <2>1, <2>2, <2>3, <2>4, <2>5, <2>6 DEF UseRecords
<1>4. ASSUME NEW t \in Submitters, PoolFull(t) PROVE UseRecords'
  <2>1. /\ sub'[t].pc = "idle" /\ Others(t) /\ UNCHANGED <<slot, pol>>
        /\ log' = log \cup {Rec("POOL_FULL", sub[t].stream, sub[t].tok, 0)}
    BY <1>4, PoolFullDoes
  <2>2. \A u \in Submitters, x \in SlotId :
           sub'[u].pc = "logged" /\ SubSlot(u)' = x => Logged("SUBMITTED", x)
    BY <2>1 DEF UseRecords, SubSlot, Others
  <2>3. \A x \in SlotId : InUse(x)' => InUse(x)
    BY <2>1 DEF InUse
  <2>4. \A x \in SlotId : slot[x].state \in {"PENDING", "QUERYING"} => Logged("SUBMITTED", x)
    BY DEF UseRecords
  <2>5. log \subseteq log' /\ \A r \in log' : r.kind = "CONFIRMED" => r \in log
    BY <2>1 DEF Rec
  <2> QED BY <2>1, <2>2, <2>3, <2>4, <2>5, RecordsKept
<1>5. ASSUME NEW t \in Submitters, RecordFails(t) \/ Publish(t) PROVE UseRecords'
  <2>1. /\ sub[t].pc \in {"reserved", "logged"} /\ sub'[t].pc = "idle" /\ Others(t)
        /\ slot'[SubSlot(t)].state \in {"FREE", "PENDING"}
        /\ slot'[SubSlot(t)].state = "PENDING" => sub[t].pc = "logged"
        /\ OtherSlots(SubSlot(t)) /\ SameUses /\ UNCHANGED <<pol, log>>
    BY <1>5, RecordFailsDoes, PublishDoes
  <2>2. SubmitOwns(t, SubSlot(t)) /\ SubSlot(t) \in SlotId /\ InUse(SubSlot(t))
    BY <2>1, SubFields DEF SubmitOwns, ExclusiveSlot, InUse
  <2>3. \A x \in SlotId :
           /\ InUse(x)' => InUse(x)
           /\ slot'[x].state \in {"PENDING", "QUERYING"} => Logged("SUBMITTED", x)
    BY <2>1, <2>2 DEF OtherSlots, InUse, UseRecords
  <2>4. \A u \in Submitters, x \in SlotId :
           sub'[u].pc = "logged" /\ SubSlot(u)' = x => Logged("SUBMITTED", x)
    BY <2>1 DEF UseRecords, SubSlot, Others
  <2> QED BY <2>1, <2>3, <2>4, RecordsKept DEF SameUses
<1>6. ASSUME NEW t \in Submitters, LogSubmitted(t) PROVE UseRecords'
  <2>1. /\ sub[t].pc = "recorded" /\ sub'[t].pc = "logged" /\ SubSlot(t)' = SubSlot(t)
        /\ Others(t) /\ UNCHANGED <<slot, pol>>
        /\ log' = log \cup {Rec("SUBMITTED", sub[t].stream, sub[t].tok,
                                slot[SubSlot(t)].gen)}
    BY <1>6, LogSubmittedDoes
  <2> DEFINE y == SubSlot(t)
             r0 == Rec("SUBMITTED", sub[t].stream, sub[t].tok, slot[SubSlot(t)].gen)
  <2>2. y \in SlotId /\ y[1] = sub[t].stream /\ slot[y].tok = sub[t].tok
    BY <2>1, SubFields DEF SubmitOwns, ExclusiveSlot, SubSlot
  <2>3. r0.kind = "SUBMITTED" /\ Key(r0) = UseKey(y)
    BY <2>2 DEF Rec, Key, UseKey
  <2>4. \A x \in SlotId : UseKey(x)' = UseKey(x)
    BY <2>1 DEF UseKey
  <2>5. \A kind, x : x \in SlotId /\ Logged(kind, x) => Logged(kind, x)'
    BY <2>1, <2>4 DEF Logged
  <2>6. Logged("SUBMITTED", SubSlot(t))'
    BY <2>1, <2>2, <2>3 DEF Logged, UseKey
  <2>7. \A u \in Submitters, x \in SlotId :
           sub'[u].pc = "logged" /\ SubSlot(u)' = x => Logged("SUBMITTED", x)'
    <3>1. \A x \in SlotId : SubSlot(t)' = x => Logged("SUBMITTED", x)'
      BY <2>1, <2>3, <2>4 DEF Logged
    <3>2. \A u \in Submitters, x \in SlotId :
             u # t /\ sub'[u].pc = "logged" /\ SubSlot(u)' = x => Logged("SUBMITTED", x)
      BY <2>1 DEF Others, SubSlot, UseRecords
    <3> QED BY <2>5, <3>1, <3>2
  <2>8. \A r \in log' : r.kind = "CONFIRMED" => r \in log
    BY <2>1 DEF Rec
  <2>9. \A x \in SlotId : InUse(x)' <=> InUse(x)
    BY <2>1 DEF InUse
  <2> HIDE DEF y, r0
  <2> QED BY <2>1, <2>5, <2>7, <2>8, <2>9 DEF UseRecords
<1>7. ASSUME NEW p \in Pollers, Claim(p) PROVE UseRecords'
  <2>1. PICK y \in SlotId :
            /\ pol[p].pc = "scan" /\ pol'[p].pc = "query" /\ OtherPollers(p)
            /\ slot[y].state = "PENDING" /\ slot'[y].state = "QUERYING"
            /\ OtherSlots(y) /\ SameUses /\ UNCHANGED <<sub, log>>
    BY <1>7, ClaimDoes
  <2>2. \A t \in Submitters, x \in SlotId :
           sub'[t].pc = "logged" /\ SubSlot(t)' = x => Logged("SUBMITTED", x)
    BY <2>1 DEF UseRecords, SubSlot
  <2>3. \A x \in SlotId :
           /\ InUse(x)' => InUse(x)
           /\ slot'[x].state \in {"PENDING", "QUERYING"} => Logged("SUBMITTED", x)
    BY <2>1 DEF OtherSlots, InUse, UseRecords
  <2>4. \A q \in Pollers : \/ pol'[q] = pol[q]
                           \/ pol[q].pc # "release" /\ pol'[q].pc # "release"
    BY <2>1 DEF OtherPollers
  <2> QED BY <2>1, <2>2, <2>3, <2>4, RecordsKept DEF SameUses
<1>8. ASSUME NEW p \in Pollers, QueryReady(p) \/ QueryNotReady(p) \/ QueryFails(p)
      PROVE  UseRecords'
  BY <1>1, <1>8, QueryDoes DEF OtherPollers
<1>9. ASSUME NEW p \in Pollers, Confirm(p) PROVE UseRecords'
  <2>1. /\ pol[p].pc = "confirm" /\ pol'[p].pc = "release" /\ pol'[p].at = pol[p].at
        /\ OtherPollers(p) /\ UNCHANGED <<slot, sub>>
        /\ log' = log \cup {Rec("CONFIRMED", pol[p].at[1], slot[pol[p].at].tok, pol[p].gen)}
    BY <1>9, ConfirmDoes
  <2> DEFINE y == pol[p].at
             r0 == Rec("CONFIRMED", pol[p].at[1], slot[pol[p].at].tok, pol[p].gen)
  <2>2. y \in SlotId /\ PollOwns(p, y)
    BY <1>0, <2>1 DEF PollOwns
  <2>3. slot[y].state = "QUERYING" /\ slot[y].gen = pol[p].gen
    BY <2>2 DEF ExclusiveSlot
  <2>4. r0.kind = "CONFIRMED" /\ Key(r0) = UseKey(y) /\ r0.tok = slot[y].tok
    BY <2>3 DEF Rec, Key, UseKey
  <2>5. \A x \in SlotId : UseKey(x)' = UseKey(x) /\ (InUse(x)' <=> InUse(x))
    BY <2>1 DEF UseKey, InUse
  <2>6. \A kind, x : x \in SlotId /\ Logged(kind, x) => Logged(kind, x)'
    BY <2>1, <2>5 DEF Logged
  <2>7. \A q \in Pollers, x \in SlotId :
           pol'[q].pc = "release" /\ pol'[q].at = x => Logged("CONFIRMED", x)'
    <3>1. Key(r0) = UseKey(y)' /\ r0 \in log'
      BY <2>1, <2>2, <2>4 DEF UseKey
    <3>2. \A x \in SlotId : pol'[p].at = x => Logged("CONFIRMED", x)'
      BY <2>1, <2>4, <2>5 DEF Logged
    <3>3. \A q \in Pollers, x \in SlotId :
             q # p /\ pol'[q].pc = "release" /\ pol'[q].at = x => Logged("CONFIRMED", x)
      BY <2>1 DEF OtherPollers, UseRecords
    <3> QED BY <2>6, <3>2, <3>3
  <2>8. \A q \in Pollers : pol[q].pc = "release" => pol'[q] = pol[q]
    BY <2>1 DEF OtherPollers
  <2>9. \A r \in log', x \in SlotId :
          r.kind = "CONFIRMED" /\ InUse(x)' /\ r.tok = slot'[x].tok =>
             \E q \in Pollers : pol'[q].pc = "release" /\ pol'[q].at = x
    <3> SUFFICES ASSUME NEW r \in log', NEW x \in SlotId,
                        r.kind = "CONFIRMED", InUse(x)', r.tok = slot'[x].tok
                 PROVE  \E q \in Pollers : pol'[q].pc = "release" /\ pol'[q].at = x
      OBVIOUS
    <3>1. CASE r \in log
      <4>1. PICK q \in Pollers : pol[q].pc = "release" /\ pol[q].at = x
        BY <2>1, <2>5, <3>1 DEF UseRecords
      <4> QED BY <2>8, <4>1
    <3>2. CASE r = r0
      <4>1. InUse(x) /\ InUse(y) /\ slot[x].tok = slot[y].tok
        BY <2>1, <2>3, <2>4, <2>5, <3>2 DEF InUse
      <4>2. x = y
        BY <2>2, <4>1 DEF TokensOnce
      <4> QED BY <2>1, <4>2
    <3> QED BY <2>1, <3>1, <3>2
  <2>10. UNCHANGED <<slot, sub>> /\ \A t \in Submitters : SubSlot(t)' = SubSlot(t)
    BY <2>1 DEF SubSlot
  <2> HIDE DEF y, r0
  <2> QED BY <2>6, <2>7, <2>9, <2>10 DEF UseRecords
<1>10. ASSUME NEW p \in Pollers, NEW st, NEW c,
              \/ Release(p) /\ st = "FREE" /\ c = "release"
              \/ Requeue(p) /\ st = "PENDING" /\ c = "requeue"
       PROVE  UseRecords'
  <2>1. /\ pol[p].pc = c /\ pol'[p].pc = "scan" /\ OtherPollers(p)
        /\ slot'[pol[p].at].state = st /\ OtherSlots(pol[p].at) /\ SameUses
        /\ UNCHANGED <<sub, log>>
    BY <1>10, ReleaseDoes
  <2>2. PollOwns(p, pol[p].at) /\ slot[pol[p].at].state = "QUERYING"
    BY <1>0, <1>10, <2>1 DEF PollOwns, ExclusiveSlot
  <2>3. \A x \in SlotId :
           /\ InUse(x)' => InUse(x)
           /\ slot'[x].state \in {"PENDING", "QUERYING"} => Logged("SUBMITTED", x)
    BY <1>0, <1>10, <2>1, <2>2 DEF OtherSlots, InUse, UseRecords
  <2>4. \A t \in Submitters, x \in SlotId :
           sub'[t].pc = "logged" /\ SubSlot(t)' = x => Logged("SUBMITTED", x)
    BY <2>1 DEF UseRecords, SubSlot
  <2>5. \A q \in Pollers : pol'[q].pc = "release" =>
           pol[q].pc = "release" /\ pol'[q].at = pol[q].at
    BY <2>1 DEF OtherPollers
  <2>6. \A q \in Pollers : pol[q].pc = "release" /\ slot'[pol[q].at].state # "FREE" =>
           pol'[q].pc = "release" /\ pol'[q].at = pol[q].at
    BY <1>10, <2>1 DEF OtherPollers
  <2> QED BY <2>1, <2>3, <2>4, <2>5, <2>6, RecordsKept DEF SameUses
<1>11. ASSUME NEW p \in Pollers, LogNotReady(p) \/ LogQueryError(p) PROVE UseRecords'
  <2>1. PICK kind \in {"NOT_READY", "QUERY_ERROR"} :
           log' = log \cup {Rec(kind, pol[p].at[1], slot[pol[p].at].tok, pol[p].gen)}
    BY <1>11, MarkDoes
  <2>2. /\ pol[p].pc # "release" /\ pol'[p].pc # "release" /\ OtherPollers(p)
        /\ \A x \in SlotId : /\ slot'[x].state = slot[x].state
                             /\ slot'[x].tok = slot[x].tok /\ slot'[x].gen = slot[x].gen
        /\ sub' = sub
    BY <1>11, MarkDoes
  <2>3. log \subseteq log' /\ \A r \in log' : r.kind = "CONFIRMED" => r \in log
    BY <2>1 DEF Rec
  <2>4. \A t \in Submitters, x \in SlotId :
           sub'[t].pc = "logged" /\ SubSlot(t)' = x => Logged("SUBMITTED", x)
    BY <2>2 DEF UseRecords, SubSlot
  <2>5. \A x \in SlotId :
           /\ InUse(x)' => InUse(x)
           /\ slot'[x].state \in {"PENDING", "QUERYING"} => Logged("SUBMITTED", x)
    BY <2>2 DEF InUse, UseRecords
  <2>6. \A q \in Pollers : \/ pol'[q] = pol[q]
                           \/ pol[q].pc # "release" /\ pol'[q].pc # "release"
    BY <2>2 DEF OtherPollers
  <2> QED BY <2>2, <2>3, <2>4, <2>5, <2>6, RecordsKept
<1>12. ASSUME NEW t \in Submitters, SubmitStep(t) PROVE UseRecords'
  <2>1. CASE ProbeMiss(t) \/ RecordOk(t)
    BY <1>2, <2>1, Sizes
  <2> QED BY <1>3, <1>4, <1>5, <1>6, <1>12, <2>1 DEF SubmitStep
<1>13. ASSUME NEW p \in Pollers, PollStep(p), ~Skip(p), ~PollEnd(p) PROVE UseRecords'
  BY <1>7, <1>8, <1>9, <1>10, <1>11, <1>13 DEF PollStep
<1>14. ASSUME /\ UNCHANGED <<slot, sub, log>>
              /\ \A p \in Pollers :
                    \/ pol'[p] = pol[p]
                    \/ pol[p].pc \in {"idle", "scan"} /\ pol'[p].pc \in {"idle", "scan"}
       PROVE  UseRecords'
  BY <1>1, <1>14
<1> QED BY <1>2, <1>12, <1>13, <1>14, RestDoes DEF Next

-----------------------------------------------------------------------------
(* The marks.                                                              *)

\* A step that marks nothing and writes no record of a kind that is marked.
LEMMA MarksKept ==
  ASSUME TypeOK, Marks, SameUses,
         \A x \in SlotId : InUse(x)' => InUse(x),
         \A r \in log' : r \in log \/ r.kind \notin {"NOT_READY", "QUERY_ERROR"},
         \A p \in Pollers :
             /\ pol'[p].pc = "notready" => slot[pol'[p].at].nr # pol'[p].gen
             /\ pol'[p].pc = "error" => slot[pol'[p].at].qe # pol'[p].gen
             /\ pol'[p].pc \in {"notready", "error"} => pol'[p].at \in SlotId
  PROVE  Marks'
<1>1. \A x \in SlotId : UseKey(x)' = UseKey(x)
  BY DEF UseKey, SameUses
<1>2. \A x \in SlotId : /\ Logged("NOT_READY", x)' => Logged("NOT_READY", x)
                        /\ Logged("QUERY_ERROR", x)' => Logged("QUERY_ERROR", x)
  BY <1>1 DEF Logged
<1>3. \A p \in Pollers : /\ pol'[p].pc = "notready" => slot'[pol'[p].at].nr # pol'[p].gen
                         /\ pol'[p].pc = "error" => slot'[pol'[p].at].qe # pol'[p].gen
  BY DEF SameUses
<1>4. \A x \in SlotId : slot'[x].nr =< slot'[x].gen /\ slot'[x].qe =< slot'[x].gen
  BY DEF SameUses, Marks
<1>5. \A x \in SlotId :
          /\ InUse(x)' /\ Logged("NOT_READY", x)' => slot'[x].nr = slot'[x].gen
          /\ InUse(x)' /\ Logged("QUERY_ERROR", x)' => slot'[x].qe = slot'[x].gen
  BY <1>2 DEF SameUses, Marks
<1> QED BY <1>3, <1>4, <1>5 DEF Marks

LEMMA MarksNext ==
  TypeOK /\ ExclusiveSlot /\ TokensOnce /\ LogBounds /\ Marks /\ [Next]_vars => Marks'
<1> SUFFICES ASSUME TypeOK, ExclusiveSlot, TokensOnce, LogBounds, Marks, [Next]_vars
             PROVE  Marks'
  OBVIOUS
<1>0. /\ \A p \in Pollers : pol[p].at \in SlotId
      /\ \A x \in SlotId : slot[x].gen \in Nat /\ slot[x].nr \in Nat /\ slot[x].qe \in Nat
  BY PolFields DEF TypeOK, SlotRecord
<1>1. CASE /\ slot' = slot
           /\ \A r \in log' : r \in log \/ r.kind \notin {"NOT_READY", "QUERY_ERROR"}
           /\ \A p \in Pollers :
                 pol'[p] = pol[p] \/ pol'[p].pc \notin {"notready", "error"}
  <2>1. SameUses /\ \A x \in SlotId : InUse(x)' => InUse(x)
    BY <1>1 DEF SameUses, InUse
  <2>2. \A p \in Pollers :
           /\ pol'[p].pc = "notready" => slot[pol'[p].at].nr # pol'[p].gen
           /\ pol'[p].pc = "error" => slot[pol'[p].at].qe # pol'[p].gen
           /\ pol'[p].pc \in {"notready", "error"} => pol'[p].at \in SlotId
    BY <1>0, <1>1 DEF Marks
  <2> QED BY <1>1, <2>1, <2>2, MarksKept
<1>2. ASSUME NEW t \in Submitters, NEW s \in Streams,
             \/ SubmitCall(t, s) \/ ProbeMiss(t) \/ RecordOk(t)
             \/ PoolFull(t) \/ LogSubmitted(t)
      PROVE  Marks'
  <2>1. slot' = slot /\ pol' = pol
    BY <1>2, SubmitCallDoes, ProbeMissDoes, RecordOkDoes, PoolFullDoes, LogSubmittedDoes
  <2>2. \A r \in log' : r \in log \/ r.kind \notin {"NOT_READY", "QUERY_ERROR"}
    BY <1>2, SubmitCallDoes, ProbeMissDoes, RecordOkDoes, PoolFullDoes, LogSubmittedDoes
       DEF Rec
  <2> QED BY <1>1, <2>1, <2>2
<1>3. ASSUME NEW t \in Submitters, ProbeHit(t) PROVE Marks'
  <2>1. PICK y \in SlotId :
            /\ sub[t].pc = "probe" /\ slot[y].state = "FREE" /\ slot'[y].tok = sub[t].tok
            /\ slot'[y].gen = slot[y].gen + 1
            /\ slot'[y].nr = slot[y].nr /\ slot'[y].qe = slot[y].qe
            /\ OtherSlots(y) /\ UNCHANGED <<pol, log>>
    BY <1>3, ProbeHitDoes
  <2>2. \A kind : ~Logged(kind, y)'
    <3>1. \A r \in log : r.tok # sub[t].tok
      BY <2>1 DEF LogBounds
    <3> QED BY <2>1, <3>1 DEF Logged, UseKey, Key
  <2>3. \A kind, x : x \in SlotId /\ x # y => (Logged(kind, x)' <=> Logged(kind, x))
    BY <2>1 DEF Logged, UseKey, OtherSlots
  <2>4. \A p \in Pollers : pol[p].pc \in {"notready", "error"} => pol[p].at # y
    BY <1>0, <2>1 DEF ExclusiveSlot, PollOwns
  <2>5. \A x \in SlotId : x # y => slot'[x] = slot[x] /\ (InUse(x)' <=> InUse(x))
    BY <2>1 DEF OtherSlots, InUse
  <2>6. slot'[y].nr =< slot'[y].gen /\ slot'[y].qe =< slot'[y].gen
    BY <1>0, <2>1 DEF Marks
  <2>7. \A p \in Pollers :
           /\ pol'[p].pc = "notready" => slot'[pol'[p].at].nr # pol'[p].gen
           /\ pol'[p].pc = "error" => slot'[pol'[p].at].qe # pol'[p].gen
    BY <1>0, <2>1, <2>4, <2>5 DEF Marks
  <2>8. \A x \in SlotId :
          /\ InUse(x)' /\ Logged("NOT_READY", x)' => slot'[x].nr = slot'[x].gen
          /\ InUse(x)' /\ Logged("QUERY_ERROR", x)' => slot'[x].qe = slot'[x].gen
    BY <2>2, <2>3, <2>5 DEF Marks
  <2>9. \A x \in SlotId : slot'[x].nr =< slot'[x].gen /\ slot'[x].qe =< slot'[x].gen
    BY <2>5, <2>6 DEF Marks
  <2> QED BY <2>7, <2>8, <2>9 DEF Marks
<1>4. ASSUME NEW t \in Submitters, RecordFails(t) \/ Publish(t) PROVE Marks'
  <2>1. /\ SubSlot(t) \in SlotId /\ SubmitOwns(t, SubSlot(t))
        /\ OtherSlots(SubSlot(t)) /\ SameUses /\ UNCHANGED <<pol, log>>
    BY <1>4, SubFields, RecordFailsDoes, PublishDoes DEF SubmitOwns
  <2>2. \A x \in SlotId : InUse(x)' => InUse(x)
    BY <2>1 DEF OtherSlots, InUse, ExclusiveSlot
  <2> QED BY <1>0, <2>1, <2>2, MarksKept DEF Marks
<1>5. ASSUME NEW p \in Pollers, Claim(p) PROVE Marks'
  <2>1. PICK y \in SlotId : /\ pol'[p].pc = "query" /\ OtherPollers(p)
                            /\ slot[y].state = "PENDING"
                            /\ OtherSlots(y) /\ SameUses /\ log' = log
    BY <1>5, ClaimDoes
  <2>2. \A x \in SlotId : InUse(x)' => InUse(x)
    BY <2>1 DEF OtherSlots, InUse
  <2>3. \A q \in Pollers : pol'[q] = pol[q] \/ pol'[q].pc = "query"
    BY <2>1 DEF OtherPollers
  <2>4. \A q \in Pollers :
           /\ pol'[q].pc = "notready" => slot[pol'[q].at].nr # pol'[q].gen
           /\ pol'[q].pc = "error" => slot[pol'[q].at].qe # pol'[q].gen
           /\ pol'[q].pc \in {"notready", "error"} => pol'[q].at \in SlotId
    BY <1>0, <2>3 DEF Marks
  <2> QED BY <2>1, <2>2, <2>4, MarksKept
<1>6. ASSUME NEW p \in Pollers, QueryReady(p) \/ QueryNotReady(p) \/ QueryFails(p)
      PROVE  Marks'
  <2>1. /\ pol'[p].at = pol[p].at /\ pol'[p].gen = pol[p].gen /\ OtherPollers(p)
        /\ pol'[p].pc = "notready" => slot[pol[p].at].nr # pol[p].gen
        /\ pol'[p].pc = "error" => slot[pol[p].at].qe # pol[p].gen
        /\ UNCHANGED <<slot, log>>
    BY <1>6, QueryDoes
  <2>2. SameUses /\ \A x \in SlotId : InUse(x)' => InUse(x)
    BY <2>1 DEF SameUses, InUse
  <2>3. \A q \in Pollers :
           /\ pol'[q].pc = "notready" => slot[pol'[q].at].nr # pol'[q].gen
           /\ pol'[q].pc = "error" => slot[pol'[q].at].qe # pol'[q].gen
           /\ pol'[q].pc \in {"notready", "error"} => pol'[q].at \in SlotId
    BY <1>0, <2>1 DEF OtherPollers, Marks
  <2> QED BY <2>1, <2>2, <2>3, MarksKept
<1>7. ASSUME NEW p \in Pollers, Confirm(p) PROVE Marks'
  <2>1. /\ slot' = slot /\ pol'[p].pc = "release" /\ OtherPollers(p)
        /\ log' = log \cup {Rec("CONFIRMED", pol[p].at[1], slot[pol[p].at].tok, pol[p].gen)}
    BY <1>7, ConfirmDoes
  <2>2. \A r \in log' : r \in log \/ r.kind \notin {"NOT_READY", "QUERY_ERROR"}
    BY <2>1 DEF Rec
  <2>3. \A q \in Pollers : pol'[q] = pol[q] \/ pol'[q].pc \notin {"notready", "error"}
    BY <2>1 DEF OtherPollers
  <2> QED BY <1>1, <2>1, <2>2, <2>3
<1>8. ASSUME NEW p \in Pollers, Release(p) \/ Requeue(p) PROVE Marks'
  <2>1. /\ PollOwns(p, pol[p].at) /\ pol[p].at \in SlotId /\ pol'[p].pc = "scan"
        /\ OtherPollers(p) /\ OtherSlots(pol[p].at) /\ SameUses /\ log' = log
    BY <1>0, <1>8, ReleaseDoes DEF PollOwns
  <2>2. \A x \in SlotId : InUse(x)' => InUse(x)
    BY <2>1 DEF OtherSlots, InUse, ExclusiveSlot
  <2>3. \A q \in Pollers : pol'[q] = pol[q] \/ pol'[q].pc = "scan"
    BY <2>1 DEF OtherPollers
  <2>4. \A q \in Pollers :
           /\ pol'[q].pc = "notready" => slot[pol'[q].at].nr # pol'[q].gen
           /\ pol'[q].pc = "error" => slot[pol'[q].at].qe # pol'[q].gen
           /\ pol'[q].pc \in {"notready", "error"} => pol'[q].at \in SlotId
    BY <1>0, <2>3 DEF Marks
  <2> QED BY <2>1, <2>2, <2>4, MarksKept
<1>9. ASSUME NEW p \in Pollers, NEW kind, NEW c,
             \/ LogNotReady(p) /\ kind = "NOT_READY" /\ c = "notready"
             \/ LogQueryError(p) /\ kind = "QUERY_ERROR" /\ c = "error"
      PROVE  Marks'
  <2> DEFINE y == pol[p].at
             r0 == Rec(kind, pol[p].at[1], slot[pol[p].at].tok, pol[p].gen)
  <2>1. /\ pol[p].pc = c /\ pol'[p].pc = "requeue" /\ OtherPollers(p)
        /\ log' = log \cup {r0}
        /\ slot'[y].nr = IF c = "notready" THEN pol[p].gen ELSE slot[y].nr
        /\ slot'[y].qe = IF c = "error" THEN pol[p].gen ELSE slot[y].qe
        /\ OtherSlots(y)
        /\ \A x \in SlotId : /\ slot'[x].state = slot[x].state
                             /\ slot'[x].tok = slot[x].tok /\ slot'[x].gen = slot[x].gen
    BY <1>9, MarkDoes
  <2>2. y \in SlotId /\ PollOwns(p, y)
    BY <1>0, <1>9, <2>1 DEF PollOwns
  <2>3. /\ slot[y].state = "QUERYING" /\ slot[y].gen = pol[p].gen
        /\ \A q \in Pollers : PollOwns(q, y) => q = p
    BY <2>2 DEF ExclusiveSlot
  <2>4. r0.kind = kind /\ Key(r0) = <<y[1], slot[y].tok, pol[p].gen>>
    BY DEF Rec, Key
  <2>5. \A x \in SlotId : UseKey(x)' = UseKey(x) /\ (InUse(x)' <=> InUse(x))
    BY <2>1 DEF UseKey, InUse
  <2>6. \A x \in SlotId : InUse(x) /\ x # y => slot[x].tok # slot[y].tok
    BY <2>2, <2>3 DEF TokensOnce, InUse
  <2>7. \A k, x : x \in SlotId /\ InUse(x) /\ (x # y \/ k # kind) /\ Logged(k, x)' => Logged(k, x)
    <3> SUFFICES ASSUME NEW k, NEW x \in SlotId, InUse(x), x # y \/ k # kind, Logged(k, x)'
                 PROVE  Logged(k, x)
      OBVIOUS
    <3>1. PICK r \in log' : r.kind = k /\ Key(r) = UseKey(x)
      BY <2>5 DEF Logged
    <3>2. r # r0
      <4>1. CASE x # y
        BY <2>4, <2>6, <3>1, <4>1 DEF UseKey
      <4>2. CASE k # kind
        BY <2>4, <3>1, <4>2
      <4> QED BY <4>1, <4>2
    <3> QED BY <2>1, <3>1, <3>2 DEF Logged
  <2>8. \A x \in SlotId : slot'[x].nr =< slot'[x].gen /\ slot'[x].qe =< slot'[x].gen
    BY <1>0, <2>1, <2>2, <2>3 DEF OtherSlots, Marks
  <2>9. \A q \in Pollers : q # p /\ pol'[q].pc \in {"notready", "error"} =>
           pol'[q] = pol[q] /\ slot'[pol[q].at] = slot[pol[q].at]
    BY <1>0, <2>1, <2>3 DEF OtherPollers, OtherSlots, PollOwns
  <2>10. \A q \in Pollers :
           /\ pol'[q].pc = "notready" => slot'[pol'[q].at].nr # pol'[q].gen
           /\ pol'[q].pc = "error" => slot'[pol'[q].at].qe # pol'[q].gen
    BY <2>1, <2>9 DEF Marks
  <2>11. \A x \in SlotId :
          /\ InUse(x)' /\ Logged("NOT_READY", x)' => slot'[x].nr = slot'[x].gen
          /\ InUse(x)' /\ Logged("QUERY_ERROR", x)' => slot'[x].qe = slot'[x].gen
    <3> SUFFICES ASSUME NEW x \in SlotId, InUse(x)'
                 PROVE  /\ Logged("NOT_READY", x)' => slot'[x].nr = slot'[x].gen
                        /\ Logged("QUERY_ERROR", x)' => slot'[x].qe = slot'[x].gen
      OBVIOUS
    <3>1. InUse(x)
      BY <2>5
    <3>2. CASE x # y
      <4>1. slot'[x] = slot[x]
        BY <2>1, <3>2 DEF OtherSlots
      <4> QED BY <2>7, <3>1, <3>2, <4>1 DEF Marks
    <3>3. CASE x = y /\ kind = "NOT_READY"
      <4>1. slot'[y].nr = slot'[y].gen /\ slot'[y].qe = slot[y].qe
        BY <1>9, <2>1, <2>2, <2>3, <3>3
      <4>2. Logged("QUERY_ERROR", x)' => Logged("QUERY_ERROR", x)
        BY <2>7, <3>1, <3>3
      <4> QED BY <2>1, <3>1, <3>3, <4>1, <4>2 DEF Marks
    <3>4. CASE x = y /\ kind = "QUERY_ERROR"
      <4>1. slot'[y].qe = slot'[y].gen /\ slot'[y].nr = slot[y].nr
        BY <1>9, <2>1, <2>2, <2>3, <3>4
      <4>2. Logged("NOT_READY", x)' => Logged("NOT_READY", x)
        BY <2>7, <3>1, <3>4
      <4> QED BY <2>1, <3>1, <3>4, <4>1, <4>2 DEF Marks
    <3> QED BY <1>9, <3>2, <3>3, <3>4
  <2> HIDE DEF y, r0
  <2> QED BY <2>8, <2>10, <2>11 DEF Marks
<1>10. ASSUME NEW t \in Submitters, SubmitStep(t) PROVE Marks'
  <2>1. 0 \in Streams
    BY Sizes
  <2> QED BY <1>2, <1>3, <1>4, <1>10, <2>1 DEF SubmitStep
<1>11. ASSUME NEW p \in Pollers, PollStep(p), ~Skip(p), ~PollEnd(p) PROVE Marks'
  <2>1. CASE LogNotReady(p)
    BY <1>9, <2>1
  <2>2. CASE LogQueryError(p)
    BY <1>9, <2>2
  <2> QED BY <1>5, <1>6, <1>7, <1>8, <1>11, <2>1, <2>2 DEF PollStep
<1>12. ASSUME /\ UNCHANGED <<slot, sub, log>>
              /\ \A p \in Pollers :
                    \/ pol'[p] = pol[p]
                    \/ pol[p].pc \in {"idle", "scan"} /\ pol'[p].pc \in {"idle", "scan"}
       PROVE  Marks'
  BY <1>1, <1>12
<1> QED BY <1>2, <1>10, <1>11, <1>12, RestDoes DEF Next

-----------------------------------------------------------------------------
(* Confirmations.                                                          *)

\* A step that confirms nothing and puts nothing on the device.
LEMMA FactsKept ==
  ASSUME Facts, device' \subseteq device, log \subseteq log',
         \A r \in log' : r.kind = "CONFIRMED" => r \in log
  PROVE  Facts'
BY DEF Facts, TokenOnDevice

LEMMA FactsNext ==
  /\ TypeOK /\ ExclusiveSlot /\ PendingEvents /\ TokensOnce /\ LogBounds /\ UseRecords
  /\ Facts /\ [Next]_vars
  => Facts'
<1> SUFFICES ASSUME TypeOK, ExclusiveSlot, PendingEvents, TokensOnce, LogBounds,
                    UseRecords, Facts, [Next]_vars
             PROVE  Facts'
  OBVIOUS
<1>1. ASSUME device' \subseteq device,
             \/ log' = log
             \/ \E kind \in Kinds \ {"CONFIRMED"} : \E s, k, g :
                   log' = log \cup {Rec(kind, s, k, g)}
      PROVE  Facts'
  <2>1. log \subseteq log' /\ \A r \in log' : r.kind = "CONFIRMED" => r \in log
    BY <1>1 DEF Rec
  <2> QED BY <1>1, <2>1, FactsKept
<1>2. ASSUME NEW t \in Submitters, NEW s \in Streams,
             \/ SubmitCall(t, s) \/ ProbeMiss(t) \/ ProbeHit(t) \/ PoolFull(t)
             \/ RecordFails(t) \/ LogSubmitted(t) \/ Publish(t)
      PROVE  Facts'
  <2>1. CASE PoolFull(t)
    BY <1>1, <2>1, PoolFullDoes DEF Kinds
  <2>2. CASE LogSubmitted(t)
    BY <1>1, <2>2, LogSubmittedDoes DEF Kinds
  <2>3. CASE \/ SubmitCall(t, s) \/ ProbeMiss(t) \/ ProbeHit(t)
             \/ RecordFails(t) \/ Publish(t)
    BY <1>1, <2>3, SubmitCallDoes, ProbeMissDoes, ProbeHitDoes, RecordFailsDoes, PublishDoes
  <2> QED BY <1>2, <2>1, <2>2, <2>3
<1>3. ASSUME NEW t \in Submitters, RecordOk(t) PROVE Facts'
  <2>1. /\ sub[t].pc = "reserved" /\ log' = log
        /\ device' = device \cup {[stream |-> sub[t].stream, idx |-> sub[t].idx,
                                   tok |-> sub[t].tok, pos |-> npos + 1]}
    BY <1>3, RecordOkDoes
  <2>2. \A r \in log : r.tok # sub[t].tok
    BY <2>1 DEF LogBounds
  <2> QED BY <2>1, <2>2 DEF Facts, TokenOnDevice
<1>4. ASSUME NEW p \in Pollers, Confirm(p) PROVE Facts'
  <2> DEFINE y == pol[p].at
             r0 == Rec("CONFIRMED", pol[p].at[1], slot[pol[p].at].tok, pol[p].gen)
  <2>1. pol[p].pc = "confirm" /\ device' = device /\ log' = log \cup {r0}
    BY <1>4, ConfirmDoes
  <2>2. y \in SlotId /\ PollOwns(p, y)
    BY <2>1, PolFields DEF PollOwns
  <2>3. slot[y].state = "QUERYING" /\ slot[y].gen = pol[p].gen /\ InUse(y)
    BY <2>2 DEF ExclusiveSlot, InUse
  <2>4. /\ r0.gen = slot[y].gen /\ r0.tok = slot[y].tok /\ r0.seq = nrec + 1
        /\ Key(r0) = UseKey(y)
    BY <2>3 DEF Rec, Key, UseKey
  <2>5. r0.gen # 0
    BY <2>2, <2>3, <2>4 DEF TokensOnce
  <2>6. ~TokenOnDevice(r0.tok)
    <3> SUFFICES ASSUME NEW e \in device, e.tok = r0.tok PROVE FALSE
      BY DEF TokenOnDevice
    <3>1. Home(e) \in SlotId /\ InUse(Home(e)) /\ slot[Home(e)].tok = slot[y].tok
      BY <2>4, HomeType DEF PendingEvents, InUse
    <3>2. Home(e) = y
      BY <2>2, <2>3, <3>1 DEF TokensOnce
    <3> QED BY <2>1, <3>2 DEF PendingEvents
  <2>7. PICK q \in log : q.kind = "SUBMITTED" /\ Key(q) = UseKey(y)
    BY <2>2, <2>3 DEF UseRecords, Logged
  <2>8. q.seq < r0.seq
    BY <2>4 DEF LogBounds, TypeOK, LogRecord
  <2>9. \A k : (\E e \in device' : e.tok = k) <=> TokenOnDevice(k)
    BY <2>1 DEF TokenOnDevice
  <2>10. \A r \in log' : r.kind = "CONFIRMED" =>
            /\ r.gen # 0 /\ ~TokenOnDevice(r.tok)
            /\ \E z \in log' : z.kind = "SUBMITTED" /\ Key(z) = Key(r) /\ z.seq < r.seq
    BY <2>1, <2>4, <2>5, <2>6, <2>7, <2>8 DEF Facts
  <2> HIDE DEF y, r0
  <2> QED BY <2>9, <2>10 DEF Facts, TokenOnDevice
<1>5. ASSUME NEW p \in Pollers,
             \/ Claim(p) \/ QueryReady(p) \/ QueryNotReady(p) \/ QueryFails(p)
             \/ Release(p) \/ Requeue(p)
      PROVE  Facts'
  BY <1>1, <1>5, ClaimDoes, QueryDoes, ReleaseDoes
<1>6. ASSUME NEW p \in Pollers, LogNotReady(p) \/ LogQueryError(p) PROVE Facts'
  BY <1>1, <1>6, MarkDoes DEF Kinds
<1>7. ASSUME device' \subseteq device, log' = log PROVE Facts'
  BY <1>1, <1>7
<1>8. ASSUME NEW t \in Submitters, SubmitStep(t) PROVE Facts'
  <2>1. 0 \in Streams
    BY Sizes
  <2> QED BY <1>2, <1>3, <1>8, <2>1 DEF SubmitStep
<1> QED BY <1>2, <1>4, <1>5, <1>6, <1>7, <1>8, RestDoes DEF Next, PollStep

-----------------------------------------------------------------------------
(* Each status once.                                                       *)

\* The parts of StatusOncePerUse: about the records, and about the marks.
OnceInLog ==
    \A r, q \in log :
       /\ r.kind = q.kind /\ Key(r) = Key(q) /\ r.kind # "POOL_FULL" => r = q
       /\ r.kind = "CONFIRMED" /\ Key(r) = Key(q) => q.seq =< r.seq
MarkLogged ==
    \A x \in SlotId :
       slot[x].gen # 0 /\ slot[x].nr = slot[x].gen => Logged("NOT_READY", x)

LEMMA StatusParts == StatusOncePerUse <=> OnceInLog /\ MarkLogged
BY DEF StatusOncePerUse, OnceInLog, MarkLogged, Logged, UseKey

\* A new record of a use that is not confirmed and does not have that status.
LEMMA OnceAdded ==
  ASSUME TypeOK, LogBounds, OnceInLog, NEW kind, NEW s, NEW k, NEW g,
         log' = log \cup {Rec(kind, s, k, g)},
         \A r \in log : r.kind \in {kind, "CONFIRMED"} \ {"POOL_FULL"} => Key(r) # <<s, k, g>>
  PROVE  OnceInLog'
<1> DEFINE r0 == Rec(kind, s, k, g)
<1>1. r0.seq = nrec + 1 /\ r0.kind = kind /\ Key(r0) = <<s, k, g>>
  BY DEF Rec, Key
<1>2. (\A r \in log : r.seq =< r0.seq) /\ r0.seq =< r0.seq
  BY <1>1 DEF LogBounds, TypeOK, LogRecord
<1>3. log' = log \cup {r0}
  OBVIOUS
<1> HIDE DEF r0
<1> QED BY <1>1, <1>2, <1>3 DEF OnceInLog

\* A step after which every slot is in the same use with the same marks.
LEMMA MarkLoggedKept ==
  ASSUME MarkLogged, SameUses, log \subseteq log'
  PROVE  MarkLogged'
BY DEF MarkLogged, SameUses, Logged, UseKey

LEMMA StatusNext ==
  /\ TypeOK /\ ExclusiveSlot /\ TokensOnce /\ LogBounds /\ UseRecords /\ Marks
  /\ StatusOncePerUse /\ [Next]_vars
  => StatusOncePerUse'
<1> SUFFICES ASSUME TypeOK, ExclusiveSlot, TokensOnce, LogBounds, UseRecords, Marks,
                    OnceInLog, MarkLogged, [Next]_vars
             PROVE  OnceInLog' /\ MarkLogged'
  BY StatusParts, PTL
<1>1. ASSUME log' = log, SameUses PROVE OnceInLog' /\ MarkLogged'
  BY <1>1, MarkLoggedKept DEF OnceInLog
<1>2. ASSUME NEW t \in Submitters, NEW s \in Streams,
             \/ SubmitCall(t, s) \/ ProbeMiss(t) \/ RecordOk(t)
             \/ RecordFails(t) \/ Publish(t)
      PROVE  OnceInLog' /\ MarkLogged'
  <2>1. log' = log /\ SameUses
    BY <1>2, SubmitCallDoes, ProbeMissDoes, RecordOkDoes, RecordFailsDoes, PublishDoes
       DEF SameUses
  <2> QED BY <1>1, <2>1
<1>3. ASSUME NEW t \in Submitters, ProbeHit(t) PROVE OnceInLog' /\ MarkLogged'
  <2>1. PICK y \in SlotId :
            /\ slot'[y].gen = slot[y].gen + 1 /\ slot'[y].nr = slot[y].nr
            /\ OtherSlots(y) /\ log' = log
    BY <1>3, ProbeHitDoes
  <2>2. slot'[y].nr # slot'[y].gen
    BY <2>1 DEF Marks, TypeOK, SlotRecord
  <2>3. \A kind, x : x \in SlotId /\ x # y => (Logged(kind, x)' <=> Logged(kind, x))
    BY <2>1 DEF Logged, UseKey, OtherSlots
  <2>4. MarkLogged'
    BY <2>1, <2>2, <2>3 DEF MarkLogged, OtherSlots
  <2> QED BY <2>1, <2>4 DEF OnceInLog
<1>4. ASSUME NEW t \in Submitters, PoolFull(t) \/ LogSubmitted(t)
      PROVE  OnceInLog' /\ MarkLogged'
  <2>1. /\ sub[t].pc \notin {"idle", "logged"} /\ slot' = slot
        /\ \E kind, g : log' = log \cup {Rec(kind, sub[t].stream, sub[t].tok, g)}
    BY <1>4, PoolFullDoes, LogSubmittedDoes
  <2>2. \A r \in log : r.tok # sub[t].tok
    BY <2>1 DEF LogBounds
  <2>3. \A r \in log : \A s, g : Key(r) # <<s, sub[t].tok, g>>
    BY <2>2 DEF Key
  <2>4. SameUses /\ log \subseteq log'
    BY <2>1 DEF SameUses
  <2> QED BY <2>1, <2>3, <2>4, OnceAdded, MarkLoggedKept
\* A poll's record: the slot it holds is not confirmed before its release.
<1>5. ASSUME NEW p \in Pollers, PollOwns(p, pol[p].at), pol[p].pc # "release"
      PROVE  /\ pol[p].at \in SlotId
             /\ UseKey(pol[p].at) = <<pol[p].at[1], slot[pol[p].at].tok, pol[p].gen>>
             /\ InUse(pol[p].at)
             /\ \A r \in log : r.kind = "CONFIRMED" => Key(r) # UseKey(pol[p].at)
  <2>1. pol[p].at \in SlotId
    BY PolFields
  <2>2. /\ slot[pol[p].at].state = "QUERYING" /\ slot[pol[p].at].gen = pol[p].gen
        /\ \A q \in Pollers : PollOwns(q, pol[p].at) => q = p
    BY <1>5, <2>1 DEF ExclusiveSlot
  <2>3. \A q \in Pollers : pol[q].pc = "release" => pol[q].at # pol[p].at
    BY <1>5, <2>2 DEF PollOwns
  <2>4. \A r \in log : r.kind = "CONFIRMED" => r.tok # slot[pol[p].at].tok
    BY <2>1, <2>2, <2>3 DEF UseRecords, InUse
  <2> QED BY <2>1, <2>2, <2>4 DEF UseKey, Key, InUse
<1>6. ASSUME NEW p \in Pollers, Confirm(p) PROVE OnceInLog' /\ MarkLogged'
  <2>1. PollOwns(p, pol[p].at) /\ pol[p].pc # "release"
    BY <1>6 DEF Confirm, PollOwns
  <2>2. /\ slot' = slot
        /\ log' = log \cup {Rec("CONFIRMED", pol[p].at[1], slot[pol[p].at].tok, pol[p].gen)}
    BY <1>6, ConfirmDoes
  <2>3. SameUses /\ log \subseteq log'
    BY <2>2 DEF SameUses
  <2> QED BY <1>5, <2>1, <2>2, <2>3, OnceAdded, MarkLoggedKept
<1>7. ASSUME NEW p \in Pollers, NEW kind, NEW c,
             \/ LogNotReady(p) /\ kind = "NOT_READY" /\ c = "notready"
             \/ LogQueryError(p) /\ kind = "QUERY_ERROR" /\ c = "error"
      PROVE  OnceInLog' /\ MarkLogged'
  <2> DEFINE y == pol[p].at
             r0 == Rec(kind, pol[p].at[1], slot[pol[p].at].tok, pol[p].gen)
  <2>1. /\ pol[p].pc = c /\ log' = log \cup {r0}
        /\ slot'[y].nr = IF c = "notready" THEN pol[p].gen ELSE slot[y].nr
        /\ OtherSlots(y)
        /\ \A x \in SlotId : /\ slot'[x].state = slot[x].state
                             /\ slot'[x].tok = slot[x].tok /\ slot'[x].gen = slot[x].gen
    BY <1>7, MarkDoes
  <2>2. PollOwns(p, y) /\ pol[p].pc # "release"
    BY <1>7, <2>1 DEF PollOwns
  <2>3. y \in SlotId /\ InUse(y) /\ UseKey(y) = <<y[1], slot[y].tok, pol[p].gen>>
    BY <1>5, <2>2
  <2>4. \A r \in log : r.kind = "CONFIRMED" => Key(r) # UseKey(y)
    BY <1>5, <2>2
  <2>5. slot[y].gen = pol[p].gen
    BY <2>2, <2>3 DEF ExclusiveSlot
  <2>6. \A r \in log : r.kind = kind => Key(r) # UseKey(y)
    BY <1>7, <2>1, <2>3, <2>5 DEF Marks, Logged
  <2>7. OnceInLog'
    BY <2>1, <2>3, <2>4, <2>6, OnceAdded
  <2>8. \A x \in SlotId : UseKey(x)' = UseKey(x)
    BY <2>1 DEF UseKey
  <2>9. \A k, x : x \in SlotId /\ Logged(k, x) => Logged(k, x)'
    BY <2>1, <2>8 DEF Logged
  <2>10. \A x \in SlotId : x # y => slot'[x] = slot[x]
    BY <2>1 DEF OtherSlots
  <2>11. r0.kind = kind /\ Key(r0) = UseKey(y) /\ r0 \in log'
    BY <2>1, <2>3 DEF Rec, Key
  <2>12. \A x \in SlotId : x = y => Logged(kind, x)'
    BY <2>8, <2>11 DEF Logged
  <2>13. \A x \in SlotId :
           slot'[x].gen # 0 /\ slot'[x].nr = slot'[x].gen => Logged("NOT_READY", x)'
    BY <1>7, <2>1, <2>9, <2>10, <2>12 DEF MarkLogged
  <2> HIDE DEF y, r0
  <2> QED BY <2>7, <2>13 DEF MarkLogged
<1>8. ASSUME NEW p \in Pollers,
             \/ Claim(p) \/ QueryReady(p) \/ QueryNotReady(p) \/ QueryFails(p)
             \/ Release(p) \/ Requeue(p)
      PROVE  OnceInLog' /\ MarkLogged'
  <2>1. log' = log /\ SameUses
    BY <1>8, ClaimDoes, QueryDoes, ReleaseDoes DEF SameUses
  <2> QED BY <1>1, <2>1
<1>9. ASSUME UNCHANGED <<slot, sub, log, nrec, ncalls>>
      PROVE  OnceInLog' /\ MarkLogged'
  <2>1. SameUses
    BY <1>9 DEF SameUses
  <2> QED BY <1>1, <1>9, <2>1
<1>10. ASSUME NEW t \in Submitters, SubmitStep(t) PROVE OnceInLog' /\ MarkLogged'
  <2>1. 0 \in Streams
    BY Sizes
  <2> QED BY <1>2, <1>3, <1>4, <1>10, <2>1 DEF SubmitStep
<1>11. ASSUME NEW p \in Pollers, LogNotReady(p) \/ LogQueryError(p)
       PROVE  OnceInLog' /\ MarkLogged'
  <2>1. CASE LogNotReady(p)
    BY <1>7, <2>1
  <2>2. CASE LogQueryError(p)
    BY <1>7, <2>2
  <2> QED BY <1>11, <2>1, <2>2
<1>12. ASSUME NEW p \in Pollers, PollStep(p), ~Skip(p), ~PollEnd(p)
       PROVE  OnceInLog' /\ MarkLogged'
  BY <1>6, <1>8, <1>11, <1>12 DEF PollStep
<1> QED BY <1>2, <1>9, <1>10, <1>12, RestDoes DEF Next

-----------------------------------------------------------------------------
LEMMA FactInductive ==
  Spec => [](TypeOK /\ ExclusiveSlot /\ ManagerInv /\ FactInv)
<1> DEFINE IInv == TypeOK /\ ExclusiveSlot /\ ManagerInv /\ FactInv
<1>1. Init => IInv
  BY TypeInit, ExclusiveInit, LocksInit, EventsInit, FactInit DEF ManagerInv, FactInv
<1>2. IInv /\ [Next]_vars => IInv'
  <2>1. ASSUME IInv, [Next]_vars PROVE TypeOK' /\ ExclusiveSlot' /\ ManagerInv'
    BY <2>1, TypeNext, ExclusiveNext, LocksNext, QuietNext, PendingNext DEF ManagerInv
  <2>2. ASSUME IInv, [Next]_vars PROVE TokensOnce' /\ LogBounds' /\ UseRecords' /\ Marks'
    BY <2>2, TokensNext, BoundsNext, RecordsNext, MarksNext DEF FactInv
  <2>3. ASSUME IInv, [Next]_vars PROVE Facts' /\ StatusOncePerUse'
    BY <2>3, FactsNext, StatusNext DEF ManagerInv, FactInv
  <2> QED BY <2>1, <2>2, <2>3 DEF FactInv
<1> QED BY <1>1, <1>2, PTL DEF Spec

\* What the log calls confirmed the device has passed, whatever the sizes: the record
\* is written after the answer of the query and before the release of the slot.
THEOREM ConfirmedIsFact == Spec => []ConfirmationIsFact
<1>1. FactInv => ConfirmationIsFact
  BY DEF FactInv, Facts, ConfirmationIsFact, ConfirmedIn, SubmittedIn, Stale
<1> QED BY <1>1, FactInductive, PTL

\* One use of a slot has each status once, and none after its confirmation, whatever
\* the sizes (the two reported_generation fields and the order of poll).
THEOREM StatusOnce == Spec => []StatusOncePerUse
<1>1. FactInv => StatusOncePerUse
  BY DEF FactInv
<1> QED BY <1>1, FactInductive, PTL

-----------------------------------------------------------------------------
(* An accepted checkpoint keeps its slot until it is reported; what is on  *)
(* the device has been recorded.                                           *)

ReportedRec(r) == \E q \in ConfirmedIn(log) : q.stream = r.stream /\ q.tok = r.tok

\* A checkpoint that is accepted and not reported has a slot of its stream.
AcceptedHasSlot ==
    \A r \in SubmittedIn(log) :
       \/ ReportedRec(r)
       \/ \E x \in SlotId : x[1] = r.stream /\ InUse(x) /\ slot[x].tok = r.tok

\* The call that put an event on the device has logged it or is about to.
EventRecorded ==
    \A e \in device :
       \/ \E r \in SubmittedIn(log) : r.stream = e.stream /\ r.tok = e.tok
       \/ \E t \in Submitters : /\ sub[t].pc = "recorded"
                                /\ sub[t].stream = e.stream /\ sub[t].tok = e.tok

-----------------------------------------------------------------------------
(* The order of a stream, where one thread submits to it.                  *)

OneFeeder == \A t, u \in Submitters : Feeds[t] \cap Feeds[u] # {} => t = u

FeedsOwn == \A t \in Submitters : sub[t].pc # "idle" => sub[t].stream \in Feeds[t]

Positions ==
    /\ \A e \in device : e.pos =< npos
    /\ \A e, f \in device : e.pos = f.pos => e = f
    /\ \A r, q \in SubmittedIn(log) : r.seq = q.seq => r = q
    /\ \A e \in device, r \in SubmittedIn(log) : r.tok = e.tok => r.stream = e.stream

\* The call that has recorded its event and not yet logged it is the last of its
\* stream, on the device too.
NewestLast ==
    \A t \in Submitters : sub[t].pc = "recorded" =>
       \A e \in device : e.stream = sub[t].stream =>
          \E f \in device : f.tok = sub[t].tok /\ f.stream = e.stream /\ e.pos =< f.pos

\* The log's order of a stream's submits is the device's: a later submit is on the
\* device, further back, as long as an earlier one is.
LogIsOrder ==
    \A r, q \in SubmittedIn(log), e \in device :
       r.stream = q.stream /\ r.seq =< q.seq /\ e.tok = r.tok =>
          \E f \in device : f.tok = q.tok /\ e.pos =< f.pos

\* The slots seen free at the call are still free, and none was probed.
OpenSlots ==
    \A t \in Submitters : sub[t].pc = "probe" =>
       \A i \in sub[t].open :
          /\ slot[<<sub[t].stream, i>>].state = "FREE"
          /\ \A m \in 0..(sub[t].n - 1) : ProbeIndex(sub[t].start, m) # i

-----------------------------------------------------------------------------
(* The six steps that matter here, and what the others leave alone.        *)

Silent ==
    /\ SubmittedIn(log') = SubmittedIn(log) /\ ConfirmedIn(log') = ConfirmedIn(log)
    /\ \A x \in SlotId : InUse(x) => InUse(x)' /\ slot'[x].tok = slot[x].tok
    /\ \A t \in Submitters : "recorded" \in {sub[t].pc, sub'[t].pc} => sub'[t] = sub[t]
    /\ device' = device /\ npos' = npos

LEMMA OtherRecord ==
  ASSUME NEW kind, NEW s, NEW k, NEW g, log' = log \cup {Rec(kind, s, k, g)},
         kind \notin {"SUBMITTED", "CONFIRMED"}
  PROVE  SubmittedIn(log') = SubmittedIn(log) /\ ConfirmedIn(log') = ConfirmedIn(log)
BY DEF Rec, SubmittedIn, ConfirmedIn

\* Only backend.record adds to the device.
LEMMA DeviceKept ==
  ASSUME [Next]_vars, \A t \in Submitters : ~RecordOk(t)
  PROVE  npos' = npos /\ (device' = device \/ \E e \in device : DeviceComplete(e))
<1>1. ASSUME NEW t \in Submitters, SubmitStep(t) PROVE npos' = npos /\ device' = device
  BY <1>1 DEF SubmitStep, ProbeMiss, ProbeHit, PoolFull, RecordFails, LogSubmitted, Publish
<1>2. ASSUME NEW p \in Pollers, PollStep(p) PROVE npos' = npos /\ device' = device
  BY <1>2 DEF PollStep, Skip, Claim, QueryReady, QueryNotReady, QueryFails, Confirm,
              Release, LogNotReady, LogQueryError, Requeue, PollEnd
<1>3. ASSUME NEW t \in Submitters, NEW s \in Streams, SubmitCall(t, s)
      PROVE  npos' = npos /\ device' = device
  BY <1>3 DEF SubmitCall
<1>4. ASSUME NEW p \in Pollers, PollBegin(p) PROVE npos' = npos /\ device' = device
  BY <1>4 DEF PollBegin
<1>5. CASE \/ CreateEvent \/ RegisterStream \/ CreateEventFails \/ PollRefused
           \/ LoopAgain \/ LoopExit \/ StartPoller \/ StartPollerFails \/ StopPoller
           \/ Join \/ Destroy \/ UNCHANGED vars
  BY <1>5 DEF CreateEvent, RegisterStream, CreateEventFails, PollRefused,
       LoopAgain, LoopExit, StartPoller, StartPollerFails, StopPoller, Join, Destroy, vars
<1>6. ASSUME NEW e \in device, DeviceComplete(e) PROVE npos' = npos
  BY <1>6 DEF DeviceComplete
<1> QED BY <1>1, <1>2, <1>3, <1>4, <1>5, <1>6 DEF Next

LEMMA SilentSteps ==
  ASSUME TypeOK, ExclusiveSlot, [Next]_vars
  PROVE  \/ Silent
         \/ \E t \in Submitters : RecordOk(t) \/ RecordFails(t) \/ LogSubmitted(t)
         \/ \E p \in Pollers : Confirm(p) \/ Release(p)
         \/ \E e \in device : DeviceComplete(e)
<1> SUFFICES ASSUME \A t \in Submitters : ~RecordOk(t) /\ ~RecordFails(t) /\ ~LogSubmitted(t),
                    \A p \in Pollers : ~Confirm(p) /\ ~Release(p),
                    \A e \in device : ~DeviceComplete(e)
             PROVE  Silent
  OBVIOUS
<1>0. device' = device /\ npos' = npos
  BY DeviceKept
<1>1. ASSUME \/ log' = log
             \/ \E kind \in {"POOL_FULL", "NOT_READY", "QUERY_ERROR"} : \E s, k, g :
                   log' = log \cup {Rec(kind, s, k, g)},
             \A x \in SlotId : InUse(x) => InUse(x)' /\ slot'[x].tok = slot[x].tok,
             \A t \in Submitters : "recorded" \in {sub[t].pc, sub'[t].pc} => sub'[t] = sub[t]
      PROVE  Silent
  <2>1. SubmittedIn(log') = SubmittedIn(log) /\ ConfirmedIn(log') = ConfirmedIn(log)
    BY <1>1, OtherRecord
  <2> QED BY <1>0, <1>1, <2>1 DEF Silent
<1>2. ASSUME NEW t \in Submitters, NEW s \in Streams,
             SubmitCall(t, s) \/ ProbeMiss(t) \/ PoolFull(t)
      PROVE  Silent
  <2>1. \/ log' = log
        \/ \E kind \in {"POOL_FULL", "NOT_READY", "QUERY_ERROR"} : \E i, k, g :
                   log' = log \cup {Rec(kind, i, k, g)}
    BY <1>2, SubmitCallDoes, ProbeMissDoes, PoolFullDoes
  <2>2. slot' = slot
    BY <1>2, SubmitCallDoes, ProbeMissDoes, PoolFullDoes
  <2>3. \A u \in Submitters : "recorded" \in {sub[u].pc, sub'[u].pc} => sub'[u] = sub[u]
    BY <1>2, SubmitCallDoes, ProbeMissDoes, PoolFullDoes DEF Others
  <2> QED BY <1>1, <2>1, <2>2, <2>3 DEF InUse
<1>3. ASSUME NEW t \in Submitters, ProbeHit(t) PROVE Silent
  <2>1. PICK y \in SlotId :
            /\ sub[t].pc = "probe" /\ sub'[t].pc = "reserved" /\ slot[y].state = "FREE"
            /\ OtherSlots(y) /\ Others(t) /\ log' = log
    BY <1>3, ProbeHitDoes
  <2> QED BY <1>1, <2>1 DEF InUse, Others, OtherSlots
<1>4. ASSUME NEW t \in Submitters, Publish(t) PROVE Silent
  <2>1. /\ sub[t].pc = "logged" /\ sub'[t].pc = "idle" /\ Others(t)
        /\ slot'[SubSlot(t)].state = "PENDING" /\ OtherSlots(SubSlot(t)) /\ SameUses
        /\ log' = log
    BY <1>4, PublishDoes
  <2> QED BY <1>1, <2>1 DEF InUse, Others, OtherSlots, SameUses
<1>5. ASSUME NEW p \in Pollers, Claim(p) PROVE Silent
  <2>1. PICK y \in SlotId : /\ slot'[y].state = "QUERYING" /\ OtherSlots(y) /\ SameUses
                            /\ UNCHANGED <<sub, log>>
    BY <1>5, ClaimDoes
  <2> QED BY <1>1, <2>1 DEF InUse, OtherSlots, SameUses
<1>6. ASSUME NEW p \in Pollers, Requeue(p) PROVE Silent
  <2>1. /\ slot'[pol[p].at].state = "PENDING" /\ OtherSlots(pol[p].at) /\ SameUses
        /\ UNCHANGED <<sub, log>>
    BY <1>6, ReleaseDoes
  <2> QED BY <1>1, <2>1 DEF InUse, OtherSlots, SameUses
<1>7. ASSUME NEW p \in Pollers, LogNotReady(p) \/ LogQueryError(p) PROVE Silent
  <2>1. \E kind \in {"POOL_FULL", "NOT_READY", "QUERY_ERROR"} : \E i, k, g :
           log' = log \cup {Rec(kind, i, k, g)}
    BY <1>7, MarkDoes
  <2>2. /\ \A x \in SlotId : slot'[x].state = slot[x].state /\ slot'[x].tok = slot[x].tok
        /\ sub' = sub
    BY <1>7, MarkDoes
  <2> QED BY <1>1, <2>1, <2>2 DEF InUse
<1>8. ASSUME UNCHANGED <<slot, sub, log>> PROVE Silent
  BY <1>1, <1>8 DEF InUse
<1>9. ASSUME NEW p \in Pollers, QueryReady(p) \/ QueryNotReady(p) \/ QueryFails(p)
      PROVE  Silent
  BY <1>8, <1>9, QueryDoes
<1>10. ASSUME NEW t \in Submitters, SubmitStep(t) PROVE Silent
  <2>1. 0 \in Streams
    BY Sizes
  <2> QED BY <1>2, <1>3, <1>4, <1>10, <2>1 DEF SubmitStep
<1>11. ASSUME NEW p \in Pollers, PollStep(p), ~Skip(p), ~PollEnd(p) PROVE Silent
  BY <1>5, <1>6, <1>7, <1>9, <1>11 DEF PollStep
<1>12. ASSUME UNCHANGED <<slot, sub, log, nrec, ncalls>> PROVE Silent
  BY <1>8, <1>12
<1> QED BY <1>2, <1>10, <1>11, <1>12, RestDoes DEF Next

\* What the steps that write the two records do to the log.
LEMMA SubmittedAdds ==
  ASSUME TypeOK, ExclusiveSlot, NEW t \in Submitters, LogSubmitted(t)
  PROVE  LET r0 == Rec("SUBMITTED", sub[t].stream, sub[t].tok, slot[SubSlot(t)].gen) IN
         /\ SubmittedIn(log') = SubmittedIn(log) \cup {r0}
         /\ ConfirmedIn(log') = ConfirmedIn(log)
         /\ SubSlot(t) \in SlotId /\ SubSlot(t)[1] = sub[t].stream
         /\ InUse(SubSlot(t)) /\ slot[SubSlot(t)].tok = sub[t].tok
<1>1. /\ sub[t].pc = "recorded"
      /\ log' = log \cup {Rec("SUBMITTED", sub[t].stream, sub[t].tok, slot[SubSlot(t)].gen)}
  BY LogSubmittedDoes
<1>2. /\ SubSlot(t) \in SlotId /\ SubSlot(t)[1] = sub[t].stream /\ SubmitOwns(t, SubSlot(t))
  BY <1>1, SubFields DEF SubSlot, SubmitOwns
<1>3. InUse(SubSlot(t)) /\ slot[SubSlot(t)].tok = sub[t].tok
  BY <1>2 DEF ExclusiveSlot, InUse
<1> QED BY <1>1, <1>2, <1>3 DEF SubmittedIn, ConfirmedIn, Rec

LEMMA ConfirmedAdds ==
  ASSUME TypeOK, ExclusiveSlot, TokensOnce, NEW p \in Pollers, Confirm(p)
  PROVE  LET r0 == Rec("CONFIRMED", pol[p].at[1], slot[pol[p].at].tok, pol[p].gen) IN
         /\ SubmittedIn(log') = SubmittedIn(log)
         /\ ConfirmedIn(log') = ConfirmedIn(log) \cup {r0}
         /\ pol[p].at \in SlotId /\ slot[pol[p].at].state = "QUERYING"
         /\ slot[pol[p].at].gen = pol[p].gen
<1>1. /\ pol[p].pc = "confirm"
      /\ log' = log \cup {Rec("CONFIRMED", pol[p].at[1], slot[pol[p].at].tok, pol[p].gen)}
  BY ConfirmDoes
<1>2. pol[p].at \in SlotId /\ PollOwns(p, pol[p].at)
  BY <1>1, PolFields DEF PollOwns
<1>3. slot[pol[p].at].state = "QUERYING" /\ slot[pol[p].at].gen = pol[p].gen
  BY <1>2 DEF ExclusiveSlot
<1>4. pol[p].gen # 0
  BY <1>2, <1>3 DEF TokensOnce, InUse
<1> QED BY <1>1, <1>2, <1>3, <1>4 DEF SubmittedIn, ConfirmedIn, Rec

-----------------------------------------------------------------------------
(* Accepted checkpoints have slots, events have been recorded.             *)

LEMMA LedgerInvInit == Init => AcceptedHasSlot /\ EventRecorded
BY DEF Init, AcceptedHasSlot, EventRecorded, SubmittedIn

LEMMA AcceptedNext ==
  /\ TypeOK /\ ExclusiveSlot /\ TokensOnce /\ LogBounds /\ UseRecords /\ AcceptedHasSlot
  /\ [Next]_vars
  => AcceptedHasSlot'
<1> SUFFICES ASSUME TypeOK, ExclusiveSlot, TokensOnce, LogBounds, UseRecords,
                    AcceptedHasSlot, [Next]_vars
             PROVE  AcceptedHasSlot'
  OBVIOUS
<1>1. CASE Silent
  BY <1>1 DEF Silent, AcceptedHasSlot, ReportedRec
<1>2. ASSUME UNCHANGED <<slot, log>> PROVE AcceptedHasSlot'
  BY <1>2 DEF AcceptedHasSlot, ReportedRec, InUse
<1>3. ASSUME NEW t \in Submitters, RecordFails(t) PROVE AcceptedHasSlot'
  <2>1. /\ sub[t].pc = "reserved" /\ OtherSlots(SubSlot(t)) /\ SameUses /\ log' = log
    BY <1>3, RecordFailsDoes
  <2>2. SubSlot(t) \in SlotId /\ slot[SubSlot(t)].tok = sub[t].tok
    BY <2>1, SubFields DEF ExclusiveSlot, SubmitOwns
  <2>3. \A r \in SubmittedIn(log) : r.tok # slot[SubSlot(t)].tok
    BY <2>1, <2>2 DEF LogBounds, SubmittedIn
  <2>4. \A x \in SlotId : x # SubSlot(t) /\ InUse(x) => InUse(x)' /\ slot'[x].tok = slot[x].tok
    BY <2>1 DEF OtherSlots, InUse
  <2> QED BY <2>1, <2>3, <2>4 DEF AcceptedHasSlot, ReportedRec
<1>4. ASSUME NEW t \in Submitters, LogSubmitted(t) PROVE AcceptedHasSlot'
  <2> DEFINE r0 == Rec("SUBMITTED", sub[t].stream, sub[t].tok, slot[SubSlot(t)].gen)
  <2>1. /\ SubmittedIn(log') = SubmittedIn(log) \cup {r0}
        /\ ConfirmedIn(log') = ConfirmedIn(log)
        /\ SubSlot(t) \in SlotId /\ SubSlot(t)[1] = sub[t].stream
        /\ InUse(SubSlot(t)) /\ slot[SubSlot(t)].tok = sub[t].tok
    BY <1>4, SubmittedAdds
  <2>2. slot' = slot
    BY <1>4, LogSubmittedDoes
  <2>3. r0.stream = sub[t].stream /\ r0.tok = sub[t].tok
    BY DEF Rec
  <2> HIDE DEF r0
  <2> QED BY <2>1, <2>2, <2>3 DEF AcceptedHasSlot, ReportedRec, InUse
<1>5. ASSUME NEW p \in Pollers, Confirm(p) PROVE AcceptedHasSlot'
  <2>1. SubmittedIn(log') = SubmittedIn(log) /\ ConfirmedIn(log) \subseteq ConfirmedIn(log')
    BY <1>5, ConfirmedAdds
  <2>2. slot' = slot
    BY <1>5, ConfirmDoes
  <2> QED BY <2>1, <2>2 DEF AcceptedHasSlot, ReportedRec, InUse
<1>6. ASSUME NEW p \in Pollers, Release(p) PROVE AcceptedHasSlot'
  <2> DEFINE y == pol[p].at
  <2>1. pol[p].pc = "release" /\ OtherSlots(y) /\ SameUses /\ log' = log
    BY <1>6, ReleaseDoes
  <2>2. y \in SlotId /\ PollOwns(p, y)
    BY <2>1, PolFields DEF PollOwns
  <2>3. InUse(y)
    BY <2>2 DEF ExclusiveSlot, InUse
  <2>4. PICK q \in log : q.kind = "CONFIRMED" /\ Key(q) = UseKey(y)
    BY <2>1, <2>2 DEF UseRecords, Logged
  <2>5. q.stream = y[1] /\ q.tok = slot[y].tok /\ q \in ConfirmedIn(log)
    BY <2>2, <2>3, <2>4 DEF Key, UseKey, ConfirmedIn, TokensOnce
  <2>6. \A r \in SubmittedIn(log) : r.stream = y[1] /\ r.tok = slot[y].tok => ReportedRec(r)
    BY <2>5 DEF ReportedRec
  <2>7. \A x \in SlotId : x # y /\ InUse(x) => InUse(x)' /\ slot'[x].tok = slot[x].tok
    BY <2>1 DEF OtherSlots, InUse
  <2>8. \A r : ReportedRec(r)' <=> ReportedRec(r)
    BY <2>1 DEF ReportedRec
  <2> HIDE DEF y
  <2> QED BY <2>1, <2>6, <2>7, <2>8 DEF AcceptedHasSlot
<1>7. ASSUME NEW t \in Submitters, RecordOk(t) PROVE AcceptedHasSlot'
  BY <1>2, <1>7, RecordOkDoes
<1>8. ASSUME NEW e \in device, DeviceComplete(e) PROVE AcceptedHasSlot'
  BY <1>2, <1>8 DEF DeviceComplete
<1> QED BY <1>1, <1>3, <1>4, <1>5, <1>6, <1>7, <1>8, SilentSteps

LEMMA RecordedNext ==
  TypeOK /\ ExclusiveSlot /\ TokensOnce /\ EventRecorded /\ [Next]_vars => EventRecorded'
<1> SUFFICES ASSUME TypeOK, ExclusiveSlot, TokensOnce, EventRecorded, [Next]_vars
             PROVE  EventRecorded'
  OBVIOUS
<1>1. ASSUME device' \subseteq device, SubmittedIn(log) \subseteq SubmittedIn(log'),
             \A t \in Submitters : sub[t].pc = "recorded" => sub'[t] = sub[t]
      PROVE  EventRecorded'
  BY <1>1 DEF EventRecorded
<1>2. CASE Silent
  BY <1>1, <1>2 DEF Silent
<1>3. ASSUME NEW t \in Submitters, RecordOk(t) PROVE EventRecorded'
  <2>1. /\ sub[t].pc = "reserved" /\ sub'[t].pc = "recorded"
        /\ sub'[t].tok = sub[t].tok /\ sub'[t].stream = sub[t].stream /\ Others(t)
        /\ device' = device \cup {[stream |-> sub[t].stream, idx |-> sub[t].idx,
                                   tok |-> sub[t].tok, pos |-> npos + 1]}
        /\ log' = log
    BY <1>3, RecordOkDoes
  <2>2. \A u \in Submitters : sub[u].pc = "recorded" => sub'[u] = sub[u]
    BY <2>1 DEF Others
  <2>3. \A e \in device' : \/ e \in device
                           \/ e.stream = sub'[t].stream /\ e.tok = sub'[t].tok
    BY <2>1
  <2> QED BY <2>1, <2>2, <2>3 DEF EventRecorded
<1>4. ASSUME NEW t \in Submitters, RecordFails(t) PROVE EventRecorded'
  BY <1>1, <1>4, RecordFailsDoes DEF Others
<1>5. ASSUME NEW t \in Submitters, LogSubmitted(t) PROVE EventRecorded'
  <2>1. /\ sub[t].pc = "recorded" /\ Others(t) /\ device' = device
    BY <1>5, LogSubmittedDoes
  <2> DEFINE r0 == Rec("SUBMITTED", sub[t].stream, sub[t].tok, slot[SubSlot(t)].gen)
  <2>2. SubmittedIn(log') = SubmittedIn(log) \cup {r0}
    BY <1>5, SubmittedAdds
  <2>3. r0 \in SubmittedIn(log') /\ r0.stream = sub[t].stream /\ r0.tok = sub[t].tok
    BY <2>2 DEF Rec
  <2>4. SubmittedIn(log) \subseteq SubmittedIn(log')
    BY <2>2
  <2>5. \A u \in Submitters : u # t => sub'[u] = sub[u]
    BY <2>1 DEF Others
  <2> HIDE DEF r0
  <2> QED BY <2>1, <2>3, <2>4, <2>5 DEF EventRecorded
<1>6. ASSUME NEW p \in Pollers, Confirm(p) PROVE EventRecorded'
  BY <1>1, <1>6, ConfirmDoes, ConfirmedAdds
<1>7. ASSUME NEW p \in Pollers, Release(p) PROVE EventRecorded'
  BY <1>1, <1>7, ReleaseDoes
<1>8. ASSUME NEW e \in device, DeviceComplete(e) PROVE EventRecorded'
  BY <1>1, <1>8 DEF DeviceComplete
<1> QED BY <1>2, <1>3, <1>4, <1>5, <1>6, <1>7, <1>8, SilentSteps

-----------------------------------------------------------------------------
(* The manager implements the ledger.                                      *)

RecordedNow == {<<sub[t].stream, sub[t].tok>> : t \in {u \in Submitters : sub[u].pc = "recorded"}}

\* A step that shows in none of the ledger's sets.
LEMMA LedgerSame ==
  ASSUME SubmittedIn(log') = SubmittedIn(log), ConfirmedIn(log') = ConfirmedIn(log),
         device' = device, RecordedNow' = RecordedNow
  PROVE  UNCHANGED Ledger!ledger
BY DEF Ledger!ledger, QueuedOnDevice, Recorded, Accepted, Reported, RecordedNow

LEMMA RecordedSame ==
  ASSUME \A t \in Submitters : "recorded" \in {sub[t].pc, sub'[t].pc} => sub'[t] = sub[t]
  PROVE  RecordedNow' = RecordedNow
<1>1. \A t \in Submitters : sub'[t].pc = "recorded" <=> sub[t].pc = "recorded"
  OBVIOUS
<1>2. \A t \in Submitters : sub[t].pc = "recorded" =>
         sub'[t].stream = sub[t].stream /\ sub'[t].tok = sub[t].tok
  OBVIOUS
<1> QED BY <1>1, <1>2 DEF RecordedNow

\* An injection into a proper subset of the stream's slots.
LEMMA RoomLeft ==
  ASSUME TypeOK, ExclusiveSlot, LogBounds, AcceptedHasSlot,
         NEW t \in Submitters, sub[t].pc = "recorded"
  PROVE  Cardinality(Ledger!Outstanding(sub[t].stream)) < SlotsPerStream
<1> DEFINE s == sub[t].stream
           O == Ledger!Outstanding(s)
           J == Indices \ {sub[t].idx}
           In(c, i) == InUse(<<s, i>>) /\ slot[<<s, i>>].tok = c[2]
           f == [c \in O |-> CHOOSE i : i \in J /\ In(c, i)]
<1>1. IsFiniteSet(J) /\ Cardinality(J) = SlotsPerStream - 1
  <2>1. IsFiniteSet(Indices) /\ Cardinality(Indices) = SlotsPerStream
    BY FS_Interval, Sizes DEF Indices
  <2>2. sub[t].idx \in Indices
    BY SubFields
  <2> QED BY <2>1, <2>2, FS_RemoveElement
<1>2. \A r \in SubmittedIn(log) : r.tok # sub[t].tok
  BY DEF LogBounds, SubmittedIn
<1>3. slot[SubSlot(t)].tok = sub[t].tok
  BY SubFields DEF ExclusiveSlot, SubmitOwns
<1>4. ASSUME NEW c \in O PROVE c = <<s, c[2]>> /\ \E i \in J : In(c, i)
  <2>1. c \in Accepted /\ c \notin Reported /\ c[1] = s
    BY DEF Ledger!Outstanding
  <2>2. PICK r \in SubmittedIn(log) : c = <<r.stream, r.tok>>
    BY <2>1 DEF Accepted
  <2>3. ~ReportedRec(r)
    BY <2>1, <2>2 DEF ReportedRec, Reported
  <2>4. PICK x \in SlotId : x[1] = r.stream /\ InUse(x) /\ slot[x].tok = r.tok
    BY <2>3 DEF AcceptedHasSlot
  <2>5. x = <<s, x[2]>> /\ x[2] \in Indices
    BY <2>1, <2>2, <2>4 DEF SlotId
  <2>6. x[2] # sub[t].idx
    BY <1>2, <1>3, <2>4, <2>5 DEF SubSlot
  <2>7. In(c, x[2])
    BY <2>2, <2>4, <2>5
  <2> HIDE DEF In
  <2> QED BY <2>1, <2>2, <2>5, <2>6, <2>7
<1>5. ASSUME NEW c \in O PROVE f[c] \in J /\ In(c, f[c])
  <2> DEFINE P(i) == i \in J /\ In(c, i)
  <2>1. f[c] = CHOOSE i : P(i)
    BY Zenon
  <2>2. \E i : P(i)
    BY <1>4
  <2> HIDE DEF P, f
  <2>3. P(f[c])
    BY <2>1, <2>2, Zenon
  <2>4. f[c] \in J /\ In(c, f[c])
    BY <2>3 DEF P
  <2> QED BY <2>4
<1>6. f \in Injection(O, J)
  <2>1. f \in [O -> J]
    BY <1>5
  <2>2. ASSUME NEW c \in O, NEW d \in O, f[c] = f[d] PROVE c = d
    <3>1. slot[<<s, f[c]>>].tok = c[2] /\ slot[<<s, f[d]>>].tok = d[2]
      BY <1>5, Zenon
    <3>2. c = <<s, c[2]>> /\ d = <<s, d[2]>>
      BY <1>4, Zenon
    <3> HIDE DEF O, J, f
    <3> QED BY <2>2, <3>1, <3>2
  <2> HIDE DEF O, J, f
  <2> QED BY <2>1, <2>2 DEF Injection, IsInjective
<1>7. Cardinality(O) =< Cardinality(J) /\ IsFiniteSet(O)
  <2> HIDE DEF O, J, f
  <2> QED BY <1>1, <1>6, FS_Injection
<1> HIDE DEF J
<1> QED BY <1>1, <1>7, FS_CardinalityType, Sizes

LEMMA SameCardinality == \A S : Ledger!Cardinality(S) = Cardinality(S)
BY Zenon DEF Ledger!Cardinality, Cardinality

\* The pair a call stands for in the ledger.
LEMMA LedgerPair ==
  ASSUME TypeOK, TokensOnce, NEW t \in Submitters, sub[t].pc # "idle"
  PROVE  <<sub[t].stream, sub[t].tok>> \in Ledger!Checkpoints
<1>1. sub[t].tok \in 1..ncalls /\ ncalls \in Nat /\ ncalls =< MaxCalls /\ MaxCalls \in Nat
  BY SizesAssumption DEF TokensOnce, TypeOK
<1>2. sub[t].tok \in 1..MaxCalls /\ sub[t].stream \in Streams
  BY <1>1, SubFields
<1> QED BY <1>2 DEF Ledger!Checkpoints

LEMMA EnqueueStep ==
  ASSUME TypeOK, ExclusiveSlot, PendingEvents, TokensOnce, LogBounds,
         NEW t \in Submitters, RecordOk(t)
  PROVE  Ledger!Next
<1> DEFINE c == <<sub[t].stream, sub[t].tok>>
<1>1. /\ sub[t].pc = "reserved" /\ sub'[t].pc = "recorded"
      /\ sub'[t].tok = sub[t].tok /\ sub'[t].stream = sub[t].stream /\ Others(t)
      /\ device' = device \cup {[stream |-> sub[t].stream, idx |-> sub[t].idx,
                                 tok |-> sub[t].tok, pos |-> npos + 1]}
      /\ log' = log
  BY RecordOkDoes
<1>2. c \notin QueuedOnDevice
  <2> SUFFICES ASSUME NEW e \in device, e.tok = sub[t].tok PROVE FALSE
    BY DEF QueuedOnDevice
  <2>1. Home(e) \in SlotId /\ InUse(Home(e)) /\ slot[Home(e)].tok = sub[t].tok
    BY HomeType DEF PendingEvents, InUse
  <2>2. SubSlot(t) = Home(e)
    BY <1>1, <2>1 DEF TokensOnce, SubmitOwns
  <2> QED BY <1>1, <2>2 DEF PendingEvents
<1>3. c \notin Accepted
  BY <1>1 DEF Accepted, SubmittedIn, LogBounds
<1>4. c \notin RecordedNow
  BY <1>1 DEF RecordedNow, TokensOnce
<1>5. QueuedOnDevice' = QueuedOnDevice \cup {c}
  <2> DEFINE e0 == [stream |-> sub[t].stream, idx |-> sub[t].idx,
                    tok |-> sub[t].tok, pos |-> npos + 1]
  <2>1. device' = device \cup {e0} /\ <<e0.stream, e0.tok>> = c
    BY <1>1
  <2> HIDE DEF e0, c
  <2>2. \A f \in device' : f = e0 \/ f \in device
    BY <2>1
  <2>3. QueuedOnDevice' \subseteq QueuedOnDevice \cup {c}
    BY <2>1, <2>2 DEF QueuedOnDevice
  <2>4. c \in QueuedOnDevice' /\ QueuedOnDevice \subseteq QueuedOnDevice'
    BY <2>1 DEF QueuedOnDevice
  <2> QED BY <2>3, <2>4
<1>6. RecordedNow' = RecordedNow \cup {c}
  <2>1. \A u \in Submitters : u # t => sub'[u] = sub[u]
    BY <1>1 DEF Others
  <2> QED BY <1>1, <2>1 DEF RecordedNow
<1>7. Accepted' = Accepted /\ Reported' = Reported
  BY <1>1 DEF Accepted, Reported
<1>8. Recorded = Accepted \cup RecordedNow /\ Recorded' = Accepted' \cup RecordedNow'
  BY DEF Recorded, RecordedNow
<1>9. c \in Ledger!Checkpoints
  BY <1>1, LedgerPair
<1> HIDE DEF c
<1>10. Ledger!Enqueue(c)
  BY <1>2, <1>3, <1>4, <1>5, <1>6, <1>7, <1>8 DEF Ledger!Enqueue
<1> QED BY <1>9, <1>10 DEF Ledger!Next

LEMMA AcceptStep ==
  ASSUME TypeOK, ExclusiveSlot, TokensOnce, LogBounds, AcceptedHasSlot,
         NEW t \in Submitters, LogSubmitted(t)
  PROVE  Ledger!Next
<1> DEFINE c == <<sub[t].stream, sub[t].tok>>
           r0 == Rec("SUBMITTED", sub[t].stream, sub[t].tok, slot[SubSlot(t)].gen)
<1>1. /\ sub[t].pc = "recorded" /\ sub'[t].pc = "logged" /\ Others(t) /\ device' = device
  BY LogSubmittedDoes
<1>2. /\ SubmittedIn(log') = SubmittedIn(log) \cup {r0}
      /\ ConfirmedIn(log') = ConfirmedIn(log)
  BY SubmittedAdds
<1>3. r0.stream = sub[t].stream /\ r0.tok = sub[t].tok
  BY DEF Rec
<1>4. Accepted' = Accepted \cup {c} /\ Reported' = Reported
  <2> HIDE DEF r0
  <2> QED BY <1>2, <1>3 DEF Accepted, Reported
<1>5. c \notin Accepted
  BY <1>1 DEF Accepted, SubmittedIn, LogBounds
<1>6. c \in RecordedNow /\ RecordedNow' \subseteq RecordedNow
      /\ RecordedNow \subseteq RecordedNow' \cup {c}
  <2>1. \A u \in Submitters : u # t => sub'[u] = sub[u]
    BY <1>1 DEF Others
  <2> QED BY <1>1, <2>1 DEF RecordedNow
<1>7. Recorded = Accepted \cup RecordedNow /\ Recorded' = Accepted' \cup RecordedNow'
  BY DEF Recorded, RecordedNow
<1>8. Recorded' = Recorded /\ c \in Recorded
  BY <1>4, <1>6, <1>7
<1>9. QueuedOnDevice' = QueuedOnDevice
  BY <1>1 DEF QueuedOnDevice
<1>10. c \in Ledger!Checkpoints /\ Cardinality(Ledger!Outstanding(c[1])) < SlotsPerStream
  BY <1>1, LedgerPair, RoomLeft
<1> HIDE DEF c, r0
<1>11. c \in (QueuedOnDevice \cup (Recorded \ QueuedOnDevice)) \ Accepted
  BY <1>5, <1>8
<1>12. (Recorded \ QueuedOnDevice)' = Recorded \ QueuedOnDevice
  BY <1>8, <1>9
<1>13. Ledger!Accept(c)
  BY <1>4, <1>9, <1>10, <1>11, <1>12, SameCardinality DEF Ledger!Accept
<1> QED BY <1>10, <1>13 DEF Ledger!Next

LEMMA ReportStep ==
  ASSUME TypeOK, ExclusiveSlot, PendingEvents, TokensOnce, LogBounds, UseRecords,
         NEW p \in Pollers, Confirm(p)
  PROVE  Ledger!Next
<1> DEFINE y == pol[p].at
           c == <<y[1], slot[y].tok>>
           r0 == Rec("CONFIRMED", pol[p].at[1], slot[pol[p].at].tok, pol[p].gen)
<1>1. pol[p].pc = "confirm" /\ UNCHANGED <<sub, device>>
  BY ConfirmDoes
<1>2. /\ SubmittedIn(log') = SubmittedIn(log) /\ ConfirmedIn(log') = ConfirmedIn(log) \cup {r0}
      /\ y \in SlotId /\ slot[y].state = "QUERYING"
  BY ConfirmedAdds
<1>3. InUse(y) /\ PollOwns(p, y)
  BY <1>1, <1>2 DEF InUse, PollOwns
<1>4. r0.stream = y[1] /\ r0.tok = slot[y].tok
  BY DEF Rec
<1>5. Reported' = Reported \cup {c} /\ Accepted' = Accepted
  <2> HIDE DEF r0, y
  <2> QED BY <1>2, <1>4 DEF Accepted, Reported
<1>6. QueuedOnDevice' = QueuedOnDevice /\ Recorded' = Recorded
  BY <1>1, <1>5 DEF QueuedOnDevice, Recorded
<1>7. c \in Accepted
  <2>1. PICK q \in log : q.kind = "SUBMITTED" /\ Key(q) = UseKey(y)
    BY <1>2 DEF UseRecords, Logged
  <2>2. q.stream = y[1] /\ q.tok = slot[y].tok /\ q \in SubmittedIn(log)
    BY <2>1 DEF Key, UseKey, SubmittedIn
  <2> HIDE DEF y
  <2> QED BY <2>2 DEF Accepted
<1>8. c \notin Reported
  <2> SUFFICES ASSUME NEW q \in ConfirmedIn(log), q.tok = slot[y].tok PROVE FALSE
    BY DEF Reported
  <2>1. PICK z \in Pollers : pol[z].pc = "release" /\ pol[z].at = y
    BY <1>2, <1>3 DEF UseRecords, ConfirmedIn
  <2>2. PollOwns(z, y)
    BY <2>1 DEF PollOwns
  <2> QED BY <1>1, <1>2, <1>3, <2>1, <2>2 DEF ExclusiveSlot
<1>9. c \notin QueuedOnDevice
  <2> SUFFICES ASSUME NEW e \in device, e.tok = slot[y].tok PROVE FALSE
    BY DEF QueuedOnDevice
  <2>1. Home(e) \in SlotId /\ InUse(Home(e)) /\ slot[Home(e)].tok = slot[y].tok
    BY HomeType DEF PendingEvents, InUse
  <2>2. Home(e) = y
    BY <1>2, <1>3, <2>1 DEF TokensOnce
  <2> QED BY <1>1, <2>2 DEF PendingEvents
<1>10. c \in Ledger!Checkpoints
  <2>1. slot[y].tok \in 1..ncalls /\ ncalls \in Nat /\ ncalls =< MaxCalls /\ MaxCalls \in Nat
    BY <1>2, <1>3, SizesAssumption DEF TokensOnce, TypeOK
  <2>2. slot[y].tok \in 1..MaxCalls /\ y[1] \in Streams
    BY <1>2, <2>1 DEF SlotId
  <2> QED BY <2>2 DEF Ledger!Checkpoints
<1>11. c \in Recorded
  BY <1>7 DEF Recorded
<1> HIDE DEF c, r0, y
<1>12. Ledger!Report(c)
  BY <1>5, <1>6, <1>7, <1>8, <1>9, <1>11 DEF Ledger!Report
<1> QED BY <1>10, <1>12 DEF Ledger!Next

LEMMA PassStep ==
  ASSUME TypeOK, PendingEvents, TokensOnce, EventRecorded,
         NEW e \in device, DeviceComplete(e)
  PROVE  Ledger!Next
<1> DEFINE c == <<e.stream, e.tok>>
<1>1. device' = device \ {e} /\ UNCHANGED <<sub, log>>
  BY DEF DeviceComplete
<1>2. \A f \in device : f.tok = e.tok => f = e
  BY HomeType DEF PendingEvents, TokensOnce, InUse
<1>3. QueuedOnDevice' = QueuedOnDevice \ {c} /\ c \in QueuedOnDevice
  BY <1>1, <1>2 DEF QueuedOnDevice
<1>4. Accepted' = Accepted /\ Reported' = Reported /\ Recorded' = Recorded
  BY <1>1 DEF Accepted, Reported, Recorded
<1>5. c \in Recorded
  BY DEF EventRecorded, Recorded, Accepted
<1>6. c \in Ledger!Checkpoints
  <2>1. e.tok \in 1..ncalls /\ ncalls \in Nat /\ ncalls =< MaxCalls /\ MaxCalls \in Nat
    BY SizesAssumption, HomeType DEF TokensOnce, TypeOK, PendingEvents, InUse
  <2>2. e.tok \in 1..MaxCalls /\ e.stream \in Streams
    BY <2>1 DEF TypeOK, DeviceRecord
  <2> QED BY <2>2 DEF Ledger!Checkpoints
<1> HIDE DEF c
<1>7. Ledger!Pass(c)
  BY <1>3, <1>4, <1>5 DEF Ledger!Pass
<1> QED BY <1>6, <1>7 DEF Ledger!Next

LEMMA LedgerStep ==
  /\ TypeOK /\ ExclusiveSlot /\ ManagerInv /\ FactInv /\ AcceptedHasSlot /\ EventRecorded
  /\ [Next]_vars
  => [Ledger!Next]_(Ledger!ledger)
<1> SUFFICES ASSUME TypeOK, ExclusiveSlot, ManagerInv, FactInv, AcceptedHasSlot,
                    EventRecorded, [Next]_vars
             PROVE  Ledger!Next \/ UNCHANGED Ledger!ledger
  OBVIOUS
<1> USE DEF ManagerInv, FactInv
<1>1. CASE Silent
  BY <1>1, RecordedSame, LedgerSame DEF Silent
<1>2. ASSUME NEW t \in Submitters, RecordFails(t) PROVE UNCHANGED Ledger!ledger
  <2>1. /\ sub[t].pc = "reserved" /\ sub'[t].pc = "idle" /\ Others(t)
        /\ UNCHANGED <<log, device>>
    BY <1>2, RecordFailsDoes
  <2>2. RecordedNow' = RecordedNow
    BY <2>1, RecordedSame DEF Others
  <2> QED BY <2>1, <2>2, LedgerSame
<1>3. ASSUME NEW p \in Pollers, Release(p) PROVE UNCHANGED Ledger!ledger
  <2>1. UNCHANGED <<sub, log, device>>
    BY <1>3, ReleaseDoes
  <2>2. RecordedNow' = RecordedNow
    BY <2>1, RecordedSame
  <2> QED BY <2>1, <2>2, LedgerSame
<1> QED BY <1>1, <1>2, <1>3, SilentSteps, EnqueueStep, AcceptStep, ReportStep, PassStep

LEMMA LedgerInductive ==
  Spec => [](TypeOK /\ ExclusiveSlot /\ ManagerInv /\ FactInv /\ AcceptedHasSlot
             /\ EventRecorded)
<1> DEFINE Old == TypeOK /\ ExclusiveSlot /\ ManagerInv /\ FactInv
           New == AcceptedHasSlot /\ EventRecorded
<1>1. Init => New
  BY LedgerInvInit
<1>2. Old /\ New /\ [Next]_vars => New'
  BY AcceptedNext, RecordedNext DEF FactInv
<1>3. Spec => []Old
  BY FactInductive
<1> HIDE DEF Old, New
<1>4. Spec => [](Old /\ New)
  BY <1>1, <1>2, <1>3, PTL DEF Spec
<1> QED BY <1>4, PTL DEF Old, New

\* Every behaviour of the manager is one of the ledger, whatever the sizes: a
\* checkpoint is put on the device, passed, accepted and reported at most once each,
\* reported only when passed, and a stream has never more unreported than slots.
THEOREM LedgerImplemented == Spec => ImplementsLedger
<1>1. Init => Ledger!Init
  BY DEF Init, Ledger!Init, QueuedOnDevice, Recorded, Accepted, Reported, SubmittedIn,
         ConfirmedIn, IdleSub
<1> DEFINE IInv == /\ TypeOK /\ ExclusiveSlot /\ ManagerInv /\ FactInv
                   /\ AcceptedHasSlot /\ EventRecorded
<1>2. IInv /\ [Next]_vars => [Ledger!Next]_(Ledger!ledger)
  BY LedgerStep
<1>3. Spec => []IInv
  BY LedgerInductive, PTL
<1> HIDE DEF IInv
<1> QED BY <1>1, <1>2, <1>3, PTL DEF Spec, ImplementsLedger, Ledger!Spec

-----------------------------------------------------------------------------
(* The order of a stream.                                                  *)

LEMMA StreamInit == Init => FeedsOwn /\ Positions /\ NewestLast /\ LogIsOrder /\ OpenSlots
BY DEF Init, FeedsOwn, Positions, NewestLast, LogIsOrder, OpenSlots, IdleSub, SubmittedIn

\* A call keeps its stream, and a new one is on a stream its thread feeds.
LEMMA FeedsNext == TypeOK /\ FeedsOwn /\ [Next]_vars => FeedsOwn'
<1> SUFFICES ASSUME TypeOK, FeedsOwn, [Next]_vars PROVE FeedsOwn'
  OBVIOUS
<1>1. ASSUME NEW t \in Submitters, Others(t),
             \/ sub'[t].pc = "idle"
             \/ sub[t].pc # "idle" /\ sub'[t].stream = sub[t].stream
             \/ sub'[t].stream \in Feeds[t]
      PROVE  FeedsOwn'
  BY <1>1 DEF FeedsOwn, Others
<1>2. ASSUME NEW t \in Submitters, NEW s \in Streams, SubmitCall(t, s) PROVE FeedsOwn'
  <2>1. sub'[t].stream \in Feeds[t] /\ Others(t)
    BY <1>2 DEF SubmitCall, TypeOK, Others
  <2> QED BY <1>1, <2>1
<1>3. ASSUME NEW t \in Submitters, SubmitStep(t) PROVE FeedsOwn'
  <2>1. CASE ProbeMiss(t) \/ PoolFull(t) \/ RecordOk(t)
    BY <1>1, <2>1, ProbeMissDoes, PoolFullDoes, RecordOkDoes
  <2>2. CASE RecordFails(t) \/ LogSubmitted(t) \/ Publish(t)
    BY <1>1, <2>2, RecordFailsDoes, LogSubmittedDoes, PublishDoes
  <2>3. CASE ProbeHit(t)
    <3>1. /\ sub[t].pc = "probe" /\ sub'[t].stream = sub[t].stream /\ Others(t)
      BY <2>3, ProbeHitDoes
    <3> QED BY <1>1, <3>1
  <2> QED BY <1>3, <2>1, <2>2, <2>3 DEF SubmitStep
<1>4. ASSUME sub' = sub PROVE FeedsOwn'
  BY <1>4 DEF FeedsOwn
<1>5. ASSUME NEW p \in Pollers, PollStep(p), ~Skip(p), ~PollEnd(p) PROVE sub' = sub
  BY <1>5, MiddleOfPoll
<1> QED BY <1>2, <1>3, <1>4, <1>5, RestDoes DEF Next

\* An event and the call that has the same token are on one stream.
LEMMA EventOfCall ==
  ASSUME TypeOK, PendingEvents, TokensOnce,
         NEW e \in device, NEW t \in Submitters, sub[t].pc # "idle", e.tok = sub[t].tok
  PROVE  e.stream = sub[t].stream
<1>1. Home(e) \in SlotId /\ InUse(Home(e)) /\ slot[Home(e)].tok = sub[t].tok
  BY HomeType DEF PendingEvents, InUse
<1>2. SubmitOwns(t, Home(e))
  BY <1>1 DEF TokensOnce
<1> QED BY <1>2 DEF SubmitOwns, SubSlot, Home

LEMMA PositionsNext ==
  /\ TypeOK /\ ExclusiveSlot /\ PendingEvents /\ TokensOnce /\ LogBounds /\ Positions
  /\ [Next]_vars
  => Positions'
<1> SUFFICES ASSUME TypeOK, ExclusiveSlot, PendingEvents, TokensOnce, LogBounds, Positions,
                    [Next]_vars
             PROVE  Positions'
  OBVIOUS
<1>1. ASSUME SubmittedIn(log') = SubmittedIn(log), device' \subseteq device, npos' = npos
      PROVE  Positions'
  BY <1>1 DEF Positions
<1>2. CASE Silent
  BY <1>1, <1>2 DEF Silent
<1>3. ASSUME NEW t \in Submitters, RecordOk(t) PROVE Positions'
  <2> DEFINE e0 == [stream |-> sub[t].stream, idx |-> sub[t].idx,
                    tok |-> sub[t].tok, pos |-> npos + 1]
  <2>1. /\ sub[t].pc = "reserved" /\ device' = device \cup {e0} /\ log' = log
        /\ npos' = npos + 1
    BY <1>3, RecordOkDoes DEF RecordOk
  <2>2. e0.tok = sub[t].tok /\ e0.pos = npos + 1
    OBVIOUS
  <2>3. \A r \in SubmittedIn(log) : r.tok # e0.tok
    BY <2>1, <2>2 DEF LogBounds, SubmittedIn
  <2>4. npos \in Nat /\ \A e \in device : e.pos \in Nat /\ e.pos =< npos
    BY DEF TypeOK, DeviceRecord, Positions
  <2> HIDE DEF e0
  <2>5. \A e \in device' : e.pos =< npos'
    BY <2>1, <2>2, <2>4
  <2>6. \A e, f \in device' : e.pos = f.pos => e = f
    BY <2>1, <2>2, <2>4 DEF Positions
  <2> QED BY <2>1, <2>3, <2>5, <2>6 DEF Positions
<1>4. ASSUME NEW t \in Submitters, LogSubmitted(t) PROVE Positions'
  <2> DEFINE r0 == Rec("SUBMITTED", sub[t].stream, sub[t].tok, slot[SubSlot(t)].gen)
  <2>1. SubmittedIn(log') = SubmittedIn(log) \cup {r0}
    BY <1>4, SubmittedAdds
  <2>2. sub[t].pc = "recorded" /\ device' = device /\ npos' = npos
    BY <1>4 DEF LogSubmitted
  <2>3. r0.seq = nrec + 1 /\ r0.tok = sub[t].tok /\ r0.stream = sub[t].stream
    BY DEF Rec
  <2>4. nrec \in Nat /\ \A r \in SubmittedIn(log) : r.seq \in Nat /\ r.seq =< nrec
    BY DEF TypeOK, LogRecord, LogBounds, SubmittedIn
  <2>5. \A e \in device : e.tok = r0.tok => e.stream = r0.stream
    BY <2>2, <2>3, EventOfCall
  <2> HIDE DEF r0
  <2>6. \A r, q \in SubmittedIn(log') : r.seq = q.seq => r = q
    BY <2>1, <2>3, <2>4 DEF Positions
  <2> QED BY <2>1, <2>2, <2>5, <2>6 DEF Positions
<1>5. ASSUME NEW t \in Submitters, RecordFails(t) PROVE Positions'
  BY <1>1, <1>5, RecordFailsDoes DEF RecordFails
<1>6. ASSUME NEW p \in Pollers, Confirm(p) PROVE Positions'
  BY <1>1, <1>6, ConfirmedAdds, ConfirmDoes DEF Confirm
<1>7. ASSUME NEW p \in Pollers, Release(p) PROVE Positions'
  BY <1>1, <1>7, ReleaseDoes DEF Release
<1>8. ASSUME NEW e \in device, DeviceComplete(e) PROVE Positions'
  BY <1>1, <1>8 DEF DeviceComplete
<1> QED BY <1>2, <1>3, <1>4, <1>5, <1>6, <1>7, <1>8, SilentSteps

\* The first event of a stream is not the last while another is there.
LEMMA FirstNotLast ==
  ASSUME TypeOK, Positions, NEW d \in device, DeviceComplete(d),
         NEW e \in device', NEW f \in device, e.stream = f.stream, e.pos =< f.pos
  PROVE  e \in device /\ f \in device'
<1>1. device' = device \ {d} /\ \A h \in device : h.stream = d.stream => d.pos =< h.pos
  BY DEF DeviceComplete
<1>2. \A h \in device : h.pos \in Nat
  BY DEF TypeOK, DeviceRecord
<1>3. ASSUME f = d PROVE FALSE
  <2>1. e \in device /\ e # d /\ d.pos =< e.pos /\ e.pos =< d.pos
    BY <1>1, <1>3
  <2>2. e.pos = d.pos
    BY <1>2, <2>1
  <2> QED BY <2>1, <2>2 DEF Positions
<1> QED BY <1>1, <1>3

LEMMA NewestNext ==
  ASSUME OneFeeder, TypeOK, ExclusiveSlot, FeedsOwn, Positions, NewestLast, [Next]_vars
  PROVE  NewestLast'
<1>1. ASSUME device' = device,
             \A t \in Submitters : sub'[t].pc = "recorded" => sub'[t] = sub[t]
      PROVE  NewestLast'
  BY <1>1 DEF NewestLast
<1>2. CASE Silent
  BY <1>1, <1>2 DEF Silent
<1>3. ASSUME NEW t \in Submitters, RecordOk(t) PROVE NewestLast'
  <2> DEFINE e0 == [stream |-> sub[t].stream, idx |-> sub[t].idx,
                    tok |-> sub[t].tok, pos |-> npos + 1]
  <2>1. /\ sub[t].pc = "reserved" /\ device' = device \cup {e0}
        /\ sub'[t].tok = sub[t].tok /\ sub'[t].stream = sub[t].stream
        /\ \A u \in Submitters : u # t => sub'[u] = sub[u]
    BY <1>3, RecordOkDoes DEF Others
  <2>2. e0.tok = sub[t].tok /\ e0.pos = npos + 1 /\ e0.stream = sub[t].stream
    OBVIOUS
  <2>3. npos \in Nat /\ \A e \in device : e.pos \in Nat /\ e.pos =< npos
    BY DEF TypeOK, DeviceRecord, Positions
  <2> HIDE DEF e0
  <2>4. \A e \in device' : e.pos =< e0.pos
    BY <2>1, <2>2, <2>3
  <2>5. ASSUME NEW u \in Submitters, sub'[u].pc = "recorded", u # t,
               NEW e \in device', e.stream = sub'[u].stream
        PROVE  e \in device
    <3>1. sub[u].pc = "recorded" /\ sub[u].stream \in Feeds[u]
      BY <2>1, <2>5 DEF FeedsOwn
    <3>2. sub[t].stream \in Feeds[t]
      BY <2>1 DEF FeedsOwn
    <3>3. sub[u].stream # sub[t].stream
      BY <2>5, <3>1, <3>2 DEF OneFeeder
    <3> QED BY <2>1, <2>2, <2>5, <3>3
  <2>6. \A u \in Submitters : sub'[u].pc = "recorded" /\ u # t =>
           \A e \in device' : e.stream = sub'[u].stream =>
              \E f \in device' : f.tok = sub'[u].tok /\ f.stream = e.stream /\ e.pos =< f.pos
    BY <2>1, <2>5 DEF NewestLast
  <2> QED BY <2>1, <2>2, <2>4, <2>6 DEF NewestLast
<1>4. ASSUME NEW t \in Submitters, LogSubmitted(t) PROVE NewestLast'
  BY <1>1, <1>4, LogSubmittedDoes DEF Others
<1>5. ASSUME NEW t \in Submitters, RecordFails(t) PROVE NewestLast'
  BY <1>1, <1>5, RecordFailsDoes DEF Others
<1>6. ASSUME NEW p \in Pollers, Confirm(p) \/ Release(p) PROVE NewestLast'
  BY <1>1, <1>6, ConfirmDoes, ReleaseDoes
<1>7. ASSUME NEW d \in device, DeviceComplete(d) PROVE NewestLast'
  <2>1. sub' = sub /\ device' \subseteq device
    BY <1>7 DEF DeviceComplete
  <2>2. SUFFICES ASSUME NEW t \in Submitters, sub[t].pc = "recorded",
                        NEW e \in device', e.stream = sub[t].stream
                 PROVE  \E f \in device' : f.tok = sub[t].tok /\ f.stream = e.stream
                                           /\ e.pos =< f.pos
    BY <2>1 DEF NewestLast
  <2>3. PICK f \in device : f.tok = sub[t].tok /\ f.stream = e.stream /\ e.pos =< f.pos
    BY <2>1, <2>2 DEF NewestLast
  <2>4. f \in device'
    BY <1>7, <2>3, FirstNotLast
  <2> QED BY <2>3, <2>4
<1> QED BY <1>2, <1>3, <1>4, <1>5, <1>6, <1>7, SilentSteps

LEMMA OrderNext ==
  ASSUME TypeOK, ExclusiveSlot, TokensOnce, LogBounds, Positions, NewestLast, LogIsOrder,
         [Next]_vars
  PROVE  LogIsOrder'
<1>1. ASSUME SubmittedIn(log') = SubmittedIn(log), device' = device PROVE LogIsOrder'
  BY <1>1 DEF LogIsOrder
<1>2. CASE Silent
  BY <1>1, <1>2 DEF Silent
<1>3. ASSUME NEW t \in Submitters, RecordOk(t) PROVE LogIsOrder'
  <2>1. /\ sub[t].pc = "reserved" /\ log' = log /\ device \subseteq device'
        /\ \A e \in device' : e \in device \/ e.tok = sub[t].tok
    BY <1>3, RecordOkDoes
  <2>2. \A r \in SubmittedIn(log) : r.tok # sub[t].tok
    BY <2>1 DEF LogBounds, SubmittedIn
  <2> QED BY <2>1, <2>2 DEF LogIsOrder
<1>4. ASSUME NEW t \in Submitters, LogSubmitted(t) PROVE LogIsOrder'
  <2> DEFINE r0 == Rec("SUBMITTED", sub[t].stream, sub[t].tok, slot[SubSlot(t)].gen)
  <2>1. SubmittedIn(log') = SubmittedIn(log) \cup {r0}
    BY <1>4, SubmittedAdds
  <2>2. sub[t].pc = "recorded" /\ device' = device
    BY <1>4, LogSubmittedDoes
  <2>3. r0.seq = nrec + 1 /\ r0.tok = sub[t].tok /\ r0.stream = sub[t].stream
    BY DEF Rec
  <2>4. nrec \in Nat /\ \A r \in SubmittedIn(log) : r.seq \in Nat /\ r.seq =< nrec
    BY DEF TypeOK, LogRecord, LogBounds, SubmittedIn
  <2>5. \A e \in device : e.pos \in Nat
    BY DEF TypeOK, DeviceRecord
  <2> HIDE DEF r0
  <2>6. SUFFICES ASSUME NEW r \in SubmittedIn(log'), NEW q \in SubmittedIn(log'),
                        NEW e \in device, r.stream = q.stream, r.seq =< q.seq,
                        e.tok = r.tok
                 PROVE  \E f \in device : f.tok = q.tok /\ e.pos =< f.pos
    BY <2>2 DEF LogIsOrder
  <2>7. CASE q = r
    BY <2>5, <2>6, <2>7
  <2>8. CASE r = r0 /\ q # r0
    BY <2>1, <2>3, <2>4, <2>6, <2>8
  <2>9. CASE r # r0 /\ q = r0
    <3>1. r \in SubmittedIn(log) /\ e.stream = sub[t].stream
      BY <2>1, <2>3, <2>6, <2>9 DEF Positions
    <3> QED BY <2>2, <2>3, <2>9, <3>1 DEF NewestLast
  <2>10. CASE r # r0 /\ q # r0
    BY <2>1, <2>6, <2>10 DEF LogIsOrder
  <2> QED BY <2>7, <2>8, <2>9, <2>10
<1>5. ASSUME NEW t \in Submitters, RecordFails(t) PROVE LogIsOrder'
  BY <1>1, <1>5, RecordFailsDoes
<1>6. ASSUME NEW p \in Pollers, Confirm(p) PROVE LogIsOrder'
  BY <1>1, <1>6, ConfirmDoes, ConfirmedAdds
<1>7. ASSUME NEW p \in Pollers, Release(p) PROVE LogIsOrder'
  BY <1>1, <1>7, ReleaseDoes
<1>8. ASSUME NEW d \in device, DeviceComplete(d) PROVE LogIsOrder'
  <2>1. log' = log /\ device' \subseteq device
    BY <1>8 DEF DeviceComplete
  <2>2. SUFFICES ASSUME NEW r \in SubmittedIn(log), NEW q \in SubmittedIn(log),
                        NEW e \in device', r.stream = q.stream, r.seq =< q.seq,
                        e.tok = r.tok
                 PROVE  \E f \in device' : f.tok = q.tok /\ e.pos =< f.pos
    BY <2>1 DEF LogIsOrder
  <2>3. PICK f \in device : f.tok = q.tok /\ e.pos =< f.pos
    BY <2>1, <2>2 DEF LogIsOrder
  <2>4. e.stream = f.stream
    BY <2>1, <2>2, <2>3 DEF Positions
  <2>5. f \in device'
    BY <1>8, <2>3, <2>4, FirstNotLast
  <2> QED BY <2>3, <2>5
<1> QED BY <1>2, <1>3, <1>4, <1>5, <1>6, <1>7, <1>8, SilentSteps

-----------------------------------------------------------------------------
(* The watermark.                                                          *)

LEMMA OrderInductive ==
  ASSUME OneFeeder
  PROVE  Spec => []( TypeOK /\ FactInv /\ FeedsOwn /\ Positions /\ NewestLast /\ LogIsOrder)
<1> DEFINE Old == TypeOK /\ ExclusiveSlot /\ ManagerInv /\ FactInv
           New == FeedsOwn /\ Positions /\ NewestLast /\ LogIsOrder
<1>1. Init => New
  BY StreamInit
<1>2. Old /\ New /\ [Next]_vars => New'
  <2>1. ASSUME Old, New, [Next]_vars PROVE FeedsOwn' /\ Positions'
    BY <2>1, FeedsNext, PositionsNext DEF ManagerInv, FactInv
  <2>2. ASSUME Old, New, [Next]_vars PROVE NewestLast' /\ LogIsOrder'
    BY <2>2, NewestNext, OrderNext DEF FactInv
  <2> QED BY <2>1, <2>2
<1>3. Spec => []Old
  BY FactInductive
<1> HIDE DEF Old, New
<1>4. Spec => [](Old /\ New)
  BY <1>1, <1>2, <1>3, PTL DEF Spec
<1> QED BY <1>4, PTL DEF Old, New

\* Where each stream has one submitting thread, whatever the sizes and whatever the
\* ring has forgotten, the device has passed all the report calls confirmed.
\* (Two threads on one stream break it: the run shared_stream_watermark.)
THEOREM WatermarkIsSound ==
  ASSUME OneFeeder
  PROVE  Spec => []WatermarkSound
<1>1. Facts /\ LogIsOrder => WatermarkSound
  <2> SUFFICES ASSUME Facts, LogIsOrder, NEW low \in 0..nrec, NEW s \in Streams,
                      NEW r \in ReportedConfirmed(View(low), s),
                      NEW e \in device, e.tok = r.tok
               PROVE  FALSE
    BY DEF WatermarkSound, TokenOnDevice
  <2>1. PICK c \in ConfirmedSubmits(View(low), s) : r.seq =< c.seq
    BY DEF ReportedConfirmed
  <2>2. /\ r \in SubmittedIn(log) /\ c \in SubmittedIn(log)
        /\ r.stream = s /\ c.stream = s /\ Key(c) \in ExactKeys(View(low))
    BY <2>1 DEF ReportedConfirmed, ConfirmedSubmits, SubmittedIn, View
  <2>3. PICK q \in log : q.kind = "CONFIRMED" /\ Key(q) = Key(c)
    BY <2>2 DEF ExactKeys, ConfirmedIn, View
  <2>4. q.tok = c.tok
    BY <2>3 DEF Key
  <2>5. \E f \in device : f.tok = c.tok
    BY <2>1, <2>2 DEF LogIsOrder
  <2> QED BY <2>3, <2>4, <2>5 DEF Facts, TokenOnDevice
<1>2. Spec => [](FactInv /\ LogIsOrder)
  BY OrderInductive, PTL
<1> QED BY <1>1, <1>2, PTL DEF FactInv

-----------------------------------------------------------------------------
(* The pool.                                                               *)

\* The probes of a call visit every slot of the stream, when the cursor wraps at a
\* multiple of the pool's size: 2^32 and a power of two.
LEMMA ProbesVisitAll ==
  ASSUME CursorMod % SlotsPerStream = 0, NEW c \in 0..(CursorMod - 1), NEW i \in Indices
  PROVE  \E m \in Indices : ProbeIndex(c, m) = i
<1> DEFINE N == SlotsPerStream
           k == CursorMod \div N
           a == c \div N
           b == c % N
<1>1. N \in Nat /\ N >= 1 /\ CursorMod \in Nat /\ CursorMod >= 1 /\ i \in 0..(N - 1)
  BY Sizes DEF Indices
<1>2. k \in Nat /\ CursorMod = N * k
  <2>1. k \in Nat /\ CursorMod = N * k + (CursorMod % N)
    BY <1>1, Z3
  <2> QED BY <1>1, <2>1
<1>3. a \in Nat /\ b \in 0..(N - 1) /\ c = N * a + b
  BY <1>1, Z3
<1> HIDE DEF N, k, a, b
<1>4. a < k
  <2> SUFFICES ASSUME a >= k PROVE FALSE
    BY <1>2, <1>3
  <2>1. N * a >= N * k
    BY <1>1, <1>2, <1>3, Z3
  <2> QED BY <1>1, <1>2, <1>3, <2>1
<1>5. \A q \in Nat : (N * q + i) % N = i
  BY <1>1, Z3
<1>6. CASE i >= b
  <2>1. i - b \in Indices /\ c + (i - b) = N * a + i
    BY <1>1, <1>3, <1>6, Z3 DEF Indices, N
  <2>2. N * a + i \in Nat /\ N * a + i < CursorMod
    <3>1. N * a + N =< N * k
      BY <1>1, <1>2, <1>3, <1>4, Z3
    <3> QED BY <1>1, <1>2, <1>3, <3>1, Z3
  <2>3. (N * a + i) % CursorMod = N * a + i
    BY <1>1, <2>2, Z3
  <2>4. ProbeIndex(c, i - b) = i
    BY <1>3, <1>5, <2>1, <2>3 DEF ProbeIndex, N
  <2> QED BY <2>1, <2>4
<1>7. CASE i < b
  <2>1. i - b + N \in Indices /\ c + (i - b + N) = N * a + N + i
    BY <1>1, <1>3, <1>7, Z3 DEF Indices, N
  <2>2. N * a + N = N * (a + 1)
    BY <1>1, <1>3, Z3
  <2>3. CASE a + 1 < k
    <3>1. N * (a + 1) + N =< N * k
      BY <1>1, <1>2, <1>3, <2>3, Z3
    <3>2. N * (a + 1) + i \in Nat /\ N * (a + 1) + i < CursorMod
      BY <1>1, <1>2, <1>3, <3>1, Z3
    <3>3. (N * (a + 1) + i) % CursorMod = N * (a + 1) + i
      BY <1>1, <3>2, Z3
    <3>4. ProbeIndex(c, i - b + N) = i
      BY <1>3, <1>5, <2>1, <2>2, <3>3 DEF ProbeIndex, N
    <3> QED BY <2>1, <3>4
  <2>4. CASE a + 1 = k
    <3>1. N * a + N + i = CursorMod + i /\ i < N /\ N =< CursorMod
      <4>1. N =< N * k
        BY <1>1, <1>2, <1>3, <2>4, Z3
      <4> QED BY <1>1, <1>2, <2>2, <2>4, <4>1
    <3>2. (CursorMod + i) % CursorMod = i
      BY <1>1, <3>1, Z3
    <3>3. i % N = i
      BY <1>1, Z3
    <3>4. ProbeIndex(c, i - b + N) = i
      BY <2>1, <3>1, <3>2, <3>3 DEF ProbeIndex, N
    <3> QED BY <2>1, <3>4
  <2> QED BY <1>2, <1>3, <1>4, <2>3, <2>4
<1> QED BY <1>1, <1>3, <1>6, <1>7

\* Only a submit takes a free slot, and only of its own stream.
LEMMA FreeStays ==
  ASSUME TypeOK, ExclusiveSlot, [Next]_vars, NEW x \in SlotId, slot[x].state = "FREE",
         slot'[x].state # "FREE"
  PROVE  \E t \in Submitters : ProbeHit(t) /\ sub[t].stream = x[1]
<1>1. ASSUME NEW t \in Submitters, ProbeHit(t) PROVE sub[t].stream = x[1]
  <2>1. PICK y \in SlotId : y[1] = sub[t].stream /\ OtherSlots(y)
    BY <1>1, ProbeHitDoes
  <2> QED BY <2>1 DEF OtherSlots
<1>2. ASSUME NEW t \in Submitters, SubmitStep(t), ~ProbeHit(t) PROVE FALSE
  <2>1. CASE ProbeMiss(t) \/ PoolFull(t) \/ RecordOk(t) \/ LogSubmitted(t)
    BY <2>1, ProbeMissDoes, PoolFullDoes, RecordOkDoes, LogSubmittedDoes
  <2>2. CASE RecordFails(t)
    BY <2>2, RecordFailsDoes DEF OtherSlots
  <2>3. CASE Publish(t)
    <3>1. sub[t].pc = "logged" /\ OtherSlots(SubSlot(t))
      BY <2>3, PublishDoes
    <3>2. x # SubSlot(t)
      BY <3>1 DEF ExclusiveSlot, SubmitOwns
    <3> QED BY <3>1, <3>2 DEF OtherSlots
  <2> QED BY <1>2, <2>1, <2>2, <2>3 DEF SubmitStep
<1>3. ASSUME NEW p \in Pollers, PollStep(p), ~Skip(p), ~PollEnd(p) PROVE FALSE
  <2>1. CASE Claim(p)
    <3>1. PICK y \in SlotId : slot[y].state = "PENDING" /\ OtherSlots(y)
      BY <2>1, ClaimDoes
    <3> QED BY <3>1 DEF OtherSlots
  <2>2. CASE QueryReady(p) \/ QueryNotReady(p) \/ QueryFails(p)
    BY <2>2, QueryDoes
  <2>3. CASE Confirm(p)
    BY <2>3, ConfirmDoes
  <2>4. CASE LogNotReady(p) \/ LogQueryError(p)
    BY <2>4, MarkDoes
  <2>5. CASE Release(p)
    BY <2>5, ReleaseDoes DEF OtherSlots
  <2>6. CASE Requeue(p)
    <3>1. pol[p].pc = "requeue" /\ OtherSlots(pol[p].at)
      BY <2>6, ReleaseDoes
    <3>2. x # pol[p].at
      BY <3>1 DEF ExclusiveSlot, PollOwns
    <3> QED BY <3>1, <3>2 DEF OtherSlots
  <2> QED BY <1>3, <2>1, <2>2, <2>3, <2>4, <2>5, <2>6 DEF PollStep
<1>4. ASSUME NEW t \in Submitters, NEW s \in Streams, SubmitCall(t, s) PROVE FALSE
  BY <1>4, SubmitCallDoes
<1>5. ~UNCHANGED <<slot, sub, log, nrec, ncalls>>
  OBVIOUS
<1> QED BY <1>1, <1>2, <1>3, <1>4, <1>5, RestDoes DEF Next

LEMMA OpenNext ==
  ASSUME OneFeeder, TypeOK, ExclusiveSlot, FeedsOwn, OpenSlots, [Next]_vars
  PROVE  OpenSlots'
<1> SUFFICES ASSUME NEW t \in Submitters, sub'[t].pc = "probe", NEW i \in sub'[t].open
             PROVE  /\ slot'[<<sub'[t].stream, i>>].state = "FREE"
                    /\ \A m \in 0..(sub'[t].n - 1) : ProbeIndex(sub'[t].start, m) # i
  BY DEF OpenSlots
<1>0. sub'[t].stream \in Streams /\ sub'[t].open \subseteq Indices
  BY TypeNext DEF TypeOK, SubRecord
<1> DEFINE x == <<sub'[t].stream, i>>
<1>1. x \in SlotId /\ x[1] = sub'[t].stream
  BY <1>0 DEF SlotId
<1>2. ASSUME sub'[t].stream = sub[t].stream, sub[t].pc = "probe", ~ProbeHit(t),
             slot[x].state = "FREE"
      PROVE  slot'[x].state = "FREE"
  <2> SUFFICES ASSUME slot'[x].state # "FREE" PROVE FALSE
    OBVIOUS
  <2>1. PICK u \in Submitters : ProbeHit(u) /\ sub[u].stream = x[1]
    BY <1>1, <1>2, FreeStays
  <2>2. sub[u].pc = "probe" /\ sub[u].stream \in Feeds[u] /\ sub[t].stream \in Feeds[t]
    BY <1>2, <2>1 DEF ProbeHit, FeedsOwn
  <2>3. sub[u].stream = sub[t].stream
    BY <1>1, <1>2, <2>1
  <2> QED BY <1>2, <2>1, <2>2, <2>3 DEF OneFeeder
<1>3. CASE sub'[t] = sub[t]
  <2>1. slot[x].state = "FREE" /\ \A m \in 0..(sub[t].n - 1) : ProbeIndex(sub[t].start, m) # i
    BY <1>3 DEF OpenSlots
  <2>2. ~ProbeHit(t)
    BY <1>3, ProbeHitDoes
  <2> QED BY <1>2, <1>3, <2>1, <2>2
<1>4. ASSUME NEW s \in Streams, SubmitCall(t, s)
      PROVE  /\ slot'[x].state = "FREE"
             /\ \A m \in 0..(sub'[t].n - 1) : ProbeIndex(sub'[t].start, m) # i
  <2>1. /\ sub'[t].n = 0 /\ sub'[t].stream = s /\ sub'[t].open = FreeIndices(s)
        /\ slot' = slot
    BY <1>4 DEF SubmitCall, TypeOK
  <2> QED BY <2>1 DEF FreeIndices
<1>5. ASSUME ProbeMiss(t)
      PROVE  /\ slot'[x].state = "FREE"
             /\ \A m \in 0..(sub'[t].n - 1) : ProbeIndex(sub'[t].start, m) # i
  <2>1. /\ sub[t].pc = "probe" /\ slot' = slot /\ sub[t].n \in Nat
        /\ slot[<<sub[t].stream, ProbeIndex(sub[t].start, sub[t].n)>>].state # "FREE"
        /\ sub'[t].n = sub[t].n + 1 /\ sub'[t].start = sub[t].start
        /\ sub'[t].stream = sub[t].stream /\ sub'[t].open = sub[t].open
    BY <1>5 DEF ProbeMiss, TypeOK, SubRecord
  <2>2. slot[x].state = "FREE" /\ \A m \in 0..(sub[t].n - 1) : ProbeIndex(sub[t].start, m) # i
    BY <2>1 DEF OpenSlots
  <2>3. ProbeIndex(sub[t].start, sub[t].n) # i
    BY <2>1, <2>2
  <2>4. \A m \in 0..(sub'[t].n - 1) : m \in 0..(sub[t].n - 1) \/ m = sub[t].n
    BY <2>1
  <2> QED BY <2>1, <2>2, <2>3, <2>4
<1>6. ASSUME SubmitStep(t) PROVE ProbeMiss(t)
  <2>1. ~ProbeHit(t)
    BY ProbeHitDoes
  <2>2. ~PoolFull(t) /\ ~RecordOk(t) /\ ~RecordFails(t) /\ ~LogSubmitted(t) /\ ~Publish(t)
    BY PoolFullDoes, RecordOkDoes, RecordFailsDoes, LogSubmittedDoes, PublishDoes
  <2> QED BY <1>6, <2>1, <2>2 DEF SubmitStep
<1>7. ASSUME NEW u \in Submitters, u # t, NEW s \in Streams, SubmitCall(u, s) \/ SubmitStep(u)
      PROVE  sub'[t] = sub[t]
  <2>1. CASE SubmitCall(u, s)
    BY <1>7, <2>1, SubmitCallDoes DEF Others
  <2>2. CASE SubmitStep(u)
    BY <1>7, <2>2, ProbeMissDoes, ProbeHitDoes, PoolFullDoes, RecordOkDoes, RecordFailsDoes,
       LogSubmittedDoes, PublishDoes DEF Others, SubmitStep
  <2> QED BY <1>7, <2>1, <2>2
<1>8. ASSUME NEW p \in Pollers, PollStep(p), ~Skip(p), ~PollEnd(p) PROVE sub'[t] = sub[t]
  BY <1>8, MiddleOfPoll
<1>9. ASSUME UNCHANGED <<slot, sub, log, nrec, ncalls>> PROVE sub'[t] = sub[t]
  BY <1>9
<1>10. ASSUME NEW u \in Submitters, u # t, SubmitStep(u) PROVE sub'[t] = sub[t]
  BY <1>7, <1>10, Sizes
<1> HIDE DEF x
<1>11. x = <<sub'[t].stream, i>>
  BY DEF x
<1> QED BY <1>3, <1>4, <1>5, <1>6, <1>7, <1>8, <1>9, <1>10, <1>11, RestDoes DEF Next

\* Where each stream has one submitting thread and the pool's size divides the
\* cursor's range, a refused submit found every slot in use, whatever the sizes:
\* the slots of the stream it saw free are still free, and it has probed them all.
THEOREM RefusalIsHonest ==
  ASSUME OneFeeder, CursorMod % SlotsPerStream = 0
  PROVE  Spec => []PoolFullHonest
<1> DEFINE Old == TypeOK /\ ExclusiveSlot
           New == FeedsOwn /\ OpenSlots
<1>1. TypeOK /\ OpenSlots => PoolFullHonest
  <2> SUFFICES ASSUME TypeOK, OpenSlots, NEW t \in Submitters, sub[t].pc = "probe",
                      sub[t].n = SlotsPerStream, NEW i \in sub[t].open
               PROVE  FALSE
    BY DEF PoolFullHonest
  <2>1. i \in Indices /\ sub[t].start \in 0..(CursorMod - 1)
    BY DEF TypeOK, SubRecord
  <2>2. PICK m \in Indices : ProbeIndex(sub[t].start, m) = i
    BY <2>1, ProbesVisitAll
  <2> QED BY <2>2 DEF OpenSlots, Indices
<1>2. Init => New
  BY StreamInit
<1>3. Old /\ New /\ [Next]_vars => New'
  BY FeedsNext, OpenNext
<1>4. Spec => []Old
  BY TypeCorrect, Exclusive, PTL
<1> HIDE DEF Old, New
<1>5. Spec => [](Old /\ New)
  BY <1>2, <1>3, <1>4, PTL DEF Spec
<1> QED BY <1>1, <1>5, PTL DEF Old, New
=============================================================================
