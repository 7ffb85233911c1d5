---------------------------- MODULE VerdictProofs ----------------------------
(***************************************************************************)
(* Proofs about what the four-card example concludes, for any ranks,       *)
(* streams and programs of which the example's workers are one: its        *)
(* verdict is right (VerdictIsRight).                                      *)
(*                                                                         *)
(* First the workers' program, step by step, and which of its steps are    *)
(* logged in which line (Line, Written).  VerdictInv then says what a      *)
(* worker at a step has submitted and its device has completed, of which   *)
(* steps the copies of the rings are, whenever they were taken, and that a *)
(* snapshot of a job that had stalled stays the last word.  A report on    *)
(* such a snapshot is as the example asserts (StalledAsserts); and if a    *)
(* report is, the hosts stand where the hang holds them (AssertedAt).      *)
(***************************************************************************)
EXTENDS FourCardProofs

-----------------------------------------------------------------------------
(* The program of a worker, step by step.                                  *)

\* The steps of which the workers' programs are made.
WorkerSteps ==
    {Record("REQUEST_BEGIN", "none", 101), Record("SCHEDULER_BEGIN", "none", 1),
     Record("MODEL_BEGIN", "compute", 1), Submit("record", "compute", 1000),
     Record("EVENT_RECORD", "compute", 1000), Record("KV_BEGIN", "transfer", 2000),
     Submit("wait", "transfer", 1000), Record("EVENT_WAIT", "transfer", 1000),
     Submit("record", "transfer", 2000), Record("EVENT_RECORD", "transfer", 2000),
     Record("KV_END", "transfer", 2000), Submit("wait", "compute", 2000),
     Record("EVENT_WAIT", "compute", 2000), Record("MODEL_END", "compute", 1)} \cup
    {Record("DEVICE_SYNC_BEGIN", "none", n) : n \in {1, 2}} \cup
    {Record("DEVICE_SYNC_END", "none", n) : n \in {1, 2}} \cup
    {Record("DEVICE_CONFIRMED", "none", n) : n \in {1, 2}} \cup
    {Record("HCCL_BEGIN", "default", n) : n \in {1, 2}} \cup
    {Submit("collective", "default", n) : n \in {1, 2}} \cup
    {Record("HCCL_END", "default", n) : n \in {1, 2}} \cup
    {Record("SCHEDULER_END", "none", 1), Record("SCHEDULER_BEGIN", "none", 2),
     Record("KV_BEGIN", "transfer", 3000), Synchronize, Gate}

\* Two sequences, one after the other.
LEMMA Joined ==
  ASSUME NEW S, NEW a \in Seq(S), NEW b \in Seq(S)
  PROVE  /\ a \o b \in Seq(S) /\ Len(a \o b) = Len(a) + Len(b)
         /\ \A i \in 1..Len(a) : (a \o b)[i] = a[i]
         /\ \A i \in (Len(a) + 1)..(Len(a) + Len(b)) : (a \o b)[i] = b[i - Len(a)]
OBVIOUS

\* The first step, call by call.
LEMMA FirstStepIs ==
    /\ FirstStep \in Seq(WorkerSteps) /\ Len(FirstStep) = 18
    /\ FirstStep[1] = Record("REQUEST_BEGIN", "none", 101)
    /\ FirstStep[2] = Record("SCHEDULER_BEGIN", "none", 1)
    /\ FirstStep[3] = Record("MODEL_BEGIN", "compute", 1)
    /\ FirstStep[4] = Submit("record", "compute", 1000)
    /\ FirstStep[5] = Record("EVENT_RECORD", "compute", 1000)
    /\ FirstStep[6] = Record("KV_BEGIN", "transfer", 2000)
    /\ FirstStep[7] = Submit("wait", "transfer", 1000)
    /\ FirstStep[8] = Record("EVENT_WAIT", "transfer", 1000)
    /\ FirstStep[9] = Submit("record", "transfer", 2000)
    /\ FirstStep[10] = Record("EVENT_RECORD", "transfer", 2000)
    /\ FirstStep[11] = Record("KV_END", "transfer", 2000)
    /\ FirstStep[12] = Submit("wait", "compute", 2000)
    /\ FirstStep[13] = Record("EVENT_WAIT", "compute", 2000)
    /\ FirstStep[14] = Record("MODEL_END", "compute", 1)
    /\ FirstStep[15] = Record("DEVICE_SYNC_BEGIN", "none", 1)
    /\ FirstStep[16] = Synchronize
    /\ FirstStep[17] = Record("DEVICE_SYNC_END", "none", 1)
    /\ FirstStep[18] = Record("DEVICE_CONFIRMED", "none", 1)
<1>3. FirstStep \in Seq(WorkerSteps)
  BY DEF WorkerSteps, FirstStep
<1>4. /\ Len(FirstStep) = 18
      /\ FirstStep[1] = Record("REQUEST_BEGIN", "none", 101)
      /\ FirstStep[2] = Record("SCHEDULER_BEGIN", "none", 1)
      /\ FirstStep[3] = Record("MODEL_BEGIN", "compute", 1)
      /\ FirstStep[4] = Submit("record", "compute", 1000)
      /\ FirstStep[5] = Record("EVENT_RECORD", "compute", 1000)
      /\ FirstStep[6] = Record("KV_BEGIN", "transfer", 2000)
  BY DEF FirstStep
<1>5. /\ FirstStep[7] = Submit("wait", "transfer", 1000)
      /\ FirstStep[8] = Record("EVENT_WAIT", "transfer", 1000)
      /\ FirstStep[9] = Submit("record", "transfer", 2000)
      /\ FirstStep[10] = Record("EVENT_RECORD", "transfer", 2000)
      /\ FirstStep[11] = Record("KV_END", "transfer", 2000)
      /\ FirstStep[12] = Submit("wait", "compute", 2000)
  BY DEF FirstStep
<1>6. /\ FirstStep[13] = Record("EVENT_WAIT", "compute", 2000)
      /\ FirstStep[14] = Record("MODEL_END", "compute", 1)
      /\ FirstStep[15] = Record("DEVICE_SYNC_BEGIN", "none", 1)
      /\ FirstStep[16] = Synchronize
      /\ FirstStep[17] = Record("DEVICE_SYNC_END", "none", 1)
      /\ FirstStep[18] = Record("DEVICE_CONFIRMED", "none", 1)
  BY DEF FirstStep
<1> QED BY <1>3, <1>4, <1>5, <1>6

\* A collective, call by call.
LEMMA CollectiveIs ==
  ASSUME NEW n \in {1, 2}
  PROVE  /\ AllReduce(n) \in Seq(WorkerSteps) /\ Len(AllReduce(n)) = 3
         /\ AllReduce(n)[1] = Record("HCCL_BEGIN", "default", n)
         /\ AllReduce(n)[2] = Submit("collective", "default", n)
         /\ AllReduce(n)[3] = Record("HCCL_END", "default", n)
<1>1. AllReduce(n) \in Seq(WorkerSteps)
  BY DEF WorkerSteps, AllReduce
<1> QED BY <1>1 DEF AllReduce

\* The first collective and the end of the first step.
LEMMA FirstCollectiveIs ==
    /\ FirstCollective \in Seq(WorkerSteps) /\ Len(FirstCollective) = 7
    /\ FirstCollective[1] = Record("HCCL_BEGIN", "default", 1)
    /\ FirstCollective[2] = Submit("collective", "default", 1)
    /\ FirstCollective[3] = Record("HCCL_END", "default", 1)
    /\ FirstCollective[4] = Synchronize
    /\ FirstCollective[5] = Record("DEVICE_CONFIRMED", "none", 1)
    /\ FirstCollective[6] = Record("SCHEDULER_END", "none", 1)
    /\ FirstCollective[7] = Record("SCHEDULER_BEGIN", "none", 2)
<1> DEFINE rest == << Synchronize, Record("DEVICE_CONFIRMED", "none", 1),
                      Record("SCHEDULER_END", "none", 1), Record("SCHEDULER_BEGIN", "none", 2) >>
<1>1. rest \in Seq(WorkerSteps) /\ Len(rest) = 4
  BY DEF WorkerSteps
<1>2. /\ rest[1] = Synchronize /\ rest[2] = Record("DEVICE_CONFIRMED", "none", 1)
      /\ rest[3] = Record("SCHEDULER_END", "none", 1)
      /\ rest[4] = Record("SCHEDULER_BEGIN", "none", 2)
  OBVIOUS
<1>3. FirstCollective = AllReduce(1) \o rest
  BY DEF FirstCollective
<1> HIDE DEF rest
<1>4. /\ AllReduce(1) \in Seq(WorkerSteps) /\ Len(AllReduce(1)) = 3
      /\ AllReduce(1)[1] = Record("HCCL_BEGIN", "default", 1)
      /\ AllReduce(1)[2] = Submit("collective", "default", 1)
      /\ AllReduce(1)[3] = Record("HCCL_END", "default", 1)
  BY CollectiveIs
<1>5. /\ FirstCollective \in Seq(WorkerSteps) /\ Len(FirstCollective) = 7
      /\ \A i \in 1..3 : FirstCollective[i] = AllReduce(1)[i]
      /\ \A i \in 4..7 : FirstCollective[i] = rest[i - 3]
  <2>1. /\ AllReduce(1) \o rest \in Seq(WorkerSteps)
        /\ Len(AllReduce(1) \o rest) = Len(AllReduce(1)) + Len(rest)
        /\ \A i \in 1..Len(AllReduce(1)) : (AllReduce(1) \o rest)[i] = AllReduce(1)[i]
        /\ \A i \in (Len(AllReduce(1)) + 1)..(Len(AllReduce(1)) + Len(rest)) :
              (AllReduce(1) \o rest)[i] = rest[i - Len(AllReduce(1))]
    BY <1>1, <1>4, Joined
  <2> QED BY <1>1, <1>3, <1>4, <2>1
<1>6. /\ FirstCollective[4] = rest[1] /\ FirstCollective[5] = rest[2]
      /\ FirstCollective[6] = rest[3] /\ FirstCollective[7] = rest[4]
  BY <1>5
<1> QED BY <1>2, <1>4, <1>5, <1>6

\* The second step, in which the missing rank is held.
LEMMA SecondCollectiveIs ==
  ASSUME NEW r
  PROVE  /\ SecondCollective(r) \in Seq(WorkerSteps)
         /\ r = MissingRank => /\ Len(SecondCollective(r)) = 2
                              /\ SecondCollective(r)[1] = Record("KV_BEGIN", "transfer", 3000)
                              /\ SecondCollective(r)[2] = Gate
         /\ r # MissingRank => /\ Len(SecondCollective(r)) = 7
                              /\ SecondCollective(r)[1] = Record("HCCL_BEGIN", "default", 2)
                              /\ SecondCollective(r)[2] = Submit("collective", "default", 2)
                              /\ SecondCollective(r)[3] = Record("HCCL_END", "default", 2)
                              /\ SecondCollective(r)[4] = Record("DEVICE_SYNC_BEGIN", "none", 2)
                              /\ SecondCollective(r)[5] = Synchronize
                              /\ SecondCollective(r)[6] = Record("DEVICE_SYNC_END", "none", 2)
                              /\ SecondCollective(r)[7] = Record("DEVICE_CONFIRMED", "none", 2)
<1>1. CASE r = MissingRank
  <2>1. <<Record("KV_BEGIN", "transfer", 3000), Gate>> \in Seq(WorkerSteps)
    BY DEF WorkerSteps
  <2> QED BY <1>1, <2>1 DEF SecondCollective
<1>2. CASE r # MissingRank
  <2> DEFINE rest == << Record("DEVICE_SYNC_BEGIN", "none", 2), Synchronize,
                        Record("DEVICE_SYNC_END", "none", 2),
                        Record("DEVICE_CONFIRMED", "none", 2) >>
  <2>1. rest \in Seq(WorkerSteps) /\ Len(rest) = 4
    BY DEF WorkerSteps
  <2>2. /\ rest[1] = Record("DEVICE_SYNC_BEGIN", "none", 2) /\ rest[2] = Synchronize
        /\ rest[3] = Record("DEVICE_SYNC_END", "none", 2)
        /\ rest[4] = Record("DEVICE_CONFIRMED", "none", 2)
    OBVIOUS
  <2>3. SecondCollective(r) = AllReduce(2) \o rest
    BY <1>2 DEF SecondCollective
  <2> HIDE DEF rest
  <2>4. /\ AllReduce(2) \in Seq(WorkerSteps) /\ Len(AllReduce(2)) = 3
        /\ AllReduce(2)[1] = Record("HCCL_BEGIN", "default", 2)
        /\ AllReduce(2)[2] = Submit("collective", "default", 2)
        /\ AllReduce(2)[3] = Record("HCCL_END", "default", 2)
    BY CollectiveIs
  <2>5. /\ AllReduce(2) \o rest \in Seq(WorkerSteps)
        /\ Len(AllReduce(2) \o rest) = Len(AllReduce(2)) + Len(rest)
        /\ \A i \in 1..Len(AllReduce(2)) : (AllReduce(2) \o rest)[i] = AllReduce(2)[i]
        /\ \A i \in (Len(AllReduce(2)) + 1)..(Len(AllReduce(2)) + Len(rest)) :
              (AllReduce(2) \o rest)[i] = rest[i - Len(AllReduce(2))]
    BY <2>1, <2>4, Joined
  <2>6. /\ SecondCollective(r) \in Seq(WorkerSteps) /\ Len(SecondCollective(r)) = 7
        /\ \A i \in 1..3 : SecondCollective(r)[i] = AllReduce(2)[i]
        /\ \A i \in 4..7 : SecondCollective(r)[i] = rest[i - 3]
    BY <2>1, <2>3, <2>4, <2>5
  <2>7. /\ SecondCollective(r)[4] = rest[1] /\ SecondCollective(r)[5] = rest[2]
        /\ SecondCollective(r)[6] = rest[3] /\ SecondCollective(r)[7] = rest[4]
    BY <2>6
  <2> QED BY <1>2, <2>2, <2>4, <2>6, <2>7
<1> QED BY <1>1, <1>2

\* The parts of a worker's program.
LEMMA WorkerParts ==
  ASSUME NEW r
  PROVE  LET W == Worker(r) IN
         /\ Len(W) = IF r = MissingRank THEN 27 ELSE 32
         /\ \A i \in 1..18 : W[i] = FirstStep[i]
         /\ \A i \in 1..7 : W[18 + i] = FirstCollective[i]
         /\ \A i \in 1..Len(SecondCollective(r)) : W[25 + i] = SecondCollective(r)[i]
<1> DEFINE a == FirstStep \o FirstCollective
<1> DEFINE b == SecondCollective(r)
<1>1. FirstStep \in Seq(WorkerSteps) /\ Len(FirstStep) = 18
  BY FirstStepIs
<1>2. FirstCollective \in Seq(WorkerSteps) /\ Len(FirstCollective) = 7
  BY FirstCollectiveIs
<1>3. b \in Seq(WorkerSteps) /\ Len(b) = IF r = MissingRank THEN 2 ELSE 7
  BY SecondCollectiveIs
<1>4. /\ a \in Seq(WorkerSteps) /\ Len(a) = Len(FirstStep) + Len(FirstCollective)
      /\ \A i \in 1..Len(FirstStep) : a[i] = FirstStep[i]
      /\ \A i \in (Len(FirstStep) + 1)..(Len(FirstStep) + Len(FirstCollective)) :
            a[i] = FirstCollective[i - Len(FirstStep)]
  BY <1>1, <1>2, Joined
<1>5. Worker(r) = a \o b
  BY DEF Worker
<1> HIDE DEF a, b
<1>6. a \in Seq(WorkerSteps) /\ Len(a) = 25 /\ (\A i \in 1..18 : a[i] = FirstStep[i])
      /\ \A i \in 1..7 : a[18 + i] = FirstCollective[i]
  <2>1. \A i \in 1..7 : 18 + i \in 19..25 /\ (18 + i) - 18 = i
    OBVIOUS
  <2> QED BY <1>1, <1>2, <1>4, <2>1
<1>7. /\ a \o b \in Seq(WorkerSteps) /\ Len(a \o b) = Len(a) + Len(b)
      /\ \A i \in 1..Len(a) : (a \o b)[i] = a[i]
      /\ \A i \in (Len(a) + 1)..(Len(a) + Len(b)) : (a \o b)[i] = b[i - Len(a)]
  <2>1. a \in Seq(WorkerSteps) /\ b \in Seq(WorkerSteps)
    BY <1>3, <1>6
  <2> QED BY <2>1, Joined
<1>8. \A i \in 1..25 : Worker(r)[i] = a[i]
  BY <1>5, <1>6, <1>7
<1>9. \A i \in 1..Len(b) : Worker(r)[25 + i] = b[i]
  <2>1. \A i \in 1..Len(b) : 25 + i \in 26..(25 + Len(b)) /\ (25 + i) - 25 = i
    BY <1>3
  <2>2. ASSUME NEW i \in 26..(25 + Len(b)) PROVE Worker(r)[i] = b[i - 25]
    <3>1. i \in (Len(a) + 1)..(Len(a) + Len(b)) /\ i - Len(a) = i - 25
      BY <1>3, <1>6
    <3>2. (a \o b)[i] = b[i - Len(a)]
      BY <1>7, <3>1
    <3> QED BY <1>5, <3>1, <3>2
  <2> QED BY <2>1, <2>2
<1>10. Len(Worker(r)) = IF r = MissingRank THEN 27 ELSE 32
  BY <1>3, <1>5, <1>6, <1>7
<1>11. \A i \in 1..7 : 18 + i \in 1..25
  OBVIOUS
<1>12. \A i \in 1..18 : i \in 1..25
  OBVIOUS
<1>13. \A i \in 1..18 : Worker(r)[i] = FirstStep[i]
  BY <1>6, <1>8, <1>12
<1>14. \A i \in 1..7 : Worker(r)[18 + i] = FirstCollective[i]
  BY <1>6, <1>8, <1>11
<1> QED BY <1>9, <1>10, <1>13, <1>14 DEF b

\* Which steps submit, wait and end, and where the events of the second step
\* and the scopes of a transfer begin and end.
Shape(r, k, x) ==
    /\ x.do = "submit" <=> k \in {4, 7, 9, 12, 20} \/ (k = 27 /\ r # MissingRank)
    /\ x.do = "synchronize" <=> k \in {16, 22, 30}
    /\ x.do = "gate" <=> k = 27 /\ r = MissingRank
    /\ x.do \in {"record", "submit", "synchronize", "gate"}
    /\ Is(x, "SCHEDULER_BEGIN", 2) => k = 25
    /\ Is(x, "HCCL_BEGIN", 2) => k = 26 /\ r # MissingRank
    /\ Is(x, "HCCL_END", 2) => k = 28
    /\ Is(x, "DEVICE_SYNC_END", 2) => k = 31
    /\ x.type = "KV_BEGIN" => k \in {6, 26}

\* What the steps of the three parts are.
LEMMA FirstStepShape ==
  ASSUME NEW r, NEW k \in 1..18 PROVE Shape(r, k, FirstStep[k])
<1>1. k \in 1..3 \/ k \in 4..6 \/ k \in 7..9 \/ k \in 10..12 \/ k \in 13..15 \/ k \in 16..18
  OBVIOUS
<1>2. CASE k \in 1..3
  <2> QED BY <1>2, FirstStepIs DEF Shape, Record, Submit, Synchronize, Step, Is
<1>3. CASE k \in 4..6
  <2> QED BY <1>3, FirstStepIs DEF Shape, Record, Submit, Synchronize, Step, Is
<1>4. CASE k \in 7..9
  <2> QED BY <1>4, FirstStepIs DEF Shape, Record, Submit, Synchronize, Step, Is
<1>5. CASE k \in 10..12
  <2> QED BY <1>5, FirstStepIs DEF Shape, Record, Submit, Synchronize, Step, Is
<1>6. CASE k \in 13..15
  <2> QED BY <1>6, FirstStepIs DEF Shape, Record, Submit, Synchronize, Step, Is
<1>7. CASE k \in 16..18
  <2> QED BY <1>7, FirstStepIs DEF Shape, Record, Submit, Synchronize, Step, Is
<1> QED BY <1>1, <1>2, <1>3, <1>4, <1>5, <1>6, <1>7

LEMMA FirstCollectiveShape ==
  ASSUME NEW r, NEW k \in 1..7 PROVE Shape(r, 18 + k, FirstCollective[k])
<1>1. k \in 1..2 \/ k \in 3..4 \/ k \in 5..7
  OBVIOUS
<1>2. CASE k \in 1..2
  BY <1>2, FirstCollectiveIs DEF Shape, Record, Submit, Step, Is
<1>3. CASE k \in 3..4
  BY <1>3, FirstCollectiveIs DEF Shape, Record, Synchronize, Step, Is
<1>4. CASE k \in 5..7
  BY <1>4, FirstCollectiveIs DEF Shape, Record, Step, Is
<1> QED BY <1>1, <1>2, <1>3, <1>4

LEMMA SecondCollectiveShape ==
  ASSUME NEW r, NEW k \in 1..Len(SecondCollective(r))
  PROVE  Shape(r, 25 + k, SecondCollective(r)[k])
<1>1. CASE r = MissingRank
  <2>1. k \in 1..2
    <3>1. Len(SecondCollective(r)) = 2
      BY <1>1, SecondCollectiveIs
    <3> QED BY <3>1
  <2> QED BY <1>1, <2>1, SecondCollectiveIs DEF Shape, Record, Gate, Step, Is
<1>2. CASE r # MissingRank
  <2>1. k \in 1..7
    <3>1. Len(SecondCollective(r)) = 7
      BY <1>2, SecondCollectiveIs
    <3> QED BY <3>1
  <2> QED BY <1>2, <2>1, SecondCollectiveIs DEF Shape, Record, Submit, Synchronize, Step, Is
<1> QED BY <1>1, <1>2

LEMMA WorkerShape ==
  ASSUME NEW r, NEW k \in 1..Len(Worker(r)) PROVE Shape(r, k, Worker(r)[k])
<1>1. /\ Len(Worker(r)) = 25 + Len(SecondCollective(r)) /\ Len(SecondCollective(r)) \in Nat
      /\ \A i \in 1..18 : Worker(r)[i] = FirstStep[i]
      /\ \A i \in 1..7 : Worker(r)[18 + i] = FirstCollective[i]
      /\ \A i \in 1..Len(SecondCollective(r)) : Worker(r)[25 + i] = SecondCollective(r)[i]
  <2>1. Len(SecondCollective(r)) = IF r = MissingRank THEN 2 ELSE 7
    BY SecondCollectiveIs
  <2>2. Len(Worker(r)) = IF r = MissingRank THEN 27 ELSE 32
    BY WorkerParts
  <2>3. /\ Len(Worker(r)) = 25 + Len(SecondCollective(r)) /\ Len(SecondCollective(r)) \in Nat
    BY <2>1, <2>2
  <2> QED BY <2>3, WorkerParts
<1>2. CASE k \in 1..18
  BY <1>1, <1>2, FirstStepShape
<1>3. CASE k \in 19..25
  <2>1. k - 18 \in 1..7 /\ 18 + (k - 18) = k
    BY <1>3
  <2>2. Worker(r)[k] = FirstCollective[k - 18]
    BY <1>1, <2>1
  <2> QED BY <2>1, <2>2, FirstCollectiveShape
<1>4. CASE k > 25
  <2>1. k - 25 \in 1..Len(SecondCollective(r)) /\ 25 + (k - 25) = k
    BY <1>1, <1>4
  <2>2. Worker(r)[k] = SecondCollective(r)[k - 25]
    BY <1>1, <2>1
  <2> QED BY <2>1, <2>2, SecondCollectiveShape
<1>5. k \in 1..18 \/ k \in 19..25 \/ k > 25
  BY <1>1
<1> QED BY <1>2, <1>3, <1>4, <1>5

\* The steps that the argument is about.
LEMMA WorkerIs ==
  ASSUME NEW r
  PROVE  LET W == Worker(r) IN
         /\ W[4] = Submit("record", "compute", 1000)
         /\ W[7] = Submit("wait", "transfer", 1000)
         /\ W[9] = Submit("record", "transfer", 2000)
         /\ W[12] = Submit("wait", "compute", 2000)
         /\ W[15] = Record("DEVICE_SYNC_BEGIN", "none", 1)
         /\ W[20] = Submit("collective", "default", 1)
         /\ r = MissingRank =>
               /\ Len(W) = 27 /\ W[26] = Record("KV_BEGIN", "transfer", 3000) /\ W[27] = Gate
         /\ r # MissingRank =>
               /\ Len(W) = 32 /\ W[26] = Record("HCCL_BEGIN", "default", 2)
               /\ W[27] = Submit("collective", "default", 2)
               /\ W[28] = Record("HCCL_END", "default", 2)
               /\ W[29] = Record("DEVICE_SYNC_BEGIN", "none", 2) /\ W[30] = Synchronize
<1>1. /\ \A i \in 1..18 : Worker(r)[i] = FirstStep[i]
      /\ \A i \in 1..7 : Worker(r)[18 + i] = FirstCollective[i]
      /\ \A i \in 1..Len(SecondCollective(r)) : Worker(r)[25 + i] = SecondCollective(r)[i]
  BY WorkerParts
<1>2. /\ Worker(r)[4] = FirstStep[4] /\ Worker(r)[7] = FirstStep[7] /\ Worker(r)[9] = FirstStep[9]
      /\ Worker(r)[12] = FirstStep[12] /\ Worker(r)[15] = FirstStep[15]
  BY <1>1
<1>3. 2 \in 1..7 /\ 18 + 2 = 20
  OBVIOUS
<1>4. Worker(r)[20] = FirstCollective[2]
  BY <1>1, <1>3
<1>5. CASE r = MissingRank
  <2>1. 1 \in 1..Len(SecondCollective(r)) /\ 2 \in 1..Len(SecondCollective(r))
    BY <1>5, SecondCollectiveIs
  <2>2. 25 + 1 = 26 /\ 25 + 2 = 27
    OBVIOUS
  <2>3. Worker(r)[26] = SecondCollective(r)[1] /\ Worker(r)[27] = SecondCollective(r)[2]
    BY <1>1, <2>1, <2>2
  <2> QED BY <1>2, <1>4, <1>5, <2>3, FirstStepIs, FirstCollectiveIs, SecondCollectiveIs, WorkerParts
<1>6. CASE r # MissingRank
  <2>1. \A i \in 1..5 : i \in 1..Len(SecondCollective(r))
    BY <1>6, SecondCollectiveIs
  <2>2. \A i \in 1..5 : Worker(r)[25 + i] = SecondCollective(r)[i]
    BY <1>1, <2>1
  <2>3. /\ Worker(r)[26] = SecondCollective(r)[1] /\ Worker(r)[27] = SecondCollective(r)[2]
        /\ Worker(r)[28] = SecondCollective(r)[3] /\ Worker(r)[29] = SecondCollective(r)[4]
        /\ Worker(r)[30] = SecondCollective(r)[5]
    <3>1. 25 + 1 = 26 /\ 25 + 2 = 27 /\ 25 + 3 = 28 /\ 25 + 4 = 29 /\ 25 + 5 = 30
      OBVIOUS
    <3>2. 1 \in 1..5 /\ 2 \in 1..5 /\ 3 \in 1..5 /\ 4 \in 1..5 /\ 5 \in 1..5
      OBVIOUS
    <3> QED BY <2>2, <3>1, <3>2
  <2> QED BY <1>2, <1>4, <1>6, <2>3, FirstStepIs, FirstCollectiveIs, SecondCollectiveIs, WorkerParts
<1> QED BY <1>5, <1>6

-----------------------------------------------------------------------------
(* What the example has come to when it judges.                            *)

\* How many of the first n steps of a program are logged: the line in the log of
\* the step n, if it is.
Line(p, n) == Cardinality({i \in 1..n : p[i].do = "record"})

\* A log has the logged steps of the program so far, each in its line.
Written ==
    \A r \in Ranks :
       /\ Len(log[r]) = Line(job[r], pc[r] - 1)
       /\ \A k \in 1..(pc[r] - 1) : job[r][k].do = "record" =>
             /\ Line(job[r], k) \in DOMAIN log[r]
             /\ log[r][Line(job[r], k)] = job[r][k]
       /\ \A i \in DOMAIN log[r] : \E k \in 1..(pc[r] - 1) :
             /\ job[r][k].do = "record" /\ Line(job[r], k) = i
             /\ log[r][i] = job[r][k]

Staged == Attended => job = [r \in Ranks |-> Worker(r)]

\* What a worker at step n has submitted to each stream.
Sent(r, s, n) ==
    CASE s = "compute" ->
            IF n <= 4 THEN << >>
            ELSE IF n <= 12 THEN << Submit("record", "compute", 1000) >>
            ELSE << Submit("record", "compute", 1000), Submit("wait", "compute", 2000) >>
      [] s = "transfer" ->
            IF n <= 7 THEN << >>
            ELSE IF n <= 9 THEN << Submit("wait", "transfer", 1000) >>
            ELSE << Submit("wait", "transfer", 1000), Submit("record", "transfer", 2000) >>
      [] s = "default" ->
            IF n <= 20 THEN << >>
            ELSE IF n <= 27 \/ r = MissingRank THEN << Submit("collective", "default", 1) >>
            ELSE << Submit("collective", "default", 1), Submit("collective", "default", 2) >>
      [] OTHER -> << >>
SentOut == Attended => \A r \in Ranks, s \in Streams : queue[r][s] = Sent(r, s, pc[r])

\* What a synchronization has waited for; nobody gets past the second collective.
Synchronized ==
    Attended => \A r \in Ranks :
       /\ pc[r] > 16 => done[r]["compute"] = 2 /\ done[r]["transfer"] = 2
       /\ pc[r] > 22 => done[r]["default"] >= 1
       /\ done[r]["default"] <= 1
       /\ pc[r] <= 30 /\ (r = MissingRank => pc[r] <= 27)

\* A copy of a ring was taken when its host was at some step; the latest is kept.
Taken ==
    /\ \A f, g \in files : f.rank = g.rank => f = g
    /\ Attended => \A f \in files : \E k \in 1..pc[f.rank] :
                      f.events = Line(job[f.rank], k - 1)

HangSeen ==
    h \in {"dumping", "reaping", "judging", "passed", "failed"} => pc[MissingRank] > 25

Judged == (h = "passed" => Asserts(Report)) /\ (h = "failed" => ~Asserts(Report))

\* The copy of a ring with all that its host has logged.
Full(r) == [rank |-> r, events |-> Len(log[r])]

\* A snapshot of a job that had stalled, and that nothing has moved since, while
\* it is written and when it has been.
Snapped == snap.stalled => /\ Attended /\ Stalled
                           /\ \A r \in Ranks \ snap.todo : Full(r) \in files
Quieted == quiet => /\ Attended /\ Stalled
                    /\ \A r \in Ranks : Full(r) \in files

VerdictInv ==
    /\ Typed /\ Written /\ Staged /\ SentOut /\ Synchronized
    /\ Taken /\ HangSeen /\ Judged /\ Snapped /\ Quieted

-----------------------------------------------------------------------------
(* The lines of a log.                                                     *)

\* A line more for each logged step.
LEMMA LineIs ==
  ASSUME NEW p, NEW n \in Nat
  PROVE  /\ Line(p, n) \in Nat /\ Line(p, 0) = 0
         /\ Line(p, n + 1) = IF p[n + 1].do = "record" THEN Line(p, n) + 1 ELSE Line(p, n)
<1> DEFINE S(m) == {i \in 1..m : p[i].do = "record"}
<1>1. \A m \in Nat : IsFiniteSet(S(m)) /\ Cardinality(S(m)) \in Nat
  <2> SUFFICES ASSUME NEW m \in Nat PROVE IsFiniteSet(S(m)) /\ Cardinality(S(m)) \in Nat
    OBVIOUS
  <2>1. IsFiniteSet(1..m)
    BY FS_Interval
  <2>2. S(m) \in SUBSET (1..m)
    OBVIOUS
  <2> QED BY <2>1, <2>2, FS_Subset, FS_CardinalityType
<1>2. Cardinality(S(0)) = 0
  <2>1. S(0) = {}
    OBVIOUS
  <2> QED BY <2>1, FS_EmptySet
<1>3. Cardinality(S(n + 1)) = IF p[n + 1].do = "record"
                              THEN Cardinality(S(n)) + 1 ELSE Cardinality(S(n))
  <2>1. S(n + 1) = IF p[n + 1].do = "record" THEN S(n) \cup {n + 1} ELSE S(n)
    <3>1. 1..(n + 1) = (1..n) \cup {n + 1}
      OBVIOUS
    <3> QED BY <3>1
  <2>2. n + 1 \notin S(n)
    OBVIOUS
  <2>3. Cardinality(S(n) \cup {n + 1}) = Cardinality(S(n)) + 1
    BY <1>1, <2>2, FS_AddElement
  <2> QED BY <2>1, <2>3
<1> QED BY <1>1, <1>2, <1>3 DEF Line

\* Lines come in the order of the steps.
LEMMA LineGrows ==
  ASSUME NEW p, NEW m \in Nat, NEW n \in Nat
  PROVE  /\ m <= n => Line(p, m) <= Line(p, n)
         /\ m < n /\ p[n].do = "record" => Line(p, m) < Line(p, n)
<1>1. ASSUME NEW k \in Nat, m <= k PROVE Line(p, m) <= Line(p, k)
  <2>1. IsFiniteSet({i \in 1..k : p[i].do = "record"})
    <3>1. IsFiniteSet(1..k)
      BY FS_Interval
    <3>2. {i \in 1..k : p[i].do = "record"} \in SUBSET (1..k)
      OBVIOUS
    <3> QED BY <3>1, <3>2, FS_Subset
  <2>2. {i \in 1..m : p[i].do = "record"} \in SUBSET {i \in 1..k : p[i].do = "record"}
    <3>1. \A i \in 1..m : i \in 1..k
      BY <1>1
    <3> QED BY <3>1
  <2> QED BY <2>1, <2>2, FS_Subset DEF Line
<1>2. ASSUME m < n, p[n].do = "record" PROVE Line(p, m) < Line(p, n)
  <2>1. n - 1 \in Nat /\ m <= n - 1 /\ (n - 1) + 1 = n
    BY <1>2
  <2>2. Line(p, m) <= Line(p, n - 1)
    BY <1>1, <2>1
  <2>3. Line(p, n) = Line(p, n - 1) + 1
    BY <1>2, <2>1, LineIs
  <2>4. Line(p, m) \in Nat /\ Line(p, n - 1) \in Nat
    BY <2>1, LineIs
  <2> QED BY <2>2, <2>3, <2>4
<1> QED BY <1>1, <1>2

\* The host of a rank keeps its log.
LEMMA HostWritten ==
  ASSUME Typed, Written, NEW r \in Ranks, HostStep(r)
  PROVE  Written'
<1> DEFINE x == job[r][pc[r]]
<1>1. /\ job' = job /\ x \in Steps
      /\ pc[r] \in 1..Len(job[r]) /\ pc'[r] = pc[r] + 1 /\ pc'[r] - 1 = pc[r]
      /\ \A q \in Ranks \ {r} : pc'[q] = pc[q] /\ log'[q] = log[q]
      /\ log'[r] = IF x.do = "record" THEN Append(log[r], x) ELSE log[r]
  BY HostFacts
<1>2. log[r] \in Seq(Steps) /\ pc[r] \in Nat /\ pc[r] - 1 \in Nat /\ (pc[r] - 1) + 1 = pc[r]
  <2>1. log[r] \in Seq(Steps)
    BY DEF Typed, TypeOK
  <2>2. pc[r] \in Nat /\ pc[r] \in 1..Len(job[r])
    BY <1>1, HostAt
  <2> QED BY <2>1, <2>2
<1> DEFINE n == pc[r]
<1> DEFINE p == job[r]
<1>3. /\ Len(log[r]) = Line(p, n - 1)
      /\ \A k \in 1..(n - 1) : p[k].do = "record" =>
             /\ Line(p, k) \in DOMAIN log[r] /\ log[r][Line(p, k)] = p[k]
      /\ \A i \in DOMAIN log[r] : \E k \in 1..(n - 1) :
             p[k].do = "record" /\ Line(p, k) = i /\ log[r][i] = p[k]
  BY DEF Written
<1>4. Line(p, n) = IF x.do = "record" THEN Line(p, n - 1) + 1 ELSE Line(p, n - 1)
  BY <1>2, LineIs
<1>5. /\ x = p[n] /\ n \in Nat /\ n - 1 \in Nat /\ n \in 1..n
      /\ \A k \in 1..n : k \in 1..(n - 1) \/ k = n
      /\ \A k \in 1..(n - 1) : k \in 1..n
  BY <1>1, <1>2
<1> HIDE DEF x, n, p
<1>6. /\ Len(log'[r]) = Line(p, n)
      /\ \A k \in 1..n : p[k].do = "record" =>
             /\ Line(p, k) \in DOMAIN log'[r] /\ log'[r][Line(p, k)] = p[k]
      /\ \A i \in DOMAIN log'[r] : \E k \in 1..n :
             p[k].do = "record" /\ Line(p, k) = i /\ log'[r][i] = p[k]
  <2>1. CASE x.do # "record"
    <3>1. log'[r] = log[r] /\ Line(p, n) = Line(p, n - 1)
      BY <2>1, <1>1, <1>4
    <3>2. \A k \in 1..n : p[k].do = "record" => k \in 1..(n - 1)
      BY <2>1, <1>5
    <3>3. \A k \in 1..n : p[k].do = "record" =>
             /\ Line(p, k) \in DOMAIN log[r] /\ log[r][Line(p, k)] = p[k]
      BY <3>2, <1>3
    <3>4. \A i \in DOMAIN log[r] : \E k \in 1..n :
             p[k].do = "record" /\ Line(p, k) = i /\ log[r][i] = p[k]
      BY <1>3, <1>5
    <3> QED BY <3>1, <3>3, <3>4, <1>3
  <2>2. CASE x.do = "record"
    <3>1. /\ Len(log'[r]) = Len(log[r]) + 1 /\ Len(log'[r]) \in Nat
          /\ DOMAIN log'[r] = 1..(Len(log[r]) + 1) /\ DOMAIN log[r] = 1..Len(log[r])
          /\ log'[r][Len(log[r]) + 1] = x /\ \A i \in DOMAIN log[r] : log'[r][i] = log[r][i]
      BY <2>2, <1>1, <1>2
    <3>2. Len(log'[r]) = Line(p, n) /\ Line(p, n) \in DOMAIN log'[r] /\ log'[r][Line(p, n)] = p[n]
      BY <2>2, <3>1, <1>3, <1>4, <1>5, <1>2
    <3>3. \A i \in DOMAIN log'[r] : i \in DOMAIN log[r] \/ i = Line(p, n)
      BY <3>1, <3>2, <1>2
    <3>4. \A i \in DOMAIN log[r] : i \in DOMAIN log'[r]
      BY <3>1, <1>2
    <3>5. \A k \in 1..n : p[k].do = "record" =>
             /\ Line(p, k) \in DOMAIN log'[r] /\ log'[r][Line(p, k)] = p[k]
      BY <3>1, <3>2, <3>4, <1>3, <1>5
    <3>6. ASSUME NEW i \in DOMAIN log'[r]
          PROVE  \E k \in 1..n : p[k].do = "record" /\ Line(p, k) = i /\ log'[r][i] = p[k]
      <4>1. CASE i \in DOMAIN log[r]
        BY <4>1, <3>1, <1>3, <1>5
      <4>2. CASE i = Line(p, n)
        BY <4>2, <2>2, <3>2, <1>5
      <4> QED BY <4>1, <4>2, <3>3
    <3> QED BY <3>2, <3>5, <3>6
  <2> QED BY <2>1, <2>2
<1>7. pc'[r] - 1 = n /\ job'[r] = p
  BY <1>1 DEF n, p
<1>8. ASSUME NEW q \in Ranks
      PROVE  /\ Len(log'[q]) = Line(job'[q], pc'[q] - 1)
             /\ \A k \in 1..(pc'[q] - 1) : job'[q][k].do = "record" =>
                   /\ Line(job'[q], k) \in DOMAIN log'[q]
                   /\ log'[q][Line(job'[q], k)] = job'[q][k]
             /\ \A i \in DOMAIN log'[q] : \E k \in 1..(pc'[q] - 1) :
                   /\ job'[q][k].do = "record" /\ Line(job'[q], k) = i
                   /\ log'[q][i] = job'[q][k]
  <2>1. CASE q = r
    BY <2>1, <1>6, <1>7
  <2>2. CASE q # r
    <3>1. pc'[q] = pc[q] /\ log'[q] = log[q] /\ job'[q] = job[q]
      BY <1>1, <2>2
    <3> QED BY <3>1 DEF Written
  <2> QED BY <2>1, <2>2
<1> QED BY <1>8 DEF Written

-----------------------------------------------------------------------------
(* The workers at their steps.                                             *)

\* What the steps of a worker's program are, and its streams.
LEMMA AtWork ==
  ASSUME Typed, Staged, Attended, NEW r \in Ranks
  PROVE  /\ job[r] = Worker(r) /\ Len(job[r]) = (IF r = MissingRank THEN 27 ELSE 32)
         /\ pc[r] \in Nat /\ pc[r] \in 1..(Len(job[r]) + 1)
         /\ \A k \in 1..Len(job[r]) : Shape(r, k, job[r][k])
         /\ "compute" \in Streams /\ "transfer" \in Streams /\ "default" \in Streams
<1>1. job[r] = Worker(r)
  BY DEF Staged
<1>2. Len(job[r]) = (IF r = MissingRank THEN 27 ELSE 32)
  BY <1>1, WorkerParts
<1>3. \A k \in 1..Len(job[r]) : job[r][k].do = "submit" => job[r][k].stream \in Streams
  BY Programs DEF Typed
<1>4. 4 \in 1..Len(job[r]) /\ 7 \in 1..Len(job[r]) /\ 20 \in 1..Len(job[r])
  BY <1>2
<1>5. /\ job[r][4] = Submit("record", "compute", 1000)
      /\ job[r][7] = Submit("wait", "transfer", 1000)
      /\ job[r][20] = Submit("collective", "default", 1)
  BY <1>1, WorkerIs
<1>6. "compute" \in Streams /\ "transfer" \in Streams /\ "default" \in Streams
  BY <1>3, <1>4, <1>5 DEF Submit, Step
<1>7. \A k \in 1..Len(job[r]) : Shape(r, k, job[r][k])
  BY <1>1, WorkerShape
<1>8. pc[r] \in Nat /\ pc[r] \in 1..(Len(job[r]) + 1)
  BY DEF Typed, TypeOK
<1> QED BY <1>1, <1>2, <1>6, <1>7, <1>8

\* What is appended to a sequence of none or one.
LEMMA AppendTo ==
  ASSUME NEW x PROVE Append(<< >>, x) = << x >> /\ \A y : Append(<< y >>, x) = << y, x >>
<1>1. Append(<< >>, x) = << x >>
  OBVIOUS
<1>2. ASSUME NEW y PROVE Append(<< y >>, x) = << y, x >>
  <2> DEFINE a == Append(<< y >>, x)
  <2> DEFINE b == << y, x >>
  <2>1. << y >> \in Seq({y, x}) /\ Len(<< y >>) = 1 /\ << y >>[1] = y /\ x \in {y, x}
    OBVIOUS
  <2>2. a \in Seq({y, x}) /\ Len(a) = 2 /\ a[1] = y /\ a[2] = x
    BY <2>1
  <2>3. b \in Seq({y, x}) /\ Len(b) = 2 /\ b[1] = y /\ b[2] = x
    OBVIOUS
  <2> HIDE DEF a, b
  <2>4. \A i \in 1..2 : a[i] = b[i]
    BY <2>2, <2>3
  <2>5. a = b
    BY <2>2, <2>3, <2>4, SeqEqual
  <2> QED BY <2>5 DEF a, b
<1> QED BY <1>1, <1>2

\* A step of a worker sends what it submits.
LEMMA SentStep ==
  ASSUME NEW r, NEW n \in 1..Len(Worker(r)), NEW s
  PROVE  LET x == Worker(r)[n] IN
         Sent(r, s, n + 1) = IF x.do = "submit" /\ x.stream = s
                             THEN Append(Sent(r, s, n), x) ELSE Sent(r, s, n)
<1> DEFINE x == Worker(r)[n]
<1>0. n \in 1..32
  <2>1. Len(Worker(r)) = IF r = MissingRank THEN 27 ELSE 32
    BY WorkerParts
  <2> QED BY <2>1
<1>1. Shape(r, n, x)
  BY WorkerShape
<1>2. x.do = "submit" <=> n \in {4, 7, 9, 12, 20} \/ (n = 27 /\ r # MissingRank)
  BY <1>1 DEF Shape
<1>3. n \in Nat
  BY <1>0
<1>4. CASE ~(n \in {4, 7, 9, 12, 20} \/ (n = 27 /\ r # MissingRank))
  <2>1. Sent(r, s, n + 1) = Sent(r, s, n)
    BY <1>3, <1>4 DEF Sent
  <2> QED BY <1>2, <1>4, <2>1
<1>5. CASE n = 4
  <2>1. x = Submit("record", "compute", 1000)
    BY <1>5, WorkerIs
  <2> HIDE DEF x
  <2>2. x.do = "submit" /\ x.stream = "compute"
    BY <2>1 DEF Submit, Step
  <2>3. CASE s = "compute"
    <3>1. Sent(r, s, n + 1) = << x >>
      BY <1>5, <2>1, <2>3 DEF Sent
    <3>2. Sent(r, s, n) = << >>
      BY <1>5, <2>3 DEF Sent
    <3>3. Append(Sent(r, s, n), x) = Sent(r, s, n + 1)
      BY <3>1, <3>2, AppendTo
    <3> QED BY <2>2, <2>3, <3>3 DEF x
  <2>4. CASE s # "compute"
    <3>1. Sent(r, s, n + 1) = Sent(r, s, n)
      BY <1>5, <2>4 DEF Sent
    <3> QED BY <2>2, <2>4, <3>1 DEF x
  <2> QED BY <2>3, <2>4
<1>6. CASE n = 7
  <2>1. x = Submit("wait", "transfer", 1000)
    BY <1>6, WorkerIs
  <2> HIDE DEF x
  <2>2. x.do = "submit" /\ x.stream = "transfer"
    BY <2>1 DEF Submit, Step
  <2>3. CASE s = "transfer"
    <3>1. Sent(r, s, n + 1) = << x >>
      BY <1>6, <2>1, <2>3 DEF Sent
    <3>2. Sent(r, s, n) = << >>
      BY <1>6, <2>3 DEF Sent
    <3>3. Append(Sent(r, s, n), x) = Sent(r, s, n + 1)
      BY <3>1, <3>2, AppendTo
    <3> QED BY <2>2, <2>3, <3>3 DEF x
  <2>4. CASE s # "transfer"
    <3>1. Sent(r, s, n + 1) = Sent(r, s, n)
      BY <1>6, <2>4 DEF Sent
    <3> QED BY <2>2, <2>4, <3>1 DEF x
  <2> QED BY <2>3, <2>4
<1>7. CASE n = 9
  <2>1. x = Submit("record", "transfer", 2000)
    BY <1>7, WorkerIs
  <2> HIDE DEF x
  <2>2. x.do = "submit" /\ x.stream = "transfer"
    BY <2>1 DEF Submit, Step
  <2>3. CASE s = "transfer"
    <3>1. Sent(r, s, n + 1) = << Submit("wait", "transfer", 1000), x >>
      BY <1>7, <2>1, <2>3 DEF Sent
    <3>2. Sent(r, s, n) = << Submit("wait", "transfer", 1000) >>
      BY <1>7, <2>3 DEF Sent
    <3>3. Append(Sent(r, s, n), x) = Sent(r, s, n + 1)
      BY <3>1, <3>2, AppendTo
    <3> QED BY <2>2, <2>3, <3>3 DEF x
  <2>4. CASE s # "transfer"
    <3>1. Sent(r, s, n + 1) = Sent(r, s, n)
      BY <1>7, <2>4 DEF Sent
    <3> QED BY <2>2, <2>4, <3>1 DEF x
  <2> QED BY <2>3, <2>4
<1>8. CASE n = 12
  <2>1. x = Submit("wait", "compute", 2000)
    BY <1>8, WorkerIs
  <2> HIDE DEF x
  <2>2. x.do = "submit" /\ x.stream = "compute"
    BY <2>1 DEF Submit, Step
  <2>3. CASE s = "compute"
    <3>1. Sent(r, s, n + 1) = << Submit("record", "compute", 1000), x >>
      BY <1>8, <2>1, <2>3 DEF Sent
    <3>2. Sent(r, s, n) = << Submit("record", "compute", 1000) >>
      BY <1>8, <2>3 DEF Sent
    <3>3. Append(Sent(r, s, n), x) = Sent(r, s, n + 1)
      BY <3>1, <3>2, AppendTo
    <3> QED BY <2>2, <2>3, <3>3 DEF x
  <2>4. CASE s # "compute"
    <3>1. Sent(r, s, n + 1) = Sent(r, s, n)
      BY <1>8, <2>4 DEF Sent
    <3> QED BY <2>2, <2>4, <3>1 DEF x
  <2> QED BY <2>3, <2>4
<1>9. CASE n = 20
  <2>1. x = Submit("collective", "default", 1)
    BY <1>9, WorkerIs
  <2> HIDE DEF x
  <2>2. x.do = "submit" /\ x.stream = "default"
    BY <2>1 DEF Submit, Step
  <2>3. CASE s = "default"
    <3>1. Sent(r, s, n + 1) = << x >>
      BY <1>9, <2>1, <2>3 DEF Sent
    <3>2. Sent(r, s, n) = << >>
      BY <1>9, <2>3 DEF Sent
    <3>3. Append(Sent(r, s, n), x) = Sent(r, s, n + 1)
      BY <3>1, <3>2, AppendTo
    <3> QED BY <2>2, <2>3, <3>3 DEF x
  <2>4. CASE s # "default"
    <3>1. Sent(r, s, n + 1) = Sent(r, s, n)
      BY <1>9, <2>4 DEF Sent
    <3> QED BY <2>2, <2>4, <3>1 DEF x
  <2> QED BY <2>3, <2>4
<1>10. CASE n = 27 /\ r # MissingRank
  <2>1. x = Submit("collective", "default", 2)
    BY <1>10, WorkerIs
  <2> HIDE DEF x
  <2>2. x.do = "submit" /\ x.stream = "default"
    BY <2>1 DEF Submit, Step
  <2>3. CASE s = "default"
    <3>1. Sent(r, s, n + 1) = << Submit("collective", "default", 1), x >>
      BY <1>10, <2>1, <2>3 DEF Sent
    <3>2. Sent(r, s, n) = << Submit("collective", "default", 1) >>
      BY <1>10, <2>3 DEF Sent
    <3>3. Append(Sent(r, s, n), x) = Sent(r, s, n + 1)
      BY <3>1, <3>2, AppendTo
    <3> QED BY <2>2, <2>3, <3>3 DEF x
  <2>4. CASE s # "default"
    <3>1. Sent(r, s, n + 1) = Sent(r, s, n)
      BY <1>10, <2>4 DEF Sent
    <3> QED BY <2>2, <2>4, <3>1 DEF x
  <2> QED BY <2>3, <2>4
<1> QED BY <1>4, <1>5, <1>6, <1>7, <1>8, <1>9, <1>10

\* What the streams of the workers have follows from where they are.
LEMMA HostSent ==
  ASSUME Typed, Staged, SentOut, NEW r \in Ranks, HostStep(r), UNCHANGED harness
  PROVE  SentOut'
<1> DEFINE x == job[r][pc[r]]
<1>1. /\ pc[r] \in 1..Len(job[r]) /\ pc'[r] = pc[r] + 1
      /\ \A q \in Ranks \ {r} : pc'[q] = pc[q] /\ queue'[q] = queue[q]
      /\ \A s \in Streams : queue'[r][s] = IF x.do = "submit" /\ x.stream = s
                                             THEN Append(queue[r][s], x) ELSE queue[r][s]
  BY HostFacts
<1> SUFFICES ASSUME Attended, NEW q \in Ranks, NEW s \in Streams
             PROVE  queue'[q][s] = Sent(q, s, pc'[q])
  BY DEF SentOut, Attended, harness
<1>2. queue[q][s] = Sent(q, s, pc[q])
  BY DEF SentOut
<1>3. CASE q # r
  BY <1>1, <1>2, <1>3
<1>4. CASE q = r
  <2>1. job[r] = Worker(r)
    BY AtWork
  <2>2. Sent(r, s, pc[r] + 1) = IF x.do = "submit" /\ x.stream = s
                                THEN Append(Sent(r, s, pc[r]), x) ELSE Sent(r, s, pc[r])
    BY <1>1, <2>1, SentStep
  <2> QED BY <1>1, <1>2, <1>4, <2>2
<1> QED BY <1>3, <1>4

\* What has been sent, once it is all there.
LEMMA SentIs ==
  ASSUME NEW r, NEW n \in Nat
  PROVE  /\ n > 12 => Sent(r, "compute", n) =
               << Submit("record", "compute", 1000), Submit("wait", "compute", 2000) >>
         /\ n > 9 => Sent(r, "transfer", n) =
               << Submit("wait", "transfer", 1000), Submit("record", "transfer", 2000) >>
         /\ n > 20 /\ (n <= 27 \/ r = MissingRank) =>
               Sent(r, "default", n) = << Submit("collective", "default", 1) >>
         /\ n > 27 /\ r # MissingRank => Sent(r, "default", n) =
               << Submit("collective", "default", 1), Submit("collective", "default", 2) >>
         /\ \A s : s \notin {"compute", "transfer", "default"} => Sent(r, s, n) = << >>
<1>1. n > 12 => Sent(r, "compute", n) =
         << Submit("record", "compute", 1000), Submit("wait", "compute", 2000) >>
  BY DEF Sent
<1>2. n > 9 => Sent(r, "transfer", n) =
         << Submit("wait", "transfer", 1000), Submit("record", "transfer", 2000) >>
  BY DEF Sent
<1>3. n > 20 /\ (n <= 27 \/ r = MissingRank) =>
         Sent(r, "default", n) = << Submit("collective", "default", 1) >>
  BY DEF Sent
<1>4. n > 27 /\ r # MissingRank => Sent(r, "default", n) =
         << Submit("collective", "default", 1), Submit("collective", "default", 2) >>
  BY DEF Sent
<1>5. \A s : s \notin {"compute", "transfer", "default"} => Sent(r, s, n) = << >>
  BY DEF Sent
<1> QED BY <1>1, <1>2, <1>3, <1>4, <1>5

\* A second collective is on no stream of the missing rank, and on no other
\* rank's but the default.
LEMMA SecondSent ==
  ASSUME NEW r, NEW n \in Nat, NEW s, NEW i \in DOMAIN Sent(r, s, n),
         Is(Sent(r, s, n)[i], "collective", 2)
  PROVE  r # MissingRank /\ s = "default" /\ i = 2
<1> DEFINE l == Sent(r, s, n)
<1>1. l \in { << >>, << Submit("record", "compute", 1000) >>,
              << Submit("record", "compute", 1000), Submit("wait", "compute", 2000) >>,
              << Submit("wait", "transfer", 1000) >>,
              << Submit("wait", "transfer", 1000), Submit("record", "transfer", 2000) >>,
              << Submit("collective", "default", 1) >> }
      \/ /\ l = << Submit("collective", "default", 1), Submit("collective", "default", 2) >>
         /\ r # MissingRank /\ s = "default"
  BY DEF Sent
<1>2. i \in DOMAIN l /\ Is(l[i], "collective", 2)
  OBVIOUS
<1> HIDE DEF l
<1>3. CASE l = << >>
  BY <1>2, <1>3
<1>4. CASE l = << Submit("record", "compute", 1000) >>
  BY <1>2, <1>4 DEF Submit, Step, Is
<1>5. CASE l = << Submit("record", "compute", 1000), Submit("wait", "compute", 2000) >>
  BY <1>2, <1>5 DEF Submit, Step, Is
<1>6. CASE l = << Submit("wait", "transfer", 1000) >>
  BY <1>2, <1>6 DEF Submit, Step, Is
<1>7. CASE l = << Submit("wait", "transfer", 1000), Submit("record", "transfer", 2000) >>
  BY <1>2, <1>7 DEF Submit, Step, Is
<1>8. CASE l = << Submit("collective", "default", 1) >>
  BY <1>2, <1>8 DEF Submit, Step, Is
<1>9. CASE /\ l = << Submit("collective", "default", 1), Submit("collective", "default", 2) >>
           /\ r # MissingRank /\ s = "default"
  BY <1>2, <1>9 DEF Submit, Step, Is
<1> QED BY <1>1, <1>3, <1>4, <1>5, <1>6, <1>7, <1>8, <1>9

\* What is submitted is an event record, an event wait or a collective.
LEMMA SentTypes ==
  ASSUME NEW r, NEW n, NEW s, NEW i \in DOMAIN Sent(r, s, n)
  PROVE  Sent(r, s, n)[i].type \in {"record", "wait", "collective"}
<1> DEFINE l == Sent(r, s, n)
<1> SUFFICES l[i].type \in {"record", "wait", "collective"}
  OBVIOUS
<1>1. l \in { << >>,
              << Submit("record", "compute", 1000) >>,
              << Submit("record", "compute", 1000), Submit("wait", "compute", 2000) >>,
              << Submit("wait", "transfer", 1000) >>,
              << Submit("wait", "transfer", 1000), Submit("record", "transfer", 2000) >>,
              << Submit("collective", "default", 1) >>,
              << Submit("collective", "default", 1), Submit("collective", "default", 2) >> }
  BY DEF Sent
<1>2. i \in DOMAIN l
  OBVIOUS
<1> HIDE DEF l
<1>3. CASE l = << >>
  BY <1>2, <1>3
<1>4. CASE l = << Submit("record", "compute", 1000) >>
  BY <1>2, <1>4 DEF Submit, Step
<1>5. CASE l = << Submit("record", "compute", 1000), Submit("wait", "compute", 2000) >>
  BY <1>2, <1>5 DEF Submit, Step
<1>6. CASE l = << Submit("wait", "transfer", 1000) >>
  BY <1>2, <1>6 DEF Submit, Step
<1>7. CASE l = << Submit("wait", "transfer", 1000), Submit("record", "transfer", 2000) >>
  BY <1>2, <1>7 DEF Submit, Step
<1>8. CASE l = << Submit("collective", "default", 1) >>
  BY <1>2, <1>8 DEF Submit, Step
<1>9. CASE l = << Submit("collective", "default", 1), Submit("collective", "default", 2) >>
  BY <1>2, <1>9 DEF Submit, Step
<1> QED BY <1>1, <1>3, <1>4, <1>5, <1>6, <1>7, <1>8, <1>9

\* What a stream has, once its host is past its submissions.
LEMMA Submitted ==
  ASSUME Typed, Staged, SentOut, Attended, NEW r \in Ranks
  PROVE  /\ pc[r] > 12 => /\ Len(queue[r]["compute"]) = 2
                          /\ queue[r]["compute"][1] = Submit("record", "compute", 1000)
                          /\ queue[r]["compute"][2] = Submit("wait", "compute", 2000)
         /\ pc[r] > 9 => /\ Len(queue[r]["transfer"]) = 2
                         /\ queue[r]["transfer"][1] = Submit("wait", "transfer", 1000)
                         /\ queue[r]["transfer"][2] = Submit("record", "transfer", 2000)
         /\ pc[r] > 20 /\ (pc[r] <= 27 \/ r = MissingRank) =>
               /\ Len(queue[r]["default"]) = 1
               /\ queue[r]["default"][1] = Submit("collective", "default", 1)
         /\ pc[r] > 27 /\ r # MissingRank =>
               /\ Len(queue[r]["default"]) = 2
               /\ queue[r]["default"][1] = Submit("collective", "default", 1)
               /\ queue[r]["default"][2] = Submit("collective", "default", 2)
         /\ \A s \in Streams \ {"compute", "transfer", "default"} : Len(queue[r][s]) = 0
<1>1. /\ pc[r] \in Nat
      /\ "compute" \in Streams /\ "transfer" \in Streams /\ "default" \in Streams
  BY AtWork
<1>2. \A s \in Streams : queue[r][s] = Sent(r, s, pc[r])
  BY DEF SentOut
<1>3. pc[r] > 12 => queue[r]["compute"] =
         << Submit("record", "compute", 1000), Submit("wait", "compute", 2000) >>
  BY <1>1, <1>2, SentIs
<1>4. pc[r] > 9 => queue[r]["transfer"] =
         << Submit("wait", "transfer", 1000), Submit("record", "transfer", 2000) >>
  BY <1>1, <1>2, SentIs
<1>5. pc[r] > 20 /\ (pc[r] <= 27 \/ r = MissingRank) =>
         queue[r]["default"] = << Submit("collective", "default", 1) >>
  BY <1>1, <1>2, SentIs
<1>6. pc[r] > 27 /\ r # MissingRank => queue[r]["default"] =
         << Submit("collective", "default", 1), Submit("collective", "default", 2) >>
  BY <1>1, <1>2, SentIs
<1>7. \A s \in Streams \ {"compute", "transfer", "default"} : queue[r][s] = << >>
  BY <1>1, <1>2, SentIs
<1>8. pc[r] > 12 => /\ Len(queue[r]["compute"]) = 2
                    /\ queue[r]["compute"][1] = Submit("record", "compute", 1000)
                    /\ queue[r]["compute"][2] = Submit("wait", "compute", 2000)
  BY <1>3
<1>9. pc[r] > 9 => /\ Len(queue[r]["transfer"]) = 2
                   /\ queue[r]["transfer"][1] = Submit("wait", "transfer", 1000)
                   /\ queue[r]["transfer"][2] = Submit("record", "transfer", 2000)
  BY <1>4
<1>10. pc[r] > 20 /\ (pc[r] <= 27 \/ r = MissingRank) =>
          /\ Len(queue[r]["default"]) = 1
          /\ queue[r]["default"][1] = Submit("collective", "default", 1)
  BY <1>5
<1>11. pc[r] > 27 /\ r # MissingRank =>
          /\ Len(queue[r]["default"]) = 2
          /\ queue[r]["default"][1] = Submit("collective", "default", 1)
          /\ queue[r]["default"][2] = Submit("collective", "default", 2)
  BY <1>6
<1>12. \A s \in Streams \ {"compute", "transfer", "default"} : Len(queue[r][s]) = 0
  BY <1>7
<1> QED BY <1>8, <1>9, <1>10, <1>11, <1>12

\* No host gets past a synchronization with its device busy.
LEMMA HostSynchronized ==
  ASSUME Typed, Staged, SentOut, Synchronized, NEW r \in Ranks, HostStep(r), UNCHANGED harness
  PROVE  Synchronized'
<1> SUFFICES ASSUME Attended PROVE Synchronized'
  BY DEF Synchronized, Attended, harness
<1>1. /\ done' = done /\ pc[r] \in 1..Len(job[r]) /\ pc'[r] = pc[r] + 1
      /\ \A q \in Ranks \ {r} : pc'[q] = pc[q]
  BY HostFacts
<1>2. \A q \in Ranks :
         /\ pc[q] > 16 => done[q]["compute"] = 2 /\ done[q]["transfer"] = 2
         /\ pc[q] > 22 => done[q]["default"] >= 1
         /\ done[q]["default"] <= 1
         /\ pc[q] <= 30 /\ (q = MissingRank => pc[q] <= 27)
  BY DEF Synchronized
<1>3. /\ pc[r] \in Nat /\ Len(job[r]) = (IF r = MissingRank THEN 27 ELSE 32)
      /\ Shape(r, pc[r], job[r][pc[r]])
      /\ "compute" \in Streams /\ "transfer" \in Streams /\ "default" \in Streams
  BY <1>1, AtWork
<1>4. job[r][pc[r]].do = "synchronize" => \A s \in Streams : done[r][s] = Len(queue[r][s])
  BY DEF HostStep, CanStep, Drained
<1>5. job[r][pc[r]].do # "gate"
  BY DEF HostStep, CanStep
<1>6. pc[r] \in {16, 22, 30} => \A s \in Streams : done[r][s] = Len(queue[r][s])
  BY <1>3, <1>4 DEF Shape
<1>7. ~(pc[r] = 27 /\ r = MissingRank)
  BY <1>3, <1>5 DEF Shape
<1>8. pc[r] = 16 => done[r]["compute"] = 2 /\ done[r]["transfer"] = 2
  <2>1. pc[r] = 16 => pc[r] > 12 /\ pc[r] > 9 /\ pc[r] \in {16, 22, 30}
    OBVIOUS
  <2>2. pc[r] = 16 => Len(queue[r]["compute"]) = 2 /\ Len(queue[r]["transfer"]) = 2
    BY <2>1, Submitted
  <2> QED BY <1>3, <1>6, <2>1, <2>2
<1>9. pc[r] = 22 => done[r]["default"] = 1
  <2>1. pc[r] = 22 => pc[r] > 20 /\ pc[r] <= 27 /\ pc[r] \in {16, 22, 30}
    OBVIOUS
  <2>2. pc[r] = 22 => Len(queue[r]["default"]) = 1
    BY <2>1, Submitted
  <2> QED BY <1>3, <1>6, <2>1, <2>2
<1>10. pc[r] # 30
  <2> SUFFICES ASSUME pc[r] = 30 PROVE FALSE
    OBVIOUS
  <2>1. r # MissingRank
    BY <1>2
  <2>2. done[r]["default"] = 2
    <3>1. pc[r] > 27 /\ pc[r] \in {16, 22, 30}
      OBVIOUS
    <3>2. Len(queue[r]["default"]) = 2
      BY <2>1, <3>1, Submitted
    <3> QED BY <1>3, <1>6, <3>1, <3>2
  <2> QED BY <2>2, <1>2
<1>11. /\ pc'[r] > 16 => done[r]["compute"] = 2 /\ done[r]["transfer"] = 2
       /\ pc'[r] > 22 => done[r]["default"] >= 1
       /\ done[r]["default"] <= 1
       /\ pc'[r] <= 30 /\ (r = MissingRank => pc'[r] <= 27)
  <2>1. pc'[r] > 16 => pc[r] > 16 \/ pc[r] = 16
    BY <1>1, <1>3
  <2>2. pc'[r] > 22 => pc[r] > 22 \/ pc[r] = 22
    BY <1>1, <1>3
  <2>3. pc'[r] <= 30 /\ (r = MissingRank => pc'[r] <= 27)
    BY <1>1, <1>2, <1>3, <1>7, <1>10
  <2>4. done[r]["default"] = 1 => done[r]["default"] >= 1
    OBVIOUS
  <2> QED BY <1>2, <1>8, <1>9, <2>1, <2>2, <2>3, <2>4
<1> QED BY <1>1, <1>2, <1>11 DEF Synchronized

\* No device completes the second collective: the missing rank has not sent its own.
LEMMA RunSynchronized ==
  ASSUME Typed, Staged, SentOut, Synchronized, NEW r \in Ranks, NEW s \in Streams, Run(r, s),
         UNCHANGED harness, MissingRank \in Ranks
  PROVE  Synchronized'
<1> SUFFICES ASSUME Attended PROVE Synchronized'
  BY DEF Synchronized, Attended, harness
<1>1. /\ UNCHANGED <<job, pc, log, queue>>
      /\ done[r][s] + 1 \in DOMAIN queue[r][s]
      /\ Ready(r, queue[r][s][done[r][s] + 1])
      /\ done'[r][s] = done[r][s] + 1
      /\ \A q \in Ranks, t \in Streams : q # r \/ t # s => done'[q][t] = done[q][t]
      /\ \A q \in Ranks, t \in Streams :
            done[q][t] \in Nat /\ \A i \in 1..done[q][t] : i \in DOMAIN queue[q][t]
  BY RunFacts
<1>2. \A q \in Ranks :
         /\ pc[q] > 16 => done[q]["compute"] = 2 /\ done[q]["transfer"] = 2
         /\ pc[q] > 22 => done[q]["default"] >= 1
         /\ done[q]["default"] <= 1
         /\ pc[q] <= 30 /\ (q = MissingRank => pc[q] <= 27)
  BY DEF Synchronized
<1>3. \A q \in Ranks : pc[q] \in Nat
  BY AtWork
<1>4. "compute" \in Streams /\ "transfer" \in Streams /\ "default" \in Streams
  BY AtWork
<1>5. done[r][s] < Len(queue[r][s])
  <2>1. queue[r][s] \in Seq(Steps) /\ done[r][s] \in Nat
    BY DEF Typed, TypeOK
  <2> QED BY <1>1, <2>1
<1>6. pc[r] > 16 => s # "compute" /\ s # "transfer"
  <2>1. pc[r] > 16 => pc[r] > 12 /\ pc[r] > 9
    BY <1>3
  <2>2. pc[r] > 16 => Len(queue[r]["compute"]) = 2 /\ Len(queue[r]["transfer"]) = 2
    BY <2>1, Submitted
  <2>3. pc[r] > 16 => done[r]["compute"] = 2 /\ done[r]["transfer"] = 2
    BY <1>2
  <2>4. s = "compute" => done[r]["compute"] < Len(queue[r]["compute"])
    BY <1>5
  <2>5. s = "transfer" => done[r]["transfer"] < Len(queue[r]["transfer"])
    BY <1>5
  <2>6. ~(2 < 2)
    OBVIOUS
  <2> QED BY <2>2, <2>3, <2>4, <2>5, <2>6
<1>7. s = "default" => done[r]["default"] = 0
  <2> SUFFICES ASSUME s = "default", done[r]["default"] = 1 PROVE FALSE
    BY <1>1, <1>2
  <2>1. queue[r]["default"] = Sent(r, "default", pc[r])
    BY <1>4 DEF SentOut
  <2>2. 2 \in DOMAIN queue[r]["default"] /\ Ready(r, queue[r]["default"][2])
    BY <1>1
  <2>3. pc[r] > 27 /\ r # MissingRank
    <3>1. Len(queue[r]["default"]) > 1
      BY <1>5
    <3>2. pc[r] > 20 /\ (pc[r] <= 27 \/ r = MissingRank) => Len(queue[r]["default"]) = 1
      BY Submitted
    <3>3. pc[r] <= 20 => Len(queue[r]["default"]) = 0
      <4>1. pc[r] <= 20 => Sent(r, "default", pc[r]) = << >>
        BY DEF Sent
      <4>2. Len(<< >>) = 0
        OBVIOUS
      <4> QED BY <2>1, <4>1, <4>2
    <3>4. ~(0 > 1) /\ ~(1 > 1)
      OBVIOUS
    <3>5. ~(pc[r] <= 20) /\ ~(pc[r] > 20 /\ (pc[r] <= 27 \/ r = MissingRank))
      BY <3>1, <3>2, <3>3, <3>4
    <3> QED BY <1>3, <3>5
  <2>4. queue[r]["default"][2] = Submit("collective", "default", 2)
    BY <2>3, Submitted
  <2>5. AtHead(MissingRank, "collective", 2) # {} \/ Completed(MissingRank, "collective", 2)
    <3>1. /\ queue[r]["default"][2].type = "collective" /\ queue[r]["default"][2].corr = 2
      BY <2>4 DEF Submit, Step
    <3> QED BY <2>2, <3>1 DEF Ready
  <2>6. \E t \in Streams : \E i \in DOMAIN queue[MissingRank][t] :
            Is(queue[MissingRank][t][i], "collective", 2)
    <3>1. CASE AtHead(MissingRank, "collective", 2) # {}
      BY <3>1 DEF AtHead, Pending
    <3>2. CASE Completed(MissingRank, "collective", 2)
      BY <3>2, <1>1 DEF Completed
    <3> QED BY <2>5, <3>1, <3>2
  <2>7. \A t \in Streams : queue[MissingRank][t] = Sent(MissingRank, t, pc[MissingRank])
    BY DEF SentOut
  <2> QED BY <2>6, <2>7, <1>3, SecondSent
<1>8. ASSUME NEW q \in Ranks
      PROVE  /\ pc[q] > 16 => done'[q]["compute"] = 2 /\ done'[q]["transfer"] = 2
             /\ pc[q] > 22 => done'[q]["default"] >= 1
             /\ done'[q]["default"] <= 1
  <2>1. CASE q = r /\ s = "default"
    <3>1. done'[q]["default"] = 1
      BY <2>1, <1>1, <1>7
    <3>2. done'[q]["compute"] = done[q]["compute"] /\ done'[q]["transfer"] = done[q]["transfer"]
      BY <2>1, <1>1, <1>4
    <3> QED BY <3>1, <3>2, <1>2
  <2>2. CASE ~(q = r /\ s = "default")
    <3>1. done'[q]["default"] = done[q]["default"]
      BY <2>2, <1>1, <1>4
    <3>2. pc[q] > 16 => /\ done'[q]["compute"] = done[q]["compute"]
                        /\ done'[q]["transfer"] = done[q]["transfer"]
      BY <1>1, <1>4, <1>6
    <3> QED BY <3>1, <3>2, <1>2
  <2> QED BY <2>1, <2>2
<1> QED BY <1>1, <1>2, <1>8 DEF Synchronized

-----------------------------------------------------------------------------
(* The steps of hosts and devices.                                         *)

\* At first nothing is logged, sent or copied.
LEMMA InitVerdict == Init => VerdictInv
<1> SUFFICES ASSUME Init PROVE VerdictInv
  OBVIOUS
<1>1. Typed
  BY InitTypes
<1>2. /\ pc = [r \in Ranks |-> 1] /\ log = [r \in Ranks |-> << >>]
      /\ queue = [r \in Ranks |-> [s \in Streams |-> << >>]]
      /\ done = [r \in Ranks |-> [s \in Streams |-> 0]]
      /\ h \in {"absent", "starting"} /\ files = {} /\ quiet = FALSE /\ ~snap.stalled
      /\ Attended => job = [r \in Ranks |-> Worker(r)]
  BY DEF Init, JobInit, Attended, NoSnap
<1>3. Written
  <2> SUFFICES ASSUME NEW r \in Ranks
               PROVE  /\ Len(log[r]) = Line(job[r], pc[r] - 1)
                      /\ 1..(pc[r] - 1) = {} /\ DOMAIN log[r] = {}
    BY DEF Written
  <2>1. pc[r] - 1 = 0 /\ log[r] = << >>
    BY <1>2
  <2>2. Line(job[r], 0) = 0
    BY LineIs
  <2> QED BY <2>1, <2>2
<1>4. Staged
  BY <1>2 DEF Staged
<1>5. SentOut
  <2> SUFFICES ASSUME Attended, NEW r \in Ranks, NEW s \in Streams
               PROVE  queue[r][s] = Sent(r, s, pc[r])
    BY DEF SentOut
  <2>1. queue[r][s] = << >> /\ pc[r] = 1
    BY <1>2
  <2>2. Sent(r, s, 1) = << >>
    BY DEF Sent
  <2> QED BY <2>1, <2>2
<1>6. Synchronized
  <2> SUFFICES ASSUME Attended, NEW r \in Ranks
               PROVE  pc[r] = 1 /\ done[r]["default"] = 0
    BY DEF Synchronized
  <2>1. "default" \in Streams
    BY <1>1, <1>4, AtWork
  <2> QED BY <1>2, <2>1
<1>7. Taken /\ HangSeen
  BY <1>2 DEF Taken, HangSeen
<1>8. Judged /\ Snapped /\ Quieted
  BY <1>2 DEF Judged, Snapped, Quieted
<1> QED BY <1>1, <1>3, <1>4, <1>5, <1>6, <1>7, <1>8 DEF VerdictInv

LEMMA HostVerdict ==
  ASSUME VerdictInv, Alive, NEW r \in Ranks, HostStep(r), UNCHANGED harness
  PROVE  VerdictInv'
<1>1. /\ Typed /\ Written /\ Staged /\ SentOut /\ Synchronized
      /\ Taken /\ HangSeen /\ Judged /\ Snapped /\ Quieted
  BY DEF VerdictInv
<1>2. /\ h' = h /\ files' = files /\ snap' = snap /\ quiet' = quiet
      /\ Attended' = Attended /\ h \notin {"passed", "failed"}
  BY DEF harness, Attended, Alive
<1>3. /\ job' = job /\ pc'[r] = pc[r] + 1 /\ \A q \in Ranks \ {r} : pc'[q] = pc[q]
  BY <1>1, HostFacts
<1>4. \A q \in Ranks : pc[q] \in Nat /\ pc'[q] \in Nat /\ pc[q] <= pc'[q]
  <2>1. \A q \in Ranks : pc[q] \in Nat
    BY <1>1 DEF Typed, TypeOK
  <2> QED BY <2>1, <1>3
<1>5. Typed'
  BY <1>1, HostTypes
<1>6. Written'
  BY <1>1, HostWritten
<1>7. Staged'
  BY <1>1, <1>2, <1>3 DEF Staged
<1>8. SentOut'
  BY <1>1, HostSent
<1>9. Synchronized'
  BY <1>1, HostSynchronized
<1>10. Taken'
  <2> SUFFICES ASSUME Attended, NEW f \in files
               PROVE  \E k \in 1..pc'[f.rank] : f.events = Line(job[f.rank], k - 1)
    BY <1>1, <1>2, <1>3 DEF Taken
  <2>1. PICK k \in 1..pc[f.rank] : f.events = Line(job[f.rank], k - 1)
    BY <1>1 DEF Taken
  <2>2. f.rank \in Ranks
    BY <1>1 DEF Typed, TypeOK
  <2>3. k \in 1..pc'[f.rank]
    BY <1>4, <2>2
  <2> QED BY <2>1, <2>3
<1>11. HangSeen'
  <2> SUFFICES ASSUME pc[MissingRank] > 25 PROVE pc'[MissingRank] > 25
    BY <1>1, <1>2 DEF HangSeen
  <2> QED BY <1>4, MissingAssumption
<1>12. Snapped'
  <2>1. ~snap.stalled
    BY <1>1 DEF Snapped, Stalled, HostStep
  <2> QED BY <1>2, <2>1 DEF Snapped
<1>13. Judged'
  BY <1>2 DEF Judged
<1>14. Quieted'
  <2>1. ~quiet
    BY <1>1 DEF Quieted, Stalled, HostStep
  <2> QED BY <1>2, <2>1 DEF Quieted
<1> QED BY <1>5, <1>6, <1>7, <1>8, <1>9, <1>10, <1>11, <1>12, <1>13, <1>14 DEF VerdictInv

LEMMA RunVerdict ==
  ASSUME VerdictInv, Alive, NEW r \in Ranks, NEW s \in Streams, Run(r, s), UNCHANGED harness
  PROVE  VerdictInv'
<1>1. /\ Typed /\ Written /\ Staged /\ SentOut /\ Synchronized
      /\ Taken /\ HangSeen /\ Judged /\ Snapped /\ Quieted
  BY DEF VerdictInv
<1>2. /\ h' = h /\ files' = files /\ snap' = snap /\ quiet' = quiet
      /\ Attended' = Attended /\ h \notin {"passed", "failed"}
  BY DEF harness, Attended, Alive
<1>3. UNCHANGED <<job, pc, log, queue>>
  BY DEF Run
<1>4. Typed'
  BY <1>1, RunTypes
<1>5. Written' /\ Staged' /\ SentOut'
  <2>1. Written'
    BY <1>1, <1>3 DEF Written
  <2>2. Staged' /\ SentOut'
    BY <1>1, <1>2, <1>3 DEF Staged, SentOut
  <2> QED BY <2>1, <2>2
<1>6. Synchronized'
  BY <1>1, MissingAssumption, RunSynchronized
<1>7. Taken' /\ HangSeen'
  BY <1>1, <1>2, <1>3 DEF Taken, HangSeen
<1>8. Judged'
  BY <1>2 DEF Judged
<1>9. Snapped' /\ Quieted'
  <2>1. ~quiet /\ ~snap.stalled
    BY <1>1 DEF Quieted, Snapped, Stalled, Run
  <2> QED BY <1>2, <2>1 DEF Quieted, Snapped
<1> QED BY <1>4, <1>5, <1>6, <1>7, <1>8, <1>9 DEF VerdictInv

-----------------------------------------------------------------------------
(* The steps of run and of the watchdog.                                   *)

\* Where the workers are is as it was.
LEMMA StillStaged ==
  ASSUME Written, Staged, SentOut, Synchronized, UNCHANGED jobVars, Attended' => Attended
  PROVE  (Written /\ Staged /\ SentOut /\ Synchronized)'
<1>1. UNCHANGED <<job, pc, log, queue, done>>
  BY DEF jobVars
<1>2. Written'
  BY <1>1 DEF Written
<1>3. Staged' /\ SentOut'
  BY <1>1 DEF Staged, SentOut
<1>4. Synchronized'
  BY <1>1 DEF Synchronized
<1> QED BY <1>2, <1>3, <1>4

\* A job that has stalled moves with no step of run.
LEMMA StillStalled ==
  ASSUME SentOut, Attended, Stalled, UNCHANGED jobVars PROVE Stalled'
<1>1. UNCHANGED <<job, pc, log, queue, done>>
  BY DEF jobVars
<1>2. ASSUME NEW r \in Ranks, CanStep(r)' PROVE CanStep(r)
  BY <1>1, <1>2 DEF CanStep, Drained
<1>3. ASSUME NEW r \in Ranks, NEW s \in Streams PROVE Pending(r, s)' = Pending(r, s)
  BY <1>1 DEF Pending
<1>4. ASSUME NEW r \in Ranks, NEW type, NEW corr
      PROVE  /\ AtHead(r, type, corr)' = AtHead(r, type, corr)
             /\ Completed(r, type, corr)' = Completed(r, type, corr)
  BY <1>1, <1>3 DEF AtHead, Completed
<1>5. ASSUME NEW r \in Ranks, NEW x, x.type \in {"record", "wait", "collective"}, Ready(r, x)'
      PROVE  Ready(r, x)
  <2>1. Completed(r, "record", x.corr)' => Completed(r, "record", x.corr)
    BY <1>4
  <2>2. ASSUME NEW q \in Ranks,
               (AtHead(q, "collective", x.corr) # {} \/ Completed(q, "collective", x.corr))'
        PROVE  AtHead(q, "collective", x.corr) # {} \/ Completed(q, "collective", x.corr)
    BY <1>4, <2>2
  <2>3. CASE x.type = "record"
    BY <2>3 DEF Ready
  <2>4. CASE x.type = "wait"
    BY <2>4, <1>5, <2>1 DEF Ready
  <2>5. CASE x.type = "collective"
    <3>1. \A q \in Ranks :
             (AtHead(q, "collective", x.corr) # {} \/ Completed(q, "collective", x.corr))'
      BY <2>5, <1>5 DEF Ready
    <3>2. \A q \in Ranks :
             AtHead(q, "collective", x.corr) # {} \/ Completed(q, "collective", x.corr)
      BY <2>2, <3>1
    <3> QED BY <2>5, <3>2 DEF Ready
  <2> QED BY <1>5, <2>3, <2>4, <2>5
<1>6. ASSUME NEW r \in Ranks, NEW s \in Streams, CanRun(r, s)' PROVE CanRun(r, s)
  <2>1. PICK x \in Pending(r, s) : Ready(r, x)'
    BY <1>3, <1>6 DEF CanRun
  <2>2. x.type \in {"record", "wait", "collective"}
    <3>1. PICK i \in DOMAIN queue[r][s] : x = queue[r][s][i]
      BY <2>1 DEF Pending
    <3>2. queue[r][s] = Sent(r, s, pc[r])
      BY DEF SentOut
    <3> QED BY <3>1, <3>2, SentTypes
  <2> QED BY <2>1, <2>2, <1>5 DEF CanRun
<1> QED BY <1>2, <1>6 DEF Stalled

\* No copy of a ring is longer than the ring.
LEMMA NoLonger ==
  ASSUME Typed, Written, Taken, Attended, NEW f \in files
  PROVE  /\ f.rank \in Ranks /\ f.events \in Nat /\ f.events <= Len(log[f.rank])
         /\ f = [rank |-> f.rank, events |-> f.events]
<1>1. f \in [rank : Ranks, events : Nat]
  BY DEF Typed, TypeOK
<1> DEFINE r == f.rank
<1>2. r \in Ranks /\ f.events \in Nat /\ f = [rank |-> f.rank, events |-> f.events]
  BY <1>1
<1>3. PICK k \in 1..pc[r] : f.events = Line(job[r], k - 1)
  BY DEF Taken
<1> HIDE DEF r
<1>4. k - 1 \in Nat /\ pc[r] - 1 \in Nat /\ k - 1 <= pc[r] - 1
  <2>1. pc[r] \in Nat
    BY <1>2 DEF Typed, TypeOK
  <2> QED BY <2>1
<1>5. Line(job[r], k - 1) <= Line(job[r], pc[r] - 1) /\ Len(log[r]) = Line(job[r], pc[r] - 1)
  BY <1>2, <1>4, LineGrows DEF Written
<1> QED BY <1>2, <1>3, <1>5 DEF r

\* A copy replaces an older one of its rank, and no other.
LEMMA CopyKeeps ==
  ASSUME Typed, Written, Taken, Attended, NEW r \in Ranks, Copy(r)
  PROVE  /\ Full(r) \in files' /\ \A f \in files' : f = Full(r) \/ (f \in files /\ f.rank # r)
         /\ \A q \in Ranks : Full(q) \in files => Full(q) \in files'
<1> DEFINE all == files \cup {Full(r)}
<1>1. files' = Latest(all)
  BY DEF Copy, Full
<1>2. \A q \in Ranks : Full(q).rank = q /\ Full(q).events = Len(log[q]) /\ Len(log[q]) \in Nat
  BY DEF Full, Typed, TypeOK
<1>3. \A f \in all : /\ f.events \in Nat /\ f.events <= Len(log[f.rank])
                     /\ f = [rank |-> f.rank, events |-> f.events]
  <2>1. \A f \in files : /\ f.events \in Nat /\ f.events <= Len(log[f.rank])
                         /\ f = [rank |-> f.rank, events |-> f.events]
    BY NoLonger
  <2>2. Full(r) = [rank |-> Full(r).rank, events |-> Full(r).events]
    BY DEF Full
  <2> QED BY <1>2, <2>1, <2>2
<1>4. ASSUME NEW q \in Ranks, Full(q) \in all PROVE Full(q) \in files'
  BY <1>1, <1>2, <1>3, <1>4 DEF Latest
<1>5. ASSUME NEW f \in files', f.rank = r PROVE f = Full(r)
  <2>1. f \in all /\ Full(r).events <= f.events
    BY <1>1, <1>2, <1>5 DEF Latest
  <2>2. f.events = Len(log[r])
    BY <1>2, <1>3, <1>5, <2>1
  <2> QED BY <1>3, <1>5, <2>1, <2>2 DEF Full
<1>6. \A f \in files' : f \in all
  BY <1>1 DEF Latest
<1> QED BY <1>2, <1>4, <1>5, <1>6

LEMMA CopyTaken ==
  ASSUME Typed, Written, Taken, Attended, NEW r \in Ranks, Copy(r)
  PROVE  Taken'
<1>1. UNCHANGED <<job, pc, log>> /\ Attended'
  <2>1. UNCHANGED jobVars /\ h' = h
    BY DEF Copy
  <2> QED BY <2>1 DEF Attended, jobVars
<1>2. \A f \in files' : f = Full(r) \/ (f \in files /\ f.rank # r)
  BY CopyKeeps
<1>3. Full(r).rank = r /\ Full(r).events = Line(job[r], pc[r] - 1) /\ pc[r] \in 1..pc[r]
  BY DEF Full, Written, Typed, TypeOK
<1>4. \A f, g \in files' : f.rank = g.rank => f = g
  BY <1>2, <1>3 DEF Taken
<1>5. ASSUME NEW f \in files' PROVE \E k \in 1..pc[f.rank] : f.events = Line(job[f.rank], k - 1)
  <2>1. CASE f = Full(r)
    BY <1>3, <2>1
  <2>2. CASE f \in files
    BY <2>2 DEF Taken
  <2> QED BY <1>2, <2>1, <2>2
<1> QED BY <1>1, <1>4, <1>5 DEF Taken

\* The hang has been seen: the missing rank has logged that its second step begins.
LEMMA HangIsSeen ==
  ASSUME Typed, Written, Staged, Attended, ReachedHang
  PROVE  pc[MissingRank] > 25
<1>1. Saw(log[MissingRank], "SCHEDULER_BEGIN", 2) /\ MissingRank \in Ranks
  BY MissingAssumption DEF ReachedHang
<1>2. PICK i \in DOMAIN log[MissingRank] : Is(log[MissingRank][i], "SCHEDULER_BEGIN", 2)
  BY <1>1 DEF Saw
<1>3. PICK k \in 1..(pc[MissingRank] - 1) : log[MissingRank][i] = job[MissingRank][k]
  BY <1>1 DEF Written
<1>4. /\ pc[MissingRank] \in Nat /\ pc[MissingRank] \in 1..(Len(job[MissingRank]) + 1)
      /\ Len(job[MissingRank]) = 27
      /\ \A n \in 1..Len(job[MissingRank]) : Shape(MissingRank, n, job[MissingRank][n])
  BY <1>1, AtWork
<1>5. k \in 1..Len(job[MissingRank])
  BY <1>4
<1>6. k = 25
  BY <1>2, <1>3, <1>4, <1>5 DEF Shape
<1> QED BY <1>4, <1>6

\* In a job that has stalled every worker waits.
LEMMA WaitsAt ==
  ASSUME Typed, Staged, Attended, Synchronized, Stalled, NEW r \in Ranks
  PROVE  pc[r] \in {16, 22, 30} \/ (pc[r] = 27 /\ r = MissingRank)
<1>1. /\ pc[r] \in Nat /\ pc[r] \in 1..(Len(job[r]) + 1)
      /\ Len(job[r]) = (IF r = MissingRank THEN 27 ELSE 32)
      /\ \A n \in 1..Len(job[r]) : Shape(r, n, job[r][n])
  BY AtWork
<1>2. pc[r] <= 30 /\ (r = MissingRank => pc[r] <= 27)
  BY DEF Synchronized
<1>3. pc[r] \in 1..Len(job[r]) /\ pc[r] <= Len(job[r])
  BY <1>1, <1>2
<1>4. job[r][pc[r]].do \in {"synchronize", "gate"}
  BY <1>3 DEF Stalled, CanStep
<1> QED BY <1>1, <1>3, <1>4 DEF Shape

\* A step of the watchdog: at any moment, of any ring.
LEMMA WatchVerdict ==
  ASSUME VerdictInv, WatchdogStep, Typed'
  PROVE  VerdictInv'
<1>1. /\ Typed /\ Written /\ Staged /\ SentOut /\ Synchronized
      /\ Taken /\ HangSeen /\ Judged /\ Snapped /\ Quieted
  BY DEF VerdictInv
<1>2. Watched /\ h' = h /\ UNCHANGED jobVars /\ UNCHANGED <<job, pc, log>>
  BY DEF WatchdogStep, BeginStalled, BeginExit, Publish, Copy, Skip, Watched, jobVars
<1>3. Attended /\ Attended' /\ h \notin {"passed", "failed"}
  BY <1>2 DEF Attended, Watched
<1>4. (Written /\ Staged /\ SentOut /\ Synchronized)'
  BY <1>1, <1>2, <1>3, StillStaged
<1>5. ASSUME NEW r \in Ranks, Copy(r)
      PROVE  /\ Full(r) \in files' /\ Taken'
             /\ \A q \in Ranks : Full(q) \in files => Full(q) \in files'
  BY <1>1, <1>3, <1>5, CopyKeeps, CopyTaken
<1>6. files' = files \/ \E r \in Ranks : Copy(r)
  BY DEF WatchdogStep, BeginStalled, BeginExit, Publish, Skip
<1>7. Taken'
  <2>1. CASE files' = files
    BY <2>1, <1>1, <1>2, <1>3 DEF Taken
  <2> QED BY <2>1, <1>5, <1>6
<1>8. \A q \in Ranks : Full(q) \in files => Full(q) \in files'
  BY <1>5, <1>6
<1>9. HangSeen' /\ Judged'
  BY <1>1, <1>2, <1>3 DEF HangSeen, Judged
<1>10. \A q \in Ranks : Full(q)' = [rank |-> q, events |-> Len(log[q])]
  BY <1>2 DEF Full
<1>11. Stalled => Stalled'
  BY <1>1, <1>2, <1>3, StillStalled
<1>12. Snapped'
  <2> SUFFICES ASSUME snap'.stalled
               PROVE  Stalled /\ \A q \in Ranks \ snap'.todo : Full(q) \in files'
    BY <1>2, <1>3, <1>10, <1>11 DEF Snapped, Full
  <2>1. CASE BeginStalled
    BY <2>1 DEF BeginStalled
  <2>2. CASE BeginExit \/ Publish
    BY <2>2 DEF BeginExit, Publish, NoSnap
  <2>3. ASSUME NEW r \in Ranks, Copy(r)
        PROVE  Stalled /\ \A q \in Ranks \ snap'.todo : Full(q) \in files'
    <3>1. snap'.stalled = snap.stalled /\ snap'.todo = snap.todo \ {r}
      BY <1>1, <2>3 DEF Copy, Typed, TypeOK
    <3>2. Stalled /\ \A q \in Ranks \ snap.todo : Full(q) \in files
      BY <1>1, <3>1 DEF Snapped
    <3> QED BY <1>5, <2>3, <3>1, <3>2
  <2>4. ASSUME NEW r \in Ranks, Skip(r) PROVE FALSE
    <3>1. snap'.stalled = FALSE
      BY <1>1, <2>4 DEF Skip, Typed, TypeOK
    <3> QED BY <3>1
  <2> QED BY <2>1, <2>2, <2>3, <2>4 DEF WatchdogStep
<1>13. Quieted'
  <2> SUFFICES ASSUME quiet'
               PROVE  Stalled /\ \A q \in Ranks : Full(q) \in files'
    BY <1>2, <1>3, <1>10, <1>11 DEF Quieted, Full
  <2>1. CASE quiet
    BY <2>1, <1>1, <1>8 DEF Quieted
  <2>2. CASE ~quiet
    <3>1. Publish
      BY <2>2 DEF WatchdogStep, BeginStalled, BeginExit, Copy, Skip
    <3>2. snap.stalled /\ snap.todo = {}
      BY <2>2, <3>1 DEF Publish
    <3> QED BY <1>1, <1>8, <3>2 DEF Snapped
  <2> QED BY <2>1, <2>2
<1> QED BY <1>4, <1>7, <1>9, <1>12, <1>13 DEF VerdictInv

\* The other steps of run, and no step.
LEMMA RunsOnVerdict ==
  ASSUME VerdictInv, UNCHANGED <<jobVars, files, quiet>>, snap' \in {snap, NoSnap},
         Begin \/ SeeHang \/ SeeDump \/ TimesOut \/ Reaped \/ Judge \/ h' = h, Typed'
  PROVE  VerdictInv'
<1>1. /\ Typed /\ Written /\ Staged /\ SentOut /\ Synchronized
      /\ Taken /\ HangSeen /\ Judged /\ Snapped /\ Quieted
  BY DEF VerdictInv
<1>2. UNCHANGED jobVars /\ UNCHANGED <<job, pc, log>> /\ UNCHANGED <<files, quiet>>
  BY DEF jobVars
<1>3. Attended' = Attended
  BY DEF Attended, Begin, SeeHang, SeeDump, TimesOut, Reaped, Judge
<1>4. (Written /\ Staged /\ SentOut /\ Synchronized)'
  BY <1>1, <1>2, <1>3, StillStaged
<1>5. Taken'
  BY <1>1, <1>2, <1>3 DEF Taken
<1>7. Stalled => Stalled' \/ ~Attended
  BY <1>1, <1>2, StillStalled
<1>6. HangSeen'
  <2>1. CASE SeeHang
    <3>1. Attended /\ ReachedHang
      BY <2>1 DEF SeeHang, Attended
    <3>2. pc[MissingRank] > 25
      BY <1>1, <3>1, HangIsSeen
    <3> QED BY <1>2, <3>2 DEF HangSeen
  <2>2. CASE Begin \/ SeeDump \/ TimesOut \/ Reaped \/ Judge \/ h' = h
    BY <2>2, <1>1, <1>2 DEF HangSeen, Begin, SeeDump, TimesOut, Reaped, Judge
  <2> QED BY <2>1, <2>2
<1>8. Judged'
  <2>1. Report' = Report
    BY <1>2 DEF Report, EventsOf
  <2>2. Asserts(Report)' = Asserts(Report)
    BY <2>1 DEF Asserts
  <2>3. CASE Judge
    BY <2>2, <2>3 DEF Judge, Judged
  <2>4. CASE Begin \/ SeeHang \/ SeeDump \/ TimesOut \/ Reaped
    BY <2>4 DEF Judged, Begin, SeeHang, SeeDump, TimesOut, Reaped
  <2>5. CASE h' = h
    BY <2>2, <2>5, <1>1 DEF Judged
  <2> QED BY <2>3, <2>4, <2>5
<1>9. Quieted'
  BY <1>1, <1>2, <1>3, <1>7 DEF Quieted, Full
<1>10. Snapped'
  <2>1. CASE snap' = snap
    BY <2>1, <1>1, <1>2, <1>3, <1>7 DEF Snapped, Full
  <2>2. CASE snap' = NoSnap
    BY <2>2 DEF Snapped, NoSnap
  <2> QED BY <2>1, <2>2
<1> QED BY <1>4, <1>5, <1>6, <1>8, <1>9, <1>10 DEF VerdictInv

LEMMA NextVerdict == VerdictInv /\ [Next]_vars => VerdictInv'
<1> SUFFICES ASSUME VerdictInv, [Next]_vars PROVE VerdictInv'
  OBVIOUS
<1>1. Typed'
  BY NextTypes DEF VerdictInv
<1>2. CASE Alive /\ (\E r \in Ranks : HostStep(r)) /\ UNCHANGED harness
  BY <1>2, HostVerdict
<1>3. CASE Alive /\ DeviceStep /\ UNCHANGED harness
  BY <1>3, RunVerdict DEF DeviceStep
<1>4. CASE Begin \/ SeeHang \/ SeeDump \/ TimesOut \/ Reaped \/ Judge
  <2>1. UNCHANGED <<jobVars, files, quiet>> /\ snap' \in {snap, NoSnap}
    BY <1>4 DEF Begin, SeeHang, SeeDump, TimesOut, Reaped, Judge, watch
  <2> QED BY <1>1, <1>4, <2>1, RunsOnVerdict
<1>5. CASE WatchdogStep
  BY <1>1, <1>5, WatchVerdict
<1>6. CASE UNCHANGED vars
  <2>1. UNCHANGED <<jobVars, files, quiet>> /\ h' = h /\ snap' = snap
    BY <1>6 DEF vars, harness
  <2> QED BY <1>1, <2>1, RunsOnVerdict
<1> QED BY <1>2, <1>3, <1>4, <1>5, <1>6 DEF Next

-----------------------------------------------------------------------------
(* The copy of each ring, and the last event in it.                        *)

\* A report on a rank has what its program had logged before a step.
Copied(r, k) ==
    /\ k \in 1..pc[r] /\ Report[r] \in Seq(Steps)
    /\ \A j \in 1..(k - 1) : job[r][j].do = "record" =>
          /\ Line(job[r], j) \in DOMAIN Report[r]
          /\ Report[r][Line(job[r], j)] = job[r][j]
    /\ \A i \in DOMAIN Report[r] : \E j \in 1..(k - 1) :
          job[r][j].do = "record" /\ Line(job[r], j) = i /\ Report[r][i] = job[r][j]

\* A copy taken at a step has what was logged before it.
LEMMA CopyOf ==
  ASSUME Typed, Written, NEW r \in Ranks, NEW k \in 1..pc[r],
         r \in DOMAIN Report, EventsOf(r) = Line(job[r], k - 1)
  PROVE  Copied(r, k)
<1> DEFINE p == job[r]
<1> DEFINE l == log[r]
<1> DEFINE n == Line(p, k - 1)
<1>1. pc[r] \in Nat /\ k \in Nat /\ k - 1 \in Nat /\ pc[r] - 1 \in Nat /\ k - 1 <= pc[r] - 1
  BY DEF Typed, TypeOK
<1>2. /\ l \in Seq(Steps) /\ Len(l) = Line(p, pc[r] - 1)
      /\ \A j \in 1..(pc[r] - 1) : p[j].do = "record" =>
            Line(p, j) \in DOMAIN l /\ l[Line(p, j)] = p[j]
      /\ \A i \in DOMAIN l : \E j \in 1..(pc[r] - 1) :
            p[j].do = "record" /\ Line(p, j) = i /\ l[i] = p[j]
  BY DEF Typed, TypeOK, Written
<1>3. n \in Nat /\ n <= Len(l)
  <2>1. Line(p, k - 1) <= Line(p, pc[r] - 1)
    BY <1>1, LineGrows
  <2>2. n \in Nat
    BY <1>1, LineIs
  <2> QED BY <1>2, <2>1, <2>2
<1>4. Report[r] = SubSeq(l, 1, n)
  BY DEF Report
<1> HIDE DEF n, l, p
<1>5. /\ Report[r] \in Seq(Steps) /\ DOMAIN Report[r] = 1..n
      /\ \A i \in 1..n : i \in DOMAIN l /\ Report[r][i] = l[i]
  <2>1. \A i \in 1..n : i \in DOMAIN l
    BY <1>2, <1>3
  <2>2. SubSeq(l, 1, n) \in Seq(Steps) /\ Len(SubSeq(l, 1, n)) = n
        /\ \A i \in 1..n : SubSeq(l, 1, n)[i] = l[i]
    BY <1>2, <1>3
  <2> QED BY <1>4, <2>1, <2>2
<1>6. ASSUME NEW j \in 1..(k - 1), p[j].do = "record"
      PROVE  Line(p, j) \in DOMAIN Report[r] /\ Report[r][Line(p, j)] = p[j]
  <2>1. j \in 1..(pc[r] - 1) /\ j \in Nat /\ j <= k - 1
    BY <1>1
  <2>2. Line(p, j) \in DOMAIN l /\ l[Line(p, j)] = p[j]
    BY <1>2, <1>6, <2>1
  <2>3. Line(p, j) <= n
    BY <1>1, <2>1, LineGrows DEF n
  <2>4. Line(p, j) \in 1..n
    BY <1>2, <1>3, <2>2, <2>3
  <2> QED BY <1>5, <2>2, <2>4
<1>7. ASSUME NEW i \in DOMAIN Report[r]
      PROVE  \E j \in 1..(k - 1) : p[j].do = "record" /\ Line(p, j) = i /\ Report[r][i] = p[j]
  <2>1. i \in 1..n /\ i \in DOMAIN l /\ Report[r][i] = l[i]
    BY <1>5
  <2>2. PICK j \in 1..(pc[r] - 1) : p[j].do = "record" /\ Line(p, j) = i /\ l[i] = p[j]
    BY <1>2, <2>1
  <2>3. j \in Nat /\ j >= 1
    BY <1>1
  <2>4. k - 1 < j => n < Line(p, j)
    BY <1>1, <2>2, <2>3, LineGrows DEF n
  <2>5. j \in 1..(k - 1)
    <3>1. Line(p, j) <= n
      BY <2>1, <2>2
    <3>2. ~(k - 1 < j)
      BY <1>3, <2>1, <2>2, <2>4, <3>1
    <3> QED BY <1>1, <2>3, <3>2
  <2> QED BY <2>1, <2>2, <2>5
<1> QED BY <1>5, <1>6, <1>7 DEF Copied, p

\* The report is on the one copy that there is of a ring,
LEMMA EventsAre ==
  ASSUME Typed, Written, Taken, Attended, NEW f \in files
  PROVE  f.rank \in DOMAIN Report /\ EventsOf(f.rank) = f.events
<1> DEFINE r == f.rank
<1> DEFINE n == EventsOf(r)
<1>1. f = [rank |-> r, events |-> f.events]
  BY NoLonger
<1>2. [rank |-> r, events |-> n] \in files
  <2>1. \E m \in {g.events : g \in files} : [rank |-> r, events |-> m] \in files
    BY <1>1
  <2> QED BY <2>1 DEF EventsOf
<1>3. [rank |-> r, events |-> n].rank = r /\ [rank |-> r, events |-> n].events = n
  OBVIOUS
<1> HIDE DEF n
<1>4. [rank |-> r, events |-> n] = f
  BY <1>2, <1>3 DEF Taken
<1>5. n = f.events
  BY <1>3, <1>4
<1> QED BY <1>5 DEF n, Report

\* which was taken at some step,
LEMMA SomeCopy ==
  ASSUME Typed, Written, Taken, Attended, NEW r \in Ranks, r \in DOMAIN Report
  PROVE  \E k \in 1..pc[r] : Copied(r, k)
<1>1. PICK f \in files : f.rank = r
  BY DEF Report
<1>2. PICK k \in 1..pc[r] : f.events = Line(job[r], k - 1)
  BY <1>1 DEF Taken
<1>3. EventsOf(r) = f.events
  BY <1>1, EventsAre
<1> QED BY <1>2, <1>3, CopyOf

\* and may be complete.
LEMMA FullCopy ==
  ASSUME Typed, Written, Taken, Attended, NEW r \in Ranks, Full(r) \in files
  PROVE  r \in DOMAIN Report /\ Copied(r, pc[r])
<1>1. Full(r).rank = r /\ Full(r).events = Len(log[r])
  BY DEF Full
<1>2. r \in DOMAIN Report /\ EventsOf(r) = Len(log[r])
  BY <1>1, EventsAre
<1>3. Len(log[r]) = Line(job[r], pc[r] - 1) /\ pc[r] \in 1..pc[r]
  BY DEF Typed, TypeOK, Written
<1> QED BY <1>2, <1>3, CopyOf

\* An event of a rank's report, and a logged step before the copy.
LEMMA InReport ==
  ASSUME NEW r, NEW k, Copied(r, k), NEW type, NEW corr
  PROVE  Saw(Report[r], type, corr) <=>
            \E j \in 1..(k - 1) : job[r][j].do = "record" /\ Is(job[r][j], type, corr)
BY DEF Copied, Saw

\* The last event of the host is the last that its program has logged.
LEMMA LastIs ==
  ASSUME NEW r \in Ranks, NEW k, Copied(r, k), pc[r] \in Nat, k > 1,
         job[r][k - 1].do = "record", job[r][k - 1].type # "DEVICE_CONFIRMED"
  PROVE  LastHostEvent(Report[r]) = {job[r][k - 1].type}
<1> DEFINE ev == Report[r]
<1> DEFINE n == Line(job[r], k - 1)
<1>1. k \in Nat /\ k - 1 \in 1..(k - 1) /\ k - 1 \in Nat
  BY DEF Copied
<1>2. n \in DOMAIN ev /\ ev[n] = job[r][k - 1] /\ n \in Nat
  BY <1>1, LineIs DEF Copied
<1>3. n \in HostEvents(ev)
  BY <1>2 DEF HostEvents
<1>4. \A i \in DOMAIN ev : i <= n /\ i \in Nat
  <2> SUFFICES ASSUME NEW i \in DOMAIN ev PROVE i <= n /\ i \in Nat
    OBVIOUS
  <2>1. PICK j \in 1..(k - 1) : Line(job[r], j) = i
    BY DEF Copied
  <2> QED BY <1>1, <2>1, LineGrows, LineIs
<1> HIDE DEF ev, n
<1>5. \A i \in HostEvents(ev) : i <= n /\ i \in Nat
  BY <1>4 DEF HostEvents
<1>6. {i \in HostEvents(ev) : \A j \in HostEvents(ev) : j <= i} = {n}
  BY <1>2, <1>3, <1>5
<1>7. LastHostEvent(ev) = {ev[n].type}
  BY <1>6 DEF LastHostEvent
<1> QED BY <1>2, <1>7 DEF ev

\* A step of a type is logged from one step of a program to another.
LoggedFrom(r, type, m, n) ==
    \E j \in m..n : job[r][j].do = "record" /\ job[r][j].type = type

\* It is of a step as late as any logged.
LEMMA LastSays ==
  ASSUME NEW r \in Ranks, NEW k, Copied(r, k), pc[r] \in Nat, NEW type,
         LastHostEvent(Report[r]) = {type}, NEW m \in 1..(k - 1),
         job[r][m].do = "record", job[r][m].type # "DEVICE_CONFIRMED"
  PROVE  LoggedFrom(r, type, m, k - 1)
<1> DEFINE ev == Report[r]
<1> DEFINE n == Line(job[r], m)
<1>1. k \in Nat /\ m \in Nat
  BY DEF Copied
<1>2. n \in DOMAIN ev /\ ev[n] = job[r][m]
  BY DEF Copied
<1>3. n \in HostEvents(ev)
  BY <1>2 DEF HostEvents
<1>4. PICK i \in HostEvents(ev) : ev[i].type = type /\ \A j \in HostEvents(ev) : j <= i
  BY DEF LastHostEvent
<1>5. i \in DOMAIN ev /\ n <= i
  BY <1>3, <1>4 DEF HostEvents
<1>6. PICK j \in 1..(k - 1) : job[r][j].do = "record" /\ Line(job[r], j) = i /\ ev[i] = job[r][j]
  BY <1>5 DEF Copied
<1>7. j \in Nat /\ ~(j < m)
  <2>1. j \in Nat
    BY <1>1
  <2>2. j < m => Line(job[r], j) < n
    BY <1>1, <2>1, LineGrows
  <2>3. Line(job[r], j) \in Nat /\ n \in Nat
    BY <1>1, <2>1, LineIs
  <2> HIDE DEF n
  <2> QED BY <2>1, <2>2, <2>3, <1>5, <1>6
<1>8. j \in m..(k - 1)
  BY <1>1, <1>7
<1> QED BY <1>4, <1>6, <1>8 DEF LoggedFrom

-----------------------------------------------------------------------------
(* A job that has stalled.                                                 *)

\* Nobody is held in the first step: what its streams wait for is recorded.
LEMMA FirstStepEnds ==
  ASSUME Typed, Staged, SentOut, Attended, Stalled, NEW r \in Ranks
  PROVE  pc[r] # 16
<1> SUFFICES ASSUME pc[r] = 16 PROVE FALSE
  OBVIOUS
<1>1. /\ job[r] = Worker(r) /\ pc[r] \in 1..Len(job[r]) /\ Shape(r, 16, job[r][16])
      /\ "compute" \in Streams /\ "transfer" \in Streams
  <2>1. /\ job[r] = Worker(r) /\ Len(job[r]) = (IF r = MissingRank THEN 27 ELSE 32)
        /\ \A k \in 1..Len(job[r]) : Shape(r, k, job[r][k])
        /\ "compute" \in Streams /\ "transfer" \in Streams
    BY AtWork
  <2>2. 16 \in 1..Len(job[r])
    BY <2>1
  <2> QED BY <2>1, <2>2
<1>2. job[r][pc[r]].do = "synchronize"
  BY <1>1 DEF Shape
<1>3. ~Drained(r) /\ \A s \in Streams : ~CanRun(r, s)
  <2>1. ~CanStep(r) /\ \A s \in Streams : ~CanRun(r, s)
    BY DEF Stalled
  <2>2. pc[r] <= Len(job[r])
    BY <1>1
  <2> QED BY <1>2, <2>1, <2>2 DEF CanStep
<1>4. /\ Len(queue[r]["compute"]) = 2 /\ Len(queue[r]["transfer"]) = 2
      /\ queue[r]["compute"][1] = Submit("record", "compute", 1000)
      /\ queue[r]["compute"][2] = Submit("wait", "compute", 2000)
      /\ queue[r]["transfer"][1] = Submit("wait", "transfer", 1000)
      /\ queue[r]["transfer"][2] = Submit("record", "transfer", 2000)
  BY Submitted
<1>5. \A s \in Streams : /\ queue[r][s] \in Seq(Steps) /\ done[r][s] \in Nat
                         /\ done[r][s] <= Len(queue[r][s])
  BY DEF Typed, TypeOK
<1>6. ASSUME NEW s \in Streams, NEW i, done[r][s] + 1 = i, i <= Len(queue[r][s])
      PROVE  ~Ready(r, queue[r][s][i])
  <2>1. i \in DOMAIN queue[r][s]
    BY <1>5, <1>6
  <2>2. queue[r][s][i] \in Pending(r, s)
    BY <1>6, <2>1 DEF Pending
  <2> QED BY <1>3, <2>2 DEF CanRun
<1>7. done[r]["compute"] >= 1
  <2> SUFFICES ASSUME done[r]["compute"] = 0 PROVE FALSE
    BY <1>1, <1>5
  <2>1. ~Ready(r, queue[r]["compute"][1])
    BY <1>1, <1>4, <1>6
  <2> QED BY <1>4, <2>1 DEF Ready, Submit, Step
<1>8. Completed(r, "record", 1000)
  <2>1. 1 \in 1..done[r]["compute"]
    BY <1>1, <1>5, <1>7
  <2>2. Is(queue[r]["compute"][1], "record", 1000)
    BY <1>4 DEF Is, Submit, Step
  <2> QED BY <1>1, <2>1, <2>2 DEF Completed
<1>9. done[r]["transfer"] = 2
  <2>1. done[r]["transfer"] # 0
    <3> SUFFICES ASSUME done[r]["transfer"] = 0 PROVE FALSE
      OBVIOUS
    <3>1. ~Ready(r, queue[r]["transfer"][1])
      BY <1>1, <1>4, <1>6
    <3> QED BY <1>4, <1>8, <3>1 DEF Ready, Submit, Step
  <2>2. done[r]["transfer"] # 1
    <3> SUFFICES ASSUME done[r]["transfer"] = 1 PROVE FALSE
      OBVIOUS
    <3>1. ~Ready(r, queue[r]["transfer"][2])
      BY <1>1, <1>4, <1>6
    <3> QED BY <1>4, <3>1 DEF Ready, Submit, Step
  <2>3. done[r]["transfer"] \in Nat /\ done[r]["transfer"] <= 2
    <3>1. done[r]["transfer"] \in Nat /\ done[r]["transfer"] <= Len(queue[r]["transfer"])
      BY <1>1, <1>5
    <3>2. Len(queue[r]["transfer"]) = 2
      BY <1>4
    <3> QED BY <3>1, <3>2
  <2> QED BY <2>1, <2>2, <2>3
<1>10. Completed(r, "record", 2000)
  <2>1. 2 \in 1..done[r]["transfer"]
    BY <1>9
  <2>2. Is(queue[r]["transfer"][2], "record", 2000)
    BY <1>4 DEF Is, Submit, Step
  <2> QED BY <1>1, <2>1, <2>2 DEF Completed
<1>11. done[r]["compute"] = 2
  <2>1. done[r]["compute"] # 1
    <3> SUFFICES ASSUME done[r]["compute"] = 1 PROVE FALSE
      OBVIOUS
    <3>1. ~Ready(r, queue[r]["compute"][2])
      BY <1>1, <1>4, <1>6
    <3> QED BY <1>4, <1>10, <3>1 DEF Ready, Submit, Step
  <2>2. done[r]["compute"] \in Nat /\ done[r]["compute"] <= 2
    <3>1. done[r]["compute"] \in Nat /\ done[r]["compute"] <= Len(queue[r]["compute"])
      BY <1>1, <1>5
    <3>2. Len(queue[r]["compute"]) = 2
      BY <1>4
    <3> QED BY <3>1, <3>2
  <2> QED BY <1>7, <2>1, <2>2
<1>12. \A s \in Streams \ {"compute", "transfer"} : Len(queue[r][s]) = 0
  <2>1. queue[r]["default"] = Sent(r, "default", 16) /\ Sent(r, "default", 16) = << >>
    <3>1. "default" \in Streams
      BY AtWork
    <3> QED BY <3>1 DEF SentOut, Sent
  <2>2. \A s \in Streams \ {"compute", "transfer", "default"} : Len(queue[r][s]) = 0
    BY Submitted
  <2>3. Len(queue[r]["default"]) = 0
    BY <2>1
  <2> QED BY <2>2, <2>3
<1>13. \A s \in Streams : done[r][s] = Len(queue[r][s])
  <2> SUFFICES ASSUME NEW s \in Streams PROVE done[r][s] = Len(queue[r][s])
    OBVIOUS
  <2>1. CASE s \in {"compute", "transfer"}
    <3>1. Len(queue[r]["compute"]) = 2 /\ Len(queue[r]["transfer"]) = 2
      BY <1>4
    <3> QED BY <2>1, <3>1, <1>9, <1>11
  <2>2. CASE s \notin {"compute", "transfer"}
    BY <2>2, <1>5, <1>12
  <2> QED BY <2>1, <2>2
<1> QED BY <1>3, <1>13 DEF Drained

\* Nor in the first collective, to which all of them have come.
LEMMA FirstCollectiveEnds ==
  ASSUME Typed, Staged, SentOut, Synchronized, Attended, Stalled,
         \A q \in Ranks : pc[q] > 20, NEW r \in Ranks
  PROVE  pc[r] # 22
<1> SUFFICES ASSUME pc[r] = 22 PROVE FALSE
  OBVIOUS
<1>1. \A q \in Ranks : /\ pc[q] \in Nat
                       /\ "compute" \in Streams /\ "transfer" \in Streams /\ "default" \in Streams
  BY AtWork
<1>2. job[r][pc[r]].do = "synchronize" /\ pc[r] <= Len(job[r])
  <2>1. /\ Len(job[r]) = (IF r = MissingRank THEN 27 ELSE 32)
        /\ \A k \in 1..Len(job[r]) : Shape(r, k, job[r][k])
    BY AtWork
  <2>2. 22 \in 1..Len(job[r]) /\ 22 <= Len(job[r])
    BY <2>1
  <2> QED BY <2>1, <2>2 DEF Shape
<1>3. ~Drained(r) /\ ~CanRun(r, "default")
  <2>1. ~CanStep(r) /\ \A s \in Streams : ~CanRun(r, s)
    BY DEF Stalled
  <2> QED BY <1>1, <1>2, <2>1 DEF CanStep
<1>4. ASSUME NEW q \in Ranks
      PROVE  /\ 1 \in DOMAIN queue[q]["default"]
             /\ queue[q]["default"][1] = Submit("collective", "default", 1)
             /\ done[q]["default"] \in Nat
  <2>1. pc[q] > 20 /\ pc[q] \in Nat
    BY <1>1
  <2>2. /\ Len(queue[q]["default"]) >= 1
        /\ queue[q]["default"][1] = Submit("collective", "default", 1)
    <3>1. CASE pc[q] <= 27 \/ q = MissingRank
      BY <2>1, <3>1, Submitted
    <3>2. CASE pc[q] > 27 /\ q # MissingRank
      BY <3>2, Submitted
    <3> QED BY <2>1, <3>1, <3>2
  <2>3. queue[q]["default"] \in Seq(Steps) /\ done[q]["default"] \in Nat
    BY <1>1 DEF Typed, TypeOK
  <2> QED BY <2>2, <2>3
<1>5. Is(Submit("collective", "default", 1), "collective", 1)
  BY DEF Is, Submit, Step
<1>6. ASSUME NEW q \in Ranks
      PROVE  AtHead(q, "collective", 1) # {} \/ Completed(q, "collective", 1)
  <2>1. CASE done[q]["default"] = 0
    <3>1. queue[q]["default"][1] \in Pending(q, "default")
      <4>1. 1 \in {done[q]["default"] + 1} \cap DOMAIN queue[q]["default"]
        BY <2>1, <1>4
      <4> QED BY <4>1 DEF Pending
    <3>2. "default" \in AtHead(q, "collective", 1)
      BY <3>1, <1>1, <1>4, <1>5 DEF AtHead
    <3> QED BY <3>2
  <2>2. CASE done[q]["default"] # 0
    <3>1. 1 \in 1..done[q]["default"]
      BY <2>2, <1>4
    <3> QED BY <3>1, <1>1, <1>4, <1>5 DEF Completed
  <2> QED BY <2>1, <2>2
<1>7. Ready(r, queue[r]["default"][1])
  <2>1. queue[r]["default"][1].type = "collective" /\ queue[r]["default"][1].corr = 1
    BY <1>4 DEF Submit, Step
  <2> QED BY <1>6, <2>1 DEF Ready
<1>8. done[r]["default"] # 0
  <2> SUFFICES ASSUME done[r]["default"] = 0 PROVE FALSE
    OBVIOUS
  <2>1. 1 \in {done[r]["default"] + 1} \cap DOMAIN queue[r]["default"]
    BY <1>4
  <2>2. queue[r]["default"][1] \in Pending(r, "default")
    BY <2>1 DEF Pending
  <2> QED BY <1>3, <1>7, <2>2 DEF CanRun
<1>9. /\ Len(queue[r]["compute"]) = 2 /\ Len(queue[r]["transfer"]) = 2
      /\ Len(queue[r]["default"]) = 1
      /\ \A s \in Streams \ {"compute", "transfer", "default"} : Len(queue[r][s]) = 0
  BY Submitted
<1>10. done[r]["compute"] = 2 /\ done[r]["transfer"] = 2 /\ done[r]["default"] <= 1
  BY DEF Synchronized
<1>11. \A s \in Streams : done[r][s] \in Nat /\ done[r][s] <= Len(queue[r][s])
  BY DEF Typed, TypeOK
<1>12. \A s \in Streams : done[r][s] = Len(queue[r][s])
  <2> SUFFICES ASSUME NEW s \in Streams PROVE done[r][s] = Len(queue[r][s])
    OBVIOUS
  <2>1. CASE s \in {"compute", "transfer"}
    BY <2>1, <1>9, <1>10
  <2>2. CASE s = "default"
    BY <2>2, <1>4, <1>8, <1>9, <1>10
  <2>3. CASE s \notin {"compute", "transfer", "default"}
    BY <2>3, <1>9, <1>11
  <2> QED BY <2>1, <2>2, <2>3
<1> QED BY <1>3, <1>12 DEF Drained

\* Where they stand in a job that has stalled.
LEMMA StalledAt ==
  ASSUME Typed, Staged, SentOut, Synchronized, Attended, Stalled, NEW r \in Ranks
  PROVE  pc[r] = (IF r = MissingRank THEN 27 ELSE 30)
<1>1. \A q \in Ranks : pc[q] \in {16, 22, 30} \/ (pc[q] = 27 /\ q = MissingRank)
  BY WaitsAt
<1>2. \A q \in Ranks : pc[q] # 16
  BY FirstStepEnds
<1>3. \A q \in Ranks : pc[q] > 20
  BY <1>1, <1>2
<1>4. pc[r] # 22
  BY <1>3, FirstCollectiveEnds
<1>5. r = MissingRank => pc[r] <= 27
  BY DEF Synchronized
<1> QED BY <1>1, <1>2, <1>4, <1>5

-----------------------------------------------------------------------------
(* The verdict.                                                            *)

\* After a snapshot of the stalled job the report is as the example asserts.
LEMMA StalledAsserts == VerdictInv /\ quiet => Asserts(Report)
<1> SUFFICES ASSUME VerdictInv, quiet PROVE Asserts(Report)
  OBVIOUS
<1>1. /\ Typed /\ Written /\ Staged /\ SentOut /\ Synchronized /\ Taken /\ Attended /\ Stalled
      /\ \A q \in Ranks : Full(q) \in files
  BY DEF VerdictInv, Quieted
<1>2. ASSUME NEW r \in Ranks
      PROVE  /\ pc[r] \in Nat /\ pc[r] = (IF r = MissingRank THEN 27 ELSE 30)
             /\ r \in DOMAIN Report /\ Copied(r, pc[r])
             /\ \A k \in 1..(pc[r] - 1) : Shape(r, k, job[r][k])
  <2>1. pc[r] = (IF r = MissingRank THEN 27 ELSE 30)
    BY <1>1, StalledAt
  <2>2. r \in DOMAIN Report /\ Copied(r, pc[r])
    BY <1>1, FullCopy
  <2>3. /\ Len(job[r]) = (IF r = MissingRank THEN 27 ELSE 32)
        /\ \A k \in 1..Len(job[r]) : Shape(r, k, job[r][k])
    BY <1>1, AtWork
  <2>4. \A k \in 1..(pc[r] - 1) : k \in 1..Len(job[r])
    BY <2>1, <2>3
  <2> QED BY <2>1, <2>2, <2>3, <2>4
<1>3. ASSUME NEW r \in Ranks, r # MissingRank
      PROVE  /\ Saw(Report[r], "HCCL_BEGIN", 2) /\ Saw(Report[r], "HCCL_END", 2)
             /\ LastHostEvent(Report[r]) = {"DEVICE_SYNC_BEGIN"}
  <2>1. pc[r] = 30 /\ Copied(r, 30) /\ job[r] = Worker(r)
    BY <1>1, <1>2, <1>3, AtWork
  <2>2. /\ job[r][26] = Record("HCCL_BEGIN", "default", 2)
        /\ job[r][28] = Record("HCCL_END", "default", 2)
        /\ job[r][29] = Record("DEVICE_SYNC_BEGIN", "none", 2)
    BY <2>1, <1>3, WorkerIs
  <2>3. /\ job[r][26].do = "record" /\ Is(job[r][26], "HCCL_BEGIN", 2)
        /\ job[r][28].do = "record" /\ Is(job[r][28], "HCCL_END", 2)
        /\ job[r][29].do = "record" /\ job[r][29].type = "DEVICE_SYNC_BEGIN"
    BY <2>2 DEF Record, Step, Is
  <2>4. 26 \in 1..(30 - 1) /\ 28 \in 1..(30 - 1) /\ 30 - 1 = 29 /\ 30 > 1
    OBVIOUS
  <2>5. Saw(Report[r], "HCCL_BEGIN", 2)
    BY <2>1, <2>3, <2>4, InReport
  <2>6. Saw(Report[r], "HCCL_END", 2)
    BY <2>1, <2>3, <2>4, InReport
  <2>7. LastHostEvent(Report[r]) = {job[r][30 - 1].type}
    <3>1. job[r][30 - 1].do = "record" /\ job[r][30 - 1].type # "DEVICE_CONFIRMED"
      BY <2>3, <2>4
    <3>2. pc[r] \in Nat
      BY <1>2
    <3> QED BY <2>1, <2>4, <3>1, <3>2, LastIs
  <2> QED BY <2>3, <2>4, <2>5, <2>6, <2>7
<1>4. LET r == MissingRank IN
      /\ ~Saw(Report[r], "HCCL_BEGIN", 2) /\ ~Saw(Report[r], "HCCL_END", 2)
      /\ LastHostEvent(Report[r]) = {"KV_BEGIN"}
  <2> DEFINE r == MissingRank
  <2>1. pc[r] = 27 /\ Copied(r, 27) /\ job[r] = Worker(r) /\ r \in Ranks
        /\ \A k \in 1..(27 - 1) : Shape(r, k, job[r][k])
    <3>1. r \in Ranks
      BY MissingAssumption
    <3> QED BY <3>1, <1>1, <1>2, AtWork
  <2> HIDE DEF r
  <2>2. job[r][26] = Record("KV_BEGIN", "transfer", 3000)
    BY <2>1, WorkerIs DEF r
  <2>3. job[r][26].do = "record" /\ job[r][26].type = "KV_BEGIN"
    BY <2>2 DEF Record, Step
  <2>4. ~Saw(Report[r], "HCCL_BEGIN", 2)
    <3>1. \A k \in 1..(27 - 1) : ~Is(job[r][k], "HCCL_BEGIN", 2)
      BY <2>1 DEF Shape, r
    <3> QED BY <2>1, <3>1, InReport
  <2>5. ~Saw(Report[r], "HCCL_END", 2)
    <3>1. \A k \in 1..(27 - 1) : k # 28
      OBVIOUS
    <3>2. \A k \in 1..(27 - 1) : ~Is(job[r][k], "HCCL_END", 2)
      BY <2>1, <3>1 DEF Shape
    <3> QED BY <2>1, <3>2, InReport
  <2>6. LastHostEvent(Report[r]) = {job[r][27 - 1].type}
    <3>1. job[r][27 - 1].do = "record" /\ job[r][27 - 1].type # "DEVICE_CONFIRMED"
      BY <2>3
    <3>2. pc[r] \in Nat /\ 27 > 1
      BY <1>2, <2>1
    <3> QED BY <2>1, <3>1, <3>2, LastIs
  <2>7. 27 - 1 = 26
    OBVIOUS
  <2> QED BY <2>3, <2>4, <2>5, <2>6, <2>7 DEF r
<1>5. DOMAIN Report = Ranks
  <2>1. \A f \in files : f.rank \in Ranks
    BY <1>1 DEF Typed, TypeOK
  <2>2. DOMAIN Report \subseteq Ranks
    BY <2>1 DEF Report
  <2> QED BY <1>2, <2>2
<1>6. Entered(Report, 2) = Ranks \ {MissingRank} /\ EndObserved(Report, 2) = Ranks \ {MissingRank}
  BY <1>3, <1>4, <1>5 DEF Entered, EndObserved
<1>7. Missing(Report, Ranks, 2) = {MissingRank}
  BY <1>6, MissingAssumption DEF Missing
<1>8. \A r \in Ranks :
         LastHostEvent(Report[r]) = {IF r = MissingRank THEN "KV_BEGIN" ELSE "DEVICE_SYNC_BEGIN"}
  BY <1>3, <1>4
<1> QED BY <1>2, <1>6, <1>7, <1>8 DEF Asserts

\* A copy with an asserted last event was taken at the end of the program; the
\* missing rank is where it had to be for the hang to be seen.
LEMMA AssertedAt ==
  ASSUME VerdictInv, h = "passed", NEW r \in Ranks
  PROVE  IF r = MissingRank THEN pc[r] \in {26, 27}
         ELSE pc[r] = 30 /\ Copied(r, 30)
<1>1. /\ Typed /\ Written /\ Staged /\ SentOut /\ Synchronized /\ Taken /\ HangSeen
      /\ Attended /\ Asserts(Report)
  BY DEF VerdictInv, Judged, Attended
<1>2. r \in DOMAIN Report
  BY <1>1 DEF Asserts
<1>3. PICK k \in 1..pc[r] : Copied(r, k)
  BY <1>1, <1>2, SomeCopy
<1>4. /\ job[r] = Worker(r) /\ pc[r] \in Nat /\ pc[r] \in 1..(Len(job[r]) + 1)
      /\ Len(job[r]) = (IF r = MissingRank THEN 27 ELSE 32)
      /\ \A j \in 1..Len(job[r]) : Shape(r, j, job[r][j])
  BY <1>1, AtWork
<1>5. k \in Nat /\ k <= pc[r] /\ \A j \in 1..(k - 1) : j \in Nat /\ j < k /\ j \in 1..Len(job[r])
  BY <1>3, <1>4
<1>6. pc[r] <= 30 /\ (r = MissingRank => pc[r] <= 27)
  BY <1>1 DEF Synchronized
<1>7. LastHostEvent(Report[r]) = {IF r = MissingRank THEN "KV_BEGIN" ELSE "DEVICE_SYNC_BEGIN"}
  BY <1>1 DEF Asserts
<1>8. CASE r = MissingRank
  <2>1. pc[r] > 25
    BY <1>1, <1>8 DEF HangSeen
  <2> QED BY <1>4, <1>6, <1>8, <2>1
<1>9. CASE r # MissingRank
  <2>1. LastHostEvent(Report[r]) = {"DEVICE_SYNC_BEGIN"}
    BY <1>7, <1>9
  <2>2. Saw(Report[r], "HCCL_END", 2)
    BY <1>1, <1>9 DEF Asserts, EndObserved
  <2>3. PICK i \in 1..(k - 1) : Is(job[r][i], "HCCL_END", 2)
    BY <1>3, <2>2, InReport
  <2>4. i = 28
    BY <1>4, <1>5, <2>3 DEF Shape
  <2>5. job[r][28].do = "record" /\ job[r][28].type = "HCCL_END"
    BY <1>4, <1>9, WorkerIs DEF Record, Step
  <2>6. PICK j \in 28..(k - 1) : job[r][j].type = "DEVICE_SYNC_BEGIN"
    <3>1. 28 \in 1..(k - 1) /\ job[r][28].type # "DEVICE_CONFIRMED"
      BY <2>3, <2>4, <2>5
    <3>2. Copied(r, k) /\ pc[r] \in Nat /\ job[r][28].do = "record"
      BY <1>3, <1>4, <2>5
    <3>3. LoggedFrom(r, "DEVICE_SYNC_BEGIN", 28, k - 1)
      BY <2>1, <3>1, <3>2, LastSays
    <3> QED BY <3>3 DEF LoggedFrom
  <2>7. j # 28 /\ j >= 28 /\ j < k
    BY <1>5, <2>5, <2>6
  <2>8. k = 30 /\ pc[r] = 30
    BY <1>4, <1>5, <1>6, <2>6, <2>7
  <2> QED BY <1>3, <1>9, <2>8
<1> QED BY <1>8, <1>9

\* Both sides of the verdict.
LEMMA VerdictHolds == VerdictInv => VerdictIsRight
<1> SUFFICES ASSUME VerdictInv PROVE VerdictIsRight
  OBVIOUS
<1>1. /\ Typed /\ Written /\ Staged /\ SentOut /\ Synchronized /\ Taken /\ Judged
  BY DEF VerdictInv
<1>2. h = "failed" => ~quiet
  BY <1>1, StalledAsserts DEF Judged
<1>3. ASSUME h = "passed", NEW r \in Ranks, r = MissingRank
      PROVE  job[r][pc[r]] \in {Record("KV_BEGIN", "transfer", 3000), Gate}
  <2>1. pc[r] \in {26, 27} /\ job[r] = Worker(r)
    BY <1>1, <1>3, AssertedAt, AtWork DEF Attended
  <2> QED BY <1>3, <2>1, WorkerIs
<1>4. ASSUME h = "passed", NEW r \in Ranks, r # MissingRank
      PROVE  /\ job[r][pc[r]] = Synchronize
             /\ AtHead(r, "collective", 2) = {"default"}
             /\ Record("DEVICE_SYNC_BEGIN", "none", 2) \in OpenScopes(Report[r])
  <2>1. pc[r] = 30 /\ Copied(r, 30)
    BY <1>4, AssertedAt
  <2>2. Attended
    BY <1>4 DEF Attended
  <2>3. /\ job[r] = Worker(r) /\ Len(job[r]) = 32
        /\ \A j \in 1..Len(job[r]) : Shape(r, j, job[r][j])
        /\ "default" \in Streams
    BY <1>1, <1>4, <2>2, AtWork
  <2>4. job[r][30] = Synchronize /\ job[r][29] = Record("DEVICE_SYNC_BEGIN", "none", 2)
    BY <1>4, <2>3, WorkerIs
  <2>7. queue[r]["default"] \in Seq(Steps) /\ done[r]["default"] \in Nat
    <3>1. queue \in [Ranks -> [Streams -> Seq(Steps)]] /\ done \in [Ranks -> [Streams -> Nat]]
      BY <1>1 DEF Typed, TypeOK
    <3> QED BY <2>3, <3>1
  <2>5. AtHead(r, "collective", 2) = {"default"}
    <3>1. done[r]["default"] = 1
      <4>1. done[r]["default"] >= 1 /\ done[r]["default"] <= 1
        BY <1>1, <2>1, <2>2 DEF Synchronized
      <4>2. done[r]["default"] \in Nat
        BY <2>7
      <4> QED BY <4>1, <4>2
    <3>2. /\ Len(queue[r]["default"]) = 2
          /\ queue[r]["default"][2] = Submit("collective", "default", 2)
      BY <1>1, <1>4, <2>1, <2>2, Submitted
    <3>3. 2 \in DOMAIN queue[r]["default"]
      <4>1. queue[r]["default"] \in Seq(Steps)
        BY <2>7
      <4> QED BY <3>2, <4>1
    <3>4. queue[r]["default"][2] \in Pending(r, "default")
      <4>1. 2 \in {done[r]["default"] + 1} \cap DOMAIN queue[r]["default"]
        BY <3>1, <3>3
      <4> QED BY <4>1 DEF Pending
    <3>5. Is(queue[r]["default"][2], "collective", 2)
      BY <3>2 DEF Is, Submit, Step
    <3>6. "default" \in AtHead(r, "collective", 2)
      BY <2>3, <3>4, <3>5 DEF AtHead
    <3>7. ASSUME NEW s \in AtHead(r, "collective", 2) PROVE s = "default"
      <4>1. PICK i \in DOMAIN queue[r][s] : Is(queue[r][s][i], "collective", 2)
        BY <3>7 DEF AtHead, Pending
      <4>2. queue[r][s] = Sent(r, s, 30)
        BY <1>1, <2>1, <2>2, <3>7 DEF SentOut, AtHead
      <4> QED BY <4>1, <4>2, SecondSent
    <3> QED BY <3>6, <3>7
  <2>6. Record("DEVICE_SYNC_BEGIN", "none", 2) \in OpenScopes(Report[r])
    <3> DEFINE ev == Report[r]
    <3> DEFINE n == Line(job[r], 29)
    <3>1. 29 \in 1..(30 - 1) /\ job[r][29].do = "record"
      BY <2>4 DEF Record, Step
    <3>2. n \in DOMAIN ev /\ ev[n] = job[r][29] /\ ev \in Seq(Steps)
      BY <2>1, <3>1 DEF Copied
    <3>3. ev[n].type = "DEVICE_SYNC_BEGIN" /\ ev[n].corr = 2
      BY <2>4, <3>2 DEF Record, Step
    <3>4. /\ "DEVICE_SYNC_BEGIN" \in DOMAIN Pairs
          /\ Pairs["DEVICE_SYNC_BEGIN"] = "DEVICE_SYNC_END"
      BY DEF Pairs
    <3>5. ASSUME NEW i \in n..Len(ev) PROVE ~Closes(ev[i], ev[n])
      <4> SUFFICES ASSUME Closes(ev[i], ev[n]) PROVE FALSE
        OBVIOUS
      <4>1. Is(ev[i], "DEVICE_SYNC_END", 2)
        BY <3>3, <3>4 DEF Closes, Is
      <4>2. i \in DOMAIN ev
        BY <3>2
      <4>3. PICK j \in 1..(30 - 1) : ev[i] = job[r][j]
        BY <2>1, <4>2 DEF Copied
      <4>4. j \in 1..Len(job[r]) /\ j # 31
        <5>1. Len(job[r]) = 32
          BY <2>3
        <5>2. j \in Nat /\ j >= 1 /\ j <= 29
          BY <4>3
        <5> QED BY <5>1, <5>2
      <4> QED BY <2>3, <4>1, <4>3, <4>4 DEF Shape
    <3>6. n \in {k \in DOMAIN ev : /\ ev[k].type \in DOMAIN Pairs
                                   /\ \A j \in k..Len(ev) : ~Closes(ev[j], ev[k])}
      BY <3>2, <3>3, <3>4, <3>5
    <3>7. ev[n] \in OpenScopes(ev)
      BY <3>6 DEF OpenScopes
    <3> QED BY <2>4, <3>2, <3>7
  <2> QED BY <2>1, <2>4, <2>5, <2>6
<1> QED BY <1>2, <1>3, <1>4 DEF VerdictIsRight

\* If the example passes, the missing rank has come to its gate or to the event
\* before it, every other rank has submitted the second collective and waits for
\* it, and the report shows that; it fails only if no snapshot of the job that
\* had stalled was published whole.
\* (run, 238-243 and 289-298.)
THEOREM VerdictRight == Spec => []VerdictIsRight
<1> QED BY InitVerdict, NextVerdict, VerdictHolds, PTL DEF Spec
=============================================================================
