------------------------- MODULE MsptiCaptureProofs -------------------------
(***************************************************************************)
(* Theorems about the msPTI Python capture for every size of the queue and *)
(* any number of activities, switches and failures: its types, the two     *)
(* monitors that agree, a clean summary that is true of the file, and the  *)
(* implementation of the abstract log.                                     *)
(*                                                                         *)
(* Only is computed along a sequence, so what it does to a sequence that   *)
(* grows at its end or loses its head is proved first, by induction over   *)
(* its length; the invariant CaptureInv follows the switches, the marks    *)
(* and the activities through the queue and the file.                      *)
(***************************************************************************)
EXTENDS MsptiCapture, SequenceTheorems, WellFoundedInduction, TLAPS

-----------------------------------------------------------------------------
(* Induction, in a form that takes a set: the numbers with a property.     *)

LEMMA Smaller ==
  /\ IsWellFoundedOn(OpToRel(<, Nat), Nat)
  /\ \A i, j \in Nat : <<i, j>> \in OpToRel(<, Nat) <=> i < j
<1>1. \A i, j \in Nat : <<i, j>> \in OpToRel(<, Nat) <=> i < j
  BY SMT DEF OpToRel
<1> QED BY <1>1, NatLessThanWellFounded

LEMMA Induction ==
  ASSUME NEW S, 0 \in S, \A n \in Nat : n \in S => n + 1 \in S
  PROVE  \A n \in Nat : n \in S
<1> DEFINE Less == OpToRel(<, Nat)
<1> DEFINE Rest == Nat \ S
<1>0. IsWellFoundedOn(Less, Nat)
  BY Smaller
<1>1. \A i, j \in Nat : <<i, j>> \in Less <=> i < j
  BY Smaller
<1> HIDE DEF Less
<1> SUFFICES ASSUME Rest # {} PROVE FALSE
  OBVIOUS
<1>2. PICK n \in Rest : \A m \in Rest : ~(<<m, n>> \in Less)
  <2>1. Rest \subseteq Nat
    OBVIOUS
  <2> HIDE DEF Rest
  <2> QED BY <1>0, <2>1, WFMin
<1>3. n # 0
  OBVIOUS
<1>4. n - 1 \in Nat /\ n - 1 + 1 = n /\ n - 1 < n
  BY <1>3, SMT
<1>5. n - 1 \in S
  BY <1>1, <1>2, <1>4
<1> QED BY <1>4, <1>5, <1>2

-----------------------------------------------------------------------------
(* What Only computes.                                                     *)

\* f is the function that Only defines for s, up to n.
Filters(f, s, rs, n) ==
    f = [i \in 0..n |-> IF i = 0 THEN << >>
                        ELSE IF s[i] \in rs THEN Append(f[i - 1], s[i]) ELSE f[i - 1]]

LEMMA FilterExists ==
  ASSUME NEW s, NEW rs
  PROVE  \A n \in Nat : \E f : Filters(f, s, rs, n)
<1> DEFINE S == {n \in Nat : \E f : Filters(f, s, rs, n)}
<1>1. 0 \in S
  <2> DEFINE f == [i \in 0..0 |-> << >>]
  <2>1. Filters(f, s, rs, 0)
    BY SMT DEF Filters
  <2> HIDE DEF f
  <2> QED BY <2>1
<1>2. ASSUME NEW n \in Nat, n \in S PROVE n + 1 \in S
  <2>1. PICK f : Filters(f, s, rs, n)
    BY <1>2
  <2> DEFINE g == [i \in 0..(n + 1) |->
                      IF i =< n THEN f[i]
                      ELSE IF s[i] \in rs THEN Append(f[i - 1], s[i]) ELSE f[i - 1]]
  <2>2. \A i \in 0..n : g[i] = f[i]
    BY SMT
  <2>3. \A i \in 0..n : f[i] = IF i = 0 THEN << >>
                               ELSE IF s[i] \in rs THEN Append(f[i - 1], s[i]) ELSE f[i - 1]
    BY <2>1 DEF Filters
  <2>4. ASSUME NEW i \in 0..(n + 1)
        PROVE  g[i] = IF i = 0 THEN << >>
                      ELSE IF s[i] \in rs THEN Append(g[i - 1], s[i]) ELSE g[i - 1]
    <3>1. CASE i = 0
      BY <3>1, <2>2, <2>3, SMT
    <3>2. CASE i \in 1..n
      <4>1. g[i] = f[i] /\ g[i - 1] = f[i - 1]
        BY <3>2, <2>2, SMT
      <4> HIDE DEF g
      <4> QED BY <4>1, <3>2, <2>3, SMT
    <3>3. CASE i = n + 1
      <4>1. g[i - 1] = f[i - 1]
        BY <3>3, <2>2, SMT
      <4>2. g[i] = IF s[i] \in rs THEN Append(f[i - 1], s[i]) ELSE f[i - 1]
        BY <3>3, SMT
      <4> HIDE DEF g
      <4> QED BY <4>1, <4>2, <3>3, SMT
    <3> QED BY <3>1, <3>2, <3>3, SMT
  <2>5. Filters(g, s, rs, n + 1)
    <3>1. g = [i \in 0..(n + 1) |-> g[i]]
      OBVIOUS
    <3> HIDE DEF g
    <3> QED BY <3>1, <2>4 DEF Filters
  <2> HIDE DEF g
  <2> QED BY <2>5, SMT
<1> HIDE DEF S
<1>3. \A n \in Nat : n \in S
  BY <1>1, <1>2, Induction
<1> QED BY <1>3 DEF S

LEMMA FilterUnique ==
  ASSUME NEW s, NEW t, NEW rs, NEW m \in Nat, NEW n \in Nat, m =< n,
         \A i \in 1..m : s[i] = t[i],
         NEW f, NEW g, Filters(f, s, rs, m), Filters(g, t, rs, n)
  PROVE  \A i \in 0..m : f[i] = g[i]
<1> DEFINE S == {i \in Nat : i =< m => f[i] = g[i]}
<1>1. /\ \A i \in 0..m : f[i] = IF i = 0 THEN << >>
                    ELSE IF s[i] \in rs THEN Append(f[i - 1], s[i]) ELSE f[i - 1]
      /\ \A i \in 0..n : g[i] = IF i = 0 THEN << >>
                    ELSE IF t[i] \in rs THEN Append(g[i - 1], t[i]) ELSE g[i - 1]
  BY DEF Filters
<1>2. 0 \in S
  BY <1>1, SMT
<1>3. ASSUME NEW i \in Nat, i \in S PROVE i + 1 \in S
  <2>1. SUFFICES ASSUME i + 1 =< m PROVE f[i + 1] = g[i + 1]
    OBVIOUS
  <2>2. i + 1 \in 1..m /\ i + 1 \in 0..m /\ i + 1 \in 0..n /\ i + 1 # 0 /\ i + 1 - 1 = i
    BY <2>1, SMT
  <2>3. f[i] = g[i]
    BY <1>3, <2>1, SMT
  <2> QED BY <1>1, <2>2, <2>3
<1> HIDE DEF S
<1>4. \A i \in Nat : i \in S
  BY <1>2, <1>3, Induction
<1> QED BY <1>4, SMT DEF S

LEMMA OnlyIs ==
  ASSUME NEW T, NEW s \in Seq(T), NEW rs, NEW f, Filters(f, s, rs, Len(s))
  PROVE  Only(s, rs) = f[Len(s)]
<1> DEFINE g == CHOOSE g : Filters(g, s, rs, Len(s))
<1>1. Len(s) \in Nat
  OBVIOUS
<1>2. Filters(g, s, rs, Len(s))
  OBVIOUS
<1>3. Only(s, rs) = g[Len(s)]
  BY Zenon DEF Only, Filters
<1> HIDE DEF g
<1>4. Len(s) \in 0..Len(s) /\ Len(s) =< Len(s)
  BY <1>1, SMT
<1>5. \A i \in 0..Len(s) : f[i] = g[i]
  BY <1>1, <1>2, <1>4, FilterUnique
<1> QED BY <1>3, <1>4, <1>5

\* Only is empty for the empty sequence, and grows with it.
LEMMA OnlyEmpty ==
  ASSUME NEW rs
  PROVE  Only(<< >>, rs) = << >>
<1>1. << >> \in Seq({}) /\ Len(<< >>) = 0
  OBVIOUS
<1>2. PICK f : Filters(f, << >>, rs, 0)
  BY FilterExists
<1>3. f[0] = << >>
  BY <1>2, SMT DEF Filters
<1> QED BY <1>1, <1>2, <1>3, OnlyIs

LEMMA OnlyAppend ==
  ASSUME NEW T, NEW s \in Seq(T), NEW r \in T, NEW rs
  PROVE  Only(Append(s, r), rs) = IF r \in rs THEN Append(Only(s, rs), r) ELSE Only(s, rs)
<1> DEFINE t == Append(s, r)
<1> DEFINE n == Len(s)
<1>1. /\ t \in Seq(T) /\ n \in Nat /\ Len(t) = n + 1 /\ t[n + 1] = r
      /\ \A i \in 1..n : s[i] = t[i]
  BY AppendProperties
<1>2. PICK f : Filters(f, s, rs, n)
  BY <1>1, FilterExists
<1>3. PICK g : Filters(g, t, rs, n + 1)
  <2>1. n + 1 \in Nat
    BY <1>1, SMT
  <2> QED BY <2>1, FilterExists
<1>4. Only(s, rs) = f[n] /\ Only(t, rs) = g[n + 1]
  BY <1>1, <1>2, <1>3, OnlyIs
<1> HIDE DEF t, n
<1>5. f[n] = g[n]
  <2>1. n + 1 \in Nat /\ n =< n + 1 /\ n \in 0..n
    BY <1>1, SMT
  <2> DEFINE k == n + 1
  <2>3. n \in Nat /\ k \in Nat /\ n =< k /\ (\A i \in 1..n : s[i] = t[i])
    BY <1>1, <2>1
  <2>4. Filters(f, s, rs, n) /\ Filters(g, t, rs, k)
    BY <1>2, <1>3
  <2> HIDE DEF k
  <2>2. \A i \in 0..n : f[i] = g[i]
    BY <2>3, <2>4, FilterUnique
  <2> QED BY <2>1, <2>2
<1>6. g[n + 1] = IF t[n + 1] \in rs THEN Append(g[n], t[n + 1]) ELSE g[n]
  <2>1. n + 1 \in 0..(n + 1) /\ n + 1 # 0 /\ n + 1 - 1 = n
    BY <1>1, SMT
  <2>2. \A i \in 0..(n + 1) : g[i] = IF i = 0 THEN << >>
                    ELSE IF t[i] \in rs THEN Append(g[i - 1], t[i]) ELSE g[i - 1]
    BY <1>3 DEF Filters
  <2> QED BY <1>1, <2>1, <2>2
<1>7. Only(t, rs) = IF r \in rs THEN Append(Only(s, rs), r) ELSE Only(s, rs)
  BY <1>1, <1>4, <1>5, <1>6
<1> QED BY <1>7 DEF t

\* A filtered sequence is a sequence of the records that are let through.
LEMMA OnlyType ==
  ASSUME NEW T, NEW s \in Seq(T), NEW rs
  PROVE  Only(s, rs) \in Seq(T \cap rs) /\ Len(Only(s, rs)) =< Len(s)
<1>1. Len(s) \in Nat
  OBVIOUS
<1>2. PICK f : Filters(f, s, rs, Len(s))
  BY <1>1, FilterExists
<1> DEFINE S == {i \in Nat : i =< Len(s) => f[i] \in Seq(T \cap rs) /\ Len(f[i]) =< i}
<1>3. \A i \in 0..Len(s) : f[i] = IF i = 0 THEN << >>
                    ELSE IF s[i] \in rs THEN Append(f[i - 1], s[i]) ELSE f[i - 1]
  BY <1>2 DEF Filters
<1>4. 0 \in S
  <2>1. f[0] = << >>
    BY <1>1, <1>3, SMT
  <2>2. f[0] \in Seq(T \cap rs) /\ Len(f[0]) =< 0
    BY <2>1, EmptySeq, SMT
  <2> QED BY <2>2
<1>5. ASSUME NEW i \in Nat, i \in S PROVE i + 1 \in S
  <2>1. SUFFICES ASSUME i + 1 =< Len(s)
                 PROVE  f[i + 1] \in Seq(T \cap rs) /\ Len(f[i + 1]) =< i + 1
    OBVIOUS
  <2>2. /\ f[i] \in Seq(T \cap rs) /\ Len(f[i]) =< i /\ s[i + 1] \in T
        /\ i + 1 \in 0..Len(s) /\ i + 1 # 0 /\ i + 1 - 1 = i
    BY <1>1, <1>5, <2>1, SMT
  <2>3. f[i + 1] = IF s[i + 1] \in rs THEN Append(f[i], s[i + 1]) ELSE f[i]
    BY <1>3, <2>2
  <2> QED BY <2>2, <2>3, SMT
<1> HIDE DEF S
<1>6. \A i \in Nat : i \in S
  BY <1>4, <1>5, Induction
<1>7. f[Len(s)] \in Seq(T \cap rs) /\ Len(f[Len(s)]) =< Len(s)
  BY <1>1, <1>6, SMT DEF S
<1> QED BY <1>2, <1>7, OnlyIs

\* Only can be taken from the front.
LEMMA OnlyTail ==
  ASSUME NEW T, NEW s \in Seq(T), s # << >>, NEW rs
  PROVE  Only(s, rs) = (IF Head(s) \in rs THEN <<Head(s)>> ELSE << >>) \o Only(Tail(s), rs)
<1> DEFINE t == Tail(s)
<1> DEFINE n == Len(t)
<1> DEFINE h == IF s[1] \in rs THEN <<s[1]>> ELSE << >>
<1>1. /\ t \in Seq(T) /\ n \in Nat /\ Len(s) = n + 1 /\ Head(s) = s[1] /\ s[1] \in T
      /\ \A i \in 1..n : t[i] = s[i + 1] /\ t[i] \in T
  BY HeadTailProperties, SMT
<1>2. h \in Seq(T)
  BY <1>1, SMT
<1> HIDE DEF t, n, h
<1>3. PICK f : Filters(f, s, rs, n + 1)
  <2>1. n + 1 \in Nat
    BY <1>1, SMT
  <2> QED BY <2>1, FilterExists
<1>4. PICK g : Filters(g, t, rs, n)
  BY <1>1, FilterExists
<1>5. /\ \A i \in 0..(n + 1) : f[i] = IF i = 0 THEN << >>
                    ELSE IF s[i] \in rs THEN Append(f[i - 1], s[i]) ELSE f[i - 1]
      /\ \A i \in 0..n : g[i] = IF i = 0 THEN << >>
                    ELSE IF t[i] \in rs THEN Append(g[i - 1], t[i]) ELSE g[i - 1]
  BY <1>3, <1>4 DEF Filters
<1> DEFINE S == {i \in Nat : i =< n => f[i + 1] = h \o g[i] /\ g[i] \in Seq(T)}
<1>6. 0 \in S
  <2>1. /\ 1 \in 0..(n + 1) /\ 0 \in 0..(n + 1) /\ 0 \in 0..n
        /\ 1 # 0 /\ 1 - 1 = 0 /\ 0 + 1 = 1
    BY <1>1, SMT
  <2>2. f[0] = << >> /\ g[0] = << >>
    BY <1>5, <2>1
  <2>3. f[1] = IF s[1] \in rs THEN Append(f[0], s[1]) ELSE f[0]
    BY <1>5, <2>1
  <2>4. Append(<< >>, s[1]) = <<s[1]>>
    BY <1>1, SMT
  <2>5. f[1] = h
    BY <2>2, <2>3, <2>4 DEF h
  <2>6. h \o << >> = h /\ << >> \in Seq(T)
    BY <1>2, EmptySeq, ConcatEmptySeq
  <2> QED BY <2>1, <2>2, <2>5, <2>6
<1>7. ASSUME NEW i \in Nat, i \in S PROVE i + 1 \in S
  <2>1. SUFFICES ASSUME i + 1 =< n
                 PROVE  f[i + 1 + 1] = h \o g[i + 1] /\ g[i + 1] \in Seq(T)
    OBVIOUS
  <2> DEFINE k == i + 1
  <2> DEFINE l == k + 1
  <2>2. /\ k \in 0..n /\ k \in 1..n /\ l \in 0..(n + 1)
        /\ k # 0 /\ l # 0 /\ k - 1 = i /\ l - 1 = k /\ i =< n
    BY <1>1, <2>1, SMT
  <2>3. f[k] = h \o g[i] /\ g[i] \in Seq(T)
    BY <1>7, <2>2
  <2>4. t[k] = s[l] /\ t[k] \in T
    BY <1>1, <2>2
  <2> HIDE DEF k, l
  <2>5. f[l] = IF s[l] \in rs THEN Append(f[k], s[l]) ELSE f[k]
    BY <1>5, <2>2
  <2>6. g[k] = IF t[k] \in rs THEN Append(g[i], t[k]) ELSE g[i]
    BY <1>5, <2>2
  <2>7. Append(h \o g[i], t[k]) = h \o Append(g[i], t[k])
    <3> DEFINE a == g[i]
    <3> DEFINE x == t[k]
    <3>1. a \in Seq(T) /\ x \in T /\ <<x>> \in Seq(T)
      BY <2>3, <2>4, SMT
    <3> HIDE DEF a, x
    <3>2. h \o a \in Seq(T)
      BY <1>2, <3>1, ConcatProperties
    <3>3. Append(h \o a, x) = (h \o a) \o <<x>> /\ Append(a, x) = a \o <<x>>
      BY <3>1, <3>2, AppendIsConcat
    <3>4. (h \o a) \o <<x>> = h \o (a \o <<x>>)
      BY <1>2, <3>1, ConcatAssociative
    <3> QED BY <3>3, <3>4 DEF a, x
  <2>8. g[k] \in Seq(T)
    BY <2>3, <2>4, <2>6, AppendProperties
  <2> QED BY <2>3, <2>4, <2>5, <2>6, <2>7, <2>8 DEF k, l
<1> HIDE DEF S
<1>8. \A i \in Nat : i \in S
  BY <1>6, <1>7, Induction
<1>9. f[n + 1] = h \o g[n]
  <2>1. n \in S /\ n =< n
    BY <1>1, <1>8, SMT
  <2> QED BY <2>1 DEF S
<1>10. Only(s, rs) = f[n + 1] /\ Only(t, rs) = g[n]
  <2>0. Len(t) = n /\ Len(s) = n + 1
    BY <1>1 DEF n
  <2>1. Filters(f, s, rs, Len(s)) /\ Filters(g, t, rs, Len(t))
    BY <2>0, <1>3, <1>4
  <2>2. Only(s, rs) = f[Len(s)] /\ Only(t, rs) = g[Len(t)]
    BY <1>1, <2>1, OnlyIs
  <2> QED BY <2>0, <2>2
<1> QED BY <1>1, <1>9, <1>10 DEF h, t
-----------------------------------------------------------------------------
(* The lifecycle of the monitors.                                          *)

\* What the flush thread is about to do, and what monitor_active says.
FlushInv ==
    /\ At("start kernel") \/ At("start comm") \/ At("roll back") =>
          ~active /\ flush.enabled
    /\ At("stop kernel") \/ At("stop comm") => active /\ ~flush.enabled
    /\ At("mark") => active = flush.enabled
    /\ flush.final => ~flush.enabled
    /\ flush.final => flush.pc \in {"stop kernel", "stop comm", "mark", "gone"}
    /\ At("absent") => ~active
    /\ At("gone") => ~active \/ stuck

\* The monitors that are on at pc, with monitor_active at on, unless one is stuck.
Fit(pc, on, ms) ==
    IF pc = "stop comm" THEN ms \subseteq {"comm"}
    ELSE ms = IF pc \in {"start comm", "roll back"} THEN {"kernel"}
              ELSE IF on THEN Monitors ELSE {}

MonitorInv ==
    /\ ~stuck => Fit(flush.pc, active, mon)
    /\ At("start comm") => "kernel" \in mon
    /\ \A m \in Monitors \ mon : buffered[m] = 0

\* What has gone wrong is in last_error.
ErrorInv ==
    /\ stuck \/ errors.callback > 0 \/ writer.pc = "dead" => errors.last
    /\ writer.held # << >> => writer.pc = "dead"

-----------------------------------------------------------------------------
(* What is in the file and in the queue.                                   *)

NoLoss == dropped = 0 /\ ~errors.last

Turn(i) == IF i % 2 = 1 THEN "on" ELSE "off"

\* A switch that is not marked yet is the only one not counted.
Odd == (active /\ ~At("mark")) \/ (~active /\ At("mark"))
Parity == transitions % 2 = IF Odd THEN 1 ELSE 0

\* The marks so far, in the file and behind it in the queue.
AllMarks == Only(file, Marks) \o Only(items, Marks)

MarksInOrder ==
    NoLoss => /\ Len(AllMarks) = transitions
              /\ \A i \in 1..Len(AllMarks) : AllMarks[i] = Turn(i)

\* Every activity is in the file, in the queue or with its monitor.
Counted ==
    NoLoss => completed = Len(Only(file, Monitors)) + Len(Only(items, Monitors))
                             + buffered["kernel"] + buffered["comm"]

\* The writer is told to end after the flush thread has, and ends with the queue empty.
EndInv ==
    /\ writerDone <=> main \in {"draining", "stopped"}
    /\ main = "new" => At("absent") /\ WriterAt("absent")
    /\ writerDone => At("gone")
    /\ writer.pc = "gone" => writerDone /\ (NoLoss => items = << >>)
    /\ summary.taken => main = "stopped"
    /\ summary.taken /\ summary.clean /\ summary.ended => NoLoss /\ writer.pc = "gone"

CaptureInv ==
    /\ TypeOK /\ FlushInv /\ MonitorInv /\ ErrorInv
    /\ Parity /\ MarksInOrder /\ Counted /\ EndInv

-----------------------------------------------------------------------------
(* Types.                                                                  *)

USE DEF control_, app, lifecycle, device, queue, disk, flushFrame, writerFrame, mainFrame

Queued == Records \cup {"tick"}

LEMMA EnqueueType ==
  ASSUME TypeOK, NEW r \in Queued, Enqueue(r)
  PROVE  items' \in Seq(Queued) /\ Len(items') =< QueueSize /\ dropped' \in Nat
<1>1. items \in Seq(Queued) /\ Len(items) =< QueueSize /\ dropped \in Nat /\ QueueSize \in Nat
  BY CaptureAssumption DEF TypeOK, Queued
<1>2. CASE Len(items) < QueueSize
  <2>1. items' = Append(items, r) /\ dropped' = dropped
    BY <1>2 DEF Enqueue
  <2>2. items' \in Seq(Queued) /\ Len(items') = Len(items) + 1 /\ Len(items) \in Nat
    BY <1>1, <2>1, AppendProperties, LenProperties
  <2> QED BY <1>1, <1>2, <2>1, <2>2, SMT
<1>3. CASE ~(Len(items) < QueueSize)
  BY <1>1, <1>3, SMT DEF Enqueue
<1> QED BY <1>2, <1>3

\* What the steps of each thread leave alone, typed once.
ControlType ==
    /\ control \in BOOLEAN /\ toggles \in 0..MaxToggles /\ faults \in 0..MaxFaults
    /\ main \in {"new", "started", "broken", "joining", "draining", "stopped"}
    /\ stopSet \in BOOLEAN /\ writerDone \in BOOLEAN
    /\ summary \in [taken : BOOLEAN, clean : BOOLEAN, ended : BOOLEAN]
    /\ errors \in [callback : Nat, last : BOOLEAN]

FlushType ==
    /\ flush \in [pc : FlushPcs, enabled : BOOLEAN, final : BOOLEAN]
    /\ active \in BOOLEAN /\ stuck \in BOOLEAN /\ mon \subseteq Monitors
    /\ transitions \in Nat /\ completed \in Nat /\ buffered \in [Monitors -> Nat]

QueueType == items \in Seq(Queued) /\ Len(items) =< QueueSize /\ dropped \in Nat

DiskType ==
    /\ writer \in [pc : {"absent", "open", "get", "check", "gone", "dead"},
                   held : Seq(Records)]
    /\ due \in BOOLEAN /\ file \in Seq(Records) /\ synced \in 0..Len(file)

LEMMA TypeParts == TypeOK <=> ControlType /\ FlushType /\ QueueType /\ DiskType
BY DEF TypeOK, ControlType, FlushType, QueueType, DiskType, Queued

LEMMA TypePartsNext == TypeOK' <=> ControlType' /\ FlushType' /\ QueueType' /\ DiskType'
BY DEF TypeOK, ControlType, FlushType, QueueType, DiskType, Queued

LEMMA FaultType ==
  ASSUME faults \in 0..MaxFaults, Fault
  PROVE  faults' \in 0..MaxFaults /\ faults' # faults
BY CaptureAssumption, SMT DEF Fault

LEMMA ErrorType ==
  ASSUME errors \in [callback : Nat, last : BOOLEAN], Error
  PROVE  /\ errors' \in [callback : Nat, last : BOOLEAN]
         /\ errors'.last = TRUE /\ errors'.callback = errors.callback
<1>1. errors' \in [callback : Nat, last : BOOLEAN]
  BY Zenon DEF Error
<1>2. errors'.last = TRUE /\ errors'.callback = errors.callback
  BY SMT DEF Error
<1> QED BY <1>1, <1>2

LEMMA GotoType ==
  ASSUME flush \in [pc : FlushPcs, enabled : BOOLEAN, final : BOOLEAN],
         NEW pc \in FlushPcs, Goto(pc)
  PROVE  /\ flush' \in [pc : FlushPcs, enabled : BOOLEAN, final : BOOLEAN]
         /\ flush'.pc = pc /\ flush'.enabled = flush.enabled /\ flush'.final = flush.final
BY SMT DEF Goto

LEMMA WriterGotoType ==
  ASSUME DiskType, NEW pc \in {"absent", "open", "get", "check", "gone", "dead"},
         WriterGoto(pc)
  PROVE  /\ writer' \in [pc : {"absent", "open", "get", "check", "gone", "dead"},
                         held : Seq(Records)]
         /\ writer'.pc = pc /\ writer'.held = writer.held
BY SMT DEF WriterGoto, DiskType

LEMMA InitType == Init => TypeOK
<1> SUFFICES ASSUME Init PROVE TypeOK
  OBVIOUS
<1>1. ControlType
  <2>1. errors \in [callback : Nat, last : BOOLEAN]
    BY SMT DEF Init
  <2>2. summary \in [taken : BOOLEAN, clean : BOOLEAN, ended : BOOLEAN]
    BY SMT DEF Init
  <2>3. toggles \in 0..MaxToggles /\ faults \in 0..MaxFaults
    BY CaptureAssumption, SMT DEF Init
  <2>4. stopSet \in BOOLEAN /\ writerDone \in BOOLEAN /\ control \in BOOLEAN
    BY Zenon DEF Init
  <2> QED BY <2>1, <2>2, <2>3, <2>4, Zenon DEF Init, ControlType
<1>4. FlushType
  <2>1. flush \in [pc : FlushPcs, enabled : BOOLEAN, final : BOOLEAN]
    BY SMT DEF Init, FlushPcs
  <2>2. buffered \in [Monitors -> Nat] /\ transitions \in Nat /\ completed \in Nat
    BY SMT DEF Init, Monitors
  <2>3. active \in BOOLEAN /\ stuck \in BOOLEAN /\ mon \subseteq Monitors
    BY Zenon DEF Init
  <2> QED BY <2>1, <2>2, <2>3 DEF FlushType
<1>2. << >> \in Seq(Queued) /\ << >> \in Seq(Records) /\ Len(<< >>) = 0
  BY EmptySeq
<1>3. QueueType
  BY <1>2, CaptureAssumption, SMT DEF Init, QueueType
<1>5. DiskType
  <2>1. writer \in [pc : {"absent", "open", "get", "check", "gone", "dead"},
                   held : Seq(Records)]
    BY <1>2, SMT DEF Init
  <2>2. file \in Seq(Records) /\ synced \in 0..Len(file)
    BY <1>2, SMT DEF Init
  <2>3. due \in BOOLEAN
    BY Zenon DEF Init
  <2> QED BY <2>1, <2>2, <2>3 DEF DiskType
<1> QED BY <1>1, <1>3, <1>4, <1>5, TypeParts
-----------------------------------------------------------------------------
(* The flush thread and its monitors.                                      *)

FlushRec == [pc : FlushPcs, enabled : BOOLEAN, final : BOOLEAN]

LEMMA GotoIs ==
  ASSUME FlushType, NEW pc, Goto(pc)
  PROVE  flush' = [pc |-> pc, enabled |-> flush.enabled, final |-> flush.final]
         /\ flush.enabled \in BOOLEAN /\ flush.final \in BOOLEAN
BY SMT DEF FlushType, Goto

LEMMA FlushIs ==
  ASSUME NEW pc \in FlushPcs, NEW e \in BOOLEAN, NEW f \in BOOLEAN,
         flush' = [pc |-> pc, enabled |-> e, final |-> f]
  PROVE  flush' \in FlushRec /\ flush'.pc = pc /\ flush'.enabled = e /\ flush'.final = f
<1>1. flush' \in FlushRec
  BY Zenon DEF FlushRec
<1> QED BY <1>1, Zenon

\* The flush thread's part of a step.
LEMMA Move ==
  ASSUME NEW pc \in FlushPcs \ {"absent"}, NEW e \in BOOLEAN, NEW f \in BOOLEAN,
         flush' = [pc |-> pc, enabled |-> e, final |-> f],
         FlushType, active' \in BOOLEAN, stuck' \in BOOLEAN, mon' \subseteq Monitors,
         transitions' \in Nat, UNCHANGED device,
         pc \in {"start kernel", "start comm", "roll back"} => ~active' /\ e,
         pc \in {"stop kernel", "stop comm"} => active' /\ ~e,
         pc = "mark" => active' = e,
         pc = "gone" => ~active' \/ stuck',
         f => ~e /\ pc \in {"stop kernel", "stop comm", "mark", "gone"},
         ~stuck' => Fit(pc, active', mon'), pc = "start comm" => "kernel" \in mon',
         \A m \in Monitors \ mon' : buffered[m] = 0
  PROVE  FlushType' /\ FlushInv' /\ MonitorInv'
<1>1. flush' \in FlushRec /\ flush'.pc = pc /\ flush'.enabled = e /\ flush'.final = f
  BY FlushIs, Zenon
<1>2. FlushType'
  BY <1>1, Zenon DEF FlushType, FlushRec
<1>3. FlushInv'
  <2>1. /\ flush'.pc \in {"start kernel", "start comm", "roll back"} =>
              ~active' /\ flush'.enabled
        /\ flush'.pc \in {"stop kernel", "stop comm"} => active' /\ ~flush'.enabled
        /\ flush'.pc = "mark" => active' = flush'.enabled
        /\ flush'.pc = "absent" => ~active'
        /\ flush'.pc = "gone" => ~active' \/ stuck'
    BY <1>1, Zenon
  <2>2. /\ flush'.final => ~flush'.enabled
        /\ flush'.final => flush'.pc \in {"stop kernel", "stop comm", "mark", "gone"}
    BY <1>1, Zenon
  <2> QED BY <2>1, <2>2, Zenon DEF FlushInv, At
<1>4. MonitorInv'
  BY <1>1, Zenon DEF MonitorInv, At
<1> QED BY <1>2, <1>3, <1>4

\* What the invariants say at each step.
LEMMA Here ==
  ASSUME FlushType, FlushInv, MonitorInv
  PROVE  /\ At("start kernel") =>
               ~active /\ flush.enabled /\ ~flush.final /\ (~stuck => mon = {})
         /\ At("start comm") \/ At("roll back") =>
               ~active /\ flush.enabled /\ ~flush.final /\ (~stuck => mon = {"kernel"})
         /\ At("start comm") => "kernel" \in mon
         /\ At("stop kernel") =>
               active /\ ~flush.enabled /\ (~stuck => mon = Monitors)
         /\ At("stop comm") =>
               active /\ ~flush.enabled /\ (~stuck => mon \subseteq {"comm"})
         /\ At("mark") => active = flush.enabled /\ (flush.final => ~active)
         /\ At("flush") \/ At("tick") \/ At("wait") \/ At("top") => ~flush.final
         /\ At("mark") \/ At("flush") \/ At("tick") \/ At("wait") \/ At("top") =>
               (~stuck => mon = IF active THEN Monitors ELSE {})
<1>1. At("start kernel") => ~active /\ flush.enabled /\ ~flush.final /\ (~stuck => mon = {})
  BY Zenon DEF FlushInv, MonitorInv, Fit, At
<1>2. At("start comm") \/ At("roll back") =>
         ~active /\ flush.enabled /\ ~flush.final /\ (~stuck => mon = {"kernel"})
  BY Zenon DEF FlushInv, MonitorInv, Fit, At
<1>3. At("stop kernel") => active /\ ~flush.enabled /\ (~stuck => mon = Monitors)
  BY Zenon DEF FlushInv, MonitorInv, Fit, At
<1>4. At("stop comm") => active /\ ~flush.enabled /\ (~stuck => mon \subseteq {"comm"})
  BY Zenon DEF FlushInv, MonitorInv, Fit, At
<1>5. At("mark") => active = flush.enabled /\ (flush.final => ~active)
  BY Zenon DEF FlushInv
<1>6. At("flush") \/ At("tick") \/ At("wait") \/ At("top") => ~flush.final
  BY Zenon DEF FlushInv, At
<1>7. At("mark") \/ At("flush") \/ At("tick") \/ At("wait") \/ At("top") =>
         (~stuck => mon = IF active THEN Monitors ELSE {})
  BY Zenon DEF MonitorInv, Fit, At
<1>8. At("start comm") => "kernel" \in mon
  BY Zenon DEF MonitorInv
<1> QED BY <1>1, <1>2, <1>3, <1>4, <1>5, <1>6, <1>7, <1>8

\* A monitor that is stopped has delivered all; one that is not stays as it is.
LEMMA StopMoves ==
  ASSUME FlushType, MonitorInv, NEW m \in Monitors, Stops(m) \/ StopFails,
         UNCHANGED device
  PROVE  /\ mon' \subseteq Monitors
         /\ \A k \in Monitors \ mon' : buffered[k] = 0
<1>1. CASE Stops(m)
  BY <1>1, Zenon DEF Stops, FlushType, MonitorInv
<1>2. CASE StopFails
  BY <1>2, Zenon DEF StopFails, FlushType, MonitorInv
<1> QED BY <1>1, <1>2

\* A step that goes on without a change of the monitors.
LEMMA Moves ==
  ASSUME FlushType, FlushInv, MonitorInv, NEW pc \in {"wait", "tick", "top"}, Goto(pc),
         At("top") \/ At("start kernel") \/ At("flush") \/ At("tick") \/ At("wait"),
         UNCHANGED <<active, mon, stuck, transitions, buffered, completed>>
  PROVE  FlushType' /\ FlushInv' /\ MonitorInv'
<1>1. ~flush.final /\ (~stuck => mon = IF active THEN Monitors ELSE {})
  BY Here, Zenon
<1>2. /\ pc \in FlushPcs \ {"absent"}
      /\ pc \notin {"start kernel", "start comm", "roll back", "stop kernel",
                    "stop comm", "mark", "gone"}
  BY Zenon DEF FlushPcs
<1>3. flush' = [pc |-> pc, enabled |-> flush.enabled, final |-> flush.final]
      /\ flush.enabled \in BOOLEAN /\ flush.final \in BOOLEAN
  BY GotoIs, Zenon
<1>4. /\ active' \in BOOLEAN /\ stuck' \in BOOLEAN /\ mon' \subseteq Monitors
      /\ transitions' \in Nat /\ UNCHANGED device
  BY Zenon DEF FlushType
<1>5. \A m \in Monitors \ mon' : buffered[m] = 0
  BY Zenon DEF MonitorInv
<1>6. ~stuck' => Fit(pc, active', mon')
  BY <1>1, <1>2, Zenon DEF Fit
<1> QED BY <1>1, <1>2, <1>3, <1>4, <1>5, <1>6, Move, Zenon

\* An exception before the monitors have changed.
LEMMA RaiseMoves ==
  ASSUME FlushType, FlushInv, MonitorInv, Raise,
         At("top") \/ At("start kernel") \/ At("flush"),
         UNCHANGED <<active, mon, stuck, transitions, buffered, completed>>
  PROVE  FlushType' /\ FlushInv' /\ MonitorInv'
<1>1. ~flush.final
  BY Here, Zenon
<1>2. Goto("wait")
  BY <1>1, Zenon DEF Raise
<1> QED BY <1>2, Moves, Zenon

\* An exception after which a monitor may be on and the other off.
LEMMA StuckMoves ==
  ASSUME FlushType, FlushInv, MonitorInv, Raise, stuck' = TRUE,
         At("start comm") \/ At("roll back") \/ At("stop kernel") \/ At("stop comm"),
         UNCHANGED <<active, mon, transitions, buffered, completed>>
  PROVE  FlushType' /\ FlushInv' /\ MonitorInv'
<1> DEFINE pc == IF flush.final THEN "gone" ELSE "wait"
<1>1. /\ pc \in FlushPcs \ {"absent"}
      /\ pc \notin {"start kernel", "start comm", "roll back", "stop kernel",
                    "stop comm", "mark"}
      /\ flush.final => pc = "gone"
  BY Zenon DEF FlushPcs
<1>2. flush' = [pc |-> pc, enabled |-> flush.enabled, final |-> flush.final]
      /\ flush.enabled \in BOOLEAN /\ flush.final \in BOOLEAN
  <2>1. Goto(pc)
    BY Zenon DEF Raise
  <2> HIDE DEF pc
  <2> QED BY <2>1, GotoIs, Zenon
<1>3. /\ active' \in BOOLEAN /\ stuck' \in BOOLEAN /\ mon' \subseteq Monitors
      /\ transitions' \in Nat /\ UNCHANGED device
  BY Zenon DEF FlushType
<1>4. \A m \in Monitors \ mon' : buffered[m] = 0
  BY Zenon DEF MonitorInv
<1>5. flush.final => ~flush.enabled
  BY Zenon DEF FlushInv
<1> HIDE DEF pc
<1> QED BY <1>1, <1>2, <1>3, <1>4, <1>5, Move, Zenon

LEMMA LookMoves ==
  ASSUME FlushType, FlushInv, MonitorInv, Look, ~Raise
  PROVE  FlushType' /\ FlushInv' /\ MonitorInv'
<1>1. PICK e \in BOOLEAN :
         flush' = [flush EXCEPT !.enabled = e,
                          !.pc = IF e = active THEN Settled(active)
                                 ELSE IF e THEN "start kernel" ELSE "stop kernel"]
  BY Zenon DEF Look
<1>2. At("top") /\ UNCHANGED <<active, mon, stuck, transitions, buffered, completed>>
  BY Zenon DEF Look
<1> DEFINE pc == IF e = active THEN Settled(active)
                 ELSE IF e THEN "start kernel" ELSE "stop kernel"
<1>3. flush' = [pc |-> pc, enabled |-> e, final |-> flush.final]
  <2>1. flush \in [pc : FlushPcs, enabled : BOOLEAN, final : BOOLEAN]
    BY DEF FlushType
  <2> HIDE DEF pc
  <2>2. flush' = [flush EXCEPT !.enabled = e, !.pc = pc]
    BY <1>1 DEF pc
  <2> QED BY <2>1, <2>2, Zenon
<1>4. flush.final = FALSE /\ (~stuck => mon = IF active THEN Monitors ELSE {})
  <2>1. flush.final \in BOOLEAN
    BY DEF FlushType
  <2> QED BY <1>2, <2>1, Here, Zenon
<1>5. /\ pc \in FlushPcs \ {"absent"}
      /\ pc \notin {"start comm", "roll back", "stop comm", "mark", "gone"}
      /\ pc = "start kernel" => ~active /\ e
      /\ pc = "stop kernel" => active /\ ~e
  <2>1. active \in BOOLEAN
    BY DEF FlushType
  <2>2. CASE e = active
    <3>1. pc = "flush" \/ pc = "tick"
      BY <2>2, Zenon DEF Settled
    <3> QED BY <3>1, Zenon DEF FlushPcs
  <2>3. CASE e # active /\ e
    <3>1. pc = "start kernel" /\ ~active
      BY <2>1, <2>3, Zenon
    <3> QED BY <2>3, <3>1, Zenon DEF FlushPcs
  <2>4. CASE e # active /\ ~e
    <3>1. pc = "stop kernel" /\ active
      BY <2>1, <2>4, Zenon
    <3> QED BY <2>4, <3>1, Zenon DEF FlushPcs
  <2> QED BY <2>2, <2>3, <2>4
<1> HIDE DEF pc
<1>6. ~stuck' => Fit(pc, active', mon')
  BY <1>2, <1>4, <1>5, Zenon DEF Fit
<1>7. \A m \in Monitors \ mon' : buffered[m] = 0
  BY <1>2, Zenon DEF MonitorInv
<1> QED BY <1>2, <1>3, <1>4, <1>5, <1>6, <1>7, Move, Zenon DEF FlushType

LEMMA StartKernelMoves ==
  ASSUME FlushType, FlushInv, MonitorInv, StartKernel
  PROVE  FlushType' /\ FlushInv' /\ MonitorInv'
<1>1. At("start kernel") /\ UNCHANGED <<active, stuck, transitions, buffered, completed>>
  BY Zenon DEF StartKernel
<1>2. CASE mon' = mon \cup {"kernel"} /\ Goto("start comm")
  <2>1. /\ ~active /\ flush.enabled /\ ~flush.final
        /\ ~stuck' => mon' = {"kernel"}
    BY <1>1, <1>2, Here, Zenon
  <2>2. flush' = [pc |-> "start comm", enabled |-> flush.enabled, final |-> flush.final]
        /\ flush.enabled \in BOOLEAN /\ flush.final \in BOOLEAN
    BY <1>2, GotoIs, Zenon
  <2>3. /\ active' \in BOOLEAN /\ stuck' \in BOOLEAN /\ mon' \subseteq Monitors
        /\ transitions' \in Nat /\ UNCHANGED device
    BY <1>1, <1>2, Zenon DEF FlushType, Monitors
  <2>4. \A m \in Monitors \ mon' : buffered[m] = 0
    BY <1>2, Zenon DEF MonitorInv
  <2>5. "start comm" \in FlushPcs \ {"absent"}
    BY Zenon DEF FlushPcs
  <2>6. "kernel" \in mon' /\ (~stuck' => Fit("start comm", active', mon'))
    BY <1>2, <2>1, Zenon DEF Fit
  <2> QED BY <1>1, <2>1, <2>2, <2>3, <2>4, <2>5, <2>6, Move, Zenon
<1>3. CASE Raise /\ UNCHANGED mon
  BY <1>1, <1>3, RaiseMoves, Zenon
<1> QED BY <1>2, <1>3, Zenon DEF StartKernel

LEMMA StartCommMoves ==
  ASSUME FlushType, FlushInv, MonitorInv, StartComm
  PROVE  FlushType' /\ FlushInv' /\ MonitorInv'
<1>1. At("start comm") /\ UNCHANGED <<transitions, buffered, completed>>
  BY Zenon DEF StartComm
<1>2. /\ ~active /\ flush.enabled /\ ~flush.final /\ (~stuck => mon = {"kernel"})
      /\ "kernel" \in mon
  BY <1>1, Here, Zenon
<1>3. CASE mon' = mon \cup {"comm"} /\ active' = TRUE /\ stuck' = FALSE /\ Goto("mark")
  <2>1. flush' = [pc |-> "mark", enabled |-> flush.enabled, final |-> flush.final]
        /\ flush.enabled \in BOOLEAN /\ flush.final \in BOOLEAN
    BY <1>3, GotoIs, Zenon
  <2>2. /\ active' \in BOOLEAN /\ stuck' \in BOOLEAN /\ mon' = Monitors
        /\ transitions' \in Nat /\ UNCHANGED device
    BY <1>1, <1>2, <1>3, Zenon DEF FlushType, Monitors
  <2>3. Fit("mark", active', mon')
    BY <1>3, <2>2, Zenon DEF Fit
  <2>4. \A m \in Monitors \ mon' : buffered[m] = 0
    BY <1>3, Zenon DEF MonitorInv
  <2>5. "mark" \in FlushPcs \ {"absent"}
    BY Zenon DEF FlushPcs
  <2> QED BY <1>2, <1>3, <2>1, <2>2, <2>3, <2>4, <2>5, Move, Zenon
<1>4. CASE Goto("roll back") /\ UNCHANGED <<mon, active, stuck>>
  <2>1. flush' = [pc |-> "roll back", enabled |-> flush.enabled, final |-> flush.final]
        /\ flush.enabled \in BOOLEAN /\ flush.final \in BOOLEAN
    BY <1>4, GotoIs, Zenon
  <2>2. /\ active' \in BOOLEAN /\ stuck' \in BOOLEAN /\ mon' \subseteq Monitors
        /\ transitions' \in Nat /\ UNCHANGED device
    BY <1>1, <1>4, Zenon DEF FlushType
  <2>3. ~stuck' => Fit("roll back", active', mon')
    BY <1>2, <1>4, Zenon DEF Fit
  <2>4. \A m \in Monitors \ mon' : buffered[m] = 0
    BY <1>4, Zenon DEF MonitorInv
  <2>5. "roll back" \in FlushPcs \ {"absent"}
    BY Zenon DEF FlushPcs
  <2> QED BY <1>1, <1>2, <1>4, <2>1, <2>2, <2>3, <2>4, <2>5, Move, Zenon
<1>5. CASE Raise /\ stuck' = TRUE /\ UNCHANGED <<mon, active>>
  BY <1>1, <1>5, StuckMoves, Zenon
<1> QED BY <1>3, <1>4, <1>5, Zenon DEF StartComm

LEMMA RollBackMoves ==
  ASSUME FlushType, FlushInv, MonitorInv, RollBack
  PROVE  FlushType' /\ FlushInv' /\ MonitorInv'
<1>1. /\ At("roll back") /\ Raise
      /\ UNCHANGED <<active, transitions, buffered, completed>>
  BY Zenon DEF RollBack
<1>2. CASE Stops("kernel") /\ UNCHANGED stuck
  <2>1. ~active /\ ~flush.final /\ (~stuck => mon = {"kernel"})
    BY <1>1, Here, Zenon
  <2>2. flush' = [pc |-> "wait", enabled |-> flush.enabled, final |-> flush.final]
        /\ flush.enabled \in BOOLEAN /\ flush.final \in BOOLEAN
    <3>1. Goto("wait")
      BY <1>1, <2>1, Zenon DEF Raise
    <3> QED BY <3>1, GotoIs, Zenon
  <2>3. mon' \subseteq Monitors /\ \A k \in Monitors \ mon' : buffered[k] = 0
    BY <1>1, <1>2, StopMoves, Zenon DEF Monitors
  <2>4. /\ active' \in BOOLEAN /\ stuck' \in BOOLEAN /\ transitions' \in Nat
        /\ UNCHANGED device
    BY <1>1, <1>2, Zenon DEF FlushType
  <2>5. ~stuck' => Fit("wait", active', mon')
    <3>1. mon' = mon \ {"kernel"} /\ stuck' = stuck
      BY <1>2, Zenon DEF Stops
    <3>2. ~stuck' => mon' = {}
      BY <2>1, <3>1, Zenon
    <3> QED BY <1>1, <2>1, <3>2, Zenon DEF Fit
  <2>6. "wait" \in FlushPcs \ {"absent"}
    BY Zenon DEF FlushPcs
  <2> QED BY <1>1, <2>1, <2>2, <2>3, <2>4, <2>5, <2>6, Move, Zenon
<1>3. CASE StopFails
  BY <1>1, <1>3, StuckMoves, Zenon DEF StopFails
<1> QED BY <1>2, <1>3, Zenon DEF RollBack

\* A monitor that is stopped, or that fails to stop and is noted.
LEMMA StopGoesOn ==
  ASSUME FlushType, FlushInv, MonitorInv, NEW m \in Monitors, Stops(m) \/ StopFails,
         NEW pc \in {"stop comm", "mark"}, Goto(pc),
         UNCHANGED <<transitions, buffered, completed>>,
         stuck' \in BOOLEAN, active' = (pc = "stop comm"), ~flush.enabled,
         ~stuck' => Fit(pc, active', mon')
  PROVE  FlushType' /\ FlushInv' /\ MonitorInv'
<1>1. flush' = [pc |-> pc, enabled |-> flush.enabled, final |-> flush.final]
      /\ flush.enabled \in BOOLEAN /\ flush.final \in BOOLEAN
  BY GotoIs, Zenon
<1>2. mon' \subseteq Monitors /\ \A k \in Monitors \ mon' : buffered[k] = 0
  BY StopMoves, Zenon
<1>3. active' \in BOOLEAN /\ transitions' \in Nat /\ UNCHANGED device
  BY Zenon DEF FlushType
<1>4. /\ pc \in FlushPcs \ {"absent"}
      /\ pc \notin {"start kernel", "start comm", "roll back", "stop kernel", "gone"}
      /\ pc = "stop comm" => active'
      /\ pc = "mark" => ~active'
  BY Zenon DEF FlushPcs
<1> QED BY <1>1, <1>2, <1>3, <1>4, Move, Zenon

LEMMA StopKernelMoves ==
  ASSUME FlushType, FlushInv, MonitorInv, StopKernel
  PROVE  FlushType' /\ FlushInv' /\ MonitorInv'
<1>1. At("stop kernel") /\ UNCHANGED <<active, transitions, buffered, completed>>
  BY Zenon DEF StopKernel
<1>2. active = TRUE /\ ~flush.enabled
  BY <1>1, Here, Zenon DEF FlushType
<1>3. CASE Stops("kernel") /\ stuck' = FALSE /\ Goto("stop comm")
  <2>1. mon' \subseteq {"comm"}
    <3>1. mon' = mon \ {"kernel"} /\ mon \subseteq Monitors
      BY <1>3, Zenon DEF Stops, FlushType
    <3> QED BY <3>1, Zenon DEF Monitors
  <2>2. Fit("stop comm", active', mon')
    BY <2>1, Zenon DEF Fit
  <2> QED BY <1>1, <1>2, <1>3, <2>2, StopGoesOn, Zenon DEF Monitors
<1>4. CASE StopFails /\ Goto("stop comm")
  BY <1>1, <1>2, <1>4, StopGoesOn, Zenon DEF Monitors, StopFails
<1>5. CASE StopFails /\ Raise
  BY <1>1, <1>5, StuckMoves, Zenon DEF StopFails
<1> QED BY <1>3, <1>4, <1>5, Zenon DEF StopKernel

LEMMA StopCommMoves ==
  ASSUME FlushType, FlushInv, MonitorInv, StopComm
  PROVE  FlushType' /\ FlushInv' /\ MonitorInv'
<1>1. At("stop comm") /\ UNCHANGED <<transitions, buffered, completed>>
  BY Zenon DEF StopComm
<1>2. ~flush.enabled /\ (~stuck => mon \subseteq {"comm"})
  BY <1>1, Here, Zenon
<1>3. CASE Stops("comm") /\ UNCHANGED stuck /\ active' = FALSE /\ Goto("mark")
  <2>1. ~stuck' => mon' = {}
    <3>1. mon' = mon \ {"comm"} /\ stuck' = stuck
      BY <1>3, Zenon DEF Stops
    <3> QED BY <1>2, <3>1, Zenon
  <2>2. ~stuck' => Fit("mark", active', mon')
    BY <1>3, <2>1, Zenon DEF Fit
  <2>3. stuck' \in BOOLEAN
    BY <1>3, Zenon DEF FlushType
  <2> QED BY <1>1, <1>2, <1>3, <2>2, <2>3, StopGoesOn, Zenon DEF Monitors
<1>4. CASE StopFails /\ active' = FALSE /\ Goto("mark")
  BY <1>1, <1>2, <1>4, StopGoesOn, Zenon DEF Monitors, StopFails
<1>5. CASE StopFails /\ Raise /\ UNCHANGED active
  BY <1>1, <1>5, StuckMoves, Zenon DEF StopFails
<1> QED BY <1>3, <1>4, <1>5, Zenon DEF StopComm

LEMMA MarkMoves ==
  ASSUME FlushType, FlushInv, MonitorInv, Mark
  PROVE  FlushType' /\ FlushInv' /\ MonitorInv'
<1> DEFINE pc == IF flush.final THEN "gone" ELSE Settled(active)
<1>1. /\ At("mark") /\ Goto(pc) /\ transitions' = transitions + 1
      /\ UNCHANGED <<active, mon, stuck, buffered, completed>>
  BY Zenon DEF Mark
<1>2. /\ active = flush.enabled /\ (flush.final => ~active)
      /\ ~stuck => mon = IF active THEN Monitors ELSE {}
  BY <1>1, Here, Zenon
<1>3. flush' = [pc |-> pc, enabled |-> flush.enabled, final |-> flush.final]
      /\ flush.enabled \in BOOLEAN /\ flush.final \in BOOLEAN
  <2> HIDE DEF pc
  <2> QED BY <1>1, GotoIs, Zenon
<1>4. /\ pc \in FlushPcs \ {"absent"}
      /\ pc \notin {"start kernel", "start comm", "roll back", "stop kernel",
                    "stop comm", "mark"}
      /\ pc = "gone" <=> flush.final
  <2>1. CASE flush.final
    BY <2>1, Zenon DEF FlushPcs
  <2>2. CASE ~flush.final
    <3>1. pc = "flush" \/ pc = "tick"
      BY <2>2, Zenon DEF Settled
    <3> QED BY <2>2, <3>1, Zenon DEF FlushPcs
  <2> QED BY <2>1, <2>2
<1>5. transitions' \in Nat
  <2>1. transitions \in Nat /\ transitions' = transitions + 1
    BY <1>1 DEF FlushType
  <2> QED BY <2>1, SMT
<1>6. /\ active' \in BOOLEAN /\ stuck' \in BOOLEAN /\ mon' \subseteq Monitors
      /\ UNCHANGED device
  BY <1>1, Zenon DEF FlushType
<1>7. \A m \in Monitors \ mon' : buffered[m] = 0
  BY <1>1, Zenon DEF MonitorInv
<1> HIDE DEF pc
<1>8. ~stuck' => Fit(pc, active', mon')
  BY <1>1, <1>2, <1>4, Zenon DEF Fit
<1> QED BY <1>1, <1>2, <1>3, <1>4, <1>5, <1>6, <1>7, <1>8, Move, Zenon

LEMMA LeaveLoopMoves ==
  ASSUME FlushType, FlushInv, MonitorInv, LeaveLoop
  PROVE  FlushType' /\ FlushInv' /\ MonitorInv'
<1> DEFINE pc == IF active THEN "stop kernel" ELSE "gone"
<1>1. /\ At("top") /\ flush' = [pc |-> pc, enabled |-> FALSE, final |-> TRUE]
      /\ UNCHANGED <<active, mon, stuck, transitions, buffered, completed>>
  <2>1. flush' = [enabled |-> FALSE, final |-> TRUE, pc |-> pc]
    BY Zenon DEF LeaveLoop
  <2> HIDE DEF pc
  <2>2. flush' = [pc |-> pc, enabled |-> FALSE, final |-> TRUE]
    BY <2>1, Zenon
  <2> QED BY <2>2, Zenon DEF LeaveLoop
<1>2. ~stuck => mon = IF active THEN Monitors ELSE {}
  BY <1>1, Here, Zenon
<1>3. /\ pc \in FlushPcs \ {"absent"} /\ pc \in {"stop kernel", "gone"}
      /\ pc = "stop kernel" => active
      /\ pc = "gone" => ~active
  <2>1. active \in BOOLEAN
    BY DEF FlushType
  <2> QED BY <2>1, Zenon DEF FlushPcs
<1>4. pc \notin {"start kernel", "start comm", "roll back", "stop comm", "mark"}
  BY <1>3, Zenon
<1>5. /\ active' \in BOOLEAN /\ stuck' \in BOOLEAN /\ mon' \subseteq Monitors
      /\ transitions' \in Nat /\ UNCHANGED device
  BY <1>1, Zenon DEF FlushType
<1>6. \A m \in Monitors \ mon' : buffered[m] = 0
  BY <1>1, Zenon DEF MonitorInv
<1>7. ~stuck' => Fit(pc, active', mon')
  BY <1>1, <1>2, <1>4, Zenon DEF Fit
<1> HIDE DEF pc
<1> QED BY <1>1, <1>3, <1>4, <1>5, <1>6, <1>7, Move, Zenon

LEMMA FlushMoves ==
  ASSUME FlushType, FlushInv, MonitorInv, FlushStep \/ FlushAll
  PROVE  FlushType' /\ FlushInv' /\ MonitorInv'
<1>1. CASE FlushAll
  <2>1. At("flush") /\ UNCHANGED <<active, mon, stuck, transitions, buffered, completed>>
    BY <1>1, Zenon DEF FlushAll
  <2>2. Goto("tick") \/ Raise
    BY <1>1, Zenon DEF FlushAll
  <2> QED BY <2>1, <2>2, Moves, RaiseMoves, Zenon
<1>4. CASE Look /\ Raise
  <2>1. At("top") /\ UNCHANGED <<active, mon, stuck, transitions, buffered, completed>>
    BY <1>4, Zenon DEF Look
  <2> QED BY <1>4, <2>1, RaiseMoves, Zenon
<1>2. CASE Tick
  BY <1>2, Moves, Zenon DEF Tick
<1>3. CASE Wait
  BY <1>3, Moves, Zenon DEF Wait
<1> QED BY <1>1, <1>2, <1>3, <1>4, LookMoves, LeaveLoopMoves, StartKernelMoves, StartCommMoves,
           RollBackMoves, StopKernelMoves, StopCommMoves, MarkMoves, Zenon DEF FlushStep

LEMMA StartMoves ==
  ASSUME FlushType, FlushInv, MonitorInv, At("absent"), Goto("top"),
         UNCHANGED <<active, mon, stuck, transitions, buffered, completed>>
  PROVE  FlushType' /\ FlushInv' /\ MonitorInv'
<1>1. flush' = [pc |-> "top", enabled |-> flush.enabled, final |-> flush.final]
      /\ flush.enabled \in BOOLEAN /\ flush.final \in BOOLEAN
  BY GotoIs, Zenon
<1>2. ~flush.final /\ (~stuck => mon = IF active THEN Monitors ELSE {})
  BY Zenon DEF FlushInv, MonitorInv, Fit, At
<1>3. /\ active' \in BOOLEAN /\ stuck' \in BOOLEAN /\ mon' \subseteq Monitors
      /\ transitions' \in Nat /\ UNCHANGED device
  BY Zenon DEF FlushType
<1>4. \A m \in Monitors \ mon' : buffered[m] = 0
  BY Zenon DEF MonitorInv
<1>5. "top" \in FlushPcs \ {"absent"} /\ (~stuck' => Fit("top", active', mon'))
  BY <1>2, Zenon DEF FlushPcs, Fit
<1> QED BY <1>1, <1>2, <1>3, <1>4, <1>5, Move, Zenon

LEMMA DeviceMoves ==
  ASSUME FlushType, FlushInv, MonitorInv, NEW m \in Monitors, Complete(m) \/ Deliver(m)
  PROVE  FlushType' /\ FlushInv' /\ MonitorInv'
<1>1. UNCHANGED lifecycle
  BY Zenon DEF Complete, Deliver
<1>2. /\ buffered' \in [Monitors -> Nat] /\ completed' \in Nat
      /\ \A k \in Monitors \ mon : buffered'[k] = 0
  <2>1. buffered \in [Monitors -> Nat] /\ completed \in Nat
    BY DEF FlushType
  <2>2. \A k \in Monitors \ mon : buffered[k] = 0
    BY DEF MonitorInv
  <2>3. CASE Complete(m)
    BY <2>1, <2>2, <2>3, SMT DEF Complete
  <2>4. CASE Deliver(m)
    <3>1. buffered[m] > 0 /\ buffered' = [buffered EXCEPT ![m] = @ - 1] /\ completed' = completed
      BY <2>4, Zenon DEF Deliver
    <3> QED BY <2>1, <2>2, <3>1, SMT
  <2> QED BY <2>3, <2>4
<1> QED BY <1>1, <1>2, Zenon DEF FlushType, FlushInv, MonitorInv, At

\* What a step of the flush thread does to the rest of the state.
LEMMA FlushEffects ==
  ASSUME TypeOK, ErrorInv, FlushStep \/ FlushAll
  PROVE  /\ UNCHANGED flushFrame
         /\ faults' = faults \/ Fault
         /\ errors' = errors \/ Error
         /\ UNCHANGED queue \/ Mark \/ Tick
         /\ stuck' => stuck \/ Error
<1>1. CASE Look
  BY <1>1, Zenon DEF Look, EnabledByFile, Raise
<1>2. CASE LeaveLoop
  BY <1>2, Zenon DEF LeaveLoop
<1>3. CASE StartKernel
  BY <1>3, Zenon DEF StartKernel, Raise
<1>4. CASE StartComm
  <2>1. UNCHANGED flushFrame /\ UNCHANGED queue
    BY <1>4, Zenon DEF StartComm
  <2>2. CASE stuck' = FALSE /\ UNCHANGED <<errors, faults>>
    <3>1. ~stuck'
      BY <2>2
    <3> QED BY <2>1, <2>2, <3>1, Zenon
  <2>3. CASE Fault /\ UNCHANGED <<stuck, errors>>
    BY <2>1, <2>3, Zenon
  <2>4. CASE Fault /\ Raise
    BY <2>1, <2>4, Zenon DEF Raise
  <2> QED BY <1>4, <2>2, <2>3, <2>4, Zenon DEF StartComm
<1>5. CASE RollBack
  BY <1>5, Zenon DEF RollBack, Stops, StopFails, Raise
<1>6. ASSUME StopFails PROVE Fault
  BY <1>6, Zenon DEF StopFails
<1>7. CASE StopKernel
  <2>1. UNCHANGED flushFrame /\ UNCHANGED queue
    BY <1>7, Zenon DEF StopKernel
  <2>2. CASE Stops("kernel") /\ stuck' = FALSE /\ UNCHANGED errors
    <3>1. ~stuck' /\ faults' = faults /\ errors' = errors
      BY <2>2 DEF Stops
    <3> QED BY <2>1, <3>1, Zenon
  <2>3. CASE StopFails /\ (Error \/ Raise)
    BY <1>6, <2>1, <2>3, Zenon DEF Raise
  <2> QED BY <1>7, <2>2, <2>3, Zenon DEF StopKernel
<1>8. CASE StopComm
  <2>1. UNCHANGED flushFrame /\ UNCHANGED queue
    BY <1>8, Zenon DEF StopComm
  <2>2. CASE Stops("comm") /\ UNCHANGED <<stuck, errors>>
    <3>1. stuck' = stuck /\ faults' = faults /\ errors' = errors
      BY <2>2, Zenon DEF Stops
    <3> QED BY <2>1, <3>1, Zenon
  <2>3. CASE StopFails /\ (Error \/ Raise)
    BY <1>6, <2>1, <2>3, Zenon DEF Raise
  <2> QED BY <1>8, <2>2, <2>3, Zenon DEF StopComm
<1>9. CASE Mark
  BY <1>9, Zenon DEF Mark
<1>10. CASE FlushAll
  BY <1>10, Zenon DEF FlushAll, Raise
<1>11. CASE Tick
  BY <1>11, Zenon DEF Tick
<1>12. CASE Wait
  BY <1>12, Zenon DEF Wait
<1> QED BY <1>1, <1>2, <1>3, <1>4, <1>5, <1>7, <1>8, <1>9, <1>10, <1>11, <1>12, Zenon
        DEF FlushStep

-----------------------------------------------------------------------------
(* The other variables: their types, and what has gone wrong.              *)

LEMMA ControlSame ==
  ASSUME ControlType, faults' = faults \/ Fault, errors' = errors \/ Error,
         UNCHANGED <<control_, app>>
  PROVE  ControlType'
<1>1. faults' \in 0..MaxFaults
  BY FaultType, Zenon DEF ControlType
<1>2. errors' \in [callback : Nat, last : BOOLEAN]
  BY ErrorType, Zenon DEF ControlType
<1> QED BY <1>1, <1>2, Zenon DEF ControlType

LEMMA ErrorStays ==
  ASSUME ControlType, errors' = errors \/ Error
  PROVE  /\ errors'.last = TRUE \/ errors'.last = errors.last
         /\ errors'.callback = errors.callback
         /\ Error => errors'.last = TRUE
BY ErrorType, Zenon DEF ControlType

LEMMA QueueNext ==
  ASSUME TypeOK, NEW r \in Queued, Enqueue(r)
  PROVE  QueueType'
BY EnqueueType, Zenon DEF QueueType

LEMMA FlushRest ==
  ASSUME TypeOK, ErrorInv, FlushStep \/ FlushAll
  PROVE  ControlType' /\ QueueType' /\ DiskType' /\ ErrorInv'
<1>1. ControlType /\ QueueType /\ DiskType
  BY TypeParts
<1>2. /\ UNCHANGED flushFrame
      /\ faults' = faults \/ Fault
      /\ errors' = errors \/ Error
      /\ UNCHANGED queue \/ Mark \/ Tick
      /\ stuck' => stuck \/ Error
  BY FlushEffects
<1>3. ControlType'
  BY <1>1, <1>2, ControlSame, Zenon
<1>4. DiskType'
  BY <1>1, <1>2, Zenon DEF DiskType
<1>5. QueueType'
  <2>1. CASE UNCHANGED queue
    BY <1>1, <2>1, Zenon DEF QueueType
  <2>2. CASE Mark
    <3>1. PICK r \in Queued : Enqueue(r)
      BY <2>2, Zenon DEF Mark, Queued, Records, Marks
    <3> QED BY <3>1, QueueNext
  <2>3. CASE Tick
    <3>1. "tick" \in Queued
      BY Zenon DEF Queued
    <3> QED BY <2>3, <3>1, QueueNext, Zenon DEF Tick
  <2> QED BY <1>2, <2>1, <2>2, <2>3
<1>6. ErrorInv'
  <2>1. UNCHANGED writer
    BY <1>2, Zenon
  <2>2. /\ errors'.last = TRUE \/ errors'.last = errors.last
        /\ errors'.callback = errors.callback
        /\ Error => errors'.last = TRUE
    BY <1>1, <1>2, ErrorStays
  <2> QED BY <1>2, <2>1, <2>2, Zenon DEF ErrorInv
<1> QED BY <1>3, <1>4, <1>5, <1>6

WriterRec == [pc : {"absent", "open", "get", "check", "gone", "dead"}, held : Seq(Records)]

LEMMA StoredType ==
  ASSUME NEW r \in Queued
  PROVE  Stored(r) \in Seq(Records)
<1>1. CASE r = "tick"
  BY <1>1, EmptySeq DEF Stored
<1>2. CASE r # "tick"
  <2>1. r \in Records
    BY <1>2, Zenon DEF Queued
  <2> QED BY <1>2, <2>1, SMT DEF Stored
<1> QED BY <1>1, <1>2

\* The writer goes on, or dies with what it holds.
LEMMA WriterGoes ==
  ASSUME DiskType, ErrorInv, ControlType, ~WriterAt("dead"),
         NEW pc \in {"get", "check", "open", "gone"}, WriterGoto(pc), UNCHANGED <<errors, stuck>>
  PROVE  writer' \in WriterRec /\ writer'.pc = pc /\ writer'.held = << >> /\ ErrorInv'
<1>1. /\ writer' \in WriterRec /\ writer'.pc = pc /\ writer'.held = writer.held
  BY WriterGotoType, Zenon DEF WriterRec
<1>2. writer.held = << >>
  BY Zenon DEF ErrorInv, WriterAt
<1>3. pc # "dead"
  BY Zenon
<1> QED BY <1>1, <1>2, <1>3, Zenon DEF ErrorInv

LEMMA WriterDies ==
  ASSUME DiskType, ErrorInv, ControlType, NEW held \in Seq(Records), Die(held), UNCHANGED stuck
  PROVE  /\ writer' \in WriterRec /\ writer'.pc = "dead" /\ writer'.held = held
         /\ ErrorInv' /\ Fault /\ Error
<1>1. writer' = [pc |-> "dead", held |-> held] /\ Error /\ Fault
  BY Zenon DEF Die
<1>2. writer' \in WriterRec
  BY <1>1, Zenon DEF WriterRec
<1>3. errors'.last = TRUE
  BY <1>1, ErrorStays, Zenon
<1> QED BY <1>1, <1>2, <1>3, Zenon DEF ErrorInv

\* The writer takes what is first in the queue, if anything is.
LEMMA Takes ==
  ASSUME TypeOK, items # << >>, items' = Tail(items)
  PROVE  /\ items' \in Seq(Queued) /\ Len(items') =< QueueSize
         /\ Head(items) \in Queued /\ Stored(Head(items)) \in Seq(Records)
<1>1. items \in Seq(Queued) /\ Len(items) =< QueueSize /\ QueueSize \in Nat
  BY CaptureAssumption DEF TypeOK, Queued
<1>2. /\ Head(items) \in Queued /\ Tail(items) \in Seq(Queued)
      /\ Len(Tail(items)) = Len(items) - 1 /\ Len(items) \in Nat
  BY <1>1, HeadTailProperties, LenProperties
<1>3. Stored(Head(items)) \in Seq(Records)
  BY <1>2, StoredType
<1> QED BY <1>1, <1>2, <1>3, SMT

LEMMA Writes ==
  ASSUME DiskType, NEW t \in Seq(Records), file' = file \o t, UNCHANGED <<synced, due>>
  PROVE  file' \in Seq(Records) /\ synced' \in 0..Len(file') /\ due' \in BOOLEAN
<1>1. file \in Seq(Records) /\ synced \in 0..Len(file) /\ due \in BOOLEAN
  BY DEF DiskType
<1>2. file' \in Seq(Records) /\ Len(file') = Len(file) + Len(t)
  BY <1>1, ConcatProperties
<1>3. Len(t) \in Nat /\ Len(file) \in Nat
  BY <1>1, LenProperties
<1>4. synced' \in 0..Len(file')
  BY <1>1, <1>2, <1>3, SMT
<1> QED BY <1>1, <1>2, <1>4

LEMMA GetRest ==
  ASSUME TypeOK, ErrorInv, Get
  PROVE  ControlType' /\ QueueType' /\ DiskType' /\ ErrorInv'
<1>1. ControlType /\ QueueType /\ DiskType
  BY TypeParts
<1>2. WriterAt("get") /\ UNCHANGED <<writerFrame, due, synced>>
  BY Zenon DEF Get
<1>3. ~WriterAt("dead")
  BY <1>2, Zenon DEF WriterAt
<1>4. CASE items = << >>
  <2>1. /\ WriterGoto(IF writerDone THEN "gone" ELSE "check")
        /\ UNCHANGED <<items, file, errors, faults>>
    BY <1>4, Zenon DEF Get
  <2>2. (IF writerDone THEN "gone" ELSE "check") \in {"get", "check", "open", "gone"}
    BY Zenon
  <2>3. writer' \in WriterRec /\ ErrorInv'
    BY <1>1, <1>2, <1>3, <2>1, <2>2, WriterGoes, Zenon
  <2>4. DiskType' /\ QueueType'
    BY <1>1, <1>2, <2>1, <2>3, Zenon DEF DiskType, QueueType, WriterRec
  <2>5. ControlType'
    BY <1>1, <1>2, <2>1, ControlSame, Zenon
  <2> QED BY <2>3, <2>4, <2>5
<1>5. CASE items # << >>
  <2>1. /\ items' = Tail(items)
        /\ \/ /\ file' = file \o Stored(Head(items))
              /\ WriterGoto("check") /\ UNCHANGED <<errors, faults>>
           \/ Die(Stored(Head(items))) /\ UNCHANGED file
    BY <1>5, Zenon DEF Get
  <2>2. QueueType' /\ Stored(Head(items)) \in Seq(Records)
    BY <1>1, <1>2, <1>5, <2>1, Takes, Zenon DEF QueueType
  <2>3. CASE file' = file \o Stored(Head(items)) /\ WriterGoto("check") /\ UNCHANGED <<errors, faults>>
    <3>1. writer' \in WriterRec /\ ErrorInv'
      BY <1>1, <1>2, <1>3, <2>3, WriterGoes, Zenon
    <3>2. file' \in Seq(Records) /\ synced' \in 0..Len(file') /\ due' \in BOOLEAN
      BY <1>1, <1>2, <2>2, <2>3, Writes, Zenon
    <3>3. ControlType'
      BY <1>1, <1>2, <2>3, ControlSame, Zenon
    <3> QED BY <2>2, <3>1, <3>2, <3>3, Zenon DEF DiskType, WriterRec
  <2>4. CASE Die(Stored(Head(items))) /\ UNCHANGED file
    <3>1. writer' \in WriterRec /\ ErrorInv' /\ Fault /\ Error
      BY <1>1, <1>2, <2>2, <2>4, WriterDies, Zenon
    <3>2. ControlType'
      BY <1>1, <1>2, <3>1, ControlSame, Zenon
    <3>3. DiskType'
      BY <1>1, <1>2, <2>4, <3>1, Zenon DEF DiskType, WriterRec
    <3> QED BY <2>2, <3>1, <3>2, <3>3
  <2> QED BY <2>1, <2>3, <2>4
<1> QED BY <1>4, <1>5

LEMMA OpenRest ==
  ASSUME TypeOK, ErrorInv, Open
  PROVE  ControlType' /\ QueueType' /\ DiskType' /\ ErrorInv'
<1>1. ControlType /\ QueueType /\ DiskType
  BY TypeParts
<1>2. WriterAt("open") /\ UNCHANGED <<writerFrame, items, due, file, synced>>
  BY Zenon DEF Open
<1>3. CASE WriterGoto("get") /\ UNCHANGED <<errors, faults>>
  <2>1. writer' \in WriterRec /\ ErrorInv'
    BY <1>1, <1>2, <1>3, WriterGoes, Zenon DEF WriterAt
  <2>2. ControlType'
    BY <1>1, <1>2, <1>3, ControlSame, Zenon
  <2> QED BY <1>1, <1>2, <2>1, <2>2, Zenon DEF DiskType, QueueType, WriterRec
<1>4. CASE Die(<< >>)
  <2>1. writer' \in WriterRec /\ ErrorInv' /\ Fault /\ Error
    BY <1>1, <1>2, <1>4, EmptySeq, WriterDies, Zenon
  <2>2. ControlType'
    BY <1>1, <1>2, <2>1, ControlSame, Zenon
  <2> QED BY <1>1, <1>2, <2>1, <2>2, Zenon DEF DiskType, QueueType, WriterRec
<1> QED BY <1>3, <1>4, Zenon DEF Open

LEMMA SyncRest ==
  ASSUME TypeOK, ErrorInv, Sync
  PROVE  ControlType' /\ QueueType' /\ DiskType' /\ ErrorInv'
<1>1. ControlType /\ QueueType /\ DiskType
  BY TypeParts
<1>2. WriterAt("check") /\ UNCHANGED <<writerFrame, items, file>>
  BY Zenon DEF Sync
<1>3. Len(file) \in 0..Len(file)
  <2>1. Len(file) \in Nat
    BY <1>1, LenProperties DEF DiskType
  <2> QED BY <2>1, SMT
<1>4. CASE /\ WriterGoto("get") /\ UNCHANGED <<errors, faults>>
           /\ \/ synced' = Len(file) /\ due' = FALSE
              \/ UNCHANGED <<synced, due>>
  <2>1. writer' \in WriterRec /\ ErrorInv'
    BY <1>1, <1>2, <1>4, WriterGoes, Zenon DEF WriterAt
  <2>2. ControlType'
    BY <1>1, <1>2, <1>4, ControlSame, Zenon
  <2>3. synced' \in 0..Len(file') /\ due' \in BOOLEAN
    BY <1>1, <1>2, <1>3, <1>4, Zenon DEF DiskType
  <2> QED BY <1>1, <1>2, <2>1, <2>2, <2>3, Zenon DEF DiskType, QueueType, WriterRec
<1>5. CASE Die(<< >>) /\ UNCHANGED <<synced, due>>
  <2>1. writer' \in WriterRec /\ ErrorInv' /\ Fault /\ Error
    BY <1>1, <1>2, <1>5, EmptySeq, WriterDies, Zenon
  <2>2. ControlType'
    BY <1>1, <1>2, <2>1, ControlSame, Zenon
  <2> QED BY <1>1, <1>2, <1>5, <2>1, <2>2, Zenon DEF DiskType, QueueType, WriterRec
<1>6. CASE due \/ writerDone
  BY <1>4, <1>5, <1>6, Zenon DEF Sync
<1>7. CASE ~(due \/ writerDone)
  BY <1>4, <1>7, Zenon DEF Sync
<1> QED BY <1>6, <1>7

LEMMA DeliverRest ==
  ASSUME TypeOK, ErrorInv, NEW m \in Monitors, Deliver(m)
  PROVE  ControlType' /\ QueueType' /\ DiskType' /\ ErrorInv'
<1>1. ControlType /\ QueueType /\ DiskType
  BY TypeParts
<1>2. UNCHANGED <<control_, app, lifecycle, completed, disk>>
  BY Zenon DEF Deliver
<1>3. DiskType'
  BY <1>1, <1>2, Zenon DEF DiskType
<1>4. CASE Enqueue(m) /\ UNCHANGED <<errors, faults>>
  <2>1. m \in Queued
    BY Zenon DEF Queued, Records
  <2>2. QueueType'
    BY <1>4, <2>1, QueueNext
  <2>3. ControlType' /\ ErrorInv'
    BY <1>1, <1>2, <1>4, ControlSame, Zenon DEF ErrorInv
  <2> QED BY <1>3, <2>2, <2>3
<1>5. CASE /\ Fault /\ UNCHANGED queue
           /\ errors' = [callback |-> errors.callback + 1, last |-> TRUE]
  <2>1. errors.callback + 1 \in Nat
    BY <1>1, SMT DEF ControlType
  <2>2. errors' \in [callback : Nat, last : BOOLEAN] /\ errors'.last = TRUE
    BY <1>5, <2>1, Zenon
  <2>3. faults' \in 0..MaxFaults
    BY <1>1, <1>5, FaultType, Zenon DEF ControlType
  <2>4. ControlType'
    BY <1>1, <1>2, <2>2, <2>3, Zenon DEF ControlType
  <2>5. QueueType' /\ ErrorInv'
    BY <1>1, <1>2, <1>5, <2>2, Zenon DEF QueueType, ErrorInv
  <2> QED BY <1>3, <2>4, <2>5
<1> QED BY <1>4, <1>5, Zenon DEF Deliver

LEMMA OutsideRest ==
  ASSUME TypeOK, ErrorInv, Toggle \/ (\E m \in Monitors : Complete(m)) \/ DeadlinePasses
  PROVE  ControlType' /\ QueueType' /\ DiskType' /\ ErrorInv'
<1>1. ControlType /\ QueueType /\ DiskType
  BY TypeParts
<1>2. CASE Toggle
  <2>1. toggles' \in 0..MaxToggles
    BY <1>1, <1>2, CaptureAssumption, SMT DEF Toggle, ControlType
  <2>2. control' \in BOOLEAN /\ UNCHANGED <<app, lifecycle, device, queue, disk, errors, faults>>
    BY <1>2, Zenon DEF Toggle
  <2>3. ControlType'
    BY <1>1, <2>1, <2>2, Zenon DEF ControlType
  <2>4. QueueType' /\ DiskType'
    BY <1>1, <2>2, Zenon DEF QueueType, DiskType
  <2>5. ErrorInv'
    BY <2>2, Zenon DEF ErrorInv
  <2> QED BY <2>3, <2>4, <2>5
<1>3. CASE \E m \in Monitors : Complete(m)
  <2>1. UNCHANGED <<control_, app, lifecycle, queue, disk, errors, faults>>
    BY <1>3, Zenon DEF Complete
  <2>2. ControlType'
    BY <1>1, <2>1, ControlSame, Zenon
  <2>3. QueueType' /\ DiskType'
    BY <1>1, <2>1, Zenon DEF QueueType, DiskType
  <2> QED BY <2>1, <2>2, <2>3, Zenon DEF ErrorInv
<1>4. CASE DeadlinePasses
  <2>1. due' = TRUE /\ UNCHANGED <<writerFrame, items, writer, file, synced, errors, faults>>
    BY <1>4, Zenon DEF DeadlinePasses
  <2>2. ControlType'
    BY <1>1, <2>1, ControlSame, Zenon
  <2>3. QueueType' /\ DiskType'
    BY <1>1, <2>1, Zenon DEF QueueType, DiskType
  <2>4. ErrorInv'
    BY <2>1, Zenon DEF ErrorInv
  <2> QED BY <2>2, <2>3, <2>4
<1> QED BY <1>2, <1>3, <1>4

LEMMA MainRest ==
  ASSUME TypeOK, ErrorInv, EndInv, MainStep
  PROVE  ControlType' /\ QueueType' /\ DiskType' /\ ErrorInv'
<1>1. ControlType /\ QueueType /\ DiskType
  BY TypeParts
<1>2. UNCHANGED mainFrame
  BY Zenon DEF MainStep, Start, Stop, JoinFlush, JoinWriter
<1>3. QueueType'
  BY <1>1, <1>2, Zenon DEF QueueType
<1>4. CASE UNCHANGED writer
  <2>1. DiskType' /\ ErrorInv'
    BY <1>1, <1>2, <1>4, Zenon DEF DiskType, ErrorInv
  <2>2. faults' \in 0..MaxFaults
    <3>1. faults' = faults \/ Fault
      BY Zenon DEF MainStep, Start, Stop, JoinFlush, JoinWriter
    <3> QED BY <1>1, <3>1, FaultType, Zenon DEF ControlType
  <2>3. /\ main' \in {"new", "started", "broken", "joining", "draining", "stopped"}
        /\ stopSet' \in BOOLEAN /\ writerDone' \in BOOLEAN
    BY <1>1, Zenon DEF ControlType, MainStep, Start, Stop, JoinFlush, JoinWriter
  <2>4. summary' \in [taken : BOOLEAN, clean : BOOLEAN, ended : BOOLEAN]
    <3>1. CASE JoinWriter
      <4>1. Clean \in BOOLEAN /\ Ended \in BOOLEAN
        BY SMT DEF Clean, Ended
      <4> QED BY <3>1, <4>1, Zenon DEF JoinWriter
    <3>2. CASE ~JoinWriter
      BY <1>1, <3>2, Zenon DEF ControlType, MainStep, Start, Stop, JoinFlush
    <3> QED BY <3>1, <3>2
  <2> QED BY <1>1, <1>2, <1>3, <2>1, <2>2, <2>3, <2>4, Zenon DEF ControlType
<1>5. CASE writer' # writer
  <2>1. /\ main = "new" /\ WriterGoto("open") /\ main' \in {"started", "broken"}
        /\ faults' = faults \/ Fault
        /\ UNCHANGED <<stopSet, writerDone, summary>>
    BY <1>5, Zenon DEF MainStep, Start, Stop, JoinFlush, JoinWriter
  <2>2. WriterAt("absent")
    BY <2>1, Zenon DEF EndInv
  <2>3. writer' \in WriterRec /\ ErrorInv'
    BY <1>1, <1>2, <2>1, <2>2, WriterGoes, Zenon DEF WriterAt
  <2>4. faults' \in 0..MaxFaults
    BY <1>1, <2>1, FaultType, Zenon DEF ControlType
  <2>5. ControlType' /\ DiskType'
    BY <1>1, <1>2, <2>1, <2>3, <2>4, Zenon DEF ControlType, DiskType, WriterRec
  <2> QED BY <1>3, <2>3, <2>5
<1> QED BY <1>4, <1>5

-----------------------------------------------------------------------------
(* The ends of the threads.                                                *)

\* A loss stays one.
LEMMA LossStays ==
  ASSUME TypeOK, NoLoss', errors' = errors \/ Error, UNCHANGED dropped
  PROVE  NoLoss /\ errors' = errors
<1>1. ~Error
  BY ErrorType, Zenon DEF NoLoss, TypeOK
<1> QED BY <1>1, Zenon DEF NoLoss

LEMMA FlushEnd ==
  ASSUME TypeOK, ErrorInv, EndInv, FlushStep \/ FlushAll
  PROVE  EndInv'
<1>1. UNCHANGED flushFrame
  BY FlushEffects
<1>2. flush.pc \notin {"absent", "gone"}
  BY Zenon DEF FlushStep, FlushAll, Look, LeaveLoop, StartKernel, StartComm, RollBack,
               StopKernel, StopComm, Mark, Tick, Wait, At
<1>3. main # "new" /\ ~writerDone
  BY <1>2, Zenon DEF EndInv, At
<1>4. writer.pc # "gone" /\ main \notin {"draining", "stopped"} /\ ~summary.taken
  BY <1>3, Zenon DEF EndInv
<1> QED BY <1>1, <1>3, <1>4, Zenon DEF EndInv

LEMMA WriterEnd ==
  ASSUME TypeOK, ErrorInv, EndInv, WriterStep \/ DeadlinePasses
  PROVE  EndInv'
<1>1. /\ DiskType /\ ControlType
      /\ UNCHANGED writerFrame /\ writer.pc \in {"open", "get", "check"}
  <2>1. DiskType /\ ControlType
    BY TypeParts
  <2>2. UNCHANGED writerFrame
    BY Zenon DEF WriterStep, DeadlinePasses, Open, Get, Sync
  <2>3. writer.pc \in {"open", "get", "check"}
    BY Zenon DEF WriterStep, DeadlinePasses, Open, Get, Sync, WriterAt
  <2> QED BY <2>1, <2>2, <2>3
<1>2. main # "new" /\ ~(summary.taken /\ summary.clean /\ summary.ended)
  BY <1>1, Zenon DEF EndInv, WriterAt
<1>3. writer'.pc = "gone" => writerDone /\ items' = << >>
  <2>1. ASSUME NEW pc, WriterGoto(pc) PROVE writer'.pc = pc
    BY <1>1, <2>1, Zenon DEF WriterGoto, DiskType
  <2>2. ASSUME NEW held, Die(held) PROVE writer'.pc = "dead"
    BY <2>2, Zenon DEF Die
  <2>3. CASE Open
    BY <2>1, <2>2, <2>3, Zenon DEF Open
  <2>4. CASE Sync
    BY <2>1, <2>2, <2>4, Zenon DEF Sync
  <2>5. CASE DeadlinePasses
    BY <1>1, <2>5, Zenon DEF DeadlinePasses
  <2>6. CASE Get
    <3>1. CASE items = << >>
      <4>1. UNCHANGED items /\ WriterGoto(IF writerDone THEN "gone" ELSE "check")
        BY <2>6, <3>1, Zenon DEF Get
      <4>2. writer'.pc = IF writerDone THEN "gone" ELSE "check"
        <5> DEFINE pc == IF writerDone THEN "gone" ELSE "check"
        <5>1. WriterGoto(pc)
          BY <4>1
        <5> HIDE DEF pc
        <5>2. writer'.pc = pc
          BY <2>1, <5>1
        <5> QED BY <5>2 DEF pc
      <4> QED BY <3>1, <4>1, <4>2, Zenon
    <3>2. CASE items # << >>
      BY <2>1, <2>2, <2>6, <3>2, Zenon DEF Get
    <3> QED BY <3>1, <3>2
  <2> QED BY <2>3, <2>4, <2>5, <2>6, Zenon DEF WriterStep
<1>4. UNCHANGED <<main, writerDone, summary, flush>>
  BY <1>1, Zenon
<1>5. /\ writerDone <=> main \in {"draining", "stopped"}
      /\ writerDone => At("gone")
      /\ summary.taken => main = "stopped"
  BY Zenon DEF EndInv
<1> QED BY <1>2, <1>3, <1>4, <1>5, Zenon DEF EndInv, At

\* After the flush thread, and without a loss, msPTI has nothing to deliver.
LEMMA NothingLeft ==
  ASSUME FlushInv, MonitorInv, ErrorInv, At("gone"), NoLoss
  PROVE  mon = {} /\ ~active /\ \A m \in Monitors : buffered[m] = 0
<1>1. ~stuck /\ ~active
  BY Zenon DEF FlushInv, ErrorInv, NoLoss
<1>2. mon = {}
  BY <1>1, Zenon DEF MonitorInv, Fit, At
<1> QED BY <1>1, <1>2, Zenon DEF MonitorInv

LEMMA DeliverEnd ==
  ASSUME TypeOK, FlushInv, MonitorInv, ErrorInv, EndInv, NEW m \in Monitors, Deliver(m)
  PROVE  EndInv'
<1>1. UNCHANGED <<control_, app, lifecycle, disk>> /\ buffered[m] > 0
  BY Zenon DEF Deliver
<1>2. ~(At("gone") /\ NoLoss)
  <2>1. buffered[m] # 0
    BY <1>1, SMT
  <2> QED BY <2>1, NothingLeft, Zenon
<1>3. NoLoss' => NoLoss
  <2>1. dropped \in Nat
    BY DEF TypeOK
  <2>2. CASE Enqueue(m) /\ UNCHANGED errors
    <3>1. dropped' = dropped \/ dropped' = dropped + (IF m = "tick" THEN 0 ELSE 1)
      BY <2>2, Zenon DEF Enqueue
    <3>2. dropped' = 0 => dropped = 0
      BY <2>1, <3>1, SMT
    <3> QED BY <2>2, <3>2, Zenon DEF NoLoss
  <2>3. CASE UNCHANGED queue /\ errors' = [callback |-> errors.callback + 1, last |-> TRUE]
    BY <2>3, Zenon DEF NoLoss
  <2> QED BY <2>2, <2>3, Zenon DEF Deliver
<1>4. writer.pc # "gone" \/ ~NoLoss'
  BY <1>2, <1>3, Zenon DEF EndInv
<1>5. ~(summary.taken /\ summary.clean /\ summary.ended)
  BY <1>2, Zenon DEF EndInv
<1>6. EndInv'
  BY <1>1, <1>4, <1>5, Zenon DEF EndInv, At, WriterAt
<1> QED BY <1>6

LEMMA OutsideEnd ==
  ASSUME EndInv, Toggle \/ (\E m \in Monitors : Complete(m))
  PROVE  EndInv'
<1>1. UNCHANGED <<app, lifecycle, queue, disk, errors>>
  BY Zenon DEF Toggle, Complete
<1> QED BY <1>1, Zenon DEF EndInv, At, WriterAt, NoLoss

LEMMA MainEnd ==
  ASSUME TypeOK, ErrorInv, EndInv, MainStep
  PROVE  EndInv'
<1>1. UNCHANGED mainFrame
  BY Zenon DEF MainStep, Start, Stop, JoinFlush, JoinWriter
<1>2. UNCHANGED items /\ NoLoss' = NoLoss
  BY <1>1, Zenon DEF NoLoss
<1>3. CASE Start
  <2>1. main = "new" /\ UNCHANGED <<stopSet, writerDone, summary>>
    BY <1>3, Zenon DEF Start
  <2>2. ~writerDone /\ ~summary.taken /\ writer.pc # "gone"
    BY <2>1, Zenon DEF EndInv
  <2>3. CASE UNCHANGED <<main, writer, flush>>
    BY <1>2, <2>1, <2>2, <2>3, Zenon DEF EndInv, At, WriterAt
  <2>4. CASE main' \in {"started", "broken"} /\ WriterGoto("open")
    <3>1. writer'.pc = "open"
      BY <2>4, WriterGotoType, TypeParts, Zenon
    <3>2. main' \notin {"new", "draining", "stopped"}
      BY <2>4, Zenon
    <3> QED BY <2>1, <2>2, <3>1, <3>2, Zenon DEF EndInv
  <2> QED BY <1>3, <2>3, <2>4, Zenon DEF Start
<1>4. CASE Stop
  <2>1. /\ main \in {"started", "broken"} /\ UNCHANGED <<writerDone, summary, writer, flush>>
        /\ main' \in {"joining", "broken"}
    BY <1>4, Zenon DEF Stop
  <2>2. ~writerDone /\ ~summary.taken /\ writer.pc # "gone"
    BY <2>1, Zenon DEF EndInv
  <2>3. main' \notin {"new", "draining", "stopped"}
    BY <2>1, Zenon
  <2> QED BY <2>1, <2>2, <2>3, Zenon DEF EndInv
<1>5. CASE JoinFlush
  <2>1. main = "joining" /\ UNCHANGED <<summary, writer, flush>>
    BY <1>5, Zenon DEF JoinFlush
  <2>2. ~writerDone /\ ~summary.taken /\ writer.pc # "gone"
    BY <2>1, Zenon DEF EndInv
  <2>3. CASE At("gone") /\ writerDone' = TRUE /\ main' = "draining"
    BY <2>1, <2>2, <2>3, Zenon DEF EndInv, At
  <2>4. CASE main' = "started" /\ UNCHANGED writerDone
    BY <2>1, <2>2, <2>4, Zenon DEF EndInv
  <2> QED BY <1>5, <2>3, <2>4, Zenon DEF JoinFlush
<1>6. CASE JoinWriter
  <2>1. /\ main = "draining" /\ main' = "stopped" /\ UNCHANGED <<writerDone, writer, flush>>
        /\ summary' = [taken |-> TRUE, clean |-> Clean, ended |-> Ended]
    BY <1>6, Zenon DEF JoinWriter
  <2>2. writerDone /\ At("gone")
    BY <2>1, Zenon DEF EndInv
  <2>3. summary'.clean /\ summary'.ended => NoLoss /\ writer.pc = "gone"
    <3>1. summary'.clean = Clean /\ summary'.ended = Ended
      BY <2>1, Zenon
    <3> QED BY <3>1, Zenon DEF Clean, Ended, NoLoss, ErrorInv
  <2>4. writer.pc = "gone" => (NoLoss => items = << >>)
    BY Zenon DEF EndInv
  <2> QED BY <1>2, <2>1, <2>2, <2>3, <2>4, Zenon DEF EndInv, At
<1> QED BY <1>3, <1>4, <1>5, <1>6, Zenon DEF MainStep

-----------------------------------------------------------------------------
(* What the queue and the file hold.                                       *)

\* The records of one kind are a sequence.
LEMMA OnlySeq ==
  ASSUME TypeOK, NEW rs
  PROVE  /\ file \in Seq(Queued) /\ items \in Seq(Queued)
         /\ Only(file, rs) \in Seq(Queued) /\ Only(items, rs) \in Seq(Queued)
         /\ Len(Only(file, rs)) \in Nat /\ Len(Only(items, rs)) \in Nat
<1>1. items \in Seq(Queued) /\ file \in Seq(Records)
  BY DEF TypeOK, Queued
<1>2. file \in Seq(Queued)
  <2>1. Records \subseteq Queued
    BY DEF Queued
  <2> QED BY <1>1, <2>1, SeqMonotonic
<1>3. Only(file, rs) \in Seq(Queued \cap rs) /\ Only(items, rs) \in Seq(Queued \cap rs)
  BY <1>1, <1>2, OnlyType
<1>4. Only(file, rs) \in Seq(Queued) /\ Only(items, rs) \in Seq(Queued)
  <2>1. Queued \cap rs \subseteq Queued
    OBVIOUS
  <2> QED BY <1>3, <2>1, SeqMonotonic
<1> QED BY <1>1, <1>2, <1>4, LenProperties

\* A record is queued, or counted, or a tick.
LEMMA EnqueueOnly ==
  ASSUME TypeOK, NEW r \in Queued, Enqueue(r), NEW rs, "tick" \notin rs
  PROVE  \/ /\ dropped' = dropped
            /\ Only(items', rs) = IF r \in rs THEN Append(Only(items, rs), r)
                                  ELSE Only(items, rs)
         \/ r # "tick" /\ dropped' = dropped + 1 /\ UNCHANGED items
<1>1. items \in Seq(Queued)
  BY OnlySeq
<1>2. CASE items' = Append(items, r) /\ UNCHANGED dropped
  BY <1>1, <1>2, OnlyAppend
<1>3. CASE dropped' = dropped + (IF r = "tick" THEN 0 ELSE 1) /\ UNCHANGED items
  <2>1. dropped \in Nat
    BY DEF TypeOK
  <2>2. CASE r = "tick"
    <3>1. dropped' = dropped
      BY <1>3, <2>1, <2>2, SMT
    <3> QED BY <1>3, <2>2, <3>1, Zenon
  <2>3. CASE r # "tick"
    BY <1>3, <2>3, Zenon
  <2> QED BY <2>2, <2>3
<1> QED BY <1>2, <1>3, Zenon DEF Enqueue

\* What the writer takes and writes stays where it is in the order.
LEMMA TakeOnly ==
  ASSUME TypeOK, items # << >>, items' = Tail(items),
         file' = file \o Stored(Head(items)), NEW rs, "tick" \notin rs
  PROVE  /\ Only(file', rs) \o Only(items', rs) = Only(file, rs) \o Only(items, rs)
         /\ Len(Only(file', rs)) + Len(Only(items', rs))
               = Len(Only(file, rs)) + Len(Only(items, rs))
<1> DEFINE h == Head(items)
<1> DEFINE a == Only(file, rs)
<1> DEFINE c == Only(items', rs)
<1> DEFINE b == IF h \in rs THEN <<h>> ELSE << >>
<1>1. /\ file \in Seq(Queued) /\ items \in Seq(Queued) /\ items' \in Seq(Queued)
      /\ h \in Queued /\ a \in Seq(Queued)
  BY OnlySeq, Takes
<1>2. b \in Seq(Queued)
  <2>1. CASE h \in rs
    BY <1>1, <2>1, SMT
  <2>2. CASE h \notin rs
    BY <2>2, EmptySeq
  <2> QED BY <2>1, <2>2
<1>3. Only(items, rs) = b \o c
  BY <1>1, OnlyTail
<1>4. Only(file', rs) = a \o b
  <2>1. CASE h = "tick"
    <3>1. file' = file
      BY <1>1, <2>1, ConcatEmptySeq DEF Stored
    <3>2. b = << >>
      BY <2>1
    <3> QED BY <1>1, <3>1, <3>2, ConcatEmptySeq
  <2>2. CASE h # "tick"
    <3>1. file' = Append(file, h)
      <4>1. file' = file \o <<h>>
        BY <2>2 DEF Stored
      <4> QED BY <1>1, <4>1, AppendIsConcat
    <3>2. Only(file', rs) = IF h \in rs THEN Append(a, h) ELSE a
      <4> HIDE DEF h
      <4>1. Only(Append(file, h), rs) = IF h \in rs THEN Append(Only(file, rs), h)
                                        ELSE Only(file, rs)
        BY <1>1, OnlyAppend
      <4> QED BY <3>1, <4>1
    <3>3. CASE h \in rs
      <4>1. Append(a, h) = a \o <<h>>
        BY <1>1, AppendIsConcat
      <4> QED BY <3>2, <3>3, <4>1
    <3>4. CASE h \notin rs
      <4>1. a \o << >> = a
        BY <1>1, ConcatEmptySeq
      <4> QED BY <3>2, <3>4, <4>1
    <3> QED BY <3>3, <3>4
  <2> QED BY <2>1, <2>2
<1>5. c \in Seq(Queued)
  <2>1. c \in Seq(Queued \cap rs)
    BY <1>1, OnlyType
  <2>2. Queued \cap rs \subseteq Queued
    OBVIOUS
  <2> QED BY <2>1, <2>2, SeqMonotonic
<1> HIDE DEF a, b, c
<1>6. (a \o b) \o c = a \o (b \o c)
  <2>1. a \in Seq(Queued) /\ b \in Seq(Queued) /\ c \in Seq(Queued)
    BY <1>1, <1>2, <1>5
  <2> QED BY <2>1, ConcatAssociative, SMTT(30)
<1>7. Len(a \o b) + Len(c) = Len(a) + Len(b \o c)
  <2>1. Len(a \o b) = Len(a) + Len(b) /\ Len(b \o c) = Len(b) + Len(c)
    BY <1>1, <1>2, <1>5, ConcatProperties
  <2>2. Len(a) \in Nat /\ Len(b) \in Nat /\ Len(c) \in Nat
    BY <1>1, <1>2, <1>5, LenProperties
  <2> QED BY <2>1, <2>2, SMT
<1> QED BY <1>3, <1>4, <1>6, <1>7 DEF a, c

\* The flush thread switches, marks the switch, or does neither.
LEMMA SwitchSteps ==
  ASSUME TypeOK, FlushInv, FlushStep \/ FlushAll
  PROVE  \/ /\ At("mark") /\ ~At("mark")' /\ UNCHANGED active
            /\ transitions' = transitions + 1
            /\ Enqueue(IF flush.enabled THEN "on" ELSE "off")
         \/ /\ ~At("mark") /\ At("mark")' /\ active' = ~active
            /\ UNCHANGED transitions /\ UNCHANGED queue
         \/ /\ ~At("mark") /\ ~At("mark")' /\ UNCHANGED <<active, transitions>>
            /\ UNCHANGED queue \/ Enqueue("tick")
<1>1. flush \in [pc : FlushPcs, enabled : BOOLEAN, final : BOOLEAN] /\ active \in BOOLEAN
  BY DEF TypeOK
<1>2. ASSUME NEW pc, Goto(pc) PROVE flush'.pc = pc
  BY <1>1, <1>2, Zenon DEF Goto
<1>14. ASSUME Raise PROVE ~At("mark")'
  BY <1>2, <1>14, Zenon DEF Raise, At
<1>15. CASE Look /\ Raise
  BY <1>14, <1>15, Zenon DEF Look, At
<1>3. CASE Look /\ ~Raise
  <2>1. PICK e \in BOOLEAN :
           flush' = [flush EXCEPT !.enabled = e,
                          !.pc = IF e = active THEN Settled(active)
                                 ELSE IF e THEN "start kernel" ELSE "stop kernel"]
    BY <1>3, Zenon DEF Look
  <2> DEFINE pc == IF e = active THEN Settled(active)
                   ELSE IF e THEN "start kernel" ELSE "stop kernel"
  <2>2. pc # "mark"
    BY Zenon DEF Settled
  <2> HIDE DEF pc
  <2>3. flush'.pc = pc
    <3>1. flush' = [flush EXCEPT !.enabled = e, !.pc = pc]
      BY <2>1 DEF pc
    <3> QED BY <1>1, <3>1, Zenon
  <2> QED BY <1>3, <2>2, <2>3, Zenon DEF Look, At
<1>4. CASE LeaveLoop
  <2> DEFINE pc == IF active THEN "stop kernel" ELSE "gone"
  <2>1. flush' = [enabled |-> FALSE, final |-> TRUE, pc |-> pc]
    BY <1>4, Zenon DEF LeaveLoop
  <2>2. pc # "mark"
    BY Zenon
  <2> HIDE DEF pc
  <2>3. flush'.pc = pc
    BY <2>1, Zenon
  <2> QED BY <1>4, <2>2, <2>3, Zenon DEF LeaveLoop, At
<1>5. CASE StartKernel
  <2>1. ~At("mark")'
    BY <1>2, <1>5, <1>14, Zenon DEF StartKernel, At
  <2> QED BY <1>5, <2>1, Zenon DEF StartKernel, At
<1>6. CASE StartComm
  <2>1. ~active /\ ~At("mark") /\ UNCHANGED <<transitions, queue>>
    BY <1>6, Zenon DEF StartComm, FlushInv, At
  <2>2. CASE active' = TRUE /\ Goto("mark")
    BY <1>2, <2>1, <2>2, Zenon DEF At
  <2>3. CASE (Goto("roll back") \/ Raise) /\ UNCHANGED active
    BY <1>2, <1>14, <2>1, <2>3, Zenon DEF At
  <2> QED BY <1>6, <2>2, <2>3, Zenon DEF StartComm
<1>7. CASE RollBack
  BY <1>7, <1>14, Zenon DEF RollBack, At
<1>8. CASE StopKernel
  <2>1. ~At("mark")'
    BY <1>2, <1>8, <1>14, Zenon DEF StopKernel, At
  <2> QED BY <1>8, <2>1, Zenon DEF StopKernel, At
<1>9. CASE StopComm
  <2>1. active /\ ~At("mark") /\ UNCHANGED <<transitions, queue>>
    BY <1>9, Zenon DEF StopComm, FlushInv, At
  <2>2. CASE active' = FALSE /\ Goto("mark")
    BY <1>1, <1>2, <2>1, <2>2, Zenon DEF At
  <2>3. CASE Raise /\ UNCHANGED active
    BY <1>14, <2>1, <2>3, Zenon
  <2> QED BY <1>9, <2>2, <2>3, Zenon DEF StopComm
<1>10. CASE Mark
  <2> DEFINE pc == IF flush.final THEN "gone" ELSE Settled(active)
  <2>1. Goto(pc)
    BY <1>10, Zenon DEF Mark
  <2>2. pc # "mark"
    BY Zenon DEF Settled
  <2> HIDE DEF pc
  <2>3. flush'.pc = pc
    BY <1>2, <2>1, Zenon
  <2> QED BY <1>10, <2>2, <2>3, Zenon DEF Mark, At
<1>11. CASE FlushAll
  <2>1. ~At("mark")'
    BY <1>2, <1>11, <1>14, Zenon DEF FlushAll, At
  <2> QED BY <1>11, <2>1, Zenon DEF FlushAll, At
<1>12. CASE Tick
  <2>1. flush'.pc = "wait"
    BY <1>2, <1>12, Zenon DEF Tick
  <2> QED BY <1>12, <2>1, Zenon DEF Tick, At
<1>13. CASE Wait
  <2>1. flush'.pc = "top"
    BY <1>2, <1>13, Zenon DEF Wait
  <2> QED BY <1>13, <2>1, Zenon DEF Wait, At
<1> QED BY <1>3, <1>4, <1>5, <1>6, <1>7, <1>8, <1>9, <1>10, <1>11, <1>12, <1>13, <1>15, Zenon
        DEF FlushStep

LEMMA ParityNext ==
  ASSUME TypeOK, FlushInv, Parity, FlushStep \/ FlushAll
  PROVE  Parity'
<1>1. active \in BOOLEAN /\ transitions \in Nat
  BY DEF TypeOK
<1>2. CASE /\ At("mark") /\ ~At("mark")' /\ UNCHANGED active
           /\ transitions' = transitions + 1
  <2>1. CASE active
    <3>1. transitions % 2 = 0
      BY <1>2, <2>1, Zenon DEF Parity, Odd
    <3>2. transitions' % 2 = 1
      BY <1>1, <1>2, <3>1, SMT
    <3> QED BY <1>2, <2>1, <3>2, Zenon DEF Parity, Odd
  <2>2. CASE ~active
    <3>1. transitions % 2 = 1
      BY <1>1, <1>2, <2>2, Zenon DEF Parity, Odd
    <3>2. transitions' % 2 = 0
      BY <1>1, <1>2, <3>1, SMT
    <3>3. ~active'
      BY <1>2, <2>2
    <3> QED BY <1>1, <1>2, <3>2, <3>3, Zenon DEF Parity, Odd
  <2> QED BY <2>1, <2>2
<1>3. CASE ~At("mark") /\ At("mark")' /\ active' = ~active /\ UNCHANGED transitions
  BY <1>1, <1>3, Zenon DEF Parity, Odd
<1>4. CASE ~At("mark") /\ ~At("mark")' /\ UNCHANGED <<active, transitions>>
  BY <1>4, Zenon DEF Parity, Odd
<1> QED BY <1>2, <1>3, <1>4, SwitchSteps, Zenon

\* The record of a switch that is marked is the next in turn.
LEMMA NextTurn ==
  ASSUME NEW T, NEW q \in Seq(T), NEW n \in Nat, Len(q) = n, Turn(n + 1) \in T,
         \A i \in 1..Len(q) : q[i] = Turn(i), NEW p, p = Append(q, Turn(n + 1))
  PROVE  Len(p) = n + 1 /\ \A i \in 1..Len(p) : p[i] = Turn(i)
<1>1. /\ Len(p) = n + 1 /\ p[n + 1] = Turn(n + 1)
      /\ \A i \in 1..n : p[i] = q[i]
  BY AppendProperties
<1>2. ASSUME NEW i \in 1..Len(p) PROVE p[i] = Turn(i)
  <2>1. CASE i = n + 1
    BY <1>1, <2>1
  <2>2. CASE i # n + 1
    <3>1. i \in 1..n
      BY <1>1, <2>2, SMT
    <3> QED BY <1>1, <3>1
  <2> QED BY <2>1, <2>2
<1> QED BY <1>1, <1>2

LEMMA FlushMarks ==
  ASSUME TypeOK, ErrorInv, FlushInv, Parity, MarksInOrder, FlushStep \/ FlushAll
  PROVE  MarksInOrder'
<1> SUFFICES ASSUME NoLoss'
             PROVE  /\ Len(AllMarks') = transitions'
                    /\ \A i \in 1..Len(AllMarks') : AllMarks'[i] = Turn(i)
  BY Zenon DEF MarksInOrder, Turn
<1>0. UNCHANGED file /\ (errors' = errors \/ Error) /\ dropped \in Nat /\ transitions \in Nat
      /\ "tick" \notin Marks /\ "tick" \in Queued
  BY FlushEffects, Zenon DEF TypeOK, Marks, Queued
<1>1. ~Error /\ dropped' = 0
  <2>1. Error => errors'.last = TRUE
    BY ErrorType DEF TypeOK
  <2> QED BY <2>1, Zenon DEF NoLoss
<1>2. ASSUME dropped = 0
      PROVE  /\ Len(AllMarks) = transitions
             /\ \A i \in 1..Len(AllMarks) : AllMarks[i] = Turn(i)
  BY <1>0, <1>1, <1>2, Zenon DEF NoLoss, MarksInOrder
<1>3. CASE UNCHANGED <<queue, transitions>>
  <2>1. UNCHANGED AllMarks
    BY <1>0, <1>3, Zenon DEF AllMarks
  <2> QED BY <1>1, <1>2, <1>3, <2>1, Zenon
<1>4. CASE Enqueue("tick") /\ UNCHANGED transitions
  <2>1. dropped' = dropped /\ Only(items', Marks) = Only(items, Marks)
    BY <1>0, <1>4, EnqueueOnly, Zenon
  <2>2. UNCHANGED AllMarks
    BY <1>0, <2>1, Zenon DEF AllMarks
  <2> QED BY <1>1, <1>2, <1>4, <2>1, <2>2, Zenon
<1>5. CASE /\ At("mark") /\ transitions' = transitions + 1
           /\ Enqueue(IF flush.enabled THEN "on" ELSE "off")
  <2> DEFINE r == IF flush.enabled THEN "on" ELSE "off"
  <2>1. r \in Marks /\ r \in Queued /\ r # "tick"
    BY Zenon DEF Marks, Queued, Records
  <2>2. r = Turn(transitions + 1)
    <3>1. active = flush.enabled /\ active \in BOOLEAN
      BY <1>5, Zenon DEF FlushInv, TypeOK
    <3>2. CASE active
      <4>1. transitions % 2 = 0
        BY <1>5, <3>2, Zenon DEF Parity, Odd
      <4>2. (transitions + 1) % 2 = 1
        BY <1>0, <4>1, SMT
      <4> QED BY <3>1, <3>2, <4>2, Zenon DEF Turn
    <3>3. CASE ~active
      <4>1. transitions % 2 = 1
        BY <1>5, <3>3, Zenon DEF Parity, Odd
      <4>2. (transitions + 1) % 2 # 1
        BY <1>0, <4>1, SMT
      <4> QED BY <3>1, <3>3, <4>2, Zenon DEF Turn
    <3> QED BY <3>1, <3>2, <3>3
  <2>3. Enqueue(r)
    BY <1>5
  <2> HIDE DEF r
  <2>4. dropped = 0 /\ Only(items', Marks) = Append(Only(items, Marks), r)
    <3>1. \/ /\ dropped' = dropped
             /\ Only(items', Marks) = IF r \in Marks THEN Append(Only(items, Marks), r)
                                      ELSE Only(items, Marks)
          \/ r # "tick" /\ dropped' = dropped + 1 /\ UNCHANGED items
      BY <1>0, <2>1, <2>3, EnqueueOnly
    <3>2. dropped' # dropped + 1
      BY <1>0, <1>1, SMT
    <3> QED BY <1>1, <2>1, <3>1, <3>2, Zenon
  <2> DEFINE a == Only(file, Marks)
  <2> DEFINE b == Only(items, Marks)
  <2>5. a \in Seq(Queued) /\ b \in Seq(Queued)
    BY OnlySeq
  <2>6. AllMarks' = a \o Append(b, r) /\ AllMarks = a \o b
    BY <1>0, <2>4, Zenon DEF AllMarks
  <2> HIDE DEF a, b
  <2>7. AllMarks' = Append(AllMarks, r) /\ AllMarks \in Seq(Queued)
    <3>1. /\ Append(b, r) = b \o <<r>> /\ a \o b \in Seq(Queued)
          /\ Append(a \o b, r) = (a \o b) \o <<r>>
      BY <2>1, <2>5, AppendIsConcat, ConcatProperties
    <3>2. <<r>> \in Seq(Queued)
      BY <2>1, SMT
    <3>3. (a \o b) \o <<r>> = a \o (b \o <<r>>)
      BY <2>5, <3>2, ConcatAssociative
    <3> QED BY <2>6, <3>1, <3>3
  <2>8. /\ Len(AllMarks) = transitions
        /\ \A i \in 1..Len(AllMarks) : AllMarks[i] = Turn(i)
    BY <1>2, <2>4
  <2>9. Turn(transitions + 1) \in Queued /\ AllMarks' = Append(AllMarks, Turn(transitions + 1))
    BY <2>1, <2>2, <2>7
  <2>10. /\ Len(AllMarks') = transitions + 1
         /\ \A i \in 1..Len(AllMarks') : AllMarks'[i] = Turn(i)
    BY <1>0, <2>7, <2>8, <2>9, NextTurn
  <2> QED BY <1>5, <2>10
<1> QED BY <1>3, <1>4, <1>5, SwitchSteps, Zenon

\* Steps that move no record.
LEMMA RecordsStay ==
  ASSUME TypeOK, MarksInOrder, Counted, errors' = errors \/ Error,
         UNCHANGED <<file, items, dropped, transitions, buffered, completed>>
  PROVE  MarksInOrder' /\ Counted'
<1>1. NoLoss' => NoLoss
  BY LossStays, Zenon
<1>2. UNCHANGED AllMarks
  BY Zenon DEF AllMarks
<1>3. MarksInOrder'
  BY <1>1, <1>2, Zenon DEF MarksInOrder
<1>4. Counted'
  BY <1>1, Zenon DEF Counted
<1> QED BY <1>3, <1>4

LEMMA FlushCounted ==
  ASSUME TypeOK, ErrorInv, FlushInv, Counted, FlushStep \/ FlushAll
  PROVE  Counted'
<1>1. /\ UNCHANGED <<file, buffered, completed>> /\ (errors' = errors \/ Error)
      /\ dropped \in Nat
      /\ UNCHANGED queue \/ \E r \in Queued \ Monitors : Enqueue(r)
  <2>1. CASE Mark
    <3>1. {"on", "off"} \subseteq Queued \ Monitors
      BY Zenon DEF Queued, Records, Marks, Monitors
    <3> QED BY <2>1, <3>1, FlushEffects, Zenon DEF Mark, TypeOK
  <2>2. CASE Tick
    <3>1. "tick" \in Queued \ Monitors
      BY Zenon DEF Queued, Monitors
    <3> QED BY <2>2, <3>1, FlushEffects, Zenon DEF Tick, TypeOK
  <2> QED BY <2>1, <2>2, FlushEffects, Zenon DEF TypeOK
<1>2. CASE UNCHANGED queue
  <2>1. NoLoss' => NoLoss
    BY <1>1, <1>2, LossStays, Zenon
  <2> QED BY <1>1, <1>2, <2>1, Zenon DEF Counted
<1>3. ASSUME NEW r \in Queued \ Monitors, Enqueue(r), NoLoss'
      PROVE  NoLoss /\ Only(items', Monitors) = Only(items, Monitors)
  <2>1. "tick" \notin Monitors
    BY Zenon DEF Monitors
  <2>2. \/ /\ dropped' = dropped
           /\ Only(items', Monitors) = IF r \in Monitors THEN Append(Only(items, Monitors), r)
                                       ELSE Only(items, Monitors)
        \/ r # "tick" /\ dropped' = dropped + 1 /\ UNCHANGED items
    BY <1>3, <2>1, EnqueueOnly
  <2>3. dropped' = 0
    BY <1>3, Zenon DEF NoLoss
  <2>4. dropped' # dropped + 1
    BY <1>1, <2>3, SMT
  <2>5. UNCHANGED dropped /\ Only(items', Monitors) = Only(items, Monitors)
    BY <1>3, <2>2, <2>4, Zenon
  <2> QED BY <1>1, <1>3, <2>5, LossStays, Zenon
<1> QED BY <1>1, <1>2, <1>3, Zenon DEF Counted

LEMMA GetRecords ==
  ASSUME TypeOK, MarksInOrder, Counted, Get
  PROVE  MarksInOrder' /\ Counted'
<1>1. UNCHANGED <<dropped, transitions, buffered, completed>>
  BY Zenon DEF Get
<1>2. CASE items = << >>
  <2>1. UNCHANGED <<items, file, errors>>
    BY <1>2, Zenon DEF Get
  <2> QED BY <1>1, <2>1, RecordsStay, Zenon
<1>3. CASE /\ items # << >> /\ items' = Tail(items) /\ UNCHANGED errors
           /\ file' = file \o Stored(Head(items))
  <2>1. "tick" \notin Marks /\ "tick" \notin Monitors
    BY Zenon DEF Marks, Monitors
  <2>2. Len(Only(file', Monitors)) + Len(Only(items', Monitors))
               = Len(Only(file, Monitors)) + Len(Only(items, Monitors))
    BY <1>3, <2>1, TakeOnly
  <2>3. AllMarks' = AllMarks
    BY <1>3, <2>1, TakeOnly DEF AllMarks
  <2>4. NoLoss' = NoLoss
    BY <1>1, <1>3, Zenon DEF NoLoss
  <2>5. MarksInOrder'
    BY <1>1, <2>3, <2>4, Zenon DEF MarksInOrder
  <2>6. Counted'
    BY <1>1, <2>2, <2>4, Zenon DEF Counted
  <2> QED BY <2>5, <2>6
<1>4. CASE items # << >> /\ Die(Stored(Head(items)))
  <2>1. errors'.last = TRUE
    BY <1>4, ErrorType, Zenon DEF Die, TypeOK
  <2> QED BY <2>1, Zenon DEF MarksInOrder, Counted, NoLoss
<1>5. CASE items # << >>
  BY <1>3, <1>4, <1>5, Zenon DEF Get
<1> QED BY <1>2, <1>5

LEMMA MovesOn ==
  ASSUME NEW a \in Nat, NEW b \in Nat, NEW k \in Int, NEW c \in Int,
         NEW k1 \in Int, NEW c1 \in Int, k1 + c1 = k + c - 1
  PROVE  a + b + k + c = a + (b + 1) + k1 + c1
BY SMT

LEMMA DeliverRecords ==
  ASSUME TypeOK, MarksInOrder, Counted, NEW m \in Monitors, Deliver(m)
  PROVE  MarksInOrder' /\ Counted'
<1>1. /\ UNCHANGED <<file, transitions, completed>> /\ buffered[m] > 0
      /\ buffered' = [buffered EXCEPT ![m] = @ - 1]
  BY Zenon DEF Deliver
<1>2. CASE errors' = [callback |-> errors.callback + 1, last |-> TRUE]
  <2>1. ~NoLoss'
    BY <1>2, Zenon DEF NoLoss
  <2> QED BY <2>1, Zenon DEF MarksInOrder, Counted
<1>3. CASE Enqueue(m) /\ UNCHANGED errors
  <2> SUFFICES ASSUME NoLoss'
               PROVE  MarksInOrder' /\ Counted'
    BY Zenon DEF MarksInOrder, Counted
  <2>1. /\ m \in Queued /\ m # "tick" /\ m \notin Marks /\ "tick" \notin Marks
        /\ "tick" \notin Monitors /\ dropped \in Nat /\ dropped' = 0
    BY Zenon DEF Queued, Records, Marks, Monitors, TypeOK, NoLoss
  <2>2. dropped' # dropped + 1
    BY <2>1, SMT
  <2>3. UNCHANGED dropped /\ Only(items', Marks) = Only(items, Marks)
    <3>1. \/ /\ dropped' = dropped
             /\ Only(items', Marks) = IF m \in Marks THEN Append(Only(items, Marks), m)
                                      ELSE Only(items, Marks)
          \/ m # "tick" /\ dropped' = dropped + 1 /\ UNCHANGED items
      BY <1>3, <2>1, EnqueueOnly
    <3> QED BY <2>1, <2>2, <3>1, Zenon
  <2>4. Only(items', Monitors) = Append(Only(items, Monitors), m)
    <3>1. \/ /\ dropped' = dropped
             /\ Only(items', Monitors) = IF m \in Monitors
                                         THEN Append(Only(items, Monitors), m)
                                         ELSE Only(items, Monitors)
          \/ m # "tick" /\ dropped' = dropped + 1 /\ UNCHANGED items
      BY <1>3, <2>1, EnqueueOnly
    <3> QED BY <2>1, <2>2, <3>1, Zenon
  <2>5. NoLoss
    BY <1>3, <2>3, Zenon DEF NoLoss
  <2>6. MarksInOrder'
    <3>1. UNCHANGED AllMarks
      BY <1>1, <2>3, Zenon DEF AllMarks
    <3> QED BY <1>1, <2>5, <3>1, Zenon DEF MarksInOrder
  <2>7. Counted'
    <3> DEFINE a == Only(file, Monitors)
    <3> DEFINE b == Only(items, Monitors)
    <3>1. a \in Seq(Queued) /\ b \in Seq(Queued) /\ Len(a) \in Nat /\ Len(b) \in Nat
      BY OnlySeq
    <3>2. Len(Append(b, m)) = Len(b) + 1
      BY <2>1, <3>1, AppendProperties
    <3>3. completed = Len(a) + Len(b) + buffered["kernel"] + buffered["comm"]
      BY <2>5, Zenon DEF Counted
    <3>4. /\ a' = a /\ b' = Append(b, m)
      BY <1>1, <2>4, Zenon
    <3> HIDE DEF a, b
    <3>5. buffered \in [Monitors -> Nat]
      BY DEF TypeOK
    <3>6. buffered'["kernel"] + buffered'["comm"] = buffered["kernel"] + buffered["comm"] - 1
      BY <1>1, <3>5, SMT DEF Monitors
    <3>7. buffered["kernel"] \in Nat /\ buffered["comm"] \in Nat
      BY <3>5, SMT DEF Monitors
    <3>9. buffered'["kernel"] \in Int /\ buffered'["comm"] \in Int
      BY <1>1, <3>5, SMT DEF Monitors
    <3>10. completed' = completed /\ Len(a') = Len(a) /\ Len(b') = Len(b) + 1
      BY <1>1, <3>2, <3>4, Zenon
    <3>8. completed' = Len(a') + Len(b') + buffered'["kernel"] + buffered'["comm"]
      <4> DEFINE x == Len(a)
      <4> DEFINE y == Len(b)
      <4> DEFINE k == buffered["kernel"]
      <4> DEFINE c == buffered["comm"]
      <4> DEFINE k1 == buffered'["kernel"]
      <4> DEFINE c1 == buffered'["comm"]
      <4>1. x \in Nat /\ y \in Nat /\ k \in Int /\ c \in Int /\ k1 \in Int /\ c1 \in Int
        BY <3>1, <3>7, <3>9
      <4>2. k1 + c1 = k + c - 1 /\ completed = x + y + k + c
        BY <3>3, <3>6
      <4>3. completed' = completed /\ Len(a') = x /\ Len(b') = y + 1
        BY <3>10
      <4> HIDE DEF x, y, k, c, k1, c1
      <4>4. x + y + k + c = x + (y + 1) + k1 + c1
        BY <4>1, <4>2, MovesOn
      <4>5. completed' = Len(a') + Len(b') + k1 + c1
        BY <4>2, <4>3, <4>4, Zenon
      <4> QED BY <4>5 DEF k1, c1
    <3> QED BY <3>8, Zenon DEF Counted, a, b
  <2> QED BY <2>6, <2>7
<1> QED BY <1>2, <1>3, Zenon DEF Deliver

LEMMA CompleteRecords ==
  ASSUME TypeOK, MarksInOrder, Counted, NEW m \in Monitors, Complete(m)
  PROVE  MarksInOrder' /\ Counted'
<1>1. /\ UNCHANGED <<file, items, dropped, transitions, errors>>
      /\ completed' = completed + 1 /\ buffered' = [buffered EXCEPT ![m] = @ + 1]
  BY Zenon DEF Complete
<1>2. NoLoss' = NoLoss /\ UNCHANGED AllMarks
  BY <1>1, Zenon DEF NoLoss, AllMarks
<1>3. MarksInOrder'
  BY <1>1, <1>2, Zenon DEF MarksInOrder
<1>4. Counted'
  <2> DEFINE n == Len(Only(file, Monitors)) + Len(Only(items, Monitors))
  <2>1. n \in Nat
    <3>1. Len(Only(file, Monitors)) \in Nat /\ Len(Only(items, Monitors)) \in Nat
      BY OnlySeq
    <3> QED BY <3>1, SMT
  <2>2. n' = n
    BY <1>1, Zenon
  <2>3. NoLoss => completed = n + buffered["kernel"] + buffered["comm"]
    BY Zenon DEF Counted
  <2> HIDE DEF n
  <2>4. buffered \in [Monitors -> Nat]
    BY DEF TypeOK
  <2>5. /\ buffered["kernel"] \in Nat /\ buffered["comm"] \in Nat
        /\ buffered'["kernel"] \in Nat /\ buffered'["comm"] \in Nat
        /\ buffered'["kernel"] + buffered'["comm"] = buffered["kernel"] + buffered["comm"] + 1
    BY <1>1, <2>4, SMT DEF Monitors
  <2>6. NoLoss' => completed' = n' + buffered'["kernel"] + buffered'["comm"]
    BY <1>1, <1>2, <2>1, <2>2, <2>3, <2>5, SMT
  <2> QED BY <2>6, Zenon DEF Counted, n
<1> QED BY <1>3, <1>4

-----------------------------------------------------------------------------
(* The invariant.                                                          *)

LEMMA CaptureInit == Init => CaptureInv
<1> SUFFICES ASSUME Init PROVE CaptureInv
  OBVIOUS
<1>1. TypeOK
  BY InitType
<1>2. FlushInv /\ ErrorInv /\ EndInv
  BY SMT DEF Init, FlushInv, ErrorInv, EndInv, At, WriterAt
<1>3. MonitorInv
  BY SMT DEF Init, MonitorInv, Fit, At
<1>4. Parity
  BY SMT DEF Init, Parity, Odd, At
<1>5. AllMarks = << >>
  <2>1. Only(file, Marks) = << >> /\ Only(items, Marks) = << >>
    BY OnlyEmpty, Zenon DEF Init
  <2>2. << >> \o << >> = << >>
    OBVIOUS
  <2> QED BY <2>1, <2>2, Zenon DEF AllMarks
<1>6. MarksInOrder
  <2>1. Len(AllMarks) = 0 /\ transitions = 0
    BY <1>5 DEF Init
  <2>2. 1..0 = {}
    BY SMT
  <2> QED BY <2>1, <2>2, Zenon DEF MarksInOrder
<1>7. Counted
  <2>1. Len(Only(file, Monitors)) = 0 /\ Len(Only(items, Monitors)) = 0
    <3>1. Only(file, Monitors) = << >> /\ Only(items, Monitors) = << >>
      BY OnlyEmpty, Zenon DEF Init
    <3> QED BY <3>1
  <2>2. completed = 0 /\ buffered["kernel"] = 0 /\ buffered["comm"] = 0
    BY DEF Init, Monitors
  <2>3. 0 = 0 + 0 + 0 + 0
    BY SMT
  <2> QED BY <2>1, <2>2, <2>3, Zenon DEF Counted
<1> QED BY <1>1, <1>2, <1>3, <1>4, <1>6, <1>7, Zenon DEF CaptureInv

\* The monitors and the records are left alone by the application's thread.
LEMMA MainRecords ==
  ASSUME CaptureInv, MainStep
  PROVE  /\ FlushType' /\ FlushInv' /\ MonitorInv'
         /\ Parity' /\ MarksInOrder' /\ Counted'
<1>1. TypeOK /\ FlushInv /\ MonitorInv /\ Parity /\ MarksInOrder /\ Counted /\ EndInv
  BY Zenon DEF CaptureInv
<1>2. UNCHANGED mainFrame
  BY Zenon DEF MainStep, Start, Stop, JoinFlush, JoinWriter
<1>3. UNCHANGED flush \/ (At("absent") /\ Goto("top"))
  BY <1>1, Zenon DEF MainStep, Start, Stop, JoinFlush, JoinWriter, EndInv
<1>4. FlushType
  BY <1>1, TypeParts
<1>5. CASE UNCHANGED flush
  <2>1. FlushType' /\ FlushInv' /\ MonitorInv'
    BY <1>1, <1>2, <1>4, <1>5, Zenon DEF FlushType, FlushInv, MonitorInv, At
  <2>2. Parity'
    BY <1>1, <1>2, <1>5, Zenon DEF Parity, Odd, At
  <2> QED BY <1>1, <1>2, <2>1, <2>2, RecordsStay, Zenon
<1>6. CASE At("absent") /\ Goto("top")
  <2>1. FlushType' /\ FlushInv' /\ MonitorInv'
    BY <1>1, <1>2, <1>4, <1>6, StartMoves, Zenon
  <2>2. ~At("mark") /\ ~At("mark")'
    <3>1. flush.pc = "absent"
      BY <1>6, Zenon DEF At
    <3>2. flush' = [pc |-> "top", enabled |-> flush.enabled, final |-> flush.final]
      BY <1>4, <1>6, GotoIs, Zenon
    <3>3. flush'.pc = "top"
      BY <3>2
    <3> QED BY <3>1, <3>3 DEF At
  <2>3. Parity'
    BY <1>1, <1>2, <2>2, Zenon DEF Parity, Odd
  <2> QED BY <1>1, <1>2, <2>1, <2>3, RecordsStay, Zenon
<1> QED BY <1>3, <1>5, <1>6

LEMMA CaptureNext == CaptureInv /\ [Next]_vars => CaptureInv'
<1> SUFFICES ASSUME CaptureInv, [Next]_vars
             PROVE  CaptureInv'
  OBVIOUS
<1>1. /\ TypeOK /\ FlushInv /\ MonitorInv /\ ErrorInv
      /\ Parity /\ MarksInOrder /\ Counted /\ EndInv /\ FlushType
  BY TypeParts, Zenon DEF CaptureInv
<1>2. CASE FlushStep \/ FlushAll
  <2>1. ControlType' /\ QueueType' /\ DiskType' /\ ErrorInv'
    BY <1>1, <1>2, FlushRest, Zenon
  <2>2. FlushType' /\ FlushInv' /\ MonitorInv'
    BY <1>1, <1>2, FlushMoves, Zenon
  <2>3. Parity' /\ MarksInOrder' /\ Counted' /\ EndInv'
    BY <1>1, <1>2, ParityNext, FlushMarks, FlushCounted, FlushEnd, Zenon
  <2> QED BY <2>1, <2>2, <2>3, TypePartsNext, Zenon DEF CaptureInv
<1>3. CASE MainStep
  BY <1>1, <1>3, MainRest, MainEnd, MainRecords, TypePartsNext, Zenon DEF CaptureInv
<1>4. ASSUME UNCHANGED <<lifecycle, device>>
      PROVE  FlushType' /\ FlushInv' /\ MonitorInv' /\ Parity'
  <2>1. FlushType' /\ FlushInv' /\ MonitorInv'
    BY <1>1, <1>4, Zenon DEF FlushType, FlushInv, MonitorInv, At
  <2>2. Parity'
    BY <1>1, <1>4, Zenon DEF Parity, Odd, At
  <2> QED BY <2>1, <2>2
<1>5. CASE WriterStep \/ DeadlinePasses
  <2>1. UNCHANGED <<lifecycle, device>>
    BY <1>5, Zenon DEF WriterStep, Open, Get, Sync, DeadlinePasses
  <2>2. ControlType' /\ QueueType' /\ DiskType' /\ ErrorInv'
    BY <1>1, <1>5, OpenRest, GetRest, SyncRest, OutsideRest, Zenon DEF WriterStep
  <2>3. MarksInOrder' /\ Counted'
    <3>1. CASE Get
      BY <1>1, <3>1, GetRecords, Zenon
    <3>2. CASE Open \/ Sync \/ DeadlinePasses
      <4>1. /\ errors' = errors \/ Error
            /\ UNCHANGED <<file, items, dropped, transitions, buffered, completed>>
        BY <3>2, Zenon DEF Open, Sync, DeadlinePasses, Die
      <4> QED BY <1>1, <4>1, RecordsStay, Zenon
    <3> QED BY <1>5, <3>1, <3>2, Zenon DEF WriterStep
  <2>4. EndInv'
    BY <1>1, <1>5, WriterEnd, Zenon
  <2> QED BY <1>4, <2>1, <2>2, <2>3, <2>4, TypePartsNext, Zenon DEF CaptureInv
<1>6. CASE Toggle
  <2>1. UNCHANGED <<app, lifecycle, device, queue, disk, errors>>
    BY <1>6, Zenon DEF Toggle
  <2>2. ControlType' /\ QueueType' /\ DiskType' /\ ErrorInv' /\ EndInv'
    BY <1>1, <1>6, OutsideRest, OutsideEnd, Zenon
  <2>3. MarksInOrder' /\ Counted'
    BY <1>1, <2>1, RecordsStay, Zenon
  <2> QED BY <1>4, <2>1, <2>2, <2>3, TypePartsNext, Zenon DEF CaptureInv
<1>7. ASSUME NEW m \in Monitors, Complete(m) \/ Deliver(m)
      PROVE  CaptureInv'
  <2>1. UNCHANGED lifecycle
    BY <1>7, Zenon DEF Complete, Deliver
  <2>2. FlushType' /\ FlushInv' /\ MonitorInv'
    BY <1>1, <1>7, DeviceMoves, Zenon
  <2>3. Parity'
    BY <1>1, <2>1, Zenon DEF Parity, Odd, At
  <2>4. ControlType' /\ QueueType' /\ DiskType' /\ ErrorInv'
    BY <1>1, <1>7, OutsideRest, DeliverRest, Zenon
  <2>5. MarksInOrder' /\ Counted'
    BY <1>1, <1>7, CompleteRecords, DeliverRecords, Zenon
  <2>6. EndInv'
    BY <1>1, <1>7, DeliverEnd, OutsideEnd, Zenon
  <2> QED BY <2>2, <2>3, <2>4, <2>5, <2>6, TypePartsNext, Zenon DEF CaptureInv
<1>8. CASE UNCHANGED vars
  <2>1. UNCHANGED <<control_, app, lifecycle, device, queue, disk, errors, faults>>
    BY <1>8, Zenon DEF vars
  <2>2. ControlType' /\ QueueType' /\ DiskType' /\ ErrorInv'
    <3>1. ControlType /\ QueueType /\ DiskType
      BY <1>1, TypeParts
    <3>2. ControlType'
      BY <2>1, <3>1, Zenon DEF ControlType
    <3>3. QueueType' /\ DiskType'
      BY <2>1, <3>1, Zenon DEF QueueType, DiskType
    <3> QED BY <1>1, <2>1, <3>2, <3>3, Zenon DEF ErrorInv
  <2>3. MarksInOrder' /\ Counted'
    BY <1>1, <2>1, RecordsStay, Zenon
  <2>4. EndInv'
    BY <1>1, <2>1, Zenon DEF EndInv, At, WriterAt, NoLoss
  <2> QED BY <1>4, <2>1, <2>2, <2>3, <2>4, TypePartsNext, Zenon DEF CaptureInv
<1> QED BY <1>2, <1>3, <1>5, <1>6, <1>7, <1>8, Zenon DEF Next

LEMMA CaptureInvariant == Spec => []CaptureInv
BY CaptureInit, CaptureNext, PTL DEF Spec

-----------------------------------------------------------------------------
(* The theorems.                                                           *)

\* Every variable has its type, and the queue its bound.
\* (MsptiCapture.__init__ and the two threads.)
THEOREM CaptureTypes == Spec => []TypeOK
<1>1. CaptureInv => TypeOK
  BY DEF CaptureInv
<1> QED BY <1>1, CaptureInvariant, PTL

\* Outside a switch both monitors are on or none is, as monitor_active says, for
\* every number of failing calls; where not, a stop has failed or the second
\* monitor's start has raised, and last_error tells of it.
\* (_set_monitor_active, 137-152, and the handlers at 173 and 180.)
THEOREM Agree == Spec => []MonitorsAgree
<1>1. MonitorInv /\ ErrorInv => MonitorsAgree
  <2> SUFFICES ASSUME MonitorInv, ErrorInv,
                      flush.pc \in {"top", "flush", "tick", "wait", "gone"},
                      mon # IF active THEN Monitors ELSE {}
               PROVE  stuck /\ errors.last
    BY DEF MonitorsAgree
  <2>1. flush.pc \notin {"stop comm", "start comm", "roll back"}
    OBVIOUS
  <2>2. stuck
    BY <2>1, Zenon DEF MonitorInv, Fit
  <2> QED BY <2>2, Zenon DEF ErrorInv
<1>2. CaptureInv => MonitorsAgree
  BY <1>1 DEF CaptureInv
<1> QED BY <1>2, CaptureInvariant, PTL

\* A summary without a loss and without an error is true of the file, for every
\* size of the queue and any number of activities, switches and failures.
\* (stop joins the flush thread before it tells the writer to end.)
THEOREM CleanSummary == Spec => []CleanSummaryIsTrue
<1>1. CaptureInv => CleanSummaryIsTrue
  <2> SUFFICES ASSUME CaptureInv, summary.taken, summary.clean, summary.ended
               PROVE  /\ Len(Only(file, Monitors)) = completed
                      /\ Len(Only(file, Marks)) = transitions
                      /\ \A i \in 1..Len(Only(file, Marks)) :
                            Only(file, Marks)[i] = IF i % 2 = 1 THEN "on" ELSE "off"
                      /\ transitions % 2 = 0 /\ mon = {}
    BY Zenon DEF CleanSummaryIsTrue
  <2>0. /\ TypeOK /\ FlushInv /\ MonitorInv /\ ErrorInv
        /\ Parity /\ MarksInOrder /\ Counted /\ EndInv
    BY Zenon DEF CaptureInv
  <2>1. NoLoss /\ items = << >> /\ At("gone")
    BY <2>0, Zenon DEF EndInv
  <2>2. mon = {} /\ ~active /\ \A m \in Monitors : buffered[m] = 0
    BY <2>0, <2>1, NothingLeft
  <2>3. Only(items, Monitors) = << >> /\ Only(items, Marks) = << >>
    BY <2>1, OnlyEmpty, Zenon
  <2>4. AllMarks = Only(file, Marks)
    <3>1. Only(file, Marks) \in Seq(Queued)
      BY <2>0, OnlySeq
    <3>2. Only(file, Marks) \o << >> = Only(file, Marks)
      BY <3>1, ConcatEmptySeq
    <3> QED BY <2>3, <3>2, Zenon DEF AllMarks
  <2>5. /\ Len(Only(file, Marks)) = transitions
        /\ \A i \in 1..Len(Only(file, Marks)) :
              Only(file, Marks)[i] = IF i % 2 = 1 THEN "on" ELSE "off"
    BY <2>0, <2>1, <2>4, Zenon DEF MarksInOrder, Turn
  <2>6. Len(Only(file, Monitors)) = completed
    <3>1. completed = Len(Only(file, Monitors)) + Len(Only(items, Monitors))
                        + buffered["kernel"] + buffered["comm"]
      BY <2>0, <2>1, Zenon DEF Counted
    <3>2. buffered["kernel"] = 0 /\ buffered["comm"] = 0
      BY <2>2, Zenon DEF Monitors
    <3>3. Len(Only(items, Monitors)) = 0 /\ Len(Only(file, Monitors)) \in Nat
      <4>1. Len(<< >>) = 0
        OBVIOUS
      <4> QED BY <2>0, <2>3, <4>1, OnlySeq, Zenon
    <3> QED BY <3>1, <3>2, <3>3, SMT
  <2>7. transitions % 2 = 0
    <3>1. ~At("mark")
      BY <2>1 DEF At
    <3> QED BY <2>0, <2>2, <3>1, Zenon DEF Parity, Odd
  <2> QED BY <2>2, <2>5, <2>6, <2>7
<1> QED BY <1>1, CaptureInvariant, PTL

-----------------------------------------------------------------------------
(* The capture is a log.                                                   *)

Offered == completed - (buffered["kernel"] + buffered["comm"]) + transitions
Accepted == file \o writer.held \o Only(items, Records)
Lost == dropped + errors.callback
EndedAs == IF writer.pc = "gone" THEN "closed"
           ELSE IF writer.pc = "dead" THEN "failed" ELSE "no"

LEMMA LogMoves ==
  /\ \A r \in Records : /\ Accepted' = Append(Accepted, r) /\ Len(file)' = Len(file)
                        /\ Lost' = Lost /\ EndedAs' = EndedAs /\ Offered' = Offered + 1
                        => Log!Next
  /\ /\ Accepted' = Accepted /\ Len(file)' = Len(file) /\ EndedAs' = EndedAs
     /\ Lost' = Lost + 1 /\ Offered' = Offered + 1
     => Log!Next
  /\ /\ Accepted' = Accepted /\ Lost' = Lost /\ EndedAs' = EndedAs /\ Offered' = Offered
     /\ EndedAs = "no" /\ Len(file) < Len(Accepted) /\ Len(file)' = Len(file) + 1
     => Log!Next
  /\ /\ Accepted' = Accepted /\ Len(file)' = Len(file) /\ Lost' = Lost
     /\ EndedAs = "no" /\ Offered' = Offered
     /\ \/ EndedAs' = "failed"
        \/ EndedAs' = "closed" /\ Len(file) = Len(Accepted)
     => Log!Next
  /\ /\ Accepted' = Accepted /\ Len(file)' = Len(file) /\ Lost' = Lost
     /\ EndedAs' = EndedAs /\ Offered' = Offered
     => UNCHANGED Log!vars
BY Zenon DEF Log!Next, Log!Accept, Log!Refuse, Log!Store, Log!Fail, Log!Close, Log!vars,
             Offered, Accepted, Lost, EndedAs

\* What leaves the monitors alone offers nothing.
LEMMA OfferedSame ==
  ASSUME UNCHANGED <<completed, buffered, transitions>>
  PROVE  Offered' = Offered
BY Zenon DEF Offered

LEMMA OfferedMore ==
  ASSUME TypeOK
  PROVE  /\ UNCHANGED device /\ transitions' = transitions + 1 => Offered' = Offered + 1
         /\ \A m \in Monitors : Deliver(m) => Offered' = Offered + 1
         /\ \A m \in Monitors : Complete(m) => Offered' = Offered
<1>1. /\ completed \in Nat /\ transitions \in Nat /\ buffered \in [Monitors -> Nat]
      /\ buffered["kernel"] \in Nat /\ buffered["comm"] \in Nat
  BY DEF TypeOK, Monitors
<1>2. ASSUME UNCHANGED device, transitions' = transitions + 1 PROVE Offered' = Offered + 1
  <2>1. completed' = completed /\ buffered' = buffered
    BY <1>2, Zenon
  <2> QED BY <1>1, <1>2, <2>1, SMT DEF Offered
<1>3. ASSUME NEW m \in Monitors, Deliver(m) PROVE Offered' = Offered + 1
  <2>1. /\ buffered' = [buffered EXCEPT ![m] = @ - 1]
        /\ UNCHANGED <<completed, transitions>>
    BY <1>3, Zenon DEF Deliver
  <2>2. buffered'["kernel"] + buffered'["comm"] = buffered["kernel"] + buffered["comm"] - 1
    BY <1>1, <2>1, SMT DEF Monitors
  <2> QED BY <1>1, <2>1, <2>2, SMT DEF Offered
<1>4. ASSUME NEW m \in Monitors, Complete(m) PROVE Offered' = Offered
  <2>1. /\ buffered' = [buffered EXCEPT ![m] = @ + 1] /\ completed' = completed + 1
        /\ UNCHANGED transitions
    BY <1>4, Zenon DEF Complete
  <2>2. buffered'["kernel"] + buffered'["comm"] = buffered["kernel"] + buffered["comm"] + 1
    BY <1>1, <2>1, SMT DEF Monitors
  <2> QED BY <1>1, <2>1, <2>2, SMT DEF Offered
<1> QED BY <1>2, <1>3, <1>4

LEMMA LogTypes ==
  ASSUME TypeOK
  PROVE  /\ file \in Seq(Records) /\ writer.held \in Seq(Records)
         /\ Only(items, Records) \in Seq(Records) /\ Accepted \in Seq(Records)
         /\ dropped \in Nat /\ errors.callback \in Nat
         /\ "tick" \notin Records /\ Records \subseteq Queued
<1>1. /\ file \in Seq(Records) /\ writer.held \in Seq(Records)
      /\ dropped \in Nat /\ errors.callback \in Nat
  BY DEF TypeOK
<1>2. Only(items, Records) \in Seq(Records)
  <2>1. items \in Seq(Queued)
    BY OnlySeq
  <2>2. Only(items, Records) \in Seq(Queued \cap Records)
    BY <2>1, OnlyType
  <2>3. Queued \cap Records \subseteq Records
    OBVIOUS
  <2> QED BY <2>2, <2>3, SeqMonotonic
<1>3. Accepted \in Seq(Records)
  <2>1. file \o writer.held \in Seq(Records)
    BY <1>1, ConcatProperties
  <2> QED BY <1>2, <2>1, ConcatProperties DEF Accepted
<1>4. "tick" \notin Records /\ Records \subseteq Queued
  BY Zenon DEF Records, Monitors, Marks, Queued
<1> QED BY <1>1, <1>2, <1>3, <1>4

\* A record put into the queue is accepted, or refused and counted.
LEMMA LogEnqueues ==
  ASSUME TypeOK, NEW r \in Queued, Enqueue(r), UNCHANGED <<file, writer>>,
         errors'.callback = errors.callback,
         r \in Records => Offered' = Offered + 1, r \notin Records => Offered' = Offered
  PROVE  [Log!Next]_(Log!vars)
<1> DEFINE only == Only(items, Records)
<1>1. /\ "tick" \notin Records /\ only \in Seq(Records) /\ file \o writer.held \in Seq(Records)
      /\ dropped \in Nat /\ errors.callback \in Nat
  BY LogTypes, ConcatProperties
<1>2. \/ /\ dropped' = dropped
         /\ only' = IF r \in Records THEN Append(only, r) ELSE only
      \/ r # "tick" /\ dropped' = dropped + 1 /\ UNCHANGED items
  BY <1>1, EnqueueOnly
<1>3. Len(file)' = Len(file) /\ EndedAs' = EndedAs
  BY Zenon DEF EndedAs
<1>4. CASE dropped' = dropped /\ r \in Records /\ only' = Append(only, r)
  <2>1. Accepted' = (file \o writer.held) \o Append(only, r)
    BY <1>4, Zenon DEF Accepted
  <2>2. Accepted = (file \o writer.held) \o only
    BY Zenon DEF Accepted
  <2> HIDE DEF only
  <2>3. Accepted' = Append(Accepted, r)
    <3> DEFINE p == file \o writer.held
    <3>1. p \in Seq(Records)
      BY <1>1
    <3> HIDE DEF p
    <3>2. p \o Append(only, r) = Append(p \o only, r)
      <4>1. Append(only, r) = only \o <<r>> /\ p \o only \in Seq(Records)
        BY <1>1, <1>4, <3>1, AppendIsConcat, ConcatProperties
      <4>2. Append(p \o only, r) = (p \o only) \o <<r>>
        BY <1>4, <4>1, AppendIsConcat
      <4>3. <<r>> \in Seq(Records)
        BY <1>4, SMT
      <4>4. (p \o only) \o <<r>> = p \o (only \o <<r>>)
        <5>1. p \in Seq(Records) /\ only \in Seq(Records)
          BY <1>1, <3>1
        <5> QED BY <4>3, <5>1, ConcatAssociative, SMTT(30)
      <4> QED BY <4>1, <4>2, <4>4
    <3> QED BY <2>1, <2>2, <3>2 DEF p
  <2>4. Lost' = Lost
    BY <1>4, Zenon DEF Lost
  <2> QED BY <1>3, <1>4, <2>3, <2>4, LogMoves, Zenon
<1>5. CASE dropped' = dropped /\ r \notin Records /\ only' = only
  <2>1. Accepted' = Accepted /\ Lost' = Lost
    BY <1>5, Zenon DEF Accepted, Lost
  <2>2. Offered' = Offered
    BY <1>5
  <2> QED BY <1>3, <2>1, <2>2, LogMoves, Zenon
<1>6. CASE r # "tick" /\ dropped' = dropped + 1 /\ UNCHANGED items
  <2>1. Accepted' = Accepted
    BY <1>6, Zenon DEF Accepted
  <2>2. Lost' = Lost + 1
    <3>1. Lost' = dropped + 1 + errors.callback
      BY <1>6, Zenon DEF Lost
    <3>2. dropped + 1 + errors.callback = dropped + errors.callback + 1
      <4>1. dropped \in Nat /\ errors.callback \in Nat
        BY <1>1
      <4> QED BY <4>1, SMT
    <3> QED BY <3>1, <3>2, Zenon DEF Lost
  <2>3. r \in Records
    BY <1>6, Zenon DEF Queued
  <2> QED BY <1>3, <2>1, <2>2, <2>3, LogMoves, Zenon
<1> QED BY <1>2, <1>4, <1>5, <1>6, Zenon

\* What the writer takes keeps its place in the log.
LEMMA LogTakes ==
  ASSUME TypeOK, ErrorInv, WriterAt("get"), items # << >>, items' = Tail(items)
  PROVE  /\ Stored(Head(items)) \in Seq(Records)
         /\ writer.held = << >>
         /\ Accepted = (file \o Stored(Head(items))) \o Only(items, Records)'
         /\ Only(items, Records)' \in Seq(Records)
<1> DEFINE h == Head(items)
<1> DEFINE d == Stored(h)
<1> DEFINE c == Only(items', Records)
<1>1. /\ items \in Seq(Queued) /\ items' \in Seq(Queued) /\ h \in Queued
      /\ d \in Seq(Records) /\ file \in Seq(Records) /\ "tick" \notin Records
  BY Takes, OnlySeq, LogTypes
<1>2. writer.held = << >>
  BY Zenon DEF ErrorInv, WriterAt
<1>3. c \in Seq(Records)
  <2>1. c \in Seq(Queued \cap Records)
    BY <1>1, OnlyType
  <2>2. Queued \cap Records \subseteq Records
    OBVIOUS
  <2> QED BY <2>1, <2>2, SeqMonotonic
<1>4. Only(items, Records) = (IF h \in Records THEN <<h>> ELSE << >>) \o c
  BY <1>1, OnlyTail
<1>5. d = IF h \in Records THEN <<h>> ELSE << >>
  BY <1>1, Zenon DEF Stored, Queued
<1>6. file \o writer.held = file
  BY <1>1, <1>2, ConcatEmptySeq
<1>7. Accepted = file \o Only(items, Records)
  BY <1>6, Zenon DEF Accepted
<1> HIDE DEF d, c, h
<1>8. file \o (d \o c) = (file \o d) \o c
  <2>1. file \in Seq(Records) /\ d \in Seq(Records) /\ c \in Seq(Records)
    BY <1>1, <1>3
  <2> QED BY <2>1, ConcatAssociative
<1>9. Accepted = (file \o d) \o c
  BY <1>4, <1>5, <1>7, <1>8, Zenon
<1>10. c = Only(items, Records)'
  BY DEF c
<1> QED BY <1>1, <1>2, <1>3, <1>9, <1>10, Zenon DEF d, h

LEMMA LogGet ==
  ASSUME TypeOK, ErrorInv, EndInv, Get
  PROVE  [Log!Next]_(Log!vars)
<1>1. WriterAt("get") /\ UNCHANGED <<writerFrame, due, synced>>
  BY Zenon DEF Get
<1>2. EndedAs = "no" /\ writer.held = << >>
  BY <1>1, Zenon DEF WriterAt, EndedAs, ErrorInv
<1>3. /\ file \in Seq(Records) /\ DiskType /\ ControlType /\ ~WriterAt("dead")
      /\ Offered' = Offered
  <2>1. UNCHANGED <<completed, buffered, transitions>>
    BY <1>1, Zenon
  <2> QED BY <1>1, <2>1, OfferedSame, LogTypes, TypeParts DEF WriterAt
<1>4. CASE items = << >>
  <2>1. /\ WriterGoto(IF writerDone THEN "gone" ELSE "check")
        /\ UNCHANGED <<items, file, errors>>
    BY <1>4, Zenon DEF Get
  <2>2. /\ (IF writerDone THEN "gone" ELSE "check") \in {"get", "check", "open", "gone"}
    BY Zenon
  <2>3. writer'.held = << >> /\ writer'.pc = IF writerDone THEN "gone" ELSE "check"
    BY <1>1, <1>3, <2>1, <2>2, WriterGoes, Zenon
  <2>4. Accepted' = Accepted /\ Lost' = Lost /\ Len(file)' = Len(file)
    BY <1>1, <1>2, <2>1, <2>3, Zenon DEF Accepted, Lost
  <2>5. Len(file) = Len(Accepted)
    <3>1. Only(items, Records) = << >>
      BY <1>4, OnlyEmpty, Zenon
    <3>2. file \o << >> = file
      BY <1>3, ConcatEmptySeq
    <3> QED BY <1>2, <3>1, <3>2, Zenon DEF Accepted
  <2>6. EndedAs' = EndedAs \/ EndedAs' = "closed"
    BY <1>2, <2>3, Zenon DEF EndedAs
  <2> QED BY <1>2, <1>3, <2>4, <2>5, <2>6, LogMoves, Zenon
<1>5. CASE items # << >>
  <2> DEFINE d == Stored(Head(items))
  <2> DEFINE c == Only(items, Records)'
  <2>1. /\ items' = Tail(items)
        /\ \/ file' = file \o d /\ WriterGoto("check") /\ UNCHANGED errors
           \/ Die(d) /\ UNCHANGED file
    BY <1>5, Zenon DEF Get
  <2>2. d \in Seq(Records) /\ c \in Seq(Records) /\ Accepted = (file \o d) \o c
    BY <1>1, <1>5, <2>1, LogTakes
  <2>3. CASE file' = file \o d /\ WriterGoto("check") /\ UNCHANGED errors
    <3>1. writer'.held = << >> /\ writer'.pc = "check"
      BY <1>1, <1>3, <2>3, WriterGoes, Zenon
    <3>2. Accepted' = Accepted
      <4>1. (file \o d) \o << >> = file \o d
        <5>1. file \o d \in Seq(Records)
          BY <1>3, <2>2, ConcatProperties
        <5> QED BY <5>1, ConcatEmptySeq
      <4> QED BY <2>2, <2>3, <3>1, <4>1, Zenon DEF Accepted
    <3>3. EndedAs' = EndedAs /\ Lost' = Lost
      BY <1>1, <1>2, <2>3, <3>1, Zenon DEF EndedAs, Lost
    <3>4. CASE Head(items) = "tick"
      <4>1. file' = file
        BY <1>3, <2>3, <3>4, ConcatEmptySeq DEF Stored
      <4> QED BY <1>3, <3>2, <3>3, <4>1, LogMoves, Zenon
    <3>5. CASE Head(items) # "tick"
      <4>1. Len(d) = 1
        BY <3>5 DEF Stored
      <4> HIDE DEF d, c
      <4>2. Len(file)' = Len(file) + 1 /\ Len(file) < Len(Accepted)
        <5>1. Len(file \o d) = Len(file) + Len(d) /\ file \o d \in Seq(Records)
          BY <1>3, <2>2, ConcatProperties
        <5>2. Len(Accepted) = Len(file \o d) + Len(c)
          BY <2>2, <5>1, ConcatProperties
        <5>3. Len(file) \in Nat /\ Len(c) \in Nat
          BY <1>3, <2>2, LenProperties
        <5>4. Len(file)' = Len(file \o d)
          BY <2>3, Zenon
        <5> QED BY <4>1, <5>1, <5>2, <5>3, <5>4, SMT
      <4> QED BY <1>2, <1>3, <3>2, <3>3, <4>2, LogMoves, Zenon
    <3> QED BY <3>4, <3>5
  <2>4. CASE Die(d) /\ UNCHANGED file
    <3>1. writer'.held = d /\ writer'.pc = "dead" /\ Error
      BY <1>1, <1>3, <2>2, <2>4, WriterDies, Zenon
    <3>2. Accepted' = Accepted /\ Len(file)' = Len(file)
      BY <2>2, <2>4, <3>1, Zenon DEF Accepted
    <3>3. EndedAs' = "failed"
      BY <3>1, Zenon DEF EndedAs
    <3>4. Lost' = Lost
      BY <1>1, <1>3, <3>1, ErrorStays, Zenon DEF Lost
    <3> QED BY <1>2, <1>3, <3>2, <3>3, <3>4, LogMoves, Zenon
  <2> QED BY <2>1, <2>3, <2>4
<1> QED BY <1>4, <1>5

\* The other steps of the writer: it goes on, or dies with nothing in its hands.
LEMMA LogWrites ==
  ASSUME TypeOK, ErrorInv, Open \/ Sync
  PROVE  [Log!Next]_(Log!vars)
<1>1. /\ UNCHANGED <<writerFrame, items, file>>
      /\ writer.pc \in {"open", "check"}
      /\ \/ WriterGoto("get") /\ UNCHANGED errors
         \/ Die(<< >>)
  BY Zenon DEF Open, Sync, WriterAt
<1>2. EndedAs = "no" /\ writer.held = << >> /\ ~WriterAt("dead")
  BY <1>1, Zenon DEF EndedAs, ErrorInv, WriterAt
<1>3. /\ DiskType /\ ControlType /\ << >> \in Seq(Records) /\ Offered' = Offered
  <2>1. UNCHANGED <<completed, buffered, transitions>>
    BY <1>1, Zenon
  <2> QED BY <2>1, OfferedSame, TypeParts, EmptySeq
<1>4. CASE WriterGoto("get") /\ UNCHANGED errors
  <2>1. writer'.held = << >> /\ writer'.pc = "get"
    BY <1>1, <1>2, <1>3, <1>4, WriterGoes, Zenon
  <2> QED BY <1>1, <1>2, <1>3, <1>4, <2>1, LogMoves, Zenon DEF Accepted, Lost, EndedAs
<1>5. CASE Die(<< >>)
  <2>1. writer'.held = << >> /\ writer'.pc = "dead" /\ Error
    BY <1>1, <1>2, <1>3, <1>5, WriterDies, Zenon
  <2>2. errors'.callback = errors.callback
    BY <1>3, <2>1, ErrorStays, Zenon
  <2>3. Accepted' = Accepted /\ Len(file)' = Len(file) /\ Lost' = Lost /\ EndedAs' = "failed"
    BY <1>1, <1>2, <2>1, <2>2, Zenon DEF Accepted, Lost, EndedAs
  <2> QED BY <1>2, <1>3, <2>3, LogMoves, Zenon
<1> QED BY <1>1, <1>4, <1>5

LEMMA LogNext == CaptureInv /\ [Next]_vars => [Log!Next]_(Log!vars)
<1> SUFFICES ASSUME CaptureInv, [Next]_vars
             PROVE  [Log!Next]_(Log!vars)
  OBVIOUS
<1>1. TypeOK /\ FlushInv /\ ErrorInv /\ EndInv /\ ControlType
  BY TypeParts, Zenon DEF CaptureInv
<1>2. ASSUME UNCHANGED <<file, items, dropped>>, writer'.pc = writer.pc,
             writer'.held = writer.held, errors'.callback = errors.callback,
             Offered' = Offered
      PROVE  [Log!Next]_(Log!vars)
  BY <1>2, LogMoves, Zenon DEF Accepted, Lost, EndedAs
<1>3. CASE FlushStep \/ FlushAll
  <2>1. UNCHANGED <<file, writer>> /\ errors'.callback = errors.callback
    BY <1>1, <1>3, FlushEffects, ErrorStays, Zenon
  <2>2. UNCHANGED device
    BY <1>1, <1>3, FlushEffects, Zenon
  <2>3. CASE transitions' = transitions + 1 /\ Enqueue(IF flush.enabled THEN "on" ELSE "off")
    <3>1. PICK r \in Marks : Enqueue(r)
      BY <2>3, Zenon DEF Marks
    <3>2. r \in Records /\ r \in Queued
      BY Zenon DEF Records, Queued
    <3>3. Offered' = Offered + 1
      BY <1>1, <2>2, <2>3, OfferedMore, Zenon
    <3> QED BY <1>1, <2>1, <3>1, <3>2, <3>3, LogEnqueues, Zenon
  <2>4. CASE UNCHANGED transitions /\ (UNCHANGED queue \/ Enqueue("tick"))
    <3>1. Offered' = Offered
      BY <2>2, <2>4, OfferedSame, Zenon
    <3>2. "tick" \in Queued /\ "tick" \notin Records
      BY Zenon DEF Queued, Records, Monitors, Marks
    <3> QED BY <1>1, <1>2, <2>1, <2>4, <3>1, <3>2, LogEnqueues, Zenon
  <2> QED BY <1>1, <1>3, <2>3, <2>4, SwitchSteps, Zenon
<1>4. CASE MainStep
  <2>1. UNCHANGED mainFrame /\ UNCHANGED items /\ Offered' = Offered
    <3>1. UNCHANGED mainFrame
      BY <1>4, Zenon DEF MainStep, Start, Stop, JoinFlush, JoinWriter
    <3>2. UNCHANGED <<completed, buffered, transitions, items>>
      BY <3>1, Zenon
    <3> QED BY <3>1, <3>2, OfferedSame, Zenon
  <2>2. CASE UNCHANGED writer
    BY <1>2, <2>1, <2>2, Zenon
  <2>3. CASE WriterAt("absent") /\ WriterGoto("open")
    <3>1. writer'.pc = "open" /\ writer'.held = writer.held /\ writer.pc = "absent"
      BY <1>1, <2>3, TypeParts, WriterGotoType, Zenon DEF WriterAt
    <3>2. EndedAs' = EndedAs
      BY <3>1, Zenon DEF EndedAs
    <3> QED BY <2>1, <3>1, <3>2, LogMoves, Zenon DEF Accepted, Lost
  <2> QED BY <1>1, <1>4, <2>2, <2>3, Zenon
          DEF MainStep, Start, Stop, JoinFlush, JoinWriter, EndInv
<1>5. CASE WriterStep
  BY <1>1, <1>5, LogGet, LogWrites, Zenon DEF WriterStep
<1>6. CASE Toggle \/ DeadlinePasses
  BY <1>2, <1>6, OfferedSame, Zenon DEF Toggle, DeadlinePasses
<1>9. ASSUME NEW m \in Monitors, Complete(m)
      PROVE  [Log!Next]_(Log!vars)
  BY <1>1, <1>2, <1>9, OfferedMore, Zenon DEF Complete
<1>7. ASSUME NEW m \in Monitors, Deliver(m)
      PROVE  [Log!Next]_(Log!vars)
  <2>1. UNCHANGED disk /\ Offered' = Offered + 1
    BY <1>1, <1>7, OfferedMore, Zenon DEF Deliver
  <2>2. CASE Enqueue(m) /\ UNCHANGED errors
    <3>1. m \in Queued /\ m \in Records
      BY Zenon DEF Queued, Records
    <3> QED BY <1>1, <2>1, <2>2, <3>1, LogEnqueues, Zenon
  <2>3. CASE errors' = [callback |-> errors.callback + 1, last |-> TRUE] /\ UNCHANGED queue
    <3>1. Accepted' = Accepted /\ EndedAs' = EndedAs /\ Len(file)' = Len(file)
      BY <2>1, <2>3, Zenon DEF Accepted, EndedAs
    <3>2. Lost' = Lost + 1
      <4>1. dropped \in Nat /\ errors.callback \in Nat
        BY <1>1, LogTypes
      <4>2. Lost' = dropped + (errors.callback + 1)
        BY <2>3, Zenon DEF Lost
      <4>3. dropped + (errors.callback + 1) = dropped + errors.callback + 1
        BY <4>1, SMT
      <4> QED BY <4>2, <4>3, Zenon DEF Lost
    <3> QED BY <2>1, <3>1, <3>2, LogMoves, Zenon
  <2> QED BY <1>7, <2>2, <2>3, Zenon DEF Deliver
<1>8. CASE UNCHANGED vars
  BY <1>2, <1>8, OfferedSame, Zenon DEF vars
<1> QED BY <1>3, <1>4, <1>5, <1>6, <1>7, <1>8, <1>9, Zenon DEF Next

\* The capture implements the log, for every size of the queue: every record the
\* monitors deliver and every mark of a transition is accepted or counted, what is accepted is stored in that order, and
\* the writer ends in good order only with all of it.
\* (_enqueue, _put_control and _write_loop.)
THEOREM CaptureImplementsLog == Spec => ImplementsLog
<1>1. Init => Log!Init
  <2> SUFFICES ASSUME Init PROVE Log!Init
    OBVIOUS
  <2>1. /\ file = << >> /\ writer.held = << >> /\ writer.pc = "absent"
        /\ dropped = 0 /\ errors.callback = 0 /\ completed = 0 /\ transitions = 0
        /\ buffered["kernel"] = 0 /\ buffered["comm"] = 0
    BY DEF Init, Monitors
  <2>2. Only(items, Records) = << >>
    BY OnlyEmpty, Zenon DEF Init
  <2> QED BY <2>1, <2>2, SMT DEF Log!Init
<1>2. CaptureInv /\ [Next]_vars => [Log!Next]_(Log!vars)
  BY LogNext
<1> QED BY <1>1, <1>2, CaptureInvariant, PTL DEF Spec, ImplementsLog, Log!Spec
=============================================================================
