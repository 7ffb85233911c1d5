--------------------------- MODULE MsptiRingProofs ---------------------------
(***************************************************************************)
(* Theorems about read_ring on the live file, for any number of threads    *)
(* and any capacity: every event it returns is the record of one call,     *)
(* complete, every record of the window is returned that no call could     *)
(* overwrite meanwhile, and the calls it reports open are those that are.  *)
(* What the writers do is proved in FlightRingProofs; here they run        *)
(* against this reader.                                                    *)
(***************************************************************************)
EXTENDS MsptiRing, FlightRingProofs, SequenceTheorems, WellFoundedInduction

-----------------------------------------------------------------------------
(* The writers and the reader apart.                                       *)

ReadRecord == [pc : {"idle", "before", "copy", "done"}, hdr : 0..MaxSeq, q : Nat,
               left : SUBSET Fields, copy : Cell, events : SUBSET Cell]

ReadStep ==
    Begin \/ Before \/ (\E f \in Fields : Copy(f)) \/ After \/ End \/ ReadAgain

WriterInv == TypeOK /\ Claimed /\ RetainInv

\* A seq found in a slot is that of a call that has published its record there.
Published ==
    \A i \in Slots : mem[i]["seq"] # 0 =>
       /\ mem[i]["seq"] =< writeSeq
       /\ \A t \in Writers : ~(InFlight(t) /\ w[t].seq = mem[i]["seq"])

\* A call that has cleared its slot finds no seq there but that of a raced call.
ClearedStays ==
    \A t \in Writers : InFlight(t) /\ "seq" \notin w[t].todo =>
       mem[SlotOf(w[t].seq)]["seq"] \in raced \cup {0}

\* So a seq found in a slot vouches for the slot's other fields.
SeqVouches ==
    InOrder => \A i \in Slots : mem[i]["seq"] \notin raced \cup {0} =>
                  \A f \in Fields : mem[i][f] = mem[i]["seq"]

\* The reader copies a record that has been published, and what it has copied is of
\* that record as long as the slot still shows its seq.
CopyVouched ==
    rr.pc = "copy" =>
       /\ rr.q \in 1..writeSeq
       /\ \A t \in Writers : ~(InFlight(t) /\ w[t].seq = rr.q)
       /\ InOrder /\ rr.q \notin raced /\ mem[SlotOf(rr.q)]["seq"] = rr.q =>
             \A f \in Fields \ rr.left : rr.copy[f] = rr.q

\* What no call can write is where it was when the header was read.
TouchedInv ==
    rr.pc # "idle" =>
       /\ \A t \in Writers : InFlight(t) => SlotOf(w[t].seq) \in touched
       /\ rr.hdr =< writeSeq
       /\ \A q \in 1..writeSeq : q > rr.hdr => SlotOf(q) \in touched

\* The records the reader has passed are among its events, if they are to be.
Quiet(q) == q \in Window(rr.hdr) \ raced /\ SlotOf(q) \notin touched
Passed ==
    rr.pc # "idle" =>
       /\ rr.q >= Oldest(rr.hdr)
       /\ rr.pc = "copy" => rr.q =< rr.hdr
       /\ rr.pc = "done" => rr.q > rr.hdr
       /\ rr.pc = "copy" /\ Quiet(rr.q) => \A f \in Fields \ rr.left : rr.copy[f] = rr.q
       /\ \A q \in Nat : Quiet(q) /\ q < rr.q => \E c \in rr.events : Intact(c, q)

ReadInv ==
    /\ rr \in ReadRecord /\ WriterInv
    /\ Published /\ ClearedStays /\ SeqVouches
    /\ CopyVouched /\ ReadIsIntact
    /\ TouchedInv /\ Passed

-----------------------------------------------------------------------------
(* What the writers do.                                                    *)

LEMMA StoreDoes ==
  ASSUME WriterInv, NEW t \in Writers, NEW f \in Fields, Store(t, f)
  PROVE  LET i == SlotOf(w[t].seq) IN
         /\ InFlight(t) /\ i \in Slots /\ w[t].seq \in 1..writeSeq
         /\ InOrder /\ f # "seq" => "seq" \notin w[t].todo
         /\ \A u \in Writers : /\ w'[u].seq = w[u].seq /\ (InFlight(u)' <=> InFlight(u))
                               /\ u # t => w'[u] = w[u]
         /\ w'[t].todo = w[t].todo \ {f}
         /\ mem'[i][f] = IF f = "seq" THEN 0 ELSE w[t].seq
         /\ \A j \in Slots, g \in Fields : <<j, g>> # <<i, f>> => mem'[j][g] = mem[j][g]
         /\ UNCHANGED <<writeSeq, raced, touched, rd>>
<1> DEFINE i == SlotOf(w[t].seq)
           v == IF f = "seq" THEN 0 ELSE w[t].seq
<1>0. w \in [Writers -> WriterRecord] /\ mem \in [Slots -> Cell] /\ writeSeq \in 0..MaxSeq
  BY DEF WriterInv, TypeOK
<1>1. InFlight(t) /\ w[t].seq \in 1..writeSeq
  BY <1>0 DEF Store, InFlight, WriterInv, Claimed
<1>2. i \in Slots
  BY <1>0, <1>1, SlotOfIsSlot
<1>3. v \in 0..MaxSeq /\ mem' = [mem EXCEPT ![i][f] = v]
  BY <1>0, <1>1, Sizes DEF Store
<1>4. /\ \A u \in Writers : /\ w'[u].seq = w[u].seq /\ (InFlight(u)' <=> InFlight(u))
                            /\ u # t => w'[u] = w[u]
      /\ w'[t].todo = w[t].todo \ {f}
  BY <1>0 DEF Store, InFlight, WriterRecord
<1>5. /\ mem'[i][f] = v
      /\ \A j \in Slots, g \in Fields : <<j, g>> # <<i, f>> => mem'[j][g] = mem[j][g]
  <2> HIDE DEF i, v
  <2> QED BY <1>0, <1>2, <1>3, StoreType
<1> QED BY <1>1, <1>2, <1>4, <1>5 DEF Store

LEMMA PublishDoes ==
  ASSUME WriterInv, NEW t \in Writers, Publish(t)
  PROVE  LET i == SlotOf(w[t].seq) IN
         /\ InFlight(t) /\ ~InFlight(t)' /\ w[t].todo = {}
         /\ i \in Slots /\ w[t].seq \in 1..writeSeq
         /\ \A u \in Writers : u # t => w'[u] = w[u] /\ (InFlight(u)' <=> InFlight(u))
         /\ mem'[i]["seq"] = w[t].seq
         /\ \A j \in Slots, g \in Fields : <<j, g>> # <<i, "seq">> => mem'[j][g] = mem[j][g]
         /\ UNCHANGED <<writeSeq, raced, touched, rd>>
<1> DEFINE i == SlotOf(w[t].seq)
<1>0. w \in [Writers -> WriterRecord] /\ mem \in [Slots -> Cell] /\ writeSeq \in 0..MaxSeq
  BY DEF WriterInv, TypeOK
<1>1. InFlight(t) /\ w[t].seq \in 1..writeSeq
  BY <1>0 DEF Publish, InFlight, WriterInv, Claimed
<1>2. i \in Slots /\ "seq" \in Fields /\ w[t].seq \in 0..MaxSeq
  BY <1>0, <1>1, SlotOfIsSlot, Sizes DEF Fields
<1>3. mem' = [mem EXCEPT ![i]["seq"] = w[t].seq]
  BY DEF Publish
<1>4. /\ \A u \in Writers : u # t => w'[u] = w[u] /\ (InFlight(u)' <=> InFlight(u))
      /\ ~InFlight(t)' /\ w[t].todo = {}
  BY <1>0 DEF Publish, InFlight, WriterRecord
<1>5. /\ mem'[i]["seq"] = w[t].seq
      /\ \A j \in Slots, g \in Fields : <<j, g>> # <<i, "seq">> => mem'[j][g] = mem[j][g]
  <2> HIDE DEF i
  <2> QED BY <1>0, <1>2, <1>3, StoreType
<1> QED BY <1>1, <1>2, <1>4, <1>5 DEF Publish

LEMMA ClaimDoes ==
  ASSUME WriterInv, NEW t \in Writers, Claim(t)
  PROVE  /\ writeSeq \in Nat /\ writeSeq' = writeSeq + 1
         /\ w'[t].seq = writeSeq + 1 /\ w'[t].todo = Fields /\ InFlight(t)'
         /\ \A u \in Writers : u # t => w'[u] = w[u] /\ (InFlight(u)' <=> InFlight(u))
         /\ raced \subseteq raced' /\ touched' = touched \cup {SlotOf(writeSeq + 1)}
         /\ UNCHANGED <<mem, rd>>
<1>0. w \in [Writers -> WriterRecord] /\ writeSeq \in Nat
  BY Sizes DEF WriterInv, TypeOK
<1> QED BY <1>0 DEF Claim, InFlight

\* Steps that store nothing and start no call.
StaysQuiet ==
    /\ UNCHANGED <<mem, writeSeq, raced, touched>>
    /\ \A u \in Writers : (InFlight(u)' <=> InFlight(u)) /\ (InFlight(u) => w'[u] = w[u])

LEMMA ReturnDoes ==
  ASSUME WriterInv, NEW t \in Writers, Return(t)
  PROVE  StaysQuiet /\ TypeOK' /\ Claimed'
<1>0. w \in [Writers -> WriterRecord]
  BY DEF WriterInv, TypeOK
<1>1. StaysQuiet
  BY <1>0 DEF Return, StaysQuiet, InFlight, WriterRecord
<1>2. [w[t] EXCEPT !.pc = "idle"] \in WriterRecord
  BY <1>0 DEF WriterRecord
<1>3. w' \in [Writers -> WriterRecord]
  BY <1>0, <1>2 DEF Return
<1>4. TypeOK'
  BY <1>3 DEF WriterInv, TypeOK, Return
<1>5. Claimed'
  BY <1>0, ClaimsKept DEF WriterInv, Return, InFlight, WriterRecord
<1> QED BY <1>1, <1>4, <1>5

\* A step of the ring is one of these.
LEMMA RingSteps ==
  ASSUME [RingNext]_ringVars
  PROVE  \/ rr' = rr /\ \/ \E t \in Writers : \/ Claim(t) \/ Publish(t) \/ Return(t)
                                              \/ \E f \in Fields : Store(t, f)
                        \/ Crash
         \/ ReadStep
         \/ UNCHANGED <<vars, rr>>
BY DEF RingNext, RecordStep, Callback, Unrecorded, Kill, ReadStep, ringVars

LEMMA ReadTouches ==
  ASSUME ReadStep
  PROVE  UNCHANGED <<writeSeq, lastNs, mem, w, crashed, rd, raced>>
         /\ (touched' = touched \/ touched' = {i \in Slots : WritersOf(i) # {}} \/ touched' = {})
BY DEF ReadStep, readFrame, Begin, Before, Copy, After, End, ReadAgain

LEMMA WriterInvNext == WriterInv /\ [RingNext]_ringVars => WriterInv'
<1> SUFFICES ASSUME WriterInv, [RingNext]_ringVars PROVE WriterInv'
  OBVIOUS
<1>1. ASSUME NEW t \in Writers, Claim(t) \/ Publish(t) \/ \E f \in Fields : Store(t, f)
      PROVE  WriterInv'
  <2>1. Next
    BY <1>1 DEF Next, WriterNext
  <2> QED BY <2>1, TypeNext, ClaimedNext, RetainNext DEF WriterInv
<1>2. CASE Crash
  <2>1. Next
    BY <1>2 DEF Next, WriterNext
  <2> QED BY <2>1, TypeNext, ClaimedNext, RetainNext DEF WriterInv
<1>3. ASSUME NEW t \in Writers, Return(t) PROVE WriterInv'
  BY <1>3, ReturnDoes, RetainQuiet DEF WriterInv, StaysQuiet
<1>4. CASE ReadStep \/ UNCHANGED <<vars, rr>>
  <2>1. UNCHANGED <<writeSeq, lastNs, mem, w, crashed, rd, raced>>
        /\ (touched \subseteq Slots => touched' \subseteq Slots)
    BY <1>4, ReadTouches DEF vars
  <2>2. TypeOK'
    BY <2>1 DEF WriterInv, TypeOK
  <2>3. Claimed'
    BY <2>1 DEF WriterInv, Claimed, InFlight
  <2>4. RetainInv'
    BY <2>1, RetainQuiet DEF WriterInv, InFlight
  <2> QED BY <2>2, <2>3, <2>4 DEF WriterInv
<1> QED BY <1>1, <1>2, <1>3, <1>4, RingSteps

-----------------------------------------------------------------------------
(* What a seq in a slot says, whoever reads it.                            *)

SlotInv == Published /\ ClearedStays /\ SeqVouches

LEMMA SlotNext == WriterInv /\ SlotInv /\ [RingNext]_ringVars => SlotInv'
<1> SUFFICES ASSUME WriterInv, SlotInv, [RingNext]_ringVars PROVE SlotInv'
  OBVIOUS
<1>0. /\ writeSeq \in Nat /\ "seq" \in Fields
      /\ \A i \in Slots, f \in Fields : mem[i][f] \in Nat
      /\ \A u \in Writers : InFlight(u) => SlotOf(w[u].seq) \in Slots /\ w[u].seq \in 1..writeSeq
  <2>1. writeSeq \in Nat /\ \A i \in Slots, f \in Fields : mem[i][f] \in Nat
    BY Sizes DEF WriterInv, TypeOK, Cell
  <2>2. \A u \in Writers : InFlight(u) => w[u].seq \in 1..writeSeq
    BY DEF WriterInv, Claimed, InFlight
  <2> QED BY <2>1, <2>2, SlotOfIsSlot DEF Fields
<1>1. ASSUME NEW t \in Writers, Claim(t) PROVE SlotInv'
  <2>1. Published'
    BY <1>0, <1>1, ClaimDoes DEF SlotInv, Published
  <2>2. ClearedStays'
    BY <1>0, <1>1, ClaimDoes DEF SlotInv, ClearedStays, SlotOf
  <2>3. SeqVouches'
    BY <1>1, ClaimDoes DEF SlotInv, SeqVouches
  <2> QED BY <2>1, <2>2, <2>3 DEF SlotInv
<1>2. ASSUME NEW t \in Writers, NEW f \in Fields, Store(t, f) PROVE SlotInv'
  <2> DEFINE i == SlotOf(w[t].seq)
  <2>0. /\ InFlight(t) /\ i \in Slots
        /\ InOrder /\ f # "seq" => "seq" \notin w[t].todo
        /\ \A u \in Writers : /\ w'[u].seq = w[u].seq /\ (InFlight(u)' <=> InFlight(u))
                              /\ u # t => w'[u] = w[u]
        /\ w'[t].todo = w[t].todo \ {f}
        /\ mem'[i][f] = IF f = "seq" THEN 0 ELSE w[t].seq
        /\ \A j \in Slots, g \in Fields : <<j, g>> # <<i, f>> => mem'[j][g] = mem[j][g]
        /\ writeSeq' = writeSeq /\ raced' = raced
    BY <1>2, StoreDoes
  <2> HIDE DEF i
  <2>1. \A j \in Slots : mem'[j]["seq"] = mem[j]["seq"] \/ mem'[j]["seq"] = 0
    BY <1>0, <2>0
  <2>2. Published'
    BY <2>0, <2>1 DEF SlotInv, Published
  <2>3. ASSUME NEW u \in Writers, InFlight(u)', "seq" \notin w'[u].todo
        PROVE  mem'[SlotOf(w'[u].seq)]["seq"] \in raced' \cup {0}
    <3>1. SlotOf(w[u].seq) \in Slots /\ SlotOf(w'[u].seq) = SlotOf(w[u].seq) /\ InFlight(u)
      BY <1>0, <2>0, <2>3
    <3>2. CASE u = t /\ f = "seq"
      BY <2>0, <3>1, <3>2 DEF i
    <3>3. CASE ~(u = t /\ f = "seq")
      <4>1. "seq" \notin w[u].todo
        BY <2>0, <2>3, <3>3
      <4>2. mem[SlotOf(w[u].seq)]["seq"] \in raced \cup {0}
        BY <3>1, <4>1 DEF SlotInv, ClearedStays
      <4>3. mem'[SlotOf(w[u].seq)]["seq"] \in raced \cup {0}
        BY <2>1, <3>1, <4>2
      <4> QED BY <2>0, <3>1, <4>3
    <3> QED BY <3>2, <3>3
  <2>4. SeqVouches'
    <3> SUFFICES ASSUME InOrder, NEW j \in Slots, mem'[j]["seq"] \notin raced' \cup {0},
                        NEW g \in Fields
                 PROVE  mem'[j][g] = mem'[j]["seq"]
      BY DEF SeqVouches
    <3>1. mem'[j]["seq"] = mem[j]["seq"]
      BY <2>1
    <3>2. j # i
      <4>1. CASE f = "seq"
        BY <2>0, <4>1
      <4>2. CASE f # "seq"
        <5>1. mem[i]["seq"] \in raced \cup {0}
          BY <2>0, <4>2 DEF SlotInv, ClearedStays, i
        <5> QED BY <2>0, <3>1, <5>1
      <4> QED BY <4>1, <4>2
    <3>3. mem[j][g] = mem[j]["seq"]
      BY <2>0, <3>1 DEF SlotInv, SeqVouches
    <3> QED BY <2>0, <3>1, <3>2, <3>3
  <2> QED BY <2>2, <2>3, <2>4 DEF SlotInv, ClearedStays, SlotOf
<1>3. ASSUME NEW t \in Writers, Publish(t) PROVE SlotInv'
  <2> DEFINE i == SlotOf(w[t].seq)
  <2>0. /\ InFlight(t) /\ ~InFlight(t)' /\ w[t].todo = {} /\ i \in Slots
        /\ w[t].seq \in 1..writeSeq
        /\ \A u \in Writers : u # t => w'[u] = w[u] /\ (InFlight(u)' <=> InFlight(u))
        /\ mem'[i]["seq"] = w[t].seq
        /\ \A j \in Slots, g \in Fields : <<j, g>> # <<i, "seq">> => mem'[j][g] = mem[j][g]
        /\ writeSeq' = writeSeq /\ raced' = raced
    BY <1>3, PublishDoes
  <2> HIDE DEF i
  <2>1. \A j \in Slots : j # i => mem'[j]["seq"] = mem[j]["seq"]
    BY <1>0, <2>0
  <2>2. ASSUME NEW j \in Slots, mem'[j]["seq"] # 0
        PROVE  /\ mem'[j]["seq"] =< writeSeq'
               /\ \A u \in Writers : ~(InFlight(u)' /\ w'[u].seq = mem'[j]["seq"])
    <3>1. CASE j = i
      BY <1>0, <2>0, <3>1 DEF WriterInv, Claimed
    <3>2. CASE j # i
      BY <2>0, <2>1, <2>2, <3>2 DEF SlotInv, Published
    <3> QED BY <3>1, <3>2
  <2>3. ASSUME NEW u \in Writers, InFlight(u)', "seq" \notin w'[u].todo
        PROVE  mem'[SlotOf(w'[u].seq)]["seq"] \in raced' \cup {0}
    <3>1. u # t /\ w'[u] = w[u] /\ InFlight(u) /\ SlotOf(w[u].seq) \in Slots
      BY <1>0, <2>0, <2>3
    <3>2. CASE SlotOf(w[u].seq) = i
      <4>1. w[t].seq \in raced
        BY <2>0, <3>1, <3>2 DEF WriterInv, RetainInv, MeetingsAreRaced, i
      <4> QED BY <2>0, <3>1, <3>2, <4>1
    <3>3. CASE SlotOf(w[u].seq) # i
      <4>1. mem[SlotOf(w[u].seq)]["seq"] \in raced \cup {0}
        BY <2>3, <3>1 DEF SlotInv, ClearedStays
      <4> QED BY <2>0, <2>1, <3>1, <3>3, <4>1
    <3> QED BY <3>2, <3>3
  <2>4. SeqVouches'
    <3> SUFFICES ASSUME InOrder, NEW j \in Slots, mem'[j]["seq"] \notin raced' \cup {0},
                        NEW g \in Fields
                 PROVE  mem'[j][g] = mem'[j]["seq"]
      BY DEF SeqVouches
    <3>1. CASE j = i
      <4>1. \A h \in {"head", "body"} : mem[i][h] = w[t].seq
        BY <2>0, <3>1 DEF WriterInv, RetainInv, StoresStay, i
      <4> QED BY <2>0, <3>1, <4>1 DEF Fields
    <3>2. CASE j # i
      <4>1. mem[j][g] = mem[j]["seq"]
        BY <2>0, <2>1, <3>2 DEF SlotInv, SeqVouches
      <4> QED BY <2>0, <2>1, <3>2, <4>1
    <3> QED BY <3>1, <3>2
  <2> QED BY <2>2, <2>3, <2>4 DEF SlotInv, Published, ClearedStays, SlotOf
<1>4. ASSUME UNCHANGED <<mem, writeSeq, raced>>,
             \A u \in Writers : (InFlight(u)' <=> InFlight(u)) /\ (InFlight(u) => w'[u] = w[u])
      PROVE  SlotInv'
  BY <1>4 DEF SlotInv, Published, ClearedStays, SeqVouches, SlotOf
<1>5. ASSUME NEW t \in Writers, Return(t) PROVE SlotInv'
  BY <1>4, <1>5, ReturnDoes DEF StaysQuiet
<1>6. CASE Crash \/ ReadStep \/ UNCHANGED <<vars, rr>>
  <2>1. UNCHANGED <<mem, writeSeq, raced, w>>
    BY <1>6, ReadTouches DEF Crash, vars
  <2> QED BY <1>4, <2>1 DEF InFlight
<1> QED BY <1>1, <1>2, <1>3, <1>5, <1>6, RingSteps

-----------------------------------------------------------------------------
(* What the reader does.                                                   *)

LEMMA IdleReads == IdleRead \in ReadRecord
BY EmptyTypes, Sizes DEF IdleRead, ReadRecord, Fields

LEMMA OldestIs ==
  ASSUME NEW n \in Nat
  PROVE  /\ Oldest(n) \in Nat \ {0}
         /\ \A q \in Nat : q \in Window(n) <=> q >= Oldest(n) /\ q =< n
BY Sizes DEF Oldest, Window

LEMMA BeginDoes ==
  ASSUME WriterInv, Begin
  PROVE  /\ rr'.pc = "before" /\ rr'.hdr = writeSeq /\ rr'.q = Oldest(writeSeq)
         /\ rr'.events = {} /\ rr' \in ReadRecord
         /\ touched' = {i \in Slots : WritersOf(i) # {}}
<1>1. writeSeq \in 0..MaxSeq /\ Oldest(writeSeq) \in Nat
  BY OldestIs, Sizes DEF WriterInv, TypeOK
<1>2. rr' = [IdleRead EXCEPT !.pc = "before", !.hdr = writeSeq, !.q = Oldest(writeSeq)]
  BY DEF Begin
<1>3. rr' \in ReadRecord
  BY <1>1, <1>2, IdleReads DEF ReadRecord
<1>4. rr'.pc = "before" /\ rr'.hdr = writeSeq /\ rr'.q = Oldest(writeSeq) /\ rr'.events = {}
  BY <1>2 DEF IdleRead
<1> QED BY <1>3, <1>4 DEF Begin

LEMMA BeforeDoes ==
  ASSUME rr \in ReadRecord, Before
  PROVE  /\ rr.pc = "before" /\ rr.q =< rr.hdr
         /\ rr'.hdr = rr.hdr /\ rr'.events = rr.events /\ rr' \in ReadRecord
         /\ IF mem[SlotOf(rr.q)]["seq"] = rr.q
            THEN rr'.pc = "copy" /\ rr'.left = Fields /\ rr'.q = rr.q
            ELSE rr'.pc = "before" /\ rr'.q = rr.q + 1
         /\ touched' = touched
<1>1. CASE mem[SlotOf(rr.q)]["seq"] = rr.q
  <2>1. rr' = [rr EXCEPT !.pc = "copy", !.left = Fields]
    BY <1>1 DEF Before
  <2> QED BY <1>1, <2>1 DEF Before, ReadRecord
<1>2. CASE mem[SlotOf(rr.q)]["seq"] # rr.q
  <2>1. rr' = [rr EXCEPT !.pc = "before", !.q = rr.q + 1, !.copy = Empty]
    BY <1>2 DEF Before, NextSeq, ReadRecord
  <2>2. rr.q \in Nat /\ rr.q + 1 \in Nat /\ Empty \in Cell
    BY EmptyTypes DEF ReadRecord
  <2>3. rr'.pc = "before" /\ rr'.q = rr.q + 1 /\ rr'.hdr = rr.hdr /\ rr'.events = rr.events
    BY <2>1 DEF ReadRecord
  <2>4. rr' \in ReadRecord
    BY <2>1, <2>2 DEF ReadRecord
  <2> QED BY <1>2, <2>3, <2>4 DEF Before
<1> QED BY <1>1, <1>2

LEMMA CopyDoes ==
  ASSUME WriterInv, rr \in ReadRecord, SlotOf(rr.q) \in Slots, NEW f \in Fields, Copy(f)
  PROVE  /\ rr.pc = "copy" /\ f \in rr.left /\ rr'.pc = "copy" /\ rr'.left = rr.left \ {f}
         /\ rr'.hdr = rr.hdr /\ rr'.q = rr.q /\ rr'.events = rr.events
         /\ rr'.copy[f] = mem[SlotOf(rr.q)][f]
         /\ \A g \in Fields : g # f => rr'.copy[g] = rr.copy[g]
         /\ rr' \in ReadRecord /\ touched' = touched
<1> DEFINE v == mem[SlotOf(rr.q)][f]
<1>1. v \in 0..MaxSeq /\ rr.copy \in Cell
  BY DEF WriterInv, TypeOK, Cell, ReadRecord
<1>2. rr' = [rr EXCEPT !.copy = [rr.copy EXCEPT ![f] = v], !.left = rr.left \ {f}]
  BY DEF Copy, ReadRecord
<1>3. [rr.copy EXCEPT ![f] = v] \in Cell
  BY <1>1 DEF Cell
<1>4. \A g \in Fields : [rr.copy EXCEPT ![f] = v][g] = IF g = f THEN v ELSE rr.copy[g]
  BY <1>1 DEF Cell
<1> DEFINE c == [rr.copy EXCEPT ![f] = v]
<1> HIDE DEF c
<1>5. rr' = [rr EXCEPT !.copy = c, !.left = rr.left \ {f}] /\ c \in Cell
      /\ \A g \in Fields : c[g] = IF g = f THEN v ELSE rr.copy[g]
  BY <1>2, <1>3, <1>4 DEF c
<1>6. rr'.copy = c /\ rr'.left = rr.left \ {f} /\ rr'.hdr = rr.hdr /\ rr'.q = rr.q
      /\ rr'.events = rr.events /\ rr'.pc = rr.pc /\ rr' \in ReadRecord
  BY <1>5 DEF ReadRecord
<1> QED BY <1>5, <1>6 DEF Copy

LEMMA AfterDoes ==
  ASSUME rr \in ReadRecord, After
  PROVE  /\ rr.pc = "copy" /\ rr.left = {}
         /\ rr'.pc = "before" /\ rr'.hdr = rr.hdr /\ rr'.q = rr.q + 1
         /\ IF rr.copy["seq"] = rr.q /\ mem[SlotOf(rr.q)]["seq"] = rr.q
            THEN rr'.events = rr.events \cup {rr.copy} ELSE rr'.events = rr.events
         /\ rr' \in ReadRecord /\ touched' = touched
<1>1. ASSUME NEW E \in {rr.events, rr.events \cup {rr.copy}},
             rr' = [rr EXCEPT !.pc = "before", !.q = rr.q + 1, !.copy = Empty, !.events = E]
      PROVE  /\ rr'.pc = "before" /\ rr'.hdr = rr.hdr /\ rr'.q = rr.q + 1
             /\ rr'.events = E /\ rr' \in ReadRecord
  <2>1. E \in SUBSET Cell /\ rr.q + 1 \in Nat /\ Empty \in Cell
    BY EmptyTypes DEF ReadRecord
  <2>2. rr'.pc = "before" /\ rr'.hdr = rr.hdr /\ rr'.q = rr.q + 1 /\ rr'.events = E
    BY <1>1 DEF ReadRecord
  <2>3. rr' \in ReadRecord
    BY <1>1, <2>1 DEF ReadRecord
  <2> QED BY <2>2, <2>3
<1>2. CASE rr.copy["seq"] = rr.q /\ mem[SlotOf(rr.q)]["seq"] = rr.q
  <2>1. rr' = [rr EXCEPT !.pc = "before", !.q = rr.q + 1, !.copy = Empty,
                         !.events = rr.events \cup {rr.copy}]
    BY <1>2 DEF After, NextSeq, ReadRecord
  <2> QED BY <1>1, <1>2, <2>1 DEF After
<1>3. CASE ~(rr.copy["seq"] = rr.q /\ mem[SlotOf(rr.q)]["seq"] = rr.q)
  <2>1. rr' = [rr EXCEPT !.pc = "before", !.q = rr.q + 1, !.copy = Empty,
                         !.events = rr.events]
    BY <1>3 DEF After, NextSeq, ReadRecord
  <2> QED BY <1>1, <1>3, <2>1 DEF After
<1> QED BY <1>2, <1>3

LEMMA EndDoes ==
  ASSUME rr \in ReadRecord, End
  PROVE  /\ rr.pc = "before" /\ rr.q > rr.hdr /\ rr'.pc = "done"
         /\ rr'.hdr = rr.hdr /\ rr'.q = rr.q /\ rr'.events = rr.events
         /\ rr' \in ReadRecord /\ touched' = touched
BY DEF End, ReadRecord

\* The reader's seq is one of the window, in whose slot it looks.
LEMMA ReaderSlot ==
  ASSUME WriterInv, rr \in ReadRecord, TouchedInv, Passed, rr.pc # "idle"
  PROVE  rr.q \in Nat \ {0} /\ rr.hdr \in Nat /\ SlotOf(rr.q) \in Slots
         /\ (rr.q =< rr.hdr => rr.q \in Window(rr.hdr))
<1>1. rr.q \in Nat /\ rr.hdr \in Nat /\ rr.q >= Oldest(rr.hdr)
  BY Sizes DEF ReadRecord, Passed
<1> QED BY <1>1, OldestIs, SlotOfIsSlot

LEMMA ReadRecordNext ==
  WriterInv /\ rr \in ReadRecord /\ TouchedInv /\ Passed /\ [RingNext]_ringVars
     => rr' \in ReadRecord
<1> SUFFICES ASSUME WriterInv, rr \in ReadRecord, TouchedInv, Passed, [RingNext]_ringVars
             PROVE  rr' \in ReadRecord
  OBVIOUS
<1>1. CASE rr' = rr
  BY <1>1
<1>2. ASSUME NEW f \in Fields, Copy(f) PROVE rr' \in ReadRecord
  <2>1. rr.pc # "idle"
    BY <1>2 DEF Copy
  <2> QED BY <1>2, <2>1, ReaderSlot, CopyDoes
<1>3. CASE ReadAgain
  BY <1>3, IdleReads DEF ReadAgain
<1> QED BY <1>1, <1>2, <1>3, RingSteps, BeginDoes, BeforeDoes, AfterDoes, EndDoes DEF ReadStep

-----------------------------------------------------------------------------
(* The slots that no call writes.                                          *)

LEMMA TouchedNext ==
  WriterInv /\ rr \in ReadRecord /\ TouchedInv /\ Passed /\ [RingNext]_ringVars => TouchedInv'
<1> SUFFICES ASSUME WriterInv, rr \in ReadRecord, TouchedInv, Passed, [RingNext]_ringVars
             PROVE  TouchedInv'
  OBVIOUS
<1>0. writeSeq \in Nat /\ rr.hdr \in Nat
  BY Sizes DEF WriterInv, TypeOK, ReadRecord
<1>1. ASSUME NEW t \in Writers, Claim(t), rr' = rr PROVE TouchedInv'
  <2>1. rr.pc # "idle" => \A u \in Writers : InFlight(u)' => SlotOf(w'[u].seq) \in touched'
    BY <1>1, ClaimDoes DEF TouchedInv
  <2>2. rr.pc # "idle" => rr.hdr =< writeSeq' /\
           \A q \in 1..writeSeq' : q > rr.hdr => SlotOf(q) \in touched'
    BY <1>0, <1>1, ClaimDoes DEF TouchedInv
  <2> QED BY <1>1, <2>1, <2>2 DEF TouchedInv, SlotOf
<1>2. ASSUME rr'.hdr = rr.hdr, rr'.pc # "idle" => rr.pc # "idle", touched' = touched,
             writeSeq' = writeSeq,
             \A u \in Writers : InFlight(u)' => InFlight(u) /\ w'[u].seq = w[u].seq
      PROVE  TouchedInv'
  BY <1>2 DEF TouchedInv, SlotOf
<1>3. ASSUME NEW t \in Writers, NEW f \in Fields, Store(t, f), rr' = rr PROVE TouchedInv'
  BY <1>2, <1>3, StoreDoes
<1>4. ASSUME NEW t \in Writers, Publish(t), rr' = rr PROVE TouchedInv'
  <2>1. \A u \in Writers : InFlight(u)' => InFlight(u) /\ w'[u].seq = w[u].seq
    BY <1>4, PublishDoes
  <2> QED BY <1>2, <1>4, <2>1, PublishDoes
<1>5. ASSUME NEW t \in Writers, Return(t), rr' = rr PROVE TouchedInv'
  BY <1>2, <1>5, ReturnDoes DEF StaysQuiet
<1>6. CASE (Crash /\ rr' = rr) \/ UNCHANGED <<vars, rr>>
  BY <1>2, <1>6 DEF Crash, vars, InFlight
<1>7. CASE Begin
  <2>1. \A t \in Writers : InFlight(t) => SlotOf(w[t].seq) \in Slots
    BY SlotOfIsSlot DEF WriterInv, TypeOK, Claimed, InFlight
  <2>2. UNCHANGED <<writeSeq, w>>
    BY <1>7 DEF Begin, readFrame
  <2> QED BY <1>0, <1>7, <2>1, <2>2, BeginDoes DEF TouchedInv, WritersOf, InFlight, SlotOf
<1>8. ASSUME Before \/ (\E f \in Fields : Copy(f)) \/ After \/ End PROVE TouchedInv'
  <2>1. rr.pc # "idle"
    BY <1>8 DEF Before, Copy, After, End
  <2>2. rr'.hdr = rr.hdr /\ touched' = touched
    BY <1>8, <2>1, ReaderSlot, BeforeDoes, CopyDoes, AfterDoes, EndDoes
  <2>3. UNCHANGED <<writeSeq, w>>
    BY <1>8 DEF Before, Copy, After, End, readFrame
  <2> QED BY <1>2, <2>1, <2>2, <2>3 DEF InFlight
<1>9. CASE ReadAgain
  BY <1>9 DEF ReadAgain, IdleRead, TouchedInv
<1> QED BY <1>1, <1>3, <1>4, <1>5, <1>6, <1>7, <1>8, <1>9, RingSteps DEF ReadStep

\* A record of the header's window in an untouched slot lies there complete.
LEMMA QuietIsThere ==
  ASSUME WriterInv, rr \in ReadRecord, TouchedInv, rr.pc # "idle", NEW q, Quiet(q)
  PROVE  \A f \in Fields : mem[SlotOf(q)][f] = q
<1>1. /\ q \in Nat \ {0} /\ q =< rr.hdr /\ q > rr.hdr - Capacity /\ rr.hdr \in Nat
      /\ writeSeq \in Nat /\ rr.hdr =< writeSeq /\ q \notin raced /\ SlotOf(q) \notin touched
  BY Sizes DEF Window, WriterInv, TypeOK, ReadRecord, TouchedInv, Quiet
<1>2. ASSUME q =< writeSeq - Capacity PROVE FALSE
  <2>1. q + Capacity \in 1..writeSeq /\ q + Capacity > rr.hdr
    BY <1>1, <1>2, Sizes
  <2>2. SlotOf(q + Capacity) \in touched
    BY <2>1 DEF TouchedInv
  <2> QED BY <1>1, <2>2, NextLap
<1>3. q \in Window(writeSeq)
  BY <1>1, <1>2, Sizes DEF Window
<1>4. Intact(mem[SlotOf(q)], q)
  BY <1>1, <1>3 DEF WriterInv, RetainInv, FinishedIsRetained, TouchedInv
<1> QED BY <1>4 DEF Intact, Fields

-----------------------------------------------------------------------------
(* What is returned is intact.                                             *)

LEMMA VouchedNext ==
  ASSUME WriterInv, SlotInv, rr \in ReadRecord, TouchedInv, Passed, CopyVouched,
         [RingNext]_ringVars
  PROVE  CopyVouched'
<1>0. /\ writeSeq \in Nat /\ "seq" \in Fields
      /\ rr.pc = "copy" => rr.q \in Nat \ {0} /\ SlotOf(rr.q) \in Slots
  BY ReaderSlot DEF WriterInv, TypeOK, Fields
\* The reader stands still; the slot it copies keeps its seq or loses it.
<1>1. ASSUME rr' = rr, writeSeq' \in Nat, writeSeq =< writeSeq', raced \subseteq raced',
             rr.pc = "copy" =>
                /\ \A u \in Writers : ~(InFlight(u)' /\ w'[u].seq = rr.q)
                /\ mem'[SlotOf(rr.q)]["seq"] = rr.q => mem[SlotOf(rr.q)]["seq"] = rr.q
      PROVE  CopyVouched'
  BY <1>0, <1>1 DEF CopyVouched, SlotOf
<1>2. ASSUME NEW t \in Writers, Claim(t), rr' = rr PROVE CopyVouched'
  <2>1. writeSeq' \in Nat /\ writeSeq =< writeSeq' /\ raced \subseteq raced' /\ mem' = mem
    BY <1>2, ClaimDoes
  <2>2. rr.pc = "copy" => \A u \in Writers : ~(InFlight(u)' /\ w'[u].seq = rr.q)
    BY <1>0, <1>2, ClaimDoes DEF CopyVouched
  <2> QED BY <1>1, <1>2, <2>1, <2>2
<1>3. ASSUME NEW t \in Writers, NEW f \in Fields, Store(t, f), rr' = rr PROVE CopyVouched'
  <2>1. /\ UNCHANGED <<writeSeq, raced>>
        /\ \A u \in Writers : w'[u].seq = w[u].seq /\ (InFlight(u)' <=> InFlight(u))
    BY <1>3, StoreDoes
  <2>2. \A j \in Slots : mem'[j]["seq"] = mem[j]["seq"] \/ mem'[j]["seq"] = 0
    BY <1>0, <1>3, StoreDoes
  <2> QED BY <1>0, <1>1, <1>3, <2>1, <2>2 DEF CopyVouched
<1>4. ASSUME NEW t \in Writers, Publish(t), rr' = rr PROVE CopyVouched'
  <2>1. /\ UNCHANGED <<writeSeq, raced>> /\ InFlight(t) /\ ~InFlight(t)'
        /\ \A u \in Writers : u # t => w'[u] = w[u] /\ (InFlight(u)' <=> InFlight(u))
    BY <1>4, PublishDoes
  <2>2. \A j \in Slots : mem'[j]["seq"] = mem[j]["seq"] \/ mem'[j]["seq"] = w[t].seq
    BY <1>0, <1>4, PublishDoes
  <2>3. rr.pc = "copy" => w[t].seq # rr.q
    BY <2>1 DEF CopyVouched
  <2> QED BY <1>0, <1>1, <1>4, <2>1, <2>2, <2>3 DEF CopyVouched
<1>5. ASSUME NEW t \in Writers, Return(t), rr' = rr PROVE CopyVouched'
  BY <1>0, <1>1, <1>5, ReturnDoes DEF StaysQuiet, CopyVouched
<1>6. CASE (Crash /\ rr' = rr) \/ UNCHANGED <<vars, rr>>
  BY <1>0, <1>1, <1>6 DEF Crash, vars, InFlight, CopyVouched
<1>7. CASE Before
  <2>1. rr.q \in Nat \ {0} /\ SlotOf(rr.q) \in Slots
    BY <1>7, BeforeDoes, ReaderSlot
  <2>2. UNCHANGED <<writeSeq, w, mem, raced>>
    BY <1>7 DEF Before, readFrame
  <2>3. CASE mem[SlotOf(rr.q)]["seq"] = rr.q
    <3>1. rr'.pc = "copy" /\ rr'.left = Fields /\ rr'.q = rr.q
      BY <1>7, <2>3, BeforeDoes
    <3>2. rr.q =< writeSeq /\ \A u \in Writers : ~(InFlight(u) /\ w[u].seq = rr.q)
      BY <2>1, <2>3 DEF SlotInv, Published
    <3> QED BY <1>0, <2>1, <2>2, <3>1, <3>2 DEF CopyVouched, InFlight
  <2>4. CASE mem[SlotOf(rr.q)]["seq"] # rr.q
    BY <1>7, <2>4, BeforeDoes DEF CopyVouched
  <2> QED BY <2>3, <2>4
<1>8. ASSUME NEW f \in Fields, Copy(f) PROVE CopyVouched'
  <2>0. rr.pc = "copy" /\ rr.q \in Nat \ {0} /\ SlotOf(rr.q) \in Slots
    BY <1>0, <1>8 DEF Copy
  <2>1. UNCHANGED <<writeSeq, w, mem, raced>>
    BY <1>8 DEF Copy, readFrame
  <2>2. /\ rr'.pc = "copy" /\ rr'.left = rr.left \ {f} /\ rr'.q = rr.q
        /\ rr'.copy[f] = mem[SlotOf(rr.q)][f]
        /\ \A g \in Fields : g # f => rr'.copy[g] = rr.copy[g]
    BY <1>8, <2>0, CopyDoes
  <2>3. ASSUME InOrder, rr.q \notin raced, mem[SlotOf(rr.q)]["seq"] = rr.q,
               NEW g \in Fields \ rr'.left
        PROVE  rr'.copy[g] = rr.q
    <3>1. CASE g = f
      <4>1. mem[SlotOf(rr.q)][f] = rr.q
        BY <2>0, <2>3 DEF SlotInv, SeqVouches
      <4> QED BY <2>2, <3>1, <4>1
    <3>2. CASE g # f
      BY <2>0, <2>2, <2>3, <3>2 DEF CopyVouched
    <3> QED BY <3>1, <3>2
  <2>4. rr.q \in 1..writeSeq /\ \A u \in Writers : ~(InFlight(u) /\ w[u].seq = rr.q)
    BY <2>0 DEF CopyVouched
  <2> QED BY <2>1, <2>2, <2>3, <2>4 DEF CopyVouched, SlotOf, InFlight
<1>9. CASE Begin \/ After \/ End \/ ReadAgain
  <2>1. rr'.pc # "copy"
    BY <1>9, BeginDoes, AfterDoes, EndDoes DEF ReadAgain, IdleRead
  <2> QED BY <2>1 DEF CopyVouched
<1> QED BY <1>2, <1>3, <1>4, <1>5, <1>6, <1>7, <1>8, <1>9, RingSteps DEF ReadStep

LEMMA IntactNext ==
  ASSUME WriterInv, SlotInv, rr \in ReadRecord, TouchedInv, Passed, CopyVouched, ReadIsIntact,
         [RingNext]_ringVars
  PROVE  ReadIsIntact'
<1>1. raced \subseteq raced'
  BY RingSteps, ReadTouches, ClaimDoes, PublishDoes, StoreDoes, ReturnDoes
     DEF Crash, StaysQuiet, vars
<1>2. CASE rr'.events \subseteq rr.events
  BY <1>1, <1>2 DEF ReadIsIntact, Intact
<1>3. CASE After
  <2>1. CASE rr.copy["seq"] = rr.q /\ mem[SlotOf(rr.q)]["seq"] = rr.q
    <3>1. rr'.events = rr.events \cup {rr.copy} /\ rr.pc = "copy" /\ rr.left = {}
      BY <1>3, <2>1, AfterDoes
    <3>2. InOrder /\ rr.q \notin raced => Intact(rr.copy, rr.q)
      <4>1. InOrder /\ rr.q \notin raced => \A f \in Fields : rr.copy[f] = rr.q
        BY <2>1, <3>1 DEF CopyVouched
      <4>2. rr.copy \in Cell
        BY DEF ReadRecord
      <4> QED BY <4>1, <4>2, IntactCell DEF Fields
    <3> QED BY <1>1, <2>1, <3>1, <3>2 DEF ReadIsIntact, Intact
  <2>2. CASE ~(rr.copy["seq"] = rr.q /\ mem[SlotOf(rr.q)]["seq"] = rr.q)
    BY <1>2, <1>3, <2>2, AfterDoes
  <2> QED BY <2>1, <2>2
<1>4. CASE Begin \/ Before \/ End \/ ReadAgain
  <2>1. rr'.events \subseteq rr.events
    BY <1>4, BeginDoes, BeforeDoes, EndDoes DEF ReadAgain, IdleRead
  <2> QED BY <1>2, <2>1
<1>5. ASSUME NEW f \in Fields, Copy(f) PROVE ReadIsIntact'
  <2>1. rr.pc # "idle"
    BY <1>5 DEF Copy
  <2>2. rr'.events = rr.events
    BY <1>5, <2>1, ReaderSlot, CopyDoes
  <2> QED BY <1>2, <2>2
<1> QED BY <1>2, <1>3, <1>4, <1>5, RingSteps DEF ReadStep

-----------------------------------------------------------------------------
(* What is quiet is returned.                                              *)

LEMMA PassedNext ==
  ASSUME WriterInv, rr \in ReadRecord, TouchedInv, Passed, [RingNext]_ringVars
  PROVE  Passed'
<1>0. rr.hdr \in Nat /\ rr.q \in Nat /\ writeSeq \in Nat
  BY Sizes DEF ReadRecord, WriterInv, TypeOK
\* The writers only take records out of those that are to be returned.
<1>1. ASSUME rr' = rr, raced \subseteq raced', touched \subseteq touched' PROVE Passed'
  <2>1. \A q : Quiet(q)' => Quiet(q)
    BY <1>1 DEF Quiet, SlotOf, Window
  <2> QED BY <1>1, <2>1 DEF Passed, Oldest, Intact
<1>2. ASSUME NEW t \in Writers, rr' = rr,
             Claim(t) \/ Publish(t) \/ Return(t) \/ \E f \in Fields : Store(t, f)
      PROVE  Passed'
  <2>1. raced \subseteq raced' /\ touched \subseteq touched'
    BY <1>2, ClaimDoes, PublishDoes, StoreDoes, ReturnDoes DEF StaysQuiet
  <2> QED BY <1>1, <1>2, <2>1
<1>3. CASE (Crash /\ rr' = rr) \/ UNCHANGED <<vars, rr>>
  BY <1>1, <1>3 DEF Crash, vars
<1>4. CASE Begin
  <2>1. /\ rr'.pc = "before" /\ rr'.hdr = writeSeq /\ rr'.q = Oldest(writeSeq)
    BY <1>4, BeginDoes
  <2>2. \A q \in Nat : q < rr'.q => q \notin Window(rr'.hdr)
    BY <1>0, <2>1, OldestIs
  <2> QED BY <1>0, <2>1, <2>2, OldestIs DEF Passed, Quiet, Window, Oldest
\* The steps of the loop leave the header and what is quiet as they are.
<1>5. ASSUME rr.pc # "idle", rr'.hdr = rr.hdr, touched' = touched, raced' = raced
      PROVE  \A q : Quiet(q)' <=> Quiet(q)
  BY <1>5 DEF Quiet, SlotOf, Window
<1>6. CASE Before
  <2>0. /\ rr.pc = "before" /\ rr.q =< rr.hdr /\ rr'.hdr = rr.hdr /\ rr'.events = rr.events
        /\ touched' = touched /\ raced' = raced
    BY <1>6, BeforeDoes DEF Before, readFrame
  <2>1. \A q : Quiet(q)' <=> Quiet(q)
    BY <1>5, <2>0
  <2>2. CASE mem[SlotOf(rr.q)]["seq"] = rr.q
    <3>1. rr'.pc = "copy" /\ rr'.left = Fields /\ rr'.q = rr.q
      BY <1>6, <2>2, BeforeDoes
    <3> QED BY <2>0, <2>1, <3>1 DEF Passed, Oldest, Intact
  <2>3. CASE mem[SlotOf(rr.q)]["seq"] # rr.q
    <3>1. rr'.pc = "before" /\ rr'.q = rr.q + 1
      BY <1>6, <2>3, BeforeDoes
    <3>2. ~Quiet(rr.q)
      BY <2>0, <2>3, QuietIsThere DEF Fields
    <3>3. \A q \in Nat : Quiet(q) /\ q < rr'.q => \E c \in rr.events : Intact(c, q)
      BY <1>0, <2>0, <3>1, <3>2 DEF Passed
    <3>4. rr'.q >= Oldest(rr'.hdr)
      BY <1>0, <2>0, <3>1, OldestIs DEF Passed
    <3> QED BY <2>0, <2>1, <3>1, <3>3, <3>4 DEF Passed, Oldest, Intact
  <2> QED BY <2>2, <2>3
<1>7. ASSUME NEW f \in Fields, Copy(f) PROVE Passed'
  <2>0. rr.pc = "copy" /\ SlotOf(rr.q) \in Slots /\ touched' = touched /\ raced' = raced
    BY <1>7, ReaderSlot DEF Copy, readFrame
  <2>1. /\ rr'.pc = "copy" /\ rr'.left = rr.left \ {f} /\ rr'.q = rr.q /\ rr'.hdr = rr.hdr
        /\ rr'.events = rr.events /\ rr'.copy[f] = mem[SlotOf(rr.q)][f]
        /\ \A g \in Fields : g # f => rr'.copy[g] = rr.copy[g]
    BY <1>7, <2>0, CopyDoes
  <2>2. \A q : Quiet(q)' <=> Quiet(q)
    BY <1>5, <2>0, <2>1
  <2>3. ASSUME Quiet(rr.q), NEW g \in Fields \ rr'.left PROVE rr'.copy[g] = rr.q
    <3>1. CASE g = f
      BY <2>0, <2>1, <2>3, <3>1, QuietIsThere
    <3>2. CASE g # f
      BY <2>0, <2>1, <2>3, <3>2 DEF Passed
    <3> QED BY <3>1, <3>2
  <2> QED BY <2>0, <2>1, <2>2, <2>3 DEF Passed, Oldest, Intact
<1>8. CASE After
  <2>0. /\ rr.pc = "copy" /\ rr.left = {} /\ rr'.pc = "before" /\ rr'.hdr = rr.hdr
        /\ rr'.q = rr.q + 1 /\ touched' = touched /\ raced' = raced
    BY <1>8, AfterDoes DEF After, readFrame
  <2>1. \A q : Quiet(q)' <=> Quiet(q)
    BY <1>5, <2>0
  <2>2. rr.events \subseteq rr'.events
    BY <1>8, AfterDoes
  <2>3. ASSUME Quiet(rr.q) PROVE \E c \in rr'.events : Intact(c, rr.q)
    <3>1. \A f \in Fields : rr.copy[f] = rr.q
      BY <2>0, <2>3 DEF Passed
    <3>2. mem[SlotOf(rr.q)]["seq"] = rr.q
      BY <2>0, <2>3, QuietIsThere DEF Fields
    <3>3. rr.copy \in rr'.events
      BY <1>8, <3>1, <3>2, AfterDoes DEF Fields
    <3>4. Intact(rr.copy, rr.q)
      BY <3>1, IntactCell DEF ReadRecord, Fields
    <3> QED BY <3>3, <3>4
  <2>4. \A q \in Nat : Quiet(q) /\ q < rr'.q => \E c \in rr'.events : Intact(c, q)
    BY <1>0, <2>0, <2>2, <2>3 DEF Passed
  <2>5. rr'.q >= Oldest(rr'.hdr)
    BY <1>0, <2>0, OldestIs DEF Passed
  <2> QED BY <2>0, <2>1, <2>4, <2>5 DEF Passed, Oldest, Intact
<1>9. CASE End
  <2>0. /\ rr.pc = "before" /\ rr.q > rr.hdr /\ rr'.pc = "done" /\ rr'.hdr = rr.hdr
        /\ rr'.q = rr.q /\ rr'.events = rr.events /\ touched' = touched /\ raced' = raced
    BY <1>9, EndDoes DEF End, readFrame
  <2>1. \A q : Quiet(q)' <=> Quiet(q)
    BY <1>5, <2>0
  <2> QED BY <2>0, <2>1 DEF Passed, Oldest, Intact
<1>10. CASE ReadAgain
  BY <1>10 DEF ReadAgain, IdleRead, Passed
<1> QED BY <1>2, <1>3, <1>4, <1>6, <1>7, <1>8, <1>9, <1>10, RingSteps DEF ReadStep

-----------------------------------------------------------------------------
LEMMA ReadInductive == RingSpec => []ReadInv
<1>1. RingInit => ReadInv
  <2> SUFFICES ASSUME RingInit PROVE ReadInv
    OBVIOUS
  <2>1. WriterInv
    BY TypeInit, ClaimedInit, RetainInit DEF RingInit, WriterInv
  <2>2. \A i \in Slots : mem[i]["seq"] = 0
    BY DEF RingInit, Init, Empty
  <2>3. \A t \in Writers : ~InFlight(t)
    BY DEF RingInit, Init, InFlight
  <2>4. Published /\ ClearedStays /\ SeqVouches
    BY <2>2, <2>3 DEF Published, ClearedStays, SeqVouches
  <2>5. rr.pc = "idle" /\ rr.events = {} /\ rr \in ReadRecord
    BY IdleReads DEF RingInit, IdleRead
  <2> QED BY <2>1, <2>4, <2>5 DEF ReadInv, CopyVouched, ReadIsIntact, TouchedInv, Passed
<1>2. ReadInv /\ [RingNext]_ringVars => ReadInv'
  <2> SUFFICES ASSUME ReadInv, [RingNext]_ringVars PROVE ReadInv'
    OBVIOUS
  <2>1. WriterInv /\ SlotInv /\ rr \in ReadRecord /\ TouchedInv /\ Passed /\ CopyVouched
        /\ ReadIsIntact
    BY DEF ReadInv, SlotInv
  <2>2. WriterInv' /\ SlotInv' /\ rr' \in ReadRecord /\ TouchedInv'
    BY <2>1, WriterInvNext, SlotNext, ReadRecordNext, TouchedNext
  <2>3. CopyVouched' /\ ReadIsIntact' /\ Passed'
    BY <2>1, VouchedNext, IntactNext, PassedNext
  <2> QED BY <2>2, <2>3 DEF ReadInv, SlotInv
<1> QED BY <1>1, <1>2, PTL DEF RingSpec

\* Every event read_ring returns is the complete record of one call, if the stores of
\* a call become visible in order and no two calls write its slot at once.
THEOREM ReadIntact == RingSpec => []ReadIsIntact
BY ReadInductive, PTL DEF ReadInv

\* read_ring returns every record of the header's window that no call could write
\* meanwhile, whatever the order of the stores, and also after the process was killed.
THEOREM ReadComplete == RingSpec => []ReadIsComplete
<1>1. ReadInv => ReadIsComplete
  <2> SUFFICES ASSUME ReadInv, rr.pc = "done", NEW q \in Window(rr.hdr) \ raced,
                      SlotOf(q) \notin touched
               PROVE  \E c \in rr.events : Intact(c, q)
    BY DEF ReadIsComplete
  <2>1. q \in Nat /\ q =< rr.hdr /\ rr.hdr \in Nat /\ rr.q \in Nat
    BY Sizes DEF Window, ReadInv, ReadRecord
  <2>2. Quiet(q) /\ rr.q > rr.hdr
    BY DEF Quiet, ReadInv, Passed
  <2> QED BY <2>1, <2>2 DEF ReadInv, Passed
<1> QED BY <1>1, ReadInductive, PTL

-----------------------------------------------------------------------------
(* Induction, for a set of numbers.                                        *)

LEMMA Smaller ==
  /\ IsWellFoundedOn(OpToRel(<, Nat), Nat)
  /\ \A i, j \in Nat : <<i, j>> \in OpToRel(<, Nat) <=> i < j
<1>1. \A i, j \in Nat : <<i, j>> \in OpToRel(<, Nat) <=> i < j
  BY SMT DEF OpToRel
<1> QED BY <1>1, NatLessThanWellFounded

LEMMA Induction ==
  ASSUME NEW S, 0 \in S, \A n \in Nat : n \in S => n + 1 \in S
  PROVE  \A n \in Nat : n \in S
<1> DEFINE Less == OpToRel(<, Nat)
<1> DEFINE Rest == Nat \ S
<1>0. IsWellFoundedOn(Less, Nat)
  BY Smaller
<1>1. \A i, j \in Nat : <<i, j>> \in Less <=> i < j
  BY Smaller
<1> HIDE DEF Less
<1> SUFFICES ASSUME Rest # {} PROVE FALSE
  OBVIOUS
<1>2. PICK n \in Rest : \A m \in Rest : ~(<<m, n>> \in Less)
  <2>1. Rest \subseteq Nat
    OBVIOUS
  <2> HIDE DEF Rest
  <2> QED BY <1>0, <2>1, WFMin
<1>3. n # 0
  OBVIOUS
<1>4. n - 1 \in Nat /\ n - 1 + 1 = n /\ n - 1 < n
  BY <1>3, SMT
<1>5. n - 1 \in S
  BY <1>1, <1>2, <1>4
<1> QED BY <1>4, <1>5, <1>2

-----------------------------------------------------------------------------
(* The calls that are open.  Pending builds a thread's stack one record    *)
(* after the other; StacksExist says that it is what its definition says,  *)
(* and SameAbove that from an enter on, which both have, the stacks of all *)
(* records and of the listed ones stay the same above it, whatever is      *)
(* below: an exit in the one that has nothing to close there closes at     *)
(* most what is below.  NestInv says the same of the stack of all records  *)
(* and the calls the thread is in, as long as no callback is without one.  *)

LEMMA FrontIs ==
  /\ Front(<< >>) = << >>
  /\ \A T : \A s \in Seq(T) : \A x \in T : Front(Append(s, x)) = s
<1>1. Front(<< >>) = << >>
  BY SMT DEF Front
<1>2. ASSUME NEW T, NEW s \in Seq(T), NEW x \in T PROVE Front(Append(s, x)) = s
  <2>1. Len(Append(s, x)) = Len(s) + 1 /\ \A i \in 1..Len(s) : Append(s, x)[i] = s[i]
    BY AppendProperties
  <2> QED BY <2>1, SMT DEF Front
<1> QED BY <1>1, <1>2

\* The end of a sequence is the end of its second part.
LEMMA AppendToConcat ==
  ASSUME NEW T, NEW a \in Seq(T), NEW s \in Seq(T), NEW r \in T, NEW u, NEW x,
         u = a \o s, x = Append(s, r)
  PROVE  Append(u, r) = a \o x
<1>1. <<r>> \in Seq(T) /\ a \o s \in Seq(T)
  BY ConcatProperties, SMT
<1>2. Append(a \o s, r) = (a \o s) \o <<r>> /\ Append(s, r) = s \o <<r>>
  BY <1>1, AppendIsConcat
<1>3. (a \o s) \o <<r>> = a \o (s \o <<r>>)
  BY <1>1, ConcatAssociative
<1> QED BY <1>1, <1>2, <1>3

LEMMA FrontOfConcat ==
  ASSUME NEW T, NEW a \in Seq(T), NEW s \in Seq(T)
  PROVE  /\ s # << >> => Front(a \o s) = a \o Front(s)
         /\ Front(s) \in Seq(T)
<1>1. CASE s = << >>
  BY <1>1, FrontIs
<1>2. CASE s # << >>
  <2>1. PICK q \in Seq(T), r \in T : s = Append(q, r)
    BY <1>2, SequenceEmptyOrAppend
  <2>2. Front(s) = q
    BY <2>1, FrontIs
  <2> DEFINE z == a \o q
  <2>3. z = a \o q /\ z \in Seq(T)
    BY ConcatProperties
  <2> HIDE DEF z
  <2>4. a \o s = Append(z, r)
    BY <2>1, <2>3, AppendToConcat
  <2>5. Front(Append(z, r)) = z
    BY <2>3, FrontIs
  <2> QED BY <2>2, <2>3, <2>4, <2>5
<1> QED BY <1>1, <1>2

\* Two stacks that are the same from some seq on: L is below it, H above.
Alike(u, v, L, H) == \E a, b \in Seq(L), s \in Seq(H) : u = a \o s /\ v = b \o s

LEMMA GrowAlike ==
  ASSUME NEW L, NEW H, NEW u, NEW v, Alike(u, v, L, H), NEW r \in H
  PROVE  Alike(Append(u, r), Append(v, r), L, H)
<1>1. PICK a \in Seq(L), b \in Seq(L), s \in Seq(H) : u = a \o s /\ v = b \o s
  BY DEF Alike
<1> DEFINE T == L \cup H
<1> DEFINE x == Append(s, r)
<1>2. a \in Seq(T) /\ b \in Seq(T) /\ s \in Seq(T) /\ r \in T
  <2>1. L \subseteq T /\ H \subseteq T
    OBVIOUS
  <2> HIDE DEF T
  <2> QED BY <2>1, SeqMonotonic
<1> HIDE DEF T
<1>3. x \in Seq(H) /\ x = Append(s, r)
  BY AppendProperties
<1>4. ASSUME NEW d \in Seq(T) PROVE Append(d \o s, r) = d \o x
  <2>1. <<r>> \in Seq(T) /\ d \o s \in Seq(T) /\ s \in Seq(T) /\ r \in T
    BY <1>2, ConcatProperties, SMT
  <2>2. Append(d \o s, r) = (d \o s) \o <<r>>
    BY <2>1, AppendIsConcat
  <2>3. x = s \o <<r>>
    BY <2>1, AppendIsConcat
  <2>4. (d \o s) \o <<r>> = d \o (s \o <<r>>)
    BY <2>1, ConcatAssociative
  <2> QED BY <2>2, <2>3, <2>4, Zenon
<1> HIDE DEF x
<1>5. Append(u, r) = a \o x /\ Append(v, r) = b \o x
  BY <1>1, <1>2, <1>4
<1> QED BY <1>3, <1>5 DEF Alike

LEMMA ShrinkAlike ==
  ASSUME NEW L, NEW H, NEW u, NEW v, Alike(u, v, L, H)
  PROVE  Alike(Front(u), Front(v), L, H)
<1>1. PICK a \in Seq(L), b \in Seq(L), s \in Seq(H) : u = a \o s /\ v = b \o s
  BY DEF Alike
<1> DEFINE T == L \cup H
<1>2. a \in Seq(T) /\ b \in Seq(T) /\ s \in Seq(T)
  <2>1. L \subseteq T /\ H \subseteq T
    OBVIOUS
  <2> HIDE DEF T
  <2> QED BY <2>1, SeqMonotonic
<1> HIDE DEF T
<1>3. CASE s # << >>
  <2>1. Front(s) \in Seq(H)
    BY FrontOfConcat
  <2>2. Front(u) = a \o Front(s) /\ Front(v) = b \o Front(s)
    BY <1>1, <1>2, <1>3, FrontOfConcat
  <2> QED BY <2>1, <2>2 DEF Alike
<1>4. CASE s = << >>
  <2>1. Front(a) \in Seq(L) /\ Front(b) \in Seq(L)
    BY FrontOfConcat
  <2>2. Front(u) = Front(a) /\ Front(v) = Front(b)
    BY <1>1, <1>4, ConcatEmptySeq
  <2>3. Front(u) = Front(a) \o << >> /\ Front(v) = Front(b) \o << >>
    BY <2>1, <2>2, ConcatEmptySeq
  <2> QED BY <1>4, <2>1, <2>3 DEF Alike
<1> QED BY <1>3, <1>4

\* f has the stack of t after each of the first n calls of c, those in E.
Stacks(f, c, E, n, t) ==
    f = [q \in 0..n |-> IF q = 0 THEN << >>
                        ELSE IF q \notin E \/ c[q].by # t THEN f[q - 1]
                        ELSE IF c[q].kind = "enter" THEN Append(f[q - 1], q)
                        ELSE Front(f[q - 1])]

LEMMA StacksExist ==
  ASSUME NEW c, NEW E, NEW t
  PROVE  \A n \in Nat : \E f : Stacks(f, c, E, n, t)
<1> DEFINE Next1(x, q) == IF q \notin E \/ c[q].by # t THEN x
                          ELSE IF c[q].kind = "enter" THEN Append(x, q)
                          ELSE Front(x)
<1> DEFINE Is(f, n) == f = [q \in 0..n |-> IF q = 0 THEN << >> ELSE Next1(f[q - 1], q)]
<1>0. \A f, n : Is(f, n) <=> Stacks(f, c, E, n, t)
  BY DEF Stacks
<1> HIDE DEF Next1
<1> DEFINE S == {n \in Nat : \E f : Is(f, n)}
<1>1. 0 \in S
  <2> DEFINE f == [i \in 0..0 |-> << >>]
  <2>1. Is(f, 0)
    BY SMT
  <2> HIDE DEF f
  <2> QED BY <2>1
<1>2. ASSUME NEW n \in Nat, n \in S PROVE n + 1 \in S
  <2>1. PICK f : Is(f, n)
    BY <1>2
  <2> DEFINE g == [i \in 0..(n + 1) |-> IF i =< n THEN f[i] ELSE Next1(f[i - 1], i)]
  <2>2. \A i \in 0..n : g[i] = f[i]
    BY SMT
  <2>3. \A i \in 0..n : f[i] = IF i = 0 THEN << >> ELSE Next1(f[i - 1], i)
    BY <2>1
  <2>4. ASSUME NEW i \in 0..(n + 1)
        PROVE  g[i] = IF i = 0 THEN << >> ELSE Next1(g[i - 1], i)
    <3>1. CASE i = 0
      BY <3>1, <2>2, <2>3, SMT
    <3>2. CASE i \in 1..n
      <4>1. g[i] = f[i] /\ g[i - 1] = f[i - 1]
        BY <3>2, <2>2, SMT
      <4> HIDE DEF g
      <4> QED BY <4>1, <3>2, <2>3, SMT
    <3>3. CASE i = n + 1
      <4>1. g[i - 1] = f[i - 1]
        BY <3>3, <2>2, SMT
      <4>2. g[i] = Next1(f[i - 1], i)
        BY <3>3, SMT
      <4> HIDE DEF g
      <4> QED BY <4>1, <4>2, <3>3, SMT
    <3> QED BY <3>1, <3>2, <3>3, SMT
  <2>5. Is(g, n + 1)
    <3>1. g = [i \in 0..(n + 1) |-> g[i]]
      OBVIOUS
    <3> HIDE DEF g
    <3> QED BY <3>1, <2>4
  <2> HIDE DEF g
  <2> QED BY <2>5, SMT
<1> HIDE DEF S
<1>3. \A n \in Nat : n \in S
  BY <1>1, <1>2, Induction
<1> QED BY <1>0, <1>3 DEF S

\* A stack holds the seqs of its thread's calls.
Mine(c, t, k) == {q \in 1..k : c[q].by = t}

LEMMA StackHolds ==
  ASSUME NEW c, NEW E, NEW t, NEW n \in Nat, NEW f, Stacks(f, c, E, n, t)
  PROVE  \A k \in 0..n : f[k] \in Seq(Mine(c, t, k))
<1> DEFINE S == {k \in Nat : k =< n => f[k] \in Seq(Mine(c, t, k))}
<1>1. \A q \in 0..n : f[q] = IF q = 0 THEN << >>
                        ELSE IF q \notin E \/ c[q].by # t THEN f[q - 1]
                        ELSE IF c[q].kind = "enter" THEN Append(f[q - 1], q)
                        ELSE Front(f[q - 1])
  BY DEF Stacks
<1>2. 0 \in S
  <2>1. f[0] = << >>
    BY <1>1, SMT
  <2> QED BY <2>1, EmptySeq
<1>3. ASSUME NEW k \in Nat, k \in S PROVE k + 1 \in S
  <2> DEFINE q == k + 1
  <2> SUFFICES ASSUME q =< n PROVE f[q] \in Seq(Mine(c, t, q))
    OBVIOUS
  <2>1. q \in 0..n /\ q # 0 /\ q - 1 = k /\ k =< n /\ q \in 1..q
    BY SMT
  <2>2. f[q] = IF q \notin E \/ c[q].by # t THEN f[k]
               ELSE IF c[q].kind = "enter" THEN Append(f[k], q) ELSE Front(f[k])
    BY <1>1, <2>1
  <2>3. f[k] \in Seq(Mine(c, t, k))
    BY <1>3, <2>1
  <2>4. Mine(c, t, k) \subseteq Mine(c, t, q)
    BY SMT DEF Mine
  <2>5. f[k] \in Seq(Mine(c, t, q))
    BY <2>3, <2>4, SeqMonotonic
  <2>6. c[q].by = t => q \in Mine(c, t, q)
    BY <2>1 DEF Mine
  <2> HIDE DEF q
  <2>7. CASE q \notin E \/ c[q].by # t
    BY <2>2, <2>5, <2>7
  <2>8. CASE c[q].by = t /\ Append(f[k], q) = f[q]
    <3>1. q \in Mine(c, t, q)
      BY <2>6, <2>8
    <3>2. Append(f[k], q) \in Seq(Mine(c, t, q))
      BY <2>5, <3>1, AppendProperties
    <3> QED BY <2>8, <3>2
  <2>9. CASE f[q] = Front(f[k])
    BY <2>5, <2>9, FrontOfConcat
  <2> QED BY <2>2, <2>7, <2>8, <2>9
<1> HIDE DEF S
<1>4. \A k \in Nat : k \in S
  BY <1>2, <1>3, Induction
<1> QED BY <1>4, SMT DEF S

\* From an enter that is in both on, two stacks are equal above it, whatever
\* is below it in either.
LEMMA SameAbove ==
  ASSUME NEW c, NEW E, NEW t, NEW n \in Nat, NEW q \in 1..n, NEW f, NEW g,
         Stacks(f, c, 1..n, n, t), Stacks(g, c, E, n, t),
         c[q].by = t, c[q].kind = "enter",
         \A r \in q..n : c[r].by = t => r \in E
  PROVE  Alike(f[n], g[n], 1..(q - 1), q..n)
<1> DEFINE Low == 1..(q - 1)
<1> DEFINE High == q..n
<1> DEFINE S == {k \in Nat : q =< k /\ k =< n => Alike(f[k], g[k], Low, High)}
<1>1. /\ \A r \in 1..n : f[r] = IF c[r].by # t THEN f[r - 1]
                        ELSE IF c[r].kind = "enter" THEN Append(f[r - 1], r)
                        ELSE Front(f[r - 1])
      /\ \A r \in 1..n : g[r] = IF r \notin E \/ c[r].by # t THEN g[r - 1]
                        ELSE IF c[r].kind = "enter" THEN Append(g[r - 1], r)
                        ELSE Front(g[r - 1])
  <2>1. \A r \in 1..n : r \in 0..n /\ r # 0
    BY SMT
  <2> QED BY <2>1 DEF Stacks
<1>2. q \in High /\ q \in Nat /\ q =< n /\ n =< n
  BY SMT
<1>3. Alike(f[q], g[q], Low, High)
  <2> DEFINE k == q - 1
  <2>1. k \in 0..n /\ Mine(c, t, k) \subseteq Low /\ q \in 1..n
    BY SMT DEF Mine
  <2>2. f[q] = Append(f[k], q) /\ g[q] = Append(g[k], q)
    BY <1>1, <1>2, <2>1
  <2> HIDE DEF k, Low, High
  <2>3. f[k] \in Seq(Low) /\ g[k] \in Seq(Low)
    <3>1. \A i \in 0..n : f[i] \in Seq(Mine(c, t, i))
      BY StackHolds
    <3>2. \A i \in 0..n : g[i] \in Seq(Mine(c, t, i))
      BY StackHolds
    <3>3. f[k] \in Seq(Mine(c, t, k)) /\ g[k] \in Seq(Mine(c, t, k))
      BY <2>1, <3>1, <3>2
    <3> QED BY <2>1, <3>3, SeqMonotonic
  <2>4. f[k] = f[k] \o << >> /\ g[k] = g[k] \o << >> /\ << >> \in Seq(High)
    BY <2>3, ConcatEmptySeq, EmptySeq
  <2>5. Alike(f[k], g[k], Low, High)
    BY <2>3, <2>4 DEF Alike
  <2> QED BY <1>2, <2>2, <2>5, GrowAlike
<1>4. ASSUME NEW k \in Nat, k \in S PROVE k + 1 \in S
  <2> DEFINE r == k + 1
  <2>0. r \in Nat
    BY SMT
  <2> SUFFICES ASSUME q =< r, r =< n PROVE Alike(f[r], g[r], Low, High)
    BY <2>0
  <2>1. CASE q = r
    BY <1>3, <2>1
  <2>2. CASE q # r
    <3>1. q =< k /\ k =< n /\ r \in 1..n /\ r \in High /\ r - 1 = k
      BY <2>2, SMT
    <3>2. Alike(f[k], g[k], Low, High)
      BY <1>4, <3>1
    <3>3. /\ f[r] = IF c[r].by # t THEN f[k]
                    ELSE IF c[r].kind = "enter" THEN Append(f[k], r) ELSE Front(f[k])
          /\ g[r] = IF c[r].by # t THEN g[k]
                    ELSE IF c[r].kind = "enter" THEN Append(g[k], r) ELSE Front(g[k])
      BY <1>1, <3>1
    <3> HIDE DEF r, Low, High
    <3>4. Alike(Append(f[k], r), Append(g[k], r), Low, High)
      BY <3>1, <3>2, GrowAlike
    <3>5. Alike(Front(f[k]), Front(g[k]), Low, High)
      BY <3>2, ShrinkAlike
    <3> QED BY <3>2, <3>3, <3>4, <3>5
  <2> QED BY <2>1, <2>2
<1>5. 0 \in S
  BY SMT
<1> HIDE DEF S
<1>6. \A k \in Nat : k \in S
  BY <1>4, <1>5, Induction
<1> QED BY <1>2, <1>6 DEF S

LEMMA PendingIs ==
  ASSUME rr.hdr \in Nat, NEW t
  PROVE  \E f : Stacks(f, call, Listed, rr.hdr, t) /\ Pending(t) = f[rr.hdr]
<1> DEFINE Of(f) == [q \in 0..rr.hdr |->
              IF q = 0 THEN << >>
              ELSE IF q \notin Listed \/ call[q].by # t THEN f[q - 1]
              ELSE IF call[q].kind = "enter" THEN Append(f[q - 1], q)
              ELSE Pop(f[q - 1])]
<1> DEFINE With(f) == [q \in 0..rr.hdr |->
              IF q = 0 THEN << >>
              ELSE IF q \notin Listed \/ call[q].by # t THEN f[q - 1]
              ELSE IF call[q].kind = "enter" THEN Append(f[q - 1], q)
              ELSE Front(f[q - 1])]
<1> DEFINE g == CHOOSE g : g = Of(g)
<1>1. ASSUME NEW f PROVE Of(f) = With(f)
  <2>1. \A s : Pop(s) = Front(s)
    BY FrontIs DEF Pop
  <2> QED BY <2>1, Zenon
<1>2. \A f : f = With(f) <=> Stacks(f, call, Listed, rr.hdr, t)
  BY DEF Stacks
<1>3. Pending(t) = g[rr.hdr]
  BY Zenon DEF Pending
<1> HIDE DEF Of, With
<1>4. \E f : f = Of(f)
  BY <1>1, <1>2, StacksExist
<1>5. g = Of(g)
  BY <1>4
<1> HIDE DEF g
<1> QED BY <1>1, <1>2, <1>3, <1>5

\* What two stacks share above a seq, they agree on.
LEMMA AlikeRange ==
  ASSUME NEW L, NEW H, NEW u, NEW v, Alike(u, v, L, H), NEW q, q \notin L
  PROVE  q \in Range(u) <=> q \in Range(v)
<1>1. PICK a \in Seq(L), b \in Seq(L), s \in Seq(H) : u = a \o s /\ v = b \o s
  BY DEF Alike
<1> DEFINE T == L \cup H
<1>2. a \in Seq(T) /\ b \in Seq(T) /\ s \in Seq(T)
  <2>1. L \subseteq T /\ H \subseteq T
    OBVIOUS
  <2> HIDE DEF T
  <2> QED BY <2>1, SeqMonotonic
<1> HIDE DEF T
<1>3. Range(u) = Range(a) \cup Range(s) /\ Range(v) = Range(b) \cup Range(s)
  BY <1>1, <1>2, RangeConcatenation
<1>4. Range(a) \subseteq L /\ Range(b) \subseteq L
  BY RangeOfSeq
<1> QED BY <1>3, <1>4

-----------------------------------------------------------------------------
(* The calls a thread is in, and its records.                              *)

\* f has the stack of t after each of the first n records of c.
Follows(f, c, n, t) ==
    /\ f[0] = << >>
    /\ \A q \in 1..n : f[q] = IF c[q].by # t THEN f[q - 1]
                              ELSE IF c[q].kind = "enter" THEN Append(f[q - 1], q)
                              ELSE Front(f[q - 1])

\* From an enter after the gap m on, s is that stack.
Mirrors(s, m, c, n, t) ==
    /\ s \in Seq(0..n)
    /\ \A f : Follows(f, c, n, t) =>
          /\ f[n] \in Seq(0..n)
          /\ \A q \in 1..n : m < q /\ c[q] = [by |-> t, kind |-> "enter"] =>
                Alike(f[n], s, 0..(q - 1), q..n)

NestInv ==
    /\ call \in Seq([by : Writers, kind : {"enter", "exit"}]) /\ Len(call) = writeSeq
    /\ DOMAIN inside = Writers /\ DOMAIN missed = Writers
    /\ \A t \in Writers : Mirrors(inside[t], missed[t], call, writeSeq, t)
    /\ rr.pc # "idle" =>
          \A t \in Writers :
             Mirrors(atHeader.inside[t], atHeader.missed[t], call, rr.hdr, t)

LEMMA OneMoreOrLess ==
  ASSUME NEW T, NEW s \in Seq(T), NEW e \in T
  PROVE  Append(s, e) \in Seq(T) /\ Front(s) \in Seq(T)
<1>1. Append(s, e) \in Seq(T)
  BY AppendProperties
<1>2. Front(s) \in Seq(T)
  BY FrontOfConcat
<1> QED BY <1>1, <1>2

LEMMA WiderAlike ==
  ASSUME NEW u, NEW v, NEW L, NEW H, NEW K, Alike(u, v, L, H), H \subseteq K
  PROVE  Alike(u, v, L, K)
<1>1. PICK a \in Seq(L), b \in Seq(L), s \in Seq(H) : u = a \o s /\ v = b \o s
  BY DEF Alike
<1>2. s \in Seq(K)
  BY SeqMonotonic
<1> QED BY <1>1, <1>2 DEF Alike

\* What holds of the first records does not depend on the others.
LEMMA FollowsFirst ==
  ASSUME NEW c, NEW d, NEW n \in Nat, NEW k \in 0..n, \A q \in 1..k : d[q] = c[q],
         NEW t, NEW f, Follows(f, d, n, t)
  PROVE  Follows(f, c, k, t)
<1>1. \A q \in 1..k : q \in 1..n
  BY SMT
<1> QED BY <1>1 DEF Follows

LEMMA MirrorsFirst ==
  ASSUME NEW c, NEW d, NEW n \in Nat, \A q \in 1..n : d[q] = c[q],
         NEW s, NEW m, NEW t, Mirrors(s, m, c, n, t)
  PROVE  Mirrors(s, m, d, n, t)
<1>1. \A f : Follows(f, d, n, t) => Follows(f, c, n, t)
  BY FollowsFirst, n \in 0..n
<1> QED BY <1>1 DEF Mirrors

\* The next record is of t or of another thread.
LEMMA MirrorsGrow ==
  ASSUME NEW c, NEW d, NEW n \in Nat, \A q \in 1..n : d[q] = c[q],
         NEW s, NEW m, NEW t, Mirrors(s, m, c, n, t),
         NEW z, \/ d[n + 1] = [by |-> t, kind |-> "enter"] /\ z = Append(s, n + 1)
                \/ d[n + 1] = [by |-> t, kind |-> "exit"] /\ z = Front(s)
                \/ d[n + 1].by # t /\ z = s
  PROVE  Mirrors(z, m, d, n + 1, t)
<1> DEFINE r == n + 1
<1>1. r \in Nat /\ r \in 0..r /\ r - 1 = n /\ 0..n \subseteq 0..r /\ n \in 0..r /\ r \in 1..r
      /\ 0..n = 0..(r - 1)
  BY SMT
<1>2. \A q \in 1..r : q \in 1..n \/ q = r
  BY SMT
<1>3. \A q \in 1..n : r \in q..r /\ q..n \subseteq q..r
  BY SMT
<1>4. r \in r..r
  BY SMT
<1>0. z = Append(s, r) \/ z = Front(s) \/ z = s
  OBVIOUS
<1> HIDE DEF r
<1>5. s \in Seq(0..n) /\ s \in Seq(0..r)
  BY <1>1, SeqMonotonic DEF Mirrors
<1>6. z \in Seq(0..r)
  BY <1>0, <1>1, <1>5, OneMoreOrLess
<1> SUFFICES ASSUME NEW f, Follows(f, d, r, t)
             PROVE  /\ f[r] \in Seq(0..r)
                    /\ \A q \in 1..r : m < q /\ d[q] = [by |-> t, kind |-> "enter"] =>
                          Alike(f[r], z, 0..(q - 1), q..r)
  BY <1>6 DEF Mirrors, r
<1>7. f[r] = IF d[r].by # t THEN f[n]
             ELSE IF d[r].kind = "enter" THEN Append(f[n], r) ELSE Front(f[n])
  BY <1>1 DEF Follows
<1>8. /\ f[n] \in Seq(0..n)
      /\ \A q \in 1..n : m < q /\ c[q] = [by |-> t, kind |-> "enter"] =>
            Alike(f[n], s, 0..(q - 1), q..n)
  <2>1. Follows(f, c, n, t)
    BY <1>1, FollowsFirst
  <2> QED BY <2>1 DEF Mirrors
<1>9. f[n] \in Seq(0..r)
  BY <1>1, <1>8, SeqMonotonic
<1>10. \A q \in 1..n : m < q /\ d[q] = [by |-> t, kind |-> "enter"] =>
          Alike(f[n], s, 0..(q - 1), q..r)
  BY <1>3, <1>8, WiderAlike
<1>11. CASE d[r] = [by |-> t, kind |-> "enter"] /\ z = Append(s, r)
  <2>1. f[r] = Append(f[n], r)
    BY <1>7, <1>11
  <2>2. f[r] \in Seq(0..r)
    BY <1>1, <1>9, <2>1, AppendProperties
  <2>3. ASSUME NEW q \in 1..n, m < q, d[q] = [by |-> t, kind |-> "enter"]
        PROVE  Alike(f[r], z, 0..(q - 1), q..r)
    BY <1>3, <1>10, <1>11, <2>1, <2>3, GrowAlike
  <2>4. Alike(f[r], z, 0..(r - 1), r..r)
    <3>1. f[n] = f[n] \o << >> /\ s = s \o << >> /\ << >> \in Seq(r..r)
      BY <1>5, <1>8, ConcatEmptySeq, EmptySeq
    <3>2. Alike(f[n], s, 0..n, r..r)
      BY <1>5, <1>8, <3>1 DEF Alike
    <3>3. Alike(f[r], z, 0..n, r..r)
      BY <1>4, <1>11, <2>1, <3>2, GrowAlike
    <3> QED BY <1>1, <3>3
  <2> QED BY <1>2, <2>2, <2>3, <2>4
<1>12. CASE d[r] = [by |-> t, kind |-> "exit"] /\ z = Front(s)
  <2>1. f[r] = Front(f[n])
    BY <1>7, <1>12
  <2>2. f[r] \in Seq(0..r)
    BY <1>9, <2>1, FrontOfConcat
  <2>3. \A q \in 1..n : m < q /\ d[q] = [by |-> t, kind |-> "enter"] =>
          Alike(f[r], z, 0..(q - 1), q..r)
    BY <1>10, <1>12, <2>1, ShrinkAlike
  <2>4. d[r] # [by |-> t, kind |-> "enter"]
    BY <1>12
  <2> QED BY <1>2, <2>2, <2>3, <2>4
<1>13. CASE d[r].by # t /\ z = s
  <2>1. f[r] = f[n]
    BY <1>7, <1>13
  <2>2. d[r] # [by |-> t, kind |-> "enter"]
    BY <1>13
  <2> QED BY <1>2, <1>9, <1>10, <1>13, <2>1, <2>2
<1> QED BY <1>11, <1>12, <1>13 DEF r

\* A callback without a record starts over.
LEMMA MirrorsGap ==
  ASSUME NEW c, NEW n \in Nat, NEW s, NEW m, NEW t, Mirrors(s, m, c, n, t),
         NEW z, z = Append(s, 0) \/ z = Front(s)
  PROVE  Mirrors(z, n, c, n, t)
<1>1. 0 \in 0..n /\ \A q \in 1..n : ~(n < q)
  BY SMT
<1>2. s \in Seq(0..n)
  BY DEF Mirrors
<1>3. z \in Seq(0..n)
  BY <1>1, <1>2, OneMoreOrLess
<1>4. \A f : Follows(f, c, n, t) => f[n] \in Seq(0..n)
  BY DEF Mirrors
<1> QED BY <1>1, <1>3, <1>4 DEF Mirrors

LEMMA NestInit == RingInit => NestInv
<1> SUFFICES ASSUME RingInit PROVE NestInv
  OBVIOUS
<1>1. call = << >> /\ writeSeq = 0 /\ rr.pc = "idle"
  BY DEF RingInit, Init, IdleRead
<1>2. call \in Seq([by : Writers, kind : {"enter", "exit"}]) /\ Len(call) = writeSeq
  BY <1>1, EmptySeq
<1>3. inside = [t \in Writers |-> << >>] /\ missed = [t \in Writers |-> 0]
  BY DEF RingInit, Outside
<1>4. \A t \in Writers : Mirrors(inside[t], missed[t], call, writeSeq, t)
  <2>1. << >> \in Seq(0..0) /\ 1..0 = {}
    BY EmptySeq, SMT
  <2> QED BY <1>1, <1>3, <2>1 DEF Mirrors, Follows
<1> QED BY <1>1, <1>2, <1>3, <1>4 DEF NestInv

\* A step of the ring, as far as the calls go.
NestFrame ==
    /\ UNCHANGED <<writeSeq, call, inside, missed>>
    /\ \/ rr'.pc = "idle"
       \/ rr.pc # "idle" /\ rr'.hdr = rr.hdr /\ atHeader' = atHeader

LEMMA NestSteps ==
  ASSUME ReadInv, [RingNext]_ringVars
  PROVE  \/ \E t \in Writers : Callback(t) /\ UNCHANGED <<rr, atHeader>>
         \/ \E t \in Writers : Unrecorded(t) /\ UNCHANGED <<rr, atHeader>>
         \/ Begin
         \/ NestFrame
<1>0. rr \in ReadRecord /\ WriterInv
  BY DEF ReadInv
<1>1. ASSUME UNCHANGED <<writeSeq, call, inside, missed, rr, atHeader>> PROVE NestFrame
  BY <1>1 DEF NestFrame
<1>2. ASSUME NEW t \in Writers, Publish(t) \/ Return(t) \/ \E f \in Fields : Store(t, f),
             UNCHANGED <<call, inside, missed, rr, atHeader>>
      PROVE  NestFrame
  BY <1>1, <1>2 DEF Publish, Return, Store
<1>3. CASE Kill
  BY <1>1, <1>3 DEF Kill, Crash
<1>4. ASSUME UNCHANGED readFrame, atHeader' = atHeader, rr.pc # "idle", rr'.hdr = rr.hdr
      PROVE  NestFrame
  BY <1>4 DEF NestFrame, readFrame
<1>5. CASE Before
  BY <1>0, <1>4, <1>5, BeforeDoes DEF Before
<1>6. ASSUME NEW f \in Fields, Copy(f) PROVE NestFrame
  <2>1. rr'.hdr = rr.hdr
    BY <1>0, <1>6 DEF Copy, ReadRecord
  <2> QED BY <1>4, <1>6, <2>1 DEF Copy
<1>7. CASE After
  BY <1>0, <1>4, <1>7, AfterDoes DEF After
<1>8. CASE End
  BY <1>0, <1>4, <1>8, EndDoes DEF End
<1>9. CASE ReadAgain
  BY <1>9 DEF ReadAgain, NestFrame, readFrame, IdleRead
<1>10. CASE UNCHANGED ringVars
  BY <1>1, <1>10 DEF ringVars, vars
<1> QED BY <1>2, <1>3, <1>5, <1>6, <1>7, <1>8, <1>9, <1>10 DEF RingNext, RecordStep

LEMMA NestNext == ReadInv /\ NestInv /\ [RingNext]_ringVars => NestInv'
<1> SUFFICES ASSUME ReadInv, NestInv, [RingNext]_ringVars PROVE NestInv'
  OBVIOUS
<1> DEFINE n == writeSeq
           Calls == [by : Writers, kind : {"enter", "exit"}]
<1>0. n \in Nat /\ (rr.pc # "idle" => rr.hdr \in Nat /\ rr.hdr =< n)
  <2>1. n \in Nat
    BY Sizes DEF ReadInv, WriterInv, TypeOK
  <2>2. rr.pc # "idle" => rr.hdr \in Nat /\ rr.hdr =< n
    BY Sizes DEF ReadInv, ReadRecord, TouchedInv
  <2> QED BY <2>1, <2>2
<1>1. ASSUME NEW t \in Writers, Callback(t), UNCHANGED <<rr, atHeader>> PROVE NestInv'
  <2>1. PICK kind \in {"enter", "exit"} :
           /\ call' = Append(call, [by |-> t, kind |-> kind])
           /\ inside' = [inside EXCEPT ![t] = IF kind = "enter" THEN Append(@, n + 1)
                                                               ELSE Front(@)]
    BY <1>1 DEF Callback, Enters, Leaves
  <2>2. n' = n + 1 /\ missed' = missed
    BY <1>1 DEF Callback, Claim
  <2> DEFINE e == [by |-> t, kind |-> kind]
  <2>3. e \in Calls /\ e.by = t
    OBVIOUS
  <2> HIDE DEF e
  <2>4. /\ call' \in Seq(Calls) /\ Len(call') = n + 1 /\ call'[n + 1] = e
        /\ \A q \in 1..n : call'[q] = call[q]
    <3>1. call \in Seq(Calls) /\ Len(call) = n /\ call' = Append(call, e)
      BY <2>1 DEF NestInv, e
    <3> QED BY <2>3, <3>1, AppendProperties
  <2>5. ASSUME NEW u \in Writers PROVE Mirrors(inside'[u], missed[u], call', n + 1, u)
    <3> DEFINE z == inside'[u]
    <3>1. Mirrors(inside[u], missed[u], call, n, u) /\ DOMAIN inside = Writers
      BY DEF NestInv
    <3>2. CASE u = t
      <4>1. z = IF kind = "enter" THEN Append(inside[u], n + 1) ELSE Front(inside[u])
        BY <2>1, <3>1, <3>2
      <4>2. call'[n + 1] = [by |-> u, kind |-> kind]
        BY <2>4, <3>2 DEF e
      <4> HIDE DEF z
      <4>3. \/ call'[n + 1] = [by |-> u, kind |-> "enter"] /\ z = Append(inside[u], n + 1)
            \/ call'[n + 1] = [by |-> u, kind |-> "exit"] /\ z = Front(inside[u])
        BY <4>1, <4>2
      <4>4. Mirrors(z, missed[u], call', n + 1, u)
        BY <1>0, <2>4, <3>1, <4>3, MirrorsGrow
      <4> QED BY <4>4 DEF z
    <3>3. CASE u # t
      <4>1. z = inside[u] /\ call'[n + 1].by # u
        BY <2>1, <2>3, <2>4, <3>1, <3>3
      <4> HIDE DEF z
      <4>2. Mirrors(z, missed[u], call', n + 1, u)
        BY <1>0, <2>4, <3>1, <4>1, MirrorsGrow
      <4> QED BY <4>2 DEF z
    <3> QED BY <3>2, <3>3
  <2>6. ASSUME rr.pc # "idle", NEW u \in Writers
        PROVE  Mirrors(atHeader.inside[u], atHeader.missed[u], call', rr.hdr, u)
    <3>1. \A q \in 1..rr.hdr : call'[q] = call[q]
      BY <1>0, <2>4, <2>6
    <3>2. Mirrors(atHeader.inside[u], atHeader.missed[u], call, rr.hdr, u)
      BY <2>6 DEF NestInv
    <3> QED BY <1>0, <2>6, <3>1, <3>2, MirrorsFirst
  <2>7. DOMAIN inside' = Writers /\ DOMAIN missed' = Writers
    BY <2>1, <2>2 DEF NestInv
  <2> QED BY <1>1, <2>2, <2>4, <2>5, <2>6, <2>7 DEF NestInv
<1>2. ASSUME NEW t \in Writers, Unrecorded(t), UNCHANGED <<rr, atHeader>> PROVE NestInv'
  <2>1. PICK z : /\ z = Append(inside[t], 0) \/ z = Front(inside[t])
                 /\ inside' = [inside EXCEPT ![t] = z]
    BY <1>2 DEF Unrecorded, Enters, Leaves
  <2>2. missed' = [missed EXCEPT ![t] = n] /\ UNCHANGED <<writeSeq, call>>
    BY <1>2 DEF Unrecorded, vars
  <2>3. DOMAIN inside = Writers /\ DOMAIN missed = Writers
    BY DEF NestInv
  <2>4. ASSUME NEW u \in Writers PROVE Mirrors(inside'[u], missed'[u], call, n, u)
    <3>1. Mirrors(inside[u], missed[u], call, n, u)
      BY DEF NestInv
    <3>2. CASE u = t
      <4>1. inside'[u] = z /\ missed'[u] = n
        BY <2>1, <2>2, <2>3, <3>2
      <4>2. Mirrors(z, n, call, n, t)
        BY <1>0, <2>1, <3>1, <3>2, MirrorsGap
      <4> QED BY <3>2, <4>1, <4>2
    <3>3. CASE u # t
      BY <2>1, <2>2, <2>3, <3>1, <3>3
    <3> QED BY <3>2, <3>3
  <2> QED BY <1>2, <2>1, <2>2, <2>3, <2>4 DEF NestInv
<1>3. CASE Begin
  <2>1. UNCHANGED <<writeSeq, call, inside, missed>>
        /\ atHeader' = [inside |-> inside, missed |-> missed]
    BY <1>3 DEF Begin, readFrame
  <2>2. rr'.hdr = n
    BY <1>3, BeginDoes DEF ReadInv
  <2> QED BY <2>1, <2>2 DEF NestInv
<1>4. CASE NestFrame
  BY <1>4 DEF NestFrame, NestInv
<1> QED BY <1>1, <1>2, <1>3, <1>4, NestSteps

\* A call is reported open exactly if its thread was in it when the header was read,
\* as far as its thread's callbacks since all have a record and no record of them could
\* be lost (report, mspti_ring.py; set_enabled_locked, hang_mspti.cpp).
THEOREM OpenCallsOpen == RingSpec => []OpenCallsAreOpen
<1>1. ReadInv /\ NestInv /\ ReadIsComplete => OpenCallsAreOpen
  <2> SUFFICES ASSUME ReadInv, NestInv, ReadIsComplete, rr.pc = "done",
                      NEW t \in Writers, NEW q \in Window(rr.hdr),
                      call[q] = [by |-> t, kind |-> "enter"], atHeader.missed[t] < q,
                      \A r \in q..rr.hdr : call[r].by = t =>
                          r \notin raced /\ SlotOf(r) \notin touched
               PROVE  q \in OpenCalls <=> q \in Range(atHeader.inside[t])
    BY DEF OpenCallsAreOpen
  <2> DEFINE n == rr.hdr
  <2>1. n \in Nat /\ q \in 1..n /\ Capacity \in Nat
    BY Sizes DEF ReadInv, ReadRecord, Window
  <2>2. \A r \in q..n : r \in Window(n)
    BY <2>1, SMT DEF Window
  <2>3. \A r \in q..n : call[r].by = t => r \in Listed
    BY <2>2 DEF ReadIsComplete, Intact, Listed
  <2>4. PICK f : Stacks(f, call, 1..n, n, t)
    BY <2>1, StacksExist
  <2>5. ASSUME NEW u \in Writers, q \in Range(Pending(u)) PROVE u = t
    <3>1. PICK g : Stacks(g, call, Listed, n, u) /\ Pending(u) = g[n]
      BY <2>1, PendingIs
    <3>2. n \in 0..n
      BY <2>1, SMT
    <3>3. g[n] \in Seq(Mine(call, u, n))
      BY <2>1, <3>1, <3>2, StackHolds
    <3>4. q \in Mine(call, u, n)
      BY <2>5, <3>1, <3>3, RangeOfSeq
    <3> QED BY <3>4 DEF Mine
  <2>6. q \in Range(Pending(t)) <=> q \in Range(f[n])
    <3>1. PICK g : Stacks(g, call, Listed, n, t) /\ Pending(t) = g[n]
      BY <2>1, PendingIs
    <3>2. call[q].by = t /\ call[q].kind = "enter"
      OBVIOUS
    <3> DEFINE Low == 1..(q - 1)
    <3>3. Alike(f[n], g[n], Low, q..n)
      BY <2>1, <2>3, <2>4, <3>1, <3>2, SameAbove
    <3>4. q \notin Low
      BY <2>1, SMT
    <3> HIDE DEF Low
    <3>5. q \in Range(f[n]) <=> q \in Range(g[n])
      BY <3>3, <3>4, AlikeRange
    <3> QED BY <3>1, <3>5
  <2>7. q \in Range(f[n]) <=> q \in Range(atHeader.inside[t])
    <3>1. Follows(f, call, n, t)
      <4>1. 0 \in 0..n /\ \A r \in 1..n : r \in 0..n /\ r # 0
        BY <2>1, SMT
      <4>2. \A r \in 0..n : f[r] = IF r = 0 THEN << >>
                        ELSE IF r \notin 1..n \/ call[r].by # t THEN f[r - 1]
                        ELSE IF call[r].kind = "enter" THEN Append(f[r - 1], r)
                        ELSE Front(f[r - 1])
        BY <2>4 DEF Stacks
      <4> QED BY <4>1, <4>2 DEF Follows
    <3> DEFINE Low == 0..(q - 1)
    <3>2. Alike(f[n], atHeader.inside[t], Low, q..n)
      BY <2>1, <3>1 DEF NestInv, Mirrors
    <3>3. q \notin Low
      BY <2>1, SMT
    <3> HIDE DEF Low
    <3> QED BY <3>2, <3>3, AlikeRange
  <2> HIDE DEF n
  <2> QED BY <2>5, <2>6, <2>7 DEF OpenCalls, n
<1>2. RingSpec => []NestInv
  <2>1. ReadInv /\ ReadInv' /\ NestInv /\ [RingNext]_ringVars => NestInv'
    BY NestNext
  <2> QED BY <2>1, NestInit, ReadInductive, PTL DEF RingSpec
<1> QED BY <1>1, <1>2, ReadInductive, ReadComplete, PTL
=============================================================================
