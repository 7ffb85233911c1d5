-------------------------- MODULE FlightRingProofs --------------------------
(***************************************************************************)
(* Theorems about the flight ring for any number of writers, any capacity  *)
(* and any order of a call's stores: it is well typed, finished records    *)
(* are retained, also after a crash, and a live copy of the ring is right  *)
(* about every slot that no call could write meanwhile.                    *)
(***************************************************************************)
EXTENDS FlightRing, TLAPS

-----------------------------------------------------------------------------
(* The slots of the window.                                                *)

LEMMA Sizes == Capacity \in Nat /\ Capacity >= 2 /\ MaxSeq \in Nat /\ InOrder \in BOOLEAN
BY RingAssumption

\* Two numbers with the same remainder are equal or a whole modulus apart.
LEMMA SameRemainder ==
  ASSUME NEW a \in Nat, NEW b \in Nat, NEW m \in Nat, m >= 1, a < b, a % m = b % m
  PROVE  b >= a + m
<1>1. /\ a = m * (a \div m) + (a % m) /\ b = m * (b \div m) + (b % m)
      /\ a \div m \in Int /\ b \div m \in Int
  BY SMT
<1> DEFINE k == (b \div m) - (a \div m)
<1>2. k \in Int /\ b - a = m * k
  BY <1>1, SMT
<1> HIDE DEF k
<1>3. k >= 1
  <2>1. k =< 0 => m * k =< 0
    BY <1>2, SMT
  <2> QED BY <1>2, <2>1
<1>4. m * k >= m
  BY <1>2, <1>3, SMT
<1> QED BY <1>2, <1>4

\* A slot holds one record of the window at most.
LEMMA OnePerSlot ==
  ASSUME NEW n \in Nat, NEW q \in Window(n), NEW r \in Window(n), SlotOf(q) = SlotOf(r)
  PROVE  q = r
<1>1. /\ q \in Nat /\ r \in Nat /\ q >= 1 /\ r >= 1 /\ q =< n /\ r =< n
      /\ q > n - Capacity /\ r > n - Capacity
  BY DEF Window
<1>2. (q - 1) % Capacity = (r - 1) % Capacity /\ q - 1 \in Nat /\ r - 1 \in Nat
  BY <1>1 DEF SlotOf
<1>3. ~(q < r)
  <2> SUFFICES ASSUME q < r PROVE FALSE
    OBVIOUS
  <2>1. q - 1 < r - 1 /\ Capacity >= 1
    BY <1>1, Sizes
  <2>2. r - 1 >= (q - 1) + Capacity
    BY <1>2, <2>1, SameRemainder, Sizes
  <2> QED BY <1>1, <2>2, Sizes
<1>4. ~(r < q)
  <2> SUFFICES ASSUME r < q PROVE FALSE
    OBVIOUS
  <2>1. r - 1 < q - 1 /\ Capacity >= 1
    BY <1>1, Sizes
  <2>2. q - 1 >= (r - 1) + Capacity
    BY <1>2, <2>1, SameRemainder, Sizes
  <2> QED BY <1>1, <2>2, Sizes
<1> QED BY <1>1, <1>3, <1>4

LEMMA SlotOfIsSlot == \A q \in Nat \ {0} : SlotOf(q) \in Slots
<1> SUFFICES ASSUME NEW q \in Nat \ {0} PROVE SlotOf(q) \in Slots
  OBVIOUS
<1>1. (q - 1) % Capacity \in 0..(Capacity - 1)
  BY Sizes, SMT
<1> QED BY <1>1 DEF SlotOf, Slots

-----------------------------------------------------------------------------
(* Type correctness.                                                       *)

LEMMA EmptyTypes == Empty \in Cell /\ IdleReader \in ReaderRecord
<1>1. Empty \in Cell
  BY Sizes DEF Empty, Cell, Fields
<1> QED BY <1>1, Sizes DEF IdleReader, ReaderRecord

\* A store changes one field of one slot.
LEMMA StoreType ==
  ASSUME NEW m \in [Slots -> Cell], NEW i \in Slots, NEW f \in Fields, NEW v \in 0..MaxSeq
  PROVE  /\ [m EXCEPT ![i][f] = v] \in [Slots -> Cell]
         /\ [m EXCEPT ![i][f] = v][i][f] = v
         /\ \A j \in Slots, g \in Fields : <<j, g>> # <<i, f>> =>
               [m EXCEPT ![i][f] = v][j][g] = m[j][g]
BY DEF Cell

\* A call has claimed a seq, and no other call in flight has it.
Claimed ==
    /\ \A t \in Writers : w[t].pc # "idle" => w[t].seq \in 1..writeSeq
    /\ \A t, u \in Writers : InFlight(t) /\ InFlight(u) /\ w[t].seq = w[u].seq => t = u

LEMMA TypeInit == Init => TypeOK
<1> SUFFICES ASSUME Init PROVE TypeOK
  OBVIOUS
<1>1. mem \in [Slots -> Cell] /\ rd \in ReaderRecord
  BY EmptyTypes DEF Init
<1>2. w \in [Writers -> WriterRecord]
  BY Sizes DEF Init, WriterRecord
<1>3. 0 \in 0..MaxSeq /\ writeSeq = 0 /\ lastNs = 0
  BY Sizes DEF Init
<1>4. raced = {} /\ touched = {} /\ crashed = FALSE
  BY DEF Init
<1> QED BY <1>1, <1>2, <1>3, <1>4 DEF TypeOK

LEMMA TypeNext == TypeOK /\ Claimed /\ [Next]_vars => TypeOK'
<1> SUFFICES ASSUME TypeOK, Claimed, [Next]_vars PROVE TypeOK'
  OBVIOUS
<1>1. ASSUME NEW t \in Writers, Claim(t) PROVE TypeOK'
  <2>1. writeSeq' = writeSeq + 1 /\ writeSeq + 1 \in 1..MaxSeq
    BY <1>1, Sizes DEF TypeOK, Claim
  <2>2. [pc |-> "fill", seq |-> writeSeq + 1, todo |-> Fields] \in WriterRecord
    BY <2>1, Sizes DEF TypeOK, WriterRecord
  <2>3. w' \in [Writers -> WriterRecord]
    BY <1>1, <2>2 DEF TypeOK, Claim
  <2>4. SlotOf(writeSeq + 1) \in Slots
    BY <2>1, SlotOfIsSlot, Sizes DEF TypeOK
  <2>5. \A u \in Writers : InFlight(u) => w[u].seq \in 1..MaxSeq
    BY Sizes DEF TypeOK, Claimed, InFlight
  <2>6. raced' \subseteq 1..MaxSeq
    BY <1>1, <2>1, <2>5 DEF TypeOK, Claim, WritersOf
  <2>7. touched' \subseteq Slots
    BY <1>1, <2>4 DEF TypeOK, Claim
  <2> QED BY <1>1, <2>1, <2>3, <2>6, <2>7, Sizes DEF TypeOK, Claim, WriterRecord
<1>2. ASSUME NEW t \in Writers, NEW f \in Fields, Store(t, f) PROVE TypeOK'
  <2>1. SlotOf(w[t].seq) \in Slots /\ w[t].seq \in 0..MaxSeq
    BY <1>2, SlotOfIsSlot, Sizes DEF TypeOK, Store, Claimed, InFlight
  <2>2. mem' \in [Slots -> Cell]
    <3> DEFINE v == IF f = "seq" THEN 0 ELSE w[t].seq
    <3>1. v \in 0..MaxSeq /\ mem' = [mem EXCEPT ![SlotOf(w[t].seq)][f] = v]
      BY <1>2, <2>1, Sizes DEF Store
    <3> HIDE DEF v
    <3> QED BY <2>1, <3>1, StoreType DEF TypeOK
  <2>3. [w[t] EXCEPT !.todo = w[t].todo \ {f}] \in WriterRecord
    BY DEF TypeOK, WriterRecord
  <2>4. w' \in [Writers -> WriterRecord]
    BY <1>2, <2>3 DEF TypeOK, Store
  <2> QED BY <1>2, <2>2, <2>4 DEF TypeOK, Store
<1>3. ASSUME NEW t \in Writers, Publish(t) PROVE TypeOK'
  <2>1. SlotOf(w[t].seq) \in Slots /\ w[t].seq \in 0..MaxSeq
    BY <1>3, SlotOfIsSlot, Sizes DEF TypeOK, Publish, Claimed, InFlight
  <2>2. mem' = [mem EXCEPT ![SlotOf(w[t].seq)]["seq"] = w[t].seq] /\ "seq" \in Fields
    BY <1>3 DEF TypeOK, Publish, Fields
  <2>3. mem' \in [Slots -> Cell]
    BY <2>1, <2>2, StoreType DEF TypeOK
  <2>4. [w[t] EXCEPT !.pc = "stamp"] \in WriterRecord
    BY DEF TypeOK, WriterRecord
  <2>5. w' \in [Writers -> WriterRecord]
    BY <1>3, <2>4 DEF TypeOK, Publish
  <2> QED BY <1>3, <2>3, <2>5 DEF TypeOK, Publish
<1>4. ASSUME NEW t \in Writers, Stamp(t) PROVE TypeOK'
  <2>1. "head" \in Fields /\ [w[t] EXCEPT !.pc = "idle"] \in WriterRecord
    BY DEF TypeOK, Fields, WriterRecord
  <2>2. w' \in [Writers -> WriterRecord]
    BY <1>4, <2>1 DEF TypeOK, Stamp
  <2>3. SlotOf(w[t].seq) \in Slots => lastNs' \in 0..MaxSeq
    BY <1>4, <2>1 DEF TypeOK, Cell, Stamp
  <2>4. SlotOf(w[t].seq) \in Slots
    <3>1. w[t].seq \in 1..writeSeq
      BY <1>4 DEF Stamp, Claimed
    <3> QED BY <3>1, SlotOfIsSlot DEF TypeOK
  <2> QED BY <1>4, <2>2, <2>3, <2>4 DEF TypeOK, Stamp
<1>5. CASE Crash \/ Forget \/ UNCHANGED vars
  BY <1>5, EmptyTypes DEF TypeOK, Crash, Forget, vars
<1>6. CASE ReadHeader
  <2>1. [IdleReader EXCEPT !.pc = "copy", !.hdr = writeSeq, !.left = Slots \X Fields] \in ReaderRecord
    BY EmptyTypes DEF TypeOK, ReaderRecord
  <2> QED BY <1>6, <2>1 DEF TypeOK, ReadHeader
<1>7. ASSUME NEW i \in Slots, NEW f \in Fields, CopyField(i, f) PROVE TypeOK'
  <2>1. [rd.copy EXCEPT ![i][f] = mem[i][f]] \in [Slots -> Cell]
    <3>1. rd.copy \in [Slots -> Cell] /\ mem[i][f] \in 0..MaxSeq
      BY DEF TypeOK, ReaderRecord, Cell
    <3> QED BY <3>1, StoreType
  <2>2. rd' \in ReaderRecord
    BY <1>7, <2>1 DEF TypeOK, CopyField, ReaderRecord
  <2> QED BY <1>7, <2>2 DEF TypeOK, CopyField
<1> QED BY <1>1, <1>2, <1>3, <1>4, <1>5, <1>6, <1>7 DEF Next, WriterNext, ReaderNext

LEMMA ClaimedInit == Init => Claimed
BY DEF Init, Claimed, InFlight

\* Steps after the claim.
LEMMA ClaimsKept ==
  ASSUME Claimed, writeSeq' = writeSeq,
         \A u \in Writers : /\ w'[u].seq = w[u].seq
                            /\ w'[u].pc # "idle" => w[u].pc # "idle"
                            /\ w'[u].pc = "fill" => w[u].pc = "fill"
  PROVE  Claimed'
<1>1. \A u \in Writers : w'[u].pc # "idle" => w'[u].seq \in 1..writeSeq'
  BY DEF Claimed
<1>2. \A u, v \in Writers : InFlight(u)' /\ InFlight(v)' /\ w'[u].seq = w'[v].seq => u = v
  BY DEF Claimed, InFlight
<1> QED BY <1>1, <1>2 DEF Claimed

LEMMA ClaimedNext == TypeOK /\ Claimed /\ [Next]_vars => Claimed'
<1> SUFFICES ASSUME TypeOK, Claimed, [Next]_vars PROVE Claimed'
  OBVIOUS
<1>0. w \in [Writers -> WriterRecord] /\ writeSeq \in Nat
  BY Sizes DEF TypeOK
<1>1. ASSUME NEW t \in Writers, Claim(t) PROVE Claimed'
  <2>1. writeSeq' = writeSeq + 1 /\ w'[t].seq = writeSeq + 1 /\ w'[t].pc = "fill"
    BY <1>0, <1>1 DEF Claim
  <2>2. \A u \in Writers : u # t => w'[u] = w[u]
    BY <1>0, <1>1 DEF Claim
  <2>3. \A u \in Writers : w'[u].pc # "idle" => w'[u].seq \in 1..writeSeq'
    BY <1>0, <2>1, <2>2 DEF Claimed
  <2>4. \A u \in Writers : u # t /\ InFlight(u)' => w'[u].seq =< writeSeq
    BY <1>0, <2>2 DEF Claimed, InFlight
  <2>5. \A u, v \in Writers : InFlight(u)' /\ InFlight(v)' /\ w'[u].seq = w'[v].seq => u = v
    <3> SUFFICES ASSUME NEW u \in Writers, NEW v \in Writers, InFlight(u)', InFlight(v)',
                        w'[u].seq = w'[v].seq
                 PROVE  u = v
      OBVIOUS
    <3>1. CASE u = t \/ v = t
      BY <1>0, <2>1, <2>4, <3>1
    <3>2. CASE u # t /\ v # t
      BY <2>2, <3>2 DEF Claimed, InFlight
    <3> QED BY <3>1, <3>2
  <2> QED BY <2>3, <2>5 DEF Claimed
<1>3. ASSUME NEW t \in Writers, Publish(t) PROVE Claimed'
  BY <1>0, <1>3, ClaimsKept DEF Publish, InFlight, WriterRecord
<1>4. ASSUME NEW t \in Writers, Stamp(t) PROVE Claimed'
  BY <1>0, <1>4, ClaimsKept DEF Stamp, InFlight, WriterRecord
<1>5. ASSUME NEW t \in Writers, NEW f \in Fields, Store(t, f) PROVE Claimed'
  BY <1>0, <1>5, ClaimsKept DEF Store, InFlight, WriterRecord
<1>6. ASSUME Crash \/ ReaderNext \/ UNCHANGED vars PROVE Claimed'
  <2>1. writeSeq' = writeSeq /\ w' = w
    BY <1>6 DEF Crash, ReaderNext, ReadHeader, Forget, CopyField, vars
  <2> QED BY <2>1 DEF Claimed, InFlight
<1> QED BY <1>1, <1>3, <1>4, <1>5, <1>6 DEF Next, WriterNext

\* The ring, its writers and its reader are well typed, for every capacity.
THEOREM TypeCorrect == Spec => []TypeOK
<1>1. Init => TypeOK /\ Claimed
  BY TypeInit, ClaimedInit
<1>2. TypeOK /\ Claimed /\ [Next]_vars => (TypeOK /\ Claimed)'
  BY TypeNext, ClaimedNext
<1> QED BY <1>1, <1>2, PTL DEF Spec

-----------------------------------------------------------------------------
(* Finished records are retained.  A slot of the ring may be written by      *)
(* several calls at once; what one of them stored stays only if no other     *)
(* call shares the slot, which is what the first two parts say.              *)

\* Calls in flight in one slot are recorded as raced.
MeetingsAreRaced ==
    \A t, u \in Writers :
       InFlight(t) /\ InFlight(u) /\ t # u /\ SlotOf(w[t].seq) = SlotOf(w[u].seq)
          => w[t].seq \in raced

\* So is a record of the window whose slot a call for another record may write.
LateCallsAreRaced ==
    \A t \in Writers : \A q \in Window(writeSeq) :
       InFlight(t) /\ SlotOf(q) = SlotOf(w[t].seq) /\ q # w[t].seq => q \in raced

\* What a call alone in its slot has stored is there.
StoresStay ==
    \A t \in Writers : InFlight(t) /\ w[t].seq \notin raced =>
       \A f \in {"head", "body"} \ w[t].todo : mem[SlotOf(w[t].seq)][f] = w[t].seq

RetainInv == MeetingsAreRaced /\ LateCallsAreRaced /\ StoresStay /\ FinishedIsRetained

LEMMA RetainInit == Init => RetainInv
<1> SUFFICES ASSUME Init PROVE RetainInv
  OBVIOUS
<1>1. \A t \in Writers : ~InFlight(t)
  BY DEF Init, InFlight
<1>2. Window(writeSeq) = {}
  BY DEF Init, Window
<1> QED BY <1>1, <1>2 DEF RetainInv, MeetingsAreRaced, LateCallsAreRaced, StoresStay, FinishedIsRetained

\* The window moves by one record.
LEMMA WindowMoves ==
  ASSUME NEW n \in Nat
  PROVE  n + 1 \in Window(n + 1) /\ Window(n + 1) \ {n + 1} \subseteq Window(n)
BY Sizes DEF Window

\* Steps that touch neither the slots nor a call in flight.
LEMMA RetainQuiet ==
  ASSUME RetainInv, mem' = mem, writeSeq' = writeSeq, raced' = raced,
         \A t \in Writers : (InFlight(t)' <=> InFlight(t)) /\ (InFlight(t) => w'[t] = w[t])
  PROVE  RetainInv'
<1>1. MeetingsAreRaced'
  BY DEF RetainInv, MeetingsAreRaced
<1>2. LateCallsAreRaced'
  BY DEF RetainInv, LateCallsAreRaced
<1>3. StoresStay'
  BY DEF RetainInv, StoresStay
<1>4. FinishedIsRetained'
  BY DEF RetainInv, FinishedIsRetained
<1> QED BY <1>1, <1>2, <1>3, <1>4 DEF RetainInv

LEMMA RetainClaim ==
  ASSUME TypeOK, Claimed, RetainInv, NEW t \in Writers, Claim(t)
  PROVE  RetainInv'
<1> DEFINE n == writeSeq + 1
           others == {w[u].seq : u \in WritersOf(SlotOf(n))}
<1>0. w \in [Writers -> WriterRecord] /\ writeSeq \in Nat
  BY Sizes DEF TypeOK
<1>1. writeSeq' = n /\ mem' = mem /\ raced \subseteq raced' /\ (others # {} => others \cup {n} \subseteq raced')
  BY DEF Claim
<1>2. /\ w'[t].pc = "fill" /\ w'[t].seq = n /\ w'[t].todo = Fields /\ ~InFlight(t) /\ InFlight(t)'
      /\ \A u \in Writers : u # t => w'[u] = w[u] /\ (InFlight(u)' <=> InFlight(u))
  BY <1>0 DEF Claim, InFlight
<1>3. \A u \in Writers : InFlight(u) => w[u].seq \in Nat /\ w[u].seq < n
  BY <1>0 DEF Claimed, InFlight
<1>4. n \in Window(n) /\ Window(n) \ {n} \subseteq Window(writeSeq)
  BY <1>0, WindowMoves
<1>5. \A u \in Writers : InFlight(u) /\ SlotOf(w[u].seq) = SlotOf(n)
                           => w[u].seq \in raced' /\ n \in raced'
  BY <1>1 DEF WritersOf
<1> HIDE DEF n, others
<1>6. MeetingsAreRaced'
  <2> SUFFICES ASSUME NEW u \in Writers, NEW v \in Writers, InFlight(u)', InFlight(v)', u # v,
                      SlotOf(w'[u].seq) = SlotOf(w'[v].seq)
               PROVE  w'[u].seq \in raced'
    BY DEF MeetingsAreRaced, SlotOf
  <2>1. CASE u = t
    BY <1>2, <1>5, <2>1
  <2>2. CASE v = t
    BY <1>2, <1>5, <2>2
  <2>3. CASE u # t /\ v # t
    BY <1>1, <1>2, <2>3 DEF RetainInv, MeetingsAreRaced
  <2> QED BY <2>1, <2>2, <2>3
<1>7. LateCallsAreRaced'
  <2> SUFFICES ASSUME NEW u \in Writers, NEW q \in Window(n), InFlight(u)',
                      SlotOf(q) = SlotOf(w'[u].seq), q # w'[u].seq
               PROVE  q \in raced'
    BY <1>1 DEF LateCallsAreRaced, SlotOf
  <2>1. CASE u = t
    BY <1>0, <1>2, <1>4, <2>1, OnePerSlot DEF n
  <2>2. CASE u # t /\ q = n
    BY <1>2, <1>5, <2>2
  <2>3. CASE u # t /\ q # n
    BY <1>1, <1>2, <1>4, <2>3 DEF RetainInv, LateCallsAreRaced
  <2> QED BY <2>1, <2>2, <2>3
<1>8. StoresStay'
  <2> SUFFICES ASSUME NEW u \in Writers, InFlight(u)', w'[u].seq \notin raced',
                      NEW f \in {"head", "body"} \ w'[u].todo
               PROVE  mem'[SlotOf(w'[u].seq)][f] = w'[u].seq
    BY DEF StoresStay, SlotOf
  <2>1. u # t
    BY <1>2 DEF Fields
  <2> QED BY <1>1, <1>2, <2>1 DEF RetainInv, StoresStay
<1>9. FinishedIsRetained'
  <2> SUFFICES ASSUME NEW q \in Window(n)
               PROVE  \/ \E u \in Writers : InFlight(u)' /\ w'[u].seq = q
                      \/ q \in raced'
                      \/ Intact(mem'[SlotOf(q)], q)
    BY <1>1 DEF FinishedIsRetained, SlotOf, Intact
  <2>1. CASE q = n
    BY <1>2, <2>1
  <2>2. CASE q # n
    <3>1. q \in Window(writeSeq)
      BY <1>4, <2>2
    <3> QED BY <1>1, <1>2, <3>1 DEF RetainInv, FinishedIsRetained
  <2> QED BY <2>1, <2>2
<1> QED BY <1>6, <1>7, <1>8, <1>9 DEF RetainInv

\* A store goes to the call's own slot; a call it meets there is raced.
LEMMA RetainStore ==
  ASSUME TypeOK, Claimed, RetainInv, NEW t \in Writers, NEW f \in Fields, Store(t, f)
  PROVE  RetainInv'
<1> DEFINE s == w[t].seq
<1>0. w \in [Writers -> WriterRecord] /\ mem \in [Slots -> Cell] /\ writeSeq \in 0..MaxSeq
  BY DEF TypeOK
<1>1. /\ writeSeq' = writeSeq /\ raced' = raced /\ InFlight(t)
      /\ w'[t].todo = w[t].todo \ {f}
      /\ \A u \in Writers : /\ w'[u].seq = w[u].seq /\ (InFlight(u)' <=> InFlight(u))
                            /\ (u # t => w'[u] = w[u])
  BY <1>0 DEF Store, InFlight, WriterRecord
<1>2. s \in 1..MaxSeq /\ SlotOf(s) \in Slots
  BY <1>0, <1>1, SlotOfIsSlot, Sizes DEF Claimed, InFlight
<1>3. /\ f # "seq" => mem'[SlotOf(s)][f] = s
      /\ \A j \in Slots, g \in Fields : <<j, g>> # <<SlotOf(s), f>> => mem'[j][g] = mem[j][g]
      /\ \A j \in Slots : j # SlotOf(s) => mem'[j] = mem[j]
  <2> DEFINE v == IF f = "seq" THEN 0 ELSE s
  <2>1. v \in 0..MaxSeq /\ mem' = [mem EXCEPT ![SlotOf(s)][f] = v] /\ (f # "seq" => v = s)
    BY <1>2, Sizes DEF Store
  <2> HIDE DEF v
  <2>2. \A j \in Slots : j # SlotOf(s) => mem'[j] = mem[j]
    BY <1>0, <2>1
  <2> QED BY <1>0, <1>2, <2>1, <2>2, StoreType
<1>4. MeetingsAreRaced' /\ LateCallsAreRaced'
  BY <1>1 DEF RetainInv, MeetingsAreRaced, LateCallsAreRaced, SlotOf
<1>5. StoresStay'
  <2> SUFFICES ASSUME NEW u \in Writers, InFlight(u), w[u].seq \notin raced,
                      NEW g \in {"head", "body"} \ w'[u].todo
               PROVE  mem'[SlotOf(w[u].seq)][g] = w[u].seq
    BY <1>1 DEF StoresStay, SlotOf
  <2>0. g \in Fields /\ SlotOf(w[u].seq) \in Slots
    BY <1>0, SlotOfIsSlot DEF Fields, Claimed, InFlight
  <2>1. CASE u = t /\ g = f
    BY <1>3, <2>1
  <2>2. CASE u = t /\ g # f
    BY <1>1, <1>2, <1>3, <2>0, <2>2 DEF RetainInv, StoresStay
  <2>3. CASE u # t
    <3>1. SlotOf(w[u].seq) # SlotOf(s)
      BY <1>1, <2>3 DEF RetainInv, MeetingsAreRaced
    <3> QED BY <1>1, <1>3, <2>0, <2>3, <3>1 DEF RetainInv, StoresStay
  <2> QED BY <2>1, <2>2, <2>3
<1>6. FinishedIsRetained'
  <2> SUFFICES ASSUME NEW q \in Window(writeSeq), q \notin raced,
                      \A u \in Writers : ~(InFlight(u) /\ w[u].seq = q)
               PROVE  Intact(mem'[SlotOf(q)], q)
    <3>1. Window(writeSeq)' = Window(writeSeq)
      BY <1>1 DEF Window
    <3> QED BY <1>1, <3>1 DEF FinishedIsRetained, SlotOf, Intact
  <2>1. SlotOf(q) # SlotOf(s)
    BY <1>1 DEF RetainInv, LateCallsAreRaced
  <2>2. SlotOf(q) \in Slots
    BY <1>0, SlotOfIsSlot DEF Window
  <2> QED BY <1>3, <2>1, <2>2 DEF RetainInv, FinishedIsRetained
<1> QED BY <1>4, <1>5, <1>6 DEF RetainInv

LEMMA IntactCell ==
  ASSUME NEW c \in Cell, NEW q, c["head"] = q, c["seq"] = q, c["body"] = q
  PROVE  Intact(c, q)
BY DEF Cell, Fields, Intact

\* The publication completes the record, if nobody shares the slot.
LEMMA RetainPublish ==
  ASSUME TypeOK, Claimed, RetainInv, NEW t \in Writers, Publish(t)
  PROVE  RetainInv'
<1> DEFINE s == w[t].seq
<1>0. w \in [Writers -> WriterRecord] /\ mem \in [Slots -> Cell] /\ writeSeq \in 0..MaxSeq
  BY DEF TypeOK
<1>1. /\ writeSeq' = writeSeq /\ raced' = raced /\ InFlight(t) /\ ~InFlight(t)' /\ w[t].todo = {}
      /\ \A u \in Writers : u # t => w'[u] = w[u] /\ (InFlight(u)' <=> InFlight(u))
  BY <1>0 DEF Publish, InFlight, WriterRecord
<1>2. s \in 1..MaxSeq /\ SlotOf(s) \in Slots /\ "seq" \in Fields
  BY <1>0, <1>1, SlotOfIsSlot, Sizes DEF Claimed, InFlight, Fields
<1>3. /\ mem'[SlotOf(s)] \in Cell /\ mem'[SlotOf(s)]["seq"] = s
      /\ \A j \in Slots, g \in Fields : <<j, g>> # <<SlotOf(s), "seq">> => mem'[j][g] = mem[j][g]
      /\ \A j \in Slots : j # SlotOf(s) => mem'[j] = mem[j]
  <2>1. mem' = [mem EXCEPT ![SlotOf(s)]["seq"] = s]
    BY DEF Publish
  <2>3. s \in 0..MaxSeq
    BY <1>2, Sizes
  <2>2. \A j \in Slots : j # SlotOf(s) => mem'[j] = mem[j]
    BY <1>0, <2>1
  <2> QED BY <1>0, <1>2, <2>1, <2>2, <2>3, StoreType
<1>4. MeetingsAreRaced' /\ LateCallsAreRaced'
  BY <1>1 DEF RetainInv, MeetingsAreRaced, LateCallsAreRaced, SlotOf
<1>5. StoresStay'
  <2> SUFFICES ASSUME NEW u \in Writers, InFlight(u)', w'[u].seq \notin raced,
                      NEW g \in {"head", "body"} \ w'[u].todo
               PROVE  mem'[SlotOf(w'[u].seq)][g] = w'[u].seq
    BY <1>1 DEF StoresStay, SlotOf
  <2>1. u # t /\ w'[u] = w[u] /\ InFlight(u)
    BY <1>1
  <2>2. g \in Fields /\ SlotOf(w[u].seq) \in Slots /\ g # "seq"
    BY <1>0, <2>1, SlotOfIsSlot DEF Fields, Claimed, InFlight
  <2> QED BY <1>3, <2>1, <2>2 DEF RetainInv, StoresStay
<1>6. FinishedIsRetained'
  <2> SUFFICES ASSUME NEW q \in Window(writeSeq), q \notin raced,
                      \A u \in Writers : ~(InFlight(u)' /\ w'[u].seq = q)
               PROVE  Intact(mem'[SlotOf(q)], q)
    BY <1>1 DEF FinishedIsRetained, SlotOf, Intact, Window
  <2>1. CASE q = s
    <3>1. mem[SlotOf(s)]["head"] = s /\ mem[SlotOf(s)]["body"] = s
      BY <1>1, <2>1 DEF RetainInv, StoresStay
    <3>2. mem'[SlotOf(s)]["head"] = s /\ mem'[SlotOf(s)]["body"] = s
      BY <1>2, <1>3, <3>1 DEF Fields
    <3> QED BY <1>3, <2>1, <3>2, IntactCell
  <2>2. CASE q # s
    <3>1. SlotOf(q) # SlotOf(s)
      BY <1>1, <2>2 DEF RetainInv, LateCallsAreRaced
    <3>2. SlotOf(q) \in Slots
      BY <1>0, SlotOfIsSlot DEF Window
    <3>3. \A u \in Writers : ~(InFlight(u) /\ w[u].seq = q)
      BY <1>1, <2>2
    <3> QED BY <1>3, <3>1, <3>2, <3>3 DEF RetainInv, FinishedIsRetained
  <2> QED BY <2>1, <2>2
<1> QED BY <1>4, <1>5, <1>6 DEF RetainInv

LEMMA RetainNext == TypeOK /\ Claimed /\ RetainInv /\ [Next]_vars => RetainInv'
<1> SUFFICES ASSUME TypeOK, Claimed, RetainInv, [Next]_vars PROVE RetainInv'
  OBVIOUS
<1>1. ASSUME NEW t \in Writers, Stamp(t) PROVE RetainInv'
  BY <1>1, RetainQuiet DEF TypeOK, WriterRecord, Stamp, InFlight
<1>2. ASSUME Crash \/ ReaderNext \/ UNCHANGED vars PROVE RetainInv'
  <2>1. mem' = mem /\ writeSeq' = writeSeq /\ raced' = raced /\ w' = w
    BY <1>2 DEF Crash, ReaderNext, ReadHeader, Forget, CopyField, vars
  <2> QED BY <2>1, RetainQuiet DEF InFlight
<1> QED BY <1>1, <1>2, RetainClaim, RetainStore, RetainPublish DEF Next, WriterNext

\* Nothing finished is lost: every record of the window whose call is not in
\* flight is complete in its slot, at every moment and so after a crash, for
\* every capacity and number of threads, whichever of a call's stores is
\* visible first; except for records whose calls wrote one slot at once.
THEOREM FinishedRetained == Spec => []FinishedIsRetained
<1>1. Init => TypeOK /\ Claimed /\ RetainInv
  BY TypeInit, ClaimedInit, RetainInit
<1>2. TypeOK /\ Claimed /\ RetainInv /\ [Next]_vars => (TypeOK /\ Claimed /\ RetainInv)'
  BY TypeNext, ClaimedNext, RetainNext
<1>3. RetainInv => FinishedIsRetained
  BY DEF RetainInv
<1> QED BY <1>1, <1>2, <1>3, PTL DEF Spec

-----------------------------------------------------------------------------
(* A live copy.                                                            *)

\* The seqs a whole capacity apart share a slot.
LEMMA NextLap ==
  ASSUME NEW q \in Nat \ {0}
  PROVE  SlotOf(q + Capacity) = SlotOf(q)
<1> DEFINE a == q - 1
           r == a % Capacity
           s == (a + Capacity) % Capacity
           k == (a \div Capacity) + 1 - ((a + Capacity) \div Capacity)
<1>1. /\ a \in Nat /\ r \in 0..(Capacity - 1) /\ s \in 0..(Capacity - 1)
      /\ a = Capacity * (a \div Capacity) + r
      /\ a + Capacity = Capacity * ((a + Capacity) \div Capacity) + s
      /\ a \div Capacity \in Int /\ (a + Capacity) \div Capacity \in Int
  BY Sizes, SMT
<1>2. k \in Int /\ s - r = Capacity * k
  BY <1>1, Sizes, SMT
<1> HIDE DEF k
<1>3. k = 0
  <2>1. k >= 1 => Capacity * k >= Capacity
    BY <1>2, Sizes, SMT
  <2>2. k =< -1 => Capacity * k =< -Capacity
    BY <1>2, Sizes, SMT
  <2> HIDE DEF r, s, a
  <2> QED BY <1>1, <1>2, <2>1, <2>2, Sizes
<1>4. (q + Capacity) - 1 = a + Capacity
  BY Sizes
<1> QED BY <1>1, <1>2, <1>3, <1>4, Sizes DEF SlotOf

\* While a copy is made: a call writes only touched slots, every claim since the
\* header was read has touched its slot, and what is copied of another slot is there.
QuietInv ==
    rd.pc # "idle" =>
       /\ \A t \in Writers : InFlight(t) => SlotOf(w[t].seq) \in touched
       /\ rd.hdr =< writeSeq
       /\ \A q \in 1..writeSeq : q > rd.hdr => SlotOf(q) \in touched
       /\ \A i \in Slots \ touched, f \in Fields :
             <<i, f>> \notin rd.left => rd.copy[i][f] = mem[i][f]
       /\ rd.pc = "done" => rd.left = {}

LEMMA QuietNext == TypeOK /\ Claimed /\ QuietInv /\ [Next]_vars => QuietInv'
<1> SUFFICES ASSUME TypeOK, Claimed, QuietInv, [Next]_vars PROVE QuietInv'
  OBVIOUS
<1>0. /\ w \in [Writers -> WriterRecord] /\ writeSeq \in Nat /\ rd \in ReaderRecord
      /\ mem \in [Slots -> Cell] /\ rd.hdr \in Nat
  BY Sizes DEF TypeOK, ReaderRecord
<1>1. ASSUME NEW t \in Writers, Claim(t) PROVE QuietInv'
  <2>1. /\ writeSeq' = writeSeq + 1 /\ mem' = mem /\ rd' = rd
        /\ touched' = touched \cup {SlotOf(writeSeq + 1)}
        /\ w'[t].seq = writeSeq + 1 /\ \A u \in Writers : u # t => w'[u] = w[u]
    BY <1>0, <1>1 DEF Claim
  <2>2. rd.pc # "idle" =>
           \A u \in Writers : InFlight(u)' => SlotOf(w'[u].seq) \in touched'
    BY <2>1 DEF QuietInv, InFlight
  <2>3. rd.pc # "idle" => rd.hdr =< writeSeq' /\
           \A q \in 1..writeSeq' : q > rd.hdr => SlotOf(q) \in touched'
    BY <1>0, <2>1 DEF QuietInv
  <2> QED BY <2>1, <2>2, <2>3 DEF QuietInv, SlotOf, InFlight
\* A store changes only the slot of its call.
<1>2. ASSUME NEW t \in Writers, InFlight(t), UNCHANGED <<writeSeq, rd, touched>>,
             \A i \in Slots : i # SlotOf(w[t].seq) => mem'[i] = mem[i],
             \A u \in Writers : w'[u].seq = w[u].seq /\ (InFlight(u)' => InFlight(u))
      PROVE  QuietInv'
  BY <1>2 DEF QuietInv, SlotOf
<1>3. ASSUME NEW t \in Writers, NEW f \in Fields, Store(t, f) PROVE QuietInv'
  <2>1. \A i \in Slots : i # SlotOf(w[t].seq) => mem'[i] = mem[i]
    BY <1>0, <1>3 DEF Store
  <2>2. \A u \in Writers : w'[u].seq = w[u].seq /\ (InFlight(u)' => InFlight(u))
    BY <1>0, <1>3 DEF Store, InFlight, WriterRecord
  <2> QED BY <1>2, <1>3, <2>1, <2>2 DEF Store
<1>4. ASSUME NEW t \in Writers, Publish(t) PROVE QuietInv'
  <2>1. \A i \in Slots : i # SlotOf(w[t].seq) => mem'[i] = mem[i]
    BY <1>0, <1>4 DEF Publish
  <2>2. \A u \in Writers : w'[u].seq = w[u].seq /\ (InFlight(u)' => InFlight(u))
    BY <1>0, <1>4 DEF Publish, InFlight, WriterRecord
  <2> QED BY <1>2, <1>4, <2>1, <2>2 DEF Publish
<1>5. ASSUME NEW t \in Writers, Stamp(t) PROVE QuietInv'
  <2>1. \A u \in Writers : w'[u].seq = w[u].seq /\ (InFlight(u)' => InFlight(u))
    BY <1>0, <1>5 DEF Stamp, InFlight, WriterRecord
  <2> QED BY <1>5, <2>1 DEF Stamp, QuietInv, SlotOf
<1>6. CASE ReadHeader
  <2>1. /\ rd'.left = Slots \X Fields /\ rd'.hdr = writeSeq /\ rd'.pc = "copy"
        /\ touched' = {i \in Slots : WritersOf(i) # {}}
        /\ UNCHANGED <<writeSeq, w, mem>>
    BY <1>6 DEF ReadHeader, IdleReader
  <2>2. ASSUME NEW t \in Writers, InFlight(t) PROVE SlotOf(w[t].seq) \in touched'
    <3>1. SlotOf(w[t].seq) \in Slots
      BY <1>0, <2>2, SlotOfIsSlot DEF Claimed, InFlight
    <3> QED BY <2>1, <2>2, <3>1 DEF WritersOf
  <2> QED BY <1>0, <2>1, <2>2 DEF QuietInv, SlotOf, InFlight
<1>7. ASSUME NEW i \in Slots, NEW f \in Fields, CopyField(i, f) PROVE QuietInv'
  <2>1. /\ rd.pc = "copy" /\ rd'.hdr = rd.hdr /\ rd'.left = rd.left \ {<<i, f>>}
        /\ rd'.copy = [rd.copy EXCEPT ![i][f] = mem[i][f]]
        /\ UNCHANGED <<writeSeq, w, mem, touched>>
        /\ rd'.pc = "done" => rd'.left = {}
    BY <1>7 DEF CopyField
  <2>2. ASSUME NEW j \in Slots \ touched, NEW g \in Fields, <<j, g>> \notin rd'.left
        PROVE  rd'.copy[j][g] = mem[j][g]
    <3>0. mem[i][f] \in 0..MaxSeq /\ rd.copy \in [Slots -> Cell]
      BY <1>0 DEF Cell, ReaderRecord
    <3>1. CASE <<j, g>> = <<i, f>>
      BY <2>1, <3>0, <3>1, StoreType
    <3>2. CASE <<j, g>> # <<i, f>>
      <4>1. rd'.copy[j][g] = rd.copy[j][g]
        BY <2>1, <3>0, <3>2, StoreType
      <4> QED BY <2>1, <2>2, <3>2, <4>1 DEF QuietInv
    <3> QED BY <3>1, <3>2
  <2> QED BY <2>1, <2>2 DEF QuietInv, SlotOf, InFlight
<1>8. CASE Forget
  BY <1>8 DEF Forget, IdleReader, QuietInv
<1>9. CASE Crash \/ UNCHANGED vars
  BY <1>9 DEF Crash, vars, QuietInv, SlotOf, InFlight
<1> QED BY <1>1, <1>3, <1>4, <1>5, <1>6, <1>7, <1>8, <1>9 DEF Next, WriterNext, ReaderNext

\* A record of the header's window in an untouched slot is still in the ring's.
LEMMA QuietStays ==
  ASSUME TypeOK, QuietInv, rd.pc # "idle",
         NEW q \in Window(rd.hdr), SlotOf(q) \notin touched
  PROVE  q \in Window(writeSeq)
<1>1. q \in Nat \ {0} /\ q =< rd.hdr /\ q > rd.hdr - Capacity /\ rd.hdr \in Nat
      /\ writeSeq \in Nat /\ rd.hdr =< writeSeq
  BY Sizes DEF Window, TypeOK, ReaderRecord, QuietInv
<1>2. ASSUME q =< writeSeq - Capacity PROVE FALSE
  <2>1. q + Capacity \in 1..writeSeq /\ q + Capacity > rd.hdr
    BY <1>1, <1>2, Sizes
  <2>2. SlotOf(q + Capacity) \in touched
    BY <2>1 DEF QuietInv
  <2> QED BY <1>1, <2>2, NextLap
<1> QED BY <1>1, <1>2, Sizes DEF Window

\* A copy of the live ring is right about every slot that no call could write while
\* it was made: it accepts exactly the records of the window there, none torn.
THEOREM QuietRead == Spec => []QuietSlotsAreRead
<1>1. Init => TypeOK /\ Claimed /\ RetainInv /\ QuietInv
  <2>1. Init => QuietInv
    BY DEF Init, IdleReader, QuietInv
  <2> QED BY <2>1, TypeInit, ClaimedInit, RetainInit
<1>2. TypeOK /\ Claimed /\ RetainInv /\ QuietInv /\ [Next]_vars
      => (TypeOK /\ Claimed /\ RetainInv /\ QuietInv)'
  BY TypeNext, ClaimedNext, RetainNext, QuietNext
<1>3. TypeOK /\ Claimed /\ RetainInv /\ QuietInv => QuietSlotsAreRead
  <2> SUFFICES ASSUME TypeOK, Claimed, RetainInv, QuietInv, rd.pc = "done",
                      NEW i \in Slots \ touched
               PROVE  /\ i \in Accepted /\ rd.copy[i].seq \notin raced
                            => Intact(rd.copy[i], rd.copy[i].seq)
                      /\ \A q \in Window(rd.hdr) \ raced : SlotOf(q) = i =>
                            i \in Accepted /\ rd.copy[i].seq = q
    BY DEF QuietSlotsAreRead
  <2>1. ASSUME NEW q \in Window(rd.hdr) \ raced, SlotOf(q) = i
        PROVE  Intact(rd.copy[i], q)
    <3>1. q \in Window(writeSeq)
      BY <2>1, QuietStays
    <3>2. Intact(mem[i], q)
      BY <2>1, <3>1 DEF RetainInv, FinishedIsRetained, QuietInv
    <3>3. \A f \in Fields : rd.copy[i][f] = mem[i][f]
      BY DEF QuietInv
    <3>4. rd.copy[i] \in Cell
      BY DEF TypeOK, ReaderRecord
    <3> QED BY <3>2, <3>3, <3>4, IntactCell DEF Intact, Fields
  <2>2. ASSUME NEW q, Intact(rd.copy[i], q) PROVE rd.copy[i].seq = q
    BY <2>2 DEF Intact
  <2>3. i \in Accepted => rd.copy[i].seq \in Window(rd.hdr) /\ SlotOf(rd.copy[i].seq) = i
    BY DEF Accepted
  <2> QED BY <2>1, <2>2, <2>3 DEF Accepted
<1> QED BY <1>1, <1>2, <1>3, PTL DEF Spec
=============================================================================
