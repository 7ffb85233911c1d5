----------------------------- MODULE FlightRing -----------------------------
(***************************************************************************)
(* The mmap ring of src/src/flight_recorder.cpp: threads of one process    *)
(* append records without a lock; another process copies the file while    *)
(* they do, and src/flightrecorder/format.py filters the copy.  SIGKILL    *)
(* may stop all writers at any instruction; the file survives.             *)
(*                                                                         *)
(* A slot is its seq field and two groups of plain fields: head, before    *)
(* seq in the layout (timestamp_ns), and body, after it.  A group's value  *)
(* is the seq of the call that stored it.                                  *)
(***************************************************************************)
EXTENDS Integers, FiniteSets

CONSTANTS
    Writers,   \* threads that call flight_record
    Capacity,  \* slots of the ring
    MaxSeq,    \* bound: records written
    InOrder    \* FALSE: the release store of 0 does not hold back the plain
               \* stores that follow it, so they may become visible before it

ASSUME RingAssumption ==
    /\ Capacity \in Nat /\ Capacity >= 2      \* flight_recorder.cpp:57
    /\ MaxSeq \in Nat
    /\ InOrder \in BOOLEAN

Slots == 0..(Capacity - 1)
SlotOf(q) == (q - 1) % Capacity
Fields == {"head", "seq", "body"}

VARIABLES
    writeSeq,  \* header.write_seq
    lastNs,    \* header.last_ns: the record whose timestamp it holds
    mem,       \* the slots
    w,         \* locals of the writers: pc, claimed seq, stores not yet visible
    crashed,   \* the process was killed
    rd,        \* the reader: pc, header, fields still to copy, the copy
    raced,     \* history: records whose calls wrote a slot at the same time
    touched    \* history: slots some call could write since the header was read

vars == <<writeSeq, lastNs, mem, w, crashed, rd, raced, touched>>

Window(q) == {r \in 1..q : r > q - Capacity}

\* Calls that have claimed a slot and not yet published it.
InFlight(t) == w[t].pc = "fill"
WritersOf(i) == {t \in Writers : InFlight(t) /\ SlotOf(w[t].seq) = i}

Empty == [head |-> 0, seq |-> 0, body |-> 0]
IdleReader == [pc |-> "idle", hdr |-> 0, left |-> {}, copy |-> [i \in Slots |-> Empty]]

Init ==
    /\ writeSeq = 0 /\ lastNs = 0
    /\ mem = [i \in Slots |-> Empty]
    /\ w = [t \in Writers |-> [pc |-> "idle", seq |-> 0, todo |-> {}]]
    /\ crashed = FALSE
    /\ rd = IdleReader
    /\ raced = {} /\ touched = {}

-----------------------------------------------------------------------------
(* flight_record                                                           *)

\* Mutant: the value before the increment is taken for the claimed one.
ClaimOld(t) ==
    /\ ~crashed
    /\ w[t].pc = "idle" /\ writeSeq < MaxSeq
    /\ writeSeq' = writeSeq + 1
    /\ w' = [w EXCEPT ![t] = [pc |-> "fill", seq |-> writeSeq, todo |-> Fields]]
    /\ UNCHANGED <<lastNs, mem, crashed, rd, raced, touched>>

\* The atomic increment of write_seq.
Claim(t) ==
    /\ ~crashed
    /\ w[t].pc = "idle" /\ writeSeq < MaxSeq
    /\ writeSeq' = writeSeq + 1
    /\ w' = [w EXCEPT ![t] = [pc |-> "fill", seq |-> writeSeq + 1, todo |-> Fields]]
    /\ LET i == SlotOf(writeSeq + 1)
           others == {w[u].seq : u \in WritersOf(i)}
       IN  /\ raced' = raced \cup (IF others = {} THEN {} ELSE others \cup {writeSeq + 1})
           /\ touched' = touched \cup {i}
    /\ UNCHANGED <<lastNs, mem, crashed, rd>>

\* A store of 0 to seq, or of the call's data to a group of fields, becomes
\* visible.  All are visible before seq is published, and the 0 first if the
\* machine and the compiler keep these stores in order.
Store(t, f) ==
    /\ ~crashed
    /\ InFlight(t) /\ f \in w[t].todo
    /\ InOrder /\ f # "seq" => "seq" \notin w[t].todo
    /\ mem' = [mem EXCEPT ![SlotOf(w[t].seq)][f] = IF f = "seq" THEN 0 ELSE w[t].seq]
    /\ w' = [w EXCEPT ![t].todo = @ \ {f}]
    /\ UNCHANGED <<writeSeq, lastNs, crashed, rd, raced, touched>>

\* Mutant: the published seq is one too high.
PublishNext(t) ==
    /\ ~crashed
    /\ InFlight(t) /\ w[t].todo = {}
    /\ mem' = [mem EXCEPT ![SlotOf(w[t].seq)].seq = w[t].seq + 1]
    /\ w' = [w EXCEPT ![t].pc = "stamp"]
    /\ UNCHANGED <<writeSeq, lastNs, crashed, rd, raced, touched>>

Publish(t) ==
    /\ ~crashed
    /\ InFlight(t) /\ w[t].todo = {}
    /\ mem' = [mem EXCEPT ![SlotOf(w[t].seq)].seq = w[t].seq]
    /\ w' = [w EXCEPT ![t].pc = "stamp"]
    /\ UNCHANGED <<writeSeq, lastNs, crashed, rd, raced, touched>>

\* The last store takes the timestamp from the slot, not from a local.
Stamp(t) ==
    /\ ~crashed
    /\ w[t].pc = "stamp"
    /\ lastNs' = mem[SlotOf(w[t].seq)].head
    /\ w' = [w EXCEPT ![t].pc = "idle"]
    /\ UNCHANGED <<writeSeq, mem, crashed, rd, raced, touched>>

Crash ==
    /\ ~crashed
    /\ crashed' = TRUE
    /\ UNCHANGED <<writeSeq, lastNs, mem, w, rd, raced, touched>>

-----------------------------------------------------------------------------
(* read_events, on the live file or on the watchdog's copy of it           *)

ReadHeader ==
    /\ rd.pc = "idle"
    /\ rd' = [IdleReader EXCEPT !.pc = "copy", !.hdr = writeSeq, !.left = Slots \X Fields]
    /\ touched' = {i \in Slots : WritersOf(i) # {}}
    /\ UNCHANGED <<writeSeq, lastNs, mem, w, crashed, raced>>

\* The copy is made by plain reads, in no order the writers could rely on.
CopyField(i, f) ==
    /\ rd.pc = "copy" /\ <<i, f>> \in rd.left
    /\ rd' = [pc |-> IF rd.left = {<<i, f>>} THEN "done" ELSE "copy",
              hdr |-> rd.hdr, left |-> rd.left \ {<<i, f>>},
              copy |-> [rd.copy EXCEPT ![i][f] = mem[i][f]]]
    /\ UNCHANGED <<writeSeq, lastNs, mem, w, crashed, raced, touched>>

Forget ==
    /\ rd.pc = "done"
    /\ rd' = IdleReader /\ touched' = {}
    /\ UNCHANGED <<writeSeq, lastNs, mem, w, crashed, raced>>

\* Mutant: the newest record is outside the window.
AcceptedBeforeNewest == {i \in Slots : /\ rd.copy[i].seq \in Window(rd.hdr) \ {rd.hdr}
                                      /\ SlotOf(rd.copy[i].seq) = i}

\* The filter: seq within the header's window, in the slot it belongs to.
\* Every slot of a complete copy is in the file's range.
Accepted == {i \in Slots : rd.copy[i].seq \in Window(rd.hdr)
                              /\ SlotOf(rd.copy[i].seq) = i}

WriterNext ==
    \/ \E t \in Writers :
          Claim(t) \/ Publish(t) \/ Stamp(t) \/ \E f \in Fields : Store(t, f)
    \/ Crash

ReaderNext ==
    ReadHeader \/ Forget \/ \E i \in Slots, f \in Fields : CopyField(i, f)

Next == WriterNext \/ ReaderNext

Spec == Init /\ [][Next]_vars
-----------------------------------------------------------------------------
Cell == [Fields -> 0..MaxSeq]
WriterRecord == [pc : {"idle", "fill", "stamp"}, seq : 0..MaxSeq, todo : SUBSET Fields]
ReaderRecord == [pc : {"idle", "copy", "done"}, hdr : 0..MaxSeq,
                 left : SUBSET (Slots \X Fields), copy : [Slots -> Cell]]

\* Every variable has its type.
TypeOK ==
    /\ writeSeq \in 0..MaxSeq /\ lastNs \in 0..MaxSeq
    /\ mem \in [Slots -> Cell]
    /\ w \in [Writers -> WriterRecord] /\ rd \in ReaderRecord
    /\ crashed \in BOOLEAN
    /\ raced \subseteq 1..MaxSeq /\ touched \subseteq Slots

Intact(c, q) == c = [head |-> q, seq |-> q, body |-> q]

\* Nothing finished is lost: every record in the ring's window whose call is
\* not in flight lies complete in its slot, also after a crash at any point;
\* unless two calls Capacity apart wrote the slot at once.  (flight_record:
\* the claim, the slot it maps to, and the stores in it.)
FinishedIsRetained ==
    \A q \in Window(writeSeq) :
       \/ \E t \in Writers : InFlight(t) /\ w[t].seq = q
       \/ q \in raced
       \/ Intact(mem[SlotOf(q)], q)

\* What no call could write while it was copied is read faithfully: exactly
\* the records of the header's window are accepted, none torn and none missing.
QuietSlotsAreRead ==
    rd.pc = "done" =>
       \A i \in Slots \ touched :
          /\ i \in Accepted /\ rd.copy[i].seq \notin raced
                => Intact(rd.copy[i], rd.copy[i].seq)
          /\ \A q \in Window(rd.hdr) \ raced : SlotOf(q) = i =>
                i \in Accepted /\ rd.copy[i].seq = q

\* What a reader may think flight_recorder.h:26 promises: an accepted record
\* is the record of one call.  read_events does not look at seq again after
\* it has copied a slot.
AcceptedIsIntact ==
    rd.pc = "done" => \A i \in Accepted :
                         rd.copy[i].seq \notin raced => Intact(rd.copy[i], rd.copy[i].seq)
=============================================================================
