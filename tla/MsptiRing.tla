------------------------------ MODULE MsptiRing ------------------------------
(***************************************************************************)
(* The ring of the msPTI collector: record of src/src/hang_mspti.cpp       *)
(* claims, clears, fills and publishes a slot as flight_record does        *)
(* (FlightRing), without a last_ns; read_ring of                           *)
(* src/flightrecorder/mspti_ring.py maps the live file and looks at a      *)
(* slot's seq before and after it copies the slot.  The collector is       *)
(* switched off and on while the process runs, so a callback may have no   *)
(* record.                                                                 *)
(***************************************************************************)
EXTENDS FlightRing, SequencesExt

CONSTANTS
    MaxDepth,  \* bound: calls of one thread inside each other
    Gaps       \* bound: threads, with a value of write_seq, whose callbacks may leave no record

VARIABLES
    rr,      \* read_ring: pc, written, the seq it looks for, the copy, events
    call,    \* what the callback of a thread wrote with a seq: an enter or an exit
    inside,  \* the calls a thread is in, the innermost last: the seq of the enter's
             \* record, 0 if it has none
    missed,  \* write_seq when a callback of the thread last left no record
    atHeader \* inside and missed when the header was read

ringVars == <<vars, rr, call, inside, missed, atHeader>>

IdleRead == [pc |-> "idle", hdr |-> 0, q |-> 0, left |-> {}, copy |-> Empty,
             events |-> {}]

Outside == [inside |-> [t \in Writers |-> << >>], missed |-> [t \in Writers |-> 0]]

RingInit ==
    /\ Init /\ rr = IdleRead /\ call = << >>
    /\ inside = Outside.inside /\ missed = Outside.missed /\ atHeader = Outside

-----------------------------------------------------------------------------
(* record                                                                  *)

Return(t) ==
    /\ ~crashed
    /\ w[t].pc = "stamp"
    /\ w' = [w EXCEPT ![t].pc = "idle"]
    /\ UNCHANGED <<writeSeq, lastNs, mem, crashed, rd, raced, touched>>

Enters(t, seq) ==
    /\ Len(inside[t]) < MaxDepth
    /\ inside' = [inside EXCEPT ![t] = Append(@, seq)]

Leaves(t) ==
    /\ inside[t] # << >>
    /\ inside' = [inside EXCEPT ![t] = Front(@)]

\* callback: a thread enters a call, which may make another, or leaves its
\* innermost one.  All calls are of one callback ID.
Callback(t) ==
    /\ Claim(t)
    /\ \/ Enters(t, writeSeq + 1) /\ call' = Append(call, [by |-> t, kind |-> "enter"])
       \/ Leaves(t) /\ call' = Append(call, [by |-> t, kind |-> "exit"])
    /\ UNCHANGED missed

\* The same while set_enabled_locked has the domain of the call switched off; it
\* may do so, and back, between any two calls or callbacks.
Unrecorded(t) ==
    /\ ~crashed /\ w[t].pc = "idle" /\ <<t, writeSeq>> \in Gaps
    /\ Enters(t, 0) \/ Leaves(t)
    /\ missed' = [missed EXCEPT ![t] = writeSeq]
    /\ UNCHANGED <<vars, call>>

RecordStep ==
    /\ \/ \E t \in Writers : Callback(t) \/ Unrecorded(t)
       \/ /\ \E t \in Writers :
                Publish(t) \/ Return(t) \/ \E f \in Fields : Store(t, f)
          /\ UNCHANGED <<call, inside, missed>>
    /\ UNCHANGED <<rr, atHeader>>

Kill == Crash /\ UNCHANGED <<rr, call, inside, missed, atHeader>>

-----------------------------------------------------------------------------
(* read_ring                                                               *)

readFrame == <<writeSeq, lastNs, mem, w, crashed, rd, raced, call, inside, missed>>

\* Mutant: the oldest record of the window is left out.
OldestMissed(written) == IF written > Capacity THEN written - Capacity + 2 ELSE 1

\* max(1, written - capacity + 1)
Oldest(written) == IF written > Capacity THEN written - Capacity + 1 ELSE 1

Begin ==
    /\ rr.pc = "idle"
    /\ rr' = [IdleRead EXCEPT !.pc = "before", !.hdr = writeSeq, !.q = Oldest(writeSeq)]
    /\ touched' = {i \in Slots : WritersOf(i) # {}}
    /\ atHeader' = [inside |-> inside, missed |-> missed]
    /\ UNCHANGED readFrame

NextSeq(r) == [r EXCEPT !.pc = "before", !.q = @ + 1, !.copy = Empty]

\* Another record is in the slot, or none: go on to the next seq.
Before ==
    /\ rr.pc = "before" /\ rr.q =< rr.hdr
    /\ rr' = IF mem[SlotOf(rr.q)].seq = rr.q
             THEN [rr EXCEPT !.pc = "copy", !.left = Fields]
             ELSE NextSeq(rr)
    /\ UNCHANGED <<readFrame, touched, atHeader>>

\* unpack_from: the fields of the slot, seq among them.
Copy(f) ==
    /\ rr.pc = "copy" /\ f \in rr.left
    /\ rr' = [rr EXCEPT !.copy[f] = mem[SlotOf(rr.q)][f], !.left = @ \ {f}]
    /\ UNCHANGED <<readFrame, touched, atHeader>>

\* Mutant: seq is not read again after the copy.
AfterUnchecked ==
    /\ rr.pc = "copy" /\ rr.left = {}
    /\ rr' = IF rr.copy.seq = rr.q
             THEN NextSeq([rr EXCEPT !.events = @ \cup {rr.copy}]) ELSE NextSeq(rr)
    /\ UNCHANGED <<readFrame, touched, atHeader>>

After ==
    /\ rr.pc = "copy" /\ rr.left = {}
    /\ rr' = IF rr.copy.seq = rr.q /\ mem[SlotOf(rr.q)].seq = rr.q
             THEN NextSeq([rr EXCEPT !.events = @ \cup {rr.copy}]) ELSE NextSeq(rr)
    /\ UNCHANGED <<readFrame, touched, atHeader>>

End ==
    /\ rr.pc = "before" /\ rr.q > rr.hdr
    /\ rr' = [rr EXCEPT !.pc = "done"]
    /\ UNCHANGED <<readFrame, touched, atHeader>>

ReadAgain ==
    /\ rr.pc = "done"
    /\ rr' = IdleRead /\ touched' = {} /\ atHeader' = Outside
    /\ UNCHANGED readFrame

-----------------------------------------------------------------------------
(* report                                                                  *)

Listed == {c.seq : c \in rr.events}

\* Mutant: an exit closes the oldest entry of its key.
PopOldest(stack) == IF stack = << >> THEN stack ELSE Tail(stack)

Pop(stack) == IF stack = << >> THEN stack ELSE Front(stack)

\* The events in the order of their seq, as read_ring lists them; an exit takes
\* the last pending entry of its thread, if there is one.
Pending(t) ==
    LET open[q \in 0..rr.hdr] ==
            IF q = 0 THEN << >>
            ELSE IF q \notin Listed \/ call[q].by # t THEN open[q - 1]
            ELSE IF call[q].kind = "enter" THEN Append(open[q - 1], q)
            ELSE Pop(open[q - 1])
    IN  open[rr.hdr]

OpenCalls == UNION {Range(Pending(t)) : t \in Writers}

RingNext ==
    \/ RecordStep \/ Kill
    \/ Begin \/ Before \/ (\E f \in Fields : Copy(f)) \/ After \/ End \/ ReadAgain

RingSpec == RingInit /\ [][RingNext]_ringVars
-----------------------------------------------------------------------------
\* Every event that read_ring returns is the record of one call, complete:
\* the second look at seq excludes a slot that was overwritten during the copy
\* and a record that was never finished.  Not so for two calls that write one
\* slot at once, nor (InOrder) on a machine that lets the stores of a call
\* become visible before the 0 it puts into seq.  (mspti_ring.py:34-40.)
ReadIsIntact == InOrder => \A c \in rr.events : c.seq \notin raced => Intact(c, c.seq)

\* Every record of the header's window that no call could overwrite since is
\* returned, also after the process was killed ("进程被 SIGKILL 后 mmap 文件仍可
\* 读取已发布的槽位", MSPTI_FLIGHT_RECORDER.md:57).
ReadIsComplete ==
    rr.pc = "done" =>
       \A q \in Window(rr.hdr) \ raced :
          SlotOf(q) \notin touched => \E c \in rr.events : Intact(c, q)

\* A call is reported open exactly if its thread was in it when the header was
\* read, as far as each of the thread's callbacks since has a record, which was in
\* the window and could not be overwritten during the read: the entries that the
\* wrap has cut off, and the records that are missing from before the call was
\* entered, do not mislead the matching.  A call that has returned while the
\* collection was switched off is listed as open, and so may those around it.
\* (report, 61-71, and its warning, 96-97; set_enabled_locked, hang_mspti.cpp:139.)
OpenCallsAreOpen ==
    rr.pc = "done" =>
       \A t \in Writers : \A q \in Window(rr.hdr) :
          LET own == {r \in q..rr.hdr : call[r].by = t} IN
          /\ call[q] = [by |-> t, kind |-> "enter"]
          /\ atHeader.missed[t] < q
          /\ own \cap raced = {} /\ \A r \in own : SlotOf(r) \notin touched
          => (q \in OpenCalls <=> q \in Range(atHeader.inside[t]))
=============================================================================
