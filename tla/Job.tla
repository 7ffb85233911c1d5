-------------------------------- MODULE Job ---------------------------------
(***************************************************************************)
(* The job that is observed: the host of each rank runs a program that     *)
(* logs events with the recorder, submits event records, event waits and   *)
(* collectives to streams of its device, and synchronizes; the device,     *)
(* which is external, runs the operations of a stream in order.            *)
(* The steps of a program are records: what is done, and with which event  *)
(* type or operation, stream and id.  Computing tasks always complete and  *)
(* are left out.                                                           *)
(***************************************************************************)
EXTENDS AnalyzerReport

CONSTANTS
    Ranks,
    Streams,
    Jobs      \* what the ranks may run: functions from ranks to programs

VARIABLES
    job,    \* the programs
    pc,     \* the step at which the host of each rank is
    log,    \* what each rank has logged
    queue,  \* what each rank has submitted to each stream
    done    \* external: how many operations each stream has completed

jobVars == <<job, pc, log, queue, done>>

Step(what, type, stream, corr) ==
    [do |-> what, type |-> type, stream |-> stream, corr |-> corr]
Record(type, stream, corr) == Step("record", type, stream, corr)
Submit(type, stream, corr) == Step("submit", type, stream, corr)
Synchronize == Step("synchronize", "none", "none", 0)
Gate == Step("gate", "none", "none", 0)

-----------------------------------------------------------------------------
(* What a program is.                                                      *)

Steps == [do : {"record", "submit", "synchronize", "gate"},
          type : STRING, stream : Streams \cup {"none"}, corr : Nat]

LoggedAs == [record |-> "EVENT_RECORD", wait |-> "EVENT_WAIT"]
EventCall(x) == x.do = "submit" /\ x.type \in DOMAIN LoggedAs
EventLog(x) == x.do = "record" /\ x.type \in EventTypes

\* A host logs an event record or wait directly after it has submitted it;
\* streams for collectives have no other operations.
IsProgram(p) ==
    \A i \in DOMAIN p :
       /\ p[i].do = "submit" =>
             p[i].stream \in Streams /\ p[i].type \in {"record", "wait", "collective"}
       /\ EventCall(p[i]) /\ i < Len(p) =>
             p[i + 1] = Record(LoggedAs[p[i].type], p[i].stream, p[i].corr)
       /\ EventLog(p[i]) => i > 1 /\ EventCall(p[i - 1])
       /\ \A k \in DOMAIN p : EventCall(p[i]) /\ p[k].do = "submit"
                                 /\ p[k].stream = p[i].stream => EventCall(p[k])

ASSUME RanksAssumption == IsFiniteSet(Ranks)
ASSUME JobsAssumption ==
    \A j \in Jobs : j \in [Ranks -> Seq(Steps)] /\ \A r \in Ranks : IsProgram(j[r])

-----------------------------------------------------------------------------
Drained(r) == \A s \in Streams : done[r][s] = Len(queue[r][s])

JobInit ==
    /\ job \in Jobs
    /\ pc = [r \in Ranks |-> 1]
    /\ log = [r \in Ranks |-> << >>]
    /\ queue = [r \in Ranks |-> [s \in Streams |-> << >>]]
    /\ done = [r \in Ranks |-> [s \in Streams |-> 0]]

\* The host of a rank takes its next step; at the gate it stays.
CanStep(r) ==
    /\ pc[r] <= Len(job[r])
    /\ job[r][pc[r]].do # "gate"
    /\ job[r][pc[r]].do = "synchronize" => Drained(r)

HostStep(r) ==
    /\ CanStep(r)
    /\ pc' = [pc EXCEPT ![r] = @ + 1]
    /\ LET x == job[r][pc[r]] IN
       /\ log' = IF x.do = "record" THEN [log EXCEPT ![r] = Append(@, x)] ELSE log
       /\ queue' = IF x.do = "submit" THEN [queue EXCEPT ![r][x.stream] = Append(@, x)]
                                      ELSE queue
    /\ UNCHANGED <<job, done>>

-----------------------------------------------------------------------------
(* External: the devices.                                                  *)

Completed(r, type, corr) ==
    \E s \in Streams : \E i \in 1..done[r][s] : Is(queue[r][s][i], type, corr)

\* The operation at the head of a stream, as a set.
Pending(r, s) == {queue[r][s][i] : i \in {done[r][s] + 1} \cap DOMAIN queue[r][s]}
AtHead(r, type, corr) == {s \in Streams : \E x \in Pending(r, s) : Is(x, type, corr)}

\* A wait holds its stream until the event has been recorded; a collective,
\* until every rank's stream has come to it.
Ready(r, x) ==
    CASE x.type = "record" -> TRUE
      [] x.type = "wait" -> Completed(r, "record", x.corr)
      [] x.type = "collective" ->
            \A q \in Ranks : AtHead(q, "collective", x.corr) # {}
                                \/ Completed(q, "collective", x.corr)

CanRun(r, s) == \E x \in Pending(r, s) : Ready(r, x)

Run(r, s) ==
    /\ CanRun(r, s)
    /\ done' = [done EXCEPT ![r][s] = @ + 1]
    /\ UNCHANGED <<job, pc, log, queue>>

DeviceStep == \E r \in Ranks, s \in Streams : Run(r, s)

\* Nothing moves any more.
Stalled == \A r \in Ranks : ~CanStep(r) /\ \A s \in Streams : ~CanRun(r, s)

-----------------------------------------------------------------------------
(* What the analyzer sees in the live logs.                                *)

View == [r \in Ranks |-> log[r]]

\* The position in its stream of an operation that has been logged.
Position(ev, i) ==
    Cardinality({j \in 1..i :
        ev[j].type \in EventTypes /\ ev[j].stream = ev[i].stream})

\* No event has been recorded twice, on any streams.
RecordedOnce(r) ==
    \A s, t \in Streams : \A i \in DOMAIN queue[r][s], k \in DOMAIN queue[r][t] :
       LET x == queue[r][s][i]  y == queue[r][t][k] IN
       x.type = "record" /\ Is(y, "record", x.corr) => s = t /\ i = k
=============================================================================
