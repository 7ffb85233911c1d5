--------------------------- MODULE AnalyzerReport ---------------------------
(***************************************************************************)
(* What analyze of src/flightrecorder/analyzer.py makes of the events of   *)
(* the ranks: open scopes, collectives, last host events, dependencies by  *)
(* stream events and the cycles among them.  CheckpointReport has its      *)
(* checkpoint progress.                                                    *)
(*                                                                         *)
(* A view is a function from ranks to the sequences of their events; an    *)
(* event is a record with its type, stream and correlation id, its index   *)
(* is its seq.  One communicator, one collective type, rings not wrapped.  *)
(***************************************************************************)
EXTENDS Naturals, Sequences, SequencesExt, FiniteSetsExt

\* Mutant: of two copies of a rank's ring the older one is kept.
Oldest(files) ==
    {f \in files : \A g \in files : g.rank = f.rank => f.events <= g.events}

\* A file is a rank and how many of its events the copy has.  The latest copy
\* of each rank is analysed.
Latest(files) ==
    {f \in files : \A g \in files : g.rank = f.rank => g.events <= f.events}

Is(e, type, corr) == e.type = type /\ e.corr = corr
Saw(ev, type, corr) == \E i \in DOMAIN ev : Is(ev[i], type, corr)

Pairs == [ REQUEST_BEGIN |-> "REQUEST_END", SCHEDULER_BEGIN |-> "SCHEDULER_END",
           MODEL_BEGIN |-> "MODEL_END", GRAPH_BEGIN |-> "GRAPH_END", KV_BEGIN |-> "KV_END",
           PP_SEND_BEGIN |-> "PP_SEND_END", PP_RECV_BEGIN |-> "PP_RECV_END",
           HCCL_BEGIN |-> "HCCL_END", STREAM_SYNC_BEGIN |-> "STREAM_SYNC_END",
           DEVICE_SYNC_BEGIN |-> "DEVICE_SYNC_END" ]

\* The begin of a scope and an end of its stream and id.
Closes(e, b) == e.type = Pairs[b.type] /\ e.stream = b.stream /\ e.corr = b.corr

\* Scopes begun and not ended later.
OpenScopes(ev) ==
    {ev[i] : i \in {k \in DOMAIN ev : /\ ev[k].type \in DOMAIN Pairs
                                     /\ \A j \in k..Len(ev) : ~Closes(ev[j], ev[k])}}

\* Ranks that have entered a collective, those of the expected that have not,
\* and those whose call has returned.
Entered(view, n) == {r \in DOMAIN view : Saw(view[r], "HCCL_BEGIN", n)}
Missing(view, expected, n) == expected \ Entered(view, n)
EndObserved(view, n) == {r \in DOMAIN view : Saw(view[r], "HCCL_END", n)}

\* The type of the last event that the host's own thread wrote, as a set: not a
\* confirmation.
HostEvents(ev) == {i \in DOMAIN ev : ev[i].type # "DEVICE_CONFIRMED"}
LastHostEvent(ev) ==
    {ev[i].type : i \in {k \in HostEvents(ev) : \A j \in HostEvents(ev) : j <= k}}

-----------------------------------------------------------------------------
(* Event dependencies between operations: <<rank, seq>>.                   *)

EventTypes == {"EVENT_RECORD", "EVENT_WAIT"}

Operations(view) ==
    {op \in UNION {{r} \X DOMAIN view[r] : r \in DOMAIN view} :
        view[op[1]][op[2]].type \in EventTypes}

\* event_producers: of an event that is recorded twice, the later record.
Producer(ev, event) ==
    {i \in DOMAIN ev : /\ Is(ev[i], "EVENT_RECORD", event)
                       /\ \A j \in DOMAIN ev : Is(ev[j], "EVENT_RECORD", event) => j <= i}

\* Waits of the record's own stream that come before it.
PriorWaits(ev, i) ==
    {j \in 1..(i - 1) : ev[j].type = "EVENT_WAIT" /\ ev[j].stream = ev[i].stream}

\* Mutant: a record depends on every wait of its stream, as a graph of streams
\* would have it.
StreamEdges(view) ==
    [op \in Operations(view) |->
       LET r == op[1]  ev == view[r]  e == ev[op[2]] IN
       {r} \X (IF e.type = "EVENT_WAIT" THEN Producer(ev, e.corr)
               ELSE {j \in DOMAIN ev : ev[j].type = "EVENT_WAIT" /\ ev[j].stream = e.stream})]

\* A wait depends on the record of its event, a record on the waits before it.
Edges(view) ==
    [op \in Operations(view) |->
       LET r == op[1]  ev == view[r]  e == ev[op[2]] IN
       {r} \X (IF e.type = "EVENT_WAIT" THEN Producer(ev, e.corr)
                                        ELSE PriorWaits(ev, op[2]))]

-----------------------------------------------------------------------------
(* find_cycles: a depth-first search, one turn of a loop at a time.        *)

\* The nodes of the calls of visit under way, what the loop of a node has not
\* looked at, the nodes whose call has returned, and the cycles.
Searching(edges) == [stack |-> << >>, left |-> edges, visited |-> {}, cycles |-> {}]

Top(stack) == stack[Len(stack)]

\* From a node that is on the stack to its top.
Loop(stack, node) == SubSeq(stack, CHOOSE i \in DOMAIN stack : stack[i] = node, Len(stack))

\* Mutant: a node counts as visited as soon as the search enters it.
FollowOnce(s, dest) ==
    LET looked == [s EXCEPT !.left[Top(s.stack)] = @ \ {dest}] IN
    IF dest \in Range(s.stack) \cup s.visited THEN looked
    ELSE [looked EXCEPT !.stack = Append(@, dest)]

\* A node on the stack closes a cycle, one that is new is visited.
Follow(s, dest) ==
    LET looked == [s EXCEPT !.left[Top(s.stack)] = @ \ {dest}] IN
    IF dest \in Range(s.stack) THEN [looked EXCEPT !.cycles = @ \cup {Loop(s.stack, dest)}]
    ELSE IF dest \in s.visited THEN looked
    ELSE [looked EXCEPT !.stack = Append(@, dest)]

Return(s) == [s EXCEPT !.stack = Front(@), !.visited = @ \cup {Top(s.stack)}]

\* The order in which the nodes are taken is any.
Turn(edges, s) ==
    IF s.stack # << >>
    THEN IF s.left[Top(s.stack)] = {} THEN Return(s)
         ELSE Follow(s, CHOOSE dest \in s.left[Top(s.stack)] : TRUE)
    ELSE IF DOMAIN edges \subseteq s.visited THEN s
    ELSE [s EXCEPT !.stack = <<CHOOSE node \in DOMAIN edges \ s.visited : TRUE>>]

\* As many turns as there are calls, returns and edges.
Arcs(edges) == UNION {{node} \X edges[node] : node \in DOMAIN edges}
Turns(edges) == 2 * Cardinality(DOMAIN edges) + Cardinality(Arcs(edges))

FindCycles(edges) ==
    LET after[n \in 0..Turns(edges)] ==
            IF n = 0 THEN Searching(edges) ELSE Turn(edges, after[n - 1])
    IN  after[Turns(edges)].cycles
=============================================================================
