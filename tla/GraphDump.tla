----------------------------- MODULE GraphDump -----------------------------
(***************************************************************************)
(* libgraph_dump.so: the XPTI subscriber that keeps the SYCL task graph in *)
(* memory and writes it out when the stream ends.                          *)
(*                                                                         *)
(* An id belongs to a place in the program, so several threads may         *)
(* announce the same node or edge, and run the same task, at the same      *)
(* time; a task runs after an announcement.  tpCallback is two steps,      *)
(* because it reads the clock before it takes the mutex; xptiTraceFinish   *)
(* takes no mutex and does not wait for callbacks.                         *)
(***************************************************************************)
EXTENDS Naturals, Sequences

CONSTANTS
  Threads,   \* threads of the SYCL runtime
  Ids,       \* unique_id of the graph's events
  Edges,     \* the ids that are edges
  MaxTime    \* bound on the timestamps

ASSUME GraphAssumption ==
  /\ Edges \subseteq Ids
  /\ MaxTime \in Nat \ {0}

VARIABLES
  clock,    \* the last timestamp: microseconds, truncated, since data->start
  pc,       \* "out", or waiting for the mutex with the trace point
  graph,    \* data->graph: the events in the order of their creation
  ids,      \* data->ids
  written,  \* sycl.graph_trace
  stream,   \* "open", "dumping", "finished" (data deleted) or "undefined"
  running,  \* the tasks a thread is in (history)
  known     \* ids with an announcement that has returned (history)

vars == <<clock, pc, graph, ids, written, stream, running, known>>

Points == {"node_create", "edge_create", "task_begin", "task_end"}
Times == 0 .. MaxTime
Stamps == [point : Points, id : Ids, time : Times]
Out == [point |-> "out"]

\* xptiTraceInit, stream "sycl".
Init ==
  /\ clock = 0
  /\ pc = [t \in Threads |-> Out]
  /\ graph = <<>>
  /\ ids = {}
  /\ written = <<>>
  /\ stream = "open"
  /\ running = [t \in Threads |-> {}]
  /\ known = {}

Create(i) == IF i \in Edges THEN "edge_create" ELSE "node_create"

\* What the runtime may report on thread t.  Edges have no task.
MayReport(t, point, i) ==
  \/ point = Create(i)
  \/ point = "task_begin" /\ i \in known \ Edges
  \/ point = "task_end" /\ i \in running[t]

\* tpCallback reads the clock and waits for the mutex.  steady_clock does not go
\* back, but timestamp() truncates to microseconds: several readings may give
\* the same time, and the first ones give 0, the value of a time not set ...
Stamp(t, point, i) ==
  /\ stream # "undefined"
  /\ pc[t] = Out
  /\ MayReport(t, point, i)
  /\ clock' \in clock .. MaxTime
  /\ pc' = [pc EXCEPT ![t] = [point |-> point, id |-> i, time |-> clock']]
  /\ UNCHANGED <<graph, ids, written, stream, running, known>>

\* findById: the last event with the id, as a set of indices.
FindById(i) == {k \in DOMAIN graph : graph[k].id = i /\
                  \A m \in DOMAIN graph : graph[m].id = i => m <= k}

\* The start or the end of a task goes to the event with its id.
SetTime(c) ==
  [k \in DOMAIN graph |->
     IF k \notin FindById(c.id) THEN graph[k]
     ELSE IF c.point = "task_begin" THEN [graph[k] EXCEPT !.start = c.time]
     ELSE IF c.point = "task_end" THEN [graph[k] EXCEPT !.end = c.time]
     ELSE graph[k]]

\* Any trace point but task_begin creates the event of an id that is new:
\* task_end falls through.  Mutant: the id is not looked up.
AlwaysNew(c) == c.point # "task_begin"
IsNew(c) == c.point # "task_begin" /\ c.id \notin ids

\* The event.
NewEvent(c) ==
  [id |-> c.id, type |-> IF c.point = "edge_create" THEN "EDGE" ELSE "NODE",
   create |-> c.time, start |-> 0, end |-> 0]

\* ... and does the rest under it.
Locked(t) ==
  /\ stream = "open"
  /\ pc[t] # Out
  /\ LET c == pc[t]
     IN  /\ graph' = IF IsNew(c) THEN Append(SetTime(c), NewEvent(c)) ELSE SetTime(c)
         /\ ids' = IF IsNew(c) THEN ids \cup {c.id} ELSE ids
         /\ running' = [running EXCEPT ![t] =
                          IF c.point = "task_begin" THEN @ \cup {c.id}
                          ELSE IF c.point = "task_end" THEN @ \ {c.id} ELSE @]
         /\ known' = known \cup {c.id}
  /\ pc' = [pc EXCEPT ![t] = Out]
  /\ UNCHANGED <<clock, written, stream>>

\* xptiTraceFinish: dumpGraph starts to walk over the events.
Finish ==
  /\ stream = "open"
  /\ stream' = "dumping"
  /\ UNCHANGED <<clock, pc, graph, ids, written, running, known>>

\* The next event is written.
DumpEvent ==
  /\ stream = "dumping"
  /\ Len(written) < Len(graph)
  /\ written' = Append(written, graph[Len(written) + 1])
  /\ UNCHANGED <<clock, pc, graph, ids, stream, running, known>>

\* The walk is over and data is deleted.  Mutant: the walk stops one short.
WalkShort == Len(written) + 1 >= Len(graph)
WalkOver == Len(written) = Len(graph)

DumpDone ==
  /\ stream = "dumping"
  /\ WalkOver
  /\ stream' = "finished"
  /\ UNCHANGED <<clock, pc, graph, ids, written, running, known>>

\* A callback that goes on while the graph is written, or after it is gone.
Overtaken(t) ==
  /\ stream \in {"dumping", "finished"}
  /\ pc[t] # Out
  /\ stream' = "undefined"
  /\ UNCHANGED <<clock, pc, graph, ids, written, running, known>>

Next ==
  \/ \E t \in Threads :
       \/ \E point \in Points, i \in Ids : Stamp(t, point, i)
       \/ Locked(t)
       \/ Overtaken(t)
  \/ Finish
  \/ DumpEvent
  \/ DumpDone

Spec == Init /\ [][Next]_vars

(***************************************************************************)
(* Properties.                                                             *)
(***************************************************************************)

\* However many threads announce it, an id has one event in the graph, and
\* so has one event in the file: ids is tested and extended under the mutex.
OneEventPerId ==
  \A k, m \in DOMAIN graph : k # m => graph[k].id # graph[m].id

\* Although the clock is read before the mutex is taken, no event starts or
\* ends before it was created; it may do so in the same microsecond, and a time
\* of 0 is also that of an event that has not run.
CreatedBeforeRun ==
  \A k \in DOMAIN graph :
    /\ graph[k].start # 0 => graph[k].create <= graph[k].start
    /\ graph[k].end # 0 => graph[k].create <= graph[k].end

\* A file that was written to the end has every event that was announced
\* before the end of the stream, with its last times.
GraphComplete ==
  stream = "finished" =>
    /\ written = graph
    /\ \A i \in known : \E k \in DOMAIN written : written[k].id = i
=============================================================================
