-------------------------- MODULE GraphDumpProofs --------------------------
(***************************************************************************)
(* Proofs about GraphDump, for any number of threads, ids and callbacks.   *)
(***************************************************************************)
EXTENDS GraphDump, TLAPS

Events == [id : Ids, type : {"NODE", "EDGE"}, create : Nat, start : Nat, end : Nat]

TypeOK ==
  /\ clock \in Nat
  /\ pc \in [Threads -> Stamps \cup {Out}]
  /\ graph \in Seq(Events)
  /\ ids \in SUBSET Ids
  /\ written \in Seq(Events)
  /\ stream \in {"open", "dumping", "finished", "undefined"}
  /\ running \in [Threads -> SUBSET Ids]
  /\ known \in SUBSET Ids

(***************************************************************************)
(* OneEventPerId is inductive only together with the set of ids, which is  *)
(* that of the graph; CreatedBeforeRun needs the callbacks that wait for   *)
(* the mutex, whose times are from before.                                 *)
(***************************************************************************)

\* data->ids has exactly the ids of the events.
IdsOfGraph == \A i \in Ids : i \in ids <=> \E k \in DOMAIN graph : graph[k].id = i

\* What was announced, or is running, has an event.
KnownHasEvent ==
  /\ known \subseteq ids
  /\ \A t \in Threads : running[t] \subseteq known

\* Nothing is from the future.
CreatedInPast == \A k \in DOMAIN graph : graph[k].create <= clock

\* A start or an end that waits for the mutex is that of a task with an event
\* that was not created later.
Runs(t) == pc[t] # Out /\ pc[t].point \in {"task_begin", "task_end"}

WaitingRuns ==
  \A t \in Threads : Runs(t) =>
    /\ pc[t].id \in known
    /\ \A k \in DOMAIN graph : graph[k].id = pc[t].id => graph[k].create <= pc[t].time

\* A callback that waits has read the clock.
WaitingPast == \A t \in Threads : pc[t] # Out => pc[t].time <= clock

\* The walk has written the events up to where it is.
WrittenSoFar ==
  /\ stream = "open" => written = <<>>
  /\ stream = "dumping" =>
       Len(written) <= Len(graph) /\ \A k \in DOMAIN written : written[k] = graph[k]
  /\ stream = "finished" => written = graph

IInv ==
  /\ TypeOK
  /\ OneEventPerId
  /\ IdsOfGraph
  /\ KnownHasEvent
  /\ CreatedInPast
  /\ WaitingPast
  /\ WaitingRuns
  /\ CreatedBeforeRun
  /\ WrittenSoFar

\* A waiting callback is told from an idle thread by its trace point.
LEMMA OutIsNoStamp == Out \notin Stamps
BY DEF Out, Stamps, Points

\* The fields of an event.
LEMMA EventFacts ==
  ASSUME NEW g \in Seq(Events), NEW k \in DOMAIN g
  PROVE  /\ g[k] \in Events
         /\ g[k].id \in Ids
         /\ g[k].create \in Nat
         /\ g[k].start \in Nat
         /\ g[k].end \in Nat
<1>1. g[k] \in Events
  OBVIOUS
<1> QED BY <1>1 DEF Events

\* Setting a time keeps the events, their ids and their creation times, and
\* changes a start or an end to the time of the callback only in the event
\* with the callback's id.
LEMMA SetTimeFacts ==
  ASSUME graph \in Seq(Events), NEW c \in Stamps
  PROVE  /\ SetTime(c) \in Seq(Events)
         /\ Len(SetTime(c)) = Len(graph)
         /\ DOMAIN SetTime(c) = DOMAIN graph
         /\ \A k \in DOMAIN graph :
              /\ SetTime(c)[k].id = graph[k].id
              /\ SetTime(c)[k].create = graph[k].create
              /\ \/ SetTime(c)[k].start = graph[k].start
                 \/ /\ c.point = "task_begin" /\ graph[k].id = c.id
                    /\ SetTime(c)[k].start = c.time
              /\ \/ SetTime(c)[k].end = graph[k].end
                 \/ /\ c.point = "task_end" /\ graph[k].id = c.id
                    /\ SetTime(c)[k].end = c.time
<1>1. c.time \in Nat
  BY GraphAssumption DEF Stamps, Times
<1>2. DOMAIN graph = 1 .. Len(graph) /\ Len(graph) \in Nat
  OBVIOUS
<1>3. \A k \in DOMAIN graph : graph[k] \in Events
  OBVIOUS
<1>4. \A k \in DOMAIN graph :
        /\ SetTime(c)[k] \in Events
        /\ SetTime(c)[k].id = graph[k].id
        /\ SetTime(c)[k].create = graph[k].create
        /\ \/ SetTime(c)[k].start = graph[k].start
           \/ /\ c.point = "task_begin" /\ graph[k].id = c.id
              /\ SetTime(c)[k].start = c.time
        /\ \/ SetTime(c)[k].end = graph[k].end
           \/ /\ c.point = "task_end" /\ graph[k].id = c.id
              /\ SetTime(c)[k].end = c.time
  <2> SUFFICES ASSUME NEW k \in DOMAIN graph
               PROVE  /\ SetTime(c)[k] \in Events
                      /\ SetTime(c)[k].id = graph[k].id
                      /\ SetTime(c)[k].create = graph[k].create
                      /\ \/ SetTime(c)[k].start = graph[k].start
                         \/ /\ c.point = "task_begin" /\ graph[k].id = c.id
                            /\ SetTime(c)[k].start = c.time
                      /\ \/ SetTime(c)[k].end = graph[k].end
                         \/ /\ c.point = "task_end" /\ graph[k].id = c.id
                            /\ SetTime(c)[k].end = c.time
    OBVIOUS
  <2>1. CASE k \notin FindById(c.id)
    BY <1>3, <2>1 DEF SetTime
  <2>2. CASE k \in FindById(c.id) /\ c.point = "task_begin"
    <3>1. SetTime(c)[k] = [graph[k] EXCEPT !.start = c.time] /\ graph[k].id = c.id
      BY <2>2 DEF SetTime, FindById
    <3> QED BY <3>1, <1>1, <1>3, <2>2 DEF Events
  <2>3. CASE k \in FindById(c.id) /\ c.point = "task_end"
    <3>1. SetTime(c)[k] = [graph[k] EXCEPT !.end = c.time] /\ graph[k].id = c.id
      BY <2>3 DEF SetTime, FindById
    <3> QED BY <3>1, <1>1, <1>3, <2>3 DEF Events
  <2>4. CASE c.point \notin {"task_begin", "task_end"}
    BY <1>3, <2>4 DEF SetTime
  <2> QED BY <2>1, <2>2, <2>3, <2>4
<1>5. SetTime(c) = [k \in 1 .. Len(graph) |-> SetTime(c)[k]]
  BY <1>2 DEF SetTime
<1>6. SetTime(c) \in Seq(Events) /\ Len(SetTime(c)) = Len(graph)
  BY <1>2, <1>4, <1>5
<1> QED BY <1>4, <1>5, <1>6, <1>2

\* The empty graph of an open stream.
LEMMA InitHolds == Init => IInv
<1> SUFFICES ASSUME Init PROVE IInv OBVIOUS
<1>1. graph = <<>> /\ DOMAIN graph = {}
  BY DEF Init
<1>2. TypeOK
  BY <1>1 DEF Init, TypeOK
<1>3. \A t \in Threads : pc[t] = Out /\ running[t] = {}
  BY DEF Init
<1>4. WaitingPast /\ WaitingRuns
  BY <1>3 DEF WaitingPast, WaitingRuns, Runs
<1>5. IdsOfGraph /\ KnownHasEvent
  BY <1>1, <1>3 DEF Init, IdsOfGraph, KnownHasEvent
<1>6. OneEventPerId /\ CreatedInPast /\ CreatedBeforeRun
  BY <1>1 DEF OneEventPerId, CreatedInPast, CreatedBeforeRun
<1>7. WrittenSoFar
  BY DEF Init, WrittenSoFar
<1> QED BY <1>2, <1>4, <1>5, <1>6, <1>7 DEF IInv

\* A callback that reads the clock leaves the graph alone; the events it may
\* be about were not created later.
LEMMA StampStep ==
  ASSUME IInv, NEW t \in Threads, NEW point \in Points, NEW i \in Ids, Stamp(t, point, i)
  PROVE  IInv'
<1> DEFINE c == [point |-> point, id |-> i, time |-> clock']
<1> USE DEF IInv
<1>1. pc' = [pc EXCEPT ![t] = c] /\ clock' \in clock .. MaxTime
      /\ UNCHANGED <<graph, ids, written, stream, running, known>>
  BY DEF Stamp
<1>2. c \in Stamps
  BY <1>1, GraphAssumption DEF TypeOK, Stamps, Times
<1>3. TypeOK'
  BY <1>1, <1>2 DEF TypeOK
<1>4. /\ pc'[t] = c
      /\ \A s \in Threads \ {t} : pc'[s] = pc[s]
  BY <1>1 DEF TypeOK
<1>5. \A k \in DOMAIN graph : graph[k].create \in Nat
  BY EventFacts DEF TypeOK
<1>6. CreatedInPast'
  BY <1>1, <1>5 DEF CreatedInPast, TypeOK
<1>7. \A s \in Threads : pc[s] # Out => pc[s] \in Stamps /\ pc[s].time \in Nat
  BY GraphAssumption DEF TypeOK, Stamps, Times
<1>8. WaitingPast'
  BY <1>1, <1>4, <1>7 DEF WaitingPast, TypeOK
<1>9. WaitingRuns'
  <2> SUFFICES ASSUME NEW s \in Threads, Runs(s)'
               PROVE  (/\ pc[s].id \in known
                       /\ \A k \in DOMAIN graph :
                            graph[k].id = pc[s].id => graph[k].create <= pc[s].time)'
    BY DEF WaitingRuns
  <2>1. CASE s # t
    BY <2>1, <1>1, <1>4 DEF Runs, WaitingRuns
  <2>2. CASE s = t
    <3>1. i \in known
      BY <2>2, <1>4 DEF Runs, Stamp, MayReport, KnownHasEvent, Create
    <3> QED BY <2>2, <3>1, <1>1, <1>4, <1>5 DEF CreatedInPast, TypeOK
  <2> QED BY <2>1, <2>2
<1>10. OneEventPerId' /\ IdsOfGraph' /\ KnownHasEvent' /\ CreatedBeforeRun' /\ WrittenSoFar'
  BY <1>1 DEF OneEventPerId, IdsOfGraph, KnownHasEvent, CreatedBeforeRun, WrittenSoFar
<1> QED BY <1>3, <1>6, <1>8, <1>9, <1>10

\* Under the mutex: the event of a known id gets a time not before its
\* creation, and an id that has no event gets its only one.
LEMMA LockedStep ==
  ASSUME IInv, NEW t \in Threads, Locked(t)
  PROVE  IInv'
<1> DEFINE c == pc[t]
<1> DEFINE g == SetTime(c)
<1> USE DEF IInv
<1>1. /\ stream = "open" /\ c # Out
      /\ graph' = IF IsNew(c) THEN Append(g, NewEvent(c)) ELSE g
      /\ ids' = IF IsNew(c) THEN ids \cup {c.id} ELSE ids
      /\ running' = [running EXCEPT ![t] =
                       IF c.point = "task_begin" THEN @ \cup {c.id}
                       ELSE IF c.point = "task_end" THEN @ \ {c.id} ELSE @]
      /\ known' = known \cup {c.id}
      /\ pc' = [pc EXCEPT ![t] = Out]
      /\ UNCHANGED <<clock, written, stream>>
  BY DEF Locked
<1>2. c \in Stamps /\ c.id \in Ids /\ c.time \in Nat /\ c.time <= clock
  BY <1>1, GraphAssumption DEF TypeOK, Stamps, Times, WaitingPast
<1>3. /\ g \in Seq(Events)
      /\ Len(g) = Len(graph) /\ DOMAIN g = 1 .. Len(graph) /\ DOMAIN graph = 1 .. Len(graph)
      /\ \A k \in DOMAIN graph : g[k].id = graph[k].id /\ g[k].create = graph[k].create
      /\ \A k \in DOMAIN graph :
           \/ g[k].start = graph[k].start
           \/ Runs(t) /\ graph[k].id = c.id /\ g[k].start = c.time
      /\ \A k \in DOMAIN graph :
           \/ g[k].end = graph[k].end
           \/ Runs(t) /\ graph[k].id = c.id /\ g[k].end = c.time
  <2> HIDE DEF g
  <2>1. graph \in Seq(Events)
    BY DEF TypeOK
  <2> QED BY <2>1, <1>1, <1>2, SetTimeFacts DEF Runs, g
<1>4. Len(graph) \in Nat
  BY DEF TypeOK
<1>5. /\ NewEvent(c) \in Events
      /\ NewEvent(c).id = c.id
      /\ NewEvent(c).create = c.time
      /\ NewEvent(c).start = 0
      /\ NewEvent(c).end = 0
  BY <1>2 DEF NewEvent, Events
<1> DEFINE e == NewEvent(c)
<1> HIDE DEF g, e
<1>6. /\ graph' \in Seq(Events)
      /\ DOMAIN graph' = IF IsNew(c) THEN 1 .. (Len(graph) + 1) ELSE 1 .. Len(graph)
      /\ \A k \in 1 .. Len(graph) : graph'[k] = g[k]
      /\ IsNew(c) => graph'[Len(graph) + 1] = e
  BY <1>1, <1>3, <1>4, <1>5 DEF e
<1>7. TypeOK'
  <2>1. running' \in [Threads -> SUBSET Ids]
    BY <1>1, <1>2 DEF TypeOK
  <2>2. pc' \in [Threads -> Stamps \cup {Out}]
    BY <1>1 DEF TypeOK
  <2>3. ids' \subseteq Ids /\ known' \subseteq Ids
    BY <1>1, <1>2 DEF TypeOK
  <2> QED BY <1>1, <1>6, <2>1, <2>2, <2>3 DEF TypeOK
\* What an old and a new index hold.
<1>8. \A k \in DOMAIN graph' :
        \/ /\ k \in DOMAIN graph
           /\ graph'[k] = g[k]
           /\ graph'[k].id = graph[k].id
           /\ graph'[k].create = graph[k].create
        \/ /\ IsNew(c) /\ k = Len(graph) + 1
           /\ graph'[k] = e
           /\ graph'[k].id = c.id
           /\ graph'[k].create = c.time
  BY <1>3, <1>4, <1>5, <1>6 DEF e
<1>9. \A k \in DOMAIN graph : k \in DOMAIN graph' /\ graph'[k].id = graph[k].id
  BY <1>3, <1>4, <1>6
<1>10. IsNew(c) => \A k \in DOMAIN graph : graph[k].id # c.id
  BY <1>2 DEF IsNew, IdsOfGraph
<1>11. OneEventPerId'
  <2> SUFFICES ASSUME NEW k \in DOMAIN graph', NEW m \in DOMAIN graph', k # m
               PROVE  graph'[k].id # graph'[m].id
    BY DEF OneEventPerId
  <2>1. CASE k \in DOMAIN graph /\ m \in DOMAIN graph
    BY <2>1, <1>9 DEF OneEventPerId
  <2>2. CASE k \notin DOMAIN graph
    BY <2>2, <1>8, <1>10
  <2>3. CASE m \notin DOMAIN graph
    BY <2>3, <1>8, <1>10
  <2> QED BY <2>1, <2>2, <2>3
<1>12. IdsOfGraph'
  <2> SUFFICES ASSUME NEW i \in Ids
               PROVE  i \in ids' <=> \E k \in DOMAIN graph' : graph'[k].id = i
    BY DEF IdsOfGraph
  <2>1. ASSUME i \in ids' PROVE \E k \in DOMAIN graph' : graph'[k].id = i
    <3>1. CASE i \in ids
      BY <3>1, <1>9 DEF IdsOfGraph
    <3>2. CASE i \notin ids
      <4>1. IsNew(c) /\ i = c.id
        BY <2>1, <3>2, <1>1
      <4>2. Len(graph) + 1 \in DOMAIN graph' /\ graph'[Len(graph) + 1].id = i
        BY <4>1, <1>4, <1>5, <1>6 DEF e
      <4> QED BY <4>2
    <3> QED BY <3>1, <3>2
  <2>2. ASSUME NEW k \in DOMAIN graph', graph'[k].id = i PROVE i \in ids'
    BY <2>2, <1>1, <1>8 DEF IdsOfGraph
  <2> QED BY <2>1, <2>2
<1>13. c.id \in ids'
  <2>1. CASE IsNew(c)
    BY <2>1, <1>1
  <2>2. CASE ~IsNew(c)
    BY <2>2, <1>1 DEF IsNew, Runs, WaitingRuns, KnownHasEvent
  <2> QED BY <2>1, <2>2
<1>14. KnownHasEvent'
  <2>1. known' \subseteq ids'
    BY <1>1, <1>13 DEF KnownHasEvent
  <2>2. ASSUME NEW s \in Threads PROVE running'[s] \subseteq known'
    BY <1>1 DEF KnownHasEvent, TypeOK
  <2> QED BY <2>1, <2>2 DEF KnownHasEvent
<1>15. CreatedInPast'
  BY <1>1, <1>2, <1>8 DEF CreatedInPast
<1>16. \A s \in Threads : pc'[s] = IF s = t THEN Out ELSE pc[s]
  BY <1>1 DEF TypeOK
<1>17. WaitingPast'
  BY <1>1, <1>16 DEF WaitingPast
<1>18. WaitingRuns'
  <2> SUFFICES ASSUME NEW s \in Threads, Runs(s)'
               PROVE  (/\ pc[s].id \in known
                       /\ \A k \in DOMAIN graph :
                            graph[k].id = pc[s].id => graph[k].create <= pc[s].time)'
    BY DEF WaitingRuns
  <2>1. s # t /\ pc'[s] = pc[s] /\ Runs(s)
    BY <1>16 DEF Runs
  <2>2. pc[s].id \in known /\ pc[s].id \in ids
    BY <2>1 DEF WaitingRuns, KnownHasEvent
  <2>3. IsNew(c) => pc[s].id # c.id
    BY <2>2 DEF IsNew
  <2>4. ASSUME NEW k \in DOMAIN graph', graph'[k].id = pc[s].id
        PROVE  graph'[k].create <= pc[s].time
    BY <2>1, <2>3, <2>4, <1>8 DEF WaitingRuns
  <2> QED BY <2>1, <2>2, <2>4, <1>1
<1>19. CreatedBeforeRun'
  <2> SUFFICES ASSUME NEW k \in DOMAIN graph'
               PROVE  /\ graph'[k].start # 0 => graph'[k].create <= graph'[k].start
                      /\ graph'[k].end # 0 => graph'[k].create <= graph'[k].end
    BY DEF CreatedBeforeRun
  <2>1. CASE k \in DOMAIN graph
    <3>1. Runs(t) /\ graph[k].id = c.id => graph[k].create <= c.time
      BY <2>1 DEF WaitingRuns
    <3>2. graph'[k].start # 0 => graph'[k].create <= graph'[k].start
      BY <2>1, <3>1, <1>3, <1>6 DEF CreatedBeforeRun
    <3>3. graph'[k].end # 0 => graph'[k].create <= graph'[k].end
      BY <2>1, <3>1, <1>3, <1>6 DEF CreatedBeforeRun
    <3> QED BY <3>2, <3>3
  <2>2. CASE k \notin DOMAIN graph
    BY <2>2, <1>5, <1>8 DEF e
  <2> QED BY <2>1, <2>2
<1>20. WrittenSoFar'
  BY <1>1 DEF WrittenSoFar
<1> QED BY <1>7, <1>11, <1>12, <1>14, <1>15, <1>17, <1>18, <1>19, <1>20

\* The walk writes the next event; what is in the graph stays.
LEMMA DumpStep ==
  ASSUME IInv, Finish \/ DumpEvent \/ DumpDone \/ \E t \in Threads : Overtaken(t)
  PROVE  IInv'
<1> USE DEF IInv
<1>1. UNCHANGED <<clock, pc, graph, ids, running, known>>
  BY DEF Finish, DumpEvent, DumpDone, Overtaken
<1>2. /\ OneEventPerId' /\ IdsOfGraph' /\ KnownHasEvent' /\ CreatedInPast'
      /\ WaitingPast' /\ WaitingRuns' /\ CreatedBeforeRun'
  BY <1>1 DEF OneEventPerId, IdsOfGraph, KnownHasEvent, CreatedInPast,
     WaitingPast, WaitingRuns, Runs, CreatedBeforeRun
<1>3. /\ Len(written) \in Nat /\ Len(graph) \in Nat
      /\ DOMAIN written = 1 .. Len(written) /\ DOMAIN graph = 1 .. Len(graph)
      /\ graph \in Seq(Events) /\ written \in Seq(Events)
  BY DEF TypeOK
<1>4. TypeOK' /\ WrittenSoFar'
  <2>1. CASE Finish
    BY <2>1, <1>1, <1>3 DEF Finish, TypeOK, WrittenSoFar
  <2>2. CASE DumpEvent
    <3> DEFINE n == Len(written) + 1
    <3>1. /\ stream = "dumping" /\ stream' = "dumping"
          /\ n \in DOMAIN graph /\ written' = Append(written, graph[n])
      BY <2>2, <1>3 DEF DumpEvent
    <3>2. graph[n] \in Events
      BY <3>1, <1>3
    <3>3. /\ written' \in Seq(Events) /\ Len(written') = n
          /\ DOMAIN written' = 1 .. n
          /\ written'[n] = graph[n]
          /\ \A k \in 1 .. Len(written) : written'[k] = written[k]
      BY <3>1, <3>2, <1>3
    <3>4. \A k \in DOMAIN written' : written'[k] = graph[k]
      <4> SUFFICES ASSUME NEW k \in 1 .. n PROVE written'[k] = graph[k]
        BY <3>3
      <4>1. k \in 1 .. Len(written) \/ k = n
        BY <1>3
      <4> QED BY <4>1, <3>1, <3>3, <1>3 DEF WrittenSoFar
    <3> QED BY <3>1, <3>3, <3>4, <1>1, <1>3 DEF TypeOK, WrittenSoFar
  <2>3. CASE DumpDone
    <3>1. stream = "dumping" /\ stream' = "finished" /\ written' = written
      BY <2>3 DEF DumpDone
    <3>2. Len(written) = Len(graph)
      BY <2>3 DEF DumpDone, WalkOver
    <3>3. \A k \in DOMAIN written : written[k] = graph[k]
      BY <3>1 DEF WrittenSoFar
    <3>4. written = graph
      BY <3>2, <3>3, <1>3
    <3> QED BY <3>1, <3>4, <1>1 DEF TypeOK, WrittenSoFar
  <2>4. CASE \E t \in Threads : Overtaken(t)
    BY <2>4, <1>1 DEF Overtaken, TypeOK, WrittenSoFar
  <2> QED BY <2>1, <2>2, <2>3, <2>4
<1> QED BY <1>2, <1>4

\* Every step keeps the invariant.
LEMMA StepHolds == IInv /\ [Next]_vars => IInv'
<1> SUFFICES ASSUME IInv, [Next]_vars PROVE IInv' OBVIOUS
<1>1. ASSUME NEW t \in Threads, NEW point \in Points, NEW i \in Ids, Stamp(t, point, i)
      PROVE  IInv'
  BY <1>1, StampStep
<1>2. ASSUME NEW t \in Threads, Locked(t) PROVE IInv'
  BY <1>2, LockedStep
<1>3. CASE Finish \/ DumpEvent \/ DumpDone \/ \E t \in Threads : Overtaken(t)
  BY <1>3, DumpStep
<1>4. CASE UNCHANGED vars
  BY <1>4 DEF vars, IInv, TypeOK, OneEventPerId, IdsOfGraph, KnownHasEvent, CreatedInPast,
     WaitingPast, WaitingRuns, Runs, CreatedBeforeRun, WrittenSoFar
<1> QED BY <1>1, <1>2, <1>3, <1>4 DEF Next

\* The inductive invariant holds in every state of graph_dump.
THEOREM GraphInvariance == Spec => []IInv
<1> QED BY InitHolds, StepHolds, PTL DEF Spec

\* However many callbacks race for the mutex, no id gets a second event:
\* data->ids, tested and extended under it, has exactly the ids of the graph.
THEOREM AlwaysOneEvent == Spec => []OneEventPerId
<1>1. IInv => OneEventPerId
  BY DEF IInv
<1> QED BY <1>1, GraphInvariance, PTL

\* No event starts or ends before its creation, although tpCallback reads the
\* clock before it waits for the mutex.
THEOREM AlwaysCreatedFirst == Spec => []CreatedBeforeRun
<1>1. IInv => CreatedBeforeRun
  BY DEF IInv
<1> QED BY <1>1, GraphInvariance, PTL

\* A file that was written to the end is the whole graph, with every
\* announced id.
THEOREM FileIsGraph == Spec => []GraphComplete
<1>1. IInv => GraphComplete
  <2> SUFFICES ASSUME IInv, stream = "finished"
               PROVE  /\ written = graph
                      /\ \A i \in known : \E k \in DOMAIN written : written[k].id = i
    BY DEF GraphComplete
  <2>1. written = graph
    BY DEF IInv, WrittenSoFar
  <2>2. \A i \in known : i \in Ids /\ i \in ids
    BY DEF IInv, TypeOK, KnownHasEvent
  <2> QED BY <2>1, <2>2 DEF IInv, IdsOfGraph
<1> QED BY <1>1, GraphInvariance, PTL
=============================================================================
