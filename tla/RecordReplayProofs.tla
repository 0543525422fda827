------------------------- MODULE RecordReplayProofs -------------------------
(***************************************************************************)
(* Proofs about RecordReplay: what replay can rely on is what RecordLog    *)
(* promises of a trace, for any program, any number of threads and calls,  *)
(* and a recording that ended anywhere.                                    *)
(***************************************************************************)
EXTENDS RecordReplay, RecorderProofs, Functions

(***************************************************************************)
(* The trace a recording leaves                                            *)
(***************************************************************************)

\* Of a trace s and the calls d that returned.  Records are in the order of
\* their calls, each tells of its call, and only the records of
\* piextDeviceSelectBinary may be missing.
Ordered(s, d) ==
  /\ \A i, j \in DOMAIN s : i < j => s[i].n < s[j].n
  /\ \A i \in DOMAIN s : s[i].n \in i .. Len(d) + 1
Faithful(s, d) ==
  \A i \in DOMAIN s : s[i].n <= Len(d) => s[i] = Record(d[s[i].n], s[i].n, WriteMemObj)
Kept(s, d) ==
  \A n \in DOMAIN d : d[n].api = SelectBinary \/ \E i \in DOMAIN s : s[i].n = n

OrderInv ==
  \A t \in Threads :
    /\ Ordered(trace[t], done[t]) /\ Faithful(trace[t], done[t])
    /\ t \in Followed => Kept(trace[t], done[t])
    /\ \A n \in DOMAIN done[t] : done[t][n] \in Program

(***************************************************************************)
(* Reading it                                                              *)
(***************************************************************************)

\* The replies of t are a sequence, and the call t is in is the next one.
ReplyType(t) ==
  /\ replies[t] \in Seq(Range(replies[t]))
  /\ pos[t] \in Nat
  /\ Len(replies[t]) <= Len(done[t])
  /\ t \in inMap => Len(replies[t]) < Len(done[t]) /\ pending[t] = done[t][Len(replies[t]) + 1]

\* The i-th record was read for the i-th call.
Matched(t, i) ==
  /\ i \in DOMAIN trace[t]
  /\ trace[t][i].fn = done[t][i].api
  /\ trace[t][i].n = i \/ done[t][i].api = SelectBinary

\* A call that is being answered has read its record; piTearDown, the last
\* call, reads none.
Reading(t) ==
  outcome \in {"waiting", "running"} =>
    /\ \A i \in 1 .. pos[t] : Matched(t, i)
    /\ t \in inMap => pos[t] = Len(replies[t]) + 1
    /\ t \notin inMap => pos[t] = Len(replies[t]) \/ Len(replies[t]) = Len(done[t])

Answered(t) ==
  \A k \in DOMAIN replies[t] : Matched(t, k) /\ replies[t][k].n = trace[t][k].n

\* Replay starts when the recorder is gone, and on its files.
Phases ==
  /\ DOMAIN replies = Threads /\ DOMAIN pos = Threads /\ DOMAIN pending = Threads
  /\ outcome = "waiting" => inMap = {} /\ \A t \in Threads : replies[t] = <<>> /\ pos[t] = 0
  /\ outcome # "waiting" => ended /\ files = trace /\ memory = memFiles

\* A torn down plugin is not called again.
LastCall ==
  \A t \in Threads :
    /\ \A n \in DOMAIN done[t] : done[t][n].api = "piTearDown" => n = Len(done[t])
    /\ TornDown(t) => pc[t] = "idle"

OrderReplayInv ==
  /\ LogInv /\ OrderInv /\ LastCall /\ Phases
  /\ \A t \in Threads : ReplyType(t) /\ Reading(t) /\ Answered(t)

(***************************************************************************)
(* The order of the records, from the steps of RecordLog                   *)
(***************************************************************************)

\* The record of a call has its number.
LEMMA RecordFields ==
  ASSUME NEW c \in Calls, NEW n \in Nat
  PROVE  /\ Record(c, n, WriteMemObj) \in Records
         /\ Record(c, n, WriteMemObj).n = n /\ Record(c, n, WriteMemObj).fn = c.api
BY RecordType DEF Record

\* A log that is not ahead has only the calls that returned.
LEMMA NotAhead ==
  ASSUME NEW s \in Seq(Records), NEW d \in Seq(Calls), Ordered(s, d),
         s = <<>> \/ s[Len(s)].n # Len(d) + 1
  PROVE  Len(s) <= Len(d) /\ \A i \in DOMAIN s : s[i].n \in Nat /\ s[i].n <= Len(d)
<1>1. CASE s = <<>>
  BY <1>1
<1>2. CASE s # <<>>
  <2>1. Len(s) \in DOMAIN s /\ \A i \in DOMAIN s : i <= Len(s) /\ i \in Nat
    BY <1>2
  <2>2. s[Len(s)].n \in Len(s) .. Len(d) + 1 /\ s[Len(s)].n # Len(d) + 1
    BY <1>2, <2>1 DEF Ordered
  <2>3. \A i \in DOMAIN s : s[i].n \in Nat /\ s[i].n <= s[Len(s)].n
    BY <2>1, <2>2 DEF Ordered
  <2> QED BY <2>2, <2>3
<1> QED BY <1>1, <1>2

\* The record of the current call is written, and the call goes on or returns.
LEMMA Grown ==
  ASSUME NEW s \in Seq(Records), NEW d \in Seq(Calls), NEW c \in Calls,
         Ordered(s, d), Faithful(s, d), s = <<>> \/ s[Len(s)].n # Len(d) + 1,
         NEW r, r = Record(c, Len(d) + 1, WriteMemObj)
  PROVE  /\ Ordered(Append(s, r), d) /\ Ordered(Append(s, r), Append(d, c))
         /\ Faithful(Append(s, r), d) /\ Faithful(Append(s, r), Append(d, c))
         /\ Kept(s, d) => Kept(Append(s, r), d) /\ Kept(Append(s, r), Append(d, c))
<1>1. Len(s) <= Len(d) /\ \A i \in DOMAIN s : s[i].n \in Nat /\ s[i].n <= Len(d)
  BY NotAhead
<1>2. r \in Records /\ r.n = Len(d) + 1
  BY RecordFields
<1> DEFINE u == Append(s, r)
           e == Append(d, c)
<1>3. /\ Len(s) \in Nat /\ DOMAIN s = 1 .. Len(s) /\ DOMAIN u = 1 .. Len(s) + 1
      /\ u[Len(s) + 1] = r /\ \A i \in 1 .. Len(s) : u[i] = s[i]
  BY <1>2, AppendFacts
<1>4. /\ Len(d) \in Nat /\ DOMAIN d = 1 .. Len(d) /\ DOMAIN e = 1 .. Len(d) + 1 /\ Len(e) = Len(d) + 1
      /\ e[Len(d) + 1] = c /\ \A n \in 1 .. Len(d) : e[n] = d[n]
  BY AppendFacts
<1> HIDE DEF u, e
<1>5. \A i \in DOMAIN u : (i \in DOMAIN s /\ u[i] = s[i]) \/ (i = Len(s) + 1 /\ u[i] = r)
  BY <1>3
<1>6. \A i \in DOMAIN s : i \in DOMAIN u /\ u[i] = s[i]
  BY <1>3
<1>7. Ordered(u, d) /\ Ordered(u, e)
  <2>1. \A i, j \in DOMAIN u : i < j => u[i].n < u[j].n
    BY <1>1, <1>2, <1>3, <1>4, <1>5 DEF Ordered
  <2>2. \A i \in DOMAIN u : u[i].n \in i .. Len(d) + 1 /\ u[i].n \in i .. Len(e) + 1
    BY <1>1, <1>2, <1>3, <1>4, <1>5 DEF Ordered
  <2> QED BY <2>1, <2>2 DEF Ordered
<1>8. Faithful(u, d)
  BY <1>1, <1>2, <1>4, <1>5 DEF Faithful
<1>9. Faithful(u, e)
  <2>1. ASSUME NEW i \in DOMAIN u PROVE u[i] = Record(e[u[i].n], u[i].n, WriteMemObj)
    <3>1. CASE i \in DOMAIN s /\ u[i] = s[i]
      <4>1. s[i].n \in 1 .. Len(d)
        BY <1>1, <1>3, <3>1 DEF Ordered
      <4> QED BY <1>1, <1>4, <3>1, <4>1 DEF Faithful
    <3>2. CASE u[i] = r
      BY <1>2, <1>4, <3>2
    <3> QED BY <1>5, <3>1, <3>2
  <2> QED BY <2>1 DEF Faithful
<1>10. ASSUME Kept(s, d) PROVE Kept(u, d) /\ Kept(u, e)
  <2>1. Kept(u, d)
    BY <1>6, <1>10 DEF Kept
  <2>2. ASSUME NEW n \in DOMAIN e PROVE e[n].api = SelectBinary \/ \E i \in DOMAIN u : u[i].n = n
    <3>1. CASE n \in DOMAIN d
      BY <1>4, <2>1, <3>1 DEF Kept
    <3>2. CASE n = Len(d) + 1
      BY <1>2, <1>3, <3>2
    <3> QED BY <1>4, <3>1, <3>2
  <2> QED BY <2>1, <2>2 DEF Kept
<1> QED BY <1>7, <1>8, <1>9, <1>10 DEF u, e

\* A call returns whose record was written ahead, or is lost.
LEMMA Returned ==
  ASSUME NEW s \in Seq(Records), NEW d \in Seq(Calls), NEW c \in Calls,
         Ordered(s, d), Faithful(s, d),
         \/ s # <<>> /\ s[Len(s)] = Record(c, Len(d) + 1, WriteMemObj)
         \/ s = <<>> \/ s[Len(s)].n # Len(d) + 1
  PROVE  /\ Ordered(s, Append(d, c)) /\ Faithful(s, Append(d, c))
         /\ Kept(s, d) /\ (c.api = SelectBinary \/ (s # <<>> /\ s[Len(s)].n = Len(d) + 1))
              => Kept(s, Append(d, c))
<1> DEFINE e == Append(d, c)
<1>1. /\ Len(d) \in Nat /\ DOMAIN d = 1 .. Len(d) /\ DOMAIN e = 1 .. Len(d) + 1 /\ Len(e) = Len(d) + 1
      /\ e[Len(d) + 1] = c /\ \A n \in 1 .. Len(d) : e[n] = d[n]
  BY AppendFacts
<1> HIDE DEF e
<1>2. Len(s) \in Nat /\ DOMAIN s = 1 .. Len(s)
  OBVIOUS
<1>3. Ordered(s, e)
  BY <1>1, <1>2 DEF Ordered
<1>4. \A i \in DOMAIN s : s[i].n \in 1 .. Len(d) \/ s[i] = Record(c, Len(d) + 1, WriteMemObj)
  <2>1. CASE s # <<>> /\ s[Len(s)] = Record(c, Len(d) + 1, WriteMemObj)
    <3>1. s[Len(s)].n = Len(d) + 1 /\ Len(s) \in DOMAIN s
      BY <1>1, <1>2, <2>1, RecordFields
    <3>2. \A i \in DOMAIN s : i # Len(s) => s[i].n \in 1 .. Len(d)
      BY <1>1, <1>2, <3>1 DEF Ordered
    <3> QED BY <2>1, <3>2
  <2>2. CASE s = <<>> \/ s[Len(s)].n # Len(d) + 1
    <3>1. \A i \in DOMAIN s : s[i].n <= Len(d)
      BY <2>2, NotAhead
    <3> QED BY <1>1, <1>2, <3>1 DEF Ordered
  <2> QED BY <2>1, <2>2
<1>5. Faithful(s, e)
  <2>1. ASSUME NEW i \in DOMAIN s PROVE s[i] = Record(e[s[i].n], s[i].n, WriteMemObj)
    <3>1. CASE s[i].n \in 1 .. Len(d)
      BY <1>1, <3>1 DEF Faithful
    <3>2. CASE s[i] = Record(c, Len(d) + 1, WriteMemObj)
      BY <1>1, <3>2, RecordFields
    <3> QED BY <1>4, <3>1, <3>2
  <2> QED BY <2>1 DEF Faithful
<1>6. ASSUME Kept(s, d), c.api = SelectBinary \/ (s # <<>> /\ s[Len(s)].n = Len(d) + 1)
      PROVE  Kept(s, e)
  <2>1. ASSUME NEW n \in DOMAIN e PROVE e[n].api = SelectBinary \/ \E i \in DOMAIN s : s[i].n = n
    <3>1. CASE n \in DOMAIN d
      BY <1>1, <1>6, <3>1 DEF Kept
    <3>2. CASE n = Len(d) + 1
      BY <1>1, <1>2, <1>6, <3>2
    <3> QED BY <1>1, <3>1, <3>2
  <2> QED BY <2>1 DEF Kept
<1> QED BY <1>3, <1>5, <1>6 DEF e

\* Every step of the log keeps its order.
LEMMA OrderStep ==
  ASSUME TypeOK, OrderInv, [Log!Next]_(Log!logVars)
  PROVE  OrderInv'
<1> USE ConstantsAssumption DEF ConstantsAssumption
<1> DEFINE Good(t, s, d) == /\ Ordered(s, d) /\ Faithful(s, d) /\ (t \in Followed => Kept(s, d))
                            /\ \A n \in DOMAIN d : d[n] \in Program
<1>0. /\ \A t \in Threads : Good(t, trace[t], done[t])
      /\ trace \in [Threads -> Seq(Records)] /\ done \in [Threads -> Seq(Calls)]
  BY DEF OrderInv, TypeOK
<1>1. CASE UNCHANGED <<trace, done>>
  BY <1>1 DEF OrderInv
<1>2. ASSUME NEW t \in Threads, NEW c \in Program, \A u \in Threads \ {t} : trace'[u] = trace[u] /\ done'[u] = done[u],
             Good(t, trace'[t], done'[t])
      PROVE  OrderInv'
  BY <1>0, <1>2 DEF OrderInv
<1>3. ASSUME NEW t \in Threads, NEW c \in Program, Log!WriteAhead(t, c) PROVE OrderInv'
  <2>1. /\ t \in Followed /\ ~Log!Ahead(t) /\ done' = done
        /\ trace' = [trace EXCEPT ![t] = Append(@, Record(c, Len(done[t]) + 1, WriteMemObj))]
    BY <1>3 DEF Log!WriteAhead, LoggedEntry, Log!NextNumber
  <2>2. trace[t] = <<>> \/ trace[t][Len(trace[t])].n # Len(done[t]) + 1
    BY <2>1 DEF Log!Ahead, Log!NextNumber
  <2>3. Good(t, Append(trace[t], Record(c, Len(done[t]) + 1, WriteMemObj)), done[t])
    BY <1>0, <2>2, Grown
  <2> HIDE DEF Good
  <2> QED BY <1>0, <1>2, <2>1, <2>3
<1>4. ASSUME NEW t \in Threads, NEW c \in Program, Log!Return(t, c) PROVE OrderInv'
  <2> DEFINE r == Record(c, Len(done[t]) + 1, WriteMemObj)
  <2>1. /\ done' = [done EXCEPT ![t] = Append(@, c)]
        /\ \/ trace[t] # <<>> /\ trace[t][Len(trace[t])] = r /\ trace' = trace
           \/ ~Log!Ahead(t) /\ trace' = [trace EXCEPT ![t] = Append(@, r)]
           \/ ~Log!Ahead(t) /\ (t \notin Followed \/ c.api = SelectBinary) /\ trace' = trace
    BY <1>4 DEF Log!Return, LoggedEntry, Log!NextNumber, Log!Ahead
  <2>2. ~Log!Ahead(t) => trace[t] = <<>> \/ trace[t][Len(trace[t])].n # Len(done[t]) + 1
    BY DEF Log!Ahead, Log!NextNumber
  <2>3. r.n = Len(done[t]) + 1
    BY <1>0, RecordFields
  <2>4. \A n \in DOMAIN Append(done[t], c) : Append(done[t], c)[n] \in Program
    BY <1>0
  <2>5. CASE trace[t] # <<>> /\ trace[t][Len(trace[t])] = r /\ trace' = trace
    <3>1. Good(t, trace[t], Append(done[t], c))
      BY <1>0, <2>3, <2>4, <2>5, Returned
    <3> HIDE DEF Good
    <3> QED BY <1>0, <1>2, <2>1, <2>5, <3>1
  <2>6. CASE ~Log!Ahead(t) /\ trace' = [trace EXCEPT ![t] = Append(@, r)]
    <3>1. Good(t, Append(trace[t], r), Append(done[t], c))
      BY <1>0, <2>2, <2>4, <2>6, Grown
    <3> HIDE DEF Good
    <3> QED BY <1>0, <1>2, <2>1, <2>6, <3>1
  <2>7. CASE ~Log!Ahead(t) /\ (t \notin Followed \/ c.api = SelectBinary) /\ trace' = trace
    <3>1. Good(t, trace[t], Append(done[t], c))
      BY <1>0, <2>2, <2>4, <2>7, Returned
    <3> HIDE DEF Good
    <3> QED BY <1>0, <1>2, <2>1, <2>7, <3>1
  <2> QED BY <2>1, <2>5, <2>6, <2>7
<1> QED BY <1>1, <1>3, <1>4 DEF Log!Next, Log!logVars, Log!Stop

\* Nothing is called after piTearDown.
LEMMA LastStep ==
  ASSUME TypeOK, LastCall, RecordStep
  PROVE  LastCall'
<1> USE DEF TypeOK
<1>0. \A t \in Threads : /\ \A n \in DOMAIN done[t] : done[t][n].api = "piTearDown" => n = Len(done[t])
                         /\ TornDown(t) => pc[t] = "idle"
  BY DEF LastCall
<1>1. ASSUME NEW t \in Threads, UNCHANGED done, NEW label, pc' = [pc EXCEPT ![t] = label],
             pc[t] # "idle" \/ ~TornDown(t)
      PROVE  LastCall'
  BY <1>0, <1>1 DEF LastCall, TornDown
<1>2. ASSUME UNCHANGED <<done, pc>> PROVE LastCall'
  BY <1>0, <1>2 DEF LastCall, TornDown
<1>3. ASSUME NEW t \in Threads, FlushAndReturn(t) PROVE LastCall'
  <2>1. pc[t] = "flush" /\ done' = [done EXCEPT ![t] = Append(@, call[t])] /\ pc' = [pc EXCEPT ![t] = "idle"]
    BY <1>3 DEF FlushAndReturn, Goto
  <2>2. ~TornDown(t)
    BY <1>0, <2>1
  <2>3. /\ Len(done[t]) \in Nat /\ DOMAIN done[t] = 1 .. Len(done[t])
        /\ DOMAIN done'[t] = 1 .. Len(done[t]) + 1 /\ Len(done'[t]) = Len(done[t]) + 1
        /\ \A n \in 1 .. Len(done[t]) : done'[t][n] = done[t][n]
    BY <2>1, AppendFacts
  <2>4. \A n \in DOMAIN done[t] : done[t][n].api # "piTearDown"
    BY <1>0, <2>2, <2>3 DEF TornDown
  <2>5. \A n \in DOMAIN done'[t] : done'[t][n].api = "piTearDown" => n = Len(done'[t])
    <3>1. \A n \in DOMAIN done'[t] : n \in DOMAIN done[t] \/ n = Len(done'[t])
      BY <2>3
    <3>2. \A n \in DOMAIN done[t] : done'[t][n] = done[t][n]
      BY <2>3
    <3> QED BY <2>4, <3>1, <3>2
  <2>6. pc'[t] = "idle" /\ \A u \in Threads \ {t} : pc'[u] = pc[u] /\ done'[u] = done[u]
    BY <2>1
  <2>7. \A u \in Threads \ {t} : TornDown(u)' => TornDown(u)
    BY <2>6 DEF TornDown
  <2> QED BY <1>0, <2>5, <2>6, <2>7 DEF LastCall
<1>4. ASSUME NEW t \in Threads, NEW c \in Program, ~TornDown(t), BeginCallback(t, c, t, t \in Followed)
      PROVE  LastCall'
  BY <1>1, <1>4 DEF BeginCallback, Goto
<1>5. ASSUME NEW t \in Threads, EndCallback(t) \/ Lock(t) \/ Recheck(t) \/ Collect(t) \/ DumpDone(t)
                                \/ SaveMemory(t, t \in Followed) \/ Serialize(t)
      PROVE  LastCall'
  <2>1. UNCHANGED done /\ pc[t] # "idle"
    BY <1>5 DEF EndCallback, Lock, Recheck, Collect, DumpDone, SaveMemory, Serialize
  <2>2. PICK label : pc' = [pc EXCEPT ![t] = label]
    BY <1>5 DEF EndCallback, Lock, Recheck, Collect, DumpDone, SaveMemory, Serialize, Goto
  <2> QED BY <1>1, <2>1, <2>2
<1>6. ASSUME NEW t \in Threads, DumpBinary(t, t \in Followed) \/ SaveMemoryOfFailedCall(t) \/ Deinit(t)
      PROVE  LastCall'
  BY <1>2, <1>6 DEF DumpBinary, SaveMemoryOfFailedCall, Deinit
<1>7. CASE Kill
  BY <1>2, <1>7 DEF Kill
<1> QED BY <1>3, <1>4, <1>5, <1>6, <1>7 DEF RecordStep, Progress

\* A step of the recording is a step of the recorder that is not gone.
LEMMA RecordIsNext ==
  ASSUME RecordStep
  PROVE  Next /\ ~ended /\ UNCHANGED replayVars
<1>1. ASSUME NEW t \in Threads, Progress(t, t \in Followed) PROVE ~ended
  BY <1>1 DEF Progress, EndCallback, Lock, Recheck, Collect, DumpBinary, DumpDone, SaveMemory,
              SaveMemoryOfFailedCall, Serialize, FlushAndReturn
<1>2. ~ended
  BY <1>1 DEF RecordStep, BeginCallback, Deinit, Kill
<1>3. Next
  BY DEF RecordStep, Next
<1> QED BY <1>2, <1>3 DEF RecordStep

\* While the program is recorded, replay has not begun.
LEMMA RecordKeeps ==
  ASSUME OrderReplayInv, RecordStep
  PROVE  OrderReplayInv'
<1>1. Next /\ ~ended /\ UNCHANGED <<files, memory, opened, pos, pending, inMap, replies, outcome>>
  BY RecordIsNext DEF replayVars
<1>2. LogInv' /\ TypeOK' /\ TypeOK
  BY <1>1, LogStep DEF OrderReplayInv, LogInv
<1>3. OrderInv'
  BY <1>1, <1>2, LogRefined, OrderStep DEF OrderReplayInv
<1>4. LastCall'
  BY <1>2, LastStep DEF OrderReplayInv
<1>5. outcome = "waiting" /\ inMap = {} /\ \A t \in Threads : replies[t] = <<>> /\ pos[t] = 0
  BY <1>1 DEF OrderReplayInv, Phases
<1>6. Phases'
  BY <1>1, <1>5 DEF OrderReplayInv, Phases
<1>7. ASSUME NEW t \in Threads PROVE ReplyType(t)' /\ Reading(t)' /\ Answered(t)'
  <2>1. replies'[t] = <<>> /\ pos'[t] = 0 /\ t \notin inMap' /\ Len(<<>>) = 0 /\ DOMAIN <<>> = {}
    BY <1>1, <1>5
  <2>2. Len(done'[t]) \in Nat /\ <<>> \in Seq(Range(<<>>))
    BY <1>2 DEF TypeOK
  <2> QED BY <2>1, <2>2 DEF ReplyType, Reading, Answered
<1> QED BY <1>2, <1>3, <1>4, <1>6, <1>7 DEF OrderReplayInv

\* The recorder's part, while it is gone.
LEMMA RecorderGone ==
  ASSUME OrderReplayInv, UNCHANGED vars
  PROVE  LogInv' /\ OrderInv' /\ LastCall'
<1>1. LogInv'
  BY LogStep DEF OrderReplayInv
<1>2. OrderInv'
  BY DEF vars, OrderReplayInv, OrderInv
<1>3. LastCall'
  BY DEF vars, OrderReplayInv, LastCall, TornDown
<1> QED BY <1>1, <1>2, <1>3

\* The program is started again.
LEMMA StartKeeps ==
  ASSUME OrderReplayInv, StartReplay
  PROVE  OrderReplayInv'
<1>1. /\ UNCHANGED vars /\ ended /\ outcome = "waiting" /\ outcome' = "running" /\ files' = trace /\ memory' = memFiles
      /\ UNCHANGED <<pos, pending, inMap, replies>>
  BY DEF StartReplay, P!Start
<1>2. LogInv' /\ OrderInv' /\ LastCall'
  BY <1>1, RecorderGone
<1>3. Phases'
  BY <1>1 DEF vars, OrderReplayInv, Phases
<1>4. ASSUME NEW t \in Threads PROVE ReplyType(t)' /\ Reading(t)' /\ Answered(t)'
  BY <1>1 DEF vars, OrderReplayInv, ReplyType, Reading, Answered, Matched
<1> QED BY <1>2, <1>3, <1>4 DEF OrderReplayInv

(***************************************************************************)
(* Replay, on any trace that a recording leaves                            *)
(***************************************************************************)

\* After as many records as calls, the next record is that of the next call,
\* unless the next call is a piextDeviceSelectBinary.
LEMMA NextCall ==
  ASSUME OrderReplayInv, NEW t \in Threads, t \in Followed, NEW p \in Nat, p < Len(done[t]),
         \A i \in 1 .. p : Matched(t, i)
  PROVE  \/ done[t][p + 1].api = SelectBinary
         \/ Matched(t, p + 1) /\ trace[t][p + 1].n = p + 1
            /\ trace[t][p + 1] = Record(done[t][p + 1], p + 1, WriteMemObj)
<1> DEFINE s == trace[t]
           d == done[t]
<1>1. s \in Seq(Records) /\ d \in Seq(Calls) /\ Ordered(s, d) /\ Faithful(s, d) /\ Kept(s, d)
  BY DEF OrderReplayInv, LogInv, TypeOK, OrderInv
<1>2. p + 1 \in DOMAIN d /\ d[p + 1] \in Calls /\ Len(s) \in Nat /\ DOMAIN s = 1 .. Len(s)
  BY <1>1
<1> SUFFICES ASSUME d[p + 1].api # SelectBinary
             PROVE  p + 1 \in DOMAIN s /\ s[p + 1].n = p + 1 /\ s[p + 1] = Record(d[p + 1], p + 1, WriteMemObj)
  BY <1>2, RecordFields DEF Matched
<1>3. PICK i \in DOMAIN s : s[i].n = p + 1
  BY <1>1, <1>2 DEF Kept
<1>4. s[i] = Record(d[p + 1], p + 1, WriteMemObj) /\ s[i].fn = d[p + 1].api
  BY <1>1, <1>2, <1>3, RecordFields DEF Faithful
<1>5. i > p
  <2>1. SUFFICES ASSUME i <= p PROVE FALSE
    BY <1>2
  <2>2. Matched(t, i) /\ i # p + 1
    BY <1>2, <2>1
  <2> QED BY <1>3, <1>4, <2>2 DEF Matched
<1>6. i = p + 1
  <2>1. p + 1 \in DOMAIN s
    BY <1>2, <1>5
  <2>2. s[p + 1].n \in p + 1 .. Len(d) + 1
    BY <1>1, <2>1 DEF Ordered
  <2>3. i > p + 1 => s[p + 1].n < s[i].n
    BY <1>1, <2>1 DEF Ordered
  <2> QED BY <1>1, <1>2, <1>3, <1>5, <2>2, <2>3
<1> QED BY <1>3, <1>4, <1>6

\* A thread gets a reply, made from the record of that number.
LEMMA Replied ==
  ASSUME OrderReplayInv, NEW t \in Threads, NEW n, NEW slots, P!Answer(t, n, slots)
  PROVE  /\ DOMAIN replies' = Threads /\ \A u \in Threads \ {t} : replies'[u] = replies[u]
         /\ replies'[t] \in Seq(Range(replies'[t]))
         /\ Len(replies[t]) \in Nat /\ DOMAIN replies[t] = 1 .. Len(replies[t])
         /\ Len(replies'[t]) = Len(replies[t]) + 1 /\ DOMAIN replies'[t] = 1 .. Len(replies[t]) + 1
         /\ \A k \in 1 .. Len(replies[t]) : replies'[t][k] = replies[t][k]
         /\ replies'[t][Len(replies[t]) + 1] = [n |-> n, slots |-> slots]
<1> DEFINE s == replies[t]
           e == [n |-> n, slots |-> slots]
<1>1. s \in Seq(Range(s)) /\ DOMAIN replies = Threads
  BY DEF OrderReplayInv, ReplyType, Phases
<1>2. replies' = [replies EXCEPT ![t] = Append(s, e)]
  BY DEF P!Answer
<1> HIDE DEF e
<1>3. s \in Seq(Range(s) \cup {e}) /\ e \in Range(s) \cup {e}
  BY <1>1
<1>4. /\ Len(s) \in Nat /\ DOMAIN s = 1 .. Len(s)
      /\ Len(Append(s, e)) = Len(s) + 1 /\ DOMAIN Append(s, e) = 1 .. Len(s) + 1
      /\ \A k \in 1 .. Len(s) : Append(s, e)[k] = s[k]
      /\ Append(s, e)[Len(s) + 1] = e /\ Append(s, e) \in Seq(Range(s) \cup {e})
  BY <1>3, AppendFacts
<1>5. \A k \in DOMAIN Append(s, e) : Append(s, e)[k] \in Range(Append(s, e))
  BY DEF Range
<1>6. Append(s, e) \in Seq(Range(Append(s, e)))
  BY <1>4, <1>5
<1>7. DOMAIN replies' = Threads /\ replies'[t] = Append(s, e) /\ \A u \in Threads \ {t} : replies'[u] = replies[u]
  BY <1>1, <1>2
<1> QED BY <1>4, <1>6, <1>7 DEF e

\* A step of one thread that does not end the process.
LEMMA ThreadReplies ==
  ASSUME OrderReplayInv, NEW t \in Threads, UNCHANGED <<vars, files, memory, outcome>>, outcome = "running",
         DOMAIN replies' = Threads, DOMAIN pos' = Threads, DOMAIN pending' = Threads,
         \A u \in Threads \ {t} : /\ replies'[u] = replies[u] /\ pos'[u] = pos[u] /\ pending'[u] = pending[u]
                                  /\ u \in inMap' <=> u \in inMap,
         ReplyType(t)', Reading(t)', Answered(t)'
  PROVE  OrderReplayInv'
<1>1. LogInv' /\ OrderInv' /\ LastCall'
  BY RecorderGone
<1>2. Phases'
  BY DEF vars, OrderReplayInv, Phases
<1>3. ASSUME NEW u \in Threads \ {t} PROVE ReplyType(u)' /\ Reading(u)' /\ Answered(u)'
  <2>1. /\ replies'[u] = replies[u] /\ pos'[u] = pos[u] /\ pending'[u] = pending[u]
        /\ u \in inMap' <=> u \in inMap
        /\ trace' = trace /\ done' = done /\ outcome' = outcome
    BY DEF vars
  <2>2. ReplyType(u) /\ Reading(u) /\ Answered(u)
    BY DEF OrderReplayInv
  <2>3. ReplyType(u)'
    BY <2>1, <2>2 DEF ReplyType
  <2>4. Reading(u)'
    BY <2>1, <2>2 DEF Reading, Matched
  <2>5. Answered(u)'
    BY <2>1, <2>2 DEF Answered, Matched
  <2> QED BY <2>3, <2>4, <2>5
<1> QED BY <1>1, <1>2, <1>3 DEF OrderReplayInv

\* A step that ends the process.
LEMMA ReplayEnds ==
  ASSUME OrderReplayInv, UNCHANGED <<vars, files, memory, replies, pending, inMap>>, outcome = "running",
         outcome' \in {"aborted", "undefined"}, DOMAIN pos' = Threads, \A t \in Threads : pos'[t] \in Nat
  PROVE  OrderReplayInv'
<1>1. LogInv' /\ OrderInv' /\ LastCall'
  BY RecorderGone
<1>2. Phases'
  BY DEF vars, OrderReplayInv, Phases
<1>3. ASSUME NEW u \in Threads PROVE ReplyType(u)' /\ Reading(u)' /\ Answered(u)'
  BY DEF vars, OrderReplayInv, ReplyType, Reading, Answered, Matched
<1> QED BY <1>1, <1>2, <1>3 DEF OrderReplayInv

\* The read position after a call.
LEMMA ReadFacts ==
  ASSUME OrderReplayInv, outcome = "running", NEW t \in Threads, P!ReadRecord(t)
  PROVE  /\ DOMAIN pos' = Threads /\ \A u \in Threads : pos'[u] \in Nat
         /\ \A u \in Threads \ {t} : pos'[u] = pos[u]
         /\ files = trace /\ pos[t] \in Nat /\ Len(trace[t]) \in Nat
         /\ pos[t] < Len(trace[t]) => pos'[t] = pos[t] + 1
<1>1. /\ files = trace /\ DOMAIN pos = Threads /\ (\A u \in Threads : pos[u] \in Nat)
      /\ Len(trace[t]) \in Nat
  BY DEF OrderReplayInv, Phases, ReplyType, LogInv, TypeOK
<1>2. pos' = [pos EXCEPT ![t] = P!Advance(t)]
  BY DEF P!ReadRecord
<1>3. P!Advance(t) \in Nat /\ (pos[t] < Len(trace[t]) => P!Advance(t) = pos[t] + 1)
  BY <1>1 DEF P!Advance
<1> QED BY <1>1, <1>2, <1>3

\* A thread that makes its next call has read as many records as it has replies.
LEMMA NextNumber ==
  ASSUME OrderReplayInv, outcome = "running", NEW t \in Threads, t \notin inMap,
         Len(replies[t]) < Len(done[t])
  PROVE  /\ pos[t] = Len(replies[t]) /\ pos[t] \in Nat /\ pos[t] < Len(done[t]) /\ Len(done[t]) \in Nat
         /\ \A i \in 1 .. pos[t] : Matched(t, i)
         /\ files = trace
<1>1. Reading(t) /\ pos[t] \in Nat /\ files = trace /\ Len(done[t]) \in Nat
  BY DEF OrderReplayInv, ReplyType, Phases, LogInv, TypeOK
<1>2. pos[t] = Len(replies[t])
  BY <1>1 DEF Reading
<1> QED BY <1>1, <1>2 DEF Reading

\* A record that has the function of the call is the one that was read for it.
LEMMA ReadMatches ==
  ASSUME OrderReplayInv, Followed = Threads, outcome = "running", NEW t \in Threads, t \notin inMap,
         Len(replies[t]) < Len(done[t]), NEW c, c = done[t][Len(replies[t]) + 1],
         P!NextRecord(t).fn = P!Expected(c.api)
  PROVE  pos[t] < Len(trace[t]) /\ P!NextRecord(t) = trace[t][pos[t] + 1] /\ Matched(t, pos[t] + 1)
<1>1. /\ pos[t] = Len(replies[t]) /\ pos[t] \in Nat /\ pos[t] < Len(done[t]) /\ files = trace
      /\ \A i \in 1 .. pos[t] : Matched(t, i)
  BY NextNumber
<1>2. Len(trace[t]) \in Nat /\ DOMAIN trace[t] = 1 .. Len(trace[t])
  BY DEF OrderReplayInv, LogInv, TypeOK
<1>3. CASE c.api = SelectBinary
  <2>1. P!NextRecord(t).fn = SelectBinary
    BY <1>3 DEF P!Expected, SelectBinary
  <2>2. pos[t] < Len(trace[t])
    <3>1. P!EndOfFile.fn # SelectBinary
      BY DEF P!EndOfFile, SelectBinary
    <3> QED BY <1>1, <2>1, <3>1 DEF P!NextRecord
  <2>3. P!NextRecord(t) = trace[t][pos[t] + 1] /\ pos[t] + 1 \in DOMAIN trace[t]
    BY <1>1, <1>2, <2>2 DEF P!NextRecord
  <2> QED BY <1>1, <1>3, <2>1, <2>2, <2>3 DEF Matched
<1>4. CASE c.api # SelectBinary
  <2>1. Matched(t, pos[t] + 1)
    BY <1>1, <1>4, NextCall
  <2>2. pos[t] < Len(trace[t])
    BY <1>1, <1>2, <2>1 DEF Matched
  <2> QED BY <1>1, <2>1, <2>2 DEF P!NextRecord
<1> QED BY <1>3, <1>4

\* A thread makes its next call.
LEMMA CallKeeps ==
  ASSUME OrderReplayInv, Followed = Threads, NEW t \in Threads, UNCHANGED vars,
         Len(replies[t]) < Len(done[t]), P!CallStep(t, done[t][Len(replies[t]) + 1])
  PROVE  OrderReplayInv'
<1> DEFINE c == done[t][Len(replies[t]) + 1]
           m == Len(replies[t])
<1>1. outcome = "running" /\ t \notin inMap /\ UNCHANGED <<files, memory>>
  BY DEF P!CallStep, P!TearDown, P!MissingEntry, P!Die, P!NoMemoryAtEnd, P!ReplayCall
<1>2. /\ pos[t] = m /\ pos[t] \in Nat /\ m < Len(done[t]) /\ Len(done[t]) \in Nat /\ files = trace
      /\ \A i \in 1 .. pos[t] : Matched(t, i)
  BY <1>1, NextNumber
<1>3. /\ DOMAIN replies = Threads /\ DOMAIN pos = Threads /\ DOMAIN pending = Threads /\ ReplyType(t) /\ Answered(t)
      /\ \A u \in Threads : pos[u] \in Nat
  BY DEF OrderReplayInv, Phases, ReplyType
<1>4. trace' = trace /\ done' = done
  BY DEF vars
<1>5. ASSUME NEW i, Matched(t, i) PROVE Matched(t, i)'
  BY <1>4, <1>5 DEF Matched
<1>6. CASE P!TearDown(t, c)
  <2>1. P!Answer(t, m + 1, {}) /\ c.api = "piTearDown" /\ UNCHANGED <<pos, pending, inMap, outcome>>
    BY <1>6 DEF P!TearDown
  <2>2. Matched(t, m + 1) /\ trace[t][m + 1].n = m + 1
    <3>1. c.api # SelectBinary
      BY <2>1 DEF SelectBinary
    <3> QED BY <1>2, <3>1, NextCall
  <2>3. /\ DOMAIN replies' = Threads /\ \A u \in Threads \ {t} : replies'[u] = replies[u]
        /\ replies'[t] \in Seq(Range(replies'[t]))
        /\ m \in Nat /\ DOMAIN replies[t] = 1 .. m
        /\ Len(replies'[t]) = m + 1 /\ DOMAIN replies'[t] = 1 .. m + 1
        /\ \A k \in 1 .. m : replies'[t][k] = replies[t][k]
        /\ replies'[t][m + 1] = [n |-> m + 1, slots |-> {}]
    BY <2>1, Replied
  <2>4. m + 1 = Len(done[t])
    <3>1. m + 1 \in DOMAIN done[t]
      BY <1>2, <2>3 DEF OrderReplayInv, LogInv, TypeOK
    <3> QED BY <2>1, <3>1 DEF OrderReplayInv, LastCall
  <2>5. ReplyType(t)'
    BY <1>1, <1>2, <1>4, <2>1, <2>3, <2>4 DEF ReplyType
  <2>6. Reading(t)'
    BY <1>1, <1>2, <1>4, <1>5, <2>1, <2>3, <2>4 DEF Reading
  <2>7. Answered(t)'
    <3>1. ASSUME NEW k \in 1 .. m + 1 PROVE Matched(t, k)' /\ replies'[t][k].n = trace'[t][k].n
      <4>1. CASE k \in 1 .. m
        BY <1>3, <1>4, <1>5, <2>3, <4>1 DEF Answered
      <4>2. CASE k = m + 1
        BY <1>4, <1>5, <2>2, <2>3, <4>2
      <4> QED BY <2>3, <4>1, <4>2
    <3> QED BY <2>3, <3>1 DEF Answered
  <2> QED BY <1>1, <1>3, <2>1, <2>3, <2>5, <2>6, <2>7, ThreadReplies
<1>7. CASE P!MissingEntry(t, c) \/ P!NoMemoryAtEnd(t, c)
  <2>1. outcome' = "undefined" /\ UNCHANGED <<pos, pending, inMap, replies>>
    BY <1>7 DEF P!MissingEntry, P!NoMemoryAtEnd
  <2> QED BY <1>1, <1>3, <2>1, ReplayEnds
<1>8. CASE P!Die(t, c)
  <2>1. outcome' = "aborted" /\ P!ReadRecord(t) /\ UNCHANGED <<pending, inMap, replies>>
    BY <1>8 DEF P!Die
  <2> QED BY <1>1, <2>1, ReadFacts, ReplayEnds
<1>9. CASE P!ReplayCall(t, c)
  <2>1. P!ReadRecord(t) /\ P!NextRecord(t).fn = P!Expected(c.api)
    BY <1>9 DEF P!ReplayCall
  <2>2. m < Len(trace[t]) /\ P!NextRecord(t) = trace[t][m + 1] /\ Matched(t, m + 1)
    BY <1>1, <1>2, <2>1, ReadMatches
  <2>3. /\ DOMAIN pos' = Threads /\ \A u \in Threads : pos'[u] \in Nat
        /\ \A u \in Threads \ {t} : pos'[u] = pos[u]
        /\ pos'[t] = m + 1
    BY <1>1, <1>2, <2>1, <2>2, ReadFacts
  <2>4. \A i \in 1 .. m + 1 : Matched(t, i)'
    BY <1>2, <1>5, <2>2
  <2>5. CASE outcome' = "undefined" /\ UNCHANGED <<replies, inMap, pending>>
    BY <1>1, <2>3, <2>5, ReplayEnds
  <2>6. CASE /\ outcome' = outcome /\ inMap' = inMap \cup {t} /\ pending' = [pending EXCEPT ![t] = c]
             /\ UNCHANGED replies
    <3>1. ReplyType(t)'
      BY <1>2, <1>3, <1>4, <2>3, <2>6 DEF ReplyType
    <3>2. Reading(t)'
      BY <2>3, <2>4, <2>6 DEF Reading
    <3>3. Answered(t)'
      BY <1>3, <1>4, <1>5, <2>6 DEF Answered
    <3> QED BY <1>1, <1>3, <2>3, <2>6, <3>1, <3>2, <3>3, ThreadReplies
  <2>7. ASSUME NEW slots, outcome' = outcome, P!Answer(t, trace[t][m + 1].n, slots), UNCHANGED <<inMap, pending>>
        PROVE OrderReplayInv'
    <3>1. /\ DOMAIN replies' = Threads /\ \A u \in Threads \ {t} : replies'[u] = replies[u]
          /\ replies'[t] \in Seq(Range(replies'[t]))
          /\ m \in Nat /\ DOMAIN replies[t] = 1 .. m
          /\ Len(replies'[t]) = m + 1 /\ DOMAIN replies'[t] = 1 .. m + 1
          /\ \A k \in 1 .. m : replies'[t][k] = replies[t][k]
          /\ replies'[t][m + 1] = [n |-> trace[t][m + 1].n, slots |-> slots]
      BY <2>7, Replied
    <3>2. ReplyType(t)'
      BY <1>1, <1>2, <1>4, <2>3, <2>7, <3>1 DEF ReplyType
    <3>3. Reading(t)'
      BY <1>1, <2>3, <2>4, <2>7, <3>1 DEF Reading
    <3>4. Answered(t)'
      <4>1. ASSUME NEW k \in 1 .. m + 1 PROVE Matched(t, k)' /\ replies'[t][k].n = trace'[t][k].n
        <5>1. CASE k \in 1 .. m
          BY <1>3, <1>4, <1>5, <3>1, <5>1 DEF Answered
        <5>2. CASE k = m + 1
          BY <1>4, <2>4, <3>1, <5>2
        <5> QED BY <3>1, <5>1, <5>2
      <4> QED BY <3>1, <4>1 DEF Answered
    <3> QED BY <1>1, <1>3, <2>3, <2>7, <3>1, <3>2, <3>3, <3>4, ThreadReplies
  <2> QED BY <1>9, <2>2, <2>5, <2>6, <2>7 DEF P!ReplayCall
<1> QED BY <1>6, <1>7, <1>8, <1>9 DEF P!CallStep

\* A thread comes back from a map.
LEMMA LeaveKeeps ==
  ASSUME OrderReplayInv, NEW t \in Threads, UNCHANGED vars, P!LeaveMap(t)
  PROVE  OrderReplayInv'
<1> DEFINE m == Len(replies[t])
<1>1. /\ outcome = "running" /\ t \in inMap /\ inMap' = inMap \ {t}
      /\ P!Answer(t, files[t][pos[t]].n, P!Reply(pending[t], files[t][pos[t]], t))
      /\ UNCHANGED <<files, memory, pos, pending, outcome>>
  BY DEF P!LeaveMap
<1>2. /\ DOMAIN pos = Threads /\ DOMAIN pending = Threads /\ files = trace
      /\ ReplyType(t) /\ Reading(t) /\ Answered(t)
  BY <1>1 DEF OrderReplayInv, Phases
<1>3. pos[t] = m + 1 /\ m < Len(done[t]) /\ \A i \in 1 .. m + 1 : Matched(t, i)
  BY <1>1, <1>2 DEF Reading, ReplyType
<1>4. trace' = trace /\ done' = done /\ Len(done[t]) \in Nat
  BY DEF vars, OrderReplayInv, LogInv, TypeOK
<1>5. PICK slots : P!Answer(t, trace[t][m + 1].n, slots)
  BY <1>1, <1>2, <1>3
<1>6. /\ DOMAIN replies' = Threads /\ \A u \in Threads \ {t} : replies'[u] = replies[u]
      /\ replies'[t] \in Seq(Range(replies'[t]))
      /\ m \in Nat /\ DOMAIN replies[t] = 1 .. m
      /\ Len(replies'[t]) = m + 1 /\ DOMAIN replies'[t] = 1 .. m + 1
      /\ \A k \in 1 .. m : replies'[t][k] = replies[t][k]
      /\ replies'[t][m + 1] = [n |-> trace[t][m + 1].n, slots |-> slots]
  BY <1>5, Replied
<1>7. \A i \in 1 .. m + 1 : Matched(t, i)'
  BY <1>3, <1>4 DEF Matched
<1>8. ReplyType(t)'
  BY <1>1, <1>2, <1>3, <1>4, <1>6 DEF ReplyType
<1>9. Reading(t)'
  BY <1>1, <1>3, <1>6, <1>7 DEF Reading
<1>10. Answered(t)'
  <2>1. ASSUME NEW k \in 1 .. m + 1 PROVE Matched(t, k)' /\ replies'[t][k].n = trace'[t][k].n
    <3>1. CASE k \in 1 .. m
      BY <1>2, <1>4, <1>6, <1>7, <3>1 DEF Answered
    <3>2. CASE k = m + 1
      BY <1>4, <1>6, <1>7, <3>2
    <3> QED BY <1>6, <3>1, <3>2
  <2> QED BY <1>6, <2>1 DEF Answered
<1> QED BY <1>1, <1>2, <1>6, <1>8, <1>9, <1>10, ThreadReplies

\* Two threads meet in a map.
LEMMA RaceKeeps ==
  ASSUME OrderReplayInv, NEW t \in Threads, NEW u \in Threads, UNCHANGED vars, P!MapRace(t, u)
  PROVE  OrderReplayInv'
<1>1. /\ outcome = "running" /\ outcome' = "undefined"
      /\ UNCHANGED <<files, memory, pos, pending, inMap, replies>>
  BY DEF P!MapRace
<1>2. DOMAIN pos = Threads /\ \A x \in Threads : pos[x] \in Nat
  BY DEF OrderReplayInv, Phases, ReplyType
<1> QED BY <1>1, <1>2, ReplayEnds

\* Nothing is recorded and nothing replayed yet.
LEMMA OrderReplayInit ==
  ASSUME ReplayInit
  PROVE  OrderReplayInv
<1>1. Init /\ P!Init
  BY DEF ReplayInit
<1>2. LogInv
  BY <1>1, LogInit
<1>3. \A t \in Threads : trace[t] = <<>> /\ done[t] = <<>> /\ DOMAIN <<>> = {} /\ Len(<<>>) = 0
  BY <1>1 DEF Init
<1>4. OrderInv /\ LastCall
  BY <1>3 DEF OrderInv, Ordered, Faithful, Kept, LastCall, TornDown
<1>5. /\ outcome = "waiting" /\ inMap = {} /\ DOMAIN replies = Threads /\ DOMAIN pos = Threads
      /\ DOMAIN pending = Threads /\ \A t \in Threads : replies[t] = <<>> /\ pos[t] = 0
  BY <1>1 DEF P!Init
<1>6. Phases
  BY <1>5 DEF Phases
<1>7. ASSUME NEW t \in Threads PROVE ReplyType(t) /\ Reading(t) /\ Answered(t)
  <2>1. <<>> \in Seq(Range(<<>>)) /\ 0 \in Nat /\ 0 <= 0 /\ 1 .. 0 = {}
    OBVIOUS
  <2>2. /\ replies[t] = <<>> /\ pos[t] = 0 /\ t \notin inMap /\ Len(replies[t]) = 0 /\ Len(done[t]) = 0
        /\ DOMAIN replies[t] = {}
    BY <1>3, <1>5
  <2>3. ReplyType(t)
    BY <2>1, <2>2 DEF ReplyType
  <2>4. Reading(t)
    BY <2>1, <2>2 DEF Reading
  <2>5. Answered(t)
    BY <2>2 DEF Answered
  <2> QED BY <2>3, <2>4, <2>5
<1> QED BY <1>2, <1>4, <1>6, <1>7 DEF OrderReplayInv

\* Every step keeps the invariant.
LEMMA OrderReplayStep ==
  ASSUME OrderReplayInv, Followed = Threads, [ReplayNext]_allVars
  PROVE  OrderReplayInv'
<1>1. CASE RecordStep
  BY <1>1, RecordKeeps
<1>2. CASE StartReplay
  BY <1>2, StartKeeps
<1>3. ASSUME NEW t \in Threads, ReplayStep(t) PROVE OrderReplayInv'
  BY <1>3, CallKeeps, LeaveKeeps, RaceKeeps DEF ReplayStep
<1>4. CASE UNCHANGED allVars
  <2>1. UNCHANGED <<vars, files, memory, pos, pending, inMap, replies, outcome>>
    BY <1>4 DEF allVars, replayVars
  <2>2. LogInv' /\ OrderInv' /\ LastCall'
    BY <2>1, RecorderGone
  <2>3. Phases'
    BY <2>1 DEF vars, OrderReplayInv, Phases
  <2>4. \A t \in Threads : ReplyType(t)' /\ Reading(t)' /\ Answered(t)'
    BY <2>1 DEF vars, OrderReplayInv, ReplyType, Reading, Answered, Matched
  <2> QED BY <2>2, <2>3, <2>4 DEF OrderReplayInv
<1> QED BY <1>1, <1>2, <1>3, <1>4 DEF ReplayNext

\* Recording and replay keep the invariant, when every thread was followed.
THEOREM OrderReplayInvariance ==
  ASSUME Followed = Threads
  PROVE  ReplaySpec => []OrderReplayInv
<1>1. ReplayInit => OrderReplayInv
  BY OrderReplayInit
<1>2. OrderReplayInv /\ [ReplayNext]_allVars => OrderReplayInv'
  BY OrderReplayStep
<1> QED BY <1>1, <1>2, PTL DEF ReplaySpec

\* Whatever the recording lost, replay answers a call from a record of the
\* same function and uses no record twice.
THEOREM AnswersAlwaysInOrder ==
  ASSUME Followed = Threads
  PROVE  ReplaySpec => []AnswersInOrder
<1>1. OrderReplayInv => AnswersInOrder
  <2> SUFFICES ASSUME OrderReplayInv, NEW t \in Threads, NEW k \in DOMAIN replies[t]
               PROVE  /\ \A j \in DOMAIN replies[t] : j < k => replies[t][j].n < replies[t][k].n
                      /\ \E i \in DOMAIN files[t] :
                           files[t][i].n = replies[t][k].n /\ files[t][i].fn = done[t][k].api
    BY DEF AnswersInOrder
  <2>1. files = trace
    <3>1. outcome # "waiting"
      BY DEF OrderReplayInv, Phases
    <3> QED BY <3>1 DEF OrderReplayInv, Phases
  <2>2. \A j \in DOMAIN replies[t] : Matched(t, j) /\ replies[t][j].n = trace[t][j].n
    BY DEF OrderReplayInv, Answered
  <2>3. Ordered(trace[t], done[t])
    BY DEF OrderReplayInv, OrderInv
  <2>4. \A j \in DOMAIN replies[t] : j < k => replies[t][j].n < replies[t][k].n
    BY <2>2, <2>3 DEF Matched, Ordered
  <2> QED BY <2>1, <2>2, <2>4 DEF Matched
<1> QED BY <1>1, OrderReplayInvariance, PTL

(***************************************************************************)
(* Replay of a program that it supports                                    *)
(***************************************************************************)

\* The calls replay answers as the recorded plugin did: those with an entry
\* in its table that checks for its own function, fills its outputs and finds
\* them in the record.  A query asks for the value or for its size.
Supported(c) ==
  /\ c.api \notin MissingApis \cup BareInfoApis \cup {"piMemRetain", "piProgramLink"}
  /\ c.api \in InfoApis => c.value # c.size

SupportedProgram == \A c \in Program : Supported(c)

SingleThread == \A t, u \in Threads : t = u

\* No race for the device images.
NoImageRace == SingleThread \/ \A c \in Program : c.api # SelectBinary

\* Without that race the flag is unset until the thread that waits for the
\* images' mutex sets it, every call has a record by the time of its flush,
\* and the n-th record is that of the n-th call.
CollectInv(t) == pc[t] \in {"lock", "recheck"} => ~GBinariesCollected
FlushInv(t) == pc[t] = "flush" => stream[t] # <<>> \/ ~Behind(t)
Exact(t) ==
  /\ \A i \in DOMAIN trace[t] : trace[t][i].n = i
  /\ Len(done[t]) <= Len(trace[t])

ExactInv == \A t \in Threads : CollectInv(t) /\ FlushInv(t) /\ Exact(t)

FaithfulInv ==
  /\ OrderReplayInv /\ ExactInv
  /\ RepliesFaithful /\ NeverAborted /\ UndefinedOnlyInMap

\* The index of the selected image is read from its record.
LEMMA SelectReply ==
  ASSUME NEW c, c.api = SelectBinary, NEW rec, rec.small = <<"index">>
  PROVE  P!ReplayProgram(c, rec) = {"index"}
BY DEF P!ReplayProgram, P!SelectBinary, SelectBinary

\* From the record of a supported call, replay fills the outputs of the call.
LEMMA FaithfulReply ==
  ASSUME NEW c \in Calls, Supported(c), NEW n \in Nat, NEW t \in Threads, NEW rec,
         rec = Record(c, n, TRUE), rec.mem => n \in memory[t]
  PROVE  P!Reply(c, rec, t) = Outputs(c) /\ Outputs(c) # P!Undefined
<1> DEFINE f == c.api
<1> USE DEF CountApis, InfoApis, BareInfoApis, SelectBinary, TransferApis, CreateApis, EventApis, PlainApis, MissingApis,
            P!CountApis, P!SelectBinary, P!TransferApis, P!EventApis
<1>1. /\ rec.n = n /\ rec.small = SmallOutputs(c) /\ rec.mem = SavesMemory(c, TRUE)
      /\ c.value \in BOOLEAN /\ c.size \in BOOLEAN /\ c.host \in BOOLEAN /\ f \in Apis
  BY DEF Record, Calls
<1>2. f \notin MissingApis \cup BareInfoApis \cup {"piMemRetain", "piProgramLink"}
  BY DEF Supported
<1>3. CASE f \in CountApis
  <2>1. rec.small = IF c.size THEN <<"count">> ELSE <<>>
    BY <1>1, <1>3 DEF SmallOutputs, Saved
  <2>2. Outputs(c) = Given(c.size, "count") \cup Given(c.value, "items")
    BY <1>3 DEF Outputs
  <2>3. P!Reply(c, rec, t) = P!ReplayCount(c, rec)
    BY <1>3 DEF P!Reply, P!ReplayPlatform
  <2>4. <<"count">> # <<>>
    OBVIOUS
  <2>5. P!ReplayCount(c, rec) = P!Given(c.size, "count") \cup P!Given(c.value, "items")
    BY <2>1, <2>4 DEF P!ReplayCount
  <2>6. "undefined" \notin Outputs(c)
    BY <2>2 DEF Given
  <2> QED BY <2>2, <2>3, <2>5, <2>6 DEF P!Undefined, P!Given, Given
<1>4. CASE f \in InfoApis
  <2> DEFINE slot == IF c.value THEN "value" ELSE "size"
  <2>1. c.value # c.size
    BY <1>4 DEF Supported
  <2>2. rec.small = <<slot>>
    <3>1. rec.small = Saved(c.value, "value") \o Saved(c.size, "size")
      BY <1>1, <1>4 DEF SmallOutputs
    <3>2. <<"value">> \o <<>> = <<"value">> /\ <<>> \o <<"size">> = <<"size">>
      OBVIOUS
    <3>3. CASE c.value = TRUE /\ c.size = FALSE
      BY <3>1, <3>2, <3>3 DEF Saved
    <3>4. CASE c.value = FALSE /\ c.size = TRUE
      BY <3>1, <3>2, <3>4 DEF Saved
    <3> QED BY <1>1, <2>1, <3>3, <3>4
  <2>3. rec.small # <<>> /\ rec.small[1] = slot /\ (c.value \/ c.size)
    <3>1. c.value \/ c.size
      BY <1>1, <2>1
    <3> HIDE DEF slot
    <3>2. <<slot>> # <<>> /\ <<slot>>[1] = slot
      OBVIOUS
    <3> QED BY <2>2, <3>1, <3>2
  <2>4. P!ReplayGetInfo(c, rec) = {rec.small[1]} \cap {slot}
    BY <2>3 DEF P!ReplayGetInfo
  <2>5. P!Reply(c, rec, t) = P!ReplayGetInfo(c, rec)
    BY <1>4 DEF P!Reply, P!ReplayPlatform, P!ReplayContext, P!ReplayKernel
  <2>6. Outputs(c) = {slot}
    <3>1. Outputs(c) = Given(c.value, "value") \cup Given(c.size, "size")
      BY <1>4 DEF Outputs
    <3>2. CASE c.value = TRUE /\ c.size = FALSE
      BY <3>1, <3>2 DEF Given
    <3>3. CASE c.value = FALSE /\ c.size = TRUE
      BY <3>1, <3>3 DEF Given
    <3> QED BY <1>1, <2>1, <3>2, <3>3
  <2>7. slot # "undefined"
    OBVIOUS
  <2> HIDE DEF slot
  <2> QED BY <2>3, <2>4, <2>5, <2>6, <2>7 DEF P!Undefined
<1>5. CASE f = SelectBinary
  <2>1. rec.small = <<"index">> /\ Outputs(c) = {"index"}
    BY <1>1, <1>5 DEF SmallOutputs, Outputs
  <2>2. P!Reply(c, rec, t) = P!ReplayProgram(c, rec)
    BY <1>5 DEF P!Reply
  <2>3. P!ReplayProgram(c, rec) = {"index"}
    BY <1>5, <2>1, SelectReply
  <2> QED BY <2>1, <2>2, <2>3 DEF P!Undefined
<1>6. CASE f \in TransferApis
  <2>1. P!Reply(c, rec, t) = P!ReplayTransfer(c, rec, t)
    BY <1>6 DEF P!Reply
  <2>2. rec.mem <=> (f = "piextUSMEnqueueMemcpy" => c.host = TRUE)
    BY <1>1, <1>6 DEF SavesMemory
  <2>3. rec.mem => rec.n \in memory[t]
    BY <1>1
  <2>4. CASE f = "piEnqueueMemBufferMap"
    BY <2>1, <2>2, <2>3, <2>4 DEF P!ReplayTransfer, Outputs, P!Undefined
  <2>5. CASE f = "piEnqueueMemBufferRead"
    BY <2>1, <2>2, <2>3, <2>5 DEF P!ReplayTransfer, Outputs, P!Undefined
  <2>6. CASE f = "piextUSMEnqueueMemcpy"
    <3>1. Outputs(c) = Given(c.host, "data") \cup {"event"}
      BY <2>6 DEF Outputs
    <3>2. P!ReplayTransfer(c, rec, t) = {"event"} \cup P!Given(rec.mem /\ rec.n \in memory[t], "data")
      BY <2>6 DEF P!ReplayTransfer
    <3>3. (rec.mem /\ rec.n \in memory[t]) <=> c.host
      BY <1>1, <2>2, <2>3, <2>6
    <3>4. P!Given(rec.mem /\ rec.n \in memory[t], "data") = Given(c.host, "data")
      BY <3>3 DEF P!Given, Given
    <3>5. "event" \in Outputs(c)
      BY <3>1
    <3>6. {"event"} \cup Given(c.host, "data") = Given(c.host, "data") \cup {"event"}
      OBVIOUS
    <3>7. P!Reply(c, rec, t) = Outputs(c)
      BY <2>1, <3>1, <3>2, <3>4, <3>6
    <3>8. Outputs(c) # P!Undefined
      BY <3>5 DEF P!Undefined
    <3> QED BY <3>7, <3>8
  <2> QED BY <1>6, <2>4, <2>5, <2>6
<1>7. CASE f \in CreateApis
  <2>1. P!Reply(c, rec, t) = {"object"}
    BY <1>2, <1>7 DEF P!Reply, P!ReplayContext, P!ReplayMem, P!ReplayProgram, P!ReplayKernel, P!ReplayUsm
  <2>2. Outputs(c) = {"object"}
    BY <1>7 DEF Outputs
  <2> QED BY <2>1, <2>2 DEF P!Undefined
<1>8. CASE f \in EventApis
  <2>1. P!Reply(c, rec, t) = {"event"}
    BY <1>8 DEF P!Reply, P!ReplayEnqueue, P!Given
  <2>2. Outputs(c) = {"event"}
    BY <1>8 DEF Outputs
  <2> QED BY <2>1, <2>2 DEF P!Undefined
<1>9. CASE f \in PlainApis
  <2>1. P!Reply(c, rec, t) = {}
    BY <1>2, <1>9 DEF P!Reply, P!ReplayEnqueue, P!Given
  <2>2. Outputs(c) = {}
    BY <1>9 DEF Outputs
  <2> QED BY <2>1, <2>2 DEF P!Undefined
<1> QED BY <1>1, <1>2, <1>3, <1>4, <1>5, <1>6, <1>7, <1>8, <1>9 DEF Apis

\* A followed thread that is in a call has a file.
LEMMA FollowedGood ==
  ASSUME LogInv, Followed = Threads, NEW t \in Threads, pc[t] # "idle"
  PROVE  good[t] = TRUE
<1>1. HandlerInv(t) /\ good[t] \in BOOLEAN
  BY DEF LogInv, ThreadInv, TypeOK
<1> QED BY <1>1 DEF HandlerInv

\* A file that is not ahead has a record for each call that returned, and one
\* more, of the current call, is the next.
LEMMA ExactGrown ==
  ASSUME NEW s \in Seq(Records), NEW d \in Seq(Calls), NEW c \in Calls, NEW r,
         Ordered(s, d), \A i \in DOMAIN s : s[i].n <= Len(d),
         \A i \in DOMAIN s : s[i].n = i, Len(d) <= Len(s),
         r = Record(c, Len(d) + 1, WriteMemObj)
  PROVE  Len(Append(s, r)) = Len(d) + 1 /\ \A i \in DOMAIN Append(s, r) : Append(s, r)[i].n = i
<1>1. r \in Records /\ r.n = Len(d) + 1
  BY RecordFields
<1> HIDE DEF Records
<1> DEFINE u == Append(s, r)
<1>2. /\ Len(s) \in Nat /\ Len(d) \in Nat /\ DOMAIN s = 1 .. Len(s) /\ DOMAIN u = 1 .. Len(s) + 1 /\ Len(u) = Len(s) + 1
      /\ u[Len(s) + 1] = r /\ \A i \in 1 .. Len(s) : u[i] = s[i]
  BY <1>1, AppendFacts
<1> HIDE DEF u
<1>3. Len(s) = Len(d)
  <2>1. CASE s = <<>>
    BY <1>2, <2>1
  <2>2. CASE s # <<>>
    <3>1. Len(s) \in DOMAIN s
      BY <1>2, <2>2
    <3> QED BY <1>2, <3>1
  <2> QED BY <2>1, <2>2
<1>4. ASSUME NEW i \in DOMAIN u PROVE u[i].n = i
  <2>1. CASE i \in 1 .. Len(s)
    BY <1>2, <2>1
  <2>2. CASE i = Len(s) + 1
    BY <1>1, <1>2, <1>3, <2>2
  <2> QED BY <1>2, <2>1, <2>2
<1> QED BY <1>2, <1>3, <1>4 DEF u

\* Steps that write nothing and do not get a thread to the flush.
LEMMA ExactQuiet ==
  ASSUME TypeOK, NEW t \in Threads, ExactInv, CollectInv(t)',
         UNCHANGED <<done, trace, stream>>,
         NEW label \in PCs \ {"flush"}, pc' = [pc EXCEPT ![t] = label],
         GBinariesCollected' = GBinariesCollected \/ SingleThread
  PROVE  ExactInv'
<1>1. /\ pc'[t] # "flush" /\ \A u \in Threads \ {t} : pc'[u] = pc[u]
      /\ \A u \in Threads : CollectInv(u) /\ FlushInv(u) /\ Exact(u)
  BY DEF TypeOK, ExactInv
<1>2. ASSUME NEW u \in Threads PROVE CollectInv(u)'
  BY <1>1 DEF CollectInv, SingleThread
<1>3. ASSUME NEW u \in Threads PROVE FlushInv(u)'
  BY <1>1 DEF FlushInv, Behind
<1>4. ASSUME NEW u \in Threads PROVE Exact(u)'
  BY <1>1 DEF Exact
<1> QED BY <1>2, <1>3, <1>4 DEF ExactInv

\* A step of the recording without a race for the images.
LEMMA ExactStep ==
  ASSUME LogInv, OrderInv, ExactInv, NoImageRace, Followed = Threads, [Next]_vars
  PROVE  ExactInv'
<1> USE DEF Goto
<1>0. /\ TypeOK /\ \A t \in Threads : HandlerInv(t) /\ CallInv(t) /\ FileInv(t)
      /\ \A t \in Threads : CollectInv(t) /\ FlushInv(t) /\ Exact(t)
  BY DEF LogInv, ThreadInv, ExactInv
<1>1. ASSUME UNCHANGED <<pc, done, trace, stream, GBinariesCollected>> PROVE ExactInv'
  BY <1>1 DEF ExactInv, CollectInv, FlushInv, Behind, Exact
<1>2. ASSUME NEW t \in Threads, NEW c \in Program, BeginCallback(t, c, t, t \in Followed) PROVE ExactInv'
  <2>1. /\ pc' = [pc EXCEPT ![t] = "incall"] /\ UNCHANGED <<done, trace, stream, GBinariesCollected>>
    BY <1>2 DEF BeginCallback
  <2>2. CollectInv(t)' /\ "incall" \in PCs \ {"flush"}
    BY <1>0, <2>1 DEF CollectInv, TypeOK, PCs
  <2> QED BY <1>0, <2>1, <2>2, ExactQuiet
<1>3. ASSUME NEW t \in Threads, EndCallback(t) PROVE ExactInv'
  <2>1. PICK label \in {"lock", "save", "serialize"} :
          pc' = [pc EXCEPT ![t] = label] /\ (label = "lock" => ~GBinariesCollected)
    BY <1>3 DEF EndCallback
  <2>2. UNCHANGED <<done, trace, stream, GBinariesCollected>>
    BY <1>3 DEF EndCallback
  <2>3. CollectInv(t)' /\ label \in PCs \ {"flush"}
    BY <1>0, <2>1, <2>2 DEF CollectInv, TypeOK, PCs
  <2> QED BY <1>0, <2>1, <2>2, <2>3, ExactQuiet
<1>4. ASSUME NEW t \in Threads, Lock(t) PROVE ExactInv'
  <2>1. /\ pc' = [pc EXCEPT ![t] = "recheck"] /\ pc[t] = "lock"
        /\ UNCHANGED <<done, trace, stream, GBinariesCollected>>
    BY <1>4 DEF Lock
  <2>2. CollectInv(t)' /\ "recheck" \in PCs \ {"flush"}
    BY <1>0, <2>1 DEF CollectInv, TypeOK, PCs
  <2> QED BY <1>0, <2>1, <2>2, ExactQuiet
<1>5. ASSUME NEW t \in Threads, Recheck(t) PROVE ExactInv'
  <2>1. ~SeenCollected /\ pc[t] = "recheck"
    BY <1>0, <1>5 DEF Recheck, CollectInv, SeenCollected
  <2>2. /\ pc' = [pc EXCEPT ![t] = "collect"] /\ UNCHANGED <<done, trace, stream, GBinariesCollected>>
    BY <1>5, <2>1 DEF Recheck
  <2>3. CollectInv(t)' /\ "collect" \in PCs \ {"flush"}
    BY <1>0, <2>2 DEF CollectInv, TypeOK, PCs
  <2> QED BY <1>0, <2>2, <2>3, ExactQuiet
<1>6. ASSUME NEW t \in Threads, Collect(t) PROVE ExactInv'
  <2>1. /\ pc' = [pc EXCEPT ![t] = "dump"] /\ pc[t] = "collect"
        /\ UNCHANGED <<done, trace, stream>> /\ GBinariesCollected' = TRUE
    BY <1>6 DEF Collect
  <2>2. CollectInv(t)' /\ "dump" \in PCs \ {"flush"}
    BY <1>0, <2>1 DEF CollectInv, TypeOK, PCs
  <2>3. SingleThread
    BY <1>0, <2>1, ConstantsAssumption DEF CallInv, NoImageRace
  <2> QED BY <1>0, <2>1, <2>2, <2>3, ExactQuiet
<1>7. ASSUME NEW t \in Threads, DumpDone(t) \/ SaveMemory(t, t \in Followed) PROVE ExactInv'
  <2>1. /\ pc' = [pc EXCEPT ![t] = "serialize"] /\ UNCHANGED <<done, trace, stream, GBinariesCollected>>
    BY <1>7 DEF DumpDone, ToSerialize, SaveMemory
  <2>2. CollectInv(t)' /\ "serialize" \in PCs \ {"flush"}
    BY <1>0, <2>1 DEF CollectInv, TypeOK, PCs
  <2> QED BY <1>0, <2>1, <2>2, ExactQuiet
<1>8. ASSUME NEW t \in Threads, DumpBinary(t, t \in Followed) \/ SaveMemoryOfFailedCall(t) PROVE ExactInv'
  BY <1>1, <1>8 DEF DumpBinary, SaveMemoryOfFailedCall
<1>9. ASSUME Kill PROVE ExactInv'
  BY <1>1, <1>9 DEF Kill
<1>10. ASSUME NEW t \in Threads, Deinit(t) PROVE ExactInv'
  <2>1. /\ pc[t] = "idle" /\ UNCHANGED <<pc, done, GBinariesCollected>>
        /\ trace' = [trace EXCEPT ![t] = @ \o stream[t]] /\ stream' = [stream EXCEPT ![t] = <<>>]
    BY <1>10 DEF Deinit
  <2>2. stream[t] = <<>>
    BY <1>0, <2>1 DEF FileInv
  <2>3. trace[t] \o <<>> = trace[t]
    BY <1>0 DEF TypeOK
  <2>4. trace' = trace /\ stream' = stream
    BY <1>0, <2>1, <2>2, <2>3 DEF TypeOK
  <2> QED BY <1>1, <2>1, <2>4
<1>11. ASSUME NEW t \in Threads, \A u \in Threads \ {t} : /\ pc'[u] = pc[u] /\ stream'[u] = stream[u]
                                                          /\ trace'[u] = trace[u] /\ done'[u] = done[u],
              UNCHANGED GBinariesCollected, CollectInv(t)', FlushInv(t)', Exact(t)'
       PROVE  ExactInv'
  <2>1. ASSUME NEW u \in Threads \ {t} PROVE CollectInv(u)' /\ FlushInv(u)' /\ Exact(u)'
    BY <1>0, <1>11 DEF CollectInv, FlushInv, Behind, Exact
  <2> QED BY <1>11, <2>1 DEF ExactInv
<1>12. ASSUME NEW t \in Threads PROVE /\ trace[t] \in Seq(Records) /\ done[t] \in Seq(Calls) /\ call[t] \in Calls
                                      /\ Ordered(trace[t], done[t])
                                      /\ CurrentRecord(t) \in Records
                                      /\ CurrentRecord(t) = Record(call[t], Len(done[t]) + 1, WriteMemObj)
                                      /\ CurrentRecord(t).n = Len(done[t]) + 1
  <2>1. trace[t] \in Seq(Records) /\ done[t] \in Seq(Calls) /\ call[t] \in Calls /\ Ordered(trace[t], done[t])
    BY <1>0 DEF TypeOK, OrderInv
  <2> QED BY <2>1, RecordFields DEF CurrentRecord, Current
<1>13. ASSUME NEW t \in Threads, Serialize(t) PROVE ExactInv'
  <2>1. /\ pc[t] = "serialize" /\ pc' = [pc EXCEPT ![t] = "flush"] /\ UNCHANGED <<done, GBinariesCollected>>
        /\ \/ stream' = [stream EXCEPT ![t] = Append(@, CurrentRecord(t))] /\ trace' = trace
           \/ trace' = [trace EXCEPT ![t] = Append(@, CurrentRecord(t))] /\ stream' = stream
    <3>1. pc[t] = "serialize"
      BY <1>13 DEF Serialize
    <3>2. good[t] = TRUE
      BY <3>1, FollowedGood
    <3> QED BY <1>13, <3>2 DEF Serialize, CurrentRecord
  <2>2. CollectInv(t)' /\ pc'[t] = "flush"
    BY <1>0, <2>1 DEF CollectInv, TypeOK
  <2>3. stream[t] = <<>> /\ Behind(t) /\ Exact(t)
    BY <1>0, <2>1 DEF FileInv
  <2>4. CASE stream' = [stream EXCEPT ![t] = Append(@, CurrentRecord(t))] /\ trace' = trace
    <3>1. stream'[t] = Append(<<>>, CurrentRecord(t)) /\ Append(<<>>, CurrentRecord(t)) # <<>>
      BY <1>0, <2>3, <2>4 DEF TypeOK
    <3>2. FlushInv(t)' /\ Exact(t)'
      BY <2>1, <2>3, <2>4, <3>1 DEF FlushInv, Exact
    <3> QED BY <1>0, <1>11, <2>1, <2>2, <2>4, <3>2 DEF TypeOK
  <2>5. CASE trace' = [trace EXCEPT ![t] = Append(@, CurrentRecord(t))] /\ stream' = stream
    <3>1. trace'[t] = Append(trace[t], CurrentRecord(t)) /\ done'[t] = done[t]
      BY <1>0, <2>1, <2>5 DEF TypeOK
    <3>2. Len(trace'[t]) = Len(done[t]) + 1 /\ \A i \in DOMAIN trace'[t] : trace'[t][i].n = i
      BY <1>12, <2>3, <3>1, ExactGrown DEF Behind, Exact
    <3>3. /\ Len(done[t]) \in Nat /\ Len(trace'[t]) \in DOMAIN trace'[t]
      <4>1. Append(trace[t], CurrentRecord(t)) \in Seq(Records) /\ Len(done[t]) \in Nat
        BY <1>12
      <4> QED BY <3>1, <3>2, <4>1
    <3>4. Exact(t)'
      BY <3>1, <3>2, <3>3 DEF Exact
    <3>5. ~Behind(t)'
      BY <3>1, <3>2, <3>3 DEF Behind
    <3>6. FlushInv(t)'
      BY <3>5 DEF FlushInv
    <3> QED BY <1>0, <1>11, <2>1, <2>2, <2>5, <3>4, <3>6 DEF TypeOK
  <2> QED BY <2>1, <2>4, <2>5
<1>14. ASSUME NEW t \in Threads, FlushAndReturn(t) PROVE ExactInv'
  <2>1. /\ pc[t] = "flush" /\ pc' = [pc EXCEPT ![t] = "idle"] /\ UNCHANGED GBinariesCollected
        /\ trace' = [trace EXCEPT ![t] = trace[t] \o stream[t]] /\ stream' = [stream EXCEPT ![t] = <<>>]
        /\ done' = [done EXCEPT ![t] = Append(@, call[t])]
    BY <1>14 DEF FlushAndReturn, Flushed, Emptied
  <2>2. CollectInv(t)' /\ FlushInv(t)'
    BY <1>0, <2>1 DEF CollectInv, FlushInv, TypeOK
  <2>3. AtFlush(t) /\ Exact(t) /\ FlushInv(t)
    BY <1>0, <2>1 DEF FileInv
  <2>4. trace'[t] = trace[t] \o stream[t] /\ Len(done'[t]) = Len(done[t]) + 1 /\ Len(done[t]) \in Nat
    BY <1>0, <1>12, <2>1 DEF TypeOK
  <2>5. ASSUME stream[t] = <<CurrentRecord(t)>>, Behind(t) PROVE Exact(t)'
    <3>1. trace'[t] = Append(trace[t], CurrentRecord(t))
      BY <1>12, <2>4, <2>5, FlushFacts
    <3>2. /\ \A i \in DOMAIN trace[t] : trace[t][i].n <= Len(done[t]) /\ trace[t][i].n = i
          /\ Len(done[t]) <= Len(trace[t])
      BY <2>3, <2>5 DEF Behind, Exact
    <3>3. Len(trace'[t]) = Len(done[t]) + 1 /\ \A i \in DOMAIN trace'[t] : trace'[t][i].n = i
      BY <1>12, <3>1, <3>2, ExactGrown
    <3>4. Len(done'[t]) <= Len(trace'[t])
      BY <2>4, <3>3
    <3> QED BY <3>3, <3>4 DEF Exact
  <2>6. ASSUME stream[t] = <<>>, trace[t] # <<>>, trace[t][Len(trace[t])] = CurrentRecord(t) PROVE Exact(t)'
    <3>1. trace'[t] = trace[t]
      BY <1>12, <2>4, <2>6
    <3>2. Len(trace[t]) \in DOMAIN trace[t] /\ Len(trace[t]) \in Nat
      BY <1>12, <2>6
    <3>3. Len(trace[t]) = Len(done[t]) + 1
      BY <1>12, <2>3, <2>6, <3>2 DEF Exact
    <3> QED BY <2>3, <2>4, <3>1, <3>2, <3>3 DEF Exact
  <2>7. ~(stream[t] = <<>> /\ Behind(t))
    BY <2>1, <2>3 DEF FlushInv
  <2>8. Exact(t)'
    BY <2>3, <2>5, <2>6, <2>7 DEF AtFlush
  <2> QED BY <1>0, <1>11, <2>1, <2>2, <2>8 DEF TypeOK
<1>15. ASSUME UNCHANGED vars PROVE ExactInv'
  BY <1>1, <1>15 DEF vars
<1> QED BY <1>2, <1>3, <1>4, <1>5, <1>6, <1>7, <1>8, <1>9, <1>10, <1>13, <1>14, <1>15 DEF Next, Progress

\* The record of a call is where replay looks for it, and gives its outputs.
LEMMA OwnRecord ==
  ASSUME OrderReplayInv, ExactInv, Followed = Threads, WriteMemObj = TRUE, SupportedProgram,
         outcome # "waiting", NEW t \in Threads, NEW k \in DOMAIN done[t]
  PROVE  /\ k \in Nat /\ k \in DOMAIN trace[t] /\ k <= Len(trace[t]) /\ Len(trace[t]) \in Nat
         /\ trace[t][k].n = k /\ trace[t][k].fn = done[t][k].api
         /\ done[t][k] \in Program /\ Supported(done[t][k])
         /\ P!Reply(done[t][k], trace[t][k], t) = Outputs(done[t][k])
         /\ Outputs(done[t][k]) # P!Undefined
<1> DEFINE s == trace[t]
           d == done[t]
<1>1. /\ s \in Seq(Records) /\ d \in Seq(Calls) /\ Faithful(s, d) /\ Exact(t) /\ d[k] \in Program
      /\ MemoryInv(t) /\ memory = memFiles
  BY DEF OrderReplayInv, LogInv, ThreadInv, TypeOK, OrderInv, ExactInv, Phases
<1>2. /\ Len(s) \in Nat /\ DOMAIN s = 1 .. Len(s) /\ Len(d) \in Nat /\ DOMAIN d = 1 .. Len(d)
      /\ k \in Nat /\ d[k] \in Calls
  BY <1>1
<1>3. k \in DOMAIN s /\ s[k].n = k /\ k <= Len(s)
  BY <1>1, <1>2 DEF Exact
<1>4. s[k] = Record(d[k], k, TRUE)
  <2>1. s[k].n <= Len(d)
    BY <1>2, <1>3
  <2>2. s[k] = Record(d[s[k].n], s[k].n, WriteMemObj)
    BY <1>1, <1>3, <2>1 DEF Faithful
  <2> QED BY <1>3, <2>2
<1>5. s[k].fn = d[k].api
  BY <1>4 DEF Record
<1>6. Supported(d[k])
  BY <1>1 DEF SupportedProgram
<1>7. s[k].mem => k \in memory[t]
  BY <1>1, <1>3 DEF MemoryInv
<1>8. P!Reply(d[k], s[k], t) = Outputs(d[k]) /\ Outputs(d[k]) # P!Undefined
  BY <1>2, <1>4, <1>6, <1>7, FaithfulReply
<1> QED BY <1>1, <1>2, <1>3, <1>5, <1>6, <1>8

\* One more faithful reply.
LEMMA FaithfulAnswer ==
  ASSUME OrderReplayInv, RepliesFaithful, NEW t \in Threads, UNCHANGED done,
         P!Answer(t, Len(replies[t]) + 1, Outputs(done[t][Len(replies[t]) + 1]))
  PROVE  RepliesFaithful'
<1> DEFINE m == Len(replies[t])
           slots == Outputs(done[t][m + 1])
<1>1. P!Answer(t, m + 1, slots)
  OBVIOUS
<1> HIDE DEF slots
<1>2. /\ \A u \in Threads \ {t} : replies'[u] = replies[u]
      /\ m \in Nat /\ DOMAIN replies[t] = 1 .. m /\ DOMAIN replies'[t] = 1 .. m + 1
      /\ \A k \in 1 .. m : replies'[t][k] = replies[t][k]
      /\ replies'[t][m + 1] = [n |-> m + 1, slots |-> slots]
  BY <1>1, Replied
<1>3. \A u \in Threads : \A k \in DOMAIN replies[u] :
        replies[u][k] = [n |-> k, slots |-> Outputs(done[u][k])]
  BY DEF RepliesFaithful
<1>4. ASSUME NEW k \in DOMAIN replies'[t]
      PROVE  replies'[t][k] = [n |-> k, slots |-> Outputs(done'[t][k])]
  <2>1. CASE k \in 1 .. m
    BY <1>2, <1>3, <2>1
  <2>2. CASE k = m + 1
    BY <1>2, <2>2 DEF slots
  <2> QED BY <1>2, <2>1, <2>2
<1>5. ASSUME NEW u \in Threads \ {t}, NEW k \in DOMAIN replies'[u]
      PROVE  replies'[u][k] = [n |-> k, slots |-> Outputs(done'[u][k])]
  BY <1>2, <1>3
<1> QED BY <1>4, <1>5 DEF RepliesFaithful

\* A thread makes its next call: neither an unexpected call nor a missing
\* output.
LEMMA CallFaithful ==
  ASSUME FaithfulInv, Followed = Threads, WriteMemObj = TRUE, SupportedProgram,
         NEW t \in Threads, UNCHANGED vars,
         Len(replies[t]) < Len(done[t]), P!CallStep(t, done[t][Len(replies[t]) + 1])
  PROVE  RepliesFaithful' /\ outcome' = outcome /\ outcome = "running"
<1> DEFINE m == Len(replies[t])
           c == done[t][m + 1]
<1>1. outcome = "running" /\ t \notin inMap
  BY DEF P!CallStep, P!TearDown, P!MissingEntry, P!Die, P!NoMemoryAtEnd, P!ReplayCall
<1>2. OrderReplayInv /\ ExactInv /\ RepliesFaithful
  BY DEF FaithfulInv
<1>3. pos[t] = m /\ m \in Nat /\ m < Len(done[t]) /\ Len(done[t]) \in Nat /\ files = trace
  BY <1>1, <1>2, NextNumber
<1>4. m + 1 \in DOMAIN done[t]
  BY <1>2, <1>3 DEF OrderReplayInv, LogInv, TypeOK
<1>5. /\ m + 1 <= Len(trace[t]) /\ Len(trace[t]) \in Nat /\ trace[t][m + 1].n = m + 1 /\ trace[t][m + 1].fn = c.api
      /\ c \in Program /\ Supported(c)
      /\ P!Reply(c, trace[t][m + 1], t) = Outputs(c) /\ Outputs(c) # P!Undefined
  BY <1>1, <1>2, <1>4, OwnRecord
<1>6. done' = done
  BY DEF vars
<1> HIDE DEF c
<1>7. P!NextRecord(t) = trace[t][m + 1] /\ ~(pos[t] >= Len(files[t]))
  BY <1>3, <1>5 DEF P!NextRecord
<1>8. c.api \notin P!MissingApis /\ P!Expected(c.api) = c.api
  BY <1>5 DEF Supported, P!Expected, MissingApis, P!MissingApis
<1>9. ~P!MissingEntry(t, c) /\ ~P!Die(t, c) /\ ~P!NoMemoryAtEnd(t, c)
  BY <1>5, <1>7, <1>8 DEF P!MissingEntry, P!Die, P!NoMemoryAtEnd
<1>10. CASE P!TearDown(t, c)
  <2>1. c.api = "piTearDown" /\ P!Answer(t, m + 1, {}) /\ UNCHANGED <<inMap, outcome>>
    BY <1>10 DEF P!TearDown
  <2>2. Outputs(c) = {}
    BY <2>1 DEF Outputs, PlainApis, EventApis, CreateApis, MissingApis, CountApis, InfoApis, BareInfoApis, SelectBinary
  <2>3. RepliesFaithful'
    BY <1>2, <1>6, <2>1, <2>2, FaithfulAnswer DEF c
  <2> QED BY <1>1, <2>1, <2>3
<1>11. CASE P!ReplayCall(t, c)
  <2>1. /\ outcome' = outcome
        /\ IF P!UsesMap(c) THEN inMap' = inMap \cup {t} /\ UNCHANGED replies
                           ELSE P!Answer(t, m + 1, Outputs(c)) /\ UNCHANGED inMap
    BY <1>5, <1>7, <1>11 DEF P!ReplayCall
  <2>2. CASE P!UsesMap(c)
    <3>1. RepliesFaithful'
      BY <1>2, <1>6, <2>1, <2>2 DEF RepliesFaithful
    <3> QED BY <1>1, <2>1, <3>1
  <2>3. CASE ~P!UsesMap(c)
    <3>1. RepliesFaithful'
      BY <1>2, <1>6, <2>1, <2>3, FaithfulAnswer DEF c
    <3> QED BY <1>1, <2>1, <3>1
  <2> QED BY <2>2, <2>3
<1> QED BY <1>9, <1>10, <1>11 DEF P!CallStep, c

\* A thread comes back from a map with the outputs of its call.
LEMMA LeaveFaithful ==
  ASSUME FaithfulInv, Followed = Threads, WriteMemObj = TRUE, SupportedProgram,
         NEW t \in Threads, UNCHANGED vars, P!LeaveMap(t)
  PROVE  RepliesFaithful' /\ outcome' = outcome /\ outcome = "running"
<1> DEFINE m == Len(replies[t])
<1>1. /\ outcome = "running" /\ t \in inMap /\ inMap' = inMap \ {t} /\ outcome' = outcome
      /\ P!Answer(t, files[t][pos[t]].n, P!Reply(pending[t], files[t][pos[t]], t))
  BY DEF P!LeaveMap
<1>2. OrderReplayInv /\ ExactInv /\ RepliesFaithful
  BY DEF FaithfulInv
<1>3. files = trace /\ ReplyType(t) /\ Reading(t) /\ done[t] \in Seq(Calls)
  BY <1>1, <1>2 DEF OrderReplayInv, Phases, LogInv, TypeOK
<1>4. pos[t] = m + 1 /\ pending[t] = done[t][m + 1] /\ m + 1 \in DOMAIN done[t]
  BY <1>1, <1>3 DEF ReplyType, Reading
<1>5. /\ trace[t][m + 1].n = m + 1
      /\ P!Reply(done[t][m + 1], trace[t][m + 1], t) = Outputs(done[t][m + 1])
  BY <1>1, <1>2, <1>4, OwnRecord
<1>6. P!Answer(t, m + 1, Outputs(done[t][m + 1])) /\ done' = done
  BY <1>1, <1>3, <1>4, <1>5 DEF vars
<1>7. RepliesFaithful'
  BY <1>2, <1>6, FaithfulAnswer
<1> QED BY <1>1, <1>7

\* Every step keeps replay faithful.
LEMMA FaithfulStep ==
  ASSUME FaithfulInv, Followed = Threads, WriteMemObj = TRUE, SupportedProgram, NoImageRace,
         [ReplayNext]_allVars
  PROVE  FaithfulInv'
<1>1. OrderReplayInv /\ ExactInv /\ RepliesFaithful /\ NeverAborted /\ UndefinedOnlyInMap
  BY DEF FaithfulInv
<1>2. OrderReplayInv'
  BY <1>1, OrderReplayStep
<1>3. LogInv /\ OrderInv
  BY <1>1 DEF OrderReplayInv
<1>4. ASSUME RepliesFaithful', outcome' \in {"running", "waiting"}, ExactInv'
      PROVE  FaithfulInv'
  BY <1>2, <1>4 DEF FaithfulInv, NeverAborted, UndefinedOnlyInMap
<1>5. ASSUME UNCHANGED vars PROVE ExactInv'
  BY <1>1, <1>3, <1>5, ExactStep
<1>6. CASE RecordStep
  <2>1. Next /\ ~ended /\ UNCHANGED replayVars
    BY <1>6, RecordIsNext
  <2>2. outcome = "waiting" /\ \A t \in Threads : replies[t] = <<>>
    BY <1>1, <2>1 DEF OrderReplayInv, Phases
  <2>3. replies' = replies /\ outcome' = outcome /\ inMap' = inMap
    BY <2>1 DEF replayVars
  <2>4. ExactInv'
    BY <1>1, <1>3, <2>1, ExactStep
  <2>5. RepliesFaithful'
    BY <2>2, <2>3 DEF RepliesFaithful
  <2> QED BY <1>4, <2>2, <2>3, <2>4, <2>5
<1>7. CASE StartReplay
  <2>1. UNCHANGED <<vars, inMap, replies>> /\ outcome' = "running"
    BY <1>7 DEF StartReplay, P!Start
  <2>2. RepliesFaithful'
    BY <1>1, <2>1 DEF RepliesFaithful, vars
  <2> QED BY <1>1, <1>4, <1>5, <2>1, <2>2
<1>8. ASSUME NEW t \in Threads, ReplayStep(t) PROVE FaithfulInv'
  <2>1. UNCHANGED vars
    BY <1>8 DEF ReplayStep
  <2>2. CASE Len(replies[t]) < Len(done[t]) /\ P!CallStep(t, done[t][Len(replies[t]) + 1])
    BY <1>4, <1>5, <2>1, <2>2, CallFaithful
  <2>3. CASE P!LeaveMap(t)
    BY <1>4, <1>5, <2>1, <2>3, LeaveFaithful
  <2>4. ASSUME NEW u \in Threads, P!MapRace(t, u) PROVE FaithfulInv'
    <3>1. /\ outcome' = "undefined" /\ UNCHANGED <<replies, inMap, pending>>
          /\ t # u /\ t \in inMap /\ u \in inMap /\ P!Conflict(pending[t], pending[u])
      BY <2>4 DEF P!MapRace
    <3>2. UndefinedOnlyInMap'
      BY <3>1 DEF UndefinedOnlyInMap, P!Conflict
    <3>3. RepliesFaithful'
      BY <1>1, <2>1, <3>1 DEF RepliesFaithful, vars
    <3> QED BY <1>2, <1>5, <2>1, <3>1, <3>2, <3>3 DEF FaithfulInv, NeverAborted
  <2> QED BY <1>8, <2>2, <2>3, <2>4 DEF ReplayStep
<1>9. CASE UNCHANGED allVars
  <2>1. UNCHANGED <<vars, inMap, pending, replies, outcome>>
    BY <1>9 DEF allVars, replayVars
  <2>2. RepliesFaithful' /\ NeverAborted'
    BY <1>1, <2>1 DEF RepliesFaithful, NeverAborted, vars
  <2>3. UndefinedOnlyInMap'
    BY <1>1, <2>1 DEF UndefinedOnlyInMap, P!Conflict
  <2> QED BY <1>2, <1>5, <2>1, <2>2, <2>3 DEF FaithfulInv
<1> QED BY <1>6, <1>7, <1>8, <1>9 DEF ReplayNext

\* Nothing is recorded yet, and nothing answered.
LEMMA FaithfulInit ==
  ASSUME ReplayInit
  PROVE  FaithfulInv
<1>1. OrderReplayInv
  BY OrderReplayInit
<1>2. /\ outcome = "waiting" /\ inMap = {} /\ \A t \in Threads : replies[t] = <<>>
      /\ \A t \in Threads : pc[t] = "idle" /\ trace[t] = <<>> /\ done[t] = <<>>
  BY DEF ReplayInit, P!Init, Init
<1>3. DOMAIN <<>> = {} /\ Len(<<>>) = 0 /\ 0 <= 0
  OBVIOUS
<1>4. ExactInv
  BY <1>2, <1>3 DEF ExactInv, CollectInv, FlushInv, Exact
<1>5. RepliesFaithful /\ NeverAborted /\ UndefinedOnlyInMap
  BY <1>2, <1>3 DEF RepliesFaithful, NeverAborted, UndefinedOnlyInMap
<1> QED BY <1>1, <1>2, <1>4, <1>5 DEF FaithfulInv

\* Replay of a supported program keeps its invariant, when every thread was
\* followed, memory objects were saved and no thread lost the race for the
\* device images.
THEOREM FaithfulInvariance ==
  ASSUME Followed = Threads, WriteMemObj = TRUE, SupportedProgram, NoImageRace
  PROVE  ReplaySpec => []FaithfulInv
<1>1. ReplayInit => FaithfulInv
  BY FaithfulInit
<1>2. FaithfulInv /\ [ReplayNext]_allVars => FaithfulInv'
  BY FaithfulStep
<1> QED BY <1>1, <1>2, PTL DEF ReplaySpec

\* Then the k-th reply of a thread is made from the record of its k-th call
\* and fills the outputs of that call, wherever the recording was cut off.
THEOREM RepliesAlwaysFaithful ==
  ASSUME Followed = Threads, WriteMemObj = TRUE, SupportedProgram, NoImageRace
  PROVE  ReplaySpec => []RepliesFaithful
<1>1. FaithfulInv => RepliesFaithful
  BY DEF FaithfulInv
<1> QED BY <1>1, FaithfulInvariance, PTL

\* Then dieIfUnexpected never ends the replay.
THEOREM ReplayNeverAborts ==
  ASSUME Followed = Threads, WriteMemObj = TRUE, SupportedProgram, NoImageRace
  PROVE  ReplaySpec => []NeverAborted
<1>1. FaithfulInv => NeverAborted
  BY DEF FaithfulInv
<1> QED BY <1>1, FaithfulInvariance, PTL

\* Then, with any number of threads in any order, only two threads inside the
\* same map can make the replay undefined: it never reads past the end of a
\* file, wherever the recording was cut off, or an output that is not there.
THEOREM OnlyMapsUnsafe ==
  ASSUME Followed = Threads, WriteMemObj = TRUE, SupportedProgram, NoImageRace
  PROVE  ReplaySpec => []UndefinedOnlyInMap
<1>1. FaithfulInv => UndefinedOnlyInMap
  BY DEF FaithfulInv
<1> QED BY <1>1, FaithfulInvariance, PTL
=============================================================================
