------------------------------ MODULE Replayer ------------------------------
(***************************************************************************)
(* libplugin_replay.so: a PI plugin that answers the program's calls from  *)
(* the trace files.  Each thread reads its own file front to back; a call  *)
(* that is not the one recorded at that place ends the process.            *)
(*                                                                         *)
(* A reply is the number of the record it was made from and the slots that *)
(* hold the recorded data or a fresh object.                               *)
(***************************************************************************)
EXTENDS PICalls

CONSTANT Threads

VARIABLES
  files,     \* the trace directory: the records of each thread's file
  memory,    \* the memory object files, by thread and call number
  opened,    \* GTrace.is_open()
  pos,       \* the read position in GTrace
  pending,   \* the call a thread is in, while it uses a shared map
  inMap,     \* threads inside GKernelProgramMap or GMemContextMap
  replies,   \* the replies a thread has got (history)
  outcome    \* "waiting", "running", "aborted" by dieIfUnexpected, "undefined"

vars == <<files, memory, opened, pos, pending, inMap, replies, outcome>>

Idle == Call("piTearDown")

\* No trace yet.
Init ==
  /\ files = [t \in Threads |-> <<>>]
  /\ memory = [t \in Threads |-> {}]
  /\ opened = [t \in Threads |-> FALSE]
  /\ pos = [t \in Threads |-> 0]
  /\ pending = [t \in Threads |-> Idle]
  /\ inMap = {}
  /\ replies = [t \in Threads |-> <<>>]
  /\ outcome = "waiting"

\* The program is started again, on a recorded trace.
Start(traces, mems) ==
  /\ outcome = "waiting"
  /\ files' = traces
  /\ memory' = mems
  /\ outcome' = "running"
  /\ UNCHANGED <<opened, pos, pending, inMap, replies>>

\* What getNextRecord makes of the end of the file: a message without fields,
\* whose function is the one with number 0.  The size it reads is not set by
\* then, and the buffer of that size may not be available.
EndOfFile == [fn |-> "piPlatformsGet", n |-> 0, small |-> <<>>, mem |-> FALSE]

\* The record at the read position.  Mutant: the file is opened again for
\* every call.
FirstRecord(t) == IF files[t] = <<>> THEN EndOfFile ELSE files[t][1]
NextRecord(t) ==
  IF pos[t] < Len(files[t]) THEN files[t][pos[t] + 1] ELSE EndOfFile

\* The function each entry point passes to dieIfUnexpected.
Expected(api) == IF api = "piMemRetain" THEN "piMemImageGetInfo" ELSE api

\* The slots an entry point fills, or Undefined when it reads an output that
\* the record does not have.
Undefined == {"undefined"}

\* replayGetInfo: the first output goes to the value, or else to the size.
\* Mutant: it always goes to the size.
SizeOnly(c, rec) ==
  IF rec.small = <<>> THEN Undefined
  ELSE {rec.small[1]} \cap {"size"}
ReplayGetInfo(c, rec) ==
  IF rec.small = <<>> \/ ~(c.value \/ c.size) THEN Undefined
  ELSE {rec.small[1]} \cap {IF c.value THEN "value" ELSE "size"}

\* The count comes from the record; the handles are made up.
ReplayCount(c, rec) ==
  IF c.size /\ rec.small = <<>> THEN Undefined
  ELSE Given(c.size, "count") \cup Given(c.value, "items")

\* Platforms and devices.
ReplayPlatform(c, rec) ==
  CASE c.api \in CountApis -> ReplayCount(c, rec)
    [] c.api \in {"piPlatformGetInfo", "piDeviceGetInfo"} -> ReplayGetInfo(c, rec)
    [] OTHER -> {}

\* Contexts and queues.
ReplayContext(c, rec) ==
  CASE c.api \in {"piContextCreate", "piQueueCreate"} -> {"object"}
    [] c.api \in {"piContextGetInfo", "piQueueGetInfo"} -> ReplayGetInfo(c, rec)
    [] OTHER -> {}

\* Memory objects.
ReplayMem(c, rec) ==
  CASE c.api = "piMemBufferCreate" -> {"object"}
    [] c.api \in {"piMemGetInfo", "piMemImageGetInfo"} -> ReplayGetInfo(c, rec)
    [] OTHER -> {}

\* Device images and programs: piProgramLink does not touch ret_program.
ReplayProgram(c, rec) ==
  CASE c.api = SelectBinary ->
         IF rec.small = <<>> THEN Undefined ELSE {rec.small[1]}
    [] c.api \in {"piProgramCreateWithBinary", "piProgramCreate"} -> {"object"}
    [] c.api = "piProgramGetInfo" -> ReplayGetInfo(c, rec)
    [] OTHER -> {}

\* Kernels.
ReplayKernel(c, rec) ==
  CASE c.api = "piKernelCreate" -> {"object"}
    [] c.api \in {"piKernelGetInfo", "piKernelGetGroupInfo"} -> ReplayGetInfo(c, rec)
    [] OTHER -> {}

\* Commands without data, and releases.
ReplayEnqueue(c, rec) == Given(c.api \in EventApis, "event")

\* Commands with data, read from the memory object file the record names: map
\* and read take it for granted that there is one.
ReplayTransfer(c, rec, t) ==
  CASE c.api \in {"piEnqueueMemBufferMap", "piEnqueueMemBufferRead"} ->
         IF ~rec.mem THEN Undefined
         ELSE {"event"} \cup
              (IF rec.n \notin memory[t] THEN {}
               ELSE IF c.api = "piEnqueueMemBufferMap" THEN {"mapped"} ELSE {"data"})
    [] c.api = "piextUSMEnqueueMemcpy" ->
         {"event"} \cup Given(rec.mem /\ rec.n \in memory[t], "data")

\* Allocations.
ReplayUsm(c, rec) ==
  CASE c.api \in {"piextUSMHostAlloc", "piextUSMDeviceAlloc"} -> {"object"}
    [] OTHER -> {}

Reply(c, rec, t) ==
  CASE c.api \in CountApis \cup {"piPlatformGetInfo", "piDeviceGetInfo"} ->
         ReplayPlatform(c, rec)
    [] c.api \in {"piContextCreate", "piQueueCreate", "piContextGetInfo", "piQueueGetInfo"} ->
         ReplayContext(c, rec)
    [] c.api \in {"piMemBufferCreate", "piMemGetInfo", "piMemImageGetInfo", "piMemRetain"} ->
         ReplayMem(c, rec)
    [] c.api \in {SelectBinary, "piProgramCreateWithBinary", "piProgramCreate",
                  "piProgramLink", "piProgramGetInfo"} ->
         ReplayProgram(c, rec)
    [] c.api \in {"piKernelCreate", "piKernelGetInfo", "piKernelGetGroupInfo"} ->
         ReplayKernel(c, rec)
    [] c.api \in TransferApis -> ReplayTransfer(c, rec, t)
    [] c.api \in {"piextUSMHostAlloc", "piextUSMDeviceAlloc"} -> ReplayUsm(c, rec)
    [] OTHER -> ReplayEnqueue(c, rec)

\* Entry points that touch GKernelProgramMap or GMemContextMap, which no lock
\* protects: a creation writes, a query for the program or the context reads.
KernelMapApis == {"piKernelCreate", "piKernelGetInfo"}
MemMapApis == {"piMemBufferCreate", "piMemGetInfo"}

UsesMap(c) ==
  \/ c.api \in {"piKernelCreate", "piMemBufferCreate"}
  \/ c.api \in {"piKernelGetInfo", "piMemGetInfo"} /\ c.value

Answer(t, n, slots) ==
  replies' = [replies EXCEPT ![t] = Append(@, [n |-> n, slots |-> slots])]

\* piTearDown answers without looking at the trace.
TearDown(t, c) ==
  /\ outcome = "running"
  /\ t \notin inMap
  /\ c.api = "piTearDown"
  /\ Answer(t, Len(replies[t]) + 1, {})
  /\ UNCHANGED <<files, memory, opened, pos, pending, inMap, outcome>>

\* A function that piPluginInit does not enter in the table is called through
\* a pointer nobody has set.
MissingEntry(t, c) ==
  /\ outcome = "running"
  /\ t \notin inMap
  /\ c.api \in MissingApis
  /\ outcome' = "undefined"
  /\ UNCHANGED <<files, memory, opened, pos, pending, inMap, replies>>

\* ensureTraceOpened and getNextRecord.
Advance(t) == IF pos[t] < Len(files[t]) THEN pos[t] + 1 ELSE pos[t]

ReadRecord(t) ==
  /\ opened' = [opened EXCEPT ![t] = TRUE]
  /\ pos' = [pos EXCEPT ![t] = Advance(t)]

\* dieIfUnexpected: exit(-1).
Die(t, c) ==
  /\ outcome = "running"
  /\ t \notin inMap
  /\ c.api \notin MissingApis \cup {"piTearDown"}
  /\ ReadRecord(t)
  /\ NextRecord(t).fn # Expected(c.api)
  /\ outcome' = "aborted"
  /\ UNCHANGED <<files, memory, pending, inMap, replies>>

\* The buffer for a record of unset size cannot be allocated.
NoMemoryAtEnd(t, c) ==
  /\ outcome = "running"
  /\ t \notin inMap
  /\ c.api \notin MissingApis \cup {"piTearDown"}
  /\ pos[t] >= Len(files[t])
  /\ outcome' = "undefined"
  /\ UNCHANGED <<files, memory, opened, pos, pending, inMap, replies>>

\* The record is the one expected: fill the outputs and return.
ReplayCall(t, c) ==
  /\ outcome = "running"
  /\ t \notin inMap
  /\ c.api \notin MissingApis \cup {"piTearDown"}
  /\ NextRecord(t).fn = Expected(c.api)
  /\ ReadRecord(t)
  /\ LET rec == NextRecord(t)
         slots == Reply(c, rec, t)
     IN  IF slots = Undefined
           THEN outcome' = "undefined" /\ UNCHANGED <<replies, inMap, pending>>
           ELSE /\ UNCHANGED outcome
                /\ IF UsesMap(c)
                     THEN /\ inMap' = inMap \cup {t}
                          /\ pending' = [pending EXCEPT ![t] = c]
                          /\ UNCHANGED replies
                     ELSE Answer(t, rec.n, slots) /\ UNCHANGED <<inMap, pending>>
  /\ UNCHANGED <<files, memory>>

\* The map operation is over; the record is the one just read.
LeaveMap(t) ==
  /\ outcome = "running"
  /\ t \in inMap
  /\ LET rec == files[t][pos[t]]
     IN  Answer(t, rec.n, Reply(pending[t], rec, t))
  /\ inMap' = inMap \ {t}
  /\ UNCHANGED <<files, memory, opened, pos, pending, outcome>>

\* c writes to a std::map that d writes or reads.
Conflict(c, d) ==
  \/ c.api = "piKernelCreate" /\ d.api \in KernelMapApis
  \/ c.api = "piMemBufferCreate" /\ d.api \in MemMapApis

\* Two threads in the same std::map, at least one of them writing.
MapRace(t, u) ==
  /\ outcome = "running"
  /\ t # u
  /\ {t, u} \subseteq inMap
  /\ Conflict(pending[t], pending[u])
  /\ outcome' = "undefined"
  /\ UNCHANGED <<files, memory, opened, pos, pending, inMap, replies>>

\* Thread t makes the call c.
CallStep(t, c) ==
  \/ TearDown(t, c)
  \/ MissingEntry(t, c)
  \/ Die(t, c)
  \/ NoMemoryAtEnd(t, c)
  \/ ReplayCall(t, c)
=============================================================================
