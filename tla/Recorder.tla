------------------------------ MODULE Recorder ------------------------------
(***************************************************************************)
(* libplugin_record.so: the XPTI subscriber that writes one record per PI  *)
(* call to the trace file of the calling thread.                           *)
(*                                                                         *)
(* tpCallback runs on the calling thread, before and after the real plugin *)
(* function.  Handler, stream and timestamps are thread_local; the threads *)
(* share the flag and the mutex that make the device images be dumped by   *)
(* one of them, and the output directory.                                  *)
(*                                                                         *)
(* The actions take the thread's trace file and whether the kernel lets it *)
(* open files as parameters, so that a module with thread names can supply *)
(* them.                                                                   *)
(***************************************************************************)
EXTENDS PICalls

CONSTANTS
  Threads,      \* the threads of the program
  Followed,     \* threads whose openat system call is carried out
  Program,      \* the PI calls the program makes
  NoFile,       \* the thread has no RecordHandler yet
  NumBinaries,  \* device images passed to piextDeviceSelectBinary
  WriteMemObj,  \* !shouldSkipMemObjects()
  MaxCalls      \* bound on the calls of one thread

ASSUME ConstantsAssumption ==
  /\ Followed \subseteq Threads
  /\ NoFile \notin Threads
  /\ Program \subseteq Calls
  /\ NumBinaries \in Nat
  /\ MaxCalls \in Nat
  /\ WriteMemObj \in BOOLEAN

VARIABLES
  GRecordHandler,     \* the file of the thread's handler
  good,               \* the thread's stream was opened
  pc,                 \* where the thread is between two PI calls
  done,               \* the calls the thread has completed (history)
  call,               \* the call the thread is in
  stream,             \* records in the buffer of the thread's ofstream
  trace,              \* records the thread has appended to its file
  lost,               \* call numbers whose handler returned early (history)
  memFiles,           \* call numbers whose memory object file is complete
  GBinariesCollected, \* the shared flag ...
  GBinariesMutex,     \* ... and the holder of the lock, as a set
  idx,                \* loop index of the thread that dumps the images
  images,             \* how often each image was written
  ended               \* the process is gone

vars == <<GRecordHandler, good, pc, done, call, stream, trace, lost, memFiles,
          GBinariesCollected, GBinariesMutex, idx, images, ended>>

\* The images of the first call, each with its descriptor.
Images == 0 .. NumBinaries - 1

\* The number of the call a thread is in.
Current(t) == Len(done[t]) + 1

PCs == {"idle", "incall", "lock", "recheck", "collect", "dump", "save", "serialize", "flush"}

Init ==
  /\ GRecordHandler = [t \in Threads |-> NoFile]
  /\ good = [t \in Threads |-> FALSE]
  /\ pc = [t \in Threads |-> "idle"]
  /\ done = [t \in Threads |-> <<>>]
  /\ call = [t \in Threads |-> Call("piTearDown")]
  /\ stream = [t \in Threads |-> <<>>]
  /\ trace = [t \in Threads |-> <<>>]
  /\ lost = [t \in Threads |-> {}]
  /\ memFiles = [t \in Threads |-> {}]
  /\ GBinariesCollected = FALSE
  /\ GBinariesMutex = {}
  /\ idx = [t \in Threads |-> 0]
  /\ images = [i \in Images |-> 0]
  /\ ended = FALSE

Goto(t, label) == pc' = [pc EXCEPT ![t] = label]

\* tpCallback, function_with_args_begin: the first call of a thread creates
\* its handler, in append mode; a stream that cannot be opened stays silent.
BeginCallback(t, c, file, opens) ==
  /\ ~ended
  /\ pc[t] = "idle"
  /\ Len(done[t]) < MaxCalls
  /\ IF GRecordHandler[t] = NoFile
       THEN /\ GRecordHandler' = [GRecordHandler EXCEPT ![t] = file]
            /\ good' = [good EXCEPT ![t] = opens]
       ELSE UNCHANGED <<GRecordHandler, good>>
  /\ call' = [call EXCEPT ![t] = c]
  /\ Goto(t, "incall")
  /\ UNCHANGED <<done, stream, trace, lost, memFiles, GBinariesCollected,
                 GBinariesMutex, idx, images, ended>>

\* tpCallback, function_with_args_end, up to the handler of the function and
\* handleSelectBinary's first look at the flag.
EndCallback(t) ==
  /\ ~ended
  /\ pc[t] = "incall"
  /\ Goto(t, IF call[t].api = SelectBinary /\ ~GBinariesCollected THEN "lock"
             ELSE IF SavesMemory(call[t], WriteMemObj) THEN "save"
             ELSE "serialize")
  /\ UNCHANGED <<GRecordHandler, good, done, call, stream, trace, lost, memFiles,
                 GBinariesCollected, GBinariesMutex, idx, images, ended>>

\* std::lock_guard lock{GBinariesMutex}.
LockFree(t) == GBinariesMutex = {}

Lock(t) ==
  /\ ~ended
  /\ pc[t] = "lock"
  /\ LockFree(t)
  /\ GBinariesMutex' = {t}
  /\ Goto(t, "recheck")
  /\ UNCHANGED <<GRecordHandler, good, done, call, stream, trace, lost, memFiles,
                 GBinariesCollected, idx, images, ended>>

\* The lock_guard goes out of scope.  Mutant: the mutex stays locked.
StillHeld == GBinariesMutex
Released == {}

\* The second look at the flag, under the lock: the thread that lost the race
\* returns from the handler.  Mutant: the flag is not looked at again.
SeenUnset == FALSE
SeenCollected == GBinariesCollected

Recheck(t) ==
  /\ ~ended
  /\ pc[t] = "recheck"
  /\ IF SeenCollected
       THEN /\ GBinariesMutex' = Released
            /\ lost' = [lost EXCEPT ![t] = @ \cup {Current(t)}]
            /\ Goto(t, "flush")
       ELSE Goto(t, "collect") /\ UNCHANGED <<GBinariesMutex, lost>>
  /\ UNCHANGED <<GRecordHandler, good, done, call, stream, trace, memFiles,
                 GBinariesCollected, idx, images, ended>>

\* The winner sets the flag, before the first image is written.
Collect(t) ==
  /\ ~ended
  /\ pc[t] = "collect"
  /\ GBinariesCollected' = TRUE
  /\ idx' = [idx EXCEPT ![t] = 0]
  /\ Goto(t, "dump")
  /\ UNCHANGED <<GRecordHandler, good, done, call, stream, trace, lost, memFiles,
                 GBinariesMutex, images, ended>>

\* One turn of the loop: the image and its descriptor; ofstreams that do not
\* open write nothing and nobody looks.
DumpBinary(t, opens) ==
  /\ ~ended
  /\ pc[t] = "dump"
  /\ idx[t] < NumBinaries
  /\ images' = IF opens THEN [images EXCEPT ![idx[t]] = @ + 1] ELSE images
  /\ idx' = [idx EXCEPT ![t] = @ + 1]
  /\ UNCHANGED <<GRecordHandler, good, pc, done, call, stream, trace, lost, memFiles,
                 GBinariesCollected, GBinariesMutex, ended>>

\* The loop is over.
\* Mutant: the loop stops one image early.
OneShort(t) == idx[t] + 1 >= NumBinaries
AllDumped(t) == idx[t] >= NumBinaries

\* The winner goes on to serialize.  Mutant: it returns like the loser.
ToReturn == "flush"
ToSerialize == "serialize"

DumpDone(t) ==
  /\ ~ended
  /\ pc[t] = "dump"
  /\ AllDumped(t)
  /\ GBinariesMutex' = Released
  /\ Goto(t, ToSerialize)
  /\ UNCHANGED <<GRecordHandler, good, done, call, stream, trace, lost, memFiles,
                 GBinariesCollected, idx, images, ended>>

\* The file is named after the call.  Mutant: after the call before it.
SavedForPrevious(t) == memFiles[t] \cup {Len(done[t])}
SavedForCall(t) == memFiles[t] \cup {Current(t)}

\* Wait for the transfer, then write and close the memory object file.
SaveMemory(t, opens) ==
  /\ ~ended
  /\ pc[t] = "save"
  /\ memFiles' = IF opens THEN [memFiles EXCEPT ![t] = SavedForCall(t)]
                 ELSE memFiles
  /\ Goto(t, "serialize")
  /\ UNCHANGED <<GRecordHandler, good, done, call, stream, trace, lost,
                 GBinariesCollected, GBinariesMutex, idx, images, ended>>

\* When the transfer failed, the event and the mapping that the handler uses
\* were never set.
SaveMemoryOfFailedCall(t) ==
  /\ ~ended
  /\ pc[t] = "save"
  /\ ~call[t].ok
  /\ ended' = TRUE
  /\ UNCHANGED <<GRecordHandler, good, pc, done, call, stream, trace, lost, memFiles,
                 GBinariesCollected, GBinariesMutex, idx, images>>

\* serialize: a small record stays in the stream's buffer, a large one goes to
\* the file at once.
Serialize(t) ==
  /\ ~ended
  /\ pc[t] = "serialize"
  /\ LET rec == Record(call[t], Current(t), WriteMemObj)
     IN  \/ /\ good[t]
            /\ stream' = [stream EXCEPT ![t] = Append(@, rec)]
            /\ UNCHANGED trace
         \/ /\ good[t]
            /\ trace' = [trace EXCEPT ![t] = Append(@, rec)]
            /\ UNCHANGED stream
         \/ /\ ~good[t]
            /\ UNCHANGED <<stream, trace>>
  /\ Goto(t, "flush")
  /\ UNCHANGED <<GRecordHandler, good, done, call, lost, memFiles, GBinariesCollected,
                 GBinariesMutex, idx, images, ended>>

\* GRecordHandler->flush().  Mutants: the callback returns without it; the
\* buffer is written as one record.
Unflushed(t) == trace[t]
FlushedAsOne(t) == Append(trace[t], stream[t])
Flushed(t) == trace[t] \o stream[t]

\* Nothing is left in the buffer.  Mutant: it is written again next time.
Buffered(t) == stream[t]
Emptied(t) == <<>>

\* The end callback flushes and returns to the program.
FlushAndReturn(t) ==
  /\ ~ended
  /\ pc[t] = "flush"
  /\ trace' = [trace EXCEPT ![t] = Flushed(t)]
  /\ stream' = [stream EXCEPT ![t] = Emptied(t)]
  /\ done' = [done EXCEPT ![t] = Append(@, call[t])]
  /\ Goto(t, "idle")
  /\ UNCHANGED <<GRecordHandler, good, call, lost, memFiles, GBinariesCollected,
                 GBinariesMutex, idx, images, ended>>

\* exit() on thread t: deinit flushes that thread's handler only.
Deinit(t) ==
  /\ ~ended
  /\ pc[t] = "idle"
  /\ GRecordHandler[t] # NoFile
  /\ trace' = [trace EXCEPT ![t] = @ \o stream[t]]
  /\ stream' = [stream EXCEPT ![t] = <<>>]
  /\ ended' = TRUE
  /\ UNCHANGED <<GRecordHandler, good, pc, done, call, lost, memFiles,
                 GBinariesCollected, GBinariesMutex, idx, images>>

\* The process is killed; buffers are lost.
Kill ==
  /\ ~ended
  /\ ended' = TRUE
  /\ UNCHANGED <<GRecordHandler, good, pc, done, call, stream, trace, lost, memFiles,
                 GBinariesCollected, GBinariesMutex, idx, images>>

\* Thread t goes on with the call it is in.
Progress(t, opens) ==
  \/ EndCallback(t)
  \/ Lock(t)
  \/ Recheck(t)
  \/ Collect(t)
  \/ DumpBinary(t, opens)
  \/ DumpDone(t)
  \/ SaveMemory(t, opens)
  \/ SaveMemoryOfFailedCall(t)
  \/ Serialize(t)
  \/ FlushAndReturn(t)

(***************************************************************************)
(* The recorder on its own: every thread has a file of its own.            *)
(***************************************************************************)
Next ==
  \/ \E t \in Threads :
       \/ \E c \in Program : BeginCallback(t, c, t, t \in Followed)
       \/ Progress(t, t \in Followed)
       \/ Deinit(t)
  \/ Kill

\* A thread inside a PI call is scheduled, and the real plugin returns; a
\* thread that waits for the mutex gets it once it stays free.
Fairness == \A t \in Threads : WF_vars(Progress(t, t \in Followed))

Spec == Init /\ [][Next]_vars

FairSpec == Spec /\ Fairness

TypeOK ==
  /\ GRecordHandler \in [Threads -> Threads \cup {NoFile}]
  /\ good \in [Threads -> BOOLEAN]
  /\ pc \in [Threads -> PCs]
  /\ done \in [Threads -> Seq(Calls)]
  /\ call \in [Threads -> Calls]
  /\ stream \in [Threads -> Seq(Records)]
  /\ trace \in [Threads -> Seq(Records)]
  /\ lost \in [Threads -> SUBSET Nat]
  /\ memFiles \in [Threads -> SUBSET Nat]
  /\ GBinariesCollected \in BOOLEAN
  /\ GBinariesMutex \in SUBSET Threads
  /\ idx \in [Threads -> Nat]
  /\ images \in [Images -> Nat]
  /\ ended \in BOOLEAN

(***************************************************************************)
(* Properties.                                                             *)
(***************************************************************************)

\* The record of the n-th completed call of t is in t's file.
InTrace(t, n) ==
  \E i \in DOMAIN trace[t] : trace[t][i] = Record(done[t][n], n, WriteMemObj)

\* At any moment, a kill included, the thread's file has the record of every
\* call that returned to the program, in the order of the calls and once each,
\* the winner of the race for the device images included.  The one exception
\* is a call that lost that race and took the early return at the second look
\* at the flag (record_handler.cpp, handleSelectBinary): nothing but a
\* piextDeviceSelectBinary is ever left out.
TraceComplete ==
  \A t \in Threads : good[t] =>
    /\ \A n \in DOMAIN done[t] :
         IF n \in lost[t] THEN done[t][n].api = SelectBinary ELSE InTrace(t, n)
    /\ \A i, j \in DOMAIN trace[t] : i < j => trace[t][i].n < trace[t][j].n

\* A record that names a memory object file is never in the trace before that
\* file is complete: killed at any point, a trace has no dangling file name.
MemoryBeforeRecord ==
  \A t \in Threads \cap Followed : \A i \in DOMAIN trace[t] :
    trace[t][i].mem => trace[t][i].n \in memFiles[t]

\* No two threads write the same image file: the flag is tested and set under
\* the mutex.
ImagesOnce == \A i \in Images : images[i] <= 1

\* "Device images are dumped on the first call": when a call that found the
\* flag unset has completed and no thread is dumping any more, every image is
\* on disk.
ImagesComplete ==
  GBinariesCollected /\ (\A t \in Threads : pc[t] # "dump")
    => \A i \in Images : images[i] = 1

\* Every PI call returns to the program, whatever the other threads do with
\* the images' mutex.
CallsReturn ==
  \A t \in Threads : pc[t] = "incall" ~> (pc[t] = "idle" \/ ended)

(***************************************************************************)
(* The recorder implements RecordLog: the buffer of the stream, the locks  *)
(* and the files beside the trace are invisible to its reader.             *)
(***************************************************************************)
LoggedEntry(c, n) == Record(c, n, WriteMemObj)

Log == INSTANCE RecordLog WITH
         Listed <- Followed,
         Calls <- Program,
         Lossy <- {c \in Program : c.api = SelectBinary},
         Entry <- LoggedEntry,
         log <- trace,
         returned <- done,
         stopped <- ended

\* Every behaviour of the recording plugin, with its buffering, its two looks
\* at the flag and its death at any step, is one of RecordLog: per thread, an
\* entry per call, at most one ahead of the program, never behind it.
ImplementsLog == Log!Spec

=============================================================================
