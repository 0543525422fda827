--------------------------- MODULE RecordSession ---------------------------
(***************************************************************************)
(* A recorded program: ThreadNames names its threads, Recorder writes what *)
(* they call.  They meet in the first begin callback of a thread, which    *)
(* opens <thread name>.pi_trace, and in the threads that are inside a PI   *)
(* call while others create threads.                                       *)
(***************************************************************************)
EXTENDS ThreadNames

CONSTANTS NoFile, Program, NumBinaries, WriteMemObj, MaxCalls

VARIABLES GRecordHandler, good, pc, done, call, stream, trace, lost, memFiles,
          GBinariesCollected, GBinariesMutex, idx, images, ended,
          ownFile   \* threads whose own name names their file (history)

R == INSTANCE Recorder

sessionVars == <<vars, R!vars, ownFile>>

SessionInit == Init /\ R!Init /\ ownFile = {}

\* A step of the naming library.  A thread creates threads and ends between
\* its PI calls, or inside the real plugin; when the process dies in
\* pthread_setname_np the recorder dies with it.
NamesStep(t) ==
  /\ ~ended
  /\ \/ /\ pc[t] \in {"idle", "incall"}
        /\ \/ \E u \in Threads : Create(t, u)
           \/ \E stale \in SUBSET Threads : CreateFails(t, stale)
     \/ ComposeName(t)
     \/ SetName(t)
     \/ SetNameOnJunk(t)
     \/ pc[t] = "idle" /\ Exit(t)
  /\ ended' = crashed'
  /\ UNCHANGED <<GRecordHandler, good, pc, done, call, stream, trace, lost, memFiles,
                 GBinariesCollected, GBinariesMutex, idx, images, ownFile>>

\* The thread's trace file, looked up when it makes its first PI call.
\* Mutant: the name is looked up on the initial thread.
MainFile(t) == tname[Main]
TraceFile(t) == tname[t]

\* A step of the recorder on thread t.
RecordStep(t) ==
  /\ step[t] = "free"
  /\ \/ Ready(t) /\ \E c \in Program :
          R!BeginCallback(t, c, TraceFile(t), t \in Followed)
     \/ R!Progress(t, t \in Followed)
     \/ Ready(t) /\ R!Deinit(t)
  /\ ownFile' = IF GRecordHandler'[t] # GRecordHandler[t] /\ own[t]
                THEN ownFile \cup {t} ELSE ownFile
  /\ UNCHANGED vars

SessionNext ==
  \/ \E t \in Threads : NamesStep(t) \/ RecordStep(t)
  \/ R!Kill /\ UNCHANGED <<vars, ownFile>>

SessionSpec == SessionInit /\ [][SessionNext]_sessionVars

Recording(t) == GRecordHandler[t] # NoFile

(***************************************************************************)
(* Properties.                                                             *)
(***************************************************************************)

\* "For each thread a file with thread name is created": two threads that had
\* names of their own when they made their first PI call never append to the
\* same .pi_trace file, even when one has been renamed since by a creation that
\* failed, and whatever names threads without one go by.
OwnFilesDistinct ==
  \A a, b \in ownFile : a # b => GRecordHandler[a] # GRecordHandler[b]

\* "For each thread a file with thread name is created"
\* (doc/theory_of_operation.md): the file that has a thread's records bears the
\* thread's name, under which replay will look for them, although the file is
\* opened by the thread's first PI call and the name is given by its creator.
FileHasThreadName ==
  \A t \in Threads : Recording(t) => GRecordHandler[t] = tname[t]

\* Every thread that makes PI calls gets a trace file it can write to.
EveryThreadRecorded == \A t \in Threads : Recording(t) => good[t]
=============================================================================
