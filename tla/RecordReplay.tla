---------------------------- MODULE RecordReplay ----------------------------
(***************************************************************************)
(* A program is recorded and then run again, with the same calls, on the   *)
(* replaying plugin: Recorder, and Replayer on the files it leaves, however *)
(* the recording ended.  Every thread has a trace file of its own.         *)
(***************************************************************************)
EXTENDS Recorder

VARIABLES files, memory, opened, pos, pending, inMap, replies, outcome

P == INSTANCE Replayer

replayVars == <<files, memory, opened, pos, pending, inMap, replies, outcome>>

allVars == <<vars, replayVars>>

ReplayInit == Init /\ P!Init

\* The SYCL runtime tears a plugin down after its last call.
TornDown(t) == done[t] # <<>> /\ done[t][Len(done[t])].api = "piTearDown"

RecordStep ==
  /\ \/ \E t \in Threads :
          \/ ~TornDown(t) /\ \E c \in Program : BeginCallback(t, c, t, t \in Followed)
          \/ Progress(t, t \in Followed)
          \/ Deinit(t)
     \/ Kill
  /\ UNCHANGED replayVars

StartReplay ==
  /\ ended
  /\ P!Start(trace, memFiles)
  /\ UNCHANGED vars

\* The calls a thread made while it was recorded, again.
ReplayStep(t) ==
  /\ \/ /\ Len(replies[t]) < Len(done[t])
        /\ P!CallStep(t, done[t][Len(replies[t]) + 1])
     \/ P!LeaveMap(t)
     \/ \E u \in Threads : P!MapRace(t, u)
  /\ UNCHANGED vars

ReplayNext == RecordStep \/ StartReplay \/ \E t \in Threads : ReplayStep(t)

ReplaySpec == ReplayInit /\ [][ReplayNext]_allVars

(***************************************************************************)
(* Properties.                                                             *)
(***************************************************************************)

\* Replay gives the program what the recorded plugin gave it: the answer to
\* the k-th call of a thread is made from the record of its k-th call and
\* fills the outputs that call has.
RepliesFaithful ==
  \A t \in Threads : \A k \in DOMAIN replies[t] :
    replies[t][k] = [n |-> k, slots |-> Outputs(done[t][k])]

\* The same program never runs into "Unexpected PI call".
NeverAborted == outcome # "aborted"

\* doc/supported_apis.md marks the functions it replays ("Plugin replay | +"):
\* a program that makes only such calls never makes replay call an entry that
\* piPluginInit has not filled in or read an output that the record lacks.
NeverUndefined == outcome # "undefined"

\* Threads replay in any order, and the only thing that may go wrong between
\* them is GKernelProgramMap and GMemContextMap, which no lock protects: the
\* one undefined step is taken by two threads inside the same map, one of them
\* writing, and never by a read past a file that was cut off or of an output
\* that was not saved.
UndefinedOnlyInMap ==
  outcome = "undefined" =>
    \E t, u \in inMap : t # u /\ P!Conflict(pending[t], pending[u])

\* Whatever was lost while recording, an answer is made from a record of the
\* function that was called, and no record is used for two calls.
AnswersInOrder ==
  \A t \in Threads : \A k \in DOMAIN replies[t] :
    /\ \A j \in DOMAIN replies[t] : j < k => replies[t][j].n < replies[t][k].n
    /\ \E i \in DOMAIN files[t] :
         files[t][i].n = replies[t][k].n /\ files[t][i].fn = done[t][k].api
=============================================================================
