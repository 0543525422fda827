-------------------------- MODULE MCRecordSession --------------------------
(* RecordSession for TLC. *)
EXTENDS RecordSession

PC == INSTANCE PICalls

\* Threads that select a device image, and threads that do not.
SmallProgram == {PC!Call(PC!SelectBinary), PC!Call("piQueueFinish")}

\* Threads whose calls all take the same way.
PlainProgram == {PC!Call("piQueueFinish")}
=============================================================================
