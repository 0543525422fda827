----------------------------- MODULE MCRecorder -----------------------------
(* Recorder for TLC: a program that selects device images, moves memory    *)
(* (one transfer fails, one goes to the device) and does something else.   *)
EXTENDS Recorder

MixedProgram ==
  {Call(SelectBinary),
   Call("piQueueFinish"),
   Call("piEnqueueMemBufferRead"),
   [Call("piEnqueueMemBufferMap") EXCEPT !.ok = FALSE],
   [Call("piextUSMEnqueueMemcpy") EXCEPT !.host = FALSE]}
=============================================================================
