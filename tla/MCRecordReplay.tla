--------------------------- MODULE MCRecordReplay ---------------------------
(* RecordReplay for TLC: which calls the recorded program makes. *)
EXTENDS RecordReplay

\* A query for the value, a query for its size.
ValueQuery(f) == Call(f)
SizeQuery(f) == [Call(f) EXCEPT !.value = FALSE, !.size = TRUE]
BothQuery(f) == [Call(f) EXCEPT !.size = TRUE]

\* The functions that replay gets right, with one output pointer per query.
\* doc/supported_apis.md marks more of them: OddProgram has those.
FaithfulProgram ==
  {Call(f) : f \in (CreateApis \ {"piProgramLink"}) \cup EventApis \cup TransferApis
                   \cup (PlainApis \ {"piMemRetain"}) \cup {SelectBinary}}
  \cup {BothQuery(f) : f \in CountApis}
  \cup {SizeQuery(f) : f \in CountApis \cup InfoApis}
  \cup {ValueQuery(f) : f \in InfoApis}
  \cup {[Call("piextUSMEnqueueMemcpy") EXCEPT !.host = FALSE]}

\* Threads that race for the device images and for the map of kernels, and
\* functions that replay gets wrong.
OddProgram == {Call(SelectBinary), Call("piKernelCreate"), Call("piMemRetain"),
               Call("piProgramLink"), Call("piEnqueueMemBufferRead"),
               Call("piTearDown"), Call("piextDeviceGetNativeHandle"),
               ValueQuery("piQueueGetInfo"), BothQuery("piDeviceGetInfo")}

\* Threads that use the maps of kernels and of memory objects, ask for counts
\* and move memory.
MapProgram == {Call("piKernelCreate"), ValueQuery("piKernelGetInfo"),
               SizeQuery("piKernelGetInfo"), Call("piMemBufferCreate"),
               BothQuery("piPlatformsGet"), Call("piEnqueueMemBufferRead")}

\* The calls a thread has made.
Made(t) == {done[t][k] : k \in DOMAIN done[t]} \cup (IF pc[t] = "idle" THEN {} ELSE {call[t]})

\* Either one thread makes all the calls, of any function, or several do, of
\* those in MapProgram.
OneThreadOrMaps ==
  \/ \E t \in Threads : \A u \in Threads \ {t} : Made(u) = {}
  \/ \A t \in Threads : Made(t) \subseteq MapProgram

FaithfulSpec == ReplayInit /\ [][ReplayNext /\ OneThreadOrMaps']_allVars

\* Threads that race for the device images.
SelectProgram == {Call(SelectBinary), Call("piQueueFinish")}
=============================================================================
