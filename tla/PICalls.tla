------------------------------ MODULE PICalls ------------------------------
(***************************************************************************)
(* What a PI call is for the recording and the replaying plugin: which     *)
(* function it is and which of its output pointers the program passed.     *)
(* Output data is abstracted to the slot it belongs to; what matters is    *)
(* which slots a record holds and which slots replay fills from it.        *)
(***************************************************************************)
EXTENDS Naturals, Sequences

CountApis == {"piPlatformsGet", "piDevicesGet"}

\* Queries whose outputs have a handler in the recording plugin ...
InfoApis == {"piPlatformGetInfo", "piDeviceGetInfo", "piContextGetInfo",
             "piKernelGetInfo", "piKernelGetGroupInfo"}

\* ... and queries that are left to basicHandler.
BareInfoApis == {"piQueueGetInfo", "piMemGetInfo", "piMemImageGetInfo",
                 "piProgramGetInfo"}

SelectBinary == "piextDeviceSelectBinary"

\* Transfers whose data goes to a file of its own.
TransferApis == {"piEnqueueMemBufferMap", "piEnqueueMemBufferRead",
                 "piextUSMEnqueueMemcpy"}

\* Functions that return a new object or a new allocation ...
CreateApis == {"piContextCreate", "piQueueCreate", "piMemBufferCreate",
               "piProgramCreateWithBinary", "piProgramCreate", "piProgramLink",
               "piKernelCreate", "piextUSMHostAlloc", "piextUSMDeviceAlloc"}

\* ... or an event ...
EventApis == {"piEnqueueKernelLaunch", "piEnqueueMemUnmap", "piEnqueueEventsWait",
              "piEnqueueEventsWaitWithBarrier", "piextUSMEnqueueMemset"}

\* ... or nothing but a result code.
PlainApis == {"piDeviceRetain", "piDeviceRelease", "piContextRetain",
              "piContextRelease", "piQueueRetain", "piQueueRelease",
              "piQueueFinish", "piMemRetain", "piMemRelease", "piProgramBuild",
              "piProgramCompile", "piProgramRetain", "piProgramRelease",
              "piextProgramSetSpecializationConstant", "piKernelSetExecInfo",
              "piextKernelSetArgMemObj", "piKernelSetArg",
              "piextKernelSetArgPointer", "piKernelRetain", "piKernelRelease",
              "piEventsWait", "piEventRelease", "piextUSMFree", "piTearDown"}

\* One of the functions the replaying plugin leaves out of its table.
MissingApis == {"piextDeviceGetNativeHandle"}

Apis == CountApis \cup InfoApis \cup BareInfoApis \cup {SelectBinary}
        \cup TransferApis \cup CreateApis \cup EventApis \cup PlainApis
        \cup MissingApis

(***************************************************************************)
(* A call: its function, whether the pointer to the value (the array of    *)
(* handles) and the pointer to its size (its count) are given, and whether *)
(* the plugin returned success.  host: the destination of a memcpy is host *)
(* or unregistered memory.                                                 *)
(***************************************************************************)
Calls == [api : Apis, value : BOOLEAN, size : BOOLEAN, host : BOOLEAN, ok : BOOLEAN]

Call(f) == [api |-> f, value |-> TRUE, size |-> FALSE, host |-> TRUE, ok |-> TRUE]

Given(flag, slot) == IF flag THEN {slot} ELSE {}
Saved(flag, slot) == IF flag THEN <<slot>> ELSE <<>>

\* The slots the real plugin fills.
Outputs(c) ==
  CASE c.api \in CountApis                -> Given(c.size, "count") \cup Given(c.value, "items")
    [] c.api \in InfoApis \cup BareInfoApis -> Given(c.value, "value") \cup Given(c.size, "size")
    [] c.api = SelectBinary               -> {"index"}
    [] c.api = "piEnqueueMemBufferMap"    -> {"mapped", "event"}
    [] c.api = "piEnqueueMemBufferRead"   -> {"data", "event"}
    [] c.api = "piextUSMEnqueueMemcpy"    -> Given(c.host, "data") \cup {"event"}
    [] c.api \in CreateApis \cup MissingApis -> {"object"}
    [] c.api \in EventApis                -> {"event"}
    [] c.api \in PlainApis                -> {}

(***************************************************************************)
(* The record the recording plugin writes for a call.                      *)
(***************************************************************************)

\* small_outputs, in the order they are added.
\* Mutant: the number of platforms or devices is not saved.
NoCountOutputs(c) ==
  CASE c.api \in InfoApis   -> Saved(c.value, "value") \o Saved(c.size, "size")
    [] c.api = SelectBinary -> <<"index">>
    [] OTHER                -> <<>>
SmallOutputs(c) ==
  CASE c.api \in CountApis  -> Saved(c.size, "count")
    [] c.api \in InfoApis   -> Saved(c.value, "value") \o Saved(c.size, "size")
    [] c.api = SelectBinary -> <<"index">>
    [] OTHER                -> <<>>

\* The call's data is written to a memory object file.
SavesMemory(c, writeMemObj) ==
  /\ writeMemObj
  /\ c.api \in TransferApis
  /\ c.api = "piextUSMEnqueueMemcpy" => c.host

\* The n-th call of a thread, as serialized.
Record(c, n, writeMemObj) ==
  [fn |-> c.api, n |-> n, small |-> SmallOutputs(c), mem |-> SavesMemory(c, writeMemObj)]

Records == [fn : Apis, n : Nat, small : Seq({"count", "value", "size", "index"}),
            mem : BOOLEAN]
=============================================================================
