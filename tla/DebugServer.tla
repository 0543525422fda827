----------------------------- MODULE DebugServer -----------------------------
(***************************************************************************)
(* dpcpp_trace debug: the GDB remote protocol over one connection.         *)
(*                                                                         *)
(* The server takes what one read returns for one packet, handles it and   *)
(* writes the answer; a packet that resumes the program is answered when   *)
(* it has stopped, and nothing is read meanwhile.  The client sends one    *)
(* packet at a time, lists threads and reads objects to the end once it    *)
(* has begun, inserts a breakpoint only where it has none, and asks for    *)
(* no-ack mode at most once.  Until then it acknowledges the answers; a    *)
(* "+" reaches the server alone or in one read with the packet behind it.  *)
(***************************************************************************)
EXTENDS HostDebugger

CONSTANTS
  Objects,  \* what qXfer serves: name -> contents, a sequence of bytes
  Chunks,   \* lengths the client asks for
  MaxBreakpoints  \* bound on the breakpoints inserted

ASSUME ClientAssumption ==
  /\ Chunks \subseteq Nat \ {0}
  /\ MaxBreakpoints \in Nat
  /\ "" \notin DOMAIN Objects
  /\ \A object \in DOMAIN Objects : Objects[object] \in Seq(STRING)

VARIABLES
  mRunning, mAck, mCurrentThreadIndex, mLastThreadInfoIndex,
  openFds,   \* file descriptors opened with vFile:open
  server,    \* what the server is doing, or how it came to an end
  inbox,     \* what the client has sent and the server has not read
  pending,   \* the packet the client waits for an answer to
  answer,    \* the answer it has, or none
  client     \* what the client has learned

protocolVars == <<mRunning, mAck, mCurrentThreadIndex, mLastThreadInfoIndex, openFds>>
clientVars == <<inbox, pending, answer, client>>
vars == <<debuggerVars, protocolVars, server, clientVars>>

Packet(k, a) == [kind |-> k, arg |-> a, object |-> "", offset |-> 0]
NoPacket == Packet("no packet", 0)
NoAnswer == [ack |-> FALSE, text |-> "no answer", data |-> <<>>]

\* createResponse.
Response(ack, text, data) == [ack |-> ack, text |-> text, data |-> data]

Init ==
  /\ DebuggerInit
  /\ mRunning = TRUE
  /\ mAck = TRUE
  /\ mCurrentThreadIndex = 0
  /\ mLastThreadInfoIndex = 0
  /\ openFds = {}
  /\ server = "reading"
  /\ inbox = <<>>
  /\ pending = NoPacket
  /\ answer = NoAnswer
  /\ client = [ack |-> TRUE, inserted |-> {}, listing |-> FALSE, listed |-> <<>>,
               object |-> "", got |-> <<>>, exited |-> FALSE]

(***************************************************************************)
(* The client                                                              *)
(***************************************************************************)

\* Packets the protocol has a fixed answer for, and one it does not know.
FixedPackets == {"qSupported", "qAttached", "vCont?", "vFile:setfs", "qProcessInfo", "other"}

\* qProcessInfo returns before it builds its answer.
FixedAnswer(k) ==
  CASE k = "qSupported" -> "features"
    [] k = "qAttached" -> "1"
    [] k = "vCont?" -> "vCont;c;C;t;s;S;r"
    [] k = "vFile:setfs" -> "F0"
    [] OTHER -> ""

Inspections ==
  {Packet(k, 0) : k \in FixedPackets \cup {"?", "g", "G", "p", "m", "x", "M", "qfThreadInfo",
                                           "qC", "vFile:open"}}
  \cup (IF client.ack THEN {Packet("QStartNoAckMode", 0)} ELSE {})
  \cup {Packet("H", t) : t \in ThreadIds \cup {0}}
  \cup {Packet("Z0", a) : a \in IF nextId <= MaxBreakpoints THEN Addrs \ client.inserted ELSE {}}
  \cup {Packet("z0", a) : a \in client.inserted}
  \cup {Packet(k, 1) : k \in {"vFile:close", "vFile:pread"}}

Resumptions ==
  IF runs = MaxRuns THEN {}
  ELSE {Packet("c", 0)} \cup {Packet("vCont;c", t) : t \in ThreadIds}
                        \cup {Packet("vCont;s", t) : t \in ThreadIds}

\* The next part of an object, or the first part of any.
Transfers ==
  [kind : {"qXfer"}, arg : Chunks,
   object : IF client.object = "" THEN DOMAIN Objects ELSE {client.object},
   offset : {IF client.object = "" THEN 0 ELSE Len(client.got)}]

\* What the client may send next.
NextPackets ==
  IF client.listing THEN {Packet("qsThreadInfo", 0)}
  ELSE IF client.object # "" THEN Transfers
  ELSE IF client.exited THEN {Packet("k", 0)}
  ELSE Inspections \cup Resumptions \cup Transfers \cup {Packet("k", 0)}

Send(p) ==
  /\ pending = NoPacket
  /\ server = "reading"
  /\ pending' = p
  /\ inbox' = Append(inbox, p)
  /\ client' = [client EXCEPT !.object = p.object,
                              !.listing = p.kind \in {"qfThreadInfo", "qsThreadInfo"}]
  /\ UNCHANGED <<debuggerVars, protocolVars, server, answer>>

\* The bytes that escape() escapes, and the bytes it sends for them, 0x03,
\* 0x04, 0x5d and 0x0a: c xor 0x20, which is its own inverse.
Special == {"#", "$", "}", "*"}
Xor20(c) ==
  CASE c = "#" -> "^C" [] c = "^C" -> "#"
    [] c = "$" -> "^D" [] c = "^D" -> "$"
    [] c = "}" -> "]"  [] c = "]" -> "}"
    [] c = "*" -> "^J" [] c = "^J" -> "*"
    [] OTHER -> c

\* The client drops an escape and restores the byte behind it.
Escaped(s, i) == i - 1 \in DOMAIN s /\ s[i - 1] = "}"
Unescape(s) ==
  FlattenSeq([i \in DOMAIN s |-> IF s[i] = "}" THEN <<>>
                                 ELSE IF Escaped(s, i) THEN <<Xor20(s[i])>> ELSE <<s[i]>>])

\* The client takes the answer, and acknowledges it while it still does.
Receive ==
  /\ answer # NoAnswer
  /\ inbox' = IF client.ack THEN Append(inbox, Packet("+", 0)) ELSE inbox
  /\ client' =
       [client EXCEPT
          !.ack = @ /\ pending.kind # "QStartNoAckMode",
          !.inserted = CASE pending.kind = "Z0" -> @ \cup {pending.arg}
                         [] pending.kind = "z0" -> @ \ {pending.arg}
                         [] OTHER -> @,
          !.listing = @ /\ answer.text = "m",
          !.listed = IF client.listing /\ answer.text = "m" THEN @ \o answer.data ELSE <<>>,
          !.object = IF answer.text = "m" THEN @ ELSE "",
          !.got = IF client.object # "" /\ answer.text = "m" THEN @ \o Unescape(answer.data) ELSE <<>>,
          !.exited = @ \/ answer.text = "W00"]
  /\ pending' = NoPacket
  /\ answer' = NoAnswer
  /\ UNCHANGED <<debuggerVars, protocolVars, server>>

(***************************************************************************)
(* The server                                                              *)
(***************************************************************************)

\* The answer to a packet that goes on at once.
Reply(r) == answer' = r /\ UNCHANGED server
Crash == server' = "crashed" /\ UNCHANGED answer

\* process_qSupported, process_qAttached, process_qProcessInfo and
\* processUnsupported.  Mutant: a packet that is not supported is not answered.
SilentlyIgnored(p) == IF p.kind = "other" THEN NoAnswer ELSE Response(mAck, FixedAnswer(p.kind), <<>>)
FixedReply(p) == Response(mAck, FixedAnswer(p.kind), <<>>)

ProcessFixed(p) ==
  /\ p.kind \in FixedPackets
  /\ Reply(FixedReply(p))
  /\ UNCHANGED <<debuggerVars, protocolVars>>

\* The answer to QStartNoAckMode is the last with a "+".  Mutant: it has none.
NewMode == FALSE
LastAck == TRUE

ProcessQStartNoAckMode(p) ==
  /\ p.kind = "QStartNoAckMode"
  /\ mAck' = FALSE
  /\ Reply(Response(LastAck, "OK", <<>>))
  /\ UNCHANGED <<debuggerVars, mRunning, mCurrentThreadIndex, mLastThreadInfoIndex, openFds>>

\* process_H keeps the ID, whether or not there is such a thread.
ProcessH(p) ==
  /\ p.kind = "H"
  /\ mCurrentThreadIndex' = p.arg
  /\ Reply(Response(mAck, "OK", <<>>))
  /\ UNCHANGED <<debuggerVars, mRunning, mAck, mLastThreadInfoIndex, openFds>>

\* The index after the last thread.  Mutant: it is not reset.
IndexKept == mLastThreadInfoIndex
IndexReset == 0

\* process_qfThreadInfo, for qs too.
ProcessThreadInfo(p) ==
  /\ p.kind \in {"qfThreadInfo", "qsThreadInfo"}
  /\ IF mLastThreadInfoIndex < Len(threadList)
       THEN /\ Reply(Response(mAck, "m", <<GetThreadAtIndex(mLastThreadInfoIndex)>>))
            /\ mLastThreadInfoIndex' = mLastThreadInfoIndex + 1
       ELSE /\ Reply(Response(mAck, "l", <<>>))
            /\ mLastThreadInfoIndex' = IndexReset
  /\ UNCHANGED <<debuggerVars, mRunning, mAck, mCurrentThreadIndex, openFds>>

\* process_qC takes the ID for an index.
Process_qC(p) ==
  /\ p.kind = "qC"
  /\ IF GetThreadAtIndex(mCurrentThreadIndex) = NoThread THEN Crash
     ELSE Reply(Response(mAck, "QC", <<GetThreadAtIndex(mCurrentThreadIndex)>>))
  /\ UNCHANGED <<debuggerVars, protocolVars>>

\* process_g, process_G and process_p use the registers of the thread.
ProcessRegisters(p) ==
  /\ p.kind \in {"g", "G", "p"}
  /\ IF ~HasRegisters(mCurrentThreadIndex) THEN Crash
     ELSE \E data \in RegisterData :
            Reply(Response(mAck, IF p.kind = "G" THEN "OK" ELSE IF data = "" THEN "E01" ELSE data, <<>>))
  /\ UNCHANGED <<debuggerVars, protocolVars>>

\* process_m, also for x, reads; a length of 0 is a test.  The pattern of
\* process_M matches no write: its length is 0, and nothing is written.
ProcessMemory(p) ==
  /\ p.kind \in {"m", "x", "M"}
  /\ \E data \in MemoryData, zero \in BOOLEAN :
       /\ p.kind = "M" => zero
       /\ Reply(Response(mAck, IF zero THEN "OK" ELSE IF data = "" THEN "E01" ELSE data, <<>>))
  /\ UNCHANGED <<debuggerVars, protocolVars>>

\* processStatus, and the end of every resumption.
StopReply(type) ==
  CASE type \in {"exit", "none"} -> "W00"
    [] type = "signal" -> "S"
    [] type = "breakpoint" -> "T05"
    [] OTHER -> "S05"

\* Mutant: the thread is looked at before the state of the process.
ThreadFirst ==
  IF ThreadFor(mCurrentThreadIndex) = NoThread THEN NullPointer
  ELSE GetStopReason(mCurrentThreadIndex)
CurrentStopReason == GetStopReason(mCurrentThreadIndex)

ReplyStopReason ==
  IF CurrentStopReason = NullPointer
    THEN server' = "crashed" /\ UNCHANGED answer
    ELSE /\ server' = "reading"
         /\ answer' = Response(mAck, StopReply(CurrentStopReason), <<>>)

ProcessStatus(p) ==
  /\ p.kind = "?"
  /\ ReplyStopReason
  /\ UNCHANGED <<debuggerVars, protocolVars>>

\* escape puts an escape before each special byte, and changes the byte.
Escape(s) ==
  FlattenSeq([i \in DOMAIN s |-> IF s[i] \in Special THEN <<"}", Xor20(s[i])>> ELSE <<s[i]>>])

\* Nothing in the object is special: it is sent and read as it is.
Verbatim(object) == \A k \in DOMAIN Objects[object] : Objects[object][k] \notin Special

\* std::string::substr.
Substr(s, offset, length) == SubSeq(s, offset + 1, Min({offset + length, Len(s)}))

\* More is to come.  Mutant: a part that ends before the object does is the last.
MoreAlways(offset, length, size) == offset + 2 * length <= size
More(offset, length, size) == offset + length <= size

\* process_qXfer; auxv is cut after it was escaped, by its size before.
ProcessXfer(p) ==
  /\ p.kind = "qXfer"
  /\ LET data == Objects[p.object]
         sent == IF p.object = "auxv" THEN Escape(data) ELSE data
     IN  IF p.offset >= Len(data)
           THEN Reply(Response(mAck, "", <<>>))
           ELSE Reply(Response(mAck, IF More(p.offset, p.arg, Len(data)) THEN "m" ELSE "l",
                               Substr(sent, p.offset, p.arg)))
  /\ UNCHANGED <<debuggerVars, protocolVars>>

Process_z(p) ==
  /\ p.kind = "z0"
  /\ RemoveSoftwareBreakpoint(p.arg)
  /\ Reply(Response(mAck, "OK", <<>>))
  /\ UNCHANGED protocolVars

Process_Z(p) ==
  /\ p.kind = "Z0"
  /\ CreateSoftwareBreakpoint(p.arg)
  /\ Reply(Response(mAck, "OK", <<>>))
  /\ UNCHANGED protocolVars

\* process_c and process_vCont: resume fails when there is no process any more.
Process_c(p) ==
  /\ p.kind \in {"c", "vCont;c"}
  /\ IF CanResume THEN server' = "resuming" /\ Resume
     ELSE server' = "terminated" /\ UNCHANGED debuggerVars
  /\ UNCHANGED <<protocolVars, answer>>

\* stepInstruction needs the thread.
Process_s(p) ==
  /\ p.kind = "vCont;s"
  /\ IF ThreadFor(p.arg) # NoThread /\ CanResume THEN server' = "resuming" /\ Resume
     ELSE server' = "terminated" /\ UNCHANGED debuggerVars
  /\ UNCHANGED <<protocolVars, answer>>

\* process_vFile: open, close, and pread, whose failure resizes the buffer to
\* minus one and ends the coroutine.
Process_vFile(p) ==
  /\ \/ /\ p.kind = "vFile:open"
        /\ \E opens \in BOOLEAN :
             /\ openFds' = IF opens THEN openFds \cup {1} ELSE openFds
             /\ Reply(Response(mAck, IF opens THEN "F1" ELSE "F-1", <<>>))
     \/ /\ p.kind = "vFile:close"
        /\ openFds' = openFds \ {p.arg}
        /\ Reply(Response(mAck, IF p.arg \in openFds THEN "F0" ELSE "F-1", <<>>))
     \/ /\ p.kind = "vFile:pread"
        /\ IF p.arg \in openFds THEN Reply(Response(mAck, "F", <<>>))
           ELSE server' = "ended" /\ UNCHANGED answer
        /\ UNCHANGED openFds
  /\ UNCHANGED <<debuggerVars, mRunning, mAck, mCurrentThreadIndex, mLastThreadInfoIndex>>

\* "k" has no answer, and ends the loop.
Process_k(p) ==
  /\ p.kind = "k"
  /\ mRunning' = FALSE
  /\ server' = "killed"
  /\ UNCHANGED <<debuggerVars, mAck, mCurrentThreadIndex, mLastThreadInfoIndex, openFds, answer>>

ProcessPacket(p) ==
  \/ ProcessFixed(p)
  \/ ProcessQStartNoAckMode(p)
  \/ ProcessH(p)
  \/ ProcessThreadInfo(p)
  \/ Process_qC(p)
  \/ ProcessRegisters(p)
  \/ ProcessMemory(p)
  \/ ProcessStatus(p)
  \/ ProcessXfer(p)
  \/ Process_z(p)
  \/ Process_Z(p)
  \/ Process_c(p)
  \/ Process_s(p)
  \/ Process_vFile(p)
  \/ Process_k(p)

\* One read returns a packet, with the "+" before it or without.
ReadPacket ==
  /\ server = "reading"
  /\ \E n \in {1, 2} :
       /\ Len(inbox) = n
       /\ n = 2 => inbox[1].kind = "+"
       /\ inbox[n].kind # "+"
       /\ ProcessPacket(inbox[n])
  /\ inbox' = <<>>
  /\ UNCHANGED <<pending, client>>

\* One read returns the "+" alone; processAck sends one back, which the client
\* takes for nothing.
ReadAck ==
  /\ server = "reading"
  /\ inbox # <<>>
  /\ Head(inbox).kind = "+"
  /\ inbox' = Tail(inbox)
  /\ UNCHANGED <<debuggerVars, protocolVars, server, pending, answer, client>>

\* ResumeSynchronous returns.
FinishResume ==
  /\ server = "resuming"
  /\ state # "running"
  /\ ReplyStopReason
  /\ UNCHANGED <<debuggerVars, protocolVars, inbox, pending, client>>

\* The client goes away: the read throws, and the coroutine is gone.
Disconnect ==
  /\ server = "reading"
  /\ inbox = <<>>
  /\ pending = NoPacket
  /\ server' = "ended"
  /\ UNCHANGED <<debuggerVars, protocolVars, clientVars>>

\* SIGINT or SIGTERM: seen by the event loop when it is free, which it waits
\* for even after the coroutine is gone.
Signalled ==
  /\ server \in {"reading", "killed", "ended"}
  /\ server' = "stopped"
  /\ UNCHANGED <<debuggerVars, protocolVars, clientVars>>

Running == ProgramStep /\ UNCHANGED <<protocolVars, server, clientVars>>

ServerStep == ReadPacket \/ ReadAck \/ FinishResume

Next ==
  \/ \E p \in NextPackets : Send(p)
  \/ Receive
  \/ ServerStep
  \/ Disconnect
  \/ Signalled
  \/ Running

\* The event loop runs, the client takes its answers; the program may run on.
Fairness == WF_vars(ServerStep) /\ WF_vars(Receive)

Spec == Init /\ [][Next]_vars /\ Fairness

(***************************************************************************)
(* Properties.                                                             *)
(***************************************************************************)

\* Between two packets the target has a breakpoint exactly where the client
\* has inserted one, and the server can still remove each of them.
BreakpointsAgree ==
  pending = NoPacket =>
    /\ {b[2] : b \in installed} = client.inserted
    /\ installed = {<<mBreakpoints[a], a>> : a \in DOMAIN mBreakpoints}

\* A listing that has come to its "l" names each thread once, although qf and
\* qs share one index that only the "l" resets and threads come and go between
\* two listings.
ThreadsListed ==
  pending.kind \in {"qfThreadInfo", "qsThreadInfo"} /\ answer.text = "l" =>
    client.listed = threadList

\* An object read part by part, in parts of any length, is whole when the
\* server has no more of it, be it a last part or an empty answer after a part
\* that ended where the object does.  Objects with bytes that auxv escapes are
\* excepted.
XferWhole ==
  pending.kind = "qXfer" /\ answer.text \in {"l", ""} /\ Verbatim(pending.object) =>
    client.got \o answer.data = Objects[pending.object]

\* LLDB's reasons that getStopReason has no type for, or the type of an exit.
Unknown == {"invalid", "exec", "threadExiting", "instrumentation", "processorTrace"}

\* The client is told that the program has exited when it has, whichever
\* thread is selected and however the exit raced with the other threads;
\* otherwise only when the selected thread stopped for a reason that the server
\* does not know.
StopTold ==
  pending.kind \in {"c", "vCont;c", "vCont;s", "?"} /\ answer # NoAnswer =>
    (answer.text = "W00" <=> \/ state = "exited"
                             \/ reason[ThreadFor(mCurrentThreadIndex)] \in Unknown)

\* The server dereferences a thread that is not there only when the selected ID
\* is that of no thread, one that has ended or one that H made up, of a program
\* that goes on, or when qC takes the ID for an index: never with thread 0, never because the program exited.
NullOnlyIfStale ==
  server = "crashed" =>
    /\ state = "stopped"
    /\ pending.kind = "qC" \/ mCurrentThreadIndex \notin Range(threadList)
    /\ mCurrentThreadIndex # 0

\* An answer has a "+" exactly when the client still expects one: both sides
\* change to no-ack mode at the same answer.
AckAgreed == answer # NoAnswer => answer.ack = client.ack

\* A packet is answered, whatever it is, unless the program runs on or the
\* server is gone.
PacketsAnswered ==
  pending # NoPacket ~> (answer # NoAnswer \/ state = "running" \/ server \notin {"reading", "resuming"})

=============================================================================
