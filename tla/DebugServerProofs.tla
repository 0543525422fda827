------------------------- MODULE DebugServerProofs -------------------------
(***************************************************************************)
(* Proofs about DebugServer, for any threads, breakpoints, objects and any *)
(* number of packets and resumptions.                                      *)
(***************************************************************************)
EXTENDS DebugServer, SequenceTheorems, NaturalsInduction, WellFoundedInduction, TLAPS

Resuming == {"c", "vCont;c", "vCont;s"}
ListPackets == {"qfThreadInfo", "qsThreadInfo"}
Plus == Packet("+", 0)

DebuggerType ==
  /\ state \in {"stopped", "running", "exited"}
  /\ threadList \in Seq(ThreadIds)
  /\ reason \in [ThreadIds -> StopReasons \cup {"none"}]
  /\ mCurrentThreadIndex \in ThreadIds \cup {0}
  /\ mLastThreadInfoIndex \in Nat

ClientType ==
  /\ DOMAIN client = {"ack", "inserted", "listing", "listed", "object", "got", "exited"}
  /\ client.ack \in BOOLEAN /\ client.listing \in BOOLEAN /\ client.exited \in BOOLEAN
  /\ client.listed \in Seq(ThreadIds)
  /\ mAck \in BOOLEAN
  /\ pending.kind = "H" => pending.arg \in ThreadIds \cup {0}

(***************************************************************************)
(* One packet is on its way at a time: not sent, not read, or read.        *)
(***************************************************************************)
Idle == pending = NoPacket /\ answer = NoAnswer /\ inbox \in {<<>>, <<Plus>>}
Unread ==
  /\ pending.kind \notin {"no packet", "+"}
  /\ answer = NoAnswer
  /\ inbox \in {<<pending>>, <<Plus, pending>>}
Read == pending.kind \notin {"no packet", "+"} /\ inbox = <<>>

OnePacket ==
  /\ Idle \/ Unread \/ Read
  /\ server = "resuming" => Read /\ answer = NoAnswer /\ pending.kind \in Resuming
  /\ server = "crashed" => Read /\ answer = NoAnswer
  /\ Read /\ server = "reading" => answer # NoAnswer

\* The program runs only while a resumption waits for it, and has a thread
\* until it exits; the client hears of the exit before it sends anything else.
ProgramKnown ==
  /\ state = "running" => server = "resuming"
  /\ state # "exited" => threadList # <<>>
  /\ state = "exited" =>
       \/ server = "resuming"
       \/ Read /\ pending.kind \in Resuming /\ answer.text = "W00"
       \/ client.exited /\ (pending = NoPacket \/ pending.kind = "k")
  /\ client.exited \/ pending.kind \in Resuming => ~client.listing /\ client.object = ""

\* Both sides have the same mode, but for the answer that changes it.
ModeAgreed ==
  /\ pending.kind = "QStartNoAckMode" => client.ack
  /\ IF pending.kind = "QStartNoAckMode" /\ answer # NoAnswer
       THEN answer.ack = TRUE /\ mAck = FALSE
       ELSE mAck = client.ack /\ (answer # NoAnswer => answer.ack = mAck)

\* The breakpoints the client has inserted when it takes the answer it has.
Expected ==
  IF answer = NoAnswer THEN client.inserted
  ELSE CASE pending.kind = "Z0" -> client.inserted \cup {pending.arg}
         [] pending.kind = "z0" -> client.inserted \ {pending.arg}
         [] OTHER -> client.inserted

BreakpointsKept ==
  /\ installed = {<<mBreakpoints[a], a>> : a \in DOMAIN mBreakpoints}
  /\ DOMAIN mBreakpoints = Expected
  /\ pending.kind = "Z0" => pending.arg \notin client.inserted

\* A listing has the threads up to the index the next answer starts from.
ListingSoFar ==
  /\ ~client.listing => client.listed = <<>> /\ mLastThreadInfoIndex = 0
  /\ pending.kind \in ListPackets => client.listing
  /\ client.listing => pending = NoPacket \/ pending.kind \in ListPackets
  /\ client.listing /\ answer = NoAnswer =>
       /\ mLastThreadInfoIndex <= Len(threadList)
       /\ client.listed = SubSeq(threadList, 1, mLastThreadInfoIndex)
  /\ client.listing /\ answer # NoAnswer =>
       \/ /\ answer.text = "m"
          /\ mLastThreadInfoIndex \in 1 .. Len(threadList)
          /\ client.listed = SubSeq(threadList, 1, mLastThreadInfoIndex - 1)
          /\ answer.data = <<threadList[mLastThreadInfoIndex]>>
       \/ answer.text = "l" /\ mLastThreadInfoIndex = 0 /\ client.listed = threadList

IInv ==
  /\ DebuggerType
  /\ ClientType
  /\ OnePacket
  /\ ProgramKnown
  /\ ModeAgreed
  /\ BreakpointsKept
  /\ ListingSoFar
  /\ StopTold
  /\ NullOnlyIfStale

\* A thread that is found is in the list.
LEMMA ThreadFacts ==
  ASSUME DebuggerType
  PROVE  /\ \A t \in Range(threadList) : t \in ThreadIds /\ t # NoThread
         /\ \A i \in Nat : \/ GetThreadAtIndex(i) = NoThread /\ i >= Len(threadList)
                           \/ GetThreadAtIndex(i) \in Range(threadList) /\ i < Len(threadList)
         /\ \A id \in ThreadIds \cup {0} :
              \/ ThreadFor(id) \in Range(threadList)
              \/ /\ ThreadFor(id) = NoThread
                 /\ id \notin Range(threadList)
                 /\ threadList # <<>> => id # 0
<1> USE DEF DebuggerType
<1>1. \A i \in DOMAIN threadList : threadList[i] \in ThreadIds /\ threadList[i] # 0
  BY DebuggerAssumption
<1>2. \A t \in Range(threadList) : t \in ThreadIds /\ t # NoThread
  BY <1>1 DEF Range, NoThread
<1>3. \A i \in Nat : \/ GetThreadAtIndex(i) = NoThread /\ i >= Len(threadList)
                     \/ GetThreadAtIndex(i) \in Range(threadList) /\ i < Len(threadList)
  BY DEF GetThreadAtIndex, Range
<1>4. threadList # <<>> => GetThreadAtIndex(0) \in Range(threadList)
  BY DEF GetThreadAtIndex, Range
<1>5. ASSUME NEW id \in ThreadIds \cup {0}
      PROVE  \/ ThreadFor(id) \in Range(threadList)
             \/ /\ ThreadFor(id) = NoThread
                /\ id \notin Range(threadList)
                /\ threadList # <<>> => id # 0
  <2>1. CASE id = 0
    <3>1. ThreadFor(id) = GetThreadAtIndex(0) /\ id \notin Range(threadList)
      BY <1>2, <2>1 DEF ThreadFor, NoThread
    <3> QED BY <1>3, <1>4, <3>1
  <2>2. CASE id # 0
    BY <2>2 DEF ThreadFor, FindThreadByID
  <2> QED BY <2>1, <2>2
<1> QED BY <1>2, <1>3, <1>5

\* What the server says of a program that does not run, and when it finds no
\* thread to say it of.
LEMMA StopReplyFacts ==
  ASSUME DebuggerType, state # "running", state # "exited" => threadList # <<>>
  PROVE  /\ CurrentStopReason = NullPointer =>
              state = "stopped" /\ mCurrentThreadIndex \notin Range(threadList) /\ mCurrentThreadIndex # 0
         /\ StopReply(CurrentStopReason) # "no answer"
         /\ CurrentStopReason # NullPointer =>
              (StopReply(CurrentStopReason) = "W00" <=>
                 state = "exited" \/ reason[ThreadFor(mCurrentThreadIndex)] \in Unknown)
         /\ state = "exited" => CurrentStopReason # NullPointer /\ StopReply(CurrentStopReason) = "W00"
<1>1. StopReply(CurrentStopReason) # "no answer"
  BY DEF StopReply
<1>2. CASE state = "exited"
  BY <1>1, <1>2 DEF CurrentStopReason, GetStopReason, StopReply, NullPointer
<1>3. CASE state = "stopped"
  <2> DEFINE t == ThreadFor(mCurrentThreadIndex)
  <2>1. mCurrentThreadIndex \in ThreadIds \cup {0} /\ threadList # <<>>
    BY <1>3 DEF DebuggerType
  <2>2. CASE t = NoThread
    <3>1. CurrentStopReason = NullPointer
      BY <1>3, <2>2 DEF CurrentStopReason, GetStopReason
    <3>2. mCurrentThreadIndex \notin Range(threadList) /\ mCurrentThreadIndex # 0
      BY <2>1, <2>2, ThreadFacts
    <3> QED BY <1>1, <1>3, <3>1, <3>2
  <2>3. CASE t # NoThread
    <3>1. CurrentStopReason = StopType(reason[t])
      BY <1>3, <2>3 DEF CurrentStopReason, GetStopReason
    <3>2. t \in ThreadIds
      BY <2>1, <2>3, ThreadFacts
    <3>3. reason[t] \in StopReasons \cup {"none"}
      BY <3>2 DEF DebuggerType
    <3>4. reason[t] \in {"invalid", "none", "trace", "breakpoint", "watchpoint", "signal", "exception",
                         "exec", "planComplete", "threadExiting", "instrumentation", "processorTrace",
                         "fork", "vfork", "vforkDone"}
      BY <3>3, DebuggerAssumption
    <3> DEFINE r == reason[t]
    <3> HIDE DEF t, r
    <3>5. StopType(r) # NullPointer /\ (StopReply(StopType(r)) = "W00" <=> r \in Unknown)
      BY <3>4 DEF StopType, StopReply, NullPointer, Unknown, r
    <3> QED BY <1>1, <1>3, <3>1, <3>5 DEF t, r
  <2> QED BY <2>2, <2>3
<1> QED BY <1>2, <1>3 DEF DebuggerType

\* A packet and an answer are told from none by a field.
LEMMA Nothing == NoPacket.kind = "no packet" /\ NoAnswer.text = "no answer" /\ Plus.kind = "+"
BY DEF NoPacket, NoAnswer, Packet, Plus

\* What a queue of at most one "+" is with one more in it.
LEMMA Appended ==
  ASSUME NEW a, NEW b
  PROVE  Append(<<>>, a) = <<a>> /\ Append(<<a>>, b) = <<a, b>>
<1> DEFINE s == Append(<<a>>, b)
<1>1. Append(<<>>, a) = <<a>>
  OBVIOUS
<1>2. <<a>> \in Seq({a, b}) /\ <<a, b>> \in Seq({a, b}) /\ Len(<<a>>) = 1 /\ <<a>>[1] = a
  OBVIOUS
<1>3. s \in Seq({a, b}) /\ Len(s) = 2 /\ s[1] = a /\ s[2] = b
  BY <1>2
<1>4. Len(<<a, b>>) = 2 /\ \A i \in 1 .. 2 : s[i] = <<a, b>>[i]
  BY <1>3
<1>5. s = <<a, b>>
  BY <1>2, <1>3, <1>4, SeqEqual
<1> QED BY <1>1, <1>5

\* A packet that asks for a part of an object.
LEMMA TransferFields ==
  ASSUME NEW p \in Transfers
  PROVE  p.kind = "qXfer"
BY DEF Transfers

\* The packets the client may send.
LEMMA PacketFacts ==
  ASSUME NEW p \in NextPackets
  PROVE  /\ p.kind \notin {"no packet", "+"}
         /\ p.kind = "H" => p.arg \in ThreadIds \cup {0}
         /\ p.kind = "Z0" => p.arg \notin client.inserted
         /\ p.kind = "QStartNoAckMode" => client.ack
         /\ client.listing => p.kind = "qsThreadInfo"
         /\ p.kind = "qsThreadInfo" => client.listing
         /\ IF p.kind = "qXfer" THEN p \in Transfers ELSE p.object = ""
         /\ client.exited /\ ~client.listing /\ client.object = "" => p.kind = "k"
<1>1. CASE p = Packet("qsThreadInfo", 0) /\ client.listing
  <2>1. p.kind = "qsThreadInfo" /\ p.object = ""
    BY <1>1 DEF Packet
  <2> QED BY <1>1, <2>1
<1>2. CASE p \in Transfers /\ ~client.listing /\ ~(client.exited /\ client.object = "")
  BY <1>2, TransferFields
<1>3. CASE p = Packet("k", 0) /\ ~client.listing
  <2>1. p.kind = "k" /\ p.object = ""
    BY <1>3 DEF Packet
  <2> QED BY <1>3, <2>1
<1>4. CASE p \in Resumptions /\ ~client.listing /\ ~(client.exited /\ client.object = "")
  <2>1. CASE p = Packet("c", 0)
    <3>1. p.kind = "c" /\ p.object = ""
      BY <2>1 DEF Packet
    <3> QED BY <1>4, <3>1
  <2>2. CASE \E t \in ThreadIds : p = Packet("vCont;c", t) \/ p = Packet("vCont;s", t)
    <3>1. PICK t \in ThreadIds : p = Packet("vCont;c", t) \/ p = Packet("vCont;s", t)
      BY <2>2
    <3>2. p.kind \in {"vCont;c", "vCont;s"} /\ p.object = ""
      <4>1. CASE p = Packet("vCont;c", t)
        BY <4>1 DEF Packet
      <4>2. CASE p = Packet("vCont;s", t)
        BY <4>2 DEF Packet
      <4> QED BY <3>1, <4>1, <4>2
    <3> QED BY <1>4, <3>2
  <2> QED BY <1>4, <2>1, <2>2 DEF Resumptions
<1>5. CASE p \in Inspections /\ ~client.listing /\ ~(client.exited /\ client.object = "")
  <2>1. CASE p \in {Packet(k, 0) : k \in FixedPackets \cup {"?", "g", "G", "p", "m", "x", "M",
                                            "qfThreadInfo", "qC", "vFile:open"}}
    <3>1. PICK k \in FixedPackets \cup {"?", "g", "G", "p", "m", "x", "M", "qfThreadInfo", "qC",
                                       "vFile:open"} : p = Packet(k, 0)
      BY <2>1
    <3>2. p.kind = k /\ p.arg = 0 /\ p.object = ""
      BY <3>1 DEF Packet
    <3> QED BY <1>5, <3>2 DEF FixedPackets
  <2>2. CASE client.ack /\ p = Packet("QStartNoAckMode", 0)
    <3>1. p.kind = "QStartNoAckMode" /\ p.object = ""
      BY <2>2 DEF Packet
    <3> QED BY <1>5, <2>2, <3>1
  <2>3. CASE p \in {Packet("H", t) : t \in ThreadIds \cup {0}}
    <3>1. PICK t \in ThreadIds \cup {0} : p = Packet("H", t)
      BY <2>3
    <3>2. p.kind = "H" /\ p.arg = t /\ p.object = ""
      BY <3>1 DEF Packet
    <3> QED BY <1>5, <3>2
  <2>4. CASE p \in {Packet("Z0", a) : a \in Addrs \ client.inserted}
    <3>1. PICK a \in Addrs \ client.inserted : p = Packet("Z0", a)
      BY <2>4
    <3>2. p.kind = "Z0" /\ p.arg = a /\ p.object = ""
      BY <3>1 DEF Packet
    <3> QED BY <1>5, <3>2
  <2>5. CASE p \in {Packet("z0", a) : a \in client.inserted}
    <3>1. PICK a \in client.inserted : p = Packet("z0", a)
      BY <2>5
    <3>2. p.kind = "z0" /\ p.arg = a /\ p.object = ""
      BY <3>1 DEF Packet
    <3> QED BY <1>5, <3>2
  <2>6. CASE p \in {Packet(k, 1) : k \in {"vFile:close", "vFile:pread"}}
    <3>1. PICK k \in {"vFile:close", "vFile:pread"} : p = Packet(k, 1)
      BY <2>6
    <3>2. p.kind = k /\ p.arg = 1 /\ p.object = ""
      BY <3>1 DEF Packet
    <3> QED BY <1>5, <3>2
  <2> QED BY <1>5, <2>1, <2>2, <2>3, <2>4, <2>5, <2>6 DEF Inspections
<1> QED BY <1>1, <1>2, <1>3, <1>4, <1>5 DEF NextPackets
\* The packet that is read is the one the client waits for; it has exited
\* programs only to kill.
LEMMA ReadFacts ==
  ASSUME IInv, ReadPacket
  PROVE  /\ Unread /\ server = "reading"
         /\ ProcessPacket(pending)
         /\ inbox' = <<>> /\ pending' = pending /\ client' = client
         /\ pending.kind # "k" => state = "stopped"
<1>1. PICK n \in {1, 2} :
        /\ Len(inbox) = n
        /\ n = 2 => inbox[1].kind = "+"
        /\ inbox[n].kind # "+"
        /\ ProcessPacket(inbox[n])
  BY DEF ReadPacket
<1>2. Plus.kind = "+"
  BY Nothing
<1>3. Idle \/ Unread \/ Read
  BY DEF IInv, OnePacket
<1>4. ~Idle
  BY <1>1, <1>2 DEF Idle
<1>5. ~Read
  <2>1. CASE inbox = <<>>
    <3>1. Len(inbox) = 0
      BY <2>1
    <3> QED BY <1>1, <3>1
  <2> QED BY <2>1 DEF Read
<1>6. Unread
  BY <1>3, <1>4, <1>5
<1>7. inbox[n] = pending
  <2>1. CASE inbox = <<pending>>
    <3>1. Len(inbox) = 1 /\ inbox[1] = pending
      BY <2>1
    <3> QED BY <1>1, <3>1
  <2>2. CASE inbox = <<Plus, pending>>
    <3>1. Len(inbox) = 2 /\ inbox[2] = pending
      BY <2>2
    <3> QED BY <1>1, <3>1
  <2> QED BY <1>6, <2>1, <2>2 DEF Unread
<1>8. server = "reading" /\ inbox' = <<>> /\ pending' = pending /\ client' = client
  BY DEF ReadPacket
<1>9. pending.kind # "k" => state = "stopped"
  <2>1. pending # NoPacket
    BY <1>6, Nothing DEF Unread
  <2>2. state # "running" /\ (state = "exited" => pending.kind = "k")
    BY <1>5, <1>8, <2>1 DEF IInv, ProgramKnown
  <2> QED BY <2>2 DEF IInv, DebuggerType
<1> QED BY <1>1, <1>6, <1>7, <1>8, <1>9

\* A packet that is answered at once and changes neither the mode, nor the
\* breakpoints, nor the listing.
LEMMA QuickAnswer ==
  ASSUME IInv, Unread, server = "reading", state = "stopped",
         pending.kind \notin ListPackets \cup Resuming \cup {"QStartNoAckMode", "Z0", "z0", "?", "k"},
         UNCHANGED <<debuggerVars, mAck, mLastThreadInfoIndex, pending, client, server>>,
         mCurrentThreadIndex' \in ThreadIds \cup {0}, inbox' = <<>>,
         answer' # NoAnswer, answer'.ack = mAck
  PROVE  IInv'
<1>1. DebuggerType' /\ ClientType'
  BY DEF IInv, DebuggerType, ClientType, debuggerVars
<1>2. OnePacket'
  BY DEF OnePacket, Read, Unread
<1>3. ~client.listing
  <2>1. pending # NoPacket
    BY Nothing DEF Unread
  <2> QED BY <2>1 DEF IInv, ListingSoFar
<1>4. ProgramKnown'
  BY DEF IInv, ProgramKnown, debuggerVars
<1>5. ModeAgreed'
  BY DEF IInv, ModeAgreed
<1>6. BreakpointsKept'
  <2>1. Expected = client.inserted /\ Expected' = client'.inserted
    BY DEF Expected, Unread
  <2> QED BY <2>1 DEF IInv, BreakpointsKept, debuggerVars
<1>7. ListingSoFar'
  BY <1>3 DEF IInv, ListingSoFar, debuggerVars
<1>8. StopTold' /\ NullOnlyIfStale'
  BY DEF StopTold, NullOnlyIfStale, Resuming
<1> QED BY <1>1, <1>2, <1>4, <1>5, <1>6, <1>7, <1>8 DEF IInv

\* The server comes to an end, by itself or under a packet that it has read.
LEMMA ServerEnds ==
  ASSUME IInv, server # "resuming" \/ state = "stopped", state # "running",
         server' \in {"crashed", "ended", "killed", "terminated", "stopped"},
         UNCHANGED <<debuggerVars, mAck, mCurrentThreadIndex, mLastThreadInfoIndex, pending, answer, client>>,
         inbox' = inbox \/ (Unread /\ inbox' = <<>>),
         server' = "crashed" => Read' /\ answer' = NoAnswer /\ NullOnlyIfStale'
  PROVE  IInv'
<1>1. DebuggerType' /\ ClientType'
  BY DEF IInv, DebuggerType, ClientType, debuggerVars
<1>2. OnePacket'
  <2>1. (Idle \/ Unread \/ Read)'
    BY DEF IInv, OnePacket, Idle, Unread, Read
  <2> QED BY <2>1 DEF OnePacket
<1>3. ProgramKnown'
  <2>1. Read => Read'
    BY DEF Read, Unread
  <2> QED BY <2>1 DEF IInv, ProgramKnown, debuggerVars
<1>4. ModeAgreed'
  BY DEF IInv, ModeAgreed
<1>5. BreakpointsKept'
  BY DEF IInv, BreakpointsKept, Expected, debuggerVars
<1>6. ListingSoFar'
  BY DEF IInv, ListingSoFar, debuggerVars
<1>7. StopTold'
  BY DEF IInv, StopTold, ThreadFor, GetThreadAtIndex, FindThreadByID, debuggerVars
<1>8. NullOnlyIfStale'
  BY DEF NullOnlyIfStale
<1> QED BY <1>1, <1>2, <1>3, <1>4, <1>5, <1>6, <1>7, <1>8 DEF IInv

\* The stop reason is told, or looked for in a thread that is not there.
LEMMA StopReplyStep ==
  ASSUME IInv, server \in {"reading", "resuming"}, state # "running", answer = NoAnswer,
         Unread \/ Read, inbox' = <<>>,
         pending.kind \in Resuming \/ (pending.kind = "?" /\ state = "stopped"),
         ReplyStopReason, UNCHANGED <<debuggerVars, protocolVars, pending, client>>
  PROVE  IInv'
<1> USE DEF protocolVars
<1>1. Read'
  BY DEF Read, Unread
<1>2. DebuggerType /\ (state # "exited" => threadList # <<>>)
  BY DEF IInv, ProgramKnown
<1>3. CASE CurrentStopReason = NullPointer
  <2>1. state = "stopped" /\ mCurrentThreadIndex \notin Range(threadList) /\ mCurrentThreadIndex # 0
    BY <1>2, <1>3, StopReplyFacts
  <2>2. server' = "crashed" /\ answer' = answer
    BY <1>3 DEF ReplyStopReason
  <2>3. NullOnlyIfStale'
    BY <2>1 DEF NullOnlyIfStale, debuggerVars
  <2>4. inbox' = inbox \/ (Unread /\ inbox' = <<>>)
    BY DEF Read
  <2> QED BY <1>1, <2>1, <2>2, <2>3, <2>4, ServerEnds
<1>4. CASE CurrentStopReason # NullPointer
  <2>1. server' = "reading" /\ answer' = Response(mAck, StopReply(CurrentStopReason), <<>>)
    BY <1>4 DEF ReplyStopReason
  <2>2. answer'.ack = mAck /\ answer'.text = StopReply(CurrentStopReason)
    BY <2>1 DEF Response
  <2>3. answer' # NoAnswer
    BY <1>2, <2>2, StopReplyFacts, Nothing
  <2>4. answer'.text = "W00" <=> state = "exited" \/ reason[ThreadFor(mCurrentThreadIndex)] \in Unknown
    BY <1>2, <1>4, <2>2, StopReplyFacts
  <2>5. DebuggerType' /\ ClientType'
    BY DEF IInv, DebuggerType, ClientType, debuggerVars
  <2>6. OnePacket'
    BY <1>1, <2>1, <2>3 DEF OnePacket
  <2>7. ~client.listing
    <3>1. pending # NoPacket
      BY Nothing DEF Unread, Read
    <3> QED BY <3>1 DEF IInv, ListingSoFar, ListPackets, Resuming
  <2>8. ProgramKnown'
    BY <1>1, <2>1, <2>4 DEF IInv, ProgramKnown, debuggerVars
  <2>9. ModeAgreed'
    BY <2>2 DEF IInv, ModeAgreed, Resuming
  <2>10. BreakpointsKept'
    <3>1. Expected = client.inserted /\ Expected' = client'.inserted
      BY DEF Expected, Resuming
    <3> QED BY <3>1 DEF IInv, BreakpointsKept, debuggerVars
  <2>11. ListingSoFar'
    BY <2>7 DEF IInv, ListingSoFar, debuggerVars
  <2>12. StopTold'
    BY <2>4 DEF StopTold, ThreadFor, GetThreadAtIndex, FindThreadByID, debuggerVars
  <2>13. NullOnlyIfStale'
    BY <2>1 DEF NullOnlyIfStale
  <2> QED BY <2>5, <2>6, <2>8, <2>9, <2>10, <2>11, <2>12, <2>13 DEF IInv
<1> QED BY <1>3, <1>4

\* The client sends its next packet.
LEMMA SendStep ==
  ASSUME IInv, NEW p \in NextPackets, Send(p)
  PROVE  IInv'
<1>1. /\ p.kind \notin {"no packet", "+"}
      /\ p.kind = "H" => p.arg \in ThreadIds \cup {0}
      /\ p.kind = "Z0" => p.arg \notin client.inserted
      /\ p.kind = "QStartNoAckMode" => client.ack
      /\ client.listing => p.kind = "qsThreadInfo"
      /\ p.kind = "qsThreadInfo" => client.listing
      /\ p.kind # "qXfer" => p.object = ""
      /\ client.exited /\ ~client.listing /\ client.object = "" => p.kind = "k"
  BY PacketFacts
<1>2. /\ server = "reading" /\ pending = NoPacket /\ pending' = p
      /\ inbox' = Append(inbox, p)
      /\ UNCHANGED <<debuggerVars, protocolVars, server, answer>>
  BY DEF Send
<1>3. /\ client'.ack = client.ack /\ client'.inserted = client.inserted
      /\ client'.listed = client.listed /\ client'.exited = client.exited
      /\ client'.object = p.object
      /\ client'.listing = (p.kind \in ListPackets)
      /\ DOMAIN client' = DOMAIN client
  BY DEF Send, IInv, ClientType, ListPackets
<1>4. pending.kind = "no packet"
  BY <1>2, Nothing
<1>5. Idle
  BY <1>4 DEF IInv, OnePacket, Unread, Read
<1>6. answer = NoAnswer /\ answer' = NoAnswer
  BY <1>2, <1>5 DEF Idle
<1>7. DebuggerType' /\ ClientType'
  <2>1. DebuggerType'
    BY <1>2 DEF IInv, DebuggerType, debuggerVars, protocolVars
  <2>2. ClientType'
    <3>1. client'.listing \in BOOLEAN
      BY <1>3
    <3>2. pending'.kind = "H" => pending'.arg \in ThreadIds \cup {0}
      BY <1>1, <1>2
    <3> QED BY <1>2, <1>3, <3>1, <3>2 DEF IInv, ClientType, protocolVars
  <2> QED BY <2>1, <2>2
<1>8. OnePacket'
  <2>1. inbox' \in {<<p>>, <<Plus, p>>}
    <3>1. CASE inbox = <<>>
      BY <1>2, <3>1, Appended
    <3>2. CASE inbox = <<Plus>>
      BY <1>2, <3>2, Appended
    <3> QED BY <1>5, <3>1, <3>2 DEF Idle
  <2>2. Unread'
    BY <1>1, <1>2, <1>6, <2>1 DEF Unread
  <2>3. inbox' # <<>>
    BY <2>1
  <2> QED BY <1>2, <2>2, <2>3 DEF OnePacket, Read
<1>9. ProgramKnown'
  <2>1. state # "running" /\ (state = "exited" => client.exited)
    BY <1>2, <1>4 DEF IInv, ProgramKnown, Resuming
  <2>2. client.exited => p.kind = "k"
    BY <1>1 DEF IInv, ProgramKnown
  <2>3. p.kind \in Resuming \cup {"k"} => p.object = "" /\ p.kind \notin ListPackets
    BY <1>1 DEF Resuming, ListPackets
  <2> QED BY <1>2, <1>3, <2>1, <2>2, <2>3 DEF IInv, ProgramKnown, debuggerVars
<1>10. ModeAgreed'
  BY <1>1, <1>2, <1>3, <1>4, <1>6 DEF IInv, ModeAgreed, protocolVars
<1>11. BreakpointsKept'
  <2>1. Expected = client.inserted /\ Expected' = client'.inserted
    BY <1>6 DEF Expected
  <2> QED BY <1>1, <1>2, <1>3, <2>1 DEF IInv, BreakpointsKept, debuggerVars
<1>12. ListingSoFar'
  <2>1. CASE client.listing
    BY <1>1, <1>2, <1>3, <1>6, <2>1 DEF IInv, ListingSoFar, debuggerVars, protocolVars, ListPackets
  <2>2. CASE ~client.listing
    <3>1. client.listed = <<>> /\ mLastThreadInfoIndex = 0
      BY <2>2 DEF IInv, ListingSoFar
    <3>2. SubSeq(threadList, 1, 0) = <<>> /\ Len(threadList) \in Nat
      BY SubSeqEmpty DEF IInv, DebuggerType
    <3>3. threadList' = threadList /\ mLastThreadInfoIndex' = mLastThreadInfoIndex
      BY <1>2 DEF debuggerVars, protocolVars
    <3>4. client'.listing <=> pending'.kind \in ListPackets
      BY <1>2, <1>3
    <3>5. 0 <= Len(threadList)
      BY <3>2
    <3>6. client'.listed = SubSeq(threadList, 1, 0) /\ client'.listed = <<>> /\ mLastThreadInfoIndex' = 0
      BY <1>3, <3>1, <3>2, <3>3
    <3> QED BY <1>6, <3>3, <3>4, <3>5, <3>6, Zenon DEF ListingSoFar
  <2> QED BY <2>1, <2>2
<1>13. StopTold' /\ NullOnlyIfStale'
  BY <1>2, <1>6 DEF StopTold, NullOnlyIfStale
<1> QED BY <1>7, <1>8, <1>9, <1>10, <1>11, <1>12, <1>13 DEF IInv

\* The client takes the answer.
LEMMA ReceiveStep ==
  ASSUME IInv, Receive
  PROVE  IInv'
<1>1. /\ answer # NoAnswer
      /\ inbox' = IF client.ack THEN Append(inbox, Plus) ELSE inbox
      /\ pending' = NoPacket /\ answer' = NoAnswer
      /\ UNCHANGED <<debuggerVars, protocolVars, server>>
  BY DEF Receive, Plus
<1>2. DOMAIN client = {"ack", "inserted", "listing", "listed", "object", "got", "exited"}
  BY DEF IInv, ClientType
<1>3. /\ client'.ack = (client.ack /\ pending.kind # "QStartNoAckMode")
      /\ client'.inserted = CASE pending.kind = "Z0" -> client.inserted \cup {pending.arg}
                              [] pending.kind = "z0" -> client.inserted \ {pending.arg}
                              [] OTHER -> client.inserted
      /\ client'.listing = (client.listing /\ answer.text = "m")
      /\ client'.listed = IF client.listing /\ answer.text = "m" THEN client.listed \o answer.data ELSE <<>>
      /\ client'.object = IF answer.text = "m" THEN client.object ELSE ""
      /\ client'.exited = (client.exited \/ answer.text = "W00")
      /\ DOMAIN client' = DOMAIN client
  BY <1>2 DEF Receive
<1>4. Read /\ server # "resuming" /\ server # "crashed"
  BY <1>1 DEF IInv, OnePacket, Idle, Unread
<1>5. pending'.kind = "no packet"
  BY <1>1, Nothing
<1>6. client'.listed = IF client.listing /\ answer.text = "m"
                         THEN SubSeq(threadList, 1, mLastThreadInfoIndex) ELSE <<>>
  <2>1. CASE client.listing /\ answer.text = "m"
    <3> DEFINE n == mLastThreadInfoIndex
    <3>1. /\ n \in 1 .. Len(threadList)
          /\ client.listed = SubSeq(threadList, 1, n - 1)
          /\ answer.data = <<threadList[n]>>
      BY <1>1, <2>1 DEF IInv, ListingSoFar
    <3>2. threadList \in Seq(ThreadIds)
      BY DEF IInv, DebuggerType
    <3> HIDE DEF n
    <3>3. SubSeq(threadList, 1, n - 1) \o <<threadList[n]>> = SubSeq(threadList, 1, n)
      <4>1. 1 \in 1 .. Len(threadList) /\ n \in 1 .. Len(threadList)
        BY <3>1, <3>2
      <4> QED BY <3>2, <4>1, SubSeqRecursiveSecond, Zenon
    <3> QED BY <1>3, <2>1, <3>1, <3>3 DEF n
  <2>2. CASE ~(client.listing /\ answer.text = "m")
    BY <1>3, <2>2
  <2> QED BY <2>1, <2>2
<1>7. DebuggerType'
  BY <1>1 DEF IInv, DebuggerType, debuggerVars, protocolVars
<1>8. ClientType'
  <2>1. client'.listed \in Seq(ThreadIds)
    <3>1. CASE client.listing /\ answer.text = "m"
      <4>1. mLastThreadInfoIndex \in 1 .. Len(threadList) /\ threadList \in Seq(ThreadIds)
        BY <1>1, <3>1 DEF IInv, ListingSoFar, DebuggerType
      <4>2. SubSeq(threadList, 1, mLastThreadInfoIndex) \in Seq(ThreadIds)
        BY <4>1
      <4> QED BY <1>6, <3>1, <4>2
    <3>2. CASE ~(client.listing /\ answer.text = "m")
      BY <1>6, <3>2
    <3> QED BY <3>1, <3>2
  <2> QED BY <1>1, <1>3, <1>5, <2>1 DEF IInv, ClientType, protocolVars
<1>9. OnePacket'
  <2>1. inbox' \in {<<>>, <<Plus>>}
    BY <1>1, <1>4, Appended DEF Read
  <2> QED BY <1>1, <1>4, <1>5, <2>1 DEF OnePacket, Idle, Read
<1>10. ProgramKnown'
  <2>1. state = "exited" => answer.text = "W00" \/ client.exited
    BY <1>4 DEF IInv, ProgramKnown
  <2>2. client'.exited => ~client'.listing /\ client'.object = ""
    BY <1>3 DEF IInv, ProgramKnown
  <2>3. state # "running" /\ (state # "exited" => threadList # <<>>)
    BY <1>4 DEF IInv, ProgramKnown
  <2> QED BY <1>1, <1>3, <1>5, <2>1, <2>2, <2>3 DEF ProgramKnown, debuggerVars, Resuming
<1>11. ModeAgreed'
  BY <1>1, <1>3, <1>5 DEF IInv, ModeAgreed, ClientType, protocolVars
<1>12. BreakpointsKept'
  <2>1. Expected' = Expected
    BY <1>1, <1>3 DEF Expected
  <2> QED BY <1>1, <1>5, <2>1 DEF IInv, BreakpointsKept, debuggerVars
<1>13. ListingSoFar'
  <2>1. client.listing /\ answer.text = "m" => mLastThreadInfoIndex \in 1 .. Len(threadList)
    BY <1>1 DEF IInv, ListingSoFar
  <2>2. ~(client.listing /\ answer.text = "m") => mLastThreadInfoIndex = 0
    BY <1>1 DEF IInv, ListingSoFar
  <2>3. Len(threadList) \in Nat /\ mLastThreadInfoIndex \in Nat
    BY DEF IInv, DebuggerType
  <2>4. threadList' = threadList /\ mLastThreadInfoIndex' = mLastThreadInfoIndex
    BY <1>1 DEF debuggerVars, protocolVars
  <2>5. CASE client.listing /\ answer.text = "m"
    <3>1. client'.listing /\ client'.listed = SubSeq(threadList, 1, mLastThreadInfoIndex)
      BY <1>3, <1>6, <2>5
    <3>2. mLastThreadInfoIndex <= Len(threadList)
      BY <2>1, <2>3, <2>5
    <3>3. pending'.kind \notin ListPackets
      BY <1>5 DEF ListPackets
    <3> QED BY <1>1, <2>4, <3>1, <3>2, <3>3, Zenon DEF ListingSoFar
  <2>6. CASE ~(client.listing /\ answer.text = "m")
    <3>1. ~client'.listing /\ client'.listed = <<>> /\ mLastThreadInfoIndex' = 0
      BY <1>3, <1>6, <2>2, <2>4, <2>6
    <3>2. pending'.kind \notin ListPackets
      BY <1>5 DEF ListPackets
    <3> QED BY <3>1, <3>2, Zenon DEF ListingSoFar
  <2> QED BY <2>5, <2>6
<1>14. StopTold' /\ NullOnlyIfStale'
  BY <1>1, <1>4, <1>5 DEF StopTold, NullOnlyIfStale
<1> QED BY <1>7, <1>8, <1>9, <1>10, <1>11, <1>12, <1>13, <1>14 DEF IInv

\* The packet that changes the mode is answered in the mode before.
LEMMA NoAckStep ==
  ASSUME IInv, ReadPacket, ProcessQStartNoAckMode(pending)
  PROVE  IInv'
<1>1. /\ Unread /\ server = "reading" /\ state = "stopped" /\ pending.kind = "QStartNoAckMode"
      /\ inbox' = <<>> /\ pending' = pending /\ client' = client
  BY ReadFacts DEF ProcessQStartNoAckMode
<1>2. /\ mAck' = FALSE /\ server' = server /\ answer' = Response(TRUE, "OK", <<>>)
      /\ UNCHANGED <<debuggerVars, mCurrentThreadIndex, mLastThreadInfoIndex>>
  BY DEF ProcessQStartNoAckMode, Reply, LastAck
<1>3. answer'.ack = TRUE /\ answer' # NoAnswer
  <2>1. answer'.text = "OK" /\ answer'.ack = TRUE
    BY <1>2 DEF Response
  <2> QED BY <2>1, Nothing
<1>4. answer = NoAnswer /\ pending # NoPacket
  BY <1>1, Nothing DEF Unread
<1>5. DebuggerType' /\ ClientType'
  BY <1>1, <1>2 DEF IInv, DebuggerType, ClientType, debuggerVars
<1>6. OnePacket'
  BY <1>1, <1>2, <1>3 DEF OnePacket, Read
<1>7. ProgramKnown'
  BY <1>1, <1>2 DEF IInv, ProgramKnown, debuggerVars
<1>8. ModeAgreed'
  BY <1>1, <1>2, <1>3 DEF IInv, ModeAgreed
<1>9. BreakpointsKept'
  <2>1. Expected = client.inserted /\ Expected' = client'.inserted
    BY <1>1, <1>4 DEF Expected
  <2> QED BY <1>1, <1>2, <2>1 DEF IInv, BreakpointsKept, debuggerVars
<1>10. ListingSoFar'
  <2>1. ~client.listing
    BY <1>1, <1>4 DEF IInv, ListingSoFar, ListPackets
  <2> QED BY <1>1, <1>2, <2>1 DEF IInv, ListingSoFar, debuggerVars
<1>11. StopTold' /\ NullOnlyIfStale'
  BY <1>1, <1>2 DEF StopTold, NullOnlyIfStale
<1> QED BY <1>5, <1>6, <1>7, <1>8, <1>9, <1>10, <1>11 DEF IInv

\* One more thread is listed, or the listing ends.
LEMMA ThreadInfoStep ==
  ASSUME IInv, ReadPacket, ProcessThreadInfo(pending)
  PROVE  IInv'
<1>1. /\ Unread /\ server = "reading" /\ state = "stopped" /\ pending.kind \in ListPackets
      /\ inbox' = <<>> /\ pending' = pending /\ client' = client
  BY ReadFacts DEF ProcessThreadInfo, ListPackets
<1>2. server' = server /\ UNCHANGED <<debuggerVars, mAck, mCurrentThreadIndex>>
  BY DEF ProcessThreadInfo, Reply
<1>3. answer = NoAnswer
  BY <1>1 DEF Unread
<1>4. /\ client.listing
      /\ threadList \in Seq(ThreadIds) /\ mLastThreadInfoIndex \in Nat
      /\ mLastThreadInfoIndex <= Len(threadList)
      /\ client.listed = SubSeq(threadList, 1, mLastThreadInfoIndex)
  BY <1>1, <1>3 DEF IInv, ListingSoFar, DebuggerType
<1>5. answer'.ack = mAck /\ answer' # NoAnswer /\ mLastThreadInfoIndex' \in Nat /\ ListingSoFar'
  <2>1. CASE mLastThreadInfoIndex < Len(threadList)
    <3>1. /\ answer' = Response(mAck, "m", <<threadList[mLastThreadInfoIndex + 1]>>)
          /\ mLastThreadInfoIndex' = mLastThreadInfoIndex + 1
      BY <2>1 DEF ProcessThreadInfo, Reply, GetThreadAtIndex
    <3>2. answer'.ack = mAck /\ answer'.text = "m" /\ answer'.data = <<threadList[mLastThreadInfoIndex + 1]>>
      BY <3>1 DEF Response
    <3>3. /\ mLastThreadInfoIndex' \in 1 .. Len(threadList)
          /\ mLastThreadInfoIndex' - 1 = mLastThreadInfoIndex
      BY <1>4, <2>1, <3>1
    <3>4. answer' # NoAnswer
      BY <3>2, Nothing
    <3>5. threadList' = threadList /\ client' = client /\ pending' = pending
      BY <1>1, <1>2 DEF debuggerVars
    <3>6. ListingSoFar'
      BY <1>1, <1>4, <3>1, <3>2, <3>3, <3>4, <3>5, Zenon DEF ListingSoFar
    <3> QED BY <3>2, <3>3, <3>4, <3>6
  <2>2. CASE ~(mLastThreadInfoIndex < Len(threadList))
    <3>1. answer' = Response(mAck, "l", <<>>) /\ mLastThreadInfoIndex' = 0
      BY <2>2 DEF ProcessThreadInfo, Reply, IndexReset
    <3>2. answer'.ack = mAck /\ answer'.text = "l"
      BY <3>1 DEF Response
    <3>3. answer' # NoAnswer
      BY <3>2, Nothing
    <3>4. mLastThreadInfoIndex = Len(threadList)
      BY <1>4, <2>2
    <3>5. client.listed = threadList
      BY <1>4, <3>4, SubSeqFull
    <3>6. threadList' = threadList
      BY <1>2 DEF debuggerVars
    <3>7. ListingSoFar'
      BY <1>1, <1>4, <3>1, <3>2, <3>3, <3>5, <3>6, Zenon DEF ListingSoFar
    <3> QED BY <3>1, <3>2, <3>3, <3>7
  <2> QED BY <2>1, <2>2
<1>6. DebuggerType' /\ ClientType'
  BY <1>1, <1>2, <1>5 DEF IInv, DebuggerType, ClientType, debuggerVars
<1>7. OnePacket'
  BY <1>1, <1>2, <1>5 DEF OnePacket, Read, ListPackets
<1>8. ProgramKnown'
  BY <1>1, <1>2 DEF IInv, ProgramKnown, debuggerVars
<1>9. ModeAgreed'
  BY <1>1, <1>2, <1>5 DEF IInv, ModeAgreed, ListPackets
<1>10. BreakpointsKept'
  <2>1. Expected = client.inserted /\ Expected' = client'.inserted
    BY <1>1, <1>3 DEF Expected, ListPackets
  <2> QED BY <1>1, <1>2, <2>1 DEF IInv, BreakpointsKept, debuggerVars
<1>11. StopTold' /\ NullOnlyIfStale'
  BY <1>1, <1>2 DEF StopTold, NullOnlyIfStale, ListPackets
<1> QED BY <1>5, <1>6, <1>7, <1>8, <1>9, <1>10, <1>11 DEF IInv

\* A breakpoint is inserted or removed.
LEMMA BreakpointStep ==
  ASSUME IInv, ReadPacket, Process_z(pending) \/ Process_Z(pending)
  PROVE  IInv'
<1>1. /\ Unread /\ server = "reading" /\ state = "stopped" /\ pending.kind \in {"z0", "Z0"}
      /\ inbox' = <<>> /\ pending' = pending /\ client' = client
  BY ReadFacts DEF Process_z, Process_Z
<1>2. /\ server' = server /\ answer' = Response(mAck, "OK", <<>>)
      /\ UNCHANGED <<state, threadList, reason, protocolVars>>
  BY DEF Process_z, Process_Z, Reply, RemoveSoftwareBreakpoint, CreateSoftwareBreakpoint
<1>3. answer'.ack = mAck /\ answer'.text = "OK"
  BY <1>2 DEF Response
<1>4. answer' # NoAnswer
  BY <1>3, Nothing
<1>5. answer = NoAnswer /\ pending # NoPacket
  BY <1>1, Nothing DEF Unread
<1>6. DebuggerType' /\ ClientType'
  BY <1>1, <1>2 DEF IInv, DebuggerType, ClientType, protocolVars
<1>7. OnePacket'
  BY <1>1, <1>2, <1>4 DEF OnePacket, Read
<1>8. ProgramKnown'
  BY <1>1, <1>2 DEF IInv, ProgramKnown
<1>9. ModeAgreed'
  BY <1>1, <1>2, <1>3 DEF IInv, ModeAgreed, protocolVars
<1>10. BreakpointsKept'
  <2>1. /\ installed = {<<mBreakpoints[a], a>> : a \in DOMAIN mBreakpoints}
        /\ DOMAIN mBreakpoints = client.inserted
        /\ pending.kind = "Z0" => pending.arg \notin client.inserted
    BY <1>5 DEF IInv, BreakpointsKept, Expected
  <2>2. CASE pending.kind = "Z0"
    <3>1. CreateSoftwareBreakpoint(pending.arg)
      BY <2>2 DEF Process_z, Process_Z
    <3>2. DOMAIN mBreakpoints' = client.inserted \cup {pending.arg}
      BY <2>1, <3>1 DEF CreateSoftwareBreakpoint
    <3>3. installed' = {<<mBreakpoints'[a], a>> : a \in DOMAIN mBreakpoints'}
      BY <2>1, <2>2, <3>1 DEF CreateSoftwareBreakpoint
    <3>4. Expected' = client.inserted \cup {pending.arg}
      BY <1>1, <1>4, <2>2 DEF Expected
    <3> QED BY <1>1, <2>1, <3>2, <3>3, <3>4 DEF BreakpointsKept
  <2>3. CASE pending.kind = "z0"
    <3>1. RemoveSoftwareBreakpoint(pending.arg)
      BY <2>3 DEF Process_z, Process_Z
    <3>2. DOMAIN mBreakpoints' = client.inserted \ {pending.arg}
      BY <2>1, <3>1 DEF RemoveSoftwareBreakpoint
    <3>3. installed' = {<<mBreakpoints'[a], a>> : a \in DOMAIN mBreakpoints'}
      BY <2>1, <3>1 DEF RemoveSoftwareBreakpoint, Uninstalled
    <3>4. Expected' = client.inserted \ {pending.arg}
      BY <1>1, <1>4, <2>3 DEF Expected
    <3> QED BY <1>1, <2>3, <3>2, <3>3, <3>4 DEF BreakpointsKept
  <2> QED BY <1>1, <2>2, <2>3
<1>11. ListingSoFar'
  <2>1. ~client.listing
    BY <1>1, <1>5 DEF IInv, ListingSoFar, ListPackets
  <2> QED BY <1>1, <1>2, <2>1 DEF IInv, ListingSoFar, protocolVars
<1>12. StopTold' /\ NullOnlyIfStale'
  BY <1>1, <1>2 DEF StopTold, NullOnlyIfStale
<1> QED BY <1>6, <1>7, <1>8, <1>9, <1>10, <1>11, <1>12 DEF IInv

\* The program is resumed; the answer waits until it stops.
LEMMA ResumeStep ==
  ASSUME IInv, ReadPacket, Process_c(pending) \/ Process_s(pending)
  PROVE  IInv'
<1>1. /\ Unread /\ server = "reading" /\ state = "stopped" /\ pending.kind \in Resuming
      /\ inbox' = <<>> /\ pending' = pending /\ client' = client
  BY ReadFacts DEF Process_c, Process_s, Resuming
<1>2. answer' = answer /\ UNCHANGED protocolVars
  BY DEF Process_c, Process_s
<1>3. \/ server' = "terminated" /\ UNCHANGED debuggerVars
      \/ server' = "resuming" /\ Resume
  BY DEF Process_c, Process_s
<1>4. CASE server' = "terminated" /\ UNCHANGED debuggerVars
  BY <1>1, <1>2, <1>4, ServerEnds DEF protocolVars
<1>5. CASE server' = "resuming" /\ Resume
  <2>1. answer = NoAnswer /\ pending # NoPacket
    BY <1>1, Nothing DEF Unread
  <2>2. state' = "running" /\ UNCHANGED <<threadList, reason, mBreakpoints, installed>>
    BY <1>5 DEF Resume
  <2>3. DebuggerType' /\ ClientType'
    BY <1>1, <1>2, <2>2 DEF IInv, DebuggerType, ClientType, protocolVars
  <2>4. OnePacket'
    BY <1>1, <1>2, <1>5, <2>1 DEF OnePacket, Read, Unread
  <2>5. ProgramKnown'
    BY <1>1, <1>5, <2>2 DEF IInv, ProgramKnown
  <2>6. ModeAgreed'
    BY <1>1, <1>2 DEF IInv, ModeAgreed, protocolVars
  <2>7. BreakpointsKept'
    BY <1>1, <1>2, <2>2 DEF IInv, BreakpointsKept, Expected
  <2>8. ListingSoFar'
    BY <1>1, <1>2, <2>2 DEF IInv, ListingSoFar, protocolVars
  <2>9. StopTold' /\ NullOnlyIfStale'
    BY <1>2, <1>5, <2>1 DEF StopTold, NullOnlyIfStale
  <2> QED BY <2>3, <2>4, <2>5, <2>6, <2>7, <2>8, <2>9 DEF IInv
<1> QED BY <1>3, <1>4, <1>5

\* A packet that looks at a thread crashes the server when it is not there.
LEMMA ThreadMissing ==
  ASSUME IInv, ReadPacket, state = "stopped", Crash, mCurrentThreadIndex # 0,
         pending.kind = "qC" \/ mCurrentThreadIndex \notin Range(threadList),
         UNCHANGED <<debuggerVars, protocolVars>>
  PROVE  IInv'
<1>1. /\ Unread /\ server = "reading"
      /\ inbox' = <<>> /\ pending' = pending /\ client' = client
  BY ReadFacts
<1>2. server' = "crashed" /\ answer' = answer
  BY DEF Crash
<1>3. NullOnlyIfStale'
  BY <1>1 DEF NullOnlyIfStale, debuggerVars, protocolVars
<1>4. Read' /\ answer' = NoAnswer
  BY <1>1, <1>2 DEF Read, Unread
<1> QED BY <1>1, <1>2, <1>3, <1>4, ServerEnds DEF protocolVars

\* A packet is read and handled.
LEMMA ReadStep ==
  ASSUME IInv, ReadPacket
  PROVE  IInv'
<1>1. /\ Unread /\ server = "reading" /\ ProcessPacket(pending)
      /\ inbox' = <<>> /\ pending' = pending /\ client' = client
      /\ pending.kind # "k" => state = "stopped"
  BY ReadFacts
<1>2. mCurrentThreadIndex \in ThreadIds \cup {0} /\ (state = "stopped" => threadList # <<>>)
  BY DEF IInv, DebuggerType, ProgramKnown
<1>3. ASSUME NEW text, NEW data, text # "no answer"
      PROVE  Response(mAck, text, data) # NoAnswer /\ Response(mAck, text, data).ack = mAck
  <2>1. Response(mAck, text, data).text = text /\ Response(mAck, text, data).ack = mAck
    BY DEF Response
  <2> QED BY <1>3, <2>1, Nothing
<1>4. ASSUME NEW text, NEW data, Reply(Response(mAck, text, data)), text # "no answer",
             pending.kind \notin ListPackets \cup Resuming \cup {"QStartNoAckMode", "Z0", "z0", "?", "k"},
             UNCHANGED <<debuggerVars, mAck, mLastThreadInfoIndex>>,
             mCurrentThreadIndex' \in ThreadIds \cup {0}
      PROVE  IInv'
  <2>1. answer' # NoAnswer /\ answer'.ack = mAck /\ server' = server
    BY <1>3, <1>4 DEF Reply
  <2> QED BY <1>1, <1>4, <2>1, QuickAnswer
<1> USE DEF protocolVars
<1>5. CASE ProcessFixed(pending)
  <2>1. Reply(Response(mAck, FixedAnswer(pending.kind), <<>>)) /\ pending.kind \in FixedPackets
    BY <1>5 DEF ProcessFixed, FixedReply
  <2>2. FixedAnswer(pending.kind) # "no answer"
    BY DEF FixedAnswer
  <2>3. pending.kind \notin ListPackets \cup Resuming \cup {"QStartNoAckMode", "Z0", "z0", "?", "k"}
    BY <2>1 DEF FixedPackets, ListPackets, Resuming
  <2>4. UNCHANGED <<debuggerVars, protocolVars>>
    BY <1>5 DEF ProcessFixed
  <2> QED BY <1>2, <1>4, <2>1, <2>2, <2>3, <2>4
<1>6. CASE ProcessQStartNoAckMode(pending)
  BY <1>6, NoAckStep
<1>7. CASE ProcessH(pending)
  <2>1. /\ Reply(Response(mAck, "OK", <<>>)) /\ pending.kind = "H"
        /\ mCurrentThreadIndex' = pending.arg /\ UNCHANGED <<debuggerVars, mAck, mLastThreadInfoIndex>>
    BY <1>7 DEF ProcessH
  <2>2. pending.arg \in ThreadIds \cup {0}
    BY <2>1 DEF IInv, ClientType
  <2>3. pending.kind \notin ListPackets \cup Resuming \cup {"QStartNoAckMode", "Z0", "z0", "?", "k"}
    BY <2>1 DEF ListPackets, Resuming
  <2> QED BY <1>4, <2>1, <2>2, <2>3
<1>8. CASE ProcessThreadInfo(pending)
  BY <1>8, ThreadInfoStep
<1>9. CASE Process_qC(pending)
  <2>1. pending.kind = "qC" /\ state = "stopped" /\ UNCHANGED <<debuggerVars, protocolVars>>
    BY <1>1, <1>9 DEF Process_qC
  <2>2. CASE GetThreadAtIndex(mCurrentThreadIndex) = NoThread
    <3>1. mCurrentThreadIndex # 0
      <4>1. mCurrentThreadIndex >= Len(threadList) /\ Len(threadList) \in Nat \ {0}
        BY <1>2, <2>1, <2>2, ThreadFacts, DebuggerAssumption DEF IInv, DebuggerType
      <4> QED BY <4>1
    <3>2. Crash
      BY <1>9, <2>2 DEF Process_qC
    <3> QED BY <2>1, <3>1, <3>2, ThreadMissing
  <2>3. CASE GetThreadAtIndex(mCurrentThreadIndex) # NoThread
    <3>1. Reply(Response(mAck, "QC", <<GetThreadAtIndex(mCurrentThreadIndex)>>))
      BY <1>9, <2>3 DEF Process_qC
    <3>2. pending.kind \notin ListPackets \cup Resuming \cup {"QStartNoAckMode", "Z0", "z0", "?", "k"}
      BY <2>1 DEF ListPackets, Resuming
    <3> QED BY <1>2, <1>4, <2>1, <3>1, <3>2
  <2> QED BY <2>2, <2>3
<1>10. CASE ProcessRegisters(pending)
  <2>1. /\ pending.kind \in {"g", "G", "p"} /\ state = "stopped"
        /\ UNCHANGED <<debuggerVars, protocolVars>>
    BY <1>1, <1>10 DEF ProcessRegisters
  <2>2. CASE ~HasRegisters(mCurrentThreadIndex)
    <3>1. ThreadFor(mCurrentThreadIndex) = NoThread /\ Crash
      BY <1>10, <2>2 DEF HasRegisters, ProcessRegisters
    <3>2. mCurrentThreadIndex # 0 /\ mCurrentThreadIndex \notin Range(threadList)
      BY <1>2, <2>1, <3>1, ThreadFacts DEF IInv
    <3> QED BY <2>1, <3>1, <3>2, ThreadMissing
  <2>3. CASE HasRegisters(mCurrentThreadIndex)
    <3>1. PICK data \in RegisterData :
            Reply(Response(mAck, IF pending.kind = "G" THEN "OK" ELSE IF data = "" THEN "E01" ELSE data, <<>>))
      BY <1>10, <2>3 DEF ProcessRegisters
    <3>2. (IF pending.kind = "G" THEN "OK" ELSE IF data = "" THEN "E01" ELSE data) # "no answer"
      BY DEF RegisterData
    <3>3. pending.kind \notin ListPackets \cup Resuming \cup {"QStartNoAckMode", "Z0", "z0", "?", "k"}
      BY <2>1 DEF ListPackets, Resuming
    <3> QED BY <1>2, <1>4, <2>1, <3>1, <3>2, <3>3
  <2> QED BY <2>2, <2>3
<1>11. CASE ProcessMemory(pending)
  <2>1. pending.kind \in {"m", "x", "M"} /\ UNCHANGED <<debuggerVars, protocolVars>>
    BY <1>11 DEF ProcessMemory
  <2>2. PICK data \in MemoryData, zero \in BOOLEAN :
          Reply(Response(mAck, IF zero THEN "OK" ELSE IF data = "" THEN "E01" ELSE data, <<>>))
    BY <1>11 DEF ProcessMemory
  <2>3. (IF zero THEN "OK" ELSE IF data = "" THEN "E01" ELSE data) # "no answer"
    BY DEF MemoryData
  <2>4. pending.kind \notin ListPackets \cup Resuming \cup {"QStartNoAckMode", "Z0", "z0", "?", "k"}
    BY <2>1 DEF ListPackets, Resuming
  <2> QED BY <1>2, <1>4, <2>1, <2>2, <2>3, <2>4
<1>12. CASE ProcessStatus(pending)
  <2>1. pending.kind = "?" /\ ReplyStopReason /\ UNCHANGED <<debuggerVars, protocolVars>>
    BY <1>12 DEF ProcessStatus
  <2>2. answer = NoAnswer /\ state = "stopped"
    BY <1>1, <2>1 DEF Unread
  <2> QED BY <1>1, <2>1, <2>2, StopReplyStep
<1>13. CASE ProcessXfer(pending)
  <2>1. pending.kind = "qXfer" /\ UNCHANGED <<debuggerVars, protocolVars>>
    BY <1>13 DEF ProcessXfer
  <2>2. PICK text \in {"", "m", "l"} : \E data : Reply(Response(mAck, text, data))
    BY <1>13 DEF ProcessXfer
  <2>3. PICK data : Reply(Response(mAck, text, data))
    BY <2>2
  <2>4. pending.kind \notin ListPackets \cup Resuming \cup {"QStartNoAckMode", "Z0", "z0", "?", "k"}
    BY <2>1 DEF ListPackets, Resuming
  <2> QED BY <1>2, <1>4, <2>1, <2>3, <2>4
<1>14. CASE Process_z(pending) \/ Process_Z(pending)
  BY <1>14, BreakpointStep
<1>15. CASE Process_c(pending) \/ Process_s(pending)
  BY <1>15, ResumeStep
<1>16. CASE Process_vFile(pending)
  <2>1. /\ pending.kind \in {"vFile:open", "vFile:close", "vFile:pread"}
        /\ UNCHANGED <<debuggerVars, mAck, mCurrentThreadIndex, mLastThreadInfoIndex>>
    BY <1>16 DEF Process_vFile
  <2>2. \/ \E text \in {"F1", "F-1", "F0", "F"} : Reply(Response(mAck, text, <<>>))
        \/ server' = "ended" /\ UNCHANGED answer
    BY <1>16 DEF Process_vFile
  <2>3. CASE \E text \in {"F1", "F-1", "F0", "F"} : Reply(Response(mAck, text, <<>>))
    <3>1. PICK text \in {"F1", "F-1", "F0", "F"} : Reply(Response(mAck, text, <<>>))
      BY <2>3
    <3>2. pending.kind \notin ListPackets \cup Resuming \cup {"QStartNoAckMode", "Z0", "z0", "?", "k"}
      BY <2>1 DEF ListPackets, Resuming
    <3> QED BY <1>2, <1>4, <2>1, <3>1, <3>2
  <2>4. CASE server' = "ended" /\ UNCHANGED answer
    <3>1. state = "stopped"
      BY <1>1, <2>1
    <3> QED BY <1>1, <2>1, <2>4, <3>1, ServerEnds
  <2> QED BY <2>2, <2>3, <2>4
<1>17. CASE Process_k(pending)
  <2>1. server' = "killed" /\ UNCHANGED <<debuggerVars, mAck, mCurrentThreadIndex, mLastThreadInfoIndex, answer>>
    BY <1>17 DEF Process_k
  <2>2. state # "running"
    BY <1>1 DEF IInv, ProgramKnown
  <2> QED BY <1>1, <2>1, <2>2, ServerEnds
<1> QED BY <1>1, <1>5, <1>6, <1>7, <1>8, <1>9, <1>10, <1>11, <1>12, <1>13, <1>14, <1>15, <1>16, <1>17
        DEF ProcessPacket

\* A "+" is taken from the queue.
LEMMA ReadAckStep ==
  ASSUME IInv, ReadAck
  PROVE  IInv'
<1>1. /\ inbox # <<>> /\ Head(inbox).kind = "+" /\ inbox' = Tail(inbox) /\ server = "reading"
      /\ UNCHANGED <<debuggerVars, protocolVars, server, pending, answer, client>>
  BY DEF ReadAck
<1>2. \/ inbox = <<Plus>> /\ Idle
      \/ inbox = <<Plus, pending>> /\ Unread
  <2>1. CASE Idle
    BY <1>1, <2>1 DEF Idle
  <2>2. CASE Unread
    <3>1. inbox # <<pending>>
      <4>1. ASSUME inbox = <<pending>> PROVE Head(inbox) = pending
        BY <4>1
      <4> QED BY <1>1, <2>2, <4>1 DEF Unread
    <3> QED BY <2>2, <3>1 DEF Unread
  <2>3. CASE Read
    BY <1>1, <2>3 DEF Read
  <2> QED BY <2>1, <2>2, <2>3 DEF IInv, OnePacket
<1>3. \/ inbox' = <<>> /\ Idle
      \/ inbox' = <<pending>> /\ Unread
  <2>1. CASE inbox = <<Plus>> /\ Idle
    BY <1>1, <2>1
  <2>2. CASE inbox = <<Plus, pending>> /\ Unread
    <3>1. Tail(<<Plus, pending>>) = <<pending>>
      <4>1. <<Plus, pending>> = <<Plus>> \o <<pending>>
        OBVIOUS
      <4> QED OBVIOUS
    <3> QED BY <1>1, <2>2, <3>1
  <2> QED BY <1>2, <2>1, <2>2
<1>4. OnePacket'
  <2>1. (Idle \/ Unread)'
    BY <1>1, <1>3 DEF Idle, Unread
  <2>2. ~Read'
    <3>1. CASE inbox' = <<>> /\ Idle
      <4>1. pending'.kind = "no packet"
        BY <1>1, <3>1, Nothing DEF Idle
      <4> QED BY <4>1 DEF Read
    <3>2. CASE inbox' = <<pending>>
      <4>1. inbox' # <<>>
        BY <3>2
      <4> QED BY <4>1 DEF Read
    <3> QED BY <1>3, <3>1, <3>2
  <2> QED BY <1>1, <2>1, <2>2 DEF OnePacket
<1>5. ProgramKnown'
  <2>1. ~Read
    BY <1>1 DEF Read
  <2> QED BY <1>1, <2>1 DEF IInv, ProgramKnown, debuggerVars
<1>6. DebuggerType' /\ ClientType'
  BY <1>1 DEF IInv, DebuggerType, ClientType, debuggerVars, protocolVars
<1>7. ModeAgreed' /\ NullOnlyIfStale'
  BY <1>1 DEF IInv, ModeAgreed, NullOnlyIfStale, protocolVars
<1>8. BreakpointsKept'
  BY <1>1 DEF IInv, BreakpointsKept, Expected, debuggerVars
<1>9. ListingSoFar'
  BY <1>1 DEF IInv, ListingSoFar, debuggerVars, protocolVars
<1>10. StopTold'
  BY <1>1 DEF IInv, StopTold, ThreadFor, GetThreadAtIndex, FindThreadByID, debuggerVars, protocolVars
<1> QED BY <1>4, <1>5, <1>6, <1>7, <1>8, <1>9, <1>10 DEF IInv

\* The program runs on: threads start, end and stop, and it exits.
LEMMA RunningStep ==
  ASSUME IInv, Running
  PROVE  IInv'
<1>1. /\ state = "running" /\ ProgramStep
      /\ UNCHANGED <<protocolVars, server, clientVars, mBreakpoints, installed>>
  BY DEF Running, ProgramStep, ThreadStarts, ThreadEnds, Stops, Exits
<1>2. server = "resuming" /\ Read /\ answer = NoAnswer /\ pending.kind \in Resuming
  BY <1>1 DEF IInv, ProgramKnown, OnePacket
<1>3. ~client.listing
  BY <1>2 DEF IInv, ProgramKnown
<1>4. threadList \in Seq(ThreadIds) /\ threadList # <<>>
  BY <1>1 DEF IInv, DebuggerType, ProgramKnown
<1>5. /\ state' \in {"stopped", "running", "exited"}
      /\ threadList' \in Seq(ThreadIds)
      /\ reason' \in [ThreadIds -> StopReasons \cup {"none"}]
      /\ state' # "exited" => threadList' # <<>>
  <2>1. reason \in [ThreadIds -> StopReasons \cup {"none"}]
    BY DEF IInv, DebuggerType
  <2>2. CASE ThreadStarts
    BY <1>1, <1>4, <2>1, <2>2 DEF ThreadStarts
  <2>3. CASE ThreadEnds
    <3>1. PICK i \in DOMAIN threadList : threadList' = RemoveAt(threadList, i)
      BY <2>3 DEF ThreadEnds
    <3>2. i \in 1 .. Len(threadList) /\ Len(threadList) \in Nat /\ Len(threadList) > 1
      BY <1>4, <2>3 DEF ThreadEnds
    <3> DEFINE a == SubSeq(threadList, 1, i - 1)
               b == SubSeq(threadList, i + 1, Len(threadList))
    <3>3. a \in Seq(ThreadIds) /\ Len(a) = i - 1
      BY <1>4, <3>2
    <3>4. b \in Seq(ThreadIds) /\ Len(b) = Len(threadList) - i
      BY <1>4, <3>2
    <3>5. threadList' = a \o b
      BY <3>1 DEF RemoveAt
    <3> HIDE DEF a, b
    <3>6. a \o b \in Seq(ThreadIds) /\ Len(a \o b) = Len(threadList) - 1
      BY <3>2, <3>3, <3>4
    <3>7. Len(threadList') # 0
      BY <3>2, <3>5, <3>6
    <3> QED BY <1>1, <2>1, <2>3, <3>5, <3>6, <3>7 DEF ThreadEnds
  <2>4. CASE Stops
    BY <1>4, <2>4 DEF Stops
  <2>5. CASE Exits
    BY <2>1, <2>5 DEF Exits
  <2> QED BY <1>1, <2>2, <2>3, <2>4, <2>5 DEF ProgramStep
<1> USE DEF clientVars, protocolVars
<1>6. DebuggerType' /\ ClientType'
  BY <1>1, <1>5 DEF IInv, DebuggerType, ClientType
<1>7. OnePacket'
  BY <1>1, <1>2 DEF OnePacket, Read
<1>8. ProgramKnown'
  BY <1>1, <1>2, <1>5 DEF IInv, ProgramKnown
<1>9. ModeAgreed'
  BY <1>1 DEF IInv, ModeAgreed
<1>10. BreakpointsKept'
  BY <1>1 DEF IInv, BreakpointsKept, Expected
<1>11. ListingSoFar'
  BY <1>1, <1>3 DEF IInv, ListingSoFar
<1>12. StopTold' /\ NullOnlyIfStale'
  BY <1>1, <1>2 DEF StopTold, NullOnlyIfStale
<1> QED BY <1>6, <1>7, <1>8, <1>9, <1>10, <1>11, <1>12 DEF IInv

\* Every step of the client, of the server and of the program preserves the
\* invariant.
THEOREM ServerInvariance == Spec => []IInv
<1>1. ASSUME Init PROVE IInv
  <2>0. <<Main>> \in Seq(ThreadIds) /\ <<>> \in Seq(ThreadIds) /\ DOMAIN <<>> = {}
    BY DebuggerAssumption
  <2> USE <1>1 DEF Init, DebuggerInit
  <2>1. DebuggerType
    <3>1. threadList \in Seq(ThreadIds)
      BY <2>0
    <3>2. reason \in [ThreadIds -> StopReasons \cup {"none"}]
      OBVIOUS
    <3> QED BY <3>1, <3>2 DEF DebuggerType
  <2>2. ClientType
    <3>1. DOMAIN client = {"ack", "inserted", "listing", "listed", "object", "got", "exited"}
      OBVIOUS
    <3>2. client.listed \in Seq(ThreadIds)
      BY <2>0
    <3> QED BY <3>1, <3>2, Nothing DEF ClientType
  <2>3. OnePacket
    BY Nothing DEF OnePacket, Idle, Read
  <2>4. ProgramKnown
    BY Nothing DEF ProgramKnown, Resuming
  <2>5. ModeAgreed
    BY Nothing DEF ModeAgreed
  <2>6. BreakpointsKept
    <3>1. DOMAIN mBreakpoints = {}
      BY <2>0
    <3> QED BY <3>1, Nothing DEF BreakpointsKept, Expected
  <2>7. ListingSoFar
    BY Nothing DEF ListingSoFar, ListPackets
  <2>8. StopTold /\ NullOnlyIfStale
    BY DEF StopTold, NullOnlyIfStale
  <2> QED BY <2>1, <2>2, <2>3, <2>4, <2>5, <2>6, <2>7, <2>8 DEF IInv
<1>2. ASSUME IInv, [Next]_vars PROVE IInv'
  <2>1. CASE \E p \in NextPackets : Send(p)
    BY <1>2, <2>1, SendStep
  <2>2. CASE Receive
    BY <1>2, <2>2, ReceiveStep
  <2>3. CASE ReadPacket
    BY <1>2, <2>3, ReadStep
  <2>4. CASE ReadAck
    BY <1>2, <2>4, ReadAckStep
  <2>5. CASE FinishResume
    <3>1. /\ server = "resuming" /\ state # "running" /\ ReplyStopReason /\ inbox' = inbox
          /\ UNCHANGED <<debuggerVars, protocolVars, pending, client>>
      BY <2>5 DEF FinishResume
    <3>2. Read /\ answer = NoAnswer /\ pending.kind \in Resuming
      BY <1>2, <3>1 DEF IInv, OnePacket
    <3>3. inbox' = <<>>
      BY <3>1, <3>2 DEF Read
    <3> QED BY <1>2, <3>1, <3>2, <3>3, StopReplyStep
  <2>6. CASE Disconnect \/ Signalled
    <3>1. /\ server \in {"reading", "killed", "ended"} /\ server' \in {"ended", "stopped"}
          /\ UNCHANGED <<debuggerVars, protocolVars, clientVars>>
      BY <2>6 DEF Disconnect, Signalled
    <3>2. state # "running"
      BY <1>2, <3>1 DEF IInv, ProgramKnown
    <3> QED BY <1>2, <3>1, <3>2, ServerEnds DEF protocolVars, clientVars
  <2>7. CASE Running
    BY <1>2, <2>7, RunningStep
  <2>8. CASE UNCHANGED vars
    <3> USE <2>8 DEF vars, debuggerVars, protocolVars, clientVars
    <3>1. DebuggerType' /\ ClientType'
      BY <1>2 DEF IInv, DebuggerType, ClientType
    <3>2. OnePacket' /\ ProgramKnown'
      BY <1>2 DEF IInv, OnePacket, Idle, Unread, Read, ProgramKnown
    <3>3. ModeAgreed' /\ BreakpointsKept'
      BY <1>2 DEF IInv, ModeAgreed, BreakpointsKept, Expected
    <3>4. ListingSoFar'
      BY <1>2 DEF IInv, ListingSoFar
    <3>5. StopTold' /\ NullOnlyIfStale'
      BY <1>2 DEF IInv, StopTold, NullOnlyIfStale, ThreadFor, GetThreadAtIndex, FindThreadByID
    <3> QED BY <3>1, <3>2, <3>3, <3>4, <3>5 DEF IInv
  <2> QED BY <1>2, <2>1, <2>2, <2>3, <2>4, <2>5, <2>6, <2>7, <2>8 DEF Next, ServerStep
<1> QED BY <1>1, <1>2, PTL DEF Spec

\* Between two packets the target and the server's map have the breakpoints
\* the client has inserted: createSoftwareBreakpoint and
\* removeSoftwareBreakpoint, over any sequence of Z0 and z0.
THEOREM BreakpointsAlwaysAgree == Spec => []BreakpointsAgree
<1>1. ASSUME IInv PROVE BreakpointsAgree
  <2>1. SUFFICES ASSUME pending = NoPacket
                 PROVE  /\ {b[2] : b \in installed} = client.inserted
                        /\ installed = {<<mBreakpoints[a], a>> : a \in DOMAIN mBreakpoints}
    BY DEF BreakpointsAgree
  <2>2. answer = NoAnswer
    BY <1>1, <2>1, Nothing DEF IInv, OnePacket, Idle, Unread, Read
  <2>3. installed = {<<mBreakpoints[a], a>> : a \in DOMAIN mBreakpoints} /\ DOMAIN mBreakpoints = client.inserted
    BY <1>1, <2>2 DEF IInv, BreakpointsKept, Expected
  <2>4. {b[2] : b \in installed} = client.inserted
    <3>1. ASSUME NEW a \in client.inserted PROVE \E b \in installed : b[2] = a
      <4>1. <<mBreakpoints[a], a>> \in installed /\ <<mBreakpoints[a], a>>[2] = a
        BY <2>3
      <4> QED BY <4>1
    <3>2. ASSUME NEW b \in installed PROVE b[2] \in client.inserted
      BY <2>3
    <3> QED BY <3>1, <3>2
  <2> QED BY <2>3, <2>4
<1> QED BY <1>1, ServerInvariance, PTL

\* Both sides change to no-ack mode at the same answer: process_QStartNoAckMode
\* answers in the mode it leaves.
THEOREM AlwaysAckAgreed == Spec => []AckAgreed
<1>1. IInv => AckAgreed
  BY DEF IInv, ModeAgreed, AckAgreed
<1> QED BY <1>1, ServerInvariance, PTL

\* A listing names each thread once: the index that process_qfThreadInfo keeps
\* across packets is where the listing is.
THEOREM AlwaysThreadsListed == Spec => []ThreadsListed
<1>1. ASSUME IInv PROVE ThreadsListed
  <2>1. SUFFICES ASSUME pending.kind \in {"qfThreadInfo", "qsThreadInfo"}, answer.text = "l"
                 PROVE  client.listed = threadList
    BY DEF ThreadsListed
  <2>2. answer # NoAnswer /\ client.listing
    BY <1>1, <2>1, Nothing DEF IInv, ListingSoFar, ListPackets
  <2> QED BY <1>1, <2>1, <2>2 DEF IInv, ListingSoFar
<1> QED BY <1>1, ServerInvariance, PTL

\* An exit is told, and nothing else is told as one, but a reason that
\* getStopReason does not know.
THEOREM StopAlwaysTold == Spec => []StopTold
<1>1. IInv => StopTold
  BY DEF IInv
<1> QED BY <1>1, ServerInvariance, PTL

\* The server dereferences no thread but one that was selected and has ended,
\* or qC's.
THEOREM NullAlwaysStale == Spec => []NullOnlyIfStale
<1>1. IInv => NullOnlyIfStale
  BY DEF IInv
<1> QED BY <1>1, ServerInvariance, PTL

(***************************************************************************)
(* Objects read in parts.  The invariant speaks of objects without bytes   *)
(* that auxv escapes, which XferWhole excepts.                             *)
(***************************************************************************)
\* The client asks for one object at a time, from where it has got to ...
AsksInOrder ==
  /\ client.object = "" => client.got = <<>>
  /\ client.object # "" => client.object \in DOMAIN Objects /\ ~client.listing
  /\ pending.kind = "qXfer" =>
       /\ pending.object = client.object /\ client.object # ""
       /\ pending.offset = Len(client.got) /\ pending.arg \in Chunks
  /\ pending # NoPacket /\ pending.kind # "qXfer" => client.object = ""

\* ... and has read the object up to there.
GotPrefix ==
  client.object # "" /\ Verbatim(client.object) =>
    /\ Len(client.got) \in 0 .. Len(Objects[client.object])
    /\ client.got = SubSeq(Objects[client.object], 1, Len(client.got))

\* The answer is the next part, the rest, or nothing at the end.
NextPart(data, offset, length) ==
  \/ /\ answer.text = "m" /\ offset + length <= Len(data)
     /\ answer.data = SubSeq(data, offset + 1, offset + length)
  \/ /\ answer.text = "l" /\ offset < Len(data)
     /\ answer.data = SubSeq(data, offset + 1, Len(data))
  \/ answer.text = "" /\ offset >= Len(data) /\ answer.data = <<>>

AnswersPart ==
  pending.kind = "qXfer" /\ answer # NoAnswer /\ Verbatim(pending.object) =>
    NextPart(Objects[pending.object], pending.offset, pending.arg)

XferInv == IInv /\ AsksInOrder /\ GotPrefix /\ AnswersPart

\* The smaller of two numbers.
LEMMA MinOfTwo ==
  ASSUME NEW a \in Nat, NEW b \in Nat
  PROVE  /\ a <= b => Min({a, b}) = a
         /\ b <= a => Min({a, b}) = b
<1>1. \A x \in {a, b} : (\A y \in {a, b} : x <= y) => (a <= b => x = a) /\ (b <= a => x = b)
  OBVIOUS
<1>2. \E x \in {a, b} : \A y \in {a, b} : x <= y
  OBVIOUS
<1> QED BY <1>1, <1>2 DEF Min

\* Where a part begins and ends in an object of some size.
LEMMA Bounds ==
  ASSUME NEW size \in Nat
  PROVE  /\ 0 \in 0 .. size
         /\ \A o \in 0 .. size : o \in Nat /\ o <= size
         /\ \A o \in Nat, l \in Nat \ {0} :
              o + l <= size => o + 1 \in 1 .. size /\ o + l \in 1 .. size
         /\ \A o, l \in Nat :
              o < size => /\ ~(o >= size)
                          /\ o + l <= size => More(o, l, size)
                          /\ o + l > size => ~More(o, l, size)
BY DEF More

\* A part of an object, and the part behind it.
LEMMA Parts ==
  ASSUME NEW S, NEW data \in Seq(S), NEW m \in Nat, NEW n \in Nat, m <= n, n <= Len(data)
  PROVE  /\ SubSeq(data, 1, m) \o SubSeq(data, m + 1, n) = SubSeq(data, 1, n)
         /\ Len(SubSeq(data, 1, n)) = n
         /\ SubSeq(data, 1, Len(data)) = data
<1>1. Len(data) \in Nat
  OBVIOUS
<1>2. m \in 0 .. Len(data) /\ n \in m .. Len(data) /\ 1 \in 1 .. Len(data) + 1
  BY <1>1
<1>3. m \in 1 - 1 .. Len(data)
  BY <1>2
<1>4. SubSeq(data, 1, m) \o SubSeq(data, m + 1, n) = SubSeq(data, 1, n)
  BY <1>1, <1>2, <1>3, ConcatAdjacentSubSeq
<1>5. Len(SubSeq(data, 1, n)) = n /\ SubSeq(data, 1, Len(data)) = data
  OBVIOUS
<1> QED BY <1>4, <1>5

\* An object is a sequence.
LEMMA ObjectFacts ==
  ASSUME NEW object \in DOMAIN Objects
  PROVE  /\ object # "" /\ Objects[object] \in Seq(STRING) /\ Len(Objects[object]) \in Nat
         /\ SubSeq(Objects[object], 1, 0) = <<>>
<1>1. object # "" /\ Objects[object] \in Seq(STRING)
  BY ClientAssumption DEF ClientAssumption
<1>2. PICK S : S = STRING
  OBVIOUS
<1>3. \A s \in Seq(S) : Len(s) \in Nat /\ SubSeq(s, 1, 0) = <<>>
  OBVIOUS
<1> QED BY <1>1, <1>2, <1>3

\* The sequences that FlattenSeq joins, one after the other.
Joins(q, f) == f = [i \in 1 .. Len(q) |-> IF i = 1 THEN q[i] ELSE f[i - 1] \o q[i]]

\* What the operator of the community module comes to.
LEMMA FlattenDef ==
  ASSUME NEW q
  PROVE  FlattenSeq(q) = IF Len(q) = 0 THEN q ELSE (CHOOSE f : Joins(q, f))[Len(q)]
BY DEF FlattenSeq, Joins

\* Among indices there is a first one.
LEMMA FirstIndex ==
  ASSUME NEW S, S \subseteq Nat, S # {}
  PROVE  \E m \in S : \A n \in S : m <= n
<1> DEFINE R == {p \in Nat \X Nat : p[1] < p[2]}
<1>1. IsWellFoundedOn(R, Nat)
  BY NatLessThanWellFounded DEF OpToRel
<1>2. ASSUME NEW m \in Nat, NEW n \in Nat, m < n PROVE <<m, n>> \in R
  <2>1. <<m, n>> \in Nat \X Nat /\ <<m, n>>[1] = m /\ <<m, n>>[2] = n
    OBVIOUS
  <2> QED BY <1>2, <2>1
<1> HIDE DEF R
<1>3. PICK m \in S : \A n \in S : <<n, m>> \notin R
  BY <1>1, WFMin
<1>4. ASSUME NEW n \in S PROVE m <= n
  <2>1. m \in Nat /\ n \in Nat /\ ~(n < m)
    BY <1>2, <1>3
  <2> QED BY <2>1
<1> QED BY <1>4

\* A sequence cut into single elements and joined again is the same: by
\* induction, what is joined up to an index is the sequence up to there.
LEMMA FlattenSingles ==
  ASSUME NEW T, NEW s \in Seq(T), NEW q, q = [i \in DOMAIN s |-> <<s[i]>>]
  PROVE  FlattenSeq(q) = s
<1>1. PICK n \in Nat : n = Len(s) /\ DOMAIN s = 1 .. n
  OBVIOUS
<1>2. q \in Seq(Seq(T)) /\ Len(q) = n /\ \A i \in 1 .. n : q[i] = <<s[i]>>
  <2>1. \A i \in 1 .. n : <<s[i]>> \in Seq(T)
    BY <1>1
  <2> QED BY <1>1, <2>1
<1>3. CASE n = 0
  <2>1. q = <<>> /\ s = <<>>
    BY <1>1, <1>2, <1>3
  <2> QED BY <1>2, <1>3, <2>1, FlattenDef
<1>4. CASE n # 0
  <2> DEFINE g == [i \in 1 .. n |-> SubSeq(s, 1, i)]
  <2>1. \A i \in 1 .. n : g[i] = SubSeq(s, 1, i)
    OBVIOUS
  <2>2. ASSUME NEW i \in 1 .. n
        PROVE  SubSeq(s, 1, i) = IF i = 1 THEN q[i] ELSE g[i - 1] \o q[i]
    <3>1. CASE i = 1
      <4>1. PICK w : w = SubSeq(s, 1, 1)
        OBVIOUS
      <4>2. w \in Seq(T) /\ Len(w) = 1 /\ w[1] = s[1]
        BY <1>1, <3>1, <4>1
      <4>3. w = <<s[1]>>
        BY <4>2
      <4> QED BY <1>2, <3>1, <4>1, <4>3
    <3>2. CASE i # 1
      <4>1. g[i - 1] = SubSeq(s, 1, i - 1)
        BY <2>1, <3>2
      <4>2. PICK u : u = SubSeq(s, 1, i - 1)
        OBVIOUS
      <4>3. u \in Seq(T) /\ Len(u) = i - 1 /\ \A k \in 1 .. i - 1 : u[k] = s[k]
        BY <1>1, <4>2
      <4>4. PICK v : v = u \o <<s[i]>>
        OBVIOUS
      <4>5. s[i] \in T
        BY <1>1
      <4>6. v \in Seq(T) /\ Len(v) = i /\ v[i] = s[i] /\ \A k \in 1 .. i - 1 : v[k] = s[k]
        BY <4>3, <4>4, <4>5
      <4>7. PICK w : w = SubSeq(s, 1, i)
        OBVIOUS
      <4>8. w \in Seq(T) /\ Len(w) = i /\ \A k \in 1 .. i : w[k] = s[k]
        BY <1>1, <4>7
      <4>9. \A k \in 1 .. i : v[k] = w[k]
        BY <4>6, <4>8
      <4>10. v = w
        BY <4>6, <4>8, <4>9
      <4> QED BY <1>2, <3>2, <4>1, <4>2, <4>4, <4>7, <4>10
    <3> QED BY <3>1, <3>2
  <2>3. Joins(q, g)
    <3>1. PICK h : h = g
      OBVIOUS
    <3>2. \A i \in 1 .. n : SubSeq(s, 1, i) = IF i = 1 THEN q[i] ELSE h[i - 1] \o q[i]
      BY <2>2, <3>1
    <3>3. g = [i \in 1 .. n |-> IF i = 1 THEN q[i] ELSE h[i - 1] \o q[i]]
      BY <3>2
    <3> HIDE DEF g
    <3> QED BY <1>2, <3>1, <3>3 DEF Joins
  <2> HIDE DEF g
  <2>4. PICK f : f = (CHOOSE h : Joins(q, h)) /\ Joins(q, f)
    BY <2>3
  <2>5. \A i \in 1 .. n : f[i] = IF i = 1 THEN q[i] ELSE f[i - 1] \o q[i]
    BY <1>2, <2>4 DEF Joins
  <2>6. \A i \in 1 .. n : f[i] = g[i]
    <3> DEFINE Bad == {i \in 1 .. n : f[i] # g[i]}
    <3> SUFFICES ASSUME Bad # {} PROVE FALSE
      OBVIOUS
    <3>1. PICK m \in Bad : \A k \in Bad : m <= k
      <4>1. Bad \subseteq Nat
        OBVIOUS
      <4> HIDE DEF Bad
      <4> QED BY <4>1, FirstIndex
    <3>2. m \in 1 .. n /\ f[m] # g[m]
      OBVIOUS
    <3>3. m # 1 => m - 1 \in 1 .. n /\ f[m - 1] = g[m - 1]
      <4> SUFFICES ASSUME m # 1 PROVE m - 1 \in 1 .. n /\ f[m - 1] = g[m - 1]
        OBVIOUS
      <4>1. m - 1 \in 1 .. n /\ ~(m <= m - 1)
        BY <3>2
      <4>2. m - 1 \notin Bad
        BY <3>1, <4>1
      <4> QED BY <4>1, <4>2
    <3>4. f[m] = IF m = 1 THEN q[m] ELSE f[m - 1] \o q[m]
      BY <2>5, <3>2
    <3>5. g[m] = IF m = 1 THEN q[m] ELSE g[m - 1] \o q[m]
      BY <2>1, <2>2, <3>2
    <3> HIDE DEF Bad
    <3> QED BY <3>2, <3>3, <3>4, <3>5
  <2>7. n \in 1 .. n
    BY <1>4
  <2>8. SubSeq(s, 1, n) = s
    BY <1>1
  <2>9. FlattenSeq(q) = f[n]
    BY <1>2, <1>4, <2>4, FlattenDef
  <2> QED BY <2>1, <2>6, <2>7, <2>8, <2>9
<1> QED BY <1>3, <1>4

\* An object without special bytes is sent as it is, and every part of it is
\* read as it was sent.
LEMMA ReadVerbatim ==
  ASSUME NEW object \in DOMAIN Objects, Verbatim(object)
  PROVE  /\ Escape(Objects[object]) = Objects[object]
         /\ \A i, j \in 1 .. Len(Objects[object]) :
              Unescape(SubSeq(Objects[object], i, j)) = SubSeq(Objects[object], i, j)
<1>1. PICK T : T = STRING
  OBVIOUS
<1>2. PICK s \in Seq(T) : s = Objects[object]
  BY <1>1, ObjectFacts
<1>3. \A k \in DOMAIN s : s[k] \notin Special /\ s[k] # "}"
  BY <1>2 DEF Verbatim, Special
<1>4. Escape(s) = s
  <2>1. PICK q : q = [k \in DOMAIN s |-> IF s[k] \in Special THEN <<"}", Xor20(s[k])>> ELSE <<s[k]>>]
    OBVIOUS
  <2>2. q = [k \in DOMAIN s |-> <<s[k]>>]
    BY <1>3, <2>1
  <2> QED BY <2>1, <2>2, FlattenSingles DEF Escape
<1>5. ASSUME NEW i \in 1 .. Len(s), NEW j \in 1 .. Len(s)
      PROVE  Unescape(SubSeq(s, i, j)) = SubSeq(s, i, j)
  <2>1. PICK t : t = SubSeq(s, i, j)
    OBVIOUS
  <2>2. t \in Seq(T) /\ \A k \in DOMAIN t : \E l \in DOMAIN s : t[k] = s[l]
    <3>1. t \in Seq(T) /\ Len(t) = IF i <= j THEN j - i + 1 ELSE 0
      BY <2>1
    <3>2. ASSUME NEW k \in 1 .. Len(t) PROVE t[k] = s[i + k - 1] /\ i + k - 1 \in 1 .. Len(s)
      BY <2>1, <3>1
    <3>3. DOMAIN t = 1 .. Len(t) /\ DOMAIN s = 1 .. Len(s)
      BY <3>1
    <3> QED BY <3>1, <3>2, <3>3
  <2>3. PICK q : q = [k \in DOMAIN t |-> IF t[k] = "}" THEN <<>>
                                        ELSE IF Escaped(t, k) THEN <<Xor20(t[k])>> ELSE <<t[k]>>]
    OBVIOUS
  <2>4. q = [k \in DOMAIN t |-> <<t[k]>>]
    <3>1. \A k \in DOMAIN t : t[k] # "}" /\ ~Escaped(t, k)
      BY <1>3, <2>2 DEF Escaped
    <3> QED BY <2>3, <3>1
  <2> QED BY <2>1, <2>2, <2>3, <2>4, FlattenSingles DEF Unescape
<1> QED BY <1>2, <1>4, <1>5

\* A packet that asks for a part asks from where the client has got to.
LEMMA TransferFacts ==
  ASSUME NEW p \in NextPackets, AsksInOrder
  PROVE  /\ p.kind = "qXfer" =>
              /\ p.object \in DOMAIN Objects /\ p.arg \in Chunks /\ p.offset = Len(client.got)
              /\ client.object # "" => p.object = client.object
         /\ p.kind # "qXfer" => p.object = "" /\ client.object = ""
<1>1. IF p.kind = "qXfer" THEN p \in Transfers ELSE p.object = ""
  BY PacketFacts
<1>2. CASE p \in Transfers
  <2>1. /\ p.kind = "qXfer" /\ p.arg \in Chunks
        /\ p.object \in (IF client.object = "" THEN DOMAIN Objects ELSE {client.object})
        /\ p.offset = IF client.object = "" THEN 0 ELSE Len(client.got)
    BY <1>2 DEF Transfers
  <2>2. Len(<<>>) = 0
    OBVIOUS
  <2> QED BY <2>1, <2>2 DEF AsksInOrder
<1>3. CASE p \notin Transfers
  <2>1. client.object = ""
    BY <1>3 DEF NextPackets, AsksInOrder
  <2>2. p.kind # "qXfer"
    BY <1>1, <1>3
  <2> QED BY <1>1, <2>1, <2>2
<1> QED BY <1>2, <1>3

\* The client sends a packet.
LEMMA XferSend ==
  ASSUME XferInv, NEW p \in NextPackets, Send(p)
  PROVE  AsksInOrder' /\ GotPrefix' /\ AnswersPart'
<1>1. AsksInOrder /\ GotPrefix /\ ClientType
  BY DEF XferInv, IInv
<1>2. pending = NoPacket /\ pending' = p /\ answer' = answer
  BY DEF Send
<1>3. /\ client'.object = p.object /\ client'.got = client.got
      /\ client'.listing = (p.kind \in {"qfThreadInfo", "qsThreadInfo"})
  BY <1>1 DEF Send, ClientType
<1>4. /\ p.kind = "qXfer" =>
           /\ p.object \in DOMAIN Objects /\ p.arg \in Chunks /\ p.offset = Len(client.got)
           /\ client.object # "" => p.object = client.object
      /\ p.kind # "qXfer" => p.object = "" /\ client.object = ""
  BY <1>1, TransferFacts
<1>5. answer = NoAnswer
  BY <1>2, Nothing DEF XferInv, IInv, OnePacket, Idle, Unread, Read
<1>6. AsksInOrder'
  <2>1. CASE p.kind = "qXfer"
    <3>1. p.object \in DOMAIN Objects /\ p.object # "" /\ ~client'.listing
      BY <1>3, <1>4, <2>1, ObjectFacts
    <3> QED BY <1>2, <1>3, <1>4, <2>1, <3>1 DEF AsksInOrder
  <2>2. CASE p.kind # "qXfer"
    BY <1>1, <1>2, <1>3, <1>4, <2>2 DEF AsksInOrder
  <2> QED BY <2>1, <2>2
<1>7. GotPrefix'
  <2>1. CASE client.object # "" /\ p.object = client.object
    BY <1>1, <1>3, <2>1 DEF GotPrefix, Verbatim
  <2>2. CASE client.object = "" /\ p.object \in DOMAIN Objects
    <3>1. client'.got = <<>> /\ Len(<<>>) = 0
      BY <1>1, <1>3, <2>2 DEF AsksInOrder
    <3>2. SubSeq(Objects[p.object], 1, 0) = <<>> /\ 0 \in 0 .. Len(Objects[p.object])
      BY <2>2, ObjectFacts, Bounds
    <3> QED BY <1>3, <3>1, <3>2 DEF GotPrefix
  <2>3. CASE p.object = ""
    BY <1>3, <2>3 DEF GotPrefix
  <2> QED BY <1>4, <2>1, <2>2, <2>3
<1>8. AnswersPart'
  BY <1>2, <1>5 DEF AnswersPart, NoAnswer
<1> QED BY <1>6, <1>7, <1>8

\* The client takes an answer, and has one more part.
LEMMA XferReceive ==
  ASSUME XferInv, Receive
  PROVE  AsksInOrder' /\ GotPrefix' /\ AnswersPart'
<1>1. AsksInOrder /\ GotPrefix /\ AnswersPart /\ ClientType /\ OnePacket
  BY DEF XferInv, IInv
<1>2. answer # NoAnswer /\ pending' = NoPacket /\ answer' = NoAnswer
  BY DEF Receive
<1>3. /\ client'.object = IF answer.text = "m" THEN client.object ELSE ""
      /\ client'.got = IF client.object # "" /\ answer.text = "m"
                          THEN client.got \o Unescape(answer.data) ELSE <<>>
      /\ client'.listing = (client.listing /\ answer.text = "m")
  BY <1>1 DEF Receive, ClientType
<1>4. pending # NoPacket /\ NoPacket.kind # "qXfer"
  BY <1>1, <1>2, Nothing DEF OnePacket, Idle, Unread, Read
<1>5. AsksInOrder'
  BY <1>1, <1>2, <1>3, <1>4 DEF AsksInOrder, NoPacket, Packet
<1>6. AnswersPart'
  BY <1>2 DEF AnswersPart, NoAnswer
<1>7. GotPrefix'
  <2> DEFINE object == client.object
             data == Objects[object]
             offset == pending.offset
             length == pending.arg
  <2>1. SUFFICES ASSUME client.object # "", answer.text = "m", Verbatim(client.object)
                 PROVE  /\ Len(client'.got) \in 0 .. Len(data)
                        /\ client'.got = SubSeq(data, 1, Len(client'.got))
    BY <1>3 DEF GotPrefix, Verbatim
  <2>0. /\ pending.kind = "qXfer" /\ pending.object = object /\ length \in Chunks
        /\ object \in DOMAIN Objects /\ offset = Len(client.got)
    BY <1>1, <1>4, <2>1 DEF AsksInOrder
  <2>2. length \in Nat \ {0} /\ data \in Seq(STRING) /\ Len(data) \in Nat
    BY <2>0, ObjectFacts, ClientAssumption DEF ClientAssumption
  <2>3. offset \in Nat /\ client.got = SubSeq(data, 1, offset)
    <3>1. Len(client.got) \in 0 .. Len(data) /\ client.got = SubSeq(data, 1, Len(client.got))
      BY <1>1, <2>1 DEF GotPrefix
    <3> QED BY <2>0, <2>2, <3>1, Bounds
  <2>4. offset + length <= Len(data) /\ answer.data = SubSeq(data, offset + 1, offset + length)
    BY <1>1, <1>2, <2>1, <2>0 DEF AnswersPart, NextPart
  <2>5. offset + 1 \in 1 .. Len(data) /\ offset + length \in 1 .. Len(data)
    BY <2>2, <2>3, <2>4, Bounds
  <2>6. Unescape(answer.data) = answer.data
    BY <2>1, <2>0, <2>4, <2>5, ReadVerbatim
  <2>7. client'.got = SubSeq(data, 1, offset) \o SubSeq(data, offset + 1, offset + length)
    BY <1>3, <2>1, <2>3, <2>4, <2>6
  <2> HIDE DEF data, offset, length
  <2>8. client'.got = SubSeq(data, 1, offset + length) /\ Len(client'.got) = offset + length
    <3>1. offset + length \in Nat /\ offset <= offset + length
      BY <2>2, <2>3
    <3> QED BY <2>2, <2>3, <2>4, <2>7, <3>1, Parts
  <2> QED BY <2>2, <2>3, <2>4, <2>8
<1> QED BY <1>5, <1>6, <1>7

\* The server answers with the next part.
LEMMA XferRead ==
  ASSUME XferInv, ReadPacket
  PROVE  AsksInOrder' /\ GotPrefix' /\ AnswersPart'
<1>1. AsksInOrder /\ GotPrefix
  BY DEF XferInv
<1>2. ProcessPacket(pending) /\ pending' = pending /\ client' = client
  BY ReadFacts DEF XferInv
<1>3. AsksInOrder' /\ GotPrefix'
  BY <1>1, <1>2 DEF AsksInOrder, GotPrefix, Verbatim
<1>4. AnswersPart'
  <2> DEFINE data == Objects[pending.object]
             offset == pending.offset
             length == pending.arg
  <2>1. SUFFICES ASSUME pending.kind = "qXfer", Verbatim(pending.object)
                 PROVE  NextPart(data, offset, length)'
    BY <1>2 DEF AnswersPart, Verbatim
  <2>2. ProcessXfer(pending)
    BY <1>2, <2>1 DEF ProcessPacket, ProcessFixed, ProcessQStartNoAckMode, ProcessH, ProcessThreadInfo,
       Process_qC, ProcessRegisters, ProcessMemory, ProcessStatus, Process_z, Process_Z, Process_c,
       Process_s, Process_vFile, Process_k, FixedPackets
  <2>3. /\ data \in Seq(STRING) /\ Len(data) \in Nat /\ length \in Nat
        /\ offset \in Nat /\ offset <= Len(data)
    <3>1. /\ pending.object = client.object /\ client.object \in DOMAIN Objects /\ client.object # ""
          /\ length \in Chunks /\ offset = Len(client.got)
      BY <1>1, <2>1 DEF AsksInOrder
    <3>2. data \in Seq(STRING) /\ Len(data) \in Nat /\ length \in Nat
      BY <3>1, ObjectFacts, ClientAssumption DEF ClientAssumption
    <3>3. offset \in 0 .. Len(data)
      BY <1>1, <2>1, <3>1 DEF GotPrefix
    <3> QED BY <3>2, <3>3
  <2>4. (IF pending.object = "auxv" THEN Escape(data) ELSE data) = data
    <3>1. pending.object \in DOMAIN Objects
      BY <1>1, <2>1 DEF AsksInOrder
    <3> QED BY <2>1, <3>1, ReadVerbatim
  <2>5. answer' = IF offset >= Len(data) THEN Response(mAck, "", <<>>)
                  ELSE Response(mAck, IF More(offset, length, Len(data)) THEN "m" ELSE "l",
                                Substr(data, offset, length))
    BY <2>2, <2>4 DEF ProcessXfer, Reply
  <2> HIDE DEF data, offset, length
  <2>6. CASE offset >= Len(data)
    <3>1. answer'.text = "" /\ answer'.data = <<>>
      BY <2>5, <2>6 DEF Response
    <3> QED BY <1>2, <2>6, <3>1 DEF NextPart, data, offset, length
  <2>7. CASE offset < Len(data) /\ offset + length <= Len(data)
    <3>0. offset + length \in Nat /\ Min({offset + length, Len(data)}) = offset + length
      BY <2>3, <2>7, MinOfTwo
    <3>1. Substr(data, offset, length) = SubSeq(data, offset + 1, offset + length)
      BY <3>0 DEF Substr
    <3>2. answer' = Response(mAck, "m", Substr(data, offset, length))
      BY <2>3, <2>5, <2>7, Bounds
    <3>3. answer'.text = "m" /\ answer'.data = SubSeq(data, offset + 1, offset + length)
      BY <3>1, <3>2 DEF Response
    <3> QED BY <1>2, <2>7, <3>3 DEF NextPart, data, offset, length
  <2>8. CASE offset < Len(data) /\ offset + length > Len(data)
    <3>0. offset + length \in Nat /\ Min({offset + length, Len(data)}) = Len(data)
      BY <2>3, <2>8, MinOfTwo
    <3>1. Substr(data, offset, length) = SubSeq(data, offset + 1, Len(data))
      BY <3>0 DEF Substr
    <3>2. answer' = Response(mAck, "l", Substr(data, offset, length))
      BY <2>3, <2>5, <2>8, Bounds
    <3>3. answer'.text = "l" /\ answer'.data = SubSeq(data, offset + 1, Len(data))
      BY <3>1, <3>2 DEF Response
    <3> QED BY <1>2, <2>8, <3>3 DEF NextPart, data, offset, length
  <2> QED BY <2>3, <2>6, <2>7, <2>8
<1> QED BY <1>3, <1>4

\* When the client has the last part of an object that is sent verbatim it has
\* the whole object, whatever lengths it asked for: process_qXfer tells a part
\* that ends where the object does from the last one by an empty answer.
THEOREM TransfersWhole == Spec => []XferWhole
<1>1. ASSUME Init PROVE AsksInOrder /\ GotPrefix /\ AnswersPart
  <2>1. /\ client.object = "" /\ client.got = <<>> /\ pending = NoPacket /\ NoPacket.kind # "qXfer"
    BY <1>1, Nothing DEF Init
  <2> QED BY <2>1 DEF AsksInOrder, GotPrefix, AnswersPart
<1>2. ASSUME XferInv, [Next]_vars, IInv' PROVE XferInv'
  <2>1. CASE \E p \in NextPackets : Send(p)
    BY <1>2, <2>1, XferSend DEF XferInv
  <2>2. CASE Receive
    BY <1>2, <2>2, XferReceive DEF XferInv
  <2>3. CASE ReadPacket
    BY <1>2, <2>3, XferRead DEF XferInv
  <2>4. CASE FinishResume
    <3>1. pending.kind \in Resuming /\ UNCHANGED <<pending, client>>
      BY <1>2, <2>4 DEF FinishResume, XferInv, IInv, OnePacket
    <3>2. AsksInOrder' /\ GotPrefix'
      BY <1>2, <3>1 DEF XferInv, AsksInOrder, GotPrefix, Verbatim
    <3>3. AnswersPart'
      BY <3>1 DEF AnswersPart, Resuming
    <3> QED BY <1>2, <3>2, <3>3 DEF XferInv
  <2>5. CASE UNCHANGED <<pending, answer, client>>
    <3>1. AsksInOrder' /\ GotPrefix' /\ AnswersPart'
      BY <1>2, <2>5 DEF XferInv, AsksInOrder, GotPrefix, AnswersPart, NextPart, Verbatim
    <3> QED BY <1>2, <3>1 DEF XferInv
  <2>6. ReadAck \/ Disconnect \/ Signalled \/ Running \/ UNCHANGED vars => UNCHANGED <<pending, answer, client>>
    BY DEF ReadAck, Disconnect, Signalled, Running, vars, clientVars
  <2> QED BY <1>2, <2>1, <2>2, <2>3, <2>4, <2>5, <2>6 DEF Next, ServerStep
<1>3. ASSUME XferInv PROVE XferWhole
  <2> DEFINE data == Objects[pending.object]
             offset == pending.offset
  <2>1. SUFFICES ASSUME pending.kind = "qXfer", answer.text \in {"l", ""}, Verbatim(pending.object)
                 PROVE  client.got \o answer.data = data
    BY DEF XferWhole, Verbatim
  <2>2. /\ pending.object = client.object /\ client.object # "" /\ offset = Len(client.got)
        /\ pending.object \in DOMAIN Objects
    BY <1>3, <2>1 DEF XferInv, AsksInOrder
  <2>3. data \in Seq(STRING) /\ Len(data) \in Nat
    BY <2>2, ObjectFacts
  <2>4. offset \in Nat /\ offset <= Len(data) /\ client.got = SubSeq(data, 1, offset)
    <3>1. Len(client.got) \in 0 .. Len(data) /\ client.got = SubSeq(data, 1, Len(client.got))
      BY <1>3, <2>1, <2>2 DEF XferInv, GotPrefix
    <3> QED BY <2>2, <2>3, <3>1, Bounds
  <2>5. \/ answer.data = SubSeq(data, offset + 1, Len(data))
        \/ offset >= Len(data) /\ answer.data = <<>>
    <3>1. answer # NoAnswer
      BY <2>1, Nothing
    <3> QED BY <1>3, <2>1, <3>1 DEF XferInv, AnswersPart, NextPart
  <2> HIDE DEF data, offset
  <2>6. CASE answer.data = SubSeq(data, offset + 1, Len(data))
    <3>1. Len(data) <= Len(data)
      BY <2>3
    <3>2. /\ SubSeq(data, 1, offset) \o SubSeq(data, offset + 1, Len(data)) = SubSeq(data, 1, Len(data))
          /\ SubSeq(data, 1, Len(data)) = data
      BY <2>3, <2>4, <3>1, Parts
    <3> QED BY <2>4, <2>6, <3>2
  <2>7. CASE offset >= Len(data) /\ answer.data = <<>>
    <3>1. offset = Len(data)
      BY <2>3, <2>4, <2>7
    <3>2. client.got = data /\ data \o <<>> = data
      BY <2>3, <2>4, <3>1, Parts
    <3> QED BY <2>7, <3>2 DEF data
  <2> QED BY <2>5, <2>6, <2>7 DEF data
<1>4. IInv /\ AsksInOrder /\ GotPrefix /\ AnswersPart => XferInv
  BY DEF XferInv
<1> QED BY <1>1, <1>2, <1>3, <1>4, ServerInvariance, PTL DEF Spec
=============================================================================
