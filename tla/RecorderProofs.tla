--------------------------- MODULE RecorderProofs ---------------------------
(***************************************************************************)
(* Proofs about Recorder, for any set of threads, any program, any number  *)
(* of device images and calls.                                             *)
(***************************************************************************)
EXTENDS Recorder, TLAPS

(***************************************************************************)
(* Types.                                                                  *)
(***************************************************************************)

Slots == {"count", "value", "size", "index"}

\* What the recording plugin writes for a call is a record.
LEMMA RecordType ==
  ASSUME NEW c \in Calls, NEW n \in Nat
  PROVE  Record(c, n, WriteMemObj) \in Records
<1>1. c.api \in Apis
  BY DEF Calls
<1>2. SmallOutputs(c) \in Seq(Slots)
  <2>1. \A flag, slot : slot \in Slots => Saved(flag, slot) \in Seq(Slots)
    BY DEF Saved
  <2>2. /\ Saved(c.size, "count") \in Seq(Slots)
        /\ Saved(c.value, "value") \in Seq(Slots)
        /\ Saved(c.size, "size") \in Seq(Slots)
    BY <2>1 DEF Slots
  <2>3. Saved(c.value, "value") \o Saved(c.size, "size") \in Seq(Slots)
    BY <2>2
  <2>4. <<"index">> \in Seq(Slots) /\ <<>> \in Seq(Slots)
    BY DEF Slots
  <2> QED
    BY <2>2, <2>3, <2>4 DEF SmallOutputs
<1>3. SavesMemory(c, WriteMemObj) \in BOOLEAN
  BY DEF SavesMemory
<1> QED
  BY <1>1, <1>2, <1>3 DEF Record, Records, Slots

\* The parameter of a call that takes no pointers is a call.
LEMMA CallType == Call("piTearDown") \in Calls
  BY DEF Call, Calls, Apis, PlainApis

\* Every step of the recorder keeps the types.
LEMMA TypeStep ==
  ASSUME TypeOK, [Next]_vars
  PROVE  TypeOK'
<1> USE ConstantsAssumption DEF ConstantsAssumption, TypeOK
<1>1. ASSUME NEW t \in Threads, NEW c \in Program,
             BeginCallback(t, c, t, t \in Followed)
      PROVE  TypeOK'
  <2>1. good' \in [Threads -> BOOLEAN] /\ GRecordHandler' \in [Threads -> Threads \cup {NoFile}]
    <3>1. CASE GRecordHandler[t] = NoFile
      <4>1. /\ GRecordHandler' = [GRecordHandler EXCEPT ![t] = t]
            /\ good' = [good EXCEPT ![t] = (t \in Followed)]
        BY <1>1, <3>1 DEF BeginCallback
      <4>2. good' \in [Threads -> BOOLEAN]
        <5>1. good \in [Threads -> BOOLEAN] /\ (t \in Followed) \in BOOLEAN
          OBVIOUS
        <5>2. \A b \in BOOLEAN : [good EXCEPT ![t] = b] \in [Threads -> BOOLEAN]
          BY <5>1
        <5> QED
          BY <4>1, <5>1, <5>2, Zenon
      <4> QED
        BY <4>1, <4>2
    <3>2. CASE GRecordHandler[t] # NoFile
      BY <1>1, <3>2 DEF BeginCallback
    <3> QED
      BY <3>1, <3>2
  <2>2. call' \in [Threads -> Calls] /\ pc' \in [Threads -> PCs]
    BY <1>1 DEF BeginCallback, Goto, PCs
  <2> QED
    BY <1>1, <2>1, <2>2 DEF BeginCallback
<1>2. ASSUME NEW t \in Threads, EndCallback(t) PROVE TypeOK'
  BY <1>2 DEF EndCallback, Goto, PCs
<1>3. ASSUME NEW t \in Threads, Lock(t) PROVE TypeOK'
  BY <1>3 DEF Lock, Goto, PCs
<1>4. ASSUME NEW t \in Threads, Recheck(t) PROVE TypeOK'
  <2>1. Current(t) \in Nat /\ lost[t] \cup {Current(t)} \in SUBSET Nat
    BY DEF Current
  <2>2. lost' = lost \/ lost' = [lost EXCEPT ![t] = lost[t] \cup {Current(t)}]
    BY <1>4 DEF Recheck
  <2>3. lost' \in [Threads -> SUBSET Nat]
    BY <2>1, <2>2
  <2> QED
    BY <1>4, <2>3 DEF Recheck, Released, Goto, PCs
<1>5. ASSUME NEW t \in Threads, Collect(t) PROVE TypeOK'
  BY <1>5 DEF Collect, Goto, PCs
<1>6. ASSUME NEW t \in Threads, DumpBinary(t, t \in Followed) PROVE TypeOK'
  <2>1. images' \in [Images -> Nat] /\ idx' \in [Threads -> Nat]
    BY <1>6 DEF DumpBinary, Images
  <2> QED
    BY <1>6, <2>1 DEF DumpBinary
<1>7. ASSUME NEW t \in Threads, DumpDone(t) PROVE TypeOK'
  BY <1>7 DEF DumpDone, Released, ToSerialize, Goto, PCs
<1>8. ASSUME NEW t \in Threads, SaveMemory(t, t \in Followed) PROVE TypeOK'
  <2>1. SavedForCall(t) \in SUBSET Nat
    BY DEF SavedForCall, Current
  <2> QED
    BY <1>8, <2>1 DEF SaveMemory, Goto, PCs
<1>9. ASSUME NEW t \in Threads, SaveMemoryOfFailedCall(t) PROVE TypeOK'
  BY <1>9 DEF SaveMemoryOfFailedCall
<1>10. ASSUME NEW t \in Threads, Serialize(t) PROVE TypeOK'
  <2>1. Record(call[t], Current(t), WriteMemObj) \in Records
    BY RecordType DEF Current
  <2>2. /\ Append(stream[t], Record(call[t], Current(t), WriteMemObj)) \in Seq(Records)
        /\ Append(trace[t], Record(call[t], Current(t), WriteMemObj)) \in Seq(Records)
    BY <2>1
  <2>3. stream' \in [Threads -> Seq(Records)]
    BY <1>10, <2>2 DEF Serialize
  <2>4. trace' \in [Threads -> Seq(Records)]
    BY <1>10, <2>2 DEF Serialize
  <2>5. pc' \in [Threads -> PCs]
    BY <1>10 DEF Serialize, Goto, PCs
  <2> QED
    BY <1>10, <2>3, <2>4, <2>5 DEF Serialize
<1>11. ASSUME NEW t \in Threads, FlushAndReturn(t) PROVE TypeOK'
  <2>1. Flushed(t) \in Seq(Records)
    BY DEF Flushed
  <2>2. Append(done[t], call[t]) \in Seq(Calls)
    OBVIOUS
  <2> QED
    BY <1>11, <2>1, <2>2 DEF FlushAndReturn, Emptied, Goto, PCs
<1>12. ASSUME NEW t \in Threads, Deinit(t) PROVE TypeOK'
  <2>1. trace[t] \o stream[t] \in Seq(Records)
    OBVIOUS
  <2> QED
    BY <1>12, <2>1 DEF Deinit
<1>13. CASE Kill
  BY <1>13 DEF Kill
<1>14. CASE UNCHANGED vars
  BY <1>14 DEF vars
<1> QED
  BY <1>1, <1>2, <1>3, <1>4, <1>5, <1>6, <1>7, <1>8, <1>9, <1>10, <1>11, <1>12,
     <1>13, <1>14 DEF Next, Progress

\* The initial state has the types.
LEMMA TypeInit ==
  ASSUME Init
  PROVE  TypeOK
<1>1. pc \in [Threads -> PCs]
  BY DEF Init, PCs
<1>2. call \in [Threads -> Calls]
  BY CallType DEF Init
<1>3. /\ done \in [Threads -> Seq(Calls)]
      /\ stream \in [Threads -> Seq(Records)]
      /\ trace \in [Threads -> Seq(Records)]
  BY DEF Init
<1> QED
  BY <1>1, <1>2, <1>3 DEF Init, TypeOK

\* The state of the recording plugin keeps its types: in particular every
\* element of a trace file is a record of an API call.
THEOREM TypeCorrect == Spec => []TypeOK
  BY TypeInit, TypeStep, PTL DEF Spec

(***************************************************************************)
(* The device images.  The mutex admits one thread between Lock and        *)
(* DumpDone; the flag is set before the first image is written; and the    *)
(* thread that writes has written the images below its loop index.         *)
(***************************************************************************)

\* Where a thread holds the mutex.
Inside(t) == pc[t] \in {"recheck", "collect", "dump"}

MutexHeld == \A t \in Threads : Inside(t) => GBinariesMutex = {t}

\* Only the thread that collects can have found the flag unset: nothing is
\* written before, and nobody else starts to write after.
NothingYet ==
  /\ ~GBinariesCollected => \A i \in Images : images[i] = 0
  /\ \A t \in Threads : pc[t] = "collect" => ~GBinariesCollected
  /\ \A t \in Threads : pc[t] = "dump" => GBinariesCollected

WrittenBelow ==
  \A t \in Threads : pc[t] = "dump" =>
    \A i \in Images : images[i] <= (IF i < idx[t] THEN 1 ELSE 0)

IInv == TypeOK /\ MutexHeld /\ NothingYet /\ WrittenBelow /\ ImagesOnce

\* The invariant holds initially.
LEMMA InvInit ==
  ASSUME Init
  PROVE  IInv
<1>1. TypeOK
  BY TypeInit
<1> QED
  BY <1>1 DEF Init, IInv, MutexHeld, Inside, NothingYet, WrittenBelow, ImagesOnce

\* A step of a thread outside handleSelectBinary touches none of it.
LEMMA InvOther ==
  ASSUME IInv, TypeOK',
         UNCHANGED <<GBinariesCollected, GBinariesMutex, idx, images>>,
         NEW t \in Threads, NEW label \in PCs \ {"recheck", "collect", "dump"},
         pc' = pc \/ pc' = [pc EXCEPT ![t] = label]
  PROVE  IInv'
<1> USE DEF IInv
<1>1. \A u \in Threads : pc'[u] \in {"recheck", "collect", "dump"} => pc'[u] = pc[u]
  BY DEF TypeOK
<1>2. MutexHeld'
  BY <1>1 DEF MutexHeld, Inside
<1>3. NothingYet'
  BY <1>1 DEF NothingYet
<1>4. WrittenBelow'
  BY <1>1 DEF WrittenBelow
<1>5. ImagesOnce'
  BY DEF ImagesOnce
<1> QED
  BY <1>2, <1>3, <1>4, <1>5

\* Every step preserves the invariant.
LEMMA InvStep ==
  ASSUME IInv, [Next]_vars
  PROVE  IInv'
<1> USE ConstantsAssumption DEF ConstantsAssumption
<1>0. TypeOK /\ TypeOK'
  BY TypeStep DEF IInv
<1>1. ASSUME NEW t \in Threads, NEW c \in Program,
             BeginCallback(t, c, t, t \in Followed)
      PROVE  IInv'
  BY <1>0, <1>1, InvOther DEF BeginCallback, Goto, PCs
<1>2. ASSUME NEW t \in Threads, EndCallback(t) PROVE IInv'
  BY <1>0, <1>2, InvOther DEF EndCallback, Goto, PCs
<1>3. ASSUME NEW t \in Threads, Lock(t) PROVE IInv'
  <2>1. \A u \in Threads : pc'[u] = IF u = t THEN "recheck" ELSE pc[u]
    BY <1>0, <1>3 DEF Lock, Goto, TypeOK
  <2>2. \A u \in Threads : ~Inside(u)
    BY <1>3 DEF Lock, LockFree, IInv, MutexHeld
  <2> QED
    BY <1>0, <1>3, <2>1, <2>2 DEF Lock, IInv, MutexHeld, Inside, NothingYet,
       WrittenBelow, ImagesOnce
<1>4. ASSUME NEW t \in Threads, Recheck(t) PROVE IInv'
  <2>1. \A u \in Threads : Inside(u) => u = t
    BY <1>4 DEF Recheck, IInv, MutexHeld, Inside
  <2>2. \A u \in Threads :
          pc'[u] = IF u # t THEN pc[u]
                   ELSE IF GBinariesCollected THEN "flush" ELSE "collect"
    BY <1>0, <1>4 DEF Recheck, SeenCollected, Goto, TypeOK
  <2> QED
    BY <1>0, <1>4, <2>1, <2>2 DEF Recheck, SeenCollected, Released, IInv, MutexHeld,
       Inside, NothingYet, WrittenBelow, ImagesOnce
<1>5. ASSUME NEW t \in Threads, Collect(t) PROVE IInv'
  <2>1. \A u \in Threads : Inside(u) => u = t
    BY <1>5 DEF Collect, IInv, MutexHeld, Inside
  <2>2. \A u \in Threads : pc'[u] = IF u = t THEN "dump" ELSE pc[u]
    BY <1>0, <1>5 DEF Collect, Goto, TypeOK
  <2>3. \A i \in Images : images'[i] = 0
    BY <1>5 DEF Collect, IInv, NothingYet
  <2> QED
    BY <1>0, <1>5, <2>1, <2>2, <2>3 DEF Collect, IInv, MutexHeld, Inside, NothingYet,
       WrittenBelow, ImagesOnce, TypeOK
<1>6. ASSUME NEW t \in Threads, DumpBinary(t, t \in Followed) PROVE IInv'
  <2>1. \A u \in Threads : Inside(u) => u = t
    BY <1>6 DEF DumpBinary, IInv, MutexHeld, Inside
  <2>2. idx'[t] = idx[t] + 1 /\ idx[t] \in Images
    BY <1>0, <1>6 DEF DumpBinary, TypeOK, Images
  <2>3. \A i \in Images : images'[i] <= IF i = idx[t] THEN images[i] + 1 ELSE images[i]
    BY <1>0, <1>6 DEF DumpBinary, TypeOK
  <2>4. \A i \in Images : images'[i] <= (IF i < idx'[t] THEN 1 ELSE 0)
    BY <1>0, <1>6, <2>2, <2>3 DEF DumpBinary, IInv, WrittenBelow, TypeOK, Images
  <2>5. MutexHeld' /\ NothingYet'
    BY <1>6 DEF DumpBinary, IInv, MutexHeld, NothingYet, Inside
  <2>6. WrittenBelow'
    BY <1>6, <2>1, <2>4 DEF DumpBinary, WrittenBelow, Inside
  <2>7. ImagesOnce'
    BY <1>0, <2>2, <2>4 DEF ImagesOnce, TypeOK, Images
  <2> QED
    BY <1>0, <2>5, <2>6, <2>7 DEF IInv
<1>7. ASSUME NEW t \in Threads, DumpDone(t) PROVE IInv'
  <2>1. \A u \in Threads : Inside(u) => u = t
    BY <1>7 DEF DumpDone, IInv, MutexHeld, Inside
  <2>2. \A u \in Threads : pc'[u] = IF u = t THEN "serialize" ELSE pc[u]
    BY <1>0, <1>7 DEF DumpDone, ToSerialize, Goto, TypeOK
  <2> QED
    BY <1>0, <1>7, <2>1, <2>2 DEF DumpDone, Released, IInv, MutexHeld, Inside,
       NothingYet, WrittenBelow, ImagesOnce
<1>8. ASSUME NEW t \in Threads, SaveMemory(t, t \in Followed) PROVE IInv'
  BY <1>0, <1>8, InvOther DEF SaveMemory, Goto, PCs
<1>9. ASSUME NEW t \in Threads, SaveMemoryOfFailedCall(t) PROVE IInv'
  BY <1>0, <1>9, InvOther DEF SaveMemoryOfFailedCall, PCs
<1>10. ASSUME NEW t \in Threads, Serialize(t) PROVE IInv'
  BY <1>0, <1>10, InvOther DEF Serialize, Goto, PCs
<1>11. ASSUME NEW t \in Threads, FlushAndReturn(t) PROVE IInv'
  BY <1>0, <1>11, InvOther DEF FlushAndReturn, Goto, PCs
<1>12. ASSUME NEW t \in Threads, Deinit(t) PROVE IInv'
  BY <1>0, <1>12, InvOther DEF Deinit, PCs
<1>13. CASE Kill
  BY <1>0, <1>13 DEF Kill, IInv, MutexHeld, Inside, NothingYet, WrittenBelow, ImagesOnce
<1>14. CASE UNCHANGED vars
  BY <1>0, <1>14 DEF vars, IInv, MutexHeld, Inside, NothingYet, WrittenBelow, ImagesOnce
<1> QED
  BY <1>1, <1>2, <1>3, <1>4, <1>5, <1>6, <1>7, <1>8, <1>9, <1>10, <1>11, <1>12,
     <1>13, <1>14 DEF Next, Progress

\* The double-checked flag of handleSelectBinary is right: whatever threads
\* race for the first piextDeviceSelectBinary, no image file is written
\* twice.
THEOREM ImagesWrittenOnce == Spec => []ImagesOnce
<1>1. Init => IInv
  BY InvInit
<1>2. IInv /\ [Next]_vars => IInv'
  BY InvStep
<1>3. IInv => ImagesOnce
  BY DEF IInv
<1> QED
  BY <1>1, <1>2, <1>3, PTL DEF Spec

(***************************************************************************)
(* The files.  What a thread has written is tied to where the thread is:   *)
(* between two calls the buffer is empty and the file is not ahead of the  *)
(* calls that returned; before the flush the record of the current call is *)
(* in the buffer, in the file, or lost.                                    *)
(***************************************************************************)

\* The record of the call that t is in.
CurrentRecord(t) == Record(call[t], Current(t), WriteMemObj)

\* The file has no record of the call that t is in.
Behind(t) == \A i \in DOMAIN trace[t] : trace[t][i].n <= Len(done[t])

\* The thread's handler exists since its first call, and its stream is open
\* exactly when the kernel lets the thread open files.
HandlerInv(t) ==
  /\ GRecordHandler[t] = NoFile => done[t] = <<>> /\ pc[t] = "idle" /\ ~good[t]
  /\ GRecordHandler[t] # NoFile /\ t \in Followed => good[t]
  /\ good[t] => t \in Followed

\* The call is one of the program's; only piextDeviceSelectBinary is between
\* the look at the flag and the end of the loop over the images.
CallInv(t) ==
  /\ pc[t] # "idle" => call[t] \in Program
  /\ pc[t] \in {"lock", "recheck", "collect", "dump"} => call[t].api = SelectBinary

\* Before the flush the record is in the buffer, was written ahead, or is
\* lost: with a stream that did not open or in the race for the images.
AtFlush(t) ==
  \/ good[t] /\ stream[t] = <<CurrentRecord(t)>> /\ Behind(t)
  \/ /\ good[t] /\ stream[t] = <<>> /\ trace[t] # <<>>
     /\ trace[t][Len(trace[t])] = CurrentRecord(t)
  \/ /\ stream[t] = <<>> /\ Behind(t)
     /\ \/ call[t].api = SelectBinary /\ Current(t) \in lost[t]
        \/ ~good[t]

FileInv(t) ==
  /\ ~good[t] => trace[t] = <<>>
  /\ \A i \in DOMAIN trace[t] : trace[t][i].n <= Current(t)
  /\ pc[t] # "flush" => stream[t] = <<>> /\ Behind(t)
  /\ pc[t] = "flush" => AtFlush(t)

\* A memory object file is complete before its record leaves the handler.
MemoryInv(t) ==
  t \in Followed =>
    /\ pc[t] = "serialize" /\ SavesMemory(call[t], WriteMemObj) => Current(t) \in memFiles[t]
    /\ \A i \in DOMAIN stream[t] : stream[t][i].mem => stream[t][i].n \in memFiles[t]
    /\ \A i \in DOMAIN trace[t] : trace[t][i].mem => trace[t][i].n \in memFiles[t]

\* Only a piextDeviceSelectBinary takes the early return, and it has no other
\* step before the flush.
LostInv(t) ==
  /\ \A n \in lost[t] : n <= Current(t)
  /\ Current(t) \in lost[t] => pc[t] = "flush" /\ call[t].api = SelectBinary
  /\ \A n \in DOMAIN done[t] : n \in lost[t] => done[t][n].api = SelectBinary

\* Every returned call that did not take it is in the file.
CompleteInv(t) ==
  good[t] => \A n \in DOMAIN done[t] : n \notin lost[t] => InTrace(t, n)

\* The records are in the order of the calls.
Sorted(s) == \A i, j \in DOMAIN s : i < j => s[i].n < s[j].n

ThreadInv(t) == /\ HandlerInv(t) /\ CallInv(t) /\ FileInv(t) /\ MemoryInv(t)
                /\ LostInv(t) /\ CompleteInv(t) /\ Sorted(trace[t])

LogInv == TypeOK /\ \A t \in Threads : ThreadInv(t)

\* What the parts of the invariant say of thread t.
View(t) == <<GRecordHandler[t], good[t], pc[t], done[t], call[t], stream[t], trace[t],
             lost[t], memFiles[t]>>

\* A thread whose part of the state does not change keeps its invariant.
LEMMA ViewKept ==
  ASSUME NEW t \in Threads, ThreadInv(t), View(t)' = View(t)
  PROVE  ThreadInv(t)'
BY DEF View, ThreadInv, HandlerInv, CallInv, FileInv, MemoryInv, LostInv, CompleteInv,
       AtFlush, Behind, Current, CurrentRecord, InTrace, Sorted

\* Appending to the file, and what it leaves alone.
LEMMA AppendFacts ==
  ASSUME NEW S, NEW s \in Seq(S), NEW r \in S
  PROVE  /\ Append(s, r) \in Seq(S)
         /\ Len(Append(s, r)) = Len(s) + 1
         /\ Append(s, r) # <<>>
         /\ DOMAIN Append(s, r) = 1 .. Len(s) + 1
         /\ DOMAIN s = 1 .. Len(s)
         /\ \A i \in 1 .. Len(s) : Append(s, r)[i] = s[i]
         /\ Append(s, r)[Len(s) + 1] = r
OBVIOUS

\* The numbers of the calls in a file are numbers.
LEMMA RecordNumbers ==
  ASSUME NEW s \in Seq(Records)
  PROVE  \A i \in DOMAIN s : s[i].n \in Nat
<1>1. \A r \in Records : r.n \in Nat
  BY DEF Records
<1>2. \A i \in DOMAIN s : s[i] \in Records
  OBVIOUS
<1> QED
  BY <1>1, <1>2

\* A record with a number above all others keeps the order.
LEMMA SortedAppend ==
  ASSUME NEW s \in Seq(Records), Sorted(s), NEW r \in Records,
         \A i \in DOMAIN s : s[i].n < r.n
  PROVE  Sorted(Append(s, r))
<1>1. /\ DOMAIN Append(s, r) = 1 .. Len(s) + 1 /\ DOMAIN s = 1 .. Len(s)
      /\ \A i \in 1 .. Len(s) : Append(s, r)[i] = s[i]
      /\ Append(s, r)[Len(s) + 1] = r /\ Len(s) \in Nat
  BY AppendFacts
<1> SUFFICES ASSUME NEW i \in 1 .. Len(s) + 1, NEW j \in 1 .. Len(s) + 1, i < j
             PROVE  Append(s, r)[i].n < Append(s, r)[j].n
  BY <1>1 DEF Sorted
<1>2. i \in 1 .. Len(s) /\ Append(s, r)[i] = s[i]
  BY <1>1
<1>3. CASE j = Len(s) + 1
  BY <1>1, <1>2, <1>3
<1>4. CASE j \in 1 .. Len(s)
  BY <1>1, <1>2, <1>4 DEF Sorted
<1> QED
  BY <1>1, <1>3, <1>4

\* Flushing an empty buffer, and one with a record in it.
LEMMA FlushFacts ==
  ASSUME NEW S, NEW s \in Seq(S), NEW r \in S
  PROVE  s \o <<>> = s /\ s \o <<r>> = Append(s, r)
<1>1. s \o <<>> = s
  OBVIOUS
<1>2. s \o <<r>> = Append(s, r)
  <2>1. <<r>> \in Seq(S) /\ s \o <<r>> \in Seq(S) /\ Append(s, r) \in Seq(S)
    OBVIOUS
  <2>2. Len(s \o <<r>>) = Len(s) + 1 /\ Len(Append(s, r)) = Len(s) + 1
    OBVIOUS
  <2>3. \A i \in 1 .. Len(s) + 1 : (s \o <<r>>)[i] = Append(s, r)[i]
    OBVIOUS
  <2> QED
    BY <2>1, <2>2, <2>3
<1> QED
  BY <1>1, <1>2

\* The initial state.
LEMMA LogInit ==
  ASSUME Init
  PROVE  LogInv
<1>1. TypeOK
  BY TypeInit
<1>2. ASSUME NEW t \in Threads PROVE ThreadInv(t)
  BY DEF Init, ThreadInv, HandlerInv, CallInv, FileInv, MemoryInv, LostInv, CompleteInv,
         Behind, Current, Sorted
<1> QED
  BY <1>1, <1>2 DEF LogInv

\* An action of t that writes nothing.
LEMMA QuietStep ==
  ASSUME TypeOK, TypeOK', NEW t \in Threads, ThreadInv(t),
         HandlerInv(t)', CallInv(t)',
         pc[t] # "flush", pc'[t] # "flush",
         pc'[t] = "serialize" /\ SavesMemory(call'[t], WriteMemObj) /\ t \in Followed
           => Current(t) \in memFiles'[t],
         good[t] => good'[t],
         GRecordHandler[t] # NoFile => good'[t] = good[t],
         done'[t] = done[t], stream'[t] = stream[t], trace'[t] = trace[t],
         lost'[t] = lost[t],
         memFiles[t] \subseteq memFiles'[t]
  PROVE  ThreadInv(t)'
<1>1. FileInv(t)'
  BY DEF ThreadInv, FileInv, HandlerInv, Behind, Current
<1>2. MemoryInv(t)'
  BY DEF ThreadInv, MemoryInv, FileInv, Current
<1>3. CompleteInv(t)'
  BY DEF ThreadInv, HandlerInv, CompleteInv, InTrace
<1>4. LostInv(t)' /\ Sorted(trace[t])'
  BY DEF ThreadInv, LostInv, Current, Sorted
<1> QED
  BY <1>1, <1>2, <1>3, <1>4 DEF ThreadInv

\* serialize puts the record of the call in the buffer or in the file.
LEMMA SerializeStep ==
  ASSUME TypeOK, TypeOK', NEW t \in Threads, ThreadInv(t), Serialize(t)
  PROVE  ThreadInv(t)'
<1> DEFINE rec == CurrentRecord(t)
<1>1. /\ pc[t] = "serialize" /\ pc'[t] = "flush"
      /\ UNCHANGED <<GRecordHandler, good, done, call, lost, memFiles>>
  BY DEF Serialize, Goto, TypeOK
<1>2. /\ rec \in Records /\ rec.n = Current(t) /\ Current(t) = Len(done[t]) + 1
      /\ rec.mem = SavesMemory(call[t], WriteMemObj) /\ Len(done[t]) \in Nat
      /\ rec = CurrentRecord(t)'
  BY <1>1, RecordType DEF CurrentRecord, Record, Current, TypeOK
<1>3. stream[t] = <<>> /\ Behind(t) /\ trace[t] \in Seq(Records) /\ stream[t] \in Seq(Records)
  BY <1>1 DEF ThreadInv, FileInv, TypeOK
<1>4. HandlerInv(t)' /\ CallInv(t)' /\ LostInv(t)'
  BY <1>1 DEF ThreadInv, HandlerInv, CallInv, LostInv, Current
<1>5. CASE good[t] /\ stream' = [stream EXCEPT ![t] = Append(@, rec)] /\ UNCHANGED trace
  <2>1. stream'[t] = <<rec>> /\ trace'[t] = trace[t]
    BY <1>3, <1>5 DEF TypeOK
  <2>2. FileInv(t)'
    BY <1>1, <1>2, <1>3, <1>5, <2>1 DEF ThreadInv, FileInv, AtFlush, Behind, Current
  <2>3. MemoryInv(t)'
    <3>1. DOMAIN stream'[t] = {1} /\ stream'[t][1] = rec
      BY <2>1
    <3> QED
      BY <1>1, <1>2, <2>1, <3>1 DEF ThreadInv, MemoryInv, Current
  <2>4. CompleteInv(t)' /\ Sorted(trace[t])'
    BY <1>1, <2>1 DEF ThreadInv, CompleteInv, InTrace, Sorted
  <2> QED
    BY <1>4, <2>2, <2>3, <2>4 DEF ThreadInv
<1>6. CASE good[t] /\ trace' = [trace EXCEPT ![t] = Append(@, rec)] /\ UNCHANGED stream
  <2>1. stream'[t] = <<>> /\ trace'[t] = Append(trace[t], rec)
    BY <1>3, <1>6 DEF TypeOK
  <2>2. /\ Len(trace'[t]) = Len(trace[t]) + 1 /\ trace'[t] # <<>>
        /\ DOMAIN trace'[t] = 1 .. Len(trace[t]) + 1 /\ DOMAIN trace[t] = 1 .. Len(trace[t])
        /\ \A i \in 1 .. Len(trace[t]) : trace'[t][i] = trace[t][i]
        /\ trace'[t][Len(trace[t]) + 1] = rec /\ Len(trace[t]) \in Nat
    BY <1>2, <1>3, <2>1, AppendFacts
  <2>3. FileInv(t)'
    <3>1. \A i \in DOMAIN trace[t] : trace[t][i].n <= Len(done[t]) /\ trace[t][i].n \in Nat
      BY <1>3, RecordNumbers DEF Behind
    <3>2. ASSUME NEW i \in DOMAIN trace'[t] PROVE trace'[t][i].n <= Current(t)
      <4>1. CASE i \in 1 .. Len(trace[t])
        BY <1>2, <2>2, <3>1, <4>1
      <4>2. CASE i = Len(trace[t]) + 1
        BY <1>2, <2>2, <4>2
      <4> QED
        BY <2>2, <4>1, <4>2
    <3> QED
      BY <1>1, <1>2, <1>6, <2>1, <2>2, <3>2 DEF FileInv, AtFlush, Current
  <2>4. MemoryInv(t)'
    BY <1>1, <1>2, <2>1, <2>2 DEF ThreadInv, MemoryInv, Current
  <2>5. CompleteInv(t)'
    BY <1>1, <2>2 DEF ThreadInv, CompleteInv, InTrace
  <2>6. Sorted(trace'[t])
    <3>1. \A i \in DOMAIN trace[t] : trace[t][i].n < rec.n
      BY <1>2, <1>3, RecordNumbers DEF Behind
    <3> QED
      BY <1>2, <1>3, <2>1, <3>1, SortedAppend DEF ThreadInv
  <2>7. Sorted(trace[t])'
    BY <2>6 DEF Sorted
  <2> QED
    BY <1>4, <2>3, <2>4, <2>5, <2>7 DEF ThreadInv
<1>7. CASE ~good[t] /\ UNCHANGED <<stream, trace>>
  <2>1. FileInv(t)'
    BY <1>1, <1>3, <1>7 DEF ThreadInv, FileInv, AtFlush, Behind, Current
  <2>2. MemoryInv(t)' /\ CompleteInv(t)' /\ Sorted(trace[t])'
    BY <1>1, <1>3, <1>7 DEF ThreadInv, MemoryInv, CompleteInv, InTrace, Current, Sorted
  <2> QED
    BY <1>4, <2>1, <2>2 DEF ThreadInv
<1> QED
  BY <1>5, <1>6, <1>7 DEF Serialize, CurrentRecord

\* The flush brings the file up to date with the call that returns.
LEMMA FlushStep ==
  ASSUME TypeOK, TypeOK', NEW t \in Threads, ThreadInv(t), FlushAndReturn(t)
  PROVE  ThreadInv(t)'
<1> DEFINE rec == CurrentRecord(t)
           n == Len(done[t]) + 1
<1>1. /\ pc[t] = "flush" /\ pc'[t] = "idle"
      /\ UNCHANGED <<GRecordHandler, good, call, lost, memFiles>>
      /\ stream'[t] = <<>> /\ trace'[t] = trace[t] \o stream[t]
      /\ done'[t] = Append(done[t], call[t])
  BY DEF FlushAndReturn, Flushed, Emptied, Goto, TypeOK
<1>2. /\ rec \in Records /\ rec.n = n /\ n = Current(t) /\ Len(done[t]) \in Nat
      /\ rec = Record(call[t], n, WriteMemObj)
  BY RecordType DEF CurrentRecord, Record, Current, TypeOK
<1>3. /\ Len(done'[t]) = n /\ done'[t] # <<>>
      /\ DOMAIN done'[t] = 1 .. n /\ DOMAIN done[t] = 1 .. n - 1
      /\ \A k \in 1 .. n - 1 : done'[t][k] = done[t][k]
      /\ done'[t][n] = call[t]
  BY <1>1, AppendFacts DEF TypeOK
<1>4. trace[t] \in Seq(Records) /\ Len(trace[t]) \in Nat /\ DOMAIN trace[t] = 1 .. Len(trace[t])
  BY DEF TypeOK
<1>5. GRecordHandler[t] # NoFile
  BY <1>1 DEF ThreadInv, HandlerInv
<1>6. HandlerInv(t)' /\ CallInv(t)' /\ LostInv(t)'
  <2>1. HandlerInv(t)' /\ CallInv(t)'
    BY <1>1, <1>5 DEF ThreadInv, HandlerInv, CallInv
  <2>2. /\ \A m \in lost[t] : m <= n /\ m \in Nat
        /\ n \in lost[t] => call[t].api = SelectBinary
        /\ \A m \in DOMAIN done[t] : m \in lost[t] => done[t][m].api = SelectBinary
    BY <1>2 DEF ThreadInv, LostInv, TypeOK
  <2>3. \A m \in lost[t] : m <= n + 1 /\ m # n + 1
    BY <1>2, <2>2
  <2>4. \A m \in 1 .. n : m \in lost[t] => done'[t][m].api = SelectBinary
    BY <1>2, <1>3, <2>2
  <2> QED
    BY <1>1, <1>3, <2>1, <2>3, <2>4 DEF LostInv, Current
<1>7. AtFlush(t)
  BY <1>1 DEF ThreadInv, FileInv
<1>8. CASE good[t] /\ stream[t] = <<rec>> /\ Behind(t)
  <2>1. trace'[t] = Append(trace[t], rec)
    BY <1>1, <1>2, <1>4, <1>8, FlushFacts
  <2>2. /\ DOMAIN trace'[t] = 1 .. Len(trace[t]) + 1
        /\ \A i \in 1 .. Len(trace[t]) : trace'[t][i] = trace[t][i]
        /\ trace'[t][Len(trace[t]) + 1] = rec
    BY <1>2, <1>4, <2>1, AppendFacts
  <2>3. FileInv(t)'
    <3>1. \A i \in DOMAIN trace[t] : trace[t][i].n <= Len(done[t]) /\ trace[t][i].n \in Nat
      BY <1>4, <1>8, RecordNumbers DEF Behind
    <3>2. ASSUME NEW i \in DOMAIN trace'[t]
          PROVE  trace'[t][i].n <= n /\ trace'[t][i].n <= n + 1
      <4>1. i \in 1 .. Len(trace[t]) \/ i = Len(trace[t]) + 1
        BY <1>4, <2>2
      <4>2. n \in Nat /\ rec.n = n
        BY <1>2
      <4>3. CASE i \in 1 .. Len(trace[t])
        <5>1. trace'[t][i] = trace[t][i] /\ i \in DOMAIN trace[t]
          BY <1>4, <2>2, <4>3
        <5> QED
          BY <1>2, <3>1, <5>1
      <4>4. CASE i = Len(trace[t]) + 1
        BY <2>2, <4>2, <4>4
      <4> QED
        BY <4>1, <4>3, <4>4
    <3> QED
      BY <1>1, <1>3, <1>8, <3>2 DEF FileInv, Behind, Current
  <2>4. MemoryInv(t)'
    <3>1. DOMAIN stream[t] = {1} /\ stream[t][1] = rec /\ DOMAIN stream'[t] = {}
      BY <1>1, <1>8
    <3>2. t \in Followed => \A i \in DOMAIN trace'[t] : trace'[t][i].mem => trace'[t][i].n \in memFiles[t]
      <4> SUFFICES ASSUME t \in Followed, NEW i \in DOMAIN trace'[t], trace'[t][i].mem
                   PROVE  trace'[t][i].n \in memFiles[t]
        OBVIOUS
      <4>1. i \in 1 .. Len(trace[t]) \/ i = Len(trace[t]) + 1
        BY <1>4, <2>2
      <4> QED
        BY <1>4, <2>2, <3>1, <4>1 DEF ThreadInv, MemoryInv
    <3> QED
      BY <1>1, <3>1, <3>2 DEF MemoryInv
  <2>5. CompleteInv(t)'
    <3> SUFFICES ASSUME good[t], NEW k \in 1 .. n, k \notin lost[t]
                 PROVE  \E i \in DOMAIN trace'[t] : trace'[t][i] = Record(done'[t][k], k, WriteMemObj)
      BY <1>1, <1>3 DEF CompleteInv, InTrace
    <3>1. CASE k = n
      BY <1>2, <1>3, <1>4, <2>2, <3>1
    <3>2. CASE k # n
      <4>1. k \in DOMAIN done[t] /\ done'[t][k] = done[t][k]
        BY <1>2, <1>3, <3>2
      <4>2. PICK i \in DOMAIN trace[t] : trace[t][i] = Record(done[t][k], k, WriteMemObj)
        BY <4>1 DEF ThreadInv, CompleteInv, InTrace
      <4> QED
        BY <1>4, <2>2, <4>1, <4>2
    <3> QED
      BY <3>1, <3>2
  <2>6. Sorted(trace'[t])
    <3>1. \A i \in DOMAIN trace[t] : trace[t][i].n < rec.n
      BY <1>2, <1>4, <1>8, RecordNumbers DEF Behind
    <3> QED
      BY <1>2, <1>4, <2>1, <3>1, SortedAppend DEF ThreadInv
  <2>7. Sorted(trace[t])'
    BY <2>6 DEF Sorted
  <2> QED
    BY <1>6, <2>3, <2>4, <2>5, <2>7 DEF ThreadInv
<1>9. CASE stream[t] = <<>>
  <2>1. trace'[t] = trace[t]
    BY <1>1, <1>2, <1>4, <1>9, FlushFacts
  <2>2. FileInv(t)'
    <3>1. \A i \in DOMAIN trace[t] : trace[t][i].n <= n /\ trace[t][i].n \in Nat
      BY <1>2, <1>4, RecordNumbers DEF ThreadInv, FileInv
    <3>2. \A i \in DOMAIN trace[t] : trace[t][i].n <= n + 1
      BY <1>2, <3>1
    <3> QED
      BY <1>1, <1>3, <2>1, <3>1, <3>2 DEF ThreadInv, FileInv, Behind, Current
  <2>3. MemoryInv(t)'
    BY <1>1, <2>1 DEF ThreadInv, MemoryInv
  <2>4. CompleteInv(t)'
    <3>1. good[t] /\ n \notin lost[t] => \E i \in DOMAIN trace[t] : trace[t][i] = rec
      <4>1. trace[t] # <<>> => Len(trace[t]) \in DOMAIN trace[t]
        BY <1>4
      <4>2. <<rec>> # <<>>
        OBVIOUS
      <4> QED
        BY <1>2, <1>7, <1>9, <4>1, <4>2 DEF AtFlush
    <3> QED
      BY <1>1, <1>2, <1>3, <2>1, <3>1 DEF ThreadInv, CompleteInv, InTrace
  <2>5. Sorted(trace[t])'
    BY <2>1 DEF ThreadInv, Sorted
  <2> QED
    BY <1>6, <2>2, <2>3, <2>4, <2>5 DEF ThreadInv
<1> QED
  BY <1>7, <1>8, <1>9 DEF AtFlush

\* Every action of a thread keeps the invariant of that thread.
LEMMA ThreadStep ==
  ASSUME TypeOK, TypeOK', NEW t \in Threads, ThreadInv(t),
         \/ \E c \in Program : BeginCallback(t, c, t, t \in Followed)
         \/ Progress(t, t \in Followed)
         \/ Deinit(t)
  PROVE  ThreadInv(t)'
<1> USE ConstantsAssumption DEF ConstantsAssumption
<1>1. ASSUME NEW c \in Program, BeginCallback(t, c, t, t \in Followed)
      PROVE  ThreadInv(t)'
  <2>1. /\ pc[t] = "idle" /\ pc'[t] = "incall" /\ call'[t] = c
        /\ done' = done /\ stream' = stream /\ trace' = trace /\ lost' = lost
        /\ memFiles' = memFiles
    BY <1>1 DEF BeginCallback, Goto, TypeOK
  <2>2. /\ GRecordHandler[t] = NoFile =>
             GRecordHandler'[t] = t /\ (good'[t] <=> t \in Followed)
        /\ GRecordHandler[t] # NoFile =>
             GRecordHandler'[t] = GRecordHandler[t] /\ good'[t] = good[t]
    BY <1>1 DEF BeginCallback, TypeOK
  <2>3. HandlerInv(t)' /\ CallInv(t)'
    BY <2>1, <2>2 DEF ThreadInv, HandlerInv, CallInv
  <2>4. good[t] => good'[t]
    BY <2>2 DEF ThreadInv, HandlerInv
  <2> QED
    BY <2>1, <2>2, <2>3, <2>4, QuietStep
<1>2. CASE EndCallback(t)
  <2>1. /\ pc[t] = "incall"
        /\ pc'[t] = IF call[t].api = SelectBinary /\ ~GBinariesCollected THEN "lock"
                    ELSE IF SavesMemory(call[t], WriteMemObj) THEN "save" ELSE "serialize"
        /\ UNCHANGED <<GRecordHandler, good, done, call, stream, trace, lost, memFiles>>
    BY <1>2 DEF EndCallback, Goto, TypeOK
  <2>2. HandlerInv(t)' /\ CallInv(t)'
    BY <2>1 DEF ThreadInv, HandlerInv, CallInv
  <2> QED
    BY <2>1, <2>2, QuietStep
<1>3. CASE Lock(t)
  <2>1. /\ pc[t] = "lock" /\ pc'[t] = "recheck"
        /\ UNCHANGED <<GRecordHandler, good, done, call, stream, trace, lost, memFiles>>
    BY <1>3 DEF Lock, Goto, TypeOK
  <2>2. HandlerInv(t)' /\ CallInv(t)'
    BY <2>1 DEF ThreadInv, HandlerInv, CallInv
  <2> QED
    BY <2>1, <2>2, QuietStep
<1>4. CASE Recheck(t)
  <2>1. /\ pc[t] = "recheck" /\ pc'[t] \in {"flush", "collect"}
        /\ UNCHANGED <<GRecordHandler, good, done, call, stream, trace, memFiles>>
        /\ pc'[t] = "flush" => lost'[t] = lost[t] \cup {Current(t)}
        /\ pc'[t] = "collect" => lost'[t] = lost[t]
    BY <1>4 DEF Recheck, Goto, TypeOK
  <2>2. HandlerInv(t)' /\ CallInv(t)'
    BY <2>1 DEF ThreadInv, HandlerInv, CallInv
  <2>3. CASE pc'[t] = "collect"
    BY <2>1, <2>2, <2>3, QuietStep
  <2>4. CASE pc'[t] = "flush"
    <3>1. FileInv(t)'
      BY <2>1, <2>4 DEF ThreadInv, CallInv, FileInv, AtFlush, Behind, Current
    <3>2. MemoryInv(t)' /\ CompleteInv(t)' /\ Sorted(trace[t])'
      BY <2>1, <2>4 DEF ThreadInv, MemoryInv, CompleteInv, InTrace, Sorted
    <3>3. LostInv(t)'
      <4>1. /\ Current(t) = Len(done[t]) + 1 /\ Len(done[t]) \in Nat
            /\ DOMAIN done[t] = 1 .. Len(done[t])
        BY DEF Current, TypeOK
      <4>2. call'[t].api = SelectBinary /\ Current(t)' = Current(t)
        BY <2>1 DEF ThreadInv, CallInv, Current
      <4>3. \A n \in DOMAIN done[t] : n # Current(t)
        BY <4>1
      <4> QED
        BY <2>1, <2>4, <4>1, <4>2, <4>3 DEF ThreadInv, LostInv
    <3> QED
      BY <2>2, <3>1, <3>2, <3>3 DEF ThreadInv
  <2> QED
    BY <2>1, <2>3, <2>4
<1>5. CASE Collect(t)
  <2>1. /\ pc[t] = "collect" /\ pc'[t] = "dump"
        /\ UNCHANGED <<GRecordHandler, good, done, call, stream, trace, lost, memFiles>>
    BY <1>5 DEF Collect, Goto, TypeOK
  <2>2. HandlerInv(t)' /\ CallInv(t)'
    BY <2>1 DEF ThreadInv, HandlerInv, CallInv
  <2> QED
    BY <2>1, <2>2, QuietStep
<1>6. CASE DumpBinary(t, t \in Followed)
  BY <1>6, ViewKept DEF DumpBinary, View
<1>7. CASE DumpDone(t)
  <2>1. /\ pc[t] = "dump" /\ pc'[t] = "serialize"
        /\ UNCHANGED <<GRecordHandler, good, done, call, stream, trace, lost, memFiles>>
    BY <1>7 DEF DumpDone, ToSerialize, Goto, TypeOK
  <2>2. HandlerInv(t)' /\ CallInv(t)'
    BY <2>1 DEF ThreadInv, HandlerInv, CallInv
  <2>3. ~SavesMemory(call'[t], WriteMemObj)
    BY <2>1 DEF ThreadInv, CallInv, SavesMemory, SelectBinary, TransferApis
  <2> QED
    BY <2>1, <2>2, <2>3, QuietStep
<1>8. CASE SaveMemory(t, t \in Followed)
  <2>1. /\ pc[t] = "save" /\ pc'[t] = "serialize"
        /\ UNCHANGED <<GRecordHandler, good, done, call, stream, trace, lost>>
        /\ memFiles'[t] = IF t \in Followed THEN memFiles[t] \cup {Current(t)} ELSE memFiles[t]
    BY <1>8 DEF SaveMemory, SavedForCall, Goto, TypeOK
  <2>2. HandlerInv(t)' /\ CallInv(t)'
    BY <2>1 DEF ThreadInv, HandlerInv, CallInv
  <2> QED
    BY <2>1, <2>2, QuietStep
<1>9. CASE SaveMemoryOfFailedCall(t)
  BY <1>9, ViewKept DEF SaveMemoryOfFailedCall, View
<1>10. CASE Serialize(t)
  BY <1>10, SerializeStep
<1>11. CASE FlushAndReturn(t)
  BY <1>11, FlushStep
<1>12. CASE Deinit(t)
  <2>1. stream[t] = <<>>
    BY <1>12 DEF Deinit, ThreadInv, FileInv
  <2>2. trace[t] \o <<>> = trace[t]
    BY DEF TypeOK
  <2>3. View(t)' = View(t)
    BY <1>12, <2>1, <2>2 DEF Deinit, View, TypeOK
  <2> QED
    BY <2>3, ViewKept
<1> QED
  BY <1>1, <1>2, <1>3, <1>4, <1>5, <1>6, <1>7, <1>8, <1>9, <1>10, <1>11, <1>12 DEF Progress

\* No action of a thread touches the part of another.
LEMMA OtherThreads ==
  ASSUME TypeOK, NEW t \in Threads, NEW u \in Threads, u # t,
         \/ \E c \in Program : BeginCallback(t, c, t, t \in Followed)
         \/ Progress(t, t \in Followed)
         \/ Deinit(t)
  PROVE  View(u)' = View(u)
<1> USE DEF TypeOK, View, Goto
<1>1. ASSUME NEW c \in Program, BeginCallback(t, c, t, t \in Followed)
      PROVE  View(u)' = View(u)
  BY <1>1 DEF BeginCallback
<1>2. CASE EndCallback(t) \/ Lock(t) \/ Recheck(t) \/ Collect(t) \/ DumpDone(t)
  BY <1>2 DEF EndCallback, Lock, Recheck, Collect, DumpDone
<1>3. CASE DumpBinary(t, t \in Followed) \/ SaveMemory(t, t \in Followed)
           \/ SaveMemoryOfFailedCall(t)
  BY <1>3 DEF DumpBinary, SaveMemory, SaveMemoryOfFailedCall
<1>4. CASE Serialize(t) \/ FlushAndReturn(t) \/ Deinit(t)
  BY <1>4 DEF Serialize, FlushAndReturn, Deinit
<1> QED
  BY <1>1, <1>2, <1>3, <1>4 DEF Progress

\* Every step keeps the invariant of every thread.
LEMMA LogStep ==
  ASSUME LogInv, [Next]_vars
  PROVE  LogInv'
<1>1. TypeOK /\ TypeOK'
  BY TypeStep DEF LogInv
<1>2. ASSUME NEW t \in Threads,
             \/ \E c \in Program : BeginCallback(t, c, t, t \in Followed)
             \/ Progress(t, t \in Followed)
             \/ Deinit(t)
      PROVE  LogInv'
  <2>1. ThreadInv(t)'
    BY <1>1, <1>2, ThreadStep DEF LogInv
  <2>2. ASSUME NEW u \in Threads, u # t PROVE ThreadInv(u)'
    BY <1>1, <1>2, <2>2, OtherThreads, ViewKept DEF LogInv
  <2> QED
    BY <1>1, <2>1, <2>2 DEF LogInv
<1>3. ASSUME Kill \/ UNCHANGED vars PROVE LogInv'
  <2>1. ASSUME NEW u \in Threads PROVE View(u)' = View(u)
    BY <1>3 DEF Kill, vars, View
  <2> QED
    BY <1>1, <2>1, ViewKept DEF LogInv
<1> QED
  BY <1>2, <1>3 DEF Next

\* Where every thread is tied to what it has written, at every moment.
THEOREM LogInvariance == Spec => []LogInv
<1>1. Init => LogInv
  BY LogInit
<1>2. LogInv /\ [Next]_vars => LogInv'
  BY LogStep
<1> QED
  BY <1>1, <1>2, PTL DEF Spec

\* Whenever the process dies, every call that has returned to the program is in
\* the thread's file, in order and once, but for calls that lost the race for
\* the images: the end callback flushes before it returns.
THEOREM TraceAlwaysComplete == Spec => []TraceComplete
<1>1. LogInv => TraceComplete
  BY DEF LogInv, ThreadInv, LostInv, CompleteInv, Sorted, TraceComplete
<1> QED
  BY <1>1, LogInvariance, PTL

\* A trace never names a memory object file that is not complete.
THEOREM MemoryAlwaysThere == Spec => []MemoryBeforeRecord
<1>1. LogInv => MemoryBeforeRecord
  BY DEF LogInv, ThreadInv, MemoryInv, MemoryBeforeRecord
<1> QED
  BY <1>1, LogInvariance, PTL

(***************************************************************************)
(* The refinement of RecordLog.  Serialize writes ahead or stutters,       *)
(* FlushAndReturn returns with the entry written now, earlier or never,    *)
(* the two ways to end are Stop, and every other step stutters.            *)
(***************************************************************************)

\* When the file is behind, the log's last entry is not that of the call.
LEMMA BehindNotAhead ==
  ASSUME LogInv, NEW t \in Threads, Behind(t)
  PROVE  ~Log!Ahead(t)
<1>1. trace[t] \in Seq(Records) /\ Len(done[t]) \in Nat
  BY DEF LogInv, TypeOK
<1>2. trace[t] # <<>> => Len(trace[t]) \in DOMAIN trace[t]
  BY <1>1
<1>3. trace[t] # <<>> => trace[t][Len(trace[t])].n \in Nat /\ trace[t][Len(trace[t])].n <= Len(done[t])
  BY <1>1, <1>2, RecordNumbers DEF Behind
<1> QED
  BY <1>1, <1>3 DEF Log!Ahead, Log!NextNumber

\* A record that is written to the file at once is written ahead.
LEMMA SerializeLogs ==
  ASSUME LogInv, NEW t \in Threads, Serialize(t)
  PROVE  Log!Next \/ UNCHANGED Log!logVars
<1>1. /\ pc[t] = "serialize" /\ ~ended /\ UNCHANGED <<done, ended>>
      /\ call[t] \in Program /\ Behind(t) /\ (good[t] => t \in Followed)
  BY DEF Serialize, LogInv, ThreadInv, CallInv, FileInv, HandlerInv
<1>2. CASE UNCHANGED trace
  BY <1>1, <1>2 DEF Log!logVars
<1>3. CASE good[t] /\ trace' = [trace EXCEPT ![t] = Append(@, CurrentRecord(t))]
  <2>1. Log!WriteAhead(t, call[t])
    BY <1>1, <1>3, BehindNotAhead
       DEF Log!WriteAhead, Log!NextNumber, LoggedEntry, CurrentRecord, Current
  <2> QED
    BY <1>1, <2>1 DEF Log!Next
<1> QED
  BY <1>2, <1>3 DEF Serialize, CurrentRecord

\* The callback returns when the entry is in the log, or lost.
LEMMA FlushLogs ==
  ASSUME LogInv, NEW t \in Threads, FlushAndReturn(t)
  PROVE  Log!Next
<1> DEFINE rec == CurrentRecord(t)
<1>1. /\ pc[t] = "flush" /\ ~ended /\ ended' = ended
      /\ done' = [done EXCEPT ![t] = Append(@, call[t])]
      /\ trace' = [trace EXCEPT ![t] = trace[t] \o stream[t]]
      /\ call[t] \in Program /\ AtFlush(t) /\ (good[t] => t \in Followed)
      /\ GRecordHandler[t] # NoFile
  BY DEF FlushAndReturn, Flushed, LogInv, ThreadInv, CallInv, FileInv, HandlerInv
<1>2. /\ trace \in [Threads -> Seq(Records)] /\ rec \in Records
      /\ rec = LoggedEntry(call[t], Log!NextNumber(t)) /\ rec.n = Log!NextNumber(t)
  BY RecordType DEF LogInv, TypeOK, CurrentRecord, Current, LoggedEntry, Log!NextNumber, Record
<1>3. stream[t] = <<>> => UNCHANGED trace
  BY <1>1, <1>2, FlushFacts
<1>4. CASE good[t] /\ stream[t] = <<rec>> /\ Behind(t)
  <2>1. trace' = [trace EXCEPT ![t] = Append(@, rec)]
    <3>1. trace[t] \o stream[t] = Append(trace[t], rec)
      BY <1>2, <1>4, FlushFacts
    <3> QED
      BY <1>1, <3>1
  <2>2. Log!Return(t, call[t])
    BY <1>1, <1>2, <1>4, <2>1, BehindNotAhead DEF Log!Return
  <2> QED
    BY <1>1, <2>2 DEF Log!Next
<1>5. CASE /\ good[t] /\ stream[t] = <<>> /\ trace[t] # <<>>
           /\ trace[t][Len(trace[t])] = rec
  <2>1. Log!Return(t, call[t])
    BY <1>1, <1>2, <1>3, <1>5 DEF Log!Return, Log!Ahead
  <2> QED
    BY <1>1, <2>1 DEF Log!Next
<1>6. CASE stream[t] = <<>> /\ Behind(t) /\ (call[t].api = SelectBinary \/ ~good[t])
  <2>1. t \notin Followed \/ call[t] \in {c \in Program : c.api = SelectBinary}
    BY <1>1, <1>6 DEF LogInv, ThreadInv, HandlerInv
  <2>2. Log!Return(t, call[t])
    BY <1>1, <1>3, <1>6, <2>1, BehindNotAhead DEF Log!Return
  <2> QED
    BY <1>1, <2>2 DEF Log!Next
<1> QED
  BY <1>1, <1>4, <1>5, <1>6 DEF AtFlush

\* Every step of the recorder is a step of the log or leaves it alone.
LEMMA LogRefined ==
  ASSUME LogInv, [Next]_vars
  PROVE  [Log!Next]_(Log!logVars)
<1> USE DEF Log!logVars
<1>1. ASSUME NEW t \in Threads, NEW c \in Program, BeginCallback(t, c, t, t \in Followed)
      PROVE  UNCHANGED Log!logVars
  BY <1>1 DEF BeginCallback
<1>2. ASSUME NEW t \in Threads,
             EndCallback(t) \/ Lock(t) \/ Recheck(t) \/ Collect(t) \/ DumpDone(t)
             \/ DumpBinary(t, t \in Followed) \/ SaveMemory(t, t \in Followed)
      PROVE  UNCHANGED Log!logVars
  BY <1>2 DEF EndCallback, Lock, Recheck, Collect, DumpDone, DumpBinary, SaveMemory
<1>3. ASSUME NEW t \in Threads, SaveMemoryOfFailedCall(t) PROVE Log!Next
  BY <1>3 DEF SaveMemoryOfFailedCall, Log!Next, Log!Stop
<1>4. ASSUME NEW t \in Threads, Deinit(t) PROVE Log!Next
  <2>1. stream[t] = <<>> /\ trace[t] \o <<>> = trace[t]
    BY <1>4 DEF Deinit, LogInv, ThreadInv, FileInv, TypeOK
  <2>2. UNCHANGED trace
    BY <1>4, <2>1 DEF Deinit, LogInv, TypeOK
  <2> QED
    BY <1>4, <2>2 DEF Deinit, Log!Next, Log!Stop
<1>5. CASE Kill
  BY <1>5 DEF Kill, Log!Next, Log!Stop
<1>6. CASE UNCHANGED vars
  BY <1>6 DEF vars
<1>7. ASSUME NEW t \in Threads, Serialize(t) PROVE Log!Next \/ UNCHANGED Log!logVars
  BY <1>7, SerializeLogs
<1>8. ASSUME NEW t \in Threads, FlushAndReturn(t) PROVE Log!Next
  BY <1>8, FlushLogs
<1> QED
  BY <1>1, <1>2, <1>3, <1>4, <1>5, <1>6, <1>7, <1>8 DEF Next, Progress

\* The recording plugin implements RecordLog: to a reader of the trace files it
\* is one log per thread that is never behind the calls that returned and never
\* more than one entry ahead, and only piextDeviceSelectBinary may be lost.
THEOREM RecorderImplementsLog == Spec => ImplementsLog
<1>1. Init => Log!Init
  BY DEF Init, Log!Init
<1>2. LogInv /\ [Next]_vars => [Log!Next]_(Log!logVars)
  BY LogRefined
<1> QED
  BY <1>1, <1>2, LogInvariance, PTL DEF Spec, ImplementsLog, Log!Spec

(***************************************************************************)
(* Images are complete when every thread may open files, as in a program   *)
(* that is not run under the tool's ptrace loop, or has one thread.        *)
(***************************************************************************)

\* The thread that dumps has written every image below its loop index; when
\* nobody dumps any more, all of them are there.
DumpedBelow ==
  /\ \A t \in Threads : pc[t] = "dump" =>
       \A i \in Images : i < idx[t] => images[i] >= 1
  /\ GBinariesCollected /\ (\A t \in Threads : pc[t] # "dump")
       => \A i \in Images : images[i] >= 1

\* Steps outside handleSelectBinary.
LEMMA DumpedOther ==
  ASSUME DumpedBelow, TypeOK, NEW t \in Threads,
         NEW label \in PCs \ {"dump"}, pc[t] # "dump",
         UNCHANGED <<GBinariesCollected, idx, images>>,
         pc' = pc \/ pc' = [pc EXCEPT ![t] = label]
  PROVE  DumpedBelow'
<1>1. \A u \in Threads : pc'[u] = "dump" <=> pc[u] = "dump"
  BY DEF TypeOK
<1> QED
  BY <1>1 DEF DumpedBelow

\* Every step keeps the images that were written, and the loop leaves none out.
LEMMA DumpedStep ==
  ASSUME Followed = Threads, IInv, DumpedBelow, [Next]_vars
  PROVE  DumpedBelow'
<1> USE ConstantsAssumption DEF ConstantsAssumption
<1>0. TypeOK /\ TypeOK'
  BY TypeStep DEF IInv
<1>1. ASSUME NEW t \in Threads, NEW c \in Program, BeginCallback(t, c, t, t \in Followed)
      PROVE  DumpedBelow'
  BY <1>0, <1>1, DumpedOther DEF BeginCallback, Goto, PCs
<1>2. ASSUME NEW t \in Threads, EndCallback(t) PROVE DumpedBelow'
  BY <1>0, <1>2, DumpedOther DEF EndCallback, Goto, PCs
<1>3. ASSUME NEW t \in Threads, Lock(t) PROVE DumpedBelow'
  BY <1>0, <1>3, DumpedOther DEF Lock, Goto, PCs
<1>4. ASSUME NEW t \in Threads, Recheck(t) PROVE DumpedBelow'
  BY <1>0, <1>4, DumpedOther DEF Recheck, Goto, PCs
<1>5. ASSUME NEW t \in Threads, Collect(t) PROVE DumpedBelow'
  <2>1. \A u \in Threads : pc'[u] = IF u = t THEN "dump" ELSE pc[u]
    BY <1>0, <1>5 DEF Collect, Goto, TypeOK
  <2>2. \A u \in Threads : pc[u] # "dump"
    BY <1>5 DEF Collect, IInv, MutexHeld, NothingYet, Inside
  <2>3. idx'[t] = 0 /\ images' = images
    BY <1>0, <1>5 DEF Collect, TypeOK
  <2> QED
    BY <2>1, <2>2, <2>3 DEF DumpedBelow, Images
<1>6. ASSUME NEW t \in Threads, DumpBinary(t, t \in Followed) PROVE DumpedBelow'
  <2>1. /\ pc' = pc /\ pc[t] = "dump" /\ idx[t] \in Images
        /\ images' = [images EXCEPT ![idx[t]] = @ + 1]
        /\ idx' = [idx EXCEPT ![t] = @ + 1]
    BY <1>0, <1>6 DEF DumpBinary, TypeOK, Images
  <2>2. \A u \in Threads : pc[u] = "dump" => u = t
    BY <2>1 DEF IInv, MutexHeld, Inside
  <2>3. ASSUME NEW i \in Images, i < idx'[t] PROVE images'[i] >= 1
    <3>1. idx'[t] = idx[t] + 1 /\ images[i] \in Nat
      BY <1>0, <2>1 DEF TypeOK
    <3>2. CASE i = idx[t]
      BY <1>0, <2>1, <3>1, <3>2 DEF TypeOK
    <3>3. CASE i # idx[t]
      BY <1>0, <2>1, <2>3, <3>1, <3>3 DEF TypeOK, DumpedBelow, Images
    <3> QED
      BY <3>2, <3>3
  <2> QED
    BY <2>1, <2>2, <2>3 DEF DumpedBelow
<1>7. ASSUME NEW t \in Threads, DumpDone(t) PROVE DumpedBelow'
  <2>1. pc[t] = "dump" /\ idx[t] >= NumBinaries /\ UNCHANGED <<idx, images>>
    BY <1>7 DEF DumpDone, AllDumped
  <2>2. \A i \in Images : images[i] >= 1
    BY <1>0, <2>1 DEF DumpedBelow, Images, TypeOK
  <2>3. \A u \in Threads : pc'[u] = "dump" => pc[u] = "dump"
    BY <1>0, <1>7 DEF DumpDone, ToSerialize, Goto, TypeOK
  <2> QED
    BY <2>1, <2>2, <2>3 DEF DumpedBelow
<1>8. ASSUME NEW t \in Threads, SaveMemory(t, t \in Followed) PROVE DumpedBelow'
  BY <1>0, <1>8, DumpedOther DEF SaveMemory, Goto, PCs
<1>9. ASSUME NEW t \in Threads, SaveMemoryOfFailedCall(t) PROVE DumpedBelow'
  BY <1>0, <1>9, DumpedOther DEF SaveMemoryOfFailedCall, PCs
<1>10. ASSUME NEW t \in Threads, Serialize(t) PROVE DumpedBelow'
  BY <1>0, <1>10, DumpedOther DEF Serialize, Goto, PCs
<1>11. ASSUME NEW t \in Threads, FlushAndReturn(t) PROVE DumpedBelow'
  BY <1>0, <1>11, DumpedOther DEF FlushAndReturn, Goto, PCs
<1>12. ASSUME NEW t \in Threads, Deinit(t) PROVE DumpedBelow'
  BY <1>0, <1>12, DumpedOther DEF Deinit, PCs
<1>13. CASE Kill \/ UNCHANGED vars
  BY <1>13 DEF Kill, vars, DumpedBelow
<1> QED
  BY <1>1, <1>2, <1>3, <1>4, <1>5, <1>6, <1>7, <1>8, <1>9, <1>10, <1>11, <1>12, <1>13
     DEF Next, Progress

\* Once a thread has taken it on itself to dump the device images and is not at
\* it any more, every image is on disk, however many threads raced for them;
\* provided that the kernel lets the threads open files.
THEOREM ImagesAllWritten ==
  ASSUME Followed = Threads
  PROVE  Spec => []ImagesComplete
<1>1. Init => IInv /\ DumpedBelow
  BY InvInit DEF Init, DumpedBelow
<1>2. IInv /\ DumpedBelow /\ [Next]_vars => (IInv /\ DumpedBelow)'
  BY InvStep, DumpedStep
<1>3. IInv /\ DumpedBelow => ImagesComplete
  <2> SUFFICES ASSUME IInv, DumpedBelow, GBinariesCollected, \A t \in Threads : pc[t] # "dump",
                      NEW i \in Images
               PROVE  images[i] = 1
    BY DEF ImagesComplete
  <2> QED
    BY DEF IInv, TypeOK, DumpedBelow, ImagesOnce
<1> QED
  BY <1>1, <1>2, <1>3, PTL DEF Spec
=============================================================================
