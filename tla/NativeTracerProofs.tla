------------------------- MODULE NativeTracerProofs -------------------------
(***************************************************************************)
(* Proofs about NativeTracer, for any paths, signals, exit codes and any   *)
(* number of calls, and for a program that may end at any moment.          *)
(***************************************************************************)
EXTENDS NativeTracer, WellFoundedInduction, TLAPS

\* The tool is handling a call of the program.
InHandler == {"regs", "peek", "read", "looping", "handle"}

(***************************************************************************)
(* Where the tool and the program can be at the same time.                 *)
(***************************************************************************)
Rendezvous ==
  /\ traced
  /\ tracer = "forked" => main \in {"starting", "signal"} \cup Gone
  /\ tracer = "options" => main \in {"signal"} \cup Gone
  /\ tracer = "cont" => main \in Stopped \cup Gone
  /\ tracer = "wait" => main \in {"running"} \cup Stopped \cup Gone
  /\ tracer \in InHandler => main \in {"syscall"} \cup Gone
  /\ tracer = "looping" /\ main = "syscall" => sys.path \in Unreadable
  /\ tracer \in {"returned", "done"} => main \in {"signal"} \cup Gone
  /\ tracer = "threw" => main \in Gone \/ (main = "syscall" /\ sys.path \in Unreadable)

\* Once the kernel has let the program go, it is not stopped again.
LetGo ==
  /\ ~traced
  /\ tracer \in Finished
  /\ main \in {"running"} \cup Gone

\* The option is there before the child runs on.
OptionSet ==
  /\ tracer \notin {"forked", "options", "threw"} => opts
  /\ traced /\ main \in {"running", "syscall"} => opts

\* Only an exit has the code zero.
NonZero == main \in {"signal", "killed"} => why # 0

\* The call the program is stopped at has gone through the handlers.
Handled == main = "syscall" /\ tracer = "cont"

\* record: the calls that were carried out are at the head of the list ...
Enumerates(f, n) ==
  /\ OpenatOrder(f, n)
  /\ n <= Len(files)
  /\ \A j \in 1 .. n : files[j] = opens[f[j]].path

\* ... followed only by the one that is about to be, or, when the program has
\* ended, by what it did not get to.
Awaited == IF Handled /\ sys.nr = "openat" THEN 1 ELSE 0

ListedTo(f, n) ==
  /\ Enumerates(f, n)
  /\ main \notin Gone => Len(files) = n + Awaited
  /\ Awaited = 1 => files[n + 1] = sys.path

Listing ==
  mode = "record" /\ traced =>
    \E n \in Nat : \E f \in [1 .. n -> DOMAIN opens] : ListedTo(f, n)

\* A call of a replay that may go on is at the right file; until the handlers
\* have seen it, it is where the program made it.
Redirected(c) == c.nr \in {"stat", "newfstatat", "openat"} => InPlace(c)

Redirecting ==
  mode = "replay" /\ main = "syscall" =>
    /\ tracer = "cont" => Redirected(sys)
    /\ tracer # "cont" => sys.on = Orig(sys.path)

\* The part of the invariant about the control of the two processes ...
LoopInv ==
  /\ TypeOK
  /\ Rendezvous \/ LetGo
  /\ OptionSet
  /\ NeverRefused
  /\ NonZero
  /\ NoFalseSuccess

\* ... on which the list of record and the redirections of replay rest.
ReplayInv == LoopInv /\ Redirecting /\ PackedRedirected
RecordInv == LoopInv /\ Listing

\* findSuitableReplacement gives a packed copy.
LEMMA ReplacementPacked ==
  ASSUME NEW p \in Paths
  PROVE  \A r \in FindSuitableReplacement(p) : r \in Targets /\ r.packed
<1> SUFFICES ASSUME NEW i \in DOMAIN Keys
             PROVE  Copy(Keys[i]) \in Targets /\ Copy(Keys[i]).packed
  BY DEF FindSuitableReplacement, Candidates
<1>1. Keys[i] \in Paths
  BY PathsAssumption
<1> QED BY <1>1 DEF Copy, Targets

\* A path of the map has one: among the keys that fit, one of them its own, one
\* comes first.
LEMMA KeysReplaced ==
  ASSUME NEW k \in DOMAIN Keys
  PROVE  FindSuitableReplacement(Keys[k]) # {}
<1> DEFINE C == Candidates(Keys[k])
<1>1. k \in C
  BY PathsAssumption DEF Candidates
<1>2. C \subseteq Nat
  BY PathsAssumption DEF Candidates
<1> DEFINE R == {ss \in Nat \X Nat : ss[1] < ss[2]}
<1>3. IsWellFoundedOn(R, Nat)
  BY NatLessThanWellFounded DEF OpToRel
<1>4. ASSUME NEW m \in Nat, NEW n \in Nat, m < n PROVE <<m, n>> \in R
  <2>1. <<m, n>> \in Nat \X Nat /\ <<m, n>>[1] = m /\ <<m, n>>[2] = n
    OBVIOUS
  <2> QED BY <1>4, <2>1
<1> HIDE DEF R, C
<1>5. PICK i \in C : \A j \in C : ~(<<j, i>> \in R)
  BY <1>1, <1>2, <1>3, WFMin
<1>6. \A j \in C : i <= j
  <2> SUFFICES ASSUME NEW j \in C PROVE ~(j < i)
    BY <1>2
  <2> QED BY <1>2, <1>4, <1>5
<1> USE DEF C
<1>7. Copy(Keys[i]) \in FindSuitableReplacement(Keys[k])
  BY <1>6 DEF FindSuitableReplacement
<1> QED BY <1>7

\* What a handler does to the call, the list and the tool.
LEMMA HandleFacts ==
  ASSUME TypeOK, Handle
  PROVE  /\ tracer = "handle"
         /\ tracer' \in {"cont", "threw"}
         /\ tracer' = "threw" => main \in Gone
         /\ files' \in Seq(Paths)
         /\ sys' \in FileCalls /\ sys'.nr = sys.nr /\ sys'.path = sys.path
         /\ UNCHANGED <<mode, mExitCode, opts, config, main, why, traced, opens, refused>>
<1>1. sys \in FileCalls /\ sys.path \in Paths
  BY DEF TypeOK, FileCalls
<1>2. CASE mode = "record"
  BY <1>1, <1>2 DEF Handle, RecordHandlers, Tool, TypeOK
<1>3. CASE mode # "record"
  <2>1. ReplayHandlers(sys)
    BY <1>3 DEF Handle
  <2>2. \A r \in Replacement(sys) : r \in Targets
    BY <1>1, ReplacementPacked DEF Replacement
  <2>3. sys' = sys \/ \E r \in Targets : sys' = [sys EXCEPT !.on = r]
    BY <2>1, <2>2 DEF ReplayHandlers
  <2>4. sys' \in FileCalls /\ sys'.nr = sys.nr /\ sys'.path = sys.path
    BY <1>1, <2>3 DEF FileCalls
  <2> QED BY <2>1, <2>4 DEF Handle, ReplayHandlers, Tool, TypeOK
<1> QED BY <1>2, <1>3

\* The two processes after ::fork().
LEMMA LoopInit == Init => LoopInv
<1> SUFFICES ASSUME Init PROVE LoopInv OBVIOUS
<1>1. PICK p \in Paths : sys = [nr |-> "openat", path |-> p, on |-> Orig(p)]
  BY DEF Init
<1>2. sys \in FileCalls
  BY <1>1 DEF FileCalls, Orig, Targets, SysCalls
<1>3. TypeOK
  <2>1. files \in Seq(Paths) /\ opens \in Seq(FileCalls)
    BY DEF Init
  <2>2. config \in SUBSET Seq(Paths)
    BY DEF Init
  <2>3. mExitCode \in 0 .. 255 /\ why \in 0 .. 255
    BY DEF Init
  <2> QED BY <1>2, <2>1, <2>2, <2>3 DEF Init, TypeOK, Stopped, Gone
<1> QED BY <1>3 DEF Init, LoopInv, Rendezvous, OptionSet, NeverRefused, NonZero, NoFalseSuccess,
     Gone, InHandler

\* The values stay in their types: the signals and exit codes fit in a byte.
LEMMA TypeStep ==
  ASSUME TypeOK, Next
  PROVE  TypeOK'
<1> USE CodesAssumption DEF TypeOK, tracerVars, Stopped, Gone
<1>1. CASE TraceMe
  BY <1>1 DEF TraceMe
<1>2. ASSUME NEW nr \in SysCalls, NEW p \in Paths, FileCall(nr, p) PROVE TypeOK'
  <2>1. [nr |-> nr, path |-> p, on |-> Orig(p)] \in FileCalls
    BY DEF FileCalls, Orig, Targets
  <2>2. opens' \in Seq(FileCalls)
    <3>1. Append(opens, [nr |-> nr, path |-> p, on |-> Orig(p)]) \in Seq(FileCalls)
      BY <2>1
    <3> QED BY <1>2, <3>1 DEF FileCall
  <2>3. sys' \in FileCalls /\ refused' \in BOOLEAN
    BY <1>2, <2>1 DEF FileCall
  <2>4. main' \in {"starting", "running"} \cup Stopped \cup Gone
    BY <1>2 DEF FileCall
  <2> QED BY <1>2, <2>2, <2>3, <2>4 DEF FileCall
<1>3. ASSUME NEW s \in FatalSignals \cup OtherSignals, Signal(s) PROVE TypeOK'
  BY <1>3 DEF Signal
<1>4. ASSUME NEW code \in ExitCodes, Exit(code) PROVE TypeOK'
  BY <1>4 DEF Exit
<1>5. ASSUME NEW code \in ExitCodes, EndElsewhere("exited", code) PROVE TypeOK'
  BY <1>5 DEF EndElsewhere
<1>6. CASE EndElsewhere("killed", 9)
  BY <1>6 DEF EndElsewhere
<1>7. CASE FirstWait \/ GetRegs \/ PeekCall \/ ReadString \/ OutOfMemory
  <2>1. /\ tracer' \in {"threw", "options", "peek", "cont", "read", "looping", "handle"}
        /\ UNCHANGED <<mode, mExitCode, opts, files, config, main, why, traced, sys, opens, refused>>
    BY <1>7 DEF FirstWait, GetRegs, PeekCall, ReadString, OutOfMemory, Tool
  <2> QED BY <2>1
<1>8. CASE SetOptions
  <2>1. opts' \in BOOLEAN
    BY <1>8 DEF SetOptions
  <2> QED BY <1>8, <2>1 DEF SetOptions, Tool
<1>9. CASE Wait
  <2>1. mExitCode' \in 0 .. 255
    BY <1>9 DEF Wait, ResultCode
  <2> QED BY <1>9, <2>1 DEF Wait, Tool
<1>10. CASE Continue
  <2>1. opens' \in Seq(FileCalls)
    BY <1>10 DEF Continue
  <2>2. main' \in {"starting", "running"} \cup Stopped \cup Gone
    BY <1>10 DEF Continue
  <2> QED BY <1>10, <2>1, <2>2 DEF Continue, Tool
<1>11. CASE Handle
  <2>1. /\ tracer' \in {"cont", "threw"} /\ files' \in Seq(Paths) /\ sys' \in FileCalls
        /\ UNCHANGED <<mode, mExitCode, opts, config, main, why, traced, opens, refused>>
    BY <1>11, HandleFacts
  <2> QED BY <2>1
<1>12. CASE Finish
  BY <1>12 DEF Finish, Tool
<1>13. CASE Detach
  <2>1. opens' \in Seq(FileCalls)
    BY <1>13 DEF Detach
  <2>2. main' \in {"starting", "running"} \cup Stopped \cup Gone
    BY <1>13 DEF Detach
  <2> QED BY <1>13, <2>1, <2>2 DEF Detach
<1> QED BY <1>1, <1>2, <1>3, <1>4, <1>5, <1>6, <1>7, <1>8, <1>9, <1>10, <1>11, <1>12,
     <1>13 DEF Next, ToolStep

\* The program's steps: it stops only where the tool waits for it, and it may
\* end anywhere.
LEMMA ProgramStep ==
  ASSUME LoopInv, TypeOK',
         \/ TraceMe
         \/ \E nr \in SysCalls, p \in Paths : FileCall(nr, p)
         \/ \E s \in FatalSignals \cup OtherSignals : Signal(s)
         \/ \E code \in ExitCodes : Exit(code) \/ EndElsewhere("exited", code)
         \/ EndElsewhere("killed", 9)
  PROVE  LoopInv'
<1> USE CodesAssumption DEF LoopInv, OptionSet, NeverRefused, NonZero, NoFalseSuccess, Rendezvous,
     LetGo, Stopped, Gone, InHandler, Finished, tracerVars
<1>1. CASE TraceMe
  BY <1>1 DEF TraceMe
<1>2. ASSUME NEW nr \in SysCalls, NEW p \in Paths, FileCall(nr, p) PROVE LoopInv'
  <2>1. UNCHANGED <<mode, tracer, mExitCode, opts, files, config, why, traced>> /\ main = "running"
    BY <1>2 DEF FileCall
  <2>2. \/ main' = "syscall" /\ traced /\ opts /\ UNCHANGED refused
        \/ main' = main /\ UNCHANGED sys /\ ~(traced /\ opts)
        \/ main' = main /\ UNCHANGED <<sys, refused>>
    BY <1>2 DEF FileCall
  <2> QED BY <2>1, <2>2
<1>3. ASSUME NEW s \in FatalSignals \cup OtherSignals, Signal(s) PROVE LoopInv'
  BY <1>3 DEF Signal
<1>4. ASSUME NEW code \in ExitCodes, Exit(code) PROVE LoopInv'
  BY <1>4 DEF Exit
<1>5. ASSUME NEW code \in ExitCodes, EndElsewhere("exited", code) PROVE LoopInv'
  BY <1>5 DEF EndElsewhere
<1>6. CASE EndElsewhere("killed", 9)
  BY <1>6 DEF EndElsewhere
<1> QED BY <1>1, <1>2, <1>3, <1>4, <1>5, <1>6

\* The tool's steps: it lets the program run on only after the option is set,
\* and leaves the loop only when the program has ended or is at a fatal signal.
LEMMA ToolSteps ==
  ASSUME LoopInv, TypeOK', ToolStep \/ OutOfMemory
  PROVE  LoopInv'
<1> USE CodesAssumption DEF LoopInv, OptionSet, NeverRefused, NonZero, NoFalseSuccess, Rendezvous,
     LetGo, Stopped, Gone, InHandler, Finished, Tool
<1>1. CASE FirstWait
  BY <1>1 DEF FirstWait, Reported
<1>2. CASE SetOptions
  BY <1>2 DEF SetOptions
<1>3. CASE Continue
  BY <1>3 DEF Continue, CanContinue
<1>4. CASE Wait
  BY <1>4 DEF Wait, Reported, EndsLoop, ResultCode
<1>5. CASE GetRegs
  BY <1>5 DEF GetRegs
<1>6. CASE PeekCall
  BY <1>6 DEF PeekCall
<1>7. CASE ReadString
  BY <1>7 DEF ReadString
<1>8. CASE Handle
  BY <1>8, HandleFacts
<1>9. CASE Finish
  BY <1>9 DEF Finish
<1>10. CASE Detach
  BY <1>10 DEF Detach, tracerVars
<1>11. CASE OutOfMemory
  BY <1>11 DEF OutOfMemory
<1> QED BY <1>1, <1>2, <1>3, <1>4, <1>5, <1>6, <1>7, <1>8, <1>9, <1>10, <1>11 DEF ToolStep

\* Every step keeps the control invariant.
LEMMA LoopStep == LoopInv /\ [Next]_vars => LoopInv'
<1> SUFFICES ASSUME LoopInv, [Next]_vars PROVE LoopInv' OBVIOUS
<1>1. CASE Next
  <2>1. TypeOK'
    BY <1>1, TypeStep DEF LoopInv
  <2> QED BY <1>1, <2>1, ProgramStep, ToolSteps DEF Next
<1>2. CASE UNCHANGED vars
  BY <1>2 DEF vars, tracerVars, LoopInv, TypeOK, Rendezvous, LetGo, OptionSet, NeverRefused,
     NonZero, NoFalseSuccess
<1> QED BY <1>1, <1>2

\* The control invariant holds in every state of the loop and the program.
THEOREM LoopInvariance == Spec => []LoopInv
<1> QED BY LoopInit, LoopStep, PTL DEF Spec

\* Every reachable state of the tracer is well typed.
THEOREM TracerTypeCorrect == Spec => []TypeOK
<1>1. LoopInv => TypeOK
  BY DEF LoopInv
<1> QED BY <1>1, LoopInvariance, PTL

\* As long as it is traced, no call of the program fails with ENOSYS: fork()
\* sets PTRACE_O_TRACESECCOMP before the first PTRACE_CONT.
THEOREM TracedNeverRefused == Spec => []NeverRefused
<1>1. LoopInv => NeverRefused
  BY DEF LoopInv
<1> QED BY <1>1, LoopInvariance, PTL

\* wait() leaves a zero in mExitCode only when the program exited with zero.
THEOREM SuccessIsSuccess == Spec => []NoFalseSuccess
<1>1. LoopInv => NoFalseSuccess
  BY DEF LoopInv
<1> QED BY <1>1, LoopInvariance, PTL

\* The handlers of a replay put a call at the right file, unless the program is
\* gone.
LEMMA HandleRedirects ==
  ASSUME LoopInv, Handle, mode = "replay", main \notin Gone, sys.on = Orig(sys.path)
  PROVE  InPlace(sys')
<1>1. sys \in FileCalls /\ sys.path \in Paths
  BY DEF LoopInv, TypeOK, FileCalls
<1>2. ReplayHandlers(sys) /\ Replacement(sys) = FindSuitableReplacement(sys.path)
  BY DEF Handle, Replacement
<1>3. CASE Replacement(sys) = {}
  <2>1. sys' = sys
    BY <1>2, <1>3 DEF ReplayHandlers
  <2>2. ~Mapped(sys.path)
    BY <1>2, <1>3, KeysReplaced DEF Mapped
  <2> QED BY <2>1, <2>2 DEF InPlace
<1>4. CASE Replacement(sys) # {}
  <2>1. PICK r \in Replacement(sys) : sys' = [sys EXCEPT !.on = r]
    BY <1>2, <1>4 DEF ReplayHandlers
  <2>2. PICK i \in Candidates(sys.path) : r = Copy(Keys[i]) /\ \A j \in Candidates(sys.path) : i <= j
    BY <1>2, <2>1 DEF FindSuitableReplacement
  <2>3. sys'.on = Copy(Keys[i]) /\ sys'.path = sys.path
    BY <1>1, <2>1, <2>2 DEF FileCalls
  <2>4. i \in DOMAIN Keys
    BY <2>2 DEF Candidates
  <2>5. CASE sys.path \notin Libraries
    <3>1. Keys[i] = sys.path
      BY <2>2, <2>5 DEF Candidates
    <3>2. Mapped(sys.path)
      BY <2>4, <3>1 DEF Mapped
    <3> QED BY <2>3, <3>1, <3>2 DEF InPlace
  <2>6. CASE sys.path \in Libraries
    <3>1. Keys[i] \in Mentions[sys.path]
      BY <2>2, <2>6 DEF Candidates
    <3>2. ASSUME NEW k \in DOMAIN Keys, Keys[k] = sys.path PROVE i <= k
      <4>1. Keys[k] \in Mentions[Keys[k]]
        BY <2>6, <3>2, PathsAssumption
      <4>2. k \in Candidates(sys.path)
        BY <2>6, <3>2, <4>1 DEF Candidates
      <4> QED BY <2>2, <4>2
    <3> QED BY <2>3, <2>4, <2>6, <3>1, <3>2 DEF InPlace
  <2> QED BY <2>5, <2>6
<1> QED BY <1>3, <1>4

\* An appended call that is redirected, or that the filter does not stop,
\* leaves the calls carried out redirected.
LEMMA AppendRedirected ==
  ASSUME PackedRedirected, opens \in Seq(FileCalls), NEW c \in FileCalls, mode' = mode,
         mode = "replay" => Redirected(c), opens' = Append(opens, c)
  PROVE  PackedRedirected'
<1> SUFFICES ASSUME mode = "replay", NEW i \in DOMAIN opens',
                    opens'[i].nr \in {"stat", "newfstatat", "openat"}
             PROVE  InPlace(opens'[i])
  BY DEF PackedRedirected, InPlace, Mapped, Copy, Orig
<1>1. \/ i \in DOMAIN opens /\ opens'[i] = opens[i]
      \/ opens'[i] = c
  BY DEF FileCalls
<1> QED BY <1>1 DEF PackedRedirected, Redirected

\* A step of a replay carries out only calls that went through the handlers.
LEMMA ReplayStep ==
  ASSUME ReplayInv, [Next]_vars, \A k \in DOMAIN Keys : Keys[k] \notin Unreadable
  PROVE  ReplayInv'
<1> USE DEF ReplayInv
<1>1. LoopInv'
  BY LoopStep
<1> SUFFICES Redirecting' /\ PackedRedirected'
  BY <1>1
<1>2. opens \in Seq(FileCalls) /\ sys \in FileCalls
  BY DEF LoopInv, TypeOK
<1>3. mode' = mode
  BY HandleFacts DEF Next, ToolStep, vars, TraceMe, FileCall, Signal, Exit, EndElsewhere, FirstWait,
     SetOptions, Continue, Wait, GetRegs, PeekCall, ReadString, OutOfMemory, Handle, Finish, Detach
<1>4. ASSUME UNCHANGED <<opens, sys>>,
             main' = "syscall" => main = "syscall" /\ (tracer' = "cont" <=> tracer = "cont")
      PROVE  Redirecting' /\ PackedRedirected'
  <2>1. PackedRedirected'
    BY <1>3, <1>4 DEF PackedRedirected, InPlace
  <2>2. (mode = "replay" /\ main = "syscall")' => mode = "replay" /\ main = "syscall"
    BY <1>3, <1>4
  <2>3. Redirecting'
    BY <1>4, <2>2 DEF Redirecting, Redirected, InPlace
  <2> QED BY <2>1, <2>3
<1>5. CASE TraceMe
  BY <1>4, <1>5 DEF TraceMe
<1>6. ASSUME NEW nr \in SysCalls, NEW p \in Paths, FileCall(nr, p)
      PROVE  Redirecting' /\ PackedRedirected'
  <2> DEFINE c == [nr |-> nr, path |-> p, on |-> Orig(p)]
  <2>1. tracer' # "cont"
    BY <1>6 DEF FileCall, LoopInv, Rendezvous, LetGo, Stopped, Gone, Finished, tracerVars
  <2>2. CASE opens' = opens
    <3>1. main' = "syscall" => sys'.on = Orig(sys'.path)
      BY <1>6, <2>2 DEF FileCall
    <3> QED BY <1>3, <2>1, <2>2, <3>1 DEF Redirecting, PackedRedirected, InPlace, Orig
  <2>3. CASE opens' # opens
    <3>1. opens' = Append(opens, c) /\ nr \notin Filter /\ main' # "syscall"
      BY <1>6, <2>3 DEF FileCall
    <3>2. c \in FileCalls /\ Redirected(c)
      BY <3>1 DEF FileCalls, Orig, Targets, Redirected, Filter
    <3> QED BY <1>2, <1>3, <2>1, <3>1, <3>2, AppendRedirected DEF Redirecting
  <2> QED BY <2>2, <2>3
<1>7. ASSUME NEW s \in FatalSignals \cup OtherSignals, Signal(s)
      PROVE  Redirecting' /\ PackedRedirected'
  BY <1>4, <1>7 DEF Signal
<1>8. ASSUME NEW code \in ExitCodes, Exit(code) \/ EndElsewhere("exited", code)
      PROVE  Redirecting' /\ PackedRedirected'
  BY <1>4, <1>8 DEF Exit, EndElsewhere
<1>9. CASE EndElsewhere("killed", 9)
  BY <1>4, <1>9 DEF EndElsewhere
<1>10. CASE FirstWait \/ SetOptions \/ Wait \/ GetRegs \/ PeekCall \/ ReadString \/ OutOfMemory \/ Finish
  <2>1. UNCHANGED <<opens, sys, main>>
    BY <1>10 DEF FirstWait, SetOptions, Wait, GetRegs, PeekCall, ReadString, OutOfMemory, Finish
  <2>2. main' = "syscall" => tracer # "cont" /\ tracer' # "cont"
    BY <1>10, <2>1 DEF FirstWait, SetOptions, Wait, GetRegs, PeekCall, ReadString, OutOfMemory, Finish,
       Tool, LoopInv, Rendezvous, LetGo, Gone, Finished
  <2> QED BY <1>4, <2>1, <2>2
<1>11. CASE Continue
  <2>1. main' # "syscall"
    BY <1>11 DEF Continue, CanContinue, Stopped, Gone
  <2>2. CASE opens' = opens
    BY <1>3, <2>1, <2>2 DEF Redirecting, PackedRedirected, InPlace
  <2>3. CASE opens' # opens
    <3>1. opens' = Append(opens, sys) /\ main = "syscall" /\ tracer = "cont"
      BY <1>11, <2>3 DEF Continue
    <3>2. mode = "replay" => Redirected(sys)
      BY <3>1 DEF Redirecting
    <3>3. PackedRedirected'
      BY <1>2, <1>3, <3>1, <3>2, AppendRedirected
    <3> QED BY <2>1, <3>3 DEF Redirecting
  <2> QED BY <2>2, <2>3
<1>12. CASE Handle
  <2>1. opens' = opens /\ main' = main /\ tracer = "handle"
    BY <1>12 DEF Handle
  <2>2. PackedRedirected'
    BY <1>3, <2>1 DEF PackedRedirected, InPlace
  <2>3. Redirecting'
    <3> SUFFICES ASSUME mode = "replay", main = "syscall"
                 PROVE  tracer' = "cont" /\ Redirected(sys')
      BY <1>3, <2>1 DEF Redirecting, Redirected, InPlace
    <3>1. sys.on = Orig(sys.path)
      BY <2>1 DEF Redirecting
    <3>2. tracer' = "cont"
      BY <1>12, HandleFacts DEF LoopInv, Gone
    <3> QED BY <1>12, <3>1, <3>2, HandleRedirects DEF Gone, Redirected
  <2> QED BY <2>2, <2>3
<1>13. CASE Detach
  <2>1. main' # "syscall"
    BY <1>13 DEF Detach, Stopped
  <2>2. CASE opens' = opens
    BY <1>3, <2>1, <2>2 DEF Redirecting, PackedRedirected, InPlace
  <2>3. CASE opens' # opens
    <3>1. opens' = Append(opens, sys) /\ main = "syscall" /\ traced /\ tracer \in Finished
      BY <1>13, <2>3 DEF Detach
    <3>2. sys.path \in Unreadable
      BY <3>1 DEF LoopInv, Rendezvous, LetGo, Gone, Finished
    <3>3. ~Mapped(sys.path)
      BY <3>2 DEF Mapped
    <3>4. mode = "replay" => sys.on = Orig(sys.path)
      BY <3>1 DEF Redirecting, Finished
    <3>5. mode = "replay" => Redirected(sys)
      BY <3>3, <3>4 DEF Redirected, InPlace
    <3>6. PackedRedirected'
      BY <1>2, <1>3, <3>1, <3>5, AppendRedirected
    <3> QED BY <2>1, <3>6 DEF Redirecting
  <2> QED BY <2>2, <2>3
<1>14. CASE UNCHANGED vars
  BY <1>4, <1>14 DEF vars, tracerVars
<1> QED BY <1>5, <1>6, <1>7, <1>8, <1>9, <1>10, <1>11, <1>12, <1>13, <1>14 DEF Next, ToolStep

\* In a replay whose map has no path that readString cannot read, every stat,
\* newfstatat and openat is carried out on its own packed copy if the map has
\* its path and in its place if not, but for a library whose file name is in
\* the path of another key that is not behind it.
THEOREM PackedAlwaysRedirected ==
  ASSUME \A k \in DOMAIN Keys : Keys[k] \notin Unreadable
  PROVE  Spec => []PackedRedirected
<1>1. Init => ReplayInv
  <2> SUFFICES ASSUME Init PROVE Redirecting /\ PackedRedirected
    BY LoopInit DEF ReplayInv
  <2> QED BY DEF Init, Redirecting, PackedRedirected
<1>2. ReplayInv /\ [Next]_vars => ReplayInv'
  BY ReplayStep
<1>3. ReplayInv => PackedRedirected
  BY DEF ReplayInv
<1> QED BY <1>1, <1>2, <1>3, PTL DEF Spec

\* A call that is no openat does not need a place in the list.
LEMMA SkipsOther ==
  ASSUME opens \in Seq(FileCalls), files \in Seq(Paths), NEW c \in FileCalls, c.nr # "openat",
         opens' = Append(opens, c), files' = files,
         NEW n \in Nat, NEW f \in [1 .. n -> DOMAIN opens], Enumerates(f, n)
  PROVE  f \in [1 .. n -> DOMAIN opens'] /\ Enumerates(f, n)'
<1>1. /\ DOMAIN opens = 1 .. Len(opens) /\ Len(opens) \in Nat
      /\ DOMAIN opens' = 1 .. Len(opens) + 1
      /\ \A i \in DOMAIN opens : opens'[i] = opens[i]
      /\ opens'[Len(opens) + 1] = c
  OBVIOUS
<1>2. \A i \in DOMAIN opens' : i \in DOMAIN opens \/ i = Len(opens) + 1
  BY <1>1
<1>3. \A j \in 1 .. n : f[j] \in DOMAIN opens /\ f[j] # Len(opens) + 1
  BY <1>1
<1>4. f \in [1 .. n -> DOMAIN opens']
  BY <1>1
<1>5. OpenatOrder(f, n)'
  BY <1>1, <1>2, <1>3 DEF Enumerates, OpenatOrder
<1>6. (\A j \in 1 .. n : files[j] = opens[f[j]].path)'
  BY <1>1, <1>3 DEF Enumerates
<1> QED BY <1>4, <1>5, <1>6 DEF Enumerates

\* An openat takes the next place in the list.
LEMMA TakesNext ==
  ASSUME opens \in Seq(FileCalls), files \in Seq(Paths), NEW c \in FileCalls, c.nr = "openat",
         opens' = Append(opens, c), files' = files,
         NEW n \in Nat, NEW f \in [1 .. n -> DOMAIN opens], Enumerates(f, n),
         n + 1 <= Len(files), files[n + 1] = c.path
  PROVE  \E g \in [1 .. n + 1 -> DOMAIN opens'] : Enumerates(g, n + 1)'
<1>1. /\ DOMAIN opens = 1 .. Len(opens) /\ Len(opens) \in Nat
      /\ DOMAIN opens' = 1 .. Len(opens) + 1
      /\ \A i \in DOMAIN opens : opens'[i] = opens[i]
      /\ opens'[Len(opens) + 1] = c
  OBVIOUS
<1>2. \A i \in DOMAIN opens' : i \in DOMAIN opens \/ i = Len(opens) + 1
  BY <1>1
<1>3. \A j \in 1 .. n : f[j] \in DOMAIN opens /\ f[j] # Len(opens) + 1 /\ f[j] < Len(opens) + 1
  BY <1>1
<1>4. \A j \in 1 .. n + 1 : j \in 1 .. n \/ j = n + 1
  OBVIOUS
<1>5. PICK g \in [1 .. n + 1 -> DOMAIN opens'] :
        g = [j \in 1 .. n + 1 |-> IF j = n + 1 THEN Len(opens) + 1 ELSE f[j]]
  <2>1. [j \in 1 .. n + 1 |-> IF j = n + 1 THEN Len(opens) + 1 ELSE f[j]]
          \in [1 .. n + 1 -> DOMAIN opens']
    BY <1>1, <1>3, <1>4
  <2> QED BY <2>1
<1>6. /\ \A j \in 1 .. n : g[j] = f[j] /\ j \in 1 .. n + 1
      /\ g[n + 1] = Len(opens) + 1 /\ n + 1 \in 1 .. n + 1
  BY <1>5
<1>7. \A j, k \in 1 .. n + 1 : j < k => g[j] < g[k]
  <2> SUFFICES ASSUME NEW j \in 1 .. n + 1, NEW k \in 1 .. n + 1, j < k PROVE g[j] < g[k]
    OBVIOUS
  <2>1. j \in 1 .. n
    OBVIOUS
  <2>2. CASE k \in 1 .. n
    BY <2>1, <2>2, <1>6 DEF Enumerates, OpenatOrder
  <2>3. CASE k = n + 1
    BY <2>1, <2>3, <1>3, <1>6
  <2> QED BY <2>2, <2>3, <1>4
<1>8. \A i \in DOMAIN opens' : opens'[i].nr = "openat" <=> \E j \in 1 .. n + 1 : g[j] = i
  <2> SUFFICES ASSUME NEW i \in DOMAIN opens'
               PROVE  opens'[i].nr = "openat" <=> \E j \in 1 .. n + 1 : g[j] = i
    OBVIOUS
  <2>1. CASE i \in DOMAIN opens
    <3>1. opens'[i].nr = "openat" <=> \E j \in 1 .. n : f[j] = i
      BY <2>1, <1>1 DEF Enumerates, OpenatOrder
    <3>2. i # Len(opens) + 1
      BY <2>1, <1>1
    <3> QED BY <3>1, <3>2, <1>4, <1>6
  <2>2. CASE i = Len(opens) + 1
    BY <2>2, <1>1, <1>6
  <2> QED BY <2>1, <2>2, <1>2
<1>9. \A j \in 1 .. n + 1 : files[j] = opens'[g[j]].path
  BY <1>1, <1>3, <1>4, <1>6 DEF Enumerates
<1>10. Enumerates(g, n + 1)'
  BY <1>7, <1>8, <1>9 DEF Enumerates, OpenatOrder
<1> QED BY <1>10

\* A step that carries out nothing and lists nothing.
LEMMA ListKept ==
  ASSUME Listing, UNCHANGED <<mode, opens, files>>, traced' => traced,
         main' \notin Gone => main \notin Gone /\ Awaited' = Awaited,
         Awaited' = 1 => main' \notin Gone /\ sys'.path = sys.path
  PROVE  Listing'
<1> SUFFICES ASSUME mode = "record", traced
             PROVE  (\E n \in Nat : \E f \in [1 .. n -> DOMAIN opens] : ListedTo(f, n))'
  BY DEF Listing
<1>1. PICK n \in Nat : \E f \in [1 .. n -> DOMAIN opens] : ListedTo(f, n)
  BY DEF Listing
<1>2. PICK f \in [1 .. n -> DOMAIN opens] : ListedTo(f, n)
  BY <1>1
<1>3. Enumerates(f, n)'
  BY <1>2 DEF ListedTo, Enumerates, OpenatOrder
<1>4. ListedTo(f, n)'
  BY <1>2, <1>3 DEF ListedTo
<1> QED BY <1>4

\* What is awaited is one call or none.
LEMMA AwaitedFacts ==
  /\ Awaited \in {0, 1}
  /\ Awaited = 1 <=> Handled /\ sys.nr = "openat"
BY DEF Awaited

\* A step of record lists the openat a thread is stopped at before it is
\* carried out.
LEMMA RecordStep ==
  ASSUME RecordInv, [Next]_vars
  PROVE  RecordInv'
<1> USE DEF RecordInv
<1>1. LoopInv'
  BY LoopStep
<1> SUFFICES Listing'
  BY <1>1
<1>2. opens \in Seq(FileCalls) /\ sys \in FileCalls /\ files \in Seq(Paths)
  BY DEF LoopInv, TypeOK
<1>3. CASE TraceMe
  <2>1. UNCHANGED <<mode, opens, files, traced>> /\ ~Handled /\ ~Handled' /\ main = "starting"
    BY <1>3 DEF TraceMe, tracerVars, Handled
  <2> QED BY <2>1, ListKept, AwaitedFacts DEF Awaited, Gone
<1>4. ASSUME NEW nr \in SysCalls, NEW p \in Paths, FileCall(nr, p) PROVE Listing'
  <2> DEFINE c == [nr |-> nr, path |-> p, on |-> Orig(p)]
  <2>1. UNCHANGED <<mode, files, traced, tracer>> /\ main = "running" /\ main' \notin Gone
    BY <1>4 DEF FileCall, tracerVars, Gone
  <2>2. ~Handled /\ ~Handled'
    BY <2>1 DEF Handled, LoopInv, Rendezvous, LetGo, Stopped, Gone, Finished
  <2>3. Awaited = 0 /\ Awaited' = 0
    BY <2>2 DEF Awaited
  <2>4. CASE opens' = opens
    BY <2>1, <2>3, <2>4, ListKept DEF Gone
  <2>5. CASE opens' # opens
    <3>1. opens' = Append(opens, c) /\ nr \notin Filter
      BY <1>4, <2>5 DEF FileCall
    <3>2. c \in FileCalls /\ c.nr # "openat"
      BY <3>1 DEF FileCalls, Orig, Targets, Filter
    <3> SUFFICES ASSUME mode = "record", traced
                 PROVE  (\E n \in Nat : \E f \in [1 .. n -> DOMAIN opens] : ListedTo(f, n))'
      BY <2>1 DEF Listing
    <3>3. PICK n \in Nat : \E f \in [1 .. n -> DOMAIN opens] : ListedTo(f, n)
      BY DEF Listing
    <3>4. PICK f \in [1 .. n -> DOMAIN opens] : ListedTo(f, n)
      BY <3>3
    <3>5. f \in [1 .. n -> DOMAIN opens'] /\ Enumerates(f, n)'
      BY <1>2, <2>1, <3>1, <3>2, <3>4, SkipsOther DEF ListedTo
    <3>6. ListedTo(f, n)'
      BY <2>1, <2>3, <3>4, <3>5 DEF ListedTo, Gone
    <3> QED BY <3>5, <3>6
  <2> QED BY <2>4, <2>5
<1>5. ASSUME NEW s \in FatalSignals \cup OtherSignals, Signal(s) PROVE Listing'
  <2>1. UNCHANGED <<mode, opens, files, traced>> /\ ~Handled /\ ~Handled' /\ main = "running"
    BY <1>5 DEF Signal, tracerVars, Handled
  <2> QED BY <2>1, ListKept, AwaitedFacts DEF Awaited, Gone
<1>6. ASSUME NEW code \in ExitCodes, Exit(code) \/ EndElsewhere("exited", code) PROVE Listing'
  <2>1. UNCHANGED <<mode, opens, files, traced>> /\ ~Handled' /\ main' \in Gone
    BY <1>6 DEF Exit, EndElsewhere, tracerVars, Handled, Gone
  <2> QED BY <2>1, ListKept DEF Awaited
<1>7. CASE EndElsewhere("killed", 9)
  <2>1. UNCHANGED <<mode, opens, files, traced>> /\ ~Handled' /\ main' \in Gone
    BY <1>7 DEF EndElsewhere, tracerVars, Handled, Gone
  <2> QED BY <2>1, ListKept DEF Awaited
<1>8. CASE FirstWait \/ SetOptions \/ Wait \/ GetRegs \/ PeekCall \/ ReadString \/ OutOfMemory \/ Finish
  <2>1. UNCHANGED <<mode, opens, files, sys, main, traced>>
    BY <1>8 DEF FirstWait, SetOptions, Wait, GetRegs, PeekCall, ReadString, OutOfMemory, Finish
  <2>2. ~Handled /\ ~Handled'
    BY <1>8, <2>1 DEF FirstWait, SetOptions, Wait, GetRegs, PeekCall, ReadString, OutOfMemory, Finish,
       Tool, LoopInv, Rendezvous, LetGo, Gone, Finished, Handled
  <2> QED BY <2>1, <2>2, ListKept DEF Awaited
<1>9. CASE Continue
  <2>1. UNCHANGED <<mode, files, sys, traced>> /\ tracer = "cont" /\ ~Handled'
    BY <1>9 DEF Continue, Handled, Tool
  <2>2. Awaited' = 0
    BY <2>1 DEF Awaited
  <2>3. CASE main # "syscall"
    <3>1. opens' = opens /\ Awaited = 0 /\ (main' \notin Gone => main \notin Gone)
      BY <1>9, <2>3 DEF Continue, Awaited, Handled, Gone
    <3> QED BY <2>1, <2>2, <3>1, ListKept
  <2>4. CASE main = "syscall"
    <3>1. opens' = Append(opens, sys) /\ Handled /\ main \notin Gone
      BY <1>9, <2>1, <2>4 DEF Continue, Handled, Gone
    <3> SUFFICES ASSUME mode = "record", traced
                 PROVE  (\E n \in Nat : \E f \in [1 .. n -> DOMAIN opens] : ListedTo(f, n))'
      BY <2>1 DEF Listing
    <3>2. PICK n \in Nat : \E f \in [1 .. n -> DOMAIN opens] : ListedTo(f, n)
      BY DEF Listing
    <3>3. PICK f \in [1 .. n -> DOMAIN opens] : ListedTo(f, n)
      BY <3>2
    <3>4. CASE sys.nr # "openat"
      <4>1. f \in [1 .. n -> DOMAIN opens'] /\ Enumerates(f, n)'
        BY <1>2, <2>1, <3>1, <3>3, <3>4, SkipsOther DEF ListedTo
      <4>2. Awaited = 0
        BY <3>4 DEF Awaited
      <4>3. ListedTo(f, n)'
        BY <2>1, <2>2, <3>1, <3>3, <4>1, <4>2 DEF ListedTo
      <4> QED BY <4>1, <4>3
    <3>5. CASE sys.nr = "openat"
      <4>1. Awaited = 1
        BY <3>1, <3>5 DEF Awaited
      <4>2. Enumerates(f, n) /\ Len(files) = n + 1 /\ files[n + 1] = sys.path
        BY <3>1, <3>3, <4>1 DEF ListedTo
      <4>3. n + 1 <= Len(files)
        BY <4>2
      <4>4. PICK g \in [1 .. n + 1 -> DOMAIN opens'] : Enumerates(g, n + 1)'
        BY <1>2, <2>1, <3>1, <3>5, <4>2, <4>3, TakesNext
      <4>5. ListedTo(g, n + 1)'
        BY <2>1, <2>2, <4>2, <4>4 DEF ListedTo
      <4> QED BY <4>4, <4>5
    <3> QED BY <3>4, <3>5
  <2> QED BY <2>3, <2>4
<1>10. CASE Handle
  <2>1. /\ UNCHANGED <<mode, main, traced, opens>> /\ tracer = "handle"
        /\ sys'.nr = sys.nr /\ sys'.path = sys.path /\ ~Handled
    BY <1>10, HandleFacts DEF LoopInv, Handled
  <2> SUFFICES ASSUME mode = "record", traced
               PROVE  (\E n \in Nat : \E f \in [1 .. n -> DOMAIN opens] : ListedTo(f, n))'
    BY <2>1 DEF Listing
  <2>2. /\ tracer' = "cont"
        /\ files' = IF sys.nr = "openat" THEN Append(files, sys.path) ELSE files
    BY <1>10 DEF Handle, RecordHandlers, Tool
  <2>3. main \in {"syscall"} \cup Gone
    BY <2>1 DEF LoopInv, Rendezvous, LetGo, Finished, InHandler
  <2>4. PICK n \in Nat : \E f \in [1 .. n -> DOMAIN opens] : ListedTo(f, n)
    BY DEF Listing
  <2>5. PICK f \in [1 .. n -> DOMAIN opens] : ListedTo(f, n)
    BY <2>4
  <2>6. /\ Len(files) \in Nat /\ Len(files') \in Nat /\ Len(files) <= Len(files')
        /\ \A j \in 1 .. Len(files) : files'[j] = files[j]
        /\ sys.nr = "openat" => Len(files') = Len(files) + 1 /\ files'[Len(files) + 1] = sys.path
    BY <1>2, <2>2 DEF FileCalls
  <2>7. Enumerates(f, n)'
    <3>1. Enumerates(f, n) /\ n <= Len(files)
      BY <2>5 DEF ListedTo, Enumerates
    <3>2. \A j \in 1 .. n : files'[j] = files[j]
      BY <3>1, <2>6
    <3>3. OpenatOrder(f, n)'
      BY <3>1, <2>1 DEF Enumerates, OpenatOrder
    <3> QED BY <3>1, <3>2, <3>3, <2>1, <2>6 DEF Enumerates
  <2>8. CASE main \in Gone
    <3>1. Awaited' = 0
      BY <2>1, <2>8 DEF Awaited, Handled, Gone
    <3> QED BY <2>1, <2>7, <2>8, <3>1 DEF ListedTo
  <2>9. CASE main = "syscall"
    <3>1. Len(files) = n
      BY <2>1, <2>5, <2>9, <2>6 DEF ListedTo, Awaited, Gone
    <3>2. Awaited' = IF sys.nr = "openat" THEN 1 ELSE 0
      BY <2>1, <2>2, <2>9 DEF Awaited, Handled
    <3>3. (main \notin Gone => Len(files) = n + Awaited)'
      BY <2>2, <2>6, <3>1, <3>2
    <3>4. (Awaited = 1 => files[n + 1] = sys.path)'
      BY <2>1, <2>6, <3>1, <3>2
    <3> QED BY <2>1, <2>7, <3>3, <3>4 DEF ListedTo
  <2> QED BY <2>3, <2>8, <2>9
<1>11. CASE Detach
  BY <1>11 DEF Detach, Listing
<1>12. CASE UNCHANGED vars
  <2>1. UNCHANGED <<mode, opens, files, sys, main, tracer, traced>>
    BY <1>12 DEF vars, tracerVars
  <2>2. Awaited' = Awaited /\ (Awaited = 1 => main \notin Gone)
    BY <2>1 DEF Awaited, Handled, Gone
  <2> QED BY <2>1, <2>2, ListKept
<1> QED BY <1>3, <1>4, <1>5, <1>6, <1>7, <1>8, <1>9, <1>10, <1>11, <1>12 DEF Next, ToolStep

\* While record traces the program, the list has every openat that was carried
\* out, in the order of the calls.
THEOREM OpensAlwaysReported == Spec => []OpensReported
<1>1. Init => RecordInv
  <2> SUFFICES ASSUME Init PROVE Listing
    BY LoopInit DEF RecordInv
  <2>1. opens = <<>> /\ files = <<>> /\ DOMAIN opens = {} /\ Len(files) = 0 /\ Awaited = 0
    BY DEF Init, Awaited, Handled
  <2>2. <<>> \in [1 .. 0 -> DOMAIN opens]
    BY <2>1
  <2>3. OpenatOrder(<<>>, 0)
    BY <2>1 DEF OpenatOrder
  <2>4. Enumerates(<<>>, 0)
    BY <2>1, <2>3 DEF Enumerates
  <2>5. ListedTo(<<>>, 0)
    BY <2>1, <2>4 DEF ListedTo
  <2> QED BY <2>2, <2>5 DEF Listing
<1>2. RecordInv /\ [Next]_vars => RecordInv'
  BY RecordStep
<1>3. RecordInv => OpensReported
  <2> SUFFICES ASSUME RecordInv, mode = "record", traced
               PROVE  \E n \in 0 .. Len(files) : \E f \in [1 .. n -> DOMAIN opens] :
                        /\ OpenatOrder(f, n)
                        /\ \A j \in 1 .. n : files[j] = opens[f[j]].path
    BY DEF OpensReported
  <2>1. Len(files) \in Nat
    BY DEF RecordInv, LoopInv, TypeOK
  <2>2. PICK n \in Nat : \E f \in [1 .. n -> DOMAIN opens] : ListedTo(f, n)
    BY DEF RecordInv, Listing
  <2>3. PICK f \in [1 .. n -> DOMAIN opens] : ListedTo(f, n)
    BY <2>2
  <2>4. n \in 0 .. Len(files) /\ OpenatOrder(f, n) /\ \A j \in 1 .. n : files[j] = opens[f[j]].path
    BY <2>1, <2>3 DEF ListedTo, Enumerates
  <2> QED BY <2>4
<1> QED BY <1>1, <1>2, <1>3, PTL DEF Spec
=============================================================================
