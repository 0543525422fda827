---------------------------- MODULE HostDebugger ----------------------------
(***************************************************************************)
(* The debugger behind the debug server: a program under LLDB, its threads *)
(* and why they stopped, and the software breakpoints.                     *)
(*                                                                         *)
(* The program runs only inside resume and stepInstruction, which return   *)
(* when it has stopped or exited.  Threads start and end while it runs.    *)
(* Memory and registers are not modelled: whether an operation finds the   *)
(* thread it is asked about is.                                            *)
(***************************************************************************)
EXTENDS Naturals, Sequences, SequencesExt

CONSTANTS
  Main,         \* the ID of the initial thread
  ThreadIds,    \* the IDs threads may have
  Addrs,        \* addresses of breakpoints
  StopReasons,  \* why LLDB says a thread stopped
  MaxRuns       \* bound on how often the program is resumed

ASSUME DebuggerAssumption ==
  /\ Main \in ThreadIds
  /\ ThreadIds \subseteq Nat \ {0}
  /\ StopReasons \subseteq
       {"invalid", "none", "trace", "breakpoint", "watchpoint", "signal", "exception", "exec",
        "planComplete", "threadExiting", "instrumentation", "processorTrace", "fork", "vfork",
        "vforkDone"}
  /\ MaxRuns \in Nat

VARIABLES
  state,         \* of the process: "stopped", "running", "exited"
  threadList,    \* LLDB's list of threads
  reason,        \* the thread's stop reason
  mBreakpoints,  \* the breakpoint kept for an address
  installed,     \* the target's breakpoints, as pairs of an ID and an address
  nextId,        \* the ID of the next breakpoint
  runs           \* how often the program was resumed

debuggerVars == <<state, threadList, reason, mBreakpoints, installed, nextId, runs>>

\* launch: the program stands at its entry.
DebuggerInit ==
  /\ state = "stopped"
  /\ threadList = <<Main>>
  /\ reason = [t \in ThreadIds |-> "none"]
  /\ mBreakpoints = <<>>
  /\ installed = {}
  /\ nextId = 1
  /\ runs = 0

NoThread == 0

FindThreadByID(id) == IF id \in Range(threadList) THEN id ELSE NoThread
GetThreadAtIndex(i) == IF i < Len(threadList) THEN threadList[i + 1] ELSE NoThread

\* ID 0 stands for the first thread.
ThreadFor(id) == IF id = 0 THEN GetThreadAtIndex(0) ELSE FindThreadByID(id)

\* getRegistersData, readRegister and writeRegistersData take for granted that
\* the thread is there; a register that cannot be read leaves no data.
HasRegisters(id) == ThreadFor(id) # NoThread
RegisterData == {"data", ""}

\* readMemory: what could be read, or nothing.
MemoryData == {"data", ""}

\* What the server makes of LLDB's reasons: the type of StopReason.  Mutant:
\* signals are not told apart from what it does not know.
NoSignalType(r) == IF r = "breakpoint" THEN "breakpoint" ELSE "none"
StopType(r) ==
  CASE r = "invalid" -> "exit"
    [] r \in {"none", "breakpoint", "planComplete"} -> "breakpoint"
    [] r \in {"trace", "watchpoint", "signal", "exception", "fork", "vfork", "vforkDone"} -> r
    [] OTHER -> "none"

\* The state of the process is looked at first, the thread only when it
\* stopped; a thread that is not there is dereferenced all the same.
NullPointer == "null"
GetStopReason(id) ==
  CASE state = "exited" -> "exit"
    [] state = "running" -> "none"
    [] OTHER -> IF ThreadFor(id) = NoThread THEN NullPointer
                ELSE StopType(reason[ThreadFor(id)])

\* createSoftwareBreakpoint: the target's new breakpoint replaces the one kept.
CreateSoftwareBreakpoint(addr) ==
  /\ installed' = installed \cup {<<nextId, addr>>}
  /\ mBreakpoints' = [a \in DOMAIN mBreakpoints \cup {addr} |->
                        IF a = addr THEN nextId ELSE mBreakpoints[a]]
  /\ nextId' = nextId + 1
  /\ UNCHANGED <<state, threadList, reason, runs>>

\* Mutant: the breakpoint is forgotten but stays in the target.
OnlyForgotten(addr) == installed
Uninstalled(addr) == installed \ {<<mBreakpoints[addr], addr>>}

RemoveSoftwareBreakpoint(addr) ==
  /\ IF addr \in DOMAIN mBreakpoints
       THEN /\ installed' = Uninstalled(addr)
            /\ mBreakpoints' = [a \in DOMAIN mBreakpoints \ {addr} |-> mBreakpoints[a]]
       ELSE UNCHANGED <<installed, mBreakpoints>>
  /\ UNCHANGED <<state, threadList, reason, nextId, runs>>

\* resume: a process that has exited cannot be resumed, and resume terminates.
CanResume == state = "stopped"
Resume ==
  /\ runs < MaxRuns
  /\ state' = "running"
  /\ runs' = runs + 1
  /\ UNCHANGED <<threadList, reason, mBreakpoints, installed, nextId>>

(***************************************************************************)
(* The program, while it runs.                                             *)
(***************************************************************************)
ThreadStarts ==
  /\ state = "running"
  /\ \E t \in ThreadIds \ Range(threadList) : threadList' = Append(threadList, t)
  /\ UNCHANGED <<state, reason, mBreakpoints, installed, nextId, runs>>

ThreadEnds ==
  /\ state = "running"
  /\ Len(threadList) > 1
  /\ \E i \in DOMAIN threadList : threadList' = RemoveAt(threadList, i)
  /\ UNCHANGED <<state, reason, mBreakpoints, installed, nextId, runs>>

\* One thread has a reason to stop, the others have none; a breakpoint is one
\* that the target has.
Stops ==
  /\ state = "running"
  /\ \E t \in Range(threadList), r \in StopReasons :
       /\ r = "breakpoint" => installed # {}
       /\ reason' = [u \in ThreadIds |-> IF u = t THEN r ELSE "none"]
  /\ state' = "stopped"
  /\ UNCHANGED <<threadList, mBreakpoints, installed, nextId, runs>>

Exits ==
  /\ state = "running"
  /\ state' = "exited"
  /\ threadList' = <<>>
  /\ UNCHANGED <<reason, mBreakpoints, installed, nextId, runs>>

ProgramStep == ThreadStarts \/ ThreadEnds \/ Stops \/ Exits
=============================================================================
