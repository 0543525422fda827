---------------------------- MODULE NativeTracer ----------------------------
(***************************************************************************)
(* The ptrace loop of `dpcpp_trace record` and `dpcpp_trace replay`: the   *)
(* tool forks the program, a seccomp filter stops the program's initial    *)
(* thread at its file system calls, and a handler sees the path first.     *)
(* record lists the files; replay of a packed trace redirects them.        *)
(*                                                                         *)
(* Two processes run concurrently: the tool, one ptrace or wait request    *)
(* per step, and the program, whose other threads (or a SIGKILL) may end   *)
(* it while its initial thread is stopped.                                 *)
(***************************************************************************)
EXTENDS Naturals, Sequences

CONSTANTS
  Modes,        \* the commands: "record", "replay" or both
  Paths,        \* the paths the program uses
  Libraries,    \* paths with ".so" in them
  Keys,         \* the paths in replay_file_map.json, in the order of the map;
                \* none when the trace is not packed
  Mentions,     \* for a library, the keys with its file name in them
  Unreadable,   \* paths at an address where a peek of 8 bytes fails
  ExitCodes,    \* exit codes of the program
  FatalSignals, \* SIGTERM, SIGSEGV, SIGINT, SIGILL, SIGABRT, SIGFPE
  OtherSignals, \* the signals wait() does not list
  EndsAnytime,  \* another thread, or SIGKILL, may end the program
  MaxCalls      \* bound on the file system calls of the program

ASSUME PathsAssumption ==
  /\ Modes \subseteq {"record", "replay"}
  /\ Libraries \subseteq Paths
  /\ Unreadable \subseteq Paths
  /\ Keys \in Seq(Paths)
  /\ Mentions \in [Libraries -> SUBSET Paths]
  /\ \A i \in DOMAIN Keys : Keys[i] \in Libraries => Keys[i] \in Mentions[Keys[i]]

ASSUME CodesAssumption ==
  /\ ExitCodes \subseteq 0 .. 255
  /\ FatalSignals \subseteq 1 .. 64
  /\ OtherSignals \subseteq (1 .. 64) \ FatalSignals
  /\ EndsAnytime \in BOOLEAN
  /\ MaxCalls \in Nat

VARIABLES
  mode,       \* the command the tool was started with
  tracer,     \* where the tool is in fork() and in the worker loop
  mExitCode,
  opts,       \* PTRACE_O_TRACESECCOMP is set
  files,      \* record's list of opened files
  config,     \* files_config.json: {} or a set with the list
  main,       \* the program's initial thread
  why,        \* its exit code, or the signal that stopped or killed it
  traced,     \* it still has a tracer
  sys,        \* the file system call it is stopped at, or made last
  opens,      \* the file system calls carried out (history)
  refused     \* a call failed with ENOSYS for want of a tracer (history)

tracerVars == <<tracer, mExitCode, opts, files, config>>
vars == <<mode, tracerVars, main, why, traced, sys, opens, refused>>

Stopped == {"signal", "syscall"}
Gone == {"exited", "killed"}
Finished == {"done", "threw"}

\* Where a call ends up: the path itself or the packed copy of a path.
Orig(p) == [packed |-> FALSE, path |-> p]
Copy(p) == [packed |-> TRUE, path |-> p]
Targets == [packed : BOOLEAN, path : Paths]

SysCalls == {"stat", "newfstatat", "openat", "open"}
FileCalls == [nr : SysCalls, path : Paths, on : Targets]

\* The calls traceMe's filter stops.  Mutant: openat is left out.
NoOpenFilter == {"newfstatat", "stat"}
Filter == {"newfstatat", "openat", "stat"}

TypeOK ==
  /\ mode \in Modes
  /\ tracer \in {"forked", "options", "cont", "wait", "regs", "peek", "read",
                 "looping", "handle", "returned", "done", "threw"}
  /\ mExitCode \in 0 .. 255
  /\ opts \in BOOLEAN
  /\ files \in Seq(Paths)
  /\ config \in SUBSET Seq(Paths)
  /\ main \in {"starting", "running"} \cup Stopped \cup Gone
  /\ why \in 0 .. 255
  /\ traced \in BOOLEAN
  /\ sys \in FileCalls
  /\ opens \in Seq(FileCalls)
  /\ refused \in BOOLEAN

\* After ::fork(): the child has not called traceMe yet.
Init ==
  /\ mode \in Modes
  /\ tracer = "forked"
  /\ mExitCode = 0
  /\ opts = FALSE
  /\ files = <<>>
  /\ config = {}
  /\ main = "starting"
  /\ why = 0
  /\ traced = TRUE
  /\ \E p \in Paths : sys = [nr |-> "openat", path |-> p, on |-> Orig(p)]
  /\ opens = <<>>
  /\ refused = FALSE

(***************************************************************************)
(* The program.                                                            *)
(***************************************************************************)

\* traceMe: the filter is installed and the child stops itself.
\* Mutant: the child runs on.
TraceMeOnly ==
  /\ main = "starting"
  /\ main' = "running"
  /\ UNCHANGED <<mode, tracerVars, why, traced, sys, opens, refused>>
TraceMe ==
  /\ main = "starting"
  /\ main' = "signal"
  /\ why' = 19
  /\ UNCHANGED <<mode, tracerVars, traced, sys, opens, refused>>

\* A system call that takes a path.  What the filter does not list is carried
\* out; without a tracer the rest fails with ENOSYS.
FileCall(nr, p) ==
  /\ main = "running"
  /\ Len(opens) < MaxCalls
  /\ LET c == [nr |-> nr, path |-> p, on |-> Orig(p)]
     IN  \/ /\ nr \in Filter
            /\ traced /\ opts
            /\ main' = "syscall"
            /\ sys' = c
            /\ UNCHANGED <<opens, refused>>
         \/ /\ nr \in Filter
            /\ ~(traced /\ opts)
            /\ refused' = TRUE
            /\ UNCHANGED <<main, sys, opens>>
         \/ /\ nr \notin Filter
            /\ opens' = Append(opens, c)
            /\ UNCHANGED <<main, sys, refused>>
  /\ UNCHANGED <<mode, tracerVars, why, traced>>

\* A signal is about to be delivered to the initial thread; execve's SIGTRAP
\* is one of them.
Signal(s) ==
  /\ main = "running"
  /\ traced
  /\ main' = "signal"
  /\ why' = s
  /\ UNCHANGED <<mode, tracerVars, traced, sys, opens, refused>>

\* The initial thread ends the program.
Exit(code) ==
  /\ main = "running"
  /\ main' = "exited"
  /\ why' = code
  /\ UNCHANGED <<mode, tracerVars, traced, sys, opens, refused>>

\* Another thread calls exit, or the process is killed, wherever the initial
\* thread is.
EndElsewhere(state, code) ==
  /\ EndsAnytime
  /\ main \notin Gone
  /\ main' = state
  /\ why' = code
  /\ UNCHANGED <<mode, tracerVars, traced, sys, opens, refused>>

(***************************************************************************)
(* The tool.                                                               *)
(***************************************************************************)
Tool(label) == tracer' = label

\* What waitpid reports.  Mutant: stops only.
ReportsStops == main \in Stopped
Reported == main \in Stopped \cup Gone

\* The first wait of fork(): "Process immediately exited".
FirstWait ==
  /\ tracer = "forked"
  /\ Reported
  /\ Tool(IF main \in Gone THEN "threw" ELSE "options")
  /\ UNCHANGED <<mode, mExitCode, opts, files, config, main, why, traced, sys, opens, refused>>

\* setopt(PTRACE_O_TRACESECCOMP), which throws when the child is gone.
SetOptions ==
  /\ tracer = "options"
  /\ IF main \in Gone
       THEN Tool("threw") /\ UNCHANGED opts
       ELSE Tool("cont") /\ opts' = TRUE
  /\ UNCHANGED <<mode, mExitCode, files, config, main, why, traced, sys, opens, refused>>

\* PTRACE_CONT without a signal: a call the thread is stopped at is carried
\* out, a signal it is stopped for is dropped.  It throws when there is no
\* stopped tracee any more.  Mutant: a thread stopped for a signal stays so.
OnlyCalls == main = "syscall"
CanContinue == main \in Stopped

Continue ==
  /\ tracer = "cont"
  /\ IF main \in Gone
       THEN Tool("threw") /\ UNCHANGED <<main, opens>>
       ELSE /\ Tool("wait")
            /\ main' = IF CanContinue THEN "running" ELSE main
            /\ opens' = IF main = "syscall" THEN Append(opens, sys) ELSE opens
  /\ UNCHANGED <<mode, mExitCode, opts, files, config, why, traced, sys, refused>>

\* What wait() makes of the status: the worker returns, or goes round.
EndsLoop == main \in Gone \/ (main = "signal" /\ why \in FatalSignals)

\* mExitCode = res.getCode().  Mutants: the code of a signal is not kept; the
\* status is taken for the exit code.
ExitCodeOnly == IF main = "exited" THEN why ELSE mExitCode
RawStatus == IF main = "exited" THEN why * 256 ELSE why
ResultCode == why

Wait ==
  /\ tracer = "wait"
  /\ Reported
  /\ IF EndsLoop
       THEN Tool("returned") /\ mExitCode' = ResultCode
       ELSE Tool(IF main = "syscall" THEN "regs" ELSE "cont") /\ UNCHANGED mExitCode
  /\ UNCHANGED <<mode, opts, files, config, main, why, traced, sys, opens, refused>>

\* PTRACE_GETREGS throws when the tracee is gone ...
GetRegs ==
  /\ tracer = "regs"
  /\ Tool(IF main \in Gone THEN "threw" ELSE "peek")
  /\ UNCHANGED <<mode, mExitCode, opts, files, config, main, why, traced, sys, opens, refused>>

\* ... the peek for the call number then finds none of the three ...
PeekCall ==
  /\ tracer = "peek"
  /\ Tool(IF main \in Gone THEN "cont" ELSE "read")
  /\ UNCHANGED <<mode, mExitCode, opts, files, config, main, why, traced, sys, opens, refused>>

\* ... and readString takes every failed peek for eight bytes of the path.
ReadString ==
  /\ tracer = "read"
  /\ Tool(IF main \in Gone \/ sys.path \in Unreadable THEN "looping" ELSE "handle")
  /\ UNCHANGED <<mode, mExitCode, opts, files, config, main, why, traced, sys, opens, refused>>

\* The endless path does not fit in memory any more.
OutOfMemory ==
  /\ tracer = "looping"
  /\ Tool("threw")
  /\ UNCHANGED <<mode, mExitCode, opts, files, config, main, why, traced, sys, opens, refused>>

\* findSuitableReplacement: a library by its file name, the first key wins; a
\* file by its path.  {} when there is none.
Candidates(p) ==
  {i \in DOMAIN Keys : IF p \in Libraries THEN Keys[i] \in Mentions[p] ELSE Keys[i] = p}
FindSuitableReplacement(p) ==
  {Copy(Keys[i]) : i \in {i \in Candidates(p) : \A j \in Candidates(p) : i <= j}}

\* The handler record registers: onFileOpen only.
RecordHandlers(c) ==
  /\ files' = IF c.nr = "openat" THEN Append(files, c.path) ELSE files
  /\ UNCHANGED sys
  /\ Tool("cont")

\* replaceFilename(replacement), in the register that holds the path.
\* Mutant: the handler for stat is not registered.
OpenOnly(c) == IF c.nr = "openat" THEN FindSuitableReplacement(c.path) ELSE {}
Replacement(c) == FindSuitableReplacement(c.path)

\* The handlers of a replay; writeString throws when its poke fails.
ReplayHandlers(c) ==
  /\ IF Replacement(c) = {} THEN Tool("cont") /\ UNCHANGED sys
     ELSE IF main \in Gone THEN Tool("threw") /\ UNCHANGED sys
     ELSE Tool("cont") /\ \E r \in Replacement(c) : sys' = [sys EXCEPT !.on = r]
  /\ UNCHANGED files

Handle ==
  /\ tracer = "handle"
  /\ IF mode = "record" THEN RecordHandlers(sys) ELSE ReplayHandlers(sys)
  /\ UNCHANGED <<mode, mExitCode, opts, config, main, why, traced, opens, refused>>

\* record writes files_config.json after the loop; replay just returns.
Finish ==
  /\ tracer = "returned"
  /\ Tool("done")
  /\ config' = IF mode = "record" THEN {files} ELSE config
  /\ UNCHANGED <<mode, mExitCode, opts, files, main, why, traced, sys, opens, refused>>

\* The tool's process ends and the kernel lets the program go: the call is
\* carried out, the signal is delivered, and kills the program or not.
Detach ==
  /\ tracer \in Finished
  /\ traced
  /\ traced' = FALSE
  /\ opens' = IF main = "syscall" THEN Append(opens, sys) ELSE opens
  /\ \/ main \in Stopped /\ main' = "running"
     \/ main = "signal" /\ main' = "killed"
     \/ main \notin Stopped /\ main' = main
  /\ UNCHANGED <<mode, tracerVars, why, sys, refused>>

ToolStep ==
  \/ FirstWait \/ SetOptions \/ Continue \/ Wait
  \/ GetRegs \/ PeekCall \/ ReadString \/ Handle \/ Finish \/ Detach

Next ==
  \/ TraceMe
  \/ \E nr \in SysCalls, p \in Paths : FileCall(nr, p)
  \/ \E s \in FatalSignals \cup OtherSignals : Signal(s)
  \/ \E code \in ExitCodes : Exit(code) \/ EndElsewhere("exited", code)
  \/ EndElsewhere("killed", 9)
  \/ ToolStep
  \/ OutOfMemory

Spec == Init /\ [][Next]_vars

\* The tool is scheduled, waitpid returns when there is something to report,
\* the kernel detaches, and the child gets to its SIGSTOP.  The program
\* itself need not do anything.
FairSpec == Spec /\ WF_vars(ToolStep) /\ WF_vars(TraceMe)

(***************************************************************************)
(* Properties.                                                             *)
(***************************************************************************)

\* f enumerates the openat calls that were carried out, in their order.
OpenatOrder(f, n) ==
  /\ \A j, k \in 1 .. n : j < k => f[j] < f[k]
  /\ \A i \in DOMAIN opens : opens[i].nr = "openat" <=> \E j \in 1 .. n : f[j] = i

\* While the program is traced by record, every openat it has carried out is
\* already in the list, in the order of the calls: the handler runs before
\* PTRACE_CONT, and a program that dies in between leaves at most one more.
OpensReported ==
  mode = "record" /\ traced =>
    \E n \in 0 .. Len(files) : \E f \in [1 .. n -> DOMAIN opens] :
      /\ OpenatOrder(f, n)
      /\ \A j \in 1 .. n : files[j] = opens[f[j]].path

\* The traced thread never gets ENOSYS from the filter: the option is set
\* before the child runs on, and the loop is left only when it cannot.
NeverRefused == traced => ~refused

\* record never takes a program that failed for one that succeeded, however
\* its end races with the loop ("can catch signals", "can capture exit code"
\* in unittests/utils/NativeTracer.cpp).
NoFalseSuccess ==
  tracer \in {"returned", "done"} /\ mExitCode = 0 /\ traced
    => main = "exited" /\ why = 0

\* The path has a copy in pack/.
Mapped(p) == \E k \in DOMAIN Keys : Keys[k] = p

\* The file a call ends up at: a file of the map at its own copy and any other
\* file in its place.  A library may be at the copy of another one that has
\* its file name in its path, if that one is not behind it in the map.
InPlace(c) ==
  \/ Mapped(c.path) /\ c.on = Copy(c.path)
  \/ ~Mapped(c.path) /\ c.on = Orig(c.path)
  \/ /\ c.path \in Libraries
     /\ \E j \in DOMAIN Keys :
          /\ Keys[j] \in Mentions[c.path]
          /\ c.on = Copy(Keys[j])
          /\ \A k \in DOMAIN Keys : Keys[k] = c.path => j <= k

\* In a replay each stat, newfstatat and openat that is carried out is so on
\* the right file: the handler has run and its poke has succeeded before the
\* call goes on, whenever the program is killed, stopped for a signal or let
\* go.  (The old system call open is not in the filter.)
PackedRedirected ==
  mode = "replay" =>
    \A i \in DOMAIN opens :
      opens[i].nr \in {"stat", "newfstatat", "openat"} => InPlace(opens[i])

\* doc/theory_of_operation.md has the map relate "original files and their
\* packed versions": a file of the map is replaced by its own copy, a library
\* whose file name occurs in the path of another one included.
OwnCopy ==
  mode = "replay" =>
    \A i \in DOMAIN opens :
      opens[i].nr \in {"stat", "newfstatat", "openat"} /\ Mapped(opens[i].path)
        => opens[i].on = Copy(opens[i].path)

\* No stop of the initial thread lasts: it goes on with its call or after the
\* dropped signal, or the tool ends and lets it go.  The exception is a path
\* that readString cannot read.
StopsEnd == main \in Stopped ~> main \notin Stopped \/ tracer = "looping"

\* When the program has ended, the tool ends as well; the one way out is the
\* end of the program between the last two peeks, which leaves readString
\* without a terminating zero.
ToolEnds == main \in Gone ~> tracer \in Finished \cup {"looping"}
=============================================================================
