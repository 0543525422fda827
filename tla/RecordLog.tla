------------------------------ MODULE RecordLog ------------------------------
(***************************************************************************)
(* What the recording plugin promises to the reader of a trace: one log    *)
(* per thread that keeps up with the calls the thread has returned from.   *)
(*                                                                         *)
(* The log of a thread is at most one entry ahead, the entry of the call   *)
(* the thread is in; by the time the call returns its entry is there,      *)
(* whatever happens to the process later.  Only calls in Lossy may return  *)
(* without one.  Images, buffers, memory object files and locks are not    *)
(* part of the promise.                                                    *)
(***************************************************************************)
EXTENDS Naturals, Sequences

CONSTANTS
  Threads,
  Listed,       \* the threads whose log is kept
  Calls,        \* the calls the program makes
  Lossy,        \* calls that may be left out of the log
  Entry(_, _)   \* the entry of a call, given the call's number

VARIABLES
  log,       \* the entries of each thread
  returned,  \* the calls each thread has returned from
  stopped    \* the process is gone

logVars == <<log, returned, stopped>>

Init ==
  /\ log = [t \in Threads |-> <<>>]
  /\ returned = [t \in Threads |-> <<>>]
  /\ stopped = FALSE

\* The number of the call that t is in, or makes next.
NextNumber(t) == Len(returned[t]) + 1

\* The last entry of t's log is that of the call t is in.
Ahead(t) == log[t] # <<>> /\ log[t][Len(log[t])].n = NextNumber(t)

\* The entry of a call that has not returned yet.
WriteAhead(t, c) ==
  /\ ~stopped
  /\ t \in Listed
  /\ ~Ahead(t)
  /\ log' = [log EXCEPT ![t] = Append(@, Entry(c, NextNumber(t)))]
  /\ UNCHANGED <<returned, stopped>>

\* A call returns: its entry was written ahead, is written now, or is lost.
Return(t, c) ==
  /\ ~stopped
  /\ returned' = [returned EXCEPT ![t] = Append(@, c)]
  /\ \/ /\ Ahead(t)
        /\ log[t][Len(log[t])] = Entry(c, NextNumber(t))
        /\ UNCHANGED log
     \/ /\ ~Ahead(t)
        /\ t \in Listed
        /\ log' = [log EXCEPT ![t] = Append(@, Entry(c, NextNumber(t)))]
     \/ /\ ~Ahead(t)
        /\ t \notin Listed \/ c \in Lossy
        /\ UNCHANGED log
  /\ UNCHANGED stopped

Stop ==
  /\ ~stopped
  /\ stopped' = TRUE
  /\ UNCHANGED <<log, returned>>

Next ==
  \/ \E t \in Threads, c \in Calls : WriteAhead(t, c) \/ Return(t, c)
  \/ Stop

Spec == Init /\ [][Next]_logVars
=============================================================================
