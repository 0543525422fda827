---------------------------- MODULE ThreadNames ----------------------------
(***************************************************************************)
(* libsystem_intercept.so, preloaded into the traced program, replaces     *)
(* pthread_create and gives every thread a name; the record and the replay *)
(* plugin both use that name as the name of the thread's trace file.       *)
(*                                                                         *)
(* A name "main_0_2" is represented by the sequence of its counters        *)
(* <<0, 2>>; "main" is <<>>.  The replaced pthread_create is three steps   *)
(* of the creating thread, because the new thread runs, under the name it  *)
(* inherits from its creator, from the first of them on:                   *)
(*   Create        the real pthread_create                                 *)
(*   ComposeName   own name + "_" + threadCouner++                         *)
(*   SetName       pthread_setname_np on the new thread                    *)
(***************************************************************************)
EXTENDS Naturals, Sequences, FiniteSets

CONSTANTS
  Threads,     \* the threads the program may have
  Main,        \* the initial thread
  Eager,       \* threads that act before their creator's pthread_create
               \* returns; the others first wait for work from their creator
  Followed,    \* threads whose openat system call is carried out: all of them
               \* by hand, only the initial one under the tool's ptrace loop,
               \* which sets no PTRACE_O_TRACECLONE
  Radix,       \* number base of std::to_string: 10
  MaxLen,      \* longest name Linux accepts: 15 characters
  MaxCounter,  \* bound on the threads one thread creates
  MayFail      \* whether the real pthread_create may return an error

ASSUME ThreadsAssumption ==
  /\ Main \in Threads
  /\ Eager \subseteq Threads
  /\ Followed \subseteq Threads

ASSUME NumbersAssumption ==
  /\ Radix \in Nat \ {0, 1}
  /\ MaxLen \in Nat
  /\ MaxCounter \in Nat
  /\ MayFail \in BOOLEAN

VARIABLES
  alive,        \* "unborn", "running" or "ended"
  tname,        \* the name the kernel keeps for the thread
  threadCouner, \* the thread_local counter
  step,         \* where the thread is in the replaced pthread_create
  target,       \* {u} when *thread designates u, {} when it is junk
  newName,      \* the composed name, and whether it extends an own name
  fresh,        \* threads whose creator has not returned yet
  own,          \* the thread's name was made for it, and so were the names
                \* of the threads it was derived from (history)
  issued,       \* every such name made so far (history)
  crashed       \* the process died

vars == <<alive, tname, threadCouner, step, target, newName, fresh, own,
          issued, crashed>>

Names == Seq(Nat)

\* Characters of a name: "main", then "_" and a digit for every counter, and
\* another digit for a counter that has two (no more for MaxCounter).
NameLen(name) ==
  4 + 2 * Len(name) + Cardinality({k \in DOMAIN name : name[k] >= Radix})

TypeOK ==
  /\ alive \in [Threads -> {"unborn", "running", "ended"}]
  /\ tname \in [Threads -> Names]
  /\ threadCouner \in [Threads -> Nat]
  /\ step \in [Threads -> {"free", "created", "composed"}]
  /\ target \in [Threads -> SUBSET Threads]
  /\ newName \in [Threads -> [name : Names, own : BOOLEAN]]
  /\ fresh \in SUBSET Threads
  /\ own \in [Threads -> BOOLEAN]
  /\ issued \in SUBSET Names
  /\ crashed \in BOOLEAN

\* setMainThreadName, run when the library is loaded.
Init ==
  /\ alive = [t \in Threads |-> IF t = Main THEN "running" ELSE "unborn"]
  /\ tname = [t \in Threads |-> <<>>]
  /\ threadCouner = [t \in Threads |-> 0]
  /\ step = [t \in Threads |-> "free"]
  /\ target = [t \in Threads |-> {}]
  /\ newName = [t \in Threads |-> [name |-> <<>>, own |-> FALSE]]
  /\ fresh = {}
  /\ own = [t \in Threads |-> t = Main]
  /\ issued = {<<>>}
  /\ crashed = FALSE

(***************************************************************************)
(* t runs code of its own: it may create threads, make PI calls and end.   *)
(***************************************************************************)
Ready(t) ==
  /\ ~crashed
  /\ alive[t] = "running"
  /\ step[t] = "free"
  /\ t \in fresh => t \in Eager

\* The real pthread_create succeeds: Linux copies the creator's name.
Create(t, u) ==
  /\ Ready(t)
  /\ threadCouner[t] < MaxCounter
  /\ alive[u] = "unborn"
  /\ alive' = [alive EXCEPT ![u] = "running"]
  /\ tname' = [tname EXCEPT ![u] = tname[t]]
  /\ step' = [step EXCEPT ![t] = "created"]
  /\ target' = [target EXCEPT ![t] = {u}]
  /\ fresh' = fresh \cup {u}
  /\ UNCHANGED <<threadCouner, newName, own, issued, crashed>>

\* The real pthread_create fails.  *thread is then indeterminate: junk, or
\* still the handle of a thread that was created through the same variable.
CreateFails(t, stale) ==
  /\ MayFail
  /\ Ready(t)
  /\ threadCouner[t] < MaxCounter
  /\ stale \subseteq {u \in Threads \ fresh : u # Main /\ alive[u] # "unborn"}
  /\ \A u, v \in stale : u = v
  /\ step' = [step EXCEPT ![t] = "created"]
  /\ target' = [target EXCEPT ![t] = stale]
  /\ UNCHANGED <<alive, tname, threadCouner, newName, fresh, own, issued, crashed>>

\* threadCouner++, once per call.  Mutants: the counter is not incremented,
\* or is decremented.
NoIncrement(n) == n
Decrement(n) == n - 1
Increment(n) == n + 1

\* Whatever the real call returned, the creator reads its own name and
\* appends the counter.
ComposeName(t) ==
  /\ ~crashed
  /\ step[t] = "created"
  /\ LET name == Append(tname[t], threadCouner[t])
     IN  /\ newName' = [newName EXCEPT ![t] = [name |-> name, own |-> own[t]]]
         /\ issued' = IF own[t] THEN issued \cup {name} ELSE issued
  /\ threadCouner' = [threadCouner EXCEPT ![t] = Increment(@)]
  /\ step' = [step EXCEPT ![t] = "composed"]
  /\ UNCHANGED <<alive, tname, target, fresh, own, crashed>>

\* pthread_setname_np on another thread writes /proc/self/task/<tid>/comm:
\* it fails when the name is too long, when the file of a thread that ended
\* is gone, and when the caller's openat is not carried out.
Accepted(t, u) ==
  /\ NameLen(newName[t].name) <= MaxLen
  /\ alive[u] = "running"
  /\ t \in Followed

\* The thread that is named, *thread.
Designated(t) == target[t]

\* The result of pthread_setname_np is ignored and pthread_create returns.
SetName(t) ==
  /\ ~crashed
  /\ step[t] = "composed"
  /\ LET named == {u \in Designated(t) : Accepted(t, u)}
     IN  /\ tname' = [u \in Threads |->
                        IF u \in named THEN newName[t].name ELSE tname[u]]
         /\ own' = [u \in Threads |->
                        IF u \in named THEN newName[t].own ELSE own[u]]
  /\ fresh' = fresh \ target[t]
  /\ step' = [step EXCEPT ![t] = "free"]
  /\ target' = [target EXCEPT ![t] = {}]
  /\ newName' = [newName EXCEPT ![t] = [name |-> <<>>, own |-> FALSE]]
  /\ UNCHANGED <<alive, threadCouner, issued, crashed>>

\* pthread_setname_np on a junk handle reads through a wild pointer.
SetNameOnJunk(t) ==
  /\ ~crashed
  /\ step[t] = "composed"
  /\ target[t] = {}
  /\ crashed' = TRUE
  /\ UNCHANGED <<alive, tname, threadCouner, step, target, newName, fresh, own,
                 issued>>

\* A thread other than the initial one returns from its start routine.
Exit(t) ==
  /\ Ready(t)
  /\ t # Main
  /\ alive' = [alive EXCEPT ![t] = "ended"]
  /\ UNCHANGED <<tname, threadCouner, step, target, newName, fresh, own, issued,
                 crashed>>

Next ==
  \E t \in Threads :
    \/ \E u \in Threads : Create(t, u)
    \/ \E stale \in SUBSET Threads : CreateFails(t, stale)
    \/ ComposeName(t)
    \/ SetName(t)
    \/ SetNameOnJunk(t)
    \/ Exit(t)

Spec == Init /\ [][Next]_vars

(***************************************************************************)
(* Properties.                                                             *)
(***************************************************************************)

\* Two threads whose names were made for them never have the same name,
\* whatever the interleaving of creators and created threads, failed
\* creations, refused names and threads that act before they are named:
\* the counter of pthread_create is read and incremented exactly once per
\* name (threads.cpp, newName += "_" + std::to_string(threadCouner++)).
OwnNamesDistinct ==
  \A a, b \in Threads : a # b /\ own[a] /\ own[b] => tname[a] # tname[b]

\* "assigns each thread a unique name": once pthread_create has returned to
\* the creator, no two threads of the program have the same name.
UniqueNames ==
  \A a, b \in Threads :
    /\ a # b
    /\ alive[a] # "unborn" /\ a \notin fresh
    /\ alive[b] # "unborn" /\ b \notin fresh
    => tname[a] # tname[b]

\* Replay finds a thread's records by its name, so the name may not move on
\* once the thread can be making PI calls: only the thread's own creation
\* names it, once, before its creator goes on.
NameGivenOnce ==
  [][\A u \in Threads :
       alive[u] # "unborn" /\ u \notin fresh => tname'[u] = tname[u]]_vars
=============================================================================
