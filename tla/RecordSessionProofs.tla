------------------------ MODULE RecordSessionProofs ------------------------
(***************************************************************************)
(* Proofs about ThreadNames and RecordSession, for any number of threads   *)
(* and calls, any choice of the threads that run ahead of their creator    *)
(* and of those the tracer follows, and any name length limit.  The names  *)
(* a session gives are those of ThreadNames on its own, so what is proved  *)
(* there holds in a session; the files add that a name, once it is that of *)
(* a file, is not given to another thread.                                 *)
(***************************************************************************)
EXTENDS RecordSession, FiniteSetTheorems, SequenceTheorems, TLAPS

(***************************************************************************)
(* Names.                                                                  *)
(***************************************************************************)

\* The names t has composed for another thread and not set yet.
Pending(t) == step[t] = "composed" /\ newName[t].own

(***************************************************************************)
(* OwnNamesDistinct is not inductive: a name must also differ from the     *)
(* names that are composed but not set yet, and a counter must never meet  *)
(* a name that was issued earlier.                                         *)
(***************************************************************************)

\* Names in use, and names about to be used, have been issued.
HeldIssued ==
  /\ \A t \in Threads : own[t] => tname[t] \in issued
  /\ \A t \in Threads : Pending(t) => newName[t].name \in issued

\* A name about to be used is neither in use nor about to be used elsewhere.
PendingDistinct ==
  \A t \in Threads : Pending(t) =>
    /\ \A a \in Threads : own[a] => tname[a] # newName[t].name
    /\ \A s \in Threads : Pending(s) /\ s # t => newName[s].name # newName[t].name

\* What a thread with a name of its own would issue next is still new.
CounterAhead ==
  \A t \in Threads : own[t] =>
    \A k \in Nat : k >= threadCouner[t] => Append(tname[t], k) \notin issued

\* No name extends a name that is not in use yet.
PendingUnextended ==
  \A t \in Threads : Pending(t) =>
    \A k \in Nat : Append(newName[t].name, k) \notin issued

\* Only issued names are extended.
PrefixIssued ==
  \A n \in Names, k \in Nat : Append(n, k) \in issued => n \in issued

\* A name goes to one thread, and to a thread that exists.
OneTarget ==
  /\ \A t \in Threads : \A u, v \in target[t] : u = v
  /\ \A t \in Threads : alive[t] = "unborn" => ~own[t]

IInv ==
  /\ TypeOK
  /\ OwnNamesDistinct
  /\ HeldIssued
  /\ PendingDistinct
  /\ CounterAhead
  /\ PendingUnextended
  /\ PrefixIssued
  /\ OneTarget

\* Appending a counter to a name is injective: names with different texts
\* come from different creators or different counter values.
LEMMA SuffixInjective ==
  ASSUME NEW m \in Names, NEW n \in Names, NEW j \in Nat, NEW k \in Nat,
         Append(m, j) = Append(n, k)
  PROVE  m = n /\ j = k
BY AppendInjective DEF Names

\* A name is never equal to one of its extensions.
LEMMA AppendLonger ==
  ASSUME NEW n \in Names, NEW k \in Nat
  PROVE  Append(n, k) # n /\ Append(n, k) \in Names /\ Append(n, k) # <<>>
BY DEF Names

\* The type invariant of the library's state: every step of pthread_create,
\* failed or not, keeps names, counters and targets well formed.
LEMMA TypeStep == TypeOK /\ [Next]_vars => TypeOK'
<1> SUFFICES ASSUME TypeOK, [Next]_vars PROVE TypeOK'
  OBVIOUS
<1> USE DEF TypeOK
<1>1. CASE UNCHANGED vars
  BY <1>1 DEF vars
<1>2. CASE Next
  <2> PICK t \in Threads :
         \/ \E u \in Threads : Create(t, u)
         \/ \E stale \in SUBSET Threads : CreateFails(t, stale)
         \/ ComposeName(t)
         \/ SetName(t)
         \/ SetNameOnJunk(t)
         \/ Exit(t)
    BY <1>2 DEF Next
  <2>1. ASSUME NEW u \in Threads, Create(t, u) PROVE TypeOK'
    BY <2>1 DEF Create
  <2>2. ASSUME NEW stale \in SUBSET Threads, CreateFails(t, stale) PROVE TypeOK'
    BY <2>2 DEF CreateFails
  <2>3. CASE ComposeName(t)
    <3>1. Append(tname[t], threadCouner[t]) \in Names
      BY AppendLonger
    <3>2. newName' \in [Threads -> [name : Names, own : BOOLEAN]]
      BY <2>3, <3>1 DEF ComposeName
    <3>3. issued' \in SUBSET Names
      BY <2>3, <3>1 DEF ComposeName
    <3> QED BY <2>3, <3>2, <3>3 DEF ComposeName, Increment
  <2>4. CASE SetName(t)
    BY <2>4 DEF SetName, Names
  <2>5. CASE SetNameOnJunk(t)
    BY <2>5 DEF SetNameOnJunk
  <2>6. CASE Exit(t)
    BY <2>6 DEF Exit
  <2> QED BY <2>1, <2>2, <2>3, <2>4, <2>5, <2>6
<1> QED BY <1>1, <1>2

\* Composing a name extends the set of issued names by one that is new.
LEMMA ComposeStep ==
  ASSUME IInv, NEW t \in Threads, ComposeName(t), TypeOK'
  PROVE  IInv'
<1> DEFINE name == Append(tname[t], threadCouner[t])
<1> USE DEF IInv, TypeOK
<1>1. /\ tname' = tname /\ own' = own
      /\ name \in Names /\ name # <<>>
      /\ newName' = [newName EXCEPT ![t] = [name |-> name, own |-> own[t]]]
      /\ issued' = IF own[t] THEN issued \cup {name} ELSE issued
      /\ threadCouner' = [threadCouner EXCEPT ![t] = @ + 1]
      /\ step' = [step EXCEPT ![t] = "composed"]
      /\ step[t] = "created"
  BY AppendLonger DEF ComposeName, Increment
<1>2. \A s \in Threads : s # t => (Pending(s)' <=> Pending(s)) /\ newName'[s] = newName[s]
  BY <1>1 DEF Pending
<1>3. (Pending(t)' <=> own[t]) /\ newName'[t].name = name
  BY <1>1 DEF Pending
<1>4. own[t] => name \notin issued
  BY DEF CounterAhead
<1>5. \A x \in issued : x \in issued'
  BY <1>1
<1> HIDE DEF name
<1>6. OwnNamesDistinct'
  BY <1>1 DEF OwnNamesDistinct
<1>7. HeldIssued'
  BY <1>1, <1>2, <1>3, <1>5 DEF HeldIssued
<1>8. PendingDistinct'
  BY <1>1, <1>2, <1>3, <1>4 DEF PendingDistinct, HeldIssued
<1>9. CounterAhead'
  <2> SUFFICES ASSUME NEW p \in Threads, own[p], NEW k \in Nat, k >= threadCouner'[p]
               PROVE  Append(tname[p], k) \notin issued'
    BY <1>1 DEF CounterAhead
  <2>1. k >= threadCouner[p]
    BY <1>1
  <2>2. Append(tname[p], k) \notin issued
    BY <2>1 DEF CounterAhead
  <2>3. own[t] => Append(tname[p], k) # name
    <3> SUFFICES ASSUME own[t], Append(tname[p], k) = name PROVE FALSE
      OBVIOUS
    <3>1. tname[p] = tname[t] /\ k = threadCouner[t]
      BY SuffixInjective DEF name
    <3>2. p = t
      BY <3>1 DEF OwnNamesDistinct
    <3> QED BY <1>1, <3>1, <3>2
  <2> QED BY <1>1, <2>2, <2>3
<1>10. PendingUnextended'
  <2> SUFFICES ASSUME NEW s \in Threads, Pending(s)', NEW k \in Nat
               PROVE  Append(newName'[s].name, k) \notin issued'
    BY DEF PendingUnextended
  <2>1. CASE s = t
    <3>1. own[t]
      BY <1>3, <2>1
    <3>2. Append(name, k) \notin issued
      BY <1>1, <1>4, <3>1 DEF PrefixIssued
    <3>3. Append(name, k) # name
      BY <1>1, AppendLonger
    <3> QED BY <1>1, <1>3, <2>1, <3>2, <3>3
  <2>2. CASE s # t
    <3>1. Append(newName[s].name, k) \notin issued
      BY <1>2, <2>2 DEF PendingUnextended
    <3>2. own[t] => Append(newName[s].name, k) # name
      <4> SUFFICES ASSUME own[t], Append(newName[s].name, k) = name PROVE FALSE
        OBVIOUS
      <4>1. newName[s].name = tname[t]
        BY SuffixInjective DEF name
      <4> QED BY <1>2, <2>2, <4>1 DEF PendingDistinct
    <3> QED BY <1>1, <1>2, <2>2, <3>1, <3>2
  <2> QED BY <2>1, <2>2
<1>11. PrefixIssued'
  <2> SUFFICES ASSUME NEW n \in Names, NEW k \in Nat, Append(n, k) \in issued'
               PROVE  n \in issued'
    BY DEF PrefixIssued
  <2>1. CASE Append(n, k) \in issued
    BY <1>5, <2>1 DEF PrefixIssued
  <2>2. CASE own[t] /\ Append(n, k) = name
    <3>1. n = tname[t]
      BY <2>2, SuffixInjective DEF name
    <3> QED BY <1>5, <2>2, <3>1 DEF HeldIssued
  <2> QED BY <1>1, <2>1, <2>2
<1>12. OneTarget'
  BY DEF ComposeName, OneTarget
<1> QED BY <1>6, <1>7, <1>8, <1>9, <1>10, <1>11, <1>12

\* Setting a name moves it from the creator's hands to one thread.
LEMMA SetNameStep ==
  ASSUME IInv, NEW t \in Threads, SetName(t), TypeOK'
  PROVE  IInv'
<1> USE DEF IInv, TypeOK
<1>1. step[t] = "composed" /\ issued' = issued /\ threadCouner' = threadCouner
  BY DEF SetName
<1>2. ~Pending(t)'
  BY DEF SetName, Pending
<1>3. \A s \in Threads : s # t => (Pending(s)' <=> Pending(s)) /\ newName'[s] = newName[s]
  BY DEF SetName, Pending
<1> DEFINE named == {u \in target[t] : Accepted(t, u)}
<1>4. /\ \A u \in named : alive[u] = "running"
      /\ \A u \in Threads :
           /\ u \in named => tname'[u] = newName[t].name /\ own'[u] = newName[t].own
           /\ u \notin named => tname'[u] = tname[u] /\ own'[u] = own[u]
  BY DEF SetName, Designated, Accepted
<1>5. \A u, v \in named : u = v
  BY DEF OneTarget
<1>6. \A u \in named : own'[u] => Pending(t) /\ tname'[u] = newName[t].name
  BY <1>1, <1>4 DEF Pending
<1>7. \A a \in Threads : a \notin named => tname'[a] = tname[a] /\ own'[a] = own[a]
  BY <1>4
<1>8. named \subseteq Threads
  OBVIOUS
<1> HIDE DEF named
<1>9. OwnNamesDistinct'
  <2> SUFFICES ASSUME NEW a \in Threads, NEW b \in Threads, a # b, own'[a], own'[b]
               PROVE  tname'[a] # tname'[b]
    BY DEF OwnNamesDistinct
  <2>1. CASE a \notin named /\ b \notin named
    BY <1>7, <2>1 DEF OwnNamesDistinct
  <2>2. CASE a \in named
    <3>1. Pending(t) /\ tname'[a] = newName[t].name
      BY <1>6, <2>2
    <3>2. own[b] /\ tname'[b] = tname[b]
      BY <1>5, <1>7, <2>2
    <3> QED BY <3>1, <3>2 DEF PendingDistinct
  <2>3. CASE b \in named
    <3>1. Pending(t) /\ tname'[b] = newName[t].name
      BY <1>6, <2>3
    <3>2. own[a] /\ tname'[a] = tname[a]
      BY <1>5, <1>7, <2>3
    <3> QED BY <3>1, <3>2 DEF PendingDistinct
  <2> QED BY <2>1, <2>2, <2>3
<1>10. HeldIssued'
  BY <1>1, <1>2, <1>3, <1>6, <1>7, <1>8 DEF HeldIssued
<1>11. PendingDistinct'
  <2> SUFFICES ASSUME NEW s \in Threads, Pending(s)'
               PROVE  /\ \A a \in Threads : own'[a] => tname'[a] # newName'[s].name
                      /\ \A r \in Threads : Pending(r)' /\ r # s
                                              => newName'[r].name # newName'[s].name
    BY DEF PendingDistinct
  <2>1. s # t /\ Pending(s) /\ newName'[s] = newName[s]
    BY <1>2, <1>3
  <2>2. \A a \in Threads : own'[a] => tname'[a] # newName[s].name
    <3> SUFFICES ASSUME NEW a \in Threads, own'[a] PROVE tname'[a] # newName[s].name
      OBVIOUS
    <3>1. CASE a \in named
      <4>1. Pending(t) /\ tname'[a] = newName[t].name
        BY <1>6, <3>1
      <4> QED BY <2>1, <4>1 DEF PendingDistinct
    <3>2. CASE a \notin named
      <4>1. own[a] /\ tname'[a] = tname[a]
        BY <1>7, <3>2
      <4> QED BY <2>1, <4>1 DEF PendingDistinct
    <3> QED BY <3>1, <3>2
  <2>3. \A r \in Threads : Pending(r)' /\ r # s => newName'[r].name # newName[s].name
    BY <1>2, <1>3, <2>1 DEF PendingDistinct
  <2> QED BY <2>1, <2>2, <2>3
<1>12. CounterAhead'
  BY <1>1, <1>6, <1>7, <1>8 DEF CounterAhead, PendingUnextended
<1>13. PendingUnextended'
  BY <1>1, <1>2, <1>3 DEF PendingUnextended
<1>14. PrefixIssued' /\ OneTarget'
  <2>1. alive' = alive /\ target' = [target EXCEPT ![t] = {}]
    BY DEF SetName
  <2> QED BY <1>1, <1>4, <1>7, <1>8, <2>1 DEF PrefixIssued, OneTarget
<1> QED BY <1>9, <1>10, <1>11, <1>12, <1>13, <1>14

\* The steps that leave names, counters and composed names of started threads
\* alone.
LEMMA OtherStep ==
  ASSUME IInv, TypeOK',
         \A a \in Threads : own[a] => tname'[a] = tname[a],
         \A s \in Threads : Pending(s)' <=> Pending(s),
         UNCHANGED <<own, issued, threadCouner, newName>>,
         OneTarget'
  PROVE  IInv'
<1> USE DEF IInv, TypeOK
<1>1. OwnNamesDistinct'
  BY DEF OwnNamesDistinct
<1>2. HeldIssued' /\ PendingDistinct'
  BY DEF HeldIssued, PendingDistinct
<1>3. CounterAhead' /\ PendingUnextended' /\ PrefixIssued'
  BY DEF CounterAhead, PendingUnextended, PrefixIssued
<1> QED BY <1>1, <1>2, <1>3

\* The invariant holds when setMainThreadName has run.
LEMMA InvInit == Init => IInv
<1> SUFFICES ASSUME Init PROVE IInv
  OBVIOUS
<1> USE DEF Init
<1>1. TypeOK
  BY EmptySeq DEF TypeOK, Names
<1>2. \A k \in Nat, n \in Names : Append(n, k) \notin issued
  BY AppendLonger
<1>3. OwnNamesDistinct /\ HeldIssued /\ PendingDistinct /\ OneTarget
  BY ThreadsAssumption DEF OwnNamesDistinct, HeldIssued, PendingDistinct, Pending, OneTarget
<1>4. CounterAhead /\ PendingUnextended /\ PrefixIssued
  BY <1>1, <1>2 DEF CounterAhead, PendingUnextended, PrefixIssued, TypeOK
<1> QED BY <1>1, <1>3, <1>4 DEF IInv

\* Every step of every thread preserves the invariant.
LEMMA InvStep == IInv /\ [Next]_vars => IInv'
<1> SUFFICES ASSUME IInv, [Next]_vars PROVE IInv'
  OBVIOUS
<1>0. TypeOK'
  BY TypeStep DEF IInv
<1>1. CASE UNCHANGED vars
  <2>1. OneTarget' /\ \A s \in Threads : Pending(s)' <=> Pending(s)
    BY <1>1 DEF vars, IInv, OneTarget, Pending
  <2> QED BY <1>0, <1>1, <2>1, OtherStep DEF vars
<1>2. CASE Next
  <2> PICK t \in Threads :
         \/ \E u \in Threads : Create(t, u)
         \/ \E stale \in SUBSET Threads : CreateFails(t, stale)
         \/ ComposeName(t)
         \/ SetName(t)
         \/ SetNameOnJunk(t)
         \/ Exit(t)
    BY <1>2 DEF Next
  <2> USE DEF IInv, TypeOK, OneTarget, Pending
  <2>1. ASSUME NEW u \in Threads, Create(t, u) PROVE IInv'
    <3>1. UNCHANGED <<own, issued, threadCouner, newName>>
      BY <2>1 DEF Create
    <3>2. \A a \in Threads : own[a] => tname'[a] = tname[a]
      BY <2>1 DEF Create
    <3>3. \A s \in Threads : Pending(s)' <=> Pending(s)
      BY <2>1 DEF Create, Ready
    <3>4. OneTarget'
      BY <2>1 DEF Create
    <3> QED BY <1>0, <3>1, <3>2, <3>3, <3>4, OtherStep
  <2>2. ASSUME NEW stale \in SUBSET Threads, CreateFails(t, stale) PROVE IInv'
    <3>1. UNCHANGED <<own, issued, threadCouner, newName, tname>>
      BY <2>2 DEF CreateFails
    <3>2. \A s \in Threads : Pending(s)' <=> Pending(s)
      BY <2>2 DEF CreateFails, Ready
    <3>3. OneTarget'
      BY <2>2 DEF CreateFails
    <3> QED BY <1>0, <3>1, <3>2, <3>3, OtherStep
  <2>3. CASE ComposeName(t)
    BY <1>0, <2>3, ComposeStep
  <2>4. CASE SetName(t)
    BY <1>0, <2>4, SetNameStep
  <2>5. CASE SetNameOnJunk(t)
    <3>1. UNCHANGED <<own, issued, threadCouner, newName, tname, step, target, alive>>
      BY <2>5 DEF SetNameOnJunk
    <3> QED BY <1>0, <3>1, OtherStep
  <2>6. CASE Exit(t)
    <3>1. UNCHANGED <<own, issued, threadCouner, newName, tname, step, target>>
      BY <2>6 DEF Exit
    <3>2. OneTarget'
      BY <2>6 DEF Exit, Ready
    <3> QED BY <1>0, <3>1, <3>2, OtherStep
  <2> QED BY <2>1, <2>2, <2>3, <2>4, <2>5, <2>6
<1> QED BY <1>1, <1>2

\* Every reachable state of the library satisfies the inductive invariant.
THEOREM Invariance == Spec => []IInv
<1>1. Init => IInv
  BY InvInit
<1>2. IInv /\ [Next]_vars => IInv'
  BY InvStep
<1> QED BY <1>1, <1>2, PTL DEF Spec

\* Names, counters and targets stay well formed through every step of the
\* replaced pthread_create, also when the real one fails.
THEOREM TypeCorrect == Spec => []TypeOK
<1>1. IInv => TypeOK
  BY DEF IInv
<1> QED BY <1>1, Invariance, PTL

\* Threads that got a name of their own from the replaced pthread_create never
\* share it, for any number of threads, any interleaving, any set of threads
\* that run ahead of their creator and any set of refused names.
THEOREM DistinctNames == Spec => []OwnNamesDistinct
<1>1. IInv => OwnNamesDistinct
  BY DEF IInv
<1> QED BY <1>1, Invariance, PTL

(***************************************************************************)
(* Programs whose pthread_create never fails: the handle a creator passes  *)
(* to pthread_setname_np is that of the thread it has just made.           *)
(***************************************************************************)

\* A creator names a thread nobody else is about to name, which its own
\* pthread_create has not returned for.
TargetsFresh ==
  /\ \A u \in fresh : alive[u] # "unborn"
  /\ \A t \in Threads : target[t] \subseteq fresh
  /\ \A s, t \in Threads : s # t => target[s] \cap target[t] = {}

GivenInv == TypeOK /\ TargetsFresh

\* Every thread waits for its creator's pthread_create, and every pthread_create
\* has a thread to name.
CreatorsStarted ==
  /\ \A u \in fresh : alive[u] = "running"
  /\ \A t \in Threads : step[t] # "free" => t \notin fresh /\ alive[t] # "unborn"

\* No name that was made is too long for Linux.
NamesFit == \A n \in issued : NameLen(n) <= MaxLen

\* As long as that is so, every thread whose pthread_create has returned has a
\* name made for it, and is about to give out such names.
NamesOwn ==
  NamesFit =>
    /\ \A t \in Threads : alive[t] # "unborn" /\ t \notin fresh => own[t]
    /\ \A t \in Threads : step[t] = "composed" => newName[t].own

PoolInv == IInv /\ TargetsFresh /\ CreatorsStarted /\ NamesOwn

\* A step that names a thread names the one its own pthread_create made.
LEMMA GivenStep ==
  ASSUME MayFail = FALSE, GivenInv, [Next]_vars
  PROVE  /\ GivenInv'
         /\ \A u \in Threads : alive[u] # "unborn" /\ u \notin fresh
                                 => tname'[u] = tname[u] /\ u \notin fresh' /\ alive'[u] # "unborn"
<1> DEFINE Kept == \A u \in Threads : alive[u] # "unborn" /\ u \notin fresh
                     => tname'[u] = tname[u] /\ u \notin fresh' /\ alive'[u] # "unborn"
<1> USE DEF GivenInv
<1>1. TypeOK'
  BY TypeStep
<1>2. CASE UNCHANGED vars
  BY <1>1, <1>2 DEF vars, TargetsFresh
<1>3. CASE Next
  <2> PICK t \in Threads :
         \/ \E u \in Threads : Create(t, u)
         \/ \E stale \in SUBSET Threads : CreateFails(t, stale)
         \/ ComposeName(t)
         \/ SetName(t)
         \/ SetNameOnJunk(t)
         \/ Exit(t)
    BY <1>3 DEF Next
  <2> USE DEF TypeOK, TargetsFresh
  <2>1. ASSUME NEW u \in Threads, Create(t, u) PROVE TargetsFresh' /\ Kept
    <3>1. /\ alive[u] = "unborn" /\ u \notin fresh
          /\ alive' = [alive EXCEPT ![u] = "running"]
          /\ tname' = [tname EXCEPT ![u] = tname[t]]
          /\ target' = [target EXCEPT ![t] = {u}]
          /\ fresh' = fresh \cup {u}
      BY <2>1 DEF Create
    <3>2. Kept
      BY <3>1
    <3>3. (\A v \in fresh : alive[v] # "unborn")'
      BY <3>1
    <3>4. (\A s \in Threads : target[s] \subseteq fresh)'
      BY <3>1
    <3>5. \A s \in Threads : u \notin target[s]
      BY <3>1
    <3>6. (\A r, s \in Threads : r # s => target[r] \cap target[s] = {})'
      BY <3>1, <3>5
    <3> QED BY <3>2, <3>3, <3>4, <3>6
  <2>2. ASSUME NEW stale \in SUBSET Threads, CreateFails(t, stale) PROVE FALSE
    BY <2>2 DEF CreateFails
  <2>3. CASE ComposeName(t)
    BY <1>1, <2>3 DEF ComposeName
  <2>4. CASE SetName(t)
    <3>1. /\ alive' = alive
          /\ fresh' = fresh \ target[t]
          /\ target' = [target EXCEPT ![t] = {}]
          /\ \A u \in Threads \ target[t] : tname'[u] = tname[u]
      BY <2>4 DEF SetName, Designated
    <3>2. Kept
      BY <3>1
    <3>3. TargetsFresh'
      BY <3>1
    <3> QED BY <1>1, <3>2, <3>3
  <2>5. CASE SetNameOnJunk(t)
    BY <1>1, <2>5 DEF SetNameOnJunk
  <2>6. CASE Exit(t)
    <3>1. UNCHANGED <<tname, fresh, target>> /\ alive' = [alive EXCEPT ![t] = "ended"]
      BY <2>6 DEF Exit
    <3> QED BY <1>1, <3>1
  <2> QED BY <1>1, <2>1, <2>2, <2>3, <2>4, <2>5, <2>6
<1> QED BY <1>2, <1>3

\* No thread is waiting to be named when the library is loaded.
LEMMA GivenInit == Init => GivenInv
<1>1. Init => TypeOK
  BY InvInit DEF IInv
<1>2. Init => TargetsFresh
  BY DEF Init, TargetsFresh
<1> QED BY <1>1, <1>2 DEF GivenInv

\* If pthread_create does not fail, the name of a thread never changes once its
\* creator's pthread_create has returned.
THEOREM NameNeverMoves ==
  ASSUME MayFail = FALSE
  PROVE  Spec => NameGivenOnce
<1>1. Init => GivenInv
  BY GivenInit
<1>2. GivenInv /\ [Next]_vars => GivenInv'
  BY GivenStep
<1>3. GivenInv /\ [Next]_vars =>
        [\A u \in Threads : alive[u] # "unborn" /\ u \notin fresh => tname'[u] = tname[u]]_vars
  BY GivenStep
<1> QED BY <1>1, <1>2, <1>3, PTL DEF Spec, NameGivenOnce

\* When no thread runs ahead of its creator and every thread may name others, a
\* thread has a name of its own before its creator goes on.
LEMMA PoolStep ==
  ASSUME MayFail = FALSE, Eager = {}, Followed = Threads, PoolInv, [Next]_vars
  PROVE  PoolInv'
<1> USE DEF PoolInv
<1>1. IInv' /\ TypeOK
  BY InvStep DEF IInv
<1>2. TargetsFresh'
  BY <1>1, GivenStep DEF GivenInv
<1>3. issued \subseteq issued'
  BY DEF Next, vars, Create, CreateFails, ComposeName, SetName, SetNameOnJunk, Exit
<1>4. NamesFit' => NamesFit
  BY <1>3 DEF NamesFit
<1> SUFFICES CreatorsStarted' /\ NamesOwn'
  BY <1>1, <1>2
<1>5. CASE UNCHANGED vars
  BY <1>5, <1>4 DEF vars, CreatorsStarted, NamesOwn
<1>6. CASE Next
  <2> PICK t \in Threads :
         \/ \E u \in Threads : Create(t, u)
         \/ \E stale \in SUBSET Threads : CreateFails(t, stale)
         \/ ComposeName(t)
         \/ SetName(t)
         \/ SetNameOnJunk(t)
         \/ Exit(t)
    BY <1>6 DEF Next
  <2> USE <1>1 DEF TypeOK
  <2>1. ASSUME NEW u \in Threads, Create(t, u) PROVE CreatorsStarted' /\ NamesOwn'
    <3>1. /\ alive[u] = "unborn" /\ alive[t] = "running" /\ t \notin fresh
          /\ alive' = [alive EXCEPT ![u] = "running"]
          /\ step' = [step EXCEPT ![t] = "created"]
          /\ fresh' = fresh \cup {u}
          /\ UNCHANGED <<own, newName>>
      BY <2>1 DEF Create, Ready
    <3>2. CreatorsStarted'
      BY <3>1 DEF CreatorsStarted
    <3>3. NamesOwn'
      BY <3>1, <1>4 DEF NamesOwn
    <3> QED BY <3>2, <3>3
  <2>2. ASSUME NEW stale \in SUBSET Threads, CreateFails(t, stale) PROVE FALSE
    BY <2>2 DEF CreateFails
  <2>3. CASE ComposeName(t)
    <3>1. /\ UNCHANGED <<alive, fresh, own>> /\ step[t] = "created"
          /\ step' = [step EXCEPT ![t] = "composed"]
          /\ newName'[t].own = own[t]
          /\ \A s \in Threads : s # t => newName'[s] = newName[s]
      BY <2>3 DEF ComposeName
    <3>2. CreatorsStarted'
      BY <3>1 DEF CreatorsStarted
    <3>3. t \notin fresh /\ alive[t] # "unborn"
      BY <3>1 DEF CreatorsStarted
    <3>4. NamesOwn'
      BY <3>1, <3>3, <1>4 DEF NamesOwn
    <3> QED BY <3>2, <3>4
  <2>4. CASE SetName(t)
    <3>1. /\ step[t] = "composed" /\ UNCHANGED <<alive, issued>>
          /\ fresh' = fresh \ target[t]
          /\ step' = [step EXCEPT ![t] = "free"]
          /\ \A s \in Threads : s # t => newName'[s] = newName[s]
          /\ \A u \in Threads : own'[u] = IF u \in target[t] /\ Accepted(t, u)
                                            THEN newName[t].own ELSE own[u]
      BY <2>4 DEF SetName, Designated
    <3>2. CreatorsStarted'
      BY <3>1 DEF CreatorsStarted
    <3>3. ASSUME NamesFit, NEW u \in target[t] PROVE own'[u]
      <4>1. newName[t].own
        BY <3>1, <3>3 DEF NamesOwn
      <4>2. newName[t].name \in issued
        BY <3>1, <4>1 DEF IInv, HeldIssued, Pending
      <4>3. alive[u] = "running" /\ u \in Threads
        BY <3>3 DEF TargetsFresh, CreatorsStarted
      <4>4. Accepted(t, u)
        BY <3>3, <4>2, <4>3 DEF Accepted, NamesFit
      <4> QED BY <3>1, <3>3, <4>1, <4>3, <4>4
    <3>4. ASSUME NamesFit, NEW u \in Threads, own[u] PROVE own'[u]
      BY <3>1, <3>4 DEF NamesOwn
    <3>5. NamesOwn'
      BY <3>1, <3>3, <3>4, <1>4 DEF NamesOwn
    <3> QED BY <3>2, <3>5
  <2>5. CASE SetNameOnJunk(t)
    BY <2>5, <1>4 DEF SetNameOnJunk, CreatorsStarted, NamesOwn
  <2>6. CASE Exit(t)
    <3>1. /\ UNCHANGED <<fresh, step, own, newName>> /\ alive' = [alive EXCEPT ![t] = "ended"]
          /\ t \notin fresh /\ alive[t] = "running"
      BY <2>6 DEF Exit, Ready
    <3> QED BY <3>1, <1>4 DEF CreatorsStarted, NamesOwn
  <2> QED BY <2>1, <2>2, <2>3, <2>4, <2>5, <2>6
<1> QED BY <1>5, <1>6

\* In a program whose threads wait for work, whose pthread_create does not fail
\* and whose threads may all name others, the names are unique as long as none
\* that was made is longer than Linux takes.
THEOREM NamesUnique ==
  ASSUME MayFail = FALSE, Eager = {}, Followed = Threads
  PROVE  Spec => [](NamesFit => UniqueNames)
<1>1. Init => PoolInv
  <2> SUFFICES ASSUME Init PROVE TargetsFresh /\ CreatorsStarted /\ NamesOwn
    BY InvInit DEF PoolInv
  <2>1. TargetsFresh
    BY GivenInit DEF GivenInv
  <2> QED BY <2>1 DEF Init, CreatorsStarted, NamesOwn
<1>2. PoolInv /\ [Next]_vars => PoolInv'
  BY PoolStep
<1>3. PoolInv => (NamesFit => UniqueNames)
  BY DEF PoolInv, NamesOwn, UniqueNames, IInv, OwnNamesDistinct
<1> QED BY <1>1, <1>2, <1>3, PTL DEF Spec

(***************************************************************************)
(* Which names fit.                                                        *)
(***************************************************************************)

\* Every counter in a name was one that a thread had left.
Below(n) == \A k \in DOMAIN n : n[k] < MaxCounter

CountersInv ==
  /\ TypeOK
  /\ \A n \in issued : Below(n)
  /\ \A t \in Threads : Below(tname[t]) /\ Below(newName[t].name)
  /\ \A t \in Threads : step[t] = "created" => threadCouner[t] < MaxCounter

\* A thread appends its counter to its name after it has looked whether there is
\* one left.
LEMMA CountersStep ==
  ASSUME CountersInv, TypeOK', [Next]_vars
  PROVE  CountersInv'
<1> USE DEF CountersInv, TypeOK
<1>1. CASE UNCHANGED vars
  BY <1>1 DEF vars
<1>2. ASSUME NEW t \in Threads, NEW u \in Threads, Create(t, u) PROVE CountersInv'
  BY <1>2 DEF Create, Ready, Below
<1>3. ASSUME NEW t \in Threads, NEW stale \in SUBSET Threads, CreateFails(t, stale)
      PROVE  CountersInv'
  BY <1>3 DEF CreateFails, Ready, Below
<1>4. ASSUME NEW t \in Threads, ComposeName(t) PROVE CountersInv'
  <2>1. PICK n : n = Append(tname[t], threadCouner[t])
    OBVIOUS
  <2>2. Below(n)
    <3>1. PICK m \in Seq(Nat) : m = tname[t]
      BY DEF Names
    <3>2. PICK c \in Nat : c = threadCouner[t]
      OBVIOUS
    <3>3. n = Append(m, c) /\ c < MaxCounter /\ Below(m)
      BY <1>4, <2>1, <3>1, <3>2 DEF ComposeName
    <3>4. DOMAIN n = 1 .. Len(m) + 1 /\ n[Len(m) + 1] = c /\ \A k \in 1 .. Len(m) : n[k] = m[k]
      BY <3>3
    <3>5. \A k \in 1 .. Len(m) + 1 : k = Len(m) + 1 \/ k \in DOMAIN m
      OBVIOUS
    <3> QED BY <3>3, <3>4, <3>5 DEF Below
  <2>3. /\ newName' = [newName EXCEPT ![t] = [name |-> n, own |-> own[t]]]
        /\ issued' \subseteq issued \cup {n}
        /\ step' = [step EXCEPT ![t] = "composed"]
        /\ threadCouner' = [threadCouner EXCEPT ![t] = Increment(@)]
        /\ UNCHANGED tname
    BY <1>4, <2>1 DEF ComposeName
  <2>4. \A u \in Threads : newName'[u].name = IF u = t THEN n ELSE newName[u].name
    BY <2>3
  <2>5. \A u \in Threads : step'[u] = "created" => step[u] = "created" /\ threadCouner'[u] = threadCouner[u]
    BY <2>3
  <2> QED BY <2>2, <2>3, <2>4, <2>5
<1>5. ASSUME NEW t \in Threads, SetName(t) PROVE CountersInv'
  <2>1. \A u \in Threads : tname'[u] \in {tname[u], newName[t].name}
    BY <1>5 DEF SetName
  <2>2. \A u \in Threads : newName'[u].name \in {newName[u].name, <<>>}
    BY <1>5 DEF SetName
  <2>3. Below(<<>>)
    BY DEF Below
  <2>4. \A u \in Threads : step'[u] = "created" => step[u] = "created"
    BY <1>5 DEF SetName
  <2> QED BY <1>5, <2>1, <2>2, <2>3, <2>4 DEF SetName
<1>6. ASSUME NEW t \in Threads, SetNameOnJunk(t) PROVE CountersInv'
  BY <1>6 DEF SetNameOnJunk
<1>7. ASSUME NEW t \in Threads, Exit(t) PROVE CountersInv'
  BY <1>7 DEF Exit
<1> QED BY <1>1, <1>2, <1>3, <1>4, <1>5, <1>6, <1>7 DEF Next

\* As deep as the names go.
Generations(d) == \A n \in issued : Len(n) <= d

\* Counters of one digit make a name of four characters, and two for every
\* generation.
LEMMA ShortNames ==
  ASSUME CountersInv, MaxCounter <= Radix, NEW d \in Nat, 4 + 2 * d <= MaxLen, Generations(d)
  PROVE  NamesFit
<1> SUFFICES ASSUME NEW n \in issued PROVE NameLen(n) <= MaxLen
  BY DEF NamesFit
<1>1. n \in Seq(Nat) /\ Len(n) <= d /\ Below(n)
  BY DEF CountersInv, TypeOK, Names, Generations
<1>2. {k \in DOMAIN n : n[k] >= Radix} = {}
  <2>1. \A k \in DOMAIN n : n[k] \in Nat
    BY <1>1
  <2> QED BY <1>1, <2>1, NumbersAssumption DEF NumbersAssumption, Below
<1>3. Cardinality({k \in DOMAIN n : n[k] >= Radix}) = 0
  BY <1>2, FS_EmptySet
<1>4. NameLen(n) = 4 + 2 * Len(n)
  BY <1>1, <1>3 DEF NameLen
<1> QED BY <1>1, <1>4, NumbersAssumption DEF NumbersAssumption

\* A program in which no thread makes more others than there are digits, and
\* whose names go no deeper than Linux has room for (with 15 characters, five
\* generations of at most ten), has unique names: pthread_setname_np takes them
\* all.
THEOREM ShallowNamesUnique ==
  ASSUME MayFail = FALSE, Eager = {}, Followed = Threads, MaxCounter <= Radix,
         NEW d \in Nat, 4 + 2 * d <= MaxLen
  PROVE  Spec => [](Generations(d) => UniqueNames)
<1>1. Init => CountersInv
  <2> SUFFICES ASSUME Init PROVE CountersInv
    OBVIOUS
  <2>1. TypeOK
    BY InvInit DEF IInv
  <2> QED BY <2>1 DEF Init, CountersInv, Below
<1>2. CountersInv /\ TypeOK' /\ [Next]_vars => CountersInv'
  BY CountersStep
<1>3. CountersInv => (Generations(d) => NamesFit)
  BY ShortNames
<1>4. Spec => [](NamesFit => UniqueNames)
  BY NamesUnique
<1>5. Spec => []TypeOK
  BY TypeCorrect
<1> QED BY <1>1, <1>2, <1>3, <1>4, <1>5, PTL DEF Spec

(***************************************************************************)
(* Files.                                                                  *)
(***************************************************************************)

\* The files of the threads that had names of their own ...
FilesIssued ==
  \A a \in ownFile :
    /\ a \in Threads
    /\ Recording(a)
    /\ GRecordHandler[a] \in issued

\* ... have names that no other thread has or is about to get.
FilesHeld ==
  \A a \in ownFile :
    /\ \A b \in Threads : b # a /\ own[b] => tname[b] # GRecordHandler[a]
    /\ \A t \in Threads : Pending(t) => newName[t].name # GRecordHandler[a]

FilesInv ==
  /\ GRecordHandler \in [Threads -> Names \cup {NoFile}]
  /\ IInv
  /\ FilesIssued
  /\ FilesHeld
  /\ OwnFilesDistinct

\* The first begin callback of thread t, as the naming library sees it ...
OpensFile(t) ==
  /\ Ready(t)
  /\ GRecordHandler[t] = NoFile
  /\ GRecordHandler' = [GRecordHandler EXCEPT ![t] = tname[t]]
  /\ ownFile' = IF tname[t] # NoFile /\ own[t] THEN ownFile \cup {t} ELSE ownFile
  /\ UNCHANGED vars

\* ... and every other step.
NoFileOpened == UNCHANGED <<GRecordHandler, ownFile>> /\ [Next]_vars

\* A step of the session opens the file of one thread that is not stopped in
\* pthread_create, or none.
LEMMA SessionStep ==
  ASSUME GRecordHandler \in [Threads -> Names \cup {NoFile}], [SessionNext]_sessionVars
  PROVE  NoFileOpened \/ \E t \in Threads : OpensFile(t)
<1>1. ASSUME NEW t \in Threads, NamesStep(t) PROVE NoFileOpened
  BY <1>1 DEF NamesStep, NoFileOpened, Next
<1>2. ASSUME NEW t \in Threads, RecordStep(t) PROVE NoFileOpened \/ OpensFile(t)
  <2>1. UNCHANGED vars
    BY <1>2 DEF RecordStep
  <2>2. ownFile' = IF GRecordHandler'[t] # GRecordHandler[t] /\ own[t]
                   THEN ownFile \cup {t} ELSE ownFile
    BY <1>2 DEF RecordStep
  <2>3. ASSUME UNCHANGED GRecordHandler PROVE NoFileOpened
    BY <2>1, <2>2, <2>3 DEF NoFileOpened
  <2>4. ASSUME NEW c \in Program, Ready(t), R!BeginCallback(t, c, TraceFile(t), t \in Followed)
        PROVE  NoFileOpened \/ OpensFile(t)
    <3>1. CASE GRecordHandler[t] # NoFile
      BY <2>3, <2>4, <3>1 DEF R!BeginCallback
    <3>2. CASE GRecordHandler[t] = NoFile
      <4>1. GRecordHandler' = [GRecordHandler EXCEPT ![t] = tname[t]]
        BY <2>4, <3>2 DEF R!BeginCallback, TraceFile
      <4>2. GRecordHandler'[t] = tname[t]
        BY <4>1
      <4> QED BY <2>1, <2>2, <2>4, <3>2, <4>1, <4>2 DEF OpensFile
    <3> QED BY <3>1, <3>2
  <2>5. CASE R!Progress(t, t \in Followed)
    <3>1. UNCHANGED GRecordHandler
      BY <2>5 DEF R!Progress, R!EndCallback, R!Lock, R!Recheck, R!Collect, R!DumpBinary, R!DumpDone,
         R!SaveMemory, R!SaveMemoryOfFailedCall, R!Serialize, R!FlushAndReturn
    <3> QED BY <2>3, <3>1
  <2>6. CASE R!Deinit(t)
    BY <2>3, <2>6 DEF R!Deinit
  <2> QED BY <1>2, <2>4, <2>5, <2>6 DEF RecordStep
<1>3. CASE R!Kill /\ UNCHANGED <<vars, ownFile>>
  BY <1>3 DEF R!Kill, NoFileOpened
<1>4. CASE UNCHANGED sessionVars
  BY <1>4 DEF sessionVars, R!vars, NoFileOpened
<1> QED BY <1>1, <1>2, <1>3, <1>4 DEF SessionNext

\* The naming library behaves in a session as on its own.
LEMMA NamesInSession == [SessionNext]_sessionVars => [Next]_vars
<1> SUFFICES ASSUME [SessionNext]_sessionVars PROVE [Next]_vars OBVIOUS
<1>1. ASSUME NEW t \in Threads, NamesStep(t) PROVE Next
  BY <1>1 DEF NamesStep, Next
<1>2. ASSUME NEW t \in Threads, RecordStep(t) PROVE UNCHANGED vars
  BY <1>2 DEF RecordStep
<1> QED BY <1>1, <1>2 DEF SessionNext, sessionVars

\* What ThreadNames promises, a session keeps.
THEOREM SessionNames == SessionSpec => Spec
<1>1. SessionInit => Init
  BY DEF SessionInit
<1> QED BY <1>1, NamesInSession, PTL DEF SessionSpec, Spec

\* Names of their own are never shared in a session, whatever the recorder does
\* between the steps of pthread_create.
THEOREM SessionNamesDistinct == SessionSpec => []OwnNamesDistinct
<1> QED BY SessionNames, DistinctNames, PTL

\* In a session of a program whose pthread_create does not fail, a thread keeps
\* the name it has when its creator goes on.
THEOREM SessionNameGivenOnce ==
  ASSUME MayFail = FALSE
  PROVE  SessionSpec => NameGivenOnce
<1>1. Spec => NameGivenOnce
  BY NameNeverMoves
<1> QED BY <1>1, SessionNames, PTL

\* The names of a session's threads are unique as long as none is too long.
THEOREM SessionNamesUnique ==
  ASSUME MayFail = FALSE, Eager = {}, Followed = Threads
  PROVE  SessionSpec => [](NamesFit => UniqueNames)
<1>1. Spec => [](NamesFit => UniqueNames)
  BY NamesUnique
<1> QED BY <1>1, SessionNames, PTL

\* And they fit in a session in which no thread makes more others than there are
\* digits, as deep as there is room for.
THEOREM SessionShallowNamesUnique ==
  ASSUME MayFail = FALSE, Eager = {}, Followed = Threads, MaxCounter <= Radix,
         NEW d \in Nat, 4 + 2 * d <= MaxLen
  PROVE  SessionSpec => [](Generations(d) => UniqueNames)
<1>1. Spec => [](Generations(d) => UniqueNames)
  BY ShallowNamesUnique
<1> QED BY <1>1, SessionNames, PTL

\* What a step of the naming library leaves of the names in use.
LEMMA NamesLeft ==
  ASSUME IInv, [Next]_vars
  PROVE  /\ issued \subseteq issued'
         /\ \A b \in Threads : own'[b] => \/ own[b] /\ tname'[b] = tname[b]
                                          \/ \E t \in Threads : Pending(t) /\ tname'[b] = newName[t].name
         /\ \A t \in Threads : Pending(t)' => \/ Pending(t) /\ newName'[t].name = newName[t].name
                                              \/ newName'[t].name \notin issued
<1> DEFINE Left ==
      /\ issued \subseteq issued'
      /\ \A b \in Threads : own'[b] => \/ own[b] /\ tname'[b] = tname[b]
                                       \/ \E t \in Threads : Pending(t) /\ tname'[b] = newName[t].name
      /\ \A t \in Threads : Pending(t)' => \/ Pending(t) /\ newName'[t].name = newName[t].name
                                           \/ newName'[t].name \notin issued
<1> USE DEF IInv, TypeOK
<1>1. CASE UNCHANGED vars
  BY <1>1 DEF vars, Pending
<1>2. ASSUME NEW t \in Threads, NEW u \in Threads, Create(t, u) PROVE Left
  <2>1. UNCHANGED <<own, issued, newName>> /\ tname' = [tname EXCEPT ![u] = tname[t]]
        /\ ~own[u] /\ \A s \in Threads : Pending(s)' => Pending(s)
    BY <1>2 DEF Create, Ready, Pending, OneTarget
  <2> QED BY <2>1
<1>3. ASSUME NEW t \in Threads, NEW stale \in SUBSET Threads, CreateFails(t, stale) PROVE Left
  <2>1. UNCHANGED <<own, issued, newName, tname>> /\ \A s \in Threads : Pending(s)' => Pending(s)
    BY <1>3 DEF CreateFails, Ready, Pending
  <2> QED BY <2>1
<1>4. ASSUME NEW t \in Threads, ComposeName(t) PROVE Left
  <2>1. /\ UNCHANGED <<own, tname>> /\ issued \subseteq issued'
        /\ \A s \in Threads : s # t => (Pending(s)' => Pending(s)) /\ newName'[s] = newName[s]
        /\ newName'[t].name = Append(tname[t], threadCouner[t])
        /\ Pending(t)' => own[t]
    BY <1>4 DEF ComposeName, Pending
  <2>2. own[t] => Append(tname[t], threadCouner[t]) \notin issued
    BY DEF CounterAhead
  <2> QED BY <2>1, <2>2
<1>5. ASSUME NEW t \in Threads, SetName(t) PROVE Left
  <2>1. /\ issued' = issued /\ step[t] = "composed"
        /\ \A s \in Threads : Pending(s)' => Pending(s) /\ newName'[s] = newName[s]
    BY <1>5 DEF SetName, Pending
  <2>2. \A u \in Threads : \/ tname'[u] = tname[u] /\ own'[u] = own[u]
                           \/ tname'[u] = newName[t].name /\ own'[u] = newName[t].own
    BY <1>5 DEF SetName
  <2>3. newName[t].own => Pending(t)
    BY <2>1 DEF Pending
  <2> QED BY <2>1, <2>2, <2>3
<1>6. ASSUME NEW t \in Threads, SetNameOnJunk(t) \/ Exit(t) PROVE Left
  BY <1>6 DEF SetNameOnJunk, Exit, Pending
<1> QED BY <1>1, <1>2, <1>3, <1>4, <1>5, <1>6 DEF Next

\* No step gives the name of an own file to another thread, or opens a file
\* under a name that is already that of one.
LEMMA FilesStep ==
  ASSUME FilesInv, [SessionNext]_sessionVars
  PROVE  FilesInv'
<1> USE DEF FilesInv
<1>1. IInv'
  BY NamesInSession, InvStep
<1>2. CASE NoFileOpened
  <2>1. UNCHANGED <<GRecordHandler, ownFile>> /\ [Next]_vars
    BY <1>2 DEF NoFileOpened
  <2>2. FilesIssued'
    BY <2>1, NamesLeft DEF FilesIssued, Recording
  <2>3. FilesHeld'
    <3> SUFFICES ASSUME NEW a \in ownFile
                 PROVE  /\ \A b \in Threads : b # a /\ own'[b] => tname'[b] # GRecordHandler[a]
                        /\ \A t \in Threads : Pending(t)' => newName'[t].name # GRecordHandler[a]
      BY <2>1 DEF FilesHeld
    <3>1. ASSUME NEW b \in Threads, b # a, own'[b] PROVE tname'[b] # GRecordHandler[a]
      BY <2>1, <3>1, NamesLeft DEF FilesHeld
    <3>2. ASSUME NEW t \in Threads, Pending(t)' PROVE newName'[t].name # GRecordHandler[a]
      BY <2>1, <3>2, NamesLeft DEF FilesHeld, FilesIssued
    <3> QED BY <3>1, <3>2
  <2>4. OwnFilesDistinct'
    BY <2>1 DEF OwnFilesDistinct
  <2> QED BY <1>1, <2>1, <2>2, <2>3, <2>4
<1>3. ASSUME NEW t \in Threads, OpensFile(t) PROVE FilesInv'
  <2>1. /\ GRecordHandler[t] = NoFile
        /\ GRecordHandler' = [GRecordHandler EXCEPT ![t] = tname[t]]
        /\ UNCHANGED vars
    BY <1>3 DEF OpensFile
  <2>2. UNCHANGED <<tname, own, step, newName, issued>>
    BY <2>1 DEF vars
  <2>3. GRecordHandler' \in [Threads -> Names \cup {NoFile}]
    BY <2>1 DEF IInv, TypeOK
  <2>4. t \notin ownFile
    BY <2>1 DEF FilesIssued, Recording
  <2>5. /\ \A a \in ownFile : a \in Threads /\ a # t /\ GRecordHandler'[a] = GRecordHandler[a]
        /\ GRecordHandler'[t] = tname[t]
    BY <2>1, <2>4 DEF FilesIssued
  <2>6. \A s \in Threads : Pending(s)' = Pending(s)
    BY <2>2 DEF Pending
  <2>7. \A a \in ownFile' : a \in ownFile \/ (a = t /\ own[t] /\ tname[t] # NoFile)
    BY <1>3 DEF OpensFile
  <2>8. FilesIssued'
    BY <2>2, <2>5, <2>7 DEF FilesIssued, Recording, IInv, HeldIssued
  <2>9. FilesHeld'
    <3> SUFFICES ASSUME NEW a \in ownFile'
                 PROVE  /\ \A b \in Threads : b # a /\ own[b] => tname[b] # GRecordHandler'[a]
                        /\ \A s \in Threads : Pending(s) => newName[s].name # GRecordHandler'[a]
      BY <2>2, <2>6 DEF FilesHeld
    <3>1. CASE a \in ownFile
      BY <2>5, <3>1 DEF FilesHeld
    <3>2. CASE a = t /\ own[t]
      BY <2>5, <3>2 DEF IInv, OwnNamesDistinct, PendingDistinct
    <3> QED BY <2>7, <3>1, <3>2
  <2>10. OwnFilesDistinct'
    <3> SUFFICES ASSUME NEW a \in ownFile', NEW b \in ownFile', a # b
                 PROVE  GRecordHandler'[a] # GRecordHandler'[b]
      BY DEF OwnFilesDistinct
    <3>1. CASE a \in ownFile /\ b \in ownFile
      BY <2>5, <3>1 DEF OwnFilesDistinct
    <3>2. CASE a = t /\ own[t] /\ b \in ownFile
      BY <2>5, <3>2 DEF FilesHeld
    <3>3. CASE b = t /\ own[t] /\ a \in ownFile
      BY <2>5, <3>3 DEF FilesHeld
    <3> QED BY <2>7, <3>1, <3>2, <3>3
  <2> QED BY <1>1, <2>3, <2>8, <2>9, <2>10
<1> QED BY <1>2, <1>3, SessionStep

\* Two threads that had names of their own at their first PI call never share
\* a .pi_trace file, for any number of threads, any interleaving, and whatever
\* creations and names fail.
THEOREM FilesDistinct == SessionSpec => []OwnFilesDistinct
<1>1. SessionInit => FilesInv
  <2> SUFFICES ASSUME SessionInit PROVE FilesInv OBVIOUS
  <2>1. GRecordHandler = [t \in Threads |-> NoFile] /\ ownFile = {}
    BY DEF SessionInit, R!Init
  <2>2. IInv
    BY InvInit DEF SessionInit
  <2> QED BY <2>1, <2>2 DEF FilesInv, FilesIssued, FilesHeld, OwnFilesDistinct
<1>2. FilesInv /\ [SessionNext]_sessionVars => FilesInv'
  BY FilesStep
<1>3. FilesInv => OwnFilesDistinct
  BY DEF FilesInv
<1> QED BY <1>1, <1>2, <1>3, PTL DEF SessionSpec
=============================================================================
