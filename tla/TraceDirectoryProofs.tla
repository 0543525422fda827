------------------------ MODULE TraceDirectoryProofs ------------------------
(***************************************************************************)
(* Proofs about TraceDirectory, for any number of commands, processes,     *)
(* files and changes, and any order in which a directory is listed.        *)
(*                                                                         *)
(* The invariant is in three parts: the trace directory with the commands  *)
(* that work on it, the archive, and the directory restored from it.       *)
(***************************************************************************)
EXTENDS TraceDirectory, SequenceTheorems, TLAPS

T == items["trace"]
C == items["copy"]
Paths == FilePaths \cup DevPaths \cup OtherPaths

Recording == {"config", "configclose", "run", "files", "filesclose"}
Archiving == {"archive", "entry"}
Mapped == {"fullopen", "fullclose"} \cup Archiving
Copied == {"mapopen", "mapclose"} \cup Mapped
Packing == {"copy", "copyopen", "copyclose"} \cup Copied
OnTrace == {"mkdir", "packdir", "read"} \cup Recording \cup Packing
Labels == {"idle", "launch", "unpack"} \cup OnTrace

IsFcn(f) == f = [x \in DOMAIN f |-> f[x]]

(***************************************************************************)
(* The commands on the trace directory                                     *)
(***************************************************************************)
Locals(r) ==
  /\ DOMAIN r = {"pc", "dir", "mode", "list", "map", "n", "out"}
  /\ r.pc \in Labels
  /\ r.dir \in Dirs
  /\ r.list \in Seq(Paths)
  /\ r.n \in Nat
  /\ r.pc \in OnTrace => r.dir = "trace"
  /\ r.pc = "unpack" => r.dir = "copy"
  /\ r.pc \in {"mkdir"} \cup Recording => r.mode # "full"
  /\ r.pc \in {"packdir", "read"} => r.n = 0 /\ DOMAIN r.map = {}

ProcType == IsFcn(proc) /\ DOMAIN proc = Procs /\ \A p \in Procs : Locals(proc[p])
DirsType == IsFcn(items) /\ DOMAIN items = Dirs /\ IsFcn(T) /\ IsFcn(C)
            /\ DOMAIN spoiled = Dirs /\ IsFcn(spoiled) /\ DOMAIN world = FilePaths

\* On a directory that is not there, nobody works yet.
Absent ==
  "trace" \notin there =>
    T = Empty /\ \A p \in Procs : proc[p].pc \in {"idle", "mkdir"} \/ proc[p].dir = "copy"

\* The files in it are what record and pack write.
Contents ==
  /\ Whole(T, Files) => T[Files].list \in Seq(Paths)
  /\ PackDir \in DOMAIN T => T[PackDir] = TRUE
  /\ "trace" \in there /\ ~spoiled["trace"] => Env \in DOMAIN T

\* One record at a time, and no pack has read the list before it ends.
OneRecorder ==
  /\ \A p \in Procs : proc[p].pc \in Recording => ~Whole(T, Files)
  /\ \A p \in Procs : proc[p].pc \in Packing => Whole(T, Files)
  /\ \A p, q \in Procs : proc[p].pc \in Recording /\ proc[q].pc \in Recording => p = q

\* A pack that has made the first copy, of which there is one.
Claims(r) == r.pc \in {"copyclose"} \cup Copied \/ (r.pc \in {"copy", "copyopen"} /\ r.n # 0)
OneClaim ==
  /\ \A p \in Procs : Claims(proc[p]) => Copy(0) \in DOMAIN T
  /\ \A p, q \in Procs : Claims(proc[p]) /\ Claims(proc[q]) => p = q

\* The program's regular files, as the list has them.
Wanted(dir, w) == {path \in Range(<<Exe>> \o dir[Files].list) \cap FilePaths : w[path] # "gone"}

\* What a pack has done: each file that is wanted has its copy or is still to
\* come.
Packed(p, r, dir, w) ==
  /\ \A m \in 0 .. r.n - 1 : Whole(dir, Copy(m)) /\ dir[Copy(m)].by = p
  /\ \A path \in DOMAIN r.map : r.map[path] \in 0 .. r.n - 1 /\ dir[Copy(r.map[path])].path = path
  /\ \A path \in Wanted(dir, w) : path \in DOMAIN r.map \/ path \in Range(r.list)
  /\ r.n = 0 => r.list # <<>> /\ Head(r.list) = Exe /\ r.pc \notin Copied
  /\ r.pc \in {"copyopen", "copyclose"} => r.list # <<>> /\ Head(r.list) \in FilePaths
  /\ r.pc \in Copied => r.list = <<>>
  /\ r.pc \in Mapped => FileMap \in DOMAIN dir /\ dir[FileMap] = [whole |-> TRUE, map |-> r.map, by |-> p]
AllPacked == \A p \in Procs : proc[p].pc \in Packing => Packed(p, proc[p], T, world)

\* What a directory with mode "full" has.
Good(dir, w) ==
  IsFull(dir) =>
    /\ Launchable(dir)
    /\ \A path \in Wanted(dir, w) :
         path \in DOMAIN dir[FileMap].map /\ dir[Copy(dir[FileMap].map[path])].path = path
    /\ \A path \in DOMAIN dir[FileMap].map : dir[Copy(dir[FileMap].map[path])].by = dir[FileMap].by

\* The mode is switched last.
FullLast ==
  ~spoiled["trace"] =>
    /\ Good(T, world)
    /\ IsFull(T) => /\ Whole(T, Files) /\ Copy(0) \in DOMAIN T
                    /\ \A p \in Procs : Claims(proc[p]) => proc[p].pc \in Archiving

\* A launch that has read "full" finds it for as long as it looks.
Launching ==
  \A p \in Procs : proc[p].pc = "launch" /\ proc[p].mode = "full" =>
    \/ proc[p].dir = "trace" /\ (spoiled["trace"] \/ IsFull(T))
    \/ proc[p].dir = "copy" /\ IsFull(C)

TraceInv == Absent /\ Contents /\ OneRecorder /\ OneClaim /\ AllPacked /\ FullLast

(***************************************************************************)
(* The archive and the directory restored from it                          *)
(***************************************************************************)
Item(a, k) == a.content[k][1]

ArchiveType(a) ==
  /\ DOMAIN a = {"there", "whole", "order", "content"}
  /\ a.content \in Seq(Range(a.content))
  /\ \A k, l \in DOMAIN a.content : Item(a, k) = Item(a, l) => k = l

\* What the archive has is what the directory has.
Stored(a, dir) ==
  \A k \in DOMAIN a.content : Item(a, k) \in DOMAIN dir /\ a.content[k][2] = dir[Item(a, k)]
Stores(a, dir) == {Item(a, k) : k \in DOMAIN a.content} = DOMAIN dir

ArchiveInv ==
  /\ ArchiveType(archive)
  /\ \A p \in Procs : proc[p].pc = "entry" => ~archive.whole /\ Stored(archive, T)
  /\ archive.whole =>
       /\ IsFcn(archived.items) /\ Stored(archive, archived.items) /\ Stores(archive, archived.items)
       /\ archived.spoiled \/ Good(archived.items, world)

\* The directory has what was read of the archive.
Unpacked(r, a, dir) ==
  /\ r.n \in 1 .. Len(a.content) + 1
  /\ DOMAIN dir = {Item(a, k) : k \in 1 .. r.n - 1}
  /\ \A k \in 1 .. r.n - 1 : dir[Item(a, k)] = a.content[k][2]

CopyInv ==
  /\ \A p \in Procs : proc[p].pc = "unpack" =>
       "copy" \in there /\ spoiled["copy"] /\ Unpacked(proc[p], archive, C)
  /\ \A p, q \in Procs : proc[p].pc = "unpack" /\ proc[q].pc = "unpack" => p = q
  /\ spoiled["copy"] \/ Good(C, world)
  /\ "copy" \notin there => C = Empty

IInv == ProcType /\ DirsType /\ TraceInv /\ Launching /\ ArchiveInv /\ CopyInv

(***************************************************************************)
(* Directories and local variables                                         *)
(***************************************************************************)

\* The items of a directory are told apart by their names.
LEMMA Names ==
  /\ Config # Files /\ Config # FileMap /\ Config # Env /\ Config # PackDir
  /\ Files # FileMap /\ Files # Env /\ Files # PackDir
  /\ FileMap # Env /\ FileMap # PackDir /\ Env # PackDir
  /\ \A m \in Nat : Copy(m) \notin {Config, Files, FileMap, Env, PackDir}
  /\ \A m, n \in Nat : Copy(m) = Copy(n) => m = n
BY DEF Config, Files, FileMap, Env, PackDir, Copy

\* An idle process.
LEMMA IdleFacts == Locals(Idle) /\ Idle.pc = "idle" /\ Idle.dir = "trace" /\ ~Claims(Idle)
                   /\ Idle.list = <<>> /\ DOMAIN Idle.map = {} /\ Idle.n = 0
<1>1. /\ DOMAIN Idle = {"pc", "dir", "mode", "list", "map", "n", "out"}
      /\ Idle.pc = "idle" /\ Idle.dir = "trace" /\ Idle.list = <<>> /\ Idle.map = <<>> /\ Idle.n = 0
  BY DEF Idle
<1>2. <<>> \in Seq(Paths) /\ DOMAIN <<>> = {}
  OBVIOUS
<1>3. Locals(Idle)
  BY <1>1, <1>2 DEF Locals, Labels, OnTrace, Recording, Packing, Copied, Mapped, Archiving, Dirs
<1>4. ~Claims(Idle)
  BY <1>1 DEF Claims, Copied, Mapped, Archiving
<1> QED BY <1>1, <1>2, <1>3, <1>4

\* A command ends.
LEMMA EndFacts ==
  ASSUME ProcType, NEW p \in Procs, End(p)
  PROVE  ProcType' /\ proc'[p] = Idle /\ \A q \in Procs \ {p} : proc'[q] = proc[q]
<1>1. proc'[p] = Idle /\ \A q \in Procs \ {p} : proc'[q] = proc[q]
  BY DEF End, ProcType
<1>2. IsFcn(proc') /\ DOMAIN proc' = Procs
  BY DEF End, ProcType, IsFcn
<1> QED BY <1>1, <1>2, IdleFacts DEF ProcType

\* A command goes on.
LEMMA GotoFacts ==
  ASSUME ProcType, NEW p \in Procs, NEW label, Goto(p, label)
  PROVE  /\ \A q \in Procs \ {p} : proc'[q] = proc[q]
         /\ IsFcn(proc') /\ DOMAIN proc' = Procs /\ DOMAIN proc'[p] = DOMAIN proc[p]
         /\ proc'[p].pc = label /\ proc'[p].dir = proc[p].dir /\ proc'[p].mode = proc[p].mode
         /\ proc'[p].list = proc[p].list /\ proc'[p].map = proc[p].map /\ proc'[p].n = proc[p].n
BY DEF Goto, ProcType, Locals, IsFcn

\* One process changes its local variables, and the trace directory stays.
LEMMA TraceKept ==
  ASSUME IInv, NEW p \in Procs, T' = T, world' = world, spoiled'["trace"] = spoiled["trace"],
         "trace" \in there' <=> "trace" \in there,
         \A q \in Procs \ {p} : proc'[q] = proc[q],
         "trace" \notin there => proc'[p].pc \in {"idle", "mkdir"} \/ proc'[p].dir = "copy",
         proc'[p].pc \in Recording => proc[p].pc \in Recording,
         proc'[p].pc \in Packing => Whole(T, Files) /\ Packed(p, proc'[p], T, world),
         Claims(proc'[p]) => Claims(proc[p]) /\ (proc[p].pc \in Archiving => proc'[p].pc \in Archiving)
  PROVE  TraceInv'
<1>1. Absent'
  BY DEF IInv, TraceInv, Absent
<1>2. Contents'
  BY DEF IInv, TraceInv, Contents
<1>3. OneRecorder'
  BY DEF IInv, TraceInv, OneRecorder
<1>4. OneClaim'
  BY DEF IInv, TraceInv, OneClaim
<1>5. AllPacked'
  BY DEF IInv, TraceInv, AllPacked
<1>6. FullLast'
  BY DEF IInv, TraceInv, FullLast
<1> QED BY <1>1, <1>2, <1>3, <1>4, <1>5, <1>6 DEF TraceInv

\* One process changes its local variables and nothing else.
LEMMA LocalStep ==
  ASSUME IInv, NEW p \in Procs, UNCHANGED <<world, there, items, spoiled, archive, archived>>,
         ProcType', \A q \in Procs \ {p} : proc'[q] = proc[q],
         "trace" \notin there => proc'[p].pc \in {"idle", "mkdir"} \/ proc'[p].dir = "copy",
         proc'[p].pc \in Recording => proc[p].pc \in Recording,
         proc'[p].pc \in Packing => Whole(T, Files) /\ Packed(p, proc'[p], T, world),
         Claims(proc'[p]) => Claims(proc[p]) /\ (proc[p].pc \in Archiving => proc'[p].pc \in Archiving),
         proc'[p].pc = "launch" /\ proc'[p].mode = "full" =>
           \/ proc'[p].dir = "trace" /\ (spoiled["trace"] \/ IsFull(T))
           \/ proc'[p].dir = "copy" /\ IsFull(C),
         proc'[p].pc \in {"entry", "unpack"} => proc'[p] = proc[p]
  PROVE  IInv'
<1>1. T' = T /\ C' = C
  BY DEF T, C
<1>2. DirsType'
  BY <1>1 DEF IInv, DirsType
<1>3. TraceInv'
  BY <1>1, TraceKept
<1>4. Launching'
  BY <1>1 DEF IInv, Launching
<1>5. ArchiveInv'
  BY <1>1 DEF IInv, ArchiveInv
<1>6. CopyInv'
  BY <1>1 DEF IInv, CopyInv
<1> QED BY <1>2, <1>3, <1>4, <1>5, <1>6 DEF IInv

\* A command ends and leaves the files as they are.
LEMMA EndStep ==
  ASSUME IInv, NEW p \in Procs, End(p), UNCHANGED <<world, there, items, spoiled, archive, archived>>
  PROVE  IInv'
<1>1. ProcType' /\ proc'[p] = Idle /\ \A q \in Procs \ {p} : proc'[q] = proc[q]
  BY EndFacts DEF IInv
<1>2. Idle.pc = "idle" /\ ~Claims(Idle)
  BY IdleFacts
<1> QED BY <1>1, <1>2, LocalStep DEF Recording, Packing, Copied, Mapped, Archiving

\* A command is refused.
LEMMA RefusedStep ==
  ASSUME IInv, UNCHANGED <<world, there, items, spoiled, archive, archived, proc>>
  PROVE  IInv'
<1>1. T' = T /\ C' = C
  BY DEF T, C
<1> USE <1>1 DEF IInv
<1>2. ProcType' /\ DirsType' /\ Launching'
  BY DEF ProcType, DirsType, Launching
<1>3. Absent' /\ Contents' /\ OneRecorder' /\ OneClaim'
  BY DEF TraceInv, Absent, Contents, OneRecorder, OneClaim
<1>4. AllPacked' /\ FullLast'
  BY DEF TraceInv, AllPacked, FullLast
<1>5. ArchiveInv'
  BY DEF ArchiveInv
<1>6. CopyInv'
  BY DEF CopyInv
<1> QED BY <1>2, <1>3, <1>4, <1>5, <1>6 DEF TraceInv

(***************************************************************************)
(* Steps that change local variables only                                  *)
(***************************************************************************)

\* A process takes other local variables.
LEMMA Replaced ==
  ASSUME ProcType, NEW p \in Procs, NEW r, Locals(r), proc' = [proc EXCEPT ![p] = r]
  PROVE  ProcType' /\ proc'[p] = r /\ \A q \in Procs \ {p} : proc'[q] = proc[q]
<1>1. proc'[p] = r /\ \A q \in Procs \ {p} : proc'[q] = proc[q]
  BY DEF ProcType
<1>2. IsFcn(proc') /\ DOMAIN proc' = Procs
  BY DEF ProcType, IsFcn
<1> QED BY <1>1, <1>2 DEF ProcType

\* The local variables of a command that starts.
LEMMA StartLocals ==
  ASSUME NEW label \in {"mkdir", "packdir", "launch"}, NEW r,
         DOMAIN r = DOMAIN Idle, r.list = Idle.list, r.map = Idle.map, r.n = Idle.n, r.dir \in Dirs, r.pc = label,
         label # "launch" => r.dir = "trace", label = "mkdir" => r.mode # "full"
  PROVE  Locals(r) /\ ~Claims(r) /\ r.pc \notin Recording \cup Packing \cup Archiving \cup {"entry", "unpack"}
BY IdleFacts DEF Locals, Claims, Labels, OnTrace, Recording, Packing, Copied, Mapped, Archiving

\* record starts without --override.
LEMMA RecordStartStep ==
  ASSUME IInv, NEW p \in Procs, NEW mode \in {"traceOnly", "default"}, RecordStart(p, FALSE, mode)
  PROVE  IInv'
<1>1. UNCHANGED <<world, there, items, spoiled, archive, archived>>
  BY DEF RecordStart
<1>2. CASE "trace" \in there
  BY <1>1, <1>2, RefusedStep DEF RecordStart
<1>3. CASE "trace" \notin there
  <2> DEFINE r == [Idle EXCEPT !.pc = "mkdir", !.mode = mode]
  <2>1. proc' = [proc EXCEPT ![p] = r]
    BY <1>3 DEF RecordStart
  <2>2. /\ DOMAIN r = DOMAIN Idle /\ r.list = Idle.list /\ r.map = Idle.map /\ r.n = Idle.n /\ r.dir = "trace"
        /\ r.pc = "mkdir" /\ r.mode = mode
    BY DEF Idle
  <2> HIDE DEF r
  <2>3. Locals(r) /\ ~Claims(r) /\ r.pc \notin Recording \cup Packing \cup Archiving \cup {"entry", "unpack"}
    BY <2>2, StartLocals DEF Dirs
  <2>4. ProcType' /\ proc'[p] = r /\ \A q \in Procs \ {p} : proc'[q] = proc[q]
    BY <2>1, <2>3, Replaced DEF IInv
  <2> QED BY <1>1, <2>2, <2>3, <2>4, LocalStep
<1> QED BY <1>2, <1>3

\* pack starts.
LEMMA PackStartStep ==
  ASSUME IInv, NEW p \in Procs, NEW out \in BOOLEAN, PackStart(p, out)
  PROVE  IInv'
<1>1. UNCHANGED <<world, there, items, spoiled, archive, archived>>
  BY DEF PackStart
<1>2. CASE proc' = proc
  BY <1>1, <1>2, RefusedStep
<1>3. CASE proc' # proc
  <2> DEFINE r == [Idle EXCEPT !.pc = "packdir", !.out = out]
  <2>1. proc' = [proc EXCEPT ![p] = r] /\ "trace" \in there
    BY <1>3 DEF PackStart
  <2>2. DOMAIN r = DOMAIN Idle /\ r.list = Idle.list /\ r.map = Idle.map /\ r.n = Idle.n /\ r.dir = "trace" /\ r.pc = "packdir"
    BY DEF Idle
  <2> HIDE DEF r
  <2>3. Locals(r) /\ ~Claims(r) /\ r.pc \notin Recording \cup Packing \cup Archiving \cup {"entry", "unpack"}
    BY <2>2, StartLocals DEF Dirs
  <2>4. ProcType' /\ proc'[p] = r /\ \A q \in Procs \ {p} : proc'[q] = proc[q]
    BY <2>1, <2>3, Replaced DEF IInv
  <2> QED BY <1>1, <2>1, <2>2, <2>3, <2>4, LocalStep
<1> QED BY <1>2, <1>3

\* replay or debug starts, on a directory with a configuration.
LEMMA LaunchStartStep ==
  ASSUME IInv, NEW p \in Procs, NEW d \in Dirs, NEW hasCLI \in BOOLEAN,
         ReplayStart(p, d, hasCLI) \/ DebugStart(p, d, hasCLI)
  PROVE  IInv'
<1>1. UNCHANGED <<world, there, items, spoiled, archive, archived>>
  BY DEF ReplayStart, DebugStart
<1>2. CASE proc' = proc
  BY <1>1, <1>2, RefusedStep
<1>3. CASE proc' # proc
  <2> DEFINE r == [Idle EXCEPT !.pc = "launch", !.dir = d, !.mode = items[d][Config].mode]
  <2>1. proc' = [proc EXCEPT ![p] = r] /\ Whole(items[d], Config)
    BY <1>3 DEF ReplayStart, DebugStart
  <2>2. /\ DOMAIN r = DOMAIN Idle /\ r.list = Idle.list /\ r.map = Idle.map /\ r.n = Idle.n /\ r.dir = d
        /\ r.pc = "launch" /\ r.mode = items[d][Config].mode
    BY DEF Idle
  <2> HIDE DEF r
  <2>3. Locals(r) /\ ~Claims(r) /\ r.pc \notin Recording \cup Packing \cup Archiving \cup {"entry", "unpack"}
    BY <2>2, StartLocals
  <2>4. ProcType' /\ proc'[p] = r /\ \A q \in Procs \ {p} : proc'[q] = proc[q]
    BY <2>1, <2>3, Replaced DEF IInv
  <2>5. d = "trace" => "trace" \in there
    <3>1. Config \notin DOMAIN Empty
      BY DEF Empty
    <3> QED BY <2>1, <3>1 DEF IInv, TraceInv, Absent, Whole, T
  <2>6. r.mode = "full" => (d = "trace" /\ IsFull(T)) \/ (d = "copy" /\ IsFull(C))
    BY <2>1, <2>2 DEF IsFull, T, C, Dirs
  <2> QED BY <1>1, <2>2, <2>3, <2>4, <2>5, <2>6, LocalStep DEF Dirs
<1> QED BY <1>2, <1>3

\* The program was run; the list of its files is in memory.
LEMMA RecordRunStep ==
  ASSUME IInv, NEW p \in Procs, NEW list \in OpenLists, RecordRun(p, list)
  PROVE  IInv'
<1>1. UNCHANGED <<world, there, items, spoiled, archive, archived>> /\ proc[p].pc = "run" /\ Locals(proc[p])
  BY DEF RecordRun, OnlyProc, At, IInv, ProcType
<1>2. proc' = [proc EXCEPT ![p].pc = "files", ![p].list = list]
  BY DEF RecordRun
<1>3. /\ \A q \in Procs \ {p} : proc'[q] = proc[q]
      /\ IsFcn(proc') /\ DOMAIN proc' = Procs /\ DOMAIN proc'[p] = DOMAIN proc[p]
      /\ proc'[p].pc = "files" /\ proc'[p].dir = proc[p].dir /\ proc'[p].mode = proc[p].mode
      /\ proc'[p].list = list /\ proc'[p].n = proc[p].n
  BY <1>1, <1>2 DEF IInv, ProcType, Locals, IsFcn
<1>4. list \in Seq(Paths)
  BY PathsAssumption DEF Paths
<1>5. Locals(proc'[p]) /\ ~Claims(proc'[p]) /\ proc'[p].pc \notin Packing
  BY <1>1, <1>3, <1>4
     DEF Locals, Claims, Labels, OnTrace, Recording, Packing, Copied, Mapped, Archiving
<1>6. ProcType'
  BY <1>3, <1>5 DEF IInv, ProcType
<1>7. "trace" \in there
  BY <1>1 DEF IInv, TraceInv, Absent, Locals, OnTrace, Recording
<1> QED BY <1>1, <1>3, <1>5, <1>6, <1>7, LocalStep DEF Recording

\* A pack that has read the list.
LEMMA Packer ==
  ASSUME IInv, NEW p \in Procs, proc[p].pc \in Packing
  PROVE  /\ "trace" \in there /\ proc[p].dir = "trace" /\ Locals(proc[p])
         /\ Whole(T, Files) /\ Packed(p, proc[p], T, world)
<1>1. Locals(proc[p]) /\ Whole(T, Files) /\ Packed(p, proc[p], T, world)
  BY DEF IInv, ProcType, TraceInv, OneRecorder, AllPacked
<1>2. proc[p].dir = "trace" /\ proc[p].pc \notin {"idle", "mkdir"}
  BY <1>1 DEF Locals, OnTrace, Packing, Copied, Mapped, Archiving
<1>3. "trace" \in there
  BY <1>2 DEF IInv, TraceInv, Absent
<1> QED BY <1>1, <1>2, <1>3

\* The list and the configuration are read, or do not parse.
LEMMA PackReadStep ==
  ASSUME IInv, NEW p \in Procs, PackRead(p)
  PROVE  IInv'
<1>1. UNCHANGED <<world, there, items, spoiled, archive, archived>> /\ proc[p].pc = "read" /\ Locals(proc[p])
  BY DEF PackRead, OnlyProc, At, IInv, ProcType
<1>2. CASE End(p)
  BY <1>1, <1>2, EndStep
<1>3. CASE ~End(p)
  <2> DEFINE list == <<Exe>> \o T[Files].list
  <2>1. Whole(T, Files) /\ proc' = [proc EXCEPT ![p].pc = "copy", ![p].list = list]
    BY <1>3 DEF PackRead, T
  <2>2. T[Files].list \in Seq(Paths) /\ <<Exe>> \in Seq(Paths)
    BY <2>1, PathsAssumption DEF IInv, TraceInv, Contents, Paths
  <2>3. list \in Seq(Paths) /\ list # <<>> /\ Head(list) = Exe
    BY <2>2
  <2>4. Wanted(T, world) \subseteq Range(list)
    BY DEF Wanted
  <2> HIDE DEF list
  <2>5. /\ \A q \in Procs \ {p} : proc'[q] = proc[q]
        /\ IsFcn(proc') /\ DOMAIN proc' = Procs /\ DOMAIN proc'[p] = DOMAIN proc[p]
        /\ proc'[p].pc = "copy" /\ proc'[p].dir = proc[p].dir /\ proc'[p].map = proc[p].map
        /\ proc'[p].list = list /\ proc'[p].n = proc[p].n
    BY <1>1, <2>1 DEF IInv, ProcType, Locals, IsFcn
  <2>6. proc[p].n = 0 /\ DOMAIN proc[p].map = {}
    BY <1>1 DEF Locals
  <2>7. Locals(proc'[p]) /\ ~Claims(proc'[p])
    BY <1>1, <2>3, <2>5, <2>6
       DEF Locals, Claims, Labels, OnTrace, Recording, Packing, Copied, Mapped, Archiving
  <2>8. Packed(p, proc'[p], T, world)
    BY <2>3, <2>4, <2>5, <2>6 DEF Packed, Copied, Mapped, Archiving
  <2>9. ProcType'
    BY <2>5, <2>7 DEF IInv, ProcType
  <2>10. "trace" \in there
    BY <1>1 DEF IInv, TraceInv, Absent, Locals, OnTrace
  <2> QED BY <1>1, <2>1, <2>5, <2>7, <2>8, <2>9, <2>10, LocalStep DEF Recording
<1> QED BY <1>2, <1>3

\* What is left of a list after its head.
LEMMA RangeTail ==
  ASSUME NEW S, NEW s \in Seq(S), s # <<>>, NEW x \in Range(s), x # Head(s)
  PROVE  x \in Range(Tail(s)) /\ Tail(s) \in Seq(S)
<1>1. PICK i \in DOMAIN s : s[i] = x
  BY DEF Range
<1>2. i # 1 /\ i \in 1 .. Len(s)
  BY <1>1
<1>3. Tail(s) \in Seq(S) /\ Len(Tail(s)) = Len(s) - 1 /\ \A j \in 1 .. Len(Tail(s)) : Tail(s)[j] = s[j + 1]
  BY HeadTailProperties
<1>4. i - 1 \in DOMAIN Tail(s) /\ Tail(s)[i - 1] = x
  BY <1>1, <1>2, <1>3
<1> QED BY <1>3, <1>4 DEF Range

\* A path that is no regular file, or has gone, is skipped.
LEMMA PackSkipStep ==
  ASSUME IInv, NEW p \in Procs, PackSkip(p)
  PROVE  IInv'
<1> DEFINE r == proc[p]
           head == Head(r.list)
<1>1. /\ UNCHANGED <<world, there, items, spoiled, archive, archived>>
      /\ r.pc = "copy" /\ r.list # <<>> /\ r.n # 0
      /\ head \in DevPaths \cup OtherPaths \/ world[head] = "gone"
      /\ proc' = [proc EXCEPT ![p].list = Tail(@)]
  BY DEF PackSkip, OnlyProc, At, IsCandidate
<1>2. "trace" \in there /\ Locals(r) /\ Whole(T, Files) /\ Packed(p, r, T, world)
  BY <1>1, Packer DEF Packing
<1>3. r.list \in Seq(Paths) /\ Tail(r.list) \in Seq(Paths)
  <2>1. r.list \in Seq(Paths)
    BY <1>2 DEF Locals
  <2> QED BY <1>1, <2>1, HeadTailProperties
<1>4. /\ \A q \in Procs \ {p} : proc'[q] = proc[q]
      /\ IsFcn(proc') /\ DOMAIN proc' = Procs /\ DOMAIN proc'[p] = DOMAIN proc[p]
      /\ proc'[p].pc = "copy" /\ proc'[p].dir = r.dir /\ proc'[p].map = r.map
      /\ proc'[p].list = Tail(r.list) /\ proc'[p].n = r.n
  BY <1>1, <1>2 DEF IInv, ProcType, Locals, IsFcn
<1>5. Locals(proc'[p]) /\ Claims(proc'[p]) /\ Claims(r) /\ r.pc \notin Archiving
  BY <1>1, <1>2, <1>3, <1>4
     DEF Locals, Claims, Labels, OnTrace, Recording, Packing, Copied, Mapped, Archiving
<1>6. Packed(p, proc'[p], T, world)
  <2>1. ASSUME NEW path \in Wanted(T, world) PROVE path \in DOMAIN r.map \/ path \in Range(Tail(r.list))
    <3>1. path \in FilePaths /\ world[path] # "gone"
      BY DEF Wanted
    <3>2. path # head
      BY <1>1, <3>1, PathsAssumption
    <3>3. path \in DOMAIN r.map \/ path \in Range(r.list)
      BY <1>2 DEF Packed
    <3> QED BY <1>1, <1>3, <3>2, <3>3, RangeTail
  <2> QED BY <1>1, <1>2, <1>4, <2>1 DEF Packed, Copied, Mapped, Archiving
<1>7. ProcType'
  BY <1>4, <1>5 DEF IInv, ProcType
<1> HIDE DEF r
<1> QED BY <1>1, <1>2, <1>4, <1>5, <1>6, <1>7, LocalStep DEF Recording, r

\* A path is found to be a regular file, or the list is at its end.
LEMMA PackLoopStep ==
  ASSUME IInv, NEW p \in Procs, PackFound(p) \/ PackLoopOver(p)
  PROVE  IInv'
<1> DEFINE r == proc[p]
           head == Head(r.list)
<1>1. PICK label \in {"copyopen", "mapopen"} :
        /\ UNCHANGED <<world, there, items, spoiled, archive, archived>> /\ r.pc = "copy"
        /\ label = "copyopen" => r.list # <<>> /\ IsCandidate(p, head)
        /\ label = "mapopen" => r.list = <<>>
        /\ Goto(p, label)
  BY DEF PackFound, PackLoopOver, OnlyProc, At, LoopOver, AfterLoop
<1>2. "trace" \in there /\ Locals(r) /\ Whole(T, Files) /\ Packed(p, r, T, world)
  BY <1>1, Packer DEF Packing
<1>3. /\ \A q \in Procs \ {p} : proc'[q] = proc[q]
      /\ IsFcn(proc') /\ DOMAIN proc' = Procs /\ DOMAIN proc'[p] = DOMAIN proc[p]
      /\ proc'[p].pc = label /\ proc'[p].dir = r.dir /\ proc'[p].map = r.map
      /\ proc'[p].list = r.list /\ proc'[p].n = r.n
  BY <1>1, GotoFacts DEF IInv
<1>4. r.n = 0 => label = "copyopen"
  BY <1>1, <1>2 DEF Packed
<1>5. label = "copyopen" => head \in FilePaths
  <2>1. r.n = 0 => head = Exe
    BY <1>2 DEF Packed
  <2>2. label = "copyopen" => head \in Paths
    BY <1>1, <1>2, HeadTailProperties DEF Locals
  <2> QED BY <1>1, <2>1, <2>2, PathsAssumption DEF IsCandidate, Paths
<1>6. Locals(proc'[p]) /\ (Claims(proc'[p]) => Claims(r)) /\ r.pc \notin Archiving
  BY <1>1, <1>2, <1>3, <1>4
     DEF Locals, Claims, Labels, OnTrace, Recording, Packing, Copied, Mapped, Archiving
<1>7. Packed(p, proc'[p], T, world)
  BY <1>1, <1>2, <1>3, <1>4, <1>5 DEF Packed, Copied, Mapped, Archiving
<1>8. ProcType'
  BY <1>3, <1>6 DEF IInv, ProcType
<1> HIDE DEF r
<1> QED BY <1>1, <1>2, <1>3, <1>6, <1>7, <1>8, LocalStep DEF Recording, r

(***************************************************************************)
(* Steps that write to the trace directory                                 *)
(***************************************************************************)

\* A command on the trace directory writes an item.
LEMMA WriteFacts ==
  ASSUME IInv, NEW p \in Procs, proc[p].dir = "trace", NEW item, NEW content,
         Write(p, item, content), spoiled' = spoiled, world' = world
  PROVE  T' = With(T, item, content) /\ C' = C /\ DirsType'
<1>1. items' = [items EXCEPT !["trace"] = With(T, item, content)] /\ DOMAIN items = Dirs /\ IsFcn(items)
  BY DEF Write, T, IInv, DirsType
<1>2. T' = With(T, item, content) /\ C' = C
  BY <1>1 DEF T, C, Dirs
<1>3. IsFcn(items') /\ DOMAIN items' = Dirs
  BY <1>1 DEF IsFcn
<1>4. IsFcn(T') /\ IsFcn(C')
  <2>1. IsFcn(With(T, item, content))
    BY DEF With, IsFcn
  <2> QED BY <1>2, <2>1 DEF IInv, DirsType
<1> QED BY <1>2, <1>3, <1>4 DEF IInv, DirsType

\* A write to the trace directory leaves the rest as it is.
LEMMA WriteStep ==
  ASSUME IInv, NEW p \in Procs, NEW item, NEW content,
         T' = With(T, item, content), C' = C, DirsType',
         UNCHANGED <<world, there, spoiled, archive, archived>>,
         ProcType', \A q \in Procs \ {p} : proc'[q] = proc[q],
         proc[p].pc \in OnTrace \ {"mkdir"}, proc'[p].pc \in (OnTrace \ {"entry"}) \cup {"idle"},
         spoiled["trace"] \/ IsFull(T') \/ ~IsFull(T),
         \A q \in Procs \ {p} : proc[q].pc = "entry" /\ item \in DOMAIN T => T[item] = content,
         item = Files /\ content.whole => content.list \in Seq(Paths),
         item = PackDir => content = TRUE,
         OneRecorder', OneClaim', AllPacked', FullLast'
  PROVE  IInv'
<1>0. /\ DOMAIN T' = DOMAIN T \cup {item} /\ T'[item] = content
      /\ \A i \in DOMAIN T : i # item => T'[i] = T[i]
  BY DEF With
<1>1. Locals(proc[p]) /\ proc[p].dir = "trace" /\ "trace" \in there
  BY DEF IInv, ProcType, Locals, TraceInv, Absent, OnTrace, Recording, Packing, Copied, Mapped, Archiving
<1>2. Absent'
  BY <1>1 DEF Absent
<1>3. Contents'
  <2>1. Whole(T', Files) => T'[Files].list \in Seq(Paths)
    <3>1. CASE item = Files
      BY <1>0, <3>1 DEF Whole
    <3>2. CASE item # Files
      BY <1>0, <3>2 DEF IInv, TraceInv, Contents, Whole
    <3> QED BY <3>1, <3>2
  <2>2. PackDir \in DOMAIN T' => T'[PackDir] = TRUE
    BY <1>0 DEF IInv, TraceInv, Contents
  <2>3. Env \in DOMAIN T => Env \in DOMAIN T'
    BY <1>0
  <2> QED BY <2>1, <2>2, <2>3 DEF IInv, TraceInv, Contents
<1>4. Launching'
  BY DEF IInv, Launching, OnTrace, Recording, Packing, Copied, Mapped, Archiving
<1>5. ArchiveInv'
  <2>1. ASSUME NEW q \in Procs, proc'[q].pc = "entry" PROVE ~archive'.whole /\ Stored(archive', T')
    <3>1. q # p /\ proc[q].pc = "entry"
      BY <2>1
    <3>2. ~archive.whole /\ Stored(archive, T) /\ (item \in DOMAIN T => T[item] = content)
      BY <3>1 DEF IInv, ArchiveInv
    <3>3. \A i \in DOMAIN T : i \in DOMAIN T' /\ T'[i] = T[i]
      BY <1>0, <3>2
    <3>4. Stored(archive, T')
      BY <3>2, <3>3 DEF Stored
    <3> QED BY <3>2, <3>4
  <2> QED BY <2>1 DEF IInv, ArchiveInv
<1>6. CopyInv'
  BY DEF IInv, CopyInv, OnTrace, Recording, Packing, Copied, Mapped, Archiving
<1> QED BY <1>2, <1>3, <1>4, <1>5, <1>6 DEF IInv, TraceInv

\* While record writes, no pack has read the list, and the directory is not full.
LEMMA Recorder ==
  ASSUME IInv, NEW p \in Procs, proc[p].pc \in Recording
  PROVE  /\ "trace" \in there /\ proc[p].dir = "trace" /\ Locals(proc[p]) /\ proc[p].mode # "full"
         /\ ~Whole(T, Files) /\ (spoiled["trace"] \/ ~IsFull(T))
         /\ \A q \in Procs : proc[q].pc \notin Packing /\ ~Claims(proc[q]) /\ proc[q].pc # "entry"
         /\ \A q \in Procs \ {p} : proc[q].pc \notin Recording
<1>1. Locals(proc[p]) /\ ~Whole(T, Files) /\ \A q \in Procs : proc[q].pc \notin Packing
  BY DEF IInv, ProcType, TraceInv, OneRecorder
<1>2. proc[p].dir = "trace" /\ proc[p].mode # "full" /\ "trace" \in there
  BY <1>1 DEF IInv, TraceInv, Absent, Locals, OnTrace, Recording
<1>3. \A q \in Procs : ~Claims(proc[q]) /\ proc[q].pc # "entry"
  BY <1>1 DEF Claims, Packing, Copied, Mapped, Archiving
<1>4. spoiled["trace"] \/ ~IsFull(T)
  BY <1>1 DEF IInv, TraceInv, FullLast
<1>5. \A q \in Procs \ {p} : proc[q].pc \notin Recording
  BY DEF IInv, TraceInv, OneRecorder
<1> QED BY <1>1, <1>2, <1>3, <1>4, <1>5

\* record writes the configuration or the list.
LEMMA RecordWriteStep ==
  ASSUME IInv, NEW p \in Procs, proc[p].pc \in Recording, NEW item \in {Config, Files}, NEW content,
         Write(p, item, content), UNCHANGED <<world, there, spoiled, archive, archived>>,
         ProcType', \A q \in Procs \ {p} : proc'[q] = proc[q],
         proc'[p].pc \in Recording \cup {"idle"},
         item = Config => ~content.whole \/ content.mode # "full",
         item = Files => content.list \in Seq(Paths) \/ ~content.whole,
         item = Files => ~content.whole \/ proc'[p].pc = "idle"
  PROVE  IInv'
<1>1. /\ proc[p].dir = "trace" /\ ~Whole(T, Files) /\ (spoiled["trace"] \/ ~IsFull(T))
      /\ \A q \in Procs : proc[q].pc \notin Packing /\ ~Claims(proc[q]) /\ proc[q].pc # "entry"
      /\ \A q \in Procs \ {p} : proc[q].pc \notin Recording
  BY Recorder
<1>2. T' = With(T, item, content) /\ C' = C /\ DirsType'
  BY <1>1, WriteFacts
<1>3. \A q \in Procs : proc'[q].pc \notin Packing /\ ~Claims(proc'[q])
  BY <1>1 DEF Claims, Recording, Packing, Copied, Mapped, Archiving
<1>4. spoiled["trace"] \/ ~IsFull(T')
  <2>1. CASE item = Config
    BY <1>2, <2>1 DEF IsFull, Whole, With
  <2>2. CASE item # Config
    BY <1>1, <1>2, <2>2 DEF IsFull, Whole, With
  <2> QED BY <2>1, <2>2
<1>5. OneRecorder'
  <2>1. proc'[p].pc \in Recording => ~Whole(T', Files)
    BY <1>1, <1>2, Names DEF Recording, Whole, With
  <2> QED BY <1>1, <1>3, <2>1 DEF OneRecorder
<1>6. OneClaim' /\ AllPacked'
  BY <1>3 DEF OneClaim, AllPacked
<1>7. FullLast'
  BY <1>4 DEF FullLast, Good
<1>8. item # PackDir
  BY Names
<1> QED BY <1>1, <1>2, <1>4, <1>5, <1>6, <1>7, <1>8, WriteStep DEF OnTrace, Recording

\* The configuration is opened, and closed, and so is the list.
LEMMA RecordFileStep ==
  ASSUME IInv, NEW p \in Procs,
         RecordConfigOpen(p) \/ RecordConfigClose(p) \/ RecordFilesOpen(p) \/ RecordFilesClose(p)
  PROVE  IInv'
<1>1. UNCHANGED <<world, there, spoiled, archive, archived>> /\ proc[p].pc \in Recording
  BY DEF RecordConfigOpen, RecordConfigClose, RecordFilesOpen, RecordFilesClose, OnlyItems, At, Recording
<1>2. proc[p].dir = "trace" /\ Locals(proc[p]) /\ proc[p].mode # "full"
  BY <1>1, Recorder
<1>3. ASSUME NEW label \in Recording, Goto(p, label)
      PROVE  /\ ProcType' /\ (\A q \in Procs \ {p} : proc'[q] = proc[q])
             /\ proc'[p].pc \in Recording
  <2>1. /\ \A q \in Procs \ {p} : proc'[q] = proc[q]
        /\ IsFcn(proc') /\ DOMAIN proc' = Procs /\ DOMAIN proc'[p] = DOMAIN proc[p]
        /\ proc'[p].pc = label /\ proc'[p].dir = proc[p].dir /\ proc'[p].mode = proc[p].mode
        /\ proc'[p].list = proc[p].list /\ proc'[p].map = proc[p].map /\ proc'[p].n = proc[p].n
    BY <1>3, GotoFacts DEF IInv
  <2>2. Locals(proc'[p])
    BY <1>1, <1>2, <2>1 DEF Locals, Labels, OnTrace, Recording, Packing, Copied, Mapped, Archiving
  <2> QED BY <2>1, <2>2 DEF IInv, ProcType
<1>4. CASE RecordConfigOpen(p)
  <2>1. CASE End(p) /\ UNCHANGED items
    BY <1>1, <2>1, EndStep
  <2>2. CASE Goto(p, "configclose") /\ Write(p, Config, Torn)
    <3>1. ~Torn.whole
      BY DEF Torn
    <3> QED BY <1>1, <1>3, <2>2, <3>1, Names, RecordWriteStep DEF Recording
  <2> QED BY <1>4, <2>1, <2>2 DEF RecordConfigOpen
<1>5. CASE RecordConfigClose(p)
  <2> DEFINE c == [whole |-> TRUE, mode |-> proc[p].mode]
  <2>1. c.mode # "full" /\ Write(p, Config, c) /\ Goto(p, "run")
    BY <1>2, <1>5 DEF RecordConfigClose
  <2> HIDE DEF c
  <2> QED BY <1>1, <1>3, <2>1, Names, RecordWriteStep DEF Recording
<1>6. CASE RecordFilesOpen(p)
  <2>1. ~Torn.whole /\ Write(p, Files, Torn) /\ Goto(p, "filesclose")
    BY <1>6 DEF Torn, RecordFilesOpen
  <2> QED BY <1>1, <1>3, <2>1, Names, RecordWriteStep DEF Recording
<1>7. CASE RecordFilesClose(p)
  <2> DEFINE c == [whole |-> TRUE, list |-> proc[p].list]
  <2>1. c.list \in Seq(Paths) /\ Write(p, Files, c) /\ End(p)
    BY <1>2, <1>7 DEF RecordFilesClose, Locals
  <2> HIDE DEF c
  <2>2. ProcType' /\ proc'[p].pc = "idle" /\ \A q \in Procs \ {p} : proc'[q] = proc[q]
    BY <2>1, EndFacts, IdleFacts DEF IInv
  <2> QED BY <1>1, <2>1, <2>2, Names, RecordWriteStep DEF Recording
<1> QED BY <1>4, <1>5, <1>6, <1>7

\* pack/ is made.
LEMMA PackMkdirStep ==
  ASSUME IInv, NEW p \in Procs, PackMkdir(p)
  PROVE  IInv'
<1>1. /\ UNCHANGED <<world, there, spoiled, archive, archived>> /\ proc[p].pc = "packdir"
      /\ Goto(p, "read") /\ Write(p, PackDir, TRUE) /\ Locals(proc[p]) /\ proc[p].dir = "trace"
  BY DEF PackMkdir, OnlyItems, At, IInv, ProcType, Locals, OnTrace
<1>2. T' = With(T, PackDir, TRUE) /\ C' = C /\ DirsType'
  BY <1>1, WriteFacts
<1>3. DOMAIN T' = DOMAIN T \cup {PackDir} /\ \A i \in DOMAIN T : T'[i] = T[i]
  BY <1>2 DEF With, IInv, TraceInv, Contents
<1>4. /\ \A q \in Procs \ {p} : proc'[q] = proc[q]
      /\ IsFcn(proc') /\ DOMAIN proc' = Procs /\ DOMAIN proc'[p] = DOMAIN proc[p]
      /\ proc'[p].pc = "read" /\ proc'[p].dir = proc[p].dir /\ proc'[p].mode = proc[p].mode
      /\ proc'[p].list = proc[p].list /\ proc'[p].map = proc[p].map /\ proc'[p].n = proc[p].n
  BY <1>1, GotoFacts DEF IInv
<1>5. Locals(proc'[p]) /\ ~Claims(proc'[p]) /\ proc'[p].pc \notin Recording \cup Packing
  BY <1>1, <1>4 DEF Locals, Claims, Labels, OnTrace, Recording, Packing, Copied, Mapped, Archiving
<1>6. ProcType'
  BY <1>4, <1>5 DEF IInv, ProcType
<1>7. \A i : i # PackDir => (Whole(T', i) <=> Whole(T, i)) /\ (i \in DOMAIN T' <=> i \in DOMAIN T)
  BY <1>3 DEF Whole
<1>8. OneRecorder' /\ OneClaim'
  <2>1. Copy(0) \in DOMAIN T => Copy(0) \in DOMAIN T'
    BY <1>3
  <2>2. Whole(T', Files) <=> Whole(T, Files)
    BY <1>7, Names
  <2> QED BY <1>4, <1>5, <2>1, <2>2 DEF IInv, TraceInv, OneRecorder, OneClaim
<1>9. AllPacked'
  <2>1. ASSUME NEW q \in Procs, proc'[q].pc \in Packing PROVE Packed(q, proc'[q], T', world')
    <3>1. q # p /\ proc'[q] = proc[q] /\ Packed(q, proc[q], T, world) /\ Whole(T, Files) /\ Locals(proc[q])
      BY <1>4, <1>5, <2>1, Packer
    <3>2. Wanted(T', world') = Wanted(T, world)
      BY <1>1, <1>3, <3>1 DEF Wanted, Whole
    <3> QED BY <1>3, <3>1, <3>2 DEF Packed, Whole, Locals
  <2> QED BY <2>1 DEF AllPacked
<1>10. IsFull(T') <=> IsFull(T)
  BY <1>3, Names DEF IsFull, Whole
<1>11. FullLast'
  <2>1. ASSUME ~spoiled["trace"], IsFull(T') PROVE Good(T', world')
    <3>1. Good(T, world) /\ Whole(T, Files) /\ IsFull(T)
      BY <1>10, <2>1 DEF IInv, TraceInv, FullLast
    <3>2. Wanted(T', world') = Wanted(T, world)
      BY <1>1, <1>3, <3>1 DEF Wanted, Whole
    <3>3. Launchable(T)
      BY <3>1 DEF Good
    <3>4. Launchable(T') /\ T'[FileMap] = T[FileMap]
          /\ \A path \in DOMAIN T[FileMap].map : T'[Copy(T[FileMap].map[path])] = T[Copy(T[FileMap].map[path])]
      BY <1>3, <3>3 DEF Launchable, Whole
    <3> QED BY <3>1, <3>2, <3>4 DEF Good
  <2>2. ~spoiled["trace"] /\ ~IsFull(T') => Good(T', world')
    BY DEF Good
  <2>3. Whole(T', Files) <=> Whole(T, Files)
    BY <1>7, Names
  <2> QED BY <1>1, <1>3, <1>4, <1>5, <1>10, <2>1, <2>2, <2>3 DEF IInv, TraceInv, FullLast
<1>12. PackDir \in DOMAIN T => T[PackDir] = TRUE
  BY DEF IInv, TraceInv, Contents
<1>13. PackDir # Files
  BY Names
<1> QED BY <1>1, <1>2, <1>4, <1>6, <1>8, <1>9, <1>10, <1>11, <1>12, <1>13, WriteStep DEF OnTrace

\* pack writes a copy, the map or the configuration: it has the first copy, or
\* makes it.
LEMMA PackWriteStep ==
  ASSUME IInv, NEW p \in Procs, proc[p].pc \in Packing \ Archiving,
         Claims(proc[p]) \/ Copy(0) \notin DOMAIN T,
         NEW item, item \notin {Files, PackDir}, NEW content,
         Write(p, item, content), UNCHANGED <<world, there, spoiled, archive, archived>>,
         ProcType', \A q \in Procs \ {p} : proc'[q] = proc[q],
         proc'[p].pc \in (Packing \ {"entry"}) \cup {"idle"},
         proc'[p].pc \in Packing => Packed(p, proc'[p], T', world),
         Claims(proc'[p]) => Copy(0) \in DOMAIN T',
         item # Config \/ ~content.whole \/ spoiled["trace"] \/
           (Good(T', world) /\ Copy(0) \in DOMAIN T' /\ proc'[p].pc \in Archiving \cup {"idle"})
  PROVE  IInv'
<1>1. "trace" \in there /\ proc[p].dir = "trace" /\ Whole(T, Files)
  BY Packer
<1>2. T' = With(T, item, content) /\ C' = C /\ DirsType'
  BY <1>1, WriteFacts
<1>3. /\ Whole(T', Files) /\ T'[Files] = T[Files]
      /\ Copy(0) \in DOMAIN T => Copy(0) \in DOMAIN T'
  BY <1>1, <1>2 DEF With, Whole
<1>4. \A q \in Procs \ {p} : ~Claims(proc[q])
  BY DEF IInv, TraceInv, OneClaim
<1>5. spoiled["trace"] \/ ~IsFull(T)
  BY DEF IInv, TraceInv, FullLast
<1>6. IsFull(T') => spoiled["trace"] \/ (item = Config /\ content.whole)
  <2>1. CASE item = Config
    BY <1>2, <2>1 DEF IsFull, Whole, With
  <2>2. CASE item # Config
    BY <1>2, <1>5, <2>2 DEF IsFull, Whole, With
  <2> QED BY <2>1, <2>2
<1>7. OneRecorder'
  <2>1. \A q \in Procs : proc'[q].pc \notin Recording
    BY <1>1 DEF IInv, TraceInv, OneRecorder, Recording, Packing, Copied, Mapped, Archiving
  <2> QED BY <1>3, <2>1 DEF OneRecorder
<1>8. OneClaim'
  BY <1>3, <1>4 DEF IInv, TraceInv, OneClaim
<1>9. AllPacked'
  <2>1. ASSUME NEW q \in Procs \ {p}, proc'[q].pc \in Packing PROVE Packed(q, proc'[q], T', world')
    <3>1. proc'[q] = proc[q] /\ Packed(q, proc[q], T, world) /\ Locals(proc[q])
      BY <2>1, Packer
    <3>2. proc[q].n = 0 /\ proc[q].pc \in {"copy", "copyopen"}
      BY <1>4, <2>1, <3>1 DEF Claims, Packing
    <3>3. Wanted(T', world') = Wanted(T, world)
      BY <1>3 DEF Wanted
    <3> QED BY <3>1, <3>2, <3>3 DEF Packed, Copied, Mapped, Archiving
  <2> QED BY <2>1 DEF AllPacked
<1>10. FullLast'
  <2>1. ASSUME ~spoiled["trace"], IsFull(T')
        PROVE  /\ Good(T', world) /\ Copy(0) \in DOMAIN T'
               /\ \A q \in Procs : Claims(proc'[q]) => proc'[q].pc \in Archiving
    <3>1. Good(T', world) /\ Copy(0) \in DOMAIN T' /\ proc'[p].pc \in Archiving \cup {"idle"}
      BY <1>6, <2>1
    <3>2. Claims(proc'[p]) => proc'[p].pc \in Archiving
      BY <3>1 DEF Claims, Copied, Mapped, Archiving
    <3> QED BY <1>4, <3>1, <3>2
  <2>2. ~IsFull(T') => Good(T', world)
    BY DEF Good
  <2> QED BY <1>3, <2>1, <2>2 DEF FullLast
<1>11. \A q \in Procs \ {p} : proc[q].pc # "entry"
  BY <1>4 DEF Claims, Copied, Mapped, Archiving
<1>12. proc[p].pc \in OnTrace \ {"mkdir"} /\ proc'[p].pc \in (OnTrace \ {"entry"}) \cup {"idle"}
  BY DEF OnTrace, Packing, Copied, Mapped, Archiving
<1> QED BY <1>2, <1>5, <1>7, <1>8, <1>9, <1>10, <1>11, <1>12, WriteStep

\* A pack that writes a file goes on to the next label.
LEMMA PackGoto ==
  ASSUME IInv, NEW p \in Procs, proc[p].pc \in Packing, NEW label \in Packing, Goto(p, label)
  PROVE  /\ ProcType' /\ \A q \in Procs \ {p} : proc'[q] = proc[q]
         /\ proc'[p].pc = label /\ proc'[p].list = proc[p].list /\ proc'[p].map = proc[p].map
         /\ proc'[p].n = proc[p].n
<1>1. Locals(proc[p])
  BY Packer
<1>2. /\ \A q \in Procs \ {p} : proc'[q] = proc[q]
      /\ IsFcn(proc') /\ DOMAIN proc' = Procs /\ DOMAIN proc'[p] = DOMAIN proc[p]
      /\ proc'[p].pc = label /\ proc'[p].dir = proc[p].dir /\ proc'[p].mode = proc[p].mode
      /\ proc'[p].list = proc[p].list /\ proc'[p].map = proc[p].map /\ proc'[p].n = proc[p].n
  BY GotoFacts DEF IInv
<1>3. Locals(proc'[p])
  BY <1>1, <1>2 DEF Locals, Labels, OnTrace, Recording, Packing, Copied, Mapped, Archiving
<1> QED BY <1>2, <1>3 DEF IInv, ProcType

\* A file is opened for its copy, which must be new.
LEMMA PackCopyStep ==
  ASSUME IInv, NEW p \in Procs, PackCopy(p)
  PROVE  IInv'
<1> DEFINE r == proc[p]
<1>1. UNCHANGED <<world, there, spoiled, archive, archived>> /\ r.pc = "copyopen"
  BY DEF PackCopy, OnlyItems, At
<1>2. CASE End(p) /\ UNCHANGED items
  BY <1>1, <1>2, EndStep
<1>3. CASE ~(End(p) /\ UNCHANGED items)
  <2>1. /\ "trace" \in there /\ r.dir = "trace" /\ Locals(r)
        /\ Whole(T, Files) /\ Packed(p, r, T, world)
    BY <1>1, Packer DEF Packing
  <2>2. Goto(p, "copyclose") /\ Write(p, Copy(r.n), Torn) /\ Copy(r.n) \notin DOMAIN T
    BY <1>3, <2>1 DEF PackCopy, CopyFails, T
  <2>3. /\ ProcType' /\ \A q \in Procs \ {p} : proc'[q] = proc[q]
        /\ proc'[p].pc = "copyclose" /\ proc'[p].list = r.list /\ proc'[p].map = r.map
        /\ proc'[p].n = r.n
    BY <1>1, <2>2, PackGoto DEF Packing
  <2>4. T' = With(T, Copy(r.n), Torn)
    BY <1>1, <2>1, <2>2, WriteFacts
  <2>5. r.n \in Nat /\ Copy(r.n) \notin {Files, PackDir, Config, FileMap}
    BY <2>1, Names DEF Locals
  <2>6. Claims(r) \/ Copy(0) \notin DOMAIN T
    BY <1>1, <2>2 DEF Claims
  <2>7. Copy(0) \in DOMAIN T'
    <3>1. r.n # 0 => Copy(0) \in DOMAIN T
      BY <1>1 DEF Claims, IInv, TraceInv, OneClaim
    <3> QED BY <2>4, <3>1 DEF With
  <2>8. Packed(p, proc'[p], T', world)
    <3>1. \A i \in DOMAIN T : i # Copy(r.n) => i \in DOMAIN T' /\ T'[i] = T[i]
      BY <2>4 DEF With
    <3>2. Wanted(T', world) = Wanted(T, world)
      BY <2>1, <2>5, <3>1 DEF Wanted, Whole
    <3>3. \A m \in 0 .. r.n - 1 : Whole(T', Copy(m)) /\ T'[Copy(m)] = T[Copy(m)] /\ T[Copy(m)].by = p
      <4>1. ASSUME NEW m \in 0 .. r.n - 1 PROVE Copy(m) \in DOMAIN T /\ Copy(m) # Copy(r.n) /\ T[Copy(m)].whole
        BY <2>1, <2>5, Names DEF Packed, Whole
      <4> QED BY <2>1, <3>1, <4>1 DEF Packed, Whole
    <3> QED BY <1>1, <2>1, <2>3, <3>2, <3>3 DEF Packed, Copied, Mapped, Archiving
  <2> HIDE DEF r
  <2> QED BY <1>1, <2>2, <2>3, <2>5, <2>6, <2>7, <2>8, PackWriteStep DEF r, Packing, Copied, Mapped, Archiving
<1> QED BY <1>2, <1>3

\* A copy is complete, and in the map.
LEMMA PackCopiedStep ==
  ASSUME IInv, NEW p \in Procs, PackCopied(p)
  PROVE  IInv'
<1> DEFINE r == proc[p]
           path == Head(r.list)
           c == [whole |-> TRUE, path |-> path, content |-> world[path], by |-> p]
           new == With(r.map, path, r.n)
<1>1. /\ UNCHANGED <<world, there, spoiled, archive, archived>> /\ r.pc = "copyclose"
      /\ Write(p, Copy(r.n), c)
      /\ proc' = [proc EXCEPT ![p].pc = "copy", ![p].list = Tail(@), ![p].n = @ + 1, ![p].map = new]
  BY DEF PackCopied, OnlyItems, At
<1>2. /\ "trace" \in there /\ r.dir = "trace" /\ Locals(r)
      /\ Whole(T, Files) /\ Packed(p, r, T, world)
  BY <1>1, Packer DEF Packing
<1>3. r.list \in Seq(Paths) /\ r.list # <<>> /\ Tail(r.list) \in Seq(Paths)
  <2>1. r.list \in Seq(Paths) /\ r.list # <<>>
    BY <1>1, <1>2 DEF Locals, Packed
  <2> QED BY <2>1, HeadTailProperties
<1>4. c.whole /\ c.path = path /\ c.by = p
  OBVIOUS
<1>5. /\ DOMAIN new = DOMAIN r.map \cup {path} /\ new[path] = r.n
      /\ \A x \in DOMAIN r.map : x # path => new[x] = r.map[x]
  BY DEF With
<1> HIDE DEF c, new
<1>6. /\ \A q \in Procs \ {p} : proc'[q] = proc[q]
      /\ IsFcn(proc') /\ DOMAIN proc' = Procs /\ DOMAIN proc'[p] = DOMAIN r
      /\ proc'[p].pc = "copy" /\ proc'[p].dir = r.dir
      /\ proc'[p].list = Tail(r.list) /\ proc'[p].map = new /\ proc'[p].n = r.n + 1
  BY <1>1, <1>2 DEF IInv, ProcType, Locals, IsFcn
<1>7. r.n \in Nat /\ Copy(r.n) \notin {Files, PackDir, Config, FileMap}
  BY <1>2, Names DEF Locals
<1>8. Locals(proc'[p]) /\ Claims(r)
  BY <1>1, <1>2, <1>3, <1>6, <1>7
     DEF Locals, Claims, Labels, OnTrace, Recording, Packing, Copied, Mapped, Archiving
<1>9. ProcType'
  BY <1>6, <1>8 DEF IInv, ProcType
<1>10. T' = With(T, Copy(r.n), c)
  BY <1>1, <1>2, WriteFacts
<1>11. /\ \A i \in DOMAIN T : i \in DOMAIN T' /\ (i # Copy(r.n) => T'[i] = T[i])
       /\ Copy(r.n) \in DOMAIN T' /\ T'[Copy(r.n)] = c
  BY <1>10 DEF With
<1>12. Copy(0) \in DOMAIN T'
  BY <1>8, <1>11 DEF IInv, TraceInv, OneClaim
<1>13. Packed(p, proc'[p], T', world)
  <2>1. Wanted(T', world) = Wanted(T, world)
    BY <1>2, <1>7, <1>11 DEF Wanted, Whole
  <2>2. ASSUME NEW m \in 0 .. r.n PROVE Whole(T', Copy(m)) /\ T'[Copy(m)].by = p
    <3>1. CASE m = r.n
      BY <1>4, <1>11, <3>1 DEF Whole
    <3>2. CASE m # r.n
      <4>1. m \in 0 .. r.n - 1 /\ Copy(m) # Copy(r.n)
        BY <1>7, <3>2, Names
      <4>2. Whole(T, Copy(m)) /\ T[Copy(m)].by = p
        BY <1>2, <4>1 DEF Packed
      <4> QED BY <1>11, <4>1, <4>2 DEF Whole
    <3> QED BY <3>1, <3>2
  <2>3. ASSUME NEW x \in DOMAIN new PROVE new[x] \in 0 .. r.n /\ T'[Copy(new[x])].path = x
    <3>1. CASE x = path
      BY <1>4, <1>5, <1>7, <1>11, <3>1
    <3>2. CASE x # path
      <4>1. x \in DOMAIN r.map /\ new[x] = r.map[x]
        BY <1>5, <3>2
      <4>2. r.map[x] \in 0 .. r.n - 1 /\ T[Copy(r.map[x])].path = x
        BY <1>2, <4>1 DEF Packed
      <4>3. Copy(r.map[x]) # Copy(r.n) /\ r.map[x] \in 0 .. r.n
        BY <1>7, <4>2, Names
      <4>4. Copy(r.map[x]) \in DOMAIN T
        BY <1>2, <4>2 DEF Packed, Whole
      <4> QED BY <1>11, <4>1, <4>2, <4>3, <4>4
    <3> QED BY <3>1, <3>2
  <2>4. ASSUME NEW x \in Wanted(T, world) PROVE x \in DOMAIN new \/ x \in Range(Tail(r.list))
    <3>1. x \in DOMAIN r.map \/ x \in Range(r.list)
      BY <1>2 DEF Packed
    <3> QED BY <1>3, <1>5, <3>1, RangeTail
  <2>5. (r.n + 1) - 1 = r.n /\ r.n + 1 # 0
    BY <1>7
  <2> QED BY <1>6, <2>1, <2>2, <2>3, <2>4, <2>5 DEF Packed, Copied, Mapped, Archiving
<1> HIDE DEF r
<1> QED BY <1>1, <1>6, <1>7, <1>8, <1>9, <1>12, <1>13, PackWriteStep DEF r, Packing, Copied, Mapped, Archiving

\* The map is written, and the configuration after it.
LEMMA PackFileStep ==
  ASSUME IInv, NEW p \in Procs,
         PackMapOpen(p) \/ PackMapClose(p) \/ PackFullOpen(p) \/ PackFullClose(p)
  PROVE  IInv'
<1> DEFINE r == proc[p]
<1>1. /\ UNCHANGED <<world, there, spoiled, archive, archived>>
      /\ r.pc \in {"mapopen", "mapclose", "fullopen", "fullclose"}
  BY DEF PackMapOpen, PackMapClose, PackFullOpen, PackFullClose, OnlyItems, At
<1>2. /\ "trace" \in there /\ r.dir = "trace" /\ Locals(r)
      /\ Whole(T, Files) /\ Packed(p, r, T, world) /\ Claims(r) /\ r.pc \in Packing \ Archiving
      /\ r.pc \in Copied
  BY <1>1, Packer DEF Packing, Copied, Mapped, Archiving, Claims
<1>3. Copy(0) \in DOMAIN T /\ r.n \in Nat /\ r.list = <<>> /\ r.n # 0
  BY <1>2 DEF IInv, TraceInv, OneClaim, Locals, Packed
<1>4. ASSUME NEW item \in {FileMap, Config}, NEW content, Write(p, item, content)
      PROVE  /\ T' = With(T, item, content) /\ item \notin {Files, PackDir}
             /\ \A i \in DOMAIN T : i \in DOMAIN T' /\ (i # item => T'[i] = T[i])
             /\ item \in DOMAIN T' /\ T'[item] = content
             /\ Copy(0) \in DOMAIN T' /\ Wanted(T', world) = Wanted(T, world)
             /\ \A m \in 0 .. r.n - 1 : Whole(T', Copy(m)) /\ T'[Copy(m)] = T[Copy(m)]
  <2>1. T' = With(T, item, content)
    BY <1>1, <1>2, <1>4, WriteFacts
  <2>2. /\ \A i \in DOMAIN T : i \in DOMAIN T' /\ (i # item => T'[i] = T[i])
        /\ item \in DOMAIN T' /\ T'[item] = content
    BY <2>1 DEF With
  <2>3. item \notin {Files, PackDir} /\ \A m \in Nat : Copy(m) # item
    BY Names
  <2>4. Wanted(T', world) = Wanted(T, world)
    BY <1>2, <2>2, <2>3 DEF Wanted, Whole
  <2>5. \A m \in 0 .. r.n - 1 : Copy(m) \in DOMAIN T /\ T[Copy(m)].whole /\ m \in Nat
    BY <1>2, <1>3 DEF Packed, Whole
  <2> QED BY <1>3, <2>1, <2>2, <2>3, <2>4, <2>5 DEF Whole
<1>5. ASSUME NEW item \in {FileMap, Config}, NEW content, Write(p, item, content),
             NEW label \in Copied \ {"entry"}, Goto(p, label),
             label \in Mapped => FileMap \in DOMAIN T' /\ T'[FileMap] = [whole |-> TRUE, map |-> r.map, by |-> p],
             item # Config \/ ~content.whole \/ spoiled["trace"] \/ (Good(T', world) /\ label \in Archiving)
      PROVE  IInv'
  <2>1. /\ ProcType' /\ \A q \in Procs \ {p} : proc'[q] = proc[q]
        /\ proc'[p].pc = label /\ proc'[p].list = r.list /\ proc'[p].map = r.map
        /\ proc'[p].n = r.n
    BY <1>2, <1>5, PackGoto DEF Packing
  <2>2. /\ item \notin {Files, PackDir} /\ Copy(0) \in DOMAIN T' /\ Wanted(T', world) = Wanted(T, world)
        /\ \A m \in 0 .. r.n - 1 : Whole(T', Copy(m)) /\ T'[Copy(m)] = T[Copy(m)]
    BY <1>4, <1>5
  <2>3. label \notin {"copyopen", "copyclose"}
    BY DEF Copied, Mapped, Archiving
  <2>4. Packed(p, proc'[p], T', world)
    BY <1>2, <1>3, <1>5, <2>1, <2>2, <2>3 DEF Packed
  <2> HIDE DEF r
  <2>5. proc'[p].pc \in (Packing \ {"entry"}) \cup {"idle"}
    BY <2>1 DEF Packing
  <2> QED BY <1>1, <1>2, <1>5, <2>1, <2>2, <2>4, <2>5, PackWriteStep DEF r
<1>6. ~Torn.whole
  BY DEF Torn
<1>7. CASE PackMapOpen(p)
  BY <1>5, <1>6, <1>7, Names DEF PackMapOpen, Copied, Mapped, Archiving
<1>8. CASE PackMapClose(p)
  <2> DEFINE c == [whole |-> TRUE, map |-> r.map, by |-> p]
  <2>1. Write(p, FileMap, c) /\ Goto(p, "fullopen")
    BY <1>8 DEF PackMapClose
  <2>2. FileMap \in DOMAIN T' /\ T'[FileMap] = c
    BY <1>4, <2>1
  <2> QED BY <1>5, <2>1, <2>2, Names DEF Copied, Mapped
<1>9. r.pc \in Mapped => FileMap \in DOMAIN T /\ T[FileMap] = [whole |-> TRUE, map |-> r.map, by |-> p]
  BY <1>2 DEF Packed
<1>10. CASE PackFullOpen(p)
  <2>1. Write(p, Config, Torn) /\ Goto(p, "fullclose") /\ r.pc = "fullopen"
    BY <1>10 DEF PackFullOpen, At
  <2>2. FileMap \in DOMAIN T' /\ T'[FileMap] = [whole |-> TRUE, map |-> r.map, by |-> p]
    BY <1>4, <1>9, <2>1, Names DEF Mapped
  <2> QED BY <1>5, <1>6, <2>1, <2>2 DEF Copied, Mapped
<1>11. CASE PackFullClose(p)
  <2> DEFINE c == [whole |-> TRUE, mode |-> "full"]
             fm == [whole |-> TRUE, map |-> r.map, by |-> p]
  <2>1. Write(p, Config, c) /\ (Goto(p, "archive") \/ End(p)) /\ r.pc = "fullclose"
    BY <1>11 DEF PackFullClose, At
  <2>2. FileMap \in DOMAIN T' /\ T'[FileMap] = fm
    BY <1>4, <1>9, <2>1, Names DEF Mapped
  <2>3. fm.whole /\ fm.map = r.map /\ fm.by = p
    OBVIOUS
  <2> HIDE DEF fm, c
  <2>4. /\ Copy(0) \in DOMAIN T' /\ Wanted(T', world) = Wanted(T, world)
        /\ \A m \in 0 .. r.n - 1 : Whole(T', Copy(m)) /\ T'[Copy(m)] = T[Copy(m)]
        /\ Config \notin {Files, PackDir} /\ (Env \in DOMAIN T => Env \in DOMAIN T')
    BY <1>4, <2>1
  <2>5. spoiled["trace"] \/ Good(T', world)
    <3>1. ASSUME ~spoiled["trace"] PROVE Good(T', world)
      <4>1. Env \in DOMAIN T'
        BY <1>2, <2>4, <3>1 DEF IInv, TraceInv, Contents
      <4>2. \A path \in DOMAIN r.map : r.map[path] \in 0 .. r.n - 1 /\ T[Copy(r.map[path])].path = path
        BY <1>2 DEF Packed
      <4>3. \A m \in 0 .. r.n - 1 : T[Copy(m)].by = p
        BY <1>2 DEF Packed
      <4>4. 0 \in 0 .. r.n - 1
        BY <1>3
      <4>5. Launchable(T')
        <5>1. Whole(T', FileMap) /\ Whole(T', Copy(0))
          BY <2>2, <2>3, <2>4, <4>4 DEF Whole
        <5> QED BY <2>2, <2>3, <2>4, <4>1, <4>2, <5>1 DEF Launchable
      <4>6. \A path \in Wanted(T', world) : path \in DOMAIN r.map
        <5>1. Range(<<>>) = {}
          BY DEF Range
        <5> QED BY <1>2, <1>3, <2>4, <5>1 DEF Packed
      <4> QED BY <2>2, <2>3, <2>4, <4>2, <4>3, <4>5, <4>6 DEF Good
    <3> QED BY <3>1
  <2>6. CASE Goto(p, "archive")
    BY <1>5, <2>1, <2>2, <2>5, <2>6 DEF Copied, Mapped, Archiving, fm
  <2>7. CASE End(p)
    <3>1. ProcType' /\ proc'[p] = Idle /\ \A q \in Procs \ {p} : proc'[q] = proc[q]
      BY <2>7, EndFacts DEF IInv
    <3>2. proc'[p].pc = "idle" /\ ~Claims(proc'[p])
      BY <3>1, IdleFacts
    <3>3. "idle" \notin Packing
      BY DEF Packing, Copied, Mapped, Archiving
    <3> HIDE DEF r
    <3> QED BY <1>1, <1>2, <2>1, <2>4, <2>5, <3>1, <3>2, <3>3, PackWriteStep DEF r
  <2> QED BY <2>1, <2>6, <2>7
<1> QED BY <1>7, <1>8, <1>10, <1>11

(***************************************************************************)
(* Steps with no other command on the trace directory                      *)
(***************************************************************************)

\* The trace directory is made, removed or half removed while nobody else works
\* on it.
LEMMA AloneStep ==
  ASSUME IInv, NEW p \in Procs, ProcType', DirsType', Absent', Contents', C' = C,
         spoiled'["copy"] = spoiled["copy"], "copy" \in there' <=> "copy" \in there,
         UNCHANGED <<world, archive, archived>>,
         \A q \in Procs \ {p} : proc'[q] = proc[q],
         \A q \in Procs \ {p} : proc[q].pc \in {"idle", "mkdir"} \/ proc[q].dir = "copy",
         proc'[p].pc \in {"idle", "mkdir", "config"},
         proc'[p].pc = "config" => ~Whole(T', Files),
         spoiled'["trace"] \/ ~IsFull(T')
  PROVE  IInv'
<1>1. \A q \in Procs \ {p} : proc'[q].pc \in {"idle", "mkdir"} \/ proc'[q].pc \notin OnTrace
  BY DEF IInv, ProcType, Locals
<1>2. \A q \in Procs \ {p} : proc'[q].pc \notin Recording \cup Packing /\ ~Claims(proc'[q]) /\ proc'[q].pc # "entry"
  BY <1>1 DEF Claims, OnTrace, Recording, Packing, Copied, Mapped, Archiving
<1>3. proc'[p].pc \notin Packing /\ ~Claims(proc'[p]) /\ proc'[p].pc \notin {"entry", "unpack", "launch"}
  BY DEF Claims, Packing, Copied, Mapped, Archiving
<1>4. OneRecorder'
  BY <1>2, <1>3 DEF OneRecorder, Recording
<1>5. OneClaim' /\ AllPacked'
  BY <1>2, <1>3 DEF OneClaim, AllPacked
<1>6. FullLast'
  BY <1>2, <1>3 DEF FullLast, Good
<1>7. Launching'
  BY <1>3 DEF IInv, Launching
<1>8. ArchiveInv'
  BY <1>2, <1>3 DEF IInv, ArchiveInv
<1>9. CopyInv'
  BY <1>3 DEF IInv, CopyInv
<1> QED BY <1>4, <1>5, <1>6, <1>7, <1>8, <1>9 DEF IInv, TraceInv

\* The directory is made; a record that was faster ends this one.
LEMMA RecordMkdirStep ==
  ASSUME IInv, NEW p \in Procs, RecordMkdir(p)
  PROVE  IInv'
<1>1. UNCHANGED <<world, archive, archived>> /\ proc[p].pc = "mkdir" /\ Locals(proc[p])
  BY DEF RecordMkdir, At, IInv, ProcType
<1>2. CASE "trace" \in there
  BY <1>1, <1>2, EndStep DEF RecordMkdir
<1>3. CASE "trace" \notin there
  <2> DEFINE new == With(With(Empty, Buffers, TRUE), Env, TRUE)
  <2>1. /\ there' = there \cup {"trace"} /\ items' = [items EXCEPT !["trace"] = new]
        /\ spoiled' = [spoiled EXCEPT !["trace"] = FALSE] /\ Goto(p, "config")
    BY <1>3 DEF RecordMkdir
  <2>2. DOMAIN new = {Buffers, Env} /\ IsFcn(new)
    BY DEF With, Empty, IsFcn
  <2>3. Config \notin {Buffers, Env} /\ Files \notin {Buffers, Env} /\ PackDir \notin {Buffers, Env}
    BY DEF Config, Files, PackDir, Buffers, Env
  <2> HIDE DEF new
  <2>4. T' = new /\ C' = C /\ IsFcn(items') /\ DOMAIN items' = Dirs
    BY <2>1 DEF T, C, IInv, DirsType, Dirs, IsFcn
  <2>5. IsFcn(spoiled') /\ DOMAIN spoiled' = Dirs /\ spoiled'["copy"] = spoiled["copy"]
    BY <2>1 DEF IInv, DirsType, Dirs, IsFcn
  <2>6. DirsType'
    BY <1>1, <2>2, <2>4, <2>5 DEF IInv, DirsType
  <2>7. /\ \A q \in Procs \ {p} : proc'[q] = proc[q]
        /\ IsFcn(proc') /\ DOMAIN proc' = Procs /\ DOMAIN proc'[p] = DOMAIN proc[p]
        /\ proc'[p].pc = "config" /\ proc'[p].dir = proc[p].dir /\ proc'[p].mode = proc[p].mode
        /\ proc'[p].list = proc[p].list /\ proc'[p].map = proc[p].map /\ proc'[p].n = proc[p].n
    BY <2>1, GotoFacts DEF IInv
  <2>8. Locals(proc'[p])
    BY <1>1, <2>7 DEF Locals, Labels, OnTrace, Recording, Packing, Copied, Mapped, Archiving
  <2>9. ProcType'
    BY <2>7, <2>8 DEF IInv, ProcType
  <2>10. ~Whole(T', Files) /\ ~IsFull(T')
    BY <2>2, <2>3, <2>4 DEF Whole, IsFull
  <2>11. Absent' /\ Contents'
    BY <2>1, <2>2, <2>3, <2>4, <2>10 DEF Absent, Contents
  <2>12. \A q \in Procs : proc[q].pc \in {"idle", "mkdir"} \/ proc[q].dir = "copy"
    BY <1>3 DEF IInv, TraceInv, Absent
  <2>13. "copy" \in there' <=> "copy" \in there
    BY <2>1
  <2> QED BY <1>1, <2>4, <2>5, <2>6, <2>7, <2>9, <2>10, <2>11, <2>12, <2>13, AloneStep
<1> QED BY <1>2, <1>3

\* Nobody works on the trace directory.
LEMMA Unused ==
  ASSUME Using("trace") = {}
  PROVE  \A q \in Procs : proc[q].pc = "idle" \/ proc[q].dir # "trace"
BY DEF Using, At

\* record --override removes the directory.
LEMMA RecordOverrideStep ==
  ASSUME IInv, NEW p \in Procs, NEW mode \in {"traceOnly", "default"}, RecordStart(p, TRUE, mode)
  PROVE  IInv'
<1> DEFINE r == [Idle EXCEPT !.pc = "mkdir", !.mode = mode]
<1>1. /\ UNCHANGED <<world, spoiled, archive, archived>> /\ Using("trace") = {}
      /\ proc' = [proc EXCEPT ![p] = r]
      /\ there' = there \ {"trace"} /\ items' = [items EXCEPT !["trace"] = Empty]
  BY DEF RecordStart
<1>2. /\ DOMAIN r = DOMAIN Idle /\ r.list = Idle.list /\ r.map = Idle.map /\ r.n = Idle.n /\ r.dir = "trace"
      /\ r.pc = "mkdir" /\ r.mode = mode
  BY DEF Idle
<1> HIDE DEF r
<1>3. Locals(r)
  BY <1>2, StartLocals DEF Dirs
<1>4. ProcType' /\ proc'[p] = r /\ \A q \in Procs \ {p} : proc'[q] = proc[q]
  BY <1>1, <1>3, Replaced DEF IInv
<1>5. T' = Empty /\ C' = C /\ IsFcn(items') /\ DOMAIN items' = Dirs
  BY <1>1 DEF T, C, IInv, DirsType, Dirs, IsFcn
<1>6. DOMAIN Empty = {} /\ IsFcn(Empty)
  BY DEF Empty, IsFcn
<1>7. DirsType'
  BY <1>1, <1>5, <1>6 DEF IInv, DirsType
<1>8. ~Whole(T', Files) /\ ~IsFull(T')
  BY <1>5, <1>6 DEF Whole, IsFull
<1>9. \A q \in Procs \ {p} : proc[q].pc = "idle" \/ proc[q].dir = "copy"
  BY <1>1, Unused DEF IInv, ProcType, Locals, Dirs
<1>10. Absent' /\ Contents'
  BY <1>1, <1>2, <1>4, <1>5, <1>6, <1>8, <1>9 DEF Absent, Contents
<1>11. "copy" \in there' <=> "copy" \in there
  BY <1>1
<1> QED BY <1>1, <1>2, <1>4, <1>5, <1>7, <1>8, <1>9, <1>10, <1>11, AloneStep

\* record --override is killed while it removes the directory.
LEMMA RemoveKilledStep ==
  ASSUME IInv, NEW p \in Procs, RemoveKilled(p)
  PROVE  IInv'
<1>1. /\ UNCHANGED <<world, there, archive, archived, proc>> /\ Using("trace") = {} /\ "trace" \in there
      /\ spoiled' = [spoiled EXCEPT !["trace"] = TRUE]
  BY DEF RemoveKilled
<1>2. PICK left \in SUBSET DOMAIN T : items' = [items EXCEPT !["trace"] = [i \in left |-> @[i]]]
  BY DEF RemoveKilled, T
<1>3. T' = [i \in left |-> T[i]] /\ C' = C /\ IsFcn(items') /\ DOMAIN items' = Dirs
  BY <1>2 DEF T, C, IInv, DirsType, Dirs, IsFcn
<1>4. IsFcn(T') /\ DOMAIN T' = left /\ \A i \in left : T'[i] = T[i]
  BY <1>3 DEF IsFcn
<1>5. IsFcn(spoiled') /\ DOMAIN spoiled' = Dirs /\ spoiled'["copy"] = spoiled["copy"] /\ spoiled'["trace"]
  BY <1>1 DEF IInv, DirsType, Dirs, IsFcn
<1>6. DirsType' /\ ProcType'
  BY <1>1, <1>3, <1>4, <1>5 DEF IInv, DirsType, ProcType
<1>7. \A q \in Procs : proc[q].pc = "idle" \/ proc[q].dir = "copy"
  BY <1>1, Unused DEF IInv, ProcType, Locals, Dirs
<1>8. Absent' /\ Contents'
  BY <1>1, <1>4, <1>5 DEF Absent, Contents, Whole, IInv, TraceInv
<1>9. proc[p].pc = "idle"
  BY DEF RemoveKilled, Command, At
<1> QED BY <1>1, <1>3, <1>5, <1>6, <1>7, <1>8, <1>9, AloneStep

(***************************************************************************)
(* The archive and the directory restored from it                          *)
(***************************************************************************)

\* A sequence that grows.
LEMMA AppendFacts ==
  ASSUME NEW s, s \in Seq(Range(s)), NEW e
  PROVE  /\ Append(s, e) \in Seq(Range(Append(s, e)))
         /\ Len(s) \in Nat /\ DOMAIN s = 1 .. Len(s)
         /\ Len(Append(s, e)) = Len(s) + 1 /\ DOMAIN Append(s, e) = 1 .. Len(s) + 1
         /\ \A k \in 1 .. Len(s) : Append(s, e)[k] = s[k]
         /\ Append(s, e)[Len(s) + 1] = e
<1>1. s \in Seq(Range(s) \cup {e}) /\ e \in Range(s) \cup {e}
  OBVIOUS
<1>2. /\ Append(s, e) \in Seq(Range(s) \cup {e})
      /\ Len(s) \in Nat /\ DOMAIN s = 1 .. Len(s)
      /\ Len(Append(s, e)) = Len(s) + 1 /\ DOMAIN Append(s, e) = 1 .. Len(s) + 1
      /\ \A k \in 1 .. Len(s) : Append(s, e)[k] = s[k]
      /\ Append(s, e)[Len(s) + 1] = e
  BY <1>1, AppendProperties
<1>3. \A k \in DOMAIN Append(s, e) : Append(s, e)[k] \in Range(Append(s, e))
  BY DEF Range
<1>4. Append(s, e) \in Seq(Range(Append(s, e)))
  BY <1>2, <1>3
<1> QED BY <1>2, <1>4

\* A pack that archives goes on.
LEMMA ArchiverGoes ==
  ASSUME IInv, NEW p \in Procs, proc[p].pc \in Archiving, NEW label \in Archiving, Goto(p, label),
         UNCHANGED <<world, there, items, spoiled>>
  PROVE  ProcType' /\ DirsType' /\ TraceInv' /\ Launching' /\ proc'[p].pc = label
         /\ \A q \in Procs \ {p} : proc'[q] = proc[q] /\ proc[q].pc # "entry"
<1>1. T' = T /\ C' = C
  BY DEF T, C
<1>2. proc[p].pc \in Packing /\ label \in Packing /\ Claims(proc[p])
  BY DEF Packing, Copied, Mapped, Archiving, Claims
<1>3. "trace" \in there /\ Whole(T, Files) /\ Packed(p, proc[p], T, world)
  BY <1>2, Packer
<1>4. /\ ProcType' /\ \A q \in Procs \ {p} : proc'[q] = proc[q]
      /\ proc'[p].pc = label /\ proc'[p].list = proc[p].list /\ proc'[p].map = proc[p].map
      /\ proc'[p].n = proc[p].n
  BY <1>2, PackGoto
<1>5. Packed(p, proc'[p], T, world)
  BY <1>3, <1>4 DEF Packed, Copied, Mapped, Archiving
<1>6. TraceInv'
  <2>1. proc'[p].pc \notin Recording
    BY <1>4 DEF Recording, Archiving
  <2> QED BY <1>1, <1>2, <1>3, <1>4, <1>5, <2>1, TraceKept
<1>7. DirsType'
  BY <1>1 DEF IInv, DirsType
<1>8. Launching'
  BY <1>1, <1>4 DEF IInv, Launching, Archiving
<1>9. \A q \in Procs \ {p} : proc[q].pc # "entry"
  BY <1>2 DEF IInv, TraceInv, OneClaim, Claims, Copied, Mapped, Archiving
<1> QED BY <1>4, <1>6, <1>7, <1>8, <1>9

\* The archive is opened.
LEMMA ArchiveOpenStep ==
  ASSUME IInv, NEW p \in Procs, ArchiveOpen(p)
  PROVE  IInv'
<1>1. /\ UNCHANGED <<world, there, items, spoiled, archived>> /\ proc[p].pc = "archive"
      /\ Goto(p, "entry") /\ Using("copy") = {}
  BY DEF ArchiveOpen, At
<1>2. PICK o \in DirOrders : archive' = [there |-> TRUE, whole |-> FALSE, order |-> o, content |-> <<>>]
  BY DEF ArchiveOpen
<1>3. ProcType' /\ DirsType' /\ TraceInv' /\ Launching' /\ proc'[p].pc = "entry"
      /\ \A q \in Procs \ {p} : proc'[q] = proc[q] /\ proc[q].pc # "entry"
  BY <1>1, ArchiverGoes DEF Archiving
<1>4. ~archive'.whole /\ archive'.content = <<>> /\ DOMAIN archive' = {"there", "whole", "order", "content"}
  BY <1>2
<1>5. ArchiveInv'
  <2>1. DOMAIN <<>> = {} /\ <<>> \in Seq(Range(<<>>))
    OBVIOUS
  <2>2. ArchiveType(archive')
    BY <1>4, <2>1 DEF ArchiveType
  <2>3. Stored(archive', T')
    BY <1>4, <2>1 DEF Stored
  <2> QED BY <1>4, <2>2, <2>3 DEF ArchiveInv
<1>6. CopyInv'
  <2>1. \A q \in Procs : proc'[q].pc # "unpack"
    <3>1. \A q \in Procs : proc[q].pc = "idle" \/ proc[q].dir # "copy"
      BY <1>1 DEF Using, At
    <3>2. \A q \in Procs : proc[q].pc # "unpack"
      BY <3>1 DEF IInv, ProcType, Locals
    <3> QED BY <1>3, <3>2
  <2> QED BY <1>1, <2>1 DEF IInv, CopyInv, C
<1> QED BY <1>3, <1>5, <1>6 DEF IInv

\* An entry is written.  A command may already be unpacking what is there.
LEMMA ArchiveEntryStep ==
  ASSUME IInv, NEW p \in Procs, ArchiveEntry(p)
  PROVE  IInv'
<1>1. UNCHANGED <<world, there, items, spoiled, archived, proc>> /\ proc[p].pc = "entry" /\ T' = T /\ C' = C
  BY DEF ArchiveEntry, At, T, C
<1>2. PICK i \in DOMAIN T \ Entries : archive' = [archive EXCEPT !.content = Append(@, <<i, T[i]>>)]
  BY DEF ArchiveEntry, T
<1> DEFINE e == <<i, T[i]>>
           s == archive.content
<1>3. ArchiveType(archive) /\ ~archive.whole /\ Stored(archive, T)
  BY <1>1 DEF IInv, ArchiveInv
<1>4. e[1] = i /\ e[2] = T[i]
  OBVIOUS
<1> HIDE DEF e
<1>5. /\ DOMAIN archive' = {"there", "whole", "order", "content"}
      /\ archive'.whole = archive.whole /\ archive'.content = Append(s, e)
  BY <1>2, <1>3 DEF ArchiveType, e
<1>6. /\ Append(s, e) \in Seq(Range(Append(s, e)))
      /\ Len(s) \in Nat /\ DOMAIN s = 1 .. Len(s)
      /\ Len(Append(s, e)) = Len(s) + 1 /\ DOMAIN Append(s, e) = 1 .. Len(s) + 1
      /\ \A k \in 1 .. Len(s) : Append(s, e)[k] = s[k]
      /\ Append(s, e)[Len(s) + 1] = e
  BY <1>3, AppendFacts DEF ArchiveType
<1>7. \A k \in 1 .. Len(s) : Item(archive', k) = Item(archive, k) /\ archive'.content[k] = s[k] /\ k \in DOMAIN s
  BY <1>5, <1>6 DEF Item
<1>8. Item(archive', Len(s) + 1) = i /\ archive'.content[Len(s) + 1][2] = T[i]
  BY <1>4, <1>5, <1>6 DEF Item
<1>9. \A k \in DOMAIN s : Item(archive, k) # i
  BY DEF Entries, Item
<1>10. DOMAIN archive'.content = 1 .. Len(s) + 1 /\ \A k \in DOMAIN archive'.content : k \in 1 .. Len(s) \/ k = Len(s) + 1
  BY <1>5, <1>6
<1>11. ArchiveType(archive')
  BY <1>3, <1>5, <1>6, <1>7, <1>8, <1>9, <1>10 DEF ArchiveType
<1>12. Stored(archive', T)
  BY <1>3, <1>7, <1>8, <1>10 DEF Stored
<1>13. ArchiveInv'
  BY <1>1, <1>3, <1>5, <1>11, <1>12 DEF ArchiveInv
<1>14. ASSUME NEW q \in Procs, proc[q].pc = "unpack" PROVE Unpacked(proc[q], archive', C)
  <2>1. Unpacked(proc[q], archive, C)
    BY <1>14 DEF IInv, CopyInv
  <2>2. proc[q].n \in 1 .. Len(s) + 1 /\ proc[q].n \in 1 .. Len(archive'.content) + 1
    BY <1>5, <1>6, <2>1 DEF Unpacked
  <2>3. \A k \in 1 .. proc[q].n - 1 : k \in 1 .. Len(s)
    BY <1>6, <2>2
  <2>4. {Item(archive', k) : k \in 1 .. proc[q].n - 1} = {Item(archive, k) : k \in 1 .. proc[q].n - 1}
    BY <1>7, <2>3
  <2> QED BY <1>7, <2>1, <2>2, <2>3, <2>4 DEF Unpacked
<1>15. CopyInv'
  BY <1>1, <1>14 DEF IInv, CopyInv
<1>16. ProcType' /\ DirsType' /\ Launching'
  BY <1>1 DEF IInv, ProcType, DirsType, Launching
<1>17. TraceInv'
  <2>1. Absent' /\ Contents' /\ OneRecorder' /\ OneClaim'
    BY <1>1 DEF IInv, TraceInv, Absent, Contents, OneRecorder, OneClaim
  <2>2. AllPacked' /\ FullLast'
    BY <1>1 DEF IInv, TraceInv, AllPacked, FullLast
  <2> QED BY <2>1, <2>2 DEF TraceInv
<1> QED BY <1>13, <1>15, <1>16, <1>17 DEF IInv

\* The archive is complete.
LEMMA ArchiveCloseStep ==
  ASSUME IInv, NEW p \in Procs, ArchiveClose(p)
  PROVE  IInv'
<1>1. /\ UNCHANGED <<world, there, items, spoiled>> /\ proc[p].pc = "entry" /\ T' = T /\ C' = C
      /\ End(p) /\ Entries = DOMAIN T /\ archive' = [archive EXCEPT !.whole = TRUE]
      /\ archived' = [items |-> T, spoiled |-> spoiled["trace"]]
  BY DEF ArchiveClose, At, T, C, AllEntries
<1>2. ArchiveType(archive) /\ Stored(archive, T)
  BY <1>1 DEF IInv, ArchiveInv
<1>3. archive'.content = archive.content /\ DOMAIN archive' = DOMAIN archive
  BY <1>1, <1>2 DEF ArchiveType
<1>4. archived'.items = T /\ archived'.spoiled = spoiled["trace"]
  BY <1>1
<1>5. ProcType' /\ proc'[p] = Idle /\ \A q \in Procs \ {p} : proc'[q] = proc[q]
  BY <1>1, EndFacts DEF IInv
<1>6. Idle.pc = "idle" /\ ~Claims(Idle)
  BY IdleFacts
<1>7. TraceInv'
  BY <1>1, <1>5, <1>6, TraceKept DEF Recording, Packing, Copied, Mapped, Archiving
<1>8. DirsType' /\ Launching'
  BY <1>1, <1>5, <1>6 DEF IInv, DirsType, Launching
<1>9. ArchiveInv'
  <2>1. \A q \in Procs : proc'[q].pc # "entry"
    <3>1. \A q \in Procs : proc[q].pc = "entry" => Claims(proc[q])
      BY DEF Claims, Copied, Mapped, Archiving
    <3> QED BY <1>1, <1>5, <1>6, <3>1 DEF IInv, TraceInv, OneClaim
  <2>2. ArchiveType(archive')
    BY <1>2, <1>3 DEF ArchiveType, Item
  <2>3. IsFcn(T) /\ (spoiled["trace"] \/ Good(T, world))
    BY DEF IInv, DirsType, TraceInv, FullLast
  <2>4. Stored(archive', T)
    BY <1>2, <1>3 DEF Stored, Item
  <2>5. Stores(archive', T)
    BY <1>1, <1>3 DEF Stores, Item, Entries
  <2> QED BY <1>1, <1>4, <2>1, <2>2, <2>3, <2>4, <2>5 DEF ArchiveInv
<1>10. CopyInv'
  <2>1. ASSUME NEW q \in Procs, proc'[q].pc = "unpack" PROVE Unpacked(proc'[q], archive', C')
    <3>1. proc'[q] = proc[q] /\ Unpacked(proc[q], archive, C)
      BY <1>5, <1>6, <2>1 DEF IInv, CopyInv
    <3> QED BY <1>1, <1>3, <3>1 DEF Unpacked, Item
  <2> QED BY <1>1, <1>5, <1>6, <2>1 DEF IInv, CopyInv
<1> QED BY <1>5, <1>7, <1>8, <1>9, <1>10 DEF IInv

\* unpack starts: the output directory is made.
LEMMA UnpackStartStep ==
  ASSUME IInv, NEW p \in Procs, UnpackStart(p)
  PROVE  IInv'
<1>1. UNCHANGED <<world, archive, archived>> /\ proc[p].pc = "idle"
  BY DEF UnpackStart, Command, At
<1>2. CASE UNCHANGED <<proc, there, items, spoiled>>
  BY <1>1, <1>2, RefusedStep
<1>3. CASE ~UNCHANGED <<proc, there, items, spoiled>>
  <2> DEFINE r == [Idle EXCEPT !.pc = "unpack", !.dir = "copy", !.n = 1]
  <2>1. /\ proc' = [proc EXCEPT ![p] = r] /\ "copy" \notin there /\ there' = there \cup {"copy"}
        /\ items' = [items EXCEPT !["copy"] = Empty] /\ spoiled' = [spoiled EXCEPT !["copy"] = TRUE]
    BY <1>3 DEF UnpackStart
  <2>2. /\ DOMAIN r = DOMAIN Idle /\ r.list = Idle.list /\ r.map = Idle.map /\ r.n = 1 /\ r.dir = "copy"
        /\ r.pc = "unpack"
    BY DEF Idle
  <2> HIDE DEF r
  <2>3. Locals(r) /\ ~Claims(r) /\ r.pc \notin Recording \cup Packing
    BY <2>2, IdleFacts DEF Locals, Claims, Labels, Dirs, OnTrace, Recording, Packing, Copied, Mapped, Archiving
  <2>4. ProcType' /\ proc'[p] = r /\ \A q \in Procs \ {p} : proc'[q] = proc[q]
    BY <2>1, <2>3, Replaced DEF IInv
  <2>5. C' = Empty /\ T' = T /\ IsFcn(items') /\ DOMAIN items' = Dirs
    BY <2>1 DEF T, C, IInv, DirsType, Dirs, IsFcn
  <2>6. IsFcn(spoiled') /\ DOMAIN spoiled' = Dirs /\ spoiled'["trace"] = spoiled["trace"] /\ spoiled'["copy"]
    BY <2>1 DEF IInv, DirsType, Dirs, IsFcn
  <2>7. DOMAIN Empty = {} /\ IsFcn(Empty)
    BY DEF Empty, IsFcn
  <2>8. DirsType'
    BY <1>1, <2>5, <2>6, <2>7 DEF IInv, DirsType
  <2>9. TraceInv'
    BY <1>1, <2>1, <2>2, <2>3, <2>4, <2>5, <2>6, TraceKept
  <2>10. C = Empty /\ ~IsFull(C)
    BY <2>1, <2>7 DEF IInv, CopyInv, IsFull, Whole
  <2>11. Launching'
    BY <2>2, <2>4, <2>5, <2>6, <2>10 DEF IInv, Launching
  <2>12. ArchiveInv'
    BY <1>1, <2>2, <2>4, <2>5 DEF IInv, ArchiveInv
  <2>13. CopyInv'
    <3>1. \A q \in Procs : proc[q].pc # "unpack"
      BY <2>1 DEF IInv, CopyInv
    <3>2. Len(archive.content) \in Nat
      BY DEF IInv, ArchiveInv, ArchiveType
    <3>3. Unpacked(r, archive, Empty)
      BY <2>2, <2>7, <3>2 DEF Unpacked
    <3> QED BY <1>1, <2>1, <2>4, <2>5, <2>6, <3>1, <3>3 DEF CopyInv
  <2> QED BY <2>4, <2>8, <2>9, <2>11, <2>12, <2>13 DEF IInv
<1> QED BY <1>2, <1>3

\* An entry is read and its file written.
LEMMA UnpackEntryStep ==
  ASSUME IInv, NEW p \in Procs, UnpackEntry(p)
  PROVE  IInv'
<1> DEFINE r == proc[p]
           s == archive.content
<1>1. /\ UNCHANGED <<world, there, spoiled, archive, archived>> /\ r.pc = "unpack" /\ r.n \in DOMAIN s
      /\ proc' = [proc EXCEPT ![p].n = @ + 1] /\ Write(p, Item(archive, r.n), s[r.n][2])
  BY DEF UnpackEntry, OnlyItems, At, Item
<1>2. Locals(r) /\ r.dir = "copy" /\ Unpacked(r, archive, C) /\ "copy" \in there /\ spoiled["copy"]
  BY <1>1 DEF IInv, ProcType, Locals, CopyInv
<1>3. Len(s) \in Nat /\ DOMAIN s = 1 .. Len(s) /\ ArchiveType(archive)
  BY DEF IInv, ArchiveInv, ArchiveType
<1>4. T' = T /\ C' = With(C, Item(archive, r.n), s[r.n][2]) /\ IsFcn(items') /\ DOMAIN items' = Dirs
  BY <1>1, <1>2 DEF Write, T, C, IInv, DirsType, Dirs, IsFcn
<1>5. DirsType'
  <2>1. IsFcn(C')
    BY <1>4 DEF With, IsFcn
  <2> QED BY <1>1, <1>4, <2>1 DEF IInv, DirsType
<1>6. /\ \A q \in Procs \ {p} : proc'[q] = proc[q]
      /\ IsFcn(proc') /\ DOMAIN proc' = Procs /\ DOMAIN proc'[p] = DOMAIN r
      /\ proc'[p].pc = "unpack" /\ proc'[p].dir = r.dir /\ proc'[p].mode = r.mode /\ proc'[p].list = r.list
      /\ proc'[p].map = r.map /\ proc'[p].n = r.n + 1
  BY <1>1, <1>2 DEF IInv, ProcType, Locals, IsFcn
<1>7. Locals(proc'[p]) /\ ~Claims(proc'[p]) /\ proc'[p].pc \notin Recording \cup Packing
  BY <1>1, <1>2, <1>6 DEF Locals, Claims, OnTrace, Recording, Packing, Copied, Mapped, Archiving
<1>8. ProcType'
  BY <1>6, <1>7 DEF IInv, ProcType
<1>9. TraceInv'
  BY <1>1, <1>2, <1>4, <1>6, <1>7, TraceKept
<1>10. Item(archive, r.n) \notin DOMAIN C
  BY <1>1, <1>2, <1>3 DEF Unpacked, ArchiveType
<1>11. /\ DOMAIN C' = DOMAIN C \cup {Item(archive, r.n)} /\ C'[Item(archive, r.n)] = s[r.n][2]
       /\ \A i \in DOMAIN C : C'[i] = C[i]
  BY <1>4, <1>10 DEF With
<1>12. IsFull(C) => IsFull(C')
  BY <1>11 DEF IsFull, Whole
<1>13. Launching'
  BY <1>1, <1>4, <1>6, <1>12 DEF IInv, Launching
<1>14. ArchiveInv'
  BY <1>1, <1>4, <1>6 DEF IInv, ArchiveInv
<1>15. Unpacked(proc'[p], archive, C')
  <2>1. r.n \in 1 .. Len(s) /\ (r.n + 1) - 1 = r.n /\ r.n + 1 \in 1 .. Len(s) + 1
    BY <1>1, <1>3
  <2>2. \A k : k \in 1 .. r.n <=> k \in 1 .. r.n - 1 \/ k = r.n
    BY <2>1
  <2>3. DOMAIN C = {Item(archive, k) : k \in 1 .. r.n - 1}
    BY <1>2 DEF Unpacked
  <2>4. DOMAIN C' = {Item(archive, k) : k \in 1 .. r.n}
    BY <1>11, <2>2, <2>3
  <2>5. \A k \in 1 .. r.n : C'[Item(archive, k)] = s[k][2]
    <3>1. \A k \in 1 .. r.n - 1 : Item(archive, k) \in DOMAIN C /\ C[Item(archive, k)] = s[k][2]
      BY <1>2, <2>3 DEF Unpacked
    <3> QED BY <1>11, <2>2, <3>1
  <2> QED BY <1>6, <2>1, <2>4, <2>5 DEF Unpacked
<1>16. CopyInv'
  <2>1. \A q \in Procs \ {p} : proc[q].pc # "unpack"
    BY <1>1 DEF IInv, CopyInv
  <2> QED BY <1>1, <1>2, <1>6, <1>15, <2>1 DEF IInv, CopyInv
<1> QED BY <1>5, <1>8, <1>9, <1>13, <1>14, <1>16 DEF IInv

\* At the end of a complete archive the directory is the one that was archived.
LEMMA Restored ==
  ASSUME IInv, NEW p \in Procs, proc[p].pc = "unpack", proc[p].n > Len(archive.content), archive.whole
  PROVE  C = archived.items /\ (archived.spoiled \/ Good(C, world))
<1>1. Unpacked(proc[p], archive, C)
  BY DEF IInv, CopyInv
<1>2. /\ IsFcn(archived.items) /\ Stored(archive, archived.items) /\ Stores(archive, archived.items)
      /\ archived.spoiled \/ Good(archived.items, world)
  BY DEF IInv, ArchiveInv
<1>3. Len(archive.content) \in Nat /\ DOMAIN archive.content = 1 .. Len(archive.content)
  BY DEF IInv, ArchiveInv, ArchiveType
<1>4. 1 .. proc[p].n - 1 = DOMAIN archive.content
  BY <1>1, <1>3 DEF Unpacked
<1>5. DOMAIN C = DOMAIN archived.items
  BY <1>1, <1>2, <1>4 DEF Unpacked, Stores
<1>6. ASSUME NEW i \in DOMAIN C PROVE C[i] = archived.items[i]
  <2>1. PICK k \in DOMAIN archive.content : i = Item(archive, k)
    BY <1>1, <1>4 DEF Unpacked
  <2> QED BY <1>1, <1>2, <1>4, <2>1 DEF Unpacked, Stored
<1>7. IsFcn(C)
  BY DEF IInv, DirsType
<1>8. C = archived.items
  BY <1>2, <1>5, <1>6, <1>7 DEF IsFcn
<1> QED BY <1>2, <1>8

\* unpack reaches the end of the archive.
LEMMA UnpackDoneStep ==
  ASSUME IInv, NEW p \in Procs, UnpackDone(p)
  PROVE  IInv'
<1>1. /\ UNCHANGED <<world, there, items, archive, archived>> /\ T' = T /\ C' = C
      /\ proc[p].pc = "unpack" /\ proc[p].n > Len(archive.content) /\ End(p)
      /\ spoiled' = [spoiled EXCEPT !["copy"] = ~archive.whole \/ archived.spoiled]
  BY DEF UnpackDone, At, T, C
<1>2. /\ IsFcn(spoiled') /\ DOMAIN spoiled' = Dirs /\ spoiled'["trace"] = spoiled["trace"]
      /\ spoiled'["copy"] = (~archive.whole \/ archived.spoiled)
  BY <1>1 DEF IInv, DirsType, Dirs, IsFcn
<1>3. ProcType' /\ proc'[p] = Idle /\ \A q \in Procs \ {p} : proc'[q] = proc[q]
  BY <1>1, EndFacts DEF IInv
<1>4. Idle.pc = "idle" /\ ~Claims(Idle)
  BY IdleFacts
<1>5. TraceInv'
  BY <1>1, <1>2, <1>3, <1>4, TraceKept DEF Recording, Packing, Copied, Mapped, Archiving
<1>6. DirsType'
  BY <1>1, <1>2 DEF IInv, DirsType
<1>7. Launching'
  BY <1>1, <1>2, <1>3, <1>4 DEF IInv, Launching
<1>8. ArchiveInv'
  BY <1>1, <1>3, <1>4 DEF IInv, ArchiveInv
<1>9. CopyInv'
  <2>1. \A q \in Procs : proc'[q].pc # "unpack"
    BY <1>1, <1>3, <1>4 DEF IInv, CopyInv
  <2>2. spoiled'["copy"] \/ Good(C, world)
    BY <1>1, <1>2, Restored
  <2> QED BY <1>1, <2>1, <2>2 DEF IInv, CopyInv
<1> QED BY <1>3, <1>5, <1>6, <1>7, <1>8, <1>9 DEF IInv

\* A file of the program changes or goes: less is wanted.
LEMMA ChangeStep ==
  ASSUME IInv, NEW f \in FilePaths, Change(f)
  PROVE  IInv'
<1>1. UNCHANGED <<there, items, spoiled, archive, archived, proc>> /\ T' = T /\ C' = C /\ world[f] = "v1"
  BY DEF Change, T, C
<1>2. PICK v : world' = [world EXCEPT ![f] = v]
  BY DEF Change
<1>3. DOMAIN world' = FilePaths /\ \A x \in FilePaths : world'[x] # "gone" => world[x] # "gone"
  BY <1>1, <1>2 DEF IInv, DirsType
<1>4. \A dir : Wanted(dir, world') \subseteq Wanted(dir, world)
  BY <1>3 DEF Wanted
<1>5. \A dir : Good(dir, world) => Good(dir, world')
  BY <1>4 DEF Good
<1>6. ASSUME NEW q \in Procs, Packed(q, proc[q], T, world) PROVE Packed(q, proc[q], T, world')
  <2>1. Wanted(T, world') \subseteq Wanted(T, world)
    BY <1>4
  <2>2. \A path \in Wanted(T, world') : path \in DOMAIN proc[q].map \/ path \in Range(proc[q].list)
    BY <1>6, <2>1 DEF Packed
  <2> QED BY <1>6, <2>2 DEF Packed
<1>7. ProcType' /\ DirsType' /\ Launching'
  BY <1>1, <1>3 DEF IInv, ProcType, DirsType, Launching
<1>8. Absent' /\ Contents' /\ OneRecorder' /\ OneClaim'
  BY <1>1 DEF IInv, TraceInv, Absent, Contents, OneRecorder, OneClaim
<1>9. AllPacked' /\ FullLast'
  BY <1>1, <1>5, <1>6 DEF IInv, TraceInv, AllPacked, FullLast
<1>10. ArchiveInv' /\ CopyInv'
  BY <1>1, <1>5 DEF IInv, ArchiveInv, CopyInv
<1> QED BY <1>7, <1>8, <1>9, <1>10 DEF IInv, TraceInv

(***************************************************************************)
(* Theorems                                                                *)
(***************************************************************************)

\* Nothing has been recorded.
LEMMA InitInv == Init => IInv
<1> SUFFICES ASSUME Init PROVE IInv
  OBVIOUS
<1>1. \A p \in Procs : proc[p] = Idle
  BY DEF Init
<1>2. T = Empty /\ C = Empty /\ DOMAIN Empty = {} /\ IsFcn(Empty) /\ there = {}
  BY DEF Init, T, C, Dirs, Empty, IsFcn
<1>3. DirsType
  <2>1. IsFcn(items) /\ DOMAIN items = Dirs /\ DOMAIN spoiled = Dirs /\ IsFcn(spoiled)
    BY DEF Init, IsFcn
  <2>2. DOMAIN world = FilePaths
    BY DEF Init
  <2> QED BY <1>2, <2>1, <2>2 DEF DirsType
<1>4. ProcType
  <2>1. IsFcn(proc) /\ DOMAIN proc = Procs
    BY DEF Init, IsFcn
  <2> QED BY <1>1, <2>1, IdleFacts DEF ProcType
<1>5. \A p \in Procs : /\ proc[p].pc \notin Recording \cup Packing \cup {"launch", "entry", "unpack"}
                       /\ proc[p].pc = "idle" /\ ~Claims(proc[p])
  BY <1>1, IdleFacts DEF Recording, Packing, Copied, Mapped, Archiving
<1>6. ~IsFull(Empty) /\ ~Whole(Empty, Files)
  BY <1>2 DEF IsFull, Whole
<1>7. TraceInv
  <2>1. Absent /\ Contents
    BY <1>2, <1>5, <1>6 DEF Absent, Contents
  <2>2. OneRecorder /\ OneClaim
    BY <1>5 DEF OneRecorder, OneClaim
  <2>3. AllPacked /\ FullLast
    BY <1>2, <1>5, <1>6 DEF AllPacked, FullLast, Good
  <2> QED BY <2>1, <2>2, <2>3 DEF TraceInv
<1>8. ArchiveInv
  <2>1. /\ DOMAIN archive = {"there", "whole", "order", "content"}
        /\ ~archive.whole /\ archive.content = <<>>
    BY DEF Init
  <2>2. <<>> \in Seq(Range(<<>>)) /\ DOMAIN <<>> = {}
    OBVIOUS
  <2>3. ArchiveType(archive)
    BY <2>1, <2>2 DEF ArchiveType
  <2> QED BY <1>5, <2>1, <2>3 DEF ArchiveInv
<1>9. CopyInv /\ Launching
  BY <1>2, <1>5, <1>6 DEF CopyInv, Launching, Good
<1> QED BY <1>3, <1>4, <1>7, <1>8, <1>9 DEF IInv

\* Every step keeps the invariant.
LEMMA StepInv == IInv /\ [Next]_vars => IInv'
<1> SUFFICES ASSUME IInv, [Next]_vars PROVE IInv'
  OBVIOUS
<1>1. CASE UNCHANGED vars
  BY <1>1, RefusedStep DEF vars
<1>2. ASSUME NEW f \in FilePaths, Change(f) PROVE IInv'
  BY <1>2, ChangeStep
<1>3. ASSUME NEW p \in Procs, Record(p) PROVE IInv'
  <2>1. ASSUME NEW override \in BOOLEAN, NEW mode \in {"traceOnly", "default"}, RecordStart(p, override, mode)
        PROVE IInv'
    <3>1. CASE override = TRUE
      BY <2>1, <3>1, RecordOverrideStep
    <3>2. CASE override = FALSE
      BY <2>1, <3>2, RecordStartStep
    <3> QED BY <3>1, <3>2
  <2>2. CASE RecordThrows(p)
    BY <2>2, EndStep DEF RecordThrows, OnlyProc
  <2> QED BY <1>3, <2>1, <2>2, RemoveKilledStep, RecordMkdirStep, RecordFileStep, RecordRunStep DEF Record
<1>4. ASSUME NEW p \in Procs, Pack(p) PROVE IInv'
  <2>1. CASE PackFullClose(p) \/ PackMapOpen(p) \/ PackMapClose(p) \/ PackFullOpen(p)
    BY <2>1, PackFileStep
  <2>2. CASE ArchiveOpen(p) \/ ArchiveEntry(p) \/ ArchiveClose(p)
    BY <2>2, ArchiveOpenStep, ArchiveEntryStep, ArchiveCloseStep
  <2>3. CASE PackSkip(p) \/ PackFound(p) \/ PackCopy(p) \/ PackCopied(p) \/ PackLoopOver(p)
    BY <2>3, PackSkipStep, PackLoopStep, PackCopyStep, PackCopiedStep
  <2> QED BY <1>4, <2>1, <2>2, <2>3, PackStartStep, PackMkdirStep, PackReadStep DEF Pack
<1>5. ASSUME NEW p \in Procs, Unpack(p) PROVE IInv'
  <2>1. CASE UnpackCrash(p)
    BY <2>1, EndStep DEF UnpackCrash, OnlyProc
  <2> QED BY <1>5, <2>1, UnpackStartStep, UnpackEntryStep, UnpackDoneStep DEF Unpack
<1>6. ASSUME NEW p \in Procs, Replay(p) \/ Kill(p) PROVE IInv'
  <2>1. CASE ReplayLaunch(p) \/ Kill(p)
    BY <2>1, EndStep DEF ReplayLaunch, Kill, OnlyProc
  <2> QED BY <1>6, <2>1, LaunchStartStep DEF Replay
<1> QED BY <1>1, <1>2, <1>3, <1>4, <1>5, <1>6 DEF Next

\* The invariant of the trace directory, the archive and the restored directory
\* holds in every state, for any number of commands that overlap, are killed at
\* any step, and find the program's files changed.
THEOREM DirectoryInvariance == Spec => []IInv
BY InitInv, StepInv, PTL DEF Spec

\* A replay or debug that has read recordMode "full" finds the environment, the
\* map, the executable and every file of the map complete until it launches the
\* program (src/replay.cpp, src/debug.cpp), however many packs raced or were killed.
THEOREM PackedAlwaysLaunchable == Spec => []PackedLaunchable
<1>1. IInv => PackedLaunchable
  <2> SUFFICES ASSUME IInv, NEW p \in Procs, proc[p].pc = "launch", proc[p].mode = "full",
                      ~spoiled[proc[p].dir]
               PROVE  Launchable(items[proc[p].dir])
    BY DEF PackedLaunchable, At
  <2>1. CASE proc[p].dir = "trace"
    BY <2>1 DEF IInv, Launching, TraceInv, FullLast, Good, T
  <2>2. CASE proc[p].dir = "copy"
    BY <2>2 DEF IInv, Launching, CopyInv, Good, C
  <2>3. proc[p].dir \in Dirs
    BY DEF IInv, ProcType, Locals
  <2> QED BY <2>1, <2>2, <2>3 DEF Dirs
<1> QED BY <1>1, DirectoryInvariance, PTL

\* What Good says of the two directories.
LEMMA GoodDirs ==
  ASSUME IInv, NEW d \in Dirs, IsFull(items[d]), ~spoiled[d]
  PROVE  /\ Launchable(items[d])
         /\ \A path \in Wanted(items[d], world) :
              /\ path \in DOMAIN items[d][FileMap].map
              /\ items[d][Copy(items[d][FileMap].map[path])].path = path
         /\ \A path \in DOMAIN items[d][FileMap].map :
              items[d][Copy(items[d][FileMap].map[path])].by = items[d][FileMap].by
<1>1. Good(items[d], world)
  BY DEF IInv, TraceInv, FullLast, CopyInv, T, C, Dirs
<1> QED BY <1>1 DEF Good

\* In a packed directory each regular file the program opened, and its
\* executable, is redirected to its own copy unless it has gone (src/pack.cpp).
THEOREM FilesAlwaysPacked == Spec => []FilesPacked
<1>1. IInv => FilesPacked
  BY GoodDirs DEF FilesPacked, Wanted
<1> QED BY <1>1, DirectoryInvariance, PTL

\* The copies a map names were made by the pack that wrote the map, however
\* many packs saw no pack/ directory and went on (src/pack.cpp).
THEOREM AlwaysOnePacker == Spec => []OnePacker
<1>1. IInv => OnePacker
  BY GoodDirs DEF OnePacker
<1> QED BY <1>1, DirectoryInvariance, PTL

\* An unpack that reaches the end of a complete archive has restored the
\* directory that was archived (src/unpack.cpp), for any order of its files.
THEOREM UnpackRestores == Spec => RoundTrip
<1>1. IInv /\ [Next]_vars => [\A p \in Procs : UnpackDone(p) /\ archive.whole => items'["copy"] = archived.items]_vars
  <2> SUFFICES ASSUME IInv, NEW p \in Procs, UnpackDone(p), archive.whole
               PROVE  items'["copy"] = archived.items
    OBVIOUS
  <2>1. C = archived.items
    BY Restored DEF UnpackDone, At
  <2> QED BY <2>1 DEF UnpackDone, C
<1> QED BY <1>1, DirectoryInvariance, PTL DEF Spec, RoundTrip
=============================================================================
