--------------------------- MODULE TraceDirectory ---------------------------
(***************************************************************************)
(* The life of a trace directory: record creates it, pack adds the program *)
(* and its files and optionally writes an archive, unpack restores a       *)
(* directory from the archive, replay and debug start from either.         *)
(*                                                                         *)
(* Each command is a process of its own.  Commands overlap, any of them    *)
(* may be killed between two steps, and the files the program used change  *)
(* or disappear meanwhile.  A file being written is on disk incomplete     *)
(* until it is closed.  Two things a user does not do are left out: record *)
(* --override on a directory another command is working on, and writing an *)
(* archive while it is being unpacked.                                     *)
(*                                                                         *)
(* A directory is a function from items to contents; an item is a pair of  *)
(* a kind and a number, the number telling the copies in pack/ apart.      *)
(***************************************************************************)
EXTENDS Naturals, Sequences, FiniteSets, Functions

CONSTANTS
  Procs,        \* processes that run commands
  Exe,          \* the program's executable
  DevPaths,     \* paths below /dev, /sys and /proc
  OtherPaths,   \* paths that are not regular files
  FilePaths,    \* paths of regular files, the executable among them
  OpenLists,    \* what a run of the program may open, in order
  DirOrders,    \* orders in which the file system lists the kinds of items
  MaxCommands,  \* bound on the commands
  MaxChanges    \* bound on changes to the program's files

ASSUME PathsAssumption ==
  /\ Exe \in FilePaths
  /\ FilePaths \cap (DevPaths \cup OtherPaths) = {}
  /\ \A l \in OpenLists : l \in Seq(FilePaths \cup DevPaths \cup OtherPaths)

\* recursive_directory_iterator lists a directory right before its files.
ASSUME OrdersAssumption ==
  \A o \in DirOrders : \A k \in DOMAIN o :
    o[k] = "copy" => k > 1 /\ o[k - 1] = "pack"

VARIABLES
  world,     \* the contents of the program's regular files, or "gone"
  there,     \* which of the two directories exist
  items,     \* the contents of the directories
  spoiled,   \* a directory half removed or half unpacked (history)
  archive,   \* the archive file
  archived,  \* the directory when the archive was complete (history)
  proc,      \* the local variables of the processes
  commands,  \* commands started
  changes    \* changes made to the program's files

vars == <<world, there, items, spoiled, archive, archived, proc, commands, changes>>

\* The trace directory, and the one that unpack makes.
Dirs == {"trace", "copy"}

Buffers == <<"buffers", 0>>
Env     == <<"env", 0>>
Config  == <<"replay_config.json", 0>>
Files   == <<"files_config.json", 0>>
FileMap == <<"replay_file_map.json", 0>>
PackDir == <<"pack", 0>>
Copy(n) == <<"copy", n>>

Empty == <<>>
With(dir, item, content) ==
  [i \in DOMAIN dir \cup {item} |-> IF i = item THEN content ELSE dir[i]]

\* An item below pack/ needs the directory.
Closed(S) == \A i \in S : i[1] = "copy" => PackDir \in S

Torn == [whole |-> FALSE]
Whole(dir, item) == item \in DOMAIN dir /\ dir[item].whole

Idle == [pc |-> "idle", dir |-> "trace", mode |-> "default", list |-> <<>>,
         map |-> <<>>, n |-> 0, out |-> FALSE]

Init ==
  /\ world = [f \in FilePaths |-> "v1"]
  /\ there = {}
  /\ items = [d \in Dirs |-> Empty]
  /\ spoiled = [d \in Dirs |-> FALSE]
  /\ archive = [there |-> FALSE, whole |-> FALSE, order |-> <<>>, content |-> <<>>]
  /\ archived = [items |-> Empty, spoiled |-> FALSE]
  /\ proc = [p \in Procs |-> Idle]
  /\ commands = 0
  /\ changes = 0

At(p, label) == proc[p].pc = label
Goto(p, label) == proc' = [proc EXCEPT ![p].pc = label]
End(p) == proc' = [proc EXCEPT ![p] = Idle]
Write(p, item, content) ==
  items' = [items EXCEPT ![proc[p].dir] = With(@, item, content)]
OnlyProc == UNCHANGED <<world, there, items, spoiled, archive, archived, commands, changes>>
OnlyItems == UNCHANGED <<world, there, spoiled, archive, archived, commands, changes>>

\* A command starts.
Command(p) ==
  /\ At(p, "idle")
  /\ commands < MaxCommands
  /\ commands' = commands + 1

\* Processes that work on directory d.
Using(d) == {p \in Procs : ~At(p, "idle") /\ proc[p].dir = d}

(***************************************************************************)
(* record                                                                  *)
(***************************************************************************)

\* An output path that exists is removed, or ends the command.
RecordStart(p, override, mode) ==
  /\ Command(p)
  /\ override => Using("trace") = {}
  /\ IF "trace" \in there /\ ~override
       THEN UNCHANGED proc
       ELSE proc' = [proc EXCEPT ![p] = [Idle EXCEPT !.pc = "mkdir", !.mode = mode]]
  /\ there' = IF override THEN there \ {"trace"} ELSE there
  /\ items' = IF override THEN [items EXCEPT !["trace"] = Empty] ELSE items
  /\ UNCHANGED <<world, spoiled, archive, archived, changes>>

\* remove_all is interrupted: the kinds of items from some point of its
\* iteration on are left.
RemoveKilled(p) ==
  /\ Command(p)
  /\ Using("trace") = {}
  /\ "trace" \in there
  /\ \E o \in DirOrders : \E k \in DOMAIN o :
       LET left == {i \in DOMAIN items["trace"] : \E l \in k .. Len(o) : o[l] = i[1]}
       IN  /\ Closed(left)
           /\ items' = [items EXCEPT !["trace"] = [i \in left |-> @[i]]]
  /\ spoiled' = [spoiled EXCEPT !["trace"] = TRUE]
  /\ UNCHANGED <<world, there, archive, archived, proc, changes>>

\* The directory, buffers/ and env; another record may have been faster.
RecordMkdir(p) ==
  /\ At(p, "mkdir")
  /\ IF "trace" \in there
       THEN End(p) /\ UNCHANGED <<there, items, spoiled>>
       ELSE /\ there' = there \cup {"trace"}
            /\ items' = [items EXCEPT !["trace"] =
                           With(With(Empty, Buffers, TRUE), Env, TRUE)]
            /\ spoiled' = [spoiled EXCEPT !["trace"] = FALSE]
            /\ Goto(p, "config")
  /\ UNCHANGED <<world, archive, archived, commands, changes>>

\* which(): an executable that is not found ends the command.
RecordConfigOpen(p) ==
  /\ At(p, "config")
  /\ IF world[Exe] = "gone"
       THEN End(p) /\ UNCHANGED items
       ELSE Goto(p, "configclose") /\ Write(p, Config, Torn)
  /\ OnlyItems

RecordConfigClose(p) ==
  /\ At(p, "configclose")
  /\ Write(p, Config, [whole |-> TRUE, mode |-> proc[p].mode])
  /\ Goto(p, "run")
  /\ OnlyItems

\* The program runs under the tracer, which lists the files it opens.
RecordRun(p, list) ==
  /\ At(p, "run")
  /\ proc' = [proc EXCEPT ![p].pc = "files", ![p].list = list]
  /\ OnlyProc

\* The tracer throws: the command ends without the list.
RecordThrows(p) ==
  /\ At(p, "run")
  /\ End(p)
  /\ OnlyProc

RecordFilesOpen(p) ==
  /\ At(p, "files")
  /\ Write(p, Files, Torn)
  /\ Goto(p, "filesclose")
  /\ OnlyItems

\* The list is written whatever the program's exit code is.
RecordFilesClose(p) ==
  /\ At(p, "filesclose")
  /\ Write(p, Files, [whole |-> TRUE, list |-> proc[p].list])
  /\ End(p)
  /\ OnlyItems

(***************************************************************************)
(* pack                                                                    *)
(***************************************************************************)

\* A missing directory, or one that has pack/, is refused.
PackStart(p, out) ==
  /\ Command(p)
  /\ IF "trace" \in there /\ PackDir \notin DOMAIN items["trace"]
       THEN proc' = [proc EXCEPT ![p] = [Idle EXCEPT !.pc = "packdir", !.out = out]]
       ELSE UNCHANGED proc
  /\ UNCHANGED <<world, there, items, spoiled, archive, archived, changes>>

\* create_directory is content with a directory that is there by now.
PackMkdir(p) ==
  /\ At(p, "packdir")
  /\ Write(p, PackDir, TRUE)
  /\ Goto(p, "read")
  /\ OnlyItems

\* A list or a configuration that is missing or incomplete does not parse.
PackRead(p) ==
  /\ At(p, "read")
  /\ LET dir == items["trace"]
     IN  IF Whole(dir, Files) /\ Whole(dir, Config)
           THEN proc' = [proc EXCEPT ![p].pc = "copy",
                                     ![p].list = <<Exe>> \o dir[Files].list]
           ELSE End(p)
  /\ OnlyProc

\* Mutant: an existing copy is overwritten.
CopyMissing(p, path) == world[path] = "gone"
CopyFails(p, path) ==
  world[path] = "gone" \/ Copy(proc[p].n) \in DOMAIN items[proc[p].dir]

\* The executable is copied whatever it is called; the other paths are looked
\* at first.
IsCandidate(p, path) ==
  proc[p].n = 0 \/ (path \notin DevPaths \cup OtherPaths /\ world[path] # "gone")

PackSkip(p) ==
  /\ At(p, "copy")
  /\ proc[p].list # <<>>
  /\ ~IsCandidate(p, Head(proc[p].list))
  /\ proc' = [proc EXCEPT ![p].list = Tail(@)]
  /\ OnlyProc

\* The path was found to be a regular file.
PackFound(p) ==
  /\ At(p, "copy")
  /\ proc[p].list # <<>>
  /\ IsCandidate(p, Head(proc[p].list))
  /\ Goto(p, "copyopen")
  /\ OnlyProc

\* copy_file, to a new file named after the counter.
PackCopy(p) ==
  /\ At(p, "copyopen")
  /\ LET path == Head(proc[p].list)
     IN  IF CopyFails(p, path)
           THEN End(p) /\ UNCHANGED items
           ELSE Goto(p, "copyclose") /\ Write(p, Copy(proc[p].n), Torn)
  /\ OnlyItems

\* The copy is complete, and the map has the path's latest copy.
PackCopied(p) ==
  /\ At(p, "copyclose")
  /\ LET path == Head(proc[p].list)
     IN  /\ Write(p, Copy(proc[p].n),
                  [whole |-> TRUE, path |-> path, content |-> world[path], by |-> p])
         /\ proc' = [proc EXCEPT ![p].pc = "copy", ![p].list = Tail(@), ![p].n = @ + 1,
                                 ![p].map = With(@, path, proc[p].n)]
  /\ OnlyItems

\* The loop is over.  Mutants: a path that is skipped ends it; the map is
\* written last.
LoopBroken(p) == IF proc[p].list = <<>> THEN TRUE ELSE ~IsCandidate(p, Head(proc[p].list))
LoopOver(p) == proc[p].list = <<>>
MapLater == "fullopen"
AfterLoop == "mapopen"

PackLoopOver(p) ==
  /\ At(p, "copy")
  /\ LoopOver(p)
  /\ Goto(p, AfterLoop)
  /\ OnlyProc

PackMapOpen(p) ==
  /\ At(p, "mapopen")
  /\ Write(p, FileMap, Torn)
  /\ Goto(p, "mapclose")
  /\ OnlyItems

PackMapClose(p) ==
  /\ At(p, "mapclose")
  /\ Write(p, FileMap, [whole |-> TRUE, map |-> proc[p].map, by |-> p])
  /\ Goto(p, "fullopen")
  /\ OnlyItems

\* The configuration is rewritten with recordMode "full".
PackFullOpen(p) ==
  /\ At(p, "fullopen")
  /\ Write(p, Config, Torn)
  /\ Goto(p, "fullclose")
  /\ OnlyItems

PackFullClose(p) ==
  /\ At(p, "fullclose")
  /\ Write(p, Config, [whole |-> TRUE, mode |-> "full"])
  /\ IF proc[p].out THEN Goto(p, "archive") ELSE End(p)
  /\ OnlyItems

ArchiveOpen(p) ==
  /\ At(p, "archive")
  /\ Using("copy") = {}
  /\ \E o \in DirOrders :
       archive' = [there |-> TRUE, whole |-> FALSE, order |-> o, content |-> <<>>]
  /\ Goto(p, "entry")
  /\ UNCHANGED <<world, there, items, spoiled, archived, commands, changes>>

\* What the archive holds.
Entries == {archive.content[k][1] : k \in DOMAIN archive.content}

\* The iteration meets item i before item j.
Before(i, j) ==
  \/ \E k, l \in DOMAIN archive.order :
       k < l /\ archive.order[k] = i[1] /\ archive.order[l] = j[1]
  \/ i[1] = j[1] /\ i[2] < j[2]

\* One turn of the loop over the directory.
ArchiveEntry(p) ==
  /\ At(p, "entry")
  /\ \E i \in DOMAIN items["trace"] \ Entries :
       /\ \A j \in DOMAIN items["trace"] \ Entries : ~Before(j, i)
       /\ archive' = [archive EXCEPT !.content = Append(@, <<i, items["trace"][i]>>)]
  /\ UNCHANGED <<world, there, items, spoiled, archived, proc, commands, changes>>

\* Mutant: the last file is left out.
OneEntryShort == Cardinality(Entries) + 1 >= Cardinality(DOMAIN items["trace"])
AllEntries == Entries = DOMAIN items["trace"]

ArchiveClose(p) ==
  /\ At(p, "entry")
  /\ AllEntries
  /\ archive' = [archive EXCEPT !.whole = TRUE]
  /\ archived' = [items |-> items["trace"], spoiled |-> spoiled["trace"]]
  /\ End(p)
  /\ UNCHANGED <<world, there, items, spoiled, commands, changes>>

(***************************************************************************)
(* unpack                                                                  *)
(***************************************************************************)

\* The archive must exist and the output must not.
UnpackStart(p) ==
  /\ Command(p)
  /\ IF archive.there /\ "copy" \notin there
       THEN /\ proc' = [proc EXCEPT ![p] = [Idle EXCEPT !.pc = "unpack", !.dir = "copy", !.n = 1]]
            /\ there' = there \cup {"copy"}
            /\ items' = [items EXCEPT !["copy"] = Empty]
            /\ spoiled' = [spoiled EXCEPT !["copy"] = TRUE]
       ELSE UNCHANGED <<proc, there, items, spoiled>>
  /\ UNCHANGED <<world, archive, archived, changes>>

\* One turn of parseV0.
UnpackEntry(p) ==
  /\ At(p, "unpack")
  /\ proc[p].n \in DOMAIN archive.content
  /\ LET entry == archive.content[proc[p].n]
     IN  Write(p, entry[1], entry[2])
  /\ proc' = [proc EXCEPT ![p].n = @ + 1]
  /\ OnlyItems

\* The end of the mapping.  An archive cut off between two entries looks
\* complete.
UnpackDone(p) ==
  /\ At(p, "unpack")
  /\ proc[p].n > Len(archive.content)
  /\ spoiled' = [spoiled EXCEPT !["copy"] = ~archive.whole \/ archived.spoiled]
  /\ End(p)
  /\ UNCHANGED <<world, there, items, archive, archived, commands, changes>>

\* An archive cut off inside an entry is read past its end.
UnpackCrash(p) ==
  /\ At(p, "unpack")
  /\ proc[p].n > Len(archive.content)
  /\ ~archive.whole
  /\ End(p)
  /\ OnlyProc

(***************************************************************************)
(* replay and debug, up to the launch of the program                       *)
(***************************************************************************)

\* The trace is the input, or comes with -t beside a command line; no
\* configuration, or an incomplete one, does not parse.
ReplayStart(p, dir, hasCLI) ==
  /\ Command(p)
  /\ LET packed == Whole(items[dir], Config) /\ items[dir][Config].mode = "full"
     IN  proc' = IF Whole(items[dir], Config) /\ ~(hasCLI /\ packed)
                   THEN [proc EXCEPT ![p] = [Idle EXCEPT !.pc = "launch", !.dir = dir,
                                               !.mode = items[dir][Config].mode]]
                   ELSE proc
  /\ UNCHANGED <<world, there, items, spoiled, archive, archived, changes>>

\* debug starts on a directory as replay does.  It has no option for a trace
\* beside a command line, and finds no configuration then.
DebugStart(p, dir, hasCLI) ==
  /\ Command(p)
  /\ proc' = IF Whole(items[dir], Config) /\ ~hasCLI
               THEN [proc EXCEPT ![p] = [Idle EXCEPT !.pc = "launch", !.dir = dir,
                                           !.mode = items[dir][Config].mode]]
               ELSE proc
  /\ UNCHANGED <<world, there, items, spoiled, archive, archived, changes>>

\* The map is read, or does not parse, and the program launched.
ReplayLaunch(p) ==
  /\ At(p, "launch")
  /\ End(p)
  /\ OnlyProc

(***************************************************************************)
(* The environment                                                         *)
(***************************************************************************)

\* A command is killed.
Kill(p) ==
  /\ ~At(p, "idle")
  /\ End(p)
  /\ OnlyProc

\* A file of the program is replaced or removed.
Change(f) ==
  /\ changes < MaxChanges
  /\ world[f] = "v1"
  /\ \E v \in {"v2", "gone"} : world' = [world EXCEPT ![f] = v]
  /\ changes' = changes + 1
  /\ UNCHANGED <<there, items, spoiled, archive, archived, proc, commands>>

Record(p) ==
  \/ \E override \in BOOLEAN, mode \in {"traceOnly", "default"} : RecordStart(p, override, mode)
  \/ RemoveKilled(p)
  \/ RecordMkdir(p)
  \/ RecordConfigOpen(p)
  \/ RecordConfigClose(p)
  \/ \E list \in OpenLists : RecordRun(p, list)
  \/ RecordThrows(p)
  \/ RecordFilesOpen(p)
  \/ RecordFilesClose(p)

Pack(p) ==
  \/ \E out \in BOOLEAN : PackStart(p, out)
  \/ PackMkdir(p)
  \/ PackRead(p)
  \/ PackSkip(p)
  \/ PackFound(p)
  \/ PackCopy(p)
  \/ PackCopied(p)
  \/ PackLoopOver(p)
  \/ PackMapOpen(p)
  \/ PackMapClose(p)
  \/ PackFullOpen(p)
  \/ PackFullClose(p)
  \/ ArchiveOpen(p)
  \/ ArchiveEntry(p)
  \/ ArchiveClose(p)

Unpack(p) ==
  \/ UnpackStart(p)
  \/ UnpackEntry(p)
  \/ UnpackDone(p)
  \/ UnpackCrash(p)

Replay(p) ==
  \/ \E dir \in Dirs, hasCLI \in BOOLEAN : ReplayStart(p, dir, hasCLI) \/ DebugStart(p, dir, hasCLI)
  \/ ReplayLaunch(p)

Next ==
  \/ \E p \in Procs : Record(p) \/ Pack(p) \/ Unpack(p) \/ Replay(p) \/ Kill(p)
  \/ \E f \in FilePaths : Change(f)

Spec == Init /\ [][Next]_vars

(***************************************************************************)
(* Properties.                                                             *)
(***************************************************************************)

IsFull(dir) == Whole(dir, Config) /\ dir[Config].mode = "full"

\* What replay of a packed reproducer takes from the directory: the
\* environment, the map, the executable and each file of the map.
Launchable(dir) ==
  /\ Env \in DOMAIN dir
  /\ Whole(dir, FileMap)
  /\ Whole(dir, Copy(0))
  /\ \A path \in DOMAIN dir[FileMap].map : Whole(dir, Copy(dir[FileMap].map[path]))

\* From the moment replay or debug has read recordMode "full" until it launches
\* the program, everything it needs is there and complete: pack, killed or racing
\* at any step, switches the mode last.  The directory may be the packed one or
\* one restored from an archive; one left by an interrupted remove_all or
\* unpack, or restored from an archive of such a one, is excepted.
PackedLaunchable ==
  \A p \in Procs :
    LET d == proc[p].dir
    IN  At(p, "launch") /\ proc[p].mode = "full" /\ ~spoiled[d] => Launchable(items[d])

\* Each regular file the program opened, and its executable, is redirected to
\* its own copy, unless the file has gone since: a path that is skipped does
\* not end the loop, and a path listed twice does not lose its copy.
FilesPacked ==
  \A d \in Dirs : IsFull(items[d]) /\ Launchable(items[d]) /\ ~spoiled[d] =>
    LET dir == items[d]
    IN  \A path \in Range(<<Exe>> \o dir[Files].list) \cap FilePaths :
          world[path] # "gone" =>
            /\ path \in DOMAIN dir[FileMap].map
            /\ dir[Copy(dir[FileMap].map[path])].path = path

\* Two packs of one trace that both saw no pack/ never mix: the copies that
\* the map names were made by the process that wrote the map.
OnePacker ==
  \A d \in Dirs : IsFull(items[d]) /\ Launchable(items[d]) /\ ~spoiled[d] =>
    LET fm == items[d][FileMap]
    IN  \A path \in DOMAIN fm.map : items[d][Copy(fm.map[path])].by = fm.by

\* An unpack that runs to the end of a complete archive restores the directory
\* as it was when pack closed the archive, whatever happened to it since.
RoundTrip ==
  [][\A p \in Procs :
       UnpackDone(p) /\ archive.whole => items'["copy"] = archived.items]_vars

=============================================================================
