# A TLA+ model of dpcpp_trace

`dpcpp_trace` records what a SYCL program asks of its Plugin Interface (PI) and
runs the program again on the recording. This directory models the parts that
run inside the traced program, several threads at a time, the ptrace loop around
it, the commands that make and use a trace directory, and the debug server. The
modules are checked with TLC on small instances and, where stated, proved with
TLAPS for every value of the constants.

## 1. The system

| Part | State | Operations | Interacts with |
|---|---|---|---|
| `lib/system_intercept` (preloaded) | per thread: kernel name, `threadCouner` | `pthread_create`, `setMainThreadName` | names select trace files in record and replay |
| `lib/plugin_record` (XPTI subscriber) | per thread: handler, stream, timestamps; shared: `GBinariesCollected`, `GBinariesMutex`, the output directory | `tpCallback` begin/end, one handler per PI function, `flush`, `deinit` | runs on the program's threads, around each PI call |
| `lib/plugin_replay` (PI plugin) | per thread: `GTrace`; shared: two maps | one entry point per PI function | reads what plugin_record wrote |
| `lib/utils/Tracer.cpp` | exit code, handlers; the kernel's ptrace state | `fork`, the worker loop, `replaceFilename` | stops the program at `openat`, `stat`, `newfstatat` |
| `lib/graph_dump` (XPTI subscriber) | event graph, ids, mutex | `tpCallback`, `xptiTraceFinish` | runs on the runtime's threads |
| `src/record.cpp`, `src/replay.cpp` | list of files, file map | set up directory and environment, start the tracer | use the tracer's handlers |
| `src/pack.cpp`, `src/unpack.cpp` | `pack/`, `replay_file_map.json`, `recordMode`, the archive | copy the program's files, write and read archives | read what record wrote, write what replay and debug read |
| `src/print.cpp`, `lib/utils/options.cpp` | vector of records, summary; the parsed options | one loop per command over its words; parse, sort, print | read trace files, which may be cut off |
| `src/debug.cpp`, `src/debug_server` | `mRunning`, `mAck`, selected thread, listing index, open files | one coroutine per connection, one handler per packet | the client over TCP; the debugger by direct calls |
| `lib/debug/host` | breakpoints by address; LLDB's target, process and threads | `resume`, `stepInstruction`, breakpoints, stop reasons | runs the program synchronously inside a packet |

What is hard: a created thread runs before it has its name; threads race for
the device images inside a PI call; a process may be killed between any two
writes; replay is correct only if no record is lost, doubled or moved; the
program may die while the tracer looks at it; threads other than the initial
one are under the seccomp filter but have no tracer; commands overlap, and are
interrupted, on one directory whose files have no locks; the debugger's client
keeps IDs and positions across a program that ran on. `PROJECT.json` lists each
hazard at its line.

What makes each part correct:

- names: no two threads share a name, and a name does not change;
- recorder: one file per thread, every returned call in it, in order, at any
  crash point; each image dumped once and completely; no call hangs;
- replayer: the k-th answer is made from the k-th record and fills the outputs
  the call has;
- tracer: a file is listed, or redirected, before it is opened; failures are
  not taken for success; no stop lasts;
- graph: one event per id, times consistent, file complete;
- trace directory: what says it is packed can be launched from, with copies of
  the right files; an archive restores what it was made from;
- options and print: the words mean what they say at once, whatever the order of
  the loop; each complete record is printed once, in order, with the right sums;
- debug server: client, protocol and debugger agree on breakpoints, threads,
  objects, stops and the acknowledgement mode; every packet is answered.

## 2. Modules

| Module | Models | State and actions |
|---|---|---|
| `ThreadNames` | `threads.cpp` | a name is the sequence of its counters; `pthread_create` is `Create` / `CreateFails`, `ComposeName`, `SetName` / `SetNameOnJunk` |
| `PICalls` | what record and replay know of a call | functions by the way they are handled, output slots, records |
| `Recorder` | `record.cpp`, `record_handler.cpp` | `BeginCallback`, `EndCallback`, then the steps of the handler, `FlushAndReturn`; `Deinit`, `Kill` |
| `RecordLog` | what the recording plugin promises | a log per thread: `WriteAhead`, `Return`, `Stop`; `Recorder` implements it |
| `RecordSession` | ThreadNames and Recorder together | the file of a thread is its name at its first PI call |
| `Replayer` | `plugin_replay/replay.cpp` | `ReplayCall`, `Die`, `NoMemoryAtEnd`, `MissingEntry`, `TearDown`, the maps |
| `RecordReplay` | Recorder, then Replayer on its files | the same calls again, in any interleaving |
| `NativeTracer` | `Tracer.cpp` with the handlers of `src/record.cpp` and `src/replay.cpp` | one action per ptrace or wait request; the program's own steps |
| `GraphDump` | `graph_dump.cpp` | `Stamp` (clock), `Locked` (mutex), `Finish`, `DumpEvent`, `DumpDone`, `Overtaken` |
| `TraceDirectory` | `record.cpp`, `pack.cpp`, `unpack.cpp`, and the start of `replay.cpp` and `debug.cpp` | commands as processes with a program counter, one action between two file operations; `Kill`, `Change` (the program's files) |
| `HostDebugger` | `HostDebugger.cpp` over LLDB | `Resume`, `CreateSoftwareBreakpoint`, `RemoveSoftwareBreakpoint`, stop reasons; the running program's own steps |
| `DebugServer` | `GDBServerProtocol.cpp`, `server.cpp`, and a client; extends `HostDebugger` | `Send`, `Receive`; `ReadPacket` with one action per handler, `ReadAck`, `FinishResume`, `Disconnect`, `Signalled` |
| `Options` | `options.cpp` and the choice of command in `main.cpp` | `ParseWord` (one turn of a loop), `ParseEnd`; the meaning of a command line as a reference definition |
| `PrintTrace` | `print.cpp`; extends `Options` | `PrintImages`, `OpenTrace`, `ReadRecord`, `ReadEnd`, `SortRecords`, `PrintRecord`, `PrintEnd` |
| `RecordSessionProofs`, `RecorderProofs`, `RecordReplayProofs`, `NativeTracerProofs`, `GraphDumpProofs`, `TraceDirectoryProofs`, `DebugServerProofs`, `PrintTraceProofs` | | theorems about the module of the same name and, in the first and the last, about the module it extends (`ThreadNames`, `Options`) |
| `MC*` | | programs, file maps and symmetry for TLC |

Definitions that follow a comment "Mutant" are plausible wrong versions of the
definition after them; each property of a passing run is violated when one of
them takes its place.

### Abstractions

- **Names.** `main_0_2` is `<<0, 2>>`; its length in characters is computed, as
  the limit of 15 matters. `pthread_setname_np` on another thread opens a file
  under `/proc`, so it needs an `openat` that is carried out (`Followed`).
- **Eager threads.** A thread in `Eager` acts before its creator's
  `pthread_create` returns; the others wait for work from their creator first,
  as the threads of a pool do.
- **PI calls.** Arguments, handles, result codes and timestamps are left out.
  A call is its function, which output pointers are given, whether the
  destination is host memory and whether it succeeded. A record keeps its
  function, its saved outputs in order and whether it names a memory file; `n`
  is a ghost, the number of the call, used by the properties only. `lost` is a
  history variable: the calls of `piextDeviceSelectBinary` that returned early
  under the lock.
- **Functions.** `MissingApis` stands for all functions that `piPluginInit`
  leaves out.
- **Files.** A record is written by one append (`O_APPEND`, one `write` or
  `writev` per flush). An image and its descriptor are one step. A stream that
  could not be opened swallows what is written, as `std::ofstream` does.
- **Failed transfers.** The recorder then waits for an event nobody set: it may
  get away with it or end the process.
- **End of file in replay.** The empty message has function 0
  (`piPlatformsGet`); the size read is uninitialised, and the allocation may
  fail.
- **Tracer.** System calls are reduced to those with a path; `open` stands for
  the ones the filter does not list. Library names are reduced to `Mentions`:
  the keys that contain a library's file name. When the tool ends, the kernel
  detaches the program, and a pending signal kills it or not.
- **XPTI ids** belong to a place in the program; several threads may be at it.
  Times are what `timestamp()` makes of the clock, whole microseconds: they do not
  go back, several readings may be equal, and 0 is both the first microsecond and
  a time that was not set, as in the message.
- **Trace directory.** A file is on disk, incomplete, from its opening to its
  closing; what is incomplete does not parse. The number of a copy in `pack/` is
  part of its name. `which` is reduced to its outcome, compression to the
  identity. Two things are left out as misuse: `record --override` on a directory
  another command is working on, and writing an archive while it is unpacked.
  `spoiled` and `archived` are history variables (an archive remembers whether
  the directory it was made from was spoiled), `by` in a copy and a map is a
  ghost.
- **Options.** Words are the options, two bare words and `--`; `-o` stands for
  `--output` and `-t` too, and words that are read alike have one name.
- **Print.** The text is left out (`pretty_printers.hpp`, image descriptors);
  which records are printed, in which order, and the sums are kept.
- **Debug server.** Contents of registers, memory, `target.xml` and the feature
  list are left out; whether an operation finds its thread is kept. The bytes of
  an object are names for bytes; `escape` and what the client makes of it change
  the four special ones as the code does (`Xor20`). The client
  sends one packet at a time, finishes a listing or a transfer it has begun,
  inserts a breakpoint only where it has none, and after `W00` sends only `k`.
  Packets are not split over two reads. LLDB is modelled from its use: resuming
  is synchronous, one thread has a stop reason when the program stops.

## 3. Runs

Passing runs:

| Run | Question | Bounds |
|---|---|---|
| `session_races` | do names made for two threads, and the files opened under them, differ under every failure? | 3 threads, one eager, one unfollowed; limit 6 and counters up to 2, so that names of the second generation are refused; failing creations with stale handles; a PI call each |
| `record` | race for the images, order and completeness of the files, memory files before records, kill, every call returns; does the plugin implement `RecordLog`? | 2 threads, 2 images, 2 calls each of 5 kinds: winner, loser under the lock, latecomer; transfers that succeed, fail, stay on the device |
| `replay_faithful` | are the answers those of the thread's own calls, and what can go wrong between threads? | 2 threads, 2 calls each, cut by a kill at any step (`OneThreadOrMaps`): one thread and every pair of functions that replay gets right (`FaithfulProgram`), or both threads and the calls that use the shared maps, counts and a transfer (`MapProgram`) |
| `replay_any` | what holds when records were lost or replay is wrong | 2 threads, 2 calls each: the race for the images, the race for the map of kernels, functions that are replayed wrongly |
| `tracer` | the ptrace loop of `record` and of `replay` | 2 calls on 5 paths (a packed file, a packed library, a packed library whose file name is part of the other's path, a library of the same name elsewhere, an unreadable path), one fatal and one other signal, two exit codes, an end at any moment |
| `graph_dump` | graph and file | 2 threads, a task and an edge, times 0 to 3, equal ones included, any number of callbacks |
| `pack` | commands that overlap or are interrupted on one directory | 2 processes, 4 commands of any kind (enough for record, pack, unpack, replay), an executable, a library, a device and a directory, one change to a file; two orders of the directory |
| `debug_server` | client, packets and debugger | 2 threads, the program resumed twice, a breakpoint set twice, objects of 2 and 3 bytes read in parts of 2 and 3: parts that end before, at and behind the end |
| `print` | command lines and what print shows | every command with up to 4 words (see `MCPrintTrace`), 2 files of up to 2 records, one possibly cut off or unreadable, equal start times |

The properties speak of at most two threads, two records or one image at a
time, and each bound lets a third party interfere or a second round happen.

Deadlock is not checked in any run: programs end, or reach a bound.

Runs that show a disagreement between the code and its documentation:

| Run | Property | What happens |
|---|---|---|
| `session_untraced` | `EveryThreadRecorded` | the trace file of an unfollowed thread does not open |
| `session_eager` | `FileHasThreadName` | a thread that calls the PI before it is named appends to its creator's file (`record.cpp:79`) |
| `replay_lost_select` | `NeverAborted` | the loser of the race for the images writes no record; replay aborts |

The modules show more of them, which have no run of their own. Each is reached
by changing the constants of a run above:

- the program may end during a stop: the loop throws, and `files_config.json`,
  where each opened file is to be recorded (`:85`), is never written
  (`RecordThrows`);
- `UniqueNames` fails for `Eager` threads that create threads, for a chain of
  six creations (the name exceeds 15 characters and is refused) and for
  creators outside `Followed` (`threads.cpp:35` ignores the result);
- when the first caller of `piextDeviceSelectBinary` cannot open files, the flag is
  already set (`record_handler.cpp:124`) and the images are missing for good:
  `ImagesComplete` fails in `record` with `Followed = {t2}`;
- `doc/supported_apis.md` marks functions as replayed that are not. The queries
  that `basicHandler` records (lines 26, 34, 35 and 44 of it) have no saved outputs
  (`replay.cpp:64`), `piextDeviceGetNativeHandle` (line 16) has no entry in the
  table (`:729`), `piMemRetain` (line 36) checks for another function (`:304`) and
  `piProgramLink` (line 47) writes no program (`:383`). A query for value and size loses the
  size (`:62`). `OddProgram` makes such calls, so `NeverUndefined`, `NeverAborted`
  and `RepliesFaithful` all fail when they are added to `replay_any.cfg`;
  `FaithfulProgram` leaves them out;
- a library is redirected by its file name, as a substring, to the first key of
  the map that contains it (`src/replay.cpp:171`), which may be the copy of another
  one: `OwnCopy` fails when it is added to `tracer.cfg`;
- `--perf` with `--group thread` prints one summary for all threads
  (`print.cpp:220`), where the help text says "per group" (`main.cpp:39`):
  `SummaryPerGroup` fails when it is added to `print.cfg`;
- signals that `wait` does not list are dropped (`Tracer.cpp:271`): `Continue`;
- a pack that was interrupted, or threw because `files_config.json` is missing,
  has left `pack/`: the next one says "Trace is already packed"
  (`pack.cpp:25`). A `remove_all` or an `unpack` that was interrupted leaves a
  directory that may look packed, hence `spoiled` in `PackedLaunchable`. A pack
  of such a directory archives what is left, and what is unpacked from it looks
  packed too: nothing in an archive tells that files are missing. An archive has
  no end mark either, so a short one is not noticed (`unpack.cpp:24`);
- the documentation has replay look for `replay_file_map.json`; the code decides
  by `recordMode` (`replay.cpp:41`). `debug` launches the packed copy and does
  not redirect files;
- `print --group` as the last words reads a null pointer, an unknown command
  leaves the mode uninitialised, and the warning for `-t` recommends `-t`
  (`options.cpp`). A trace file that does not open makes `print` loop for ever
  (`print.cpp:55`);
- in the debug server, the selected thread is kept by its ID and dereferenced
  when there is none with that ID (`NullOnlyIfStale` says when), `qC` takes the ID for an index,
  `M` never writes, `G` decodes from its own letter, a repeated `Z0` leaves a
  breakpoint nobody can remove, reasons without a type (`Unknown`) are told as an
  exit, `auxv` is cut after it was escaped, a failing `pread` ends the coroutine,
  and after `k` the event loop still waits for a signal. `^C` is read only when
  the program has stopped. `HostDebugger::wait` would never return
  (`HostDebugger.cpp:299`), and nothing calls it.

### Fairness

- `record`: weak fairness of `Progress(t)` for every thread. A thread
  inside a PI call is scheduled and the real plugin returns. Weak fairness is
  enough for the mutex: a thread asks for it at most once, since the flag is
  set when it is free again.
- `tracer`: weak fairness of the tool's steps (it is scheduled, `waitpid`
  returns when there is a status, the kernel detaches) and of the child's way
  to its `SIGSTOP`. The program need not do anything. `OutOfMemory` is not
  fair: `readString` may loop for as long as there is memory, so both liveness
  properties except a tracer that is looping there.
- `debug_server`: weak fairness of `ServerStep` (the event loop is scheduled and
  a read returns what was sent) and of `Receive` (the client reads its answers).
  The program has none: it may run for ever inside `resume`, so
  `PacketsAnswered` excepts a running program, and a server that is gone.

### Refinement

`Recorder` implements `RecordLog` (`ImplementsLog`, in the run `record`): the
trace files are the log, `done` the calls returned, `ended` the stop. Buffer,
mutex, flag, images and memory object files are hidden. The abstract log is at
most one entry ahead of the program and never behind it; only
`piextDeviceSelectBinary` may return without an entry (`Lossy`), which is what
`replay_lost_select` exploits. The refinement is proved for every instance
(`RecorderImplementsLog`), and `RecordReplayProofs` gets the order of the records
from the steps of `RecordLog` alone.

## 4. Proofs

Every safety property of the passing runs is proved, for all threads, programs,
files, calls, command lines and bounds. The proofs assume the named assumptions of
the modules, which TLC evaluates in the runs, and the hypotheses that a theorem
states itself. Each module has one inductive
invariant (or one per question), and its parts are named for what they say; most
theorems are consequences of it. TLC checked the invariants before they were
proved.

Where a definition goes over data element by element, the induction is by a
smallest counterexample: a set of numbers has a least member (`Least`,
`FirstIndex`), a set of subsets of a finite set a smallest one (`Smallest`). Both
follow from theorems of the library about well-founded orders that speak of sets
and not of operators, which the provers can use.

`RecordSessionProofs`, about `ThreadNames`:

- `Invariance`, `TypeCorrect`, `DistinctNames` (`OwnNamesDistinct`). The property
  is not inductive: a composed name is not yet held by anybody. `IInv` adds that
  held and pending names are issued and pending names are pairwise distinct, that
  a thread's counter is ahead of every issued extension of its own name
  (`CounterAhead`, which makes the next composed name new), that nothing extends
  a pending name yet, and that each creator names one thread.
- These hold under hypotheses that exclude the races, so no run asks for them.
  `NameNeverMoves` (`NameGivenOnce`), when `pthread_create` does not fail: after a
  failure the library names whatever thread the stale handle stands for.
- `NamesUnique` (`UniqueNames`), when creation does not fail, threads wait for
  work, all are followed, and as long as every issued name fits into 15
  characters (`NamesFit`). Each hypothesis excludes a counterexample of section 3.
- `ShallowNamesUnique` (`UniqueNames`) puts in the place of `NamesFit` what a
  programmer can see: no thread makes more others than there are digits, and names
  go `d` generations deep with 4 + 2d characters (five generations). Its invariant
  bounds the counters in every name (`CountersInv`).

and about sessions: a session is a behaviour of `ThreadNames` (`SessionNames`),
so the results hold in it (`SessionNamesDistinct`, `SessionNameGivenOnce`,
`SessionNamesUnique`, `SessionShallowNamesUnique`). `FilesDistinct`
(`OwnFilesDistinct`) has no hypothesis; its invariant adds that the name of a file is issued and is neither held by nor
pending for another thread.

`RecorderProofs`:

- `TypeCorrect`, and `ImagesWrittenOnce` (`ImagesOnce`): a thread between `Lock`
  and `DumpDone` holds the mutex (`MutexHeld`), nothing is written before the flag
  is set (`NothingYet`), and the writing thread has written at most the images
  below its loop index (`WrittenBelow`).
- `LogInvariance`: `LogInv` ties buffer, file, handler and `pc` of a thread
  together. Between two calls the buffer is empty and the file is not ahead of the
  calls that returned; before the flush the record of the current call is in the
  buffer, in the file, or lost (`AtFlush`). From it `MemoryAlwaysThere`
  (`MemoryBeforeRecord`) and `RecorderImplementsLog` (`ImplementsLog`, the
  refinement).
- `TraceAlwaysComplete` (`TraceComplete`): the only calls without a record are
  those that found the flag set under the lock (`LostInv`), and the file is sorted
  by the number of the call (`Sorted`), so no record is there twice.
- `ImagesAllWritten` (`ImagesComplete`), when every thread is followed.

`RecordReplayProofs`, about a recording that ended anywhere and the replay of it:

- `AnswersAlwaysInOrder` (`AnswersInOrder`), when every thread was followed: the
  empty file of an unfollowed thread answers `piPlatformsGet` from the end of the
  file. Of the trace it uses only that each step is one of `RecordLog`: records are
  ordered, tell of their calls, and only `piextDeviceSelectBinary` is missing. The
  invariant `OrderReplayInv` says that the i-th record read is of the function of
  the i-th call and, unless that is a `piextDeviceSelectBinary`, of that very call
  (`Matched`). A replay that lost a record may thus answer one image selection
  with the record of another, and no other call.
- `RepliesAlwaysFaithful`, `ReplayNeverAborts` and `OnlyMapsUnsafe`
  (`RepliesFaithful`, `NeverAborted`, `UndefinedOnlyInMap`), for any number of
  threads, when every thread was followed, memory objects were saved, the program
  makes only calls that replay gets right and there is no race for the images
  (`NoImageRace`: one thread, or no `piextDeviceSelectBinary`). `Supported`
  excludes exactly what section 3 lists as replayed wrongly. Two threads may still
  meet in one of the maps, which is undefined; `OnlyMapsUnsafe` says that nothing
  else is. `Exact`, the n-th record is that of the n-th call, is
  inductive because a thread that waits for the mutex finds the flag unset
  (`CollectInv`), so that a call reaches its flush with a record (`FlushInv`).
  The lemma `FaithfulReply` compares what each entry point of the replaying plugin
  fills with the outputs of the call.

`NativeTracerProofs`: `LoopInv` says where tool and program can be at the same time
(`Rendezvous`), before and after the kernel has let the program go (`LetGo`), and
that the seccomp option is set before the child runs on. From it
`TracerTypeCorrect`, `TracedNeverRefused` (`NeverRefused`), `SuccessIsSuccess`
(`NoFalseSuccess`). `OpensAlwaysReported` (`OpensReported`) adds that the list has
exactly the calls that were carried out, in order, and the one about to be
(`Listing`). `PackedAlwaysRedirected` (`PackedRedirected`) adds that a call is where the program
made it until the handlers have seen it, and at the right file from then on
(`Redirecting`); it needs that no packed path is one the tracer cannot read. What the
right file is follows from the search for the first key that fits (`KeysReplaced`,
`HandleRedirects`): the copy of the path itself, but for a library whose file name is
in a key that is not behind it. `OwnCopy`, without that exception, does not hold
(section 3).

`GraphDumpProofs`: `AlwaysOneEvent`, `AlwaysCreatedFirst`, `FileIsGraph`
(`OneEventPerId`, `CreatedBeforeRun`, `GraphComplete`). The invariant adds that
`ids` has the ids of the graph, and that a callback that waits for the mutex has
read a time not before the creation of its task. Times only have to be monotone:
ties are allowed.

`TraceDirectoryProofs`: `PackedAlwaysLaunchable`, `FilesAlwaysPacked`,
`AlwaysOnePacker` and the action property `UnpackRestores` (`PackedLaunchable`,
`FilesPacked`, `OnePacker`, `RoundTrip`). The invariant follows a pack through its
file operations: only one process can have created the first copy (`OneClaim`), what
it has copied and what is still to come (`Packed`), and what an archive, and a
directory restored from a prefix of it, have of the directory. The proof attempt
showed that a directory restored from the archive of a spoiled one had to count as
spoiled, which TLC's bounds had not reached.

`DebugServerProofs`: `BreakpointsAlwaysAgree`, `AlwaysAckAgreed`,
`AlwaysThreadsListed`, `StopAlwaysTold`, `NullAlwaysStale` (`BreakpointsAgree`,
`AckAgreed`, `ThreadsListed`, `StopTold`, `NullOnlyIfStale`). The invariant says that
one packet is on its way (`OnePacket`) and how the two sides differ while its answer
is (`ModeAgreed`, `Expected`, `ListingSoFar`). Stop reasons are LLDB's.
`TransfersWhole` (`XferWhole`) has an invariant of its own: the client asks from where
it has got to (`AsksInOrder`), what it has is the object up to there (`GotPrefix`), and
the answer is the next part, the rest, or nothing at the end (`AnswersPart`). The lemma
`ReadVerbatim`, that a part of an object without special bytes is read as it was sent,
is by induction over the bytes; it rests on `escape` escaping the escape byte (0x7d)
too.

`PrintTraceProofs`:

- `CommandLineUnderstood` (`ParsedRight`), for command lines of any length. The loops
  decide at each word; `Options` says of a whole line which words are arguments of
  others (the parity of the block of options before them) and what it means. The
  invariant `LoopInv` says that the word looked at is not an argument (`AtWord`), and
  that input, output, group, flags and, for `record`, the refusals so far are those of
  the words before it. The assumption `WordsAssumption` excludes empty words, which
  the loops could not tell from an option that was not given.
- `EveryRecordPrinted` (`PrintedRight`), for any trace files in any order. While files
  are read, a bijection ties the vector to the calls read so far, those of one thread
  as far from each other as they were made (`Reading`); the sort composes it with a
  permutation; while records are printed, `perfMap` is the summary of those printed
  (`Printing`), with groups or without. The property speaks of the summary without
  groups only, since the help text wants another one with them (`SummaryPerGroup`).
  That the running minimum, maximum and sum are those of the set of
  calls is `CollectedRight`, with `SumWith` (elements may be added in any order) and
  `MaxWith`. `DirectoriesAssumption` says what a recording leaves: calls end no earlier
  than they begin, and durations are numbers that a `size_t` holds. Their sum is not
  bounded in the model: 64 bits of microseconds are more than any program takes.

Only model-checked:

- liveness (`CallsReturn`, `StopsEnd`, `ToolEnds`, `PacketsAnswered`): it rests on
  fairness, which the prover does not handle.

## 5. Plan

Done: the modules of section 2 and the proofs of section 4. Every safety property
that a passing run checks is proved. What could come next is more of the code:
the search loop of `which`, and the launch in `HostDebugger`.

Not modelled: `Compression`, `MappedFile` and the scoped resources (wrappers of
zstd and mmap without state of their own), the protobuf schemas (generated
code), the text that `print` and `pretty_printers.hpp` produce, the search loop
of `which`, the launch of the debugged program through a gdb-remote child (a
sequence of LLDB calls with no state visible to the server before it ends),
contents of registers and memory, `tools/graph2dot.py`, and the build and test
scripts.

## 6. Running

    tlc -workers 2 -config record.cfg MCRecorder
    tlapm RecorderProofs.tla

`PROJECT.json` names the module of each configuration.
