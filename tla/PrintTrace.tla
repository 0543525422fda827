----------------------------- MODULE PrintTrace -----------------------------
(***************************************************************************)
(* dpcpp_trace print: reads every trace file of the directory, and prints  *)
(* the records in the order of their start times or thread by thread, and  *)
(* a performance summary.                                                  *)
(*                                                                         *)
(* A trace file is what a recording left: whole records, and possibly the  *)
(* beginning of one more when the program was killed.  The text that is    *)
(* printed is left out; which records are printed, in which order, and the *)
(* numbers of the summary are kept.                                        *)
(***************************************************************************)
EXTENDS Options, FiniteSetsExt, SequencesExt

CONSTANTS
  Threads,       \* stems of the trace files
  Directories,   \* what a directory may hold: a trace file per thread
  Functions,     \* ids of the PI functions
  MaxRecords,    \* of a file
  MaxDuration    \* numeric_limits<size_t>::max()

\* What a recording leaves: a call ends no earlier than it began, and its
\* duration is a size_t.
ASSUME DirectoriesAssumption ==
  /\ MaxRecords \in Nat /\ MaxDuration \in Nat
  /\ \A d \in Directories : \A t \in Threads :
       /\ d[t].records \in Seq([fn : Functions, start : Nat, end : Nat])
       /\ Len(d[t].records) <= MaxRecords
       /\ \A k \in DOMAIN d[t].records :
            /\ d[t].records[k].start <= d[t].records[k].end
            /\ d[t].records[k].end - d[t].records[k].start <= MaxDuration

VARIABLES
  directory,  \* thread -> [records, torn, opens], once print looks at its input
  unread,     \* the files that were not read yet
  file,       \* the file being read, as a set
  pos,        \* the next record of it
  records,    \* the vector of records, each with its thread
  perfMap,    \* function -> summary
  output,     \* the records printed
  summaries,  \* performance summaries printed
  step        \* where print is

printVars == <<directory, unread, file, pos, records, perfMap, output, summaries, step>>
vars == <<optionVars, printVars>>

NoFile == [records |-> <<>>, torn |-> "none", opens |-> FALSE]

Init ==
  /\ OptionsInit
  /\ directory = [t \in Threads |-> NoFile]
  /\ unread = Threads
  /\ file = {}
  /\ pos = 1
  /\ records = <<>>
  /\ perfMap = <<>>
  /\ output = <<>>
  /\ summaries = <<>>
  /\ step = "start"

Parse == (ParseWord \/ ParseEnd) /\ UNCHANGED printVars

\* The input must be a directory, which is as a recording left it.  The
\* descriptors of the images come first: an incomplete one leaves its size
\* unset.
PrintImages ==
  /\ phase = "parsed"
  /\ command = "print"
  /\ step = "start"
  /\ \/ directory' \in Directories /\ step' \in {"files", "bad_alloc"}
     \/ UNCHANGED directory /\ step' = "exit"
  /\ UNCHANGED <<optionVars, unread, file, pos, records, perfMap, output, summaries>>

\* The directory's iteration reaches a trace file, in any order.  One that
\* does not open never has eof() set: the loop does not end.
OpenTrace(t) ==
  /\ step = "files"
  /\ file = {}
  /\ t \in unread
  /\ unread' = unread \ {t}
  /\ file' = {t}
  /\ pos' = 1
  /\ step' = IF directory[t].opens THEN "files" ELSE "forever"
  /\ UNCHANGED <<optionVars, directory, records, perfMap, output, summaries>>

\* One turn of parseTraceFile: a whole record.
ReadRecord(t) ==
  /\ step = "files"
  /\ file = {t}
  /\ pos <= Len(directory[t].records)
  /\ records' = Append(records, <<t, directory[t].records[pos]>>)
  /\ pos' = pos + 1
  /\ UNCHANGED <<optionVars, directory, unread, file, perfMap, output, summaries, step>>

\* The end of the file, inside a size, inside a record or behind one: what was
\* read last is dropped.
ReadEnd(t) ==
  /\ step = "files"
  /\ file = {t}
  /\ pos > Len(directory[t].records)
  /\ file' = {}
  /\ UNCHANGED <<optionVars, directory, unread, pos, records, perfMap, output, summaries, step>>

\* Unless it was the data that is cut off, the size read last was not set: a
\* string of that length may be more than there is memory for.
ReadBadSize(t) ==
  /\ step = "files"
  /\ file = {t}
  /\ pos > Len(directory[t].records)
  /\ directory[t].torn # "data"
  /\ step' = "bad_alloc"
  /\ UNCHANGED <<optionVars, directory, unread, file, pos, records, perfMap, output, summaries>>

Grouped == mPrintGroup = "thread"

\* The sort compares start times.  Mutant: end times.
EndsBefore(r, s) == r[2].end < s[2].end
Sooner(r, s) == r[2].start < s[2].start

\* std::sort leaves records with the same start time in any order.
SortRecords ==
  /\ step = "files"
  /\ unread = {}
  /\ file = {}
  /\ IF Grouped THEN UNCHANGED records
     ELSE \E f \in Bijection(DOMAIN records, DOMAIN records) :
            /\ \A k, l \in DOMAIN records : k < l => ~Sooner(records[f[l]], records[f[k]])
            /\ records' = [k \in DOMAIN records |-> records[f[k]]]
  /\ pos' = 1
  /\ step' = "print"
  /\ UNCHANGED <<optionVars, directory, unread, file, perfMap, output, summaries>>

\* PerformanceSummary{}.  Mutant: the least duration starts at 0.
ZeroSummary == [calls |-> 0, max |-> 0, min |-> 0, total |-> 0]
EmptySummary == [calls |-> 0, max |-> 0, min |-> MaxDuration, total |-> 0]

\* collectPerf.
Collected(r) ==
  LET d  == r.end - r.start
      ps == IF r.fn \in DOMAIN perfMap THEN perfMap[r.fn] ELSE EmptySummary
  IN  [f \in DOMAIN perfMap \cup {r.fn} |->
         IF f = r.fn THEN [calls |-> ps.calls + 1, max |-> Max({ps.max, d}),
                           min |-> Min({ps.min, d}), total |-> ps.total + d]
         ELSE perfMap[f]]

PrintRecord ==
  /\ step = "print"
  /\ pos <= Len(records)
  /\ output' = Append(output, records[pos])
  /\ perfMap' = Collected(records[pos][2])
  /\ pos' = pos + 1
  /\ UNCHANGED <<optionVars, directory, unread, file, records, summaries, step>>

\* One summary, also when there are groups: perfMap is cleared behind the loop.
PrintEnd ==
  /\ step = "print"
  /\ pos > Len(records)
  /\ summaries' = IF "--perf" \in flags THEN Append(summaries, perfMap) ELSE summaries
  /\ step' = "printed"
  /\ UNCHANGED <<optionVars, directory, unread, file, pos, records, perfMap, output>>

Next ==
  \/ Parse
  \/ PrintImages
  \/ \E t \in Threads : OpenTrace(t) \/ ReadRecord(t) \/ ReadEnd(t) \/ ReadBadSize(t)
  \/ SortRecords
  \/ PrintRecord
  \/ PrintEnd

Spec == Init /\ [][Next]_vars

(***************************************************************************)
(* Properties.                                                             *)
(***************************************************************************)

\* The calls that a recording left whole: a thread and the number of the call,
\* and what was recorded of it.
Left(t) == directory[t].records
Calls == {c \in Threads \X (1 .. MaxRecords) : c[2] \in DOMAIN Left(c[1])}
Made(c) == Left(c[1])[c[2]]

\* How long a call took, and what a summary should say of the calls in S.
Duration == [c \in Calls |-> Made(c).end - Made(c).start]
Summary(S) ==
  [calls |-> Cardinality(S),
   max   |-> Max({Duration[c] : c \in S}),
   min   |-> Min({Duration[c] : c \in S}),
   total |-> SumFunctionOnSet(Duration, S)]
Called(S, f) == {c \in S : Made(c).fn = f}
Summaries(S) == [f \in {g \in Functions : Called(S, g) # {}} |-> Summary(Called(S, f))]

\* seq has a call's record, with its thread, where b says.
Lists(seq, b) == \A k \in DOMAIN seq : seq[k] = <<b[k][1], Made(b[k])>>

\* Calls of one thread are as far from each other as they were made.
Together(seq, b) ==
  \A k, l \in DOMAIN seq : b[k][1] = b[l][1] => l - k = b[l][2] - b[k][2]

InOrder(seq) == \A k, l \in DOMAIN seq : k < l => seq[k][2].start <= seq[l][2].start

\* Every whole record of every file is printed once, and none that the end of
\* its file cut off: with --group thread each thread's records together and in
\* the order they were made; otherwise by their start times, whatever the order
\* in which the directory lists the files.  The summary of --perf without
\* groups has each function that was called, with the number of its calls and
\* the least, the greatest and the sum of their durations over all threads.
PrintedRight ==
  step = "printed" =>
    /\ \E b \in Bijection(DOMAIN output, Calls) :
         Lists(output, b) /\ (Grouped => Together(output, b))
    /\ ~Grouped => InOrder(output)
    /\ ~Grouped /\ "--perf" \in flags => summaries = <<Summaries(Calls)>>

\* The help text of --perf, "print performance summary per group"
\* (src/src/main.cpp:39): with --group thread each thread that made a call has
\* a summary of its own calls.
SummaryPerGroup ==
  step = "printed" /\ Grouped /\ "--perf" \in flags =>
    \A t \in Threads : Left(t) # <<>> =>
      \E k \in DOMAIN summaries : summaries[k] = Summaries({c \in Calls : c[1] = t})
=============================================================================
