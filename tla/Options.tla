------------------------------- MODULE Options -------------------------------
(***************************************************************************)
(* The command line of dpcpp_trace: options::options and the loops that    *)
(* parse the words behind a command, one turn per step.                    *)
(*                                                                         *)
(* record refuses words it does not know and options given twice; the      *)
(* other commands pass over them, and the last input wins.  A word is a    *)
(* string; what matters of it is whether it starts with a dash and which   *)
(* option it is.  "-o" stands for --output and replay's -t too.            *)
(***************************************************************************)
EXTENDS Naturals, Sequences, FiniteSets

CONSTANTS
  CommandLines,  \* the command lines: pairs of a command and its words
  BareWords      \* words without a dash

NoPath == ""
Words == STRING \ {NoPath}

\* Words are not empty: opt[0] of an empty one would be no dash, and an empty
\* input or output counts as none.
ASSUME WordsAssumption ==
  /\ \A line \in CommandLines : line[2] \in Seq(Words)
  /\ BareWords \subseteq Words
  /\ BareWords \cap {"--", "-o", "--group", "--override", "-s", "--no-fork", "-p",
                     "--verbose", "--perf", "--server"} = {}

VARIABLES
  command, argv,
  i,                                     \* the next word
  mInput, mOutput, mArguments, mPrintGroup,
  flags,                                 \* the boolean options that are set
  phase                                  \* "parsing", "parsed" or how it failed

optionVars == <<command, argv, i, mInput, mOutput, mArguments, mPrintGroup, flags, phase>>

Commands == {"record", "replay", "print", "info", "pack", "unpack", "debug"}

\* An unknown command leaves the mode uninitialised.
OptionsInit ==
  /\ \E line \in CommandLines : command = line[1] /\ argv = line[2]
  /\ i = 1
  /\ mInput = NoPath
  /\ mOutput = NoPath
  /\ mArguments = <<>>
  /\ mPrintGroup = "none"
  /\ flags = {}
  /\ phase = IF command \in Commands THEN "parsing" ELSE "undefined"

\* The boolean options of a command.
FlagsOf(c) ==
  CASE c = "record" -> {"--override", "-s", "--no-fork"}
    [] c = "replay" -> {"--no-fork", "-p"}
    [] c = "print"  -> {"--verbose", "--perf"}
    [] c = "debug"  -> {"--server"}
    [] OTHER -> {}

TakesOutput(c) == c \in {"record", "replay", "pack", "unpack"}
TakesArguments(c) == c \in {"record", "replay"}

\* A failed command: record throws, the others terminate.
Fail ==
  /\ phase' = "failed"
  /\ UNCHANGED <<command, argv, i, mInput, mOutput, mArguments, mPrintGroup, flags>>

Word == argv[i]
Turn(n) == i' = i + n /\ UNCHANGED <<command, argv, mArguments, phase>>

\* The first bare word of record is the input; the last one of the others.
\* Mutant: so it is with record.
AnyInput == TRUE
InputFree == command = "record" => mInput = NoPath

ParseInput ==
  /\ Word \in BareWords
  /\ InputFree
  /\ mInput' = Word
  /\ Turn(1)
  /\ UNCHANGED <<mOutput, mPrintGroup, flags>>

\* "--": the rest belongs to the program.
ParseDashes ==
  /\ Word = "--"
  /\ TakesArguments(command)
  /\ mArguments' = SubSeq(argv, i + 1, Len(argv))
  /\ i' = Len(argv) + 1
  /\ UNCHANGED <<command, argv, mInput, mOutput, mPrintGroup, flags, phase>>

ParseOutput ==
  /\ Word = "-o"
  /\ TakesOutput(command)
  /\ command = "record" => mOutput = NoPath
  /\ IF i = Len(argv) THEN Fail
     ELSE mOutput' = argv[i + 1] /\ Turn(2) /\ UNCHANGED <<mInput, mPrintGroup, flags>>

\* The word behind --group is taken without looking whether there is one.
ParseGroup ==
  /\ Word = "--group"
  /\ command = "print"
  /\ IF i = Len(argv)
       THEN /\ phase' = "undefined"
            /\ UNCHANGED <<command, argv, i, mInput, mOutput, mArguments, mPrintGroup, flags>>
       ELSE IF argv[i + 1] \in {"none", "thread"}
       THEN mPrintGroup' = argv[i + 1] /\ Turn(2) /\ UNCHANGED <<mInput, mOutput, flags>>
       ELSE Fail

ParseFlag ==
  /\ Word \in FlagsOf(command) \ flags
  /\ flags' = flags \cup {Word}
  /\ Turn(1)
  /\ UNCHANGED <<mInput, mOutput, mPrintGroup>>

\* No branch of the loop takes the word.
ParseOther ==
  /\ ~(Word \in BareWords /\ InputFree)
  /\ ~(Word = "--" /\ TakesArguments(command))
  /\ ~(Word = "-o" /\ TakesOutput(command) /\ (command = "record" => mOutput = NoPath))
  /\ ~(Word = "--group" /\ command = "print")
  /\ Word \notin FlagsOf(command) \ flags
  /\ IF command = "record" THEN Fail
     ELSE Turn(1) /\ UNCHANGED <<mInput, mOutput, mPrintGroup, flags>>

ParseWord ==
  /\ phase = "parsing"
  /\ command # "info"
  /\ i <= Len(argv)
  /\ ParseInput \/ ParseDashes \/ ParseOutput \/ ParseGroup \/ ParseFlag \/ ParseOther

\* The checks behind the loop; info takes no words, and pack, unpack and debug
\* look only at their number.
Complete ==
  CASE command = "record" -> mInput # NoPath /\ mOutput # NoPath
    [] command \in {"replay", "print"} -> mInput # NoPath
    [] command = "info" -> argv = <<>>
    [] OTHER -> argv # <<>>

ParseEnd ==
  /\ phase = "parsing"
  /\ i > Len(argv) \/ command = "info"
  /\ phase' = IF Complete THEN "parsed" ELSE "failed"
  /\ UNCHANGED <<command, argv, i, mInput, mOutput, mArguments, mPrintGroup, flags>>

(***************************************************************************)
(* What a command line means, said of its words at once.                   *)
(***************************************************************************)

\* Options that take the next word.
Taking == (IF TakesOutput(command) THEN {"-o"} ELSE {})
          \cup (IF command = "print" THEN {"--group"} ELSE {})

\* Word k is the argument of the option before it: the block of such options
\* that ends there has an odd length.
IsArgument(k) ==
  \E l \in 1 .. k - 1 :
    /\ \A m \in l .. k - 1 : argv[m] \in Taking
    /\ l > 1 => argv[l - 1] \notin Taking
    /\ (k - l) % 2 = 1

\* The words of the tool, up to the "--" of the program's.
Dashes == {k \in DOMAIN argv : TakesArguments(command) /\ argv[k] = "--" /\ ~IsArgument(k)}
OwnWords == {k \in DOMAIN argv : ~IsArgument(k) /\ \A d \in Dashes : k < d}

At(word) == {k \in OwnWords : argv[k] = word}
Inputs == {k \in OwnWords : argv[k] \in BareWords}
LastOf(S) == CHOOSE k \in S : \A l \in S : l <= k
Argument(S, default) == IF S = {} THEN default ELSE argv[LastOf(S) + 1]

\* Every option that takes a word has one that it accepts.
Satisfied ==
  \A k \in OwnWords : argv[k] \in Taking =>
    k < Len(argv) /\ (argv[k] = "--group" => argv[k + 1] \in {"none", "thread"})

\* record: one input, one output, each flag once and nothing else.
Acceptable ==
  CASE command = "record" ->
         /\ Satisfied
         /\ Cardinality(Inputs) = 1
         /\ Cardinality(At("-o")) = 1
         /\ \A f \in FlagsOf(command) : Cardinality(At(f)) <= 1
         /\ \A k \in OwnWords : argv[k] \in BareWords \cup {"-o"} \cup FlagsOf(command)
    [] command \in {"replay", "print"} -> Satisfied /\ Inputs # {}
    [] command = "info" -> argv = <<>>
    [] OTHER -> Satisfied /\ argv # <<>>

\* The loops accept exactly the command lines above, and understand them: the
\* input is the last bare word that no option has taken, the program's
\* arguments start at the first "--" that is not itself an argument.
ParsedRight ==
  /\ phase = "parsed" =>
       /\ Acceptable
       /\ command # "info" =>
            /\ mInput = IF Inputs = {} THEN NoPath ELSE argv[LastOf(Inputs)]
            /\ mOutput = Argument(At("-o") \cap {k \in OwnWords : TakesOutput(command)}, NoPath)
            /\ mPrintGroup = Argument(At("--group") \cap {k \in OwnWords : command = "print"}, "none")
            /\ flags = {f \in FlagsOf(command) : At(f) # {}}
            /\ mArguments = IF Dashes = {} THEN <<>>
                            ELSE SubSeq(argv, 1 + CHOOSE d \in Dashes : \A e \in Dashes : d <= e,
                                        Len(argv))
  /\ phase = "failed" => ~Acceptable
=============================================================================
