---------------------------- MODULE MCPrintTrace ----------------------------
(* Every command line of up to four words over the words a command knows, one
   it does not know and bare ones; print with two trace files, one of which may
   be cut off or unreadable. *)
EXTENDS PrintTrace

CONSTANTS t1, t2

MCWords(c) ==
  FlagsOf(c) \cup {"a"}
    \cup (IF c # "print" THEN {"b", "--what"} ELSE {})
    \cup (IF TakesOutput(c) THEN {"-o"} ELSE {})
    \cup (IF TakesArguments(c) THEN {"--"} ELSE {})
    \cup (IF c = "print" THEN {"--group", "thread", "none"} ELSE {})

MCLength(c) == IF c \in {"info", "other"} THEN 1 ELSE 4

MCCommandLines ==
  UNION {{c} \X UNION {[1 .. n -> MCWords(c)] : n \in 0 .. MCLength(c)} : c \in Commands \cup {"other"}}

MCBareWords == {"a", "b", "thread", "none"}

Rec(f, s, e) == [fn |-> f, start |-> s, end |-> e]

MCFiles1 == {<<Rec("f", 1, 5), Rec("g", 6, 7)>>, <<Rec("f", 2, 3), Rec("f", 4, 8)>>}
MCFiles2 == {<<>>, <<Rec("f", 2, 6)>>, <<Rec("g", 1, 9), Rec("f", 9, 10)>>}

MCDirectories ==
  {[t \in {t1, t2} |-> IF t = t1 THEN [records |-> f, torn |-> c, opens |-> TRUE]
                       ELSE [records |-> g, torn |-> "none", opens |-> TRUE]] :
     f \in MCFiles1, g \in MCFiles2, c \in {"none", "size", "data"}}
    \cup {[t \in {t1, t2} |-> [records |-> <<>>, torn |-> "none", opens |-> t = t1]]}
=============================================================================
