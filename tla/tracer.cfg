\* Both commands, a program that may end at any moment, a path that cannot be read.
SPECIFICATION FairSpec
CONSTANTS
  file = file
  lib = lib
  other = other
  elsewhere = elsewhere
  bad = bad
  Paths = {file, lib, other, elsewhere, bad}
  Libraries = {lib, other, elsewhere}
  Keys <- PackedKeys
  Mentions <- PackedMentions
  Unreadable = {bad}
  FatalSignals = {6}
  OtherSignals = {10}
  EndsAnytime = TRUE
  MaxCalls = 2
  Modes = {"record", "replay"}
  ExitCodes = {0, 42}
INVARIANTS TypeOK OpensReported NeverRefused NoFalseSuccess PackedRedirected
PROPERTIES StopsEnd ToolEnds
CHECK_DEADLOCK FALSE
