\* Recorded by the tool: only the initial thread's openat is carried out.
SPECIFICATION SessionSpec
CONSTANTS
  Threads = {main, t1, t2}
  Main = main
  Eager = {}
  Followed = {main}
  Radix = 10
  MaxLen = 15
  MaxCounter = 2
  MayFail = FALSE
  NoFile = NoFile
  Program <- SmallProgram
  NumBinaries = 1
  WriteMemObj = TRUE
  MaxCalls = 1
INVARIANT EveryThreadRecorded
CHECK_DEADLOCK FALSE
