\* A thread makes its first PI call before its creator has named it.
SPECIFICATION SessionSpec
CONSTANTS
  Threads = {main, t1, t2}
  Main = main
  Eager = {t1}
  Followed = {main, t1, t2}
  Radix = 10
  MaxLen = 15
  MaxCounter = 2
  MayFail = FALSE
  NoFile = NoFile
  Program <- SmallProgram
  NumBinaries = 1
  WriteMemObj = TRUE
  MaxCalls = 1
INVARIANT FileHasThreadName
CHECK_DEADLOCK FALSE
