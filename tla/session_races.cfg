\* Eager threads, failing creations, refused names, threads the tracer does not follow.
SPECIFICATION SessionSpec
CONSTANTS
  Threads = {main, t1, t2}
  Main = main
  Eager = {t1}
  Followed = {main, t1}
  Radix = 10
  MaxLen = 6
  MaxCounter = 2
  MayFail = TRUE
  NoFile = NoFile
  Program <- PlainProgram
  NumBinaries = 1
  WriteMemObj = TRUE
  MaxCalls = 1
INVARIANTS TypeOK OwnNamesDistinct OwnFilesDistinct
CHECK_DEADLOCK FALSE
