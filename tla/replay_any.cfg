\* Two threads, lost records and functions that replay gets wrong.
SPECIFICATION ReplaySpec
CONSTANTS
  Threads = {t1, t2}
  Followed = {t1, t2}
  NoFile = NoFile
  Program <- OddProgram
  NumBinaries = 1
  WriteMemObj = TRUE
  MaxCalls = 2
INVARIANT AnswersInOrder
CHECK_DEADLOCK FALSE
