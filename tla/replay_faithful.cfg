\* One thread that calls every function that replay gets right, or two threads
\* that use the shared maps: recorded, and replayed in any order.
SPECIFICATION FaithfulSpec
CONSTANTS
  Threads = {t1, t2}
  Followed = {t1, t2}
  NoFile = NoFile
  Program <- FaithfulProgram
  NumBinaries = 1
  WriteMemObj = TRUE
  MaxCalls = 2
INVARIANTS RepliesFaithful NeverAborted UndefinedOnlyInMap
CHECK_DEADLOCK FALSE
