\* Threads race for the device images and move memory; the process may be killed.
SPECIFICATION FairSpec
CONSTANTS
  Threads = {t1, t2}
  Followed = {t1, t2}
  NoFile = NoFile
  Program <- MixedProgram
  NumBinaries = 2
  WriteMemObj = TRUE
  MaxCalls = 2
INVARIANTS TypeOK TraceComplete MemoryBeforeRecord ImagesOnce ImagesComplete
PROPERTIES CallsReturn ImplementsLog
CHECK_DEADLOCK FALSE
