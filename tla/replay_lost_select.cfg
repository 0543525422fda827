\* A lost piextDeviceSelectBinary record.
SPECIFICATION ReplaySpec
CONSTANTS
  Threads = {t1, t2}
  Followed = {t1, t2}
  NoFile = NoFile
  Program <- SelectProgram
  NumBinaries = 1
  WriteMemObj = TRUE
  MaxCalls = 2
INVARIANT NeverAborted
CHECK_DEADLOCK FALSE
