CONSTANTS
  t1 = t1
  t2 = t2
  Threads = {t1, t2}
  CommandLines <- MCCommandLines
  BareWords <- MCBareWords
  Directories <- MCDirectories
  Functions = {"f", "g"}
  MaxRecords = 2
  MaxDuration = 99
SPECIFICATION Spec
INVARIANTS ParsedRight PrintedRight
CHECK_DEADLOCK FALSE
