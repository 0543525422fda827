\* Two threads, a task and an edge, and a stream that ends at any moment.
SPECIFICATION Spec
CONSTANTS
  Threads = {t1, t2}
  Ids = {1, 2}
  Edges = {2}
  MaxTime = 3
INVARIANTS OneEventPerId CreatedBeforeRun GraphComplete
CHECK_DEADLOCK FALSE
