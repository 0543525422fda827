\* One client, two threads, a breakpoint set twice; the program is resumed twice.
SPECIFICATION Spec
CONSTANTS
  Main = 101
  ThreadIds = {101, 102}
  Addrs = {a1}
  StopReasons <- SomeReasons
  MaxRuns = 2
  Objects <- SmallObjects
  Chunks = {2, 3}
  MaxBreakpoints = 2
INVARIANTS BreakpointsAgree ThreadsListed XferWhole StopTold NullOnlyIfStale AckAgreed
PROPERTY PacketsAnswered
CHECK_DEADLOCK FALSE
