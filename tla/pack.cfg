\* Two commands at a time; any of them may be killed, files may change.
SPECIFICATION Spec
CONSTANTS
  Procs = {p1, p2}
  Exe = "exe"
  DevPaths = {"/dev/dri"}
  OtherPaths = {"dir"}
  FilePaths = {"exe", "lib"}
  OpenLists <- Lists
  DirOrders <- Orders
  MaxCommands = 4
  MaxChanges = 1
INVARIANTS PackedLaunchable FilesPacked OnePacker
 
SYMMETRY ProcSymmetry
CHECK_DEADLOCK FALSE
