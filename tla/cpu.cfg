CONSTANTS
  None = None
  p1 = p1
  p2 = p2
  Base = 16
  WordBytes = 2
  Regions = {1}
  PageSize = 4
  GlobalSize = 2
  HeapSize = 4
  StackSize = 2
  Procs = {p1, p2}
  Pid <- Pids
  Programs <- Pairs
  Leftover = 1
  Answers = {0, 1}
  MaxValue = 500
SPECIFICATION Spec
INVARIANTS
  TypeOK
  CpuReadsTheSource
  RegistersExist
PROPERTIES
  ImplementsOwnCpu
  StackIsAStack
CHECK_DEADLOCK FALSE
