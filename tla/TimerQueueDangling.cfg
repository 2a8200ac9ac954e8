SPECIFICATION QueuesSpec
CONSTANTS
  p1 = p1
  p2 = p2
  c1 = c1
  c2 = c2
  Procs = {p1}
  Creators = {c1, c2}
  ProcOf <- MCOneProc
  Processor = Processor
  Periods <- MCPeriods
  Delays <- MCDelays
  MaxRequests = 3
  MaxTime = 2
  OneCpu = FALSE
  NoMemory = FALSE
  ClockQueues = {1, 2}
  NULL = NULL
  Garbage = Garbage
CHECK_DEADLOCK FALSE
INVARIANT NoneDangling
