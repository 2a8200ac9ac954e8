SPECIFICATION MCSpec
CONSTANTS
  p1 = p1
  p2 = p2
  c1 = c1
  c2 = c2
  Procs = {p1, p2}
  Creators = {c1, c2}
  ProcOf <- MCProcOf
  Processor = Processor
  Periods <- MCPeriods
  Delays <- MCDelays
  MaxRequests = 3
  MaxTime = 2
  OneCpu = TRUE
  NoMemory = TRUE
  ClockQueues = {1, 2}
  NULL = NULL
  Garbage = Garbage
SYMMETRY MCSymmetry
CHECK_DEADLOCK FALSE
INVARIANTS OneIsActive NoneDangling InterruptsServed
PROPERTY TickExpiresAll
