SPECIFICATION MCFairSpec
CONSTANTS
  cpu0 = cpu0
  cpu1 = cpu1
  th1 = th1
  th2 = th2
  th3 = th3
  Nobody = Nobody
  Cpus = {cpu0, cpu1}
  Threads = {th1, th2, th3}
  CpuOf <- MCCpuOf
  Booting <- MCBooting
  Prio <- MCPrio
  RealTime <- MCRealTime
  Unscheduled = {}
  Yielders = {th2, th3}
  Queues = {th1}
  Receivers = {th1}
  Senders = {th2, th3}
  Subsystems = {0}
  IsrCpus = {cpu0}
  MaxMessages = 2
  MaxItems = 4
  UrgentReceiver = FALSE
PROPERTIES PullReturns  
