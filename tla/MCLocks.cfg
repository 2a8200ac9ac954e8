SPECIFICATION MCFairSpec
CONSTANTS
  cpu0 = cpu0
  cpu1 = cpu1
  Cpus = {cpu0, cpu1}
  Readers <- MCThreads
  Writers <- MCWriters
  Upgraders <- MCThreads
  Uninitialised <- MCUninitialised
  Free = Free
  MaxDepth = 2
INVARIANTS LockWordExact HolderNotInterrupted HolderOwnsState
PROPERTIES IrqsRestored  ImplementsMutex ImplementsReadersWriter
