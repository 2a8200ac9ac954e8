SPECIFICATION MCSpec
CONSTANTS
  Threads = {t1, t2}
  NULL = NULL
  NPages = 5
  Sizes = {1, 2}
  PerPage = 1
  CacheSize = 1
  Kernel = TRUE
  ProcPages = 4
  BasePfn = 2
  EndPfn = 6
  WordBits = 2
  PageSize = 4096
  MaxFrames = 2
  StreamPages = 3
  StreamFrames = 3
  Freed = {1, 2}
  CommitMax = 1
  BankOps = 3
SYMMETRY MCSymmetry
INVARIANT ClientsFramesKept
