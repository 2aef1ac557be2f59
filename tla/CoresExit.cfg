\* Two processes on two cores, of which one has two kthreads; a process may be
\* removed while it waits for a core.
SPECIFICATION Spec
CONSTANTS
  A = A
  B = B
  Proc = {A, B}
  ThreadCount <- MCThreadCount
  NCores = 2
  Guaranteed = 1
  ExitRaces = TRUE
  RxqSize = 1
  MaxParks = 3
  NULL = NULL
INVARIANT
  NoBug
CHECK_DEADLOCK FALSE
