\* Two processes on two cores, of which one has two kthreads.
SPECIFICATION Spec
CONSTANTS
  A = A
  B = B
  Proc = {A, B}
  ThreadCount <- MCThreadCount
  NCores = 2
  Guaranteed = 1
  ExitRaces = FALSE
  RxqSize = 1
  MaxParks = 2
  NULL = NULL
PROPERTY
  DeadlineKept
CHECK_DEADLOCK FALSE
