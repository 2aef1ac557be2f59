SPECIFICATION Spec
CONSTANTS
  Kthread = {k1, k2}
  Timer = {e1, e2, e3}
  Sleeper = {}
  Caller = {c1}
  Softirq = {s1}
  D = 2
  MaxTime = 2
  CancelExpired = TRUE
  NULL = NULL
PROPERTY
  TrueMeansCancelled
CHECK_DEADLOCK FALSE
