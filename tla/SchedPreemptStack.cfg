\* Preemption and the reuse of a stack.
CONSTANTS
  k1 = k1
  k2 = k2
  k3 = k3
  t1 = t1
  t2 = t2
  t3 = t3
  NULL = NULL
  Kthread = {k1, k2}
  Thread = {t1, t2}
  main = t1
  RqSize = 1
  RrqSize = 1
  spinks = 0
  Targets = {NULL}
  Softirqs = {}
  Watchdog = TRUE
  Preemption = TRUE
SPECIFICATION Spec
SYMMETRY Symmetry
INVARIANTS
  StackExclusive
