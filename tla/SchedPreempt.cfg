\* With preemption signals and one spinning kthread.
CONSTANTS
  k1 = k1
  k2 = k2
  k3 = k3
  t1 = t1
  t2 = t2
  t3 = t3
  NULL = NULL
  Kthread = {k1, k2}
  Thread = {t1, t2}
  main = t1
  RqSize = 1
  RrqSize = 1
  spinks = 1
  Targets = {k1, k2, NULL}
  Softirqs = {k1, k2}
  Watchdog = TRUE
  Preemption = TRUE
SPECIFICATION Spec
SYMMETRY Symmetry
INVARIANTS
  TypeOK
  OnePlace
