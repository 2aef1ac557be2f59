\* Three kthreads, so that a third one can steal a thread two others are handling.
CONSTANTS
  k1 = k1
  k2 = k2
  k3 = k3
  t1 = t1
  t2 = t2
  t3 = t3
  NULL = NULL
  Kthread = {k1, k2, k3}
  Thread = {t1, t2, t3}
  main = t1
  RqSize = 2
  RrqSize = 1
  spinks = 0
  Targets = {k1}
  Softirqs = {}
  Watchdog = TRUE
  Preemption = FALSE
SPECIFICATION Spec
SYMMETRY UntargetedSymmetry
INVARIANTS
  StackExclusive
  BusyWhileLeaving
  NoSpinCycle
  DetachedIsEmpty
