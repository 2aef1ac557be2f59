\* Threads that all want kthread k1, one of them in its runqueue (no symmetry).
CONSTANTS
  k1 = k1
  k2 = k2
  k3 = k3
  t1 = t1
  t2 = t2
  t3 = t3
  NULL = NULL
  Kthread = {k1, k2}
  Thread = {t1, t2, t3}
  main = t1
  RqSize = 1
  RrqSize = 1
  spinks = 0
  Targets = {k1}
  Softirqs = {}
  Watchdog = TRUE
  Preemption = FALSE
SPECIFICATION FairSpec
PROPERTIES
  YieldingLetsRun
