\* Liveness (no symmetry), with three threads, so that two can keep a third waiting.
CONSTANTS
  k1 = k1
  k2 = k2
  k3 = k3
  t1 = t1
  t2 = t2
  t3 = t3
  NULL = NULL
  Kthread = {k1, k2}
  Thread = {t1, t2, t3}
  main = t1
  RqSize = 1
  RrqSize = 1
  spinks = 0
  Targets = {k1, NULL}
  Softirqs = {}
  Watchdog = TRUE
  Preemption = FALSE
SPECIFICATION FairSpec
PROPERTIES
  RunnableRuns
