\* Four threads on the condvar (one can signal while two wait and another queues
\* for the mutex), four on the rwmutex (a writer, a queued writer, two parked readers),
\* three workers and three waiters on the wait group, four threads and three
\* rounds on the barrier, two pairs of a thread and its owner; the channel and
\* the timers have their constants in MCObjects.  A state in which all timers
\* have fired and time is at its bound has no successor.
CONSTANTS
  t1 = t1
  t2 = t2
  t3 = t3
  t4 = t4
  w1 = w1
  w2 = w2
  w3 = w3
  p1 = p1
  p2 = p2
  k1 = k1
  k2 = k2
  e1 = e1
  e2 = e2
  MaxRounds = 3
  NULL = NULL
  Thread = {t1, t2, t3, t4}
SPECIFICATION ObjectsSpec
CHECK_DEADLOCK FALSE
INVARIANTS
  MutualExclusion
  HeldMeansOwned
  NoLostWakeup
  WriterExcludes
  CountIsHolders
  WaitsForAll
  Lockstep
  JoinSafe
  RingSound
  HeapOrder
  SlotsExact
PROPERTIES
  ImplementsLock
  WaiterAcquires
  SignalledReturns
  ReaderAcquires
  EverythingReturns
  ImplementsChannel
  TimersFire
