\* Two threads with magazines of two items over seven items, and
\* three clients that compete for two cores; the other parts have their
\* constants in MCPlatform.  A part whose bound is reached stops.
CONSTANTS
  t1 = t1
  t2 = t2
  t3 = t3
  i1 = i1
  i2 = i2
  i3 = i3
  i4 = i4
  i5 = i5
  i6 = i6
  i7 = i7
  A = A
  B = B
  NULL = NULL
  Thread = {t1, t2}
  Item = {i1, i2, i3, i4, i5, i6, i7}
  MagSize = 2
  Proc = {t1, t2, t3}
  Guaranteed = 1
  TotalCores = 2
  QueueSize = 4
  BurstSize = 4
SPECIFICATION PlatformSpec
CHECK_DEADLOCK FALSE
INVARIANTS
  OnePlaceEach
  MagazinesFull
  ItemsAccounted
  PagesPlaced
  ArrayBounded
  QueuesFaithful
  NoBug
  CoreOwnership
  CountersExact
  RefsExact
  WakeExact
  NoDangling
  PromiseCovered
PROPERTIES
  AllImplement
