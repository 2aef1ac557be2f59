\* Two threads, a ring of two slots and counters that wrap after two passes; a
\* ring of which only rq_head has wrapped is joined as it is.
CONSTANTS
  Thread = {i1, i2}
  RqSize = 2
  Wrap = 4
  JoinWrapped = TRUE
  None = None
SPECIFICATION Spec
PROPERTIES
  JoinRewakes
