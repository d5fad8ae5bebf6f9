SPECIFICATION Spec
CONSTANTS
  Conns = {c1, c2, c3}
  MaxLapsed = 1
INVARIANTS Registered Guarded OneAcceptor
PROPERTIES Settled StopEndsAll
CHECK_DEADLOCK FALSE
