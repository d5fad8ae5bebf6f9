SPECIFICATION McSpec
CONSTANTS
  t1 = t1
  t2 = t2
  t3 = t3
  c1 = c1
  c2 = c2
  Threads <- McThreads
  Conns <- McConns
  Listener = listener
INVARIANTS OnePlaceEach NoEarlyStop NoneSleepsOn
PROPERTIES ImplementsPool ThreadsReturn MessagesRead
CHECK_DEADLOCK FALSE
