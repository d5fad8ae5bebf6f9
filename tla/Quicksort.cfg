SPECIFICATION FairSpec
CONSTANTS
  MAX = 5
  Value = {1, 2, 3, 4}
INVARIANTS InBounds SplitsStand
PROPERTIES ImplementsSort
CHECK_DEADLOCK FALSE
