SPECIFICATION Spec
CONSTANTS
  MAX = 3
  Value = {1, 2, 3}
  W = 16
PROPERTIES WritesSorted
CHECK_DEADLOCK FALSE
