SPECIFICATION Spec
CONSTANTS
  Inputs = 4
  Lines = 5
  Empty = {2}
  Long = {4}
  Room = 1
INVARIANTS LinesAccounted
PROPERTIES Ends
CHECK_DEADLOCK FALSE
