SPECIFICATION Spec
CONSTANTS
  Request = {r1, r2, r3}
INVARIANTS Answered GracefulClose AbortTold
PROPERTIES ReturnsOnCancel
CHECK_DEADLOCK FALSE
