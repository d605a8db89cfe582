SPECIFICATION Spec
CONSTANTS
  Exchange = {e1, e2}
INVARIANTS Paired QuietAfterClose LogsToStage
PROPERTIES EndsOrUnread
CHECK_DEADLOCK FALSE
