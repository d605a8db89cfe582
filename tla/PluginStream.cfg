SPECIFICATION Spec
CONSTANTS
  InLen <- InLengths
  OutLen <- OutLengths
  Lim = 2
  Window = 1
  MaxErr = 1
  Faults = {"refused", "cancel", "crash"}
INVARIANTS InputBeforeWork Whole CompleteReturn
PROPERTIES ImplementsRunner
