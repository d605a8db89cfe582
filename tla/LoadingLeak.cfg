SPECIFICATION Spec
CONSTANTS
  Templates <- NestedOnly
  Roots = {"root", "torn", "nowhere"}
  Malformed = {"torn"}
  Cli = {"x", "target"}
  Outside = {}
INVARIANT OnlyFromAround
CHECK_DEADLOCK FALSE
