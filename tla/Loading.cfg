SPECIFICATION Spec
CONSTANTS
  Templates <- TemplatesMC
  Roots = {"root", "torn", "nowhere"}
  Malformed = {"torn"}
  Cli = {"x", "target"}
  Outside = {"var", "connect", "config", "mkdir"}
INVARIANTS VariablesReach WhollyLoaded ProcessesOwned
CHECK_DEADLOCK FALSE
