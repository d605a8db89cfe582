SPECIFICATION BuildSpec
CONSTANTS
  Stage = {a, b, c, d}
  Ghost = ghost
  Parents <- FewParents
SYMMETRY Interchangeable
INVARIANTS BuiltAsDeclared SplitCovers
CHECK_DEADLOCK FALSE
