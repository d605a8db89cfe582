SPECIFICATION Spec
CONSTANTS
  Chains <- Short
  Inputs = 2
  MaxYield = 1
  Events = {"fail", "cancel"}
INVARIANTS NothingMadeUp DrainedAtReturn ErrorsAccounted
PROPERTIES Returns
