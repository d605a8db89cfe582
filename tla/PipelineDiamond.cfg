SPECIFICATION Spec
CONSTANTS
  stdin = stdin
  a = a
  b = b
  c = c
  rin = rin
  rout = rout
  Worker = {b}
  Producer = {a}
  Consumer = {c}
  Runner = {}
  Stdin = stdin
  InputRelay = {rin}
  OutputRelay = {rout}
  Preds <- DiamondPreds
  EarlyExit = {}
  Faulty = {}
  MaxYield <- DiamondYield
  Events = {}
INVARIANTS Delivery CompleteAtClose
PROPERTIES InOrder ImplementsDataflow
