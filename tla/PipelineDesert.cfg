SPECIFICATION Spec
CONSTANTS
  stdin = stdin
  a = a
  b = b
  c = c
  rin = rin
  rout = rout
  Worker = {b}
  Producer = {a}
  Consumer = {}
  Runner = {c}
  Stdin = stdin
  InputRelay = {}
  OutputRelay = {}
  Preds <- DesertPreds
  EarlyExit = {c}
  Faulty = {}
  MaxYield <- DesertYield
  Events = {"cancel"}
INVARIANTS Delivery
PROPERTIES EndsOrStuck
CHECK_DEADLOCK FALSE
