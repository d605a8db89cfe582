SPECIFICATION Spec
CONSTANTS
  stdin = stdin
  a = a
  b = b
  c = c
  rin = rin
  rout = rout
  Worker = {a}
  Producer = {}
  Consumer = {c}
  Runner = {b}
  Stdin = stdin
  InputRelay = {}
  OutputRelay = {}
  Preds <- ChainPreds
  EarlyExit = {}
  Faulty = {a, b, c}
  MaxYield <- ChainYield
  Events = {"interrupt"}
INVARIANTS TypeOK BarrierHolds ErrorsConserved ReturnMeansDone
PROPERTIES Terminates
