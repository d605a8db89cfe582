SPECIFICATION Spec
CONSTANTS
  root = root
  a = a
  b = b
  c = c
  d = d
  e = e
  k = k
  s = s
  t = t
  u = u
  Leaf = {a, b, c, d, e, k}
  Consumer = {c, k}
  Sub = {s, t, u}
  Root = root
  Home <- NestedHome
  Preds <- NestedPreds
INVARIANTS TypeOK StartsWired
PROPERTIES OutputFirst NothingMissed Opens
