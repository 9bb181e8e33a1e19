CONSTANTS
  Formulas <- MCFormulas
  Static = {a, b}
  Later = {c}
  a = a
  b = b
  c = c
  MaxRounds = 2
  MaxGates = 2
SPECIFICATION MCSpec
INVARIANT Equisatisfiable
CHECK_DEADLOCK FALSE
