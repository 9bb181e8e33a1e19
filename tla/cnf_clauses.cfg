CONSTANTS
  Formulas <- MCFormulas
  Static = {a, b}
  Later = {c}
  a = a
  b = b
  c = c
  MaxRounds = 2
  MaxGates = 2
SPECIFICATION MCSpec
INVARIANTS
  NeverInvents
  NeverLoses
  DropsOnlyUnits
  SampleIsModel
  GatesExact
  IdsApart
CHECK_DEADLOCK FALSE
