CONSTANTS
  Vars <- MCVars
  States <- MCStates
  Original <- MCOriginal
  Last <- MCLast
  Groups <- MCGroups
  Mapped <- MCMapped
  Combined = FALSE
  MaxEntries = 3
SPECIFICATION MCSpec
INVARIANTS
  ExactSampleSet
  StructuredStaysInBelief
  NeverRefusesItsOwnSamples
PROPERTY KeepsPromise
CHECK_DEADLOCK FALSE
