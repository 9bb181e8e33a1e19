CONSTANTS
  Vars <- MCVars
  States <- MCStates
  Original <- MCOriginal
  Last <- MCLast
  Groups <- MCGroups
  Mapped <- MCMapped
  Combined = FALSE
  Operators <- MCOperators
  Solves <- MCSolves
  Names <- MCNames
  Exact <- MCExact
  Relaxed <- MCRelaxed
  RawPlans <- MCRawPlans
  Profile = "GC"
  Mode = "exact"
  BasicValidation = TRUE
  MaxIterations = 3
  DuplicateLimit = 2
  SoundPlanner = FALSE
  SolverMayGiveUp = TRUE
  Faults = FALSE
  NoState = NoState
  OldFile = OldFile
SPECIFICATION Spec
CHECK_DEADLOCK FALSE
INVARIANTS
  AcceptedIsConformant
