CONSTANTS
  Vars <- MCVars
  States <- MCStates
  Original <- MCOriginal
  Last <- MCLast
  Groups <- MCGroups
  Mapped <- MCMapped
  Combined = FALSE
  Operators <- MCOperators
  Solves <- MCSolves
  Names <- MCNames
  Exact <- MCExact
  Relaxed <- MCRelaxed
  RawPlans <- MCRawPlans
  Profile = "CPAH"
  Mode = "exact"
  BasicValidation = TRUE
  MaxIterations = 4
  DuplicateLimit = 2
  SoundPlanner = FALSE
  SolverMayGiveUp = FALSE
  Faults = TRUE
  NoState = NoState
  OldFile = OldFile
SPECIFICATION MCSpec
CHECK_DEADLOCK FALSE
INVARIANTS
  TypeOK
  OutputsVerified
  StoreIsEvidence
  FrequenciesAddUp
  VerifiedIsPlanned
  SoundRunNeverRepeats
PROPERTIES
  NoStaleCandidate
  StoreOnlyGrows
  ImplementsLearner
  SoundRunAccepts
