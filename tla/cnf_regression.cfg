CONSTANTS
  Vars <- MCVars
  Dom <- MCDom
  Op <- MCOp
  Rules <- MCRules
  Layer <- MCLayer
  Default <- MCDefault
  Goal <- MCGoal
  Belief <- MCBelief
  Plans <- MCPlans
  Bans <- MCBans
  MaxRounds = 3
SPECIFICATION Spec
INVARIANTS
  SummaryIsPlan
  ReplayChangesNothing
  RefutedReallyFails
  UnrefutedReachesGoal
CHECK_DEADLOCK FALSE
