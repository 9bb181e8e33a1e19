CONSTANTS
  Vars <- MCVars
  Dom <- MCDom
  Op <- MCOp
  Rules <- MCRules
  Layer <- MCLayer
  Default <- MCDefault
  Goal <- MCGoal
  Belief <- MCBelief
  Plans <- MCPlans
  Bans <- MCBans
  MaxRounds = 3
SPECIFICATION Spec
INVARIANTS
  AcceptedPlansExecute
CHECK_DEADLOCK FALSE
