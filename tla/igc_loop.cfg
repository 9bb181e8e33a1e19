SPECIFICATION Spec
CONSTANTS
  Vars <- MCVars
  Dom <- MCDom
  Op <- MCOp
  Rules = {}
  Layer <- MCNone
  Default <- MCDefault
  Goal <- MCGoal
  Starts <- MCStarts
  MaxSearch = 5
  MaxCached = 4
  LoopLimit = 2
  MaxRounds = 4
  Undecided <- MCUndecided
INVARIANT AcceptedIsConformant
INVARIANT CacheIsTrue
PROPERTY EachStartIsNew
PROPERTY Stops
CHECK_DEADLOCK FALSE
