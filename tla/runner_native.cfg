CONSTANTS
  Runs = {r1, r2}
  r1 = r1
  r2 = r2
  Kinds = {"ICPCES"}
  Native = TRUE
  MaxRounds = 1
  Parallel = TRUE
  Killable = TRUE
  Outputs = {"plan"}
  Background = FALSE
  Nobody = Nobody
SPECIFICATION MCSpec
INVARIANT OwnAnswer
INVARIANT WholePlan
PROPERTY CallsReturn
CHECK_DEADLOCK FALSE
