\* One process in isolated mode: two rounds, with planners that leave
\* descendants behind, and the process may be killed.
CONSTANTS
  Runs = {r1}
  r1 = r1
  Kinds = {"T1", "CFF", "IGC", "GCPCES", "ICPCES", "CPAH", "CNF", "PIP"}
  Native = FALSE
  MaxRounds = 2
  Parallel = FALSE
  Killable = TRUE
  Outputs = {"plan", "noplan", "bare", "junk"}
  Background = TRUE
  Nobody = Nobody
SPECIFICATION Spec
INVARIANT TypeOK
INVARIANT OwnAnswer
INVARIANT OneCommandAtATime
INVARIANT TimedOutIsSilent
CHECK_DEADLOCK FALSE
