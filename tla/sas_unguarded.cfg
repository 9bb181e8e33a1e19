CONSTANTS
  Atoms <- MCAtoms
  Tasks <- MCTasks
  Groups <- MCGroups
  MutexGroups <- MCMutexGroups
  Acts <- MCActs
  Starts <- MCStarts
  Base <- MCBase
  Derived <- MCDerived
  Programs <- MCPrograms
  Readers <- MCReaders
SPECIFICATION MCSpec
INVARIANT DeletesAreGuarded
CHECK_DEADLOCK FALSE
