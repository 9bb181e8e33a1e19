CONSTANTS
  Atoms <- MCAtoms
  Tasks <- MCTasks
  Groups <- MCGroups
  MutexGroups <- MCMutexGroups
  Acts <- MCActs
  Starts <- MCStarts
  Base <- MCBase
  Derived <- MCDerived
  Programs <- MCPrograms
  Readers <- MCReaders
SPECIFICATION WrittenSpec
INVARIANTS
  DiagonalSuffices
  ValuesAreFacts
  NoActionLost
  AxiomsMean
  WrittenAlike
CHECK_DEADLOCK FALSE
