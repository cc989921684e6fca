CONSTANTS
  NumTasks = 2
  CpuCount = 2
  CpusPerBenchmark = 2
  Budget = 3
  MaxFaults = 1
  MayRaise = TRUE
  MayInterrupt = TRUE
SPECIFICATION Spec
INVARIANTS AloneUnlessTimedOut CpusConserved
  ProposalsConserved
PROPERTIES ImplementsAskTell SearchEndsUnlessLost
