CONSTANTS
  NumProcesses = 2
  MaxJobs = 5
  Pinned = TRUE
SPECIFICATION Spec
INVARIANTS Accounting JoinMeansProcessed
PROPERTY JoinReturnsUnlessStopped
\* After a shutdown() the workers may leave a job behind, and join() waits for it.
CHECK_DEADLOCK FALSE
