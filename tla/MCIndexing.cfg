CONSTANTS
  Names = {"x", "y", "z"}
  Targets = {"y"}
  MaxStatements = 2
  Frames <- MCFrames
  Reads <- MCReads
  Writes <- MCWrites
  Operands <- MCOperands
  Ranges <- MCRanges
SPECIFICATION Spec
INVARIANTS GetMeansIndex SetWritesIndex AliasesAgree UniqueIsTrue BuildAgreesWithRun
\* The body of the function ends.
CHECK_DEADLOCK FALSE
