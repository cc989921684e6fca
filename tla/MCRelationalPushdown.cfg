CONSTANTS
  Tables <- MCTables
  Queries <- MCQueries
  MaxOpts = 2
  Plans <- MCPlans
  Predicate <- MCPredicate
  MapFunction <- MCMapFunction
  ReduceFunction <- MCReduceFunction
  KeyAttributes = 1
  MaxSessions = 2
SPECIFICATION MCSpec
INVARIANT NeededColumnsKept
