CONSTANTS
  MaxLen = 3
  Undef = Undef
  Plans <- MCPlans
  Predicate <- MCPredicate
  MapFunc <- MCMapFunc
  ReduceFunc <- MCReduceFunc
SPECIFICATION Spec
INVARIANTS Protocol CallsNest NoUndefElement PulledOnDemand
PROPERTIES EndIsFinal ImplementsProgram Termination
