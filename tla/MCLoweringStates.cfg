CONSTANTS
  Programs <- MCPrograms
  UserSymbols <- MCUserSymbols
  Fields <- MCFields
  LeafType = "leaf"
  MaxOps = 4
SPECIFICATION MCSpec
INVARIANT SameStates
