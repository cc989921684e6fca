CONSTANTS
  Programs <- MCPrograms
  UserSymbols <- MCUserSymbols
  Fields <- MCFields
  LeafType = "leaf"
  MaxOps = 4
SPECIFICATION MCSpec
INVARIANTS
  SymbolsUnique CallsResolved ErasedUnused InOrderIsAnalysed
  SameLeaves SameTuples
