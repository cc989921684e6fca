CONSTANTS
  MaxMethodCalls = 3
  MaxHandles = 6
  MaxContexts = 2
  Funcs <- MCFuncs
  Defaults <- MCDefaults
  OtherConfigs <- MCOtherConfigs
  Budget = 2
  Entries = {"f", "g"}
  Times = {1, 2}
  MaxCalls = 3
SPECIFICATION MCSpec
INVARIANTS
  NormalformSound TransformsPrepared LostOnlyToOthers
  PlainHasNoTags KernelsRegistered TagsKept TunedIsBest
