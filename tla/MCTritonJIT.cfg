CONSTANTS
  Funs <- MCFuns
  Values <- MCValues
  Warps = {3, 4}
  Half32 = 32
  Half64 = 64
  MaxJitted = 2
  MaxSrc = 1
  MaxCalls = 3
SPECIFICATION Spec
INVARIANTS KernelFitsArguments ArgumentsArrive HashOfOwnSource
CHECK_DEADLOCK FALSE
