CONSTANTS
  Names <- MCNames
  PtrNames <- MCPtrNames
  ArgNames <- MCArgNames
  Bodies <- MCBodies
  MaxRegs = 7
  NumAllocRegs = 1
  MaxFuncs = 2
SPECIFICATION Spec
INVARIANT SlotsApart
CHECK_DEADLOCK FALSE
