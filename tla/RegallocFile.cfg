CONSTANTS
  Names <- MCNames
  PtrNames <- MCPtrNames
  ArgNames <- MCArgNames
  Bodies <- MCBodies
  MaxRegs = 7
  NumAllocRegs = 1
  MaxFuncs = 2
SPECIFICATION Spec
INVARIANTS TableComplete RegisterGoesRight SlotsAreRight
CHECK_DEADLOCK FALSE
