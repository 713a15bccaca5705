CONSTANTS
  MaxSuccs = 4
  MaxPreds = 2
  MaxBlockStmts = 1
  MaxBlocks = 8
  MaxLoopDepth = 1
SPECIFICATION Spec
INVARIANTS TypeOK GraphShape LoopStackInv CyclesAreFlagged
PROPERTIES SealedBlocks DrawsStructuredFlow
