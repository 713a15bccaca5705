CONSTANTS
  MaxSuccs = 4
  MaxPreds = 8
  MaxBlockStmts = 1
  MaxBlocks = 8
  MaxLoopDepth = 2
SPECIFICATION Spec
INVARIANTS BackEdgesAreNatural
PROPERTIES DrawsStructuredFlow
