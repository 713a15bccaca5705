SPECIFICATION SpecFront
CONSTANTS
  x = x
  main = main
  Names = {x}
  Types = {"int", "String", "int64"}
  Funcs = {main}
  Exprs <- MCExprs
  MaxOpen = 3
  MaxLabels = 6
INVARIANTS TypeOKCheck ScopesAreFunctions JumpsAreRight AccessWidths CheckedDerefInMem
