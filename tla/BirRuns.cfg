SPECIFICATION SpecBir
CONSTANTS
  Programs <- MCPrograms
  Element <- MCElement
  MaxStmts = 3
  MaxArgs = 1
  MaxParams = 1
  MaxLocals = 2
CHECK_DEADLOCK FALSE
INVARIANTS TypeOKReader FunctionsApart ReadInPlace ValuesRead SlotsMatchUses ResultWidths
PROPERTIES BirIsRead
