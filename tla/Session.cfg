SPECIFICATION SSpec
CONSTANTS
  WordMod = 64
  IntMod = 32
  VM_STACK_SIZE = 5
  Strings = {1, 2, 3, 4, 5}
  HeapBase = 9
  MaxObjs = 7
  Statements <- SessionStatements
  MaxStmts = 4
  DataSize = 16
  HeaderMod = 64
  ObjNames = {1, 2, 3, 4}
  StrLen <- Lengths
CHECK_DEADLOCK FALSE
INVARIANTS
  CompiledCodeRuns
  ResultsStand
  RowsFitTheirTable
  PagesAgree
  StrayOnlyBeyondContract
PROPERTIES
  ImplementsTables
