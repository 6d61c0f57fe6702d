SPECIFICATION EFairSpec
CONSTANTS
  WordMod = 64
  IntMod = 32
  VM_STACK_SIZE = 4
  Strings = {1, 2, 3}
  HeapBase = 9
  MaxObjs = 4
  Statements <- AllStatements
  MaxStmts = 2
CHECK_DEADLOCK FALSE
PROPERTY
  StatementsEnd
