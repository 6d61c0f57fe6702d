SPECIFICATION FairSpec
CONSTANTS
  WordMod = 32
  IntMod = 16
  VM_STACK_SIZE = 5
  Strings = {1}
  HeapBase = 17
  MaxObjs = 12
  Programs <- AllPrograms
CHECK_DEADLOCK FALSE
INVARIANT
  TypeOK
PROPERTIES
  UnderflowSignalled
  DivisionTruncates
  FailedStepsAreClean
  BelowIsKept
  ObjectsStay
  ForwardProgramsEnd
