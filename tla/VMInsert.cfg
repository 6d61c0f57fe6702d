SPECIFICATION Spec
CONSTANTS
  WordMod = 32
  IntMod = 16
  VM_STACK_SIZE = 5
  Strings = {1}
  HeapBase = 17
  MaxObjs = 12
  Programs <- TablePrograms
CHECK_DEADLOCK FALSE
PROPERTY
  InsertUnderflow
