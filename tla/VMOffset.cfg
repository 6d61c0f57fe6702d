SPECIFICATION Spec
CONSTANTS
  WordMod = 32
  IntMod = 16
  VM_STACK_SIZE = 3
  Strings = {1}
  HeapBase = 17
  MaxObjs = 0
  Programs <- NumberPrograms
CHECK_DEADLOCK FALSE
PROPERTY
  OffsetUnderflow
