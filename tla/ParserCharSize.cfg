SPECIFICATION Spec
CONSTANTS
  Queries <- ColumnQueries
  FirstCapa = 4
CHECK_DEADLOCK FALSE
INVARIANTS
  CharSizeClosed
