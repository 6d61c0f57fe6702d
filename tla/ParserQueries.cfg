SPECIFICATION Spec
CONSTANTS
  Queries <- AllQueries
  FirstCapa = 4
CHECK_DEADLOCK FALSE
INVARIANTS
  TypeOK
  NothingLost
  Precedence
  CrashesAfterCharOnly
  SentencesUnderstood
