SPECIFICATION FFairSpec
CONSTANTS
  Queries = {}
  FirstCapa = 32
  TokenSize = 2
  ArenaSize = 80
  Texts <- AllTexts
INVARIANTS
  LongestMatch
  BlocksHold
  NothingDropped
  AsMeant
PROPERTIES
  TextsEnd
