SPECIFICATION FSpec
CONSTANTS
  Queries = {}
  FirstCapa = 32
  TokenSize = 2
  ArenaSize = 80
  Texts <- ScriptTexts
INVARIANTS
  TestScriptAccepted
