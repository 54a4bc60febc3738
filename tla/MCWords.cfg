SPECIFICATION Spec
CONSTANTS
  NoText = NoText
  Thrown = Thrown
  MaxCalls = 2
  Inflected <- MCInflected
  InflectedLike <- MCInflectedLike
  BrokenUp <- MCBrokenUp
  Order <- MCOrder
  LowerCase <- MCLowerCase
  InflectionKey = "inflection"
  WordBits = 8
  IntBits = 7
  MaxBits = 70
  MaxValues = 3
  MaxSingletons = 7
  GrammarTypes <- MCGrammarTypes
  WideMask <- MCWideMask
INVARIANTS
  LexemeKept
  AskedForIsGiven
  DisambiguationWins
  CompoundsAsTokenized
  FileSaysWhatSourceSaid
CHECK_DEADLOCK FALSE
