SPECIFICATION Spec
CONSTANTS
  NoText = NoText
  Thrown = Thrown
  MaxConstraints = 3
  MaxRounds = 1
  WordsOf <- MCWordsOf
  PatternsOf <- MCPatternsOf
  ShownAs <- MCShownAs
  Told <- MCTold
  ArticlesOf <- MCArticlesOf
  WordsIn <- MCWordsIn
INVARIANTS
  OneArticle
  GuessesOnlyWhenAsked
  WordsKept
  AskedAgain
  ToldAsAsked
  SpokenAsPrinted
  SuffixesInHarmony
CHECK_DEADLOCK FALSE
