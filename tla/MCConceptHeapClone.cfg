SPECIFICATION Spec
CONSTANTS
  Words = {"cat", "nothing"}
  NoWord = NoWord
  Features = {"count", "sound"}
  Categories = {"count"}
  Values = {"singular", "plural"}
  NoValue = NoValue
  Tokens <- MCTokens
  NoText = NoText
  Inflected <- MCInflected
  Known <- MCKnown
  Handles = {h1, h2, h3}
  CountForms = {"singular", "plural"}
  Counting = {TRUE, FALSE}
  Numbers <- MCNumbers
  CountOf <- MCCountOf
  Thrown = Thrown
  Addresses = {1, 2, 3, 4, 5, 6, 7, 8, 9}
  NULL = NULL
  Fresh <- MCFresh
  Local = Local
  Conjunctions <- MCConjunctions
  Settings <- MCSettings
  MaxItems = 1
  MaxCalls = 6
PROPERTIES CloneShowsTheSame
CHECK_DEADLOCK FALSE
