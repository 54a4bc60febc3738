SPECIFICATION MessageSpec
CONSTANTS
  \* Pronouns
  Features = {"person", "gender"}
  Dependencies = {"of sound", "of number"}
  Sound = "of sound"
  Values = {"second", "third", "masculine", "feminine", "vowel", "consonant", "neuter", "plural", "singular"}
  AnyValue = AnyValue
  Absent = Absent
  Words = {"they", "you", "le ", "le", "mes", "y'all", ""}
  Empty = ""
  Folded <- MCFolded
  Spelling <- MCSpelling
  Tables <- MCTables
  Customs <- MCCustoms
  Givens <- MCGivens
  Asks <- MCAsks
  References <- MCReferences
  NoReference = NoReference
  NoText = NoText
  \* Concepts
  NoString = NoString
  NoValue = NoValue
  Thrown = Thrown
  CommonGrammar <- MCCommonGrammar
  Grammars <- MCGrammars
  Generated <- MCGenerated
  Known <- MCKnown
  PronounOf <- MCPronounOf
  \* Numbers
  MaxLong = 99
  Scripts = {"Hant"}
  Keywords = {}
  Countries = {"US", "AT", "CH", "DE", "FR", "BE", "IT", "HK"}
  Invalid = {}
  Available <- MCAvailable
  NameBefore <- MCNameBefore
  InDigits <- MCInDigits
  ByRules <- MCByRules
  RulesOf <- MCRulesOf
  DefaultRules = "default"
  KeywordsOf <- MCKeywordsOf
  KeywordOf <- MCKeywordOf
  \* Factories
  Supported = {"nn"}
  CyrillicLocales = {"ru", "sr"}
  HasCyrillic <- MCHasText
  HasHebrew <- MCHasText
  HasNoSpaces <- MCHasText
  StartsWithoutSpace <- MCHasText
  EndsWithVowel <- MCEndsWithVowel
  StartsWithI <- MCIsBook
  StartsWithO <- MCIsBook
  StartsWithE <- MCIsBook
  Quotes <- Marks
  ListsOf <- MCListsOf
  Patterns <- MCPatterns
  PluralWords <- MCPluralWords
  \* Messages
  Calls <- MCCalls
  PronounCalls <- MCPronounCalls
  MessageTables <- MCMessageTables
  DependsOn <- MCDependsOn
  SoundsOf <- MCSoundsOf
  Pieces <- MCPieces
  KeyBefore <- MCKeyBefore
  QuantityOf <- MCQuantityOf
INVARIANTS UnknownFeatureShowsWord
