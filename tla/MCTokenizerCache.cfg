SPECIFICATION FairSpec
CONSTANTS
  Threads = {t1, t2}
  Tokenizers = {k1, k2, k3}
  en = en  en_GB = en_GB  he = he  iw = iw  xx = xx  root = root
  Locales <- MCLocales
  Root = root
  English = en
  Configured <- MCConfigured
  Buildable <- MCConfigured
  NoLocale = NoLocale
  NoConfig = NoConfig
  NoTokenizer = NoTokenizer
  NotBuilt = NotBuilt
  Free = Free
  Parent <- MCParent
  Alias <- MCAlias
  Fallback <- MCFallback
INVARIANTS OneTokenizerPerFamily ConfiguredForFamily
PROPERTIES ImplementsServiceCache Answered
