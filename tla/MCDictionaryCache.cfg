SPECIFICATION FairSpec
CONSTANTS
  Threads = {t1, t2}
  zh = zh  zh_CN = zh_CN  zh_SG = zh_SG  yue = yue  yue_CN = yue_CN  yue_HK = yue_HK
  zhKey = zhKey  yueKey = yueKey  zh_CNKey = zh_CNKey
  zh_TWKey = zh_TWKey  yue_CNKey = yue_CNKey  zh_HKKey = zh_HKKey
  a = a  a_slash = a_slash  b = b  c = c  slash = slash
  rootDefault = rootDefault
  Locales <- MCLocales
  Walk <- MCWalk
  Language <- MCLanguage
  FallthroughMap <- MCFallthroughMap
  Keys <- MCKeys
  Offers <- MCOffers
  Normal <- MCNormal
  Unset = Unset
  Asked <- MCAsked
  Generic <- MCGeneric
  FallbackOf <- MCFallbackOf
  DefaultRoot = rootDefault
  EmptyPath = EmptyPath
  Files <- MCFiles
  Free = Free
  NoLocale = NoLocale
  NoFile = NoFile
  NoDictionary = NoDictionary
  Empty = Empty
  Scripts = {"Hans", "Hant"}
  Countries = {"CN", "SG", "TW", "HK"}
  Keywords = {}
  Invalid = {}
INVARIANTS RegistrationsRespected
PROPERTIES ImplementsServiceCache MutexReleased
