SPECIFICATION Spec
CONSTANTS
  Threads = {t1, t2, t3}
  Contexts = {platform, a, b}
  DefaultLogger = platform
  Disabled = 2
  Info = 1
  NoContext = NoContext
  Free = Free
INVARIANTS CallbacksRespected
