SPECIFICATION Spec
CONSTANTS
  Threads = {t1, t2, t3}
  CallbackTakes = {"registration", "pool", "exemplars"}
  Nobody = Nobody
INVARIANTS NoCircularWait
