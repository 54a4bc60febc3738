SPECIFICATION Spec
CONSTANTS
  Threads = {t1, t2, t3, t4}
  Iterators = {i1, i2, i3, i4, i5}
  MaxPoolSize = 2
  None = None
SYMMETRY Symmetry
INVARIANTS Exclusive ReadsOwnText PoolAccounted
