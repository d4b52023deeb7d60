CONSTANTS
  NumBuffers = 3
  Threads = {t1, t2, t3, t4}
SPECIFICATION Spec
SYMMETRY Symmetry
INVARIANTS LeasedOnce NoLostWakeup
