CONSTANTS
  Threads = {t1, t2, t3}
  MaxOps = 3
  Amounts = {1, 2}
  MaxValue = 3
  Modulus = 8
  SetValues = {1, 3}
  Elapsed = {0, 2, 4}
  MaxFiniteBuckets = 2
  UpperBounds <- Bounds
SPECIFICATION Spec
SYMMETRY Symmetry
INVARIANTS SnapshotTruthful WatermarkIsPeak
PROPERTY WatermarkNeverFalls
