CONSTANTS
  SizeMax = 15
  PointerSize = 2
  MaxDimension = 3
  ByteMax = 3
  ChecksumSpace = 16
  MaxBlock = 3
  MaxMetrics = 4
  Pipelines = {p1, p2, p3}
  Instrumented = {p1, p2}
  Stages = {"byte_increment", "normalize", "overlong"}
  MaxStages = 2
  Executors = {e1, e2}
SPECIFICATION SetupSpec
SYMMETRY Symmetry
INVARIANTS ConfigSound FallbackHonest MetricsOwned StageLaws ChecksumTellsChanges
