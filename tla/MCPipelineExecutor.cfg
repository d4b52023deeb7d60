CONSTANTS
  Buffers = {b1, b2, b3}
  NoBuffer = NoBuffer
  BlockSize = 2
  QueueDepth = 1
  MaxFileLen = 5
  NumStages = 2
  MaxU64 = 4
SPECIFICATION Spec
SYMMETRY Symmetry
INVARIANTS
  BuffersOwnedOnce BlocksIntact SuccessIsComplete FirstFailureWins
  LeasesReturned GuardsUnreachable
PROPERTY ImplementsSerial
