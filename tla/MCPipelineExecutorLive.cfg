CONSTANTS
  Buffers = {b1, b2}
  NoBuffer = NoBuffer
  BlockSize = 2
  QueueDepth = 1
  MaxFileLen = 3
  NumStages = 1
  MaxU64 = 2
SPECIFICATION FairSpec
PROPERTY Terminates
