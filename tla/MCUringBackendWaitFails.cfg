CONSTANTS
  Requests = {r1, r2}
  QueueDepth = 2
  MaxSubmitFailures = 0
  MaxWaitFailures = 1
  Frames = {f1, f2}
  NoRequest = NoRequest
  NoFrame = NoFrame
SPECIFICATION Spec
INVARIANT BuffersOutliveReads
