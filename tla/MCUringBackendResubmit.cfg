CONSTANTS
  Requests = {r1, r2, r3}
  QueueDepth = 2
  MaxSubmitFailures = 1
  MaxWaitFailures = 0
  Frames = {f1, f2}
  NoRequest = NoRequest
  NoFrame = NoFrame
SPECIFICATION Spec
INVARIANT CompletionsExpected
