CONSTANTS
  Requests = {r1, r2, r3, r4}
  QueueDepth = 2
  MaxSubmitFailures = 2
  MaxWaitFailures = 1
  Frames = {f1, f2, f3}
  NoRequest = NoRequest
  NoFrame = NoFrame
SPECIFICATION Spec
SYMMETRY Symmetry
INVARIANTS ResultsOwnUntilReused SuspendedIsOutstanding SafeUntilReused
