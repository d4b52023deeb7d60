CONSTANTS
  Requests = {r1, r2, r3}
  Workers = {w1, w2}
  MaxInflight = 2
  NoRequest = NoRequest
SPECIFICATION FairSpec
INVARIANTS
  RequestsTracked ResultsMatch NoLostWakeup DestructorDrains
PROPERTY CallsReturn
