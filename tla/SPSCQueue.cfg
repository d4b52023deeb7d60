CONSTANTS
  Capacity = 2
  MaxPushes = 4
  MaxStops = 3
  producer = producer
  consumer = consumer
  Controllers = {c1, c2}
  Failures = {e1, e2}
  NoFailure = NoFailure
  Empty = Empty
SPECIFICATION FairSpec
INVARIANTS RingInOrder ValuesAccounted GaugeExact NoLostWakeup
PROPERTIES ImplementsChannel BlockedCallsReturn EveryValueLeaves
