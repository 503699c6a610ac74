\* Two producers, every overflow policy and backpressure mode; stops, and starts at any time.
SPECIFICATION Spec
CONSTANTS
  s1 = s1
  p1 = p1
  p2 = p2
  Subscribers = {s1}
  Raising = {}
  Priorities = {0}
  MaxQueue = 1
  MaxDead = 1
  MaxEvents = 1
  MaxStarts = 2
  Producers = {p1, p2}
  BufferSize = 4
  OverflowPolicies = {"drop_oldest", "drop_newest", "block"}
  HighWater = 4
  LowWater = 0
  Modes = {"drop_events", "pause_producer", "adaptive"}
  FailureThreshold = 2
  SuccessThreshold = 2
  HalfOpenMaxCalls = 1
SYMMETRY Interchangeable
INVARIANTS
  TypeOK
  WaitersArePaused
PROPERTIES
  OrderlyBus
