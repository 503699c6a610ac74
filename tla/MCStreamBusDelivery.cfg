\* Two subscribers, one of whom raises; two priorities; a restart.
SPECIFICATION FairBusSpec
CONSTANTS
  s1 = s1
  s2 = s2
  Subscribers = {s1, s2}
  Raising = {s1}
  Priorities = {0, 1}
  MaxQueue = 2
  MaxDead = 1
  MaxEvents = 2
  MaxStarts = 2
INVARIANTS
  BusTypeOK
  InOrder
PROPERTIES
  EveryoneIsServed
