SPECIFICATION Spec
CONSTANTS
  market = market
  trading = trading
  c1 = c1
  c2 = c2
  Schedulers = {market, trading}
  Callers = {c1}
  MaxDoublings = 2
  MaxStreak = 2
  MaxTasks = 4
INVARIANTS TypeOK CyclesNeverOverlap EveryLoopIsHeld RunningLoopsAreAlive
PROPERTY StopsReturn
