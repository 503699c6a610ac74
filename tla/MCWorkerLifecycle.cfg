SPECIFICATION Spec
CONSTANTS
  eurusd = eurusd
  gbpusd = gbpusd
  route = route
  lifespan = lifespan
  Symbols = {eurusd, gbpusd}
  Callers = {route, lifespan}
  MaxTasks = 6
  MaxOrders = 3
INVARIANTS SchedulersAreSafe StoppedIsDrained
PROPERTIES OrdersOnlyWhileRunning StopsEnd
