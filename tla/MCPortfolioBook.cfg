\* Two positions in one symbol or in two, on either side, through every operation.
\* A portfolio may rest when all is closed.
SPECIFICATION Spec
CONSTANTS
  EURUSD = EURUSD
  GBPUSD = GBPUSD
  Symbols = {EURUSD, GBPUSD}
  Prices = {2, 3, 4}
  Quantities = {0, 1, 2}
  Charge = 1
  OpeningBalance = 10
  Amounts = {3}
  Slack = 1
  MaxPositions = 2
  MaxSize = 2
  MaxFlows = 1
SYMMETRY Interchangeable
CHECK_DEADLOCK FALSE
INVARIANTS
  NoPhantomExposure
  BalanceIsBooked
  MarginIsHeld
