SPECIFICATION Spec
CONSTANTS
  EURUSD = EURUSD
  GBPUSD = GBPUSD
  c1 = c1
  c2 = c2
  Symbols = {EURUSD, GBPUSD}
  Quotes <- TwoQuotes
  DefaultQuote <- LowQuote
  Requests <- TwoMarkets
  Amendments <- NoAmendments
  Slippages <- OneLot
  PartialFills = FALSE
  CommissionRate = 1
  StartBalance <- OneBalance
  Calls = {c1}
  MaxOrders = 3
  MaxResets = 0
INVARIANTS
  OnePositionPerSymbol
  FeesAreTakenOnce
PROPERTIES
  ImplementsLedger
