SPECIFICATION Spec
CONSTANTS
  EURUSD = EURUSD
  GBPUSD = GBPUSD
  c1 = c1
  c2 = c2
  Symbols = {EURUSD}
  Quotes <- TwoQuotes
  DefaultQuote <- LowQuote
  Requests <- RestingOrders
  Amendments <- SomeAmendments
  Slippages <- OneLot
  PartialFills = TRUE
  CommissionRate = 0
  StartBalance <- OneBalance
  Calls = {c1, c2}
  MaxOrders = 2
  MaxResets = 0
INVARIANTS
  TypeOK
  RestingOrdersAgree
PROPERTIES
  FillsOnlyTouched
  SettledOrdersAreFinal
SYMMETRY Interchangeable
