SPECIFICATION Spec
CONSTANTS
  EURUSD = EURUSD
  GBPUSD = GBPUSD
  c1 = c1
  c2 = c2
  Symbols = {EURUSD}
  Quotes <- ThreeQuotes
  DefaultQuote <- MidQuote
  Requests <- ProtectedOrders
  Amendments <- NoAmendments
  Slippages <- OneLot
  PartialFills = FALSE
  CommissionRate = 1
  StartBalance <- OneBalance
  Calls = {c1, c2}
  MaxOrders = 2
  MaxResets = 1
INVARIANTS
  RestsOnlyUntouched
PROPERTIES
  TrailNeverLoosens
  ImplementsLedger
SYMMETRY Interchangeable
