SPECIFICATION Spec
CONSTANTS
  c1 = c1
  c2 = c2
  Clients = {c1, c2}
  Requests <- FewRequests
  Prices = {3, 4}
  RefPrice = 3
  FeeRate = 1
  StartBalance = 12
  MaxOrders = 3
  MaxOverlapped = 2
SYMMETRY Interchangeable
INVARIANTS
  NoPhantomFill
  CancelledRestsNoMore
  SerialBooksBalance
PROPERTIES
  SettledOrdersAreFinal
