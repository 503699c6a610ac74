SPECIFICATION Spec
CONSTANTS
  c1 = c1
  c2 = c2
  Clients = {c1, c2}
  Requests <- FewRequests
  Prices = {3, 4}
  RefPrice = 3
  FeeRate = 0
  StartBalance = 12
  MaxOrders = 2
  MaxOverlapped = 2
INVARIANT BooksBalance
