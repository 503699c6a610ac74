\* Two decisions, two orders at once, two attempts each.
SPECIFICATION Spec
CONSTANTS
  d1 = d1
  d2 = d2
  Decisions = {d1, d2}
  MaxRetries = 2
  MaxEntries = 2
  Quantity = 2
  Held = {"acknowledge", "cancel", "settle"}
  MaxOrders = 2
SYMMETRY Interchangeable
INVARIANTS
  TypeOK
  ClaimsAreReal
  RemembersLastOrders
  LookupIsSafe
