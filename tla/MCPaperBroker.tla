--------------------------- MODULE MCPaperBroker ---------------------------
(***************************************************************************)
(* Instances of PaperBroker, and of its refinement of TradeLedger, for TLC.*)
(* Prices are multiples of 12, so that the weighted averages of the small  *)
(* quantities used here are whole numbers.                                 *)
(***************************************************************************)
EXTENDS BrokerLedger, TLC

CONSTANTS EURUSD, GBPUSD, c1, c2

Q(b, a) == [bid |-> b, ask |-> a]
LowQuote == Q(24, 36)
MidQuote == Q(48, 60)
HighQuote == Q(72, 84)
TwoQuotes == {LowQuote, HighQuote}
ThreeQuotes == {LowQuote, MidQuote, HighQuote}

Order(s, side, type, qty, price, stop, tp, trail) ==
  [symbol |-> s, side |-> side, type |-> type, qty |-> qty, price |-> price,
   stop |-> stop, tp |-> tp, trail |-> trail]

MarketOrders ==
  {Order(EURUSD, side, "market", qty, 0, 0, 0, 0) : side \in Sides, qty \in 1..2}

TwoMarkets ==
  {Order(EURUSD, side, "market", 1, 0, 0, 0, 0) : side \in Sides}
  \cup {Order(EURUSD, "sell", "market", 2, 0, 0, 0, 0),
        Order(GBPUSD, "buy", "market", 1, 0, 0, 0, 0)}

RestingOrders ==
  {Order(EURUSD, "buy", "limit", 2, 36, 0, 0, 0),
   Order(EURUSD, "sell", "limit", 1, 72, 0, 0, 0),
   Order(EURUSD, "buy", "stop", 1, 0, 84, 0, 0),
   Order(EURUSD, "sell", "stop", 1, 0, 24, 0, 0),
   Order(EURUSD, "sell", "trailing_stop", 1, 0, 0, 0, 12),
   Order(EURUSD, "buy", "limit", 1, 0, 0, 0, 0)}

ProtectedOrders ==
  {Order(EURUSD, "buy", "market", 2, 0, 24, 72, 0),
   Order(EURUSD, "sell", "market", 1, 0, 84, 36, 0),
   Order(EURUSD, "buy", "market", 1, 0, 0, 0, 24),
   Order(EURUSD, "sell", "market", 2, 0, 96, 0, 24),
   Order(EURUSD, "sell", "stop", 2, 0, 24, 0, 0),
   Order(EURUSD, "buy", "limit", 1, 36, 0, 0, 0)}

Amend(qty, price, stop, sl, tp) ==
  [qty |-> qty, price |-> price, stop |-> stop, sl |-> sl, tp |-> tp]
NoAmendments == {}
SomeAmendments == {Amend(0, 72, 0, 0, 0), Amend(1, 0, 60, 24, 0)}

OneLot == {0}
Slips == {0, 12}
OneBalance == {1000}

Interchangeable == Permutations(Calls)

=============================================================================
