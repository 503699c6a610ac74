---------------------------- MODULE BrokerLedger ----------------------------
(***************************************************************************)
(* How PaperBroker implements TradeLedger: what its book of positions, its *)
(* balance and its orders say in the terms of the ledger.                  *)
(***************************************************************************)
EXTENDS PaperBroker, Functions

\* What is bought counts positive, what is sold negative.
Signed(p, x) == IF p.side = "buy" THEN x ELSE -x

Nets == [id \in DOMAIN positions |-> Signed(positions[id], positions[id].qty)]
Costs == [id \in DOMAIN positions |-> Signed(positions[id], positions[id].basis)]

NetIn(s) == SumFunctionOnSet(Nets, HeldIn(s))
CostOfBook == SumFunctionOnSet(Costs, DOMAIN positions)

\* What an order may be filled with: up to the quantity it was submitted with or
\* amended to.
Lots == (UNION {1..r.qty : r \in Requests}) \cup (UNION {1..a.qty : a \in Amendments})

Ledger == INSTANCE TradeLedger WITH
  quote <- quotes,
  net <- [s \in Symbols |-> NetIn(s)],
  cash <- balance + charged - CostOfBook,
  done <- [id \in DOMAIN orders |-> orders[id].filled],
  OpeningCash <- StartBalance,
  OrderIds <- FirstOrderId..(FirstOrderId + MaxOrders - 1)

\* Whatever the adapter's bookkeeping does (netting, partial fills, batches of
\* triggered orders, stop losses, resets), each of its steps trades one order
\* at most once, at a price the market offered, and no money appears or is lost.
ImplementsLedger == Ledger!Spec

=============================================================================
