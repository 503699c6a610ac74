---------------------------- MODULE TradeLedger ----------------------------
(***************************************************************************)
(* What a paper broker promises, with no order book and no positions: it   *)
(* moves signed exposure against cash at prices the market offers.  Every  *)
(* registered order is executed at most once, an exit takes a symbol to    *)
(* exactly zero, and between two resets cash changes only by what was      *)
(* traded (fees are accounted for separately).                             *)
(***************************************************************************)
EXTENDS Integers

CONSTANTS Symbols, Quotes, DefaultQuote, Slippages, OpeningCash, OrderIds, Lots

VARIABLES
  quote,  \* market per symbol
  net,    \* signed exposure per symbol: bought minus sold
  cash,   \* money, were every open unit valued at nothing
  done    \* quantity executed per registered order

vars == <<quote, net, cash, done>>

BuyPrices(s) == {quote[s].ask + x : x \in Slippages}
SellPrices(s) ==
  {IF quote[s].bid - x >= 1 THEN quote[s].bid - x ELSE 1 : x \in Slippages}

Init ==
  /\ quote = [s \in Symbols |-> DefaultQuote]
  /\ net = [s \in Symbols |-> 0]
  /\ cash \in OpeningCash
  /\ done = << >>

Register(id) ==
  /\ id \notin DOMAIN done
  /\ done' = [i \in DOMAIN done \cup {id} |-> IF i = id THEN 0 ELSE done[i]]
  /\ UNCHANGED <<quote, net, cash>>

\* An order, registered before or just now, is executed once, for one lot.
Executes(id, lot) ==
  /\ id \in DOMAIN done => done[id] = 0
  /\ done' = [i \in DOMAIN done \cup {id} |-> IF i = id THEN lot ELSE done[i]]

Buy(id, s, lot) ==
  /\ Executes(id, lot)
  /\ net' = [net EXCEPT ![s] = @ + lot]
  /\ \E p \in BuyPrices(s) : cash' = cash - lot * p
  /\ UNCHANGED quote

Sell(id, s, lot) ==
  /\ Executes(id, lot)
  /\ net' = [net EXCEPT ![s] = @ - lot]
  /\ \E p \in SellPrices(s) : cash' = cash + lot * p
  /\ UNCHANGED quote

\* All exposure in s is given up at the top of the book q.
Unwind(s, q) ==
  /\ net[s] # 0
  /\ net' = [net EXCEPT ![s] = 0]
  /\ cash' = cash + net[s] * (IF net[s] > 0 THEN q.bid ELSE q.ask)
  /\ UNCHANGED done

Exit(s) == Unwind(s, quote[s]) /\ UNCHANGED quote

Requote(s, q) ==
  /\ quote' = [quote EXCEPT ![s] = q]
  /\ \/ UNCHANGED <<net, cash, done>>
     \/ Unwind(s, q)

Reset ==
  /\ net' = [s \in Symbols |-> 0]
  /\ cash' \in OpeningCash
  /\ done' = << >>
  /\ UNCHANGED quote

Next ==
  \/ \E id \in OrderIds : Register(id)
  \/ \E id \in OrderIds, s \in Symbols, lot \in Lots : Buy(id, s, lot) \/ Sell(id, s, lot)
  \/ \E s \in Symbols : Exit(s)
  \/ \E s \in Symbols, q \in Quotes : Requote(s, q)
  \/ Reset

Spec == Init /\ [][Next]_vars

=============================================================================
