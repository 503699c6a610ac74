# Project ORION: verification development

TLA+ models, model-checking runs and machine-checked proofs for the trading core
of Project ORION (`src/project-orion`, Python 3, asyncio).  ORION is a trading
platform that trades on paper: an HTTP API (FastAPI) and an autonomous worker
place orders with an in-memory broker adapter and keep their books in a database.
Paths below are relative to `src/project-orion`; `T/` stands for
`apps/trading-engine/src/` and `X/` for `libraries/infrastructure/execution/`.

`PROJECT.json` is the index: it lists every component, run, mutant, hazard,
finding and theorem, and maps every definition to the lines of code it models.

## 1. Inventory

### 1.1 The parts that decide whether trading is right

| Component | State | Operations | Models |
|---|---|---|---|
| Paper execution adapter, `X/paper_execution.py` | orders, a second copy of the resting ones, positions, balance, quotes, id counters | connect, disconnect, submit, modify, cancel, close, update_quote with its triggers, reset | `PaperBroker`, `TradeLedger` |
| Trading desk, `T/services/order_service.py`, `position_service.py` | account, orders, fills and positions in the database | create_order, cancel_order, close_position | `OrderDesk` |
| Periodic scheduler, `T/workers/scheduler.py` | running flag, task, failure streak, counters | start, stop, the loop with backoff | `AsyncScheduler` |
| Autonomous worker, `T/workers/coordinator.py`, `lifecycle.py`, `trading_cycle.py` | lifecycle state, two schedulers, the cycle under way | start, stop, trading cycle | `Worker` |
| Circuit breaker, `X/circuit_breaker.py` | state, failure and success counts, half-open slots, time of the last change | execute, force_open, force_close, state | `CircuitBreaker` |
| Execution engine, `libraries/domain/execution` | order lifecycles, registry, decision map, deduplicator, brokers | initialize, shutdown, execute with retries, handle_fill, transition, remove | `OrderLifecycle`, `ExecutionEngine` |
| Event stream, `libraries/infrastructure/event_stream` | queue, subscribers, dead letters, delivery loop; buffer, flow, breaker, shutdown | publish, subscribe, deliver, start, stop; process_event | `StreamBus`, `StreamManager` |
| Portfolio engine, `libraries/domain/portfolio` | positions, exposure per symbol and currency, margins, balance | open, close, partly close, increase, merge, split, liquidate, deposit, withdraw | `Portfolio` |
| Retry policy and idempotency store, `X/retry_policy.py`, `idempotency.py` | attempts; processed records by three keys | execute; check, record, evict | not by themselves: the engine has the same two mechanisms |
| Order and session recovery, `X/order_recovery.py`, `session_recovery.py` | recovery records | recover | planned |
| Event bus, `libraries/infrastructure/event_bus` | bounded queue, one delivery task | publish, deliver, start, stop | planned |
| Entitlements and limits, `T/services/entitlement_service.py` | quotas over committed rows | assertions before an order | planned |

How they interact.  A request handler of the API has a database session of its
own, committed when the handler returns and rolled back when it raises
(`T/dependencies.py:70`).  All handlers and the worker share one adapter object.
The worker's coordinator owns two schedulers, one that polls the market and one
that trades; both are background tasks of the one event loop.  Quotes reach the
adapter through `update_quote`, and resting orders and protective stops fire
inside that call.  The adapter tells nobody what it filled.

The last three modelled parts stand apart from that path.  The streaming layer is
composed by its own manager: producers hand events to `process_event`, which passes
rate limiter, breaker, backpressure and buffer and publishes on the bus, whose one
delivery task calls the subscribers.  The execution engine and the portfolio engine
are libraries of the domain layer that the desk and the worker do not use today.

What correctness means for each of them:

* adapter: no order is lost, filled twice, or filled at a price the market did
  not offer; positions net to one per symbol; money is neither made nor lost;
* desk: what it records happened at the broker, and the account is what the
  recorded requests add up to;
* scheduler and worker: one cycle at a time, no loop out of reach of a stop,
  stops that come to an end, nothing trades after a stop has begun;
* breaker (the one of the execution layer): no count survives a change of its state,
  no slot is lost, and it does not stay open after the service has healed;
* event stream: events of one priority are delivered in order, once, and to everyone
  subscribed, through stops, errors, and restarts that wait for the stop; no producer
  sleeps through its wake-up;
* execution engine: what a lifecycle claims has happened at the broker, a decision
  is not executed twice, look-ups lead to what is there;
* portfolio: four managers that are told of each operation separately stay in step.

### 1.2 What is hard here

Everything runs on one event loop, so nothing interleaves but at an `await`.
The hazards (`hazards` in `PROJECT.json`, each at its line) are therefore of
these kinds: rows read before an await and written after it (the desk), a batch
of triggered orders taken under a lock and filled after it (the adapter), the
outcome of a call applied to a later state (the breaker), a stop that meets a
start or another stop (scheduler, worker), a fill at the broker whose request
then fails (desk), two copies of one order (adapter), the boundary between what
rests and what is swept up, and arithmetic at its limit (the backoff).  In the
stream they are a stop that cancels the delivery loop wherever it is suspended
followed by a start, a waiter and the flag it waits for, and slots that are taken
and not given back; in the engine a lost answer and its retry, reports late, twice
or before the acknowledgement, and a memory that makes room; in the portfolio long
sequences of legal operations over figures each clamped and kept by itself.

### 1.3 Everything else

The other components are listed in `PROJECT.json` with the reason they are not
modelled.  They are numeric libraries (indicators, patterns, strategies,
backtesting, research, risk policies), tables (plans, roles,
legal documents), clients of external services (other brokers, market data,
billing, mail, Redis), start-up machinery, HTTP glue, the browser dashboard, and
operations.  Several risk classes have locks, but neither the desk nor the worker
uses them.

## 2. Modules

| Module | What it is |
|---|---|
| `PaperBroker` | the adapter, one action per call and one per callback of a quote |
| `TradeLedger` | abstract: signed exposure against cash at prices the market offers |
| `BrokerLedger` | how `PaperBroker` implements `TradeLedger`: the refinement mapping |
| `MCPaperBroker`, `PaperBrokerProofs` | instances; proofs, the refinement included |
| `OrderDesk`, `MCOrderDesk`, `OrderDeskProofs` | the request handlers of one account and symbol; instances; proofs |
| `AsyncScheduler`, `MCAsyncScheduler`, `AsyncSchedulerProofs` | schedulers with their loops; instances; proofs |
| `Worker`, `MCWorker`, `WorkerProofs` | coordinator, lifecycle and trading cycle on top of an INSTANCE of `AsyncScheduler`; instances; proofs |
| `CircuitBreaker`, `MCCircuitBreaker` | the breaker; instances |
| `StreamBus`, `MCStreamBus` | the bus of the streaming layer with its queue; instances |
| `StreamManager`, `MCStreamManager` | the manager around the bus: breaker, backpressure, buffer, shutdown; instances |
| `StreamProofs` | proofs about both, and that the manager uses the bus as the bus allows |
| `OrderLifecycle` | the transition table of an order |
| `ExecutionEngine`, `MCExecutionEngine` | the engine that drives it; instances |
| `ExecutionProofs` | proofs about the engine and about the breaker |
| `Portfolio`, `MCPortfolio`, `PortfolioProofs` | the facade and its managers; instances; proofs |
| `SumTheorems` | the laws of `SumFunctionOnSet` over finite sets, which the books of the adapter and of the portfolio are summed with |

A definition whose comment begins with "Mutant" is a plausible mistake in the
definition that follows it.  It is used only to confirm that the property the
`mutants` list names does notice the mistake.

### PaperBroker

The adapter's lock is never held across an await; the only suspension point of a
call is its simulated latency, which lies between the connection check and
everything else.  So a call is `BeginCall` followed, later, by the one action
that does the rest (`Submit`, `Modify`, `Cancel`, `ClosePosition`, or `Refused`
for an early return).  In between anything may happen, a disconnect and a reset
included.  The arguments of a call are chosen when it resumes, which is the same
as fixing them at its beginning, since nothing looks at them before.

`update_quote` does not yield either, but one quote can fire several orders; its
run is spread over steps.  `IngestQuote` sets the quote, moves trailing stops,
closes the position if it is breached and takes the batch of triggered orders
out of the resting ones; `FireNext` fills them in the order of the dictionary.
`firing` holds the rest of the batch and disables every other action (`LoopFree`)
until it is empty, as the event loop would.

Prices, quantities and fees are integers in units small enough for the instances
to be exact; 0 stands for `None`.  A position carries its cost (`basis`) instead
of its average price, so that no division is needed.  Slippage is any member of
`Slippages`, a partial fill any quantity up to the order's.  `accrued` and
`charged` are history: the fees of all fills, and those taken from the balance.
Left out: queries, health, statistics, swap (nothing charges it), fill records
beyond their counter.

### TradeLedger and the refinement

`TradeLedger` has no order book and no positions: orders are registered and
executed at most once, an execution moves exposure against cash at ask plus or
bid minus a slippage, an exit takes a symbol to exactly zero at the top of the
book, a reset starts over.  `PaperBroker` implements it under the mapping in
`BrokerLedger`: exposure is the sum of the signed positions, cash is the balance
plus the charged fees minus the cost of the open positions.  A quote that closes a
position is one step of the ledger (`Requote` with `Unwind`), a triggered order
another.  Accumulating, reducing, flattening, reversing and partial fills all have
to come out as the same plain trade.

### OrderDesk

One account, one symbol, any number of requests in progress.  `req[c]` is a
request with what it has read so far; its `at` names the await it is suspended at:

    create_order    submitting -> taken -> booking -> committed
    cancel_order    cancelling -> cancelled -> committed
    close_position  finding -> closing -> committed

`Written` models what SQLAlchemy writes at commit: the columns the request changed,
with the values it computed, over whatever the row is by then.  There is no row
lock and no version column.  `Fail` ends a request at any await with its session
rolled back; the broker's side of it stays.  Of the adapter the desk sees that an
order fills at once, in full or in part, or rests; that a resting one may fill later;
and that whatever has not filled in full can be cancelled.  A part is booked like any
other fill, with the margin of the whole order, and nothing ever fills the rest.
`net`, `cash`, `rounded`, `again` and `serial` are history: the position and the money
of the committed requests with one fee for each fill, what the average prices were
rounded off by, the fees that closing a position deducted a second time, and whether
any two trading requests have ever overlapped.  The column of an average price has six
decimals, so the cost of an accumulated position is its size at that price and a
remainder; without the remainder the books would balance only for quantities and prices
that divide evenly.

Not modelled yet: quotas, reset of the account, other symbols (they share only the
account row), the broker's positions.

### AsyncScheduler and Worker

A loop is a record in `tasks`: asleep, in its callback, or over, and perhaps
cancelled.  A cancellation takes effect when the task next runs, so a cancelled
task may linger where it is.  `BeginStop`/`EndStop` are the two sides of
`await self._task`; `EndStop` forgets whatever task the scheduler has by then,
as the code does.  `TopOfLoop` is the backoff: the power of two overflows a
float after `MaxDoublings` failures and the loop ends.

`Worker` reuses these actions for its two schedulers.  `Start` is one step, since
nothing in the coordinator's `start()` suspends; a stop is `BeginStop` (cancel and
await the trading loop), `StopMarket` (the same for the market loop) and
`EndStop`.  `BeginTrading` begins a cycle with some set of symbols to trade and
`OrderLands` is one order reaching the adapter.  Which ticks lead to orders is
left open: the decision engine and the risk engine are external to it.  (As
configured today the coordinator's decision engine defers every tick and its risk
engine has no policy; the model does not rely on that.)

### CircuitBreaker

A call is admitted under the lock, runs without it and reports under it, so
`Admit` and `OnSuccess`/`OnFailure` are separate steps with anything in between.
A call in flight is a probe (admitted in the present half-open episode) or
earlier.  `nested` is fixed at the start: whether guarded calls may raise
`CircuitBreakerOpenError` of a breaker of their own, which is reported neither as
a success nor as a failure (`NotReported`).  The repository constructs this
breaker in tests only.

### StreamBus

The delivery loop suspends where it waits for an event, where the take of one is done
and its turn has not come, and in a callback: `phase` is one of these per loop, and a
restart makes a new loop.  The loop takes its events through `asyncio.wait_for`.  In
Python 3.11, which the images use, that runs the take in a task of its own, and a
cancellation that arrives when the take is done is forgotten and the event returned;
`Cancelled` says what `task.cancel()` makes of a loop in each phase, and "taken" stays
"taken".  The loop then delivers the event and ends at the flag.  `Deliver` looks the
subscribers up once per event (`todo`), so one that unsubscribes meanwhile is still
called.  A subscriber in `Raising` was subscribed without the wrapper that contains
errors; its error becomes a dead letter, and the moment `_emit_error_isolation` takes
for that is left out.  `seen` is history: the sequence of all calls of each subscriber,
so that a second call with one event shows.

`BusSpec` is the bus under an orderly owner, who does not start it again before the
loop he stopped will call nobody any more (`Quiet(loop) /\ BusStart`).  `start()` does
not check that.  How far the manager is such an owner is `OrderlyBus` below.

### StreamManager

It extends `StreamBus` and its actions call those of the bus.  `Offer` is
`process_event()` up to its first suspension; the rest is `Throttled`, `Unblock` or
`Abandon` (the caller cancels it).  The breaker is a record and each of its
transitions an operator on it; `Checked` is what merely looking at it does.  Depth
and watermarks are compared without division (`Tenths`).

`Stop` clears the manager's flag and sets the coordinator's; the shutdown then goes
through `Flush`, `Close`, and for each set of tasks that the starts have registered
`StopBus` and `StopReturns`.  `StopTimesOut` is a task that takes too long: it is
cancelled, and its loop with it once more.  (Where the loop has been cancelled already
this lets a little more happen than Python 3.11 does.)  As in the code nothing resets
the coordinator's flag, so a second stop ends nothing, and `Start` looks at the manager's
flag alone: it may come in the middle of a stop, and then runs a new delivery loop
beside the one still being stopped.  `hasty` is the history of that.  Until then the
manager implements the bus: `OrderlyBus`.

`policy` and `mode` are fixed at the start.  `Consume` is outside the layer: nothing
in the repository reads the buffer.  Left out: validation, deduplication, cache, rate
limits (they turn events away before anything else happens), health and metrics.

### OrderLifecycle and ExecutionEngine

`OrderLifecycle` is the transition table.  The engine numbers orders as they are built.
`Execute` runs up to the first question to the broker; `BrokerTakes`, `BrokerDeclines`,
`Submitted`, `AttemptFails` and `RetryAttempt` are the submission, a refusal that is
answered, the answer, an exception or a lost answer, and the end of the backoff.  The
engine throws the answer away, so `Submitted` follows a refusal too.  The broker is outside the engine: it knows an order by its id and
executes its quantity once, however often it takes it (`copies`), and reports fills
that may be handled late, again or out of order (`reports` never shrinks).
`Advance` is the holder of a lifecycle, who acknowledges only what the broker has.
The deduplicator's registrations are pairs of a key and an order; the age of a
registration is the number of its order, so the window is one number (`expired`).
Left out: the recovery handler with the trigger `retry`, the choice among brokers,
removal from and clearing of the deduplicator, an engine without a submit function
(whose orders all become submitted), statistics.

### Portfolio

One action per operation of the facade, each with all it tells the managers, and one
per operation of the position manager that the facade does not know (`Merge`, `Split`,
`Drop`).  `origin`, `end` and `adrift` are history.  All positions are in the currency
of the account.  Entry prices are whole units; an average that is not is rounded half
to even (`Quotient`), as `Decimal` rounds at its last digit.  A position may be merged
with itself, which closes it with its exposure kept, and opened with quantity zero.  The
parts of a split may fall short of or exceed the whole by `Slack`, for the six decimals
they are quantized to and the tolerance of the ratios.  What a rounded average, an
uneven split or a merge with itself takes from the book while the exposure stays is
counted in `adrift`, and nothing else is.  Merges are of two positions and splits in
two: longer ones are not composed of these to the last digit, since they round once.
Left out: those, ratios outside 0 and 1, marks, floating profit and equity, other
currencies, journal, analytics, reservations.

## 3. Runs

Every passing run is exhaustive over its instance.  Together they fire every action
and every disjunct of the next-state relations.  Deadlock is checked in all but two.

| Run | Instance | Shows |
|---|---|---|
| `broker_netting` | two symbols, two quotes, market orders of 1 and 2 lots on both sides, 3 orders, 1 caller | one position per symbol; no fee is taken twice; every netting case is a plain trade of the ledger |
| `broker_resting` | limit, stop, trailing-stop and unacceptable orders, two amendments, partial fills, 2 orders, 2 callers | the two copies agree, fills only under a touching quote, settled orders are final |
| `broker_protection` | three quotes, stop loss, take profit and trailing stops, 2 orders, 2 callers, 1 reset | trailing stops only tighten, nothing rests that the market has touched, exits are trades of the ledger |
| `desk_requests` | two clients, 3 orders at the broker (2 once requests have overlapped or a fee was taken again), two prices, full and partial fills | no phantom fill, cancelled orders do not rest, settled orders are final, the books balance while requests do not overlap |
| `desk_overlap` | two clients, 2 orders | violation, see findings |
| `scheduler_sequential` | two schedulers, one caller, 4 tasks, streaks up to 2 | cycles never overlap, no loop is orphaned, none dies, stops return |
| `worker_lifecycle` | two callers, two symbols, 6 tasks (three starts), 3 orders | the schedulers stay safe for any callers, a stopped worker is drained, no order lands once stopping has begun, every stop ends |
| `breaker_recovery` | three callers, thresholds of 2, 2 slots, 2 manual interventions | counts are fresh, no slot leaks, the breaker closes once the service has healed |
| `stream_delivery` | two subscribers, one of whom raises, two priorities, 2 events, a queue of 2, 1 dead letter, a restart | capacities, delivery in order and once, everyone is served whom more urgent events do not starve |
| `stream_pipeline` | two producers, a buffer of 4, all overflow policies and backpressure modes, thresholds of 2, the default slot, a queue of 1, a restart that may be hasty | types and capacities, no lost wake-up, the manager implements the bus until a hasty start |
| `engine_orders` | two decisions, 2 orders of 2 lots, 2 attempts, a deduplicator of 2 entries (one order) | claims are real, the deduplicator remembers as far back as its limit allows, look-ups are safe |
| `portfolio_book` | two symbols, 2 positions of up to 2 lots, quantities of 0 to 2, three prices, a slack of 1, 1 deposit or withdrawal | no phantom exposure beyond what is adrift, the balance is booked, margin is held |

Three type invariants are proved and not also given to a run: `OrderDesk.TypeOK`,
`Worker.TypeOK` and `Portfolio.TypeOK`.  The largest runs are `stream_pipeline` (2.2
million distinct states), `desk_requests` (1.8), `engine_orders` (1.6) and
`portfolio_book` (1.3).

### Bounds

* Netting has five cases, told apart by the side and by the comparison of two
  quantities; lots of 1 and 2 with three orders reach each of them from a position
  that has itself been enlarged, reduced or reversed.  Two symbols show that one
  does not disturb the other.
* Two resting orders are the least with which a batch has more than one member and
  one order may be amended or cancelled while another rests or fires.  Two callers
  have two calls asleep at a time; a third adds nothing a sequence of two does not,
  since a call is a single step after its latency.
* Amendments and the run of `RestsOnlyUntouched` are apart, because
  `modify_order` does not compare the new price with the market; the property is
  about orders as they were submitted.
* Two clients at the desk are every pairwise interleaving of its three handlers.
  A third order is allowed as long as requests have not overlapped and no fee was taken
  again, for `SerialBooksBalance`, which says nothing afterwards.  An order to sell two
  units may fill in part, one to buy is for one unit: together they open, accumulate,
  reduce, flatten and reverse.  The two prices are 3 and 4, so that averages (of one unit
  and two, say) are rounded.  `desk_overlap` takes no fees, so that what it finds is the
  work of overlaps alone.
* Three starts of the worker (six tasks) are more than the two a race between a stop
  and a start needs.  The scheduler alone has one caller: with two, a `start()` that
  meets a `stop()` in progress orphans a loop; `worker_lifecycle` checks that the
  coordinator never lets that happen.
* Two producers and two events are enough for the stream: one producer waits while the
  other moves the flow, one event is delivered while the other waits.  A queue of one
  in `stream_pipeline` and of two in `stream_delivery` is full in reach of these.
  `MaxStarts` is 2 in both: a loop that a stop left "taken" meets its successor, and a
  start comes in the middle of a stop.  (Only the first stop ends anything, so a third
  start would add a loop that nothing stops.)  The error of a callback is the business of
  `stream_delivery`; in `stream_pipeline` nobody raises.
* Two orders of the engine are a decision repeated or two at once; with a limit of two
  entries the second order evicts the first, entry by entry.  The two attempts are a
  submission and its retry.
* Two positions are what a merge, a split and a liquidation beside another position
  need; two lots are a position enlarged once and closed in two parts.  The three prices
  2, 3 and 4 are what rounding half to even needs in both directions: 5/2 goes down to 2
  and 7/2 up to 4.  Larger positions are the proofs' business.
* The breaker is checked with thresholds of 2, so that a success that does not close
  it and a failure that does not open it exist, and with one caller more than it
  has slots.  Manual interventions are bounded because unlimited ones would keep
  the breaker open for ever, which is not a matter of recovery.

### Fairness

* `AsyncScheduler`, `Worker`: weak fairness of the steps of each loop and of the
  continuation of each `stop()`.  The event loop runs whatever is ready; sleeps are
  finite, and the callbacks modelled (a poll of the simulated market, submissions
  with a finite latency) end.  Nothing is assumed of callers: nobody has to start or
  stop anything.
* `CircuitBreaker`: weak fairness of each caller (calls end, and callers keep
  calling, without which nothing can recover) and of time.  Recovery is claimed only
  from the moment the service is healthy, and only without nested breakers.
* `StreamBus`: weak fairness of the steps of each delivery loop (`FairBusSpec`): the
  event loop gives it its turns and callbacks return.  `EveryoneIsServed` assumes of
  publishers that more urgent events do not come again and again: the queue serves
  those first (`queue.py:31`), so a steady stream of them starves the others.  Publications
  are bounded in the run, so this escape is never used there; it is what the property
  would need without the bound.  A stop or an unsubscription releases it.
* `PaperBroker`, `OrderDesk`, `StreamManager`, `ExecutionEngine` and `Portfolio` are
  checked for safety only: whether a quote, a client, a consumer or an answer ever
  comes is up to the environment.

`breaker_recovery` runs with `CHECK_DEADLOCK FALSE`: with nested breakers all slots
may be lost, and then the breaker turns every caller away (such a call changes
nothing) and no step is left.  So does `portfolio_book`: when the bounds are used up
and every position has come to its end, nothing is left to do.

## 4. Findings

`desk_overlap` is a violation run: overlapping orders leave two open positions in a
symbol and overwrite each other's balance (`T/services/order_service.py:266`), where
the plan promises an account-level lock.

The models follow the code in the following points too, where a document, a comment or
a test says otherwise or a reader would expect otherwise.  They are noted with the
hazards and have no run of their own.

* A trailing-stop order starts on the side of the market the next quote has already
  passed (`X/paper_execution.py:427`).
* The adapter does not collect the fee of an opening fill when an opposite order closes
  the position (`X/paper_execution.py:916`), and the desk takes it twice when the
  position is closed by its route (`T/services/position_service.py:229`), where
  `docs/EPIC-022-IMPLEMENTATION-PLAN-AUDIT.md:90` has "$7/lot fee deducted from cash
  balance upon fill".  `SerialBooksBalance` therefore claims the balance only while no fee
  was taken again.
* Slippage is added to the fills of limit orders (`X/paper_execution.py:248`).
* An order the desk calls cancelled may have filled at the broker, since a fill of a
  resting order is never reported (`T/services/order_service.py:598`), or may have filled
  in part, which stays on record and in the books.  The rest of an order that was filled
  in part neither rests nor fills (`X/paper_execution.py:284`).
* About 1024 failures in a row overflow the backoff and end the loop of a scheduler that
  still says it is running (`T/workers/scheduler.py:159`); the model puts the overflow
  after `MaxDoublings` failures, and the run keeps the streak below it.
* `EventBus.publish` of `libraries/infrastructure/event_bus` waits for room where it
  promises to raise.
* In the event stream the half-open breaker gives out 1 slot and asks for 3 successes by
  default, and the manager leaves it so (`stream_manager.py:290`), hence a provider that
  recovers stays shut out, against "Automatic recovery after timeout"
  (`event_stream/circuit_breaker.py:77`); a manager that was stopped, started and stopped
  again keeps delivering (`shutdown.py:118`); one that is started in the middle of a stop
  may run two delivery loops (`stream_manager.py:193`), and then neither order nor single
  delivery is claimed; a lower priority can starve (`queue.py:31`); and nobody dequeues the
  buffer, so that in the end every producer waits (`backpressure.py:150`).
* The execution engine throws the answer of the submit function away (`engine.py:436`, its
  type is at `:119`): a refusal that is answered, and an engine without that function,
  both make an order submitted.  `ClaimsAreReal` claims of a submitted order that the
  broker has answered, and that it has the order from the acknowledgement on.
* In the portfolio the equity after an opening ignores what floats
  (`portfolio_manager.py:242`), against `tests/unit/domain/portfolio/test_accounting_invariants.py:6`;
  the profit of a partial close never reaches the balance (`portfolio_manager.py:375`),
  nor does a position closed in parts ever release its margin; and closing a position
  after partial closes takes more out of the exposure than it had put in
  (`portfolio_manager.py:305`), so exposure may fall short.  It exceeds the positions only
  by what is adrift: rounding, splits, and a merge of a position with itself, which
  `tests/unit/domain/portfolio/test_regressions.py:125` wants rejected.  The balance may
  become negative by losses, and does in states of the run, against
  `test_accounting_invariants.py:5` ("Balance >= 0") and `:259` ("Balance must never go
  negative under any scenario"); `BalanceIsBooked` holds there too.

What the properties do not reach.  `CountsAreFresh` is about the counts at a change of
the breaker's state; a late result counted in a later episode is allowed, as in the code.
The streak that overflows the backoff is beyond the bound of the scheduler's run.
`WaitersArePaused` excludes the lost wake-up, not that nobody ever sets the event.
`MarginIsHeld` excludes margin released too early, not margin that is never released.
`FeesAreTakenOnce` excludes a fee taken twice by the adapter, not one that is lost.

## 5. Proofs

All theorems hold for every value of the constants allowed by the named assumptions
of the modules; the bounds may be any natural numbers.  Two sets are assumed to be
finite: the callers of the breaker (`CallersAssumption`), whose probes are counted, and
the symbols of the portfolio, over which its exposure is summed.  Nothing is assumed
beyond those and beyond what a theorem says (`PricesStay`, `OneCaller`, streaks,
below).  Every safety property a run checks is also a theorem.

`PaperBrokerProofs`.  The inductive invariant is
`Inv == OrderBookOK /\ PositionBookOK /\ EnvironmentOK`.  Types alone are not
inductive: an amendment and a triggered fill write the resting copy of an order back
over the registered one, so the copies have to agree (`RestingOrdersAgree`) for the
registered orders to keep their types and statuses.  `OnePositionPerSymbol` is
inductive only with the position ids below their counter: a reversal removes the
one position it finds and adds one under a fresh id.  Each action is shown to preserve the half it touches.
From it: `TypeCorrect`, `RestingOrdersCorrect`, `NettingCorrect`.  The two action
properties of orders need more: `FillsOwed` says that every order in a batch is touched by
the quote that triggered it, and that an order that rests has filled nothing; with
it `OrderFate` lists the four things a step may do to an order (nothing, amend,
cancel, fire), and `SettledOrdersCorrect` and `FillsCorrect` follow.
`RestsCorrect` assumes `PricesStay`: `modify_order` does not compare a new price with
the market, so amendments must not change the price an order rests at.  Then no
resting limit or stop order is ever touched by the quote in force, even while a batch
is being filled.  `TrailCorrect` needs the types only: a fill changes the quantity,
an exit removes the position, and `Trailed` tightens.

What the adapter keeps is a book of positions numbered in the order they were opened,
and its totals are sums over it.  Whatever an action does to the book is an opening, a
change of one position or a removal (`Opening`, `Changing`, `Dropping`: what each does to
the net quantity, the cost and the fees of the book), and `NettingTrades` goes through
the five cases of netting once: in each the net moves by the quantity, and the cost, the
profit that is booked and the fees that are charged by what the plain trade is worth.
`ExecuteTrades`, `ExitTrades`, `IngestTrades` and `CloseTrades` lift that to the steps.
Two theorems follow.  `FeesCorrect`: `charged <= accrued` is not inductive, since closing
a position charges what it carries; `FeesCovered` adds to what was charged what the open
positions may still be charged, and the sum never exceeds the fees of the fills.
`LedgerImplemented`: the initial states map to the ledger's, and every step is a
registration, a trade, an exit, a quote that may unwind, a reset of the ledger, or a
stutter (`StepRefines`, one lemma per kind of step).  It needs that the quantities of
orders are lots (`LotsOK`), that prices are those the market offers (`PricesOffered`),
and the invariants of the order book: an order that rests, or is in a batch, has filled
nothing, so the ledger has not traded it yet.

`OrderDeskProofs`.  `Inv == TablesOK /\ RowsAreTrue /\ RequestsOK`.  What a row
says about its order is preserved only because of what the requests in progress
know: a request between the broker and its commit holds an order nobody has
recorded, different from that of every other request, filled if it has a price
(`HeldOK`); a request to cancel has seen its order, and past the broker that order
rests no longer (`CancelOK`).  Positions and balances play no part, so the theorems
(`FillsAreReal`, `CancellationsAreReal`, `SettledIsFinal`) hold however requests
overlap, fill in part and fail, in spite of what `desk_overlap` finds.  `TypeCorrect` adds `BooksOK`: the margin
stays a natural number because a release is clamped at zero, and whatever rows two
overlapping commits mix, every column keeps its type.

`SerialBooksCorrect` is the other side of `desk_overlap`: overlaps are the only thing
that unbalances the position, and overlaps or a fee taken again the balance.  The inductive
invariant keeps count of those fees (`BooksMatch`: the balance moved by `Flow`, which is
`cash - again`), so it goes on when `SerialBooksBalance` has nothing left to say.  That
still says nothing of a request in the middle; `Alone` adds that at most one request trades, that the account it has read is
the present one, and that the position it has read, or that there is none, is so still,
up to the mark `MarkToMarket` may have moved meanwhile (`HasRead`, `AlikeRows`).  So a
commit, which writes only the columns that differ from what was read, leaves exactly
what was computed (`SavedBalance`, `Replaced`), and there is one lemma per way of booking
(`OpenedAlone`, `AccumulatedAlone`, `ReducedAlone`, `FlattenedAlone`, `ReversedAlone`,
`ClosedAlone`).  A failure changes no books and only ends a request.

`ExecutionProofs`, the breaker.  `FlagsOK /\ CountsOK /\ CountsAreFresh` is inductive
and gives `BreakerTypeCorrect` and `CountsCorrect`.  `NoSlotLeaks` needs to count: the slots taken
are at most the probes in flight (`SlotsAreOwned`), because a success frees the
slots of all probes while only its own leaves.  There may be more probes in flight
than slots; there are never fewer than slots taken.

`AsyncSchedulerProofs` assumes `OneCaller`: with two, a `start()` that meets a `stop()`
in progress orphans a loop.  `Held` is what makes it work: a stop awaits the task its
scheduler holds, a loop that lives on in a stopped scheduler is being awaited, and
every loop alive is held.  `CyclesAreExclusive` follows from it together with
`Counted`; `LoopsSurvive` from `Lively` and streaks below the overflow.

`WorkerProofs` has no such assumption.  The lifecycle is the gate: the inductive
invariant is a disjunction of three phases.  `Stopped`: no loop is alive and nobody
awaits one.  `Running`: both loops are alive, not cancelled, and nobody awaits one.
`Stopping`: exactly one caller awaits, first the trading loop and then the market
loop.  Every action leads from a phase to the same or the next one.  Types and counts
of the schedulers are the lemmas of `AsyncSchedulerProofs`, taken through an INSTANCE.
Thus `SchedulersCorrect` (for any callers), `StoppedCorrect`, `OrdersCorrect`.

`StreamProofs`.  `BusInv == BusTypes /\ OneLoop /\ Ordered`.  `OneLoop` says that of all
loops but the last none will call anybody any more; `Ordered` that an event queued,
taken or being delivered is later than all of its priority its subscribers have been
called with.  That gives `DeliveryInOrder`.  `Handover` says that the loop of a
bus that does not run is quiet, unless a stop is still awaiting just that loop.  With it
every step of the manager is one of the bus or marks a hasty start
(`ManagerImplementsBus: Spec => OrderlyBus`), so `BusInv` holds up to such a start
(`ManagerDeliversInOrder: Spec => [](hasty \/ InOrder)`).  `NoLostWakeUp` is an invariant
by itself once it is known that setting the event wakes everyone.

`ExecutionProofs`, the engine.  `ClaimsCorrect` needs `AttemptsCounted` (an execution the
broker has taken has a copy there; copies do not exceed attempts).  For `RemembersCorrect`
`Kept` says that a decision built within the window is remembered as long as the two
keys of each order built since leave it room; that making room keeps to the limit is a
matter of ranking the keys by age (an injection into `1..MaxEntries`).

`PortfolioProofs`.  Every operation changes one or two records and keeps each `Sound`;
the lemma `Moving` carries this to the sequence, whatever the operation.  The two
theorems about money weigh every position and add the weights up (`Tally`; `TallyChanges`
and `TallyAppended` are what a replaced and an added record do to it, `MergeTally` and
`SplitTally` the operations that touch two).  `BalanceCorrect`: with the weight `Gain`
only a close at once changes the sum, by what it books; every other operation leaves
each record's `end` or gain as it was.  `PhantomCorrect`: with the weight `Worth` the
inductive invariant is that the exposure of a symbol and side is `Within` the tally and
what is adrift, and the currency's `Summed` by the exposures.  A figure is clamped at zero
by itself, so a removal may take less from it than the books lose; `Fitting` and
`Refitting` show that clamping keeps both inequalities, because what is left is never
negative.  `Balanced` is what an operation owes: that the exposure it adds and the worth
it ends come to no more than the worth it begins and what it sets adrift.  `Losses` and
`StepDrift` say that only a rounded average, an uneven split and a merge with itself set
anything adrift, and how much.

`SumTheorems`.  The community modules define `SumFunctionOnSet` by a recursive function
over subsets that takes out a chosen element each time.  `StepsExist` shows that this
recursion has a solution on a finite set, by induction on the number of elements,
`AnyOrder` that the order of choosing makes no difference, by induction along strict
inclusion (`FiniteInduction`).  Both inductions are over a set of numbers or of subsets, so
they need no operator as a parameter.  From these follow the laws the proofs use:
`SumEmpty`, `SumSame`, `SumTakesOut`, `SumAdds`, `SumRest`, `SumChanges`, `SumShrinks`,
`SumOrder`, `SumZero`, `SumNat`.

Only model-checked: liveness (`StopsReturn`, `StopsEnd`, `Recovers`,
`EveryoneIsServed`), which under fairness needs ENABLED and is out of the prover's reach.
No module declares a RECURSIVE operator.

## 6. Plan

In order of importance.

1. `OrderDesk` composed with `PaperBroker`: broker positions beside the desk's rows,
   reset of the account across both, quotas; the agreement reconciliation looks for.
   It is also where the hazards about ids from before a reset, the position the desk
   closes alone, and quotas checked before they are used belong.
2. Proofs: what the ledger promises by itself (an order is traded at most once, and money
   moves with a trade or a reset alone), carried over to the adapter by
   `LedgerImplemented`; the safety half of the liveness properties.
3. Order and session recovery on top of `ExecutionEngine`, whose states they recover.
4. Floating profit and equity in `Portfolio`.
5. The event bus of `libraries/infrastructure/event_bus`, which nothing constructs
   outside the tests: a full queue whose one reader publishes.

### Not modelled

The reason is given for each component in `PROJECT.json`.  In short: numeric libraries
over floats that keep no state an order depends on; value objects and tables; clients of
external services; HTTP glue and the browser client; start-up, operations and scripts.
They are most of the repository's lines, so the share of the code that is modelled is
small although most of its stateful core is.
