# A verification development for orderbook-simulator-cpp

TLA+ modules, TLC runs and TLAPS proofs about the matching engine of this
repository (`src/Orderbook.h` and the headers it includes), the market data feed
that drives it and the client that polls an exchange for that feed. Line numbers
are those of the files under `src/`.

Contents: 1 the system, 2 the modules, 3 how model and code correspond, 4 the
runs, 5 where the code and its own words disagree, 6 the proofs, 7 what is only
model-checked, 8 what is not modelled, 9 the plan.

## 1. The system

| Component | State | Operations | Here |
|---|---|---|---|
| Matching engine (`Orderbook.h`, 40-494) | `pool_`, `freeList_`, `bids_`, `asks_`, `orderMap_`, and the locals of a running call | `AddOrder`, `CancelOrder`, `ModifyOrder`, `CancelGoodForDayOrders`, `SetExchangeRules`; inside them `Alloc`, `Free`, `DllAppend`, `DllRemove`, `InsertIntoBook`, `MatchOrders`, `CollectFOK`, `ExecuteFOK` | modelled |
| Exchange rules (`ExchangeRules.h`) | five public fields and two checked setters | `SetTickSize`, `SetLotSize`; `IsValidPrice`, `IsValidQuantity`, `IsValidNotional`, `IsValidOrder`; `RoundToTick`, `RoundToLot` | modelled |
| Market data feed (`Orderbook.h`, 299-354 and 496-531; `MarketDataFeed.h`) | `stats_`, `lastSequenceNumber_`, `isInitialized_` | `ProcessMarketData` over five message types, `ProcessSnapshot`, the batch, `ResetMarketDataStats` | modelled |
| Live client (`LiveMarketData.cpp`) | none between polls but its own book | fetch, parse, convert, apply, display, sleep | modelled |
| Timer thread (comment at `Orderbook.h`, 468) | none | calls `CancelGoodForDayOrders` | partly |
| Value classes (`Order.h`, `OrderModify.h`, `LevelInfo.h`, `Constants.h`) | none that the engine keeps | getters | parameters only |
| Tests, benchmarks | none | | read as documentation |

**How they interact.** Everything is a direct call in one thread. The feed
decodes a message and calls the engine; the client builds one snapshot per poll
and hands it to the feed; tests and benchmarks call the engine. The engine calls
nobody back and takes no lock. The single exception is the timer thread that
the comment on `CancelGoodForDayOrders` speaks of, which would call the engine
unsynchronised.

**What is hard in it.** Not concurrency but bookkeeping: the same facts are held
several times, and every call must leave all the copies in agreement.

- An order is in a slot, in a list threaded through slots by index, in the id
  map, and in its level's `totalQty` and `orderCount`. Its removal is written
  out three times (`CancelOrder`, `MatchOrders`, `ExecuteFOK`), each in an order
  of its own.
- A slot is freed by hand on six lines (221, 225, 281, 286, 405, 438); a path that
  misses one leaks it, a path that meets two gives it to two orders.
- FillOrKill computes its matches first and replays them afterwards, from
  indices and quantities read before the first trade.
- Price-time priority rests on the lists alone: nothing in an order says when
  it came.
- Market orders rest at the sentinel prices `INT_MAX` and `INT_MIN`, which the
  comparisons take for prices.
- `Quantity` is unsigned and wraps, and modifications are not validated.

**What makes each part correct.** The engine: no slot leaks or is shared; the
lists are well formed and in time order; totals are true; trades respect price-time
priority and the limits of both orders; FillOrKill is all or nothing;
immediate orders never rest; no tradable cross survives a call; every call
returns. The feed: a message changes the book as the call it stands for would,
statistics count what happened, a snapshot leaves the book it describes. The
client: a bad poll changes nothing, the next one is made, and the screen shows
the last response.

`PROJECT.json` lists under "hazards" each place where one of these could go
wrong, with its line and the properties that would show it.

## 2. The modules

The engine:

- `ExchangeRules`: a rule set as a record, its setters, the checks that
  `ValidateOrder` makes, rounding, and the numeric constants `INT_MIN`,
  `INT_MAX` and `QuantityMod`.
- `Orderbook`: the engine. State, one action per call or loop iteration, `Spec`,
  `FairSpec`, `TypeOK`.
- `OrderbookSafety`: the structure of a book as named predicates, the
  invariants, the action properties and the liveness property.
- `OrderbookTotals`: the properties that need sums or walks along the lists.
- `PriceTimeBook`: what the engine promises, with no slots, lists, maps or loops.
- `OrderbookRefinement`: the mapping under which `Orderbook` implements it.

Around the engine, each extending the one before:

- `MarketDataFeed`: the message handlers and the snapshot, as callers of the
  engine.
- `LiveMarketData`: the poll loop, as the one sender of messages.

`TimerRace` extends `Orderbook` with a second thread.

For TLC: `MCOrderbook`, `MCFeed`, `MCClient` and `MCTimer` hold values of the
constants; each `.cfg` picks some. `MCInvariant` adds the invariants of the
proofs to `MCOrderbook`.

For TLAPS:

- `OrderbookLemmas`: what the helpers of `Orderbook` (`Alloc`, `Free`,
  `InsertIntoBook`, `Unbook`, `SetQuantity`, ...) do to the structure of a book.
- `OrderbookProofs`: the inductive invariant, one lemma per action, and the
  theorems about structure; then what each step does to the orders at rest
  (which leave, which one comes, what they lose), with slots and links forgotten.
  The modules below rest on that and never look inside the member functions.
- `OrderbookPriority`: who trades with whom, and which kinds of order rest.
- `OrderbookLimits`: at what prices orders rest and trade; rounding.
- `OrderbookSums`: totals, the balance of a FillOrKill order, the queues as walks.
- `OrderbookImplements`: the engine implements `PriceTimeBook`.
- `FeedProofs`: the feed implements the engine, and counts what it is sent.
- `ClientProofs`: the client implements the feed, and shows no crossed book.

Each extends the one before.

The modules also define operators named `Mutant...`. They are no part of the
model: each is the definition below it with a plausible bug, and `PROJECT.json`
says which property notices it.

## 3. How the model corresponds to the code

**State.** `book` is a record of the data members: `pool` (index to slot),
`freeList` (a sequence whose last element is the next to be handed out),
`levels["Buy"]` and `levels["Sell"]` for `bids_` and `asks_`, and `orderMap`. A
map is a function on the keys it holds. `exchangeRules` is the member of that
name. Two things are not in the code as such:

- `call` is the frame of the public call in progress, with its locals. The
  engine is sequential, so a call without a loop is one action. A call that
  loops is its first action followed by one action per iteration: one trade of
  `MatchOrders` or `ExecuteFOK`, one level or order of `CollectFOK`, one id of
  `CancelGoodForDayOrders`. While `call` is not `Idle`, no other call starts.
- `book.older` is auxiliary: the pairs of slots of one level, the earlier
  appended first. No action reads it; it is what "time priority" means in the
  properties.

**Actions of the engine** (`Orderbook.h`).

| Action | Code |
|---|---|
| `AddOrder`: refusals, pool exhaustion, `StartFillOrKill`, `StartMatching` | `AddOrder`, 374-421 |
| `MatchStep`, `MatchEnd` | an inner iteration of `MatchOrders`, 236-292; its exit with the cancel of the IOC remainder, 294-297 |
| `CollectLevel`, `CollectOrder`, `Kill`, `CollectEnd` | `CollectFOK`, 171-190, and the test of the total, 403-405 |
| `ExecuteStep`, `ExecuteEnd` | an iteration of `ExecuteFOK`, 196-223; 225-226 |
| `CancelOrder` | 425-440 |
| `ModifyOrder`, then `ReAdd` after a change of price | 445-464, 465 |
| `CancelGoodForDayOrders`, `CancelNext`, `CancelAllEnd` | 470-476 |
| `SetExchangeRules` | 369 |

**Actions of the feed.** `feed` is the message in hand, with what is left of a
snapshot. `ProcessMarketData` is the `Receive...` action, the steps of the calls
it makes, and `Done` in the same step as the last of them.

| Action | Code (`Orderbook.h`) |
|---|---|
| `ReceiveNewOrder`; `NewOrderOutcome` for its `catch` | `ProcessNewOrder`, 301-309 |
| `ReceiveCancel`, `ReceiveModify`, `ReceiveTrade` | 311-314, 316-320, 322-324 |
| `ReceiveSnapshot`, `SnapshotCancel` | 326-334: the ids of the book, cancelled one by one |
| `SnapshotAdd`, `SnapshotSkip` | 336-349: a level added, or passed for its quantity 0 |
| `SnapshotEnd` | 351-354 |
| `EngineStep` | the loop iterations of the call that a handler has made |
| `Count`, `Done` | the counters, in the handlers and at 510-516 |
| `ResetMarketDataStats` | 531 |

`ledger` is auxiliary: in it a message is entered when it comes (`Enter`), as what
it will have to count as (`Outcome`), and a trade of a new order when it is made
(`EnterTrade`). No action reads it, and `EveryMessageCounted` compares it with the
statistics.

**Actions of the client** (`LiveMarketData.cpp`).

| Action | Code |
|---|---|
| `Fetch` | 199-207 and `FetchBinanceOrderbook`, 12-45: any body, or none |
| `ParseFails`; `Process` with `ParseBinanceSnapshot` | 210-224, 48-74 |
| `ProcessStep` | the steps of `ProcessMarketData`, 213 |
| `PrintOrderbook` | 84-162 |
| `Wake` | `sleep_for` and the loop, 226-228 |

**Actions of the race.** `TimerStart`, `TimerCancel` and `TimerEnd` are
`CancelGoodForDayOrders` (470-476) in the other thread; `TradingStep` is any step
of `Orderbook`, `ExecuteThrows` the exception of the `.at()` at 201-202.

**Abstractions of the engine.**

- The bytes of a free slot are dead, since `Alloc` overwrites them, so a free slot
  always holds `FreeSlot`. This holds also for `FillInFlight` and `Unbook`,
  which read a slot only before it is freed.
- `MatchOrders` erases a level after its inner loop, the model with the trade
  that empties it. Nothing reads the level in between, because the inner loop
  ends with that trade. `SetLevel` therefore writes a level back and erases it
  when it is empty, for every caller.
- The outer loop's tests are repeated by the model for every trade. They depend
  on the two prices only, which the inner loop does not change.
- `CollectFOK` walks the levels until a price is out of reach; the model keeps
  the set of levels within reach that are still to visit and takes the best.
- `CancelGoodForDayOrders` collects ids in the order of a hash table: the model
  takes any order.
- A `Quantity` wraps modulo `QuantityMod` (2^32 in the build). `orderCount` is an
  `int32_t` bounded by the pool and does not wrap.
- Ids are compared for equality and nothing else, so they are model values. The
  wall clock, allocation by the standard containers and the returned `Trades`
  (kept in the frame while the call runs) have no other effect.

**Abstractions around it.**

- Latencies are measurements of the clock and left out of the statistics. The
  counters wrap modulo `CounterMod` (2^64 in the build). `MaxMessages` bounds the
  messages between two calls of `ResetMarketDataStats`, not their total.
- A batch is its messages one after another; nothing of it is kept between them.
- Only `ProcessNewOrder` has anything to catch. The outer `catch` of
  `ProcessMarketData` would need an exception from a cancel or a modification:
  `ListsWellFormed` says that no `.at()` misses, and `ReAddFindsSlot` that the
  `AddOrder` inside a change of price always finds a slot. `AddOrder` throws
  inside a snapshot only when the pool is exhausted, is caught there, level by
  level, and leaves the book alone, as `AddOrder` of the model does.
- A decimal of a response is a number of 1/`Scale` cents. `Short` is the set of
  decimals whose product with 100 falls just short of a whole number of cents
  (`0.29 * 100`), so that truncation loses one. Out of range the conversion of a
  double is undefined in C++; the model has what x86-64 does: `INT_MIN` for an
  `int`, the low 32 bits for a `uint32_t`. Below zero it truncates towards zero
  like above.
- A request, a body and the screen are outcomes and sets of levels: HTTP, JSON
  and layout are left out. A body is empty, malformed (a parser or a conversion
  throws before the book is touched) or a book.
- In `TimerRace` each step of `Orderbook` and each `CancelOrder` of the timer is
  atomic, and the timer stays out of `MatchOrders` and `CollectFOK`, where it
  would invalidate references that the loops hold. That leaves the mildest
  races. `ExecuteBreaksLevel`, where the thread unlinks an order that is in no
  list, ends the model.

**The refinement.** `PriceTimeBook` has a function from ids to orders, the
relation "was there first", and the volume traded by the call in progress.
Orders enter at the back of their queue, leave, change quantity in place, or
trade from the front, and what they trade is accounted for in `volume`, which is
what tells a trade from a cancel. The mapping forgets slots, lists, levels and
frames. A FillOrKill order takes effect in one abstract step, at `CollectEnd`:
while `ExecuteFOK` replays, `AbstractOrders` already is what the replay will
leave, and each `ExecuteStep` is a stutter. So the refinement says that the
replay does exactly what the scan decided. The other calls are an abstract step
for each trade, since an order in `MatchOrders` really is at rest between two.

## 4. The runs

Prices are 1 and 2 between the sentinels -1 and 3. This is enough to have an
order that crosses, one that does not, one that touches, a sweep over two
levels, and both sentinels. Quantities are 1 and 2, with 0 where it is a case of
its own: two fills of one order, partial fills and exact fills all happen.
`QuantityMod` is 8, above every sum the runs can reach, except where wrapping is
the question. Three orders on three slots give a list with a head, a middle and
a tail, a FillOrKill order against two resting ones, and a removal from each
position; the fourth id in `market` meets an empty pool. No run needs a state
constraint: the book is bounded by the pool, and a call by the book.
Permutations of the ids are a symmetry, as ids are only compared; the liveness
run does not use it.

| Run | What is special | Properties |
|---|---|---|
| `limits` | all limit types, quantity 0 offered to `AddOrder`, 3 ids and slots | `TypeOK`, `NoLeakNoDoubleFree`, `ListsWellFormed`, `ListsInTimeOrder`, `MatchesStayValid`, `ImmediateOrdersNeverRest`, `NoTradableCross`, `NoEmptyOrders`, `SweepWorsens`, `TotalsInSync`, `FillOrKillBalanced`, `PriceTimePriority`, `TradeWithinLimits`, `NoOvertaking`, `ImplementsPriceTimeBook` |
| `market` | market orders, 4 ids on 3 slots, three rule sets that change while orders rest | `NoSentinelTrade`, `ListsWellFormed`, `ReAddFindsSlot`, `RoundingServesTheChecks`, `PriceTimePriority`, `TradeWithinLimits` |
| `invariant` | every order type and modifications to quantity 0 together | `IInv` and `PriorityInv`, the invariants of section 6 |
| `returns` | 3 ids and slots, one limit price beside the sentinels, quantity 0 in the book, fairness | `CallReturns`, `StepsRunOut` |
| `feed` | messages of all kinds on 3 ids and 3 slots, 4 snapshots | `FeedTypeOK`, `SnapshotReplacesBook`, `EveryMessageCounted`, `FeedDrivesEngine` |
| `client` | 8 responses and two failures, every value of the types, fairness | `ScreenNeverCrossed`, `ScreenIsResponse`, `KeepsPolling` |
| `market_cross`, `fok_sentinel`, `modify_zero`, `depth_wrap`, `ask_price`, `timer` | each expects a violation | section 5 |

`market` leaves FillOrKill out, and `limits` has no market orders, because
`NoSentinelTrade` and `NoTradableCross` fail when both are there. That they fail
is what `fok_sentinel` and `market_cross` show. `limits` does not modify to
quantity 0 for the same reason (`modify_zero`). The structural invariants do hold
for all of these together: `invariant` checks them there, and section 6 proves them.

`returns` has to let the loops go round more than once: with three slots a call
trades twice, an order of quantity 0 rests in front of another, and a scan and its
replay pass two orders, in one level or in two, since the remainders of market
orders rest at a second price. A second limit price and GoodTillCancel, which no
loop tells from good-for-day, are what it leaves out.

`feed` has orders that rest, trade at once and are all or nothing, so a message's
call can last one step or many; its snapshots have two bids at one price on a
full pool, a level without quantity, sides that cross, and more levels than
slots. One message between two resets is enough for the counters, whose
increments do not depend on their values, and book and snapshots run on without
bound. `EveryMessageCounted` compares them with `ledger` (section 3) whenever no
message is in hand: a message that is never counted, counted twice or counted as
another kind leaves the two apart, and so does a trade that is missed. `client` polls without
bound: its responses are orderly, collapse two prices into one cent, cross by
truncation or by a short product, overflow price or quantity, truncate to zero
(from below zero too), or hold nothing. With one level displayed and two at
rest, the choice of the best matters. A bid at exactly `INT_MAX` cents is not
among them. `timer` needs two resting orders and one that arrives.

**Fairness.** `FairSpec` adds that a call that has started takes its next step
eventually: the thread running it is not stopped for ever. Nothing in the engine
waits, so no more is needed, and nothing is assumed of callers. It is
`WF_vars(Continue)` written out with `call # Idle` for its `ENABLED`, which TLC is
very slow to evaluate; that a call in progress has a next step is the absence of
deadlock in the runs, and that the step changes something is `StepsRunOut`. That
property also says how the loops end, without fairness: `StepsLeft` counts the
orders, levels, matches and ids a call has still to go through, it is at most
`3 * PoolSize + 2`, and every step lowers it.
`ClientSpec` adds `WF_clientVars(ClientNext)`: the one thread of the client runs,
`sleep_for` ends, and a request ends, because `CURLOPT_TIMEOUT` is set
(`LiveMarketData.cpp`, 31). `KeepsPolling` is then about the loop of polls and
all the loops inside one.

**What each property notices.** The "mutants" in `PROJECT.json` replace one
definition by a bugged one and the property must fail: the slot of a killed order
is not freed, an empty level stays in its map, `DllRemove` forgets the back
link, a new order goes to the head, the cross test uses `>`, the scan takes the
same level twice, a fill forgets the total, and so on.

## 5. Where the code and its own words disagree

- `market_cross`: when the remainder of a market buy and of a market sell both
  rest, the loop stops at them, and limit orders behind them that cross are not
  matched by this call or by later ones, until one of the remainders goes. The
  comment at 230 says "until no cross exists".
- `fok_sentinel`: `ExecuteFOK` takes the price of the level for the trade price
  (198). Against the remainder of a market order this is `INT_MAX` or
  `INT_MIN`, which 246-249 and `TestTwoMarketOrders_NoInvalidTrade` call invalid.
- `modify_zero`: the in-place modification (456) accepts quantity 0. The order
  stays at the head of its queue and then prints a trade of quantity 0.
  `Order.h`, 57, refuses this.
- `depth_wrap`: the in-place modification is not bounded by `maxQuantity`, so a
  level's total can pass 2^32 and `GetOrderInfos` understates or hides the level.
  In the run `maxQuantity` is 2 and the width 8, so that no three orders within
  the rules wrap, and modifications may ask for 7: the violation starts with one.
- `ask_price`: `TestPricePriority` (`tests.cpp`, 101) expects the ask's price of a
  sell order that meets a better bid; the code, as its comment at 231 says,
  prints the bid's. The release flags (`CMakeLists.txt`, 7 and 45, `-DNDEBUG`)
  compile the assertion out.

- `timer`: the class takes no lock. When the timer thread of the comment at 468
  cancels a good-for-day order that a FillOrKill order has matched but not yet
  traded with, the `.at()` at 201-202 throws out of `AddOrder` after a part of the
  order has traded. The comment at 167 says that no partial fills ever occur.

## 6. The proofs

The theorems hold for every pool size, every set of ids, prices, quantities,
order types and rule sets, sentinel prices and zero quantities among them. They
assume `NumericAssumption` (the integer limits), `BookAssumption` (the inputs are
of their types, the pool size is a natural number, `NoOrder` is not an id) and,
around the engine, `FeedAssumption` and `ClientAssumption`. TLC evaluates all of
them in the runs.

| Module | Theorem | States |
|---|---|---|
| `OrderbookProofs` | `Inductive` | `IInv` is an invariant |
| | `TypeCorrect` | `TypeOK` |
| | `PoolSafe` | `NoLeakNoDoubleFree` |
| | `ListsSafe` | `ListsWellFormed` |
| | `TimeOrder` | `ListsInTimeOrder` |
| | `MatchesSafe` | `MatchesStayValid` |
| `OrderbookPriority` | `FillOrKillTakesTheFront` | `PriorityInv` is an invariant |
| | `PriorityHolds` | `PriceTimePriority` |
| | `LimitsHold` | `TradeWithinLimits` |
| | `RestersAllowed`, `ImmediateOrdersLeave` | `RestersInv`; `ImmediateOrdersNeverRest` |
| | `ReAddSafe` | `ReAddFindsSlot` |
| | `CallsEnd` | `StepsRunOut` |
| `OrderbookLimits` | `PricesKnown` | `PricesInv` is an invariant |
| | `NoCross` | `NoTradableCross`, under `LimitOrdersOnly` |
| | `NothingEmpty` | `NoEmptyOrders`, under `PositiveQuantities` |
| | `NoSentinelPrinted` | `NoSentinelTrade`, unless market and FillOrKill orders are both added |
| | `SweepsGoOutwards` | `SweepWorsens`, under `LimitOrdersOnly` |
| | `RoundingServes` | `RoundingServesTheChecks` |
| `OrderbookSums` | `TotalsAgree` | `TotalsInSync` |
| | `FillOrKillComplete` | `FillOrKillBalanced` |
| | `QueuesKeepOrder` | `NoOvertaking` |
| `OrderbookImplements` | `Implements` | `ImplementsPriceTimeBook`: a behaviour of the engine is one of the abstract book |
| `FeedProofs` | `FeedImplementsEngine` | `FeedDrivesEngine`: a feed's behaviour is one of the engine |
| | `FeedKeepsBook` | under every feed: `NoLeakNoDoubleFree`, `ListsWellFormed`, `ListsInTimeOrder`, `TotalsInSync`, `PriceTimePriority`, `TradeWithinLimits`, `NoOvertaking`, `ImplementsPriceTimeBook` |
| | `FeedInductive`, `FeedTypeCorrect` | `FeedTypeOK` |
| | `MessagesCounted` | `EveryMessageCounted` is an invariant |
| `ClientProofs` | `ClientKeepsBook` | the client is a feed, and what follows for its book |
| | `ScreenUncrossed` | `ScreenNeverCrossed`, under `NoTopBid` |

**The hypotheses.** Four theorems need a condition on what callers do, because
without it the code does otherwise, and a run shows that. Each condition is a
definition about the constants, and the constants of a run satisfy it.

| Condition | Says | Satisfied in | Violated in |
|---|---|---|---|
| `LimitOrdersOnly` | no market orders, and no limit at a sentinel price | `limits` | `market_cross` |
| `PlainLimits`, and market or FillOrKill orders but not both | no limit at a sentinel price | `limits`, `market` | `fok_sentinel` |
| `PositiveQuantities` | no rule set admits quantity 0 and no modification asks for it | `limits` | `modify_zero` |
| `NoTopBid` | no response bids `INT_MAX` cents | `client` | none: such a bid, next to an ask that overflows to `INT_MIN`, would be two market orders at rest |

`CounterMod` is above 1 by `FeedAssumption`: counters modulo 1 would count nothing.

**The invariant.** None of the structural properties is inductive alone. A
removal keeps the lists well formed only if the slot removed is in no other
list, which is the partition of the pool; it keeps the list in time order only
if the list was linked in that order; and a replayed match is valid only because
the scan met no order twice. `IInv` is the conjunction of:

- `GoodBook(book, Reserved(call))`: types, the partition of the pool into free,
  resting and in-flight slots, ends, neighbours, counts, the order of each
  level, and its agreement with the links. It is a predicate on a book, so it
  can be asserted of the intermediate books inside one action, as between the
  `Alloc` and the `InsertIntoBook` of `AddOrder`.
- `Collected`: the matches are distinct resting orders of the other side with
  enough quantity. This is `MatchesStayValid` without the call's state.
- `Scanning`: while the scan runs, nothing collected is in a level still to
  visit, is the order at hand, or comes after it in time. This is why the scan
  meets no order twice; it needs the lists to be in time order, so acyclicity
  of the links comes from `older` and no induction along a list is needed.

TLC checks `IInv` in the run `invariant`.

**The argument.** `OrderbookLemmas` says for each helper what it does to a book,
as an effect predicate (`RemoveFromListEffect`, `UnbookEffect`,
`AppendToListEffect`, `InsertEffect`, ...): pointwise facts about slots, levels
and the map, free of the helper's definition. Then `AllocGood`, `FreeGood`,
`InsertGood`, `UnbookGood`, `SetQuantityGood` and `FillInFlightGood` show that a
helper takes a good book to a good book, with the right slot entering or leaving
the reserved set. `OrderbookProofs` composes them: one lemma per action, and one
step per disjunct of `Next` in `Inductive`.

The second half of `OrderbookProofs` lifts this to whole steps: `Shrunk` (some orders left, the
others are as they were but for their quantities), `Grown` (one came, behind
its level), `MatchEffect` and `ExecuteEffect` (a trade). `StepCases` splits a
step into these. What follows are invariants that hold given `IInv`, each
needed because the property it is for is not inductive.

**Priority.** For a trade of `MatchOrders`, priority is the choice of the best
level and of its head, and the head is the oldest because the list is in time
order. For a FillOrKill order it is a fact about the past of the scan.
`PriorityInv` says that the matches are the front of the other side in order
(`FrontMatched`: whatever is ahead of a match is an earlier match, and all but
the last take the whole order) and that the scan skips nothing (`NothingSkipped`:
every order in reach is matched, at hand or behind the one at hand, or in a
level to come). The replay keeps `FrontMatched` since each of its trades removes
the first match and nothing else; then the first match is the first of its side.
TLC checks `PriorityInv` too, in `invariant`.

**Kinds and prices.** `RestersInv`: an order at rest is GoodTillCancel,
GoodForDay, or the ImmediateOrCancel order of the running call, which is what
`iocId_` names when the loop ends. `PricesInv`: an order rests at a price a
caller gave or at the sentinel of its own side. From it, with limit orders only,
`CalmInv` (the book is crossed only while `MatchOrders` runs: a cancel or a
change of rules uncrosses nothing and crosses nothing, and the loop breaks only
on an uncrossed book, since its other exit needs a market order on each side),
`FullInv` (no order of quantity 0, between the trades of a call either: that is
what `NoEmptyOrders` says of every step) and `SweepInv`
(what is still to trade is no better than what has traded, for the orders at
rest and for the matches left to replay).

**The end of a call.** `CallsEnd` is about `StepsLeft`. A trade of `MatchOrders`
uses up one of its two orders, of quantity 0 or not, so fewer are at rest
(`MatchStepShortens`). The scan takes a level off those to visit, or adds a match;
the matches are of distinct orders at rest (`Collected`), hence no more than the
pool has slots (`OneToOne`, `FewMatches`), so what is left of the scan leaves room
for the replay. The list of the end-of-day cancellation is of ids in the map, at
first no more than slots (`FewToCancel`).

**Sums.** The library's induction theorems take an operator as a parameter, which
the provers cannot instantiate, so facts about sums are proved by looking at a
smallest counterexample (`SmallestSet`, by `FS_CardinalityType` and the
well-foundedness of the natural numbers, and `NatMin`). `Total(w, S)` is the
recursive function that `MapThenSumSet` and `FoldSeq` choose; `SumExists`,
`SumsAgree`, `TotalWithout` and `TotalWith` say that there is one and that any
element can be taken off it, not only the one the recursion picks. `TotalsInv`
is then kept by `DllAppend`, `DllRemove` and the updates in place because
`totalQty` and the sum change by the same quantity, modulo the width
(`WrapOnce`: wrapping at each step is wrapping once). `BalanceInv` says that
what the scan has found and what it misses make up the order, and that the
matches left to replay are what is left of it.

**Queues.** `NoOvertaking` speaks of the ids met from the head of a list along
its links. Such a walk (`IsWalk`, `WalkInOrder`) meets the members of the level
each before those that came later, and what a step does to `older` is in
`Shrunk` and `Grown`: two orders at rest before and after keep their slots and
their order (`KeepsOrder`). An order that changes its price leaves in one step
and comes back in another.

**The refinement.** `NextImplements` shows that each case of `StepCases` is a
step of `PriceTimeBook` or a stutter, from `IInv`, `PriorityInv` and `LastTaken`.

- With nothing to replay (`PlainMapping`) the abstract orders are those of the
  book, and `ShrunkOrders` and `GrownOrders` turn `Shrunk` and `Grown` into
  `Leave`, `Resize` and `Enter`. An order that `AddOrder` takes in is the last of
  its queue because `DllAppend` puts it behind every member of its level.
- A trade of `MatchOrders` is `Trade`: the head of the best level is `First` of
  its side (`HeadIsFirst`), since the list of a level is in time order.
- A trade of `ExecuteFOK` is nothing (`ReplayIsStill`). The match replayed leaves
  the sequence as its quantity leaves the book: the other matches are of other
  orders, so the orders, their precedence and the volume that `OrdersOf`,
  `BeforeOf` and `VolumeOf` make of book and matches stay as they were.
- The end of a scan that has found enough is `Sweep` (`FoundIsSweep`). By
  `FrontMatched` the orders matched are exactly the last one and those that
  precede it, where the order in time is total within a level; all but the last
  are taken whole. The abstract volume is a sum over ids and the engine's over
  matches, so `TotalRenamed` carries one to the other. `LastTaken` says that the
  last match is of at least 1 then, as `Sweep` demands: the code may match an
  order of quantity 0, but goes on to the one that uses up what remained.

The theorem has no condition on callers: rest at sentinel prices, zero
quantities and wrapping totals are all steps of the abstract book. `FeedKeepsBook`
extends it to everything a feed does.

**The feed.** Each handler is a call of the engine or touches nothing of it, so
the point is the snapshot, which makes many calls in turn from what it read at
the start. `FeedInv` says that what is left of it is admissible: ids of the
engine to cancel, levels that `AddOrder` may be given, and a synthetic id for
each. This needs `IInv` (the ids come from `orderMap_`) and `FeedAssumption`
(there are ids enough: the code counts up from 2^63). Every step of the feed is
then a step of `Next` or leaves the engine alone, and the engine's theorems carry
over. For the counters, `FeedFrames` adds that an idle feed leaves the engine
idle, and `Balanced` that the ledger is the statistics and what is owed to them:
one for the message in hand, under its kind and as processed, and the trades that
a new order has made so far. `TradesGrow` says that a step of a call makes one
trade or none. A message done with at once is entered and counted as the same
(`DoneAtOnce`), one whose call goes on is entered and owed (`InHand`,
`StillInHand`), and its last step counts what was owed (`DoneInTheEnd`). With no
message in hand nothing is owed, which is `EveryMessageCounted`.

**The client.** Its steps are steps of the feed (`ClientStepsFeed`).
The screen is printed when `ProcessMarketData` has returned, so `CalmInv` is what
it needs, under a weaker condition than `LimitOrdersOnly`, because a price out of
range arrives as `INT_MIN`: such an ask is a market order to the engine, and
with no bid at `INT_MAX` it never is one of the pair that stops the loop (`TopInv`).
`WorkInv` keeps the engine in `MatchOrders` or idle: the orders of a snapshot
are GoodTillCancel.

## 7. What is only model-checked

- `CallReturns`, `KeepsPolling`: liveness is beyond the prover. What `CallReturns`
  rests on is proved, but for the absence of deadlock: `CallsEnd`.
- `SnapshotReplacesBook`, `ScreenIsResponse`: they relate the book at the end of a
  snapshot to the message, with the orders that its levels have traded with in
  between left to a sum.
- `DepthIsTrue`, `NoSentinelTrade` with market and FillOrKill orders together and
  the other properties of section 5: they do not hold.

## 8. What is not modelled

- `Order`, `OrderValidation`, `RejectReason`: nothing in the engine uses them.
  `OrderModify` and `LevelInfo` are records that the model passes as parameters.
- A zero `tickSize` or `lotSize` written to the public field, past the setter: the
  rule sets of the model have neither.
- Sequence gaps: `MarketDataFeed.h`, 82, has a counter for them, but no code
  compares them, so there is nothing to model beyond storing the last.
- The trades of a modification and of a snapshot are not counted by the code
  (318, 342); the model keeps this, and no property speaks of it, because nothing
  in the repository says what the counter stands for.
- What should become of an order whose change of price is refused: the code has
  cancelled it by then (464-465), no doc or test speaks of it, and the model keeps
  the loss.
- The timer inside `MatchOrders` and `CollectFOK`: undefined behaviour on
  references into erased map nodes.
- The sum of best bid and best ask at `LiveMarketData.cpp`, 141, is an `int` and
  overflows for prices above 10.7 million; the screen of the model is a set of
  levels.
- HTTP, JSON, the layout of the screen, the benchmarks and tests: input and
  output with no state.
- Exceptions of the standard containers (`std::bad_alloc`).

## 9. The plan

The system is modelled as far as its own logic goes, and every safety property
that holds of the engine and of the counters is proved. Left to prove are
`SnapshotReplacesBook` and then `ScreenIsResponse`, which rests on it, and
`DepthIsTrue` under the condition that makes it true, that no sum of quantities
at one price passes the width of `Quantity`.
