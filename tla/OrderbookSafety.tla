--------------------------- MODULE OrderbookSafety ---------------------------
(***************************************************************************)
(* What makes the matching engine correct.  The predicates on a book b hold *)
(* of every book the member functions pass to one another, between two      *)
(* steps of one call too; the ones on a quiet book hold when no call runs.   *)
(***************************************************************************)
EXTENDS Orderbook

FreeSlots(b) == {b.freeList[k] : k \in DOMAIN b.freeList}

\* The slot of a FillOrKill order: allocated, and in no list and no map.
InFlight == IF call.pc \in {"collect", "execute"} THEN {call.idx} ELSE {}

SameLevel(b, i, j) ==
    b.pool[i].side = b.pool[j].side /\ b.pool[i].price = b.pool[j].price

-----------------------------------------------------------------------------
(* The structure of a book whose slots in `reserved' are allocated but do   *)
(* not rest.                                                                *)

Partitioned(b, reserved) ==
    /\ \A k, m \in DOMAIN b.freeList : b.freeList[k] = b.freeList[m] => k = m
    /\ FreeSlots(b) \cup Live(b) \cup reserved = Idx
    /\ FreeSlots(b) \cap Live(b) = {}
    /\ reserved \cap (FreeSlots(b) \cup Live(b)) = {}
    /\ \A id \in DOMAIN b.orderMap : b.pool[b.orderMap[id]].orderId = id

EndsLinked(b) ==
    \A side \in Side : \A p \in DOMAIN b.levels[side] :
        LET lvl == b.levels[side][p]
        IN  /\ {lvl.head, lvl.tail} \subseteq Members(b, side, p)
            /\ b.pool[lvl.head].prev = NULL_IDX
            /\ b.pool[lvl.tail].next = NULL_IDX

NeighboursLinked(b) ==
    \A i \in Live(b) :
        LET o == b.pool[i]
        IN  /\ o.price \in DOMAIN b.levels[o.side]
            /\ \/ o.next = NULL_IDX /\ b.levels[o.side][o.price].tail = i
               \/ /\ o.next \in Live(b) /\ SameLevel(b, i, o.next)
                  /\ b.pool[o.next].prev = i
            /\ \/ o.prev = NULL_IDX /\ b.levels[o.side][o.price].head = i
               \/ /\ o.prev \in Live(b) /\ SameLevel(b, i, o.prev)
                  /\ b.pool[o.prev].next = i

Counted(b) ==
    \A side \in Side : \A p \in DOMAIN b.levels[side] :
        b.levels[side][p].orderCount = Cardinality(Members(b, side, p))

\* `older' orders the slots of each level, and of no two levels, totally.
Ordered(b) ==
    /\ \A i, j \in Idx : <<i, j>> \in b.older =>
         {i, j} \subseteq Live(b) /\ SameLevel(b, i, j) /\ <<j, i>> \notin b.older
    /\ \A i, j \in Live(b) : i # j /\ SameLevel(b, i, j) =>
         <<i, j>> \in b.older \/ <<j, i>> \in b.older
    /\ \A i, j, k \in Live(b) :
         <<i, j>> \in b.older /\ <<j, k>> \in b.older => <<i, k>> \in b.older

\* The list of a level links its slots in that order: the next slot is the
\* next younger one, nothing is younger than the last or older than the first.
LinkedInOrder(b) ==
    \A i \in Live(b) :
        LET o == b.pool[i]
        IN  /\ \/ o.next = NULL_IDX /\ \A k \in Live(b) : <<i, k>> \notin b.older
               \/ /\ <<i, o.next>> \in b.older
                  /\ \A k \in Live(b) : ~(<<i, k>> \in b.older /\ <<k, o.next>> \in b.older)
            /\ o.prev = NULL_IDX => \A k \in Live(b) : <<k, i>> \notin b.older

-----------------------------------------------------------------------------
(* Invariants.                                                              *)

\* Every slot of the pool is free, resting or the FillOrKill order of the
\* running call, and never two of them: Alloc and Free (Orderbook.h, 94-105)
\* neither leak a slot nor hand one out twice, whatever path a call takes.
NoLeakNoDoubleFree == Partitioned(book, InFlight)

\* The intrusive lists of bids_ and asks_ are well formed after every stitch
\* of DllAppend and DllRemove: each resting order is in the list of its own
\* level, links agree in both directions, the ends are the level's head and
\* tail, and a level with no order has been erased from its map (so the .at()
\* of CancelOrder, ModifyOrder and ExecuteFOK finds it).
ListsWellFormed == EndsLinked(book) /\ NeighboursLinked(book) /\ Counted(book)

\* Each list holds its orders from the oldest to the newest, through partial
\* fills, cancels from the middle and in-place modifications: the FIFO half of
\* the price-time priority that Orderbook.h claims at line 15.
ListsInTimeOrder == Ordered(book) /\ LinkedInOrder(book)

Resting(side, price) == Members(book, side, price)

\* What CollectFOK has gathered is still what the book holds: distinct resting
\* orders of the other side, each with at least the quantity taken from it, so
\* ExecuteFOK (192-227) never fills an order that is gone or fills it below zero.
MatchesStayValid ==
    call.pc \in {"collect", "execute"} =>
        /\ \A k \in DOMAIN call.matches :
             LET m == call.matches[k]
             IN  /\ m.idx \in Live(book)
                 /\ book.pool[m.idx].side = Opposite(Aggressor.side)
                 /\ m.qty <= book.pool[m.idx].quantity
        /\ \A k, l \in DOMAIN call.matches :
             call.matches[k].idx = call.matches[l].idx => k = l

\* Between calls no immediate order rests: the remainder of an
\* ImmediateOrCancel order has been cancelled, a FillOrKill order has left its
\* slot, and a Market order has become a GoodTillCancel one.
ImmediateOrdersNeverRest ==
    call = Idle =>
        \A i \in Live(book) :
            book.pool[i].orderType \notin {"ImmediateOrCancel", "FillOrKill", "Market"}

\* "Matches best bid against best ask until no cross exists" (230), a market
\* order "so it matches any resting order" (375-376): between calls no two
\* resting orders could trade, after a cancel, a modification or a change of
\* rules too.  Two market orders cannot: there is no price between them.
NoTradableCross ==
    call = Idle =>
        \A bp \in BidPrices, ap \in AskPrices :
            bp >= ap => bp = INT_MAX /\ ap = INT_MIN

\* A resting order always has something left to trade ("Order quantity must be
\* greater than zero", Order.h, 20 and 57), between the trades of a sweep or a
\* replay too: whoever filled the last of it has taken it out in the same step.
NoEmptyOrders == \A i \in Live(book) : book.pool[i].quantity > 0

\* No trade is printed at INT_MAX or INT_MIN, the prices that only stand for
\* "any price" (246-252).
NoSentinelTrade ==
    \A k \in DOMAIN TradesSoFar : ~IsSentinel(TradesSoFar[k].price)

\* An aggressive order sweeps the other side from the best price outwards: no
\* trade of a call is at a better price for the aggressor than the one before.
SweepWorsens ==
    LET passive == Opposite(IF call.pc = "match" THEN call.side ELSE Aggressor.side)
    IN  \A k \in 1 .. (Len(TradesSoFar) - 1) :
            ~Better(passive, TradesSoFar[k + 1].price, TradesSoFar[k].price)

\* A change of price cancels the order and adds it again (464-465).  The second
\* half can be refused, but never for want of a slot, with every other slot in
\* use too: ModifyOrder does not throw between the two, and the catch of
\* ProcessMarketData (517-520) has nothing to catch.
ReAddFindsSlot == call.pc = "readd" => ~PoolExhausted

\* RoundToTick and RoundToLot (ExchangeRules.h, 45-53) take a price and a quantity
\* to the next point of the grid towards zero, under any rules a book is given;
\* what a caller has rounded is then refused for its bounds only.
RoundingServesTheChecks ==
    /\ \A p \in Price :
         LET r == RoundToTick(exchangeRules, p)
         IN  /\ r \in IF p < 0 THEN p .. 0 ELSE 0 .. p
             /\ \A q \in (p .. r) \cup (r .. p) : q % exchangeRules.tickSize = 0 => q = r
             /\ r > 0 => IsValidPrice(exchangeRules, r)
    /\ \A qty \in Quantity :
         LET r == RoundToLot(exchangeRules, qty)
         IN  /\ r \in 0 .. qty /\ qty - r < exchangeRules.lotSize
             /\ r \in exchangeRules.minQuantity .. exchangeRules.maxQuantity
                    => IsValidQuantity(exchangeRules, r)

-----------------------------------------------------------------------------
(* Action properties.                                                       *)

Trading == /\ call.pc \in {"match", "execute"}
           /\ call'.pc = call.pc
           /\ Len(call'.trades) > Len(call.trades)
LastTrade == call'.trades[Len(call'.trades)]

\* The resting orders of the trade: a FillOrKill aggressor is in no map.
Traded == {book.orderMap[id] :
             id \in {LastTrade.bidOrderId, LastTrade.askOrderId} \cap DOMAIN book.orderMap}

\* Whenever an order trades, no order of its side has a better price, and none
\* at its price has been waiting longer: in MatchOrders, and in the replay by
\* ExecuteFOK of matches that were collected before the first of them traded.
PriceTimePriority ==
    [][Trading =>
         \A i \in Traded : \A j \in Live(book) :
             book.pool[j].side = book.pool[i].side =>
                 /\ ~Better(book.pool[i].side, book.pool[j].price, book.pool[i].price)
                 /\ <<j, i>> \notin book.older]_vars

\* Every trade is within the limits of both its orders: the bid pays at most,
\* the ask gets at least, its own price, whoever set the price of the trade.
TradeWithinLimits ==
    [][Trading =>
         LET aggressor == InFlight
         IN  \A i \in Traded \cup aggressor :
                IF book.pool[i].side = "Buy"
                THEN LastTrade.price <= book.pool[i].price
                ELSE LastTrade.price >= book.pool[i].price]_vars

\* "executed at ask price" (tests.cpp, 101), which TestPricePriority asserts of a
\* sell order that meets a better bid: the ask sets the price of the trade.
ExecutedAtAskPrice ==
    [][Trading =>
         LET ask == book.orderMap[LastTrade.askOrderId]
         IN  call.pc = "match" => LastTrade.price = book.pool[ask].price]_vars

-----------------------------------------------------------------------------
(* Liveness.                                                                *)

\* At most how many steps the call c has to go on the book b.  A trade of
\* MatchOrders removes an order; the scan of CollectFOK takes a level or an order
\* each time, and its replay a match; CancelGoodForDayOrders takes an id.
StepsLeft(b, c) ==
    CASE c.pc = "match"     -> Cardinality(Live(b))
      [] c.pc = "collect"   -> Cardinality(c.todo) + 2 * PoolSize + 1 - Len(c.matches)
      [] c.pc = "execute"   -> Len(c.matches)
      [] c.pc = "readd"     -> 3 * PoolSize + 2
      [] c.pc = "cancelAll" -> Cardinality(c.toCancel)
      [] OTHER              -> 0

\* The loops of a call are bounded by the size of the pool, through a scan and a
\* replay and with orders of quantity zero in their way: each step of a call in
\* progress brings its end nearer (172-186, 196-225, 236-293, 475).
StepsRunOut ==
    [][call' # Idle =>
         StepsLeft(book', call') \in
             0 .. (IF call = Idle THEN 3 * PoolSize + 2 ELSE StepsLeft(book, call) - 1)]_vars

\* Every call returns: the matching loop, the two phases of FillOrKill and the
\* end-of-day cancellation all reach their end, zero-quantity orders included.
CallReturns == call # Idle ~> call = Idle

=============================================================================
