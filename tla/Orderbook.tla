------------------------------ MODULE Orderbook ------------------------------
(***************************************************************************)
(* The matching engine of Orderbook.h: a pool of order slots, two maps from *)
(* price to a doubly linked list of slots, and a map from order id to slot. *)
(*                                                                          *)
(* The engine is sequential.  A public call is one action when it has no    *)
(* loop; a call with a loop is its first action followed by one action per  *)
(* iteration, and `call' is its stack frame: while it is not Idle no other  *)
(* call can start.  The members of the class are the fields of `book', and  *)
(* the private member functions are operators from a book to a book.        *)
(*                                                                          *)
(* An operator named Mutant... is no part of the model: it is the definition *)
(* below it with a plausible bug, and some property fails when it takes that *)
(* definition's place.                                                      *)
(***************************************************************************)
EXTENDS ExchangeRules, Sequences, FiniteSets

CONSTANTS
    OrderId,            \* the ids callers use (std::uint64_t)
    NoOrder,            \* not an id: an empty std::optional<OrderId>
    PoolSize,           \* slots in pool_
    LimitPrices,        \* the prices callers pass to AddOrder and ModifyOrder
    AddQuantities,      \* the quantities callers pass to AddOrder
    ModifyQuantities,   \* the quantities callers pass to ModifyOrder
    AddTypes,           \* the order types callers use
    RuleSets            \* the rule sets callers pass to SetExchangeRules

VARIABLES
    book,               \* the members pool_, freeList_, bids_, asks_, orderMap_
    exchangeRules,      \* the member exchangeRules_
    call                \* the frame of the public call in progress

vars == <<book, exchangeRules, call>>

OrderType == {"GoodTillCancel", "ImmediateOrCancel", "Market", "GoodForDay", "FillOrKill"}
Side      == {"Buy", "Sell"}

ASSUME BookAssumption ==
    /\ NoOrder \notin OrderId
    /\ PoolSize \in Nat
    /\ LimitPrices \subseteq Price
    /\ AddQuantities \subseteq Quantity
    /\ ModifyQuantities \subseteq Quantity
    /\ AddTypes \subseteq OrderType
    /\ RuleSets \subseteq Rules

Opposite(side) == IF side = "Buy" THEN "Sell" ELSE "Buy"

NULL_IDX == -1
Idx      == 0 .. (PoolSize - 1)
Link     == Idx \cup {NULL_IDX}

PoolOrder == [ orderId   : OrderId \cup {NoOrder},
               side      : Side,
               price     : Price,
               orderType : OrderType,
               quantity  : Quantity,
               prev      : Link,
               next      : Link ]

PriceLevel == [ head       : Link,
                tail       : Link,
                totalQty   : Quantity,
                orderCount : Int ]

Trade    == [ bidOrderId : OrderId, askOrderId : OrderId, price : Price, quantity : Quantity ]
FokMatch == [ idx : Idx, qty : Quantity ]

\* PoolOrder{}.  The bytes of a free slot are dead, because Alloc overwrites
\* them before anything reads them: a free slot always holds this value.
FreeSlot == [ orderId |-> NoOrder, side |-> "Buy", price |-> 0,
              orderType |-> "GoodTillCancel", quantity |-> 0,
              prev |-> NULL_IDX, next |-> NULL_IDX ]

EmptyLevel == [ head |-> NULL_IDX, tail |-> NULL_IDX, totalQty |-> 0, orderCount |-> 0 ]

IsPartialFunction(f, S, T) == DOMAIN f \subseteq S /\ f \in [DOMAIN f -> T]

\* levels["Buy"] is bids_ and levels["Sell"] is asks_; a price that is not in
\* the domain has no entry in the std::map.  `older' is auxiliary: it is not
\* in the code, and holds the pairs of slots of one price level whose first
\* was appended before its second.
IsBook(b) ==
    /\ b = [ pool |-> b.pool, freeList |-> b.freeList, levels |-> b.levels,
             orderMap |-> b.orderMap, older |-> b.older ]
    /\ b.pool \in [Idx -> PoolOrder]
    /\ b.freeList \in Seq(Idx)
    /\ b.levels = [side \in Side |-> b.levels[side]]
    /\ \A side \in Side : IsPartialFunction(b.levels[side], Price, PriceLevel)
    /\ IsPartialFunction(b.orderMap, OrderId, Idx)
    /\ b.older \subseteq Idx \X Idx

Put(f, k, v) == [x \in DOMAIN f \cup {k} |-> IF x = k THEN v ELSE f[x]]
Erase(f, k)  == [x \in DOMAIN f \ {k} |-> f[x]]

MutantMaxOf(m, n) == IF m < n THEN n ELSE m

MinOf(m, n)   == IF m < n THEN m ELSE n
QtyAdd(m, n)  == (m + n) % QuantityMod
QtySub(m, n)  == (m - n) % QuantityMod

-----------------------------------------------------------------------------
(* The member functions of Orderbook, on a book b.                          *)

Live(b) == {b.orderMap[id] : id \in DOMAIN b.orderMap}

Members(b, side, price) ==
    {i \in Live(b) : b.pool[i].side = side /\ b.pool[i].price = price}

\* freeList_.back() and pop_back(), then the assignments to pool_[idx] that
\* follow every call of Alloc.
AllocIdx(b) == b.freeList[Len(b.freeList)]

Alloc(b, type, id, side, price, qty) ==
    [ pool     |-> [b.pool EXCEPT ![AllocIdx(b)] =
                      [ orderId |-> id, side |-> side, price |-> price, orderType |-> type,
                        quantity |-> qty, prev |-> NULL_IDX, next |-> NULL_IDX ]],
      freeList |-> SubSeq(b.freeList, 1, Len(b.freeList) - 1),
      levels   |-> b.levels,
      orderMap |-> b.orderMap,
      older    |-> b.older ]

Free(b, i) ==
    [ pool     |-> [b.pool EXCEPT ![i] = FreeSlot],
      freeList |-> Append(b.freeList, i),
      levels   |-> b.levels,
      orderMap |-> b.orderMap,
      older    |-> b.older ]

\* The level found or created by bids_[o.price] / asks_[o.price].
LevelFor(b, o) ==
    IF o.price \in DOMAIN b.levels[o.side] THEN b.levels[o.side][o.price] ELSE EmptyLevel

\* An empty level stays in its map.
MutantKeepEmpty(levels, side, price, lvl) ==
    [levels EXCEPT ![side] = Put(levels[side], price, lvl)]

\* Write a level back into its map, and erase it there if it became empty.
SetLevel(levels, side, price, lvl) ==
    [levels EXCEPT ![side] =
        IF lvl.orderCount = 0 THEN Erase(levels[side], price)
                              ELSE Put(levels[side], price, lvl)]

\* The new order is linked back to the old tail, which is not linked to it.
MutantAppendBackOnly(pool, i, tail) ==
    [pool EXCEPT ![i] = [@ EXCEPT !.prev = tail, !.next = NULL_IDX]]

\* DllAppend, on the slots and on the level.
AppendToList(pool, i, tail) ==
    [j \in Idx |-> CASE j = i    -> [pool[j] EXCEPT !.prev = tail, !.next = NULL_IDX]
                     [] j = tail -> [pool[j] EXCEPT !.next = i]
                     [] OTHER    -> pool[j]]

AppendToLevel(lvl, i, qty) ==
    [ head       |-> IF lvl.tail = NULL_IDX THEN i ELSE lvl.head,
      tail       |-> i,
      totalQty   |-> QtyAdd(lvl.totalQty, qty),
      orderCount |-> lvl.orderCount + 1 ]

\* A new order goes to the head of its list.
MutantInsertAtHead(b, i) ==
    LET o    == b.pool[i]
        head == LevelFor(b, o).head
        new  == [AppendToLevel(LevelFor(b, o), i, o.quantity) EXCEPT
                    !.head = i, !.tail = IF head = NULL_IDX THEN i ELSE LevelFor(b, o).tail]
    IN  [ pool     |-> [j \in Idx |->
                          CASE j = i    -> [o EXCEPT !.next = head]
                            [] j = head -> [b.pool[j] EXCEPT !.prev = i]
                            [] OTHER    -> b.pool[j]],
          freeList |-> b.freeList,
          levels   |-> SetLevel(b.levels, o.side, o.price, new),
          orderMap |-> Put(b.orderMap, o.orderId, i),
          older    |-> b.older \cup {<<j, i>> : j \in Members(b, o.side, o.price)} ]

InsertIntoBook(b, i) ==
    LET o   == b.pool[i]
        lvl == LevelFor(b, o)
    IN  [ pool     |-> AppendToList(b.pool, i, lvl.tail),
          freeList |-> b.freeList,
          levels   |-> SetLevel(b.levels, o.side, o.price, AppendToLevel(lvl, i, o.quantity)),
          orderMap |-> Put(b.orderMap, o.orderId, i),
          older    |-> b.older \cup {<<j, i>> : j \in Members(b, o.side, o.price)} ]

\* The order after i keeps its link to i.
MutantRemoveForwardOnly(pool, i) ==
    [j \in Idx |->
        IF j = i THEN FreeSlot
        ELSE [pool[j] EXCEPT
                 !.next = IF j = pool[i].prev THEN pool[i].next ELSE pool[j].next]]

\* DllRemove, on the slots (the slot i itself is dead from here on) and on the
\* level.
RemoveFromList(pool, i) ==
    [j \in Idx |->
        IF j = i THEN FreeSlot
        ELSE [pool[j] EXCEPT
                 !.next = IF j = pool[i].prev THEN pool[i].next ELSE pool[j].next,
                 !.prev = IF j = pool[i].next THEN pool[i].prev ELSE pool[j].prev]]

RemoveFromLevel(lvl, o) ==
    [ head       |-> IF o.prev = NULL_IDX THEN o.next ELSE lvl.head,
      tail       |-> IF o.next = NULL_IDX THEN o.prev ELSE lvl.tail,
      totalQty   |-> QtySub(lvl.totalQty, o.quantity),
      orderCount |-> lvl.orderCount - 1 ]

\* The slot is not given back.
MutantUnbookLeaks(b, i) ==
    LET o == b.pool[i]
    IN  [ pool     |-> RemoveFromList(b.pool, i),
          freeList |-> b.freeList,
          levels   |-> SetLevel(b.levels, o.side, o.price,
                                RemoveFromLevel(b.levels[o.side][o.price], o)),
          orderMap |-> Erase(b.orderMap, o.orderId),
          older    |-> {pair \in b.older : i \notin {pair[1], pair[2]}} ]

\* The sequence that takes a resting order out of the engine, in CancelOrder,
\* MatchOrders and ExecuteFOK alike: unlink it, drop its level if it was the
\* last one, give its slot back and forget its id.
Unbook(b, i) ==
    LET o == b.pool[i]
    IN  [ pool     |-> RemoveFromList(b.pool, i),
          freeList |-> Append(b.freeList, i),
          levels   |-> SetLevel(b.levels, o.side, o.price,
                                RemoveFromLevel(b.levels[o.side][o.price], o)),
          orderMap |-> Erase(b.orderMap, o.orderId),
          older    |-> {pair \in b.older : i \notin {pair[1], pair[2]}} ]

CancelledBook(b, id) ==
    IF id \in DOMAIN b.orderMap THEN Unbook(b, b.orderMap[id]) ELSE b

\* A new quantity for the order i, and for its level's total.
SetQuantity(b, i, qty, total) ==
    LET o == b.pool[i]
    IN  [ pool     |-> [b.pool EXCEPT ![i] = [o EXCEPT !.quantity = qty]],
          freeList |-> b.freeList,
          levels   |-> [b.levels EXCEPT ![o.side] = Put(b.levels[o.side], o.price,
                           [b.levels[o.side][o.price] EXCEPT !.totalQty = total])],
          orderMap |-> b.orderMap,
          older    |-> b.older ]

TotalOf(b, i) == b.levels[b.pool[i].side][b.pool[i].price].totalQty

\* The level's total is forgotten.
MutantFillOrderOnly(b, i, qty) ==
    SetQuantity(b, i, QtySub(b.pool[i].quantity, qty), TotalOf(b, i))

\* PoolOrder::Fill of a resting order, with the decrement of its level's total.
FillResting(b, i, qty) ==
    SetQuantity(b, i, QtySub(b.pool[i].quantity, qty), QtySub(TotalOf(b, i), qty))

\* PoolOrder::Fill of an order that is in no level.
FillInFlight(b, i, qty) ==
    [ pool     |-> [b.pool EXCEPT ![i] =
                      [b.pool[i] EXCEPT !.quantity = QtySub(b.pool[i].quantity, qty)]],
      freeList |-> b.freeList,
      levels   |-> b.levels,
      orderMap |-> b.orderMap,
      older    |-> b.older ]

UnbookIfFilled(b, i) == IF b.pool[i].quantity = 0 THEN Unbook(b, i) ELSE b

\* p is the key of levels.begin(): bids_ is sorted by greater, asks_ by less.
Better(side, p, q)    == IF side = "Buy" THEN p > q ELSE p < q
MutantIsWorst(side, p, prices) == p \in prices /\ \A q \in prices : ~Better(side, p, q)

IsBest(side, p, prices) == p \in prices /\ \A q \in prices : ~Better(side, q, p)

\* The limit is off by one.
MutantReachesFurther(side, limit, p) ==
    IF side = "Buy" THEN p <= limit + 1 ELSE p >= limit - 1

\* May an order of this side and limit trade at the opposite price p?
Reaches(side, limit, p) == IF side = "Buy" THEN p <= limit ELSE p >= limit

CanMatch(b, side, price) ==
    \E p \in DOMAIN b.levels[Opposite(side)] : Reaches(side, price, p)

IsSentinel(price) == price \in {INT_MIN, INT_MAX}

\* The quantity is not checked.
MutantAnyQuantity(b, id, price, qty) ==
    /\ id \notin DOMAIN b.orderMap
    /\ IsSentinel(price) \/ IsValidPrice(exchangeRules, price)
    /\ IsSentinel(price) \/ IsValidNotional(exchangeRules, price, qty)

ValidateOrder(b, id, price, qty) ==
    /\ id \notin DOMAIN b.orderMap
    /\ IsSentinel(price) \/ IsValidPrice(exchangeRules, price)
    /\ IsValidQuantity(exchangeRules, qty)
    /\ IsSentinel(price) \/ IsValidNotional(exchangeRules, price, qty)

GetOrderInfos(b, side) ==
    {[price |-> p, quantity |-> b.levels[side][p].totalQty] :
        p \in {p \in DOMAIN b.levels[side] : b.levels[side][p].totalQty > 0}}

-----------------------------------------------------------------------------
(* The frames of the calls that loop, and of ModifyOrder between its        *)
(* CancelOrder and its AddOrder.                                            *)

Idle == [pc |-> "idle"]

MatchFrame   == [ pc : {"match"}, side : Side, iocId : OrderId \cup {NoOrder},
                  trades : Seq(Trade) ]
CollectFrame == [ pc : {"collect"}, idx : Idx, remaining : Quantity,
                  todo : SUBSET Price, cur : Link, matches : Seq(FokMatch) ]
ExecuteFrame == [ pc : {"execute"}, idx : Idx, matches : Seq(FokMatch),
                  trades : Seq(Trade) ]
ReAddFrame   == [ pc : {"readd"}, type : OrderType, id : OrderId, side : Side,
                  price : Price, qty : Quantity ]
CancelFrame  == [ pc : {"cancelAll"}, toCancel : SUBSET OrderId ]

Frame == {Idle} \cup MatchFrame \cup CollectFrame \cup ExecuteFrame
                \cup ReAddFrame \cup CancelFrame

Return == call' = Idle

\* The Trades the running call has gathered, and returns when it ends.
TradesSoFar == IF call.pc \in {"match", "execute"} THEN call.trades ELSE <<>>

Init ==
    /\ book = [ pool     |-> [i \in Idx |-> FreeSlot],
                freeList |-> [k \in 1 .. PoolSize |-> PoolSize - k],
                levels   |-> [side \in Side |-> [p \in {} |-> EmptyLevel]],
                orderMap |-> [id \in {} |-> 0],
                older    |-> {} ]
    /\ exchangeRules \in RuleSets
    /\ call = Idle

-----------------------------------------------------------------------------
(* AddOrder.  MarketPrice and LimitType are the conversion of a market      *)
(* order into a limit order at the sentinel price of its side.              *)

MarketPrice(side) == IF side = "Buy" THEN INT_MAX ELSE INT_MIN
LimitPrice(type, side, price) == IF type = "Market" THEN MarketPrice(side) ELSE price
LimitType(type)   == IF type = "Market" THEN "GoodTillCancel" ELSE type

\* The early returns of AddOrder.
Rejected(type, id, side, price, qty) ==
    LET limit == LimitPrice(type, side, price)
    IN  \/ type = "Market" /\ DOMAIN book.levels[Opposite(side)] = {}
        \/ ~ValidateOrder(book, id, limit, qty)
        \/ type = "ImmediateOrCancel" /\ ~CanMatch(book, side, limit)

\* Alloc throws std::runtime_error, and nothing has been changed yet.
PoolExhausted == book.freeList = <<>>

StartFillOrKill(id, side, price, qty) ==
    /\ book' = Alloc(book, "FillOrKill", id, side, price, qty)
    /\ call' = [ pc |-> "collect", idx |-> AllocIdx(book), remaining |-> qty,
                 todo |-> {p \in DOMAIN book.levels[Opposite(side)] :
                              Reaches(side, price, p)},
                 cur |-> NULL_IDX, matches |-> <<>> ]

StartMatching(type, id, side, price, qty) ==
    /\ book' = InsertIntoBook(Alloc(book, type, id, side, price, qty), AllocIdx(book))
    /\ call' = [ pc |-> "match", side |-> side, trades |-> <<>>,
                 iocId |-> IF type = "ImmediateOrCancel" THEN id ELSE NoOrder ]

AddOrderBody(type, id, side, price, qty) ==
    /\ UNCHANGED exchangeRules
    /\ \/ /\ Rejected(type, id, side, price, qty) \/ PoolExhausted
          /\ Return
          /\ UNCHANGED book
       \/ /\ ~Rejected(type, id, side, price, qty)
          /\ ~PoolExhausted
          /\ IF type = "FillOrKill"
             THEN StartFillOrKill(id, side, price, qty)
             ELSE StartMatching(LimitType(type), id, side,
                                LimitPrice(type, side, price), qty)

AddOrder(type, id, side, price, qty) ==
    /\ call = Idle
    /\ AddOrderBody(type, id, side, price, qty)

-----------------------------------------------------------------------------
(* MatchOrders: one action per trade.                                       *)

BidPrices == DOMAIN book.levels["Buy"]
AskPrices == DOMAIN book.levels["Sell"]

\* "No cross" is taken for bp <= ap.
MutantStrictCross(bp, ap) ==
    /\ IsBest("Buy", bp, BidPrices)
    /\ IsBest("Sell", ap, AskPrices)
    /\ bp > ap
    /\ ~(bp = INT_MAX /\ ap = INT_MIN)

\* The loop does not break when there is no cross.
MutantNoCrossCheck(bp, ap) ==
    /\ IsBest("Buy", bp, BidPrices)
    /\ IsBest("Sell", ap, AskPrices)
    /\ ~(bp = INT_MAX /\ ap = INT_MIN)

\* The loop does not break on two market orders.
MutantMarketMeetsMarket(bp, ap) ==
    /\ IsBest("Buy", bp, BidPrices)
    /\ IsBest("Sell", ap, AskPrices)
    /\ bp >= ap

\* bp and ap are the keys of bids_.begin() and asks_.begin(), and the loop
\* does not break on them.
CanTrade(bp, ap) ==
    /\ IsBest("Buy", bp, BidPrices)
    /\ IsBest("Sell", ap, AskPrices)
    /\ bp >= ap
    /\ ~(bp = INT_MAX /\ ap = INT_MIN)

TradePrice(aggressor, bp, ap) ==
    IF bp = INT_MAX THEN ap
    ELSE IF ap = INT_MIN THEN bp
    ELSE IF aggressor = "Buy" THEN ap ELSE bp

MatchStep ==
    /\ call.pc = "match"
    /\ \E bp \in BidPrices, ap \in AskPrices :
         LET bid    == book.levels["Buy"][bp].head
             ask    == book.levels["Sell"][ap].head
             qty    == MinOf(book.pool[bid].quantity, book.pool[ask].quantity)
             filled == FillResting(FillResting(book, bid, qty), ask, qty)
         IN  /\ CanTrade(bp, ap)
             /\ book' = UnbookIfFilled(UnbookIfFilled(filled, bid), ask)
             /\ call' = [call EXCEPT !.trades = Append(@,
                            [ bidOrderId |-> book.pool[bid].orderId,
                              askOrderId |-> book.pool[ask].orderId,
                              price      |-> TradePrice(call.side, bp, ap),
                              quantity   |-> qty ])]
    /\ UNCHANGED exchangeRules

\* The remainder of an ImmediateOrCancel order is not cancelled.
MutantMatchEndKeepsIoc ==
    /\ call.pc = "match"
    /\ \A bp \in BidPrices, ap \in AskPrices : ~CanTrade(bp, ap)
    /\ Return
    /\ UNCHANGED <<book, exchangeRules>>

MatchEnd ==
    /\ call.pc = "match"
    /\ \A bp \in BidPrices, ap \in AskPrices : ~CanTrade(bp, ap)
    /\ book' = CancelledBook(book, call.iocId)
    /\ Return
    /\ UNCHANGED exchangeRules

-----------------------------------------------------------------------------
(* FillOrKill: CollectFOK scans the opposite side without touching it, one  *)
(* action per order; ExecuteFOK then replays the matches.  The scan breaks  *)
(* at the first price out of reach, so it visits the prices in call.todo in *)
(* order.  The sum of the matches is the quantity less call.remaining.      *)

Aggressor == book.pool[call.idx]

\* The scan does not advance to the next level.
MutantCollectLevelAgain ==
    /\ call.pc = "collect"
    /\ call.remaining > 0 /\ call.cur = NULL_IDX
    /\ \E p \in call.todo :
         /\ IsBest(Opposite(Aggressor.side), p, call.todo)
         /\ call' = [call EXCEPT !.cur = book.levels[Opposite(Aggressor.side)][p].head]
    /\ UNCHANGED <<book, exchangeRules>>

\* The scan of a level starts at its newest order.
MutantCollectFromTail ==
    /\ call.pc = "collect"
    /\ call.remaining > 0 /\ call.cur = NULL_IDX
    /\ \E p \in call.todo :
         /\ IsBest(Opposite(Aggressor.side), p, call.todo)
         /\ call' = [call EXCEPT !.todo = @ \ {p},
                                 !.cur  = book.levels[Opposite(Aggressor.side)][p].tail]
    /\ UNCHANGED <<book, exchangeRules>>

CollectLevel ==
    /\ call.pc = "collect"
    /\ call.remaining > 0 /\ call.cur = NULL_IDX
    /\ \E p \in call.todo :
         /\ IsBest(Opposite(Aggressor.side), p, call.todo)
         /\ call' = [call EXCEPT !.todo = @ \ {p},
                                 !.cur  = book.levels[Opposite(Aggressor.side)][p].head]
    /\ UNCHANGED <<book, exchangeRules>>

CollectOrder ==
    /\ call.pc = "collect"
    /\ call.remaining > 0 /\ call.cur # NULL_IDX
    /\ LET qty == MinOf(call.remaining, book.pool[call.cur].quantity)
       IN  call' = [call EXCEPT !.matches   = Append(@, [idx |-> call.cur, qty |-> qty]),
                                !.remaining = @ - qty,
                                !.cur       = book.pool[call.cur].next]
    /\ UNCHANGED <<book, exchangeRules>>

\* The slot of a killed order is not given back.
MutantKillLeaksSlot ==
    /\ call.pc = "collect"
    /\ call.remaining > 0 /\ call.cur = NULL_IDX /\ call.todo = {}
    /\ Return
    /\ UNCHANGED <<book, exchangeRules>>

\* An order that finds too little looks again instead of being killed.
MutantKillLooksAgain ==
    /\ call.pc = "collect"
    /\ call.remaining > 0 /\ call.cur = NULL_IDX /\ call.todo = {}
    /\ call' = [call EXCEPT !.remaining = Aggressor.quantity, !.matches = <<>>,
                   !.todo = {p \in DOMAIN book.levels[Opposite(Aggressor.side)] :
                               Reaches(Aggressor.side, Aggressor.price, p)}]
    /\ UNCHANGED <<book, exchangeRules>>

Kill ==
    /\ call.pc = "collect"
    /\ call.remaining > 0 /\ call.cur = NULL_IDX /\ call.todo = {}
    /\ book' = Free(book, call.idx)
    /\ Return
    /\ UNCHANGED exchangeRules

\* The matches are executed although they are not enough.
MutantCollectEndPartial ==
    /\ call.pc = "collect"
    /\ call.cur = NULL_IDX /\ call.todo = {}
    /\ call' = [pc |-> "execute", idx |-> call.idx, matches |-> call.matches, trades |-> <<>>]
    /\ UNCHANGED <<book, exchangeRules>>

CollectEnd ==
    /\ call.pc = "collect"
    /\ call.remaining = 0
    /\ call' = [pc |-> "execute", idx |-> call.idx, matches |-> call.matches, trades |-> <<>>]
    /\ UNCHANGED <<book, exchangeRules>>

ExecuteStep ==
    /\ call.pc = "execute"
    /\ call.matches # <<>>
    /\ LET m      == Head(call.matches)
           mo     == book.pool[m.idx]
           filled == FillInFlight(FillResting(book, m.idx, m.qty), call.idx, m.qty)
           buy    == Aggressor.side = "Buy"
       IN  /\ book' = UnbookIfFilled(filled, m.idx)
           /\ call' = [call EXCEPT
                 !.matches = Tail(@),
                 !.trades  = Append(@,
                    [ bidOrderId |-> IF buy THEN Aggressor.orderId ELSE mo.orderId,
                      askOrderId |-> IF buy THEN mo.orderId ELSE Aggressor.orderId,
                      price      |-> mo.price,
                      quantity   |-> m.qty ])]
    /\ UNCHANGED exchangeRules

ExecuteEnd ==
    /\ call.pc = "execute"
    /\ call.matches = <<>>
    /\ book' = Free(book, call.idx)
    /\ Return
    /\ UNCHANGED exchangeRules

-----------------------------------------------------------------------------
(* CancelOrder, ModifyOrder, CancelGoodForDayOrders and SetExchangeRules.   *)

CancelOrder(id) ==
    /\ call = Idle
    /\ book' = CancelledBook(book, id)
    /\ UNCHANGED <<exchangeRules, call>>

\* The order is cancelled and added again, and so loses its place.
MutantModifyRequeues(i, qty) ==
    LET o == book.pool[i]
        b == Unbook(book, i)
    IN  book' = InsertIntoBook(Alloc(b, o.orderType, o.orderId, o.side, o.price, qty), AllocIdx(b))

\* A new quantity at the same price is written in place, with no validation.
ModifyQuantity(i, qty) ==
    book' = SetQuantity(book, i, qty,
                        QtyAdd(QtySub(TotalOf(book, i), book.pool[i].quantity), qty))

ModifyOrder(id, side, price, qty) ==
    /\ call = Idle
    /\ UNCHANGED exchangeRules
    /\ IF id \notin DOMAIN book.orderMap \/ side # book.pool[book.orderMap[id]].side
       THEN UNCHANGED <<book, call>>
       ELSE LET i == book.orderMap[id]
            IN  \/ /\ price = book.pool[i].price
                   /\ ModifyQuantity(i, qty)
                   /\ UNCHANGED call
                \/ /\ price # book.pool[i].price
                   /\ book' = CancelledBook(book, id)
                   /\ call' = [ pc |-> "readd", type |-> book.pool[i].orderType,
                                id |-> id, side |-> side, price |-> price, qty |-> qty ]

ReAdd ==
    /\ call.pc = "readd"
    /\ AddOrderBody(call.type, call.id, call.side, call.price, call.qty)

CancelGoodForDayOrders ==
    /\ call = Idle
    /\ call' = [ pc |-> "cancelAll",
                 toCancel |-> {id \in DOMAIN book.orderMap :
                     book.pool[book.orderMap[id]].orderType = "GoodForDay"} ]
    /\ UNCHANGED <<book, exchangeRules>>

\* toCancel lists the ids in the order of the hash table: any order.
CancelNext ==
    /\ call.pc = "cancelAll"
    /\ \E id \in call.toCancel :
         /\ book' = CancelledBook(book, id)
         /\ call' = [call EXCEPT !.toCancel = @ \ {id}]
    /\ UNCHANGED exchangeRules

CancelAllEnd ==
    /\ call.pc = "cancelAll"
    /\ call.toCancel = {}
    /\ Return
    /\ UNCHANGED <<book, exchangeRules>>

SetExchangeRules(rules) ==
    /\ call = Idle
    /\ exchangeRules' = rules
    /\ UNCHANGED <<book, call>>

-----------------------------------------------------------------------------

\* The steps of a call that has started: the calling thread is running it.
Continue ==
    \/ MatchStep \/ MatchEnd
    \/ CollectLevel \/ CollectOrder \/ Kill \/ CollectEnd
    \/ ExecuteStep \/ ExecuteEnd
    \/ ReAdd
    \/ CancelNext \/ CancelAllEnd

PublicCall ==
    \/ \E type \in AddTypes, id \in OrderId, side \in Side,
          price \in LimitPrices, qty \in AddQuantities :
            AddOrder(type, id, side, price, qty)
    \/ \E id \in OrderId : CancelOrder(id)
    \/ \E id \in OrderId, side \in Side, price \in LimitPrices, qty \in ModifyQuantities :
            ModifyOrder(id, side, price, qty)
    \/ CancelGoodForDayOrders
    \/ \E rules \in RuleSets : SetExchangeRules(rules)

Next == PublicCall \/ Continue

Spec == Init /\ [][Next]_vars

\* A call never blocks: the thread that made it keeps running until it returns.
\* This is WF_vars(Continue) with call # Idle for ENABLED <<Continue>>_vars, which
\* TLC is very slow to evaluate: a call in progress always has a next step (no
\* run finds a deadlock), and it changes the call (StepsRunOut).
FairSpec == Spec /\ ([]<>(call = Idle) \/ []<><<Continue>>_vars)

TypeOK ==
    /\ IsBook(book)
    /\ exchangeRules \in Rules
    /\ call \in Frame

=============================================================================
