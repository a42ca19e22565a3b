--------------------------- MODULE OrderbookLimits ---------------------------
(***************************************************************************)
(* At what prices orders rest and trade: between calls the book is not      *)
(* crossed, a sweep goes outwards, no trade is at a price that stands for    *)
(* any price, and no order at rest is empty.  Some of these hold under a     *)
(* condition on what callers do; each condition is a definition of its own, *)
(* and a run shows what happens without it.                                 *)
(***************************************************************************)
EXTENDS OrderbookPriority

-----------------------------------------------------------------------------
(* The least and the greatest of a set of prices.                           *)

\* The least of a set of natural numbers.
LEMMA NatMin ==
    ASSUME NEW T, T \subseteq Nat, T # {}
    PROVE  \E n \in T : \A m \in T : n <= m
<1> DEFINE R == OpToRel(<, Nat)
<1>1. IsWellFoundedOn(R, Nat)
  BY NatLessThanWellFounded
<1>2. \A m, n \in Nat : m < n => <<m, n>> \in R
  BY DEF OpToRel
<1> HIDE DEF R
<1>3. PICK n \in T : \A m \in T : ~(<<m, n>> \in R)
  BY <1>1, WFMin
<1>4. \A m \in T : ~(m < n)
  BY <1>2, <1>3
<1>5. \A m \in T : n <= m
  BY <1>4
<1> QED BY <1>5

\* The least and the greatest of a bounded set of integers.
LEMMA Extremes ==
    ASSUME NEW lo \in Int, NEW hi \in Int, NEW S, S \subseteq lo .. hi, S # {}
    PROVE  /\ \E p \in S : \A q \in S : p <= q
           /\ \E p \in S : \A q \in S : p >= q
<1> DEFINE up == {n \in Nat : \E p \in S : n = p - lo}
           down == {n \in Nat : \E p \in S : n = hi - p}
<1>1. \A p \in S : p \in Int /\ p - lo \in up /\ hi - p \in down
  OBVIOUS
<1>2. PICK n \in up : \A m \in up : n <= m
  <2>1. up \subseteq Nat /\ up # {}
    BY <1>1
  <2> HIDE DEF up
  <2> QED BY <2>1, NatMin
<1>3. PICK k \in down : \A m \in down : k <= m
  <2>1. down \subseteq Nat /\ down # {}
    BY <1>1
  <2> HIDE DEF down
  <2> QED BY <2>1, NatMin
<1>4. PICK p \in S : n = p - lo
  BY <1>2
<1>5. PICK r \in S : k = hi - r
  BY <1>3
<1> HIDE DEF up, down
<1>6. \A q \in S : p - lo <= q - lo /\ hi - r <= hi - q
  BY <1>1, <1>2, <1>3, <1>4, <1>5
<1>7. \A q \in S : p <= q /\ r >= q
  BY <1>1, <1>6
<1> QED BY <1>7

\* A side that is not empty has a best price: begin() of its std::map.
LEMMA BestExists ==
    ASSUME NEW side \in Side, NEW S, S \subseteq Price, S # {}
    PROVE  \E p : IsBest(side, p, S)
<1>1. PICK lo \in S : \A q \in S : lo <= q
  BY NumericAssumption, Extremes DEF Price
<1>2. PICK hi \in S : \A q \in S : hi >= q
  BY NumericAssumption, Extremes DEF Price
<1>3. S \subseteq Int
  BY NumericAssumption DEF Price
<1>4. side = "Buy" => IsBest(side, hi, S)
  BY <1>2, <1>3 DEF IsBest, Better
<1>5. side # "Buy" => IsBest(side, lo, S)
  BY <1>1, <1>3 DEF IsBest, Better
<1> QED BY <1>4, <1>5

-----------------------------------------------------------------------------
(* What a step does to the orders at rest, and to the frame of the call.    *)

\* No order came: the ones that stayed kept all but, perhaps, their quantity.
Left ==
    \A j \in Live(book') :
        /\ j \in Live(book)
        /\ book'.pool[j].side = book.pool[j].side
        /\ book'.pool[j].price = book.pool[j].price
        /\ \/ book'.pool[j].quantity = book.pool[j].quantity
           \/ book'.pool[j].quantity > 0
           \/ book'.pool[j].quantity \in ModifyQuantities

\* One order came, at this price and with this quantity, and is now matched.
Came(i, type, id, side, price, qty) ==
    /\ Adding(type, id, side, price, qty)
    /\ call'.pc = "match"
    /\ ValidateOrder(book, id, LimitPrice(type, side, price), qty)
    /\ \A j \in Live(book') :
         \/ /\ j = i
            /\ book'.pool[j].side = side
            /\ book'.pool[j].price = LimitPrice(type, side, price)
            /\ book'.pool[j].quantity = qty
         \/ /\ j \in Live(book)
            /\ book'.pool[j].side = book.pool[j].side
            /\ book'.pool[j].price = book.pool[j].price
            /\ book'.pool[j].quantity = book.pool[j].quantity

\* Orders leave, and the quantity changes of those in changed only.
LEMMA ShrunkIsLeft ==
    ASSUME NEW reserved, GoodBook(book, reserved), NEW gone, NEW changed,
           Shrunk(book, book', gone), SameQuantity(book, book', changed),
           \A j \in changed : j \in Live(book') =>
              \/ book'.pool[j].quantity > 0
              \/ book'.pool[j].quantity \in ModifyQuantities
    PROVE  Left
<1>1. \A j \in Live(book') : j \in Live(book) /\ j \in Idx \ gone
  BY LiveSlot DEF Shrunk
<1> QED BY <1>1 DEF Shrunk, SameQuantity, Left

\* A difference of quantities that differ is positive.
LEMMA PositiveRemainder ==
    ASSUME NEW m \in Quantity, NEW n \in Quantity, n <= m, m # n
    PROVE  m - n > 0
BY NumericAssumption DEF Quantity

\* A trade of the matching loop leaves nothing empty behind.
LEMMA MatchLeft ==
    ASSUME IInv, MatchStep
    PROVE  Left
<1>1. PICK bp, ap, x, y, q : MatchEffect(bp, ap, x, y, q)
  BY MatchStepEffect
<1>2. GoodBook(book, {})
  BY PlainState DEF IInv, MatchStep
<1> DEFINE gone == Spent(book, x, q) \cup Spent(book, y, q)
<1>3. /\ Shrunk(book, book', gone) /\ SameQuantity(book, book', {x, y})
      /\ x \in Live(book) /\ y \in Live(book)
      /\ q = MinOf(book.pool[x].quantity, book.pool[y].quantity)
      /\ book.pool[x].quantity # q => book'.pool[x].quantity = book.pool[x].quantity - q
      /\ book.pool[y].quantity # q => book'.pool[y].quantity = book.pool[y].quantity - q
  BY <1>1 DEF MatchEffect
<1>4. book.pool[x].quantity \in Quantity /\ book.pool[y].quantity \in Quantity
  BY <1>2, <1>3, LiveSlot DEF PoolOrder
<1>5. q \in Quantity /\ q <= book.pool[x].quantity /\ q <= book.pool[y].quantity
  BY <1>3, <1>4, NumericAssumption DEF MinOf, Quantity
<1>6. \A j \in Live(book') : j \notin gone
  BY <1>3 DEF Shrunk
<1>7. \A j \in {x, y} : j \in Live(book') => book'.pool[j].quantity > 0
  BY <1>3, <1>4, <1>5, <1>6, PositiveRemainder DEF Spent
<1> HIDE DEF gone
<1> QED BY <1>2, <1>3, <1>7, ShrunkIsLeft

\* So does a trade of the replay.
LEMMA ExecuteLeft ==
    ASSUME IInv, ExecuteStep
    PROVE  Left
<1> DEFINE i == Head(call.matches).idx
           q == Head(call.matches).qty
<1>1. ExecuteEffect(i, q)
  BY ExecuteStepEffect
<1> HIDE DEF i, q
<1>2. GoodBook(book, {call.idx})
  BY DEF IInv, StateOK, Reserved, ExecuteStep
<1>3. /\ Shrunk(book, book', Spent(book, i, q)) /\ SameQuantity(book, book', {i, call.idx})
      /\ i \in Live(book) /\ call.idx \notin Live(book) /\ q \in Quantity
      /\ q <= book.pool[i].quantity
      /\ book.pool[i].quantity # q => book'.pool[i].quantity = book.pool[i].quantity - q
  BY <1>1 DEF ExecuteEffect
<1>4. book.pool[i].quantity \in Quantity
  BY <1>2, <1>3, LiveSlot DEF PoolOrder
<1>5. \A j \in Live(book') : j \in Live(book) /\ j \notin Spent(book, i, q)
  BY <1>3 DEF Shrunk
<1>6. i \in Live(book') => book'.pool[i].quantity > 0
  BY <1>3, <1>4, <1>5, PositiveRemainder DEF Spent
<1>7. call.idx \notin Live(book')
  BY <1>3, <1>5
<1> QED BY <1>2, <1>3, <1>6, <1>7, ShrunkIsLeft

\* AddOrder brings one order or none.
LEMMA AddOrderComes ==
    ASSUME GoodBook(book, {}), NEW type \in OrderType, NEW id \in OrderId, NEW side \in Side,
           NEW price \in Price, NEW qty \in Quantity, Adding(type, id, side, price, qty)
    PROVE  Left \/ \E i : Came(i, type, id, side, price, qty)
<1>1. CASE book' = book
  BY <1>1 DEF Left
<1>2. CASE /\ id \notin DOMAIN book.orderMap /\ book.freeList # <<>>
           /\ StartFillOrKill(id, side, price, qty)
  <2> DEFINE i == AllocIdx(book)
             o == [ orderId |-> id, side |-> side, price |-> price, orderType |-> "FillOrKill",
                    quantity |-> qty, prev |-> NULL_IDX, next |-> NULL_IDX ]
  <2>1. Allocated(book, Alloc(book, "FillOrKill", id, side, price, qty), i, o)
    BY <1>2, AllocGood DEF OrderType
  <2>2. book' = Alloc(book, "FillOrKill", id, side, price, qty)
    BY <1>2 DEF StartFillOrKill
  <2> HIDE DEF o, i
  <2>3. Live(book') = Live(book) /\ \A j \in Live(book) : book'.pool[j] = book.pool[j]
    BY <2>1, <2>2 DEF Allocated
  <2> QED BY <2>3 DEF Left
<1>3. CASE /\ id \notin DOMAIN book.orderMap /\ book.freeList # <<>>
           /\ type # "FillOrKill" /\ LimitType(type) \in OrderType
           /\ LimitPrice(type, side, price) \in Price
           /\ StartMatching(LimitType(type), id, side, LimitPrice(type, side, price), qty)
           /\ call'.pc = "match"
           /\ ValidateOrder(book, id, LimitPrice(type, side, price), qty)
  <2> DEFINE kind == LimitType(type)  limit == LimitPrice(type, side, price)
             i == AllocIdx(book)
             u == InsertIntoBook(Alloc(book, kind, id, side, limit, qty), i)
  <2>1. book' = u
    BY <1>3 DEF StartMatching
  <2>2. /\ kind \in OrderType /\ limit \in Price /\ id \in OrderId \ DOMAIN book.orderMap
        /\ book.freeList # <<>> /\ i = AllocIdx(book)
    BY <1>3
  <2>3. u = InsertIntoBook(Alloc(book, kind, id, side, limit, qty), i)
    OBVIOUS
  <2>4. limit = LimitPrice(type, side, price)
    OBVIOUS
  <2> HIDE DEF kind, limit, i, u
  <2>5. /\ Grown(book, u, i) /\ u.pool[i].side = side /\ u.pool[i].price = limit
        /\ u.pool[i].quantity = qty
    BY <2>2, <2>3, AddGrows
  <2>6. Came(i, type, id, side, price, qty)
    BY <1>3, <2>1, <2>4, <2>5 DEF Came, Grown
  <2> QED BY <2>6
<1>4. AddOrderBody(type, id, side, price, qty)
  BY DEF Adding
<1> QED BY <1>1, <1>2, <1>3, <1>4, AddOrderCases

\* Every step of every call brings one order or none.
LEMMA RestingStep ==
    ASSUME IInv, [Next]_vars
    PROVE  \/ Left
           \/ \E i : \E type \in OrderType, id \in OrderId, side \in Side, price \in Price,
                        qty \in Quantity : Came(i, type, id, side, price, qty)
<1>1. ASSUME book' = book
      PROVE  Left
  BY <1>1 DEF Left
<1>2. CASE UNCHANGED vars
  BY <1>1, <1>2 DEF vars
<1>3. ASSUME GoodBook(book, {}),
             NEW type \in OrderType, NEW id \in OrderId, NEW side \in Side, NEW price \in Price,
             NEW qty \in Quantity, Adding(type, id, side, price, qty)
      PROVE  Left \/ \E i : Came(i, type, id, side, price, qty)
  BY <1>3, AddOrderComes
<1>4. CASE \/ CollectLevel \/ CollectOrder \/ CollectEnd \/ CancelGoodForDayOrders \/ CancelAllEnd
           \/ \E rules \in RuleSets : SetExchangeRules(rules)
  <2>1. book' = book
    BY <1>4 DEF CollectLevel, CollectOrder, CollectEnd, CancelGoodForDayOrders, CancelAllEnd,
                SetExchangeRules
  <2> QED BY <1>1, <2>1
<1>5. CASE Kill \/ ExecuteEnd
  <2>1. book' = Free(book, call.idx) /\ call.pc \in {"collect", "execute"}
    BY <1>5 DEF Kill, ExecuteEnd
  <2>2. GoodBook(book, {call.idx})
    BY <2>1 DEF IInv, StateOK, Reserved
  <2>3. /\ Shrunk(book, book', {call.idx}) /\ SameQuantity(book, book', {call.idx})
        /\ Live(book') = Live(book)
    BY <2>1, <2>2, FreeShrinks
  <2>4. call.idx \notin Live(book')
    BY <2>2, <2>3 DEF GoodBook, Partitioned
  <2> QED BY <2>2, <2>3, <2>4, ShrunkIsLeft
<1>6. ASSUME GoodBook(book, {}), NEW id, book' = CancelledBook(book, id)
      PROVE  Left
  <2> DEFINE gone == IF id \in DOMAIN book.orderMap THEN {book.orderMap[id]} ELSE {}
  <2>1. Shrunk(book, book', gone) /\ SameQuantity(book, book', gone)
    BY <1>6, CancelShrinks
  <2> HIDE DEF gone
  <2>2. \A j \in gone : j \notin Live(book')
    BY <2>1 DEF Shrunk
  <2> QED BY <1>6, <2>1, <2>2, ShrunkIsLeft
<1>7. CASE CancelNext \/ MatchEnd \/ \E id \in OrderId : CancelOrder(id)
  <2>1. (call = Idle \/ call.pc \in {"match", "cancelAll"}) /\ \E id : book' = CancelledBook(book, id)
    BY <1>7 DEF CancelNext, CancelOrder, MatchEnd
  <2>2. Idle.pc = "idle"
    BY DEF Idle
  <2>3. GoodBook(book, {})
    BY <2>1, <2>2, PlainState DEF IInv
  <2> QED BY <1>6, <2>1, <2>3
<1>8. ASSUME NEW id \in OrderId, NEW side \in Side, NEW price \in LimitPrices,
             NEW qty \in ModifyQuantities, ModifyOrder(id, side, price, qty)
      PROVE  Left
  <2>1. call.pc = "idle"
    BY <1>8 DEF ModifyOrder, Idle
  <2>2. GoodBook(book, {})
    BY <2>1, PlainState DEF IInv
  <2>3. CASE book' = book
    BY <1>1, <2>3
  <2>4. CASE book' = CancelledBook(book, id)
    BY <1>6, <2>2, <2>4
  <2>5. CASE id \in DOMAIN book.orderMap /\ ModifyQuantity(book.orderMap[id], qty)
    <3> DEFINE i == book.orderMap[id]
    <3>1. /\ Shrunk(book, book', {}) /\ SameQuantity(book, book', {i})
          /\ book'.pool[i].quantity = qty
      BY <2>2, <2>5, BookAssumption, ModifyShrinks
    <3> HIDE DEF i
    <3> QED BY <2>2, <3>1, ShrunkIsLeft
  <2> QED BY <1>8, <2>3, <2>4, <2>5 DEF ModifyOrder
<1>9. CASE MatchStep \/ ExecuteStep
  BY <1>9, MatchLeft, ExecuteLeft
<1> QED BY <1>2, <1>3, <1>4, <1>5, <1>7, <1>8, <1>9, StepCases

\* A frame of the second half of ModifyOrder, or of a FillOrKill order, has just
\* been made, or was there before.
LEMMA FrameStep ==
    ASSUME IInv, [Next]_vars
    PROVE  /\ call'.pc = "readd" =>
                \/ call' = call
                \/ /\ call = Idle /\ call'.price \in LimitPrices
                   /\ \E i \in Live(book) : call'.type = book.pool[i].orderType
           /\ call'.pc \in {"collect", "execute"} =>
                \/ call.pc \in {"collect", "execute"}
                \/ call = Idle /\ "FillOrKill" \in AddTypes
                \/ call.pc = "readd" /\ call.type = "FillOrKill"
<1>1. CASE UNCHANGED vars
  BY <1>1 DEF vars
<1>2. ASSUME GoodBook(book, {}),
             NEW type \in OrderType, NEW id \in OrderId, NEW side \in Side, NEW price \in Price,
             NEW qty \in Quantity, Adding(type, id, side, price, qty)
      PROVE  /\ call'.pc \in {"idle", "collect", "match"}
             /\ call'.pc = "collect" =>
                  \/ call = Idle /\ "FillOrKill" \in AddTypes
                  \/ call.pc = "readd" /\ call.type = "FillOrKill"
  <2>1. \/ call'.pc \in {"idle", "match"}
        \/ call'.pc = "collect" /\ type = "FillOrKill"
    BY <1>2, AddOrderCases DEF Adding
  <2> QED BY <1>2, <2>1 DEF Adding
<1>3. ASSUME NEW id \in OrderId, NEW side \in Side, NEW price \in LimitPrices,
             NEW qty \in ModifyQuantities, ModifyOrder(id, side, price, qty)
      PROVE  \/ call' = Idle
             \/ /\ call = Idle /\ call'.pc = "readd" /\ call'.price \in LimitPrices
                /\ \E i \in Live(book) : call'.type = book.pool[i].orderType
  BY <1>3 DEF ModifyOrder, Live
<1>4. Idle.pc = "idle"
  BY DEF Idle
<1>5. CASE CollectLevel \/ CollectOrder \/ CollectEnd
  <2>1. call.pc = "collect" => call \in CollectFrame
    BY FrameByPc DEF IInv, StateOK
  <2>2. CASE CollectLevel
    <3>1. call.pc = "collect" /\ \E todo, cur : call' = [call EXCEPT !.todo = todo, !.cur = cur]
      BY <2>2 DEF CollectLevel
    <3> QED BY <2>1, <3>1 DEF CollectFrame
  <2>3. CASE CollectOrder
    <3>1. /\ call.pc = "collect"
          /\ \E matches, remaining, cur :
               call' = [call EXCEPT !.matches = matches, !.remaining = remaining, !.cur = cur]
      BY <2>3 DEF CollectOrder
    <3> QED BY <2>1, <3>1 DEF CollectFrame
  <2>4. CASE CollectEnd
    BY <2>4 DEF CollectEnd
  <2> QED BY <1>5, <2>2, <2>3, <2>4
<1>6. CASE MatchStep
  <2>1. PICK bp, ap, x, y, q : MatchEffect(bp, ap, x, y, q)
    BY <1>6, MatchStepEffect
  <2>2. call'.pc = "match"
    BY <2>1 DEF MatchEffect
  <2> QED BY <2>2
<1>7. CASE ExecuteStep
  <2>1. call'.pc = "execute" /\ call.pc = "execute"
    BY <1>7, ExecuteStepEffect DEF ExecuteEffect, ExecuteStep
  <2> QED BY <2>1
<1>8. CASE \/ \E id \in OrderId : CancelOrder(id)
           \/ CancelGoodForDayOrders \/ CancelNext \/ CancelAllEnd
           \/ \E rules \in RuleSets : SetExchangeRules(rules)
           \/ MatchEnd \/ Kill \/ ExecuteEnd
  <2>1. call'.pc \in {"idle", "cancelAll"}
    BY <1>8, OtherCall
  <2> QED BY <2>1
<1> QED BY <1>1, <1>2, <1>3, <1>4, <1>5, <1>6, <1>7, <1>8, StepCases

\* The trades of a call grow by one, or the call has none yet.
LEMMA TradesStep ==
    ASSUME IInv, [Next]_vars
    PROVE  \/ UNCHANGED vars
           \/ MatchStep \/ ExecuteStep
           \/ TradesSoFar' = <<>>
<1>1. ASSUME call'.pc \notin {"match", "execute"}
      PROVE  TradesSoFar' = <<>>
  BY <1>1 DEF TradesSoFar
<1>2. ASSUME GoodBook(book, {}),
             NEW type \in OrderType, NEW id \in OrderId, NEW side \in Side, NEW price \in Price,
             NEW qty \in Quantity, Adding(type, id, side, price, qty)
      PROVE  TradesSoFar' = <<>>
  <2>1. CASE call'.pc \in {"idle", "collect"}
    BY <1>1, <2>1
  <2>2. CASE StartMatching(LimitType(type), id, side, LimitPrice(type, side, price), qty)
    BY <2>2 DEF StartMatching, TradesSoFar
  <2> QED BY <1>2, <2>1, <2>2, AddOrderCases DEF Adding
<1>3. CASE CollectEnd
  BY <1>3 DEF CollectEnd, TradesSoFar
<1>4. CASE CollectLevel \/ CollectOrder
  <2>1. call.pc = "collect" /\ call \in CollectFrame
    BY <1>4, FrameByPc DEF IInv, StateOK, CollectLevel, CollectOrder
  <2>2. CASE CollectLevel
    <3>1. \E todo, cur : call' = [call EXCEPT !.todo = todo, !.cur = cur]
      BY <2>2 DEF CollectLevel
    <3> QED BY <1>1, <2>1, <3>1 DEF CollectFrame
  <2>3. CASE CollectOrder
    <3>1. \E matches, remaining, cur :
             call' = [call EXCEPT !.matches = matches, !.remaining = remaining, !.cur = cur]
      BY <2>3 DEF CollectOrder
    <3> QED BY <1>1, <2>1, <3>1 DEF CollectFrame
  <2> QED BY <1>4, <2>2, <2>3
<1>5. CASE \/ \E id \in OrderId : CancelOrder(id)
           \/ CancelGoodForDayOrders \/ CancelNext \/ CancelAllEnd
           \/ \E rules \in RuleSets : SetExchangeRules(rules)
           \/ \E id \in OrderId, side \in Side, price \in LimitPrices, qty \in ModifyQuantities :
                 ModifyOrder(id, side, price, qty)
           \/ MatchEnd \/ Kill \/ ExecuteEnd
  <2>1. call'.pc \in {"idle", "readd", "cancelAll"}
    BY <1>5, PlainCall
  <2> QED BY <1>1, <2>1
<1> QED BY <1>2, <1>3, <1>4, <1>5, StepCases

-----------------------------------------------------------------------------
(* The prices at which orders rest.                                         *)

\* A resting order has the price a caller gave it or, if callers add market
\* orders, the price that stands for any price on its side.
RestingPrices(side) ==
    LimitPrices \cup IF "Market" \in AddTypes THEN {MarketPrice(side)} ELSE {}

\* Every resting order has such a price, ModifyOrder never adds again an order
\* that cannot rest, and only callers bring FillOrKill orders.
PricesInv ==
    /\ \A i \in Live(book) : book.pool[i].price \in RestingPrices(book.pool[i].side)
    /\ call.pc = "readd" =>
         call.price \in LimitPrices /\ call.type \in {"GoodTillCancel", "GoodForDay"}
    /\ call.pc \in {"collect", "execute"} => "FillOrKill" \in AddTypes

\* Every step keeps PricesInv.
LEMMA NextPrices ==
    ASSUME IInv, RestersInv, PricesInv, [Next]_vars
    PROVE  PricesInv'
<1>1. \A i \in Live(book') : book'.pool[i].price \in RestingPrices(book'.pool[i].side)
  <2>1. CASE Left
    BY <2>1 DEF Left, PricesInv
  <2>2. ASSUME NEW i, NEW type \in OrderType, NEW id \in OrderId, NEW side \in Side,
               NEW price \in Price, NEW qty \in Quantity, Came(i, type, id, side, price, qty)
        PROVE  \A j \in Live(book') : book'.pool[j].price \in RestingPrices(book'.pool[j].side)
    <3>1. LimitPrice(type, side, price) \in RestingPrices(side)
      <4>1. \/ type \in AddTypes /\ price \in LimitPrices
            \/ type \in {"GoodTillCancel", "GoodForDay"} /\ price \in LimitPrices
        BY <2>2 DEF Came, Adding, PricesInv
      <4> QED BY <4>1 DEF LimitPrice, RestingPrices
    <3> QED BY <2>2, <3>1 DEF Came, PricesInv
  <2> QED BY <2>1, <2>2, RestingStep
<1>2. call'.pc = "readd" =>
         call'.price \in LimitPrices /\ call'.type \in {"GoodTillCancel", "GoodForDay"}
  <2>1. call = Idle => \A i \in Live(book) :
                          book.pool[i].orderType \in {"GoodTillCancel", "GoodForDay"}
    BY DEF RestersInv, MayRest, Idle
  <2> QED BY <2>1, FrameStep DEF PricesInv
<1>3. call'.pc \in {"collect", "execute"} => "FillOrKill" \in AddTypes
  BY FrameStep DEF PricesInv
<1> QED BY <1>1, <1>2, <1>3 DEF PricesInv

\* Under every use of the engine, orders rest at such prices only.
THEOREM PricesKnown == Spec => []PricesInv
<1>1. Init => PricesInv
  BY DEF Init, PricesInv, Live, Idle
<1>2. IInv /\ RestersInv /\ PricesInv /\ [Next]_vars => PricesInv'
  BY NextPrices
<1>3. Spec => []RestersInv
  BY RestersAllowed
<1> QED BY <1>1, <1>2, <1>3, Inductive, PTL DEF Spec

-----------------------------------------------------------------------------
(* Conditions on what callers do, and what they give.                       *)

\* No caller gives a limit at a price that stands for any price.
PlainLimits == \A p \in LimitPrices : ~IsSentinel(p)

\* Callers add limit orders only.
LimitOrdersOnly == PlainLimits /\ "Market" \notin AddTypes

\* No rule set admits an order of quantity zero, and no caller modifies one to it.
PositiveQuantities ==
    /\ \A rules \in RuleSets : rules.minQuantity > 0
    /\ 0 \notin ModifyQuantities

\* With limit orders only, nothing rests at such a price.
LEMMA PlainResting ==
    ASSUME LimitOrdersOnly, PricesInv
    PROVE  \A i \in Live(book) : ~IsSentinel(book.pool[i].price)
BY DEF LimitOrdersOnly, PlainLimits, PricesInv, RestingPrices

-----------------------------------------------------------------------------
(* Between calls the book is not crossed.                                   *)

\* No bid is at or above an ask.
Uncrossed(b) ==
    \A i, j \in Live(b) :
        b.pool[i].side = "Buy" /\ b.pool[j].side = "Sell" => b.pool[i].price < b.pool[j].price

\* No bid would pay anything while an ask would take anything.
NoMarketPair(b) ==
    \A i, j \in Live(b) :
        ~ /\ b.pool[i].side = "Buy" /\ b.pool[i].price = INT_MAX
          /\ b.pool[j].side = "Sell" /\ b.pool[j].price = INT_MIN

\* The book is crossed only while MatchOrders is at work.
CalmInv == call.pc # "match" => Uncrossed(book)

\* When the matching loop breaks, what it leaves is not crossed.
LEMMA MatchEndCalm ==
    ASSUME IInv, NoMarketPair(book), MatchEnd
    PROVE  Uncrossed(book)
<1>1. GoodBook(book, {}) /\ \A bp \in BidPrices, ap \in AskPrices : ~CanTrade(bp, ap)
  BY PlainState DEF IInv, MatchEnd
<1>2. BidPrices \subseteq Price /\ AskPrices \subseteq Price
  BY <1>1 DEF GoodBook, IsBook, IsPartialFunction, BidPrices, AskPrices, Side
<1>3. SUFFICES ASSUME NEW i \in Live(book), NEW j \in Live(book),
                      book.pool[i].side = "Buy", book.pool[j].side = "Sell",
                      ~(book.pool[i].price < book.pool[j].price)
               PROVE  FALSE
  BY DEF Uncrossed
<1>4. book.pool[i].price \in BidPrices /\ book.pool[j].price \in AskPrices
  BY <1>1, <1>3, LiveSlot DEF BidPrices, AskPrices
<1>5. PICK bp : IsBest("Buy", bp, BidPrices)
  BY <1>2, <1>4, BestExists DEF Side
<1>6. PICK ap : IsBest("Sell", ap, AskPrices)
  BY <1>2, <1>4, BestExists DEF Side
<1>7. bp \in BidPrices /\ ap \in AskPrices
      /\ ~Better("Buy", book.pool[i].price, bp) /\ ~Better("Sell", book.pool[j].price, ap)
  BY <1>4, <1>5, <1>6 DEF IsBest
<1>8. bp \in Int /\ ap \in Int /\ book.pool[i].price \in Int /\ book.pool[j].price \in Int
  <2>1. Price \subseteq Int
    BY NumericAssumption DEF Price
  <2> QED BY <1>2, <1>4, <1>7, <2>1
<1>9. bp >= ap
  BY <1>3, <1>7, <1>8 DEF Better
<1>10. ~(bp = INT_MAX /\ ap = INT_MIN)
  <2>1. PICK k \in Members(book, "Buy", bp) : TRUE
    BY <1>1, <1>7, LevelsAreOccupied DEF BidPrices, Side
  <2>2. PICK l \in Members(book, "Sell", ap) : TRUE
    BY <1>1, <1>7, LevelsAreOccupied DEF AskPrices, Side
  <2> QED BY <2>1, <2>2 DEF Members, NoMarketPair
<1> QED BY <1>1, <1>5, <1>6, <1>7, <1>9, <1>10 DEF CanTrade

\* Every step keeps CalmInv, while no two market orders face each other.
LEMMA NextCalm ==
    ASSUME IInv, NoMarketPair(book), CalmInv, [Next]_vars
    PROVE  CalmInv'
<1>1. CASE Left /\ Uncrossed(book)
  BY <1>1 DEF Left, Uncrossed, CalmInv
<1>2. CASE call'.pc = "match"
  BY <1>2 DEF CalmInv
<1>3. CASE Left /\ call.pc = "match"
  <2>1. CASE UNCHANGED vars
    BY <2>1 DEF vars, CalmInv
  <2>2. CASE MatchStep
    <3>1. PICK bp, ap, x, y, q : MatchEffect(bp, ap, x, y, q)
      BY <2>2, MatchStepEffect
    <3> QED BY <1>2, <3>1 DEF MatchEffect
  <2>3. CASE MatchEnd
    BY <1>1, <1>3, <2>3, MatchEndCalm
  <2>4. CASE \/ CollectLevel \/ CollectOrder \/ Kill \/ CollectEnd \/ ExecuteStep \/ ExecuteEnd
             \/ CancelNext \/ CancelAllEnd
    BY <1>3, <2>4 DEF CollectLevel, CollectOrder, Kill, CollectEnd, ExecuteStep, ExecuteEnd,
                      CancelNext, CancelAllEnd
  <2>5. call # Idle
    BY <1>3 DEF Idle
  <2> QED BY <1>3, <2>1, <2>2, <2>3, <2>4, <2>5, StepCases
         DEF CancelOrder, ModifyOrder, CancelGoodForDayOrders, SetExchangeRules
<1>4. ASSUME NEW i, NEW type, NEW id, NEW side, NEW price, NEW qty,
             Came(i, type, id, side, price, qty)
      PROVE  CalmInv'
  BY <1>2, <1>4 DEF Came
<1> QED BY <1>1, <1>3, <1>4, RestingStep DEF CalmInv

\* An uncrossed book has no tradable cross.
LEMMA CalmHasNoCross ==
    ASSUME IInv, CalmInv
    PROVE  NoTradableCross
<1> SUFFICES ASSUME call = Idle, NEW bp \in BidPrices, NEW ap \in AskPrices
             PROVE  ~(bp >= ap)
  BY DEF NoTradableCross
<1>1. Uncrossed(book) /\ GoodBook(book, {})
  BY PlainState DEF CalmInv, Idle, IInv
<1>2. PICK k \in Members(book, "Buy", bp) : TRUE
  BY <1>1, LevelsAreOccupied DEF BidPrices, Side
<1>3. PICK l \in Members(book, "Sell", ap) : TRUE
  BY <1>1, LevelsAreOccupied DEF AskPrices, Side
<1>4. bp < ap
  BY <1>1, <1>2, <1>3 DEF Uncrossed, Members
<1>5. bp \in Int /\ ap \in Int
  BY <1>1, NumericAssumption
     DEF GoodBook, IsBook, IsPartialFunction, BidPrices, AskPrices, Side, Price
<1> QED BY <1>4, <1>5

\* With limit orders only, no two orders that could trade are left in the book
\* when a call has returned.
THEOREM NoCross ==
    ASSUME LimitOrdersOnly
    PROVE  Spec => []NoTradableCross
<1>1. Init => CalmInv
  BY DEF Init, CalmInv, Uncrossed, Live
<1>2. PricesInv => NoMarketPair(book)
  BY PlainResting DEF NoMarketPair, IsSentinel
<1>3. IInv /\ PricesInv /\ CalmInv /\ [Next]_vars => CalmInv'
  BY <1>2, NextCalm
<1>4. IInv /\ CalmInv => NoTradableCross
  BY CalmHasNoCross
<1> QED BY <1>1, <1>3, <1>4, Inductive, PricesKnown, PTL DEF Spec

-----------------------------------------------------------------------------
(* No order at rest is empty.                                               *)

\* Nothing at rest is empty, and the rules are among those that callers give.
FullInv == exchangeRules \in RuleSets /\ NoEmptyOrders

\* The rules change to a rule set that a caller gives, or not at all.
LEMMA RulesStep ==
    ASSUME [Next]_vars, exchangeRules \in RuleSets
    PROVE  exchangeRules' \in RuleSets
BY DEF Next, vars, PublicCall, Continue, AddOrder, AddOrderBody, CancelOrder, ModifyOrder,
       CancelGoodForDayOrders, SetExchangeRules, MatchStep, MatchEnd, CollectLevel, CollectOrder,
       Kill, CollectEnd, ExecuteStep, ExecuteEnd, ReAdd, CancelNext, CancelAllEnd

\* When quantities are positive, no order of quantity zero is ever at rest, in the
\* middle of a call neither.
THEOREM NothingEmpty ==
    ASSUME PositiveQuantities
    PROVE  Spec => []NoEmptyOrders
<1>1. Init => FullInv
  BY DEF Init, FullInv, NoEmptyOrders, Live
<1>2. IInv /\ FullInv /\ [Next]_vars => FullInv'
  <2> SUFFICES ASSUME IInv, FullInv, [Next]_vars
               PROVE  FullInv'
    OBVIOUS
  <2>1. exchangeRules' \in RuleSets
    BY RulesStep DEF FullInv
  <2>2. CASE Left
    <3>1. \A q \in ModifyQuantities : q > 0
      BY BookAssumption, NumericAssumption DEF PositiveQuantities, Quantity
    <3> QED BY <2>1, <2>2, <3>1 DEF Left, FullInv, NoEmptyOrders
  <2>3. ASSUME NEW i, NEW type \in OrderType, NEW id \in OrderId, NEW side \in Side,
               NEW price \in Price, NEW qty \in Quantity, Came(i, type, id, side, price, qty)
        PROVE  FullInv'
    <3>1. exchangeRules.minQuantity > 0 /\ exchangeRules.minQuantity <= qty
      BY <2>3 DEF PositiveQuantities, FullInv, Came, ValidateOrder, IsValidQuantity
    <3>2. exchangeRules.minQuantity \in Int /\ qty \in Int
      BY NumericAssumption DEF IInv, Rules, Quantity
    <3>3. qty > 0
      BY <3>1, <3>2
    <3> QED BY <2>1, <2>3, <3>3 DEF Came, FullInv, NoEmptyOrders
  <2> QED BY <2>2, <2>3, RestingStep
<1>3. FullInv => NoEmptyOrders
  BY DEF FullInv
<1> QED BY <1>1, <1>2, <1>3, Inductive, PTL DEF Spec

-----------------------------------------------------------------------------
(* No trade is at a price that stands for any price.                        *)

\* A trade of the matching loop is at the price of one of its orders that is a
\* limit: a bid is never at INT_MIN, an ask never at INT_MAX.
LEMMA MatchPricePlain ==
    ASSUME PlainLimits, IInv, PricesInv, NEW bp, NEW ap, NEW x, NEW y, NEW q,
           MatchEffect(bp, ap, x, y, q), MatchStep
    PROVE  ~IsSentinel(TradePrice(call.side, bp, ap))
<1>1. /\ bp \in Price /\ ap \in Price
      /\ book.pool[x].side = "Buy" /\ book.pool[x].price = bp
      /\ book.pool[y].side = "Sell" /\ book.pool[y].price = ap
  BY MatchTrade
<1>2. x \in Live(book) /\ y \in Live(book) /\ ~(bp = INT_MAX /\ ap = INT_MIN)
  BY DEF MatchEffect, CanTrade
<1>3. bp # INT_MIN /\ ap # INT_MAX
  BY <1>1, <1>2, NumericAssumption
     DEF PricesInv, RestingPrices, PlainLimits, IsSentinel, MarketPrice
<1> QED BY <1>2, <1>3 DEF TradePrice, IsSentinel

\* One more trade, which is plain too.
LEMMA PlainAppend ==
    ASSUME NEW s \in Seq(Trade), NEW t, ~IsSentinel(t.price),
           \A k \in DOMAIN s : ~IsSentinel(s[k].price)
    PROVE  \A k \in DOMAIN Append(s, t) : ~IsSentinel(Append(s, t)[k].price)
<1>1. \A k \in DOMAIN Append(s, t) : \/ k \in DOMAIN s /\ Append(s, t)[k] = s[k]
                                     \/ Append(s, t)[k] = t
  OBVIOUS
<1> QED BY <1>1

\* No trade is printed at INT_MIN or INT_MAX, unless callers use market orders
\* and FillOrKill orders together.
THEOREM NoSentinelPrinted ==
    ASSUME PlainLimits, "Market" \notin AddTypes \/ "FillOrKill" \notin AddTypes
    PROVE  Spec => []NoSentinelTrade
<1>1. Init => NoSentinelTrade
  BY DEF Init, NoSentinelTrade, TradesSoFar, Idle
<1>2. IInv /\ PriorityInv /\ PricesInv /\ NoSentinelTrade /\ [Next]_vars => NoSentinelTrade'
  <2> SUFFICES ASSUME IInv, PriorityInv, PricesInv, NoSentinelTrade, [Next]_vars
               PROVE  NoSentinelTrade'
    OBVIOUS
  <2>1. CASE UNCHANGED vars
    BY <2>1 DEF vars, NoSentinelTrade, TradesSoFar
  <2>2. CASE MatchStep
    <3>1. PICK bp, ap, x, y, q : MatchEffect(bp, ap, x, y, q)
      BY <2>2, MatchStepEffect
    <3> DEFINE t == [ bidOrderId |-> book.pool[x].orderId, askOrderId |-> book.pool[y].orderId,
                      price |-> TradePrice(call.side, bp, ap), quantity |-> q ]
    <3>2. /\ call'.trades = Append(call.trades, t) /\ call'.pc = "match"
          /\ ~IsSentinel(t.price)
      BY <2>2, <3>1, MatchPricePlain DEF MatchEffect
    <3>3. call.pc = "match" /\ call.trades \in Seq(Trade)
      BY <2>2, FrameByPc DEF IInv, StateOK, MatchStep, MatchFrame
    <3> HIDE DEF t
    <3> QED BY <3>2, <3>3, PlainAppend DEF NoSentinelTrade, TradesSoFar
  <2>3. CASE ExecuteStep
    <3> DEFINE i == Head(call.matches).idx
               q == Head(call.matches).qty
               t == [ bidOrderId |-> IF Aggressor.side = "Buy" THEN Aggressor.orderId
                                                               ELSE book.pool[i].orderId,
                      askOrderId |-> IF Aggressor.side = "Buy" THEN book.pool[i].orderId
                                                               ELSE Aggressor.orderId,
                      price |-> book.pool[i].price, quantity |-> q ]
    <3>1. ExecuteEffect(i, q)
      BY <2>3, ExecuteStepEffect
    <3> HIDE DEF i, q
    <3>2. /\ call'.trades = Append(call.trades, t) /\ call'.pc = "execute"
          /\ i \in Live(book) /\ t.price = book.pool[i].price
      BY <3>1 DEF ExecuteEffect
    <3>3. call.pc = "execute" /\ call.trades \in Seq(Trade)
      BY <2>3, FrameByPc DEF IInv, StateOK, ExecuteStep, ExecuteFrame
    <3>4. ~IsSentinel(t.price)
      BY <3>2, <3>3, PlainResting DEF PricesInv, LimitOrdersOnly
    <3> HIDE DEF t
    <3> QED BY <3>2, <3>3, <3>4, PlainAppend DEF NoSentinelTrade, TradesSoFar
  <2>4. CASE TradesSoFar' = <<>>
    BY <2>4 DEF NoSentinelTrade
  <2> QED BY <2>1, <2>2, <2>3, <2>4, TradesStep
<1> QED BY <1>1, <1>2, Inductive, PricesKnown, FillOrKillTakesTheFront, PTL DEF Spec

-----------------------------------------------------------------------------
(* A sweep goes outwards.                                                   *)

\* The side on which the aggressor of the call finds its counterparties.
Passive(b, c) == Opposite(IF c.pc = "match" THEN c.side ELSE b.pool[c.idx].side)

\* From one trade of a call to the next the price is no better.
Outwards(passive, trades) ==
    \A k \in 1 .. (Len(trades) - 1) : ~Better(passive, trades[k + 1].price, trades[k].price)

\* What is still to trade is no better than what has traded last: the orders at
\* rest on the passive side, and the matches that ExecuteFOK has left.
SweepInv ==
    call.pc \in {"match", "execute"} =>
        /\ Outwards(Passive(book, call), call.trades)
        /\ call.trades # <<>> =>
             LET last == call.trades[Len(call.trades)].price
             IN  /\ last \in Price
                 /\ call.pc = "match" => \A j \in Live(book) :
                      book.pool[j].side = Passive(book, call) =>
                          ~Better(Passive(book, call), book.pool[j].price, last)
                 /\ call.pc = "execute" => \A k \in DOMAIN call.matches :
                      ~Better(Passive(book, call), book.pool[call.matches[k].idx].price, last)

\* One more trade, no better than the last.
LEMMA OneMoreTrade ==
    ASSUME NEW passive, NEW s \in Seq(Trade), Outwards(passive, s), NEW t,
           s # <<>> => ~Better(passive, t.price, s[Len(s)].price)
    PROVE  Outwards(passive, Append(s, t))
<1> DEFINE u == Append(s, t)
<1>1. /\ Len(s) \in Nat /\ Len(u) = Len(s) + 1 /\ u[Len(s) + 1] = t
      /\ \A k \in 1 .. Len(s) : u[k] = s[k]
      /\ s # <<>> => Len(s) >= 1
  OBVIOUS
<1> HIDE DEF u
<1>2. SUFFICES ASSUME NEW k \in 1 .. (Len(u) - 1)
               PROVE  ~Better(passive, u[k + 1].price, u[k].price)
  BY DEF Outwards, u
<1>3. CASE k = Len(s)
  BY <1>1, <1>2, <1>3
<1>4. CASE k # Len(s)
  <2>1. k \in 1 .. (Len(s) - 1) /\ k \in 1 .. Len(s) /\ k + 1 \in 1 .. Len(s)
    BY <1>1, <1>2, <1>4
  <2> QED BY <1>1, <2>1 DEF Outwards
<1> QED BY <1>3, <1>4

\* With limit orders only, a trade of the matching loop is at the best price of
\* the passive side.
LEMMA MatchSweeps ==
    ASSUME LimitOrdersOnly, IInv, PricesInv, SweepInv, MatchStep
    PROVE  SweepInv'
<1>1. PICK bp, ap, x, y, q : MatchEffect(bp, ap, x, y, q)
  BY MatchStepEffect
<1> DEFINE t == [ bidOrderId |-> book.pool[x].orderId, askOrderId |-> book.pool[y].orderId,
                  price |-> TradePrice(call.side, bp, ap), quantity |-> q ]
           passive == Opposite(call.side)
<1>2. /\ GoodBook(book, {}) /\ bp \in Price /\ ap \in Price
      /\ book.pool[x].side = "Buy" /\ book.pool[x].price = bp
      /\ book.pool[y].side = "Sell" /\ book.pool[y].price = ap
  BY <1>1, MatchTrade
<1>3. /\ call.pc = "match" /\ call.side \in Side /\ call.trades \in Seq(Trade)
  BY FrameByPc DEF IInv, StateOK, MatchStep, MatchFrame
<1>4. /\ x \in Live(book) /\ y \in Live(book)
      /\ IsBest("Buy", bp, BidPrices) /\ IsBest("Sell", ap, AskPrices)
      /\ call'.pc = "match" /\ call'.side = call.side /\ call'.trades = Append(call.trades, t)
  BY <1>1 DEF MatchEffect, CanTrade
<1>5. bp # INT_MAX /\ ap # INT_MIN
  BY <1>2, <1>4, PlainResting DEF IsSentinel
<1>6. t.price = IF passive = "Buy" THEN bp ELSE ap
  BY <1>3, <1>5 DEF TradePrice, Opposite, Side
<1>7. t.price \in Price
  BY <1>2, <1>6
<1> HIDE DEF t
<1>8. \A j \in Live(book) : book.pool[j].price \in DOMAIN book.levels[book.pool[j].side]
  BY <1>2, LiveSlot
<1>9. \A j \in Live(book) : book.pool[j].side = passive =>
          ~Better(passive, book.pool[j].price, t.price)
  BY <1>3, <1>4, <1>6, <1>8 DEF IsBest, BidPrices, AskPrices, Opposite, Side
<1>10. Passive(book, call) = passive /\ Passive(book', call') = passive
  BY <1>3, <1>4 DEF Passive
<1>11. call.trades # <<>> =>
          \A j \in Live(book) : book.pool[j].side = passive =>
              ~Better(passive, book.pool[j].price, call.trades[Len(call.trades)].price)
  BY <1>3, <1>10 DEF SweepInv
<1>12. call.trades # <<>> => ~Better(passive, t.price, call.trades[Len(call.trades)].price)
  BY <1>2, <1>3, <1>4, <1>6, <1>11 DEF Opposite, Side
<1>13. Outwards(passive, call'.trades)
  <2>1. Outwards(passive, call.trades)
    BY <1>3, <1>10 DEF SweepInv
  <2> HIDE DEF passive
  <2> QED BY <1>3, <1>4, <1>12, <2>1, OneMoreTrade
<1>14. call'.trades[Len(call'.trades)] = t
  BY <1>3, <1>4, AppendLast
<1>15. \A j \in Live(book') : book'.pool[j].side = passive =>
           ~Better(passive, book'.pool[j].price, t.price)
  BY <1>9, MatchLeft DEF Left
<1> HIDE DEF passive
<1> QED BY <1>4, <1>7, <1>10, <1>13, <1>14, <1>15 DEF SweepInv

\* The matches of a FillOrKill order go outwards.
LEMMA MatchesGoOutwards ==
    ASSUME IInv, PriorityInv, call.pc = "execute",
           NEW k \in DOMAIN call.matches, NEW l \in DOMAIN call.matches, k < l
    PROVE  ~Better(Opposite(Aggressor.side), book.pool[call.matches[l].idx].price,
                   book.pool[call.matches[k].idx].price)
<1>1. /\ call.matches \in Seq(FokMatch) /\ Collected(book, Aggressor.side, call.matches)
      /\ FrontMatched(book, call)
  BY FrameByPc DEF IInv, StateOK, Aggressor, ExecuteFrame, PriorityInv, Prioritised
<1>2. /\ book.pool[call.matches[k].idx].side = Opposite(Aggressor.side)
      /\ call.matches[l].idx \in Others(book, call)
  BY <1>1 DEF Collected, Others, Aggressor
<1>3. SUFFICES ASSUME Better(Opposite(Aggressor.side), book.pool[call.matches[l].idx].price,
                             book.pool[call.matches[k].idx].price)
               PROVE  FALSE
  OBVIOUS
<1>4. MatchedUpTo(call, k, call.matches[l].idx)
  BY <1>1, <1>2, <1>3 DEF FrontMatched, Ahead
<1>5. PICK m \in DOMAIN call.matches : m < k /\ call.matches[m].idx = call.matches[l].idx
  BY <1>4 DEF MatchedUpTo
<1>6. m = l
  BY <1>1, <1>5 DEF Collected
<1>7. k \in Int /\ l \in Int
  BY <1>1
<1> QED BY <1>5, <1>6, <1>7

\* A trade of the replay is at the price of the first match.
LEMMA ExecuteSweeps ==
    ASSUME IInv, PriorityInv, SweepInv, ExecuteStep
    PROVE  SweepInv'
<1> DEFINE i == Head(call.matches).idx
           q == Head(call.matches).qty
           t == [ bidOrderId |-> IF Aggressor.side = "Buy" THEN Aggressor.orderId
                                                           ELSE book.pool[i].orderId,
                  askOrderId |-> IF Aggressor.side = "Buy" THEN book.pool[i].orderId
                                                           ELSE Aggressor.orderId,
                  price |-> book.pool[i].price, quantity |-> q ]
           passive == Opposite(Aggressor.side)
<1>1. ExecuteEffect(i, q)
  BY ExecuteStepEffect
<1> HIDE DEF i, q
<1>2. /\ call.pc = "execute" /\ call.trades \in Seq(Trade) /\ GoodBook(book, {call.idx})
      /\ Collected(book, Aggressor.side, call.matches)
  BY FrameByPc DEF IInv, StateOK, ExecuteStep, ExecuteFrame, Reserved, Aggressor
<1>3. /\ i = call.matches[1].idx /\ 1 \in DOMAIN call.matches
      /\ i \in Live(book) /\ call.idx \in Idx
      /\ Shrunk(book, book', Spent(book, i, q)) /\ i # call.idx
      /\ call'.pc = "execute" /\ call'.idx = call.idx /\ call'.trades = Append(call.trades, t)
      /\ \A k \in DOMAIN call'.matches : /\ k \in Nat /\ k + 1 \in DOMAIN call.matches
                                         /\ call'.matches[k] = call.matches[k + 1]
      /\ call'.matches \in Seq(FokMatch)
  BY <1>1 DEF ExecuteEffect
<1>4. book'.pool[call.idx].side = Aggressor.side
  BY <1>3 DEF Shrunk, Spent, Aggressor
<1>5. Passive(book, call) = passive /\ Passive(book', call') = passive
  BY <1>2, <1>3, <1>4 DEF Passive, Aggressor
<1>6. t.price = book.pool[i].price /\ t.price \in Price
  BY <1>2, <1>3, LiveSlot DEF PoolOrder
<1> HIDE DEF t, passive
<1>7. call.trades # <<>> => ~Better(passive, t.price, call.trades[Len(call.trades)].price)
  BY <1>2, <1>3, <1>5, <1>6 DEF SweepInv
<1>8. Outwards(passive, call'.trades)
  BY <1>2, <1>3, <1>5, <1>7, OneMoreTrade DEF SweepInv
<1>9. call'.trades[Len(call'.trades)] = t
  BY <1>2, <1>3, AppendLast
<1>10. \A k \in DOMAIN call'.matches :
          ~Better(passive, book'.pool[call'.matches[k].idx].price, t.price)
  <2> TAKE k \in DOMAIN call'.matches
  <2>1. k + 1 \in DOMAIN call.matches /\ call'.matches[k] = call.matches[k + 1] /\ 1 < k + 1
    <3>1. k \in Nat /\ k >= 1
      BY <1>3
    <3> QED BY <1>3, <3>1
  <2> DEFINE m == call.matches[k + 1].idx
  <2>2. ~Better(passive, book.pool[m].price, t.price)
    BY <1>2, <1>3, <1>6, <2>1, MatchesGoOutwards DEF passive
  <2>3. m # i /\ m \in Live(book)
    BY <1>2, <1>3, <2>1 DEF Collected
  <2>4. m \in Idx
    BY <1>2, <2>3, LiveSlot
  <2> HIDE DEF m
  <2>5. book'.pool[m].price = book.pool[m].price
    BY <1>3, <2>3, <2>4 DEF Shrunk, Spent
  <2> QED BY <2>1, <2>2, <2>5 DEF m
<1> QED BY <1>3, <1>5, <1>6, <1>8, <1>9, <1>10 DEF SweepInv

\* A call that has not traded has no sweep to speak of.
LEMMA NoSweepYet ==
    ASSUME TradesSoFar' = <<>>
    PROVE  SweepInv'
<1>1. call'.pc \in {"match", "execute"} => call'.trades = <<>>
  BY DEF TradesSoFar
<1>2. \A passive : Outwards(passive, <<>>)
  BY DEF Outwards
<1> QED BY <1>1, <1>2 DEF SweepInv

\* The trades of a call go from the best price outwards, with limit orders only.
THEOREM SweepsGoOutwards ==
    ASSUME LimitOrdersOnly
    PROVE  Spec => []SweepWorsens
<1>1. Init => SweepInv
  BY DEF Init, SweepInv, Idle
<1>2. IInv /\ PriorityInv /\ PricesInv /\ SweepInv /\ [Next]_vars => SweepInv'
  <2> SUFFICES ASSUME IInv, PriorityInv, PricesInv, SweepInv, [Next]_vars
               PROVE  SweepInv'
    OBVIOUS
  <2>1. CASE UNCHANGED vars
    BY <2>1 DEF vars, SweepInv
  <2> QED BY <2>1, TradesStep, MatchSweeps, ExecuteSweeps, NoSweepYet
<1>3. SweepInv => SweepWorsens
  <2>1. CASE call.pc \in {"match", "execute"}
    BY <2>1 DEF SweepInv, SweepWorsens, TradesSoFar, Outwards, Passive, Aggressor
  <2>2. CASE call.pc \notin {"match", "execute"}
    <3>1. TradesSoFar = <<>>
      BY <2>2 DEF TradesSoFar
    <3> QED BY <3>1 DEF SweepWorsens
  <2> QED BY <2>1, <2>2
<1> QED BY <1>1, <1>2, <1>3, Inductive, PricesKnown, FillOrKillTakesTheFront, PTL DEF Spec

-----------------------------------------------------------------------------
(* Rounding to the grid.                                                    *)

\* Division with a positive divisor.
LEMMA Division ==
    ASSUME NEW n \in Int, NEW d \in Int, d > 0
    PROVE  /\ n \div d \in Int /\ n % d \in 0 .. (d - 1)
           /\ n = (n \div d) * d + (n % d)
OBVIOUS

\* A multiple of the divisor leaves no remainder.
LEMMA Multiple ==
    ASSUME NEW k \in Int, NEW d \in Int, d > 0
    PROVE  (k * d) % d = 0 /\ (-(k * d)) % d = 0
<1>1. (k * d) % d = 0
  OBVIOUS
<1>2. -(k * d) = (-k) * d
  OBVIOUS
<1>3. ((-k) * d) % d = 0
  OBVIOUS
<1> QED BY <1>1, <1>2, <1>3

\* Two multiples that are less than the divisor apart are the same.
LEMMA NearMultiples ==
    ASSUME NEW m \in Int, NEW n \in Int, NEW d \in Int, d > 0,
           m % d = 0, n % d = 0, m - n < d, n - m < d
    PROVE  m = n
<1> DEFINE k == m \div d
           l == n \div d
<1>1. k \in Int /\ l \in Int /\ m = k * d /\ n = l * d
  BY Division
<1> HIDE DEF k, l
<1>2. CASE k < l
  <2>1. k * d + d <= l * d
    BY <1>1, <1>2
  <2> QED BY <1>1, <2>1
<1>3. CASE l < k
  <2>1. l * d + d <= k * d
    BY <1>1, <1>3
  <2> QED BY <1>1, <2>1
<1> QED BY <1>1, <1>2, <1>3

\* Truncate takes a number to the next multiple towards zero.
LEMMA TruncateEffect ==
    ASSUME NEW n \in Int, NEW d \in Int, d > 0, NEW r, r = Truncate(n, d)
    PROVE  /\ r \in Int /\ r % d = 0
           /\ IF n < 0 THEN n <= r /\ r <= 0 /\ r - n < d
                       ELSE 0 <= r /\ r <= n /\ n - r < d
<1>1. CASE n < 0
  <2> DEFINE m == -n  k == m \div d
  <2>1. m \in Int /\ m > 0
    BY <1>1
  <2> HIDE DEF m
  <2>2. k \in Int /\ m % d \in 0 .. (d - 1) /\ m = k * d + (m % d)
    BY <2>1, Division
  <2>3. r = -(k * d)
    BY <1>1 DEF Truncate, m
  <2> HIDE DEF k
  <2>4. k >= 0
    <3>1. SUFFICES ASSUME k < 0 PROVE FALSE
      BY <2>2
    <3>2. k * d + d <= 0 * d
      BY <2>2, <3>1
    <3> QED BY <2>1, <2>2, <3>2
  <2>5. k * d \in Int /\ k * d >= 0
    BY <2>2, <2>4
  <2>6. r % d = 0
    BY <2>2, <2>3, Multiple
  <2> QED BY <1>1, <2>1, <2>2, <2>3, <2>5, <2>6 DEF m
<1>2. CASE ~(n < 0)
  <2> DEFINE k == n \div d
  <2>1. k \in Int /\ n % d \in 0 .. (d - 1) /\ n = k * d + (n % d)
    BY Division
  <2>2. r = k * d
    BY <1>2 DEF Truncate
  <2> HIDE DEF k
  <2>3. k >= 0
    <3>1. SUFFICES ASSUME k < 0 PROVE FALSE
      BY <2>1
    <3>2. k * d + d <= 0 * d
      BY <2>1, <3>1
    <3> QED BY <1>2, <2>1, <3>2
  <2>4. k * d \in Int /\ k * d >= 0
    BY <2>1, <2>3
  <2>5. r % d = 0
    BY <2>1, <2>2, Multiple
  <2> QED BY <1>2, <2>1, <2>2, <2>4, <2>5
<1> QED BY <1>1, <1>2

\* Under any rule set of the right type, rounding gives what the checks accept.
THEOREM RoundingServes == Spec => []RoundingServesTheChecks
<1>1. IInv => RoundingServesTheChecks
  <2> DEFINE tick == exchangeRules.tickSize
             lot  == exchangeRules.lotSize
  <2>1. SUFFICES ASSUME IInv PROVE RoundingServesTheChecks
    OBVIOUS
  <2>2. tick \in Int /\ tick > 0 /\ lot \in Int /\ lot > 0
    BY <2>1, NumericAssumption DEF IInv, Rules, Price, Quantity
  <2>3. ASSUME NEW p \in Price, NEW r, r = RoundToTick(exchangeRules, p)
        PROVE  /\ r \in IF p < 0 THEN p .. 0 ELSE 0 .. p
               /\ \A q \in (p .. r) \cup (r .. p) : q % tick = 0 => q = r
               /\ r > 0 => IsValidPrice(exchangeRules, r)
    <3>1. p \in Int
      BY NumericAssumption DEF Price
    <3>2. r = Truncate(p, tick)
      BY <2>3 DEF RoundToTick
    <3> HIDE DEF tick
    <3>3. /\ r \in Int /\ r % tick = 0
          /\ IF p < 0 THEN p <= r /\ r <= 0 /\ r - p < tick
                      ELSE 0 <= r /\ r <= p /\ p - r < tick
      BY <2>2, <3>1, <3>2, TruncateEffect
    <3>4. r \in IF p < 0 THEN p .. 0 ELSE 0 .. p
      BY <3>1, <3>3
    <3>5. ASSUME NEW q \in (p .. r) \cup (r .. p), q % tick = 0
          PROVE  q = r
      <4>1. q \in Int /\ q - r < tick /\ r - q < tick
        BY <2>2, <3>1, <3>3
      <4> QED BY <2>2, <3>3, <3>5, <4>1, NearMultiples
    <3> QED BY <3>3, <3>4, <3>5 DEF IsValidPrice, tick
  <2>4. ASSUME NEW qty \in Quantity, NEW r, r = RoundToLot(exchangeRules, qty)
        PROVE  /\ r \in 0 .. qty /\ qty - r < lot
               /\ r \in exchangeRules.minQuantity .. exchangeRules.maxQuantity
                      => IsValidQuantity(exchangeRules, r)
    <3>1. qty \in Int /\ qty >= 0
      BY NumericAssumption DEF Quantity
    <3>2. r = Truncate(qty, lot)
      BY <2>4 DEF RoundToLot
    <3> HIDE DEF lot
    <3>3. r \in Int /\ r % lot = 0 /\ 0 <= r /\ r <= qty /\ qty - r < lot
      BY <2>2, <3>1, <3>2, TruncateEffect
    <3>4. exchangeRules.minQuantity \in Int /\ exchangeRules.maxQuantity \in Int
      BY <2>1, NumericAssumption DEF IInv, Rules, Quantity
    <3> QED BY <3>1, <3>3, <3>4 DEF IsValidQuantity, lot
  <2> HIDE DEF tick, lot
  <2> QED BY <2>3, <2>4 DEF RoundingServesTheChecks, tick, lot
<1> QED BY <1>1, Inductive, PTL

=============================================================================
