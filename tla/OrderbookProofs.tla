--------------------------- MODULE OrderbookProofs ---------------------------
(***************************************************************************)
(* What the matching engine keeps true for every pool size, every set of    *)
(* ids, prices, quantities and rules: the inductive invariant IInv, and the *)
(* invariants of OrderbookSafety that follow from it.  The second half says  *)
(* what each step does to the orders at rest, with slots, links and levels   *)
(* left out: which orders leave, which one comes, what they lose.  The other *)
(* theorems rest on those lemmas and never look inside the member functions. *)
(***************************************************************************)
EXTENDS OrderbookLemmas

\* The slots the call c has taken but not put in the book.
Reserved(c) == IF c.pc \in {"collect", "execute"} THEN {c.idx} ELSE {}

\* The matches of a FillOrKill order of this side are distinct resting orders
\* of the other side, with at least the quantity to be taken from them.
Collected(b, side, matches) ==
    /\ \A k \in DOMAIN matches :
         /\ matches[k].idx \in Live(b)
         /\ b.pool[matches[k].idx].side = Opposite(side)
         /\ matches[k].qty <= b.pool[matches[k].idx].quantity
    /\ \A k, l \in DOMAIN matches : matches[k].idx = matches[l].idx => k = l

\* Where the scan of CollectFOK is: the levels still to visit exist, nothing
\* collected is in one of them, and nothing collected is the order at hand or
\* comes after it.  That is why the scan meets no order twice.
Scanning(b, c) ==
    LET other == Opposite(b.pool[c.idx].side)
    IN  /\ c.todo \subseteq DOMAIN b.levels[other]
        /\ \A k \in DOMAIN c.matches : b.pool[c.matches[k].idx].price \notin c.todo
        /\ c.cur # NULL_IDX =>
             /\ c.cur \in Live(b)
             /\ b.pool[c.cur].side = other /\ b.pool[c.cur].price \notin c.todo
             /\ \A k \in DOMAIN c.matches :
                  c.matches[k].idx # c.cur /\ <<c.cur, c.matches[k].idx>> \notin b.older

StateOK(b, c) ==
    /\ c \in Frame
    /\ GoodBook(b, Reserved(c))
    /\ c.pc \in {"collect", "execute"} =>
         /\ b.pool[c.idx].orderId \in OrderId
         /\ Collected(b, b.pool[c.idx].side, c.matches)
    /\ c.pc = "collect" => Scanning(b, c)

\* The inductive invariant: the rules are a rule set, the book is good but for
\* the slot the running call has in flight, and the FillOrKill scan and replay
\* (Orderbook.h, 171-227) are where the matches they hold say they are.
IInv == exchangeRules \in Rules /\ StateOK(book, call)


-----------------------------------------------------------------------------
(* Frames.                                                                  *)

\* The pc of a frame tells which call it belongs to.
LEMMA FrameByPc ==
    ASSUME NEW c \in Frame
    PROVE  /\ c.pc = "idle" => c = Idle
           /\ c.pc = "match" => c \in MatchFrame
           /\ c.pc = "collect" => c \in CollectFrame
           /\ c.pc = "execute" => c \in ExecuteFrame
           /\ c.pc = "readd" => c \in ReAddFrame
           /\ c.pc = "cancelAll" => c \in CancelFrame
BY DEF Frame, Idle, MatchFrame, CollectFrame, ExecuteFrame, ReAddFrame, CancelFrame

\* A call that scans nothing and reserves nothing asks only for a good book.
LEMMA PlainFrame ==
    ASSUME NEW b, GoodBook(b, {}), NEW c \in Frame, c.pc \notin {"collect", "execute"}
    PROVE  StateOK(b, c)
BY DEF StateOK, Reserved

\* Such a call holds no slot back.
LEMMA PlainState ==
    ASSUME NEW b, NEW c, StateOK(b, c), c.pc \notin {"collect", "execute"}
    PROVE  GoodBook(b, {})
BY DEF StateOK, Reserved

\* A call that has returned.
LEMMA ReturnedFrame ==
    ASSUME NEW b, GoodBook(b, {})
    PROVE  StateOK(b, Idle)
<1>1. Idle \in Frame /\ Idle.pc = "idle"
  BY DEF Frame, Idle
<1> QED BY <1>1, PlainFrame

-----------------------------------------------------------------------------
(* The effects of the member functions, on good books.                      *)

\* Unbook, with what it does and what it keeps.
LEMMA UnbookOK ==
    ASSUME NEW b, NEW reserved, GoodBook(b, reserved), NEW i \in Live(b)
    PROVE  Removed(b, Unbook(b, i), i) /\ GoodBook(Unbook(b, i), reserved)
<1>1. Removed(b, Unbook(b, i), i)
  BY UnbookEffect
<1> QED BY <1>1, UnbookGood

\* CancelOrder, of an id that rests or of one that does not.
LEMMA CancelledGood ==
    ASSUME NEW b, NEW reserved, GoodBook(b, reserved), NEW id
    PROVE  GoodBook(CancelledBook(b, id), reserved)
<1>1. CASE id \in DOMAIN b.orderMap
  <2>1. b.orderMap[id] \in Live(b)
    BY <1>1 DEF Live
  <2>2. GoodBook(Unbook(b, b.orderMap[id]), reserved)
    BY <2>1, UnbookOK
  <2> QED BY <1>1, <2>2 DEF CancelledBook
<1>2. CASE id \notin DOMAIN b.orderMap
  BY <1>2 DEF CancelledBook
<1> QED BY <1>1, <1>2

\* Alloc followed by InsertIntoBook.
LEMMA AddedGood ==
    ASSUME NEW b, GoodBook(b, {}), b.freeList # <<>>,
           NEW type \in OrderType, NEW id \in OrderId \ DOMAIN b.orderMap, NEW side \in Side,
           NEW price \in Price, NEW qty \in Quantity
    PROVE  GoodBook(InsertIntoBook(Alloc(b, type, id, side, price, qty), AllocIdx(b)), {})
<1> DEFINE a == Alloc(b, type, id, side, price, qty)
           i == AllocIdx(b)
           o == [ orderId |-> id, side |-> side, price |-> price, orderType |-> type,
                  quantity |-> qty, prev |-> NULL_IDX, next |-> NULL_IDX ]
<1>1. Allocated(b, a, i, o)
  BY AllocGood
<1>2. o.orderId = id
  OBVIOUS
<1> HIDE DEF a, i, o
<1>3. GoodBook(a, {i}) /\ a.pool[i].orderId \in OrderId \ DOMAIN a.orderMap
  BY <1>1, <1>2 DEF Allocated
<1>4. Inserted(a, InsertIntoBook(a, i), i)
  BY <1>3, InsertEffect
<1>5. GoodBook(InsertIntoBook(a, i), {})
  BY <1>3, <1>4, InsertGood
<1> QED BY <1>5 DEF a, i

\* FillResting never leaves a quantity or a total out of range.
LEMMA FillRestingGood ==
    ASSUME NEW b, NEW reserved, GoodBook(b, reserved), NEW i \in Live(b), NEW qty \in Quantity
    PROVE  Requantified(b, FillResting(b, i, qty), reserved, i,
                        QtySub(b.pool[i].quantity, qty))
<1>1. /\ i \in Idx /\ b.pool[i] \in PoolOrder
      /\ b.levels[b.pool[i].side][b.pool[i].price] \in PriceLevel
  BY LiveSlot
<1>2. /\ b.pool[i].quantity \in Int /\ qty \in Int /\ TotalOf(b, i) \in Int
  BY <1>1, NumericAssumption DEF PoolOrder, PriceLevel, Quantity, TotalOf
<1>3. QtySub(b.pool[i].quantity, qty) \in Quantity /\ QtySub(TotalOf(b, i), qty) \in Quantity
  BY <1>2, QtyType
<1> QED BY <1>3, SetQuantityGood DEF FillResting

\* UnbookIfFilled keeps the book good and every other order where it was.
LEMMA UnbookIfFilledGood ==
    ASSUME NEW b, NEW reserved, GoodBook(b, reserved), NEW i \in Live(b)
    PROVE  LET u == UnbookIfFilled(b, i)
           IN  /\ GoodBook(u, reserved)
               /\ Live(b) \ {i} \subseteq Live(u) /\ Live(u) \subseteq Live(b)
               /\ \A j \in Idx \ {i} : /\ u.pool[j].orderId = b.pool[j].orderId
                                       /\ u.pool[j].side = b.pool[j].side
                                       /\ u.pool[j].price = b.pool[j].price
                                       /\ u.pool[j].quantity = b.pool[j].quantity
<1>1. CASE b.pool[i].quantity = 0
  <2>1. UnbookIfFilled(b, i) = Unbook(b, i)
    BY <1>1 DEF UnbookIfFilled
  <2>2. Removed(b, Unbook(b, i), i) /\ GoodBook(Unbook(b, i), reserved)
    BY UnbookOK
  <2>3. Live(Unbook(b, i)) = Live(b) \ {i} /\ Unlinked(b.pool, Unbook(b, i).pool, i)
    BY <2>2 DEF Removed
  <2>4. \A j \in Idx \ {i} : /\ Unbook(b, i).pool[j].orderId = b.pool[j].orderId
                            /\ Unbook(b, i).pool[j].side = b.pool[j].side
                            /\ Unbook(b, i).pool[j].price = b.pool[j].price
                            /\ Unbook(b, i).pool[j].quantity = b.pool[j].quantity
    BY <2>3 DEF Unlinked
  <2> QED BY <2>1, <2>2, <2>3, <2>4
<1>2. CASE b.pool[i].quantity # 0
  <2>1. UnbookIfFilled(b, i) = b
    BY <1>2 DEF UnbookIfFilled
  <2> QED BY <2>1
<1> QED BY <1>1, <1>2

-----------------------------------------------------------------------------
(* The steps.  One lemma per action, or per group of actions alike.         *)

\* AddOrder, on its own or as the second half of ModifyOrder.
LEMMA AddOrderKeeps ==
    ASSUME exchangeRules \in Rules, GoodBook(book, {}),
           NEW type \in OrderType, NEW id \in OrderId, NEW side \in Side,
           NEW price \in Price, NEW qty \in Quantity,
           AddOrderBody(type, id, side, price, qty)
    PROVE  exchangeRules' \in Rules /\ StateOK(book', call')
<1>1. exchangeRules' \in Rules
  BY DEF AddOrderBody
<1>2. CASE Return /\ UNCHANGED book
  BY <1>1, <1>2, ReturnedFrame DEF Return
<1>3. CASE ~Rejected(type, id, side, price, qty) /\ ~PoolExhausted
  <2> DEFINE limit == LimitPrice(type, side, price)
  <2>1. limit \in Price /\ LimitType(type) \in OrderType
    BY NumericAssumption DEF LimitPrice, LimitType, MarketPrice, Price, OrderType
  <2>2. id \in OrderId \ DOMAIN book.orderMap /\ book.freeList # <<>>
    BY <1>3 DEF Rejected, PoolExhausted, ValidateOrder
  <2>3. CASE type = "FillOrKill" /\ StartFillOrKill(id, side, price, qty)
    <3> DEFINE a == Alloc(book, "FillOrKill", id, side, price, qty)
               i == AllocIdx(book)
               o == [ orderId |-> id, side |-> side, price |-> price,
                      orderType |-> "FillOrKill", quantity |-> qty,
                      prev |-> NULL_IDX, next |-> NULL_IDX ]
               todo == {p \in DOMAIN book.levels[Opposite(side)] : Reaches(side, price, p)}
               c == [ pc |-> "collect", idx |-> i, remaining |-> qty, todo |-> todo,
                      cur |-> NULL_IDX, matches |-> <<>> ]
    <3>1. book' = a /\ call' = c
      BY <2>3 DEF StartFillOrKill
    <3>2. Allocated(book, a, i, o)
      BY <2>2, AllocGood DEF OrderType
    <3>3. todo \subseteq Price /\ todo \subseteq DOMAIN book.levels[Opposite(side)]
      BY DEF GoodBook, IsBook, IsPartialFunction, Opposite, Side
    <3>4. o.orderId = id /\ o.side = side
      OBVIOUS
    <3> HIDE DEF a, i, o, todo
    <3>5. c \in CollectFrame
      BY <3>2, <3>3 DEF CollectFrame, Allocated, Link
    <3>6. c.pc = "collect" /\ c.idx = i /\ c.todo = todo /\ c.cur = NULL_IDX /\ c.matches = <<>>
      OBVIOUS
    <3> HIDE DEF c
    <3>7. Collected(a, a.pool[c.idx].side, c.matches)
      BY <3>6 DEF Collected
    <3>8. Scanning(a, c)
      BY <3>2, <3>3, <3>4, <3>6 DEF Scanning, Allocated
    <3>9. GoodBook(a, Reserved(c)) /\ a.pool[c.idx].orderId \in OrderId
      BY <3>2, <3>4, <3>6 DEF Reserved, Allocated
    <3>10. StateOK(a, c)
      BY <3>5, <3>6, <3>7, <3>8, <3>9 DEF StateOK, Frame
    <3> QED BY <1>1, <3>1, <3>10
  <2>4. CASE StartMatching(LimitType(type), id, side, limit, qty)
    <3> DEFINE c == [ pc |-> "match", side |-> side, trades |-> <<>>,
                      iocId |-> IF LimitType(type) = "ImmediateOrCancel" THEN id ELSE NoOrder ]
    <3>1. /\ book' = InsertIntoBook(Alloc(book, LimitType(type), id, side, limit, qty),
                                    AllocIdx(book))
          /\ call' = c
      BY <2>4 DEF StartMatching
    <3> HIDE DEF limit
    <3>2. GoodBook(book', {})
      BY <2>1, <2>2, <3>1, AddedGood
    <3>3. c \in MatchFrame
      BY DEF MatchFrame
    <3>4. c \in Frame /\ c.pc = "match"
      BY <3>3 DEF Frame
    <3>5. StateOK(book', call')
      BY <3>1, <3>2, <3>4, PlainFrame
    <3> QED BY <1>1, <3>5
  <2> QED BY <1>3, <2>3, <2>4 DEF AddOrderBody
<1> QED BY <1>2, <1>3 DEF AddOrderBody

\* The end of the matching loop, and CancelOrder.
LEMMA MatchEndKeeps ==
    ASSUME IInv, MatchEnd
    PROVE  IInv'
<1>1. GoodBook(book, {})
  BY PlainState DEF IInv, MatchEnd
<1>2. GoodBook(book', {})
  BY <1>1, CancelledGood DEF MatchEnd
<1> QED BY <1>2, ReturnedFrame DEF IInv, MatchEnd, Return

\* CancelOrder of a caller.
LEMMA CancelOrderKeeps ==
    ASSUME IInv, NEW id, CancelOrder(id)
    PROVE  IInv'
<1>1. call = Idle /\ call' = Idle /\ Idle.pc = "idle" /\ exchangeRules' = exchangeRules
  BY DEF CancelOrder, Idle
<1>2. GoodBook(book, {})
  BY <1>1, PlainState DEF IInv
<1>3. GoodBook(book', {})
  BY <1>2, CancelledGood DEF CancelOrder
<1> QED BY <1>1, <1>3, ReturnedFrame DEF IInv

\* AddOrder, ModifyOrder, its second half, and the change of the rules.
LEMMA PublicAddKeeps ==
    ASSUME IInv, NEW type \in OrderType, NEW id \in OrderId, NEW side \in Side,
           NEW price \in Price, NEW qty \in Quantity, AddOrder(type, id, side, price, qty)
    PROVE  IInv'
<1>1. call = Idle /\ Idle.pc = "idle"
  BY DEF AddOrder, Idle
<1>2. GoodBook(book, {})
  BY <1>1, PlainState DEF IInv
<1> QED BY <1>2, AddOrderKeeps DEF IInv, AddOrder

\* The second half of a ModifyOrder that changes the price.
LEMMA ReAddKeeps ==
    ASSUME IInv, ReAdd
    PROVE  IInv'
<1>1. call \in ReAddFrame /\ call.pc = "readd"
  BY FrameByPc DEF IInv, StateOK, ReAdd
<1>2. GoodBook(book, {})
  BY <1>1, PlainState DEF IInv
<1>3. /\ call.type \in OrderType /\ call.id \in OrderId /\ call.side \in Side
      /\ call.price \in Price /\ call.qty \in Quantity
  BY <1>1 DEF ReAddFrame
<1> QED BY <1>2, <1>3, AddOrderKeeps DEF IInv, ReAdd

\* ModifyOrder: ignored, in place, or its first half.
LEMMA ModifyOrderKeeps ==
    ASSUME IInv, NEW id \in OrderId, NEW side \in Side, NEW price \in Price,
           NEW qty \in Quantity, ModifyOrder(id, side, price, qty)
    PROVE  IInv'
<1>1. call = Idle /\ Idle.pc = "idle" /\ exchangeRules' = exchangeRules
  BY DEF ModifyOrder, Idle
<1>2. GoodBook(book, {})
  BY <1>1, PlainState DEF IInv
<1>3. CASE UNCHANGED <<book, call>>
  BY <1>1, <1>3 DEF IInv
<1> DEFINE i == book.orderMap[id]
<1>4. CASE id \in DOMAIN book.orderMap /\ ModifyQuantity(i, qty) /\ UNCHANGED call
  <2> DEFINE total == QtyAdd(QtySub(TotalOf(book, i), book.pool[i].quantity), qty)
  <2>1. i \in Live(book)
    BY <1>4 DEF Live
  <2>2. /\ i \in Idx /\ book.pool[i] \in PoolOrder
        /\ book.levels[book.pool[i].side][book.pool[i].price] \in PriceLevel
    BY <1>2, <2>1, LiveSlot
  <2> HIDE DEF i
  <2>3. TotalOf(book, i) \in Int /\ book.pool[i].quantity \in Int /\ qty \in Int
    <3>1. TotalOf(book, i) \in Quantity /\ book.pool[i].quantity \in Quantity
      BY <2>2 DEF TotalOf, PoolOrder, PriceLevel
    <3>2. Quantity \subseteq Int
      BY NumericAssumption DEF Quantity
    <3> QED BY <3>1, <3>2
  <2>4. QtySub(TotalOf(book, i), book.pool[i].quantity) \in Quantity
    BY <2>3, QtyType
  <2>5. total \in Quantity
    <3> DEFINE rest == QtySub(TotalOf(book, i), book.pool[i].quantity)
    <3> HIDE DEF rest
    <3>1. rest \in Int
      BY <2>4, NumericAssumption DEF Quantity, rest
    <3>2. QtyAdd(rest, qty) \in Quantity
      BY <2>3, <3>1, QtyType
    <3> QED BY <3>2 DEF rest
  <2>6. book' = SetQuantity(book, i, qty, total)
    BY <1>4 DEF ModifyQuantity, i
  <2> HIDE DEF total
  <2>7. GoodBook(book', {})
    BY <1>2, <2>1, <2>5, <2>6, SetQuantityGood DEF Requantified
  <2> QED BY <1>1, <1>4, <2>7, ReturnedFrame DEF IInv
<1>5. CASE /\ id \in DOMAIN book.orderMap
           /\ book' = CancelledBook(book, id)
           /\ call' = [ pc |-> "readd", type |-> book.pool[i].orderType,
                        id |-> id, side |-> side, price |-> price, qty |-> qty ]
  <2>1. GoodBook(book', {})
    BY <1>2, <1>5, CancelledGood
  <2>2. book.pool[i] \in PoolOrder
    BY <1>2, <1>5, LiveSlot DEF Live
  <2>3. call' \in ReAddFrame
    BY <1>5, <2>2 DEF ReAddFrame, PoolOrder
  <2>4. call' \in Frame /\ call'.pc = "readd"
    BY <1>5, <2>3 DEF Frame
  <2>5. StateOK(book', call')
    BY <2>1, <2>4, PlainFrame
  <2> QED BY <1>1, <2>5 DEF IInv
<1> QED BY <1>3, <1>4, <1>5 DEF ModifyOrder

\* SetExchangeRules leaves the book alone.
LEMMA SetExchangeRulesKeeps ==
    ASSUME IInv, NEW rules \in RuleSets, SetExchangeRules(rules)
    PROVE  IInv'
BY BookAssumption DEF IInv, SetExchangeRules

\* The three steps of CancelGoodForDayOrders.
LEMMA CancelGoodForDayKeeps ==
    ASSUME IInv, CancelGoodForDayOrders \/ CancelNext \/ CancelAllEnd
    PROVE  IInv'
<1>1. exchangeRules' = exchangeRules
  BY DEF CancelGoodForDayOrders, CancelNext, CancelAllEnd
<1>2. CASE CancelGoodForDayOrders
  <2>1. call.pc = "idle" /\ book' = book
    BY <1>2 DEF CancelGoodForDayOrders, Idle
  <2>2. GoodBook(book', {})
    BY <2>1, PlainState DEF IInv
  <2>3. DOMAIN book.orderMap \subseteq OrderId
    BY DEF IInv, StateOK, GoodBook, IsBook, IsPartialFunction
  <2>4. call' \in CancelFrame
    BY <1>2, <2>3 DEF CancelGoodForDayOrders, CancelFrame
  <2>5. call' \in Frame /\ call'.pc = "cancelAll"
    BY <1>2, <2>4 DEF Frame, CancelGoodForDayOrders
  <2> QED BY <1>1, <2>2, <2>5, PlainFrame DEF IInv
<1>3. CASE CancelNext
  <2>1. call.pc = "cancelAll" /\ call \in CancelFrame
    BY <1>3, FrameByPc DEF CancelNext, IInv, StateOK
  <2>2. GoodBook(book, {})
    BY <2>1, PlainState DEF IInv
  <2>3. GoodBook(book', {})
    BY <1>3, <2>2, CancelledGood DEF CancelNext
  <2>4. call' \in CancelFrame
    BY <1>3, <2>1 DEF CancelNext, CancelFrame
  <2>5. call' \in Frame /\ call'.pc = "cancelAll"
    BY <2>4 DEF Frame, CancelFrame
  <2> QED BY <1>1, <2>3, <2>5, PlainFrame DEF IInv
<1>4. CASE CancelAllEnd
  <2>1. GoodBook(book', {})
    BY <1>4, PlainState DEF CancelAllEnd, IInv
  <2> QED BY <1>1, <1>4, <2>1, ReturnedFrame DEF CancelAllEnd, Return, IInv
<1> QED BY <1>2, <1>3, <1>4

\* The orders at the heads of two levels, and what one can trade with the other.
LEMMA HeadsRest ==
    ASSUME NEW b, NEW reserved, GoodBook(b, reserved),
           NEW bp \in DOMAIN b.levels["Buy"], NEW ap \in DOMAIN b.levels["Sell"],
           NEW bid, bid = b.levels["Buy"][bp].head, NEW ask, ask = b.levels["Sell"][ap].head
    PROVE  /\ bid \in Live(b) /\ ask \in Live(b) /\ bid # ask
           /\ bp \in Price /\ ap \in Price
           /\ b.pool[bid].orderId \in OrderId /\ b.pool[ask].orderId \in OrderId
           /\ MinOf(b.pool[bid].quantity, b.pool[ask].quantity) \in Quantity
<1>1. "Buy" \in Side /\ "Sell" \in Side
  BY DEF Side
<1>2. bid \in Members(b, "Buy", bp) /\ ask \in Members(b, "Sell", ap)
  BY <1>1 DEF GoodBook, EndsLinked
<1>3. bid \in Live(b) /\ ask \in Live(b) /\ bid # ask
  BY <1>2 DEF Members
<1>4. /\ b.pool[bid].orderId \in OrderId /\ b.pool[ask].orderId \in OrderId
      /\ b.pool[bid] \in PoolOrder /\ b.pool[ask] \in PoolOrder
  BY <1>3, LiveSlot
<1>5. bp \in Price /\ ap \in Price
  BY <1>1 DEF GoodBook, IsBook, IsPartialFunction
<1>6. MinOf(b.pool[bid].quantity, b.pool[ask].quantity) \in Quantity
  BY <1>4 DEF MinOf, PoolOrder
<1> QED BY <1>3, <1>4, <1>5, <1>6

\* One trade of MatchOrders.
LEMMA MatchStepKeeps ==
    ASSUME IInv, MatchStep
    PROVE  IInv'
<1>1. /\ call.pc = "match" /\ call \in MatchFrame /\ GoodBook(book, {})
      /\ exchangeRules' = exchangeRules
  BY FrameByPc, PlainState DEF IInv, StateOK, MatchStep
<1> DEFINE bid(bp) == book.levels["Buy"][bp].head
           ask(ap) == book.levels["Sell"][ap].head
           qty(bp, ap) == MinOf(book.pool[bid(bp)].quantity, book.pool[ask(ap)].quantity)
           filled(bp, ap) == FillResting(FillResting(book, bid(bp), qty(bp, ap)),
                                         ask(ap), qty(bp, ap))
           trade(bp, ap) == [ bidOrderId |-> book.pool[bid(bp)].orderId,
                              askOrderId |-> book.pool[ask(ap)].orderId,
                              price      |-> TradePrice(call.side, bp, ap),
                              quantity   |-> qty(bp, ap) ]
<1>2. PICK bp \in BidPrices, ap \in AskPrices :
        /\ book' = UnbookIfFilled(UnbookIfFilled(filled(bp, ap), bid(bp)), ask(ap))
        /\ call' = [call EXCEPT !.trades = Append(call.trades, trade(bp, ap))]
  BY DEF MatchStep
<1> DEFINE x == bid(bp)  y == ask(ap)  q == qty(bp, ap)
           f1 == FillResting(book, x, q)
           f2 == FillResting(f1, y, q)
           u1 == UnbookIfFilled(f2, x)
           u2 == UnbookIfFilled(u1, y)
           t == trade(bp, ap)
<1>3. book' = u2 /\ call' = [call EXCEPT !.trades = Append(call.trades, t)]
  BY <1>2
<1>4. /\ x \in Live(book) /\ y \in Live(book) /\ x # y
      /\ bp \in Price /\ ap \in Price
      /\ book.pool[x].orderId \in OrderId /\ book.pool[y].orderId \in OrderId
      /\ q \in Quantity
  BY <1>1, HeadsRest DEF BidPrices, AskPrices
<1>5. t \in Trade
  BY <1>4 DEF Trade, TradePrice
<1> HIDE DEF t, x, y, q
<1>6. GoodBook(f1, {}) /\ y \in Live(f1) /\ x \in Live(f1)
  BY <1>1, <1>4, FillRestingGood DEF Requantified
<1> HIDE DEF f1
<1>7. GoodBook(f2, {}) /\ y \in Live(f2) /\ x \in Live(f2)
  BY <1>4, <1>6, FillRestingGood DEF Requantified
<1> HIDE DEF f2
<1>8. GoodBook(u1, {}) /\ y \in Live(u1)
  BY <1>4, <1>7, UnbookIfFilledGood
<1> HIDE DEF u1
<1>9. GoodBook(u2, {})
  BY <1>8, UnbookIfFilledGood
<1>10. call' \in MatchFrame
  <2> DEFINE trades == Append(call.trades, t)
  <2>1. call.trades \in Seq(Trade)
    BY <1>1 DEF MatchFrame
  <2>2. trades \in Seq(Trade)
    BY <1>5, <2>1
  <2>3. call' = [call EXCEPT !.trades = trades]
    BY <1>3
  <2> HIDE DEF trades
  <2> QED BY <1>1, <2>2, <2>3 DEF MatchFrame
<1>11. call' \in Frame /\ call'.pc = "match"
  BY <1>10 DEF Frame, MatchFrame
<1>12. StateOK(book', call')
  BY <1>3, <1>9, <1>11, PlainFrame
<1> QED BY <1>1, <1>12 DEF IInv

\* The end of a FillOrKill order, killed or executed.
LEMMA FillOrKillEndKeeps ==
    ASSUME IInv, Kill \/ ExecuteEnd
    PROVE  IInv'
<1>1. /\ call.pc \in {"collect", "execute"} /\ exchangeRules' = exchangeRules
      /\ book' = Free(book, call.idx) /\ call' = Idle
  BY DEF Kill, ExecuteEnd, Return
<1>2. GoodBook(book, {call.idx})
  BY <1>1 DEF IInv, StateOK, Reserved
<1>3. GoodBook(book', {})
  BY <1>1, <1>2, FreeGood
<1> QED BY <1>1, <1>3, ReturnedFrame DEF IInv

\* The start of the replay.
LEMMA CollectEndKeeps ==
    ASSUME IInv, CollectEnd
    PROVE  IInv'
<1>1. /\ call.pc = "collect" /\ call \in CollectFrame /\ book' = book
      /\ exchangeRules' = exchangeRules
      /\ call' = [pc |-> "execute", idx |-> call.idx, matches |-> call.matches, trades |-> <<>>]
  BY FrameByPc DEF IInv, StateOK, CollectEnd
<1>2. call' \in ExecuteFrame /\ call'.pc = "execute" /\ call'.idx = call.idx
      /\ call'.matches = call.matches
  BY <1>1 DEF ExecuteFrame, CollectFrame
<1>3. /\ GoodBook(book, {call.idx}) /\ book.pool[call.idx].orderId \in OrderId
      /\ Collected(book, book.pool[call.idx].side, call.matches)
  BY <1>1 DEF IInv, StateOK, Reserved
<1> DEFINE c == call'
<1>4. /\ c \in Frame /\ c.pc = "execute" /\ c.idx = call.idx
      /\ c.matches = call.matches
  BY <1>2 DEF Frame
<1> HIDE DEF c
<1>5. StateOK(book, c)
  BY <1>3, <1>4 DEF StateOK, Reserved
<1> QED BY <1>1, <1>5 DEF IInv, c

\* What IInv says while CollectFOK scans.
LEMMA CollectState ==
    ASSUME IInv, call.pc = "collect"
    PROVE  /\ call \in CollectFrame /\ GoodBook(book, {call.idx})
           /\ call.idx \in Idx /\ Opposite(Aggressor.side) \in Side
           /\ Collected(book, Aggressor.side, call.matches) /\ Scanning(book, call)
           /\ Aggressor.orderId \in OrderId
           /\ call.matches \in Seq(FokMatch)
BY FrameByPc DEF IInv, StateOK, Reserved, CollectFrame, Opposite, Side, Aggressor

\* A frame of the scan, for the order of the running call.
LEMMA CollectFrameOK ==
    ASSUME IInv, call.pc = "collect", NEW c \in CollectFrame, c.idx = call.idx,
           Collected(book, Aggressor.side, c.matches), Scanning(book, c)
    PROVE  StateOK(book, c)
<1>1. GoodBook(book, {call.idx}) /\ Aggressor.orderId \in OrderId
  BY CollectState
<1>2. c.pc = "collect" /\ c \in Frame
  BY DEF CollectFrame, Frame
<1> QED BY <1>1, <1>2 DEF StateOK, Reserved, Aggressor

\* CollectFOK moves on to a level: nothing collected is in it.
LEMMA CollectLevelKeeps ==
    ASSUME IInv, CollectLevel
    PROVE  IInv'
<1> DEFINE other == Opposite(Aggressor.side)
<1>1. /\ call.pc = "collect" /\ book' = book /\ exchangeRules' = exchangeRules
  BY DEF CollectLevel
<1>2. PICK p \in call.todo :
        call' = [call EXCEPT !.todo = call.todo \ {p}, !.cur = book.levels[other][p].head]
  BY DEF CollectLevel
<1>3. /\ call \in CollectFrame /\ GoodBook(book, {call.idx}) /\ other \in Side
      /\ Collected(book, Aggressor.side, call.matches) /\ Scanning(book, call)
  BY <1>1, CollectState
<1> DEFINE h == book.levels[other][p].head
           left == call.todo \ {p}
<1>4. p \in DOMAIN book.levels[other] /\ h \in Members(book, other, p)
  BY <1>3 DEF Scanning, Aggressor, GoodBook, EndsLinked
<1>5. /\ h \in Live(book) /\ h \in Idx
      /\ book.pool[h].side = other /\ book.pool[h].price = p
  BY <1>3, <1>4, LiveSlot DEF Members
<1> DEFINE c == call'
<1>6. c = [call EXCEPT !.todo = left, !.cur = h]
  BY <1>2
<1> HIDE DEF c, h, left, other
<1>7. /\ c \in CollectFrame /\ c.idx = call.idx /\ c.matches = call.matches
      /\ c.todo = left /\ c.cur = h
  <2>1. left \subseteq Price /\ h \in Link
    BY <1>3, <1>5 DEF CollectFrame, Link, left
  <2> QED BY <1>3, <1>6, <2>1 DEF CollectFrame
<1>8. \A k \in DOMAIN c.matches :
         /\ c.matches[k].idx \in Live(book) /\ c.matches[k].idx \in Idx
         /\ book.pool[c.matches[k].idx].price # p
         /\ book.pool[c.matches[k].idx].price \notin left
  <2>1. \A k \in DOMAIN call.matches :
           /\ call.matches[k].idx \in Live(book)
           /\ book.pool[call.matches[k].idx].price \notin call.todo
    BY <1>3 DEF Collected, Scanning
  <2>2. p \in call.todo /\ left \subseteq call.todo
    BY <1>3 DEF left
  <2>3. Live(book) \subseteq Idx
    BY <1>3, LiveSlot
  <2> QED BY <1>7, <2>1, <2>2, <2>3
<1>9. \A k \in DOMAIN c.matches : c.matches[k].idx # h /\ <<h, c.matches[k].idx>> \notin book.older
  <2>1. \A j \in Idx : <<h, j>> \in book.older => book.pool[j].price = book.pool[h].price
    BY <1>3, <1>5 DEF GoodBook, Ordered, SameLevel
  <2> QED BY <1>5, <1>8, <2>1
<1>10. Scanning(book, c)
  <2>1. left \subseteq DOMAIN book.levels[other] /\ book.pool[h].price \notin left
    BY <1>3, <1>5 DEF Scanning, left, other, Aggressor
  <2> QED BY <1>5, <1>7, <1>8, <1>9, <2>1 DEF Scanning, other, Aggressor
<1>11. StateOK(book, c)
  BY <1>1, <1>3, <1>7, <1>10, CollectFrameOK
<1> QED BY <1>1, <1>11 DEF IInv, c

\* A sequence with one more element.
LEMMA AppendEntries ==
    ASSUME NEW S, NEW s \in Seq(S), NEW e \in S, NEW t, t = Append(s, e)
    PROVE  /\ t \in Seq(S)
           /\ \A k \in DOMAIN t : (k \in DOMAIN s /\ t[k] = s[k])
                                  \/ (k = Len(s) + 1 /\ t[k] = e)
OBVIOUS

\* CollectFOK takes the order at hand and moves on to the next younger one.
LEMMA CollectOrderKeeps ==
    ASSUME IInv, CollectOrder
    PROVE  IInv'
<1> DEFINE cur == call.cur
           o == book.pool[cur]
           q == MinOf(call.remaining, o.quantity)
           e == [idx |-> cur, qty |-> q]
           c == call'
           other == Opposite(Aggressor.side)
<1>1. /\ call.pc = "collect" /\ book' = book /\ exchangeRules' = exchangeRules
      /\ cur # NULL_IDX
      /\ c = [call EXCEPT !.matches = Append(call.matches, e),
                          !.remaining = call.remaining - q, !.cur = o.next]
  BY DEF CollectOrder
<1>2. /\ call \in CollectFrame /\ GoodBook(book, {call.idx})
      /\ Collected(book, Aggressor.side, call.matches) /\ Scanning(book, call)
      /\ call.matches \in Seq(FokMatch)
  BY <1>1, CollectState
<1>3. /\ cur \in Live(book) /\ o.side = other /\ o.price \notin call.todo
      /\ \A k \in DOMAIN call.matches :
           call.matches[k].idx # cur /\ <<cur, call.matches[k].idx>> \notin book.older
  BY <1>1, <1>2 DEF Scanning, Aggressor
<1>4. cur \in Idx /\ o \in PoolOrder
  BY <1>2, <1>3, LiveSlot
<1>5. /\ q \in Quantity /\ q <= o.quantity /\ call.remaining - q \in Quantity
  <2>1. call.remaining \in Quantity /\ o.quantity \in Quantity
    BY <1>2, <1>4 DEF CollectFrame, PoolOrder
  <2> HIDE DEF o
  <2> QED BY <2>1, NumericAssumption DEF MinOf, Quantity
<1>6. e \in FokMatch /\ e.idx = cur /\ e.qty = q
  BY <1>4, <1>5 DEF FokMatch
<1> DEFINE ms == Append(call.matches, e)
           r  == call.remaining - q
           n  == o.next
<1>7. c = [call EXCEPT !.matches = ms, !.remaining = r, !.cur = n]
  BY <1>1
<1>8. /\ ms \in Seq(FokMatch)
      /\ \A k \in DOMAIN ms : (k \in DOMAIN call.matches /\ ms[k] = call.matches[k])
                              \/ (k = Len(call.matches) + 1 /\ ms[k] = e)
  <2> HIDE DEF e
  <2> QED BY <1>2, <1>6, AppendEntries
<1>9. n \in Link /\ r \in Quantity
  BY <1>4, <1>5 DEF PoolOrder
<1> HIDE DEF c, e, q, o, ms, r, n, other, cur
<1>10. /\ c \in CollectFrame /\ c.idx = call.idx /\ c.matches = ms
       /\ c.todo = call.todo /\ c.cur = n
  BY <1>2, <1>7, <1>8, <1>9 DEF CollectFrame
<1>11. Collected(book, Aggressor.side, ms)
  <2>1. \A k \in DOMAIN ms :
           /\ ms[k].idx \in Live(book)
           /\ book.pool[ms[k].idx].side = Opposite(Aggressor.side)
           /\ ms[k].qty <= book.pool[ms[k].idx].quantity
    BY <1>2, <1>3, <1>5, <1>6, <1>8 DEF Collected, other, o
  <2>2. \A k, l \in DOMAIN ms : ms[k].idx = ms[l].idx => k = l
    BY <1>2, <1>3, <1>6, <1>8 DEF Collected
  <2> QED BY <2>1, <2>2 DEF Collected
\* The next order of the level is younger than all that has been collected.
<1>12. n # NULL_IDX =>
          /\ n \in Live(book) /\ n \in Idx /\ <<cur, n>> \in book.older
          /\ book.pool[n].side = other /\ book.pool[n].price = o.price
  <2>1. n # NULL_IDX => n \in Live(book) /\ SameLevel(book, cur, n)
    BY <1>2, <1>3 DEF GoodBook, NeighboursLinked, n, o
  <2>2. n # NULL_IDX => <<cur, n>> \in book.older
    BY <1>2, <1>3 DEF GoodBook, LinkedInOrder, n, o
  <2>3. n # NULL_IDX => n \in Idx
    BY <1>2, <2>1, LiveSlot
  <2> QED BY <1>3, <2>1, <2>2, <2>3 DEF SameLevel, o
<1>13. n # NULL_IDX => \A k \in DOMAIN ms : ms[k].idx # n /\ <<n, ms[k].idx>> \notin book.older
  <2> SUFFICES ASSUME n # NULL_IDX, NEW j \in Live(book),
                      j = cur \/ (j # cur /\ <<cur, j>> \notin book.older)
               PROVE  j # n /\ <<n, j>> \notin book.older
    BY <1>2, <1>3, <1>6, <1>8 DEF Collected
  <2>1. j \in Idx /\ cur \in Idx /\ n \in Idx
    BY <1>2, <1>4, <1>12, LiveSlot
  <2>2. CASE j = cur
    BY <1>2, <1>12, <2>1, <2>2 DEF GoodBook, Ordered
  <2>3. CASE j # cur /\ <<cur, j>> \notin book.older
    <3>1. j # n
      BY <1>12, <2>3
    <3>2. ~SameLevel(book, cur, j) => <<n, j>> \notin book.older
      BY <1>2, <1>12, <2>1 DEF GoodBook, Ordered, SameLevel
    <3>3. SameLevel(book, cur, j) => <<j, cur>> \in book.older
      BY <1>2, <1>3, <2>3 DEF GoodBook, Ordered
    <3>4. <<j, cur>> \in book.older => <<j, n>> \in book.older
      BY <1>2, <1>3, <1>12 DEF GoodBook, Ordered
    <3>5. <<j, n>> \in book.older => <<n, j>> \notin book.older
      BY <1>2, <2>1 DEF GoodBook, Ordered
    <3> QED BY <3>1, <3>2, <3>3, <3>4, <3>5
  <2> QED BY <2>2, <2>3
<1>14. Scanning(book, c)
  <2>1. \A k \in DOMAIN ms : book.pool[ms[k].idx].price \notin call.todo
    BY <1>2, <1>3, <1>6, <1>8 DEF Scanning, o
  <2>2. call.todo \subseteq DOMAIN book.levels[other]
    BY <1>2 DEF Scanning, other, Aggressor
  <2>3. n # NULL_IDX => n \in Live(book) /\ book.pool[n].side = other
                        /\ book.pool[n].price \notin call.todo
    BY <1>3, <1>12
  <2> QED BY <1>10, <1>13, <2>1, <2>2, <2>3 DEF Scanning, other, Aggressor
<1>15. StateOK(book, c)
  BY <1>1, <1>10, <1>11, <1>14, CollectFrameOK
<1> QED BY <1>1, <1>15 DEF IInv, c

\* The sequence without its first element.
LEMMA TailEntries ==
    ASSUME NEW S, NEW s \in Seq(S), s # <<>>
    PROVE  /\ Head(s) \in S /\ Head(s) = s[1] /\ 1 \in DOMAIN s
           /\ Tail(s) \in Seq(S)
           /\ \A k \in DOMAIN Tail(s) :
                k + 1 \in DOMAIN s /\ k + 1 # 1 /\ Tail(s)[k] = s[k + 1] /\ k \in Int
OBVIOUS

\* ExecuteFOK replays one match: the others stay as they were collected.
LEMMA ExecuteStepKeeps ==
    ASSUME IInv, ExecuteStep
    PROVE  IInv'
<1> DEFINE a == call.idx
           m == Head(call.matches)
           ag == book.pool[a]
           mo == book.pool[m.idx]
           t == [ bidOrderId |-> IF ag.side = "Buy" THEN ag.orderId ELSE mo.orderId,
                  askOrderId |-> IF ag.side = "Buy" THEN mo.orderId ELSE ag.orderId,
                  price      |-> mo.price,
                  quantity   |-> m.qty ]
           f1 == FillResting(book, m.idx, m.qty)
           f2 == FillInFlight(f1, a, m.qty)
           u == UnbookIfFilled(f2, m.idx)
           c == call'
<1>1. /\ call.pc = "execute" /\ exchangeRules' = exchangeRules /\ call.matches # <<>>
      /\ book' = u
      /\ c = [call EXCEPT !.matches = Tail(call.matches), !.trades = Append(call.trades, t)]
  BY DEF ExecuteStep, Aggressor
<1>2. /\ call \in ExecuteFrame /\ GoodBook(book, {a})
      /\ a \in Idx /\ a \notin Live(book)
      /\ ag.orderId \in OrderId /\ Collected(book, ag.side, call.matches)
      /\ call.matches \in Seq(FokMatch) /\ call.trades \in Seq(Trade)
  <2>1. call \in ExecuteFrame /\ GoodBook(book, {a})
    BY <1>1, FrameByPc DEF IInv, StateOK, Reserved
  <2>2. a \in Idx /\ a \notin Live(book)
    BY <2>1 DEF GoodBook, Partitioned
  <2> QED BY <1>1, <2>1, <2>2 DEF IInv, StateOK, ExecuteFrame
<1>3. /\ m \in FokMatch /\ m = call.matches[1] /\ 1 \in DOMAIN call.matches
      /\ Tail(call.matches) \in Seq(FokMatch)
      /\ \A k \in DOMAIN Tail(call.matches) :
           /\ k + 1 \in DOMAIN call.matches /\ k + 1 # 1 /\ k \in Int
           /\ Tail(call.matches)[k] = call.matches[k + 1]
  BY <1>1, <1>2, TailEntries
<1> DEFINE ms == Tail(call.matches)  i == m.idx  q == m.qty
<1>4. /\ i \in Live(book) /\ i \in Idx /\ q \in Quantity /\ i # a
      /\ mo.orderId \in OrderId /\ mo.price \in Price
  <2>1. i \in Live(book) /\ q \in Quantity
    BY <1>2, <1>3 DEF Collected, FokMatch
  <2>2. i \in Idx /\ mo \in PoolOrder /\ mo.orderId \in OrderId
    BY <1>2, <2>1, LiveSlot
  <2> QED BY <1>2, <2>1, <2>2 DEF PoolOrder
<1>5. t \in Trade
  BY <1>2, <1>4 DEF Trade
<1>6. c \in ExecuteFrame /\ c.idx = a /\ c.matches = ms
  <2> DEFINE ts == Append(call.trades, t)
  <2>1. ts \in Seq(Trade) /\ ms \in Seq(FokMatch)
    BY <1>2, <1>3, <1>5
  <2>2. c = [call EXCEPT !.matches = ms, !.trades = ts]
    BY <1>1
  <2> HIDE DEF ts, ms, c
  <2> QED BY <1>2, <2>1, <2>2 DEF ExecuteFrame
<1> HIDE DEF t, c
<1>7. Requantified(book, f1, {a}, i, QtySub(book.pool[i].quantity, q))
  BY <1>2, <1>4, FillRestingGood
<1> HIDE DEF f1
<1>8. Requantified(f1, f2, {a}, a, QtySub(f1.pool[a].quantity, q))
  <2>1. GoodBook(f1, {a})
    BY <1>7 DEF Requantified
  <2> QED BY <1>4, <2>1, FillInFlightGood
<1> HIDE DEF f2
<1>9. GoodBook(f2, {a}) /\ Live(f2) = Live(book)
  BY <1>7, <1>8 DEF Requantified
<1>10. /\ GoodBook(u, {a})
       /\ Live(book) \ {i} \subseteq Live(u)
       /\ \A j \in Idx \ {i} : /\ u.pool[j].orderId = f2.pool[j].orderId
                               /\ u.pool[j].side = f2.pool[j].side
                               /\ u.pool[j].quantity = f2.pool[j].quantity
  BY <1>4, <1>9, UnbookIfFilledGood
<1> HIDE DEF u
<1>11. /\ \A j \in Idx \ {i} : /\ u.pool[j].orderId = book.pool[j].orderId
                               /\ u.pool[j].side = book.pool[j].side
       /\ \A j \in Idx \ {i, a} : u.pool[j].quantity = book.pool[j].quantity
  <2>1. \A j \in Idx \ {i} : /\ f1.pool[j].orderId = book.pool[j].orderId
                            /\ f1.pool[j].side = book.pool[j].side
                            /\ f1.pool[j].quantity = book.pool[j].quantity
    BY <1>7 DEF Requantified
  <2>2. \A j \in Idx : /\ f2.pool[j].orderId = f1.pool[j].orderId
                       /\ f2.pool[j].side = f1.pool[j].side
                       /\ j # a => f2.pool[j].quantity = f1.pool[j].quantity
    BY <1>8 DEF Requantified
  <2> QED BY <1>10, <2>1, <2>2
<1>12. \A k \in DOMAIN ms : ms[k].idx \in Live(book) /\ ms[k].idx \in Idx
                            /\ ms[k].idx # i /\ ms[k].idx # a
  <2>1. \A k \in DOMAIN call.matches : k # 1 => call.matches[k].idx # i
    BY <1>2, <1>3 DEF Collected
  <2>2. \A k \in DOMAIN call.matches : call.matches[k].idx \in Live(book)
    BY <1>2 DEF Collected
  <2>3. \A j \in Live(book) : j \in Idx /\ j # a
    BY <1>2, LiveSlot
  <2> QED BY <1>3, <2>1, <2>2, <2>3
<1>13. Collected(u, ag.side, ms)
  <2>1. \A k \in DOMAIN ms :
           /\ ms[k].idx \in Live(u)
           /\ u.pool[ms[k].idx].side = Opposite(ag.side)
           /\ ms[k].qty <= u.pool[ms[k].idx].quantity
    <3>1. \A k \in DOMAIN ms :
             /\ book.pool[ms[k].idx].side = Opposite(ag.side)
             /\ ms[k].qty <= book.pool[ms[k].idx].quantity
      BY <1>2, <1>3 DEF Collected
    <3> HIDE DEF ms, m, i, a, ag
    <3>2. \A k \in DOMAIN ms :
             /\ ms[k].idx \in Live(u)
             /\ u.pool[ms[k].idx].side = book.pool[ms[k].idx].side
             /\ u.pool[ms[k].idx].quantity = book.pool[ms[k].idx].quantity
      BY <1>10, <1>11, <1>12
    <3> QED BY <3>1, <3>2
  <2>2. \A k, l \in DOMAIN ms : ms[k].idx = ms[l].idx => k = l
    <3> SUFFICES ASSUME NEW k \in DOMAIN ms, NEW l \in DOMAIN ms, ms[k].idx = ms[l].idx
                 PROVE  k = l
      OBVIOUS
    <3>1. k + 1 = l + 1
      BY <1>2, <1>3 DEF Collected
    <3> QED BY <1>3, <3>1
  <2> QED BY <2>1, <2>2 DEF Collected
<1>14. StateOK(u, c)
  <2>1. c \in Frame /\ c.pc = "execute"
    BY <1>6 DEF Frame, ExecuteFrame
  <2>2. u.pool[a].orderId \in OrderId /\ u.pool[a].side = ag.side
    BY <1>2, <1>4, <1>11
  <2> QED BY <1>6, <1>10, <1>13, <2>1, <2>2 DEF StateOK, Reserved
<1> QED BY <1>1, <1>14 DEF IInv, c

-----------------------------------------------------------------------------
(* The theorems.                                                            *)

\* An empty book, with every slot free, is good: Orderbook's constructor.
LEMMA InitOK ==
    ASSUME Init
    PROVE  IInv
<1>1. /\ book = [ pool |-> book.pool, freeList |-> book.freeList, levels |-> book.levels,
                  orderMap |-> book.orderMap, older |-> book.older ]
      /\ book.pool = [j \in Idx |-> FreeSlot]
      /\ book.freeList = [k \in 1 .. PoolSize |-> PoolSize - k]
      /\ book.levels = [side \in Side |-> [p \in {} |-> EmptyLevel]]
      /\ book.orderMap = [id \in {} |-> 0]
      /\ book.older = {}
      /\ exchangeRules \in Rules /\ call = Idle
  BY BookAssumption DEF Init
<1> DEFINE b == book
<1> HIDE DEF b
<1>2. Live(b) = {} /\ DOMAIN b.orderMap = {}
  BY <1>1 DEF Live, b
<1>3. FreeSlot \in PoolOrder
  BY NumericAssumption DEF FreeSlot, PoolOrder, Side, Price, OrderType, Quantity, Link
<1>4. \A side \in Side : DOMAIN b.levels[side] = {}
  BY <1>1 DEF b
<1>5. /\ \A side \in Side : IsPartialFunction(b.levels[side], Price, PriceLevel)
      /\ IsPartialFunction(b.orderMap, OrderId, Idx)
  BY <1>1, <1>2, <1>4 DEF IsPartialFunction, b
<1>6. /\ b.freeList \in Seq(Idx) /\ DOMAIN b.freeList = 1 .. PoolSize
      /\ \A k \in 1 .. PoolSize : b.freeList[k] = PoolSize - k
  <2> DEFINE list == [k \in 1 .. PoolSize |-> PoolSize - k]
  <2>1. b.freeList = list
    BY <1>1 DEF b
  <2>2. \A k \in 1 .. PoolSize : PoolSize - k \in Idx
    BY BookAssumption DEF Idx
  <2>3. list \in Seq(Idx)
    BY <2>2, BookAssumption
  <2> QED BY <2>1, <2>3
<1>7. IsBook(b)
  <2>1. b.pool \in [Idx -> PoolOrder] /\ b.older \subseteq Idx \X Idx
    BY <1>1, <1>3 DEF b
  <2>2. b = [ pool |-> b.pool, freeList |-> b.freeList, levels |-> b.levels,
              orderMap |-> b.orderMap, older |-> b.older ]
        /\ b.levels = [side \in Side |-> b.levels[side]]
    BY <1>1 DEF b
  <2> QED BY <1>5, <1>6, <2>1, <2>2 DEF IsBook
<1>8. Partitioned(b, {})
  <2>1. FreeSlots(b) = Idx
    <3>1. \A j \in Idx : PoolSize - j \in 1 .. PoolSize /\ b.freeList[PoolSize - j] = j
      BY <1>6, BookAssumption DEF Idx
    <3>2. \A k \in 1 .. PoolSize : PoolSize - k \in Idx
      BY BookAssumption DEF Idx
    <3> QED BY <1>6, <3>1, <3>2 DEF FreeSlots
  <2>2. \A k, n \in DOMAIN b.freeList : b.freeList[k] = b.freeList[n] => k = n
    BY <1>6, BookAssumption
  <2> QED BY <1>2, <2>1, <2>2 DEF Partitioned
<1>9. EndsLinked(b) /\ Counted(b)
  BY <1>4 DEF EndsLinked, Counted
<1>10. NeighboursLinked(b) /\ LinkedInOrder(b)
  BY <1>2 DEF NeighboursLinked, LinkedInOrder
<1>11. Ordered(b)
  BY <1>1, <1>2 DEF Ordered, b
<1>12. GoodBook(book, {})
  BY <1>7, <1>8, <1>9, <1>10, <1>11 DEF GoodBook, b
<1> QED BY <1>1, <1>12, ReturnedFrame DEF IInv

\* Every step of every call keeps the invariant.
LEMMA NextKeeps ==
    ASSUME IInv, [Next]_vars
    PROVE  IInv'
<1>1. CASE UNCHANGED vars
  BY <1>1 DEF vars, IInv
<1>2. ASSUME NEW type \in AddTypes, NEW id \in OrderId, NEW side \in Side,
             NEW price \in LimitPrices, NEW qty \in AddQuantities,
             AddOrder(type, id, side, price, qty)
      PROVE  IInv'
  <2>1. type \in OrderType /\ price \in Price /\ qty \in Quantity
    BY BookAssumption
  <2> QED BY <1>2, <2>1, PublicAddKeeps
<1>3. ASSUME NEW id \in OrderId, CancelOrder(id) PROVE IInv'
  BY <1>3, CancelOrderKeeps
<1>4. ASSUME NEW id \in OrderId, NEW side \in Side, NEW price \in LimitPrices,
             NEW qty \in ModifyQuantities, ModifyOrder(id, side, price, qty)
      PROVE  IInv'
  <2>1. price \in Price /\ qty \in Quantity
    BY BookAssumption
  <2> QED BY <1>4, <2>1, ModifyOrderKeeps
<1>5. ASSUME NEW rules \in RuleSets, SetExchangeRules(rules) PROVE IInv'
  BY <1>5, SetExchangeRulesKeeps
<1>6. CASE CancelGoodForDayOrders \/ CancelNext \/ CancelAllEnd
  BY <1>6, CancelGoodForDayKeeps
<1>7. CASE MatchStep
  BY <1>7, MatchStepKeeps
<1>8. CASE MatchEnd
  BY <1>8, MatchEndKeeps
<1>9. CASE CollectLevel
  BY <1>9, CollectLevelKeeps
<1>10. CASE CollectOrder
  BY <1>10, CollectOrderKeeps
<1>11. CASE Kill \/ ExecuteEnd
  BY <1>11, FillOrKillEndKeeps
<1>12. CASE CollectEnd
  BY <1>12, CollectEndKeeps
<1>13. CASE ExecuteStep
  BY <1>13, ExecuteStepKeeps
<1>14. CASE ReAdd
  BY <1>14, ReAddKeeps
<1> QED BY <1>1, <1>2, <1>3, <1>4, <1>5, <1>6, <1>7, <1>8, <1>9, <1>10, <1>11, <1>12,
           <1>13, <1>14 DEF Next, PublicCall, Continue

\* The inductive invariant holds in every reachable state: the structure of
\* the pool and of the lists, and what the running call relies on.
THEOREM Inductive == Spec => []IInv
<1>1. Init => IInv
  BY InitOK
<1>2. IInv /\ [Next]_vars => IInv'
  BY NextKeeps
<1> QED BY <1>1, <1>2, PTL DEF Spec

\* Types: every value stays in its C++ type.
THEOREM TypeCorrect == Spec => []TypeOK
<1>1. IInv => TypeOK
  BY DEF IInv, StateOK, GoodBook, TypeOK
<1> QED BY <1>1, Inductive, PTL

\* Alloc and Free never leak a slot and never hand one out twice, whatever path
\* AddOrder, ModifyOrder, MatchOrders and ExecuteFOK take.
THEOREM PoolSafe == Spec => []NoLeakNoDoubleFree
<1>1. IInv => NoLeakNoDoubleFree
  BY DEF IInv, StateOK, GoodBook, NoLeakNoDoubleFree, Reserved, InFlight
<1> QED BY <1>1, Inductive, PTL

\* The intrusive lists are well formed, and no level is empty.
THEOREM ListsSafe == Spec => []ListsWellFormed
<1>1. IInv => ListsWellFormed
  BY DEF IInv, StateOK, GoodBook, ListsWellFormed
<1> QED BY <1>1, Inductive, PTL

\* The list of a level holds its orders from the oldest to the newest.
THEOREM TimeOrder == Spec => []ListsInTimeOrder
<1>1. IInv => ListsInTimeOrder
  BY DEF IInv, StateOK, GoodBook, ListsInTimeOrder
<1> QED BY <1>1, Inductive, PTL

\* The matches that CollectFOK gathered are still there when ExecuteFOK comes
\* to each of them.
THEOREM MatchesSafe == Spec => []MatchesStayValid
<1>1. IInv => MatchesStayValid
  BY DEF IInv, StateOK, Collected, MatchesStayValid, Aggressor
<1> QED BY <1>1, Inductive, PTL

-----------------------------------------------------------------------------
(* The effect of each step on the orders at rest.                           *)

\* The orders in gone have left the book b, and nothing but quantities changed
\* for the others.
Shrunk(b, u, gone) ==
    /\ Live(u) = Live(b) \ gone
    /\ \A i, j \in Live(u) : <<i, j>> \in u.older <=> <<i, j>> \in b.older
    /\ DOMAIN u.orderMap \subseteq DOMAIN b.orderMap
    /\ \A id \in DOMAIN u.orderMap : u.orderMap[id] = b.orderMap[id]
    /\ \A j \in Idx \ gone : /\ u.pool[j].orderId = b.pool[j].orderId
                             /\ u.pool[j].side = b.pool[j].side
                             /\ u.pool[j].price = b.pool[j].price
                             /\ u.pool[j].orderType = b.pool[j].orderType

\* No slot outside changed has another quantity.
SameQuantity(b, u, changed) ==
    \A j \in Idx \ changed : u.pool[j].quantity = b.pool[j].quantity

\* The order in slot i has come to the book b, as the last of its level.
Grown(b, u, i) ==
    /\ i \in Idx \ Live(b)
    /\ Live(u) = Live(b) \cup {i}
    /\ u.pool[i] \in PoolOrder
    /\ u.pool[i].orderId \in OrderId \ DOMAIN b.orderMap
    /\ u.older = b.older \cup {<<j, i>> : j \in Members(b, u.pool[i].side, u.pool[i].price)}
    /\ DOMAIN u.orderMap = DOMAIN b.orderMap \cup {u.pool[i].orderId}
    /\ u.orderMap[u.pool[i].orderId] = i
    /\ \A id \in DOMAIN b.orderMap : u.orderMap[id] = b.orderMap[id]
    /\ \A j \in Live(b) : /\ u.pool[j].orderId = b.pool[j].orderId
                          /\ u.pool[j].side = b.pool[j].side
                          /\ u.pool[j].price = b.pool[j].price
                          /\ u.pool[j].orderType = b.pool[j].orderType
                          /\ u.pool[j].quantity = b.pool[j].quantity

-----------------------------------------------------------------------------
(* Facts about good books.                                                  *)

\* The keys of a map of levels are the prices at which an order rests.
LEMMA LevelsAreOccupied ==
    ASSUME NEW b, NEW reserved, GoodBook(b, reserved), NEW side \in Side, NEW p
    PROVE  p \in DOMAIN b.levels[side] <=> Members(b, side, p) # {}
<1>1. p \in DOMAIN b.levels[side] => Members(b, side, p) # {}
  BY DEF GoodBook, EndsLinked
<1>2. \A i \in Members(b, side, p) : p \in DOMAIN b.levels[side]
  BY DEF GoodBook, NeighboursLinked, Members
<1> QED BY <1>1, <1>2

\* Nothing is older than the head of a level.
LEMMA HeadIsOldest ==
    ASSUME NEW b, NEW reserved, GoodBook(b, reserved), NEW side \in Side,
           NEW p \in DOMAIN b.levels[side], NEW h, h = b.levels[side][p].head
    PROVE  /\ h \in Live(b) /\ b.pool[h].side = side /\ b.pool[h].price = p
           /\ \A j \in Live(b) : <<j, h>> \notin b.older
           /\ \A j \in Members(b, side, p) : j = h \/ <<h, j>> \in b.older
<1>1. h \in Members(b, side, p) /\ b.pool[h].prev = NULL_IDX
  BY DEF GoodBook, EndsLinked
<1>2. h \in Live(b) /\ b.pool[h].side = side /\ b.pool[h].price = p
  BY <1>1 DEF Members
<1>3. \A j \in Live(b) : <<j, h>> \notin b.older
  BY <1>1, <1>2 DEF GoodBook, LinkedInOrder
<1>4. \A j \in Members(b, side, p) : j = h \/ <<h, j>> \in b.older
  BY <1>2, <1>3 DEF GoodBook, Ordered, SameLevel, Members
<1> QED BY <1>2, <1>3, <1>4

\* Two orders of different levels are not ordered by time.
LEMMA OlderInLevel ==
    ASSUME NEW b, NEW reserved, GoodBook(b, reserved)
    PROVE  /\ \A i, j \in Live(b) : <<i, j>> \in b.older =>
                /\ i # j /\ <<j, i>> \notin b.older
                /\ b.pool[i].side = b.pool[j].side /\ b.pool[i].price = b.pool[j].price
           /\ \A i, j : <<i, j>> \in b.older => i \in Live(b) /\ j \in Live(b)
<1>1. b.older \subseteq Idx \X Idx
  BY DEF GoodBook, IsBook
<1>2. \A i, j \in Idx : <<i, j>> \in b.older =>
        i \in Live(b) /\ j \in Live(b) /\ SameLevel(b, i, j) /\ <<j, i>> \notin b.older
  BY DEF GoodBook, Ordered
<1>3. \A i, j : <<i, j>> \in b.older => i \in Idx /\ j \in Idx
  BY <1>1
<1> QED BY <1>2, <1>3 DEF SameLevel

-----------------------------------------------------------------------------
(* The effects of the member functions.                                     *)

\* One thing leaves after the other.
LEMMA ShrunkTwice ==
    ASSUME NEW b, NEW u, NEW v, NEW gone1, NEW gone2,
           Shrunk(b, u, gone1), Shrunk(u, v, gone2)
    PROVE  Shrunk(b, v, gone1 \cup gone2)
BY DEF Shrunk

\* A fill or an in-place modification: nothing leaves.
LEMMA RequantifiedShrinks ==
    ASSUME NEW b, NEW a, NEW reserved, NEW i, NEW qty, Requantified(b, a, reserved, i, qty)
    PROVE  Shrunk(b, a, {}) /\ SameQuantity(b, a, {i})
BY DEF Requantified, Shrunk, SameQuantity

\* Unbook: one order leaves.
LEMMA UnbookShrinks ==
    ASSUME NEW b, NEW reserved, GoodBook(b, reserved), NEW i \in Live(b)
    PROVE  /\ Shrunk(b, Unbook(b, i), {i}) /\ SameQuantity(b, Unbook(b, i), {i})
           /\ GoodBook(Unbook(b, i), reserved)
           /\ Unbook(b, i).freeList # <<>>
<1> DEFINE u == Unbook(b, i)
<1>1. Removed(b, u, i) /\ GoodBook(u, reserved)
  BY UnbookOK
<1> HIDE DEF u
<1>2. Live(u) \subseteq Idx /\ b.freeList \in Seq(Idx) /\ i \in Idx
  BY <1>1, LiveSlot DEF GoodBook, IsBook
<1>3. u.freeList # <<>>
  BY <1>1, <1>2 DEF Removed
<1>4. /\ Live(u) = Live(b) \ {i}
      /\ u.older = {pair \in b.older : i \notin {pair[1], pair[2]}}
      /\ DOMAIN u.orderMap \subseteq DOMAIN b.orderMap
      /\ \A id \in DOMAIN u.orderMap : u.orderMap[id] = b.orderMap[id]
      /\ Unlinked(b.pool, u.pool, i)
  BY <1>1 DEF Removed
<1>5. \A j, k \in Live(u) : <<j, k>> \in u.older <=> <<j, k>> \in b.older
  BY <1>4
<1>6. Shrunk(b, u, {i}) /\ SameQuantity(b, u, {i})
  BY <1>4, <1>5 DEF Shrunk, SameQuantity, Unlinked
<1> QED BY <1>1, <1>3, <1>6 DEF u

\* CancelOrder: the order of that id leaves, if it is at rest.
LEMMA CancelShrinks ==
    ASSUME NEW b, NEW reserved, GoodBook(b, reserved), NEW id
    PROVE  /\ Shrunk(b, CancelledBook(b, id),
                     IF id \in DOMAIN b.orderMap THEN {b.orderMap[id]} ELSE {})
           /\ SameQuantity(b, CancelledBook(b, id),
                     IF id \in DOMAIN b.orderMap THEN {b.orderMap[id]} ELSE {})
           /\ GoodBook(CancelledBook(b, id), reserved)
           /\ id \in DOMAIN b.orderMap => CancelledBook(b, id).freeList # <<>>
<1>1. CASE id \in DOMAIN b.orderMap
  <2>1. b.orderMap[id] \in Live(b)
    BY <1>1 DEF Live
  <2> QED BY <1>1, <2>1, UnbookShrinks DEF CancelledBook
<1>2. CASE id \notin DOMAIN b.orderMap
  BY <1>2 DEF CancelledBook, Shrunk, SameQuantity
<1> QED BY <1>1, <1>2

\* UnbookIfFilled: the order leaves if nothing of it is left.
LEMMA UnbookIfFilledShrinks ==
    ASSUME NEW b, NEW reserved, GoodBook(b, reserved), NEW i \in Live(b)
    PROVE  LET gone == IF b.pool[i].quantity = 0 THEN {i} ELSE {}
           IN  /\ Shrunk(b, UnbookIfFilled(b, i), gone)
               /\ SameQuantity(b, UnbookIfFilled(b, i), gone)
               /\ GoodBook(UnbookIfFilled(b, i), reserved)
<1>1. CASE b.pool[i].quantity = 0
  BY <1>1, UnbookShrinks DEF UnbookIfFilled
<1>2. CASE b.pool[i].quantity # 0
  BY <1>2 DEF UnbookIfFilled, Shrunk, SameQuantity
<1> QED BY <1>1, <1>2

\* A fill by no more than there is leaves the difference.
LEMMA FillDifference ==
    ASSUME NEW m \in Quantity, NEW n \in Quantity, n <= m
    PROVE  QtySub(m, n) = m - n
BY NumericAssumption DEF QtySub, Quantity

\* A fill of a resting order by no more than there is of it.
LEMMA RestingFill ==
    ASSUME NEW b, NEW reserved, GoodBook(b, reserved), NEW i \in Live(b),
           NEW q \in Quantity, q <= b.pool[i].quantity, NEW a, a = FillResting(b, i, q)
    PROVE  /\ GoodBook(a, reserved) /\ Live(a) = Live(b)
           /\ a.pool[i].quantity = b.pool[i].quantity - q
           /\ Shrunk(b, a, {}) /\ SameQuantity(b, a, {i})
<1>1. b.pool[i].quantity \in Quantity
  BY LiveSlot DEF PoolOrder
<1>2. QtySub(b.pool[i].quantity, q) = b.pool[i].quantity - q
  BY <1>1, FillDifference
<1>3. Requantified(b, a, reserved, i, QtySub(b.pool[i].quantity, q))
  BY FillRestingGood
<1>4. Shrunk(b, a, {}) /\ SameQuantity(b, a, {i})
  BY <1>3, RequantifiedShrinks
<1> QED BY <1>2, <1>3, <1>4 DEF Requantified

\* A fill of the FillOrKill order that the call has in flight.
LEMMA InFlightFill ==
    ASSUME NEW b, NEW i, GoodBook(b, {i}), NEW q \in Quantity, NEW a, a = FillInFlight(b, i, q)
    PROVE  /\ GoodBook(a, {i}) /\ Live(a) = Live(b)
           /\ a.pool[i].quantity = QtySub(b.pool[i].quantity, q)
           /\ Shrunk(b, a, {}) /\ SameQuantity(b, a, {i})
<1>1. Requantified(b, a, {i}, i, QtySub(b.pool[i].quantity, q))
  BY FillInFlightGood
<1>2. Shrunk(b, a, {}) /\ SameQuantity(b, a, {i})
  BY <1>1, RequantifiedShrinks
<1> QED BY <1>1, <1>2 DEF Requantified

\* Alloc followed by InsertIntoBook: one order comes.
LEMMA AddGrows ==
    ASSUME NEW b, GoodBook(b, {}), b.freeList # <<>>,
           NEW type \in OrderType, NEW id \in OrderId \ DOMAIN b.orderMap, NEW side \in Side,
           NEW price \in Price, NEW qty \in Quantity,
           NEW i, i = AllocIdx(b),
           NEW u, u = InsertIntoBook(Alloc(b, type, id, side, price, qty), i)
    PROVE  /\ Grown(b, u, i)
           /\ u.pool[i].orderId = id /\ u.pool[i].side = side /\ u.pool[i].price = price
           /\ u.pool[i].orderType = type /\ u.pool[i].quantity = qty
<1> DEFINE a == Alloc(b, type, id, side, price, qty)
           o == [ orderId |-> id, side |-> side, price |-> price, orderType |-> type,
                  quantity |-> qty, prev |-> NULL_IDX, next |-> NULL_IDX ]
<1>1. Allocated(b, a, i, o)
  BY AllocGood
<1>2. /\ o.orderId = id /\ o.side = side /\ o.price = price /\ o.orderType = type
      /\ o.quantity = qty
  OBVIOUS
<1>3. a.older = b.older
  BY DEF Alloc
<1> HIDE DEF a, o
<1>4. GoodBook(a, {i}) /\ a.pool[i].orderId \in OrderId \ DOMAIN a.orderMap
  BY <1>1, <1>2 DEF Allocated
<1>5. Inserted(a, u, i)
  BY <1>4, InsertEffect DEF a
<1>6. /\ u.pool \in [Idx -> PoolOrder] /\ i \in Idx
      /\ \A j \in Idx : /\ u.pool[j].orderId = a.pool[j].orderId
                        /\ u.pool[j].side = a.pool[j].side
                        /\ u.pool[j].price = a.pool[j].price
                        /\ u.pool[j].orderType = a.pool[j].orderType
                        /\ u.pool[j].quantity = a.pool[j].quantity
  BY <1>1, <1>5 DEF Inserted, ListAppended, Allocated
<1>7. /\ u.pool[i].orderId = id /\ u.pool[i].side = side /\ u.pool[i].price = price
      /\ u.pool[i].orderType = type /\ u.pool[i].quantity = qty
  BY <1>1, <1>2, <1>6 DEF Allocated
<1>8. /\ Live(a) = Live(b) /\ i \notin Live(b) /\ a.orderMap = b.orderMap
      /\ \A j \in Live(b) : a.pool[j] = b.pool[j] /\ j \in Idx
  BY <1>1, LiveSlot DEF Allocated
<1>9. Members(a, side, price) = Members(b, side, price)
  BY <1>8 DEF Members
<1>10. /\ Live(u) = Live(a) \cup {i}
       /\ u.older = a.older \cup {<<j, i>> : j \in Members(a, side, price)}
       /\ DOMAIN u.orderMap = DOMAIN a.orderMap \cup {id}
       /\ u.orderMap[id] = i
       /\ \A k \in DOMAIN a.orderMap : u.orderMap[k] = a.orderMap[k]
  BY <1>1, <1>2, <1>5 DEF Inserted, Allocated
<1>11. Grown(b, u, i)
  BY <1>3, <1>6, <1>7, <1>8, <1>9, <1>10 DEF Grown
<1> QED BY <1>7, <1>11

\* Free: the orders at rest stay as they are.
LEMMA FreeShrinks ==
    ASSUME NEW b, NEW i, GoodBook(b, {i})
    PROVE  Shrunk(b, Free(b, i), {i}) /\ SameQuantity(b, Free(b, i), {i})
           /\ Live(Free(b, i)) = Live(b) /\ Free(b, i).orderMap = b.orderMap
           /\ Free(b, i).older = b.older
<1>1. b.pool \in [Idx -> PoolOrder] /\ i \notin Live(b)
  BY DEF GoodBook, IsBook, Partitioned
<1>2. /\ Free(b, i).pool = [b.pool EXCEPT ![i] = FreeSlot]
      /\ Free(b, i).orderMap = b.orderMap /\ Free(b, i).older = b.older
  BY DEF Free
<1>3. Live(Free(b, i)) = Live(b)
  BY <1>2 DEF Live
<1>4. \A j \in Idx \ {i} : Free(b, i).pool[j] = b.pool[j]
  BY <1>1, <1>2
<1> QED BY <1>1, <1>2, <1>3, <1>4 DEF Shrunk, SameQuantity

-----------------------------------------------------------------------------
(* The effects of the steps.                                                *)

Spent(b, i, q) == IF b.pool[i].quantity = q THEN {i} ELSE {}

\* MatchOrders has traded q between the bid x and the ask y.
MatchEffect(bp, ap, x, y, q) ==
    /\ bp \in BidPrices /\ ap \in AskPrices /\ CanTrade(bp, ap)
    /\ x = book.levels["Buy"][bp].head /\ y = book.levels["Sell"][ap].head
    /\ x \in Live(book) /\ y \in Live(book) /\ x # y
    /\ q = MinOf(book.pool[x].quantity, book.pool[y].quantity)
    /\ Shrunk(book, book', Spent(book, x, q) \cup Spent(book, y, q))
    /\ SameQuantity(book, book', {x, y})
    /\ book.pool[x].quantity # q => book'.pool[x].quantity = book.pool[x].quantity - q
    /\ book.pool[y].quantity # q => book'.pool[y].quantity = book.pool[y].quantity - q
    /\ call'.pc = "match" /\ call'.side = call.side /\ call'.iocId = call.iocId
    /\ call'.trades = Append(call.trades,
          [ bidOrderId |-> book.pool[x].orderId, askOrderId |-> book.pool[y].orderId,
            price |-> TradePrice(call.side, bp, ap), quantity |-> q ])

\* A step of the matching loop is such a trade.
LEMMA MatchStepEffect ==
    ASSUME IInv, MatchStep
    PROVE  \E bp, ap, x, y, q : MatchEffect(bp, ap, x, y, q)
<1>1. call.pc = "match" /\ call \in MatchFrame /\ GoodBook(book, {})
  BY FrameByPc, PlainState DEF IInv, StateOK, MatchStep
<1> DEFINE bid(bp) == book.levels["Buy"][bp].head
           ask(ap) == book.levels["Sell"][ap].head
           qty(bp, ap) == MinOf(book.pool[bid(bp)].quantity, book.pool[ask(ap)].quantity)
           filled(bp, ap) == FillResting(FillResting(book, bid(bp), qty(bp, ap)),
                                         ask(ap), qty(bp, ap))
           trade(bp, ap) == [ bidOrderId |-> book.pool[bid(bp)].orderId,
                              askOrderId |-> book.pool[ask(ap)].orderId,
                              price      |-> TradePrice(call.side, bp, ap),
                              quantity   |-> qty(bp, ap) ]
<1>2. PICK bp \in BidPrices, ap \in AskPrices :
        /\ CanTrade(bp, ap)
        /\ book' = UnbookIfFilled(UnbookIfFilled(filled(bp, ap), bid(bp)), ask(ap))
        /\ call' = [call EXCEPT !.trades = Append(call.trades, trade(bp, ap))]
  BY DEF MatchStep
<1> DEFINE x == bid(bp)  y == ask(ap)  q == qty(bp, ap)
           f1 == FillResting(book, x, q)
           f2 == FillResting(f1, y, q)
           u1 == UnbookIfFilled(f2, x)
           u2 == UnbookIfFilled(u1, y)
           t == trade(bp, ap)
           qx == book.pool[x].quantity
           qy == book.pool[y].quantity
<1>3. book' = u2 /\ call' = [call EXCEPT !.trades = Append(call.trades, t)]
  BY <1>2
<1>4. /\ x \in Live(book) /\ y \in Live(book) /\ x # y /\ q \in Quantity
  BY <1>1, HeadsRest DEF BidPrices, AskPrices
<1>5. x \in Idx /\ y \in Idx /\ qx \in Quantity /\ qy \in Quantity
  BY <1>1, <1>4, LiveSlot DEF PoolOrder
<1>6. q = MinOf(qx, qy) /\ q <= qx /\ q <= qy
  <2>1. q = MinOf(qx, qy)
    OBVIOUS
  <2> HIDE DEF q, qx, qy
  <2>2. qx \in Int /\ qy \in Int
    BY <1>5, NumericAssumption DEF Quantity
  <2> QED BY <2>1, <2>2 DEF MinOf
<1>7. t = [ bidOrderId |-> book.pool[x].orderId, askOrderId |-> book.pool[y].orderId,
            price |-> TradePrice(call.side, bp, ap), quantity |-> q ]
  OBVIOUS
<1>8. x = book.levels["Buy"][bp].head /\ y = book.levels["Sell"][ap].head
  OBVIOUS
<1> HIDE DEF t, x, y, q, qx, qy
<1>9. f1 = FillResting(book, x, q) /\ f2 = FillResting(f1, y, q)
  OBVIOUS
<1> HIDE DEF f1, f2
<1>10. /\ GoodBook(f1, {}) /\ Live(f1) = Live(book)
       /\ f1.pool[x].quantity = qx - q
       /\ Shrunk(book, f1, {}) /\ SameQuantity(book, f1, {x})
  BY <1>1, <1>4, <1>6, <1>9, RestingFill DEF qx
<1>11. y \in Live(f1) /\ f1.pool[y].quantity = qy
  BY <1>4, <1>5, <1>10 DEF SameQuantity, qy
<1>12. /\ GoodBook(f2, {}) /\ Live(f2) = Live(book)
       /\ f2.pool[y].quantity = qy - q
       /\ Shrunk(f1, f2, {}) /\ SameQuantity(f1, f2, {y})
  BY <1>4, <1>6, <1>9, <1>10, <1>11, RestingFill
<1>13. /\ x \in Live(f2) /\ y \in Live(f2)
       /\ f2.pool[x].quantity = qx - q /\ f2.pool[y].quantity = qy - q
  BY <1>4, <1>5, <1>10, <1>12 DEF SameQuantity
<1>14. (qx - q = 0 <=> qx = q) /\ (qy - q = 0 <=> qy = q)
  BY <1>4, <1>5, NumericAssumption DEF Quantity
<1>15. Spent(f2, x, 0) = Spent(book, x, q)
  BY <1>13, <1>14 DEF Spent, qx
<1>16. /\ Shrunk(f2, u1, Spent(f2, x, 0)) /\ SameQuantity(f2, u1, Spent(f2, x, 0))
       /\ GoodBook(u1, {})
  BY <1>13, <1>12, UnbookIfFilledShrinks DEF Spent
<1> HIDE DEF u1
<1>17. y \in Live(u1) /\ u1.pool[y].quantity = qy - q /\ Spent(u1, y, 0) = Spent(book, y, q)
  <2>1. y \in Live(u1) /\ u1.pool[y].quantity = f2.pool[y].quantity
    BY <1>4, <1>5, <1>13, <1>16 DEF Shrunk, SameQuantity, Spent
  <2> QED BY <1>13, <1>14, <2>1 DEF Spent, qy
<1>18. /\ Shrunk(u1, u2, Spent(u1, y, 0)) /\ SameQuantity(u1, u2, Spent(u1, y, 0))
  BY <1>16, <1>17, UnbookIfFilledShrinks DEF Spent
<1> HIDE DEF u2
<1>19. Shrunk(book, u2, Spent(book, x, q) \cup Spent(book, y, q))
  <2>1. Shrunk(book, f2, {} \cup {})
    BY <1>10, <1>12, ShrunkTwice
  <2>2. Shrunk(book, u1, ({} \cup {}) \cup Spent(book, x, q))
    BY <1>15, <1>16, <2>1, ShrunkTwice
  <2>3. Shrunk(book, u2, (({} \cup {}) \cup Spent(book, x, q)) \cup Spent(book, y, q))
    BY <1>17, <1>18, <2>2, ShrunkTwice
  <2>4. (({} \cup {}) \cup Spent(book, x, q)) \cup Spent(book, y, q)
            = Spent(book, x, q) \cup Spent(book, y, q)
    OBVIOUS
  <2> QED BY <2>3, <2>4
<1>20. SameQuantity(book, u2, {x, y})
  BY <1>10, <1>16, <1>18, <1>12 DEF SameQuantity, Spent
<1>21. /\ qx # q => u2.pool[x].quantity = qx - q
       /\ qy # q => u2.pool[y].quantity = qy - q
  BY <1>4, <1>5, <1>13, <1>14, <1>16, <1>17, <1>18 DEF SameQuantity, Spent
<1>22. /\ call'.pc = "match" /\ call'.side = call.side /\ call'.iocId = call.iocId
       /\ call'.trades = Append(call.trades, t)
  BY <1>1, <1>3 DEF MatchFrame
<1>23. MatchEffect(bp, ap, x, y, q)
  BY <1>2, <1>3, <1>4, <1>6, <1>7, <1>8, <1>19, <1>20, <1>21, <1>22 DEF MatchEffect, qx, qy
<1> QED BY <1>23

\* ExecuteFOK has taken q from the order i, the first of its matches.
ExecuteEffect(i, q) ==
    /\ call.matches \in Seq(FokMatch) /\ 1 \in DOMAIN call.matches
    /\ i = call.matches[1].idx /\ q = call.matches[1].qty
    /\ i \in Live(book) /\ i # call.idx /\ call.idx \in Idx \ Live(book)
    /\ q \in Quantity /\ q <= book.pool[i].quantity
    /\ Shrunk(book, book', Spent(book, i, q))
    /\ SameQuantity(book, book', {i, call.idx})
    /\ book.pool[i].quantity # q => book'.pool[i].quantity = book.pool[i].quantity - q
    /\ book'.pool[call.idx].quantity = QtySub(Aggressor.quantity, q)
    /\ call'.pc = "execute" /\ call'.idx = call.idx
    /\ call'.matches \in Seq(FokMatch)
    /\ \A k \in DOMAIN call'.matches : /\ k \in Nat /\ k + 1 \in DOMAIN call.matches
                                       /\ call'.matches[k] = call.matches[k + 1]
    /\ Len(call'.matches) = Len(call.matches) - 1
    /\ call'.trades = Append(call.trades,
         [ bidOrderId |-> IF Aggressor.side = "Buy" THEN Aggressor.orderId
                                                    ELSE book.pool[i].orderId,
           askOrderId |-> IF Aggressor.side = "Buy" THEN book.pool[i].orderId
                                                    ELSE Aggressor.orderId,
           price |-> book.pool[i].price, quantity |-> q ])

\* The sequence of matches without its first.
LEMMA TailLength ==
    ASSUME NEW S, NEW s \in Seq(S), s # <<>>
    PROVE  /\ Len(Tail(s)) = Len(s) - 1
           /\ \A k \in DOMAIN Tail(s) : k \in Nat
OBVIOUS

\* A step of the replay is such a trade.
LEMMA ExecuteStepEffect ==
    ASSUME IInv, ExecuteStep
    PROVE  ExecuteEffect(Head(call.matches).idx, Head(call.matches).qty)
<1> DEFINE a == call.idx
           m == Head(call.matches)
           i == m.idx
           q == m.qty
           t == [ bidOrderId |-> IF Aggressor.side = "Buy" THEN Aggressor.orderId
                                                           ELSE book.pool[i].orderId,
                  askOrderId |-> IF Aggressor.side = "Buy" THEN book.pool[i].orderId
                                                           ELSE Aggressor.orderId,
                  price |-> book.pool[i].price, quantity |-> q ]
           f1 == FillResting(book, i, q)
           f2 == FillInFlight(f1, a, q)
           u == UnbookIfFilled(f2, i)
           qi == book.pool[i].quantity
<1>1. /\ call.pc = "execute" /\ call.matches # <<>>
      /\ book' = u
      /\ call' = [call EXCEPT !.matches = Tail(call.matches), !.trades = Append(call.trades, t)]
  BY DEF ExecuteStep
<1>2. /\ call \in ExecuteFrame /\ GoodBook(book, {a})
      /\ Collected(book, Aggressor.side, call.matches)
  BY <1>1, FrameByPc DEF IInv, StateOK, Reserved, Aggressor
<1>3. call.matches \in Seq(FokMatch) /\ call.trades \in Seq(Trade) /\ a \in Idx /\ a \notin Live(book)
  BY <1>2 DEF ExecuteFrame, GoodBook, Partitioned
<1>4. /\ m \in FokMatch /\ m = call.matches[1] /\ 1 \in DOMAIN call.matches
      /\ Tail(call.matches) \in Seq(FokMatch)
      /\ Len(Tail(call.matches)) = Len(call.matches) - 1
      /\ \A k \in DOMAIN Tail(call.matches) :
           /\ k \in Nat /\ k + 1 \in DOMAIN call.matches
           /\ Tail(call.matches)[k] = call.matches[k + 1]
  BY <1>1, <1>3, TailEntries, TailLength
<1>5. i = call.matches[1].idx /\ q = call.matches[1].qty
  BY <1>4
<1>6. /\ i \in Live(book) /\ i \in Idx /\ i # a
      /\ q \in Quantity /\ qi \in Quantity /\ q <= qi
  <2>1. i \in Live(book) /\ q \in Quantity /\ q <= qi
    BY <1>2, <1>4 DEF Collected, FokMatch
  <2> QED BY <1>2, <1>3, <2>1, LiveSlot DEF PoolOrder
<1>7. /\ call'.pc = "execute" /\ call'.idx = a /\ call'.matches = Tail(call.matches)
      /\ call'.trades = Append(call.trades, t)
  BY <1>1, <1>2 DEF ExecuteFrame
<1> HIDE DEF i, q, t, qi
<1>8. f1 = FillResting(book, i, q) /\ f2 = FillInFlight(f1, a, q)
  OBVIOUS
<1> HIDE DEF f1, f2
<1>9. /\ GoodBook(f1, {a}) /\ Live(f1) = Live(book) /\ f1.pool[i].quantity = qi - q
      /\ Shrunk(book, f1, {}) /\ SameQuantity(book, f1, {i})
  BY <1>2, <1>6, <1>8, RestingFill DEF qi
<1>10. /\ GoodBook(f2, {a}) /\ Live(f2) = Live(f1)
       /\ f2.pool[a].quantity = QtySub(f1.pool[a].quantity, q)
       /\ Shrunk(f1, f2, {}) /\ SameQuantity(f1, f2, {a})
  <2>1. q \in Quantity /\ GoodBook(f1, {a}) /\ f2 = FillInFlight(f1, a, q)
    BY <1>6, <1>8, <1>9
  <2> HIDE DEF a
  <2> QED BY <2>1, InFlightFill
<1>11. /\ i \in Live(f2) /\ f2.pool[i].quantity = qi - q
       /\ f2.pool[a].quantity = QtySub(Aggressor.quantity, q)
  BY <1>3, <1>6, <1>9, <1>10 DEF SameQuantity, Aggressor
<1>12. qi - q = 0 <=> qi = q
  BY <1>6, NumericAssumption DEF Quantity
<1>13. Spent(f2, i, 0) = Spent(book, i, q)
  BY <1>11, <1>12 DEF Spent, qi
<1>14. /\ Shrunk(f2, u, Spent(f2, i, 0)) /\ SameQuantity(f2, u, Spent(f2, i, 0))
       /\ GoodBook(u, {a})
  BY <1>10, <1>11, UnbookIfFilledShrinks DEF Spent
<1> HIDE DEF u
<1>15. Shrunk(book, u, Spent(book, i, q))
  <2>1. Shrunk(book, f2, {} \cup {})
    BY <1>9, <1>10, ShrunkTwice
  <2>2. Shrunk(book, u, ({} \cup {}) \cup Spent(book, i, q))
    BY <1>13, <1>14, <2>1, ShrunkTwice
  <2>3. ({} \cup {}) \cup Spent(book, i, q) = Spent(book, i, q)
    OBVIOUS
  <2> QED BY <2>2, <2>3
<1>16. SameQuantity(book, u, {i, a})
  BY <1>9, <1>10, <1>14 DEF SameQuantity, Spent
<1>17. /\ qi # q => u.pool[i].quantity = qi - q
       /\ u.pool[a].quantity = QtySub(Aggressor.quantity, q)
  BY <1>3, <1>6, <1>11, <1>12, <1>14 DEF SameQuantity, Spent
<1>18. ExecuteEffect(i, q)
  BY <1>1, <1>3, <1>4, <1>5, <1>6, <1>7, <1>15, <1>16, <1>17 DEF ExecuteEffect, t, qi
<1> QED BY <1>18 DEF i, q

-----------------------------------------------------------------------------
(* The cases of a step.                                                     *)

\* AddOrder has refused the order, started to match it, or started to look for
\* enough to fill it.
LEMMA AddOrderCases ==
    ASSUME GoodBook(book, {}), NEW type \in OrderType, NEW id \in OrderId, NEW side \in Side,
           NEW price \in Price, NEW qty \in Quantity,
           AddOrderBody(type, id, side, price, qty)
    PROVE  \/ call' = Idle /\ call'.pc = "idle" /\ book' = book
           \/ /\ id \notin DOMAIN book.orderMap /\ book.freeList # <<>>
              /\ type = "FillOrKill" /\ StartFillOrKill(id, side, price, qty)
              /\ call'.pc = "collect"
              /\ ValidateOrder(book, id, price, qty)
           \/ /\ id \notin DOMAIN book.orderMap /\ book.freeList # <<>>
              /\ type # "FillOrKill" /\ LimitType(type) \in OrderType
              /\ LimitPrice(type, side, price) \in Price
              /\ StartMatching(LimitType(type), id, side, LimitPrice(type, side, price), qty)
              /\ call'.pc = "match"
              /\ ValidateOrder(book, id, LimitPrice(type, side, price), qty)
              /\ type = "Market" => DOMAIN book.levels[Opposite(side)] # {}
<1>1. CASE Return /\ UNCHANGED book
  BY <1>1 DEF Return, Idle
<1>2. CASE ~Rejected(type, id, side, price, qty) /\ ~PoolExhausted
  <2> DEFINE limit == LimitPrice(type, side, price)
  <2>1. limit \in Price /\ LimitType(type) \in OrderType
    BY NumericAssumption DEF LimitPrice, LimitType, MarketPrice, Price, OrderType
  <2>2. /\ ValidateOrder(book, id, limit, qty) /\ id \notin DOMAIN book.orderMap
        /\ book.freeList # <<>>
        /\ type = "Market" => DOMAIN book.levels[Opposite(side)] # {}
    BY <1>2 DEF Rejected, PoolExhausted, ValidateOrder
  <2>3. CASE type = "FillOrKill" /\ StartFillOrKill(id, side, price, qty)
    <3>1. call'.pc = "collect"
      BY <2>3 DEF StartFillOrKill
    <3>2. limit = price
      BY <2>3 DEF LimitPrice
    <3> QED BY <2>2, <2>3, <3>1, <3>2
  <2>4. CASE type # "FillOrKill" /\ StartMatching(LimitType(type), id, side, limit, qty)
    <3>1. call'.pc = "match"
      BY <2>4 DEF StartMatching
    <3> QED BY <2>1, <2>2, <2>4, <3>1
  <2> QED BY <1>2, <2>3, <2>4 DEF AddOrderBody
<1> QED BY <1>1, <1>2 DEF AddOrderBody

\* An order is added by a caller, or by the second half of ModifyOrder.
Adding(type, id, side, price, qty) ==
    /\ AddOrderBody(type, id, side, price, qty)
    /\ \/ /\ call = Idle /\ type \in AddTypes /\ price \in LimitPrices /\ qty \in AddQuantities
       \/ /\ call.pc = "readd" /\ type = call.type /\ id = call.id /\ side = call.side
          /\ price = call.price /\ qty = call.qty

\* The actions of the engine, with their parameters in the types of the code.
LEMMA StepCases ==
    ASSUME IInv, [Next]_vars
    PROVE  \/ UNCHANGED vars
           \/ /\ GoodBook(book, {}) /\ call.pc \in {"idle", "readd"}
              /\ \E type \in OrderType, id \in OrderId, side \in Side, price \in Price,
                    qty \in Quantity : Adding(type, id, side, price, qty)
           \/ \E id \in OrderId : CancelOrder(id)
           \/ \E id \in OrderId, side \in Side, price \in LimitPrices, qty \in ModifyQuantities :
                 ModifyOrder(id, side, price, qty)
           \/ CancelGoodForDayOrders \/ CancelNext \/ CancelAllEnd
           \/ \E rules \in RuleSets : SetExchangeRules(rules)
           \/ MatchStep \/ MatchEnd
           \/ CollectLevel \/ CollectOrder \/ Kill \/ CollectEnd
           \/ ExecuteStep \/ ExecuteEnd
<1>1. ASSUME NEW type \in AddTypes, NEW id \in OrderId, NEW side \in Side,
             NEW price \in LimitPrices, NEW qty \in AddQuantities,
             AddOrder(type, id, side, price, qty)
      PROVE  /\ GoodBook(book, {}) /\ call.pc \in {"idle", "readd"}
             /\ type \in OrderType /\ price \in Price /\ qty \in Quantity
             /\ Adding(type, id, side, price, qty)
  <2>1. call = Idle /\ call.pc = "idle"
    BY <1>1 DEF AddOrder, Idle
  <2>2. GoodBook(book, {})
    BY <2>1, PlainState DEF IInv
  <2> QED BY <1>1, <2>1, <2>2, BookAssumption DEF AddOrder, Adding
<1>2. CASE ReAdd
  <2>1. call \in ReAddFrame /\ call.pc = "readd"
    BY <1>2, FrameByPc DEF IInv, StateOK, ReAdd
  <2>2. GoodBook(book, {})
    BY <2>1, PlainState DEF IInv
  <2>3. /\ call.type \in OrderType /\ call.id \in OrderId /\ call.side \in Side
        /\ call.price \in Price /\ call.qty \in Quantity
    BY <2>1 DEF ReAddFrame
  <2>4. Adding(call.type, call.id, call.side, call.price, call.qty)
    BY <1>2, <2>1 DEF Adding, ReAdd
  <2> QED BY <2>1, <2>2, <2>3, <2>4
<1> QED BY <1>1, <1>2 DEF Next, PublicCall, Continue

\* The frame after a step that neither adds an order nor goes on with a loop.
LEMMA OtherCall ==
    ASSUME IInv,
           \/ \E id : CancelOrder(id)
           \/ CancelGoodForDayOrders \/ CancelNext \/ CancelAllEnd
           \/ \E rules : SetExchangeRules(rules)
           \/ MatchEnd \/ Kill \/ ExecuteEnd
    PROVE  call'.pc \in {"idle", "cancelAll"}
<1>1. CASE CancelNext
  <2>1. call \in CancelFrame
    BY <1>1, FrameByPc DEF IInv, StateOK, CancelNext
  <2> QED BY <1>1, <2>1 DEF CancelNext, CancelFrame
<1>2. CASE \/ \E id : CancelOrder(id)
           \/ \E rules : SetExchangeRules(rules)
  BY <1>2 DEF CancelOrder, SetExchangeRules, Idle
<1> QED BY <1>1, <1>2 DEF CancelGoodForDayOrders, CancelAllEnd, MatchEnd, Kill, ExecuteEnd, Return, Idle

\* The same with ModifyOrder, which may lead to its second half.
LEMMA PlainCall ==
    ASSUME IInv,
           \/ \E id : CancelOrder(id)
           \/ CancelGoodForDayOrders \/ CancelNext \/ CancelAllEnd
           \/ \E rules : SetExchangeRules(rules)
           \/ \E id, side, price, qty : ModifyOrder(id, side, price, qty)
           \/ MatchEnd \/ Kill \/ ExecuteEnd
    PROVE  call'.pc \in {"idle", "readd", "cancelAll"}
<1>1. CASE \E id, side, price, qty : ModifyOrder(id, side, price, qty)
  BY <1>1 DEF ModifyOrder, Idle
<1> QED BY <1>1, OtherCall

\* An in-place modification changes one quantity, and whose it is it says.
LEMMA ModifyShrinks ==
    ASSUME GoodBook(book, {}), NEW id \in DOMAIN book.orderMap, NEW qty \in Quantity,
           ModifyQuantity(book.orderMap[id], qty)
    PROVE  LET i == book.orderMap[id]
           IN  /\ i \in Live(book) /\ Live(book') = Live(book)
               /\ book'.orderMap = book.orderMap /\ book'.older = book.older
               /\ Shrunk(book, book', {}) /\ SameQuantity(book, book', {i})
               /\ book'.pool[i].quantity = qty
<1> DEFINE i == book.orderMap[id]
           rest == QtySub(TotalOf(book, i), book.pool[i].quantity)
           total == QtyAdd(rest, qty)
<1>1. i \in Live(book)
  BY DEF Live
<1>2. book' = SetQuantity(book, i, qty, total)
  BY DEF ModifyQuantity
<1> HIDE DEF i
<1>3. TotalOf(book, i) \in Quantity /\ book.pool[i].quantity \in Quantity
  BY <1>1, LiveSlot DEF TotalOf, PoolOrder, PriceLevel
<1>4. Quantity \subseteq Int
  BY NumericAssumption DEF Quantity
<1>5. rest \in Quantity
  BY <1>3, <1>4, QtyType
<1> HIDE DEF rest
<1>6. total \in Quantity
  BY <1>4, <1>5, QtyType
<1> HIDE DEF total
<1>7. Requantified(book, book', {}, i, qty)
  BY <1>1, <1>2, <1>6, SetQuantityGood
<1>8. Shrunk(book, book', {}) /\ SameQuantity(book, book', {i})
  BY <1>7, RequantifiedShrinks
<1> QED BY <1>1, <1>7, <1>8 DEF Requantified, i

=============================================================================
