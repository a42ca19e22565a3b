-------------------------- MODULE OrderbookImplements ------------------------
(***************************************************************************)
(* The matching engine implements PriceTimeBook, for every pool, every set   *)
(* of callers and every order type: each step of Orderbook is, under the     *)
(* mapping of OrderbookRefinement, a step of the abstract book or none.  A   *)
(* trade of MatchOrders is the trade of the first bid and the first ask; the *)
(* end of a scan that has found enough is a sweep; a trade of the replay is  *)
(* nothing, as the abstract book has it already.                            *)
(***************************************************************************)
EXTENDS OrderbookSums, OrderbookRefinement

\* What SumFunction makes of a function is its sum.
LEMMA SumIsTotal ==
    ASSUME NEW w, IsFiniteSet(DOMAIN w)
    PROVE  /\ SumFunction(w) = Total(w, DOMAIN w)
           /\ PriceTime!SumFunction(w) = Total(w, DOMAIN w)
<1> DEFINE S == DOMAIN w
           g == CHOOSE iter : iter = [t \in SUBSET S |->
                  IF t = {} THEN 0
                  ELSE LET x == CHOOSE x \in t : TRUE IN w[x] + iter[t \ {x}]]
<1>1. SumFunction(w) = g[S]
  BY Zenon DEF SumFunction, SumFunctionOnSet, FoldFunctionOnSet, MapThenFoldSet
<1>2. PriceTime!SumFunction(w) = g[S]
  BY Zenon DEF PriceTime!SumFunction, PriceTime!SumFunctionOnSet, PriceTime!FoldFunctionOnSet,
               PriceTime!MapThenFoldSet
<1>3. g = CHOOSE iter : IsSum(iter, w, S)
  BY Zenon DEF IsSum, Pick
<1> QED BY <1>1, <1>2, <1>3 DEF Total

-----------------------------------------------------------------------------
(* The orders at rest, as the abstract book has them.                       *)

\* An id at rest has a slot, which has the id.
LEMMA IdAtRest ==
    ASSUME NEW b, NEW reserved, GoodBook(b, reserved), NEW id \in DOMAIN b.orderMap,
           NEW i, i = b.orderMap[id]
    PROVE  /\ id \in OrderId /\ i \in Live(b) /\ i \in Idx /\ b.pool[i].orderId = id
           /\ b.pool[i].side \in Side /\ b.pool[i].price \in Price
           /\ b.pool[i].quantity \in Quantity /\ b.pool[i].quantity \in Nat
<1>1. i \in Live(b)
  BY DEF Live
<1>2. id \in OrderId /\ b.pool[i].orderId = id
  BY DEF GoodBook, IsBook, IsPartialFunction, Partitioned
<1>3. i \in Idx /\ b.pool[i] \in PoolOrder
  BY <1>1, LiveSlot
<1>4. b.pool[i].quantity \in Quantity /\ b.pool[i].side \in Side /\ b.pool[i].price \in Price
  BY <1>3 DEF PoolOrder
<1>5. b.pool[i].quantity \in Nat
  BY <1>4, NumericAssumption DEF Quantity
<1> QED BY <1>1, <1>2, <1>3, <1>4, <1>5

\* The order id of the book b, as the abstract book has it.
OrderIn(b, id) ==
    [ side |-> b.pool[b.orderMap[id]].side, price |-> b.pool[b.orderMap[id]].price,
      quantity |-> b.pool[b.orderMap[id]].quantity ]

\* With no replay in progress the orders are those of the book.
LEMMA PlainOrders ==
    ASSUME NEW b, NEW reserved, GoodBook(b, reserved)
    PROVE  /\ OrdersOf(b, <<>>) = [id \in DOMAIN b.orderMap |-> OrderIn(b, id)]
           /\ \A pair \in BeforeOf(b, <<>>) : pair = <<pair[1], pair[2]>>
           /\ \A x, y : <<x, y>> \in BeforeOf(b, <<>>) <=>
                  /\ x \in DOMAIN b.orderMap /\ y \in DOMAIN b.orderMap
                  /\ <<b.orderMap[x], b.orderMap[y]>> \in b.older
<1>1. DOMAIN <<>> = {}
  OBVIOUS
<1>2. Remaining(b, <<>>) = DOMAIN b.orderMap
  BY <1>1 DEF Remaining, Doomed
<1>3. \A i : Due(<<>>, i) = 0
  BY <1>1 DEF Due
<1>4. \A id \in DOMAIN b.orderMap :
         b.pool[b.orderMap[id]].quantity - Due(<<>>, b.orderMap[id])
            = b.pool[b.orderMap[id]].quantity
  <2> SUFFICES ASSUME NEW id \in DOMAIN b.orderMap
               PROVE  b.pool[b.orderMap[id]].quantity - 0 = b.pool[b.orderMap[id]].quantity
    BY <1>3
  <2>1. b.pool[b.orderMap[id]].quantity \in Nat
    BY IdAtRest
  <2> QED BY <2>1
<1>5. OrdersOf(b, <<>>) = [id \in DOMAIN b.orderMap |-> OrderIn(b, id)]
  BY <1>2, <1>4 DEF OrdersOf, OrderIn
<1> DEFINE D == DOMAIN b.orderMap
<1>6. \A pair : pair \in BeforeOf(b, <<>>) <=>
         pair \in D \X D /\ <<b.orderMap[pair[1]], b.orderMap[pair[2]]>> \in b.older
  BY <1>2, Zenon DEF BeforeOf
<1>7. \A pair \in BeforeOf(b, <<>>) : pair = <<pair[1], pair[2]>>
  <2>1. \A pair \in D \X D : pair = <<pair[1], pair[2]>>
    OBVIOUS
  <2> QED BY <1>6, <2>1, Zenon
<1>8. ASSUME NEW x, NEW y
      PROVE  <<x, y>> \in BeforeOf(b, <<>>) <=>
               x \in D /\ y \in D /\ <<b.orderMap[x], b.orderMap[y]>> \in b.older
  <2>1. <<x, y>>[1] = x /\ <<x, y>>[2] = y /\ (<<x, y>> \in D \X D <=> x \in D /\ y \in D)
    OBVIOUS
  <2>2. <<x, y>> \in BeforeOf(b, <<>>) <=>
          <<x, y>> \in D \X D /\ <<b.orderMap[<<x, y>>[1]], b.orderMap[<<x, y>>[2]]>> \in b.older
    BY <1>6
  <2> QED BY <2>1, <2>2
<1> QED BY <1>5, <1>7, <1>8

\* The orders of ids, with the quantities they have in the book u.
Kept(O, ids, b, u) ==
    [id \in ids |-> [O[id] EXCEPT !.quantity = u.pool[b.orderMap[id]].quantity]]

\* Who came first, among ids.
KeptPairs(B, ids) == {pair \in B : {pair[1], pair[2]} \subseteq ids}

\* The order id of P is behind those of O in its queue.
LastPairs(O, P, id) ==
    {<<k, id>> : k \in {k \in DOMAIN O : O[k].side = P[id].side /\ O[k].price = P[id].price}}

\* The ids of the orders that stay.
LEMMA ShrunkIds ==
    ASSUME NEW b, NEW r, GoodBook(b, r), NEW u, NEW s, GoodBook(u, s),
           NEW gone, Shrunk(b, u, gone)
    PROVE  \A id : id \in DOMAIN u.orderMap <=>
                       id \in DOMAIN b.orderMap /\ b.orderMap[id] \notin gone
<1>1. \A id \in DOMAIN b.orderMap :
         b.orderMap[id] \in Live(b) /\ b.pool[b.orderMap[id]].orderId = id
  BY IdAtRest
<1>2. ASSUME NEW id \in DOMAIN u.orderMap
      PROVE  id \in DOMAIN b.orderMap /\ b.orderMap[id] \notin gone
  <2>1. id \in DOMAIN b.orderMap /\ u.orderMap[id] = b.orderMap[id]
    BY DEF Shrunk
  <2>2. u.orderMap[id] \in Live(u)
    BY DEF Live
  <2> QED BY <2>1, <2>2 DEF Shrunk
<1>3. ASSUME NEW id \in DOMAIN b.orderMap, b.orderMap[id] \notin gone
      PROVE  id \in DOMAIN u.orderMap
  <2>1. b.orderMap[id] \in Live(u)
    BY <1>1, <1>3 DEF Shrunk
  <2>2. PICK k \in DOMAIN u.orderMap : u.orderMap[k] = b.orderMap[id]
    BY <2>1 DEF Live
  <2>3. k \in DOMAIN b.orderMap /\ b.orderMap[k] = b.orderMap[id]
    BY <2>2 DEF Shrunk
  <2> QED BY <1>1, <2>2, <2>3
<1> QED BY <1>2, <1>3

\* When orders leave, the others keep what they have but for quantities, and
\* their order.
LEMMA ShrunkOrders ==
    ASSUME NEW b, NEW r, GoodBook(b, r), NEW u, NEW s, GoodBook(u, s),
           NEW gone, Shrunk(b, u, gone),
           NEW ids, ids = {id \in DOMAIN b.orderMap : b.orderMap[id] \notin gone}
    PROVE  /\ OrdersOf(u, <<>>) = Kept(OrdersOf(b, <<>>), ids, b, u)
           /\ BeforeOf(u, <<>>) = KeptPairs(BeforeOf(b, <<>>), ids)
<1>1. \A id \in DOMAIN b.orderMap :
         /\ b.orderMap[id] \in Live(b) /\ b.orderMap[id] \in Idx
         /\ b.pool[b.orderMap[id]].orderId = id
  BY IdAtRest
<1>2. DOMAIN u.orderMap = ids
  BY ShrunkIds
<1>3. \A id \in ids : /\ id \in DOMAIN b.orderMap /\ u.orderMap[id] = b.orderMap[id]
                      /\ b.orderMap[id] \in Live(u) /\ b.orderMap[id] \in Idx \ gone
  BY <1>1, <1>2 DEF Shrunk
<1>4. \A id \in ids : OrderIn(u, id) = [OrdersOf(b, <<>>)[id] EXCEPT
                                           !.quantity = u.pool[b.orderMap[id]].quantity]
  <2> SUFFICES ASSUME NEW id \in ids
               PROVE  OrderIn(u, id) = [OrdersOf(b, <<>>)[id] EXCEPT
                                           !.quantity = u.pool[b.orderMap[id]].quantity]
    OBVIOUS
  <2>1. OrdersOf(b, <<>>)[id] = OrderIn(b, id)
    BY <1>3, PlainOrders
  <2>2. /\ u.pool[b.orderMap[id]].side = b.pool[b.orderMap[id]].side
        /\ u.pool[b.orderMap[id]].price = b.pool[b.orderMap[id]].price
    BY <1>3 DEF Shrunk
  <2> QED BY <1>3, <2>1, <2>2 DEF OrderIn
<1>5. OrdersOf(u, <<>>) = [id \in ids |-> [OrdersOf(b, <<>>)[id] EXCEPT
                                              !.quantity = u.pool[b.orderMap[id]].quantity]]
  <2>1. OrdersOf(u, <<>>) = [id \in DOMAIN u.orderMap |-> OrderIn(u, id)]
    BY PlainOrders
  <2> QED BY <1>2, <1>4, <2>1
<1>6. \A x, y \in ids : <<u.orderMap[x], u.orderMap[y]>> \in u.older
                            <=> <<b.orderMap[x], b.orderMap[y]>> \in b.older
  BY <1>3 DEF Shrunk
<1>7. ASSUME NEW x, NEW y
      PROVE  <<x, y>> \in BeforeOf(u, <<>>) <=>
               <<x, y>> \in BeforeOf(b, <<>>) /\ {x, y} \subseteq ids
  <2>1. <<x, y>> \in BeforeOf(u, <<>>) <=>
          /\ x \in DOMAIN u.orderMap /\ y \in DOMAIN u.orderMap
          /\ <<u.orderMap[x], u.orderMap[y]>> \in u.older
    BY PlainOrders
  <2>2. <<x, y>> \in BeforeOf(b, <<>>) <=>
          /\ x \in DOMAIN b.orderMap /\ y \in DOMAIN b.orderMap
          /\ <<b.orderMap[x], b.orderMap[y]>> \in b.older
    BY PlainOrders
  <2> QED BY <1>2, <1>3, <1>6, <2>1, <2>2
<1>8. /\ \A pair \in BeforeOf(u, <<>>) : pair = <<pair[1], pair[2]>>
      /\ \A pair \in BeforeOf(b, <<>>) : pair = <<pair[1], pair[2]>>
  <2>1. \A pair \in BeforeOf(u, <<>>) : pair = <<pair[1], pair[2]>>
    BY PlainOrders
  <2>2. \A pair \in BeforeOf(b, <<>>) : pair = <<pair[1], pair[2]>>
    BY PlainOrders
  <2> QED BY <2>1, <2>2
<1>9. BeforeOf(u, <<>>) = {pair \in BeforeOf(b, <<>>) : {pair[1], pair[2]} \subseteq ids}
  <2> DEFINE B == BeforeOf(b, <<>>)  C == BeforeOf(u, <<>>)
  <2>1. ASSUME NEW pair
        PROVE  pair \in C <=> pair \in B /\ {pair[1], pair[2]} \subseteq ids
    <3>1. pair \in C \/ pair \in B => pair = <<pair[1], pair[2]>>
      BY <1>8
    <3>2. <<pair[1], pair[2]>> \in C <=>
            <<pair[1], pair[2]>> \in B /\ {pair[1], pair[2]} \subseteq ids
      BY <1>7
    <3> HIDE DEF B, C
    <3> QED BY <3>1, <3>2
  <2> HIDE DEF B, C
  <2>2. C = {pair \in B : {pair[1], pair[2]} \subseteq ids}
    BY ONLY <2>1, Zenon
  <2> QED BY <2>2 DEF B, C
<1> QED BY <1>5, <1>9 DEF Kept, KeptPairs

\* An order that comes is the last of its queue.
LEMMA GrownOrders ==
    ASSUME NEW b, NEW r, GoodBook(b, r), NEW u, NEW s, GoodBook(u, s),
           NEW i, Grown(b, u, i), NEW id, id = u.pool[i].orderId,
           NEW O, O = OrdersOf(b, <<>>), NEW P, P = OrdersOf(u, <<>>)
    PROVE  /\ id \in OrderId \ DOMAIN O
           /\ \A k : k \in DOMAIN P <=> k \in DOMAIN O \/ k = id
           /\ P[id] = OrderIn(u, id) /\ u.orderMap[id] = i
           /\ \A k \in DOMAIN O : P[k] = O[k]
           /\ BeforeOf(u, <<>>) = BeforeOf(b, <<>>) \cup LastPairs(O, P, id)
<1>1. O = [k \in DOMAIN b.orderMap |-> OrderIn(b, k)]
  BY PlainOrders
<1>2. P = [k \in DOMAIN u.orderMap |-> OrderIn(u, k)]
  BY PlainOrders
<1>3. /\ id \in OrderId \ DOMAIN b.orderMap
      /\ DOMAIN u.orderMap = DOMAIN b.orderMap \cup {id} /\ u.orderMap[id] = i
  BY DEF Grown
<1>4. \A k \in DOMAIN b.orderMap :
         /\ k # id /\ k \in DOMAIN u.orderMap /\ u.orderMap[k] = b.orderMap[k]
         /\ b.orderMap[k] \in Live(b) /\ b.orderMap[k] \in Idx
         /\ b.pool[b.orderMap[k]].orderId = k
  BY <1>3, IdAtRest DEF Grown
<1>5. \A k \in DOMAIN O : P[k] = O[k]
  <2> SUFFICES ASSUME NEW k \in DOMAIN b.orderMap
               PROVE  OrderIn(u, k) = OrderIn(b, k)
    BY <1>1, <1>2, <1>4
  <2> QED BY <1>4 DEF Grown, OrderIn
<1>6. P[id] = OrderIn(u, id)
  BY <1>2, <1>3
<1>7. ASSUME NEW x, NEW y
      PROVE  <<x, y>> \in BeforeOf(u, <<>>) <=>
               \/ <<x, y>> \in BeforeOf(b, <<>>)
               \/ y = id /\ x \in DOMAIN O /\ O[x].side = P[id].side /\ O[x].price = P[id].price
  <2> DEFINE D == DOMAIN b.orderMap
  <2>1. <<x, y>> \in BeforeOf(u, <<>>) <=>
          /\ x \in DOMAIN u.orderMap /\ y \in DOMAIN u.orderMap
          /\ <<u.orderMap[x], u.orderMap[y]>> \in u.older
    BY PlainOrders
  <2>2. <<x, y>> \in BeforeOf(b, <<>>) <=>
          /\ x \in DOMAIN b.orderMap /\ y \in DOMAIN b.orderMap
          /\ <<b.orderMap[x], b.orderMap[y]>> \in b.older
    BY PlainOrders
  <2>3. u.older = b.older \cup {<<j, i>> : j \in Members(b, u.pool[i].side, u.pool[i].price)}
        /\ i \notin Live(b)
    BY DEF Grown
  <2>4. \A j, k : <<j, k>> \in b.older => j \in Live(b) /\ k \in Live(b)
    BY OlderInLevel
  <2>5. CASE x \in D /\ y \in D
    <3>1. b.orderMap[y] # i /\ u.orderMap[x] = b.orderMap[x] /\ u.orderMap[y] = b.orderMap[y]
          /\ y # id
      BY <1>4, <2>3, <2>5
    <3>2. <<b.orderMap[x], b.orderMap[y]>> \in u.older
             <=> <<b.orderMap[x], b.orderMap[y]>> \in b.older
      BY <2>3, <3>1
    <3> QED BY <1>4, <2>1, <2>2, <2>5, <3>1, <3>2
  <2>6. CASE x \in D /\ y = id
    <3>1. /\ y \notin D /\ y \in DOMAIN u.orderMap /\ u.orderMap[y] = i
          /\ x \in DOMAIN u.orderMap /\ u.orderMap[x] = b.orderMap[x]
      BY <1>3, <1>4, <2>6
    <3>2. <<b.orderMap[x], i>> \notin b.older
      BY <2>3, <2>4
    <3>3. <<b.orderMap[x], i>> \in u.older
             <=> b.orderMap[x] \in Members(b, u.pool[i].side, u.pool[i].price)
      BY <2>3, <3>2
    <3>4. b.orderMap[x] \in Members(b, u.pool[i].side, u.pool[i].price)
             <=> O[x].side = P[id].side /\ O[x].price = P[id].price
      BY <1>1, <1>3, <1>4, <1>6, <2>6 DEF Members, OrderIn
    <3> QED BY <1>1, <2>1, <2>2, <2>6, <3>1, <3>3, <3>4
  <2>7. CASE x = id
    <3>1. x \notin D /\ x \in DOMAIN u.orderMap /\ u.orderMap[x] = i
      BY <1>3, <2>7
    <3>2. \A k : <<i, k>> \notin u.older
      BY <2>3, <2>4 DEF Members
    <3> QED BY <1>1, <2>1, <2>2, <3>1, <3>2
  <2>8. CASE x \notin D \cup {id} \/ y \notin D \cup {id}
    BY <1>1, <1>3, <2>1, <2>2, <2>8
  <2> QED BY <2>5, <2>6, <2>7, <2>8
<1>8. /\ \A pair \in BeforeOf(u, <<>>) : pair = <<pair[1], pair[2]>>
      /\ \A pair \in BeforeOf(b, <<>>) : pair = <<pair[1], pair[2]>>
  <2>1. \A pair \in BeforeOf(u, <<>>) : pair = <<pair[1], pair[2]>>
    BY PlainOrders
  <2>2. \A pair \in BeforeOf(b, <<>>) : pair = <<pair[1], pair[2]>>
    BY PlainOrders
  <2> QED BY <2>1, <2>2
<1> DEFINE Q == {k \in DOMAIN O : O[k].side = P[id].side /\ O[k].price = P[id].price}
<1>9. BeforeOf(u, <<>>) = BeforeOf(b, <<>>) \cup {<<k, id>> : k \in Q}
  <2> DEFINE B == BeforeOf(b, <<>>)  C == BeforeOf(u, <<>>)
  <2>1. ASSUME NEW pair
        PROVE  pair \in C <=> pair \in B \/ \E k \in Q : pair = <<k, id>>
    <3>1. pair \in C \/ pair \in B => pair = <<pair[1], pair[2]>>
      BY <1>8
    <3>2. <<pair[1], pair[2]>> \in C <=>
            <<pair[1], pair[2]>> \in B \/ (pair[2] = id /\ pair[1] \in Q)
      BY <1>7
    <3>3. \A k \in Q : <<k, id>> \in C
      BY <1>7
    <3> HIDE DEF B, C, Q
    <3> QED BY <3>1, <3>2, <3>3
  <2> HIDE DEF B, C, Q
  <2>2. C = B \cup {<<k, id>> : k \in Q}
    BY ONLY <2>1, Zenon
  <2> QED BY <2>2 DEF B, C
<1> QED BY <1>1, <1>2, <1>3, <1>5, <1>6, <1>9 DEF LastPairs

-----------------------------------------------------------------------------
(* The volume of a call.                                                    *)

TradeAmounts(t) == [k \in DOMAIN t |-> t[k].quantity]

\* The quantity of a sequence of trades.
TradeSum(t) == Total(TradeAmounts(t), DOMAIN t)

\* Its indexes are finitely many, and its entries have quantities.
LEMMA TradeQuantities ==
    ASSUME NEW t \in Seq(Trade)
    PROVE  /\ IsFiniteSet(DOMAIN t)
           /\ \A k \in DOMAIN t : /\ TradeAmounts(t)[k] = t[k].quantity
                                  /\ TradeAmounts(t)[k] \in Nat
           /\ TradeSum(t) \in Nat
<1>1. DOMAIN t = 1 .. Len(t) /\ Len(t) \in Nat
  OBVIOUS
<1>2. IsFiniteSet(DOMAIN t)
  BY <1>1, FS_Interval
<1>3. \A k \in DOMAIN t : TradeAmounts(t)[k] = t[k].quantity
  BY DEF TradeAmounts
<1>4. \A k \in DOMAIN t : t[k].quantity \in Quantity
  <2>1. \A k \in DOMAIN t : t[k] \in Trade
    OBVIOUS
  <2> QED BY <2>1 DEF Trade
<1>5. \A k \in DOMAIN t : TradeAmounts(t)[k] \in Nat
  BY <1>3, <1>4, NumericAssumption DEF Quantity
<1>6. TradeSum(t) \in Nat
  BY <1>2, <1>5, TotalType DEF TradeSum
<1> QED BY <1>2, <1>3, <1>5, <1>6

\* One more trade adds its quantity.
LEMMA TradeSumAppend ==
    ASSUME NEW t \in Seq(Trade), NEW m \in Trade
    PROVE  TradeSum(Append(t, m)) = m.quantity + TradeSum(t)
<1> DEFINE n == Len(t) + 1
           u == Append(t, m)
<1>1. u \in Seq(Trade) /\ DOMAIN u = DOMAIN t \cup {n} /\ n \notin DOMAIN t
      /\ u[n] = m /\ \A k \in DOMAIN t : u[k] = t[k]
  OBVIOUS
<1> HIDE DEF u, n
<1>2. /\ IsFiniteSet(DOMAIN t)
      /\ \A k \in DOMAIN t : TradeAmounts(t)[k] \in Nat /\ TradeAmounts(t)[k] = t[k].quantity
  BY TradeQuantities
<1>3. \A k \in DOMAIN u : TradeAmounts(u)[k] = u[k].quantity /\ TradeAmounts(u)[k] \in Nat
  BY <1>1, TradeQuantities
<1>4. TradeAmounts(u)[n] = m.quantity /\ TradeAmounts(u)[n] \in Nat
  BY <1>1, <1>3
<1>5. \A k \in DOMAIN t : TradeAmounts(u)[k] = TradeAmounts(t)[k]
  BY <1>1, <1>2, <1>3
<1>6. Total(TradeAmounts(u), DOMAIN t \cup {n}) = TradeAmounts(u)[n] + Total(TradeAmounts(t), DOMAIN t)
  BY <1>1, <1>2, <1>4, <1>5, TotalWith
<1>7. TradeSum(u) = m.quantity + TradeSum(t)
  BY <1>1, <1>4, <1>6 DEF TradeSum
<1> QED BY <1>7 DEF u

\* The volume is what has traded and what the replay is going to trade.
LEMMA VolumeIs ==
    ASSUME NEW t \in Seq(Trade), NEW ms \in Seq(FokMatch)
    PROVE  VolumeOf(t, ms) = TradeSum(t) + MatchSum(ms)
<1>1. DOMAIN TradeAmounts(t) = DOMAIN t /\ DOMAIN Amounts(ms) = DOMAIN ms
  BY DEF TradeAmounts, Amounts
<1>2. IsFiniteSet(DOMAIN TradeAmounts(t)) /\ IsFiniteSet(DOMAIN Amounts(ms))
  BY <1>1, TradeQuantities, MatchAmounts
<1>3. SumFunction(TradeAmounts(t)) = TradeSum(t)
  BY <1>1, <1>2, SumIsTotal DEF TradeSum
<1>4. SumFunction(Amounts(ms)) = MatchSum(ms)
  BY <1>1, <1>2, SumIsTotal DEF MatchSum
<1> QED BY <1>3, <1>4 DEF VolumeOf, TradeAmounts, Amounts

\* Nothing has traded and nothing is going to.
LEMMA NoVolume ==
    TradeSum(<<>>) = 0 /\ MatchSum(<<>>) = 0 /\ VolumeOf(<<>>, <<>>) = 0
<1>1. <<>> \in Seq(Trade) /\ <<>> \in Seq(FokMatch) /\ DOMAIN <<>> = {}
  OBVIOUS
<1>2. TradeSum(<<>>) = 0 /\ MatchSum(<<>>) = 0
  BY <1>1, TotalEmpty DEF TradeSum, MatchSum
<1>3. VolumeOf(<<>>, <<>>) = TradeSum(<<>>) + MatchSum(<<>>)
  BY <1>1, VolumeIs
<1> QED BY <1>2, <1>3

-----------------------------------------------------------------------------
(* Steps with no replay in progress.                                        *)

\* The mapping while nothing is pending.
LEMMA PlainMapping ==
    ASSUME NEW r, GoodBook(book, r), Pending = <<>>
    PROVE  /\ AbstractOrders = OrdersOf(book, <<>>) /\ AbstractBefore = BeforeOf(book, <<>>)
           /\ AbstractOrders = [id \in DOMAIN book.orderMap |-> OrderIn(book, id)]
           /\ PriceTime!Ids = DOMAIN book.orderMap
           /\ \A x, y : <<x, y>> \in AbstractBefore <=>
                  /\ x \in DOMAIN book.orderMap /\ y \in DOMAIN book.orderMap
                  /\ <<book.orderMap[x], book.orderMap[y]>> \in book.older
<1>1. AbstractOrders = OrdersOf(book, <<>>) /\ AbstractBefore = BeforeOf(book, <<>>)
  BY DEF AbstractOrders, AbstractBefore
<1>2. AbstractOrders = [id \in DOMAIN book.orderMap |-> OrderIn(book, id)]
  BY <1>1, PlainOrders
<1>3. \A x, y : <<x, y>> \in AbstractBefore <=>
         /\ x \in DOMAIN book.orderMap /\ y \in DOMAIN book.orderMap
         /\ <<book.orderMap[x], book.orderMap[y]>> \in book.older
  BY <1>1, PlainOrders
<1> QED BY <1>1, <1>2, <1>3 DEF PriceTime!Ids

\* Orders leave and quantities change.
LEMMA ShrunkStep ==
    ASSUME NEW r, GoodBook(book, r), Pending = <<>>, NEW s, GoodBook(book', s), Pending' = <<>>,
           NEW gone, Shrunk(book, book', gone),
           NEW ids, ids = {id \in DOMAIN book.orderMap : book.orderMap[id] \notin gone}
    PROVE  /\ AbstractOrders' = Kept(AbstractOrders, ids, book, book')
           /\ AbstractBefore' = KeptPairs(AbstractBefore, ids)
<1>1. AbstractOrders = OrdersOf(book, <<>>) /\ AbstractBefore = BeforeOf(book, <<>>)
  BY DEF AbstractOrders, AbstractBefore
<1>2. AbstractOrders' = OrdersOf(book', <<>>) /\ AbstractBefore' = BeforeOf(book', <<>>)
  BY DEF AbstractOrders, AbstractBefore
<1> QED BY <1>1, <1>2, ShrunkOrders

\* A quantity that does not change.
LEMMA SameAmount ==
    ASSUME NEW r, GoodBook(book, r), Pending = <<>>, NEW changed, SameQuantity(book, book', changed),
           NEW id \in DOMAIN book.orderMap, book.orderMap[id] \notin changed
    PROVE  /\ book'.pool[book.orderMap[id]].quantity = AbstractOrders[id].quantity
           /\ AbstractOrders[id].quantity \in Nat
<1>1. AbstractOrders[id] = OrderIn(book, id)
  BY PlainMapping
<1>2. book.orderMap[id] \in Idx /\ book.pool[book.orderMap[id]].quantity \in Nat
  BY IdAtRest
<1> QED BY <1>1, <1>2 DEF OrderIn, SameQuantity

\* One order leaves.
LEMMA LeaveStep ==
    ASSUME NEW r, GoodBook(book, r), Pending = <<>>, NEW s, GoodBook(book', s), Pending' = <<>>,
           NEW id \in DOMAIN book.orderMap, NEW i, i = book.orderMap[id],
           Shrunk(book, book', {i}), SameQuantity(book, book', {i}), AbstractVolume' = 0
    PROVE  PriceTime!Leave(id)
<1> DEFINE ids == {k \in DOMAIN book.orderMap : book.orderMap[k] \notin {i}}
<1>1. \A k \in DOMAIN book.orderMap : book.pool[book.orderMap[k]].orderId = k
  BY IdAtRest
<1>2. ids = PriceTime!Ids \ {id}
  BY <1>1, PlainMapping
<1>3. /\ AbstractOrders' = Kept(AbstractOrders, ids, book, book')
      /\ AbstractBefore' = KeptPairs(AbstractBefore, ids)
  BY ShrunkStep
<1>4. \A k \in ids : book'.pool[book.orderMap[k]].quantity = AbstractOrders[k].quantity
  BY SameAmount
<1> HIDE DEF ids
<1>5. AbstractOrders' = [k \in ids |-> [AbstractOrders[k] EXCEPT
                             !.quantity = AbstractOrders[k].quantity]]
  BY <1>3, <1>4 DEF Kept
<1> QED BY <1>2, <1>3, <1>5, Zenon DEF PriceTime!Leave, PriceTime!Keep, KeptPairs

\* One quantity changes.
LEMMA ResizeStep ==
    ASSUME NEW r, GoodBook(book, r), Pending = <<>>, NEW s, GoodBook(book', s), Pending' = <<>>,
           NEW id \in DOMAIN book.orderMap, NEW i, i = book.orderMap[id],
           Shrunk(book, book', {}), SameQuantity(book, book', {i}), AbstractVolume' = 0,
           NEW qty, book'.pool[i].quantity = qty
    PROVE  PriceTime!Resize(id, qty)
<1> DEFINE ids == {k \in DOMAIN book.orderMap : book.orderMap[k] \notin {}}
<1>1. \A k \in DOMAIN book.orderMap : book.pool[book.orderMap[k]].orderId = k
  BY IdAtRest
<1>2. ids = PriceTime!Ids
  BY PlainMapping
<1>3. /\ AbstractOrders' = Kept(AbstractOrders, ids, book, book')
      /\ AbstractBefore' = KeptPairs(AbstractBefore, ids)
  BY ShrunkStep
<1>4. \A k \in ids : book'.pool[book.orderMap[k]].quantity =
                        IF k = id THEN qty ELSE AbstractOrders[k].quantity
  <2> SUFFICES ASSUME NEW k \in DOMAIN book.orderMap, k # id
               PROVE  book'.pool[book.orderMap[k]].quantity = AbstractOrders[k].quantity
    OBVIOUS
  <2>1. book.orderMap[k] \notin {i}
    BY <1>1
  <2> QED BY <2>1, SameAmount
<1> HIDE DEF ids
<1>5. AbstractOrders' = [k \in ids |-> [AbstractOrders[k] EXCEPT
                             !.quantity = IF k = id THEN qty ELSE AbstractOrders[k].quantity]]
  BY <1>3, <1>4 DEF Kept
<1> QED BY <1>2, <1>3, <1>5, Zenon DEF PriceTime!Resize, PriceTime!Keep, KeptPairs

\* No order at rest changes, comes or leaves.
LEMMA StillStep ==
    ASSUME NEW r, GoodBook(book, r), Pending = <<>>, NEW s, GoodBook(book', s), Pending' = <<>>,
           NEW gone, gone \cap Live(book) = {}, Shrunk(book, book', gone),
           SameQuantity(book, book', gone)
    PROVE  AbstractOrders' = AbstractOrders /\ AbstractBefore' = AbstractBefore
<1> DEFINE ids == {k \in DOMAIN book.orderMap : book.orderMap[k] \notin gone}
           D == DOMAIN book.orderMap
<1>1. \A k \in D : book.orderMap[k] \notin gone
  BY DEF Live
<1>2. ids = D
  BY <1>1
<1>3. /\ AbstractOrders' = Kept(AbstractOrders, ids, book, book')
      /\ AbstractBefore' = KeptPairs(AbstractBefore, ids)
  BY ShrunkStep
<1>4. \A k \in D : book'.pool[book.orderMap[k]].quantity = AbstractOrders[k].quantity
  BY <1>1, SameAmount
<1> HIDE DEF ids
<1>5. AbstractOrders = [k \in D |-> OrderIn(book, k)]
  BY PlainMapping
<1>6. \A k \in D : [AbstractOrders[k] EXCEPT
                       !.quantity = book'.pool[book.orderMap[k]].quantity] = AbstractOrders[k]
  BY <1>4, <1>5 DEF OrderIn
<1>7. AbstractOrders' = AbstractOrders
  BY <1>2, <1>3, <1>5, <1>6 DEF Kept
<1>8. \A pair \in AbstractBefore : pair[1] \in D /\ pair[2] \in D
  <2>1. AbstractBefore = BeforeOf(book, <<>>)
    BY PlainMapping
  <2>2. \A pair \in AbstractBefore : pair = <<pair[1], pair[2]>>
    BY <2>1, PlainOrders
  <2> QED BY <2>2, PlainMapping
<1>9. \A pair \in AbstractBefore : {pair[1], pair[2]} \subseteq ids
  BY <1>2, <1>8
<1>10. AbstractBefore' = AbstractBefore
  BY <1>3, <1>9, Zenon DEF KeptPairs
<1> QED BY <1>7, <1>10

\* An order comes.
LEMMA EnterStep ==
    ASSUME NEW r, GoodBook(book, r), Pending = <<>>, NEW s, GoodBook(book', s), Pending' = <<>>,
           NEW i, Grown(book, book', i), AbstractVolume' = 0
    PROVE  \E id \in OrderId : PriceTime!Enter(id)
<1>1. PICK id, O, P : /\ id = book'.pool[i].orderId
                      /\ O = OrdersOf(book, <<>>) /\ P = OrdersOf(book', <<>>)
  OBVIOUS
<1>2. /\ O = AbstractOrders /\ AbstractBefore = BeforeOf(book, <<>>)
      /\ P = AbstractOrders' /\ AbstractBefore' = BeforeOf(book', <<>>)
  BY <1>1 DEF AbstractOrders, AbstractBefore
<1>3. /\ id \in OrderId \ DOMAIN O
      /\ \A k : k \in DOMAIN P <=> k \in DOMAIN O \/ k = id
      /\ P[id] = OrderIn(book', id) /\ book'.orderMap[id] = i
      /\ \A k \in DOMAIN O : P[k] = O[k]
      /\ BeforeOf(book', <<>>) = BeforeOf(book, <<>>) \cup LastPairs(O, P, id)
  BY <1>1, GrownOrders
<1>4. P[id] \in PriceTime!Order
  BY <1>3 DEF Grown, PoolOrder, OrderIn, PriceTime!Order, Side, PriceTime!Price, PriceTime!Quantity, Price, Quantity
<1>5. LastPairs(O, P, id) = {<<k, id>> : k \in {k \in DOMAIN O : PriceTime!SameQueue(O[k], P[id])}}
  BY Zenon DEF LastPairs, PriceTime!SameQueue
<1>6. DOMAIN P = DOMAIN O \cup {id}
  BY <1>3
<1>7. PriceTime!Enter(id)
  BY <1>2, <1>3, <1>4, <1>5, <1>6, Zenon DEF PriceTime!Enter, PriceTime!Ids
<1> QED BY <1>3, <1>7

-----------------------------------------------------------------------------
(* MatchOrders.                                                             *)

\* id is the first order of its side, in the slot h at the price p.
FrontOrder(id, side, p, h) ==
    /\ id \in PriceTime!Ids /\ book.orderMap[id] = h
    /\ AbstractOrders[id].side = side /\ AbstractOrders[id].price = p
    /\ AbstractOrders[id].quantity = book.pool[h].quantity
    /\ PriceTime!First(id)

\* The order at the head of the best level is the first of its side.
LEMMA HeadIsFirst ==
    ASSUME NEW r, GoodBook(book, r), Pending = <<>>, NEW side \in Side,
           NEW p, IsBest(side, p, DOMAIN book.levels[side]),
           NEW h, h = book.levels[side][p].head, NEW id, id = book.pool[h].orderId
    PROVE  FrontOrder(id, side, p, h)
<1>1. p \in DOMAIN book.levels[side] /\ \A k \in DOMAIN book.levels[side] : ~Better(side, k, p)
  BY DEF IsBest
<1>2. /\ h \in Live(book) /\ book.pool[h].side = side /\ book.pool[h].price = p
      /\ \A j \in Live(book) : <<j, h>> \notin book.older
  BY <1>1, HeadIsOldest
<1>3. id \in DOMAIN book.orderMap /\ book.orderMap[id] = h
  BY <1>2, LiveSlot
<1>4. /\ AbstractOrders = [k \in DOMAIN book.orderMap |-> OrderIn(book, k)]
      /\ PriceTime!Ids = DOMAIN book.orderMap
      /\ \A k, m : <<k, m>> \in AbstractBefore <=>
            /\ k \in DOMAIN book.orderMap /\ m \in DOMAIN book.orderMap
            /\ <<book.orderMap[k], book.orderMap[m]>> \in book.older
  BY PlainMapping
<1>5. /\ AbstractOrders[id].side = side /\ AbstractOrders[id].price = p
      /\ AbstractOrders[id].quantity = book.pool[h].quantity
  BY <1>2, <1>3, <1>4 DEF OrderIn
<1>6. ASSUME NEW k \in DOMAIN book.orderMap
      PROVE  ~PriceTime!Precedes(k, id)
  <2>1. book.orderMap[k] \in Live(book) /\ AbstractOrders[k] = OrderIn(book, k)
    BY <1>4 DEF Live
  <2>2. <<k, id>> \notin AbstractBefore
    BY <1>2, <1>3, <1>4, <2>1
  <2>3. AbstractOrders[k].side = side => ~Better(side, AbstractOrders[k].price, p)
    <3>1. book.pool[book.orderMap[k]].price \in DOMAIN book.levels[book.pool[book.orderMap[k]].side]
      BY <2>1, LiveSlot
    <3> QED BY <1>1, <2>1, <3>1 DEF OrderIn
  <2> QED BY <1>5, <2>2, <2>3 DEF PriceTime!Precedes, Better
<1> QED BY <1>3, <1>4, <1>5, <1>6 DEF PriceTime!First, FrontOrder

\* With nothing pending the volume is that of the trades so far.
LEMMA PlainVolume ==
    ASSUME NEW t \in Seq(Trade)
    PROVE  VolumeOf(t, <<>>) = TradeSum(t) /\ TradeSum(t) \in Nat
<1>1. <<>> \in Seq(FokMatch)
  OBVIOUS
<1>2. VolumeOf(t, <<>>) = TradeSum(t) + MatchSum(<<>>)
  BY <1>1, VolumeIs
<1>3. MatchSum(<<>>) = 0 /\ TradeSum(t) \in Nat
  BY NoVolume, TradeQuantities
<1> QED BY <1>2, <1>3

\* A trade of MatchOrders is a trade of the first bid and the first ask.
LEMMA MatchIsTrade ==
    ASSUME IInv, MatchStep
    PROVE  \E bid, ask \in PriceTime!Ids : PriceTime!Trade(bid, ask)
<1>1. PICK bp, ap, x, y, q : MatchEffect(bp, ap, x, y, q)
  BY MatchStepEffect
<1>2. IInv'
  BY MatchStepKeeps
<1>3. call.pc = "match" /\ call'.pc = "match"
  BY <1>1 DEF MatchStep, MatchEffect
<1>4. GoodBook(book, {}) /\ GoodBook(book', {})
  BY <1>2, <1>3, PlainState DEF IInv
<1>5. Pending = <<>> /\ Pending' = <<>>
  BY <1>3 DEF Pending
<1> DEFINE bid == book.pool[x].orderId
           ask == book.pool[y].orderId
           D   == DOMAIN book.orderMap
           gone == Spent(book, x, q) \cup Spent(book, y, q)
           ids  == {k \in D : book.orderMap[k] \notin gone}
           left(k) == AbstractOrders[k].quantity - IF k \in {bid, ask} THEN q ELSE 0
<1>6. /\ bid \in PriceTime!Ids /\ book.orderMap[bid] = x /\ PriceTime!First(bid)
      /\ AbstractOrders[bid].side = "Buy" /\ AbstractOrders[bid].price = bp
      /\ AbstractOrders[bid].quantity = book.pool[x].quantity
  <2>1. IsBest("Buy", bp, DOMAIN book.levels["Buy"]) /\ x = book.levels["Buy"][bp].head
    BY <1>1 DEF MatchEffect, CanTrade, BidPrices
  <2>2. "Buy" \in Side /\ bid = book.pool[x].orderId
    BY DEF Side
  <2> HIDE DEF bid
  <2>3. FrontOrder(bid, "Buy", bp, x)
    BY <1>4, <1>5, <2>1, <2>2, HeadIsFirst
  <2> QED BY <2>3 DEF FrontOrder
<1>7. /\ ask \in PriceTime!Ids /\ book.orderMap[ask] = y /\ PriceTime!First(ask)
      /\ AbstractOrders[ask].side = "Sell" /\ AbstractOrders[ask].price = ap
      /\ AbstractOrders[ask].quantity = book.pool[y].quantity
  <2>1. IsBest("Sell", ap, DOMAIN book.levels["Sell"]) /\ y = book.levels["Sell"][ap].head
    BY <1>1 DEF MatchEffect, CanTrade, AskPrices
  <2>2. "Sell" \in Side /\ ask = book.pool[y].orderId
    BY DEF Side
  <2> HIDE DEF ask
  <2>3. FrontOrder(ask, "Sell", ap, y)
    BY <1>4, <1>5, <2>1, <2>2, HeadIsFirst
  <2> QED BY <2>3 DEF FrontOrder
<1>8. PriceTime!Ids = D
  BY <1>4, <1>5, PlainMapping
<1>9. \A k \in D : book.pool[book.orderMap[k]].orderId = k /\ book.orderMap[k] \in Idx
  BY <1>4, IdAtRest
<1>10. ids = PriceTime!Ids \ {k \in {bid, ask} : q = AbstractOrders[k].quantity}
  BY <1>6, <1>7, <1>8, <1>9 DEF Spent
<1>11. /\ AbstractOrders' = Kept(AbstractOrders, ids, book, book')
       /\ AbstractBefore' = KeptPairs(AbstractBefore, ids)
  BY <1>1, <1>4, <1>5, ShrunkStep DEF MatchEffect
<1>12. \A k \in ids : book'.pool[book.orderMap[k]].quantity = left(k)
  <2> SUFFICES ASSUME NEW k \in ids
               PROVE  book'.pool[book.orderMap[k]].quantity = left(k)
    OBVIOUS
  <2>1. CASE k = bid
    <3>1. AbstractOrders[bid].quantity # q
      BY <1>10, <2>1
    <3>2. AbstractOrders[bid].quantity = book.pool[x].quantity
      BY <1>6
    <3>3. book'.pool[x].quantity = book.pool[x].quantity - q
      BY <1>1, <3>1, <3>2 DEF MatchEffect
    <3> QED BY <1>6, <2>1, <3>2, <3>3
  <2>2. CASE k = ask
    <3>1. AbstractOrders[ask].quantity # q
      BY <1>10, <2>2
    <3>2. AbstractOrders[ask].quantity = book.pool[y].quantity
      BY <1>7
    <3>3. book'.pool[y].quantity = book.pool[y].quantity - q
      BY <1>1, <3>1, <3>2 DEF MatchEffect
    <3> QED BY <1>7, <2>2, <3>2, <3>3
  <2>3. CASE k \notin {bid, ask}
    <3>1. book.orderMap[k] \notin {x, y}
      BY <1>9, <2>3
    <3>2. /\ book'.pool[book.orderMap[k]].quantity = AbstractOrders[k].quantity
          /\ AbstractOrders[k].quantity \in Nat
      BY <1>1, <1>4, <1>5, <3>1, SameAmount DEF MatchEffect
    <3> QED BY <2>3, <3>2
  <2> QED BY <2>1, <2>2, <2>3
<1>13. AbstractVolume' = AbstractVolume + q
  <2> DEFINE t == [ bidOrderId |-> bid, askOrderId |-> ask,
                    price |-> TradePrice(call.side, bp, ap), quantity |-> q ]
  <2>1. call \in MatchFrame /\ call' \in MatchFrame
    BY <1>2, <1>3, FrameByPc DEF IInv, StateOK
  <2>2. call.trades \in Seq(Trade) /\ call'.trades \in Seq(Trade)
    BY <2>1 DEF MatchFrame
  <2>3. call'.trades = Append(call.trades, t)
    BY <1>1 DEF MatchEffect
  <2>4. t \in Trade
    <3> HIDE DEF t
    <3>1. Append(call.trades, t)[Len(call.trades) + 1] = t
          /\ Len(call.trades) + 1 \in DOMAIN Append(call.trades, t)
      BY <2>2
    <3> QED BY <2>2, <2>3, <3>1
  <2>5. TradeSum(call'.trades) = q + TradeSum(call.trades)
    BY <2>2, <2>3, <2>4, TradeSumAppend
  <2>6. TradesSoFar = call.trades /\ TradesSoFar' = call'.trades
    BY <1>3 DEF TradesSoFar
  <2>7. /\ AbstractVolume = TradeSum(call.trades) /\ TradeSum(call.trades) \in Nat
        /\ AbstractVolume' = TradeSum(call'.trades)
    BY <1>5, <2>2, <2>6, PlainVolume DEF AbstractVolume
  <2>8. q \in Nat
    BY <2>4, NumericAssumption DEF Trade, Quantity
  <2> QED BY <2>5, <2>7, <2>8
<1>14. /\ q = IF AbstractOrders[bid].quantity < AbstractOrders[ask].quantity
               THEN AbstractOrders[bid].quantity ELSE AbstractOrders[ask].quantity
       /\ AbstractOrders[bid].side = "Buy" /\ AbstractOrders[ask].side = "Sell"
       /\ AbstractOrders[bid].price >= AbstractOrders[ask].price
       /\ ~(AbstractOrders[bid].price = INT_MAX /\ AbstractOrders[ask].price = INT_MIN)
  <2>1. CanTrade(bp, ap) /\ q = MinOf(book.pool[x].quantity, book.pool[y].quantity)
    BY <1>1 DEF MatchEffect
  <2> HIDE DEF bid, ask
  <2> QED BY <1>6, <1>7, <2>1 DEF MinOf, CanTrade
<1>15. AbstractOrders' = [k \in ids |-> [AbstractOrders[k] EXCEPT !.quantity = left(k)]]
  <2> HIDE DEF ids, left
  <2> QED BY <1>11, <1>12 DEF Kept
<1> HIDE DEF ids
<1>16. PriceTime!Take({bid, ask}, LAMBDA k : q)
  BY <1>10, <1>11, <1>15, Zenon DEF PriceTime!Take, PriceTime!Keep, KeptPairs
<1>17. PriceTime!Trade(bid, ask)
  <2> HIDE DEF bid, ask
  <2>1. /\ AbstractOrders[bid].side = "Buy" /\ AbstractOrders[ask].side = "Sell"
        /\ PriceTime!First(bid) /\ PriceTime!First(ask)
        /\ AbstractOrders[bid].price >= AbstractOrders[ask].price
        /\ ~(AbstractOrders[bid].price = INT_MAX /\ AbstractOrders[ask].price = INT_MIN)
    BY <1>6, <1>7, <1>14
  <2> DEFINE qty == IF AbstractOrders[bid].quantity < AbstractOrders[ask].quantity
                    THEN AbstractOrders[bid].quantity ELSE AbstractOrders[ask].quantity
  <2>2. q = qty
    BY <1>14
  <2> HIDE DEF qty
  <2>3. PriceTime!Take({bid, ask}, LAMBDA k : qty) /\ AbstractVolume' = AbstractVolume + qty
    BY <1>13, <1>16, <2>2
  <2> QED BY <2>1, <2>3 DEF PriceTime!Trade, qty
<1> QED BY <1>6, <1>7, <1>17

-----------------------------------------------------------------------------
(* The replay of ExecuteFOK.                                                *)

\* No two matches are with one order.
Distinct(ms) == \A k, l \in DOMAIN ms : ms[k].idx = ms[l].idx => k = l

\* A match takes qty from the order in slot i.
Takes(ms, i, qty) == \E k \in DOMAIN ms : ms[k].idx = i /\ ms[k].qty = qty

\* rest is ms without its first match.
Shifted(ms, rest) ==
    /\ 1 \in DOMAIN ms /\ Len(rest) = Len(ms) - 1
    /\ \A k \in DOMAIN rest : k \in Nat /\ k + 1 \in DOMAIN ms /\ rest[k] = ms[k + 1]

\* What distinct matches take from an order, and whether that is all of it.
LEMMA DueIs ==
    ASSUME NEW ms \in Seq(FokMatch), Distinct(ms), NEW i
    PROVE  /\ \A k \in DOMAIN ms : ms[k].idx = i => Due(ms, i) = ms[k].qty
           /\ (\A k \in DOMAIN ms : ms[k].idx # i) => Due(ms, i) = 0
           /\ \A b : Doomed(b, ms, i) <=> Takes(ms, i, b.pool[i].quantity)
<1> DEFINE at == {k \in DOMAIN ms : ms[k].idx = i}
<1>1. ASSUME NEW k \in DOMAIN ms, ms[k].idx = i
      PROVE  Due(ms, i) = ms[k].qty
  <2>1. at # {}
    BY <1>1
  <2>2. (CHOOSE l \in at : TRUE) \in at
    BY <2>1
  <2>3. (CHOOSE l \in at : TRUE) = k
    BY <1>1, <2>2 DEF Distinct
  <2> QED BY <2>1, <2>3 DEF Due
<1>2. ASSUME \A k \in DOMAIN ms : ms[k].idx # i
      PROVE  Due(ms, i) = 0
  <2>1. at = {}
    BY <1>2
  <2> QED BY <2>1 DEF Due
<1>3. ASSUME NEW b
      PROVE  Doomed(b, ms, i) <=> Takes(ms, i, b.pool[i].quantity)
  <2>1. \A k \in DOMAIN ms : ms[k] = [idx |-> ms[k].idx, qty |-> ms[k].qty]
    <3>1. \A k \in DOMAIN ms : ms[k] \in FokMatch
      OBVIOUS
    <3> QED BY <3>1 DEF FokMatch
  <2> QED BY <2>1 DEF Doomed, Takes
<1> QED BY <1>1, <1>2, <1>3

\* A match that is replayed leaves the book where the abstract book is.
LEMMA ReplayOrders ==
    ASSUME NEW b, NEW r, GoodBook(b, r), NEW u, NEW s, GoodBook(u, s),
           NEW ms \in Seq(FokMatch), Distinct(ms), NEW rest \in Seq(FokMatch),
           Shifted(ms, rest), NEW i, i = ms[1].idx, NEW q, q = ms[1].qty,
           Shrunk(b, u, Spent(b, i, q)), NEW c, SameQuantity(b, u, {i, c}), c \notin Live(b),
           b.pool[i].quantity # q => u.pool[i].quantity = b.pool[i].quantity - q
    PROVE  OrdersOf(u, rest) = OrdersOf(b, ms) /\ BeforeOf(u, rest) = BeforeOf(b, ms)
<1>1. \A id : id \in DOMAIN u.orderMap <=>
                  id \in DOMAIN b.orderMap /\ b.orderMap[id] \notin Spent(b, i, q)
  BY ShrunkIds
<1>2. \A id \in DOMAIN b.orderMap :
         /\ b.orderMap[id] \in Live(b) /\ b.orderMap[id] \in Idx
         /\ b.pool[b.orderMap[id]].quantity \in Nat
  BY IdAtRest
<1>3. ASSUME NEW id \in DOMAIN u.orderMap
      PROVE  /\ id \in DOMAIN b.orderMap /\ u.orderMap[id] = b.orderMap[id]
             /\ u.orderMap[id] \in Live(u)
             /\ u.pool[u.orderMap[id]].side = b.pool[b.orderMap[id]].side
             /\ u.pool[u.orderMap[id]].price = b.pool[b.orderMap[id]].price
             /\ u.orderMap[id] # i =>
                    u.pool[u.orderMap[id]].quantity = b.pool[b.orderMap[id]].quantity
             /\ u.pool[u.orderMap[id]].quantity \in Nat
  <2>1. /\ id \in DOMAIN b.orderMap /\ u.orderMap[id] = b.orderMap[id]
        /\ b.orderMap[id] \in Idx \ Spent(b, i, q) /\ b.orderMap[id] # c
    BY <1>1, <1>2 DEF Shrunk
  <2>2. u.orderMap[id] \in Live(u) /\ u.pool[u.orderMap[id]].quantity \in Nat
    BY IdAtRest
  <2> QED BY <2>1, <2>2 DEF Shrunk, SameQuantity
<1>4. \A j, n : Takes(rest, j, n) <=> j # i /\ Takes(ms, j, n)
  <2>1. ASSUME NEW k \in DOMAIN rest
        PROVE  /\ k + 1 \in DOMAIN ms /\ rest[k] = ms[k + 1] /\ rest[k].idx # i
    <3>1. k \in Nat /\ k + 1 \in DOMAIN ms /\ k + 1 # 1 /\ rest[k] = ms[k + 1]
      BY DEF Shifted
    <3> QED BY <3>1 DEF Distinct, Shifted
  <2>2. ASSUME NEW k \in DOMAIN ms, ms[k].idx # i
        PROVE  \E l \in DOMAIN rest : rest[l] = ms[k]
    <3>1. k \in 1 .. Len(ms) /\ k # 1 /\ Len(ms) \in Nat /\ Len(rest) \in Nat
          /\ DOMAIN rest = 1 .. Len(rest)
      BY <2>2
    <3>2. k - 1 \in DOMAIN rest /\ (k - 1) + 1 = k
      BY <3>1 DEF Shifted
    <3> QED BY <3>2 DEF Shifted
  <2> QED BY <2>1, <2>2 DEF Takes
<1>5. Distinct(rest)
  <2> SUFFICES ASSUME NEW k \in DOMAIN rest, NEW l \in DOMAIN rest, rest[k].idx = rest[l].idx
               PROVE  k = l
    BY DEF Distinct
  <2>1. k + 1 = l + 1 /\ k \in Nat /\ l \in Nat
    BY DEF Distinct, Shifted
  <2> QED BY <2>1
<1>6. \A j : j # i => Due(rest, j) = Due(ms, j)
  <2> SUFFICES ASSUME NEW j, j # i
               PROVE  Due(rest, j) = Due(ms, j)
    OBVIOUS
  <2>1. CASE \E k \in DOMAIN ms : ms[k].idx = j
    <3>1. PICK k \in DOMAIN ms : ms[k].idx = j
      BY <2>1
    <3>2. Takes(rest, j, ms[k].qty)
      BY <1>4, <3>1 DEF Takes
    <3>3. PICK l \in DOMAIN rest : rest[l].idx = j /\ rest[l].qty = ms[k].qty
      BY <3>2 DEF Takes
    <3>4. Due(ms, j) = ms[k].qty
      BY <3>1, DueIs
    <3>5. Due(rest, j) = rest[l].qty
      BY <1>5, <3>3, DueIs
    <3> QED BY <3>3, <3>4, <3>5
  <2>2. CASE \A k \in DOMAIN ms : ms[k].idx # j
    <3>1. ASSUME NEW k \in DOMAIN rest
          PROVE  rest[k].idx # j
      <4>1. rest[k].idx = j => Takes(rest, j, rest[k].qty)
        BY DEF Takes
      <4>2. ~Takes(ms, j, rest[k].qty)
        BY <2>2 DEF Takes
      <4> QED BY <1>4, <4>1, <4>2
    <3>2. Due(ms, j) = 0
      BY <2>2, DueIs
    <3>3. Due(rest, j) = 0
      BY <1>5, <3>1, DueIs
    <3> QED BY <3>2, <3>3
  <2> QED BY <2>1, <2>2
<1>7. Due(ms, i) = q /\ Due(rest, i) = 0
  <2>1. \A k \in DOMAIN rest : rest[k].idx # i
    BY <1>4 DEF Takes
  <2>2. Due(ms, i) = q
    BY DueIs DEF Shifted
  <2>3. Due(rest, i) = 0
    BY <1>5, <2>1, DueIs
  <2> QED BY <2>2, <2>3
<1>8. ASSUME NEW id
      PROVE  id \in Remaining(u, rest) <=> id \in Remaining(b, ms)
  <2> DEFINE j == b.orderMap[id]
  <2>1. \A n, v : Doomed(v, ms, n) <=> Takes(ms, n, v.pool[n].quantity)
    BY DueIs
  <2>2. \A n, v : Doomed(v, rest, n) <=> Takes(rest, n, v.pool[n].quantity)
    BY <1>5, DueIs
  <2>3. CASE id \in DOMAIN b.orderMap /\ j = i
    <3>1. Doomed(b, ms, i) <=> b.pool[i].quantity = q
      BY <2>1 DEF Distinct, Takes, Shifted
    <3>2. ~Doomed(u, rest, i)
      BY <1>4, <2>2
    <3>3. id \in DOMAIN u.orderMap <=> b.pool[i].quantity # q
      BY <1>1, <2>3 DEF Spent
    <3>4. id \in DOMAIN u.orderMap => u.orderMap[id] = i
      BY <1>3, <2>3
    <3> QED BY <2>3, <3>1, <3>2, <3>3, <3>4 DEF Remaining
  <2>4. CASE id \in DOMAIN b.orderMap /\ j # i
    <3>1. id \in DOMAIN u.orderMap
      BY <1>1, <2>4 DEF Spent
    <3>2. u.orderMap[id] = j /\ u.pool[j].quantity = b.pool[j].quantity
      BY <1>3, <2>4, <3>1
    <3>3. Doomed(b, ms, j) <=> Doomed(u, rest, j)
      BY <1>4, <2>1, <2>2, <2>4, <3>2
    <3> QED BY <2>4, <3>1, <3>2, <3>3 DEF Remaining
  <2>5. CASE id \notin DOMAIN b.orderMap
    BY <1>1, <2>5 DEF Remaining
  <2> QED BY <2>3, <2>4, <2>5
<1>9. Remaining(u, rest) = Remaining(b, ms)
  BY <1>8
<1>10. ASSUME NEW id \in Remaining(u, rest)
       PROVE  /\ id \in DOMAIN u.orderMap /\ u.orderMap[id] = b.orderMap[id]
              /\ u.pool[u.orderMap[id]].side = b.pool[b.orderMap[id]].side
              /\ u.pool[u.orderMap[id]].price = b.pool[b.orderMap[id]].price
              /\ u.pool[u.orderMap[id]].quantity - Due(rest, u.orderMap[id])
                    = b.pool[b.orderMap[id]].quantity - Due(ms, b.orderMap[id])
  <2>1. id \in DOMAIN u.orderMap
    BY DEF Remaining
  <2>2. CASE b.orderMap[id] = i
    <3>1. b.pool[i].quantity # q
      BY <1>1, <2>1, <2>2 DEF Spent
    <3>2. u.pool[i].quantity = b.pool[i].quantity - q /\ u.pool[i].quantity \in Nat
      BY <1>3, <2>1, <2>2, <3>1
    <3> QED BY <1>3, <1>7, <2>1, <2>2, <3>2
  <2>3. CASE b.orderMap[id] # i
    BY <1>3, <1>6, <2>1, <2>3
  <2> QED BY <2>2, <2>3
<1>11. OrdersOf(u, rest) = OrdersOf(b, ms)
  BY <1>9, <1>10 DEF OrdersOf
<1>12. \A x, y \in Remaining(u, rest) :
          <<u.orderMap[x], u.orderMap[y]>> \in u.older
             <=> <<b.orderMap[x], b.orderMap[y]>> \in b.older
  <2> SUFFICES ASSUME NEW x \in Remaining(u, rest), NEW y \in Remaining(u, rest)
               PROVE  <<u.orderMap[x], u.orderMap[y]>> \in u.older
                         <=> <<b.orderMap[x], b.orderMap[y]>> \in b.older
    OBVIOUS
  <2>1. /\ u.orderMap[x] = b.orderMap[x] /\ u.orderMap[x] \in Live(u)
        /\ u.orderMap[y] = b.orderMap[y] /\ u.orderMap[y] \in Live(u)
    BY <1>3, <1>10
  <2> QED BY <2>1 DEF Shrunk
<1>13. BeforeOf(u, rest) = BeforeOf(b, ms)
  <2> DEFINE R == Remaining(b, ms)
  <2>1. \A pair \in R \X R : pair[1] \in R /\ pair[2] \in R
    OBVIOUS
  <2>2. \A pair \in R \X R : <<u.orderMap[pair[1]], u.orderMap[pair[2]]>> \in u.older
                             <=> <<b.orderMap[pair[1]], b.orderMap[pair[2]]>> \in b.older
    BY <1>9, <1>12, <2>1
  <2> HIDE DEF R
  <2>3. {pair \in R \X R : <<u.orderMap[pair[1]], u.orderMap[pair[2]]>> \in u.older}
           = {pair \in R \X R : <<b.orderMap[pair[1]], b.orderMap[pair[2]]>> \in b.older}
    BY <2>2, Zenon
  <2> QED BY <1>9, <2>3, Zenon DEF BeforeOf, R
<1> QED BY <1>11, <1>13

\* A trade of ExecuteFOK changes nothing: the abstract book has it already.
LEMMA ReplayIsStill ==
    ASSUME IInv, ExecuteStep
    PROVE  AbstractOrders' = AbstractOrders /\ AbstractBefore' = AbstractBefore
           /\ AbstractVolume' = AbstractVolume
<1> DEFINE ms == call.matches  rest == call'.matches
<1>1. PICK i, q : ExecuteEffect(i, q)
  BY ExecuteStepEffect
<1>2. IInv'
  BY ExecuteStepKeeps
<1>3. call.pc = "execute" /\ call'.pc = "execute" /\ call'.idx = call.idx
  BY <1>1 DEF ExecuteStep, ExecuteEffect
<1>4. GoodBook(book, {call.idx}) /\ GoodBook(book', {call.idx})
  BY <1>2, <1>3 DEF IInv, StateOK, Reserved
<1>5. call \in ExecuteFrame /\ call' \in ExecuteFrame
  BY <1>2, <1>3, FrameByPc DEF IInv, StateOK
<1>6. /\ ms \in Seq(FokMatch) /\ rest \in Seq(FokMatch)
      /\ call.trades \in Seq(Trade) /\ call'.trades \in Seq(Trade)
  BY <1>5 DEF ExecuteFrame
<1>7. Distinct(ms)
  BY <1>3 DEF IInv, StateOK, Collected, Distinct
<1>8. Pending = ms /\ Pending' = rest /\ TradesSoFar = call.trades /\ TradesSoFar' = call'.trades
  BY <1>3 DEF Pending, TradesSoFar
<1>9. OrdersOf(book', rest) = OrdersOf(book, ms) /\ BeforeOf(book', rest) = BeforeOf(book, ms)
  <2>1. /\ Shifted(ms, rest) /\ i = ms[1].idx /\ q = ms[1].qty
        /\ Shrunk(book, book', Spent(book, i, q)) /\ SameQuantity(book, book', {i, call.idx})
        /\ call.idx \notin Live(book)
        /\ book.pool[i].quantity # q => book'.pool[i].quantity = book.pool[i].quantity - q
    BY <1>1 DEF ExecuteEffect, Shifted
  <2> HIDE DEF ms, rest
  <2> QED BY <1>4, <1>6, <1>7, <2>1, ReplayOrders
<1>10. VolumeOf(call'.trades, rest) = VolumeOf(call.trades, ms)
  <2> DEFINE t == [ bidOrderId |-> IF Aggressor.side = "Buy" THEN Aggressor.orderId
                                                            ELSE book.pool[i].orderId,
                    askOrderId |-> IF Aggressor.side = "Buy" THEN book.pool[i].orderId
                                                            ELSE Aggressor.orderId,
                    price |-> book.pool[i].price, quantity |-> q ]
  <2>1. rest = Tail(ms) /\ ms # <<>> /\ q = Head(ms).qty
    <3>1. ms # <<>> /\ rest = Tail(ms)
      BY <1>5 DEF ExecuteStep, ExecuteFrame
    <3>2. Head(ms) = ms[1]
      BY <1>6, <3>1
    <3> QED BY <1>1, <3>1, <3>2 DEF ExecuteEffect
  <2>2. call'.trades = Append(call.trades, t) /\ t.quantity = q
    BY <1>1 DEF ExecuteEffect
  <2> HIDE DEF t
  <2>3. t \in Trade
    <3>1. Append(call.trades, t)[Len(call.trades) + 1] = t
          /\ Len(call.trades) + 1 \in DOMAIN Append(call.trades, t)
      BY <1>6
    <3> QED BY <1>6, <2>2, <3>1
  <2>4. TradeSum(call'.trades) = q + TradeSum(call.trades)
    BY <1>6, <2>2, <2>3, TradeSumAppend
  <2>5. MatchSum(ms) = q + MatchSum(rest)
    BY <1>6, <2>1, MatchSumTail
  <2>6. VolumeOf(call'.trades, rest) = TradeSum(call'.trades) + MatchSum(rest)
    BY <1>6, VolumeIs
  <2>7. VolumeOf(call.trades, ms) = TradeSum(call.trades) + MatchSum(ms)
    BY <1>6, VolumeIs
  <2>8. TradeSum(call.trades) \in Nat /\ MatchSum(rest) \in Nat /\ q \in Nat
    <3>1. q \in Quantity
      BY <1>1 DEF ExecuteEffect
    <3>2. q \in Nat
      BY <3>1, NumericAssumption DEF Quantity
    <3> QED BY <1>6, <3>2, TradeQuantities, MatchAmounts
  <2> QED BY <2>4, <2>5, <2>6, <2>7, <2>8
<1> QED BY <1>8, <1>9, <1>10 DEF AbstractOrders, AbstractBefore, AbstractVolume

-----------------------------------------------------------------------------
(* CollectFOK has found enough.                                             *)

\* What f makes of the elements of S.
ImageOf(f, S) == {f[x] : x \in S}

\* A sum does not change when its terms get other names.
LEMMA TotalRenamed ==
    ASSUME NEW w, NEW v, NEW S, IsFiniteSet(S), NEW f,
           \A x, y \in S : f[x] = f[y] => x = y,
           \A x \in S : w[x] \in Nat /\ v[f[x]] = w[x]
    PROVE  IsFiniteSet(ImageOf(f, S)) /\ Total(v, ImageOf(f, S)) = Total(w, S)
<1> DEFINE Same(t) == IsFiniteSet(ImageOf(f, t)) /\ Total(v, ImageOf(f, t)) = Total(w, t)
           F == {t \in SUBSET S : ~Same(t)}
<1>1. ASSUME NEW t \in F, \A x \in t : t \ {x} \notin F
      PROVE  FALSE
  <2>1. t \subseteq S /\ ~Same(t) /\ IsFiniteSet(t)
    BY FS_Subset
  <2>2. CASE t = {}
    <3>1. ImageOf(f, t) = {}
      BY <2>2 DEF ImageOf
    <3>2. IsFiniteSet({})
      BY FS_EmptySet
    <3> QED BY <2>1, <2>2, <3>1, <3>2, TotalEmpty
  <2>3. CASE t # {}
    <3>1. PICK x : x \in t
      BY <2>3
    <3> DEFINE p == t \ {x}
    <3>2. p \subseteq S /\ Same(p)
      BY <1>1, <2>1, <3>1
    <3>3. IsFiniteSet(ImageOf(f, p)) /\ Total(v, ImageOf(f, p)) = Total(w, p)
      BY <3>2
    <3>4. /\ f[x] \in ImageOf(f, t) /\ f[x] \notin ImageOf(f, p)
          /\ ImageOf(f, t) = ImageOf(f, p) \cup {f[x]} /\ ImageOf(f, t) \ {f[x]} = ImageOf(f, p)
      BY <2>1, <3>1 DEF ImageOf
    <3>5. IsFiniteSet(ImageOf(f, t))
      <4>1. IsFiniteSet(ImageOf(f, p) \cup {f[x]})
        BY <3>3, FS_AddElement
      <4> QED BY <3>4, <4>1, Zenon
    <3>6. \A y \in ImageOf(f, t) : v[y] \in Nat
      BY <2>1 DEF ImageOf
    <3>7. Total(v, ImageOf(f, t)) = v[f[x]] + Total(v, ImageOf(f, p))
      <4>1. Total(v, ImageOf(f, t)) = v[f[x]] + Total(v, ImageOf(f, t) \ {f[x]})
        <5>1. f[x] \in ImageOf(f, t)
          BY <3>4
        <5> QED BY ONLY <3>5, <3>6, <5>1, TotalWithout
      <4> QED BY <3>4, <4>1, Zenon
    <3>8. Total(w, t) = w[x] + Total(w, p)
      BY <2>1, <3>1, TotalWithout
    <3>9. v[f[x]] = w[x]
      BY <2>1, <3>1
    <3> HIDE DEF p
    <3> QED BY <2>1, <3>3, <3>5, <3>7, <3>8, <3>9
  <2> QED BY <2>2, <2>3
<1>2. F = {}
  <2>1. \A t \in F : IsFiniteSet(t)
    BY FS_Subset
  <2> HIDE DEF F
  <2> QED BY <1>1, <2>1, SmallestSet
<1>3. Same(S)
  BY <1>2
<1> QED BY <1>3

\* When the scan ends because nothing remains, its last match took something:
\* it is the one that used up what remained, which was not 0 before.
LastTaken ==
    call.pc = "collect" /\ call.remaining = 0 /\ call.matches # <<>> =>
        call.matches[Len(call.matches)].qty > 0

\* Every step keeps LastTaken.
LEMMA NextLastTaken ==
    ASSUME IInv, LastTaken, [Next]_vars
    PROVE  LastTaken'
<1> SUFFICES ASSUME call'.pc = "collect", call'.remaining = 0, call'.matches # <<>>
             PROVE  call'.matches[Len(call'.matches)].qty > 0
  BY DEF LastTaken
<1>1. CASE UNCHANGED vars
  BY <1>1 DEF LastTaken, vars
<1>2. ASSUME NEW type \in OrderType, NEW id \in OrderId, NEW side \in Side, NEW price \in Price,
             NEW qty \in Quantity, Adding(type, id, side, price, qty), GoodBook(book, {})
      PROVE  FALSE
  <2>1. AddOrderBody(type, id, side, price, qty)
    BY <1>2 DEF Adding
  <2>2. StartFillOrKill(id, side, price, qty)
    BY <1>2, <2>1, AddOrderCases
  <2>3. call'.matches = <<>>
    BY <2>2 DEF StartFillOrKill
  <2> QED BY <2>3
<1>3. CASE \E id \in OrderId : CancelOrder(id)
  BY <1>3, PlainCall
<1>4. CASE \E id \in OrderId, side \in Side, price \in LimitPrices, qty \in ModifyQuantities :
             ModifyOrder(id, side, price, qty)
  BY <1>4, PlainCall
<1>5. CASE \/ CancelGoodForDayOrders \/ CancelNext \/ CancelAllEnd
           \/ \E rules \in RuleSets : SetExchangeRules(rules)
           \/ MatchEnd \/ Kill \/ ExecuteEnd
  BY <1>5, PlainCall
<1>6. CASE MatchStep
  BY <1>6, MatchStepEffect DEF MatchEffect
<1>7. CASE ExecuteStep
  BY <1>7, ExecuteStepEffect DEF ExecuteEffect
<1>8. CASE CollectLevel
  <2>1. call \in CollectFrame
    BY <1>8, CollectState DEF CollectLevel
  <2>2. call'.remaining = call.remaining
    BY <1>8, <2>1 DEF CollectLevel, CollectFrame
  <2> QED BY <1>8, <2>2, NumericAssumption DEF CollectLevel
<1>9. CASE CollectOrder
  <2>1. call \in CollectFrame /\ call.matches \in Seq(FokMatch)
    BY <1>9, CollectState DEF CollectOrder
  <2> DEFINE q == MinOf(call.remaining, book.pool[call.cur].quantity)
             m == [idx |-> call.cur, qty |-> q]
  <2>2. call'.matches = Append(call.matches, m) /\ call'.remaining = call.remaining - q
        /\ call.remaining > 0
    BY <1>9, <2>1 DEF CollectOrder, CollectFrame
  <2>3. call.remaining \in Nat
    BY <2>1, NumericAssumption DEF CollectFrame, Quantity
  <2>4. q = call.remaining
    <3>1. book.pool[call.cur].quantity \in Nat
      <4>1. call.cur \in Live(book) /\ GoodBook(book, {call.idx})
        BY <1>9, CollectState DEF CollectOrder, Scanning
      <4>2. book.pool[call.cur].quantity \in Quantity
        BY <4>1, LiveSlot DEF PoolOrder
      <4> QED BY <4>2, NumericAssumption DEF Quantity
    <3> QED BY <2>2, <2>3, <3>1 DEF MinOf
  <2> HIDE DEF q
  <2>5. call'.matches[Len(call'.matches)] = m
    BY <2>1, <2>2, AppendLast
  <2> QED BY <2>2, <2>3, <2>4, <2>5
<1>10. CASE CollectEnd
  BY <1>10 DEF CollectEnd
<1> QED BY <1>1, <1>2, <1>3, <1>4, <1>5, <1>6, <1>7, <1>8, <1>9, <1>10, StepCases

\* The ids of the matches, in the order of the matches.
MatchedIds(b, ms) == [k \in DOMAIN ms |-> b.pool[ms[k].idx].orderId]

\* The orders that have been matched are the last one and those that precede it.
LEMMA SweptAreMatched ==
    ASSUME IInv, PriorityInv, call.pc = "collect", call.matches # <<>>,
           NEW ms, ms = call.matches, NEW last, last = book.pool[ms[Len(ms)].idx].orderId
    PROVE  /\ \A k \in DOMAIN ms :
                /\ MatchedIds(book, ms)[k] \in DOMAIN book.orderMap
                /\ book.orderMap[MatchedIds(book, ms)[k]] = ms[k].idx
                /\ ms[k].qty \in Nat /\ ms[k].qty <= book.pool[ms[k].idx].quantity
                /\ k # Len(ms) => ms[k].qty = book.pool[ms[k].idx].quantity
           /\ Len(ms) \in DOMAIN ms
           /\ \A id \in PriceTime!Ids :
                id = last \/ PriceTime!Precedes(id, last)
                    <=> \E k \in DOMAIN ms : MatchedIds(book, ms)[k] = id
<1> DEFINE n == Len(ms)  l == ms[n].idx  D == DOMAIN book.orderMap
           other == Opposite(Aggressor.side)
<1>1. /\ GoodBook(book, {call.idx}) /\ ms \in Seq(FokMatch)
      /\ Collected(book, Aggressor.side, ms)
  BY CollectState
<1>2. FrontMatched(book, call) /\ Pending = <<>>
  BY DEF PriorityInv, Prioritised, Pending
<1>3. n \in DOMAIN ms /\ n \in Nat /\ \A k \in DOMAIN ms : k \in Nat /\ k <= n
  BY <1>1
<1>4. \A k \in DOMAIN ms : /\ ms[k].idx \in Live(book) /\ ms[k].idx \in Idx
                          /\ book.pool[ms[k].idx].side = other
                          /\ ms[k].qty <= book.pool[ms[k].idx].quantity /\ ms[k].qty \in Nat
  BY <1>1, LiveSlot, MatchAmounts, NumericAssumption DEF Collected, Quantity
<1>5. \A k, m \in DOMAIN ms : ms[k].idx = ms[m].idx => k = m
  BY <1>1 DEF Collected
<1>6. \A k \in DOMAIN ms : /\ MatchedIds(book, ms)[k] = book.pool[ms[k].idx].orderId
                          /\ MatchedIds(book, ms)[k] \in D
                          /\ book.orderMap[MatchedIds(book, ms)[k]] = ms[k].idx
  BY <1>1, <1>4, LiveSlot DEF MatchedIds
<1>7. \A k \in DOMAIN ms : k # n => ms[k].qty = book.pool[ms[k].idx].quantity
  BY <1>2, <1>3 DEF FrontMatched
<1>8. \A k \in DOMAIN ms : \A j \in Live(book) :
         book.pool[j].side = other /\ Ahead(book, j, ms[k].idx) =>
            \E m \in DOMAIN ms : m < k /\ ms[m].idx = j
  BY <1>2 DEF FrontMatched, Others, MatchedUpTo, Aggressor
<1>9. /\ PriceTime!Ids = D
      /\ \A id \in D : /\ AbstractOrders[id].side = book.pool[book.orderMap[id]].side
                       /\ AbstractOrders[id].price = book.pool[book.orderMap[id]].price
      /\ \A x, y \in D : <<x, y>> \in AbstractBefore
                              <=> <<book.orderMap[x], book.orderMap[y]>> \in book.older
  BY <1>1, <1>2, PlainMapping DEF OrderIn
<1>10. \A id \in D : /\ book.orderMap[id] \in Live(book) /\ book.orderMap[id] \in Idx
                     /\ book.pool[book.orderMap[id]].orderId = id
                     /\ book.pool[book.orderMap[id]].price \in Int
                     /\ book.pool[book.orderMap[id]].side \in Side
  BY <1>1, IdAtRest, NumericAssumption DEF Price
<1>11. last \in D /\ book.orderMap[last] = l /\ book.pool[l].side = other
       /\ MatchedIds(book, ms)[n] = last
  BY <1>3, <1>4, <1>6
<1>12. ASSUME NEW id \in D
       PROVE  PriceTime!Precedes(id, last) <=>
                 book.pool[book.orderMap[id]].side = other /\ Ahead(book, book.orderMap[id], l)
  <2> DEFINE j == book.orderMap[id]
  <2>1. <<j, l>> \in book.older => book.pool[j].side = other
    <3>1. \A x, y \in Live(book) : <<x, y>> \in book.older => book.pool[x].side = book.pool[y].side
      <4>1. GoodBook(book, {call.idx})
        BY <1>1
      <4> QED BY ONLY <4>1, OlderInLevel
    <3>2. j \in Live(book) /\ l \in Live(book)
      BY <1>3, <1>4, <1>10
    <3> QED BY <1>11, <3>1, <3>2
  <2>2. /\ AbstractOrders[id].side = book.pool[j].side /\ AbstractOrders[last].side = other
        /\ AbstractOrders[id].price = book.pool[j].price
        /\ AbstractOrders[last].price = book.pool[l].price
        /\ <<id, last>> \in AbstractBefore <=> <<j, l>> \in book.older
        /\ book.pool[l].side = other
    BY <1>9, <1>11
  <2>3. other = "Buy" \/ other = "Sell"
    BY DEF Opposite
  <2>4. PriceTime!Precedes(id, last) <=> book.pool[j].side = other /\ Ahead(book, j, l)
    <3> HIDE DEF j, l, other
    <3> QED BY <2>1, <2>2, <2>3 DEF PriceTime!Precedes, Ahead, Better
  <2> QED BY <2>4
<1>13. ASSUME NEW id \in D, id = last \/ PriceTime!Precedes(id, last)
       PROVE  \E k \in DOMAIN ms : MatchedIds(book, ms)[k] = id
  <2>1. CASE id = last
    BY <1>3, <1>11, <2>1
  <2>2. CASE PriceTime!Precedes(id, last)
    <3>1. book.pool[book.orderMap[id]].side = other /\ Ahead(book, book.orderMap[id], l)
      BY <1>12, <2>2
    <3>2. PICK k \in DOMAIN ms : ms[k].idx = book.orderMap[id]
      BY <1>3, <1>8, <1>10, <3>1
    <3> QED BY <1>6, <1>10, <3>2
  <2> QED BY <1>13, <2>1, <2>2
<1>14. ASSUME NEW k \in DOMAIN ms, k # n
       PROVE  PriceTime!Precedes(MatchedIds(book, ms)[k], last)
  <2> DEFINE j == ms[k].idx
  <2>1. j \in Live(book) /\ l \in Live(book) /\ j # l /\ j \in Idx /\ l \in Idx
        /\ book.pool[j].side = other /\ book.pool[l].side = other
    BY <1>3, <1>4, <1>5, <1>14
  <2>2. ~Ahead(book, l, j)
    <3> SUFFICES ASSUME Ahead(book, l, j)
                 PROVE  FALSE
      OBVIOUS
    <3>1. PICK m \in DOMAIN ms : m < k /\ ms[m].idx = l
      BY <1>8, <2>1
    <3>2. m = n
      BY <1>3, <1>5, <3>1
    <3> QED BY <1>3, <3>1, <3>2
  <2>3. Ahead(book, j, l)
    <3>1. book.pool[j].price \in Int /\ book.pool[l].price \in Int
      BY <1>6, <1>10, <1>3
    <3>2. book.pool[j].price = book.pool[l].price =>
             <<j, l>> \in book.older \/ <<l, j>> \in book.older
      <4>1. Ordered(book)
        BY <1>1 DEF GoodBook
      <4> QED BY ONLY <2>1, <4>1 DEF Ordered, SameLevel
    <3>3. other \in Side
      BY DEF Opposite, Side
    <3> HIDE DEF other, l, j
    <3> QED BY <2>1, <2>2, <3>1, <3>2, <3>3 DEF Ahead, Better, Side
  <2> QED BY <1>6, <1>12, <2>1, <2>3
<1>15. \A id \in PriceTime!Ids :
          id = last \/ PriceTime!Precedes(id, last)
              <=> \E k \in DOMAIN ms : MatchedIds(book, ms)[k] = id
  BY <1>9, <1>11, <1>13, <1>14
<1> QED BY <1>3, <1>4, <1>6, <1>7, <1>15

\* A FillOrKill order that has found something, and enough, sweeps its front.
LEMMA FoundIsSweep ==
    ASSUME IInv, PriorityInv, LastTaken, CollectEnd, call.matches # <<>>
    PROVE  \E last \in PriceTime!Ids : \E part \in 1 .. AbstractOrders[last].quantity :
              PriceTime!Sweep(last, part)
<1> DEFINE D == DOMAIN book.orderMap
<1>1. PICK ms, last, part : /\ ms = call.matches /\ last = book.pool[ms[Len(ms)].idx].orderId
                            /\ part = ms[Len(ms)].qty
  OBVIOUS
<1> DEFINE at == MatchedIds(book, ms)
           ids == {id \in PriceTime!Ids : id = last \/ PriceTime!Precedes(id, last)}
           amount(id) == IF id = last THEN part ELSE AbstractOrders[id].quantity
           taken == [id \in ids |-> amount(id)]
<1>2. /\ call.pc = "collect" /\ call.remaining = 0 /\ book' = book /\ call'.pc = "execute"
      /\ call'.matches = ms /\ call'.trades = <<>>
  BY <1>1 DEF CollectEnd
<1>3. /\ GoodBook(book, {call.idx}) /\ ms \in Seq(FokMatch)
      /\ Collected(book, Aggressor.side, ms)
  BY <1>1, <1>2, CollectState
<1>4. /\ Pending = <<>> /\ Pending' = ms /\ TradesSoFar = <<>> /\ TradesSoFar' = <<>>
  BY <1>2 DEF Pending, TradesSoFar
<1>5. Distinct(ms)
  BY <1>3 DEF Collected, Distinct
<1>6. /\ \A k \in DOMAIN ms :
           /\ at[k] \in D /\ book.orderMap[at[k]] = ms[k].idx
           /\ ms[k].qty \in Nat /\ ms[k].qty <= book.pool[ms[k].idx].quantity
           /\ k # Len(ms) => ms[k].qty = book.pool[ms[k].idx].quantity
      /\ Len(ms) \in DOMAIN ms
      /\ \A id \in PriceTime!Ids :
           id = last \/ PriceTime!Precedes(id, last) <=> \E k \in DOMAIN ms : at[k] = id
  BY <1>1, <1>2, SweptAreMatched
<1>7. /\ PriceTime!Ids = D
      /\ AbstractOrders = [id \in D |-> OrderIn(book, id)]
      /\ \A id \in D : AbstractOrders[id].quantity = book.pool[book.orderMap[id]].quantity
  <2>1. PriceTime!Ids = D /\ AbstractOrders = [id \in D |-> OrderIn(book, id)]
    BY <1>3, <1>4, PlainMapping
  <2> QED BY <2>1 DEF OrderIn
<1>8. \A id \in D : /\ book.orderMap[id] \in Live(book)
                    /\ book.pool[book.orderMap[id]].orderId = id
                    /\ book.pool[book.orderMap[id]].quantity \in Nat
  BY <1>3, IdAtRest
<1>9. /\ \A k \in DOMAIN ms : at[k] = book.pool[ms[k].idx].orderId
      /\ at[Len(ms)] = last
      /\ \A k, m \in DOMAIN ms : at[k] = at[m] => k = m
  <2>1. \A k \in DOMAIN ms : at[k] = book.pool[ms[k].idx].orderId
    BY DEF MatchedIds
  <2>2. at[Len(ms)] = last
    BY <1>1, <1>6, <2>1
  <2> HIDE DEF at
  <2>3. \A k, m \in DOMAIN ms : at[k] = at[m] => ms[k].idx = ms[m].idx
    BY <1>6
  <2>4. \A k, m \in DOMAIN ms : at[k] = at[m] => k = m
    BY <1>5, <2>3 DEF Distinct
  <2> QED BY <2>1, <2>2, <2>4
<1>10. ids = ImageOf(at, DOMAIN ms)
  <2> HIDE DEF at
  <2>1. \A id : id \in ids <=> \E k \in DOMAIN ms : at[k] = id
    BY <1>6, <1>7
  <2> HIDE DEF ids
  <2> QED BY <2>1 DEF ImageOf
<1>11. \A k \in DOMAIN ms : at[k] \in ids /\ amount(at[k]) = ms[k].qty
  <2> SUFFICES ASSUME NEW k \in DOMAIN ms
               PROVE  at[k] \in ids /\ amount(at[k]) = ms[k].qty
    OBVIOUS
  <2>1. at[k] \in ids
    BY <1>10 DEF ImageOf
  <2>2. at[k] = last <=> k = Len(ms)
    BY <1>6, <1>9
  <2> HIDE DEF at
  <2>3. AbstractOrders[at[k]].quantity = book.pool[ms[k].idx].quantity
    <3>1. at[k] \in D /\ book.orderMap[at[k]] = ms[k].idx
      BY <1>6
    <3>2. AbstractOrders[at[k]].quantity = book.pool[book.orderMap[at[k]]].quantity
      BY ONLY <1>7, <3>1
    <3> QED BY ONLY <3>1, <3>2
  <2> QED BY <1>1, <1>6, <2>1, <2>2, <2>3
<1>12. \A id \in D :
          /\ Due(ms, book.orderMap[id]) = IF id \in ids THEN amount(id) ELSE 0
          /\ Doomed(book, ms, book.orderMap[id])
                <=> id \in ids /\ amount(id) = AbstractOrders[id].quantity
  <2> SUFFICES ASSUME NEW id \in D
               PROVE  /\ Due(ms, book.orderMap[id]) = IF id \in ids THEN amount(id) ELSE 0
                      /\ Doomed(book, ms, book.orderMap[id])
                            <=> id \in ids /\ amount(id) = AbstractOrders[id].quantity
    OBVIOUS
  <2> HIDE DEF at, amount
  <2>1. CASE id \in ids
    <3>1. PICK k \in DOMAIN ms : at[k] = id
      BY <1>10, <2>1 DEF ImageOf
    <3>2. ms[k].idx = book.orderMap[id] /\ ms[k].qty = amount(id)
      BY <1>6, <1>11, <3>1
    <3>3. Due(ms, book.orderMap[id]) = amount(id)
      BY <1>3, <1>5, <3>2, DueIs
    <3>4. Doomed(book, ms, book.orderMap[id])
             <=> Takes(ms, book.orderMap[id], book.pool[book.orderMap[id]].quantity)
      BY <1>3, <1>5, DueIs
    <3>5. Takes(ms, book.orderMap[id], book.pool[book.orderMap[id]].quantity)
             <=> amount(id) = book.pool[book.orderMap[id]].quantity
      BY <1>5, <3>2 DEF Takes, Distinct
    <3> QED BY <1>7, <2>1, <3>3, <3>4, <3>5
  <2>2. CASE id \notin ids
    <3>1. \A k \in DOMAIN ms : ms[k].idx # book.orderMap[id]
      BY <1>6, <1>8, <1>9, <1>11, <2>2
    <3>2. Due(ms, book.orderMap[id]) = 0
      BY <1>3, <1>5, <3>1, DueIs
    <3>3. Doomed(book, ms, book.orderMap[id])
             <=> Takes(ms, book.orderMap[id], book.pool[book.orderMap[id]].quantity)
      BY <1>3, <1>5, DueIs
    <3> QED BY <2>2, <3>1, <3>2, <3>3 DEF Takes
  <2> QED BY <2>1, <2>2
<1>13. Remaining(book, ms) = PriceTime!Ids \ {id \in ids : amount(id) = AbstractOrders[id].quantity}
  <2> HIDE DEF ids, amount
  <2> QED BY <1>7, <1>12 DEF Remaining
<1>14. AbstractOrders' = [id \in Remaining(book, ms) |-> [AbstractOrders[id] EXCEPT !.quantity =
                           AbstractOrders[id].quantity - IF id \in ids THEN amount(id) ELSE 0]]
  <2>1. AbstractOrders' = OrdersOf(book, ms)
    BY <1>2, <1>4 DEF AbstractOrders
  <2> HIDE DEF ids, amount
  <2>2. \A id \in Remaining(book, ms) : id \in D
    BY DEF Remaining
  <2> QED BY <1>7, <1>12, <2>1, <2>2 DEF OrdersOf, OrderIn
<1>15. AbstractBefore' = KeptPairs(AbstractBefore, Remaining(book, ms))
  <2> DEFINE R == Remaining(book, ms)
             InBook(pair) == <<book.orderMap[pair[1]], book.orderMap[pair[2]]>> \in book.older
  <2>1. R \subseteq D /\ Remaining(book, <<>>) = D
    <3>1. DOMAIN <<>> = {}
      OBVIOUS
    <3> QED BY <3>1 DEF Remaining, Doomed
  <2>2. AbstractBefore' = {pair \in R \X R : InBook(pair)}
    BY <1>2, <1>4, Zenon DEF AbstractBefore, BeforeOf
  <2>3. AbstractBefore = {pair \in D \X D : InBook(pair)}
    BY <1>4, <2>1, Zenon DEF AbstractBefore, BeforeOf
  <2>4. \A pair : pair \in R \X R <=> pair \in D \X D /\ pair[1] \in R /\ pair[2] \in R
    BY <2>1
  <2>5. \A pair : {pair[1], pair[2]} \subseteq R <=> pair[1] \in R /\ pair[2] \in R
    OBVIOUS
  <2> HIDE DEF R, InBook, D
  <2>6. {pair \in R \X R : InBook(pair)}
           = {pair \in {pair \in D \X D : InBook(pair)} : {pair[1], pair[2]} \subseteq R}
    BY ONLY <2>4, <2>5, Zenon
  <2> QED BY <2>2, <2>3, <2>6, Zenon DEF KeptPairs, R
<1>16. AbstractVolume' = PriceTime!SumFunction(taken)
  <2> HIDE DEF at, amount, ids
  <2>1. <<>> \in Seq(Trade) /\ TradeSum(<<>>) = 0
    BY NoVolume
  <2>2. AbstractVolume' = TradeSum(<<>>) + MatchSum(ms)
    BY <1>3, <1>4, <2>1, VolumeIs DEF AbstractVolume
  <2>3. /\ IsFiniteSet(DOMAIN ms) /\ MatchSum(ms) \in Nat
        /\ \A k \in DOMAIN ms : Amounts(ms)[k] \in Nat /\ Amounts(ms)[k] = ms[k].qty
    BY <1>3, MatchAmounts
  <2>4. \A k \in DOMAIN ms : taken[at[k]] = Amounts(ms)[k]
    BY <1>11, <2>3
  <2>5. DOMAIN taken = ids
    OBVIOUS
  <2> HIDE DEF taken
  <2>6. /\ IsFiniteSet(ImageOf(at, DOMAIN ms))
        /\ Total(taken, ImageOf(at, DOMAIN ms)) = Total(Amounts(ms), DOMAIN ms)
    BY <1>9, <2>3, <2>4, TotalRenamed
  <2>7. PriceTime!SumFunction(taken) = Total(taken, ids)
    BY <1>10, <2>5, <2>6, SumIsTotal
  <2> QED BY <1>10, <2>1, <2>2, <2>3, <2>6, <2>7 DEF MatchSum
<1>17. last \in PriceTime!Ids /\ part \in 1 .. AbstractOrders[last].quantity
  <2> HIDE DEF at
  <2>1. last \in D /\ book.orderMap[last] = ms[Len(ms)].idx
    BY <1>6, <1>9
  <2>2. part \in Nat /\ part > 0 /\ part <= AbstractOrders[last].quantity
    BY <1>1, <1>2, <1>6, <1>7, <2>1 DEF LastTaken
  <2>3. AbstractOrders[last].quantity \in Nat
    BY <1>7, <1>8, <2>1
  <2> QED BY <1>7, <2>1, <2>2, <2>3
<1>18. PriceTime!Sweep(last, part)
  <2>1. PriceTime!Take(ids, amount)
    BY <1>13, <1>14, <1>15, Zenon DEF PriceTime!Take, PriceTime!Keep, KeptPairs
  <2> QED BY <1>16, <2>1, Zenon DEF PriceTime!Sweep
<1> QED BY <1>17, <1>18

-----------------------------------------------------------------------------
(* Every step.                                                              *)

\* Nothing has traded in a call that starts, and nothing is left of one that
\* has returned.
LEMMA NothingTraded ==
    ASSUME Pending' = <<>>, TradesSoFar' = <<>>
    PROVE  AbstractVolume' = 0
BY NoVolume DEF AbstractVolume

\* A step that leaves the book alone.
LEMMA SettleStep ==
    ASSUME book' = book, Pending = <<>>, Pending' = <<>>, TradesSoFar' = <<>>
    PROVE  PriceTime!Settle
<1>1. AbstractOrders' = AbstractOrders /\ AbstractBefore' = AbstractBefore
  BY DEF AbstractOrders, AbstractBefore
<1> QED BY <1>1, NothingTraded DEF PriceTime!Settle

\* A step that takes an order out, if it is there.
LEMMA CancelStep ==
    ASSUME GoodBook(book, {}), NEW id, book' = CancelledBook(book, id),
           Pending = <<>>, Pending' = <<>>, TradesSoFar' = <<>>
    PROVE  PriceTime!Settle \/ \E k \in PriceTime!Ids : PriceTime!Leave(k)
<1>1. CASE id \notin DOMAIN book.orderMap
  <2>1. book' = book
    BY <1>1 DEF CancelledBook
  <2> QED BY <2>1, SettleStep
<1>2. CASE id \in DOMAIN book.orderMap
  <2> DEFINE i == book.orderMap[id]
  <2>1. /\ Shrunk(book, book', {i}) /\ SameQuantity(book, book', {i}) /\ GoodBook(book', {})
    <3>1. /\ Shrunk(book, book', IF id \in DOMAIN book.orderMap THEN {book.orderMap[id]} ELSE {})
          /\ SameQuantity(book, book', IF id \in DOMAIN book.orderMap
                                       THEN {book.orderMap[id]} ELSE {})
          /\ GoodBook(book', {})
      BY CancelShrinks
    <3> QED BY <1>2, <3>1
  <2>2. AbstractVolume' = 0
    BY NothingTraded
  <2>3. PriceTime!Leave(id)
    BY <1>2, <2>1, <2>2, LeaveStep
  <2>4. id \in PriceTime!Ids
    BY <1>2, PlainMapping
  <2> QED BY <2>3, <2>4
<1> QED BY <1>1, <1>2

\* A step that only takes or returns the slot of a FillOrKill order.
LEMMA SlotStep ==
    ASSUME NEW r, GoodBook(book, r), NEW s, GoodBook(book', s), NEW i, i \notin Live(book),
           Shrunk(book, book', {i}), SameQuantity(book, book', {i}),
           Pending = <<>>, Pending' = <<>>, TradesSoFar' = <<>>
    PROVE  PriceTime!Settle
<1>1. {i} \cap Live(book) = {}
  OBVIOUS
<1>2. AbstractOrders' = AbstractOrders /\ AbstractBefore' = AbstractBefore
  BY <1>1, StillStep
<1> QED BY <1>2, NothingTraded DEF PriceTime!Settle

\* AddOrder, and the AddOrder of ModifyOrder.
LEMMA AddImplements ==
    ASSUME IInv, GoodBook(book, {}), call.pc \in {"idle", "readd"},
           NEW type \in OrderType, NEW id \in OrderId, NEW side \in Side,
           NEW price \in Price, NEW qty \in Quantity,
           AddOrderBody(type, id, side, price, qty)
    PROVE  PriceTime!Settle \/ \E k \in OrderId : PriceTime!Enter(k)
<1>1. Pending = <<>>
  BY DEF Pending
<1>2. CASE call' = Idle /\ call'.pc = "idle" /\ book' = book
  BY <1>1, <1>2, SettleStep DEF Pending, TradesSoFar
<1>3. ASSUME id \notin DOMAIN book.orderMap, book.freeList # <<>>, call'.pc = "collect",
             StartFillOrKill(id, side, price, qty)
      PROVE  PriceTime!Settle
  <2> DEFINE i == AllocIdx(book)
             o == [ orderId |-> id, side |-> side, price |-> price,
                    orderType |-> "FillOrKill", quantity |-> qty,
                    prev |-> NULL_IDX, next |-> NULL_IDX ]
  <2>1. book' = Alloc(book, "FillOrKill", id, side, price, qty)
    BY <1>3 DEF StartFillOrKill
  <2>2. Allocated(book, book', i, o)
    BY <1>3, <2>1, AllocGood DEF OrderType
  <2>3. /\ GoodBook(book', {i}) /\ i \notin Live(book) /\ Live(book') = Live(book)
        /\ book'.orderMap = book.orderMap
    BY <2>2 DEF Allocated
  <2>4. book'.older = book.older /\ \A j \in Idx \ {i} : book'.pool[j] = book.pool[j]
    <3>1. book.pool \in [Idx -> PoolOrder]
      BY DEF GoodBook, IsBook
    <3> QED BY <2>1, <3>1 DEF Alloc
  <2> HIDE DEF i
  <2>5. Shrunk(book, book', {i}) /\ SameQuantity(book, book', {i})
    BY <2>3, <2>4 DEF Shrunk, SameQuantity
  <2>6. Pending' = <<>> /\ TradesSoFar' = <<>>
    BY <1>3 DEF Pending, TradesSoFar
  <2> QED BY <1>1, <2>3, <2>5, <2>6, SlotStep
<1>4. ASSUME id \notin DOMAIN book.orderMap, book.freeList # <<>>, LimitType(type) \in OrderType,
             LimitPrice(type, side, price) \in Price, call'.pc = "match",
             StartMatching(LimitType(type), id, side, LimitPrice(type, side, price), qty)
      PROVE  \E k \in OrderId : PriceTime!Enter(k)
  <2>1. /\ book' = InsertIntoBook(Alloc(book, LimitType(type), id, side,
                                        LimitPrice(type, side, price), qty), AllocIdx(book))
        /\ call'.trades = <<>>
    BY <1>4 DEF StartMatching
  <2>2. Grown(book, book', AllocIdx(book))
    BY <1>4, <2>1, AddGrows
  <2>3. GoodBook(book', {})
    BY <1>4, <2>1, AddedGood
  <2>4. Pending' = <<>> /\ TradesSoFar' = <<>>
    BY <1>4, <2>1 DEF Pending, TradesSoFar
  <2>5. AbstractVolume' = 0
    BY <2>4, NothingTraded
  <2> QED BY <1>1, <2>2, <2>3, <2>4, <2>5, EnterStep
<1> QED BY <1>2, <1>3, <1>4, AddOrderCases

\* ModifyOrder.
LEMMA ModifyImplements ==
    ASSUME IInv, NEW id \in OrderId, NEW side \in Side, NEW price \in LimitPrices,
           NEW qty \in ModifyQuantities, ModifyOrder(id, side, price, qty)
    PROVE  \/ PriceTime!Settle \/ \E k \in PriceTime!Ids : PriceTime!Leave(k)
           \/ \E k \in PriceTime!Ids : \E q \in PriceTime!Quantity : PriceTime!Resize(k, q)
<1>1. call = Idle /\ call.pc = "idle"
  BY DEF ModifyOrder, Idle
<1>2. GoodBook(book, {})
  BY <1>1, PlainState DEF IInv
<1>3. Pending = <<>> /\ TradesSoFar = <<>>
  BY <1>1 DEF Pending, TradesSoFar
<1>4. CASE book' = book /\ call' = call
  <2>1. Pending' = <<>> /\ TradesSoFar' = <<>>
    BY <1>1, <1>4 DEF Pending, TradesSoFar
  <2> QED BY <1>3, <1>4, <2>1, SettleStep
<1>5. ASSUME id \in DOMAIN book.orderMap, ModifyQuantity(book.orderMap[id], qty), call' = call
      PROVE  \E k \in PriceTime!Ids : \E q \in PriceTime!Quantity : PriceTime!Resize(k, q)
  <2> DEFINE i == book.orderMap[id]
  <2>1. qty \in Quantity
    BY BookAssumption
  <2>2. /\ Shrunk(book, book', {}) /\ SameQuantity(book, book', {i}) /\ book'.pool[i].quantity = qty
    BY <1>2, <1>5, <2>1, ModifyShrinks
  <2>3. Pending' = <<>> /\ TradesSoFar' = <<>>
    BY <1>1, <1>5 DEF Pending, TradesSoFar
  <2>4. GoodBook(book', {})
    <3>1. call'.pc = "idle"
      BY <1>1, <1>5
    <3>2. IInv'
      <4>1. price \in Price
        BY BookAssumption
      <4> QED BY <2>1, <4>1, ModifyOrderKeeps
    <3> QED BY <3>1, <3>2, PlainState DEF IInv
  <2>5. AbstractVolume' = 0
    BY <2>3, NothingTraded
  <2>6. PriceTime!Resize(id, qty)
    BY <1>2, <1>3, <1>5, <2>2, <2>3, <2>4, <2>5, ResizeStep
  <2>7. id \in PriceTime!Ids
    BY <1>2, <1>3, <1>5, PlainMapping
  <2> QED BY <2>1, <2>6, <2>7 DEF PriceTime!Quantity, Quantity
<1>6. ASSUME book' = CancelledBook(book, id), call'.pc = "readd"
      PROVE  PriceTime!Settle \/ \E k \in PriceTime!Ids : PriceTime!Leave(k)
  <2>1. Pending' = <<>> /\ TradesSoFar' = <<>>
    BY <1>6 DEF Pending, TradesSoFar
  <2> QED BY <1>2, <1>3, <1>6, <2>1, CancelStep
<1> QED BY <1>4, <1>5, <1>6 DEF ModifyOrder

\* The slot of a FillOrKill order is given back.
LEMMA FreeImplements ==
    ASSUME IInv, Kill \/ ExecuteEnd
    PROVE  PriceTime!Settle
<1>1. /\ call.pc \in {"collect", "execute"} /\ Pending = <<>>
      /\ book' = Free(book, call.idx) /\ call' = Idle
  BY DEF Kill, ExecuteEnd, Return, Pending
<1>2. GoodBook(book, {call.idx})
  BY <1>1 DEF IInv, StateOK, Reserved
<1>3. call.idx \notin Live(book)
  BY <1>2 DEF GoodBook, Partitioned
<1>4. Shrunk(book, book', {call.idx}) /\ SameQuantity(book, book', {call.idx})
  BY <1>1, <1>2, FreeShrinks
<1>5. GoodBook(book', {})
  BY <1>1, <1>2, FreeGood
<1>6. Pending' = <<>> /\ TradesSoFar' = <<>>
  BY <1>1 DEF Pending, TradesSoFar, Idle
<1> QED BY <1>1, <1>2, <1>3, <1>4, <1>5, <1>6, SlotStep

\* Every step of the engine is a step of the abstract book or none.
LEMMA NextImplements ==
    ASSUME IInv, PriorityInv, LastTaken, [Next]_vars
    PROVE  [PriceTime!Next]_(PriceTime!vars)
<1>1. ASSUME PriceTime!Settle \/ (\E id \in OrderId : PriceTime!Enter(id))
                \/ (\E id \in PriceTime!Ids : PriceTime!Leave(id))
      PROVE  PriceTime!Next
  BY <1>1, Zenon DEF PriceTime!Next
<1>2. CASE UNCHANGED vars
  <2>1. book' = book /\ call' = call
    BY <1>2 DEF vars
  <2>2. /\ AbstractOrders' = AbstractOrders /\ AbstractBefore' = AbstractBefore
        /\ AbstractVolume' = AbstractVolume
    BY <2>1 DEF AbstractOrders, AbstractBefore, AbstractVolume, Pending, TradesSoFar
  <2> QED BY <2>2, Zenon DEF PriceTime!vars
<1>3. ASSUME GoodBook(book, {}), call.pc \in {"idle", "readd"},
             NEW type \in OrderType, NEW id \in OrderId, NEW side \in Side, NEW price \in Price,
             NEW qty \in Quantity, Adding(type, id, side, price, qty)
      PROVE  PriceTime!Next
  <2>1. AddOrderBody(type, id, side, price, qty)
    BY <1>3 DEF Adding
  <2> QED BY <1>1, <1>3, <2>1, AddImplements
<1>4. ASSUME call.pc \notin {"collect", "execute"}, NEW id, book' = CancelledBook(book, id),
             call'.pc \in {"idle", "cancelAll"}
      PROVE  PriceTime!Next
  <2>1. GoodBook(book, {})
    BY <1>4, PlainState DEF IInv
  <2>2. Pending = <<>> /\ Pending' = <<>> /\ TradesSoFar' = <<>>
    BY <1>4 DEF Pending, TradesSoFar
  <2> QED BY <1>1, <1>4, <2>1, <2>2, CancelStep
<1>5. call = Idle => call.pc = "idle"
  BY DEF Idle
<1>6. CASE (\E id \in OrderId : CancelOrder(id)) \/ CancelNext \/ MatchEnd
  <2>1. call'.pc \in {"idle", "cancelAll"}
    BY <1>6, OtherCall
  <2> QED BY <1>4, <1>5, <1>6, <2>1 DEF CancelOrder, CancelNext, MatchEnd
<1>7. ASSUME NEW id \in OrderId, NEW side \in Side, NEW price \in LimitPrices,
             NEW qty \in ModifyQuantities, ModifyOrder(id, side, price, qty)
      PROVE  PriceTime!Next
  <2>1. CASE \E k \in PriceTime!Ids : \E q \in PriceTime!Quantity : PriceTime!Resize(k, q)
    BY <2>1, Zenon DEF PriceTime!Next
  <2> QED BY <1>1, <1>7, <2>1, ModifyImplements
<1>8. CASE \/ CancelGoodForDayOrders \/ CancelAllEnd \/ CollectLevel \/ CollectOrder
           \/ \E rules \in RuleSets : SetExchangeRules(rules)
           \/ CollectEnd /\ call.matches = <<>>
  <2>1. book' = book /\ call.pc # "execute"
    BY <1>5, <1>8 DEF CancelGoodForDayOrders, CancelAllEnd, CollectLevel, CollectOrder,
                      SetExchangeRules, CollectEnd
  <2>2. Pending' = <<>> /\ TradesSoFar' = <<>>
    <3>1. CASE \/ CancelGoodForDayOrders \/ CancelAllEnd
               \/ \E rules \in RuleSets : SetExchangeRules(rules)
      <4>1. call'.pc \in {"idle", "cancelAll"}
        BY <3>1, OtherCall
      <4> QED BY <4>1 DEF Pending, TradesSoFar
    <3>2. CASE CollectLevel \/ CollectOrder
      <4>1. call \in CollectFrame
        BY <3>2, CollectState DEF CollectLevel, CollectOrder
      <4>2. call'.pc = "collect"
        BY <3>2, <4>1 DEF CollectLevel, CollectOrder, CollectFrame
      <4> QED BY <4>2 DEF Pending, TradesSoFar
    <3>3. CASE CollectEnd /\ call.matches = <<>>
      BY <3>3 DEF CollectEnd, Pending, TradesSoFar
    <3> QED BY <1>8, <3>1, <3>2, <3>3
  <2>3. Pending = <<>>
    BY <2>1 DEF Pending
  <2> QED BY <1>1, <2>1, <2>2, <2>3, SettleStep
<1>9. CASE MatchStep
  BY <1>9, MatchIsTrade, Zenon DEF PriceTime!Next
<1>10. CASE Kill \/ ExecuteEnd
  BY <1>1, <1>10, FreeImplements
<1>11. CASE CollectEnd /\ call.matches # <<>>
  BY <1>11, FoundIsSweep, Zenon DEF PriceTime!Next
<1>12. CASE ExecuteStep
  BY <1>12, ReplayIsStill, Zenon DEF PriceTime!vars
<1> QED BY <1>2, <1>3, <1>6, <1>7, <1>8, <1>9, <1>10, <1>11, <1>12, StepCases

\* An engine with no orders is a book with no orders.
LEMMA InitImplements ==
    ASSUME Init
    PROVE  PriceTime!Init
<1>1. IInv
  BY InitOK
<1>2. /\ call.pc = "idle" /\ book.orderMap = [id \in {} |-> 0] /\ book.older = {}
  BY DEF Init, Idle
<1>3. GoodBook(book, {}) /\ Pending = <<>> /\ TradesSoFar = <<>>
  BY <1>1, <1>2, PlainState DEF IInv, Pending, TradesSoFar
<1>4. /\ AbstractOrders = [id \in DOMAIN book.orderMap |-> OrderIn(book, id)]
      /\ \A x, y : <<x, y>> \notin AbstractBefore
  BY <1>2, <1>3, PlainMapping
<1>5. AbstractOrders = [id \in {} |-> 0]
  <2>1. DOMAIN book.orderMap = {}
    BY <1>2
  <2> QED BY <1>4, <2>1
<1>6. AbstractBefore = {}
  <2>1. \A pair \in AbstractBefore : pair = <<pair[1], pair[2]>>
    BY <1>3, PlainOrders DEF AbstractBefore
  <2> QED BY <1>4, <2>1
<1>7. AbstractVolume = 0
  BY <1>3, NoVolume DEF AbstractVolume
<1> QED BY <1>5, <1>6, <1>7, Zenon DEF PriceTime!Init

\* LastTaken is an invariant.
LEMMA LastTakenHolds == Spec => []LastTaken
<1>1. Init => LastTaken
  BY DEF Init, Idle, LastTaken
<1>2. IInv /\ LastTaken /\ [Next]_vars => LastTaken'
  BY NextLastTaken
<1> QED BY <1>1, <1>2, Inductive, PTL DEF Spec

\* Every call of the engine, with its slots, lists, levels and loops, amounts to
\* steps of one book of price-time priority: the order of arrival is preserved
\* (Orderbook.h, 442), MatchOrders trades best against best (230), what leaves
\* without trading was cancelled, and a FillOrKill order trades all at once (167).
THEOREM Implements == Spec => ImplementsPriceTimeBook
<1>1. Init => PriceTime!Init
  BY InitImplements
<1>2. IInv /\ PriorityInv /\ LastTaken /\ [Next]_vars => [PriceTime!Next]_(PriceTime!vars)
  BY NextImplements
<1> QED BY <1>1, <1>2, Inductive, FillOrKillTakesTheFront, LastTakenHolds, PTL
        DEF Spec, ImplementsPriceTimeBook, PriceTime!Spec

=============================================================================
