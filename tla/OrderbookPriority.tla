-------------------------- MODULE OrderbookPriority --------------------------
(***************************************************************************)
(* Who trades, and with whom: the theorems about price-time priority, about  *)
(* the limits of the orders that trade, and about the kinds of order that    *)
(* never rest.  PriorityInv is what the scan and the replay of a FillOrKill  *)
(* order know about priority; it is an invariant given IInv.                *)
(***************************************************************************)
EXTENDS OrderbookProofs

\* The orders that the FillOrKill order of the call c may trade with.
Others(b, c)     == {j \in Live(b) : b.pool[j].side = Opposite(b.pool[c.idx].side)}
InReach(b, c, p) == Reaches(b.pool[c.idx].side, b.pool[c.idx].price, p)

\* Among the orders of one side, j comes before i.
Ahead(b, j, i) ==
    \/ Better(b.pool[i].side, b.pool[j].price, b.pool[i].price)
    \/ <<j, i>> \in b.older

MatchedUpTo(c, n, j) == \E k \in DOMAIN c.matches : k < n /\ c.matches[k].idx = j
IsMatched(c, j)      == \E k \in DOMAIN c.matches : c.matches[k].idx = j

\* The matches of a FillOrKill order are the front of the other side, in order
\* of priority, and take all that there is of each order but the last.
FrontMatched(b, c) ==
    /\ b.pool[c.idx].orderId \notin DOMAIN b.orderMap
    /\ \A k \in DOMAIN c.matches : InReach(b, c, b.pool[c.matches[k].idx].price)
    /\ \A k \in DOMAIN c.matches : \A j \in Others(b, c) :
         Ahead(b, j, c.matches[k].idx) => MatchedUpTo(c, k, j)
    /\ \A k \in DOMAIN c.matches :
         k < Len(c.matches) => c.matches[k].qty = b.pool[c.matches[k].idx].quantity

\* While CollectFOK scans: what is ahead of the order at hand has been matched,
\* what is in reach has been, or is at hand or behind it in its level, or is in
\* a level to come; and while something is missing all that was met was taken.
NothingSkipped(b, c) ==
    /\ \A p \in c.todo : InReach(b, c, p)
    /\ c.cur # NULL_IDX =>
         /\ InReach(b, c, b.pool[c.cur].price)
         /\ \A j \in Others(b, c) : Ahead(b, j, c.cur) => IsMatched(c, j)
    /\ \A j \in Others(b, c) : InReach(b, c, b.pool[j].price) =>
         \/ b.pool[j].price \in c.todo
         \/ IsMatched(c, j)
         \/ c.cur # NULL_IDX /\ (j = c.cur \/ <<c.cur, j>> \in b.older)
    /\ c.remaining > 0 => \A k \in DOMAIN c.matches :
         c.matches[k].qty = b.pool[c.matches[k].idx].quantity

Prioritised(b, c) ==
    /\ c.pc \in {"collect", "execute"} => FrontMatched(b, c)
    /\ c.pc = "collect" => NothingSkipped(b, c)

\* What a FillOrKill order has matched is always the front of the other side:
\* CollectFOK (171-183) skips no order that comes first, and no trade of
\* ExecuteFOK (192-227) disturbs what the trades after it rely on.
PriorityInv == Prioritised(book, call)

-----------------------------------------------------------------------------
(* Facts about prices and reach.                                            *)

\* A price that is better than one in reach is in reach.
LEMMA BetterInReach ==
    ASSUME NEW side \in Side, NEW limit \in Price, NEW p \in Price, NEW q \in Price,
           Better(Opposite(side), q, p), Reaches(side, limit, p)
    PROVE  Reaches(side, limit, q)
BY NumericAssumption DEF Better, Reaches, Opposite, Side, Price

\* A frame with no matches gathered and none at hand.
LEMMA NothingMatched ==
    ASSUME NEW b, NEW c, c.matches = <<>>, b.pool[c.idx].orderId \notin DOMAIN b.orderMap
    PROVE  FrontMatched(b, c)
BY DEF FrontMatched

-----------------------------------------------------------------------------
(* The steps of a FillOrKill order keep PriorityInv.                        *)

\* CollectFOK begins: every order in reach is in a level to come.
LEMMA FillOrKillStartsInOrder ==
    ASSUME GoodBook(book, {}), book.freeList # <<>>,
           NEW id \in OrderId \ DOMAIN book.orderMap, NEW side \in Side,
           NEW price \in Price, NEW qty \in Quantity,
           StartFillOrKill(id, side, price, qty)
    PROVE  PriorityInv'
<1> DEFINE a == Alloc(book, "FillOrKill", id, side, price, qty)
           i == AllocIdx(book)
           o == [ orderId |-> id, side |-> side, price |-> price,
                  orderType |-> "FillOrKill", quantity |-> qty,
                  prev |-> NULL_IDX, next |-> NULL_IDX ]
           c == call'
<1>1. /\ book' = a
      /\ c = [ pc |-> "collect", idx |-> i, remaining |-> qty,
               todo |-> {p \in DOMAIN book.levels[Opposite(side)] : Reaches(side, price, p)},
               cur |-> NULL_IDX, matches |-> <<>> ]
  BY DEF StartFillOrKill
<1>2. Allocated(book, a, i, o)
  BY AllocGood DEF OrderType
<1>3. o.orderId = id /\ o.side = side /\ o.price = price
  OBVIOUS
<1> HIDE DEF a, i, o
<1>4. /\ c.pc = "collect" /\ c.idx = i /\ c.cur = NULL_IDX /\ c.matches = <<>>
      /\ c.todo = {p \in DOMAIN book.levels[Opposite(side)] : Reaches(side, price, p)}
  BY <1>1
<1> HIDE DEF c
<1>5. /\ a.pool[c.idx].orderId = id /\ a.pool[c.idx].side = side /\ a.pool[c.idx].price = price
      /\ a.orderMap = book.orderMap /\ a.levels = book.levels /\ GoodBook(a, {i})
  BY <1>2, <1>3, <1>4 DEF Allocated
<1>6. FrontMatched(a, c)
  BY <1>4, <1>5, NothingMatched
<1>7. \A j \in Others(a, c) : InReach(a, c, a.pool[j].price) => a.pool[j].price \in c.todo
  BY <1>4, <1>5, LiveSlot DEF Others, InReach
<1>8. NothingSkipped(a, c)
  BY <1>4, <1>5, <1>7 DEF NothingSkipped, InReach
<1> QED BY <1>1, <1>4, <1>6, <1>8 DEF PriorityInv, Prioritised, c

\* CollectFOK moves on to the best level left: nothing in reach is ahead of it.
LEMMA CollectLevelInOrder ==
    ASSUME IInv, PriorityInv, CollectLevel
    PROVE  PriorityInv'
<1> DEFINE other == Opposite(Aggressor.side)
           c == call'
<1>1. call.pc = "collect" /\ call.cur = NULL_IDX /\ book' = book
  BY DEF CollectLevel
<1>2. PICK p \in call.todo :
        /\ IsBest(other, p, call.todo)
        /\ c = [call EXCEPT !.todo = call.todo \ {p}, !.cur = book.levels[other][p].head]
  BY DEF CollectLevel
<1>3. /\ call \in CollectFrame /\ GoodBook(book, {call.idx}) /\ other \in Side
      /\ Scanning(book, call) /\ call.todo \subseteq Price
  BY <1>1, CollectState DEF CollectFrame
<1>4. Aggressor.side \in Side /\ Aggressor.price \in Price
  BY <1>1, <1>3, CollectState DEF GoodBook, IsBook, PoolOrder, Aggressor
<1> DEFINE h == book.levels[other][p].head
<1>5. p \in DOMAIN book.levels[other] /\ p \in Price
  BY <1>3 DEF Scanning, Aggressor
<1>6. /\ h \in Live(book) /\ book.pool[h].side = other /\ book.pool[h].price = p
      /\ \A j \in Live(book) : <<j, h>> \notin book.older
      /\ \A j \in Members(book, other, p) : j = h \/ <<h, j>> \in book.older
  BY <1>3, <1>5, HeadIsOldest
<1>7. /\ c.pc = "collect" /\ c.idx = call.idx /\ c.matches = call.matches
      /\ c.todo = call.todo \ {p} /\ c.cur = h /\ c.remaining = call.remaining
  BY <1>1, <1>2, <1>3 DEF CollectFrame
<1> HIDE DEF c, h, other
<1>8. FrontMatched(book, call) /\ NothingSkipped(book, call)
  BY <1>1 DEF PriorityInv, Prioritised
<1>9. FrontMatched(book, c)
  BY <1>7, <1>8 DEF FrontMatched, InReach, Others, MatchedUpTo
<1>10. InReach(book, c, p)
  BY <1>7, <1>8 DEF NothingSkipped, InReach
<1>11. ASSUME NEW j \in Others(book, c), Ahead(book, j, h)
       PROVE  IsMatched(c, j)
  <2>1. j \in Live(book) /\ book.pool[j].price \in Price
    BY <1>3, LiveSlot DEF Others, PoolOrder
  <2>2. Better(other, book.pool[j].price, p)
    BY <1>6, <1>11, <2>1 DEF Ahead
  <2>3. book.pool[j].price \notin call.todo
    BY <1>2, <2>2 DEF IsBest
  <2>4. InReach(book, call, book.pool[j].price)
    BY <1>4, <1>5, <1>7, <1>10, <2>1, <2>2, BetterInReach DEF InReach, other, Aggressor
  <2> QED BY <1>1, <1>7, <1>8, <2>3, <2>4 DEF NothingSkipped, Others, IsMatched
<1>12. ASSUME NEW j \in Others(book, c), InReach(book, c, book.pool[j].price)
       PROVE  \/ book.pool[j].price \in c.todo
              \/ IsMatched(c, j)
              \/ j = h \/ <<h, j>> \in book.older
  <2>1. book.pool[j].price \in call.todo \/ IsMatched(call, j)
    BY <1>1, <1>7, <1>8, <1>12 DEF NothingSkipped, Others, InReach
  <2>2. CASE book.pool[j].price = p
    <3>1. j \in Members(book, other, p)
      BY <1>7, <2>2 DEF Others, Members, other, Aggressor
    <3> QED BY <1>6, <3>1
  <2>3. CASE book.pool[j].price # p
    BY <1>7, <2>1, <2>3 DEF IsMatched
  <2> QED BY <2>2, <2>3
<1>13. NothingSkipped(book, c)
  <2>1. \A q \in c.todo : InReach(book, c, q)
    BY <1>7, <1>8 DEF NothingSkipped, InReach
  <2>2. c.remaining > 0 => \A k \in DOMAIN c.matches :
           c.matches[k].qty = book.pool[c.matches[k].idx].quantity
    BY <1>7, <1>8 DEF NothingSkipped
  <2>3. c.cur # NULL_IDX
    BY <1>3, <1>6, <1>7, LiveSlot DEF Idx, NULL_IDX
  <2> QED BY <1>6, <1>7, <1>10, <1>11, <1>12, <2>1, <2>2, <2>3 DEF NothingSkipped
<1> QED BY <1>1, <1>7, <1>9, <1>13 DEF PriorityInv, Prioritised, c

\* CollectFOK takes the order at hand: the next one is the next in priority.
LEMMA CollectOrderInOrder ==
    ASSUME IInv, PriorityInv, CollectOrder
    PROVE  PriorityInv'
<1> DEFINE cur == call.cur
           o == book.pool[cur]
           q == MinOf(call.remaining, o.quantity)
           e == [idx |-> cur, qty |-> q]
           n == o.next
           c == call'
<1>1. /\ call.pc = "collect" /\ book' = book /\ cur # NULL_IDX /\ call.remaining > 0
      /\ c = [call EXCEPT !.matches = Append(call.matches, e),
                          !.remaining = call.remaining - q, !.cur = n]
  BY DEF CollectOrder
<1>2. /\ call \in CollectFrame /\ GoodBook(book, {call.idx}) /\ Scanning(book, call)
      /\ call.matches \in Seq(FokMatch)
  BY <1>1, CollectState
<1>3. FrontMatched(book, call) /\ NothingSkipped(book, call)
  BY <1>1 DEF PriorityInv, Prioritised
<1>4. /\ cur \in Live(book) /\ cur \in Idx /\ o \in PoolOrder
      /\ o.side = Opposite(book.pool[call.idx].side)
  BY <1>1, <1>2, LiveSlot DEF Scanning
<1>5. q \in Quantity /\ (call.remaining - q > 0 => q = o.quantity)
  <2>1. call.remaining \in Quantity /\ o.quantity \in Quantity
    BY <1>2, <1>4 DEF CollectFrame, PoolOrder
  <2> HIDE DEF o
  <2> QED BY <2>1, NumericAssumption DEF MinOf, Quantity
<1>6. e \in FokMatch /\ e.idx = cur /\ e.qty = q
  BY <1>4, <1>5 DEF FokMatch
<1> DEFINE ms == Append(call.matches, e)
<1>7. /\ Len(ms) = Len(call.matches) + 1 /\ DOMAIN ms = 1 .. Len(call.matches) + 1
      /\ DOMAIN call.matches = 1 .. Len(call.matches) /\ Len(call.matches) \in Nat
      /\ \A k \in DOMAIN call.matches : ms[k] = call.matches[k]
      /\ ms[Len(call.matches) + 1] = e
  BY <1>2, <1>6
<1>8. /\ c.pc = "collect" /\ c.idx = call.idx /\ c.matches = ms
      /\ c.todo = call.todo /\ c.cur = n /\ c.remaining = call.remaining - q
  BY <1>1, <1>2 DEF CollectFrame
<1>9. /\ n = NULL_IDX => \A j \in Live(book) : <<cur, j>> \notin book.older
      /\ n # NULL_IDX =>
           /\ n \in Live(book) /\ SameLevel(book, cur, n) /\ <<cur, n>> \in book.older
           /\ \A j \in Live(book) : ~(<<cur, j>> \in book.older /\ <<j, n>> \in book.older)
  <2>1. <<cur, NULL_IDX>> \notin book.older
    <3>1. NULL_IDX \notin Live(book)
      BY <1>2, LiveSlot DEF Idx, NULL_IDX
    <3> QED BY <1>2, <3>1, OlderInLevel
  <2>2. n = NULL_IDX => \A j \in Live(book) : <<cur, j>> \notin book.older
    BY <1>2, <1>4, <2>1 DEF GoodBook, LinkedInOrder
  <2>3. n # NULL_IDX => n \in Live(book) /\ SameLevel(book, cur, n)
    BY <1>2, <1>4 DEF GoodBook, NeighboursLinked
  <2>4. n # NULL_IDX =>
           /\ <<cur, n>> \in book.older
           /\ \A j \in Live(book) : ~(<<cur, j>> \in book.older /\ <<j, n>> \in book.older)
    BY <1>2, <1>4 DEF GoodBook, LinkedInOrder
  <2> QED BY <2>2, <2>3, <2>4
<1> HIDE DEF c, e, q, ms, n, o, cur
<1> DEFINE len == Len(call.matches)
<1>10. \A j : IsMatched(c, j) <=> (IsMatched(call, j) \/ j = cur)
  <2>1. len + 1 \in DOMAIN ms /\ DOMAIN call.matches \subseteq DOMAIN ms
    BY <1>7
  <2>2. \A k \in DOMAIN ms : k \in DOMAIN call.matches \/ k = len + 1
    BY <1>7
  <2> QED BY <1>6, <1>7, <1>8, <2>1, <2>2 DEF IsMatched
<1>11. Others(book, c) = Others(book, call) /\ \A p : InReach(book, c, p) <=> InReach(book, call, p)
  BY <1>8 DEF Others, InReach
<1>12. InReach(book, call, o.price) /\ \A j \in Others(book, call) : Ahead(book, j, cur) => IsMatched(call, j)
  BY <1>1, <1>3 DEF NothingSkipped, cur, o
<1>13. \A k \in DOMAIN call.matches : call.matches[k].qty = book.pool[call.matches[k].idx].quantity
  BY <1>1, <1>3 DEF NothingSkipped
<1>14. FrontMatched(book, c)
  <2>1. book.pool[c.idx].orderId \notin DOMAIN book.orderMap
    BY <1>3, <1>8 DEF FrontMatched
  <2>2. ASSUME NEW k \in DOMAIN ms
        PROVE  /\ InReach(book, c, book.pool[ms[k].idx].price)
               /\ \A j \in Others(book, c) : Ahead(book, j, ms[k].idx) => MatchedUpTo(c, k, j)
               /\ k < Len(ms) => ms[k].qty = book.pool[ms[k].idx].quantity
    <3>1. CASE k \in DOMAIN call.matches
      <4>1. ms[k] = call.matches[k] /\ DOMAIN call.matches \subseteq DOMAIN ms
        BY <1>7, <3>1
      <4>2. \A j : MatchedUpTo(call, k, j) => MatchedUpTo(c, k, j)
        BY <1>7, <1>8, <4>1 DEF MatchedUpTo
      <4> QED BY <1>3, <1>11, <1>13, <3>1, <4>1, <4>2 DEF FrontMatched
    <3>2. CASE k = len + 1
      <4>1. ms[k].idx = cur
        BY <1>6, <1>7, <3>2
      <4>2. \A j : IsMatched(call, j) => MatchedUpTo(c, k, j)
        <5>1. \A l \in DOMAIN call.matches : l \in DOMAIN ms /\ l < k /\ ms[l] = call.matches[l]
          BY <1>7, <3>2
        <5> QED BY <1>8, <5>1 DEF IsMatched, MatchedUpTo
      <4>3. ~(k < Len(ms))
        BY <1>7, <3>2
      <4> QED BY <1>11, <1>12, <4>1, <4>2, <4>3 DEF o
    <3> QED BY <1>7, <3>1, <3>2
  <2> QED BY <1>8, <2>1, <2>2 DEF FrontMatched
<1>15. ASSUME n # NULL_IDX
       PROVE  /\ InReach(book, c, book.pool[n].price)
              /\ \A j \in Others(book, c) : Ahead(book, j, n) => IsMatched(c, j)
  <2>1. InReach(book, c, book.pool[n].price)
    BY <1>9, <1>11, <1>12, <1>15 DEF SameLevel, o
  <2>2. ASSUME NEW j \in Others(book, c), Ahead(book, j, n)
        PROVE  j = cur \/ Ahead(book, j, cur)
    <3>1. CASE <<j, n>> \in book.older
      <4>1. j \in Live(book) /\ SameLevel(book, j, n)
        <5>1. j \in Live(book) /\ n \in Live(book)
          BY <1>9, <1>15 DEF Others
        <5>2. book.pool[j].side = book.pool[n].side /\ book.pool[j].price = book.pool[n].price
          BY <1>2, <3>1, <5>1, OlderInLevel
        <5> QED BY <5>1, <5>2 DEF SameLevel
      <4>2. SameLevel(book, cur, j) /\ <<cur, j>> \notin book.older
        BY <1>9, <1>15, <3>1, <4>1 DEF SameLevel
      <4> QED BY <1>2, <1>4, <4>1, <4>2 DEF Ahead, GoodBook, Ordered
    <3>2. CASE <<j, n>> \notin book.older
      BY <1>9, <1>15, <2>2, <3>2 DEF Ahead, SameLevel
    <3> QED BY <3>1, <3>2
  <2>3. \A j \in Others(book, c) : Ahead(book, j, n) => IsMatched(c, j)
    BY <1>10, <1>11, <1>12, <2>2
  <2> QED BY <2>1, <2>3
<1>16. ASSUME NEW j \in Others(book, c), InReach(book, c, book.pool[j].price)
       PROVE  \/ book.pool[j].price \in c.todo
              \/ IsMatched(c, j)
              \/ n # NULL_IDX /\ (j = n \/ <<n, j>> \in book.older)
  <2>1. \/ book.pool[j].price \in call.todo \/ IsMatched(call, j)
        \/ j = cur \/ <<cur, j>> \in book.older
    BY <1>3, <1>11, <1>16 DEF NothingSkipped, cur
  <2>2. CASE <<cur, j>> \in book.older
    <3>1. j \in Live(book) /\ SameLevel(book, cur, j)
      <4>1. j \in Live(book)
        BY DEF Others
      <4>2. book.pool[cur].side = book.pool[j].side /\ book.pool[cur].price = book.pool[j].price
        BY <1>2, <1>4, <2>2, <4>1, OlderInLevel
      <4> QED BY <4>1, <4>2 DEF SameLevel
    <3>2. n # NULL_IDX /\ n \in Live(book) /\ SameLevel(book, n, j) /\ <<j, n>> \notin book.older
      BY <1>9, <2>2, <3>1 DEF SameLevel
    <3> QED BY <1>2, <3>1, <3>2 DEF GoodBook, Ordered
  <2> QED BY <1>8, <1>10, <2>1, <2>2
<1>17. c.remaining > 0 => \A k \in DOMAIN ms : ms[k].qty = book.pool[ms[k].idx].quantity
  <2>1. \A k \in DOMAIN ms : k \in DOMAIN call.matches \/ k = len + 1
    BY <1>7
  <2> QED BY <1>5, <1>6, <1>7, <1>8, <1>13, <2>1 DEF o
<1>18. NothingSkipped(book, c)
  <2>1. \A p \in c.todo : InReach(book, c, p)
    BY <1>3, <1>8, <1>11 DEF NothingSkipped
  <2> QED BY <1>8, <1>15, <1>16, <1>17, <2>1 DEF NothingSkipped
<1> QED BY <1>1, <1>8, <1>14, <1>18 DEF PriorityInv, Prioritised, c

\* The replay begins with the matches of the scan.
LEMMA CollectEndInOrder ==
    ASSUME IInv, PriorityInv, CollectEnd
    PROVE  PriorityInv'
<1>1. /\ call.pc = "collect" /\ book' = book
      /\ call'.pc = "execute" /\ call'.idx = call.idx /\ call'.matches = call.matches
  BY DEF CollectEnd
<1>2. FrontMatched(book, call)
  BY <1>1 DEF PriorityInv, Prioritised
<1>3. FrontMatched(book', call')
  BY <1>1, <1>2 DEF FrontMatched, InReach, Others, MatchedUpTo
<1> QED BY <1>1, <1>3 DEF PriorityInv, Prioritised

\* ExecuteFOK replays a match: what remains is the front of what remains.
LEMMA ExecuteStepInOrder ==
    ASSUME IInv, PriorityInv, ExecuteStep
    PROVE  PriorityInv'
<1> DEFINE i == Head(call.matches).idx
           q == Head(call.matches).qty
           gone == Spent(book, i, q)
           b == book'
           c == call'
<1>1. ExecuteEffect(i, q)
  BY ExecuteStepEffect
<1> HIDE DEF i, q
<1>2. call.pc = "execute" /\ GoodBook(book, {call.idx}) /\ Collected(book, Aggressor.side, call.matches)
  BY DEF ExecuteStep, IInv, StateOK, Reserved, Aggressor
<1>3. FrontMatched(book, call)
  BY <1>2 DEF PriorityInv, Prioritised
<1>4. /\ call.matches \in Seq(FokMatch) /\ 1 \in DOMAIN call.matches
      /\ i = call.matches[1].idx /\ q = call.matches[1].qty
      /\ i \in Live(book) /\ i # call.idx /\ call.idx \in Idx \ Live(book)
      /\ Shrunk(book, b, gone) /\ SameQuantity(book, b, {i, call.idx})
      /\ c.pc = "execute" /\ c.idx = call.idx
      /\ \A k \in DOMAIN c.matches : /\ k \in Nat /\ k + 1 \in DOMAIN call.matches
                                     /\ c.matches[k] = call.matches[k + 1]
      /\ Len(c.matches) = Len(call.matches) - 1
      /\ c.matches \in Seq(FokMatch)
  BY <1>1 DEF ExecuteEffect
<1> HIDE DEF b, c, gone
<1>5. gone \subseteq {i} /\ \A j \in Live(book) : j \in Idx
  BY <1>2, LiveSlot DEF gone, Spent
<1>6. /\ \A j \in Idx \ gone : /\ b.pool[j].orderId = book.pool[j].orderId
                               /\ b.pool[j].side = book.pool[j].side
                               /\ b.pool[j].price = book.pool[j].price
      /\ Live(b) = Live(book) \ gone
      /\ \A j, k \in Live(b) : <<j, k>> \in b.older <=> <<j, k>> \in book.older
      /\ DOMAIN b.orderMap \subseteq DOMAIN book.orderMap
  BY <1>4 DEF Shrunk
<1>7. /\ b.pool[call.idx].side = book.pool[call.idx].side
      /\ b.pool[call.idx].price = book.pool[call.idx].price
      /\ b.pool[call.idx].orderId = book.pool[call.idx].orderId
  BY <1>4, <1>5, <1>6
<1>8. \A k \in DOMAIN call.matches : k \in Nat /\ k >= 1 /\ k <= Len(call.matches)
  BY <1>4
<1>9. ASSUME NEW k \in DOMAIN c.matches
      PROVE  LET m == call.matches[k + 1]
             IN  /\ k \in Nat /\ k >= 1 /\ k + 1 \in DOMAIN call.matches /\ c.matches[k] = m
                 /\ m.idx \in Live(book) /\ m.idx \in Live(b)
                 /\ m.idx # i /\ m.idx # call.idx
  <2>1. k \in Nat /\ k >= 1 /\ k + 1 \in DOMAIN call.matches /\ c.matches[k] = call.matches[k + 1]
    BY <1>4
  <2>2. call.matches[k + 1].idx \in Live(book) /\ call.matches[k + 1].idx # i
    <3>1. k + 1 # 1
      BY <2>1
    <3> QED BY <1>2, <1>4, <2>1, <3>1 DEF Collected
  <2> QED BY <1>4, <1>5, <1>6, <2>1, <2>2
<1>10. ASSUME NEW k \in DOMAIN c.matches
       PROVE  InReach(b, c, b.pool[c.matches[k].idx].price)
  <2>1. InReach(book, call, book.pool[c.matches[k].idx].price)
    BY <1>3, <1>9 DEF FrontMatched
  <2> QED BY <1>4, <1>5, <1>6, <1>7, <1>9, <2>1 DEF InReach
<1>11. ASSUME NEW k \in DOMAIN c.matches, k < Len(c.matches)
       PROVE  c.matches[k].qty = b.pool[c.matches[k].idx].quantity
  <2>1. k + 1 < Len(call.matches)
    BY <1>4, <1>9, <1>11
  <2>2. c.matches[k].qty = book.pool[c.matches[k].idx].quantity
    BY <1>3, <1>9, <2>1 DEF FrontMatched
  <2> QED BY <1>4, <1>5, <1>9, <2>2 DEF SameQuantity
<1>12. ASSUME NEW k \in DOMAIN c.matches, NEW j \in Others(b, c),
              Ahead(b, j, c.matches[k].idx)
       PROVE  MatchedUpTo(c, k, j)
  <2> DEFINE m == c.matches[k].idx
  <2>1. /\ j \in Live(b) /\ j \in Live(book) /\ j \in Others(book, call)
        /\ m \in Live(b) /\ m = call.matches[k + 1].idx
        /\ b.pool[j].price = book.pool[j].price /\ b.pool[m].price = book.pool[m].price
        /\ b.pool[m].side = book.pool[m].side
    BY <1>4, <1>5, <1>6, <1>7, <1>9 DEF Others
  <2>2. Ahead(book, j, m)
    BY <1>6, <1>12, <2>1 DEF Ahead
  <2>3. PICK l \in DOMAIN call.matches : l < k + 1 /\ call.matches[l].idx = j
    BY <1>3, <1>9, <2>1, <2>2 DEF FrontMatched, MatchedUpTo
  <2>4. l # 1
    <3> SUFFICES ASSUME l = 1 PROVE FALSE
      OBVIOUS
    <3>1. 1 < Len(call.matches)
      BY <1>8, <1>9
    <3>2. q = book.pool[i].quantity /\ j = i
      BY <1>3, <1>4, <2>3, <3>1 DEF FrontMatched
    <3>3. j \in gone
      BY <3>2 DEF gone, Spent
    <3> QED BY <1>6, <2>1, <3>3
  <2>5. l - 1 \in DOMAIN c.matches /\ (l - 1) + 1 = l /\ l - 1 < k
    <3>1. l \in Nat /\ l >= 2 /\ l <= Len(call.matches)
      BY <1>8, <2>4
    <3>2. DOMAIN c.matches = 1 .. Len(call.matches) - 1
      BY <1>4
    <3>3. k \in Nat /\ Len(call.matches) \in Nat
      BY <1>4, <1>9
    <3> QED BY <2>3, <3>1, <3>2, <3>3
  <2>6. c.matches[l - 1].idx = j
    BY <1>9, <2>3, <2>5
  <2> QED BY <2>5, <2>6 DEF MatchedUpTo
<1>13. FrontMatched(b, c)
  <2>1. b.pool[c.idx].orderId \notin DOMAIN b.orderMap
    BY <1>3, <1>4, <1>6, <1>7 DEF FrontMatched
  <2> QED BY <1>10, <1>11, <1>12, <2>1 DEF FrontMatched
<1> QED BY <1>4, <1>13 DEF PriorityInv, Prioritised, b, c

\* Every step of every call keeps PriorityInv.
LEMMA NextInOrder ==
    ASSUME IInv, PriorityInv, [Next]_vars
    PROVE  PriorityInv'
<1>1. CASE UNCHANGED vars
  BY <1>1 DEF vars, PriorityInv
<1>2. CASE CollectLevel
  BY <1>2, CollectLevelInOrder
<1>3. CASE CollectOrder
  BY <1>3, CollectOrderInOrder
<1>4. CASE CollectEnd
  BY <1>4, CollectEndInOrder
<1>5. CASE ExecuteStep
  BY <1>5, ExecuteStepInOrder
<1>6. ASSUME call'.pc \notin {"collect", "execute"}
      PROVE  PriorityInv'
  BY <1>6 DEF PriorityInv, Prioritised
<1>7. CASE MatchStep
  <2>1. PICK bp, ap, x, y, q : MatchEffect(bp, ap, x, y, q)
    BY <1>7, MatchStepEffect
  <2>2. call'.pc = "match"
    BY <2>1 DEF MatchEffect
  <2> QED BY <1>6, <2>2
<1>8. ASSUME GoodBook(book, {}),
             NEW type \in OrderType, NEW id \in OrderId, NEW side \in Side, NEW price \in Price,
             NEW qty \in Quantity, Adding(type, id, side, price, qty)
      PROVE  PriorityInv'
  <2>1. CASE call'.pc = "collect"
    <3>1. /\ id \in OrderId \ DOMAIN book.orderMap /\ book.freeList # <<>>
          /\ StartFillOrKill(id, side, price, qty)
      BY <1>8, <2>1, AddOrderCases DEF Adding
    <3> QED BY <1>8, <3>1, FillOrKillStartsInOrder
  <2>2. CASE call'.pc # "collect"
    <3>1. call'.pc \in {"idle", "match"}
      BY <1>8, <2>2, AddOrderCases DEF Adding
    <3> QED BY <1>6, <3>1
  <2> QED BY <2>1, <2>2
<1>9. CASE \/ \E id \in OrderId : CancelOrder(id)
           \/ CancelGoodForDayOrders \/ CancelNext \/ CancelAllEnd
           \/ \E rules \in RuleSets : SetExchangeRules(rules)
           \/ \E id \in OrderId, side \in Side, price \in LimitPrices, qty \in ModifyQuantities :
                 ModifyOrder(id, side, price, qty)
           \/ MatchEnd \/ Kill \/ ExecuteEnd
  BY <1>6, <1>9, PlainCall
<1> QED BY <1>1, <1>2, <1>3, <1>4, <1>5, <1>7, <1>8, <1>9, StepCases

-----------------------------------------------------------------------------
(* The theorems about priority and limits.                                  *)

\* The front of the other side is what a FillOrKill order has matched, at every
\* step of CollectFOK and of ExecuteFOK.
THEOREM FillOrKillTakesTheFront == Spec => []PriorityInv
<1>1. Init => PriorityInv
  BY DEF Init, Idle, PriorityInv, Prioritised
<1>2. IInv /\ PriorityInv /\ [Next]_vars => PriorityInv'
  BY NextInOrder
<1> QED BY <1>1, <1>2, Inductive, PTL DEF Spec

\* Only MatchStep and ExecuteStep trade.
LEMMA WhoTrades ==
    ASSUME IInv, [Next]_vars, Trading
    PROVE  MatchStep \/ ExecuteStep
<1>1. call.pc \in {"match", "execute"} /\ call'.pc = call.pc
  BY DEF Trading
<1>2. CASE UNCHANGED vars
  <2>1. call'.trades = call.trades /\ call \in Frame
    BY <1>2 DEF vars, IInv, StateOK
  <2>2. call.trades \in Seq(Trade)
    BY <1>1, <2>1, FrameByPc DEF MatchFrame, ExecuteFrame
  <2>3. ~(Len(call.trades) > Len(call.trades))
    BY <2>2
  <2> QED BY <2>1, <2>3 DEF Trading
<1>3. CASE CollectLevel \/ CollectOrder \/ CollectEnd
  BY <1>1, <1>3 DEF CollectLevel, CollectOrder, CollectEnd
<1>4. CASE call.pc \in {"idle", "readd"}
  BY <1>1, <1>4
<1>5. CASE \/ \E id \in OrderId : CancelOrder(id)
           \/ CancelGoodForDayOrders \/ CancelNext \/ CancelAllEnd
           \/ \E rules \in RuleSets : SetExchangeRules(rules)
           \/ \E id \in OrderId, side \in Side, price \in LimitPrices, qty \in ModifyQuantities :
                 ModifyOrder(id, side, price, qty)
           \/ MatchEnd \/ Kill \/ ExecuteEnd
  <2>1. call'.pc \in {"idle", "readd", "cancelAll"}
    BY <1>5, PlainCall
  <2> QED BY <1>1, <2>1
<1> QED BY <1>2, <1>3, <1>4, <1>5, StepCases

\* The last of a sequence with one more element.
LEMMA AppendLast ==
    ASSUME NEW S, NEW s \in Seq(S), NEW e
    PROVE  Append(s, e)[Len(Append(s, e))] = e
OBVIOUS

\* The trade of a MatchStep is between the heads of the best levels.
LEMMA MatchTrade ==
    ASSUME IInv, NEW bp, NEW ap, NEW x, NEW y, NEW q, MatchEffect(bp, ap, x, y, q), MatchStep
    PROVE  /\ GoodBook(book, {}) /\ bp \in Price /\ ap \in Price
           /\ Traded = {x, y} /\ LastTrade.price = TradePrice(call.side, bp, ap)
           /\ book.pool[x].side = "Buy" /\ book.pool[x].price = bp
           /\ book.pool[y].side = "Sell" /\ book.pool[y].price = ap
           /\ \A j \in Live(book) : <<j, x>> \notin book.older /\ <<j, y>> \notin book.older
<1>1. call.pc = "match" /\ call \in MatchFrame /\ GoodBook(book, {})
  BY FrameByPc, PlainState DEF IInv, StateOK, MatchStep
<1> DEFINE t == [ bidOrderId |-> book.pool[x].orderId, askOrderId |-> book.pool[y].orderId,
                  price |-> TradePrice(call.side, bp, ap), quantity |-> q ]
<1>2. call'.trades = Append(call.trades, t) /\ x \in Live(book) /\ y \in Live(book)
  BY DEF MatchEffect
<1>3. LastTrade = t
  BY <1>1, <1>2, AppendLast DEF LastTrade, MatchFrame
<1>4. /\ book.pool[x].orderId \in DOMAIN book.orderMap /\ book.orderMap[book.pool[x].orderId] = x
      /\ book.pool[y].orderId \in DOMAIN book.orderMap /\ book.orderMap[book.pool[y].orderId] = y
  BY <1>1, <1>2, LiveSlot
<1>5. Traded = {x, y}
  BY <1>3, <1>4 DEF Traded
<1>6. "Buy" \in Side /\ "Sell" \in Side
  BY DEF Side
<1>7. /\ bp \in DOMAIN book.levels["Buy"] /\ x = book.levels["Buy"][bp].head
      /\ ap \in DOMAIN book.levels["Sell"] /\ y = book.levels["Sell"][ap].head
  BY DEF MatchEffect, BidPrices, AskPrices
<1>8. bp \in Price /\ ap \in Price
  BY <1>1, <1>6, <1>7 DEF GoodBook, IsBook, IsPartialFunction
<1>9. /\ book.pool[x].side = "Buy" /\ book.pool[x].price = bp
      /\ \A j \in Live(book) : <<j, x>> \notin book.older
  BY <1>1, <1>6, <1>7, HeadIsOldest
<1>10. /\ book.pool[y].side = "Sell" /\ book.pool[y].price = ap
       /\ \A j \in Live(book) : <<j, y>> \notin book.older
  BY <1>1, <1>6, <1>7, HeadIsOldest
<1> QED BY <1>1, <1>3, <1>5, <1>8, <1>9, <1>10

\* The trade of an ExecuteStep is with the first of the matches.
LEMMA ExecuteTrade ==
    ASSUME IInv, PriorityInv, NEW i, NEW q, ExecuteEffect(i, q), ExecuteStep
    PROVE  /\ GoodBook(book, {call.idx}) /\ FrontMatched(book, call)
           /\ i \in Others(book, call) /\ call.matches[1].idx = i /\ 1 \in DOMAIN call.matches
           /\ Traded = {i} /\ LastTrade.price = book.pool[i].price
<1>1. call.pc = "execute" /\ call \in ExecuteFrame /\ GoodBook(book, {call.idx})
      /\ Collected(book, Aggressor.side, call.matches)
  BY FrameByPc DEF IInv, StateOK, ExecuteStep, Reserved, Aggressor
<1>2. FrontMatched(book, call)
  BY <1>1 DEF PriorityInv, Prioritised
<1> DEFINE buy == Aggressor.side = "Buy"
           t == [ bidOrderId |-> IF buy THEN Aggressor.orderId ELSE book.pool[i].orderId,
                  askOrderId |-> IF buy THEN book.pool[i].orderId ELSE Aggressor.orderId,
                  price |-> book.pool[i].price, quantity |-> q ]
<1>3. /\ call'.trades = Append(call.trades, t) /\ i \in Live(book)
      /\ call.matches[1].idx = i /\ 1 \in DOMAIN call.matches
  BY DEF ExecuteEffect
<1>4. LastTrade = t
  BY <1>1, <1>3, AppendLast DEF LastTrade, ExecuteFrame
<1>5. /\ book.pool[i].orderId \in DOMAIN book.orderMap /\ book.orderMap[book.pool[i].orderId] = i
      /\ Aggressor.orderId \notin DOMAIN book.orderMap
  BY <1>1, <1>2, <1>3, LiveSlot DEF FrontMatched, Aggressor
<1>6. {t.bidOrderId, t.askOrderId} \cap DOMAIN book.orderMap = {book.pool[i].orderId}
  BY <1>5
<1>7. Traded = {i}
  BY <1>4, <1>5, <1>6 DEF Traded
<1>8. i \in Others(book, call)
  BY <1>1, <1>3 DEF Collected, Others, Aggressor
<1> QED BY <1>1, <1>2, <1>3, <1>4, <1>7, <1>8

\* Every trade respects price-time priority.
LEMMA TradeInOrder ==
    ASSUME IInv, PriorityInv, [Next]_vars, Trading
    PROVE  \A i \in Traded : \A j \in Live(book) :
              book.pool[j].side = book.pool[i].side =>
                /\ ~Better(book.pool[i].side, book.pool[j].price, book.pool[i].price)
                /\ <<j, i>> \notin book.older
<1>1. CASE MatchStep
  <2>1. PICK bp, ap, x, y, q : MatchEffect(bp, ap, x, y, q)
    BY <1>1, MatchStepEffect
  <2>2. /\ GoodBook(book, {}) /\ Traded = {x, y}
        /\ book.pool[x].side = "Buy" /\ book.pool[x].price = bp
        /\ book.pool[y].side = "Sell" /\ book.pool[y].price = ap
        /\ \A j \in Live(book) : <<j, x>> \notin book.older /\ <<j, y>> \notin book.older
    BY <1>1, <2>1, MatchTrade
  <2>3. IsBest("Buy", bp, BidPrices) /\ IsBest("Sell", ap, AskPrices)
    BY <2>1 DEF MatchEffect, CanTrade
  <2>4. \A j \in Live(book) : book.pool[j].price \in DOMAIN book.levels[book.pool[j].side]
    BY <2>2, LiveSlot
  <2>5. \A j \in Live(book) :
           /\ book.pool[j].side = "Buy" => ~Better("Buy", book.pool[j].price, bp)
           /\ book.pool[j].side = "Sell" => ~Better("Sell", book.pool[j].price, ap)
    BY <2>3, <2>4 DEF IsBest, BidPrices, AskPrices
  <2> QED BY <2>2, <2>5
<1>2. CASE ExecuteStep
  <2> DEFINE i == Head(call.matches).idx
  <2>1. ExecuteEffect(i, Head(call.matches).qty)
    BY <1>2, ExecuteStepEffect
  <2> HIDE DEF i
  <2>2. /\ FrontMatched(book, call) /\ i \in Others(book, call)
        /\ call.matches[1].idx = i /\ 1 \in DOMAIN call.matches /\ Traded = {i}
    BY <1>2, <2>1, ExecuteTrade
  <2>3. call.matches \in Seq(FokMatch)
    BY <2>1 DEF ExecuteEffect
  <2>4. \A j : ~MatchedUpTo(call, 1, j)
    BY <2>3 DEF MatchedUpTo
  <2>5. \A j \in Others(book, call) : ~Ahead(book, j, i)
    BY <2>2, <2>4 DEF FrontMatched
  <2>6. \A j \in Live(book) : book.pool[j].side = book.pool[i].side => j \in Others(book, call)
    BY <2>2 DEF Others
  <2> QED BY <2>2, <2>5, <2>6 DEF Ahead
<1> QED BY <1>1, <1>2, WhoTrades

\* The price of every trade is within the limits of the orders that trade.
LEMMA TradeWithin ==
    ASSUME IInv, PriorityInv, [Next]_vars, Trading
    PROVE  \A i \in Traded \cup InFlight :
              IF book.pool[i].side = "Buy" THEN LastTrade.price <= book.pool[i].price
                                          ELSE LastTrade.price >= book.pool[i].price
<1>1. CASE MatchStep
  <2>1. PICK bp, ap, x, y, q : MatchEffect(bp, ap, x, y, q)
    BY <1>1, MatchStepEffect
  <2>2. /\ Traded = {x, y} /\ LastTrade.price = TradePrice(call.side, bp, ap)
        /\ bp \in Price /\ ap \in Price
        /\ book.pool[x].side = "Buy" /\ book.pool[x].price = bp
        /\ book.pool[y].side = "Sell" /\ book.pool[y].price = ap
    BY <1>1, <2>1, MatchTrade
  <2>3. bp >= ap /\ bp \in Int /\ ap \in Int
    <3>1. bp >= ap
      BY <2>1 DEF MatchEffect, CanTrade
    <3>2. Price \subseteq Int
      BY NumericAssumption DEF Price
    <3> QED BY <2>2, <3>1, <3>2
  <2>4. TradePrice(call.side, bp, ap) <= bp /\ TradePrice(call.side, bp, ap) >= ap
    BY <2>3 DEF TradePrice
  <2>5. InFlight = {}
    BY <1>1 DEF InFlight, MatchStep
  <2> QED BY <2>2, <2>4, <2>5
<1>2. CASE ExecuteStep
  <2> DEFINE i == Head(call.matches).idx
  <2>1. ExecuteEffect(i, Head(call.matches).qty)
    BY <1>2, ExecuteStepEffect
  <2> HIDE DEF i
  <2>2. /\ FrontMatched(book, call) /\ i \in Others(book, call) /\ GoodBook(book, {call.idx})
        /\ call.matches[1].idx = i /\ 1 \in DOMAIN call.matches
        /\ Traded = {i} /\ LastTrade.price = book.pool[i].price
    BY <1>2, <2>1, ExecuteTrade
  <2>3. book.pool[i].price \in Int
    <3>1. book.pool[i].price \in Price
      BY <2>2, LiveSlot DEF Others, PoolOrder
    <3> QED BY <3>1, NumericAssumption DEF Price
  <2>4. InFlight = {call.idx}
    BY <1>2 DEF InFlight, ExecuteStep
  <2>5. Reaches(book.pool[call.idx].side, book.pool[call.idx].price, book.pool[i].price)
    BY <2>2 DEF FrontMatched, InReach
  <2>6. LastTrade.price <= book.pool[i].price /\ LastTrade.price >= book.pool[i].price
    BY <2>2, <2>3
  <2>7. CASE book.pool[call.idx].side = "Buy"
    BY <2>2, <2>4, <2>5, <2>6, <2>7 DEF Reaches
  <2>8. CASE book.pool[call.idx].side # "Buy"
    BY <2>2, <2>4, <2>5, <2>6, <2>8 DEF Reaches
  <2> QED BY <2>7, <2>8
<1> QED BY <1>1, <1>2, WhoTrades

\* Whenever an order trades, in MatchOrders or in ExecuteFOK, no order of its
\* side has a better price and none of its level has been waiting longer.
THEOREM PriorityHolds == Spec => PriceTimePriority
<1> DEFINE P == Trading =>
         \A i \in Traded : \A j \in Live(book) :
             book.pool[j].side = book.pool[i].side =>
                 /\ ~Better(book.pool[i].side, book.pool[j].price, book.pool[i].price)
                 /\ <<j, i>> \notin book.older
<1>1. IInv /\ PriorityInv /\ [Next]_vars => [P]_vars
  BY TradeInOrder
<1>2. [][P]_vars => PriceTimePriority
  BY PTL DEF PriceTimePriority
<1> HIDE DEF P
<1> QED BY <1>1, <1>2, Inductive, FillOrKillTakesTheFront, PTL DEF Spec

\* Every trade is at a price between the limits of its two orders.
THEOREM LimitsHold == Spec => TradeWithinLimits
<1> DEFINE P == Trading =>
         LET aggressor == InFlight
         IN  \A i \in Traded \cup aggressor :
                IF book.pool[i].side = "Buy"
                THEN LastTrade.price <= book.pool[i].price
                ELSE LastTrade.price >= book.pool[i].price
<1>1. IInv /\ PriorityInv /\ [Next]_vars => [P]_vars
  BY TradeWithin
<1>2. [][P]_vars => TradeWithinLimits
  BY PTL DEF TradeWithinLimits
<1> HIDE DEF P
<1> QED BY <1>1, <1>2, Inductive, FillOrKillTakesTheFront, PTL DEF Spec

-----------------------------------------------------------------------------
(* Orders that never rest, and an order that always finds a slot.           *)

\* An order may be in the book: it is of a kind that rests, or it is the
\* ImmediateOrCancel order that the running call is matching.
MayRest(b, c, i) ==
    \/ b.pool[i].orderType \in {"GoodTillCancel", "GoodForDay"}
    \/ /\ b.pool[i].orderType = "ImmediateOrCancel"
       /\ c.pc = "match" /\ b.pool[i].orderId = c.iocId

\* Every order in the book may be there.
RestersInv == \A i \in Live(book) : MayRest(book, call, i)

\* Such a book stays so when orders leave it.
LEMMA ShrunkResters ==
    ASSUME NEW b, NEW reserved, GoodBook(b, reserved), NEW u, NEW gone, Shrunk(b, u, gone),
           NEW c, NEW d, c.pc # "match" \/ (d.pc = "match" /\ d.iocId = c.iocId),
           \A i \in Live(b) : MayRest(b, c, i)
    PROVE  \A i \in Live(u) : MayRest(u, d, i)
<1>1. \A i \in Live(u) : i \in Live(b) /\ i \in Idx \ gone
  BY LiveSlot DEF Shrunk
<1> QED BY <1>1 DEF Shrunk, MayRest

\* The order that a call of AddOrder lets in may be there.
LEMMA AddOrderResters ==
    ASSUME IInv, RestersInv, GoodBook(book, {}), call.pc \in {"idle", "readd"},
           NEW type \in OrderType, NEW id \in OrderId, NEW side \in Side,
           NEW price \in Price, NEW qty \in Quantity, AddOrderBody(type, id, side, price, qty)
    PROVE  RestersInv'
<1>1. \A i \in Live(book) : book.pool[i].orderType \in {"GoodTillCancel", "GoodForDay"}
  BY DEF RestersInv, MayRest
<1>2. CASE book' = book
  BY <1>1, <1>2 DEF RestersInv, MayRest
<1>3. CASE /\ id \notin DOMAIN book.orderMap /\ book.freeList # <<>>
           /\ StartFillOrKill(id, side, price, qty)
  <2> DEFINE i == AllocIdx(book)
             o == [ orderId |-> id, side |-> side, price |-> price, orderType |-> "FillOrKill",
                    quantity |-> qty, prev |-> NULL_IDX, next |-> NULL_IDX ]
  <2>1. Allocated(book, Alloc(book, "FillOrKill", id, side, price, qty), i, o)
    BY <1>3, AllocGood DEF OrderType
  <2>2. book' = Alloc(book, "FillOrKill", id, side, price, qty)
    BY <1>3 DEF StartFillOrKill
  <2> HIDE DEF o, i
  <2>3. Live(book') = Live(book) /\ \A j \in Live(book) : book'.pool[j] = book.pool[j]
    BY <2>1, <2>2 DEF Allocated
  <2> QED BY <1>1, <2>3 DEF RestersInv, MayRest
<1>4. CASE /\ id \notin DOMAIN book.orderMap /\ book.freeList # <<>>
           /\ type # "FillOrKill" /\ LimitType(type) \in OrderType
           /\ LimitPrice(type, side, price) \in Price
           /\ StartMatching(LimitType(type), id, side, LimitPrice(type, side, price), qty)
  <2> DEFINE kind == LimitType(type)  limit == LimitPrice(type, side, price)
             i == AllocIdx(book)
             u == InsertIntoBook(Alloc(book, kind, id, side, limit, qty), i)
             c == call'
  <2>1. /\ book' = u /\ c.pc = "match"
        /\ c.iocId = IF kind = "ImmediateOrCancel" THEN id ELSE NoOrder
    BY <1>4 DEF StartMatching
  <2>2. kind \in {"GoodTillCancel", "ImmediateOrCancel", "GoodForDay"}
    BY <1>4 DEF LimitType, OrderType
  <2>3. /\ kind \in OrderType /\ limit \in Price /\ id \in OrderId \ DOMAIN book.orderMap
        /\ book.freeList # <<>> /\ i = AllocIdx(book)
    BY <1>4
  <2>4. u = InsertIntoBook(Alloc(book, kind, id, side, limit, qty), i)
    OBVIOUS
  <2> HIDE DEF kind, limit, i, u, c
  <2>5. Grown(book, u, i) /\ u.pool[i].orderId = id /\ u.pool[i].orderType = kind
    BY <2>3, <2>4, AddGrows
  <2>6. \A j \in Live(u) : MayRest(u, c, j)
    BY <1>1, <2>1, <2>2, <2>5 DEF Grown, MayRest
  <2> QED BY <2>1, <2>6 DEF RestersInv, c
<1> QED BY <1>2, <1>3, <1>4, AddOrderCases

\* The matching loop ends: its ImmediateOrCancel order is cancelled by its id.
LEMMA MatchEndResters ==
    ASSUME IInv, RestersInv, MatchEnd
    PROVE  RestersInv'
<1> DEFINE id == call.iocId
           gone == IF id \in DOMAIN book.orderMap THEN {book.orderMap[id]} ELSE {}
<1>1. /\ GoodBook(book, {}) /\ book' = CancelledBook(book, id)
  BY PlainState DEF IInv, MatchEnd
<1> HIDE DEF id
<1>2. Shrunk(book, book', gone)
  BY <1>1, CancelShrinks
<1>3. ASSUME NEW i \in Live(book')
      PROVE  book'.pool[i].orderType \in {"GoodTillCancel", "GoodForDay"}
  <2>1. i \in Live(book) /\ i \in Idx \ gone
    BY <1>1, <1>2, <1>3, LiveSlot DEF Shrunk
  <2>2. book.orderMap[book.pool[i].orderId] = i /\ book.pool[i].orderId \in DOMAIN book.orderMap
    BY <1>1, <2>1, LiveSlot
  <2>3. book.pool[i].orderId # id
    BY <2>1, <2>2
  <2>4. book.pool[i].orderType \in {"GoodTillCancel", "GoodForDay"}
    BY <2>1, <2>3 DEF RestersInv, MayRest, id
  <2> QED BY <1>2, <2>1, <2>4 DEF Shrunk
<1> QED BY <1>3 DEF RestersInv, MayRest

\* Every step of every call lets only such orders in.
LEMMA NextResters ==
    ASSUME IInv, RestersInv, [Next]_vars
    PROVE  RestersInv'
<1>1. CASE UNCHANGED vars
  BY <1>1 DEF vars, RestersInv
<1>2. ASSUME GoodBook(book, {}), call.pc \in {"idle", "readd"},
             NEW type \in OrderType, NEW id \in OrderId, NEW side \in Side, NEW price \in Price,
             NEW qty \in Quantity, Adding(type, id, side, price, qty)
      PROVE  RestersInv'
  BY <1>2, AddOrderResters DEF Adding
<1>3. CASE MatchEnd
  BY <1>3, MatchEndResters
<1>4. CASE MatchStep
  <2>1. PICK bp, ap, x, y, q : MatchEffect(bp, ap, x, y, q)
    BY <1>4, MatchStepEffect
  <2>2. /\ Shrunk(book, book', Spent(book, x, q) \cup Spent(book, y, q))
        /\ call'.pc = "match" /\ call'.iocId = call.iocId
    BY <2>1 DEF MatchEffect
  <2>3. GoodBook(book, {})
    BY <1>4, PlainState DEF IInv, MatchStep
  <2> QED BY <2>2, <2>3, ShrunkResters DEF RestersInv
<1>5. CASE ExecuteStep
  <2>1. Shrunk(book, book', Spent(book, Head(call.matches).idx, Head(call.matches).qty))
    BY <1>5, ExecuteStepEffect DEF ExecuteEffect
  <2>2. call.pc # "match" /\ GoodBook(book, {call.idx})
    BY <1>5 DEF IInv, StateOK, Reserved, ExecuteStep
  <2> QED BY <2>1, <2>2, ShrunkResters DEF RestersInv
<1>6. ASSUME call.pc # "match", book' = book
      PROVE  RestersInv'
  BY <1>6 DEF RestersInv, MayRest
<1>7. CASE \/ CollectLevel \/ CollectOrder \/ CollectEnd \/ CancelGoodForDayOrders \/ CancelAllEnd
           \/ \E rules \in RuleSets : SetExchangeRules(rules)
  <2>1. call = Idle \/ call.pc \in {"collect", "cancelAll"}
    BY <1>7 DEF CollectLevel, CollectOrder, CollectEnd, CancelGoodForDayOrders, CancelAllEnd,
                SetExchangeRules
  <2>2. book' = book
    BY <1>7 DEF CollectLevel, CollectOrder, CollectEnd, CancelGoodForDayOrders, CancelAllEnd,
                SetExchangeRules
  <2>3. Idle.pc = "idle"
    BY DEF Idle
  <2> QED BY <1>6, <2>1, <2>2, <2>3
<1>8. CASE Kill \/ ExecuteEnd
  <2>1. book' = Free(book, call.idx) /\ call.pc \in {"collect", "execute"}
    BY <1>8 DEF Kill, ExecuteEnd
  <2>2. GoodBook(book, {call.idx})
    BY <2>1 DEF IInv, StateOK, Reserved
  <2>3. Shrunk(book, book', {call.idx})
    BY <2>1, <2>2, FreeShrinks
  <2> QED BY <2>1, <2>2, <2>3, ShrunkResters DEF RestersInv
<1>9. ASSUME call.pc # "match", GoodBook(book, {}), NEW id, book' = CancelledBook(book, id)
      PROVE  RestersInv'
  <2>1. PICK gone : Shrunk(book, book', gone)
    BY <1>9, CancelShrinks
  <2> QED BY <1>9, <2>1, ShrunkResters DEF RestersInv
<1>10. CASE CancelNext \/ \E id \in OrderId : CancelOrder(id)
  <2>1. call.pc \in {"idle", "cancelAll"} /\ \E id : book' = CancelledBook(book, id)
    BY <1>10 DEF CancelNext, CancelOrder, Idle
  <2>2. GoodBook(book, {})
    BY <2>1, PlainState DEF IInv
  <2> QED BY <1>9, <2>1, <2>2
<1>11. ASSUME NEW id \in OrderId, NEW side \in Side, NEW price \in LimitPrices,
              NEW qty \in ModifyQuantities, ModifyOrder(id, side, price, qty)
       PROVE  RestersInv'
  <2>1. call = Idle /\ call.pc = "idle"
    BY <1>11 DEF ModifyOrder, Idle
  <2>2. GoodBook(book, {})
    BY <2>1, PlainState DEF IInv
  <2>3. CASE book' = book
    BY <1>6, <2>1, <2>3
  <2>4. CASE book' = CancelledBook(book, id)
    BY <1>9, <2>1, <2>2, <2>4
  <2>5. CASE id \in DOMAIN book.orderMap /\ ModifyQuantity(book.orderMap[id], qty)
    <3>1. Shrunk(book, book', {})
      BY <2>2, <2>5, BookAssumption, ModifyShrinks
    <3> QED BY <2>1, <2>2, <3>1, ShrunkResters DEF RestersInv
  <2> QED BY <1>11, <2>3, <2>4, <2>5 DEF ModifyOrder
<1> QED BY <1>1, <1>2, <1>3, <1>4, <1>5, <1>7, <1>8, <1>10, <1>11, StepCases

\* What rests at any time is of a kind that rests, or is being matched.
THEOREM RestersAllowed == Spec => []RestersInv
<1>1. Init => RestersInv
  BY DEF Init, RestersInv, Live
<1>2. IInv /\ RestersInv /\ [Next]_vars => RestersInv'
  BY NextResters
<1> QED BY <1>1, <1>2, Inductive, PTL DEF Spec

\* Between two calls nothing of an ImmediateOrCancel, FillOrKill or Market order
\* is in the book under that type.
THEOREM ImmediateOrdersLeave == Spec => []ImmediateOrdersNeverRest
<1>1. RestersInv => ImmediateOrdersNeverRest
  BY DEF RestersInv, MayRest, ImmediateOrdersNeverRest, Idle
<1> QED BY <1>1, RestersAllowed, PTL

\* Only the first half of ModifyOrder leads to the second, and it has just given
\* a slot back.
LEMMA NextFindsSlot ==
    ASSUME IInv, ReAddFindsSlot, [Next]_vars
    PROVE  ReAddFindsSlot'
<1>1. CASE UNCHANGED vars
  BY <1>1 DEF vars, ReAddFindsSlot, PoolExhausted
<1>2. ASSUME call'.pc # "readd"
      PROVE  ReAddFindsSlot'
  BY <1>2 DEF ReAddFindsSlot
<1>3. ASSUME NEW id \in OrderId, NEW side \in Side, NEW price \in LimitPrices,
             NEW qty \in ModifyQuantities, ModifyOrder(id, side, price, qty)
      PROVE  ReAddFindsSlot'
  <2>1. call = Idle /\ call.pc = "idle"
    BY <1>3 DEF ModifyOrder, Idle
  <2>2. GoodBook(book, {})
    BY <2>1, PlainState DEF IInv
  <2>3. CASE call' = call
    BY <1>2, <2>1, <2>3
  <2>4. CASE id \in DOMAIN book.orderMap /\ book' = CancelledBook(book, id)
    <3>1. book'.freeList # <<>>
      BY <2>2, <2>4, CancelShrinks
    <3> QED BY <3>1 DEF ReAddFindsSlot, PoolExhausted
  <2> QED BY <1>3, <2>3, <2>4 DEF ModifyOrder
<1>4. ASSUME GoodBook(book, {}),
             NEW type \in OrderType, NEW id \in OrderId, NEW side \in Side, NEW price \in Price,
             NEW qty \in Quantity, Adding(type, id, side, price, qty)
      PROVE  ReAddFindsSlot'
  <2>1. call'.pc \in {"idle", "collect", "match"}
    BY <1>4, AddOrderCases DEF Adding
  <2> QED BY <1>2, <2>1
<1>5. CASE CollectLevel \/ CollectOrder \/ CollectEnd
  <2>1. call.pc = "collect" => call \in CollectFrame
    BY FrameByPc DEF IInv, StateOK
  <2>2. CASE CollectLevel
    <3>1. call.pc = "collect" /\ \E todo, cur : call' = [call EXCEPT !.todo = todo, !.cur = cur]
      BY <2>2 DEF CollectLevel
    <3> QED BY <1>2, <2>1, <3>1 DEF CollectFrame
  <2>3. CASE CollectOrder
    <3>1. /\ call.pc = "collect"
          /\ \E matches, remaining, cur :
               call' = [call EXCEPT !.matches = matches, !.remaining = remaining, !.cur = cur]
      BY <2>3 DEF CollectOrder
    <3> QED BY <1>2, <2>1, <3>1 DEF CollectFrame
  <2>4. CASE CollectEnd
    BY <1>2, <2>4 DEF CollectEnd
  <2> QED BY <1>5, <2>2, <2>3, <2>4
<1>6. CASE MatchStep
  <2>1. PICK bp, ap, x, y, q : MatchEffect(bp, ap, x, y, q)
    BY <1>6, MatchStepEffect
  <2>2. call'.pc = "match"
    BY <2>1 DEF MatchEffect
  <2> QED BY <1>2, <2>2
<1>7. CASE ExecuteStep
  <2>1. call'.pc = "execute"
    BY <1>7, ExecuteStepEffect DEF ExecuteEffect
  <2> QED BY <1>2, <2>1
<1>8. CASE \/ \E id \in OrderId : CancelOrder(id)
           \/ CancelGoodForDayOrders \/ CancelNext \/ CancelAllEnd
           \/ \E rules \in RuleSets : SetExchangeRules(rules)
           \/ MatchEnd \/ Kill \/ ExecuteEnd
  <2>1. call'.pc # "readd"
    BY <1>8, OtherCall
  <2> QED BY <1>2, <2>1
<1> QED BY <1>1, <1>3, <1>4, <1>5, <1>6, <1>7, <1>8, StepCases

\* The second half of a ModifyOrder never fails for want of a slot.
THEOREM ReAddSafe == Spec => []ReAddFindsSlot
<1>1. Init => ReAddFindsSlot
  BY DEF Init, Idle, ReAddFindsSlot
<1>2. IInv /\ ReAddFindsSlot /\ [Next]_vars => ReAddFindsSlot'
  BY NextFindsSlot
<1> QED BY <1>1, <1>2, Inductive, PTL DEF Spec

-----------------------------------------------------------------------------
(* The loops of a call are bounded by the size of the pool.                  *)

\* What is mapped one to one into the pool has no more members than it has slots.
LEMMA OneToOne ==
    ASSUME NEW S, NEW f \in [S -> Idx], \A x, y \in S : f[x] = f[y] => x = y
    PROVE  IsFiniteSet(S) /\ Cardinality(S) \in 0 .. PoolSize
<1>1. IsFiniteSet(Idx) /\ Cardinality(Idx) = PoolSize
  BY FS_Interval, BookAssumption DEF Idx
<1>2. f \in Injection(S, Idx)
  BY DEF Injection, IsInjective
<1>3. IsFiniteSet(S) /\ Cardinality(S) <= PoolSize
  BY <1>1, <1>2, FS_Injection
<1>4. Cardinality(S) \in Nat
  BY <1>3, FS_CardinalityType
<1> QED BY <1>3, <1>4, BookAssumption

\* So there are no more orders at rest, ids of them, or levels of a side.
LEMMA PoolBounds ==
    ASSUME NEW b, NEW reserved, GoodBook(b, reserved)
    PROVE  /\ IsFiniteSet(Live(b)) /\ Cardinality(Live(b)) \in 0 .. PoolSize
           /\ IsFiniteSet(DOMAIN b.orderMap) /\ Cardinality(DOMAIN b.orderMap) \in 0 .. PoolSize
           /\ \A side \in Side : /\ IsFiniteSet(DOMAIN b.levels[side])
                                 /\ Cardinality(DOMAIN b.levels[side]) \in 0 .. PoolSize
<1>1. Live(b) \subseteq Idx
  BY LiveSlot
<1>2. IsFiniteSet(Live(b)) /\ Cardinality(Live(b)) \in 0 .. PoolSize
  <2> DEFINE f == [i \in Live(b) |-> i]
  <2>1. f \in [Live(b) -> Idx] /\ \A x, y \in Live(b) : f[x] = f[y] => x = y
    BY <1>1
  <2> QED BY <2>1, OneToOne
<1>3. IsFiniteSet(DOMAIN b.orderMap) /\ Cardinality(DOMAIN b.orderMap) \in 0 .. PoolSize
  <2> DEFINE f == [id \in DOMAIN b.orderMap |-> b.orderMap[id]]
  <2>1. \A id \in DOMAIN b.orderMap : b.orderMap[id] \in Idx
    BY <1>1 DEF Live
  <2>2. \A id \in DOMAIN b.orderMap : b.pool[b.orderMap[id]].orderId = id
    BY DEF GoodBook, Partitioned
  <2>3. f \in [DOMAIN b.orderMap -> Idx] /\ \A x, y \in DOMAIN b.orderMap : f[x] = f[y] => x = y
    BY <2>1, <2>2
  <2> QED BY <2>3, OneToOne
<1>4. ASSUME NEW side \in Side
      PROVE  /\ IsFiniteSet(DOMAIN b.levels[side])
             /\ Cardinality(DOMAIN b.levels[side]) \in 0 .. PoolSize
  <2> DEFINE S == DOMAIN b.levels[side]
             f == [p \in S |-> b.levels[side][p].head]
  <2>1. \A p \in S : f[p] \in Idx /\ b.pool[f[p]].price = p
    BY <1>1, HeadIsOldest
  <2>2. f \in [S -> Idx] /\ \A x, y \in S : f[x] = f[y] => x = y
    BY <2>1
  <2> HIDE DEF f, S
  <2>3. IsFiniteSet(S) /\ Cardinality(S) \in 0 .. PoolSize
    BY <2>2, OneToOne
  <2> QED BY <2>3 DEF S
<1> QED BY <1>2, <1>3, <1>4

\* A scan has at most as many matches as there are slots: they are distinct.
LEMMA FewMatches ==
    ASSUME NEW b, NEW reserved, GoodBook(b, reserved), NEW side, NEW matches \in Seq(FokMatch),
           Collected(b, side, matches)
    PROVE  Len(matches) \in 0 .. PoolSize
<1> DEFINE S == 1 .. Len(matches)
           f == [k \in S |-> matches[k].idx]
<1>1. \A k \in S : matches[k].idx \in Idx
  BY LiveSlot DEF Collected
<1>2. f \in [S -> Idx] /\ \A x, y \in S : f[x] = f[y] => x = y
  BY <1>1 DEF Collected
<1>3. Cardinality(S) = Len(matches)
  <2>1. \A n \in Nat : Cardinality(1 .. n) = n
    BY FS_Interval
  <2> QED BY <2>1
<1> HIDE DEF f, S
<1>4. Cardinality(S) \in 0 .. PoolSize
  BY <1>2, OneToOne
<1> QED BY <1>3, <1>4

\* The ids that CancelGoodForDayOrders has still to cancel were in the book.
FewToCancel(c) ==
    c.pc = "cancelAll" => IsFiniteSet(c.toCancel) /\ Cardinality(c.toCancel) \in 0 .. PoolSize

\* No call has more steps to go than this, and only a modification has as many.
LEMMA StepsBounded ==
    ASSUME NEW b, NEW c, StateOK(b, c), FewToCancel(c)
    PROVE  /\ StepsLeft(b, c) \in 0 .. (3 * PoolSize + 2)
           /\ c.pc # "readd" => StepsLeft(b, c) <= 3 * PoolSize + 1
<1>1. c \in Frame /\ PoolSize \in Nat
  BY BookAssumption DEF StateOK
<1>2. CASE c.pc = "match"
  <2>1. Cardinality(Live(b)) \in 0 .. PoolSize
    BY PoolBounds DEF StateOK
  <2> QED BY <1>1, <1>2, <2>1 DEF StepsLeft
<1>3. CASE c.pc = "collect"
  <2>1. /\ c \in CollectFrame /\ GoodBook(b, Reserved(c)) /\ Scanning(b, c)
        /\ Collected(b, b.pool[c.idx].side, c.matches) /\ c.matches \in Seq(FokMatch)
    BY <1>1, <1>3, FrameByPc DEF StateOK, CollectFrame
  <2>2. Len(c.matches) \in 0 .. PoolSize
    BY <2>1, FewMatches
  <2>3. Cardinality(c.todo) \in 0 .. PoolSize
    <3> DEFINE S == DOMAIN b.levels[Opposite(b.pool[c.idx].side)]
    <3>1. c.todo \subseteq S
      BY <2>1 DEF Scanning
    <3>2. IsFiniteSet(S) /\ Cardinality(S) \in 0 .. PoolSize
      BY <2>1, PoolBounds DEF Opposite, Side
    <3> HIDE DEF S
    <3>3. IsFiniteSet(c.todo) /\ Cardinality(c.todo) <= Cardinality(S)
      BY <3>1, <3>2, FS_Subset
    <3>4. Cardinality(c.todo) \in Nat
      BY <3>3, FS_CardinalityType
    <3> QED BY <1>1, <3>2, <3>3, <3>4
  <2>4. StepsLeft(b, c) = Cardinality(c.todo) + 2 * PoolSize + 1 - Len(c.matches)
    BY <1>3 DEF StepsLeft
  <2> QED BY <1>1, <2>2, <2>3, <2>4
<1>4. CASE c.pc = "execute"
  <2>1. /\ GoodBook(b, Reserved(c)) /\ Collected(b, b.pool[c.idx].side, c.matches)
        /\ c.matches \in Seq(FokMatch)
    BY <1>1, <1>4, FrameByPc DEF StateOK, ExecuteFrame
  <2>2. Len(c.matches) \in 0 .. PoolSize
    BY <2>1, FewMatches
  <2> QED BY <1>1, <1>4, <2>2 DEF StepsLeft
<1>5. CASE c.pc = "readd"
  BY <1>1, <1>5 DEF StepsLeft
<1>6. CASE c.pc = "cancelAll"
  BY <1>1, <1>6 DEF StepsLeft, FewToCancel
<1>7. CASE c.pc \notin {"match", "collect", "execute", "readd", "cancelAll"}
  BY <1>1, <1>7 DEF StepsLeft
<1> QED BY <1>2, <1>3, <1>4, <1>5, <1>6, <1>7

\* A step adds no id to the ones that are still to be cancelled.
LEMMA NextToCancel ==
    ASSUME IInv, FewToCancel(call), [Next]_vars
    PROVE  FewToCancel(call')
<1>1. CASE CancelGoodForDayOrders
  <2>1. GoodBook(book, {})
    BY <1>1, PlainState DEF CancelGoodForDayOrders, IInv, Idle
  <2>2. /\ IsFiniteSet(DOMAIN book.orderMap) /\ Cardinality(DOMAIN book.orderMap) \in 0 .. PoolSize
        /\ call'.toCancel \in SUBSET DOMAIN book.orderMap
    BY <1>1, <2>1, PoolBounds DEF CancelGoodForDayOrders
  <2>3. /\ IsFiniteSet(call'.toCancel)
        /\ Cardinality(call'.toCancel) <= Cardinality(DOMAIN book.orderMap)
    BY <2>2, FS_Subset
  <2>4. Cardinality(call'.toCancel) \in Nat
    BY <2>3, FS_CardinalityType
  <2> QED BY <2>2, <2>3, <2>4, BookAssumption DEF FewToCancel
<1>2. CASE CancelNext
  <2>1. call \in CancelFrame /\ call.pc = "cancelAll"
    BY <1>2, FrameByPc DEF CancelNext, IInv, StateOK
  <2>2. PICK id \in call.toCancel : call' = [call EXCEPT !.toCancel = call.toCancel \ {id}]
    BY <1>2 DEF CancelNext
  <2>3. call'.toCancel = call.toCancel \ {id}
    BY <2>1, <2>2 DEF CancelFrame
  <2>4. IsFiniteSet(call.toCancel) /\ Cardinality(call.toCancel) \in 0 .. PoolSize
    BY <2>1 DEF FewToCancel
  <2>5. /\ IsFiniteSet(call'.toCancel)
        /\ Cardinality(call'.toCancel) = Cardinality(call.toCancel) - 1
    BY <2>2, <2>3, <2>4, FS_RemoveElement
  <2>6. Cardinality(call'.toCancel) \in Nat
    BY <2>5, FS_CardinalityType
  <2> QED BY <2>4, <2>5, <2>6, BookAssumption DEF FewToCancel
<1>3. CASE call'.pc # "cancelAll" \/ UNCHANGED vars
  BY <1>3 DEF FewToCancel, vars
<1>4. CASE \/ CancelAllEnd \/ MatchEnd \/ Kill \/ ExecuteEnd
           \/ \E id : CancelOrder(id)
           \/ \E rules : SetExchangeRules(rules)
           \/ \E id, side, price, qty : ModifyOrder(id, side, price, qty)
  <2>1. call'.pc \in {"idle", "readd"}
    BY <1>4 DEF CancelAllEnd, MatchEnd, Kill, ExecuteEnd, Return, CancelOrder,
                SetExchangeRules, ModifyOrder, Idle
  <2> QED BY <1>3, <2>1
<1>5. CASE MatchStep
  <2>1. PICK bp, ap, x, y, q : MatchEffect(bp, ap, x, y, q)
    BY <1>5, MatchStepEffect
  <2>2. call'.pc = "match"
    BY <2>1 DEF MatchEffect
  <2> QED BY <1>3, <2>2
<1>6. CASE CollectLevel
  <2>1. call \in CollectFrame
    BY <1>6, FrameByPc DEF CollectLevel, IInv, StateOK
  <2>2. PICK p, cur : call' = [call EXCEPT !.todo = call.todo \ {p}, !.cur = cur]
    BY <1>6 DEF CollectLevel
  <2>3. call'.pc = "collect"
    BY <2>1, <2>2 DEF CollectFrame
  <2> QED BY <1>3, <2>3
<1>7. CASE CollectOrder
  <2>1. call \in CollectFrame
    BY <1>7, FrameByPc DEF CollectOrder, IInv, StateOK
  <2>2. PICK e, r, cur :
          call' = [call EXCEPT !.matches = Append(call.matches, e), !.remaining = r, !.cur = cur]
    BY <1>7 DEF CollectOrder
  <2>3. call'.pc = "collect"
    BY <2>1, <2>2 DEF CollectFrame
  <2> QED BY <1>3, <2>3
<1>8. CASE CollectEnd
  <2>1. call'.pc = "execute"
    BY <1>8 DEF CollectEnd
  <2> QED BY <1>3, <2>1
<1>9. CASE ExecuteStep
  <2>1. call \in ExecuteFrame
    BY <1>9, FrameByPc DEF ExecuteStep, IInv, StateOK
  <2>2. PICK t : call' = [call EXCEPT !.matches = Tail(call.matches), !.trades = t]
    BY <1>9 DEF ExecuteStep
  <2>3. call'.pc = "execute"
    BY <2>1, <2>2 DEF ExecuteFrame
  <2> QED BY <1>3, <2>3
<1>10. ASSUME GoodBook(book, {}), NEW type \in OrderType, NEW id \in OrderId, NEW side \in Side,
             NEW price \in Price, NEW qty \in Quantity, Adding(type, id, side, price, qty)
      PROVE  FewToCancel(call')
  <2>1. call'.pc \in {"idle", "collect", "match"}
    BY <1>10, AddOrderCases DEF Adding
  <2> QED BY <1>3, <2>1
<1> QED BY <1>1, <1>2, <1>3, <1>4, <1>5, <1>6, <1>7, <1>8, <1>9, <1>10,
        StepCases

\* A set from which one member has gone is smaller.
LEMMA Smaller ==
    ASSUME NEW S, IsFiniteSet(S), NEW T, T \subseteq S, T # S
    PROVE  Cardinality(T) < Cardinality(S)
<1>1. /\ IsFiniteSet(T) /\ Cardinality(T) <= Cardinality(S)
      /\ Cardinality(T) # Cardinality(S)
  BY FS_Subset
<1>2. Cardinality(S) \in Nat /\ Cardinality(T) \in Nat
  BY <1>1, FS_CardinalityType
<1> QED BY <1>1, <1>2

\* A trade takes out one of its two orders.
LEMMA MatchStepShortens ==
    ASSUME IInv, MatchStep
    PROVE  StepsLeft(book', call') < StepsLeft(book, call)
<1>1. PICK bp, ap, x, y, q : MatchEffect(bp, ap, x, y, q)
  BY MatchStepEffect
<1>2. call.pc = "match" /\ call'.pc = "match"
  BY <1>1 DEF MatchStep, MatchEffect
<1>3. GoodBook(book, {})
  BY <1>2, PlainState DEF IInv
<1>4. x \in Live(book) /\ y \in Live(book)
      /\ (book.pool[x].quantity = q \/ book.pool[y].quantity = q)
  BY <1>1 DEF MatchEffect, MinOf
<1>5. Live(book') = Live(book) \ (Spent(book, x, q) \cup Spent(book, y, q))
  BY <1>1 DEF MatchEffect, Shrunk
<1>6. Live(book') \subseteq Live(book) /\ Live(book') # Live(book)
  BY <1>4, <1>5 DEF Spent
<1>7. IsFiniteSet(Live(book))
  BY <1>3, PoolBounds
<1>8. Cardinality(Live(book')) < Cardinality(Live(book))
  BY <1>6, <1>7, Smaller
<1> QED BY <1>2, <1>8 DEF StepsLeft

\* Every step of a call in progress that is not its last brings it nearer to that.
LEMMA StepShortens ==
    ASSUME IInv, IInv', FewToCancel(call), FewToCancel(call'), Next, call # Idle, call' # Idle
    PROVE  StepsLeft(book', call') < StepsLeft(book, call)
<1>1. PoolSize \in Nat /\ call.pc # "idle" /\ call'.pc # "idle"
  BY BookAssumption, FrameByPc DEF IInv, StateOK
<1>2. /\ StepsLeft(book, call) \in 0 .. (3 * PoolSize + 2)
      /\ StepsLeft(book', call') \in 0 .. (3 * PoolSize + 2)
      /\ call'.pc # "readd" => StepsLeft(book', call') <= 3 * PoolSize + 1
  BY StepsBounded DEF IInv
<1>3. CASE MatchStep
  BY <1>3, MatchStepShortens
<1>4. CASE CollectLevel
  <2>1. call.pc = "collect" /\ call \in CollectFrame /\ Scanning(book, call)
        /\ GoodBook(book, {call.idx}) /\ Opposite(Aggressor.side) \in Side
    BY <1>4, CollectState DEF CollectLevel
  <2>2. PICK p \in call.todo : \E cur :
          call' = [call EXCEPT !.todo = call.todo \ {p}, !.cur = cur]
    BY <1>4 DEF CollectLevel
  <2>3. /\ call'.pc = "collect" /\ call'.todo = call.todo \ {p} /\ call'.matches = call.matches
        /\ call.matches \in Seq(FokMatch)
    BY <2>1, <2>2 DEF CollectFrame
  <2>4. IsFiniteSet(call.todo)
    BY <2>1, PoolBounds, FS_Subset DEF Scanning, Aggressor
  <2>5. /\ Cardinality(call'.todo) = Cardinality(call.todo) - 1 /\ Cardinality(call.todo) \in Nat
    BY <2>2, <2>3, <2>4, FS_RemoveElement, FS_CardinalityType
  <2>6. Len(call.matches) \in Nat
    BY <2>3
  <2> QED BY <1>1, <2>1, <2>3, <2>5, <2>6 DEF StepsLeft
<1>5. CASE CollectOrder
  <2>1. call.pc = "collect" /\ call \in CollectFrame /\ Scanning(book, call)
        /\ GoodBook(book, {call.idx}) /\ Opposite(Aggressor.side) \in Side
    BY <1>5, CollectState DEF CollectOrder
  <2>2. PICK e, r, cur :
          call' = [call EXCEPT !.matches = Append(call.matches, e), !.remaining = r, !.cur = cur]
    BY <1>5 DEF CollectOrder
  <2>3. /\ call'.pc = "collect" /\ call'.todo = call.todo
        /\ call'.matches = Append(call.matches, e) /\ call.matches \in Seq(FokMatch)
    BY <2>1, <2>2 DEF CollectFrame
  <2>4. Len(call'.matches) = Len(call.matches) + 1 /\ Len(call.matches) \in Nat
    BY <2>3
  <2>5. IsFiniteSet(call.todo)
    BY <2>1, PoolBounds, FS_Subset DEF Scanning, Aggressor
  <2>6. Cardinality(call.todo) \in Nat
    BY <2>5, FS_CardinalityType
  <2> QED BY <1>1, <2>1, <2>3, <2>4, <2>6 DEF StepsLeft
<1>6. CASE CollectEnd
  <2>1. call.pc = "collect" /\ call \in CollectFrame /\ Scanning(book, call)
        /\ GoodBook(book, {call.idx}) /\ Opposite(Aggressor.side) \in Side
        /\ Collected(book, Aggressor.side, call.matches) /\ call.matches \in Seq(FokMatch)
    BY <1>6, CollectState DEF CollectEnd
  <2>2. call'.pc = "execute" /\ call'.matches = call.matches
    BY <1>6 DEF CollectEnd
  <2>3. Len(call.matches) \in 0 .. PoolSize
    BY <2>1, FewMatches
  <2>4. IsFiniteSet(call.todo)
    BY <2>1, PoolBounds, FS_Subset DEF Scanning, Aggressor
  <2>5. Cardinality(call.todo) \in Nat
    BY <2>4, FS_CardinalityType
  <2> QED BY <1>1, <2>1, <2>2, <2>3, <2>5 DEF StepsLeft
<1>7. CASE ExecuteStep
  <2>1. call.pc = "execute" /\ call \in ExecuteFrame /\ call.matches # <<>>
    BY <1>7, FrameByPc DEF ExecuteStep, IInv, StateOK
  <2>2. PICK t : call' = [call EXCEPT !.matches = Tail(call.matches), !.trades = t]
    BY <1>7 DEF ExecuteStep
  <2>3. /\ call'.pc = "execute" /\ call'.matches = Tail(call.matches)
        /\ call.matches \in Seq(FokMatch)
    BY <2>1, <2>2 DEF ExecuteFrame
  <2>4. Len(call'.matches) = Len(call.matches) - 1 /\ Len(call.matches) \in Nat
    BY <2>1, <2>3
  <2> QED BY <2>1, <2>3, <2>4 DEF StepsLeft
<1>8. CASE CancelNext
  <2>1. call \in CancelFrame /\ call.pc = "cancelAll"
    BY <1>8, FrameByPc DEF CancelNext, IInv, StateOK
  <2>2. PICK id \in call.toCancel : call' = [call EXCEPT !.toCancel = call.toCancel \ {id}]
    BY <1>8 DEF CancelNext
  <2>3. call'.toCancel = call.toCancel \ {id} /\ call'.pc = "cancelAll"
    BY <2>1, <2>2 DEF CancelFrame
  <2>4. IsFiniteSet(call.toCancel)
    BY <2>1 DEF FewToCancel
  <2>5. Cardinality(call'.toCancel) = Cardinality(call.toCancel) - 1 /\ Cardinality(call.toCancel) \in Nat
    BY <2>2, <2>3, <2>4, FS_RemoveElement, FS_CardinalityType
  <2> QED BY <2>1, <2>3, <2>5 DEF StepsLeft
<1>9. CASE call.pc = "readd"
  <2>1. PICK type, id, side, price, qty : AddOrderBody(type, id, side, price, qty)
    BY <1>1, <1>9 DEF Next, PublicCall, Continue, ReAdd, AddOrder, CancelOrder, ModifyOrder,
         CancelGoodForDayOrders, SetExchangeRules, MatchStep, MatchEnd, CollectLevel,
         CollectOrder, Kill, CollectEnd, ExecuteStep, ExecuteEnd, CancelNext, CancelAllEnd
  <2>2. call'.pc # "readd"
    BY <2>1 DEF AddOrderBody, Return, Idle, StartFillOrKill, StartMatching
  <2>3. StepsLeft(book, call) = 3 * PoolSize + 2
    BY <1>9 DEF StepsLeft
  <2> QED BY <1>1, <1>2, <2>2, <2>3
<1>10. \/ MatchStep \/ CollectLevel \/ CollectOrder \/ CollectEnd \/ ExecuteStep \/ CancelNext
       \/ call.pc = "readd"
  BY <1>1 DEF Next, PublicCall, Continue, ReAdd, AddOrder, CancelOrder, ModifyOrder,
       CancelGoodForDayOrders, SetExchangeRules, MatchEnd, Kill, ExecuteEnd, CancelAllEnd, Return
<1> QED BY <1>3, <1>4, <1>5, <1>6, <1>7, <1>8, <1>9, <1>10

\* No call takes more than 3 * PoolSize + 3 steps, on any book and with any rules:
\* each step brings the end nearer, and in the end the call has returned.
THEOREM CallsEnd == Spec => StepsRunOut
<1> DEFINE P == call' # Idle =>
        StepsLeft(book', call') \in
            0 .. (IF call = Idle THEN 3 * PoolSize + 2 ELSE StepsLeft(book, call) - 1)
           F == FewToCancel(call)
<1>1. Init => F
  BY DEF Init, Idle, FewToCancel
<1>2. IInv /\ F /\ [Next]_vars => F'
  BY NextToCancel
<1>3. IInv /\ IInv' /\ F /\ F' /\ [Next]_vars => [P]_vars
  <2> SUFFICES ASSUME IInv, IInv', F, F', Next, call' # Idle
               PROVE  P
    OBVIOUS
  <2>1. /\ StepsLeft(book, call) \in 0 .. (3 * PoolSize + 2)
        /\ StepsLeft(book', call') \in 0 .. (3 * PoolSize + 2)
    BY StepsBounded DEF IInv
  <2>2. call # Idle => StepsLeft(book', call') < StepsLeft(book, call)
    BY StepShortens
  <2>3. PoolSize \in Nat
    BY BookAssumption
  <2> QED BY <2>1, <2>2, <2>3
<1>4. [][P]_vars => StepsRunOut
  BY PTL DEF StepsRunOut
<1> HIDE DEF P, F
<1> QED BY <1>1, <1>2, <1>3, <1>4, Inductive, PTL DEF Spec

=============================================================================
