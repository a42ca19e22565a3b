---------------------------- MODULE OrderbookLemmas --------------------------
(***************************************************************************)
(* What the member functions of Orderbook do to a book, and that they keep  *)
(* it good: its slots partitioned, its lists linked in time order and its   *)
(* levels counted.  An effect is stated as a predicate that relates the     *)
(* book before and after (Removed, Allocated, Requantified, Inserted), so   *)
(* that the proofs about steps need not look inside the operators.          *)
(***************************************************************************)
EXTENDS OrderbookSafety, TLAPS, FiniteSetTheorems

\* The structural half of the inductive invariant, of a book whose slots in
\* `reserved' are allocated but do not rest.
GoodBook(b, reserved) ==
    /\ IsBook(b)
    /\ Partitioned(b, reserved)
    /\ EndsLinked(b) /\ NeighboursLinked(b) /\ Counted(b)
    /\ Ordered(b) /\ LinkedInOrder(b)

\* Sums and differences of quantities wrap to a quantity.
LEMMA QtyType ==
    ASSUME NEW m \in Int, NEW n \in Int
    PROVE  QtyAdd(m, n) \in Quantity /\ QtySub(m, n) \in Quantity
BY NumericAssumption DEF QtyAdd, QtySub, Quantity

\* A count becomes 0 when it was 1.
LEMMA OneLess ==
    ASSUME NEW n \in Int
    PROVE  n - 1 = 0 <=> n = 1
OBVIOUS

\* Put on a map: its type, its domain and its entries.
LEMMA PutType ==
    ASSUME NEW S, NEW T, NEW f, IsPartialFunction(f, S, T), NEW k \in S, NEW v \in T
    PROVE  /\ IsPartialFunction(Put(f, k, v), S, T)
           /\ DOMAIN Put(f, k, v) = DOMAIN f \cup {k}
           /\ Put(f, k, v)[k] = v
           /\ \A x \in DOMAIN f : x # k => Put(f, k, v)[x] = f[x]
BY DEF IsPartialFunction, Put

\* Erase on a map: its type, its domain and its entries.
LEMMA EraseType ==
    ASSUME NEW S, NEW T, NEW f, IsPartialFunction(f, S, T), NEW k
    PROVE  /\ IsPartialFunction(Erase(f, k), S, T)
           /\ DOMAIN Erase(f, k) = DOMAIN f \ {k}
           /\ \A x \in DOMAIN f : x # k => Erase(f, k)[x] = f[x]
BY DEF IsPartialFunction, Erase

\* The members of a level are slots of the pool, and finitely many.
LEMMA MembersFinite ==
    ASSUME NEW b, IsBook(b), NEW side, NEW p
    PROVE  /\ Members(b, side, p) \subseteq Idx
           /\ IsFiniteSet(Members(b, side, p))
<1>1. Members(b, side, p) \subseteq Idx
  BY DEF Members, Live, IsBook, IsPartialFunction
<1>2. IsFiniteSet(Idx)
  BY FS_Interval, BookAssumption DEF Idx
<1> QED BY <1>1, <1>2, FS_Subset

-----------------------------------------------------------------------------
(* What a resting order's slot and level are known to be.                   *)

\* A resting order has a slot, an id that maps back to it, and a level.
LEMMA LiveSlot ==
    ASSUME NEW b, NEW reserved, GoodBook(b, reserved), NEW i \in Live(b)
    PROVE  /\ i \in Idx
           /\ b.pool[i] \in PoolOrder
           /\ b.pool[i].orderId \in DOMAIN b.orderMap
           /\ b.orderMap[b.pool[i].orderId] = i
           /\ b.pool[i].orderId \in OrderId
           /\ b.pool[i].price \in DOMAIN b.levels[b.pool[i].side]
           /\ b.levels[b.pool[i].side][b.pool[i].price] \in PriceLevel
<1>1. PICK id \in DOMAIN b.orderMap : i = b.orderMap[id]
  BY DEF Live
<1>2. /\ i \in Idx /\ b.pool[i] \in PoolOrder /\ id \in OrderId
      /\ b.pool[i].orderId = id
  BY <1>1 DEF GoodBook, IsBook, IsPartialFunction, Partitioned
<1>3. b.pool[i].price \in DOMAIN b.levels[b.pool[i].side]
  BY DEF GoodBook, NeighboursLinked
<1>4. b.levels[b.pool[i].side][b.pool[i].price] \in PriceLevel
  BY <1>2, <1>3 DEF GoodBook, IsBook, IsPartialFunction, PoolOrder
<1> QED BY <1>1, <1>2, <1>3, <1>4

\* new is the pair of maps old after the level at price, on side, became lvl.
LevelSet(old, new, side, price, lvl) ==
    /\ new = [s \in Side |-> new[s]]
    /\ \A s \in Side : IsPartialFunction(new[s], Price, PriceLevel)
    /\ \A s \in Side : s # side => new[s] = old[s]
    /\ price \in DOMAIN new[side] <=> lvl.orderCount # 0
    /\ \A p : p # price => (p \in DOMAIN new[side] <=> p \in DOMAIN old[side])
    /\ \A p \in DOMAIN new[side] :
         new[side][p] = IF p = price THEN lvl ELSE old[side][p]

\* SetLevel writes one level of one side, or erases it, and no other.
LEMMA SetLevelEffect ==
    ASSUME NEW b, IsBook(b), NEW side \in Side, NEW price \in Price, NEW lvl \in PriceLevel
    PROVE  LevelSet(b.levels, SetLevel(b.levels, side, price, lvl), side, price, lvl)
<1> DEFINE f == b.levels[side]
           g == IF lvl.orderCount = 0 THEN Erase(f, price) ELSE Put(f, price, lvl)
           new == [s \in Side |-> IF s = side THEN g ELSE b.levels[s]]
<1>1. b.levels = [s \in Side |-> b.levels[s]]
      /\ \A s \in Side : IsPartialFunction(b.levels[s], Price, PriceLevel)
  BY DEF IsBook
<1>2. SetLevel(b.levels, side, price, lvl) = new
  BY <1>1 DEF SetLevel
<1>3. IsPartialFunction(f, Price, PriceLevel)
  BY <1>1
<1>4. /\ IsPartialFunction(g, Price, PriceLevel)
      /\ price \in DOMAIN g <=> lvl.orderCount # 0
      /\ \A p : p # price => (p \in DOMAIN g <=> p \in DOMAIN f)
      /\ \A p \in DOMAIN g : g[p] = IF p = price THEN lvl ELSE f[p]
  <2>1. CASE lvl.orderCount = 0
    <3>1. g = Erase(f, price)
      BY <2>1
    <3> HIDE DEF g, f
    <3>2. /\ IsPartialFunction(Erase(f, price), Price, PriceLevel)
          /\ DOMAIN Erase(f, price) = DOMAIN f \ {price}
          /\ \A x \in DOMAIN f : x # price => Erase(f, price)[x] = f[x]
      BY <1>3, EraseType
    <3> QED BY <2>1, <3>1, <3>2
  <2>2. CASE lvl.orderCount # 0
    <3>1. g = Put(f, price, lvl)
      BY <2>2
    <3> HIDE DEF g, f
    <3>2. /\ IsPartialFunction(Put(f, price, lvl), Price, PriceLevel)
          /\ DOMAIN Put(f, price, lvl) = DOMAIN f \cup {price}
          /\ Put(f, price, lvl)[price] = lvl
          /\ \A x \in DOMAIN f : x # price => Put(f, price, lvl)[x] = f[x]
      BY <1>3, PutType
    <3> QED BY <2>2, <3>1, <3>2
  <2> QED BY <2>1, <2>2
<1>5. new[side] = g /\ \A s \in Side : s # side => new[s] = b.levels[s]
  OBVIOUS
<1>6. new = [s \in Side |-> new[s]]
  OBVIOUS
<1> HIDE DEF g, new
<1> QED BY <1>1, <1>2, <1>4, <1>5, <1>6 DEF LevelSet

-----------------------------------------------------------------------------
(* Unbook: a resting order leaves the engine.                               *)

\* pool2 is pool1 after the slot i was unlinked from its neighbours.
Unlinked(pool1, pool2, i) ==
    /\ pool2 \in [Idx -> PoolOrder]
    /\ \A j \in Idx \ {i} :
         /\ pool2[j].orderId = pool1[j].orderId
         /\ pool2[j].side = pool1[j].side
         /\ pool2[j].price = pool1[j].price
         /\ pool2[j].orderType = pool1[j].orderType
         /\ pool2[j].quantity = pool1[j].quantity
         /\ pool2[j].next = IF j = pool1[i].prev THEN pool1[i].next ELSE pool1[j].next
         /\ pool2[j].prev = IF j = pool1[i].next THEN pool1[i].prev ELSE pool1[j].prev

\* RemoveFromList stitches the two neighbours together.
LEMMA RemoveFromListEffect ==
    ASSUME NEW pool \in [Idx -> PoolOrder], NEW i \in Idx
    PROVE  Unlinked(pool, RemoveFromList(pool, i), i)
<1> DEFINE new == RemoveFromList(pool, i)
           x(j) == IF j = pool[i].prev THEN pool[i].next ELSE pool[j].next
           y(j) == IF j = pool[i].next THEN pool[i].prev ELSE pool[j].prev
<1>1. FreeSlot \in PoolOrder
  BY NumericAssumption DEF FreeSlot, PoolOrder, Side, Price, OrderType, Quantity, Link
<1>2. \A j \in Idx : pool[j] \in PoolOrder /\ x(j) \in Link /\ y(j) \in Link
  BY DEF PoolOrder
<1>3. new = [j \in Idx |-> IF j = i THEN FreeSlot
                           ELSE [pool[j] EXCEPT !.next = x(j), !.prev = y(j)]]
  BY DEF RemoveFromList
<1> HIDE DEF new, x, y
<1>4. ASSUME NEW j \in Idx \ {i}
      PROVE  /\ new[j] \in PoolOrder
             /\ new[j].orderId = pool[j].orderId /\ new[j].side = pool[j].side
             /\ new[j].price = pool[j].price /\ new[j].orderType = pool[j].orderType
             /\ new[j].quantity = pool[j].quantity
             /\ new[j].next = x(j) /\ new[j].prev = y(j)
  <2>1. new[j] = [pool[j] EXCEPT !.next = x(j), !.prev = y(j)]
    BY <1>3
  <2>2. pool[j] \in PoolOrder /\ x(j) \in Link /\ y(j) \in Link
    BY <1>2
  <2> DEFINE n == new[j]  r == pool[j]  xj == x(j)  yj == y(j)
  <2>3. n = [r EXCEPT !.next = xj, !.prev = yj] /\ r \in PoolOrder /\ xj \in Link /\ yj \in Link
    BY <2>1, <2>2
  <2> HIDE DEF n, r, xj, yj
  <2>4. /\ n \in PoolOrder
        /\ n.orderId = r.orderId /\ n.side = r.side /\ n.price = r.price
        /\ n.orderType = r.orderType /\ n.quantity = r.quantity
        /\ n.next = xj /\ n.prev = yj
    BY <2>3 DEF PoolOrder
  <2> QED BY <2>4 DEF n, r, xj, yj
<1>5. new \in [Idx -> PoolOrder]
  BY <1>1, <1>3, <1>4
<1> QED BY <1>4, <1>5 DEF Unlinked, new, x, y

\* u is the book b without the resting order i.
Removed(b, u, i) ==
    LET o   == b.pool[i]
        lvl == b.levels[o.side][o.price]
    IN  /\ IsBook(u)
        /\ Unlinked(b.pool, u.pool, i)
        /\ u.freeList = Append(b.freeList, i)
        /\ Live(u) = Live(b) \ {i}
        /\ u.older = {pair \in b.older : i \notin {pair[1], pair[2]}}
        /\ DOMAIN u.orderMap = DOMAIN b.orderMap \ {o.orderId}
        /\ \A id \in DOMAIN u.orderMap : u.orderMap[id] = b.orderMap[id]
        /\ LevelSet(b.levels, u.levels, o.side, o.price, RemoveFromLevel(lvl, o))

\* Unbook does what Removed says.
LEMMA UnbookEffect ==
    ASSUME NEW b, NEW reserved, GoodBook(b, reserved), NEW i \in Live(b)
    PROVE  Removed(b, Unbook(b, i), i)
<1> DEFINE u   == Unbook(b, i)
           o   == b.pool[i]
           lvl == b.levels[o.side][o.price]
<1>1. /\ i \in Idx /\ o \in PoolOrder /\ o.orderId \in DOMAIN b.orderMap
      /\ b.orderMap[o.orderId] = i /\ lvl \in PriceLevel
      /\ o.side \in Side /\ o.price \in Price
  BY LiveSlot DEF PoolOrder
<1>2. IsBook(b) /\ b.pool \in [Idx -> PoolOrder] /\ IsPartialFunction(b.orderMap, OrderId, Idx)
  BY DEF GoodBook, IsBook
<1>3. /\ u.pool = RemoveFromList(b.pool, i)
      /\ u.freeList = Append(b.freeList, i)
      /\ u.levels = SetLevel(b.levels, o.side, o.price, RemoveFromLevel(lvl, o))
      /\ u.orderMap = Erase(b.orderMap, o.orderId)
      /\ u.older = {pair \in b.older : i \notin {pair[1], pair[2]}}
      /\ u = [ pool |-> u.pool, freeList |-> u.freeList, levels |-> u.levels,
               orderMap |-> u.orderMap, older |-> u.older ]
  BY DEF Unbook
<1>4. RemoveFromLevel(lvl, o) \in PriceLevel
  <2> HIDE DEF o, lvl
  <2>1. /\ o.next \in Link /\ o.prev \in Link /\ o.quantity \in Quantity
        /\ lvl.head \in Link /\ lvl.tail \in Link /\ lvl.totalQty \in Quantity
        /\ lvl.orderCount \in Int
    BY <1>1 DEF PriceLevel, PoolOrder
  <2>2. lvl.totalQty \in Int /\ o.quantity \in Int
    BY <2>1, NumericAssumption DEF Quantity
  <2>3. QtySub(lvl.totalQty, o.quantity) \in Quantity
    BY <2>2, QtyType
  <2> QED BY <2>1, <2>3 DEF RemoveFromLevel, PriceLevel
<1> HIDE DEF u
<1>5. Unlinked(b.pool, u.pool, i)
  BY <1>1, <1>2, <1>3, RemoveFromListEffect
<1>6. /\ IsPartialFunction(u.orderMap, OrderId, Idx)
      /\ DOMAIN u.orderMap = DOMAIN b.orderMap \ {o.orderId}
      /\ \A id \in DOMAIN u.orderMap : u.orderMap[id] = b.orderMap[id]
  <2> DEFINE m == b.orderMap
  <2>1. IsPartialFunction(m, OrderId, Idx) /\ u.orderMap = Erase(m, o.orderId)
    BY <1>2, <1>3
  <2> HIDE DEF m, o
  <2>2. /\ IsPartialFunction(Erase(m, o.orderId), OrderId, Idx)
        /\ DOMAIN Erase(m, o.orderId) = DOMAIN m \ {o.orderId}
        /\ \A id \in DOMAIN m : id # o.orderId => Erase(m, o.orderId)[id] = m[id]
    BY <2>1, EraseType
  <2> QED BY <2>1, <2>2 DEF m
<1>7. Live(u) = Live(b) \ {i}
  <2>1. \A id \in DOMAIN b.orderMap : b.orderMap[id] = i => id = o.orderId
    BY DEF GoodBook, Partitioned
  <2> QED BY <1>1, <1>6, <2>1 DEF Live
<1>8. u.freeList \in Seq(Idx) /\ u.older \subseteq Idx \X Idx
  <2>1. b.freeList \in Seq(Idx) /\ b.older \subseteq Idx \X Idx
    BY <1>2 DEF IsBook
  <2> HIDE DEF o, lvl
  <2>2. u.freeList \in Seq(Idx)
    BY <1>1, <1>3, <2>1
  <2>3. u.older \subseteq b.older
    BY <1>3
  <2> QED BY <2>1, <2>2, <2>3
<1>9. LevelSet(b.levels, u.levels, o.side, o.price, RemoveFromLevel(lvl, o))
  <2> HIDE DEF o, lvl
  <2> QED BY <1>1, <1>2, <1>3, <1>4, SetLevelEffect
<1>10. IsBook(u)
  BY <1>3, <1>5, <1>6, <1>8, <1>9 DEF IsBook, Unlinked, LevelSet
<1> QED BY <1>3, <1>5, <1>6, <1>7, <1>9, <1>10 DEF Removed, u

\* What Removed says of the members and the levels of the book, in the form the
\* next lemma uses.
RemovedLevels(b, u, i, o, lvl) ==
    /\ i \in Members(b, o.side, o.price)
    /\ \A side \in Side, p \in Price :
         /\ Members(u, side, p) = Members(b, side, p) \ {i}
         /\ i \in Members(b, side, p) => side = o.side /\ p = o.price
    /\ lvl.orderCount = Cardinality(Members(b, o.side, o.price))
    /\ lvl.orderCount = 1 <=> Members(u, o.side, o.price) = {}
    /\ \A side \in Side : \A p \in Price :
         p \in DOMAIN u.levels[side] <=>
             /\ p \in DOMAIN b.levels[side]
             /\ ~(side = o.side /\ p = o.price /\ lvl.orderCount = 1)
    /\ \A side \in Side : \A p \in DOMAIN u.levels[side] :
         IF side = o.side /\ p = o.price
         THEN /\ u.levels[side][p].head = IF o.prev = NULL_IDX THEN o.next ELSE lvl.head
              /\ u.levels[side][p].tail = IF o.next = NULL_IDX THEN o.prev ELSE lvl.tail
              /\ u.levels[side][p].orderCount = lvl.orderCount - 1
         ELSE /\ p \in DOMAIN b.levels[side]
              /\ u.levels[side][p] = b.levels[side][p]

\* Removed, seen from the levels: one has lost a member, or is gone.
LEMMA RemovedLevelsEffect ==
    ASSUME NEW b, NEW reserved, GoodBook(b, reserved), NEW i \in Live(b),
           NEW u, Removed(b, u, i), NEW o, o = b.pool[i],
           NEW lvl, lvl = b.levels[o.side][o.price]
    PROVE  RemovedLevels(b, u, i, o, lvl)
<1>1. /\ i \in Idx /\ o \in PoolOrder /\ lvl \in PriceLevel
      /\ o.side \in Side /\ o.price \in Price /\ o.price \in DOMAIN b.levels[o.side]
  BY LiveSlot DEF PoolOrder
<1>2. Live(b) \subseteq Idx
  BY DEF GoodBook, IsBook, IsPartialFunction, Live
<1>3. \A side \in Side, p \in Price : Members(u, side, p) = Members(b, side, p) \ {i}
  <2>1. Live(u) = Live(b) \ {i}
    BY DEF Removed
  <2>2. \A j \in Live(u) : u.pool[j].side = b.pool[j].side /\ u.pool[j].price = b.pool[j].price
    BY <1>2, <2>1 DEF Removed, Unlinked
  <2> QED BY <2>1, <2>2 DEF Members
<1>4. lvl.orderCount = Cardinality(Members(b, o.side, o.price))
  BY <1>1 DEF GoodBook, Counted
<1>5. /\ IsFiniteSet(Members(b, o.side, o.price)) /\ i \in Members(b, o.side, o.price)
      /\ Members(b, o.side, o.price) \ {i} = Members(u, o.side, o.price)
  <2>1. IsFiniteSet(Members(b, o.side, o.price))
    BY MembersFinite DEF GoodBook
  <2>2. i \in Members(b, o.side, o.price)
    BY DEF Members
  <2> QED BY <1>1, <1>3, <2>1, <2>2
<1>6. lvl.orderCount = 1 <=> Members(u, o.side, o.price) = {}
  <2>1. /\ IsFiniteSet(Members(u, o.side, o.price))
        /\ Cardinality(Members(u, o.side, o.price)) = lvl.orderCount - 1
    BY <1>4, <1>5, FS_RemoveElement
  <2>2. Cardinality(Members(u, o.side, o.price)) = 0 <=> Members(u, o.side, o.price) = {}
    BY <2>1, FS_EmptySet
  <2>3. lvl.orderCount \in Int
    BY <1>1 DEF PriceLevel
  <2>4. lvl.orderCount - 1 = 0 <=> lvl.orderCount = 1
    BY <2>3, OneLess
  <2> QED BY <2>1, <2>2, <2>4
<1> DEFINE new == RemoveFromLevel(lvl, o)
<1>7. /\ new.head = IF o.prev = NULL_IDX THEN o.next ELSE lvl.head
      /\ new.tail = IF o.next = NULL_IDX THEN o.prev ELSE lvl.tail
      /\ new.orderCount = lvl.orderCount - 1
  BY DEF RemoveFromLevel
<1>8. LevelSet(b.levels, u.levels, o.side, o.price, new)
  BY DEF Removed
<1> HIDE DEF new
<1>9. new.orderCount = 0 <=> lvl.orderCount = 1
  <2>1. lvl.orderCount \in Int
    BY <1>1 DEF PriceLevel
  <2>2. lvl.orderCount - 1 = 0 <=> lvl.orderCount = 1
    BY <2>1, OneLess
  <2> QED BY <1>7, <2>2
<1>10. ASSUME NEW side \in Side, NEW p \in Price
       PROVE  p \in DOMAIN u.levels[side] <=>
                    /\ p \in DOMAIN b.levels[side]
                    /\ ~(side = o.side /\ p = o.price /\ lvl.orderCount = 1)
  <2>1. CASE side = o.side /\ p = o.price
    BY <1>1, <1>8, <1>9, <2>1 DEF LevelSet
  <2>2. CASE side = o.side /\ p # o.price
    BY <1>8, <2>2 DEF LevelSet
  <2>3. CASE side # o.side
    BY <1>8, <2>3 DEF LevelSet
  <2> QED BY <2>1, <2>2, <2>3
<1>11. ASSUME NEW side \in Side, NEW p \in DOMAIN u.levels[side]
       PROVE  IF side = o.side /\ p = o.price
                THEN /\ u.levels[side][p].head = IF o.prev = NULL_IDX THEN o.next ELSE lvl.head
                     /\ u.levels[side][p].tail = IF o.next = NULL_IDX THEN o.prev ELSE lvl.tail
                     /\ u.levels[side][p].orderCount = lvl.orderCount - 1
                ELSE /\ p \in DOMAIN b.levels[side]
                     /\ u.levels[side][p] = b.levels[side][p]
  <2>1. CASE side = o.side /\ p = o.price
    <3>1. u.levels[side][p] = new
      BY <1>8, <2>1 DEF LevelSet
    <3> QED BY <1>7, <2>1, <3>1
  <2>2. CASE side = o.side /\ p # o.price
    BY <1>8, <2>2 DEF LevelSet
  <2>3. CASE side # o.side
    BY <1>8, <2>3 DEF LevelSet
  <2> QED BY <2>1, <2>2, <2>3
<1>12. \A side \in Side, p \in Price :
         /\ Members(u, side, p) = Members(b, side, p) \ {i}
         /\ i \in Members(b, side, p) => side = o.side /\ p = o.price
  BY <1>3 DEF Members
<1> QED BY <1>4, <1>5, <1>6, <1>10, <1>11, <1>12 DEF RemovedLevels

\* Taking out a resting order keeps the book good.
LEMMA UnbookGood ==
    ASSUME NEW b, NEW reserved, GoodBook(b, reserved), NEW i \in Live(b),
           NEW u, Removed(b, u, i)
    PROVE  GoodBook(u, reserved)
<1> DEFINE o   == b.pool[i]
           lvl == b.levels[o.side][o.price]
<1>1. /\ i \in Idx /\ o \in PoolOrder /\ lvl \in PriceLevel
      /\ o.side \in Side /\ o.price \in Price /\ o.price \in DOMAIN b.levels[o.side]
      /\ o.orderId \in DOMAIN b.orderMap /\ b.orderMap[o.orderId] = i
  BY LiveSlot DEF PoolOrder
<1>2. /\ Live(b) \subseteq Idx /\ Live(u) = Live(b) \ {i}
      /\ \A j \in Live(b) : b.pool[j].side \in Side /\ b.pool[j].price \in Price
  <2>1. Live(b) \subseteq Idx /\ b.pool \in [Idx -> PoolOrder]
    BY DEF GoodBook, IsBook, IsPartialFunction, Live
  <2>2. Live(u) = Live(b) \ {i}
    BY DEF Removed
  <2> QED BY <2>1, <2>2 DEF PoolOrder
<1>3. \A j \in Live(u) :
         /\ u.pool[j].orderId = b.pool[j].orderId
         /\ u.pool[j].side = b.pool[j].side
         /\ u.pool[j].price = b.pool[j].price
         /\ u.pool[j].next = IF j = o.prev THEN o.next ELSE b.pool[j].next
         /\ u.pool[j].prev = IF j = o.next THEN o.prev ELSE b.pool[j].prev
  BY <1>2 DEF Removed, Unlinked
<1>4. \A j, k : <<j, k>> \in u.older <=> <<j, k>> \in b.older /\ j # i /\ k # i
  BY DEF Removed
<1>5. RemovedLevels(b, u, i, o, lvl)
  BY RemovedLevelsEffect
<1> HIDE DEF o, lvl
<1>6. \A side \in Side : DOMAIN u.levels[side] \subseteq Price
  BY DEF Removed, IsBook, IsPartialFunction
<1>7. IsBook(u)
  BY DEF Removed
<1>8. Partitioned(u, reserved)
  <2>1. u.freeList = Append(b.freeList, i) /\ b.freeList \in Seq(Idx)
    BY DEF Removed, GoodBook, IsBook
  <2>2. FreeSlots(u) = FreeSlots(b) \cup {i}
    BY <1>1, <2>1 DEF FreeSlots
  <2>3. i \notin FreeSlots(b) /\ i \notin reserved
    BY DEF GoodBook, Partitioned
  <2>4. \A k, m \in DOMAIN u.freeList : u.freeList[k] = u.freeList[m] => k = m
    BY <1>1, <2>1, <2>3 DEF FreeSlots, GoodBook, Partitioned
  <2>5. \A id \in DOMAIN u.orderMap : u.pool[u.orderMap[id]].orderId = id
    <3> SUFFICES ASSUME NEW id \in DOMAIN u.orderMap
                 PROVE  u.pool[u.orderMap[id]].orderId = id
      OBVIOUS
    <3>1. u.orderMap[id] \in Live(u)
      BY DEF Live
    <3>2. id \in DOMAIN b.orderMap /\ u.orderMap[id] = b.orderMap[id]
      BY DEF Removed
    <3>3. b.pool[b.orderMap[id]].orderId = id
      BY <3>2 DEF GoodBook, Partitioned
    <3> QED BY <1>2, <1>3, <3>1, <3>2, <3>3
  <2>6. FreeSlots(b) \cup Live(b) \cup reserved = Idx /\ FreeSlots(b) \cap Live(b) = {}
        /\ reserved \cap (FreeSlots(b) \cup Live(b)) = {}
    BY DEF GoodBook, Partitioned
  <2> QED BY <1>2, <2>2, <2>3, <2>4, <2>5, <2>6 DEF Partitioned
<1>9. Counted(u)
  <2> SUFFICES ASSUME NEW side \in Side, NEW p \in DOMAIN u.levels[side]
               PROVE  u.levels[side][p].orderCount = Cardinality(Members(u, side, p))
    BY DEF Counted
  <2>1. p \in Price
    BY <1>6
  <2>2. CASE side = o.side /\ p = o.price
    <3>1. IsFiniteSet(Members(b, side, p))
      BY MembersFinite DEF GoodBook
    <3>2. /\ i \in Members(b, side, p) /\ Members(u, side, p) = Members(b, side, p) \ {i}
          /\ u.levels[side][p].orderCount = Cardinality(Members(b, side, p)) - 1
      BY <1>5, <2>1, <2>2 DEF RemovedLevels
    <3> QED BY <3>1, <3>2, FS_RemoveElement
  <2>3. CASE ~(side = o.side /\ p = o.price)
    <3>1. /\ p \in DOMAIN b.levels[side] /\ u.levels[side][p] = b.levels[side][p]
          /\ Members(u, side, p) = Members(b, side, p) \ {i}
          /\ i \notin Members(b, side, p)
      BY <1>5, <2>1, <2>3 DEF RemovedLevels
    <3>2. b.levels[side][p].orderCount = Cardinality(Members(b, side, p))
      BY <3>1 DEF GoodBook, Counted
    <3>3. Members(b, side, p) \ {i} = Members(b, side, p)
      BY <3>1
    <3> QED BY <3>1, <3>2, <3>3
  <2> QED BY <2>2, <2>3
<1>10. Ordered(u)
  BY <1>2, <1>3, <1>4 DEF GoodBook, Ordered, SameLevel
\* How the resting slots of b are ordered and linked, with names for the
\* relations that hide how they are computed.
<1> DEFINE L       == Live(b)
           Old(j, k)  == <<j, k>> \in b.older
           Same(j, k) == SameLevel(b, j, k)
           Nx(j)      == b.pool[j].next
           Pv(j)      == b.pool[j].prev
<1>11. /\ i \in L /\ NULL_IDX \notin L
       /\ Live(u) = L \ {i}
       /\ o.next = Nx(i) /\ o.prev = Pv(i)
  <2>1. NULL_IDX \notin Idx
    BY DEF Idx, NULL_IDX
  <2>2. o.next = Nx(i) /\ o.prev = Pv(i)
    BY DEF o
  <2>3. i \in L /\ L \subseteq Idx /\ Live(u) = L \ {i}
    BY <1>2
  <2> QED BY <2>1, <2>2, <2>3
<1>12. \A j, k \in L : Old(j, k) => Same(j, k) /\ ~Old(k, j)
  BY <1>2 DEF GoodBook, Ordered
<1>13. \A j, k \in L : j # k /\ Same(j, k) => Old(j, k) \/ Old(k, j)
  BY DEF GoodBook, Ordered
<1>14. \A j, k, m \in L : Old(j, k) /\ Old(k, m) => Old(j, m)
  BY DEF GoodBook, Ordered
<1>15. \A j, k, m \in L : Same(j, k) => Same(k, j) /\ (Same(k, m) => Same(j, m))
  BY DEF SameLevel
<1>16. \A j \in L : \/ Nx(j) = NULL_IDX /\ \A k \in L : ~Old(j, k)
                    \/ /\ Nx(j) \in L /\ Pv(Nx(j)) = j /\ Old(j, Nx(j))
                       /\ \A k \in L : ~(Old(j, k) /\ Old(k, Nx(j)))
  <2> SUFFICES ASSUME NEW j \in L
               PROVE  \/ Nx(j) = NULL_IDX /\ \A k \in L : ~Old(j, k)
                      \/ /\ Nx(j) \in L /\ Pv(Nx(j)) = j /\ Old(j, Nx(j))
                         /\ \A k \in L : ~(Old(j, k) /\ Old(k, Nx(j)))
    OBVIOUS
  <2>1. Nx(j) = NULL_IDX \/ (Nx(j) \in L /\ Pv(Nx(j)) = j)
    BY DEF GoodBook, NeighboursLinked
  <2>2. \/ Nx(j) = NULL_IDX /\ \A k \in L : ~Old(j, k)
        \/ Old(j, Nx(j)) /\ \A k \in L : ~(Old(j, k) /\ Old(k, Nx(j)))
    BY DEF GoodBook, LinkedInOrder
  <2>3. Nx(j) = NULL_IDX => ~Old(j, Nx(j))
    BY <1>11 DEF GoodBook, IsBook, NULL_IDX, Idx
  <2> HIDE DEF L, Old, Nx, Pv
  <2> QED BY <2>1, <2>2, <2>3
<1>17. \A j \in L : \/ Pv(j) = NULL_IDX /\ \A k \in L : ~Old(k, j)
                    \/ Pv(j) \in L /\ Nx(Pv(j)) = j
  BY DEF GoodBook, NeighboursLinked, LinkedInOrder
<1>18. \A j \in L \ {i} :
         /\ u.pool[j].next = IF j = Pv(i) THEN Nx(i) ELSE Nx(j)
         /\ u.pool[j].prev = IF j = Nx(i) THEN Pv(i) ELSE Pv(j)
         /\ \A k \in L \ {i} : /\ <<j, k>> \in u.older <=> Old(j, k)
                               /\ SameLevel(u, j, k) <=> Same(j, k)
  BY <1>3, <1>4, <1>11 DEF SameLevel
<1>19. LinkedInOrder(u)
  <2> SUFFICES ASSUME NEW j \in L \ {i}
               PROVE  /\ \/ u.pool[j].next = NULL_IDX /\ \A k \in L \ {i} : <<j, k>> \notin u.older
                         \/ /\ <<j, u.pool[j].next>> \in u.older
                            /\ \A k \in L \ {i} :
                                 ~(<<j, k>> \in u.older /\ <<k, u.pool[j].next>> \in u.older)
                      /\ u.pool[j].prev = NULL_IDX => \A k \in L \ {i} : <<k, j>> \notin u.older
    BY <1>11 DEF LinkedInOrder
  <2> DEFINE n == u.pool[j].next
             q == u.pool[j].prev
  <2>0. /\ n = IF j = Pv(i) THEN Nx(i) ELSE Nx(j)
        /\ q = IF j = Nx(i) THEN Pv(i) ELSE Pv(j)
    BY <1>18
  <2> HIDE DEF n, q, L, Old, Same, Nx, Pv
  <2>1. \/ n = NULL_IDX /\ \A k \in L \ {i} : ~Old(j, k)
        \/ /\ n \in L \ {i} /\ Old(j, n)
           /\ \A k \in L \ {i} : ~(Old(j, k) /\ Old(k, n))
    <3>1. CASE j = Pv(i)
      <4>1. Nx(j) = i /\ Old(j, i) /\ n = Nx(i)
        BY <1>11, <1>16, <1>17, <2>0, <3>1
      <4>2. \A k \in L : Old(j, k) => k = i \/ Old(i, k)
        BY <1>11, <1>12, <1>13, <1>15, <1>16, <4>1
      <4> QED BY <1>11, <1>12, <1>14, <1>16, <4>1, <4>2
    <3>2. CASE j # Pv(i)
      <4>1. n = Nx(j) /\ n # i
        BY <1>11, <1>16, <2>0, <3>2
      <4> QED BY <1>16, <4>1
    <3> QED BY <3>1, <3>2
  <2>2. q = NULL_IDX => \A k \in L \ {i} : ~Old(k, j)
    <3>1. CASE j = Nx(i)
      <4>1. Old(i, j) /\ q = Pv(i)
        BY <1>11, <1>16, <2>0, <3>1
      <4>2. \A k \in L : Old(k, j) => k = i \/ Old(k, i)
        BY <1>11, <1>12, <1>13, <1>15, <1>16, <3>1, <4>1
      <4> QED BY <1>11, <1>17, <4>1, <4>2
    <3>2. CASE j # Nx(i)
      BY <1>11, <1>17, <2>0, <3>2
    <3> QED BY <3>1, <3>2
  <2> QED BY <1>18, <2>1, <2>2 DEF n, q
<1> DEFINE Hd(j) == b.levels[b.pool[j].side][b.pool[j].price].head
           Tl(j) == b.levels[b.pool[j].side][b.pool[j].price].tail
<1>20. \A j \in L :
         /\ Nx(j) # NULL_IDX => Same(j, Nx(j))
         /\ Pv(j) # NULL_IDX => Same(j, Pv(j))
         /\ Nx(j) = NULL_IDX => Tl(j) = j
         /\ Pv(j) = NULL_IDX => Hd(j) = j
  BY <1>11 DEF GoodBook, NeighboursLinked
<1>21. \A j, k \in L : Same(j, k) => Hd(j) = Hd(k) /\ Tl(j) = Tl(k)
  BY DEF SameLevel
<1>22. ASSUME NEW j \in L \ {i}
       PROVE  /\ u.pool[j].price \in DOMAIN u.levels[u.pool[j].side]
              /\ u.levels[u.pool[j].side][u.pool[j].price].head =
                   IF Same(i, j) /\ Pv(i) = NULL_IDX THEN Nx(i) ELSE Hd(j)
              /\ u.levels[u.pool[j].side][u.pool[j].price].tail =
                   IF Same(i, j) /\ Nx(i) = NULL_IDX THEN Pv(i) ELSE Tl(j)
  <2> DEFINE s == b.pool[j].side
             p == b.pool[j].price
  <2>1. u.pool[j].side = s /\ u.pool[j].price = p /\ s \in Side /\ p \in Price
    BY <1>2, <1>3, <1>11
  <2>2. j \in Members(u, s, p) /\ p \in DOMAIN b.levels[s]
    BY <1>11, <2>1 DEF Members, GoodBook, NeighboursLinked
  <2>3. Same(i, j) <=> s = o.side /\ p = o.price
    BY DEF SameLevel, o
  <2> HIDE DEF s, p, Same
  <2>4. p \in DOMAIN u.levels[s]
    BY <1>5, <2>1, <2>2 DEF RemovedLevels
  <2>5. CASE s = o.side /\ p = o.price
    <3>1. /\ u.levels[s][p].head = IF o.prev = NULL_IDX THEN o.next ELSE lvl.head
          /\ u.levels[s][p].tail = IF o.next = NULL_IDX THEN o.prev ELSE lvl.tail
      BY <1>5, <2>1, <2>4, <2>5 DEF RemovedLevels
    <3>2. Hd(j) = lvl.head /\ Tl(j) = lvl.tail
      BY <2>5 DEF lvl, s, p
    <3> QED BY <1>11, <2>1, <2>3, <2>4, <2>5, <3>1, <3>2
  <2>6. CASE ~(s = o.side /\ p = o.price)
    <3>1. u.levels[s][p] = b.levels[s][p]
      BY <1>5, <2>1, <2>4, <2>6 DEF RemovedLevels
    <3>2. Hd(j) = b.levels[s][p].head /\ Tl(j) = b.levels[s][p].tail
      BY DEF s, p
    <3> QED BY <2>1, <2>3, <2>4, <2>6, <3>1, <3>2
  <2> QED BY <2>5, <2>6
<1>23. NeighboursLinked(u)
  <2> SUFFICES ASSUME NEW j \in L \ {i}
               PROVE  LET r == u.pool[j]
                      IN  /\ r.price \in DOMAIN u.levels[r.side]
                          /\ \/ r.next = NULL_IDX /\ u.levels[r.side][r.price].tail = j
                             \/ /\ r.next \in L \ {i} /\ SameLevel(u, j, r.next)
                                /\ u.pool[r.next].prev = j
                          /\ \/ r.prev = NULL_IDX /\ u.levels[r.side][r.price].head = j
                             \/ /\ r.prev \in L \ {i} /\ SameLevel(u, j, r.prev)
                                /\ u.pool[r.prev].next = j
    BY <1>11 DEF NeighboursLinked
  <2> DEFINE n == u.pool[j].next
             q == u.pool[j].prev
             hd == u.levels[u.pool[j].side][u.pool[j].price].head
             tl == u.levels[u.pool[j].side][u.pool[j].price].tail
  <2>0. /\ n = IF j = Pv(i) THEN Nx(i) ELSE Nx(j)
        /\ q = IF j = Nx(i) THEN Pv(i) ELSE Pv(j)
    BY <1>18
  <2>1. /\ hd = IF Same(i, j) /\ Pv(i) = NULL_IDX THEN Nx(i) ELSE Hd(j)
        /\ tl = IF Same(i, j) /\ Nx(i) = NULL_IDX THEN Pv(i) ELSE Tl(j)
    BY <1>22
  <2>2. u.pool[j].price \in DOMAIN u.levels[u.pool[j].side]
    BY <1>22
  <2> DEFINE Nu(k) == u.pool[k].next
             Pu(k) == u.pool[k].prev
             Su(k) == SameLevel(u, j, k)
  <2>3. \A k \in L \ {i} :
          /\ Nu(k) = IF k = Pv(i) THEN Nx(i) ELSE Nx(k)
          /\ Pu(k) = IF k = Nx(i) THEN Pv(i) ELSE Pv(k)
          /\ Su(k) <=> Same(j, k)
    BY <1>18
  <2> HIDE DEF n, q, hd, tl, L, Old, Same, Nx, Pv, Hd, Tl, Nu, Pu, Su
  <2>4. \/ n = NULL_IDX /\ tl = j
        \/ n \in L \ {i} /\ Su(n) /\ Pu(n) = j
    <3>1. CASE j = Pv(i)
      <4>1. Nx(j) = i /\ Same(j, i) /\ Same(i, j) /\ n = Nx(i)
        BY <1>11, <1>12, <1>15, <1>16, <1>17, <2>0, <3>1
      <4> QED BY <1>11, <1>12, <1>15, <1>16, <1>20, <2>1, <2>3, <3>1, <4>1
    <3>2. CASE j # Pv(i)
      <4>1. n = Nx(j) /\ n # i
        BY <1>11, <1>16, <2>0, <3>2
      <4>2. CASE n = NULL_IDX
        BY <1>11, <1>20, <1>21, <2>1, <4>1, <4>2
      <4>3. CASE n # NULL_IDX
        BY <1>11, <1>16, <1>20, <2>3, <4>1, <4>3
      <4> QED BY <4>2, <4>3
    <3> QED BY <3>1, <3>2
  <2>5. \/ q = NULL_IDX /\ hd = j
        \/ q \in L \ {i} /\ Su(q) /\ Nu(q) = j
    <3>1. CASE j = Nx(i)
      <4>1. Pv(j) = i /\ Same(j, i) /\ Same(i, j) /\ q = Pv(i)
        BY <1>11, <1>12, <1>15, <1>16, <2>0, <3>1
      <4> QED BY <1>11, <1>12, <1>15, <1>16, <1>17, <1>20, <2>1, <2>3, <3>1, <4>1
    <3>2. CASE j # Nx(i)
      <4>1. q = Pv(j) /\ q # i
        BY <1>11, <1>17, <2>0, <3>2
      <4>2. CASE q = NULL_IDX
        BY <1>11, <1>20, <1>21, <2>1, <4>1, <4>2
      <4>3. CASE q # NULL_IDX
        BY <1>11, <1>17, <1>20, <2>3, <4>1, <4>3
      <4> QED BY <4>2, <4>3
    <3> QED BY <3>1, <3>2
  <2> QED BY <2>2, <2>4, <2>5 DEF n, q, hd, tl, Nu, Pu, Su
<1>24. \A j \in L : /\ Hd(j) \in L /\ Same(j, Hd(j)) /\ Pv(Hd(j)) = NULL_IDX
                    /\ Tl(j) \in L /\ Same(j, Tl(j)) /\ Nx(Tl(j)) = NULL_IDX
  <2> SUFFICES ASSUME NEW j \in L
               PROVE  /\ Hd(j) \in L /\ Same(j, Hd(j)) /\ Pv(Hd(j)) = NULL_IDX
                      /\ Tl(j) \in L /\ Same(j, Tl(j)) /\ Nx(Tl(j)) = NULL_IDX
    OBVIOUS
  <2>1. b.pool[j].side \in Side /\ b.pool[j].price \in DOMAIN b.levels[b.pool[j].side]
    BY <1>2 DEF GoodBook, NeighboursLinked
  <2> DEFINE side == b.pool[j].side
             price == b.pool[j].price
             own == b.levels[side][price]
  <2>2. /\ {own.head, own.tail} \subseteq Members(b, side, price)
        /\ b.pool[own.head].prev = NULL_IDX
        /\ b.pool[own.tail].next = NULL_IDX
    BY <2>1 DEF GoodBook, EndsLinked
  <2>3. \A k \in Members(b, side, price) : k \in L /\ Same(j, k)
    BY DEF Members, SameLevel
  <2>4. Hd(j) = own.head /\ Tl(j) = own.tail
    OBVIOUS
  <2> HIDE DEF side, price, own
  <2> QED BY <2>2, <2>3, <2>4
<1>25. EndsLinked(u)
  <2> SUFFICES ASSUME NEW side \in Side, NEW p \in DOMAIN u.levels[side]
               PROVE  LET ul == u.levels[side][p]
                      IN  /\ {ul.head, ul.tail} \subseteq Members(u, side, p)
                          /\ u.pool[ul.head].prev = NULL_IDX
                          /\ u.pool[ul.tail].next = NULL_IDX
    BY DEF EndsLinked
  <2>1. p \in Price
    BY <1>6
  <2>2. Members(u, side, p) # {}
    <3>1. CASE side = o.side /\ p = o.price
      BY <1>5, <2>1, <3>1 DEF RemovedLevels
    <3>2. CASE ~(side = o.side /\ p = o.price)
      <4>1. p \in DOMAIN b.levels[side]
        BY <1>5, <2>1, <3>2 DEF RemovedLevels
      <4>2. Members(b, side, p) # {}
        BY <4>1 DEF GoodBook, EndsLinked
      <4>3. Members(u, side, p) = Members(b, side, p) \ {i} /\ i \notin Members(b, side, p)
        BY <1>5, <2>1, <3>2 DEF RemovedLevels
      <4> QED BY <4>2, <4>3
    <3> QED BY <3>1, <3>2
  <2>3. PICK j \in L \ {i} : u.pool[j].side = side /\ u.pool[j].price = p
    BY <1>11, <2>2 DEF Members
  <2> DEFINE hd == u.levels[side][p].head
             tl == u.levels[side][p].tail
             Nu(k) == u.pool[k].next
             Pu(k) == u.pool[k].prev
             Su(k) == SameLevel(u, j, k)
  <2>4. /\ hd = IF Same(i, j) /\ Pv(i) = NULL_IDX THEN Nx(i) ELSE Hd(j)
        /\ tl = IF Same(i, j) /\ Nx(i) = NULL_IDX THEN Pv(i) ELSE Tl(j)
    BY <1>22, <2>3
  <2>5. \A k \in L \ {i} :
          /\ Nu(k) = IF k = Pv(i) THEN Nx(i) ELSE Nx(k)
          /\ Pu(k) = IF k = Nx(i) THEN Pv(i) ELSE Pv(k)
          /\ Su(k) <=> Same(j, k)
    BY <1>18
  <2> HIDE DEF hd, tl, L, Old, Same, Nx, Pv, Hd, Tl, Nu, Pu, Su
  <2>6. hd \in L \ {i} /\ Su(hd) /\ Pu(hd) = NULL_IDX
    <3>1. CASE Same(i, j) /\ Pv(i) = NULL_IDX
      <4>1. Nx(i) # NULL_IDX
        BY <1>11, <1>13, <1>16, <1>17, <3>1
      <4>2. Nx(i) \in L /\ Nx(i) # i /\ Same(i, Nx(i))
        BY <1>11, <1>12, <1>16, <4>1
      <4> QED BY <1>11, <1>15, <2>4, <2>5, <3>1, <4>2
    <3>2. CASE ~(Same(i, j) /\ Pv(i) = NULL_IDX)
      BY <1>11, <1>15, <1>16, <1>24, <2>4, <2>5, <3>2
    <3> QED BY <3>1, <3>2
  <2>7. tl \in L \ {i} /\ Su(tl) /\ Nu(tl) = NULL_IDX
    <3>1. CASE Same(i, j) /\ Nx(i) = NULL_IDX
      <4>1. Pv(i) # NULL_IDX
        BY <1>11, <1>13, <1>16, <1>17, <3>1
      <4>2. Pv(i) \in L /\ Nx(Pv(i)) = i /\ Same(i, Pv(i)) /\ Pv(i) # i
        BY <1>11, <1>12, <1>16, <1>17, <1>20, <4>1
      <4> QED BY <1>11, <1>15, <2>4, <2>5, <3>1, <4>2
    <3>2. CASE ~(Same(i, j) /\ Nx(i) = NULL_IDX)
      BY <1>11, <1>15, <1>16, <1>17, <1>24, <2>4, <2>5, <3>2
    <3> QED BY <3>1, <3>2
  <2>8. hd \in Members(u, side, p) /\ tl \in Members(u, side, p)
    BY <1>11, <2>3, <2>6, <2>7 DEF Members, SameLevel, Su
  <2> QED BY <2>6, <2>7, <2>8 DEF hd, tl, Nu, Pu
<1> QED BY <1>7, <1>8, <1>9, <1>10, <1>19, <1>23, <1>25 DEF GoodBook

-----------------------------------------------------------------------------
(* Steps that change no order's place: Alloc, Free and the fills.           *)

\* a and b differ in no link, no key and no count of what rests in b.
SameResting(b, a) ==
    /\ a.orderMap = b.orderMap /\ a.older = b.older
    /\ \A side \in Side : DOMAIN a.levels[side] = DOMAIN b.levels[side]
    /\ \A side \in Side : \A p \in DOMAIN b.levels[side] :
         /\ a.levels[side][p].head = b.levels[side][p].head
         /\ a.levels[side][p].tail = b.levels[side][p].tail
         /\ a.levels[side][p].orderCount = b.levels[side][p].orderCount
    /\ \A j \in Live(b) :
         /\ a.pool[j].orderId = b.pool[j].orderId
         /\ a.pool[j].side = b.pool[j].side /\ a.pool[j].price = b.pool[j].price
         /\ a.pool[j].next = b.pool[j].next /\ a.pool[j].prev = b.pool[j].prev

\* Such a step keeps the lists of the book good.
LEMMA SameRestingGood ==
    ASSUME NEW b, NEW reserved, GoodBook(b, reserved), NEW a, IsBook(a), SameResting(b, a)
    PROVE  /\ Live(a) = Live(b)
           /\ \A id \in DOMAIN a.orderMap : a.pool[a.orderMap[id]].orderId = id
           /\ EndsLinked(a) /\ NeighboursLinked(a) /\ Counted(a)
           /\ Ordered(a) /\ LinkedInOrder(a)
<1>1. Live(a) = Live(b)
  BY DEF SameResting, Live
<1>2. \A side, p : Members(a, side, p) = Members(b, side, p)
  BY <1>1 DEF SameResting, Members
<1>3. \A id \in DOMAIN a.orderMap : a.pool[a.orderMap[id]].orderId = id
  BY DEF SameResting, Live, GoodBook, Partitioned
<1>4. EndsLinked(a)
  <2> SUFFICES ASSUME NEW side \in Side, NEW p \in DOMAIN a.levels[side]
               PROVE  LET lvl == a.levels[side][p]
                      IN  /\ {lvl.head, lvl.tail} \subseteq Members(a, side, p)
                          /\ a.pool[lvl.head].prev = NULL_IDX
                          /\ a.pool[lvl.tail].next = NULL_IDX
    BY DEF EndsLinked
  <2>1. /\ p \in DOMAIN b.levels[side]
        /\ a.levels[side][p].head = b.levels[side][p].head
        /\ a.levels[side][p].tail = b.levels[side][p].tail
    BY DEF SameResting
  <2>2. /\ {b.levels[side][p].head, b.levels[side][p].tail} \subseteq Members(b, side, p)
        /\ b.pool[b.levels[side][p].head].prev = NULL_IDX
        /\ b.pool[b.levels[side][p].tail].next = NULL_IDX
    BY <2>1 DEF GoodBook, EndsLinked
  <2>3. Members(b, side, p) \subseteq Live(b)
    BY DEF Members
  <2>4. \A j \in Members(b, side, p) :
           a.pool[j].prev = b.pool[j].prev /\ a.pool[j].next = b.pool[j].next
    BY <2>3 DEF SameResting
  <2> QED BY <1>2, <2>1, <2>2, <2>4
<1>5. NeighboursLinked(a)
  <2> SUFFICES ASSUME NEW j \in Live(b)
               PROVE  LET r == a.pool[j]
                      IN  /\ r.price \in DOMAIN a.levels[r.side]
                          /\ \/ r.next = NULL_IDX /\ a.levels[r.side][r.price].tail = j
                             \/ /\ r.next \in Live(b) /\ SameLevel(a, j, r.next)
                                /\ a.pool[r.next].prev = j
                          /\ \/ r.prev = NULL_IDX /\ a.levels[r.side][r.price].head = j
                             \/ /\ r.prev \in Live(b) /\ SameLevel(a, j, r.prev)
                                /\ a.pool[r.prev].next = j
    BY <1>1 DEF NeighboursLinked
  <2> DEFINE s == b.pool[j].side  p == b.pool[j].price
             n == b.pool[j].next  q == b.pool[j].prev
  <2>1. /\ s \in Side /\ p \in DOMAIN b.levels[s]
    BY LiveSlot DEF PoolOrder
  <2>2. /\ \/ n = NULL_IDX /\ b.levels[s][p].tail = j
           \/ n \in Live(b) /\ SameLevel(b, j, n) /\ b.pool[n].prev = j
        /\ \/ q = NULL_IDX /\ b.levels[s][p].head = j
           \/ q \in Live(b) /\ SameLevel(b, j, q) /\ b.pool[q].next = j
    BY DEF GoodBook, NeighboursLinked
  <2>3. /\ a.pool[j].side = s /\ a.pool[j].price = p
        /\ a.pool[j].next = n /\ a.pool[j].prev = q
        /\ p \in DOMAIN a.levels[s]
        /\ a.levels[s][p].tail = b.levels[s][p].tail
        /\ a.levels[s][p].head = b.levels[s][p].head
    BY <2>1 DEF SameResting
  <2>4. \A k \in Live(b) : /\ SameLevel(b, j, k) => SameLevel(a, j, k)
                           /\ a.pool[k].prev = b.pool[k].prev
                           /\ a.pool[k].next = b.pool[k].next
    BY DEF SameResting, SameLevel
  <2> HIDE DEF s, p, n, q
  <2> QED BY <2>2, <2>3, <2>4
<1>6. Counted(a)
  BY <1>2 DEF GoodBook, Counted, SameResting
<1>7. \A j, k \in Live(b) : SameLevel(a, j, k) <=> SameLevel(b, j, k)
  BY DEF SameResting, SameLevel
<1>8. Ordered(a)
  BY <1>1, <1>7 DEF GoodBook, Ordered, SameResting
<1>9. LinkedInOrder(a)
  BY <1>1 DEF GoodBook, LinkedInOrder, SameResting
<1> QED BY <1>1, <1>3, <1>4, <1>5, <1>6, <1>8, <1>9

\* Taking the last entry off the free list.
LEMMA PopFreeList ==
    ASSUME NEW b, NEW reserved, Partitioned(b, reserved), b.freeList \in Seq(Idx),
           b.freeList # <<>>, NEW rest, rest = SubSeq(b.freeList, 1, Len(b.freeList) - 1)
    PROVE  /\ AllocIdx(b) \in Idx /\ AllocIdx(b) \in FreeSlots(b)
           /\ rest \in Seq(Idx)
           /\ \A k, m \in DOMAIN rest : rest[k] = rest[m] => k = m
           /\ {rest[k] : k \in DOMAIN rest} = FreeSlots(b) \ {AllocIdx(b)}
<1> DEFINE free == b.freeList
           n == Len(free)
<1>1. n \in Nat /\ n >= 1 /\ DOMAIN free = 1 .. n
  OBVIOUS
<1>2. /\ DOMAIN rest = 1 .. n - 1
      /\ \A k \in DOMAIN rest : rest[k] = free[k]
      /\ rest \in Seq(Idx)
  BY <1>1
<1>3. AllocIdx(b) = free[n] /\ n \in DOMAIN free
  BY <1>1 DEF AllocIdx
<1>4. \A k, m \in DOMAIN free : free[k] = free[m] => k = m
  BY DEF Partitioned
<1>5. free[n] \in Idx
  BY <1>1
<1> HIDE DEF free, n
<1>6. DOMAIN rest \subseteq DOMAIN free /\ n \notin DOMAIN rest
      /\ \A k \in DOMAIN free : k # n => k \in DOMAIN rest
  BY <1>1, <1>2
<1>7. \A k, m \in DOMAIN rest : rest[k] = rest[m] => k = m
  BY <1>2, <1>4, <1>6
<1>8. {rest[k] : k \in DOMAIN rest} = {free[k] : k \in DOMAIN free} \ {free[n]}
  BY <1>2, <1>3, <1>4, <1>6
<1> QED BY <1>2, <1>3, <1>5, <1>7, <1>8 DEF FreeSlots, free

\* What Alloc promises: a good book with one reserved slot, which holds the
\* fields it was given and rests nowhere.
Allocated(b, a, i, o) ==
    /\ GoodBook(a, {i})
    /\ i \in Idx
    /\ a.pool[i] = o
    /\ o \in PoolOrder
    /\ Live(a) = Live(b)
    /\ i \notin Live(b)
    /\ a.orderMap = b.orderMap
    /\ a.levels = b.levels
    /\ \A j \in Live(b) : a.pool[j] = b.pool[j]

\* Alloc does what Allocated says.
LEMMA AllocGood ==
    ASSUME NEW b, GoodBook(b, {}), b.freeList # <<>>,
           NEW type \in OrderType, NEW id \in OrderId, NEW side \in Side,
           NEW price \in Price, NEW qty \in Quantity
    PROVE  Allocated(b, Alloc(b, type, id, side, price, qty), AllocIdx(b),
                     [ orderId |-> id, side |-> side, price |-> price, orderType |-> type,
                       quantity |-> qty, prev |-> NULL_IDX, next |-> NULL_IDX ])
<1> DEFINE o == [ orderId |-> id, side |-> side, price |-> price, orderType |-> type,
                  quantity |-> qty, prev |-> NULL_IDX, next |-> NULL_IDX ]
           a == Alloc(b, type, id, side, price, qty)
           i == AllocIdx(b)
<1>1. IsBook(b) /\ Partitioned(b, {}) /\ b.freeList \in Seq(Idx)
      /\ b.pool \in [Idx -> PoolOrder]
  BY DEF GoodBook, IsBook
<1>2. o \in PoolOrder
  BY DEF PoolOrder, Link
<1>3. /\ a.pool = [b.pool EXCEPT ![i] = o]
      /\ a.freeList = SubSeq(b.freeList, 1, Len(b.freeList) - 1)
      /\ a.levels = b.levels /\ a.orderMap = b.orderMap /\ a.older = b.older
      /\ a = [ pool |-> a.pool, freeList |-> a.freeList, levels |-> a.levels,
               orderMap |-> a.orderMap, older |-> a.older ]
  BY DEF Alloc
<1> HIDE DEF a, o, i
<1>4. /\ i \in Idx /\ i \in FreeSlots(b)
      /\ a.freeList \in Seq(Idx)
      /\ \A k, m \in DOMAIN a.freeList : a.freeList[k] = a.freeList[m] => k = m
      /\ FreeSlots(a) = FreeSlots(b) \ {i}
  BY <1>1, <1>3, PopFreeList DEF FreeSlots, i
<1>5. i \notin Live(b)
  BY <1>1, <1>4 DEF Partitioned
<1>6. a.pool \in [Idx -> PoolOrder] /\ a.pool[i] = o
      /\ \A j \in Idx : j # i => a.pool[j] = b.pool[j]
  BY <1>1, <1>2, <1>3, <1>4
<1>7. IsBook(a)
  BY <1>1, <1>3, <1>4, <1>6 DEF IsBook
<1>8. \A j \in Live(b) : a.pool[j] = b.pool[j]
  BY <1>1, <1>5, <1>6 DEF Live, IsBook, IsPartialFunction
<1>9. SameResting(b, a)
  BY <1>3, <1>8 DEF SameResting
<1>10. /\ Live(a) = Live(b)
       /\ \A k \in DOMAIN a.orderMap : a.pool[a.orderMap[k]].orderId = k
       /\ EndsLinked(a) /\ NeighboursLinked(a) /\ Counted(a)
       /\ Ordered(a) /\ LinkedInOrder(a)
  BY <1>7, <1>9, SameRestingGood
<1>11. Partitioned(a, {i})
  BY <1>1, <1>4, <1>5, <1>10 DEF Partitioned
<1>12. GoodBook(a, {i})
  BY <1>7, <1>10, <1>11 DEF GoodBook
<1> QED BY <1>2, <1>3, <1>4, <1>5, <1>6, <1>8, <1>10, <1>12 DEF Allocated, a, o, i

\* Giving back the slot of an order that rests nowhere.
LEMMA FreeGood ==
    ASSUME NEW b, NEW i, GoodBook(b, {i})
    PROVE  /\ GoodBook(Free(b, i), {})
           /\ Live(Free(b, i)) = Live(b)
<1> DEFINE a == Free(b, i)
<1>1. IsBook(b) /\ Partitioned(b, {i}) /\ b.freeList \in Seq(Idx)
      /\ b.pool \in [Idx -> PoolOrder]
  BY DEF GoodBook, IsBook
<1>2. i \in Idx /\ i \notin Live(b) /\ i \notin FreeSlots(b)
  BY <1>1 DEF Partitioned
<1>3. /\ a.pool = [b.pool EXCEPT ![i] = FreeSlot]
      /\ a.freeList = Append(b.freeList, i)
      /\ a.levels = b.levels /\ a.orderMap = b.orderMap /\ a.older = b.older
      /\ a = [ pool |-> a.pool, freeList |-> a.freeList, levels |-> a.levels,
               orderMap |-> a.orderMap, older |-> a.older ]
  BY DEF Free
<1> HIDE DEF a
<1>4. FreeSlot \in PoolOrder
  BY NumericAssumption DEF FreeSlot, PoolOrder, Side, Price, OrderType, Quantity, Link
<1>5. a.pool \in [Idx -> PoolOrder] /\ \A j \in Idx : j # i => a.pool[j] = b.pool[j]
  BY <1>1, <1>2, <1>3, <1>4
<1>6. IsBook(a)
  BY <1>1, <1>2, <1>3, <1>5 DEF IsBook
<1>7. SameResting(b, a)
  BY <1>1, <1>2, <1>3, <1>5 DEF SameResting, Live, IsBook, IsPartialFunction
<1>8. /\ Live(a) = Live(b)
      /\ \A k \in DOMAIN a.orderMap : a.pool[a.orderMap[k]].orderId = k
      /\ EndsLinked(a) /\ NeighboursLinked(a) /\ Counted(a)
      /\ Ordered(a) /\ LinkedInOrder(a)
  BY <1>6, <1>7, SameRestingGood
<1>9. /\ FreeSlots(a) = FreeSlots(b) \cup {i}
      /\ \A k, m \in DOMAIN a.freeList : a.freeList[k] = a.freeList[m] => k = m
  <2> DEFINE free == b.freeList  new == a.freeList  n == Len(free)
  <2>1. /\ DOMAIN new = 1 .. n + 1 /\ DOMAIN free = 1 .. n
        /\ n \in Nat
        /\ new[n + 1] = i
        /\ \A k \in 1 .. n : new[k] = free[k]
    BY <1>1, <1>3
  <2>2. \A k, m \in DOMAIN free : free[k] = free[m] => k = m
    BY <1>1 DEF Partitioned
  <2>3. FreeSlots(b) = {free[k] : k \in DOMAIN free}
        /\ FreeSlots(a) = {new[k] : k \in DOMAIN new}
    BY DEF FreeSlots
  <2> HIDE DEF free, new, n
  <2>4. \A k \in DOMAIN free : free[k] # i
    BY <1>2, <2>3
  <2>5. n + 1 \in DOMAIN new /\ DOMAIN new = DOMAIN free \cup {n + 1}
        /\ n + 1 \notin DOMAIN free /\ \A k \in DOMAIN free : new[k] = free[k]
    BY <2>1
  <2>6. \A k, m \in DOMAIN new : new[k] = new[m] => k = m
    BY <2>1, <2>2, <2>4, <2>5
  <2>7. {new[k] : k \in DOMAIN new} = {free[k] : k \in DOMAIN free} \cup {i}
    BY <2>1, <2>5
  <2> QED BY <2>3, <2>6, <2>7 DEF new
<1>10. Partitioned(a, {})
  BY <1>1, <1>2, <1>8, <1>9 DEF Partitioned
<1> QED BY <1>6, <1>8, <1>10 DEF GoodBook, a

\* a is b with the quantity qty for the slot i, as far as the matching of
\* orders can tell: nothing else changed but a level's total.
Requantified(b, a, reserved, i, qty) ==
    /\ GoodBook(a, reserved)
    /\ Live(a) = Live(b)
    /\ a.orderMap = b.orderMap
    /\ a.freeList = b.freeList
    /\ a.older = b.older
    /\ \A side \in Side : DOMAIN a.levels[side] = DOMAIN b.levels[side]
    /\ \A side \in Side : \A p \in DOMAIN b.levels[side] :
         a.levels[side][p].head = b.levels[side][p].head
    /\ a.pool[i].quantity = qty
    /\ \A j \in Idx :
         /\ a.pool[j].orderId = b.pool[j].orderId
         /\ a.pool[j].side = b.pool[j].side /\ a.pool[j].price = b.pool[j].price
         /\ a.pool[j].orderType = b.pool[j].orderType
         /\ a.pool[j].next = b.pool[j].next /\ a.pool[j].prev = b.pool[j].prev
         /\ j # i => a.pool[j].quantity = b.pool[j].quantity

\* A new quantity in a slot, seen as a record update.
LEMMA QuantityUpdate ==
    ASSUME NEW pool \in [Idx -> PoolOrder], NEW i \in Idx, NEW qty \in Quantity,
           NEW new, new = [pool EXCEPT ![i] = [pool[i] EXCEPT !.quantity = qty]]
    PROVE  /\ new \in [Idx -> PoolOrder]
           /\ new[i].quantity = qty
           /\ \A j \in Idx :
                /\ new[j].orderId = pool[j].orderId
                /\ new[j].side = pool[j].side /\ new[j].price = pool[j].price
                /\ new[j].orderType = pool[j].orderType
                /\ new[j].next = pool[j].next /\ new[j].prev = pool[j].prev
                /\ j # i => new[j].quantity = pool[j].quantity
<1> DEFINE o == pool[i]
           n == [o EXCEPT !.quantity = qty]
<1>1. o \in PoolOrder
  OBVIOUS
<1>2. new = [pool EXCEPT ![i] = n]
  OBVIOUS
<1> HIDE DEF o
<1>3. /\ n \in PoolOrder /\ n.quantity = qty
      /\ n.orderId = o.orderId /\ n.side = o.side /\ n.price = o.price
      /\ n.orderType = o.orderType /\ n.next = o.next /\ n.prev = o.prev
  BY <1>1 DEF PoolOrder
<1> HIDE DEF n
<1>4. new[i] = n /\ \A j \in Idx : j # i => new[j] = pool[j]
  BY <1>2
<1>5. new \in [Idx -> PoolOrder]
  BY <1>2, <1>3
<1> QED BY <1>3, <1>4, <1>5 DEF o

\* PutType for a level that is already there.
LEMMA PutLevel ==
    ASSUME NEW f, IsPartialFunction(f, Price, PriceLevel), NEW p \in DOMAIN f,
           NEW lvl \in PriceLevel
    PROVE  /\ IsPartialFunction(Put(f, p, lvl), Price, PriceLevel)
           /\ DOMAIN Put(f, p, lvl) = DOMAIN f
           /\ Put(f, p, lvl)[p] = lvl
           /\ \A x \in DOMAIN f : x # p => Put(f, p, lvl)[x] = f[x]
BY DEF IsPartialFunction, Put

\* SetQuantity changes nothing but a quantity and a total.
LEMMA SetQuantityGood ==
    ASSUME NEW b, NEW reserved, GoodBook(b, reserved), NEW i \in Live(b),
           NEW qty \in Quantity, NEW total \in Quantity
    PROVE  Requantified(b, SetQuantity(b, i, qty, total), reserved, i, qty)
<1> DEFINE a == SetQuantity(b, i, qty, total)
           o == b.pool[i]
           f == b.levels[o.side]
           lvl == f[o.price]
           new == [lvl EXCEPT !.totalQty = total]
<1>1. /\ i \in Idx /\ o \in PoolOrder /\ o.side \in Side /\ o.price \in Price
      /\ lvl \in PriceLevel /\ o.price \in DOMAIN f
  BY LiveSlot DEF PoolOrder
<1>2. /\ IsBook(b) /\ Partitioned(b, reserved)
      /\ b.pool \in [Idx -> PoolOrder]
      /\ b.levels = [s \in Side |-> b.levels[s]]
      /\ \A s \in Side : IsPartialFunction(b.levels[s], Price, PriceLevel)
  BY DEF GoodBook, IsBook
<1>3. /\ a.pool = [b.pool EXCEPT ![i] = [b.pool[i] EXCEPT !.quantity = qty]]
      /\ a.levels = [b.levels EXCEPT ![o.side] = Put(f, o.price, new)]
      /\ a.freeList = b.freeList /\ a.orderMap = b.orderMap /\ a.older = b.older
      /\ a = [ pool |-> a.pool, freeList |-> a.freeList, levels |-> a.levels,
               orderMap |-> a.orderMap, older |-> a.older ]
  BY DEF SetQuantity
<1> HIDE DEF a
<1>4. /\ a.pool \in [Idx -> PoolOrder]
      /\ a.pool[i].quantity = qty
      /\ \A j \in Idx :
           /\ a.pool[j].orderId = b.pool[j].orderId
           /\ a.pool[j].side = b.pool[j].side /\ a.pool[j].price = b.pool[j].price
           /\ a.pool[j].orderType = b.pool[j].orderType
           /\ a.pool[j].next = b.pool[j].next /\ a.pool[j].prev = b.pool[j].prev
           /\ j # i => a.pool[j].quantity = b.pool[j].quantity
  <2>1. b.pool \in [Idx -> PoolOrder] /\ i \in Idx
        /\ a.pool = [b.pool EXCEPT ![i] = [b.pool[i] EXCEPT !.quantity = qty]]
    BY <1>1, <1>2, <1>3
  <2> HIDE DEF o, f, lvl, new
  <2> QED BY <2>1, QuantityUpdate
<1>5. /\ new \in PriceLevel
      /\ new.head = lvl.head /\ new.tail = lvl.tail /\ new.orderCount = lvl.orderCount
  <2> HIDE DEF lvl
  <2> QED BY <1>1 DEF PriceLevel
<1> DEFINE g == Put(f, o.price, new)
<1>6. /\ IsPartialFunction(g, Price, PriceLevel)
      /\ DOMAIN g = DOMAIN f
      /\ g[o.price] = new
      /\ \A p \in DOMAIN f : p # o.price => g[p] = f[p]
  <2>1. IsPartialFunction(f, Price, PriceLevel)
    BY <1>1, <1>2
  <2>2. o.price \in DOMAIN f /\ new \in PriceLevel
    BY <1>1, <1>5
  <2> HIDE DEF f, lvl, new, o
  <2> QED BY <2>1, <2>2, PutLevel
<1>7. /\ a.levels = [s \in Side |-> a.levels[s]]
      /\ a.levels[o.side] = g
      /\ \A s \in Side : s # o.side => a.levels[s] = b.levels[s]
  <2> HIDE DEF g, o
  <2>1. a.levels = [s \in Side |-> IF s = o.side THEN g ELSE b.levels[s]]
    BY <1>2, <1>3 DEF g
  <2> QED BY <1>1, <2>1
<1> HIDE DEF g
<1>8. /\ \A s \in Side : IsPartialFunction(a.levels[s], Price, PriceLevel)
      /\ \A s \in Side : DOMAIN a.levels[s] = DOMAIN b.levels[s]
      /\ \A s \in Side : \A p \in DOMAIN b.levels[s] :
           /\ a.levels[s][p].head = b.levels[s][p].head
           /\ a.levels[s][p].tail = b.levels[s][p].tail
           /\ a.levels[s][p].orderCount = b.levels[s][p].orderCount
  <2> SUFFICES ASSUME NEW s \in Side
               PROVE  /\ IsPartialFunction(a.levels[s], Price, PriceLevel)
                      /\ DOMAIN a.levels[s] = DOMAIN b.levels[s]
                      /\ \A p \in DOMAIN b.levels[s] :
                           /\ a.levels[s][p].head = b.levels[s][p].head
                           /\ a.levels[s][p].tail = b.levels[s][p].tail
                           /\ a.levels[s][p].orderCount = b.levels[s][p].orderCount
    OBVIOUS
  <2>1. CASE s # o.side
    BY <1>2, <1>7, <2>1
  <2>2. CASE s = o.side
    <3>1. a.levels[s] = g /\ b.levels[s] = f
      BY <1>7, <2>2
    <3> HIDE DEF f, o, new
    <3>2. \A p \in DOMAIN f : /\ g[p].head = f[p].head /\ g[p].tail = f[p].tail
                              /\ g[p].orderCount = f[p].orderCount
      BY <1>5, <1>6
    <3> QED BY <1>6, <3>1, <3>2
  <2> QED BY <2>1, <2>2
<1>9. IsBook(a)
  BY <1>2, <1>3, <1>4, <1>7, <1>8 DEF IsBook
<1>10. SameResting(b, a)
  <2>1. Live(b) \subseteq Idx
    BY <1>2 DEF Live, IsBook, IsPartialFunction
  <2> HIDE DEF o, f, lvl, new
  <2> QED BY <1>3, <1>4, <1>8, <2>1 DEF SameResting
<1>11. /\ Live(a) = Live(b)
       /\ \A k \in DOMAIN a.orderMap : a.pool[a.orderMap[k]].orderId = k
       /\ EndsLinked(a) /\ NeighboursLinked(a) /\ Counted(a)
       /\ Ordered(a) /\ LinkedInOrder(a)
  BY <1>9, <1>10, SameRestingGood
<1>12. Partitioned(a, reserved)
  <2>1. FreeSlots(a) = FreeSlots(b)
    BY <1>3 DEF FreeSlots
  <2> HIDE DEF o, f, lvl, new
  <2>2. Partitioned(b, reserved) /\ a.freeList = b.freeList /\ Live(a) = Live(b)
    BY <1>2, <1>3, <1>11
  <2> QED BY <1>11, <2>1, <2>2 DEF Partitioned
<1>13. GoodBook(a, reserved)
  BY <1>9, <1>11, <1>12 DEF GoodBook
<1> HIDE DEF o, f, lvl, new
<1> QED BY <1>3, <1>4, <1>8, <1>11, <1>13 DEF Requantified, a

\* FillInFlight changes nothing but the quantity of a reserved slot.
LEMMA FillInFlightGood ==
    ASSUME NEW b, NEW i, GoodBook(b, {i}), NEW qty \in Quantity
    PROVE  /\ i \in Idx /\ i \notin Live(b)
           /\ Requantified(b, FillInFlight(b, i, qty), {i}, i, QtySub(b.pool[i].quantity, qty))
<1> DEFINE a == FillInFlight(b, i, qty)
           q == QtySub(b.pool[i].quantity, qty)
<1>1. IsBook(b) /\ Partitioned(b, {i}) /\ b.pool \in [Idx -> PoolOrder]
  BY DEF GoodBook, IsBook
<1>2. i \in Idx /\ i \notin Live(b)
  BY <1>1 DEF Partitioned
<1>3. q \in Quantity
  <2>1. b.pool[i].quantity \in Int /\ qty \in Int
    BY <1>1, <1>2, NumericAssumption DEF PoolOrder, Quantity
  <2> QED BY <2>1, QtyType
<1> HIDE DEF q
<1>4. /\ a.pool = [b.pool EXCEPT ![i] = [b.pool[i] EXCEPT !.quantity = q]]
      /\ a.levels = b.levels
      /\ a.freeList = b.freeList /\ a.orderMap = b.orderMap /\ a.older = b.older
      /\ a = [ pool |-> a.pool, freeList |-> a.freeList, levels |-> a.levels,
               orderMap |-> a.orderMap, older |-> a.older ]
  BY DEF FillInFlight, q
<1> HIDE DEF a
<1>5. /\ a.pool \in [Idx -> PoolOrder]
      /\ a.pool[i].quantity = q
      /\ \A j \in Idx :
           /\ a.pool[j].orderId = b.pool[j].orderId
           /\ a.pool[j].side = b.pool[j].side /\ a.pool[j].price = b.pool[j].price
           /\ a.pool[j].orderType = b.pool[j].orderType
           /\ a.pool[j].next = b.pool[j].next /\ a.pool[j].prev = b.pool[j].prev
           /\ j # i => a.pool[j].quantity = b.pool[j].quantity
  BY <1>1, <1>2, <1>3, <1>4, QuantityUpdate
<1>6. IsBook(a)
  BY <1>1, <1>4, <1>5 DEF IsBook
<1>7. SameResting(b, a)
  <2>1. Live(b) \subseteq Idx
    BY <1>1 DEF Live, IsBook, IsPartialFunction
  <2> QED BY <1>4, <1>5, <2>1 DEF SameResting
<1>8. /\ Live(a) = Live(b)
      /\ \A k \in DOMAIN a.orderMap : a.pool[a.orderMap[k]].orderId = k
      /\ EndsLinked(a) /\ NeighboursLinked(a) /\ Counted(a)
      /\ Ordered(a) /\ LinkedInOrder(a)
  BY <1>6, <1>7, SameRestingGood
<1>9. Partitioned(a, {i})
  BY <1>1, <1>4, <1>8 DEF Partitioned, FreeSlots
<1>10. GoodBook(a, {i})
  BY <1>6, <1>8, <1>9 DEF GoodBook
<1> QED BY <1>2, <1>4, <1>5, <1>8, <1>10 DEF Requantified, a, q

-----------------------------------------------------------------------------
(* InsertIntoBook: a reserved slot becomes a resting order.                 *)

\* What an append does to the slots, with names for the ends of the list.
ListAppended(pool1, pool2, i, tail) ==
    /\ pool2 \in [Idx -> PoolOrder]
    /\ \A j \in Idx :
         /\ pool2[j].orderId = pool1[j].orderId
         /\ pool2[j].side = pool1[j].side
         /\ pool2[j].price = pool1[j].price
         /\ pool2[j].orderType = pool1[j].orderType
         /\ pool2[j].quantity = pool1[j].quantity
         /\ pool2[j].next = IF j = i THEN NULL_IDX ELSE IF j = tail THEN i ELSE pool1[j].next
         /\ pool2[j].prev = IF j = i THEN tail ELSE pool1[j].prev

\* AppendToList links a slot after the tail of a list.
LEMMA AppendToListEffect ==
    ASSUME NEW pool \in [Idx -> PoolOrder], NEW i \in Idx, NEW tail \in Link, tail # i
    PROVE  ListAppended(pool, AppendToList(pool, i, tail), i, tail)
<1> DEFINE new == AppendToList(pool, i, tail)
           n(j) == IF j = i THEN NULL_IDX ELSE IF j = tail THEN i ELSE pool[j].next
           q(j) == IF j = i THEN tail ELSE pool[j].prev
<1>1. NULL_IDX \in Link /\ i \in Link
  BY DEF Link
<1>2. ASSUME NEW j \in Idx
      PROVE  /\ new[j] \in PoolOrder
             /\ new[j].orderId = pool[j].orderId /\ new[j].side = pool[j].side
             /\ new[j].price = pool[j].price /\ new[j].orderType = pool[j].orderType
             /\ new[j].quantity = pool[j].quantity
             /\ new[j].next = n(j) /\ new[j].prev = q(j)
  <2> DEFINE r == pool[j]  m == new[j]
  <2>0. r \in PoolOrder
    OBVIOUS
  <2>1. m = CASE j = i    -> [r EXCEPT !.prev = tail, !.next = NULL_IDX]
              [] j = tail -> [r EXCEPT !.next = i]
              [] OTHER    -> r
    BY DEF AppendToList
  <2> HIDE DEF r, m
  <2>2. CASE j = i
    <3>1. m = [r EXCEPT !.prev = tail, !.next = NULL_IDX]
      BY <2>1, <2>2
    <3>2. /\ m \in PoolOrder
          /\ m.orderId = r.orderId /\ m.side = r.side /\ m.price = r.price
          /\ m.orderType = r.orderType /\ m.quantity = r.quantity
          /\ m.next = NULL_IDX /\ m.prev = tail
      BY <1>1, <2>0, <3>1 DEF PoolOrder
    <3> QED BY <2>2, <3>2 DEF r, m
  <2>3. CASE j # i /\ j = tail
    <3>1. m = [r EXCEPT !.next = i]
      BY <2>1, <2>3
    <3>2. /\ m \in PoolOrder
          /\ m.orderId = r.orderId /\ m.side = r.side /\ m.price = r.price
          /\ m.orderType = r.orderType /\ m.quantity = r.quantity
          /\ m.next = i /\ m.prev = r.prev
      BY <1>1, <2>0, <3>1 DEF PoolOrder
    <3> QED BY <2>3, <3>2 DEF r, m
  <2>4. CASE j # i /\ j # tail
    <3>1. m = r
      BY <2>1, <2>4
    <3> QED BY <2>0, <2>4, <3>1 DEF r, m
  <2> QED BY <2>2, <2>3, <2>4
<1>3. new = [j \in Idx |-> new[j]]
  BY DEF AppendToList
<1> HIDE DEF new
<1>4. new \in [Idx -> PoolOrder]
  BY <1>2, <1>3
<1> QED BY <1>2, <1>4 DEF ListAppended, new

\* u is the book b with the reserved slot i appended to its level.
Inserted(b, u, i) ==
    LET o   == b.pool[i]
        lvl == LevelFor(b, o)
    IN  /\ IsBook(u)
        /\ ListAppended(b.pool, u.pool, i, lvl.tail)
        /\ u.freeList = b.freeList
        /\ Live(u) = Live(b) \cup {i}
        /\ u.older = b.older \cup {<<j, i>> : j \in Members(b, o.side, o.price)}
        /\ DOMAIN u.orderMap = DOMAIN b.orderMap \cup {o.orderId}
        /\ u.orderMap[o.orderId] = i
        /\ \A id \in DOMAIN b.orderMap : u.orderMap[id] = b.orderMap[id]
        /\ LevelSet(b.levels, u.levels, o.side, o.price, AppendToLevel(lvl, i, o.quantity))

\* The level a new order goes to: its tail is the last of its members, if any.
LEMMA LevelForEffect ==
    ASSUME NEW b, NEW reserved, GoodBook(b, reserved), NEW o \in PoolOrder
    PROVE  /\ LevelFor(b, o) \in PriceLevel
           /\ LevelFor(b, o).orderCount = Cardinality(Members(b, o.side, o.price))
           /\ \/ /\ Members(b, o.side, o.price) = {}
                 /\ o.price \notin DOMAIN b.levels[o.side]
                 /\ LevelFor(b, o).tail = NULL_IDX
              \/ /\ LevelFor(b, o).tail \in Members(b, o.side, o.price)
                 /\ LevelFor(b, o).head \in Members(b, o.side, o.price)
                 /\ b.pool[LevelFor(b, o).tail].next = NULL_IDX
                 /\ b.pool[LevelFor(b, o).head].prev = NULL_IDX
                 /\ o.price \in DOMAIN b.levels[o.side]
                 /\ LevelFor(b, o) = b.levels[o.side][o.price]
<1>1. o.side \in Side /\ o.price \in Price
  BY DEF PoolOrder
<1>2. IsPartialFunction(b.levels[o.side], Price, PriceLevel)
  BY <1>1 DEF GoodBook, IsBook
<1>3. CASE o.price \in DOMAIN b.levels[o.side]
  <2>1. LevelFor(b, o) = b.levels[o.side][o.price]
    BY <1>3 DEF LevelFor
  <2>2. b.levels[o.side][o.price] \in PriceLevel
    BY <1>2, <1>3 DEF IsPartialFunction
  <2>3. b.levels[o.side][o.price].orderCount = Cardinality(Members(b, o.side, o.price))
    BY <1>1, <1>3 DEF GoodBook, Counted
  <2>4. /\ {b.levels[o.side][o.price].head, b.levels[o.side][o.price].tail}
             \subseteq Members(b, o.side, o.price)
        /\ b.pool[b.levels[o.side][o.price].tail].next = NULL_IDX
        /\ b.pool[b.levels[o.side][o.price].head].prev = NULL_IDX
    BY <1>1, <1>3 DEF GoodBook, EndsLinked
  <2> QED BY <1>3, <2>1, <2>2, <2>3, <2>4
<1>4. CASE o.price \notin DOMAIN b.levels[o.side]
  <2>1. LevelFor(b, o) = EmptyLevel
    BY <1>4 DEF LevelFor
  <2>2. EmptyLevel \in PriceLevel /\ EmptyLevel.tail = NULL_IDX /\ EmptyLevel.orderCount = 0
    BY NumericAssumption DEF EmptyLevel, PriceLevel, Link, Quantity
  <2>3. Members(b, o.side, o.price) = {}
    BY <1>4 DEF Members, GoodBook, NeighboursLinked
  <2> QED BY <1>4, <2>1, <2>2, <2>3, FS_EmptySet
<1> QED BY <1>3, <1>4

\* PutType for the map of the order ids.
LEMMA PutId ==
    ASSUME NEW m, IsPartialFunction(m, OrderId, Idx), NEW id \in OrderId, NEW i \in Idx
    PROVE  /\ IsPartialFunction(Put(m, id, i), OrderId, Idx)
           /\ DOMAIN Put(m, id, i) = DOMAIN m \cup {id}
           /\ Put(m, id, i)[id] = i
           /\ \A x \in DOMAIN m : x # id => Put(m, id, i)[x] = m[x]
BY DEF IsPartialFunction, Put

\* InsertIntoBook does what Inserted says.
LEMMA InsertEffect ==
    ASSUME NEW b, NEW i, GoodBook(b, {i}), b.pool[i].orderId \in OrderId \ DOMAIN b.orderMap
    PROVE  Inserted(b, InsertIntoBook(b, i), i)
<1> DEFINE u   == InsertIntoBook(b, i)
           o   == b.pool[i]
           lvl == LevelFor(b, o)
           new == AppendToLevel(lvl, i, o.quantity)
<1>1. /\ IsBook(b) /\ b.pool \in [Idx -> PoolOrder] /\ b.freeList \in Seq(Idx)
      /\ IsPartialFunction(b.orderMap, OrderId, Idx) /\ b.older \subseteq Idx \X Idx
      /\ i \in Idx /\ i \notin Live(b)
  BY DEF GoodBook, IsBook, Partitioned
<1>2. /\ o \in PoolOrder /\ o.side \in Side /\ o.price \in Price /\ o.quantity \in Quantity
      /\ o.orderId \in OrderId /\ o.orderId \notin DOMAIN b.orderMap
  BY <1>1 DEF PoolOrder
<1>3. /\ u.pool = AppendToList(b.pool, i, lvl.tail)
      /\ u.freeList = b.freeList
      /\ u.levels = SetLevel(b.levels, o.side, o.price, new)
      /\ u.orderMap = Put(b.orderMap, o.orderId, i)
      /\ u.older = b.older \cup {<<j, i>> : j \in Members(b, o.side, o.price)}
      /\ u = [ pool |-> u.pool, freeList |-> u.freeList, levels |-> u.levels,
               orderMap |-> u.orderMap, older |-> u.older ]
  BY DEF InsertIntoBook
<1> HIDE DEF u, o
<1>4. /\ lvl \in PriceLevel
      /\ lvl.tail = NULL_IDX \/ lvl.tail \in Members(b, o.side, o.price)
  BY <1>2, LevelForEffect
<1> HIDE DEF lvl
<1>5. lvl.tail \in Link /\ lvl.tail # i
  <2>1. NULL_IDX \notin Idx
    BY DEF Idx, NULL_IDX
  <2> QED BY <1>1, <1>4, <2>1 DEF PriceLevel, Members
<1>6. new \in PriceLevel
  <2>1. lvl.totalQty \in Int /\ o.quantity \in Int
    BY <1>2, <1>4, NumericAssumption DEF PriceLevel, Quantity
  <2>2. QtyAdd(lvl.totalQty, o.quantity) \in Quantity
    BY <2>1, QtyType
  <2> QED BY <1>1, <1>4, <2>2 DEF AppendToLevel, PriceLevel, Link
<1> HIDE DEF new
<1>7. ListAppended(b.pool, u.pool, i, lvl.tail)
  BY <1>1, <1>3, <1>5, AppendToListEffect
<1>8. /\ IsPartialFunction(u.orderMap, OrderId, Idx)
      /\ DOMAIN u.orderMap = DOMAIN b.orderMap \cup {o.orderId}
      /\ u.orderMap[o.orderId] = i
      /\ \A id \in DOMAIN b.orderMap : u.orderMap[id] = b.orderMap[id]
  <2> DEFINE m == b.orderMap  id == o.orderId
  <2>1. /\ IsPartialFunction(m, OrderId, Idx) /\ id \in OrderId
        /\ u.orderMap = Put(m, id, i)
    BY <1>1, <1>2, <1>3
  <2>2. id \notin DOMAIN m
    BY <1>2
  <2> HIDE DEF m, id
  <2>3. /\ IsPartialFunction(Put(m, id, i), OrderId, Idx)
        /\ DOMAIN Put(m, id, i) = DOMAIN m \cup {id}
        /\ Put(m, id, i)[id] = i
        /\ \A x \in DOMAIN m : x # id => Put(m, id, i)[x] = m[x]
    <3>1. i \in Idx
      BY <1>1
    <3> QED BY <2>1, <3>1, PutId
  <2> QED BY <2>1, <2>2, <2>3 DEF m, id
<1>9. Live(u) = Live(b) \cup {i}
  BY <1>8 DEF Live
<1>10. LevelSet(b.levels, u.levels, o.side, o.price, new)
  BY <1>1, <1>2, <1>3, <1>6, SetLevelEffect
<1>11. u.freeList \in Seq(Idx) /\ u.older \subseteq Idx \X Idx
  <2>1. Members(b, o.side, o.price) \subseteq Idx
    BY <1>1, MembersFinite
  <2> QED BY <1>1, <1>3, <2>1
<1>12. IsBook(u)
  BY <1>3, <1>7, <1>8, <1>10, <1>11 DEF IsBook, ListAppended, LevelSet
<1> QED BY <1>3, <1>7, <1>8, <1>9, <1>10, <1>12 DEF Inserted, u, o, lvl, new

\* Appending a reserved slot to its level keeps the book good.
LEMMA InsertGood ==
    ASSUME NEW b, NEW i, GoodBook(b, {i}), b.pool[i].orderId \in OrderId \ DOMAIN b.orderMap,
           NEW u, Inserted(b, u, i)
    PROVE  GoodBook(u, {})
<1> DEFINE o   == b.pool[i]
           lvl == LevelFor(b, o)
           new == AppendToLevel(lvl, i, o.quantity)
           t   == lvl.tail
           L   == Live(b)
<1>1. /\ IsBook(b) /\ b.pool \in [Idx -> PoolOrder]
      /\ i \in Idx /\ i \notin L /\ L \subseteq Idx /\ NULL_IDX \notin Idx
      /\ Partitioned(b, {i})
  BY DEF GoodBook, IsBook, IsPartialFunction, Partitioned, Live, Idx, NULL_IDX
<1>2. /\ o \in PoolOrder /\ o.side \in Side /\ o.price \in Price
  BY <1>1 DEF PoolOrder
<1>3. /\ IsBook(u)
      /\ ListAppended(b.pool, u.pool, i, t)
      /\ u.freeList = b.freeList
      /\ Live(u) = L \cup {i}
      /\ u.older = b.older \cup {<<j, i>> : j \in Members(b, o.side, o.price)}
      /\ DOMAIN u.orderMap = DOMAIN b.orderMap \cup {o.orderId}
      /\ u.orderMap[o.orderId] = i
      /\ \A id \in DOMAIN b.orderMap : u.orderMap[id] = b.orderMap[id]
      /\ LevelSet(b.levels, u.levels, o.side, o.price, new)
  BY DEF Inserted
<1>4. /\ lvl \in PriceLevel
      /\ lvl.orderCount = Cardinality(Members(b, o.side, o.price))
      /\ \/ /\ Members(b, o.side, o.price) = {}
            /\ o.price \notin DOMAIN b.levels[o.side]
            /\ t = NULL_IDX
         \/ /\ t \in Members(b, o.side, o.price)
            /\ lvl.head \in Members(b, o.side, o.price)
            /\ b.pool[t].next = NULL_IDX
            /\ b.pool[lvl.head].prev = NULL_IDX
            /\ o.price \in DOMAIN b.levels[o.side]
            /\ lvl = b.levels[o.side][o.price]
  BY <1>2, LevelForEffect
<1> HIDE DEF lvl
<1>5. /\ new.head = IF t = NULL_IDX THEN i ELSE lvl.head
      /\ new.tail = i
      /\ new.orderCount = lvl.orderCount + 1
  BY DEF AppendToLevel
<1> HIDE DEF new, o, t, L
<1>6. /\ IsFiniteSet(Members(b, o.side, o.price))
      /\ Cardinality(Members(b, o.side, o.price)) \in Nat
      /\ i \notin Members(b, o.side, o.price)
  <2>1. IsFiniteSet(Members(b, o.side, o.price))
    BY <1>1, MembersFinite
  <2>2. i \notin Members(b, o.side, o.price)
    BY <1>1 DEF Members, L
  <2> QED BY <2>1, <2>2, FS_CardinalityType
<1>7. new.orderCount # 0
  BY <1>4, <1>5, <1>6
<1>8. Partitioned(u, {})
  <2>1. FreeSlots(u) = FreeSlots(b)
    BY <1>3 DEF FreeSlots
  <2>2. \A id \in DOMAIN u.orderMap : u.pool[u.orderMap[id]].orderId = id
    <3>1. \A id \in DOMAIN b.orderMap : b.pool[b.orderMap[id]].orderId = id
      BY <1>1 DEF Partitioned
    <3>2. \A id \in DOMAIN b.orderMap : b.orderMap[id] \in Idx
      BY <1>1 DEF IsBook, IsPartialFunction
    <3>3. u.pool[i].orderId = o.orderId
      BY <1>1, <1>3 DEF ListAppended, o
    <3> QED BY <1>3, <3>1, <3>2, <3>3 DEF ListAppended
  <2> QED BY <1>1, <1>3, <2>1, <2>2 DEF Partitioned, L
<1>9. \A j \in Idx : /\ u.pool[j].side = b.pool[j].side
                     /\ u.pool[j].price = b.pool[j].price
  BY <1>3 DEF ListAppended
<1>10. \A side \in Side, p \in Price :
         Members(u, side, p) =
           IF side = o.side /\ p = o.price THEN Members(b, side, p) \cup {i}
                                           ELSE Members(b, side, p)
  BY <1>1, <1>3, <1>9 DEF Members, L, o
<1>11. ASSUME NEW side \in Side, NEW p \in Price
       PROVE  /\ p \in DOMAIN u.levels[side] <=>
                   p \in DOMAIN b.levels[side] \/ (side = o.side /\ p = o.price)
              /\ p \in DOMAIN u.levels[side] =>
                   u.levels[side][p] = IF side = o.side /\ p = o.price THEN new
                                       ELSE b.levels[side][p]
  <2>0. LevelSet(b.levels, u.levels, o.side, o.price, new)
    BY <1>3
  <2>1. CASE side = o.side /\ p = o.price
    BY <1>7, <2>0, <2>1 DEF LevelSet
  <2>2. CASE side = o.side /\ p # o.price
    BY <2>0, <2>2 DEF LevelSet
  <2>3. CASE side # o.side
    BY <2>0, <2>3 DEF LevelSet
  <2> QED BY <2>1, <2>2, <2>3
<1>12. \A side \in Side : DOMAIN u.levels[side] \subseteq Price
  BY <1>3 DEF IsBook, IsPartialFunction
<1>13. Counted(u)
  <2> SUFFICES ASSUME NEW side \in Side, NEW p \in DOMAIN u.levels[side]
               PROVE  u.levels[side][p].orderCount = Cardinality(Members(u, side, p))
    BY DEF Counted
  <2>1. p \in Price
    BY <1>12
  <2>2. CASE side = o.side /\ p = o.price
    <3>1. u.levels[side][p].orderCount = Cardinality(Members(b, o.side, o.price)) + 1
      BY <1>4, <1>5, <1>11, <2>1, <2>2
    <3>2. Members(u, side, p) = Members(b, o.side, o.price) \cup {i}
      BY <1>10, <2>1, <2>2
    <3>3. Cardinality(Members(b, o.side, o.price) \cup {i})
            = Cardinality(Members(b, o.side, o.price)) + 1
      BY <1>6, FS_AddElement
    <3> QED BY <3>1, <3>2, <3>3
  <2>3. CASE ~(side = o.side /\ p = o.price)
    <3>1. u.levels[side][p] = b.levels[side][p] /\ p \in DOMAIN b.levels[side]
      BY <1>11, <2>1, <2>3
    <3>2. Members(u, side, p) = Members(b, side, p)
      BY <1>10, <2>1, <2>3
    <3> QED BY <3>1, <3>2 DEF GoodBook, Counted
  <2> QED BY <2>2, <2>3
\* The relations between slots, with names that hide how they are computed.
<1> DEFINE Old(j, k)  == <<j, k>> \in b.older
           New(j, k)  == <<j, k>> \in u.older
           Same(j, k) == SameLevel(b, j, k)
           Su(j, k)   == SameLevel(u, j, k)
           Nx(j) == b.pool[j].next
           Pv(j) == b.pool[j].prev
           Nu(j) == u.pool[j].next
           Pu(j) == u.pool[j].prev
<1>14. /\ \A j \in L : Nu(j) = IF j = t THEN i ELSE Nx(j)
       /\ \A j \in L : Pu(j) = Pv(j)
       /\ Nu(i) = NULL_IDX /\ Pu(i) = t
  BY <1>1, <1>3 DEF ListAppended
<1>15. \A j, k \in L \cup {i} : Su(j, k) <=> Same(j, k)
  BY <1>1, <1>9 DEF SameLevel
<1>16. \A j, k, m : /\ Same(j, k) => Same(k, j)
                    /\ Same(j, k) /\ Same(k, m) => Same(j, m)
                    /\ Same(j, j)
  BY DEF SameLevel
<1>17. /\ \A j, k \in Idx : Old(j, k) => j \in L /\ k \in L /\ Same(j, k) /\ ~Old(k, j)
       /\ \A j, k \in L : j # k /\ Same(j, k) => Old(j, k) \/ Old(k, j)
       /\ \A j, k, m \in L : Old(j, k) /\ Old(k, m) => Old(j, m)
  BY DEF GoodBook, Ordered, L
<1>18. \A j, k \in Idx : New(j, k) <=> Old(j, k) \/ (k = i /\ j \in L /\ Same(j, i))
  BY <1>3 DEF Members, SameLevel, L, o
<1>19. \/ t = NULL_IDX /\ \A j \in L : ~Same(j, i)
       \/ t \in L /\ Same(t, i) /\ Nx(t) = NULL_IDX
  BY <1>4 DEF Members, SameLevel, L, o
<1>20. \A j \in L : \/ Nx(j) = NULL_IDX /\ \A k \in L : ~Old(j, k)
                    \/ /\ Nx(j) \in L /\ Same(j, Nx(j)) /\ Pv(Nx(j)) = j /\ Old(j, Nx(j))
                       /\ \A k \in L : ~(Old(j, k) /\ Old(k, Nx(j)))
  <2> SUFFICES ASSUME NEW j \in L
               PROVE  \/ Nx(j) = NULL_IDX /\ \A k \in L : ~Old(j, k)
                      \/ /\ Nx(j) \in L /\ Same(j, Nx(j)) /\ Pv(Nx(j)) = j /\ Old(j, Nx(j))
                         /\ \A k \in L : ~(Old(j, k) /\ Old(k, Nx(j)))
    OBVIOUS
  <2>1. Nx(j) = NULL_IDX \/ (Nx(j) \in L /\ Same(j, Nx(j)) /\ Pv(Nx(j)) = j)
    BY DEF GoodBook, NeighboursLinked, L
  <2>2. \/ Nx(j) = NULL_IDX /\ \A k \in L : ~Old(j, k)
        \/ Old(j, Nx(j)) /\ \A k \in L : ~(Old(j, k) /\ Old(k, Nx(j)))
    BY DEF GoodBook, LinkedInOrder, L
  <2>3. Nx(j) = NULL_IDX => ~Old(j, Nx(j))
    BY <1>1 DEF IsBook
  <2> HIDE DEF Old, Nx, Pv, Same
  <2> QED BY <2>1, <2>2, <2>3
<1>21. \A j \in L : \/ Pv(j) = NULL_IDX /\ \A k \in L : ~Old(k, j)
                    \/ Pv(j) \in L /\ Same(j, Pv(j)) /\ Nx(Pv(j)) = j
  BY DEF GoodBook, NeighboursLinked, LinkedInOrder, L
<1> DEFINE Hd(j) == b.levels[b.pool[j].side][b.pool[j].price].head
           Tl(j) == b.levels[b.pool[j].side][b.pool[j].price].tail
           Hu(j) == u.levels[u.pool[j].side][u.pool[j].price].head
           Tu(j) == u.levels[u.pool[j].side][u.pool[j].price].tail
<1>22. \A j \in L : /\ Nx(j) = NULL_IDX => Tl(j) = j
                    /\ Pv(j) = NULL_IDX => Hd(j) = j
                    /\ Same(j, i) => Tl(j) = t /\ t # NULL_IDX
  <2>1. \A j \in L : /\ Nx(j) = NULL_IDX => Tl(j) = j
                     /\ Pv(j) = NULL_IDX => Hd(j) = j
    BY <1>1 DEF GoodBook, NeighboursLinked, L
  <2>2. \A j \in L : Same(j, i) => j \in Members(b, o.side, o.price)
    BY DEF Members, SameLevel, L, o
  <2>3. \A j \in L : Same(j, i) => Tl(j) = t /\ t # NULL_IDX
    BY <1>1, <1>4, <2>2 DEF Members, SameLevel, L, o, t
  <2> QED BY <2>1, <2>3
<1>23. ASSUME NEW j \in L \cup {i}
       PROVE  /\ u.pool[j].price \in DOMAIN u.levels[u.pool[j].side]
              /\ Tu(j) = IF Same(j, i) THEN i ELSE Tl(j)
              /\ Hu(j) = IF Same(j, i) THEN (IF t = NULL_IDX THEN i ELSE Hd(j)) ELSE Hd(j)
  <2> DEFINE s == b.pool[j].side
             p == b.pool[j].price
  <2>1. u.pool[j].side = s /\ u.pool[j].price = p /\ s \in Side /\ p \in Price
    BY <1>1, <1>9 DEF PoolOrder
  <2>2. p \in DOMAIN b.levels[s] \/ (s = o.side /\ p = o.price)
    BY DEF GoodBook, NeighboursLinked, L, o
  <2>3. Same(j, i) <=> s = o.side /\ p = o.price
    BY DEF SameLevel, o
  <2>4. Hd(j) = b.levels[s][p].head /\ Tl(j) = b.levels[s][p].tail
        /\ Hu(j) = u.levels[s][p].head /\ Tu(j) = u.levels[s][p].tail
    BY <2>1
  <2> HIDE DEF s, p, Same, Hd, Tl, Hu, Tu
  <2>5. p \in DOMAIN u.levels[s]
    BY <1>11, <2>1, <2>2
  <2>6. CASE s = o.side /\ p = o.price
    <3>1. u.levels[s][p] = new
      BY <1>11, <2>1, <2>5, <2>6
    <3>2. t # NULL_IDX => lvl = b.levels[s][p]
      BY <1>1, <1>4, <2>6
    <3> QED BY <1>5, <2>1, <2>3, <2>4, <2>5, <2>6, <3>1, <3>2
  <2>7. CASE ~(s = o.side /\ p = o.price)
    <3>1. u.levels[s][p] = b.levels[s][p]
      BY <1>11, <2>1, <2>5, <2>7
    <3> QED BY <2>1, <2>3, <2>4, <2>5, <2>7, <3>1
  <2> QED BY <2>6, <2>7
<1> HIDE DEF Old, New, Same, Su, Nx, Pv, Nu, Pu, Hd, Tl, Hu, Tu
<1>24. Ordered(u)
  <2>1. \A j, k \in Idx : New(j, k) =>
           j \in L \cup {i} /\ k \in L \cup {i} /\ Su(j, k) /\ ~New(k, j)
    BY <1>1, <1>15, <1>16, <1>17, <1>18
  <2>2. \A j, k \in L \cup {i} : j # k /\ Su(j, k) => New(j, k) \/ New(k, j)
    BY <1>1, <1>15, <1>16, <1>17, <1>18
  <2>3. \A j, k, m \in L \cup {i} : New(j, k) /\ New(k, m) => New(j, m)
    BY <1>1, <1>16, <1>17, <1>18
  <2> QED BY <1>3, <2>1, <2>2, <2>3 DEF Ordered, New, Su
<1>25. LinkedInOrder(u)
  <2> SUFFICES ASSUME NEW j \in L \cup {i}
               PROVE  /\ \/ Nu(j) = NULL_IDX /\ \A k \in L \cup {i} : ~New(j, k)
                         \/ /\ New(j, Nu(j))
                            /\ \A k \in L \cup {i} : ~(New(j, k) /\ New(k, Nu(j)))
                      /\ Pu(j) = NULL_IDX => \A k \in L \cup {i} : ~New(k, j)
    BY <1>3 DEF LinkedInOrder, New, Nu, Pu
  <2>1. CASE j = i
    <3>1. \A k \in L \cup {i} : ~New(i, k)
      BY <1>1, <1>17, <1>18
    <3>2. t = NULL_IDX => \A k \in L \cup {i} : ~New(k, i)
      BY <1>1, <1>17, <1>18, <1>19
    <3> QED BY <1>14, <2>1, <3>1, <3>2
  <2>2. CASE j \in L /\ j = t
    <3>1. Nu(j) = i /\ Nx(j) = NULL_IDX /\ Same(j, i) /\ New(j, i)
      BY <1>1, <1>14, <1>18, <1>19, <2>2
    <3>2. \A k \in L \cup {i} : ~(New(j, k) /\ New(k, i))
      BY <1>1, <1>17, <1>18, <1>20, <2>2, <3>1
    <3>3. Pu(j) = NULL_IDX => \A k \in L \cup {i} : ~New(k, j)
      BY <1>1, <1>14, <1>17, <1>18, <1>21, <2>2
    <3> QED BY <3>1, <3>2, <3>3
  <2>3. CASE j \in L /\ j # t
    <3>1. Nu(j) = Nx(j)
      BY <1>14, <2>3
    <3>2. Nx(j) = NULL_IDX => \A k \in L \cup {i} : ~New(j, k)
      BY <1>1, <1>17, <1>18, <1>20, <1>22, <2>3
    <3>3. Nx(j) # NULL_IDX => /\ New(j, Nx(j))
                              /\ \A k \in L \cup {i} : ~(New(j, k) /\ New(k, Nx(j)))
      BY <1>1, <1>17, <1>18, <1>20, <2>3
    <3>4. Pu(j) = NULL_IDX => \A k \in L \cup {i} : ~New(k, j)
      BY <1>1, <1>14, <1>17, <1>18, <1>21, <2>3
    <3> QED BY <3>1, <3>2, <3>3, <3>4
  <2> QED BY <2>1, <2>2, <2>3
<1>26. NeighboursLinked(u)
  <2> SUFFICES ASSUME NEW j \in L \cup {i}
               PROVE  /\ u.pool[j].price \in DOMAIN u.levels[u.pool[j].side]
                      /\ \/ Nu(j) = NULL_IDX /\ Tu(j) = j
                         \/ Nu(j) \in L \cup {i} /\ Su(j, Nu(j)) /\ Pu(Nu(j)) = j
                      /\ \/ Pu(j) = NULL_IDX /\ Hu(j) = j
                         \/ Pu(j) \in L \cup {i} /\ Su(j, Pu(j)) /\ Nu(Pu(j)) = j
    BY <1>3 DEF NeighboursLinked, Nu, Pu, Su, Hu, Tu
  <2>1. u.pool[j].price \in DOMAIN u.levels[u.pool[j].side]
    BY <1>23
  <2>2. CASE j = i
    <3>1. Nu(j) = NULL_IDX /\ Tu(j) = j
      BY <1>14, <1>16, <1>23, <2>2
    <3>2. t = NULL_IDX => Pu(j) = NULL_IDX /\ Hu(j) = j
      BY <1>14, <1>16, <1>23, <2>2
    <3>3. t # NULL_IDX => Pu(j) \in L /\ Su(j, Pu(j)) /\ Nu(Pu(j)) = j
      BY <1>14, <1>15, <1>16, <1>19, <2>2
    <3> QED BY <2>1, <3>1, <3>2, <3>3
  <2>3. CASE j \in L
    <3>1. \/ Nu(j) = NULL_IDX /\ Tu(j) = j
          \/ Nu(j) \in L \cup {i} /\ Su(j, Nu(j)) /\ Pu(Nu(j)) = j
      <4>1. CASE j = t
        BY <1>1, <1>14, <1>15, <1>19, <2>3, <4>1
      <4>2. CASE j # t
        BY <1>1, <1>14, <1>15, <1>20, <1>22, <1>23, <2>3, <4>2
      <4> QED BY <4>1, <4>2
    <3>2. \/ Pu(j) = NULL_IDX /\ Hu(j) = j
          \/ Pu(j) \in L \cup {i} /\ Su(j, Pu(j)) /\ Nu(Pu(j)) = j
      <4>1. CASE Pv(j) = NULL_IDX
        BY <1>14, <1>22, <1>23, <2>3, <4>1
      <4>2. CASE Pv(j) # NULL_IDX
        <5>1. Pv(j) \in L /\ Same(j, Pv(j)) /\ Nx(Pv(j)) = j /\ j # NULL_IDX
          BY <1>1, <1>21, <2>3, <4>2
        <5>2. Pv(j) # t
          BY <1>19, <4>2, <5>1
        <5>3. Pu(j) = Pv(j) /\ Nu(Pv(j)) = j
          BY <1>14, <2>3, <5>1, <5>2
        <5>4. Su(j, Pv(j))
          BY <1>15, <2>3, <5>1
        <5> QED BY <5>1, <5>3, <5>4
      <4> QED BY <4>1, <4>2
    <3> QED BY <2>1, <3>1, <3>2
  <2> QED BY <2>2, <2>3
<1>27. EndsLinked(u)
  <2> SUFFICES ASSUME NEW side \in Side, NEW p \in DOMAIN u.levels[side]
               PROVE  LET ul == u.levels[side][p]
                      IN  /\ {ul.head, ul.tail} \subseteq Members(u, side, p)
                          /\ u.pool[ul.head].prev = NULL_IDX
                          /\ u.pool[ul.tail].next = NULL_IDX
    BY DEF EndsLinked
  <2>1. p \in Price
    BY <1>12
  <2>2. CASE side = o.side /\ p = o.price
    <3>1. /\ u.levels[side][p].tail = i
          /\ u.levels[side][p].head = IF t = NULL_IDX THEN i ELSE lvl.head
          /\ Members(u, side, p) = Members(b, o.side, o.price) \cup {i}
      BY <1>5, <1>10, <1>11, <2>1, <2>2
    <3>2. u.pool[i].next = NULL_IDX /\ u.pool[i].prev = t
      BY <1>14 DEF Nu, Pu
    <3>3. t # NULL_IDX => /\ lvl.head \in Members(b, o.side, o.price)
                          /\ b.pool[lvl.head].prev = NULL_IDX
      BY <1>4
    <3>4. \A j \in Members(b, o.side, o.price) : u.pool[j].prev = b.pool[j].prev
      BY <1>14 DEF Members, L, Pu, Pv
    <3> QED BY <3>1, <3>2, <3>3, <3>4
  <2>3. CASE ~(side = o.side /\ p = o.price)
    <3>1. /\ u.levels[side][p] = b.levels[side][p] /\ p \in DOMAIN b.levels[side]
          /\ Members(u, side, p) = Members(b, side, p)
      BY <1>10, <1>11, <2>1, <2>3
    <3> DEFINE bl == b.levels[side][p]
    <3>2. /\ {bl.head, bl.tail} \subseteq Members(b, side, p)
          /\ b.pool[bl.head].prev = NULL_IDX
          /\ b.pool[bl.tail].next = NULL_IDX
      BY <3>1 DEF GoodBook, EndsLinked
    <3>3. \A j \in Members(b, side, p) : j \in L /\ ~Same(j, i)
      BY <2>3 DEF Members, SameLevel, Same, L, o
    <3>4. \A j \in Members(b, side, p) : u.pool[j].prev = b.pool[j].prev
                                         /\ u.pool[j].next = b.pool[j].next
      <4>1. \A j \in Members(b, side, p) : Pu(j) = Pv(j) /\ Nu(j) = Nx(j)
        BY <1>1, <1>14, <1>19, <3>3
      <4> QED BY <4>1 DEF Pu, Pv, Nu, Nx
    <3>5. u.levels[side][p] = bl
      BY <3>1
    <3> HIDE DEF bl
    <3>6. u.pool[bl.head].prev = NULL_IDX /\ u.pool[bl.tail].next = NULL_IDX
      BY <3>2, <3>4
    <3> QED BY <3>1, <3>2, <3>5, <3>6
  <2> QED BY <2>2, <2>3
<1> QED BY <1>3, <1>8, <1>13, <1>24, <1>25, <1>26, <1>27 DEF GoodBook
=============================================================================
