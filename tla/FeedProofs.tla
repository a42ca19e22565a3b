------------------------------ MODULE FeedProofs ------------------------------
(***************************************************************************)
(* A feed is one more caller of the engine: whatever messages come, each of  *)
(* its steps is a step of Orderbook or none.  So the invariants proved of    *)
(* the engine hold under every feed, in the middle of a snapshot too.        *)
(***************************************************************************)
EXTENDS MarketDataFeed, OrderbookImplements

SnapshotLevel == [side : Side, price : LimitPrices, quantity : AddQuantities \cup {0}]

\* What is left of a snapshot is calls that the engine admits: ids of the engine
\* to cancel, levels to add, and a synthetic id for each of them.
Admissible(f) ==
    /\ f.toCancel \subseteq OrderId
    /\ f.levels \in Seq(SnapshotLevel)
    /\ f.nextId \in Nat /\ f.nextId >= 1
    /\ f.nextId + Len(f.levels) <= Len(SyntheticIds) + 1

FeedInv == feed.kind = "snapshots" => Admissible(feed)

-----------------------------------------------------------------------------

\* A message that is done with, or in a call, is not a snapshot.
LEMMA NotFilling ==
    ASSUME NEW kind \in {"newOrders", "modifications"},
           feed' = Quiet \/ feed' = [kind |-> kind]
    PROVE  FeedInv'
BY DEF FeedInv, Quiet

\* The levels of a side, with the side written on them, are levels the engine admits.
LEMMA SidedLevels ==
    ASSUME NEW side \in Side, NEW s \in Snapshots, NEW levels \in {s.bids, s.asks}
    PROVE  /\ Sided(side, levels) \in Seq(SnapshotLevel)
           /\ Len(Sided(side, levels)) = Len(levels)
           /\ Len(levels) \in Nat
<1>1. levels \in Seq(Level)
  BY FeedAssumption DEF Snapshot
<1>2. \A k \in 1 .. Len(levels) :
        levels[k].price \in LimitPrices /\ levels[k].quantity \in AddQuantities \cup {0}
  BY <1>1, FeedAssumption
<1>3. Sided(side, levels) = [k \in 1 .. Len(levels) |->
         [side |-> side, price |-> levels[k].price, quantity |-> levels[k].quantity]]
  BY <1>1 DEF Sided
<1>4. Sided(side, levels) \in [1 .. Len(levels) -> SnapshotLevel]
  BY <1>2, <1>3 DEF SnapshotLevel
<1>5. Len(levels) \in Nat
  BY <1>1
<1> QED BY <1>4, <1>5

\* There is a synthetic id for each level of a snapshot.
LEMMA IdsSuffice ==
    ASSUME NEW s \in Snapshots
    PROVE  Len(SyntheticIds) \in Nat /\ Len(s.bids) + Len(s.asks) <= Len(SyntheticIds)
<1>1. SyntheticIds \in Seq(OrderId)
  BY FeedAssumption
<1>2. Len(s.bids) + Len(s.asks) <= Len(SyntheticIds)
  BY FeedAssumption, Zenon
<1>3. Len(SyntheticIds) \in Nat
  BY <1>1
<1> QED BY <1>2, <1>3, Zenon

\* The id after the last one that a snapshot uses.
LEMMA SumWithin ==
    ASSUME NEW a \in Nat, NEW b \in Nat, NEW n \in Nat, a + b <= n
    PROVE  1 + (a + b) <= n + 1
OBVIOUS

\* A snapshot that has just come is admissible.
LEMMA SnapshotComes ==
    ASSUME IInv, NEW s \in Snapshots, ReceiveSnapshot(s)
    PROVE  FeedInv'
<1> DEFINE bids == Sided("Buy", s.bids)
           asks == Sided("Sell", s.asks)
<1>1. /\ bids \in Seq(SnapshotLevel) /\ asks \in Seq(SnapshotLevel)
      /\ Len(bids) = Len(s.bids) /\ Len(asks) = Len(s.asks)
      /\ Len(s.bids) \in Nat /\ Len(s.asks) \in Nat
  BY SidedLevels DEF Side
<1>2. Len(s.bids) + Len(s.asks) <= Len(SyntheticIds) /\ Len(SyntheticIds) \in Nat
  BY IdsSuffice
<1>3. bids \o asks \in Seq(SnapshotLevel) /\ Len(bids \o asks) = Len(bids) + Len(asks)
  BY <1>1
<1>4. DOMAIN book.orderMap \subseteq OrderId
  BY DEF IInv, StateOK, GoodBook, IsBook, IsPartialFunction
<1>5. /\ feed'.toCancel = DOMAIN book.orderMap
      /\ feed'.levels = bids \o asks /\ feed'.nextId = 1
  BY DEF ReceiveSnapshot
<1>6. 1 + Len(bids \o asks) <= Len(SyntheticIds) + 1
  <2>1. Len(bids \o asks) = Len(s.bids) + Len(s.asks)
    BY <1>1, <1>3, Zenon
  <2>2. 1 + (Len(s.bids) + Len(s.asks)) <= Len(SyntheticIds) + 1
    BY <1>1, <1>2, SumWithin, Zenon
  <2> QED BY <2>1, <2>2, Zenon
<1>7. Admissible(feed')
  BY <1>3, <1>4, <1>5, <1>6 DEF Admissible
<1> QED BY <1>7 DEF FeedInv

\* Its first level can be added to the book, and the rest is admissible.
LEMMA LevelIsAdmissible ==
    ASSUME NEW f, Admissible(f), f.levels # <<>>
    PROVE  /\ Head(f.levels) \in SnapshotLevel
           /\ SyntheticIds[f.nextId] \in OrderId
           /\ Tail(f.levels) \in Seq(SnapshotLevel)
           /\ f.nextId + 1 + Len(Tail(f.levels)) <= Len(SyntheticIds) + 1
<1>1. f.levels \in Seq(SnapshotLevel) /\ Len(f.levels) \in Nat /\ Len(f.levels) >= 1
  BY DEF Admissible
<1>2. Len(Tail(f.levels)) = Len(f.levels) - 1
  BY <1>1
<1>3. SyntheticIds \in Seq(OrderId) /\ Len(SyntheticIds) \in Nat
  BY FeedAssumption
<1>4. f.nextId \in 1 .. Len(SyntheticIds)
  BY <1>1, <1>3 DEF Admissible
<1> QED BY <1>1, <1>2, <1>3, <1>4 DEF Admissible

\* ProcessSnapshot, one order at a time: CancelOrder, AddOrder or nothing.
LEMMA SnapshotStepsEngine ==
    ASSUME FeedInv, SnapshotStep
    PROVE  [Next]_vars /\ FeedInv'
<1>1. InSnapshot /\ Admissible(feed)
  BY DEF SnapshotStep, SnapshotCancel, SnapshotSkip, SnapshotAdd, SnapshotEnd, InSnapshot, FeedInv
<1>2. CASE SnapshotCancel
  <2>1. PICK id \in feed.toCancel :
          CancelOrder(id) /\ feed' = [feed EXCEPT !.toCancel = @ \ {id}]
    BY <1>2 DEF SnapshotCancel
  <2>2. id \in OrderId
    BY <1>1 DEF Admissible
  <2>3. Next
    BY <2>1, <2>2 DEF Next, PublicCall
  <2>4. /\ feed'.toCancel \subseteq feed.toCancel
        /\ feed'.levels = feed.levels /\ feed'.nextId = feed.nextId
    BY <2>1
  <2> QED BY <1>1, <2>3, <2>4 DEF FeedInv, Admissible
<1>3. CASE SnapshotSkip
  <2>1. /\ feed'.levels = Tail(feed.levels) /\ feed'.toCancel = feed.toCancel
        /\ feed'.nextId = feed.nextId /\ UNCHANGED vars /\ feed.levels # <<>>
    BY <1>3 DEF SnapshotSkip
  <2> QED BY <1>1, <2>1, LevelIsAdmissible DEF FeedInv, Admissible
<1>4. CASE SnapshotAdd
  <2> DEFINE level == Head(feed.levels)
             id    == SyntheticIds[feed.nextId]
  <2>1. /\ feed.levels # <<>> /\ level.quantity > 0
        /\ AddOrder("GoodTillCancel", id, level.side, level.price, level.quantity)
        /\ feed'.levels = Tail(feed.levels) /\ feed'.toCancel = feed.toCancel
        /\ feed'.nextId = feed.nextId + 1
    BY <1>4 DEF SnapshotAdd
  <2>2. level \in SnapshotLevel /\ id \in OrderId
    BY <1>1, <2>1, LevelIsAdmissible
  <2>3. /\ level.side \in Side /\ level.price \in LimitPrices /\ level.quantity \in AddQuantities
        /\ "GoodTillCancel" \in AddTypes
    BY <2>1, <2>2, FeedAssumption DEF SnapshotLevel
  <2>4. Next
    BY <2>1, <2>2, <2>3 DEF Next, PublicCall
  <2>5. Admissible(feed')
    BY <1>1, <2>1, LevelIsAdmissible DEF Admissible
  <2> QED BY <2>4, <2>5 DEF FeedInv
<1>5. CASE SnapshotEnd
  BY <1>5, NotFilling DEF SnapshotEnd, Done
<1> QED BY <1>2, <1>3, <1>4, <1>5 DEF SnapshotStep

\* The other handlers, one by one.
LEMMA FeedStepsEngine ==
    ASSUME IInv, FeedInv, [FeedNext]_feedVars
    PROVE  [Next]_vars /\ FeedInv'
<1>1. CASE \E type \in AddTypes, id \in FeedIds, side \in Side,
             price \in LimitPrices, qty \in AddQuantities :
               ReceiveNewOrder(type, id, side, price, qty)
  <2>1. PICK type \in AddTypes, id \in FeedIds, side \in Side,
             price \in LimitPrices, qty \in AddQuantities :
               ReceiveNewOrder(type, id, side, price, qty)
    BY <1>1
  <2>2. AddOrder(type, id, side, price, qty) /\ id \in OrderId
    BY <2>1, FeedAssumption DEF ReceiveNewOrder
  <2>3. Next
    BY <2>2 DEF Next, PublicCall
  <2>4. FeedInv'
    BY <2>1, NotFilling DEF ReceiveNewOrder, NewOrderOutcome, DoneIfReturned, Done
  <2> QED BY <2>3, <2>4
<1>2. CASE \E id \in FeedIds : ReceiveCancel(id)
  <2>1. PICK id \in FeedIds : CancelOrder(id) /\ feed' = Quiet
    BY <1>2 DEF ReceiveCancel, Done
  <2>2. Next
    BY <2>1, FeedAssumption DEF Next, PublicCall
  <2> QED BY <2>1, <2>2, NotFilling
<1>3. CASE \E id \in FeedIds, side \in Side, price \in LimitPrices, qty \in ModifyQuantities :
             ReceiveModify(id, side, price, qty)
  <2>1. PICK id \in FeedIds, side \in Side, price \in LimitPrices, qty \in ModifyQuantities :
             ReceiveModify(id, side, price, qty)
    BY <1>3
  <2>2. ModifyOrder(id, side, price, qty) /\ id \in OrderId
    BY <2>1, FeedAssumption DEF ReceiveModify
  <2>3. Next
    BY <2>2 DEF Next, PublicCall
  <2>4. FeedInv'
    BY <2>1, NotFilling DEF ReceiveModify, DoneIfReturned, Done
  <2> QED BY <2>3, <2>4
<1>4. CASE ReceiveTrade
  BY <1>4, NotFilling DEF ReceiveTrade, Done
<1>5. CASE \E s \in Snapshots : ReceiveSnapshot(s)
  <2>1. PICK s \in Snapshots : ReceiveSnapshot(s)
    BY <1>5
  <2>2. UNCHANGED vars
    BY <2>1 DEF ReceiveSnapshot, vars
  <2> QED BY <2>1, <2>2, SnapshotComes
<1>6. CASE EngineStep
  <2>1. Next
    BY <1>6 DEF EngineStep, Next
  <2>2. feed' = Quiet \/ feed' = feed
    BY <1>6 DEF EngineStep, Done
  <2> QED BY <2>1, <2>2, NotFilling DEF FeedInv
<1>7. CASE SnapshotStep
  BY <1>7, SnapshotStepsEngine
<1>8. CASE ResetMarketDataStats
  BY <1>8 DEF ResetMarketDataStats, FeedInv
<1>9. CASE UNCHANGED feedVars
  BY <1>9 DEF feedVars, vars, FeedInv
<1> QED BY <1>1, <1>2, <1>3, <1>4, <1>5, <1>6, <1>7, <1>8, <1>9 DEF FeedNext

-----------------------------------------------------------------------------

\* A feed drives the engine through its public calls and in no other way: the
\* handlers at 301-354 of Orderbook.h implement the engine.
THEOREM FeedImplementsEngine == FeedSpec => FeedDrivesEngine
<1>1. FeedInit => IInv /\ FeedInv /\ Init
  BY InitOK DEF FeedInit, FeedInv, Quiet
<1>2. IInv /\ FeedInv /\ [FeedNext]_feedVars => IInv' /\ FeedInv' /\ [Next]_vars
  BY FeedStepsEngine, NextKeeps
<1> QED BY <1>1, <1>2, PTL DEF FeedSpec, FeedDrivesEngine, Spec

\* So no message, and no snapshot cut into any orders, leaks a slot, breaks a
\* list of the book or a level's total, and whatever trades under a feed respects
\* priority, and no message makes one order overtake another: all that a feed
\* does to the book are steps of PriceTimeBook.
THEOREM FeedKeepsBook ==
    FeedSpec => /\ [](NoLeakNoDoubleFree /\ ListsWellFormed /\ ListsInTimeOrder /\ TotalsInSync)
                /\ PriceTimePriority /\ TradeWithinLimits /\ NoOvertaking
                /\ ImplementsPriceTimeBook
BY FeedImplementsEngine, Implements, PoolSafe, ListsSafe, TimeOrder, TotalsAgree, PriorityHolds, LimitsHold,
   QueuesKeepOrder, PTL
   DEF FeedDrivesEngine

-----------------------------------------------------------------------------
(* The message in hand and the call in progress.                            *)

\* The feed works on one message: the types of FeedTypeOK that are not of the
\* engine, and that an idle feed leaves the engine idle.
FeedFrames ==
    /\ stats \in [Counters -> 0 .. (CounterMod - 1)]
    /\ ledger \in [Counters -> 0 .. (CounterMod - 1)]
    /\ isInitialized \in BOOLEAN /\ lastSequenceNumber \in Nat
    /\ feed \in {Quiet} \cup CallFrame \cup SnapshotFrame
    /\ feed = Quiet => call = Idle

\* What a message is counted as.
Kinds == {"newOrders", "cancellations", "modifications", "snapshots", "errors", "trades"}

\* What the message in hand has still to be counted for: itself, and the trades
\* that a new order has made so far.
TradesOwed == IF feed.kind = "newOrders" THEN Len(TradesSoFar) ELSE 0

Owed(c) ==
    IF feed = Quiet THEN 0
    ELSE (IF c \in {feed.kind, "messagesProcessed"} THEN 1 ELSE 0)
       + (IF c = "trades" THEN TradesOwed ELSE 0)

\* The ledger is the statistics and what is owed to them.
Balanced == \A c \in Counters : ledger[c] = (stats[c] + Owed(c)) % CounterMod

\* Counters that wrap.
LEMMA Wrapping ==
    /\ CounterMod \in Nat /\ CounterMod > 1
    /\ \A m \in 0 .. (CounterMod - 1) : m \in Nat /\ m % CounterMod = m
    /\ \A m \in Nat : /\ m % CounterMod \in 0 .. (CounterMod - 1)
                      /\ ((m % CounterMod) + 1) % CounterMod = (m + 1) % CounterMod
<1>1. CounterMod \in Nat /\ CounterMod > 1
  BY FeedAssumption
<1>2. \A m \in 0 .. (CounterMod - 1) : m \in Nat /\ m % CounterMod = m
  BY <1>1
<1>3. \A m \in Nat : m % CounterMod \in 0 .. (CounterMod - 1)
  BY <1>1
<1>4. ASSUME NEW m \in Nat
      PROVE  ((m % CounterMod) + 1) % CounterMod = (m + 1) % CounterMod
  <2>1. CounterMod \in Int /\ CounterMod > 0 /\ m \in Int /\ 1 \in Int
    BY <1>1
  <2> QED BY <2>1, WrapOnce, Zenon
<1> QED BY <1>1, <1>2, <1>3, <1>4

\* Between messages nothing is owed.
LEMMA NothingOwed ==
    ASSUME FeedFrames, Balanced, feed = Quiet, NEW c \in Counters
    PROVE  stats[c] \in Nat /\ ledger[c] = stats[c] /\ stats[c] % CounterMod = stats[c]
<1>1. stats[c] \in 0 .. (CounterMod - 1)
  BY DEF FeedFrames
<1>2. stats[c] \in Nat /\ stats[c] % CounterMod = stats[c]
  BY <1>1, Wrapping
<1>3. ledger[c] = (stats[c] + 0) % CounterMod
  BY DEF Balanced, Owed
<1>4. stats[c] + 0 = stats[c]
  BY <1>2
<1> QED BY <1>2, <1>3, <1>4

\* What an entry does to the ledger, and counting to the statistics.
LEMMA EnterEffect ==
    ASSUME FeedFrames, NEW kind \in Kinds, Enter(kind)
    PROVE  /\ ledger' \in [Counters -> 0 .. (CounterMod - 1)]
           /\ \A c \in Counters :
                ledger'[c] = IF c \in {kind, "messagesProcessed"}
                             THEN (ledger[c] + 1) % CounterMod ELSE ledger[c]
<1>1. ledger \in [Counters -> 0 .. (CounterMod - 1)] /\ kind # "messagesProcessed"
      /\ kind \in Counters /\ "messagesProcessed" \in Counters
  BY DEF FeedFrames, Kinds, Counters
<1>2. ledger' = [ledger EXCEPT ![kind] = (ledger[kind] + 1) % CounterMod,
                   !["messagesProcessed"] = (ledger["messagesProcessed"] + 1) % CounterMod]
  BY <1>1 DEF Enter
<1>3. \A c \in Counters :
        ledger'[c] = IF c \in {kind, "messagesProcessed"}
                     THEN (ledger[c] + 1) % CounterMod ELSE ledger[c]
  BY <1>1, <1>2
<1>4. \A c \in Counters : ledger[c] + 1 \in Nat
  <2>1. \A c \in Counters : ledger[c] \in 0 .. (CounterMod - 1)
    BY <1>1
  <2>2. \A c \in Counters : ledger[c] \in Nat
    BY <2>1, Wrapping
  <2> QED BY <2>2
<1>5. \A c \in Counters : ledger'[c] \in 0 .. (CounterMod - 1)
  BY <1>1, <1>3, <1>4, Wrapping
<1>6. DOMAIN ledger' = Counters /\ ledger' = [c \in Counters |-> ledger'[c]]
  BY <1>1, <1>2
<1> QED BY <1>3, <1>5, <1>6

LEMMA CountEffect ==
    ASSUME FeedFrames, NEW kind, NEW n \in Nat, Count(kind, n)
    PROVE  /\ stats' \in [Counters -> 0 .. (CounterMod - 1)]
           /\ \A c \in Counters : stats'[c] =
                (stats[c] + (IF c \in {kind, "messagesProcessed"} THEN 1 ELSE 0)
                          + (IF c = "trades" THEN n ELSE 0)) % CounterMod
<1>1. stats' = [c \in Counters |->
        (stats[c] + (IF c \in {kind, "messagesProcessed"} THEN 1 ELSE 0)
                  + (IF c = "trades" THEN n ELSE 0)) % CounterMod]
  BY DEF Count
<1>2. \A c \in Counters : stats[c] \in Nat
  BY Wrapping DEF FeedFrames
<1>3. \A c \in Counters :
        stats[c] + (IF c \in {kind, "messagesProcessed"} THEN 1 ELSE 0)
                 + (IF c = "trades" THEN n ELSE 0) \in Nat
  BY <1>2
<1> QED BY <1>1, <1>3, Wrapping

\* A message that comes and is done with in one step is entered and counted as
\* the same.
LEMMA DoneAtOnce ==
    ASSUME FeedFrames, Balanced, feed = Quiet, call' = Idle, SameSnapshot,
           NEW kind \in Kinds, Done(kind, 0), Enter(kind)
    PROVE  FeedFrames' /\ Balanced'
<1>1. /\ stats' \in [Counters -> 0 .. (CounterMod - 1)]
      /\ \A c \in Counters : stats'[c] =
           (stats[c] + (IF c \in {kind, "messagesProcessed"} THEN 1 ELSE 0)
                     + (IF c = "trades" THEN 0 ELSE 0)) % CounterMod
  BY CountEffect DEF Done
<1>2. /\ ledger' \in [Counters -> 0 .. (CounterMod - 1)]
      /\ \A c \in Counters :
           ledger'[c] = IF c \in {kind, "messagesProcessed"}
                        THEN (ledger[c] + 1) % CounterMod ELSE ledger[c]
  BY EnterEffect
<1>3. \A c \in Counters : stats[c] \in Nat /\ ledger[c] = stats[c] /\ stats[c] % CounterMod = stats[c]
  BY NothingOwed
<1>4. \A c \in Counters : ledger'[c] = stats'[c]
  BY <1>1, <1>2, <1>3
<1>5. \A c \in Counters : stats'[c] \in Nat /\ stats'[c] % CounterMod = stats'[c]
  BY <1>1, Wrapping
<1>6. feed' = Quiet
  BY DEF Done
<1> QED BY <1>1, <1>2, <1>4, <1>5, <1>6 DEF FeedFrames, Balanced, Owed, SameSnapshot

\* A message whose call goes on is entered, and owed.
LEMMA InHand ==
    ASSUME FeedFrames, Balanced, feed = Quiet, SameSnapshot, UNCHANGED stats,
           NEW kind \in Kinds, Enter(kind), feed' # Quiet, feed'.kind = kind,
           feed' \in CallFrame \cup SnapshotFrame,
           kind = "newOrders" => TradesSoFar' = <<>>
    PROVE  FeedFrames' /\ Balanced'
<1>1. /\ ledger' \in [Counters -> 0 .. (CounterMod - 1)]
      /\ \A c \in Counters :
           ledger'[c] = IF c \in {kind, "messagesProcessed"}
                        THEN (ledger[c] + 1) % CounterMod ELSE ledger[c]
  BY EnterEffect
<1>2. \A c \in Counters : stats[c] \in Nat /\ ledger[c] = stats[c] /\ stats[c] % CounterMod = stats[c]
  BY NothingOwed
<1>3. TradesOwed' = 0
  BY DEF TradesOwed
<1>4. \A c \in Counters : Owed(c)' = IF c \in {kind, "messagesProcessed"} THEN 1 ELSE 0
  BY <1>3 DEF Owed
<1>5. \A c \in Counters : ledger'[c] = (stats'[c] + Owed(c)') % CounterMod
  BY <1>1, <1>2, <1>4
<1> QED BY <1>1, <1>5 DEF FeedFrames, Balanced, SameSnapshot

\* A message whose last call has returned is counted for what was owed.
LEMMA DoneInTheEnd ==
    ASSUME FeedFrames, Balanced, feed # Quiet, call' = Idle, ledger' = ledger,
           isInitialized' \in BOOLEAN, lastSequenceNumber' \in Nat,
           TradesOwed \in Nat, Done(feed.kind, TradesOwed)
    PROVE  FeedFrames' /\ Balanced'
<1>1. /\ stats' \in [Counters -> 0 .. (CounterMod - 1)]
      /\ \A c \in Counters : stats'[c] =
           (stats[c] + (IF c \in {feed.kind, "messagesProcessed"} THEN 1 ELSE 0)
                     + (IF c = "trades" THEN TradesOwed ELSE 0)) % CounterMod
  BY CountEffect DEF Done
<1>2. \A c \in Counters : stats[c] \in Nat
  BY Wrapping DEF FeedFrames
<1>3. \A c \in Counters : ledger[c] = stats'[c]
  BY <1>1, <1>2 DEF Balanced, Owed
<1>4. \A c \in Counters : stats'[c] \in Nat /\ stats'[c] % CounterMod = stats'[c]
  BY <1>1, Wrapping
<1>5. feed' = Quiet
  BY DEF Done
<1> QED BY <1>1, <1>3, <1>4, <1>5 DEF FeedFrames, Balanced, Owed

\* Until its calls have returned a message is owed as before, and for one trade
\* more after a step that trades.
LEMMA StillInHand ==
    ASSUME FeedFrames, Balanced, feed # Quiet, feed' # Quiet, feed'.kind = feed.kind,
           feed' \in CallFrame \cup SnapshotFrame, UNCHANGED stats, SameSnapshot,
           TradesOwed \in Nat, TradesOwed' \in {TradesOwed, TradesOwed + 1},
           ledger' = IF TradesOwed' > TradesOwed
                     THEN [ledger EXCEPT !["trades"] = (@ + 1) % CounterMod] ELSE ledger
    PROVE  FeedFrames' /\ Balanced'
<1>1. feed.kind # "trades" /\ "trades" \in Counters
  BY DEF FeedFrames, CallFrame, SnapshotFrame, Counters
<1>2. \A c \in Counters : stats[c] \in Nat /\ ledger[c] \in 0 .. (CounterMod - 1) /\ ledger[c] \in Nat
  BY Wrapping DEF FeedFrames
<1>3. \A c \in Counters :
        Owed(c) = (IF c \in {feed.kind, "messagesProcessed"} THEN 1 ELSE 0)
                + (IF c = "trades" THEN TradesOwed ELSE 0)
  BY DEF Owed
<1>4. \A c \in Counters :
        Owed(c)' = (IF c \in {feed.kind, "messagesProcessed"} THEN 1 ELSE 0)
                 + (IF c = "trades" THEN TradesOwed' ELSE 0)
  BY DEF Owed
<1>5. CASE TradesOwed' = TradesOwed
  <2>1. ledger' = ledger
    BY <1>5
  <2>2. \A c \in Counters : Owed(c)' = Owed(c)
    BY <1>3, <1>4, <1>5
  <2> QED BY <2>1, <2>2 DEF FeedFrames, Balanced, SameSnapshot
<1>6. CASE TradesOwed' = TradesOwed + 1
  <2>1. ledger' = [ledger EXCEPT !["trades"] = (ledger["trades"] + 1) % CounterMod]
    BY <1>6
  <2>2. /\ \A c \in Counters \ {"trades"} : ledger'[c] = ledger[c] /\ Owed(c)' = Owed(c)
        /\ ledger'["trades"] = (ledger["trades"] + 1) % CounterMod
        /\ Owed("trades") = TradesOwed /\ Owed("trades")' = TradesOwed + 1
    BY <1>1, <1>3, <1>4, <1>6, <2>1 DEF FeedFrames
  <2>3. /\ ledger["trades"] = (stats["trades"] + TradesOwed) % CounterMod
        /\ stats["trades"] + TradesOwed \in Nat
    BY <1>1, <1>2, <2>2 DEF Balanced
  <2>4. ledger'["trades"] = ((stats["trades"] + TradesOwed) + 1) % CounterMod
    BY <2>2, <2>3, Wrapping
  <2>5. ledger'["trades"] = (stats'["trades"] + Owed("trades")') % CounterMod
    <3>1. (stats["trades"] + TradesOwed) + 1 = stats["trades"] + (TradesOwed + 1)
      BY <1>1, <1>2
    <3> QED BY <2>2, <2>4, <3>1
  <2>6. Balanced'
    BY <2>2, <2>5 DEF Balanced
  <2>7. ledger' \in [Counters -> 0 .. (CounterMod - 1)]
    <3>1. ledger["trades"] + 1 \in Nat
      BY <1>1, <1>2
    <3>2. (ledger["trades"] + 1) % CounterMod \in 0 .. (CounterMod - 1)
      BY <3>1, Wrapping
    <3> QED BY <1>1, <2>1, <3>2 DEF FeedFrames
  <2> QED BY <2>6, <2>7 DEF FeedFrames, SameSnapshot
<1> QED BY <1>5, <1>6

\* A step of a call makes one trade or none.
LEMMA TradesGrow ==
    ASSUME IInv, Continue
    PROVE  /\ TradesSoFar \in Seq(Trade)
           /\ call' = Idle => Len(TradesSoFar') = 0
           /\ call' # Idle => Len(TradesSoFar') \in {Len(TradesSoFar), Len(TradesSoFar) + 1}
<1>1. /\ call.pc = "match" => call \in MatchFrame
      /\ call.pc = "execute" => call \in ExecuteFrame
      /\ call.pc = "collect" => call \in CollectFrame
      /\ call.pc = "cancelAll" => call \in CancelFrame
  BY FrameByPc DEF IInv, StateOK
<1>2. TradesSoFar \in Seq(Trade) /\ Len(TradesSoFar) \in Nat
  <2>1. TradesSoFar \in Seq(Trade)
    BY <1>1 DEF TradesSoFar, MatchFrame, ExecuteFrame
  <2> QED BY <2>1
<1>3. call' = Idle => Len(TradesSoFar') = 0
  BY DEF TradesSoFar, Idle
<1>4. CASE MatchStep
  <2>1. call \in MatchFrame /\ call.pc = "match"
    BY <1>1, <1>4 DEF MatchStep
  <2>2. PICK t : call' = [call EXCEPT !.trades = Append(call.trades, t)]
    BY <1>4 DEF MatchStep
  <2>3. call'.pc = "match" /\ call'.trades = Append(call.trades, t)
    BY <2>1, <2>2 DEF MatchFrame
  <2>4. TradesSoFar' = Append(TradesSoFar, t)
    BY <2>1, <2>3 DEF TradesSoFar
  <2> QED BY <1>2, <1>3, <2>4
<1>5. CASE ExecuteStep
  <2>1. call \in ExecuteFrame /\ call.pc = "execute"
    BY <1>1, <1>5 DEF ExecuteStep
  <2>2. PICK t : call' = [call EXCEPT !.matches = Tail(call.matches), !.trades = Append(call.trades, t)]
    BY <1>5 DEF ExecuteStep
  <2>3. call'.pc = "execute" /\ call'.trades = Append(call.trades, t)
    BY <2>1, <2>2 DEF ExecuteFrame
  <2>4. TradesSoFar' = Append(TradesSoFar, t)
    BY <2>1, <2>3 DEF TradesSoFar
  <2> QED BY <1>2, <1>3, <2>4
<1>6. CASE call.pc \in {"collect", "readd", "cancelAll"}
           /\ (call'.pc \in {"collect", "cancelAll"} \/ (call'.pc \in {"match", "execute"} /\ call'.trades = <<>>))
  BY <1>2, <1>3, <1>6 DEF TradesSoFar
<1>7. CASE CollectLevel
  <2>1. call \in CollectFrame /\ call.pc = "collect"
    BY <1>1, <1>7 DEF CollectLevel
  <2>2. PICK p, cur : call' = [call EXCEPT !.todo = call.todo \ {p}, !.cur = cur]
    BY <1>7 DEF CollectLevel
  <2>3. call'.pc = "collect"
    BY <2>1, <2>2 DEF CollectFrame
  <2> QED BY <1>6, <2>1, <2>3
<1>8. CASE CollectOrder
  <2>1. call \in CollectFrame /\ call.pc = "collect"
    BY <1>1, <1>8 DEF CollectOrder
  <2>2. PICK e, r, cur :
          call' = [call EXCEPT !.matches = Append(call.matches, e), !.remaining = r, !.cur = cur]
    BY <1>8 DEF CollectOrder
  <2>3. call'.pc = "collect"
    BY <2>1, <2>2 DEF CollectFrame
  <2> QED BY <1>6, <2>1, <2>3
<1>9. CASE CollectEnd
  <2>1. call.pc = "collect" /\ call'.pc = "execute" /\ call'.trades = <<>>
    BY <1>9 DEF CollectEnd
  <2> QED BY <1>6, <2>1
<1>10. CASE ReAdd
  <2>1. call.pc = "readd" /\ (call' = Idle \/ call'.pc = "collect"
                              \/ (call'.pc = "match" /\ call'.trades = <<>>))
    BY <1>10 DEF ReAdd, AddOrderBody, Return, StartFillOrKill, StartMatching
  <2> QED BY <1>2, <1>3, <1>6, <2>1
<1>11. CASE CancelNext
  <2>1. call \in CancelFrame /\ call.pc = "cancelAll"
    BY <1>1, <1>11 DEF CancelNext
  <2>2. PICK id : call' = [call EXCEPT !.toCancel = call.toCancel \ {id}]
    BY <1>11 DEF CancelNext
  <2>3. call'.pc = "cancelAll"
    BY <2>1, <2>2 DEF CancelFrame
  <2> QED BY <1>6, <2>1, <2>3
<1>12. CASE MatchEnd \/ Kill \/ ExecuteEnd \/ CancelAllEnd
  BY <1>2, <1>3, <1>12 DEF MatchEnd, Kill, ExecuteEnd, CancelAllEnd, Return
<1> QED BY <1>4, <1>5, <1>7, <1>8, <1>9, <1>10, <1>11, <1>12 DEF Continue

\* A message whose call has returned is counted, and one whose call has not is
\* in hand from now on.
LEMMA OutcomeBalanced ==
    ASSUME FeedFrames, Balanced, feed = Quiet, SameSnapshot,
           NEW kind \in {"newOrders", "modifications"}, DoneIfReturned(kind), Enter(kind),
           call' # Idle => Len(TradesSoFar') = 0 /\ TradesSoFar' = <<>>
    PROVE  FeedFrames' /\ Balanced'
<1>1. kind \in Kinds
  BY DEF Kinds
<1>2. CASE call' = Idle
  BY <1>1, <1>2, DoneAtOnce DEF DoneIfReturned
<1>3. CASE call' # Idle
  <2>1. feed' = [kind |-> kind] /\ UNCHANGED stats
    BY <1>3 DEF DoneIfReturned
  <2>2. feed' \in CallFrame /\ feed' # Quiet /\ feed'.kind = kind
    BY <2>1 DEF CallFrame, Quiet
  <2> QED BY <1>1, <1>3, <2>1, <2>2, InHand
<1> QED BY <1>2, <1>3

\* What is admissible has the type of a snapshot in hand.
LEMMA SnapshotFrames ==
    ASSUME NEW s \in Snapshots, NEW g, Admissible(g),
           g = [ kind |-> "snapshots", snapshot |-> s, toCancel |-> g.toCancel,
                 levels |-> g.levels, nextId |-> g.nextId ]
    PROVE  g \in SnapshotFrame /\ g # Quiet
<1>1. g.levels \in Seq([side : Side, price : Price, quantity : Quantity])
  <2>1. LimitPrices \subseteq Price /\ AddQuantities \cup {0} \subseteq Quantity
    BY BookAssumption, NumericAssumption DEF Quantity
  <2>2. SnapshotLevel \subseteq [side : Side, price : Price, quantity : Quantity]
    BY <2>1 DEF SnapshotLevel
  <2> DEFINE T == [side : Side, price : Price, quantity : Quantity]
  <2>3. g.levels \in Seq(SnapshotLevel) /\ SnapshotLevel \subseteq T
    BY <2>2 DEF Admissible
  <2> HIDE DEF T
  <2>4. g.levels \in Seq(T)
    BY <2>3
  <2> QED BY <2>4 DEF T
<1>2. g.nextId \in 1 .. Len(SyntheticIds) + 1
  <2>1. Len(SyntheticIds) \in Nat
    BY FeedAssumption
  <2>2. g.nextId \in Nat /\ g.nextId >= 1 /\ g.nextId + Len(g.levels) <= Len(SyntheticIds) + 1
        /\ Len(g.levels) \in Nat
    BY DEF Admissible
  <2> QED BY <2>1, <2>2
<1>3. g.toCancel \in SUBSET OrderId
  BY DEF Admissible
<1> QED BY <1>1, <1>2, <1>3 DEF SnapshotFrame, Quiet

\* ProcessSnapshot counts its message when it is done with it.
LEMMA SnapshotBalanced ==
    ASSUME FeedInv, FeedInv', FeedFrames, Balanced, SnapshotStep
    PROVE  FeedFrames' /\ Balanced'
<1>1. InSnapshot
  BY DEF SnapshotStep, SnapshotCancel, SnapshotSkip, SnapshotAdd, SnapshotEnd
<1>2. feed \in SnapshotFrame /\ feed # Quiet /\ feed.kind = "snapshots"
  BY <1>1 DEF InSnapshot, FeedFrames, CallFrame, Quiet
<1>3. ASSUME UNCHANGED <<stats, ledger>>, SameSnapshot, NEW toCancel, NEW levels, NEW nextId,
             feed' = [feed EXCEPT !.toCancel = toCancel, !.levels = levels, !.nextId = nextId]
      PROVE  FeedFrames' /\ Balanced'
  <2>1. /\ feed.snapshot \in Snapshots /\ feed'.kind = "snapshots"
        /\ feed' = [ kind |-> "snapshots", snapshot |-> feed.snapshot,
                     toCancel |-> feed'.toCancel, levels |-> feed'.levels,
                     nextId |-> feed'.nextId ]
    BY <1>2, <1>3 DEF SnapshotFrame
  <2>2. feed' \in SnapshotFrame /\ feed' # Quiet
    BY <2>1, SnapshotFrames DEF FeedInv
  <2>3. TradesOwed = 0 /\ TradesOwed' = 0
    BY <1>2, <2>1 DEF TradesOwed
  <2> QED BY <1>2, <1>3, <2>1, <2>2, <2>3, StillInHand
<1>4. CASE SnapshotCancel
  <2>1. PICK toCancel : feed' = [feed EXCEPT !.toCancel = toCancel]
    BY <1>4 DEF SnapshotCancel
  <2>2. feed' = [feed EXCEPT !.toCancel = toCancel, !.levels = feed.levels,
                             !.nextId = feed.nextId]
    BY <1>2, <2>1 DEF SnapshotFrame
  <2> QED BY <1>3, <1>4, <2>2 DEF SnapshotCancel
<1>5. CASE SnapshotSkip
  <2>1. feed' = [feed EXCEPT !.levels = Tail(feed.levels)]
    BY <1>5 DEF SnapshotSkip
  <2>2. feed' = [feed EXCEPT !.toCancel = feed.toCancel, !.levels = Tail(feed.levels),
                             !.nextId = feed.nextId]
    BY <1>2, <2>1 DEF SnapshotFrame
  <2> QED BY <1>3, <1>5, <2>2 DEF SnapshotSkip
<1>6. CASE SnapshotAdd
  <2>1. feed' = [feed EXCEPT !.levels = Tail(feed.levels), !.nextId = feed.nextId + 1]
    BY <1>6 DEF SnapshotAdd
  <2>2. feed' = [feed EXCEPT !.toCancel = feed.toCancel, !.levels = Tail(feed.levels),
                             !.nextId = feed.nextId + 1]
    BY <1>2, <2>1 DEF SnapshotFrame
  <2>3. UNCHANGED <<stats, ledger>> /\ SameSnapshot
    BY <1>6 DEF SnapshotAdd
  <2> DEFINE levels == Tail(feed.levels)
             nextId == feed.nextId + 1
  <2>4. feed' = [feed EXCEPT !.toCancel = feed.toCancel, !.levels = levels, !.nextId = nextId]
    BY <2>2
  <2> HIDE DEF levels, nextId
  <2> QED BY <1>3, <2>3, <2>4
<1>7. CASE SnapshotEnd
  <2>1. /\ isInitialized' = TRUE /\ lastSequenceNumber' = feed.snapshot.sequenceNumber
        /\ Done("snapshots", 0) /\ call' = Idle /\ ledger' = ledger
    BY <1>1, <1>7 DEF SnapshotEnd, vars, InSnapshot
  <2>2. lastSequenceNumber' \in Nat
    BY <1>2, <2>1, FeedAssumption DEF SnapshotFrame, Snapshot
  <2>3. TradesOwed = 0
    BY <1>2 DEF TradesOwed
  <2> QED BY <1>2, <2>1, <2>2, <2>3, DoneInTheEnd
<1> QED BY <1>4, <1>5, <1>6, <1>7 DEF SnapshotStep

\* A step of a call brings the message in hand to its end, or leaves it there.
LEMMA EngineBalanced ==
    ASSUME IInv, FeedFrames, Balanced, EngineStep
    PROVE  FeedFrames' /\ Balanced'
<1>1. Continue /\ SameSnapshot /\ EnterTrade
  BY DEF EngineStep
<1>2. /\ TradesSoFar \in Seq(Trade)
      /\ call' = Idle => Len(TradesSoFar') = 0
      /\ call' # Idle => Len(TradesSoFar') \in {Len(TradesSoFar), Len(TradesSoFar) + 1}
  BY <1>1, TradesGrow
<1>3. Len(TradesSoFar) \in Nat /\ TradesOwed \in Nat
  BY <1>2 DEF TradesOwed
<1>4. feed # Quiet
  <2>1. call.pc \in {"match", "collect", "execute", "readd", "cancelAll"}
    BY <1>1 DEF Continue, MatchStep, MatchEnd, CollectLevel, CollectOrder,
         Kill, CollectEnd, ExecuteStep, ExecuteEnd, ReAdd, CancelNext, CancelAllEnd
  <2>2. Idle.pc = "idle"
    BY DEF Idle
  <2> QED BY <2>1, <2>2 DEF FeedFrames
<1>5. CASE call' = Idle /\ feed \in CallFrame
  <2>1. Done(feed.kind, TradesOwed)
    BY <1>5 DEF EngineStep, TradesOwed
  <2>2. ledger' = ledger
    BY <1>1, <1>2, <1>3, <1>5 DEF EnterTrade
  <2>3. isInitialized' \in BOOLEAN /\ lastSequenceNumber' \in Nat
    BY <1>1 DEF SameSnapshot, FeedFrames
  <2> QED BY <1>3, <1>4, <1>5, <2>1, <2>2, <2>3, DoneInTheEnd
<1>6. CASE ~(call' = Idle /\ feed \in CallFrame)
  <2>1. UNCHANGED <<feed, stats>>
    BY <1>6 DEF EngineStep
  <2>2. feed \in CallFrame \cup SnapshotFrame
    BY <1>4 DEF FeedFrames
  <2>3. CASE feed.kind = "newOrders"
    <3>1. feed \in CallFrame /\ call' # Idle
      BY <1>6, <2>2, <2>3 DEF SnapshotFrame
    <3>2. TradesOwed = Len(TradesSoFar) /\ TradesOwed' = Len(TradesSoFar')
      BY <2>1, <2>3 DEF TradesOwed
    <3>3. TradesOwed' \in {TradesOwed, TradesOwed + 1}
      BY <1>2, <3>1, <3>2
    <3>4. ledger' = IF TradesOwed' > TradesOwed
                    THEN [ledger EXCEPT !["trades"] = (@ + 1) % CounterMod] ELSE ledger
      BY <1>1, <2>3, <3>2 DEF EnterTrade
    <3> QED BY <1>1, <1>3, <1>4, <2>1, <2>2, <3>3, <3>4, StillInHand
  <2>4. CASE feed.kind # "newOrders"
    <3>1. TradesOwed = 0 /\ TradesOwed' = 0 /\ ledger' = ledger
      BY <1>1, <2>1, <2>4 DEF TradesOwed, EnterTrade
    <3> QED BY <1>1, <1>4, <2>1, <2>2, <3>1, StillInHand
  <2> QED BY <2>3, <2>4
<1> QED BY <1>5, <1>6

\* Every step of the feed keeps the balance.
LEMMA FeedBalances ==
    ASSUME IInv, FeedInv, FeedInv', FeedFrames, Balanced, [FeedNext]_feedVars
    PROVE  FeedFrames' /\ Balanced'
<1>1. CASE \E type \in AddTypes, id \in FeedIds, side \in Side,
             price \in LimitPrices, qty \in AddQuantities :
               ReceiveNewOrder(type, id, side, price, qty)
  <2>1. PICK type \in AddTypes, id \in FeedIds, side \in Side,
             price \in LimitPrices, qty \in AddQuantities :
               ReceiveNewOrder(type, id, side, price, qty)
    BY <1>1
  <2>2. feed = Quiet /\ SameSnapshot /\ AddOrderBody(type, id, side, price, qty)
    BY <2>1 DEF ReceiveNewOrder, Ready, AddOrder
  <2>3. CASE ~Rejected(type, id, side, price, qty) /\ PoolExhausted
    <3>1. Done("errors", 0) /\ Enter("errors") /\ "errors" \in Kinds
      BY <2>1, <2>3 DEF ReceiveNewOrder, NewOrderOutcome, Outcome, Kinds
    <3>2. call' = Idle
      BY <2>2, <2>3 DEF AddOrderBody, Return
    <3> QED BY <2>2, <3>1, <3>2, DoneAtOnce
  <2>4. CASE ~(~Rejected(type, id, side, price, qty) /\ PoolExhausted)
    <3>1. DoneIfReturned("newOrders") /\ Enter("newOrders")
      BY <2>1, <2>4 DEF ReceiveNewOrder, NewOrderOutcome, Outcome
    <3>2. call' # Idle => TradesSoFar' = <<>>
      BY <2>2 DEF AddOrderBody, Return, StartFillOrKill, StartMatching, TradesSoFar
    <3> QED BY <2>2, <3>1, <3>2, OutcomeBalanced
  <2> QED BY <2>3, <2>4
<1>2. CASE \E id \in FeedIds : ReceiveCancel(id)
  <2>1. /\ Done("cancellations", 0) /\ Enter("cancellations") /\ SameSnapshot /\ call' = Idle
        /\ feed = Quiet /\ "cancellations" \in Kinds
    BY <1>2 DEF ReceiveCancel, Ready, CancelOrder, Kinds
  <2> QED BY <2>1, DoneAtOnce
<1>3. CASE \E id \in FeedIds, side \in Side, price \in LimitPrices, qty \in ModifyQuantities :
             ReceiveModify(id, side, price, qty)
  <2>1. PICK id \in FeedIds, side \in Side, price \in LimitPrices, qty \in ModifyQuantities :
             ReceiveModify(id, side, price, qty)
    BY <1>3
  <2>2. /\ DoneIfReturned("modifications") /\ Enter("modifications") /\ SameSnapshot
        /\ feed = Quiet /\ ModifyOrder(id, side, price, qty)
    BY <2>1 DEF ReceiveModify, Ready
  <2>3. call' # Idle => TradesSoFar' = <<>>
    BY <2>2 DEF ModifyOrder, TradesSoFar
  <2> QED BY <2>2, <2>3, OutcomeBalanced
<1>4. CASE ReceiveTrade
  <2>1. /\ Done("trades", 0) /\ Enter("trades") /\ SameSnapshot /\ feed = Quiet
        /\ call' = call /\ "trades" \in Kinds
    BY <1>4 DEF ReceiveTrade, Ready, vars, Kinds
  <2> QED BY <2>1, DoneAtOnce DEF FeedFrames
<1>5. CASE \E s \in Snapshots : ReceiveSnapshot(s)
  <2>1. PICK s \in Snapshots : ReceiveSnapshot(s)
    BY <1>5
  <2>2. /\ UNCHANGED stats /\ SameSnapshot /\ feed = Quiet /\ feed'.kind = "snapshots"
        /\ feed' = [ kind |-> "snapshots", snapshot |-> s, toCancel |-> feed'.toCancel,
                     levels |-> feed'.levels, nextId |-> feed'.nextId ]
        /\ Enter("snapshots") /\ "snapshots" \in Kinds
    BY <2>1 DEF ReceiveSnapshot, Ready, Kinds
  <2>3. Admissible(feed')
    BY <2>2 DEF FeedInv
  <2>4. feed' \in SnapshotFrame /\ feed' # Quiet
    BY <2>2, <2>3, SnapshotFrames
  <2> QED BY <2>2, <2>4, InHand
<1>6. CASE EngineStep
  BY <1>6, EngineBalanced
<1>7. CASE SnapshotStep
  BY <1>7, SnapshotBalanced
<1>8. CASE ResetMarketDataStats
  <2>1. /\ stats' = Zero /\ ledger' = Zero /\ feed = Quiet /\ feed' = Quiet
        /\ UNCHANGED vars /\ SameSnapshot
    BY <1>8 DEF ResetMarketDataStats
  <2>2. Zero \in [Counters -> 0 .. (CounterMod - 1)] /\ \A c \in Counters : Zero[c] = 0
    BY FeedAssumption DEF Zero
  <2>3. 0 % CounterMod = 0
    BY Wrapping
  <2> QED BY <2>1, <2>2, <2>3 DEF FeedFrames, Balanced, Owed, SameSnapshot, vars
<1>9. CASE UNCHANGED feedVars
  BY <1>9 DEF feedVars, vars, FeedFrames, Balanced, Owed, TradesOwed, TradesSoFar
<1> QED BY <1>1, <1>2, <1>3, <1>4, <1>5, <1>6, <1>7, <1>8, <1>9 DEF FeedNext

\* What holds of a feed at any time.
THEOREM FeedInductive == FeedSpec => [](IInv /\ FeedInv /\ FeedFrames /\ Balanced)
<1>1. FeedInit => IInv /\ FeedInv /\ FeedFrames /\ Balanced
  <2>1. FeedInit => FeedFrames /\ Balanced
    <3>1. /\ Zero \in [Counters -> 0 .. (CounterMod - 1)]
          /\ \A c \in Counters : Zero[c] = 0 /\ 0 % CounterMod = 0
      BY FeedAssumption DEF Zero
    <3>2. FeedInit => /\ stats = Zero /\ isInitialized = FALSE /\ lastSequenceNumber = 0
                      /\ feed = Quiet /\ call = Idle /\ ledger = Zero
      BY DEF FeedInit, Init
    <3>3. FeedInit => FeedFrames
      <4>1. 0 \in Nat /\ FALSE \in BOOLEAN
        OBVIOUS
      <4> QED BY <3>1, <3>2, <4>1, Zenon DEF FeedFrames
    <3>4. FeedInit => Balanced
      <4>1. \A c \in Counters : (Zero[c] + 0) % CounterMod = Zero[c]
        BY <3>1
      <4> QED BY <3>2, <4>1, Zenon DEF Balanced, Owed
    <3> QED BY <3>3, <3>4
  <2> QED BY <2>1, InitOK DEF FeedInit, FeedInv, Quiet
<1>2. IInv /\ FeedInv /\ FeedFrames /\ Balanced /\ [FeedNext]_feedVars
        => IInv' /\ FeedInv' /\ FeedFrames' /\ Balanced'
  BY FeedStepsEngine, NextKeeps, FeedBalances
<1> QED BY <1>1, <1>2, PTL DEF FeedSpec

\* The feed and the engine work on the same message, and the counters keep their
\* width.
THEOREM FeedTypeCorrect == FeedSpec => []FeedTypeOK
<1>1. FeedFrames /\ TypeOK => FeedTypeOK
  BY DEF FeedFrames, FeedTypeOK
<1>2. FeedSpec => []TypeOK
  BY FeedImplementsEngine, TypeCorrect, PTL DEF FeedDrivesEngine
<1> QED BY <1>1, <1>2, FeedInductive, PTL

\* Between messages the statistics are what has come: each message once as processed
\* and once as what it is, the one that met an exhausted pool as an error, and the
\* trades of new orders, whatever the calls of the messages did (301-324, 353, 512).
THEOREM MessagesCounted == FeedSpec => []EveryMessageCounted
<1>1. FeedFrames /\ Balanced => EveryMessageCounted
  <2> SUFFICES ASSUME FeedFrames, Balanced, feed = Quiet
               PROVE  stats = ledger
    BY DEF EveryMessageCounted
  <2>1. /\ stats \in [Counters -> 0 .. (CounterMod - 1)]
        /\ ledger \in [Counters -> 0 .. (CounterMod - 1)]
    BY DEF FeedFrames
  <2>2. \A c \in Counters : ledger[c] = stats[c]
    BY NothingOwed
  <2> QED BY <2>1, <2>2
<1> QED BY <1>1, FeedInductive, PTL

=============================================================================
