---------------------------- MODULE MarketDataFeed ----------------------------
(***************************************************************************)
(* The feed handlers of Orderbook.h (299-354, 496-528): a message becomes    *)
(* calls of the engine, and the statistics count it.  `feed' is the message  *)
(* in hand; ProcessMarketData is a Receive... action, the steps of the calls *)
(* it makes, and Done, in the same step as the last of them.  A batch is one *)
(* message after another, and reports as many as it was given, because no    *)
(* handler throws.                                                           *)
(***************************************************************************)
EXTENDS Orderbook, FiniteSetsExt

CONSTANTS
    FeedIds,        \* the ids in messages
    SyntheticIds,   \* 0x8000000000000000 and on: the ids given to snapshot levels
    Snapshots,      \* the snapshots in messages
    CounterMod,     \* 2^64: the counters are std::uint64_t
    MaxMessages     \* messages until ResetMarketDataStats is called

VARIABLES
    stats, isInitialized, lastSequenceNumber, feed,
    ledger      \* auxiliary: what has come since the last reset, kept apart from stats

feedVars == <<vars, stats, isInitialized, lastSequenceNumber, feed, ledger>>

Level    == [price : Price, quantity : Quantity]
Snapshot == [bids : Seq(Level), asks : Seq(Level), sequenceNumber : Nat]

ASSUME FeedAssumption ==
    /\ FeedIds \subseteq OrderId
    /\ SyntheticIds \in Seq(OrderId)
    /\ \A s \in Snapshots : s \in Snapshot /\ Len(s.bids) + Len(s.asks) <= Len(SyntheticIds)
    /\ "GoodTillCancel" \in AddTypes
    /\ \A s \in Snapshots : \A side \in {s.bids, s.asks} : \A k \in DOMAIN side :
         side[k].price \in LimitPrices /\ side[k].quantity \in AddQuantities \cup {0}
    /\ CounterMod \in Nat /\ CounterMod > 1
    /\ MaxMessages \in Nat

Counters == {"messagesProcessed", "newOrders", "cancellations", "modifications",
             "trades", "snapshots", "errors"}

Quiet == [kind |-> "none"]

CallFrame     == [kind : {"newOrders", "modifications"}]
SnapshotFrame == [ kind     : {"snapshots"},
                   snapshot : Snapshots,
                   toCancel : SUBSET OrderId,
                   levels   : Seq([side : Side, price : Price, quantity : Quantity]),
                   nextId   : 1 .. Len(SyntheticIds) + 1 ]

Zero == [c \in Counters |-> 0]

FeedInit ==
    /\ Init
    /\ stats = Zero
    /\ isInitialized = FALSE
    /\ lastSequenceNumber = 0
    /\ feed = Quiet
    /\ ledger = Zero

-----------------------------------------------------------------------------
(* The ledger: a message is entered when it comes, under what it has to      *)
(* count as, and a trade when it is made.  No action reads it.               *)

Enter(kind) ==
    ledger' = [ledger EXCEPT ![kind]                = (@ + 1) % CounterMod,
                             !["messagesProcessed"] = (@ + 1) % CounterMod]

\* A new order that finds no slot is an error, one that is refused is not.
Outcome(type, id, side, price, qty) ==
    IF ~Rejected(type, id, side, price, qty) /\ PoolExhausted THEN "errors" ELSE "newOrders"

\* The trades of a new order count, when they are made.
EnterTrade ==
    ledger' = IF feed.kind = "newOrders" /\ Len(TradesSoFar') > Len(TradesSoFar)
              THEN [ledger EXCEPT !["trades"] = (@ + 1) % CounterMod]
              ELSE ledger

-----------------------------------------------------------------------------

\* The message is counted under its kind, and as processed.
Count(kind, trades) ==
    stats' = [c \in Counters |->
                (stats[c] + (IF c \in {kind, "messagesProcessed"} THEN 1 ELSE 0)
                          + (IF c = "trades" THEN trades ELSE 0)) % CounterMod]

Done(kind, trades) == feed' = Quiet /\ Count(kind, trades)

Ready == feed = Quiet /\ stats["messagesProcessed"] < MaxMessages

SameSnapshot == UNCHANGED <<isInitialized, lastSequenceNumber>>

\* The message is done with before its call is.
MutantDoneAtOnce(kind) == Done(kind, 0)

\* A call that has not returned in its first step goes on in EngineStep.
DoneIfReturned(kind) ==
    IF call' = Idle THEN Done(kind, 0) ELSE feed' = [kind |-> kind] /\ UNCHANGED stats

\* A failed message is counted twice over.
MutantOutcomeAlways(type, id, side, price, qty) ==
    IF ~Rejected(type, id, side, price, qty) /\ PoolExhausted
    THEN feed' = Quiet /\ stats' = [c \in Counters |->
            IF c \in {"newOrders", "errors", "messagesProcessed"}
            THEN (stats[c] + 1) % CounterMod ELSE stats[c]]
    ELSE DoneIfReturned("newOrders")

\* Alloc throws in AddOrder, and ProcessNewOrder catches it.
NewOrderOutcome(type, id, side, price, qty) ==
    IF ~Rejected(type, id, side, price, qty) /\ PoolExhausted
    THEN Done("errors", 0)
    ELSE DoneIfReturned("newOrders")

ReceiveNewOrder(type, id, side, price, qty) ==
    /\ Ready
    /\ AddOrder(type, id, side, price, qty)
    /\ NewOrderOutcome(type, id, side, price, qty)
    /\ Enter(Outcome(type, id, side, price, qty))
    /\ SameSnapshot

ReceiveCancel(id) ==
    /\ Ready
    /\ CancelOrder(id) /\ Done("cancellations", 0) /\ Enter("cancellations")
    /\ SameSnapshot

ReceiveModify(id, side, price, qty) ==
    /\ Ready
    /\ ModifyOrder(id, side, price, qty)
    /\ DoneIfReturned("modifications") /\ Enter("modifications")
    /\ SameSnapshot

ReceiveTrade ==
    Ready /\ Done("trades", 0) /\ Enter("trades") /\ SameSnapshot /\ UNCHANGED vars

\* The trades of a modification are not counted, those of a snapshot neither.
EngineStep ==
    /\ Continue
    /\ IF call' = Idle /\ feed \in CallFrame
       THEN Done(feed.kind, IF feed.kind = "newOrders" THEN Len(TradesSoFar) ELSE 0)
       ELSE UNCHANGED <<feed, stats>>
    /\ EnterTrade
    /\ SameSnapshot

-----------------------------------------------------------------------------
(* ProcessSnapshot: cancel every id, in any order, then add the levels.      *)

Sided(side, levels) ==
    [k \in DOMAIN levels |-> [ side |-> side, price |-> levels[k].price,
                               quantity |-> levels[k].quantity ]]

\* The book is not cleared.
MutantReceiveSnapshotOnTop(s) ==
    /\ Ready
    /\ feed' = [ kind |-> "snapshots", snapshot |-> s, toCancel |-> {},
                 levels |-> Sided("Buy", s.bids) \o Sided("Sell", s.asks), nextId |-> 1 ]
    /\ Enter("snapshots")
    /\ UNCHANGED <<vars, stats>> /\ SameSnapshot

ReceiveSnapshot(s) ==
    /\ Ready
    /\ feed' = [ kind |-> "snapshots", snapshot |-> s, toCancel |-> DOMAIN book.orderMap,
                 levels |-> Sided("Buy", s.bids) \o Sided("Sell", s.asks), nextId |-> 1 ]
    /\ Enter("snapshots")
    /\ UNCHANGED <<vars, stats>> /\ SameSnapshot

InSnapshot == feed.kind = "snapshots" /\ call = Idle

\* The ids are dropped from orderMap_ and the orders are not cancelled.
MutantSnapshotForgets ==
    /\ InSnapshot
    /\ \E id \in feed.toCancel :
         /\ book' = [book EXCEPT !.orderMap = Erase(@, id)]
         /\ feed' = [feed EXCEPT !.toCancel = @ \ {id}]
    /\ UNCHANGED <<call, exchangeRules, stats, ledger>> /\ SameSnapshot

SnapshotCancel ==
    /\ InSnapshot
    /\ \E id \in feed.toCancel :
         /\ CancelOrder(id)
         /\ feed' = [feed EXCEPT !.toCancel = @ \ {id}]
    /\ UNCHANGED <<stats, ledger>> /\ SameSnapshot

\* The loop goes round without going on.
MutantSkipStays ==
    /\ InSnapshot /\ feed.toCancel = {} /\ feed.levels # <<>>
    /\ Head(feed.levels).quantity = 0
    /\ UNCHANGED <<vars, stats, feed, ledger>> /\ SameSnapshot

SnapshotSkip ==
    /\ InSnapshot /\ feed.toCancel = {} /\ feed.levels # <<>>
    /\ Head(feed.levels).quantity = 0
    /\ feed' = [feed EXCEPT !.levels = Tail(@)]
    /\ UNCHANGED <<vars, stats, ledger>> /\ SameSnapshot

\* A level that AddOrder refuses, or throws on, has used up its id.
SnapshotAdd ==
    /\ InSnapshot /\ feed.toCancel = {} /\ feed.levels # <<>>
    /\ LET level == Head(feed.levels)
       IN  /\ level.quantity > 0
           /\ AddOrder("GoodTillCancel", SyntheticIds[feed.nextId],
                       level.side, level.price, level.quantity)
    /\ feed' = [feed EXCEPT !.levels = Tail(@), !.nextId = @ + 1]
    /\ UNCHANGED <<stats, ledger>> /\ SameSnapshot

SnapshotEnd ==
    /\ InSnapshot /\ feed.toCancel = {} /\ feed.levels = <<>>
    /\ isInitialized' = TRUE
    /\ lastSequenceNumber' = feed.snapshot.sequenceNumber
    /\ Done("snapshots", 0)
    /\ UNCHANGED <<vars, ledger>>

ResetMarketDataStats ==
    /\ feed = Quiet
    /\ stats' = Zero /\ ledger' = Zero
    /\ UNCHANGED <<vars, feed>> /\ SameSnapshot

-----------------------------------------------------------------------------

SnapshotStep == SnapshotCancel \/ SnapshotSkip \/ SnapshotAdd \/ SnapshotEnd

FeedNext ==
    \/ \E type \in AddTypes, id \in FeedIds, side \in Side,
          price \in LimitPrices, qty \in AddQuantities :
            ReceiveNewOrder(type, id, side, price, qty)
    \/ \E id \in FeedIds : ReceiveCancel(id)
    \/ \E id \in FeedIds, side \in Side, price \in LimitPrices, qty \in ModifyQuantities :
            ReceiveModify(id, side, price, qty)
    \/ ReceiveTrade
    \/ \E s \in Snapshots : ReceiveSnapshot(s)
    \/ EngineStep \/ SnapshotStep
    \/ ResetMarketDataStats

FeedSpec == FeedInit /\ [][FeedNext]_feedVars

-----------------------------------------------------------------------------
(* Properties.                                                               *)

\* The frames of feed and engine agree: the engine works for the message in
\* hand or not at all, and the counters are numbers of their width.
FeedTypeOK ==
    /\ TypeOK
    /\ stats \in [Counters -> 0 .. (CounterMod - 1)]
    /\ ledger \in [Counters -> 0 .. (CounterMod - 1)]
    /\ isInitialized \in BOOLEAN /\ lastSequenceNumber \in Nat
    /\ feed \in {Quiet} \cup CallFrame \cup SnapshotFrame
    /\ feed = Quiet => call = Idle

\* Every step of the feed is a step of the engine or none: a snapshot clears the
\* book through CancelOrder ("proper DLL cleanup + pool free", 327) and fills it
\* through AddOrder.  What holds of the engine therefore holds under a feed.
FeedDrivesEngine == Spec

\* Between messages the statistics are what has come: each message once as
\* processed and once under its own kind, an exhausted pool as an error and not as
\* a new order, a refused order as a new order, and the trades that new orders made
\* and no others, whatever becomes of the calls of a message (302-307, 353, 512).
EveryMessageCounted == feed = Quiet => stats = ledger

\* The levels of a snapshot that AddOrder takes for valid.
ValidLevels(levels) ==
    {k \in DOMAIN levels : /\ levels[k].quantity > 0
                           /\ IsValidOrder(exchangeRules, levels[k].price, levels[k].quantity)}

\* What the snapshot says of a side: the valid quantity at each price.
DepthOf(levels) ==
    LET priceOf(k) == levels[k].price
        at(p)      == {k \in ValidLevels(levels) : priceOf(k) = p}
    IN  {[price |-> p, quantity |-> MapThenSumSet(LAMBDA k : levels[k].quantity, at(p))] :
            p \in {priceOf(k) : k \in ValidLevels(levels)}}

\* Its sides do not cross, no level is at a price that means "market", and it
\* fits the pool.
Orderly(s) ==
    /\ \A k \in ValidLevels(s.bids), m \in ValidLevels(s.asks) :
         s.bids[k].price < s.asks[m].price
    /\ \A side \in {s.bids, s.asks} : \A k \in DOMAIN side : ~IsSentinel(side[k].price)
    /\ Cardinality(ValidLevels(s.bids)) + Cardinality(ValidLevels(s.asks)) <= PoolSize

\* No more at a price than the snapshot has there.
Within(infos, depth) ==
    \A level \in infos :
        \/ IsSentinel(level.price)
        \/ \E d \in depth : d.price = level.price /\ level.quantity <= d.quantity

\* A snapshot leaves nothing of the book it finds, not even under the ids that the
\* last snapshot used too, and if it is orderly it leaves the book it describes:
\* whatever rested, however full the pool was, and however late or often it comes.
SnapshotReplacesBook ==
    [][feed.kind = "snapshots" /\ feed' = Quiet =>
         LET bids == DepthOf(feed.snapshot.bids)
             asks == DepthOf(feed.snapshot.asks)
         IN  /\ DOMAIN book'.orderMap \subseteq {SyntheticIds[k] : k \in DOMAIN SyntheticIds}
             /\ Within(GetOrderInfos(book', "Buy"), bids)
             /\ Within(GetOrderInfos(book', "Sell"), asks)
             /\ Orderly(feed.snapshot) =>
                  /\ GetOrderInfos(book', "Buy") = bids
                  /\ GetOrderInfos(book', "Sell") = asks]_feedVars

=============================================================================
