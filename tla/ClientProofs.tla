----------------------------- MODULE ClientProofs -----------------------------
(***************************************************************************)
(* The polling client uses its feed through snapshots only, so the invariants *)
(* of the feed and of the engine hold of its book; and what it prints is not *)
(* crossed, unless an exchange bids the greatest price an int can hold.      *)
(***************************************************************************)
EXTENDS LiveMarketData, FeedProofs

\* No response bids INT_MAX cents: to the engine that is a market order.
NoTopBid ==
    \A body \in Bodies : body.kind = "book" =>
        \A k \in DOMAIN body.bids : ToPrice(body.bids[k].price) # INT_MAX

\* The body in hand is one that a request has brought.
BodyInv == client \in [pc : {"fetch", "parse", "process", "sleep"}, body : Bodies \cup {NoBody}]

\* The feed is at work only while the client is in ProcessSnapshot, and the
\* engine only matches, because the orders of a snapshot are GoodTillCancel.
WorkInv ==
    /\ client.pc # "process" => feed = Quiet
    /\ feed = Quiet \/ feed.kind = "snapshots"
    /\ call.pc \in {"idle", "match"}

NoTop(levels) == \A k \in DOMAIN levels : levels[k].side = "Buy" => levels[k].price # INT_MAX

\* No bid at rest or to come is at INT_MAX, and between the calls of
\* ProcessSnapshot the book is not crossed.
TopInv ==
    /\ feed # Quiet => NoTop(feed.levels)
    /\ \A i \in Live(book) : book.pool[i].side = "Buy" => book.pool[i].price # INT_MAX
    /\ CalmInv

-----------------------------------------------------------------------------
(* The client is one more user of the feed.                                 *)

\* Each of its steps is a step of the feed or none.
LEMMA ClientStepsFeed ==
    ASSUME BodyInv, [ClientNext]_clientVars
    PROVE  [FeedNext]_feedVars /\ BodyInv'
<1>1. CASE Process
  <2>1. client.body \in Bodies
    BY <1>1 DEF Process, BodyInv, NoBody
  <2>2. ParseBinanceSnapshot(client.body) \in Snapshots
    BY <1>1, <2>1, ClientAssumption DEF Process
  <2> QED BY <1>1, <2>2 DEF Process, FeedNext, GoTo, BodyInv
<1>2. CASE ProcessStep
  BY <1>2 DEF ProcessStep, FeedNext, BodyInv
<1>3. CASE Fetch
  <2>1. PICK body \in Bodies :
          client' = [pc |-> IF body.kind = "empty" THEN "sleep" ELSE "parse", body |-> body]
    BY <1>3 DEF Fetch, FetchBinanceOrderbook
  <2> QED BY <1>3, <2>1 DEF Fetch, BodyInv
<1>4. CASE ParseFails \/ PrintOrderbook \/ Wake
  BY <1>4 DEF ParseFails, PrintOrderbook, Wake, GoTo, BodyInv
<1>5. CASE UNCHANGED clientVars
  BY <1>5 DEF clientVars, BodyInv
<1> QED BY <1>1, <1>2, <1>3, <1>4, <1>5 DEF ClientNext

\* A step of ProcessSnapshot goes on with its levels, or is its last one.
LEMMA SnapshotGoesOn ==
    ASSUME FeedFrames, FeedInv, feed.kind = "snapshots", EngineStep \/ SnapshotStep
    PROVE  \/ feed' = Quiet
           \/ /\ feed'.kind = "snapshots"
              /\ feed'.levels \in {feed.levels, Tail(feed.levels)}
              /\ feed'.levels # feed.levels => feed.levels # <<>>
<1>1. feed \in SnapshotFrame
  BY DEF FeedFrames, CallFrame, Quiet
<1>2. CASE EngineStep
  <2>1. feed \notin CallFrame
    BY DEF CallFrame
  <2> QED BY <1>2, <2>1 DEF EngineStep
<1>3. CASE SnapshotCancel
  BY <1>1, <1>3 DEF SnapshotCancel, SnapshotFrame
<1>4. CASE SnapshotSkip
  BY <1>1, <1>4 DEF SnapshotSkip, SnapshotFrame
<1>5. CASE SnapshotAdd
  BY <1>1, <1>5 DEF SnapshotAdd, SnapshotFrame
<1>6. CASE SnapshotEnd
  BY <1>6 DEF SnapshotEnd, Done
<1> QED BY <1>2, <1>3, <1>4, <1>5, <1>6 DEF SnapshotStep

\* A step of the engine under a snapshot: a GoodTillCancel order comes, matches
\* go on, or orders leave.
LEMMA SnapshotWork ==
    ASSUME IInv, FeedInv, FeedFrames, feed.kind = "snapshots", call.pc \in {"idle", "match"},
           EngineStep \/ SnapshotStep
    PROVE  /\ call'.pc \in {"idle", "match"}
           /\ \/ Left
              \/ \E i, id, qty : /\ feed.levels # <<>>
                                 /\ Came(i, "GoodTillCancel", id, Head(feed.levels).side,
                                         Head(feed.levels).price, qty)
<1>1. ASSUME book' = book
      PROVE  Left
  BY <1>1 DEF Left
<1>2. Idle.pc = "idle"
  BY DEF Idle
<1>3. CASE EngineStep
  <2>1. MatchStep \/ MatchEnd
    <3>1. Continue
      BY <1>3 DEF EngineStep
    <3> QED BY <3>1 DEF Continue, CollectLevel, CollectOrder, Kill, CollectEnd, ExecuteStep,
            ExecuteEnd, ReAdd, CancelNext, CancelAllEnd
  <2>2. call'.pc \in {"idle", "match"}
    <3>1. CASE MatchStep
      <4>1. PICK bp, ap, x, y, q : MatchEffect(bp, ap, x, y, q)
        BY <3>1, MatchStepEffect
      <4> QED BY <4>1 DEF MatchEffect
    <3>2. CASE MatchEnd
      BY <1>2, <3>2 DEF MatchEnd, Return
    <3> QED BY <2>1, <3>1, <3>2
  <2>3. Next /\ call # Idle /\ call.pc # "readd"
    BY <1>2, <2>1 DEF Next, Continue, MatchStep, MatchEnd
  <2>4. ASSUME NEW i, NEW type, NEW id, NEW side, NEW price, NEW qty,
               Came(i, type, id, side, price, qty)
        PROVE  FALSE
    BY <2>3, <2>4 DEF Came, Adding
  <2> QED BY <2>2, <2>3, <2>4, RestingStep
<1>4. CASE SnapshotCancel
  <2>1. PICK id \in feed.toCancel : CancelOrder(id)
    BY <1>4 DEF SnapshotCancel
  <2>2. id \in OrderId
    BY <2>1 DEF FeedInv, Admissible
  <2>3. Next /\ call'.pc = "idle"
    BY <1>2, <2>1, <2>2 DEF Next, PublicCall, CancelOrder
  <2> QED BY <2>3, RestingStep DEF Came
<1>5. CASE SnapshotSkip \/ SnapshotEnd
  <2>1. call' = call /\ book' = book
    BY <1>5 DEF SnapshotSkip, SnapshotEnd, vars
  <2> QED BY <1>1, <2>1
<1>6. CASE SnapshotAdd
  <2> DEFINE level == Head(feed.levels)
             id    == SyntheticIds[feed.nextId]
  <2>1. /\ feed.levels # <<>> /\ level.quantity > 0
        /\ AddOrder("GoodTillCancel", id, level.side, level.price, level.quantity)
    BY <1>6 DEF SnapshotAdd
  <2>2. level \in SnapshotLevel /\ id \in OrderId
    BY <2>1, LevelIsAdmissible DEF FeedInv
  <2>3. /\ level.side \in Side /\ level.price \in LimitPrices /\ level.quantity \in AddQuantities
        /\ "GoodTillCancel" \in AddTypes /\ "GoodTillCancel" \in OrderType
        /\ level.price \in Price /\ level.quantity \in Quantity
    BY <2>1, <2>2, FeedAssumption, BookAssumption DEF SnapshotLevel
  <2> HIDE DEF level, id
  <2>4. Adding("GoodTillCancel", id, level.side, level.price, level.quantity)
    BY <2>1, <2>3 DEF Adding, AddOrder
  <2>5. GoodBook(book, {})
    <3>1. call.pc = "idle"
      BY <1>2, <2>1 DEF AddOrder
    <3> QED BY <3>1, PlainState DEF IInv
  <2>6. Left \/ \E i : Came(i, "GoodTillCancel", id, level.side, level.price, level.quantity)
    BY <2>2, <2>3, <2>4, <2>5, AddOrderComes
  <2>7. call'.pc \in {"idle", "match"}
    BY <1>2, <2>2, <2>3, <2>4, <2>5, AddOrderCases DEF Adding
  <2> QED BY <2>1, <2>6, <2>7 DEF level
<1> QED BY <1>3, <1>4, <1>5, <1>6 DEF SnapshotStep

\* A step of the client keeps the engine matching and its bids limits.
LEMMA ClientStepKeeps ==
    ASSUME NoTopBid, IInv, FeedInv, FeedFrames, BodyInv, WorkInv, TopInv,
           [ClientNext]_clientVars
    PROVE  WorkInv' /\ TopInv'
<1>1. NoMarketPair(book)
  BY DEF TopInv, NoMarketPair
<1>2. [Next]_vars
  BY ClientStepsFeed, FeedStepsEngine
<1>3. CalmInv'
  BY <1>1, <1>2, NextCalm DEF TopInv
<1>4. CASE Process
  <2> DEFINE s == ParseBinanceSnapshot(client.body)
  <2>1. ReceiveSnapshot(s) /\ client'.pc = "process"
    BY <1>4 DEF Process, GoTo, BodyInv
  <2>2. /\ feed'.kind = "snapshots" /\ call' = call /\ book' = book
        /\ feed'.levels = Sided("Buy", s.bids) \o Sided("Sell", s.asks)
    BY <2>1 DEF ReceiveSnapshot, vars
  <2>3. client.body \in Bodies /\ client.body.kind = "book"
    BY <1>4 DEF Process, BodyInv, NoBody
  <2>4. s \in Snapshots
    BY <2>3, ClientAssumption
  <2>5. \A k \in DOMAIN s.bids : s.bids[k].price # INT_MAX
    BY <2>3 DEF NoTopBid, ParseBinanceSnapshot, ToLevels
  <2> HIDE DEF s
  <2>6. NoTop(feed'.levels)
    <3> DEFINE bids == Sided("Buy", s.bids)
               asks == Sided("Sell", s.asks)
    <3>1. bids \in Seq(SnapshotLevel) /\ asks \in Seq(SnapshotLevel)
      BY <2>4, SidedLevels DEF Side
    <3>2. \A k \in DOMAIN bids : bids[k].price # INT_MAX
      BY <2>5 DEF Sided
    <3>3. \A k \in DOMAIN asks : asks[k].side # "Buy"
      BY DEF Sided
    <3> HIDE DEF bids, asks
    <3>4. \A k \in DOMAIN (bids \o asks) :
             \/ k \in DOMAIN bids /\ (bids \o asks)[k] = bids[k]
             \/ k - Len(bids) \in DOMAIN asks /\ (bids \o asks)[k] = asks[k - Len(bids)]
      BY <3>1
    <3>5. NoTop(bids \o asks)
      BY <3>2, <3>3, <3>4 DEF NoTop
    <3> QED BY <2>2, <3>5 DEF bids, asks
  <2> QED BY <1>3, <2>1, <2>2, <2>6 DEF WorkInv, TopInv
<1>5. CASE ProcessStep
  <2>1. (EngineStep \/ SnapshotStep) /\ client' = client /\ client.pc = "process"
    BY <1>5 DEF ProcessStep, At
  <2>2. feed.kind = "snapshots"
    <3>1. feed = Quiet => call = Idle /\ feed.kind = "none"
      BY DEF FeedFrames, Quiet
    <3>2. EngineStep => call # Idle
      <4>1. Idle.pc = "idle"
        BY DEF Idle
      <4> QED BY <4>1 DEF EngineStep, Continue, MatchStep, MatchEnd, CollectLevel, CollectOrder,
              Kill, CollectEnd, ExecuteStep, ExecuteEnd, ReAdd, CancelNext, CancelAllEnd
    <3>3. SnapshotStep => feed.kind = "snapshots"
      BY DEF SnapshotStep, SnapshotCancel, SnapshotSkip, SnapshotAdd, SnapshotEnd, InSnapshot
    <3> QED BY <2>1, <3>1, <3>2, <3>3 DEF WorkInv
  <2>3. /\ call'.pc \in {"idle", "match"}
        /\ \/ Left
           \/ \E i, id, qty : /\ feed.levels # <<>>
                              /\ Came(i, "GoodTillCancel", id, Head(feed.levels).side,
                                      Head(feed.levels).price, qty)
    BY <2>1, <2>2, SnapshotWork DEF WorkInv
  <2>4. \/ feed' = Quiet
        \/ /\ feed'.kind = "snapshots"
           /\ feed'.levels \in {feed.levels, Tail(feed.levels)}
           /\ feed'.levels # feed.levels => feed.levels # <<>>
    BY <2>1, <2>2, SnapshotGoesOn
  <2>5. feed.levels \in Seq(SnapshotLevel) /\ NoTop(feed.levels)
    <3>1. feed # Quiet
      BY <2>2 DEF Quiet
    <3> QED BY <2>2, <3>1 DEF FeedInv, Admissible, TopInv
  <2>6. feed.levels # <<>> => NoTop(Tail(feed.levels))
    <3>1. feed.levels # <<>> => \A k \in DOMAIN Tail(feed.levels) :
             k + 1 \in DOMAIN feed.levels /\ Tail(feed.levels)[k] = feed.levels[k + 1]
      BY <2>5
    <3> QED BY <2>5, <3>1 DEF NoTop
  <2>7. feed' # Quiet => NoTop(feed'.levels)
    BY <2>4, <2>5, <2>6
  <2>8. \A i \in Live(book') : book'.pool[i].side = "Buy" => book'.pool[i].price # INT_MAX
    <3>1. CASE Left
      BY <3>1 DEF Left, TopInv
    <3>2. ASSUME NEW i, NEW id, NEW qty, feed.levels # <<>>,
                 Came(i, "GoodTillCancel", id, Head(feed.levels).side,
                      Head(feed.levels).price, qty)
          PROVE  \A j \in Live(book') : book'.pool[j].side = "Buy" => book'.pool[j].price # INT_MAX
      <4>1. 1 \in DOMAIN feed.levels /\ Head(feed.levels) = feed.levels[1]
        BY <2>5, <3>2
      <4>2. Head(feed.levels).side = "Buy" => Head(feed.levels).price # INT_MAX
        BY <2>5, <4>1 DEF NoTop
      <4> QED BY <3>2, <4>2 DEF Came, LimitPrice, TopInv
    <3> QED BY <2>3, <3>1, <3>2
  <2> QED BY <1>3, <2>1, <2>3, <2>4, <2>7, <2>8 DEF WorkInv, TopInv
<1>6. CASE Fetch \/ ParseFails \/ PrintOrderbook \/ Wake
  <2>1. UNCHANGED feedVars /\ feed = Quiet
    BY <1>6 DEF Fetch, ParseFails, PrintOrderbook, Wake, At, WorkInv
  <2> QED BY <1>3, <2>1 DEF feedVars, vars, WorkInv, TopInv
<1>7. CASE UNCHANGED clientVars
  BY <1>3, <1>7 DEF clientVars, feedVars, vars, WorkInv, TopInv
<1> QED BY <1>4, <1>5, <1>6, <1>7 DEF ClientNext

-----------------------------------------------------------------------------

\* The levels that GetOrderInfos lists are the prices of orders at rest.
LEMMA InfosRest ==
    ASSUME IInv, call = Idle, NEW side \in Side, NEW level \in GetOrderInfos(book, side)
    PROVE  \E i \in Live(book) : book.pool[i].side = side /\ book.pool[i].price = level.price
<1>1. GoodBook(book, {})
  <2>1. call.pc = "idle"
    BY DEF Idle
  <2> QED BY <2>1, PlainState DEF IInv
<1>2. level.price \in DOMAIN book.levels[side]
  BY DEF GetOrderInfos
<1>3. PICK i \in Members(book, side, level.price) : TRUE
  BY <1>1, <1>2, LevelsAreOccupied
<1> QED BY <1>3 DEF Members

\* A screen is printed between two calls of the engine, and nothing crosses then.
LEMMA ScreenStep ==
    ASSUME IInv, FeedFrames, TopInv, ScreenNeverCrossed, [ClientNext]_clientVars
    PROVE  ScreenNeverCrossed'
<1>1. CASE PrintOrderbook
  <2>1. /\ screen'.bids \subseteq GetOrderInfos(book, "Buy")
        /\ screen'.asks \subseteq GetOrderInfos(book, "Sell")
    BY <1>1 DEF PrintOrderbook, FirstLevels
  <2>2. call = Idle
    BY <1>1 DEF PrintOrderbook, FeedFrames
  <2>3. Uncrossed(book)
    <3>1. call.pc = "idle"
      BY <2>2 DEF Idle
    <3> QED BY <3>1 DEF TopInv, CalmInv
  <2>4. ASSUME NEW bid \in screen'.bids, NEW ask \in screen'.asks
        PROVE  bid.price < ask.price
    <3>1. PICK i \in Live(book) : book.pool[i].side = "Buy" /\ book.pool[i].price = bid.price
      BY <2>1, <2>2, <2>4, InfosRest DEF Side
    <3>2. PICK j \in Live(book) : book.pool[j].side = "Sell" /\ book.pool[j].price = ask.price
      BY <2>1, <2>2, <2>4, InfosRest DEF Side
    <3> QED BY <2>3, <3>1, <3>2 DEF Uncrossed
  <2> QED BY <2>4 DEF ScreenNeverCrossed
<1>2. CASE screen' = screen
  BY <1>2 DEF ScreenNeverCrossed
<1> QED BY <1>1, <1>2 DEF ClientNext, clientVars, Fetch, ParseFails, Process, ProcessStep, Wake

-----------------------------------------------------------------------------

\* The client is one more user of the feed, so its book is never corrupted and
\* its messages are counted, whatever an exchange answers.
THEOREM ClientKeepsBook ==
    ClientSpec => FeedSpec /\ [](NoLeakNoDoubleFree /\ ListsWellFormed /\ ListsInTimeOrder)
                           /\ PriceTimePriority /\ EveryMessageCounted
<1>1. ClientInit => FeedInit /\ BodyInv
  BY DEF ClientInit, BodyInv
<1>2. BodyInv /\ [ClientNext]_clientVars => BodyInv' /\ [FeedNext]_feedVars
  BY ClientStepsFeed
<1>3. ClientSpec => FeedSpec
  BY <1>1, <1>2, PTL DEF ClientSpec, FeedSpec
<1> QED BY <1>3, FeedKeepsBook, MessagesCounted, PTL

\* What the client prints is never crossed, unless an exchange bids INT_MAX cents
\* (`ToPrice' yields INT_MIN for an ask out of range, and such a bid and such an
\* ask do not trade).
THEOREM ScreenUncrossed ==
    ASSUME NoTopBid
    PROVE  ClientSpec => []ScreenNeverCrossed
<1>1. ClientInit => BodyInv /\ WorkInv /\ TopInv /\ ScreenNeverCrossed
  <2> SUFFICES ASSUME ClientInit
               PROVE  BodyInv /\ WorkInv /\ TopInv /\ ScreenNeverCrossed
    OBVIOUS
  <2>1. BodyInv
    BY DEF ClientInit, BodyInv
  <2>2. WorkInv
    BY DEF ClientInit, FeedInit, Init, WorkInv, Idle
  <2>3. TopInv
    BY DEF ClientInit, FeedInit, Init, TopInv, CalmInv, Uncrossed, Live
  <2>4. ScreenNeverCrossed
    BY DEF ClientInit, ScreenNeverCrossed, NoScreen
  <2> QED BY <2>1, <2>2, <2>3, <2>4
<1>2. IInv /\ FeedInv /\ FeedFrames /\ BodyInv /\ WorkInv /\ TopInv /\ [ClientNext]_clientVars
        => BodyInv' /\ WorkInv' /\ TopInv'
  BY ClientStepsFeed, ClientStepKeeps
<1>3. IInv /\ FeedFrames /\ TopInv /\ ScreenNeverCrossed /\ [ClientNext]_clientVars
        => ScreenNeverCrossed'
  BY ScreenStep
<1>4. ClientSpec => [](IInv /\ FeedInv /\ FeedFrames)
  BY ClientKeepsBook, FeedInductive, PTL
<1> QED BY <1>1, <1>2, <1>3, <1>4, PTL DEF ClientSpec

=============================================================================
