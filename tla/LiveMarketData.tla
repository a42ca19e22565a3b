---------------------------- MODULE LiveMarketData ----------------------------
(***************************************************************************)
(* The client of LiveMarketData.cpp: one thread that polls an exchange for a *)
(* snapshot, hands it to the feed of a book of its own, prints the book and  *)
(* sleeps.  `client' is where its loop is and the body it has received.      *)
(*                                                                          *)
(* Decimals come as strings and become numbers of cents through a double.   *)
(* Here a decimal is a number of 1/Scale cents, and Short holds the decimals *)
(* whose double, multiplied by 100, falls just short of a whole number of    *)
(* cents (0.29 * 100 is 28.999999999999996).                                 *)
(***************************************************************************)
EXTENDS MarketDataFeed

CONSTANTS
    Bodies,         \* what a request can bring
    Scale,
    Short,
    DisplayLevels   \* the levels asked for and printed

VARIABLES client, screen

clientVars == <<feedVars, client, screen>>

NoScreen == [bids |-> {}, asks |-> {}, size |-> 0]
NoBody   == [kind |-> "none"]

\* static_cast truncates towards zero.
Truncated(decimal) ==
    LET cents(n) == IF n \in Short THEN n \div Scale - 1 ELSE n \div Scale
    IN  IF decimal < 0 THEN -cents(-decimal) ELSE cents(decimal)

\* Out of the range of int, the conversion is undefined; x86-64 yields INT_MIN.
ToPrice(decimal) == IF Truncated(decimal) \in Price THEN Truncated(decimal) ELSE INT_MIN

\* Out of the range of uint32_t, x86-64 keeps the low half of 64 bits.
ToQuantity(decimal) == Truncated(decimal) % QuantityMod

ToLevels(decimals) ==
    [k \in DOMAIN decimals |-> [ price    |-> ToPrice(decimals[k].price),
                                 quantity |-> ToQuantity(decimals[k].quantity) ]]

ParseBinanceSnapshot(body) ==
    [ bids |-> ToLevels(body.bids), asks |-> ToLevels(body.asks),
      sequenceNumber |-> body.lastUpdateId ]

ASSUME ClientAssumption ==
    /\ Scale \in Nat \ {0}
    /\ DisplayLevels \in Nat
    /\ \A body \in Bodies : body.kind = "book" => ParseBinanceSnapshot(body) \in Snapshots

ClientInit == FeedInit /\ client = [pc |-> "fetch", body |-> NoBody] /\ screen = NoScreen

At(pc)    == client.pc = pc
GoTo(pc)  == client' = [client EXCEPT !.pc = pc]

\* A request that fails has no body, and one that is cut short a malformed one.
FetchBinanceOrderbook == Bodies

Fetch ==
    /\ At("fetch")
    /\ \E body \in FetchBinanceOrderbook :
         client' = [pc |-> IF body.kind = "empty" THEN "sleep" ELSE "parse", body |-> body]
    /\ UNCHANGED <<feedVars, screen>>

\* nlohmann::json and std::stod throw before the book has been touched.
ParseFails ==
    /\ At("parse") /\ client.body.kind = "malformed"
    /\ GoTo("sleep")
    /\ UNCHANGED <<feedVars, screen>>

Process ==
    /\ At("parse") /\ client.body.kind = "book"
    /\ ReceiveSnapshot(ParseBinanceSnapshot(client.body))
    /\ GoTo("process")
    /\ UNCHANGED screen

ProcessStep ==
    /\ At("process")
    /\ EngineStep \/ SnapshotStep
    /\ UNCHANGED <<client, screen>>

\* The first levels of a side, from the best one.
FirstLevels(side, infos) ==
    {level \in infos :
        Cardinality({other \in infos : Better(side, other.price, level.price)}) < DisplayLevels}

\* The asks are listed as the bids are, from the highest price.
MutantPrintAlike ==
    /\ At("process") /\ feed = Quiet
    /\ screen' = [ bids |-> FirstLevels("Buy", GetOrderInfos(book, "Buy")),
                   asks |-> FirstLevels("Buy", GetOrderInfos(book, "Sell")),
                   size |-> Cardinality(DOMAIN book.orderMap) ]
    /\ GoTo("sleep")
    /\ UNCHANGED feedVars

PrintOrderbook ==
    /\ At("process") /\ feed = Quiet
    /\ screen' = [ bids |-> FirstLevels("Buy", GetOrderInfos(book, "Buy")),
                   asks |-> FirstLevels("Sell", GetOrderInfos(book, "Sell")),
                   size |-> Cardinality(DOMAIN book.orderMap) ]
    /\ GoTo("sleep")
    /\ UNCHANGED feedVars

Wake == At("sleep") /\ GoTo("fetch") /\ UNCHANGED <<feedVars, screen>>

ClientNext == Fetch \/ ParseFails \/ Process \/ ProcessStep \/ PrintOrderbook \/ Wake

\* The thread runs, sleep_for ends, and a request ends after CURLOPT_TIMEOUT.
ClientSpec == ClientInit /\ [][ClientNext]_clientVars /\ WF_clientVars(ClientNext)

-----------------------------------------------------------------------------
(* Properties.                                                               *)

\* What the decimals of a side can put at a price: those of that cent, and those
\* of the next one that fall short of it.
Offered(decimals, price) ==
    MapThenSumSet(LAMBDA k : decimals[k].quantity,
                  {k \in DOMAIN decimals :
                      \/ decimals[k].price \in price * Scale .. (price + 1) * Scale
                      \/ IsSentinel(price)})

NoMoreThan(levels, decimals) ==
    \A level \in levels : level.quantity * Scale <= Offered(decimals, level.price)

\* The screen shows the response that was just processed and nothing older: no
\* more at a price than its decimals hold there, however they collide, overflow or
\* trade with one another; and all of an orderly response, as it was converted,
\* from the best level, after any number of polls that failed or were refused.
ScreenIsResponse ==
    [][At("process") /\ client'.pc = "sleep" =>
         LET s == ParseBinanceSnapshot(client.body)
         IN  /\ NoMoreThan(screen'.bids, client.body.bids)
             /\ NoMoreThan(screen'.asks, client.body.asks)
             /\ Orderly(s) =>
                  /\ screen'.bids = FirstLevels("Buy", DepthOf(s.bids))
                  /\ screen'.asks = FirstLevels("Sell", DepthOf(s.asks))]_clientVars

\* The best bid printed is below the best ask printed, so that the spread (140)
\* is positive: a bid and an ask that the conversion takes to one cent have
\* traded before they could be shown.
ScreenNeverCrossed ==
    \A bid \in screen.bids, ask \in screen.asks : bid.price < ask.price

\* The next poll is always made, whatever the last one brought (199-228): an
\* empty body, an error of the parser, a snapshot with nothing to add, and the
\* loops of ProcessSnapshot and MatchOrders included.
KeepsPolling == []<>At("fetch")

=============================================================================
