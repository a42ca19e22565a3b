------------------------- MODULE OrderbookRefinement -------------------------
(***************************************************************************)
(* The matching engine implements PriceTimeBook.  The mapping forgets slots, *)
(* lists, levels and frames.  While ExecuteFOK replays its matches the       *)
(* abstract book already is what the replay will leave: a FillOrKill order   *)
(* takes effect when CollectFOK has found enough, in one abstract step, and   *)
(* the trades of the replay are steps that change nothing.                    *)
(***************************************************************************)
EXTENDS OrderbookTotals

\* What ms, the matches that a replay has left, take from the order in slot i.
Due(ms, i) ==
    LET at == {k \in DOMAIN ms : ms[k].idx = i}
    IN  IF at = {} THEN 0 ELSE ms[CHOOSE k \in at : TRUE].qty

Doomed(b, ms, i) == [idx |-> i, qty |-> b.pool[i].quantity] \in {ms[k] : k \in DOMAIN ms}

Remaining(b, ms) == {id \in DOMAIN b.orderMap : ~Doomed(b, ms, b.orderMap[id])}

\* The orders of the book b, and who came first, when ms will have been replayed.
OrdersOf(b, ms) ==
    [id \in Remaining(b, ms) |->
        LET i == b.orderMap[id]
        IN  [ side     |-> b.pool[i].side,
              price    |-> b.pool[i].price,
              quantity |-> b.pool[i].quantity - Due(ms, i) ]]

BeforeOf(b, ms) ==
    {pair \in Remaining(b, ms) \X Remaining(b, ms) :
        <<b.orderMap[pair[1]], b.orderMap[pair[2]]>> \in b.older}

\* What has traded, and what the replay is going to trade.
VolumeOf(trades, ms) ==
    SumFunction([k \in DOMAIN trades |-> trades[k].quantity])
        + SumFunction([k \in DOMAIN ms |-> ms[k].qty])

Pending == IF call.pc = "execute" THEN call.matches ELSE <<>>

AbstractOrders == OrdersOf(book, Pending)
AbstractBefore == BeforeOf(book, Pending)
AbstractVolume == VolumeOf(TradesSoFar, Pending)

PriceTime == INSTANCE PriceTimeBook
    WITH orders <- AbstractOrders, before <- AbstractBefore, volume <- AbstractVolume

\* Everything the calls do to the orders at rest is a step of the book of
\* price-time priority or nothing at all: "Matches best bid against best ask"
\* (Orderbook.h, 230) in the order of arrival, for as much as the trades say,
\* "preserve time priority" (442), and for FillOrKill "this guarantees
\* atomicity" (167).
ImplementsPriceTimeBook == PriceTime!Spec

=============================================================================
