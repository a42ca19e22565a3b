----------------------------- MODULE MCOrderbook -----------------------------
(* Instances of the matching engine for TLC. *)
EXTENDS OrderbookRefinement

CONSTANTS o1, o2, o3, o4

Symmetry == Permutations(OrderId)

\* Prices 1 and 2 between the sentinels 3 and -1.
MCIntMin == -1
Prices12 == {1, 2}
\* A side still has two levels: this one and the one of market remainders.
Price1   == {1}

\* The defaults of ExchangeRules, with maxQuantity scaled down.
DefaultRules == [tickSize |-> 1, lotSize |-> 1, minQuantity |-> 1,
                 maxQuantity |-> 2, minNotional |-> 0]
\* A coarser grid: price 1 and quantity 1 become invalid.
CoarseRules == SetLotSize(SetTickSize(DefaultRules, 2), 2)
\* A floor on the value of an order: 1 at price 1 is too small.
NotionalRules == [DefaultRules EXCEPT !.minNotional = 2]

\* minQuantity is a public field: 0 lets an order of quantity 0 in.
ZeroMinRules == [DefaultRules EXCEPT !.minQuantity = 0]

OnlyZeroMin == {ZeroMinRules}
OnlyDefault == {DefaultRules}
ThreeRules  == {DefaultRules, CoarseRules, NotionalRules}
Quantity12  == {1, 2}
MarketTypes == {"GoodTillCancel", "ImmediateOrCancel", "Market"}
\* Only 7 is more than maxQuantity, and only with it can a total reach 8.
Quantity17  == {1, 7}
Quantity01  == {0, 1}
Quantity012 == {0, 1, 2}
LimitTypes  == {"GoodTillCancel", "ImmediateOrCancel", "FillOrKill", "GoodForDay"}
AllTypes    == LimitTypes \cup {"Market"}
\* GoodForDay orders rest as GoodTillCancel ones do, which market remainders are.
LoopTypes   == AllTypes \ {"GoodTillCancel"}

=============================================================================
