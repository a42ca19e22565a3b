-------------------------------- MODULE MCFeed --------------------------------
(* Instances of the market data feed for TLC. *)
EXTENDS MarketDataFeed, TLC

CONSTANTS o1, o2, o3, s1, s2, s3, s4

Symmetry == Permutations(FeedIds)

\* Prices 1 and 2 between the sentinels 3 and -1.
MCIntMin   == -1
Prices12   == {1, 2}
Quantity12 == {1, 2}
FeedTypes  == {"GoodTillCancel", "Market", "FillOrKill"}

MCRules == {[tickSize |-> 1, lotSize |-> 1, minQuantity |-> 1,
             maxQuantity |-> 2, minNotional |-> 0]}

Synthetic == <<s1, s2, s3, s4>>

At(price, qty) == [price |-> price, quantity |-> qty]

\* Two bids at one price, a full pool; a level without quantity; bids and asks
\* that cross; more levels than slots.
MCSnapshots ==
    { [bids |-> <<At(1, 1), At(1, 1)>>, asks |-> <<At(2, 2)>>, sequenceNumber |-> 2],
      [bids |-> <<At(2, 0)>>, asks |-> <<At(2, 1)>>, sequenceNumber |-> 1],
      [bids |-> <<At(2, 1), At(1, 1)>>, asks |-> <<At(1, 2)>>, sequenceNumber |-> 1],
      [bids |-> <<At(1, 1), At(1, 1)>>, asks |-> <<At(2, 1), At(2, 2)>>, sequenceNumber |-> 2] }

=============================================================================
