------------------------------- MODULE MCClient -------------------------------
(* An instance of the polling client for TLC. *)
EXTENDS LiveMarketData

CONSTANTS s1, s2, s3, s4

MCIntMin == -1

MCRules == {[tickSize |-> 1, lotSize |-> 1, minQuantity |-> 1,
             maxQuantity |-> 2, minNotional |-> 0]}

Gtc       == {"GoodTillCancel"}
Synthetic == <<s1, s2, s3, s4>>

\* Two units to a cent; 6 should be 3 cents and reads as 2, 12 overflows.
MCShort == {6}

Raw(price, qty) == [price |-> price, quantity |-> qty]
BookBody(bids, asks, id) == [kind |-> "book", bids |-> bids, asks |-> asks, lastUpdateId |-> id]

\* An orderly response; bids that collapse into one cent; a bid and an ask that
\* do, by truncation and by a short product; asks out of range; prices that
\* truncate to zero, one from below, and a quantity that does; quantities above
\* the rules and above the width; nothing at all.
MCBooks ==
    { BookBody(<<Raw(4, 2), Raw(2, 4)>>, <<Raw(7, 4), Raw(8, 2)>>, 1),
      BookBody(<<Raw(3, 2), Raw(2, 2)>>, <<Raw(5, 2)>>, 2),
      BookBody(<<Raw(4, 2)>>, <<Raw(5, 4)>>, 1),
      BookBody(<<Raw(4, 4), Raw(3, 2)>>, <<Raw(6, 2)>>, 2),
      BookBody(<<Raw(9, 4), Raw(8, 4)>>, <<Raw(12, 2), Raw(13, 4)>>, 1),
      BookBody(<<Raw(1, 2), Raw(2, 1)>>, <<Raw(-1, 2), Raw(4, 2)>>, 2),
      BookBody(<<Raw(2, 16), Raw(2, 18)>>, <<Raw(4, 8)>>, 1),
      BookBody(<<>>, <<>>, 2) }

MCBodies    == MCBooks \cup {[kind |-> "empty"], [kind |-> "malformed"]}
MCSnapshots == {ParseBinanceSnapshot(body) : body \in MCBooks}

=============================================================================
