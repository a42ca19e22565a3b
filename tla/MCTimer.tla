------------------------------- MODULE MCTimer -------------------------------
(* An instance of the two threads for TLC. *)
EXTENDS TimerRace, TLC

CONSTANTS o1, o2, o3

Symmetry == Permutations(OrderId)

MCIntMin   == -1
Prices12   == {1, 2}
Quantity12 == {1, 2}
DayTypes   == {"GoodForDay", "FillOrKill"}

MCRules == {[tickSize |-> 1, lotSize |-> 1, minQuantity |-> 1,
             maxQuantity |-> 2, minNotional |-> 0]}

=============================================================================
