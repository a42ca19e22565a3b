---------------------------- MODULE PriceTimeBook ----------------------------
(***************************************************************************)
(* What the matching engine promises, with no slots, lists, levels, maps or *)
(* loops: a set of resting orders and who came first.  Orders enter at the  *)
(* back of their queue, leave from anywhere, change quantity in place, and   *)
(* trade from the front only, two at a time or, under a FillOrKill order,    *)
(* any number at once.  Which of this happens when is left open, but what    *)
(* trades is told from what is cancelled or changed by the volume.           *)
(***************************************************************************)
EXTENDS ExchangeRules, Functions

CONSTANT OrderId

VARIABLES
    orders,     \* a function from the ids at rest to their orders
    before,     \* pairs of ids in one queue: the first was there first
    volume      \* the quantity that the call in progress has traded

vars == <<orders, before, volume>>

Order == [side : {"Buy", "Sell"}, price : Price, quantity : Quantity]
Ids   == DOMAIN orders

SameQueue(o, p) == o.side = p.side /\ o.price = p.price

\* The priority of price and time: i trades before j.
Precedes(i, j) ==
    /\ orders[i].side = orders[j].side
    /\ \/ <<i, j>> \in before
       \/ IF orders[i].side = "Buy" THEN orders[i].price > orders[j].price
                                    ELSE orders[i].price < orders[j].price

First(id) == \A other \in Ids : ~Precedes(other, id)

Keep(ids, quantity(_)) ==
    /\ orders' = [id \in ids |-> [orders[id] EXCEPT !.quantity = quantity(id)]]
    /\ before' = {pair \in before : {pair[1], pair[2]} \subseteq ids}

\* Take amount(id) from each of the ids; what has nothing left is gone.
Take(ids, amount(_)) ==
    Keep(Ids \ {id \in ids : amount(id) = orders[id].quantity},
         LAMBDA id : orders[id].quantity - IF id \in ids THEN amount(id) ELSE 0)

Init == orders = [id \in {} |-> 0] /\ before = {} /\ volume = 0

\* A new order, whatever it asks for, is the last of its queue.
Enter(id) ==
    /\ id \notin Ids
    /\ DOMAIN orders' = Ids \cup {id}
    /\ orders'[id] \in Order
    /\ \A i \in Ids : orders'[i] = orders[i]
    /\ before' = before \cup {<<i, id>> : i \in {i \in Ids : SameQueue(orders[i], orders'[id])}}
    /\ volume' = 0

Leave(id) == Keep(Ids \ {id}, LAMBDA i : orders[i].quantity) /\ volume' = 0

Resize(id, qty) ==
    Keep(Ids, LAMBDA i : IF i = id THEN qty ELSE orders[i].quantity) /\ volume' = 0

\* A call returns.
Settle == volume' = 0 /\ UNCHANGED <<orders, before>>

\* The first bid and the first ask trade as much as both have.
Trade(bid, ask) ==
    LET qty == IF orders[bid].quantity < orders[ask].quantity
               THEN orders[bid].quantity ELSE orders[ask].quantity
    IN  /\ orders[bid].side = "Buy" /\ orders[ask].side = "Sell"
        /\ First(bid) /\ First(ask)
        /\ orders[bid].price >= orders[ask].price
        /\ ~(orders[bid].price = INT_MAX /\ orders[ask].price = INT_MIN)
        /\ Take({bid, ask}, LAMBDA id : qty)
        /\ volume' = volume + qty

\* A FillOrKill order takes the front of a side in one step: all that is left
\* of every order before the last one, and part of that one.
Sweep(last, part) ==
    LET swept      == {id \in Ids : id = last \/ Precedes(id, last)}
        amount(id) == IF id = last THEN part ELSE orders[id].quantity
    IN  /\ volume' = SumFunction([id \in swept |-> amount(id)])
        /\ Take(swept, amount)

Next ==
    \/ \E id \in OrderId : Enter(id)
    \/ \E id \in Ids : Leave(id)
    \/ Settle
    \/ \E id \in Ids : \E qty \in Quantity : Resize(id, qty)
    \/ \E bid, ask \in Ids : Trade(bid, ask)
    \/ \E last \in Ids : \E part \in 1 .. orders[last].quantity : Sweep(last, part)

Spec == Init /\ [][Next]_vars

=============================================================================
