--------------------------- MODULE OrderbookTotals ---------------------------
(***************************************************************************)
(* The properties of the matching engine that speak of sums over orders and *)
(* of whole queues.                                                         *)
(***************************************************************************)
EXTENDS OrderbookSafety, FiniteSetsExt, SequencesExt

TrueTotal(side, price) ==
    MapThenSumSet(LAMBDA i : book.pool[i].quantity, Resting(side, price))

\* totalQty is the sum of the quantities of the level's orders, modulo the
\* width of Quantity, although it is maintained by increments and decrements
\* spread over DllAppend, DllRemove, MatchOrders, ExecuteFOK and ModifyOrder.
TotalsInSync ==
    \A side \in Side : \A p \in DOMAIN book.levels[side] :
        book.levels[side][p].totalQty = TrueTotal(side, p) % QuantityMod

\* GetOrderInfos reports the depth of every level that has something to trade
\* ("totalQty is kept in sync", 65): no level is hidden or reported short.
DepthIsTrue ==
    \A side \in Side :
        GetOrderInfos(book, side) =
            {[price |-> p, quantity |-> TrueTotal(side, p)] :
                p \in {q \in DOMAIN book.levels[side] : TrueTotal(side, q) > 0}}

\* While CollectFOK scans, what is left to find and what has been found make up
\* the order; while ExecuteFOK replays, what is left to replay is what is left
\* of the order.  (The code adds up the matches in a Quantity, line 404.)
FillOrKillBalanced ==
    LET collected == FoldSeq(LAMBDA m, sum : m.qty + sum, 0, call.matches)
    IN  /\ call.pc = "collect" => Aggressor.quantity = call.remaining + collected
        /\ call.pc = "execute" => Aggressor.quantity = collected

\* The ids of a level from head to tail, by following the links, and then
\* NoOrder up to the size of the pool.
Queue(b, lvl) ==
    LET slot[n \in 1 .. PoolSize] ==
            IF n = 1 THEN lvl.head
            ELSE IF slot[n - 1] = NULL_IDX THEN NULL_IDX ELSE b.pool[slot[n - 1]].next
    IN  [n \in 1 .. PoolSize |->
            IF slot[n] = NULL_IDX THEN NoOrder ELSE b.pool[slot[n]].orderId]

\* No order overtakes another: two orders that stay in one queue stay in the
\* same order there, "quantity-only modify: update in place, preserve time
\* priority" (442) included; an order that changes price goes to the back.
NoOvertaking ==
    [][\A side \in Side :
       \A price \in DOMAIN book.levels[side] \cap DOMAIN book'.levels[side] :
         LET before == Queue(book, book.levels[side][price])
             after  == Queue(book', book'.levels[side][price])
         IN  before # after =>
             \A m, n, k, l \in 1 .. PoolSize :
                 /\ m < n /\ before[n] # NoOrder
                 /\ after[k] = before[m] /\ after[l] = before[n]
                 => k < l]_vars

=============================================================================
