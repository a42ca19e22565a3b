------------------------------ MODULE TimerRace ------------------------------
(***************************************************************************)
(* Two threads on one book: the one that trades, and the "external timer     *)
(* thread" that calls CancelGoodForDayOrders (Orderbook.h, 468).  The class  *)
(* takes no lock, so the timer's steps fall between the steps of a call.     *)
(*                                                                          *)
(* Only the mildest interleavings are here: each step of Orderbook, and each *)
(* CancelOrder of the timer, is taken to be atomic, and the timer stays out  *)
(* of MatchOrders and CollectFOK, which hold references into the maps it     *)
(* would erase from.                                                        *)
(***************************************************************************)
EXTENDS Orderbook

VARIABLE timer          \* the frame of the timer's call

raceVars == <<vars, timer>>

RaceInit == Init /\ timer = Idle

TimerMayRun == call.pc \in {"idle", "readd", "execute"}

\* CancelOrder leaves the bytes of the slot as they are, but for the links: here
\* they are not dead, as ExecuteFOK may still hold its index.
CancelledInRace(b, id) ==
    LET i == b.orderMap[id]
    IN  [CancelledBook(b, id) EXCEPT
            !.pool[i] = [b.pool[i] EXCEPT !.prev = NULL_IDX, !.next = NULL_IDX]]

TimerStart ==
    /\ timer = Idle /\ TimerMayRun
    /\ timer' = [ pc |-> "cancelAll",
                  toCancel |-> {id \in DOMAIN book.orderMap :
                      book.pool[book.orderMap[id]].orderType = "GoodForDay"} ]
    /\ UNCHANGED vars

TimerCancel ==
    /\ timer # Idle /\ TimerMayRun
    /\ \E id \in timer.toCancel :
         /\ timer' = [timer EXCEPT !.toCancel = @ \ {id}]
         /\ book' = IF id \in DOMAIN book.orderMap THEN CancelledInRace(book, id) ELSE book
    /\ UNCHANGED <<exchangeRules, call>>

TimerEnd == timer # Idle /\ timer.toCancel = {} /\ timer' = Idle /\ UNCHANGED vars

\* ExecuteFOK is about to fill a match that the timer has cancelled.
NextIsGone ==
    /\ call.pc = "execute" /\ call.matches # <<>>
    /\ Head(call.matches).idx \notin Live(book)

LevelIsGone ==
    LET mo == book.pool[Head(call.matches).idx]
    IN  mo.price \notin DOMAIN book.levels[mo.side]

TradingStep == ~NextIsGone /\ (PublicCall \/ Continue) /\ UNCHANGED timer

\* The .at() of ExecuteFOK does not find the level and throws std::out_of_range
\* out of AddOrder; the slot of the new order is lost.
ExecuteThrows ==
    /\ NextIsGone /\ LevelIsGone
    /\ Return
    /\ UNCHANGED <<book, exchangeRules, timer>>

\* It finds a level that other orders keep, and unlinks from it an order that is
\* not there: the list is broken, and the model ends.
ExecuteBreaksLevel == NextIsGone /\ ~LevelIsGone /\ UNCHANGED raceVars

RaceNext ==
    \/ TradingStep \/ ExecuteThrows \/ ExecuteBreaksLevel
    \/ TimerStart \/ TimerCancel \/ TimerEnd

RaceSpec == RaceInit /\ [][RaceNext]_raceVars

\* "This guarantees atomicity - no partial fills ever occur for FOK" (167): a
\* FillOrKill order that has traded at all has traded all it asked for when its
\* call ends, by return or by exception.
NoPartialFills ==
    [][call.pc = "execute" /\ call' = Idle =>
         call.trades = <<>> \/ Aggressor.quantity = 0]_raceVars

=============================================================================
