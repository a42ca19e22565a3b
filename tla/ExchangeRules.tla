---------------------------- MODULE ExchangeRules ----------------------------
(***************************************************************************)
(* The trading rules of ExchangeRules.h.  A rule set is a value that        *)
(* Orderbook::SetExchangeRules copies into the book; every operator below   *)
(* is a const member function of it and takes it as its first argument.     *)
(***************************************************************************)
EXTENDS Integers

CONSTANTS
    INT_MIN, INT_MAX,   \* numeric_limits<Price>::min() and max()
    QuantityMod         \* 2^32: Quantity is std::uint32_t

ASSUME NumericAssumption ==
    /\ INT_MIN \in Int /\ INT_MIN < 0
    /\ INT_MAX \in Int /\ INT_MAX > 0
    /\ QuantityMod \in Nat \ {0}

Price    == INT_MIN .. INT_MAX
Quantity == 0 .. (QuantityMod - 1)

\* tickSize and lotSize are the divisors of IsValidPrice and IsValidQuantity:
\* SetTickSize and SetLotSize refuse the values that are excluded here.
Rules == [ tickSize    : {t \in Price : t > 0},
           lotSize     : {l \in Quantity : l > 0},
           minQuantity : Quantity,
           maxQuantity : Quantity,
           minNotional : Price ]

\* The checked setters, on a rule set of the caller's; a value that they refuse
\* with std::invalid_argument leaves it as it is.
SetTickSize(r, t) == IF t > 0 THEN [r EXCEPT !.tickSize = t] ELSE r
SetLotSize(r, l)  == IF l > 0 THEN [r EXCEPT !.lotSize = l] ELSE r

IsValidPrice(r, price) == price > 0 /\ price % r.tickSize = 0

IsValidQuantity(r, qty) ==
    /\ r.minQuantity <= qty
    /\ qty <= r.maxQuantity
    /\ qty % r.lotSize = 0

\* The product is taken in int64_t, which it cannot overflow.
IsValidNotional(r, price, qty) == price * qty >= r.minNotional

IsValidOrder(r, price, qty) ==
    IsValidPrice(r, price) /\ IsValidQuantity(r, qty) /\ IsValidNotional(r, price, qty)

\* The division of TLA+ rounds down.
MutantFloor(n, grid) == (n \div grid) * grid

\* The division of C++ truncates towards zero.
Truncate(n, grid) == IF n < 0 THEN -(((-n) \div grid) * grid) ELSE (n \div grid) * grid

RoundToTick(r, price) == Truncate(price, r.tickSize)
RoundToLot(r, qty)    == Truncate(qty, r.lotSize)

=============================================================================
