--------------------------- MODULE TradingModels ---------------------------
(* The rows of app/models, the requests app/schemas lets through, and the  *)
(* pure price and money arithmetic of the services.  Money and prices are  *)
(* integers: hundredths of a rupee, the scale Numeric(18, 2) stores.       *)
EXTENDS Integers, Sequences, FiniteSets

CONSTANTS
    Users,           \* registered users: each owns one wallet row
    Symbols,         \* tradable symbols (_ALLOWED_SYMBOLS)
    Prices,          \* prices the market can quote and users can name
    Quantities,      \* quantities a user can ask for
    OpeningBalance,  \* what create_user puts in a new wallet
    RequestIds,      \* HTTP order requests; each is also the id of its order
    SaleIds,         \* order ids the stop-loss engine draws for its sales
    OrderRequests,   \* order payloads that users may send
    StopRequests,    \* update-sl payloads that users may send
    Matchers,        \* subscribers that run process_price_update
    StopEngines,     \* subscribers that run the stop-loss engine
    Editors,         \* HTTP update-sl requests
    Null             \* SQL NULL, Python None, "no such row"

OrderIds == RequestIds \cup SaleIds
Sessions == RequestIds \cup Matchers \cup StopEngines   \* run transactions
Subscribers == Matchers \cup StopEngines                \* hear ticks
Holdings == Users \X Symbols   \* the unique key (user_id, symbol) of positions

OrderType == {"market", "limit", "stop_limit"}
OrderSide == {"buy", "sell"}
OrderStatus == {"pending", "triggered", "executed", "failed"}
Active == {"pending", "triggered"}   \* the statuses _scan selects

OptionalPrice == Prices \cup {Null}

OrderRow ==
    [user : Users, symbol : Symbols, side : OrderSide, order_type : OrderType,
     quantity : Nat \ {0}, limit_price : OptionalPrice,
     trigger_price : OptionalPrice, status : OrderStatus,
     price : OptionalPrice, order_value : Nat \cup {Null}]

PositionRow ==
    [quantity : Nat, avg_price : Nat,
     stop_loss : OptionalPrice, target_price : OptionalPrice]

WalletEntry ==
    [type : {"credit", "debit"}, amount : Nat, balance_after : Int,
     reference_id : OrderIds]

(* What the validators of OrderRequest accept: a positive quantity and the *)
(* prices that the order type requires.                                    *)
ValidOrderRequest ==
    {q \in [user : Users, symbol : Symbols, side : OrderSide,
            order_type : OrderType, quantity : Quantities,
            limit_price : OptionalPrice, trigger_price : OptionalPrice] :
        /\ q.order_type \in {"limit", "stop_limit"} => q.limit_price # Null
        /\ q.order_type = "stop_limit" => q.trigger_price # Null}

(* What UpdateSLRequest accepts: a stop below the target when both are given. *)
ValidStopRequest ==
    {q \in [user : Users, symbol : Symbols,
            stop_loss : OptionalPrice, target_price : OptionalPrice] :
        q.stop_loss # Null /\ q.target_price # Null
            => q.stop_loss < q.target_price}

ASSUME PricesAssumption == Prices \subseteq Nat \ {0}
ASSUME QuantitiesAssumption == Quantities \subseteq Nat \ {0}
ASSUME OpeningBalanceAssumption == OpeningBalance \in Nat
ASSUME RequestsAssumption == /\ OrderRequests \subseteq ValidOrderRequest
                             /\ StopRequests \subseteq ValidStopRequest
ASSUME IdsAssumption ==
    /\ RequestIds \cap SaleIds = {}
    /\ RequestIds \cap Subscribers = {}
    /\ Matchers \cap StopEngines = {}
ASSUME NullAssumption == Null \notin
    Int \cup Users \cup Symbols \cup OrderIds \cup Holdings
        \cup OrderRow \cup PositionRow \cup ValidStopRequest

----------------------------------------------------------------------------
(* order_matching_service._triggers and ._executable *)
Triggers(side, trigger_price, market_price) ==
    IF side = "buy" THEN market_price >= trigger_price
                    ELSE market_price <= trigger_price

Executable(side, limit_price, market_price) ==
    IF side = "buy" THEN market_price <= limit_price
                    ELSE market_price >= limit_price

(* The two or_ branches of the stop-loss scan, and sl_hit / target_hit. *)
StopHit(row, price) ==
    \/ row.stop_loss # Null /\ price <= row.stop_loss
    \/ row.target_price # Null /\ price >= row.target_price

(* Decimal.quantize(0.01) of num / den: nearest hundredth, ties to even. *)
RoundHalfEven(num, den) ==
    LET q == num \div den
        twice == 2 * (num % den)
    IN  IF twice < den \/ (twice = den /\ q % 2 = 0) THEN q ELSE q + 1

(* Mutant of AvgPrice: divides by what was bought, not by what is held. *)
AvgPriceOverBought(row, n, price) ==
    RoundHalfEven(row.avg_price * row.quantity + price * n, n)

(* The average price of a position after buying n more at price. *)
AvgPrice(row, n, price) ==
    RoundHalfEven(row.avg_price * row.quantity + price * n, row.quantity + n)

(* price * quantity: exact in hundredths, so quantize leaves it as it is. *)
OrderValue(order, price) == price * order.quantity

Held(row) == IF row = Null THEN 0 ELSE row.quantity

(* Mutants of the refusals: the price is compared instead of the value of  *)
(* the order; a sale of what is not held is let through.                   *)
CannotPayOne(balance, order, price) == order.side = "buy" /\ balance < price
NeverShort(row, order) == FALSE

(* The refusals under lock: InsufficientBalance, InsufficientPosition. *)
CannotPay(balance, order, price) ==
    order.side = "buy" /\ balance < OrderValue(order, price)

CannotDeliver(row, order) == order.side = "sell" /\ Held(row) < order.quantity

SignedValue(side, value) == IF side = "buy" THEN -value ELSE value

----------------------------------------------------------------------------
NewOrder(q) ==
    [user |-> q.user, symbol |-> q.symbol, side |-> q.side,
     order_type |-> q.order_type, quantity |-> q.quantity,
     limit_price |-> q.limit_price, trigger_price |-> q.trigger_price,
     status |-> "pending", price |-> Null, order_value |-> Null]

Executed(order, price) ==
    [order EXCEPT !.status = "executed", !.price = price,
                  !.order_value = OrderValue(order, price)]

Holding(order) == <<order.user, order.symbol>>

EmptyPosition == [quantity |-> 0, avg_price |-> 0,
                  stop_loss |-> Null, target_price |-> Null]

(* The quantity and average price columns after an order fills against the *)
(* row that the transaction read; the stop columns are left as they are.   *)
AfterFill(row, order, price) ==
    LET base == IF row = Null THEN EmptyPosition ELSE row
    IN  IF order.side = "buy"
        THEN [base EXCEPT !.quantity = @ + order.quantity,
                          !.avg_price = AvgPrice(base, order.quantity, price)]
        ELSE [base EXCEPT !.quantity = @ - order.quantity]

Entry(side, amount, balance_after, reference_id) ==
    [type |-> IF side = "buy" THEN "debit" ELSE "credit", amount |-> amount,
     balance_after |-> balance_after, reference_id |-> reference_id]
=============================================================================
