--------------------------- MODULE AtomicTrading ---------------------------
(* What trading promises its users: every order, stop and sale takes       *)
(* effect at once, against the balance, the holding and the stops that are *)
(* in force at that moment, and only at a price that the market has shown. *)
(* There are no locks, transactions, subscribers or ticks here.            *)
EXTENDS TradingModels

VARIABLES wallet, position, orders, ledger,
          quoted   \* [Symbols -> the prices that the market has shown]

atomicVars == <<wallet, position, orders, ledger, quoted>>

Init ==
    /\ wallet = [u \in Users |-> OpeningBalance]
    /\ position = [h \in Holdings |-> Null]
    /\ orders = [o \in OrderIds |-> Null]
    /\ ledger = [u \in Users |-> <<>>]
    /\ quoted = [y \in Symbols |-> {}]

Quote ==
    /\ \E y \in Symbols, p \in Prices : quoted' = [quoted EXCEPT ![y] = @ \cup {p}]
    /\ UNCHANGED <<wallet, position, orders, ledger>>

Place(o) ==
    /\ orders[o] = Null
    /\ \E q \in OrderRequests :
        q.order_type # "market" /\ orders' = [orders EXCEPT ![o] = NewOrder(q)]
    /\ UNCHANGED <<wallet, position, ledger, quoted>>

TriggerShown(order) ==
    \E p \in quoted[order.symbol] : Triggers(order.side, order.trigger_price, p)

Trigger(o) ==
    /\ orders[o] # Null
    /\ orders[o].order_type = "stop_limit"
    /\ orders[o].status = "pending"
    /\ TriggerShown(orders[o])
    /\ orders' = [orders EXCEPT ![o].status = "triggered"]
    /\ UNCHANGED <<wallet, position, ledger, quoted>>

(* One execution: order row, money, holding and receipt change together.   *)
Execute(o, order, p, row) ==
    LET value == OrderValue(order, p)
        balance == wallet[order.user] + SignedValue(order.side, value)
    IN  /\ orders' = [orders EXCEPT ![o] = Executed(order, p)]
        /\ wallet' = [wallet EXCEPT ![order.user] = balance]
        /\ position' = [position EXCEPT ![Holding(order)] = row]
        /\ ledger' = [ledger EXCEPT ![order.user] =
                        Append(@, Entry(order.side, value, balance, o))]
        /\ UNCHANGED quoted

Affordable(order, p) ==
    /\ ~CannotPay(wallet[order.user], order, p)
    /\ ~CannotDeliver(position[Holding(order)], order)

MarketOrder(o) ==
    /\ orders[o] = Null
    /\ \E q \in OrderRequests :
        /\ q.order_type = "market"
        /\ \E p \in quoted[q.symbol] :
            /\ Affordable(NewOrder(q), p)
            /\ Execute(o, NewOrder(q), p, AfterFill(position[<<q.user, q.symbol>>], NewOrder(q), p))

(* The prices at which an active order may be filled or turned down. *)
FillPrices(order) ==
    {p \in quoted[order.symbol] :
        /\ Executable(order.side, order.limit_price, p)
        /\ order.order_type = "stop_limit" => TriggerShown(order)}

Fill(o) ==
    /\ orders[o] # Null
    /\ orders[o].status \in Active
    /\ \E p \in FillPrices(orders[o]) :
        /\ Affordable(orders[o], p)
        /\ Execute(o, orders[o], p,
                   AfterFill(position[Holding(orders[o])], orders[o], p))

TurnDown(o) ==
    /\ orders[o] # Null
    /\ orders[o].status \in Active
    /\ \E p \in FillPrices(orders[o]) : ~Affordable(orders[o], p)
    /\ orders' = [orders EXCEPT ![o].status = "failed"]
    /\ UNCHANGED <<wallet, position, ledger, quoted>>

(* A stop or target in force is hit by a shown price: all of it is sold.   *)
StopSale(o, h) ==
    /\ orders[o] = Null
    /\ Held(position[h]) > 0
    /\ \E p \in quoted[h[2]] :
        /\ StopHit(position[h], p)
        /\ Execute(o,
             NewOrder([user |-> h[1], symbol |-> h[2], side |-> "sell",
                       order_type |-> "market", quantity |-> position[h].quantity,
                       limit_price |-> Null, trigger_price |-> Null]),
             p,
             [position[h] EXCEPT !.quantity = 0, !.stop_loss = Null,
                                 !.target_price = Null])

SetStops(q) ==
    LET h == <<q.user, q.symbol>> IN
    /\ position[h] # Null
    /\ \E sl \in {q.stop_loss, position[h].stop_loss},
          tp \in {q.target_price, position[h].target_price} :
        position' = [position EXCEPT ![h].stop_loss = sl, ![h].target_price = tp]
    /\ UNCHANGED <<wallet, orders, ledger, quoted>>

Next ==
    \/ Quote
    \/ \E o \in RequestIds : Place(o) \/ MarketOrder(o) \/ Trigger(o) \/ Fill(o) \/ TurnDown(o)
    \/ \E o \in SaleIds, h \in Holdings : StopSale(o, h)
    \/ \E q \in StopRequests : SetStops(q)

Spec == Init /\ [][Next]_atomicVars
=============================================================================
