----------------------------- MODULE TradingInv -----------------------------
(* The inductive invariants behind the proofs.  IInv: at each point of its *)
(* control every session holds the locks its code has taken by then, and   *)
(* the rows it works on exist.  MoneyInv: the books add up besides.        *)
(* OrderInv: and every session acts on an order for a reason that is still *)
(* good.                                                                   *)
EXTENDS Trading

(* The row of a holding was locked and read, or found to be missing. *)
HasLooked(s, h) ==
    /\ txn[s].position \in {Null, h}
    /\ txn[s].position = Null => txn[s].row = Null

(* The holding is enough for a sale, as the locked row showed it. *)
Deliverable(s, order) ==
    order.side = "sell" =>
        txn[s].row # Null /\ txn[s].row.quantity >= order.quantity

RequestPlan(r) ==
    LET pc == req[r].pc
        order == req[r].order
    IN  /\ pc # "done" => orders[r] = Null
        /\ pc \in {"new", "wallet", "done"} => txn[r] = NoTxn
        /\ pc \in {"wallet", "position", "commit"} => order # Null /\ req[r].price # Null
        /\ pc \in {"position", "commit"} =>
            txn[r].order = Null /\ txn[r].wallet = order.user
        /\ pc = "position" => txn[r].position = Null /\ txn[r].row = Null
        /\ pc = "commit" => HasLooked(r, Holding(order)) /\ Deliverable(r, order)

MatcherPlan(m) ==
    LET pc == mat[m].pc
        o == mat[m].order
        order == orders[o]
    IN  /\ pc # "listen" => cursor[m] \in 1 .. Len(feed)
        /\ \A x \in mat[m].todo : orders[x] # Null
        /\ pc \in {"listen", "scan", "trigger", "order"} => txn[m] = NoTxn
        /\ pc \in {"trigger", "order", "wallet", "position", "commit"} =>
            o # Null /\ order # Null
        /\ pc \in {"wallet", "position", "commit"} => txn[m].order = o
        /\ pc = "wallet" => txn[m].wallet = Null
        /\ pc \in {"position", "commit"} => txn[m].wallet = order.user
        /\ pc \in {"wallet", "position"} => txn[m].position = Null /\ txn[m].row = Null
        /\ pc = "commit" => HasLooked(m, Holding(order)) /\ Deliverable(m, order)

EnginePlan(e) ==
    LET pc == stp[e].pc
        user == stp[e].user
    IN  /\ pc \notin {"listen", "crashed"} => cursor[e] \in 1 .. Len(feed)
        /\ pc \in {"listen", "scan", "wallet", "crashed"} => txn[e] = NoTxn
        /\ pc \in {"wallet", "position", "commit"} => user # Null
        /\ pc \in {"position", "commit"} => txn[e].order = Null /\ txn[e].wallet = user
        /\ pc = "position" => txn[e].position = Null /\ txn[e].row = Null
        /\ pc = "commit" => /\ txn[e].position = Candidate(e)
                            /\ txn[e].row # Null /\ txn[e].row.quantity # 0

EditorPlan(d) ==
    LET q == edit[d].payload IN
    edit[d].pc = "write" =>
        /\ q # Null
        /\ edit[d].row # Null
        /\ position[<<q.user, q.symbol>>] # Null

Plans ==
    /\ \A r \in RequestIds : RequestPlan(r)
    /\ \A m \in Matchers : MatcherPlan(m)
    /\ \A e \in StopEngines : EnginePlan(e)
    /\ \A d \in Editors : EditorPlan(d)

IInv == TypeOK /\ Plans

(* On top of it, the locks exclude each other ... *)
LocksExclusive ==
    \A s, t \in Sessions :
        /\ txn[s].wallet # Null /\ txn[s].wallet = txn[t].wallet => s = t
        /\ txn[s].position # Null /\ txn[s].position = txn[t].position => s = t

(* ... every position lock is taken under the wallet lock of its owner ... *)
WalletGuardsPosition ==
    \A s \in Sessions : txn[s].position # Null => txn[s].wallet = txn[s].position[1]

(* ... a session that goes on to fill a buy has seen enough money for it,  *)
(* and a fill that found no row is still going to find none.               *)
Payable(s, order, price) ==
    order.side = "buy" => txn[s].balance >= OrderValue(order, price)

Absent(s, order) == txn[s].row = Null => position[Holding(order)] = Null

RequestFunds(r) ==
    /\ req[r].pc \in {"position", "commit"} => Payable(r, req[r].order, req[r].price)
    /\ req[r].pc = "commit" => Absent(r, req[r].order)

MatcherFunds(m) ==
    LET order == orders[mat[m].order] IN
    /\ mat[m].pc \in {"position", "commit"} => Payable(m, order, MatchPrice(m))
    /\ mat[m].pc = "commit" => Absent(m, order)

Funds ==
    /\ \A r \in RequestIds : RequestFunds(r)
    /\ \A m \in Matchers : MatcherFunds(m)

Books ==
    /\ LocksExclusive /\ WalletGuardsPosition
    /\ ReadsCurrent /\ LedgerChains /\ NoOverdraft

MoneyInv == IInv /\ Books /\ Funds

----------------------------------------------------------------------------
(* On top of that, order locks exclude each other ... *)
OrderLocks ==
    \A s, t \in Sessions : txn[s].order # Null /\ txn[s].order = txn[t].order => s = t

(* ... the rows of sales are market orders, and a key holds a price shown, *)
SalesAreMarket ==
    \A o \in SaleIds : orders[o] # Null => orders[o].order_type = "market"

KeysShown == \A y \in Symbols : price_key[y] # Null => price_key[y] \in Quoted[y]

(* ... a market order is what was sent, at a price that was shown, *)
RequestTerms(r) ==
    req[r].pc \in {"wallet", "position", "commit"} =>
        /\ \E q \in OrderRequests : q.order_type = "market" /\ req[r].order = NewOrder(q)
        /\ req[r].price \in Quoted[req[r].order.symbol]

(* ... what a subscriber saw on its snapshot still holds of each order     *)
(* that it has yet to handle, and an order that it has locked is waiting,  *)
TriggerHit(order) ==
    \E i \in TicksOf(order.symbol) :
        Triggers(order.side, order.trigger_price, feed[i].price)

Concerns(m, o) ==
    /\ orders[o].order_type # "market"
    /\ orders[o].symbol = CurrentTick(m).symbol
    /\ orders[o].order_type = "stop_limit" => TriggerHit(orders[o])

MatcherTerms(m) ==
    LET pc == mat[m].pc
        o == mat[m].order
    IN  /\ pc \in {"listen", "scan"} => mat[m].todo = {}
        /\ \A x \in mat[m].todo :
            /\ Concerns(m, x)
            /\ IF mat[m].phase = 1 THEN orders[x].order_type = "stop_limit" ELSE Crosses(m, x)
        /\ pc \in {"trigger", "order", "wallet", "position", "commit"} => Concerns(m, o)
        /\ pc = "trigger" => orders[o].order_type = "stop_limit"
        /\ pc \in {"order", "wallet", "position", "commit"} => Crosses(m, o)
        /\ pc \in {"wallet", "position", "commit"} => orders[o].status \in Active

(* ... a stop-loss engine sells on the stops of the row it has locked, and *)
(* what update-sl writes was asked for.                                    *)
EngineTerms(e) == stp[e].pc = "commit" => StopHit(txn[e].row, StopPrice(e))

EditorTerms(d) == edit[d].pc = "write" => edit[d].payload \in StopRequests

Terms ==
    /\ \A r \in RequestIds : RequestTerms(r)
    /\ \A m \in Matchers : MatcherTerms(m)
    /\ \A e \in StopEngines : EngineTerms(e)
    /\ \A d \in Editors : EditorTerms(d)

OrderRules == OrderLocks /\ SalesAreMarket /\ KeysShown /\ StopWaitsForTrigger

OrderInv == MoneyInv /\ OrderRules /\ Terms
=============================================================================
