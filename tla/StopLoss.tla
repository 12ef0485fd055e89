------------------------------ MODULE StopLoss ------------------------------
(* The stop-loss engine: on every tick it sells, each in a transaction of  *)
(* its own, the whole of every position whose stop loss or target is hit.  *)
EXTENDS Database, MarketFeed

VARIABLE stp   \* [StopEngines -> where the engine is]

EnginePc == {"listen", "scan", "wallet", "position", "commit", "crashed"}
EngineState == [pc : EnginePc, todo : SUBSET Users, user : Users \cup {Null}]
EngineIdle == [pc |-> "listen", todo |-> {}, user |-> Null]

EngineTypeOK == stp \in [StopEngines -> EngineState]

EngineInit == stp = [e \in StopEngines |-> EngineIdle]

StopPrice(e) == CurrentTick(e).price
Candidate(e) == <<stp[e].user, CurrentTick(e).symbol>>
EngineGoTo(e, pc) == stp' = [stp EXCEPT ![e].pc = pc]

----------------------------------------------------------------------------
EngineReceives(e) ==
    /\ stp[e].pc = "listen"
    /\ TakeTick(e)
    /\ EngineGoTo(e, "scan")
    /\ UNCHANGED dbVars

(* The loop of _check_symbol, with the users in rest still to be tried. *)
TryNext(e, rest) ==
    \/ \E u \in rest :
        stp' = [stp EXCEPT ![e] = [pc |-> "wallet", todo |-> rest \ {u}, user |-> u]]
    \/ rest = {} /\ stp' = [stp EXCEPT ![e] = EngineIdle]

(* The non-locking scan of _check_symbol. *)
EngineScans(e) ==
    LET y == CurrentTick(e).symbol IN
    /\ stp[e].pc = "scan"
    /\ TryNext(e, {u \in Users : /\ position[<<u, y>>] # Null
                                 /\ position[<<u, y>>].quantity > 0
                                 /\ StopHit(position[<<u, y>>], StopPrice(e))})
    /\ UNCHANGED dbVars

EngineLocksWallet(e) ==
    /\ stp[e].pc = "wallet"
    /\ TakeWallet(e, stp[e].user)
    /\ EngineGoTo(e, "position")
    /\ UNCHANGED tables

(* Mutant of Reverified: the stops of the locked row are not compared again. *)
StillOpen(row, price) == row # Null /\ row.quantity # 0

(* Still open and still hit, judged on the row as it is under the lock. *)
Reverified(row, price) == row # Null /\ row.quantity # 0 /\ StopHit(row, price)

EngineLocksPosition(e) ==
    LET h == Candidate(e) IN
    /\ stp[e].pc = "position"
    /\ UNCHANGED tables
    /\ IF Reverified(position[h], StopPrice(e))
       THEN TakePosition(e, h) /\ EngineGoTo(e, "commit")
       ELSE PositionFree(h) /\ EndTxn(e) /\ TryNext(e, stp[e].todo)

(* The market order that records the sale of the whole position. *)
SaleOrder(h, quantity, price) ==
    Executed(NewOrder([user |-> h[1], symbol |-> h[2], side |-> "sell",
                       order_type |-> "market", quantity |-> quantity,
                       limit_price |-> Null, trigger_price |-> Null]), price)

(* Mutant of Sold: only the stops are cleared. *)
StopsCleared(row) == [row EXCEPT !.stop_loss = Null, !.target_price = Null]

Sold(row) == [row EXCEPT !.quantity = 0, !.stop_loss = Null, !.target_price = Null]

(* Steps 4 to 6: clear the stops, credit the wallet, record the sale. *)
EngineCommits(e) ==
    LET h == Candidate(e)
        u == stp[e].user
        sale == SaleOrder(h, txn[e].row.quantity, StopPrice(e))
        balance == txn[e].balance + sale.order_value
    IN
    /\ stp[e].pc = "commit"
    /\ position' = [position EXCEPT ![h] = Sold(txn[e].row)]
    /\ wallet' = [wallet EXCEPT ![u] = balance]
    /\ \E o \in SaleIds :
        /\ orders[o] = Null
        /\ orders' = [orders EXCEPT ![o] = sale]
        /\ ledger' = [ledger EXCEPT ![u] =
                        Append(@, Entry("sell", sale.order_value, balance, o))]
    /\ EndTxn(e)
    /\ TryNext(e, stp[e].todo)

(* A failed sale is rolled back; the other candidates still get their turn. *)
EngineSaleFails(e) ==
    /\ DbMayFail
    /\ stp[e].pc \in {"wallet", "position", "commit"}
    /\ Rollback(e)
    /\ TryNext(e, stp[e].todo)

(* The scan is outside any try of the loop: its exception ends _run, and   *)
(* nothing starts the task again.                                          *)
EngineCrashes(e) ==
    /\ DbMayFail
    /\ stp[e].pc = "scan"
    /\ stp' = [stp EXCEPT ![e] = [EngineIdle EXCEPT !.pc = "crashed"]]
    /\ UNCHANGED dbVars

SaleStep(e) ==
    \/ EngineScans(e)
    \/ EngineLocksWallet(e)
    \/ EngineLocksPosition(e)
    \/ EngineCommits(e)
    \/ EngineSaleFails(e)
    \/ EngineCrashes(e)

(* The connection drops and is restored while the engine listens. *)
EngineResubscribes(e) ==
    /\ FeedMayDrop
    /\ stp[e].pc = "listen"
    /\ cursor[e] < Len(feed)
    /\ SkipToEnd(e)
    /\ UNCHANGED <<dbVars, stp>>

EngineStep(e) ==
    \/ EngineReceives(e)
    \/ SaleStep(e) /\ UNCHANGED feedVars
    \/ EngineResubscribes(e)
=============================================================================
