------------------------------ MODULE Database ------------------------------
(* PostgreSQL as the services use it: the committed rows, and for every    *)
(* session that runs a transaction the row locks it holds (SELECT ... FOR  *)
(* UPDATE, READ COMMITTED) with the values it read under them.  Writes are *)
(* computed from those values and reach the tables at commit; a rollback   *)
(* drops the locks and leaves no trace.                                    *)
EXTENDS TradingModels

CONSTANT DbMayFail  \* whether a statement or commit may raise

ASSUME DbMayFailAssumption == DbMayFail \in BOOLEAN

VARIABLES
    wallet,    \* [Users -> balance]
    position,  \* [Holdings -> row or Null]
    orders,    \* [OrderIds -> row or Null]
    ledger,    \* [Users -> sequence of wallet_transactions, in commit order]
    txn        \* [Sessions -> locks held and values read under them]

tables == <<wallet, position, orders, ledger>>
dbVars == <<wallet, position, orders, ledger, txn>>

NoTxn == [order |-> Null, wallet |-> Null, balance |-> 0,
          position |-> Null, row |-> Null]

Txn == [order : OrderIds \cup {Null}, wallet : Users \cup {Null}, balance : Int,
        position : Holdings \cup {Null}, row : PositionRow \cup {Null}]

DatabaseTypeOK ==
    /\ wallet \in [Users -> Int]
    /\ position \in [Holdings -> PositionRow \cup {Null}]
    /\ orders \in [OrderIds -> OrderRow \cup {Null}]
    /\ ledger \in [Users -> Seq(WalletEntry)]
    /\ txn \in [Sessions -> Txn]

DatabaseInit ==
    /\ wallet = [u \in Users |-> OpeningBalance]
    /\ position = [h \in Holdings |-> Null]
    /\ orders = [o \in OrderIds |-> Null]
    /\ ledger = [u \in Users |-> <<>>]
    /\ txn = [s \in Sessions |-> NoTxn]

----------------------------------------------------------------------------
(* Mutants of the lock tests: SELECT without FOR UPDATE. *)
OrderUnlocked(o) == o \in OrderIds
WalletUnlocked(u) == u \in Users

OrderFree(o) == \A s \in Sessions : txn[s].order # o
WalletFree(u) == \A s \in Sessions : txn[s].wallet # u
PositionFree(h) == \A s \in Sessions : txn[s].position # h

TakeOrder(s, o) ==
    /\ OrderFree(o)
    /\ txn' = [txn EXCEPT ![s].order = o]

TakeWallet(s, u) ==
    /\ WalletFree(u)
    /\ txn' = [txn EXCEPT ![s].wallet = u, ![s].balance = wallet[u]]

(* A row that does not exist cannot be locked: the query returns nothing. *)
TakePosition(s, h) ==
    \/ position[h] = Null /\ UNCHANGED txn
    \/ /\ position[h] # Null
       /\ PositionFree(h)
       /\ txn' = [txn EXCEPT ![s].position = h, ![s].row = position[h]]

(* Mutant of EndTxn: the session is used again without being closed. *)
KeepLocks(s) == UNCHANGED txn

EndTxn(s) == txn' = [txn EXCEPT ![s] = NoTxn]

Rollback(s) == EndTxn(s) /\ UNCHANGED tables

(* A session that found no row inserts one; the unique key rejects it if   *)
(* another transaction has committed that row since.                       *)
InsertCollides(s, h) == txn[s].row = Null /\ position[h] # Null

(* The writes that every execution commits together: balance, position,    *)
(* ledger entry and order row, all from the values read under the locks.   *)
CommitFill(s, o, order, price) ==
    LET h == Holding(order)
        value == OrderValue(order, price)
        balance == txn[s].balance + SignedValue(order.side, value)
    IN  /\ ~InsertCollides(s, h)
        /\ wallet' = [wallet EXCEPT ![order.user] = balance]
        /\ position' = [position EXCEPT ![h] = AfterFill(txn[s].row, order, price)]
        /\ ledger' = [ledger EXCEPT ![order.user] =
                        Append(@, Entry(order.side, value, balance, o))]
        /\ orders' = [orders EXCEPT ![o] = Executed(order, price)]
        /\ EndTxn(s)

CommitStatus(s, o, status) ==
    /\ orders' = [orders EXCEPT ![o].status = status]
    /\ EndTxn(s)
    /\ UNCHANGED <<wallet, position, ledger>>
=============================================================================
