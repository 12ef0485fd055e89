---------------------------- MODULE OrderService ----------------------------
(* POST /orders: OrderService.place_order.  A limit or stop-limit request  *)
(* inserts its order; a market request reads the live price, then locks    *)
(* wallet and position and books the execution in one transaction.         *)
EXTENDS Database, MarketFeed

VARIABLE req   \* [RequestIds -> where the request is, its order, its price]

RequestPc == {"new", "wallet", "position", "commit", "done"}
RequestState == [pc : RequestPc, order : OrderRow \cup {Null}, price : OptionalPrice]
NewRequest == [pc |-> "new", order |-> Null, price |-> Null]
Answered == [pc |-> "done", order |-> Null, price |-> Null]

RequestTypeOK == req \in [RequestIds -> RequestState]

RequestInit == req = [r \in RequestIds |-> NewRequest]

Answer(r) == req' = [req EXCEPT ![r] = Answered]
GoTo(r, pc) == req' = [req EXCEPT ![r].pc = pc]

----------------------------------------------------------------------------
(* _place_pending *)
PlacePending(r) ==
    /\ req[r].pc = "new"
    /\ \E q \in OrderRequests :
        /\ q.order_type # "market"
        /\ orders' = [orders EXCEPT ![r] = NewOrder(q)]
    /\ Answer(r)
    /\ UNCHANGED <<wallet, position, ledger, txn>>

(* _get_price: the price is read before any lock is taken. *)
PlaceMarket(r) ==
    /\ req[r].pc = "new"
    /\ \E q \in OrderRequests :
        /\ q.order_type = "market"
        /\ \/ price_key[q.symbol] = Null /\ Answer(r)   \* PriceUnavailableError
           \/ /\ price_key[q.symbol] # Null
              /\ req' = [req EXCEPT ![r] = [pc |-> "wallet", order |-> NewOrder(q),
                                            price |-> price_key[q.symbol]]]
    /\ UNCHANGED dbVars

(* _lock_wallet, then the balance check of _buy. *)
LockWallet(r) ==
    LET order == req[r].order IN
    /\ req[r].pc = "wallet"
    /\ UNCHANGED tables
    /\ \/ /\ CannotPay(wallet[order.user], order, req[r].price)
          /\ WalletFree(order.user)
          /\ EndTxn(r)
          /\ Answer(r)   \* InsufficientBalanceError
       \/ /\ ~CannotPay(wallet[order.user], order, req[r].price)
          /\ TakeWallet(r, order.user)
          /\ GoTo(r, "position")

(* _lock_position or _lock_or_init_position, then the check of _sell. *)
LockPosition(r) ==
    LET order == req[r].order
        h == Holding(order)
    IN
    /\ req[r].pc = "position"
    /\ UNCHANGED tables
    /\ \/ /\ CannotDeliver(position[h], order)
          /\ PositionFree(h)
          /\ EndTxn(r)
          /\ Answer(r)   \* InsufficientPositionError
       \/ /\ ~CannotDeliver(position[h], order)
          /\ TakePosition(r, h)
          /\ GoTo(r, "commit")

CommitOrder(r) ==
    /\ req[r].pc = "commit"
    /\ CommitFill(r, r, req[r].order, req[r].price)
    /\ Answer(r)

(* An exception leaves get_db, which rolls the session back. *)
FailRequest(r) ==
    /\ req[r].pc # "done"
    /\ \/ DbMayFail
       \/ req[r].pc = "commit" /\ InsertCollides(r, Holding(req[r].order))
    /\ Rollback(r)
    /\ Answer(r)

RequestStep(r) ==
    \/ PlacePending(r)
    \/ PlaceMarket(r)
    \/ LockWallet(r)
    \/ LockPosition(r)
    \/ CommitOrder(r)
    \/ FailRequest(r)
=============================================================================
