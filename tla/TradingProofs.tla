--------------------------- MODULE TradingProofs ---------------------------
(* Proofs about Trading for every set of users, symbols, orders, requests  *)
(* and subscribers: control and locks first, then money.                   *)
EXTENDS TradingInv, TLAPS

(* What a step leaves alone, as far as the plans of other sessions go. *)
SameTerms(a, b) ==
    /\ a.user = b.user /\ a.symbol = b.symbol
    /\ a.side = b.side /\ a.quantity = b.quantity /\ a.order_type = b.order_type
    /\ a.limit_price = b.limit_price /\ a.trigger_price = b.trigger_price

OrdersKept ==
    \A o \in OrderIds : orders[o] # Null =>
        orders'[o] # Null /\ SameTerms(orders[o], orders'[o])

PositionsKept == \A h \in Holdings : position[h] # Null => position'[h] # Null

OthersKept(s) == \A t \in Sessions : t # s => txn'[t] = txn[t]

StillAbsent(s) ==
    \A x \in RequestIds : x # s /\ orders[x] = Null => orders'[x] = Null

StepKept(s) == OthersKept(s) /\ OrdersKept /\ PositionsKept /\ StillAbsent(s)

USE DEF OrderIds, Holdings, Sessions, Subscribers, OptionalPrice, OrderType,
        OrderSide, OrderStatus, Holding

----------------------------------------------------------------------------
(* Arithmetic *)

(* A rounded quotient of naturals is a natural. *)
LEMMA RoundHalfEvenType ==
    ASSUME NEW num \in Nat, NEW den \in Nat \ {0}
    PROVE  RoundHalfEven(num, den) \in Nat
<1>1. num \div den \in Nat
  OBVIOUS
<1> QED
  BY <1>1 DEF RoundHalfEven

(* The average price stays a price-like natural. *)
LEMMA AvgPriceType ==
    ASSUME NEW row \in PositionRow, NEW n \in Nat \ {0}, NEW price \in Nat
    PROVE  AvgPrice(row, n, price) \in Nat
<1>1. /\ row.avg_price \in Nat
      /\ row.quantity \in Nat
  BY DEF PositionRow
<1>2. /\ row.avg_price * row.quantity \in Nat
      /\ price * n \in Nat
  BY <1>1
<1>3. /\ row.avg_price * row.quantity + price * n \in Nat
      /\ row.quantity + n \in Nat \ {0}
  BY <1>1, <1>2
<1> QED
  BY <1>3, RoundHalfEvenType DEF AvgPrice

(* The value of an order at a market price is a natural. *)
LEMMA OrderValueType ==
    ASSUME NEW order \in OrderRow, NEW price \in Prices
    PROVE  OrderValue(order, price) \in Nat
BY PricesAssumption DEF OrderValue, OrderRow

(* Filling an order against a locked row that can deliver gives a row. *)
LEMMA AfterFillType ==
    ASSUME NEW row \in PositionRow \cup {Null}, NEW order \in OrderRow,
           NEW price \in Prices,
           order.side = "sell" => row # Null /\ row.quantity >= order.quantity
    PROVE  AfterFill(row, order, price) \in PositionRow
<1> DEFINE base == IF row = Null THEN EmptyPosition ELSE row
<1>1. base \in PositionRow
  BY DEF EmptyPosition, PositionRow
<1>2. order.quantity \in Nat \ {0} /\ price \in Nat
  BY PricesAssumption DEF OrderRow
<1>3. CASE order.side = "buy"
  <2>1. AvgPrice(base, order.quantity, price) \in Nat
    BY <1>1, <1>2, AvgPriceType
  <2>2. base.quantity + order.quantity \in Nat
    BY <1>1, <1>2 DEF PositionRow
  <2> HIDE DEF base
  <2>3. [base EXCEPT !.quantity = @ + order.quantity,
                     !.avg_price = AvgPrice(base, order.quantity, price)] \in PositionRow
    BY <1>1, <2>1, <2>2 DEF PositionRow
  <2> QED
    BY <1>3, <2>3 DEF AfterFill, base
<1>4. CASE order.side # "buy"
  <2>1. order.side = "sell"
    BY <1>4 DEF OrderRow
  <2>2. base = row /\ base.quantity >= order.quantity
    BY <2>1
  <2>3. base.quantity - order.quantity \in Nat
    BY <1>1, <1>2, <2>2 DEF PositionRow
  <2> HIDE DEF base
  <2>4. [base EXCEPT !.quantity = @ - order.quantity] \in PositionRow
    BY <1>1, <2>3 DEF PositionRow
  <2> QED
    BY <1>4, <2>4 DEF AfterFill, base
<1> QED
  BY <1>3, <1>4

(* An order stamped with its execution is still an order row. *)
LEMMA ExecutedType ==
    ASSUME NEW order \in OrderRow, NEW price \in Prices
    PROVE  /\ Executed(order, price) \in OrderRow
           /\ SameTerms(order, Executed(order, price))
BY OrderValueType DEF Executed, OrderRow, SameTerms

(* A payload that passes validation becomes a pending order row. *)
LEMMA NewOrderType ==
    ASSUME NEW q \in OrderRequests
    PROVE  NewOrder(q) \in OrderRow
BY RequestsAssumption, QuantitiesAssumption
   DEF NewOrder, OrderRow, ValidOrderRequest

----------------------------------------------------------------------------
(* The storage layer: each of its steps keeps the types, the terms of      *)
(* every order, the rows of every position and the other transactions.     *)

(* Tables that do not change keep all they say about orders and positions. *)
LEMMA TablesKeep ==
    ASSUME UNCHANGED tables
    PROVE  OrdersKept /\ PositionsKept
BY DEF OrdersKept, PositionsKept, tables, SameTerms

(* A session that updates its own transaction leaves the others as they are. *)
LEMMA TxnStep ==
    ASSUME DatabaseTypeOK, NEW s \in Sessions, NEW t \in Txn,
           txn' = [txn EXCEPT ![s] = t]
    PROVE  txn' \in [Sessions -> Txn] /\ OthersKept(s) /\ txn'[s] = t
BY DEF DatabaseTypeOK, OthersKept

(* SELECT orders ... FOR UPDATE adds the order lock and nothing else. *)
LEMMA TakeOrderKeeps ==
    ASSUME DatabaseTypeOK, NEW s \in Sessions, NEW o \in OrderIds,
           TakeOrder(s, o), UNCHANGED tables
    PROVE  /\ DatabaseTypeOK' /\ OthersKept(s) /\ OrdersKept /\ PositionsKept
           /\ txn'[s] = [txn[s] EXCEPT !.order = o]
<1> DEFINE t == [txn[s] EXCEPT !.order = o]
<1>1. txn[s] \in Txn
  BY DEF DatabaseTypeOK
<1>2. t \in Txn
  BY <1>1 DEF Txn
<1>3. txn' = [txn EXCEPT ![s] = t]
  BY <1>1 DEF TakeOrder, DatabaseTypeOK, Txn
<1> HIDE DEF t
<1>4. txn' \in [Sessions -> Txn] /\ OthersKept(s) /\ txn'[s] = t
  BY <1>2, <1>3, TxnStep
<1> QED
  BY <1>4, TablesKeep DEF DatabaseTypeOK, tables, t

(* _lock_wallet adds the wallet lock and the balance read under it. *)
LEMMA TakeWalletKeeps ==
    ASSUME DatabaseTypeOK, NEW s \in Sessions, NEW u \in Users,
           TakeWallet(s, u), UNCHANGED tables
    PROVE  /\ DatabaseTypeOK' /\ OthersKept(s) /\ OrdersKept /\ PositionsKept
           /\ txn'[s] = [txn[s] EXCEPT !.wallet = u, !.balance = wallet[u]]
<1> DEFINE t == [txn[s] EXCEPT !.wallet = u, !.balance = wallet[u]]
<1>1. wallet[u] \in Int /\ txn[s] \in Txn
  BY DEF DatabaseTypeOK
<1>2. t \in Txn
  BY <1>1 DEF Txn
<1>3. txn' = [txn EXCEPT ![s] = t]
  BY <1>1 DEF TakeWallet, DatabaseTypeOK, Txn
<1> HIDE DEF t
<1>4. txn' \in [Sessions -> Txn] /\ OthersKept(s) /\ txn'[s] = t
  BY <1>2, <1>3, TxnStep
<1> QED
  BY <1>4, TablesKeep DEF DatabaseTypeOK, tables, t

(* _lock_position adds the position lock and the row read under it, if    *)
(* there is such a row.                                                    *)
LEMMA TakePositionKeeps ==
    ASSUME DatabaseTypeOK, NEW s \in Sessions, NEW h \in Holdings,
           TakePosition(s, h), UNCHANGED tables
    PROVE  /\ DatabaseTypeOK' /\ OthersKept(s) /\ OrdersKept /\ PositionsKept
           /\ position[h] = Null => txn'[s] = txn[s]
           /\ position[h] # Null =>
                txn'[s] = [txn[s] EXCEPT !.position = h, !.row = position[h]]
<1> DEFINE t == [txn[s] EXCEPT !.position = h, !.row = position[h]]
<1>1. position[h] \in PositionRow \cup {Null} /\ txn[s] \in Txn
  BY DEF DatabaseTypeOK
<1>2. t \in Txn
  BY <1>1 DEF Txn
<1>3. CASE position[h] = Null
  BY <1>3, TablesKeep DEF TakePosition, DatabaseTypeOK, tables, OthersKept
<1>4. CASE position[h] # Null
  <2>1. txn' = [txn EXCEPT ![s] = t]
    BY <1>1, <1>4 DEF TakePosition, DatabaseTypeOK, Txn
  <2> HIDE DEF t
  <2>2. txn' \in [Sessions -> Txn] /\ OthersKept(s) /\ txn'[s] = t
    BY <1>2, <2>1, TxnStep
  <2> QED
    BY <1>4, <2>2, TablesKeep DEF DatabaseTypeOK, tables, t
<1> QED
  BY <1>3, <1>4

(* The end of a transaction drops the locks of its session only. *)
LEMMA EndTxnKeeps ==
    ASSUME DatabaseTypeOK, NEW s \in Sessions, EndTxn(s)
    PROVE  txn' \in [Sessions -> Txn] /\ OthersKept(s) /\ txn'[s] = NoTxn
BY DEF EndTxn, DatabaseTypeOK, OthersKept, Txn, NoTxn

(* A rollback drops the locks and leaves the tables as they were. *)
LEMMA RollbackKeeps ==
    ASSUME DatabaseTypeOK, NEW s \in Sessions, Rollback(s)
    PROVE  /\ DatabaseTypeOK' /\ OthersKept(s) /\ OrdersKept /\ PositionsKept
           /\ txn'[s] = NoTxn
BY EndTxnKeeps DEF Rollback, DatabaseTypeOK, OrdersKept, PositionsKept, tables, SameTerms

(* The commit of a TRIGGERED or FAILED status keeps the types, the terms   *)
(* of the order and the other sessions.                                    *)
LEMMA CommitStatusKeeps ==
    ASSUME DatabaseTypeOK, NEW s \in Sessions, NEW o \in OrderIds,
           orders[o] # Null, NEW status \in OrderStatus, CommitStatus(s, o, status)
    PROVE  /\ DatabaseTypeOK' /\ OthersKept(s) /\ OrdersKept /\ PositionsKept
           /\ txn'[s] = NoTxn
           /\ \A x \in OrderIds : orders[x] = Null => orders'[x] = Null
<1>1. orders[o] \in OrderRow
  BY DEF DatabaseTypeOK
<1>2. /\ [orders[o] EXCEPT !.status = status] \in OrderRow
      /\ SameTerms(orders[o], [orders[o] EXCEPT !.status = status])
  BY <1>1 DEF OrderRow, SameTerms
<1>3. orders' = [orders EXCEPT ![o] = [orders[o] EXCEPT !.status = status]]
  BY DEF CommitStatus
<1>4. orders' \in [OrderIds -> OrderRow \cup {Null}]
  BY <1>2, <1>3 DEF DatabaseTypeOK
<1>5. /\ OrdersKept
      /\ \A x \in OrderIds : orders[x] = Null => orders'[x] = Null
  BY <1>2, <1>3, NullAssumption DEF OrdersKept, SameTerms, DatabaseTypeOK
<1> QED
  BY <1>4, <1>5, EndTxnKeeps DEF CommitStatus, DatabaseTypeOK, PositionsKept

(* The commit of an execution does, if the locked row can deliver a sale. *)
LEMMA CommitFillKeeps ==
    ASSUME DatabaseTypeOK, NEW s \in Sessions, NEW o \in OrderIds,
           NEW order \in OrderRow, NEW price \in Prices,
           orders[o] # Null => orders[o] = order,
           Deliverable(s, order), CommitFill(s, o, order, price)
    PROVE  /\ DatabaseTypeOK' /\ OthersKept(s) /\ OrdersKept /\ PositionsKept
           /\ txn'[s] = NoTxn
           /\ \A x \in OrderIds : x # o => orders'[x] = orders[x]
<1> DEFINE h == Holding(order)
           value == OrderValue(order, price)
           balance == txn[s].balance + SignedValue(order.side, value)
           row == AfterFill(txn[s].row, order, price)
           entry == Entry(order.side, value, balance, o)
<1>1. /\ wallet' = [wallet EXCEPT ![order.user] = balance]
      /\ position' = [position EXCEPT ![h] = row]
      /\ ledger' = [ledger EXCEPT ![order.user] = Append(@, entry)]
      /\ orders' = [orders EXCEPT ![o] = Executed(order, price)]
      /\ EndTxn(s)
  BY DEF CommitFill
<1>2. order.user \in Users /\ h \in Holdings /\ order.side \in OrderSide
  BY DEF OrderRow
<1>3. value \in Nat
  BY OrderValueType
<1>4. txn[s].balance \in Int /\ txn[s].row \in PositionRow \cup {Null}
  BY DEF DatabaseTypeOK, Txn
<1>5. balance \in Int
  BY <1>3, <1>4 DEF SignedValue
<1>6. row \in PositionRow
  BY <1>4, AfterFillType DEF Deliverable
<1>7. entry \in WalletEntry
  BY <1>3, <1>5 DEF Entry, WalletEntry
<1>8. /\ Executed(order, price) \in OrderRow
      /\ SameTerms(order, Executed(order, price))
  BY ExecutedType
<1> HIDE DEF h, value, balance, row, entry
<1>9. wallet' \in [Users -> Int]
  BY <1>1, <1>5 DEF DatabaseTypeOK
<1>10. position' \in [Holdings -> PositionRow \cup {Null}] /\ PositionsKept
  BY <1>1, <1>6, NullAssumption DEF DatabaseTypeOK, PositionsKept
<1>11. ledger' \in [Users -> Seq(WalletEntry)]
  BY <1>1, <1>2, <1>7 DEF DatabaseTypeOK
<1>12. /\ orders' \in [OrderIds -> OrderRow \cup {Null}]
       /\ OrdersKept
       /\ \A x \in OrderIds : x # o => orders'[x] = orders[x]
  BY <1>1, <1>8, NullAssumption DEF DatabaseTypeOK, OrdersKept, SameTerms
<1> QED
  BY <1>1, <1>9, <1>10, <1>11, <1>12, EndTxnKeeps DEF DatabaseTypeOK

----------------------------------------------------------------------------
(* The plan of a session survives the steps of the others. *)

(* The plan of an order request that does not move. *)
LEMMA RequestPlanKept ==
    ASSUME NEW r \in RequestIds, RequestPlan(r), req'[r] = req[r],
           txn'[r] = txn[r], orders[r] = Null => orders'[r] = Null
    PROVE  RequestPlan(r)'
BY DEF RequestPlan, HasLooked, Deliverable

(* The plan of a subscriber that does not move, as the feed grows. *)
LEMMA MatcherPlanKept ==
    ASSUME NEW m \in Matchers, MatcherTypeOK, FeedTypeOK, MatcherPlan(m),
           mat'[m] = mat[m], txn'[m] = txn[m], OrdersKept,
           mat[m].pc # "listen" => cursor'[m] = cursor[m],
           Len(feed') \in Nat, Len(feed') >= Len(feed)
    PROVE  MatcherPlan(m)'
<1>1. mat[m].todo \subseteq OrderIds /\ mat[m].order \in OrderIds \cup {Null}
  BY DEF MatcherTypeOK, MatcherState
<1>2. mat[m].pc # "listen" => cursor'[m] \in 1 .. Len(feed')
  BY DEF MatcherPlan, FeedTypeOK
<1>3. \A x \in mat[m].todo : orders'[x] # Null
  BY <1>1 DEF MatcherPlan, OrdersKept
<1>4. mat[m].pc \in {"trigger", "order", "wallet", "position", "commit"} =>
        /\ mat[m].order # Null /\ orders'[mat[m].order] # Null
        /\ SameTerms(orders[mat[m].order], orders'[mat[m].order])
  BY <1>1 DEF MatcherPlan, OrdersKept
<1> QED
  BY <1>2, <1>3, <1>4 DEF MatcherPlan, HasLooked, Deliverable, SameTerms

(* The plan of a stop-loss engine that does not move, as the feed grows. *)
LEMMA EnginePlanKept ==
    ASSUME NEW e \in StopEngines, FeedTypeOK, EnginePlan(e),
           stp'[e] = stp[e], txn'[e] = txn[e],
           stp[e].pc # "listen" => cursor'[e] = cursor[e],
           Len(feed') \in Nat, Len(feed') >= Len(feed),
           \A i \in 1 .. Len(feed) : feed'[i] = feed[i]
    PROVE  EnginePlan(e)'
<1>1. stp[e].pc \notin {"listen", "crashed"} =>
        cursor'[e] \in 1 .. Len(feed') /\ Candidate(e)' = Candidate(e)
  BY DEF EnginePlan, Candidate, CurrentTick, FeedTypeOK
<1> QED
  BY <1>1 DEF EnginePlan

(* The plan of an update-sl request that does not move. *)
LEMMA EditorPlanKept ==
    ASSUME NEW d \in Editors, EditorTypeOK, EditorPlan(d), edit'[d] = edit[d], PositionsKept
    PROVE  EditorPlan(d)'
<1>1. edit[d].pc = "write" =>
        <<edit[d].payload.user, edit[d].payload.symbol>> \in Holdings
  BY DEF EditorTypeOK, EditorState, EditorPlan, ValidStopRequest
<1> QED
  BY <1>1 DEF EditorPlan, PositionsKept

(* The tick that a subscriber is working on is a tick. *)
LEMMA CurrentTickType ==
    ASSUME FeedTypeOK, NEW s \in Subscribers, cursor[s] \in 1 .. Len(feed)
    PROVE  CurrentTick(s) \in Tick
BY DEF FeedTypeOK, CurrentTick

----------------------------------------------------------------------------
(* The steps of an order request *)

(* Each step of place_order keeps the types, its own plan and what the     *)
(* plans of the others rest on.                                            *)
LEMMA RequestKeeps ==
    ASSUME DatabaseTypeOK, FeedTypeOK, RequestTypeOK,
           NEW r \in RequestIds, RequestPlan(r), RequestStep(r)
    PROVE  /\ DatabaseTypeOK' /\ RequestTypeOK' /\ RequestPlan(r)' /\ StepKept(r)
           /\ \A x \in RequestIds : x # r => req'[x] = req[x]
<1> DEFINE Goal == /\ DatabaseTypeOK' /\ RequestTypeOK' /\ RequestPlan(r)' /\ StepKept(r)
                   /\ \A x \in RequestIds : x # r => req'[x] = req[x]
<1>1. /\ r \in Sessions /\ r \in OrderIds
      /\ req[r] \in RequestState /\ txn[r] \in Txn
  BY DEF DatabaseTypeOK, RequestTypeOK
<1>2. ASSUME Answer(r)
      PROVE  /\ RequestTypeOK' /\ req'[r].pc = "done"
             /\ \A x \in RequestIds : x # r => req'[x] = req[x]
  BY <1>2 DEF Answer, Answered, RequestTypeOK, RequestState, RequestPc
<1>3. ASSUME NEW pc \in RequestPc, GoTo(r, pc)
      PROVE  /\ RequestTypeOK' /\ req'[r] = [req[r] EXCEPT !.pc = pc]
             /\ \A x \in RequestIds : x # r => req'[x] = req[x]
  <2>1. [req[r] EXCEPT !.pc = pc] \in RequestState
    BY <1>1 DEF RequestState
  <2>2. req' = [req EXCEPT ![r] = [req[r] EXCEPT !.pc = pc]]
    BY <1>1, <1>3 DEF GoTo, RequestState, RequestTypeOK
  <2> QED
    BY <2>1, <2>2 DEF RequestTypeOK
<1>4. ASSUME req[r].pc \in {"wallet", "position", "commit"}
      PROVE  /\ req[r].order \in OrderRow /\ req[r].price \in Prices
             /\ req[r].order.user \in Users /\ Holding(req[r].order) \in Holdings
             /\ orders[r] = Null
  BY <1>1, <1>4 DEF RequestPlan, RequestState, OrderRow
<1>5. ASSUME Rollback(r), Answer(r)
      PROVE  Goal
  BY <1>1, <1>2, <1>5, RollbackKeeps DEF Rollback, tables, StepKept, StillAbsent, RequestPlan
<1>6. ASSUME PlacePending(r)
      PROVE  Goal
  <2>1. PICK q \in OrderRequests : orders' = [orders EXCEPT ![r] = NewOrder(q)]
    BY <1>6 DEF PlacePending
  <2>2. NewOrder(q) \in OrderRow /\ orders[r] = Null
    BY <1>6, NewOrderType DEF PlacePending, RequestPlan
  <2>3. orders' \in [OrderIds -> OrderRow \cup {Null}]
    BY <2>1, <2>2 DEF DatabaseTypeOK
  <2>4. OrdersKept /\ StillAbsent(r)
    BY <2>1, <2>2 DEF DatabaseTypeOK, OrdersKept, StillAbsent, SameTerms
  <2>5. txn[r] = NoTxn
    BY <1>6 DEF PlacePending, RequestPlan
  <2> QED
    BY <1>2, <1>6, <2>3, <2>4, <2>5 DEF PlacePending, DatabaseTypeOK, StepKept,
       OthersKept, PositionsKept, RequestPlan
<1>7. ASSUME PlaceMarket(r)
      PROVE  Goal
  <2>1. /\ DatabaseTypeOK' /\ StepKept(r)
        /\ txn[r] = NoTxn /\ txn'[r] = txn[r] /\ orders[r] = Null /\ orders'[r] = Null
    BY <1>7 DEF PlaceMarket, dbVars, DatabaseTypeOK, StepKept, OthersKept, OrdersKept,
       PositionsKept, StillAbsent, SameTerms, RequestPlan
  <2>2. CASE Answer(r)
    BY <1>2, <2>1, <2>2 DEF RequestPlan
  <2>3. CASE \E q \in OrderRequests :
               /\ price_key[q.symbol] # Null
               /\ req' = [req EXCEPT ![r] = [pc |-> "wallet", order |-> NewOrder(q),
                                             price |-> price_key[q.symbol]]]
    <3>1. PICK q \in OrderRequests :
               /\ price_key[q.symbol] # Null
               /\ req' = [req EXCEPT ![r] = [pc |-> "wallet", order |-> NewOrder(q),
                                             price |-> price_key[q.symbol]]]
      BY <2>3
    <3>2. q.symbol \in Symbols /\ price_key[q.symbol] \in Prices
      BY <3>1, RequestsAssumption DEF ValidOrderRequest, FeedTypeOK
    <3>3. NewOrder(q) \in OrderRow
      BY NewOrderType
    <3>4. NewOrder(q) # Null
      BY <3>3, NullAssumption
    <3>5. RequestTypeOK'
      BY <3>1, <3>2, <3>3 DEF RequestTypeOK, RequestState, RequestPc
    <3>6. req'[r] = [pc |-> "wallet", order |-> NewOrder(q), price |-> price_key[q.symbol]]
      BY <3>1 DEF RequestTypeOK
    <3>7. RequestPlan(r)'
      BY <2>1, <3>1, <3>4, <3>6 DEF RequestPlan
    <3> QED
      BY <2>1, <3>1, <3>5, <3>7
  <2> QED
    BY <1>7, <2>2, <2>3 DEF PlaceMarket
<1>8. ASSUME LockWallet(r)
      PROVE  Goal
  <2>1. req[r].pc = "wallet" /\ UNCHANGED tables
    BY <1>8 DEF LockWallet
  <2>2. CASE EndTxn(r) /\ Answer(r)
    BY <1>5, <2>1, <2>2 DEF Rollback
  <2>3. CASE TakeWallet(r, req[r].order.user) /\ GoTo(r, "position")
    <3>1. /\ DatabaseTypeOK' /\ OthersKept(r) /\ OrdersKept /\ PositionsKept
          /\ txn'[r] = [txn[r] EXCEPT !.wallet = req[r].order.user,
                                      !.balance = wallet[req[r].order.user]]
      BY <1>1, <1>4, <2>1, <2>3, TakeWalletKeeps
    <3>2. StepKept(r)
      BY <2>1, <3>1 DEF StepKept, StillAbsent, tables
    <3>3. txn[r] = NoTxn /\ orders'[r] = Null
      BY <1>4, <2>1 DEF RequestPlan, tables
    <3>4. txn'[r].order = Null /\ txn'[r].wallet = req[r].order.user
          /\ txn'[r].position = Null /\ txn'[r].row = Null
      BY <3>1, <3>3 DEF NoTxn
    <3>5. "position" \in RequestPc
      BY DEF RequestPc
    <3>6. /\ RequestTypeOK' /\ req'[r] = [req[r] EXCEPT !.pc = "position"]
          /\ \A x \in RequestIds : x # r => req'[x] = req[x]
      BY <1>3, <2>3, <3>5
    <3>7. req'[r].pc = "position" /\ req'[r].order = req[r].order /\ req'[r].price = req[r].price
      BY <1>1, <3>6 DEF RequestState
    <3>8. RequestPlan(r)'
      BY <2>1, <3>3, <3>4, <3>7 DEF RequestPlan
    <3> QED
      BY <3>1, <3>2, <3>6, <3>8
  <2> QED
    BY <1>8, <2>2, <2>3 DEF LockWallet
<1>9. ASSUME LockPosition(r)
      PROVE  Goal
  <2> DEFINE order == req[r].order
             h == Holding(order)
  <2>1. req[r].pc = "position" /\ UNCHANGED tables
    BY <1>9 DEF LockPosition
  <2>2. CASE EndTxn(r) /\ Answer(r)
    BY <1>5, <2>1, <2>2 DEF Rollback
  <2>3. CASE ~CannotDeliver(position[h], order) /\ TakePosition(r, h) /\ GoTo(r, "commit")
    <3>1. h \in Holdings /\ order \in OrderRow /\ orders[r] = Null
      BY <1>4, <2>1
    <3>2. /\ DatabaseTypeOK' /\ OthersKept(r) /\ OrdersKept /\ PositionsKept
          /\ position[h] = Null => txn'[r] = txn[r]
          /\ position[h] # Null =>
               txn'[r] = [txn[r] EXCEPT !.position = h, !.row = position[h]]
      BY <1>1, <2>1, <2>3, <3>1, TakePositionKeeps
    <3>3. StepKept(r) /\ orders'[r] = Null
      BY <2>1, <3>1, <3>2 DEF StepKept, StillAbsent, tables
    <3>4. /\ txn[r].order = Null /\ txn[r].wallet = order.user
          /\ txn[r].position = Null /\ txn[r].row = Null
      BY <2>1 DEF RequestPlan
    <3>5. /\ txn'[r].order = Null /\ txn'[r].wallet = order.user
          /\ txn'[r].position \in {Null, h}
          /\ txn'[r].position = Null => txn'[r].row = Null
          /\ txn'[r].row = position[h]
      BY <1>1, <3>1, <3>2, <3>4, NullAssumption DEF Txn
    <3>6. position[h] \in PositionRow \cup {Null} /\ order.quantity \in Nat \ {0}
      BY <3>1 DEF DatabaseTypeOK, OrderRow
    <3>7. order.side = "sell" => position[h] # Null /\ position[h].quantity >= order.quantity
      BY <2>3, <3>6 DEF CannotDeliver, Held, PositionRow
    <3>8. "commit" \in RequestPc
      BY DEF RequestPc
    <3>9. /\ RequestTypeOK' /\ req'[r] = [req[r] EXCEPT !.pc = "commit"]
          /\ \A x \in RequestIds : x # r => req'[x] = req[x]
      BY <1>3, <2>3, <3>8
    <3>10. req'[r].pc = "commit" /\ req'[r].order = order /\ req'[r].price = req[r].price
      BY <1>1, <3>9 DEF RequestState
    <3> HIDE DEF h
    <3>11. RequestPlan(r)'
      BY <2>1, <3>3, <3>5, <3>7, <3>10 DEF RequestPlan, HasLooked, Deliverable, h
    <3> QED
      BY <3>2, <3>3, <3>9, <3>11
  <2> QED
    BY <1>9, <2>2, <2>3 DEF LockPosition
<1>10. ASSUME CommitOrder(r)
       PROVE  Goal
  <2>1. /\ req[r].pc = "commit" /\ Answer(r)
        /\ CommitFill(r, r, req[r].order, req[r].price)
    BY <1>10 DEF CommitOrder
  <2>2. Deliverable(r, req[r].order)
    BY <2>1 DEF RequestPlan
  <2>3. /\ DatabaseTypeOK' /\ OthersKept(r) /\ OrdersKept /\ PositionsKept
        /\ txn'[r] = NoTxn
        /\ \A x \in OrderIds : x # r => orders'[x] = orders[x]
    BY <1>1, <1>4, <2>1, <2>2, CommitFillKeeps
  <2> QED
    BY <1>2, <2>1, <2>3 DEF StepKept, StillAbsent, RequestPlan
<1>11. ASSUME FailRequest(r)
       PROVE  Goal
  BY <1>5, <1>11 DEF FailRequest
<1> QED
  BY <1>6, <1>7, <1>8, <1>9, <1>10, <1>11 DEF RequestStep

----------------------------------------------------------------------------
(* The steps of process_price_update *)

(* What a matcher owes the invariant when it has ended a transaction. *)
LEMMA ProceedKeeps ==
    ASSUME MatcherTypeOK, NEW m \in Matchers, NEW rest \in SUBSET OrderIds,
           Proceed(m, rest), txn'[m] = NoTxn, UNCHANGED feedVars,
           cursor[m] \in 1 .. Len(feed),
           \A x \in rest : orders'[x] # Null
    PROVE  /\ MatcherTypeOK' /\ MatcherPlan(m)'
           /\ \A x \in Matchers : x # m => mat'[x] = mat[x]
<1>1. mat[m] \in MatcherState /\ mat[m].phase \in {1, 2}
  BY DEF MatcherTypeOK, MatcherState
<1>2. ASSUME NEW t \in MatcherState, mat' = [mat EXCEPT ![m] = t],
             t.pc \in {"listen", "scan", "trigger", "order"},
             \A x \in t.todo : orders'[x] # Null,
             t.pc \in {"trigger", "order"} => t.order # Null /\ orders'[t.order] # Null
      PROVE  /\ MatcherTypeOK' /\ MatcherPlan(m)'
             /\ \A x \in Matchers : x # m => mat'[x] = mat[x]
  <2>1. mat'[m] = t /\ MatcherTypeOK' /\ \A x \in Matchers : x # m => mat'[x] = mat[x]
    BY <1>2 DEF MatcherTypeOK
  <2>2. cursor'[m] \in 1 .. Len(feed')
    BY DEF feedVars
  <2> QED
    BY <1>2, <2>1, <2>2 DEF MatcherPlan
<1>3. CASE \E o \in rest :
        mat' = [mat EXCEPT ![m] =
            [pc |-> IF mat[m].phase = 1 /\ ~Crosses(m, o) THEN "trigger" ELSE "order",
             phase |-> mat[m].phase, todo |-> rest \ {o}, order |-> o]]
  <2>1. PICK o \in rest :
        mat' = [mat EXCEPT ![m] =
            [pc |-> IF mat[m].phase = 1 /\ ~Crosses(m, o) THEN "trigger" ELSE "order",
             phase |-> mat[m].phase, todo |-> rest \ {o}, order |-> o]]
    BY <1>3
  <2> DEFINE t ==
        [pc |-> IF mat[m].phase = 1 /\ ~Crosses(m, o) THEN "trigger" ELSE "order",
         phase |-> mat[m].phase, todo |-> rest \ {o}, order |-> o]
  <2>2. t \in MatcherState /\ t.pc \in {"trigger", "order"} /\ o \in OrderIds
    BY <1>1 DEF MatcherState, MatcherPc
  <2>3. t.order # Null /\ orders'[t.order] # Null /\ \A x \in t.todo : orders'[x] # Null
    BY <2>2, NullAssumption
  <2> QED
    BY <1>2, <2>1, <2>2, <2>3
<1>4. CASE mat' = [mat EXCEPT ![m] = Scanning(2)]
  <2>1. Scanning(2) \in MatcherState /\ Scanning(2).pc = "scan" /\ Scanning(2).todo = {}
    BY DEF Scanning, Listening, MatcherState, MatcherPc
  <2> QED
    BY <1>2, <1>4, <2>1
<1>5. CASE mat' = [mat EXCEPT ![m] = Listening]
  <2>1. Listening \in MatcherState /\ Listening.pc = "listen" /\ Listening.todo = {}
    BY DEF Listening, MatcherState, MatcherPc
  <2> QED
    BY <1>2, <1>5, <2>1
<1> QED
  BY <1>3, <1>4, <1>5 DEF Proceed

(* Each step of process_price_update does, and so does its cancellation. *)
LEMMA MatcherKeeps ==
    ASSUME DatabaseTypeOK, FeedTypeOK, MatcherTypeOK,
           NEW m \in Matchers, MatcherPlan(m), MatcherStep(m)
    PROVE  /\ DatabaseTypeOK' /\ FeedTypeOK' /\ MatcherTypeOK' /\ MatcherPlan(m)' /\ StepKept(m)
           /\ \A x \in Matchers : x # m => mat'[x] = mat[x]
           /\ feed' = feed
           /\ \A x \in Subscribers : x # m => cursor'[x] = cursor[x]
<1> DEFINE Kept == /\ MatcherTypeOK' /\ MatcherPlan(m)'
                   /\ \A x \in Matchers : x # m => mat'[x] = mat[x]
           Stored == DatabaseTypeOK' /\ StepKept(m)
           o == mat[m].order
           order == orders[o]
<1>1. /\ m \in Sessions /\ m \in Subscribers /\ m \notin RequestIds
      /\ mat[m] \in MatcherState /\ txn[m] \in Txn
      /\ mat[m].todo \in SUBSET OrderIds
  BY IdsAssumption DEF DatabaseTypeOK, MatcherTypeOK, MatcherState
<1>2. mat[m].pc # "listen" =>
        /\ cursor[m] \in 1 .. Len(feed)
        /\ MatchPrice(m) \in Prices
  BY <1>1, CurrentTickType DEF MatcherPlan, MatchPrice, Tick
<1>3. ASSUME mat[m].pc \in {"trigger", "order", "wallet", "position", "commit"}
      PROVE  /\ o \in OrderIds /\ order # Null /\ order \in OrderRow
             /\ order.user \in Users /\ Holding(order) \in Holdings
             /\ cursor[m] \in 1 .. Len(feed) /\ MatchPrice(m) \in Prices
  BY <1>1, <1>2, <1>3 DEF MatcherPlan, MatcherState, OrderRow, DatabaseTypeOK
<1>4. ASSUME NEW pc \in {"wallet", "position", "commit"}, MatchGoTo(m, pc)
      PROVE  /\ MatcherTypeOK' /\ mat'[m].pc = pc
             /\ mat'[m].order = o /\ mat'[m].todo = mat[m].todo
             /\ \A x \in Matchers : x # m => mat'[x] = mat[x]
  <2>1. [mat[m] EXCEPT !.pc = pc] \in MatcherState
    BY <1>1 DEF MatcherState, MatcherPc
  <2>2. mat' = [mat EXCEPT ![m] = [mat[m] EXCEPT !.pc = pc]]
    BY <1>1, <1>4 DEF MatchGoTo, MatcherState, MatcherTypeOK
  <2>3. mat'[m] = [mat[m] EXCEPT !.pc = pc]
    BY <2>2 DEF MatcherTypeOK
  <2> QED
    BY <1>1, <2>1, <2>2, <2>3 DEF MatcherTypeOK, MatcherState
<1>5. ASSUME UNCHANGED dbVars
      PROVE  Stored /\ txn'[m] = txn[m] /\ orders' = orders
  BY <1>5 DEF dbVars, DatabaseTypeOK, StepKept, OthersKept, OrdersKept,
     PositionsKept, StillAbsent, SameTerms
<1>6. ASSUME NextCandidate(m), Stored, txn'[m] = NoTxn, UNCHANGED feedVars,
             mat[m].pc # "listen"
      PROVE  Kept
  <2>1. \A x \in mat[m].todo : orders'[x] # Null
    BY <1>1, <1>6 DEF StepKept, OrdersKept, MatcherPlan
  <2> QED
    BY <1>1, <1>2, <1>6, <2>1, ProceedKeeps DEF NextCandidate
<1>7. ASSUME NEW status \in OrderStatus, CommitStatus(m, o, status),
             o \in OrderIds, order # Null
      PROVE  Stored /\ txn'[m] = NoTxn
  BY <1>1, <1>7, CommitStatusKeeps DEF StepKept, StillAbsent
<1>8. ASSUME UNCHANGED feedVars
      PROVE  /\ FeedTypeOK' /\ feed' = feed
             /\ \A x \in Subscribers : x # m => cursor'[x] = cursor[x]
  BY <1>8 DEF feedVars, FeedTypeOK
<1>9. ASSUME Scan(m), UNCHANGED feedVars
      PROVE  Stored /\ Kept
  <2>1. mat[m].pc = "scan" /\ Stored /\ txn'[m] = NoTxn /\ orders' = orders
    BY <1>5, <1>9 DEF Scan, MatcherPlan
  <2>2. CASE mat' = [mat EXCEPT ![m] = Listening]
    BY <2>1, <2>2 DEF MatcherTypeOK, MatcherState, MatcherPc, Listening, MatcherPlan
  <2>3. CASE Proceed(m, Selected(m, mat[m].phase))
    <3>1. /\ Selected(m, mat[m].phase) \in SUBSET OrderIds
          /\ \A x \in Selected(m, mat[m].phase) : orders[x] # Null
      BY DEF Selected, ActiveOrders
    <3> QED
      BY <1>2, <1>9, <2>1, <2>3, <3>1, ProceedKeeps
  <2> QED
    BY <1>9, <2>1, <2>2, <2>3 DEF Scan
<1>10. ASSUME TriggerOrder(m), UNCHANGED feedVars
       PROVE  Stored /\ Kept
  <2>1. mat[m].pc = "trigger" /\ NextCandidate(m)
    BY <1>10 DEF TriggerOrder
  <2>2. CASE CommitStatus(m, o, "triggered")
    BY <1>3, <1>6, <1>7, <1>10, <2>1, <2>2
  <2>3. CASE UNCHANGED dbVars
    <3>1. txn'[m] = NoTxn
      BY <2>1, <2>3 DEF MatcherPlan, dbVars
    <3> QED
      BY <1>5, <1>6, <1>10, <2>1, <2>3, <3>1
  <2> QED
    BY <1>10, <2>2, <2>3 DEF TriggerOrder
<1>11. ASSUME ExecuteLocksOrder(m), UNCHANGED feedVars
       PROVE  Stored /\ Kept
  <2>1. mat[m].pc = "order" /\ UNCHANGED tables /\ txn[m] = NoTxn
    BY <1>11 DEF ExecuteLocksOrder, MatcherPlan
  <2>2. CASE TakeOrder(m, o) /\ MatchGoTo(m, "wallet")
    <3>1. /\ DatabaseTypeOK' /\ OthersKept(m) /\ OrdersKept /\ PositionsKept
          /\ txn'[m] = [txn[m] EXCEPT !.order = o]
      BY <1>1, <1>3, <2>1, <2>2, TakeOrderKeeps
    <3>2. /\ txn'[m].order = o /\ txn'[m].wallet = Null
          /\ txn'[m].position = Null /\ txn'[m].row = Null
      BY <2>1, <3>1 DEF NoTxn
    <3>3. Stored /\ orders' = orders
      BY <2>1, <3>1 DEF StepKept, StillAbsent, tables
    <3>4. MatcherPlan(m)'
      BY <1>2, <1>3, <1>4, <1>11, <2>1, <2>2, <3>2, <3>3 DEF MatcherPlan, feedVars
    <3> QED
      BY <1>4, <2>2, <3>3, <3>4
  <2>3. CASE UNCHANGED txn /\ NextCandidate(m)
    <3>1. UNCHANGED dbVars
      BY <2>1, <2>3 DEF dbVars, tables
    <3> QED
      BY <1>5, <1>6, <1>11, <2>1, <2>3, <3>1
  <2> QED
    BY <1>11, <2>2, <2>3 DEF ExecuteLocksOrder
<1>12. ASSUME ExecuteLocksWallet(m), UNCHANGED feedVars
       PROVE  Stored /\ Kept
  <2>1. mat[m].pc = "wallet"
    BY <1>12 DEF ExecuteLocksWallet
  <2>2. CASE CommitStatus(m, o, "failed") /\ NextCandidate(m)
    BY <1>3, <1>6, <1>7, <1>12, <2>1, <2>2
  <2>3. CASE TakeWallet(m, order.user) /\ MatchGoTo(m, "position") /\ UNCHANGED tables
    <3>1. /\ DatabaseTypeOK' /\ OthersKept(m) /\ OrdersKept /\ PositionsKept
          /\ txn'[m] = [txn[m] EXCEPT !.wallet = order.user, !.balance = wallet[order.user]]
      BY <1>1, <1>3, <2>1, <2>3, TakeWalletKeeps
    <3>2. txn[m].order = o /\ txn[m].position = Null /\ txn[m].row = Null
      BY <2>1 DEF MatcherPlan
    <3>3. /\ txn'[m].order = o /\ txn'[m].wallet = order.user
          /\ txn'[m].position = Null /\ txn'[m].row = Null
      BY <1>1, <3>1, <3>2 DEF Txn
    <3>4. Stored /\ orders' = orders
      BY <2>3, <3>1 DEF StepKept, StillAbsent, tables
    <3>5. MatcherPlan(m)'
      BY <1>2, <1>3, <1>4, <1>12, <2>1, <2>3, <3>3, <3>4 DEF MatcherPlan, feedVars
    <3> QED
      BY <1>4, <2>3, <3>4, <3>5
  <2> QED
    BY <1>12, <2>2, <2>3 DEF ExecuteLocksWallet
<1>13. ASSUME ExecuteLocksPosition(m), UNCHANGED feedVars
       PROVE  Stored /\ Kept
  <2> DEFINE h == Holding(order)
  <2>1. mat[m].pc = "position"
    BY <1>13 DEF ExecuteLocksPosition
  <2>2. CASE CommitStatus(m, o, "failed") /\ NextCandidate(m)
    BY <1>3, <1>6, <1>7, <1>13, <2>1, <2>2
  <2>3. CASE /\ ~CannotDeliver(position[h], order)
             /\ TakePosition(m, h) /\ MatchGoTo(m, "commit") /\ UNCHANGED tables
    <3>1. /\ DatabaseTypeOK' /\ OthersKept(m) /\ OrdersKept /\ PositionsKept
          /\ position[h] = Null => txn'[m] = txn[m]
          /\ position[h] # Null =>
               txn'[m] = [txn[m] EXCEPT !.position = h, !.row = position[h]]
      BY <1>1, <1>3, <2>1, <2>3, TakePositionKeeps
    <3>2. /\ txn[m].order = o /\ txn[m].wallet = order.user
          /\ txn[m].position = Null /\ txn[m].row = Null
      BY <2>1 DEF MatcherPlan
    <3>3. /\ txn'[m].order = o /\ txn'[m].wallet = order.user
          /\ txn'[m].position \in {Null, h} /\ txn'[m].row = position[h]
          /\ txn'[m].position = Null => txn'[m].row = Null
      <4>1. CASE position[h] = Null
        BY <3>1, <3>2, <4>1
      <4>2. CASE position[h] # Null
        <5>1. h # Null /\ h \in Holdings
          BY <1>3, <2>1, NullAssumption DEF OrderRow
        <5>2. txn[m] \in Txn
          BY <1>1, <1>3 DEF DatabaseTypeOK
        <5>3. txn'[m] = [txn[m] EXCEPT !.position = h, !.row = position[h]]
          BY <3>1, <4>2
        <5> HIDE DEF h
        <5> QED
          BY <3>2, <5>1, <5>2, <5>3 DEF Txn
      <4> QED
        BY <4>1, <4>2
    <3>4. position[h] \in PositionRow \cup {Null} /\ order.quantity \in Nat \ {0}
      BY <1>3, <2>1 DEF DatabaseTypeOK, OrderRow
    <3>5. order.side = "sell" => position[h] # Null /\ position[h].quantity >= order.quantity
      <4> HIDE DEF h
      <4> QED
        BY <2>3, <3>4 DEF CannotDeliver, Held, PositionRow
    <3>6. Stored /\ orders' = orders
      BY <2>3, <3>1 DEF StepKept, StillAbsent, tables
    <3>7. mat'[m].pc = "commit" /\ mat'[m].order = o /\ mat'[m].todo = mat[m].todo
      BY <1>4, <2>3
    <3>8. cursor'[m] \in 1 .. Len(feed')
      BY <1>2, <1>13, <2>1 DEF feedVars
    <3>9. \A x \in mat[m].todo : orders[x] # Null
      BY DEF MatcherPlan
    <3>10. o # Null /\ order # Null
      BY <2>1 DEF MatcherPlan
    <3> HIDE DEF h, o
    <3>11. MatcherPlan(m)'
      BY <3>3, <3>5, <3>6, <3>7, <3>8, <3>9, <3>10 DEF MatcherPlan, HasLooked, Deliverable, h
    <3> QED
      BY <1>4, <2>3, <3>6, <3>11
  <2> QED
    BY <1>13, <2>2, <2>3 DEF ExecuteLocksPosition
<1>14. ASSUME ExecuteCommits(m), UNCHANGED feedVars
       PROVE  Stored /\ Kept
  <2>1. /\ mat[m].pc = "commit" /\ NextCandidate(m)
        /\ CommitFill(m, o, order, MatchPrice(m))
    BY <1>14 DEF ExecuteCommits
  <2>2. Deliverable(m, order)
    BY <2>1 DEF MatcherPlan
  <2>3. /\ DatabaseTypeOK' /\ OthersKept(m) /\ OrdersKept /\ PositionsKept
        /\ txn'[m] = NoTxn
        /\ \A x \in OrderIds : x # o => orders'[x] = orders[x]
    BY <1>1, <1>3, <2>1, <2>2, CommitFillKeeps
  <2>4. StillAbsent(m)
    BY <1>3, <2>1, <2>3 DEF StillAbsent
  <2> QED
    BY <1>6, <1>14, <2>1, <2>3, <2>4 DEF StepKept
<1>15. ASSUME Rollback(m)
       PROVE  Stored /\ txn'[m] = NoTxn
  BY <1>1, <1>15, RollbackKeeps DEF Rollback, StepKept, StillAbsent, tables
<1>16. ASSUME ExecuteFails(m), UNCHANGED feedVars
       PROVE  Stored /\ Kept
  BY <1>6, <1>15, <1>16 DEF ExecuteFails
<1>17. ASSUME mat' = [mat EXCEPT ![m] = Listening], Stored, txn'[m] = NoTxn
       PROVE  Kept
  BY <1>17 DEF MatcherTypeOK, MatcherState, MatcherPc, Listening, MatcherPlan
<1>18. ASSUME ScanFails(m)
       PROVE  Stored /\ Kept
  BY <1>5, <1>17, <1>18 DEF ScanFails, MatcherPlan
<1>19. ASSUME ReceiveTick(m)
       PROVE  /\ Stored /\ Kept /\ FeedTypeOK' /\ feed' = feed
              /\ \A x \in Subscribers : x # m => cursor'[x] = cursor[x]
  <2>1. /\ mat[m].pc = "listen" /\ TakeTick(m) /\ UNCHANGED dbVars
        /\ mat' = [mat EXCEPT ![m] = Scanning(1)]
    BY <1>19 DEF ReceiveTick
  <2>2. Scanning(1) \in MatcherState /\ Scanning(1).pc = "scan" /\ Scanning(1).todo = {}
    BY DEF Scanning, Listening, MatcherState, MatcherPc
  <2>3. /\ MatcherTypeOK' /\ mat'[m] = Scanning(1)
        /\ \A x \in Matchers : x # m => mat'[x] = mat[x]
    BY <2>1, <2>2 DEF MatcherTypeOK
  <2>4. /\ FeedTypeOK' /\ feed' = feed /\ cursor'[m] \in 1 .. Len(feed')
        /\ \A x \in Subscribers : x # m => cursor'[x] = cursor[x]
    BY <1>1, <2>1 DEF TakeTick, FeedTypeOK
  <2>5. Stored /\ txn'[m] = NoTxn
    BY <1>5, <2>1 DEF MatcherPlan
  <2> QED
    BY <2>2, <2>3, <2>4, <2>5 DEF MatcherPlan
<1>20. ASSUME Resubscribe(m)
       PROVE  /\ Stored /\ Kept /\ FeedTypeOK' /\ feed' = feed
              /\ \A x \in Subscribers : x # m => cursor'[x] = cursor[x]
  <2>1. /\ FeedTypeOK' /\ feed' = feed
        /\ \A x \in Subscribers : x # m => cursor'[x] = cursor[x]
    BY <1>20 DEF Resubscribe, SkipToEnd, FeedTypeOK
  <2> QED
    BY <1>15, <1>17, <1>20, <2>1 DEF Resubscribe
<1> QED
  BY <1>8, <1>9, <1>10, <1>11, <1>12, <1>13, <1>14, <1>16, <1>18, <1>19, <1>20
     DEF MatcherStep, MatchStep

----------------------------------------------------------------------------
(* The steps of the stop-loss engine *)

(* What the stop-loss engine owes the invariant between two candidates. *)
LEMMA TryNextKeeps ==
    ASSUME EngineTypeOK, NEW e \in StopEngines, NEW rest \in SUBSET Users,
           TryNext(e, rest), txn'[e] = NoTxn, UNCHANGED feedVars,
           cursor[e] \in 1 .. Len(feed)
    PROVE  /\ EngineTypeOK' /\ EnginePlan(e)'
           /\ \A x \in StopEngines : x # e => stp'[x] = stp[x]
<1>1. CASE \E u \in rest :
        stp' = [stp EXCEPT ![e] = [pc |-> "wallet", todo |-> rest \ {u}, user |-> u]]
  <2>1. PICK u \in rest :
        stp' = [stp EXCEPT ![e] = [pc |-> "wallet", todo |-> rest \ {u}, user |-> u]]
    BY <1>1
  <2>2. [pc |-> "wallet", todo |-> rest \ {u}, user |-> u] \in EngineState /\ u # Null
    BY NullAssumption DEF EngineState, EnginePc
  <2> QED
    BY <2>1, <2>2 DEF EngineTypeOK, EnginePlan, feedVars
<1>2. CASE stp' = [stp EXCEPT ![e] = EngineIdle]
  BY <1>2 DEF EngineTypeOK, EngineState, EnginePc, EngineIdle, EnginePlan
<1> QED
  BY <1>1, <1>2 DEF TryNext

(* Each step of the stop-loss engine does, its crash included. *)
LEMMA EngineKeeps ==
    ASSUME DatabaseTypeOK, FeedTypeOK, EngineTypeOK,
           NEW e \in StopEngines, EnginePlan(e), EngineStep(e)
    PROVE  /\ DatabaseTypeOK' /\ FeedTypeOK' /\ EngineTypeOK' /\ EnginePlan(e)' /\ StepKept(e)
           /\ \A x \in StopEngines : x # e => stp'[x] = stp[x]
           /\ feed' = feed
           /\ \A x \in Subscribers : x # e => cursor'[x] = cursor[x]
<1> DEFINE Kept == /\ EngineTypeOK' /\ EnginePlan(e)'
                   /\ \A x \in StopEngines : x # e => stp'[x] = stp[x]
           Stored == DatabaseTypeOK' /\ StepKept(e)
           h == Candidate(e)
<1>1. /\ e \in Sessions /\ e \in Subscribers /\ e \notin RequestIds
      /\ stp[e] \in EngineState /\ txn[e] \in Txn
      /\ stp[e].todo \in SUBSET Users
  BY IdsAssumption DEF DatabaseTypeOK, EngineTypeOK, EngineState
<1>2. ASSUME stp[e].pc \notin {"listen", "crashed"}
      PROVE  /\ cursor[e] \in 1 .. Len(feed)
             /\ CurrentTick(e) \in Tick /\ StopPrice(e) \in Prices
  BY <1>1, <1>2, CurrentTickType DEF EnginePlan, StopPrice, Tick
<1>3. ASSUME stp[e].pc \in {"wallet", "position", "commit"}
      PROVE  stp[e].user \in Users /\ h \in Holdings
  BY <1>1, <1>2, <1>3 DEF EnginePlan, EngineState, Candidate, Tick
<1>4. ASSUME NEW pc \in {"scan", "position", "commit"}, EngineGoTo(e, pc)
      PROVE  /\ EngineTypeOK' /\ stp'[e].pc = pc /\ stp'[e].user = stp[e].user
             /\ \A x \in StopEngines : x # e => stp'[x] = stp[x]
  <2>1. [stp[e] EXCEPT !.pc = pc] \in EngineState
    BY <1>1 DEF EngineState, EnginePc
  <2>2. stp' = [stp EXCEPT ![e] = [stp[e] EXCEPT !.pc = pc]]
    BY <1>1, <1>4 DEF EngineGoTo, EngineState, EngineTypeOK
  <2>3. stp'[e] = [stp[e] EXCEPT !.pc = pc]
    BY <2>2 DEF EngineTypeOK
  <2> QED
    BY <1>1, <2>1, <2>2, <2>3 DEF EngineTypeOK, EngineState
<1>5. ASSUME UNCHANGED dbVars
      PROVE  Stored /\ txn'[e] = txn[e]
  BY <1>5 DEF dbVars, DatabaseTypeOK, StepKept, OthersKept, OrdersKept,
     PositionsKept, StillAbsent, SameTerms
<1>6. ASSUME TryNext(e, stp[e].todo), txn'[e] = NoTxn, UNCHANGED feedVars,
             stp[e].pc \notin {"listen", "crashed"}
      PROVE  Kept
  BY <1>1, <1>2, <1>6, TryNextKeeps
<1>7. ASSUME Rollback(e)
      PROVE  Stored /\ txn'[e] = NoTxn
  BY <1>1, <1>7, RollbackKeeps DEF Rollback, StepKept, StillAbsent, tables
<1>8. ASSUME UNCHANGED feedVars
      PROVE  /\ FeedTypeOK' /\ feed' = feed
             /\ \A x \in Subscribers : x # e => cursor'[x] = cursor[x]
  BY <1>8 DEF feedVars, FeedTypeOK
<1>9. ASSUME EngineScans(e), UNCHANGED feedVars
      PROVE  Stored /\ Kept
  <2>1. stp[e].pc = "scan" /\ Stored /\ txn'[e] = NoTxn
    BY <1>5, <1>9 DEF EngineScans, EnginePlan
  <2>2. PICK rest \in SUBSET Users : TryNext(e, rest)
    BY <1>9 DEF EngineScans
  <2> QED
    BY <1>2, <1>9, <2>1, <2>2, TryNextKeeps
<1>10. ASSUME EngineLocksWallet(e), UNCHANGED feedVars
       PROVE  Stored /\ Kept
  <2>1. /\ stp[e].pc = "wallet" /\ TakeWallet(e, stp[e].user)
        /\ EngineGoTo(e, "position") /\ UNCHANGED tables
    BY <1>10 DEF EngineLocksWallet
  <2>2. /\ DatabaseTypeOK' /\ OthersKept(e) /\ OrdersKept /\ PositionsKept
        /\ txn'[e] = [txn[e] EXCEPT !.wallet = stp[e].user, !.balance = wallet[stp[e].user]]
    BY <1>1, <1>3, <2>1, TakeWalletKeeps
  <2>3. /\ txn'[e].order = Null /\ txn'[e].wallet = stp[e].user
        /\ txn'[e].position = Null /\ txn'[e].row = Null
    BY <2>1, <2>2 DEF EnginePlan, NoTxn
  <2>4. Stored
    BY <2>1, <2>2 DEF StepKept, StillAbsent, tables
  <2>5. EnginePlan(e)'
    BY <1>2, <1>4, <1>10, <2>1, <2>3 DEF EnginePlan, feedVars
  <2> QED
    BY <1>4, <2>1, <2>4, <2>5
<1>11. ASSUME EngineLocksPosition(e), UNCHANGED feedVars
       PROVE  Stored /\ Kept
  <2>1. stp[e].pc = "position" /\ UNCHANGED tables
    BY <1>11 DEF EngineLocksPosition
  <2>2. CASE EndTxn(e) /\ TryNext(e, stp[e].todo)
    BY <1>6, <1>7, <1>11, <2>1, <2>2 DEF Rollback
  <2>3. CASE /\ Reverified(position[h], StopPrice(e))
             /\ TakePosition(e, h) /\ EngineGoTo(e, "commit")
    <3>1. /\ DatabaseTypeOK' /\ OthersKept(e) /\ OrdersKept /\ PositionsKept
          /\ position[h] # Null =>
               txn'[e] = [txn[e] EXCEPT !.position = h, !.row = position[h]]
      BY <1>1, <1>3, <2>1, <2>3, TakePositionKeeps
    <3>2. position[h] # Null /\ position[h].quantity # 0
      BY <2>3 DEF Reverified
    <3>3. txn[e].order = Null /\ txn[e].wallet = stp[e].user
      BY <2>1 DEF EnginePlan
    <3>4. /\ txn'[e].order = Null /\ txn'[e].wallet = stp[e].user
          /\ txn'[e].position = h /\ txn'[e].row = position[h]
      BY <1>1, <3>1, <3>2, <3>3 DEF Txn
    <3>5. Stored
      BY <2>1, <3>1 DEF StepKept, StillAbsent, tables
    <3>6. stp'[e].pc = "commit" /\ stp'[e].user = stp[e].user
      BY <1>4, <2>3
    <3>7. Candidate(e)' = h /\ cursor'[e] \in 1 .. Len(feed') /\ stp[e].user # Null
      BY <1>2, <1>11, <2>1, <3>6 DEF Candidate, CurrentTick, feedVars, EnginePlan
    <3> HIDE DEF h
    <3>8. EnginePlan(e)'
      BY <3>2, <3>4, <3>6, <3>7 DEF EnginePlan
    <3> QED
      BY <1>4, <2>3, <3>5, <3>8
  <2> QED
    BY <1>11, <2>2, <2>3 DEF EngineLocksPosition
<1>12. ASSUME EngineCommits(e), UNCHANGED feedVars
       PROVE  Stored /\ Kept
  <2> DEFINE u == stp[e].user
             sale == SaleOrder(h, txn[e].row.quantity, StopPrice(e))
             balance == txn[e].balance + sale.order_value
  <2>1. /\ stp[e].pc = "commit"
        /\ position' = [position EXCEPT ![h] = Sold(txn[e].row)]
        /\ wallet' = [wallet EXCEPT ![u] = balance]
        /\ EndTxn(e)
        /\ TryNext(e, stp[e].todo)
    BY <1>12 DEF EngineCommits
  <2>2. PICK o \in SaleIds :
        /\ orders[o] = Null
        /\ orders' = [orders EXCEPT ![o] = sale]
        /\ ledger' = [ledger EXCEPT ![u] =
                        Append(@, Entry("sell", sale.order_value, balance, o))]
    BY <1>12 DEF EngineCommits
  <2>3. /\ txn[e].row \in PositionRow /\ txn[e].row.quantity \in Nat \ {0}
        /\ txn[e].balance \in Int
    BY <1>1, <2>1 DEF EnginePlan, Txn, PositionRow
  <2>4. u \in Users /\ h \in Holdings /\ StopPrice(e) \in Prices
    BY <1>2, <1>3, <2>1
  <2>5. sale \in OrderRow /\ sale.order_value \in Nat
    <3> DEFINE plain == NewOrder([user |-> h[1], symbol |-> h[2], side |-> "sell",
                       order_type |-> "market", quantity |-> txn[e].row.quantity,
                       limit_price |-> Null, trigger_price |-> Null])
    <3>1. h[1] \in Users /\ h[2] \in Symbols
      BY <2>4
    <3>2. plain \in OrderRow
      BY <2>3, <3>1 DEF NewOrder, OrderRow
    <3>3. sale = Executed(plain, StopPrice(e))
      BY DEF SaleOrder
    <3> HIDE DEF plain
    <3>4. sale \in OrderRow
      BY <2>4, <3>2, <3>3, ExecutedType
    <3>5. sale.order_value = OrderValue(plain, StopPrice(e))
      BY <3>2, <3>3 DEF Executed, OrderRow
    <3> QED
      BY <2>4, <3>2, <3>4, <3>5, OrderValueType
  <2>6. balance \in Int
    BY <2>3, <2>5
  <2>7. Entry("sell", sale.order_value, balance, o) \in WalletEntry
    BY <2>5, <2>6 DEF Entry, WalletEntry
  <2>8. Sold(txn[e].row) \in PositionRow
    BY <2>3 DEF Sold, PositionRow
  <2> HIDE DEF sale, balance, h, u
  <2>9. position' \in [Holdings -> PositionRow \cup {Null}] /\ PositionsKept
    BY <2>1, <2>8, NullAssumption DEF DatabaseTypeOK, PositionsKept
  <2>10. wallet' \in [Users -> Int] /\ ledger' \in [Users -> Seq(WalletEntry)]
    BY <2>1, <2>2, <2>4, <2>6, <2>7 DEF DatabaseTypeOK
  <2>11. orders' \in [OrderIds -> OrderRow \cup {Null}] /\ OrdersKept /\ StillAbsent(e)
    BY <2>2, <2>5, IdsAssumption DEF DatabaseTypeOK, OrdersKept, SameTerms, StillAbsent
  <2>12. Stored /\ txn'[e] = NoTxn
    BY <1>1, <2>1, <2>9, <2>10, <2>11, EndTxnKeeps DEF DatabaseTypeOK, StepKept
  <2> QED
    BY <1>6, <1>12, <2>1, <2>12
<1>13. ASSUME EngineSaleFails(e), UNCHANGED feedVars
       PROVE  Stored /\ Kept
  BY <1>6, <1>7, <1>13 DEF EngineSaleFails
<1>14. ASSUME EngineCrashes(e)
       PROVE  Stored /\ Kept
  <2>1. /\ stp[e].pc = "scan" /\ UNCHANGED dbVars
        /\ stp' = [stp EXCEPT ![e] = [EngineIdle EXCEPT !.pc = "crashed"]]
    BY <1>14 DEF EngineCrashes
  <2>2. [EngineIdle EXCEPT !.pc = "crashed"] \in EngineState
    BY DEF EngineIdle, EngineState, EnginePc
  <2> QED
    BY <1>5, <2>1, <2>2 DEF EngineTypeOK, EngineIdle, EnginePlan
<1>15. ASSUME EngineReceives(e)
       PROVE  /\ Stored /\ Kept /\ FeedTypeOK' /\ feed' = feed
              /\ \A x \in Subscribers : x # e => cursor'[x] = cursor[x]
  <2>1. /\ stp[e].pc = "listen" /\ TakeTick(e) /\ UNCHANGED dbVars
        /\ EngineGoTo(e, "scan")
    BY <1>15 DEF EngineReceives
  <2>2. /\ FeedTypeOK' /\ feed' = feed /\ cursor'[e] \in 1 .. Len(feed')
        /\ \A x \in Subscribers : x # e => cursor'[x] = cursor[x]
    BY <1>1, <2>1 DEF TakeTick, FeedTypeOK
  <2>3. Stored /\ txn'[e] = NoTxn
    BY <1>5, <2>1 DEF EnginePlan
  <2>4. stp'[e].pc = "scan"
    BY <1>4, <2>1
  <2> QED
    BY <1>4, <2>1, <2>2, <2>3, <2>4 DEF EnginePlan
<1>16. ASSUME EngineResubscribes(e)
       PROVE  /\ Stored /\ Kept /\ FeedTypeOK' /\ feed' = feed
              /\ \A x \in Subscribers : x # e => cursor'[x] = cursor[x]
  <2>1. /\ FeedTypeOK' /\ feed' = feed
        /\ \A x \in Subscribers : x # e => cursor'[x] = cursor[x]
    BY <1>16 DEF EngineResubscribes, SkipToEnd, FeedTypeOK
  <2>2. stp[e].pc = "listen" /\ stp' = stp /\ UNCHANGED dbVars
    BY <1>16 DEF EngineResubscribes
  <2> QED
    BY <1>5, <2>1, <2>2 DEF EngineTypeOK, EnginePlan
<1> QED
  BY <1>8, <1>9, <1>10, <1>11, <1>12, <1>13, <1>14, <1>15, <1>16
     DEF EngineStep, SaleStep

----------------------------------------------------------------------------
(* The steps of an update-sl request and of the market *)

(* The read and the write of update-sl do. *)
LEMMA EditorKeeps ==
    ASSUME DatabaseTypeOK, EditorTypeOK, NEW d \in Editors, EditorPlan(d), EditorStep(d)
    PROVE  /\ DatabaseTypeOK' /\ EditorTypeOK' /\ EditorPlan(d)' /\ txn' = txn
           /\ orders' = orders /\ PositionsKept
           /\ \A x \in Editors : x # d => edit'[x] = edit[x]
<1>1. edit[d] \in EditorState
  BY DEF EditorTypeOK
<1>2. EditDone \in EditorState /\ EditDone.pc = "done"
  BY DEF EditDone, NewEdit, EditorState
<1>3. ASSUME edit' = [edit EXCEPT ![d] = EditDone]
      PROVE  /\ EditorTypeOK' /\ EditorPlan(d)'
             /\ \A x \in Editors : x # d => edit'[x] = edit[x]
  BY <1>2, <1>3 DEF EditorTypeOK, EditorPlan
<1>4. ASSUME UNCHANGED dbVars
      PROVE  /\ DatabaseTypeOK' /\ txn' = txn /\ orders' = orders
             /\ position' = position /\ PositionsKept
  BY <1>4 DEF dbVars, DatabaseTypeOK, PositionsKept
<1>5. CASE ReadPosition(d)
  <2>1. PICK q \in StopRequests :
        edit' = [edit EXCEPT ![d] =
            IF Held(position[<<q.user, q.symbol>>]) > 0
            THEN [pc |-> "write", payload |-> q, row |-> position[<<q.user, q.symbol>>]]
            ELSE EditDone]
    BY <1>5 DEF ReadPosition
  <2>2. q \in ValidStopRequest /\ <<q.user, q.symbol>> \in Holdings
    BY RequestsAssumption DEF ValidStopRequest
  <2>3. UNCHANGED dbVars
    BY <1>5 DEF ReadPosition
  <2>4. CASE Held(position[<<q.user, q.symbol>>]) > 0
    <3> DEFINE t == [pc |-> "write", payload |-> q, row |-> position[<<q.user, q.symbol>>]]
    <3>1. position[<<q.user, q.symbol>>] # Null
      BY <2>4 DEF Held
    <3>2. position[<<q.user, q.symbol>>] \in PositionRow
      BY <2>2, <3>1 DEF DatabaseTypeOK
    <3>3. t \in EditorState
      BY <2>2, <3>2 DEF EditorState
    <3>4. q # Null
      BY <2>2, NullAssumption
    <3>5. edit' = [edit EXCEPT ![d] = t]
      BY <2>1, <2>4
    <3>6. edit'[d] = t /\ EditorTypeOK' /\ \A x \in Editors : x # d => edit'[x] = edit[x]
      BY <3>3, <3>5 DEF EditorTypeOK
    <3> QED
      BY <1>4, <2>3, <3>1, <3>4, <3>6 DEF EditorPlan
  <2>5. CASE ~(Held(position[<<q.user, q.symbol>>]) > 0)
    BY <1>3, <1>4, <2>1, <2>3, <2>5
  <2> QED
    BY <2>4, <2>5
<1>6. CASE WriteStops(d)
  <2> DEFINE q == edit[d].payload
             row == edit[d].row
             h == <<q.user, q.symbol>>
             old == position[h]
             sl == Column(old.stop_loss, row.stop_loss, q.stop_loss)
             tp == Column(old.target_price, row.target_price, q.target_price)
             new == [old EXCEPT !.stop_loss = sl, !.target_price = tp]
  <2>1. /\ edit[d].pc = "write" /\ WriteColumns(q, row)
        /\ edit' = [edit EXCEPT ![d] = EditDone]
        /\ UNCHANGED <<wallet, orders, ledger, txn>>
    BY <1>6 DEF WriteStops
  <2>2. q \in ValidStopRequest /\ row \in PositionRow /\ old # Null
    BY <1>1, <2>1 DEF EditorPlan, EditorState
  <2>3. h \in Holdings /\ old \in PositionRow
    BY <2>2 DEF ValidStopRequest, DatabaseTypeOK
  <2>4. sl \in OptionalPrice /\ tp \in OptionalPrice
    BY <2>2, <2>3 DEF Column, ValidStopRequest, PositionRow
  <2> HIDE DEF sl, tp
  <2>5. new \in PositionRow
    BY <2>3, <2>4 DEF PositionRow
  <2>6. position' = [position EXCEPT ![h] = new]
    BY <2>1, <2>3 DEF WriteColumns, DatabaseTypeOK, PositionRow, sl, tp
  <2> HIDE DEF new, h
  <2>7. position' \in [Holdings -> PositionRow \cup {Null}] /\ PositionsKept
    BY <2>5, <2>6, NullAssumption DEF DatabaseTypeOK, PositionsKept
  <2> QED
    BY <1>3, <2>1, <2>7 DEF DatabaseTypeOK
<1>7. CASE EditFails(d)
  BY <1>3, <1>4, <1>7 DEF EditFails
<1> QED
  BY <1>5, <1>6, <1>7 DEF EditorStep

(* The market only ever appends to the feed. *)
LEMMA PublisherKeeps ==
    ASSUME FeedTypeOK, PublisherStep
    PROVE  /\ FeedTypeOK' /\ cursor' = cursor
           /\ Len(feed') \in Nat /\ Len(feed') >= Len(feed)
           /\ \A i \in 1 .. Len(feed) : feed'[i] = feed[i]
<1>1. CASE Publish
  <2>1. outbox \in Tick /\ feed' = Append(feed, outbox) /\ feed \in Seq(Tick)
    BY <1>1 DEF Publish, FeedTypeOK
  <2>2. feed' \in Seq(Tick) /\ Len(feed') = Len(feed) + 1
        /\ \A i \in 1 .. Len(feed) : feed'[i] = feed[i]
    BY <2>1
  <2> QED
    BY <1>1, <2>2 DEF Publish, FeedTypeOK
<1>2. CASE \E y \in Symbols, p \in Prices : SetPrice(y, p)
  BY <1>2 DEF SetPrice, FeedTypeOK, Tick
<1> QED
  BY <1>1, <1>2 DEF PublisherStep

----------------------------------------------------------------------------
(* The inductive invariant *)

(* It holds of the empty tables, with every session idle. *)
LEMMA InitHolds ==
    ASSUME Init
    PROVE  IInv
<1>1. DatabaseTypeOK
  BY OpeningBalanceAssumption DEF Init, DatabaseInit, DatabaseTypeOK, Txn, NoTxn
<1>2. FeedTypeOK
  BY DEF Init, FeedInit, FeedTypeOK, Tick
<1>3. RequestTypeOK /\ MatcherTypeOK /\ EngineTypeOK /\ EditorTypeOK
  BY DEF Init, RequestInit, RequestTypeOK, RequestState, RequestPc, NewRequest,
     MatcherInit, MatcherTypeOK, MatcherState, MatcherPc, Listening,
     EngineInit, EngineTypeOK, EngineState, EnginePc, EngineIdle,
     EditorInit, EditorTypeOK, EditorState, NewEdit
<1>4. ASSUME NEW r \in RequestIds
      PROVE  RequestPlan(r)
  BY DEF Init, DatabaseInit, RequestInit, NewRequest, RequestPlan
<1>5. ASSUME NEW m \in Matchers
      PROVE  MatcherPlan(m)
  BY DEF Init, DatabaseInit, MatcherInit, Listening, MatcherPlan
<1>6. ASSUME NEW e \in StopEngines
      PROVE  EnginePlan(e)
  BY DEF Init, DatabaseInit, EngineInit, EngineIdle, EnginePlan
<1>7. ASSUME NEW d \in Editors
      PROVE  EditorPlan(d)
  BY DEF Init, EditorInit, NewEdit, EditorPlan
<1> QED
  BY <1>1, <1>2, <1>3, <1>4, <1>5, <1>6, <1>7 DEF IInv, TypeOK, Plans

(* Every step of the system keeps it: the actor that moves keeps its own   *)
(* plan, and the plans of the others survive what it does to the tables.   *)
LEMMA NextHolds ==
    ASSUME IInv, [Next]_vars
    PROVE  IInv'
<1> USE DEF IInv, TypeOK, Plans
<1>1. /\ feed \in Seq(Tick) /\ Len(feed) \in Nat
      /\ RequestIds \cap Subscribers = {} /\ Matchers \cap StopEngines = {}
  BY IdsAssumption DEF FeedTypeOK
<1>2. ASSUME NEW r \in RequestIds, RequestMoves(r)
      PROVE  IInv'
  <2>1. /\ RequestStep(r) /\ UNCHANGED <<feedVars, mat, stp, edit>>
        /\ DatabaseTypeOK' /\ RequestTypeOK' /\ RequestPlan(r)' /\ StepKept(r)
        /\ \A x \in RequestIds : x # r => req'[x] = req[x]
    BY <1>2, RequestKeeps DEF RequestMoves
  <2>2. \A x \in RequestIds : RequestPlan(x)'
    BY <2>1, RequestPlanKept DEF StepKept, OthersKept, StillAbsent
  <2>3. \A m \in Matchers : MatcherPlan(m)'
    BY <1>1, <2>1, MatcherPlanKept DEF StepKept, OthersKept, feedVars
  <2>4. \A e \in StopEngines : EnginePlan(e)'
    BY <1>1, <2>1, EnginePlanKept DEF StepKept, OthersKept, feedVars
  <2>5. \A d \in Editors : EditorPlan(d)'
    BY <2>1, EditorPlanKept DEF StepKept
  <2> QED
    BY <2>1, <2>2, <2>3, <2>4, <2>5
       DEF feedVars, FeedTypeOK, MatcherTypeOK, EngineTypeOK, EditorTypeOK
<1>3. ASSUME NEW m \in Matchers, MatcherMoves(m)
      PROVE  IInv'
  <2>1. /\ UNCHANGED <<req, stp, edit>>
        /\ DatabaseTypeOK' /\ FeedTypeOK' /\ MatcherTypeOK' /\ MatcherPlan(m)'
        /\ StepKept(m) /\ feed' = feed
        /\ \A x \in Matchers : x # m => mat'[x] = mat[x]
        /\ \A x \in Subscribers : x # m => cursor'[x] = cursor[x]
    <3>1. MatcherStep(m) /\ UNCHANGED <<req, stp, edit>>
      BY <1>3 DEF MatcherMoves
    <3>2. m \in Matchers /\ DatabaseTypeOK /\ FeedTypeOK /\ MatcherTypeOK /\ MatcherPlan(m)
      OBVIOUS
    <3> QED
      BY ONLY <3>1, <3>2, MatcherKeeps
  <2>2. \A r \in RequestIds : RequestPlan(r)'
    BY <1>1, <2>1, RequestPlanKept DEF StepKept, OthersKept, StillAbsent
  <2>3. \A x \in Matchers : MatcherPlan(x)'
    BY <1>1, <2>1, MatcherPlanKept DEF StepKept, OthersKept
  <2>4. \A e \in StopEngines : EnginePlan(e)'
    BY <1>1, <2>1, EnginePlanKept DEF StepKept, OthersKept
  <2>5. \A d \in Editors : EditorPlan(d)'
    BY <2>1, EditorPlanKept DEF StepKept
  <2> QED
    BY <2>1, <2>2, <2>3, <2>4, <2>5 DEF RequestTypeOK, EngineTypeOK, EditorTypeOK
<1>4. ASSUME NEW e \in StopEngines, EngineMoves(e)
      PROVE  IInv'
  <2>1. /\ UNCHANGED <<req, mat, edit>>
        /\ DatabaseTypeOK' /\ FeedTypeOK' /\ EngineTypeOK' /\ EnginePlan(e)'
        /\ StepKept(e) /\ feed' = feed
        /\ \A x \in StopEngines : x # e => stp'[x] = stp[x]
        /\ \A x \in Subscribers : x # e => cursor'[x] = cursor[x]
    <3>1. EngineStep(e) /\ UNCHANGED <<req, mat, edit>>
      BY <1>4 DEF EngineMoves
    <3>2. e \in StopEngines /\ DatabaseTypeOK /\ FeedTypeOK /\ EngineTypeOK /\ EnginePlan(e)
      OBVIOUS
    <3> QED
      BY ONLY <3>1, <3>2, EngineKeeps
  <2>2. \A r \in RequestIds : RequestPlan(r)'
    BY <1>1, <2>1, RequestPlanKept DEF StepKept, OthersKept, StillAbsent
  <2>3. \A m \in Matchers : MatcherPlan(m)'
    BY <1>1, <2>1, MatcherPlanKept DEF StepKept, OthersKept
  <2>4. \A x \in StopEngines : EnginePlan(x)'
    BY <1>1, <2>1, EnginePlanKept DEF StepKept, OthersKept
  <2>5. \A d \in Editors : EditorPlan(d)'
    BY <2>1, EditorPlanKept DEF StepKept
  <2> QED
    BY <2>1, <2>2, <2>3, <2>4, <2>5 DEF RequestTypeOK, MatcherTypeOK, EditorTypeOK
<1>5. ASSUME NEW d \in Editors, EditorMoves(d)
      PROVE  IInv'
  <2>1. /\ UNCHANGED <<feedVars, req, mat, stp>>
        /\ DatabaseTypeOK' /\ EditorTypeOK' /\ EditorPlan(d)' /\ txn' = txn
        /\ orders' = orders /\ PositionsKept
        /\ \A x \in Editors : x # d => edit'[x] = edit[x]
    BY <1>5, EditorKeeps DEF EditorMoves
  <2>2. OrdersKept
    BY <2>1 DEF OrdersKept, SameTerms
  <2>3. \A r \in RequestIds : RequestPlan(r)'
    BY <2>1, RequestPlanKept
  <2>4. \A m \in Matchers : MatcherPlan(m)'
    BY <1>1, <2>1, <2>2, MatcherPlanKept DEF feedVars
  <2>5. \A e \in StopEngines : EnginePlan(e)'
    BY <1>1, <2>1, EnginePlanKept DEF feedVars
  <2>6. \A x \in Editors : EditorPlan(x)'
    BY <2>1, EditorPlanKept
  <2> QED
    BY <2>1, <2>3, <2>4, <2>5, <2>6
       DEF feedVars, FeedTypeOK, RequestTypeOK, MatcherTypeOK, EngineTypeOK
<1>6. ASSUME PublisherMoves
      PROVE  IInv'
  <2>1. /\ UNCHANGED <<dbVars, req, mat, stp, edit>>
        /\ FeedTypeOK' /\ cursor' = cursor
        /\ Len(feed') \in Nat /\ Len(feed') >= Len(feed)
        /\ \A i \in 1 .. Len(feed) : feed'[i] = feed[i]
    BY <1>6, PublisherKeeps DEF PublisherMoves
  <2>2. DatabaseTypeOK' /\ txn' = txn /\ orders' = orders /\ OrdersKept /\ PositionsKept
    BY <2>1, TablesKeep DEF dbVars, tables, DatabaseTypeOK
  <2>3. \A r \in RequestIds : RequestPlan(r)'
    BY <2>1, <2>2, RequestPlanKept
  <2>4. \A m \in Matchers : MatcherPlan(m)'
    BY <2>1, <2>2, MatcherPlanKept
  <2>5. \A e \in StopEngines : EnginePlan(e)'
    BY <2>1, <2>2, EnginePlanKept
  <2>6. \A d \in Editors : EditorPlan(d)'
    BY <2>1, <2>2, EditorPlanKept
  <2> QED
    BY <2>1, <2>2, <2>3, <2>4, <2>5, <2>6
       DEF RequestTypeOK, MatcherTypeOK, EngineTypeOK, EditorTypeOK
<1>7. ASSUME UNCHANGED vars
      PROVE  IInv'
  <2>1. /\ UNCHANGED <<wallet, position, orders, ledger, txn>>
        /\ UNCHANGED <<price_key, outbox, feed, cursor>>
        /\ UNCHANGED <<req, mat, stp, edit>>
    BY <1>7 DEF vars, dbVars, feedVars
  <2>2. TypeOK'
    BY <2>1 DEF DatabaseTypeOK, FeedTypeOK, RequestTypeOK, MatcherTypeOK,
       EngineTypeOK, EditorTypeOK
  <2>3. Plans'
    <3>1. \A r \in RequestIds : RequestPlan(r)'
      BY <2>1 DEF RequestPlan, HasLooked, Deliverable
    <3>2. \A m \in Matchers : MatcherPlan(m)'
      BY <2>1 DEF MatcherPlan, HasLooked, Deliverable
    <3>3. \A e \in StopEngines : EnginePlan(e)'
      BY <2>1 DEF EnginePlan, Candidate, CurrentTick
    <3>4. \A d \in Editors : EditorPlan(d)'
      BY <2>1 DEF EditorPlan
    <3> QED
      BY <3>1, <3>2, <3>3, <3>4
  <2> QED
    BY <2>2, <2>3
<1> QED
  BY <1>2, <1>3, <1>4, <1>5, <1>6, <1>7 DEF Next

(* At each point of its code every session holds exactly the row locks     *)
(* that its code has taken by then, and the rows that it works on exist.   *)
THEOREM InductiveInvariant == Spec => []IInv
<1>1. Init => IInv
  BY InitHolds
<1>2. IInv /\ [Next]_vars => IInv'
  BY NextHolds
<1> QED
  BY <1>1, <1>2, PTL DEF Spec

(* Every variable stays in its type; in particular a sale never takes a    *)
(* holding below zero, whichever transactions it was interleaved with.     *)
THEOREM TypeCorrect == Spec => []TypeOK
<1>1. IInv => TypeOK
  BY DEF IInv
<1> QED
  BY <1>1, InductiveInvariant, PTL

----------------------------------------------------------------------------
(* The lock order *)

(* A session wants one lock at a time, and its level says which. *)
LEMMA LevelOfWants ==
    ASSUME NEW s \in Sessions
    PROVE  /\ LockLevel(s) \in 1 .. 4
           /\ (\E o \in OrderIds : WantsOrder(s, o)) => LockLevel(s) = 1
           /\ (\E u \in Users : WantsWallet(s, u)) => LockLevel(s) = 2
           /\ (\E h \in Holdings : WantsPosition(s, h)) => LockLevel(s) = 3
<1> DEFINE O == \E o \in OrderIds : WantsOrder(s, o)
           W == \E u \in Users : WantsWallet(s, u)
           P == \E h \in Holdings : WantsPosition(s, h)
<1>1. ~(O /\ W) /\ ~(O /\ P) /\ ~(W /\ P)
  BY IdsAssumption DEF WantsOrder, WantsWallet, WantsPosition
<1>2. LockLevel(s) = CASE O -> 1 [] W -> 2 [] P -> 3 [] OTHER -> 4
  BY DEF LockLevel
<1> HIDE DEF O, W, P
<1>3. /\ LockLevel(s) \in 1 .. 4
      /\ O => LockLevel(s) = 1
      /\ W => LockLevel(s) = 2
      /\ P => LockLevel(s) = 3
  BY <1>1, <1>2
<1> QED
  BY <1>3 DEF O, W, P

(* Who holds a lock no longer wants that one, nor any that comes before it. *)
LEMMA HoldersLookAhead ==
    ASSUME IInv, NEW t \in Sessions
    PROVE  /\ txn[t].order # Null => ~ \E o \in OrderIds : WantsOrder(t, o)
           /\ txn[t].wallet # Null =>
                /\ ~ \E o \in OrderIds : WantsOrder(t, o)
                /\ ~ \E u \in Users : WantsWallet(t, u)
           /\ txn[t].position # Null =>
                /\ ~ \E o \in OrderIds : WantsOrder(t, o)
                /\ ~ \E u \in Users : WantsWallet(t, u)
                /\ ~ \E h \in Holdings : WantsPosition(t, h)
<1>1. CASE t \in RequestIds
  <2>1. RequestPlan(t)
    BY <1>1 DEF IInv, Plans
  <2> QED
    BY <1>1, <2>1, IdsAssumption
       DEF RequestPlan, NoTxn, WantsOrder, WantsWallet, WantsPosition
<1>2. CASE t \in Matchers
  <2>1. MatcherPlan(t)
    BY <1>2 DEF IInv, Plans
  <2> QED
    BY <1>2, <2>1, IdsAssumption
       DEF MatcherPlan, NoTxn, WantsOrder, WantsWallet, WantsPosition
<1>3. CASE t \in StopEngines
  <2>1. EnginePlan(t)
    BY <1>3 DEF IInv, Plans
  <2> QED
    BY <1>3, <2>1, IdsAssumption
       DEF EnginePlan, NoTxn, WantsOrder, WantsWallet, WantsPosition
<1> QED
  BY <1>1, <1>2, <1>3

(* Locks are taken in the order of the docstrings, order, wallet, position: *)
(* no session waits for one that waits for an earlier lock, so the          *)
(* waits-for graph has no cycle, with any number of sessions.               *)
THEOREM LockOrder == Spec => []WaitsAscend
<1>1. ASSUME IInv
      PROVE  WaitsAscend
  <2> SUFFICES ASSUME NEW s \in Sessions, NEW t \in Sessions, WaitsFor(s, t)
               PROVE  LockLevel(s) < LockLevel(t)
    BY DEF WaitsAscend
  <2>1. LockLevel(t) \in 1 .. 4
    BY LevelOfWants
  <2>2. CASE \E o \in OrderIds : WantsOrder(s, o) /\ txn[t].order = o
    <3>1. LockLevel(s) = 1 /\ txn[t].order # Null
      BY <2>2, LevelOfWants, NullAssumption
    <3>2. ~ \E o \in OrderIds : WantsOrder(t, o)
      BY <1>1, <3>1, HoldersLookAhead
    <3>3. LockLevel(t) # 1
      BY <3>2 DEF LockLevel
    <3> QED
      BY <2>1, <3>1, <3>3
  <2>3. CASE \E u \in Users : WantsWallet(s, u) /\ txn[t].wallet = u
    <3>1. LockLevel(s) = 2 /\ txn[t].wallet # Null
      BY <2>3, LevelOfWants, NullAssumption
    <3>2. /\ ~ \E o \in OrderIds : WantsOrder(t, o)
          /\ ~ \E u \in Users : WantsWallet(t, u)
      BY <1>1, <3>1, HoldersLookAhead
    <3>3. LockLevel(t) \in {3, 4}
      BY <3>2 DEF LockLevel
    <3> QED
      BY <3>1, <3>3
  <2>4. CASE \E h \in Holdings : WantsPosition(s, h) /\ txn[t].position = h
    <3>1. LockLevel(s) = 3 /\ txn[t].position # Null
      BY <2>4, LevelOfWants, NullAssumption
    <3>2. /\ ~ \E o \in OrderIds : WantsOrder(t, o)
          /\ ~ \E u \in Users : WantsWallet(t, u)
          /\ ~ \E h \in Holdings : WantsPosition(t, h)
      BY <1>1, <3>1, HoldersLookAhead
    <3>3. LockLevel(t) = 4
      BY <3>2 DEF LockLevel
    <3> QED
      BY <3>1, <3>3
  <2> QED
    BY <2>2, <2>3, <2>4 DEF WaitsFor
<1> QED
  BY <1>1, InductiveInvariant, PTL

(* Among any sessions there is one that waits for none of them. *)
SomeoneFree ==
    \A W \in SUBSET Sessions : W # {} => \E s \in W : \A t \in W : ~WaitsFor(s, t)

(* The row locks of _execute_order, _buy, _sell and _try_execute deadlock  *)
(* in no set of sessions, of any size: their waits cannot close a cycle.   *)
THEOREM NoDeadlock == Spec => []SomeoneFree
<1>1. WaitsAscend => SomeoneFree
  <2> SUFFICES ASSUME WaitsAscend, NEW W \in SUBSET Sessions, W # {},
                      \A s \in W : \E t \in W : WaitsFor(s, t)
               PROVE  FALSE
    BY DEF SomeoneFree
  <2>1. \A s \in W : LockLevel(s) \in 1 .. 4
    BY LevelOfWants
  <2>2. \A s \in W : \E t \in W : LockLevel(s) < LockLevel(t)
    BY DEF WaitsAscend
  <2> HIDE DEF Sessions
  <2>3. \A s \in W : LockLevel(s) \in 1 .. 3
    BY <2>1, <2>2
  <2>4. \A s \in W : LockLevel(s) \in 1 .. 2
    BY <2>2, <2>3
  <2>5. \A s \in W : LockLevel(s) = 1
    BY <2>2, <2>4
  <2> QED
    BY <2>2, <2>5
<1> QED
  BY <1>1, LockOrder, PTL

----------------------------------------------------------------------------
(* Money: what a transaction read under its locks is current up to its     *)
(* commit, so that no update of a wallet is lost, and no balance becomes   *)
(* negative.                                                               *)

(* The four things a step of a session can do to the database, as far as   *)
(* wallets and positions go: move on or end its transaction, take a wallet *)
(* lock, take a position lock, or commit an execution.                     *)
BooksUntouched == UNCHANGED <<wallet, position, ledger>>

MovesOn(s) ==
    /\ BooksUntouched
    /\ \/ txn'[s] = NoTxn
       \/ /\ txn'[s].wallet = txn[s].wallet /\ txn'[s].balance = txn[s].balance
          /\ txn'[s].position = txn[s].position /\ txn'[s].row = txn[s].row

GainsWallet(s, u) ==
    /\ BooksUntouched
    /\ WalletFree(u)
    /\ txn'[s].wallet = u /\ txn'[s].balance = wallet[u]
    /\ txn'[s].position = Null

GainsPosition(s, h) ==
    /\ BooksUntouched
    /\ PositionFree(h)
    /\ txn[s].wallet = h[1]
    /\ txn'[s].wallet = txn[s].wallet /\ txn'[s].balance = txn[s].balance
    /\ txn'[s].position = h /\ txn'[s].row = position[h]

CommitsAs(s, h, row, entry) ==
    /\ txn[s].wallet = h[1]
    /\ entry.balance_after = txn[s].balance + SignedAmount(entry)
    /\ entry.balance_after >= 0
    /\ wallet' = [wallet EXCEPT ![h[1]] = entry.balance_after]
    /\ position' = [position EXCEPT ![h] = row]
    /\ ledger' = [ledger EXCEPT ![h[1]] = Append(@, entry)]
    /\ txn'[s] = NoTxn

Effect(s) ==
    /\ OthersKept(s)
    /\ \/ MovesOn(s)
       \/ \E u \in Users : GainsWallet(s, u)
       \/ \E h \in Holdings : GainsPosition(s, h)
       \/ \E h \in Holdings, row \in PositionRow, entry \in WalletEntry :
            CommitsAs(s, h, row, entry)

HIDE DEF OrderIds, Subscribers, OptionalPrice, OrderType, OrderSide, OrderStatus, Holding

----------------------------------------------------------------------------
(* Locks stay exclusive, and position locks stay under wallet locks. *)
LEMMA EffectExclusive ==
    ASSUME DatabaseTypeOK, LocksExclusive, WalletGuardsPosition,
           NEW s \in Sessions, Effect(s)
    PROVE  LocksExclusive' /\ WalletGuardsPosition'
<1>1. \A t \in Sessions : t # s => txn'[t] = txn[t]
  BY DEF Effect, OthersKept
<1>2. CASE MovesOn(s)
  BY <1>1, <1>2 DEF MovesOn, NoTxn, LocksExclusive, WalletGuardsPosition
<1>3. CASE \E u \in Users : GainsWallet(s, u)
  BY <1>1, <1>3 DEF GainsWallet, WalletFree, LocksExclusive, WalletGuardsPosition
<1>4. CASE \E h \in Holdings : GainsPosition(s, h)
  BY <1>1, <1>4 DEF GainsPosition, PositionFree, LocksExclusive, WalletGuardsPosition
<1>5. CASE \E h \in Holdings, row \in PositionRow, entry \in WalletEntry :
             CommitsAs(s, h, row, entry)
  BY <1>1, <1>5 DEF CommitsAs, NoTxn, LocksExclusive, WalletGuardsPosition
<1> QED
  BY <1>2, <1>3, <1>4, <1>5 DEF Effect

(* What the other sessions have locked, and what they found missing under  *)
(* the wallet lock, is not changed by the step.                            *)
LEMMA EffectLeaves ==
    ASSUME DatabaseTypeOK, LocksExclusive,
           NEW s \in Sessions, NEW t \in Sessions, t # s, Effect(s)
    PROVE  /\ txn'[t] = txn[t]
           /\ txn[t].wallet # Null => wallet'[txn[t].wallet] = wallet[txn[t].wallet]
           /\ \A h \in Holdings :
                txn[t].wallet # Null /\ txn[t].wallet = h[1] => position'[h] = position[h]
<1>1. txn'[t] = txn[t]
  BY DEF Effect, OthersKept
<1>2. CASE BooksUntouched
  BY <1>1, <1>2 DEF BooksUntouched
<1>3. CASE \E h \in Holdings, row \in PositionRow, entry \in WalletEntry :
             CommitsAs(s, h, row, entry)
  <2>1. PICK h \in Holdings, row \in PositionRow, entry \in WalletEntry :
             CommitsAs(s, h, row, entry)
    BY <1>3
  <2>2. txn[t].wallet # Null => txn[t].wallet # h[1]
    BY <2>1 DEF CommitsAs, LocksExclusive
  <2>3. wallet \in [Users -> Int] /\ position \in [Holdings -> PositionRow \cup {Null}]
    BY DEF DatabaseTypeOK
  <2> QED
    BY <1>1, <2>1, <2>2, <2>3 DEF CommitsAs, DatabaseTypeOK, Txn
<1> QED
  BY <1>2, <1>3 DEF Effect, MovesOn, GainsWallet, GainsPosition

(* What a transaction read under its locks stays current. *)
LEMMA EffectCurrent ==
    ASSUME DatabaseTypeOK, LocksExclusive, WalletGuardsPosition, ReadsCurrent,
           NEW s \in Sessions, Effect(s)
    PROVE  ReadsCurrent'
<1> SUFFICES ASSUME NEW t \in Sessions
             PROVE  /\ txn'[t].wallet # Null => txn'[t].balance = wallet'[txn'[t].wallet]
                    /\ txn'[t].position # Null => txn'[t].row = position'[txn'[t].position]
  BY DEF ReadsCurrent
<1>1. CASE t # s
  <2>1. txn[t].position # Null =>
          txn[t].position \in Holdings /\ txn[t].wallet = txn[t].position[1]
          /\ txn[t].wallet # Null
    BY NullAssumption DEF WalletGuardsPosition, DatabaseTypeOK, Txn
  <2> QED
    BY <1>1, <2>1, EffectLeaves DEF ReadsCurrent
<1>2. CASE t = s
  <2>1. CASE MovesOn(s)
    BY <1>2, <2>1 DEF MovesOn, BooksUntouched, NoTxn, ReadsCurrent
  <2>2. CASE \E u \in Users : GainsWallet(s, u)
    BY <1>2, <2>2 DEF GainsWallet, BooksUntouched
  <2>3. CASE \E h \in Holdings : GainsPosition(s, h)
    BY <1>2, <2>3 DEF GainsPosition, BooksUntouched, ReadsCurrent
  <2>4. CASE txn'[s] = NoTxn
    BY <1>2, <2>4 DEF NoTxn
  <2> QED
    BY <2>1, <2>2, <2>3, <2>4 DEF Effect, CommitsAs
<1> QED
  BY <1>1, <1>2

(* The ledger of every user still adds up to the balance, and no balance   *)
(* becomes negative.                                                       *)
LEMMA EffectLedger ==
    ASSUME DatabaseTypeOK, DatabaseTypeOK', ReadsCurrent, LedgerChains, NoOverdraft,
           NEW s \in Sessions, Effect(s)
    PROVE  LedgerChains' /\ NoOverdraft'
<1>1. \A h \in Holdings : Held(position'[h]) >= 0
  BY DEF DatabaseTypeOK, Held, PositionRow
<1>2. CASE BooksUntouched
  BY <1>1, <1>2 DEF BooksUntouched, LedgerChains, NoOverdraft, BalanceBefore
<1>3. CASE \E h \in Holdings, row \in PositionRow, entry \in WalletEntry :
             CommitsAs(s, h, row, entry)
  <2>1. PICK h \in Holdings, row \in PositionRow, entry \in WalletEntry :
             CommitsAs(s, h, row, entry)
    BY <1>3
  <2>2. h[1] \in Users /\ txn[s].balance = wallet[h[1]]
    BY <2>1, NullAssumption DEF CommitsAs, ReadsCurrent
  <2>3. /\ wallet' = [wallet EXCEPT ![h[1]] = entry.balance_after]
        /\ ledger' = [ledger EXCEPT ![h[1]] = Append(ledger[h[1]], entry)]
        /\ entry.balance_after = wallet[h[1]] + SignedAmount(entry)
        /\ entry.balance_after >= 0
    BY <2>1, <2>2 DEF CommitsAs
  <2>4. NoOverdraft'
    BY <1>1, <2>3 DEF NoOverdraft, DatabaseTypeOK
  <2>5. ASSUME NEW u \in Users
        PROVE  /\ wallet'[u] = BalanceBefore(u, Len(ledger[u]) + 1)'
               /\ \A i \in 1 .. Len(ledger'[u]) :
                    ledger'[u][i].balance_after =
                        BalanceBefore(u, i)' + SignedAmount(ledger'[u][i])
    <3>1. /\ ledger[u] \in Seq(WalletEntry) /\ Len(ledger[u]) \in Nat
          /\ wallet[u] = BalanceBefore(u, Len(ledger[u]) + 1)
          /\ \A i \in 1 .. Len(ledger[u]) :
               ledger[u][i].balance_after = BalanceBefore(u, i) + SignedAmount(ledger[u][i])
      BY DEF LedgerChains, DatabaseTypeOK
    <3>2. CASE u # h[1]
      <4>1. wallet'[u] = wallet[u] /\ ledger'[u] = ledger[u]
        BY <2>3, <3>2 DEF DatabaseTypeOK
      <4> QED
        BY <3>1, <4>1 DEF BalanceBefore
    <3>3. CASE u = h[1]
      <4>0. PICK n \in Nat : n = Len(ledger[u])
        BY <3>1
      <4>1. wallet'[u] = entry.balance_after /\ ledger'[u] = Append(ledger[u], entry)
        BY <2>3, <3>3 DEF DatabaseTypeOK
      <4>2. /\ Len(ledger'[u]) = n + 1
            /\ ledger'[u][n + 1] = entry
            /\ \A i \in 1 .. n : ledger'[u][i] = ledger[u][i]
        BY <3>1, <4>0, <4>1
      <4>3. wallet'[u] = BalanceBefore(u, n + 1 + 1)'
        BY <3>1, <4>1, <4>2 DEF BalanceBefore
      <4>4. \A i \in 1 .. n + 1 : BalanceBefore(u, i)' = BalanceBefore(u, i)
        BY <3>1, <4>2 DEF BalanceBefore
      <4>5. entry.balance_after = BalanceBefore(u, n + 1) + SignedAmount(entry)
        BY <2>3, <3>1, <3>3, <4>0
      <4>6. ASSUME NEW i \in 1 .. n + 1
            PROVE  ledger'[u][i].balance_after =
                        BalanceBefore(u, i)' + SignedAmount(ledger'[u][i])
        <5>1. CASE i = n + 1
          BY <4>2, <4>4, <4>5, <5>1
        <5>2. CASE i \in 1 .. n
          BY <3>1, <4>0, <4>2, <4>4, <5>2
        <5> QED
          BY <3>1, <5>1, <5>2
      <4> QED
        BY <4>2, <4>3, <4>6
    <3> QED
      BY <3>2, <3>3
  <2>6. LedgerChains'
    BY <2>5 DEF LedgerChains
  <2> QED
    BY <2>4, <2>6
<1> QED
  BY <1>2, <1>3 DEF Effect, MovesOn, GainsWallet, GainsPosition

----------------------------------------------------------------------------
(* Each actor's steps have such an effect, and keep its own funds. *)

(* A session that commits a fill it can pay for or deliver books it as the *)
(* balance it read, plus or minus the value.                               *)
LEMMA FillCommits ==
    ASSUME DatabaseTypeOK, NEW s \in Sessions, NEW o \in OrderIds,
           NEW order \in OrderRow, NEW price \in Prices,
           Deliverable(s, order), Payable(s, order, price),
           txn[s].wallet = order.user, txn[s].balance >= 0,
           CommitFill(s, o, order, price)
    PROVE  \E h \in Holdings, row \in PositionRow, entry \in WalletEntry :
                CommitsAs(s, h, row, entry)
<1> DEFINE value == OrderValue(order, price)
           balance == txn[s].balance + SignedValue(order.side, value)
           h == Holding(order)
           row == AfterFill(txn[s].row, order, price)
           entry == Entry(order.side, value, balance, o)
<1>1. /\ txn[s].balance \in Int /\ txn[s].row \in PositionRow \cup {Null}
      /\ order.side \in OrderSide /\ h \in Holdings /\ h[1] = order.user
  BY DEF DatabaseTypeOK, Txn, OrderRow, Holding
<1>2. value \in Nat
  BY OrderValueType
<1>3. balance \in Int /\ balance >= 0
  BY <1>1, <1>2 DEF SignedValue, Payable
<1>4. row \in PositionRow
  BY <1>1, AfterFillType DEF Deliverable
<1>5. entry \in WalletEntry
  BY <1>2, <1>3 DEF Entry, WalletEntry
<1>6. /\ entry.balance_after = balance
      /\ balance = txn[s].balance + SignedAmount(entry)
  BY <1>1 DEF Entry, SignedAmount, SignedValue
<1>7. /\ wallet' = [wallet EXCEPT ![order.user] = balance]
      /\ position' = [position EXCEPT ![h] = row]
      /\ ledger' = [ledger EXCEPT ![order.user] = Append(@, entry)]
      /\ EndTxn(s)
  BY DEF CommitFill
<1>8. txn'[s] = NoTxn
  BY <1>7, EndTxnKeeps
<1> HIDE DEF value, balance, h, row, entry
<1>9. CommitsAs(s, h, row, entry)
  BY <1>1, <1>3, <1>6, <1>7, <1>8 DEF CommitsAs
<1> QED
  BY <1>1, <1>4, <1>5, <1>9

(* The balance that a session read is not negative. *)
LEMMA BalanceRead ==
    ASSUME DatabaseTypeOK, ReadsCurrent, NoOverdraft,
           NEW s \in Sessions, txn[s].wallet # Null
    PROVE  txn[s].balance >= 0
BY DEF DatabaseTypeOK, Txn, ReadsCurrent, NoOverdraft

(* place_order *)
LEMMA RequestEffect ==
    ASSUME MoneyInv, NEW r \in RequestIds, RequestStep(r)
    PROVE  Effect(r) /\ RequestFunds(r)'
<1>1. /\ DatabaseTypeOK /\ RequestTypeOK /\ FeedTypeOK /\ RequestPlan(r)
      /\ RequestFunds(r) /\ Books /\ r \in Sessions /\ r \in OrderIds
      /\ req[r] \in RequestState /\ txn[r] \in Txn
  BY DEF MoneyInv, IInv, TypeOK, Plans, Funds, DatabaseTypeOK, RequestTypeOK, OrderIds
<1>2. OthersKept(r)
  BY <1>1, RequestKeeps DEF StepKept
<1>3. ASSUME Answer(r)
      PROVE  RequestFunds(r)'
  BY <1>1, <1>3 DEF Answer, Answered, RequestTypeOK, RequestFunds
<1>4. ASSUME NEW pc \in RequestPc, GoTo(r, pc)
      PROVE  /\ req'[r].pc = pc /\ req'[r].order = req[r].order
             /\ req'[r].price = req[r].price
  BY <1>1, <1>4 DEF GoTo, RequestTypeOK, RequestState
<1>5. ASSUME EndTxn(r)
      PROVE  txn'[r] = NoTxn
  BY <1>1, <1>5, EndTxnKeeps
<1>6. ASSUME req[r].pc \in {"wallet", "position", "commit"}
      PROVE  /\ req[r].order \in OrderRow /\ req[r].price \in Prices
             /\ req[r].order.user \in Users /\ Holding(req[r].order) \in Holdings
  BY <1>1, <1>6 DEF RequestPlan, RequestState, OrderRow, Holding, OptionalPrice
<1>7. CASE PlacePending(r)
  BY <1>2, <1>3, <1>7 DEF PlacePending, Effect, MovesOn, BooksUntouched
<1>8. CASE PlaceMarket(r)
  <2>1. UNCHANGED dbVars
    BY <1>8 DEF PlaceMarket
  <2>2. req'[r].pc \in {"wallet", "done"}
    BY <1>1, <1>8 DEF PlaceMarket, Answer, Answered, RequestTypeOK
  <2> QED
    BY <1>2, <2>1, <2>2 DEF Effect, MovesOn, BooksUntouched, dbVars, RequestFunds
<1>9. CASE LockWallet(r)
  <2> DEFINE order == req[r].order
  <2>1. req[r].pc = "wallet" /\ UNCHANGED tables /\ txn[r] = NoTxn
    BY <1>1, <1>9 DEF LockWallet, RequestPlan
  <2>2. CASE EndTxn(r) /\ Answer(r)
    BY <1>2, <1>3, <1>5, <2>1, <2>2 DEF tables, Effect, MovesOn, BooksUntouched
  <2>3. CASE /\ ~CannotPay(wallet[order.user], order, req[r].price)
             /\ TakeWallet(r, order.user) /\ GoTo(r, "position")
    <3>1. order \in OrderRow /\ req[r].price \in Prices /\ order.user \in Users
      BY <1>6, <2>1
    <3>2. txn'[r] = [txn[r] EXCEPT !.wallet = order.user, !.balance = wallet[order.user]]
      BY <1>1, <2>1, <2>3, <3>1, TakeWalletKeeps
    <3>3. /\ txn'[r].wallet = order.user /\ txn'[r].balance = wallet[order.user]
          /\ txn'[r].position = Null
      BY <2>1, <3>2 DEF NoTxn
    <3>4. GainsWallet(r, order.user)
      BY <2>1, <2>3, <3>3 DEF GainsWallet, TakeWallet, BooksUntouched, tables
    <3>5. /\ req'[r].pc = "position" /\ req'[r].order = order
          /\ req'[r].price = req[r].price
      BY <1>4, <2>3 DEF RequestPc
    <3>6. order.side = "buy" => txn'[r].balance >= OrderValue(order, req[r].price)
      <4>1. wallet[order.user] \in Int /\ OrderValue(order, req[r].price) \in Nat
        BY <1>1, <3>1, OrderValueType DEF DatabaseTypeOK
      <4> QED
        BY <2>3, <3>3, <4>1 DEF CannotPay
    <3> QED
      BY <1>2, <3>1, <3>4, <3>5, <3>6 DEF Effect, RequestFunds, Payable
  <2> QED
    BY <1>9, <2>2, <2>3 DEF LockWallet
<1>10. CASE LockPosition(r)
  <2> DEFINE order == req[r].order
             h == Holding(order)
  <2>1. /\ req[r].pc = "position" /\ UNCHANGED tables
        /\ txn[r].wallet = order.user /\ txn[r].row = Null
        /\ Payable(r, order, req[r].price)
    BY <1>1, <1>10 DEF LockPosition, RequestPlan, RequestFunds
  <2>2. CASE EndTxn(r) /\ Answer(r)
    BY <1>2, <1>3, <1>5, <2>1, <2>2 DEF tables, Effect, MovesOn, BooksUntouched
  <2>3. CASE TakePosition(r, h) /\ GoTo(r, "commit")
    <3>1. h \in Holdings /\ h[1] = order.user
      BY <1>6, <2>1 DEF Holding
    <3>2. /\ position[h] = Null => txn'[r] = txn[r]
          /\ position[h] # Null =>
                txn'[r] = [txn[r] EXCEPT !.position = h, !.row = position[h]]
      BY <1>1, <2>1, <2>3, <3>1, TakePositionKeeps
    <3>3. /\ req'[r].pc = "commit" /\ req'[r].order = order
          /\ req'[r].price = req[r].price
      BY <1>4, <2>3 DEF RequestPc
    <3>4. CASE position[h] = Null
      BY <1>2, <2>1, <3>2, <3>3, <3>4
         DEF Effect, MovesOn, BooksUntouched, tables, RequestFunds, Payable, Absent
    <3>5. CASE position[h] # Null
      <4>1. /\ txn'[r].wallet = txn[r].wallet /\ txn'[r].balance = txn[r].balance
            /\ txn'[r].position = h /\ txn'[r].row = position[h]
        BY <1>1, <3>2, <3>5 DEF Txn
      <4>2. GainsPosition(r, h)
        BY <2>1, <2>3, <3>1, <3>5, <4>1
           DEF GainsPosition, TakePosition, BooksUntouched, tables
      <4>3. RequestFunds(r)'
        BY <2>1, <3>3, <3>5, <4>1 DEF RequestFunds, Payable, Absent
      <4> QED
        BY <1>2, <3>1, <4>2, <4>3 DEF Effect
    <3> QED
      BY <3>4, <3>5
  <2> QED
    BY <1>10, <2>2, <2>3 DEF LockPosition
<1>11. CASE CommitOrder(r)
  <2>1. /\ req[r].pc = "commit" /\ Answer(r)
        /\ CommitFill(r, r, req[r].order, req[r].price)
        /\ txn[r].wallet = req[r].order.user /\ Deliverable(r, req[r].order)
        /\ Payable(r, req[r].order, req[r].price)
    BY <1>1, <1>11 DEF CommitOrder, RequestPlan, RequestFunds
  <2>2. /\ req[r].order \in OrderRow /\ req[r].price \in Prices
        /\ txn[r].wallet # Null
    BY <1>6, <2>1, NullAssumption
  <2>3. txn[r].balance >= 0
    BY <1>1, <2>2, BalanceRead DEF Books
  <2> QED
    BY <1>1, <1>2, <1>3, <2>1, <2>2, <2>3, FillCommits DEF Effect
<1>12. CASE FailRequest(r)
  BY <1>2, <1>3, <1>5, <1>12
     DEF FailRequest, Rollback, tables, Effect, MovesOn, BooksUntouched
<1> QED
  BY <1>7, <1>8, <1>9, <1>10, <1>11, <1>12 DEF RequestStep

(* A loop that looks for its next order has no fill under way. *)
LEMMA ProceedEndsFill ==
    ASSUME MatcherTypeOK, NEW m \in Matchers, NEW rest \in SUBSET OrderIds, Proceed(m, rest)
    PROVE  mat'[m].pc \notin {"position", "commit"}
<1>1. mat \in [Matchers -> MatcherState]
  BY DEF MatcherTypeOK
<1>2. CASE \E o \in rest : mat' = [mat EXCEPT ![m] =
            [pc |-> IF mat[m].phase = 1 /\ ~Crosses(m, o) THEN "trigger" ELSE "order",
             phase |-> mat[m].phase, todo |-> rest \ {o}, order |-> o]]
  BY <1>1, <1>2
<1>3. ASSUME NEW t \in MatcherState, t.pc \in {"listen", "scan"},
             mat' = [mat EXCEPT ![m] = t]
      PROVE  mat'[m].pc \notin {"position", "commit"}
  BY <1>1, <1>3
<1>4. /\ Listening \in MatcherState /\ Listening.pc = "listen"
      /\ Scanning(2) \in MatcherState /\ Scanning(2).pc = "scan"
  BY DEF Scanning, Listening, MatcherState, MatcherPc
<1> QED
  BY <1>2, <1>3, <1>4 DEF Proceed

(* process_price_update and its cancellation *)
LEMMA MatcherEffect ==
    ASSUME MoneyInv, NEW m \in Matchers, MatcherStep(m)
    PROVE  Effect(m) /\ MatcherFunds(m)'
<1> DEFINE o == mat[m].order
           order == orders[o]
           h == Holding(order)
<1>1. /\ DatabaseTypeOK /\ MatcherTypeOK /\ FeedTypeOK /\ MatcherPlan(m)
      /\ MatcherFunds(m) /\ Books /\ m \in Sessions /\ m \in Subscribers
      /\ mat[m] \in MatcherState /\ txn[m] \in Txn /\ mat[m].todo \in SUBSET OrderIds
  BY DEF MoneyInv, IInv, TypeOK, Plans, Funds, DatabaseTypeOK, MatcherTypeOK,
     MatcherState, Subscribers
<1>2. OthersKept(m)
  BY <1>1, MatcherKeeps DEF StepKept
<1>3. ASSUME mat'[m].pc \notin {"position", "commit"}
      PROVE  MatcherFunds(m)'
  BY <1>3 DEF MatcherFunds
<1>4. ASSUME NEW pc \in {"wallet", "position", "commit"}, MatchGoTo(m, pc)
      PROVE  mat'[m].pc = pc /\ mat'[m].order = o
  BY <1>1, <1>4 DEF MatchGoTo, MatcherTypeOK, MatcherState
<1>5. ASSUME EndTxn(m)
      PROVE  txn'[m] = NoTxn
  BY <1>1, <1>5, EndTxnKeeps
<1>6. ASSUME mat[m].pc \in {"trigger", "order", "wallet", "position", "commit"}
      PROVE  /\ o \in OrderIds /\ order \in OrderRow
             /\ order.user \in Users /\ h \in Holdings /\ h[1] = order.user
             /\ MatchPrice(m) \in Prices
  <2>1. cursor[m] \in 1 .. Len(feed) /\ o \in OrderIds /\ order # Null
    BY <1>1, <1>6 DEF MatcherPlan, MatcherState
  <2>2. MatchPrice(m) \in Prices
    BY <1>1, <2>1, CurrentTickType DEF MatchPrice, Tick
  <2>3. order \in OrderRow
    BY <1>1, <2>1 DEF DatabaseTypeOK
  <2> QED
    BY <2>1, <2>2, <2>3 DEF OrderRow, Holding
<1>7. ASSUME NextCandidate(m)
      PROVE  MatcherFunds(m)'
  BY <1>1, <1>3, <1>7, ProceedEndsFill DEF NextCandidate
<1>8. ASSUME UNCHANGED dbVars
      PROVE  MovesOn(m)
  BY <1>8 DEF dbVars, MovesOn, BooksUntouched
<1>9. ASSUME NEW status \in OrderStatus, CommitStatus(m, o, status)
      PROVE  MovesOn(m)
  BY <1>5, <1>9 DEF CommitStatus, MovesOn, BooksUntouched
<1>10. ASSUME Rollback(m)
       PROVE  MovesOn(m)
  BY <1>5, <1>10 DEF Rollback, tables, MovesOn, BooksUntouched
<1>11. CASE ReceiveTick(m)
  <2>1. mat'[m].pc = "scan" /\ UNCHANGED dbVars
    BY <1>1, <1>11 DEF ReceiveTick, MatcherTypeOK, Scanning, Listening
  <2> QED
    BY <1>2, <1>3, <1>8, <2>1 DEF Effect
<1>12. CASE Scan(m)
  <2>1. UNCHANGED dbVars
    BY <1>12 DEF Scan
  <2>2. CASE mat' = [mat EXCEPT ![m] = Listening]
    BY <1>1, <1>2, <1>3, <1>8, <2>1, <2>2 DEF MatcherTypeOK, Listening, Effect
  <2>3. CASE Proceed(m, Selected(m, mat[m].phase))
    <3>1. Selected(m, mat[m].phase) \in SUBSET OrderIds
      BY DEF Selected, ActiveOrders
    <3>2. mat'[m].pc \notin {"position", "commit"}
      BY <1>1, <2>3, <3>1, ProceedEndsFill
    <3> QED
      BY <1>2, <1>3, <1>8, <2>1, <3>2 DEF Effect
  <2> QED
    BY <1>12, <2>2, <2>3 DEF Scan
<1>13. CASE TriggerOrder(m)
  <2>1. NextCandidate(m) /\ (CommitStatus(m, o, "triggered") \/ UNCHANGED dbVars)
    BY <1>13 DEF TriggerOrder
  <2> QED
    BY <1>2, <1>7, <1>8, <1>9, <2>1 DEF Effect, OrderStatus
<1>14. CASE ExecuteLocksOrder(m)
  <2>1. mat[m].pc = "order" /\ UNCHANGED tables
    BY <1>14 DEF ExecuteLocksOrder
  <2>2. CASE TakeOrder(m, o) /\ MatchGoTo(m, "wallet")
    <3>1. txn'[m] = [txn[m] EXCEPT !.order = o]
      BY <1>1, <1>6, <2>1, <2>2, TakeOrderKeeps
    <3>2. MovesOn(m)
      BY <1>1, <2>1, <3>1 DEF Txn, MovesOn, BooksUntouched, tables
    <3> QED
      BY <1>2, <1>3, <1>4, <2>2, <3>2 DEF Effect
  <2>3. CASE UNCHANGED txn /\ NextCandidate(m)
    BY <1>2, <1>7, <2>1, <2>3 DEF Effect, MovesOn, BooksUntouched, tables
  <2> QED
    BY <1>14, <2>2, <2>3 DEF ExecuteLocksOrder
<1>15. CASE ExecuteLocksWallet(m) /\ UNCHANGED feedVars
  <2>1. mat[m].pc = "wallet" /\ txn[m].position = Null /\ txn[m].row = Null
    BY <1>1, <1>15 DEF ExecuteLocksWallet, MatcherPlan
  <2>2. CASE CommitStatus(m, o, "failed") /\ NextCandidate(m)
    BY <1>2, <1>7, <1>9, <2>2 DEF Effect, OrderStatus
  <2>3. CASE /\ ~CannotPay(wallet[order.user], order, MatchPrice(m))
             /\ TakeWallet(m, order.user) /\ MatchGoTo(m, "position")
             /\ UNCHANGED tables
    <3>1. order \in OrderRow /\ MatchPrice(m) \in Prices /\ order.user \in Users
      BY <1>6, <2>1
    <3>2. txn'[m] = [txn[m] EXCEPT !.wallet = order.user, !.balance = wallet[order.user]]
      BY <1>1, <2>3, <3>1, TakeWalletKeeps
    <3>3. /\ txn'[m].wallet = order.user /\ txn'[m].balance = wallet[order.user]
          /\ txn'[m].position = Null
      BY <1>1, <2>1, <3>2 DEF Txn
    <3>4. GainsWallet(m, order.user)
      BY <2>3, <3>3 DEF GainsWallet, TakeWallet, BooksUntouched, tables
    <3>5. mat'[m].pc = "position" /\ mat'[m].order = o
      BY <1>4, <2>3
    <3>6. /\ orders'[mat'[m].order] = order /\ MatchPrice(m)' = MatchPrice(m)
      BY <1>15, <2>3, <3>5 DEF tables, feedVars, MatchPrice, CurrentTick
    <3>7. order.side = "buy" => txn'[m].balance >= OrderValue(order, MatchPrice(m))
      <4>1. wallet[order.user] \in Int /\ OrderValue(order, MatchPrice(m)) \in Nat
        BY <1>1, <3>1, OrderValueType DEF DatabaseTypeOK
      <4> QED
        BY <2>3, <3>3, <4>1 DEF CannotPay
    <3>8. MatcherFunds(m)'
      BY <3>5, <3>6, <3>7 DEF MatcherFunds, Payable
    <3> QED
      BY <1>2, <3>1, <3>4, <3>8 DEF Effect
  <2> QED
    BY <1>15, <2>2, <2>3 DEF ExecuteLocksWallet
<1>16. CASE ExecuteLocksPosition(m) /\ UNCHANGED feedVars
  <2>1. /\ mat[m].pc = "position" /\ txn[m].wallet = order.user /\ txn[m].row = Null
        /\ Payable(m, order, MatchPrice(m))
    BY <1>1, <1>16 DEF ExecuteLocksPosition, MatcherPlan, MatcherFunds
  <2>2. CASE CommitStatus(m, o, "failed") /\ NextCandidate(m)
    BY <1>2, <1>7, <1>9, <2>2 DEF Effect, OrderStatus
  <2>3. CASE TakePosition(m, h) /\ MatchGoTo(m, "commit") /\ UNCHANGED tables
    <3>1. h \in Holdings /\ h[1] = order.user
      BY <1>6, <2>1
    <3>2. /\ position[h] = Null => txn'[m] = txn[m]
          /\ position[h] # Null =>
                txn'[m] = [txn[m] EXCEPT !.position = h, !.row = position[h]]
      BY <1>1, <2>3, <3>1, TakePositionKeeps
    <3>3. mat'[m].pc = "commit" /\ mat'[m].order = o
      BY <1>4, <2>3
    <3>4. /\ orders'[mat'[m].order] = order /\ MatchPrice(m)' = MatchPrice(m)
          /\ position' = position
      BY <1>16, <2>3, <3>3 DEF tables, feedVars, MatchPrice, CurrentTick
    <3>5. CASE position[h] = Null
      <4>1. MovesOn(m)
        BY <2>3, <3>2, <3>5 DEF MovesOn, BooksUntouched, tables
      <4>2. MatcherFunds(m)'
        BY <2>1, <3>2, <3>3, <3>4, <3>5 DEF MatcherFunds, Payable, Absent
      <4> QED
        BY <1>2, <4>1, <4>2 DEF Effect
    <3>6. CASE position[h] # Null
      <4>1. /\ txn'[m].wallet = txn[m].wallet /\ txn'[m].balance = txn[m].balance
            /\ txn'[m].position = h /\ txn'[m].row = position[h]
        BY <1>1, <3>2, <3>6 DEF Txn
      <4>2. GainsPosition(m, h)
        BY <2>1, <2>3, <3>1, <3>6, <4>1
           DEF GainsPosition, TakePosition, BooksUntouched, tables
      <4>3. MatcherFunds(m)'
        BY <2>1, <3>3, <3>4, <3>6, <4>1 DEF MatcherFunds, Payable, Absent
      <4> QED
        BY <1>2, <3>1, <4>2, <4>3 DEF Effect
    <3> QED
      BY <3>5, <3>6
  <2> QED
    BY <1>16, <2>2, <2>3 DEF ExecuteLocksPosition
<1>17. CASE ExecuteCommits(m)
  <2>1. /\ mat[m].pc = "commit" /\ NextCandidate(m)
        /\ CommitFill(m, o, order, MatchPrice(m))
        /\ txn[m].wallet = order.user /\ Deliverable(m, order)
        /\ Payable(m, order, MatchPrice(m))
    BY <1>1, <1>17 DEF ExecuteCommits, MatcherPlan, MatcherFunds
  <2>2. /\ o \in OrderIds /\ order \in OrderRow /\ MatchPrice(m) \in Prices
        /\ txn[m].wallet # Null
    BY <1>6, <2>1, NullAssumption
  <2>3. txn[m].balance >= 0
    BY <1>1, <2>2, BalanceRead DEF Books
  <2> QED
    BY <1>1, <1>2, <1>7, <2>1, <2>2, <2>3, FillCommits DEF Effect
<1>18. CASE ExecuteFails(m)
  BY <1>2, <1>7, <1>10, <1>18 DEF ExecuteFails, Effect
<1>19. CASE ScanFails(m)
  <2>1. mat'[m].pc = "listen" /\ UNCHANGED dbVars
    BY <1>1, <1>19 DEF ScanFails, MatcherTypeOK, Listening
  <2> QED
    BY <1>2, <1>3, <1>8, <2>1 DEF Effect
<1>20. CASE Resubscribe(m)
  <2>1. mat'[m].pc = "listen" /\ Rollback(m)
    BY <1>1, <1>20 DEF Resubscribe, MatcherTypeOK, Listening
  <2> QED
    BY <1>2, <1>3, <1>10, <2>1 DEF Effect
<1> QED
  BY <1>11, <1>12, <1>13, <1>14, <1>15, <1>16, <1>17, <1>18, <1>19, <1>20
     DEF MatcherStep, MatchStep

(* The stop-loss engine *)
LEMMA EngineEffect ==
    ASSUME MoneyInv, NEW e \in StopEngines, EngineStep(e)
    PROVE  Effect(e)
<1> DEFINE u == stp[e].user
           h == Candidate(e)
<1>1. /\ DatabaseTypeOK /\ EngineTypeOK /\ FeedTypeOK /\ EnginePlan(e)
      /\ Books /\ e \in Sessions /\ e \in Subscribers
      /\ stp[e] \in EngineState /\ txn[e] \in Txn
  BY DEF MoneyInv, IInv, TypeOK, Plans, DatabaseTypeOK, EngineTypeOK, Subscribers
<1>2. OthersKept(e)
  BY <1>1, EngineKeeps DEF StepKept
<1>3. ASSUME EndTxn(e)
      PROVE  txn'[e] = NoTxn
  BY <1>1, <1>3, EndTxnKeeps
<1>4. ASSUME stp[e].pc \in {"wallet", "position", "commit"}
      PROVE  u \in Users /\ h \in Holdings /\ h[1] = u /\ StopPrice(e) \in Prices
  <2>1. CurrentTick(e) \in Tick /\ u # Null
    BY <1>1, <1>4, CurrentTickType DEF EnginePlan
  <2> QED
    BY <1>1, <2>1 DEF EngineState, Candidate, StopPrice, Tick
<1>5. ASSUME UNCHANGED dbVars
      PROVE  Effect(e)
  BY <1>2, <1>5 DEF dbVars, Effect, MovesOn, BooksUntouched
<1>6. ASSUME EndTxn(e), UNCHANGED tables
      PROVE  Effect(e)
  BY <1>2, <1>3, <1>6 DEF tables, Effect, MovesOn, BooksUntouched
<1>7. CASE EngineLocksWallet(e)
  <2>1. stp[e].pc = "wallet" /\ TakeWallet(e, u) /\ UNCHANGED tables /\ txn[e] = NoTxn
    BY <1>1, <1>7 DEF EngineLocksWallet, EnginePlan
  <2>2. txn'[e] = [txn[e] EXCEPT !.wallet = u, !.balance = wallet[u]]
    BY <1>1, <1>4, <2>1, TakeWalletKeeps
  <2>3. /\ txn'[e].wallet = u /\ txn'[e].balance = wallet[u]
        /\ txn'[e].position = Null
    BY <2>1, <2>2 DEF NoTxn
  <2>4. GainsWallet(e, u)
    BY <2>1, <2>3 DEF GainsWallet, TakeWallet, BooksUntouched, tables
  <2> QED
    BY <1>2, <1>4, <2>1, <2>4 DEF Effect
<1>8. CASE EngineLocksPosition(e)
  <2>1. stp[e].pc = "position" /\ txn[e].wallet = u /\ UNCHANGED tables
    BY <1>1, <1>8 DEF EngineLocksPosition, EnginePlan
  <2>2. CASE EndTxn(e)
    BY <1>6, <2>1, <2>2
  <2>3. CASE Reverified(position[h], StopPrice(e)) /\ TakePosition(e, h)
    <3>1. position[h] # Null
      BY <2>3 DEF Reverified
    <3>2. txn'[e] = [txn[e] EXCEPT !.position = h, !.row = position[h]]
      BY <1>1, <1>4, <2>1, <2>3, <3>1, TakePositionKeeps
    <3>3. /\ txn'[e].wallet = txn[e].wallet /\ txn'[e].balance = txn[e].balance
          /\ txn'[e].position = h /\ txn'[e].row = position[h]
      BY <1>1, <3>2 DEF Txn
    <3>4. GainsPosition(e, h)
      BY <1>4, <2>1, <2>3, <3>1, <3>3
         DEF GainsPosition, TakePosition, BooksUntouched, tables
    <3> QED
      BY <1>2, <1>4, <2>1, <3>4 DEF Effect
  <2> QED
    BY <1>8, <2>2, <2>3 DEF EngineLocksPosition
<1>9. CASE EngineCommits(e)
  <2> DEFINE sale == SaleOrder(h, txn[e].row.quantity, StopPrice(e))
             balance == txn[e].balance + sale.order_value
             row == Sold(txn[e].row)
  <2>1. /\ stp[e].pc = "commit" /\ EndTxn(e)
        /\ position' = [position EXCEPT ![h] = row]
        /\ wallet' = [wallet EXCEPT ![u] = balance]
    BY <1>9 DEF EngineCommits
  <2>2. PICK o \in SaleIds :
        ledger' = [ledger EXCEPT ![u] =
                      Append(@, Entry("sell", sale.order_value, balance, o))]
    BY <1>9 DEF EngineCommits
  <2>3. /\ txn[e].row \in PositionRow /\ txn[e].row.quantity \in Nat
        /\ txn[e].wallet = u /\ txn[e].balance \in Int
    BY <1>1, <2>1 DEF EnginePlan, Txn, PositionRow
  <2>4. u \in Users /\ h \in Holdings /\ h[1] = u /\ StopPrice(e) \in Nat
    BY <1>4, <2>1, PricesAssumption
  <2>5. sale.order_value = StopPrice(e) * txn[e].row.quantity
    BY DEF SaleOrder, Executed, NewOrder, OrderValue
  <2>6. sale.order_value \in Nat
    BY <2>3, <2>4, <2>5
  <2>7. txn[e].balance >= 0
    BY <1>1, <2>3, <2>4, NullAssumption, BalanceRead DEF Books
  <2> HIDE DEF sale
  <2>8. balance \in Int /\ balance >= 0
    BY <2>3, <2>6, <2>7
  <2> DEFINE entry == Entry("sell", sale.order_value, balance, o)
  <2>9. /\ entry \in WalletEntry /\ entry.balance_after = balance
        /\ SignedAmount(entry) = sale.order_value
    BY <2>6, <2>8 DEF Entry, WalletEntry, SignedAmount, OrderIds
  <2>10. row \in PositionRow
    BY <2>3 DEF Sold, PositionRow, OptionalPrice
  <2>11. txn'[e] = NoTxn
    BY <1>3, <2>1
  <2>12. CommitsAs(e, h, row, entry)
    <3> HIDE DEF entry, row, h, u
    <3>1. ledger' = [ledger EXCEPT ![h[1]] = Append(@, entry)]
      BY <2>2, <2>4 DEF entry
    <3>2. entry.balance_after = txn[e].balance + SignedAmount(entry)
      BY <2>9
    <3> HIDE DEF balance
    <3> QED
      BY <2>1, <2>3, <2>4, <2>8, <2>9, <2>11, <3>1, <3>2 DEF CommitsAs
  <2> QED
    BY <1>2, <2>4, <2>9, <2>10, <2>12 DEF Effect
<1>10. CASE EngineSaleFails(e)
  BY <1>6, <1>10 DEF EngineSaleFails, Rollback
<1>11. CASE EngineReceives(e) \/ EngineScans(e) \/ EngineCrashes(e) \/ EngineResubscribes(e)
  BY <1>5, <1>11 DEF EngineReceives, EngineScans, EngineCrashes, EngineResubscribes
<1> QED
  BY <1>7, <1>8, <1>9, <1>10, <1>11 DEF EngineStep, SaleStep

----------------------------------------------------------------------------
(* The funds of a session survive the steps of the others. *)

(* The funds of an order request that does not move. *)
LEMMA RequestFundsKept ==
    ASSUME NEW r \in RequestIds, RequestFunds(r),
           req'[r] = req[r], txn'[r] = txn[r],
           req[r].pc = "commit" /\ position[Holding(req[r].order)] = Null
                => position'[Holding(req[r].order)] = Null
    PROVE  RequestFunds(r)'
BY DEF RequestFunds, Payable, Absent

(* The funds of a subscriber that does not move. *)
LEMMA MatcherFundsKept ==
    ASSUME NEW m \in Matchers, MatcherFunds(m), MatcherPlan(m),
           mat'[m] = mat[m], txn'[m] = txn[m],
           mat[m].pc \in {"position", "commit"} =>
                /\ SameTerms(orders[mat[m].order], orders'[mat[m].order])
                /\ MatchPrice(m)' = MatchPrice(m),
           mat[m].pc = "commit" /\ position[Holding(orders[mat[m].order])] = Null
                => position'[Holding(orders[mat[m].order])] = Null
    PROVE  MatcherFunds(m)'
BY DEF MatcherFunds, Payable, Absent, SameTerms, Holding, OrderValue

----------------------------------------------------------------------------
(* The invariant *)

(* What others committed leaves missing what a session found missing. *)
LEMMA FundsKeptByOthers ==
    ASSUME MoneyInv, NEW s \in Sessions, Effect(s), OrdersKept
    PROVE  /\ \A r \in RequestIds :
                r # s /\ req'[r] = req[r] => RequestFunds(r)'
           /\ \A m \in Matchers :
                m # s /\ mat'[m] = mat[m] /\ MatchPrice(m)' = MatchPrice(m)
                    => MatcherFunds(m)'
<1>1. /\ DatabaseTypeOK /\ RequestTypeOK /\ MatcherTypeOK /\ LocksExclusive
  BY DEF MoneyInv, IInv, TypeOK, Books
<1>2. ASSUME NEW r \in RequestIds, r # s, req'[r] = req[r]
      PROVE  RequestFunds(r)'
  <2>1. RequestPlan(r) /\ RequestFunds(r) /\ req[r] \in RequestState
    BY <1>1 DEF MoneyInv, IInv, Plans, Funds, RequestTypeOK
  <2>2. txn'[r] = txn[r]
    BY <1>1, <1>2, EffectLeaves
  <2>3. ASSUME req[r].pc = "commit"
        PROVE  position'[Holding(req[r].order)] = position[Holding(req[r].order)]
    <3>1. /\ Holding(req[r].order) \in Holdings
          /\ txn[r].wallet = Holding(req[r].order)[1]
          /\ txn[r].wallet # Null
      BY <2>1, <2>3, NullAssumption DEF RequestPlan, RequestState, OrderRow, Holding
    <3> QED
      BY <1>1, <1>2, <3>1, EffectLeaves
  <2> QED
    BY <1>2, <2>1, <2>2, <2>3, RequestFundsKept
<1>3. ASSUME NEW m \in Matchers, m # s, mat'[m] = mat[m],
             MatchPrice(m)' = MatchPrice(m)
      PROVE  MatcherFunds(m)'
  <2>1. MatcherPlan(m) /\ MatcherFunds(m) /\ mat[m] \in MatcherState
    BY <1>1 DEF MoneyInv, IInv, Plans, Funds, MatcherTypeOK
  <2>2. txn'[m] = txn[m]
    BY <1>1, <1>3, EffectLeaves
  <2>3. ASSUME mat[m].pc \in {"position", "commit"}
        PROVE  /\ SameTerms(orders[mat[m].order], orders'[mat[m].order])
               /\ orders[mat[m].order] \in OrderRow
               /\ txn[m].wallet = orders[mat[m].order].user
    BY <1>1, <2>1, <2>3 DEF MatcherPlan, MatcherState, OrdersKept, DatabaseTypeOK
  <2>4. ASSUME mat[m].pc = "commit"
        PROVE  position'[Holding(orders[mat[m].order])]
                 = position[Holding(orders[mat[m].order])]
    <3>1. /\ Holding(orders[mat[m].order]) \in Holdings
          /\ txn[m].wallet = Holding(orders[mat[m].order])[1]
          /\ txn[m].wallet # Null
      BY <2>3, <2>4, NullAssumption DEF OrderRow, Holding
    <3> QED
      BY <1>1, <1>3, <3>1, EffectLeaves
  <2> QED
    BY <1>3, <2>1, <2>2, <2>3, <2>4, MatcherFundsKept
<1> QED
  BY <1>2, <1>3

(* The tick that a subscriber works on does not change under its hands. *)
LEMMA PriceStays ==
    ASSUME FeedTypeOK, NEW m \in Matchers, MatcherPlan(m), mat[m].pc # "listen",
           cursor'[m] = cursor[m],
           \A i \in 1 .. Len(feed) : feed'[i] = feed[i]
    PROVE  MatchPrice(m)' = MatchPrice(m)
BY DEF MatcherPlan, MatchPrice, CurrentTick

(* A step with such an effect keeps the books. *)
LEMMA BooksKept ==
    ASSUME DatabaseTypeOK, DatabaseTypeOK', Books, NEW s \in Sessions, Effect(s)
    PROVE  Books'
<1>1. LocksExclusive' /\ WalletGuardsPosition'
  BY EffectExclusive DEF Books
<1>2. ReadsCurrent'
  BY EffectCurrent DEF Books
<1>3. LedgerChains' /\ NoOverdraft'
  BY EffectLedger DEF Books
<1> QED
  BY <1>1, <1>2, <1>3 DEF Books

(* update-sl writes to rows that are there and that nobody has locked. *)
LEMMA EditorBooks ==
    ASSUME MoneyInv, DatabaseTypeOK', NEW d \in Editors, EditorStep(d)
    PROVE  /\ Books'
           /\ \A h \in Holdings : position[h] = Null => position'[h] = Null
<1>1. /\ DatabaseTypeOK /\ EditorTypeOK /\ EditorPlan(d) /\ Books
      /\ edit[d] \in EditorState
  BY DEF MoneyInv, IInv, TypeOK, Plans, EditorTypeOK
<1>2. \A h \in Holdings : Held(position'[h]) >= 0
  BY DEF DatabaseTypeOK, Held, PositionRow
<1>3. UNCHANGED <<wallet, ledger, txn>>
  BY DEF EditorStep, ReadPosition, WriteStops, EditFails, dbVars
<1>4. CASE UNCHANGED position
  BY <1>1, <1>3, <1>4 DEF Books, LocksExclusive, WalletGuardsPosition, ReadsCurrent,
     LedgerChains, NoOverdraft, BalanceBefore
<1>5. CASE WriteStops(d)
  <2> DEFINE q == edit[d].payload
             h == <<q.user, q.symbol>>
  <2>1. PositionFree(h) /\ position[h] # Null
    BY <1>1, <1>5 DEF WriteStops, EditorPlan
  <2>2. \A x \in Holdings : x # h => position'[x] = position[x]
    BY <1>1, <1>5 DEF WriteStops, WriteColumns, DatabaseTypeOK
  <2>3. ReadsCurrent'
    BY <1>1, <1>3, <2>1, <2>2 DEF Books, ReadsCurrent, PositionFree, DatabaseTypeOK, Txn
  <2>4. LocksExclusive' /\ WalletGuardsPosition' /\ LedgerChains'
    BY <1>1, <1>3 DEF Books, LocksExclusive, WalletGuardsPosition, LedgerChains,
       BalanceBefore
  <2>5. NoOverdraft'
    BY <1>1, <1>2, <1>3 DEF Books, NoOverdraft
  <2> QED
    BY <2>1, <2>2, <2>3, <2>4, <2>5 DEF Books
<1> QED
  BY <1>4, <1>5 DEF EditorStep, ReadPosition, EditFails, dbVars

(* The books hold at the start. *)
LEMMA MoneyInit ==
    ASSUME Init
    PROVE  MoneyInv
<1>1. IInv
  BY InitHolds
<1>2. LocksExclusive /\ WalletGuardsPosition /\ ReadsCurrent
  BY DEF Init, DatabaseInit, NoTxn, LocksExclusive, WalletGuardsPosition, ReadsCurrent
<1>3. LedgerChains
  BY OpeningBalanceAssumption DEF Init, DatabaseInit, LedgerChains, BalanceBefore
<1>4. NoOverdraft
  BY OpeningBalanceAssumption DEF Init, DatabaseInit, NoOverdraft, Held
<1>5. Funds
  BY DEF Init, RequestInit, NewRequest, MatcherInit, Listening,
     Funds, RequestFunds, MatcherFunds
<1> QED
  BY <1>1, <1>2, <1>3, <1>4, <1>5 DEF MoneyInv, Books

(* And every step of the system keeps them. *)
LEMMA MoneyNext ==
    ASSUME MoneyInv, [Next]_vars
    PROVE  MoneyInv'
<1>1. IInv' /\ DatabaseTypeOK'
  BY NextHolds DEF MoneyInv, IInv, TypeOK
<1>2. /\ DatabaseTypeOK /\ FeedTypeOK /\ RequestTypeOK /\ MatcherTypeOK
      /\ EngineTypeOK /\ EditorTypeOK /\ Books
      /\ RequestIds \cap Subscribers = {} /\ Matchers \cap StopEngines = {}
  BY IdsAssumption DEF MoneyInv, IInv, TypeOK
<1>3. ASSUME NEW m \in Matchers
      PROVE  /\ MatcherPlan(m) /\ MatcherFunds(m)
             /\ mat[m].pc = "listen" => MatcherFunds(m)
  BY DEF MoneyInv, IInv, Plans, Funds
<1>4. ASSUME NEW m \in Matchers, cursor'[m] = cursor[m], mat'[m] = mat[m],
             \A i \in 1 .. Len(feed) : feed'[i] = feed[i],
             MatchPrice(m)' = MatchPrice(m) => MatcherFunds(m)'
      PROVE  MatcherFunds(m)'
  <2>1. CASE mat[m].pc = "listen"
    BY <1>4, <2>1 DEF MatcherFunds
  <2>2. CASE mat[m].pc # "listen"
    BY <1>2, <1>3, <1>4, <2>2, PriceStays
  <2> QED
    BY <2>1, <2>2
<1>5. ASSUME NEW r \in RequestIds, RequestMoves(r)
      PROVE  Books' /\ Funds'
  <2>1. RequestStep(r) /\ UNCHANGED <<feedVars, mat, stp, edit>> /\ r \in Sessions
    BY <1>5 DEF RequestMoves
  <2>2. /\ OrdersKept /\ \A x \in RequestIds : x # r => req'[x] = req[x]
    BY <1>2, <2>1, RequestKeeps DEF StepKept, MoneyInv, IInv, Plans
  <2>3. Effect(r) /\ RequestFunds(r)'
    BY <2>1, RequestEffect
  <2>4. Books'
    BY <1>1, <1>2, <2>1, <2>3, BooksKept
  <2>5. \A x \in RequestIds : RequestFunds(x)'
    BY <2>1, <2>2, <2>3, FundsKeptByOthers
  <2>6. ASSUME NEW m \in Matchers
        PROVE  MatcherFunds(m)'
    <3>1. m # r /\ mat'[m] = mat[m] /\ cursor'[m] = cursor[m] /\ feed' = feed
      BY <1>2, <2>1 DEF Subscribers, feedVars
    <3>2. MatchPrice(m)' = MatchPrice(m)
      BY <3>1 DEF MatchPrice, CurrentTick
    <3> QED
      BY <2>1, <2>2, <2>3, <3>1, <3>2, FundsKeptByOthers
  <2> QED
    BY <2>4, <2>5, <2>6 DEF Funds
<1>6. ASSUME NEW s \in Matchers, MatcherMoves(s)
      PROVE  Books' /\ Funds'
  <2>1. MatcherStep(s) /\ UNCHANGED <<req, stp, edit>> /\ s \in Sessions
    BY <1>6 DEF MatcherMoves
  <2>2. /\ OrdersKept /\ feed' = feed
        /\ \A x \in Matchers : x # s => mat'[x] = mat[x]
        /\ \A x \in Subscribers : x # s => cursor'[x] = cursor[x]
    BY <1>2, <1>3, <2>1, MatcherKeeps DEF StepKept
  <2>3. Effect(s) /\ MatcherFunds(s)'
    BY <2>1, MatcherEffect
  <2>4. Books'
    BY <1>1, <1>2, <2>1, <2>3, BooksKept
  <2>5. ASSUME NEW r \in RequestIds
        PROVE  RequestFunds(r)'
    BY <1>2, <2>1, <2>2, <2>3, FundsKeptByOthers DEF Subscribers
  <2>6. ASSUME NEW m \in Matchers, m # s
        PROVE  MatcherFunds(m)'
    <3>1. mat'[m] = mat[m] /\ cursor'[m] = cursor[m]
      BY <2>2, <2>6 DEF Subscribers
    <3>2. MatchPrice(m)' = MatchPrice(m)
      BY <2>2, <3>1 DEF MatchPrice, CurrentTick
    <3> QED
      BY <2>1, <2>2, <2>3, <2>6, <3>1, <3>2, FundsKeptByOthers
  <2> QED
    BY <2>3, <2>4, <2>5, <2>6 DEF Funds
<1>7. ASSUME NEW e \in StopEngines, EngineMoves(e)
      PROVE  Books' /\ Funds'
  <2>1. EngineStep(e) /\ UNCHANGED <<req, mat, edit>> /\ e \in Sessions
    BY <1>7 DEF EngineMoves
  <2>2. /\ OrdersKept /\ feed' = feed
        /\ \A x \in Subscribers : x # e => cursor'[x] = cursor[x]
    BY <1>2, <2>1, EngineKeeps DEF StepKept, MoneyInv, IInv, Plans
  <2>3. Effect(e)
    BY <2>1, EngineEffect
  <2>4. Books'
    BY <1>1, <1>2, <2>1, <2>3, BooksKept
  <2>5. ASSUME NEW r \in RequestIds
        PROVE  RequestFunds(r)'
    BY <1>2, <2>1, <2>2, <2>3, FundsKeptByOthers DEF Subscribers
  <2>6. ASSUME NEW m \in Matchers
        PROVE  MatcherFunds(m)'
    <3>1. m # e /\ mat'[m] = mat[m] /\ cursor'[m] = cursor[m]
      BY <1>2, <2>1, <2>2 DEF Subscribers
    <3>2. MatchPrice(m)' = MatchPrice(m)
      BY <2>2, <3>1 DEF MatchPrice, CurrentTick
    <3> QED
      BY <2>1, <2>2, <2>3, <3>1, <3>2, FundsKeptByOthers
  <2> QED
    BY <2>4, <2>5, <2>6 DEF Funds
<1>8. ASSUME NEW d \in Editors, EditorMoves(d)
      PROVE  Books' /\ Funds'
  <2>1. EditorStep(d) /\ UNCHANGED <<feedVars, req, mat, stp>>
    BY <1>8 DEF EditorMoves
  <2>2. Books' /\ \A h \in Holdings : position[h] = Null => position'[h] = Null
    BY <1>1, <2>1, EditorBooks
  <2>3. txn' = txn /\ orders' = orders
    BY <2>1 DEF EditorStep, ReadPosition, WriteStops, EditFails, dbVars
  <2>4. ASSUME NEW r \in RequestIds
        PROVE  RequestFunds(r)'
    <3>1. req[r] \in RequestState /\ RequestPlan(r) /\ RequestFunds(r)
      BY <1>2 DEF RequestTypeOK, MoneyInv, IInv, Plans, Funds
    <3>2. req[r].pc = "commit" => Holding(req[r].order) \in Holdings
      BY <3>1 DEF RequestPlan, RequestState, OrderRow, Holding
    <3> QED
      BY <2>1, <2>2, <2>3, <3>1, <3>2, RequestFundsKept
  <2>5. ASSUME NEW m \in Matchers
        PROVE  MatcherFunds(m)'
    <3>1. mat[m].pc \in {"position", "commit"} =>
            orders[mat[m].order] \in OrderRow
            /\ Holding(orders[mat[m].order]) \in Holdings
      BY <1>2, <1>3 DEF MatcherPlan, MatcherTypeOK, MatcherState, DatabaseTypeOK,
         OrderRow, Holding
    <3>2. MatchPrice(m)' = MatchPrice(m)
      BY <2>1 DEF MatchPrice, CurrentTick, feedVars
    <3> QED
      BY <1>3, <2>1, <2>2, <2>3, <3>1, <3>2, MatcherFundsKept DEF SameTerms
  <2> QED
    BY <2>2, <2>4, <2>5 DEF Funds
<1>9. ASSUME PublisherMoves \/ UNCHANGED vars
      PROVE  Books' /\ Funds'
  <2>1. /\ UNCHANGED <<wallet, position, orders, ledger, txn, req, mat>>
        /\ cursor' = cursor /\ \A i \in 1 .. Len(feed) : feed'[i] = feed[i]
    BY <1>2, <1>9, PublisherKeeps DEF PublisherMoves, vars, dbVars, feedVars
  <2>2. Books'
    BY <1>2, <2>1 DEF Books, LocksExclusive, WalletGuardsPosition, ReadsCurrent,
       LedgerChains, NoOverdraft, BalanceBefore
  <2>3. ASSUME NEW r \in RequestIds
        PROVE  RequestFunds(r)'
    BY <2>1 DEF RequestFunds, Payable, Absent, MoneyInv, Funds
  <2>4. ASSUME NEW m \in Matchers
        PROVE  MatcherFunds(m)'
    <3>1. MatchPrice(m)' = MatchPrice(m) => MatcherFunds(m)'
      BY <1>3, <2>1 DEF MatcherFunds, Payable, Absent
    <3> QED
      BY <1>4, <2>1, <3>1
  <2> QED
    BY <2>2, <2>3, <2>4 DEF Funds
<1>10. Books' /\ Funds'
  BY <1>5, <1>6, <1>7, <1>8, <1>9 DEF Next
<1> QED
  BY <1>1, <1>10 DEF MoneyInv

(* The books, and what each session in the middle of a fill relies on, hold *)
(* throughout.                                                              *)
THEOREM MoneyInvariant == Spec => []MoneyInv
<1>1. Init => MoneyInv
  BY MoneyInit
<1>2. MoneyInv /\ [Next]_vars => MoneyInv'
  BY MoneyNext
<1> QED
  BY <1>1, <1>2, PTL DEF Spec

(* What a transaction read under its locks is in force up to its commit,   *)
(* and the row that it found missing is still missing when it inserts it.  *)
THEOREM ReadsStayCurrent == Spec => []LockedReadsCurrent
<1>1. MoneyInv => LockedReadsCurrent
  <2> SUFFICES ASSUME MoneyInv
               PROVE  LockedReadsCurrent
    OBVIOUS
  <2>1. ReadsCurrent
    BY DEF MoneyInv, Books
  <2>2. InsertsSucceed
    BY DEF MoneyInv, Funds, RequestFunds, MatcherFunds, Absent,
       InsertsSucceed, InsertCollides
  <2> QED
    BY <2>1, <2>2 DEF LockedReadsCurrent
<1> QED
  BY <1>1, MoneyInvariant, PTL

(* No update of a wallet is ever lost: the wallet_transactions of a user   *)
(* chain from the opening balance to the balance of the wallet.            *)
THEOREM LedgersAddUp == Spec => []LedgerChains
<1>1. MoneyInv => LedgerChains
  BY DEF MoneyInv, Books
<1> QED
  BY <1>1, MoneyInvariant, PTL

(* No balance and no holding becomes negative, in whatever order requests, *)
(* subscribers and stop-loss engines commit.                               *)
THEOREM NeverOverdrawn == Spec => []NoOverdraft
<1>1. MoneyInv => NoOverdraft
  BY DEF MoneyInv, Books
<1> QED
  BY <1>1, MoneyInvariant, PTL
=============================================================================
