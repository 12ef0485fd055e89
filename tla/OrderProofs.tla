---------------------------- MODULE OrderProofs ----------------------------
(* Proofs about orders: every step of the locking transactions is a step   *)
(* of AtomicTrading or changes nothing that its users can see, and what    *)
(* holds of those few steps holds of the system.                           *)
EXTENDS TradingProofs, WellFoundedInduction, FiniteSetTheorems

AtomicStep == [Atomic!Next]_(Atomic!atomicVars)

(* What a step of session s may do to the orders: it changes the row of an *)
(* active order that nobody else has locked, or adds one; and only a step  *)
(* that is due takes a stop-limit order out of pending.                    *)
OrderChanges(s) ==
    \A o \in OrderIds : orders'[o] # orders[o] =>
        /\ orders[o] # Null =>
            orders[o].status \in Active /\ \A t \in Sessions : txn[t].order = o => t = s
        /\ orders'[o] # Null
        /\ o \in SaleIds => orders'[o].order_type = "market"
        /\ orders'[o].order_type = "stop_limit" /\ orders'[o].status # "pending"
            => TriggerHit(orders'[o])

(* What it may do to the order locks: keep, drop or take one that is free. *)
LockChanges(s) ==
    /\ OthersKept(s)
    /\ txn'[s].order \in {Null, txn[s].order} \/ OrderFree(txn'[s].order)

----------------------------------------------------------------------------
(* The arithmetic of AtomicTrading is that of the system. *)
LEMMA AtomicModels ==
    /\ Atomic!OrderIds = OrderIds /\ Atomic!Holdings = Holdings /\ Atomic!Active = Active
    /\ \A q : Atomic!NewOrder(q) = NewOrder(q)
    /\ \A order : Atomic!Holding(order) = Holding(order)
    /\ \A order, p : /\ Atomic!OrderValue(order, p) = OrderValue(order, p)
                     /\ Atomic!Executed(order, p) = Executed(order, p)
    /\ \A side, value : Atomic!SignedValue(side, value) = SignedValue(side, value)
    /\ \A side, a, b, o : Atomic!Entry(side, a, b, o) = Entry(side, a, b, o)
    /\ \A balance, order, p : Atomic!CannotPay(balance, order, p) = CannotPay(balance, order, p)
    /\ \A row : Atomic!Held(row) = Held(row)
    /\ \A row, order : Atomic!CannotDeliver(row, order) = CannotDeliver(row, order)
    /\ \A row, order, p : Atomic!AfterFill(row, order, p) = AfterFill(row, order, p)
    /\ \A row, p : Atomic!StopHit(row, p) = StopHit(row, p)
    /\ \A side, limit, p : /\ Atomic!Triggers(side, limit, p) = Triggers(side, limit, p)
                           /\ Atomic!Executable(side, limit, p) = Executable(side, limit, p)
<1>1. /\ Atomic!OrderIds = OrderIds /\ Atomic!Holdings = Holdings /\ Atomic!Active = Active
  BY DEF Atomic!OrderIds, OrderIds, Atomic!Holdings, Holdings, Atomic!Active, Active
<1>2. \A q : Atomic!NewOrder(q) = NewOrder(q)
  BY DEF Atomic!NewOrder, NewOrder
<1>3. \A order : Atomic!Holding(order) = Holding(order)
  BY DEF Atomic!Holding, Holding
<1>4. \A order, p : /\ Atomic!OrderValue(order, p) = OrderValue(order, p)
                    /\ Atomic!Executed(order, p) = Executed(order, p)
  BY DEF Atomic!OrderValue, OrderValue, Atomic!Executed, Executed
<1>5. \A side, value : Atomic!SignedValue(side, value) = SignedValue(side, value)
  BY DEF Atomic!SignedValue, SignedValue
<1>6. \A side, a, b, o : Atomic!Entry(side, a, b, o) = Entry(side, a, b, o)
  BY DEF Atomic!Entry, Entry
<1>7. \A balance, order, p : Atomic!CannotPay(balance, order, p) = CannotPay(balance, order, p)
  BY DEF Atomic!CannotPay, CannotPay, Atomic!OrderValue, OrderValue
<1>8. \A row : Atomic!Held(row) = Held(row)
  BY DEF Atomic!Held, Held
<1>9. \A row, order : Atomic!CannotDeliver(row, order) = CannotDeliver(row, order)
  BY DEF Atomic!CannotDeliver, CannotDeliver, Atomic!Held, Held
<1>10. \A row, order, p : Atomic!AfterFill(row, order, p) = AfterFill(row, order, p)
  BY DEF Atomic!AfterFill, AfterFill, Atomic!EmptyPosition, EmptyPosition,
     Atomic!AvgPrice, AvgPrice, Atomic!RoundHalfEven, RoundHalfEven
<1>11. \A row, p : Atomic!StopHit(row, p) = StopHit(row, p)
  BY DEF Atomic!StopHit, StopHit
<1>12. \A side, limit, p : /\ Atomic!Triggers(side, limit, p) = Triggers(side, limit, p)
                           /\ Atomic!Executable(side, limit, p) = Executable(side, limit, p)
  BY DEF Atomic!Triggers, Triggers, Atomic!Executable, Executable
<1> QED
  BY <1>1, <1>2, <1>3, <1>4, <1>5, <1>6, <1>7, <1>8, <1>9, <1>10, <1>11, <1>12

USE DEF OrderIds, Holdings, Sessions, Subscribers, Active

(* Prices shown stay shown as long as no tick is drawn or published. *)
LEMMA QuotedSame ==
    ASSUME UNCHANGED <<feed, outbox>>
    PROVE  Quoted' = Quoted
BY DEF Quoted, TicksOf

(* A step that writes to no table and shows no price is none of theirs. *)
LEMMA TablesSame ==
    ASSUME UNCHANGED tables, Quoted' = Quoted, NEW s \in Sessions
    PROVE  AtomicStep /\ OrderChanges(s)
BY DEF tables, AtomicStep, Atomic!atomicVars, OrderChanges

(* A commit that books an execution does so against the balance and the    *)
(* holding in force, because what was read under the locks still is.       *)
LEMMA FillInForce ==
    ASSUME DatabaseTypeOK, ReadsCurrent, NEW s \in Sessions, NEW o \in OrderIds,
           NEW order \in OrderRow, NEW price \in Prices,
           txn[s].wallet = order.user, HasLooked(s, Holding(order)),
           Absent(s, order), Deliverable(s, order), Payable(s, order, price),
           UNCHANGED feedVars, CommitFill(s, o, order, price)
    PROVE  /\ Atomic!Affordable(order, price)
           /\ Atomic!Execute(o, order, price, AfterFill(position[Holding(order)], order, price))
           /\ orders' = [orders EXCEPT ![o] = Executed(order, price)]
<1> DEFINE h == Holding(order)
<1>1. /\ order.user \in Users /\ h \in Holdings /\ order.quantity \in Nat \ {0}
      /\ OrderValue(order, price) \in Nat
  BY OrderValueType DEF OrderRow, Holding
<1>2. txn[s].balance = wallet[order.user] /\ wallet[order.user] \in Int
  <2>1. wallet[order.user] \in Int
    BY <1>1 DEF DatabaseTypeOK
  <2>2. order.user # Null
    BY <1>1, NullAssumption
  <2> QED
    BY <2>1, <2>2 DEF ReadsCurrent
<1>3. txn[s].row = position[h] /\ position[h] \in PositionRow \cup {Null}
  BY <1>1 DEF HasLooked, Absent, ReadsCurrent, DatabaseTypeOK
<1>4. ~CannotPay(wallet[order.user], order, price)
  BY <1>1, <1>2 DEF CannotPay, Payable
<1>5. ~CannotDeliver(position[h], order)
  BY <1>1, <1>3 DEF CannotDeliver, Deliverable, Held, PositionRow
<1>6. Atomic!Affordable(order, price)
  BY <1>4, <1>5, AtomicModels DEF Atomic!Affordable
<1>7. Quoted' = Quoted
  BY QuotedSame DEF feedVars
<1>8. Atomic!Execute(o, order, price, AfterFill(position[h], order, price))
  BY <1>2, <1>3, <1>7, AtomicModels DEF CommitFill, Atomic!Execute
<1> QED
  BY <1>6, <1>8 DEF CommitFill

(* The row that an execution writes is one that the order rules allow. *)
LEMMA ExecutionAllowed ==
    ASSUME DatabaseTypeOK, OrderLocks, NEW s \in Sessions, NEW o \in OrderIds,
           NEW order \in OrderRow, NEW price \in Prices,
           orders' = [orders EXCEPT ![o] = Executed(order, price)],
           orders[o] # Null => order.status \in Active /\ order = orders[o] /\ txn[s].order = o,
           o \in SaleIds => order.order_type = "market",
           order.order_type = "stop_limit" => TriggerHit(order)
    PROVE  OrderChanges(s)
<1>1. /\ Executed(order, price) \in OrderRow
      /\ SameTerms(order, Executed(order, price))
  BY ExecutedType
<1>2. order.order_type = "stop_limit" => TriggerHit(Executed(order, price))
  BY <1>1 DEF SameTerms, TriggerHit, TicksOf
<1>3. \A x \in OrderIds : x # o => orders'[x] = orders[x]
  BY DEF DatabaseTypeOK
<1>4. orders'[o] = Executed(order, price) /\ Executed(order, price) # Null
  BY <1>1, NullAssumption DEF DatabaseTypeOK
<1>5. orders[o] # Null => \A t \in Sessions : txn[t].order = o => t = s
  BY NullAssumption DEF OrderLocks
<1> QED
  BY <1>1, <1>2, <1>3, <1>4, <1>5 DEF OrderChanges, SameTerms

(* place_order *)
LEMMA RequestBooks ==
    ASSUME OrderInv, NEW r \in RequestIds, RequestStep(r), UNCHANGED feedVars
    PROVE  AtomicStep /\ OrderChanges(r) /\ LockChanges(r) /\ RequestTerms(r)'
<1>1. /\ DatabaseTypeOK /\ RequestTypeOK /\ FeedTypeOK /\ RequestPlan(r)
      /\ RequestFunds(r) /\ ReadsCurrent /\ OrderRules /\ RequestTerms(r)
      /\ r \in Sessions /\ r \in OrderIds /\ req[r] \in RequestState
  BY DEF OrderInv, Terms, MoneyInv, Books, IInv, TypeOK, Plans, Funds, RequestTypeOK
<1>2. OthersKept(r) /\ Quoted' = Quoted
  BY <1>1, RequestKeeps, QuotedSame DEF StepKept, feedVars
<1>3. ASSUME Answer(r)
      PROVE  RequestTerms(r)'
  BY <1>1, <1>3 DEF Answer, Answered, RequestTypeOK, RequestTerms
<1>4. ASSUME NEW pc \in {"position", "commit"}, GoTo(r, pc),
             req[r].pc \in {"wallet", "position"}
      PROVE  RequestTerms(r)'
  <2>1. req'[r].order = req[r].order /\ req'[r].price = req[r].price
    BY <1>1, <1>4 DEF GoTo, RequestTypeOK, RequestState
  <2> QED
    BY <1>1, <1>2, <1>4, <2>1 DEF RequestTerms
<1>5. ASSUME EndTxn(r)
      PROVE  LockChanges(r)
  BY <1>1, <1>2, <1>5, EndTxnKeeps DEF LockChanges, NoTxn
<1>6. ASSUME req[r].pc \in {"wallet", "position", "commit"}
      PROVE  /\ req[r].order \in OrderRow /\ req[r].price \in Prices
             /\ req[r].order.user \in Users /\ Holding(req[r].order) \in Holdings
  BY <1>1, <1>6 DEF RequestPlan, RequestState, OrderRow, Holding, OptionalPrice
<1>7. CASE PlacePending(r)
  <2>1. PICK q \in OrderRequests :
            q.order_type # "market" /\ orders' = [orders EXCEPT ![r] = NewOrder(q)]
    BY <1>7 DEF PlacePending
  <2>2. orders[r] = Null /\ UNCHANGED <<wallet, position, ledger, txn>> /\ Answer(r)
    BY <1>1, <1>7 DEF PlacePending, RequestPlan
  <2>3. Atomic!Place(r)
    BY <1>2, <2>1, <2>2, AtomicModels DEF Atomic!Place
  <2>4. AtomicStep
    BY <2>3 DEF AtomicStep, Atomic!Next
  <2>5. NewOrder(q) # Null /\ NewOrder(q).status = "pending"
    BY NewOrderType, NullAssumption DEF NewOrder
  <2>6. OrderChanges(r)
    BY <1>1, <2>1, <2>2, <2>5, IdsAssumption DEF OrderChanges, DatabaseTypeOK
  <2> QED
    BY <1>2, <1>3, <2>2, <2>4, <2>6 DEF LockChanges
<1>8. CASE PlaceMarket(r)
  <2>1. UNCHANGED tables /\ LockChanges(r)
    BY <1>2, <1>8 DEF PlaceMarket, dbVars, tables, LockChanges
  <2>2. CASE \E q \in OrderRequests :
              /\ q.order_type = "market" /\ price_key[q.symbol] # Null
              /\ req' = [req EXCEPT ![r] = [pc |-> "wallet", order |-> NewOrder(q),
                                            price |-> price_key[q.symbol]]]
    <3>1. PICK q \in OrderRequests :
              /\ q.order_type = "market" /\ price_key[q.symbol] # Null
              /\ req'[r] = [pc |-> "wallet", order |-> NewOrder(q),
                            price |-> price_key[q.symbol]]
      BY <1>1, <2>2 DEF RequestTypeOK
    <3>2. q.symbol \in Symbols /\ NewOrder(q).symbol = q.symbol
      BY RequestsAssumption DEF ValidOrderRequest, NewOrder
    <3>3. price_key[q.symbol] \in Quoted[q.symbol]
      BY <1>1, <3>1, <3>2 DEF OrderRules, KeysShown
    <3>4. RequestTerms(r)'
      BY <1>2, <3>1, <3>2, <3>3 DEF RequestTerms
    <3> QED
      BY <1>1, <1>2, <2>1, <3>4, TablesSame
  <2>3. CASE Answer(r)
    BY <1>1, <1>2, <1>3, <2>1, <2>3, TablesSame
  <2> QED
    BY <1>8, <2>2, <2>3 DEF PlaceMarket
<1>9. CASE LockWallet(r)
  <2>1. req[r].pc = "wallet" /\ UNCHANGED tables
    BY <1>9 DEF LockWallet
  <2>2. CASE EndTxn(r) /\ Answer(r)
    BY <1>1, <1>2, <1>3, <1>5, <2>1, <2>2, TablesSame
  <2>3. CASE TakeWallet(r, req[r].order.user) /\ GoTo(r, "position")
    <3>1. txn'[r] = [txn[r] EXCEPT !.wallet = req[r].order.user,
                                   !.balance = wallet[req[r].order.user]]
      BY <1>1, <1>6, <2>1, <2>3, TakeWalletKeeps
    <3>2. LockChanges(r)
      BY <1>1, <1>2, <3>1 DEF LockChanges, DatabaseTypeOK, Txn
    <3> QED
      BY <1>1, <1>2, <1>4, <2>1, <2>3, <3>2, TablesSame
  <2> QED
    BY <1>9, <2>2, <2>3 DEF LockWallet
<1>10. CASE LockPosition(r)
  <2> DEFINE h == Holding(req[r].order)
  <2>1. req[r].pc = "position" /\ UNCHANGED tables
    BY <1>10 DEF LockPosition
  <2>2. CASE EndTxn(r) /\ Answer(r)
    BY <1>1, <1>2, <1>3, <1>5, <2>1, <2>2, TablesSame
  <2>3. CASE TakePosition(r, h) /\ GoTo(r, "commit")
    <3>1. \/ txn'[r] = txn[r]
          \/ txn'[r] = [txn[r] EXCEPT !.position = h, !.row = position[h]]
      BY <1>1, <1>6, <2>1, <2>3, TakePositionKeeps
    <3>2. LockChanges(r)
      BY <1>1, <1>2, <3>1 DEF LockChanges, DatabaseTypeOK, Txn
    <3> QED
      BY <1>1, <1>2, <1>4, <2>1, <2>3, <3>2, TablesSame
  <2> QED
    BY <1>10, <2>2, <2>3 DEF LockPosition
<1>11. CASE CommitOrder(r)
  <2> DEFINE order == req[r].order
             price == req[r].price
  <2>1. /\ req[r].pc = "commit" /\ Answer(r) /\ EndTxn(r)
        /\ CommitFill(r, r, order, price)
        /\ txn[r].wallet = order.user /\ Deliverable(r, order)
        /\ HasLooked(r, Holding(order)) /\ orders[r] = Null
        /\ Payable(r, order, price) /\ Absent(r, order)
    BY <1>1, <1>11 DEF CommitOrder, CommitFill, RequestPlan, RequestFunds
  <2>2. order \in OrderRow /\ price \in Prices
    BY <1>6, <2>1
  <2>3. PICK q \in OrderRequests : q.order_type = "market" /\ order = NewOrder(q)
    BY <1>1, <2>1 DEF RequestTerms
  <2>4. price \in Quoted[q.symbol] /\ order.order_type = "market"
        /\ Holding(order) = <<q.user, q.symbol>>
    BY <1>1, <2>1, <2>3 DEF RequestTerms, NewOrder, Holding
  <2> HIDE DEF order, price
  <2>5. /\ Atomic!Affordable(order, price)
        /\ Atomic!Execute(r, order, price, AfterFill(position[Holding(order)], order, price))
        /\ orders' = [orders EXCEPT ![r] = Executed(order, price)]
    BY <1>1, <2>1, <2>2, FillInForce
  <2>6. Atomic!MarketOrder(r)
    BY <2>1, <2>3, <2>4, <2>5, AtomicModels DEF Atomic!MarketOrder
  <2>7. AtomicStep
    BY <2>6 DEF AtomicStep, Atomic!Next
  <2>8. OrderChanges(r)
    BY <1>1, <2>1, <2>2, <2>4, <2>5, ExecutionAllowed DEF OrderRules
  <2> QED
    BY <1>3, <1>5, <2>1, <2>7, <2>8
<1>12. CASE FailRequest(r)
  BY <1>1, <1>2, <1>3, <1>5, <1>12, TablesSame DEF FailRequest, Rollback
<1> QED
  BY <1>7, <1>8, <1>9, <1>10, <1>11, <1>12 DEF RequestStep

----------------------------------------------------------------------------
(* process_price_update *)

(* What a step does to the feed: ticks are added, none is taken back. *)
FeedGrows ==
    /\ Len(feed') \in Nat /\ Len(feed') >= Len(feed)
    /\ \A i \in 1 .. Len(feed) : feed'[i] = feed[i]

(* A subscriber's reasons to act on an order outlive what others do. *)
LEMMA ReasonStays ==
    ASSUME FeedTypeOK, FeedGrows, OrdersKept, NEW x \in OrderIds, orders[x] # Null
    PROVE  /\ orders'[x] # Null /\ SameTerms(orders[x], orders'[x])
           /\ TriggerHit(orders[x]) => TriggerHit(orders[x])'
           /\ \A m \in Matchers : CurrentTick(m)' = CurrentTick(m) =>
                /\ Crosses(m, x)' = Crosses(m, x)
                /\ Concerns(m, x) => Concerns(m, x)'
<1>1. orders'[x] # Null /\ SameTerms(orders[x], orders'[x])
  BY DEF OrdersKept
<1>2. ASSUME TriggerHit(orders[x])
      PROVE  TriggerHit(orders[x])'
  <2>1. PICK i \in TicksOf(orders[x].symbol) :
            Triggers(orders[x].side, orders[x].trigger_price, feed[i].price)
    BY <1>2 DEF TriggerHit
  <2>2. i \in 1 .. Len(feed') /\ feed'[i] = feed[i] /\ feed[i].symbol = orders[x].symbol
    BY DEF TicksOf, FeedGrows, FeedTypeOK
  <2> QED
    BY <1>1, <2>1, <2>2 DEF TriggerHit, TicksOf, SameTerms, Triggers
<1>3. ASSUME NEW m \in Matchers, CurrentTick(m)' = CurrentTick(m)
      PROVE  /\ Crosses(m, x)' = Crosses(m, x)
             /\ Concerns(m, x) => Concerns(m, x)'
  BY <1>1, <1>2, <1>3 DEF Crosses, MatchPrice, Executable, Concerns, SameTerms
<1> QED
  BY <1>1, <1>2, <1>3

(* The loop goes on to an order for the reason for which it was selected. *)
LEMMA ProceedTerms ==
    ASSUME MatcherTypeOK, FeedTypeOK, OrdersKept, UNCHANGED feedVars,
           NEW m \in Matchers, NEW rest \in SUBSET OrderIds, Proceed(m, rest),
           \A x \in rest :
              /\ orders[x] # Null /\ Concerns(m, x)
              /\ IF mat[m].phase = 1 THEN orders[x].order_type = "stop_limit" ELSE Crosses(m, x)
    PROVE  MatcherTerms(m)'
<1>1. FeedGrows /\ CurrentTick(m)' = CurrentTick(m)
  BY DEF FeedGrows, FeedTypeOK, feedVars, CurrentTick
<1>2. ASSUME NEW x \in rest
      PROVE  /\ Concerns(m, x)' /\ Crosses(m, x)' = Crosses(m, x)
             /\ orders'[x].order_type = orders[x].order_type
  BY <1>1, ReasonStays DEF SameTerms
<1>3. mat \in [Matchers -> MatcherState] /\ mat[m].phase \in {1, 2}
  BY DEF MatcherTypeOK, MatcherState
<1>4. CASE \E o \in rest : mat' = [mat EXCEPT ![m] =
            [pc |-> IF mat[m].phase = 1 /\ ~Crosses(m, o) THEN "trigger" ELSE "order",
             phase |-> mat[m].phase, todo |-> rest \ {o}, order |-> o]]
  <2>1. PICK o \in rest : mat' = [mat EXCEPT ![m] =
            [pc |-> IF mat[m].phase = 1 /\ ~Crosses(m, o) THEN "trigger" ELSE "order",
             phase |-> mat[m].phase, todo |-> rest \ {o}, order |-> o]]
    BY <1>4
  <2>2. /\ mat'[m].pc = IF mat[m].phase = 1 /\ ~Crosses(m, o) THEN "trigger" ELSE "order"
        /\ mat'[m].phase = mat[m].phase /\ mat'[m].todo = rest \ {o} /\ mat'[m].order = o
    BY <1>3, <2>1
  <2>3. \A x \in mat'[m].todo :
            /\ Concerns(m, x)'
            /\ IF mat'[m].phase = 1 THEN orders'[x].order_type = "stop_limit"
                                    ELSE Crosses(m, x)'
    BY <1>2, <2>2
  <2>4. /\ Concerns(m, o)'
        /\ mat'[m].pc = "trigger" => orders'[o].order_type = "stop_limit"
        /\ mat'[m].pc = "order" => Crosses(m, o)'
    BY <1>2, <2>2
  <2> QED
    BY <2>2, <2>3, <2>4 DEF MatcherTerms
<1>5. CASE mat' = [mat EXCEPT ![m] = Scanning(2)] \/ mat' = [mat EXCEPT ![m] = Listening]
  <2>1. ASSUME NEW t, mat' = [mat EXCEPT ![m] = t]
        PROVE  mat'[m] = t
    BY <1>3, <2>1
  <2>2. /\ Scanning(2).pc = "scan" /\ Scanning(2).todo = {}
        /\ Listening.pc = "listen" /\ Listening.todo = {}
    BY DEF Scanning, Listening
  <2>3. mat'[m].pc \in {"scan", "listen"} /\ mat'[m].todo = {}
    BY <1>5, <2>1, <2>2
  <2> QED
    BY <2>3 DEF MatcherTerms
<1> QED
  BY <1>4, <1>5 DEF Proceed

(* The status that a subscriber commits is one that the order rules allow. *)
LEMMA StatusAllowed ==
    ASSUME DatabaseTypeOK, NEW s \in Sessions, NEW o \in OrderIds, orders[o] # Null,
           NEW status \in OrderStatus, orders' = [orders EXCEPT ![o].status = status],
           orders[o].status \in Active, \A t \in Sessions : txn[t].order = o => t = s,
           o \in SaleIds => orders[o].order_type = "market",
           orders[o].order_type = "stop_limit" => TriggerHit(orders[o])
    PROVE  OrderChanges(s)
<1> DEFINE new == [orders[o] EXCEPT !.status = status]
<1>1. orders[o] \in OrderRow
  BY DEF DatabaseTypeOK
<1>2. new \in OrderRow /\ SameTerms(orders[o], new)
  BY <1>1 DEF OrderRow, SameTerms
<1>3. orders'[o] = new /\ \A x \in OrderIds : x # o => orders'[x] = orders[x]
  BY DEF DatabaseTypeOK
<1> HIDE DEF new
<1>4. TriggerHit(orders[o]) => TriggerHit(new)
  BY <1>2 DEF TriggerHit, SameTerms, TicksOf
<1> QED
  BY <1>2, <1>3, <1>4, NullAssumption DEF OrderChanges, SameTerms

(* A tick taken from the feed shows a price, and so does a trigger hit. *)
LEMMA TicksAreShown ==
    ASSUME FeedTypeOK
    PROVE  /\ \A s \in Subscribers : cursor[s] \in 1 .. Len(feed) =>
                CurrentTick(s).price \in Quoted[CurrentTick(s).symbol]
           /\ \A order : order.symbol \in Symbols /\ TriggerHit(order)
                => Atomic!TriggerShown(order)
<1>1. ASSUME NEW i \in 1 .. Len(feed)
      PROVE  feed[i].symbol \in Symbols /\ feed[i].price \in Quoted[feed[i].symbol]
  <2>1. feed[i] \in Tick
    BY DEF FeedTypeOK
  <2>2. feed[i].symbol \in Symbols /\ i \in TicksOf(feed[i].symbol)
    BY <2>1 DEF Tick, TicksOf
  <2> QED
    BY <2>2 DEF Quoted
<1>2. \A s \in Subscribers : cursor[s] \in 1 .. Len(feed) =>
                CurrentTick(s).price \in Quoted[CurrentTick(s).symbol]
  BY <1>1 DEF CurrentTick
<1>3. ASSUME NEW order, order.symbol \in Symbols, TriggerHit(order)
      PROVE  Atomic!TriggerShown(order)
  <2>1. PICK i \in TicksOf(order.symbol) :
            Triggers(order.side, order.trigger_price, feed[i].price)
    BY <1>3 DEF TriggerHit
  <2>2. feed[i].price \in Quoted[order.symbol]
    BY <1>1 DEF TicksOf
  <2> QED
    BY <2>1, <2>2, AtomicModels DEF Atomic!TriggerShown
<1> QED
  BY <1>2, <1>3

LEMMA MatcherBooks ==
    ASSUME OrderInv, NEW m \in Matchers, MatcherStep(m)
    PROVE  AtomicStep /\ OrderChanges(m) /\ LockChanges(m) /\ MatcherTerms(m)'
<1> DEFINE o == mat[m].order
           order == orders[o]
           price == MatchPrice(m)
           working == {"trigger", "order", "wallet", "position", "commit"}
<1>1. /\ DatabaseTypeOK /\ MatcherTypeOK /\ FeedTypeOK /\ MatcherPlan(m)
      /\ MatcherFunds(m) /\ ReadsCurrent /\ OrderRules /\ MatcherTerms(m)
      /\ m \in Sessions /\ m \in Subscribers /\ mat[m] \in MatcherState
      /\ mat[m].todo \in SUBSET OrderIds
  BY DEF OrderInv, Terms, MoneyInv, Books, IInv, TypeOK, Plans, Funds, MatcherTypeOK,
     MatcherState
<1>2. /\ OthersKept(m) /\ OrdersKept /\ feed' = feed /\ outbox' = outbox /\ Quoted' = Quoted
  <2>1. OthersKept(m) /\ OrdersKept /\ feed' = feed
    BY <1>1, MatcherKeeps DEF StepKept
  <2>2. outbox' = outbox
    BY DEF MatcherStep, ReceiveTick, TakeTick, Resubscribe, SkipToEnd, feedVars
  <2> QED
    BY <2>1, <2>2, QuotedSame
<1>3. ASSUME EndTxn(m)
      PROVE  LockChanges(m)
  BY <1>1, <1>2, <1>3, EndTxnKeeps DEF LockChanges, NoTxn
<1>4. ASSUME UNCHANGED dbVars
      PROVE  AtomicStep /\ OrderChanges(m) /\ LockChanges(m)
  BY <1>1, <1>2, <1>4, TablesSame DEF dbVars, tables, LockChanges
<1>5. ASSUME mat[m].pc \in working
      PROVE  /\ o \in OrderIds /\ order # Null /\ order \in OrderRow
             /\ order.user \in Users /\ Holding(order) \in Holdings
             /\ price \in Prices /\ cursor[m] \in 1 .. Len(feed)
             /\ Concerns(m, o) /\ o \in RequestIds
             /\ order.order_type = "stop_limit" => TriggerHit(order)
             /\ Quoted[order.symbol] = Quoted[CurrentTick(m).symbol]
             /\ price \in Quoted[order.symbol]
             /\ order.order_type = "stop_limit" => Atomic!TriggerShown(order)
  <2>1. cursor[m] \in 1 .. Len(feed) /\ o \in OrderIds /\ order # Null /\ order \in OrderRow
    BY <1>1, <1>5 DEF MatcherPlan, MatcherState, DatabaseTypeOK
  <2>2. price \in Prices
    BY <1>1, <2>1, CurrentTickType DEF MatchPrice, Tick
  <2>3. Concerns(m, o)
    BY <1>1, <1>5 DEF MatcherTerms
  <2>4. /\ order.order_type # "market" /\ order.symbol = CurrentTick(m).symbol
        /\ order.order_type = "stop_limit" => TriggerHit(order)
    BY <2>3 DEF Concerns
  <2>5. o \in RequestIds
    BY <1>1, <2>1, <2>4 DEF OrderRules, SalesAreMarket
  <2>6. order.user \in Users /\ order.symbol \in Symbols /\ Holding(order) \in Holdings
    BY <2>1 DEF OrderRow, Holding
  <2> HIDE DEF o, order
  <2>7. order.order_type = "stop_limit" => Atomic!TriggerShown(order)
    BY <1>1, <2>4, <2>6, TicksAreShown
  <2>8. price \in Quoted[order.symbol]
    BY <1>1, <2>1, <2>4, TicksAreShown DEF MatchPrice
  <2> QED
    BY <2>1, <2>2, <2>3, <2>4, <2>5, <2>6, <2>7, <2>8
<1>6. ASSUME NextCandidate(m), UNCHANGED feedVars, mat[m].pc # "listen"
      PROVE  MatcherTerms(m)'
  <2>1. \A x \in mat[m].todo :
            /\ orders[x] # Null /\ Concerns(m, x)
            /\ IF mat[m].phase = 1 THEN orders[x].order_type = "stop_limit" ELSE Crosses(m, x)
    BY <1>1 DEF MatcherPlan, MatcherTerms
  <2> QED
    BY <1>1, <1>2, <1>6, <2>1, ProceedTerms DEF NextCandidate
<1>7. ASSUME mat' = [mat EXCEPT ![m] = Listening] \/ mat' = [mat EXCEPT ![m] = Scanning(1)]
      PROVE  MatcherTerms(m)'
  <2>1. /\ Scanning(1).pc = "scan" /\ Scanning(1).todo = {}
        /\ Listening.pc = "listen" /\ Listening.todo = {}
    BY DEF Scanning, Listening
  <2>2. mat'[m] \in {Listening, Scanning(1)}
    BY <1>1, <1>7 DEF MatcherTypeOK
  <2>3. mat'[m].pc \in {"scan", "listen"} /\ mat'[m].todo = {}
    BY <2>1, <2>2
  <2> QED
    BY <2>3 DEF MatcherTerms
<1>8. ASSUME NEW pc \in {"wallet", "position", "commit"}, MatchGoTo(m, pc),
             UNCHANGED <<tables, feedVars>>, mat[m].pc \in {"order", "wallet", "position"},
             order.status \in Active
      PROVE  MatcherTerms(m)'
  <2>1. /\ mat'[m].pc = pc /\ mat'[m].order = o
        /\ mat'[m].todo = mat[m].todo /\ mat'[m].phase = mat[m].phase
    BY <1>1, <1>8 DEF MatchGoTo, MatcherTypeOK, MatcherState
  <2>2. orders' = orders /\ CurrentTick(m)' = CurrentTick(m)
    BY <1>8 DEF tables, feedVars, CurrentTick
  <2>3. \A x : Concerns(m, x)' = Concerns(m, x) /\ Crosses(m, x)' = Crosses(m, x)
    BY <1>2, <2>2 DEF Concerns, Crosses, MatchPrice, TriggerHit, TicksOf
  <2> QED
    BY <1>1, <1>8, <2>1, <2>2, <2>3 DEF MatcherTerms
<1>9. ASSUME NEW status \in OrderStatus, CommitStatus(m, o, status),
             mat[m].pc \in working, order.status \in Active,
             \A t \in Sessions : txn[t].order = o => t = m
      PROVE  OrderChanges(m) /\ LockChanges(m)
  <2>1. orders' = [orders EXCEPT ![o].status = status] /\ EndTxn(m)
    BY <1>9 DEF CommitStatus
  <2>2. /\ o \in OrderIds /\ order # Null /\ o \notin SaleIds
        /\ order.order_type = "stop_limit" => TriggerHit(order)
    BY <1>5, <1>9, IdsAssumption
  <2> QED
    BY <1>1, <1>3, <1>9, <2>1, <2>2, StatusAllowed
<1>10. ASSUME mat[m].pc \in {"wallet", "position", "commit"}
       PROVE  /\ txn[m].order = o /\ order.status \in Active
              /\ \A t \in Sessions : txn[t].order = o => t = m
              /\ price \in Atomic!FillPrices(order)
  <2>1. txn[m].order = o /\ order.status \in Active /\ Crosses(m, o) /\ o # Null
    BY <1>1, <1>10 DEF MatcherPlan, MatcherTerms
  <2>2. \A t \in Sessions : txn[t].order = o => t = m
    BY <1>1, <2>1 DEF OrderRules, OrderLocks
  <2>3. price \in Atomic!FillPrices(order)
    BY <1>5, <1>10, <2>1, AtomicModels DEF Crosses, Atomic!FillPrices
  <2> QED
    BY <2>1, <2>2, <2>3
<1>11. ASSUME CommitStatus(m, o, "failed"), mat[m].pc \in {"wallet", "position", "commit"},
              \/ CannotPay(wallet[order.user], order, price)
              \/ CannotDeliver(position[Holding(order)], order)
       PROVE  AtomicStep /\ OrderChanges(m) /\ LockChanges(m)
  <2>1. ~Atomic!Affordable(order, price)
    BY <1>11, AtomicModels DEF Atomic!Affordable
  <2>2. /\ orders' = [orders EXCEPT ![o].status = "failed"]
        /\ UNCHANGED <<wallet, position, ledger>>
    BY <1>11 DEF CommitStatus
  <2>3. Atomic!TurnDown(o)
    BY <1>2, <1>5, <1>10, <1>11, <2>1, <2>2, AtomicModels DEF Atomic!TurnDown
  <2>4. AtomicStep
    BY <1>5, <1>11, <2>3 DEF AtomicStep, Atomic!Next
  <2>5. "failed" \in OrderStatus /\ mat[m].pc \in working
    BY <1>11 DEF OrderStatus
  <2>6. order.status \in Active /\ \A t \in Sessions : txn[t].order = o => t = m
    BY <1>10, <1>11
  <2> HIDE DEF o, order, working
  <2>7. OrderChanges(m) /\ LockChanges(m)
    BY <1>9, <1>11, <2>5, <2>6
  <2> QED
    BY <2>4, <2>7
<1>12. CASE ReceiveTick(m)
  <2>1. UNCHANGED dbVars /\ mat' = [mat EXCEPT ![m] = Scanning(1)]
    BY <1>12 DEF ReceiveTick
  <2> QED
    BY <1>4, <1>7, <2>1
<1>13. CASE Scan(m) /\ UNCHANGED feedVars
  <2>1. UNCHANGED dbVars /\ mat[m].pc = "scan"
    BY <1>13 DEF Scan
  <2>2. CASE mat' = [mat EXCEPT ![m] = Listening]
    BY <1>4, <1>7, <2>1, <2>2
  <2>3. CASE Proceed(m, Selected(m, mat[m].phase))
    <3> DEFINE rest == Selected(m, mat[m].phase)
    <3>1. cursor[m] \in 1 .. Len(feed)
      BY <1>1, <2>1 DEF MatcherPlan
    <3>2. rest \in SUBSET OrderIds
      BY DEF Selected, ActiveOrders
    <3>3. ASSUME NEW x \in rest
          PROVE  /\ orders[x] # Null /\ Concerns(m, x)
                 /\ IF mat[m].phase = 1 THEN orders[x].order_type = "stop_limit"
                                        ELSE Crosses(m, x)
      <4>1. /\ x \in OrderIds /\ orders[x] # Null
            /\ orders[x].symbol = CurrentTick(m).symbol
            /\ IF mat[m].phase = 1 THEN ToTrigger(m, x) ELSE ToExecute(m, x)
        BY DEF Selected, ActiveOrders
      <4>2. CASE mat[m].phase = 1
        <5>1. /\ orders[x].order_type = "stop_limit"
              /\ Triggers(orders[x].side, orders[x].trigger_price, feed[cursor[m]].price)
          BY <4>1, <4>2 DEF ToTrigger, MatchPrice, CurrentTick
        <5>2. cursor[m] \in TicksOf(orders[x].symbol)
          BY <3>1, <4>1 DEF TicksOf, CurrentTick
        <5> QED
          BY <4>1, <4>2, <5>1, <5>2 DEF Concerns, TriggerHit
      <4>3. CASE mat[m].phase # 1
        <5>1. /\ Crosses(m, x)
              /\ \/ orders[x].order_type = "limit"
                 \/ orders[x].order_type = "stop_limit" /\ orders[x].status = "triggered"
          BY <4>1, <4>3 DEF ToExecute
        <5>2. orders[x].order_type = "stop_limit" => TriggerHit(orders[x])
          BY <1>1, <4>1, <5>1 DEF OrderRules, StopWaitsForTrigger, TriggerHit
        <5> QED
          BY <4>1, <4>3, <5>1, <5>2 DEF Concerns
      <4> QED
        BY <4>2, <4>3
    <3> HIDE DEF rest
    <3>4. MatcherTerms(m)'
      BY <1>1, <1>2, <1>13, <2>3, <3>2, <3>3, ProceedTerms DEF rest
    <3> QED
      BY <1>4, <2>1, <3>4
  <2> QED
    BY <1>13, <2>2, <2>3 DEF Scan
<1>14. CASE TriggerOrder(m) /\ UNCHANGED feedVars
  <2>1. mat[m].pc = "trigger" /\ OrderFree(o) /\ NextCandidate(m)
    BY <1>14 DEF TriggerOrder
  <2>2. MatcherTerms(m)' /\ order.order_type = "stop_limit"
    BY <1>1, <1>6, <1>14, <2>1 DEF MatcherTerms
  <2>3. CASE UNCHANGED dbVars
    BY <1>4, <2>2, <2>3
  <2>4. CASE order.status = "pending" /\ CommitStatus(m, o, "triggered")
    <3>1. /\ orders' = [orders EXCEPT ![o].status = "triggered"]
          /\ UNCHANGED <<wallet, position, ledger>>
      BY <2>4 DEF CommitStatus
    <3>2. Atomic!Trigger(o)
      BY <1>2, <1>5, <2>1, <2>2, <2>4, <3>1 DEF Atomic!Trigger
    <3>3. AtomicStep
      BY <1>5, <2>1, <3>2 DEF AtomicStep, Atomic!Next
    <3>4. "triggered" \in OrderStatus /\ mat[m].pc \in working
      BY <2>1 DEF OrderStatus
    <3>5. order.status \in Active /\ \A t \in Sessions : txn[t].order = o => t = m
      BY <2>1, <2>4 DEF OrderFree
    <3> HIDE DEF o, order, working
    <3>6. OrderChanges(m) /\ LockChanges(m)
      BY <1>9, <2>4, <3>4, <3>5
    <3> QED
      BY <2>2, <3>3, <3>6
  <2> QED
    BY <1>14, <2>3, <2>4 DEF TriggerOrder
<1>15. CASE ExecuteLocksOrder(m) /\ UNCHANGED feedVars
  <2>1. mat[m].pc = "order" /\ UNCHANGED tables
    BY <1>15 DEF ExecuteLocksOrder
  <2>2. CASE order.status \in Active /\ TakeOrder(m, o) /\ MatchGoTo(m, "wallet")
    <3>1. txn'[m] = [txn[m] EXCEPT !.order = o] /\ OrderFree(o)
      BY <1>1, <1>5, <2>1, <2>2, TakeOrderKeeps DEF TakeOrder
    <3>2. txn'[m].order = o
      BY <1>1, <3>1 DEF DatabaseTypeOK, Txn
    <3> QED
      BY <1>1, <1>2, <1>8, <1>15, <2>1, <2>2, <3>1, <3>2, TablesSame DEF LockChanges
  <2>3. CASE UNCHANGED txn /\ NextCandidate(m)
    BY <1>4, <1>6, <1>15, <2>1, <2>3 DEF dbVars, tables
  <2> QED
    BY <1>15, <2>2, <2>3 DEF ExecuteLocksOrder
<1>16. CASE ExecuteLocksWallet(m) /\ UNCHANGED feedVars
  <2>1. mat[m].pc = "wallet"
    BY <1>16 DEF ExecuteLocksWallet
  <2>2. CASE /\ CannotPay(wallet[order.user], order, price)
             /\ CommitStatus(m, o, "failed") /\ NextCandidate(m)
    BY <1>6, <1>11, <1>16, <2>1, <2>2
  <2>3. CASE /\ TakeWallet(m, order.user) /\ MatchGoTo(m, "position")
             /\ UNCHANGED tables
    <3>1. txn'[m] = [txn[m] EXCEPT !.wallet = order.user, !.balance = wallet[order.user]]
      BY <1>1, <1>5, <2>1, <2>3, TakeWalletKeeps
    <3>2. txn'[m].order = txn[m].order
      BY <1>1, <3>1 DEF DatabaseTypeOK, Txn
    <3> QED
      BY <1>1, <1>2, <1>8, <1>10, <1>16, <2>1, <2>3, <3>2, TablesSame DEF LockChanges
  <2> QED
    BY <1>16, <2>2, <2>3 DEF ExecuteLocksWallet
<1>17. CASE ExecuteLocksPosition(m) /\ UNCHANGED feedVars
  <2>1. mat[m].pc = "position"
    BY <1>17 DEF ExecuteLocksPosition
  <2>2. CASE /\ CannotDeliver(position[Holding(order)], order)
             /\ CommitStatus(m, o, "failed") /\ NextCandidate(m)
    BY <1>6, <1>11, <1>17, <2>1, <2>2
  <2>3. CASE /\ TakePosition(m, Holding(order)) /\ MatchGoTo(m, "commit")
             /\ UNCHANGED tables
    <3>1. \/ txn'[m] = txn[m]
          \/ txn'[m] = [txn[m] EXCEPT !.position = Holding(order),
                                      !.row = position[Holding(order)]]
      BY <1>1, <1>5, <2>1, <2>3, TakePositionKeeps
    <3>2. txn'[m].order = txn[m].order
      BY <1>1, <3>1 DEF DatabaseTypeOK, Txn
    <3> QED
      BY <1>1, <1>2, <1>8, <1>10, <1>17, <2>1, <2>3, <3>2, TablesSame DEF LockChanges
  <2> QED
    BY <1>17, <2>2, <2>3 DEF ExecuteLocksPosition
<1>18. CASE ExecuteCommits(m) /\ UNCHANGED feedVars
  <2>1. /\ mat[m].pc = "commit" /\ NextCandidate(m) /\ EndTxn(m)
        /\ CommitFill(m, o, order, price)
        /\ txn[m].wallet = order.user /\ Deliverable(m, order)
        /\ HasLooked(m, Holding(order))
        /\ Payable(m, order, price) /\ Absent(m, order)
    BY <1>1, <1>18 DEF ExecuteCommits, CommitFill, MatcherPlan, MatcherFunds
  <2>2. /\ order \in OrderRow /\ price \in Prices /\ o \in OrderIds /\ order # Null
        /\ o \in RequestIds /\ o \notin SaleIds
        /\ order.order_type = "stop_limit" => TriggerHit(order)
    BY <1>5, <2>1, IdsAssumption
  <2>3. txn[m].order = o /\ order.status \in Active /\ price \in Atomic!FillPrices(order)
    BY <1>10, <2>1
  <2>4. order = orders[o]
    OBVIOUS
  <2> HIDE DEF order, price, o
  <2>5. /\ Atomic!Affordable(order, price)
        /\ Atomic!Execute(o, order, price, AfterFill(position[Holding(order)], order, price))
        /\ orders' = [orders EXCEPT ![o] = Executed(order, price)]
    BY <1>1, <1>18, <2>1, <2>2, FillInForce
  <2>6. Atomic!Fill(o)
    BY <2>2, <2>3, <2>4, <2>5, AtomicModels DEF Atomic!Fill
  <2>7. AtomicStep
    BY <2>2, <2>6 DEF AtomicStep, Atomic!Next
  <2>8. OrderChanges(m)
    BY <1>1, <2>2, <2>3, <2>4, <2>5, ExecutionAllowed DEF OrderRules
  <2> QED
    BY <1>3, <1>6, <1>18, <2>1, <2>7, <2>8
<1>19. CASE ExecuteFails(m) /\ UNCHANGED feedVars
  <2>1. /\ mat[m].pc # "listen" /\ EndTxn(m) /\ UNCHANGED tables /\ NextCandidate(m)
    BY <1>19 DEF ExecuteFails, Rollback
  <2> QED
    BY <1>1, <1>2, <1>3, <1>6, <1>19, <2>1, TablesSame
<1>20. CASE ScanFails(m)
  BY <1>4, <1>7, <1>20 DEF ScanFails
<1>21. CASE Resubscribe(m)
  <2>1. mat' = [mat EXCEPT ![m] = Listening] /\ EndTxn(m) /\ UNCHANGED tables
    BY <1>21 DEF Resubscribe, Rollback
  <2> QED
    BY <1>1, <1>2, <1>3, <1>7, <2>1, TablesSame
<1> QED
  BY <1>12, <1>13, <1>14, <1>15, <1>16, <1>17, <1>18, <1>19, <1>20, <1>21
     DEF MatcherStep, MatchStep

----------------------------------------------------------------------------
(* The stop-loss engine *)
LEMMA EngineBooks ==
    ASSUME OrderInv, NEW e \in StopEngines, EngineStep(e)
    PROVE  AtomicStep /\ OrderChanges(e) /\ LockChanges(e) /\ EngineTerms(e)'
<1> DEFINE u == stp[e].user
           h == Candidate(e)
<1>1. /\ DatabaseTypeOK /\ EngineTypeOK /\ FeedTypeOK /\ EnginePlan(e)
      /\ ReadsCurrent /\ OrderRules /\ EngineTerms(e)
      /\ e \in Sessions /\ e \in Subscribers /\ stp[e] \in EngineState /\ txn[e] \in Txn
  BY DEF OrderInv, Terms, MoneyInv, Books, IInv, TypeOK, Plans, EngineTypeOK, DatabaseTypeOK
<1>2. OthersKept(e) /\ feed' = feed /\ outbox' = outbox /\ Quoted' = Quoted
  <2>1. OthersKept(e) /\ feed' = feed
    BY <1>1, EngineKeeps DEF StepKept
  <2>2. outbox' = outbox
    BY DEF EngineStep, EngineReceives, TakeTick, EngineResubscribes, SkipToEnd, feedVars
  <2> QED
    BY <2>1, <2>2, QuotedSame
<1>3. ASSUME EndTxn(e)
      PROVE  LockChanges(e)
  BY <1>1, <1>2, <1>3, EndTxnKeeps DEF LockChanges, NoTxn
<1>4. ASSUME UNCHANGED dbVars
      PROVE  AtomicStep /\ OrderChanges(e) /\ LockChanges(e)
  BY <1>1, <1>2, <1>4, TablesSame DEF dbVars, tables, LockChanges
<1>5. ASSUME stp[e].pc \in {"wallet", "position", "commit"}
      PROVE  /\ u \in Users /\ h \in Holdings /\ h[1] = u
             /\ StopPrice(e) \in Prices /\ StopPrice(e) \in Quoted[h[2]]
  <2>1. CurrentTick(e) \in Tick /\ u # Null /\ cursor[e] \in 1 .. Len(feed)
    BY <1>1, <1>5, CurrentTickType DEF EnginePlan
  <2> QED
    BY <1>1, <2>1, TicksAreShown DEF EngineState, Candidate, StopPrice, Tick
<1>6. ASSUME stp'[e].pc # "commit"
      PROVE  EngineTerms(e)'
  BY <1>6 DEF EngineTerms
<1>7. ASSUME NEW rest \in SUBSET Users, TryNext(e, rest)
      PROVE  EngineTerms(e)'
  <2>1. ASSUME NEW t, t.pc # "commit", stp' = [stp EXCEPT ![e] = t]
        PROVE  EngineTerms(e)'
    BY <1>1, <1>6, <2>1 DEF EngineTypeOK
  <2>2. EngineIdle.pc # "commit"
    BY DEF EngineIdle
  <2> QED
    BY <1>7, <2>1, <2>2 DEF TryNext
<1>8. ASSUME NEW pc \in {"scan", "position", "commit"}, EngineGoTo(e, pc)
      PROVE  stp'[e].pc = pc
  BY <1>1, <1>8 DEF EngineGoTo, EngineTypeOK, EngineState
<1>9. stp[e].todo \in SUBSET Users
  BY <1>1 DEF EngineState
<1>10. CASE EngineReceives(e)
  <2>1. UNCHANGED dbVars /\ EngineGoTo(e, "scan")
    BY <1>10 DEF EngineReceives
  <2> QED
    BY <1>4, <1>6, <1>8, <2>1
<1>11. CASE EngineScans(e)
  <2>1. UNCHANGED dbVars /\ \E rest \in SUBSET Users : TryNext(e, rest)
    BY <1>11 DEF EngineScans
  <2> QED
    BY <1>4, <1>7, <2>1
<1>12. CASE EngineLocksWallet(e)
  <2>1. /\ stp[e].pc = "wallet" /\ TakeWallet(e, u)
        /\ EngineGoTo(e, "position") /\ UNCHANGED tables
    BY <1>12 DEF EngineLocksWallet
  <2>2. txn'[e] = [txn[e] EXCEPT !.wallet = u, !.balance = wallet[u]]
    BY <1>1, <1>5, <2>1, TakeWalletKeeps
  <2>3. txn'[e].order = txn[e].order
    BY <1>1, <2>2 DEF Txn
  <2> QED
    BY <1>1, <1>2, <1>6, <1>8, <2>1, <2>3, TablesSame DEF LockChanges
<1>13. CASE EngineLocksPosition(e) /\ UNCHANGED feedVars
  <2>1. stp[e].pc = "position" /\ UNCHANGED tables
    BY <1>13 DEF EngineLocksPosition
  <2>2. CASE EndTxn(e) /\ TryNext(e, stp[e].todo)
    BY <1>1, <1>2, <1>3, <1>7, <1>9, <2>1, <2>2, TablesSame
  <2>3. CASE /\ Reverified(position[h], StopPrice(e))
             /\ TakePosition(e, h) /\ EngineGoTo(e, "commit")
    <3>1. position[h] # Null /\ StopHit(position[h], StopPrice(e))
      BY <2>3 DEF Reverified
    <3>2. txn'[e] = [txn[e] EXCEPT !.position = h, !.row = position[h]]
      BY <1>1, <1>5, <2>1, <2>3, <3>1, TakePositionKeeps
    <3>3. txn'[e].order = txn[e].order /\ txn'[e].row = position[h]
      BY <1>1, <3>2 DEF Txn
    <3>4. StopPrice(e)' = StopPrice(e)
      BY <1>13 DEF StopPrice, CurrentTick, feedVars
    <3>5. EngineTerms(e)'
      BY <3>1, <3>3, <3>4 DEF EngineTerms
    <3> QED
      BY <1>1, <1>2, <2>1, <3>3, <3>5, TablesSame DEF LockChanges
  <2> QED
    BY <1>13, <2>2, <2>3 DEF EngineLocksPosition
<1>14. CASE EngineCommits(e)
  <2> DEFINE price == StopPrice(e)
             row == position[h]
             order == NewOrder([user |-> h[1], symbol |-> h[2], side |-> "sell",
                                order_type |-> "market", quantity |-> row.quantity,
                                limit_price |-> Null, trigger_price |-> Null])
             sale == Executed(order, price)
             balance == wallet[h[1]] + OrderValue(order, price)
  <2>1. stp[e].pc = "commit" /\ EndTxn(e) /\ TryNext(e, stp[e].todo)
    BY <1>14 DEF EngineCommits
  <2>2. /\ u \in Users /\ h \in Holdings /\ h = <<u, h[2]>> /\ h[2] \in Symbols
        /\ price \in Prices /\ price \in Quoted[h[2]]
    BY <1>5, <2>1 DEF Candidate
  <2>3. /\ txn[e].row = row /\ txn[e].balance = wallet[u]
        /\ row \in PositionRow /\ row # Null /\ row.quantity \in Nat \ {0}
        /\ StopHit(row, price)
    <3>1. /\ txn[e].wallet = u /\ txn[e].position = h /\ txn[e].row # Null
          /\ txn[e].row.quantity # 0 /\ StopHit(txn[e].row, price) /\ h # Null
      BY <1>1, <2>1, <2>2, NullAssumption DEF EnginePlan, EngineTerms
    <3>2. txn[e].row = row /\ txn[e].balance = wallet[u]
      BY <1>1, <2>2, <3>1, NullAssumption DEF ReadsCurrent
    <3>3. row \in PositionRow
      BY <1>1, <2>2, <3>1, <3>2 DEF DatabaseTypeOK
    <3> QED
      BY <3>1, <3>2, <3>3 DEF PositionRow
  <2>4. /\ SaleOrder(h, row.quantity, price) = sale
        /\ sale.order_value = OrderValue(order, price)
        /\ sale.order_type = "market"
        /\ order.side = "sell" /\ order.user = h[1] /\ Holding(order) = h
    BY <2>2 DEF SaleOrder, Executed, NewOrder, Holding
  <2>5. sale # Null
    <3>1. order \in OrderRow
      BY <2>2, <2>3 DEF NewOrder, OrderRow, OrderSide, OrderType, OrderStatus, OptionalPrice
    <3> QED
      BY <2>2, <3>1, ExecutedType, NullAssumption
  <2>6. /\ txn[e].row.quantity = row.quantity /\ Sold(txn[e].row) = Sold(row)
        /\ txn[e].balance + sale.order_value = balance /\ u = h[1]
    BY <2>2, <2>3, <2>4
  <2>7. /\ \E o \in SaleIds :
            /\ orders[o] = Null
            /\ orders' = [orders EXCEPT ![o] = sale]
            /\ ledger' = [ledger EXCEPT ![h[1]] =
                            Append(@, Entry("sell", sale.order_value, balance, o))]
        /\ wallet' = [wallet EXCEPT ![h[1]] = balance]
        /\ position' = [position EXCEPT ![h] = Sold(row)]
    <3> HIDE DEF sale, balance, row
    <3> QED
      BY <1>14, <2>4, <2>6, Zenon DEF EngineCommits
  <2>8. PICK o \in SaleIds :
            /\ orders[o] = Null
            /\ orders' = [orders EXCEPT ![o] = sale]
            /\ ledger' = [ledger EXCEPT ![h[1]] =
                            Append(@, Entry("sell", sale.order_value, balance, o))]
    BY <2>7
  <2>9. OrderChanges(e)
    <3> HIDE DEF sale
    <3>1. \A x \in OrderIds : orders'[x] # orders[x] => x = o
      BY <1>1, <2>8 DEF DatabaseTypeOK
    <3>2. orders'[o] = sale
      BY <1>1, <2>8 DEF DatabaseTypeOK
    <3> QED
      BY <2>4, <2>5, <2>8, <3>1, <3>2 DEF OrderChanges
  <2>10. Atomic!StopSale(o, h)
    <3>1. Held(row) > 0
      BY <2>3 DEF Held
    <3>2. SignedValue(order.side, OrderValue(order, price)) = OrderValue(order, price)
      BY <2>4 DEF SignedValue
    <3> HIDE DEF price, order, row, sale
    <3>3. Atomic!Execute(o, order, price, Sold(row))
      BY <1>2, <2>4, <2>7, <2>8, <3>2, AtomicModels DEF Atomic!Execute, sale
    <3> QED
      BY <2>2, <2>3, <2>8, <3>1, <3>3, AtomicModels DEF Atomic!StopSale, Sold, order, row
  <2>11. AtomicStep
    <3> HIDE DEF h
    <3>1. Atomic!Next
      BY <2>2, <2>10, AtomicModels DEF Atomic!Next
    <3> QED
      BY <3>1 DEF AtomicStep
  <2> QED
    BY <1>3, <1>7, <1>9, <2>1, <2>9, <2>11
<1>15. CASE EngineSaleFails(e)
  <2>1. EndTxn(e) /\ UNCHANGED tables /\ TryNext(e, stp[e].todo)
    BY <1>15 DEF EngineSaleFails, Rollback
  <2> QED
    BY <1>1, <1>2, <1>3, <1>7, <1>9, <2>1, TablesSame
<1>16. CASE EngineCrashes(e)
  <2>1. UNCHANGED dbVars /\ stp'[e].pc = "crashed"
    BY <1>1, <1>16 DEF EngineCrashes, EngineIdle, EngineTypeOK
  <2> QED
    BY <1>4, <1>6, <2>1
<1>17. CASE EngineResubscribes(e)
  <2>1. UNCHANGED dbVars /\ stp'[e].pc = "listen"
    BY <1>1, <1>17 DEF EngineResubscribes
  <2> QED
    BY <1>4, <1>6, <2>1
<1> QED
  BY <1>10, <1>11, <1>12, <1>13, <1>14, <1>15, <1>16, <1>17 DEF EngineStep, SaleStep

----------------------------------------------------------------------------
(* update-sl and the market *)

(* update-sl writes each stop column as asked for or leaves it as it is. *)
LEMMA EditorAtomic ==
    ASSUME OrderInv, NEW d \in Editors, EditorStep(d), UNCHANGED feedVars
    PROVE  AtomicStep
<1>1. /\ DatabaseTypeOK /\ EditorTypeOK /\ EditorPlan(d) /\ edit[d] \in EditorState
  BY DEF OrderInv, MoneyInv, IInv, TypeOK, Plans, EditorTypeOK
<1>2. Quoted' = Quoted
  BY QuotedSame DEF feedVars
<1>3. CASE ReadPosition(d) \/ EditFails(d)
  BY <1>2, <1>3 DEF ReadPosition, EditFails, dbVars, AtomicStep, Atomic!atomicVars
<1>4. CASE WriteStops(d)
  <2> DEFINE q == edit[d].payload
             row == edit[d].row
             h == <<q.user, q.symbol>>
  <2>1. /\ edit[d].pc = "write" /\ WriteColumns(q, row)
        /\ UNCHANGED <<wallet, orders, ledger, txn>>
    BY <1>4 DEF WriteStops
  <2>2. q \in ValidStopRequest /\ position[h] # Null
    BY <1>1, <2>1 DEF EditorPlan, EditorState
  <2>3. h \in Holdings /\ position[h] \in PositionRow
    BY <1>1, <2>2 DEF ValidStopRequest, DatabaseTypeOK
  <2>4. q \in StopRequests
    BY <2>1 DEF OrderInv, Terms, EditorTerms
  <2> DEFINE sl == Column(position[h].stop_loss, row.stop_loss, q.stop_loss)
             tp == Column(position[h].target_price, row.target_price, q.target_price)
  <2>5. /\ sl \in {q.stop_loss, position[h].stop_loss}
        /\ tp \in {q.target_price, position[h].target_price}
    BY DEF Column
  <2>6. position' = [position EXCEPT ![h].stop_loss = sl, ![h].target_price = tp]
    BY <1>1, <2>1, <2>3 DEF WriteColumns, DatabaseTypeOK, PositionRow
  <2> HIDE DEF q, row, sl, tp
  <2>7. Atomic!SetStops(q)
    BY <1>2, <2>1, <2>2, <2>5, <2>6 DEF Atomic!SetStops
  <2> QED
    BY <2>4, <2>7 DEF AtomicStep, Atomic!Next
<1> QED
  BY <1>3, <1>4 DEF EditorStep

(* SET shows a price, and what PUBLISH then sends has been shown already. *)
LEMMA PublisherAtomic ==
    ASSUME FeedTypeOK, PublisherStep, UNCHANGED dbVars
    PROVE  /\ AtomicStep
           /\ \A y \in Symbols : Quoted[y] \subseteq Quoted'[y]
           /\ KeysShown => KeysShown'
<1>1. UNCHANGED tables
  BY DEF dbVars, tables
<1>2. CASE Publish
  <2>1. /\ outbox \in Tick /\ feed' = Append(feed, outbox) /\ outbox' = Null
        /\ price_key' = price_key /\ feed \in Seq(Tick)
    BY <1>2 DEF Publish, FeedTypeOK
  <2>2. /\ Len(feed) \in Nat /\ Len(feed') = Len(feed) + 1
        /\ feed'[Len(feed) + 1] = outbox
        /\ \A i \in 1 .. Len(feed) : feed'[i] = feed[i]
    BY <2>1
  <2>3. outbox # Null
    BY <1>2 DEF Publish
  <2>4. ASSUME NEW y \in Symbols
        PROVE  {feed'[i].price : i \in TicksOf(y)'} =
                 {feed[i].price : i \in TicksOf(y)}
                 \cup (IF outbox.symbol = y THEN {outbox.price} ELSE {})
    BY <2>2 DEF TicksOf
  <2>5. Quoted' = Quoted
    BY <2>1, <2>3, <2>4 DEF Quoted
  <2> QED
    BY <1>1, <2>1, <2>5 DEF AtomicStep, Atomic!atomicVars, tables, KeysShown
<1>3. ASSUME NEW y \in Symbols, NEW p \in Prices, SetPrice(y, p)
      PROVE  /\ AtomicStep
             /\ \A x \in Symbols : Quoted[x] \subseteq Quoted'[x]
             /\ KeysShown => KeysShown'
  <2>1. /\ outbox = Null /\ outbox' = [symbol |-> y, price |-> p] /\ feed' = feed
        /\ price_key' = [price_key EXCEPT ![y] = p]
    BY <1>3 DEF SetPrice
  <2>2. /\ outbox' \in Tick /\ outbox' # Null /\ outbox'.symbol = y /\ outbox'.price = p
        /\ \A x : TicksOf(x)' = TicksOf(x)
    <3>1. FeedTypeOK'
      BY PublisherKeeps
    <3> QED
      BY <2>1, <3>1, TickAssumption DEF TicksOf, Tick
  <2>3. Quoted' = [Quoted EXCEPT ![y] = @ \cup {p}]
    BY <2>1, <2>2 DEF Quoted
  <2>4. Atomic!Quote
    BY <1>1, <2>3 DEF Atomic!Quote, tables
  <2>5. /\ \A x \in Symbols : Quoted[x] \subseteq Quoted'[x]
        /\ p \in Quoted'[y]
    <3>1. DOMAIN Quoted = Symbols
      BY DEF Quoted
    <3> QED
      BY <2>3, <3>1
  <2>6. KeysShown => KeysShown'
    BY <2>1, <2>5 DEF KeysShown, FeedTypeOK
  <2> QED
    BY <2>4, <2>5, <2>6 DEF AtomicStep, Atomic!Next
<1> QED
  BY <1>2, <1>3 DEF PublisherStep

----------------------------------------------------------------------------
(* What a step of one leaves of the reasons of the others. *)

LEMMA RequestTermsKept ==
    ASSUME NEW r \in RequestIds, RequestTerms(r), req'[r] = req[r],
           \A y \in Symbols : Quoted[y] \subseteq Quoted'[y]
    PROVE  RequestTerms(r)'
<1>1. ASSUME NEW q \in OrderRequests
      PROVE  NewOrder(q).symbol \in Symbols
  BY <1>1, RequestsAssumption DEF ValidOrderRequest, NewOrder
<1> QED
  BY <1>1 DEF RequestTerms

LEMMA MatcherTermsKept ==
    ASSUME NEW m \in Matchers, MatcherTypeOK, FeedTypeOK, MatcherPlan(m), MatcherTerms(m),
           FeedGrows, OrdersKept, mat'[m] = mat[m],
           mat[m].pc # "listen" => cursor'[m] = cursor[m],
           txn[m].order # Null => orders'[txn[m].order] = orders[txn[m].order]
    PROVE  MatcherTerms(m)'
<1>1. CASE mat[m].pc = "listen"
  BY <1>1 DEF MatcherTerms
<1>2. CASE mat[m].pc # "listen"
  <2>1. CurrentTick(m)' = CurrentTick(m)
    BY <1>2 DEF MatcherPlan, FeedGrows, CurrentTick
  <2>2. ASSUME NEW x \in OrderIds, orders[x] # Null
        PROVE  /\ Concerns(m, x) => Concerns(m, x)'
               /\ Crosses(m, x)' = Crosses(m, x)
               /\ orders'[x].order_type = orders[x].order_type
    BY <2>1, <2>2, ReasonStays DEF SameTerms
  <2>3. mat[m] \in MatcherState
    BY DEF MatcherTypeOK
  <2>4. \A x \in mat[m].todo : x \in OrderIds /\ orders[x] # Null
    BY <2>3 DEF MatcherState, MatcherPlan
  <2>5. mat[m].pc \in {"trigger", "order", "wallet", "position", "commit"} =>
            mat[m].order \in OrderIds /\ orders[mat[m].order] # Null
    BY <2>3 DEF MatcherState, MatcherPlan
  <2>6. mat[m].pc \in {"wallet", "position", "commit"} =>
            orders'[mat[m].order] = orders[mat[m].order]
    BY <2>5 DEF MatcherPlan
  <2> QED
    BY <2>2, <2>4, <2>5, <2>6 DEF MatcherTerms
<1> QED
  BY <1>1, <1>2

LEMMA EngineTermsKept ==
    ASSUME NEW e \in StopEngines, FeedTypeOK, EnginePlan(e), EngineTerms(e), FeedGrows,
           stp'[e] = stp[e], txn'[e] = txn[e],
           stp[e].pc # "listen" => cursor'[e] = cursor[e]
    PROVE  EngineTerms(e)'
BY DEF EngineTerms, EnginePlan, FeedGrows, StopPrice, CurrentTick

(* A step of a session keeps the rules about orders. *)
LEMMA RulesKept ==
    ASSUME DatabaseTypeOK, OrderRules, NEW s \in Sessions,
           OrderChanges(s), LockChanges(s), UNCHANGED <<price_key, outbox, feed>>
    PROVE  OrderRules'
<1>1. OrderLocks'
  <2>1. txn'[s].order # Null => \A t \in Sessions : t # s => txn[t].order # txn'[s].order
    BY DEF LockChanges, OrderRules, OrderLocks, OrderFree
  <2> QED
    BY <2>1 DEF LockChanges, OthersKept, OrderRules, OrderLocks
<1>2. SalesAreMarket'
  BY DEF OrderChanges, OrderRules, SalesAreMarket
<1>3. KeysShown'
  BY QuotedSame DEF OrderRules, KeysShown
<1>4. StopWaitsForTrigger'
  BY DEF OrderChanges, OrderRules, StopWaitsForTrigger, TriggerHit, TicksOf
<1> QED
  BY <1>1, <1>2, <1>3, <1>4 DEF OrderRules

(* ... and the reasons of all that do not move. *)
LEMMA TermsKept ==
    ASSUME OrderInv, NEW s \in Sessions,
           OrderChanges(s), OthersKept(s), OrdersKept, UNCHANGED <<feed, outbox>>
    PROVE  /\ \A r \in RequestIds : req'[r] = req[r] => RequestTerms(r)'
           /\ \A m \in Matchers :
                m # s /\ mat'[m] = mat[m] /\ cursor'[m] = cursor[m] => MatcherTerms(m)'
           /\ \A e \in StopEngines :
                e # s /\ stp'[e] = stp[e] /\ cursor'[e] = cursor[e] => EngineTerms(e)'
           /\ edit' = edit => \A d \in Editors : EditorTerms(d)'
<1>1. /\ DatabaseTypeOK /\ FeedTypeOK /\ MatcherTypeOK /\ OrderRules /\ FeedGrows
      /\ Quoted' = Quoted
  BY QuotedSame DEF OrderInv, MoneyInv, IInv, TypeOK, FeedGrows, FeedTypeOK
<1>2. ASSUME NEW r \in RequestIds, req'[r] = req[r]
      PROVE  RequestTerms(r)'
  BY <1>1, <1>2, RequestTermsKept DEF OrderInv, Terms
<1>3. ASSUME NEW m \in Matchers, m # s, mat'[m] = mat[m], cursor'[m] = cursor[m]
      PROVE  MatcherTerms(m)'
  <2>1. MatcherPlan(m) /\ MatcherTerms(m) /\ txn[m] \in Txn
    BY <1>1 DEF OrderInv, Terms, MoneyInv, IInv, Plans, DatabaseTypeOK
  <2>2. ASSUME txn[m].order # Null
        PROVE  orders'[txn[m].order] = orders[txn[m].order]
    <3>1. txn[m].order \in OrderIds /\ mat[m].order = txn[m].order
          /\ orders[txn[m].order] # Null
      <4>1. mat[m].pc \in MatcherPc
        BY <1>1 DEF MatcherTypeOK, MatcherState
      <4>2. mat[m].pc \in {"wallet", "position", "commit"}
        BY <2>1, <2>2, <4>1 DEF MatcherPlan, NoTxn, MatcherPc
      <4> QED
        BY <2>1, <2>2, <4>2 DEF MatcherPlan, Txn
    <3> QED
      BY <1>3, <3>1 DEF OrderChanges
  <2> QED
    BY <1>1, <1>3, <2>1, <2>2, MatcherTermsKept
<1>4. ASSUME NEW e \in StopEngines, e # s, stp'[e] = stp[e], cursor'[e] = cursor[e]
      PROVE  EngineTerms(e)'
  BY <1>1, <1>4, EngineTermsKept DEF OrderInv, Terms, MoneyInv, IInv, Plans, OthersKept
<1>5. edit' = edit => \A d \in Editors : EditorTerms(d)'
  BY DEF OrderInv, Terms, EditorTerms
<1> QED
  BY <1>2, <1>3, <1>4, <1>5

(* ... and so does a step of nobody's transaction. *)
LEMMA TermsKeptOutside ==
    ASSUME OrderInv, FeedGrows, UNCHANGED <<orders, txn, cursor, req, mat, stp>>,
           \A y \in Symbols : Quoted[y] \subseteq Quoted'[y]
    PROVE  /\ \A r \in RequestIds : RequestTerms(r)'
           /\ \A m \in Matchers : MatcherTerms(m)'
           /\ \A e \in StopEngines : EngineTerms(e)'
           /\ OrderLocks' /\ SalesAreMarket' /\ StopWaitsForTrigger'
<1>1. FeedTypeOK /\ MatcherTypeOK /\ OrderRules /\ OrdersKept /\ DatabaseTypeOK
  BY DEF OrderInv, MoneyInv, IInv, TypeOK, OrdersKept, SameTerms
<1>2. \A r \in RequestIds : RequestTerms(r)'
  BY <1>1, RequestTermsKept DEF OrderInv, Terms
<1>3. \A m \in Matchers : MatcherTerms(m)'
  BY <1>1, MatcherTermsKept DEF OrderInv, Terms, MoneyInv, IInv, Plans
<1>4. \A e \in StopEngines : EngineTerms(e)'
  BY <1>1, EngineTermsKept DEF OrderInv, Terms, MoneyInv, IInv, Plans
<1>5. OrderLocks' /\ SalesAreMarket'
  BY <1>1 DEF OrderRules, OrderLocks, SalesAreMarket
<1>6. StopWaitsForTrigger'
  <2>1. ASSUME NEW o \in OrderIds, orders[o] # Null, orders[o].order_type = "stop_limit",
               orders[o].status # "pending"
        PROVE  TriggerHit(orders[o])'
    <3>1. TriggerHit(orders[o])
      BY <1>1, <2>1 DEF OrderRules, StopWaitsForTrigger, TriggerHit
    <3> QED
      BY <1>1, <2>1, <3>1, ReasonStays
  <2> QED
    BY <2>1 DEF StopWaitsForTrigger, TriggerHit
<1> QED
  BY <1>2, <1>3, <1>4, <1>5, <1>6

----------------------------------------------------------------------------
(* The invariant *)

(* It holds of the empty tables. *)
LEMMA OrderInit ==
    ASSUME Init
    PROVE  OrderInv
<1>1. MoneyInv
  BY MoneyInit
<1>2. OrderRules
  BY DEF Init, DatabaseInit, FeedInit, NoTxn, OrderRules, OrderLocks, SalesAreMarket,
     KeysShown, StopWaitsForTrigger
<1>3. Terms
  BY DEF Init, RequestInit, NewRequest, MatcherInit, Listening, EngineInit, EngineIdle,
     EditorInit, NewEdit, Terms, RequestTerms, MatcherTerms, EngineTerms, EditorTerms
<1> QED
  BY <1>1, <1>2, <1>3 DEF OrderInv

(* Every step of the system keeps it, and is an atomic step or none. *)
LEMMA OrderNext ==
    ASSUME OrderInv, [Next]_vars
    PROVE  OrderInv' /\ AtomicStep
<1>1. MoneyInv'
  BY MoneyNext DEF OrderInv
<1>2. /\ MoneyInv /\ OrderRules /\ Terms /\ DatabaseTypeOK /\ FeedTypeOK /\ RequestTypeOK
      /\ MatcherTypeOK /\ EngineTypeOK /\ EditorTypeOK
      /\ RequestIds \cap Subscribers = {} /\ Matchers \cap StopEngines = {}
  BY IdsAssumption DEF OrderInv, MoneyInv, IInv, TypeOK
<1>3. ASSUME NEW r \in RequestIds, RequestMoves(r)
      PROVE  OrderInv' /\ AtomicStep
  <2>1. RequestStep(r) /\ UNCHANGED feedVars /\ UNCHANGED <<mat, stp, edit>>
    BY <1>3 DEF RequestMoves
  <2>2. /\ StepKept(r) /\ \A x \in RequestIds : x # r => req'[x] = req[x]
        /\ UNCHANGED <<price_key, outbox, feed, cursor>>
    BY <1>2, <2>1, RequestKeeps DEF MoneyInv, IInv, Plans, feedVars
  <2>3. AtomicStep /\ OrderChanges(r) /\ LockChanges(r) /\ RequestTerms(r)'
    BY <2>1, RequestBooks
  <2>4. OrderRules'
    BY <1>2, <2>2, <2>3, RulesKept
  <2>5. Terms'
    BY <1>2, <2>1, <2>2, <2>3, TermsKept DEF Terms, StepKept
  <2> QED
    BY <1>1, <2>3, <2>4, <2>5 DEF OrderInv
<1>4. ASSUME NEW m \in Matchers, MatcherMoves(m)
      PROVE  OrderInv' /\ AtomicStep
  <2>1. MatcherStep(m) /\ UNCHANGED <<req, stp, edit>>
    BY <1>4 DEF MatcherMoves
  <2>2. /\ StepKept(m) /\ \A x \in Matchers : x # m => mat'[x] = mat[x]
        /\ \A x \in Subscribers : x # m => cursor'[x] = cursor[x]
    BY <1>2, <2>1, MatcherKeeps DEF MoneyInv, IInv, Plans
  <2>3. UNCHANGED <<price_key, outbox, feed>>
    BY <2>1 DEF MatcherStep, ReceiveTick, TakeTick, Resubscribe, SkipToEnd, feedVars
  <2>4. AtomicStep /\ OrderChanges(m) /\ LockChanges(m) /\ MatcherTerms(m)'
    BY <2>1, MatcherBooks
  <2>5. OrderRules'
    BY <1>2, <2>3, <2>4, RulesKept
  <2>6. Terms'
    BY <1>2, <2>1, <2>2, <2>3, <2>4, TermsKept DEF Terms, StepKept
  <2> QED
    BY <1>1, <2>4, <2>5, <2>6 DEF OrderInv
<1>5. ASSUME NEW e \in StopEngines, EngineMoves(e)
      PROVE  OrderInv' /\ AtomicStep
  <2>1. EngineStep(e) /\ UNCHANGED <<req, mat, edit>>
    BY <1>5 DEF EngineMoves
  <2>2. /\ StepKept(e) /\ \A x \in StopEngines : x # e => stp'[x] = stp[x]
        /\ \A x \in Subscribers : x # e => cursor'[x] = cursor[x]
    BY <1>2, <2>1, EngineKeeps DEF MoneyInv, IInv, Plans
  <2>3. UNCHANGED <<price_key, outbox, feed>>
    BY <2>1 DEF EngineStep, EngineReceives, TakeTick, EngineResubscribes, SkipToEnd, feedVars
  <2>4. AtomicStep /\ OrderChanges(e) /\ LockChanges(e) /\ EngineTerms(e)'
    BY <2>1, EngineBooks
  <2>5. OrderRules'
    BY <1>2, <2>3, <2>4, RulesKept
  <2>6. Terms'
    BY <1>2, <2>1, <2>2, <2>3, <2>4, TermsKept DEF Terms, StepKept
  <2> QED
    BY <1>1, <2>4, <2>5, <2>6 DEF OrderInv
<1>6. ASSUME NEW d \in Editors, EditorMoves(d)
      PROVE  OrderInv' /\ AtomicStep
  <2>1. EditorStep(d) /\ UNCHANGED feedVars /\ UNCHANGED <<req, mat, stp>>
    BY <1>6 DEF EditorMoves
  <2>2. /\ txn' = txn /\ orders' = orders /\ \A x \in Editors : x # d => edit'[x] = edit[x]
        /\ UNCHANGED <<price_key, outbox, feed, cursor>>
    BY <1>2, <2>1, EditorKeeps DEF MoneyInv, IInv, Plans, feedVars
  <2>3. FeedGrows /\ Quoted' = Quoted
    BY <1>2, <2>2, QuotedSame DEF FeedGrows, FeedTypeOK
  <2>4. EditorTerms(d)'
    <3>1. CASE ReadPosition(d)
      BY <1>2, <3>1 DEF ReadPosition, EditorTypeOK, EditorTerms, EditDone, NewEdit
    <3>2. CASE WriteStops(d) \/ EditFails(d)
      BY <1>2, <3>2 DEF WriteStops, EditFails, EditorTypeOK, EditorTerms, EditDone, NewEdit
    <3> QED
      BY <2>1, <3>1, <3>2 DEF EditorStep
  <2>5. \A x \in Editors : EditorTerms(x)'
    BY <1>2, <2>2, <2>4 DEF Terms, EditorTerms
  <2>6. KeysShown'
    BY <1>2, <2>2, <2>3 DEF OrderRules, KeysShown
  <2>7. OrderRules' /\ Terms'
    BY <2>1, <2>2, <2>3, <2>5, <2>6, TermsKeptOutside DEF OrderRules, Terms
  <2> QED
    BY <1>1, <2>1, <2>7, EditorAtomic DEF OrderInv
<1>7. ASSUME PublisherMoves
      PROVE  OrderInv' /\ AtomicStep
  <2>1. PublisherStep /\ UNCHANGED dbVars /\ UNCHANGED <<req, mat, stp, edit>>
    BY <1>7 DEF PublisherMoves
  <2>2. /\ AtomicStep /\ KeysShown'
        /\ \A y \in Symbols : Quoted[y] \subseteq Quoted'[y]
    BY <1>2, <2>1, PublisherAtomic DEF OrderRules
  <2>3. FeedGrows /\ UNCHANGED <<orders, txn, cursor>>
    BY <1>2, <2>1, PublisherKeeps DEF FeedGrows, dbVars
  <2>4. \A d \in Editors : EditorTerms(d)'
    BY <1>2, <2>1 DEF Terms, EditorTerms
  <2>5. OrderRules' /\ Terms'
    BY <2>1, <2>2, <2>3, <2>4, TermsKeptOutside DEF OrderRules, Terms
  <2> QED
    BY <1>1, <2>2, <2>5 DEF OrderInv
<1>8. ASSUME UNCHANGED vars
      PROVE  OrderInv' /\ AtomicStep
  <2>1. /\ UNCHANGED <<wallet, position, orders, ledger, txn>>
        /\ UNCHANGED <<price_key, outbox, feed, cursor>> /\ UNCHANGED <<req, mat, stp, edit>>
    BY <1>8 DEF vars, dbVars, feedVars
  <2>2. FeedGrows /\ Quoted' = Quoted
    BY <1>2, <2>1, QuotedSame DEF FeedGrows, FeedTypeOK
  <2>3. KeysShown' /\ \A d \in Editors : EditorTerms(d)'
    BY <1>2, <2>1, <2>2 DEF OrderRules, KeysShown, Terms, EditorTerms
  <2>4. OrderRules' /\ Terms'
    BY <2>1, <2>2, <2>3, TermsKeptOutside DEF OrderRules, Terms
  <2> QED
    BY <1>1, <2>1, <2>2, <2>4 DEF OrderInv, AtomicStep, Atomic!atomicVars
<1> QED
  BY <1>3, <1>4, <1>5, <1>6, <1>7, <1>8 DEF Next

(* At each point of its code every session works on an order for a reason  *)
(* that still holds: the order is waiting, the tick crosses it, its        *)
(* trigger was hit, and nobody else has it locked.                         *)
THEOREM OrderInvariant == Spec => []OrderInv
<1>1. Init => OrderInv
  BY OrderInit
<1>2. OrderInv /\ [Next]_vars => OrderInv'
  BY OrderNext
<1> QED
  BY <1>1, <1>2, PTL DEF Spec

(* No stop-limit order is triggered, filled or turned down before a tick   *)
(* has hit its trigger, however many subscribers handle that tick.         *)
THEOREM StopsAwaitTrigger == Spec => []StopWaitsForTrigger
<1>1. OrderInv => StopWaitsForTrigger
  BY DEF OrderInv, OrderRules
<1> QED
  BY <1>1, OrderInvariant, PTL

(* The locking transactions implement the atomic specification: whatever   *)
(* interleaves, each order, stop and sale takes effect at its commit, at   *)
(* once, against what is in force at that moment and at a price shown.     *)
THEOREM Refinement == Spec => ImplementsAtomic
<1>1. Init => Atomic!Init
  BY AtomicModels DEF Init, DatabaseInit, FeedInit, Atomic!Init, Quoted, TicksOf
<1>2. OrderInv /\ [Next]_vars => [Atomic!Next]_(Atomic!atomicVars)
  BY OrderNext DEF AtomicStep
<1> QED
  BY <1>1, <1>2, OrderInvariant, PTL DEF Spec, ImplementsAtomic, Atomic!Spec

----------------------------------------------------------------------------
(* What follows from the atomic steps: each of them books one execution    *)
(* that is new, or leaves the executed orders, the receipts, the balances  *)
(* and the holdings as they are.                                           *)

Unbooked ==
    /\ UNCHANGED <<wallet, ledger>>
    /\ \A o \in OrderIds : orders'[o] # orders[o] => ~IsExecuted(o) /\ ~IsExecuted(o)'
    /\ \A h \in Holdings :
        /\ Held(position'[h]) = Held(position[h])
        /\ Held(position[h]) > 0 => position'[h].avg_price = position[h].avg_price

BooksOnce(o, order, p) ==
    LET value == OrderValue(order, p)
        balance == wallet[order.user] + SignedValue(order.side, value)
        after == AfterFill(position[Holding(order)], order, p)
    IN  /\ ~IsExecuted(o)
        /\ ~CannotDeliver(position[Holding(order)], order)
        /\ orders' = [orders EXCEPT ![o] = Executed(order, p)]
        /\ wallet' = [wallet EXCEPT ![order.user] = balance]
        /\ ledger' = [ledger EXCEPT ![order.user] =
                        Append(ledger[order.user], Entry(order.side, value, balance, o))]
        /\ \A h \in Holdings : h # Holding(order) => position'[h] = position[h]
        /\ position'[Holding(order)] # Null
        /\ position'[Holding(order)].quantity = after.quantity
        /\ position'[Holding(order)].avg_price = after.avg_price

LEMMA AtomicCases ==
    ASSUME DatabaseTypeOK, DatabaseTypeOK', FeedTypeOK, AtomicStep
    PROVE  \/ Unbooked
           \/ \E o \in OrderIds, order \in OrderRow, p \in Prices : BooksOnce(o, order, p)
<1> USE DEF IsExecuted
<1>1. ASSUME NEW o \in OrderIds, NEW order \in OrderRow, NEW p \in Prices, NEW row,
             orders[o] = Null \/ orders[o].status \in Active,
             ~CannotDeliver(position[Holding(order)], order),
             Atomic!Execute(o, order, p, row), row # Null,
             row.quantity = AfterFill(position[Holding(order)], order, p).quantity,
             row.avg_price = AfterFill(position[Holding(order)], order, p).avg_price
      PROVE  BooksOnce(o, order, p)
  <2>1. Holding(order) \in Holdings
    BY DEF OrderRow, Holding
  <2>2. position' = [position EXCEPT ![Holding(order)] = row]
    BY <1>1, AtomicModels DEF Atomic!Execute
  <2>3. /\ position'[Holding(order)] = row
        /\ \A h \in Holdings : h # Holding(order) => position'[h] = position[h]
    BY <2>1, <2>2 DEF DatabaseTypeOK
  <2>4. ~IsExecuted(o)
    BY <1>1
  <2> QED
    BY <1>1, <2>3, <2>4, AtomicModels DEF Atomic!Execute, BooksOnce
<1>2. ASSUME NEW o \in OrderIds, NEW order \in OrderRow, NEW p \in Prices,
             orders[o] = Null \/ orders[o].status \in Active,
             Atomic!Affordable(order, p),
             Atomic!Execute(o, order, p, AfterFill(position[Holding(order)], order, p))
      PROVE  BooksOnce(o, order, p)
  <2> DEFINE row == AfterFill(position[Holding(order)], order, p)
  <2>1. ~CannotDeliver(position[Holding(order)], order)
    BY <1>2, AtomicModels DEF Atomic!Affordable
  <2>2. /\ position[Holding(order)] \in PositionRow \cup {Null}
        /\ order.quantity \in Nat \ {0}
    BY DEF OrderRow, Holding, DatabaseTypeOK
  <2>3. order.side = "sell" => position[Holding(order)] # Null
                /\ position[Holding(order)].quantity >= order.quantity
    BY <2>1, <2>2 DEF CannotDeliver, Held, PositionRow
  <2>4. row \in PositionRow
    BY <2>2, <2>3, AfterFillType
  <2>5. row # Null
    BY <2>4, NullAssumption
  <2> HIDE DEF row
  <2> QED
    BY <1>1, <1>2, <2>1, <2>5 DEF row
<1>3. ASSUME UNCHANGED <<wallet, position, ledger>>,
             \A o \in OrderIds : orders'[o] # orders[o] => ~IsExecuted(o) /\ ~IsExecuted(o)'
      PROVE  Unbooked
  BY <1>3 DEF Unbooked
<1>4. ASSUME NEW o \in OrderIds, NEW row, row.status # "executed",
             orders' = [orders EXCEPT ![o] = row], ~IsExecuted(o)
      PROVE  \A x \in OrderIds : orders'[x] # orders[x] => ~IsExecuted(x) /\ ~IsExecuted(x)'
  BY <1>4 DEF DatabaseTypeOK
<1>5. ASSUME NEW o \in OrderIds, NEW status, status # "executed", orders[o] # Null,
             orders[o].status \in Active,
             orders' = [orders EXCEPT ![o].status = status]
      PROVE  \A x \in OrderIds : orders'[x] # orders[x] => ~IsExecuted(x) /\ ~IsExecuted(x)'
  <2>1. [orders[o] EXCEPT !.status = status].status = status
    BY <1>5 DEF DatabaseTypeOK, OrderRow
  <2> QED
    BY <1>4, <1>5, <2>1
<1>6. CASE Atomic!Quote \/ UNCHANGED Atomic!atomicVars
  BY <1>3, <1>6 DEF Atomic!Quote, Atomic!atomicVars
<1>7. CASE \E o \in RequestIds : Atomic!Place(o)
  <2>1. PICK o \in RequestIds : Atomic!Place(o)
    BY <1>7
  <2>2. PICK q \in OrderRequests : orders' = [orders EXCEPT ![o] = NewOrder(q)]
    BY <2>1, AtomicModels DEF Atomic!Place
  <2>3. NewOrder(q).status # "executed"
    BY DEF NewOrder
  <2> QED
    BY <1>3, <1>4, <2>1, <2>2, <2>3 DEF Atomic!Place
<1>8. CASE \E o \in RequestIds : Atomic!Trigger(o) \/ Atomic!TurnDown(o)
  <2>1. PICK o \in RequestIds : Atomic!Trigger(o) \/ Atomic!TurnDown(o)
    BY <1>8
  <2>2. \E status \in {"triggered", "failed"} : orders' = [orders EXCEPT ![o].status = status]
    BY <2>1 DEF Atomic!Trigger, Atomic!TurnDown
  <2>3. orders[o] # Null /\ orders[o].status \in Active /\ UNCHANGED <<wallet, position, ledger>>
    BY <2>1, AtomicModels DEF Atomic!Trigger, Atomic!TurnDown
  <2> QED
    BY <1>3, <1>5, <2>2, <2>3
<1>9. \A y \in Symbols : Quoted[y] \subseteq Prices
  <2>1. ASSUME NEW i \in 1 .. Len(feed)
        PROVE  feed[i].price \in Prices
    <3>1. feed[i] \in Tick
      BY DEF FeedTypeOK
    <3> QED
      BY <3>1 DEF Tick
  <2>2. outbox # Null => outbox.price \in Prices
    BY DEF FeedTypeOK, Tick
  <2> QED
    BY <2>1, <2>2 DEF Quoted, TicksOf
<1>10. CASE \E o \in RequestIds : Atomic!MarketOrder(o)
  <2>1. PICK o \in RequestIds : Atomic!MarketOrder(o)
    BY <1>10
  <2>2. PICK q \in OrderRequests : \E p \in Quoted[q.symbol] :
            /\ Atomic!Affordable(NewOrder(q), p)
            /\ Atomic!Execute(o, NewOrder(q), p,
                              AfterFill(position[<<q.user, q.symbol>>], NewOrder(q), p))
    BY <2>1, AtomicModels DEF Atomic!MarketOrder
  <2>3. PICK p \in Quoted[q.symbol] :
            /\ Atomic!Affordable(NewOrder(q), p)
            /\ Atomic!Execute(o, NewOrder(q), p,
                              AfterFill(position[<<q.user, q.symbol>>], NewOrder(q), p))
    BY <2>2
  <2>4. /\ NewOrder(q) \in OrderRow /\ q.symbol \in Symbols
        /\ Holding(NewOrder(q)) = <<q.user, q.symbol>>
    BY NewOrderType, RequestsAssumption DEF ValidOrderRequest, NewOrder, Holding
  <2>5. p \in Prices /\ orders[o] = Null
    BY <1>9, <2>1, <2>4 DEF Atomic!MarketOrder
  <2>6. BooksOnce(o, NewOrder(q), p)
    BY <1>2, <2>3, <2>4, <2>5
  <2> QED
    BY <2>4, <2>5, <2>6
<1>11. CASE \E o \in RequestIds : Atomic!Fill(o)
  <2>1. PICK o \in RequestIds : Atomic!Fill(o)
    BY <1>11
  <2>2. PICK p \in Atomic!FillPrices(orders[o]) :
            /\ Atomic!Affordable(orders[o], p)
            /\ Atomic!Execute(o, orders[o], p,
                              AfterFill(position[Holding(orders[o])], orders[o], p))
    BY <2>1, AtomicModels DEF Atomic!Fill
  <2>3. orders[o] \in OrderRow /\ orders[o].symbol \in Symbols /\ orders[o].status \in Active
    BY <2>1, AtomicModels DEF Atomic!Fill, DatabaseTypeOK, OrderRow
  <2>4. p \in Prices
    BY <1>9, <2>3 DEF Atomic!FillPrices
  <2>5. BooksOnce(o, orders[o], p)
    BY <1>2, <2>2, <2>3, <2>4
  <2> QED
    BY <2>3, <2>4, <2>5
<1>12. CASE \E o \in SaleIds, h \in Holdings : Atomic!StopSale(o, h)
  <2>1. PICK o \in SaleIds, h \in Holdings : Atomic!StopSale(o, h)
    BY <1>12
  <2> DEFINE row == position[h]
             q == [user |-> h[1], symbol |-> h[2], side |-> "sell",
                   order_type |-> "market", quantity |-> row.quantity,
                   limit_price |-> Null, trigger_price |-> Null]
             order == NewOrder(q)
             sold == [row EXCEPT !.quantity = 0, !.stop_loss = Null, !.target_price = Null]
  <2>2. orders[o] = Null /\ Held(row) > 0
    BY <2>1, AtomicModels DEF Atomic!StopSale
  <2>3. row \in PositionRow /\ row # Null /\ row.quantity \in Nat \ {0} /\ Held(row) = row.quantity
    <3>1. row # Null
      BY <2>2 DEF Held
    <3>2. row \in PositionRow
      BY <3>1 DEF DatabaseTypeOK
    <3> QED
      BY <2>2, <3>1, <3>2 DEF Held, PositionRow
  <2>4. PICK p \in Quoted[h[2]] : Atomic!Execute(o, order, p, sold)
    BY <2>1, AtomicModels DEF Atomic!StopSale
  <2>5. p \in Prices
    BY <1>9
  <2>6. /\ h = <<h[1], h[2]>> /\ h[1] \in Users /\ h[2] \in Symbols
        /\ order.side = "sell" /\ order.quantity = row.quantity /\ Holding(order) = h
    BY DEF NewOrder, Holding
  <2>7. order \in OrderRow
    BY <2>3, <2>6 DEF NewOrder, OrderRow, OrderSide, OrderType, OrderStatus, OptionalPrice
  <2>8. sold \in PositionRow
    BY <2>3 DEF PositionRow, OptionalPrice
  <2>9. /\ sold # Null /\ sold.quantity = row.quantity - row.quantity
        /\ sold.avg_price = row.avg_price
    <3> HIDE DEF row
    <3>1. sold.quantity = 0 /\ sold.avg_price = row.avg_price
      BY <2>3 DEF PositionRow
    <3> HIDE DEF sold
    <3> QED
      BY <2>3, <2>8, <3>1, NullAssumption
  <2>10. /\ AfterFill(row, order, p).quantity = row.quantity - order.quantity
         /\ AfterFill(row, order, p).avg_price = row.avg_price
    <3>1. AfterFill(row, order, p) = [row EXCEPT !.quantity = @ - order.quantity]
      BY <2>3, <2>6 DEF AfterFill
    <3> QED
      BY <2>3, <3>1 DEF PositionRow
  <2>11. ~CannotDeliver(row, order)
    BY <2>3, <2>6 DEF CannotDeliver
  <2> HIDE DEF order, sold, q, row
  <2>12. row = position[Holding(order)]
    BY <2>6 DEF row
  <2>13. BooksOnce(o, order, p)
    BY <1>1, <2>2, <2>4, <2>5, <2>6, <2>7, <2>9, <2>10, <2>11, <2>12
  <2> QED
    BY <2>5, <2>7, <2>13
<1>13. CASE \E q \in StopRequests : Atomic!SetStops(q)
  <2>1. PICK q \in StopRequests : Atomic!SetStops(q)
    BY <1>13
  <2> DEFINE x == <<q.user, q.symbol>>
  <2>2. /\ x \in Holdings /\ position[x] \in PositionRow
        /\ q.stop_loss \in OptionalPrice /\ q.target_price \in OptionalPrice
    BY <2>1, RequestsAssumption DEF Atomic!SetStops, ValidStopRequest, DatabaseTypeOK
  <2>3. PICK sl \in OptionalPrice, tp \in OptionalPrice :
            position' = [position EXCEPT ![x].stop_loss = sl, ![x].target_price = tp]
    <3>1. position[x].stop_loss \in OptionalPrice /\ position[x].target_price \in OptionalPrice
      BY <2>2 DEF PositionRow
    <3>2. \E sl \in {q.stop_loss, position[x].stop_loss},
             tp \in {q.target_price, position[x].target_price} :
            position' = [position EXCEPT ![x].stop_loss = sl, ![x].target_price = tp]
      BY <2>1 DEF Atomic!SetStops
    <3> HIDE DEF x
    <3> QED
      BY <2>2, <3>1, <3>2
  <2> HIDE DEF x
  <2>4. /\ position'[x] = [position[x] EXCEPT !.stop_loss = sl, !.target_price = tp]
        /\ \A h \in Holdings : h # x => position'[h] = position[h]
    BY <2>2, <2>3 DEF DatabaseTypeOK, PositionRow
  <2>5. /\ position'[x].quantity = position[x].quantity
        /\ position'[x].avg_price = position[x].avg_price
    BY <2>2, <2>4 DEF PositionRow
  <2>6. position[x] # Null /\ position'[x] # Null
    <3>1. position'[x] \in PositionRow
      BY <2>2, <2>4 DEF PositionRow, DatabaseTypeOK
    <3> QED
      BY <2>2, <3>1, NullAssumption
  <2>7. \A h \in Holdings : /\ Held(position'[h]) = Held(position[h])
                            /\ Held(position[h]) > 0 =>
                                 position'[h].avg_price = position[h].avg_price
    BY <2>4, <2>5, <2>6 DEF Held
  <2>8. UNCHANGED <<wallet, ledger, orders>>
    BY <2>1 DEF Atomic!SetStops
  <2> QED
    BY <2>7, <2>8 DEF Unbooked
<1>14. \/ Atomic!Quote \/ UNCHANGED Atomic!atomicVars
       \/ \E o \in RequestIds : Atomic!Place(o)
       \/ \E o \in RequestIds : Atomic!Trigger(o) \/ Atomic!TurnDown(o)
       \/ \E o \in RequestIds : Atomic!MarketOrder(o)
       \/ \E o \in RequestIds : Atomic!Fill(o)
       \/ \E o \in SaleIds, h \in Holdings : Atomic!StopSale(o, h)
       \/ \E q \in StopRequests : Atomic!SetStops(q)
  <2>1. Atomic!Next \/ UNCHANGED Atomic!atomicVars
    BY DEF AtomicStep
  <2> QED
    BY <2>1, AtomicModels, Zenon DEF Atomic!Next
<1> HIDE DEF IsExecuted
<1> QED
  BY <1>6, <1>7, <1>8, <1>10, <1>11, <1>12, <1>13, <1>14

(* An execution adds one receipt at the end of its user's ledger. *)
LEMMA ReceiptAdded ==
    ASSUME DatabaseTypeOK, NEW user \in Users, NEW entry,
           ledger' = [ledger EXCEPT ![user] = Append(ledger[user], entry)]
    PROVE  /\ Len(ledger[user]) + 1 \in 1 .. Len(ledger'[user])
           /\ ledger'[user][Len(ledger[user]) + 1] = entry
           /\ \A u \in Users : \A i \in 1 .. Len(ledger[u]) :
                i \in 1 .. Len(ledger'[u]) /\ ledger'[u][i] = ledger[u][i]
           /\ \A u \in Users : \A i \in 1 .. Len(ledger'[u]) :
                i \in 1 .. Len(ledger[u]) \/ (u = user /\ i = Len(ledger[user]) + 1)
<1>1. ledger[user] \in Seq(WalletEntry) /\ Len(ledger[user]) \in Nat
  BY DEF DatabaseTypeOK
<1>2. ledger'[user] = Append(ledger[user], entry)
  BY DEF DatabaseTypeOK
<1>3. /\ Len(ledger'[user]) = Len(ledger[user]) + 1
      /\ ledger'[user][Len(ledger[user]) + 1] = entry
      /\ \A i \in 1 .. Len(ledger[user]) : ledger'[user][i] = ledger[user][i]
  BY <1>1, <1>2
<1>4. \A u \in Users : u # user => ledger'[u] = ledger[u]
  BY DEF DatabaseTypeOK
<1> QED
  BY <1>1, <1>3, <1>4

LEMMA ReceiptsKept ==
    ASSUME DatabaseTypeOK, DatabaseTypeOK', FeedTypeOK, OneEntryPerExecution, AtomicStep
    PROVE  OneEntryPerExecution'
<1> USE DEF IsExecuted
<1>1. /\ \A u \in Users : \A i \in 1 .. Len(ledger[u]) :
            /\ IsExecuted(ledger[u][i].reference_id)
            /\ orders[ledger[u][i].reference_id].user = u
            /\ orders[ledger[u][i].reference_id].order_value = ledger[u][i].amount
            /\ (orders[ledger[u][i].reference_id].side = "buy") = (ledger[u][i].type = "debit")
      /\ \A u \in Users : \A i, j \in 1 .. Len(ledger[u]) :
            ledger[u][i].reference_id = ledger[u][j].reference_id => i = j
      /\ \A o \in OrderIds : IsExecuted(o) =>
            \E i \in 1 .. Len(ledger[orders[o].user]) :
                ledger[orders[o].user][i].reference_id = o
  BY DEF OneEntryPerExecution
<1>2. ASSUME NEW u \in Users, NEW i \in 1 .. Len(ledger[u])
      PROVE  ledger[u][i].reference_id \in OrderIds
  <2>1. ledger[u] \in Seq(WalletEntry)
    BY DEF DatabaseTypeOK
  <2>2. ledger[u][i] \in WalletEntry
    BY <2>1
  <2> QED
    BY <2>2 DEF WalletEntry
<1>3. CASE Unbooked
  <2>1. /\ ledger' = ledger
        /\ \A o \in OrderIds : IsExecuted(o) => orders'[o] = orders[o]
        /\ \A o \in OrderIds : IsExecuted(o)' => orders'[o] = orders[o]
    BY <1>3 DEF Unbooked
  <2>2. \A u \in Users : \A i \in 1 .. Len(ledger[u]) :
            orders'[ledger[u][i].reference_id] = orders[ledger[u][i].reference_id]
    BY <1>1, <1>2, <2>1
  <2>3. \A o \in OrderIds : IsExecuted(o)' =>
            \E i \in 1 .. Len(ledger'[orders'[o].user]) :
                ledger'[orders'[o].user][i].reference_id = o
    BY <1>1, <2>1
  <2> QED
    BY <1>1, <2>1, <2>2, <2>3 DEF OneEntryPerExecution
<1>4. CASE \E o \in OrderIds, order \in OrderRow, p \in Prices : BooksOnce(o, order, p)
  <2>1. PICK o \in OrderIds, order \in OrderRow, p \in Prices : BooksOnce(o, order, p)
    BY <1>4
  <2> DEFINE value == OrderValue(order, p)
             entry == Entry(order.side, value,
                            wallet[order.user] + SignedValue(order.side, value), o)
             user == order.user
             n == Len(ledger[user]) + 1
  <2>2. /\ ~IsExecuted(o) /\ orders' = [orders EXCEPT ![o] = Executed(order, p)]
        /\ ledger' = [ledger EXCEPT ![user] = Append(ledger[user], entry)]
    BY <2>1 DEF BooksOnce
  <2>3. /\ entry.reference_id = o /\ entry.amount = value
        /\ (order.side = "buy") = (entry.type = "debit")
    BY DEF Entry
  <2>4. user \in Users
    BY DEF OrderRow
  <2>5. /\ orders'[o] # Null /\ orders'[o].status = "executed" /\ orders'[o].user = user
        /\ orders'[o].order_value = value /\ orders'[o].side = order.side
        /\ \A x \in OrderIds : x # o => orders'[x] = orders[x]
    <3>1. orders'[o] = Executed(order, p) /\ \A x \in OrderIds : x # o => orders'[x] = orders[x]
      BY <2>2 DEF DatabaseTypeOK
    <3>2. Executed(order, p) \in OrderRow /\ SameTerms(order, Executed(order, p))
      BY ExecutedType
    <3>3. Executed(order, p).status = "executed" /\ Executed(order, p).order_value = value
      BY DEF Executed, OrderRow
    <3> QED
      BY <3>1, <3>2, <3>3, NullAssumption DEF SameTerms
  <2> HIDE DEF value, entry
  <2>6. /\ n \in 1 .. Len(ledger'[user]) /\ ledger'[user][n] = entry
        /\ \A u \in Users : \A i \in 1 .. Len(ledger[u]) :
                i \in 1 .. Len(ledger'[u]) /\ ledger'[u][i] = ledger[u][i]
        /\ \A u \in Users : \A i \in 1 .. Len(ledger'[u]) :
                i \in 1 .. Len(ledger[u]) \/ (u = user /\ i = n)
    BY <2>2, <2>4, ReceiptAdded
  <2> HIDE DEF user, n
  <2>7. \A u \in Users : \A i \in 1 .. Len(ledger[u]) :
            ledger[u][i].reference_id # o
    BY <1>1, <2>2
  <2>8. ASSUME NEW u \in Users, NEW i \in 1 .. Len(ledger'[u])
        PROVE  /\ orders'[ledger'[u][i].reference_id] # Null
               /\ orders'[ledger'[u][i].reference_id].status = "executed"
               /\ orders'[ledger'[u][i].reference_id].user = u
               /\ orders'[ledger'[u][i].reference_id].order_value = ledger'[u][i].amount
               /\ (orders'[ledger'[u][i].reference_id].side = "buy")
                    = (ledger'[u][i].type = "debit")
    <3>1. CASE i \in 1 .. Len(ledger[u])
      <4>1. ledger'[u][i] = ledger[u][i]
        BY <2>6, <3>1
      <4>2. orders'[ledger[u][i].reference_id] = orders[ledger[u][i].reference_id]
        BY <1>2, <2>5, <2>7, <3>1
      <4> QED
        BY <1>1, <3>1, <4>1, <4>2
    <3>2. CASE u = user /\ i = n
      BY <2>3, <2>5, <2>6, <3>2
    <3> QED
      BY <2>6, <3>1, <3>2
  <2>9. ASSUME NEW u \in Users, NEW i \in 1 .. Len(ledger'[u]), NEW j \in 1 .. Len(ledger'[u]),
               ledger'[u][i].reference_id = ledger'[u][j].reference_id
        PROVE  i = j
    <3>1. CASE i \in 1 .. Len(ledger[u]) /\ j \in 1 .. Len(ledger[u])
      BY <1>1, <2>6, <2>9, <3>1
    <3>2. CASE i \in 1 .. Len(ledger[u]) /\ u = user /\ j = n
      BY <2>3, <2>6, <2>7, <2>9, <3>2
    <3>3. CASE j \in 1 .. Len(ledger[u]) /\ u = user /\ i = n
      BY <2>3, <2>6, <2>7, <2>9, <3>3
    <3> QED
      BY <2>6, <3>1, <3>2, <3>3
  <2>10. ASSUME NEW x \in OrderIds, IsExecuted(x)'
         PROVE  \E i \in 1 .. Len(ledger'[orders'[x].user]) :
                    ledger'[orders'[x].user][i].reference_id = x
    <3>1. CASE x = o
      BY <2>3, <2>5, <2>6, <3>1
    <3>2. CASE x # o
      <4>1. orders'[x] = orders[x] /\ orders[x].user \in Users
        BY <2>5, <2>10, <3>2 DEF DatabaseTypeOK, OrderRow
      <4> QED
        BY <1>1, <2>6, <2>10, <4>1
    <3> QED
      BY <3>1, <3>2
  <2> QED
    BY <2>8, <2>9, <2>10 DEF OneEntryPerExecution
<1> QED
  BY <1>3, <1>4, AtomicCases

(* An order is charged or credited once, however many subscribers handle   *)
(* the tick that fills it, and nothing else is.                            *)
THEOREM ChargedOnce == Spec => []OneEntryPerExecution
<1>1. Init => OneEntryPerExecution
  BY DEF Init, DatabaseInit, OneEntryPerExecution, IsExecuted
<1>2. OrderInv /\ OrderInv' /\ OneEntryPerExecution /\ [Next]_vars => OneEntryPerExecution'
  BY OrderNext, ReceiptsKept DEF OrderInv, MoneyInv, IInv, TypeOK
<1> QED
  BY <1>1, <1>2, OrderInvariant, PTL DEF Spec

----------------------------------------------------------------------------
(* The average price *)

(* Multiplication keeps the order of numbers. *)
LEMMA TimesKeepsOrder ==
    ASSUME NEW a \in Nat, NEW b \in Nat, NEW n \in Nat, a <= b
    PROVE  a * n <= b * n
<1>1. PICK d \in Nat : b = a + d
  <2>1. b - a \in Nat /\ b = a + (b - a)
    OBVIOUS
  <2> QED
    BY <2>1
<1>2. b * n = a * n + d * n
  BY <1>1
<1>3. d * n \in Nat /\ a * n \in Nat
  OBVIOUS
<1> QED
  BY <1>2, <1>3

(* Rounding to the nearest integer does not leave a range of integers. *)
LEMMA RoundStaysWithin ==
    ASSUME NEW num \in Nat, NEW den \in Nat \ {0}, NEW lo \in Nat, NEW hi \in Nat,
           lo * den <= num, num <= hi * den
    PROVE  lo <= RoundHalfEven(num, den) /\ RoundHalfEven(num, den) <= hi
<1> DEFINE q == num \div den
           r == num % den
<1>1. q \in Nat /\ r \in Nat /\ r < den /\ num = q * den + r
  OBVIOUS
<1>2. RoundHalfEven(num, den) \in {q, q + 1}
      /\ (RoundHalfEven(num, den) = q + 1 => r > 0)
  BY <1>1 DEF RoundHalfEven
<1> HIDE DEF q, r
<1>3. lo <= q
  <2> SUFFICES ASSUME q + 1 <= lo
               PROVE  FALSE
    BY <1>1
  <2>1. (q + 1) * den <= lo * den
    BY <1>1, TimesKeepsOrder
  <2>2. (q + 1) * den = q * den + den /\ q * den \in Nat /\ lo * den \in Nat
    BY <1>1
  <2> QED
    BY <1>1, <2>1, <2>2
<1>4. q <= hi /\ (r > 0 => q + 1 <= hi)
  <2>1. ASSUME hi + 1 <= q
        PROVE  FALSE
    <3>1. (hi + 1) * den <= q * den
      BY <1>1, <2>1, TimesKeepsOrder
    <3>2. (hi + 1) * den = hi * den + den /\ q * den \in Nat /\ hi * den \in Nat
      BY <1>1
    <3> QED
      BY <1>1, <3>1, <3>2
  <2>2. q = hi => r = 0
    <3>1. hi * den \in Nat /\ (q = hi => q * den = hi * den)
      BY <1>1
    <3> QED
      BY <1>1, <3>1
  <2> QED
    BY <1>1, <2>1, <2>2
<1> QED
  BY <1>1, <1>2, <1>3, <1>4

(* The average after a buy lies within any range that holds the average    *)
(* before it and the price of the buy.                                     *)
LEMMA AverageStaysWithin ==
    ASSUME NEW row \in PositionRow, NEW n \in Nat \ {0}, NEW price \in Nat,
           NEW lo \in Nat, NEW hi \in Nat, lo <= price, price <= hi,
           row.quantity > 0 => lo <= row.avg_price /\ row.avg_price <= hi
    PROVE  lo <= AvgPrice(row, n, price) /\ AvgPrice(row, n, price) <= hi
<1> DEFINE a == row.avg_price
           k == row.quantity
<1>1. a \in Nat /\ k \in Nat
  BY DEF PositionRow
<1> HIDE DEF a, k
<1>2. lo * n <= price * n /\ price * n <= hi * n
  BY TimesKeepsOrder
<1>3. lo * k <= a * k /\ a * k <= hi * k
  <2>1. CASE k = 0
    BY <1>1, <2>1
  <2>2. CASE k > 0
    BY <1>1, <2>2, TimesKeepsOrder DEF a, k
  <2> QED
    BY <1>1, <2>1, <2>2
<1>4. /\ lo * (k + n) = lo * k + lo * n
      /\ hi * (k + n) = hi * k + hi * n
      /\ lo * k \in Nat /\ lo * n \in Nat /\ hi * k \in Nat /\ hi * n \in Nat
      /\ a * k \in Nat /\ price * n \in Nat /\ k + n \in Nat \ {0}
  BY <1>1
<1> DEFINE num == a * k + price * n
<1>5. num \in Nat /\ lo * (k + n) <= num /\ num <= hi * (k + n)
  BY <1>2, <1>3, <1>4
<1> HIDE DEF num
<1>6. lo <= RoundHalfEven(num, k + n) /\ RoundHalfEven(num, k + n) <= hi
  BY <1>4, <1>5, RoundStaysWithin
<1> QED
  BY <1>6 DEF AvgPrice, num, a, k

(* An executed order has the price it was executed at. *)
PricesRecorded == \A o \in OrderIds : IsExecuted(o) => orders[o].price \in Prices

LEMMA AveragesKept ==
    ASSUME DatabaseTypeOK, DatabaseTypeOK', FeedTypeOK,
           PricesRecorded, AverageWithinBuys, AtomicStep
    PROVE  PricesRecorded' /\ AverageWithinBuys'
<1> USE DEF IsExecuted, ExecutedFor
<1>1. ASSUME NEW h \in Holdings, Held(position[h]) > 0
      PROVE  \E lo, hi \in ExecutedFor(h, "buy") :
                orders[lo].price <= position[h].avg_price
                /\ position[h].avg_price <= orders[hi].price
  BY <1>1 DEF AverageWithinBuys
<1>2. CASE Unbooked
  <2>1. \A h \in Holdings : ExecutedFor(h, "buy")' = ExecutedFor(h, "buy")
    BY <1>2 DEF Unbooked
  <2>2. \A o \in OrderIds : IsExecuted(o) => orders'[o] = orders[o]
    BY <1>2 DEF Unbooked
  <2>3. PricesRecorded'
    BY <1>2 DEF Unbooked, PricesRecorded
  <2>4. AverageWithinBuys'
    BY <1>1, <1>2, <2>1, <2>2 DEF AverageWithinBuys, Unbooked
  <2> QED
    BY <2>3, <2>4
<1>3. CASE \E o \in OrderIds, order \in OrderRow, p \in Prices : BooksOnce(o, order, p)
  <2>1. PICK o \in OrderIds, order \in OrderRow, p \in Prices : BooksOnce(o, order, p)
    BY <1>3
  <2> DEFINE x == Holding(order)
             base == IF position[x] = Null THEN EmptyPosition ELSE position[x]
             n == order.quantity
             after == AfterFill(position[x], order, p)
  <2>2. /\ ~IsExecuted(o) /\ orders' = [orders EXCEPT ![o] = Executed(order, p)]
        /\ ~CannotDeliver(position[x], order)
        /\ \A h \in Holdings : h # x => position'[h] = position[h]
        /\ position'[x] # Null
        /\ position'[x].quantity = after.quantity
        /\ position'[x].avg_price = after.avg_price
    BY <2>1 DEF BooksOnce
  <2>3. /\ x \in Holdings /\ n \in Nat \ {0} /\ p \in Nat /\ order.side \in {"buy", "sell"}
    BY PricesAssumption DEF OrderRow, OrderSide, Holding
  <2>4. base \in PositionRow /\ base.quantity = Held(position[x])
    BY <2>3, NullAssumption DEF DatabaseTypeOK, EmptyPosition, PositionRow, OptionalPrice, Held
  <2>5. /\ orders'[o] # Null /\ orders'[o].status = "executed"
        /\ orders'[o].side = order.side /\ Holding(orders'[o]) = x /\ orders'[o].price = p
        /\ \A z \in OrderIds : z # o => orders'[z] = orders[z]
    <3>1. orders'[o] = Executed(order, p) /\ \A z \in OrderIds : z # o => orders'[z] = orders[z]
      BY <2>2 DEF DatabaseTypeOK
    <3>2. Executed(order, p) \in OrderRow /\ SameTerms(order, Executed(order, p))
      BY ExecutedType
    <3>3. Executed(order, p).status = "executed" /\ Executed(order, p).price = p
      BY DEF Executed, OrderRow
    <3> QED
      BY <3>1, <3>2, <3>3, NullAssumption DEF SameTerms, Holding
  <2>6. /\ \A h \in Holdings : ExecutedFor(h, "buy") \subseteq ExecutedFor(h, "buy")'
        /\ \A h \in Holdings : \A z \in ExecutedFor(h, "buy") : orders'[z] = orders[z]
        /\ order.side = "buy" => o \in ExecutedFor(x, "buy")'
    BY <2>2, <2>5
  <2>7. /\ order.side = "buy" => /\ after.quantity = base.quantity + n
                                 /\ after.avg_price = AvgPrice(base, n, p)
        /\ order.side = "sell" => /\ after.quantity = base.quantity - n
                                  /\ after.avg_price = base.avg_price
    <3>1. /\ order.side = "buy" =>
                after = [base EXCEPT !.quantity = @ + n, !.avg_price = AvgPrice(base, n, p)]
          /\ order.side = "sell" => after = [base EXCEPT !.quantity = @ - n]
      BY DEF AfterFill
    <3> HIDE DEF base, after
    <3> QED
      BY <2>4, <3>1 DEF PositionRow
  <2> HIDE DEF base, after, x, n
  <2>8. ASSUME NEW h \in Holdings, Held(position'[h]) > 0
        PROVE  \E lo, hi \in ExecutedFor(h, "buy")' :
                  orders'[lo].price <= position'[h].avg_price
                  /\ position'[h].avg_price <= orders'[hi].price
    <3>1. CASE h # x
      BY <1>1, <2>2, <2>6, <2>8, <3>1
    <3>2. CASE h = x /\ order.side = "sell"
      <4>1. base.quantity > 0 /\ position'[h].avg_price = base.avg_price
        BY <2>2, <2>3, <2>4, <2>7, <2>8, <3>2 DEF Held, PositionRow
      <4>2. base = position[x]
        BY <4>1 DEF base, EmptyPosition
      <4> QED
        BY <1>1, <2>4, <2>6, <3>2, <4>1, <4>2
    <3>3. CASE h = x /\ order.side = "buy"
      <4>1. position'[h].avg_price = AvgPrice(base, n, p)
        BY <2>2, <2>7, <3>3
      <4>2. PICK lo, hi \in ExecutedFor(h, "buy")' :
                /\ orders'[lo].price \in Nat /\ orders'[hi].price \in Nat
                /\ orders'[lo].price <= p /\ p <= orders'[hi].price
                /\ base.quantity > 0 => /\ orders'[lo].price <= base.avg_price
                                        /\ base.avg_price <= orders'[hi].price
        <5>1. o \in ExecutedFor(h, "buy")' /\ orders'[o].price = p
          BY <2>5, <2>6, <3>3
        <5>2. CASE base.quantity > 0
          <6>1. base = position[x] /\ Held(position[x]) > 0
            BY <2>4, <5>2 DEF base, EmptyPosition
          <6>2. PICK a, b \in ExecutedFor(h, "buy") :
                    /\ orders[a].price <= base.avg_price
                    /\ base.avg_price <= orders[b].price
            BY <1>1, <3>3, <6>1
          <6>3. /\ a \in ExecutedFor(h, "buy")' /\ orders'[a].price = orders[a].price
                /\ b \in ExecutedFor(h, "buy")' /\ orders'[b].price = orders[b].price
            BY <2>6
          <6>4. orders[a].price \in Nat /\ orders[b].price \in Nat /\ base.avg_price \in Nat
            BY <2>4, PricesAssumption DEF PricesRecorded, PositionRow
          <6>5. \E lo \in ExecutedFor(h, "buy")' :
                    orders'[lo].price \in Nat /\ orders'[lo].price <= p
                    /\ orders'[lo].price <= base.avg_price
            <7>1. CASE orders[a].price <= p
              BY <6>2, <6>3, <6>4, <7>1
            <7>2. CASE p <= orders[a].price
              BY <2>3, <5>1, <6>2, <6>4, <7>2
            <7> QED
              BY <2>3, <6>4, <7>1, <7>2
          <6>6. \E hi \in ExecutedFor(h, "buy")' :
                    orders'[hi].price \in Nat /\ p <= orders'[hi].price
                    /\ base.avg_price <= orders'[hi].price
            <7>1. CASE p <= orders[b].price
              BY <6>2, <6>3, <6>4, <7>1
            <7>2. CASE orders[b].price <= p
              BY <2>3, <5>1, <6>2, <6>4, <7>2
            <7> QED
              BY <2>3, <6>4, <7>1, <7>2
          <6> QED
            BY <6>5, <6>6
        <5>3. CASE ~(base.quantity > 0)
          BY <2>3, <5>1, <5>3
        <5> QED
          BY <5>2, <5>3
      <4> QED
        BY <2>3, <2>4, <4>1, <4>2, AverageStaysWithin
    <3> QED
      BY <2>3, <3>1, <3>2, <3>3
  <2>9. PricesRecorded'
    BY <2>5 DEF PricesRecorded
  <2> QED
    BY <2>8, <2>9 DEF AverageWithinBuys
<1> QED
  BY <1>2, <1>3, AtomicCases

(* The average price of a holding stays between the lowest and the highest *)
(* price of its executed buys, however often quantize(_SCALE) has rounded  *)
(* it in _buy and _execute_order.                                          *)
THEOREM AveragesInRange == Spec => []AverageWithinBuys
<1>1. Init => PricesRecorded /\ AverageWithinBuys
  BY DEF Init, DatabaseInit, PricesRecorded, AverageWithinBuys, IsExecuted, Held
<1>2. OrderInv /\ OrderInv' /\ PricesRecorded /\ AverageWithinBuys /\ [Next]_vars
        => PricesRecorded' /\ AverageWithinBuys'
  BY OrderNext, AveragesKept DEF OrderInv, MoneyInv, IInv, TypeOK
<1> QED
  BY <1>1, <1>2, OrderInvariant, PTL DEF Spec
----------------------------------------------------------------------------
(* Sums over finite sets.  The fold of MapThenSumSet is a recursive        *)
(* function on the subsets of the set; that it exists, and that the order  *)
(* in which it takes the members does not matter, is shown by looking at a *)
(* smallest subset that would be an exception.                             *)

(* A nonempty set of finite sets has a smallest member. *)
LEMMA SmallestSet ==
    ASSUME NEW T, T # {}, \A s \in T : IsFiniteSet(s)
    PROVE  \E s \in T : \A r \in T : Cardinality(s) <= Cardinality(r)
<1> DEFINE Sizes == {Cardinality(s) : s \in T}
           R == OpToRel(<, Nat)
<1>1. IsWellFoundedOn(R, Nat)
  BY NatLessThanWellFounded
<1>2. \A x, y \in Nat : <<x, y>> \in R <=> x < y
  BY DEF OpToRel
<1>3. Sizes \subseteq Nat /\ Sizes # {}
  BY FS_CardinalityType
<1> HIDE DEF R, Sizes
<1>4. PICK n \in Sizes : \A k \in Sizes : ~ (<<k, n>> \in R)
  BY <1>1, <1>3, WFMin
<1>5. n \in Nat /\ \A k \in Sizes : n <= k
  <2> SUFFICES ASSUME NEW k \in Sizes
               PROVE  n \in Nat /\ n <= k
    BY <1>3
  <2>1. n \in Nat /\ k \in Nat
    BY <1>3
  <2>2. ~ (k < n)
    BY <1>2, <1>4, <2>1
  <2> QED
    BY <2>1, <2>2
<1> QED
  BY <1>5 DEF Sizes

(* MapThenSumSet takes the members of a set one by one, in the order in    *)
(* which CHOOSE gives them.                                                *)
First(s) == CHOOSE x \in s : TRUE

Sums(sum, table, S) ==
    sum = [s \in SUBSET S |->
            IF s = {} THEN 0 ELSE table[First(s)].quantity + sum[s \ {First(s)}]]

Total(table, S) ==
    LET Quantity(o) == table[o].quantity IN MapThenSumSet(Quantity, S)

LEMMA OneLess ==
    ASSUME NEW S, IsFiniteSet(S), NEW x \in S
    PROVE  /\ IsFiniteSet(S \ {x}) /\ Cardinality(S) \in Nat
           /\ Cardinality(S \ {x}) \in Nat
           /\ Cardinality(S) = Cardinality(S \ {x}) + 1
<1>1. IsFiniteSet(S \ {x}) /\ Cardinality(S \ {x}) = Cardinality(S) - 1
  BY FS_RemoveElement
<1> QED
  BY <1>1, FS_CardinalityType

(* The sums of the subsets with fewer than n members. *)
SumsBelow(n, sum, table, S) ==
    \A s \in SUBSET S : Cardinality(s) < n =>
        sum[s] = IF s = {} THEN 0 ELSE table[First(s)].quantity + sum[s \ {First(s)}]

LEMMA SumsExist ==
    ASSUME NEW table, NEW S, IsFiniteSet(S)
    PROVE  \E sum : Sums(sum, table, S)
<1> DEFINE Step(f) == [s \in SUBSET S |->
                IF s = {} THEN 0 ELSE table[First(s)].quantity + f[s \ {First(s)}]]
           Short(n) == ~ \E f : SumsBelow(n, f, table, S)
           Bad == {R \in SUBSET S : Short(Cardinality(R))}
<1>1. \A R \in SUBSET S : IsFiniteSet(R) /\ Cardinality(R) \in Nat
  BY FS_Subset, FS_CardinalityType
<1>2. ASSUME NEW n \in Nat, NEW f, SumsBelow(n, f, table, S)
      PROVE  SumsBelow(n + 1, Step(f), table, S)
  <2> DEFINE g == Step(f)
  <2>1. ASSUME NEW s \in SUBSET S, Cardinality(s) < n + 1, s # {}
        PROVE  g[s \ {First(s)}] = f[s \ {First(s)}]
    <3>1. First(s) \in s
      BY <2>1 DEF First
    <3>2. s \ {First(s)} \in SUBSET S /\ Cardinality(s \ {First(s)}) < n
      BY <1>1, <2>1, <3>1, OneLess
    <3> QED
      BY <1>2, <3>2 DEF SumsBelow
  <2> QED
    BY <2>1 DEF SumsBelow
<1> HIDE DEF Short
<1>3. Bad = {}
  <2> SUFFICES ASSUME Bad # {}
               PROVE  FALSE
    OBVIOUS
  <2>1. PICK R \in Bad : \A Q \in Bad : Cardinality(R) <= Cardinality(Q)
    BY <1>1, SmallestSet
  <2>2. R # {}
    <3>1. SumsBelow(Cardinality({}), {}, table, S)
      BY <1>1, FS_EmptySet DEF SumsBelow
    <3> QED
      BY <2>1, <3>1 DEF Short
  <2>3. PICK x \in R : TRUE
    BY <2>2
  <2>4. /\ R \ {x} \in SUBSET S /\ Cardinality(R \ {x}) \in Nat
        /\ Cardinality(R) = Cardinality(R \ {x}) + 1
    BY <1>1, <2>1, <2>3, OneLess
  <2>5. ~Short(Cardinality(R \ {x}))
    BY <1>1, <2>1, <2>4
  <2>6. ~Short(Cardinality(R))
    BY <1>2, <2>4, <2>5 DEF Short
  <2> QED
    BY <2>1, <2>6
<1>4. PICK f : SumsBelow(Cardinality(S), f, table, S)
  BY <1>3 DEF Short
<1>5. SumsBelow(Cardinality(S) + 1, Step(f), table, S)
  BY <1>1, <1>2, <1>4
<1>6. \A s \in SUBSET S : Cardinality(s) < Cardinality(S) + 1
  BY <1>1, FS_Subset
<1> DEFINE sum == Step(f)
<1>7. sum = [s \in SUBSET S |-> sum[s]]
  OBVIOUS
<1> HIDE DEF sum
<1>8. sum = [s \in SUBSET S |->
                IF s = {} THEN 0 ELSE table[First(s)].quantity + sum[s \ {First(s)}]]
  <2>1. \A s \in SUBSET S :
            sum[s] = IF s = {} THEN 0 ELSE table[First(s)].quantity + sum[s \ {First(s)}]
    BY <1>5, <1>6 DEF SumsBelow, sum
  <2> QED
    BY <1>7, <2>1
<1> QED
  BY <1>8 DEF Sums

(* The sum over a set does not depend on the set it is computed within. *)
LEMMA SumsAgree ==
    ASSUME NEW table, NEW S, NEW sum, Sums(sum, table, S),
           NEW table2, NEW S2, NEW sum2, Sums(sum2, table2, S2),
           NEW T, IsFiniteSet(T), T \subseteq S, T \subseteq S2,
           \A x \in T : table[x].quantity = table2[x].quantity
    PROVE  sum[T] = sum2[T]
<1> DEFINE Bad == {s \in SUBSET T : sum[s] # sum2[s]}
<1> SUFFICES ASSUME Bad # {}
             PROVE  FALSE
  OBVIOUS
<1>1. \A s \in SUBSET T : IsFiniteSet(s) /\ Cardinality(s) \in Nat
  BY FS_Subset, FS_CardinalityType
<1>2. PICK s \in Bad : \A r \in Bad : Cardinality(s) <= Cardinality(r)
  BY <1>1, SmallestSet
<1>3. /\ sum[s] = IF s = {} THEN 0 ELSE table[First(s)].quantity + sum[s \ {First(s)}]
      /\ sum2[s] = IF s = {} THEN 0 ELSE table2[First(s)].quantity + sum2[s \ {First(s)}]
  BY DEF Sums
<1>4. s # {} /\ First(s) \in s
  BY <1>2, <1>3 DEF First
<1>5. s \ {First(s)} \in SUBSET T /\ Cardinality(s \ {First(s)}) < Cardinality(s)
  BY <1>1, <1>2, <1>4, OneLess
<1>6. sum[s \ {First(s)}] = sum2[s \ {First(s)}]
  BY <1>1, <1>2, <1>5
<1> QED
  BY <1>2, <1>3, <1>4, <1>6

LEMMA TotalIsSum ==
    ASSUME NEW table, NEW S, IsFiniteSet(S)
    PROVE  \E sum : Sums(sum, table, S) /\ Total(table, S) = sum[S]
<1>1. Total(table, S) = (CHOOSE sum : Sums(sum, table, S))[S]
  BY DEF Total, MapThenSumSet, MapThenFoldSet, Sums, First
<1>2. Sums(CHOOSE sum : Sums(sum, table, S), table, S)
  BY SumsExist
<1> QED
  BY <1>1, <1>2

(* Two tables with the same quantities have the same total. *)
LEMMA TotalSame ==
    ASSUME NEW table, NEW table2, NEW S, IsFiniteSet(S),
           \A x \in S : table[x].quantity = table2[x].quantity
    PROVE  Total(table, S) = Total(table2, S)
<1>1. PICK sum : Sums(sum, table, S) /\ Total(table, S) = sum[S]
  BY TotalIsSum
<1>2. PICK sum2 : Sums(sum2, table2, S) /\ Total(table2, S) = sum2[S]
  BY TotalIsSum
<1> QED
  BY <1>1, <1>2, SumsAgree

LEMMA TotalFirst ==
    ASSUME NEW table, NEW S, IsFiniteSet(S)
    PROVE  Total(table, S) = IF S = {} THEN 0
                ELSE table[First(S)].quantity + Total(table, S \ {First(S)})
<1>1. PICK sum : Sums(sum, table, S) /\ Total(table, S) = sum[S]
  BY TotalIsSum
<1>2. sum[S] = IF S = {} THEN 0 ELSE table[First(S)].quantity + sum[S \ {First(S)}]
  BY <1>1 DEF Sums
<1> DEFINE T == S \ {First(S)}
<1>3. IsFiniteSet(T) /\ T \subseteq S
  BY FS_RemoveElement
<1>4. PICK sum2 : Sums(sum2, table, T) /\ Total(table, T) = sum2[T]
  BY <1>3, TotalIsSum
<1>5. sum[T] = sum2[T]
  BY <1>1, <1>3, <1>4, SumsAgree
<1> QED
  BY <1>1, <1>2, <1>4, <1>5

(* The total of a set is that of any member and that of the others. *)
LEMMA TotalOf ==
    ASSUME NEW table, NEW S, IsFiniteSet(S), \A x \in S : table[x].quantity \in Nat
    PROVE  /\ Total(table, S) \in Nat
           /\ \A x \in S :
                Total(table, S) = table[x].quantity + Total(table, S \ {x})
<1> DEFINE Good(s) == /\ Total(table, s) \in Nat
                      /\ \A x \in s :
                            Total(table, s) = table[x].quantity + Total(table, s \ {x})
           Bad == {s \in SUBSET S : ~Good(s)}
<1> SUFFICES ASSUME Bad # {}
             PROVE  FALSE
  OBVIOUS
<1>1. \A s \in SUBSET S : IsFiniteSet(s) /\ Cardinality(s) \in Nat
  BY FS_Subset, FS_CardinalityType
<1>2. PICK s \in Bad : \A r \in Bad : Cardinality(s) <= Cardinality(r)
  BY <1>1, SmallestSet
<1>3. \A x \in s : /\ s \ {x} \in SUBSET S
                   /\ Cardinality(s \ {x}) < Cardinality(s)
  BY <1>1, <1>2, OneLess
<1>4. \A x \in s : Good(s \ {x})
  BY <1>1, <1>2, <1>3
<1>5. Total(table, s) = IF s = {} THEN 0
            ELSE table[First(s)].quantity + Total(table, s \ {First(s)})
  BY <1>1, TotalFirst
<1>6. s # {} => First(s) \in s
  BY DEF First
<1>7. Total(table, s) \in Nat
  BY <1>4, <1>5, <1>6
<1>8. ASSUME NEW x \in s
      PROVE  Total(table, s) = table[x].quantity + Total(table, s \ {x})
  <2> DEFINE c == First(s)
  <2>1. c \in s /\ Total(table, s) = table[c].quantity + Total(table, s \ {c})
    BY <1>5, <1>6, <1>8
  <2>2. CASE x # c
    <3> DEFINE rest == (s \ {x}) \ {c}
    <3>1. (s \ {c}) \ {x} = rest /\ x \in s \ {c} /\ c \in s \ {x}
      BY <2>1, <2>2
    <3>2. /\ Total(table, s \ {c}) = table[x].quantity + Total(table, rest)
          /\ Total(table, s \ {x}) = table[c].quantity + Total(table, rest)
      BY <1>4, <2>1, <3>1
    <3>3. Total(table, rest) \in Nat
      <4>1. s \ {x} \in SUBSET S /\ Cardinality(s \ {x}) < Cardinality(s)
        BY <1>3
      <4>2. /\ rest \in SUBSET S /\ Cardinality(rest) < Cardinality(s \ {x})
            /\ Cardinality(s \ {x}) \in Nat /\ Cardinality(rest) \in Nat
        <5>1. rest \in SUBSET S
          BY <4>1
        <5>2. IsFiniteSet(s \ {x})
          BY <1>1, <4>1
        <5>3. /\ Cardinality(rest) \in Nat /\ Cardinality(s \ {x}) \in Nat
              /\ Cardinality(s \ {x}) = Cardinality(rest) + 1
          BY <3>1, <5>2, OneLess
        <5> QED
          BY <5>1, <5>3
      <4>3. Good(rest)
        <5>1. s \in SUBSET S /\ Cardinality(s) \in Nat
          BY <1>1, <1>2
        <5>2. Cardinality(rest) < Cardinality(s)
          BY <4>1, <4>2, <5>1
        <5>3. rest \notin Bad
          <6> HIDE DEF Bad, rest
          <6> QED
            BY <1>2, <4>2, <5>1, <5>2
        <5> QED
          BY <4>2, <5>3
      <4> QED
        BY <4>3
    <3>4. table[x].quantity \in Nat /\ table[c].quantity \in Nat
      BY <1>2, <2>1
    <3> QED
      BY <2>1, <3>2, <3>3, <3>4
  <2> QED
    BY <2>1, <2>2
<1> QED
  BY <1>2, <1>7, <1>8

----------------------------------------------------------------------------
(* The quantity held *)

LEMMA HoldingsAreTotals ==
    /\ HoldingsMatchOrders <=>
        \A h \in Holdings : Held(position[h]) =
            Total(orders, ExecutedFor(h, "buy")) - Total(orders, ExecutedFor(h, "sell"))
    /\ HoldingsMatchOrders' <=>
        \A h \in Holdings : Held(position'[h]) =
            Total(orders', ExecutedFor(h, "buy")') - Total(orders', ExecutedFor(h, "sell")')
<1>1. HoldingsMatchOrders <=>
        \A h \in Holdings : Held(position[h]) =
            Total(orders, ExecutedFor(h, "buy")) - Total(orders, ExecutedFor(h, "sell"))
  BY DEF HoldingsMatchOrders, Total, MapThenSumSet, MapThenFoldSet
<1>2. HoldingsMatchOrders' <=>
        \A h \in Holdings : Held(position'[h]) =
            Total(orders', ExecutedFor(h, "buy")') - Total(orders', ExecutedFor(h, "sell")')
  BY DEF HoldingsMatchOrders, Total, MapThenSumSet, MapThenFoldSet
<1> QED
  BY <1>1, <1>2

(* Only finitely many orders have been executed for a holding. *)
FinitelyExecuted ==
    \A h \in Holdings, side \in OrderSide : IsFiniteSet(ExecutedFor(h, side))

LEMMA HoldingsKept ==
    ASSUME DatabaseTypeOK, DatabaseTypeOK', FeedTypeOK,
           FinitelyExecuted, HoldingsMatchOrders, AtomicStep
    PROVE  FinitelyExecuted' /\ HoldingsMatchOrders'
<1> USE DEF IsExecuted, OrderSide
<1>1. /\ \A h \in Holdings, side \in OrderSide : IsFiniteSet(ExecutedFor(h, side))
      /\ \A h \in Holdings : Held(position[h]) =
            Total(orders, ExecutedFor(h, "buy")) - Total(orders, ExecutedFor(h, "sell"))
  BY HoldingsAreTotals DEF FinitelyExecuted
<1>2. \A h \in Holdings, side \in OrderSide : \A z \in ExecutedFor(h, side) :
        orders[z].quantity \in Nat
  <2> SUFFICES ASSUME NEW z \in OrderIds, orders[z] # Null
               PROVE  orders[z].quantity \in Nat
    BY DEF ExecutedFor
  <2>1. orders[z] \in OrderRow
    BY DEF DatabaseTypeOK
  <2> QED
    BY <2>1 DEF OrderRow
<1>3. CASE Unbooked
  <2>1. \A h \in Holdings, side \in OrderSide :
            /\ ExecutedFor(h, side)' = ExecutedFor(h, side)
            /\ \A z \in ExecutedFor(h, side) : orders'[z] = orders[z]
    BY <1>3 DEF Unbooked, ExecutedFor
  <2>2. \A h \in Holdings, side \in OrderSide :
            Total(orders', ExecutedFor(h, side)') = Total(orders, ExecutedFor(h, side))
    BY <1>1, <2>1, TotalSame
  <2>3. \A h \in Holdings : Held(position'[h]) = Held(position[h])
    BY <1>3 DEF Unbooked
  <2>4. FinitelyExecuted'
    BY <1>1, <2>1 DEF FinitelyExecuted
  <2> QED
    BY <1>1, <2>2, <2>3, <2>4, HoldingsAreTotals
<1>4. CASE \E o \in OrderIds, order \in OrderRow, p \in Prices : BooksOnce(o, order, p)
  <2>1. PICK o \in OrderIds, order \in OrderRow, p \in Prices : BooksOnce(o, order, p)
    BY <1>4
  <2> DEFINE x == Holding(order)
             n == order.quantity
             after == AfterFill(position[x], order, p)
  <2>2. /\ ~IsExecuted(o) /\ orders' = [orders EXCEPT ![o] = Executed(order, p)]
        /\ ~CannotDeliver(position[x], order)
        /\ \A h \in Holdings : h # x => position'[h] = position[h]
        /\ position'[x] # Null
        /\ position'[x].quantity = after.quantity
    BY <2>1 DEF BooksOnce
  <2>3. x \in Holdings /\ n \in Nat \ {0} /\ order.side \in OrderSide
    <3>1. n \in Nat \ {0} /\ order.side \in OrderSide
      BY DEF OrderRow
    <3>2. order.user \in Users /\ order.symbol \in Symbols
      BY DEF OrderRow
    <3> QED
      BY <3>1, <3>2 DEF Holding
  <2>4. /\ orders'[o] # Null /\ orders'[o].status = "executed"
        /\ orders'[o].side = order.side /\ Holding(orders'[o]) = x
        /\ orders'[o].quantity = n
        /\ \A z \in OrderIds : z # o => orders'[z] = orders[z]
    <3>1. orders'[o] = Executed(order, p) /\ \A z \in OrderIds : z # o => orders'[z] = orders[z]
      BY <2>2 DEF DatabaseTypeOK
    <3>2. Executed(order, p) \in OrderRow /\ SameTerms(order, Executed(order, p))
      BY ExecutedType
    <3>3. Executed(order, p).status = "executed"
      BY DEF Executed, OrderRow
    <3> QED
      BY <3>1, <3>2, <3>3, NullAssumption DEF SameTerms, Holding
  <2>5. /\ Held(position[x]) \in Nat
        /\ Held(position'[x]) = IF order.side = "buy" THEN Held(position[x]) + n
                                ELSE Held(position[x]) - n
    <3> DEFINE base == IF position[x] = Null THEN EmptyPosition ELSE position[x]
    <3>1. base \in PositionRow /\ base.quantity = Held(position[x])
      BY <2>3, NullAssumption DEF DatabaseTypeOK, EmptyPosition, PositionRow, OptionalPrice, Held
    <3>2. after = IF order.side = "buy"
                  THEN [base EXCEPT !.quantity = @ + n, !.avg_price = AvgPrice(base, n, p)]
                  ELSE [base EXCEPT !.quantity = @ - n]
      BY DEF AfterFill
    <3> HIDE DEF base, after
    <3>3. after.quantity = IF order.side = "buy" THEN base.quantity + n ELSE base.quantity - n
      BY <3>1, <3>2 DEF PositionRow
    <3> QED
      BY <2>2, <3>1, <3>3 DEF Held, PositionRow
  <2> HIDE DEF after, n, x
  <2>6. /\ o \notin ExecutedFor(x, order.side)
        /\ ExecutedFor(x, order.side)' = ExecutedFor(x, order.side) \cup {o}
        /\ \A h \in Holdings, side \in OrderSide :
            /\ o \notin ExecutedFor(h, side)
            /\ h # x \/ side # order.side => ExecutedFor(h, side)' = ExecutedFor(h, side)
    BY <2>2, <2>4 DEF ExecutedFor
  <2>7. \A h \in Holdings, side \in OrderSide :
            Total(orders', ExecutedFor(h, side)) = Total(orders, ExecutedFor(h, side))
    <3> SUFFICES ASSUME NEW h \in Holdings, NEW side \in OrderSide
                 PROVE  Total(orders', ExecutedFor(h, side)) = Total(orders, ExecutedFor(h, side))
      OBVIOUS
    <3>1. \A z \in ExecutedFor(h, side) : orders'[z] = orders[z]
      BY <2>4, <2>6 DEF ExecutedFor
    <3> QED
      BY <1>1, <3>1, TotalSame
  <2>8. FinitelyExecuted'
    BY <1>1, <2>3, <2>6, FS_AddElement DEF FinitelyExecuted
  <2>9. Total(orders', ExecutedFor(x, order.side)') = n + Total(orders, ExecutedFor(x, order.side))
    <3> DEFINE T == ExecutedFor(x, order.side) \cup {o}
    <3>1. \A z \in T : orders'[z].quantity \in Nat
      BY <1>2, <2>3, <2>4, <2>6 DEF ExecutedFor
    <3>2. IsFiniteSet(T)
      BY <1>1, <2>3, FS_AddElement
    <3>3. Total(orders', T) = orders'[o].quantity + Total(orders', T \ {o})
      BY <3>1, <3>2, TotalOf
    <3>4. T \ {o} = ExecutedFor(x, order.side)
      BY <2>6
    <3>5. Total(orders', T) = n + Total(orders, ExecutedFor(x, order.side))
      BY <2>3, <2>4, <2>7, <3>3, <3>4
    <3> QED
      BY <2>6, <3>5
  <2>10. \A h \in Holdings, side \in OrderSide : Total(orders, ExecutedFor(h, side)) \in Nat
    BY <1>1, <1>2, TotalOf
  <2>11. ASSUME NEW h \in Holdings
         PROVE  Held(position'[h]) =
            Total(orders', ExecutedFor(h, "buy")') - Total(orders', ExecutedFor(h, "sell")')
    <3>1. CASE h # x
      BY <1>1, <2>2, <2>6, <2>7, <3>1
    <3>2. CASE h = x /\ order.side = "buy"
      <4>1. /\ Total(orders', ExecutedFor(h, "sell")') = Total(orders, ExecutedFor(h, "sell"))
            /\ Total(orders', ExecutedFor(h, "buy")') = n + Total(orders, ExecutedFor(h, "buy"))
        BY <2>6, <2>7, <2>9, <3>2
      <4> QED
        BY <1>1, <2>3, <2>5, <2>10, <3>2, <4>1
    <3>3. CASE h = x /\ order.side = "sell"
      <4>1. /\ Total(orders', ExecutedFor(h, "buy")') = Total(orders, ExecutedFor(h, "buy"))
            /\ Total(orders', ExecutedFor(h, "sell")') = n + Total(orders, ExecutedFor(h, "sell"))
        BY <2>6, <2>7, <2>9, <3>3
      <4> QED
        BY <1>1, <2>3, <2>5, <2>10, <3>3, <4>1
    <3> QED
      BY <2>3, <3>1, <3>2, <3>3
  <2>12. HoldingsMatchOrders'
    BY <2>11, HoldingsAreTotals
  <2> QED
    BY <2>8, <2>12
<1> QED
  BY <1>3, <1>4, AtomicCases

(* What is held of a symbol is what the executed orders bought of it less  *)
(* what they sold: _buy and _sell, _execute_order and _try_execute lose no *)
(* fill when their transactions write one row.                             *)
THEOREM HoldingsAddUp == Spec => []HoldingsMatchOrders
<1>1. Init => FinitelyExecuted /\ HoldingsMatchOrders
  <2> SUFFICES ASSUME Init
               PROVE  FinitelyExecuted /\ HoldingsMatchOrders
    OBVIOUS
  <2>1. \A h \in Holdings, side \in OrderSide : ExecutedFor(h, side) = {}
    BY DEF Init, DatabaseInit, ExecutedFor, IsExecuted
  <2>2. Total(orders, {}) = 0
    BY FS_EmptySet, TotalFirst
  <2>3. \A h \in Holdings : Held(position[h]) = 0
    BY DEF Init, DatabaseInit, Held
  <2>4. FinitelyExecuted
    BY <2>1, FS_EmptySet DEF FinitelyExecuted
  <2>5. \A h \in Holdings : Held(position[h]) =
            Total(orders, ExecutedFor(h, "buy")) - Total(orders, ExecutedFor(h, "sell"))
    BY <2>1, <2>2, <2>3 DEF OrderSide
  <2> QED
    BY <2>4, <2>5, HoldingsAreTotals
<1>2. OrderInv /\ OrderInv' /\ FinitelyExecuted /\ HoldingsMatchOrders /\ [Next]_vars
        => FinitelyExecuted' /\ HoldingsMatchOrders'
  BY OrderNext, HoldingsKept DEF OrderInv, MoneyInv, IInv, TypeOK
<1> QED
  BY <1>1, <1>2, OrderInvariant, PTL DEF Spec
=============================================================================
