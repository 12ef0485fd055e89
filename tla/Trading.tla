------------------------------ MODULE Trading ------------------------------
(* The running system: HTTP order and update-sl requests, the subscribers  *)
(* that match orders, the stop-loss engine and the market feed, over one   *)
(* database.  The module adds no behaviour of its own; it composes the     *)
(* components and states what they must keep together.                     *)
EXTENDS OrderService, OrderMatching, StopLoss, StopEditor, FiniteSetsExt

vars == <<dbVars, feedVars, req, mat, stp, edit>>

TypeOK ==
    /\ DatabaseTypeOK /\ FeedTypeOK
    /\ RequestTypeOK /\ MatcherTypeOK /\ EngineTypeOK /\ EditorTypeOK

Init ==
    /\ DatabaseInit /\ FeedInit
    /\ RequestInit /\ MatcherInit /\ EngineInit /\ EditorInit

RequestMoves(r) == RequestStep(r) /\ UNCHANGED <<feedVars, mat, stp, edit>>
MatcherMoves(m) == MatcherStep(m) /\ UNCHANGED <<req, stp, edit>>
EngineMoves(e) == EngineStep(e) /\ UNCHANGED <<req, mat, edit>>
EditorMoves(d) == EditorStep(d) /\ UNCHANGED <<feedVars, req, mat, stp>>
PublisherMoves == PublisherStep /\ UNCHANGED <<dbVars, req, mat, stp, edit>>

(* All that the bounds allow has happened, and the server waits for more.  *)
(* Any other state without a successor is a deadlock that TLC reports.     *)
Quiesced ==
    /\ outbox = Null /\ Len(feed) = MaxTicks
    /\ \A r \in RequestIds : req[r].pc = "done"
    /\ \A d \in Editors : edit[d].pc = "done"
    /\ \A m \in Matchers : mat[m].pc = "listen" /\ cursor[m] = Len(feed)
    /\ \A e \in StopEngines :
        stp[e].pc = "crashed" \/ (stp[e].pc = "listen" /\ cursor[e] = Len(feed))

Next ==
    \/ \E r \in RequestIds : RequestMoves(r)
    \/ \E m \in Matchers : MatcherMoves(m)
    \/ \E e \in StopEngines : EngineMoves(e)
    \/ \E d \in Editors : EditorMoves(d)
    \/ PublisherMoves
    \/ Quiesced /\ UNCHANGED vars

Spec == Init /\ [][Next]_vars

(* A request that has arrived, a subscriber with a tick to handle and a    *)
(* started transaction are always run on by the event loop, and PostgreSQL *)
(* grants a row lock once it is free.  Nothing obliges a user to send a    *)
(* request, the market to tick or a connection to be restored.             *)
Fairness ==
    /\ \A r \in RequestIds :
        WF_vars(req[r].pc # "new" /\ RequestMoves(r))
    /\ \A m \in Matchers :
        WF_vars((ReceiveTick(m) \/ (MatchStep(m) /\ UNCHANGED feedVars))
                /\ UNCHANGED <<req, stp, edit>>)
    /\ \A e \in StopEngines :
        WF_vars((EngineReceives(e) \/ (SaleStep(e) /\ UNCHANGED feedVars))
                /\ UNCHANGED <<req, mat, edit>>)
    /\ \A d \in Editors :
        WF_vars(edit[d].pc # "new" /\ EditorMoves(d))

FairSpec == Spec /\ Fairness

----------------------------------------------------------------------------
(* Money *)

(* No balance and no holding ever becomes negative, however market orders, *)
(* matched orders and stop sales of one user interleave.                   *)
NoOverdraft ==
    /\ \A u \in Users : wallet[u] >= 0
    /\ \A h \in Holdings : Held(position[h]) >= 0

SignedAmount(entry) == IF entry.type = "debit" THEN -entry.amount ELSE entry.amount

BalanceBefore(u, i) == IF i = 1 THEN OpeningBalance ELSE ledger[u][i - 1].balance_after

(* The wallet_transactions of a user chain from the opening balance to the *)
(* wallet's balance: each balance_after is the one before plus or minus    *)
(* its amount.  A lost update on a wallet row breaks the chain.            *)
LedgerChains ==
    \A u \in Users :
        /\ wallet[u] = BalanceBefore(u, Len(ledger[u]) + 1)
        /\ \A i \in 1 .. Len(ledger[u]) :
            ledger[u][i].balance_after = BalanceBefore(u, i) + SignedAmount(ledger[u][i])

IsExecuted(o) == orders[o] # Null /\ orders[o].status = "executed"

(* Every executed order has exactly one wallet_transaction, of its user,   *)
(* its value and its direction, and no other order has any: no order is    *)
(* charged twice although several subscribers handle the same tick.        *)
OneEntryPerExecution ==
    /\ \A u \in Users : \A i \in 1 .. Len(ledger[u]) :
        LET entry == ledger[u][i]
            order == orders[entry.reference_id]
        IN  /\ IsExecuted(entry.reference_id)
            /\ order.user = u
            /\ order.order_value = entry.amount
            /\ (order.side = "buy") = (entry.type = "debit")
    /\ \A u \in Users : \A i, j \in 1 .. Len(ledger[u]) :
        ledger[u][i].reference_id = ledger[u][j].reference_id => i = j
    /\ \A o \in OrderIds : IsExecuted(o) =>
        \E i \in 1 .. Len(ledger[orders[o].user]) :
            ledger[orders[o].user][i].reference_id = o

ExecutedFor(h, side) ==
    {o \in OrderIds : IsExecuted(o) /\ Holding(orders[o]) = h /\ orders[o].side = side}

(* The quantity held is what the executed orders bought less what they     *)
(* sold: no fill is lost when a second transaction writes the same row.    *)
HoldingsMatchOrders ==
    LET Quantity(o) == orders[o].quantity IN
    \A h \in Holdings :
        Held(position[h]) = MapThenSumSet(Quantity, ExecutedFor(h, "buy"))
                          - MapThenSumSet(Quantity, ExecutedFor(h, "sell"))

(* The average price of a holding never leaves the range of the prices     *)
(* that its buys were executed at, whatever rounding has accumulated.      *)
AverageWithinBuys ==
    \A h \in Holdings :
        Held(position[h]) > 0 =>
            \E lo, hi \in ExecutedFor(h, "buy") :
                orders[lo].price <= position[h].avg_price
                /\ position[h].avg_price <= orders[hi].price

----------------------------------------------------------------------------
(* Locks *)

ReadsCurrent ==
    \A s \in Sessions :
        /\ txn[s].wallet # Null => txn[s].balance = wallet[txn[s].wallet]
        /\ txn[s].position # Null => txn[s].row = position[txn[s].position]

InsertsSucceed ==
    /\ \A r \in RequestIds : req[r].pc = "commit" =>
        ~InsertCollides(r, Holding(req[r].order))
    /\ \A m \in Matchers : mat[m].pc = "commit" =>
        ~InsertCollides(m, Holding(orders[mat[m].order]))

(* What a transaction read under its locks is still what the tables hold,  *)
(* up to its commit; and a holding that it found missing and will insert   *)
(* is still missing, although no row lock protects an absent row.          *)
LockedReadsCurrent == ReadsCurrent /\ InsertsSucceed

WantsOrder(s, o) ==
    s \in Matchers /\ mat[s].pc \in {"trigger", "order"} /\ mat[s].order = o

WantsWallet(s, u) ==
    \/ s \in RequestIds /\ req[s].pc = "wallet" /\ req[s].order.user = u
    \/ s \in Matchers /\ mat[s].pc = "wallet" /\ orders[mat[s].order].user = u
    \/ s \in StopEngines /\ stp[s].pc = "wallet" /\ stp[s].user = u

WantsPosition(s, h) ==
    \/ s \in RequestIds /\ req[s].pc = "position" /\ Holding(req[s].order) = h
    \/ s \in Matchers /\ mat[s].pc = "position" /\ Holding(orders[mat[s].order]) = h
    \/ s \in StopEngines /\ stp[s].pc = "position" /\ Candidate(s) = h

WaitsFor(s, t) ==
    \/ \E o \in OrderIds : WantsOrder(s, o) /\ txn[t].order = o
    \/ \E u \in Users : WantsWallet(s, u) /\ txn[t].wallet = u
    \/ \E h \in Holdings : WantsPosition(s, h) /\ txn[t].position = h

LockLevel(s) ==
    CASE \E o \in OrderIds : WantsOrder(s, o) -> 1
      [] \E u \in Users : WantsWallet(s, u) -> 2
      [] \E h \in Holdings : WantsPosition(s, h) -> 3
      [] OTHER -> 4

(* The lock order of the docstrings, order before wallet before position:  *)
(* a session only ever waits for one that wants a lock further on, so the  *)
(* waits-for graph has no cycle and PostgreSQL never aborts a deadlock.    *)
WaitsAscend ==
    \A s, t \in Sessions : WaitsFor(s, t) => LockLevel(s) < LockLevel(t)

----------------------------------------------------------------------------
(* Orders and prices *)

TicksOf(y) == {i \in 1 .. Len(feed) : feed[i].symbol = y}

(* A stop-limit order is triggered, filled or turned down only once a      *)
(* published tick has hit its trigger.                                     *)
StopWaitsForTrigger ==
    \A o \in OrderIds :
        (/\ orders[o] # Null
         /\ orders[o].order_type = "stop_limit"
         /\ orders[o].status # "pending")
        => \E i \in TicksOf(orders[o].symbol) :
            Triggers(orders[o].side, orders[o].trigger_price, feed[i].price)

(* The prices shown: published ticks and the one about to be. *)
Quoted == [y \in Symbols |->
    {feed[i].price : i \in TicksOf(y)}
    \cup (IF outbox # Null /\ outbox.symbol = y THEN {outbox.price} ELSE {})]

Atomic == INSTANCE AtomicTrading WITH quoted <- Quoted

(* The locking transactions implement the atomic specification: each takes *)
(* effect at its commit, against what is in force at that moment.          *)
ImplementsAtomic == Atomic!Spec

----------------------------------------------------------------------------
(* Liveness, under FairSpec *)

(* A request, once accepted, is answered: it never waits for ever on rows  *)
(* that other sessions lock.                                               *)
RequestsAnswered ==
    \A r \in RequestIds : req[r].pc # "new" ~> req[r].pc = "done"

Waiting(o) == orders[o] # Null /\ orders[o].status \in Active

CrossedBy(o, i) ==
    /\ Waiting(o)
    /\ i \in TicksOf(orders[o].symbol)
    /\ Executable(orders[o].side, orders[o].limit_price, feed[i].price)
    /\ \/ orders[o].order_type = "limit"
       \/ orders[o].status = "triggered"
       \/ Triggers(orders[o].side, orders[o].trigger_price, feed[i].price)

(* An order that is waiting when a tick that crosses it has yet to reach   *)
(* some subscriber is in the end executed or failed, with no client of the *)
(* WebSocket needed, as long as no statement fails and no tick is lost.    *)
CrossedOrdersSettle ==
    \A o \in RequestIds, m \in Matchers, i \in 1 .. MaxTicks :
        cursor[m] < i /\ CrossedBy(o, i) ~> ~Waiting(o)

InForce(h, i) ==
    /\ Held(position[h]) > 0
    /\ i \in TicksOf(h[2])
    /\ StopHit(position[h], feed[i].price)

(* A stop or target in force that a tick on its way to the engine hits is  *)
(* in the end acted upon: the position is closed or the stops are moved.   *)
StopsFire ==
    \A h \in Holdings, e \in StopEngines, i \in 1 .. MaxTicks :
        cursor[e] < i /\ InForce(h, i) ~> ~InForce(h, i)

----------------------------------------------------------------------------
(* A statement of the repository that the code does not keep *)

(* "stop_loss must be less than target_price." *)
StopBelowTarget ==
    \A h \in Holdings :
        position[h] # Null /\ position[h].stop_loss # Null /\ position[h].target_price # Null
            => position[h].stop_loss < position[h].target_price
=============================================================================
