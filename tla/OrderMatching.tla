--------------------------- MODULE OrderMatching ---------------------------
(* process_price_update, run for every tick by each of its subscribers:    *)
(* the matching engine and, while market clients are connected, the        *)
(* WebSocket listener.  Each order is triggered or executed in its own     *)
(* transaction, which locks order, wallet and position in that order.      *)
EXTENDS Database, MarketFeed

VARIABLE mat   \* [Matchers -> where process_price_update is]

MatcherPc == {"listen", "scan", "trigger", "order", "wallet", "position", "commit"}
MatcherState == [pc : MatcherPc, phase : {1, 2},
                 todo : SUBSET OrderIds, order : OrderIds \cup {Null}]
Listening == [pc |-> "listen", phase |-> 1, todo |-> {}, order |-> Null]
Scanning(phase) == [Listening EXCEPT !.pc = "scan", !.phase = phase]

MatcherTypeOK == mat \in [Matchers -> MatcherState]

MatcherInit == mat = [m \in Matchers |-> Listening]

MatchPrice(m) == CurrentTick(m).price
Crosses(m, o) == Executable(orders[o].side, orders[o].limit_price, MatchPrice(m))

----------------------------------------------------------------------------
(* MatchingEngine._run and ConnectionManager._redis_listener take a tick. *)
ReceiveTick(m) ==
    /\ mat[m].pc = "listen"
    /\ TakeTick(m)
    /\ mat' = [mat EXCEPT ![m] = Scanning(1)]
    /\ UNCHANGED dbVars

(* The rows _scan selects. *)
ActiveOrders(y) ==
    {o \in OrderIds : /\ orders[o] # Null
                      /\ orders[o].symbol = y
                      /\ orders[o].status \in Active}

(* Phase 1 acts on pending stop-limit orders whose trigger is hit. *)
ToTrigger(m, o) ==
    /\ orders[o].order_type = "stop_limit"
    /\ orders[o].status = "pending"
    /\ Triggers(orders[o].side, orders[o].trigger_price, MatchPrice(m))

(* Mutant of ToExecute: the order's type and status are not looked at. *)
ToExecuteAny(m, o) == Crosses(m, o)

(* Phase 2 acts on pending limit and triggered stop-limit orders that cross. *)
ToExecute(m, o) ==
    /\ \/ orders[o].order_type = "limit" /\ orders[o].status = "pending"
       \/ orders[o].order_type = "stop_limit" /\ orders[o].status = "triggered"
    /\ Crosses(m, o)

(* The candidates that the loop of a phase acts on, judged on the snapshot. *)
Selected(m, phase) ==
    {o \in ActiveOrders(CurrentTick(m).symbol) :
        IF phase = 1 THEN ToTrigger(m, o) ELSE ToExecute(m, o)}

(* Mutant of Proceed: the call returns after phase 1. *)
ProceedOnce(m, rest) ==
    \/ \E o \in rest :
        mat' = [mat EXCEPT ![m] =
            [pc |-> IF mat[m].phase = 1 /\ ~Crosses(m, o) THEN "trigger" ELSE "order",
             phase |-> mat[m].phase, todo |-> rest \ {o}, order |-> o]]
    \/ rest = {} /\ mat' = [mat EXCEPT ![m] = Listening]

(* What the loop does once the orders in rest remain: one of them, in the  *)
(* arbitrary order of an unsorted query, else the next phase, else listen. *)
Proceed(m, rest) ==
    LET phase == mat[m].phase IN
    \/ \E o \in rest :
        mat' = [mat EXCEPT ![m] =
            [pc |-> IF phase = 1 /\ ~Crosses(m, o) THEN "trigger" ELSE "order",
             phase |-> phase, todo |-> rest \ {o}, order |-> o]]
    \/ rest = {} /\ phase = 1 /\ mat' = [mat EXCEPT ![m] = Scanning(2)]
    \/ rest = {} /\ phase = 2 /\ mat' = [mat EXCEPT ![m] = Listening]

NextCandidate(m) == Proceed(m, mat[m].todo)
MatchGoTo(m, pc) == mat' = [mat EXCEPT ![m].pc = pc]

(* _scan; in phase 1 an empty result returns from process_price_update. *)
Scan(m) ==
    /\ mat[m].pc = "scan"
    /\ IF mat[m].phase = 1 /\ ActiveOrders(CurrentTick(m).symbol) = {}
       THEN mat' = [mat EXCEPT ![m] = Listening]
       ELSE Proceed(m, Selected(m, mat[m].phase))
    /\ UNCHANGED dbVars

(* Mutant of TriggerOrder: the status is not checked again under the lock. *)
TriggerUnchecked(m) ==
    /\ mat[m].pc = "trigger"
    /\ OrderFree(mat[m].order)
    /\ CommitStatus(m, mat[m].order, "triggered")
    /\ NextCandidate(m)

(* _trigger_order: its transaction locks only the order, so it is one step. *)
TriggerOrder(m) ==
    LET o == mat[m].order IN
    /\ mat[m].pc = "trigger"
    /\ OrderFree(o)
    /\ IF orders[o].status = "pending"
       THEN CommitStatus(m, o, "triggered")
       ELSE UNCHANGED dbVars   \* already mutated by a concurrent call
    /\ NextCandidate(m)

(* Mutant of ExecuteLocksOrder: nor is it here. *)
ExecuteUnchecked(m) ==
    /\ mat[m].pc = "order"
    /\ TakeOrder(m, mat[m].order)
    /\ MatchGoTo(m, "wallet")
    /\ UNCHANGED tables

(* _execute_order, step 1: lock the order and re-verify its status. *)
ExecuteLocksOrder(m) ==
    LET o == mat[m].order IN
    /\ mat[m].pc = "order"
    /\ UNCHANGED tables
    /\ IF orders[o].status \in Active
       THEN TakeOrder(m, o) /\ MatchGoTo(m, "wallet")
       ELSE OrderFree(o) /\ UNCHANGED txn /\ NextCandidate(m)

(* Step 2 and the balance check: an order that cannot be paid for FAILs. *)
ExecuteLocksWallet(m) ==
    LET o == mat[m].order
        order == orders[o] IN
    /\ mat[m].pc = "wallet"
    /\ WalletFree(order.user)
    /\ IF CannotPay(wallet[order.user], order, MatchPrice(m))
       THEN CommitStatus(m, o, "failed") /\ NextCandidate(m)
       ELSE /\ TakeWallet(m, order.user)
            /\ MatchGoTo(m, "position")
            /\ UNCHANGED tables

(* Steps 3 and 4: lock the position; a sale of more than is held FAILs. *)
ExecuteLocksPosition(m) ==
    LET o == mat[m].order
        h == Holding(orders[o]) IN
    /\ mat[m].pc = "position"
    /\ IF CannotDeliver(position[h], orders[o])
       THEN /\ PositionFree(h)
            /\ CommitStatus(m, o, "failed")
            /\ NextCandidate(m)
       ELSE /\ TakePosition(m, h)
            /\ MatchGoTo(m, "commit")
            /\ UNCHANGED tables

(* Steps 5 and 6. *)
ExecuteCommits(m) ==
    LET o == mat[m].order IN
    /\ mat[m].pc = "commit"
    /\ CommitFill(m, o, orders[o], MatchPrice(m))
    /\ NextCandidate(m)

(* An exception in a transaction rolls it back and the loop goes on: the   *)
(* tick is not seen again, and the order keeps the status it had.          *)
ExecuteFails(m) ==
    /\ mat[m].pc \in {"trigger", "order", "wallet", "position", "commit"}
    /\ \/ DbMayFail
       \/ mat[m].pc = "commit" /\ InsertCollides(m, Holding(orders[mat[m].order]))
    /\ Rollback(m)
    /\ NextCandidate(m)

(* An exception in _scan ends process_price_update for this tick. *)
ScanFails(m) ==
    /\ DbMayFail
    /\ mat[m].pc = "scan"
    /\ mat' = [mat EXCEPT ![m] = Listening]
    /\ UNCHANGED dbVars

(* The steps of one call of process_price_update. *)
MatchStep(m) ==
    \/ Scan(m)
    \/ TriggerOrder(m)
    \/ ExecuteLocksOrder(m)
    \/ ExecuteLocksWallet(m)
    \/ ExecuteLocksPosition(m)
    \/ ExecuteCommits(m)
    \/ ExecuteFails(m)
    \/ ScanFails(m)

(* The last market client leaves and the listener task is cancelled at any *)
(* await, mid-transaction or not; a later client starts it at the end of   *)
(* the feed.  A connection that drops and is restored while it listens has *)
(* the same effect.                                                        *)
Resubscribe(m) ==
    /\ FeedMayDrop
    /\ cursor[m] < Len(feed) \/ mat[m].pc # "listen"
    /\ SkipToEnd(m)
    /\ mat' = [mat EXCEPT ![m] = Listening]
    /\ Rollback(m)

MatcherStep(m) ==
    \/ ReceiveTick(m)
    \/ MatchStep(m) /\ UNCHANGED feedVars
    \/ Resubscribe(m)
=============================================================================
