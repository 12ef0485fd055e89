---------------------------- MODULE WalletService ----------------------------
(* credit, debit, create_wallet and get_transactions over the wallets and  *)
(* wallet_transactions tables.  Balances are hundredths of a rupee, as the *)
(* columns store them; amounts come in thousandths, as any Decimal may be  *)
(* finer than the columns.                                                 *)
EXTENDS Integers, Sequences

CONSTANTS Calls,           \* calls of the service; also their reference_id
          Users, Unopened, \* users, and those that have no wallet at first
          OpeningBalance,  \* what create_user put in the other wallets
          Amounts,         \* amounts asked for, in thousandths
          MaxMoney,        \* the largest value of a Numeric(18, 2) column
          Null, DbMayFail

ASSUME UsersAssumption == Unopened \subseteq Users
ASSUME MoneyAssumption == /\ MaxMoney \in Nat /\ OpeningBalance \in 0..MaxMoney
                          /\ Amounts \subseteq Int /\ Null \notin Int
ASSUME DbMayFailAssumption == DbMayFail \in BOOLEAN

VARIABLES
    call,    \* [Calls -> where it is, its arguments, what it read, its answer]
    wallet,  \* [Users -> committed balance, or Null]
    ledger,  \* [Users -> committed entries, in commit order]
    clock    \* the server's time: grows with every created_at it gives out

vars == <<call, wallet, ledger, clock>>

Bookings == {"credit", "debit"}
Arguments == [kind : Bookings, user : Users, amount : Amounts]
                \cup [kind : {"create", "history"}, user : Users, amount : {0}]
Answers == {"none", "booked", "created", "listed", "value_error",
            "not_found", "insufficient", "error"}
CallState == [pc : {"idle", "lock", "flush", "commit", "refresh", "insert", "list", "done"},
              args : Arguments, seen : Int, at : Nat, answer : Answers]
WalletEntry == [type : Bookings, amount : Nat, balance_after : Int,
                reference_id : Calls, created_at : Nat]

TypeOK ==
    /\ call \in [Calls -> CallState]
    /\ wallet \in [Users -> 0..MaxMoney \cup {Null}]
    /\ ledger \in [Users -> Seq(WalletEntry)]
    /\ clock \in Nat

Init ==
    /\ call \in [Calls -> {[pc |-> "idle", args |-> a, seen |-> 0, at |-> 0,
                            answer |-> "none"] : a \in Arguments}]
    /\ wallet = [u \in Users |-> IF u \in Unopened THEN Null ELSE OpeningBalance]
    /\ ledger = [u \in Users |-> <<>>]
    /\ clock = 0

At(c, pc) == call[c].pc = pc
User(c) == call[c].args.user
Kind(c) == call[c].args.kind

Goto(c, pc) == call' = [call EXCEPT ![c].pc = pc]
Answer(c, answer) == call' = [call EXCEPT ![c].pc = "done", ![c].answer = answer]

(* Left by an exception, a call is rolled back by get_db. *)
Refuse(c, answer) == Answer(c, answer) /\ UNCHANGED <<wallet, ledger, clock>>

----------------------------------------------------------------------------
(* amount.quantize(0.01): to the nearest hundredth, ties to even. *)
Quantize(amount) ==
    LET q == amount \div 10  r == amount % 10
    IN  IF r > 5 \/ (r = 5 /\ q % 2 = 1) THEN q + 1 ELSE q

Booked(c) == Quantize(call[c].args.amount)
NewBalance(c) == call[c].seen + (IF Kind(c) = "credit" THEN Booked(c) ELSE -Booked(c))

(* The sign is tested before the amount is rounded. *)
Submit(c) ==
    /\ At(c, "idle")
    /\ IF Kind(c) \in Bookings /\ call[c].args.amount <= 0
         THEN Refuse(c, "value_error")
         ELSE /\ Goto(c, CASE Kind(c) \in Bookings -> "lock"
                           [] Kind(c) = "create" -> "insert"
                           [] OTHER -> "list")
              /\ UNCHANGED <<wallet, ledger, clock>>

Holds(c, u) == User(c) = u /\ Kind(c) \in Bookings /\ call[c].pc \in {"flush", "commit"}

(* Mutant of WalletFree: SELECT without FOR UPDATE. *)
NeverLocked(u) == u \in Users
WalletFree(u) == \A c \in Calls : ~Holds(c, u)

(* Mutant of CannotPay: only an empty wallet is refused. *)
CannotPayEmpty(c) == Kind(c) = "debit" /\ wallet[User(c)] <= 0
CannotPay(c) == Kind(c) = "debit" /\ wallet[User(c)] < Booked(c)

(* SELECT ... FOR UPDATE, which sees no uncommitted wallet. *)
LockWallet(c) ==
    /\ At(c, "lock")
    /\ WalletFree(User(c))
    /\ CASE wallet[User(c)] = Null -> Refuse(c, "not_found")
         [] wallet[User(c)] # Null /\ CannotPay(c) -> Refuse(c, "insufficient")
         [] OTHER -> /\ call' = [call EXCEPT ![c].pc = "flush", ![c].seen = wallet[User(c)]]
                     /\ UNCHANGED <<wallet, ledger, clock>>

(* The INSERT and the UPDATE; created_at is the time of the flush.  The    *)
(* column rejects a balance that is too large.                             *)
Flush(c) ==
    /\ At(c, "flush")
    /\ IF NewBalance(c) > MaxMoney THEN Refuse(c, "error")
       ELSE /\ clock' = clock + 1
            /\ call' = [call EXCEPT ![c].pc = "commit", ![c].at = clock + 1]
            /\ UNCHANGED <<wallet, ledger>>

Commit(c) ==
    /\ At(c, "commit") /\ Kind(c) \in Bookings
    /\ wallet' = [wallet EXCEPT ![User(c)] = NewBalance(c)]
    /\ ledger' = [ledger EXCEPT ![User(c)] = Append(@,
            [type |-> Kind(c), amount |-> Booked(c), balance_after |-> NewBalance(c),
             reference_id |-> c, created_at |-> call[c].at])]
    /\ Goto(c, "refresh")
    /\ UNCHANGED clock

Refresh(c) ==
    At(c, "refresh") /\ Refuse(c, IF Kind(c) = "create" THEN "created" ELSE "booked")

(* create_wallet: the INSERT waits for an uncommitted wallet of the user   *)
(* and fails on the unique index if there is a committed one.              *)
InsertWallet(c) ==
    /\ At(c, "insert")
    /\ \A d \in Calls : ~(At(d, "commit") /\ Kind(d) = "create" /\ User(d) = User(c))
    /\ IF wallet[User(c)] # Null THEN Refuse(c, "error")
       ELSE Goto(c, "commit") /\ UNCHANGED <<wallet, ledger, clock>>

CommitWallet(c) ==
    /\ At(c, "commit") /\ Kind(c) = "create"
    /\ wallet' = [wallet EXCEPT ![User(c)] = 0]
    /\ Goto(c, "refresh")
    /\ UNCHANGED <<ledger, clock>>

(* GET /wallet/transactions: 404 without a wallet, else the entries. *)
ListEntries(c) ==
    At(c, "list") /\ Refuse(c, IF wallet[User(c)] = Null THEN "not_found" ELSE "listed")

(* Mutant of Fails: a call that did not see its commit through is retried. *)
FailsAndRetries(c) ==
    /\ DbMayFail /\ call[c].pc \notin {"idle", "done"}
    /\ IF At(c, "refresh") /\ Kind(c) \in Bookings
         THEN Goto(c, "lock") /\ UNCHANGED <<wallet, ledger, clock>>
         ELSE Refuse(c, "error")

(* A statement raises, or the acknowledgement of the commit is lost.       *)
Fails(c) == DbMayFail /\ call[c].pc \notin {"idle", "done"} /\ Refuse(c, "error")

Step(c) ==
    \/ Submit(c) \/ LockWallet(c) \/ Flush(c) \/ Commit(c) \/ Refresh(c)
    \/ InsertWallet(c) \/ CommitWallet(c) \/ ListEntries(c) \/ Fails(c)

Next == \E c \in Calls : Step(c)

Spec == Init /\ [][Next]_vars

----------------------------------------------------------------------------
FirstBalance(u) == IF u \in Unopened THEN 0 ELSE OpeningBalance
BalanceBefore(u, i) == IF i = 1 THEN FirstBalance(u) ELSE ledger[u][i - 1].balance_after
Signed(e) == IF e.type = "credit" THEN e.amount ELSE -e.amount

(* GET /wallet/transactions sorts by created_at, a time that the server    *)
(* takes before the commit (wallet_service.py:37): that order is the order *)
(* of the commits, each entry continues the balance of the one before it,  *)
(* and the newest one shows the balance of the wallet.                     *)
HistoryChains ==
    \A u \in Users :
        /\ \A i \in DOMAIN ledger[u] :
              /\ ledger[u][i].balance_after = BalanceBefore(u, i) + Signed(ledger[u][i])
              /\ i > 1 => ledger[u][i].created_at > ledger[u][i - 1].created_at
        /\ wallet[u] = IF ledger[u] = <<>> /\ wallet[u] = Null THEN Null
                       ELSE BalanceBefore(u, Len(ledger[u]) + 1)

EntriesOf(c) == {i \in DOMAIN ledger[User(c)] : ledger[User(c)][i].reference_id = c}

(* A call books once at most, and as it answers: booked is booked, refused *)
(* is not, and a created wallet stays, whatever fails in between           *)
(* (wallet_service.py:74, wallet_service.py:114).                          *)
AnswersTrue ==
    \A c \in Calls :
        /\ \A i, j \in EntriesOf(c) : i = j
        /\ call[c].answer = "booked" => EntriesOf(c) # {}
        /\ call[c].answer \in {"value_error", "not_found", "insufficient"} => EntriesOf(c) = {}
        /\ call[c].answer = "created" => wallet[User(c)] # Null

----------------------------------------------------------------------------
(* What the invariants rest on.                                            *)

Inserts(c, u) == User(c) = u /\ Kind(c) = "create" /\ At(c, "commit")

(* One transaction at a time has the wallet of a user locked or inserted.  *)
OneWriter ==
    \A c, d \in Calls, u \in Users :
        (Holds(c, u) /\ Holds(d, u)) \/ (Inserts(c, u) /\ Inserts(d, u)) => c = d

(* What a booking saw under the lock is still the balance, and pays for it. *)
SeenInForce ==
    \A c \in Calls : Holds(c, User(c)) =>
        /\ call[c].args.amount > 0
        /\ wallet[User(c)] = call[c].seen
        /\ NewBalance(c) >= 0
        /\ At(c, "commit") => /\ NewBalance(c) <= MaxMoney
                              /\ call[c].at <= clock
                              /\ \A i \in DOMAIN ledger[User(c)] :
                                    ledger[User(c)][i].created_at < call[c].at

WalletAbsent ==
    /\ \A c \in Calls : Inserts(c, User(c)) => wallet[User(c)] = Null
    /\ \A u \in Users : wallet[u] = Null => u \in Unopened

TimesPast == \A u \in Users : \A i \in DOMAIN ledger[u] : ledger[u][i].created_at <= clock

(* Where a call is tells what it has committed. *)
Progress ==
    \A c \in Calls :
        /\ At(c, "done") <=> call[c].answer # "none"
        /\ At(c, "lock") => Kind(c) \in Bookings /\ call[c].args.amount > 0
        /\ At(c, "flush") => Kind(c) \in Bookings
        /\ At(c, "insert") => Kind(c) = "create"
        /\ EntriesOf(c) # {} => call[c].pc \in {"refresh", "done"} /\ Kind(c) \in Bookings
        /\ At(c, "refresh") => IF Kind(c) = "create" THEN wallet[User(c)] # Null
                               ELSE Kind(c) \in Bookings /\ EntriesOf(c) # {}

WalletInv ==
    /\ TypeOK
    /\ OneWriter
    /\ SeenInForce
    /\ WalletAbsent
    /\ TimesPast
    /\ Progress
    /\ HistoryChains
    /\ AnswersTrue
=============================================================================
