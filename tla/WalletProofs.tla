---------------------------- MODULE WalletProofs ----------------------------
(* Proofs that WalletService keeps wallets and their histories in step,    *)
(* for any number of calls and users and any amounts.                      *)
EXTENDS WalletService, TLAPS

(* A positive amount stays in the column's type when it is rounded. *)
LEMMA QuantizeType ==
    ASSUME NEW a \in Int
    PROVE  Quantize(a) \in Int /\ (a > 0 => Quantize(a) \in Nat)
BY DEF Quantize

(* The parts of a call that its steps read. *)
LEMMA CallType ==
    ASSUME TypeOK, NEW c \in Calls
    PROVE  /\ User(c) \in Users /\ call[c] \in CallState
           /\ Kind(c) \in Bookings \cup {"create", "history"}
           /\ call[c].seen \in Int /\ call[c].at \in Nat /\ call[c].args.amount \in Int
           /\ Booked(c) \in Int /\ NewBalance(c) \in Int
           /\ call[c].args.amount > 0 => Booked(c) \in Nat
<1>1. call[c] \in CallState /\ call[c].args \in Arguments
  BY DEF TypeOK, CallState
<1>2. call[c].args.amount \in Int
  <2>1. CASE call[c].args \in [kind : Bookings, user : Users, amount : Amounts]
    BY <2>1, MoneyAssumption
  <2>2. CASE call[c].args \in [kind : {"create", "history"}, user : Users, amount : {0}]
    BY <2>2
  <2> QED
    BY <1>1, <2>1, <2>2 DEF Arguments
<1>3. Booked(c) \in Int /\ (call[c].args.amount > 0 => Booked(c) \in Nat)
  BY <1>2, QuantizeType DEF Booked
<1>4. call[c].seen \in Int
  BY <1>1 DEF CallState
<1> QED
  BY <1>1, <1>2, <1>3, <1>4 DEF User, Kind, Arguments, NewBalance, CallState

(* The tables are empty of entries at first. *)
LEMMA InitInv == Init => WalletInv
<1> SUFFICES ASSUME Init PROVE WalletInv
  OBVIOUS
<1>1. TypeOK
  BY MoneyAssumption DEF Init, TypeOK, CallState, Answers
<1>2. \A c \in Calls : call[c].pc = "idle" /\ call[c].answer = "none"
  BY DEF Init
<1>3. ASSUME NEW c \in Calls PROVE User(c) \in Users /\ EntriesOf(c) = {}
  <2>1. User(c) \in Users
    BY <1>1, CallType
  <2>2. ledger[User(c)] = <<>> /\ DOMAIN <<>> = {}
    BY <2>1 DEF Init
  <2> QED
    BY <2>1, <2>2 DEF EntriesOf
<1>4. OneWriter /\ SeenInForce /\ WalletAbsent
  <2>1. \A u \in Users : wallet[u] = Null => u \in Unopened
    BY MoneyAssumption DEF Init
  <2> QED
    BY <1>2, <2>1 DEF OneWriter, SeenInForce, WalletAbsent, Holds, Inserts, At
<1>5. TimesPast
  BY DEF Init, TimesPast
<1>6. Progress /\ AnswersTrue
  BY <1>2, <1>3 DEF Progress, AnswersTrue, At
<1>7. HistoryChains
  BY DEF Init, HistoryChains, BalanceBefore, FirstBalance
<1> QED
  BY <1>1, <1>4, <1>5, <1>6, <1>7 DEF WalletInv

(* What depends on the arguments and the tables only. *)
LEMMA SameEntries ==
    ASSUME NEW c \in Calls, call'[c].args = call[c].args, ledger' = ledger
    PROVE  /\ User(c)' = User(c) /\ Kind(c)' = Kind(c) /\ Booked(c)' = Booked(c)
           /\ EntriesOf(c)' = EntriesOf(c)
BY DEF User, Kind, Booked, EntriesOf

(* A step that changes one call only, and neither takes a lock nor goes on *)
(* to a commit.                                                            *)
LEMMA QuietPreserves ==
    ASSUME WalletInv, NEW c \in Calls, NEW s \in CallState, call' = [call EXCEPT ![c] = s],
           s.args = call[c].args, s.seen = call[c].seen, s.at = call[c].at,
           s.pc \in {"lock", "insert", "list", "done"},
           UNCHANGED <<wallet, ledger, clock>>,
           s.pc = "done" <=> s.answer # "none",
           s.pc = "lock" => Kind(c) \in Bookings /\ call[c].args.amount > 0,
           s.pc = "insert" => Kind(c) = "create",
           EntriesOf(c) # {} => s.pc = "done" /\ s.answer \in {"booked", "error"},
           s.answer = "booked" => EntriesOf(c) # {},
           s.answer = "created" => wallet[User(c)] # Null
    PROVE  WalletInv'
<1> USE DEF WalletInv
<1>1. TypeOK'
  BY DEF TypeOK, CallState
<1>2. /\ call'[c] = s
      /\ \A d \in Calls : /\ call'[d].args = call[d].args /\ call'[d].seen = call[d].seen
                          /\ call'[d].at = call[d].at /\ (d # c => call'[d] = call[d])
  BY DEF TypeOK, CallState
<1>3. \A d \in Calls : /\ User(d)' = User(d) /\ Kind(d)' = Kind(d)
                       /\ EntriesOf(d)' = EntriesOf(d) /\ NewBalance(d)' = NewBalance(d)
  BY <1>2, SameEntries DEF NewBalance
<1>4. \A u : \A d \in Calls : (Holds(d, u)' => Holds(d, u)) /\ (Inserts(d, u)' => Inserts(d, u))
  BY <1>2, <1>3 DEF Holds, Inserts, At
<1>5. OneWriter'
  BY <1>4 DEF OneWriter
<1>6. SeenInForce'
  BY <1>2, <1>3, <1>4 DEF SeenInForce, At, Holds
<1>7. WalletAbsent' /\ TimesPast' /\ HistoryChains'
  BY <1>3, <1>4 DEF WalletAbsent, TimesPast, HistoryChains, BalanceBefore
<1>8. Progress'
  BY <1>2, <1>3 DEF Progress, At
<1>9. AnswersTrue'
  BY <1>2, <1>3 DEF AnswersTrue
<1> QED
  BY <1>1, <1>5, <1>6, <1>7, <1>8, <1>9

(* Every exception, and every answer without a commit of this step. *)
LEMMA RefusePreserves ==
    ASSUME WalletInv, NEW c \in Calls, NEW answer \in Answers \ {"none"}, Refuse(c, answer),
           answer \notin {"booked", "error"} => EntriesOf(c) = {},
           answer = "booked" => EntriesOf(c) # {},
           answer = "created" => wallet[User(c)] # Null
    PROVE  WalletInv'
<1> DEFINE s == [call[c] EXCEPT !.pc = "done", !.answer = answer]
<1>1. /\ s \in CallState /\ s.pc = "done" /\ s.answer = answer
      /\ s.args = call[c].args /\ s.seen = call[c].seen /\ s.at = call[c].at
  BY CallType DEF WalletInv, CallState
<1>2. call' = [call EXCEPT ![c] = s] /\ UNCHANGED <<wallet, ledger, clock>>
  BY DEF Refuse, Answer, WalletInv, TypeOK
<1> HIDE DEF s
<1> QED
  BY <1>1, <1>2, QuietPreserves

(* A call that is on its way has booked nothing yet. *)
LEMMA NothingYet ==
    ASSUME WalletInv, NEW c \in Calls, call[c].pc \notin {"refresh", "done"}
    PROVE  EntriesOf(c) = {} /\ call[c].answer = "none"
BY DEF WalletInv, Progress, At

LEMMA SubmitPreserves ==
    ASSUME WalletInv, NEW c \in Calls, Submit(c)
    PROVE  WalletInv'
<1>1. EntriesOf(c) = {} /\ call[c].answer = "none"
  BY NothingYet DEF Submit, At
<1>2. CASE Kind(c) \in Bookings /\ call[c].args.amount <= 0
  BY <1>1, <1>2, RefusePreserves DEF Submit, Answers
<1>3. CASE ~(Kind(c) \in Bookings /\ call[c].args.amount <= 0)
  <2> DEFINE pc == CASE Kind(c) \in Bookings -> "lock"
                     [] Kind(c) = "create" -> "insert"
                     [] OTHER -> "list"
  <2>1. call' = [call EXCEPT ![c].pc = pc] /\ UNCHANGED <<wallet, ledger, clock>>
    BY <1>3 DEF Submit, Goto
  <2>3. call[c].args.amount \in Int /\ call[c] \in CallState
    BY CallType DEF WalletInv
  <2>4. /\ pc \in {"lock", "insert", "list"}
        /\ pc = "lock" => Kind(c) \in Bookings /\ call[c].args.amount > 0
        /\ pc = "insert" => Kind(c) = "create"
    BY <1>3, <2>3 DEF Bookings
  <2> DEFINE s == [call[c] EXCEPT !.pc = pc]
  <2> HIDE DEF pc
  <2>5. /\ s \in CallState /\ s.pc = pc /\ s.answer = "none"
        /\ s.args = call[c].args /\ s.seen = call[c].seen /\ s.at = call[c].at
    BY <1>1, <2>3, <2>4 DEF CallState
  <2>6. call' = [call EXCEPT ![c] = s]
    BY <2>1 DEF WalletInv, TypeOK
  <2> HIDE DEF s
  <2> QED
    BY <1>1, <2>1, <2>4, <2>5, <2>6, QuietPreserves
<1> QED
  BY <1>2, <1>3

(* The lock is free when it is taken, and what is seen under it pays. *)
LEMMA LockPreserves ==
    ASSUME WalletInv, NEW c \in Calls, LockWallet(c)
    PROVE  WalletInv'
<1> USE DEF WalletInv
<1>1. /\ EntriesOf(c) = {} /\ call[c].answer = "none"
      /\ Kind(c) \in Bookings /\ call[c].args.amount > 0
  BY NothingYet DEF LockWallet, At, Progress
<1>2. CASE wallet[User(c)] = Null
  BY <1>1, <1>2, RefusePreserves DEF LockWallet, Answers
<1>3. CASE wallet[User(c)] # Null /\ CannotPay(c)
  BY <1>1, <1>3, RefusePreserves DEF LockWallet, Answers
<1>4. CASE wallet[User(c)] # Null /\ ~CannotPay(c)
  <2>1. /\ call' = [call EXCEPT ![c].pc = "flush", ![c].seen = wallet[User(c)]]
        /\ wallet' = wallet /\ ledger' = ledger /\ clock' = clock
    BY <1>4 DEF LockWallet
  <2>a. wallet' = wallet /\ ledger' = ledger /\ clock' = clock
    BY <2>1
  <2>2. User(c) \in Users /\ Booked(c) \in Nat
    BY <1>1, CallType
  <2>3. wallet[User(c)] \in 0..MaxMoney /\ wallet[User(c)] \in Nat
    BY <1>4, <2>2, MoneyAssumption DEF TypeOK
  <2>4. TypeOK'
    <3>0. wallet[User(c)] \in Int /\ call[c] \in CallState
      BY <2>3, CallType
    <3>1. [call[c] EXCEPT !.pc = "flush", !.seen = wallet[User(c)]] \in CallState
      BY <3>0 DEF CallState
    <3>2. call' = [call EXCEPT ![c] = [call[c] EXCEPT !.pc = "flush", !.seen = wallet[User(c)]]]
      BY <2>1 DEF TypeOK
    <3> QED
      BY <2>1, <3>1, <3>2 DEF TypeOK
  <2>5. /\ call'[c].pc = "flush" /\ call'[c].seen = wallet[User(c)]
        /\ \A d \in Calls : /\ call'[d].args = call[d].args /\ call'[d].answer = call[d].answer
                            /\ (d # c => call'[d] = call[d])
    BY <2>1 DEF TypeOK, CallState
  <2>6. \A d \in Calls : /\ User(d)' = User(d) /\ Kind(d)' = Kind(d) /\ Booked(d)' = Booked(d)
                         /\ EntriesOf(d)' = EntriesOf(d)
                         /\ d # c => NewBalance(d)' = NewBalance(d)
    BY <2>1, <2>5, SameEntries DEF NewBalance
  <2>7. \A u : \A d \in Calls : /\ Inserts(d, u)' => Inserts(d, u) /\ d # c
                                /\ d # c => (Holds(d, u)' <=> Holds(d, u))
    BY <2>5, <2>6 DEF Holds, Inserts, At
  <2>8. \A d \in Calls : ~Holds(d, User(c))
    BY DEF LockWallet, WalletFree
  <2>9. OneWriter'
    BY <2>6, <2>7, <2>8 DEF OneWriter, Holds
  <2>10. NewBalance(c)' >= 0
    BY <1>1, <1>4, <2>2, <2>3, <2>5, <2>6 DEF NewBalance, CannotPay, Bookings
  <2>11. SeenInForce'
    BY <1>1, <2>a, <2>5, <2>6, <2>7, <2>10 DEF SeenInForce, At
  <2>12. WalletAbsent' /\ TimesPast' /\ HistoryChains'
    BY <2>a, <2>6, <2>7 DEF WalletAbsent, TimesPast, HistoryChains, BalanceBefore
  <2>13. Progress'
    BY <1>1, <2>a, <2>5, <2>6 DEF Progress, At
  <2>14. AnswersTrue'
    BY <2>a, <2>5, <2>6 DEF AnswersTrue
  <2> QED
    BY <2>4, <2>9, <2>11, <2>12, <2>13, <2>14
<1> QED
  BY <1>2, <1>3, <1>4

(* The flush takes a time later than any entry's. *)
LEMMA FlushPreserves ==
    ASSUME WalletInv, NEW c \in Calls, Flush(c)
    PROVE  WalletInv'
<1> USE DEF WalletInv
<1>1. EntriesOf(c) = {} /\ call[c].answer = "none"
  BY NothingYet DEF Flush, At
<1>2. CASE NewBalance(c) > MaxMoney
  BY <1>1, <1>2, RefusePreserves DEF Flush, Answers
<1>3. CASE ~(NewBalance(c) > MaxMoney)
  <2>1. /\ call' = [call EXCEPT ![c].pc = "commit", ![c].at = clock + 1]
        /\ clock' = clock + 1 /\ UNCHANGED <<wallet, ledger>>
    BY <1>3 DEF Flush
  <2>2. TypeOK'
    <3>0. clock + 1 \in Nat /\ call[c] \in CallState
      BY CallType DEF TypeOK
    <3>1. [call[c] EXCEPT !.pc = "commit", !.at = clock + 1] \in CallState
      BY <3>0 DEF CallState
    <3>2. call' = [call EXCEPT ![c] = [call[c] EXCEPT !.pc = "commit", !.at = clock + 1]]
      BY <2>1 DEF TypeOK
    <3> QED
      BY <2>1, <3>0, <3>1, <3>2 DEF TypeOK
  <2>3. /\ call'[c].pc = "commit" /\ call'[c].at = clock + 1 /\ call[c].pc = "flush"
        /\ \A d \in Calls : /\ call'[d].args = call[d].args /\ call'[d].answer = call[d].answer
                            /\ call'[d].seen = call[d].seen
                            /\ (d # c => call'[d] = call[d])
    BY <2>1 DEF TypeOK, CallState, Flush, At
  <2>4. \A d \in Calls : /\ User(d)' = User(d) /\ Kind(d)' = Kind(d)
                         /\ EntriesOf(d)' = EntriesOf(d) /\ NewBalance(d)' = NewBalance(d)
    BY <2>1, <2>3, SameEntries DEF NewBalance
  <2>a. wallet' = wallet /\ ledger' = ledger /\ clock' = clock + 1 /\ clock \in Nat
    BY <2>1 DEF TypeOK
  <2>5. Kind(c) \in Bookings
    BY <2>3 DEF Progress, At
  <2>6. \A u : \A d \in Calls : /\ Inserts(d, u)' => Inserts(d, u) /\ d # c
                                /\ Holds(d, u)' <=> Holds(d, u)
    BY <2>3, <2>4, <2>5 DEF Holds, Inserts, At, Bookings
  <2>7. OneWriter'
    BY <2>6 DEF OneWriter
  <2>8. \A u \in Users : \A i \in DOMAIN ledger[u] :
            ledger[u][i].created_at \in Nat /\ ledger[u][i].created_at <= clock
    <3>1. ASSUME NEW u \in Users, NEW i \in DOMAIN ledger[u]
          PROVE  ledger[u][i] \in WalletEntry
      BY DEF TypeOK
    <3> QED
      BY <3>1 DEF TimesPast, WalletEntry
  <2>9. User(c) \in Users /\ NewBalance(c) \in Int
    BY CallType
  <2>10. SeenInForce'
    <3> SUFFICES ASSUME NEW d \in Calls, Holds(d, User(d))
                 PROVE  (/\ call[d].args.amount > 0
                         /\ wallet[User(d)] = call[d].seen
                         /\ NewBalance(d) >= 0
                         /\ At(d, "commit") => /\ NewBalance(d) <= MaxMoney
                                               /\ call[d].at <= clock
                                               /\ \A i \in DOMAIN ledger[User(d)] :
                                                     ledger[User(d)][i].created_at < call[d].at)'
      BY <2>4, <2>6 DEF SeenInForce
    <3>1. CASE d = c
      BY <1>3, <2>a, <2>3, <2>4, <2>8, <2>9, <3>1, MoneyAssumption DEF SeenInForce
    <3>2. CASE d # c
      <4>1. call[d].at \in Nat
        BY CallType
      <4> QED
        BY <2>a, <2>3, <2>4, <3>2, <4>1 DEF SeenInForce, At
    <3> QED
      BY <3>1, <3>2
  <2>11. WalletAbsent' /\ HistoryChains'
    BY <2>a, <2>4, <2>6 DEF WalletAbsent, HistoryChains, BalanceBefore
  <2>12. TimesPast'
    BY <2>a, <2>8 DEF TimesPast
  <2>13. Progress'
    BY <1>1, <2>a, <2>3, <2>4 DEF Progress, At
  <2>14. AnswersTrue'
    BY <2>a, <2>3, <2>4 DEF AnswersTrue
  <2> QED
    BY <2>2, <2>7, <2>10, <2>11, <2>12, <2>13, <2>14
<1> QED
  BY <1>2, <1>3

(* The commit appends to the history the entry that continues it. *)
LEMMA CommitPreserves ==
    ASSUME WalletInv, NEW c \in Calls, Commit(c)
    PROVE  WalletInv'
<1> USE DEF WalletInv
<1>u. PICK u \in Users : u = User(c)
  BY CallType
<1>n. PICK n \in Nat : n = Len(ledger[u])
  BY DEF TypeOK
<1>e. PICK e : e = [type |-> Kind(c), amount |-> Booked(c), balance_after |-> NewBalance(c),
                    reference_id |-> c, created_at |-> call[c].at]
  OBVIOUS
<1>1. /\ EntriesOf(c) = {} /\ call[c].answer = "none"
      /\ call[c].pc = "commit" /\ Kind(c) \in Bookings /\ Holds(c, u)
  BY <1>u, NothingYet DEF Commit, At, Holds
<1>2. /\ Booked(c) \in Nat /\ call[c] \in CallState /\ call[c].at \in Nat
      /\ NewBalance(c) \in 0..MaxMoney /\ NewBalance(c) \in Int
      /\ wallet[u] = call[c].seen /\ call[c].seen \in Int /\ wallet[u] # Null
  BY <1>1, <1>u, CallType, MoneyAssumption DEF SeenInForce, At
<1>3. /\ e \in WalletEntry /\ ledger[u] \in Seq(WalletEntry)
      /\ e.balance_after = NewBalance(c) /\ e.created_at = call[c].at /\ e.reference_id = c
      /\ e.type = Kind(c) /\ e.amount = Booked(c)
  BY <1>1, <1>2, <1>e DEF WalletEntry, TypeOK
<1>4. /\ call' = [call EXCEPT ![c].pc = "refresh"]
      /\ wallet' = [wallet EXCEPT ![u] = NewBalance(c)]
      /\ ledger' = [ledger EXCEPT ![u] = Append(ledger[u], e)] /\ clock' = clock
  BY <1>u, <1>e DEF Commit, Goto
<1>5. /\ call'[c].pc = "refresh"
      /\ \A d \in Calls : /\ call'[d].args = call[d].args /\ call'[d].answer = call[d].answer
                          /\ call'[d].seen = call[d].seen /\ (d # c => call'[d] = call[d])
  BY <1>4 DEF TypeOK, CallState
<1>6. \A v \in Users : v # u => wallet'[v] = wallet[v] /\ ledger'[v] = ledger[v]
  BY <1>4 DEF TypeOK
<1>7. /\ wallet'[u] = NewBalance(c) /\ Len(ledger'[u]) = n + 1 /\ ledger'[u][n + 1] = e
      /\ DOMAIN ledger[u] = 1..n /\ DOMAIN ledger'[u] = 1..(n + 1)
      /\ \A i \in 1..n : ledger'[u][i] = ledger[u][i]
  BY <1>2, <1>3, <1>4, <1>n DEF TypeOK
<1>8. TypeOK'
  <2>1. [call[c] EXCEPT !.pc = "refresh"] \in CallState
    BY <1>2 DEF CallState
  <2>2. call' = [call EXCEPT ![c] = [call[c] EXCEPT !.pc = "refresh"]]
    BY <1>4 DEF TypeOK
  <2>3. call' \in [Calls -> CallState] /\ clock' \in Nat
    BY <1>4, <2>1, <2>2 DEF TypeOK
  <2>4. wallet' \in [Users -> 0..MaxMoney \cup {Null}]
    BY <1>2, <1>4 DEF TypeOK
  <2>5. Append(ledger[u], e) \in Seq(WalletEntry)
    BY <1>3
  <2>6. ledger' \in [Users -> Seq(WalletEntry)]
    BY <1>4, <2>5 DEF TypeOK
  <2> QED
    BY <2>3, <2>4, <2>6 DEF TypeOK
<1>9. \A d \in Calls : User(d)' = User(d) /\ Kind(d)' = Kind(d) /\ NewBalance(d)' = NewBalance(d)
  BY <1>5 DEF User, Kind, NewBalance, Booked
<1>10. \A v : \A d \in Calls : /\ Inserts(d, v)' => Inserts(d, v)
                               /\ Holds(d, v)' => Holds(d, v) /\ d # c
  BY <1>5, <1>9 DEF Holds, Inserts, At
<1>11. OneWriter'
  BY <1>10 DEF OneWriter
<1>12. \A d \in Calls : Holds(d, User(d)) /\ d # c => User(d) # u /\ User(d) \in Users
  BY <1>1, <1>2, <1>u, CallType DEF OneWriter, Holds
<1>13. SeenInForce'
  BY <1>4, <1>5, <1>6, <1>9, <1>10, <1>12 DEF SeenInForce, At
<1>14. WalletAbsent'
  <2>1. ASSUME NEW d \in Calls, Inserts(d, User(d)) PROVE wallet'[User(d)] = Null
    <3>1. wallet[User(d)] = Null /\ User(d) \in Users
      BY <2>1, CallType DEF WalletAbsent
    <3> QED
      BY <1>2, <1>6, <3>1
  <2>2. \A v \in Users : wallet'[v] = Null => v \in Unopened
    BY <1>2, <1>6, <1>7, MoneyAssumption DEF WalletAbsent
  <2> QED
    BY <1>9, <1>10, <2>1, <2>2 DEF WalletAbsent
<1>15. TimesPast'
  <2> SUFFICES ASSUME NEW v \in Users, NEW i \in DOMAIN ledger'[v]
               PROVE  ledger'[v][i].created_at <= clock
    BY <1>4 DEF TimesPast
  <2>1. CASE v = u /\ i = n + 1
    BY <1>1, <1>3, <1>7, <1>u, <2>1 DEF SeenInForce, At
  <2>2. CASE ~(v = u /\ i = n + 1)
    BY <1>2, <1>3, <1>6, <1>7, <2>2 DEF TimesPast
  <2> QED
    BY <2>1, <2>2
<1>16. EntriesOf(c)' = {n + 1}
  <2>1. EntriesOf(c)' = {i \in 1..(n + 1) : ledger'[u][i].reference_id = c}
    BY <1>7, <1>9, <1>u DEF EntriesOf
  <2>2. \A i \in 1..n : ledger'[u][i].reference_id # c
    BY <1>1, <1>7, <1>u DEF EntriesOf
  <2>3. ledger'[u][n + 1].reference_id = c /\ n \in Nat
    BY <1>3, <1>7
  <2> QED
    BY <2>1, <2>2, <2>3
<1>17. ASSUME NEW d \in Calls, d # c PROVE EntriesOf(d)' = EntriesOf(d)
  <2>1. CASE User(d) = u
    <3>1. EntriesOf(d)' = {i \in 1..(n + 1) : ledger'[u][i].reference_id = d}
      BY <1>7, <1>9, <2>1 DEF EntriesOf
    <3>2. ledger'[u][n + 1].reference_id # d
      BY <1>3, <1>7, <1>17
    <3>3. EntriesOf(d) = {i \in 1..n : ledger[u][i].reference_id = d}
      BY <1>7, <2>1 DEF EntriesOf
    <3> QED
      BY <1>3, <1>7, <3>1, <3>2, <3>3
  <2>2. CASE User(d) # u
    BY <1>6, <1>9, <2>2, CallType DEF EntriesOf
  <2> QED
    BY <2>1, <2>2
<1>18. Progress'
  <2> SUFFICES ASSUME NEW d \in Calls
               PROVE (/\ At(d, "done") <=> call[d].answer # "none"
                      /\ At(d, "lock") => Kind(d) \in Bookings /\ call[d].args.amount > 0
                      /\ At(d, "flush") => Kind(d) \in Bookings
                      /\ At(d, "insert") => Kind(d) = "create"
                      /\ EntriesOf(d) # {} => call[d].pc \in {"refresh", "done"} /\ Kind(d) \in Bookings
                      /\ At(d, "refresh") => IF Kind(d) = "create" THEN wallet[User(d)] # Null
                                             ELSE Kind(d) \in Bookings /\ EntriesOf(d) # {})'
    BY DEF Progress
  <2>1. CASE d = c
    BY <1>1, <1>5, <1>9, <1>16, <2>1 DEF At, Bookings
  <2>2. CASE d # c
    <3>1. wallet[User(d)] # Null => wallet'[User(d)] # Null
      BY <1>2, <1>6, <1>7, CallType, MoneyAssumption
    <3> QED
      BY <1>5, <1>9, <1>17, <2>2, <3>1 DEF Progress, At
  <2> QED
    BY <2>1, <2>2
<1>19. HistoryChains'
  <2>1. ASSUME NEW v \in Users, v # u
        PROVE  (/\ \A i \in DOMAIN ledger[v] :
                     /\ ledger[v][i].balance_after = BalanceBefore(v, i) + Signed(ledger[v][i])
                     /\ i > 1 => ledger[v][i].created_at > ledger[v][i - 1].created_at
                /\ wallet[v] = IF ledger[v] = <<>> /\ wallet[v] = Null THEN Null
                               ELSE BalanceBefore(v, Len(ledger[v]) + 1))'
    <3>1. wallet'[v] = wallet[v] /\ ledger'[v] = ledger[v]
      BY <1>6, <2>1
    <3>2. \A i : BalanceBefore(v, i)' = BalanceBefore(v, i)
      BY <3>1 DEF BalanceBefore, FirstBalance
    <3> QED
      BY <3>1, <3>2 DEF HistoryChains
  <2>2. ASSUME NEW i \in 1..n
        PROVE  /\ ledger'[u][i].balance_after = BalanceBefore(u, i)' + Signed(ledger'[u][i])
               /\ i > 1 => ledger'[u][i].created_at > ledger'[u][i - 1].created_at
    <3>1. i > 1 => i - 1 \in 1..n
      BY <1>3
    <3>2. ledger'[u][i] = ledger[u][i] /\ (i > 1 => ledger'[u][i - 1] = ledger[u][i - 1])
      BY <1>7, <3>1
    <3>3. BalanceBefore(u, i)' = BalanceBefore(u, i)
      BY <3>1, <3>2 DEF BalanceBefore, FirstBalance
    <3>4. /\ ledger[u][i].balance_after = BalanceBefore(u, i) + Signed(ledger[u][i])
          /\ i > 1 => ledger[u][i].created_at > ledger[u][i - 1].created_at
      BY <1>7 DEF HistoryChains
    <3> QED
      BY <3>2, <3>3, <3>4
  <2>3. BalanceBefore(u, n + 1)' = wallet[u]
    <3>1. wallet[u] = BalanceBefore(u, n + 1)
      BY <1>2, <1>n DEF HistoryChains
    <3>2. n + 1 # 1 => n \in 1..n /\ (n + 1) - 1 = n
      BY <1>3
    <3> QED
      BY <1>7, <3>1, <3>2 DEF BalanceBefore, FirstBalance
  <2>4. e.balance_after = wallet[u] + Signed(e)
    BY <1>1, <1>2, <1>3 DEF NewBalance, Signed, Bookings
  <2>5. n + 1 > 1 => ledger'[u][n + 1].created_at > ledger'[u][n].created_at
    <3>1. n + 1 > 1 => n \in DOMAIN ledger[u]
      BY <1>3, <1>7
    <3>2. n + 1 > 1 => ledger[u][n].created_at < call[c].at /\ ledger[u][n].created_at \in Nat
      <4>1. \A i \in DOMAIN ledger[u] : ledger[u][i].created_at < call[c].at
        BY <1>1, <1>u DEF SeenInForce, At
      <4>2. n + 1 > 1 => ledger[u][n] \in WalletEntry
        BY <1>2, <1>3, <3>1
      <4> QED
        BY <3>1, <4>1, <4>2 DEF WalletEntry
    <3> QED
      BY <1>2, <1>3, <1>7, <3>1, <3>2
  <2>6. BalanceBefore(u, Len(ledger[u]) + 1)' = NewBalance(c)
    <3>1. n + 2 # 1 /\ (n + 2) - 1 = n + 1 /\ (n + 1) + 1 = n + 2
      BY <1>3
    <3>2. BalanceBefore(u, n + 2)' = ledger'[u][n + 1].balance_after
      BY <3>1 DEF BalanceBefore
    <3> QED
      BY <1>3, <1>7, <3>1, <3>2 DEF BalanceBefore
  <2>7. NewBalance(c) # Null
    BY <1>2, MoneyAssumption
  <2>8. ASSUME NEW i \in 1..(n + 1)
        PROVE  /\ ledger'[u][i].balance_after = BalanceBefore(u, i)' + Signed(ledger'[u][i])
               /\ i > 1 => ledger'[u][i].created_at > ledger'[u][i - 1].created_at
    <3>1. CASE i = n + 1
      <4>1. (n + 1) - 1 = n
        BY <1>3
      <4> QED
        BY <1>3, <1>7, <2>3, <2>4, <2>5, <3>1, <4>1 DEF Signed
    <3>2. CASE i \in 1..n
      BY <2>2, <3>2
    <3> QED
      BY <1>3, <3>1, <3>2
  <2> QED
    BY <1>7, <2>1, <2>6, <2>7, <2>8 DEF HistoryChains
<1>20. AnswersTrue'
  <2> SUFFICES ASSUME NEW d \in Calls
               PROVE (/\ \A i, j \in EntriesOf(d) : i = j
                      /\ call[d].answer = "booked" => EntriesOf(d) # {}
                      /\ call[d].answer \in {"value_error", "not_found", "insufficient"} => EntriesOf(d) = {}
                      /\ call[d].answer = "created" => wallet[User(d)] # Null)'
    BY DEF AnswersTrue
  <2>1. CASE d = c
    BY <1>1, <1>5, <1>16, <2>1
  <2>2. CASE d # c
    <3>1. wallet[User(d)] # Null => wallet'[User(d)] # Null
      BY <1>2, <1>6, <1>7, CallType, MoneyAssumption
    <3> QED
      BY <1>5, <1>9, <1>17, <2>2, <3>1 DEF AnswersTrue
  <2> QED
    BY <2>1, <2>2
<1> QED
  BY <1>8, <1>11, <1>13, <1>14, <1>15, <1>18, <1>19, <1>20

(* A wallet is inserted for who has none, one at a time. *)
LEMMA InsertPreserves ==
    ASSUME WalletInv, NEW c \in Calls, InsertWallet(c)
    PROVE  WalletInv'
<1> USE DEF WalletInv
<1>1. EntriesOf(c) = {} /\ call[c].answer = "none" /\ call[c].pc = "insert"
  BY NothingYet DEF InsertWallet, At
<1>2. CASE wallet[User(c)] # Null
  BY <1>1, <1>2, RefusePreserves DEF InsertWallet, Answers
<1>3. CASE wallet[User(c)] = Null
  <2>1. call' = [call EXCEPT ![c].pc = "commit"]
    BY <1>3 DEF InsertWallet, Goto
  <2>2. wallet' = wallet /\ ledger' = ledger /\ clock' = clock
    BY <1>3 DEF InsertWallet
  <2>3. TypeOK'
    <3>1. [call[c] EXCEPT !.pc = "commit"] \in CallState
      BY CallType DEF CallState
    <3>2. call' = [call EXCEPT ![c] = [call[c] EXCEPT !.pc = "commit"]]
      BY <2>1 DEF TypeOK
    <3> QED
      BY <2>2, <3>1, <3>2 DEF TypeOK
  <2>4. /\ call'[c].pc = "commit"
        /\ \A d \in Calls : /\ call'[d].args = call[d].args /\ call'[d].answer = call[d].answer
                            /\ call'[d].seen = call[d].seen /\ call'[d].at = call[d].at
                            /\ (d # c => call'[d] = call[d])
    BY <2>1 DEF TypeOK, CallState
  <2>5. \A d \in Calls : /\ User(d)' = User(d) /\ Kind(d)' = Kind(d)
                         /\ EntriesOf(d)' = EntriesOf(d) /\ NewBalance(d)' = NewBalance(d)
    BY <2>2, <2>4, SameEntries DEF NewBalance
  <2>6. Kind(c) = "create"
    BY <1>1 DEF Progress, At
  <2>7. \A u : \A d \in Calls : /\ Holds(d, u)' => Holds(d, u) /\ d # c
                                /\ d # c => (Inserts(d, u)' <=> Inserts(d, u))
    BY <2>4, <2>5, <2>6 DEF Holds, Inserts, At, Bookings
  <2>8. \A d \in Calls : ~Inserts(d, User(c))
    BY DEF InsertWallet, Inserts
  <2>9. OneWriter'
    BY <2>5, <2>7, <2>8 DEF OneWriter, Inserts
  <2>10. SeenInForce'
    BY <2>2, <2>4, <2>5, <2>7 DEF SeenInForce, At
  <2>11. WalletAbsent'
    BY <1>3, <2>2, <2>5, <2>7 DEF WalletAbsent
  <2>12. TimesPast' /\ HistoryChains'
    BY <2>2 DEF TimesPast, HistoryChains, BalanceBefore
  <2>13. Progress'
    BY <1>1, <2>2, <2>4, <2>5 DEF Progress, At
  <2>14. AnswersTrue'
    BY <2>2, <2>4, <2>5 DEF AnswersTrue
  <2> QED
    BY <2>3, <2>9, <2>10, <2>11, <2>12, <2>13, <2>14
<1> QED
  BY <1>2, <1>3

(* The new wallet starts with nothing, and its history with it. *)
LEMMA CreatePreserves ==
    ASSUME WalletInv, NEW c \in Calls, CommitWallet(c)
    PROVE  WalletInv'
<1> USE DEF WalletInv
<1>u. PICK u \in Users : u = User(c)
  BY CallType
<1>1. /\ EntriesOf(c) = {} /\ call[c].answer = "none" /\ call[c].pc = "commit"
      /\ Kind(c) = "create" /\ Inserts(c, u) /\ wallet[u] = Null
  BY <1>u, NothingYet DEF CommitWallet, At, Inserts, WalletAbsent
<1>2. /\ call' = [call EXCEPT ![c].pc = "refresh"] /\ ledger' = ledger /\ clock' = clock
      /\ wallet' = [wallet EXCEPT ![u] = 0]
  BY <1>u DEF CommitWallet, Goto
<1>3. ledger' = ledger /\ clock' = clock /\ wallet'[u] = 0
      /\ \A v \in Users : v # u => wallet'[v] = wallet[v]
  BY <1>2 DEF TypeOK
<1>4. TypeOK'
  <2>1. [call[c] EXCEPT !.pc = "refresh"] \in CallState
    BY CallType DEF CallState
  <2>2. call' = [call EXCEPT ![c] = [call[c] EXCEPT !.pc = "refresh"]]
    BY <1>2 DEF TypeOK
  <2>3. call' \in [Calls -> CallState]
    BY <2>1, <2>2 DEF TypeOK
  <2>4. wallet' \in [Users -> 0..MaxMoney \cup {Null}]
    BY <1>2, MoneyAssumption DEF TypeOK
  <2> QED
    BY <1>2, <2>3, <2>4 DEF TypeOK
<1>5. /\ call'[c].pc = "refresh"
      /\ \A d \in Calls : /\ call'[d].args = call[d].args /\ call'[d].answer = call[d].answer
                          /\ call'[d].seen = call[d].seen /\ call'[d].at = call[d].at
                          /\ (d # c => call'[d] = call[d])
  BY <1>2 DEF TypeOK, CallState
<1>6. \A d \in Calls : /\ User(d)' = User(d) /\ Kind(d)' = Kind(d) /\ User(d) \in Users
                       /\ EntriesOf(d)' = EntriesOf(d) /\ NewBalance(d)' = NewBalance(d)
  BY <1>3, <1>5, SameEntries, CallType DEF NewBalance
<1>7. \A v : \A d \in Calls : /\ Holds(d, v)' => Holds(d, v)
                              /\ Inserts(d, v)' => Inserts(d, v) /\ d # c
  BY <1>1, <1>5, <1>6 DEF Holds, Inserts, At
<1>8. OneWriter'
  BY <1>7 DEF OneWriter
<1>9. \A d \in Calls : Holds(d, User(d)) => User(d) # u
  <2>1. ASSUME NEW d \in Calls, Holds(d, User(d)), User(d) = u PROVE FALSE
    <3>1. wallet[u] = call[d].seen /\ call[d].seen \in Int
      BY <2>1, CallType DEF SeenInForce
    <3> QED
      BY <1>1, <3>1, MoneyAssumption
  <2> QED
    BY <2>1
<1>10. SeenInForce'
  BY <1>3, <1>5, <1>6, <1>7, <1>9 DEF SeenInForce, At
<1>11. WalletAbsent'
  <2>1. ASSUME NEW d \in Calls, Inserts(d, User(d)), d # c PROVE wallet'[User(d)] = Null
    <3>1. User(d) # u
      BY <1>1, <2>1 DEF OneWriter
    <3> QED
      BY <1>3, <1>6, <2>1, <3>1 DEF WalletAbsent
  <2>2. \A v \in Users : wallet'[v] = Null => v \in Unopened
    BY <1>3, MoneyAssumption DEF WalletAbsent
  <2> QED
    BY <1>6, <1>7, <2>1, <2>2 DEF WalletAbsent
<1>12. TimesPast'
  BY <1>3 DEF TimesPast
<1>13. \A d \in Calls : wallet[User(d)] # Null => wallet'[User(d)] # Null
  BY <1>3, <1>6, MoneyAssumption
<1>14. wallet'[User(c)] # Null
  BY <1>3, <1>u, MoneyAssumption
<1>15. Progress'
  BY <1>1, <1>5, <1>6, <1>13, <1>14 DEF Progress, At
<1>16. AnswersTrue'
  BY <1>5, <1>6, <1>13 DEF AnswersTrue
<1>17. HistoryChains'
  <2>1. \A v \in Users : \A i : BalanceBefore(v, i)' = BalanceBefore(v, i)
    BY <1>3 DEF BalanceBefore, FirstBalance
  <2>2. ledger[u] = <<>> /\ u \in Unopened
    <3>1. ledger[u] = <<>>
      <4> SUFFICES ASSUME ledger[u] # <<>> PROVE FALSE
        OBVIOUS
      <4>1. wallet[u] = BalanceBefore(u, Len(ledger[u]) + 1)
        BY DEF HistoryChains
      <4>2. Len(ledger[u]) \in Nat /\ Len(ledger[u]) # 0 /\ ledger[u] \in Seq(WalletEntry)
        BY DEF TypeOK
      <4>3. ledger[u][Len(ledger[u])] \in WalletEntry
        BY <4>2
      <4>4. BalanceBefore(u, Len(ledger[u]) + 1) \in Int
        BY <4>2, <4>3 DEF BalanceBefore, WalletEntry
      <4> QED
        BY <1>1, <4>1, <4>4, MoneyAssumption
    <3>2. u \in Unopened
      BY <1>1 DEF WalletAbsent
    <3> QED
      BY <3>1, <3>2
  <2>3. BalanceBefore(u, Len(ledger[u]) + 1) = 0
    BY <2>2 DEF BalanceBefore, FirstBalance
  <2> QED
    BY <1>3, <2>1, <2>2, <2>3, MoneyAssumption DEF HistoryChains
<1> QED
  BY <1>4, <1>8, <1>10, <1>11, <1>12, <1>15, <1>16, <1>17

(* One step per action; a failure before the commit leaves nothing. *)
LEMMA StepPreserves ==
    ASSUME WalletInv, NEW c \in Calls, Step(c)
    PROVE  WalletInv'
<1> USE DEF WalletInv
<1>1. CASE Submit(c)
  BY <1>1, SubmitPreserves
<1>2. CASE LockWallet(c)
  BY <1>2, LockPreserves
<1>3. CASE Flush(c)
  BY <1>3, FlushPreserves
<1>4. CASE Commit(c)
  BY <1>4, CommitPreserves
<1>5. CASE Refresh(c)
  <2>1. CASE Kind(c) = "create"
    <3>1. Refuse(c, "created") /\ wallet[User(c)] # Null /\ call[c].pc = "refresh"
      BY <1>5, <2>1 DEF Refresh, Progress, At
    <3>2. EntriesOf(c) = {}
      BY <2>1 DEF Progress, Bookings
    <3> QED
      BY <3>1, <3>2, RefusePreserves DEF Answers
  <2>2. CASE Kind(c) # "create"
    BY <1>5, <2>2, RefusePreserves DEF Refresh, Progress, At, Answers
  <2> QED
    BY <2>1, <2>2
<1>6. CASE InsertWallet(c)
  BY <1>6, InsertPreserves
<1>7. CASE CommitWallet(c)
  BY <1>7, CreatePreserves
<1>8. CASE ListEntries(c)
  <2>1. EntriesOf(c) = {}
    BY <1>8, NothingYet DEF ListEntries, At
  <2> QED
    BY <1>8, <2>1, RefusePreserves DEF ListEntries, Answers
<1>9. CASE Fails(c)
  BY <1>9, RefusePreserves DEF Fails, Answers
<1> QED
  BY <1>1, <1>2, <1>3, <1>4, <1>5, <1>6, <1>7, <1>8, <1>9 DEF Step

(* The inductive invariant of the wallets: one writer at a time, what it   *)
(* saw still in force, entries timed before the clock, and for every call  *)
(* what it has booked at each point of its code (wallet_service.py:41-123).*)
THEOREM WalletInvariant == Spec => []WalletInv
<1>1. WalletInv /\ [Next]_vars => WalletInv'
  <2> SUFFICES ASSUME WalletInv, [Next]_vars PROVE WalletInv'
    OBVIOUS
  <2>1. CASE Next
    BY <2>1, StepPreserves DEF Next
  <2>2. CASE UNCHANGED vars
    <3>1. call' = call /\ wallet' = wallet /\ ledger' = ledger /\ clock' = clock
      BY <2>2 DEF vars
    <3>2. \A c \in Calls : /\ User(c)' = User(c) /\ Kind(c)' = Kind(c)
                           /\ NewBalance(c)' = NewBalance(c) /\ EntriesOf(c)' = EntriesOf(c)
      BY <3>1 DEF User, Kind, NewBalance, Booked, EntriesOf
    <3>3. \A u : \A c \in Calls : (Holds(c, u)' <=> Holds(c, u)) /\ (Inserts(c, u)' <=> Inserts(c, u))
      BY <3>1, <3>2 DEF Holds, Inserts, At
    <3>4. TypeOK' /\ TimesPast' /\ HistoryChains'
      BY <3>1 DEF WalletInv, TypeOK, TimesPast, HistoryChains, BalanceBefore, FirstBalance
    <3>5. OneWriter' /\ SeenInForce' /\ WalletAbsent'
      BY <3>1, <3>2, <3>3 DEF WalletInv, OneWriter, SeenInForce, WalletAbsent, At
    <3>6. Progress' /\ AnswersTrue'
      BY <3>1, <3>2 DEF WalletInv, Progress, AnswersTrue, At
    <3> QED
      BY <3>4, <3>5, <3>6 DEF WalletInv
  <2> QED
    BY <2>1, <2>2
<1> QED
  BY InitInv, <1>1, PTL DEF Spec

(* Balances stay between zero and the column's limit for any amounts       *)
(* (wallet_service.py:99, models/wallet.py:31).                            *)
THEOREM WalletTypes == Spec => []TypeOK
BY WalletInvariant, PTL DEF WalletInv

(* The history shown is the history that happened, and its newest balance  *)
(* is the wallet's (wallet_service.py:37).                                 *)
THEOREM HistoryTrue == Spec => []HistoryChains
BY WalletInvariant, PTL DEF WalletInv

(* Each call books at most once, and as it answers.                        *)
THEOREM BookedAsAnswered == Spec => []AnswersTrue
BY WalletInvariant, PTL DEF WalletInv
=============================================================================
