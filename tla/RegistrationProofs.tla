------------------------- MODULE RegistrationProofs -------------------------
(* Proofs that Registration keeps its accounts apart, for any number of    *)
(* requests, addresses and numbers.                                        *)
EXTENDS Registration, TLAPS

(* The row that a request would store is a row of the table. *)
LEMMA RowTyped ==
    ASSUME NEW r \in Requests, request[r].payload \in Payload
    PROVE  NewRow(r) \in UserRow /\ NewRow(r) # Null
BY LowerAssumption, NullAssumption DEF NewRow, Payload, UserRow

(* Before the first request nothing is stored. *)
LEMMA InitInv == Init => RegistrationInv
<1> SUFFICES ASSUME Init PROVE RegistrationInv
  OBVIOUS
<1>1. TypeOK
  BY DEF Init, TypeOK, RequestState, RequestPc, Answer
<1>2. OwnRow /\ IndexesUnique
  BY DEF Init, OwnRow, IndexesUnique, Inserted, At
<1>3. WalletWithUser /\ AnswersHold
  BY DEF Init, WalletWithUser, AnswersHold, Committed
<1> QED
  BY <1>1, <1>2, <1>3 DEF RegistrationInv

(* Steps that leave the tables alone and move r, other than to the points  *)
(* that the invariant speaks of.                                           *)
LEMMA MovePreserves ==
    ASSUME RegistrationInv, NEW r \in Requests, NEW pc \in {"email", "mobile", "insert"},
           request[r].pc \in {"idle", "email", "mobile"}, Goto(r, pc)
    PROVE  RegistrationInv'
<1> USE DEF RegistrationInv
<1>1. TypeOK'
  BY DEF TypeOK, Goto, RequestState, RequestPc
<1>2. \A q \in Requests : /\ request'[q].payload = request[q].payload
                          /\ request'[q].answer = request[q].answer
                          /\ q # r => request'[q].pc = request[q].pc
                          /\ request'[r].pc = pc
  BY DEF TypeOK, Goto, RequestState
<1>3. users' = users /\ wallets' = wallets
  BY DEF Goto
<1>4. OwnRow'
  BY <1>2, <1>3 DEF OwnRow, NewRow
<1>5. IndexesUnique'
  BY <1>2, <1>3 DEF IndexesUnique, Inserted, At, NewRow, Collide
<1>6. WalletWithUser'
  BY <1>3 DEF WalletWithUser, Committed
<1>7. AnswersHold'
  BY <1>2, <1>3 DEF AnswersHold, Committed, NewRow, EmailTaken, MobileTaken
<1> QED
  BY <1>1, <1>4, <1>5, <1>6, <1>7

(* A request that ends without a commit of this step. *)
LEMMA RefusePreserves ==
    ASSUME RegistrationInv, NEW r \in Requests, NEW answer \in Answer \ {"none"},
           request[r].pc # "done", Refuse(r, answer),
           answer = "created" => users[r] # Null,
           answer = "email_taken" => users[r] = Null /\ EmailTaken(r),
           answer = "mobile_taken" => users[r] = Null /\ MobileTaken(r)
    PROVE  RegistrationInv'
<1> USE DEF RegistrationInv
<1>1. TypeOK'
  <2>1. [request[r] EXCEPT !.pc = "done", !.answer = answer] \in RequestState
    BY DEF TypeOK, RequestState, RequestPc
  <2>2. request' = [request EXCEPT ![r] = [request[r] EXCEPT !.pc = "done", !.answer = answer]]
    BY DEF TypeOK, Refuse, Finish, RequestState
  <2> QED
    BY <2>1, <2>2 DEF TypeOK, Refuse
<1>2. \A q \in Requests : /\ request'[q].payload = request[q].payload
                          /\ q # r => request'[q] = request[q]
                          /\ request'[r].pc = "done"
                          /\ request'[r].answer = answer
  BY DEF TypeOK, Refuse, Finish, RequestState
<1>3. users' = users /\ wallets' = wallets
  BY DEF Refuse
<1>4. OwnRow'
  BY <1>2, <1>3 DEF OwnRow, NewRow
<1>5. IndexesUnique'
  BY <1>2, <1>3 DEF IndexesUnique, Inserted, At, NewRow, Collide
<1>6. WalletWithUser'
  BY <1>3 DEF WalletWithUser, Committed
<1>7. AnswersHold'
  BY <1>2, <1>3 DEF AnswersHold, Committed, OwnRow, NewRow, EmailTaken, MobileTaken
<1> QED
  BY <1>1, <1>4, <1>5, <1>6, <1>7

(* The flush: the row collides neither with a committed row nor, since it  *)
(* need not wait, with one that is inserted and not committed.             *)
LEMMA InsertPreserves ==
    ASSUME RegistrationInv, NEW r \in Requests, Insert(r)
    PROVE  RegistrationInv'
<1> USE DEF RegistrationInv
<1>1. CASE \E u \in Committed : Collide(users[u], NewRow(r))
  <2>1. Refuse(r, "error")
    BY <1>1 DEF Insert
  <2> QED
    BY <2>1, RefusePreserves DEF Insert, At, Answer
<1>2. CASE ~\E u \in Committed : Collide(users[u], NewRow(r))
  <2>1. Goto(r, "commit") /\ request[r].pc = "insert"
    BY <1>2 DEF Insert, At
  <2>2. TypeOK'
    BY <2>1 DEF TypeOK, Goto, RequestState, RequestPc
  <2>3. \A q \in Requests : /\ request'[q].payload = request[q].payload
                            /\ request'[q].answer = request[q].answer
                            /\ q # r => request'[q].pc = request[q].pc
                            /\ request'[r].pc = "commit"
    BY <2>1 DEF TypeOK, Goto, RequestState
  <2>4. users' = users /\ wallets' = wallets
    BY <2>1 DEF Goto
  <2>5. OwnRow'
    BY <2>1, <2>3, <2>4 DEF OwnRow, NewRow
  <2>6. ASSUME NEW q \in Requests, q # r, Inserted(q)
        PROVE  ~Collide(NewRow(q), NewRow(r)) /\ ~Collide(NewRow(r), NewRow(q))
    <3>1. CASE users[q] # Null
      BY <1>2, <3>1 DEF Committed, OwnRow, Collide
    <3>2. CASE At(q, "commit")
      BY <2>6, <3>2 DEF Insert, MustWait, Collide
    <3> QED
      BY <2>6, <3>1, <3>2 DEF Inserted
  <2>7. \A q \in Requests : /\ NewRow(q)' = NewRow(q)
                            /\ q # r => (Inserted(q)' <=> Inserted(q))
    BY <2>3, <2>4 DEF NewRow, Inserted, At
  <2>8. IndexesUnique'
    BY <2>6, <2>7 DEF IndexesUnique, Collide
  <2>9. WalletWithUser'
    BY <2>4 DEF WalletWithUser, Committed
  <2>10. AnswersHold'
    BY <2>3, <2>4 DEF AnswersHold, Committed, NewRow, EmailTaken, MobileTaken
  <2> QED
    BY <2>2, <2>5, <2>8, <2>9, <2>10
<1> QED
  BY <1>1, <1>2

(* The commit turns an inserted row into a committed one, and adds the     *)
(* wallet; whom a refused request had met is still there.                  *)
LEMMA CommitPreserves ==
    ASSUME RegistrationInv, NEW r \in Requests, Commit(r)
    PROVE  RegistrationInv'
<1> USE DEF RegistrationInv
<1>1. NewRow(r) \in UserRow /\ NewRow(r) # Null
  BY RowTyped DEF TypeOK, RequestState
<1>2. request[r].pc = "commit" /\ users[r] = Null
  BY DEF Commit, At, OwnRow
<1>3. \A q \in Requests : /\ request'[q].payload = request[q].payload
                          /\ request'[q].answer = request[q].answer
                          /\ q # r => request'[q].pc = request[q].pc
                          /\ request'[r].pc = "refresh"
  BY DEF TypeOK, Commit, RequestState
<1>4. \A q \in Requests : users'[q] = IF q = r THEN NewRow(r) ELSE users[q]
  BY DEF TypeOK, Commit
<1>5. DOMAIN users' = Requests /\ wallets' = wallets \cup {r}
  BY DEF TypeOK, Commit
<1>6. request' \in [Requests -> RequestState]
  BY DEF TypeOK, Commit, RequestState, RequestPc
<1>7. TypeOK'
  BY <1>1, <1>4, <1>5, <1>6 DEF TypeOK
<1>8. \A q \in Requests : NewRow(q)' = NewRow(q)
  BY <1>3 DEF NewRow
<1>9. OwnRow'
  BY <1>1, <1>2, <1>3, <1>4, <1>8 DEF OwnRow
<1>10. \A q \in Requests : Inserted(q)' <=> Inserted(q)
  BY <1>1, <1>2, <1>3, <1>4 DEF Inserted, At
<1>11. IndexesUnique'
  BY <1>8, <1>10 DEF IndexesUnique, Collide
<1>12. Committed' = Committed \cup {r}
  BY <1>1, <1>4 DEF Committed
<1>13. WalletWithUser'
  BY <1>5, <1>12 DEF WalletWithUser
<1>14. request[r].answer = "none"
  BY <1>2 DEF OwnRow
<1>15. \A q \in Requests : /\ EmailTaken(q) => EmailTaken(q)'
                           /\ MobileTaken(q) => MobileTaken(q)'
  <2>1. \A u \in Committed : u \in Requests /\ u # r /\ u \in Committed' /\ users'[u] = users[u]
    BY <1>2, <1>4, <1>12 DEF Committed
  <2> QED
    BY <1>3, <2>1 DEF EmailTaken, MobileTaken
<1>16. AnswersHold'
  BY <1>3, <1>4, <1>8, <1>12, <1>14, <1>15 DEF AnswersHold
<1> QED
  BY <1>7, <1>9, <1>11, <1>13, <1>16

(* Every step keeps the invariant. *)
LEMMA NextInv == RegistrationInv /\ [Next]_vars => RegistrationInv'
<1> SUFFICES ASSUME RegistrationInv, [Next]_vars PROVE RegistrationInv'
  OBVIOUS
<1>1. CASE UNCHANGED vars
  BY <1>1 DEF vars, RegistrationInv, TypeOK, OwnRow, IndexesUnique, Inserted, At, WalletWithUser,
      AnswersHold, Committed, NewRow, EmailTaken, MobileTaken
<1>2. ASSUME NEW r \in Requests, Submit(r) PROVE RegistrationInv'
  BY <1>2, MovePreserves DEF Submit, At
<1>3. ASSUME NEW r \in Requests, CheckEmail(r) PROVE RegistrationInv'
  <2>0. request[r].pc = "email" /\ users[r] = Null
    BY <1>3 DEF CheckEmail, At, RegistrationInv, OwnRow
  <2>1. CASE EmailTaken(r)
    <3>1. Refuse(r, "email_taken")
      BY <1>3, <2>1 DEF CheckEmail
    <3> QED
      BY <2>0, <2>1, <3>1, RefusePreserves DEF Answer
  <2>2. CASE ~EmailTaken(r)
    BY <1>3, <2>0, <2>2, MovePreserves DEF CheckEmail
  <2> QED
    BY <2>1, <2>2
<1>4. ASSUME NEW r \in Requests, CheckMobile(r) PROVE RegistrationInv'
  <2>0. request[r].pc = "mobile" /\ users[r] = Null
    BY <1>4 DEF CheckMobile, At, RegistrationInv, OwnRow
  <2>1. CASE MobileTaken(r)
    <3>1. Refuse(r, "mobile_taken")
      BY <1>4, <2>1 DEF CheckMobile
    <3> QED
      BY <2>0, <2>1, <3>1, RefusePreserves DEF Answer
  <2>2. CASE ~MobileTaken(r)
    BY <1>4, <2>0, <2>2, MovePreserves DEF CheckMobile
  <2> QED
    BY <2>1, <2>2
<1>5. ASSUME NEW r \in Requests, Refresh(r) PROVE RegistrationInv'
  <2>1. request[r].pc = "refresh" /\ users[r] # Null /\ Refuse(r, "created")
    BY <1>5 DEF Refresh, At, RegistrationInv, OwnRow
  <2> QED
    BY <2>1, RefusePreserves DEF Answer
<1>6. ASSUME NEW r \in Requests, Fails(r) PROVE RegistrationInv'
  BY <1>6, RefusePreserves DEF Fails, At, Answer
<1> QED
  BY <1>1, <1>2, <1>3, <1>4, <1>5, <1>6, InsertPreserves, CommitPreserves DEF Next, Step

(* Each request stores its own row, the indexes keep the rows apart, and   *)
(* answers and wallets agree with the table (user_service.py:29-68).       *)
THEOREM RegistrationInvariant == Spec => []RegistrationInv
<1> QED
  BY InitInv, NextInv, PTL DEF Spec

(* Requests, rows and wallets keep their types; stored addresses are in    *)
(* lower case (user_service.py:40).                                        *)
THEOREM RegistrationTypes == Spec => []TypeOK
<1>1. RegistrationInv => TypeOK
  BY DEF RegistrationInv
<1> QED
  BY <1>1, RegistrationInvariant, PTL

(* No two users share an address, in whatever case, or a number, although  *)
(* lookups and insert are apart (user_service.py:30, user_service.py:46).  *)
THEOREM AccountsDistinct == Spec => []OneAccountEach
<1>1. RegistrationInv => OneAccountEach
  <2> SUFFICES ASSUME RegistrationInv, NEW u \in Committed, NEW v \in Committed, u # v
               PROVE  /\ Lower(request[u].payload.email) # Lower(request[v].payload.email)
                      /\ request[u].payload.mobile # Null =>
                             request[u].payload.mobile # request[v].payload.mobile
    BY DEF OneAccountEach
  <2>1. ~Collide(NewRow(u), NewRow(v))
    BY DEF RegistrationInv, IndexesUnique, Inserted, Committed
  <2> QED
    BY <2>1 DEF Collide, NewRow
<1> QED
  BY <1>1, RegistrationInvariant, PTL

(* Every user has a wallet and every wallet a user                         *)
(* (user_service.py:46-54).                                                *)
THEOREM WalletsComplete == Spec => []WalletWithUser
<1>1. RegistrationInv => WalletWithUser
  BY DEF RegistrationInv
<1> QED
  BY <1>1, RegistrationInvariant, PTL

(* Who is told that an account exists is told the truth, by creation or by *)
(* refusal (user_service.py:68, user_service.py:125).                      *)
THEOREM AnswersTrue == Spec => []AnswersHold
<1>1. RegistrationInv => AnswersHold
  BY DEF RegistrationInv
<1> QED
  BY <1>1, RegistrationInvariant, PTL
=============================================================================
