---------------------------- MODULE SessionProofs ----------------------------
(* Sessions, for any number of requests, users and seconds. *)
EXTENDS Sessions, TLAPS

LEMMA TokenFields ==
  ASSUME NEW t \in Tokens
  PROVE  /\ t.sub \in Users /\ t.exp \in Int /\ t # Null
         /\ \A s \in Tokens : s.sub = t.sub /\ s.exp = t.exp => s = t
  BY NullAssumption, TimeAssumption DEF Tokens, Token

LEMMA NewToken ==
  ASSUME NEW u \in Users, now \in 0..MaxTime
  PROVE  /\ Token(u, now) \in Tokens
         /\ Token(u, now).sub = u /\ Token(u, now).exp = now + Lifetime
  BY TimeAssumption DEF Tokens, Token

LEMMA InitHolds == Init => SessionInv
<1> SUFFICES ASSUME Init PROVE SessionInv
  OBVIOUS
<1>1. NoCall \in Call
  BY DEF NoCall, Call
<1>2. TypeOK
  BY <1>1, TimeAssumption DEF Init, TypeOK
<1>3. \A r \in Requests : Handled(r)
  BY DEF Init, Handled, At, NoCall
<1>4. Stored /\ DeletersHold /\ InsertersHold /\ SessionsLast /\ RefusedForCause
  BY DEF Init, NoCall, Stored, DeletersHold, Deleter, InsertersHold, At, SessionsLast,
         RefusedForCause
<1> QED BY <1>2, <1>3, <1>4 DEF SessionInv

(* A row names its token. *)
LEMMA RowsDiffer ==
  ASSUME TypeOK, NEW s \in Tokens, NEW t \in Tokens, rows[s] = rows[t], rows[s] # Null
  PROVE  s = t
  BY DEF TypeOK

----------------------------------------------------------------------------
(* Steps that change one request and no row *)

LEMMA AnswersStay ==
  ASSUME TypeOK, NEW r \in Requests, call[r].answer = "none", ~call[r].committed,
         call' \in [Requests -> Call], \A q \in Requests \ {r} : call'[q] = call[q]
  PROVE  HandedOut \subseteq HandedOut' /\ \A t : UsedUp(t) => UsedUp(t)'
  BY DEF HandedOut, UsedUp

LEMMA BecomeKeeps ==
  ASSUME SessionInv, NEW r \in Requests, NEW c \in Call, Become(r, c),
         call[r].answer = "none", c.answer # "ok", ~c.committed, Handled(r)',
         c.pc \in {"create", "insert", "commit"} /\ c.row # Null =>
            rows[c.token] = c.row /\ \A q \in Requests \ {r} : ~Deleter(c.row, q),
         c.pc = "commit" /\ c.new # Null =>
            rows[c.new] \in {Null, c.row} /\ \A q \in Requests \ {r} : ~Inserter(c.new, q),
         c.answer = "refused" /\ c.token # Null => c.token.exp < now \/ UsedUp(c.token)
  PROVE  SessionInv'
<1>1. /\ call' = [call EXCEPT ![r] = c] /\ now' = now /\ rows' = rows
      /\ call \in [Requests -> Call] /\ TypeOK
  BY DEF SessionInv, TypeOK, Become
<1>2. /\ call'[r] = c /\ call' \in [Requests -> Call]
      /\ \A q \in Requests \ {r} : call'[q] = call[q]
  BY <1>1
<1>3. HandedOut \subseteq HandedOut' /\ \A t : UsedUp(t) => UsedUp(t)'
  BY <1>1, <1>2, AnswersStay DEF SessionInv, Handled
<1>4. \A t \in Tokens : rows[t] # Null => rows[t] \in Requests \ {r}
  BY DEF SessionInv, TypeOK, Stored, Handled
<1>5. TypeOK'
  BY <1>1, <1>2, <1>4 DEF TypeOK
<1>6. Stored'
  BY <1>1, <1>2, <1>4 DEF SessionInv, Stored
<1>7. \A q \in Requests : Handled(q)'
  <2> SUFFICES ASSUME NEW q \in Requests \ {r} PROVE Handled(q)'
    OBVIOUS
  <2>1. Handled(q) /\ call'[q] = call[q]
    BY <1>2 DEF SessionInv
  <2> QED BY <1>1, <1>3, <2>1 DEF Handled, At
<1>8. DeletersHold'
  BY <1>1, <1>2 DEF SessionInv, DeletersHold, Deleter
<1>9. InsertersHold'
  BY <1>1, <1>2 DEF SessionInv, InsertersHold, Inserter, At
<1>10. SessionsLast'
  BY <1>1, <1>2, <1>3 DEF SessionInv, SessionsLast
<1>11. RefusedForCause'
  BY <1>1, <1>2, <1>3 DEF SessionInv, RefusedForCause
<1> QED BY <1>5, <1>6, <1>7, <1>8, <1>9, <1>10, <1>11 DEF SessionInv

(* The effect of one request's step, as the lemmas below use it.           *)
LEMMA BecomeChanges ==
  ASSUME SessionInv, NEW r \in Requests, NEW c \in Call, Become(r, c), call[r].answer = "none"
  PROVE  call'[r] = c /\ now' = now /\ HandedOut \subseteq HandedOut'
<1>1. call \in [Requests -> Call] /\ call' = [call EXCEPT ![r] = c] /\ now' = now
  BY DEF SessionInv, TypeOK, Become
<1> QED BY <1>1, AnswersStay DEF SessionInv, Handled

(* Tokens handed out are tokens of the table, none younger than the clock. *)
LEMMA HandedOutTokens ==
  ASSUME SessionInv, NEW t \in HandedOut
  PROVE  /\ t \in Tokens /\ t # Null /\ t.exp <= now + Lifetime
         /\ rows[t] # Null \/ UsedUp(t)
<1>1. PICK q \in Requests : call[q].answer = "ok" /\ call[q].new # Null /\ call[q].new = t
  BY DEF HandedOut
<1>2. call[q] \in Call /\ Handled(q)
  BY DEF SessionInv, TypeOK
<1>3. t \in Tokens /\ t.exp <= now + Lifetime
  BY <1>1, <1>2 DEF Call, Handled
<1> QED BY <1>1, <1>3 DEF SessionInv, SessionsLast

LEMMA Unanswered ==
  ASSUME SessionInv, NEW r \in Requests, ~At(r, "done")
  PROVE  /\ call[r] \in Call /\ Handled(r) /\ call[r].answer = "none" /\ ~call[r].committed
         /\ call[r].pc \in {"create", "insert", "commit"} /\ call[r].row # Null =>
              /\ rows[call[r].token] = call[r].row
              /\ \A q \in Requests \ {r} : ~Deleter(call[r].row, q)
<1>1. call[r] \in Call /\ Handled(r)
  BY DEF SessionInv, TypeOK
<1>2. call[r].answer = "none" /\ ~call[r].committed
  BY <1>1 DEF Handled
<1> QED BY <1>1, <1>2 DEF SessionInv, DeletersHold, Deleter

LEMMA LoginKeeps ==
  ASSUME SessionInv, NEW r \in Requests, NEW u \in Users, Login(r, u)
  PROVE  SessionInv'
<1>1. PICK answer \in {"none", "refused"} :
        Become(r, [NoCall EXCEPT !.kind = "login", !.user = u, !.answer = answer,
                                 !.pc = IF answer = "none" THEN "create" ELSE "done"])
  BY DEF Login
<1> DEFINE c == [NoCall EXCEPT !.kind = "login", !.user = u, !.answer = answer,
                               !.pc = IF answer = "none" THEN "create" ELSE "done"]
<1>2. /\ c \in Call /\ c.token = Null /\ c.row = Null /\ c.new = Null /\ c.user = u
      /\ ~c.committed /\ c.answer = answer /\ c.pc = IF answer = "none" THEN "create" ELSE "done"
  BY DEF NoCall, Call
<1>3. call[r].answer = "none" /\ u # Null
  BY Unanswered, NullAssumption DEF Login, At
<1>4. call'[r] = c
  BY <1>1, <1>2, <1>3, BecomeChanges
<1>5. Handled(r)'
  BY <1>2, <1>3, <1>4 DEF Handled, At
<1>6. Become(r, c)
  BY <1>1
<1> HIDE DEF c
<1> QED BY <1>2, <1>3, <1>5, <1>6, BecomeKeeps

LEMMA PresentKeeps ==
  ASSUME SessionInv, NEW r \in Requests, NEW kind \in {"refresh", "logout"},
         NEW t \in HandedOut, NEW pc \in {"lookup", "delete"},
         pc = "delete" => kind = "logout", Present(r, kind, t, pc)
  PROVE  SessionInv'
<1> DEFINE c == [NoCall EXCEPT !.kind = kind, !.token = t,
                               !.pc = IF Expired(t) THEN "done" ELSE pc,
                               !.answer = IF Expired(t) THEN "refused" ELSE "none"]
<1>1. t \in Tokens /\ t # Null
  BY HandedOutTokens
<1>2. /\ c \in Call /\ c.token = t /\ c.row = Null /\ c.new = Null /\ c.user = Null /\ c.kind = kind
      /\ ~c.committed /\ c.answer = (IF Expired(t) THEN "refused" ELSE "none")
      /\ c.pc = IF Expired(t) THEN "done" ELSE pc
  BY <1>1 DEF NoCall, Call
<1>3. call[r].answer = "none" /\ Become(r, c)
  BY Unanswered DEF Present, At
<1> HIDE DEF c
<1>4. call'[r] = c /\ t \in HandedOut'
  BY <1>2, <1>3, BecomeChanges
<1>5. Handled(r)'
  BY <1>1, <1>2, <1>4 DEF Handled, At
<1>6. c.answer = "refused" => t.exp < now
  BY <1>2 DEF Expired
<1> QED BY <1>2, <1>3, <1>5, <1>6, BecomeKeeps

LEMMA AnsweredIs ==
  ASSUME NEW r \in Requests, call[r] \in Call, NEW answer \in {"ok", "refused", "error"}
  PROVE  /\ Answered(r, answer) \in Call
         /\ Answered(r, answer).pc = "done" /\ Answered(r, answer).answer = answer
         /\ Answered(r, answer).token = call[r].token /\ Answered(r, answer).user = call[r].user
         /\ Answered(r, answer).row = Null /\ Answered(r, answer).new = call[r].new
         /\ Answered(r, answer).committed = call[r].committed
<1> DEFINE c == call[r]
           done == "done"
           row == Null
<1>1. /\ c \in Call /\ row \in Requests \cup {Null}
      /\ done \in {"idle", "lookup", "delete", "deleting", "create", "insert", "commit", "done"}
      /\ answer \in {"none", "ok", "refused", "error"}
  OBVIOUS
<1>2. Answered(r, answer) = [c EXCEPT !.pc = done, !.row = row, !.answer = answer]
  BY DEF Answered
<1> HIDE DEF c, done, row
<1>3. Answered(r, answer) \in Call
  <2>1. Answered(r, answer) =
          [kind |-> c.kind, pc |-> done, user |-> c.user, token |-> c.token, row |-> row,
           new |-> c.new, committed |-> c.committed, answer |-> answer]
    BY <1>1, <1>2 DEF Call
  <2>2. /\ c.kind \in {"none", "login", "refresh", "logout"} /\ c.user \in Users \cup {Null}
        /\ c.token \in Tokens \cup {Null} /\ c.new \in Tokens \cup {Null}
        /\ c.committed \in BOOLEAN
    BY <1>1 DEF Call
  <2> QED
    BY <1>1, <2>1, <2>2 DEF Call
<1>4. /\ Answered(r, answer).pc = done /\ Answered(r, answer).answer = answer
      /\ Answered(r, answer).token = c.token /\ Answered(r, answer).user = c.user
      /\ Answered(r, answer).row = row /\ Answered(r, answer).new = c.new
      /\ Answered(r, answer).committed = c.committed
  BY <1>1, <1>2 DEF Call
<1> QED
  BY <1>3, <1>4 DEF c, done, row

(* A rollback and a justified refusal leave everything in order.           *)
LEMMA ErrorKeeps ==
  ASSUME SessionInv, NEW r \in Requests, ~At(r, "done"), Error(r)
  PROVE  SessionInv'
<1> DEFINE c == [NoCall EXCEPT !.pc = "done", !.answer = "error"]
<1>1. /\ c \in Call /\ c.pc = "done" /\ c.answer = "error" /\ c.token = Null
      /\ c.user = Null /\ c.row = Null /\ c.new = Null /\ ~c.committed
  BY DEF NoCall, Call
<1>2. Become(r, c)
  BY DEF Error
<1> HIDE DEF c
<1>3. call'[r] = c /\ now' = now
  BY <1>1, <1>2, Unanswered, BecomeChanges
<1>4. Handled(r)'
  BY <1>1, <1>3 DEF Handled, At
<1> QED BY <1>1, <1>2, <1>4, Unanswered, BecomeKeeps

LEMMA RefuseKeeps ==
  ASSUME SessionInv, NEW r \in Requests, ~At(r, "done"), Refuse(r),
         call[r].token # Null => call[r].token.exp < now \/ UsedUp(call[r].token)
  PROVE  SessionInv'
<1> DEFINE c == Answered(r, "refused")
<1>1. /\ c \in Call /\ c.pc = "done" /\ c.answer = "refused" /\ c.token = call[r].token
      /\ c.user = call[r].user /\ c.row = Null /\ c.new = call[r].new /\ ~c.committed
  BY Unanswered, AnsweredIs
<1>2. Become(r, c)
  BY DEF Refuse
<1> HIDE DEF c
<1>3. call'[r] = c /\ now' = now /\ HandedOut \subseteq HandedOut'
  BY <1>1, <1>2, Unanswered, BecomeChanges
<1>4. Handled(r)'
  BY <1>1, <1>3, Unanswered DEF Handled, At
<1> QED BY <1>1, <1>2, <1>4, Unanswered, BecomeKeeps

LEMMA LookupKeeps ==
  ASSUME SessionInv, NEW r \in Requests, Lookup(r)
  PROVE  SessionInv'
<1>1. /\ ~At(r, "done") /\ call[r] \in Call /\ call[r].pc = "lookup" /\ Handled(r)
      /\ call[r].answer = "none" /\ ~call[r].committed
  BY Unanswered DEF Lookup, At
<1>2. call[r].token # Null /\ call[r].token \in HandedOut
  BY <1>1 DEF Handled
<1>3. CASE rows[call[r].token] = Null
  BY <1>1, <1>2, <1>3, HandedOutTokens, RefuseKeeps DEF Lookup
<1>4. CASE rows[call[r].token] # Null
  <2> DEFINE u == call[rows[call[r].token]].user
             c == [call[r] EXCEPT !.pc = "delete", !.user = u]
  <2>1. u = call[r].token.sub /\ u \in Users
    BY <1>2, <1>4, HandedOutTokens, TokenFields DEF SessionInv, TypeOK
  <2>2. /\ c \in Call /\ c.pc = "delete" /\ c.user = u /\ c.token = call[r].token
        /\ c.row = call[r].row /\ c.new = call[r].new /\ c.answer = call[r].answer /\ ~c.committed
    BY <1>1, <2>1 DEF Call
  <2>3. Become(r, c)
    BY <1>4 DEF Lookup
  <2> HIDE DEF c
  <2>4. call'[r] = c /\ now' = now /\ HandedOut \subseteq HandedOut'
    BY <1>1, <2>2, <2>3, BecomeChanges
  <2>5. Handled(r)'
    BY <1>1, <2>1, <2>2, <2>4, NullAssumption DEF Handled, At
  <2> QED BY <1>1, <2>2, <2>3, <2>5, BecomeKeeps
<1> QED BY <1>3, <1>4

LEMMA FindRowKeeps ==
  ASSUME SessionInv, NEW r \in Requests, FindRow(r)
  PROVE  SessionInv'
<1> DEFINE c == [call[r] EXCEPT !.pc = "deleting", !.row = rows[call[r].token]]
<1>1. /\ call[r] \in Call /\ call[r].pc = "delete" /\ Handled(r) /\ call[r].answer = "none"
      /\ ~call[r].committed
      /\ Become(r, c)
  BY Unanswered DEF FindRow, At
<1>2. rows[call[r].token] \in Requests \cup {Null}
  BY <1>1, HandedOutTokens DEF Handled, SessionInv, TypeOK
<1>3. /\ c \in Call /\ c.pc = "deleting" /\ c.user = call[r].user /\ c.token = call[r].token
      /\ c.kind = call[r].kind /\ c.new = call[r].new /\ c.answer = call[r].answer /\ ~c.committed
  BY <1>1, <1>2 DEF Call
<1> HIDE DEF c
<1>4. call'[r] = c /\ now' = now /\ HandedOut \subseteq HandedOut'
  BY <1>1, <1>3, BecomeChanges
<1>5. Handled(r)'
  BY <1>1, <1>3, <1>4 DEF Handled, At
<1> QED BY <1>1, <1>3, <1>5, BecomeKeeps

LEMMA DeleteRowKeeps ==
  ASSUME SessionInv, NEW r \in Requests, DeleteRow(r)
  PROVE  SessionInv'
<1> DEFINE c == [call[r] EXCEPT
                   !.pc = IF call[r].kind = "logout" THEN "commit" ELSE "create",
                   !.row = IF rows[call[r].token] = @ THEN @ ELSE Null]
<1>1. /\ call[r] \in Call /\ call[r].pc = "deleting" /\ Handled(r) /\ call[r].answer = "none"
      /\ ~call[r].committed
      /\ Become(r, c) /\ \A q \in Requests \ {r} : ~Deleter(call[r].row, q)
  BY Unanswered DEF DeleteRow, At
<1>2. /\ c \in Call /\ c.pc = (IF call[r].kind = "logout" THEN "commit" ELSE "create")
      /\ c.user = call[r].user /\ c.token = call[r].token /\ c.kind = call[r].kind
      /\ c.new = call[r].new /\ c.answer = call[r].answer /\ ~c.committed
      /\ c.row # Null => c.row = call[r].row /\ rows[c.token] = c.row
  BY <1>1 DEF Call
<1> HIDE DEF c
<1>3. call'[r] = c /\ now' = now /\ HandedOut \subseteq HandedOut'
  BY <1>1, <1>2, BecomeChanges
<1>4. c.new = Null
  BY <1>1, <1>2 DEF Handled
<1>5. Handled(r)'
  BY <1>1, <1>2, <1>3, <1>4 DEF Handled, At
<1> QED BY <1>1, <1>2, <1>4, <1>5, BecomeKeeps

LEMMA CreateKeeps ==
  ASSUME SessionInv, NEW r \in Requests, Create(r)
  PROVE  SessionInv'
<1> DEFINE t == Token(call[r].user, now)
           c == [call[r] EXCEPT !.pc = "insert", !.new = t]
<1>1. /\ call[r] \in Call /\ call[r].pc = "create" /\ Handled(r) /\ call[r].answer = "none"
      /\ ~call[r].committed
      /\ Become(r, c)
  BY Unanswered DEF Create, At
<1>2. call[r].user \in Users /\ now \in 0..MaxTime
  BY <1>1 DEF Handled, Call, SessionInv, TypeOK
<1>3. t \in Tokens /\ t.sub = call[r].user /\ t.exp = now + Lifetime
  BY <1>2, NewToken
<1> HIDE DEF t
<1>4. /\ c \in Call /\ c.pc = "insert" /\ c.user = call[r].user /\ c.token = call[r].token
      /\ c.kind = call[r].kind /\ c.new = t /\ c.answer = call[r].answer /\ ~c.committed /\ c.row = call[r].row
  BY <1>1, <1>3 DEF Call
<1> HIDE DEF c
<1>5. call'[r] = c /\ now' = now /\ HandedOut \subseteq HandedOut'
  BY <1>1, <1>4, BecomeChanges
<1>6. call[r].token # Null => call[r].token.exp <= t.exp
  BY <1>1, <1>3, HandedOutTokens DEF Handled
<1>7. t.exp <= now + Lifetime
  BY <1>2, <1>3, TimeAssumption
<1>8. Handled(r)'
  BY <1>1, <1>2, <1>3, <1>4, <1>5, <1>6, <1>7, NullAssumption DEF Handled, At
<1> QED BY <1>1, <1>4, <1>8, Unanswered, BecomeKeeps DEF At

LEMMA InsertKeeps ==
  ASSUME SessionInv, NEW r \in Requests, Insert(r)
  PROVE  SessionInv'
<1> DEFINE c == [call[r] EXCEPT !.pc = "commit"]
<1>1. /\ call[r] \in Call /\ call[r].pc = "insert" /\ Handled(r) /\ call[r].answer = "none"
      /\ ~call[r].committed
      /\ ~At(r, "done") /\ \A q \in Requests \ {r} : ~Inserter(call[r].new, q)
  BY Unanswered DEF Insert, At, MustWait
<1>2. CASE rows[call[r].new] \in {Null, call[r].row}
  <2>1. /\ c \in Call /\ c.pc = "commit" /\ c.user = call[r].user /\ c.token = call[r].token
        /\ c.kind = call[r].kind /\ c.new = call[r].new /\ c.answer = call[r].answer /\ ~c.committed
        /\ c.row = call[r].row
    BY <1>1 DEF Call
  <2>2. Become(r, c)
    BY <1>2 DEF Insert
  <2> HIDE DEF c
  <2>3. call'[r] = c /\ now' = now /\ HandedOut \subseteq HandedOut'
    BY <1>1, <2>1, <2>2, BecomeChanges
  <2>4. Handled(r)'
    BY <1>1, <2>1, <2>3 DEF Handled, At
  <2> QED BY <1>1, <1>2, <2>1, <2>2, <2>4, Unanswered, BecomeKeeps DEF At
<1>3. CASE rows[call[r].new] \notin {Null, call[r].row}
  BY <1>1, <1>3, ErrorKeeps DEF Insert
<1> QED BY <1>2, <1>3

----------------------------------------------------------------------------
(* The commit, which changes the table, and the clock *)

LEMMA CommitRows ==
  ASSUME SessionInv, NEW r \in Requests, NEW answer \in {"ok", "error"}, TakesEffect(r, answer)
  PROVE  /\ rows' \in [Tokens -> Requests \cup {Null}]
         /\ \A t \in Tokens : rows'[t] =
              IF t = call[r].new THEN r
              ELSE IF call[r].row # Null /\ t = call[r].token THEN Null ELSE rows[t]
<1>1. /\ call[r] \in Call /\ call[r].pc = "commit" /\ Handled(r) /\ TypeOK
      /\ call[r].row # Null => rows[call[r].token] = call[r].row
  BY Unanswered DEF TakesEffect, At, SessionInv
<1>2. call[r].row # Null => call[r].token \in Tokens
  BY <1>1 DEF Handled, Call
<1>3. ASSUME NEW t \in Tokens
      PROVE  AfterDelete(r)[t] =
               IF call[r].row # Null /\ t = call[r].token THEN Null ELSE rows[t]
  BY <1>1, <1>2, <1>3, RowsDiffer DEF AfterDelete
<1>4. \A t \in Tokens : rows'[t] = IF t = call[r].new THEN r ELSE AfterDelete(r)[t]
  BY DEF TakesEffect
<1>5. rows \in [Tokens -> Requests \cup {Null}]
  BY <1>1 DEF TypeOK
<1>6. rows' \in [Tokens -> Requests \cup {Null}]
  <2>1. \A t \in Tokens : rows'[t] \in Requests \cup {Null}
    BY <1>3, <1>4, <1>5
  <2>2. rows' = [t \in Tokens |-> IF t = call[r].new THEN r ELSE AfterDelete(r)[t]]
    BY DEF TakesEffect
  <2> QED BY <2>1, <2>2
<1> QED BY <1>3, <1>4, <1>6

LEMMA CommitKeeps ==
  ASSUME SessionInv, NEW r \in Requests, NEW answer \in {"ok", "error"}, TakesEffect(r, answer)
  PROVE  SessionInv'
<1>1. /\ call[r] \in Call /\ call[r].pc = "commit" /\ Handled(r) /\ call[r].answer = "none"
      /\ ~call[r].committed
      /\ TypeOK /\ call \in [Requests -> Call] /\ now' = now
      /\ call' = [call EXCEPT ![r] = [Answered(r, answer) EXCEPT !.committed = TRUE]]
  BY Unanswered DEF TakesEffect, At, SessionInv, TypeOK
<1>2. /\ call'[r].pc = "done" /\ call'[r].answer = answer /\ call'[r].committed
      /\ call'[r].token = call[r].token /\ call'[r].user = call[r].user
      /\ call'[r].row = Null /\ call'[r].new = call[r].new
      /\ call' \in [Requests -> Call] /\ \A q \in Requests \ {r} : call'[q] = call[q]
  <2> DEFINE b == Answered(r, answer)
             c == [b EXCEPT !.committed = TRUE]
  <2>0. /\ b \in Call /\ b.pc = "done" /\ b.answer = answer /\ b.token = call[r].token
        /\ b.user = call[r].user /\ b.row = Null /\ b.new = call[r].new
    BY <1>1, AnsweredIs
  <2> HIDE DEF b
  <2>1. /\ c \in Call /\ c.pc = "done" /\ c.answer = answer /\ c.committed
        /\ c.token = call[r].token /\ c.user = call[r].user /\ c.row = Null
        /\ c.new = call[r].new
    BY <2>0 DEF Call
  <2>2. call' = [call EXCEPT ![r] = c]
    BY <1>1 DEF b
  <2> HIDE DEF c
  <2> QED BY <1>1, <2>1, <2>2
<1>3. HandedOut \subseteq HandedOut' /\ \A t : UsedUp(t) => UsedUp(t)'
  BY <1>1, <1>2, AnswersStay
<1>4. UsedUp(call[r].token)'
  BY <1>2 DEF UsedUp
<1>5. /\ rows' \in [Tokens -> Requests \cup {Null}]
      /\ \A t \in Tokens : rows'[t] =
           IF t = call[r].new THEN r
           ELSE IF call[r].row # Null /\ t = call[r].token THEN Null ELSE rows[t]
  BY CommitRows
<1>6. r # Null /\ \A t \in Tokens : rows[t] # Null => rows[t] \in Requests \ {r}
  BY <1>1, NullAssumption DEF SessionInv, TypeOK, Stored
<1>7. TypeOK'
  <2> SUFFICES ASSUME NEW t \in Tokens, rows'[t] # Null
               PROVE  /\ call'[rows'[t]].new = t /\ call'[rows'[t]].user = t.sub
                      /\ t.exp <= now + Lifetime
    BY <1>1, <1>2, <1>5 DEF TypeOK
  <2>1. CASE t = call[r].new
    BY <1>1, <1>2, <1>5, <2>1, TokenFields DEF Handled
  <2>2. CASE t # call[r].new
    BY <1>1, <1>2, <1>5, <1>6, <2>2 DEF TypeOK
  <2> QED BY <2>1, <2>2
<1>8. Stored'
  BY <1>2, <1>5, <1>6 DEF SessionInv, Stored
<1>9. ASSUME NEW q \in Requests PROVE Handled(q)'
  <2>1. CASE q = r
    BY <1>1, <1>2, <1>3, <2>1 DEF Handled, At
  <2>2. CASE q # r
    <3>1. Handled(q) /\ call'[q] = call[q]
      BY <1>2, <2>2 DEF SessionInv
    <3> QED BY <1>1, <1>3, <3>1 DEF Handled, At
  <2> QED BY <2>1, <2>2
<1>10. DeletersHold'
  <2> SUFFICES ASSUME NEW q \in Requests, Deleter(call[q].row, q)'
               PROVE  /\ rows'[call[q].token] = call[q].row /\ call'[q] = call[q]
                      /\ \A p \in Requests : Deleter(call[q].row, p)' => p = q
    BY DEF DeletersHold
  <2>1. q # r /\ call'[q] = call[q] /\ Deleter(call[q].row, q)
    BY <1>2 DEF Deleter
  <2>2. rows[call[q].token] = call[q].row /\ call[q].row # Null /\ ~Deleter(call[q].row, r)
    BY <2>1 DEF SessionInv, DeletersHold, Deleter
  <2>3. call[q] \in Call /\ call[q].token \in Tokens
    BY <1>1, <2>2 DEF SessionInv, Handled, Call
  <2>4. call[r].row # call[q].row
    BY <1>1, <2>2 DEF Deleter
  <2>5. call[r].row # Null => rows[call[r].token] = call[r].row
    BY <1>1, Unanswered DEF At
  <2>6. call[q].token # call[r].new
    BY <1>1, <2>2, <2>3, <2>4, TokenFields DEF SessionInv, InsertersHold, At
  <2>7. rows'[call[q].token] = call[q].row
    BY <1>5, <2>2, <2>3, <2>4, <2>5, <2>6
  <2>8. \A p \in Requests : Deleter(call[q].row, p)' => Deleter(call[q].row, p)
    BY <1>2, <2>1 DEF Deleter
  <2> QED BY <2>1, <2>7, <2>8 DEF SessionInv, DeletersHold
<1>11. InsertersHold'
  <2> SUFFICES ASSUME NEW q \in Requests, At(q, "commit")', call'[q].new # Null
               PROVE  /\ rows'[call[q].new] \in {Null, call[q].row} /\ call'[q] = call[q]
                      /\ \A p \in Requests : Inserter(call[q].new, p)' => p = q
    BY DEF InsertersHold
  <2>1. q # r /\ call'[q] = call[q] /\ At(q, "commit") /\ call[q].new # Null
    BY <1>2 DEF At
  <2>2. rows[call[q].new] \in {Null, call[q].row} /\ ~Inserter(call[q].new, r)
    BY <2>1 DEF SessionInv, InsertersHold
  <2>3. call[q].new # call[r].new /\ call[q].new \in Tokens
    BY <1>1, <2>1, <2>2 DEF Inserter, At, Call
  <2>4. rows'[call[q].new] \in {Null, call[q].row}
    BY <1>5, <2>2, <2>3
  <2>5. \A p \in Requests : Inserter(call[q].new, p)' => Inserter(call[q].new, p)
    BY <1>2, <2>1 DEF Inserter, At
  <2> QED BY <2>1, <2>4, <2>5 DEF SessionInv, InsertersHold
<1>12. SessionsLast'
  <2> SUFFICES ASSUME NEW q \in Requests, call'[q].answer = "ok", call'[q].new # Null
               PROVE  rows'[call'[q].new] # Null \/ UsedUp(call[q].new)'
    BY DEF SessionsLast
  <2>1. call'[q].new \in Tokens
    BY <1>2 DEF Call
  <2>2. CASE call'[q].new = call[r].new
    BY <1>5, <1>6, <2>1, <2>2
  <2>3. CASE call'[q].new # call[r].new
    <3>1. /\ call'[q] = call[q] /\ (rows[call[q].new] # Null \/ UsedUp(call[q].new))
          /\ UsedUp(call[q].new) => UsedUp(call[q].new)'
      BY <1>2, <1>3, <2>3 DEF SessionInv, SessionsLast, UsedUp
    <3>2. call'[q].new = call[r].token => UsedUp(call[q].new)'
      BY <1>2, <3>1 DEF UsedUp
    <3> QED BY <1>5, <2>1, <2>3, <3>1, <3>2
  <2> QED BY <2>2, <2>3
<1>13. RefusedForCause'
  BY <1>1, <1>2, <1>3 DEF SessionInv, RefusedForCause
<1> QED BY <1>7, <1>8, <1>9, <1>10, <1>11, <1>12, <1>13 DEF SessionInv

LEMMA TickKeeps ==
  ASSUME SessionInv, Tick
  PROVE  SessionInv'
<1>1. /\ now \in Nat /\ now' = now + 1 /\ now' \in 0..MaxTime /\ call' = call /\ rows' = rows
      /\ call \in [Requests -> Call] /\ Lifetime \in Nat
  BY TimeAssumption DEF Tick, SessionInv, TypeOK
<1>2. ASSUME NEW t \in Tokens
      PROVE  /\ t.exp <= now + Lifetime => t.exp <= now' + Lifetime
             /\ t.exp < now => t.exp < now'
  BY <1>1, TokenFields
<1>3. TypeOK'
  BY <1>1, <1>2 DEF SessionInv, TypeOK
<1>4. ASSUME NEW q \in Requests PROVE Handled(q)'
  <2>1. call[q] \in Call /\ Handled(q)
    BY <1>1 DEF SessionInv
  <2>2. HandedOut' = HandedOut
    BY <1>1 DEF HandedOut
  <2>3. call[q].new # Null => call[q].new.exp <= now' + Lifetime
    BY <1>2, <2>1 DEF Handled, Call
  <2> QED BY <1>1, <2>1, <2>2, <2>3 DEF Handled, At
<1>5. Stored' /\ DeletersHold' /\ InsertersHold' /\ SessionsLast'
  BY <1>1 DEF SessionInv, Stored, DeletersHold, InsertersHold, SessionsLast, Deleter, Inserter,
              At, UsedUp
<1>6. RefusedForCause'
  BY <1>1, <1>2 DEF SessionInv, RefusedForCause, UsedUp, Call
<1> QED BY <1>3, <1>4, <1>5, <1>6 DEF SessionInv

LEMMA StepKeeps == SessionInv /\ [Next]_vars => SessionInv'
<1> SUFFICES ASSUME SessionInv, [Next]_vars PROVE SessionInv'
  OBVIOUS
<1>1. CASE Tick
  BY <1>1, TickKeeps
<1>2. ASSUME NEW r \in Requests, Submit(r) PROVE SessionInv'
  BY <1>2, LoginKeeps, PresentKeeps DEF Submit
<1>3. ASSUME NEW r \in Requests, Step(r) \/ CommitUnheard(r) PROVE SessionInv'
  BY <1>3, LookupKeeps, FindRowKeeps, DeleteRowKeeps, CreateKeeps, InsertKeeps, CommitKeeps
     DEF Step, Commit, CommitUnheard
<1>4. ASSUME NEW r \in Requests, Fails(r) PROVE SessionInv'
  BY <1>4, ErrorKeeps DEF Fails
<1>5. CASE UNCHANGED vars
  BY <1>5 DEF vars, SessionInv, TypeOK, Stored, Handled, DeletersHold, InsertersHold, SessionsLast,
              RefusedForCause, Deleter, Inserter, At, UsedUp, HandedOut
<1> QED BY <1>1, <1>2, <1>3, <1>4, <1>5 DEF Next

----------------------------------------------------------------------------
(* What the invariant says of two rotations that meet: each has deleted    *)
(* the row of its own token, so the one whose row is in the way presented  *)
(* the token that the other has made.                                      *)
LEMMA OrderedWaits == SessionInv => WaitsAscend
<1> SUFFICES ASSUME SessionInv, NEW r \in Requests, NEW q \in Requests, r # q,
                    At(r, "insert"), call[r].row # Null, Deleter(rows[call[r].new], q)
             PROVE  call[r].token.exp < call[q].token.exp
  BY DEF WaitsAscend
<1>1. /\ call[r] \in Call /\ Handled(r) /\ rows[call[r].token] = call[r].row
      /\ ~Deleter(call[r].row, q) /\ call[r].token \in Tokens /\ call[r].user # Null
  BY Unanswered DEF At, Handled, Call
<1>2. /\ call[q] \in Call /\ Handled(q) /\ rows[call[q].token] = call[q].row
      /\ call[q].row = rows[call[r].new] /\ call[q].row # Null /\ call[q].token \in Tokens
  BY Unanswered DEF At, Deleter, Handled, Call
<1>3. call[r].new # Null /\ call[r].new \in Tokens
  BY <1>1 DEF Handled, At, Call
<1>4. call[r].new = call[q].token
  BY <1>2, <1>3, RowsDiffer DEF SessionInv
<1>5. /\ call[r].token.exp <= call[q].token.exp
      /\ call[r].token.sub = call[q].token.sub
  BY <1>1, <1>2, <1>4, TokenFields DEF Handled
<1>6. call[r].token # call[q].token
  BY <1>1, <1>2
<1> QED BY <1>1, <1>2, <1>5, <1>6, TokenFields

(* The table, the rows and the answers fit together in every state of      *)
(* login, refresh and logout (user_service.py:93-124).                     *)
THEOREM SessionInvariant == Spec => []SessionInv
  BY InitHolds, StepKeeps, PTL DEF Spec

(* Every variable keeps its type, and every row is of the request that     *)
(* made its token (user_service.py:95-97).                                 *)
THEOREM SessionTypes == Spec => []TypeOK
  BY SessionInvariant, PTL DEF SessionInv

(* Only a transaction that takes effect, of a refresh or logout with that  *)
(* very token, ends a session, whatever overlaps with it or is rolled back *)
(* (user_service.py:99-113).                                               *)
THEOREM SessionsSurvive == Spec => []SessionsLast
  BY SessionInvariant, PTL DEF SessionInv

(* Nobody is sent to log in again over a token that is neither expired nor *)
(* used up by a transaction that took effect (auth.py:67).                 *)
THEOREM RefusalsJustified == Spec => []RefusedForCause
  BY SessionInvariant, PTL DEF SessionInv

(* A request that holds a deleted row and waits at its INSERT for another, *)
(* waits for one that presented a younger token, so the waits form no      *)
(* cycle (user_service.py:101-106).                                        *)
THEOREM WaitsDoNotCycle == Spec => []WaitsAscend
<1>1. SessionInv => WaitsAscend
  BY OrderedWaits
<1> QED BY <1>1, SessionInvariant, PTL
=============================================================================
