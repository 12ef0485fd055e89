------------------------------ MODULE Sessions ------------------------------
(* Login, refresh and logout on the table refresh_tokens.  A refresh token *)
(* is a JWT of its user and of its expiry in whole seconds, so two of one  *)
(* user made within one second are equal.  A request is one transaction    *)
(* under READ COMMITTED: it reads what is committed, a DELETE waits for    *)
(* the row it has found and deletes that row only, an INSERT waits for     *)
(* every uncommitted transaction that touches its unique key.              *)
EXTENDS Integers

CONSTANTS Requests,    \* calls of the three endpoints; also names table rows
          Users,       \* registered users
          Null,        \* Python's None
          Lifetime,    \* seconds for which a refresh token is valid
          MaxTime,     \* bound: the last second of a behaviour
          DbMayFail    \* whether statements and commits may raise

ASSUME TimeAssumption == Lifetime \in Nat /\ MaxTime \in Nat
ASSUME DbMayFailAssumption == DbMayFail \in BOOLEAN

VARIABLES
    now,   \* the second that the clock shows
    call,  \* [Requests -> the request, where it is, and its answer]
    rows   \* refresh_tokens: [Tokens -> the request that inserted it, or Null]

vars == <<now, call, rows>>

Token(u, second) == [sub |-> u, exp |-> second + Lifetime]
Tokens == {Token(u, s) : u \in Users, s \in 0..MaxTime}

ASSUME NullAssumption == Null \notin Requests \cup Users \cup Tokens

Call == [kind : {"none", "login", "refresh", "logout"},
         pc : {"idle", "lookup", "delete", "deleting", "create", "insert", "commit", "done"},
         user : Users \cup {Null},         \* whom the new token is for
         token : Tokens \cup {Null},       \* the token presented
         row : Requests \cup {Null},       \* the row found by DELETE, then deleted
         new : Tokens \cup {Null},         \* the token made
         committed : BOOLEAN,              \* whether its transaction took effect
         answer : {"none", "ok", "refused", "error"}]

NoCall == [kind |-> "none", pc |-> "idle", user |-> Null, token |-> Null,
           row |-> Null, new |-> Null, committed |-> FALSE, answer |-> "none"]

TypeOK ==
    /\ now \in 0..MaxTime
    /\ call \in [Requests -> Call]
    /\ rows \in [Tokens -> Requests \cup {Null}]
    /\ \A t \in Tokens : rows[t] # Null =>
           /\ call[rows[t]].new = t /\ call[rows[t]].user = t.sub
           /\ t.exp <= now + Lifetime

Init ==
    /\ now = 0
    /\ call = [r \in Requests |-> NoCall]
    /\ rows = [t \in Tokens |-> Null]

Tick == now < MaxTime /\ now' = now + 1 /\ UNCHANGED <<call, rows>>

At(r, pc) == call[r].pc = pc

Become(r, c) == call' = [call EXCEPT ![r] = c] /\ UNCHANGED <<now, rows>>

(* get_db rolls back on whatever exception leaves the handler: of an error *)
(* nothing remains, of another answer what it was about.                   *)
Answered(r, answer) == [call[r] EXCEPT !.pc = "done", !.row = Null, !.answer = answer]
Refuse(r) == Become(r, Answered(r, "refused"))
Error(r) == Become(r, [NoCall EXCEPT !.pc = "done", !.answer = "error"])

----------------------------------------------------------------------------
(* The clients know the tokens that were handed to them. *)
HandedOut == {call[r].new : r \in {q \in Requests : call[q].answer = "ok" /\ call[q].new # Null}}

(* jwt.decode: a token is good up to the end of the second in exp. *)
Expired(t) == t.exp < now

(* The password is checked before the token is made. *)
Login(r, u) ==
    /\ At(r, "idle")
    /\ \E answer \in {"none", "refused"} :
         Become(r, [NoCall EXCEPT !.kind = "login", !.user = u, !.answer = answer,
                                  !.pc = IF answer = "none" THEN "create" ELSE "done"])

Present(r, kind, t, pc) ==
    /\ At(r, "idle")
    /\ Become(r, [NoCall EXCEPT !.kind = kind, !.token = t,
                                !.pc = IF Expired(t) THEN "done" ELSE pc,
                                !.answer = IF Expired(t) THEN "refused" ELSE "none"])

Submit(r) ==
    \/ \E u \in Users : Login(r, u)
    \/ \E t \in HandedOut : Present(r, "refresh", t, "lookup") \/ Present(r, "logout", t, "delete")

----------------------------------------------------------------------------
(* The request whose transaction, still open, has deleted the row or       *)
(* inserted the token.                                                     *)
Deleter(row, q) == call[q].pc \in {"create", "insert", "commit"} /\ row # Null /\ call[q].row = row
Inserter(t, q) == At(q, "commit") /\ call[q].new = t

(* Mutant of Lookup: a row counts as gone once its deletion has begun. *)
LookupDirty(r) ==
    /\ At(r, "lookup")
    /\ IF rows[call[r].token] = Null \/ \E q \in Requests : Deleter(rows[call[r].token], q)
         THEN Refuse(r)
         ELSE Become(r, [call[r] EXCEPT !.pc = "delete", !.user = call[rows[call[r].token]].user])

Lookup(r) ==
    /\ At(r, "lookup")
    /\ IF rows[call[r].token] = Null THEN Refuse(r)
       ELSE Become(r, [call[r] EXCEPT !.pc = "delete", !.user = call[rows[call[r].token]].user])

(* DELETE ... WHERE token finds the committed row, *)
FindRow(r) ==
    /\ At(r, "delete")
    /\ Become(r, [call[r] EXCEPT !.pc = "deleting", !.row = rows[call[r].token]])

(* Mutant of DeleteRow: the delete does not wait for others. *)
DeleteRowAtOnce(r) ==
    /\ At(r, "deleting")
    /\ Become(r, [call[r] EXCEPT
         !.pc = IF call[r].kind = "logout" THEN "commit" ELSE "create",
         !.row = IF rows[call[r].token] = @ THEN @ ELSE Null])

(* and when nobody else is about to delete it, deletes it if it is there.  *)
DeleteRow(r) ==
    /\ At(r, "deleting")
    /\ \A q \in Requests \ {r} : ~Deleter(call[r].row, q)
    /\ Become(r, [call[r] EXCEPT
         !.pc = IF call[r].kind = "logout" THEN "commit" ELSE "create",
         !.row = IF rows[call[r].token] = @ THEN @ ELSE Null])

(* Mutant of Create: the expiry is rounded up to a full second. *)
CreateRoundedUp(r) ==
    /\ At(r, "create")
    /\ Become(r, [call[r] EXCEPT !.pc = "insert", !.new = Token(call[r].user, now + 1)])

(* create_refresh_token. *)
Create(r) ==
    /\ At(r, "create")
    /\ Become(r, [call[r] EXCEPT !.pc = "insert", !.new = Token(call[r].user, now)])

(* Mutant of MustWait: waits also for requests that are yet to insert. *)
WaitsForMakers(r) ==
    \E q \in Requests \ {r} : call[q].new = call[r].new /\ call[q].pc \in {"insert", "commit"}

MustWait(r) ==
    \E q \in Requests \ {r} :
        Inserter(call[r].new, q) \/ Deleter(rows[call[r].new], q)

(* The flush: the token may be there, unless the request has deleted it.   *)
Insert(r) ==
    /\ At(r, "insert")
    /\ ~MustWait(r)
    /\ IF rows[call[r].new] \in {Null, call[r].row}
         THEN Become(r, [call[r] EXCEPT !.pc = "commit"])
         ELSE Error(r)

(* Mutant of AfterDelete: every row of the user is deleted. *)
AfterDeleteAll(r) ==
    [t \in Tokens |-> IF call[r].row # Null /\ t.sub = call[r].token.sub THEN Null ELSE rows[t]]

(* A DELETE that came too late has no row. *)
AfterDelete(r) ==
    [t \in Tokens |-> IF call[r].row # Null /\ rows[t] = call[r].row THEN Null ELSE rows[t]]

TakesEffect(r, answer) ==
    /\ At(r, "commit")
    /\ call' = [call EXCEPT ![r] = [Answered(r, answer) EXCEPT !.committed = TRUE]]
    /\ rows' = [t \in Tokens |-> IF t = call[r].new THEN r ELSE AfterDelete(r)[t]]
    /\ UNCHANGED now

Commit(r) == TakesEffect(r, "ok")

(* The acknowledgement is lost: commit raises although it has succeeded.   *)
CommitUnheard(r) == DbMayFail /\ TakesEffect(r, "error")

Fails(r) == DbMayFail /\ ~At(r, "idle") /\ ~At(r, "done") /\ Error(r)

Step(r) == Lookup(r) \/ FindRow(r) \/ DeleteRow(r) \/ Create(r) \/ Insert(r) \/ Commit(r)

Next == Tick \/ \E r \in Requests : Submit(r) \/ Step(r) \/ CommitUnheard(r) \/ Fails(r)

Spec == Init /\ [][Next]_vars

(* The event loop runs every request; PostgreSQL wakes who waits. *)
FairSpec == Spec /\ \A r \in Requests : WF_vars(Step(r))

----------------------------------------------------------------------------
UsedUp(t) == \E q \in Requests : call[q].committed /\ call[q].token = t

(* A session lasts: the token that a login or a refresh answered is in the *)
(* table until the transaction of a refresh or a logout that presented it  *)
(* has taken effect.  Overlapping requests and those rolled back never     *)
(* cost a client its session; a refresh whose commit took effect without   *)
(* an answer does (user_service.py:100-106, user_service.py:110-113).      *)
SessionsLast ==
    \A r \in Requests : call[r].answer = "ok" /\ call[r].new # Null =>
        rows[call[r].new] # Null \/ UsedUp(call[r].new)

(* A client is told to log in again only if its token has expired or was   *)
(* used up by a transaction that took effect, heard of or not, and not     *)
(* because another request is about to use it up (auth.py:67,              *)
(* utils/security.py:33).                                                  *)
RefusedForCause ==
    \A r \in Requests : call[r].answer = "refused" /\ call[r].token # Null =>
        call[r].token.exp < now \/ UsedUp(call[r].token)

(* A request that has deleted its token and waits for the deletion of the  *)
(* row that is in its way, waits for one that deletes a younger token: as  *)
(* the clock does not run backwards, the waits form no cycle.              *)
WaitsAscend ==
    \A r, q \in Requests :
        r # q /\ At(r, "insert") /\ call[r].row # Null /\ Deleter(rows[call[r].new], q)
            => call[r].token.exp < call[q].token.exp

(* Every request is answered, whoever it had to wait for.                  *)
RequestsAnswered == \A r \in Requests : ~At(r, "idle") ~> At(r, "done")

----------------------------------------------------------------------------
(* What the invariants rest on.                                            *)

(* Rows are those that requests have inserted whose commit took effect. *)
Stored == \A t \in Tokens : rows[t] # Null => call[rows[t]].committed

(* A request presents a token that was handed out, for the user of that    *)
(* token, and makes one that is not older.                                 *)
Handled(r) ==
    /\ At(r, "done") <=> call[r].answer # "none"
    /\ call[r].committed => call[r].answer \in {"ok", "error"}
    /\ call[r].pc \in {"lookup", "delete", "deleting"} => call[r].token # Null
    /\ \/ call[r].pc \in {"create", "insert"}
       \/ call[r].pc \in {"delete", "deleting"} /\ call[r].kind # "logout"
       => call[r].user # Null
    /\ call[r].pc \in {"idle", "lookup", "delete", "deleting", "create"} => call[r].new = Null
    /\ call[r].pc = "insert" => call[r].new # Null
    /\ call[r].row # Null => call[r].token # Null
    /\ call[r].token # Null => call[r].token \in HandedOut
    /\ call[r].token # Null /\ call[r].user # Null => call[r].user = call[r].token.sub
    /\ call[r].new # Null => /\ call[r].user = call[r].new.sub
                             /\ call[r].new.exp <= now + Lifetime
                             /\ call[r].token # Null => call[r].token.exp <= call[r].new.exp

(* A row is deleted by one open transaction at a time, and stays until it  *)
(* commits.                                                                *)
DeletersHold ==
    \A r, q \in Requests : Deleter(call[r].row, r) =>
        /\ rows[call[r].token] = call[r].row
        /\ Deleter(call[r].row, q) => q = r

(* A token is inserted by one at a time, where nothing else is in its way. *)
InsertersHold ==
    \A r, q \in Requests : At(r, "commit") /\ call[r].new # Null =>
        /\ rows[call[r].new] \in {Null, call[r].row}
        /\ Inserter(call[r].new, q) => q = r

SessionInv ==
    /\ TypeOK
    /\ Stored
    /\ \A r \in Requests : Handled(r)
    /\ DeletersHold
    /\ InsertersHold
    /\ SessionsLast
    /\ RefusedForCause
=============================================================================
