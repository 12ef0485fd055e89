---------------------------- MODULE Registration ----------------------------
(* POST /auth/register: emails and mobiles are first looked up, then       *)
(* inserted.  Between the two lies the hashing of the password, and only   *)
(* the unique indexes of the users table keep two requests apart.          *)
EXTENDS Naturals

CONSTANTS Requests,    \* register requests; also names the users they create
          Emails,      \* addresses as typed
          Lower(_),    \* str.lower
          Mobiles,     \* mobile numbers that pass the validator
          Null,        \* Python's None
          DbMayFail    \* whether a statement or commit may raise

ASSUME LowerAssumption ==
    \A e \in Emails : Lower(e) \in Emails /\ Lower(Lower(e)) = Lower(e)
ASSUME DbMayFailAssumption == DbMayFail \in BOOLEAN

VARIABLES
    request,  \* [Requests -> where create_user is, its payload, the answer]
    users,    \* [Requests -> the committed row of the user it created, or Null]
    wallets   \* the users that have a committed wallet

vars == <<request, users, wallets>>

Payload == [email : Emails, mobile : Mobiles \cup {Null}]
UserRow == [email : {Lower(e) : e \in Emails}, mobile : Mobiles \cup {Null}]
ASSUME NullAssumption == Null \notin Mobiles /\ Null \notin UserRow

Answer == {"none", "created", "email_taken", "mobile_taken", "error"}
RequestPc == {"idle", "email", "mobile", "insert", "commit", "refresh", "done"}
RequestState == [pc : RequestPc, payload : Payload, answer : Answer]

TypeOK ==
    /\ request \in [Requests -> RequestState]
    /\ \A r \in Requests : users[r] = Null \/ users[r] \in UserRow
    /\ DOMAIN users = Requests
    /\ wallets \subseteq Requests

Init ==
    /\ request \in [Requests -> {[pc |-> "idle", payload |-> p, answer |-> "none"] : p \in Payload}]
    /\ users = [r \in Requests |-> Null]
    /\ wallets = {}

Committed == {r \in Requests : users[r] # Null}
At(r, pc) == request[r].pc = pc

Goto(r, pc) ==
    /\ request' = [request EXCEPT ![r].pc = pc]
    /\ UNCHANGED <<users, wallets>>

Finish(r, answer) == request' = [request EXCEPT ![r].pc = "done", ![r].answer = answer]

(* get_db rolls back whatever create_user leaves by an exception. *)
Refuse(r, answer) == Finish(r, answer) /\ UNCHANGED <<users, wallets>>

----------------------------------------------------------------------------
(* Mutant of NewRow: the address is stored as typed. *)
RowAsTyped(r) == request[r].payload

NewRow(r) == [email |-> Lower(request[r].payload.email), mobile |-> request[r].payload.mobile]

Submit(r) == At(r, "idle") /\ Goto(r, "email")

EmailTaken(r) == \E u \in Committed : users[u].email = Lower(request[r].payload.email)
MobileTaken(r) == \E u \in Committed : users[u].mobile = request[r].payload.mobile

CheckEmail(r) ==
    /\ At(r, "email")
    /\ IF EmailTaken(r) THEN Refuse(r, "email_taken")
       ELSE Goto(r, IF request[r].payload.mobile = Null THEN "insert" ELSE "mobile")

CheckMobile(r) ==
    /\ At(r, "mobile")
    /\ IF MobileTaken(r) THEN Refuse(r, "mobile_taken") ELSE Goto(r, "insert")

(* Rows that one of the unique indexes does not let stand side by side;    *)
(* NULL equals nothing.                                                    *)
Collide(a, b) == a.email = b.email \/ (a.mobile # Null /\ a.mobile = b.mobile)

(* Mutants of MustWait: an index that is not unique; and keys that are     *)
(* claimed before they are inserted.                                       *)
NeverWaits(r) == FALSE
WaitsForClaims(r) ==
    \E q \in Requests \ {r} : request[q].pc \in {"insert", "commit"} /\ Collide(NewRow(q), NewRow(r))

(* An INSERT waits for the transaction of an uncommitted row with its key. *)
MustWait(r) == \E q \in Requests \ {r} : At(q, "commit") /\ Collide(NewRow(q), NewRow(r))

(* Mutant of Insert: every IntegrityError is taken for a known address. *)
InsertBlamesEmail(r) ==
    /\ At(r, "insert")
    /\ ~MustWait(r)
    /\ IF \E u \in Committed : Collide(users[u], NewRow(r))
         THEN Refuse(r, "email_taken")
         ELSE Goto(r, "commit")

(* The flush, once the password is hashed.  A key that was committed since *)
(* the lookups raises IntegrityError, here and not at the commit below.    *)
(* The entries in the two indexes are one step: every INSERT makes them in *)
(* the same order, so that no two wait for each other between them.        *)
Insert(r) ==
    /\ At(r, "insert")
    /\ ~MustWait(r)
    /\ IF \E u \in Committed : Collide(users[u], NewRow(r))
         THEN Refuse(r, "error")
         ELSE Goto(r, "commit")

(* Mutant of Commit: the wallet is left to a transaction of its own. *)
CommitUser(r) ==
    /\ At(r, "commit")
    /\ request' = [request EXCEPT ![r].pc = "refresh"]
    /\ users' = [users EXCEPT ![r] = NewRow(r)]
    /\ UNCHANGED wallets

(* The user and the wallet are one transaction; the second commit, the one *)
(* within the try, finds nothing to do.                                    *)
Commit(r) ==
    /\ At(r, "commit")
    /\ request' = [request EXCEPT ![r].pc = "refresh"]
    /\ users' = [users EXCEPT ![r] = NewRow(r)]
    /\ wallets' = wallets \cup {r}

Refresh(r) == At(r, "refresh") /\ Refuse(r, "created")

(* A statement or the commit raises.  A failing refresh comes too late to  *)
(* undo anything: the user exists although the answer is an error.         *)
Fails(r) == DbMayFail /\ ~At(r, "idle") /\ ~At(r, "done") /\ Refuse(r, "error")

Step(r) == CheckEmail(r) \/ CheckMobile(r) \/ Insert(r) \/ Commit(r) \/ Refresh(r)

Next == \E r \in Requests : Submit(r) \/ Step(r) \/ Fails(r)

Spec == Init /\ [][Next]_vars

(* The event loop runs every request; PostgreSQL wakes who waits. *)
FairSpec == Spec /\ \A r \in Requests : WF_vars(Step(r))

----------------------------------------------------------------------------
(* No two users share an email address, in whatever case it was typed, or  *)
(* a mobile number: the lookups, the stored form and the indexes agree     *)
(* (user_service.py:30, user_service.py:41).                               *)
OneAccountEach ==
    \A u, v \in Committed : u # v =>
        /\ Lower(request[u].payload.email) # Lower(request[v].payload.email)
        /\ request[u].payload.mobile # Null =>
               request[u].payload.mobile # request[v].payload.mobile

(* Users and wallets appear together: whatever fails, nobody can log in    *)
(* without a wallet to trade from (user_service.py:46-54).                 *)
WalletWithUser == wallets = Committed

(* The answer is true: who is told that the account was created has it, in *)
(* the form that a login looks up, and who is refused meets one that has   *)
(* the address or the number (user_service.py:125, user_service.py:132).   *)
AnswersHold ==
    \A r \in Requests :
        /\ request[r].answer = "created" => users[r] = NewRow(r)
        /\ request[r].answer = "email_taken" => r \notin Committed /\ EmailTaken(r)
        /\ request[r].answer = "mobile_taken" => r \notin Committed /\ MobileTaken(r)

(* Every request is answered: inserts that wait for each other's keys do   *)
(* not wait for ever (user_service.py:46).                                 *)
RegistrationsAnswered == \A r \in Requests : At(r, "email") ~> At(r, "done")

----------------------------------------------------------------------------
(* What the invariants rest on.                                            *)

(* A request commits its own row, once, and then only waits to answer.     *)
OwnRow ==
    \A r \in Requests :
        /\ users[r] # Null => users[r] = NewRow(r) /\ request[r].pc \in {"refresh", "done"}
        /\ request[r].pc = "refresh" => users[r] # Null
        /\ request[r].answer # "none" => request[r].pc = "done"

Inserted(r) == users[r] # Null \/ At(r, "commit")

(* The indexes keep apart what is committed and what is inserted.          *)
IndexesUnique ==
    \A q, r \in Requests : q # r /\ Inserted(q) /\ Inserted(r) => ~Collide(NewRow(q), NewRow(r))

RegistrationInv ==
    /\ TypeOK
    /\ OwnRow
    /\ IndexesUnique
    /\ WalletWithUser
    /\ AnswersHold
=============================================================================
