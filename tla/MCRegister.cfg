SPECIFICATION FairSpec
CONSTANTS
    ann = ann
    Ann = Ann
    bob = bob
    Requests = {r1, r2, r3}
    Emails <- TypedEmails
    Lower <- LowerCase
    Mobiles = {m1}
    Null = Null
    DbMayFail = TRUE
INVARIANTS TypeOK OneAccountEach WalletWithUser AnswersHold
PROPERTY RegistrationsAnswered
CHECK_DEADLOCK FALSE
