SPECIFICATION Spec
CONSTANTS
    Calls = {c1, c2, c3}
    Users = {u1, u2}
    Unopened = {u2}
    OpeningBalance = 2
    Amounts <- SomeAmounts
    MaxMoney = 8
    Null = Null
    DbMayFail = TRUE
SYMMETRY CallsAlike
INVARIANTS TypeOK HistoryChains AnswersTrue
CHECK_DEADLOCK FALSE
