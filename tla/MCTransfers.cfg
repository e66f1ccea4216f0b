\* Five rows of two accounts.
CONSTANTS
    a = a
    b = b
    Accounts = {a, b}
    Window = 2
    Tables <- Lists
SPECIFICATION Spec
INVARIANTS
    TypeOK
    EachMatchedOnce
    NoTransferOverlooked
    BalanceUntouched
\* The function returns when every outgoing row has been looked at.
CHECK_DEADLOCK FALSE
