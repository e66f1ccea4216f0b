\* One statement, or two overlapping ones, the first of them twice.
CONSTANTS
    c1 = c1
    c2 = c2
    d = d
    NoCard = NoCard
    NoBalance = NoBalance
    Cards = {c1, c2}
    Default = d
    Files <- Statements
    Series <- Uploaded
SPECIFICATION SeriesSpec
INVARIANTS
    TypeOK
    ChainsStayWhole
    NeverMisattributed
    NeverContradicted
PROPERTY ReuploadAddsNothing
\* The series ends.
CHECK_DEADLOCK FALSE
