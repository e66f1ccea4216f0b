\* Two overlapping statements, one of them twice.
CONSTANTS
    c1 = c1
    c2 = c2
    d = d
    NoCard = NoCard
    NoBalance = NoBalance
    Cards = {c1, c2}
    Default = d
    Files <- Statements
    Series <- Uploaded
SPECIFICATION SeriesSpec
INVARIANT StoredOnce
\* The series ends.
CHECK_DEADLOCK FALSE
