\* Two uploads of any statement by any household, accounts created meanwhile,
\* and the summary of one of the batches asked for.
CONSTANTS
    u1 = u1
    u2 = u2
    u3 = u3
    h1 = h1
    h2 = h2
    c1 = c1
    c2 = c2
    p = p
    q = q
    r = r
    huge = huge
    NoHint = NoHint
    Uploads = {u1, u2}
    Households = {h1, h2}
    Refs = {c1, c2}
    Ops = {p, q, huge}
    Oversized = {huge}
    Files <- TenantFiles
    MaxRows = 2
SPECIFICATION SummarySpec
SYMMETRY HouseholdSymmetry
INVARIANTS
    TypeOK
    NoDuplicateRows
    NothingLost
    ReportExact
    FailedLeavesNothing
    RowsInTheirAccounts
    ReuploadInsertsNothing
    SummaryIsTrue
\* The uploads are finitely many: once all have ended nothing is left to do.
CHECK_DEADLOCK FALSE
