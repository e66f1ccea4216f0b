\* Three uploads of one household whose statements overlap in a ring, or have
\* too many rows.
CONSTANTS
    u1 = u1
    u2 = u2
    u3 = u3
    h1 = h1
    h2 = h2
    c1 = c1
    c2 = c2
    p = p
    q = q
    r = r
    huge = huge
    NoHint = NoHint
    Uploads = {u1, u2, u3}
    Households = {h1}
    Refs = {c1}
    Ops = {p, q, r}
    Oversized = {}
    Files <- RingFiles
    MaxRows = 2
SPECIFICATION FairSpec
PROPERTIES
    EveryUploadEnds
    RowsOnlyByCommit
    ImplementsLedger
\* The uploads are finitely many: once all have ended nothing is left to do.
CHECK_DEADLOCK FALSE
