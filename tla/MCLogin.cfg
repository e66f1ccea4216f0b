\* Two requests, an invitation and a seed at once.
CONSTANTS
    r1 = r1
    r2 = r2
    i1 = i1
    s1 = s1
    ivan = ivan
    Ivan = Ivan
    olha = olha
    groceries = groceries
    Nobody = Nobody
    Requests = {r1, r2}
    Invitations = {i1}
    Seeds = {s1}
    Emails = {ivan, Ivan, olha}
    MailboxOf <- MCMailboxOf
    Senders <- MCSenders
    DevEmail = ivan
    Slugs = {groceries}
    Settings <- MCSettings
SPECIFICATION FairSpec
INVARIANTS
    TypeOK
    NobodyHalfRegistered
    PrincipalIsMember
PROPERTIES
    EveryLoginEnds
    ImplementsRegistration
\* Every actor comes to its end.
CHECK_DEADLOCK FALSE
