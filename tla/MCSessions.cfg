\* Two requests at once on a pool of one connection or of two.
CONSTANTS
    r1 = r1
    r2 = r2
    c1 = c1
    c2 = c2
    u1 = u1
    u2 = u2
    h1 = h1
    h2 = h2
    Nobody = Nobody
    Nowhere = Nowhere
    Requests = {r1, r2}
    Pools <- ThePools
    Users = {u1, u2}
    Households = {h1, h2}
    Refs = {1}
    Members <- TheMembers
SPECIFICATION FairSpec
INVARIANTS
    TypeOK
    NoForeignContext
    OnlyOwnRowsShown
    AnsweredIsStored
PROPERTIES
    EveryRequestIsServed
    ImplementsTenantStore
\* Every request comes to its end.
CHECK_DEADLOCK FALSE
