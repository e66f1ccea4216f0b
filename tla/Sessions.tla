------------------------------ MODULE Sessions ------------------------------
(***************************************************************************)
(* The database sessions of a request (db/session.py) on the connections   *)
(* of the pool, and what row level security (migration 0002) lets the      *)
(* handlers see and write through them.                                    *)
(*                                                                         *)
(* A request of a registered person opens up to three sessions, one after  *)
(* the other, each with any connection that is free: an admin session that *)
(* looks the user up, an identity session that reads the memberships       *)
(* (get_principal), and a tenant session in which the handler works.  A    *)
(* readiness probe opens an admin session alone.  What a session sets with *)
(* set_config(..., true) lives until its transaction ends.                 *)
(***************************************************************************)
EXTENDS FiniteSets, Naturals

CONSTANTS
    Requests,
    Pools,        \* the sets of connections of each db_pool_size looked at
    Users, Households,
    Refs,         \* account_ref of an account, id of an import batch
    Members,      \* the rows of memberships
    Nobody, Nowhere

ASSUME NobodyIsNobody == Nobody \notin Requests \cup Users

ASSUME NowhereIsNowhere == Nowhere \notin Households

ASSUME SomeConnection == {} \notin Pools

Roles == {"owner", "member", "viewer"}

ASSUME MembersAreRows ==
    Members \subseteq [household : Households, user : Users, role : Roles]

Operations == {"list", "get", "create", "summary"}

Tables == {"accounts", "import_batches"}

\* A row, and the request that inserted it if it was one of these.
Rows == [table : Tables, household : Households, ref : Refs, by : Requests \cup {Nobody}]

\* The parameters app.household_id and app.user_id of a connection.
Contexts == [household : Households \cup {Nowhere}, user : Users \cup {Nobody}]

NoContext == [household |-> Nowhere, user |-> Nobody]

VARIABLES
    who,      \* the person of each request; Nobody sends the probes
    db,       \* committed rows
    holder,   \* the request that holds each connection, or Nobody
    context,  \* the parameters set in each connection
    pc,       \* what each request waits for or does
    belongs,  \* the memberships each request has read
    acting,   \* the membership each request was admitted with, at most one
    op,       \* what each request was admitted to do, at most one Operation
    mine,     \* the uncommitted rows of each request
    seen,     \* the rows the handler has got
    answer    \* how each request was answered

\* The connections of the pool.
Connections == DOMAIN holder

vars == <<who, db, holder, context, pc, belongs, acting, op, mine, seen, answer>>

\* A session is opened in the first five steps and used in the others.
Steps == {"probe", "resolve", "identify", "choose", "enter",
          "probing", "resolving", "identifying", "handling", "closing", "done"}

Answers == {"none", "ok", "degraded", "created", "forbidden", "not_found", "error"}

----------------------------------------------------------------------------
Goto(r, step) == pc' = [pc EXCEPT ![r] = step]

\* A bug of the session: set_config(..., false) outlives the transaction.
ContextKept(c) == context[c]

\* What remains of the parameters when the transaction ends.
ContextAfter(c) == NoContext

\* The session ends: its transaction does, and the connection is free.
Release(r) ==
    /\ holder' = [c \in Connections |-> IF holder[c] = r THEN Nobody ELSE holder[c]]
    /\ context' = [c \in Connections |-> IF holder[c] = r THEN ContextAfter(c) ELSE context[c]]

\* What the sessions set before anything else is executed in them.
Parameters(r) ==
    [household |-> IF pc[r] = "enter" THEN (CHOOSE m \in acting[r] : TRUE).household ELSE Nowhere,
     user |-> IF pc[r] = "identify" THEN who[r] ELSE Nobody]

\* A bug of the session: the id goes to the parameter of the other session.
MergeSwapped(old, new) ==
    [household |-> IF new.user = Nobody THEN old.household ELSE new.user,
     user |-> IF new.household = Nowhere THEN old.user ELSE new.household]

\* set_config touches the parameter it names.
Merge(old, new) ==
    [household |-> IF new.household = Nowhere THEN old.household ELSE new.household,
     user |-> IF new.user = Nobody THEN old.user ELSE new.user]

Opens == [probe |-> "probing", resolve |-> "resolving",
          identify |-> "identifying", enter |-> "handling"]

\* A bug of the migration: without FORCE the owner of a table sees it all.
VisibleToOwner(ctx) == db

\* The policies of the tables with a household_id, and of memberships.
Visible(ctx) == {row \in db : row.household = ctx.household}

VisibleMembers(ctx) == {m \in Members : m.household = ctx.household \/ m.user = ctx.user}

\* WITH CHECK of the same tables.
MayInsert(ctx, row) == row.household = ctx.household

ContextOf(r) == context[CHOOSE c \in Connections : holder[c] = r]

----------------------------------------------------------------------------
Init ==
    /\ who \in [Requests -> Users \cup {Nobody}]
    /\ db \in SUBSET {row \in Rows : row.by = Nobody}
    /\ \E pool \in Pools :
          /\ holder = [c \in pool |-> Nobody]
          /\ context = [c \in pool |-> NoContext]
    /\ pc = [r \in Requests |-> IF who[r] = Nobody THEN "probe" ELSE "resolve"]
    /\ belongs = [r \in Requests |-> {}]
    /\ acting = [r \in Requests |-> {}]
    /\ op = [r \in Requests |-> {}]
    /\ mine = [r \in Requests |-> {}]
    /\ seen = [r \in Requests |-> {}]
    /\ answer = [r \in Requests |-> "none"]

\* A connection is checked out, BEGIN and set_config are sent over it.
Open(r) ==
    /\ pc[r] \in DOMAIN Opens
    /\ \E c \in Connections :
          /\ holder[c] = Nobody
          /\ holder' = [holder EXCEPT ![c] = r]
          /\ context' = [context EXCEPT ![c] = Merge(@, Parameters(r))]
    /\ Goto(r, Opens[pc[r]])
    /\ UNCHANGED <<who, db, belongs, acting, op, mine, seen, answer>>

\* readyz, from SELECT 1 to the answer.
Probe(r) ==
    /\ pc[r] = "probing"
    /\ Release(r)
    /\ Goto(r, "done")
    /\ answer' = [answer EXCEPT ![r] = "ok"]
    /\ UNCHANGED <<who, db, belongs, acting, op, mine, seen>>

\* _resolve_user of a person who has an identity.
Resolve(r) ==
    /\ pc[r] = "resolving"
    /\ Release(r)
    /\ Goto(r, "identify")
    /\ UNCHANGED <<who, db, belongs, acting, op, mine, seen, answer>>

\* A bug of the code: the handler runs inside the identity session.
ReadMembershipsNested(r) ==
    /\ pc[r] = "identifying"
    /\ belongs' = [belongs EXCEPT ![r] = {m \in VisibleMembers(ContextOf(r)) : m.user = who[r]}]
    /\ Goto(r, "choose")
    /\ UNCHANGED <<who, db, holder, context, acting, op, mine, seen, answer>>

ReadMemberships(r) ==
    /\ pc[r] = "identifying"
    /\ belongs' = [belongs EXCEPT ![r] = {m \in VisibleMembers(ContextOf(r)) : m.user = who[r]}]
    /\ Release(r)
    /\ Goto(r, "choose")
    /\ UNCHANGED <<who, db, acting, op, mine, seen, answer>>

\* A bug of the routers: every operation asks for CurrentPrincipal only.
AllowedAll(m, o) == TRUE

\* create_account and batch_summary ask for WritePrincipal.
Allowed(m, o) == o \in {"create", "summary"} => m.role \in {"owner", "member"}

\* get_principal has chosen a membership, and the operation is permitted.
Admit(r) ==
    /\ pc[r] = "choose"
    /\ \E m \in belongs[r], o \in Operations :
          /\ Allowed(m, o)
          /\ acting' = [acting EXCEPT ![r] = {m}]
          /\ op' = [op EXCEPT ![r] = {o}]
    /\ Goto(r, "enter")
    /\ UNCHANGED <<who, db, holder, context, belongs, mine, seen, answer>>

\* No membership, or the role does not permit the operation.
Forbid(r) ==
    /\ pc[r] = "choose"
    /\ belongs[r] = {} \/ \E m \in belongs[r], o \in Operations : ~ Allowed(m, o)
    /\ Goto(r, "done")
    /\ answer' = [answer EXCEPT ![r] = "forbidden"]
    /\ UNCHANGED <<who, db, holder, context, belongs, acting, op, mine, seen>>

\* X-Household-Id names a household the person is no member of.
DenyHousehold(r) ==
    /\ pc[r] = "choose"
    /\ belongs[r] # {}
    /\ \E h \in Households : \A m \in belongs[r] : m.household # h
    /\ Goto(r, "done")
    /\ answer' = [answer EXCEPT ![r] = "not_found"]
    /\ UNCHANGED <<who, db, holder, context, belongs, acting, op, mine, seen>>

\* The handler has what it answers with, next the transaction commits.
Reply(r, text, rows) ==
    /\ seen' = [seen EXCEPT ![r] = rows]
    /\ answer' = [answer EXCEPT ![r] = text]
    /\ Goto(r, "closing")

\* list_accounts: a SELECT without WHERE.
ListAccounts(r) ==
    /\ pc[r] = "handling" /\ op[r] = {"list"}
    /\ Reply(r, "ok", {row \in Visible(ContextOf(r)) : row.table = "accounts"})
    /\ UNCHANGED <<who, db, holder, context, belongs, acting, op, mine>>

\* get_account and batch_summary: the row of a given id, of any household.
GetById(r) ==
    /\ pc[r] = "handling"
    /\ \E row \in Visible(ContextOf(r)) :
          /\ \/ op[r] = {"get"} /\ row.table = "accounts"
             \/ op[r] = {"summary"} /\ row.table = "import_batches"
          /\ Reply(r, "ok", {row})
    /\ UNCHANGED <<who, db, holder, context, belongs, acting, op, mine>>

\* The id of no row, or of a row that is not visible here.
NotFound(r) ==
    /\ pc[r] = "handling" /\ op[r] \in {{"get"}, {"summary"}}
    /\ Reply(r, "not_found", {})
    /\ UNCHANGED <<who, db, holder, context, belongs, acting, op, mine>>

\* uq_account_ref_per_household
SameKey(x, y) ==
    x.table = "accounts" /\ y.table = "accounts" /\ x.household = y.household /\ x.ref = y.ref

\* A bug of the schema: without the constraint an INSERT always succeeds.
InsertableAlways(r, row) == TRUE

\* An INSERT waits for the uncommitted row of another with the same key.
Insertable(r, row) ==
    /\ \A s \in Requests \ {r} : \A x \in mine[s] : ~ SameKey(x, row)
    /\ \A x \in db : ~ SameKey(x, row)

NewAccount(r, ref) ==
    [table |-> "accounts", ref |-> ref, by |-> r,
     household |-> (CHOOSE m \in acting[r] : TRUE).household]

\* create_account up to flush and refresh.
CreateAccount(r) ==
    /\ pc[r] = "handling" /\ op[r] = {"create"}
    /\ \E ref \in Refs :
          /\ MayInsert(ContextOf(r), NewAccount(r, ref))
          /\ Insertable(r, NewAccount(r, ref))
          /\ mine' = [mine EXCEPT ![r] = {NewAccount(r, ref)}]
          /\ Reply(r, "created", {NewAccount(r, ref)})
    /\ UNCHANGED <<who, db, holder, context, belongs, acting, op>>

\* Whatever ends the request with an error rolls its transaction back.
Fail(r) ==
    /\ Release(r)
    /\ Goto(r, "done")
    /\ answer' = [answer EXCEPT ![r] = "error"]
    /\ seen' = [seen EXCEPT ![r] = {}]
    /\ mine' = [mine EXCEPT ![r] = {}]
    /\ UNCHANGED <<who, db, belongs, acting, op>>

\* IntegrityError: the household has an account of that account_ref.
CreateConflict(r) ==
    /\ pc[r] = "handling" /\ op[r] = {"create"}
    /\ \E ref \in Refs : \E x \in db : SameKey(x, NewAccount(r, ref))
    /\ Fail(r)

\* A bug of the session: session.begin() is missing, close() rolls back.
CloseWithoutCommit(r) ==
    /\ pc[r] = "closing"
    /\ mine' = [mine EXCEPT ![r] = {}]
    /\ Release(r)
    /\ Goto(r, "done")
    /\ UNCHANGED <<who, db, belongs, acting, op, seen, answer>>

\* COMMIT (the rollback of a 404 has nothing to undo), then the response.
Close(r) ==
    /\ pc[r] = "closing"
    /\ db' = db \cup mine[r]
    /\ mine' = [mine EXCEPT ![r] = {}]
    /\ Release(r)
    /\ Goto(r, "done")
    /\ UNCHANGED <<who, belongs, acting, op, seen, answer>>

\* The connection breaks during COMMIT, when the database has done it.
LoseCommit(r) ==
    /\ pc[r] = "closing"
    /\ db' = db \cup mine[r]
    /\ Release(r)
    /\ Goto(r, "done")
    /\ answer' = [answer EXCEPT ![r] = "error"]
    /\ seen' = [seen EXCEPT ![r] = {}]
    /\ mine' = [mine EXCEPT ![r] = {}]
    /\ UNCHANGED <<who, belongs, acting, op>>

\* readyz catches what its session raises: no connection within the time the
\* pool allows, or one that breaks.  The answer is 200 and says "degraded".
ProbeFails(r) ==
    /\ \/ pc[r] = "probe" /\ \A c \in Connections : holder[c] # Nobody
       \/ pc[r] = "probing"
    /\ Release(r)
    /\ Goto(r, "done")
    /\ answer' = [answer EXCEPT ![r] = "degraded"]
    /\ UNCHANGED <<who, db, belongs, acting, op, mine, seen>>

\* The client goes away, or the connection breaks, while a session is open.
\* (In a probe only the former: a cancellation is no Exception.)
Abort(r) == (\E c \in Connections : holder[c] = r) /\ Fail(r)

\* The pool had no connection to give for too long.
PoolTimeout(r) ==
    /\ pc[r] \in DOMAIN Opens \ {"probe"}
    /\ \A c \in Connections : holder[c] # Nobody
    /\ Fail(r)

\* What the event loop, the pool and the database keep going.
Serve(r) ==
    \/ Open(r) \/ Probe(r) \/ Resolve(r) \/ ReadMemberships(r)
    \/ Admit(r) \/ Forbid(r) \/ DenyHousehold(r)
    \/ ListAccounts(r) \/ GetById(r) \/ NotFound(r) \/ CreateAccount(r) \/ CreateConflict(r)
    \/ Close(r)

Next == \E r \in Requests : 
    Serve(r) \/ LoseCommit(r) \/ ProbeFails(r) \/ Abort(r) \/ PoolTimeout(r)

Spec == Init /\ [][Next]_vars

FairSpec == Spec /\ \A r \in Requests : WF_vars(Serve(r))

----------------------------------------------------------------------------
TypeOK ==
    /\ who \in [Requests -> Users \cup {Nobody}]
    /\ db \subseteq Rows
    /\ Connections \in Pools
    /\ holder \in [Connections -> Requests \cup {Nobody}]
    /\ context \in [Connections -> Contexts]
    /\ pc \in [Requests -> Steps]
    /\ belongs \in [Requests -> SUBSET Members]
    /\ acting \in [Requests -> SUBSET Members]
    /\ op \in [Requests -> SUBSET Operations]
    /\ mine \in [Requests -> SUBSET Rows]
    /\ seen \in [Requests -> SUBSET Rows]
    /\ answer \in [Requests -> Answers]

\* A connection that goes back to the pool takes no tenant along, and while a
\* request uses it, it carries that request's household or person and none of
\* an earlier one (session.py:5-9).
NoForeignContext ==
    \A c \in Connections :
        IF holder[c] = Nobody
        THEN context[c] = NoContext
        ELSE /\ context[c].household # Nowhere =>
                   \E m \in acting[holder[c]] : m.household = context[c].household
             /\ context[c].user # Nobody => context[c].user = who[holder[c]]
             /\ context[c].household = Nowhere \/ context[c].user = Nobody

\* Whatever a handler answers with belongs to a household of the person who
\* asked, although list_accounts has no WHERE (accounts.py:21).
OnlyOwnRowsShown ==
    \A r \in Requests : \A row \in seen[r] :
        \E m \in Members : m.user = who[r] /\ m.household = row.household

\* An account that was answered with 201 is stored, one that was not answered
\* so is stored only if the connection broke during COMMIT, and no request
\* stores two.
AnsweredIsStored ==
    \A r \in Requests :
        /\ pc[r] = "done" /\ answer[r] = "created" => \E row \in db : row.by = r
        /\ \A row \in db : row.by = r => pc[r] = "done" /\ answer[r] \in {"created", "error"}
        /\ \A x, y \in db : x.by = r /\ y.by = r => x = y

\* Every request is answered without waiting for the pool to time out, however
\* small the pool: nobody holds a connection while waiting for another one.
EveryRequestIsServed == \A r \in Requests : <>(pc[r] = "done")

\* An answer counts once what the request stored is committed.
Store == INSTANCE TenantStore WITH
    FirstRows <- {row \in Rows : row.by = Nobody},
    rows      <- db,
    shown     <- [r \in Requests |-> IF mine[r] = {} THEN seen[r] ELSE {}],
    answer    <- [r \in Requests |-> IF mine[r] = {} THEN answer[r] ELSE "none"]

\* Sessions on shared connections with row level security have the effect of
\* a store that serves each request in one step, in one household of its
\* person: the role was read in a session that is closed when the handler
\* works, two creations at once leave one account of an account_ref, and what
\* is shown was stored in that household at one moment.
ImplementsTenantStore == Store!Spec

=============================================================================
