------------------------------- MODULE Login -------------------------------
(***************************************************************************)
(* How a person becomes a user with a household: the logins of the API     *)
(* (get_principal and _resolve_user, api/deps.py), the invitations of the  *)
(* operator (scripts/invite.py) and the seed (scripts/seed.py), each in a  *)
(* transaction of its own.                                                 *)
(*                                                                         *)
(* A request finds its user by identity, else by email, else registers     *)
(* one, and links the identity; a second transaction reads the memberships *)
(* and chooses the household the request will act for.  The browser sends  *)
(* several requests at once, the first ones of a person too.  The seed     *)
(* stores the global categories and, locally, a user for development.      *)
(*                                                                         *)
(* users.email is CITEXT: spellings of one mailbox in capitals and small   *)
(* letters are one key.  The models call it a String (models.py:45), and a *)
(* parameter sent as VARCHAR makes the comparison in a SELECT tell them    *)
(* apart, which depends on the driver: both are possible here.             *)
(*                                                                         *)
(* Statements see committed rows and those of their own transaction.  An   *)
(* INSERT waits while another open transaction holds a row with the same   *)
(* unique key and fails once such a row is committed.                      *)
(***************************************************************************)
EXTENDS FiniteSets

CONSTANTS
    Requests,
    Invitations,  \* runs of scripts/invite.py
    Seeds,        \* runs of scripts/seed.py
    Emails,
    MailboxOf,    \* the mailbox each email is a spelling of
    Senders,      \* who may send what: functions from actors to emails
    DevEmail,     \* dev@example.com
    Slugs,        \* of the categories in seeds/categories.yaml
    Settings,     \* values of config.Settings
    Nobody

Actors == Requests \cup Invitations \cup Seeds

\* An actor creates at most one user and one household, named after it.
Ids == Actors

ASSUME ActorsDiffer ==
    Requests \cap Invitations = {} /\ (Requests \cup Invitations) \cap Seeds = {}

Modes == {"cf_access", "dev", "oidc"}

ASSUME SettingsAreSettings ==
    Settings \subseteq [auth_mode : Modes, local : BOOLEAN, configured : BOOLEAN, invite_only : BOOLEAN]

ASSUME SendersAreSenders ==
    Senders \subseteq {f \in [Actors -> Emails] : \A s \in Seeds : f[s] = DevEmail}

ASSUME NobodyIsNobody == Nobody \notin Ids

Roles == {"owner", "member"}

\* Rows of the tables.
User(u, e) == [table |-> "users", id |-> u, email |-> e]
Identity(p, e, u) == [table |-> "identities", provider |-> p, subject |-> e, user |-> u]
Household(h) == [table |-> "households", id |-> h]
Membership(h, u, role) == [table |-> "memberships", household |-> h, user |-> u, role |-> role]
Category(slug) == [table |-> "categories", slug |-> slug]

Rows == {User(u, e) : u \in Ids, e \in Emails}
            \cup {Identity(p, e, u) : p \in {"cf_access", "dev"}, e \in Emails, u \in Ids}
            \cup {Household(h) : h \in Ids}
            \cup {Membership(h, u, role) : h \in Ids, u \in Ids, role \in Roles}
            \cup {Category(slug) : slug \in Slugs}

\* A bug of the schema: users.email as the models declare it, a VARCHAR.
SameKeyBySpelling(x, y) ==
    /\ x.table = y.table
    /\ \/ x.table = "users" /\ x.email = y.email
       \/ x.table = "identities" /\ x.provider = y.provider /\ x.subject = y.subject
       \/ x.table = "memberships" /\ x.household = y.household /\ x.user = y.user
       \/ x.table = "categories" /\ x.slug = y.slug

\* The unique keys: users.email, (provider, subject), (household_id, user_id)
\* and the slug of a category of no household.
SameKey(x, y) ==
    /\ x.table = y.table
    /\ \/ x.table = "users" /\ MailboxOf[x.email] = MailboxOf[y.email]
       \/ x.table = "identities" /\ x.provider = y.provider /\ x.subject = y.subject
       \/ x.table = "memberships" /\ x.household = y.household /\ x.user = y.user
       \/ x.table = "categories" /\ x.slug = y.slug

VARIABLES
    settings,   \* get_settings(), read once from the environment
    email,      \* whose request or invitation it is
    db,         \* committed rows
    mine,       \* the uncommitted rows of each actor's transaction
    pc,         \* what each actor does next
    me,         \* the user each actor found or created
    answer,     \* how the authentication of each request ended
    principal   \* whom each request acts for, at most one Principal

given == <<settings, email>>

vars == <<given, db, mine, pc, me, answer, principal>>

Steps == {"headers", "identity", "user", "create", "household", "link", "categories", "demo",
          "commit", "choose", "done"}

Principals == [user : Ids, household : Ids, role : Roles]

\* The answers with a status of 4xx, and those of 5xx or none at all, are one.
Answers == {"none", "ok", "refused", "failed"}

----------------------------------------------------------------------------
\* An INSERT of row by a has to wait for another transaction.
Waits(a, row) == \E b \in Actors \ {a} : \E x \in mine[b] : SameKey(x, row)

\* An INSERT of row fails.
Taken(row) == \E x \in db : SameKey(x, row)

Insertable(a, row) == ~ Waits(a, row) /\ ~ Taken(row)

Goto(a, step) == pc' = [pc EXCEPT ![a] = step]

Answer(a, text) == answer' = IF a \in Requests THEN [answer EXCEPT ![a] = text] ELSE answer

Adds(a, new) == mine' = [mine EXCEPT ![a] = mine[a] \cup new]

\* The transaction ends without a trace, and the actor with it.
Rollback(a, text) ==
    /\ Goto(a, "done")
    /\ Answer(a, text)
    /\ mine' = [mine EXCEPT ![a] = {}]
    /\ UNCHANGED <<given, db, me, principal>>

----------------------------------------------------------------------------
FirstStep(a) ==
    IF a \in Requests THEN "headers" ELSE IF a \in Invitations THEN "user" ELSE "categories"

Init ==
    /\ settings \in Settings
    /\ email \in Senders
    /\ db = {}
    /\ mine = [a \in Actors |-> {}]
    /\ pc = [a \in Actors |-> FirstStep(a)]
    /\ me = [a \in Actors |-> Nobody]
    /\ answer = [r \in Requests |-> "none"]
    /\ principal = [r \in Requests |-> {}]

\* The Access token or, locally, X-Dev-User names the person.
Trusted ==
    \/ settings.auth_mode = "cf_access" /\ settings.configured
    \/ settings.auth_mode = "dev" /\ settings.local

Authenticate(r) ==
    /\ pc[r] = "headers" /\ Trusted
    /\ Goto(r, "identity")
    /\ UNCHANGED <<given, db, mine, me, answer, principal>>

\* 401: a header that is missing, a token that is not valid or names no email.
Unauthorized(r) ==
    /\ pc[r] = "headers" /\ (Trusted \/ settings.auth_mode = "cf_access")
    /\ Rollback(r, "refused")

\* 500: Access without its settings, dev outside local; 501: oidc.
Misconfigured(r) ==
    /\ pc[r] = "headers" /\ ~ Trusted
    /\ Rollback(r, "failed")

\* The row of identities the request would be known by.
MyIdentity(r, u) == Identity(settings.auth_mode, email[r], u)

\* SELECT from identities; the transaction of a known person ends here.
FindIdentity(r) ==
    /\ pc[r] = "identity"
    /\ \/ \E u \in Ids : /\ MyIdentity(r, u) \in db
                         /\ me' = [me EXCEPT ![r] = u]
                         /\ Goto(r, "choose")
       \/ /\ ~ \E u \in Ids : MyIdentity(r, u) \in db
          /\ Goto(r, "user")
          /\ UNCHANGED me
    /\ UNCHANGED <<given, db, mine, answer, principal>>

\* SELECT from users by email, found at least when it is spelled alike.
FindUser(a) ==
    /\ pc[a] = "user"
    /\ \E x \in db : /\ SameKey(x, User(a, email[a]))
                     /\ me' = [me EXCEPT ![a] = x.id]
    /\ Goto(a, IF a \in Requests THEN "link" ELSE "household")
    /\ UNCHANGED <<given, db, mine, answer, principal>>

NoUser(a) ==
    /\ pc[a] = "user"
    /\ ~ \E u \in Ids : User(u, email[a]) \in db

\* Strangers are turned away while invite_only is set.
TurnAway(r) == NoUser(r) /\ r \in Requests /\ settings.invite_only /\ Rollback(r, "refused")

\* Otherwise, and by an invitation, a user is created.
DecideToCreate(a) ==
    /\ NoUser(a)
    /\ a \in Requests => ~ settings.invite_only
    /\ Goto(a, "create")
    /\ UNCHANGED <<given, db, mine, me, answer, principal>>

\* A bug of the code: the user is committed before the household exists.
CreateUserAtOnce(a) ==
    /\ pc[a] = "create"
    /\ Insertable(a, User(a, email[a]))
    /\ db' = db \cup {User(a, email[a])}
    /\ me' = [me EXCEPT ![a] = a]
    /\ Goto(a, "household")
    /\ UNCHANGED <<given, mine, answer, principal>>

\* A bug of the code: without the flush the new user has no id yet.
CreateUserUnflushed(a) ==
    /\ pc[a] = "create"
    /\ Insertable(a, User(a, email[a]))
    /\ Adds(a, {User(a, email[a])})
    /\ Goto(a, "household")
    /\ UNCHANGED <<given, db, me, answer, principal>>

CreateUser(a) ==
    /\ pc[a] = "create"
    /\ Insertable(a, User(a, email[a]))
    /\ Adds(a, {User(a, email[a])})
    /\ me' = [me EXCEPT ![a] = a]
    /\ Goto(a, "household")
    /\ UNCHANGED <<given, db, answer, principal>>

\* The household is inserted under its own, new tenant context.
CreateHousehold(a) ==
    /\ pc[a] = "household"
    /\ Adds(a, {Household(a)} \cup (IF a \in Invitations THEN {Membership(a, me[a], "owner")} ELSE {}))
    /\ Goto(a, IF a \in Requests THEN "link" ELSE "commit")
    /\ UNCHANGED <<given, db, me, answer, principal>>

\* invite --join: a membership of an existing household, unless there is one.
Join(i) ==
    /\ i \in Invitations
    /\ pc[i] = "household"
    /\ \E h \in Ids :
          LET row == Membership(h, me[i], "member")
          IN  /\ Household(h) \in db
              /\ ~ Waits(i, row)
              /\ Adds(i, IF Taken(row) THEN {} ELSE {row})
    /\ Goto(i, "commit")
    /\ UNCHANGED <<given, db, me, answer, principal>>

\* invite --join with an id that is no household: the foreign key fails.
JoinUnknown(i) ==
    /\ i \in Invitations
    /\ pc[i] = "household"
    /\ \E h \in Ids : Household(h) \notin db
    /\ Rollback(i, "failed")

\* The last flush: the identity, and the membership of a household created.
Link(r) ==
    /\ pc[r] = "link"
    /\ Insertable(r, MyIdentity(r, me[r]))
    /\ Adds(r, {MyIdentity(r, me[r])}
                   \cup (IF Household(r) \in mine[r] THEN {Membership(r, me[r], "owner")} ELSE {}))
    /\ Goto(r, "commit")
    /\ UNCHANGED <<given, db, me, answer, principal>>

\* IntegrityError: someone else committed the key first.
Conflict(a) ==
    /\ \/ pc[a] = "create" /\ Taken(User(a, email[a]))
       \/ pc[a] = "link" /\ Taken(MyIdentity(a, me[a]))
    /\ Rollback(a, "failed")

\* The seed: categories of no household, each ON CONFLICT DO NOTHING.
SeedCategories(s) ==
    /\ pc[s] = "categories"
    /\ \A slug \in Slugs : ~ Waits(s, Category(slug))
    /\ Adds(s, {Category(slug) : slug \in {x \in Slugs : ~ Taken(Category(x))}})
    /\ Goto(s, IF settings.local THEN "demo" ELSE "commit")
    /\ UNCHANGED <<given, db, me, answer, principal>>

\* And locally a user with a household and an identity, unless the email is
\* there.  Once the user is inserted no one else can hold the other keys.
SeedDemo(s) ==
    /\ pc[s] = "demo"
    /\ ~ Waits(s, User(s, DevEmail))
    /\ Adds(s, IF Taken(User(s, DevEmail)) THEN {}
               ELSE {User(s, DevEmail), Household(s), Membership(s, s, "owner"),
                     Identity("dev", DevEmail, s)})
    /\ Goto(s, "commit")
    /\ UNCHANGED <<given, db, me, answer, principal>>

Commit(a) ==
    /\ pc[a] = "commit"
    /\ db' = db \cup mine[a]
    /\ mine' = [mine EXCEPT ![a] = {}]
    /\ Goto(a, IF a \in Requests THEN "choose" ELSE "done")
    /\ UNCHANGED <<given, me, answer, principal>>

\* A bug of the session: it is not closed, its rows stay locked.
AbortUnclosed(a) ==
    /\ pc[a] \notin {"headers", "choose", "done"}
    /\ Goto(a, "done")
    /\ Answer(a, "failed")
    /\ UNCHANGED <<given, db, mine, me, principal>>

\* The process or the connection dies while the transaction is open.
Abort(a) == pc[a] \notin {"headers", "choose", "done"} /\ Rollback(a, "failed")

\* A bug of the query: memberships of anybody, not of the user.
BelongsAnyone(r) == {m \in db : m.table = "memberships"}

\* get_principal: a second transaction reads the memberships of the user.
\* Its 403 when there are none cannot happen: nobody is half registered and
\* no code removes a membership.  EveryLoginEnds would fail if it could.
Belongs(r) == {m \in db : m.table = "memberships" /\ m.user = me[r]}

\* X-Household-Id names one of them, or it is missing and the database's
\* first row counts.
Choose(r) ==
    /\ pc[r] = "choose"
    /\ \E m \in Belongs(r) :
          principal' = [principal EXCEPT ![r] =
                           {[user |-> me[r], household |-> m.household, role |-> m.role]}]
    /\ Answer(r, "ok")
    /\ Goto(r, "done")
    /\ UNCHANGED <<given, db, mine, me>>

\* X-Household-Id is no UUID (400), or a household that is not the user's (404).
ChooseForeign(r) ==
    /\ pc[r] = "choose"
    /\ Belongs(r) # {}
    /\ Answer(r, "refused")
    /\ Goto(r, "done")
    /\ UNCHANGED <<given, db, mine, me, principal>>

\* What the event loop and the database keep going.
Serve(a) ==
    \/ Authenticate(a) \/ Unauthorized(a) \/ Misconfigured(a)
    \/ FindIdentity(a) \/ FindUser(a) \/ TurnAway(a) \/ DecideToCreate(a)
    \/ CreateUser(a) \/ CreateHousehold(a) \/ Join(a) \/ JoinUnknown(a) \/ Link(a) \/ Conflict(a)
    \/ SeedCategories(a) \/ SeedDemo(a) \/ Commit(a) \/ Choose(a) \/ ChooseForeign(a)

Next == \E a \in Actors : Serve(a) \/ Abort(a)

Spec == Init /\ [][Next]_vars

FairSpec == Spec /\ \A a \in Actors : WF_vars(Serve(a))

----------------------------------------------------------------------------
TypeOK ==
    /\ settings \in Settings
    /\ email \in Senders
    /\ db \subseteq Rows
    /\ mine \in [Actors -> SUBSET Rows]
    /\ pc \in [Actors -> Steps]
    /\ me \in [Actors -> Ids \cup {Nobody}]
    /\ answer \in [Requests -> Answers]
    /\ principal \in [Requests -> SUBSET Principals]

Users == {x \in db : x.table = "users"}
Members == {x \in db : x.table = "memberships"}
Identities == {x \in db : x.table = "identities"}

\* The mailbox of the user with id u.
PersonOf(u) == MailboxOf[(CHOOSE x \in Users : x.id = u).email]

\* Whatever races and whatever dies, the database never holds part of a
\* registration: a user is a member somewhere, a household has an owner, and
\* an identity leads to a user (deps.py:92-113, seed.py:49-78, invite.py).
NobodyHalfRegistered ==
    /\ \A x \in Users : \E m \in Members : m.user = x.id
    /\ \A x \in db : x.table = "households" =>
          \E m \in Members : m.household = x.id /\ m.role = "owner" /\ \E u \in Users : u.id = m.user
    /\ \A x \in Identities : \E u \in Users : u.id = x.user

\* A request acts for the person it is from, in a household of theirs and in
\* the role they have there, although the two were read in two transactions
\* and the first household the database returns may count (deps.py:139-159).
PrincipalIsMember ==
    \A r \in Requests : \A p \in principal[r] :
        /\ PersonOf(p.user) = MailboxOf[email[r]]
        /\ Membership(p.household, p.user, p.role) \in db

SubjectOf(s) == MailboxOf[s.subject]

Reg == INSTANCE Registration WITH
    People <- {MailboxOf[e] : e \in Emails},
    Homes <- Ids,
    Subjects <- [provider : {"cf_access", "dev"}, subject : Emails],
    PersonOf <- SubjectOf,
    people <- {PersonOf(x.id) : x \in Users},
    homes <- {[home |-> m.household, person |-> PersonOf(m.user), role |-> m.role] : m \in Members},
    logins <- {[provider |-> x.provider, subject |-> x.subject] : x \in Identities}

\* Logins, invitations and seeds that race have the effect of one step each:
\* a person, however the email is spelled, is registered once, with a home
\* and a login, and a login always leads to the person it names.
ImplementsRegistration == Reg!Spec

\* Every login is answered and every invitation ends: the waits on unique
\* keys never form a ring.
EveryLoginEnds == \A a \in Actors : <>(pc[a] = "done")

=============================================================================
