----------------------------- MODULE LoginProofs -----------------------------
(***************************************************************************)
(* Proofs about Login for any requests, invitations, seeds, people and     *)
(* settings: the inductive invariant IInv, that nobody is half registered, *)
(* whom a request acts for, and the refinement of Registration.            *)
(***************************************************************************)
EXTENDS Login, TLAPS

----------------------------------------------------------------------------
(* The inductive invariant. *)

\* The user an actor works for; a seed looks nobody up.
Self(a) == IF a \in Seeds THEN a ELSE me[a]

\* Among these rows is a user u, whose mailbox e is a spelling of.
Known(rows, u, e) ==
    \E x \in rows : x.table = "users" /\ x.id = u /\ MailboxOf[x.email] = MailboxOf[e]

\* Users and households were committed by the actors they are named after,
\* and no two users share an id or a mailbox.
UsersDiffer ==
    /\ \A x \in db : x.table \in {"users", "households"} => pc[x.id] \in {"choose", "done"}
    /\ \A x, y \in db :
          x.table = "users" /\ y.table = "users"
              /\ (x.id = y.id \/ MailboxOf[x.email] = MailboxOf[y.email]) => x = y

\* The rows others refer to are there.
ReferencesLead ==
    /\ \A x \in db : x.table = "identities" => Known(db, x.user, x.subject)
    /\ \A x \in db : x.table = "memberships" =>
          Household(x.household) \in db /\ \E u \in Users : u.id = x.user

\* What an actor may have inserted so far.
RowsOfActor(a) == \A x \in mine[a] :
    /\ x.table = "users" => x = User(a, email[a]) /\ Self(a) = a
    /\ x.table = "households" => x = Household(a) /\ pc[a] \in {"link", "commit"}
    /\ x.table = "identities" => x.user = Self(a) /\ x.subject = email[a] /\ pc[a] = "commit"
    /\ x.table = "memberships" =>
          /\ x.user = Self(a) /\ pc[a] = "commit"
          /\ \/ x.household = a /\ x.role = "owner" /\ Household(a) \in mine[a]
             \/ Household(x.household) \in db /\ x.role = "member" /\ a \in Invitations

\* When an actor has rows inserted, and that it then knows whose they are.
Working(a) ==
    /\ mine[a] # {} => pc[a] \in {"household", "link", "demo", "commit"}
    /\ \A x \in mine[a] : x.table # "categories" =>
          pc[a] # "demo" /\ Known(db \cup mine[a], Self(a), email[a])
    /\ pc[a] \in {"headers", "identity", "link", "choose"} => a \in Requests
    /\ pc[a] \in {"categories", "demo"} => a \in Seeds
    /\ pc[a] \notin {"headers", "done"} /\ a \in Requests => Trusted
    /\ pc[a] \in {"user", "create", "household"} => a \notin Seeds
    /\ pc[a] \in {"household", "link", "commit"} /\ a \notin Seeds =>
          Known(db \cup mine[a], me[a], email[a])
    /\ pc[a] = "choose" => Known(db, me[a], email[a])

\* What belongs to a registration is inserted when the actor commits.
Whole(a) ==
    /\ pc[a] = "household" /\ a \in Requests => User(a, email[a]) \in mine[a]
    /\ pc[a] \in {"link", "commit"} /\ a \notin Invitations =>
          (Household(a) \in mine[a] <=> User(a, email[a]) \in mine[a])
    /\ pc[a] = "commit" =>
          /\ User(a, email[a]) \in mine[a] =>
                \E m \in mine[a] : m.table = "memberships" /\ m.user = a
          /\ Household(a) \in mine[a] => Membership(a, Self(a), "owner") \in mine[a]
          /\ (\E x \in mine[a] : x.table = "identities") <=>
                (a \in Requests \/ (a \in Seeds /\ User(a, email[a]) \in mine[a]))
          /\ \A x, y \in mine[a] :
                x.table = y.table /\ x.table \in {"identities", "memberships"} => x = y

\* No row, committed or not, has the key of another one that is uncommitted.
KeysFree ==
    \A a \in Actors : \A x \in mine[a] :
        /\ \A y \in db : ~ SameKey(y, x)
        /\ \A b \in Actors \ {a} : \A y \in mine[b] : ~ SameKey(y, x)

PrincipalsKnown ==
    \A r \in Requests : \A p \in principal[r] :
        Known(db, p.user, email[r]) /\ Membership(p.household, p.user, p.role) \in db

IInv == /\ TypeOK
        /\ UsersDiffer
        /\ ReferencesLead
        /\ NobodyHalfRegistered
        /\ \A a \in Actors : RowsOfActor(a) /\ Working(a) /\ Whole(a)
        /\ KeysFree
        /\ PrincipalsKnown

----------------------------------------------------------------------------
(* Rows and steps. *)

LEMMA ShapesOfRows ==
    ASSUME NEW x \in Rows
    PROVE  /\ x.table = "users" => x = User(x.id, x.email) /\ x.id \in Ids /\ x.email \in Emails
           /\ x.table = "identities" =>
                 /\ x = Identity(x.provider, x.subject, x.user)
                 /\ x.provider \in {"cf_access", "dev"} /\ x.subject \in Emails /\ x.user \in Ids
           /\ x.table = "households" => x = Household(x.id) /\ x.id \in Ids
           /\ x.table = "memberships" =>
                 /\ x = Membership(x.household, x.user, x.role)
                 /\ x.household \in Ids /\ x.user \in Ids /\ x.role \in Roles
           /\ x.table = "categories" => x = Category(x.slug) /\ x.slug \in Slugs
           /\ x.table \in {"users", "identities", "households", "memberships", "categories"}
<1>1. CASE \E u \in Ids, e \in Emails : x = User(u, e)
  BY <1>1 DEF User
<1>2. CASE \E p \in {"cf_access", "dev"}, e \in Emails, u \in Ids : x = Identity(p, e, u)
  BY <1>2 DEF Identity
<1>3. CASE \E h \in Ids : x = Household(h)
  BY <1>3 DEF Household
<1>4. CASE \E h \in Ids, u \in Ids, role \in Roles : x = Membership(h, u, role)
  BY <1>4 DEF Membership
<1>5. CASE \E slug \in Slugs : x = Category(slug)
  BY <1>5 DEF Category
<1> QED
  BY <1>1, <1>2, <1>3, <1>4, <1>5 DEF Rows

LEMMA RequestsDiffer == \A a \in Requests : a \in Actors /\ a \notin Seeds /\ a \notin Invitations
BY ActorsDiffer DEF Actors

\* Everybody has an email, and a seed registers the one for development.
LEMMA EmailOfActor ==
    ASSUME TypeOK, NEW a \in Actors
    PROVE  email[a] \in Emails /\ (a \in Seeds => email[a] = DevEmail)
BY SendersAreSenders DEF TypeOK

LEMMA KnownIsId ==
    ASSUME NEW rows \in SUBSET Rows, NEW u, NEW e, Known(rows, u, e)
    PROVE  u \in Ids
BY ShapesOfRows DEF Known

\* Who a person is to an actor that has looked the person up.
LEMMA KnownToActor ==
    ASSUME IInv, NEW a \in Actors \ Seeds, pc[a] \in {"household", "link", "commit", "choose"}
    PROVE  Known(db \cup mine[a], me[a], email[a]) /\ me[a] \in Ids
<1>1. Known(db \cup mine[a], me[a], email[a])
  BY DEF IInv, Working, Known
<1>2. db \cup mine[a] \in SUBSET Rows
  BY DEF IInv, TypeOK
<1> QED
  BY <1>1, <1>2, KnownIsId

\* The users and households an actor inserts are named after it.
LEMMA OwnNames ==
    ASSUME IInv, NEW a \in Actors, NEW x \in mine[a]
    PROVE  /\ x.table = "users" => x = User(a, email[a]) /\ x.id = a /\ Self(a) = a
           /\ x.table = "households" => x = Household(a) /\ x.id = a
<1>1. RowsOfActor(a)
  BY DEF IInv
<1>2. User(a, email[a]).id = a /\ Household(a).id = a
  BY DEF User, Household
<1> QED
  BY <1>1, <1>2 DEF RowsOfActor

Step(a) == Serve(a) \/ Abort(a)

\* The steps that give up, of an actor that has not finished.
GivesUp(a) ==
    Unauthorized(a) \/ Misconfigured(a) \/ TurnAway(a) \/ JoinUnknown(a) \/ Conflict(a) \/ Abort(a)

LEMMA GivesUpRollsBack ==
    ASSUME NEW a, GivesUp(a)
    PROVE  (\E text \in {"refused", "failed"} : Rollback(a, text)) /\ pc[a] \notin {"choose", "done"}
BY DEF GivesUp, Unauthorized, Misconfigured, TurnAway, NoUser, JoinUnknown, Conflict, Abort

\* The steps that only read.
Reads(a) ==
    Authenticate(a) \/ FindIdentity(a) \/ FindUser(a) \/ DecideToCreate(a) \/ Choose(a)
        \/ ChooseForeign(a)

\* The steps that insert.
Inserts(a) ==
    CreateUser(a) \/ CreateHousehold(a) \/ Join(a) \/ Link(a) \/ SeedCategories(a) \/ SeedDemo(a)

LEMMA StepsOfActor ==
    ASSUME NEW a, Step(a)
    PROVE  GivesUp(a) \/ Reads(a) \/ Inserts(a) \/ Commit(a)
BY DEF Step, Serve, GivesUp, Reads, Inserts

----------------------------------------------------------------------------
(* Each part of the invariant is kept. *)

LEMMA TypeKept == ASSUME IInv, [Next]_vars PROVE TypeOK'
<1> USE DEF IInv, TypeOK
<1>1. ASSUME NEW a \in Actors, Reads(a) PROVE TypeOK'
  <2>1. CASE Authenticate(a) \/ DecideToCreate(a)
    BY <2>1 DEF Authenticate, DecideToCreate, Goto, Steps, given
  <2>2. CASE FindIdentity(a)
    BY <2>2 DEF FindIdentity, Goto, Steps, given
  <2>3. CASE FindUser(a)
    <3>1. PICK x \in db : SameKey(x, User(a, email[a])) /\ me' = [me EXCEPT ![a] = x.id]
      BY <2>3 DEF FindUser
    <3>2. x.id \in Ids
      BY <3>1, ShapesOfRows DEF SameKey, User
    <3> QED
      BY <2>3, <3>1, <3>2 DEF FindUser, Goto, Steps, given
  <2>4. CASE Choose(a)
    <3>1. a \in Requests /\ me[a] \in Ids \cup {Nobody}
      BY <2>4 DEF Choose, Working
    <3>2. PICK m \in Belongs(a) :
              principal' = [principal EXCEPT ![a] =
                                {[user |-> me[a], household |-> m.household, role |-> m.role]}]
      BY <2>4 DEF Choose
    <3>3. [user |-> me[a], household |-> m.household, role |-> m.role] \in Principals
      BY <3>2, ShapesOfRows DEF Belongs, Principals
    <3> QED
      BY <2>4, <3>1, <3>2, <3>3 DEF Choose, Answer, Answers, Goto, Steps, given
  <2>5. CASE ChooseForeign(a)
    BY <2>5 DEF ChooseForeign, Answer, Answers, Goto, Steps, given
  <2> QED
    BY <1>1, <2>1, <2>2, <2>3, <2>4, <2>5 DEF Reads
<1>2. ASSUME NEW a \in Actors, GivesUp(a) PROVE TypeOK'
  BY <1>2, GivesUpRollsBack DEF Rollback, Answer, Answers, Goto, Steps, given
<1>3. ASSUME NEW a \in Actors, Commit(a) PROVE TypeOK'
  BY <1>3 DEF Commit, Goto, Steps, given
<1>4. ASSUME NEW a \in Actors, Inserts(a) PROVE TypeOK'
  <2>1. email[a] \in Emails /\ a \in Ids
    BY EmailOfActor DEF Ids
  <2>2. CASE CreateUser(a)
    <3>1. User(a, email[a]) \in Rows
      BY <2>1 DEF Rows
    <3> QED
      BY <2>1, <2>2, <3>1 DEF CreateUser, Adds, Goto, Steps, given
  <2>3. CASE CreateHousehold(a)
    <3>1. Household(a) \in Rows /\ (me[a] \in Ids => Membership(a, me[a], "owner") \in Rows)
      BY <2>1 DEF Rows, Roles
    <3>2. me[a] \in Ids
      BY <2>3, KnownToActor DEF CreateHousehold, Working
    <3> QED
      BY <2>3, <3>1, <3>2 DEF CreateHousehold, Adds, Goto, Steps, given
  <2>4. CASE Join(a)
    <3>1. me[a] \in Ids
      BY <2>4, KnownToActor DEF Join, Working
    <3>2. \A h \in Ids : Membership(h, me[a], "member") \in Rows
      BY <3>1 DEF Rows, Roles
    <3> QED
      BY <2>4, <3>2 DEF Join, Adds, Goto, Steps, given
  <2>5. CASE Link(a)
    <3>1. a \in Requests /\ Trusted
      BY <2>5 DEF Link, Working
    <3>2. me[a] \in Ids
      BY <2>5, <3>1, KnownToActor, RequestsDiffer DEF Link
    <3>3. settings.auth_mode \in {"cf_access", "dev"}
      BY <3>1 DEF Trusted
    <3>4. MyIdentity(a, me[a]) \in Rows /\ Membership(a, me[a], "owner") \in Rows
      BY <2>1, <3>2, <3>3 DEF MyIdentity, Rows, Roles
    <3> QED
      BY <2>5, <3>4 DEF Link, Adds, Goto, Steps, given
  <2>6. CASE SeedCategories(a)
    <3>1. \A slug \in Slugs : Category(slug) \in Rows
      BY DEF Rows
    <3> QED
      BY <2>6, <3>1 DEF SeedCategories, Adds, Goto, Steps, given
  <2>7. CASE SeedDemo(a)
    <3>1. DevEmail \in Emails
      BY <2>7, EmailOfActor DEF SeedDemo, Working
    <3>2. /\ User(a, DevEmail) \in Rows /\ Household(a) \in Rows
          /\ Membership(a, a, "owner") \in Rows /\ Identity("dev", DevEmail, a) \in Rows
      BY <2>1, <3>1 DEF Rows, Roles
    <3> QED
      BY <2>7, <3>2 DEF SeedDemo, Adds, Goto, Steps, given
  <2> QED
    BY <1>4, <2>2, <2>3, <2>4, <2>5, <2>6, <2>7 DEF Inserts
<1>5. CASE UNCHANGED vars
  BY <1>5 DEF vars, given
<1> QED
  BY <1>1, <1>2, <1>3, <1>4, <1>5, StepsOfActor DEF Next, Step

\* What an actor keeps while another one takes a step.
Untouched(b) == pc'[b] = pc[b] /\ mine'[b] = mine[b] /\ me'[b] = me[b]

LEMMA OthersUntouched ==
    ASSUME IInv, NEW a \in Actors, Step(a)
    PROVE  /\ settings' = settings /\ email' = email
           /\ \A b \in Actors \ {a} : Untouched(b)
<1> USE DEF IInv, TypeOK, Untouched
<1>1. CASE GivesUp(a)
  BY <1>1, GivesUpRollsBack DEF Rollback, Goto, given
<1>2. CASE Reads(a)
  BY <1>2 DEF Reads, Authenticate, FindIdentity, FindUser, DecideToCreate, Choose, ChooseForeign,
              Goto, given
<1>3. CASE Inserts(a)
  BY <1>3 DEF Inserts, CreateUser, CreateHousehold, Join, Link, SeedCategories, SeedDemo,
              Adds, Goto, given
<1>4. CASE Commit(a)
  BY <1>4 DEF Commit, Goto, given
<1> QED
  BY <1>1, <1>2, <1>3, <1>4, StepsOfActor

\* What all steps but a commit leave as it was.
LEMMA OnlyCommitsStore ==
    ASSUME IInv, NEW a \in Actors, GivesUp(a) \/ Reads(a) \/ Inserts(a)
    PROVE  /\ db' = db
           /\ pc[a] \in {"choose", "done"} => pc'[a] \in {"choose", "done"}
<1> USE DEF IInv, TypeOK
<1>1. CASE GivesUp(a)
  BY <1>1, GivesUpRollsBack DEF Rollback
<1>2. CASE Reads(a)
  BY <1>2 DEF Reads, Authenticate, FindIdentity, FindUser, DecideToCreate, Choose, ChooseForeign,
              Goto, NoUser
<1>3. CASE Inserts(a)
  BY <1>3 DEF Inserts, CreateUser, CreateHousehold, Join, Link, SeedCategories, SeedDemo
<1> QED
  BY <1>1, <1>2, <1>3

LEMMA CommitEffect ==
    ASSUME IInv, NEW a \in Actors, Commit(a)
    PROVE  /\ Step(a) /\ pc[a] = "commit"
           /\ pc'[a] = IF a \in Requests THEN "choose" ELSE "done"
           /\ db' = db \cup mine[a] /\ mine'[a] = {} /\ me' = me
BY DEF IInv, TypeOK, Commit, Goto, Step, Serve

LEMMA UsersKept == ASSUME IInv, [Next]_vars PROVE UsersDiffer'
<1> USE DEF IInv
<1>1. ASSUME NEW a \in Actors, Step(a), GivesUp(a) \/ Reads(a) \/ Inserts(a)
      PROVE  UsersDiffer'
  <2>1. \A x \in db : x.table \in {"users", "households"} => x.id \in Actors
    BY ShapesOfRows DEF TypeOK, Ids
  <2> QED
    BY <1>1, <2>1, OthersUntouched, OnlyCommitsStore DEF UsersDiffer, Untouched
<1>2. ASSUME NEW a \in Actors, Commit(a) PROVE UsersDiffer'
  <2>1. \A x \in db : x.table \in {"users", "households"} => x.id \in Actors /\ x.id # a
    BY <1>2, CommitEffect, ShapesOfRows DEF TypeOK, Ids, UsersDiffer
  <2>2. \A x \in mine[a] : /\ x.table = "users" => x = User(a, email[a]) /\ x.id = a
                           /\ x.table = "households" => x.id = a
    BY OwnNames
  <2>3. \A b \in Actors : pc[b] \in {"choose", "done"} => pc'[b] = pc[b]
    BY <1>2, CommitEffect, OthersUntouched DEF Untouched
  <2>4. \A x \in db' : x.table \in {"users", "households"} => pc'[x.id] \in {"choose", "done"}
    BY <1>2, <2>1, <2>2, <2>3, CommitEffect DEF UsersDiffer
  <2>5. \A x \in db, y \in mine[a] :
            x.table = "users" /\ y.table = "users" =>
                x.id # y.id /\ MailboxOf[x.email] # MailboxOf[y.email]
    BY <2>1, <2>2 DEF KeysFree, SameKey
  <2> QED
    BY <1>2, <2>2, <2>4, <2>5, CommitEffect DEF UsersDiffer
<1>3. CASE UNCHANGED vars
  BY <1>3 DEF UsersDiffer, vars
<1> QED
  BY <1>1, <1>2, <1>3, StepsOfActor DEF Next, Step

LEMMA ReferencesKept == ASSUME IInv, [Next]_vars PROVE ReferencesLead' /\ NobodyHalfRegistered'
<1> USE DEF IInv
<1>1. ASSUME db' = db PROVE ReferencesLead' /\ NobodyHalfRegistered'
  BY <1>1 DEF ReferencesLead, NobodyHalfRegistered, Known, Users, Members, Identities
<1>2. ASSUME NEW a \in Actors, Commit(a) PROVE ReferencesLead' /\ NobodyHalfRegistered'
  <2>1. db' = db \cup mine[a] /\ pc[a] = "commit" /\ MailboxOf' = MailboxOf
    BY <1>2, CommitEffect
  <2>2. (\E x \in mine[a] : x.table # "categories") => Known(db', Self(a), email[a])
    BY <2>1 DEF Working
  <2>3. \A x \in mine[a] : x.table = "identities" => Known(db', x.user, x.subject)
    BY <2>2 DEF RowsOfActor
  <2>4. \A x \in mine[a] : x.table = "memberships" =>
            Household(x.household) \in db' /\ \E u \in db' : u.table = "users" /\ u.id = x.user
    BY <2>1, <2>2 DEF RowsOfActor, Known
  <2>5. ASSUME NEW x \in mine[a], x.table = "users"
        PROVE  \E m \in mine[a] : m.table = "memberships" /\ m.user = x.id
    <3>1. x = User(a, email[a]) /\ x.id = a
      BY <2>5, OwnNames
    <3> QED
      BY <2>1, <3>1 DEF Whole
  <2>6. ASSUME NEW x \in mine[a], x.table = "households"
        PROVE  \E m \in Members' : /\ m.household = x.id /\ m.role = "owner"
                                   /\ \E u \in Users' : u.id = m.user
    <3> DEFINE m == Membership(a, Self(a), "owner")
    <3>1. x = Household(a) /\ x.id = a
      BY <2>6, OwnNames
    <3>2. m \in mine[a]
      BY <2>1, <2>6, <3>1 DEF Whole
    <3>3. m.table = "memberships" /\ m.household = a /\ m.user = Self(a) /\ m.role = "owner"
      BY DEF Membership
    <3>4. PICK u \in db' : u.table = "users" /\ u.id = Self(a)
      BY <2>2, <2>6 DEF Known
    <3> HIDE DEF m
    <3> QED
      BY <2>1, <3>1, <3>2, <3>3, <3>4 DEF Members, Users
  <2>7. \A x \in mine[a] : x.table = "households" =>
            \E m \in Members' : /\ m.household = x.id /\ m.role = "owner"
                                /\ \E u \in Users' : u.id = m.user
    BY <2>6
  <2>8. ReferencesLead'
    BY <2>1, <2>3, <2>4 DEF ReferencesLead, Known, Users
  <2>9. NobodyHalfRegistered'
    BY <2>1, <2>3, <2>5, <2>7 DEF NobodyHalfRegistered, Known, Users, Members, Identities
  <2> QED
    BY <2>8, <2>9
<1>3. CASE UNCHANGED vars
  BY <1>1, <1>3 DEF vars
<1> QED
  BY <1>1, <1>2, <1>3, StepsOfActor, OnlyCommitsStore DEF Next, Step

LEMMA PrincipalsKept == ASSUME IInv, [Next]_vars PROVE PrincipalsKnown'
<1> USE DEF IInv
<1>1. ASSUME db \subseteq db', email' = email, principal' = principal PROVE PrincipalsKnown'
  BY <1>1 DEF PrincipalsKnown, Known
<1>2. ASSUME NEW a \in Actors, Choose(a) PROVE PrincipalsKnown'
  <2>1. a \in Requests /\ Known(db, me[a], email[a]) /\ db' = db /\ email' = email
    BY <1>2 DEF Choose, Working, given
  <2>2. PICK m \in Belongs(a) :
            principal' = [principal EXCEPT ![a] =
                              {[user |-> me[a], household |-> m.household, role |-> m.role]}]
    BY <1>2 DEF Choose
  <2>3. Membership(m.household, me[a], m.role) \in db
    BY ShapesOfRows DEF Belongs, TypeOK
  <2> QED
    BY <2>1, <2>2, <2>3 DEF PrincipalsKnown, Known, TypeOK
<1>3. ASSUME NEW a \in Actors, Step(a), ~ Choose(a) PROVE principal' = principal /\ db \subseteq db'
  <2>1. CASE GivesUp(a)
    BY <2>1, GivesUpRollsBack DEF Rollback
  <2>2. CASE Reads(a)
    BY <1>3, <2>2 DEF Reads, Authenticate, FindIdentity, FindUser, DecideToCreate, ChooseForeign
  <2>3. CASE Inserts(a)
    BY <2>3 DEF Inserts, CreateUser, CreateHousehold, Join, Link, SeedCategories, SeedDemo
  <2>4. CASE Commit(a)
    BY <2>4 DEF Commit
  <2> QED
    BY <1>3, <2>1, <2>2, <2>3, <2>4, StepsOfActor
<1>4. CASE UNCHANGED vars
  BY <1>1, <1>4 DEF vars, given
<1> QED
  BY <1>1, <1>2, <1>3, <1>4, OthersUntouched DEF Next, Step

\* An actor at rest keeps its part of the invariant.
LEMMA UntouchedStays ==
    ASSUME NEW b \in Actors, Untouched(b), settings' = settings, email' = email, db \subseteq db',
           RowsOfActor(b), Working(b), Whole(b)
    PROVE  RowsOfActor(b)' /\ Working(b)' /\ Whole(b)'
<1>1. Self(b)' = Self(b)
  BY DEF Self, Untouched
<1>2. \A u, e : /\ Known(db \cup mine[b], u, e) => Known(db \cup mine[b], u, e)'
                /\ Known(db, u, e) => Known(db, u, e)'
  BY DEF Known, Untouched
<1>3. RowsOfActor(b)'
  BY <1>1 DEF RowsOfActor, Untouched
<1>4. Working(b)'
  BY <1>1, <1>2 DEF Working, Untouched, Trusted
<1>5. Whole(b)'
  BY <1>1 DEF Whole, Untouched
<1> QED
  BY <1>3, <1>4, <1>5

\* So does one that has ended or rolled back.
LEMMA EmptyHanded ==
    ASSUME NEW a \in Actors, mine'[a] = {}, pc'[a] = "done"
    PROVE  RowsOfActor(a)' /\ Working(a)' /\ Whole(a)'
BY DEF RowsOfActor, Working, Whole

LEMMA ReaderStays ==
    ASSUME IInv, NEW a \in Actors, Reads(a)
    PROVE  RowsOfActor(a)' /\ Working(a)' /\ Whole(a)'
<1> USE DEF IInv, TypeOK
<1>1. /\ pc[a] \in {"headers", "identity", "user", "choose"}
      /\ db' = db /\ mine' = mine /\ email' = email /\ settings' = settings
  BY DEF Reads, Authenticate, FindIdentity, FindUser, DecideToCreate, NoUser, Choose,
         ChooseForeign, given
<1>2. mine[a] = {} /\ mine'[a] = {}
  BY <1>1 DEF Working
<1>3. RowsOfActor(a)'
  BY <1>2 DEF RowsOfActor
<1>4. pc'[a] # "commit" => (Whole(a)' <=> ~ (pc'[a] = "household" /\ a \in Requests))
  BY <1>2 DEF Whole
<1>5. CASE Authenticate(a)
  <2>1. pc'[a] = "identity" /\ a \in Requests /\ Trusted'
    BY <1>1, <1>5 DEF Authenticate, Goto, Working, Trusted
  <2> QED
    BY <1>2, <1>3, <1>4, <2>1 DEF Working
<1>6. CASE FindIdentity(a)
  <2>1. a \in Requests /\ Trusted' /\ a \notin Seeds
    BY <1>1, <1>6, RequestsDiffer DEF FindIdentity, Working, Trusted
  <2>2. pc'[a] = "user" \/ (pc'[a] = "choose" /\ Known(db, me'[a], email[a]))
    <3>1. ASSUME NEW u \in Ids, MyIdentity(a, u) \in db PROVE Known(db, u, email[a])
      BY <3>1 DEF ReferencesLead, MyIdentity, Identity
    <3> QED
      BY <1>6, <3>1 DEF FindIdentity, Goto
  <2>3. pc'[a] = "choose" => Known(db, me[a], email[a])'
    BY <1>1, <2>2 DEF Known
  <2> QED
    BY <1>2, <1>3, <1>4, <2>1, <2>2, <2>3 DEF Working
<1>7. CASE FindUser(a)
  <2>1. a \notin Seeds /\ (a \in Requests => Trusted')
    BY <1>1, <1>7 DEF FindUser, Working, Trusted
  <2>2. pc'[a] = IF a \in Requests THEN "link" ELSE "household"
    BY <1>7 DEF FindUser, Goto
  <2>3. Known(db \cup mine[a], me[a], email[a])'
    <3>1. PICK x \in db : SameKey(x, User(a, email[a])) /\ me' = [me EXCEPT ![a] = x.id]
      BY <1>7 DEF FindUser
    <3>2. x.table = "users" /\ MailboxOf[x.email] = MailboxOf[email[a]] /\ me'[a] = x.id
      BY <3>1 DEF SameKey, User
    <3> QED
      BY <1>1, <3>2 DEF Known
  <2> QED
    BY <1>2, <1>3, <1>4, <2>1, <2>2, <2>3 DEF Working
<1>8. CASE DecideToCreate(a)
  <2>1. a \notin Seeds /\ (a \in Requests => Trusted') /\ pc'[a] = "create"
    BY <1>1, <1>8 DEF DecideToCreate, NoUser, Goto, Working, Trusted
  <2> QED
    BY <1>2, <1>3, <1>4, <2>1 DEF Working
<1>9. CASE Choose(a) \/ ChooseForeign(a)
  BY <1>2, <1>9, EmptyHanded DEF Choose, ChooseForeign, Goto
<1> QED
  BY <1>5, <1>6, <1>7, <1>8, <1>9 DEF Reads

LEMMA CommitterStays ==
    ASSUME IInv, NEW a \in Actors, Commit(a)
    PROVE  RowsOfActor(a)' /\ Working(a)' /\ Whole(a)'
<1> USE DEF IInv
<1>1. CASE a \notin Requests
  BY <1>1, CommitEffect, EmptyHanded
<1>2. CASE a \in Requests
  <2>1. Known(db, me[a], email[a])' /\ Trusted'
    BY <1>2, CommitEffect, OthersUntouched, RequestsDiffer DEF Working, Known, Trusted
  <2> QED
    BY <1>2, <2>1, CommitEffect DEF RowsOfActor, Working, Whole
<1> QED
  BY <1>1, <1>2

\* A household is new until its actor commits: no row refers to it.
LEMMA HouseholdIsNew ==
    ASSUME IInv, NEW a \in Actors, pc[a] \notin {"choose", "done"}
    PROVE  /\ \A y \in db : y.table = "memberships" => y.household # a /\ y.user # a
           /\ \A b \in Actors \ {a} : \A y \in mine[b] : y.table = "memberships" => y.household # a
<1> USE DEF IInv
<1>1. \A x \in db : x.table \in {"users", "households"} => x.id # a
  BY DEF UsersDiffer
<1>2. Household(a) \notin db
  BY <1>1 DEF Household
<1>3. \A y \in db : y.table = "memberships" => y.household # a /\ y.user # a
  BY <1>1, <1>2 DEF ReferencesLead, Users
<1>4. \A b \in Actors \ {a} : \A y \in mine[b] : y.table = "memberships" => y.household # a
  BY <1>2 DEF RowsOfActor
<1> QED
  BY <1>3, <1>4

LEMMA InserterStays ==
    ASSUME IInv, NEW a \in Actors, Inserts(a)
    PROVE  RowsOfActor(a)' /\ Working(a)' /\ Whole(a)'
<1> USE DEF IInv, TypeOK
<1>1. db' = db /\ email' = email /\ settings' = settings
  BY DEF Inserts, CreateUser, CreateHousehold, Join, Link, SeedCategories, SeedDemo, given
<1>2. CASE CreateUser(a)
  <2>1. /\ pc[a] = "create" /\ pc'[a] = "household" /\ me'[a] = a
        /\ mine'[a] = mine[a] \cup {User(a, email[a])}
    BY <1>2 DEF CreateUser, Adds, Goto
  <2>2. mine[a] = {} /\ a \notin Seeds /\ (a \in Requests => Trusted')
    BY <1>1, <2>1 DEF Working, Trusted
  <2>3. mine'[a] = {User(a, email[a])} /\ Self(a)' = a
    BY <2>1, <2>2 DEF Self
  <2>4. User(a, email[a]).table = "users" /\ Known(db \cup mine[a], a, email[a])'
    <3> DEFINE new == User(a, email[a])
    <3>1. new.table = "users" /\ new.id = a /\ new.email = email[a]
      BY DEF User
    <3>2. new \in db' \cup mine'[a]
      BY <2>3
    <3> HIDE DEF new
    <3> QED
      BY <1>1, <3>1, <3>2 DEF Known, new
  <2>5. RowsOfActor(a)'
    BY <1>1, <2>3, <2>4 DEF RowsOfActor
  <2>6. Working(a)'
    BY <2>1, <2>2, <2>3, <2>4 DEF Working, Known
  <2>7. Whole(a)'
    BY <1>1, <2>1, <2>3 DEF Whole
  <2> QED
    BY <2>5, <2>6, <2>7
<1>3. CASE CreateHousehold(a)
  <2> DEFINE owner == IF a \in Invitations THEN {Membership(a, me[a], "owner")} ELSE {}
  <2>1. /\ pc[a] = "household" /\ pc'[a] = IF a \in Requests THEN "link" ELSE "commit"
        /\ me'[a] = me[a] /\ mine'[a] = mine[a] \cup {Household(a)} \cup owner
    BY <1>3 DEF CreateHousehold, Adds, Goto
  <2>2. a \notin Seeds /\ (a \in Requests => Trusted') /\ (a \in Requests \/ a \in Invitations)
    BY <1>1, <2>1 DEF Working, Trusted, Actors
  <2>3. Self(a) = me[a] /\ Self(a)' = me[a]
    BY <2>1, <2>2 DEF Self
  <2>4. Known(db \cup mine[a], me[a], email[a])'
    BY <1>1, <2>1, <2>2 DEF Working, Known
  <2>5. \A x \in mine[a] : x.table \notin {"households", "identities", "memberships"}
    BY <2>1 DEF RowsOfActor
  <2>6. ASSUME NEW x \in mine'[a]
        PROVE  \/ x \in mine[a]
               \/ x = Household(a) /\ x.table = "households"
               \/ /\ x = Membership(a, me[a], "owner") /\ x.table = "memberships"
                  /\ x.household = a /\ x.user = me[a] /\ x.role = "owner" /\ a \in Invitations
    BY <2>1, <2>6 DEF Household, Membership
  <2>7. Household(a) \in mine'[a] /\ (a \in Invitations => pc'[a] = "commit")
    BY <2>1, RequestsDiffer
  <2> HIDE DEF owner
  <2>8. RowsOfActor(a)'
    BY <1>1, <2>1, <2>3, <2>5, <2>6, <2>7 DEF RowsOfActor
  <2>9. Working(a)'
    BY <2>1, <2>2, <2>3, <2>4 DEF Working
  <2>10. Whole(a)'
    <3>1. CASE a \in Requests
      <4>1. User(a, email[a]) \in mine'[a]
        BY <2>1, <3>1 DEF Whole
      <4> QED
        BY <1>1, <2>1, <2>7, <3>1, <4>1 DEF Whole
    <3>2. CASE a \in Invitations
      <4> DEFINE row == Membership(a, me[a], "owner")
      <4>1. row \in mine'[a] /\ row.table = "memberships" /\ row.user = me[a]
        BY <2>1, <3>2 DEF owner, Membership
      <4>2. User(a, email[a]) \in mine'[a] => me[a] = a
        <5>1. User(a, email[a]).table = "users"
          BY DEF User
        <5> QED
          BY <2>3, <2>6, <5>1, OwnNames DEF Household
      <4>3. ASSUME NEW x \in mine'[a], x.table \in {"identities", "memberships"} PROVE x = row
        BY <2>5, <2>6, <4>3
      <4>4. ~ \E x \in mine'[a] : x.table = "identities"
        BY <4>1, <4>3
      <4>5. row = Membership(a, Self(a)', "owner")
        BY <2>3
      <4> HIDE DEF row
      <4> QED
        BY <1>1, <2>1, <2>2, <2>3, <3>2, <4>1, <4>2, <4>3, <4>4, <4>5, RequestsDiffer DEF Whole
    <3> QED
      BY <2>2, <3>1, <3>2
  <2> QED
    BY <2>8, <2>9, <2>10
<1>4. CASE Join(a)
  <2>1. /\ pc[a] = "household" /\ pc'[a] = "commit" /\ me'[a] = me[a] /\ a \in Invitations
    BY <1>4 DEF Join, Goto
  <2>2. PICK h \in Ids :
            /\ Household(h) \in db
            /\ mine'[a] = mine[a] \cup (IF Taken(Membership(h, me[a], "member")) THEN {}
                                        ELSE {Membership(h, me[a], "member")})
    BY <1>4 DEF Join, Adds
  <2> DEFINE row == Membership(h, me[a], "member")
  <2>3. a \notin Seeds /\ a \notin Requests
    BY <2>1, RequestsDiffer DEF Working
  <2>4. Self(a) = me[a] /\ Self(a)' = me[a]
    BY <2>1, <2>3 DEF Self
  <2>5. Known(db \cup mine[a], me[a], email[a])'
    BY <1>1, <2>1, <2>2, <2>3 DEF Working, Known
  <2>6. /\ row.table = "memberships" /\ row.household = h /\ row.user = me[a] /\ row.role = "member"
        /\ User(a, email[a]).table = "users" /\ Household(a).table = "households"
    BY DEF Membership, User, Household
  <2>7. \A x \in mine[a] : x.table \notin {"households", "identities", "memberships"}
    BY <2>1 DEF RowsOfActor
  <2>8. RowsOfActor(a)'
    BY <1>1, <2>1, <2>2, <2>4, <2>6, <2>7 DEF RowsOfActor
  <2>9. Working(a)'
    BY <2>1, <2>2, <2>3, <2>4, <2>5 DEF Working
  <2>10. User(a, email[a]) \in mine'[a] => row \in mine'[a] /\ row.user = a
    <3> SUFFICES ASSUME User(a, email[a]) \in mine'[a] PROVE row \in mine'[a] /\ row.user = a
      OBVIOUS
    <3>1. User(a, email[a]) \in mine[a]
      BY <2>2, <2>6
    <3>2. me[a] = a
      BY <2>4, <2>6, <3>1, OwnNames
    <3>3. ~ Taken(row)
      BY <2>1, <2>6, <3>2, HouseholdIsNew DEF Taken, SameKey
    <3> QED
      BY <2>2, <2>6, <3>2, <3>3
  <2>11. Household(a) \notin mine'[a]
    BY <2>2, <2>6, <2>7
  <2>12. Whole(a)'
    <3>1. ASSUME NEW x \in mine'[a], x.table \in {"identities", "memberships"} PROVE x = row
      BY <2>2, <2>7, <3>1
    <3>2. ~ \E x \in mine'[a] : x.table = "identities"
      BY <2>6, <3>1
    <3> HIDE DEF row
    <3> QED
      BY <1>1, <2>1, <2>3, <2>6, <2>10, <2>11, <3>1, <3>2 DEF Whole
  <2> QED
    BY <2>8, <2>9, <2>12
<1>5. CASE Link(a)
  <2> DEFINE login == MyIdentity(a, me[a])
             owner == Membership(a, me[a], "owner")
  <2>1. /\ pc[a] = "link" /\ pc'[a] = "commit" /\ me'[a] = me[a]
        /\ mine'[a] = mine[a] \cup {login} \cup (IF Household(a) \in mine[a] THEN {owner} ELSE {})
    BY <1>5 DEF Link, Adds, Goto
  <2>2. a \in Requests /\ a \notin Seeds /\ Trusted'
    BY <1>1, <2>1, RequestsDiffer DEF Working, Trusted
  <2>3. Self(a) = me[a] /\ Self(a)' = me[a]
    BY <2>1, <2>2 DEF Self
  <2>4. Known(db \cup mine[a], me[a], email[a])'
    BY <1>1, <2>1, <2>2 DEF Working, Known
  <2>5. /\ owner.table = "memberships" /\ owner.household = a /\ owner.user = me[a] /\ owner.role = "owner"
        /\ login.table = "identities" /\ login.user = me[a] /\ login.subject = email[a]
        /\ User(a, email[a]).table = "users" /\ Household(a).table = "households"
    BY DEF Membership, MyIdentity, Identity, User, Household
  <2>6. \A x \in mine[a] : x.table \notin {"identities", "memberships"}
    BY <2>1 DEF RowsOfActor
  <2> HIDE DEF login
  <2>7. RowsOfActor(a)'
    <3> HIDE DEF owner
    <3> QED
      BY <1>1, <2>1, <2>3, <2>5, <2>6 DEF RowsOfActor
  <2>8. Working(a)'
    BY <2>1, <2>2, <2>3, <2>4 DEF Working
  <2>9. /\ Household(a) \in mine'[a] <=> Household(a) \in mine[a]
        /\ User(a, email[a]) \in mine'[a] <=> User(a, email[a]) \in mine[a]
    BY <2>1, <2>5
  <2>10. Household(a) \in mine[a] <=> User(a, email[a]) \in mine[a]
    BY <2>1, <2>2, RequestsDiffer DEF Whole
  <2>11. User(a, email[a]) \in mine[a] => me[a] = a
    BY <2>3, <2>5, OwnNames
  <2>12. Whole(a)'
    <3>1. owner = Membership(a, Self(a)', "owner")
      BY <2>3
    <3>2. ASSUME NEW x \in mine'[a], NEW y \in mine'[a],
                 x.table = y.table, x.table \in {"identities", "memberships"}
          PROVE  x = y
      <4> HIDE DEF owner
      <4> QED
        BY <2>1, <2>5, <2>6, <3>2
    <3>3. login \in mine'[a] /\ (Household(a) \in mine[a] => owner \in mine'[a])
      BY <2>1
    <3> HIDE DEF owner
    <3> QED
      BY <1>1, <2>1, <2>2, <2>5, <2>9, <2>10, <2>11, <3>1, <3>2, <3>3 DEF Whole
  <2> QED
    BY <2>7, <2>8, <2>12
<1>6. CASE SeedCategories(a)
  <2>1. /\ pc[a] = "categories" /\ pc'[a] \in {"demo", "commit"} /\ a \in Seeds /\ a \notin Requests
        /\ mine'[a] = mine[a] \cup {Category(slug) : slug \in {x \in Slugs : ~ Taken(Category(x))}}
    BY <1>6, RequestsDiffer DEF SeedCategories, Adds, Goto, Working
  <2>2. mine[a] = {}
    BY <2>1 DEF Working
  <2>3. \A x \in mine'[a] : x.table = "categories"
    <3>1. \A slug : Category(slug).table = "categories"
      BY DEF Category
    <3> QED
      BY <2>1, <2>2, <3>1
  <2>4. User(a, email[a]) \notin mine'[a] /\ Household(a) \notin mine'[a]
    BY <2>3 DEF User, Household
  <2> QED
    BY <1>1, <2>1, <2>3, <2>4 DEF RowsOfActor, Working, Whole
<1>7. CASE SeedDemo(a)
  <2> DEFINE user == User(a, DevEmail)
             owner == Membership(a, a, "owner")
             login == Identity("dev", DevEmail, a)
  <2>1. /\ pc[a] = "demo" /\ pc'[a] = "commit" /\ a \in Seeds /\ a \notin Requests
        /\ a \notin Invitations /\ email[a] = DevEmail /\ Self(a) = a /\ Self(a)' = a
    BY <1>7, ActorsDiffer, EmailOfActor DEF SeedDemo, Goto, Working, Self
  <2>2. \A x \in mine[a] : x.table = "categories"
    BY <2>1 DEF Working
  <2>3. mine'[a] = mine[a] \/ mine'[a] = mine[a] \cup {user, Household(a), owner, login}
    BY <1>7 DEF SeedDemo, Adds
  <2>4. /\ user.table = "users" /\ user.id = a /\ user.email = DevEmail
        /\ owner.table = "memberships" /\ owner.household = a /\ owner.user = a /\ owner.role = "owner"
        /\ login.table = "identities" /\ login.user = a /\ login.subject = DevEmail
        /\ Household(a).table = "households" /\ user = User(a, email[a])
    BY <2>1 DEF Membership, Identity, User, Household
  <2> HIDE DEF user, login
  <2>5. CASE mine'[a] = mine[a]
    BY <1>1, <2>1, <2>2, <2>4, <2>5 DEF RowsOfActor, Working, Whole
  <2>6. CASE mine'[a] = mine[a] \cup {user, Household(a), owner, login}
    <3>1. Known(db \cup mine[a], a, email[a])'
      BY <1>1, <2>1, <2>4, <2>6 DEF Known
    <3>2. Whole(a)'
      <4>1. ASSUME NEW x \in mine'[a], NEW y \in mine'[a],
                   x.table = y.table, x.table \in {"identities", "memberships"}
            PROVE  x = y
        <5> HIDE DEF owner
        <5> QED
          BY <2>2, <2>4, <2>6, <4>1
      <4> QED
        BY <1>1, <2>1, <2>4, <2>6, <4>1 DEF Whole
    <3>3. Working(a)'
      BY <2>1, <3>1 DEF Working
    <3>4. RowsOfActor(a)'
      <4> HIDE DEF owner
      <4> QED
        BY <1>1, <2>1, <2>2, <2>4, <2>6 DEF RowsOfActor
    <3> QED
      BY <3>2, <3>3, <3>4
  <2> QED
    BY <2>3, <2>5, <2>6
<1> QED
  BY <1>2, <1>3, <1>4, <1>5, <1>6, <1>7 DEF Inserts

LEMMA ActorsKept ==
    ASSUME IInv, [Next]_vars
    PROVE  \A a \in Actors : RowsOfActor(a)' /\ Working(a)' /\ Whole(a)'
<1> USE DEF IInv
<1>1. ASSUME NEW a \in Actors, Step(a) PROVE RowsOfActor(a)' /\ Working(a)' /\ Whole(a)'
  <2>1. CASE GivesUp(a)
    <3>1. mine'[a] = {} /\ pc'[a] = "done"
      BY <2>1, GivesUpRollsBack DEF Rollback, Goto, TypeOK
    <3> QED
      BY <3>1, EmptyHanded
  <2> QED
    BY <1>1, <2>1, StepsOfActor, ReaderStays, InserterStays, CommitterStays
<1>2. ASSUME NEW a \in Actors, Step(a) PROVE db \subseteq db'
  BY <1>2, StepsOfActor, OnlyCommitsStore, CommitEffect
<1>3. ASSUME NEW a \in Actors, Step(a)
      PROVE  \A b \in Actors : RowsOfActor(b)' /\ Working(b)' /\ Whole(b)'
  BY <1>1, <1>2, <1>3, OthersUntouched, UntouchedStays
<1>4. CASE UNCHANGED vars
  <2>1. /\ db \subseteq db' /\ settings' = settings /\ email' = email
        /\ \A b \in Actors : Untouched(b)
    BY <1>4 DEF vars, given, Untouched
  <2> QED
    BY <2>1, UntouchedStays
<1> QED
  BY <1>3, <1>4 DEF Next, Step

\* What an actor inserts is insertable, checked or not.
LEMMA InsertedIsFree ==
    ASSUME IInv, NEW a \in Actors, Inserts(a)
    PROVE  \E new \in SUBSET Rows :
              mine' = [mine EXCEPT ![a] = mine[a] \cup new] /\ \A x \in new : Insertable(a, x)
<1> USE DEF IInv, TypeOK
<1> DEFINE Free(new) ==
              mine' = [mine EXCEPT ![a] = mine[a] \cup new] /\ \A x \in new : Insertable(a, x)
<1> SUFFICES \E new : Free(new)
  <2>1. PICK new : Free(new)
    OBVIOUS
  <2>2. mine'[a] \subseteq Rows
    BY TypeKept DEF Next, Serve, Inserts
  <2>3. mine'[a] = mine[a] \cup new
    BY <2>1
  <2> QED
    BY <2>1, <2>2, <2>3
<1>0. a \in Actors /\ pc[a] \in {"create", "household", "link", "categories", "demo"}
  BY DEF Inserts, CreateUser, CreateHousehold, Join, Link, SeedCategories, SeedDemo
<1>1. \A h : Insertable(a, Household(h))
  BY DEF Household, Insertable, Waits, Taken, SameKey
<1>2. \A u, role : Insertable(a, Membership(a, u, role))
  BY <1>0, HouseholdIsNew DEF Membership, Insertable, Waits, Taken, SameKey
<1>3. CASE CreateUser(a)
  <2>1. PICK new : new = {User(a, email[a])}
    OBVIOUS
  <2>2. Free(new)
    BY <1>3, <2>1 DEF CreateUser, Adds
  <2> QED
    BY <2>2
<1>4. CASE CreateHousehold(a)
  <2>1. PICK new : new = {Household(a)} \cup (IF a \in Invitations THEN {Membership(a, me[a], "owner")}
                                            ELSE {})
    OBVIOUS
  <2>2. Free(new)
    BY <1>1, <1>2, <1>4, <2>1 DEF CreateHousehold, Adds
  <2> QED
    BY <2>2
<1>5. CASE Join(a)
  <2>1. PICK h \in Ids :
            /\ ~ Waits(a, Membership(h, me[a], "member"))
            /\ Adds(a, IF Taken(Membership(h, me[a], "member")) THEN {}
                       ELSE {Membership(h, me[a], "member")})
    BY <1>5 DEF Join
  <2>2. PICK new : new = IF Taken(Membership(h, me[a], "member")) THEN {}
                         ELSE {Membership(h, me[a], "member")}
    OBVIOUS
  <2>3. Free(new)
    BY <2>1, <2>2 DEF Adds, Insertable
  <2> QED
    BY <2>3
<1>6. CASE Link(a)
  <2>1. PICK new : new = {MyIdentity(a, me[a])} \cup (IF Household(a) \in mine[a]
                                                     THEN {Membership(a, me[a], "owner")} ELSE {})
    OBVIOUS
  <2>2. Free(new)
    BY <1>2, <1>6, <2>1 DEF Link, Adds
  <2> QED
    BY <2>2
<1>7. CASE SeedCategories(a)
  <2>1. PICK new : new = {Category(slug) : slug \in {x \in Slugs : ~ Taken(Category(x))}}
    OBVIOUS
  <2>2. \A x \in new : Insertable(a, x)
    BY <1>7, <2>1 DEF SeedCategories, Insertable
  <2>3. Free(new)
    BY <1>7, <2>1, <2>2 DEF SeedCategories, Adds
  <2> QED
    BY <2>3
<1>8. CASE SeedDemo(a)
  <2>1. CASE Taken(User(a, DevEmail))
    <3>1. PICK new : new = {}
      OBVIOUS
    <3>2. Free(new)
      BY <1>8, <2>1, <3>1 DEF SeedDemo, Adds
    <3> QED
      BY <3>2
  <2>2. CASE ~ Taken(User(a, DevEmail))
    <3> DEFINE user == User(a, DevEmail)
               login == Identity("dev", DevEmail, a)
    <3>1. ~ Waits(a, user) /\ ~ Taken(user)
      BY <1>8, <2>2 DEF SeedDemo
    <3>2. user.table = "users" /\ user.email = DevEmail
      BY DEF User
    <3>3. \A x \in db : x.table = "users" => MailboxOf[x.email] # MailboxOf[DevEmail]
      BY <3>1, <3>2 DEF Taken, SameKey
    <3>4. \A b \in Actors \ {a} : \A x \in mine[b] :
              x.table = "users" => MailboxOf[x.email] # MailboxOf[DevEmail]
      BY <3>1, <3>2 DEF Waits, SameKey
    <3>5. login.table = "identities" /\ login.provider = "dev" /\ login.subject = DevEmail
      BY DEF Identity
    <3> HIDE DEF user, login
    <3>6. ~ Taken(login)
      BY <3>3, <3>5 DEF Taken, SameKey, ReferencesLead, Known
    <3>7. ~ Waits(a, login)
      <4> SUFFICES ASSUME NEW b \in Actors \ {a}, NEW x \in mine[b], SameKey(x, login) PROVE FALSE
        BY DEF Waits
      <4>1. x.table = "identities" /\ x.subject = DevEmail
        BY <3>5 DEF SameKey
      <4>2. email[b] = DevEmail
        BY <4>1 DEF RowsOfActor
      <4>3. Known(db \cup mine[b], Self(b), email[b])
        BY <4>1 DEF Working
      <4> QED
        BY <3>3, <3>4, <4>2, <4>3 DEF Known
    <3>8. PICK new : new = {user, Household(a), Membership(a, a, "owner"), login}
      OBVIOUS
    <3>9. mine' = [mine EXCEPT ![a] = mine[a] \cup new]
      BY <1>8, <2>2, <3>8 DEF SeedDemo, Adds, user, login
    <3>10. \A x \in new : Insertable(a, x)
      BY <1>1, <1>2, <3>1, <3>6, <3>7, <3>8 DEF Insertable
    <3> QED
      BY <3>9, <3>10
  <2> QED
    BY <2>1, <2>2
<1> QED
  BY <1>3, <1>4, <1>5, <1>6, <1>7, <1>8 DEF Inserts

LEMMA KeysKept == ASSUME IInv, [Next]_vars PROVE KeysFree'
<1> USE DEF IInv, TypeOK
<1>1. ASSUME db' = db, \A b \in Actors : mine'[b] \subseteq mine[b] PROVE KeysFree'
  BY <1>1 DEF KeysFree, SameKey
<1>2. ASSUME NEW a \in Actors, GivesUp(a) \/ Reads(a) PROVE KeysFree'
  <2>1. mine' = mine \/ mine' = [mine EXCEPT ![a] = {}]
    BY <1>2, GivesUpRollsBack DEF Rollback, Reads, Authenticate, FindIdentity, FindUser,
                                 DecideToCreate, Choose, ChooseForeign
  <2> QED
    BY <1>1, <1>2, <2>1, OnlyCommitsStore
<1>3. ASSUME NEW a \in Actors, Commit(a) PROVE KeysFree'
  <2>1. db' = db \cup mine[a] /\ mine' = [mine EXCEPT ![a] = {}]
    BY <1>3 DEF Commit
  <2> QED
    BY <2>1 DEF KeysFree, SameKey
<1>4. ASSUME NEW a \in Actors, Inserts(a) PROVE KeysFree'
  <2>1. PICK new \in SUBSET Rows :
            mine' = [mine EXCEPT ![a] = mine[a] \cup new] /\ \A x \in new : Insertable(a, x)
    BY <1>4, InsertedIsFree
  <2>2. \A x, y : SameKey(x, y) <=> SameKey(y, x)
    BY DEF SameKey
  <2>3. db' = db
    BY <1>4, OnlyCommitsStore
  <2>4. \A x \in new : /\ \A y \in db : ~ SameKey(y, x)
                       /\ \A b \in Actors \ {a} : \A y \in mine[b] : ~ SameKey(y, x)
    BY <2>1 DEF Insertable, Waits, Taken
  <2>5. \A x, y : SameKey(x, y)' <=> SameKey(x, y)
    BY DEF SameKey
  <2> QED
    BY <2>1, <2>2, <2>3, <2>4, <2>5 DEF KeysFree
<1>5. CASE UNCHANGED vars
  BY <1>1, <1>5 DEF vars
<1> QED
  BY <1>2, <1>3, <1>4, <1>5, StepsOfActor DEF Next, Step

----------------------------------------------------------------------------
(* The invariant holds, and what follows from it. *)

LEMMA InitIInv == ASSUME Init PROVE IInv
<1>1. TypeOK
  BY DEF Init, TypeOK, FirstStep, Steps, Answers
<1>2. UsersDiffer /\ ReferencesLead /\ NobodyHalfRegistered
  BY DEF Init, UsersDiffer, ReferencesLead, NobodyHalfRegistered, Users, Members, Identities
<1>3. KeysFree /\ PrincipalsKnown
  BY DEF Init, KeysFree, PrincipalsKnown
<1>4. ASSUME NEW a \in Actors PROVE RowsOfActor(a) /\ Working(a) /\ Whole(a)
  <2>1. /\ mine[a] = {} /\ pc[a] \in {"headers", "user", "categories"}
        /\ pc[a] = "headers" <=> a \in Requests
        /\ pc[a] = "user" <=> a \in Invitations
        /\ pc[a] = "categories" <=> a \in Seeds
    BY ActorsDiffer DEF Init, FirstStep, Actors
  <2> QED
    BY <2>1, ActorsDiffer DEF RowsOfActor, Working, Whole
<1> QED
  BY <1>1, <1>2, <1>3, <1>4 DEF IInv

LEMMA InvariantHolds == Spec => []IInv
<1>1. Init => IInv
  BY InitIInv
<1>2. IInv /\ [Next]_vars => IInv'
  BY TypeKept, UsersKept, ReferencesKept, ActorsKept, KeysKept, PrincipalsKept DEF IInv
<1> QED
  BY <1>1, <1>2, PTL DEF Spec

\* Every variable has its type.
THEOREM TypeCorrect == Spec => []TypeOK
<1>1. IInv => TypeOK
  BY DEF IInv
<1> QED
  BY <1>1, InvariantHolds, PTL

\* No crash and no race leaves a user without a household, a household without
\* an owner or an identity without a user (deps.py:92-113).
THEOREM RegistrationsWhole == Spec => []NobodyHalfRegistered
<1>1. IInv => NobodyHalfRegistered
  BY DEF IInv
<1> QED
  BY <1>1, InvariantHolds, PTL

\* The person behind a user that is known by an email.
LEMMA PersonOfKnown ==
    ASSUME UsersDiffer, NEW u, NEW e, Known(db, u, e)
    PROVE  PersonOf(u) = MailboxOf[e]
<1>1. PICK x \in Users : x.id = u /\ MailboxOf[x.email] = MailboxOf[e]
  BY DEF Known, Users
<1>2. (CHOOSE y \in Users : y.id = u) = x
  BY <1>1 DEF UsersDiffer, Users
<1> QED
  BY <1>1, <1>2 DEF PersonOf

\* Whom a request acts for, it is from (deps.py:139-159).
THEOREM PrincipalsTrue == Spec => []PrincipalIsMember
<1>1. IInv => PrincipalIsMember
  BY PersonOfKnown DEF IInv, PrincipalsKnown, PrincipalIsMember
<1> QED
  BY <1>1, InvariantHolds, PTL

----------------------------------------------------------------------------
(* Login implements Registration: a commit is a step, all else a stutter. *)

People == {PersonOf(x.id) : x \in Users}

Homes == {[home |-> m.household, person |-> PersonOf(m.user), role |-> m.role] : m \in Members}

Logins == {[provider |-> x.provider, subject |-> x.subject] : x \in Identities}

LEMMA StoreUnchanged == ASSUME db' = db PROVE UNCHANGED <<People, Homes, Logins>>
<1>1. Users' = Users /\ Members' = Members /\ Identities' = Identities
  BY DEF Users, Members, Identities
<1>2. \A u : PersonOf(u)' = PersonOf(u)
  BY <1>1 DEF PersonOf
<1> QED
  BY <1>1, <1>2 DEF People, Homes, Logins

\* The rows of a commit, as the tables of Registration show them.
LEMMA StoreOfCommit ==
    ASSUME IInv, IInv', NEW a \in Actors, Commit(a), NEW p, p = MailboxOf[email[a]]
    PROVE  /\ People' = People \cup {p : x \in {y \in mine[a] : y.table = "users"}}
           /\ Homes' = Homes \cup {[home |-> m.household, person |-> p, role |-> m.role] :
                                       m \in {y \in mine[a] : y.table = "memberships"}}
           /\ Logins' = Logins \cup {[provider |-> x.provider, subject |-> x.subject] :
                                         x \in {y \in mine[a] : y.table = "identities"}}
<1>1. db' = db \cup mine[a] /\ pc[a] = "commit"
  BY CommitEffect
<1>2. /\ Users' = Users \cup {y \in mine[a] : y.table = "users"}
      /\ Members' = Members \cup {y \in mine[a] : y.table = "memberships"}
      /\ Identities' = Identities \cup {y \in mine[a] : y.table = "identities"}
  BY <1>1 DEF Users, Members, Identities
<1>3. ASSUME NEW x \in Users' PROVE PersonOf(x.id)' = MailboxOf[x.email]
  <2>1. (CHOOSE y \in Users' : y.id = x.id) = x
    BY <1>3 DEF IInv, UsersDiffer, Users
  <2> QED
    BY <2>1 DEF PersonOf
<1>4. ASSUME NEW x \in Users PROVE PersonOf(x.id) = MailboxOf[x.email]
  <2>1. (CHOOSE y \in Users : y.id = x.id) = x
    BY <1>4 DEF IInv, UsersDiffer, Users
  <2> QED
    BY <2>1 DEF PersonOf
<1>5. ASSUME NEW m \in Members PROVE PersonOf(m.user)' = PersonOf(m.user)
  <2>1. PICK u \in Users : u.id = m.user
    BY <1>5 DEF IInv, ReferencesLead, Members
  <2> QED
    BY <1>2, <1>3, <1>4, <2>1
<1>6. ASSUME NEW x \in mine[a], x.table = "users" PROVE PersonOf(x.id)' = p
  <2>1. x \in Users' /\ x.email = email[a]
    BY <1>2, <1>6, OwnNames DEF User
  <2> QED
    BY <1>3, <2>1
<1>7. ASSUME NEW x \in mine[a], x.table = "memberships" PROVE PersonOf(x.user)' = p
  <2>1. x.user = Self(a) /\ Known(db \cup mine[a], Self(a), email[a])
    BY <1>7 DEF IInv, RowsOfActor, Working
  <2>2. PICK u \in Users' : u.id = x.user /\ MailboxOf[u.email] = p
    BY <1>1, <2>1 DEF Known, Users
  <2> QED
    BY <1>3, <2>2
<1>8. People' = People \cup {p : x \in {y \in mine[a] : y.table = "users"}}
  BY <1>2, <1>3, <1>4, <1>6 DEF People
<1>9. Homes' = Homes \cup {[home |-> m.household, person |-> p, role |-> m.role] :
                               m \in {y \in mine[a] : y.table = "memberships"}}
  BY <1>2, <1>5, <1>7 DEF Homes
<1>10. Logins' = Logins \cup {[provider |-> x.provider, subject |-> x.subject] :
                                 x \in {y \in mine[a] : y.table = "identities"}}
  BY <1>2 DEF Logins
<1> QED
  BY <1>8, <1>9, <1>10

LEMMA MapsInit == ASSUME Init PROVE Reg!Init
BY DEF Init, Reg!Init, Users, Members, Identities

\* What a step of Registration takes, in the terms above.
LEMMA MapsSettle ==
    ASSUME NEW p, NEW h, NEW role, \A x \in Homes : ~ (x.home = h /\ x.person = p),
           role = IF \E x \in Homes : x.home = h THEN "member" ELSE "owner",
           Homes' = Homes \cup {[home |-> h, person |-> p, role |-> role]},
           People' = People \cup {p}
    PROVE  Reg!Settle(p, h)
<1>1. Reg!Residents(h) = {} <=> role = "owner"
  BY DEF Reg!Residents, Homes
<1>2. role \in {"owner", "member"}
  OBVIOUS
<1>3. ~ \E x \in Reg!Residents(h) : x.person = p
  BY DEF Reg!Residents, Homes
<1>4. Reg!Residents(h) # {} => role = "member"
  BY <1>1, <1>2
<1> QED
  BY <1>1, <1>3, <1>4 DEF Reg!Settle, Homes, People

LEMMA MapsRecognise ==
    ASSUME NEW p, NEW s \in Logins', s \notin Logins, MailboxOf[s.subject] = p, p \in People',
           Logins' = Logins \cup {s}
    PROVE  Reg!Recognise(p, s)
BY DEF Reg!Recognise, SubjectOf, Logins, People

\* A table of which a commit brings no row looks as before.
LEMMA TablesAsBefore ==
    ASSUME IInv, IInv', NEW a \in Actors, Commit(a)
    PROVE  /\ (\A x \in mine[a] : x.table # "users") => People' = People
           /\ (\A x \in mine[a] : x.table # "memberships") => Homes' = Homes
           /\ (\A x \in mine[a] : x.table # "identities") => Logins' = Logins
<1>1. PICK p : p = MailboxOf[email[a]]
  OBVIOUS
<1>2. /\ People' = People \cup {p : x \in {y \in mine[a] : y.table = "users"}}
      /\ Homes' = Homes \cup {[home |-> m.household, person |-> p, role |-> m.role] :
                                  m \in {y \in mine[a] : y.table = "memberships"}}
      /\ Logins' = Logins \cup {[provider |-> x.provider, subject |-> x.subject] :
                                    x \in {y \in mine[a] : y.table = "identities"}}
  BY <1>1, StoreOfCommit
<1>3. ASSUME \A x \in mine[a] : x.table # "users" PROVE People' = People
  <2>1. {p : x \in {y \in mine[a] : y.table = "users"}} = {}
    BY <1>3
  <2> QED
    BY <1>2, <2>1
<1>4. ASSUME \A x \in mine[a] : x.table # "memberships" PROVE Homes' = Homes
  <2>1. {[home |-> m.household, person |-> p, role |-> m.role] :
             m \in {y \in mine[a] : y.table = "memberships"}} = {}
    BY <1>4
  <2> QED
    BY <1>2, <2>1
<1>5. ASSUME \A x \in mine[a] : x.table # "identities" PROVE Logins' = Logins
  <2>1. {[provider |-> x.provider, subject |-> x.subject] :
             x \in {y \in mine[a] : y.table = "identities"}} = {}
    BY <1>5
  <2> QED
    BY <1>2, <2>1
<1> QED
  BY <1>3, <1>4, <1>5

\* Whoever commits rows of a person, the person is registered after it.
LEMMA PersonThere ==
    ASSUME IInv, IInv', NEW a \in Actors, Commit(a), NEW p, p = MailboxOf[email[a]],
           NEW x \in mine[a], x.table # "categories"
    PROVE  People' = People \cup {p}
<1>1. CASE \E y \in mine[a] : y.table = "users"
  BY <1>1, StoreOfCommit
<1>2. CASE ~ \E y \in mine[a] : y.table = "users"
  <2>1. Known(db, Self(a), email[a])
    BY <1>2 DEF IInv, Working, Known
  <2>2. PersonOf(Self(a)) = p
    BY <2>1, PersonOfKnown DEF IInv
  <2>3. PICK y \in Users : y.id = Self(a)
    BY <2>1 DEF Known, Users
  <2>4. p \in People
    BY <2>2, <2>3 DEF People
  <2>5. People' = People
    BY <1>2, TablesAsBefore
  <2> QED
    BY <2>4, <2>5
<1> QED
  BY <1>1, <1>2

\* A membership committed settles its person, as the owner of a new household
\* or as a member of one that is there.
LEMMA MapsMembership ==
    ASSUME IInv, IInv', NEW a \in Actors, Commit(a), NEW p, p = MailboxOf[email[a]],
           NEW m \in mine[a], m.table = "memberships"
    PROVE  /\ m.household \in Ids /\ Reg!Settle(p, m.household)
           /\ a \notin Invitations => Reg!Residents(a) = {} /\ Reg!Settle(p, a)
<1> USE DEF IInv
<1>1. pc[a] = "commit" /\ m.household \in Ids
  BY CommitEffect, ShapesOfRows DEF TypeOK
<1>2. Homes' = Homes \cup {[home |-> m.household, person |-> p, role |-> m.role]}
  <2>1. {y \in mine[a] : y.table = "memberships"} = {m}
    BY <1>1 DEF Whole
  <2> QED
    BY <2>1, StoreOfCommit
<1>3. People' = People \cup {p}
  BY PersonThere
<1>4. CASE m.household = a /\ m.role = "owner"
  <2>1. \A x \in Homes : x.home # a
    BY <1>1, HouseholdIsNew DEF Homes, Members
  <2>2. Reg!Residents(a) = {}
    BY <2>1 DEF Reg!Residents, Homes
  <2>3. m.role = "owner" /\ ~ \E x \in Homes : x.home = m.household
    BY <1>4, <2>1
  <2>4. \A x \in Homes : ~ (x.home = m.household /\ x.person = p)
    BY <1>4, <2>1
  <2>5. Reg!Settle(p, m.household)
    <3>1. PICK h : h = m.household
      OBVIOUS
    <3>2. Homes' = Homes \cup {[home |-> h, person |-> p, role |-> "owner"]}
      BY <1>2, <2>3, <3>1
    <3>3. Reg!Settle(p, h)
      BY <1>3, <2>3, <2>4, <3>1, <3>2, MapsSettle
    <3> QED
      BY <3>1, <3>3
  <2> QED
    BY <1>1, <1>4, <2>2, <2>5
<1>5. CASE Household(m.household) \in db /\ m.role = "member" /\ a \in Invitations
  <2>1. \E x \in Homes : x.home = m.household
    <3>1. Household(m.household).table = "households" /\ Household(m.household).id = m.household
      BY DEF Household
    <3>2. PICK n \in Members : n.household = m.household
      BY <1>5, <3>1 DEF NobodyHalfRegistered
    <3>3. PICK x : x = [home |-> n.household, person |-> PersonOf(n.user), role |-> n.role]
      OBVIOUS
    <3>4. x \in Homes /\ x.home = m.household
      BY <3>2, <3>3 DEF Homes
    <3> QED
      BY <3>4
  <2>2. \A x \in Homes : ~ (x.home = m.household /\ x.person = p)
    <3> SUFFICES ASSUME NEW n \in Members, n.household = m.household, PersonOf(n.user) = p
                 PROVE  FALSE
      BY DEF Homes
    <3>1. PICK u \in Users : u.id = n.user
      BY DEF ReferencesLead, Members
    <3>2. MailboxOf[u.email] = p
      <4>1. Known(db, n.user, u.email)
        BY <3>1 DEF Known, Users
      <4> QED
        BY <4>1, PersonOfKnown
    <3>3. Known(db \cup mine[a], m.user, email[a])
      <4>1. m.user = Self(a)
        BY DEF RowsOfActor
      <4>2. Known(db \cup mine[a], Self(a), email[a])
        BY <1>1 DEF Working
      <4> QED
        BY <4>1, <4>2
    <3>4. PICK v \in db' : v.table = "users" /\ v.id = m.user /\ MailboxOf[v.email] = p
      BY <3>3, CommitEffect DEF Known
    <3>5. u = v
      BY <3>1, <3>2, <3>4, CommitEffect DEF UsersDiffer, Users
    <3>6. SameKey(n, m)
      BY <3>1, <3>4, <3>5 DEF SameKey, Members
    <3> QED
      BY <3>6 DEF KeysFree, Members
  <2> QED
    BY <1>1, <1>2, <1>3, <1>5, <2>1, <2>2, MapsSettle
<1> QED
  BY <1>4, <1>5 DEF RowsOfActor

LEMMA MapsIdentity ==
    ASSUME IInv, IInv', NEW a \in Actors, Commit(a), NEW p, p = MailboxOf[email[a]],
           NEW x \in mine[a], x.table = "identities"
    PROVE  \E s \in [provider : {"cf_access", "dev"}, subject : Emails] : Reg!Recognise(p, s)
<1> USE DEF IInv
<1> DEFINE s == [provider |-> x.provider, subject |-> x.subject]
<1>1. s \in [provider : {"cf_access", "dev"}, subject : Emails]
  BY ShapesOfRows DEF TypeOK
<1>2. Logins' = Logins \cup {s}
  <2>1. {y \in mine[a] : y.table = "identities"} = {x}
    BY CommitEffect DEF Whole
  <2> QED
    BY <2>1, StoreOfCommit
<1>3. s \notin Logins
  <2> SUFFICES ASSUME NEW y \in Identities, y.provider = x.provider, y.subject = x.subject
               PROVE  FALSE
    BY DEF Logins
  <2> QED
    BY DEF KeysFree, SameKey, Identities
<1>4. MailboxOf[s.subject] = p
  BY DEF RowsOfActor
<1>5. p \in People'
  BY PersonThere
<1> HIDE DEF s
<1>6. Reg!Recognise(p, s)
  BY <1>2, <1>3, <1>4, <1>5, MapsRecognise
<1> QED
  BY <1>1, <1>6

LEMMA MapsCommit ==
    ASSUME IInv, IInv', NEW a \in Actors, Commit(a)
    PROVE  [Reg!Next]_(Reg!vars)
<1> USE DEF IInv
<1> DEFINE p == MailboxOf[email[a]]
<1>1. p \in {MailboxOf[e] : e \in Emails}
  BY EmailOfActor
<1>2. pc[a] = "commit"
  BY CommitEffect
<1>3. \A x \in mine[a] : x.table \in {"users", "identities", "households", "memberships", "categories"}
  BY ShapesOfRows DEF TypeOK
<1>4. \A x \in mine[a] : /\ x.table = "users" => User(a, email[a]) \in mine[a]
                         /\ x.table = "households" => Household(a) \in mine[a]
  BY OwnNames
<1>5. User(a, email[a]) \in mine[a] => \E m \in mine[a] : m.table = "memberships"
  BY <1>2 DEF Whole
<1>6. Household(a) \in mine[a] => \E m \in mine[a] : m.table = "memberships"
  <2>1. Membership(a, Self(a), "owner").table = "memberships"
    BY DEF Membership
  <2> QED
    BY <1>2, <2>1 DEF Whole
<1>7. (\E x \in mine[a] : x.table = "identities") <=>
          (a \in Requests \/ (a \in Seeds /\ User(a, email[a]) \in mine[a]))
  BY <1>2 DEF Whole
<1>8. CASE a \in Invitations
  <2>1. a \notin Requests /\ a \notin Seeds
    BY <1>8, ActorsDiffer
  <2>2. Logins' = Logins
    BY <1>7, <2>1, TablesAsBefore
  <2>3. CASE \E m \in mine[a] : m.table = "memberships"
    <3>1. \E h \in Ids : Reg!Settle(p, h)
      BY <2>3, MapsMembership
    <3>2. Reg!Invite(p)
      BY <2>2, <3>1 DEF Reg!Invite, Logins
    <3> QED
      BY <1>1, <3>2 DEF Reg!Next
  <2>4. CASE ~ \E m \in mine[a] : m.table = "memberships"
    <3>1. People' = People /\ Homes' = Homes
      BY <1>4, <1>5, <2>4, TablesAsBefore
    <3> QED
      BY <2>2, <3>1 DEF Reg!vars, People, Homes, Logins
  <2> QED
    BY <2>3, <2>4
<1>9. CASE a \notin Invitations /\ User(a, email[a]) \in mine[a]
  <2>1. a \in Requests \/ a \in Seeds
    BY <1>9 DEF Actors
  <2>2. \E s \in [provider : {"cf_access", "dev"}, subject : Emails] : Reg!Recognise(p, s)
    BY <1>7, <1>9, <2>1, MapsIdentity
  <2>3. Reg!Residents(a) = {} /\ Reg!Settle(p, a) /\ a \in Ids
    BY <1>5, <1>9, MapsMembership DEF Ids
  <2>4. p \notin People
    <3>1. User(a, email[a]).table = "users" /\ User(a, email[a]).email = email[a]
      BY DEF User
    <3>2. \A x \in Users : MailboxOf[x.email] # p
      BY <1>9, <3>1 DEF KeysFree, SameKey, Users
    <3>3. \A x \in Users : PersonOf(x.id) = MailboxOf[x.email]
      BY PersonOfKnown DEF Known, Users
    <3> QED
      BY <3>2, <3>3 DEF People
  <2>5. Reg!Register(p)
    BY <2>2, <2>3, <2>4 DEF Reg!Register, People
  <2> QED
    BY <1>1, <2>5 DEF Reg!Next
<1>10. CASE a \notin Invitations /\ User(a, email[a]) \notin mine[a]
  <2>1. Household(a) \notin mine[a]
    BY <1>2, <1>10 DEF Whole
  <2>2. ~ \E m \in mine[a] : m.table \in {"memberships", "users"}
    BY <1>4, <1>10, <2>1 DEF RowsOfActor
  <2>3. People' = People /\ Homes' = Homes
    BY <2>2, TablesAsBefore
  <2>4. CASE \E x \in mine[a] : x.table = "identities"
    <3>1. \E s \in [provider : {"cf_access", "dev"}, subject : Emails] : Reg!Recognise(p, s)
      BY <2>4, MapsIdentity
    <3>2. Reg!Return(p)
      BY <2>3, <3>1 DEF Reg!Return, People, Homes
    <3> QED
      BY <1>1, <3>2 DEF Reg!Next
  <2>5. CASE ~ \E x \in mine[a] : x.table = "identities"
    <3>1. Logins' = Logins
      BY <2>5, TablesAsBefore
    <3> QED
      BY <2>3, <3>1 DEF Reg!vars, People, Homes, Logins
  <2> QED
    BY <2>4, <2>5
<1> QED
  BY <1>8, <1>9, <1>10

\* Every race of logins, invitations and seeds looks as if each had taken one
\* step: people are registered once, whole, and recognised as themselves.
THEOREM Refinement == Spec => ImplementsRegistration
<1>1. Init => Reg!Init
  BY MapsInit
<1>2. IInv /\ IInv' /\ [Next]_vars => [Reg!Next]_(Reg!vars)
  <2>1. ASSUME db' = db PROVE UNCHANGED Reg!vars
    BY <2>1, StoreUnchanged DEF Reg!vars, People, Homes, Logins
  <2>2. ASSUME IInv, IInv', NEW a \in Actors, Step(a) PROVE [Reg!Next]_(Reg!vars)
    BY <2>1, <2>2, StepsOfActor, OnlyCommitsStore, MapsCommit
  <2>3. ASSUME UNCHANGED vars PROVE UNCHANGED Reg!vars
    BY <2>1, <2>3 DEF vars
  <2> QED
    BY <2>2, <2>3 DEF Next, Step
<1> QED
  BY <1>1, <1>2, InvariantHolds, PTL DEF Spec, ImplementsRegistration, Reg!Spec

=============================================================================
