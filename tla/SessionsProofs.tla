--------------------------- MODULE SessionsProofs ---------------------------
(***************************************************************************)
(* Proofs about Sessions for any requests, households, people, memberships *)
(* and pools: the inductive invariant IInv, the isolation of tenants that  *)
(* follows from it, and the refinement of TenantStore.                     *)
(***************************************************************************)
EXTENDS Sessions, TLAPS

----------------------------------------------------------------------------
(* The inductive invariant. *)

\* The steps in which a request holds a connection.
InSession == {"probing", "resolving", "identifying", "handling", "closing"}

\* Exactly the requests in a session hold a connection, one each.
OneConnectionEach ==
    /\ \A c \in Connections : holder[c] # Nobody => pc[holder[c]] \in InSession
    /\ \A c, d \in Connections : holder[c] = holder[d] /\ holder[c] # Nobody => c = d
    /\ \A r \in Requests : pc[r] \in InSession => \E c \in Connections : holder[c] = r

HouseholdOf(r) == (CHOOSE m \in acting[r] : TRUE).household

\* What the session a request is in has set.
ParametersOf(r) ==
    [household |-> IF pc[r] \in {"handling", "closing"} THEN HouseholdOf(r) ELSE Nowhere,
     user |-> IF pc[r] = "identifying" THEN who[r] ELSE Nobody]

\* A connection carries the parameters of its holder's session, and no others.
ContextIsHolders ==
    \A c \in Connections :
        context[c] = IF holder[c] = Nobody THEN NoContext ELSE ParametersOf(holder[c])

\* A request works with a membership of its person, within its role.
ActsAsMember ==
    \A r \in Requests :
        /\ \A m \in belongs[r] \cup acting[r] : m.user = who[r]
        /\ \A m, n \in acting[r] : m = n
        /\ pc[r] \in {"enter", "handling", "closing"} => acting[r] # {}
        /\ \A m \in acting[r], o \in op[r] : Allowed(m, o)
        /\ pc[r] \in {"probe", "probing"} => who[r] = Nobody

\* What a handler answered with, of its household, and what it has inserted.
Prepared(r) ==
    /\ pc[r] \notin {"closing", "done"} => answer[r] = "none" /\ seen[r] = {}
    /\ pc[r] = "closing" => answer[r] \in {"ok", "not_found", "created"}
    /\ seen[r] # {} => answer[r] \in {"ok", "created"}
    /\ pc[r] = "closing" /\ answer[r] = "created" => mine[r] # {}
    /\ mine[r] # {} => /\ pc[r] = "closing" /\ answer[r] = "created" /\ op[r] = {"create"}
                       /\ \E ref \in Refs : mine[r] = {NewAccount(r, ref)}
                       /\ seen[r] = mine[r]
    /\ \A row \in seen[r] : \E m \in acting[r] : m.household = row.household

AnswersPrepared == \A r \in Requests : Prepared(r)

\* No row, committed or not, has the key of another one that is uncommitted.
KeysFree ==
    \A r \in Requests : \A x \in mine[r] :
        /\ \A y \in db : ~ SameKey(y, x)
        /\ \A s \in Requests \ {r} : \A y \in mine[s] : ~ SameKey(y, x)

IInv == /\ TypeOK
        /\ OneConnectionEach
        /\ ContextIsHolders
        /\ ActsAsMember
        /\ AnswersPrepared
        /\ KeysFree
        /\ AnsweredIsStored

----------------------------------------------------------------------------
(* What a step does to connections. *)

\* A request outside a session, or one that comes out of it, holds nothing.
LEMMA HoldersDisjoint ==
    ASSUME OneConnectionEach, TypeOK, NEW r \in Requests, pc[r] \notin InSession,
           NEW c \in Connections
    PROVE  holder[c] # r
BY NobodyIsNobody DEF OneConnectionEach, TypeOK

LEMMA ReleaseEffect ==
    ASSUME TypeOK, NEW r \in Requests, Release(r)
    PROVE  /\ Connections' = Connections
           /\ \A c \in Connections :
                 /\ holder'[c] = IF holder[c] = r THEN Nobody ELSE holder[c]
                 /\ context'[c] = IF holder[c] = r THEN NoContext ELSE context[c]
BY DEF TypeOK, Release, Connections, ContextAfter

\* The household a handler works for is one of its person.
LEMMA HouseholdOfActing ==
    ASSUME TypeOK, NEW r \in Requests, acting[r] # {}
    PROVE  \E m \in acting[r] : m \in Members /\ m.household = HouseholdOf(r)
                                /\ HouseholdOf(r) \in Households
<1> DEFINE chosen == CHOOSE m \in acting[r] : TRUE
<1>1. chosen \in acting[r]
  OBVIOUS
<1>2. chosen.household = HouseholdOf(r)
  BY DEF HouseholdOf
<1>3. chosen \in Members
  BY <1>1 DEF TypeOK
<1> HIDE DEF chosen
<1>4. chosen.household \in Households
  BY <1>3, MembersAreRows
<1> QED
  BY <1>1, <1>2, <1>3, <1>4

\* In the handler the connection carries the household of the request.
LEMMA ContextOfHandler ==
    ASSUME IInv, NEW r \in Requests, pc[r] \in InSession
    PROVE  ContextOf(r) = ParametersOf(r)
<1>1. PICK c \in Connections : holder[c] = r
  BY DEF IInv, OneConnectionEach
<1>2. (CHOOSE d \in Connections : holder[d] = r) = c
  BY <1>1, NobodyIsNobody DEF IInv, OneConnectionEach
<1> QED
  BY <1>1, <1>2, NobodyIsNobody DEF IInv, ContextIsHolders, ContextOf

----------------------------------------------------------------------------
(* Each part of the invariant is kept. *)

LEMMA TypeKept == ASSUME IInv, [Next]_vars PROVE TypeOK'
<1> USE DEF IInv
<1>1. ASSUME NEW r \in Requests, Release(r)
      PROVE  /\ Connections' \in Pools
             /\ holder' \in [Connections' -> Requests \cup {Nobody}]
             /\ context' \in [Connections' -> Contexts]
  <2>1. NoContext \in Contexts
    BY DEF NoContext, Contexts
  <2> QED
    BY <1>1, <2>1 DEF TypeOK, Release, Connections, ContextAfter
<1>2. ASSUME NEW r \in Requests, Open(r) PROVE TypeOK'
  <2>1. Parameters(r) \in Contexts
    <3>1. pc[r] = "enter" => HouseholdOf(r) \in Households
      BY HouseholdOfActing DEF ActsAsMember
    <3> QED
      BY <3>1 DEF TypeOK, Parameters, Contexts, HouseholdOf
  <2>2. \A c \in Connections : Merge(context[c], Parameters(r)) \in Contexts
    BY <2>1 DEF TypeOK, Merge, Contexts
  <2> QED
    BY <1>2, <2>2 DEF TypeOK, Open, Connections, Goto, Opens, Steps
<1>3. ASSUME NEW r \in Requests, Fail(r) PROVE TypeOK'
  BY <1>1, <1>3 DEF TypeOK, Fail, Goto, Steps, Answers
<1>4. ASSUME NEW r \in Requests,
             \/ Probe(r) \/ ProbeFails(r) \/ Resolve(r) \/ ReadMemberships(r)
             \/ Close(r) \/ LoseCommit(r)
      PROVE  TypeOK'
  <2>1. Release(r)
    BY <1>4 DEF Probe, ProbeFails, Resolve, ReadMemberships, Close, LoseCommit
  <2> QED
    BY <1>1, <1>4, <2>1 DEF TypeOK, Probe, ProbeFails, Resolve, ReadMemberships, Close, LoseCommit,
                            Goto, Steps, Answers, VisibleMembers
<1>5. ASSUME NEW r \in Requests, Admit(r) \/ Forbid(r) \/ DenyHousehold(r) PROVE TypeOK'
  BY <1>5 DEF TypeOK, Admit, Forbid, DenyHousehold, Goto, Steps, Answers, Connections
<1>6. ASSUME NEW r \in Requests, ListAccounts(r) \/ GetById(r) \/ NotFound(r) PROVE TypeOK'
  BY <1>6 DEF TypeOK, ListAccounts, GetById, NotFound, Reply, Goto, Steps, Answers, Connections,
              Visible
<1>7. ASSUME NEW r \in Requests, CreateAccount(r) PROVE TypeOK'
  <2>1. \A ref \in Refs : NewAccount(r, ref) \in Rows
    <3>1. HouseholdOf(r) \in Households
      BY <1>7, HouseholdOfActing DEF ActsAsMember, CreateAccount
    <3> QED
      BY <3>1 DEF NewAccount, HouseholdOf, Rows, Tables
  <2> QED
    BY <1>7, <2>1 DEF TypeOK, CreateAccount, Reply, Goto, Steps, Answers, Connections
<1>8. CASE UNCHANGED vars
  BY <1>8 DEF TypeOK, vars, Connections
<1> QED
  BY <1>2, <1>3, <1>4, <1>5, <1>6, <1>7, <1>8
  DEF Next, Serve, Abort, PoolTimeout, CreateConflict

LEMMA ConnectionsKept == ASSUME IInv, [Next]_vars PROVE OneConnectionEach'
<1> USE DEF IInv
<1>1. ASSUME NEW r \in Requests, NEW s \in Steps \ InSession, Release(r), pc' = [pc EXCEPT ![r] = s]
      PROVE  OneConnectionEach'
  BY <1>1, ReleaseEffect, NobodyIsNobody DEF TypeOK, OneConnectionEach
<1>2. ASSUME NEW r \in Requests, Open(r) PROVE OneConnectionEach'
  <2>1. pc[r] \notin InSession /\ pc'[r] \in InSession /\ \A q \in Requests \ {r} : pc'[q] = pc[q]
    BY <1>2 DEF TypeOK, Open, Opens, Goto, InSession
  <2>2. PICK c \in Connections : holder[c] = Nobody /\ holder' = [holder EXCEPT ![c] = r]
    BY <1>2 DEF Open
  <2>3. Connections' = Connections /\ \A d \in Connections : holder'[d] = IF d = c THEN r ELSE holder[d]
    BY <2>2 DEF TypeOK, Connections
  <2> QED
    BY <2>1, <2>2, <2>3, HoldersDisjoint, NobodyIsNobody DEF TypeOK, OneConnectionEach
<1>3. ASSUME NEW r \in Requests, NEW s \in Steps, pc[r] \in InSession <=> s \in InSession,
             UNCHANGED holder, pc' = [pc EXCEPT ![r] = s]
      PROVE  OneConnectionEach'
  BY <1>3 DEF TypeOK, OneConnectionEach, Connections
<1>4. ASSUME NEW r \in Requests, Fail(r) PROVE OneConnectionEach'
  BY <1>1, <1>4 DEF Fail, Goto, Steps, InSession
<1>5. ASSUME NEW r \in Requests,
             \/ Probe(r) \/ ProbeFails(r) \/ Resolve(r) \/ ReadMemberships(r)
             \/ Close(r) \/ LoseCommit(r)
      PROVE  OneConnectionEach'
  BY <1>1, <1>5 DEF Probe, ProbeFails, Resolve, ReadMemberships, Close, LoseCommit, Goto, Steps,
                    InSession
<1>6. ASSUME NEW r \in Requests, Admit(r) \/ Forbid(r) \/ DenyHousehold(r)
      PROVE  OneConnectionEach'
  BY <1>3, <1>6 DEF Admit, Forbid, DenyHousehold, Goto, Steps, InSession
<1>7. ASSUME NEW r \in Requests,
             ListAccounts(r) \/ GetById(r) \/ NotFound(r) \/ CreateAccount(r)
      PROVE  OneConnectionEach'
  BY <1>3, <1>7 DEF ListAccounts, GetById, NotFound, CreateAccount, Reply, Goto, Steps, InSession
<1>8. CASE UNCHANGED vars
  BY <1>8 DEF OneConnectionEach, vars, Connections
<1> QED
  BY <1>2, <1>4, <1>5, <1>6, <1>7, <1>8 DEF Next, Serve, Abort, PoolTimeout, CreateConflict

\* What the sessions of other requests have set does not depend on this one.
LEMMA ContextsKept == ASSUME IInv, [Next]_vars PROVE ContextIsHolders'
<1> USE DEF IInv
<1>1. ASSUME NEW r \in Requests, NEW s \in Steps, Release(r), pc' = [pc EXCEPT ![r] = s],
             UNCHANGED <<who, acting>>
      PROVE  ContextIsHolders'
  <2>1. \A q \in Requests \ {r} : ParametersOf(q)' = ParametersOf(q)
    BY <1>1 DEF TypeOK, ParametersOf, HouseholdOf
  <2> QED
    BY <1>1, <2>1, ReleaseEffect, NobodyIsNobody DEF TypeOK, ContextIsHolders
<1>2. ASSUME NEW r \in Requests, Open(r) PROVE ContextIsHolders'
  <2>1. \A q \in Requests \ {r} : ParametersOf(q)' = ParametersOf(q)
    BY <1>2 DEF TypeOK, Open, Goto, ParametersOf, HouseholdOf
  <2>2. PICK c \in Connections : /\ holder[c] = Nobody
                                 /\ holder' = [holder EXCEPT ![c] = r]
                                 /\ context' = [context EXCEPT ![c] = Merge(@, Parameters(r))]
    BY <1>2 DEF Open
  <2>3. ParametersOf(r)' = Parameters(r)
    BY <1>2 DEF TypeOK, Open, Opens, Goto, ParametersOf, Parameters, HouseholdOf
  <2>4. context[c] = NoContext
    BY <2>2 DEF ContextIsHolders
  <2>5. Merge(NoContext, Parameters(r)) = Parameters(r)
    BY DEF Merge, NoContext, Parameters
  <2>6. \A d \in Connections : d # c => holder[d] # r
    BY <1>2, HoldersDisjoint DEF Open, Opens, InSession
  <2> QED
    BY <2>1, <2>2, <2>3, <2>4, <2>5, <2>6, NobodyIsNobody DEF TypeOK, ContextIsHolders, Connections
<1>3. ASSUME NEW r \in Requests, pc[r] \notin InSession, NEW s \in Steps,
             UNCHANGED <<who, holder, context>>, pc' = [pc EXCEPT ![r] = s],
             \A q \in Requests \ {r} : acting'[q] = acting[q]
      PROVE  ContextIsHolders'
  <2>1. ASSUME NEW q \in Requests \ {r} PROVE ParametersOf(q)' = ParametersOf(q)
    <3>1. HouseholdOf(q)' = HouseholdOf(q)
      BY <1>3 DEF HouseholdOf
    <3>2. pc'[q] = pc[q] /\ who'[q] = who[q]
      BY <1>3 DEF TypeOK
    <3> QED
      BY <3>1, <3>2 DEF ParametersOf
  <2>2. \A c \in Connections : holder[c] # r
    BY <1>3, HoldersDisjoint
  <2> QED
    BY <1>3, <2>1, <2>2, NobodyIsNobody DEF TypeOK, ContextIsHolders, Connections
<1>4. ASSUME NEW r \in Requests, pc[r] = "handling", pc' = [pc EXCEPT ![r] = "closing"],
             UNCHANGED <<who, holder, context, acting>>
      PROVE  ContextIsHolders'
  <2>1. ASSUME NEW q \in Requests PROVE ParametersOf(q)' = ParametersOf(q)
    <3>1. HouseholdOf(q)' = HouseholdOf(q)
      BY <1>4 DEF HouseholdOf
    <3>2. /\ pc'[q] \in {"handling", "closing"} <=> pc[q] \in {"handling", "closing"}
          /\ pc'[q] = "identifying" <=> pc[q] = "identifying"
          /\ who'[q] = who[q]
      BY <1>4 DEF TypeOK
    <3> QED
      BY <3>1, <3>2 DEF ParametersOf
  <2> QED
    BY <1>4, <2>1 DEF TypeOK, ContextIsHolders, Connections
<1>5. ASSUME NEW r \in Requests,
             \/ Fail(r) \/ Probe(r) \/ ProbeFails(r) \/ Resolve(r) \/ ReadMemberships(r)
             \/ Close(r) \/ LoseCommit(r)
      PROVE  ContextIsHolders'
  BY <1>1, <1>5 DEF Fail, Probe, ProbeFails, Resolve, ReadMemberships, Close, LoseCommit, Goto,
                    Steps
<1>6. ASSUME NEW r \in Requests, Admit(r) \/ Forbid(r) \/ DenyHousehold(r)
      PROVE  ContextIsHolders'
  BY <1>3, <1>6 DEF TypeOK, Admit, Forbid, DenyHousehold, Goto, Steps, InSession
<1>7. ASSUME NEW r \in Requests,
             ListAccounts(r) \/ GetById(r) \/ NotFound(r) \/ CreateAccount(r)
      PROVE  ContextIsHolders'
  BY <1>4, <1>7 DEF ListAccounts, GetById, NotFound, CreateAccount, Reply, Goto
<1>8. CASE UNCHANGED vars
  BY <1>8 DEF ContextIsHolders, ParametersOf, HouseholdOf, vars, Connections
<1> QED
  BY <1>2, <1>5, <1>6, <1>7, <1>8 DEF Next, Serve, Abort, PoolTimeout, CreateConflict

LEMMA MembershipsKept == ASSUME IInv, [Next]_vars PROVE ActsAsMember'
<1> USE DEF IInv
<1>1. ASSUME NEW r \in Requests, NEW s \in Steps, pc' = [pc EXCEPT ![r] = s],
             s \in {"enter", "handling", "closing"} => pc[r] \in {"enter", "handling", "closing"},
             s \in {"probe", "probing"} => pc[r] \in {"probe", "probing"},
             UNCHANGED <<who, belongs, acting, op>>
      PROVE  ActsAsMember'
  BY <1>1 DEF TypeOK, ActsAsMember, Allowed
<1>2. ASSUME NEW r \in Requests, Admit(r) PROVE ActsAsMember'
  BY <1>2 DEF TypeOK, ActsAsMember, Admit, Goto, Allowed
<1>3. ASSUME NEW r \in Requests, ReadMemberships(r) PROVE ActsAsMember'
  BY <1>3 DEF TypeOK, ActsAsMember, ReadMemberships, Goto, Allowed
<1>4. ASSUME NEW r \in Requests, Open(r) PROVE ActsAsMember'
  <2>1. pc[r] \in {"probe", "resolve", "identify", "enter"}
    BY <1>4 DEF Open, Opens
  <2>2. PICK s \in Steps :
            /\ s = Opens[pc[r]]
            /\ s \in {"enter", "handling", "closing"} => pc[r] = "enter"
            /\ s \in {"probe", "probing"} => pc[r] = "probe"
    BY <2>1 DEF Opens, Steps
  <2>3. pc' = [pc EXCEPT ![r] = s] /\ UNCHANGED <<who, belongs, acting, op>>
    BY <1>4, <2>2 DEF Open, Goto
  <2> QED
    BY <1>1, <2>2, <2>3
<1>5. ASSUME NEW r \in Requests,
             \/ Fail(r) \/ Probe(r) \/ ProbeFails(r) \/ Resolve(r) \/ Close(r) \/ LoseCommit(r)
             \/ Forbid(r) \/ DenyHousehold(r)
      PROVE  ActsAsMember'
  BY <1>1, <1>5 DEF Fail, Probe, ProbeFails, Resolve, Close, LoseCommit, Forbid, DenyHousehold,
                    Goto, Steps
<1>6. ASSUME NEW r \in Requests,
             ListAccounts(r) \/ GetById(r) \/ NotFound(r) \/ CreateAccount(r)
      PROVE  ActsAsMember'
  BY <1>1, <1>6 DEF ListAccounts, GetById, NotFound, CreateAccount, Reply, Goto, Steps
<1>7. CASE UNCHANGED vars
  BY <1>7 DEF ActsAsMember, Allowed, vars
<1> QED
  BY <1>2, <1>3, <1>4, <1>5, <1>6, <1>7 DEF Next, Serve, Abort, PoolTimeout, CreateConflict

\* What a request keeps while another one takes a step.
Untouched(q) ==
    /\ pc'[q] = pc[q] /\ acting'[q] = acting[q] /\ op'[q] = op[q]
    /\ mine'[q] = mine[q] /\ seen'[q] = seen[q] /\ answer'[q] = answer[q]

Step(r) == Serve(r) \/ LoseCommit(r) \/ ProbeFails(r) \/ Abort(r) \/ PoolTimeout(r)

\* Failing is for requests that are not done.
LEMMA FailsEarly ==
    ASSUME IInv, NEW r \in Requests, CreateConflict(r) \/ Abort(r) \/ PoolTimeout(r)
    PROVE  Fail(r) /\ pc[r] # "done"
BY NobodyIsNobody DEF IInv, CreateConflict, Abort, PoolTimeout, OneConnectionEach, InSession,
                      Opens

LEMMA OthersUntouched ==
    ASSUME IInv, NEW r \in Requests, Step(r), NEW q \in Requests \ {r}
    PROVE  Untouched(q)
<1> USE DEF IInv, TypeOK, Untouched
<1>1. CASE Open(r)
  BY <1>1 DEF Open, Goto
<1>2. CASE Probe(r) \/ ProbeFails(r) \/ Resolve(r) \/ ReadMemberships(r)
  BY <1>2 DEF Probe, ProbeFails, Resolve, ReadMemberships, Goto
<1>3. CASE Admit(r) \/ Forbid(r) \/ DenyHousehold(r)
  BY <1>3 DEF Admit, Forbid, DenyHousehold, Goto
<1>4. CASE ListAccounts(r) \/ GetById(r) \/ NotFound(r) \/ CreateAccount(r)
  BY <1>4 DEF ListAccounts, GetById, NotFound, CreateAccount, Reply, Goto
<1>5. CASE CreateConflict(r) \/ Abort(r) \/ PoolTimeout(r)
  <2>1. Fail(r)
    BY <1>5, FailsEarly
  <2> QED
    BY <2>1 DEF Fail, Goto
<1>6. CASE Close(r) \/ LoseCommit(r)
  BY <1>6 DEF Close, LoseCommit, Goto
<1> QED
  BY <1>1, <1>2, <1>3, <1>4, <1>5, <1>6 DEF Step, Serve

LEMMA PreparedUntouched ==
    ASSUME NEW q \in Requests, Prepared(q), Untouched(q)
    PROVE  Prepared(q)'
<1>1. \A ref : NewAccount(q, ref)' = NewAccount(q, ref)
  BY DEF Untouched, NewAccount
<1> QED
  BY <1>1 DEF Prepared, Untouched

\* A row that is visible in the handler is of a household its person acts in.
LEMMA VisibleIsActing ==
    ASSUME IInv, NEW r \in Requests, pc[r] = "handling", NEW row \in Visible(ContextOf(r))
    PROVE  \E m \in acting[r] : m.household = row.household
<1>1. row.household = HouseholdOf(r)
  BY ContextOfHandler DEF Visible, ParametersOf, InSession
<1> QED
  BY <1>1, HouseholdOfActing DEF IInv, ActsAsMember

LEMMA AnswersKept == ASSUME IInv, [Next]_vars PROVE AnswersPrepared'
<1> USE DEF IInv
<1>1. ASSUME NEW r \in Requests, Step(r), Prepared(r)' PROVE AnswersPrepared'
  BY <1>1, OthersUntouched, PreparedUntouched DEF AnswersPrepared
<1>2. ASSUME NEW r \in Requests, Open(r) PROVE Prepared(r)'
  <2>1. pc[r] \notin {"closing", "done"} /\ pc'[r] \notin {"closing", "done"}
    BY <1>2 DEF TypeOK, Open, Opens, Goto
  <2> QED
    BY <1>2, <2>1 DEF Open, AnswersPrepared, Prepared
<1>3. ASSUME NEW r \in Requests,
             Probe(r) \/ ProbeFails(r) \/ Resolve(r) \/ ReadMemberships(r) \/ Admit(r)
      PROVE  Prepared(r)'
  BY <1>3 DEF TypeOK, Probe, ProbeFails, Resolve, ReadMemberships, Admit, Goto, AnswersPrepared,
              Prepared
<1>4. ASSUME NEW r \in Requests, Forbid(r) \/ DenyHousehold(r) PROVE Prepared(r)'
  BY <1>4 DEF TypeOK, Forbid, DenyHousehold, Goto, AnswersPrepared, Prepared
<1>5. ASSUME NEW r \in Requests, Fail(r) PROVE Prepared(r)'
  BY <1>5 DEF TypeOK, Fail, Goto, AnswersPrepared, Prepared
<1>6. ASSUME NEW r \in Requests, Close(r) \/ LoseCommit(r) PROVE Prepared(r)'
  BY <1>6 DEF TypeOK, Close, LoseCommit, Goto, AnswersPrepared, Prepared
<1>7. ASSUME NEW r \in Requests, ListAccounts(r) \/ GetById(r) \/ NotFound(r)
      PROVE  Prepared(r)'
  <2>1. /\ pc[r] = "handling" /\ pc'[r] = "closing" /\ mine' = mine /\ acting' = acting
        /\ answer'[r] \in {"ok", "not_found"}
        /\ seen'[r] # {} => answer'[r] = "ok"
        /\ seen'[r] \subseteq Visible(ContextOf(r))
    BY <1>7 DEF TypeOK, ListAccounts, GetById, NotFound, Reply, Goto
  <2>2. mine'[r] = {}
    BY <2>1 DEF AnswersPrepared, Prepared
  <2> QED
    BY <2>1, <2>2, VisibleIsActing DEF Prepared
<1>8. ASSUME NEW r \in Requests, CreateAccount(r) PROVE Prepared(r)'
  <2>1. PICK ref \in Refs : /\ mine' = [mine EXCEPT ![r] = {NewAccount(r, ref)}]
                            /\ Reply(r, "created", {NewAccount(r, ref)})
    BY <1>8 DEF CreateAccount
  <2>2. NewAccount(r, ref)' = NewAccount(r, ref)
    BY <1>8 DEF CreateAccount, NewAccount
  <2>3. NewAccount(r, ref).household = HouseholdOf(r)
    BY DEF NewAccount, HouseholdOf
  <2>4. \E m \in acting[r] : m.household = HouseholdOf(r)
    BY <1>8, HouseholdOfActing DEF CreateAccount, ActsAsMember
  <2> QED
    BY <1>8, <2>1, <2>2, <2>3, <2>4 DEF TypeOK, CreateAccount, Reply, Goto, Prepared
<1>9. CASE UNCHANGED vars
  BY <1>9 DEF AnswersPrepared, Prepared, NewAccount, vars
<1> QED
  BY <1>1, <1>2, <1>3, <1>4, <1>5, <1>6, <1>7, <1>8, <1>9, FailsEarly DEF Next, Serve, Step

\* What the other steps do to the rows: nothing is stored or inserted.
LEMMA RowsOfQuietSteps ==
    ASSUME IInv, NEW r \in Requests, Step(r), ~ Close(r), ~ LoseCommit(r), ~ CreateAccount(r)
    PROVE  /\ db' = db
           /\ \A q \in Requests : mine'[q] \subseteq mine[q]
           /\ pc[r] # "done"
           /\ pc'[r] = "done" => answer'[r] # "created"
<1> USE DEF IInv, TypeOK
<1>1. CASE Open(r)
  BY <1>1 DEF Open, Goto, Opens
<1>2. CASE Probe(r) \/ ProbeFails(r) \/ Resolve(r) \/ ReadMemberships(r)
  BY <1>2 DEF Probe, ProbeFails, Resolve, ReadMemberships, Goto
<1>3. CASE Admit(r) \/ Forbid(r) \/ DenyHousehold(r)
  BY <1>3 DEF Admit, Forbid, DenyHousehold, Goto
<1>4. CASE ListAccounts(r) \/ GetById(r) \/ NotFound(r)
  BY <1>4 DEF ListAccounts, GetById, NotFound, Reply, Goto
<1>5. CASE CreateConflict(r) \/ Abort(r) \/ PoolTimeout(r)
  <2>1. Fail(r) /\ pc[r] # "done"
    BY <1>5, FailsEarly
  <2> QED
    BY <2>1 DEF Fail, Goto
<1> QED
  BY <1>1, <1>2, <1>3, <1>4, <1>5 DEF Step, Serve

\* What is committed is what this request inserted, one account or nothing.
LEMMA RowsOfCommit ==
    ASSUME IInv, NEW r \in Requests, Close(r) \/ LoseCommit(r)
    PROVE  /\ db' = db \cup mine[r]
           /\ mine' = [mine EXCEPT ![r] = {}]
           /\ pc[r] = "closing" /\ pc'[r] = "done"
           /\ answer'[r] \in {answer[r], "error"}
           /\ mine[r] # {} => \E ref \in Refs : mine[r] = {NewAccount(r, ref)}
BY DEF IInv, TypeOK, Close, LoseCommit, Goto, AnswersPrepared, Prepared

LEMMA KeysKept == ASSUME IInv, [Next]_vars PROVE KeysFree'
<1> USE DEF IInv
<1>1. ASSUME db' = db, \A q \in Requests : mine'[q] \subseteq mine[q] PROVE KeysFree'
  BY <1>1 DEF KeysFree, SameKey
<1>2. ASSUME NEW r \in Requests, Close(r) \/ LoseCommit(r) PROVE KeysFree'
  BY <1>2, RowsOfCommit DEF TypeOK, KeysFree, SameKey
<1>3. ASSUME NEW r \in Requests, CreateAccount(r) PROVE KeysFree'
  <2>1. PICK ref \in Refs : /\ mine' = [mine EXCEPT ![r] = {NewAccount(r, ref)}]
                            /\ Insertable(r, NewAccount(r, ref))
    BY <1>3 DEF CreateAccount
  <2> DEFINE new == NewAccount(r, ref)
  <2>2. /\ \A y \in db : ~ SameKey(y, new)
        /\ \A s \in Requests \ {r} : \A y \in mine[s] : ~ SameKey(y, new) /\ ~ SameKey(new, y)
    BY <2>1 DEF Insertable, SameKey
  <2>3. db' = db /\ mine'[r] = {new} /\ \A s \in Requests \ {r} : mine'[s] = mine[s]
    BY <1>3, <2>1 DEF TypeOK, CreateAccount
  <2> HIDE DEF new
  <2> QED
    BY <2>2, <2>3 DEF KeysFree, SameKey
<1>4. CASE UNCHANGED vars
  BY <1>1, <1>4 DEF vars
<1> QED
  BY <1>1, <1>2, <1>3, <1>4, RowsOfQuietSteps DEF Next, Step

LEMMA StoredKept == ASSUME IInv, [Next]_vars PROVE AnsweredIsStored'
<1> USE DEF IInv
<1>1. ASSUME NEW r \in Requests, Close(r) \/ LoseCommit(r) PROVE AnsweredIsStored'
  <2>1. \A q \in Requests \ {r} : Untouched(q)
    BY <1>1, OthersUntouched DEF Step, Serve
  <2>2. \A row \in mine[r] : row.by = r
    BY <1>1, RowsOfCommit DEF NewAccount
  <2>3. \A x, y \in mine[r] : x = y
    BY <1>1, RowsOfCommit
  <2>4. \A row \in db : row.by # r
    BY <1>1, RowsOfCommit DEF AnsweredIsStored
  <2>5. mine[r] # {} => answer[r] = "created"
    BY DEF AnswersPrepared, Prepared
  <2>6. answer[r] = "created" => mine[r] # {}
    BY <1>1, RowsOfCommit DEF AnswersPrepared, Prepared
  <2> QED
    BY <1>1, <2>1, <2>2, <2>3, <2>4, <2>5, <2>6, RowsOfCommit DEF AnsweredIsStored, Untouched
<1>2. ASSUME NEW r \in Requests, CreateAccount(r) PROVE AnsweredIsStored'
  <2>1. \A q \in Requests \ {r} : Untouched(q)
    BY <1>2, OthersUntouched DEF Step, Serve
  <2>2. db' = db /\ pc[r] = "handling" /\ pc'[r] = "closing"
    BY <1>2 DEF TypeOK, CreateAccount, Reply, Goto
  <2> QED
    BY <2>1, <2>2 DEF AnsweredIsStored, Untouched
<1>3. ASSUME NEW r \in Requests, Step(r), ~ Close(r), ~ LoseCommit(r), ~ CreateAccount(r)
      PROVE  AnsweredIsStored'
  <2>1. \A q \in Requests \ {r} : Untouched(q)
    BY <1>3, OthersUntouched
  <2> QED
    BY <1>3, <2>1, RowsOfQuietSteps DEF AnsweredIsStored, Untouched
<1>4. CASE UNCHANGED vars
  BY <1>4 DEF AnsweredIsStored, vars
<1> QED
  BY <1>1, <1>2, <1>3, <1>4 DEF Next, Step

----------------------------------------------------------------------------
(* The invariant holds, and what follows from it. *)

LEMMA InitIInv == ASSUME Init PROVE IInv
<1>1. TypeOK
  BY DEF Init, TypeOK, Connections, Contexts, NoContext, Steps, Answers
<1>2. PICK pool \in Pools : holder = [c \in pool |-> Nobody] /\ context = [c \in pool |-> NoContext]
  BY DEF Init
<1>3. OneConnectionEach
  BY <1>2 DEF Init, OneConnectionEach, Connections, InSession
<1>4. ContextIsHolders
  BY <1>2 DEF Init, ContextIsHolders, Connections
<1>5. ActsAsMember
  BY DEF Init, ActsAsMember
<1>6. AnswersPrepared
  BY DEF Init, AnswersPrepared, Prepared
<1>7. KeysFree
  BY DEF Init, KeysFree
<1>8. AnsweredIsStored
  BY NobodyIsNobody DEF Init, AnsweredIsStored
<1> QED
  BY <1>1, <1>3, <1>4, <1>5, <1>6, <1>7, <1>8 DEF IInv

LEMMA InvariantHolds == Spec => []IInv
<1>1. Init => IInv
  BY InitIInv
<1>2. IInv /\ [Next]_vars => IInv'
  BY TypeKept, ConnectionsKept, ContextsKept, MembershipsKept, AnswersKept, KeysKept, StoredKept
  DEF IInv
<1> QED
  BY <1>1, <1>2, PTL DEF Spec

\* Every variable has its type.
THEOREM TypeCorrect == Spec => []TypeOK
<1>1. IInv => TypeOK
  BY DEF IInv
<1> QED
  BY <1>1, InvariantHolds, PTL

\* A connection is free of parameters in the pool, and in a session it carries
\* the household or the person of the request that uses it (session.py:5-9).
THEOREM ContextIsolated == Spec => []NoForeignContext
<1>1. IInv => NoForeignContext
  <2> SUFFICES ASSUME IInv, NEW c \in Connections, holder[c] # Nobody
               PROVE  /\ context[c].household # Nowhere =>
                            \E m \in acting[holder[c]] : m.household = context[c].household
                      /\ context[c].user # Nobody => context[c].user = who[holder[c]]
                      /\ context[c].household = Nowhere \/ context[c].user = Nobody
    BY DEF IInv, ContextIsHolders, NoForeignContext
  <2>1. holder[c] \in Requests /\ context[c] = ParametersOf(holder[c])
    BY DEF IInv, TypeOK, ContextIsHolders
  <2>2. pc[holder[c]] \in {"handling", "closing"} =>
            \E m \in acting[holder[c]] : m.household = HouseholdOf(holder[c])
    BY <2>1, HouseholdOfActing DEF IInv, ActsAsMember
  <2> QED
    BY <2>1, <2>2 DEF ParametersOf
<1> QED
  BY <1>1, InvariantHolds, PTL

\* No request is answered with a row of a household its person is not in.
THEOREM TenantsIsolated == Spec => []OnlyOwnRowsShown
<1>1. IInv => OnlyOwnRowsShown
  BY DEF IInv, TypeOK, ActsAsMember, AnswersPrepared, Prepared, OnlyOwnRowsShown
<1> QED
  BY <1>1, InvariantHolds, PTL

\* An account answered with 201 is stored, and no other one is but by a commit
\* whose answer got lost.
THEOREM AnswersHonest == Spec => []AnsweredIsStored
<1>1. IInv => AnsweredIsStored
  BY DEF IInv
<1> QED
  BY <1>1, InvariantHolds, PTL

----------------------------------------------------------------------------
(* Sessions implements TenantStore: one lemma per kind of step. *)

\* What the store shows of a request.
ShownOf(r) == IF mine[r] = {} THEN seen[r] ELSE {}

AnswerOf(r) == IF mine[r] = {} THEN answer[r] ELSE "none"

LEMMA MapsUnchanged ==
    ASSUME UNCHANGED <<who, db>>,
           \A q \in Requests : ShownOf(q)' = ShownOf(q) /\ AnswerOf(q)' = AnswerOf(q)
    PROVE  UNCHANGED Store!vars
BY DEF Store!vars, ShownOf, AnswerOf

\* A step that answers a request that has no answer yet.
LEMMA MapsReply ==
    ASSUME IInv, NEW r \in Requests, Step(r), who' = who, AnswerOf(r) = "none",
           NEW text, NEW result, AnswerOf(r)' = text, ShownOf(r)' = result
    PROVE  Store!Reply(r, text, result)
<1>1. \A q \in Requests \ {r} : ShownOf(q)' = ShownOf(q) /\ AnswerOf(q)' = AnswerOf(q)
  BY OthersUntouched DEF Untouched, ShownOf, AnswerOf
<1> QED
  BY <1>1 DEF Store!Reply, ShownOf, AnswerOf

\* A step that takes the answer of a request back.
LEMMA MapsLoss ==
    ASSUME IInv, NEW r \in Requests, Step(r), UNCHANGED <<who, db>>,
           AnswerOf(r) \in {"ok", "not_found"}, AnswerOf(r)' = "error", ShownOf(r)' = {}
    PROVE  Store!Lose(r)
<1>1. \A q \in Requests \ {r} : ShownOf(q)' = ShownOf(q) /\ AnswerOf(q)' = AnswerOf(q)
  BY OthersUntouched DEF Untouched, ShownOf, AnswerOf
<1> QED
  BY <1>1 DEF Store!Lose, ShownOf, AnswerOf

LEMMA MapsRefusal ==
    ASSUME IInv, NEW r \in Requests, Step(r), UNCHANGED <<who, db>>, AnswerOf(r) = "none",
           AnswerOf(r)' \in {"forbidden", "not_found", "error"}, ShownOf(r)' = {}
    PROVE  Store!Refuse(r)
BY MapsReply DEF Store!Refuse

\* Before its handler is through, a request has no answer.
LEMMA NoAnswerYet ==
    ASSUME IInv, NEW r \in Requests, pc[r] \notin {"closing", "done"}
    PROVE  AnswerOf(r) = "none" /\ ShownOf(r) = {} /\ mine[r] = {}
BY DEF IInv, AnswersPrepared, Prepared, AnswerOf, ShownOf

LEMMA MapsFail ==
    ASSUME IInv, NEW r \in Requests, CreateConflict(r) \/ Abort(r) \/ PoolTimeout(r)
    PROVE  Store!Refuse(r) \/ Store!Lose(r)
<1> USE DEF IInv, TypeOK
<1>1. Step(r) /\ Fail(r) /\ pc[r] # "done"
  BY FailsEarly DEF Step, Serve
<1>2. UNCHANGED <<who, db>> /\ AnswerOf(r)' = "error" /\ ShownOf(r)' = {}
  BY <1>1 DEF Fail, AnswerOf, ShownOf
<1>3. AnswerOf(r) \in {"none", "ok", "not_found"}
  BY <1>1 DEF AnswersPrepared, Prepared, AnswerOf
<1> QED
  BY <1>1, <1>2, <1>3, MapsRefusal, MapsLoss

LEMMA MapsQuiet ==
    ASSUME IInv, NEW r \in Requests,
           Open(r) \/ Resolve(r) \/ ReadMemberships(r) \/ Admit(r)
    PROVE  UNCHANGED Store!vars
<1>1. UNCHANGED <<who, db, mine, seen, answer>>
  BY DEF Open, Resolve, ReadMemberships, Admit
<1> QED
  BY <1>1, MapsUnchanged DEF ShownOf, AnswerOf

LEMMA MapsForbidden ==
    ASSUME IInv, NEW r \in Requests, Forbid(r) \/ DenyHousehold(r) \/ NotFound(r)
    PROVE  Store!Refuse(r)
<1> USE DEF IInv, TypeOK
<1>1. Step(r) /\ UNCHANGED <<who, db, mine>> /\ pc[r] \notin {"closing", "done"}
  BY DEF Forbid, DenyHousehold, NotFound, Reply, Step, Serve
<1>2. answer'[r] \in {"forbidden", "not_found"} /\ seen'[r] \in {seen[r], {}}
  BY DEF Forbid, DenyHousehold, NotFound, Reply
<1>3. mine[r] = {} /\ seen[r] = {}
  BY <1>1 DEF AnswersPrepared, Prepared
<1> QED
  BY <1>1, <1>2, <1>3, NoAnswerYet, MapsRefusal DEF AnswerOf, ShownOf

LEMMA MapsProbe ==
    ASSUME IInv, NEW r \in Requests, Probe(r) \/ ProbeFails(r)
    PROVE  Store!Probe(r)
<1> USE DEF IInv, TypeOK
<1>1. Step(r) /\ UNCHANGED <<who, db, mine, seen>> /\ pc[r] \in {"probe", "probing"}
  BY DEF Probe, ProbeFails, Step, Serve
<1>2. answer'[r] \in {"ok", "degraded"} /\ who[r] = Nobody
  BY <1>1 DEF Probe, ProbeFails, ActsAsMember
<1>3. mine[r] = {} /\ seen[r] = {} /\ AnswerOf(r) = "none"
  BY <1>1, NoAnswerYet DEF AnswersPrepared, Prepared
<1>4. AnswerOf(r)' \in {"ok", "degraded"} /\ ShownOf(r)' = {}
  BY <1>1, <1>2, <1>3 DEF AnswerOf, ShownOf
<1> QED
  BY <1>1, <1>2, <1>3, <1>4, MapsReply DEF Store!Probe

\* The rows a handler sees are those of the household of its membership.
LEMMA HandlerSees ==
    ASSUME IInv, NEW r \in Requests, pc[r] = "handling"
    PROVE  \E m \in acting[r] :
              /\ m \in Store!MembershipsOf(r)
              /\ m.household = HouseholdOf(r)
              /\ \A o \in op[r] : Allowed(m, o)
              /\ Visible(ContextOf(r)) = {row \in db : row.household = m.household}
<1> USE DEF IInv
<1>1. PICK m \in acting[r] : m \in Members /\ m.household = HouseholdOf(r)
  BY HouseholdOfActing DEF ActsAsMember
<1>2. m.user = who[r] /\ \A o \in op[r] : Allowed(m, o)
  BY DEF ActsAsMember
<1>3. ContextOf(r).household = HouseholdOf(r)
  BY ContextOfHandler DEF InSession, ParametersOf
<1> QED
  BY <1>1, <1>2, <1>3 DEF Visible, Store!MembershipsOf

LEMMA MapsList ==
    ASSUME IInv, NEW r \in Requests, ListAccounts(r)
    PROVE  Store!List(r)
<1> USE DEF IInv, TypeOK
<1>1. Step(r) /\ UNCHANGED <<who, db, mine>> /\ pc[r] = "handling"
  BY DEF ListAccounts, Reply, Step, Serve
<1>2. PICK m \in acting[r] : /\ m \in Store!MembershipsOf(r)
                             /\ Visible(ContextOf(r)) = {row \in db : row.household = m.household}
  BY <1>1, HandlerSees
<1>3. answer'[r] = "ok" /\ seen'[r] = Store!RowsIn("accounts", m.household)
  BY <1>2 DEF ListAccounts, Reply, Store!RowsIn
<1>4. AnswerOf(r) = "none" /\ mine[r] = {}
  BY <1>1, NoAnswerYet
<1>5. AnswerOf(r)' = "ok" /\ ShownOf(r)' = Store!RowsIn("accounts", m.household)
  BY <1>1, <1>3, <1>4 DEF AnswerOf, ShownOf
<1>6. \A result : ShownOf(r)' = result => Store!Reply(r, "ok", result)
  BY <1>1, <1>4, <1>5, MapsReply
<1> QED
  BY <1>1, <1>2, <1>5, <1>6 DEF Store!List, Store!Reply

LEMMA MapsGet ==
    ASSUME IInv, NEW r \in Requests, GetById(r)
    PROVE  Store!Get(r)
<1> USE DEF IInv, TypeOK
<1>1. Step(r) /\ UNCHANGED <<who, db, mine>> /\ pc[r] = "handling"
  BY DEF GetById, Reply, Step, Serve
<1>2. PICK m \in acting[r] : /\ m \in Store!MembershipsOf(r)
                             /\ \A o \in op[r] : Allowed(m, o)
                             /\ Visible(ContextOf(r)) = {row \in db : row.household = m.household}
  BY <1>1, HandlerSees
<1>3. PICK row \in Visible(ContextOf(r)) :
            /\ \/ op[r] = {"get"} /\ row.table = "accounts"
               \/ op[r] = {"summary"} /\ row.table = "import_batches"
            /\ Reply(r, "ok", {row})
  BY DEF GetById
<1>4. op[r] = {"summary"} => Store!MayWrite(m)
  BY <1>2 DEF Allowed, Store!MayWrite
<1>5. row \in Store!RowsIn("accounts", m.household)
                 \cup (IF Store!MayWrite(m) THEN Store!RowsIn("import_batches",
                 m.household) ELSE {})
  BY <1>2, <1>3, <1>4 DEF Store!RowsIn
<1>6. AnswerOf(r) = "none" /\ mine[r] = {}
  BY <1>1, NoAnswerYet
<1>7. AnswerOf(r)' = "ok" /\ ShownOf(r)' = {row}
  BY <1>1, <1>3, <1>6 DEF Reply, AnswerOf, ShownOf
<1>8. Store!Reply(r, "ok", {row})
  BY <1>1, <1>6, <1>7, MapsReply
<1> QED
  BY <1>1, <1>2, <1>5, <1>8 DEF Store!Get

\* What is inserted but not committed is not in the store yet.
LEMMA MapsInsert ==
    ASSUME IInv, NEW r \in Requests, CreateAccount(r)
    PROVE  UNCHANGED Store!vars
<1> USE DEF IInv, TypeOK
<1>1. Step(r) /\ UNCHANGED <<who, db>> /\ pc[r] = "handling" /\ mine'[r] # {}
  BY DEF CreateAccount, Step, Serve
<1>2. \A q \in Requests \ {r} : ShownOf(q)' = ShownOf(q) /\ AnswerOf(q)' = AnswerOf(q)
  BY <1>1, OthersUntouched DEF Untouched, ShownOf, AnswerOf
<1>3. ShownOf(r)' = ShownOf(r) /\ AnswerOf(r)' = AnswerOf(r)
  BY <1>1, NoAnswerYet DEF ShownOf, AnswerOf
<1> QED
  BY <1>1, <1>2, <1>3, MapsUnchanged

\* The commit of an account is its creation in the store.
LEMMA MapsCommit ==
    ASSUME IInv, NEW r \in Requests, Close(r) \/ LoseCommit(r), mine[r] # {}
    PROVE  Store!Create(r)
<1> USE DEF IInv, TypeOK
<1>1. /\ Step(r) /\ who' = who /\ db' = db \cup mine[r] /\ mine'[r] = {} /\ pc[r] = "closing"
      /\ \/ answer'[r] = answer[r] /\ seen'[r] = seen[r]
         \/ answer'[r] = "error" /\ seen'[r] = {}
  BY DEF Close, LoseCommit, Step, Serve
<1>2. PICK ref \in Refs : mine[r] = {NewAccount(r, ref)}
  BY DEF AnswersPrepared, Prepared
<1>3. answer[r] = "created" /\ seen[r] = mine[r] /\ op[r] = {"create"}
  BY DEF AnswersPrepared, Prepared
<1>4. PICK m \in acting[r] : m \in Members /\ m.household = HouseholdOf(r)
  BY <1>1, HouseholdOfActing DEF ActsAsMember
<1>5. m \in Store!MembershipsOf(r) /\ Store!MayWrite(m)
  BY <1>3, <1>4 DEF ActsAsMember, Allowed, Store!MembershipsOf, Store!MayWrite
<1> DEFINE new == [table |-> "accounts", household |-> m.household, ref |-> ref, by |-> r]
<1>6. NewAccount(r, ref) = new
  BY <1>4 DEF NewAccount, HouseholdOf
<1>7. \A row \in Store!RowsIn("accounts", m.household) : row.ref # ref
  <2> SUFFICES ASSUME NEW row \in db, row.table = "accounts", row.household = m.household
               PROVE  row.ref # ref
    BY DEF Store!RowsIn
  <2>1. ~ SameKey(row, new)
    BY <1>2, <1>6 DEF KeysFree
  <2> QED
    BY <2>1 DEF SameKey
<1>8. AnswerOf(r) = "none"
  BY DEF AnswerOf
<1> HIDE DEF new
<1>9. Store!Reply(r, "created", {new}) \/ Store!Reply(r, "error", {})
  BY <1>1, <1>2, <1>3, <1>6, <1>8, MapsReply DEF AnswerOf, ShownOf
<1>10. db' = db \cup {new}
  BY <1>1, <1>2, <1>6
<1> QED
  BY <1>5, <1>7, <1>9, <1>10 DEF Store!Create, new

\* A request that inserted nothing was answered when its handler was through.
LEMMA MapsEnd ==
    ASSUME IInv, NEW r \in Requests, Close(r) \/ LoseCommit(r), mine[r] = {}
    PROVE  Store!Lose(r) \/ UNCHANGED Store!vars
<1> USE DEF IInv, TypeOK
<1>1. Step(r) /\ who' = who /\ db' = db /\ mine'[r] = {} /\ pc[r] = "closing"
  BY DEF Close, LoseCommit, Step, Serve
<1>2. CASE Close(r)
  <2>1. \A q \in Requests \ {r} : ShownOf(q)' = ShownOf(q) /\ AnswerOf(q)' = AnswerOf(q)
    BY <1>1, OthersUntouched DEF Untouched, ShownOf, AnswerOf
  <2>2. ShownOf(r)' = ShownOf(r) /\ AnswerOf(r)' = AnswerOf(r)
    BY <1>1, <1>2 DEF Close, ShownOf, AnswerOf
  <2> QED
    BY <1>1, <2>1, <2>2, MapsUnchanged
<1>3. CASE LoseCommit(r)
  <2>1. AnswerOf(r) \in {"ok", "not_found"}
    BY <1>1 DEF AnswersPrepared, Prepared, AnswerOf
  <2>2. AnswerOf(r)' = "error" /\ ShownOf(r)' = {}
    BY <1>1, <1>3 DEF LoseCommit, ShownOf, AnswerOf
  <2> QED
    BY <1>1, <2>1, <2>2, MapsLoss
<1> QED
  BY <1>2, <1>3

LEMMA MapsInit == ASSUME Init PROVE Store!Init
BY DEF Init, Store!Init

\* Whatever the sessions, connections and policies do, a client sees a store
\* that serves each request in one step, in one household of its person.
THEOREM Refinement == Spec => ImplementsTenantStore
<1>1. Init => Store!Init
  BY MapsInit
<1>2. IInv /\ [Next]_vars => [Store!Next]_(Store!vars)
  <2>1. ASSUME IInv, NEW r \in Requests, Step(r) PROVE [Store!Next]_(Store!vars)
    BY <2>1, MapsFail, MapsQuiet, MapsForbidden, MapsProbe, MapsList, MapsGet, MapsInsert,
       MapsCommit, MapsEnd
    DEF Step, Serve, Store!Next
  <2>2. ASSUME UNCHANGED vars PROVE UNCHANGED Store!vars
    BY <2>2, MapsUnchanged DEF vars, ShownOf, AnswerOf
  <2> QED
    BY <2>1, <2>2 DEF Next, Step
<1> QED
  BY <1>1, <1>2, InvariantHolds, PTL DEF Spec, ImplementsTenantStore, Store!Spec

=============================================================================
