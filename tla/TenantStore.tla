---------------------------- MODULE TenantStore ----------------------------
(***************************************************************************)
(* What the API promises about the rows of households, without saying how: *)
(* every request has its effect, and sees what it answers with, in one     *)
(* step, in one household its person is a member of then and with the      *)
(* rights of the role there.  There are no sessions here, no connections   *)
(* and no parameters, and rows have no policies.                           *)
(*                                                                         *)
(* Promised by docs/adr/0001 and 0002 (a household is the tenant, nobody   *)
(* sees another's rows) and by the status codes of the routers.            *)
(***************************************************************************)
CONSTANTS
    Requests, Users, Nobody,
    Refs,
    Members,     \* who belongs where, in which role
    FirstRows    \* the rows there may be at the beginning

VARIABLES
    who,     \* the person of each request, or Nobody
    rows,    \* what is stored
    shown,   \* the rows each request was answered with
    answer   \* how each request was answered

vars == <<who, rows, shown, answer>>

Init ==
    /\ who \in [Requests -> Users \cup {Nobody}]
    /\ rows \in SUBSET FirstRows
    /\ shown = [r \in Requests |-> {}]
    /\ answer = [r \in Requests |-> "none"]

MembershipsOf(r) == {m \in Members : m.user = who[r]}

RowsIn(table, h) == {row \in rows : row.table = table /\ row.household = h}

MayWrite(m) == m.role \in {"owner", "member"}

Reply(r, text, result) ==
    /\ answer[r] = "none"
    /\ answer' = [answer EXCEPT ![r] = text]
    /\ shown' = [shown EXCEPT ![r] = result]
    /\ UNCHANGED who

List(r) ==
    /\ \E m \in MembershipsOf(r) : Reply(r, "ok", RowsIn("accounts", m.household))
    /\ UNCHANGED rows

Get(r) ==
    /\ \E m \in MembershipsOf(r) :
          \E row \in RowsIn("accounts", m.household)
                        \cup (IF MayWrite(m) THEN RowsIn("import_batches", m.household) ELSE {}) :
             Reply(r, "ok", {row})
    /\ UNCHANGED rows

\* A person who may write adds an account its household does not have yet.
\* The answer may get lost, the account then stands all the same.
Create(r) ==
    \E m \in MembershipsOf(r), ref \in Refs :
        LET new == [table |-> "accounts", household |-> m.household, ref |-> ref, by |-> r]
        IN  /\ MayWrite(m)
            /\ \A row \in RowsIn("accounts", m.household) : row.ref # ref
            /\ rows' = rows \cup {new}
            /\ Reply(r, "created", {new}) \/ Reply(r, "error", {})

\* A request that is refused, or fails, or is a probe changes and shows nothing.
Refuse(r) ==
    /\ \E text \in {"forbidden", "not_found", "error"} : Reply(r, text, {})
    /\ UNCHANGED rows

Probe(r) ==
    /\ who[r] = Nobody
    /\ \E text \in {"ok", "degraded"} : Reply(r, text, {})
    /\ UNCHANGED rows

\* The answer of a request that stored nothing gets lost.
Lose(r) ==
    /\ answer[r] \in {"ok", "not_found"}
    /\ answer' = [answer EXCEPT ![r] = "error"]
    /\ shown' = [shown EXCEPT ![r] = {}]
    /\ UNCHANGED <<who, rows>>

Next == \E r \in Requests :
    List(r) \/ Get(r) \/ Create(r) \/ Refuse(r) \/ Probe(r) \/ Lose(r)

Spec == Init /\ [][Next]_vars

=============================================================================
