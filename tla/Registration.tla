---------------------------- MODULE Registration ----------------------------
(***************************************************************************)
(* What logins, invitations and the seed promise together, without saying  *)
(* how: a person appears in one step with a home to live in, and a login   *)
(* (an identity) always leads to the person whose mailbox it names.        *)
(*                                                                         *)
(* Promised by docs/adr/0004 and the docstrings of _resolve_user and of    *)
(* scripts/seed.py ("a second run duplicates nothing").                    *)
(***************************************************************************)
CONSTANTS
    People,
    Homes,
    Subjects,       \* what an identity provider calls a person
    PersonOf(_)     \* whom a subject belongs to

VARIABLES
    people,  \* the registered ones
    homes,   \* who lives where, in which role
    logins   \* the subjects that are known

vars == <<people, homes, logins>>

Init == people = {} /\ homes = {} /\ logins = {}

Residents(h) == {x \in homes : x.home = h}

\* Person p founds a home, or moves into one that is there.
Settle(p, h) ==
    /\ ~ \E x \in Residents(h) : x.person = p
    /\ homes' = homes \cup
          {[home |-> h, person |-> p, role |-> IF Residents(h) = {} THEN "owner" ELSE "member"]}
    /\ people' = people \cup {p}

\* A registered person, or one registered in this step, is known by s.
Recognise(p, s) ==
    /\ s \notin logins /\ PersonOf(s) = p /\ p \in people'
    /\ logins' = logins \cup {s}

Register(p) ==
    /\ p \notin people
    /\ \E h \in Homes : Residents(h) = {} /\ Settle(p, h)
    /\ \E s \in Subjects : Recognise(p, s)

Invite(p) ==
    /\ \E h \in Homes : Settle(p, h)
    /\ UNCHANGED logins

Return(p) ==
    /\ UNCHANGED <<people, homes>>
    /\ \E s \in Subjects : Recognise(p, s)

Next == \E p \in People : Register(p) \/ Invite(p) \/ Return(p)

Spec == Init /\ [][Next]_vars

=============================================================================
