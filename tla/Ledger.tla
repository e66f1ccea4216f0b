------------------------------- MODULE Ledger -------------------------------
(***************************************************************************)
(* What the import endpoint promises to a household, without saying how.   *)
(*                                                                         *)
(* The ledger is the set of operations stored so far.  An upload carries a *)
(* set of entries (and the number of rows they were read from); it is      *)
(* either imported in one atomic step, which adds exactly the entries the  *)
(* ledger does not hold yet and reports how many those were, or refused,   *)
(* which changes nothing.  The answer to an imported upload may get lost   *)
(* on its way; the import itself stands.                                   *)
(*                                                                         *)
(* Promised by the docstring of api/routers/imports.py ("idempotency") and *)
(* by docs/adr/0003: uploading what is already there inserts nothing.      *)
(***************************************************************************)
EXTENDS Integers, FiniteSets

CONSTANTS Uploads,   \* identities of POST /api/v1/imports requests
          Entries    \* what can be stored: an operation on an account

VARIABLES ledger,    \* the entries stored by imported uploads
          request,   \* what each upload asks for, or will ask for
          status,    \* how far each upload has come
          report     \* rows_inserted and rows_duplicate of each upload

vars == <<ledger, request, status, report>>

Requests == [entries : SUBSET Entries, rows : Nat]

Init ==
    /\ ledger = {}
    /\ request \in [Uploads -> Requests]
    /\ status = [u \in Uploads |-> "idle"]
    /\ report = [u \in Uploads |-> [inserted |-> 0, duplicate |-> 0]]

\* A client sends a statement.
Submit(u) ==
    /\ status[u] = "idle"
    /\ status' = [status EXCEPT ![u] = "waiting"]
    /\ UNCHANGED <<ledger, request, report>>

\* The entries of u that are new at the moment u takes effect.
Missing(u) == request[u].entries \ ledger

Import(u) ==
    /\ status[u] = "waiting"
    /\ status' = [status EXCEPT ![u] = "imported"]
    /\ ledger' = ledger \cup request[u].entries
    /\ report' = [report EXCEPT ![u] =
                    [inserted  |-> Cardinality(Missing(u)),
                     duplicate |-> request[u].rows - Cardinality(Missing(u))]]
    /\ UNCHANGED request

Refuse(u) ==
    /\ status[u] = "waiting"
    /\ status' = [status EXCEPT ![u] = "refused"]
    /\ UNCHANGED <<ledger, request, report>>

\* The answer, or the loss of it.
Deliver(u) ==
    /\ status[u] = "imported"
    /\ \E s \in {"answered", "lost"} : status' = [status EXCEPT ![u] = s]
    /\ UNCHANGED <<ledger, request, report>>

Next == \E u \in Uploads : Submit(u) \/ Import(u) \/ Refuse(u) \/ Deliver(u)

Spec == Init /\ [][Next]_vars

=============================================================================
