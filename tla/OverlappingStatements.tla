----------------------- MODULE OverlappingStatements -----------------------
(***************************************************************************)
(* Statements of overlapping periods, uploaded one after another: each is  *)
(* parsed and attributed (Attribution), then its rows are inserted under   *)
(* the key (account, dedup_hash) (ImportService, here in one step).  The   *)
(* key takes in the account, and for an operation whose card the bank does *)
(* not print the account follows from what else the statement shows.       *)
(*                                                                         *)
(* A line is an operation of one history, the same line in every statement *)
(* that shows it; two operations differ in what dedup_hash digests.  There *)
(* is an account for every card.                                           *)
(***************************************************************************)
EXTENDS Attribution, Sequences

CONSTANTS
    Series,   \* sequences of statements of one history
    Default   \* the account named by default_account_id in every upload

ASSUME SeriesAreOfStatements ==
    \A s \in Series :
        /\ s \in Seq({s[i] : i \in DOMAIN s}) \ {<<>>}
        /\ \A i \in DOMAIN s : IsStatement(s[i])

\* Whatever a statement shows of an operation, one card made it.
ASSUME OneHistory ==
    \A s \in Series : \A i, j \in DOMAIN s : \A l \in DOMAIN s[i] \cap DOMAIN s[j] :
        s[i][l].owner = s[j][l].owner

ASSUME DefaultIsNoHint == Default # NoCard

VARIABLES
    rest,      \* the statements still to be stored; the first one is file
    imported,  \* the statements stored
    stored,    \* the rows of transactions
    doubtful   \* a statement was stored in which attribution has no right to be sure

allVars == <<vars, rest, imported, stored, doubtful>>

----------------------------------------------------------------------------
\* by_ref.get(tx.account_hint or "", default_account)
AccountOf(l) == IF hint[l] = NoCard THEN Default ELSE hint[l]

\* A bug of the schema: the batch is part of the unique key.
KeysInBatch == {[account |-> AccountOf(l), op |-> l, batch |-> Len(rest)] : l \in Lines}

\* What the upload stores: ON CONFLICT (account, dedup_hash) DO NOTHING.
Keys == {[account |-> AccountOf(l), op |-> l] : l \in Lines}

StartSeries ==
    /\ rest \in Series
    /\ file = rest[1]
    /\ hint = [l \in Lines |-> file[l].card]
    /\ verdict = [l \in Lines |-> IF file[l].card = NoCard THEN "waiting" ELSE "carded"]
    /\ imported = {}
    /\ stored = {}
    /\ doubtful = FALSE

Attribute ==
    /\ rest # <<>>
    /\ Next
    /\ UNCHANGED <<rest, imported, stored, doubtful>>

\* The rows of file are stored, and the next statement is parsed.
Store ==
    /\ rest # <<>>
    /\ \A l \in Lines : verdict[l] # "waiting"
    /\ stored' = stored \cup Keys
    /\ imported' = imported \cup {file}
    /\ doubtful' = (doubtful \/ ~ (Truthful /\ OrphansStandAlone))
    /\ rest' = Tail(rest)
    /\ IF rest' = <<>>
       THEN UNCHANGED vars
       ELSE /\ file' = rest'[1]
            /\ hint' = [l \in DOMAIN file' |-> file'[l].card]
            /\ verdict' = [l \in DOMAIN file' |->
                              IF file'[l].card = NoCard THEN "waiting" ELSE "carded"]

SeriesNext ==
    \/ Attribute
    \/ Store

SeriesSpec == StartSeries /\ [][SeriesNext]_allVars

----------------------------------------------------------------------------
\* A statement that has been stored before adds no row, whatever has been
\* stored in between: attribution concludes the same from the same rows
\* (imports.py:5-9).
ReuploadAddsNothing ==
    [][rest' # rest /\ file \in imported => stored' = stored]_allVars

\* If the lines without a card stood alone in every statement stored, no
\* operation is stored in the accounts of two cards: no statement contradicts
\* what another one concluded, it can only have concluded nothing.
NeverContradicted ==
    ~ doubtful =>
        \A s, t \in stored :
            s.op = t.op /\ s.account # t.account => Default \in {s.account, t.account}

\* "A key that is computed from the data itself and gives the same result in
\* a repeated upload", although statements overlap (dedup.py:3-6): no operation
\* is stored twice.
StoredOnce == \A s, t \in stored : s.op = t.op => s = t

=============================================================================
