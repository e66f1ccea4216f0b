--------------------------- MODULE ImportService ---------------------------
(***************************************************************************)
(* POST /api/v1/imports (api/routers/imports.py) running beside other      *)
(* uploads and beside POST /api/v1/accounts, on one PostgreSQL database at *)
(* READ COMMITTED.  An upload is one request: it is parsed, opens a tenant *)
(* transaction, looks its accounts up, flushes an import batch, runs one   *)
(* multi-row INSERT ... ON CONFLICT DO NOTHING, and commits; the response  *)
(* leaves after the commit.  Every await of the handler is a point where   *)
(* other requests run, and inside the INSERT the database takes the rows   *)
(* one at a time.                                                          *)
(*                                                                         *)
(* Data.  An account is identified by its household and account_ref        *)
(* (UNIQUE in the schema).  An operation "op" stands for everything else   *)
(* dedup_hash digests: minute, amount, currency, normalised description;   *)
(* SHA-256 is taken to be collision-free, so uq_tx_dedup(account_id,       *)
(* dedup_hash) is uniqueness of <<account, op>>.  A file is what the       *)
(* parser made of it: readable or not, and its rows, each with the card it *)
(* names (its account_hint) or NoHint.                                     *)
(***************************************************************************)
EXTENDS Integers, Sequences, FiniteSets

CONSTANTS
    Uploads,      \* requests a client may send; a retry is another upload
    Households,   \* tenants
    Refs,         \* values of accounts.account_ref, never empty
    NoHint,       \* account_hint of a row whose card is not known
    Ops,          \* what dedup_hash digests, the account apart
    Files,        \* what may be uploaded
    Oversized,    \* those whose amount or MCC is wider than its column
    MaxRows       \* rows one INSERT can bind parameters for (asyncpg limit)

Rows == [hint : Refs \cup {NoHint}, op : Ops]

ASSUME NoHintIsNoRef == NoHint \notin Refs

ASSUME FilesAreStatements == Files \subseteq [readable : BOOLEAN, rows : Seq(Rows)]

Accounts == [household : Households, ref : Refs]

VARIABLES
    accounts,      \* committed rows of accounts
    transactions,  \* committed rows of transactions
    batch,         \* the import_batches row of each upload, committed or not
    upload,        \* household of the principal, file, default_account_id
    pc,            \* where the handler of each upload is
    known,         \* the accounts the handler has listed (by_ref)
    next,          \* the row the INSERT takes next
    pending        \* rows inserted by a transaction still in flight

vars == <<accounts, transactions, batch, upload, pc, known, next, pending>>

----------------------------------------------------------------------------
(* Where a handler can be.  "parsed": the tenant transaction is about to   *)
(* look the default account up; "found": it is about to list the accounts; *)
(* "listed": about to flush the batch; "inserting": inside the INSERT or   *)
(* past it, not committed.  "refused" is a 4xx answer, "failed" a 5xx one  *)
(* or a broken connection, "lost" an answer the client never got.          *)

InTransaction == {"parsed", "found", "listed", "inserting"}
Committed     == {"committed", "answered", "lost"}
Ended         == {"refused", "failed", "answered", "lost"}
Steps         == {"idle", "received"} \cup InTransaction \cup Committed \cup Ended

NoBatch == [status |-> "none", inserted |-> 0, duplicate |-> 0]

\* The row as it is flushed, its counters not set yet.
NewBatch == [status |-> "parsed", inserted |-> 0, duplicate |-> 0]

FileRows(u) == upload[u].file.rows

Lines(u) == DOMAIN FileRows(u)

\* ParseResult.account_hints
Hints(u) == {FileRows(u)[i].hint : i \in Lines(u)} \ {NoHint}

\* Mutant of Visible: row level security is off.
VisibleWithoutRLS(h) == accounts

\* What row level security lets a session of household h see of accounts.
Visible(h) == {a \in accounts : a.household = h}

\* by_ref.get(tx.account_hint or "", default_account)
AccountOf(u, i) ==
    LET named == {a \in known[u] : a.ref = FileRows(u)[i].hint}
    IN  IF named # {} THEN CHOOSE a \in named : TRUE ELSE upload[u].default

RowOf(u, i) ==
    [account |-> AccountOf(u, i), household |-> upload[u].household,
     op |-> FileRows(u)[i].op, batch |-> u, line |-> i]

\* Mutant of Collides: the unique key takes the batch in.
CollidesInBatch(row, rows) ==
    \E t \in rows : t.account = row.account /\ t.op = row.op /\ t.batch = row.batch

\* Some row of the given set has the key (account, dedup_hash) of row.
Collides(row, rows) == \E t \in rows : t.account = row.account /\ t.op = row.op

\* The INSERT of u has come to a row that v has inserted but not committed:
\* it can neither skip it nor insert it before v's transaction ends.
WaitsFor(u, v) ==
    /\ u # v
    /\ pc[u] = "inserting"
    /\ next[u] \in Lines(u)
    /\ Collides(RowOf(u, next[u]), pending[v])

----------------------------------------------------------------------------
Init ==
    /\ accounts = {}
    /\ transactions = {}
    /\ batch = [u \in Uploads |-> NoBatch]
    /\ upload \in [Uploads -> [household : Households, file : Files, default : Accounts]]
    /\ pc = [u \in Uploads |-> "idle"]
    /\ known = [u \in Uploads |-> {}]
    /\ next = [u \in Uploads |-> 1]
    /\ pending = [u \in Uploads |-> {}]

\* POST /api/v1/accounts.  A second account with the same reference breaks
\* the unique constraint and is answered 500, with nothing changed.
CreateAccount(a) ==
    /\ a \notin accounts
    /\ accounts' = accounts \cup {a}
    /\ UNCHANGED <<transactions, batch, upload, pc, known, next, pending>>

GoTo(u, step) == pc' = [pc EXCEPT ![u] = step]

\* Mutant of Rollback: every row is committed as it is inserted.
RollbackTooLate(u) ==
    /\ GoTo(u, "failed")
    /\ transactions' = transactions \cup pending[u]
    /\ pending' = [pending EXCEPT ![u] = {}]
    /\ UNCHANGED <<accounts, batch, upload, known, next>>

\* Mutant of Rollback: the batch was committed ahead of its rows, and stays.
RollbackKeepsBatch(u) ==
    /\ GoTo(u, "failed")
    /\ pending' = [pending EXCEPT ![u] = {}]
    /\ UNCHANGED <<accounts, transactions, batch, upload, known, next>>

\* Mutant of Rollback: the transaction is left open, with its row locks.
RollbackForgotten(u) ==
    /\ GoTo(u, "failed")
    /\ UNCHANGED <<accounts, transactions, batch, upload, known, next, pending>>

\* An exception leaves session.begin(): nothing of the transaction stays,
\* neither rows nor the batch.
Rollback(u) ==
    /\ GoTo(u, "failed")
    /\ pending' = [pending EXCEPT ![u] = {}]
    /\ batch' = [batch EXCEPT ![u] = NoBatch]
    /\ UNCHANGED <<accounts, transactions, upload, known, next>>

\* The request has come in and its principal is resolved.
Submit(u) ==
    /\ pc[u] = "idle"
    /\ GoTo(u, "received")
    /\ UNCHANGED <<accounts, transactions, batch, upload, known, next, pending>>

\* load_any and detect_parser: 413 or 422 for a file that is too large or
\* that no parser takes, before any transaction.
ParseFile(u) ==
    /\ pc[u] = "received"
    /\ GoTo(u, IF upload[u].file.readable THEN "parsed" ELSE "refused")
    /\ UNCHANGED <<accounts, transactions, batch, upload, known, next, pending>>

\* session.get(Account, default_account_id): 404 for an account the session
\* does not see, be it missing or another household's.
GetDefault(u) ==
    /\ pc[u] = "parsed"
    /\ GoTo(u, IF upload[u].default \in Visible(upload[u].household)
               THEN "found" ELSE "refused")
    /\ UNCHANGED <<accounts, transactions, batch, upload, known, next, pending>>

\* select(Account), in a statement (and so a snapshot) of its own; 422 when
\* the file names a card that is not there.
ListAccounts(u) ==
    /\ pc[u] = "found"
    /\ LET listed == Visible(upload[u].household)
       IN  IF Hints(u) \subseteq {a.ref : a \in listed}
           THEN GoTo(u, "listed") /\ known' = [known EXCEPT ![u] = listed]
           ELSE GoTo(u, "refused") /\ UNCHANGED known
    /\ UNCHANGED <<accounts, transactions, batch, upload, next, pending>>

\* session.flush() of the new batch: the transaction holds it, uncommitted.
FlushBatch(u) ==
    /\ pc[u] = "listed"
    /\ GoTo(u, "inserting")
    /\ batch' = [batch EXCEPT ![u] = NewBatch]
    /\ UNCHANGED <<accounts, transactions, upload, known, next, pending>>

\* The driver can encode the parameters of the INSERT: they are not too many,
\* and every number fits its BIGINT or SMALLINT.  (The parsers take an MCC of
\* any number of digits, mono.py:100, and an amount of any size.)
Sendable(u) ==
    /\ Len(FileRows(u)) <= MaxRows
    /\ \A i \in Lines(u) : FileRows(u)[i].op \notin Oversized

\* Otherwise the whole statement fails, with every good row of the file: 500.
StatementTooLarge(u) ==
    /\ pc[u] = "inserting"
    /\ ~ Sendable(u)
    /\ Rollback(u)

\* Mutant of InsertRow: a look at the committed rows decides, as a check in
\* Python would, and not the unique index.
InsertRowUnchecked(u) ==
    /\ pc[u] = "inserting"
    /\ Sendable(u)
    /\ next[u] \in Lines(u)
    /\ ~ Collides(RowOf(u, next[u]), transactions)
    /\ pending' = [pending EXCEPT ![u] = @ \cup {RowOf(u, next[u])}]
    /\ next' = [next EXCEPT ![u] = @ + 1]
    /\ UNCHANGED <<accounts, transactions, batch, upload, pc, known>>

\* One row of the INSERT meets no conflict: it is inserted, uncommitted.
InsertRow(u) ==
    /\ pc[u] = "inserting"
    /\ Sendable(u)
    /\ next[u] \in Lines(u)
    /\ \A v \in Uploads : ~ WaitsFor(u, v)
    /\ ~ Collides(RowOf(u, next[u]), transactions \cup pending[u])
    /\ pending' = [pending EXCEPT ![u] = @ \cup {RowOf(u, next[u])}]
    /\ next' = [next EXCEPT ![u] = @ + 1]
    /\ UNCHANGED <<accounts, transactions, batch, upload, pc, known>>

\* Mutant of SkipRow: a row somebody else has not committed yet is skipped too.
SkipRowInFlight(u) ==
    /\ pc[u] = "inserting"
    /\ Sendable(u)
    /\ next[u] \in Lines(u)
    /\ Collides(RowOf(u, next[u]), transactions \cup UNION {pending[v] : v \in Uploads})
    /\ next' = [next EXCEPT ![u] = @ + 1]
    /\ UNCHANGED <<accounts, transactions, batch, upload, pc, known, pending>>

\* Mutant of SkipRow: ON CONFLICT DO UPDATE, the last upload takes the row.
SkipRowByUpdate(u) ==
    /\ pc[u] = "inserting"
    /\ next[u] \in Lines(u)
    /\ Collides(RowOf(u, next[u]), transactions \cup pending[u])
    /\ transactions' = {IF Collides(t, {RowOf(u, next[u])}) THEN RowOf(u, next[u]) ELSE t :
                            t \in transactions}
    /\ next' = [next EXCEPT ![u] = @ + 1]
    /\ UNCHANGED <<accounts, batch, upload, pc, known, pending>>

\* ON CONFLICT DO NOTHING: the key is committed, or is an earlier row's of
\* the same statement.
SkipRow(u) ==
    /\ pc[u] = "inserting"
    /\ Sendable(u)
    /\ next[u] \in Lines(u)
    /\ Collides(RowOf(u, next[u]), transactions \cup pending[u])
    /\ next' = [next EXCEPT ![u] = @ + 1]
    /\ UNCHANGED <<accounts, transactions, batch, upload, pc, known, pending>>

\* Commit with the counters and the guard as parameters, for its mutants.
CommitWith(u, inserted, duplicate, last) ==
    /\ pc[u] = "inserting"
    /\ Sendable(u)
    /\ next[u] > last
    /\ batch' = [batch EXCEPT ![u] =
                   [status |-> "parsed", inserted |-> inserted, duplicate |-> duplicate]]
    /\ transactions' = transactions \cup pending[u]
    /\ pending' = [pending EXCEPT ![u] = {}]
    /\ GoTo(u, "committed")
    /\ UNCHANGED <<accounts, upload, known, next>>

\* Mutant of Commit: the difference is taken the wrong way round.
CommitSwapped(u) ==
    CommitWith(u, Cardinality(pending[u]), Cardinality(pending[u]) - Len(FileRows(u)),
               Len(FileRows(u)))

\* Mutant of Commit: the rows sent are counted, not the rows returned.
CommitCountingAll(u) == CommitWith(u, Len(FileRows(u)), 0, Len(FileRows(u)))

\* Mutant of Commit: the last row of the file is left out.
CommitEarly(u) ==
    CommitWith(u, Cardinality(pending[u]), Len(FileRows(u)) - Cardinality(pending[u]),
               Len(FileRows(u)) - 1)

\* The INSERT has returned the ids of the rows it inserted; the counters are
\* set on the batch and the session commits.
Commit(u) ==
    /\ pc[u] = "inserting"
    /\ Sendable(u)
    /\ next[u] > Len(FileRows(u))
    /\ batch' = [batch EXCEPT ![u] =
                   [status |-> "parsed", inserted |-> Cardinality(pending[u]),
                    duplicate |-> Len(FileRows(u)) - Cardinality(pending[u])]]
    /\ transactions' = transactions \cup pending[u]
    /\ pending' = [pending EXCEPT ![u] = {}]
    /\ GoTo(u, "committed")
    /\ UNCHANGED <<accounts, upload, known, next>>

\* The process, the connection or the server fails inside the transaction.
Abort(u) == pc[u] \in InTransaction /\ Rollback(u)

\* A cycle of uploads each waiting for a row of another: the database picks
\* one of them as victim and aborts it.
Deadlocked(u) ==
    \E cycle \in SUBSET Uploads :
        /\ u \in cycle
        /\ \A v \in cycle : /\ \E w \in cycle : WaitsFor(v, w)
                            /\ \E w \in cycle : WaitsFor(w, v)

AbortVictim(u) == Deadlocked(u) /\ Rollback(u)

\* The answer reaches the client, or does not (the transaction is committed).
Respond(u) ==
    /\ pc[u] = "committed"
    /\ \E step \in {"answered", "lost"} : GoTo(u, step)
    /\ UNCHANGED <<accounts, transactions, batch, upload, known, next, pending>>

----------------------------------------------------------------------------
\* What the handler and the database do of themselves once a request is in.
Serve(u) ==
    \/ ParseFile(u) \/ GetDefault(u) \/ ListAccounts(u) \/ FlushBatch(u)
    \/ StatementTooLarge(u) \/ InsertRow(u) \/ SkipRow(u) \/ Commit(u)
    \/ AbortVictim(u) \/ Respond(u)

Next ==
    \/ \E a \in Accounts : CreateAccount(a)
    \/ \E u \in Uploads : Submit(u) \/ Serve(u) \/ Abort(u)

Spec == Init /\ [][Next]_vars

\* The event loop resumes every handler whose await has completed, and the
\* database grants locks and breaks deadlocks; nothing obliges a client to
\* send, or a connection to fail.
FairSpec == Spec /\ \A u \in Uploads : WF_vars(Serve(u))

----------------------------------------------------------------------------
StoredRows == [account : Accounts, household : Households, op : Ops,
               batch : Uploads, line : Nat]

TypeOK ==
    /\ accounts \subseteq Accounts
    /\ transactions \subseteq StoredRows
    /\ batch \in [Uploads -> [status : {"none", "parsed"}, inserted : Nat, duplicate : Nat]]
    /\ upload \in [Uploads -> [household : Households, file : Files, default : Accounts]]
    /\ pc \in [Uploads -> Steps]
    /\ known \in [Uploads -> SUBSET Accounts]
    /\ next \in [Uploads -> Nat \ {0}]
    /\ pending \in [Uploads -> SUBSET StoredRows]

\* No operation is stored twice in an account, however many uploads of
\* overlapping statements run at once (imports.py:5-9).
NoDuplicateRows ==
    \A s, t \in transactions : s.account = t.account /\ s.op = t.op => s = t

\* A committed upload skipped a row only because the operation is stored:
\* everything in the file is in the ledger afterwards.  (A row skipped on
\* account of another upload that then rolls back would be lost.)
NothingLost ==
    \A u \in Uploads : pc[u] \in Committed =>
        \A i \in Lines(u) : Collides(RowOf(u, i), transactions)

RowsUnder(u, rows) == {t \in rows : t.batch = u}

\* The counters of a committed batch are the truth about the rows that stand
\* under it and about the rows of the file (imports.py:109-110).
ReportExact ==
    \A u \in Uploads : pc[u] \in Committed =>
        /\ batch[u].inserted = Cardinality(RowsUnder(u, transactions))
        /\ batch[u].inserted + batch[u].duplicate = Len(FileRows(u))

\* An upload that did not commit leaves nothing behind, although its batch was
\* flushed before the INSERT (imports.py:91-92) and any step after that may
\* fail: no row stands without the batch of a committed upload, and no batch
\* stands for an upload that was refused or failed.
FailedLeavesNothing ==
    /\ \A t \in transactions : batch[t.batch].status = "parsed" /\ pc[t.batch] \in Committed
    /\ \A u \in Uploads : pc[u] \in {"refused", "failed"} => batch[u] = NoBatch

\* A stored row stands in the household that uploaded it and, when its card
\* is known, in the account of that card, whatever accounts other households
\* hold under the same reference and whenever accounts are created.
RowsInTheirAccounts ==
    \A t \in transactions :
        LET row == FileRows(t.batch)[t.line]
        IN  /\ t.account \in accounts
            /\ t.account.household = t.household
            /\ t.household = upload[t.batch].household
            /\ t.account.ref = IF row.hint = NoHint THEN upload[t.batch].default.ref
                                                    ELSE row.hint

\* Two uploads of one statement by one household, into the same default
\* account: one of them reports rows_inserted = 0, even when they raced.
SameStatement(u, v) ==
    /\ upload[u].household = upload[v].household
    /\ upload[u].default = upload[v].default
    /\ FileRows(u) = FileRows(v)

ReuploadInsertsNothing ==
    \A u, v \in Uploads :
        u # v /\ SameStatement(u, v) /\ {pc[u], pc[v]} \subseteq Committed =>
            batch[u].inserted = 0 \/ batch[v].inserted = 0

\* Stored rows are never changed or removed, and rows come to stand only in
\* the step that commits their upload, all of them at once.
CommitsRows ==
    \A u \in Uploads :
        \/ RowsUnder(u, transactions') = RowsUnder(u, transactions)
        \/ /\ RowsUnder(u, transactions) = {}
           /\ pc[u] = "inserting" /\ pc'[u] = "committed"
           /\ RowsUnder(u, transactions') = pending[u]

RowsOnlyByCommit == [][CommitsRows]_vars

\* Every upload that comes in is answered, fails or loses its answer: no wait
\* for another upload's row lasts for ever.
EveryUploadEnds == \A u \in Uploads : pc[u] = "received" ~> pc[u] \in Ended

----------------------------------------------------------------------------
(* The abstract specification.  What an upload asks for follows from the   *)
(* request alone: a row of a known card goes to that card's account in the *)
(* household, any other row to the default account.                        *)

Entry(u, i) ==
    <<IF FileRows(u)[i].hint = NoHint THEN upload[u].default
      ELSE [household |-> upload[u].household, ref |-> FileRows(u)[i].hint],
      FileRows(u)[i].op>>

Request(u) == [entries |-> {Entry(u, i) : i \in Lines(u)}, rows |-> Len(FileRows(u))]

Status(u) == CASE pc[u] = "idle" -> "idle"
               [] pc[u] \in {"received"} \cup InTransaction -> "waiting"
               [] pc[u] = "committed" -> "imported"
               [] pc[u] = "answered" -> "answered"
               [] pc[u] = "lost" -> "lost"
               [] pc[u] \in {"refused", "failed"} -> "refused"

Promise == INSTANCE Ledger WITH
    Entries <- Accounts \X Ops,
    ledger  <- {<<t.account, t.op>> : t \in transactions},
    request <- [u \in Uploads |-> Request(u)],
    status  <- [u \in Uploads |-> Status(u)],
    report  <- [u \in Uploads |-> [inserted |-> batch[u].inserted,
                                   duplicate |-> batch[u].duplicate]]

\* The service implements its promise: each upload takes effect in one step,
\* with the report Ledger demands, or not at all.
ImplementsLedger == Promise!Spec

=============================================================================
