---------------------------- MODULE BatchSummary ----------------------------
(***************************************************************************)
(* GET /api/v1/imports/{batch_id}/summary (batch_summary, routers/         *)
(* imports.py) beside the uploads.  The handler reads the batch in one     *)
(* statement and adds up the rows that name it in another; at READ         *)
(* COMMITTED each sees what is committed when it starts, and both only     *)
(* what row level security lets the household see.                         *)
(***************************************************************************)
EXTENDS ImportService

VARIABLE summary  \* the one request for a summary, and what it has read

summaryVars == <<vars, summary>>

NotAsked == [step |-> "idle"]

SummaryInit == Init /\ summary = NotAsked

\* A bug of the schema: the batch is seen as soon as it is flushed.
VisibleUncommitted(h, u) == upload[u].household = h /\ batch[u].status = "parsed"

\* A session of household h sees of batch u what is committed and what row
\* level security lets it see.
VisibleBatch(h, u) ==
    /\ upload[u].household = h
    /\ batch[u].status = "parsed"
    /\ pc[u] \in Committed

\* session.get(ImportBatch, batch_id): 404 when it is not there or foreign.
GetBatch(h, u) ==
    /\ summary.step = "idle"
    /\ summary' = IF VisibleBatch(h, u)
                  THEN [step |-> "found", batch |-> u, household |-> h, counters |-> batch[u]]
                  ELSE [step |-> "not found"]

\* The sum over the rows, of which the amounts are left out.
SumRows ==
    /\ summary.step = "found"
    /\ summary' = [step |-> "answered", batch |-> summary.batch, household |-> summary.household,
                   counters |-> summary.counters,
                   rows |-> {t \in RowsUnder(summary.batch, transactions) :
                                t.household = summary.household}]

SummaryNext ==
    \/ Next /\ UNCHANGED summary
    \/ /\ SumRows \/ \E h \in Households, u \in Uploads : GetBatch(h, u)
       /\ UNCHANGED vars

SummarySpec == SummaryInit /\ [][SummaryNext]_summaryVars

\* Although the counters and the rows are read in two statements, beside other
\* uploads, a summary is one of the moment: the rows it adds up are those its
\* counters count, all of one household, and no other household is shown it.
SummaryIsTrue ==
    summary.step = "answered" =>
        /\ Cardinality(summary.rows) = summary.counters.inserted
        /\ Cardinality(summary.rows) + summary.counters.duplicate = Len(FileRows(summary.batch))
        /\ \A t \in summary.rows : t.account.household = summary.household

=============================================================================
