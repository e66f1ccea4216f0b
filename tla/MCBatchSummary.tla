--------------------------- MODULE MCBatchSummary ---------------------------
(***************************************************************************)
(* Small instances of BatchSummary.                                        *)
(***************************************************************************)
EXTENDS BatchSummary, MCImportService

=============================================================================
