------------------------ MODULE ImportServiceProofs ------------------------
(***************************************************************************)
(* Proofs about ImportService for any uploads, households, files and       *)
(* accounts: the inductive invariant IInv, the safety properties that      *)
(* follow from it, the refinement of Ledger, and about BatchSummary: that  *)
(* a summary is one of the moment follows from the invariant of the import *)
(* and from what cannot change once a batch is there.                      *)
(***************************************************************************)
EXTENDS BatchSummary, FiniteSetTheorems, TLAPS

----------------------------------------------------------------------------
(* The inductive invariant. *)

\* The steps of a handler that has listed its accounts.
Listed == {"listed", "inserting"} \cup Committed

\* The default account is the household's, and so is every listed account;
\* each card the file names is listed.
AccountsKnown ==
    \A u \in Uploads :
        /\ pc[u] \in {"found"} \cup Listed =>
              upload[u].default \in Visible(upload[u].household)
        /\ pc[u] \in Listed =>
              /\ known[u] \subseteq Visible(upload[u].household)
              /\ Hints(u) \subseteq {a.ref : a \in known[u]}

\* Only an INSERT in progress holds uncommitted rows: rows of its own file,
\* from lines it has passed.
PendingRows ==
    \A u \in Uploads :
        /\ IsFiniteSet(pending[u])
        /\ pc[u] # "inserting" => pending[u] = {}
        /\ \A t \in pending[u] :
              t.line \in Lines(u) /\ t.line < next[u] /\ t = RowOf(u, t.line)

\* A stored row is the row some committed upload made of one of its lines.
StoredAreRows ==
    \A t \in transactions :
        pc[t.batch] \in Committed /\ t.line \in Lines(t.batch) /\ t = RowOf(t.batch, t.line)

\* uq_tx_dedup over committed and uncommitted rows alike.
KeysUnique ==
    LET written == transactions \cup UNION {pending[u] : u \in Uploads}
    IN  \A s, t \in written : s.account = t.account /\ s.op = t.op => s = t

\* A line the INSERT has passed is written: by itself, or committed before.
LinesCovered ==
    \A u \in Uploads :
        /\ pc[u] \in {"idle", "received", "parsed", "found", "listed"} => next[u] = 1
        /\ pc[u] = "inserting" =>
              \A i \in Lines(u) : i < next[u] =>
                  Collides(RowOf(u, i), transactions \cup pending[u])
        /\ pc[u] \in Committed => \A i \in Lines(u) : Collides(RowOf(u, i), transactions)

\* A batch of a committed upload counts its rows; one that was flushed and not
\* committed counts none yet; any other upload has none.
BatchesCount ==
    \A u \in Uploads :
        IF pc[u] \in Committed
        THEN LET rows == {t \in transactions : t.batch = u}
             IN  /\ IsFiniteSet(rows)
                 /\ batch[u] = [status |-> "parsed", inserted |-> Cardinality(rows),
                                duplicate |-> Len(FileRows(u)) - Cardinality(rows)]
        ELSE batch[u] = IF pc[u] = "inserting" THEN NewBatch ELSE NoBatch

\* Of two uploads of one statement only one has rows in the ledger.
OneSourcePerStatement ==
    \A s, t \in transactions : SameStatement(s.batch, t.batch) => s.batch = t.batch

IInv ==
    /\ TypeOK
    /\ AccountsKnown
    /\ PendingRows
    /\ StoredAreRows
    /\ KeysUnique
    /\ LinesCovered
    /\ BatchesCount
    /\ OneSourcePerStatement

----------------------------------------------------------------------------
(* What a row is made of. *)

\* The rows an upload makes change only with what it has listed.
LEMMA SameRows ==
    ASSUME NEW u \in Uploads, upload' = upload, known'[u] = known[u]
    PROVE  /\ Lines(u)' = Lines(u)
           /\ FileRows(u)' = FileRows(u)
           /\ \A i : RowOf(u, i)' = RowOf(u, i)
<1>1. FileRows(u)' = FileRows(u)
  BY DEF FileRows
<1>2. \A i : AccountOf(u, i)' = AccountOf(u, i)
  BY <1>1 DEF AccountOf
<1> QED
  BY <1>1, <1>2 DEF Lines, RowOf

\* Every line of a file is a row of the parser's.
LEMMA FileRowType ==
    ASSUME TypeOK, NEW u \in Uploads
    PROVE  /\ FileRows(u) \in Seq(Rows)
           /\ Len(FileRows(u)) \in Nat
           /\ Lines(u) = 1 .. Len(FileRows(u))
           /\ \A i \in Lines(u) : FileRows(u)[i] \in Rows
<1>1. upload[u] \in [household : Households, file : Files, default : Accounts]
  BY DEF TypeOK
<1>2. upload[u].file \in [readable : BOOLEAN, rows : Seq(Rows)]
  BY <1>1, FilesAreStatements
<1>3. FileRows(u) \in Seq(Rows)
  BY <1>2 DEF FileRows
<1> QED
  BY <1>3 DEF Lines

\* A handler that has listed its accounts sends each line to the account of
\* its card in the household, or to the default account: to an account that
\* exists, and to the entry the request asks for.
LEMMA RowAccount ==
    ASSUME TypeOK, AccountsKnown,
           NEW u \in Uploads, NEW i \in Lines(u), pc[u] \in Listed
    PROVE  /\ AccountOf(u, i) \in accounts
           /\ AccountOf(u, i).household = upload[u].household
           /\ AccountOf(u, i).ref = IF FileRows(u)[i].hint = NoHint
                                    THEN upload[u].default.ref ELSE FileRows(u)[i].hint
           /\ Entry(u, i) = <<AccountOf(u, i), FileRows(u)[i].op>>
           /\ RowOf(u, i) \in StoredRows
<1> DEFINE h == upload[u].household
           hint == FileRows(u)[i].hint
           named == {a \in known[u] : a.ref = hint}
<1>1. FileRows(u)[i] \in Rows /\ i \in Nat
  BY FileRowType
<1>2. upload[u].default \in Visible(h) /\ known[u] \subseteq Visible(h)
  BY DEF AccountsKnown, Listed
<1>3. Visible(h) \subseteq accounts /\ accounts \subseteq Accounts /\ h \in Households
      /\ \A a \in Visible(h) : a.household = h
  BY DEF TypeOK, Visible
<1>4. CASE hint = NoHint
  <2>1. named = {}
    BY <1>2, <1>3, <1>4, NoHintIsNoRef DEF Accounts
  <2>2. AccountOf(u, i) = upload[u].default
    BY <2>1 DEF AccountOf
  <2> QED
    BY <1>1, <1>2, <1>3, <1>4, <2>2 DEF Entry, RowOf, StoredRows, Rows
<1>5. CASE hint # NoHint
  <2>1. hint \in Hints(u)
    BY <1>5 DEF Hints
  <2>2. named # {}
    BY <2>1 DEF AccountsKnown, Listed
  <2>3. AccountOf(u, i) \in named
    BY <2>2 DEF AccountOf
  <2>4. AccountOf(u, i) = [household |-> h, ref |-> hint]
    BY <1>2, <1>3, <2>3 DEF Accounts
  <2> QED
    BY <1>1, <1>2, <1>3, <1>5, <2>3, <2>4 DEF Entry, RowOf, StoredRows, Rows
<1> QED
  BY <1>4, <1>5

----------------------------------------------------------------------------
(* The steps that leave rows alone. *)

\* A step that moves handlers forward without touching what they hold, and
\* adds at most accounts.
Early == {"idle", "received", "parsed", "found", "listed"}

Quiet ==
    /\ accounts \subseteq accounts' /\ accounts' \subseteq Accounts
    /\ UNCHANGED <<transactions, upload, known, next, pending>>
    /\ pc' \in [Uploads -> Steps]
    /\ batch' \in [Uploads -> {NewBatch} \cup {batch[u] : u \in Uploads}]
    /\ \A u \in Uploads :
          batch'[u] = IF pc[u] = "listed" /\ pc'[u] = "inserting" THEN NewBatch ELSE batch[u]
    /\ \A u \in Uploads :
          /\ pc[u] \in Committed <=> pc'[u] \in Committed
          /\ pc[u] = "inserting" => pc'[u] = "inserting"
          /\ pc'[u] = "inserting" => pc[u] \in {"listed", "inserting"}
          /\ pc'[u] \in Early => pc[u] \in Early
          /\ pc'[u] \in Listed => pc[u] \in Listed
          /\ pc'[u] = "found" =>
                pc[u] = "found" \/ upload[u].default \in Visible(upload[u].household)

LEMMA QuietStep == IInv /\ Quiet => IInv'
<1> SUFFICES ASSUME IInv, Quiet PROVE IInv'
  OBVIOUS
<1> USE DEF IInv
<1>1. \A u \in Uploads : /\ Lines(u)' = Lines(u)
                         /\ FileRows(u)' = FileRows(u)
                         /\ Hints(u)' = Hints(u)
                         /\ \A i : RowOf(u, i)' = RowOf(u, i)
  BY SameRows DEF Quiet, Hints
<1>2. \A h : Visible(h) \subseteq Visible(h)'
  BY DEF Quiet, Visible
<1>3. \A u \in Uploads : \A i :
          /\ Collides(RowOf(u, i), transactions \cup pending[u])'
                <=> Collides(RowOf(u, i), transactions \cup pending[u])
          /\ Collides(RowOf(u, i), transactions)' <=> Collides(RowOf(u, i), transactions)
  BY <1>1 DEF Collides, Quiet
<1>4. TypeOK'
  <2>1. batch' \in [Uploads -> [status : {"none", "parsed"}, inserted : Nat, duplicate : Nat]]
    BY DEF TypeOK, Quiet, NewBatch
  <2> QED  BY <2>1 DEF TypeOK, Quiet
<1>5. AccountsKnown'
  <2>1. SUFFICES ASSUME NEW u \in Uploads
                 PROVE  /\ pc'[u] \in {"found"} \cup Listed =>
                              upload[u].default \in Visible(upload[u].household)'
                        /\ pc'[u] \in Listed =>
                              /\ known[u] \subseteq Visible(upload[u].household)'
                              /\ Hints(u) \subseteq {a.ref : a \in known[u]}
    BY <1>1 DEF AccountsKnown, Quiet, Listed
  <2> QED
    BY <1>2 DEF AccountsKnown, Quiet
<1>6. PendingRows'
  BY <1>1 DEF PendingRows, Quiet
<1>7. StoredAreRows'
  <2>1. \A t \in transactions : t.batch \in Uploads
    BY DEF TypeOK, StoredRows
  <2> QED
    BY <1>1, <2>1 DEF StoredAreRows, Quiet
<1>8. KeysUnique'
  BY DEF KeysUnique, Quiet
<1>9. LinesCovered'
  <2>1. SUFFICES ASSUME NEW u \in Uploads
                 PROVE  /\ pc'[u] \in Early => next[u] = 1
                        /\ pc'[u] = "inserting" =>
                              \A i \in Lines(u) : i < next[u] =>
                                  Collides(RowOf(u, i), transactions \cup pending[u])
                        /\ pc'[u] \in Committed =>
                              \A i \in Lines(u) : Collides(RowOf(u, i), transactions)
    BY <1>1, <1>3 DEF LinesCovered, Quiet, Early
  <2>2. CASE pc[u] = "listed"
    <3>1. next[u] = 1
      BY <2>2 DEF LinesCovered
    <3>2. \A i \in Lines(u) : ~ (i < 1)
      BY FileRowType
    <3> QED
      BY <2>2, <3>1, <3>2 DEF Quiet, Committed
  <2>3. CASE pc[u] # "listed"
    BY <2>3 DEF Quiet, LinesCovered, Early
  <2> QED
    BY <2>2, <2>3
<1>10. BatchesCount'
  BY <1>1 DEF BatchesCount, Quiet, Committed
<1>11. OneSourcePerStatement'
  BY DEF OneSourcePerStatement, SameStatement, FileRows, Quiet
<1> QED
  BY <1>4, <1>5, <1>6, <1>7, <1>8, <1>9, <1>10, <1>11

\* Listing the accounts fixes by_ref, and the uploads that already wrote rows
\* are others.
LEMMA ListAccountsStep ==
    ASSUME IInv, NEW u \in Uploads, ListAccounts(u)
    PROVE  IInv'
<1> USE DEF IInv
<1> DEFINE seen == Visible(upload[u].household)
<1>1. CASE ~ Hints(u) \subseteq {a.ref : a \in seen}
  <2>1. Quiet
    BY <1>1 DEF ListAccounts, GoTo, Quiet, TypeOK, Steps, Ended, InTransaction, Committed,
                Listed, Early
  <2> QED
    BY <2>1, QuietStep
<1>2. CASE Hints(u) \subseteq {a.ref : a \in seen}
  <2>0. /\ UNCHANGED <<accounts, transactions, batch, upload, next, pending>>
        /\ pc[u] = "found" /\ pc' = [pc EXCEPT ![u] = "listed"]
        /\ known' = [known EXCEPT ![u] = seen]
        /\ pc \in [Uploads -> Steps] /\ known \in [Uploads -> SUBSET Accounts]
    BY <1>2 DEF ListAccounts, GoTo, TypeOK
  <2>1. \A v \in Uploads : v # u => /\ Lines(v)' = Lines(v)
                                    /\ FileRows(v)' = FileRows(v)
                                    /\ \A i : RowOf(v, i)' = RowOf(v, i)
    BY <2>0, SameRows
  <2>2. pending[u] = {} /\ \A t \in transactions : t.batch \in Uploads /\ t.batch # u
    BY <2>0 DEF PendingRows, StoredAreRows, TypeOK, StoredRows, Committed
  <2>3. TypeOK'
    BY <2>0 DEF TypeOK, Steps, InTransaction, Visible
  <2>4. AccountsKnown'
    <3>1. \A v \in Uploads : Hints(v)' = Hints(v)
      BY <2>0 DEF Hints, Lines, FileRows
    <3>2. \A h : Visible(h)' = Visible(h)
      BY <2>0 DEF Visible
    <3>3. SUFFICES ASSUME NEW v \in Uploads
                   PROVE  /\ pc'[v] \in {"found"} \cup Listed =>
                                upload[v].default \in Visible(upload[v].household)
                          /\ pc'[v] \in Listed =>
                                /\ known'[v] \subseteq Visible(upload[v].household)
                                /\ Hints(v) \subseteq {a.ref : a \in known'[v]}
      BY <2>0, <3>1, <3>2 DEF AccountsKnown, Listed
    <3>4. CASE v = u
      BY <1>2, <2>0, <3>4 DEF AccountsKnown
    <3>5. CASE v # u
      BY <2>0, <3>5 DEF AccountsKnown
    <3> QED
      BY <3>4, <3>5
  <2>5. PendingRows'
    <3>1. SUFFICES ASSUME NEW v \in Uploads
                   PROVE  /\ IsFiniteSet(pending[v])
                          /\ pc'[v] # "inserting" => pending[v] = {}
                          /\ \A t \in pending[v] : /\ t.line \in Lines(v)'
                                                   /\ t.line < next[v]
                                                   /\ t = RowOf(v, t.line)'
      BY <2>0 DEF PendingRows
    <3> QED
      BY <2>0, <2>1, <2>2 DEF PendingRows
  <2>6. StoredAreRows'
    BY <2>0, <2>1, <2>2 DEF StoredAreRows
  <2>7. KeysUnique'
    BY <2>0 DEF KeysUnique
  <2>8. LinesCovered'
    <3>1. SUFFICES ASSUME NEW v \in Uploads
                   PROVE  /\ pc'[v] \in Early => next'[v] = 1
                          /\ pc'[v] = "inserting" =>
                                \A i \in Lines(v)' : i < next'[v] =>
                                    Collides(RowOf(v, i), transactions \cup pending[v])'
                          /\ pc'[v] \in Committed =>
                                \A i \in Lines(v)' : Collides(RowOf(v, i), transactions)'
      BY DEF LinesCovered, Early
    <3>2. CASE v = u
      BY <2>0, <3>2 DEF LinesCovered, Committed
    <3>3. CASE v # u
      BY <2>0, <2>1, <3>3 DEF LinesCovered, Early, Collides
    <3> QED
      BY <3>2, <3>3
  <2>9. BatchesCount'
    BY <2>0, <2>1 DEF BatchesCount, FileRows, Committed
  <2>10. OneSourcePerStatement'
    BY <2>0 DEF OneSourcePerStatement, SameStatement, FileRows
  <2> QED
    BY <2>3, <2>4, <2>5, <2>6, <2>7, <2>8, <2>9, <2>10
<1> QED
  BY <1>1, <1>2

\* A transaction that ends without a commit takes its rows with it.
LEMMA RollbackStep ==
    ASSUME IInv, NEW u \in Uploads, pc[u] \in InTransaction, Rollback(u)
    PROVE  IInv'
<1> USE DEF IInv
<1>0. /\ UNCHANGED <<accounts, transactions, upload, known, next>>
      /\ pc' = [pc EXCEPT ![u] = "failed"]
      /\ pending' = [pending EXCEPT ![u] = {}]
      /\ batch' = [batch EXCEPT ![u] = NoBatch]
      /\ pc \in [Uploads -> Steps] /\ pending \in [Uploads -> SUBSET StoredRows]
      /\ pc[u] \notin Committed
  BY DEF Rollback, GoTo, TypeOK, InTransaction, Committed
<1>1. \A v \in Uploads : /\ Lines(v)' = Lines(v)
                         /\ FileRows(v)' = FileRows(v)
                         /\ Hints(v)' = Hints(v)
                         /\ \A i : RowOf(v, i)' = RowOf(v, i)
  BY <1>0, SameRows DEF Hints
<1>2. TypeOK'
  <2>1. batch' \in [Uploads -> [status : {"none", "parsed"}, inserted : Nat, duplicate : Nat]]
    BY <1>0 DEF TypeOK, NoBatch
  <2> QED  BY <1>0, <2>1 DEF TypeOK, Steps, Ended
<1>3. AccountsKnown'
  BY <1>0, <1>1 DEF AccountsKnown, Visible, Listed, Committed
<1>4. PendingRows'
  <2>1. \A v \in Uploads : v # u => pending'[v] = pending[v] /\ pc'[v] = pc[v]
    BY <1>0
  <2>2. pending'[u] = {} /\ IsFiniteSet({})
    BY <1>0, FS_EmptySet
  <2> QED
    BY <1>0, <1>1, <2>1, <2>2 DEF PendingRows
<1>5. StoredAreRows'
  BY <1>0, <1>1 DEF StoredAreRows, TypeOK, StoredRows
<1>6. KeysUnique'
  <2>1. UNION {pending'[v] : v \in Uploads} \subseteq UNION {pending[v] : v \in Uploads}
    BY <1>0
  <2> QED
    BY <1>0, <2>1 DEF KeysUnique
<1>7. LinesCovered'
  <2>1. SUFFICES ASSUME NEW v \in Uploads
                 PROVE  /\ pc'[v] \in Early => next'[v] = 1
                        /\ pc'[v] = "inserting" =>
                              \A i \in Lines(v)' : i < next'[v] =>
                                  Collides(RowOf(v, i), transactions \cup pending[v])'
                        /\ pc'[v] \in Committed =>
                              \A i \in Lines(v)' : Collides(RowOf(v, i), transactions)'
    BY DEF LinesCovered, Early
  <2>2. CASE v = u
    BY <1>0, <2>2 DEF Early, Committed
  <2>3. CASE v # u
    BY <1>0, <1>1, <2>3 DEF LinesCovered, Early, Collides
  <2> QED
    BY <2>2, <2>3
<1>8. BatchesCount'
  <2>1. ASSUME NEW v \in Uploads, v # u
        PROVE  pc'[v] = pc[v] /\ batch'[v] = batch[v]
    BY <1>0, <2>1 DEF TypeOK
  <2>2. pc'[u] = "failed" /\ batch'[u] = NoBatch
    BY <1>0 DEF TypeOK
  <2> QED  BY <1>0, <1>1, <2>1, <2>2 DEF BatchesCount, Committed
<1>9. OneSourcePerStatement'
  BY <1>0 DEF OneSourcePerStatement, SameStatement, FileRows
<1> QED
  BY <1>2, <1>3, <1>4, <1>5, <1>6, <1>7, <1>8, <1>9

\* The INSERT writes one row, whose key nobody has written.
LEMMA InsertRowStep ==
    ASSUME IInv, NEW u \in Uploads, InsertRow(u)
    PROVE  IInv'
<1> USE DEF IInv
<1> DEFINE row == RowOf(u, next[u])
<1>0. /\ UNCHANGED <<accounts, transactions, batch, upload, pc, known>>
      /\ pc[u] = "inserting" /\ next[u] \in Lines(u)
      /\ pending' = [pending EXCEPT ![u] = pending[u] \cup {row}]
      /\ next' = [next EXCEPT ![u] = next[u] + 1]
      /\ pending \in [Uploads -> SUBSET StoredRows] /\ next \in [Uploads -> Nat \ {0}]
  BY DEF InsertRow, TypeOK
<1>1. \A v \in Uploads : /\ Lines(v)' = Lines(v)
                         /\ FileRows(v)' = FileRows(v)
                         /\ Hints(v)' = Hints(v)
                         /\ \A i : RowOf(v, i)' = RowOf(v, i)
  BY <1>0, SameRows DEF Hints
<1>2. \A v \in Uploads : v # u => pending'[v] = pending[v] /\ next'[v] = next[v]
  BY <1>0
<1>3. pending'[u] = pending[u] \cup {row} /\ next'[u] = next[u] + 1 /\ next[u] \in Nat
  BY <1>0
<1>4. row \in StoredRows /\ row.batch = u /\ row.line = next[u]
  BY <1>0, RowAccount DEF Listed, RowOf
<1>5. TypeOK'
  BY <1>0, <1>4 DEF TypeOK
<1>6. AccountsKnown'
  BY <1>0, <1>1 DEF AccountsKnown, Visible
<1>7. PendingRows'
  <2>1. SUFFICES ASSUME NEW v \in Uploads
                 PROVE  /\ IsFiniteSet(pending'[v])
                        /\ pc[v] # "inserting" => pending'[v] = {}
                        /\ \A t \in pending'[v] : /\ t.line \in Lines(v)'
                                                  /\ t.line < next'[v]
                                                  /\ t = RowOf(v, t.line)'
    BY <1>0 DEF PendingRows
  <2>2. CASE v = u
    <3>1. IsFiniteSet(pending'[u])
      <4>1. IsFiniteSet(pending[u])
        BY DEF PendingRows
      <4> QED
        BY <1>3, <4>1, FS_AddElement
    <3>2. \A t \in pending[u] : t.line \in Nat
      BY <1>0 DEF StoredRows
    <3>3. \A t \in pending'[u] :
             t.line \in Lines(u) /\ t.line < next'[u] /\ t = RowOf(u, t.line)
      BY <1>0, <1>3, <1>4, <3>2 DEF PendingRows
    <3> QED
      BY <1>0, <1>1, <2>2, <3>1, <3>3
  <2>3. CASE v # u
    BY <1>1, <1>2, <2>3 DEF PendingRows
  <2> QED
    BY <2>2, <2>3
<1>8. StoredAreRows'
  BY <1>0, <1>1 DEF StoredAreRows, TypeOK, StoredRows
<1>9. KeysUnique'
  <2> DEFINE written == transactions \cup UNION {pending[v] : v \in Uploads}
  <2>1. transactions \cup UNION {pending'[v] : v \in Uploads} \subseteq written \cup {row}
    BY <1>2, <1>3
  <2>2. \A t \in written : ~ (t.account = row.account /\ t.op = row.op)
    <3>1. ~ Collides(row, transactions \cup pending[u])
      BY DEF InsertRow
    <3>2. \A v \in Uploads : v # u => ~ Collides(row, pending[v])
      BY <1>0 DEF InsertRow, WaitsFor
    <3> QED
      BY <3>1, <3>2 DEF Collides
  <2>3. \A s, t \in written : s.account = t.account /\ s.op = t.op => s = t
    BY DEF KeysUnique
  <2> QED
    BY <1>0, <2>1, <2>2, <2>3 DEF KeysUnique
<1>10. LinesCovered'
  <2>1. SUFFICES ASSUME NEW v \in Uploads
                 PROVE  /\ pc[v] \in Early => next'[v] = 1
                        /\ pc[v] = "inserting" =>
                              \A i \in Lines(v)' : i < next'[v] =>
                                  Collides(RowOf(v, i), transactions \cup pending[v])'
                        /\ pc[v] \in Committed =>
                              \A i \in Lines(v)' : Collides(RowOf(v, i), transactions)'
    BY <1>0 DEF LinesCovered, Early
  <2>2. CASE v = u
    <3>1. \A i \in Lines(u) : i \in Nat /\ (i < next[u] + 1 => i < next[u] \/ i = next[u])
      BY <1>3, FileRowType
    <3>2. \A i \in Lines(u) : i < next[u] => Collides(RowOf(u, i), transactions \cup pending[u])
      BY <1>0 DEF LinesCovered
    <3>3. \A i \in Lines(u) : i < next'[u] => Collides(RowOf(u, i), transactions \cup pending[u])'
      BY <1>0, <1>1, <1>3, <3>1, <3>2 DEF Collides
    <3> QED
      BY <1>0, <1>1, <2>2, <3>3 DEF Early, Committed
  <2>3. CASE v # u
    BY <1>0, <1>1, <1>2, <2>3 DEF LinesCovered, Early, Collides
  <2> QED
    BY <2>2, <2>3
<1>11. BatchesCount'
  BY <1>0, <1>1 DEF BatchesCount
<1>12. OneSourcePerStatement'
  BY <1>0 DEF OneSourcePerStatement, SameStatement, FileRows
<1> QED
  BY <1>5, <1>6, <1>7, <1>8, <1>9, <1>10, <1>11, <1>12

\* The INSERT passes a row whose key is written already.
LEMMA SkipRowStep ==
    ASSUME IInv, NEW u \in Uploads, SkipRow(u)
    PROVE  IInv'
<1> USE DEF IInv
<1>0. /\ UNCHANGED <<accounts, transactions, batch, upload, pc, known, pending>>
      /\ pc[u] = "inserting" /\ next[u] \in Lines(u)
      /\ next' = [next EXCEPT ![u] = next[u] + 1]
      /\ next \in [Uploads -> Nat \ {0}]
  BY DEF SkipRow, TypeOK
<1>1. \A v \in Uploads : /\ Lines(v)' = Lines(v)
                         /\ FileRows(v)' = FileRows(v)
                         /\ Hints(v)' = Hints(v)
                         /\ \A i : RowOf(v, i)' = RowOf(v, i)
  BY <1>0, SameRows DEF Hints
<1>2. next'[u] = next[u] + 1 /\ next[u] \in Nat /\ \A v \in Uploads : v # u => next'[v] = next[v]
  BY <1>0
<1>3. TypeOK'
  BY <1>0 DEF TypeOK
<1>4. AccountsKnown'
  BY <1>0, <1>1 DEF AccountsKnown, Visible
<1>5. PendingRows'
  <2>1. \A t \in pending[u] : t.line \in Nat
    BY DEF TypeOK, StoredRows
  <2>2. \A t \in pending[u] : t.line < next[u] => t.line < next'[u]
    BY <1>2, <2>1
  <2> QED
    BY <1>0, <1>1, <1>2, <2>2 DEF PendingRows
<1>6. StoredAreRows'
  BY <1>0, <1>1 DEF StoredAreRows, TypeOK, StoredRows
<1>7. KeysUnique'
  BY <1>0 DEF KeysUnique
<1>8. LinesCovered'
  <2>1. SUFFICES ASSUME NEW v \in Uploads
                 PROVE  /\ pc[v] \in Early => next'[v] = 1
                        /\ pc[v] = "inserting" =>
                              \A i \in Lines(v)' : i < next'[v] =>
                                  Collides(RowOf(v, i), transactions \cup pending[v])'
                        /\ pc[v] \in Committed =>
                              \A i \in Lines(v)' : Collides(RowOf(v, i), transactions)'
    BY <1>0 DEF LinesCovered, Early
  <2>2. CASE v = u
    <3>1. \A i \in Lines(u) : i \in Nat /\ (i < next[u] + 1 => i < next[u] \/ i = next[u])
      BY <1>2, FileRowType
    <3>2. \A i \in Lines(u) : i < next[u] => Collides(RowOf(u, i), transactions \cup pending[u])
      BY <1>0 DEF LinesCovered
    <3>3. Collides(RowOf(u, next[u]), transactions \cup pending[u])
      BY DEF SkipRow
    <3>4. \A i \in Lines(u) : i < next'[u] => Collides(RowOf(u, i), transactions \cup pending[u])'
      BY <1>0, <1>1, <1>2, <3>1, <3>2, <3>3 DEF Collides
    <3> QED
      BY <1>0, <1>1, <2>2, <3>4 DEF Early, Committed
  <2>3. CASE v # u
    BY <1>0, <1>1, <1>2, <2>3 DEF LinesCovered, Early, Collides
  <2> QED
    BY <2>2, <2>3
<1>9. BatchesCount'
  BY <1>0, <1>1 DEF BatchesCount
<1>10. OneSourcePerStatement'
  BY <1>0 DEF OneSourcePerStatement, SameStatement, FileRows
<1> QED
  BY <1>3, <1>4, <1>5, <1>6, <1>7, <1>8, <1>9, <1>10

\* An upload past its last row finds each of its rows written, by itself or
\* by an upload that committed.
LEMMA AllLinesCovered ==
    ASSUME IInv, NEW u \in Uploads, Commit(u), NEW i \in Lines(u)
    PROVE  Collides(RowOf(u, i), transactions \cup pending[u])
<1>1. i < next[u]
  <2>1. next[u] \in Nat /\ next[u] > Len(FileRows(u))
    BY DEF Commit, IInv, TypeOK
  <2> QED
    BY <2>1, FileRowType DEF IInv
<1> QED
  BY <1>1 DEF IInv, LinesCovered, Commit

\* An INSERT writes at most one row for each line of the file.
LEMMA PendingBounded ==
    ASSUME IInv, NEW u \in Uploads
    PROVE  /\ Cardinality(pending[u]) \in Nat
           /\ Cardinality(pending[u]) <= Len(FileRows(u))
<1> DEFINE line == [t \in pending[u] |-> t.line]
<1>1. IsFiniteSet(pending[u])
      /\ \A t \in pending[u] : t.line \in Lines(u) /\ t = RowOf(u, t.line)
  BY DEF IInv, PendingRows
<1>2. Len(FileRows(u)) \in Nat /\ Lines(u) = 1 .. Len(FileRows(u))
  BY FileRowType DEF IInv
<1>3. line \in Injection(pending[u], Lines(u))
  <2>1. line \in [pending[u] -> Lines(u)]
    BY <1>1
  <2>2. ASSUME NEW s \in pending[u], NEW t \in pending[u], s.line = t.line
        PROVE  s = t
    <3>1. s = RowOf(u, s.line) /\ t = RowOf(u, t.line)
      BY <1>1
    <3> QED
      BY <2>2, <3>1
  <2> QED
    BY <2>1, <2>2 DEF Injection, IsInjective
<1>4. IsFiniteSet(Lines(u)) /\ Cardinality(Lines(u)) = Len(FileRows(u))
  <2>1. \A n \in Nat : IsFiniteSet(1 .. n) /\ Cardinality(1 .. n) = IF 1 > n THEN 0 ELSE n - 1 + 1
    BY FS_Interval
  <2>2. \A n \in Nat : IsFiniteSet(1 .. n) /\ Cardinality(1 .. n) = n
    BY <2>1
  <2> QED
    BY <1>2, <2>2
<1>5. Cardinality(pending[u]) <= Cardinality(Lines(u))
  BY <1>3, <1>4, FS_Injection
<1> QED
  BY <1>1, <1>4, <1>5, FS_CardinalityType

\* The rows of the INSERT become the rows of the batch.
LEMMA CommitStep ==
    ASSUME IInv, NEW u \in Uploads, Commit(u)
    PROVE  IInv'
<1> USE DEF IInv
<1>0. /\ UNCHANGED <<accounts, upload, known, next>>
      /\ pc[u] = "inserting" /\ pc[u] \notin Committed
      /\ pc' = [pc EXCEPT ![u] = "committed"]
      /\ transactions' = transactions \cup pending[u]
      /\ pending' = [pending EXCEPT ![u] = {}]
      /\ batch' = [batch EXCEPT ![u] =
                     [status |-> "parsed", inserted |-> Cardinality(pending[u]),
                      duplicate |-> Len(FileRows(u)) - Cardinality(pending[u])]]
      /\ pc \in [Uploads -> Steps] /\ pending \in [Uploads -> SUBSET StoredRows]
      /\ transactions \subseteq StoredRows
      /\ batch \in [Uploads -> [status : {"none", "parsed"}, inserted : Nat, duplicate : Nat]]
  BY DEF Commit, GoTo, TypeOK, Committed
<1>1. \A v \in Uploads : /\ Lines(v)' = Lines(v)
                         /\ FileRows(v)' = FileRows(v)
                         /\ Hints(v)' = Hints(v)
                         /\ \A i : RowOf(v, i)' = RowOf(v, i)
  BY <1>0, SameRows DEF Hints
<1>2. pc'[u] = "committed" /\ pending'[u] = {}
      /\ \A v \in Uploads : v # u => /\ pc'[v] = pc[v]
                                     /\ pending'[v] = pending[v]
                                     /\ batch'[v] = batch[v]
  BY <1>0
<1>3. /\ IsFiniteSet(pending[u]) /\ Cardinality(pending[u]) \in Nat
      /\ \A t \in pending[u] : t.batch = u /\ t.line \in Lines(u) /\ t = RowOf(u, t.line)
  BY FS_CardinalityType DEF PendingRows, RowOf
<1>4. \A t \in transactions : t.batch \in Uploads /\ t.batch # u /\ pc[t.batch] \in Committed
  BY <1>0 DEF StoredAreRows, StoredRows
<1>5. TypeOK'
  <2>1. Len(FileRows(u)) \in Nat /\ Cardinality(pending[u]) <= Len(FileRows(u))
    BY FileRowType, PendingBounded
  <2>2. Len(FileRows(u)) - Cardinality(pending[u]) \in Nat
    BY <1>3, <2>1
  <2> QED
    BY <1>0, <1>3, <2>2 DEF TypeOK, Steps, Committed
<1>6. AccountsKnown'
  <2>1. \A h : Visible(h)' = Visible(h)
    BY <1>0 DEF Visible
  <2>2. \A v \in Uploads : pc'[v] \in {"found"} \cup Listed => pc[v] \in {"found"} \cup Listed
    BY <1>0, <1>2 DEF Listed
  <2>3. \A v \in Uploads : pc'[v] \in Listed => pc[v] \in Listed
    BY <1>0, <1>2 DEF Listed
  <2> QED
    BY <1>0, <1>1, <2>1, <2>2, <2>3 DEF AccountsKnown
<1>7. PendingRows'
  BY <1>0, <1>1, <1>2, FS_EmptySet DEF PendingRows
<1>8. StoredAreRows'
  <2>1. \A t \in transactions : pc'[t.batch] \in Committed
    BY <1>2, <1>4
  <2>2. \A t \in pending[u] : pc'[t.batch] \in Committed
    BY <1>2, <1>3 DEF Committed
  <2> QED
    BY <1>0, <1>1, <1>3, <1>4, <2>1, <2>2 DEF StoredAreRows
<1>9. KeysUnique'
  <2> DEFINE written == transactions \cup UNION {pending[v] : v \in Uploads}
  <2>1. transactions' \cup UNION {pending'[v] : v \in Uploads} \subseteq written
    BY <1>0, <1>2
  <2> QED
    BY <2>1 DEF KeysUnique
<1>10. LinesCovered'
  <2>1. SUFFICES ASSUME NEW v \in Uploads
                 PROVE  /\ pc'[v] \in Early => next'[v] = 1
                        /\ pc'[v] = "inserting" =>
                              \A i \in Lines(v)' : i < next'[v] =>
                                  Collides(RowOf(v, i), transactions \cup pending[v])'
                        /\ pc'[v] \in Committed =>
                              \A i \in Lines(v)' : Collides(RowOf(v, i), transactions)'
    BY DEF LinesCovered, Early
  <2>2. CASE v = u
    <3>1. \A i \in Lines(u) : Collides(RowOf(u, i), transactions)'
      BY AllLinesCovered, <1>0, <1>1 DEF Collides
    <3> QED
      BY <1>1, <1>2, <2>2, <3>1 DEF Early
  <2>3. CASE v # u
    <3>1. transactions \subseteq transactions' /\ pending'[v] = pending[v] /\ pc'[v] = pc[v]
          /\ next'[v] = next[v]
      BY <1>0, <1>2, <2>3
    <3>2. \A i : Collides(RowOf(v, i), transactions \cup pending[v]) =>
                   Collides(RowOf(v, i), transactions \cup pending[v])'
      BY <1>1, <3>1 DEF Collides
    <3>3. \A i : Collides(RowOf(v, i), transactions) => Collides(RowOf(v, i), transactions)'
      BY <1>1, <3>1 DEF Collides
    <3> QED
      BY <1>1, <3>1, <3>2, <3>3 DEF LinesCovered, Early
  <2> QED
    BY <2>2, <2>3
<1>11. BatchesCount'
  <2>1. {t \in transactions' : t.batch = u} = pending[u]
    BY <1>0, <1>3, <1>4
  <2>2. \A v \in Uploads : v # u =>
           {t \in transactions' : t.batch = v} = {t \in transactions : t.batch = v}
    BY <1>0, <1>3
  <2>3. batch'[u] = [status |-> "parsed", inserted |-> Cardinality(pending[u]),
                     duplicate |-> Len(FileRows(u)) - Cardinality(pending[u])]
    BY <1>0
  <2>4. SUFFICES ASSUME NEW v \in Uploads
                 PROVE  IF pc'[v] \in Committed
                        THEN LET rows == {t \in transactions' : t.batch = v}
                             IN  /\ IsFiniteSet(rows)
                                 /\ batch'[v] = [status |-> "parsed",
                                                 inserted |-> Cardinality(rows),
                                                 duplicate |-> Len(FileRows(v)) - Cardinality(rows)]
                        ELSE batch'[v] = IF pc'[v] = "inserting" THEN NewBatch ELSE NoBatch
    BY <1>1 DEF BatchesCount, Committed, NoBatch, NewBatch
  <2>5. CASE v = u
    BY <1>2, <1>3, <2>1, <2>3, <2>5 DEF Committed
  <2>6. CASE v # u
    BY <1>2, <2>2, <2>6 DEF BatchesCount
  <2> QED
    BY <2>5, <2>6
<1>12. OneSourcePerStatement'
  <2>1. ASSUME NEW s \in transactions, NEW t \in pending[u],
               SameStatement(s.batch, u) \/ SameStatement(u, s.batch)
        PROVE  FALSE
    <3> DEFINE v == s.batch
               i == t.line
    <3>1. v \in Uploads /\ v # u /\ pc[v] \in Committed /\ i \in Lines(u) /\ t = RowOf(u, i)
      BY <1>3, <1>4
    <3>2. FileRows(v) = FileRows(u) /\ i \in Lines(v) /\ Entry(v, i) = Entry(u, i)
      BY <2>1, <3>1 DEF SameStatement, Lines, Entry
    <3>3. RowOf(v, i).account = t.account /\ RowOf(v, i).op = t.op
      <4>1. Entry(v, i) = <<AccountOf(v, i), FileRows(v)[i].op>>
        BY <3>1, <3>2, RowAccount DEF Listed
      <4>2. Entry(u, i) = <<AccountOf(u, i), FileRows(u)[i].op>>
        BY <1>0, <3>1, RowAccount DEF Listed
      <4>3. AccountOf(v, i) = AccountOf(u, i)
        <5>1. Entry(v, i)[1] = AccountOf(v, i)
          BY <4>1
        <5>2. Entry(u, i)[1] = AccountOf(u, i)
          BY <4>2
        <5> QED
          BY <3>2, <5>1, <5>2
      <4>4. RowOf(u, i).account = AccountOf(u, i) /\ RowOf(u, i).op = FileRows(u)[i].op
        BY DEF RowOf
      <4>5. RowOf(v, i).account = AccountOf(v, i) /\ RowOf(v, i).op = FileRows(v)[i].op
        BY DEF RowOf
      <4> QED
        BY <3>1, <3>2, <4>3, <4>4, <4>5
    <3>4. PICK r \in transactions : r.account = t.account /\ r.op = t.op
      BY <3>1, <3>2, <3>3 DEF LinesCovered, Collides
    <3>5. r = t
      BY <3>4 DEF KeysUnique
    <3> QED
      BY <1>3, <1>4, <3>5
  <2>2. \A s, t \in transactions' : SameStatement(s.batch, t.batch) => s.batch = t.batch
    BY <1>0, <1>3, <2>1 DEF OneSourcePerStatement
  <2>3. \A v, w : SameStatement(v, w)' <=> SameStatement(v, w)
    BY <1>0 DEF SameStatement, FileRows
  <2> QED
    BY <2>2, <2>3 DEF OneSourcePerStatement
<1> QED
  BY <1>5, <1>6, <1>7, <1>8, <1>9, <1>10, <1>11, <1>12

----------------------------------------------------------------------------
(* The invariant. *)

LEMMA InitInvariant == Init => IInv
<1> SUFFICES ASSUME Init PROVE IInv
  OBVIOUS
<1>1. TypeOK
  BY DEF Init, TypeOK, NoBatch, Steps
<1>2. PendingRows
  BY FS_EmptySet DEF Init, PendingRows
<1>3. AccountsKnown /\ StoredAreRows /\ KeysUnique /\ LinesCovered /\ OneSourcePerStatement
  BY DEF Init, AccountsKnown, StoredAreRows, KeysUnique, LinesCovered, OneSourcePerStatement,
         Listed, Committed
<1>4. BatchesCount
  BY DEF Init, BatchesCount, Committed
<1> QED
  BY <1>1, <1>2, <1>3, <1>4 DEF IInv

LEMMA StepInvariant == IInv /\ [Next]_vars => IInv'
<1> SUFFICES ASSUME IInv, [Next]_vars PROVE IInv'
  OBVIOUS
<1> USE DEF Quiet, TypeOK, Steps, Ended, InTransaction, Committed, Listed, Early, GoTo
<1>1. TypeOK
  BY DEF IInv
<1>2. ASSUME NEW a \in Accounts, CreateAccount(a) PROVE IInv'
  <2>1. Quiet
    BY <1>1, <1>2 DEF CreateAccount
  <2> QED
    BY <2>1, QuietStep
<1>3. ASSUME NEW u \in Uploads, Submit(u) PROVE IInv'
  <2>1. Quiet
    BY <1>1, <1>3 DEF Submit
  <2> QED
    BY <2>1, QuietStep
<1>4. ASSUME NEW u \in Uploads, ParseFile(u) PROVE IInv'
  <2>1. Quiet
    BY <1>1, <1>4 DEF ParseFile
  <2> QED
    BY <2>1, QuietStep
<1>5. ASSUME NEW u \in Uploads, GetDefault(u) PROVE IInv'
  <2>1. CASE upload[u].default \in Visible(upload[u].household)
    <3>1. Quiet
      BY <1>1, <1>5, <2>1 DEF GetDefault
    <3> QED
      BY <3>1, QuietStep
  <2>2. CASE upload[u].default \notin Visible(upload[u].household)
    <3>1. Quiet
      BY <1>1, <1>5, <2>2 DEF GetDefault
    <3> QED
      BY <3>1, QuietStep
  <2> QED
    BY <2>1, <2>2
<1>6. ASSUME NEW u \in Uploads, ListAccounts(u) PROVE IInv'
  BY <1>6, ListAccountsStep
<1>7. ASSUME NEW u \in Uploads, FlushBatch(u) PROVE IInv'
  <2>1. Quiet
    BY <1>1, <1>7 DEF FlushBatch
  <2> QED
    BY <2>1, QuietStep
<1>8. ASSUME NEW u \in Uploads, StatementTooLarge(u) PROVE IInv'
  BY <1>8, RollbackStep DEF StatementTooLarge
<1>9. ASSUME NEW u \in Uploads, InsertRow(u) PROVE IInv'
  BY <1>9, InsertRowStep
<1>10. ASSUME NEW u \in Uploads, SkipRow(u) PROVE IInv'
  BY <1>10, SkipRowStep
<1>11. ASSUME NEW u \in Uploads, Commit(u) PROVE IInv'
  BY <1>11, CommitStep
<1>12. ASSUME NEW u \in Uploads, AbortVictim(u) PROVE IInv'
  <2>1. pc[u] = "inserting"
    BY <1>12 DEF AbortVictim, Deadlocked, WaitsFor
  <2> QED
    BY <1>12, <2>1, RollbackStep DEF AbortVictim
<1>13. ASSUME NEW u \in Uploads, Respond(u) PROVE IInv'
  <2>1. Quiet
    BY <1>1, <1>13 DEF Respond
  <2> QED
    BY <2>1, QuietStep
<1>14. ASSUME NEW u \in Uploads, Abort(u) PROVE IInv'
  BY <1>14, RollbackStep DEF Abort
<1>15. CASE UNCHANGED vars
  <2>1. Quiet
    BY <1>1, <1>15 DEF vars
  <2> QED
    BY <2>1, QuietStep
<1> QED
  BY <1>2, <1>3, <1>4, <1>5, <1>6, <1>7, <1>8, <1>9, <1>10, <1>11, <1>12, <1>13, <1>14, <1>15
  DEF Next, Serve

\* IInv holds in every state of the service.
THEOREM InvariantHolds == Spec => []IInv
<1>1. Init => IInv
  BY InitInvariant
<1>2. IInv /\ [Next]_vars => IInv'
  BY StepInvariant
<1> QED
  BY <1>1, <1>2, PTL DEF Spec

----------------------------------------------------------------------------
(* The safety properties the runs check. *)

\* Every variable keeps its type, the counters of a batch included.
THEOREM TypeCorrect == Spec => []TypeOK
<1>1. IInv => TypeOK
  BY DEF IInv
<1> QED
  BY <1>1, InvariantHolds, PTL

\* However many uploads race, no operation is stored twice in an account.
THEOREM NoDuplicates == Spec => []NoDuplicateRows
<1>1. IInv => NoDuplicateRows
  BY DEF IInv, KeysUnique, NoDuplicateRows
<1> QED
  BY <1>1, InvariantHolds, PTL

\* Everything in the file of a committed upload is in the ledger.
THEOREM NothingIsLost == Spec => []NothingLost
<1>1. IInv => NothingLost
  BY DEF IInv, LinesCovered, NothingLost
<1> QED
  BY <1>1, InvariantHolds, PTL

\* The counters of a committed batch are exact.
THEOREM ReportsAreExact == Spec => []ReportExact
<1>1. IInv => ReportExact
  <2> SUFFICES ASSUME IInv, NEW u \in Uploads, pc[u] \in Committed
               PROVE  /\ batch[u].inserted = Cardinality({t \in transactions : t.batch = u})
                      /\ batch[u].inserted + batch[u].duplicate = Len(FileRows(u))
    BY DEF ReportExact, RowsUnder
  <2> DEFINE rows == {t \in transactions : t.batch = u}
  <2>1. IsFiniteSet(rows) /\ batch[u] = [status |-> "parsed", inserted |-> Cardinality(rows),
                                         duplicate |-> Len(FileRows(u)) - Cardinality(rows)]
    BY DEF IInv, BatchesCount
  <2>2. Cardinality(rows) \in Nat /\ Len(FileRows(u)) \in Nat
    BY <2>1, FS_CardinalityType, FileRowType DEF IInv
  <2> QED
    BY <2>1, <2>2
<1> QED
  BY <1>1, InvariantHolds, PTL

\* An upload that failed or was refused has no row in the ledger and no batch.
THEOREM NoTraceOfFailure == Spec => []FailedLeavesNothing
<1>1. IInv => FailedLeavesNothing
  <2>0. ASSUME IInv, NEW u \in Uploads, pc[u] \in {"refused", "failed"}
        PROVE  batch[u] = NoBatch
    BY <2>0 DEF IInv, BatchesCount, Committed
  <2> SUFFICES ASSUME IInv, NEW t \in transactions
               PROVE  batch[t.batch].status = "parsed" /\ pc[t.batch] \in Committed
    BY <2>0 DEF FailedLeavesNothing
  <2>1. pc[t.batch] \in Committed /\ t.batch \in Uploads
    BY DEF IInv, StoredAreRows, TypeOK, StoredRows
  <2>2. batch[t.batch].status = "parsed"
    <3> DEFINE rows == {s \in transactions : s.batch = t.batch}
    <3>1. batch[t.batch] = [status |-> "parsed", inserted |-> Cardinality(rows),
                            duplicate |-> Len(FileRows(t.batch)) - Cardinality(rows)]
      BY <2>1 DEF IInv, BatchesCount
    <3> QED
      BY <3>1
  <2> QED
    BY <2>1, <2>2
<1> QED
  BY <1>1, InvariantHolds, PTL

\* A row stands in its household and in the account of its card.
THEOREM RowsStandWhereTheyBelong == Spec => []RowsInTheirAccounts
<1>1. IInv => RowsInTheirAccounts
  <2> SUFFICES ASSUME IInv, NEW t \in transactions
               PROVE  LET row == FileRows(t.batch)[t.line]
                      IN  /\ t.account \in accounts
                          /\ t.account.household = t.household
                          /\ t.household = upload[t.batch].household
                          /\ t.account.ref = IF row.hint = NoHint
                                             THEN upload[t.batch].default.ref ELSE row.hint
    BY DEF RowsInTheirAccounts
  <2> DEFINE u == t.batch
             i == t.line
  <2>1. u \in Uploads /\ pc[u] \in Listed /\ i \in Lines(u) /\ t = RowOf(u, i)
    BY DEF IInv, StoredAreRows, TypeOK, StoredRows, Listed
  <2>2. RowOf(u, i).account = AccountOf(u, i) /\ RowOf(u, i).household = upload[u].household
    BY DEF RowOf
  <2>3. /\ AccountOf(u, i) \in accounts
        /\ AccountOf(u, i).household = upload[u].household
        /\ AccountOf(u, i).ref = IF FileRows(u)[i].hint = NoHint
                                 THEN upload[u].default.ref ELSE FileRows(u)[i].hint
    BY <2>1, RowAccount DEF IInv
  <2> QED
    BY <2>1, <2>2, <2>3
<1> QED
  BY <1>1, InvariantHolds, PTL

\* Of two uploads of one statement, one inserts nothing.
THEOREM ReuploadsInsertNothing == Spec => []ReuploadInsertsNothing
<1>1. IInv => ReuploadInsertsNothing
  <2> SUFFICES ASSUME IInv, NEW u \in Uploads, NEW v \in Uploads, u # v, SameStatement(u, v),
                      pc[u] \in Committed, pc[v] \in Committed,
                      batch[u].inserted # 0, batch[v].inserted # 0
               PROVE  FALSE
    BY DEF ReuploadInsertsNothing
  <2>1. ASSUME NEW w \in Uploads, pc[w] \in Committed, batch[w].inserted # 0
        PROVE  \E t \in transactions : t.batch = w
    <3> DEFINE rows == {t \in transactions : t.batch = w}
    <3>1. IsFiniteSet(rows) /\ batch[w] = [status |-> "parsed", inserted |-> Cardinality(rows),
                                           duplicate |-> Len(FileRows(w)) - Cardinality(rows)]
      BY <2>1 DEF IInv, BatchesCount
    <3>2. Cardinality(rows) # 0
      BY <2>1, <3>1
    <3>3. rows # {}
      BY <3>2, FS_EmptySet
    <3> QED
      BY <3>3
  <2> QED
    BY <2>1 DEF IInv, OneSourcePerStatement
<1> QED
  BY <1>1, InvariantHolds, PTL

\* Rows come to stand all at once, in the commit of their upload, and stay.
THEOREM RowsComeByCommit == Spec => RowsOnlyByCommit
<1>1. IInv /\ [Next]_vars => [CommitsRows]_vars
  <2> SUFFICES ASSUME IInv, Next, NEW u \in Uploads,
                      RowsUnder(u, transactions') # RowsUnder(u, transactions)
               PROVE  /\ RowsUnder(u, transactions) = {}
                      /\ pc[u] = "inserting" /\ pc'[u] = "committed"
                      /\ RowsUnder(u, transactions') = pending[u]
    BY Zenon DEF CommitsRows
  <2>1. transactions' # transactions
    OBVIOUS
  <2>2. PICK v \in Uploads : Commit(v)
    BY <2>1 DEF Next, Serve, CreateAccount, Submit, ParseFile, GetDefault, ListAccounts,
                FlushBatch, StatementTooLarge, InsertRow, SkipRow, AbortVictim, Respond, Abort,
                Rollback
  <2>3. /\ transactions' = transactions \cup pending[v]
        /\ pc[v] = "inserting" /\ pc'[v] = "committed"
    BY <2>2 DEF Commit, GoTo, IInv, TypeOK
  <2>4. \A t \in pending[v] : t.batch = v
    BY DEF IInv, PendingRows, RowOf
  <2>5. u = v
    BY <2>3, <2>4 DEF RowsUnder
  <2>6. RowsUnder(u, transactions) = {}
    BY <2>3, <2>5 DEF RowsUnder, IInv, StoredAreRows, Committed
  <2> QED
    BY <2>3, <2>4, <2>5, <2>6 DEF RowsUnder
<1> QED
  BY <1>1, InvariantHolds, PTL DEF Spec, RowsOnlyByCommit

----------------------------------------------------------------------------
(* The service implements Ledger. *)

\* What a request asks for is an operation on an account of the system.
LEMMA RequestType ==
    ASSUME TypeOK, NEW u \in Uploads
    PROVE  /\ Request(u) \in [entries : SUBSET (Accounts \X Ops), rows : Nat]
           /\ Request(u).entries = {Entry(u, i) : i \in Lines(u)}
           /\ Request(u).rows = Len(FileRows(u))
<1>1. ASSUME NEW i \in Lines(u) PROVE Entry(u, i) \in Accounts \X Ops
  <2>1. FileRows(u)[i] \in Rows
    BY FileRowType
  <2>2. upload[u].household \in Households /\ upload[u].default \in Accounts
    BY DEF TypeOK
  <2>3. CASE FileRows(u)[i].hint = NoHint
    BY <2>1, <2>2, <2>3 DEF Entry, Rows
  <2>4. CASE FileRows(u)[i].hint # NoHint
    BY <2>1, <2>2, <2>4 DEF Entry, Rows, Accounts
  <2> QED
    BY <2>3, <2>4
<1>2. Len(FileRows(u)) \in Nat
  BY FileRowType
<1> QED
  BY <1>1, <1>2 DEF Request

\* The rows an upload commits are, entry by entry, those of its request that
\* the ledger was missing.
LEMMA CommitAddsMissing ==
    ASSUME IInv, NEW u \in Uploads, Commit(u)
    PROVE  LET stored == {<<t.account, t.op>> : t \in transactions}
               asked  == Request(u).entries
           IN  /\ {<<t.account, t.op>> : t \in transactions'} = stored \cup asked
               /\ Cardinality(asked \ stored) = Cardinality(pending[u])
<1> DEFINE stored == {<<t.account, t.op>> : t \in transactions}
           asked  == Request(u).entries
           mine   == {<<t.account, t.op>> : t \in pending[u]}
           name   == [t \in pending[u] |-> <<t.account, t.op>>]
<1>0. /\ pc[u] \in Listed /\ pc[u] \notin Committed
      /\ transactions' = transactions \cup pending[u]
  BY DEF Commit, Listed, Committed
<1>1. asked = {Entry(u, i) : i \in Lines(u)}
  BY RequestType DEF IInv
<1>2. \A i \in Lines(u) : Entry(u, i) = <<RowOf(u, i).account, RowOf(u, i).op>>
  <2> SUFFICES ASSUME NEW i \in Lines(u)
               PROVE  Entry(u, i) = <<RowOf(u, i).account, RowOf(u, i).op>>
    OBVIOUS
  <2>1. Entry(u, i) = <<AccountOf(u, i), FileRows(u)[i].op>>
    BY <1>0, RowAccount DEF IInv
  <2>2. RowOf(u, i).account = AccountOf(u, i) /\ RowOf(u, i).op = FileRows(u)[i].op
    BY DEF RowOf
  <2> QED
    BY <2>1, <2>2
<1>3. mine \subseteq asked
  <2> SUFFICES ASSUME NEW t \in pending[u] PROVE <<t.account, t.op>> \in asked
    OBVIOUS
  <2>1. t.line \in Lines(u) /\ t = RowOf(u, t.line)
    BY DEF IInv, PendingRows
  <2>2. Entry(u, t.line) = <<t.account, t.op>>
    BY <1>2, <2>1
  <2> QED
    BY <1>1, <2>1, <2>2
<1>4. asked \subseteq stored \cup mine
  <2> SUFFICES ASSUME NEW i \in Lines(u) PROVE Entry(u, i) \in stored \cup mine
    BY <1>1
  <2>1. PICK t \in transactions \cup pending[u] :
           t.account = RowOf(u, i).account /\ t.op = RowOf(u, i).op
    BY AllLinesCovered DEF Collides
  <2> QED
    BY <1>2, <2>1
<1>5. \A s \in transactions \cup pending[u] : \A t \in pending[u] :
         <<s.account, s.op>> = <<t.account, t.op>> => s = t
  <2> SUFFICES ASSUME NEW s \in transactions \cup pending[u], NEW t \in pending[u],
                      <<s.account, s.op>> = <<t.account, t.op>>
               PROVE  s = t
    OBVIOUS
  <2>1. s.account = t.account /\ s.op = t.op
    OBVIOUS
  <2> QED
    BY <2>1 DEF IInv, KeysUnique
<1>6. \A t \in pending[u] : t \notin transactions
  BY <1>0 DEF IInv, StoredAreRows, PendingRows, RowOf
<1>7. stored \cap mine = {}
  BY <1>5, <1>6
<1>8. asked \ stored = mine
  BY <1>3, <1>4, <1>7
<1>9. Cardinality(mine) = Cardinality(pending[u])
  <2>1. name \in Bijection(pending[u], mine)
    BY <1>5 DEF Bijection, Injection, Surjection, IsInjective
  <2> QED
    BY <2>1, FS_Bijection DEF ExistsBijection, IInv, PendingRows
<1>10. {<<t.account, t.op>> : t \in transactions'} = stored \cup mine
  BY <1>0
<1> QED
  BY <1>3, <1>4, <1>8, <1>9, <1>10

\* Where the handler is says where the upload is, seen from outside.
LEMMA StatusOf ==
    ASSUME TypeOK, NEW u \in Uploads
    PROVE  /\ pc[u] = "idle" => Status(u) = "idle"
           /\ pc[u] = "received" \/ pc[u] \in InTransaction => Status(u) = "waiting"
           /\ pc[u] = "committed" => Status(u) = "imported"
           /\ pc[u] = "answered" => Status(u) = "answered"
           /\ pc[u] = "lost" => Status(u) = "lost"
           /\ pc[u] \in {"refused", "failed"} => Status(u) = "refused"
  BY DEF Status, InTransaction

LEMMA RefinementInit == Init => Promise!Init
<1> SUFFICES ASSUME Init PROVE Promise!Init
  OBVIOUS
<1>1. TypeOK
  BY InitInvariant DEF IInv
<1>2. [u \in Uploads |-> Request(u)] \in [Uploads -> Promise!Requests]
  BY <1>1, RequestType DEF Promise!Requests
<1>3. [u \in Uploads |-> Status(u)] = [u \in Uploads |-> "idle"]
  BY <1>1, StatusOf DEF Init
<1>4. [u \in Uploads |-> [inserted |-> batch[u].inserted, duplicate |-> batch[u].duplicate]]
         = [u \in Uploads |-> [inserted |-> 0, duplicate |-> 0]]
  BY DEF Init, NoBatch
<1>5. {<<t.account, t.op>> : t \in transactions} = {}
  BY DEF Init
<1> QED
  BY <1>2, <1>3, <1>4, <1>5 DEF Promise!Init

\* A step that stores nothing moves at most one upload's status on, to waiting,
\* to refused or from imported to its end.
LEMMA RefinementQuiet ==
    ASSUME TypeOK, TypeOK', NEW u \in Uploads,
           UNCHANGED <<transactions, upload>>,
           \A v \in Uploads : /\ batch'[v].inserted = batch[v].inserted
                              /\ batch'[v].duplicate = batch[v].duplicate,
           \A v \in Uploads : v # u => pc'[v] = pc[v],
           \/ Status(u)' = Status(u)
           \/ Status(u) = "idle" /\ Status(u)' = "waiting"
           \/ Status(u) = "waiting" /\ Status(u)' = "refused"
           \/ Status(u) = "imported" /\ Status(u)' \in {"answered", "lost"}
    PROVE  [Promise!Next]_(Promise!vars)
<1> DEFINE status == [v \in Uploads |-> Status(v)]
<1>1. \A v \in Uploads : v # u => Status(v)' = Status(v)
  BY DEF Status
<1>2. status' = [status EXCEPT ![u] = Status(u)']
  BY <1>1
<1>3. [v \in Uploads |-> Request(v)]' = [v \in Uploads |-> Request(v)]
  BY DEF Request, Entry, Lines, FileRows
<1>4. /\ {<<t.account, t.op>> : t \in transactions}' = {<<t.account, t.op>> : t \in transactions}
      /\ [v \in Uploads |-> [inserted |-> batch[v].inserted, duplicate |-> batch[v].duplicate]]'
            = [v \in Uploads |-> [inserted |-> batch[v].inserted,
                                 duplicate |-> batch[v].duplicate]]
  OBVIOUS
<1>5. CASE Status(u)' = Status(u)
  <2>1. status' = status
    BY <1>2, <1>5
  <2> QED
    BY <1>3, <1>4, <2>1 DEF Promise!vars
<1>6. CASE Status(u) = "idle" /\ Status(u)' = "waiting"
  <2>1. Promise!Submit(u)
    BY <1>2, <1>3, <1>4, <1>6 DEF Promise!Submit
  <2> QED
    BY <2>1 DEF Promise!Next
<1>7. CASE Status(u) = "waiting" /\ Status(u)' = "refused"
  <2>1. Promise!Refuse(u)
    BY <1>2, <1>3, <1>4, <1>7 DEF Promise!Refuse
  <2> QED
    BY <2>1 DEF Promise!Next
<1>8. CASE Status(u) = "imported" /\ Status(u)' \in {"answered", "lost"}
  <2>1. Promise!Deliver(u)
    BY <1>2, <1>3, <1>4, <1>8 DEF Promise!Deliver
  <2> QED
    BY <2>1 DEF Promise!Next
<1> QED
  BY <1>5, <1>6, <1>7, <1>8

\* The commit is the step in which an upload takes effect.
LEMMA RefinementCommit ==
    ASSUME IInv, IInv', NEW u \in Uploads, Commit(u)
    PROVE  Promise!Import(u)
<1> DEFINE status == [v \in Uploads |-> Status(v)]
           report == [v \in Uploads |-> [inserted |-> batch[v].inserted,
                                        duplicate |-> batch[v].duplicate]]
           request == [v \in Uploads |-> Request(v)]
           n == Cardinality(pending[u])
<1>0. TypeOK /\ TypeOK'
  BY DEF IInv
<1>1. /\ pc[u] = "inserting" /\ pc' = [pc EXCEPT ![u] = "committed"]
      /\ batch' = [batch EXCEPT ![u] = [status |-> "parsed", inserted |-> n,
                                       duplicate |-> Len(FileRows(u)) - n]]
      /\ UNCHANGED upload
  BY DEF Commit, GoTo
<1>2. status[u] = "waiting" /\ status' = [status EXCEPT ![u] = "imported"]
  <2>1. pc'[u] = "committed" /\ \A v \in Uploads : v # u => pc'[v] = pc[v]
    BY <1>0, <1>1 DEF TypeOK
  <2>2. \A v \in Uploads : v # u => Status(v)' = Status(v)
    BY <2>1 DEF Status
  <2>3. Status(u) = "waiting" /\ Status(u)' = "imported"
    BY <1>1, <2>1 DEF Status, InTransaction
  <2> QED
    BY <2>2, <2>3
<1>3. request' = request
  BY <1>1 DEF Request, Entry, Lines, FileRows
<1>4. report' = [report EXCEPT ![u] = [inserted |-> n, duplicate |-> Len(FileRows(u)) - n]]
  BY <1>0, <1>1 DEF TypeOK
<1>5. request[u].rows = Len(FileRows(u)) /\ request[u].entries = Request(u).entries
  BY <1>0, RequestType
<1>6. LET stored == {<<t.account, t.op>> : t \in transactions}
      IN  /\ {<<t.account, t.op>> : t \in transactions}' = stored \cup request[u].entries
          /\ Cardinality(request[u].entries \ stored) = n
  BY <1>5, CommitAddsMissing
<1>7. \A S : Promise!Cardinality(S) = Cardinality(S)
  BY DEF Promise!Cardinality, Cardinality
<1> QED
  BY <1>2, <1>3, <1>4, <1>5, <1>6, <1>7 DEF Promise!Import, Promise!Missing

\* Spec implements Ledger: every upload takes effect in one step with the
\* report the promise demands, or not at all.
THEOREM Refinement == Spec => ImplementsLedger
<1>1. Init => Promise!Init
  BY RefinementInit
<1>2. IInv /\ IInv' /\ [Next]_vars => [Promise!Next]_(Promise!vars)
  <2> SUFFICES ASSUME IInv, IInv', [Next]_vars PROVE [Promise!Next]_(Promise!vars)
    OBVIOUS
  <2>0. TypeOK /\ TypeOK'
    BY DEF IInv
  <2>1. ASSUME NEW u \in Uploads, Commit(u) PROVE Promise!Next
    BY <2>1, RefinementCommit DEF Promise!Next
  <2>2. ASSUME NEW u \in Uploads,
               \/ Submit(u) \/ ParseFile(u) \/ GetDefault(u) \/ ListAccounts(u)
               \/ FlushBatch(u) \/ Respond(u)
        PROVE  [Promise!Next]_(Promise!vars)
    <3>1. /\ UNCHANGED <<transactions, upload>>
          /\ \A v \in Uploads : v # u => pc'[v] = pc[v]
      BY <2>0, <2>2 DEF Submit, ParseFile, GetDefault, ListAccounts, FlushBatch, Respond, GoTo,
                        TypeOK
    <3>3. \A v \in Uploads : /\ batch'[v].inserted = batch[v].inserted
                             /\ batch'[v].duplicate = batch[v].duplicate
      <4>1. CASE UNCHANGED batch
        BY <4>1
      <4>2. CASE FlushBatch(u)
        <5>1. batch' = [batch EXCEPT ![u] = NewBatch] /\ pc[u] = "listed"
          BY <4>2 DEF FlushBatch
        <5>2. batch[u] = NoBatch
          BY <5>1 DEF IInv, BatchesCount, Committed
        <5> QED
          BY <2>0, <5>1, <5>2 DEF NewBatch, NoBatch, TypeOK
      <4> QED
        BY <2>2, <4>1, <4>2 DEF Submit, ParseFile, GetDefault, ListAccounts, Respond
    <3>2. \/ Status(u)' = Status(u)
          \/ Status(u) = "idle" /\ Status(u)' = "waiting"
          \/ Status(u) = "waiting" /\ Status(u)' = "refused"
          \/ Status(u) = "imported" /\ Status(u)' \in {"answered", "lost"}
      BY <2>0, <2>2 DEF Submit, ParseFile, GetDefault, ListAccounts, FlushBatch, Respond, GoTo,
                        TypeOK, Status, InTransaction
    <3> QED
      BY <2>0, <3>1, <3>2, <3>3, RefinementQuiet
  <2>3. ASSUME NEW u \in Uploads, pc[u] \in InTransaction, Rollback(u)
        PROVE  [Promise!Next]_(Promise!vars)
    <3>1. /\ UNCHANGED <<transactions, upload>>
          /\ \A v \in Uploads : v # u => pc'[v] = pc[v]
      BY <2>0, <2>3 DEF Rollback, GoTo, TypeOK
    <3>3. \A v \in Uploads : /\ batch'[v].inserted = batch[v].inserted
                             /\ batch'[v].duplicate = batch[v].duplicate
      <4>1. batch[u] \in {NewBatch, NoBatch}
        BY <2>3 DEF IInv, BatchesCount, Committed, InTransaction
      <4> QED
        BY <2>0, <2>3, <4>1 DEF Rollback, NewBatch, NoBatch, TypeOK
    <3>2. Status(u) = "waiting" /\ Status(u)' = "refused"
      BY <2>0, <2>3 DEF Rollback, GoTo, TypeOK, Status, InTransaction
    <3> QED
      BY <2>0, <3>1, <3>2, <3>3, RefinementQuiet
  <2>4. ASSUME NEW u \in Uploads, StatementTooLarge(u) \/ AbortVictim(u) \/ Abort(u)
        PROVE  [Promise!Next]_(Promise!vars)
    BY <2>3, <2>4 DEF StatementTooLarge, AbortVictim, Abort, Deadlocked, WaitsFor, InTransaction
  <2>5. ASSUME UNCHANGED <<transactions, batch, upload, pc>> PROVE UNCHANGED Promise!vars
    BY <2>5 DEF Promise!vars, Status, Request, Entry, Lines, FileRows
  <2>6. ASSUME NEW u \in Uploads, InsertRow(u) \/ SkipRow(u) PROVE UNCHANGED Promise!vars
    BY <2>5, <2>6 DEF InsertRow, SkipRow
  <2>7. ASSUME NEW a \in Accounts, CreateAccount(a) PROVE UNCHANGED Promise!vars
    BY <2>5, <2>7 DEF CreateAccount
  <2>8. CASE UNCHANGED vars
    BY <2>5, <2>8 DEF vars
  <2> QED
    BY <2>1, <2>2, <2>4, <2>6, <2>7, <2>8 DEF Next, Serve
<1> QED
  BY <1>1, <1>2, InvariantHolds, PTL DEF Spec, ImplementsLedger, Promise!Spec

----------------------------------------------------------------------------
(* The summary of a batch, in BatchSummary. *)

\* What the request has read is of a batch that is committed, and is what
\* stands there still.
SummaryHolds ==
    LET u == summary.batch
    IN  /\ summary.step \in {"found", "answered"} =>
              /\ u \in Uploads /\ pc[u] \in Committed
              /\ summary.household = upload[u].household
              /\ summary.counters = batch[u]
        /\ summary.step = "answered" => summary.rows = RowsUnder(u, transactions)

\* The rows of a batch stand in the household of its upload.
LEMMA RowsOfHousehold ==
    ASSUME IInv, NEW u \in Uploads
    PROVE  {t \in RowsUnder(u, transactions) : t.household = upload[u].household}
               = RowsUnder(u, transactions)
BY DEF IInv, StoredAreRows, RowsUnder, RowOf

\* Nothing an upload or a new account does reaches a batch that is committed.
LEMMA CommittedStays ==
    ASSUME IInv, Next, NEW u \in Uploads, pc[u] \in Committed
    PROVE  /\ pc'[u] \in Committed /\ upload'[u] = upload[u] /\ batch'[u] = batch[u]
           /\ RowsUnder(u, transactions') = RowsUnder(u, transactions)
<1> USE DEF IInv, TypeOK
<1>1. upload' = upload
  BY DEF Next, CreateAccount, Submit, Serve, ParseFile, GetDefault, ListAccounts, FlushBatch,
         StatementTooLarge, InsertRow, SkipRow, Commit, AbortVictim, Respond, Abort, Rollback
<1>2. pc'[u] \in Committed /\ batch'[u] = batch[u]
  <2>1. CASE \E a \in Accounts : CreateAccount(a)
    BY <2>1 DEF CreateAccount
  <2>2. ASSUME NEW v \in Uploads, Submit(v) \/ Serve(v) \/ Abort(v)
        PROVE  pc'[u] \in Committed /\ batch'[u] = batch[u]
    <3>1. CASE v # u
      BY <2>2, <3>1 DEF Submit, Serve, ParseFile, GetDefault, ListAccounts, FlushBatch, GoTo,
         StatementTooLarge, InsertRow, SkipRow, Commit, AbortVictim, Respond, Abort, Rollback
    <3>2. CASE v = u
      <4>1. pc[u] \notin {"idle", "received", "parsed", "found", "listed", "inserting"}
        BY DEF Committed
      <4>2. ~ Deadlocked(u)
        BY <4>1 DEF Deadlocked, WaitsFor
      <4>3. Respond(u)
        BY <2>2, <3>2, <4>1, <4>2 DEF Submit, Serve, ParseFile, GetDefault, ListAccounts,
           FlushBatch, StatementTooLarge, InsertRow, SkipRow, Commit, AbortVictim, Abort, InTransaction
      <4> QED
        BY <4>3 DEF Respond, GoTo, Committed
    <3> QED
      BY <3>1, <3>2
  <2> QED
    BY <2>1, <2>2 DEF Next
<1>3. CASE transactions' = transactions
  BY <1>1, <1>2, <1>3
<1>4. CASE transactions' # transactions
  <2>1. PICK v \in Uploads : Commit(v)
    BY <1>4 DEF Next, Serve, CreateAccount, Submit, ParseFile, GetDefault, ListAccounts,
                FlushBatch, StatementTooLarge, InsertRow, SkipRow, AbortVictim, Respond, Abort,
                Rollback
  <2>2. transactions' = transactions \cup pending[v] /\ pc[v] = "inserting"
    BY <2>1 DEF Commit
  <2>3. \A t \in pending[v] : t.batch = v
    BY DEF PendingRows, RowOf
  <2>4. v # u
    BY <2>2 DEF Committed
  <2>5. RowsUnder(u, transactions') = RowsUnder(u, transactions)
    BY <2>2, <2>3, <2>4 DEF RowsUnder
  <2> QED
    BY <1>1, <1>2, <2>5
<1> QED
  BY <1>3, <1>4

\* At the start nothing has been asked.
LEMMA SummaryInitHolds == ASSUME SummaryInit PROVE IInv /\ SummaryHolds
<1>1. IInv
  BY InitInvariant DEF SummaryInit
<1>2. summary.step = "idle"
  BY DEF SummaryInit, NotAsked
<1> QED
  BY <1>1, <1>2 DEF SummaryHolds

\* What has been read stays true while other requests go on.
LEMMA SummaryStays ==
    ASSUME IInv, SummaryHolds, Next \/ UNCHANGED vars, UNCHANGED summary
    PROVE  SummaryHolds'
<1>1. CASE UNCHANGED vars
  BY <1>1 DEF vars, SummaryHolds, RowsUnder
<1>2. CASE Next /\ summary.step \in {"found", "answered"}
  <2> DEFINE u == summary.batch
  <2>1. u \in Uploads /\ pc[u] \in Committed
    BY <1>2 DEF SummaryHolds
  <2>2. /\ pc'[u] \in Committed /\ upload'[u] = upload[u] /\ batch'[u] = batch[u]
        /\ RowsUnder(u, transactions') = RowsUnder(u, transactions)
    BY <1>2, <2>1, CommittedStays
  <2> QED
    BY <2>1, <2>2 DEF SummaryHolds, RowsUnder
<1>3. CASE summary.step \notin {"found", "answered"}
  BY <1>3 DEF SummaryHolds
<1> QED
  BY <1>1, <1>2, <1>3

\* The first statement of the request reads the batch.
LEMMA GetBatchStep ==
    ASSUME IInv, NEW h \in Households, NEW u \in Uploads, GetBatch(h, u), UNCHANGED vars
    PROVE  SummaryHolds'
<1>1. CASE VisibleBatch(h, u)
  <2>1. summary' = [step |-> "found", batch |-> u, household |-> h, counters |-> batch[u]]
    BY <1>1 DEF GetBatch
  <2>2. pc[u] \in Committed /\ h = upload[u].household
    BY <1>1 DEF VisibleBatch
  <2> QED
    BY <2>1, <2>2 DEF SummaryHolds, vars
<1>2. CASE ~ VisibleBatch(h, u)
  <2>1. summary' = [step |-> "not found"]
    BY <1>2 DEF GetBatch
  <2> QED
    BY <2>1 DEF SummaryHolds
<1> QED
  BY <1>1, <1>2

\* The second one adds up its rows.
LEMMA SumRowsStep ==
    ASSUME IInv, SummaryHolds, SumRows, UNCHANGED vars
    PROVE  SummaryHolds'
<1> DEFINE u == summary.batch
<1>1. /\ u \in Uploads /\ pc[u] \in Committed
      /\ summary.household = upload[u].household
      /\ summary.counters = batch[u]
  BY DEF SummaryHolds, SumRows
<1>2. summary' = [step |-> "answered", batch |-> u, household |-> summary.household,
                  counters |-> summary.counters, rows |-> RowsUnder(u, transactions)]
  BY <1>1, RowsOfHousehold DEF SumRows
<1> QED
  BY <1>1, <1>2 DEF SummaryHolds, vars, RowsUnder

\* The invariant of the import and of the request together.
LEMMA SummaryInvariant == SummarySpec => [](IInv /\ SummaryHolds)
<1>1. SummaryInit => IInv /\ SummaryHolds
  BY SummaryInitHolds
<1>2. IInv /\ SummaryHolds /\ [SummaryNext]_summaryVars => (IInv /\ SummaryHolds)'
  <2> SUFFICES ASSUME IInv, SummaryHolds, [SummaryNext]_summaryVars PROVE (IInv /\ SummaryHolds)'
    OBVIOUS
  <2>1. CASE Next /\ UNCHANGED summary
    BY <2>1, StepInvariant, SummaryStays
  <2>2. CASE SumRows /\ UNCHANGED vars
    BY <2>2, StepInvariant, SumRowsStep
  <2>3. ASSUME NEW h \in Households, NEW u \in Uploads, GetBatch(h, u), UNCHANGED vars
        PROVE  (IInv /\ SummaryHolds)'
    BY <2>3, StepInvariant, GetBatchStep
  <2>4. CASE UNCHANGED summaryVars
    BY <2>4, StepInvariant, SummaryStays DEF summaryVars
  <2> QED
    BY <2>1, <2>2, <2>3, <2>4 DEF SummaryNext
<1> QED
  BY <1>1, <1>2, PTL DEF SummarySpec

\* A summary adds up exactly the rows its counters count, all of the
\* household that asked, whatever uploads do between its two statements.
THEOREM SummariesAreTrue == SummarySpec => []SummaryIsTrue
<1>1. IInv /\ SummaryHolds => SummaryIsTrue
  <2> SUFFICES ASSUME IInv, SummaryHolds, summary.step = "answered"
               PROVE  /\ Cardinality(summary.rows) = summary.counters.inserted
                      /\ Cardinality(summary.rows) + summary.counters.duplicate
                             = Len(FileRows(summary.batch))
                      /\ \A t \in summary.rows : t.account.household = summary.household
    BY DEF SummaryIsTrue
  <2> DEFINE u == summary.batch
             rows == {t \in transactions : t.batch = u}
  <2>1. /\ u \in Uploads /\ pc[u] \in Committed
        /\ summary.household = upload[u].household
        /\ summary.counters = batch[u]
        /\ summary.rows = rows
    BY DEF SummaryHolds, RowsUnder
  <2>2. /\ IsFiniteSet(rows)
        /\ batch[u] = [status |-> "parsed", inserted |-> Cardinality(rows),
                       duplicate |-> Len(FileRows(u)) - Cardinality(rows)]
    BY <2>1 DEF IInv, BatchesCount
  <2>3. Cardinality(rows) \in Nat /\ Len(FileRows(u)) \in Nat
    BY <2>1, <2>2, FS_CardinalityType, FileRowType DEF IInv
  <2>4. \A t \in rows : t.account.household = summary.household
    <3> SUFFICES ASSUME NEW t \in rows PROVE t.account.household = summary.household
      OBVIOUS
    <3>1. t.line \in Lines(u) /\ t = RowOf(u, t.line)
      BY DEF IInv, StoredAreRows
    <3>2. t.account = AccountOf(u, t.line)
      BY <3>1 DEF RowOf
    <3>3. AccountOf(u, t.line).household = upload[u].household
      BY <2>1, <3>1, RowAccount DEF IInv, Listed
    <3> QED
      BY <2>1, <3>2, <3>3
  <2> HIDE DEF rows
  <2>5. /\ summary.counters.inserted = Cardinality(rows)
        /\ summary.counters.duplicate = Len(FileRows(u)) - Cardinality(rows)
    BY <2>1, <2>2
  <2> QED
    BY <2>1, <2>3, <2>4, <2>5
<1> QED
  BY <1>1, SummaryInvariant, PTL

=============================================================================
