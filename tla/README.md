# Verification of kopiyka

kopiyka keeps the bank operations of households: it takes bank statements
(monobank and Privat24 exports), stores each operation once, assigns it to an
account, and recognises transfers between a household's own accounts. This
directory holds TLA+ models of it, the TLC configurations that check them, and
TLAPS proofs.

## 1. The system

| part | code (under `src/src/kopiyka/` unless said) | state | operations |
|---|---|---|---|
| import endpoint | `api/routers/imports.py` | `import_batches`, `transactions` (PostgreSQL) | `import_statement`, `batch_summary` |
| accounts endpoint | `api/routers/accounts.py` | `accounts` | `create_account`, `list_accounts`, `get_account` |
| sessions | `db/session.py`, `migrations/versions/0002_rls_policies.py` | connection pool, `app.household_id` and `app.user_id` of a transaction | `tenant_session`, `identity_session`, `admin_session` |
| login and registration | `api/deps.py`, `config.py`, `scripts/invite.py`, `scripts/seed.py` | `users`, `identities`, `households`, `memberships`, the global `categories` | `get_principal`, `_verify_cf_access`, `_resolve_user`, `require_write`, `invite`, `seed` |
| attribution | `domain/attribution.py` | the rows of one file, `AttributionReport` | `attribute_orphans` |
| deduplication key | `domain/dedup.py` | none | `dedup_hash`, `normalize_description` |
| transfers | `domain/transfers.py` | rows, `used`, `pairs` | `match_internal_transfers` |
| money | `domain/money.py` | none | `parse_amount`, `format_amount` |
| loaders | `loaders/*.py` | none | `load_any`, `decode_statement`, `clean`, CSV and XLSX readers |
| parsers | `parsers/*.py` | `ParseResult` | `detect_parser`, `find_header`, `map_columns`, `parse`, `_parse_row` |
| categories | `categorize/mcc.py` | none | `category_for_mcc`, which nothing calls |
| reconciliation | `src/scripts/reconcile.py` | none (reads files) | balance chain, dedup collisions, transfers |

A request goes through `get_principal` (one admin and one identity session),
then the handler opens a tenant session of its own. The import handler calls the
loader, the parser (which calls attribution) and then the database. Handlers are
coroutines of one event loop, so two of them interleave at every `await`; the
database interleaves their statements row by row.


### What is hard about it

* Uploads of overlapping statements run at once and meet inside the database:
  one waits for the other's uncommitted rows, in whatever order the files list
  them. Any of them may abort, and a client that got no answer sends again.
* Accounts are created while uploads have already listed them.
* The account of an operation without a printed card is *concluded* from the
  balances of its neighbours, one conclusion feeding the next, and that account
  is part of the key which makes imports idempotent.
* The first requests of a person arrive together and each tries to register,
  while the operator invites the same person or the seed stores it. One mailbox
  has several spellings.
* What a request may do is read in one session and used in a later one.
* A summary reads its batch and its rows in two statements beside the uploads.
* Tenant isolation rests on parameters of a transaction on pooled connections.
* Files come in every shape; rows that cannot be read must not disappear.

## 2. The modules

| module | models | extends / instantiates |
|---|---|---|
| `Ledger` | what an upload promises: one atomic step with a true report, or nothing | |
| `ImportService` | `import_statement` and `create_account` under concurrency | implements `Ledger` (`Promise!Spec`) |
| `BatchSummary` | `batch_summary` beside the uploads | extends `ImportService` |
| `ImportServiceProofs` | proofs about the import, refinement included, and about the summary | extends `BatchSummary` |
| `Attribution` | `attribute_orphans` with `_fits` and `_sort_key` | |
| `FiniteInduction` | lemmas for the proofs: least elements, ranks, sums over finite sets, recursion up to a number | |
| `OverlappingStatements` | attribution and insertion composed over a series of statements | extends `Attribution` |
| `AttributionProofs` | proofs about attribution and about series of statements | uses `FiniteInduction` |
| `Transfers` | `match_internal_transfers` and the totals of `reconcile.py` | |
| `Registration` | what logins, invitations and the seed promise: a person appears whole, in one step | |
| `Login` | `get_principal` with `_verify_cf_access` and `_resolve_user`, `scripts/invite.py`, `scripts/seed.py` | implements `Registration` (`Reg!Spec`) |
| `LoginProofs` | proofs about it, refinement included | |
| `TenantStore` | what the API promises about the rows of households: each request served in one step | |
| `Sessions` | the three sessions of a request, pool, row level security, the accounts router, the lookup of a batch, `readyz` | implements `TenantStore` (`Store!Spec`) |
| `SessionsProofs` | proofs about it, refinement included | |
| `StatementReading` | `load_any`, encoding, sheet, delimiter, `detect_parser`, `find_header`, `map_columns`, the loop over rows and `_parse_row` | |
| `StatementReadingProofs` | proofs about it | uses `FiniteInduction` |
| `Dedup` | `normalize_description` and `dedup_hash` | |
| `Reconcile` | `collect`, `check_balance_chain`, `check_dedup_collisions` of `scripts/reconcile.py` | extends `Dedup` |
| `ReconcileProofs` | proofs about it, and about what the key keeps of a text | uses `FiniteInduction` |
| `Money` | `parse_amount` and `format_amount`, character by character | |
| `MoneyProofs` | proofs about both: no money is hidden by `Transfers` or misread by `Money` | uses `FiniteInduction` |

The `MC...` modules give the constants values for TLC.

### How they correspond to the code

**ImportService.** One upload is one call of `import_statement`; `pc` is the
await it has come to. `ParseFile`, `GetDefault`, `ListAccounts`, `FlushBatch`,
`InsertRow`/`SkipRow`, `Commit` and `Respond` are the stretches of the handler
between awaits, in order, with its 413/422/404 as the step to `refused`.
`INSERT ... ON CONFLICT DO NOTHING` is *one row per step*: PostgreSQL takes the
rows one at a time, and a conflict with an uncommitted row of another
transaction is a wait (`WaitsFor`), with a committed or own row a skip. A cycle of
waits is broken by aborting a member (`AbortVictim`). `Abort` may happen at any
await. The batch is flushed (`FlushBatch` stores `NewBatch`) before its rows, and
`Rollback` takes it away with them; until the commit no other transaction sees it.
`dedup_hash` is abstract: `op` stands for minute, amount, currency and
normalised description, and SHA-256 is taken to be injective. An `INSERT` that
cannot be sent fails with all its rows (`Sendable`): `StatementTooLarge` is the
driver's limit of 32767 parameters in a statement, and the constant `Oversized`
names operations with a number too wide for its column.

**BatchSummary.** The handler's two statements are two steps, each seeing what is
committed when it starts and only what row level security shows the household.

**Attribution.** `Lines` are source rows, `Before` is `_sort_key`, `Fits` is
`_fits` against the chain as it stands, including the lines attributed so far.
One action per verdict of the loop. `owner` is the truth the statement does not
show; no action reads it.

**OverlappingStatements.** A series of exports of one history goes through
`Attribution` and is then stored under the key (account, operation).

**Transfers.** One step per outgoing row, in the order of the sorted list.
`Closest` is the scan of the bucket, which accepts `delta <= best_delta` and so
prefers the last of equally close candidates.

**Login.** One step per statement of `get_principal`, of the invitation and of
the seed, and one for the headers, whose answers of 401, 500 and 501 follow from
`settings`. An `INSERT` waits while another transaction holds the unique key
(`Waits`) and fails when it is committed (`Taken`, `Conflict`). `users.email` is
CITEXT: spellings of a mailbox are one key (`SameKey`), while a `SELECT` may or may
not find another spelling, which depends on how the driver sends the parameter
(`FindUser` and `NoUser` are both enabled then). Whether a token is genuine is a
choice of the environment. `users.deleted_at` is left out: no code sets it. So is
the 403 of a user without a household, which cannot happen while
`NobodyHalfRegistered` holds; `EveryLoginEnds` would fail if it could.

As a `Registration`, a user is the person whose mailbox it has, a membership says
who lives where, and an identity is a login. A commit is the step, whatever came
before it; everything else is a stutter.

**Sessions.** `Open` checks a connection out and sends `BEGIN` and
`set_config(..., true)`; `Release` ends the transaction, which discards the
parameters. `Visible`, `VisibleMembers` and `MayInsert` are the policies. The
handlers' statements go through them with the parameters *of the connection*,
not with those of the request. A session can end by its commit, by a rollback at
any await (`Abort`), and by a connection that breaks when the database has
committed already (`LoseCommit`). `readyz` catches whatever its session raises: it
answers "degraded" when the pool has no connection for it or the connection is
broken (`ProbeFails`). Registration is `Login`'s.

As a `TenantStore`, a request is answered once what it inserted is committed: a
handler takes effect when it reads, except for a creation, which takes effect
when it commits.

**StatementReading.** A row is known by its kind: blank, a title, one of the headers or
one of the operations, which are constants. A header (`Titles`) is any sequence of
columns. An operation (`Operations`) says how many cells its row has, which of them are
empty or unreadable, and whether its text mentions an MCC. A filled cell is known by the
title it was printed under, so that a value read from another column shows; what is not
filled is `"nothing"`. Hints are sets of titles, since a hint is any part of one.
`DecodingsOf` are the outcomes of `decode_statement`: a letter of `_MOJIBAKE` in UTF-8
leads to another encoding, whose choice a statistical detector may make in any way. A
file with the signature of a ZIP that is no book ends as `corrupt`. One step per row of
the parse loop.

**Dedup.** A character stands for its kind (letter in both cases, digit, blank,
sign that NFKC takes apart, punctuation). The digest is the tuple it is made of.
`Words` says what a reader takes from a text and is no part of the code: the
properties compare the key with it.

**Reconcile.** One step per file collected, per account whose chain is followed,
per entry looked up. `GiveUp` is the end of the script when nothing was
collected or a file cannot be read, whether `main` catches what
is raised or, when no encoding fits, the `ValueError` ends the script. A row carries the amount the bank charged beside the one that
was read, so that a misreading is visible to the properties. `Transfers` is what
the script does next.

**Money.** The text is a sequence of characters, since the properties are about the
conversion; each stage of `parse_amount` is an operator (`Strip` to `OnePoint`), most
of them keeping the characters at some places (`Picked`). `Decimal` is its digits as a
number and how many stand behind the point. `Rounded` is Python's decimal context:
`scaleb` and the negation keep `Precision` significant digits, 28 in the program, and
round the rest to half even. `MCMoney` prints amounts the way statements do and so is
the reference: reading must undo printing. `Means` says what a text means without
printing it; that this is so of every text `MCMoney` prints and calls clear is the
assumption `ClearTextsMean`, which TLC evaluates.

## 3. The runs

| run | module | bounds | what it shows |
|---|---|---|---|
| `import_tenants` | BatchSummary | 2 uploads, 2 households, 2 cards, 8 files of up to 3 rows, at most 2 rows in a statement, one operation too wide for its column, one summary asked for | no duplicates, nothing lost, exact reports, no trace of failures, rows in their accounts, re-uploads insert nothing, a summary is true |
| `import_ring` | ImportService | 3 uploads that can wait in a ring, or have too many rows | every upload ends; rows only by commit; refinement of `Ledger` |
| `overlap` | OverlappingStatements | every truthful history of 4 operations of 2 cards, 1–3 cards and at most 1 balance hidden, in one statement or in two that overlap, the first again | chains stay whole, nothing is misattributed, statements never contradict each other, a re-upload adds nothing |
| `overlap_once` | OverlappingStatements | as `overlap` | **finding**: an operation attributed in one statement and left unresolved in another is stored twice, once under the default account |
| `transfers` | Transfers | every list of 5 rows in 2 accounts, window 2, times 0..3 | matched once, none overlooked that is nearer than the window, totals true |
| `login` | Login | 2 requests, an invitation and a seed of 2 people, one in two spellings, 6 settings | no half registration, principals are members, every login ends, refinement of `Registration` |
| `sessions` | Sessions | 2 requests, a pool of 1 or of 2 connections, 2 people who share a household | isolation, no leak through the pool, what was answered is stored, every request is served, refinement of `TenantStore` |
| `reading` | StatementReading | every file of up to 2 rows above and 3 below one of 7 headers (both banks', others with their columns turned, one without a description, two that mix columns of both), 7 kinds of operations, two headers or an operation above or between the headers, books of two sheets; limits 2 and 3 in place of 15 and 20 | no row disappears, source rows lead back, cells are read from their columns, the bank of the header |
| `reading_cover` | StatementReading | as `reading` | **finding**: a book with an empty cover sheet is refused as empty |
| `reconcile` | Reconcile | histories of 4 operations, 2 cards or none printed, any amounts misread, 5 ways of handing them over, reprinted in another manner | breaks are the misread rows; collisions are the operations that repeat |
| `reconcile_overlap` | Reconcile | two overlapping statements of 4 operations | **finding**: the chain breaks although every amount was read as charged |
| `money` | Money | 13 amounts of up to 7 digits and one of 9, a decimal context of 7 digits, 3 exponents, 6 signs, 5 separators, 3 fractions; all texts of up to 4 characters of 8, and of 5 of 5 | clear texts are accepted and read as meant, digits kept, what is shown reads back |

**Why the bounds are enough.** Two uploads already race in every way two can, and
three are needed for a ring of waits that is not a pair. Files of `import_tenants` hold every
relation of rows that the key tells apart: a duplicate in the file, overlap in
either order, rows with and without a card, more rows than a statement takes, a
row that cannot be stored. One summary is enough, since summaries change nothing.
`_fits` looks at one neighbour on each side, so four rows hold an orphan, both its
neighbours and a row of the other chain in between. In `Transfers` the order of
the list only breaks ties of time, so lists in order of time with every
distribution of ties are all lists; five rows give an outgoing row two
candidates and a rival. Two requests give a winner and a loser of a race, and the
invitation and the seed each a rival that registers in a manner of its own; what
holds for more of them is proved. A pool of one connection is the tightest; with
two a connection changes hands while the other is in use. In `StatementReading`
the limits of 15 and 20 rows are constants, so small ones put a header inside,
between and beyond them; three rows below it are one of each of the kinds that
can displace one another. A row of `Reconcile` is compared with one neighbour;
four rows are two pairs in two files. Seven digits are three groups, and a
fraction has at most three digits; with a context of seven digits the longest amounts
are rounded. `CHECK_DEADLOCK FALSE` is set because requests,
files and loops end.

More differences between the code and its words came up, or hazards that no
promise of the code covers. They have no run of their own; the models do as the code
does:

* `api/deps.py:84-111` looks a user up and inserts it: when two first requests of a
  person race, one ends with an unhandled `IntegrityError` (step `Conflict` of
  `Login`), where `deps.py:5` speaks of an upsert.
* `api/deps.py:129` refuses `dev` outside local in every request (`Misconfigured`),
  where `deps.py:10-11` has the application crash when it starts.
* `db/models.py:45` calls `users.email` a String, where the migration makes it CITEXT:
  a `SELECT` may miss a spelling that the `INSERT` then finds taken.
* `loaders/base.py:50` lets the text of operations take part in the detection of the
  bank: an operation that mentions "mcc" makes a statement of Privat24 unreadable,
  where `base.py:162` speaks of the signature of the header. `ParsedAsItsBank` says that
  it is only refused and never read under its own header as monobank's.
* `csv_loader.py:39` guesses the delimiter from the first line: below a title every
  row of a file with semicolons is skipped, and counted as such.
* `deps.py:156` takes the first membership when no household is named; in which order
  the database returns them is promised nowhere, so any may come first in the models.
* `imports.py:63`: a refused upload leaves no row in `import_batches`, which
  `models.py:118` calls the audit of every upload; the status `failed` is never written.
* `transfers.py:84` pairs rows exactly 24 hours apart; line 16 says less than the
  window. `NoTransferOverlooked` asks for rows that are nearer, and leaves these open.
* `money.py:76-85` looks for brackets before it removes a currency behind them, so that
  `(50,00) UAH` is read as positive, where line 53 calls brackets negative (hence no
  meaning of such texts in `Means`).
* `money.py:95` reads `1,000` as 1, the point and its zeros being exact (hence
  `clear` in `ReadAsMeant`).
* `money.py:112` rounds an amount of more than 28 digits before line 114 compares, so
  that what `money.py:115-116` calls an error passes (hence `Fits` in `ReadAsMeant` and
  `DigitsKept`). No statement has such amounts.

**Fairness.** `FairSpec` of `ImportService`, `Login` and `Sessions` is weak
fairness of `Serve` of each request, invitation and seed: the event loop resumes a
coroutine whose await is done, the database grants a lock whose holder has ended
and breaks cycles (`deadlock_timeout`), and the pool hands out a connection that is
free. Nothing obliges a client to send, a connection to break or the pool to time
out: those steps are outside `Serve`. `Login` needs no breaking of cycles: its
keys are taken in one order, and `EveryLoginEnds` shows that this is enough.

## 4. What is proved

Proofs hold for every value of the constants under the `ASSUME`s of the modules.

* **ImportService.** The inductive invariant joins: the accounts a handler knows
  are real and its household's (`AccountsKnown`); what is pending are rows of the
  file, each of a line already passed (`PendingRows`), stored rows likewise
  (`StoredAreRows`); keys of stored and pending rows are unique across all
  transactions (`KeysUnique`) — stored rows alone are not inductive, since two
  uploads could both hold a key uncommitted; each line passed is stored or
  pending (`LinesCovered`); and what the batch says (`BatchesCount`): the exact counters
  once committed, `NewBatch` while the rows are inserted, nothing otherwise. From it follow
  `TypeOK`, `NoDuplicateRows`, `NothingLost`, `ReportExact`,
  `FailedLeavesNothing`, `RowsInTheirAccounts`, `ReuploadInsertsNothing`,
  `RowsOnlyByCommit`, and `ImplementsLedger`: each step is a step of `Ledger` or
  none, `Commit` being the import. For the re-upload theorem
  `OneSourcePerStatement` relates the rows of two uploads of a statement.
* **BatchSummary.** `SummaryIsTrue`, although the counters and the rows are read in
  two statements: only a committed batch can be seen (`VisibleBatch`), and nothing an
  upload or a new account does reaches a committed batch or its rows
  (`CommittedStays`), so what was read first is still so when the rows are added up
  (`SummaryHolds`).
* **Attribution.** `TypeOK`, `ReportTellsHints`, `ChainsStayWhole` and
  `NeverMisattributed`, for statements of any length. The chain of a card stays
  whole since a line is put between the neighbours it was compared with
  (`FittingKeepsChainWhole`). The properties speak of the order in which the operations
  happened (`Happened`), and that `_sort_key` is this order is a lemma
  (`SortedAsHappened`), where a wrong order would show. In a truthful statement whose cardless lines stand
  alone the owner's chain always fits (`OwnerFits`), so a single candidate is the
  owner. Nearest neighbours exist by `FiniteMinimum`. (`ReportTellsHints`, that the
  report names exactly the lines that got a card, is a theorem only.)
* **OverlappingStatements.** The same three for every statement of a series,
  `NeverContradicted` and `ReuploadAddsNothing`, for series of any length. What
  attribution concludes is put as a fact about the statement and its final hints,
  without the steps of the loop (`Concluded`); `Processed` says that the lines looked
  at are concluded, and precede the rest, so that what a later line is given changes
  no chain an earlier one was compared with (`ChainsKept`). There is only one way to
  conclude everything (`OneConclusion`: consider the first line in which two ways
  differ; both compared it with the same chains), hence a statement uploaded again
  gets the keys it got before (`ImportedStored`). Rows of statements in which attribution
  had a right to be sure are in the account of their owner or the default one
  (`StoredRight`), and by the assumption `OneHistory` statements agree on the owner.
* **Transfers.** `TypeOK`, `EachMatchedOnce`, `NoTransferOverlooked` and
  `BalanceUntouched` for any list and window. `NoTransferOverlooked` asks for rows that
  are strictly nearer than the window, as the documentation does. The strengthening is that outgoing rows
  looked at precede all others (`EarliestFirst`). For `BalanceUntouched` the sums of
  `FiniteInduction` are needed: a sum does not depend on the order in which `CHOOSE`
  takes its elements (`SumTakesOut`), and a pair takes the same from what is left of
  income and of spending (`MatchBalanced`).
* **Money.** `DigitsKept`, `ShownReadsBack` and `ReadAsMeant`, for texts of any length
  with any characters, amounts of any size and every precision of the decimal context.
  The invariant `AmountInv` is small: what was read is what the text reads as, what is
  shown is what was read, printed. The work is in what the functions compute.
  Each is the last value of a recursion along the text or the digits (`PickedRuns`,
  `NumberRuns`, `DecimalsRuns`, `TenRuns`, `RestRuns`, `LengthIs`).
  *Digits kept:* a part of a text that keeps the digits, the last separator and the signs
  between digits has the same number, as many decimals, and no sign less in between
  (`PickedSame`); every stage of parsing takes such a part or swaps separators or dashes
  (`SameAmount`, up to `NormalSame`), and the pattern allows no sign between digits
  (`AllowedSigns`). A scaling that is exact is undone by the power of ten it was made
  with (`ScaledIsWhole`).
  *Reads back:* a number is not rounded when it has few digits but for zeros at its end
  (`Short`); whatever was read is such a number (`ScaledIsShort`), however long the
  text. What is printed of it is a sign or none, digits, and behind a point the digits of the
  fraction (`Layout`, `FormatIsLayout`), parsing changes nothing in that
  (`LayoutIsNormal`), and its digits are the number again (`DigitsCount`).
  *As meant:* a text has a meaning (`Means`) when it has digits, one sign at most and in
  front of them or brackets around it, and when its last separator has digits on both
  sides and differs from all others. Currencies, blanks and apostrophes may stand
  anywhere. Taking characters away keeps the order of what is left (`Comes`), hence
  also all this (`Plain`, `PickedPlain`), and at the end only what the pattern allows
  is there (`BareIsAllowed`), with a minus exactly when one was printed.
  `ReadAsMeant` and the first half of `DigitsKept` hold of what fits the context
  (`Fits`), the others of everything.
* **StatementReading.** `RowsAccounted`, `SourceRowsLeadBack`, `ShownIsRead` and
  `ParsedAsItsBank`, for files of any number of sheets and rows and the limits of the
  code, of which `LimitsAreOrdered` says that a header by which a bank is detected
  (15 rows) is found afterwards (20). The invariant `ReadingInv` says that the rows
  at hand are those of the chosen sheet that are not blank, in their order
  (`Loaded`); that the bank is one the head of the sheet speaks of (`BankKnown`); and
  that each row passed below the header is among the transactions, once and in order,
  or is counted as skipped (`RowsPassed`). The row
  found as the header is one (`HeaderIsOne`), and what is read of a row is decided field
  by field: under a header of one bank's columns a field's hints name one title at most
  (`FieldsOfMono`, `FieldsOfPrivat`), and its cell is what the row shows under that title,
  wherever it stands, or nothing when the row ends before it or leaves it out
  (`CellUnderTitle`, `CellShown`, `TransactionTells`). The claim ends there: of a header that mixes columns of two banks
  `ShownIsRead` says nothing, and `mixedHeader` of the run shows why, since monobank's
  parser takes the currency of the card for that of the operation when it stands first.
* **Reconcile.** `BreaksAreMisreads` and `CollisionsAreRepeats`, for any files.
  `ReconcileInv` says that a report is that of the chain as it was collected
  (`Reported`) and that the collisions counted are the entries looked up whose key an
  earlier one has (`LookedUp`). Over statements of separate periods the sort of the
  script is the order of the history (`SortedAsHistory`), and a row has a neighbour
  before it whenever anything is before it (`JustBefore`), so a break is a misread
  amount. That an equal key means equal words is `TextsKeepWords`, about texts of any
  length: what is shown of a text as it is read is, at every character, the words said
  so far, each behind one blank (`Fits`, `Settled`); `Words` reads them off again
  (`WordsOfLine`), and `strip` and `lower` take nothing of them away
  (`StripsToWords`).
* **Sessions.** `TypeOK`, `NoForeignContext`, `OnlyOwnRowsShown`, `AnsweredIsStored` and
  `ImplementsTenantStore`. The invariant says who holds what: exactly the requests
  in a session hold a connection, one each (`OneConnectionEach`), and a connection
  carries the parameters of its holder's session (`ContextIsHolders`), which makes
  what a policy lets through a fact about the request; a request works with a
  membership of its person (`ActsAsMember`) and what it answers with was prepared
  from rows of that household (`Prepared`); an uncommitted key is nobody else's
  (`KeysFree`), without which two creations could both commit. In the refinement a
  handler's read, a commit, a refusal and a loss are the steps of `TenantStore`.
* **Login.** `TypeOK`, `NobodyHalfRegistered`, `PrincipalIsMember` and
  `ImplementsRegistration`, for any number of requests, invitations and seeds and any
  spellings. What an actor has inserted belongs together when it commits (`Whole`),
  and is its own (`RowsOfActor`, `Working`); references lead somewhere
  (`ReferencesLead`), users differ in mailbox (`UsersDiffer`), and keys of rows of
  different transactions never meet (`KeysFree`), which is where the waiting for
  locks enters. In the refinement `MapsCommit` takes a commit apart by what it
  brings: a registration, an invitation, another login of a known person, or
  nothing of these.

The library's induction theorems quantify over operators, which the installed
provers cannot instantiate. Where a proof is by induction over data, it considers the
least counterexample instead: of a set of numbers (`LeastNatural`, `UpToAll`), of the
parts of a finite set (`SmallestPart`), of an order (`FiniteMinimum`).

Only model-checked: liveness (`EveryUploadEnds`, `EveryLoginEnds`,
`EveryRequestIsServed`), which the prover does not reach; that the texts a statement
prints have the meaning `Means` gives them (`ClearTextsMean`), which the run `money` checks
of all it prints; and the findings, which are counterexamples. Every other property of
a run is a theorem.

## 5. What is not modelled

* Wording of warnings and of errors; dates, beyond the column they stand in; the
  conversion of Excel's cells, which keeps what they say.
* The signature check of the Cloudflare token: whether a token is genuine is a
  choice of the environment.
* `category_rules`, `goals`, `audit_log`, `is_internal_transfer` and
  `users.deleted_at`: no code writes them. `category_for_mcc` has no caller.
* `parsers/encoding.py`, an unused copy of `loaders/encoding.py`.
* What `parsers/cli.py` and `reconcile.py` print beyond the results named above.
* Migrations as processes (they run once, before the service), the declarations of
  `api/schemas.py`, the assembly of the application, deployment.

## 6. What could follow

A fix of each finding would turn its run into a passing one: a sheet without rows passed
over (`FilledBookIsRead`), operations of overlapping files taken once into a chain
(`BreakMeansError`), an operation recognised under the default account (`StoredOnce`). What
the composed series of statements lacks is a balance that the bank corrects afterwards.
