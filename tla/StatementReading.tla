-------------------------- MODULE StatementReading --------------------------
(***************************************************************************)
(* How an uploaded file becomes transactions: the choice of a loader       *)
(* (load_any), of an encoding, of a sheet or a delimiter, of the parser of *)
(* a bank (detect_parser), of the header and its columns, and the loop     *)
(* over the rows below it (parse and _parse_row of both parsers).          *)
(*                                                                         *)
(* A row is known by its kind, which tells what stands in its cells.  A    *)
(* cell that is filled is known by the title of the column it was printed  *)
(* under, so a transaction whose description is "description" was read     *)
(* from the right column; one that is not is "nothing".                    *)
(***************************************************************************)
EXTENDS Integers, Sequences, FiniteSets, FiniteSetsExt

CONSTANTS
    Files,        \* what may be uploaded
    HeadLimit,    \* rows looked at to recognise the bank, 15
    HeaderLimit   \* rows looked at to find the header, 20

ASSUME LimitsArePositive == HeadLimit \in Nat \ {0} /\ HeaderLimit \in Nat \ {0}

\* A header by which a bank is recognised is found afterwards.
ASSUME LimitsAreOrdered == HeadLimit <= HeaderLimit

\* The columns with a title the parsers know, or that stand beside such ones.
Columns ==
    {"dateAndTime", "date", "time", "category", "card", "details", "description", "mcc",
     "cardAmount", "cardCurrency", "operationAmount", "transactionAmount", "currency",
     "transactionCurrency", "rate", "commission", "cashback", "balance", "closingBalance",
     "balanceCurrency"}

\* Those that parse_datetime and parse_amount are applied to.
Parsed == {"dateAndTime", "date", "time", "cardAmount", "operationAmount", "transactionAmount",
           "balance", "closingBalance"}

CONSTANTS
    Titles,       \* the headers: the titles of each from left to right
    Operations    \* the operations: how many cells a row has, which of them are
                  \* empty or unreadable, and whether its text mentions an MCC

HeaderKinds == DOMAIN Titles

OperationKinds == DOMAIN Operations

\* A header may have any columns in any order.
ASSUME TitlesAreTitles ==
    \A h \in HeaderKinds :
        /\ Titles[h] \in Seq(Columns)
        /\ \A i, j \in DOMAIN Titles[h] : Titles[h][i] = Titles[h][j] => i = j

\* A row may end anywhere and have anything left out.
ASSUME OperationsAreRows ==
    \A o \in OperationKinds :
        Operations[o] \in [ends : Nat, gaps : SUBSET Columns, spoiled : SUBSET Parsed, mcc : BOOLEAN]

ASSUME KindsDiffer ==
    HeaderKinds \cap OperationKinds = {} /\ {"blank", "title"} \cap (HeaderKinds \cup OperationKinds) = {}

\* A row is a header, an operation, nothing at all or a title of the bank in
\* one cell.
Kinds == HeaderKinds \cup OperationKinds \cup {"blank", "title"}

Banks == {"mono", "privat"}

\* A sheet, or the whole of a CSV file, which has no name.
Sheets == [named : BOOLEAN, rows : Seq(Kinds)]

ASSUME FilesAreFiles ==
    \A f \in Files : /\ f.format \in {"csv", "xlsx", "archive", "empty", "other"}
                     /\ f.delimiter \in {",", ";"}
                     /\ f.marked \in BOOLEAN  \* UTF-8 with a letter of _MOJIBAKE
                     /\ f.sheets \in Seq(Sheets)
                     /\ f.format = "csv" => Len(f.sheets) = 1

VARIABLES
    file,
    pc,       \* the next step
    rows,     \* the rows the loader kept, by their place in the sheet
    sheet,    \* the place of the sheet the loader has chosen
    split,    \* the delimiter of the file is the one it was split at
    garbled,  \* the text was decoded wrongly
    bank,     \* the parser chosen, at most one
    header,   \* the row of the header, 0 before it is found
    next,     \* the row the loop has come to
    found,    \* the transactions: their source_row and where they stand
    skipped,  \* rows_skipped
    outcome   \* how the upload ended

vars == <<file, pc, rows, sheet, split, garbled, bank, header, next, found, skipped, outcome>>

Outcomes == {"none", "parsed", "unsupported", "corrupt", "undecoded", "empty", "unknown", "headless", "incomplete"}

----------------------------------------------------------------------------
TitlesOf(kind) == IF kind \in HeaderKinds THEN Titles[kind] ELSE <<>>

\* The words of column hints that a row contains.
Words(kind) ==
    IF garbled THEN {}
    ELSE {TitlesOf(kind)[i] : i \in DOMAIN TitlesOf(kind)}
             \cup (IF kind \in OperationKinds /\ Operations[kind].mcc THEN {"mcc"} ELSE {})

KindOf(place) == file.sheets[sheet].rows[place]

\* What head_text is made of.
HeadKinds == {KindOf(rows[i]) : i \in {j \in 1..Len(rows) : j <= HeadLimit}}

HeadWords == UNION {Words(kind) : kind \in HeadKinds}

\* COLUMN_HINTS of the parsers, as the titles that contain one: a hint is any
\* part of them.
ColumnHints ==
    [mono |->
        [datetime |-> {"dateAndTime"}, description |-> {"details", "description"}, mcc |-> {"mcc"},
         amount_account |-> {"cardAmount"}, amount_operation |-> {"operationAmount"},
         currency |-> {"currency", "cardCurrency", "transactionCurrency"},
         balance |-> {"balance", "closingBalance"}],
     privat |->
        [date |-> {"date", "dateAndTime"}, time |-> {"time", "dateAndTime"},
         category |-> {"category"}, card |-> {"card"}, description |-> {"description"},
         amount_account |-> {"cardAmount"}, currency_account |-> {"cardCurrency"},
         amount_operation |-> {"transactionAmount"},
         currency_operation |-> {"transactionCurrency"}, balance |-> {"closingBalance"}]]

\* A bug of the parser: a hint shortened to its stem matches amounts as well.
HintsStemmed(b) ==
    IF b = "mono"
    THEN [ColumnHints.mono EXCEPT !.currency =
             @ \cup {"cardAmount", "operationAmount", "transactionAmount"}]
    ELSE ColumnHints.privat

Hints(b) == ColumnHints[b]

Contains(b, words, fields) == \A f \in fields : Hints(b)[f] \cap words # {}

\* A bug of the parser: the card amount is enough.
MonoSniffShort == "cardAmount" \in HeadWords

MonoSniff == Contains("mono", HeadWords, {"amount_account", "mcc"})

PrivatSniff == Contains("privat", HeadWords, {"currency_account"}) /\ "mcc" \notin HeadWords

\* A bug of the parsers: the column of the card amount is enough of a header.
MarkersOfAmount(b) == {"amount_account"}

\* HEADER_MARKERS of the parsers.
Markers(b) == {IF b = "mono" THEN "datetime" ELSE "date", "amount_account"}

\* REQUIRED, what map_columns does not do without.
Required(b) == Markers(b) \cup {"description"}

HeaderRows(b) ==
    {i \in 1..Len(rows) : i <= HeaderLimit /\ Contains(b, Words(KindOf(rows[i])), Markers(b))}

\* The cells of a row printed under titles t, as the loader leaves them.
Printed(kind, t) ==
    IF kind \in OperationKinds
    THEN LET row == Operations[kind]
         IN  [i \in {j \in DOMAIN t : j <= row.ends} |->
                 IF t[i] \in row.gaps THEN "nothing"
                 ELSE IF t[i] \in row.spoiled THEN "unreadable" ELSE t[i]]
    ELSE <<"title">>

\* What the header says about each column, and what a row has in it: all of
\* it in one when the row was not split.
Header == IF split THEN [i \in DOMAIN Titles[KindOf(rows[header])] |-> {Titles[KindOf(rows[header])][i]}]
          ELSE <<Words(KindOf(rows[header]))>>

Cells(kind) == IF split THEN Printed(kind, Titles[KindOf(rows[header])]) ELSE <<"all">>

\* map_columns: the first column that contains a hint of the field.
ColumnsOf(b, f) == {i \in DOMAIN Header : Header[i] \cap Hints(b)[f] # {}}

Cell(b, kind, f) ==
    IF ColumnsOf(b, f) # {} /\ Min(ColumnsOf(b, f)) \in DOMAIN Cells(kind)
    THEN Cells(kind)[Min(ColumnsOf(b, f))]
    ELSE "nothing"

Or(value, default) == IF value = "nothing" THEN default ELSE value

\* The text given to parse_datetime.
Stamp(b, kind) ==
    IF b = "mono" THEN <<Cell(b, kind, "datetime")>>
    ELSE <<Cell(b, kind, "date")>>
             \o (IF Cell(b, kind, "time") = "nothing" THEN <<>> ELSE <<Cell(b, kind, "time")>>)

\* parse_datetime and parse_amount read what they are given.
Readable(b, kind) ==
    /\ Stamp(b, kind) \in {<<"date">>, <<"date", "time">>, <<"dateAndTime">>}
    /\ Cell(b, kind, "amount_account") = "cardAmount"
    /\ \A f \in {"amount_operation", "balance"} : Cell(b, kind, f) # "unreadable"

\* _parse_row; normalize_card_ref keeps four digits of the card that is shown.
Transaction(b, kind) ==
    LET charged == Cell(b, kind, "amount_account")
        account == IF b = "mono" THEN "UAH" ELSE Or(Cell(b, kind, "currency_account"), "UAH")
    IN  [booked_at |-> Stamp(b, kind),
         amount_account |-> charged,
         amount |-> Or(Cell(b, kind, "amount_operation"), charged),
         account_currency |-> account,
         currency |-> Or(Cell(b, kind, IF b = "mono" THEN "currency" ELSE "currency_operation"), account),
         description |-> Cell(b, kind, "description"),
         counterparty |-> IF b = "mono" THEN "nothing" ELSE Cell(b, kind, "category"),
         balance |-> Cell(b, kind, "balance"),
         mcc |-> IF b = "mono" THEN Cell(b, kind, "mcc") ELSE "nothing",
         account_hint |-> IF b = "mono" THEN "nothing" ELSE Cell(b, kind, "card")]

\* _pick_sheet: the first sheet named like a statement, or the first one.
PickSheet(sheets) ==
    IF \E i \in 1..Len(sheets) : sheets[i].named
    THEN Min({i \in 1..Len(sheets) : sheets[i].named})
    ELSE 1

\* decode_statement: UTF-8 is tried first, then cp1251, each refused when the
\* text has a letter of _MOJIBAKE.  A UTF-8 text with such a letter is read as
\* cp1251 unless it has a byte that is nothing there, else a detector decides.
DecodingsOf(f) == IF f.marked THEN {"right", "wrong", "none"} ELSE {"right"}

\* A row of more than one cell.
Delimited(kind) ==
    \/ kind \in HeaderKinds /\ Len(Titles[kind]) > 1
    \/ kind \in OperationKinds /\ Operations[kind].ends > 1

\* The delimiter is counted in the first line, a comma when there is none.
Detected(f) ==
    IF f.sheets[1].rows # <<>> /\ Delimited(f.sheets[1].rows[1]) THEN f.delimiter ELSE ","

\* The places of the rows that are not blank, from the top: the k-th is the
\* one with k of them down to it.
Kept(kinds) ==
    LET filled == {i \in 1..Len(kinds) : kinds[i] # "blank"}
    IN  [k \in 1..Cardinality(filled) |->
            CHOOSE i \in filled : Cardinality({j \in filled : j <= i}) = k]

----------------------------------------------------------------------------
Init ==
    /\ file \in Files
    /\ pc = "load"
    /\ rows = <<>>
    /\ sheet = 0
    /\ split = TRUE
    /\ garbled = FALSE
    /\ bank = {}
    /\ header = 0
    /\ next = 0
    /\ found = <<>>
    /\ skipped = 0
    /\ outcome = "none"

End(text) ==
    /\ pc' = "end"
    /\ outcome' = text

\* No data, a file that no loader sniffs, or one with the signature of a ZIP
\* that is no book: each is a LoaderError.
Unsupported ==
    /\ pc = "load"
    /\ \/ file.format = "empty" /\ End("empty")
       \/ file.format = "other" /\ End("unsupported")
       \/ file.format = "archive" /\ End("corrupt")
    /\ UNCHANGED <<file, rows, sheet, split, garbled, bank, header, next, found, skipped>>

\* XlsxLoader.load
LoadXlsx ==
    /\ pc = "load" /\ file.format = "xlsx"
    /\ file.sheets # <<>>
    /\ sheet' = PickSheet(file.sheets)
    /\ rows' = Kept(file.sheets[sheet'].rows)
    /\ pc' = "detect"
    /\ UNCHANGED <<file, split, garbled, bank, header, next, found, skipped, outcome>>

\* CsvLoader.load
LoadCsv ==
    /\ pc = "load" /\ file.format = "csv"
    /\ \E text \in DecodingsOf(file) \ {"none"} : garbled' = (text = "wrong")
    /\ sheet' = 1
    /\ rows' = Kept(file.sheets[1].rows)
    /\ split' = (Detected(file) = file.delimiter)
    /\ pc' = "detect"
    /\ UNCHANGED <<file, bank, header, next, found, skipped, outcome>>

\* No encoding fits: ValueError, 422.
Undecodable ==
    /\ pc = "load" /\ file.format = "csv"
    /\ "none" \in DecodingsOf(file)
    /\ End("undecoded")
    /\ UNCHANGED <<file, rows, sheet, split, garbled, bank, header, next, found, skipped>>

\* A book without sheets, a sheet without rows.
LoadNothing ==
    /\ \/ pc = "load" /\ file.format = "xlsx" /\ file.sheets = <<>>
       \/ pc = "detect" /\ rows = <<>>
    /\ End("empty")
    /\ UNCHANGED <<file, rows, sheet, split, garbled, bank, header, next, found, skipped>>

\* detect_parser: the first registered parser that sniffs its bank.
Detect ==
    /\ pc = "detect" /\ rows # <<>>
    /\ \/ MonoSniff /\ bank' = {"mono"}
       \/ ~ MonoSniff /\ PrivatSniff /\ bank' = {"privat"}
    /\ pc' = "find"
    /\ UNCHANGED <<file, rows, sheet, split, garbled, header, next, found, skipped, outcome>>

UnknownFormat ==
    /\ pc = "detect" /\ rows # <<>>
    /\ ~ MonoSniff /\ ~ PrivatSniff
    /\ End("unknown")
    /\ UNCHANGED <<file, rows, sheet, split, garbled, bank, header, next, found, skipped>>

\* find_header and map_columns
FindHeader ==
    /\ pc = "find"
    /\ \E b \in bank :
          /\ HeaderRows(b) # {}
          /\ header' = Min(HeaderRows(b))
          /\ Contains(b, Words(KindOf(rows[header'])), Required(b))
    /\ next' = header' + 1
    /\ pc' = "read"
    /\ UNCHANGED <<file, rows, sheet, split, garbled, bank, found, skipped, outcome>>

NoHeader ==
    /\ pc = "find"
    /\ \A b \in bank : HeaderRows(b) = {}
    /\ End("headless")
    /\ UNCHANGED <<file, rows, sheet, split, garbled, bank, header, next, found, skipped>>

MissingColumns ==
    /\ pc = "find"
    /\ \E b \in bank : HeaderRows(b) # {} /\ ~ Contains(b, Words(KindOf(rows[Min(HeaderRows(b))])), Required(b))
    /\ End("incomplete")
    /\ UNCHANGED <<file, rows, sheet, split, garbled, bank, header, next, found, skipped>>

\* A bug of the parser: enumerate starts one row too early.
ReadRowOffByOne ==
    /\ pc = "read" /\ next <= Len(rows)
    /\ \E b \in bank :
          /\ Readable(b, KindOf(rows[next]))
          /\ found' = Append(found, [source_row |-> next - 1, place |-> rows[next],
                                    tx |-> Transaction(b, KindOf(rows[next]))])
    /\ next' = next + 1
    /\ UNCHANGED <<file, pc, rows, sheet, split, garbled, bank, header, skipped, outcome>>

\* A row becomes a transaction.
ReadRow ==
    /\ pc = "read" /\ next <= Len(rows)
    /\ \E b \in bank :
          /\ Readable(b, KindOf(rows[next]))
          /\ found' = Append(found, [source_row |-> next, place |-> rows[next],
                                    tx |-> Transaction(b, KindOf(rows[next]))])
    /\ next' = next + 1
    /\ UNCHANGED <<file, pc, rows, sheet, split, garbled, bank, header, skipped, outcome>>

\* A bug of the parser: the try is around the loop, not in it.
StopAtRow ==
    /\ pc = "read" /\ next <= Len(rows)
    /\ \A b \in bank : ~ Readable(b, KindOf(rows[next]))
    /\ skipped' = skipped + 1
    /\ next' = Len(rows) + 1
    /\ UNCHANGED <<file, pc, rows, sheet, split, garbled, bank, header, found, outcome>>

\* A row that raises is counted, and the next one is read.
SkipRow ==
    /\ pc = "read" /\ next <= Len(rows)
    /\ \A b \in bank : ~ Readable(b, KindOf(rows[next]))
    /\ skipped' = skipped + 1
    /\ next' = next + 1
    /\ UNCHANGED <<file, pc, rows, sheet, split, garbled, bank, header, found, outcome>>

Finish ==
    /\ pc = "read" /\ next > Len(rows)
    /\ End("parsed")
    /\ UNCHANGED <<file, rows, sheet, split, garbled, bank, header, next, found, skipped>>

Next ==
    \/ Unsupported \/ LoadXlsx \/ LoadCsv \/ Undecodable \/ LoadNothing \/ Detect \/ UnknownFormat
    \/ FindHeader \/ NoHeader \/ MissingColumns \/ ReadRow \/ SkipRow \/ Finish

Spec == Init /\ [][Next]_vars

----------------------------------------------------------------------------
\* What a row shows under the header that was found.
Shows(kind) ==
    {Printed(kind, Titles[KindOf(rows[header])])[i] :
        i \in DOMAIN Printed(kind, Titles[KindOf(rows[header])])} \ {"nothing"}

\* The columns of a bank, as listed in mono.py:5-7 and privat.py:5-7, and the
\* time that PrivatParser has a hint for.
BankColumns(b) ==
    IF b = "mono"
    THEN {"dateAndTime", "details", "mcc", "cardAmount", "operationAmount", "currency", "rate",
          "commission", "cashback", "balance"}
    ELSE {"date", "time", "category", "card", "description", "cardAmount", "cardCurrency",
          "transactionAmount", "transactionCurrency", "closingBalance", "balanceCurrency"}

\* The headers of a bank: some of its columns and no others, in any order,
\* among them those that are required and that by which it is told apart.
HeadersOf(b) ==
    {h \in HeaderKinds :
        LET titles == {Titles[h][i] : i \in DOMAIN Titles[h]}
        IN  /\ titles \subseteq BankColumns(b)
            /\ IF b = "mono" THEN {"dateAndTime", "details", "cardAmount", "mcc"} \subseteq titles
               ELSE {"date", "description", "cardAmount", "cardCurrency"} \subseteq titles}

UnderItsHeader == \A b \in bank : KindOf(rows[header]) \in HeadersOf(b)

\* It shows when something happened and what the card was charged, and nothing
\* in it is unreadable.
IsOperation(kind) ==
    /\ split
    /\ {"cardAmount", IF bank = {"mono"} THEN "dateAndTime" ELSE "date"} \subseteq Shows(kind)
    /\ "unreadable" \notin Shows(kind)

\* Below the header no row of the sheet gets lost without a trace: each becomes
\* a transaction or counts in rows_skipped, wherever blank and unreadable rows
\* stand between (mono.py:71-76), and under a header of the bank it is the
\* operations that become transactions.
RowsAccounted ==
    outcome = "parsed" =>
        LET below == {i \in DOMAIN file.sheets[sheet].rows :
                         i > rows[header] /\ KindOf(i) # "blank"}
        IN  /\ Len(found) + skipped = Cardinality(below)
            /\ UnderItsHeader => {found[i].place : i \in DOMAIN found} = {i \in below : IsOperation(KindOf(i))}

\* source_row leads to the row a transaction was read from, and transactions
\* that stand one below the other have growing ones: _sort_key orders
\* operations of the same minute by it (attribution.py:55-58).
SourceRowsLeadBack ==
    /\ \A i \in DOMAIN found : /\ found[i].source_row \in DOMAIN rows
                               /\ rows[found[i].source_row] = found[i].place
    /\ \A i, j \in DOMAIN found : i < j => found[i].source_row < found[j].source_row

\* What a transaction says of a row that shows these titles.
TellsWhatIsShown(tx, shown) ==
    LET First(titles, default) ==
            IF titles[1] \in shown THEN titles[1]
            ELSE IF titles[2] \in shown THEN titles[2] ELSE default
    IN  /\ tx.booked_at = IF "time" \in shown THEN <<"date", "time">>
                          ELSE <<First(<<"date", "dateAndTime">>, "nothing")>>
        /\ tx.amount_account = "cardAmount"
        /\ tx.amount = First(<<"operationAmount", "transactionAmount">>, "cardAmount")
        /\ tx.account_currency = First(<<"cardCurrency", "cardCurrency">>, "UAH")
        /\ tx.currency = IF "currency" \in shown THEN "currency"
                         ELSE First(<<"transactionCurrency", "cardCurrency">>, "UAH")
        /\ tx.description = First(<<"details", "description">>, "nothing")
        /\ tx.counterparty = First(<<"category", "category">>, "nothing")
        /\ tx.balance = First(<<"balance", "closingBalance">>, "nothing")
        /\ tx.mcc = First(<<"mcc", "mcc">>, "nothing")
        /\ tx.account_hint = First(<<"card", "card">>, "nothing")

\* Nothing that was decoded wrongly is taken (encoding.py:3-7).  Under a header
\* of the bank, whichever of its columns it has and in whatever order, a
\* transaction carries what its row shows, wherever the row ends and whatever
\* it leaves out: nothing is read from another column, what is missing is left
\* open or is the hryvnia or the amount of the card.  Of a header with columns
\* of another bank nothing is said: "currency" is the first column with that
\* word in its title (mono.py:45, base.py:129-135), and were the currency of
\* the card printed before it, that would be read.
ShownIsRead ==
    \A i \in DOMAIN found :
        /\ ~ garbled
        /\ UnderItsHeader => TellsWhatIsShown(found[i].tx, Shows(KindOf(found[i].place)))

\* A statement with the header of a bank among its first HeadLimit rows and no
\* other bank's there is parsed as one of this bank, wherever in the book it is.
\* A letter that looks like a wrong decoding can make it unknown, not another's.
\* An operation that mentions an MCC hands a statement of Privat24 to the parser
\* of monobank (head_text holds the operations, too, base.py:48-50), but only to
\* be refused there: it is never read under its own header as monobank's.
ParsedAsItsBank ==
    \A b \in Banks :
        /\ outcome # "none" /\ sheet # 0
        /\ HeadKinds \cap HeaderKinds # {}
        /\ HeadKinds \cap HeaderKinds \subseteq HeadersOf(b)
        => \/ outcome = "parsed" /\ bank = {b}
           \/ file.marked /\ outcome = "unknown"
           \/ /\ b = "privat" /\ \E o \in HeadKinds \cap OperationKinds : Operations[o].mcc
              /\ outcome = "parsed" => header > HeadLimit

\* "... the first sheet that is not empty, not blindly [0]: the first one may
\* be a cover" (xlsx_loader.py:88-89): a book with rows in some sheet is read.
FilledBookIsRead ==
    file.format = "xlsx" /\ (\E i \in DOMAIN file.sheets : Kept(file.sheets[i].rows) # <<>>)
        => outcome # "empty"

=============================================================================
