----------------------- MODULE StatementReadingProofs -----------------------
(***************************************************************************)
(* Proofs about StatementReading for any file, of any number of sheets and *)
(* rows, with any headers and operations: below the header no row gets     *)
(* lost, each transaction leads back to its row and, under a header of the *)
(* bank, carries what the row shows, and a statement with the header of a  *)
(* bank is parsed as one of this bank.                                     *)
(***************************************************************************)
EXTENDS StatementReading, FiniteInduction, SequenceTheorems

----------------------------------------------------------------------------
(* Titles, and what a row printed under them shows. *)

\* The titles of a header.
TitlesIn(h) == {Titles[h][i] : i \in DOMAIN Titles[h]}

LEMMA TitlesDiffer ==
    ASSUME NEW h \in HeaderKinds
    PROVE  /\ Titles[h] \in Seq(Columns) /\ TitlesIn(h) \subseteq Columns
           /\ \A i, j \in DOMAIN Titles[h] : Titles[h][i] = Titles[h][j] => i = j
BY TitlesAreTitles DEF TitlesIn

\* The words that stand for another content are no columns.
LEMMA WordsApart == {"nothing", "title", "unreadable", "all"} \cap Columns = {}
BY DEF Columns

LEMMA HeadersOfBanks ==
    ASSUME NEW b \in Banks, NEW h \in HeadersOf(b)
    PROVE  /\ h \in HeaderKinds /\ TitlesIn(h) \subseteq BankColumns(b)
           /\ Contains(b, TitlesIn(h), Required(b))
           /\ b = "mono" => {"cardAmount", "mcc"} \subseteq TitlesIn(h) /\ "cardCurrency" \notin TitlesIn(h)
           /\ b = "privat" => {"cardAmount", "cardCurrency"} \subseteq TitlesIn(h) /\ "mcc" \notin TitlesIn(h)
<1>1. h \in HeaderKinds /\ TitlesIn(h) \subseteq BankColumns(b)
  BY DEF HeadersOf, TitlesIn
<1>2. CASE b = "mono"
  <2>1. {"dateAndTime", "details", "cardAmount", "mcc"} \subseteq TitlesIn(h)
    BY <1>2 DEF HeadersOf, TitlesIn
  <2> QED  BY <1>1, <1>2, <2>1 DEF Contains, Required, Markers, Hints, ColumnHints, BankColumns
<1>3. CASE b = "privat"
  <2>1. {"date", "description", "cardAmount", "cardCurrency"} \subseteq TitlesIn(h)
    BY <1>3 DEF HeadersOf, TitlesIn
  <2> QED  BY <1>1, <1>3, <2>1 DEF Contains, Required, Markers, Hints, ColumnHints, BankColumns
<1> QED  BY <1>2, <1>3 DEF Banks

\* The cells of an operation hold what the header says of them, or nothing, or
\* what cannot be read.
LEMMA OperationPrinted ==
    ASSUME NEW t, NEW kind \in OperationKinds
    PROVE  LET p == Printed(kind, t)
           IN  /\ DOMAIN p \subseteq DOMAIN t
               /\ \A i \in DOMAIN p : \/ p[i] \in {t[i], "nothing"}
                                      \/ p[i] = "unreadable" /\ t[i] \in Parsed
<1>1. Operations[kind].spoiled \subseteq Parsed
  BY OperationsAreRows
<1> QED  BY <1>1 DEF Printed

\* The other rows show a title.
LEMMA OtherPrinted ==
    ASSUME NEW t, NEW kind \in Kinds \ OperationKinds
    PROVE  Printed(kind, t) = <<"title">>
BY DEF Printed

\* What stands under a field is what is printed in one of its columns.
LEMMA CellIsPrinted ==
    ASSUME split, KindOf(rows[header]) \in HeaderKinds, NEW b, NEW f, NEW kind
    PROVE  LET t == Titles[KindOf(rows[header])]
               p == Printed(kind, t)
           IN  \/ /\ Cell(b, kind, f) = "nothing"
                  /\ \A i \in DOMAIN t : t[i] \notin Hints(b)[f]
               \/ \E i \in DOMAIN t : /\ t[i] \in Hints(b)[f]
                                      /\ Cell(b, kind, f) = IF i \in DOMAIN p THEN p[i] ELSE "nothing"
<1> DEFINE t == Titles[KindOf(rows[header])]
           p == Printed(kind, t)
           C == ColumnsOf(b, f)
<1>1. Header = [i \in DOMAIN t |-> {t[i]}] /\ Cells(kind) = p
  BY DEF Header, Cells
<1>2. C = {i \in DOMAIN t : t[i] \in Hints(b)[f]}
  BY <1>1 DEF ColumnsOf
<1>3. CASE C = {}
  BY <1>2, <1>3 DEF Cell
<1>4. CASE C # {}
  <2>1. C \in SUBSET Nat
    BY <1>2, TitlesDiffer
  <2> HIDE DEF C
  <2>2. PICK m \in C : \A n \in C : m <= n
    BY <1>4, <2>1, LeastNatural
  <2>3. Min(C) \in C
    BY <2>2 DEF Min
  <2>4. Cell(b, kind, f) = IF Min(C) \in DOMAIN p THEN p[Min(C)] ELSE "nothing"
    BY <1>1, <1>4 DEF Cell, C
  <2> QED  BY <1>2, <2>3, <2>4
<1> QED  BY <1>3, <1>4

\* A row that was not split is read as one cell, which says nothing a parser
\* understands.
LEMMA CellUnsplit ==
    ASSUME ~ split, NEW b, NEW f, NEW kind
    PROVE  Cell(b, kind, f) \in {"all", "nothing"}
<1>1. Header = <<Words(KindOf(rows[header]))>> /\ Cells(kind) = <<"all">>
  BY DEF Header, Cells
<1>2. ColumnsOf(b, f) \subseteq {1}
  BY <1>1 DEF ColumnsOf
<1>3. ColumnsOf(b, f) = {1} => Min(ColumnsOf(b, f)) = 1
  BY DEF Min
<1> QED  BY <1>1, <1>2, <1>3 DEF Cell

\* Among the columns of a bank a field is in the one with this title.
OneColumn(b, f, title) == title \in Columns /\ Hints(b)[f] \cap BankColumns(b) = {title}

LEMMA FieldsOfMono ==
    /\ OneColumn("mono", "datetime", "dateAndTime") /\ OneColumn("mono", "description", "details")
    /\ OneColumn("mono", "mcc", "mcc") /\ OneColumn("mono", "amount_account", "cardAmount")
    /\ OneColumn("mono", "amount_operation", "operationAmount")
    /\ OneColumn("mono", "currency", "currency") /\ OneColumn("mono", "balance", "balance")
BY DEF OneColumn, Columns, BankColumns, Hints, ColumnHints

LEMMA FieldsOfPrivat ==
    /\ OneColumn("privat", "date", "date") /\ OneColumn("privat", "time", "time")
    /\ OneColumn("privat", "category", "category") /\ OneColumn("privat", "card", "card")
    /\ OneColumn("privat", "description", "description")
    /\ OneColumn("privat", "amount_account", "cardAmount")
    /\ OneColumn("privat", "currency_account", "cardCurrency")
    /\ OneColumn("privat", "amount_operation", "transactionAmount")
    /\ OneColumn("privat", "currency_operation", "transactionCurrency")
    /\ OneColumn("privat", "balance", "closingBalance")
BY DEF OneColumn, Columns, BankColumns, Hints, ColumnHints

\* Under a header of the bank the cell of such a field is the one printed under
\* the title, wherever that is.
LEMMA CellUnderTitle ==
    ASSUME split, NEW b \in Banks, KindOf(rows[header]) \in HeadersOf(b),
           NEW f, NEW title, OneColumn(b, f, title), NEW kind
    PROVE  LET t == Titles[KindOf(rows[header])]
               p == Printed(kind, t)
           IN  /\ \A i \in DOMAIN t : t[i] = title =>
                     Cell(b, kind, f) = IF i \in DOMAIN p THEN p[i] ELSE "nothing"
               /\ (\A i \in DOMAIN t : t[i] # title) => Cell(b, kind, f) = "nothing"
<1> DEFINE t == Titles[KindOf(rows[header])]
           p == Printed(kind, t)
<1>1. KindOf(rows[header]) \in HeaderKinds /\ \A i \in DOMAIN t : t[i] \in BankColumns(b)
  BY HeadersOfBanks DEF TitlesIn
<1>2. \A i \in DOMAIN t : t[i] \in Hints(b)[f] <=> t[i] = title
  BY <1>1 DEF OneColumn
<1>3. \A i, j \in DOMAIN t : t[i] = t[j] => i = j
  BY <1>1, TitlesDiffer
<1>4. \/ Cell(b, kind, f) = "nothing" /\ \A i \in DOMAIN t : t[i] \notin Hints(b)[f]
      \/ \E i \in DOMAIN t : /\ t[i] \in Hints(b)[f]
                             /\ Cell(b, kind, f) = IF i \in DOMAIN p THEN p[i] ELSE "nothing"
  BY <1>1, CellIsPrinted
<1> HIDE DEF t, p
<1>5. /\ \A i \in DOMAIN t : t[i] = title =>
            Cell(b, kind, f) = IF i \in DOMAIN p THEN p[i] ELSE "nothing"
      /\ (\A i \in DOMAIN t : t[i] # title) => Cell(b, kind, f) = "nothing"
  BY <1>2, <1>3, <1>4
<1> QED  BY <1>5 DEF t, p

IfShown(kind, title) == IF title \in Shows(kind) THEN title ELSE "nothing"

\* So it has what the row shows under the title, unless that is unreadable.
LEMMA CellShown ==
    ASSUME split, NEW b \in Banks, KindOf(rows[header]) \in HeadersOf(b),
           NEW f, NEW title, OneColumn(b, f, title), NEW kind \in OperationKinds
    PROVE  /\ Cell(b, kind, f) = title <=> title \in Shows(kind)
           /\ "unreadable" \notin Shows(kind) => Cell(b, kind, f) = IfShown(kind, title)
<1> DEFINE t == Titles[KindOf(rows[header])]
           p == Printed(kind, t)
           c == Cell(b, kind, f)
<1>1. /\ \A i \in DOMAIN t : t[i] = title => c = IF i \in DOMAIN p THEN p[i] ELSE "nothing"
      /\ (\A i \in DOMAIN t : t[i] # title) => c = "nothing"
  BY CellUnderTitle
<1>2. /\ DOMAIN p \subseteq DOMAIN t
      /\ \A i \in DOMAIN p : p[i] \in {t[i], "nothing", "unreadable"}
  BY OperationPrinted
<1>3. title \notin {"nothing", "unreadable"}
  BY WordsApart DEF OneColumn
<1>4. \A w : w \in Shows(kind) <=> w # "nothing" /\ \E i \in DOMAIN p : p[i] = w
  BY DEF Shows
<1> HIDE DEF t, p, c
<1>5. CASE \A i \in DOMAIN t : t[i] # title
  BY <1>1, <1>2, <1>3, <1>4, <1>5 DEF IfShown, c
<1>6. ASSUME NEW i \in DOMAIN t, t[i] = title
      PROVE  /\ c = title <=> title \in Shows(kind)
             /\ "unreadable" \notin Shows(kind) => c = IfShown(kind, title)
  <2>1. c = IF i \in DOMAIN p THEN p[i] ELSE "nothing"
    BY <1>1, <1>6
  <2>2. title \in Shows(kind) => i \in DOMAIN p /\ p[i] = title
    <3>1. ASSUME NEW j \in DOMAIN p, p[j] = title PROVE j = i
      <4>1. t[j] = title /\ j \in DOMAIN t
        BY <1>2, <1>3, <3>1
      <4>2. \A k, l \in DOMAIN t : t[k] = t[l] => k = l
        BY HeadersOfBanks, TitlesDiffer DEF t
      <4> QED  BY <1>6, <4>1, <4>2
    <3> QED  BY <1>4, <3>1
  <2>3. c = title => title \in Shows(kind)
    BY <1>3, <1>4, <2>1
  <2>4. c \in {title, "nothing", "unreadable"} /\ (c = "unreadable" => c \in Shows(kind))
    BY <1>2, <1>4, <1>6, <2>1
  <2> QED  BY <2>1, <2>2, <2>3, <2>4 DEF IfShown
<1> QED  BY <1>5, <1>6 DEF c

\* What is unreadable stands under one of the titles that are parsed.
LEMMA UnreadableCell ==
    ASSUME split, NEW b \in Banks, KindOf(rows[header]) \in HeadersOf(b),
           NEW kind \in OperationKinds, "unreadable" \in Shows(kind)
    PROVE  \E title \in Parsed \cap BankColumns(b) :
              \A f : OneColumn(b, f, title) => Cell(b, kind, f) = "unreadable"
<1> DEFINE t == Titles[KindOf(rows[header])]
           p == Printed(kind, t)
<1>1. PICK i \in DOMAIN p : p[i] = "unreadable"
  BY DEF Shows
<1>2. KindOf(rows[header]) \in HeaderKinds /\ \A j \in DOMAIN t : t[j] \in BankColumns(b) /\ t[j] \in Columns
  <2>1. /\ KindOf(rows[header]) \in HeaderKinds
        /\ TitlesIn(KindOf(rows[header])) \subseteq BankColumns(b)
    BY HeadersOfBanks
  <2>2. TitlesIn(KindOf(rows[header])) \subseteq Columns
    BY <2>1, TitlesDiffer
  <2> QED  BY <2>1, <2>2 DEF TitlesIn
<1>3. i \in DOMAIN t
  BY OperationPrinted
<1>4. t[i] \in Parsed
  <2>1. t[i] # "unreadable"
    BY <1>2, <1>3, WordsApart
  <2> QED  BY <1>1, <2>1, OperationPrinted
<1>5. ASSUME NEW f, OneColumn(b, f, t[i]) PROVE Cell(b, kind, f) = "unreadable"
  BY <1>1, <1>3, <1>5, CellUnderTitle
<1> QED  BY <1>2, <1>3, <1>4, <1>5

LEMMA Pairs == ASSUME NEW x, NEW y PROVE <<x>> \o <<y>> = <<x, y>>
<1> DEFINE S == {x, y}
           s == <<x>>
           t == <<y>>
           u == <<x, y>>
<1>1. /\ s \in Seq(S) /\ Len(s) = 1 /\ s[1] = x
      /\ t \in Seq(S) /\ Len(t) = 1 /\ t[1] = y
      /\ u \in Seq(S) /\ Len(u) = 2 /\ u[1] = x /\ u[2] = y
  OBVIOUS
<1> HIDE DEF S, s, t, u
<1>2. s \o t \in Seq(S) /\ Len(s \o t) = 2 /\ (s \o t)[1] = x /\ (s \o t)[2] = y
  BY <1>1, ConcatProperties
<1>3. \A i \in 1..2 : (s \o t)[i] = u[i]
  BY <1>1, <1>2
<1>4. s \o t = u
  BY <1>1, <1>2, <1>3, SeqEqual
<1> QED  BY <1>4 DEF s, t, u

\* What the parser of the bank can read is what shows an operation.
LEMMA OperationsAreReadable ==
    ASSUME NEW b \in Banks, bank = {b}, KindOf(rows[header]) \in HeadersOf(b),
           NEW kind \in Kinds, kind # "blank"
    PROVE  Readable(b, kind) <=> IsOperation(kind)
<1>1. CASE ~ split
  <2>1. Cell(b, kind, "amount_account") # "cardAmount"
    BY <1>1, CellUnsplit
  <2> QED  BY <1>1, <2>1 DEF Readable, IsOperation
<1>2. KindOf(rows[header]) \in HeaderKinds
  BY HeadersOfBanks
<1>3. CASE split /\ kind \notin OperationKinds
  <2>1. Printed(kind, Titles[KindOf(rows[header])]) = <<"title">>
    BY <1>3, OtherPrinted
  <2>2. \A w : w \in Shows(kind) => w = "title"
    BY <2>1 DEF Shows
  <2>3. Cell(b, kind, "amount_account") # "cardAmount"
    BY <1>2, <1>3, <2>1, CellIsPrinted
  <2> QED  BY <2>2, <2>3 DEF Readable, IsOperation
<1>4. CASE split /\ kind \in OperationKinds /\ "unreadable" \in Shows(kind)
  <2>1. PICK title \in Parsed \cap BankColumns(b) :
            \A f : OneColumn(b, f, title) => Cell(b, kind, f) = "unreadable"
    BY <1>4, UnreadableCell
  <2>2. CASE b = "mono"
    <3>1. title \in {"dateAndTime", "cardAmount", "operationAmount", "balance"}
      BY <2>1, <2>2 DEF Parsed, BankColumns
    <3>2. \E f \in {"datetime", "amount_account", "amount_operation", "balance"} :
              Cell(b, kind, f) = "unreadable"
      BY <2>1, <2>2, <3>1, FieldsOfMono
    <3> QED  BY <1>4, <2>2, <3>2 DEF Readable, Stamp, IsOperation
  <2>3. CASE b = "privat"
    <3>1. title \in {"date", "time", "cardAmount", "transactionAmount", "closingBalance"}
      BY <2>1, <2>3 DEF Parsed, BankColumns
    <3>2. CASE title = "date"
      <4>1. Cell(b, kind, "date") = "unreadable"
        BY <2>1, <2>3, <3>2, FieldsOfPrivat
      <4>2. CASE Cell(b, kind, "time") = "nothing"
        BY <1>4, <2>3, <4>1, <4>2 DEF Stamp, Readable, IsOperation
      <4>3. CASE Cell(b, kind, "time") # "nothing"
        <5>1. Stamp(b, kind) = <<"unreadable", Cell(b, kind, "time")>>
          BY <2>3, <4>1, <4>3, Pairs DEF Stamp
        <5> QED  BY <1>4, <5>1 DEF Readable, IsOperation
      <4> QED  BY <4>2, <4>3
    <3>3. CASE title = "time"
      <4>1. Cell(b, kind, "time") = "unreadable"
        BY <2>1, <2>3, <3>3, FieldsOfPrivat
      <4>2. Stamp(b, kind) = <<Cell(b, kind, "date"), "unreadable">>
        BY <2>3, <4>1, Pairs DEF Stamp
      <4> QED  BY <1>4, <4>2 DEF Readable, IsOperation
    <3>4. CASE title \in {"cardAmount", "transactionAmount", "closingBalance"}
      <4>1. \E f \in {"amount_account", "amount_operation", "balance"} :
                Cell(b, kind, f) = "unreadable"
        BY <2>1, <2>3, <3>4, FieldsOfPrivat
      <4> QED  BY <1>4, <4>1 DEF Readable, IsOperation
    <3> QED  BY <3>1, <3>2, <3>3, <3>4
  <2> QED  BY <2>2, <2>3 DEF Banks
<1>5. CASE split /\ kind \in OperationKinds /\ "unreadable" \notin Shows(kind) /\ b = "mono"
  <2>1. /\ Cell(b, kind, "datetime") = IfShown(kind, "dateAndTime")
        /\ Cell(b, kind, "amount_account") = IfShown(kind, "cardAmount")
        /\ Cell(b, kind, "amount_operation") = IfShown(kind, "operationAmount")
        /\ Cell(b, kind, "balance") = IfShown(kind, "balance")
    BY <1>5, FieldsOfMono, CellShown
  <2> QED  BY <1>5, <2>1 DEF IfShown, Readable, Stamp, IsOperation
<1>6. CASE split /\ kind \in OperationKinds /\ "unreadable" \notin Shows(kind) /\ b = "privat"
  <2>1. /\ Cell(b, kind, "date") = IfShown(kind, "date")
        /\ Cell(b, kind, "time") = IfShown(kind, "time")
        /\ Cell(b, kind, "amount_account") = IfShown(kind, "cardAmount")
        /\ Cell(b, kind, "amount_operation") = IfShown(kind, "transactionAmount")
        /\ Cell(b, kind, "balance") = IfShown(kind, "closingBalance")
    BY <1>6, FieldsOfPrivat, CellShown
  <2>2. Stamp(b, kind) \in {<<"date">>, <<"date", "time">>, <<"dateAndTime">>}
            <=> "date" \in Shows(kind)
    <3>1. CASE "time" \in Shows(kind)
      <4>1. Stamp(b, kind) = <<Cell(b, kind, "date")>> \o <<Cell(b, kind, "time")>>
        BY <1>6, <2>1, <3>1 DEF Stamp, IfShown
      <4>2. Stamp(b, kind) = <<IfShown(kind, "date"), "time">>
        BY <2>1, <3>1, <4>1, Pairs DEF IfShown
      <4> QED  BY <4>2 DEF IfShown
    <3>2. CASE "time" \notin Shows(kind)
      BY <1>6, <2>1, <3>2 DEF Stamp, IfShown
    <3> QED  BY <3>1, <3>2
  <2> QED  BY <1>6, <2>1, <2>2 DEF Readable, IsOperation, IfShown
<1> QED  BY <1>1, <1>3, <1>4, <1>5, <1>6 DEF Banks

\* And what it makes of such a row is what the row shows.
LEMMA TransactionTells ==
    ASSUME NEW b \in Banks, bank = {b}, KindOf(rows[header]) \in HeadersOf(b),
           NEW kind \in Kinds, kind # "blank", IsOperation(kind)
    PROVE  TellsWhatIsShown(Transaction(b, kind), Shows(kind))
<1> DEFINE tx == Transaction(b, kind)
           Shown(title) == title \in Shows(kind)
<1>1. split /\ "unreadable" \notin Shows(kind) /\ Shown("cardAmount")
  BY DEF IsOperation
<1>2. kind \in OperationKinds
  <2>1. kind \notin OperationKinds => Printed(kind, Titles[KindOf(rows[header])]) = <<"title">>
    BY OtherPrinted
  <2> QED  BY <1>1, <2>1 DEF Shows
<1>3. \A title \in Columns : Shown(title) => title \in BankColumns(b)
  <2> SUFFICES ASSUME NEW title \in Columns, Shown(title) PROVE title \in BankColumns(b)
    OBVIOUS
  <2> DEFINE t == Titles[KindOf(rows[header])]
             p == Printed(kind, t)
  <2>1. PICK i \in DOMAIN p : p[i] = title
    BY DEF Shows
  <2>2. i \in DOMAIN t /\ t[i] = title
    BY <1>2, <2>1, OperationPrinted, WordsApart
  <2> QED  BY <2>2, HeadersOfBanks DEF TitlesIn
<1>4. CASE b = "mono"
  <2>1. /\ Shown("dateAndTime") /\ ~ Shown("date") /\ ~ Shown("time") /\ ~ Shown("card")
        /\ ~ Shown("cardCurrency") /\ ~ Shown("transactionAmount") /\ ~ Shown("category")
        /\ ~ Shown("transactionCurrency") /\ ~ Shown("closingBalance") /\ ~ Shown("description")
    <3>1. {"date", "time", "card", "cardCurrency", "transactionAmount", "category",
           "transactionCurrency", "closingBalance", "description"} \subseteq Columns \ BankColumns(b)
      BY <1>4 DEF Columns, BankColumns
    <3> QED  BY <1>3, <1>4, <3>1 DEF IsOperation
  <2>2. /\ Cell(b, kind, "datetime") = IfShown(kind, "dateAndTime")
        /\ Cell(b, kind, "description") = IfShown(kind, "details")
        /\ Cell(b, kind, "mcc") = IfShown(kind, "mcc")
        /\ Cell(b, kind, "amount_account") = IfShown(kind, "cardAmount")
        /\ Cell(b, kind, "amount_operation") = IfShown(kind, "operationAmount")
        /\ Cell(b, kind, "currency") = IfShown(kind, "currency")
        /\ Cell(b, kind, "balance") = IfShown(kind, "balance")
    BY <1>1, <1>2, <1>4, FieldsOfMono, CellShown
  <2>3. tx = [booked_at |-> <<"dateAndTime">>, amount_account |-> "cardAmount",
              amount |-> IF Shown("operationAmount") THEN "operationAmount" ELSE "cardAmount",
              account_currency |-> "UAH",
              currency |-> IF Shown("currency") THEN "currency" ELSE "UAH",
              description |-> IfShown(kind, "details"), counterparty |-> "nothing",
              balance |-> IfShown(kind, "balance"), mcc |-> IfShown(kind, "mcc"),
              account_hint |-> "nothing"]
    BY <1>1, <1>4, <2>1, <2>2 DEF Transaction, Stamp, IfShown, Or
  <2> QED  BY <2>1, <2>3 DEF TellsWhatIsShown, IfShown
<1>5. CASE b = "privat"
  <2>1. /\ Shown("date") /\ ~ Shown("dateAndTime") /\ ~ Shown("operationAmount")
        /\ ~ Shown("currency") /\ ~ Shown("balance") /\ ~ Shown("mcc") /\ ~ Shown("details")
    <3>1. {"dateAndTime", "operationAmount", "currency", "balance", "mcc", "details"}
              \subseteq Columns \ BankColumns(b)
      BY <1>5 DEF Columns, BankColumns
    <3> QED  BY <1>3, <1>5, <3>1 DEF IsOperation
  <2>2. /\ Cell(b, kind, "date") = IfShown(kind, "date")
        /\ Cell(b, kind, "time") = IfShown(kind, "time")
        /\ Cell(b, kind, "category") = IfShown(kind, "category")
        /\ Cell(b, kind, "card") = IfShown(kind, "card")
        /\ Cell(b, kind, "description") = IfShown(kind, "description")
        /\ Cell(b, kind, "amount_account") = IfShown(kind, "cardAmount")
        /\ Cell(b, kind, "currency_account") = IfShown(kind, "cardCurrency")
        /\ Cell(b, kind, "amount_operation") = IfShown(kind, "transactionAmount")
        /\ Cell(b, kind, "currency_operation") = IfShown(kind, "transactionCurrency")
        /\ Cell(b, kind, "balance") = IfShown(kind, "closingBalance")
    BY <1>1, <1>2, <1>5, FieldsOfPrivat, CellShown
  <2>3. Stamp(b, kind) = IF Shown("time") THEN <<"date", "time">> ELSE <<"date">>
    <3>1. CASE Shown("time")
      BY <1>5, <2>1, <2>2, <3>1, Pairs DEF Stamp, IfShown
    <3>2. CASE ~ Shown("time")
      BY <1>5, <2>1, <2>2, <3>2 DEF Stamp, IfShown
    <3> QED  BY <3>1, <3>2
  <2>4. tx = [booked_at |-> Stamp(b, kind), amount_account |-> "cardAmount",
              amount |-> IF Shown("transactionAmount") THEN "transactionAmount" ELSE "cardAmount",
              account_currency |-> IF Shown("cardCurrency") THEN "cardCurrency" ELSE "UAH",
              currency |-> IF Shown("transactionCurrency") THEN "transactionCurrency"
                           ELSE IF Shown("cardCurrency") THEN "cardCurrency" ELSE "UAH",
              description |-> IfShown(kind, "description"),
              counterparty |-> IfShown(kind, "category"),
              balance |-> IfShown(kind, "closingBalance"), mcc |-> "nothing",
              account_hint |-> IfShown(kind, "card")]
    BY <1>1, <1>5, <2>2 DEF Transaction, IfShown, Or
  <2> QED  BY <2>1, <2>3, <2>4 DEF TellsWhatIsShown, IfShown
<1> QED  BY <1>4, <1>5 DEF Banks

----------------------------------------------------------------------------
(* The bank and its header. *)

\* Rows the loader kept are not blank.
RowsKept == /\ rows \in Seq(Nat)
            /\ \A i \in 1..Len(rows) : KindOf(rows[i]) \in Kinds \ {"blank"}

\* The words of the hints in a text that was decoded rightly.
LEMMA WordsOfRow ==
    ASSUME ~ garbled, NEW kind \in Kinds
    PROVE  Words(kind) = IF kind \in HeaderKinds THEN TitlesIn(kind)
                         ELSE IF kind \in OperationKinds /\ Operations[kind].mcc THEN {"mcc"} ELSE {}
<1>1. CASE kind \in HeaderKinds
  <2>1. kind \notin OperationKinds
    BY <1>1, KindsDiffer
  <2> QED  BY <1>1, <2>1 DEF Words, TitlesOf, TitlesIn
<1>2. CASE kind \notin HeaderKinds
  <2>1. {TitlesOf(kind)[i] : i \in DOMAIN TitlesOf(kind)} = {}
    BY <1>2 DEF TitlesOf
  <2> QED  BY <1>2, <2>1 DEF Words
<1> QED  BY <1>1, <1>2

\* The rows by which find_header and map_columns go.
LEMMA HeaderRow ==
    ASSUME NEW kind \in Kinds, NEW b \in Banks
    PROVE  /\ Contains(b, Words(kind), Markers(b)) => kind \in HeaderKinds
           /\ ~ garbled /\ kind \in HeadersOf(b) => Contains(b, Words(kind), Required(b))
<1>1. kind \notin HeaderKinds => Words(kind) \subseteq {"mcc"}
  BY WordsOfRow DEF Words
<1>2. Contains(b, Words(kind), Markers(b)) => "cardAmount" \in Words(kind)
  BY DEF Contains, Markers, Hints, ColumnHints, Banks
<1>3. ~ garbled /\ kind \in HeadersOf(b) => Contains(b, Words(kind), Required(b))
  BY WordsOfRow, HeadersOfBanks
<1> QED  BY <1>1, <1>2, <1>3

\* A text that was decoded wrongly is no bank's.
LEMMA Recognised == garbled => ~ MonoSniff /\ ~ PrivatSniff
<1>1. garbled => HeadWords = {}
  BY DEF HeadWords, Words
<1> QED  BY <1>1 DEF MonoSniff, PrivatSniff, Contains, Hints, ColumnHints

\* find_header takes the first of the rows that fit.
LEMMA FirstHeaderRow ==
    ASSUME NEW b, RowsKept, HeaderRows(b) # {}
    PROVE  /\ Min(HeaderRows(b)) \in HeaderRows(b)
           /\ \A i \in HeaderRows(b) : Min(HeaderRows(b)) <= i
<1> DEFINE S == HeaderRows(b)
<1>1. S \in SUBSET Nat
  BY DEF HeaderRows, RowsKept
<1> HIDE DEF S
<1>2. PICK m \in S : \A n \in S : m <= n
  BY <1>1, LeastNatural DEF S
<1>3. Min(S) \in S /\ \A n \in S : Min(S) <= n
  BY <1>2 DEF Min
<1> QED  BY <1>3 DEF S

\* It is a header.
LEMMA HeaderIsOne ==
    ASSUME NEW b \in Banks, RowsKept, HeaderRows(b) # {}
    PROVE  /\ Min(HeaderRows(b)) \in 1..Len(rows)
           /\ KindOf(rows[Min(HeaderRows(b))]) \in HeaderKinds
<1> DEFINE h == Min(HeaderRows(b))
<1>1. h \in HeaderRows(b)
  BY FirstHeaderRow
<1>2. /\ h \in 1..Len(rows) /\ KindOf(rows[h]) \in Kinds
      /\ Contains(b, Words(KindOf(rows[h])), Markers(b))
  BY <1>1 DEF HeaderRows, RowsKept
<1> QED  BY <1>2, HeaderRow

\* The parser that recognises a text.
Sniffed(b) == IF b = "mono" THEN MonoSniff ELSE ~ MonoSniff /\ PrivatSniff

\* A text with the header of a bank, and of no other, in its first rows is
\* recognised, and its header found and complete; for Privat24 when no operation
\* there mentions an MCC.
LEMMA ItsBankIsFound ==
    ASSUME NEW b \in Banks, RowsKept, ~ garbled,
           HeadKinds \cap HeaderKinds # {},
           HeadKinds \cap HeaderKinds \subseteq HeadersOf(b),
           b = "privat" => \A o \in HeadKinds \cap OperationKinds : ~ Operations[o].mcc
    PROVE  /\ Sniffed(b) /\ \A c \in Banks : Sniffed(c) => c = b
           /\ HeaderRows(b) # {}
           /\ Contains(b, Words(KindOf(rows[Min(HeaderRows(b))])), Required(b))
<1> DEFINE h == Min(HeaderRows(b))
<1>1. \A w : w \in HeadWords <=> \E kind \in HeadKinds : w \in Words(kind)
  BY DEF HeadWords
<1>2. HeadKinds \subseteq Kinds
  BY DEF HeadKinds, RowsKept
<1>3. PICK i \in 1..Len(rows) : i <= HeadLimit /\ KindOf(rows[i]) \in HeaderKinds
  BY DEF HeadKinds
<1>4. KindOf(rows[i]) \in HeadKinds /\ KindOf(rows[i]) \in HeadersOf(b) /\ KindOf(rows[i]) \in Kinds
  BY <1>2, <1>3 DEF HeadKinds
<1>5. Words(KindOf(rows[i])) = TitlesIn(KindOf(rows[i])) /\ Words(KindOf(rows[i])) \subseteq HeadWords
  BY <1>1, <1>3, <1>4, WordsOfRow
<1>6. MonoSniff <=> "cardAmount" \in HeadWords /\ "mcc" \in HeadWords
  BY DEF MonoSniff, Contains, Hints, ColumnHints
<1>7. PrivatSniff <=> "cardCurrency" \in HeadWords /\ "mcc" \notin HeadWords
  BY DEF PrivatSniff, Contains, Hints, ColumnHints
<1>8. Sniffed(b) /\ \A c \in Banks : Sniffed(c) => c = b
  <2>1. CASE b = "mono"
    <3>1. {"cardAmount", "mcc"} \subseteq HeadWords
      BY <1>4, <1>5, <2>1, HeadersOfBanks
    <3> QED  BY <1>6, <2>1, <3>1 DEF Sniffed, Banks
  <2>2. CASE b = "privat"
    <3>1. "cardCurrency" \in HeadWords
      BY <1>4, <1>5, <2>2, HeadersOfBanks
    <3>2. ASSUME NEW kind \in HeadKinds PROVE "mcc" \notin Words(kind)
      <4>1. CASE kind \in HeaderKinds
        <5>1. kind \in HeadersOf(b) /\ Words(kind) = TitlesIn(kind)
          BY <1>2, <3>2, <4>1, WordsOfRow
        <5> QED  BY <2>2, <5>1, HeadersOfBanks
      <4>2. CASE kind \notin HeaderKinds
        BY <1>2, <2>2, <3>2, <4>2, WordsOfRow
      <4> QED  BY <4>1, <4>2
    <3>3. "mcc" \notin HeadWords
      BY <1>1, <3>2
    <3> QED  BY <1>6, <1>7, <2>2, <3>1, <3>3 DEF Sniffed, Banks
  <2> QED  BY <2>1, <2>2 DEF Banks
<1>9. i \in HeaderRows(b)
  <2>1. i <= HeaderLimit
    BY <1>3, LimitsArePositive, LimitsAreOrdered
  <2>2. Contains(b, Words(KindOf(rows[i])), Markers(b))
    BY <1>4, HeaderRow DEF Required, Contains
  <2> QED  BY <2>1, <2>2 DEF HeaderRows
<1>10. h \in HeaderRows(b) /\ h <= i
  BY <1>9, FirstHeaderRow
<1>11. h \in 1..Len(rows) /\ KindOf(rows[h]) \in Kinds /\ KindOf(rows[h]) \in HeaderKinds
  BY <1>9, HeaderIsOne DEF RowsKept
<1>12. KindOf(rows[h]) \in HeadKinds
  <2>1. h <= HeadLimit
    BY <1>3, <1>10, <1>11, LimitsArePositive
  <2> QED  BY <1>11, <2>1 DEF HeadKinds
<1>13. KindOf(rows[h]) \in HeadersOf(b)
  BY <1>11, <1>12
<1> QED  BY <1>8, <1>9, <1>11, <1>13, HeaderRow

----------------------------------------------------------------------------
(* The rows the loader keeps. *)

\* r holds the places of the rows of a sheet that are not blank, in order.
AreFilled(r, kinds) ==
    /\ r \in Seq(1..Len(kinds))
    /\ \A k \in 1..Len(r) : kinds[r[k]] # "blank"
    /\ \A k, l \in 1..Len(r) : k < l <=> r[k] < r[l]
    /\ \A i \in 1..Len(kinds) : kinds[i] # "blank" => \E k \in 1..Len(r) : r[k] = i

LEMMA KeptAreFilled ==
    ASSUME NEW kinds \in Seq(Kinds)
    PROVE  AreFilled(Kept(kinds), kinds)
<1> DEFINE filled == {i \in 1..Len(kinds) : kinds[i] # "blank"}
           Rank(i) == Cardinality({j \in filled : j <= i})
           n == Cardinality(filled)
           r == Kept(kinds)
<1>1. filled \in SUBSET Nat /\ IsFiniteSet(filled)
  <2>1. IsFiniteSet(1..Len(kinds))
    BY FS_Interval
  <2> QED  BY <2>1, FS_Subset
<1>2. n \in Nat
  BY <1>1, FS_CardinalityType
<1>3. r = [k \in 1..n |-> CHOOSE i \in filled : Rank(i) = k]
  BY DEF Kept
<1> HIDE DEF filled, Rank, r
<1>4. /\ \A i, j \in filled : i < j <=> Rank(i) < Rank(j)
      /\ \A k \in 1..n : \E i \in filled : Rank(i) = k
      /\ \A i \in filled : Rank(i) \in 1..n
  BY <1>1, Ranks DEF Rank
<1> HIDE DEF n
<1>5. \A k \in 1..n : r[k] \in filled /\ Rank(r[k]) = k
  BY <1>3, <1>4
<1>6. r \in Seq(1..Len(kinds)) /\ Len(r) = n
  <2>1. \A k \in 1..n : r[k] \in 1..Len(kinds)
    BY <1>5 DEF filled
  <2> QED  BY <1>2, <1>3, <2>1
<1>7. \A k \in 1..Len(r) : kinds[r[k]] # "blank"
  BY <1>5, <1>6 DEF filled
<1>8. \A k, l \in 1..Len(r) : k < l <=> r[k] < r[l]
  BY <1>4, <1>5, <1>6
<1>9. ASSUME NEW i \in 1..Len(kinds), kinds[i] # "blank"
      PROVE  \E k \in 1..Len(r) : r[k] = i
  <2>1. i \in filled /\ Rank(i) \in 1..n
    BY <1>4, <1>9 DEF filled
  <2>2. r[Rank(i)] \in filled /\ Rank(r[Rank(i)]) = Rank(i)
    BY <1>5, <2>1
  <2>3. r[Rank(i)] \in Nat /\ i \in Nat /\ Rank(i) \in Nat
    <3>1. r[Rank(i)] \in Nat /\ i \in Nat
      BY <1>1, <2>1, <2>2
    <3>2. Rank(i) \in Nat
      BY <1>2, <2>1
    <3> QED  BY <3>1, <3>2
  <2>4. ~ (r[Rank(i)] < i) /\ ~ (i < r[Rank(i)])
    BY <1>4, <2>1, <2>2, <2>3
  <2> QED  BY <1>6, <2>1, <2>3, <2>4
<1>10. AreFilled(r, kinds)
  BY <1>6, <1>7, <1>8, <1>9 DEF AreFilled
<1> QED  BY <1>10 DEF r

\* _pick_sheet takes a sheet there is.
LEMMA PickedSheet ==
    ASSUME NEW sheets \in Seq(Sheets), sheets # <<>>
    PROVE  PickSheet(sheets) \in 1..Len(sheets)
<1> DEFINE S == {i \in 1..Len(sheets) : sheets[i].named}
<1>1. CASE S # {}
  <2>1. S \in SUBSET Nat
    OBVIOUS
  <2> HIDE DEF S
  <2>2. PICK m \in S : \A n \in S : m <= n
    BY <1>1, <2>1, LeastNatural
  <2>3. Min(S) \in S
    BY <2>2 DEF Min
  <2> QED  BY <1>1, <2>3 DEF PickSheet, S
<1>2. CASE S = {}
  BY <1>2 DEF PickSheet
<1> QED  BY <1>1, <1>2

----------------------------------------------------------------------------
(* The inductive invariant. *)

\* The program counter and the outcome agree; a sheet once chosen is there, and
\* its rows are kept.
Loaded ==
    /\ file \in Files
    /\ pc \in {"load", "detect", "find", "read", "end"}
    /\ outcome \in Outcomes /\ (outcome = "none" <=> pc # "end")
    /\ garbled => file.marked
    /\ pc = "load" \/ outcome \in {"unsupported", "corrupt", "undecoded"} => sheet = 0
    /\ pc \in {"detect", "find", "read"}
           \/ outcome \in {"unknown", "headless", "incomplete", "parsed"} => sheet # 0
    /\ sheet = 0 \/ outcome = "empty" => rows = <<>>
    /\ sheet # 0 => /\ sheet \in 1..Len(file.sheets)
                    /\ AreFilled(rows, file.sheets[sheet].rows)

\* The parser is the one that recognises the text, and the header has what it
\* looks for; when there is no more than the parser, its header is missing or
\* incomplete.
BankKnown ==
    /\ pc \in {"find", "read"} \/ outcome \in {"parsed", "headless", "incomplete"} =>
          \E b \in Banks : bank = {b} /\ Sniffed(b)
    /\ outcome = "unknown" => ~ MonoSniff /\ ~ PrivatSniff
    /\ outcome = "headless" => \A b \in bank : HeaderRows(b) = {}
    /\ pc = "read" \/ outcome = "parsed" => \A b \in bank : header \in HeaderRows(b)
    /\ outcome = "incomplete" =>
          \A b \in bank : ~ Contains(b, Words(KindOf(rows[Min(HeaderRows(b))])), Required(b))

\* The rows of transactions that have been passed.
ReadSoFar(b) == {k \in header + 1 .. next - 1 : Readable(b, KindOf(rows[k]))}

\* What ReadRow appends for the k-th row.
EntryOf(b, k) == [source_row |-> k, place |-> rows[k], tx |-> Transaction(b, KindOf(rows[k]))]

\* The loop goes through the rows below a header.
Below ==
    /\ header \in 1..Len(rows) /\ KindOf(rows[header]) \in HeaderKinds
    /\ next \in header + 1 .. Len(rows) + 1
    /\ outcome = "parsed" => next = Len(rows) + 1

\* Each row passed below it is among the transactions, once and in order, or is
\* counted.
Passed(b) ==
    /\ found \in Seq({EntryOf(b, k) : k \in ReadSoFar(b)})
    /\ \A k \in ReadSoFar(b) : \E i \in 1..Len(found) : found[i] = EntryOf(b, k)
    /\ \A i, j \in 1..Len(found) : i < j => found[i].source_row < found[j].source_row
    /\ skipped \in Nat /\ Len(found) + skipped = next - 1 - header

RowsPassed ==
    IF pc = "read" \/ outcome = "parsed"
    THEN \A b \in bank : Below /\ Passed(b)
    ELSE found = <<>> /\ skipped = 0

ReadingInv == Loaded /\ BankKnown /\ RowsPassed

\* A sheet is a sequence of rows of some kind.
LEMMA SheetIsFilled ==
    ASSUME file \in Files, sheet \in 1..Len(file.sheets)
    PROVE  /\ file.sheets \in Seq(Sheets)
           /\ file.sheets[sheet].rows \in Seq(Kinds)
<1>1. file.sheets \in Seq(Sheets)
  BY FilesAreFiles
<1>2. file.sheets[sheet] \in Sheets
  BY <1>1
<1> QED  BY <1>1, <1>2 DEF Sheets

LEMMA RowsAreKept == ASSUME Loaded PROVE RowsKept
<1>1. CASE sheet = 0
  BY <1>1 DEF Loaded, RowsKept
<1>2. CASE sheet # 0
  <2> DEFINE kinds == file.sheets[sheet].rows
  <2>1. kinds \in Seq(Kinds) /\ AreFilled(rows, kinds)
    BY <1>2, SheetIsFilled DEF Loaded
  <2>2. \A i : KindOf(rows[i]) = kinds[rows[i]]
    BY DEF KindOf
  <2> HIDE DEF kinds
  <2>3. \A i \in 1..Len(rows) : rows[i] \in 1..Len(kinds) /\ kinds[rows[i]] \in Kinds
    BY <2>1 DEF AreFilled
  <2>4. rows \in Seq(Nat)
    BY <2>1 DEF AreFilled
  <2> QED  BY <2>1, <2>2, <2>3, <2>4 DEF AreFilled, RowsKept
<1> QED  BY <1>1, <1>2

\* What is said of the text depends on nothing else than the text.
LEMMA SameText ==
    ASSUME UNCHANGED <<file, rows, sheet, garbled>>
    PROVE  /\ \A i : KindOf(i)' = KindOf(i)
           /\ \A kind : Words(kind)' = Words(kind)
           /\ HeadKinds' = HeadKinds
           /\ MonoSniff' <=> MonoSniff
           /\ PrivatSniff' <=> PrivatSniff
           /\ \A b : Sniffed(b)' <=> Sniffed(b)
           /\ \A b : HeaderRows(b)' = HeaderRows(b)
<1>1. \A i : KindOf(i)' = KindOf(i)
  BY DEF KindOf
<1>2. \A kind : Words(kind)' = Words(kind)
  BY DEF Words
<1>3. HeadKinds' = HeadKinds
  BY <1>1 DEF HeadKinds
<1>4. HeadWords' = HeadWords
  BY <1>2, <1>3 DEF HeadWords
<1>5. (MonoSniff' <=> MonoSniff) /\ (PrivatSniff' <=> PrivatSniff)
  BY <1>4 DEF MonoSniff, PrivatSniff, Contains
<1>6. \A b : Sniffed(b)' <=> Sniffed(b)
  BY <1>5 DEF Sniffed
<1>7. \A b : HeaderRows(b)' = HeaderRows(b)
  BY <1>1, <1>2 DEF HeaderRows, Contains
<1> QED  BY <1>1, <1>2, <1>3, <1>5, <1>6, <1>7

\* Nor does what is read from a row depend on the rows read before it.
LEMMA SameColumns ==
    ASSUME UNCHANGED <<file, rows, sheet, garbled, split, header>>
    PROVE  /\ \A b, kind : Readable(b, kind)' <=> Readable(b, kind)
           /\ \A b, kind : Transaction(b, kind)' = Transaction(b, kind)
           /\ \A b, k : EntryOf(b, k)' = EntryOf(b, k)
<1>1. (\A i : KindOf(i)' = KindOf(i)) /\ \A kind : Words(kind)' = Words(kind)
  BY SameText
<1>2. Header' = Header
  BY <1>1 DEF Header
<1>3. \A kind : Cells(kind)' = Cells(kind)
  BY <1>1 DEF Cells
<1>4. \A b, f : ColumnsOf(b, f)' = ColumnsOf(b, f)
  BY <1>2 DEF ColumnsOf
<1>5. \A b, kind, f : Cell(b, kind, f)' = Cell(b, kind, f)
  BY <1>3, <1>4 DEF Cell
<1>6. \A b, kind : Stamp(b, kind)' = Stamp(b, kind)
  BY <1>5 DEF Stamp
<1>7. \A b, kind : Readable(b, kind)' <=> Readable(b, kind)
  BY <1>5, <1>6 DEF Readable
<1>8. \A b, kind : Transaction(b, kind)' = Transaction(b, kind)
  BY <1>5, <1>6 DEF Transaction
<1>9. \A b, k : EntryOf(b, k)' = EntryOf(b, k)
  BY <1>1, <1>8 DEF EntryOf
<1> QED  BY <1>7, <1>8, <1>9

LEMMA ReadingInit == ASSUME Init PROVE ReadingInv
<1>1. Loaded
  BY DEF Init, Loaded, Outcomes
<1>2. BankKnown
  BY DEF Init, BankKnown
<1>3. RowsPassed
  BY DEF Init, RowsPassed
<1> QED  BY <1>1, <1>2, <1>3 DEF ReadingInv

\* A loader takes a sheet and keeps its filled rows; the others end the upload
\* or go on with what there is.
LEMMA LoadedStep == ASSUME Loaded, [Next]_vars PROVE Loaded'
<1>1. CASE UNCHANGED vars
  BY <1>1 DEF Loaded, AreFilled, vars
<1>2. CASE LoadXlsx
  <2>1. file.sheets \in Seq(Sheets) /\ file.sheets # <<>>
    BY <1>2, FilesAreFiles DEF LoadXlsx, Loaded
  <2>2. sheet' \in 1..Len(file.sheets) /\ file' = file
    BY <1>2, <2>1, PickedSheet DEF LoadXlsx
  <2>3. file.sheets[sheet'].rows \in Seq(Kinds)
    <3>1. file.sheets[sheet'] \in Sheets
      BY <2>1, <2>2
    <3> QED  BY <3>1 DEF Sheets
  <2>4. AreFilled(rows, file.sheets[sheet].rows)'
    <3>1. rows' = Kept(file.sheets[sheet'].rows)
      BY <1>2 DEF LoadXlsx
    <3>2. AreFilled(rows', file.sheets[sheet'].rows)
      BY <2>3, <3>1, KeptAreFilled
    <3> QED  BY <2>2, <3>2 DEF AreFilled
  <2> QED  BY <1>2, <2>1, <2>2, <2>4 DEF LoadXlsx, Loaded
<1>3. CASE LoadCsv
  <2>1. file.sheets \in Seq(Sheets) /\ Len(file.sheets) = 1
    BY <1>3, FilesAreFiles DEF LoadCsv, Loaded
  <2>2. sheet' = 1 /\ 1 \in 1..Len(file.sheets) /\ file' = file
    BY <1>3, <2>1 DEF LoadCsv
  <2>3. file.sheets[1].rows \in Seq(Kinds)
    <3>1. file.sheets[1] \in Sheets
      BY <2>1, <2>2
    <3> QED  BY <3>1 DEF Sheets
  <2>4. AreFilled(rows, file.sheets[sheet].rows)'
    <3>1. rows' = Kept(file.sheets[1].rows)
      BY <1>3 DEF LoadCsv
    <3>2. AreFilled(rows', file.sheets[1].rows)
      BY <2>3, <3>1, KeptAreFilled
    <3> QED  BY <2>2, <3>2 DEF AreFilled
  <2>5. garbled' => file.marked
    BY <1>3 DEF LoadCsv, DecodingsOf
  <2> QED  BY <1>3, <2>2, <2>4, <2>5 DEF LoadCsv, Loaded
<1>4. CASE Unsupported \/ Undecodable \/ LoadNothing
  BY <1>4 DEF Unsupported, Undecodable, LoadNothing, End, Loaded, AreFilled, Outcomes
<1>5. CASE /\ \/ Detect \/ UnknownFormat \/ FindHeader \/ NoHeader \/ MissingColumns
              \/ ReadRow \/ SkipRow \/ Finish
           /\ UNCHANGED <<file, rows, sheet, garbled>>
  <2>1. AreFilled(rows, file.sheets[sheet].rows)' <=> AreFilled(rows, file.sheets[sheet].rows)
    BY <1>5 DEF AreFilled
  <2>2. CASE pc' = "end"
    <3>1. pc \in {"detect", "find", "read"}
          /\ outcome' \in {"unknown", "headless", "incomplete", "parsed"}
      BY <1>5, <2>2 DEF Detect, UnknownFormat, FindHeader, NoHeader, MissingColumns, ReadRow,
                        SkipRow, Finish, End, Loaded
    <3> QED  BY <1>5, <2>1, <2>2, <3>1 DEF Loaded, Outcomes
  <2>3. CASE pc' # "end"
    <3>1. pc \in {"detect", "find", "read"} /\ pc' \in {"find", "read"} /\ outcome' = outcome
      BY <1>5, <2>3 DEF Detect, UnknownFormat, FindHeader, NoHeader, MissingColumns, ReadRow,
                        SkipRow, Finish, End, Loaded
    <3> QED  BY <1>5, <2>1, <2>3, <3>1 DEF Loaded, Outcomes
  <2> QED  BY <2>2, <2>3
<1> QED  BY <1>1, <1>2, <1>3, <1>4, <1>5 DEF Next, Detect, UnknownFormat, FindHeader, NoHeader,
                                            MissingColumns, ReadRow, SkipRow, Finish

\* The bank is chosen once, from rows that stay.
LEMMA BankStep == ASSUME Loaded, BankKnown, [Next]_vars PROVE BankKnown'
<1>1. CASE Unsupported \/ LoadXlsx \/ LoadCsv \/ Undecodable \/ LoadNothing
  BY <1>1 DEF Unsupported, LoadXlsx, LoadCsv, Undecodable, LoadNothing, End, Loaded, BankKnown
<1>2. CASE /\ \/ Detect \/ UnknownFormat \/ FindHeader \/ NoHeader \/ MissingColumns
              \/ ReadRow \/ SkipRow \/ Finish \/ UNCHANGED vars
           /\ UNCHANGED <<file, rows, sheet, garbled>>
  <2>1. /\ \A i : KindOf(i)' = KindOf(i)
        /\ \A kind : Words(kind)' = Words(kind)
        /\ MonoSniff' <=> MonoSniff
        /\ PrivatSniff' <=> PrivatSniff
        /\ \A b : Sniffed(b)' <=> Sniffed(b)
        /\ \A b : HeaderRows(b)' = HeaderRows(b)
    BY <1>2, SameText
  <2>2. \A b : Contains(b, Words(KindOf(rows[Min(HeaderRows(b))])), Required(b))'
                   <=> Contains(b, Words(KindOf(rows[Min(HeaderRows(b))])), Required(b))
    BY <1>2, <2>1 DEF Contains
  <2>3. CASE Detect
    <3>1. \E b \in Banks : bank' = {b} /\ Sniffed(b)
      BY <2>3 DEF Detect, Sniffed, Banks
    <3> QED  BY <2>1, <2>3, <3>1 DEF Detect, BankKnown, Loaded
  <2>4. CASE UnknownFormat
    BY <2>1, <2>4 DEF UnknownFormat, End, BankKnown
  <2>5. CASE FindHeader
    <3>1. PICK b \in Banks : bank = {b} /\ Sniffed(b)
      BY <2>5 DEF FindHeader, BankKnown
    <3>2. HeaderRows(b) # {} /\ header' = Min(HeaderRows(b)) /\ bank' = bank
      BY <2>5, <3>1 DEF FindHeader
    <3>3. header' \in HeaderRows(b)
      BY <3>2, FirstHeaderRow, RowsAreKept
    <3> QED  BY <2>1, <2>5, <3>1, <3>2, <3>3 DEF FindHeader, BankKnown, Loaded
  <2>6. CASE NoHeader
    BY <2>1, <2>6 DEF NoHeader, End, BankKnown
  <2>7. CASE MissingColumns
    <3>1. PICK b \in bank :
              ~ Contains(b, Words(KindOf(rows[Min(HeaderRows(b))])), Required(b))
      BY <2>7 DEF MissingColumns
    <3>2. bank = {b} /\ b \in Banks /\ Sniffed(b)
      BY <2>7, <3>1 DEF MissingColumns, BankKnown
    <3>3. bank' = bank /\ pc' = "end" /\ outcome' = "incomplete"
      BY <2>7 DEF MissingColumns, End
    <3> QED  BY <2>1, <2>2, <3>1, <3>2, <3>3 DEF BankKnown
  <2>8. CASE ReadRow \/ SkipRow \/ Finish
    BY <2>1, <2>8 DEF ReadRow, SkipRow, Finish, End, BankKnown, Loaded
  <2>9. CASE UNCHANGED vars
    BY <2>1, <2>2, <2>9 DEF vars, BankKnown
  <2> QED  BY <1>2, <2>3, <2>4, <2>5, <2>6, <2>7, <2>8, <2>9
<1> QED  BY <1>1, <1>2 DEF Next, vars, Detect, UnknownFormat, FindHeader, NoHeader, MissingColumns,
                          ReadRow, SkipRow, Finish

\* find_header stops at a header; nothing below it is read yet.
LEMMA FindHeaderStep ==
    ASSUME Loaded, BankKnown, RowsPassed, FindHeader PROVE RowsPassed'
<1>1. PICK b \in Banks : bank = {b} /\ Sniffed(b)
  BY DEF FindHeader, BankKnown
<1>2. /\ HeaderRows(b) # {} /\ header' = Min(HeaderRows(b))
      /\ Contains(b, Words(KindOf(rows[header'])), Required(b))
  BY <1>1 DEF FindHeader
<1>3. header' \in 1..Len(rows) /\ KindOf(rows[header']) \in HeaderKinds /\ Len(rows) \in Nat
  BY <1>1, <1>2, HeaderIsOne, RowsAreKept DEF RowsKept
<1>4. KindOf(rows[header])' = KindOf(rows[header'])
  BY DEF FindHeader, KindOf
<1>5. found' = <<>> /\ bank' = {b} /\ rows' = rows
  BY <1>1 DEF FindHeader, RowsPassed, Loaded
<1>6. skipped' = 0 /\ outcome' # "parsed"
  BY DEF FindHeader, RowsPassed, Loaded
<1>7. next' = header' + 1 /\ header' \in Nat
  <2>1. header' \in Nat
    BY <1>3
  <2> QED  BY <2>1 DEF FindHeader
<1>8. ReadSoFar(b)' = {}
  BY <1>7 DEF ReadSoFar
<1>9. Below'
  <2>1. next' \in header' + 1 .. Len(rows) + 1
    <3>1. \A n, h \in Nat : h \in 1..n => h + 1 \in h + 1 .. n + 1
      OBVIOUS
    <3> QED  BY <1>3, <1>7, <3>1
  <2>2. KindOf(rows[header])' \in HeaderKinds
    BY <1>3, <1>4
  <2> QED  BY <1>3, <1>5, <1>6, <2>1, <2>2 DEF Below
<1>10. Passed(b)'
  <2>1. found' \in Seq({EntryOf(b, k) : k \in ReadSoFar(b)}') /\ Len(found') = 0
    BY <1>5
  <2>2. skipped' \in Nat /\ Len(found') + skipped' = next' - 1 - header'
    <3>1. \A h \in Nat : 0 + 0 = (h + 1) - 1 - h
      OBVIOUS
    <3> QED  BY <1>6, <1>7, <2>1, <3>1
  <2>3. 1..Len(found') = {}
    BY <2>1
  <2> QED  BY <1>8, <2>1, <2>2, <2>3 DEF Passed
<1> QED  BY <1>5, <1>9, <1>10 DEF RowsPassed, FindHeader

\* One more row is a transaction or counts.
LEMMA RowStep ==
    ASSUME Loaded, BankKnown, RowsPassed, ReadRow \/ SkipRow PROVE RowsPassed'
<1>1. pc = "read" /\ pc' = "read" /\ outcome' = outcome /\ outcome # "parsed"
  BY DEF ReadRow, SkipRow, Loaded
<1>2. PICK b \in Banks : bank = {b}
  BY <1>1 DEF BankKnown
<1>3. /\ UNCHANGED <<file, rows, sheet, garbled, split, header, bank>>
      /\ next <= Len(rows) /\ next' = next + 1
  BY DEF ReadRow, SkipRow
<1>4. /\ header \in 1..Len(rows) /\ KindOf(rows[header]) \in HeaderKinds
      /\ next \in header + 1 .. Len(rows) + 1
      /\ skipped \in Nat /\ Len(found) + skipped = next - 1 - header
      /\ Len(rows) \in Nat /\ header \in Nat /\ next \in Nat
  <2>1. Len(rows) \in Nat /\ Below /\ Passed(b)
    BY <1>1, <1>2, RowsAreKept DEF RowsPassed, RowsKept
  <2> QED  BY <2>1 DEF Below, Passed
<1>5. /\ found \in Seq({EntryOf(b, k) : k \in ReadSoFar(b)})
      /\ \A k \in ReadSoFar(b) : \E i \in 1..Len(found) : found[i] = EntryOf(b, k)
      /\ \A i, j \in 1..Len(found) : i < j => found[i].source_row < found[j].source_row
  BY <1>1, <1>2 DEF RowsPassed, Passed
<1>6. /\ KindOf(rows[header])' = KindOf(rows[header])
      /\ \A k : EntryOf(b, k)' = EntryOf(b, k)
      /\ \A k : Readable(b, KindOf(rows[k]))' <=> Readable(b, KindOf(rows[k]))
  BY <1>3, SameText, SameColumns
<1>7. ReadSoFar(b)' = ReadSoFar(b) \cup (IF Readable(b, KindOf(rows[next])) THEN {next} ELSE {})
  <2>1. ReadSoFar(b)' = {k \in header + 1 .. next : Readable(b, KindOf(rows[k]))}
    BY <1>3, <1>4, <1>6 DEF ReadSoFar
  <2>2. header + 1 .. next = (header + 1 .. next - 1) \cup {next}
    BY <1>4
  <2> QED  BY <2>1, <2>2 DEF ReadSoFar
<1>8. Below'
  BY <1>1, <1>3, <1>4, <1>6 DEF Below
<1>9. CASE SkipRow
  <2>1. ~ Readable(b, KindOf(rows[next])) /\ found' = found /\ skipped' = skipped + 1
    BY <1>2, <1>9 DEF SkipRow
  <2>2. ReadSoFar(b)' = ReadSoFar(b)
    BY <1>7, <2>1
  <2>3. {EntryOf(b, k) : k \in ReadSoFar(b)}' = {EntryOf(b, k) : k \in ReadSoFar(b)}
    BY <1>6, <2>2
  <2>4. Len(found) \in Nat
    BY <1>5
  <2>5. skipped' \in Nat /\ Len(found') + skipped' = next' - 1 - header'
    BY <1>3, <1>4, <2>1, <2>4
  <2>6. Passed(b)'
    BY <1>5, <1>6, <2>1, <2>2, <2>3, <2>5 DEF Passed
  <2> QED  BY <1>1, <1>2, <1>3, <1>8, <2>6 DEF RowsPassed
<1>10. CASE ReadRow
  <2> DEFINE e == EntryOf(b, next)
             T == {EntryOf(b, k) : k \in ReadSoFar(b)'}
             n == Len(found)
  <2>1. Readable(b, KindOf(rows[next])) /\ found' = Append(found, e) /\ skipped' = skipped
    BY <1>2, <1>10 DEF ReadRow, EntryOf
  <2>2. e \in T /\ {EntryOf(b, k) : k \in ReadSoFar(b)} \subseteq T
    BY <1>7, <2>1
  <2>3. {EntryOf(b, k) : k \in ReadSoFar(b)}' = T
    BY <1>6
  <2>4. found \in Seq(T)
    BY <1>5, <2>2, SeqMonotonic
  <2> HIDE DEF T
  <2>5. /\ found' \in Seq(T) /\ Len(found') = n + 1 /\ n \in Nat
        /\ \A i \in 1..n : found'[i] = found[i]
        /\ found'[n + 1] = e
    BY <2>1, <2>2, <2>4, AppendProperties
  <2>6. ASSUME NEW k \in ReadSoFar(b)'
        PROVE  \E i \in 1..Len(found') : found'[i] = EntryOf(b, k)
    <3>1. CASE k = next
      BY <2>5, <3>1
    <3>2. CASE k # next
      <4>1. PICK i \in 1..n : found[i] = EntryOf(b, k)
        BY <1>5, <1>7, <3>2
      <4> QED  BY <2>5, <4>1
    <3> QED  BY <3>1, <3>2
  <2>7. ASSUME NEW i \in 1..Len(found'), NEW j \in 1..Len(found'), i < j
        PROVE  found'[i].source_row < found'[j].source_row
    <3>1. i \in 1..n
      BY <2>5, <2>7
    <3>2. CASE j \in 1..n
      BY <1>5, <2>5, <2>7, <3>1, <3>2
    <3>3. CASE j = n + 1
      <4>1. PICK k \in ReadSoFar(b) : found[i] = EntryOf(b, k)
        BY <1>5, <3>1
      <4>2. k \in Int /\ next \in Int /\ k < next
        BY <1>4 DEF ReadSoFar
      <4> QED  BY <2>5, <3>1, <3>3, <4>1, <4>2 DEF EntryOf
    <3> QED  BY <2>5, <3>2, <3>3
  <2>8. skipped' \in Nat /\ Len(found') + skipped' = next' - 1 - header'
    <3>1. next' = next + 1 /\ header' = header /\ skipped' = skipped /\ Len(found') = n + 1
      BY <1>3, <2>1, <2>5
    <3>2. /\ next \in Nat /\ header \in Nat /\ skipped \in Nat /\ n \in Nat
          /\ n + skipped = next - 1 - header
      BY <1>4, <2>5
    <3> HIDE DEF n
    <3>3. (n + 1) + skipped = (next + 1) - 1 - header
      BY <3>2
    <3> QED  BY <3>1, <3>2, <3>3
  <2>9. Passed(b)'
    BY <1>6, <2>3, <2>5, <2>6, <2>7, <2>8 DEF Passed
  <2> QED  BY <1>1, <1>2, <1>3, <1>8, <2>9 DEF RowsPassed
<1> QED  BY <1>9, <1>10

LEMMA ReadingStep == ASSUME ReadingInv, [Next]_vars PROVE ReadingInv'
<1>1. Loaded /\ BankKnown /\ RowsPassed
  BY DEF ReadingInv
<1>2. Loaded' /\ BankKnown'
  BY <1>1, LoadedStep, BankStep
<1>3. RowsPassed'
  <2>1. CASE \/ Unsupported \/ LoadXlsx \/ LoadCsv \/ Undecodable \/ LoadNothing \/ Detect
             \/ UnknownFormat \/ NoHeader \/ MissingColumns
    BY <1>1, <2>1 DEF Unsupported, LoadXlsx, LoadCsv, Undecodable, LoadNothing, Detect,
       UnknownFormat, NoHeader, MissingColumns, End, RowsPassed, Loaded
  <2>2. CASE FindHeader
    BY <1>1, <2>2, FindHeaderStep
  <2>3. CASE ReadRow \/ SkipRow
    BY <1>1, <2>3, RowStep
  <2>4. CASE Finish \/ UNCHANGED vars
    <3>1. /\ UNCHANGED <<file, rows, sheet, garbled, split, header, next, found, skipped, bank>>
      BY <2>4 DEF Finish, vars
    <3>2. /\ \A i : KindOf(i)' = KindOf(i)
          /\ \A c, k : EntryOf(c, k)' = EntryOf(c, k)
          /\ \A c, kind : Readable(c, kind)' <=> Readable(c, kind)
      BY <3>1, SameText, SameColumns
    <3>3. \A c : ReadSoFar(c)' = ReadSoFar(c)
      BY <3>1, <3>2 DEF ReadSoFar
    <3>4. \A c : Passed(c) => Passed(c)'
      BY <3>1, <3>2, <3>3 DEF Passed
    <3>5. CASE Finish
      <4>1. PICK b \in Banks : bank = {b}
        BY <1>1, <3>5 DEF Finish, BankKnown
      <4>2. Below /\ Passed(b) /\ next > Len(rows) /\ pc' = "end" /\ outcome' = "parsed"
        BY <1>1, <3>5, <4>1 DEF Finish, End, RowsPassed
      <4>3. next = Len(rows) + 1
        <5>1. \A n, h \in Nat : \A x \in h + 1 .. n + 1 : x > n => x = n + 1
          OBVIOUS
        <5>2. Len(rows) \in Nat /\ header \in Nat
          BY <1>1, <4>2, RowsAreKept DEF RowsKept, Below
        <5> QED  BY <4>2, <5>1, <5>2 DEF Below
      <4>4. Below'
        BY <3>1, <3>2, <4>2, <4>3 DEF Below
      <4> QED  BY <3>1, <3>4, <4>1, <4>2, <4>4 DEF RowsPassed
    <3>6. CASE UNCHANGED vars
      <4>1. Below => Below'
        BY <3>1, <3>2, <3>6 DEF Below, vars
      <4> QED  BY <1>1, <3>1, <3>4, <3>6, <4>1 DEF RowsPassed, vars
    <3> QED  BY <2>4, <3>5, <3>6
  <2> QED  BY <2>1, <2>2, <2>3, <2>4 DEF Next
<1> QED  BY <1>2, <1>3 DEF ReadingInv

LEMMA ReadingInvariant == Spec => []ReadingInv
BY ReadingInit, ReadingStep, PTL DEF Spec

----------------------------------------------------------------------------
(* The theorems. *)

\* What a transaction is, once some are there.
LEMMA FoundEntries ==
    ASSUME ReadingInv, NEW i \in DOMAIN found
    PROVE  \E b \in Banks :
              /\ bank = {b} /\ Sniffed(b)
              /\ \E k \in 1..Len(rows) : /\ found[i] = EntryOf(b, k)
                                         /\ Readable(b, KindOf(rows[k]))
<1>1. pc = "read" \/ outcome = "parsed"
  <2>1. found # <<>>
    OBVIOUS
  <2> QED  BY <2>1 DEF ReadingInv, RowsPassed
<1>2. PICK b \in Banks : bank = {b} /\ Sniffed(b)
  BY <1>1 DEF ReadingInv, BankKnown
<1>3. Below /\ Passed(b) /\ Len(rows) \in Nat
  BY <1>1, <1>2, RowsAreKept DEF ReadingInv, RowsPassed, RowsKept
<1>4. PICK k \in ReadSoFar(b) : found[i] = EntryOf(b, k)
  BY <1>3 DEF Passed
<1>5. k \in 1..Len(rows)
  <2>1. \A n, h \in Nat : \A x \in h + 1 .. n + 1 : h + 1 .. x - 1 \subseteq 1..n
    OBVIOUS
  <2>2. header \in Nat
    BY <1>3 DEF Below
  <2> QED  BY <1>3, <1>4, <2>1, <2>2 DEF Below, ReadSoFar
<1> QED  BY <1>2, <1>3, <1>4, <1>5 DEF Below, ReadSoFar

\* Transactions lead back to their rows, in the order of the sheet
\* (source_row of _parse_row).
THEOREM TransactionsLeadBack == Spec => []SourceRowsLeadBack
<1>1. ASSUME ReadingInv PROVE SourceRowsLeadBack
  <2>1. ASSUME NEW i \in DOMAIN found
        PROVE  found[i].source_row \in DOMAIN rows /\ rows[found[i].source_row] = found[i].place
    <3>1. PICK b \in Banks, k \in 1..Len(rows) : found[i] = EntryOf(b, k)
      BY <1>1, FoundEntries
    <3>2. rows \in Seq(Nat)
      BY <1>1, RowsAreKept DEF ReadingInv, RowsKept
    <3> QED  BY <3>1, <3>2 DEF EntryOf
  <2>2. ASSUME NEW i \in DOMAIN found, NEW j \in DOMAIN found, i < j
        PROVE  found[i].source_row < found[j].source_row
    <3>1. pc = "read" \/ outcome = "parsed"
      BY <1>1, <2>2 DEF ReadingInv, RowsPassed
    <3>2. PICK b \in bank : Passed(b)
      BY <1>1, <3>1 DEF ReadingInv, BankKnown, RowsPassed
    <3>3. DOMAIN found = 1..Len(found)
      BY <3>2 DEF Passed
    <3> QED  BY <2>2, <3>2, <3>3 DEF Passed
  <2> QED  BY <2>1, <2>2 DEF SourceRowsLeadBack
<1> QED  BY <1>1, ReadingInvariant, PTL

\* Whatever the headers and the operations are, nothing that was decoded wrongly
\* is taken, and under a header of the bank a transaction says what its row
\* shows, in whatever order the columns stand and wherever the row ends
\* (_parse_row of mono.py and privat.py).
THEOREM TransactionsTellWhatIsShown == Spec => []ShownIsRead
<1>1. ASSUME ReadingInv PROVE ShownIsRead
  <2> SUFFICES ASSUME NEW i \in DOMAIN found
               PROVE  /\ ~ garbled
                      /\ UnderItsHeader =>
                            TellsWhatIsShown(found[i].tx, Shows(KindOf(found[i].place)))
    BY DEF ShownIsRead
  <2>1. PICK b \in Banks, k \in 1..Len(rows) :
            /\ bank = {b} /\ Sniffed(b)
            /\ found[i] = EntryOf(b, k) /\ Readable(b, KindOf(rows[k]))
    BY <1>1, FoundEntries
  <2>2. RowsKept
    BY <1>1, RowsAreKept DEF ReadingInv
  <2>3. KindOf(rows[k]) \in Kinds /\ KindOf(rows[k]) # "blank"
    BY <2>2 DEF RowsKept
  <2>4. ~ garbled
    BY <2>1, Recognised DEF Sniffed
  <2>5. ASSUME UnderItsHeader
        PROVE  TellsWhatIsShown(Transaction(b, KindOf(rows[k])), Shows(KindOf(rows[k])))
    <3>1. KindOf(rows[header]) \in HeadersOf(b)
      BY <2>1, <2>5 DEF UnderItsHeader
    <3> QED  BY <2>1, <2>3, <3>1, OperationsAreReadable, TransactionTells
  <2> QED  BY <2>1, <2>4, <2>5 DEF EntryOf
<1> QED  BY <1>1, ReadingInvariant, PTL

\* A statement with the header of a bank is taken for one of this bank and
\* read to its end (detect_parser, find_header and map_columns agree); one of
\* Privat24 that mentions an MCC is not read under its own header as another's.
THEOREM StatementsAreTheirBanks == Spec => []ParsedAsItsBank
<1> DEFINE Mentioned(b) ==
               b = "privat" /\ \E o \in HeadKinds \cap OperationKinds : Operations[o].mcc
<1>1. ASSUME ReadingInv PROVE ParsedAsItsBank
  <2> SUFFICES ASSUME NEW b \in Banks, outcome # "none", sheet # 0,
                      HeadKinds \cap HeaderKinds # {},
                      HeadKinds \cap HeaderKinds \subseteq HeadersOf(b)
               PROVE  \/ outcome = "parsed" /\ bank = {b}
                      \/ file.marked /\ outcome = "unknown"
                      \/ Mentioned(b) /\ (outcome = "parsed" => header > HeadLimit)
    BY DEF ParsedAsItsBank
  <2>1. RowsKept /\ Loaded /\ BankKnown
    BY <1>1, RowsAreKept DEF ReadingInv
  <2>2. outcome \in {"parsed", "unknown", "headless", "incomplete"}
    <3>1. outcome # "empty"
      BY <2>1 DEF Loaded, HeadKinds
    <3> QED  BY <2>1, <3>1 DEF Loaded, Outcomes
  <2>3. CASE garbled
    BY <2>1, <2>2, <2>3, Recognised DEF Loaded, BankKnown, Sniffed
  <2>4. CASE ~ garbled /\ ~ Mentioned(b)
    <3>1. /\ Sniffed(b) /\ \A c \in Banks : Sniffed(c) => c = b
          /\ HeaderRows(b) # {}
          /\ Contains(b, Words(KindOf(rows[Min(HeaderRows(b))])), Required(b))
      BY <2>1, <2>4, ItsBankIsFound
    <3>2. outcome # "unknown"
      BY <2>1, <3>1 DEF BankKnown, Sniffed
    <3>3. bank = {b}
      BY <2>1, <2>2, <3>1, <3>2 DEF BankKnown
    <3> QED  BY <2>1, <2>2, <3>1, <3>2, <3>3 DEF BankKnown
  <2>5. CASE ~ garbled /\ Mentioned(b) /\ outcome = "parsed" /\ ~ (header > HeadLimit)
    <3> DEFINE kind == KindOf(rows[header])
    <3>1. PICK c \in Banks : bank = {c} /\ Sniffed(c) /\ header \in HeaderRows(c)
      BY <2>1, <2>5 DEF BankKnown
    <3>2. /\ header \in 1..Len(rows) /\ kind \in Kinds /\ kind \in HeaderKinds
          /\ Contains(c, Words(kind), Markers(c))
      BY <2>1, <3>1, HeaderRow DEF HeaderRows, RowsKept
    <3>3. kind \in HeadKinds
      BY <2>1, <2>5, <3>2, LimitsArePositive DEF HeadKinds, RowsKept
    <3>4. Words(kind) \subseteq BankColumns("privat")
      BY <2>5, <3>2, <3>3, WordsOfRow, HeadersOfBanks
    <3>5. c = "privat"
      BY <3>2, <3>4 DEF Banks, Contains, Markers, Hints, ColumnHints, BankColumns
    <3> QED  BY <2>5, <3>1, <3>5
  <2> QED  BY <2>3, <2>4, <2>5
<1> QED  BY <1>1, ReadingInvariant, PTL

\* The filled rows below the header are those the loop goes through.
LEMMA RowsBelow ==
    ASSUME NEW kinds, NEW r, AreFilled(r, kinds), NEW h \in 1..Len(r), Len(kinds) \in Nat
    PROVE  LET below == {i \in 1..Len(kinds) : i > r[h] /\ kinds[i] # "blank"}
           IN  /\ below = {r[k] : k \in h + 1 .. Len(r)}
               /\ Cardinality(below) = Len(r) - h
<1> DEFINE below == {i \in 1..Len(kinds) : i > r[h] /\ kinds[i] # "blank"}
           K == h + 1 .. Len(r)
           f == [k \in K |-> r[k]]
<1>1. Len(r) \in Nat /\ h \in Nat /\ K \subseteq 1..Len(r)
  BY DEF AreFilled
<1>2. \A k \in 1..Len(r) : r[k] \in 1..Len(kinds) /\ kinds[r[k]] # "blank"
  BY DEF AreFilled
<1>3. \A k, l \in 1..Len(r) : k < l <=> r[k] < r[l]
  BY DEF AreFilled
<1>4. \A i \in 1..Len(kinds) : kinds[i] # "blank" => \E k \in 1..Len(r) : r[k] = i
  BY DEF AreFilled
<1>5. \A k \in 1..Len(r) : k \in K <=> k > h
  BY <1>1
<1> HIDE DEF K
<1>6. below = {r[k] : k \in K}
  <2>1. ASSUME NEW k \in K PROVE r[k] \in below
    BY <1>1, <1>2, <1>3, <1>5
  <2>2. ASSUME NEW i \in below PROVE \E k \in K : r[k] = i
    <3>1. PICK k \in 1..Len(r) : r[k] = i
      BY <1>4
    <3>2. k > h
      BY <1>1, <1>2, <1>3, <3>1
    <3> QED  BY <1>5, <3>1, <3>2
  <2> QED  BY <2>1, <2>2
<1>7. f \in Bijection(K, below)
  <2>1. f \in [K -> below] /\ \A i \in below : \E k \in K : f[k] = i
    BY <1>6
  <2>2. ASSUME NEW k \in K, NEW l \in K, f[k] = f[l] PROVE k = l
    <3>1. k \in 1..Len(r) /\ l \in 1..Len(r) /\ r[k] = r[l] /\ r[k] \in Nat
      BY <1>1, <1>2, <2>2
    <3>2. ~ (k < l) /\ ~ (l < k)
      BY <1>3, <3>1
    <3> QED  BY <1>1, <3>1, <3>2
  <2> QED  BY <2>1, <2>2 DEF Bijection, Injection, Surjection, IsInjective
<1>8. IsFiniteSet(K) /\ Cardinality(K) = Len(r) - h
  <2>1. \A n, m \in Nat : m \in 1..n => (IF m + 1 > n THEN 0 ELSE n - (m + 1) + 1) = n - m
    OBVIOUS
  <2> QED  BY <1>1, <2>1, FS_Interval DEF K
<1>9. Cardinality(below) = Cardinality(K)
  BY <1>7, <1>8, FS_Bijection DEF ExistsBijection
<1> QED  BY <1>6, <1>8, <1>9 DEF K

\* Every row below the header of a parsed statement is a transaction or counts
\* as skipped, wherever blank and unreadable rows stand between (the loops of
\* parse in mono.py and privat.py).
THEOREM NoRowGetsLost == Spec => []RowsAccounted
<1>1. ASSUME ReadingInv PROVE RowsAccounted
  <2> SUFFICES ASSUME outcome = "parsed" PROVE RowsAccounted
    BY DEF RowsAccounted
  <2> DEFINE kinds == file.sheets[sheet].rows
             below == {i \in 1..Len(kinds) : i > rows[header] /\ kinds[i] # "blank"}
             places == {found[i].place : i \in DOMAIN found}
  <2>1. PICK b \in Banks : bank = {b} /\ Below /\ Passed(b)
    BY <1>1 DEF ReadingInv, BankKnown, RowsPassed
  <2>2. kinds \in Seq(Kinds) /\ AreFilled(rows, kinds) /\ RowsKept
    BY <1>1, SheetIsFilled, RowsAreKept DEF ReadingInv, Loaded
  <2>3. \A i : KindOf(i) = kinds[i]
    BY DEF KindOf
  <2> HIDE DEF kinds
  <2>4. Len(kinds) \in Nat /\ DOMAIN kinds = 1..Len(kinds) /\ header \in 1..Len(rows)
    BY <2>1, <2>2 DEF Below
  <2>5. below = {rows[k] : k \in header + 1 .. Len(rows)} /\ Cardinality(below) = Len(rows) - header
    BY <2>2, <2>4, RowsBelow
  <2>6. next = Len(rows) + 1 /\ Len(rows) \in Nat /\ header \in Nat
    BY <2>1, <2>2 DEF Below, RowsKept
  <2>7. ReadSoFar(b) = {k \in header + 1 .. Len(rows) : Readable(b, KindOf(rows[k]))}
    <3>1. next - 1 = Len(rows)
      BY <2>6
    <3> QED  BY <3>1 DEF ReadSoFar
  <2>8. DOMAIN found = 1..Len(found) /\ places = {rows[k] : k \in ReadSoFar(b)}
    <3>1. DOMAIN found = 1..Len(found)
      BY <2>1 DEF Passed
    <3>2. ASSUME NEW i \in 1..Len(found) PROVE \E k \in ReadSoFar(b) : found[i].place = rows[k]
      <4>1. found[i] \in {EntryOf(b, k) : k \in ReadSoFar(b)}
        BY <2>1, ElementOfSeq DEF Passed
      <4>2. PICK k \in ReadSoFar(b) : found[i] = EntryOf(b, k)
        BY <4>1
      <4> QED  BY <4>2 DEF EntryOf
    <3>3. ASSUME NEW k \in ReadSoFar(b) PROVE \E i \in 1..Len(found) : found[i].place = rows[k]
      <4>1. PICK i \in 1..Len(found) : found[i] = EntryOf(b, k)
        BY <2>1 DEF Passed
      <4> QED  BY <4>1 DEF EntryOf
    <3>4. places = {found[i].place : i \in 1..Len(found)}
      BY <3>1
    <3>5. \A p \in places : p \in {rows[k] : k \in ReadSoFar(b)}
      BY <3>2, <3>4
    <3>6. \A k \in ReadSoFar(b) : rows[k] \in places
      BY <3>3, <3>4
    <3> HIDE DEF places
    <3> QED  BY <3>1, <3>5, <3>6
  <2>9. ASSUME UnderItsHeader
        PROVE  \A k \in header + 1 .. Len(rows) :
                  Readable(b, KindOf(rows[k])) <=> IsOperation(KindOf(rows[k]))
    <3>1. \A k \in header + 1 .. Len(rows) : k \in 1..Len(rows)
      BY <2>6
    <3>2. \A k \in header + 1 .. Len(rows) : KindOf(rows[k]) \in Kinds /\ KindOf(rows[k]) # "blank"
      BY <2>2, <3>1 DEF RowsKept
    <3>3. KindOf(rows[header]) \in HeadersOf(b)
      BY <2>1, <2>9 DEF UnderItsHeader
    <3> QED  BY <2>1, <3>2, <3>3, OperationsAreReadable
  <2>10. UnderItsHeader => places = {i \in below : IsOperation(KindOf(i))}
    BY <2>5, <2>7, <2>8, <2>9
  <2>11. Len(found) + skipped = Cardinality(below)
    <3>1. Len(found) + skipped = next - 1 - header
      BY <2>1 DEF Passed
    <3>2. \A n, h \in Nat : n + 1 - 1 - h = n - h
      OBVIOUS
    <3> QED  BY <2>5, <2>6, <3>1, <3>2
  <2>12. below = {i \in DOMAIN kinds : i > rows[header] /\ KindOf(i) # "blank"}
    BY <2>3, <2>4
  <2> HIDE DEF below, places
  <2> QED  BY <2>10, <2>11, <2>12 DEF RowsAccounted, kinds, places
<1> QED  BY <1>1, ReadingInvariant, PTL

=============================================================================
