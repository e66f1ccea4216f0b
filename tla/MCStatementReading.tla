------------------------- MODULE MCStatementReading -------------------------
(***************************************************************************)
(* Small files of every shape: at most one header in a sheet and only      *)
(* titles and blank rows above it, or two headers, or an operation above   *)
(* the header.                                                             *)
(***************************************************************************)
EXTENDS StatementReading

CONSTANTS MaxAbove, MaxBelow

\* The headers of both banks as they print them, others with some of their
\* columns in another order, one without a description, and two with columns
\* of both: in mixedHeader monobank's parser finds another currency first, and
\* in foreignHeader that of Privat24 takes one column for the date and for the
\* time.
TheTitles ==
    [monoHeader    |-> <<"dateAndTime", "details", "mcc", "cardAmount", "operationAmount", "currency",
                         "rate", "commission", "cashback", "balance">>,
     turnedHeader  |-> <<"balance", "currency", "cardAmount", "mcc", "details", "dateAndTime">>,
     privatHeader  |-> <<"date", "category", "card", "description", "cardAmount", "cardCurrency",
                         "transactionAmount", "transactionCurrency", "closingBalance",
                         "balanceCurrency">>,
     timedHeader   |-> <<"transactionCurrency", "cardCurrency", "cardAmount", "description", "card",
                         "time", "date">>,
     bareHeader    |-> <<"date", "cardAmount", "cardCurrency">>,
     mixedHeader   |-> <<"dateAndTime", "details", "mcc", "cardAmount", "cardCurrency", "currency">>,
     foreignHeader |-> <<"dateAndTime", "description", "cardAmount", "cardCurrency">>]

Optional == {"time", "category", "card", "mcc", "operationAmount", "currency", "cardCurrency",
             "transactionAmount", "transactionCurrency", "balance", "closingBalance"}

Row == [ends |-> 10, gaps |-> {}, spoiled |-> {}, mcc |-> FALSE]

TheOperations ==
    [operation    |-> Row,
     mccOperation |-> [Row EXCEPT !.mcc = TRUE],
     sparse       |-> [Row EXCEPT !.gaps = Optional],
     short        |-> [Row EXCEPT !.ends = 5],
     broken       |-> [Row EXCEPT !.spoiled = {"cardAmount"}],
     strange      |-> [Row EXCEPT !.spoiled = {"balance", "transactionAmount", "time"}],
     dashes       |-> [Row EXCEPT !.gaps = Columns]]

Above == UNION {[1..n -> {"blank", "dashes", "title"}] : n \in 0..MaxAbove}

Below == UNION {[1..n -> OperationKinds \cup {"blank"}] : n \in 0..MaxBelow}

\* Tables with something that is not expected above the header.
Doubled ==
    {<<a, h, b>> : a \in HeaderKinds \cup {"mccOperation"}, h \in HeaderKinds,
                   b \in {"operation", "mccOperation", "sparse"}}
        \cup {<<h, "mccOperation", g, "operation">> : h \in HeaderKinds, g \in HeaderKinds}

Tables ==
    {a \o <<h>> \o b : a \in Above, h \in HeaderKinds, b \in Below} \cup Above \cup Doubled

\* Contents of sheets that stand beside another one.
Fills == {<<>>, <<"blank">>, <<"title">>, <<"monoHeader", "operation">>}

OneSheet == {<<[named |-> n, rows |-> t]>> : n \in BOOLEAN, t \in Tables}

TwoSheets ==
    {<<[named |-> m, rows |-> f], [named |-> n, rows |-> t]>> :
        m \in BOOLEAN, n \in BOOLEAN, f \in Fills, t \in Fills \cup {<<"privatHeader", "broken", "operation">>}}

TheFiles ==
    [format : {"csv"}, delimiter : {","}, marked : {FALSE}, sheets : {s \in OneSheet : ~ s[1].named}]
        \cup [format : {"csv"}, delimiter : {";"}, marked : {FALSE},
              sheets : {s \in OneSheet : ~ s[1].named /\ Len(s[1].rows) <= 4}]
        \cup [format : {"csv"}, delimiter : {","}, marked : {TRUE},
              sheets : {<<[named |-> FALSE, rows |-> t]>> : t \in Fills \cup {<<"privatHeader", "operation">>}}]
        \cup [format : {"xlsx"}, delimiter : {","}, marked : {FALSE},
              sheets : {<<>>} \cup {s \in OneSheet : Len(s[1].rows) <= 3} \cup TwoSheets]
        \cup [format : {"archive", "empty", "other"}, delimiter : {","}, marked : {FALSE}, sheets : {<<>>}]

=============================================================================
