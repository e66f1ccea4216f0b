---------------------------- MODULE Attribution ----------------------------
(***************************************************************************)
(* attribute_orphans (domain/attribution.py): the rows of one statement    *)
(* that carry no card are given the card of the account whose chain of     *)
(* balances they fit.                                                      *)
(*                                                                         *)
(* A line is the source_row of a parsed operation.  Balances of an account *)
(* form a chain: the balance after an operation is the balance after the   *)
(* previous one plus the operation's amount.  The function takes the lines *)
(* without a card in chronological order, one per step here; a line fits a *)
(* chain when it agrees with its neighbours there, and is given the chain  *)
(* it fits when there is exactly one.                                      *)
(*                                                                         *)
(* "owner" is the card the operation was really made with.  The statement  *)
(* does not show it where it shows no card, and no action reads it: the    *)
(* properties compare it with what the function concludes.                 *)
(***************************************************************************)
EXTENDS Integers, FiniteSets

CONSTANTS
    Cards,       \* normalised card references
    NoCard,      \* account_hint of a row without a card
    NoBalance,   \* balance_after_minor of a row without a balance
    Files        \* the statements considered, functions on source rows

Records == [at : Int, amount : Int, balance : Int \cup {NoBalance},
            card : Cards \cup {NoCard}, owner : Cards]

ASSUME NoCardIsNoCard == NoCard \notin Cards

ASSUME NoBalanceIsNoNumber == NoBalance \notin Int

\* Source rows are numbers; a printed card is the card the operation used.
IsStatement(f) ==
    /\ DOMAIN f \subseteq Nat
    /\ IsFiniteSet(DOMAIN f)
    /\ \A l \in DOMAIN f : f[l] \in Records /\ f[l].card \in {NoCard, f[l].owner}

ASSUME FilesAreStatements == \A f \in Files : IsStatement(f)

VARIABLES
    file,      \* the parsed operations, as the parser hands them over
    hint,      \* account_hint of each operation, as the function sets it
    verdict    \* what the report says of each line

vars == <<file, hint, verdict>>

Lines == DOMAIN file

Verdicts == {"carded", "waiting", "resolved", "ambiguous", "unresolved"}

----------------------------------------------------------------------------
\* A bug of _sort_key: the source row without the minus.
RowsUpsideDown(l, m) ==
    \/ file[l].at < file[m].at
    \/ file[l].at = file[m].at /\ l < m

\* _sort_key: a statement runs from newer to older operations, so at equal
\* times the larger source row is the earlier operation.
Before(l, m) ==
    \/ file[l].at < file[m].at
    \/ file[l].at = file[m].at /\ l > m

HasBalance(l) == file[l].balance # NoBalance

\* chains[c]: the lines known to be of card c, those attributed so far too.
Chain(c) == {l \in Lines : hint[l] = c /\ HasBalance(l)}

\* The neighbours of line o among the given lines: the last one before it
\* and the first one after it, if any.
Predecessors(o, lines) ==
    {p \in lines : Before(p, o) /\ ~ \E q \in lines : Before(p, q) /\ Before(q, o)}

Successors(o, lines) ==
    {s \in lines : Before(o, s) /\ ~ \E q \in lines : Before(o, q) /\ Before(q, s)}

\* m continues the chain after l.
Continues(l, m) == file[l].balance + file[m].amount = file[m].balance

\* A bug of _fits: what follows in the chain is not looked at.
SuccessorForgotten(o, chain) ==
    /\ chain # {}
    /\ \A p \in Predecessors(o, chain) : Continues(p, o)

\* A bug of _fits: it compares with any earlier row, not with the last.
AnyEarlierRow(o, chain) ==
    /\ chain # {}
    /\ \A p \in {q \in chain : Before(q, o)} : Continues(p, o)
    /\ \A s \in Successors(o, chain) : Continues(o, s)

\* _fits
Fits(o, chain) ==
    /\ chain # {}
    /\ \A p \in Predecessors(o, chain) : Continues(p, o)
    /\ \A s \in Successors(o, chain) : Continues(o, s)

Candidates(o) == {c \in Cards : Fits(o, Chain(c))}

\* The lines the loop still has to look at, and the one it takes.
Orphans == {l \in Lines : verdict[l] = "waiting" /\ HasBalance(l)}

IsNext(o) == o \in Orphans /\ \A m \in Orphans \ {o} : Before(o, m)

----------------------------------------------------------------------------
Init ==
    /\ file \in Files
    /\ hint = [l \in Lines |-> file[l].card]
    /\ verdict = [l \in Lines |-> IF file[l].card = NoCard THEN "waiting" ELSE "carded"]

\* A bug of the loop: the list of candidates is stored, not its only element.
ListForHint(o) ==
    /\ IsNext(o)
    /\ Cardinality(Candidates(o)) = 1
    /\ hint' = [hint EXCEPT ![o] = Candidates(o)]
    /\ verdict' = [verdict EXCEPT ![o] = "resolved"]
    /\ UNCHANGED file

\* Exactly one chain fits: the line becomes part of it.
Resolve(o) ==
    /\ IsNext(o)
    /\ \E c \in Cards : /\ Candidates(o) = {c}
                        /\ hint' = [hint EXCEPT ![o] = c]
    /\ verdict' = [verdict EXCEPT ![o] = "resolved"]
    /\ UNCHANGED file

\* Several chains fit: the line is reported and left alone.
ReportAmbiguous(o) ==
    /\ IsNext(o)
    /\ \E c, d \in Candidates(o) : c # d
    /\ verdict' = [verdict EXCEPT ![o] = "ambiguous"]
    /\ UNCHANGED <<file, hint>>

\* No chain fits.
ReportUnresolved(o) ==
    /\ IsNext(o)
    /\ Candidates(o) = {}
    /\ verdict' = [verdict EXCEPT ![o] = "unresolved"]
    /\ UNCHANGED <<file, hint>>

\* After the loop: lines without a card and without a balance.
ReportWithoutBalance ==
    /\ Orphans = {}
    /\ \E l \in Lines : verdict[l] = "waiting"
    /\ verdict' = [l \in Lines |-> IF verdict[l] = "waiting" THEN "unresolved" ELSE verdict[l]]
    /\ UNCHANGED <<file, hint>>

Next ==
    \/ \E o \in Lines : Resolve(o)
    \/ \E o \in Lines : ReportAmbiguous(o)
    \/ \E o \in Lines : ReportUnresolved(o)
    \/ ReportWithoutBalance

Spec == Init /\ [][Next]_vars

----------------------------------------------------------------------------
TypeOK ==
    /\ \A l \in Lines : file[l] \in Records
    /\ hint \in [Lines -> Cards \cup {NoCard}]
    /\ verdict \in [Lines -> Verdicts]

\* What is reported of a line agrees with what was done to it: the function
\* touches no printed card, and a line has one if and only if it was printed
\* or is reported resolved.
ReportTellsHints ==
    \A l \in Lines :
        /\ file[l].card # NoCard => hint[l] = file[l].card
        /\ hint[l] # NoCard <=> verdict[l] \in {"carded", "resolved"}

\* The order in which the operations of a statement happened, whatever the
\* function sorts by: the bank prints the newer ones above the older ones
\* (attribution.py:56-57).
Happened(l, m) ==
    \/ file[l].at < file[m].at
    \/ file[l].at = file[m].at /\ m < l

\* The operations that happened next to o, just before it and just after it.
JustBefore(o, lines) ==
    {p \in lines : Happened(p, o) /\ ~ \E q \in lines : Happened(p, q) /\ Happened(q, o)}

JustAfter(o, lines) ==
    {s \in lines : Happened(o, s) /\ ~ \E q \in lines : Happened(o, q) /\ Happened(q, s)}

\* The balances of the lines are one unbroken chain.
Continuous(lines) ==
    \A m \in lines : \A l \in JustBefore(m, lines) : Continues(l, m)

Printed(c) == {l \in Lines : file[l].card = c /\ HasBalance(l)}

\* Attribution never breaks a chain: an account whose printed rows are
\* continuous stays so with every row it is given (attribution.py:7-16).
ChainsStayWhole ==
    \A c \in Cards : Continuous(Printed(c)) => Continuous(Chain(c))

\* The lines of an account that the statement really shows.
OwnLines(c) == {l \in Lines : file[l].owner = c}

\* The statement tells the truth: neighbouring operations of one account
\* continue each other where both balances are printed.
Truthful ==
    \A c \in Cards : \A m \in OwnLines(c) : \A l \in JustBefore(m, OwnLines(c)) :
        HasBalance(l) /\ HasBalance(m) => Continues(l, m)

\* A line without a card stands alone: its account shows other lines, and
\* those next to it in the account carry the card and a balance.
Alone(o) ==
    LET own == OwnLines(file[o].owner)
    IN  /\ own # {o}
        /\ \A l \in JustBefore(o, own) \cup JustAfter(o, own) :
              file[l].card # NoCard /\ HasBalance(l)

OrphansStandAlone ==
    \A o \in Lines : file[o].card = NoCard /\ HasBalance(o) => Alone(o)

\* In a truthful statement whose lines without a card stand alone, no line is
\* ever given to an account that is not its own, whatever coincidences the
\* balances of other accounts hold, and none is reported unresolved.
NeverMisattributed ==
    Truthful /\ OrphansStandAlone =>
        \A l \in Lines : /\ hint[l] \in {NoCard, file[l].owner}
                         /\ HasBalance(l) => verdict[l] # "unresolved"

=============================================================================
