----------------------------- MODULE Reconcile -----------------------------
(***************************************************************************)
(* scripts/reconcile.py: statements are read without a database, the chain *)
(* of balances of every account is followed, and operations that the key   *)
(* of deduplication would merge are counted.  (The transfers it goes on to *)
(* look for are those of module Transfers.)                                *)
(*                                                                         *)
(* A row keeps what the bank charged beside the amount the parser read.    *)
(* Rows are numbered from the top of their file; op is the place of the    *)
(* operation in the history of the bank.  The script sees neither charged  *)
(* nor op.  References of accounts are texts of module Dedup.              *)
(***************************************************************************)
EXTENDS Dedup

CONSTANTS
    Cards, NoCard,
    Descriptions, Currencies,
    NoBalance,
    Stems,      \* names of files without the suffix
    Inputs      \* lists of files

ASSUME NoCardIsNoCard == NoCard \notin Cards

ASSUME DescriptionsAreTexts == Descriptions \subseteq Seq(Characters)

ASSUME NoBalanceIsNoNumber == NoBalance \notin Int

\* tx.account_hint or fallback
Accounts == Cards \cup Stems

\* amount is in the currency of the account, minor in that of the operation.
Rows == [op : Nat, at : Nat, charged : Int, amount : Int, minor : Int, currency : Currencies,
         description : Descriptions, balance : Int \cup {NoBalance}, card : Cards \cup {NoCard}]

ASSUME InputsAreLists ==
    \A i \in Inputs : i \in Seq([stem : Stems, readable : BOOLEAN, rows : Seq(Rows)])

VARIABLES
    files,       \* the files still to be read
    entries,     \* the rows read, with their accounts
    phase,       \* what the script does
    report,      \* what is printed of the chain of each account
    place,       \* how many entries were looked up among the seen ones
    seen,        \* keys
    collisions

vars == <<files, entries, phase, report, place, seen, collisions>>

Phases == {"collect", "chains", "collisions", "done", "failed"}

----------------------------------------------------------------------------
\* The entry of row r of a file.
Entry(f, r) ==
    [account |-> IF f.rows[r].card = NoCard THEN f.stem ELSE f.rows[r].card,
     row |-> r, tx |-> f.rows[r]]

\* by_account: the entries with a balance.
OfAccount(a) ==
    {e \in DOMAIN entries : entries[e].account = a /\ entries[e].tx.balance # NoBalance}

WithBalance == {a \in Accounts : OfAccount(a) # {}}

\* A bug of the sort: rows of one minute stay in the order of the file.
FileOrder(d, e) ==
    \/ entries[d].tx.at < entries[e].tx.at
    \/ entries[d].tx.at = entries[e].tx.at /\ d < e

\* sorted by (booked_at, -source_row), which is stable.
Earlier(d, e) ==
    \/ entries[d].tx.at < entries[e].tx.at
    \/ /\ entries[d].tx.at = entries[e].tx.at
       /\ \/ entries[d].row > entries[e].row
          \/ entries[d].row = entries[e].row /\ d < e

\* The pairs of pairwise(ordered).
Neighbours(a) ==
    {p \in OfAccount(a) \X OfAccount(a) :
        /\ Earlier(p[1], p[2])
        /\ ~ \E d \in OfAccount(a) : Earlier(p[1], d) /\ Earlier(d, p[2])}

\* The rows that do not continue the balance before them.
Breaks(a) ==
    {p[2] : p \in {q \in Neighbours(a) :
        entries[q[2]].tx.balance - entries[q[2]].tx.amount # entries[q[1]].tx.balance}}

Key(e) ==
    LET tx == entries[e].tx
    IN  << entries[e].account,
           DedupHash(entries[e].account, tx.at, tx.minor, tx.currency, tx.description) >>

----------------------------------------------------------------------------
Init ==
    /\ files \in Inputs
    /\ entries = <<>>
    /\ phase = "collect"
    /\ report = <<>>
    /\ place = 0
    /\ seen = {}
    /\ collisions = 0

\* collect reads one more file.
Collect ==
    /\ phase = "collect" /\ files # <<>> /\ Head(files).readable
    /\ entries' = entries \o [r \in DOMAIN Head(files).rows |-> Entry(Head(files), r)]
    /\ files' = Tail(files)
    /\ UNCHANGED <<phase, report, place, seen, collisions>>

\* A file that cannot be read, or no operation at all: the script returns 1.
\* (An undecodable file raises a ValueError, which main does not catch: the
\* script ends with a traceback, and prints as little.)
GiveUp ==
    /\ phase = "collect"
    /\ IF files = <<>> THEN entries = <<>> ELSE ~ Head(files).readable
    /\ phase' = "failed"
    /\ UNCHANGED <<files, entries, report, place, seen, collisions>>

StartChecks ==
    /\ phase = "collect" /\ files = <<>> /\ entries # <<>>
    /\ phase' = "chains"
    /\ UNCHANGED <<files, entries, report, place, seen, collisions>>

\* check_balance_chain of one account: how many breaks, and which is first.
CheckChain(a) ==
    /\ phase = "chains"
    /\ a \in WithBalance \ DOMAIN report
    /\ report' = [b \in DOMAIN report \cup {a} |->
                     IF b # a THEN report[b]
                     ELSE [count |-> Cardinality(Breaks(a)),
                           first |-> {e \in Breaks(a) : \A d \in Breaks(a) \ {e} : Earlier(e, d)}]]
    /\ UNCHANGED <<files, entries, phase, place, seen, collisions>>

StartCollisions ==
    /\ phase = "chains" /\ DOMAIN report = WithBalance
    /\ phase' = "collisions"
    /\ UNCHANGED <<files, entries, report, place, seen, collisions>>

\* check_dedup_collisions looks one more entry up.
LookUp ==
    /\ phase = "collisions" /\ place < Len(entries)
    /\ place' = place + 1
    /\ IF Key(place') \in seen
       THEN collisions' = collisions + 1 /\ UNCHANGED seen
       ELSE seen' = seen \cup {Key(place')} /\ UNCHANGED collisions
    /\ UNCHANGED <<files, entries, phase, report>>

Finish ==
    /\ phase = "collisions" /\ place = Len(entries)
    /\ phase' = "done"
    /\ UNCHANGED <<files, entries, report, place, seen, collisions>>

Next ==
    \/ Collect
    \/ GiveUp
    \/ StartChecks
    \/ \E a \in WithBalance : CheckChain(a)
    \/ StartCollisions
    \/ LookUp
    \/ Finish

Spec == Init /\ [][Next]_vars

----------------------------------------------------------------------------
Tx(e) == entries[e].tx

\* An operation is shown once and later ones have later times; of one minute
\* the older operation stands further down and was read later.
NewestFirst ==
    \A d, e \in DOMAIN entries : Tx(d).op <= Tx(e).op =>
        /\ Tx(d).at <= Tx(e).at
        /\ Tx(d).at = Tx(e).at /\ d # e => entries[d].row > entries[e].row /\ d > e

\* The balances are printed and true.
BalancesTrue ==
    /\ \A e \in DOMAIN entries : Tx(e).balance # NoBalance
    /\ \A a \in Accounts : \A e \in OfAccount(a) :
          LET before == {d \in OfAccount(a) : Tx(d).op < Tx(e).op}
          IN  \A d \in before : (\A c \in before : Tx(c).op <= Tx(d).op)
                  => Tx(e).balance = Tx(d).balance + Tx(e).charged

\* The rows with a wrong amount that have a row of their account before them.
Misread(a) ==
    {e \in OfAccount(a) : /\ Tx(e).amount # Tx(e).charged
                          /\ \E d \in OfAccount(a) : Tx(d).op < Tx(e).op}

\* Breaks and errors of the parser (reconcile.py:5-8): over statements of
\* separate periods with true balances, the chain breaks at the rows whose
\* amount was misread and nowhere else, and the first one printed is the
\* earliest.
BreaksAreMisreads ==
    phase \in {"collisions", "done"} /\ NewestFirst /\ BalancesTrue =>
        \A a \in WithBalance :
            /\ report[a].count = Cardinality(Misread(a))
            /\ report[a].first =
                   {e \in Misread(a) : \A d \in Misread(a) : Tx(e).op <= Tx(d).op}

\* "A break means an error of the parser" (reconcile.py:7), for any statements:
\* where balances are true and every amount was read as charged, none is shown.
BreakMeansError ==
    LET nothingMisread == \A e \in DOMAIN entries : Tx(e).amount = Tx(e).charged
    IN  phase \in {"collisions", "done"} /\ BalancesTrue /\ nothingMisread =>
            \A a \in WithBalance : report[a].count = 0

\* Two rows say the same of one account.
SayTheSame(d, e) ==
    /\ entries[d].account = entries[e].account
    /\ Minute(Tx(d).at) = Minute(Tx(e).at)
    /\ Tx(d).minor = Tx(e).minor
    /\ Tx(d).currency = Tx(e).currency
    /\ Words(Tx(d).description) = Words(Tx(e).description)

\* The collisions printed are the rows that repeat an earlier one of their
\* account, in whatever case, spacing and punctuation and with or without
\* seconds it was printed (dedup.py:22-30, 52-53); rows that say something
\* else are not among them, however alike they look.
CollisionsAreRepeats ==
    phase = "done" =>
        collisions = Cardinality({e \in DOMAIN entries : \E d \in 1 .. e - 1 : SayTheSame(d, e)})

=============================================================================
