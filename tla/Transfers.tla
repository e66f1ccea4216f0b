----------------------------- MODULE Transfers -----------------------------
(***************************************************************************)
(* match_internal_transfers (domain/transfers.py): an outgoing and an      *)
(* incoming row of the same size in two accounts of a household, close in  *)
(* time, are one transfer and not spending and income.                     *)
(*                                                                         *)
(* The outgoing rows are taken by booking time, one per step; each takes   *)
(* the closest incoming row that nobody has taken before it.  Sorting is   *)
(* stable, so among equal times the position in the input, which is the    *)
(* row's id here, decides.                                                 *)
(***************************************************************************)
EXTENDS Integers, FiniteSetsExt

CONSTANTS
    Accounts,  \* account ids
    Window,    \* how far apart the two halves of a transfer may be booked
    Tables     \* the lists of rows considered, functions on positions

TransferRows == [account : Accounts, at : Int, amount : Int]

ASSUME WindowIsTime == Window \in Nat

ASSUME TablesAreRows ==
    \A t \in Tables : /\ DOMAIN t \subseteq Nat /\ IsFiniteSet(DOMAIN t)
                      /\ \A r \in DOMAIN t : t[r] \in TransferRows

VARIABLES
    rows,    \* the list the function is given
    looked,  \* outgoing rows the loop has been through
    pairs    \* <<outgoing, incoming>>, the transfers found

vars == <<rows, looked, pairs>>

Ids == DOMAIN rows

Outgoing == {r \in Ids : rows[r].amount < 0}

\* A bug of the index: every incoming row is a candidate, of any size.
AnyIncoming(o) == {r \in Ids : rows[r].amount > 0 /\ rows[o].amount < 0}

\* incoming_by_amount, the bucket of an outgoing row.
Bucket(o) == {r \in Ids : rows[r].amount > 0 /\ rows[r].amount = - rows[o].amount}

Used == {p[1] : p \in pairs} \cup {p[2] : p \in pairs}

\* The order of both sorted lists.
Before(r, s) ==
    \/ rows[r].at < rows[s].at
    \/ rows[r].at = rows[s].at /\ r < s

Delta(r, s) ==
    IF rows[r].at <= rows[s].at THEN rows[s].at - rows[r].at ELSE rows[r].at - rows[s].at

\* The incoming rows that could be the other half of o.
Partners(o) ==
    {i \in Bucket(o) : rows[i].account # rows[o].account /\ Delta(i, o) <= Window}

\* A bug of the loop: a row taken by an earlier transfer is offered again.
FreeForAll(o) == Partners(o)

Free(o) == Partners(o) \ Used

----------------------------------------------------------------------------
\* The scan of the bucket accepts a candidate as close as the best so far,
\* so the closest wins, and of several equally close ones the last.
Preferred(o, i, j) ==
    \/ Delta(i, o) < Delta(j, o)
    \/ Delta(i, o) = Delta(j, o) /\ Before(j, i)

\* A bug of the scan: best_delta is not lowered to the delta accepted.
LastInWindow(o, i) ==
    /\ i \in Free(o)
    /\ \A j \in Free(o) \ {i} : Before(j, i)

Closest(o, i) ==
    /\ i \in Free(o)
    /\ \A j \in Free(o) \ {i} : Preferred(o, i, j)

IsNext(o) ==
    /\ o \in Outgoing \ looked
    /\ \A r \in Outgoing \ looked : r # o => Before(o, r)

Init ==
    /\ rows \in Tables
    /\ looked = {}
    /\ pairs = {}

\* A bug of the loop: the pair is remembered the other way round.
MatchReversed(o) ==
    /\ IsNext(o)
    /\ \E i \in Ids : Closest(o, i) /\ pairs' = pairs \cup {<<i, o>>}
    /\ looked' = looked \cup {o}
    /\ UNCHANGED rows

\* One outgoing row, with a candidate in the window.
Match(o) ==
    /\ IsNext(o)
    /\ \E i \in Ids : Closest(o, i) /\ pairs' = pairs \cup {<<o, i>>}
    /\ looked' = looked \cup {o}
    /\ UNCHANGED rows

\* One outgoing row without any.
LeaveAlone(o) ==
    /\ IsNext(o)
    /\ Free(o) = {}
    /\ looked' = looked \cup {o}
    /\ UNCHANGED <<rows, pairs>>

Next ==
    \/ \E o \in Ids : Match(o)
    \/ \E o \in Ids : LeaveAlone(o)

Spec == Init /\ [][Next]_vars

----------------------------------------------------------------------------
\* What reconcile.py makes of the pairs: spending and income without them.
Amount(r) == rows[r].amount

RealSpend == MapThenSumSet(Amount, {r \in Outgoing : r \notin Used})

RealIncome == MapThenSumSet(Amount, {r \in Ids \ Outgoing : r \notin Used})

----------------------------------------------------------------------------
TypeOK ==
    /\ \A r \in Ids : rows[r] \in TransferRows
    /\ looked \subseteq Outgoing
    /\ pairs \subseteq looked \X (Ids \ Outgoing)

\* "Each transaction can be matched only once" (transfers.py:18): no row is
\* part of two transfers, on either side.
EachMatchedOnce ==
    \A p, q \in pairs : p # q => p[1] # q[1] /\ p[2] # q[2]

\* "The difference in time is less than the window" (transfers.py:16).
WithinWindow(o, i) == rows[i].at - rows[o].at \in 1 - Window .. Window - 1

\* The two rows have what transfers.py:12-16 asks of a transfer: opposite
\* signs, the same size, different accounts, and times that are near enough.
CouldBeTransfer(o, i) ==
    /\ rows[o].amount < 0 /\ rows[o].amount + rows[i].amount = 0
    /\ rows[o].account # rows[i].account
    /\ WithinWindow(o, i)

\* Why i is no longer to be had for o: it is its partner, or o has one that is
\* as close, or an earlier outgoing row has taken i.
Accounted(o, i) ==
    \/ <<o, i>> \in pairs
    \/ \E j \in Ids : <<o, j>> \in pairs /\ Delta(j, o) <= Delta(i, o)
    \/ \E e \in looked : <<e, i>> \in pairs /\ rows[e].at <= rows[o].at

\* For two rows that are a transfer by what transfers.py:12-16 says of one, and
\* that were not paired, there is always a reason: the outgoing row has a
\* partner as close, or the incoming one was taken by an outgoing row that is
\* not later.  What happens to rows exactly one window apart is left open here.
NoTransferOverlooked ==
    \A o \in looked : \A i \in Ids : CouldBeTransfer(o, i) => Accounted(o, i)

\* Leaving transfers out hides no money: what remains of spending and income
\* adds up to the change of all balances together.
BalanceUntouched ==
    RealSpend + RealIncome = MapThenSumSet(Amount, Ids)

=============================================================================
