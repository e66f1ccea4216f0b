-------------------------- MODULE MCImportService --------------------------
(***************************************************************************)
(* Small instances of ImportService.                                       *)
(***************************************************************************)
EXTENDS ImportService, TLC

CONSTANTS u1, u2, u3, h1, h2, c1, c2, p, q, r, huge

Readable(rows) == [readable |-> TRUE, rows |-> rows]

Card(c, op) == [hint |-> c, op |-> op]

\* Two households, two cards: statements of one card in either order, a
\* statement that names a second card, rows without a card, one operation
\* twice in a file (and under two names when the default is c1's account),
\* too many rows for a statement, a number too wide for its column, no rows,
\* and a file no parser takes.
TenantFiles ==
    { Readable(<<Card(c1, p), Card(c1, q)>>),
      Readable(<<Card(c1, q), Card(c1, p)>>),
      Readable(<<Card(NoHint, p), Card(c1, p)>>),
      Readable(<<Card(c2, p), Card(NoHint, q)>>),
      Readable(<<Card(c1, p), Card(c1, q), Card(c2, p)>>),
      Readable(<<Card(c1, p), Card(NoHint, huge)>>),
      Readable(<<>>),
      [readable |-> FALSE, rows |-> <<>>] }

\* One card, overlapping statements that three uploads can wait for in a ring,
\* and one with too many rows.
RingFiles ==
    { Readable(<<Card(NoHint, p), Card(NoHint, q)>>),
      Readable(<<Card(NoHint, q), Card(NoHint, r)>>),
      Readable(<<Card(NoHint, r), Card(NoHint, p)>>),
      Readable(<<Card(NoHint, r), Card(NoHint, q), Card(NoHint, p)>>) }

\* The households are interchangeable.
HouseholdSymmetry == Permutations(Households)

=============================================================================
