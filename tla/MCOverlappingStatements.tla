---------------------- MODULE MCOverlappingStatements ----------------------
(***************************************************************************)
(* Every history of four operations of two cards, up to the names of the   *)
(* cards, told truthfully, with the cards of one to three operations and   *)
(* the balance of up to one of them hidden: in one statement, or in two    *)
(* that overlap, the first of which is uploaded again.                     *)
(***************************************************************************)
EXTENDS OverlappingStatements

CONSTANTS c1, c2, d

Operations == 1 .. 4

\* Times of the operations: newest first, as the bank exports them, or not.
Times == { <<2, 2, 1, 1>>, <<1, 1, 2, 2>> }

Earlier(at, l, m) == at[l] < at[m] \/ (at[l] = at[m] /\ l > m)

\* The row the bank prints for operation l of a history: card c1 starts at 0
\* and c2 at the given opening balance.
Row(l, at, owner, amount, opening, cardless, bare) ==
    LET moved(m) == IF owner[m] = owner[l] /\ ~ Earlier(at, l, m) THEN amount[m] ELSE 0
        start == IF owner[l] = c2 THEN opening ELSE 0
    IN  [at      |-> at[l],
         amount  |-> amount[l],
         balance |-> IF l \in bare THEN NoBalance
                     ELSE start + moved(1) + moved(2) + moved(3) + moved(4),
         card    |-> IF l \in cardless THEN NoCard ELSE owner[l],
         owner   |-> owner[l]]

SetsOf(sizes) == {S \in SUBSET Operations : Cardinality(S) \in sizes}

Histories ==
    { << Row(1, at, owner, amount, opening, cardless, bare),
         Row(2, at, owner, amount, opening, cardless, bare),
         Row(3, at, owner, amount, opening, cardless, bare),
         Row(4, at, owner, amount, opening, cardless, bare) >> :
        at \in Times, owner \in {o \in [Operations -> Cards] : o[1] = c1},
        amount \in [Operations -> {-1, 1}], opening \in {0, 1},
        cardless \in SetsOf(1 .. 3), bare \in SetsOf(0 .. 1) }

\* The operations each statement of a series shows.
Periods ==
    { <<1 .. 4>>,
      <<1 .. 3, 2 .. 4, 1 .. 3>>,
      <<2 .. 4, 1 .. 4, 2 .. 4>>,
      <<1 .. 4, 2 .. 3, 1 .. 4>> }

Show(h, period) == [l \in period |-> h[l]]

Uploaded == { [i \in DOMAIN p |-> Show(h, p[i])] : h \in Histories, p \in Periods }

Statements == { Show(h, period) : h \in Histories, period \in {1 .. 3, 2 .. 3, 2 .. 4, 1 .. 4} }

=============================================================================
