---------------------------- MODULE MCReconcile ----------------------------
(***************************************************************************)
(* Histories of four operations of two cards, or of one account that shows *)
(* no card, with any amounts misread, in one file, in two or in files that *)
(* overlap, the second of which prints operations in another manner.       *)
(***************************************************************************)
EXTENDS Reconcile

Card1 == <<"4">>
Card2 == <<"5">>

\* Two names of files that differ in case alone.
Stem1 == <<"N">>
Stem2 == <<"n">>

TheCards == {Card1, Card2}
TheStems == {Stem1, Stem2}
TheCurrencies == {"UAH", "USD"}

Operations == 1 .. 4

\* What operations are for, and how another statement prints it.
No4 == <<"N", "o", "space", "4">>
No5 == <<"N", "o", "space", "5">>
NoJoined == <<"numero">>
NoApart == <<"n", "comma", "o">>

Reprint == (No4 :> <<"numero", "comma", "nbsp", "4">>)
           @@ (No5 :> <<"space", "n", "O", "space", "space", "5", "comma">>)
           @@ (NoJoined :> <<"n", "o", "comma">>) @@ (NoApart :> <<"N", "nbsp", "o">>)

TheDescriptions == DOMAIN Reprint \cup {Reprint[text] : text \in DOMAIN Reprint}

\* Times of the operations in seconds, what they are for, and in which currency.
Appearances ==
    {[at |-> <<60, 60, 60, 60>>, says |-> <<No4, No5, No5, NoJoined>>,
      currency |-> <<"UAH", "UAH", "UAH", "UAH">>],
     [at |-> <<60, 61, 119, 120>>, says |-> <<NoJoined, NoApart, NoJoined, NoJoined>>,
      currency |-> <<"UAH", "UAH", "UAH", "UAH">>],
     [at |-> <<60, 120, 121, 180>>, says |-> <<No4, No4, No4, No4>>,
      currency |-> <<"UAH", "USD", "UAH", "UAH">>]}

Owners == {o \in [Operations -> TheCards] : o[1] = Card1}

Charges == {<<1, 1, 1, 1>>, <<-1, 1, -1, 1>>}

RunningTotal(charged, owner, l) ==
    LET own(m) == IF m <= l /\ owner[m] = owner[l] THEN charged[m] ELSE 0
    IN  own(1) + own(2) + own(3) + own(4)

History(seems, owner, carded, charged, wrong) ==
    [l \in Operations |->
        LET read == IF l \in wrong THEN charged[l] + 1 ELSE charged[l]
        IN  [op |-> l, at |-> seems.at[l], charged |-> charged[l],
             amount |-> read, minor |-> read, currency |-> seems.currency[l],
             description |-> seems.says[l], balance |-> RunningTotal(charged, owner, l),
             card |-> IF carded THEN owner[l] ELSE NoCard]]

\* Two cards that are printed, or one that is not.
Ownerships == {[of |-> o, carded |-> TRUE] : o \in Owners}
                  \cup {[of |-> [l \in Operations |-> Card1], carded |-> FALSE]}

Histories ==
    {History(seems, o.of, o.carded, charged, wrong) :
        seems \in Appearances, o \in Ownerships, charged \in Charges,
        wrong \in SUBSET Operations}

\* The operations from first to last, the last one at the top.
File(h, stem, first, last) ==
    [stem |-> stem, readable |-> TRUE,
     rows |-> [r \in 1 .. (last - first + 1) |-> h[last - r + 1]]]

\* The bank prints no seconds in this one, and texts in a manner of its own.
Other(file) ==
    [file EXCEPT !.rows = [r \in DOMAIN file.rows |->
        [file.rows[r] EXCEPT !.at = 60 * Minute(file.rows[r].at),
                             !.description = Reprint[file.rows[r].description]]]]

Broken == [stem |-> Stem2, readable |-> FALSE, rows |-> <<>>]

Empty == [stem |-> Stem2, readable |-> TRUE, rows |-> <<>>]

\* Statements of periods that overlap.
OverlappingInputs ==
    UNION {{<<File(h, Stem1, 1, 3), Other(File(h, Stem2, 2, 4))>>,
            <<File(h, Stem1, 1, 3), Other(File(h, Stem1, 2, 4))>>} : h \in Histories}

\* One file, two periods in either order, periods that overlap, and files
\* that have nothing to offer.
TheInputs ==
    UNION {{<<File(h, Stem1, 1, 4)>>,
            <<File(h, Stem1, 1, 2), File(h, Stem1, 3, 4)>>,
            <<File(h, Stem1, 3, 4), File(h, Stem2, 1, 2)>>} : h \in Histories}
        \cup OverlappingInputs \cup {<<Empty>>, <<Empty, Broken>>}

=============================================================================
