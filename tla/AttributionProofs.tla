------------------------- MODULE AttributionProofs -------------------------
(***************************************************************************)
(* Proofs that attribute_orphans keeps its promises on every statement:    *)
(* its report tells what it did, it breaks no chain of balances, and in a  *)
(* truthful statement whose cardless rows stand alone it gives no row to   *)
(* an account that is not its own.                                         *)
(*                                                                         *)
(* And about OverlappingStatements, for series of any length: statements   *)
(* never contradict each other, and one that is uploaded again adds        *)
(* nothing, because what attribution concludes follows from the statement  *)
(* alone.                                                                  *)
(***************************************************************************)
EXTENDS OverlappingStatements, FiniteInduction, SequenceTheorems

----------------------------------------------------------------------------
\* The order of the lines.

\* What the proofs use of the statement.
FileOK == /\ Lines \subseteq Nat
          /\ IsFiniteSet(Lines)
          /\ \A l \in Lines : /\ file[l] \in Records
                              /\ file[l].card \in {NoCard, file[l].owner}

\* The same, from the assumption on statements.
LEMMA StatementIsOK == IsStatement(file) => FileOK
BY DEF IsStatement, FileOK, Lines

\* _sort_key sorts the lines in the order in which they happened, so that the
\* neighbours it finds are those that happened next to a line.
LEMMA SortedAsHappened == \A l, m : Happened(l, m) <=> Before(l, m)
BY DEF Happened, Before

LEMMA Neighbours ==
    \A o, S : JustBefore(o, S) = Predecessors(o, S) /\ JustAfter(o, S) = Successors(o, S)
BY SortedAsHappened DEF JustBefore, JustAfter, Predecessors, Successors

\* _sort_key orders the lines of a statement strictly and totally.
LEMMA BeforeOrders ==
    ASSUME FileOK
    PROVE  /\ \A l \in Lines : ~ Before(l, l)
           /\ \A l, m \in Lines : l # m => Before(l, m) \/ Before(m, l)
           /\ \A l, m, n \in Lines : Before(l, m) /\ Before(m, n) => Before(l, n)
<1>1. \A l \in Lines : l \in Int /\ file[l].at \in Int
  BY DEF FileOK, Records
<1> QED  BY <1>1 DEF Before

\* Of the lines of a set that come before a line, one is the nearest.
LEMMA NearestBefore ==
    ASSUME FileOK, NEW S \in SUBSET Lines, NEW o \in Lines,
           NEW q \in S, Before(q, o)
    PROVE  Predecessors(o, S) # {}
<1> DEFINE T == {p \in S : Before(p, o)}
           R == {t \in Lines \X Lines : Before(t[2], t[1])}
<1>1. IsFiniteSet(T) /\ T # {}
  <2>1. T \in SUBSET Lines
    OBVIOUS
  <2>2. q \in T
    OBVIOUS
  <2> QED  BY <2>1, <2>2, FS_Subset DEF FileOK
<1>2. \A x, y \in Lines : <<x, y>> \in R <=> Before(y, x)
  OBVIOUS
<1>3. T \subseteq Lines
  OBVIOUS
<1>4. \A x \in T : <<x, x>> \notin R
  BY <1>2, <1>3, BeforeOrders
<1>5. \A x, y, z \in T : <<x, y>> \in R /\ <<y, z>> \in R => <<x, z>> \in R
  <2> HIDE DEF R, T
  <2> QED  BY <1>2, <1>3, BeforeOrders
<1>6. \E x \in T : \A y \in T : <<y, x>> \notin R
  <2> HIDE DEF R, T
  <2> QED  BY <1>1, <1>4, <1>5, FiniteMinimum
<1>7. PICK x \in T : \A y \in T : ~ Before(x, y)
  BY <1>2, <1>3, <1>6
<1>8. x \in Predecessors(o, S)
  BY <1>7 DEF Predecessors
<1> QED  BY <1>8

\* Of the lines of a set that come after a line, one is the nearest.
LEMMA NearestAfter ==
    ASSUME FileOK, NEW S \in SUBSET Lines, NEW o \in Lines,
           NEW q \in S, Before(o, q)
    PROVE  Successors(o, S) # {}
<1> DEFINE T == {p \in S : Before(o, p)}
           R == {t \in Lines \X Lines : Before(t[1], t[2])}
<1>1. IsFiniteSet(T) /\ T # {}
  <2>1. T \in SUBSET Lines
    OBVIOUS
  <2>2. q \in T
    OBVIOUS
  <2> QED  BY <2>1, <2>2, FS_Subset DEF FileOK
<1>2. \A x, y \in Lines : <<x, y>> \in R <=> Before(x, y)
  OBVIOUS
<1>3. T \subseteq Lines
  OBVIOUS
<1>4. \A x \in T : <<x, x>> \notin R
  BY <1>2, <1>3, BeforeOrders
<1>5. \A x, y, z \in T : <<x, y>> \in R /\ <<y, z>> \in R => <<x, z>> \in R
  <2> HIDE DEF R, T
  <2> QED  BY <1>2, <1>3, BeforeOrders
<1>6. \E x \in T : \A y \in T : <<y, x>> \notin R
  <2> HIDE DEF R, T
  <2> QED  BY <1>1, <1>4, <1>5, FiniteMinimum
<1>7. PICK x \in T : \A y \in T : ~ Before(y, x)
  BY <1>2, <1>3, <1>6
<1>8. x \in Successors(o, S)
  BY <1>7 DEF Successors
<1> QED  BY <1>8

----------------------------------------------------------------------------
\* A line that fits a continuous chain leaves it continuous.
LEMMA FittingKeepsChainWhole ==
    ASSUME FileOK, NEW S \in SUBSET Lines, NEW o \in Lines,
           Continuous(S), Fits(o, S)
    PROVE  Continuous(S \cup {o})
<1>1. SUFFICES ASSUME NEW m \in S \cup {o}, NEW l \in Predecessors(m, S \cup {o})
               PROVE  Continues(l, m)
  BY Neighbours DEF Continuous
<1>2. /\ l \in S \cup {o}
      /\ Before(l, m)
      /\ ~ \E q \in S \cup {o} : Before(l, q) /\ Before(q, m)
  BY DEF Predecessors
<1>3. l # m
  BY <1>2, BeforeOrders
<1>4. CASE m = o
  <2>1. l \in Predecessors(o, S)
    BY <1>2, <1>3, <1>4 DEF Predecessors
  <2> QED  BY <2>1, <1>4 DEF Fits
<1>5. CASE m # o /\ l = o
  <2>1. m \in Successors(o, S)
    BY <1>2, <1>5 DEF Successors
  <2> QED  BY <2>1, <1>5 DEF Fits
<1>6. CASE m # o /\ l # o
  <2>1. m \in S /\ l \in Predecessors(m, S)
    BY <1>2, <1>6 DEF Predecessors
  <2> QED  BY <2>1, Neighbours DEF Continuous
<1> QED  BY <1>4, <1>5, <1>6

\* In a truthful statement, a line that stands alone fits the chain of its
\* owner as soon as that chain holds only lines of the owner, and among them
\* those the statement prints.
LEMMA OwnerFits ==
    ASSUME FileOK, Truthful, NEW o \in Lines, Alone(o), HasBalance(o),
           NEW S \in SUBSET OwnLines(file[o].owner),
           \A l \in OwnLines(file[o].owner) :
              file[l].card # NoCard /\ HasBalance(l) => l \in S
    PROVE  Fits(o, S)
<1> DEFINE own == OwnLines(file[o].owner)
<1>1. own \subseteq Lines /\ o \in own
  BY DEF OwnLines
<1>2. file[o].owner \in Cards
  BY DEF FileOK, Records
<1>3. \A l \in Predecessors(o, own) \cup Successors(o, own) : l \in S /\ HasBalance(l)
  <2>1. \A l \in Predecessors(o, own) \cup Successors(o, own) : l \in own
    BY DEF Predecessors, Successors
  <2> QED  BY <2>1, Neighbours DEF Alone
<1>4. S # {}
  <2>1. PICK q \in own : q # o
    BY <1>1 DEF Alone
  <2>2. CASE Before(q, o)
    <3>1. Predecessors(o, own) # {}
      BY <1>1, <2>2, NearestBefore
    <3> QED  BY <3>1, <1>3
  <2>3. CASE Before(o, q)
    <3>1. Successors(o, own) # {}
      BY <1>1, <2>3, NearestAfter
    <3> QED  BY <3>1, <1>3
  <2> QED  BY <1>1, <2>1, <2>2, <2>3, BeforeOrders
<1>5. ASSUME NEW p \in Predecessors(o, S)
      PROVE  Continues(p, o)
  <2>1. p \in own /\ Before(p, o) /\ ~ \E q \in S : Before(p, q) /\ Before(q, o)
    BY <1>5 DEF Predecessors
  <2>2. PICK r \in Predecessors(o, own) : TRUE
    BY <1>1, <2>1, NearestBefore
  <2>3. r \in own /\ Before(r, o) /\ ~ \E q \in own : Before(r, q) /\ Before(q, o)
    BY <2>2 DEF Predecessors
  <2>4. ~ Before(r, p) /\ ~ Before(p, r)
    BY <2>1, <2>2, <2>3, <1>3
  <2>5. p = r
    BY <2>1, <2>3, <2>4, <1>1, BeforeOrders
  <2> QED  BY <1>1, <1>2, <1>3, <2>2, <2>5, Neighbours DEF Truthful
<1>6. ASSUME NEW s \in Successors(o, S)
      PROVE  Continues(o, s)
  <2>1. s \in own /\ Before(o, s) /\ ~ \E q \in S : Before(o, q) /\ Before(q, s)
    BY <1>6 DEF Successors
  <2>2. PICK r \in Successors(o, own) : TRUE
    BY <1>1, <2>1, NearestAfter
  <2>3. r \in own /\ Before(o, r) /\ ~ \E q \in own : Before(o, q) /\ Before(q, r)
    BY <2>2 DEF Successors
  <2>4. ~ Before(r, s) /\ ~ Before(s, r)
    BY <2>1, <2>2, <2>3, <1>3
  <2>5. s = r
    BY <2>1, <2>3, <2>4, <1>1, BeforeOrders
  <2>6. o \in Predecessors(s, own)
    BY <1>1, <2>3, <2>5 DEF Predecessors
  <2> QED  BY <1>2, <1>3, <2>1, <2>2, <2>5, <2>6, Neighbours DEF Truthful
<1> QED  BY <1>4, <1>5, <1>6 DEF Fits

----------------------------------------------------------------------------
\* The inductive invariant: the file is a statement, and the
\* properties; NeverMisattributed needs ReportTellsHints to know that the
\* line the loop takes has no card.
IInv ==
    /\ IsStatement(file)
    /\ TypeOK
    /\ ReportTellsHints
    /\ ChainsStayWhole
    /\ NeverMisattributed

\* A statement as it is parsed: nothing of it has been looked at yet.
Parsed ==
    /\ IsStatement(file)
    /\ hint = [l \in Lines |-> file[l].card]
    /\ verdict = [l \in Lines |-> IF file[l].card = NoCard THEN "waiting" ELSE "carded"]

\* The invariant holds when attribution starts.
LEMMA ParsedIInv == Parsed => IInv
<1> SUFFICES ASSUME Parsed
             PROVE  IInv
  OBVIOUS
<1>1. FileOK
  BY StatementIsOK DEF Parsed
<1>2. TypeOK
  BY <1>1 DEF Parsed, TypeOK, FileOK, Records, Verdicts
<1>3. ReportTellsHints
  BY DEF Parsed, ReportTellsHints
<1>4. ChainsStayWhole
  <2>1. \A c \in Cards : Chain(c) = Printed(c)
    BY DEF Parsed, Chain, Printed
  <2> QED  BY <2>1 DEF ChainsStayWhole
<1>5. NeverMisattributed
  BY <1>1 DEF Parsed, NeverMisattributed, FileOK
<1> QED  BY <1>2, <1>3, <1>4, <1>5 DEF IInv, Parsed

\* What the loop knows of the line it takes.
LEMMA OrphanHasNoCard ==
    ASSUME IInv, NEW o \in Lines, IsNext(o)
    PROVE  /\ hint[o] = NoCard
           /\ file[o].card = NoCard
           /\ HasBalance(o)
           /\ verdict[o] = "waiting"
BY DEF IInv, IsNext, Orphans, ReportTellsHints

\* The account of a line that stands alone is among its candidates.
LEMMA OwnerIsCandidate ==
    ASSUME IInv, NEW o \in Lines, IsNext(o), Truthful, OrphansStandAlone
    PROVE  file[o].owner \in Candidates(o)
<1>1. FileOK
  BY StatementIsOK DEF IInv
<1>2. file[o].owner \in Cards
  BY <1>1 DEF FileOK, Records
<1>3. file[o].card = NoCard /\ HasBalance(o)
  BY OrphanHasNoCard
<1>4. Alone(o)
  BY <1>3 DEF OrphansStandAlone
<1>5. Chain(file[o].owner) \subseteq OwnLines(file[o].owner)
  BY <1>2, NoCardIsNoCard DEF IInv, NeverMisattributed, Chain, OwnLines
<1>6. ASSUME NEW l \in OwnLines(file[o].owner), file[l].card # NoCard, HasBalance(l)
      PROVE  l \in Chain(file[o].owner)
  BY <1>1, <1>6 DEF FileOK, IInv, ReportTellsHints, Chain, OwnLines
<1>7. Fits(o, Chain(file[o].owner))
  BY <1>1, <1>3, <1>4, <1>5, <1>6, OwnerFits
<1> QED  BY <1>2, <1>7 DEF Candidates

\* The properties of the statement itself do not change while it is worked on.
LEMMA StatementStays ==
    ASSUME UNCHANGED file
    PROVE  /\ FileOK' <=> FileOK
           /\ Truthful' <=> Truthful
           /\ OrphansStandAlone' <=> OrphansStandAlone
           /\ \A c \in Cards : Printed(c)' = Printed(c)
           /\ Lines' = Lines
           /\ \A l \in Lines : HasBalance(l)' <=> HasBalance(l)
<1>1. Lines' = Lines /\ \A l \in Lines : HasBalance(l)' <=> HasBalance(l)
  BY DEF Lines, HasBalance
<1>2. FileOK' <=> FileOK
  BY <1>1 DEF FileOK
<1>3. Truthful' <=> Truthful
  BY <1>1 DEF Truthful, OwnLines, JustBefore, Happened, Continues, HasBalance
<1>4. OrphansStandAlone' <=> OrphansStandAlone
  BY <1>1 DEF OrphansStandAlone, Alone, OwnLines, JustBefore, JustAfter, Happened, HasBalance
<1>5. \A c \in Cards : Printed(c)' = Printed(c)
  BY <1>1 DEF Printed, HasBalance
<1> QED  BY <1>1, <1>2, <1>3, <1>4, <1>5

\* Nor does the continuity of its lines.
LEMMA ContinuousStays ==
    ASSUME UNCHANGED file, NEW S \in SUBSET Lines
    PROVE  Continuous(S)' <=> Continuous(S)
BY DEF Continuous, JustBefore, Happened, Continues

\* Resolve: the line becomes part of the one chain it fits.
LEMMA ResolveIInv ==
    ASSUME IInv, NEW o \in Lines, Resolve(o)
    PROVE  IInv'
<1>1. PICK c \in Cards : /\ Candidates(o) = {c}
                         /\ hint' = [hint EXCEPT ![o] = c]
  BY DEF Resolve
<1>2. /\ IsNext(o)
      /\ verdict' = [verdict EXCEPT ![o] = "resolved"]
      /\ file' = file
  BY DEF Resolve
<1>3. FileOK
  BY StatementIsOK DEF IInv
<1>4. Lines' = Lines
  BY <1>2, StatementStays
<1>5. hint[o] = NoCard /\ file[o].card = NoCard /\ HasBalance(o)
  BY <1>2, OrphanHasNoCard
<1>6. TypeOK
  BY DEF IInv
<1>7. TypeOK'
  BY <1>1, <1>2, <1>4, <1>6 DEF TypeOK, Verdicts
<1>8. \A l \in Lines : l # o => hint'[l] = hint[l] /\ verdict'[l] = verdict[l]
  BY <1>1, <1>2, <1>6 DEF TypeOK
<1>9. hint'[o] = c /\ verdict'[o] = "resolved"
  BY <1>1, <1>2, <1>6 DEF TypeOK
<1>10. ReportTellsHints'
  BY <1>2, <1>4, <1>5, <1>8, <1>9, NoCardIsNoCard DEF IInv, ReportTellsHints
<1>11. ChainsStayWhole'
  <2>1. SUFFICES ASSUME NEW d \in Cards, Printed(d)' = Printed(d), Continuous(Printed(d))
                 PROVE  Continuous(Chain(d))'
    <3>1. \A d \in Cards : Continuous(Printed(d))' <=> Continuous(Printed(d))
      BY <1>2 DEF Continuous, JustBefore, Happened, Continues, Printed, HasBalance, Lines
    <3>2. \A d \in Cards : Printed(d)' = Printed(d)
      BY <1>2, StatementStays
    <3> QED  BY <2>1, <3>1, <3>2 DEF ChainsStayWhole
  <2>2. Continuous(Chain(d))
    BY <2>1 DEF IInv, ChainsStayWhole
  <2>3. Chain(d) \subseteq Lines
    BY DEF Chain
  <2>4. CASE d = c
    <3>1. Chain(d)' = Chain(d) \cup {o}
      BY <1>2, <1>4, <1>5, <1>8, <1>9, <2>4 DEF Chain, HasBalance
    <3>2. Fits(o, Chain(d))
      BY <1>1, <2>4 DEF Candidates
    <3>3. Continuous(Chain(d) \cup {o})
      BY <1>3, <2>2, <2>3, <3>2, FittingKeepsChainWhole
    <3> QED  BY <1>2, <3>1, <3>3 DEF Continuous, JustBefore, Happened, Continues
  <2>5. CASE d # c
    <3>1. Chain(d)' = Chain(d)
      BY <1>2, <1>4, <1>5, <1>8, <1>9, <2>5, NoCardIsNoCard DEF Chain, HasBalance
    <3> QED  BY <1>2, <2>2, <3>1 DEF Continuous, JustBefore, Happened, Continues
  <2> QED  BY <2>4, <2>5
<1>12. NeverMisattributed'
  <2>1. SUFFICES ASSUME Truthful, OrphansStandAlone, NEW l \in Lines
                 PROVE  /\ hint'[l] \in {NoCard, file[l].owner}
                        /\ HasBalance(l) => verdict'[l] # "unresolved"
    BY <1>2, <1>4, StatementStays DEF NeverMisattributed
  <2>2. CASE l = o
    <3>1. file[o].owner = c
      BY <1>1, <1>2, <2>1, OwnerIsCandidate
    <3> QED  BY <1>9, <2>2, <3>1
  <2>3. CASE l # o
    BY <1>8, <2>1, <2>3 DEF IInv, NeverMisattributed
  <2> QED  BY <2>2, <2>3
<1> QED  BY <1>2, <1>7, <1>10, <1>11, <1>12 DEF IInv

\* A step that only reports lines: nothing but verdicts change, and only
\* those of waiting lines.
LEMMA ReportIInv ==
    ASSUME IInv,
           UNCHANGED <<file, hint>>,
           verdict' \in [Lines -> Verdicts],
           \A l \in Lines : verdict'[l] # verdict[l] =>
              /\ verdict[l] = "waiting"
              /\ verdict'[l] \in {"ambiguous", "unresolved"}
              /\ Truthful /\ OrphansStandAlone /\ HasBalance(l) => verdict'[l] # "unresolved"
    PROVE  IInv'
<1>1. Lines' = Lines
  BY StatementStays
<1>2. TypeOK'
  BY <1>1 DEF IInv, TypeOK
<1>3. ReportTellsHints'
  BY <1>1 DEF IInv, ReportTellsHints
<1>4. ChainsStayWhole'
  <2>1. ChainsStayWhole
    BY DEF IInv
  <2> QED  BY <2>1 DEF ChainsStayWhole, Continuous, JustBefore, Happened, Continues,
                       Printed, Chain, HasBalance, Lines
<1>5. NeverMisattributed'
  <2>1. SUFFICES ASSUME Truthful, OrphansStandAlone, NEW l \in Lines
                 PROVE  /\ hint'[l] \in {NoCard, file[l].owner}
                        /\ HasBalance(l) => verdict'[l] # "unresolved"
    BY <1>1, StatementStays DEF NeverMisattributed
  <2> QED  BY <2>1 DEF IInv, NeverMisattributed
<1> QED  BY <1>2, <1>3, <1>4, <1>5 DEF IInv

\* Every step preserves the invariant.
LEMMA NextIInv == IInv /\ [Next]_vars => IInv'
<1> SUFFICES ASSUME IInv, [Next]_vars
             PROVE  IInv'
  OBVIOUS
<1>1. verdict \in [Lines -> Verdicts]
  BY DEF IInv, TypeOK
<1>2. ASSUME NEW o \in Lines, Resolve(o)
      PROVE  IInv'
  BY <1>2, ResolveIInv
<1>3. ASSUME NEW o \in Lines, ReportAmbiguous(o)
      PROVE  IInv'
  <2>1. verdict[o] = "waiting"
    BY <1>3, OrphanHasNoCard DEF ReportAmbiguous
  <2>2. verdict' = [verdict EXCEPT ![o] = "ambiguous"] /\ UNCHANGED <<file, hint>>
    BY <1>3 DEF ReportAmbiguous
  <2>3. verdict' \in [Lines -> Verdicts]
    BY <1>1, <2>2 DEF Verdicts
  <2>4. \A l \in Lines : verdict'[l] # verdict[l] => l = o /\ verdict'[l] = "ambiguous"
    BY <1>1, <2>2
  <2> QED  BY <2>1, <2>2, <2>3, <2>4, ReportIInv
<1>4. ASSUME NEW o \in Lines, ReportUnresolved(o)
      PROVE  IInv'
  <2>1. verdict[o] = "waiting"
    BY <1>4, OrphanHasNoCard DEF ReportUnresolved
  <2>2. verdict' = [verdict EXCEPT ![o] = "unresolved"] /\ UNCHANGED <<file, hint>>
    BY <1>4 DEF ReportUnresolved
  <2>3. verdict' \in [Lines -> Verdicts]
    BY <1>1, <2>2 DEF Verdicts
  <2>4. \A l \in Lines : verdict'[l] # verdict[l] => l = o /\ verdict'[l] = "unresolved"
    BY <1>1, <2>2
  <2>5. ~ (Truthful /\ OrphansStandAlone)
    BY <1>4, OwnerIsCandidate DEF ReportUnresolved
  <2> QED  BY <2>1, <2>2, <2>3, <2>4, <2>5, ReportIInv
<1>5. CASE ReportWithoutBalance
  <2>1. /\ verdict' = [l \in Lines |-> IF verdict[l] = "waiting" THEN "unresolved" ELSE verdict[l]]
        /\ UNCHANGED <<file, hint>>
        /\ Orphans = {}
    BY <1>5 DEF ReportWithoutBalance
  <2>2. verdict' \in [Lines -> Verdicts]
    BY <1>1, <2>1 DEF Verdicts
  <2>3. \A l \in Lines : verdict'[l] # verdict[l] =>
           verdict[l] = "waiting" /\ verdict'[l] = "unresolved" /\ ~ HasBalance(l)
    BY <1>1, <2>1 DEF Orphans
  <2> QED  BY <2>1, <2>2, <2>3, ReportIInv
<1>6. CASE UNCHANGED vars
  <2>1. UNCHANGED <<file, hint>> /\ verdict' = verdict
    BY <1>6 DEF vars
  <2> QED  BY <1>1, <2>1, ReportIInv
<1> QED  BY <1>2, <1>3, <1>4, <1>5, <1>6 DEF Next

----------------------------------------------------------------------------
\* The invariant holds for every set of statements.
THEOREM InvariantHolds == Spec => []IInv
<1>1. Init => IInv
  BY FilesAreStatements, ParsedIInv DEF Init, Parsed
<1>2. IInv /\ [Next]_vars => IInv'
  BY NextIInv
<1> QED  BY <1>1, <1>2, PTL DEF Spec

\* Hints are cards and every line has one of the verdicts of the report.
THEOREM TypeCorrect == Spec => []TypeOK
<1>1. IInv => TypeOK
  BY DEF IInv
<1> QED  BY <1>1, InvariantHolds, PTL

\* Whatever the statement, truthful or not, the report of attribute_orphans
\* names the lines that got a card, and only those.
THEOREM ReportsAreTrue == Spec => []ReportTellsHints
<1>1. IInv => ReportTellsHints
  BY DEF IInv
<1> QED  BY <1>1, InvariantHolds, PTL

\* Whatever the statement, an account whose printed rows form an unbroken
\* chain of balances keeps an unbroken chain with the rows it is given.
THEOREM ChainsAreKeptWhole == Spec => []ChainsStayWhole
<1>1. IInv => ChainsStayWhole
  BY DEF IInv
<1> QED  BY <1>1, InvariantHolds, PTL

\* For statements of any length over any number of cards: if the statement
\* is truthful and its cardless lines stand alone in their accounts, no line
\* is given to a foreign account, and none with a balance stays unresolved.
THEOREM AttributionIsRight == Spec => []NeverMisattributed
<1>1. IInv => NeverMisattributed
  BY DEF IInv
<1> QED  BY <1>1, InvariantHolds, PTL

----------------------------------------------------------------------------
(* What attribution concludes, as a fact about a statement f and the hints *)
(* H it ends with, in which the steps of the loop do not occur.            *)

BeforeIn(f, l, m) ==
    \/ f[l].at < f[m].at
    \/ f[l].at = f[m].at /\ l > m

ContinuesIn(f, l, m) == f[l].balance + f[m].amount = f[m].balance

FitsIn(f, o, chain) ==
    /\ chain # {}
    /\ \A p \in chain :
          BeforeIn(f, p, o) /\ ~ (\E q \in chain : BeforeIn(f, p, q) /\ BeforeIn(f, q, o))
              => ContinuesIn(f, p, o)
    /\ \A s \in chain :
          BeforeIn(f, o, s) /\ ~ (\E q \in chain : BeforeIn(f, o, q) /\ BeforeIn(f, q, s))
              => ContinuesIn(f, o, s)

\* The chain of card c that line o is compared with.
ChainAt(f, H, o, c) ==
    {l \in DOMAIN f : /\ f[l].balance # NoBalance
                      /\ H[l] = c
                      /\ f[l].card = c \/ BeforeIn(f, l, o)}

CandidatesIn(f, H, o) == {c \in Cards : FitsIn(f, o, ChainAt(f, H, o, c))}

\* The hint of o is printed, or the only card whose chain o fits, or none.
Concluded(f, H, o) ==
    IF f[o].card # NoCard \/ f[o].balance = NoBalance THEN H[o] = f[o].card
    ELSE IF \E c \in Cards : CandidatesIn(f, H, o) = {c} THEN CandidatesIn(f, H, o) = {H[o]}
    ELSE H[o] = NoCard

\* There is only one way to conclude everything: where two differ first, they
\* compared with the same chains.
LEMMA OneConclusion ==
    ASSUME NEW f, IsStatement(f), NEW H, NEW G,
           \A o \in DOMAIN f : Concluded(f, H, o) /\ Concluded(f, G, o)
    PROVE  \A o \in DOMAIN f : H[o] = G[o]
<1> DEFINE D == {o \in DOMAIN f : H[o] # G[o]}
           R == {t \in (DOMAIN f) \X (DOMAIN f) : BeforeIn(f, t[1], t[2])}
<1> SUFFICES ASSUME D # {} PROVE FALSE
  OBVIOUS
<1>1. /\ DOMAIN f \subseteq Nat /\ IsFiniteSet(DOMAIN f)
      /\ \A l \in DOMAIN f : f[l].at \in Int
  BY DEF IsStatement, Records
<1>2. IsFiniteSet(D)
  BY <1>1, FS_Subset
<1>3. \A x, y \in DOMAIN f : <<x, y>> \in R <=> BeforeIn(f, x, y)
  OBVIOUS
<1>4. \A x \in D : <<x, x>> \notin R
  BY <1>1 DEF BeforeIn
<1>5. \A x, y, z \in D : <<x, y>> \in R /\ <<y, z>> \in R => <<x, z>> \in R
  BY <1>1 DEF BeforeIn
<1>6. \E x \in D : \A y \in D : <<y, x>> \notin R
  <2> HIDE DEF R, D
  <2> QED  BY <1>2, <1>4, <1>5, FiniteMinimum
<1>7. PICK x \in D : \A y \in D : ~ BeforeIn(f, y, x)
  BY <1>3, <1>6
<1>8. f[x].card = NoCard /\ f[x].balance # NoBalance
  BY <1>7 DEF Concluded
<1>9. \A c \in Cards : ChainAt(f, H, x, c) = ChainAt(f, G, x, c)
  <2> SUFFICES ASSUME NEW c \in Cards, NEW l \in DOMAIN f, f[l].card = c \/ BeforeIn(f, l, x)
               PROVE  H[l] = c <=> G[l] = c
    BY DEF ChainAt
  <2>1. CASE f[l].card = c
    BY <2>1, NoCardIsNoCard DEF Concluded
  <2>2. CASE BeforeIn(f, l, x)
    BY <1>7, <2>2
  <2> QED  BY <2>1, <2>2
<1>10. CandidatesIn(f, H, x) = CandidatesIn(f, G, x)
  BY <1>9 DEF CandidatesIn
<1>11. H[x] = G[x]
  BY <1>7, <1>8, <1>10 DEF Concluded
<1> QED  BY <1>7, <1>11

----------------------------------------------------------------------------
(* The inductive invariant. *)

\* A line that has been looked at was concluded, and the lines with balances
\* that have not come after it.
Processed ==
    /\ \A o \in Lines : verdict[o] # "waiting" => Concluded(file, hint, o)
    /\ \A o, m \in Lines :
          /\ file[o].card = NoCard /\ HasBalance(o) /\ verdict[o] # "waiting"
          /\ file[m].card = NoCard /\ HasBalance(m) /\ verdict[m] = "waiting"
          => Before(o, m)

\* The statements of a series of which rest is what remains.
Remaining(series) ==
    /\ rest \in Seq({series[j] : j \in DOMAIN series})
    /\ rest # <<>> => file = rest[1]

\* As long as nothing is doubtful, a row is in the default account or in the
\* account of the card that made the operation.
StoredRight(series) ==
    ~ doubtful =>
        \A k \in stored :
            \/ k.account = Default
            \/ \E j \in DOMAIN series :
                  k.op \in DOMAIN series[j] /\ k.account = series[j][k.op].owner

\* A statement that was stored is there with all that can be concluded of it.
ImportedStored ==
    \A f \in imported :
        /\ IsStatement(f)
        /\ \E H \in [DOMAIN f -> Cards \cup {NoCard}] :
              /\ \A o \in DOMAIN f : Concluded(f, H, o)
              /\ \A l \in DOMAIN f :
                    [account |-> IF H[l] = NoCard THEN Default ELSE H[l], op |-> l] \in stored

SeriesInv ==
    /\ IInv
    /\ Processed
    /\ ImportedStored
    /\ \E series \in Series : Remaining(series) /\ StoredRight(series)

\* The steps of Attribution compare as FitsIn does.
LEMMA FitsAsIn ==
    ASSUME NEW o, NEW S PROVE Fits(o, S) <=> FitsIn(file, o, S)
BY DEF Fits, FitsIn, Predecessors, Successors, Before, BeforeIn, Continues, ContinuesIn

\* The line the loop takes is compared with the chains Concluded speaks of.
LEMMA ChainsAtNext ==
    ASSUME IInv, Processed, NEW o \in Lines, IsNext(o)
    PROVE  Candidates(o) = CandidatesIn(file, hint, o)
<1>1. /\ hint[o] = NoCard /\ file[o].card = NoCard /\ HasBalance(o) /\ verdict[o] = "waiting"
  BY OrphanHasNoCard
<1>2. ASSUME NEW c \in Cards PROVE Chain(c) = ChainAt(file, hint, o, c)
  <2> SUFFICES ASSUME NEW l \in Lines, HasBalance(l), hint[l] = c, file[l].card # c
               PROVE  Before(l, o)
    BY DEF Chain, ChainAt, HasBalance, Lines, Before, BeforeIn
  <2>1. file[l].card = NoCard /\ verdict[l] # "waiting"
    BY <1>2, NoCardIsNoCard DEF IInv, ReportTellsHints
  <2> QED  BY <1>1, <2>1 DEF Processed
<1> QED  BY <1>2, FitsAsIn DEF Candidates, CandidatesIn

----------------------------------------------------------------------------
(* A statement is worked on. *)

\* What a line further down is given changes no chain an earlier one was
\* compared with.
LEMMA ChainsKept ==
    ASSUME IInv, Processed, NEW o \in Lines, IsNext(o), NEW h,
           NEW l \in Lines, l = o \/ (verdict[l] # "waiting" /\ HasBalance(l)),
           file[l].card = NoCard
    PROVE  CandidatesIn(file, [hint EXCEPT ![o] = h], l) = CandidatesIn(file, hint, l)
<1> DEFINE H == [hint EXCEPT ![o] = h]
<1>1. /\ hint[o] = NoCard /\ file[o].card = NoCard /\ HasBalance(o) /\ verdict[o] = "waiting"
  BY OrphanHasNoCard
<1>2. ~ Before(o, l)
  <2>1. FileOK
    BY StatementIsOK DEF IInv
  <2>2. CASE l = o
    BY <2>1, <2>2, BeforeOrders
  <2>3. CASE l # o
    <3>1. Before(l, o)
      BY <1>1, <2>3 DEF Processed
    <3> QED  BY <2>1, <3>1, BeforeOrders
  <2> QED  BY <2>2, <2>3
<1>3. hint \in [Lines -> Cards \cup {NoCard}]
  BY DEF IInv, TypeOK
<1>4. \A m \in Lines : m # o => H[m] = hint[m]
  BY <1>3
<1>5. ~ BeforeIn(file, o, l)
  BY <1>2 DEF Before, BeforeIn
<1> HIDE DEF H
<1>6. \A c \in Cards : ChainAt(file, H, l, c) = ChainAt(file, hint, l, c)
  BY <1>1, <1>4, <1>5, NoCardIsNoCard DEF ChainAt, Lines
<1>7. CandidatesIn(file, H, l) = CandidatesIn(file, hint, l)
  BY <1>6 DEF CandidatesIn
<1> QED  BY <1>7 DEF H

\* A turn of the loop concludes its line, and leaves the others as they are.
LEMMA TurnOfLoop ==
    ASSUME IInv, Processed, NEW o \in Lines, IsNext(o), UNCHANGED file,
           NEW v, v # "waiting", verdict' = [verdict EXCEPT ![o] = v],
           NEW h, hint' = [hint EXCEPT ![o] = h],
           IF \E c \in Cards : Candidates(o) = {c} THEN Candidates(o) = {h} ELSE h = NoCard
    PROVE  Processed'
<1>1. /\ hint[o] = NoCard /\ file[o].card = NoCard /\ HasBalance(o) /\ verdict[o] = "waiting"
  BY OrphanHasNoCard
<1>2. /\ hint'[o] = h /\ verdict'[o] = v
      /\ \A l \in Lines : l # o => hint'[l] = hint[l] /\ verdict'[l] = verdict[l]
  BY DEF IInv, TypeOK
<1>3. Lines' = Lines /\ \A l \in Lines : HasBalance(l)' <=> HasBalance(l)
  BY StatementStays
<1>4. ASSUME NEW l \in Lines, verdict'[l] # "waiting" PROVE Concluded(file, hint', l)
  <2>1. CASE l = o
    <3>1. CandidatesIn(file, hint', o) = Candidates(o)
      BY ChainsKept, ChainsAtNext, <1>1
    <3> QED  BY <1>1, <1>2, <2>1, <3>1 DEF Concluded, HasBalance
  <2>2. CASE l # o
    <3>1. Concluded(file, hint, l) /\ verdict[l] # "waiting"
      BY <1>2, <1>4, <2>2 DEF Processed
    <3>2. CASE file[l].card # NoCard \/ file[l].balance = NoBalance
      BY <1>2, <2>2, <3>1, <3>2 DEF Concluded
    <3>3. CASE file[l].card = NoCard /\ file[l].balance # NoBalance
      <4>1. CandidatesIn(file, hint', l) = CandidatesIn(file, hint, l)
        BY <3>1, <3>3, ChainsKept DEF HasBalance
      <4> QED  BY <1>2, <2>2, <3>1, <3>3, <4>1 DEF Concluded
    <3> QED  BY <3>2, <3>3
  <2> QED  BY <2>1, <2>2
<1>5. ASSUME NEW l \in Lines, NEW m \in Lines,
             file[l].card = NoCard, HasBalance(l), verdict'[l] # "waiting",
             file[m].card = NoCard, HasBalance(m), verdict'[m] = "waiting"
      PROVE  Before(l, m)
  <2>1. m # o /\ verdict[m] = "waiting"
    BY <1>2, <1>5
  <2>2. CASE l = o
    BY <1>5, <2>1, <2>2 DEF IsNext, Orphans
  <2>3. CASE l # o
    BY <1>2, <1>5, <2>1, <2>3 DEF Processed
  <2> QED  BY <2>2, <2>3
<1>6. \A l, m : Before(l, m)' <=> Before(l, m)
  BY DEF Before
<1> QED  BY <1>3, <1>4, <1>5, <1>6 DEF Processed

\* Every step of the loop, and the one after it, keeps what Processed says.
LEMMA ProcessedStays ==
    ASSUME IInv, Processed, Next
    PROVE  Processed'
<1> USE DEF IInv, TypeOK
<1>1. ASSUME NEW o \in Lines, Resolve(o) PROVE Processed'
  <2>1. PICK c \in Cards : Candidates(o) = {c} /\ hint' = [hint EXCEPT ![o] = c]
    BY <1>1 DEF Resolve
  <2>2. IsNext(o) /\ UNCHANGED file /\ verdict' = [verdict EXCEPT ![o] = "resolved"]
    BY <1>1 DEF Resolve
  <2> QED  BY <2>1, <2>2, TurnOfLoop
<1>2. ASSUME NEW o \in Lines, ReportAmbiguous(o) \/ ReportUnresolved(o) PROVE Processed'
  <2>1. IsNext(o) /\ UNCHANGED <<file, hint>> /\ ~ \E c \in Cards : Candidates(o) = {c}
    BY <1>2 DEF ReportAmbiguous, ReportUnresolved
  <2>2. PICK v : v # "waiting" /\ verdict' = [verdict EXCEPT ![o] = v]
    BY <1>2 DEF ReportAmbiguous, ReportUnresolved
  <2>3. hint' = [hint EXCEPT ![o] = NoCard]
    BY <2>1, OrphanHasNoCard
  <2> QED  BY <2>1, <2>2, <2>3, TurnOfLoop
<1>3. CASE ReportWithoutBalance
  <2>1. /\ UNCHANGED <<file, hint>>
        /\ \A l \in Lines : verdict'[l] # "waiting"
    BY <1>3 DEF ReportWithoutBalance
  <2>2. Lines' = Lines
    BY <2>1, StatementStays
  <2>3. ASSUME NEW l \in Lines, verdict[l] = "waiting" PROVE Concluded(file, hint, l)
    <3>1. file[l].balance = NoBalance
      BY <1>3, <2>3 DEF ReportWithoutBalance, Orphans, HasBalance
    <3>2. file[l].card = NoCard /\ hint[l] = NoCard
      BY <2>3 DEF ReportTellsHints
    <3> QED  BY <3>1, <3>2 DEF Concluded
  <2> QED  BY <2>1, <2>2, <2>3 DEF Processed
<1> QED  BY <1>1, <1>2, <1>3 DEF Next

----------------------------------------------------------------------------
(* A statement is stored, and the next one is parsed. *)

\* When nothing of a statement has been looked at yet, what has been concluded
\* is what it prints.
LEMMA ParsedProcessed == Parsed => Processed
BY DEF Parsed, Processed, Concluded

\* The same of the statement that is parsed next.
LEMMA ParsedNext == Parsed' => IInv' /\ Processed'
BY ParsedIInv, ParsedProcessed, PTL

\* The first statement, with nothing stored yet.
LEMMA InitSeriesInv == StartSeries => SeriesInv
<1> SUFFICES ASSUME StartSeries PROVE SeriesInv
  OBVIOUS
<1>1. rest \in Series /\ rest \in Seq({rest[j] : j \in DOMAIN rest}) /\ rest # <<>>
  BY SeriesAreOfStatements DEF StartSeries
<1>2. IsStatement(file)
  <2>1. 1 \in DOMAIN rest
    BY <1>1, EmptySeq, LenProperties
  <2> QED  BY <2>1, SeriesAreOfStatements DEF StartSeries
<1>3. Parsed
  BY <1>2 DEF StartSeries, Parsed, Lines
<1>4. IInv /\ Processed
  BY <1>3, ParsedIInv, ParsedProcessed
<1>5. ImportedStored
  BY DEF StartSeries, ImportedStored
<1>6. PICK series : series = rest
  OBVIOUS
<1>7. Remaining(series) /\ StoredRight(series)
  BY <1>1, <1>6 DEF StartSeries, Remaining, StoredRight
<1> QED  BY <1>1, <1>4, <1>5, <1>6, <1>7 DEF SeriesInv

\* A turn of attribution stores nothing.
LEMMA AttributeSeriesInv ==
    ASSUME SeriesInv, Attribute
    PROVE  SeriesInv'
<1>1. IInv' /\ Processed'
  BY NextIInv, ProcessedStays DEF SeriesInv, Attribute
<1>2. UNCHANGED <<file, rest, imported, stored, doubtful>>
  BY DEF Attribute, Next, Resolve, ReportAmbiguous, ReportUnresolved, ReportWithoutBalance
<1>3. ImportedStored'
  BY <1>2 DEF SeriesInv, ImportedStored
<1>4. PICK series \in Series : Remaining(series) /\ StoredRight(series)
  BY DEF SeriesInv
<1>5. Remaining(series)' /\ StoredRight(series)'
  BY <1>2, <1>4 DEF Remaining, StoredRight
<1> QED  BY <1>1, <1>3, <1>5 DEF SeriesInv

\* Storing a statement: its hints are the witness of ImportedStored.
LEMMA StoreSeriesInv ==
    ASSUME SeriesInv, Store
    PROVE  SeriesInv'
<1>1. PICK series \in Series : Remaining(series) /\ StoredRight(series)
  BY DEF SeriesInv
<1> DEFINE S == {series[j] : j \in DOMAIN series}
<1>2. /\ rest \in Seq(S) /\ rest # <<>> /\ file = rest[1]
      /\ rest' = Tail(rest) /\ stored' = stored \cup Keys /\ imported' = imported \cup {file}
  BY <1>1 DEF Store, Remaining
<1>3. /\ IsStatement(file)
      /\ hint \in [Lines -> Cards \cup {NoCard}]
      /\ \A l \in Lines : Concluded(file, hint, l)
  <2>1. IsStatement(file) /\ hint \in [Lines -> Cards \cup {NoCard}]
    BY DEF SeriesInv, IInv, TypeOK
  <2>2. \A l \in Lines : Concluded(file, hint, l)
    BY DEF SeriesInv, Processed, Store
  <2> QED  BY <2>1, <2>2
<1>4. rest' \in Seq(S) /\ \A i \in DOMAIN rest' : i + 1 \in DOMAIN rest /\ rest'[i] = rest[i + 1]
  <2>1. /\ rest' \in Seq(S) /\ Len(rest') = Len(rest) - 1
        /\ \A i \in 1 .. Len(rest') : rest'[i] = rest[i + 1]
    BY <1>2, HeadTailProperties
  <2> QED  BY <1>2, <2>1, LenProperties
<1>5. 1 \in DOMAIN rest /\ (rest' # <<>> => 1 \in DOMAIN rest')
  BY <1>2, <1>4, EmptySeq, LenProperties
<1>6. IInv' /\ Processed'
  <2>1. CASE rest' = <<>>
    <3>1. UNCHANGED vars
      BY <2>1 DEF Store
    <3>2. IInv'
      BY <3>1, NextIInv DEF SeriesInv
    <3>3. Processed'
      BY <3>1 DEF SeriesInv, vars, Processed, Lines, HasBalance, Before
    <3> QED  BY <3>2, <3>3
  <2>2. CASE rest' # <<>>
    <3>1. file' \in S
      BY <1>4, <1>5, <2>2, LenProperties, ElementOfSeq DEF Store
    <3>2. \A f \in S : IsStatement(f)
      BY SeriesAreOfStatements
    <3>3. Parsed'
      BY <2>2, <3>1, <3>2 DEF Store, Parsed, Lines, IsStatement, Records
    <3> QED  BY <3>3, ParsedNext
  <2> QED  BY <2>1, <2>2
<1>7. ImportedStored'
  <2>1. ASSUME NEW f \in imported
        PROVE  /\ IsStatement(f)
               /\ \E H \in [DOMAIN f -> Cards \cup {NoCard}] :
                     /\ \A o \in DOMAIN f : Concluded(f, H, o)
                     /\ \A l \in DOMAIN f :
                           [account |-> IF H[l] = NoCard THEN Default ELSE H[l], op |-> l] \in stored'
    BY <1>2, <2>1 DEF SeriesInv, ImportedStored
  <2>2. \A l \in Lines :
           [account |-> IF hint[l] = NoCard THEN Default ELSE hint[l], op |-> l] \in stored'
    BY <1>2 DEF Keys, AccountOf
  <2> QED  BY <1>2, <1>3, <2>1, <2>2 DEF ImportedStored, Lines
<1>8. Remaining(series)'
  <2>1. rest' # <<>> => file' = rest'[1]
    BY DEF Store
  <2> QED  BY <1>4, <2>1 DEF Remaining
<1>9. StoredRight(series)'
  <2>1. SUFFICES ASSUME ~ doubtful', NEW k \in stored'
                 PROVE  \/ k.account = Default
                        \/ \E j \in DOMAIN series :
                              k.op \in DOMAIN series[j] /\ k.account = series[j][k.op].owner
    BY DEF StoredRight
  <2>2. ~ doubtful /\ Truthful /\ OrphansStandAlone
    BY <2>1 DEF Store
  <2>3. CASE k \in stored
    BY <1>1, <2>2, <2>3 DEF StoredRight
  <2>4. CASE k \in Keys
    <3>1. PICK l \in Lines : k.account = AccountOf(l) /\ k.op = l
      BY <2>4 DEF Keys
    <3>2. hint[l] \in {NoCard, file[l].owner}
      BY <2>2 DEF SeriesInv, IInv, NeverMisattributed
    <3>3. PICK j \in DOMAIN series : file = series[j]
      <4>1. file \in S
        BY <1>2, <1>5, LenProperties, ElementOfSeq
      <4> QED  BY <4>1
    <3> QED  BY <3>1, <3>2, <3>3 DEF AccountOf, Lines
  <2> QED  BY <1>2, <2>3, <2>4
<1> QED  BY <1>6, <1>7, <1>8, <1>9 DEF SeriesInv

\* Every step preserves the invariant.
LEMMA SeriesNextInv == SeriesInv /\ [SeriesNext]_allVars => SeriesInv'
<1> SUFFICES ASSUME SeriesInv, [SeriesNext]_allVars PROVE SeriesInv'
  OBVIOUS
<1>1. CASE Attribute
  BY <1>1, AttributeSeriesInv
<1>2. CASE Store
  BY <1>2, StoreSeriesInv
<1>3. CASE UNCHANGED allVars
  <2>1. UNCHANGED vars /\ UNCHANGED <<file, hint, verdict, rest, imported, stored, doubtful>>
    BY <1>3 DEF allVars, vars
  <2>2. IInv'
    BY <2>1, NextIInv DEF SeriesInv
  <2>3. Processed' /\ ImportedStored'
    BY <2>1 DEF SeriesInv, Processed, ImportedStored, Lines, HasBalance, Before
  <2>4. PICK series \in Series : Remaining(series) /\ StoredRight(series)
    BY DEF SeriesInv
  <2>5. Remaining(series)' /\ StoredRight(series)'
    BY <2>1, <2>4 DEF Remaining, StoredRight
  <2> QED  BY <2>2, <2>3, <2>5 DEF SeriesInv
<1> QED  BY <1>1, <1>2, <1>3 DEF SeriesNext

----------------------------------------------------------------------------
\* The invariant holds through every series of statements.
THEOREM SeriesInvariantHolds == SeriesSpec => []SeriesInv
BY InitSeriesInv, SeriesNextInv, PTL DEF SeriesSpec

\* In every statement of a series hints are cards, and every line has one of
\* the verdicts of the report.
THEOREM SeriesTypeCorrect == SeriesSpec => []TypeOK
<1>1. SeriesInv => TypeOK
  BY DEF SeriesInv, IInv
<1> QED  BY <1>1, SeriesInvariantHolds, PTL

\* In every statement of a series attribution leaves the chains of balances
\* that were whole whole.
THEOREM SeriesChainsAreKeptWhole == SeriesSpec => []ChainsStayWhole
<1>1. SeriesInv => ChainsStayWhole
  BY DEF SeriesInv, IInv
<1> QED  BY <1>1, SeriesInvariantHolds, PTL

\* In every truthful statement of a series whose cardless lines stand alone,
\* no line is given to a foreign account.
THEOREM SeriesAttributionIsRight == SeriesSpec => []NeverMisattributed
<1>1. SeriesInv => NeverMisattributed
  BY DEF SeriesInv, IInv
<1> QED  BY <1>1, SeriesInvariantHolds, PTL

\* However many statements overlap, and however they do: what one concludes of
\* an operation, no other contradicts, as long as attribution had a right to
\* be sure in all of them.
THEOREM ConclusionsAgree == SeriesSpec => []NeverContradicted
<1>1. SeriesInv => NeverContradicted
  <2> SUFFICES ASSUME SeriesInv, ~ doubtful, NEW s \in stored, NEW t \in stored,
                      s.op = t.op, s.account # Default, t.account # Default
               PROVE  s.account = t.account
    BY DEF NeverContradicted
  <2>1. PICK series \in Series : StoredRight(series)
    BY DEF SeriesInv
  <2>2. PICK i \in DOMAIN series : s.op \in DOMAIN series[i] /\ s.account = series[i][s.op].owner
    BY <2>1 DEF StoredRight
  <2>3. PICK j \in DOMAIN series : t.op \in DOMAIN series[j] /\ t.account = series[j][t.op].owner
    BY <2>1 DEF StoredRight
  <2> QED  BY <2>2, <2>3, OneHistory
<1> QED  BY <1>1, SeriesInvariantHolds, PTL

\* A statement uploaded a second time, whatever was stored in between, stores
\* nothing: there is one way to attribute it.
THEOREM ReuploadsAddNothing == SeriesSpec => ReuploadAddsNothing
<1>1. SeriesInv /\ [SeriesNext]_allVars => (rest' # rest /\ file \in imported => stored' = stored)
  <2> SUFFICES ASSUME SeriesInv, Store, file \in imported PROVE Keys \subseteq stored
    BY DEF SeriesNext, Attribute, allVars, Store
  <2>1. /\ IsStatement(file)
        /\ \A l \in DOMAIN file : Concluded(file, hint, l)
    BY DEF SeriesInv, IInv, Processed, Store, Lines
  <2>2. PICK H : /\ \A o \in DOMAIN file : Concluded(file, H, o)
                 /\ \A l \in DOMAIN file :
                       [account |-> IF H[l] = NoCard THEN Default ELSE H[l], op |-> l] \in stored
    BY DEF SeriesInv, ImportedStored
  <2>3. \A l \in DOMAIN file : H[l] = hint[l]
    <3>1. PICK f, G : f = file /\ G = hint
      BY <2>1
    <3>2. IsStatement(f) /\ \A o \in DOMAIN f : Concluded(f, H, o) /\ Concluded(f, G, o)
      BY <2>1, <2>2, <3>1
    <3>3. \A o \in DOMAIN f : H[o] = G[o]
      BY <3>2, OneConclusion
    <3> QED  BY <3>1, <3>3
  <2> QED  BY <2>2, <2>3 DEF Keys, AccountOf, Lines
<1> QED  BY <1>1, SeriesInvariantHolds, PTL DEF ReuploadAddsNothing, SeriesSpec

=============================================================================
