---------------------------- MODULE MoneyProofs ----------------------------
(***************************************************************************)
(* Proofs that money is neither hidden nor misread.                        *)
(*                                                                         *)
(* match_internal_transfers pairs every row at most once, overlooks no     *)
(* transfer and hides no money, for lists of any length, any accounts and  *)
(* any window.                                                             *)
(*                                                                         *)
(* parse_amount loses no digit of any text, reads every clear one as what  *)
(* was meant, and format_amount prints what is read back: for texts of any *)
(* length, any amount and any precision of the decimal context.            *)
(***************************************************************************)
EXTENDS Transfers, Money, FiniteInduction, SequenceTheorems

----------------------------------------------------------------------------
\* Transfers: the loop over the outgoing rows.

\* The loop has been through the earliest outgoing rows.
EarliestFirst == \A e \in looked : \A o \in Outgoing \ looked : Before(e, o)

\* Why a partner of o is no longer to be had, by the preference of the scan.
Settled(o, i) ==
    \/ <<o, i>> \in pairs
    \/ \E j \in Partners(o) : <<o, j>> \in pairs /\ Preferred(o, j, i)
    \/ \E e \in looked : <<e, i>> \in pairs /\ Before(e, o)

PartnersSettled == \A o \in looked : \A i \in Partners(o) : Settled(o, i)

IInv ==
    /\ rows \in Tables
    /\ TypeOK
    /\ EarliestFirst
    /\ EachMatchedOnce
    /\ PartnersSettled

\* No pair is made at first.
LEMMA InitIInv == Init => IInv
<1> SUFFICES ASSUME Init
             PROVE  IInv
  OBVIOUS
<1>1. TypeOK
  BY TablesAreRows DEF Init, TypeOK, Ids
<1>2. EarliestFirst /\ EachMatchedOnce /\ PartnersSettled
  BY DEF Init, EarliestFirst, EachMatchedOnce, PartnersSettled
<1> QED  BY <1>1, <1>2 DEF IInv, Init

\* The order of the loop is transitive.
LEMMA BeforeIsTransitive ==
    ASSUME IInv, NEW r \in Ids, NEW s \in Ids, NEW t \in Ids, Before(r, s), Before(s, t)
    PROVE  Before(r, t)
<1>1. r \in Int /\ s \in Int /\ t \in Int
  BY TablesAreRows DEF IInv, Ids
<1>2. rows[r].at \in Int /\ rows[s].at \in Int /\ rows[t].at \in Int
  BY DEF IInv, TypeOK, TransferRows
<1> QED  BY <1>1, <1>2 DEF Before

\* What depends on the rows alone stays as it is.
LEMMA RowsStay ==
    ASSUME UNCHANGED rows
    PROVE  /\ Ids' = Ids
           /\ Outgoing' = Outgoing
           /\ \A r, s \in Ids : Before(r, s)' <=> Before(r, s)
           /\ \A o \in Ids : Partners(o)' = Partners(o)
           /\ \A o, i, j \in Ids : Preferred(o, i, j)' <=> Preferred(o, i, j)
BY DEF Ids, Outgoing, Before, Partners, Bucket, Delta, Preferred

\* An incoming row that is taken was taken by an outgoing row the loop has
\* been through.
LEMMA TakenByLooked ==
    ASSUME IInv, NEW i \in Ids \ Outgoing, i \in Used
    PROVE  \E e \in looked : <<e, i>> \in pairs
<1>1. PICK p \in pairs : i = p[1] \/ i = p[2]
  BY DEF Used
<1>2. /\ p \in looked \X (Ids \ Outgoing)
      /\ looked \subseteq Outgoing
  BY DEF IInv, TypeOK
<1>3. p[1] \in looked /\ p = <<p[1], p[2]>>
  BY <1>2
<1>4. i = p[2]
  BY <1>1, <1>2, <1>3
<1> QED  BY <1>3, <1>4

\* Only incoming rows are offered to an outgoing one.
LEMMA PartnersAreIncoming ==
    ASSUME IInv, NEW o \in Ids, NEW i \in Partners(o)
    PROVE  i \in Ids \ Outgoing
<1>1. i \in Ids /\ rows[i].amount > 0
  BY DEF Partners, Bucket
<1>2. rows[i].amount \in Int
  BY <1>1 DEF IInv, TypeOK, TransferRows
<1> QED  BY <1>1, <1>2 DEF Outgoing

\* Both ways the loop treats a row keep the order of the loop.
LEMMA EarliestFirstKept ==
    ASSUME IInv, NEW o \in Ids, IsNext(o), looked' = looked \cup {o}, UNCHANGED rows
    PROVE  EarliestFirst'
<1>1. SUFFICES ASSUME NEW e \in looked \cup {o}, NEW r \in Outgoing \ (looked \cup {o})
               PROVE  Before(e, r)
  <2>1. looked \cup {o} \subseteq Ids
    BY DEF IInv, TypeOK, Outgoing
  <2>2. Outgoing \subseteq Ids
    BY DEF Outgoing
  <2> QED  BY <1>1, <2>1, <2>2, RowsStay DEF EarliestFirst
<1>2. CASE e = o
  BY <1>2 DEF IsNext
<1>3. CASE e # o
  BY <1>3 DEF IInv, EarliestFirst
<1> QED  BY <1>2, <1>3

\* Pairs are only added, so a reason once given stands.
LEMMA SettledKept ==
    ASSUME NEW o, NEW i, Settled(o, i),
           rows' = rows, pairs \subseteq pairs', looked \subseteq looked'
    PROVE  Settled(o, i)'
<1>1. Partners(o)' = Partners(o)
  BY DEF Partners, Bucket, Delta, Ids
<1>2. CASE <<o, i>> \in pairs
  BY <1>2 DEF Settled
<1>3. ASSUME NEW j \in Partners(o), <<o, j>> \in pairs, Preferred(o, j, i)
      PROVE  Settled(o, i)'
  <2>1. Preferred(o, j, i)'
    BY <1>3 DEF Preferred, Delta, Before
  <2> QED  BY <1>1, <1>3, <2>1 DEF Settled
<1>4. ASSUME NEW e \in looked, <<e, i>> \in pairs, Before(e, o)
      PROVE  Settled(o, i)'
  <2>1. Before(e, o)'
    BY <1>4 DEF Before
  <2> QED  BY <1>4, <2>1 DEF Settled
<1> QED  BY <1>2, <1>3, <1>4 DEF Settled

\* Taking the closest free partner keeps the invariant.
LEMMA MatchIInv ==
    ASSUME IInv, NEW o \in Ids, Match(o)
    PROVE  IInv'
<1>1. PICK i \in Ids : Closest(o, i) /\ pairs' = pairs \cup {<<o, i>>}
  BY DEF Match
<1>2. /\ IsNext(o)
      /\ looked' = looked \cup {o}
      /\ rows' = rows
  BY DEF Match
<1>3. o \in Outgoing \ looked
  BY <1>2 DEF IsNext
<1>4. i \in Partners(o) /\ i \notin Used
  BY <1>1 DEF Closest, Free
<1>5. i \in Ids \ Outgoing
  BY <1>4, PartnersAreIncoming
<1>6. /\ looked \subseteq Outgoing
      /\ pairs \subseteq looked \X (Ids \ Outgoing)
  BY DEF IInv, TypeOK
<1>7. TypeOK'
  <2>1. pairs' \subseteq looked' \X (Ids \ Outgoing)
    BY <1>1, <1>2, <1>5, <1>6
  <2>2. looked' \subseteq Outgoing
    BY <1>2, <1>3, <1>6
  <2>3. \A r \in Ids : rows[r] \in TransferRows
    BY DEF IInv, TypeOK
  <2> QED  BY <1>2, <2>1, <2>2, <2>3, RowsStay DEF TypeOK
<1>8. EarliestFirst'
  BY <1>2, EarliestFirstKept
<1>9. EachMatchedOnce'
  <2>1. \A p \in pairs : p[1] # o /\ p[2] # i
    BY <1>3, <1>4, <1>6 DEF Used
  <2>2. EachMatchedOnce
    BY DEF IInv
  <2>3. \A p \in pairs' : p \in pairs \/ (p[1] = o /\ p[2] = i /\ p = <<o, i>>)
    BY <1>1
  <2> QED  BY <2>1, <2>2, <2>3 DEF EachMatchedOnce
<1>10. PartnersSettled'
  <2>1. SUFFICES ASSUME NEW q \in looked', NEW k \in Partners(q)'
                 PROVE  Settled(q, k)'
    BY DEF PartnersSettled
  <2>2. k \in Partners(q)
    BY <1>2 DEF Partners, Bucket, Delta, Ids
  <2>3. CASE q \in looked
    <3>1. Settled(q, k)
      BY <2>2, <2>3 DEF IInv, PartnersSettled
    <3> QED  BY <1>1, <1>2, <3>1, SettledKept
  <2>4. CASE q = o /\ k \in Used
    <3>1. PICK e \in looked : <<e, k>> \in pairs
      BY <2>2, <2>4, PartnersAreIncoming, TakenByLooked
    <3>2. Before(e, o)
      BY <1>3 DEF IInv, EarliestFirst
    <3>3. Settled(q, k)
      BY <2>4, <3>1, <3>2 DEF Settled
    <3> QED  BY <1>1, <1>2, <3>3, SettledKept
  <2>5. CASE q = o /\ k \notin Used
    <3>1. k \in Free(o)
      BY <2>2, <2>5 DEF Free
    <3>2. k = i \/ Preferred(o, i, k)
      BY <1>1, <3>1 DEF Closest
    <3>3. CASE k = i
      BY <1>1, <2>5, <3>3 DEF Settled
    <3>4. CASE Preferred(o, i, k)
      <4>1. Preferred(o, i, k)'
        BY <1>2, <3>4 DEF Preferred, Delta, Before
      <4>2. i \in Partners(o)'
        BY <1>2, <1>4 DEF Partners, Bucket, Delta, Ids
      <4> QED  BY <1>1, <2>5, <4>1, <4>2 DEF Settled
    <3> QED  BY <3>2, <3>3, <3>4
  <2> QED  BY <1>2, <2>1, <2>3, <2>4, <2>5
<1> QED  BY <1>2, <1>7, <1>8, <1>9, <1>10 DEF IInv

\* So does finding no partner.
LEMMA LeaveAloneIInv ==
    ASSUME IInv, NEW o \in Ids, LeaveAlone(o)
    PROVE  IInv'
<1>1. /\ IsNext(o)
      /\ Free(o) = {}
      /\ looked' = looked \cup {o}
      /\ rows' = rows
      /\ pairs' = pairs
  BY DEF LeaveAlone
<1>2. o \in Outgoing \ looked
  BY <1>1 DEF IsNext
<1>3. /\ looked \subseteq Outgoing
      /\ pairs \subseteq looked \X (Ids \ Outgoing)
  BY DEF IInv, TypeOK
<1>4. TypeOK'
  <2>1. \A r \in Ids : rows[r] \in TransferRows
    BY DEF IInv, TypeOK
  <2> QED  BY <1>1, <1>2, <1>3, <2>1, RowsStay DEF TypeOK
<1>5. EarliestFirst'
  BY <1>1, EarliestFirstKept
<1>6. EachMatchedOnce'
  BY <1>1 DEF IInv, EachMatchedOnce
<1>7. PartnersSettled'
  <2>1. SUFFICES ASSUME NEW q \in looked', NEW k \in Partners(q)'
                 PROVE  Settled(q, k)'
    BY DEF PartnersSettled
  <2>2. k \in Partners(q)
    BY <1>1 DEF Partners, Bucket, Delta, Ids
  <2>3. Settled(q, k)
    <3>1. CASE q \in looked
      BY <2>2, <3>1 DEF IInv, PartnersSettled
    <3>2. CASE q = o
      <4>1. k \in Used
        BY <1>1, <2>2, <3>2 DEF Free
      <4>2. PICK e \in looked : <<e, k>> \in pairs
        BY <2>2, <3>2, <4>1, PartnersAreIncoming, TakenByLooked
      <4>3. Before(e, o)
        BY <1>2 DEF IInv, EarliestFirst
      <4> QED  BY <3>2, <4>2, <4>3 DEF Settled
    <3> QED  BY <1>1, <3>1, <3>2
  <2> QED  BY <1>1, <2>3, SettledKept
<1> QED  BY <1>1, <1>4, <1>5, <1>6, <1>7 DEF IInv

\* And so does every step.
LEMMA NextIInv == IInv /\ [Next]_vars => IInv'
<1> SUFFICES ASSUME IInv, [Next]_vars
             PROVE  IInv'
  OBVIOUS
<1>1. ASSUME NEW o \in Ids, Match(o)
      PROVE  IInv'
  BY <1>1, MatchIInv
<1>2. ASSUME NEW o \in Ids, LeaveAlone(o)
      PROVE  IInv'
  BY <1>2, LeaveAloneIInv
<1>3. CASE UNCHANGED vars
  <2>1. rows' = rows /\ looked' = looked /\ pairs' = pairs
    BY <1>3 DEF vars
  <2>2. TypeOK'
    BY <2>1 DEF IInv, TypeOK, Ids, Outgoing
  <2>3. EarliestFirst'
    BY <2>1 DEF IInv, EarliestFirst, Ids, Outgoing, Before
  <2>4. EachMatchedOnce'
    BY <2>1 DEF IInv, EachMatchedOnce
  <2>5. PartnersSettled'
    <3>1. SUFFICES ASSUME NEW q \in looked', NEW k \in Partners(q)'
                   PROVE  Settled(q, k)'
      BY DEF PartnersSettled
    <3>2. Settled(q, k)
      BY <2>1 DEF IInv, PartnersSettled, Partners, Bucket, Delta, Ids
    <3> QED  BY <2>1, <3>2, SettledKept
  <2> QED  BY <2>1, <2>2, <2>3, <2>4, <2>5 DEF IInv
<1> QED  BY <1>1, <1>2, <1>3 DEF Next

----------------------------------------------------------------------------
\* The invariant holds for every list of rows.
THEOREM InvariantHolds == Spec => []IInv
<1>1. Init => IInv
  BY InitIInv
<1>2. IInv /\ [Next]_vars => IInv'
  BY NextIInv
<1> QED  BY <1>1, <1>2, PTL DEF Spec

\* Pairs consist of an outgoing and an incoming row of the list.
THEOREM TypeCorrect == Spec => []TypeOK
<1>1. IInv => TypeOK
  BY DEF IInv
<1> QED  BY <1>1, InvariantHolds, PTL

\* In lists of any length, no row is part of two transfers.
THEOREM MatchedOnce == Spec => []EachMatchedOnce
<1>1. IInv => EachMatchedOnce
  BY DEF IInv
<1> QED  BY <1>1, InvariantHolds, PTL

\* Two rows that are a transfer by transfers.py:12-16 are partners for the scan.
LEMMA TransfersArePartners ==
    ASSUME IInv, NEW o \in Ids, NEW i \in Ids, CouldBeTransfer(o, i)
    PROVE  i \in Partners(o)
<1>1. /\ rows[o].amount \in Int /\ rows[i].amount \in Int
      /\ rows[o].at \in Int /\ rows[i].at \in Int /\ Window \in Nat
  BY WindowIsTime DEF IInv, TypeOK, TransferRows
<1>2. i \in Bucket(o)
  BY <1>1 DEF CouldBeTransfer, Bucket
<1>3. Delta(i, o) <= Window
  BY <1>1 DEF CouldBeTransfer, WithinWindow, Delta
<1> QED  BY <1>2, <1>3 DEF Partners, CouldBeTransfer

\* In lists of any length and for any window, a transfer is passed over only
\* for one as close or for an earlier claim.
THEOREM NothingOverlooked == Spec => []NoTransferOverlooked
<1>1. ASSUME IInv PROVE NoTransferOverlooked
  <2> SUFFICES ASSUME NEW o \in looked, NEW i \in Ids, CouldBeTransfer(o, i)
               PROVE  Accounted(o, i)
    BY DEF NoTransferOverlooked
  <2>1. looked \subseteq Ids
    BY <1>1 DEF IInv, TypeOK, Outgoing
  <2>2. Settled(o, i)
    BY <1>1, <2>1, TransfersArePartners DEF IInv, PartnersSettled
  <2>3. ASSUME NEW j \in Partners(o), <<o, j>> \in pairs, Preferred(o, j, i)
        PROVE  Accounted(o, i)
    <3>1. j \in Ids
      BY DEF Partners, Bucket
    <3>2. rows[o].at \in Int /\ rows[i].at \in Int /\ rows[j].at \in Int
      BY <1>1, <2>1, <3>1 DEF IInv, TypeOK, TransferRows
    <3>3. Delta(j, o) <= Delta(i, o)
      BY <2>3, <3>2 DEF Preferred, Delta
    <3> QED  BY <2>3, <3>1, <3>3 DEF Accounted
  <2>4. ASSUME NEW e \in looked, <<e, i>> \in pairs, Before(e, o)
        PROVE  Accounted(o, i)
    <3>1. rows[e].at \in Int /\ rows[o].at \in Int
      BY <1>1, <2>1 DEF IInv, TypeOK, TransferRows
    <3>2. rows[e].at <= rows[o].at
      BY <2>4, <3>1 DEF Before
    <3> QED  BY <2>4, <3>2 DEF Accounted
  <2> QED  BY <2>2, <2>3, <2>4 DEF Settled, Accounted
<1> QED  BY <1>1, InvariantHolds, PTL

----------------------------------------------------------------------------
(* No money is hidden. *)

Amounts == [r \in Ids |-> Amount(r)]

\* Rows no transfer has, and what reconcile.py makes of them.
Spent == {r \in Outgoing : r \notin Used}

Received == {r \in Ids \ Outgoing : r \notin Used}

\* What MapThenSumSet computes of rows is their sum.
LEMMA AmountsAreSummed ==
    ASSUME NEW S \in SUBSET Ids
    PROVE  MapThenSumSet(Amount, S) = SumOf(Amounts, S)
<1> DEFINE Sums(g) == [s \in SUBSET S |->
               IF s = {} THEN 0
               ELSE Amount(CHOOSE x \in s : TRUE) + g[s \ {CHOOSE x \in s : TRUE}]]
           Sums2(g) == [s \in SUBSET S |->
               IF s = {} THEN 0
               ELSE Amounts[CHOOSE x \in s : TRUE] + g[s \ {CHOOSE x \in s : TRUE}]]
<1>1. MapThenSumSet(Amount, S) = (CHOOSE g : g = Sums(g))[S]
  BY DEF MapThenSumSet, MapThenFoldSet
<1>2. ASSUME NEW s \in SUBSET S, s # {}
      PROVE  Amount(CHOOSE x \in s : TRUE) = Amounts[CHOOSE x \in s : TRUE]
  <2>1. (CHOOSE x \in s : TRUE) \in Ids
    BY <1>2
  <2> QED  BY <2>1 DEF Amounts
<1>3. \A g : Sums(g) = Sums2(g)
  BY <1>2
<1>4. SumOf(Amounts, S) = (CHOOSE g : g = Sums2(g))[S]
  BY DEF SumOf, SumsOf
<1> HIDE DEF Sums, Sums2
<1>5. (CHOOSE g : g = Sums(g)) = (CHOOSE g : g = Sums2(g))
  BY <1>3, Zenon
<1> QED  BY <1>1, <1>4, <1>5

\* Rows and their amounts, for the lemmas about sums.
LEMMA AmountsAreNumbers ==
    ASSUME IInv, NEW S \in SUBSET Ids
    PROVE  IsFiniteSet(S) /\ \A r \in S : Amounts[r] \in Int
<1>1. IsFiniteSet(Ids)
  BY TablesAreRows DEF IInv, Ids
<1>2. \A r \in Ids : rows[r].amount \in Int
  BY DEF IInv, TypeOK, TransferRows
<1> QED  BY <1>1, <1>2, FS_Subset DEF Amounts, Amount

SumsAreEqual == SumOf(Amounts, Spent) + SumOf(Amounts, Received) = SumOf(Amounts, Ids)

\* The sums with the names the lemmas have for them.
LEMMA Balanced == BalanceUntouched <=> SumsAreEqual
<1>1. Spent \in SUBSET Ids /\ Received \in SUBSET Ids
  BY DEF Spent, Received, Outgoing
<1>2. RealSpend = SumOf(Amounts, Spent)
  BY <1>1, AmountsAreSummed DEF RealSpend, Spent
<1>3. RealIncome = SumOf(Amounts, Received)
  BY <1>1, AmountsAreSummed DEF RealIncome, Received
<1>4. MapThenSumSet(Amount, Ids) = SumOf(Amounts, Ids)
  BY AmountsAreSummed
<1> QED  BY <1>2, <1>3, <1>4 DEF BalanceUntouched, SumsAreEqual

\* Before the loop every row is spending or income.
LEMMA InitBalanced == ASSUME Init PROVE BalanceUntouched
<1>1. IInv
  BY InitIInv
<1>2. Spent \cup Received = Ids /\ Spent \cap Received = {}
  BY DEF Init, Spent, Received, Outgoing, Used
<1>3. SumOf(Amounts, Ids) = SumOf(Amounts, Spent) + SumOf(Amounts, Received)
  BY <1>1, <1>2, AmountsAreNumbers, SumOfBoth
<1> QED  BY <1>3, Balanced DEF SumsAreEqual

\* A pair takes as much from spending as from income.
LEMMA MatchBalanced ==
    ASSUME IInv, BalanceUntouched, NEW o \in Ids, Match(o)
    PROVE  BalanceUntouched'
<1>1. PICK i \in Ids : Closest(o, i) /\ pairs' = pairs \cup {<<o, i>>}
  BY DEF Match
<1>2. rows' = rows /\ o \in Outgoing /\ o \notin looked
  BY DEF Match, IsNext
<1>3. i \in Partners(o) /\ i \notin Used /\ i \in Ids \ Outgoing
  BY <1>1, PartnersAreIncoming DEF Closest, Free
<1>4. o \notin Used
  BY <1>2 DEF IInv, TypeOK, Used
<1>5. Amounts[i] = - Amounts[o] /\ Amounts[o] \in Int
  <2>1. rows[i].amount = - rows[o].amount
    BY <1>3 DEF Partners, Bucket
  <2>2. rows[o].amount \in Int
    BY DEF IInv, TypeOK, TransferRows
  <2> QED  BY <2>1, <2>2 DEF Amounts, Amount
<1>6. Used' = Used \cup {o, i}
  <2> DEFINE new == <<o, i>>
  <2>1. new[1] = o /\ new[2] = i /\ pairs' = pairs \cup {new}
    BY <1>1
  <2> HIDE DEF new
  <2>2. {p[1] : p \in pairs'} = {p[1] : p \in pairs} \cup {o}
    BY <2>1
  <2>3. {p[2] : p \in pairs'} = {p[2] : p \in pairs} \cup {i}
    BY <2>1
  <2> QED  BY <2>2, <2>3 DEF Used
<1>7. Ids' = Ids /\ Outgoing' = Outgoing /\ Amounts' = Amounts
  BY <1>2 DEF Ids, Outgoing, Amounts, Amount
<1>8. Spent' = Spent \ {o} /\ Received' = Received \ {i}
  BY <1>2, <1>3, <1>6, <1>7 DEF Spent, Received
<1>9. Spent \in SUBSET Ids /\ Received \in SUBSET Ids /\ o \in Spent /\ i \in Received
  BY <1>2, <1>3, <1>4 DEF Spent, Received, Outgoing
<1>10. SumOf(Amounts, Spent) = Amounts[o] + SumOf(Amounts, Spent')
  BY <1>8, <1>9, AmountsAreNumbers, SumTakesOut
<1>11. SumOf(Amounts, Received) = Amounts[i] + SumOf(Amounts, Received')
  BY <1>8, <1>9, AmountsAreNumbers, SumTakesOut
<1>12. SumOf(Amounts, Spent') \in Int /\ SumOf(Amounts, Received') \in Int
  <2>1. Spent' \in SUBSET Ids /\ Received' \in SUBSET Ids
    BY <1>8, <1>9
  <2> QED  BY <2>1, AmountsAreNumbers, SumTakesOut
<1>13. SumOf(Amounts, Spent) + SumOf(Amounts, Received) = SumOf(Amounts, Ids)
  BY Balanced DEF SumsAreEqual
<1>14. SumOf(Amounts, Spent') + SumOf(Amounts, Received') = SumOf(Amounts, Ids)
  BY <1>5, <1>10, <1>11, <1>12, <1>13
<1>15. SumsAreEqual'
  BY <1>7, <1>14 DEF SumsAreEqual
<1> QED  BY <1>15, Balanced, PTL

\* In lists of any length, what remains of spending and income adds up to the
\* change of all balances: leaving the transfers out hides no money.
THEOREM MoneyIsNotHidden == Spec => []BalanceUntouched
<1>1. Init => BalanceUntouched
  BY InitBalanced
<1>2. IInv /\ BalanceUntouched /\ [Next]_vars => BalanceUntouched'
  <2> SUFFICES ASSUME IInv, BalanceUntouched, [Next]_vars PROVE BalanceUntouched'
    OBVIOUS
  <2>1. ASSUME NEW o \in Ids, Match(o) PROVE BalanceUntouched'
    BY <2>1, MatchBalanced
  <2>2. CASE UNCHANGED <<rows, pairs>>
    <3>1. /\ Amounts' = Amounts /\ Ids' = Ids
          /\ Spent' = Spent /\ Received' = Received
      BY <2>2 DEF Amounts, Amount, Ids, Spent, Received, Outgoing, Used
    <3>2. SumsAreEqual'
      BY <3>1, Balanced DEF SumsAreEqual
    <3> QED  BY <3>2, Balanced, PTL
  <2> QED  BY <2>1, <2>2 DEF Next, LeaveAlone, vars
<1> QED  BY <1>1, <1>2, InvariantHolds, PTL DEF Spec

----------------------------------------------------------------------------
\* The functions that Money defines from one character or digit to the next
\* exist, and what they are when a text or a number grows by one.

\* The figures have the values 0 to 9, each its own.
LEMMA FiguresHaveValues ==
    /\ \A n \in 0 .. 9 : Figures[n + 1] \in Digits /\ ValueOf(Figures[n + 1]) = n
    /\ \A c \in Digits : ValueOf(c) \in 0 .. 9 /\ Figures[ValueOf(c) + 1] = c
<1>1. /\ Figures[1] = "0" /\ Figures[2] = "1" /\ Figures[3] = "2" /\ Figures[4] = "3"
      /\ Figures[5] = "4" /\ Figures[6] = "5" /\ Figures[7] = "6" /\ Figures[8] = "7"
      /\ Figures[9] = "8" /\ Figures[10] = "9"
  BY DEF Figures
<1>2. ASSUME NEW m \in 1 .. 10, NEW n \in 1 .. 10, Figures[m] = Figures[n] PROVE m = n
  BY <1>1, <1>2
<1>3. ASSUME NEW n \in 0 .. 9 PROVE Figures[n + 1] \in Digits /\ ValueOf(Figures[n + 1]) = n
  <2>1. n + 1 \in 1 .. 10
    OBVIOUS
  <2>2. \A m \in 0 .. 9 : Figures[m + 1] = Figures[n + 1] => m = n
    <3>1. ASSUME NEW m \in 0 .. 9, Figures[m + 1] = Figures[n + 1] PROVE m = n
      <4>1. m + 1 \in 1 .. 10
        OBVIOUS
      <4>2. m + 1 = n + 1
        BY <1>2, <2>1, <3>1, <4>1
      <4> QED  BY <4>2
    <3> QED  BY <3>1
  <2>3. ValueOf(Figures[n + 1]) = n
    BY <2>2 DEF ValueOf
  <2> QED  BY <2>1, <2>3 DEF Digits
<1>4. ASSUME NEW c \in Digits PROVE ValueOf(c) \in 0 .. 9 /\ Figures[ValueOf(c) + 1] = c
  <2>1. PICK m \in 1 .. 10 : c = Figures[m]
    BY DEF Digits
  <2>2. m - 1 \in 0 .. 9 /\ Figures[(m - 1) + 1] = c
    BY <2>1
  <2> QED  BY <2>2 DEF ValueOf
<1> QED  BY <1>3, <1>4

\* Picked keeps what it made of the text before and adds a character at one
\* of the places.
Picks(f, text, places) ==
    /\ f[0] = <<>>
    /\ \A k \in 1 .. Len(text) :
          f[k] = IF k \in places THEN Append(f[k - 1], text[k]) ELSE f[k - 1]

\* There is such a function, and it ends with what Picked is.
LEMMA PickedRuns ==
    ASSUME NEW V, NEW text \in Seq(V), NEW places
    PROVE  \E f \in [0 .. Len(text) -> Seq(V)] :
              Picks(f, text, places) /\ Picked(text, places) = f[Len(text)]
<1> DEFINE n == Len(text)
           Goes(k, v) == IF k \in places THEN Append(v, text[k]) ELSE v
           W == Seq(V)
           step == [p \in (1 .. n) \X W |-> Goes(p[1], p[2])]
<1>1. n \in Nat
  OBVIOUS
<1>2. ASSUME NEW k \in 1 .. n, NEW v \in W PROVE step[<<k, v>>] = Goes(k, v) /\ Goes(k, v) \in W
  <2>1. text[k] \in V
    OBVIOUS
  <2>2. Append(v, text[k]) \in W
    BY <2>1, AppendProperties
  <2> QED  BY <2>2
<1>3. <<>> \in W
  OBVIOUS
<1>4. \A k \in 1 .. n : \A v \in W : step[<<k, v>>] \in W
  BY <1>2
<1> HIDE DEF step, W, Goes
<1>5. SomeRecurs(n, W, <<>>, step)
  BY <1>1, <1>3, <1>4, RecursionUpTo
<1>6. PICK h \in [0 .. n -> W] : Recurs(h, n, <<>>, step)
  BY <1>5 DEF SomeRecurs
<1>7. h[0] = <<>> /\ \A k \in 1 .. n : h[k] = Goes(k, h[k - 1])
  <2>1. ASSUME NEW k \in 1 .. n PROVE h[k] = Goes(k, h[k - 1])
    <3>1. k - 1 \in 0 .. n
      BY <1>1
    <3> QED  BY <1>2, <1>6, <3>1 DEF Recurs
  <2> QED  BY <1>6, <2>1 DEF Recurs
<1> DEFINE Body(g) == [k \in 0 .. n |-> IF k = 0 THEN <<>> ELSE Goes(k, g[k - 1])]
           upTo == CHOOSE g : g = Body(g)
<1>8. h = Body(h)
  <2>1. h = [k \in 0 .. n |-> h[k]]
    OBVIOUS
  <2>2. \A k \in 0 .. n : h[k] = IF k = 0 THEN <<>> ELSE Goes(k, h[k - 1])
    BY <1>1, <1>7
  <2> QED  BY <2>1, <2>2
<1>9. Picked(text, places) = upTo[n]
  <2>1. ASSUME NEW g
        PROVE  Body(g) = [i \in 0 .. Len(text) |->
                            IF i = 0 THEN <<>>
                            ELSE IF i \in places THEN Append(g[i - 1], text[i]) ELSE g[i - 1]]
    BY DEF Goes
  <2> QED  BY <2>1 DEF Picked
<1>10. upTo = Body(upTo)
  BY <1>8
<1> HIDE DEF upTo
<1>11. \A k \in 0 .. n : upTo[k] = IF k = 0 THEN <<>> ELSE Goes(k, upTo[k - 1])
  BY <1>10
<1>12. Agree(n, h, upTo)
  <2>1. h[0] = upTo[0]
    BY <1>1, <1>7, <1>11
  <2>2. ASSUME NEW k \in 1 .. n, h[k - 1] = upTo[k - 1] PROVE h[k] = upTo[k]
    BY <1>1, <1>7, <1>11, <2>2
  <2> QED  BY <1>1, <2>1, <2>2, SameUpTo
<1>13. Picked(text, places) = h[n]
  BY <1>1, <1>9, <1>12 DEF Agree
<1>14. Picks(h, text, places)
  BY <1>7 DEF Picks, Goes, n
<1> QED  BY <1>13, <1>14 DEF W, n

\* Number takes the digits one after another.
Counts(f, text) ==
    /\ f[0] = 0
    /\ \A k \in 1 .. Len(text) :
          f[k] = IF text[k] \in Digits THEN 10 * f[k - 1] + ValueOf(text[k]) ELSE f[k - 1]

\* There is such a function: the one Number is written with.
LEMMA NumberRuns ==
    ASSUME NEW V, NEW text \in Seq(V)
    PROVE  \E f \in [0 .. Len(text) -> Nat] : Counts(f, text) /\ Number(text) = f[Len(text)]
<1> DEFINE n == Len(text)
           Goes(k, v) == IF text[k] \in Digits THEN 10 * v + ValueOf(text[k]) ELSE v
           step == [p \in (1 .. n) \X Nat |-> Goes(p[1], p[2])]
<1>1. n \in Nat
  OBVIOUS
<1>2. ASSUME NEW k \in 1 .. n, NEW v \in Nat PROVE step[<<k, v>>] = Goes(k, v) /\ Goes(k, v) \in Nat
  <2>1. text[k] \in Digits => ValueOf(text[k]) \in Nat
    BY FiguresHaveValues
  <2> QED  BY <2>1
<1>3. \A k \in 1 .. n : \A v \in Nat : step[<<k, v>>] \in Nat
  BY <1>2
<1> HIDE DEF step, Goes
<1>4. 0 \in Nat
  OBVIOUS
<1>5. SomeRecurs(n, Nat, 0, step)
  BY <1>1, <1>3, <1>4, RecursionUpTo
<1>6. PICK h \in [0 .. n -> Nat] : Recurs(h, n, 0, step)
  BY <1>5 DEF SomeRecurs
<1>7. h[0] = 0 /\ \A k \in 1 .. n : h[k] = Goes(k, h[k - 1])
  <2>1. ASSUME NEW k \in 1 .. n PROVE h[k] = Goes(k, h[k - 1])
    <3>1. k - 1 \in 0 .. n
      BY <1>1
    <3> QED  BY <1>2, <1>6, <3>1 DEF Recurs
  <2> QED  BY <1>6, <2>1 DEF Recurs
<1> DEFINE Body(g) == [k \in 0 .. n |-> IF k = 0 THEN 0 ELSE Goes(k, g[k - 1])]
           upTo == CHOOSE g : g = Body(g)
<1>8. h = Body(h)
  <2>1. h = [k \in 0 .. n |-> h[k]]
    OBVIOUS
  <2>2. \A k \in 0 .. n : h[k] = IF k = 0 THEN 0 ELSE Goes(k, h[k - 1])
    BY <1>1, <1>7
  <2> QED  BY <2>1, <2>2
<1>9. Number(text) = upTo[n]
  <2>1. ASSUME NEW g
        PROVE  Body(g) = [i \in 0 .. Len(text) |->
                            IF i = 0 THEN 0
                            ELSE IF text[i] \in Digits THEN 10 * g[i - 1] + ValueOf(text[i])
                            ELSE g[i - 1]]
    BY DEF Goes
  <2> QED  BY <2>1 DEF Number
<1>10. upTo = Body(upTo)
  BY <1>8
<1> HIDE DEF upTo
<1>11. \A k \in 0 .. n : upTo[k] = IF k = 0 THEN 0 ELSE Goes(k, upTo[k - 1])
  BY <1>10
<1>12. Agree(n, h, upTo)
  <2>1. h[0] = upTo[0]
    BY <1>1, <1>7, <1>11
  <2>2. ASSUME NEW k \in 1 .. n, h[k - 1] = upTo[k - 1] PROVE h[k] = upTo[k]
    BY <1>1, <1>7, <1>11, <2>2
  <2> QED  BY <1>1, <2>1, <2>2, SameUpTo
<1>13. h[n] = upTo[n]
  BY <1>1, <1>12 DEF Agree
<1>14. Counts(h, text)
  BY <1>7 DEF Counts, Goes, n
<1> QED  BY <1>9, <1>13, <1>14 DEF n

\* Decimals starts anew at each separator.
Trails(f, text) ==
    /\ f[0] = 0
    /\ \A k \in 1 .. Len(text) :
          f[k] = IF text[k] \in Separators THEN 0
                 ELSE IF text[k] \in Digits THEN f[k - 1] + 1 ELSE f[k - 1]

\* There is such a function: the one Decimals is written with.
LEMMA DecimalsRuns ==
    ASSUME NEW V, NEW text \in Seq(V)
    PROVE  \E f \in [0 .. Len(text) -> Nat] :
              /\ Trails(f, text)
              /\ Decimals(text) = IF Places(Separators, text) = {} THEN 0 ELSE f[Len(text)]
<1> DEFINE n == Len(text)
           Goes(k, v) == IF text[k] \in Separators THEN 0
                         ELSE IF text[k] \in Digits THEN v + 1 ELSE v
           step == [p \in (1 .. n) \X Nat |-> Goes(p[1], p[2])]
<1>1. n \in Nat
  OBVIOUS
<1>2. ASSUME NEW k \in 1 .. n, NEW v \in Nat PROVE step[<<k, v>>] = Goes(k, v) /\ Goes(k, v) \in Nat
  OBVIOUS
<1>3. \A k \in 1 .. n : \A v \in Nat : step[<<k, v>>] \in Nat
  BY <1>2
<1> HIDE DEF step, Goes
<1>4. 0 \in Nat
  OBVIOUS
<1>5. SomeRecurs(n, Nat, 0, step)
  BY <1>1, <1>3, <1>4, RecursionUpTo
<1>6. PICK h \in [0 .. n -> Nat] : Recurs(h, n, 0, step)
  BY <1>5 DEF SomeRecurs
<1>7. h[0] = 0 /\ \A k \in 1 .. n : h[k] = Goes(k, h[k - 1])
  <2>1. ASSUME NEW k \in 1 .. n PROVE h[k] = Goes(k, h[k - 1])
    <3>1. k - 1 \in 0 .. n
      BY <1>1
    <3> QED  BY <1>2, <1>6, <3>1 DEF Recurs
  <2> QED  BY <1>6, <2>1 DEF Recurs
<1> DEFINE Body(g) == [k \in 0 .. n |-> IF k = 0 THEN 0 ELSE Goes(k, g[k - 1])]
           upTo == CHOOSE g : g = Body(g)
<1>8. h = Body(h)
  <2>1. h = [k \in 0 .. n |-> h[k]]
    OBVIOUS
  <2>2. \A k \in 0 .. n : h[k] = IF k = 0 THEN 0 ELSE Goes(k, h[k - 1])
    BY <1>1, <1>7
  <2> QED  BY <2>1, <2>2
<1>9. Decimals(text) = IF Places(Separators, text) = {} THEN 0 ELSE upTo[n]
  <2>1. ASSUME NEW g
        PROVE  Body(g) = [i \in 0 .. Len(text) |->
                            IF i = 0 \/ text[i] \in Separators THEN 0
                            ELSE IF text[i] \in Digits THEN g[i - 1] + 1 ELSE g[i - 1]]
    BY DEF Goes
  <2> DEFINE Other(g) == [i \in 0 .. Len(text) |->
                            IF i = 0 \/ text[i] \in Separators THEN 0
                            ELSE IF text[i] \in Digits THEN g[i - 1] + 1 ELSE g[i - 1]]
  <2>2. upTo = CHOOSE g : g = Other(g)
    BY <2>1
  <2>3. Decimals(text) = IF Places(Separators, text) = {} THEN 0
                         ELSE (CHOOSE g : g = Other(g))[Len(text)]
    BY DEF Decimals
  <2> QED  BY <2>2, <2>3
<1>10. upTo = Body(upTo)
  BY <1>8
<1> HIDE DEF upTo
<1>11. \A k \in 0 .. n : upTo[k] = IF k = 0 THEN 0 ELSE Goes(k, upTo[k - 1])
  BY <1>10
<1>12. Agree(n, h, upTo)
  <2>1. h[0] = upTo[0]
    BY <1>1, <1>7, <1>11
  <2>2. ASSUME NEW k \in 1 .. n, h[k - 1] = upTo[k - 1] PROVE h[k] = upTo[k]
    BY <1>1, <1>7, <1>11, <2>2
  <2> QED  BY <1>1, <2>1, <2>2, SameUpTo
<1>13. h[n] = upTo[n]
  BY <1>1, <1>12 DEF Agree
<1>14. Trails(h, text)
  BY <1>7 DEF Trails, Goes, n
<1> QED  BY <1>9, <1>13, <1>14 DEF n

\* The powers of ten.
Powers(f, m) == f[0] = 1 /\ \A k \in 1 .. m : f[k] = 10 * f[k - 1]

\* There is such a function: the one TenTo is written with.
LEMMA TenRuns ==
    ASSUME NEW m \in Nat
    PROVE  \E f \in [0 .. m -> Nat] : Powers(f, m) /\ TenTo(m) = f[m]
<1> DEFINE n == m
           Goes(k, v) == 10 * v
           step == [p \in (1 .. n) \X Nat |-> Goes(p[1], p[2])]
<1>1. n \in Nat
  OBVIOUS
<1>2. ASSUME NEW k \in 1 .. n, NEW v \in Nat PROVE step[<<k, v>>] = Goes(k, v) /\ Goes(k, v) \in Nat
  OBVIOUS
<1>3. \A k \in 1 .. n : \A v \in Nat : step[<<k, v>>] \in Nat
  BY <1>2
<1> HIDE DEF step, Goes
<1>4. 1 \in Nat
  OBVIOUS
<1>5. SomeRecurs(n, Nat, 1, step)
  BY <1>1, <1>3, <1>4, RecursionUpTo
<1>6. PICK h \in [0 .. n -> Nat] : Recurs(h, n, 1, step)
  BY <1>5 DEF SomeRecurs
<1>7. h[0] = 1 /\ \A k \in 1 .. n : h[k] = Goes(k, h[k - 1])
  <2>1. ASSUME NEW k \in 1 .. n PROVE h[k] = Goes(k, h[k - 1])
    <3>1. k - 1 \in 0 .. n
      BY <1>1
    <3> QED  BY <1>2, <1>6, <3>1 DEF Recurs
  <2> QED  BY <1>6, <2>1 DEF Recurs
<1> DEFINE Body(g) == [k \in 0 .. n |-> IF k = 0 THEN 1 ELSE Goes(k, g[k - 1])]
           power == CHOOSE g : g = Body(g)
<1>8. h = Body(h)
  <2>1. h = [k \in 0 .. n |-> h[k]]
    OBVIOUS
  <2>2. \A k \in 0 .. n : h[k] = IF k = 0 THEN 1 ELSE Goes(k, h[k - 1])
    BY <1>1, <1>7
  <2> QED  BY <2>1, <2>2
<1>9. TenTo(m) = power[n]
  <2>1. ASSUME NEW g
        PROVE  Body(g) = [i \in 0 .. m |-> IF i = 0 THEN 1 ELSE 10 * g[i - 1]]
    BY DEF Goes
  <2> QED  BY <2>1 DEF TenTo
<1>10. power = Body(power)
  BY <1>8
<1> HIDE DEF power
<1>11. \A k \in 0 .. n : power[k] = IF k = 0 THEN 1 ELSE Goes(k, power[k - 1])
  BY <1>10
<1>12. Agree(n, h, power)
  <2>1. h[0] = power[0]
    BY <1>1, <1>7, <1>11
  <2>2. ASSUME NEW k \in 1 .. n, h[k - 1] = power[k - 1] PROVE h[k] = power[k]
    BY <1>1, <1>7, <1>11, <2>2
  <2> QED  BY <1>1, <2>1, <2>2, SameUpTo
<1>13. h[n] = power[n]
  BY <1>1, <1>12 DEF Agree
<1>14. Powers(h, m)
  BY <1>7 DEF Powers, Goes, n
<1> QED  BY <1>9, <1>13, <1>14 DEF n

\* The quotients by ten.
Shortens(f, m, k) == f[0] = m /\ \A i \in 1 .. k : f[i] = f[i - 1] \div 10

\* There is such a function: the one Rest is written with.
LEMMA RestRuns ==
    ASSUME NEW m \in Nat, NEW l \in Nat
    PROVE  \E f \in [0 .. l -> Nat] : Shortens(f, m, l) /\ Rest(m, l) = f[l]
<1> DEFINE n == l
           Goes(k, v) == v \div 10
           step == [p \in (1 .. n) \X Nat |-> Goes(p[1], p[2])]
<1>1. n \in Nat
  OBVIOUS
<1>2. ASSUME NEW k \in 1 .. n, NEW v \in Nat PROVE step[<<k, v>>] = Goes(k, v) /\ Goes(k, v) \in Nat
  OBVIOUS
<1>3. \A k \in 1 .. n : \A v \in Nat : step[<<k, v>>] \in Nat
  BY <1>2
<1> HIDE DEF step, Goes
<1>4. m \in Nat
  OBVIOUS
<1>5. SomeRecurs(n, Nat, m, step)
  BY <1>1, <1>3, <1>4, RecursionUpTo
<1>6. PICK h \in [0 .. n -> Nat] : Recurs(h, n, m, step)
  BY <1>5 DEF SomeRecurs
<1>7. h[0] = m /\ \A k \in 1 .. n : h[k] = Goes(k, h[k - 1])
  <2>1. ASSUME NEW k \in 1 .. n PROVE h[k] = Goes(k, h[k - 1])
    <3>1. k - 1 \in 0 .. n
      BY <1>1
    <3> QED  BY <1>2, <1>6, <3>1 DEF Recurs
  <2> QED  BY <1>6, <2>1 DEF Recurs
<1> DEFINE Body(g) == [k \in 0 .. n |-> IF k = 0 THEN m ELSE Goes(k, g[k - 1])]
           rest == CHOOSE g : g = Body(g)
<1>8. h = Body(h)
  <2>1. h = [k \in 0 .. n |-> h[k]]
    OBVIOUS
  <2>2. \A k \in 0 .. n : h[k] = IF k = 0 THEN m ELSE Goes(k, h[k - 1])
    BY <1>1, <1>7
  <2> QED  BY <2>1, <2>2
<1>9. Rest(m, l) = rest[n]
  <2>1. ASSUME NEW g
        PROVE  Body(g) = [i \in 0 .. l |-> IF i = 0 THEN m ELSE g[i - 1] \div 10]
    BY DEF Goes
  <2> QED  BY <2>1 DEF Rest
<1>10. rest = Body(rest)
  BY <1>8
<1> HIDE DEF rest
<1>11. \A k \in 0 .. n : rest[k] = IF k = 0 THEN m ELSE Goes(k, rest[k - 1])
  BY <1>10
<1>12. Agree(n, h, rest)
  <2>1. h[0] = rest[0]
    BY <1>1, <1>7, <1>11
  <2>2. ASSUME NEW k \in 1 .. n, h[k - 1] = rest[k - 1] PROVE h[k] = rest[k]
    BY <1>1, <1>7, <1>11, <2>2
  <2> QED  BY <1>1, <2>1, <2>2, SameUpTo
<1>13. h[n] = rest[n]
  BY <1>1, <1>12 DEF Agree
<1>14. Shortens(h, m, l)
  BY <1>7 DEF Shortens, Goes, n
<1> QED  BY <1>9, <1>13, <1>14 DEF n

\* Adding at the end.
LEMMA GrowsByOne ==
    ASSUME NEW V, NEW s \in Seq(V), NEW x \in V
    PROVE  /\ Append(s, x) \in Seq(V)
           /\ Len(s) \in Nat
           /\ Len(Append(s, x)) = Len(s) + 1
           /\ Append(s, x)[Len(s) + 1] = x
           /\ \A k \in 1 .. Len(s) : Append(s, x)[k] = s[k]
BY AppendProperties

\* What a character more changes in the number.
LEMMA NumberAdded ==
    ASSUME NEW V, NEW text \in Seq(V), NEW x \in V
    PROVE  /\ Number(text) \in Nat
           /\ text = <<>> => Number(text) = 0
           /\ Number(Append(text, x)) =
                IF x \in Digits THEN 10 * Number(text) + ValueOf(x) ELSE Number(text)
<1> DEFINE n == Len(text)
           b == Append(text, x)
<1>1. /\ b \in Seq(V) /\ n \in Nat /\ Len(b) = n + 1 /\ b[n + 1] = x
      /\ \A k \in 1 .. n : b[k] = text[k]
  BY GrowsByOne
<1> HIDE DEF n, b
<1>2. PICK f \in [0 .. n -> Nat] : Counts(f, text) /\ Number(text) = f[n]
  BY NumberRuns DEF n
<1>3. PICK g \in [0 .. n + 1 -> Nat] : Counts(g, b) /\ Number(b) = g[n + 1]
  BY <1>1, NumberRuns
<1>4. Agree(n, f, g)
  <2>1. f[0] = g[0]
    BY <1>2, <1>3 DEF Counts
  <2>2. ASSUME NEW k \in 1 .. n, f[k - 1] = g[k - 1] PROVE f[k] = g[k]
    <3>1. f[k] = IF text[k] \in Digits THEN 10 * f[k - 1] + ValueOf(text[k]) ELSE f[k - 1]
      BY <1>2 DEF Counts, n
    <3>2. k \in 1 .. Len(b)
      BY <1>1
    <3>3. g[k] = IF b[k] \in Digits THEN 10 * g[k - 1] + ValueOf(b[k]) ELSE g[k - 1]
      BY <1>3, <3>2 DEF Counts
    <3>4. b[k] = text[k]
      BY <1>1
    <3>5. CASE text[k] \in Digits
      BY <2>2, <3>1, <3>3, <3>4, <3>5
    <3>6. CASE text[k] \notin Digits
      BY <2>2, <3>1, <3>3, <3>4, <3>6
    <3> QED  BY <3>5, <3>6
  <2> QED  BY <1>1, <2>1, <2>2, SameUpTo
<1>5. g[n] = Number(text)
  BY <1>1, <1>2, <1>4 DEF Agree
<1>6. n + 1 \in 1 .. Len(b) /\ (n + 1) - 1 = n
  BY <1>1
<1>7. g[n + 1] = IF b[n + 1] \in Digits THEN 10 * g[(n + 1) - 1] + ValueOf(b[n + 1])
                 ELSE g[(n + 1) - 1]
  BY <1>3, <1>6 DEF Counts
<1>8. Number(b) = IF x \in Digits THEN 10 * Number(text) + ValueOf(x) ELSE Number(text)
  BY <1>1, <1>3, <1>5, <1>6, <1>7
<1>9. Number(text) \in Nat
  BY <1>1, <1>2
<1>10. text = <<>> => Number(text) = 0
  BY <1>2 DEF Counts, n
<1> QED  BY <1>8, <1>9, <1>10 DEF b

\* What a character more changes in the places of some characters.
LEMMA PlacesAdded ==
    ASSUME NEW V, NEW text \in Seq(V), NEW x \in V, NEW C
    PROVE  /\ Places(C, Append(text, x)) =
                Places(C, text) \cup IF x \in C THEN {Len(text) + 1} ELSE {}
           /\ text = <<>> => Places(C, text) = {}
<1>1. /\ DOMAIN Append(text, x) = DOMAIN text \cup {Len(text) + 1}
      /\ DOMAIN text = 1 .. Len(text)
      /\ text = <<>> => DOMAIN text = {}
  BY GrowsByOne
<1> QED  BY <1>1, GrowsByOne DEF Places

\* What a character more changes in the number of digits of the fraction.
LEMMA DecimalsAdded ==
    ASSUME NEW V, NEW text \in Seq(V), NEW x \in V
    PROVE  /\ Decimals(text) \in Nat
           /\ Places(Separators, text) = {} => Decimals(text) = 0
           /\ Decimals(Append(text, x)) =
                IF x \in Separators \/ Places(Separators, text) = {} THEN 0
                ELSE IF x \in Digits THEN Decimals(text) + 1 ELSE Decimals(text)
<1> DEFINE n == Len(text)
           b == Append(text, x)
           none == Places(Separators, text) = {}
<1>1. /\ b \in Seq(V) /\ n \in Nat /\ Len(b) = n + 1 /\ b[n + 1] = x
      /\ \A k \in 1 .. n : b[k] = text[k]
  BY GrowsByOne
<1>2. Places(Separators, b) = {} <=> none /\ x \notin Separators
  <2>1. Places(Separators, b) = Places(Separators, text)
            \cup IF x \in Separators THEN {Len(text) + 1} ELSE {}
    BY PlacesAdded
  <2> QED  BY <2>1
<1> HIDE DEF n, b, none
<1>3. PICK f \in [0 .. n -> Nat] :
         Trails(f, text) /\ Decimals(text) = IF none THEN 0 ELSE f[n]
  BY DecimalsRuns DEF n, none
<1>4. PICK g \in [0 .. n + 1 -> Nat] :
         Trails(g, b) /\ Decimals(b) = IF none /\ x \notin Separators THEN 0 ELSE g[n + 1]
  BY <1>1, <1>2, DecimalsRuns
<1>5. Agree(n, f, g)
  <2>1. f[0] = g[0]
    BY <1>3, <1>4 DEF Trails
  <2>2. ASSUME NEW k \in 1 .. n, f[k - 1] = g[k - 1] PROVE f[k] = g[k]
    <3>1. f[k] = IF text[k] \in Separators THEN 0
                 ELSE IF text[k] \in Digits THEN f[k - 1] + 1 ELSE f[k - 1]
      BY <1>3 DEF Trails, n
    <3>2. k \in 1 .. Len(b)
      BY <1>1
    <3>3. g[k] = IF b[k] \in Separators THEN 0
                 ELSE IF b[k] \in Digits THEN g[k - 1] + 1 ELSE g[k - 1]
      BY <1>4, <3>2 DEF Trails
    <3>4. b[k] = text[k]
      BY <1>1
    <3>5. CASE text[k] \in Separators
      BY <3>1, <3>3, <3>4, <3>5
    <3>6. CASE text[k] \notin Separators
      BY <2>2, <3>1, <3>3, <3>4, <3>6
    <3> QED  BY <3>5, <3>6
  <2> QED  BY <1>1, <2>1, <2>2, SameUpTo
<1>6. g[n] = f[n] /\ f[n] \in Nat
  BY <1>1, <1>3, <1>5 DEF Agree
<1>7. n + 1 \in 1 .. Len(b) /\ (n + 1) - 1 = n
  BY <1>1
<1>8. g[n + 1] = IF b[n + 1] \in Separators THEN 0
                 ELSE IF b[n + 1] \in Digits THEN g[(n + 1) - 1] + 1 ELSE g[(n + 1) - 1]
  BY <1>4, <1>7 DEF Trails
<1>9. Decimals(b) = IF x \in Separators \/ none THEN 0
                    ELSE IF x \in Digits THEN Decimals(text) + 1 ELSE Decimals(text)
  BY <1>1, <1>3, <1>4, <1>6, <1>7, <1>8
<1>10. Decimals(text) \in Nat /\ (none => Decimals(text) = 0)
  BY <1>3, <1>6
<1> QED  BY <1>9, <1>10 DEF b, none

\* Powers of ten: 1, and ten times the one before.
LEMMA TenGrows ==
    ASSUME NEW k \in Nat
    PROVE  /\ TenTo(k) \in Nat /\ TenTo(k) >= 1
           /\ TenTo(0) = 1
           /\ TenTo(k + 1) = 10 * TenTo(k)
<1>1. PICK f \in [0 .. k -> Nat] : Powers(f, k) /\ TenTo(k) = f[k]
  BY TenRuns
<1>2. PICK g \in [0 .. k + 1 -> Nat] : Powers(g, k + 1) /\ TenTo(k + 1) = g[k + 1]
  <2>1. k + 1 \in Nat
    OBVIOUS
  <2> QED  BY <2>1, TenRuns
<1>3. Agree(k, f, g)
  <2>1. f[0] = g[0]
    BY <1>1, <1>2 DEF Powers
  <2>2. ASSUME NEW i \in 1 .. k, f[i - 1] = g[i - 1] PROVE f[i] = g[i]
    BY <1>1, <1>2, <2>2 DEF Powers
  <2> QED  BY <2>1, <2>2, SameUpTo
<1>4. TenTo(k + 1) = 10 * TenTo(k)
  <2>1. k + 1 \in 1 .. k + 1 /\ (k + 1) - 1 = k
    OBVIOUS
  <2>2. g[k + 1] = 10 * g[(k + 1) - 1]
    BY <1>2, <2>1 DEF Powers
  <2> QED  BY <1>1, <1>2, <1>3, <2>1, <2>2 DEF Agree
<1>5. PICK h \in [0 .. 0 -> Nat] : Powers(h, 0) /\ TenTo(0) = h[0]
  BY TenRuns
<1>6. TenTo(k) \in Nat /\ TenTo(k) >= 1
  <2> DEFINE S == {i \in 0 .. k : f[i] >= 1}
  <2>1. 0 \in S
    BY <1>1 DEF Powers
  <2>2. ASSUME NEW i \in 1 .. k, i - 1 \in S PROVE i \in S
    <3>1. f[i] = 10 * f[i - 1] /\ f[i - 1] \in Nat /\ f[i - 1] >= 1
      BY <1>1, <2>2 DEF Powers
    <3> QED  BY <3>1
  <2>3. \A i \in 0 .. k : i \in S
    <3> HIDE DEF S
    <3> QED  BY <2>1, <2>2, UpToAll
  <2> QED  BY <1>1, <2>3
<1> QED  BY <1>4, <1>5, <1>6 DEF Powers

\* The powers of ten are multiplied by adding the exponents.
LEMMA TenAdds ==
    ASSUME NEW j \in Nat, NEW k \in Nat
    PROVE  TenTo(j + k) = TenTo(j) * TenTo(k)
<1> DEFINE S == {i \in 0 .. k : TenTo(j + i) = TenTo(j) * TenTo(i)}
<1>1. 0 \in S
  <2>1. TenTo(0) = 1 /\ TenTo(j) \in Nat /\ j + 0 = j
    BY TenGrows
  <2> QED  BY <2>1
<1>2. ASSUME NEW i \in 1 .. k, i - 1 \in S PROVE i \in S
  <2> DEFINE m == i - 1
  <2>1. m \in Nat /\ j + m \in Nat /\ i = m + 1 /\ j + i = (j + m) + 1
    OBVIOUS
  <2>2. TenTo(j + m) = TenTo(j) * TenTo(m)
    BY <1>2
  <2> HIDE DEF m
  <2>3. /\ TenTo(i) = 10 * TenTo(m) /\ TenTo(m) \in Nat /\ TenTo(j) \in Nat
        /\ TenTo(j + i) = 10 * TenTo(j + m)
    BY <2>1, TenGrows
  <2>4. 10 * (TenTo(j) * TenTo(m)) = TenTo(j) * (10 * TenTo(m))
    BY <2>3
  <2> QED  BY <2>2, <2>3, <2>4
<1>3. \A i \in 0 .. k : i \in S
  <2> HIDE DEF S
  <2> QED  BY <1>1, <1>2, UpToAll
<1> QED  BY <1>3

\* Digits are taken from the end, one after another.
LEMMA RestShrinks ==
    ASSUME NEW n \in Nat, NEW k \in Nat
    PROVE  /\ Rest(n, k) \in Nat
           /\ Rest(n, 0) = n
           /\ Rest(n, k + 1) = Rest(n, k) \div 10
<1>1. PICK f \in [0 .. k -> Nat] : Shortens(f, n, k) /\ Rest(n, k) = f[k]
  BY RestRuns
<1>2. PICK g \in [0 .. k + 1 -> Nat] : Shortens(g, n, k + 1) /\ Rest(n, k + 1) = g[k + 1]
  <2>1. k + 1 \in Nat
    OBVIOUS
  <2> QED  BY <2>1, RestRuns
<1>3. Agree(k, f, g)
  <2>1. f[0] = g[0]
    BY <1>1, <1>2 DEF Shortens
  <2>2. ASSUME NEW i \in 1 .. k, f[i - 1] = g[i - 1] PROVE f[i] = g[i]
    BY <1>1, <1>2, <2>2 DEF Shortens
  <2> QED  BY <2>1, <2>2, SameUpTo
<1>4. Rest(n, k + 1) = Rest(n, k) \div 10
  <2>1. k + 1 \in 1 .. k + 1 /\ (k + 1) - 1 = k
    OBVIOUS
  <2>2. g[k + 1] = g[(k + 1) - 1] \div 10
    BY <1>2, <2>1 DEF Shortens
  <2> QED  BY <1>1, <1>2, <1>3, <2>1, <2>2 DEF Agree
<1>5. PICK h \in [0 .. 0 -> Nat] : Shortens(h, n, 0) /\ Rest(n, 0) = h[0]
  BY RestRuns
<1> QED  BY <1>1, <1>4, <1>5 DEF Shortens

\* They are the same whichever is taken first.
LEMMA RestOfTenth ==
    ASSUME NEW n \in Nat, NEW k \in Nat
    PROVE  Rest(n, k + 1) = Rest(n \div 10, k)
<1> DEFINE S == {i \in 0 .. k : Rest(n, i + 1) = Rest(n \div 10, i)}
<1>0. n \div 10 \in Nat
  OBVIOUS
<1>1. 0 \in S
  <2>1. Rest(n, 0 + 1) = Rest(n, 0) \div 10 /\ Rest(n, 0) = n /\ Rest(n \div 10, 0) = n \div 10
    BY <1>0, RestShrinks
  <2> QED  BY <2>1
<1>2. ASSUME NEW i \in 1 .. k, i - 1 \in S PROVE i \in S
  <2> DEFINE m == i - 1
  <2>1. m \in Nat /\ m + 1 \in Nat /\ i = m + 1 /\ i + 1 = (m + 1) + 1
    OBVIOUS
  <2>2. Rest(n, m + 1) = Rest(n \div 10, m)
    BY <1>2
  <2> HIDE DEF m
  <2>3. /\ Rest(n, i + 1) = Rest(n, m + 1) \div 10
        /\ Rest(n \div 10, i) = Rest(n \div 10, m) \div 10
    BY <1>0, <2>1, RestShrinks
  <2> QED  BY <2>2, <2>3
<1>3. \A i \in 0 .. k : i \in S
  <2> HIDE DEF S
  <2> QED  BY <1>1, <1>2, UpToAll
<1> QED  BY <1>3

----------------------------------------------------------------------------
\* Parts of texts, and what a part has in common with the whole.

\* The characters at the places of a text are those of a part of it, in the
\* same order: at says where they are there.
Embeds(at, text, places, part) ==
    /\ \A i \in 1 .. Len(text) : at[i] \in Nat
    /\ \A i \in 1 .. Len(text) : i \in places => at[i] \in 1 .. Len(part) /\ part[at[i]] = text[i]
    /\ \A i, j \in 1 .. Len(text) : i <= j => at[i] <= at[j]
    /\ \A i, j \in 1 .. Len(text) : i < j /\ j \in places => at[i] < at[j]
    /\ \A k \in 1 .. Len(part) : \E i \in 1 .. Len(text) : i \in places /\ at[i] = k

\* What Picked keeps of a text, and where.
LEMMA PickedEmbeds ==
    ASSUME NEW V, NEW text \in Seq(V), NEW places
    PROVE  /\ Picked(text, places) \in Seq(V)
           /\ \E at : Embeds(at, text, places, Picked(text, places))
<1> DEFINE n == Len(text)
<1>1. PICK f \in [0 .. n -> Seq(V)] :
         Picks(f, text, places) /\ Picked(text, places) = f[n]
  BY PickedRuns
<1>2. n \in Nat /\ \A k \in 1 .. n : text[k] \in V
  OBVIOUS
<1> HIDE DEF n
<1>3. ASSUME NEW k \in 1 .. n
      PROVE  /\ k - 1 \in 0 .. n /\ f[k - 1] \in Seq(V) /\ Len(f[k - 1]) \in Nat
             /\ f[k] \in Seq(V) /\ Len(f[k]) \in Nat
             /\ k \notin places => f[k] = f[k - 1]
             /\ k \in places => /\ Len(f[k]) = Len(f[k - 1]) + 1
                                /\ f[k][Len(f[k])] = text[k]
                                /\ \A i \in 1 .. Len(f[k - 1]) : f[k][i] = f[k - 1][i]
  <2>1. k - 1 \in 0 .. n /\ k \in 0 .. n
    BY <1>2
  <2>2. f[k - 1] \in Seq(V) /\ f[k] \in Seq(V) /\ text[k] \in V
    BY <1>1, <1>2, <2>1
  <2>3. f[k] = IF k \in places THEN Append(f[k - 1], text[k]) ELSE f[k - 1]
    BY <1>1 DEF Picks, n
  <2>4. CASE k \in places
    <3>1. f[k] = Append(f[k - 1], text[k])
      BY <2>3, <2>4
    <3>2. /\ Len(f[k - 1]) \in Nat
          /\ Len(f[k]) = Len(f[k - 1]) + 1
          /\ f[k][Len(f[k - 1]) + 1] = text[k]
          /\ \A i \in 1 .. Len(f[k - 1]) : f[k][i] = f[k - 1][i]
      BY <2>2, <3>1, GrowsByOne
    <3> QED  BY <2>1, <2>2, <2>4, <3>2
  <2>5. CASE k \notin places
    BY <2>1, <2>2, <2>3, <2>5
  <2> QED  BY <2>4, <2>5
<1> DEFINE at == [i \in 1 .. n |-> Len(f[i])]
           Below(m) == \A i \in 1 .. m : Len(f[i]) <= Len(f[m])
           Kept(m) == \A i \in 1 .. m : i \in places =>
                         Len(f[i]) \in 1 .. Len(f[m]) /\ f[m][Len(f[i])] = text[i]
           Whole(m) == \A k \in 1 .. Len(f[m]) : \E i \in 1 .. m : i \in places /\ Len(f[i]) = k
           S == {m \in 0 .. n : Below(m) /\ Kept(m) /\ Whole(m)}
<1>4. 0 \in S
  <2>1. f[0] = <<>> /\ Len(f[0]) = 0
    BY <1>1 DEF Picks
  <2> QED  BY <1>2, <2>1
<1>5. ASSUME NEW m \in 1 .. n, m - 1 \in S PROVE m \in S
  <2> DEFINE l == m - 1
             a == f[l]
             b == f[m]
  <2>1. Below(l) /\ Kept(l) /\ Whole(l) /\ m \in 0 .. n
    BY <1>5
  <2>2. /\ a \in Seq(V) /\ Len(a) \in Nat /\ Len(b) \in Nat
        /\ m \notin places => b = a
        /\ m \in places => /\ Len(b) = Len(a) + 1
                           /\ b[Len(b)] = text[m]
                           /\ \A i \in 1 .. Len(a) : b[i] = a[i]
    BY <1>3
  <2>3. Below(l) <=> \A i \in 1 .. l : Len(f[i]) <= Len(a)
    OBVIOUS
  <2>4. \A i \in 1 .. m : i \in 1 .. l \/ i = m
    BY <1>2
  <2>5. \A i \in 1 .. l : i \in 1 .. n /\ i \in 1 .. m /\ Len(f[i]) \in Nat
    BY <1>2, <1>3
  <2> HIDE DEF a, b, l
  <2>6. Below(m)
    <3>1. ASSUME NEW i \in 1 .. m PROVE Len(f[i]) <= Len(b)
      <4>1. CASE i = m
        BY <2>2, <4>1 DEF b
      <4>2. CASE i \in 1 .. l
        <5>1. Len(f[i]) <= Len(a) /\ Len(f[i]) \in Nat
          BY <2>1, <2>3, <2>5, <4>2
        <5> QED  BY <2>2, <5>1
      <4> QED  BY <2>4, <4>1, <4>2
    <3> QED  BY <3>1 DEF b
  <2>7. Kept(m)
    <3>1. ASSUME NEW i \in 1 .. m, i \in places
          PROVE  Len(f[i]) \in 1 .. Len(b) /\ b[Len(f[i])] = text[i]
      <4>1. CASE i = m
        <5>1. Len(f[i]) = Len(b)
          BY <4>1 DEF b
        <5> QED  BY <2>2, <3>1, <4>1, <5>1
      <4>2. CASE i \in 1 .. l
        <5>1. Len(f[i]) \in 1 .. Len(a) /\ a[Len(f[i])] = text[i]
          BY <2>1, <3>1, <4>2 DEF a
        <5> QED  BY <2>2, <5>1
      <4> QED  BY <2>4, <4>1, <4>2
    <3> QED  BY <3>1 DEF b
  <2>8. Whole(m)
    <3>1. ASSUME NEW k \in 1 .. Len(b) PROVE \E i \in 1 .. m : i \in places /\ Len(f[i]) = k
      <4>1. CASE k \in 1 .. Len(a)
        <5>1. PICK i \in 1 .. l : i \in places /\ Len(f[i]) = k
          BY <2>1, <4>1 DEF a
        <5> QED  BY <2>5, <5>1
      <4>2. CASE k \notin 1 .. Len(a)
        <5>1. m \in places /\ k = Len(b)
          BY <2>2, <4>2
        <5>2. m \in 1 .. m
          OBVIOUS
        <5> QED  BY <5>1, <5>2 DEF b
      <4> QED  BY <4>1, <4>2
    <3> QED  BY <3>1 DEF b
  <2> QED  BY <2>1, <2>6, <2>7, <2>8
<1>6. \A m \in 0 .. n : m \in S
  <2> HIDE DEF S
  <2> QED  BY <1>2, <1>4, <1>5, UpToAll
<1>7. \A m \in 1 .. n : Below(m)
  BY <1>6
<1>8. Kept(n) /\ Whole(n)
  <2>1. n \in S
    <3>1. n \in 0 .. n
      BY <1>2
    <3> HIDE DEF S
    <3> QED  BY <1>6, <3>1
  <2> QED  BY <2>1
<1> DEFINE part == Picked(text, places)
<1>9. part = f[n] /\ part \in Seq(V)
  BY <1>1, <1>2
<1> HIDE DEF part, S
<1>10. \A i \in 1 .. n : at[i] = Len(f[i]) /\ at[i] \in Nat
  BY <1>3
<1>11. ASSUME NEW i \in 1 .. n, NEW j \in 1 .. n, i <= j PROVE at[i] <= at[j]
  <2>1. i \in 1 .. j
    BY <1>11
  <2>2. Len(f[i]) <= Len(f[j])
    BY <1>7, <2>1
  <2> QED  BY <1>10, <2>2
<1>12. ASSUME NEW i \in 1 .. n, NEW j \in 1 .. n, i < j, j \in places PROVE at[i] < at[j]
  <2>1. j - 1 \in 1 .. n /\ i \in 1 .. j - 1
    BY <1>2, <1>12
  <2>2. Len(f[i]) <= Len(f[j - 1])
    BY <1>7, <2>1
  <2>3. Len(f[j]) = Len(f[j - 1]) + 1 /\ Len(f[j - 1]) \in Nat
    BY <1>3, <1>12
  <2> QED  BY <1>10, <2>2, <2>3
<1>13. \A i \in 1 .. n : i \in places => at[i] \in 1 .. Len(part) /\ part[at[i]] = text[i]
  BY <1>8, <1>9, <1>10
<1>14. \A k \in 1 .. Len(part) : \E i \in 1 .. n : i \in places /\ at[i] = k
  BY <1>8, <1>9, <1>10
<1> HIDE DEF at
<1>15. Embeds(at, text, places, part)
  BY <1>10, <1>11, <1>12, <1>13, <1>14 DEF Embeds, n
<1> QED  BY <1>9, <1>15 DEF part

\* Keeping everything changes nothing.
LEMMA PickedWhole ==
    ASSUME NEW V, NEW text \in Seq(V), NEW places, \A i \in 1 .. Len(text) : i \in places
    PROVE  Picked(text, places) = text
<1> DEFINE n == Len(text)
           part == Picked(text, places)
<1>1. n \in Nat
  OBVIOUS
<1>2. part \in Seq(V) /\ Len(part) \in Nat
  BY PickedEmbeds
<1>3. PICK at : Embeds(at, text, places, part)
  BY PickedEmbeds
<1> HIDE DEF part, n
<1>4. /\ \A i \in 1 .. n : at[i] \in 1 .. Len(part) /\ part[at[i]] = text[i]
      /\ \A i, j \in 1 .. n : i < j => at[i] < at[j]
      /\ \A k \in 1 .. Len(part) : \E i \in 1 .. n : at[i] = k
  BY <1>3 DEF Embeds, n
<1> DEFINE S == {m \in 0 .. n : \A i \in 1 .. m : at[i] = i}
<1>5. 0 \in S
  BY <1>1
<1>6. ASSUME NEW m \in 1 .. n, m - 1 \in S PROVE m \in S
  <2>1. \A i \in 1 .. m - 1 : at[i] = i
    BY <1>6
  <2>2. at[m] \in 1 .. Len(part) /\ at[m] >= m
    <3>1. at[m] \in 1 .. Len(part)
      BY <1>4
    <3>2. CASE m = 1
      BY <3>1, <3>2
    <3>3. CASE m # 1
      <4>1. m - 1 \in 1 .. n /\ m - 1 \in 1 .. m - 1 /\ m - 1 < m
        BY <1>1, <3>3
      <4>2. at[m - 1] < at[m] /\ at[m - 1] = m - 1
        BY <1>4, <2>1, <4>1
      <4> QED  BY <3>1, <4>2
    <3> QED  BY <3>2, <3>3
  <2>3. ASSUME at[m] > m PROVE FALSE
    <3>1. m \in 1 .. Len(part)
      BY <1>2, <2>2, <2>3
    <3>2. PICK i \in 1 .. n : at[i] = m
      BY <1>4, <3>1
    <3>3. CASE i < m
      <4>1. i \in 1 .. m - 1
        BY <3>3
      <4> QED  BY <2>1, <3>2, <4>1
    <3>4. CASE i = m
      BY <2>3, <3>2, <3>4
    <3>5. CASE i > m
      <4>1. at[m] < at[i]
        BY <1>4, <3>5
      <4> QED  BY <2>2, <2>3, <3>2, <4>1
    <3> QED  BY <3>3, <3>4, <3>5
  <2>4. at[m] = m
    BY <1>2, <2>2, <2>3
  <2>5. \A i \in 1 .. m : i \in 1 .. m - 1 \/ i = m
    OBVIOUS
  <2> QED  BY <2>1, <2>4, <2>5
<1>7. \A m \in 0 .. n : m \in S
  <2> HIDE DEF S
  <2> QED  BY <1>1, <1>5, <1>6, UpToAll
<1>8. \A i \in 1 .. n : at[i] = i
  BY <1>1, <1>7
<1>9. Len(part) = n
  <2>1. Len(part) >= n
    BY <1>1, <1>2, <1>4, <1>8
  <2>2. Len(part) <= n
    <3>1. ASSUME Len(part) >= 1 PROVE Len(part) \in 1 .. n
      <4>1. Len(part) \in 1 .. Len(part)
        BY <1>2, <3>1
      <4>2. PICK i \in 1 .. n : at[i] = Len(part)
        BY <1>4, <4>1
      <4> QED  BY <1>8, <4>2
    <3> QED  BY <1>1, <1>2, <3>1
  <2> QED  BY <1>1, <1>2, <2>1, <2>2
<1>10. \A i \in 1 .. n : part[i] = text[i]
  BY <1>4, <1>8
<1> QED  BY <1>2, <1>9, <1>10, SeqEqual DEF part, n

\* Of places in a text one is the last.
LEMMA LastPlace ==
    ASSUME NEW n \in Nat, NEW C \in SUBSET (1 .. n), C # {}
    PROVE  \E l \in C : \A i \in C : i <= l
<1> DEFINE S == {n - i : i \in C}
<1>1. PICK m \in S : \A k \in S : m <= k
  <2>1. S \in SUBSET Nat /\ S # {}
    <3>1. \A i \in C : n - i \in Nat
      OBVIOUS
    <3> QED  BY <3>1
  <2> HIDE DEF S
  <2> QED  BY <2>1, LeastNatural
<1>2. PICK l \in C : m = n - l
  BY <1>1
<1>3. ASSUME NEW i \in C PROVE i <= l
  <2>1. n - i \in S
    OBVIOUS
  <2>2. n - l <= n - i
    BY <1>1, <1>2, <2>1
  <2> QED  BY <2>2
<1> QED  BY <1>3

\* The second text says the same amount as the first: the same digits, with
\* as many behind the last separator, and no sign got out from among them.
SameAmount(t, u) ==
    /\ t \in Seq(Characters) /\ u \in Seq(Characters)
    /\ Number(u) = Number(t)
    /\ Decimals(u) = Decimals(t)
    /\ SignInside(t) => SignInside(u)

\* Stages of parsing one after another.
LEMMA SameAmountTransitive ==
    ASSUME NEW t, NEW u, NEW v, SameAmount(t, u), SameAmount(u, v)
    PROVE  SameAmount(t, v)
BY DEF SameAmount

\* What may be dropped: anything but digits, signs among them, and the last
\* separator.
Dispensable(text, places) ==
    /\ Places(Digits, text) \subseteq places
    /\ \A i, k \in Places(Digits, text) : \A j \in i .. k : text[j] \in Signs => j \in places
    /\ \A i \in Places(Separators, text) :
          i \in places \/ \E l \in Places(Separators, text) : i < l

\* Whoever keeps the digits keeps the number.
LEMMA NumberKept ==
    ASSUME NEW text \in Seq(Characters), NEW places, Places(Digits, text) \subseteq places
    PROVE  Number(Picked(text, places)) = Number(text)
<1> DEFINE n == Len(text)
<1>1. PICK f \in [0 .. n -> Seq(Characters)] :
         Picks(f, text, places) /\ Picked(text, places) = f[n]
  BY PickedRuns
<1>2. PICK g \in [0 .. n -> Nat] : Counts(g, text) /\ Number(text) = g[n]
  BY NumberRuns
<1>3. n \in Nat /\ \A i \in 1 .. n : text[i] \in Characters
  OBVIOUS
<1>4. \A i \in 1 .. n : text[i] \in Digits => i \in places
  BY DEF Places
<1> HIDE DEF n
<1> DEFINE S == {m \in 0 .. n : Number(f[m]) = g[m]}
<1>5. 0 \in S
  <2>1. f[0] = <<>> /\ g[0] = 0 /\ <<>> \in Seq(Characters)
    BY <1>1, <1>2 DEF Picks, Counts
  <2>2. "0" \in Characters
    BY FiguresHaveValues DEF Characters, Digits, Figures
  <2>3. Number(f[0]) = 0
    BY <2>1, <2>2, NumberAdded
  <2> QED  BY <1>3, <2>1, <2>3
<1>6. ASSUME NEW m \in 1 .. n, m - 1 \in S PROVE m \in S
  <2>1. /\ m - 1 \in 0 .. n /\ m \in 0 .. n
        /\ f[m - 1] \in Seq(Characters) /\ Number(f[m - 1]) = g[m - 1]
    BY <1>1, <1>3, <1>6
  <2>2. f[m] = IF m \in places THEN Append(f[m - 1], text[m]) ELSE f[m - 1]
    BY <1>1 DEF Picks, n
  <2>3. g[m] = IF text[m] \in Digits THEN 10 * g[m - 1] + ValueOf(text[m]) ELSE g[m - 1]
    BY <1>2 DEF Counts, n
  <2>4. text[m] \in Characters
    BY <1>3
  <2>5. CASE m \in places
    <3>1. f[m] = Append(f[m - 1], text[m])
      BY <2>2, <2>5
    <3>2. Number(f[m]) = IF text[m] \in Digits THEN 10 * Number(f[m - 1]) + ValueOf(text[m])
                         ELSE Number(f[m - 1])
      BY <2>1, <2>4, <3>1, NumberAdded
    <3> QED  BY <2>1, <2>3, <3>2
  <2>6. CASE m \notin places
    <3>1. f[m] = f[m - 1] /\ text[m] \notin Digits
      BY <1>4, <2>2, <2>6
    <3> QED  BY <2>1, <2>3, <3>1
  <2> QED  BY <2>5, <2>6
<1>7. \A m \in 0 .. n : m \in S
  <2> HIDE DEF S
  <2> QED  BY <1>3, <1>5, <1>6, UpToAll
<1>8. n \in S
  BY <1>3, <1>7
<1> QED  BY <1>1, <1>2, <1>8

\* Without separators there are no decimals.
LEMMA NoDecimals ==
    ASSUME NEW text \in Seq(Characters), Places(Separators, text) = {}
    PROVE  Decimals(text) = 0
<1>1. "comma" \in Characters
  BY DEF Characters, Separators
<1> QED  BY <1>1, DecimalsAdded

\* Whoever keeps them and the last separator keeps the decimals.
LEMMA DecimalsKept ==
    ASSUME NEW text \in Seq(Characters), NEW places, Dispensable(text, places)
    PROVE  Decimals(Picked(text, places)) = Decimals(text)
<1> DEFINE n == Len(text)
           part == Picked(text, places)
<1>1. PICK f \in [0 .. n -> Seq(Characters)] :
         Picks(f, text, places) /\ part = f[n]
  BY PickedRuns
<1>2. PICK g \in [0 .. n -> Nat] :
         Trails(g, text) /\ Decimals(text) = IF Places(Separators, text) = {} THEN 0 ELSE g[n]
  BY DecimalsRuns
<1>3. n \in Nat /\ \A i \in 1 .. n : text[i] \in Characters
  OBVIOUS
<1>4. \A i \in 1 .. n : text[i] \in Digits => i \in places
  BY DEF Dispensable, Places
<1>5. Places(Separators, text) \in SUBSET (1 .. n)
  BY DEF Places
<1>6. CASE Places(Separators, text) = {}
  <2>1. PICK at : Embeds(at, text, places, part)
    BY PickedEmbeds
  <2>2. part \in Seq(Characters)
    BY PickedEmbeds
  <2>3. ASSUME NEW k \in 1 .. Len(part) PROVE part[k] \notin Separators
    <3>1. PICK i \in 1 .. n : i \in places /\ at[i] = k
      BY <2>1 DEF Embeds
    <3>2. part[k] = text[i]
      BY <2>1, <3>1 DEF Embeds
    <3> QED  BY <1>6, <3>2 DEF Places
  <2>4. Places(Separators, part) = {}
    BY <2>2, <2>3 DEF Places
  <2> QED  BY <1>6, <2>2, <2>4, NoDecimals
<1>7. CASE Places(Separators, text) # {}
  <2>1. PICK l \in Places(Separators, text) : \A i \in Places(Separators, text) : i <= l
    <3> HIDE DEF n
    <3> QED  BY <1>3, <1>5, <1>7, LastPlace
  <2>2. l \in 1 .. n /\ text[l] \in Separators
    BY <1>5, <2>1 DEF Places
  <2>3. l \in places
    <3>1. l \in places \/ \E i \in Places(Separators, text) : l < i
      BY DEF Dispensable
    <3> QED  BY <1>5, <2>1, <3>1
  <2>4. \A i \in l + 1 .. n : i \in 1 .. n /\ text[i] \notin Separators
    BY <2>1, <2>2 DEF Places
  <2> HIDE DEF n, part
  <2> DEFINE S == {m \in 0 .. n : m >= l => /\ Places(Separators, f[m]) # {}
                                             /\ Decimals(f[m]) = g[m]}
  <2>5. 0 \in S
    BY <1>3, <2>2
  <2>6. ASSUME NEW m \in 1 .. n, m - 1 \in S PROVE m \in S
    <3>1. m \in 0 .. n /\ m - 1 \in 0 .. n /\ f[m - 1] \in Seq(Characters) /\ text[m] \in Characters
      BY <1>1, <1>3
    <3>2. f[m] = IF m \in places THEN Append(f[m - 1], text[m]) ELSE f[m - 1]
      BY <1>1 DEF Picks, n
    <3>3. g[m] = IF text[m] \in Separators THEN 0
                 ELSE IF text[m] \in Digits THEN g[m - 1] + 1 ELSE g[m - 1]
      BY <1>2 DEF Trails, n
    <3> DEFINE a == f[m - 1]
               c == text[m]
               more == Append(a, c)
    <3>4. /\ Places(Separators, more) = Places(Separators, a)
                 \cup IF c \in Separators THEN {Len(a) + 1} ELSE {}
          /\ Decimals(more) = IF c \in Separators \/ Places(Separators, a) = {} THEN 0
                              ELSE IF c \in Digits THEN Decimals(a) + 1 ELSE Decimals(a)
      BY <3>1, PlacesAdded, DecimalsAdded
    <3> HIDE DEF a, c, more
    <3>5. CASE m < l
      BY <2>2, <3>1, <3>5
    <3>6. CASE m = l
      <4>1. c \in Separators /\ f[m] = more
        BY <2>2, <2>3, <3>2, <3>6 DEF a, c, more
      <4>2. Places(Separators, more) # {} /\ Decimals(more) = 0
        BY <3>4, <4>1
      <4>3. g[m] = 0
        BY <3>3, <4>1 DEF c
      <4> QED  BY <3>1, <4>1, <4>2, <4>3
    <3>7. CASE m > l
      <4>1. Places(Separators, a) # {} /\ Decimals(a) = g[m - 1]
        <5>1. m - 1 >= l
          BY <2>2, <3>7
        <5> QED  BY <2>6, <5>1 DEF a
      <4>2. c \notin Separators
        BY <2>2, <2>4, <3>7 DEF c
      <4>3. CASE m \in places
        <5>1. f[m] = more
          BY <3>2, <4>3 DEF a, c, more
        <5>2. Places(Separators, more) # {}
          BY <3>4, <4>1
        <5>3. Decimals(more) = IF c \in Digits THEN g[m - 1] + 1 ELSE g[m - 1]
          BY <3>4, <4>1, <4>2
        <5>4. g[m] = IF c \in Digits THEN g[m - 1] + 1 ELSE g[m - 1]
          BY <3>3, <4>2 DEF c
        <5> QED  BY <3>1, <5>1, <5>2, <5>3, <5>4
      <4>4. CASE m \notin places
        <5>1. f[m] = a /\ c \notin Digits
          BY <1>4, <3>2, <4>4 DEF a, c
        <5>2. g[m] = g[m - 1]
          BY <3>3, <4>2, <5>1 DEF c
        <5> QED  BY <3>1, <4>1, <5>1, <5>2
      <4> QED  BY <4>3, <4>4
    <3> QED  BY <2>2, <3>5, <3>6, <3>7
  <2>7. \A m \in 0 .. n : m \in S
    <3> HIDE DEF S
    <3> QED  BY <1>3, <2>5, <2>6, UpToAll
  <2>8. n \in S /\ n >= l
    BY <1>3, <2>2, <2>7
  <2>9. Decimals(f[n]) = g[n]
    BY <2>8
  <2> QED  BY <1>1, <1>2, <1>7, <2>9 DEF part
<1> QED  BY <1>6, <1>7

\* A part without what is dispensable says the same amount.
LEMMA PickedSame ==
    ASSUME NEW text \in Seq(Characters), NEW places, Dispensable(text, places)
    PROVE  SameAmount(text, Picked(text, places))
<1> DEFINE n == Len(text)
           part == Picked(text, places)
<1>1. part \in Seq(Characters)
  BY PickedEmbeds
<1>2. Number(part) = Number(text) /\ Decimals(part) = Decimals(text)
  BY NumberKept, DecimalsKept DEF Dispensable
<1>3. ASSUME SignInside(text) PROVE SignInside(part)
  <2>1. PICK i \in Places(Digits, text), k \in Places(Digits, text) :
           \E j \in i .. k : text[j] \in Signs
    BY <1>3 DEF SignInside
  <2>2. PICK j \in i .. k : text[j] \in Signs
    BY <2>1
  <2>3. i \in places /\ j \in places /\ k \in places
    BY <2>2 DEF Dispensable
  <2>4. i \in 1 .. n /\ k \in 1 .. n /\ text[i] \in Digits /\ text[k] \in Digits
    BY DEF Places
  <2>5. j \in 1 .. n /\ i <= j /\ j <= k
    BY <2>2, <2>4
  <2>6. PICK at : Embeds(at, text, places, part)
    BY PickedEmbeds
  <2> HIDE DEF part, n
  <2>7. /\ at[i] \in 1 .. Len(part) /\ part[at[i]] = text[i]
        /\ at[j] \in 1 .. Len(part) /\ part[at[j]] = text[j]
        /\ at[k] \in 1 .. Len(part) /\ part[at[k]] = text[k]
        /\ at[i] <= at[j] /\ at[j] <= at[k]
    BY <2>3, <2>4, <2>5, <2>6 DEF Embeds, n
  <2>8. at[j] \in at[i] .. at[k]
    BY <2>7
  <2>9. at[i] \in Places(Digits, part) /\ at[k] \in Places(Digits, part)
    BY <1>1, <2>4, <2>7 DEF Places
  <2>10. part[at[j]] \in Signs
    BY <2>2, <2>7
  <2> QED  BY <2>8, <2>9, <2>10 DEF SignInside
<1> QED  BY <1>1, <1>2, <1>3 DEF SameAmount

----------------------------------------------------------------------------
\* No stage of parsing changes the amount.

\* The kinds of characters.
LEMMA KindsApart ==
    /\ Digits = {"0", "1", "2", "3", "4", "5", "6", "7", "8", "9"}
    /\ Digits \cap (Separators \cup Signs \cup {"blank", "open", "close", "other"}) = {}
    /\ Separators \cap (Signs \cup {"blank", "open", "close", "other"}) = {}
    /\ Signs \cap {"blank", "open", "close", "other"} = {}
<1>1. Digits = {"0", "1", "2", "3", "4", "5", "6", "7", "8", "9"}
  <2>1. /\ Figures[1] = "0" /\ Figures[2] = "1" /\ Figures[3] = "2" /\ Figures[4] = "3"
        /\ Figures[5] = "4" /\ Figures[6] = "5" /\ Figures[7] = "6" /\ Figures[8] = "7"
        /\ Figures[9] = "8" /\ Figures[10] = "9"
    BY DEF Figures
  <2>2. \A m : m \in 1 .. 10 <=> m \in {1, 2, 3, 4, 5, 6, 7, 8, 9, 10}
    OBVIOUS
  <2> QED  BY <2>1, <2>2 DEF Digits
<1> QED  BY <1>1 DEF Separators, Signs

\* A separator for another and a sign for another change no amount.
LEMMA ReplacedSame ==
    ASSUME NEW text \in Seq(Characters), NEW c, NEW d,
           {c, d} \subseteq Separators \/ {c, d} \subseteq Signs
    PROVE  SameAmount(text, Replaced(c, d, text))
<1> DEFINE u == Replaced(c, d, text)
           n == Len(text)
<1>1. /\ u \in Seq(Characters) /\ Len(u) = n /\ n \in Nat
      /\ \A i \in 1 .. n : u[i] = IF text[i] = c THEN d ELSE text[i]
      /\ DOMAIN text = 1 .. n /\ DOMAIN u = 1 .. n
  <2>1. d \in Characters
    BY DEF Characters
  <2>2. \A i \in 1 .. n : (IF text[i] = c THEN d ELSE text[i]) \in Characters
    BY <2>1
  <2> QED  BY <2>2 DEF Replaced
<1> HIDE DEF u, n
<1>2. ASSUME NEW i \in 1 .. n
      PROVE  /\ text[i] \in Digits <=> u[i] \in Digits
             /\ text[i] \in Separators <=> u[i] \in Separators
             /\ text[i] \in Signs <=> u[i] \in Signs
             /\ text[i] \in Digits => u[i] = text[i]
  BY <1>1, KindsApart
<1>3. Number(u) = Number(text)
  <2>1. PICK f \in [0 .. n -> Nat] : Counts(f, text) /\ Number(text) = f[n]
    BY NumberRuns DEF n
  <2>2. PICK g \in [0 .. n -> Nat] : Counts(g, u) /\ Number(u) = g[n]
    BY <1>1, NumberRuns
  <2>3. f[0] = g[0]
    BY <2>1, <2>2 DEF Counts
  <2>4. ASSUME NEW k \in 1 .. n, f[k - 1] = g[k - 1] PROVE f[k] = g[k]
    <3>1. f[k] = IF text[k] \in Digits THEN 10 * f[k - 1] + ValueOf(text[k]) ELSE f[k - 1]
      BY <2>1 DEF Counts, n
    <3>2. g[k] = IF u[k] \in Digits THEN 10 * g[k - 1] + ValueOf(u[k]) ELSE g[k - 1]
      BY <1>1, <2>2 DEF Counts
    <3> QED  BY <1>2, <2>4, <3>1, <3>2
  <2>5. Agree(n, f, g)
    BY <1>1, <2>3, <2>4, SameUpTo
  <2> QED  BY <1>1, <2>1, <2>2, <2>5 DEF Agree
<1>4. Decimals(u) = Decimals(text)
  <2>1. PICK f \in [0 .. n -> Nat] :
           Trails(f, text) /\ Decimals(text) = IF Places(Separators, text) = {} THEN 0 ELSE f[n]
    BY DecimalsRuns DEF n
  <2>2. PICK g \in [0 .. n -> Nat] :
           Trails(g, u) /\ Decimals(u) = IF Places(Separators, u) = {} THEN 0 ELSE g[n]
    BY <1>1, DecimalsRuns
  <2>3. f[0] = g[0]
    BY <2>1, <2>2 DEF Trails
  <2>4. ASSUME NEW k \in 1 .. n, f[k - 1] = g[k - 1] PROVE f[k] = g[k]
    <3>1. f[k] = IF text[k] \in Separators THEN 0
                 ELSE IF text[k] \in Digits THEN f[k - 1] + 1 ELSE f[k - 1]
      BY <2>1 DEF Trails, n
    <3>2. g[k] = IF u[k] \in Separators THEN 0
                 ELSE IF u[k] \in Digits THEN g[k - 1] + 1 ELSE g[k - 1]
      BY <1>1, <2>2 DEF Trails
    <3>3. CASE text[k] \in Separators
      BY <1>2, <3>1, <3>2, <3>3
    <3>4. CASE text[k] \notin Separators
      BY <1>2, <2>4, <3>1, <3>2, <3>4
    <3> QED  BY <3>3, <3>4
  <2>5. Agree(n, f, g)
    BY <1>1, <2>3, <2>4, SameUpTo
  <2>6. Places(Separators, text) = Places(Separators, u)
    BY <1>1, <1>2 DEF Places
  <2> QED  BY <1>1, <2>1, <2>2, <2>5, <2>6 DEF Agree
<1>5. SignInside(text) => SignInside(u)
  <2>1. Places(Digits, text) = Places(Digits, u) /\ Places(Digits, text) \subseteq 1 .. n
    BY <1>1, <1>2 DEF Places
  <2>2. ASSUME NEW i \in Places(Digits, text), NEW k \in Places(Digits, text),
               NEW j \in i .. k, text[j] \in Signs
        PROVE  u[j] \in Signs
    <3>1. i \in 1 .. n /\ k \in 1 .. n
      BY <2>1
    <3>2. j \in 1 .. n
      BY <1>1, <3>1
    <3> QED  BY <1>2, <2>2, <3>2
  <2> QED  BY <2>1, <2>2 DEF SignInside
<1> QED  BY <1>1, <1>3, <1>4, <1>5 DEF SameAmount, u

\* strip() takes only blanks.
LEMMA StripSame == ASSUME NEW text \in Seq(Characters) PROVE SameAmount(text, Strip(text))
<1> DEFINE filled == DOMAIN text \ Places({"blank"}, text)
           places == {i \in DOMAIN text : \E j, k \in filled : j <= i /\ i <= k}
<1>1. DOMAIN text = 1 .. Len(text) /\ Len(text) \in Nat
  OBVIOUS
<1>2. ASSUME NEW i \in 1 .. Len(text), text[i] # "blank" PROVE i \in places
  <2>1. i \in filled /\ i <= i
    BY <1>1, <1>2 DEF Places
  <2> QED  BY <1>1, <2>1
<1>3. Strip(text) = Picked(text, places)
  BY DEF Strip
<1> HIDE DEF places
<1>4. Dispensable(text, places)
  <2>1. Places(Digits, text) \subseteq places /\ Places(Separators, text) \subseteq places
    BY <1>1, <1>2, KindsApart DEF Places
  <2>2. ASSUME NEW i \in Places(Digits, text), NEW k \in Places(Digits, text),
               NEW j \in i .. k, text[j] \in Signs
        PROVE  j \in places
    <3>1. j \in 1 .. Len(text)
      BY <1>1 DEF Places
    <3> QED  BY <1>2, <2>2, <3>1, KindsApart
  <2> QED  BY <2>1, <2>2 DEF Dispensable
<1> QED  BY <1>3, <1>4, PickedSame

\* Brackets around a text are no part of the number.
LEMMA UnbracketedSame ==
    ASSUME NEW text \in Seq(Characters) PROVE SameAmount(text, Unbracketed(text))
<1>1. DOMAIN text = 1 .. Len(text) /\ Len(text) \in Nat
  OBVIOUS
<1>2. CASE ~ Bracketed(text)
  BY <1>2 DEF Unbracketed, SameAmount
<1>3. CASE Bracketed(text)
  <2> DEFINE places == 2 .. Len(text) - 1
             inner == Picked(text, places)
  <2>1. ASSUME NEW i \in 1 .. Len(text), text[i] \notin {"open", "close"} PROVE i \in places
    BY <1>1, <1>3, <2>1 DEF Bracketed
  <2> HIDE DEF places
  <2>2. Dispensable(text, places)
    <3>1. Places(Digits, text) \subseteq places /\ Places(Separators, text) \subseteq places
      BY <1>1, <2>1, KindsApart DEF Places
    <3>2. ASSUME NEW i \in Places(Digits, text), NEW k \in Places(Digits, text),
                 NEW j \in i .. k, text[j] \in Signs
          PROVE  j \in places
      <4>1. j \in 1 .. Len(text)
        BY <1>1 DEF Places
      <4> QED  BY <2>1, <3>2, <4>1, KindsApart
    <3> QED  BY <3>1, <3>2 DEF Dispensable
  <2>3. SameAmount(text, inner)
    BY <2>2, PickedSame
  <2>4. SameAmount(inner, Strip(inner))
    BY <2>3, StripSame DEF SameAmount
  <2>5. Unbracketed(text) = Strip(inner)
    BY <1>3 DEF Unbracketed, places
  <2> HIDE DEF inner
  <2> QED  BY <2>3, <2>4, <2>5, SameAmountTransitive
<1> QED  BY <1>2, <1>3

\* Neither are the currency and the spaces of groups.
LEMMA CleanedSame == ASSUME NEW text \in Seq(Characters) PROVE SameAmount(text, Cleaned(text))
<1> DEFINE u == Replaced("dash", "minus", text)
           places == Places(Digits \cup Separators \cup Signs, text)
<1>1. SameAmount(text, u)
  <2>1. {"dash", "minus"} \subseteq Signs
    BY DEF Signs
  <2> QED  BY <2>1, ReplacedSame
<1>2. /\ DOMAIN text = 1 .. Len(text) /\ DOMAIN u = 1 .. Len(text) /\ Len(u) = Len(text)
      /\ Len(text) \in Nat /\ u \in Seq(Characters)
      /\ \A i \in 1 .. Len(text) : u[i] = IF text[i] = "dash" THEN "minus" ELSE text[i]
  BY <1>1 DEF Replaced, SameAmount
<1> HIDE DEF u
<1>3. ASSUME NEW i \in 1 .. Len(text), u[i] \in Digits \cup Separators \cup Signs PROVE i \in places
  <2>1. text[i] \in Digits \cup Separators \cup Signs
    BY <1>2, <1>3 DEF Signs
  <2> QED  BY <1>2, <2>1 DEF Places
<1>4. Cleaned(text) = Picked(u, places)
  BY DEF Cleaned, u
<1> HIDE DEF places
<1>5. Dispensable(u, places)
  <2>1. Places(Digits, u) \subseteq places /\ Places(Separators, u) \subseteq places
    BY <1>2, <1>3 DEF Places
  <2>2. ASSUME NEW i \in Places(Digits, u), NEW k \in Places(Digits, u),
               NEW j \in i .. k, u[j] \in Signs
        PROVE  j \in places
    <3>1. j \in 1 .. Len(text)
      BY <1>2 DEF Places
    <3> QED  BY <1>3, <2>2, <3>1
  <2> QED  BY <2>1, <2>2 DEF Dispensable
<1>6. SameAmount(u, Cleaned(text))
  BY <1>2, <1>4, <1>5, PickedSame
<1> QED  BY <1>1, <1>6, SameAmountTransitive

\* lstrip("+") takes only signs that nothing stands in front of.
LEMMA WithoutPlusSame ==
    ASSUME NEW text \in Seq(Characters) PROVE SameAmount(text, WithoutPlus(text))
<1> DEFINE places == {i \in DOMAIN text : \E j \in 1 .. i : text[j] # "plus"}
<1>1. DOMAIN text = 1 .. Len(text) /\ Len(text) \in Nat
  OBVIOUS
<1>2. ASSUME NEW i \in 1 .. Len(text), NEW j \in 1 .. i, text[j] # "plus" PROVE i \in places
  BY <1>1, <1>2
<1>3. WithoutPlus(text) = Picked(text, places)
  BY DEF WithoutPlus
<1> HIDE DEF places
<1>4. Dispensable(text, places)
  <2>1. ASSUME NEW i \in 1 .. Len(text), text[i] \in Digits \cup Separators PROVE i \in places
    <3>1. i \in 1 .. i /\ text[i] # "plus"
      BY <2>1, KindsApart DEF Signs
    <3> QED  BY <1>2, <3>1
  <2>2. Places(Digits, text) \subseteq places /\ Places(Separators, text) \subseteq places
    BY <1>1, <2>1 DEF Places
  <2>3. ASSUME NEW i \in Places(Digits, text), NEW k \in Places(Digits, text), NEW j \in i .. k
        PROVE  j \in places
    <3>1. j \in 1 .. Len(text) /\ i \in 1 .. j /\ text[i] # "plus"
      BY <1>1, KindsApart DEF Places, Signs
    <3> QED  BY <1>2, <3>1
  <2> QED  BY <2>2, <2>3 DEF Dispensable
<1> QED  BY <1>3, <1>4, PickedSame

\* A kind of separators of which none is the last can be dropped.
LEMMA WithoutSame ==
    ASSUME NEW text \in Seq(Characters), NEW c,
           NEW l \in Places(Separators, text), \A i \in Places({c}, text) : i < l,
           c \in Separators
    PROVE  SameAmount(text, Without(c, text))
<1> DEFINE places == DOMAIN text \ Places({c}, text)
<1>1. DOMAIN text = 1 .. Len(text) /\ Len(text) \in Nat
  OBVIOUS
<1>2. ASSUME NEW i \in 1 .. Len(text), text[i] # c PROVE i \in places
  BY <1>1, <1>2 DEF Places
<1>3. Without(c, text) = Picked(text, places)
  BY DEF Without
<1>4. ASSUME NEW i \in 1 .. Len(text), i \notin places PROVE i < l
  BY <1>1, <1>4
<1> HIDE DEF places
<1>5. Dispensable(text, places)
  <2>1. Places(Digits, text) \subseteq places
    BY <1>1, <1>2, KindsApart DEF Places
  <2>2. ASSUME NEW i \in Places(Digits, text), NEW k \in Places(Digits, text),
               NEW j \in i .. k, text[j] \in Signs
        PROVE  j \in places
    <3>1. j \in 1 .. Len(text)
      BY <1>1 DEF Places
    <3> QED  BY <1>2, <2>2, <3>1, KindsApart
  <2>3. \A i \in Places(Separators, text) : i \in places \/ i < l
    BY <1>1, <1>4 DEF Places
  <2> QED  BY <2>1, <2>2, <2>3 DEF Dispensable
<1> QED  BY <1>3, <1>5, PickedSame

\* Only separators in front of the last one are dropped.
LEMMA OnePointSame == ASSUME NEW text \in Seq(Characters) PROVE SameAmount(text, OnePoint(text))
<1> DEFINE commas == Places({"comma"}, text)
           points == Places({"point"}, text)
<1>0. DOMAIN text = 1 .. Len(text) /\ Len(text) \in Nat
  OBVIOUS
<1>1. commas \subseteq Places(Separators, text) /\ points \subseteq Places(Separators, text)
  BY DEF Places, Separators
<1>2. commas \in SUBSET (1 .. Len(text)) /\ points \in SUBSET (1 .. Len(text))
  BY <1>0 DEF Places
<1>3. \A i \in commas : i \notin points
  BY DEF Places
<1>4. {"comma", "point"} \subseteq Separators /\ "comma" \in Separators /\ "point" \in Separators
  BY DEF Separators
<1>5. OnePoint(text) =
        IF commas # {} /\ points # {}
        THEN IF \E i \in commas : \A j \in points : i > j
             THEN Replaced("comma", "point", Without("point", text))
             ELSE Without("comma", text)
        ELSE Replaced("comma", "point", text)
  BY DEF OnePoint
<1> HIDE DEF commas, points
<1>6. CASE ~ (commas # {} /\ points # {})
  <2>1. OnePoint(text) = Replaced("comma", "point", text)
    BY <1>5, <1>6
  <2> QED  BY <1>4, <2>1, ReplacedSame
<1>7. CASE commas # {} /\ points # {} /\ \E i \in commas : \A j \in points : i > j
  <2>1. PICK i \in commas : \A j \in points : j < i
    BY <1>2, <1>7
  <2>2. SameAmount(text, Without("point", text))
    BY <1>1, <1>4, <2>1, WithoutSame DEF points
  <2>3. OnePoint(text) = Replaced("comma", "point", Without("point", text))
    BY <1>5, <1>7
  <2>4. SameAmount(Without("point", text), OnePoint(text))
    BY <1>4, <2>2, <2>3, ReplacedSame DEF SameAmount
  <2> QED  BY <2>2, <2>4, SameAmountTransitive
<1>8. CASE commas # {} /\ points # {} /\ ~ \E i \in commas : \A j \in points : i > j
  <2>1. PICK l \in points : \A j \in points : j <= l
    BY <1>0, <1>2, <1>8, LastPlace
  <2>2. ASSUME NEW i \in commas PROVE i < l
    <3>1. PICK j \in points : ~ (i > j)
      BY <1>8
    <3>2. i # l /\ j <= l
      BY <1>3, <2>1
    <3> QED  BY <1>2, <3>1, <3>2
  <2>3. SameAmount(text, Without("comma", text))
    BY <1>1, <1>4, <2>2, WithoutSame DEF commas
  <2>4. OnePoint(text) = Without("comma", text)
    BY <1>5, <1>8
  <2> QED  BY <2>3, <2>4
<1> QED  BY <1>6, <1>7, <1>8

\* What parse_amount makes of a text before it reads it says the same amount.
LEMMA NormalSame == ASSUME NEW text \in Seq(Characters) PROVE SameAmount(text, Normal(text))
<1> DEFINE a == Strip(text)
           b == Unbracketed(a)
           c == Cleaned(b)
           d == WithoutPlus(c)
<1>1. SameAmount(text, a)
  BY StripSame
<1>2. SameAmount(a, b)
  BY <1>1, UnbracketedSame DEF SameAmount
<1>3. SameAmount(b, c)
  BY <1>2, CleanedSame DEF SameAmount
<1>4. SameAmount(c, d)
  BY <1>3, WithoutPlusSame DEF SameAmount
<1>5. SameAmount(d, OnePoint(d))
  BY <1>4, OnePointSame DEF SameAmount
<1>6. Normal(text) = OnePoint(d)
  BY DEF Normal
<1> HIDE DEF a, b, c, d
<1> QED  BY <1>1, <1>2, <1>3, <1>4, <1>5, <1>6, SameAmountTransitive

----------------------------------------------------------------------------
\* Numbers, their digits, and those the decimal context does not round.

\* A larger factor makes a larger product, and products tell factors apart.
LEMMA Products ==
    ASSUME NEW a \in Nat, NEW b \in Nat, NEW t \in Nat, t >= 1
    PROVE  /\ a * t \in Nat
           /\ a <= b => a * t <= b * t
           /\ a * t < (b + 1) * t => a <= b
           /\ a * t = b * t => a = b
<1>1. a * t \in Nat /\ b * t \in Nat /\ (b + 1) * t \in Nat /\ (b + 1) * t = b * t + t
  OBVIOUS
<1>2. ASSUME NEW c \in Nat, NEW d \in Nat, c <= d PROVE c * t <= d * t
  <2>1. d - c \in Nat /\ (d - c) * t \in Nat
    BY <1>2
  <2>2. d * t = c * t + (d - c) * t
    BY <2>1
  <2>3. c * t \in Nat /\ d * t \in Nat
    OBVIOUS
  <2> QED  BY <2>1, <2>2, <2>3
<1>3. ASSUME a * t < (b + 1) * t PROVE a <= b
  <2>1. b + 1 <= a => (b + 1) * t <= a * t
    BY <1>2
  <2> QED  BY <1>1, <1>3, <2>1
<1>4. ASSUME a * t = b * t PROVE a = b
  <2>1. a + 1 <= b => (a + 1) * t <= b * t
    BY <1>2
  <2>2. b + 1 <= a => (b + 1) * t <= a * t
    BY <1>2
  <2>3. (a + 1) * t = a * t + t
    OBVIOUS
  <2> QED  BY <1>1, <1>4, <2>1, <2>2, <2>3
<1> QED  BY <1>1, <1>2, <1>3, <1>4

\* Rest is the quotient by a power of ten.
LEMMA RestDivides ==
    ASSUME NEW n \in Nat, NEW k \in Nat
    PROVE  /\ Rest(n, k) \in Nat /\ TenTo(k) \in Nat /\ TenTo(k) >= 1
           /\ Rest(n, k) * TenTo(k) <= n
           /\ n < (Rest(n, k) + 1) * TenTo(k)
<1> DEFINE S == {i \in 0 .. k : /\ Rest(n, i) * TenTo(i) <= n
                                /\ n < (Rest(n, i) + 1) * TenTo(i)}
<1>1. 0 \in S
  <2>1. Rest(n, 0) = n /\ TenTo(0) = 1
    BY RestShrinks, TenGrows
  <2> QED  BY <2>1
<1>2. ASSUME NEW i \in 1 .. k, i - 1 \in S PROVE i \in S
  <2> DEFINE m == i - 1
             q == Rest(n, m)
             t == TenTo(m)
             r == Rest(n, i)
  <2>1. m \in Nat /\ i = m + 1 /\ q * t <= n /\ n < (q + 1) * t
    BY <1>2
  <2> HIDE DEF m
  <2>2. q \in Nat /\ t \in Nat /\ t >= 1 /\ r = q \div 10 /\ TenTo(i) = 10 * t
    BY <2>1, RestShrinks, TenGrows
  <2> HIDE DEF q, t, r
  <2>3. r \in Nat /\ 10 * r <= q /\ q + 1 <= 10 * (r + 1)
    BY <2>2
  <2>4. (10 * r) * t <= q * t /\ (q + 1) * t <= (10 * (r + 1)) * t
    <3>1. 10 * r \in Nat /\ q + 1 \in Nat /\ 10 * (r + 1) \in Nat
      BY <2>2, <2>3
    <3> QED  BY <2>2, <2>3, <3>1, Products
  <2>5. r * (10 * t) = (10 * r) * t /\ (r + 1) * (10 * t) = (10 * (r + 1)) * t
    BY <2>2, <2>3
  <2>6. q * t \in Nat /\ (q + 1) * t \in Nat /\ r * (10 * t) \in Nat /\ (r + 1) * (10 * t) \in Nat
    BY <2>2, <2>3
  <2>7. r * (10 * t) <= n /\ n < (r + 1) * (10 * t)
    BY <2>1, <2>4, <2>5, <2>6
  <2> QED  BY <2>2, <2>7 DEF r
<1>3. \A i \in 0 .. k : i \in S
  <2> HIDE DEF S
  <2> QED  BY <1>1, <1>2, UpToAll
<1> QED  BY <1>3, RestShrinks, TenGrows

\* Of a multiple the factor is left.
LEMMA RestOfMultiple ==
    ASSUME NEW m \in Nat, NEW k \in Nat
    PROVE  Rest(m * TenTo(k), k) = m
<1> DEFINE t == TenTo(k)
           n == m * t
           q == Rest(n, k)
<1>1. t \in Nat /\ t >= 1 /\ n \in Nat
  BY TenGrows, Products
<1>2. q \in Nat /\ q * t <= n /\ n < (q + 1) * t
  <2> HIDE DEF n
  <2> QED  BY <1>1, RestDivides
<1> HIDE DEF q, t
<1>3. m <= q
  BY <1>1, <1>2, Products
<1>4. q <= m
  <2>1. n < (m + 1) * t
    BY <1>1
  <2>2. q * t < (m + 1) * t
    <3>1. q * t \in Nat /\ (m + 1) * t \in Nat
      BY <1>1, <1>2
    <3> QED  BY <1>1, <1>2, <2>1, <3>1
  <2> QED  BY <1>1, <1>2, <2>2, Products
<1>5. q = m
  BY <1>2, <1>3, <1>4
<1> QED  BY <1>5 DEF q, t

\* Nothing is left of a number of as many digits or fewer, and only of such.
LEMMA RestIsNothing ==
    ASSUME NEW n \in Nat, NEW k \in Nat
    PROVE  Rest(n, k) = 0 <=> n < TenTo(k)
<1> DEFINE q == Rest(n, k)
           t == TenTo(k)
<1>1. q \in Nat /\ t \in Nat /\ t >= 1 /\ q * t <= n /\ n < (q + 1) * t
  BY RestDivides
<1> HIDE DEF q, t
<1>2. ASSUME q = 0 PROVE n < t
  <2>1. (0 + 1) * t = t
    BY <1>1
  <2> QED  BY <1>1, <1>2, <2>1
<1>3. ASSUME n < t PROVE q = 0
  <2>1. 1 <= q => 1 * t <= q * t
    BY <1>1, Products
  <2>2. 1 * t = t /\ q * t \in Nat
    BY <1>1
  <2> QED  BY <1>1, <1>3, <2>1, <2>2
<1> QED  BY <1>2, <1>3 DEF q, t

\* A number is less than its power of ten.
LEMMA TenExceeds == ASSUME NEW n \in Nat PROVE n < TenTo(n)
<1> DEFINE S == {i \in 0 .. n : i < TenTo(i)}
<1>1. 0 \in S
  BY TenGrows
<1>2. ASSUME NEW i \in 1 .. n, i - 1 \in S PROVE i \in S
  <2>1. i - 1 \in Nat /\ i = (i - 1) + 1
    OBVIOUS
  <2>2. TenTo(i) = 10 * TenTo(i - 1) /\ TenTo(i - 1) \in Nat /\ i - 1 < TenTo(i - 1)
    BY <1>2, <2>1, TenGrows
  <2> QED  BY <2>2
<1>3. \A i \in 0 .. n : i \in S
  <2> HIDE DEF S
  <2> QED  BY <1>1, <1>2, UpToAll
<1> QED  BY <1>3

\* How often n can be divided by ten until nothing is left.
IsLength(n, k) == k \in Nat /\ Rest(n, k) = 0 /\ \A j \in Nat : Rest(n, j) = 0 => k <= j

\* Each number has one length.
LEMMA LengthIsUnique ==
    ASSUME NEW n \in Nat
    PROVE  /\ \E k \in Nat : IsLength(n, k)
           /\ \A j, k \in Nat : IsLength(n, j) /\ IsLength(n, k) => j = k
<1> DEFINE S == {k \in Nat : Rest(n, k) = 0}
<1>1. n \in S
  BY TenExceeds, RestIsNothing
<1>2. PICK k \in S : \A j \in S : k <= j
  <2>1. S \in SUBSET Nat /\ S # {}
    BY <1>1
  <2> HIDE DEF S
  <2> QED  BY <2>1, LeastNatural
<1>3. IsLength(n, k)
  BY <1>2 DEF IsLength
<1>4. ASSUME NEW i \in Nat, NEW j \in Nat, IsLength(n, i), IsLength(n, j) PROVE i = j
  <2>1. i <= j /\ j <= i
    BY <1>4 DEF IsLength
  <2> QED  BY <2>1
<1> QED  BY <1>3, <1>4 DEF IsLength

\* The length of 0 is 0, and that of another number one more than a tenth's.
LEMMA LengthSteps ==
    ASSUME NEW n \in Nat
    PROVE  /\ IsLength(0, 0)
           /\ n # 0 => \A k \in Nat : IsLength(n \div 10, k) => IsLength(n, k + 1)
<1>1. IsLength(0, 0)
  BY RestShrinks DEF IsLength
<1>2. ASSUME n # 0, NEW k \in Nat, IsLength(n \div 10, k) PROVE IsLength(n, k + 1)
  <2>1. Rest(n, k + 1) = 0
    BY <1>2, RestOfTenth DEF IsLength
  <2>2. ASSUME NEW j \in Nat, Rest(n, j) = 0 PROVE k + 1 <= j
    <3>1. j # 0
      BY <1>2, <2>2, RestShrinks
    <3>2. j - 1 \in Nat /\ (j - 1) + 1 = j
      BY <3>1
    <3>3. Rest(n \div 10, j - 1) = 0
      <4>1. Rest(n, (j - 1) + 1) = Rest(n \div 10, j - 1)
        BY <3>2, RestOfTenth
      <4> QED  BY <2>2, <3>2, <4>1
    <3>4. k <= j - 1
      BY <1>2, <3>2, <3>3 DEF IsLength
    <3> QED  BY <3>2, <3>4
  <2> QED  BY <2>1, <2>2 DEF IsLength
<1> QED  BY <1>1, <1>2

\* Length is this length.
LEMMA LengthIs == ASSUME NEW n \in Nat PROVE IsLength(n, Length(n))
<1> DEFINE L(m) == CHOOSE k \in Nat : IsLength(m, k)
           h == [m \in 0 .. n |-> L(m)]
           Body(g) == [m \in 0 .. n |-> IF m = 0 THEN 0 ELSE g[m \div 10] + 1]
           length == CHOOSE g : g = Body(g)
<1>1. ASSUME NEW m \in Nat PROVE L(m) \in Nat /\ IsLength(m, L(m))
  BY LengthIsUnique
<1> HIDE DEF L
<1>2. ASSUME NEW m \in 0 .. n PROVE L(m) = IF m = 0 THEN 0 ELSE L(m \div 10) + 1
  <2>1. m \in Nat /\ m \div 10 \in Nat
    OBVIOUS
  <2>2. /\ IsLength(m, L(m)) /\ L(m) \in Nat
        /\ IsLength(m \div 10, L(m \div 10)) /\ L(m \div 10) \in Nat
    BY <1>1, <2>1
  <2>3. CASE m = 0
    <3>1. IsLength(m, 0)
      BY <2>3, LengthSteps
    <3> QED  BY <2>1, <2>2, <2>3, <3>1, LengthIsUnique
  <2>4. CASE m # 0
    <3>1. IsLength(m, L(m \div 10) + 1) /\ L(m \div 10) + 1 \in Nat
      BY <2>1, <2>2, <2>4, LengthSteps
    <3> QED  BY <2>1, <2>2, <2>4, <3>1, LengthIsUnique
  <2> QED  BY <2>3, <2>4
<1>3. h = Body(h)
  <2>1. ASSUME NEW m \in 0 .. n PROVE h[m] = IF m = 0 THEN 0 ELSE h[m \div 10] + 1
    <3>1. m \div 10 \in 0 .. n
      OBVIOUS
    <3> QED  BY <1>2, <3>1
  <2>2. h = [m \in 0 .. n |-> h[m]]
    OBVIOUS
  <2> HIDE DEF h
  <2> QED  BY <2>1, <2>2
<1>4. length = Body(length)
  <2> HIDE DEF h
  <2> QED  BY <1>3
<1>5. Length(n) = length[n]
  BY DEF Length
<1> HIDE DEF length
<1>6. \A m \in 0 .. n : length[m] = IF m = 0 THEN 0 ELSE length[m \div 10] + 1
  BY <1>4
<1> DEFINE S == {m \in 0 .. n : \A j \in 0 .. m : length[j] = L(j)}
<1>7. 0 \in S
  <2>1. length[0] = 0 /\ L(0) = 0
    BY <1>2, <1>6
  <2> QED  BY <2>1
<1>8. ASSUME NEW m \in 1 .. n, m - 1 \in S PROVE m \in S
  <2>1. m \in 0 .. n /\ m # 0 /\ m \div 10 \in 0 .. m - 1
    OBVIOUS
  <2>2. length[m \div 10] = L(m \div 10)
    BY <1>8, <2>1
  <2>3. length[m] = L(m)
    BY <1>2, <1>6, <2>1, <2>2
  <2>4. \A j \in 0 .. m : j \in 0 .. m - 1 \/ j = m
    OBVIOUS
  <2> QED  BY <1>8, <2>1, <2>3, <2>4
<1>9. \A m \in 0 .. n : m \in S
  <2> HIDE DEF S
  <2> QED  BY <1>7, <1>8, UpToAll
<1>10. length[n] = L(n)
  BY <1>9
<1> QED  BY <1>1, <1>5, <1>10

\* A number that fits into the context is not rounded.
LEMMA RoundedFits ==
    ASSUME NEW n \in Nat, n < TenTo(Precision)
    PROVE  Rounded(n) = n
<1>1. Precision \in Nat
  BY PrecisionIsPositive
<1>2. Rest(n, Precision) = 0
  BY <1>1, RestIsNothing
<1>3. Length(n) \in Nat /\ Length(n) <= Precision
  BY <1>1, <1>2, LengthIs DEF IsLength
<1>4. Length(n) - Precision <= 0
  BY <1>1, <1>3
<1> QED  BY <1>4 DEF Rounded

\* A number of no more significant digits than the context keeps.
Short(n) == \E c, k \in Nat : c < TenTo(Precision) /\ n = c * TenTo(k)

\* Short numbers are not rounded.
LEMMA ShortIsKept ==
    ASSUME NEW n \in Nat, Short(n)
    PROVE  Rounded(n) = n
<1>1. PICK c \in Nat, k \in Nat : c < TenTo(Precision) /\ n = c * TenTo(k)
  BY DEF Short
<1>2. Precision \in Nat
  BY PrecisionIsPositive
<1> DEFINE l == Length(n)
           j == l - Precision
<1>3. l \in Nat /\ \A i \in Nat : Rest(n, i) = 0 => l <= i
  BY LengthIs DEF IsLength
<1>4. Rounded(n) = LET kept == Rest(n, j)
                       lost == n - kept * TenTo(j)
                       up == 2 * lost > TenTo(j) \/ (2 * lost = TenTo(j) /\ kept % 2 = 1)
                   IN  IF j <= 0 THEN n ELSE (IF up THEN kept + 1 ELSE kept) * TenTo(j)
  BY DEF Rounded
<1> HIDE DEF l
<1>5. CASE j <= 0
  BY <1>4, <1>5
<1>6. CASE ~ (j <= 0)
  <2>1. j \in Nat
    BY <1>2, <1>3, <1>6
  <2>2. l <= Precision + k
    <3> DEFINE p == TenTo(Precision)
               t == TenTo(k)
    <3>1. p \in Nat /\ t \in Nat /\ t >= 1
      BY <1>2, TenGrows
    <3>2. TenTo(Precision + k) = p * t
      BY <1>2, TenAdds
    <3> HIDE DEF p, t
    <3>3. c + 1 <= p
      BY <1>1, <3>1 DEF p
    <3>4. (c + 1) * t <= p * t
      BY <3>1, <3>3, Products
    <3>5. (c + 1) * t = c * t + t /\ c * t \in Nat /\ p * t \in Nat
      BY <3>1
    <3>6. n < p * t
      BY <1>1, <3>1, <3>4, <3>5 DEF t
    <3>7. Rest(n, Precision + k) = 0
      BY <1>2, <3>2, <3>6, RestIsNothing
    <3> QED  BY <1>2, <1>3, <3>7
  <2>3. k - j \in Nat /\ k = (k - j) + j
    BY <1>2, <1>3, <2>1, <2>2
  <2> DEFINE i == k - j
             d == c * TenTo(i)
             t == TenTo(j)
  <2>4. TenTo(k) = TenTo(i) * t
    BY <2>1, <2>3, TenAdds
  <2>5. TenTo(i) \in Nat /\ t \in Nat /\ t >= 1
    BY <2>1, <2>3, TenGrows
  <2> HIDE DEF i, t, j
  <2>6. n = d * t /\ d \in Nat
    BY <1>1, <2>4, <2>5
  <2> HIDE DEF d
  <2>7. Rest(n, j) = d
    BY <2>1, <2>6, RestOfMultiple DEF t
  <2>8. n - d * t = 0 /\ 2 * (n - d * t) = 0
    BY <2>6
  <2>9. ~ (2 * (n - d * t) > t) /\ ~ (2 * (n - d * t) = t)
    BY <2>5, <2>8
  <2>10. Rounded(n) = d * t
    BY <1>4, <1>6, <2>7, <2>9 DEF t
  <2> QED  BY <2>6, <2>10
<1> QED  BY <1>5, <1>6

\* What is rounded is short.
LEMMA RoundedIsShort ==
    ASSUME NEW n \in Nat
    PROVE  Rounded(n) \in Nat /\ Short(Rounded(n))
<1>1. Precision \in Nat /\ Precision >= 1
  BY PrecisionIsPositive
<1> DEFINE l == Length(n)
           j == l - Precision
           p == TenTo(Precision)
<1>2. l \in Nat /\ Rest(n, l) = 0
  BY LengthIs DEF IsLength
<1>3. p \in Nat /\ p >= 10
  <2>1. Precision - 1 \in Nat /\ Precision = (Precision - 1) + 1
    BY <1>1
  <2>2. TenTo(Precision) = 10 * TenTo(Precision - 1) /\ TenTo(Precision - 1) \in Nat
        /\ TenTo(Precision - 1) >= 1
    BY <2>1, TenGrows
  <2> QED  BY <2>2
<1>4. Rounded(n) = LET kept == Rest(n, j)
                       lost == n - kept * TenTo(j)
                       up == 2 * lost > TenTo(j) \/ (2 * lost = TenTo(j) /\ kept % 2 = 1)
                   IN  IF j <= 0 THEN n ELSE (IF up THEN kept + 1 ELSE kept) * TenTo(j)
  BY DEF Rounded
<1>5. n < TenTo(l)
  BY <1>2, RestIsNothing
<1> HIDE DEF l, p
<1>6. CASE j <= 0
  <2>1. Precision - l \in Nat /\ Precision = l + (Precision - l)
    BY <1>1, <1>2, <1>6
  <2> DEFINE a == TenTo(l)
             b == TenTo(Precision - l)
  <2>2. p = a * b /\ a \in Nat /\ b \in Nat /\ b >= 1 /\ a >= 1
    BY <1>2, <2>1, TenAdds, TenGrows DEF p
  <2> HIDE DEF a, b
  <2>3. 1 * a <= b * a /\ b * a = a * b /\ 1 * a = a
    BY <2>2, Products
  <2>4. n < p
    BY <1>3, <1>5, <2>2, <2>3 DEF a
  <2>5. n = n * TenTo(0) /\ 0 \in Nat
    BY TenGrows
  <2> QED  BY <1>4, <1>6, <2>4, <2>5 DEF Short, p
<1>7. CASE ~ (j <= 0)
  <2>1. j \in Nat /\ l = Precision + j
    BY <1>1, <1>2, <1>7
  <2> HIDE DEF j
  <2> DEFINE t == TenTo(j)
             kept == Rest(n, j)
  <2>2. t \in Nat /\ t >= 1 /\ kept \in Nat /\ kept * t <= n
    BY <2>1, RestDivides
  <2>3. TenTo(l) = p * t
    BY <1>1, <2>1, TenAdds DEF p
  <2> HIDE DEF t, kept
  <2>4. kept < p
    <3>1. p <= kept => p * t <= kept * t
      BY <1>3, <2>2, Products
    <3>2. kept * t \in Nat /\ p * t \in Nat
      BY <1>3, <2>2
    <3> QED  BY <1>3, <1>5, <2>2, <2>3, <3>1, <3>2
  <2>5. PICK c \in {kept, kept + 1} : Rounded(n) = c * t
    <3> DEFINE lost == n - kept * t
               up == 2 * lost > t \/ (2 * lost = t /\ kept % 2 = 1)
    <3>1. Rounded(n) = (IF up THEN kept + 1 ELSE kept) * t
      BY <1>4, <1>7 DEF t, kept
    <3> HIDE DEF up
    <3> QED  BY <3>1
  <2>6. c \in Nat /\ c <= p
    BY <1>3, <2>2, <2>4
  <2>7. CASE c < p
    BY <2>1, <2>2, <2>5, <2>6, <2>7 DEF Short, p, t
  <2>8. CASE c = p
    <3>1. Rounded(n) = 1 * TenTo(l)
      <4>1. p * t \in Nat
        BY <1>3, <2>2
      <4> QED  BY <2>3, <2>5, <2>8, <4>1
    <3>2. Rounded(n) \in Nat
      BY <2>2, <2>5, <2>6
    <3>3. 1 < p
      BY <1>3
    <3> QED  BY <1>2, <3>1, <3>2, <3>3 DEF Short, p
  <2> QED  BY <1>3, <2>6, <2>7, <2>8
<1> QED  BY <1>6, <1>7

\* Short numbers stay so when they are multiplied or divided by powers of ten.
LEMMA ShortShifted ==
    ASSUME NEW n \in Nat, NEW j \in Nat
    PROVE  /\ Short(n) => Short(n * TenTo(j))
           /\ Short(n * TenTo(j)) => Short(n)
<1> DEFINE t == TenTo(j)
<1>1. t \in Nat /\ t >= 1
  BY TenGrows
<1>2. ASSUME Short(n) PROVE Short(n * t)
  <2>1. PICK c \in Nat, k \in Nat : c < TenTo(Precision) /\ n = c * TenTo(k)
    BY <1>2 DEF Short
  <2>2. TenTo(k + j) = TenTo(k) * t /\ TenTo(k) \in Nat /\ k + j \in Nat
    BY TenAdds, TenGrows
  <2> HIDE DEF t
  <2>3. n * t = c * TenTo(k + j)
    BY <1>1, <2>1, <2>2
  <2> QED  BY <2>1, <2>2, <2>3 DEF Short
<1>3. ASSUME Short(n * t) PROVE Short(n)
  <2>1. PICK c \in Nat, k \in Nat : c < TenTo(Precision) /\ n * t = c * TenTo(k)
    BY <1>3 DEF Short
  <2>2. CASE j <= k
    <3> DEFINE a == TenTo(k - j)
    <3>1. k - j \in Nat /\ k = (k - j) + j
      BY <2>2
    <3>2. TenTo(k) = a * t /\ a \in Nat
      BY <3>1, TenAdds, TenGrows
    <3> HIDE DEF a, t
    <3>3. n * t = (c * a) * t /\ c * a \in Nat
      BY <1>1, <2>1, <3>2
    <3>4. n = c * a
      BY <1>1, <3>3, Products
    <3> QED  BY <2>1, <3>1, <3>4 DEF Short, a
  <2>3. CASE ~ (j <= k)
    <3> DEFINE a == TenTo(j - k)
               b == TenTo(k)
    <3>1. j - k \in Nat /\ j = (j - k) + k
      BY <2>3
    <3>2. t = a * b /\ a \in Nat /\ a >= 1 /\ b \in Nat /\ b >= 1
      BY <3>1, TenAdds, TenGrows
    <3> HIDE DEF a, b, t
    <3>3. (n * a) * b = c * b /\ n * a \in Nat
      BY <1>1, <2>1, <3>2 DEF b
    <3>4. n * a = c
      BY <3>2, <3>3, Products
    <3>5. 1 * n <= a * n /\ a * n = n * a /\ 1 * n = n
      <4>1. CASE n = 0
        BY <3>2, <4>1
      <4>2. CASE n # 0
        <5>1. n >= 1
          BY <4>2
        <5> QED  BY <3>2, <5>1, Products
      <4> QED  BY <4>1, <4>2
    <3>6. n <= c
      BY <3>2, <3>4, <3>5
    <3>7. TenTo(Precision) \in Nat
      BY PrecisionIsPositive, TenGrows
    <3>8. n < TenTo(Precision) /\ n = n * TenTo(0) /\ 0 \in Nat
      BY <2>1, <3>6, <3>7, TenGrows
    <3> QED  BY <3>8 DEF Short
  <2> QED  BY <2>2, <2>3
<1> QED  BY <1>2, <1>3

\* The amount that is read is a natural number and short.
LEMMA ScaledIsShort ==
    ASSUME NEW n \in Nat, NEW d \in Nat, NEW e \in Nat, Exact(n, d, e)
    PROVE  Scaled(n, d, e) \in Nat /\ Short(Scaled(n, d, e))
<1> DEFINE r == Rounded(n)
<1>1. r \in Nat /\ Short(r)
  BY RoundedIsShort
<1> HIDE DEF r
<1>2. CASE d > e
  <2> DEFINE j == d - e
             m == Rest(r, j)
  <2>1. j \in Nat
    BY <1>2
  <2>2. Scaled(n, d, e) = m
    BY <1>2 DEF Scaled, r
  <2>3. m * TenTo(j) = r
    BY <1>2 DEF Exact, r
  <2>4. m \in Nat
    BY <1>1, <2>1, RestShrinks
  <2> HIDE DEF m, j
  <2> QED  BY <1>1, <2>1, <2>2, <2>3, <2>4, ShortShifted
<1>3. CASE ~ (d > e)
  <2> DEFINE j == e - d
  <2>1. j \in Nat
    BY <1>3
  <2>2. Scaled(n, d, e) = r * TenTo(j)
    BY <1>3 DEF Scaled, r
  <2> HIDE DEF j
  <2>3. r * TenTo(j) \in Nat
    BY <1>1, <2>1, TenGrows
  <2> QED  BY <1>1, <2>1, <2>2, <2>3, ShortShifted
<1> QED  BY <1>2, <1>3

\* A number that fits into the context is read with all its digits.
LEMMA ScaledIsWhole ==
    ASSUME NEW n \in Nat, NEW d \in Nat, NEW e \in Nat, Exact(n, d, e), n < TenTo(Precision)
    PROVE  Scaled(n, d, e) * TenTo(d) = n * TenTo(e)
<1>1. Rounded(n) = n
  BY RoundedFits
<1>2. TenTo(d) \in Nat /\ TenTo(e) \in Nat
  BY TenGrows
<1>3. CASE d > e
  <2> DEFINE j == d - e
             m == Rest(n, j)
  <2>1. j \in Nat /\ d = j + e
    BY <1>3
  <2>2. Scaled(n, d, e) = m /\ m * TenTo(j) = n
    BY <1>1, <1>3 DEF Scaled, Exact
  <2>3. m \in Nat /\ TenTo(j) \in Nat /\ TenTo(d) = TenTo(j) * TenTo(e)
    BY <2>1, RestShrinks, TenGrows, TenAdds
  <2> HIDE DEF m, j
  <2>4. m * (TenTo(j) * TenTo(e)) = (m * TenTo(j)) * TenTo(e)
    BY <1>2, <2>3
  <2> QED  BY <2>2, <2>3, <2>4
<1>4. CASE ~ (d > e)
  <2> DEFINE j == e - d
  <2>1. j \in Nat /\ e = j + d
    BY <1>4
  <2>2. Scaled(n, d, e) = n * TenTo(j)
    BY <1>1, <1>4 DEF Scaled
  <2>3. TenTo(j) \in Nat /\ TenTo(e) = TenTo(j) * TenTo(d)
    <3> HIDE DEF j
    <3>1. TenTo(j + d) = TenTo(j) * TenTo(d)
      BY <2>1, TenAdds
    <3> QED  BY <2>1, <3>1, TenGrows
  <2> HIDE DEF j
  <2>4. (n * TenTo(j)) * TenTo(d) = n * (TenTo(j) * TenTo(d))
    BY <1>2, <2>3
  <2> QED  BY <2>2, <2>3, <2>4
<1> QED  BY <1>3, <1>4

----------------------------------------------------------------------------
\* What format_amount prints is read as it was.

\* Behind the a-th character the text has j digits, those of n from the b-th.
Prints(text, a, j, n, b) ==
    \A i \in 1 .. j : text[a + i] = Figures[(Rest(n, b - i) % 10) + 1]

\* A text as format_amount prints it: a sign or none, w digits, and behind a
\* point e digits; together they are those of n.
Layout(text, s, w, e, n) ==
    /\ s \in {0, 1} /\ w \in Nat /\ w >= 1 /\ e \in Nat /\ n \in Nat
    /\ text \in Seq(Characters)
    /\ Len(text) = s + w + (IF e = 0 THEN 0 ELSE e + 1)
    /\ s = 1 => text[1] = "minus"
    /\ Prints(text, s, w, n, w + e)
    /\ e # 0 => text[s + w + 1] = "point"
    /\ Prints(text, s + w + 1, e, n, e)
    /\ Rest(n, w + e) = 0

\* Where its digits and its point are.
LEMMA LayoutPlaces ==
    ASSUME NEW text, NEW s, NEW w, NEW e, NEW n, Layout(text, s, w, e, n)
    PROVE  /\ \A i \in s + 1 .. s + w : text[i] \in Digits
           /\ \A i \in s + w + 2 .. s + w + 1 + e : text[i] \in Digits
           /\ \A i \in 1 .. Len(text) :
                \/ i = 1 /\ s = 1 /\ text[i] = "minus"
                \/ i \in s + 1 .. s + w /\ text[i] \in Digits
                \/ i = s + w + 1 /\ e # 0 /\ text[i] = "point"
                \/ i \in s + w + 2 .. s + w + 1 + e /\ e # 0 /\ text[i] \in Digits
<1>1. s \in {0, 1} /\ w \in Nat /\ w >= 1 /\ e \in Nat /\ n \in Nat
  BY DEF Layout
<1>2. Len(text) = s + w + (IF e = 0 THEN 0 ELSE e + 1)
  BY DEF Layout
<1>3. ASSUME NEW k \in Nat PROVE Figures[(Rest(n, k) % 10) + 1] \in Digits
  <2>1. Rest(n, k) \in Nat
    BY <1>1, RestShrinks
  <2>2. Rest(n, k) % 10 \in 0 .. 9
    BY <2>1
  <2> QED  BY <2>2, FiguresHaveValues
<1>4. ASSUME NEW i \in s + 1 .. s + w PROVE text[i] \in Digits
  <2> DEFINE j == i - s
  <2>1. j \in 1 .. w /\ s + j = i /\ w + e - j \in Nat
    BY <1>1
  <2> HIDE DEF j
  <2>2. text[s + j] = Figures[(Rest(n, w + e - j) % 10) + 1]
    <3>1. Prints(text, s, w, n, w + e)
      BY DEF Layout
    <3> QED  BY <1>1, <2>1, <3>1 DEF Prints
  <2>3. Figures[(Rest(n, w + e - j) % 10) + 1] \in Digits
    BY <1>3, <2>1
  <2> QED  BY <2>1, <2>2, <2>3, Zenon
<1>5. ASSUME NEW i \in s + w + 2 .. s + w + 1 + e PROVE text[i] \in Digits
  <2> DEFINE j == i - (s + w + 1)
  <2>1. j \in 1 .. e /\ s + w + 1 + j = i /\ e - j \in Nat
    BY <1>1
  <2>2. text[s + w + 1 + j] = Figures[(Rest(n, e - j) % 10) + 1]
    <3>1. Prints(text, s + w + 1, e, n, e)
      BY DEF Layout
    <3> QED  BY <1>1, <2>1, <3>1 DEF Prints
  <2> QED  BY <1>3, <2>1, <2>2
<1>6. ASSUME NEW i \in 1 .. Len(text)
      PROVE  \/ i = 1 /\ s = 1 /\ text[i] = "minus"
             \/ i \in s + 1 .. s + w /\ text[i] \in Digits
             \/ i = s + w + 1 /\ e # 0 /\ text[i] = "point"
             \/ i \in s + w + 2 .. s + w + 1 + e /\ e # 0 /\ text[i] \in Digits
  <2>1. \/ i = 1 /\ s = 1
        \/ i \in s + 1 .. s + w
        \/ i = s + w + 1 /\ e # 0
        \/ i \in s + w + 2 .. s + w + 1 + e /\ e # 0
    BY <1>1, <1>2
  <2>2. CASE i = 1 /\ s = 1
    BY <2>2 DEF Layout
  <2>3. CASE i \in s + 1 .. s + w
    BY <1>4, <2>3
  <2>4. CASE i = s + w + 1 /\ e # 0
    BY <2>4 DEF Layout
  <2>5. CASE i \in s + w + 2 .. s + w + 1 + e /\ e # 0
    BY <1>5, <2>5
  <2> QED  BY <2>1, <2>2, <2>3, <2>4, <2>5
<1> QED  BY <1>4, <1>5, <1>6

\* The digits of n from the b-th are read behind the a-th character of a text.
Reads(f, text, a, j, n, b) ==
    /\ Len(text) \in Nat /\ Counts(f, text)
    /\ n \in Nat /\ a \in Nat /\ b \in Nat /\ j \in 0 .. b /\ a + j <= Len(text)
    /\ f[a] = Rest(n, b) /\ Prints(text, a, j, n, b)

\* Reading the digits of n from the b-th on gives back what they were cut from.
LEMMA DigitsCount ==
    ASSUME NEW text, NEW f, NEW n, NEW a, NEW j, NEW b, Reads(f, text, a, j, n, b)
    PROVE  f[a + j] = Rest(n, b - j)
<1> USE DEF Reads
<1> DEFINE S == {i \in 0 .. j : f[a + i] = Rest(n, b - i)}
<1>1. 0 \in S
  <2>1. a + 0 = a /\ b - 0 = b
    OBVIOUS
  <2> QED  BY <2>1
<1>2. ASSUME NEW i \in 1 .. j, i - 1 \in S PROVE i \in S
  <2> DEFINE p == a + i
             c == b - i
             q == Rest(n, c)
             r == Rest(n, c + 1)
  <2>1. /\ p \in 1 .. Len(text) /\ p - 1 = a + (i - 1)
        /\ c \in Nat /\ c + 1 = b - (i - 1)
    OBVIOUS
  <2>2. f[p - 1] = r
    BY <1>2, <2>1
  <2>3. text[p] = Figures[(q % 10) + 1]
    BY DEF Prints
  <2> HIDE DEF p, c
  <2>4. q \in Nat /\ r = q \div 10
    BY <2>1, RestShrinks
  <2> HIDE DEF q, r
  <2>5. q % 10 \in 0 .. 9
    BY <2>4
  <2>6. text[p] \in Digits /\ ValueOf(text[p]) = q % 10
    BY <2>3, <2>5, FiguresHaveValues
  <2>7. f[p] = IF text[p] \in Digits THEN 10 * f[p - 1] + ValueOf(text[p]) ELSE f[p - 1]
    BY <2>1 DEF Counts
  <2>8. f[p] = 10 * (q \div 10) + (q % 10)
    BY <2>2, <2>4, <2>6, <2>7
  <2>9. f[p] = q
    BY <2>4, <2>8
  <2> QED  BY <2>9 DEF p, q, c
<1>3. \A i \in 0 .. j : i \in S
  <2>1. j \in Nat
    OBVIOUS
  <2> HIDE DEF S
  <2> QED  BY <1>1, <1>2, <2>1, UpToAll
<1>4. j \in S
  BY <1>3
<1> QED  BY <1>4

\* The digits printed of n are n.
LEMMA LayoutNumber ==
    ASSUME NEW text, NEW s, NEW w, NEW e, NEW n, Layout(text, s, w, e, n)
    PROVE  Number(text) = n
<1>1. s \in {0, 1} /\ w \in Nat /\ w >= 1 /\ e \in Nat /\ n \in Nat /\ text \in Seq(Characters)
  BY DEF Layout
<1>2. Len(text) = s + w + (IF e = 0 THEN 0 ELSE e + 1) /\ Len(text) \in Nat
  BY <1>1 DEF Layout
<1>3. PICK f \in [0 .. Len(text) -> Nat] : Counts(f, text) /\ Number(text) = f[Len(text)]
  BY <1>1, NumberRuns
<1>4. f[s] = 0
  <2>1. f[0] = 0
    BY <1>3 DEF Counts
  <2>2. CASE s = 1
    <3>1. 1 \in 1 .. Len(text) /\ 1 - 1 = 0 /\ text[1] = "minus"
      BY <1>1, <1>2, <2>2 DEF Layout
    <3>2. text[1] \notin Digits
      BY <3>1, KindsApart DEF Signs
    <3>3. f[1] = IF text[1] \in Digits THEN 10 * f[1 - 1] + ValueOf(text[1]) ELSE f[1 - 1]
      BY <1>3, <3>1 DEF Counts
    <3> QED  BY <2>1, <2>2, <3>1, <3>2, <3>3
  <2> QED  BY <1>1, <2>1, <2>2
<1>5. f[s + w] = Rest(n, e)
  <2>1. /\ s \in Nat /\ w + e \in Nat /\ w \in 0 .. w + e /\ s + w <= Len(text)
        /\ (w + e) - w = e
    BY <1>1, <1>2
  <2>2. f[s] = Rest(n, w + e)
    BY <1>4 DEF Layout
  <2>3. Prints(text, s, w, n, w + e)
    BY DEF Layout
  <2>4. Reads(f, text, s, w, n, w + e)
    BY <1>1, <1>2, <1>3, <2>1, <2>2, <2>3 DEF Reads
  <2>5. f[s + w] = Rest(n, (w + e) - w)
    BY <2>4, DigitsCount
  <2> QED  BY <2>1, <2>5
<1>6. Rest(n, 0) = n
  BY <1>1, RestShrinks
<1>7. CASE e = 0
  <2>1. Len(text) = s + w
    BY <1>1, <1>2, <1>7
  <2> QED  BY <1>3, <1>5, <1>6, <1>7, <2>1
<1>8. CASE e # 0
  <2> DEFINE a == s + w + 1
  <2>1. a \in 1 .. Len(text) /\ a - 1 = s + w /\ a \in Nat /\ a + e = Len(text) /\ e \in 0 .. e
    BY <1>1, <1>2, <1>8
  <2>2. text[a] \notin Digits
    <3>1. text[a] = "point"
      BY <1>8 DEF Layout
    <3> QED  BY <3>1, KindsApart DEF Separators
  <2>3. Prints(text, a, e, n, e)
    BY DEF Layout
  <2> HIDE DEF a
  <2>4. f[a] = IF text[a] \in Digits THEN 10 * f[a - 1] + ValueOf(text[a]) ELSE f[a - 1]
    BY <1>3, <2>1 DEF Counts
  <2>5. f[a] = Rest(n, e)
    BY <1>5, <2>1, <2>2, <2>4
  <2>6. a + e <= Len(text)
    BY <1>2, <2>1
  <2>7. Reads(f, text, a, e, n, e)
    BY <1>1, <1>2, <1>3, <2>1, <2>3, <2>5, <2>6 DEF Reads
  <2>8. f[a + e] = Rest(n, e - e)
    BY <2>7, DigitsCount
  <2>9. e - e = 0
    BY <1>1
  <2> QED  BY <1>3, <1>6, <2>1, <2>8, <2>9
<1> QED  BY <1>7, <1>8

\* Behind its point stand e digits.
LEMMA LayoutDecimals ==
    ASSUME NEW text, NEW s, NEW w, NEW e, NEW n, Layout(text, s, w, e, n)
    PROVE  Decimals(text) = e
<1>1. s \in {0, 1} /\ w \in Nat /\ w >= 1 /\ e \in Nat /\ n \in Nat /\ text \in Seq(Characters)
  BY DEF Layout
<1>2. Len(text) = s + w + (IF e = 0 THEN 0 ELSE e + 1) /\ Len(text) \in Nat
      /\ DOMAIN text = 1 .. Len(text)
  BY <1>1 DEF Layout
<1>3. CASE e = 0
  <2>1. ASSUME NEW i \in 1 .. Len(text) PROVE text[i] \notin Separators
    <3>1. text[i] = "minus" \/ text[i] \in Digits
      BY <1>3, LayoutPlaces
    <3> QED  BY <3>1, KindsApart DEF Signs
  <2>2. Places(Separators, text) = {}
    BY <1>2, <2>1 DEF Places
  <2> QED  BY <1>1, <1>3, <2>2, NoDecimals
<1>4. CASE e # 0
  <2> DEFINE a == s + w + 1
  <2>1. a \in 1 .. Len(text) /\ a \in Nat /\ a + e = Len(text)
    BY <1>1, <1>2, <1>4
  <2>2. text[a] \in Separators
    BY <1>4 DEF Layout, Separators
  <2>3. \A i \in a + 1 .. a + e : text[i] \in Digits
    BY <1>1, LayoutPlaces
  <2> HIDE DEF a
  <2>4. Places(Separators, text) # {}
    BY <1>2, <2>1, <2>2 DEF Places
  <2>5. PICK g \in [0 .. Len(text) -> Nat] :
           /\ Trails(g, text)
           /\ Decimals(text) = IF Places(Separators, text) = {} THEN 0 ELSE g[Len(text)]
    BY <1>1, DecimalsRuns
  <2> DEFINE S == {i \in 0 .. e : g[a + i] = i}
  <2>6. 0 \in S
    <3>1. g[a] = IF text[a] \in Separators THEN 0
                 ELSE IF text[a] \in Digits THEN g[a - 1] + 1 ELSE g[a - 1]
      BY <2>1, <2>5 DEF Trails
    <3>2. a + 0 = a
      BY <2>1
    <3> QED  BY <1>1, <2>2, <3>1, <3>2
  <2>7. ASSUME NEW i \in 1 .. e, i - 1 \in S PROVE i \in S
    <3>1. a + i \in 1 .. Len(text) /\ a + i \in a + 1 .. a + e /\ (a + i) - 1 = a + (i - 1)
      BY <1>1, <2>1
    <3>2. text[a + i] \in Digits /\ text[a + i] \notin Separators
      BY <2>3, <3>1, KindsApart
    <3>3. g[a + i] = IF text[a + i] \in Separators THEN 0
                     ELSE IF text[a + i] \in Digits THEN g[(a + i) - 1] + 1 ELSE g[(a + i) - 1]
      BY <2>5, <3>1 DEF Trails
    <3>4. g[a + (i - 1)] = i - 1
      BY <2>7
    <3>5. g[a + i] = (i - 1) + 1
      BY <3>1, <3>2, <3>3, <3>4
    <3> QED  BY <3>5
  <2>8. \A i \in 0 .. e : i \in S
    <3> HIDE DEF S
    <3> QED  BY <1>1, <2>6, <2>7, UpToAll
  <2>9. g[a + e] = e
    BY <1>1, <2>8
  <2> QED  BY <2>1, <2>4, <2>5, <2>9
<1> QED  BY <1>3, <1>4

\* Parsing such a text changes nothing in it.
LEMMA LayoutIsNormal ==
    ASSUME NEW text, NEW s, NEW w, NEW e, NEW n, Layout(text, s, w, e, n)
    PROVE  Strip(text) = text /\ ~ Bracketed(text) /\ Normal(text) = text
<1>1. s \in {0, 1} /\ w \in Nat /\ w >= 1 /\ e \in Nat /\ n \in Nat /\ text \in Seq(Characters)
  BY DEF Layout
<1>2. Len(text) \in Nat /\ Len(text) >= 1 /\ DOMAIN text = 1 .. Len(text)
  BY <1>1 DEF Layout
<1>3. ASSUME NEW i \in 1 .. Len(text)
      PROVE  text[i] \in Digits \cup {"minus", "point"}
  BY LayoutPlaces
<1>4. ASSUME NEW i \in 1 .. Len(text)
      PROVE  /\ text[i] \in Digits \cup Separators \cup Signs
             /\ text[i] \notin {"blank", "dash", "plus", "open", "close", "comma"}
  BY <1>3, KindsApart DEF Separators, Signs
<1>5. Strip(text) = text
  <2> DEFINE filled == DOMAIN text \ Places({"blank"}, text)
             places == {i \in DOMAIN text : \E j, k \in filled : j <= i /\ i <= k}
  <2>1. ASSUME NEW i \in 1 .. Len(text) PROVE i \in places
    <3>1. i \in filled /\ i <= i
      BY <1>2, <1>4 DEF Places
    <3> QED  BY <1>2, <3>1
  <2>2. Strip(text) = Picked(text, places)
    BY DEF Strip
  <2> HIDE DEF places
  <2> QED  BY <1>1, <2>1, <2>2, PickedWhole
<1>6. ~ Bracketed(text)
  BY <1>2, <1>4 DEF Bracketed
<1>7. Unbracketed(text) = text
  BY <1>6 DEF Unbracketed
<1>8. Cleaned(text) = text
  <2>1. Replaced("dash", "minus", text) = text
    BY <1>1, <1>2, <1>4 DEF Replaced
  <2> DEFINE places == Places(Digits \cup Separators \cup Signs, text)
  <2>2. \A i \in 1 .. Len(text) : i \in places
    BY <1>2, <1>4 DEF Places
  <2>3. Cleaned(text) = Picked(text, places)
    BY <2>1 DEF Cleaned
  <2> HIDE DEF places
  <2> QED  BY <1>1, <2>2, <2>3, PickedWhole
<1>9. WithoutPlus(text) = text
  <2> DEFINE places == {i \in DOMAIN text : \E j \in 1 .. i : text[j] # "plus"}
  <2>1. ASSUME NEW i \in 1 .. Len(text) PROVE i \in places
    <3>1. i \in 1 .. i /\ text[i] # "plus"
      BY <1>4
    <3> QED  BY <1>2, <3>1
  <2>2. WithoutPlus(text) = Picked(text, places)
    BY DEF WithoutPlus
  <2> HIDE DEF places
  <2> QED  BY <1>1, <2>1, <2>2, PickedWhole
<1>10. OnePoint(text) = text
  <2>1. Places({"comma"}, text) = {}
    BY <1>2, <1>4 DEF Places
  <2>2. OnePoint(text) = Replaced("comma", "point", text)
    BY <2>1 DEF OnePoint
  <2>3. Replaced("comma", "point", text) = text
    BY <1>1, <1>2, <1>4 DEF Replaced
  <2> QED  BY <2>2, <2>3
<1> QED  BY <1>5, <1>6, <1>7, <1>8, <1>9, <1>10 DEF Normal

\* It is accepted, and its sign is read as printed.
LEMMA LayoutIsRead ==
    ASSUME NEW text, NEW s, NEW w, NEW e, NEW n, Layout(text, s, w, e, n), Rounded(n) = n
    PROVE  /\ Readable(text, e)
           /\ Scaled(Number(Normal(text)), Decimals(Normal(text)), e) = n
           /\ Negative(text) <=> s = 1
           /\ Decimals(text) = e
<1>1. s \in {0, 1} /\ w \in Nat /\ w >= 1 /\ e \in Nat /\ n \in Nat /\ text \in Seq(Characters)
  BY DEF Layout
<1>2. Len(text) = s + w + (IF e = 0 THEN 0 ELSE e + 1) /\ Len(text) \in Nat
      /\ DOMAIN text = 1 .. Len(text) /\ text # <<>>
  BY <1>1 DEF Layout
<1>3. Strip(text) = text /\ ~ Bracketed(text) /\ Normal(text) = text
  BY LayoutIsNormal
<1>4. Number(text) = n /\ Decimals(text) = e
  BY LayoutNumber, LayoutDecimals
<1>5. text[1] = "minus" <=> s = 1
  <2>1. CASE s = 1
    BY <2>1 DEF Layout
  <2>2. CASE s = 0
    <3>1. 1 \in s + 1 .. s + w
      BY <1>1, <2>2
    <3>2. text[1] \in Digits
      BY <3>1, LayoutPlaces
    <3>3. text[1] # "minus"
      BY <3>2, KindsApart DEF Signs
    <3> QED  BY <2>2, <3>3
  <2> QED  BY <1>1, <2>1, <2>2
<1>6. Allowed(text)
  <2> DEFINE first == IF text # <<>> /\ text[1] = "minus" THEN 2 ELSE 1
  <2>1. first = s + 1
    BY <1>1, <1>2, <1>5
  <2> HIDE DEF first
  <2>2. first <= Len(text)
    BY <1>1, <1>2, <2>1
  <2>3. ASSUME NEW i \in first .. Len(text)
        PROVE  \/ text[i] \in Digits
               \/ text[i] = "point" /\ i # first /\ i # Len(text)
    <3>1. i \in 1 .. Len(text) /\ i # s /\ (i = 1 => s # 1)
      BY <1>1, <2>1
    <3>2. \/ text[i] \in Digits
          \/ i = s + w + 1 /\ e # 0 /\ text[i] = "point"
      BY <3>1, LayoutPlaces
    <3>3. ASSUME i = s + w + 1, e # 0 PROVE i # first /\ i # Len(text)
      BY <1>1, <1>2, <2>1, <3>3
    <3> QED  BY <3>2, <3>3
  <2>4. ASSUME NEW i \in Places({"point"}, text) PROVE i = s + w + 1
    <3>1. i \in 1 .. Len(text) /\ text[i] = "point" /\ text[i] \notin Digits /\ text[i] # "minus"
      BY <1>2, KindsApart DEF Places, Separators
    <3> QED  BY <3>1, LayoutPlaces
  <2> QED  BY <2>2, <2>3, <2>4 DEF Allowed, first
<1>7. Exact(n, e, e)
  BY <1>1 DEF Exact
<1>8. Scaled(n, e, e) = n
  <2>1. e - e = 0 /\ ~ (e > e) /\ TenTo(0) = 1
    BY <1>1, TenGrows
  <2>2. Scaled(n, e, e) = Rounded(n) * TenTo(e - e)
    BY <2>1 DEF Scaled
  <2> QED  BY <1>1, <2>1, <2>2
<1>9. Readable(text, e)
  BY <1>2, <1>3, <1>4, <1>6, <1>7 DEF Readable
<1>10. Negative(text) <=> s = 1
  <2>1. Negative(text) <=> ~ (text[1] = "minus" <=> Bracketed(text))
    BY <1>3 DEF Negative
  <2> QED  BY <1>3, <1>5, <2>1
<1> QED  BY <1>3, <1>4, <1>8, <1>9, <1>10

\* Once no digits are left, none come back.
LEMMA NothingStays ==
    ASSUME NEW n \in Nat, NEW j \in Nat, NEW k \in Nat, j <= k, Rest(n, j) = 0
    PROVE  Rest(n, k) = 0
<1> DEFINE t == TenTo(j)
           u == TenTo(k - j)
<1>1. k - j \in Nat /\ j + (k - j) = k
  OBVIOUS
<1>2. t \in Nat /\ u \in Nat /\ u >= 1
  BY <1>1, TenGrows
<1>3. TenTo(k) = t * u
  BY <1>1, TenAdds
<1>4. n < t
  BY RestIsNothing
<1> HIDE DEF t, u
<1>5. t <= t * u
  BY <1>2
<1>6. n < TenTo(k)
  BY <1>2, <1>3, <1>4, <1>5
<1> QED  BY <1>6, RestIsNothing

\* All k digits of n, more than a fraction of that width has.
Spells(digits, n, width, k) ==
    /\ k \in Nat /\ k > width
    /\ digits \in Seq(Characters) /\ Len(digits) = k
    /\ Rest(n, k) = 0
    /\ Prints(digits, 0, k, n, k)

\* Padding does not cut digits off.
LEMMA DigitSeqSpells ==
    ASSUME NEW n \in Nat, NEW width \in Nat
    PROVE  Spells(DigitSeq(n, width), n, width, Len(DigitSeq(n, width)))
<1> DEFINE k == IF Length(n) > width THEN Length(n) ELSE width + 1
           digits == DigitSeq(n, width)
<1>1. Length(n) \in Nat /\ Rest(n, Length(n)) = 0
  BY LengthIs DEF IsLength
<1>2. k \in Nat /\ k > width /\ Length(n) <= k
  BY <1>1
<1>3. Rest(n, k) = 0
  BY <1>1, <1>2, NothingStays
<1>4. digits = [i \in 1 .. k |-> Figures[(Rest(n, k - i) % 10) + 1]]
  BY DEF DigitSeq
<1> HIDE DEF k, digits
<1>5. ASSUME NEW i \in 1 .. k PROVE Figures[(Rest(n, k - i) % 10) + 1] \in Characters
  <2>0. k - i \in Nat
    BY <1>2
  <2>1. Rest(n, k - i) \in Nat
    BY <2>0, RestShrinks
  <2>2. Rest(n, k - i) % 10 \in 0 .. 9
    BY <2>1
  <2> QED  BY <2>2, FiguresHaveValues DEF Characters
<1>6. digits \in Seq(Characters) /\ Len(digits) = k
  BY <1>2, <1>4, <1>5
<1>7. Prints(digits, 0, k, n, k)
  BY <1>2, <1>4 DEF Prints
<1>8. Spells(digits, n, width, k)
  BY <1>2, <1>3, <1>6, <1>7 DEF Spells
<1> QED  BY <1>6, <1>8 DEF digits

\* One text behind another.
LEMMA Joined ==
    ASSUME NEW V, NEW t \in Seq(V), NEW u \in Seq(V), NEW j, NEW k, Len(t) = j, Len(u) = k
    PROVE  /\ t \o u \in Seq(V) /\ Len(t \o u) = j + k
           /\ \A i \in 1 .. j : (t \o u)[i] = t[i]
           /\ \A i \in 1 .. k : (t \o u)[j + i] = u[i]
<1>1. j \in Nat /\ k \in Nat
  OBVIOUS
<1>2. t \o u \in Seq(V) /\ Len(t \o u) = j + k
  BY ConcatProperties
<1>3. ASSUME NEW i \in 1 .. j PROVE (t \o u)[i] = t[i]
  <2>1. i \in 1 .. Len(t) + Len(u) /\ i <= Len(t)
    BY <1>1
  <2> QED  BY <2>1, ConcatProperties
<1>4. ASSUME NEW i \in 1 .. k PROVE (t \o u)[j + i] = u[i]
  <2>1. j + i \in 1 .. Len(t) + Len(u) /\ ~ (j + i <= Len(t)) /\ (j + i) - Len(t) = i
    BY <1>1
  <2> QED  BY <2>1, ConcatProperties
<1> QED  BY <1>2, <1>3, <1>4

\* A sign, the digits in front of the point, and the point with the rest of them.
LEMMA LaidOut ==
    ASSUME NEW n \in Nat, NEW e \in Nat, NEW w \in Nat, NEW negative \in BOOLEAN,
           NEW digits, Spells(digits, n, e, w + e)
    PROVE  LET text == (IF negative THEN <<"minus">> ELSE <<>>) \o SubSeq(digits, 1, w)
                           \o (IF e = 0 THEN <<>>
                               ELSE <<"point">> \o SubSeq(digits, w + 1, w + e))
           IN  Layout(text, IF negative THEN 1 ELSE 0, w, e, n)
<1> DEFINE s == IF negative THEN 1 ELSE 0
           sign == IF negative THEN <<"minus">> ELSE <<>>
           whole == SubSeq(digits, 1, w)
           behind == SubSeq(digits, w + 1, w + e)
           fraction == <<"point">> \o behind
           tail == IF e = 0 THEN <<>> ELSE fraction
           head == sign \o whole
           text == head \o tail
<1>1. /\ digits \in Seq(Characters) /\ Len(digits) = w + e
      /\ w \in Nat /\ w >= 1 /\ Rest(n, w + e) = 0 /\ s \in {0, 1}
  BY DEF Spells
<1>2. {"minus", "point"} \subseteq Characters
  BY DEF Characters, Signs, Separators
<1>3. /\ sign \in Seq(Characters) /\ Len(sign) = s
      /\ s = 1 => sign[1] = "minus"
  BY <1>2
<1>4. ASSUME NEW i \in 1 .. w + e PROVE digits[i] = Figures[(Rest(n, w + e - i) % 10) + 1]
  <2>1. digits[0 + i] = Figures[(Rest(n, w + e - i) % 10) + 1] /\ 0 + i = i
    BY <1>1 DEF Spells, Prints
  <2> QED  BY <2>1
<1>5. /\ whole \in Seq(Characters) /\ Len(whole) = w
      /\ \A i \in 1 .. w : whole[i] = digits[i]
  BY <1>1, SubSeqProperties
<1>6. /\ behind \in Seq(Characters) /\ Len(behind) = e
      /\ \A i \in 1 .. e : behind[i] = digits[w + i]
  BY <1>1, SubSeqProperties
<1>7. /\ <<"point">> \in Seq(Characters) /\ Len(<<"point">>) = 1 /\ <<"point">>[1] = "point"
  BY <1>2
<1> HIDE DEF s, sign, whole, behind
<1>8. /\ fraction \in Seq(Characters) /\ Len(fraction) = 1 + e
      /\ fraction[1] = "point"
      /\ \A i \in 1 .. e : fraction[1 + i] = behind[i]
  BY <1>6, <1>7, Joined
<1> HIDE DEF fraction
<1>9. /\ head \in Seq(Characters) /\ Len(head) = s + w
      /\ \A i \in 1 .. s : head[i] = sign[i]
      /\ \A i \in 1 .. w : head[s + i] = whole[i]
  <2>1. /\ sign \in Seq(Characters) /\ whole \in Seq(Characters)
        /\ Len(sign) = s /\ Len(whole) = w
    BY <1>3, <1>5
  <2>2. /\ sign \o whole \in Seq(Characters) /\ Len(sign \o whole) = s + w
        /\ \A i \in 1 .. s : (sign \o whole)[i] = sign[i]
        /\ \A i \in 1 .. w : (sign \o whole)[s + i] = whole[i]
    <3> HIDE DEF head, tail, text
    <3> QED  BY <2>1, Joined
  <2> QED  BY <2>2
<1>10. tail \in Seq(Characters) /\ Len(tail) = IF e = 0 THEN 0 ELSE e + 1
  BY <1>8
<1> HIDE DEF head, tail
<1>11. /\ text \in Seq(Characters)
       /\ Len(text) = s + w + (IF e = 0 THEN 0 ELSE e + 1)
       /\ \A i \in 1 .. s + w : text[i] = head[i]
       /\ e # 0 => \A i \in 1 .. e + 1 : text[s + w + i] = tail[i]
  <2> DEFINE l == IF e = 0 THEN 0 ELSE e + 1
             k == s + w
  <2>1. e # 0 => l = e + 1
    OBVIOUS
  <2> HIDE DEF l, k
  <2>2. Len(head) = k /\ Len(tail) = l
    BY <1>9, <1>10 DEF k, l
  <2>3. /\ text \in Seq(Characters) /\ Len(text) = k + l
        /\ \A i \in 1 .. k : text[i] = head[i]
        /\ \A i \in 1 .. l : text[k + i] = tail[i]
    <3>1. head \in Seq(Characters) /\ tail \in Seq(Characters)
      BY <1>9, <1>10
    <3>2. /\ head \o tail \in Seq(Characters) /\ Len(head \o tail) = k + l
          /\ \A i \in 1 .. k : (head \o tail)[i] = head[i]
          /\ \A i \in 1 .. l : (head \o tail)[k + i] = tail[i]
      <4> HIDE DEF text
      <4> QED  BY <2>2, <3>1, Joined
    <3> QED  BY <3>2
  <2> QED  BY <2>1, <2>3 DEF k, l
<1> HIDE DEF text
<1>12. s = 1 => text[1] = "minus"
  <2>1. ASSUME s = 1 PROVE 1 \in 1 .. s + w /\ 1 \in 1 .. s
    BY <1>1, <2>1
  <2> QED  BY <1>3, <1>9, <1>11, <2>1
<1>13. Prints(text, s, w, n, w + e)
  <2> SUFFICES ASSUME NEW i \in 1 .. w
               PROVE  text[s + i] = Figures[(Rest(n, w + e - i) % 10) + 1]
    BY DEF Prints
  <2>1. s + i \in 1 .. s + w /\ i \in 1 .. w + e
    BY <1>1
  <2>2. text[s + i] = head[s + i] /\ head[s + i] = whole[i] /\ whole[i] = digits[i]
    BY <1>5, <1>9, <1>11, <2>1
  <2> QED  BY <1>4, <2>1, <2>2
<1>14. ASSUME e # 0
       PROVE  text[s + w + 1] = "point" /\ Prints(text, s + w + 1, e, n, e)
  <2>1. tail = fraction
    BY <1>14 DEF tail
  <2>2. 1 \in 1 .. e + 1
    OBVIOUS
  <2>3. text[s + w + 1] = "point"
    BY <1>8, <1>11, <1>14, <2>1, <2>2
  <2>4. ASSUME NEW i \in 1 .. e
        PROVE  text[s + w + 1 + i] = Figures[(Rest(n, e - i) % 10) + 1]
    <3>1. /\ 1 + i \in 1 .. e + 1 /\ w + i \in 1 .. w + e /\ w + e - (w + i) = e - i
          /\ s + w + (1 + i) = s + w + 1 + i
      BY <1>1
    <3>2. text[s + w + (1 + i)] = tail[1 + i]
      BY <1>11, <1>14, <3>1
    <3>3. tail[1 + i] = behind[i] /\ behind[i] = digits[w + i]
      BY <1>6, <1>8, <2>1
    <3>4. digits[w + i] = Figures[(Rest(n, w + e - (w + i)) % 10) + 1]
      BY <1>4, <3>1
    <3> QED  BY <3>1, <3>2, <3>3, <3>4
  <2> QED  BY <2>3, <2>4 DEF Prints
<1>15. e = 0 => Prints(text, s + w + 1, e, n, e)
  BY DEF Prints
<1>16. Layout(text, s, w, e, n)
  BY <1>1, <1>11, <1>12, <1>13, <1>14, <1>15 DEF Layout
<1> QED  BY <1>16 DEF text, head, tail, fraction, behind, whole, sign, s

\* What is printed is laid out like that.
LEMMA FormatIsLayout ==
    ASSUME NEW m \in Int, NEW e \in Nat, NEW n \in Nat,
           n = IF e = 0 THEN Size(m) ELSE Rounded(Size(m))
    PROVE  \E w : Layout(FormatAmount(m, e), IF m < 0 THEN 1 ELSE 0, w, e, n)
<1> DEFINE digits == DigitSeq(n, e)
           w == Len(digits) - e
           negative == m < 0
<1>1. Spells(digits, n, e, Len(digits))
  BY DigitSeqSpells
<1>2. Len(digits) \in Nat /\ Len(digits) = w + e
  BY <1>1 DEF Spells
<1>3. Spells(digits, n, e, w + e) /\ negative \in BOOLEAN /\ w \in Nat
  BY <1>1, <1>2 DEF Spells
<1>4. FormatAmount(m, e) =
         (IF negative THEN <<"minus">> ELSE <<>>) \o SubSeq(digits, 1, w)
             \o (IF e = 0 THEN <<>> ELSE <<"point">> \o SubSeq(digits, w + 1, w + e))
  BY DEF FormatAmount
<1>5. Layout((IF negative THEN <<"minus">> ELSE <<>>) \o SubSeq(digits, 1, w)
                 \o (IF e = 0 THEN <<>> ELSE <<"point">> \o SubSeq(digits, w + 1, w + e)),
             IF negative THEN 1 ELSE 0, w, e, n)
  <2> HIDE DEF digits, w, negative
  <2> QED  BY <1>3, LaidOut
<1>6. Layout(FormatAmount(m, e), IF negative THEN 1 ELSE 0, w, e, n)
  <2> HIDE DEF digits, w, negative
  <2> QED  BY <1>4, <1>5, Zenon
<1> QED  BY <1>6

\* A short amount that is printed is read back.
LEMMA FormatIsRead ==
    ASSUME NEW m \in Int, NEW e \in Nat, Short(Size(m))
    PROVE  LET text == FormatAmount(m, e)
           IN  /\ Readable(text, e)
               /\ Scaled(Number(Normal(text)), Decimals(Normal(text)), e) = Size(m)
               /\ Negative(text) <=> m < 0
               /\ Decimals(text) = e
<1> DEFINE n == Size(m)
           text == FormatAmount(m, e)
           s == IF m < 0 THEN 1 ELSE 0
<1>1. n \in Nat
  BY DEF Size
<1>2. Rounded(n) = n
  BY <1>1, ShortIsKept
<1>3. PICK w : Layout(text, s, w, e, n)
  BY <1>1, <1>2, FormatIsLayout
<1>4. s = 1 <=> m < 0
  OBVIOUS
<1> HIDE DEF n, text, s
<1>5. /\ Readable(text, e)
      /\ Scaled(Number(Normal(text)), Decimals(Normal(text)), e) = n
      /\ Negative(text) <=> s = 1
      /\ Decimals(text) = e
  BY <1>2, <1>3, LayoutIsRead
<1> QED  BY <1>4, <1>5 DEF n, text

----------------------------------------------------------------------------
\* A text that means something keeps its order through all stages.

\* Where the characters of a part come from: from the places of the text, all
\* of them, in the same order.
Comes(from, part, text, places) ==
    /\ \A k \in 1 .. Len(part) :
          from[k] \in 1 .. Len(text) /\ from[k] \in places /\ part[k] = text[from[k]]
    /\ \A k, l \in 1 .. Len(part) : k < l <=> from[k] < from[l]
    /\ \A i \in 1 .. Len(text) : i \in places => \E k \in 1 .. Len(part) : from[k] = i

\* Where the characters come from that Picked keeps.
LEMMA PickedComes ==
    ASSUME NEW V, NEW text \in Seq(V), NEW places
    PROVE  \E from : Comes(from, Picked(text, places), text, places)
<1> DEFINE part == Picked(text, places)
           n == Len(text)
           m == Len(part)
<1>1. part \in Seq(V) /\ n \in Nat /\ m \in Nat
  BY PickedEmbeds
<1>2. PICK at : Embeds(at, text, places, part)
  BY PickedEmbeds
<1> DEFINE from == [k \in 1 .. m |-> CHOOSE i \in 1 .. n : i \in places /\ at[i] = k]
<1>3. ASSUME NEW k \in 1 .. m
      PROVE  from[k] \in 1 .. n /\ from[k] \in places /\ at[from[k]] = k /\ part[k] = text[from[k]]
  <2>1. \E i \in 1 .. n : i \in places /\ at[i] = k
    BY <1>2 DEF Embeds
  <2>2. from[k] \in 1 .. n /\ from[k] \in places /\ at[from[k]] = k
    BY <2>1
  <2> QED  BY <1>2, <2>2 DEF Embeds
<1> HIDE DEF from
<1>4. ASSUME NEW k \in 1 .. m, NEW l \in 1 .. m PROVE k < l <=> from[k] < from[l]
  <2> DEFINE i == from[k]
             j == from[l]
  <2>1. i \in 1 .. n /\ j \in 1 .. n /\ j \in places /\ at[i] = k /\ at[j] = l
    BY <1>3
  <2> HIDE DEF i, j
  <2>2. i < j => at[i] < at[j]
    BY <1>2, <2>1 DEF Embeds
  <2>3. j <= i => at[j] <= at[i]
    BY <1>2, <2>1 DEF Embeds
  <2>4. k < l <=> i < j
    BY <1>1, <2>1, <2>2, <2>3
  <2> QED  BY <2>4 DEF i, j
<1>5. ASSUME NEW i \in 1 .. n, i \in places PROVE \E k \in 1 .. m : from[k] = i
  <2> DEFINE k == at[i]
             j == from[k]
  <2>1. k \in 1 .. m
    BY <1>2, <1>5 DEF Embeds
  <2>2. j \in 1 .. n /\ j \in places /\ at[j] = at[i]
    BY <1>3, <2>1
  <2>3. at[i] \in Nat
    BY <1>2 DEF Embeds
  <2> HIDE DEF j
  <2>4. i < j => at[i] < at[j]
    BY <1>2, <2>2 DEF Embeds
  <2>5. j < i => at[j] < at[i]
    BY <1>2, <1>5, <2>2 DEF Embeds
  <2>6. j = i
    BY <1>1, <2>2, <2>3, <2>4, <2>5
  <2> QED  BY <2>1, <2>6 DEF j
<1>6. Comes(from, part, text, places)
  BY <1>3, <1>4, <1>5 DEF Comes
<1> QED  BY <1>6

\* What is asked of a text that means something, except for brackets.
Plain(text, below) ==
    /\ text \in Seq(Characters)
    /\ Places(Digits, text) # {} /\ OneFraction(text) /\ SignInFront(text)
    /\ below \in BOOLEAN
    /\ below <=> Places({"minus", "dash"}, text) # {}

\* A text without the characters that do not matter is still plain.
LEMMA PickedPlain ==
    ASSUME NEW text, NEW below, Plain(text, below), NEW places,
           \A i \in 1 .. Len(text) : text[i] \in Digits \cup {"minus", "dash"} => i \in places,
           \A i \in Places(Separators, text) :
              (\A q \in Places(Separators, text) : q <= i) => i \in places
    PROVE  Plain(Picked(text, places), below)
<1> DEFINE part == Picked(text, places)
           n == Len(text)
           m == Len(part)
<1>1. text \in Seq(Characters) /\ part \in Seq(Characters)
  BY PickedEmbeds DEF Plain
<1>2. DOMAIN text = 1 .. n /\ DOMAIN part = 1 .. m /\ n \in Nat /\ m \in Nat
  BY <1>1
<1>3. PICK from : Comes(from, part, text, places)
  BY <1>1, PickedComes
<1> HIDE DEF part, n, m
<1>4. ASSUME NEW C, NEW k \in Places(C, part) PROVE k \in 1 .. m /\ from[k] \in Places(C, text)
  <2>1. k \in 1 .. m /\ part[k] \in C
    BY <1>2 DEF Places
  <2> QED  BY <1>2, <1>3, <2>1 DEF Comes, Places, n, m
<1>5. ASSUME NEW C, NEW i \in Places(C, text), i \in places
      PROVE  \E k \in Places(C, part) : from[k] = i
  <2>1. i \in 1 .. n /\ text[i] \in C
    BY <1>2 DEF Places
  <2>2. PICK k \in 1 .. m : from[k] = i
    BY <1>3, <1>5, <2>1 DEF Comes, n, m
  <2>3. part[k] \in C
    BY <1>3, <2>1, <2>2 DEF Comes, n, m
  <2> QED  BY <1>2, <2>2, <2>3 DEF Places
<1>6. \A k, l \in 1 .. m : k < l <=> from[k] < from[l]
  BY <1>3 DEF Comes, m
<1>7. \A k \in 1 .. m : from[k] \in 1 .. n
  BY <1>3 DEF Comes, m, n
<1>8. \A k, l \in 1 .. m : k = l <=> from[k] = from[l]
  BY <1>2, <1>6, <1>7
<1>9. Places(Digits, text) \subseteq places /\ Places({"minus", "dash"}, text) \subseteq places
  BY <1>2 DEF Places, n
<1>10. Places(Digits, part) # {}
  <2>1. PICK i : i \in Places(Digits, text)
    BY DEF Plain
  <2> QED  BY <1>5, <1>9, <2>1
<1>11. below <=> Places({"minus", "dash"}, part) # {}
  BY <1>4, <1>5, <1>9 DEF Plain
<1>12. SignInFront(part)
  <2>1. ASSUME NEW k \in Places(Signs, part), NEW l \in Places(Signs, part) PROVE k = l
    BY <1>4, <1>8 DEF Plain, SignInFront
  <2>2. ASSUME NEW k \in Places(Signs, part), NEW l \in Places(Digits \cup Separators, part)
        PROVE  k < l
    BY <1>4, <1>6 DEF Plain, SignInFront
  <2> QED  BY <2>1, <2>2 DEF SignInFront
<1>13. OneFraction(part)
  <2> SUFFICES ASSUME NEW p \in Places(Separators, part),
                      \A q \in Places(Separators, part) : q <= p
               PROVE  /\ \E i, k \in Places(Digits, part) : i < p /\ p < k
                      /\ \A q \in Places(Separators, part) \ {p} : part[q] # part[p]
    BY DEF OneFraction
  <2>1. p \in 1 .. m /\ from[p] \in Places(Separators, text) /\ from[p] \in 1 .. n
    BY <1>4, <1>7
  <2>2. ASSUME NEW q \in Places(Separators, text) PROVE q <= from[p]
    <3>1. Places(Separators, text) \in SUBSET (1 .. n) /\ Places(Separators, text) # {}
      BY <1>2, <2>1 DEF Places
    <3>2. PICK l \in Places(Separators, text) : \A i \in Places(Separators, text) : i <= l
      BY <1>2, <3>1, LastPlace
    <3>3. l \in places /\ l \in 1 .. n /\ q \in 1 .. n /\ q <= l
      BY <3>1, <3>2
    <3>4. PICK k \in Places(Separators, part) : from[k] = l
      BY <1>5, <3>3
    <3>5. k \in 1 .. m /\ k <= p
      BY <1>4
    <3>6. l <= from[p]
      BY <1>2, <1>6, <1>7, <2>1, <3>4, <3>5
    <3> QED  BY <1>2, <2>1, <3>3, <3>6
  <2>3. /\ \E i, k \in Places(Digits, text) : i < from[p] /\ from[p] < k
        /\ \A q \in Places(Separators, text) \ {from[p]} : text[q] # text[from[p]]
    BY <2>1, <2>2 DEF Plain, OneFraction
  <2>4. \E i, k \in Places(Digits, part) : i < p /\ p < k
    <3>1. PICK i \in Places(Digits, text), k \in Places(Digits, text) :
             i < from[p] /\ from[p] < k
      BY <2>3
    <3>2. PICK j \in Places(Digits, part) : from[j] = i
      BY <1>5, <1>9
    <3>3. PICK l \in Places(Digits, part) : from[l] = k
      BY <1>5, <1>9
    <3>4. j \in 1 .. m /\ l \in 1 .. m
      BY <1>4
    <3>5. j < p /\ p < l
      BY <1>6, <2>1, <3>1, <3>2, <3>3, <3>4
    <3> QED  BY <3>5
  <2>5. ASSUME NEW q \in Places(Separators, part) \ {p} PROVE part[q] # part[p]
    <3>1. q \in 1 .. m /\ from[q] \in Places(Separators, text) /\ from[q] # from[p]
      BY <1>4, <1>8, <2>1
    <3>2. part[q] = text[from[q]] /\ part[p] = text[from[p]]
      BY <1>3, <2>1, <3>1 DEF Comes, m
    <3> QED  BY <2>3, <3>1, <3>2
  <2> QED  BY <2>4, <2>5
<1> QED  BY <1>1, <1>10, <1>11, <1>12, <1>13 DEF Plain, part

\* A minus for a dash, or the one separator for the other, leave a text plain.
LEMMA ReplacedPlain ==
    ASSUME NEW text, NEW below, Plain(text, below), NEW c, NEW d,
           \/ {c, d} \subseteq {"minus", "dash"}
           \/ /\ {c, d} \subseteq Separators
              /\ \A p, q \in Places(Separators, text) : text[p] = text[q]
    PROVE  Plain(Replaced(c, d, text), below)
<1> DEFINE u == Replaced(c, d, text)
           n == Len(text)
<1>1. text \in Seq(Characters)
  BY DEF Plain
<1>2. /\ {c, d} \subseteq Separators \/ {c, d} \subseteq Signs
      /\ {"minus", "dash"} \subseteq Signs
  BY DEF Signs
<1>3. u \in Seq(Characters)
  BY <1>1, <1>2, ReplacedSame DEF SameAmount
<1>4. /\ DOMAIN text = 1 .. n /\ DOMAIN u = 1 .. n /\ n \in Nat
      /\ \A i \in 1 .. n : u[i] = IF text[i] = c THEN d ELSE text[i]
  BY <1>1 DEF Replaced
<1> HIDE DEF u, n
<1>5. ASSUME NEW i \in 1 .. n
      PROVE  /\ text[i] \in Digits <=> u[i] \in Digits
             /\ text[i] \in Separators <=> u[i] \in Separators
             /\ text[i] \in Signs <=> u[i] \in Signs
             /\ text[i] \in {"minus", "dash"} <=> u[i] \in {"minus", "dash"}
  <2>1. CASE {c, d} \subseteq {"minus", "dash"}
    BY <1>2, <1>4, <2>1, KindsApart
  <2>2. CASE {c, d} \subseteq Separators
    BY <1>2, <1>4, <2>2, KindsApart
  <2> QED  BY <2>1, <2>2
<1>6. /\ Places(Digits, u) = Places(Digits, text)
      /\ Places(Separators, u) = Places(Separators, text)
      /\ Places(Signs, u) = Places(Signs, text)
      /\ Places(Digits \cup Separators, u) = Places(Digits \cup Separators, text)
      /\ Places({"minus", "dash"}, u) = Places({"minus", "dash"}, text)
  BY <1>4, <1>5 DEF Places
<1>7. SignInFront(u)
  BY <1>6 DEF Plain, SignInFront
<1>8. OneFraction(u)
  <2> SUFFICES ASSUME NEW p \in Places(Separators, text),
                      \A q \in Places(Separators, text) : q <= p
               PROVE  /\ \E i, k \in Places(Digits, text) : i < p /\ p < k
                      /\ \A q \in Places(Separators, text) \ {p} : u[q] # u[p]
    BY <1>6 DEF OneFraction
  <2>1. /\ \E i, k \in Places(Digits, text) : i < p /\ p < k
        /\ \A q \in Places(Separators, text) \ {p} : text[q] # text[p]
    BY DEF Plain, OneFraction
  <2>2. ASSUME NEW q \in Places(Separators, text) \ {p} PROVE u[q] # u[p]
    <3>1. {c, d} \subseteq {"minus", "dash"} /\ text[q] # text[p]
      BY <2>1
    <3>2. /\ p \in 1 .. n /\ q \in 1 .. n
          /\ text[p] \in Separators /\ text[q] \in Separators
      BY <1>4 DEF Places
    <3>3. u[p] = text[p] /\ u[q] = text[q]
      BY <1>2, <1>4, <3>1, <3>2, KindsApart
    <3> QED  BY <3>1, <3>3
  <2> QED  BY <2>1, <2>2
<1> QED  BY <1>3, <1>6, <1>7, <1>8 DEF Plain, u

\* Blanks around a text do not matter.
LEMMA StripPlain ==
    ASSUME NEW text, NEW below, Plain(text, below)
    PROVE  Plain(Strip(text), below)
<1> DEFINE filled == DOMAIN text \ Places({"blank"}, text)
           places == {i \in DOMAIN text : \E j, k \in filled : j <= i /\ i <= k}
<1>1. text \in Seq(Characters) /\ DOMAIN text = 1 .. Len(text) /\ Len(text) \in Nat
  BY DEF Plain
<1>2. ASSUME NEW i \in 1 .. Len(text), text[i] # "blank" PROVE i \in places
  <2>1. i \in filled /\ i <= i
    BY <1>1, <1>2 DEF Places
  <2> QED  BY <1>1, <2>1
<1>3. Strip(text) = Picked(text, places)
  BY DEF Strip
<1> HIDE DEF places
<1>4. \A i \in 1 .. Len(text) : text[i] \in Digits \cup {"minus", "dash"} => i \in places
  BY <1>2, KindsApart DEF Signs
<1>5. \A i \in Places(Separators, text) : i \in places
  BY <1>1, <1>2, KindsApart DEF Places
<1> QED  BY <1>3, <1>4, <1>5, PickedPlain

\* The brackets around a text do not matter, except that it has them.
LEMMA UnbracketedPlain ==
    ASSUME NEW text, NEW below, Plain(text, below),
           ~ Bracketed(text) => Places({"open"}, text) = {}
    PROVE  /\ Bracketed(Strip(text)) <=> Bracketed(text)
           /\ Plain(Unbracketed(Strip(text)), below)
<1> DEFINE filled == DOMAIN text \ Places({"blank"}, text)
           places == {i \in DOMAIN text : \E j, k \in filled : j <= i /\ i <= k}
           n == Len(text)
           a == Strip(text)
<1>1. text \in Seq(Characters) /\ DOMAIN text = 1 .. n /\ n \in Nat
  BY DEF Plain
<1>2. a = Picked(text, places)
  BY DEF Strip
<1>3. Plain(a, below)
  BY StripPlain
<1> HIDE DEF a
<1>4. CASE Bracketed(text)
  <2>1. n > 1 /\ text[1] = "open" /\ text[n] = "close"
    BY <1>4 DEF Bracketed
  <2>2. 1 \in filled /\ n \in filled
    BY <1>1, <2>1 DEF Places
  <2>3. \A i \in 1 .. n : i \in places
    BY <1>1, <2>2
  <2>4. a = text
    <3> HIDE DEF places
    <3> QED  BY <1>1, <1>2, <2>3, PickedWhole
  <2> DEFINE inside == 2 .. n - 1
             b == Picked(text, inside)
  <2>5. ASSUME NEW i \in 1 .. n, text[i] \notin {"open", "close"} PROVE i \in inside
    BY <1>1, <2>1, <2>5
  <2>6. Unbracketed(a) = Strip(b)
    BY <1>4, <2>4 DEF Unbracketed
  <2> HIDE DEF inside
  <2>7. \A i \in 1 .. n : text[i] \in Digits \cup {"minus", "dash"} => i \in inside
    BY <2>5, KindsApart DEF Signs
  <2>8. \A i \in Places(Separators, text) : i \in inside
    BY <1>1, <2>5, KindsApart DEF Places
  <2>9. Plain(b, below)
    BY <2>7, <2>8, PickedPlain
  <2>10. Plain(Strip(b), below)
    BY <2>9, StripPlain
  <2> QED  BY <1>4, <2>4, <2>6, <2>10 DEF a
<1>5. CASE ~ Bracketed(text)
  <2> HIDE DEF places
  <2>1. PICK from : Comes(from, a, text, places)
    BY <1>1, <1>2, PickedComes
  <2>2. ASSUME Bracketed(a) PROVE FALSE
    <3>1. Len(a) > 1 /\ a[1] = "open" /\ Len(a) \in Nat
      BY <1>3, <2>2 DEF Bracketed, Plain
    <3>2. from[1] \in 1 .. n /\ a[1] = text[from[1]]
      BY <2>1, <3>1 DEF Comes
    <3>3. from[1] \in Places({"open"}, text)
      BY <1>1, <3>1, <3>2 DEF Places
    <3> QED  BY <1>5, <3>3
  <2>3. Unbracketed(a) = a
    BY <2>2 DEF Unbracketed
  <2> QED  BY <1>3, <1>5, <2>2, <2>3 DEF a
<1> QED  BY <1>4, <1>5

\* What is left after cleaning.
LEMMA CleanedPlain ==
    ASSUME NEW text, NEW below, Plain(text, below)
    PROVE  /\ Plain(Cleaned(text), below)
           /\ \A i \in 1 .. Len(Cleaned(text)) :
                 Cleaned(text)[i] \in Digits \cup Separators \cup {"minus", "plus"}
<1> DEFINE u == Replaced("dash", "minus", text)
           places == Places(Digits \cup Separators \cup Signs, text)
           part == Cleaned(text)
<1>1. Plain(u, below)
  BY ReplacedPlain
<1>2. text \in Seq(Characters) /\ u \in Seq(Characters)
  BY <1>1 DEF Plain
<1>3. /\ DOMAIN text = 1 .. Len(text) /\ DOMAIN u = 1 .. Len(text) /\ Len(u) = Len(text)
      /\ Len(text) \in Nat
      /\ \A i \in 1 .. Len(text) : u[i] = IF text[i] = "dash" THEN "minus" ELSE text[i]
  BY <1>2 DEF Replaced
<1>4. part = Picked(u, places)
  BY DEF Cleaned
<1> HIDE DEF u, part
<1>5. ASSUME NEW i \in 1 .. Len(u), u[i] \in Digits \cup Separators \cup Signs PROVE i \in places
  <2>1. text[i] \in Digits \cup Separators \cup Signs
    BY <1>3, <1>5 DEF Signs
  <2> QED  BY <1>3, <2>1 DEF Places
<1>6. ASSUME NEW i \in 1 .. Len(u), i \in places
      PROVE  u[i] \in Digits \cup Separators \cup {"minus", "plus"}
  <2>1. text[i] \in Digits \cup Separators \cup Signs
    BY <1>6 DEF Places
  <2> QED  BY <1>3, <2>1 DEF Signs
<1> HIDE DEF places
<1>7. \A i \in 1 .. Len(u) : u[i] \in Digits \cup {"minus", "dash"} => i \in places
  BY <1>5 DEF Signs
<1>8. \A i \in Places(Separators, u) : i \in places
  BY <1>3, <1>5 DEF Places
<1>9. Plain(part, below)
  BY <1>1, <1>4, <1>7, <1>8, PickedPlain
<1>10. PICK from : Comes(from, part, u, places)
  BY <1>2, <1>4, PickedComes
<1>11. \A i \in 1 .. Len(part) : part[i] \in Digits \cup Separators \cup {"minus", "plus"}
  BY <1>6, <1>10 DEF Comes
<1> QED  BY <1>9, <1>11 DEF part

\* A plus sign is in front, where it is removed.
LEMMA WithoutPlusPlain ==
    ASSUME NEW text, NEW below, Plain(text, below),
           \A i \in 1 .. Len(text) : text[i] \in Digits \cup Separators \cup {"minus", "plus"}
    PROVE  /\ Plain(WithoutPlus(text), below)
           /\ \A i \in 1 .. Len(WithoutPlus(text)) :
                 WithoutPlus(text)[i] \in Digits \cup Separators \cup {"minus"}
<1> DEFINE places == {i \in DOMAIN text : \E j \in 1 .. i : text[j] # "plus"}
           part == WithoutPlus(text)
           n == Len(text)
<1>1. text \in Seq(Characters) /\ DOMAIN text = 1 .. n /\ n \in Nat
  BY DEF Plain
<1>2. part = Picked(text, places)
  BY DEF WithoutPlus
<1> HIDE DEF part
<1>3. ASSUME NEW i \in 1 .. n, text[i] # "plus" PROVE i \in places
  <2>1. i \in 1 .. i
    OBVIOUS
  <2> QED  BY <1>1, <1>3, <2>1
<1>4. ASSUME NEW i \in 1 .. n, i \in places PROVE text[i] # "plus"
  <2>1. PICK j \in 1 .. i : text[j] # "plus"
    BY <1>4
  <2>2. j \in 1 .. n /\ j <= i
    BY <1>1
  <2> SUFFICES ASSUME text[i] = "plus"
               PROVE  FALSE
    OBVIOUS
  <2>3. i \in Places(Signs, text) /\ j # i
    BY <1>1, <2>1 DEF Places, Signs
  <2>4. j \in Places(Signs, text) \/ j \in Places(Digits \cup Separators, text)
    BY <1>1, <2>2 DEF Places, Signs
  <2>5. j = i \/ i < j
    BY <2>3, <2>4 DEF Plain, SignInFront
  <2> QED  BY <1>1, <2>2, <2>3, <2>5
<1> HIDE DEF places
<1>5. \A i \in 1 .. n : text[i] \in Digits \cup {"minus", "dash"} => i \in places
  BY <1>3, KindsApart DEF Signs
<1>6. \A i \in Places(Separators, text) : i \in places
  BY <1>1, <1>3, KindsApart DEF Places, Signs
<1>7. Plain(part, below)
  BY <1>2, <1>5, <1>6, PickedPlain
<1>8. PICK from : Comes(from, part, text, places)
  BY <1>1, <1>2, PickedComes
<1>9. ASSUME NEW i \in 1 .. Len(part) PROVE part[i] \in Digits \cup Separators \cup {"minus"}
  <2>1. from[i] \in 1 .. n /\ from[i] \in places /\ part[i] = text[from[i]]
    BY <1>8 DEF Comes
  <2> QED  BY <1>4, <2>1
<1> QED  BY <1>7, <1>9 DEF part

\* Without the separators that are not the last a text is plain.
LEMMA WithoutPlain ==
    ASSUME NEW text, NEW below, Plain(text, below), NEW c \in Separators,
           \A i \in Places({c}, text) : \E q \in Places(Separators, text) : ~ (q <= i)
    PROVE  /\ Plain(Without(c, text), below)
           /\ \A i \in 1 .. Len(Without(c, text)) :
                 /\ Without(c, text)[i] # c
                 /\ \E j \in 1 .. Len(text) : Without(c, text)[i] = text[j]
<1> DEFINE places == DOMAIN text \ Places({c}, text)
           part == Without(c, text)
           n == Len(text)
<1>1. text \in Seq(Characters) /\ DOMAIN text = 1 .. n /\ n \in Nat
  BY DEF Plain
<1>2. part = Picked(text, places)
  BY DEF Without
<1> HIDE DEF part
<1>3. \A i \in 1 .. n : i \in places <=> text[i] # c
  BY <1>1 DEF Places
<1> HIDE DEF places
<1>4. \A i \in 1 .. n : text[i] \in Digits \cup {"minus", "dash"} => i \in places
  BY <1>3, KindsApart DEF Signs
<1>5. ASSUME NEW i \in Places(Separators, text), \A q \in Places(Separators, text) : q <= i
      PROVE  i \in places
  <2>1. i \in 1 .. n
    BY <1>1 DEF Places
  <2>2. i \notin Places({c}, text)
    BY <1>5
  <2> QED  BY <1>1, <1>3, <2>1, <2>2 DEF Places
<1>6. Plain(part, below)
  BY <1>2, <1>4, <1>5, PickedPlain
<1>7. PICK from : Comes(from, part, text, places)
  BY <1>1, <1>2, PickedComes
<1>8. ASSUME NEW i \in 1 .. Len(part)
      PROVE  part[i] # c /\ \E j \in 1 .. n : part[i] = text[j]
  <2>1. from[i] \in 1 .. n /\ from[i] \in places /\ part[i] = text[from[i]]
    BY <1>7 DEF Comes
  <2> QED  BY <1>3, <2>1
<1> QED  BY <1>6, <1>8 DEF part

\* Digits, minus signs and points, and nothing else.
Bare(text) == \A i \in 1 .. Len(text) : text[i] \in Digits \cup {"minus", "point"}

\* Once the separators of groups are gone, the last one is a point.

\* Once the separators of groups are gone, the last one is a point.
LEMMA OnePointPlain ==
    ASSUME NEW text, NEW below, Plain(text, below),
           \A i \in 1 .. Len(text) : text[i] \in Digits \cup Separators \cup {"minus"}
    PROVE  Plain(OnePoint(text), below) /\ Bare(OnePoint(text))
<1> DEFINE commas == Places({"comma"}, text)
           points == Places({"point"}, text)
           n == Len(text)
           C == Digits \cup Separators \cup {"minus"}
<1>1. text \in Seq(Characters) /\ DOMAIN text = 1 .. n /\ n \in Nat
  BY DEF Plain
<1>2. /\ commas \subseteq 1 .. n /\ points \subseteq 1 .. n
      /\ Places(Separators, text) = commas \cup points
      /\ commas \cap points = {}
  BY <1>1 DEF Places, Separators
<1>3. ASSUME NEW u, Plain(u, below), \A i \in 1 .. Len(u) : u[i] \in C,
             \A p, q \in Places(Separators, u) : u[p] = u[q]
      PROVE  Plain(Replaced("comma", "point", u), below) /\ Bare(Replaced("comma", "point", u))
  <2> DEFINE v == Replaced("comma", "point", u)
  <2>1. {"comma", "point"} \subseteq Separators
    BY DEF Separators
  <2>2. Plain(v, below)
    BY <1>3, <2>1, ReplacedPlain
  <2>3. u \in Seq(Characters) /\ DOMAIN u = 1 .. Len(u) /\ Len(u) \in Nat
    BY <1>3 DEF Plain
  <2>4. /\ Len(v) = Len(u)
        /\ \A i \in 1 .. Len(u) : v[i] = IF u[i] = "comma" THEN "point" ELSE u[i]
    <3>1. v = [i \in 1 .. Len(u) |-> IF u[i] = "comma" THEN "point" ELSE u[i]]
      BY <2>3 DEF Replaced
    <3> HIDE DEF v
    <3> QED  BY <2>2, <2>3, <3>1 DEF Plain
  <2>5. Bare(v)
    BY <1>3, <2>4 DEF Bare, Separators
  <2> QED  BY <2>2, <2>5
<1>4. CASE commas # {} /\ points # {} /\ \E i \in commas : \A j \in points : i > j
  <2> DEFINE u == Without("point", text)
  <2>1. OnePoint(text) = Replaced("comma", "point", u)
    BY <1>4 DEF OnePoint
  <2>2. PICK l \in commas : \A j \in points : l > j
    BY <1>4
  <2>3. \A i \in points : \E q \in Places(Separators, text) : ~ (q <= i)
    BY <1>2, <2>2
  <2>4. "point" \in Separators
    BY DEF Separators
  <2>5. /\ Plain(u, below)
        /\ \A i \in 1 .. Len(u) : u[i] # "point" /\ \E j \in 1 .. n : u[i] = text[j]
    BY <2>3, <2>4, WithoutPlain
  <2>6. \A i \in 1 .. Len(u) : u[i] \in C
    BY <2>5
  <2> HIDE DEF u
  <2>7. DOMAIN u = 1 .. Len(u)
    BY <2>5 DEF Plain
  <2>8. \A p \in Places(Separators, u) : u[p] = "comma"
    BY <2>5, <2>7 DEF Places, Separators
  <2> QED  BY <1>3, <2>1, <2>5, <2>6, <2>8
<1>5. CASE commas # {} /\ points # {} /\ ~ \E i \in commas : \A j \in points : i > j
  <2> DEFINE u == Without("comma", text)
  <2>1. OnePoint(text) = u
    BY <1>5 DEF OnePoint
  <2>2. ASSUME NEW i \in commas PROVE \E q \in Places(Separators, text) : ~ (q <= i)
    <3>1. PICK j \in points : ~ (i > j)
      BY <1>5
    <3>2. j # i /\ j \in 1 .. n /\ i \in 1 .. n
      BY <1>2
    <3>3. ~ (j <= i)
      BY <1>1, <3>1, <3>2
    <3> QED  BY <1>2, <3>3
  <2>3. "comma" \in Separators
    BY DEF Separators
  <2>4. /\ Plain(u, below)
        /\ \A i \in 1 .. Len(u) : u[i] # "comma" /\ \E j \in 1 .. n : u[i] = text[j]
    BY <2>2, <2>3, WithoutPlain
  <2>5. \A i \in 1 .. Len(u) : u[i] \in C /\ u[i] # "comma"
    BY <2>4
  <2>6. Bare(u)
    BY <2>5 DEF Bare, Separators
  <2> QED  BY <2>1, <2>4, <2>6
<1>6. CASE commas = {} \/ points = {}
  <2>1. OnePoint(text) = Replaced("comma", "point", text)
    BY <1>6 DEF OnePoint
  <2>2. \A p, q \in Places(Separators, text) : text[p] = text[q]
    BY <1>2, <1>6 DEF Places
  <2> QED  BY <1>3, <2>1, <2>2
<1> QED  BY <1>4, <1>5, <1>6

\* The pattern allows it.
LEMMA BareIsAllowed ==
    ASSUME NEW text, NEW below, Plain(text, below), Bare(text)
    PROVE  Allowed(text) /\ (text[1] = "minus" <=> below)
<1> DEFINE n == Len(text)
<1>1. text \in Seq(Characters) /\ DOMAIN text = 1 .. n /\ n \in Nat
  BY DEF Plain
<1>2. PICK g : g \in Places(Digits, text)
  BY DEF Plain
<1>3. g \in 1 .. n /\ text[g] \in Digits /\ n >= 1 /\ text # <<>>
  BY <1>1, <1>2 DEF Places
<1>4. ASSUME NEW i \in 1 .. n, text[i] = "minus" PROVE i = 1
  <2>1. i \in Places(Signs, text) /\ 1 \in 1 .. n
    BY <1>1, <1>4 DEF Places, Signs
  <2>2. 1 \in Places(Signs, text) \/ 1 \in Places(Digits \cup Separators, text)
    BY <1>1, <2>1 DEF Places, Signs, Separators, Bare
  <2>3. i = 1 \/ i < 1
    BY <2>1, <2>2 DEF Plain, SignInFront
  <2> QED  BY <2>3
<1>5. text[1] = "minus" <=> below
  <2>1. ASSUME below PROVE text[1] = "minus"
    <3>1. PICK i : i \in Places({"minus", "dash"}, text)
      BY <2>1 DEF Plain
    <3>2. i \in 1 .. n /\ text[i] = "minus"
      BY <1>1, <3>1, KindsApart DEF Places, Bare, Separators, Signs
    <3> QED  BY <1>4, <3>2
  <2>2. ASSUME text[1] = "minus" PROVE below
    <3>1. 1 \in Places({"minus", "dash"}, text)
      BY <1>1, <1>3, <2>2 DEF Places
    <3> QED  BY <3>1 DEF Plain
  <2> QED  BY <2>1, <2>2 DEF Plain
<1>6. \A i \in Places({"point"}, text) : i \in Places(Separators, text)
  BY DEF Places, Separators
<1>7. ASSUME NEW p \in Places(Separators, text) PROVE text[p] = "point" /\ p \in 1 .. n
  BY <1>1, KindsApart DEF Places, Bare, Signs
<1>8. ASSUME NEW p \in Places(Separators, text)
      PROVE  /\ \A q \in Places(Separators, text) : q = p
             /\ \E i, k \in Places(Digits, text) : i < p /\ p < k
  <2>1. Places(Separators, text) \in SUBSET (1 .. n) /\ Places(Separators, text) # {}
    BY <1>7
  <2>2. PICK l \in Places(Separators, text) : \A i \in Places(Separators, text) : i <= l
    BY <1>1, <2>1, LastPlace
  <2>3. /\ \E i, k \in Places(Digits, text) : i < l /\ l < k
        /\ \A q \in Places(Separators, text) \ {l} : text[q] # text[l]
    BY <2>2 DEF Plain, OneFraction
  <2>4. \A q \in Places(Separators, text) : q = l
    BY <1>7, <2>3
  <2> QED  BY <2>3, <2>4
<1>9. Allowed(text)
  <2> DEFINE first == IF text # <<>> /\ text[1] = "minus" THEN 2 ELSE 1
  <2>1. first \in {1, 2} /\ (first = 2 <=> text[1] = "minus")
    BY <1>3
  <2> HIDE DEF first
  <2>2. ASSUME NEW i \in 1 .. n, text[i] \in Digits PROVE first <= i
    BY <2>1, <2>2, KindsApart DEF Signs
  <2>3. first <= n
    BY <1>1, <1>3, <2>1, <2>2
  <2>4. ASSUME NEW i \in first .. n
        PROVE  \/ text[i] \in Digits
               \/ text[i] = "point" /\ i # first /\ i # n
    <3>1. i \in 1 .. n /\ text[i] # "minus"
      BY <1>1, <1>4, <2>1
    <3>2. text[i] \in Digits \/ text[i] = "point"
      BY <3>1 DEF Bare
    <3>3. ASSUME text[i] = "point" PROVE i # first /\ i # n
      <4>1. i \in Places(Separators, text)
        BY <1>1, <3>1, <3>3 DEF Places, Separators
      <4>2. PICK h \in Places(Digits, text), k \in Places(Digits, text) : h < i /\ i < k
        BY <1>8, <4>1
      <4>3. h \in 1 .. n /\ k \in 1 .. n /\ text[h] \in Digits
        BY <1>1 DEF Places
      <4>4. first <= h
        BY <2>2, <4>3
      <4>5. first \in Nat /\ h \in Nat /\ k \in Nat /\ i \in Nat /\ k <= n
        BY <1>1, <2>1, <3>1, <4>3
      <4>6. first < i /\ i < n
        BY <1>1, <4>2, <4>4, <4>5
      <4>7. n \in Nat
        BY <1>1
      <4> HIDE DEF n
      <4> QED  BY <4>5, <4>6, <4>7
    <3> QED  BY <3>2, <3>3
  <2>5. \A i, j \in Places({"point"}, text) : i = j
    BY <1>6, <1>8
  <2> QED  BY <2>3, <2>4, <2>5 DEF Allowed, first
<1> QED  BY <1>5, <1>9

----------------------------------------------------------------------------
\* parse_amount and format_amount.

\* The minor units a text is read as, without their sign.
Meaning(text, exponent) == Scaled(Number(Normal(text)), Decimals(Normal(text)), exponent)

\* What was parsed is in the text, and what is shown was parsed.
AmountInv ==
    /\ input \in Inputs
    /\ minor \in Int
    /\ Read => /\ Readable(input.text, input.exponent)
               /\ Size(minor) = Meaning(input.text, input.exponent)
               /\ minor < 0 => Negative(input.text)
               /\ minor > 0 => ~ Negative(input.text)
    /\ outcome = "refused" => ~ Readable(input.text, input.exponent)
    /\ outcome = "shown" => shown = FormatAmount(minor, input.exponent)

\* A text's digits are a number, and so many of them stand behind the point.
LEMMA TextCounts ==
    ASSUME NEW text \in Seq(Characters)
    PROVE  Number(text) \in Nat /\ Decimals(text) \in Nat
<1>1. "comma" \in Characters
  BY DEF Characters, Separators
<1> QED  BY <1>1, NumberAdded, DecimalsAdded

\* No sign stands between the digits of a text the pattern allows.
LEMMA AllowedSigns ==
    ASSUME NEW text \in Seq(Characters), Allowed(text)
    PROVE  ~ SignInside(text)
<1> SUFFICES ASSUME NEW i \in Places(Digits, text), NEW k \in Places(Digits, text),
                    NEW j \in i .. k, text[j] \in Signs
             PROVE  FALSE
  BY DEF SignInside
<1>1. i \in 1 .. Len(text) /\ k \in 1 .. Len(text) /\ j \in 1 .. Len(text) /\ i <= j
  BY DEF Places
<1>2. text[j] \notin Digits /\ text[j] # "point"
  BY KindsApart DEF Separators
<1>3. j = 1
  BY <1>1, <1>2 DEF Allowed
<1>4. i = j
  BY <1>1, <1>3
<1> QED  BY <1>2, <1>4 DEF Places

\* What any text is read as.
LEMMA ReadableMeans ==
    ASSUME NEW text \in Seq(Characters), NEW e \in Nat, Readable(text, e)
    PROVE  /\ Meaning(text, e) \in Nat /\ Short(Meaning(text, e))
           /\ Fits(text) => Meaning(text, e) * TenTo(Decimals(text)) = Number(text) * TenTo(e)
           /\ ~ SignInside(text)
<1> DEFINE u == Normal(text)
           n == Number(text)
           d == Decimals(text)
<1>1. SameAmount(text, u)
  BY NormalSame
<1>2. n \in Nat /\ d \in Nat
  BY TextCounts
<1>3. u \in Seq(Characters) /\ Number(u) = n /\ Decimals(u) = d
  BY <1>1 DEF SameAmount
<1>4. Allowed(u) /\ Exact(Number(u), Decimals(u), e)
  BY DEF Readable
<1>5. ~ SignInside(u)
  BY <1>3, <1>4, AllowedSigns
<1>6. ~ SignInside(text)
  BY <1>1, <1>5 DEF SameAmount
<1>7. Meaning(text, e) = Scaled(n, d, e)
  BY <1>3 DEF Meaning
<1>8. Exact(n, d, e)
  BY <1>3, <1>4
<1>9. Fits(text) => n < TenTo(Precision)
  BY DEF Fits
<1> HIDE DEF n, d
<1>10. Scaled(n, d, e) \in Nat /\ Short(Scaled(n, d, e))
  BY <1>2, <1>8, ScaledIsShort
<1>11. Fits(text) => Scaled(n, d, e) * TenTo(d) = n * TenTo(e)
  BY <1>2, <1>8, <1>9, ScaledIsWhole
<1> QED  BY <1>6, <1>7, <1>10, <1>11 DEF n, d

\* A text that means an amount is accepted, and read as that amount.
LEMMA MeantIsRead ==
    ASSUME NEW text \in Seq(Characters), NEW e \in Nat, NEW m, Means(text, e, m), Fits(text)
    PROVE  /\ Readable(text, e)
           /\ Meaning(text, e) \in Nat
           /\ m = IF Negative(text) THEN -Meaning(text, e) ELSE Meaning(text, e)
<1> DEFINE below == Places({"minus", "dash"}, text) # {}
           a == Strip(text)
           b == Unbracketed(a)
           c == Cleaned(b)
           d == WithoutPlus(c)
           u == Normal(text)
           n == Number(text)
           w == Decimals(text)
<1>1. Plain(text, below)
  BY DEF Means, Plain
<1>2. ~ Bracketed(text) => Places({"open"}, text) = {}
  BY DEF Means
<1>3. Bracketed(text) => ~ below
  <2>1. {"minus", "dash"} \subseteq Signs
    BY DEF Signs
  <2>2. Places({"minus", "dash"}, text) \subseteq Places(Signs, text)
    BY <2>1 DEF Places
  <2> QED  BY <2>2 DEF Means
<1>4. BelowZero(text) <=> below \/ Bracketed(text)
  BY DEF BelowZero
<1>5. SameAmount(text, u)
  BY NormalSame
<1>6. n \in Nat /\ w \in Nat
  BY TextCounts
<1>7. /\ w <= e
      /\ m = IF BelowZero(text) THEN -(n * TenTo(e - w)) ELSE n * TenTo(e - w)
      /\ n < TenTo(Precision)
  BY DEF Means, Fits
<1>8. Number(u) = n /\ Decimals(u) = w
  BY <1>5 DEF SameAmount
<1>9. u = OnePoint(d)
  BY DEF Normal
<1> HIDE DEF below, u, n, w
<1>10. (Bracketed(a) <=> Bracketed(text)) /\ Plain(b, below)
  BY <1>1, <1>2, UnbracketedPlain
<1>11. Plain(a, below)
  BY <1>1, StripPlain
<1> HIDE DEF a, b, c, d
<1>12. /\ Plain(c, below)
       /\ \A i \in 1 .. Len(c) : c[i] \in Digits \cup Separators \cup {"minus", "plus"}
  BY <1>10, CleanedPlain DEF c
<1>13. /\ Plain(d, below)
       /\ \A i \in 1 .. Len(d) : d[i] \in Digits \cup Separators \cup {"minus"}
  BY <1>12, WithoutPlusPlain DEF d
<1>14. Plain(u, below) /\ Bare(u)
  BY <1>9, <1>13, OnePointPlain
<1>15. Allowed(u) /\ (u[1] = "minus" <=> below)
  BY <1>14, BareIsAllowed
<1>16. a # <<>>
  BY <1>11 DEF Plain, Places
<1>17. Exact(n, w, e)
  BY <1>6, <1>7 DEF Exact
<1>18. Readable(text, e)
  BY <1>8, <1>15, <1>16, <1>17 DEF Readable, a, u
<1>19. Meaning(text, e) = n * TenTo(e - w)
  <2>1. Rounded(n) = n
    BY <1>6, <1>7, RoundedFits
  <2>2. ~ (w > e)
    BY <1>6, <1>7
  <2>3. Scaled(n, w, e) = Rounded(n) * TenTo(e - w)
    BY <2>2 DEF Scaled
  <2> QED  BY <1>8, <2>1, <2>3 DEF Meaning, u
<1>20. n * TenTo(e - w) \in Nat
  <2>1. e - w \in Nat
    BY <1>6, <1>7
  <2>2. TenTo(e - w) \in Nat
    BY <2>1, TenGrows
  <2> QED  BY <1>6, <2>2
<1>21. Negative(text) <=> BelowZero(text)
  <2>1. Negative(text) <=> ~ (u[1] = "minus" <=> Bracketed(a))
    BY DEF Negative, u, a
  <2> QED  BY <1>3, <1>4, <1>10, <1>15, <2>1
<1> QED  BY <1>7, <1>18, <1>19, <1>20, <1>21

\* The input is a text of a currency with some exponent.
LEMMA InputIsText ==
    ASSUME input \in Inputs
    PROVE  input.text \in Seq(Characters) /\ input.exponent \in Nat
<1>1. input.text \in Seq(Characters) /\ input.exponent \in Exponents
  BY InputsAreTexts
<1>2. input.exponent \in {0, 2, 3}
  BY <1>1, ExponentsAreISO
<1> QED  BY <1>1, <1>2

\* Nothing has been read at first.
LEMMA AmountInitInv == AmountInit => AmountInv
BY DEF AmountInit, AmountInv, Read

\* What parse_amount returns is what the text reads as.
LEMMA ParseAmountInv ==
    ASSUME AmountInv, ParseAmount
    PROVE  AmountInv'
<1> DEFINE n == Meaning(input.text, input.exponent)
<1>1. Readable(input.text, input.exponent) /\ input \in Inputs
  BY DEF ParseAmount, AmountInv
<1>2. n \in Nat
  BY <1>1, InputIsText, ReadableMeans
<1>3. minor' = IF Negative(input.text) THEN -n ELSE n
  BY DEF ParseAmount, Meaning
<1>4. input' = input /\ outcome' = "parsed"
  BY DEF ParseAmount
<1>5. n' = n
  BY <1>4
<1> HIDE DEF n
<1>6. /\ minor' \in Int /\ Size(minor') = n
      /\ minor' < 0 => Negative(input.text)
      /\ minor' > 0 => ~ Negative(input.text)
  BY <1>2, <1>3 DEF Size
<1>7. Size(minor)' = Size(minor')
  BY DEF Size
<1>8. (Size(minor) = Meaning(input.text, input.exponent))'
  BY <1>5, <1>6, <1>7 DEF n
<1> QED  BY <1>1, <1>4, <1>6, <1>8 DEF AmountInv, Read

\* Printing and refusing read nothing.
LEMMA AmountNextInv == AmountInv /\ [AmountNext]_amountVars => AmountInv'
<1> SUFFICES ASSUME AmountInv, [AmountNext]_amountVars
             PROVE  AmountInv'
  OBVIOUS
<1>1. CASE ParseAmount
  BY <1>1, ParseAmountInv
<1>2. CASE Refuse
  BY <1>2 DEF Refuse, AmountInv, Read
<1>3. CASE Show
  BY <1>3 DEF Show, AmountInv, Read
<1>4. CASE UNCHANGED amountVars
  BY <1>4 DEF amountVars, AmountInv, Read
<1> QED  BY <1>1, <1>2, <1>3, <1>4 DEF AmountNext

\* What the invariant says of every amount that is read or shown.
LEMMA AmountInvKeeps ==
    ASSUME AmountInv
    PROVE  DigitsKept /\ ShownReadsBack
<1>1. input \in Inputs /\ minor \in Int
  BY DEF AmountInv
<1>2. input.text \in Seq(Characters) /\ input.exponent \in Nat
  BY <1>1, InputIsText
<1>3. ASSUME Read
      PROVE  /\ Fits(input.text) =>
                   Size(minor) * TenTo(Decimals(input.text))
                       = Number(input.text) * TenTo(input.exponent)
             /\ ~ SignInside(input.text)
             /\ Short(Size(minor))
  <2>1. /\ Readable(input.text, input.exponent)
        /\ Size(minor) = Meaning(input.text, input.exponent)
    BY <1>3 DEF AmountInv
  <2> QED  BY <1>2, <2>1, ReadableMeans
<1>4. DigitsKept
  BY <1>3 DEF DigitsKept
<1>5. ASSUME outcome = "shown"
      PROVE  /\ Readable(shown, input.exponent)
             /\ Scaled(Number(Normal(shown)), Decimals(Normal(shown)), input.exponent)
                    = Size(minor)
             /\ Negative(shown) <=> minor < 0
             /\ Decimals(shown) = input.exponent
  <2>1. shown = FormatAmount(minor, input.exponent)
    BY <1>5 DEF AmountInv
  <2>2. Short(Size(minor))
    BY <1>3, <1>5 DEF Read
  <2> QED  BY <1>1, <1>2, <2>1, <2>2, FormatIsRead
<1> QED  BY <1>4, <1>5 DEF ShownReadsBack

\* Nothing is rounded that fits the context, no digit is lost, and no sign
\* stands among them, in any text whatsoever.
THEOREM DigitsAreKept == AmountSpec => []DigitsKept
<1>1. AmountInit => AmountInv
  BY AmountInitInv
<1>2. AmountInv /\ [AmountNext]_amountVars => AmountInv'
  BY AmountNextInv
<1>3. AmountInv => DigitsKept
  BY AmountInvKeeps
<1> QED  BY <1>1, <1>2, <1>3, PTL DEF AmountSpec

\* Every amount that was read is printed so that it is read again as the same.
THEOREM ShownIsReadBack == AmountSpec => []ShownReadsBack
<1>1. AmountInit => AmountInv
  BY AmountInitInv
<1>2. AmountInv /\ [AmountNext]_amountVars => AmountInv'
  BY AmountNextInv
<1>3. AmountInv => ShownReadsBack
  BY AmountInvKeeps
<1> QED  BY <1>1, <1>2, <1>3, PTL DEF AmountSpec

\* What the invariant says of the texts that leave no doubt.
LEMMA AmountInvReads == AmountInv => ReadAsMeant
<1> SUFFICES ASSUME AmountInv, input.clear, Fits(input.text)
             PROVE  outcome # "refused" /\ (Read => minor = input.meant)
  BY DEF ReadAsMeant
<1> DEFINE n == Meaning(input.text, input.exponent)
<1>1. input \in Inputs /\ minor \in Int
  BY DEF AmountInv
<1>2. input.text \in Seq(Characters) /\ input.exponent \in Nat
  BY <1>1, InputIsText
<1>3. Means(input.text, input.exponent, input.meant)
  BY <1>1, ClearTextsMean
<1>4. /\ Readable(input.text, input.exponent)
      /\ n \in Nat
      /\ input.meant = IF Negative(input.text) THEN -n ELSE n
  BY <1>2, <1>3, MeantIsRead
<1>5. outcome # "refused"
  BY <1>4 DEF AmountInv
<1>6. ASSUME Read PROVE minor = input.meant
  <2>1. Size(minor) = n
    BY <1>6 DEF AmountInv
  <2>2. (minor < 0 => Negative(input.text)) /\ (minor > 0 => ~ Negative(input.text))
    BY <1>6 DEF AmountInv
  <2> HIDE DEF n
  <2> QED  BY <1>1, <1>4, <2>1, <2>2 DEF Size
<1> QED  BY <1>5, <1>6

\* Every amount that is printed without ambiguity is accepted, and becomes the
\* amount that was meant, whatever its digits, groups, sign and currency.
THEOREM ClearIsReadAsMeant == AmountSpec => []ReadAsMeant
<1>1. AmountInit => AmountInv
  BY AmountInitInv
<1>2. AmountInv /\ [AmountNext]_amountVars => AmountInv'
  BY AmountNextInv
<1>3. AmountInv => ReadAsMeant
  BY AmountInvReads
<1> QED  BY <1>1, <1>2, <1>3, PTL DEF AmountSpec

=============================================================================
