--------------------------- MODULE ReconcileProofs ---------------------------
(***************************************************************************)
(* Proofs about Reconcile for any files: over statements of separate       *)
(* periods the breaks of the chain are the rows that were misread, and the *)
(* collisions printed are the rows that repeat an earlier one, since the   *)
(* key of a text keeps its words and nothing else.                         *)
(***************************************************************************)
EXTENDS Reconcile, FiniteInduction, SequenceTheorems

----------------------------------------------------------------------------
(* The inductive invariant. *)

EntryRecords == [account : Accounts, row : Nat, tx : Rows]

Files == [stem : Stems, readable : BOOLEAN, rows : Seq(Rows)]

\* The report of the chain of account a.
ChainOf(a) == [count |-> Cardinality(Breaks(a)),
               first |-> {e \in Breaks(a) : \A d \in Breaks(a) \ {e} : Earlier(e, d)}]

\* What is collected are entries; the files are sequences of rows.
Collected == files \in Seq(Files) /\ entries \in Seq(EntryRecords)

\* The report is about the entries as they are.
Reported ==
    /\ phase \in Phases
    /\ phase \in {"collect", "failed"} => DOMAIN report = {}
    /\ \A a \in DOMAIN report : report[a] = ChainOf(a)
    /\ phase \in {"collisions", "done"} => DOMAIN report = WithBalance

\* The entries that have the key of an earlier one, among the first n.
Repeats(n) == {e \in 1..n : \E d \in 1 .. e - 1 : Key(d) = Key(e)}

\* What is seen are the keys of the entries looked up.
LookedUp ==
    /\ place \in 0..Len(entries)
    /\ phase \in {"collect", "chains", "failed"} => place = 0
    /\ phase = "done" => place = Len(entries)
    /\ seen = {Key(d) : d \in 1..place}
    /\ collisions = Cardinality(Repeats(place))

ReconcileInv == Collected /\ Reported /\ LookedUp

LEMMA ReconcileInitHolds == ASSUME Init PROVE ReconcileInv
<1>1. Collected
  <2>1. files \in Seq(Files)
    BY InputsAreLists DEF Init, Files
  <2> QED  BY <2>1 DEF Init, Collected
<1>2. Reported
  BY DEF Init, Reported, Phases
<1>3. LookedUp
  <2>1. 1..0 = {} /\ Repeats(0) = {}
    BY DEF Repeats
  <2>2. place \in 0..Len(entries) /\ place = 0
    BY DEF Init
  <2>3. seen = {Key(d) : d \in 1..place}
    BY <2>1, <2>2 DEF Init
  <2>4. collisions = Cardinality(Repeats(place))
    BY <2>1, <2>2, FS_EmptySet DEF Init
  <2> QED  BY <2>2, <2>3, <2>4 DEF Init, LookedUp
<1> QED  BY <1>1, <1>2, <1>3 DEF ReconcileInv

\* What is said of the entries depends on nothing else.
LEMMA SameEntries ==
    ASSUME UNCHANGED entries
    PROVE  /\ \A a : OfAccount(a)' = OfAccount(a)
           /\ WithBalance' = WithBalance
           /\ \A a : ChainOf(a)' = ChainOf(a)
           /\ \A e : Key(e)' = Key(e)
           /\ \A n : Repeats(n)' = Repeats(n)
<1>1. \A a : OfAccount(a)' = OfAccount(a)
  BY DEF OfAccount
<1>2. WithBalance' = WithBalance
  BY <1>1 DEF WithBalance
<1>3. \A d, e : Earlier(d, e)' <=> Earlier(d, e)
  BY DEF Earlier
<1>4. \A a : Neighbours(a)' = Neighbours(a)
  BY <1>1, <1>3 DEF Neighbours
<1>5. \A a : Breaks(a)' = Breaks(a)
  BY <1>4 DEF Breaks
<1>6. \A a : ChainOf(a)' = ChainOf(a)
  BY <1>3, <1>5 DEF ChainOf
<1>7. \A e : Key(e)' = Key(e)
  BY DEF Key
<1>8. \A n : Repeats(n)' = Repeats(n)
  BY <1>7 DEF Repeats
<1> QED  BY <1>1, <1>2, <1>6, <1>7, <1>8

\* A file adds entries, nothing else does.
LEMMA CollectedStep == ASSUME Collected, [Next]_vars PROVE Collected'
<1>1. CASE Collect
  <2> DEFINE f == Head(files)
             new == [r \in DOMAIN f.rows |-> Entry(f, r)]
  <2>1. f \in Files /\ files' \in Seq(Files)
    BY <1>1, HeadTailProperties DEF Collect, Collected
  <2>2. f.rows \in Seq(Rows) /\ f.stem \in Stems
    BY <2>1 DEF Files
  <2>3. new \in Seq(EntryRecords)
    <3>1. Len(f.rows) \in Nat /\ DOMAIN f.rows = 1..Len(f.rows)
      BY <2>2
    <3>2. ASSUME NEW r \in 1..Len(f.rows) PROVE Entry(f, r) \in EntryRecords
      <4>1. f.rows[r] \in Rows
        BY <2>2, <3>2
      <4>2. f.rows[r].card \in Cards \cup {NoCard}
        BY <4>1 DEF Rows
      <4> QED  BY <2>2, <4>1, <4>2 DEF Entry, EntryRecords, Accounts
    <3> HIDE DEF f
    <3> QED  BY <3>1, <3>2
  <2> HIDE DEF new
  <2>4. entries' = entries \o new
    BY <1>1 DEF Collect, new
  <2> QED  BY <2>1, <2>3, <2>4, ConcatProperties DEF Collected
<1>2. CASE UNCHANGED <<files, entries>>
  BY <1>2 DEF Collected
<1> QED  BY <1>1, <1>2 DEF Next, vars, GiveUp, StartChecks, CheckChain, StartCollisions, LookUp, Finish

\* Each account is reported once, by the chain it has when all is collected.
LEMMA ReportedStep == ASSUME Reported, [Next]_vars PROVE Reported'
<1>1. CASE Collect
  BY <1>1 DEF Collect, Reported
<1>2. CASE GiveUp \/ StartChecks
  BY <1>2 DEF GiveUp, StartChecks, Reported, Phases
<1>3. CASE UNCHANGED entries /\ UNCHANGED report /\ phase \notin {"collect", "failed"}
  <2>1. WithBalance' = WithBalance /\ \A a : ChainOf(a)' = ChainOf(a)
    BY <1>3, SameEntries
  <2>2. /\ phase' \in Phases /\ phase' \notin {"collect", "failed"}
        /\ phase' \in {"collisions", "done"} => DOMAIN report = WithBalance
    BY <1>3 DEF Reported, Phases, Next, vars, Collect, GiveUp, StartChecks, CheckChain,
                StartCollisions, LookUp, Finish
  <2> QED  BY <1>3, <2>1, <2>2 DEF Reported
<1>4. ASSUME NEW a \in WithBalance, CheckChain(a) PROVE Reported'
  <2>1. WithBalance' = WithBalance /\ \A b : ChainOf(b)' = ChainOf(b)
    BY <1>4, SameEntries DEF CheckChain
  <2>2. report' = [b \in DOMAIN report \cup {a} |-> IF b # a THEN report[b] ELSE ChainOf(a)]
    BY <1>4 DEF CheckChain, ChainOf
  <2>3. phase' = "chains"
    BY <1>4 DEF CheckChain
  <2> QED  BY <2>1, <2>2, <2>3 DEF Reported, Phases
<1>5. CASE UNCHANGED vars
  <2>1. WithBalance' = WithBalance /\ \A b : ChainOf(b)' = ChainOf(b)
    BY <1>5, SameEntries DEF vars
  <2> QED  BY <1>5, <2>1 DEF Reported, vars
<1> QED  BY <1>1, <1>2, <1>3, <1>4, <1>5 DEF Next, StartCollisions, LookUp, Finish

\* Looking an entry up finds out whether an earlier one has its key.
LEMMA LookedUpStep == ASSUME Collected, LookedUp, [Next]_vars PROVE LookedUp'
<1>1. 1..0 = {} /\ Repeats(0) = {} /\ Repeats(0)' = {}
  BY DEF Repeats
<1>2. Len(entries) \in Nat /\ Len(entries') \in Nat
  BY CollectedStep DEF Collected
<1>3. CASE Collect \/ GiveUp \/ StartChecks
  <2>1. /\ UNCHANGED <<place, seen, collisions>> /\ place = 0
        /\ phase' \in {"collect", "chains", "failed"}
    BY <1>3 DEF Collect, GiveUp, StartChecks, LookedUp
  <2>2. seen' = {} /\ collisions' = 0
    BY <1>1, <2>1, FS_EmptySet DEF LookedUp
  <2>3. place' \in 0..Len(entries') /\ place' = 0
    BY <1>2, <2>1
  <2>4. {Key(d) : d \in 1..place}' = {}
    BY <1>1, <2>3
  <2>5. Cardinality(Repeats(place))' = 0
    <3>1. Repeats(place)' = {}
      BY <2>3 DEF Repeats
    <3> QED  BY <3>1, FS_EmptySet
  <2> QED  BY <2>1, <2>2, <2>3, <2>4, <2>5 DEF LookedUp
<1>4. CASE /\ UNCHANGED <<entries, place, seen, collisions>>
           /\ phase' \in {"collect", "chains", "failed"} => phase' = phase
           /\ phase' = "done" => phase = "done" \/ place = Len(entries)
  <2>1. (\A e : Key(e)' = Key(e)) /\ \A n : Repeats(n)' = Repeats(n)
    BY <1>4, SameEntries
  <2> QED  BY <1>4, <2>1 DEF LookedUp
<1>5. CASE LookUp
  <2> DEFINE p == place + 1
  <2>1. (\A e : Key(e)' = Key(e)) /\ \A n : Repeats(n)' = Repeats(n)
    BY <1>5, SameEntries DEF LookUp
  <2>2. place \in Nat /\ place < Len(entries) /\ place' = p /\ entries' = entries
        /\ phase' = phase /\ phase = "collisions"
    BY <1>2, <1>5 DEF LookUp, LookedUp
  <2>3. 1..p = (1..place) \cup {p} /\ p \notin 1..place /\ 1 .. p - 1 = 1..place
    BY <2>2
  <2>4. Key(p) \in seen <=> \E d \in 1 .. p - 1 : Key(d) = Key(p)
    BY <2>3 DEF LookedUp
  <2>5. Repeats(p) = Repeats(place) \cup (IF Key(p) \in seen THEN {p} ELSE {})
    BY <2>3, <2>4 DEF Repeats
  <2>6. p \notin Repeats(place) /\ IsFiniteSet(Repeats(place))
    <3>1. IsFiniteSet(1..place) /\ Repeats(place) \in SUBSET (1..place)
      BY <2>2, FS_Interval DEF Repeats
    <3> QED  BY <2>3, <3>1, FS_Subset
  <2>7. seen' = {Key(d) : d \in 1..p}
    <3>1. {Key(d) : d \in 1..p} = {Key(d) : d \in 1..place} \cup {Key(p)}
      BY <2>3
    <3>2. seen' = seen \cup {Key(p)}
      BY <1>5, <2>2 DEF LookUp
    <3> QED  BY <3>1, <3>2 DEF LookedUp
  <2>8. collisions' = Cardinality(Repeats(p))
    <3>1. CASE Key(p) \in seen
      BY <1>5, <2>2, <2>5, <2>6, <3>1, FS_AddElement DEF LookUp, LookedUp
    <3>2. CASE Key(p) \notin seen
      BY <1>5, <2>2, <2>5, <3>2 DEF LookUp, LookedUp
    <3> QED  BY <3>1, <3>2
  <2>9. place' \in 0..Len(entries')
    BY <1>2, <2>2
  <2>10. {Key(d) : d \in 1..place}' = {Key(d) : d \in 1..p}
    BY <2>1, <2>2
  <2>11. Repeats(place)' = Repeats(p)
    BY <2>1, <2>2
  <2> QED  BY <2>2, <2>7, <2>8, <2>9, <2>10, <2>11 DEF LookedUp
<1> QED  BY <1>3, <1>4, <1>5 DEF Next, vars, CheckChain, StartCollisions, Finish

LEMMA ReconcileInvariant == Spec => []ReconcileInv
<1>1. Init => ReconcileInv
  BY ReconcileInitHolds
<1>2. ReconcileInv /\ [Next]_vars => ReconcileInv'
  BY CollectedStep, ReportedStep, LookedUpStep DEF ReconcileInv
<1> QED  BY <1>1, <1>2, PTL DEF Spec

----------------------------------------------------------------------------
(* The chain of balances. *)

\* What an entry is made of.
LEMMA EntryType ==
    ASSUME Collected, NEW e \in DOMAIN entries
    PROVE  /\ e \in Nat /\ entries[e].account \in Accounts /\ entries[e].row \in Nat
           /\ Tx(e).op \in Nat /\ Tx(e).at \in Nat
           /\ Tx(e).charged \in Int /\ Tx(e).amount \in Int
           /\ Tx(e).balance \in Int \cup {NoBalance}
           /\ Tx(e).description \in Descriptions
<1>1. entries[e] \in EntryRecords /\ e \in Nat
  BY DEF Collected
<1>2. entries[e].tx \in Rows
  BY <1>1 DEF EntryRecords
<1> QED  BY <1>1, <1>2 DEF EntryRecords, Rows, Tx

\* Over statements of separate periods the sort brings back the order of the
\* history.
LEMMA SortedAsHistory ==
    ASSUME Collected, NewestFirst, NEW d \in DOMAIN entries, NEW e \in DOMAIN entries
    PROVE  /\ Tx(d).op = Tx(e).op => d = e
           /\ Earlier(d, e) <=> Tx(d).op < Tx(e).op
<1>1. /\ d \in Nat /\ e \in Nat /\ entries[d].row \in Nat /\ entries[e].row \in Nat
      /\ Tx(d).op \in Nat /\ Tx(d).at \in Nat /\ Tx(e).op \in Nat /\ Tx(e).at \in Nat
  BY EntryType
<1>2. Tx(d).op <= Tx(e).op =>
        /\ Tx(d).at <= Tx(e).at
        /\ Tx(d).at = Tx(e).at /\ d # e => entries[d].row > entries[e].row /\ d > e
  BY DEF NewestFirst
<1>3. Tx(e).op <= Tx(d).op =>
        /\ Tx(e).at <= Tx(d).at
        /\ Tx(e).at = Tx(d).at /\ d # e => entries[e].row > entries[d].row /\ e > d
  BY DEF NewestFirst
<1>4. Earlier(d, e) <=>
        \/ Tx(d).at < Tx(e).at
        \/ /\ Tx(d).at = Tx(e).at
           /\ \/ entries[d].row > entries[e].row
              \/ entries[d].row = entries[e].row /\ d < e
  BY DEF Earlier, Tx
<1>5. Tx(d).op = Tx(e).op => d = e
  BY <1>1, <1>2, <1>3
<1>6. CASE d = e
  BY <1>1, <1>4, <1>6
<1>7. CASE d # e
  BY <1>1, <1>2, <1>3, <1>4, <1>5, <1>7
<1> QED  BY <1>5, <1>6, <1>7

\* A row that has a row of its account before it has one just before it.
LEMMA JustBefore ==
    ASSUME Collected, NewestFirst, NEW a, NEW e \in OfAccount(a), NEW c \in OfAccount(a),
           Tx(c).op < Tx(e).op
    PROVE  \E d \in OfAccount(a) : <<d, e>> \in Neighbours(a)
<1> DEFINE T == {d \in OfAccount(a) : Tx(d).op < Tx(e).op}
           R == {p \in T \X T : Tx(p[2]).op < Tx(p[1]).op}
<1>1. OfAccount(a) \in SUBSET DOMAIN entries
  BY DEF OfAccount
<1>2. \A d \in OfAccount(a) : Tx(d).op \in Nat
  BY <1>1, EntryType
<1>3. IsFiniteSet(T)
  <2>1. Len(entries) \in Nat /\ DOMAIN entries = 1..Len(entries)
    BY DEF Collected
  <2>2. IsFiniteSet(DOMAIN entries)
    BY <2>1, FS_Interval
  <2> QED  BY <1>1, <2>2, FS_Subset
<1>4. PICK d \in T : \A x \in T : <<x, d>> \notin R
  <2>1. T # {} /\ \A x \in T : <<x, x>> \notin R
    BY <1>2
  <2>2. \A x, y, z \in T : <<x, y>> \in R /\ <<y, z>> \in R => <<x, z>> \in R
    BY <1>2
  <2> HIDE DEF T, R
  <2> QED  BY <1>3, <2>1, <2>2, FiniteMinimum
<1>5. ASSUME NEW x \in OfAccount(a), Earlier(d, x), Earlier(x, e) PROVE FALSE
  <2>1. Tx(d).op < Tx(x).op /\ Tx(x).op < Tx(e).op
    BY <1>1, <1>5, SortedAsHistory
  <2>2. x \in T /\ <<x, d>> \in R
    BY <2>1
  <2> QED  BY <1>4, <2>2
<1>6. Earlier(d, e)
  BY <1>1, SortedAsHistory
<1> QED  BY <1>5, <1>6 DEF Neighbours

\* Over true balances a row continues the one before it just when it was read
\* with the amount charged.
LEMMA ContinuesWhenReadRight ==
    ASSUME Collected, NewestFirst, BalancesTrue, NEW a \in Accounts,
           NEW d \in OfAccount(a), NEW e \in OfAccount(a), <<d, e>> \in Neighbours(a)
    PROVE  /\ Tx(d).op < Tx(e).op
           /\ Tx(e).balance - Tx(e).amount # Tx(d).balance <=> Tx(e).amount # Tx(e).charged
<1>1. OfAccount(a) \in SUBSET DOMAIN entries
  BY DEF OfAccount
<1>2. Tx(d).op < Tx(e).op
  <2>1. Earlier(d, e)
    BY DEF Neighbours
  <2> QED  BY <1>1, <2>1, SortedAsHistory
<1>3. ASSUME NEW c \in OfAccount(a), Tx(c).op < Tx(e).op PROVE Tx(c).op <= Tx(d).op
  <2>1. ~ (Earlier(d, c) /\ Earlier(c, e))
    BY DEF Neighbours
  <2>2. ~ (Tx(d).op < Tx(c).op)
    BY <1>1, <1>3, <2>1, SortedAsHistory
  <2>3. Tx(c).op \in Nat /\ Tx(d).op \in Nat
    BY <1>1, EntryType
  <2> QED  BY <2>2, <2>3
<1>4. Tx(e).balance = Tx(d).balance + Tx(e).charged
  BY <1>2, <1>3 DEF BalancesTrue
<1>5. /\ Tx(e).balance \in Int /\ Tx(d).balance \in Int
      /\ Tx(e).charged \in Int /\ Tx(e).amount \in Int
  BY <1>1, EntryType DEF BalancesTrue
<1> QED  BY <1>2, <1>4, <1>5

\* So the breaks are the misread rows.
LEMMA BreaksOfChain ==
    ASSUME Collected, NewestFirst, BalancesTrue, NEW a \in Accounts
    PROVE  Breaks(a) = Misread(a)
<1>1. ASSUME NEW e \in Breaks(a) PROVE e \in Misread(a)
  <2>1. PICK p \in Neighbours(a) :
            /\ Tx(p[2]).balance - Tx(p[2]).amount # Tx(p[1]).balance
            /\ e = p[2]
    BY DEF Breaks, Tx
  <2>2. p[1] \in OfAccount(a) /\ p[2] \in OfAccount(a) /\ <<p[1], p[2]>> \in Neighbours(a)
    BY DEF Neighbours
  <2>3. Tx(p[1]).op < Tx(e).op /\ Tx(e).amount # Tx(e).charged
    BY <2>1, <2>2, ContinuesWhenReadRight
  <2> QED  BY <2>1, <2>2, <2>3 DEF Misread
<1>2. ASSUME NEW e \in Misread(a) PROVE e \in Breaks(a)
  <2>1. PICK c \in OfAccount(a) : Tx(c).op < Tx(e).op
    BY DEF Misread
  <2>2. e \in OfAccount(a) /\ Tx(e).amount # Tx(e).charged
    BY DEF Misread
  <2>3. PICK d \in OfAccount(a) : <<d, e>> \in Neighbours(a)
    BY <2>1, <2>2, JustBefore
  <2>4. Tx(e).balance - Tx(e).amount # Tx(d).balance
    BY <2>2, <2>3, ContinuesWhenReadRight
  <2> QED  BY <2>3, <2>4 DEF Breaks, Tx
<1> QED  BY <1>1, <1>2

\* The chain shows the errors of the parser: over statements of separate
\* periods and true balances the breaks counted are the rows misread, and
\* the first one printed is the earliest of them (reconcile.py:55-90).
THEOREM ChainShowsMisreads == Spec => []BreaksAreMisreads
<1>1. ASSUME ReconcileInv PROVE BreaksAreMisreads
  <2> SUFFICES ASSUME phase \in {"collisions", "done"}, NewestFirst, BalancesTrue,
                      NEW a \in WithBalance
               PROVE  /\ report[a].count = Cardinality(Misread(a))
                      /\ report[a].first =
                             {e \in Misread(a) : \A d \in Misread(a) : Tx(e).op <= Tx(d).op}
    BY DEF BreaksAreMisreads
  <2> USE DEF ReconcileInv
  <2>1. a \in Accounts /\ report[a] = ChainOf(a)
    BY <1>1 DEF WithBalance, Reported
  <2>2. Breaks(a) = Misread(a)
    BY <1>1, <2>1, BreaksOfChain
  <2>3. Misread(a) \in SUBSET DOMAIN entries
    BY DEF Misread, OfAccount
  <2>4. ASSUME NEW e \in Misread(a), NEW d \in Misread(a)
        PROVE  (d # e => Earlier(e, d)) <=> Tx(e).op <= Tx(d).op
    <3>1. Tx(e).op \in Nat /\ Tx(d).op \in Nat
      BY <1>1, <2>3, EntryType
    <3>2. Tx(d).op = Tx(e).op => d = e
      BY <1>1, <2>3, SortedAsHistory
    <3>3. Earlier(e, d) <=> Tx(e).op < Tx(d).op
      BY <1>1, <2>3, SortedAsHistory
    <3> QED  BY <3>1, <3>2, <3>3
  <2>5. {e \in Misread(a) : \A d \in Misread(a) \ {e} : Earlier(e, d)}
            = {e \in Misread(a) : \A d \in Misread(a) : Tx(e).op <= Tx(d).op}
    BY <2>4
  <2> QED  BY <2>1, <2>2, <2>5 DEF ChainOf
<1> QED  BY <1>1, ReconcileInvariant, PTL

----------------------------------------------------------------------------
(* Sequences that grow at the end. *)

\* Adding at the end.
LEMMA Added ==
    ASSUME NEW V, NEW s \in Seq(V), NEW x \in V
    PROVE  /\ Append(s, x) \in Seq(V)
           /\ Len(Append(s, x)) = Len(s) + 1
           /\ Append(s, x)[Len(s) + 1] = x
           /\ \A k \in 1..Len(s) : Append(s, x)[k] = s[k]
           /\ Front(Append(s, x)) = s
           /\ Last(Append(s, x)) = x
<1>1. /\ Append(s, x) \in Seq(V) /\ Len(Append(s, x)) = Len(s) + 1
      /\ Append(s, x)[Len(s) + 1] = x
      /\ \A k \in 1..Len(s) : Append(s, x)[k] = s[k]
  BY AppendProperties
<1>2. Last(Append(s, x)) = x
  BY <1>1 DEF Last
<1>3. Front(Append(s, x)) = s
  BY <1>1 DEF Front
<1> QED  BY <1>1, <1>2, <1>3

\* FlattenSeq joins the texts of a sequence one after another.
Flattens(f, ss) == f[0] = <<>> /\ \A k \in 1..Len(ss) : f[k] = f[k - 1] \o ss[k]

\* FlattenSeq is such a function's last value.
LEMMA Flattened ==
    ASSUME NEW V, NEW ss \in Seq(Seq(V))
    PROVE  \E f \in [0..Len(ss) -> Seq(V)] : Flattens(f, ss) /\ FlattenSeq(ss) = f[Len(ss)]
<1> DEFINE n == Len(ss)
           step == [p \in (1..n) \X Seq(V) |-> p[2] \o ss[p[1]]]
<1>1. n \in Nat
  OBVIOUS
<1>7. <<>> \in Seq(V) /\ \A k \in 1..n : ss[k] \in Seq(V)
  OBVIOUS
<1>2. ASSUME NEW k \in 1..n, NEW v \in Seq(V)
      PROVE  step[<<k, v>>] = v \o ss[k] /\ step[<<k, v>>] \in Seq(V)
  <2>1. step[<<k, v>>] = v \o ss[k]
    OBVIOUS
  <2> QED  BY <1>7, <2>1, ConcatProperties
<1> HIDE DEF step, n
<1>3. PICK f \in [0..n -> Seq(V)] : Recurs(f, n, <<>>, step)
  <2> DEFINE W == Seq(V)
  <2>1. <<>> \in W /\ \A k \in 1..n : \A v \in W : step[<<k, v>>] \in W
    BY <1>2, <1>7
  <2> HIDE DEF W
  <2>2. SomeRecurs(n, W, <<>>, step)
    BY <1>1, <2>1, RecursionUpTo
  <2> QED  BY <2>2 DEF SomeRecurs, W
<1>4. ASSUME NEW k \in 1..n PROVE f[k] = f[k - 1] \o ss[k]
  <2>1. k - 1 \in 0..n
    BY <1>1
  <2> QED  BY <1>2, <1>3, <2>1 DEF Recurs
<1>8. f[0] = <<>>
  BY <1>3 DEF Recurs
<1>5. Flattens(f, ss)
  BY <1>3, <1>4 DEF Recurs, Flattens, n
<1>6. FlattenSeq(ss) = f[n]
  <2>1. CASE n = 0
    BY <1>3, <2>1 DEF Recurs, FlattenSeq, n
  <2>2. CASE n # 0
    <3> DEFINE Body(g) == [i \in 1..n |-> IF i = 1 THEN ss[i] ELSE g[i - 1] \o ss[i]]
               flat == CHOOSE g : g = Body(g)
    <3>1. FlattenSeq(ss) = flat[n]
      BY <2>2 DEF FlattenSeq, n
    <3> DEFINE h == [i \in 1..n |-> f[i]]
    <3>2. h = Body(h)
      <4>1. ASSUME NEW i \in 1..n
            PROVE  h[i] = IF i = 1 THEN ss[i] ELSE h[i - 1] \o ss[i]
        <5>1. f[i] = f[i - 1] \o ss[i]
          BY <1>4
        <5>2. CASE i = 1
          <6>3. f[i - 1] = <<>>
            BY <1>8, <5>2
          <6>1. f[i] = <<>> \o ss[i] /\ ss[i] \in Seq(V)
            BY <1>7, <5>1, <6>3
          <6>2. f[i] = ss[i]
            BY <6>1, ConcatEmptySeq
          <6> QED  BY <5>2, <6>2
        <5>3. CASE i # 1
          <6>1. i - 1 \in 1..n
            BY <1>1, <5>3
          <6> QED  BY <5>1, <5>3, <6>1
        <5> QED  BY <5>2, <5>3
      <4> HIDE DEF h
      <4>2. h = [i \in 1..n |-> h[i]]
        BY DEF h
      <4> QED  BY <4>1, <4>2
    <3> HIDE DEF h
    <3>3. flat = Body(flat)
      BY <3>2
    <3> HIDE DEF flat
    <3>4. ASSUME NEW i \in 1..n
          PROVE  flat[i] = IF i = 1 THEN ss[i] ELSE flat[i - 1] \o ss[i]
      BY <3>3
    <3> DEFINE g == [i \in 0..n |-> IF i = 0 THEN <<>> ELSE flat[i]]
    <3>5. ASSUME NEW k \in 1..n, g[k - 1] = f[k - 1] PROVE g[k] = f[k]
      <4>1. g[k] = flat[k] /\ k - 1 \in 0..n /\ k \in 0..n
        BY <1>1
      <4>2. f[k] = f[k - 1] \o ss[k]
        BY <1>4
      <4>3. CASE k = 1
        <5>3. f[k - 1] = <<>>
          BY <1>8, <4>3
        <5>1. f[k] = <<>> \o ss[k] /\ ss[k] \in Seq(V)
          BY <1>7, <4>2, <5>3
        <5>2. f[k] = ss[k]
          BY <5>1, ConcatEmptySeq
        <5> QED  BY <3>4, <4>1, <4>3, <5>2
      <4>4. CASE k # 1
        <5>1. g[k - 1] = flat[k - 1]
          BY <4>1, <4>4
        <5> QED  BY <3>4, <3>5, <4>1, <4>2, <4>4, <5>1
      <4> QED  BY <4>3, <4>4
    <3>6. g[0] = f[0] /\ g[n] = flat[n]
      BY <1>1, <1>3, <2>2 DEF Recurs
    <3> HIDE DEF g
    <3>7. Agree(n, g, f)
      BY <1>1, <3>5, <3>6, SameUpTo
    <3> QED  BY <1>1, <3>1, <3>6, <3>7 DEF Agree
  <2> QED  BY <2>1, <2>2
<1> QED  BY <1>5, <1>6 DEF n

\* A text more at the end of the sequence is one more at the end of the text.
LEMMA FlattenAdded ==
    ASSUME NEW V, NEW ss \in Seq(Seq(V)), NEW x \in Seq(V)
    PROVE  FlattenSeq(Append(ss, x)) = FlattenSeq(ss) \o x
<1> DEFINE tt == Append(ss, x)
           n == Len(ss)
<1>1. n \in Nat
  OBVIOUS
<1>7. /\ tt \in Seq(Seq(V)) /\ Len(tt) = n + 1 /\ tt[n + 1] = x
      /\ \A k \in 1..n : tt[k] = ss[k]
  BY Added
<1> HIDE DEF tt, n
<1>2. PICK f \in [0..n -> Seq(V)] : Flattens(f, ss) /\ FlattenSeq(ss) = f[n]
  BY Flattened DEF n
<1>3. PICK g \in [0..n + 1 -> Seq(V)] : Flattens(g, tt) /\ FlattenSeq(tt) = g[n + 1]
  BY <1>7, Flattened
<1>4. ASSUME NEW k \in 1..n, f[k - 1] = g[k - 1] PROVE f[k] = g[k]
  <2>1. k \in 1..n + 1
    BY <1>1
  <2> QED  BY <1>7, <1>2, <1>3, <1>4, <2>1 DEF Flattens, n
<1>5. f[n] = g[n]
  <2>1. f[0] = g[0]
    BY <1>2, <1>3 DEF Flattens
  <2>2. Agree(n, f, g)
    BY <1>1, <1>4, <2>1, SameUpTo
  <2> QED  BY <1>1, <2>2 DEF Agree
<1>6. g[n + 1] = g[n] \o x
  <2>1. n + 1 \in 1..n + 1 /\ (n + 1) - 1 = n
    BY <1>1
  <2> QED  BY <1>7, <1>3, <2>1 DEF Flattens
<1> QED  BY <1>2, <1>3, <1>5, <1>6 DEF tt

----------------------------------------------------------------------------
\* CollapseBlanks keeps what it made of the text before and adds a character
\* that is not one more blank.
Collapses(f, text) ==
    /\ f[0] = <<>>
    /\ \A k \in 1..Len(text) :
          f[k] = IF k > 1 /\ text[k] \in Blanks /\ text[k - 1] \in Blanks
                 THEN f[k - 1] ELSE Append(f[k - 1], text[k])

\* There is such a function: the one CollapseBlanks is written with.
LEMMA Collapsed ==
    ASSUME NEW V, NEW text \in Seq(V)
    PROVE  \E f \in [0..Len(text) -> Seq(V)] :
              Collapses(f, text) /\ CollapseBlanks(text) = f[Len(text)]
<1> DEFINE n == Len(text)
           Goes(k, v) == IF k > 1 /\ text[k] \in Blanks /\ text[k - 1] \in Blanks
                         THEN v ELSE Append(v, text[k])
           W == Seq(V)
           step == [p \in (1..n) \X W |-> Goes(p[1], p[2])]
<1>1. n \in Nat
  OBVIOUS
<1>2. ASSUME NEW k \in 1..n, NEW v \in W PROVE step[<<k, v>>] = Goes(k, v) /\ Goes(k, v) \in W
  <2>1. text[k] \in V
    OBVIOUS
  <2>2. Append(v, text[k]) \in W
    BY <2>1, AppendProperties
  <2> QED  BY <2>2
<1>3. <<>> \in W
  OBVIOUS
<1>4. \A k \in 1..n : \A v \in W : step[<<k, v>>] \in W
  BY <1>2
<1> HIDE DEF step, W, Goes
<1>5. SomeRecurs(n, W, <<>>, step)
  BY <1>1, <1>3, <1>4, RecursionUpTo
<1>6. PICK h \in [0..n -> W] : Recurs(h, n, <<>>, step)
  BY <1>5 DEF SomeRecurs
<1>7. h[0] = <<>> /\ \A k \in 1..n : h[k] = Goes(k, h[k - 1])
  <2>1. ASSUME NEW k \in 1..n PROVE h[k] = Goes(k, h[k - 1])
    <3>1. k - 1 \in 0..n
      BY <1>1
    <3> QED  BY <1>2, <1>6, <3>1 DEF Recurs
  <2> QED  BY <1>6, <2>1 DEF Recurs
<1> DEFINE Body(g) == [k \in 0..n |-> IF k = 0 THEN <<>> ELSE Goes(k, g[k - 1])]
           upTo == CHOOSE g : g = Body(g)
<1>8. h = Body(h)
  <2>1. h = [k \in 0..n |-> h[k]]
    OBVIOUS
  <2>2. \A k \in 0..n : h[k] = IF k = 0 THEN <<>> ELSE Goes(k, h[k - 1])
    BY <1>1, <1>7
  <2> QED  BY <2>1, <2>2
<1>9. CollapseBlanks(text) = upTo[n]
  BY DEF CollapseBlanks, Goes
<1>10. upTo = Body(upTo)
  BY <1>8
<1> HIDE DEF upTo
<1>11. \A k \in 0..n : upTo[k] = IF k = 0 THEN <<>> ELSE Goes(k, upTo[k - 1])
  BY <1>10
<1>12. Agree(n, h, upTo)
  <2>1. h[0] = upTo[0]
    BY <1>1, <1>7, <1>11
  <2>2. ASSUME NEW k \in 1..n, h[k - 1] = upTo[k - 1] PROVE h[k] = upTo[k]
    BY <1>1, <1>7, <1>11, <2>2
  <2> QED  BY <1>1, <2>1, <2>2, SameUpTo
<1>13. CollapseBlanks(text) = h[n]
  BY <1>1, <1>9, <1>12 DEF Agree
<1>14. Collapses(h, text)
  BY <1>7 DEF Collapses, Goes, n
<1> QED  BY <1>13, <1>14 DEF W, n

\* What a character more changes in a text whose blanks are collapsed.
LEMMA CollapseAdded ==
    ASSUME NEW V, NEW a \in Seq(V), NEW x \in V
    PROVE  /\ CollapseBlanks(a) \in Seq(V)
           /\ a = <<>> => CollapseBlanks(a) = <<>>
           /\ CollapseBlanks(Append(a, x)) =
                IF a # <<>> /\ x \in Blanks /\ Last(a) \in Blanks THEN CollapseBlanks(a)
                ELSE Append(CollapseBlanks(a), x)
<1> DEFINE b == Append(a, x)
           n == Len(a)
<1>1. n \in Nat /\ (a = <<>> <=> n = 0) /\ Last(a) = a[n]
  BY DEF Last
<1>2. b \in Seq(V) /\ Len(b) = n + 1 /\ b[n + 1] = x
  BY Added
<1>3. \A k \in 1..n : b[k] = a[k]
  BY Added
<1> HIDE DEF b, n
<1>4. PICK f \in [0..n -> Seq(V)] : Collapses(f, a) /\ CollapseBlanks(a) = f[n]
  BY Collapsed DEF n
<1>5. PICK g \in [0..n + 1 -> Seq(V)] : Collapses(g, b) /\ CollapseBlanks(b) = g[n + 1]
  BY <1>2, Collapsed
<1>6. Agree(n, f, g)
  <2>1. f[0] = g[0]
    BY <1>4, <1>5 DEF Collapses
  <2>2. ASSUME NEW k \in 1..n, f[k - 1] = g[k - 1] PROVE f[k] = g[k]
    <3>1. k \in 1..n + 1 /\ b[k] = a[k] /\ (k > 1 => b[k - 1] = a[k - 1])
      BY <1>1, <1>3
    <3>2. f[k] = IF k > 1 /\ a[k] \in Blanks /\ a[k - 1] \in Blanks
                 THEN f[k - 1] ELSE Append(f[k - 1], a[k])
      BY <1>4 DEF Collapses, n
    <3>3. g[k] = IF k > 1 /\ b[k] \in Blanks /\ b[k - 1] \in Blanks
                 THEN g[k - 1] ELSE Append(g[k - 1], b[k])
      BY <1>2, <1>5, <3>1 DEF Collapses
    <3> QED  BY <2>2, <3>1, <3>2, <3>3
  <2> QED  BY <1>1, <2>1, <2>2, SameUpTo
<1>7. g[n] = CollapseBlanks(a)
  BY <1>1, <1>4, <1>6 DEF Agree
<1>8. g[n + 1] = IF n + 1 > 1 /\ b[n + 1] \in Blanks /\ b[(n + 1) - 1] \in Blanks
                 THEN g[(n + 1) - 1] ELSE Append(g[(n + 1) - 1], b[n + 1])
  <2>1. n + 1 \in 1..Len(b)
    BY <1>1, <1>2
  <2> QED  BY <1>5, <2>1 DEF Collapses
<1>9. (n + 1) - 1 = n /\ (n + 1 > 1 <=> n # 0) /\ (n # 0 => b[n] = a[n])
  BY <1>1, <1>3
<1>10. g[n + 1] = IF a # <<>> /\ x \in Blanks /\ Last(a) \in Blanks THEN CollapseBlanks(a)
                  ELSE Append(CollapseBlanks(a), x)
  BY <1>1, <1>2, <1>7, <1>8, <1>9
<1>11. CollapseBlanks(a) \in Seq(V)
  BY <1>1, <1>4
<1>12. a = <<>> => CollapseBlanks(a) = <<>>
  BY <1>1, <1>4 DEF Collapses
<1> QED  BY <1>5, <1>10, <1>11, <1>12 DEF b

----------------------------------------------------------------------------
\* Words likewise.  A spoken character is spelled with these.
Sounds == {"n", "o", "4", "5"}

\* Every character that is said has a spelling.
LEMMA SpelledSounds ==
    ASSUME NEW c \in Spoken
    PROVE  Spelled(c) \in Seq(Sounds)
<1>1. c \in {"n", "o", "N", "O", "4", "5", "numero"}
  BY DEF Spoken, Letters, Digits
<1>2. CASE c = "numero"
  BY <1>2 DEF Spelled, Sounds
<1>3. CASE c # "numero"
  <2> DEFINE t == <<c>>
             low == CASE c = "N" -> "n" [] c = "O" -> "o" [] OTHER -> c
  <2>1. DOMAIN t = 1..1 /\ t[1] = c
    OBVIOUS
  <2>2. low \in Sounds
    BY <1>1, <1>3 DEF Sounds
  <2>3. Spelled(c) = [i \in 1..1 |-> CASE t[i] = "N" -> "n" [] t[i] = "O" -> "o" [] OTHER -> t[i]]
    BY <1>3, <2>1 DEF Spelled, Lower
  <2>4. Spelled(c) = [i \in 1..1 |-> low]
    BY <2>1, <2>3
  <2> HIDE DEF low
  <2> QED  BY <2>2, <2>4
<1> QED  BY <1>2, <1>3

\* Saying c once more prolongs the last word, or begins one.
Prolonged(words, c) == Append(Front(words), Last(words) \o Spelled(c))

Says(f, text) ==
    /\ f[0] = <<>>
    /\ \A k \in 1..Len(text) :
          f[k] = IF text[k] \notin Spoken THEN f[k - 1]
                 ELSE IF k > 1 /\ text[k - 1] \in Spoken THEN Prolonged(f[k - 1], text[k])
                 ELSE Append(f[k - 1], Spelled(text[k]))

\* Words are sequences of sounds, and saying more leaves no fewer of them.
LEMMA WordsGrow ==
    ASSUME NEW words \in Seq(Seq(Sounds)), NEW c \in Spoken
    PROVE  /\ Append(words, Spelled(c)) \in Seq(Seq(Sounds))
           /\ Append(words, Spelled(c)) # <<>>
           /\ words # <<>> => /\ Front(words) \in Seq(Seq(Sounds))
                              /\ Last(words) \in Seq(Sounds)
                              /\ words = Append(Front(words), Last(words))
                              /\ Last(words) \o Spelled(c) \in Seq(Sounds)
                              /\ Prolonged(words, c) \in Seq(Seq(Sounds))
                              /\ Prolonged(words, c) # <<>>
<1> DEFINE W == Seq(Sounds)
<1>1. Spelled(c) \in W
  BY SpelledSounds
<1> HIDE DEF W
<1>2. ASSUME NEW s \in Seq(W), NEW x \in W PROVE Append(s, x) \in Seq(W) /\ Append(s, x) # <<>>
  <2> DEFINE t == Append(s, x)
  <2>1. t \in Seq(W) /\ Len(t) = Len(s) + 1 /\ Len(s) \in Nat
    BY AppendProperties
  <2> HIDE DEF t
  <2>2. Len(t) # 0
    BY <2>1
  <2>3. t # <<>>
    BY <2>2
  <2> QED  BY <2>1, <2>3 DEF t
<1>3. ASSUME words # <<>>
      PROVE  /\ Front(words) \in Seq(W) /\ Last(words) \in W
             /\ words = Append(Front(words), Last(words))
  <2>1. words \in Seq(W) /\ Len(words) \in Nat /\ Len(words) # 0
    BY <1>3 DEF W
  <2>2. Front(words) = SubSeq(words, 1, Len(words) - 1) /\ Last(words) = words[Len(words)]
    BY DEF Front, Last
  <2>3. Front(words) \in Seq(W) /\ Last(words) \in W
    BY <2>1, <2>2
  <2>4. words = Append(Front(words), Last(words))
    BY <2>1, <2>2
  <2> QED  BY <2>3, <2>4
<1>4. \A s, t \in W : s \o t \in W
  BY ConcatProperties DEF W
<1>5. words \in Seq(W)
  BY DEF W
<1>6. ASSUME words # <<>>
      PROVE  /\ Last(words) \o Spelled(c) \in W
             /\ Prolonged(words, c) \in Seq(W) /\ Prolonged(words, c) # <<>>
  BY <1>1, <1>2, <1>3, <1>4, <1>6 DEF Prolonged
<1>7. Append(words, Spelled(c)) \in Seq(W) /\ Append(words, Spelled(c)) # <<>>
  BY <1>1, <1>2, <1>5
<1> QED  BY <1>3, <1>6, <1>7 DEF W

\* Words is such a function's last value, and a word that is prolonged is there.
LEMMA Said ==
    ASSUME NEW text \in Seq(Characters)
    PROVE  \E f \in [0..Len(text) -> Seq(Seq(Sounds))] :
              /\ Says(f, text) /\ Words(text) = f[Len(text)]
              /\ \A k \in 1..Len(text) : text[k] \in Spoken => f[k] # <<>>
<1> DEFINE n == Len(text)
           Goes(k, v) == IF text[k] \notin Spoken THEN v
                         ELSE IF k > 1 /\ text[k - 1] \in Spoken THEN Prolonged(v, text[k])
                         ELSE Append(v, Spelled(text[k]))
           W == Seq(Seq(Sounds))
           Ready(k, v) == k > 1 /\ text[k - 1] \in Spoken => v # <<>>
           step == [p \in (1..n) \X W |-> IF Ready(p[1], p[2]) THEN Goes(p[1], p[2]) ELSE p[2]]
<1>1. n \in Nat
  OBVIOUS
<1>2. ASSUME NEW k \in 1..n, NEW v \in W
      PROVE  step[<<k, v>>] = IF Ready(k, v) THEN Goes(k, v) ELSE v
  OBVIOUS
<1>3. ASSUME NEW k \in 1..n, NEW v \in W, Ready(k, v)
      PROVE  Goes(k, v) \in W /\ (text[k] \in Spoken => Goes(k, v) # <<>>)
  <2>1. CASE text[k] \notin Spoken
    BY <2>1
  <2>2. CASE text[k] \in Spoken /\ k > 1 /\ text[k - 1] \in Spoken
    BY <1>3, <2>2, WordsGrow
  <2>3. CASE text[k] \in Spoken /\ ~ (k > 1 /\ text[k - 1] \in Spoken)
    BY <2>3, WordsGrow
  <2> QED  BY <2>1, <2>2, <2>3
<1>4. <<>> \in W
  OBVIOUS
<1> HIDE DEF step, W, Goes, Ready, n
<1>5. \A k \in 1..n : \A v \in W : step[<<k, v>>] \in W
  BY <1>2, <1>3
<1>6. SomeRecurs(n, W, <<>>, step)
  BY <1>1, <1>4, <1>5, RecursionUpTo
<1>7. PICK h \in [0..n -> W] : Recurs(h, n, <<>>, step)
  BY <1>6 DEF SomeRecurs
<1>8. ASSUME NEW k \in 1..n
      PROVE  /\ k - 1 \in 0..n /\ h[k - 1] \in W
             /\ h[k] = IF Ready(k, h[k - 1]) THEN Goes(k, h[k - 1]) ELSE h[k - 1]
  <2>1. k - 1 \in 0..n
    BY <1>1
  <2>2. h[k - 1] \in W /\ h[k] = step[<<k, h[k - 1]>>]
    BY <1>7, <2>1 DEF Recurs
  <2> QED  BY <1>2, <2>1, <2>2
<1>9. \A k \in 0..n : k # 0 => Ready(k, h[k - 1])
  <2> DEFINE S == {k \in 0..n : k # 0 => Ready(k, h[k - 1])}
  <2>1. 0 \in S
    BY <1>1
  <2>2. ASSUME NEW k \in 1..n, k - 1 \in S PROVE k \in S
    <3>1. k \in 0..n /\ k - 1 \in 0..n
      BY <1>1
    <3>2. CASE k = 1
      BY <3>1, <3>2 DEF Ready
    <3>3. CASE k # 1
      <4>1. k - 1 \in 1..n /\ k - 1 # 0
        BY <1>1, <3>3
      <4>2. Ready(k - 1, h[(k - 1) - 1])
        BY <2>2, <4>1
      <4>3. h[k - 1] = Goes(k - 1, h[(k - 1) - 1]) /\ h[(k - 1) - 1] \in W
        BY <1>8, <4>1, <4>2
      <4>4. text[k - 1] \in Spoken => h[k - 1] # <<>>
        BY <1>3, <4>1, <4>2, <4>3
      <4>5. Ready(k, h[k - 1])
        BY <4>4 DEF Ready
      <4> QED  BY <3>1, <4>5
    <3> QED  BY <3>2, <3>3
  <2> HIDE DEF S
  <2>3. \A k \in 0..n : k \in S
    BY <1>1, <2>1, <2>2, UpToAll
  <2> QED  BY <2>3 DEF S
<1>10. ASSUME NEW k \in 1..n
       PROVE  h[k] = Goes(k, h[k - 1]) /\ (text[k] \in Spoken => h[k] # <<>>)
  <2>1. k \in 0..n /\ k # 0
    BY <1>1
  <2> QED  BY <1>3, <1>8, <1>9, <2>1
<1>11. h[0] = <<>>
  BY <1>7 DEF Recurs
<1> DEFINE Body(g) == [k \in 0..n |-> IF k = 0 THEN <<>> ELSE Goes(k, g[k - 1])]
           upTo == CHOOSE g : g = Body(g)
<1>12. h = Body(h)
  <2>1. h = [k \in 0..n |-> h[k]]
    OBVIOUS
  <2>2. \A k \in 0..n : h[k] = IF k = 0 THEN <<>> ELSE Goes(k, h[k - 1])
    BY <1>1, <1>10, <1>11
  <2> QED  BY <2>1, <2>2
<1>13. Words(text) = upTo[n]
  BY DEF Words, Goes, n, Prolonged
<1>14. upTo = Body(upTo)
  BY <1>12
<1> HIDE DEF upTo
<1>15. \A k \in 0..n : upTo[k] = IF k = 0 THEN <<>> ELSE Goes(k, upTo[k - 1])
  BY <1>14
<1>16. Agree(n, h, upTo)
  <2>1. h[0] = upTo[0]
    BY <1>1, <1>11, <1>15
  <2>2. ASSUME NEW k \in 1..n, h[k - 1] = upTo[k - 1] PROVE h[k] = upTo[k]
    <3>1. k \in 0..n /\ k # 0
      BY <1>1
    <3>2. h[k] = Goes(k, h[k - 1])
      BY <1>10
    <3>3. upTo[k] = Goes(k, upTo[k - 1])
      BY <1>15, <3>1
    <3> QED  BY <2>2, <3>2, <3>3
  <2> QED  BY <1>1, <2>1, <2>2, SameUpTo
<1>17. Words(text) = h[n]
  BY <1>1, <1>13, <1>16 DEF Agree
<1>18. Says(h, text)
  BY <1>10, <1>11 DEF Says, Goes, n
<1> QED  BY <1>10, <1>17, <1>18 DEF W, n

\* What a character more changes in the words of a text.
LEMMA WordsAdded ==
    ASSUME NEW a \in Seq(Characters), NEW x \in Characters
    PROVE  /\ Words(a) \in Seq(Seq(Sounds))
           /\ a = <<>> => Words(a) = <<>>
           /\ Words(Append(a, x)) =
                IF x \notin Spoken THEN Words(a)
                ELSE IF a # <<>> /\ Last(a) \in Spoken THEN Prolonged(Words(a), x)
                ELSE Append(Words(a), Spelled(x))
<1> DEFINE b == Append(a, x)
           n == Len(a)
           W == Seq(Seq(Sounds))
<1>1. n \in Nat /\ (a = <<>> <=> n = 0) /\ Last(a) = a[n]
  BY DEF Last
<1>2. b \in Seq(Characters) /\ Len(b) = n + 1 /\ b[n + 1] = x
  BY Added
<1>3. \A k \in 1..n : b[k] = a[k]
  BY Added
<1> HIDE DEF b, n, W
<1>4. PICK f \in [0..n -> W] : Says(f, a) /\ Words(a) = f[n]
  BY Said DEF n, W
<1>5. PICK g \in [0..n + 1 -> W] : Says(g, b) /\ Words(b) = g[n + 1]
  BY <1>2, Said DEF W
<1>6. Agree(n, f, g)
  <2>1. f[0] = g[0]
    BY <1>4, <1>5 DEF Says
  <2>2. ASSUME NEW k \in 1..n, f[k - 1] = g[k - 1] PROVE f[k] = g[k]
    <3>1. k \in 1..n + 1 /\ b[k] = a[k] /\ (k > 1 => b[k - 1] = a[k - 1])
      BY <1>1, <1>3
    <3>2. f[k] = IF a[k] \notin Spoken THEN f[k - 1]
                 ELSE IF k > 1 /\ a[k - 1] \in Spoken THEN Prolonged(f[k - 1], a[k])
                 ELSE Append(f[k - 1], Spelled(a[k]))
      BY <1>4 DEF Says, n
    <3>3. g[k] = IF b[k] \notin Spoken THEN g[k - 1]
                 ELSE IF k > 1 /\ b[k - 1] \in Spoken THEN Prolonged(g[k - 1], b[k])
                 ELSE Append(g[k - 1], Spelled(b[k]))
      BY <1>2, <1>5, <3>1 DEF Says
    <3> QED  BY <2>2, <3>1, <3>2, <3>3
  <2> QED  BY <1>1, <2>1, <2>2, SameUpTo
<1>7. g[n] = Words(a)
  BY <1>1, <1>4, <1>6 DEF Agree
<1>8. g[n + 1] = IF b[n + 1] \notin Spoken THEN g[(n + 1) - 1]
                 ELSE IF n + 1 > 1 /\ b[(n + 1) - 1] \in Spoken
                 THEN Prolonged(g[(n + 1) - 1], b[n + 1])
                 ELSE Append(g[(n + 1) - 1], Spelled(b[n + 1]))
  <2>1. n + 1 \in 1..Len(b)
    BY <1>1, <1>2
  <2> QED  BY <1>5, <2>1 DEF Says
<1>9. (n + 1) - 1 = n /\ (n + 1 > 1 <=> n # 0) /\ (n # 0 => b[n] = a[n])
  BY <1>1, <1>3
<1>10. g[n + 1] = IF x \notin Spoken THEN Words(a)
                  ELSE IF a # <<>> /\ Last(a) \in Spoken THEN Prolonged(Words(a), x)
                  ELSE Append(Words(a), Spelled(x))
  BY <1>1, <1>2, <1>7, <1>8, <1>9
<1>11. Words(a) \in W
  BY <1>1, <1>4
<1>12. a = <<>> => Words(a) = <<>>
  BY <1>1, <1>4 DEF Says
<1> QED  BY <1>5, <1>10, <1>11, <1>12 DEF b, W

----------------------------------------------------------------------------
\* The words one after another, each behind a blank.
Plain == Sounds \cup {"space"}

Joined(words) == FlattenSeq([k \in 1..Len(words) |-> <<"space">> \o words[k]])

\* What a word more changes in the words joined.
LEMMA JoinedAdded ==
    ASSUME NEW words \in Seq(Seq(Sounds)), NEW word \in Seq(Sounds)
    PROVE  /\ Joined(words) \in Seq(Plain)
           /\ words = <<>> => Joined(words) = <<>>
           /\ Joined(Append(words, word)) = Joined(words) \o (<<"space">> \o word)
<1> DEFINE S == Seq(Sounds)
           P == Seq(Plain)
           Spaced(w) == [k \in 1..Len(w) |-> <<"space">> \o w[k]]
           more == Append(words, word)
<1>1. ASSUME NEW w \in S PROVE <<"space">> \o w \in P
  <2>1. w \in Seq(Plain) /\ <<"space">> \in Seq(Plain)
    BY DEF Plain
  <2> QED  BY <2>1, ConcatProperties
<1>2. words \in Seq(S) /\ Len(words) \in Nat /\ word \in S
  OBVIOUS
<1> HIDE DEF S, P
<1>3. /\ Len(more) = Len(words) + 1 /\ more[Len(words) + 1] = word
      /\ \A k \in 1..Len(words) : more[k] = words[k]
  BY <1>2, Added
<1>4. \A k \in 1..Len(words) : words[k] \in S
  BY <1>2
<1>5. Spaced(words) \in Seq(P)
  BY <1>1, <1>2, <1>4
<1> HIDE DEF more
<1>6. Spaced(more) = Append(Spaced(words), <<"space">> \o word)
  <2>1. Len(Spaced(words)) = Len(words)
    BY <1>2
  <2>2. Append(Spaced(words), <<"space">> \o word) \in Seq(P)
    BY <1>1, <1>2, <1>5, AppendProperties
  <2>3. Append(Spaced(words), <<"space">> \o word)
          = [k \in 1..Len(words) + 1 |-> IF k = Len(words) + 1 THEN <<"space">> \o word
                                         ELSE Spaced(words)[k]]
    BY <2>1
  <2>4. ASSUME NEW k \in 1..Len(words) + 1
        PROVE  <<"space">> \o more[k] = IF k = Len(words) + 1 THEN <<"space">> \o word
                                        ELSE Spaced(words)[k]
    <3>1. CASE k = Len(words) + 1
      BY <1>3, <3>1
    <3>2. CASE k # Len(words) + 1
      <4>1. k \in 1..Len(words)
        BY <1>2, <3>2
      <4>2. more[k] = words[k] /\ Spaced(words)[k] = <<"space">> \o words[k]
        BY <1>3, <4>1
      <4> QED  BY <3>2, <4>2
    <3> QED  BY <3>1, <3>2
  <2> QED  BY <1>3, <2>3, <2>4
<1>7. FlattenSeq(Append(Spaced(words), <<"space">> \o word))
        = FlattenSeq(Spaced(words)) \o (<<"space">> \o word)
  BY <1>1, <1>2, <1>5, FlattenAdded DEF P
<1>8. Joined(words) = FlattenSeq(Spaced(words)) /\ Joined(more) = FlattenSeq(Spaced(more))
  BY DEF Joined
<1>9. FlattenSeq(Spaced(words)) \in P
  <2> DEFINE ss == Spaced(words)
  <2>1. ss \in Seq(Seq(Plain))
    BY <1>5 DEF P
  <2> HIDE DEF ss
  <2>2. PICK f \in [0..Len(ss) -> Seq(Plain)] : Flattens(f, ss) /\ FlattenSeq(ss) = f[Len(ss)]
    BY <2>1, Flattened
  <2>4. Len(ss) \in 0..Len(ss)
    BY <2>1
  <2> DEFINE n == Len(ss)
             Q == Seq(Plain)
  <2> HIDE DEF n, Q
  <2>5. f \in [0..n -> Q] /\ n \in 0..n /\ FlattenSeq(ss) = f[n]
    BY <2>2, <2>4 DEF n, Q
  <2>6. FlattenSeq(ss) \in Q
    BY <2>5
  <2>3. FlattenSeq(ss) \in Seq(Plain)
    BY <2>6 DEF Q
  <2> QED  BY <2>3 DEF ss, P
<1>10. words = <<>> => Joined(words) = <<>>
  BY DEF Joined, FlattenSeq
<1> HIDE DEF Spaced
<1> QED  BY <1>6, <1>7, <1>8, <1>9, <1>10 DEF P, more

\* Texts joined and texts that grow by a character.
LEMMA Linked ==
    ASSUME NEW V, NEW s \in Seq(V), NEW t \in Seq(V), NEW x \in V
    PROVE  /\ s \o t \in Seq(V)
           /\ s \o Append(t, x) = Append(s \o t, x)
           /\ s \o <<x>> = Append(s, x)
<1>1. s \o t \in Seq(V) /\ Append(t, x) \in Seq(V)
  BY ConcatProperties, AppendProperties
<1>2. s \o Append(t, x) = Append(s \o t, x)
  <2>1. /\ s \o Append(t, x) \in Seq(V) /\ Append(s \o t, x) \in Seq(V)
        /\ Len(s \o Append(t, x)) = Len(s) + Len(t) + 1
        /\ Len(Append(s \o t, x)) = Len(s) + Len(t) + 1
    BY <1>1, ConcatProperties, AppendProperties
  <2>2. ASSUME NEW k \in 1..Len(s) + Len(t) + 1
        PROVE  (s \o Append(t, x))[k] = Append(s \o t, x)[k]
    <3> DEFINE u == s \o t
               v == Append(t, x)
    <3>1. u \in Seq(V) /\ Len(u) = Len(s) + Len(t) /\ v \in Seq(V) /\ Len(v) = Len(t) + 1
      BY <1>1, ConcatProperties, AppendProperties
    <3>2. /\ \A i \in 1..Len(s) : u[i] = s[i] /\ (s \o v)[i] = s[i]
          /\ \A i \in 1..Len(t) : v[i] = t[i]
          /\ v[Len(t) + 1] = x /\ Append(u, x)[Len(u) + 1] = x
          /\ \A i \in 1..Len(u) : Append(u, x)[i] = u[i]
      BY <3>1, AppendProperties
    <3>3. /\ \A i \in Len(s) + 1..Len(s) + Len(t) : u[i] = t[i - Len(s)]
          /\ \A i \in Len(s) + 1..Len(s) + Len(v) : (s \o v)[i] = v[i - Len(s)]
      BY <3>1
    <3> HIDE DEF u, v
    <3>4. CASE k \in 1..Len(s)
      <4>1. k \in 1..Len(u)
        BY <3>1, <3>4
      <4> QED  BY <3>2, <3>4, <4>1 DEF u, v
    <3>5. CASE k \in Len(s) + 1..Len(s) + Len(t)
      <4>1. k \in 1..Len(u) /\ k \in Len(s) + 1..Len(s) + Len(v) /\ k - Len(s) \in 1..Len(t)
        BY <3>1, <3>5
      <4> QED  BY <3>2, <3>3, <3>5, <4>1 DEF u, v
    <3>6. CASE k = Len(s) + Len(t) + 1
      <4>1. k = Len(u) + 1 /\ k \in Len(s) + 1..Len(s) + Len(v) /\ k - Len(s) = Len(t) + 1
        BY <3>1, <3>6
      <4> QED  BY <3>2, <3>3, <4>1 DEF u, v
    <3> QED  BY <3>4, <3>5, <3>6
  <2> QED  BY <2>1, <2>2, SeqEqual
<1>3. s \o <<x>> = Append(s, x)
  OBVIOUS
<1> QED  BY <1>1, <1>2, <1>3

\* The words grow at the end of their text.
LEMMA JoinedGrows ==
    ASSUME NEW words \in Seq(Seq(Sounds)), NEW c \in Spoken, NEW l \in Sounds, Spelled(c) = <<l>>
    PROVE  /\ Joined(Append(words, Spelled(c))) = Append(Append(Joined(words), "space"), l)
           /\ words # <<>> => Joined(Prolonged(words, c)) = Append(Joined(words), l)
<1>1. "space" \in Plain /\ l \in Plain /\ \A w \in Seq(Sounds) : w \in Seq(Plain)
  BY DEF Plain
<1>2. Joined(words) \in Seq(Plain)
  BY JoinedAdded, SpelledSounds
<1>3. Joined(Append(words, Spelled(c))) = Append(Append(Joined(words), "space"), l)
  <2>1. Joined(Append(words, Spelled(c))) = Joined(words) \o (<<"space">> \o <<l>>)
    BY JoinedAdded, SpelledSounds
  <2>2. <<"space">> \in Seq(Plain) /\ <<"space">> \o <<l>> = Append(<<"space">>, l)
    BY <1>1
  <2>3. Joined(words) \o Append(<<"space">>, l) = Append(Joined(words) \o <<"space">>, l)
    BY <1>1, <1>2, <2>2, Linked
  <2>4. Joined(words) \o <<"space">> = Append(Joined(words), "space")
    BY <1>1, <1>2, Linked
  <2> QED  BY <2>1, <2>2, <2>3, <2>4
<1>4. ASSUME words # <<>> PROVE Joined(Prolonged(words, c)) = Append(Joined(words), l)
  <2> DEFINE front == Front(words)
             last == Last(words)
             sp == <<"space">>
  <2>1. /\ front \in Seq(Seq(Sounds)) /\ last \in Seq(Sounds) /\ words = Append(front, last)
        /\ last \o <<l>> \in Seq(Sounds)
        /\ Prolonged(words, c) = Append(front, last \o <<l>>)
    BY <1>4, WordsGrow DEF Prolonged
  <2> HIDE DEF front, last, sp
  <2>2. Joined(front) \in Seq(Plain) /\ Joined(words) = Joined(front) \o (sp \o last)
    BY <2>1, JoinedAdded DEF sp
  <2>3. Joined(Prolonged(words, c)) = Joined(front) \o (sp \o (last \o <<l>>))
    BY <2>1, JoinedAdded DEF sp
  <2>4. last \in Seq(Plain) /\ sp \in Seq(Plain)
    BY <1>1, <2>1 DEF sp
  <2>5. last \o <<l>> = Append(last, l)
    BY <1>1, <2>4, Linked
  <2>6. sp \o Append(last, l) = Append(sp \o last, l) /\ sp \o last \in Seq(Plain)
    BY <1>1, <2>4, Linked
  <2>7. Joined(front) \o Append(sp \o last, l) = Append(Joined(front) \o (sp \o last), l)
    <3> DEFINE s == Joined(front)
               t == sp \o last
    <3>1. s \in Seq(Plain) /\ t \in Seq(Plain) /\ l \in Plain
      BY <1>1, <2>2, <2>6
    <3> HIDE DEF s, t
    <3>2. s \o Append(t, l) = Append(s \o t, l)
      BY <3>1, Linked
    <3> QED  BY <3>2 DEF s, t
  <2> QED  BY <2>2, <2>3, <2>5, <2>6, <2>7
<1> QED  BY <1>3, <1>4

----------------------------------------------------------------------------
\* What the blanking leaves of a text.
Marks == Letters \cup Digits \cup {"space"}

Small(char) == CASE char = "N" -> "n" [] char = "O" -> "o" [] OTHER -> char

\* The kinds of what the blanking leaves.
LEMMA Marked ==
    ASSUME NEW x \in Marks
    PROVE  /\ Small(x) \in Plain
           /\ x \in Blanks <=> x = "space"
           /\ Small(x) = "space" <=> x = "space"
           /\ x # "space" => x \in Spoken /\ Small(x) \in Sounds /\ Spelled(x) = <<Small(x)>>
<1>1. x \in {"n", "o", "N", "O", "4", "5", "space"}
  BY DEF Marks, Letters, Digits
<1>2. /\ Small(x) \in Plain /\ (x \in Blanks <=> x = "space")
      /\ (Small(x) = "space" <=> x = "space")
      /\ (x # "space" => Small(x) \in Sounds)
  BY <1>1 DEF Small, Plain, Sounds, Blanks
<1>3. ASSUME x # "space" PROVE x \in Spoken /\ Spelled(x) = <<Small(x)>>
  <2>1. x \in Spoken /\ x # "numero"
    BY <1>1, <1>3 DEF Spoken, Letters, Digits
  <2> DEFINE t == <<x>>
  <2>2. DOMAIN t = 1..1 /\ t[1] = x
    OBVIOUS
  <2>3. Spelled(x) = [i \in 1..1 |-> CASE t[i] = "N" -> "n" [] t[i] = "O" -> "o" [] OTHER -> t[i]]
    BY <2>1, <2>2 DEF Spelled, Lower
  <2>4. Spelled(x) = [i \in 1..1 |-> Small(x)]
    BY <2>2, <2>3 DEF Small
  <2> HIDE DEF Small
  <2> QED  BY <2>1, <2>4
<1> QED  BY <1>2, <1>3

\* lower() goes character by character.
LEMMA Lowered ==
    ASSUME NEW c \in Seq(Marks)
    PROVE  /\ Lower(c) \in Seq(Plain) /\ Len(Lower(c)) = Len(c)
           /\ \A i \in 1..Len(c) : Lower(c)[i] = Small(c[i])
           /\ \A x \in Marks : Lower(Append(c, x)) = Append(Lower(c), Small(x))
<1>1. ASSUME NEW d \in Seq(Marks) PROVE Lower(d) = [i \in 1..Len(d) |-> Small(d[i])]
  BY DEF Lower, Small
<1>2. \A d \in Seq(Marks) : \A i \in 1..Len(d) : Small(d[i]) \in Plain
  BY Marked
<1> HIDE DEF Lower, Small
<1>3. \A d \in Seq(Marks) : Lower(d) \in Seq(Plain) /\ Len(Lower(d)) = Len(d)
  BY <1>1, <1>2
<1>4. \A i \in 1..Len(c) : Lower(c)[i] = Small(c[i])
  BY <1>1
<1>5. ASSUME NEW x \in Marks PROVE Lower(Append(c, x)) = Append(Lower(c), Small(x))
  <2> DEFINE d == Append(c, x)
  <2>1. d \in Seq(Marks) /\ Len(d) = Len(c) + 1 /\ d[Len(c) + 1] = x /\ Len(c) \in Nat
    BY Added
  <2>2. \A k \in 1..Len(c) : d[k] = c[k]
    BY Added
  <2> HIDE DEF d
  <2>3. Small(x) \in Plain
    BY Marked
  <2>4. Append(Lower(c), Small(x)) \in Seq(Plain) /\ Len(Append(Lower(c), Small(x))) = Len(c) + 1
    BY <1>3, <2>3, AppendProperties
  <2>5. Lower(d) \in Seq(Plain) /\ Len(Lower(d)) = Len(c) + 1
    BY <1>3, <2>1
  <2>6. ASSUME NEW k \in 1..Len(c) + 1 PROVE Lower(d)[k] = Append(Lower(c), Small(x))[k]
    <3>1. Lower(d)[k] = Small(d[k])
      BY <1>1, <2>1
    <3>2. CASE k = Len(c) + 1
      <4>1. Append(Lower(c), Small(x))[k] = Small(x)
        BY <1>3, <2>3, <3>2, AppendProperties
      <4> QED  BY <2>1, <3>1, <3>2, <4>1
    <3>3. CASE k # Len(c) + 1
      <4>1. k \in 1..Len(c)
        BY <2>1, <3>3
      <4>2. Append(Lower(c), Small(x))[k] = Lower(c)[k]
        BY <1>3, <2>3, <4>1, AppendProperties
      <4> QED  BY <1>4, <2>2, <3>1, <4>1, <4>2
    <3> QED  BY <3>2, <3>3
  <2> QED  BY <2>4, <2>5, <2>6, SeqEqual DEF d
<1> QED  BY <1>3, <1>4, <1>5

----------------------------------------------------------------------------
\* A text that ends within a word.
Open(text) == text # <<>> /\ Last(text) # "space"

\* The blank that is missing before the first word, the one that is left
\* over behind the last.
Lead(text) == IF text = <<>> \/ text[1] = "space" THEN <<>> ELSE <<"space">>

Trail(text) == IF text = <<>> \/ Open(text) THEN <<>> ELSE <<"space">>

Shown(text) == Lead(text) \o Lower(CollapseBlanks(text))

\* What a character more changes in what is shown of a text.
LEMMA ShownGrows ==
    ASSUME NEW text \in Seq(Marks), NEW x \in Marks
    PROVE  /\ Shown(text) \in Seq(Plain)
           /\ text = <<>> => Shown(text) = <<>>
           /\ Append(text, x) \in Seq(Marks)
           /\ Open(Append(text, x)) <=> x # "space"
           /\ Trail(Append(text, x)) = IF x = "space" THEN <<"space">> ELSE <<>>
           /\ Shown(Append(text, x)) =
                IF text = <<>>
                THEN IF x = "space" THEN <<"space">> ELSE Append(<<"space">>, Small(x))
                ELSE IF x = "space" /\ ~ Open(text) THEN Shown(text)
                ELSE Append(Shown(text), Small(x))
<1> DEFINE more == Append(text, x)
           c == CollapseBlanks(text)
<1>1. /\ more \in Seq(Marks) /\ Len(more) = Len(text) + 1 /\ Last(more) = x
      /\ more[Len(text) + 1] = x
      /\ \A k \in 1..Len(text) : more[k] = text[k]
  BY Added
<1>2. Len(text) \in Nat /\ (text = <<>> <=> Len(text) = 0)
  OBVIOUS
<1>3. /\ c \in Seq(Marks)
      /\ text = <<>> => c = <<>>
      /\ CollapseBlanks(more) =
           IF text # <<>> /\ x \in Blanks /\ Last(text) \in Blanks THEN c ELSE Append(c, x)
  BY CollapseAdded
<1>4. x \in Blanks <=> x = "space"
  BY Marked
<1>5. text # <<>> => (Last(text) \in Blanks <=> ~ Open(text))
  <2>1. text # <<>> => Last(text) \in Marks
    BY <1>2 DEF Last
  <2> QED  BY <2>1, Marked DEF Open
<1> HIDE DEF more, c
<1>6. more # <<>>
  BY <1>1, <1>2
<1>7. (Open(more) <=> x # "space") /\ Trail(more) = IF x = "space" THEN <<"space">> ELSE <<>>
  BY <1>1, <1>6 DEF Open, Trail
<1>8. Lead(more) = IF text = <<>> THEN IF x = "space" THEN <<>> ELSE <<"space">> ELSE Lead(text)
  <2>1. CASE text = <<>>
    BY <1>1, <1>2, <1>6, <2>1 DEF Lead
  <2>2. CASE text # <<>>
    <3>1. more[1] = text[1]
      BY <1>1, <1>2, <2>2
    <3> QED  BY <1>6, <2>2, <3>1 DEF Lead
  <2> QED  BY <2>1, <2>2
<1>9. "space" \in Plain /\ <<>> \in Seq(Plain) /\ <<"space">> \in Seq(Plain)
  BY DEF Plain
<1>10. Lead(text) \in Seq(Plain) /\ Lower(c) \in Seq(Plain) /\ Small(x) \in Plain
  BY <1>3, <1>9, Lowered, Marked DEF Lead
<1>11. /\ Shown(text) \in Seq(Plain)
       /\ Lead(text) \o Append(Lower(c), Small(x)) = Append(Shown(text), Small(x))
  BY <1>10, Linked DEF Shown, c
<1>12. Lower(Append(c, x)) = Append(Lower(c), Small(x))
  BY <1>3, Lowered
<1>13. Lower(<<>>) = <<>>
  <2>1. <<>> \in Seq(Marks) /\ Len(<<>>) = 0
    OBVIOUS
  <2> DEFINE e == <<>>
  <2> HIDE DEF e
  <2>2. e \in Seq(Marks) /\ Len(e) = 0
    BY <2>1 DEF e
  <2>3. Lower(e) \in Seq(Plain) /\ Len(Lower(e)) = 0
    BY <2>2, Lowered
  <2>4. Lower(e) = <<>>
    BY <2>3
  <2> QED  BY <2>4 DEF e
<1>14. text = <<>> => Shown(text) = <<>>
  BY <1>3, <1>13 DEF Shown, Lead, c
<1>15. CASE text = <<>>
  <2>1. Lower(CollapseBlanks(more)) = Append(<<>>, Small(x))
    BY <1>3, <1>12, <1>13, <1>15
  <2>2. CASE x = "space"
    <3>1. Small(x) = "space"
      BY <2>2, Marked
    <3>2. Shown(more) = <<"space">>
      BY <1>8, <1>15, <2>1, <2>2, <3>1 DEF Shown
    <3> QED  BY <1>1, <1>7, <1>11, <1>14, <1>15, <2>2, <3>2 DEF more
  <2>3. CASE x # "space"
    <3>1. <<"space">> \o Append(<<>>, Small(x)) = Append(<<"space">>, Small(x))
      BY <1>9, <1>10
    <3>2. Shown(more) = Append(<<"space">>, Small(x))
      BY <1>8, <1>15, <2>1, <2>3, <3>1 DEF Shown
    <3> QED  BY <1>1, <1>7, <1>11, <1>14, <1>15, <2>3, <3>2 DEF more
  <2> QED  BY <2>2, <2>3
<1>16. CASE text # <<>>
  <2>1. CASE x = "space" /\ ~ Open(text)
    <3>1. CollapseBlanks(more) = c
      BY <1>3, <1>4, <1>5, <1>16, <2>1
    <3>2. Shown(more) = Shown(text)
      BY <1>8, <1>16, <3>1 DEF Shown, c
    <3> QED  BY <1>1, <1>7, <1>11, <1>16, <2>1, <3>2 DEF more
  <2>2. CASE ~ (x = "space" /\ ~ Open(text))
    <3>1. CollapseBlanks(more) = Append(c, x)
      BY <1>3, <1>4, <1>5, <1>16, <2>2
    <3>2. Shown(more) = Append(Shown(text), Small(x))
      BY <1>8, <1>11, <1>12, <1>16, <3>1 DEF Shown
    <3> QED  BY <1>1, <1>7, <1>11, <1>16, <2>2, <3>2 DEF more
  <2> QED  BY <2>1, <2>2
<1> QED  BY <1>15, <1>16

\* A text of words begins with a blank and ends within a word.
Proper(line) ==
    /\ line \in Seq(Plain)
    /\ line # <<>> => /\ Len(line) >= 2 /\ line[1] = "space" /\ line[2] # "space"
                      /\ line[Len(line)] # "space"

\* What is shown of a text are its words.
Fits(text, words) ==
    /\ text \in Seq(Marks) /\ words \in Seq(Seq(Sounds))
    /\ Shown(text) = Joined(words) \o Trail(text)
    /\ Proper(Joined(words))
    /\ Words(Joined(words)) = words
    /\ Open(text) => words # <<>>

\* No text and no words fit.
LEMMA FitsNothing == Fits(<<>>, <<>>)
<1> DEFINE e == <<>>
<1>1. e \in Seq(Marks) /\ e \in Seq(Seq(Sounds)) /\ e \in Seq(Characters) /\ Len(e) = 0
  OBVIOUS
<1>2. "space" \in Marks /\ "space" \in Characters
  BY DEF Marks, Characters, Blanks
<1>3. <<>> \in Seq(Sounds)
  OBVIOUS
<1>4. Trail(e) = <<>> /\ ~ Open(e)
  BY DEF Trail, Open
<1> HIDE DEF e
<1>5. Shown(e) = <<>>
  BY <1>1, <1>2, ShownGrows DEF e
<1>6. Joined(e) = <<>>
  BY <1>1, <1>3, JoinedAdded DEF e
<1>7. Words(e) = <<>>
  BY <1>1, <1>2, WordsAdded DEF e
<1>8. Joined(e) \o Trail(e) = <<>>
  BY <1>4, <1>6
<1>9. Proper(Joined(e))
  BY <1>6 DEF Proper
<1> QED  BY <1>1, <1>4, <1>5, <1>6, <1>7, <1>8, <1>9 DEF Fits, e

\* They still fit when the text goes on with a blank,
LEMMA FitsBlank ==
    ASSUME NEW text, NEW words, Fits(text, words)
    PROVE  Fits(Append(text, "space"), words)
<1> DEFINE more == Append(text, "space")
           line == Joined(words)
<1>1. text \in Seq(Marks) /\ "space" \in Marks /\ Small("space") = "space"
  BY DEF Fits, Marks, Small
<1>2. line \in Seq(Plain) /\ "space" \in Plain
  BY DEF Fits, Proper, Plain
<1>3. /\ more \in Seq(Marks) /\ ~ Open(more) /\ Trail(more) = <<"space">>
      /\ Shown(more) = IF text = <<>> THEN <<"space">>
                       ELSE IF ~ Open(text) THEN Shown(text) ELSE Append(Shown(text), "space")
  BY <1>1, ShownGrows
<1>4. Shown(text) = line \o Trail(text)
  BY DEF Fits
<1>5. line \o <<"space">> = Append(line, "space") /\ line \o <<>> = line
  BY <1>2, Linked, ConcatEmptySeq
<1> HIDE DEF more, line
<1>6. Shown(more) = line \o Trail(more)
  <2>1. CASE text = <<>>
    <3>1. line \o Trail(text) = <<>> /\ Trail(text) = <<>>
      BY <1>1, <1>4, <2>1, ShownGrows DEF Trail
    <3>2. line = <<>>
      BY <1>5, <3>1
    <3> QED  BY <1>2, <1>3, <1>5, <2>1, <3>2
  <2>2. CASE text # <<>> /\ ~ Open(text)
    BY <1>3, <1>4, <2>2 DEF Trail
  <2>3. CASE text # <<>> /\ Open(text)
    <3>1. Trail(text) = <<>>
      BY <2>3 DEF Trail
    <3> QED  BY <1>3, <1>4, <1>5, <2>3, <3>1
  <2> QED  BY <2>1, <2>2, <2>3
<1> QED  BY <1>3, <1>6 DEF Fits, more, line

\* The words are read off their own text.
LEMMA WordsOfLine ==
    ASSUME NEW words \in Seq(Seq(Sounds)), NEW x \in Marks, x # "space",
           Proper(Joined(words)), Words(Joined(words)) = words
    PROVE  /\ Proper(Joined(Append(words, Spelled(x))))
           /\ Words(Joined(Append(words, Spelled(x)))) = Append(words, Spelled(x))
           /\ words # <<>> => /\ Proper(Joined(Prolonged(words, x)))
                              /\ Words(Joined(Prolonged(words, x))) = Prolonged(words, x)
<1> DEFINE line == Joined(words)
           l == Small(x)
           apart == Append(line, "space")
<1>1. x \in Spoken /\ l \in Sounds /\ Spelled(x) = <<l>>
  BY Marked
<1>2. l \in Marks /\ l # "space" /\ Small(l) = l
  BY <1>1 DEF Sounds, Marks, Letters, Digits, Small
<1>3. l \in Spoken /\ Spelled(l) = <<l>>
  BY <1>2, Marked
<1>4. "space" \in Plain /\ "space" \in Characters /\ l \in Plain /\ l \in Characters
  BY <1>1 DEF Plain, Sounds, Characters, Blanks, Letters, Digits
<1>5. \A c \in Plain : c \in Characters /\ (c # "space" => c \in Spoken)
  BY DEF Plain, Sounds, Characters, Blanks, Letters, Digits, Spoken
<1>6. "space" \notin Spoken
  BY DEF Spoken, Letters, Digits
<1>7. line \in Seq(Plain) /\ Words(line) = words
  BY DEF Proper
<1>8. /\ Joined(Append(words, Spelled(x))) = Append(apart, l)
      /\ words # <<>> => Joined(Prolonged(words, x)) = Append(line, l)
  BY <1>1, JoinedGrows
<1>9. \A s \in Seq(Plain) : s \in Seq(Characters)
  BY <1>5
<1>10. /\ line # <<>> => /\ Len(line) >= 2 /\ line[1] = "space" /\ line[2] # "space"
                         /\ line[Len(line)] # "space"
  BY DEF Proper
<1>11. Prolonged(words, l) = Prolonged(words, x)
  BY <1>1, <1>3 DEF Prolonged
<1> HIDE DEF line, l
<1>12. /\ apart \in Seq(Plain) /\ Len(apart) = Len(line) + 1 /\ apart[Len(line) + 1] = "space"
       /\ Last(apart) = "space"
       /\ \A k \in 1..Len(line) : apart[k] = line[k]
  BY <1>4, <1>7, Added
<1>13. Len(line) \in Nat /\ (line = <<>> <=> Len(line) = 0)
  BY <1>7
<1> HIDE DEF apart
<1>14. apart # <<>> /\ apart[1] = "space"
  <2>1. CASE line = <<>>
    <3>1. Len(apart) = 1 /\ Len(line) + 1 = 1
      BY <1>12, <1>13, <2>1
    <3> QED  BY <1>12, <3>1
  <2>2. CASE line # <<>>
    <3>1. apart[1] = line[1]
      BY <1>12, <1>13, <2>2
    <3> QED  BY <1>10, <1>12, <1>13, <2>2, <3>1
  <2> QED  BY <2>1, <2>2
<1>15. Proper(Append(apart, l))
  <2> DEFINE t == Append(apart, l)
  <2>1. /\ t \in Seq(Plain) /\ Len(t) = Len(apart) + 1 /\ t[Len(apart) + 1] = l
        /\ \A k \in 1..Len(apart) : t[k] = apart[k]
    BY <1>4, <1>12, Added
  <2> HIDE DEF t
  <2>2. Len(t) = Len(line) + 2 /\ t[Len(t)] = l /\ t[1] = apart[1]
    BY <1>12, <1>13, <2>1
  <2>3. t[2] # "space"
    <3>1. CASE line = <<>>
      <4>1. Len(t) = 2
        BY <1>13, <2>2, <3>1
      <4> QED  BY <1>2, <2>2, <4>1
    <3>2. CASE line # <<>>
      <4>1. 2 \in 1..Len(line) /\ 2 \in 1..Len(apart)
        BY <1>10, <1>12, <1>13, <3>2
      <4> QED  BY <1>10, <1>12, <2>1, <3>2, <4>1
    <3> QED  BY <3>1, <3>2
  <2>4. Len(t) >= 2 /\ t[1] = "space" /\ t[Len(t)] # "space"
    BY <1>2, <1>13, <1>14, <2>2
  <2> QED  BY <2>1, <2>3, <2>4 DEF Proper, t
<1>16. Words(apart) = words
  BY <1>4, <1>6, <1>7, <1>9, WordsAdded DEF apart
<1>17. Words(Append(apart, l)) = Append(words, Spelled(x))
  <2>1. apart \in Seq(Characters) /\ Last(apart) \notin Spoken
    BY <1>6, <1>9, <1>12
  <2> QED  BY <1>1, <1>3, <1>4, <1>16, <2>1, WordsAdded
<1>18. ASSUME words # <<>>
       PROVE  Proper(Append(line, l)) /\ Words(Append(line, l)) = Prolonged(words, x)
  <2>1. line # <<>>
    <3>1. line = <<>> => Words(line) = <<>>
      BY <1>4, <1>7, <1>9, WordsAdded
    <3> QED  BY <1>7, <1>18, <3>1
  <2> DEFINE t == Append(line, l)
  <2>2. /\ t \in Seq(Plain) /\ Len(t) = Len(line) + 1 /\ t[Len(line) + 1] = l
        /\ \A k \in 1..Len(line) : t[k] = line[k]
    BY <1>4, <1>7, Added
  <2> HIDE DEF t
  <2>3. /\ 1 \in 1..Len(line) /\ 2 \in 1..Len(line) /\ Len(t) >= 2 /\ t[Len(t)] = l
    BY <1>10, <1>13, <2>1, <2>2
  <2>4. t[1] = line[1] /\ t[2] = line[2]
    BY <2>2, <2>3
  <2>5. Proper(t)
    BY <1>2, <1>10, <2>1, <2>2, <2>3, <2>4 DEF Proper
  <2>6. Last(line) \in Spoken
    <3>1. Last(line) = line[Len(line)] /\ Len(line) \in 1..Len(line)
      BY <1>10, <1>13, <2>1 DEF Last
    <3>2. line[Len(line)] \in Plain
      BY <1>7, <3>1
    <3> QED  BY <1>5, <1>10, <2>1, <3>1, <3>2
  <2>7. Words(Append(line, l)) = Prolonged(words, l)
    <3>1. line \in Seq(Characters)
      BY <1>7, <1>9
    <3> QED  BY <1>3, <1>4, <1>7, <2>1, <2>6, <3>1, WordsAdded
  <2> QED  BY <1>11, <2>5, <2>7 DEF t
<1> QED  BY <1>8, <1>15, <1>17, <1>18

\* and when it goes on with a letter or a digit.
LEMMA FitsSound ==
    ASSUME NEW text, NEW words, Fits(text, words), NEW x \in Marks, x # "space"
    PROVE  Fits(Append(text, x),
                IF Open(text) THEN Prolonged(words, x) ELSE Append(words, Spelled(x)))
<1> DEFINE more == Append(text, x)
           line == Joined(words)
           l == Small(x)
           new == IF Open(text) THEN Prolonged(words, x) ELSE Append(words, Spelled(x))
<1>1. /\ text \in Seq(Marks) /\ words \in Seq(Seq(Sounds)) /\ Proper(line)
      /\ Words(line) = words /\ Shown(text) = line \o Trail(text)
      /\ Open(text) => words # <<>>
  BY DEF Fits
<1>2. x \in Spoken /\ l \in Sounds /\ Spelled(x) = <<l>> /\ l \in Plain /\ "space" \in Plain
  BY Marked DEF Plain
<1>3. /\ more \in Seq(Marks) /\ Open(more) /\ Trail(more) = <<>>
      /\ Shown(more) = IF text = <<>> THEN Append(<<"space">>, l) ELSE Append(Shown(text), l)
      /\ text = <<>> => Shown(text) = <<>>
  BY <1>1, ShownGrows
<1>4. new \in Seq(Seq(Sounds)) /\ new # <<>>
  BY <1>1, <1>2, WordsGrow
<1>5. Proper(Joined(new)) /\ Words(Joined(new)) = new
  BY <1>1, WordsOfLine
<1>6. Joined(new) = IF Open(text) THEN Append(line, l) ELSE Append(Append(line, "space"), l)
  BY <1>1, <1>2, JoinedGrows
<1>7. line \in Seq(Plain) /\ Joined(new) \in Seq(Plain)
  BY <1>1, <1>5 DEF Proper
<1>8. line \o <<"space">> = Append(line, "space") /\ line \o <<>> = line
  BY <1>2, <1>7, Linked, ConcatEmptySeq
<1>9. Joined(new) \o <<>> = Joined(new)
  BY <1>7, ConcatEmptySeq
<1> HIDE DEF more, line, new, l
<1>10. Shown(more) = Joined(new)
  <2>1. CASE text = <<>>
    <3>1. ~ Open(text) /\ Trail(text) = <<>>
      BY <2>1 DEF Open, Trail
    <3>2. line = <<>>
      BY <1>1, <1>3, <1>8, <2>1, <3>1
    <3>3. Append(line, "space") = <<"space">>
      BY <3>2
    <3> QED  BY <1>3, <1>6, <2>1, <3>1, <3>3
  <2>2. CASE text # <<>> /\ Open(text)
    <3>1. Shown(text) = line
      BY <1>1, <1>8, <2>2 DEF Trail
    <3> QED  BY <1>3, <1>6, <2>2, <3>1
  <2>3. CASE text # <<>> /\ ~ Open(text)
    <3>1. Shown(text) = Append(line, "space")
      BY <1>1, <1>8, <2>3 DEF Trail
    <3> QED  BY <1>3, <1>6, <2>3, <3>1
  <2> QED  BY <2>1, <2>2, <2>3
<1>11. Fits(more, new)
  BY <1>3, <1>4, <1>5, <1>9, <1>10 DEF Fits
<1> QED  BY <1>11 DEF more, new

----------------------------------------------------------------------------
\* A text before its blanks are collapsed.
Folded == Letters \cup Digits \cup {"space", "comma"}

Mark(char) == IF char = "comma" THEN "space" ELSE char

Unfolded(raw) == FlattenSeq([i \in DOMAIN raw |-> Nfkc(raw[i])])

Cleaned(raw) == NoiseToBlank(Unfolded(raw))

\* NFKC spells the sign out, makes blanks spaces and leaves the rest alone.
LEMMA NfkcFolds ==
    ASSUME NEW c \in Characters
    PROVE  /\ Nfkc(c) \in Seq(Folded)
           /\ c \in Folded /\ c # "numero" => Nfkc(c) = <<c>>
           /\ c = "nbsp" => Nfkc(c) = <<"space">>
           /\ c = "numero" => Nfkc(c) = <<"N", "o">>
           /\ c \in Folded \cup {"nbsp", "numero"}
<1>1. c \in {"n", "o", "N", "O", "4", "5", "space", "nbsp", "numero", "comma"}
  BY DEF Characters, Letters, Digits, Blanks
<1>2. c \in Folded \cup {"nbsp", "numero"} /\ "space" \in Folded /\ "N" \in Folded /\ "o" \in Folded
  BY <1>1 DEF Folded, Letters, Digits
<1>3. CASE c = "numero"
  <2>1. Nfkc(c) = <<"N", "o">>
    BY <1>3 DEF Nfkc
  <2>2. <<"N", "o">> \in Seq(Folded)
    BY <1>2
  <2>3. Nfkc(c) \in Seq(Folded) /\ c # "nbsp"
    BY <1>3, <2>1, <2>2
  <2> QED  BY <1>2, <1>3, <2>1, <2>3
<1>4. CASE c = "nbsp"
  <2>1. Nfkc(c) = <<"space">> /\ c \notin Folded /\ c # "numero"
    BY <1>4 DEF Nfkc, Folded, Letters, Digits
  <2>2. <<"space">> \in Seq(Folded)
    BY <1>2
  <2>3. Nfkc(c) \in Seq(Folded)
    BY <2>1, <2>2
  <2> QED  BY <1>2, <2>1, <2>3
<1>5. CASE c # "numero" /\ c # "nbsp"
  <2>1. Nfkc(c) = <<c>> /\ c \in Folded
    BY <1>2, <1>5 DEF Nfkc
  <2> QED  BY <1>2, <1>5, <2>1
<1> QED  BY <1>3, <1>4, <1>5

\* NFKC goes character by character,
LEMMA UnfoldedGrows ==
    ASSUME NEW raw \in Seq(Characters)
    PROVE  /\ Unfolded(raw) \in Seq(Folded)
           /\ raw = <<>> => Unfolded(raw) = <<>>
           /\ \A c \in Characters : Unfolded(Append(raw, c)) = Unfolded(raw) \o Nfkc(c)
<1> DEFINE S == Seq(Folded)
           parts(t) == [i \in 1..Len(t) |-> Nfkc(t[i])]
<1>1. ASSUME NEW t \in Seq(Characters) PROVE Unfolded(t) = FlattenSeq(parts(t))
  <2>1. DOMAIN t = 1..Len(t)
    OBVIOUS
  <2>2. [i \in DOMAIN t |-> Nfkc(t[i])] = parts(t)
    BY <2>1
  <2> QED  BY <2>2 DEF Unfolded
<1>2. \A c \in Characters : Nfkc(c) \in S
  BY NfkcFolds
<1>3. \A t \in Seq(Characters) : \A i \in 1..Len(t) : t[i] \in Characters
  OBVIOUS
<1> HIDE DEF S
<1>4. \A t \in Seq(Characters) : parts(t) \in Seq(S) /\ Len(parts(t)) = Len(t)
  BY <1>2, <1>3
<1>5. Unfolded(raw) \in S /\ (raw = <<>> => Unfolded(raw) = <<>>)
  <2> DEFINE ss == parts(raw)
             n == Len(ss)
  <2>1. ss \in Seq(Seq(Folded)) /\ n \in Nat /\ n = Len(raw)
    BY <1>4 DEF S
  <2> HIDE DEF ss
  <2>2. PICK f \in [0..n -> Seq(Folded)] : Flattens(f, ss) /\ FlattenSeq(ss) = f[n]
    BY <2>1, Flattened
  <2> HIDE DEF n
  <2>3. f \in [0..n -> S] /\ n \in 0..n
    BY <2>1 DEF S
  <2>4. f[n] \in S
    BY <2>3
  <2>5. n = 0 => f[n] = <<>>
    BY <2>2 DEF Flattens
  <2>6. raw = <<>> => n = 0
    BY <2>1
  <2> QED  BY <1>1, <2>2, <2>4, <2>5, <2>6 DEF ss
<1>6. ASSUME NEW c \in Characters PROVE Unfolded(Append(raw, c)) = Unfolded(raw) \o Nfkc(c)
  <2> DEFINE more == Append(raw, c)
  <2>1. /\ more \in Seq(Characters) /\ Len(more) = Len(raw) + 1 /\ more[Len(raw) + 1] = c
        /\ \A k \in 1..Len(raw) : more[k] = raw[k]
    BY Added
  <2> HIDE DEF more
  <2>2. Len(raw) \in Nat /\ Nfkc(c) \in S
    BY <1>2
  <2>3. parts(more) = Append(parts(raw), Nfkc(c))
    <3> DEFINE p == parts(raw)
               q == parts(more)
    <3>1. p \in Seq(S) /\ Len(p) = Len(raw) /\ q \in Seq(S) /\ Len(q) = Len(raw) + 1
      BY <1>4, <2>1
    <3>2. \A k \in 1..Len(raw) : q[k] = p[k]
      BY <2>1, <2>2
    <3>3. q[Len(raw) + 1] = Nfkc(c)
      BY <2>1, <2>2
    <3> HIDE DEF p, q
    <3>4. /\ Append(p, Nfkc(c)) \in Seq(S) /\ Len(Append(p, Nfkc(c))) = Len(raw) + 1
          /\ Append(p, Nfkc(c))[Len(raw) + 1] = Nfkc(c)
          /\ \A k \in 1..Len(raw) : Append(p, Nfkc(c))[k] = p[k]
      BY <2>2, <3>1, AppendProperties
    <3>5. ASSUME NEW k \in 1..Len(raw) + 1 PROVE q[k] = Append(p, Nfkc(c))[k]
      <4>1. k \in 1..Len(raw) \/ k = Len(raw) + 1
        BY <2>2
      <4> QED  BY <3>2, <3>3, <3>4, <4>1
    <3>6. q = Append(p, Nfkc(c))
      BY <3>1, <3>4, <3>5, SeqEqual
    <3> QED  BY <3>6 DEF p, q
  <2>4. FlattenSeq(Append(parts(raw), Nfkc(c))) = FlattenSeq(parts(raw)) \o Nfkc(c)
    <3> DEFINE ss == parts(raw)
    <3>1. ss \in Seq(Seq(Folded)) /\ Nfkc(c) \in Seq(Folded)
      BY <1>4, <2>2 DEF S
    <3> HIDE DEF ss
    <3>2. FlattenSeq(Append(ss, Nfkc(c))) = FlattenSeq(ss) \o Nfkc(c)
      BY <3>1, FlattenAdded
    <3> QED  BY <3>2 DEF ss
  <2>5. Unfolded(more) = FlattenSeq(parts(more)) /\ Unfolded(raw) = FlattenSeq(parts(raw))
    BY <1>1, <2>1
  <2> QED  BY <2>3, <2>4, <2>5 DEF more
<1> QED  BY <1>5, <1>6 DEF S

\* and so does the blanking of punctuation.
LEMMA BlankedGrows ==
    ASSUME NEW t \in Seq(Folded)
    PROVE  /\ NoiseToBlank(t) \in Seq(Marks)
           /\ t = <<>> => NoiseToBlank(t) = <<>>
           /\ \A d \in Folded : Mark(d) \in Marks
                                /\ NoiseToBlank(Append(t, d)) = Append(NoiseToBlank(t), Mark(d))
<1>1. ASSUME NEW d \in Folded
      PROVE  Mark(d) \in Marks
             /\ Mark(d) = IF d \in Letters \cup Digits \cup Blanks THEN d ELSE "space"
  <2>1. d \in {"n", "o", "N", "O", "4", "5", "space", "comma"}
    BY DEF Folded, Letters, Digits
  <2> QED  BY <2>1 DEF Mark, Marks, Letters, Digits, Blanks
<1>2. ASSUME NEW s \in Seq(Folded) PROVE NoiseToBlank(s) = [i \in 1..Len(s) |-> Mark(s[i])]
  <2>1. \A i \in 1..Len(s) : s[i] \in Folded
    OBVIOUS
  <2>2. NoiseToBlank(s) = [i \in 1..Len(s) |->
            IF s[i] \in Letters \cup Digits \cup Blanks THEN s[i] ELSE "space"]
    BY DEF NoiseToBlank
  <2> QED  BY <1>1, <2>1, <2>2
<1> HIDE DEF NoiseToBlank, Mark
<1>3. ASSUME NEW s \in Seq(Folded)
      PROVE  NoiseToBlank(s) \in Seq(Marks) /\ Len(NoiseToBlank(s)) = Len(s)
             /\ \A i \in 1..Len(s) : NoiseToBlank(s)[i] = Mark(s[i])
  <2>1. \A i \in 1..Len(s) : s[i] \in Folded
    OBVIOUS
  <2>2. \A i \in 1..Len(s) : Mark(s[i]) \in Marks
    BY <1>1, <2>1
  <2> QED  BY <1>2, <2>2
<1>4. t = <<>> => NoiseToBlank(t) = <<>>
  <2>1. t = <<>> => Len(NoiseToBlank(t)) = 0
    BY <1>3
  <2> QED  BY <1>3, <2>1
<1>5. ASSUME NEW d \in Folded
      PROVE  NoiseToBlank(Append(t, d)) = Append(NoiseToBlank(t), Mark(d))
  <2> DEFINE s == Append(t, d)
             p == NoiseToBlank(t)
             q == NoiseToBlank(s)
             n == Len(t)
  <2>1. s \in Seq(Folded) /\ Len(s) = n + 1 /\ s[n + 1] = d /\ \A k \in 1..n : s[k] = t[k]
    BY Added
  <2>2. n \in Nat /\ Mark(d) \in Marks
    BY <1>1
  <2>3. p \in Seq(Marks) /\ Len(p) = n /\ \A k \in 1..n : p[k] = Mark(t[k])
    BY <1>3
  <2> HIDE DEF s
  <2>4. q \in Seq(Marks) /\ Len(q) = n + 1 /\ \A k \in 1..n + 1 : q[k] = Mark(s[k])
    BY <1>3, <2>1
  <2> HIDE DEF p, q, n
  <2>5. /\ Append(p, Mark(d)) \in Seq(Marks) /\ Len(Append(p, Mark(d))) = n + 1
        /\ Append(p, Mark(d))[n + 1] = Mark(d)
        /\ \A k \in 1..n : Append(p, Mark(d))[k] = p[k]
    BY <2>2, <2>3, AppendProperties
  <2>6. ASSUME NEW k \in 1..n + 1 PROVE q[k] = Append(p, Mark(d))[k]
    <3>1. k \in 1..n \/ k = n + 1
      BY <2>2
    <3> QED  BY <2>1, <2>3, <2>4, <2>5, <3>1
  <2>7. q = Append(p, Mark(d))
    BY <2>4, <2>5, <2>6, SeqEqual
  <2> QED  BY <2>7 DEF p, q, s
<1> QED  BY <1>1, <1>3, <1>4, <1>5

\* What a character more changes in a text before its blanks are collapsed.
LEMMA CleanedGrows ==
    ASSUME NEW raw \in Seq(Characters), NEW c \in Characters
    PROVE  /\ Cleaned(<<>>) = <<>>
           /\ c \in Letters \cup Digits => Cleaned(Append(raw, c)) = Append(Cleaned(raw), c)
           /\ c = "numero" =>
                Cleaned(Append(raw, c)) = Append(Append(Cleaned(raw), "N"), "o")
           /\ c \notin Spoken => Cleaned(Append(raw, c)) = Append(Cleaned(raw), "space")
<1> DEFINE t == Unfolded(raw)
<1>1. t \in Seq(Folded) /\ Unfolded(Append(raw, c)) = t \o Nfkc(c)
  BY UnfoldedGrows
<1>2. Cleaned(<<>>) = <<>>
  <2> DEFINE e == <<>>
  <2>1. e \in Seq(Characters) /\ e \in Seq(Folded)
    OBVIOUS
  <2>2. e = <<>>
    OBVIOUS
  <2> HIDE DEF e
  <2>3. Unfolded(e) = <<>> /\ NoiseToBlank(e) = <<>>
    BY <2>1, <2>2, UnfoldedGrows, BlankedGrows
  <2>4. Cleaned(e) = <<>>
    BY <2>2, <2>3 DEF Cleaned
  <2> QED  BY <2>2, <2>4
<1> HIDE DEF t
<1>3. ASSUME NEW d \in Folded PROVE NoiseToBlank(t \o <<d>>) = Append(NoiseToBlank(t), Mark(d))
  <2>1. t \o <<d>> = Append(t, d)
    BY <1>1, Linked
  <2> QED  BY <1>1, <2>1, BlankedGrows
<1>4. c \in {"n", "o", "N", "O", "4", "5", "space", "nbsp", "numero", "comma"}
  BY DEF Characters, Letters, Digits, Blanks
<1>5. ASSUME c \in Letters \cup Digits PROVE Cleaned(Append(raw, c)) = Append(Cleaned(raw), c)
  <2>1. c \in Folded /\ c # "numero" /\ Mark(c) = c
    BY <1>4, <1>5 DEF Folded, Mark, Letters, Digits
  <2>2. Nfkc(c) = <<c>>
    BY <2>1, NfkcFolds
  <2> QED  BY <1>1, <1>3, <2>1, <2>2 DEF Cleaned, t
<1>6. ASSUME c = "numero" PROVE Cleaned(Append(raw, c)) = Append(Append(Cleaned(raw), "N"), "o")
  <2>1. /\ "N" \in Folded /\ "o" \in Folded /\ Mark("N") = "N" /\ Mark("o") = "o"
    BY DEF Folded, Letters, Mark
  <2>2. Nfkc(c) = <<"N", "o">>
    BY <1>6, NfkcFolds
  <2>3. t \o <<"N">> = Append(t, "N") /\ Append(t, "N") \in Seq(Folded)
    BY <1>1, <2>1, Linked, Added
  <2>4. t \o <<"N", "o">> = Append(Append(t, "N"), "o")
    <3>1. <<"N", "o">> = Append(<<"N">>, "o") /\ <<"N">> \in Seq(Folded)
      BY <2>1
    <3>2. t \o Append(<<"N">>, "o") = Append(t \o <<"N">>, "o")
      BY <1>1, <2>1, <3>1, Linked
    <3> QED  BY <2>3, <3>1, <3>2
  <2>5. NoiseToBlank(Append(t, "N")) = Append(NoiseToBlank(t), "N")
    BY <1>1, <2>1, BlankedGrows
  <2>6. NoiseToBlank(Append(Append(t, "N"), "o")) = Append(NoiseToBlank(Append(t, "N")), "o")
    BY <2>1, <2>3, BlankedGrows
  <2> QED  BY <1>1, <2>2, <2>4, <2>5, <2>6 DEF Cleaned, t
<1>7. ASSUME c \notin Spoken PROVE Cleaned(Append(raw, c)) = Append(Cleaned(raw), "space")
  <2>1. c \in {"space", "nbsp", "comma"}
    BY <1>4, <1>7 DEF Spoken, Letters, Digits
  <2>2. /\ "space" \in Folded /\ "comma" \in Folded
        /\ Mark("space") = "space" /\ Mark("comma") = "space"
    BY DEF Folded, Mark
  <2>3. PICK d \in {"space", "comma"} : Nfkc(c) = <<d>>
    BY <2>1, <2>2, NfkcFolds
  <2> QED  BY <1>1, <1>3, <2>2, <2>3 DEF Cleaned, t
<1> QED  BY <1>2, <1>5, <1>6, <1>7

\* What is left of a text are its words, and it ends within one where the
\* text does.
Settled(raw) ==
    /\ Fits(Cleaned(raw), Words(raw))
    /\ Open(Cleaned(raw)) <=> raw # <<>> /\ Last(raw) \in Spoken

\* One character more does not unsettle a text.
LEMMA SettledGrows ==
    ASSUME NEW raw \in Seq(Characters), NEW c \in Characters, Settled(raw)
    PROVE  Settled(Append(raw, c))
<1> DEFINE more == Append(raw, c)
           text == Cleaned(raw)
           words == Words(raw)
           open == raw # <<>> /\ Last(raw) \in Spoken
<1>1. /\ Fits(text, words) /\ (Open(text) <=> open)
      /\ text \in Seq(Marks) /\ words \in Seq(Seq(Sounds))
      /\ Open(text) => words # <<>>
  BY DEF Settled, Fits
<1>2. more # <<>> /\ Last(more) = c
  <2>1. Len(more) = Len(raw) + 1 /\ Len(raw) \in Nat /\ Last(more) = c
    BY Added
  <2> QED  BY <2>1
<1>3. Words(more) = IF c \notin Spoken THEN words
                    ELSE IF open THEN Prolonged(words, c) ELSE Append(words, Spelled(c))
  BY WordsAdded
<1> HIDE DEF more, text, words, open
<1>4. ASSUME NEW t \in Seq(Marks), NEW x \in Marks PROVE Open(Append(t, x)) <=> x # "space"
  BY ShownGrows
<1>5. "space" \in Marks /\ "N" \in Marks /\ "o" \in Marks
  BY DEF Marks, Letters
<1>6. CASE c \notin Spoken
  <2>1. Cleaned(more) = Append(text, "space") /\ Words(more) = words
    BY <1>3, <1>6, CleanedGrows DEF more, text
  <2>2. Fits(Append(text, "space"), words)
    BY <1>1, FitsBlank
  <2>3. ~ Open(Append(text, "space"))
    BY <1>1, <1>4, <1>5
  <2> QED  BY <1>2, <1>6, <2>1, <2>2, <2>3 DEF Settled, more
<1>7. CASE c \in Letters \cup Digits
  <2>1. c \in Spoken /\ c \in Marks /\ c # "space"
    BY <1>7 DEF Spoken, Marks, Letters, Digits
  <2>2. Cleaned(more) = Append(text, c)
    BY <1>7, CleanedGrows DEF more, text
  <2>3. Fits(Append(text, c),
             IF Open(text) THEN Prolonged(words, c) ELSE Append(words, Spelled(c)))
    BY <1>1, <2>1, FitsSound
  <2>4. Words(more) = IF Open(text) THEN Prolonged(words, c) ELSE Append(words, Spelled(c))
    BY <1>1, <1>3, <2>1
  <2>5. Open(Append(text, c))
    BY <1>1, <1>4, <2>1
  <2> QED  BY <1>2, <2>1, <2>2, <2>3, <2>4, <2>5 DEF Settled, more
<1>8. CASE c = "numero"
  <2> DEFINE first == IF Open(text) THEN Prolonged(words, "N") ELSE Append(words, Spelled("N"))
             second == Prolonged(first, "o")
             once == Append(text, "N")
             twice == Append(once, "o")
  <2>1. c \in Spoken /\ "N" \in Spoken /\ "o" \in Spoken
    BY <1>8 DEF Spoken, Letters
  <2>2. Cleaned(more) = twice
    BY <1>8, CleanedGrows DEF more, text
  <2>3. Fits(once, first) /\ Open(once) /\ once \in Seq(Marks)
    BY <1>1, <1>4, <1>5, FitsSound, ShownGrows
  <2>4. Fits(twice, second) /\ Open(twice)
    <3> HIDE DEF first, once
    <3>1. Fits(twice, IF Open(once) THEN second ELSE Append(first, Spelled("o")))
      BY <1>5, <2>3, FitsSound
    <3> QED  BY <1>4, <1>5, <2>3, <3>1
  <2>5. /\ Spelled("N") = <<"n">> /\ Spelled("o") = <<"o">> /\ Spelled(c) = <<"n", "o">>
        /\ Spelled("N") \in Seq(Sounds) /\ Spelled(c) \in Seq(Sounds)
    <3>1. Spelled("N") = <<Small("N")>> /\ Spelled("o") = <<Small("o")>>
      BY <1>5, Marked
    <3>2. Spelled(c) = <<"n", "o">>
      BY <1>8 DEF Spelled
    <3>3. Small("N") = "n" /\ Small("o") = "o"
      BY DEF Small
    <3> QED  BY <2>1, <3>1, <3>2, <3>3, SpelledSounds
  <2>6. second = IF Open(text) THEN Prolonged(words, c) ELSE Append(words, Spelled(c))
    <3> DEFINE W == Seq(Sounds)
    <3>1. ASSUME NEW front \in Seq(W), NEW last \in W
          PROVE  Prolonged(Append(front, last), "o") = Append(front, last \o <<"o">>)
      <4>1. Front(Append(front, last)) = front /\ Last(Append(front, last)) = last
        <5> HIDE DEF W
        <5> QED  BY Added
      <4> QED  BY <2>5, <4>1 DEF Prolonged
    <3>2. "n" \in Sounds /\ "o" \in Sounds
      BY DEF Sounds
    <3>3. CASE Open(text)
      <4> DEFINE front == Front(words)
                 last == Last(words)
      <4>1. front \in Seq(W) /\ last \in W /\ first = Append(front, last \o <<"n">>)
        BY <1>1, <2>1, <2>5, <3>3, WordsGrow DEF Prolonged
      <4>2. Prolonged(words, c) = Append(front, last \o <<"n", "o">>)
        BY <2>5 DEF Prolonged
      <4> HIDE DEF front, last, first
      <4>3. last \o <<"n">> \in W /\ (last \o <<"n">>) \o <<"o">> = last \o <<"n", "o">>
        <5>1. <<"n">> \in W /\ <<"n", "o">> = Append(<<"n">>, "o")
          BY <3>2
        <5>2. last \o <<"n">> \in W /\ last \o Append(<<"n">>, "o") = Append(last \o <<"n">>, "o")
          BY <3>2, <4>1, <5>1, Linked
        <5>3. (last \o <<"n">>) \o <<"o">> = Append(last \o <<"n">>, "o")
          BY <3>2, <5>1, <5>2, Linked
        <5> QED  BY <5>1, <5>2, <5>3
      <4>4. second = Append(front, (last \o <<"n">>) \o <<"o">>)
        BY <3>1, <4>1, <4>3
      <4> QED  BY <3>3, <4>2, <4>3, <4>4
    <3>4. CASE ~ Open(text)
      <4>1. first = Append(words, <<"n">>) /\ <<"n">> \in W
        BY <2>5, <3>4
      <4>2. <<"n">> \o <<"o">> = <<"n", "o">>
        <5>1. <<"n">> \o <<"o">> = Append(<<"n">>, "o")
          BY <3>2, <4>1, Linked
        <5>2. <<"n", "o">> = Append(<<"n">>, "o")
          BY <3>2
        <5> QED  BY <5>1, <5>2
      <4> HIDE DEF first, W
      <4>3. words \in Seq(W)
        BY <1>1 DEF W
      <4>4. second = Append(words, <<"n">> \o <<"o">>)
        BY <3>1, <4>1, <4>3
      <4> QED  BY <2>5, <3>4, <4>2, <4>4
    <3> QED  BY <3>3, <3>4
  <2>7. Words(more) = second
    <3> HIDE DEF second
    <3> QED  BY <1>1, <1>3, <2>1, <2>6
  <2> HIDE DEF second, twice
  <2> QED  BY <1>2, <2>1, <2>2, <2>4, <2>7 DEF Settled, more
<1>9. c \in Letters \cup Digits \/ c = "numero" \/ c \notin Spoken
  BY DEF Spoken
<1> QED  BY <1>6, <1>7, <1>8, <1>9

\* By induction over how much of it was read, every text is settled.
LEMMA AllSettled ==
    ASSUME NEW raw \in Seq(Characters)
    PROVE  Settled(raw)
<1> DEFINE n == Len(raw)
           S == {k \in 0..n : Settled(SubSeq(raw, 1, k))}
<1>1. n \in Nat
  OBVIOUS
<1>2. 0 \in S
  <2> DEFINE e == <<>>
  <2>1. "space" \in Characters /\ e \in Seq(Characters)
    BY DEF Characters, Blanks
  <2> HIDE DEF e
  <2>2. Cleaned(e) = e /\ Words(e) = e
    BY <2>1, CleanedGrows, WordsAdded DEF e
  <2>3. Fits(e, e) /\ ~ Open(e)
    BY FitsNothing DEF Open, e
  <2>4. Settled(e)
    BY <2>2, <2>3 DEF Settled, e
  <2>5. SubSeq(raw, 1, 0) = e
    BY DEF e
  <2>6. Settled(SubSeq(raw, 1, 0))
    BY <2>4, <2>5, Zenon
  <2>7. 0 \in 0..n
    BY <1>1
  <2> QED  BY <2>6, <2>7
<1>3. ASSUME NEW k \in 1..n, k - 1 \in S PROVE k \in S
  <2> DEFINE a == SubSeq(raw, 1, k - 1)
             b == SubSeq(raw, 1, k)
  <2>1. k \in 0..n /\ k - 1 \in 0..n
    BY <1>1
  <2>2. a \in Seq(Characters) /\ Len(a) = k - 1 /\ raw[k] \in Characters
    BY <1>1, <2>1
  <2>3. b \in Seq(Characters) /\ Len(b) = k
    BY <1>1, <2>1
  <2>4. /\ \A i \in 1..k : b[i] = raw[i]
        /\ \A i \in 1..k - 1 : a[i] = raw[i]
    BY <1>1, <2>1
  <2>5. Settled(a)
    BY <1>3
  <2> HIDE DEF a, b
  <2>6. b = Append(a, raw[k])
    <3>1. /\ Append(a, raw[k]) \in Seq(Characters) /\ Len(Append(a, raw[k])) = k
          /\ Append(a, raw[k])[k] = raw[k]
          /\ \A i \in 1..k - 1 : Append(a, raw[k])[i] = a[i]
      BY <1>1, <2>2, AppendProperties
    <3>2. ASSUME NEW i \in 1..k PROVE b[i] = Append(a, raw[k])[i]
      <4>1. i = k \/ i \in 1..k - 1
        BY <1>1
      <4> QED  BY <2>4, <3>1, <4>1
    <3> QED  BY <2>3, <3>1, <3>2, SeqEqual
  <2>7. Settled(b)
    BY <2>2, <2>5, <2>6, SettledGrows
  <2> QED  BY <2>1, <2>7 DEF b
<1>4. n \in S
  <2> HIDE DEF S, n
  <2>1. \A k \in 0..n : k \in S
    BY <1>1, <1>2, <1>3, UpToAll
  <2> QED  BY <1>1, <2>1
<1>5. SubSeq(raw, 1, n) = raw
  OBVIOUS
<1> QED  BY <1>4, <1>5

----------------------------------------------------------------------------
\* The words without the blank before the first.
LEMMA StripsToWords ==
    ASSUME NEW text, NEW words, Fits(text, words)
    PROVE  Lower(Strip(CollapseBlanks(text)))
             = IF Joined(words) = <<>> THEN <<>>
               ELSE SubSeq(Joined(words), 2, Len(Joined(words)))
<1> DEFINE c == CollapseBlanks(text)
           low == Lower(c)
           line == Joined(words)
           lead == Lead(text)
           trail == Trail(text)
           n == Len(line)
           a == Len(lead)
           shown == {i \in DOMAIN c : c[i] \notin Blanks}
<1>1. /\ text \in Seq(Marks) /\ lead \o low = line \o trail /\ Proper(line)
  BY DEF Fits, Shown
<1>2. c \in Seq(Marks)
  <2>1. "space" \in Marks
    BY DEF Marks
  <2> QED  BY <1>1, <2>1, CollapseAdded
<1>3. low \in Seq(Plain) /\ Len(low) = Len(c) /\ \A i \in 1..Len(c) : low[i] = Small(c[i])
  BY <1>2, Lowered
<1>4. ASSUME NEW i \in 1..Len(c) PROVE c[i] \in Blanks <=> low[i] = "space"
  <2>1. c[i] \in Marks
    BY <1>2
  <2> QED  BY <1>3, <2>1, Marked
<1>5. "space" \in Plain
  BY DEF Plain
<1>6. /\ lead \in Seq(Plain) /\ a \in {0, 1}
      /\ trail \in Seq(Plain) /\ Len(trail) \in {0, 1}
      /\ \A i \in 1..Len(trail) : trail[i] = "space"
  BY <1>5 DEF Lead, Trail
<1>7. line \in Seq(Plain) /\ n \in Nat /\ (line = <<>> <=> n = 0)
      /\ (n # 0 => n >= 2 /\ line[1] = "space" /\ line[2] # "space" /\ line[n] # "space")
  BY <1>1 DEF Proper
<1>8. Len(c) \in Nat /\ DOMAIN c = 1..Len(c)
  BY <1>2
<1> HIDE DEF c, low, line, lead, trail
<1>9. Len(c) + a = n + Len(trail)
  <2>1. Len(lead \o low) = Len(lead) + Len(low)
    BY <1>3, <1>6, ConcatProperties
  <2>2. Len(line \o trail) = Len(line) + Len(trail)
    BY <1>6, <1>7, ConcatProperties
  <2> QED  BY <1>1, <1>3, <1>6, <1>8, <2>1, <2>2
<1>10. ASSUME NEW i \in 1..Len(c)
       PROVE  low[i] = IF i + a <= n THEN line[i + a] ELSE "space"
  <2>1. low[i] = (lead \o low)[i + a]
    <3>1. i + a \in a + 1..a + Len(low) /\ (i + a) - a = i
      BY <1>3, <1>6, <1>8
    <3> QED  BY <1>3, <1>6, <3>1
  <2>2. CASE i + a <= n
    <3>1. i + a \in 1..n
      BY <1>6, <1>7, <1>8, <2>2
    <3>2. (line \o trail)[i + a] = line[i + a]
      BY <1>6, <1>7, <3>1
    <3> QED  BY <1>1, <2>1, <2>2, <3>2
  <2>3. CASE ~ (i + a <= n)
    <3>1. i + a \in n + 1..n + Len(trail) /\ (i + a) - n \in 1..Len(trail)
      BY <1>6, <1>7, <1>8, <1>9, <2>3
    <3>2. (line \o trail)[i + a] = trail[(i + a) - n]
      BY <1>6, <1>7, <3>1
    <3> QED  BY <1>1, <1>6, <2>1, <2>3, <3>1, <3>2
  <2> QED  BY <2>2, <2>3
<1> HIDE DEF n, a
<1>11. ASSUME NEW i \in 1..Len(c)
       PROVE  c[i] \notin Blanks <=> i + a <= n /\ line[i + a] # "space"
  BY <1>4, <1>10
<1>12. Strip(c) = IF shown = {} THEN <<>> ELSE SubSeq(c, Min(shown), Max(shown))
  BY DEF Strip
<1>13. CASE n = 0
  <2>1. shown = {}
    BY <1>6, <1>7, <1>8, <1>11, <1>13
  <2>2. Strip(c) = <<>>
    BY <1>12, <2>1
  <2> DEFINE e == <<>>
  <2>3. e \in Seq(Marks) /\ Len(e) = 0
    OBVIOUS
  <2> HIDE DEF e
  <2>4. Lower(e) \in Seq(Plain) /\ Len(Lower(e)) = 0
    BY <2>3, Lowered
  <2>5. Lower(e) = <<>>
    BY <2>4
  <2>6. Lower(<<>>) = <<>>
    BY <2>5 DEF e
  <2> QED  BY <1>7, <1>13, <2>2, <2>6 DEF c, line
<1>14. CASE n # 0
  <2>1. 2 - a \in 1..Len(c) /\ n - a \in 1..Len(c)
    BY <1>6, <1>7, <1>8, <1>9, <1>14
  <2>2. 2 - a \in shown /\ n - a \in shown
    <3>1. (2 - a) + a = 2 /\ (n - a) + a = n /\ 2 <= n /\ n <= n
      BY <1>6, <1>7, <1>14
    <3>2. c[2 - a] \notin Blanks /\ c[n - a] \notin Blanks
      BY <1>7, <1>11, <1>14, <2>1, <3>1
    <3> QED  BY <1>8, <2>1, <3>2
  <2>3. ASSUME NEW i \in shown PROVE i \in Int /\ 2 - a <= i /\ i <= n - a
    <3>1. i \in 1..Len(c) /\ i + a <= n /\ line[i + a] # "space"
      BY <1>8, <1>11
    <3>2. i + a # 1
      BY <1>7, <1>14, <3>1
    <3> QED  BY <1>6, <1>7, <1>8, <3>1, <3>2
  <2>4. 2 - a \in Int /\ n - a \in Int
    BY <1>6, <1>7
  <2> HIDE DEF shown
  <2>5. Min(shown) = 2 - a
    <3>1. \A x \in shown : (\A y \in shown : x <= y) => x = 2 - a
      BY <2>2, <2>3, <2>4
    <3>2. 2 - a \in shown /\ \A y \in shown : 2 - a <= y
      BY <2>2, <2>3
    <3> QED  BY <3>1, <3>2 DEF Min
  <2>6. Max(shown) = n - a
    <3>1. \A x \in shown : (\A y \in shown : x >= y) => x = n - a
      BY <2>2, <2>3, <2>4
    <3>2. n - a \in shown /\ \A y \in shown : n - a >= y
      BY <2>2, <2>3, <2>4
    <3> QED  BY <3>1, <3>2 DEF Max
  <2> DEFINE s == SubSeq(c, 2 - a, n - a)
             r == SubSeq(line, 2, n)
  <2>7. Strip(c) = s
    BY <1>12, <2>2, <2>5, <2>6
  <2>8. s \in Seq(Marks) /\ Len(s) = n - 1 /\ \A i \in 1..n - 1 : s[i] = c[i + 1 - a]
    <3>1. (n - a) - (2 - a) + 1 = n - 1 /\ 2 - a <= (n - a) + 1 /\ n - 1 \in Nat
      BY <1>6, <1>7, <1>14
    <3>2. \A i \in 2 - a..n - a : c[i] \in Marks
      BY <1>2, <1>6, <1>7, <1>8, <2>1
    <3>3. s = [i \in 1..n - 1 |-> c[i + (2 - a) - 1]]
      BY <2>4, <3>1
    <3>4. \A i \in 1..n - 1 : i + (2 - a) - 1 = i + 1 - a /\ i + 1 - a \in 2 - a..n - a
      BY <1>6, <1>7
    <3>5. s = [i \in 1..n - 1 |-> c[i + 1 - a]]
      BY <3>3, <3>4
    <3> HIDE DEF s
    <3> QED  BY <3>1, <3>2, <3>4, <3>5
  <2>9. r \in Seq(Plain) /\ Len(r) = n - 1 /\ \A i \in 1..n - 1 : r[i] = line[i + 1]
    <3>1. n - 2 + 1 = n - 1 /\ n - 1 \in Nat
      BY <1>7, <1>14
    <3>2. \A i \in 1..n - 1 : i + 1 \in 1..n /\ i + 2 - 1 = i + 1
      BY <1>7
    <3>3. r = [i \in 1..n - 1 |-> line[i + 2 - 1]]
      BY <1>7, <3>1
    <3>4. r = [i \in 1..n - 1 |-> line[i + 1]]
      BY <3>2, <3>3
    <3>5. \A i \in 1..n - 1 : line[i + 1] \in Plain
      BY <1>7, <3>2 DEF n
    <3> HIDE DEF r
    <3> QED  BY <3>1, <3>4, <3>5
  <2> HIDE DEF s, r
  <2>10. Lower(s) \in Seq(Plain) /\ Len(Lower(s)) = n - 1
         /\ \A i \in 1..n - 1 : Lower(s)[i] = Small(s[i])
    BY <2>8, Lowered
  <2>11. ASSUME NEW i \in 1..n - 1 PROVE Lower(s)[i] = r[i]
    <3>1. i + 1 - a \in 1..Len(c) /\ (i + 1 - a) + a = i + 1 /\ i + 1 <= n
      BY <1>6, <1>7, <1>8, <1>9, <1>14
    <3>2. low[i + 1 - a] = line[i + 1]
      BY <1>10, <3>1
    <3>3. Small(c[i + 1 - a]) = line[i + 1]
      BY <1>3, <3>1, <3>2
    <3> QED  BY <2>8, <2>9, <2>10, <3>3
  <2>12. Lower(s) = r
    BY <2>9, <2>10, <2>11, SeqEqual
  <2> QED  BY <1>7, <1>14, <2>7, <2>12 DEF c, line, r, n
<1> QED  BY <1>13, <1>14

\* normalize_description tells two texts apart just where their words differ.
THEOREM TextsKeepWords ==
    ASSUME NEW s \in Seq(Characters), NEW t \in Seq(Characters)
    PROVE  NormalizeDescription(s) = NormalizeDescription(t) <=> Words(s) = Words(t)
<1> DEFINE Rest(line) == IF line = <<>> THEN <<>> ELSE SubSeq(line, 2, Len(line))
<1>1. ASSUME NEW raw \in Seq(Characters)
      PROVE  /\ NormalizeDescription(raw) = Rest(Joined(Words(raw)))
             /\ Proper(Joined(Words(raw)))
             /\ Words(Joined(Words(raw))) = Words(raw)
  <2>1. Fits(Cleaned(raw), Words(raw))
    BY AllSettled DEF Settled
  <2>2. NormalizeDescription(raw) = Lower(Strip(CollapseBlanks(Cleaned(raw))))
    BY DEF NormalizeDescription, Cleaned, Unfolded
  <2>3. NormalizeDescription(raw) = Rest(Joined(Words(raw)))
    BY <2>1, <2>2, StripsToWords
  <2> QED  BY <2>1, <2>3 DEF Fits
<1>2. ASSUME NEW j, NEW k, Proper(j), Proper(k), Rest(j) = Rest(k)
      PROVE  j = k
  <2>1. /\ j \in Seq(Plain) /\ k \in Seq(Plain) /\ Len(j) \in Nat /\ Len(k) \in Nat
        /\ j # <<>> => Len(j) >= 2 /\ j[1] = "space"
        /\ k # <<>> => Len(k) >= 2 /\ k[1] = "space"
    BY <1>2 DEF Proper
  <2>2. ASSUME NEW l \in Seq(Plain), l # <<>>, Len(l) >= 2
        PROVE  /\ Len(Rest(l)) = Len(l) - 1 /\ Rest(l) # <<>>
               /\ \A i \in 2..Len(l) : Rest(l)[i - 1] = l[i]
    <3>1. Rest(l) = [i \in 1..Len(l) - 1 |-> l[i + 1]]
      BY <2>2
    <3> HIDE DEF Rest
    <3>5. Len(l) \in Nat /\ Len(l) >= 2
      BY <2>2, LenProperties
    <3> DEFINE m == Len(l)
    <3>6. m \in Nat /\ m >= 2
      BY <3>5
    <3> HIDE DEF m
    <3>7. m - 1 \in Nat /\ m - 1 # 0
      BY <3>6
    <3>2. Len(l) \in Nat /\ Len(l) - 1 \in Nat /\ Len(l) - 1 # 0
      BY <3>5, <3>7 DEF m
    <3>3. Len(Rest(l)) = Len(l) - 1
      BY <3>1, <3>2
    <3>4. \A i \in 2..Len(l) : i - 1 \in 1..Len(l) - 1 /\ (i - 1) + 1 = i
      BY <3>2
    <3> QED  BY <3>1, <3>2, <3>3, <3>4
  <2>5. (j = <<>> => Rest(j) = <<>>) /\ (k = <<>> => Rest(k) = <<>>)
    OBVIOUS
  <2> HIDE DEF Rest
  <2>3. CASE j = <<>> \/ k = <<>>
    BY <1>2, <2>1, <2>2, <2>3, <2>5
  <2>4. CASE j # <<>> /\ k # <<>>
    <3>1. Len(j) = Len(k)
      BY <1>2, <2>1, <2>2, <2>4
    <3>2. ASSUME NEW i \in 1..Len(j) PROVE j[i] = k[i]
      <4>1. CASE i = 1
        BY <2>1, <2>4, <4>1
      <4>2. CASE i # 1
        <5>1. i \in 2..Len(j) /\ i \in 2..Len(k)
          BY <2>1, <3>1, <4>2
        <5>2. Rest(j)[i - 1] = j[i] /\ Rest(k)[i - 1] = k[i]
          BY <2>1, <2>2, <2>4, <5>1
        <5> QED  BY <1>2, <5>2
      <4> QED  BY <4>1, <4>2
    <3> QED  BY <2>1, <3>1, <3>2, SeqEqual
  <2> QED  BY <2>3, <2>4
<1> HIDE DEF Rest
<1>3. ASSUME Words(s) = Words(t) PROVE NormalizeDescription(s) = NormalizeDescription(t)
  BY <1>1, <1>3
<1>4. ASSUME NormalizeDescription(s) = NormalizeDescription(t) PROVE Words(s) = Words(t)
  <2>1. Joined(Words(s)) = Joined(Words(t))
    BY <1>1, <1>2, <1>4
  <2> QED  BY <1>1, <2>1
<1> QED  BY <1>3, <1>4

----------------------------------------------------------------------------
(* Collisions. *)

\* The keys of two entries are the same when the entries say the same.
LEMMA SameKeySaysTheSame ==
    ASSUME Collected, NEW d \in DOMAIN entries, NEW e \in DOMAIN entries
    PROVE  Key(d) = Key(e) <=> SayTheSame(d, e)
<1>1. Tx(d).description \in Descriptions /\ Tx(e).description \in Descriptions
  BY EntryType
<1>2. NormalizeDescription(Tx(d).description) = NormalizeDescription(Tx(e).description)
        <=> Words(Tx(d).description) = Words(Tx(e).description)
  BY <1>1, DescriptionsAreTexts, TextsKeepWords
<1>3. Key(d) = Key(e) <=>
        /\ entries[d].account = entries[e].account
        /\ Minute(Tx(d).at) = Minute(Tx(e).at)
        /\ Tx(d).minor = Tx(e).minor
        /\ Tx(d).currency = Tx(e).currency
        /\ NormalizeDescription(Tx(d).description) = NormalizeDescription(Tx(e).description)
  BY DEF Key, DedupHash, Tx
<1> QED  BY <1>2, <1>3 DEF SayTheSame

\* The collisions printed are the rows that repeat an earlier one of their
\* account, and no others (reconcile.py:93-112).
THEOREM CollisionsAreTheRepeats == Spec => []CollisionsAreRepeats
<1>1. ASSUME ReconcileInv PROVE CollisionsAreRepeats
  <2> SUFFICES ASSUME phase = "done"
               PROVE  collisions =
                   Cardinality({e \in DOMAIN entries : \E d \in 1 .. e - 1 : SayTheSame(d, e)})
    BY DEF CollisionsAreRepeats
  <2> USE DEF ReconcileInv
  <2>1. Len(entries) \in Nat /\ DOMAIN entries = 1..Len(entries)
    BY <1>1 DEF Collected
  <2>2. collisions = Cardinality(Repeats(Len(entries)))
    BY <1>1 DEF LookedUp
  <2>3. ASSUME NEW e \in 1..Len(entries), NEW d \in 1 .. e - 1
        PROVE  Key(d) = Key(e) <=> SayTheSame(d, e)
    <3>1. d \in 1..Len(entries)
      BY <2>1
    <3> QED  BY <1>1, <2>1, <3>1, SameKeySaysTheSame
  <2>4. Repeats(Len(entries))
            = {e \in DOMAIN entries : \E d \in 1 .. e - 1 : SayTheSame(d, e)}
    BY <2>1, <2>3 DEF Repeats
  <2> QED  BY <2>2, <2>4
<1> QED  BY <1>1, ReconcileInvariant, PTL

=============================================================================
