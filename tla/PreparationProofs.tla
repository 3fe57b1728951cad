--------------------------- MODULE PreparationProofs ---------------------------
(***************************************************************************)
(* What is planned is what was confirmed, shown and packaged, for any      *)
(* workbooks, mappings, drafts and number of commands, however the readings*)
(* of a command and the writes of users and other commands fall.  And the  *)
(* locks of a contract order its cases, however many there are.            *)
(*                                                                         *)
(* Half of it is about lists: what the reader keeps of the rows, puts one  *)
(* after the other, and fills in rule by rule.                             *)
(***************************************************************************)
EXTENDS Preparation, FiniteSetTheorems, SequenceTheorems, WellFoundedInduction, TLAPS

-----------------------------------------------------------------------------
(* Lists                                                                   *)

\* The k-th place that is kept is the one with k chosen places up to it.
Upto(chosen, i) == {j \in chosen : j <= i}

\* The places that are kept are numbered 1, 2, ... without a gap, in their order.
LEMMA KeptPlaces ==
  ASSUME NEW n \in Nat, NEW chosen \in SUBSET (1..n)
  PROVE  /\ IsFiniteSet(chosen) /\ Cardinality(chosen) \in 0..n
         /\ \A i \in chosen : Cardinality(Upto(chosen, i)) \in 1..Cardinality(chosen)
         /\ \A k \in 1..Cardinality(chosen) : \E i \in chosen : Cardinality(Upto(chosen, i)) = k
         /\ \A i, j \in chosen : i # j =>
              Cardinality(Upto(chosen, i)) # Cardinality(Upto(chosen, j))
<1> DEFINE N == Cardinality(chosen)
           rank == [i \in chosen |-> Cardinality(Upto(chosen, i))]
<1>1. IsFiniteSet(chosen) /\ N \in 0..n
  <2>1. IsFiniteSet(1..n) /\ Cardinality(1..n) = n
    BY FS_Interval
  <2>2. IsFiniteSet(chosen) /\ Cardinality(chosen) <= Cardinality(1..n)
    BY <2>1, FS_Subset
  <2>3. Cardinality(chosen) \in Nat
    BY <2>2, FS_CardinalityType
  <2> QED
    BY <2>1, <2>2, <2>3
<1>2. ASSUME NEW i \in chosen
      PROVE  IsFiniteSet(Upto(chosen, i)) /\ Cardinality(Upto(chosen, i)) \in 1..N
  <2>1. Upto(chosen, i) \in SUBSET chosen
    BY DEF Upto
  <2>2. /\ IsFiniteSet(Upto(chosen, i)) /\ Cardinality(Upto(chosen, i)) <= N
        /\ Cardinality(Upto(chosen, i)) \in Nat
    BY <1>1, <2>1, FS_Subset, FS_CardinalityType
  <2>3. i \in Upto(chosen, i)
    BY DEF Upto
  <2>4. Cardinality(Upto(chosen, i)) # 0
    BY <2>2, <2>3, FS_EmptySet
  <2> QED
    BY <1>1, <2>2, <2>4
<1>3. ASSUME NEW i \in chosen, NEW j \in chosen, i < j
      PROVE  Cardinality(Upto(chosen, i)) < Cardinality(Upto(chosen, j))
  <2>1. /\ Upto(chosen, i) \in SUBSET (Upto(chosen, j) \ {j}) /\ j \in Upto(chosen, j)
    <3>1. j \in Upto(chosen, j)
      BY DEF Upto
    <3>2. ASSUME NEW k \in chosen, k <= i
          PROVE  k <= j /\ k # j
      BY <1>3, <3>2
    <3> QED
      BY <3>1, <3>2 DEF Upto
  <2>2. /\ IsFiniteSet(Upto(chosen, j) \ {j})
        /\ Cardinality(Upto(chosen, j) \ {j}) = Cardinality(Upto(chosen, j)) - 1
    BY <1>2, <2>1, FS_RemoveElement
  <2>3. Cardinality(Upto(chosen, i)) <= Cardinality(Upto(chosen, j)) - 1
    BY <2>1, <2>2, FS_Subset
  <2> QED
    BY <1>2, <2>3
<1>4. ASSUME NEW i \in chosen, NEW j \in chosen, i # j
      PROVE  Cardinality(Upto(chosen, i)) # Cardinality(Upto(chosen, j))
  <2>1. i < j \/ j < i
    BY <1>4
  <2> QED
    BY <1>2, <1>3, <2>1
<1>5. rank \in Injection(chosen, 1..N)
  BY <1>2, <1>4 DEF Injection, IsInjective
<1>6. rank \in Surjection(chosen, 1..N)
  <2>1. IsFiniteSet(1..N) /\ Cardinality(1..N) = N
    BY <1>1, FS_Interval
  <2> HIDE DEF rank
  <2> QED
    BY <1>5, <2>1, FS_Injection
<1>7. \A k \in 1..N : \E i \in chosen : Cardinality(Upto(chosen, i)) = k
  BY <1>6 DEF Surjection
<1> QED
  BY <1>1, <1>2, <1>4, <1>7

\* What is kept is at the chosen places, and what is at a chosen place is kept.
LEMMA KeptElements ==
  ASSUME NEW V, NEW s \in Seq(V), NEW chosen \in SUBSET DOMAIN s
  PROVE  /\ DOMAIN Kept(s, chosen) = 1..Cardinality(chosen) /\ Cardinality(chosen) \in Nat
         /\ \A k \in DOMAIN Kept(s, chosen) : \E i \in chosen : Kept(s, chosen)[k] = s[i]
         /\ \A i \in chosen : \E k \in DOMAIN Kept(s, chosen) : Kept(s, chosen)[k] = s[i]
         /\ \A W : (\A i \in chosen : s[i] \in W) => Kept(s, chosen) \in Seq(W)
<1> DEFINE N == Cardinality(chosen)
           at(k) == CHOOSE i \in chosen : Cardinality(Upto(chosen, i)) = k
<1>1. Kept(s, chosen) = [k \in 1..N |-> s[at(k)]]
  BY DEF Kept, Upto
<1>0. Len(s) \in Nat /\ chosen \in SUBSET (1..Len(s))
  OBVIOUS
<1>2. N \in Nat /\ \A k \in 1..N : at(k) \in chosen /\ Cardinality(Upto(chosen, at(k))) = k
  BY <1>0, KeptPlaces
<1>3. \A i \in chosen : \E k \in 1..N : at(k) = i
  <2> TAKE i \in chosen
  <2> DEFINE k == Cardinality(Upto(chosen, i))
  <2>1. k \in 1..N
    BY <1>0, KeptPlaces
  <2>2. at(k) \in chosen /\ Cardinality(Upto(chosen, at(k))) = k
    BY <1>2, <2>1
  <2>3. at(k) = i
    <3> HIDE DEF at
    <3> QED
      BY <1>0, <2>2, KeptPlaces
  <2> QED
    BY <2>1, <2>3
<1>4. ASSUME NEW W, \A i \in chosen : s[i] \in W
      PROVE  [k \in 1..N |-> s[at(k)]] \in Seq(W)
  <2>1. \A k \in 1..N : s[at(k)] \in W
    BY <1>2, <1>4
  <2> HIDE DEF at, N
  <2> QED
    BY <1>2, <2>1
<1> HIDE DEF at
<1> QED
  BY <1>1, <1>2, <1>3, <1>4

\* Who keeps every place keeps the sequence.
LEMMA KeptAll ==
  ASSUME NEW V, NEW s \in Seq(V)
  PROVE  Kept(s, DOMAIN s) = s
<1> DEFINE n == Len(s)
           at(k) == CHOOSE i \in 1..n : Cardinality(Upto(1..n, i)) = k
<1>1. n \in Nat /\ DOMAIN s = 1..n
  OBVIOUS
<1>2. ASSUME NEW i \in 1..n
      PROVE  Cardinality(Upto(1..n, i)) = i
  <2>1. Upto(1..n, i) = 1..i
    BY <1>1 DEF Upto
  <2> QED
    BY <2>1, FS_Interval
<1>3. \A k \in 1..n : at(k) = k
  BY <1>2
<1>4. Cardinality(1..n) = n
  BY <1>1, FS_Interval
<1>5. Kept(s, DOMAIN s) = [k \in 1..n |-> s[at(k)]]
  BY <1>1, <1>4 DEF Kept, Upto
<1> HIDE DEF at
<1> QED
  BY <1>1, <1>3, <1>5

\* A nonempty set of numbers has a least element.
LEMMA Least ==
  ASSUME NEW T, T \subseteq Nat, T # {}
  PROVE  \E m \in T : \A n \in T : m <= n
<1> DEFINE R == {ss \in Nat \X Nat : ss[1] < ss[2]}
<1>1. IsWellFoundedOn(R, Nat)
  BY NatLessThanWellFounded DEF OpToRel
<1>2. PICK m \in T : \A n \in T : <<n, m>> \notin R
  <2> HIDE DEF R
  <2> QED
    BY <1>1, WFMin
<1>3. ASSUME NEW n \in T PROVE m <= n
  <2>1. ~(<<n, m>>[1] < <<n, m>>[2])
    BY <1>2
  <2>2. m \in Nat /\ n \in Nat /\ ~(n < m)
    BY <2>1
  <2> QED
    BY <2>2
<1> QED
  BY <1>3

\* What holds of 0 and of the next number holds of all.
LEMMA Induction ==
  ASSUME NEW n \in Nat, NEW T, 0 \in T, \A k \in 1..n : k - 1 \in T => k \in T
  PROVE  \A k \in 0..n : k \in T
<1> DEFINE Missing == {k \in 0..n : k \notin T}
<1> SUFFICES ASSUME Missing # {}
             PROVE  FALSE
  OBVIOUS
<1>1. PICK m \in Missing : \A k \in Missing : m <= k
  <2>1. Missing \subseteq Nat
    OBVIOUS
  <2> HIDE DEF Missing
  <2> QED
    BY <2>1, Least
<1>2. m \in 1..n /\ m \notin T
  BY <1>1
<1>3. m - 1 \in 0..n /\ m - 1 \notin Missing
  BY <1>1, <1>2
<1> QED
  BY <1>2, <1>3

\* The elements of two sequences one after the other.
LEMMA ConcatElements ==
  ASSUME NEW V, NEW s \in Seq(V), NEW t \in Seq(V)
  PROVE  s \o t \in Seq(V) /\ ToSet(s \o t) = ToSet(s) \cup ToSet(t)
<1>1. /\ s \o t \in Seq(V) /\ DOMAIN (s \o t) = 1..(Len(s) + Len(t))
      /\ DOMAIN s = 1..Len(s) /\ DOMAIN t = 1..Len(t)
      /\ \A k \in 1..(Len(s) + Len(t)) : (s \o t)[k] = IF k <= Len(s) THEN s[k] ELSE t[k - Len(s)]
  OBVIOUS
<1>2. ASSUME NEW v \in ToSet(s \o t)
      PROVE  v \in ToSet(s) \cup ToSet(t)
  <2>1. PICK k \in 1..(Len(s) + Len(t)) : v = (s \o t)[k]
    BY <1>1 DEF ToSet
  <2>2. CASE k <= Len(s)
    <3>1. k \in DOMAIN s /\ v = s[k]
      BY <1>1, <2>1, <2>2
    <3> QED
      BY <3>1 DEF ToSet
  <2>3. CASE k > Len(s)
    <3>1. k - Len(s) \in DOMAIN t /\ v = t[k - Len(s)]
      BY <1>1, <2>1, <2>3
    <3> QED
      BY <3>1 DEF ToSet
  <2> QED
    BY <1>1, <2>2, <2>3
<1>3. ASSUME NEW k \in DOMAIN s
      PROVE  s[k] \in ToSet(s \o t)
  <2>1. k \in DOMAIN (s \o t) /\ (s \o t)[k] = s[k]
    BY <1>1
  <2> QED
    BY <2>1 DEF ToSet
<1>4. ASSUME NEW k \in DOMAIN t
      PROVE  t[k] \in ToSet(s \o t)
  <2>1. k + Len(s) \in DOMAIN (s \o t) /\ (s \o t)[k + Len(s)] = t[k]
    BY <1>1
  <2> QED
    BY <2>1 DEF ToSet
<1>5. ToSet(s) \subseteq ToSet(s \o t) /\ ToSet(t) \subseteq ToSet(s \o t)
  BY <1>3, <1>4 DEF ToSet
<1> QED
  BY <1>1, <1>2, <1>5

\* The sequences appended so far.
Appends(f, ss) ==
  \A i \in 1..Len(ss) : f[i] = IF i = 1 THEN ss[i] ELSE f[i - 1] \o ss[i]

\* Flattening a sequence of sequences appends one after the other: its recursion is there.
LEMMA FlattenAppends ==
  ASSUME NEW ss, Len(ss) \in Nat, Len(ss) # 0
  PROVE  \E f : Appends(f, ss) /\ FlattenSeq(ss) = f[Len(ss)]
<1> DEFINE N == Len(ss)
           Of(g, n) == g = [i \in 1..n |-> IF i = 1 THEN ss[i] ELSE g[i - 1] \o ss[i]]
           T == {n \in 0..N : \E g : Of(g, n)}
<1>1. N \in Nat
  OBVIOUS
<1>2. 0 \in T
  <2> DEFINE g == [i \in 1..0 |-> 0]
  <2>1. Of(g, 0)
    OBVIOUS
  <2> HIDE DEF g, Of
  <2> QED
    BY <1>1, <2>1
<1>3. ASSUME NEW n \in 1..N, n - 1 \in T
      PROVE  n \in T
  <2>1. PICK g : Of(g, n - 1)
    BY <1>3
  <2> DEFINE h == [i \in 1..n |-> IF i < n THEN g[i] ELSE IF n = 1 THEN ss[n] ELSE g[n - 1] \o ss[n]]
  <2>2. ASSUME NEW i \in 1..n
        PROVE  h[i] = IF i = 1 THEN ss[i] ELSE h[i - 1] \o ss[i]
    <3>1. CASE i < n
      <4>1. i \in 1..(n - 1)
        BY <3>1
      <4>2. i # 1 => h[i - 1] = g[i - 1]
        BY <3>1
      <4>3. h[i] = g[i]
        BY <3>1
      <4>4. g[i] = IF i = 1 THEN ss[i] ELSE g[i - 1] \o ss[i]
        BY <2>1, <4>1
      <4> QED
        BY <4>2, <4>3, <4>4
    <3>2. CASE i = n
      <4>1. n # 1 => h[n - 1] = g[n - 1]
        OBVIOUS
      <4> QED
        BY <3>2, <4>1
    <3> QED
      BY <3>1, <3>2
  <2>3. Of(h, n)
    BY <2>2
  <2> HIDE DEF h, Of
  <2> QED
    BY <2>3
<1>4. \E g : Of(g, N)
  <2> HIDE DEF T
  <2>1. \A k \in 0..N : k \in T
    BY <1>1, <1>2, <1>3, Induction
  <2>2. N \in T
    BY <1>1, <2>1
  <2> HIDE DEF Of
  <2> QED
    BY <2>2 DEF T
<1> DEFINE f == CHOOSE g : Of(g, N)
<1>5. Of(f, N)
  BY <1>4
<1>6. FlattenSeq(ss) = f[N]
  BY DEF FlattenSeq
<1>7. Appends(f, ss)
  <2> HIDE DEF f
  <2> QED
    BY <1>5 DEF Appends
<1> QED
  BY <1>6, <1>7

\* The elements of a flattened sequence are those of its sequences.
LEMMA FlattenElements ==
  ASSUME NEW V, NEW ss \in Seq(Seq(V))
  PROVE  /\ ConcatAll(ss) \in Seq(V)
         /\ ToSet(ConcatAll(ss)) = UNION {ToSet(ss[i]) : i \in DOMAIN ss}
<1> DEFINE N == Len(ss)
<1>0. N \in Nat /\ DOMAIN ss = 1..N /\ \A i \in 1..N : ss[i] \in Seq(V)
  OBVIOUS
<1>1. CASE N = 0
  <2>1. ss = <<>>
    BY <1>1
  <2>2. ConcatAll(ss) = ss
    BY <1>1 DEF ConcatAll, FlattenSeq
  <2>3. DOMAIN ss = {} /\ <<>> \in Seq(V)
    BY <1>0, <1>1
  <2>4. ToSet(ss) = {} /\ {ToSet(ss[i]) : i \in DOMAIN ss} = {}
    BY <2>3 DEF ToSet
  <2> QED
    BY <2>1, <2>2, <2>3, <2>4
<1>2. CASE N # 0
  <2>1. PICK f : Appends(f, ss) /\ FlattenSeq(ss) = f[N]
    BY <1>0, <1>2, FlattenAppends
  <2> DEFINE Good(n) == /\ f[n] \in Seq(V)
                        /\ ToSet(f[n]) = UNION {ToSet(ss[i]) : i \in 1..n}
             T == {n \in 0..N : n = 0 \/ Good(n)}
  <2>2. 0 \in T
    BY <1>0
  <2>3. ASSUME NEW n \in 1..N, n - 1 \in T
        PROVE  n \in T
    <3>1. CASE n = 1
      <4>1. f[1] = ss[1] /\ ss[1] \in Seq(V)
        BY <1>0, <2>1, <3>1 DEF Appends
      <4>2. 1..1 = {1}
        OBVIOUS
      <4>3. UNION {ToSet(ss[i]) : i \in 1..1} = ToSet(ss[1])
        BY <4>2
      <4>4. Good(1)
        BY <4>1, <4>3
      <4> QED
        BY <3>1, <4>4
    <3>2. CASE n # 1
      <4>1. n - 1 # 0 /\ Good(n - 1)
        BY <2>3, <3>2
      <4>2. f[n] = f[n - 1] \o ss[n] /\ ss[n] \in Seq(V)
        BY <1>0, <2>1, <3>2 DEF Appends
      <4>3. f[n] \in Seq(V) /\ ToSet(f[n]) = ToSet(f[n - 1]) \cup ToSet(ss[n])
        BY <4>1, <4>2, ConcatElements
      <4>4. 1..n = 1..(n - 1) \cup {n}
        OBVIOUS
      <4>5. UNION {ToSet(ss[i]) : i \in 1..n}
              = (UNION {ToSet(ss[i]) : i \in 1..(n - 1)}) \cup ToSet(ss[n])
        BY <4>4
      <4>6. Good(n)
        BY <4>1, <4>3, <4>5
      <4> HIDE DEF Good
      <4> QED
        BY <4>6
    <3> QED
      BY <3>1, <3>2
  <2>4. N \in T
    <3> HIDE DEF T
    <3>1. \A k \in 0..N : k \in T
      BY <1>0, <2>2, <2>3, Induction
    <3> QED
      BY <1>0, <3>1
  <2> QED
    BY <1>0, <1>2, <2>1, <2>4 DEF ConcatAll
<1> QED
  BY <1>1, <1>2

-----------------------------------------------------------------------------
(* The cases of a workbook, and a contract                                 *)

\* A sequence is one over its own elements.
LEMMA ListOfItself ==
  ASSUME NEW V, NEW s \in Seq(V)
  PROVE  s \in Seq(ToSet(s)) /\ (\A W : ToSet(s) \subseteq W => s \in Seq(W))
<1>1. Len(s) \in Nat /\ DOMAIN s = 1..Len(s) /\ s = [i \in 1..Len(s) |-> s[i]]
  OBVIOUS
<1>2. \A i \in 1..Len(s) : s[i] \in ToSet(s)
  BY <1>1 DEF ToSet
<1>3. ASSUME NEW W, ToSet(s) \subseteq W
      PROVE  s \in Seq(W)
  <2>1. \A i \in 1..Len(s) : s[i] \in W
    BY <1>2, <1>3
  <2> QED
    BY <1>1, <2>1
<1> QED
  BY <1>3

\* A row with its place.
Placed(sheet, i) == [sheet |-> sheet.name, row |-> i + 1, raw |-> sheet.rows[i]]

\* The rows of a sheet are rows of the sheet, each with its place.
LEMMA RowsElements ==
  ASSUME NEW sheet, IsList(sheet.rows)
  PROVE  RowsOf(sheet) \in Seq({Placed(sheet, i) : i \in DOMAIN sheet.rows})
<1> DEFINE n == Len(sheet.rows)
           all == [i \in DOMAIN sheet.rows |-> Placed(sheet, i)]
           chosen == {i \in DOMAIN sheet.rows : HasValues(sheet.rows[i])}
           V == {Placed(sheet, i) : i \in DOMAIN sheet.rows}
<1>1. n \in Nat /\ DOMAIN sheet.rows = 1..n
  BY DEF IsList
<1>2. RowsOf(sheet) = Kept(all, chosen)
  BY DEF RowsOf, Placed
<1>3. all \in Seq(V) /\ chosen \in SUBSET DOMAIN all
  <2>1. n \in Nat /\ all = [i \in 1..n |-> all[i]] /\ \A i \in 1..n : all[i] \in V
    BY <1>1
  <2>2. chosen \in SUBSET DOMAIN all
    OBVIOUS
  <2> HIDE DEF all, V, chosen
  <2> QED
    BY <2>1, <2>2
<1>4. \A i \in chosen : all[i] \in V
  OBVIOUS
<1> HIDE DEF all, chosen, V
<1>5. Kept(all, chosen) \in Seq(V)
  BY <1>3, <1>4, KeptElements
<1> QED
  BY <1>2, <1>5 DEF V

\* The compiler's cases of a sheet are a sequence.
LEMMA CasesListed ==
  ASSUME NEW sheet, NEW explicit, IsList(sheet.rows)
  PROVE  \E V : CasesOfSheet(sheet, explicit) \in Seq(V)
<1> DEFINE at == IndexesOf(sheet.columns, explicit)
           text(r, f) == IF at[f] = 0 THEN Blank ELSE r.raw[at[f]]
           all == RowsOf(sheet)
           chosen == {i \in DOMAIN all : text(all[i], "id") # Blank}
           rows == Kept(all, chosen)
           cases == [i \in DOMAIN rows |->
              [id |-> text(rows[i], "id"), sheet |-> sheet.name, row |-> rows[i].row,
               values |-> [f \in CaseFields |-> text(rows[i], f)]]]
<1>1. CasesOfSheet(sheet, explicit) = IF at["id"] = 0 \/ at["title"] = 0 THEN <<>> ELSE cases
  BY DEF CasesOfSheet
<1>2. \E m \in Nat : DOMAIN rows = 1..m
  <2>1. PICK W : all \in Seq(W)
    BY RowsElements
  <2>2. Len(all) \in Nat /\ DOMAIN all = 1..Len(all)
    BY <2>1
  <2>3. chosen \in SUBSET DOMAIN all
    OBVIOUS
  <2> HIDE DEF all, chosen
  <2> QED
    BY <2>1, <2>3, KeptElements
<1>3. PICK m \in Nat : DOMAIN rows = 1..m
  BY <1>2
<1> DEFINE V == {cases[i] : i \in 1..m}
<1>4. cases \in Seq(V)
  <2>1. DOMAIN cases = 1..m /\ cases = [i \in 1..m |-> cases[i]]
    BY <1>3
  <2> HIDE DEF cases
  <2> QED
    BY <2>1
<1>5. <<>> \in Seq(V)
  OBVIOUS
<1> HIDE DEF at, cases, V
<1> QED
  BY <1>1, <1>4, <1>5

\* Sequences of different elements are sequences of the elements of all.
LEMMA Gathered ==
  ASSUME NEW n \in Nat, NEW ss, ss = [i \in 1..n |-> ss[i]], \A i \in 1..n : \E V : ss[i] \in Seq(V)
  PROVE  \E V : ss \in Seq(Seq(V))
<1> DEFINE W == UNION {ToSet(ss[i]) : i \in 1..n}
<1>1. ASSUME NEW i \in 1..n
      PROVE  ss[i] \in Seq(W)
  <2>1. PICK V : ss[i] \in Seq(V)
    OBVIOUS
  <2>2. ToSet(ss[i]) \subseteq W
    OBVIOUS
  <2> HIDE DEF W
  <2> QED
    BY <2>1, <2>2, ListOfItself
<1> HIDE DEF W
<1>2. ss \in Seq(Seq(W))
  BY <1>1
<1> QED
  BY <1>2

\* No two cases have one id.
Distinct(cases) == \A i, j \in DOMAIN cases : i # j => cases[i].id # cases[j].id

\* What the compiler has inspected are cases, each with an id of its own.
LEMMA InspectedListed ==
  ASSUME NEW content, NEW explicit, IsContent(content),
         InspectWorkbook(content, explicit) # Refused
  PROVE  LET cases == InspectWorkbook(content, explicit).cases
         IN  (\E V : cases \in Seq(V)) /\ Distinct(cases)
<1> DEFINE ss == [s \in DOMAIN content.sheets |->
                    IF s \in WithRows(content) THEN CasesOfSheet(content.sheets[s], explicit) ELSE <<>>]
           n == Len(content.sheets)
<1>1. n \in Nat /\ DOMAIN content.sheets = 1..n
  BY DEF IsContent, IsList
<1>2. ASSUME NEW s \in 1..n
      PROVE  \E V : ss[s] \in Seq(V)
  <2>1. CASE s \in WithRows(content)
    BY <1>1, <2>1, CasesListed DEF IsContent
  <2>2. CASE s \notin WithRows(content)
    <3>1. ss[s] = <<>> /\ <<>> \in Seq({})
      BY <1>1, <2>2
    <3> QED
      BY <3>1
  <2> QED
    BY <2>1, <2>2
<1>3. ss = [s \in 1..n |-> ss[s]]
  BY <1>1
<1>4. /\ InspectWorkbook(content, explicit).cases = ConcatAll(ss)
      /\ ~ \E i, j \in DOMAIN ConcatAll(ss) : i # j /\ ConcatAll(ss)[i].id = ConcatAll(ss)[j].id
  BY DEF InspectWorkbook
<1> HIDE DEF ss
<1>5. PICK V : ss \in Seq(Seq(V))
  BY <1>1, <1>2, <1>3, Gathered
<1>6. ConcatAll(ss) \in Seq(V)
  BY <1>5, FlattenElements
<1> QED
  BY <1>4, <1>6 DEF Distinct

\* A contract as the compiler accepts it.
Left == {"precondition", "steps", "expected", "priority"}
Lawful(cases) ==
  /\ \E V : cases \in Seq(V)
  /\ Distinct(cases) /\ AssertConsistency(cases)
  /\ \A i \in DOMAIN cases : cases[i].unresolved \subseteq Left

\* A contract the compiler builds is one that it accepts.
LEMMA BuiltLawful ==
  ASSUME NEW V, NEW cases \in Seq(V), Distinct(cases), NEW overrides,
         BuildContract(cases, overrides) # Refused
  PROVE  Lawful(BuildContract(cases, overrides).cases)
<1> DEFINE override(id) == IF id \in DOMAIN overrides THEN overrides[id] ELSE NoOverride
           contract == [i \in DOMAIN cases |-> MergeOverride(cases[i], override(cases[i].id))]
           W == {contract[i] : i \in DOMAIN cases}
<1>1. BuildContract(cases, overrides).cases = contract /\ AssertConsistency(contract)
  <2>1. AssertConsistency(contract) /\ AssertAcyclic(contract)
    BY DEF BuildContract
  <2> QED
    BY <2>1 DEF BuildContract
<1>2. Len(cases) \in Nat /\ DOMAIN cases = 1..Len(cases)
  OBVIOUS
<1>3. contract \in Seq(W)
  <2>1. contract = [i \in 1..Len(cases) |-> contract[i]] /\ \A i \in 1..Len(cases) : contract[i] \in W
    BY <1>2
  <2> HIDE DEF contract, W
  <2> QED
    BY <1>2, <2>1
<1>4. Distinct(contract)
  BY DEF Distinct, MergeOverride
<1>5. \A i \in DOMAIN contract : contract[i].unresolved \subseteq Left
  BY DEF MergeOverride, Unresolved, Left
<1> HIDE DEF contract
<1> QED
  BY <1>1, <1>3, <1>4, <1>5 DEF Lawful

\* Who holds a lock depends on whoever held it before, by the holders in between.
LEMMA HoldersChain ==
  ASSUME NEW cases, Lawful(cases), NEW i \in DOMAIN cases, NEW j \in DOMAIN cases, i < j,
         NEW lock \in cases[i].locks \cap cases[j].locks
  PROVE  DependsOn(cases, cases[j].id, cases[i].id)
<1> DEFINE n == Len(cases)
<1>1. n \in Nat /\ DOMAIN cases = 1..n
  BY DEF Lawful
<1> SUFFICES ASSUME NEW set \in SUBSET ToSet(Ids(cases)), Follows(cases, cases[j].id, set)
             PROVE  cases[i].id \in set
  BY DEF DependsOn
<1>2. ASSUME NEW h \in i + 1 .. n, lock \in cases[h].locks, cases[h].id \in set \cup {cases[j].id}
      PROVE  \E k \in i .. h - 1 : lock \in cases[k].locks /\ cases[k].id \in set
  <2> DEFINE H == Holders(cases, lock, h)
             k == Max(H)
  <2>1. h \in DOMAIN cases /\ i \in Nat /\ i \in 1 .. h - 1
    BY <1>1
  <2>2. H \subseteq 1 .. h - 1 /\ i \in H
    BY <2>1 DEF Holders
  <2>3. k \in H /\ \A m \in H : k >= m
    <3>1. \E x \in H : \A y \in H : x >= y
      <4> DEFINE D == {h - x : x \in H}
      <4>1. D \subseteq Nat /\ D # {}
        BY <2>1, <2>2
      <4>2. PICK d \in D : \A e \in D : d <= e
        <5> HIDE DEF D
        <5> QED
          BY <4>1, Least
      <4>3. PICK x \in H : d = h - x
        BY <4>2
      <4>4. ASSUME NEW y \in H
            PROVE  x >= y
        <5>1. h - x <= h - y
          BY <4>2, <4>3
        <5>2. x \in Nat /\ y \in Nat /\ h \in Nat
          BY <2>1, <2>2
        <5> QED
          BY <5>1, <5>2
      <4> QED
        BY <4>4
    <3> HIDE DEF H
    <3> QED
      BY <3>1 DEF Max
  <2>4. k \in i .. h - 1
    BY <2>1, <2>2, <2>3
  <2>5. lock \in cases[k].locks
    BY <2>3 DEF Holders
  <2>6. cases[k].id \in cases[h].dependencies
    <3> HIDE DEF k
    <3>1. H # {}
      BY <2>2
    <3> QED
      BY <1>2, <2>1, <3>1 DEF Lawful, AssertConsistency, k
  <2>7. cases[k].id \in ToSet(Ids(cases))
    BY <1>1, <2>1, <2>4 DEF ToSet, Ids
  <2>8. cases[k].id \in set
    BY <1>2, <2>1, <2>6, <2>7 DEF Follows
  <2> QED
    BY <2>4, <2>5, <2>8
<1> DEFINE T == {k \in i .. j - 1 : lock \in cases[k].locks /\ cases[k].id \in set}
<1>3. T # {}
  <2>1. j \in i + 1 .. n
    BY <1>1
  <2> QED
    BY <1>2, <2>1
<1>4. PICK k \in T : \A m \in T : k <= m
  <2>1. T \subseteq Nat
    BY <1>1
  <2> HIDE DEF T
  <2> QED
    BY <1>3, <2>1, Least
<1>5. k = i
  <2> SUFFICES ASSUME k # i
               PROVE  FALSE
    OBVIOUS
  <2>1. k \in i + 1 .. n
    BY <1>1
  <2>2. PICK m \in i .. k - 1 : lock \in cases[m].locks /\ cases[m].id \in set
    BY <1>2, <2>1
  <2>3. m \in T /\ m < k
    BY <1>1, <2>1, <2>2
  <2> QED
    BY <1>1, <1>4, <2>1, <2>3
<1> QED
  BY <1>4, <1>5

-----------------------------------------------------------------------------
(* The plan's invariant                                                    *)

\* What a manifest from a mapping is made of, when these proposals were confirmed.
Mapped(m, known) ==
  \E p \in known :
    /\ p.source.content \in Contents /\ p # Refused /\ p = BuildMappingProposal(p.source)
    /\ ValidateColumnRules(p, p.rules)
    /\ p.source.content = m.source
    /\ LET cases == NormalizeSourceRows(PrepareRows(p.source.content, p.rules))
       IN  cases # Refused /\ m.cases = Real(cases.cases)
\* A package the plan has validated.
Vetted(p) ==
  /\ ValidatePackage(p) = {} /\ p.manifest.status = "READY"
  /\ Lawful(p.contract) /\ p.source \in Contents
\* What a manifest from a package is made of.
Packaged(m) ==
  /\ m.cases = AsCases(m.from.package.contract)
  /\ Vetted(m.from.validated) /\ m.source = m.from.validated.manifest.source
Founded(m, known) ==
  /\ m.from.kind = "mapping" => Mapped(m, known)
  /\ m.from.kind = "package" => Packaged(m)

Files == {"inspection", "proposal", "readiness", "manifest"}
Pending(left, known) ==
  /\ \E V : left \in Seq(V)
  /\ left # <<>>
  /\ \A i \in DOMAIN left :
       /\ left[i].file \in Files
       /\ left[i].file = "manifest" => Founded(left[i].value, known)

BooksTyped == book.content \in Contents
OutTyped == out = [f \in Files |-> out[f]]
Approved == approval # None => approval.proposal \in confirmed
Planning ==
  /\ plan.pc = "inspected" => approval # None /\ plan.proposal # Refused
  /\ plan.pc = "validated" => Vetted(plan.validated)
  /\ plan.pc = "writing" => plan = [pc |-> "writing", left |-> plan.left] /\ Pending(plan.left, confirmed)
ManifestFounded == out.manifest # None => Founded(out.manifest, confirmed)

\* The compiler's: what it holds, and what it leaves behind, is a contract it accepts.
Compiled ==
  /\ compiler.pc = "inspected" => Lawful(compiler.contract)
  /\ compiler.pc = "copying" =>
       Lawful(compiler.archive.contract) /\ compiler.archive.source \in Contents
  /\ package # None /\ package.intact => Lawful(package.contract) /\ package.source \in Contents

PrepInv == BooksTyped /\ OutTyped /\ Approved /\ Planning /\ ManifestFounded /\ Compiled

\* What the user confirmed stays confirmed.
LEMMA FoundedStays ==
  ASSUME NEW known, NEW more, known \subseteq more
  PROVE  /\ \A m : Founded(m, known) => Founded(m, more)
         /\ \A left : Pending(left, known) => Pending(left, more)
<1>1. \A m : Mapped(m, known) => Mapped(m, more)
  BY DEF Mapped
<1>2. \A m : Founded(m, known) => Founded(m, more)
  BY <1>1 DEF Founded
<1> QED
  BY <1>2 DEF Pending

\* The files of a plan whose manifest is founded may be written.
LEMMA WrittenIsPending ==
  ASSUME NEW source, NEW proposal, NEW cases, NEW m, NEW known, Founded(m, known)
  PROVE  Pending(Written(source, proposal, cases, m), known)
<1> DEFINE a == Inspection(source)
           b == [file |-> "proposal", value |-> proposal]
           c == [file |-> "readiness", value |-> [level |-> PlanReadiness(cases).level]]
           d == [file |-> "manifest", value |-> m]
           w == Written(source, proposal, cases, m)
<1>1. w = <<a>> \o (IF proposal = None THEN <<>> ELSE <<b>>) \o <<c, d>>
  BY DEF Written
<1>2. \A x \in {a, b, c, d} : x.file \in Files /\ (x.file = "manifest" => Founded(x.value, known))
  BY DEF Files, Inspection
<1> HIDE DEF a, b, c, d, w
<1>3. w \in Seq({a, b, c, d}) /\ w # <<>>
  <2> DEFINE V == {a, b, c, d}
             s == IF proposal = None THEN <<>> ELSE <<b>>
  <2>1. <<a>> \in Seq(V) /\ s \in Seq(V) /\ <<c, d>> \in Seq(V)
    <3>1. a \in V /\ b \in V /\ c \in V /\ d \in V
      OBVIOUS
    <3> HIDE DEF V
    <3>2. <<a>> \in Seq(V) /\ <<b>> \in Seq(V) /\ <<>> \in Seq(V) /\ <<c, d>> \in Seq(V)
      BY <3>1
    <3> QED
      BY <3>2
  <2>2. Len(<<c, d>>) = 2
    OBVIOUS
  <2> HIDE DEF V, s
  <2>3. /\ <<a>> \o s \in Seq(V) /\ (<<a>> \o s) \o <<c, d>> \in Seq(V)
        /\ Len((<<a>> \o s) \o <<c, d>>) = Len(<<a>> \o s) + 2
    BY <2>1, <2>2
  <2>4. w = (<<a>> \o s) \o <<c, d>>
    BY <1>1 DEF s
  <2> QED
    BY <2>3, <2>4 DEF V
<1>4. Pending(w, known)
  <2>1. \A i \in DOMAIN w : w[i] \in {a, b, c, d}
    BY <1>3
  <2> QED
    BY <1>2, <1>3, <2>1 DEF Pending
<1> QED
  BY <1>4 DEF w

LEMMA PrepStarts == Init => PrepInv
<1> SUFFICES ASSUME Init
             PROVE  PrepInv
  OBVIOUS
<1>1. BooksTyped
  BY DEF Init, BooksTyped
<1>2. OutTyped
  BY DEF Init, OutTyped, Files
<1>3. Approved /\ Planning /\ ManifestFounded
  BY DEF Init, Approved, Planning, ManifestFounded, Idle
<1>4. Compiled
  BY DEF Init, Compiled, Idle
<1> QED
  BY <1>1, <1>2, <1>3, <1>4 DEF PrepInv

-----------------------------------------------------------------------------
(* The steps                                                               *)

\* The user writes workbooks and profiles, and confirms what is proposed.
LEMMA UserKeeps ==
  ASSUME PrepInv, EditWorkbook \/ Confirm \/ WriteProfile
  PROVE  PrepInv'
<1>1. CASE EditWorkbook
  <2>1. book'.content \in Contents
    BY <1>1 DEF EditWorkbook
  <2> QED
    BY <1>1, <2>1 DEF EditWorkbook, PrepInv, BooksTyped, OutTyped, Approved, Planning,
      ManifestFounded, Compiled
<1>2. CASE Confirm
  <2>1. /\ confirmed' = confirmed \cup {out.proposal}
        /\ approval'.proposal = out.proposal /\ approval' # None
        /\ UNCHANGED <<book, package, profile, out, compiler, plan, guide>>
    <3>1. PICK rules \in {out.proposal.rules, Tail(out.proposal.rules)} :
            approval' = [content |-> out.proposal.source.content, proposal |-> out.proposal,
                         rules |-> rules]
      BY <1>2 DEF Confirm
    <3>2. "none" \in DOMAIN None /\ "none" \notin DOMAIN approval'
      BY <3>1 DEF None
    <3> QED
      BY <1>2, <3>1, <3>2 DEF Confirm
  <2>2. /\ \A m : Founded(m, confirmed) => Founded(m, confirmed')
        /\ \A left : Pending(left, confirmed) => Pending(left, confirmed')
    BY <2>1, FoundedStays
  <2>3. Planning'
    BY <2>1, <2>2 DEF PrepInv, Planning
  <2>4. ManifestFounded'
    BY <2>1, <2>2 DEF PrepInv, ManifestFounded
  <2> QED
    BY <2>1, <2>3, <2>4 DEF PrepInv, BooksTyped, OutTyped, Approved, Compiled
<1>3. CASE WriteProfile
  BY <1>3 DEF WriteProfile, PrepInv, BooksTyped, OutTyped, Approved, Planning,
    ManifestFounded, Compiled
<1> QED
  BY <1>1, <1>2, <1>3

\* The compiler only packs, and only copies, a contract that it accepts.
LEMMA CompilerKeeps ==
  ASSUME PrepInv, CompileInspect \/ CompilePack \/ CompileCopied \/ CompilerStops
  PROVE  PrepInv'
<1>1. UNCHANGED <<book, profile, approval, out, plan, confirmed, guide>>
  BY DEF CompileInspect, CompilePack, CompileCopied, CompilerStops, files
<1>2. (BooksTyped /\ OutTyped /\ Approved /\ Planning /\ ManifestFounded)'
  BY <1>1 DEF PrepInv, BooksTyped, OutTyped, Approved, Planning, ManifestFounded
<1>3. Compiled'
  <2>1. CASE CompileInspect
    <3>1. PICK explicit \in Mappings, overrides \in OverrideSets :
            LET inspected == InspectWorkbook(book.content, explicit) IN
            /\ inspected # Refused
            /\ LET contract == BuildContract(inspected.cases, overrides) IN
               /\ contract # Refused
               /\ compiler' = [pc |-> "inspected", cases |-> inspected.cases,
                               contract |-> contract.cases, content |-> book.content]
      BY <2>1 DEF CompileInspect
    <3> DEFINE cases == InspectWorkbook(book.content, explicit).cases
    <3>2. IsContent(book.content)
      BY ContentsAssumption DEF PrepInv, BooksTyped
    <3>3. (\E V : cases \in Seq(V)) /\ Distinct(cases)
      BY <3>1, <3>2, InspectedListed
    <3>4. Lawful(BuildContract(cases, overrides).cases)
      BY <3>1, <3>3, BuiltLawful
    <3>5. Lawful(compiler'.contract) /\ compiler'.pc = "inspected" /\ package' = package
      BY <2>1, <3>1, <3>4 DEF CompileInspect, files
    <3> QED
      BY <3>5 DEF PrepInv, Compiled
  <2>2. CASE CompilePack
    <3>1. /\ compiler'.pc = "copying" /\ package' = Torn
          /\ compiler'.archive.contract = compiler.contract
          /\ compiler'.archive.source = book.content
      BY <2>2 DEF CompilePack, Pack
    <3> QED
      BY <2>2, <3>1 DEF CompilePack, PrepInv, BooksTyped, Compiled, Torn
  <2>3. CASE CompileCopied
    BY <2>3 DEF CompileCopied, PrepInv, Compiled, Idle
  <2>4. CASE CompilerStops
    BY <2>4 DEF CompilerStops, files, PrepInv, Compiled, Idle
  <2> QED
    BY <2>1, <2>2, <2>3, <2>4
<1> QED
  BY <1>2, <1>3 DEF PrepInv

\* What a step of the plan leaves alone.
LEMMA OthersKept ==
  ASSUME PrepInv, UNCHANGED <<book, package, profile, approval, compiler, confirmed>>
  PROVE  (BooksTyped /\ Approved /\ Compiled)'
BY DEF PrepInv, BooksTyped, Approved, Compiled

\* A step that leaves the files alone has to say what the plan is about to do.
LEMMA PlansNext ==
  ASSUME PrepInv, UNCHANGED <<files, compiler, confirmed>>, Planning'
  PROVE  PrepInv'
<1>1. UNCHANGED <<book, package, profile, approval, out, compiler, confirmed>>
  BY DEF files
<1>2. (BooksTyped /\ Approved /\ Compiled)'
  BY <1>1, OthersKept
<1>3. (OutTyped /\ ManifestFounded)'
  BY <1>1 DEF PrepInv, OutTyped, ManifestFounded
<1> QED
  BY <1>2, <1>3 DEF PrepInv

\* So may those of a plan that has just been compiled.
LEMMA PlannedIsPlanning ==
  ASSUME NEW source, NEW proposal, NEW cases, NEW m, Planned(source, proposal, cases, m),
         Founded(m, confirmed), confirmed' = confirmed
  PROVE  Planning'
<1>1. Pending(Written(source, proposal, cases, m), confirmed)
  BY WrittenIsPending
<1> QED
  BY <1>1 DEF Planned, Planning

\* A case of a contract is not a title row.
LEMMA RealContract ==
  ASSUME NEW contract, \E V : contract \in Seq(V)
  PROVE  Real(AsCases(contract)) = AsCases(contract)
<1> DEFINE cases == AsCases(contract)
           W == {cases[i] : i \in DOMAIN contract}
<1>1. Len(contract) \in Nat /\ DOMAIN contract = 1..Len(contract)
  OBVIOUS
<1>2. /\ cases = [i \in 1..Len(contract) |-> cases[i]]
      /\ \A i \in 1..Len(contract) : cases[i] \in W /\ ~cases[i].divider
  BY <1>1 DEF AsCases
<1> HIDE DEF cases, W
<1>3. cases \in Seq(W)
  BY <1>1, <1>2
<1>4. {i \in DOMAIN cases : ~cases[i].divider} = DOMAIN cases
  BY <1>2
<1>5. Real(cases) = cases
  BY <1>3, <1>4, KeptAll DEF Real
<1> QED
  BY <1>5 DEF cases

\* The plan reads and compiles.
LEMMA PlanKeeps ==
  ASSUME PrepInv,
         \/ PlanBegins \/ PlanDetect \/ PlanStandard \/ PlanPropose \/ PlanMapped
         \/ PlanPackage \/ PlanLoad \/ PlanStops
  PROVE  PrepInv'
<1>1. UNCHANGED <<files, compiler, confirmed>>
  BY DEF PlanBegins, PlanDetect, PlanStandard, PlanPropose, PlanMapped, PlanPackage, PlanLoad, PlanStops
<1> SUFFICES Planning'
  BY <1>1, PlansNext
<1>9. CASE PlanBegins
  BY <1>9 DEF PlanBegins, Planning
<1>2. CASE PlanDetect
  <2>1. plan'.pc = InputKind(book.content)
    BY <1>2 DEF PlanDetect
  <2>2. InputKind(book.content) \notin {"inspected", "validated", "writing"}
    <3>1. book.content.format \notin {"inspected", "validated", "writing"}
      BY ContentsAssumption DEF PrepInv, BooksTyped, IsContent
    <3> QED
      BY <3>1 DEF InputKind
  <2> QED
    BY <2>1, <2>2 DEF Planning
<1>3. CASE PlanStandard
  <2>1. PICK read : ReadAgain(read)
    BY <1>3 DEF PlanStandard
  <2> DEFINE m == CompileManifest(book.content, read.cases, [kind |-> "cases"])
  <2>2. Founded(m, confirmed)
    BY DEF Founded, CompileManifest
  <2> QED
    BY <1>1, <2>1, <2>2, PlannedIsPlanning DEF ReadAgain
<1>4. CASE PlanPropose
  <2> DEFINE proposal == BuildMappingProposal(book)
             left == <<Inspection(book.content), [file |-> "proposal", value |-> proposal]>>
  <2>1. CASE plan' = [pc |-> "writing", left |-> left]
    <3>1. \A i \in DOMAIN left : left[i].file \in {"inspection", "proposal"}
      BY DEF Inspection
    <3>2. left \in Seq({left[1], left[2]}) /\ left # <<>>
      OBVIOUS
    <3> HIDE DEF left
    <3>3. Pending(left, confirmed')
      BY <3>1, <3>2 DEF Pending, Files
    <3> QED
      BY <2>1, <3>3 DEF Planning
  <2>2. CASE /\ approval # None
             /\ plan' = [pc |-> "inspected", profile |-> plan.profile, proposal |-> proposal]
    <3>1. approval' = approval /\ proposal # Refused
      BY <1>4 DEF PlanPropose, files
    <3> QED
      BY <2>2, <3>1 DEF Planning
  <2> QED
    BY <1>4, <2>1, <2>2 DEF PlanPropose
<1>5. CASE PlanMapped
  <2> DEFINE applied == ApplyConfirmedMapping(plan.proposal, book, approval)
             p == plan.proposal
             source == p.source.content
             m == CompileManifest(source, applied.cases, [kind |-> "mapping"])
             rows == PrepareRows(source, approval.rules)
  <2>1. /\ plan.pc = "inspected" /\ applied # Refused
        /\ Planned(source, p, applied.cases, m)
    BY <1>5 DEF PlanMapped
  <2>2. approval # None /\ p # Refused /\ approval.proposal \in confirmed
    BY <2>1 DEF PrepInv, Planning, Approved
  <2>3. /\ book.content = source /\ BuildMappingProposal(book) = p
        /\ ValidateApproval(p, approval)
        /\ applied = NormalizeSourceRows(rows)
    BY <2>1 DEF ApplyConfirmedMapping
  <2>4. /\ approval.proposal = p /\ ValidateColumnRules(p, approval.rules)
        /\ approval.rules = p.rules
    BY <2>3 DEF ValidateApproval, ValidateColumnRules
  <2>5. p.source = book
    BY <2>2, <2>3 DEF BuildMappingProposal
  <2>6. Mapped(m, confirmed)
    <3>1. m.source = source /\ m.cases = Real(applied.cases)
      BY DEF CompileManifest
    <3>2. source \in Contents
      BY <2>3 DEF PrepInv, BooksTyped
    <3> HIDE DEF m, applied
    <3> QED
      BY <2>1, <2>2, <2>3, <2>4, <2>5, <3>1, <3>2 DEF Mapped
  <2>7. Founded(m, confirmed)
    <3>1. m.from.kind = "mapping"
      BY DEF CompileManifest
    <3> HIDE DEF m
    <3> QED
      BY <2>6, <3>1 DEF Founded
  <2> HIDE DEF m, applied
  <2> QED
    BY <1>1, <2>1, <2>7, PlannedIsPlanning
<1>6. CASE PlanPackage
  <2>1. package # None /\ ValidatePackage(package) = {} /\ package.manifest.status = "READY"
    BY <1>6 DEF PlanPackage
  <2>2. package.intact
    BY <2>1 DEF ValidatePackage
  <2>3. Vetted(package)
    BY <2>1, <2>2 DEF PrepInv, Compiled, Vetted
  <2>4. plan' = [pc |-> "validated", profile |-> plan.profile, validated |-> package]
    BY <1>6 DEF PlanPackage
  <2> QED
    BY <2>3, <2>4 DEF Planning
<1>7. CASE PlanLoad
  <2> DEFINE cases == AsCases(package.contract)
             source == plan.validated.manifest.source
             m == CompileManifest(source, cases,
                    [kind |-> "package", package |-> package, validated |-> plan.validated])
  <2>1. /\ package # None /\ package.intact /\ plan.pc = "validated"
        /\ Planned(source, None, cases, m)
    BY <1>7 DEF PlanLoad
  <2>2. Real(cases) = cases
    BY <2>1, RealContract DEF PrepInv, Compiled, Lawful
  <2>3. /\ m.from.kind = "package" /\ m.from.package = package
        /\ m.from.validated = plan.validated /\ m.cases = cases /\ m.source = source
    BY <2>2 DEF CompileManifest
  <2>4. Vetted(plan.validated)
    BY <2>1 DEF PrepInv, Planning
  <2>5. Founded(m, confirmed)
    <3> HIDE DEF m
    <3> QED
      BY <2>3, <2>4 DEF Founded, Packaged
  <2> HIDE DEF m
  <2> QED
    BY <1>1, <2>1, <2>5, PlannedIsPlanning
<1>8. CASE PlanStops
  BY <1>8 DEF PlanStops, Planning, Idle
<1> QED
  BY <1>2, <1>3, <1>4, <1>5, <1>6, <1>7, <1>8, <1>9

\* The plan writes its files, the manifest among them.
LEMMA WriteKeeps ==
  ASSUME PrepInv, PlanWrite
  PROVE  PrepInv'
<1> DEFINE left == plan.left
           first == left[1]
<1>1. /\ plan = [pc |-> "writing", left |-> left] /\ Pending(left, confirmed)
      /\ UNCHANGED <<book, package, profile, approval, compiler, confirmed>>
  BY DEF PlanWrite, PrepInv, Planning
<1>2. PICK V : left \in Seq(V)
  BY <1>1 DEF Pending
<1>3. /\ Len(left) \in Nat /\ DOMAIN left = 1..Len(left) /\ Len(left) # 0
      /\ Head(left) = first /\ 1 \in DOMAIN left
  BY <1>1, <1>2 DEF Pending
<1>4. out' = [out EXCEPT ![first.file] = first.value]
  BY <1>3 DEF PlanWrite
<1>5. (BooksTyped /\ Approved /\ Compiled)'
  BY <1>1, OthersKept
<1>6. first.file \in Files /\ (first.file = "manifest" => Founded(first.value, confirmed))
  BY <1>1, <1>3 DEF Pending
<1>7. OutTyped'
  BY <1>4, <1>6 DEF PrepInv, OutTyped
<1>8. ManifestFounded'
  <2>1. CASE first.file = "manifest"
    <3>1. out'.manifest = first.value
      BY <1>4, <2>1 DEF PrepInv, OutTyped, Files
    <3> QED
      BY <1>1, <1>6, <2>1, <3>1 DEF ManifestFounded
  <2>2. CASE first.file # "manifest"
    <3>1. out'.manifest = out.manifest
      BY <1>4, <1>6, <2>2 DEF PrepInv, OutTyped, Files
    <3> QED
      BY <1>1, <3>1 DEF PrepInv, ManifestFounded
  <2> QED
    BY <2>1, <2>2
<1>9. Planning'
  <2>1. CASE Len(left) = 1
    BY <2>1 DEF PlanWrite, Planning, Idle
  <2>2. CASE Len(left) # 1
    <3>1. plan' = [pc |-> "writing", left |-> Tail(left)]
      <4>1. plan' = [plan EXCEPT !.left = Tail(@)]
        BY <2>2 DEF PlanWrite
      <4> HIDE DEF left
      <4> QED
        BY <1>1, <4>1
    <3>2. /\ Tail(left) \in Seq(V) /\ Tail(left) # <<>>
          /\ \A i \in DOMAIN Tail(left) : i + 1 \in DOMAIN left /\ Tail(left)[i] = left[i + 1]
      <4> HIDE DEF left
      <4>1. Len(Tail(left)) = Len(left) - 1 /\ Len(left) > 1
        BY <1>2, <1>3, <2>2
      <4>2. Tail(left) \in Seq(V) /\ DOMAIN Tail(left) = 1..(Len(left) - 1)
        BY <1>2, <1>3, <4>1
      <4>3. ASSUME NEW i \in 1..(Len(left) - 1)
            PROVE  i + 1 \in DOMAIN left /\ Tail(left)[i] = left[i + 1]
        BY <1>2, <1>3, <4>1, <4>3
      <4>4. Tail(left) # <<>>
        <5>1. Len(Tail(left)) # 0
          BY <1>3, <4>1
        <5>2. \A t : Len(t) # 0 => t # <<>>
          OBVIOUS
        <5> QED
          BY <5>1, <5>2
      <4> QED
        BY <4>2, <4>3, <4>4
    <3>3. Pending(Tail(left), confirmed)
      BY <1>1, <3>2 DEF Pending
    <3> QED
      BY <1>1, <3>1, <3>3 DEF Planning
  <2> QED
    BY <2>1, <2>2
<1> QED
  BY <1>5, <1>7, <1>8, <1>9 DEF PrepInv

LEMMA PrepStep == PrepInv /\ [Next]_vars => PrepInv'
<1> SUFFICES ASSUME PrepInv, [Next]_vars
             PROVE  PrepInv'
  OBVIOUS
<1>1. CASE EditWorkbook \/ Confirm \/ WriteProfile
  BY <1>1, UserKeeps
<1>2. CASE CompileInspect \/ CompilePack \/ CompileCopied \/ CompilerStops
  BY <1>2, CompilerKeeps
<1>3. CASE \/ PlanBegins \/ PlanDetect \/ PlanStandard \/ PlanPropose \/ PlanMapped
           \/ PlanPackage \/ PlanLoad \/ PlanStops
  BY <1>3, PlanKeeps
<1>4. CASE PlanWrite
  BY <1>4, WriteKeeps
<1>5. CASE PasteTarget \/ PasteReferences \/ InstallMissing \/ ApprovePreview \/ UNCHANGED vars
  <2>1. UNCHANGED <<files, compiler, plan, confirmed>>
    BY <1>5 DEF PasteTarget, PasteReferences, InstallMissing, ApprovePreview, vars
  <2>2. Planning'
    BY <2>1 DEF files, PrepInv, Planning
  <2> QED
    BY <2>1, <2>2, PlansNext
<1> QED
  BY <1>1, <1>2, <1>3, <1>4, <1>5 DEF Next

LEMMA PrepAlways == Spec => []PrepInv
  BY PrepStarts, PrepStep, PTL DEF Spec

-----------------------------------------------------------------------------
(* Preview and plan                                                        *)

-----------------------------------------------------------------------------
(* The preview and the plan normalize alike.                               *)

\* The row after each rule.
Fills(f, raw, rules) ==
  /\ f[0] = [x \in Fields |-> Blank]
  /\ \A n \in 1..Len(rules) : f[n] = ApplyRule(f[n - 1], rules[n], raw)

\* Filling applies one rule after the other: its recursion is there.
LEMMA FilledFills ==
  ASSUME NEW raw, NEW rules, Len(rules) \in Nat
  PROVE  \E f : Fills(f, raw, rules) /\ Filled(raw, rules) = f[Len(rules)]
<1> DEFINE N == Len(rules)
           Of(g, n) == g = [i \in 0..n |-> IF i = 0 THEN [x \in Fields |-> Blank]
                                          ELSE ApplyRule(g[i - 1], rules[i], raw)]
           T == {n \in 0..N : \E g : Of(g, n)}
<1>1. N \in Nat
  OBVIOUS
<1>2. 0 \in T
  <2> DEFINE g == [i \in 0..0 |-> [x \in Fields |-> Blank]]
  <2>1. Of(g, 0)
    OBVIOUS
  <2> HIDE DEF g, Of
  <2> QED
    BY <1>1, <2>1
<1>3. ASSUME NEW n \in 1..N, n - 1 \in T
      PROVE  n \in T
  <2>1. PICK g : Of(g, n - 1)
    BY <1>3
  <2> DEFINE h == [i \in 0..n |-> IF i < n THEN g[i] ELSE ApplyRule(g[n - 1], rules[n], raw)]
  <2>2. ASSUME NEW i \in 0..n
        PROVE  h[i] = IF i = 0 THEN [x \in Fields |-> Blank] ELSE ApplyRule(h[i - 1], rules[i], raw)
    <3>1. CASE i < n
      <4>1. i \in 0..(n - 1)
        BY <3>1
      <4>2. i # 0 => h[i - 1] = g[i - 1]
        BY <3>1
      <4>3. h[i] = g[i]
        BY <3>1
      <4>4. g[i] = IF i = 0 THEN [x \in Fields |-> Blank] ELSE ApplyRule(g[i - 1], rules[i], raw)
        BY <2>1, <4>1
      <4> QED
        BY <4>2, <4>3, <4>4
    <3>2. CASE i = n
      <4>1. n # 0 /\ h[n - 1] = g[n - 1] /\ h[n] = ApplyRule(g[n - 1], rules[n], raw)
        OBVIOUS
      <4> QED
        BY <3>2, <4>1
    <3> QED
      BY <3>1, <3>2
  <2>3. Of(h, n)
    BY <2>2
  <2> HIDE DEF h, Of
  <2> QED
    BY <2>3
<1>4. \E g : Of(g, N)
  <2> HIDE DEF T
  <2>1. \A k \in 0..N : k \in T
    BY <1>1, <1>2, <1>3, Induction
  <2>2. N \in T
    BY <1>1, <2>1
  <2> HIDE DEF Of
  <2> QED
    BY <2>2 DEF T
<1> DEFINE f == CHOOSE g : Of(g, N)
<1>5. Of(f, N)
  BY <1>4
<1>6. Filled(raw, rules) = f[N]
  BY DEF Filled
<1>7. Fills(f, raw, rules)
  <2> HIDE DEF f
  <2>1. 0 \in 0..N /\ \A k \in 1..N : k \in 0..N /\ k # 0
    BY <1>1
  <2> QED
    BY <1>5, <2>1 DEF Fills
<1> QED
  BY <1>6, <1>7

\* A rule fills in the fields it names.
Sound(rule) == rule.kind = "direct" \/ rule.targets = {"steps", "expected"}

\* What the last of the first n rules for a field makes of it.
Fits(rules, field, n) == {i \in 1..n : field \in rules[i].targets}
By(rule, raw, field) ==
  LET cell == raw[rule.of.column]
  IN  IF rule.kind = "direct" THEN cell
      ELSE IF field = "steps" THEN SplitValue(cell)[1] ELSE SplitValue(cell)[2]
Made(raw, rules, field, n) ==
  IF Fits(rules, field, n) = {} THEN Blank ELSE By(rules[Max(Fits(rules, field, n))], raw, field)

\* The n-th rule decides for its targets, the rules before it for the others.
LEMMA MadeByNext ==
  ASSUME NEW raw, NEW rules, NEW n \in Nat \ {0}, NEW field
  PROVE  Made(raw, rules, field, n) = IF field \in rules[n].targets THEN By(rules[n], raw, field)
                                      ELSE Made(raw, rules, field, n - 1)
<1>1. CASE field \in rules[n].targets
  <2> DEFINE S == Fits(rules, field, n)
  <2>1. n \in S /\ \A i \in S : i \in Nat /\ n >= i
    BY <1>1 DEF Fits
  <2>2. Max(S) = n
    <3> HIDE DEF S
    <3>1. \A x \in S : (\A y \in S : x >= y) => x = n
      BY <2>1
    <3> QED
      BY <2>1, <3>1 DEF Max
  <2> QED
    BY <1>1, <2>1, <2>2 DEF Made
<1>2. CASE field \notin rules[n].targets
  <2>1. Fits(rules, field, n) = Fits(rules, field, n - 1)
    <3>1. 1..n = 1..(n - 1) \cup {n}
      OBVIOUS
    <3> QED
      BY <1>2, <3>1 DEF Fits
  <2> QED
    BY <1>2, <2>1 DEF Made
<1> QED
  BY <1>1, <1>2

\* Applying a rule sets its targets to what the rule makes of the row.
LEMMA AppliedMakes ==
  ASSUME NEW values, values = [f \in Fields |-> values[f]], NEW rule, Sound(rule), NEW raw
  PROVE  ApplyRule(values, rule, raw) =
           [f \in Fields |-> IF f \in rule.targets THEN By(rule, raw, f) ELSE values[f]]
<1>1. {"steps", "expected"} \subseteq Fields
  BY DEF Fields, ToSet, TenColumns
<1>2. CASE rule.kind = "direct"
  BY <1>2 DEF ApplyRule, By
<1>3. CASE rule.kind # "direct"
  <2>1. rule.targets = {"steps", "expected"}
    BY <1>3 DEF Sound
  <2> DEFINE cell == raw[rule.of.column]
  <2>2. ApplyRule(values, rule, raw) =
          [values EXCEPT !["steps"] = SplitValue(cell)[1], !["expected"] = SplitValue(cell)[2]]
    BY <1>3 DEF ApplyRule
  <2>3. ASSUME NEW f \in Fields
        PROVE  /\ ApplyRule(values, rule, raw)[f] =
                    IF f = "expected" THEN SplitValue(cell)[2]
                    ELSE IF f = "steps" THEN SplitValue(cell)[1] ELSE values[f]
               /\ By(rule, raw, f) = IF f = "steps" THEN SplitValue(cell)[1] ELSE SplitValue(cell)[2]
    BY <1>1, <1>3, <2>2 DEF By
  <2>4. ApplyRule(values, rule, raw) = [f \in Fields |-> ApplyRule(values, rule, raw)[f]]
    BY <2>2
  <2> QED
    BY <2>1, <2>3, <2>4
<1> QED
  BY <1>2, <1>3

\* Filling in field by field and rule by rule come to the same: the last rule wins.
LEMMA FilledMakes ==
  ASSUME NEW raw, NEW V, NEW rules \in Seq(V), \A i \in DOMAIN rules : Sound(rules[i])
  PROVE  Filled(raw, rules) = [f \in Fields |-> ValueOf(f, raw, rules)]
<1> DEFINE N == Len(rules)
<1>1. N \in Nat /\ DOMAIN rules = 1..N
  OBVIOUS
<1>2. PICK g : Fills(g, raw, rules) /\ Filled(raw, rules) = g[N]
  BY <1>1, FilledFills
<1> DEFINE Row(n) == [f \in Fields |-> Made(raw, rules, f, n)]
           T == {n \in 0..N : g[n] = Row(n)}
<1>3. 0 \in T
  <2>1. \A f : Made(raw, rules, f, 0) = Blank
    <3>1. \A f : Fits(rules, f, 0) = {}
      BY DEF Fits
    <3> QED
      BY <3>1 DEF Made
  <2> QED
    BY <1>1, <1>2, <2>1 DEF Fills
<1>4. ASSUME NEW n \in 1..N, n - 1 \in T
      PROVE  n \in T
  <2>1. g[n] = ApplyRule(Row(n - 1), rules[n], raw)
    BY <1>2, <1>4 DEF Fills
  <2>2. Sound(rules[n])
    BY <1>1
  <2>3. g[n] = [f \in Fields |-> IF f \in rules[n].targets THEN By(rules[n], raw, f)
                                 ELSE Row(n - 1)[f]]
    <3> DEFINE r == Row(n - 1)
    <3>1. r = [f \in Fields |-> r[f]]
      OBVIOUS
    <3> HIDE DEF r
    <3>2. ApplyRule(r, rules[n], raw) =
            [f \in Fields |-> IF f \in rules[n].targets THEN By(rules[n], raw, f) ELSE r[f]]
      BY <2>2, <3>1, AppliedMakes
    <3> QED
      BY <2>1, <3>2 DEF r
  <2>4. \A f : Made(raw, rules, f, n) = IF f \in rules[n].targets THEN By(rules[n], raw, f)
                                        ELSE Made(raw, rules, f, n - 1)
    BY MadeByNext
  <2>5. g[n] = Row(n)
    BY <2>3, <2>4
  <2> HIDE DEF Row
  <2> QED
    BY <2>5
<1>5. g[N] = Row(N)
  <2> HIDE DEF T
  <2>1. \A k \in 0..N : k \in T
    BY <1>1, <1>3, <1>4, Induction
  <2>2. N \in T
    BY <1>1, <2>1
  <2> QED
    BY <2>2 DEF T
<1>6. \A f : Made(raw, rules, f, N) = ValueOf(f, raw, rules)
  BY <1>1 DEF Made, Fits, By, ValueOf
<1> QED
  BY <1>2, <1>5, <1>6

\* A row of the preview is the row that is prepared.
LEMMA SameRow ==
  ASSUME NEW r, NEW V, NEW rules \in Seq(V), \A i \in DOMAIN rules : Sound(rules[i])
  PROVE  PreviewRow(r, rules) = PrepareRow(r, rules)
BY FilledMakes DEF PreviewRow, PrepareRow

\* Sound rules that are kept are sound.
LEMMA KeptSound ==
  ASSUME NEW V, NEW rules \in Seq(V), NEW chosen \in SUBSET DOMAIN rules,
         \A i \in chosen : Sound(rules[i])
  PROVE  /\ Kept(rules, chosen) \in Seq({rules[i] : i \in chosen})
         /\ \A k \in DOMAIN Kept(rules, chosen) : Sound(Kept(rules, chosen)[k])
<1>1. Len(rules) \in Nat /\ DOMAIN rules = 1..Len(rules)
  OBVIOUS
<1>2. \A i \in chosen : rules[i] \in {rules[j] : j \in chosen}
  OBVIOUS
<1>3. \A k \in DOMAIN Kept(rules, chosen) : \E i \in chosen : Kept(rules, chosen)[k] = rules[i]
  BY KeptElements
<1>4. Kept(rules, chosen) \in Seq({rules[j] : j \in chosen})
  <2> DEFINE W == {rules[j] : j \in chosen}
  <2>1. \A i \in chosen : rules[i] \in W
    BY <1>2
  <2> HIDE DEF W
  <2> QED
    BY <2>1, KeptElements
<1>5. \A k \in DOMAIN Kept(rules, chosen) : Sound(Kept(rules, chosen)[k])
  BY <1>3
<1> QED
  BY <1>4, <1>5

\* The rules that are proposed are sound.
LEMMA RulesSound ==
  ASSUME NEW content, IsContent(content)
  PROVE  /\ \E V : Rules(content) \in Seq(V)
         /\ \A i \in DOMAIN Rules(content) : Sound(Rules(content)[i])
<1> DEFINE place(s, c) == [sheet |-> content.sheets[s].name, column |-> c,
                           header |-> content.sheets[s].columns[c]]
           ss == [s \in DOMAIN content.sheets |->
                    [c \in DOMAIN content.sheets[s].columns |-> place(s, c)]]
           n == Len(content.sheets)
<1>1. n \in Nat /\ DOMAIN content.sheets = 1..n
  BY DEF IsContent, IsList
<1>2. ASSUME NEW s \in 1..n
      PROVE  \E V : ss[s] \in Seq(V)
  <2> DEFINE m == Len(content.sheets[s].columns)
             W == {place(s, c) : c \in 1..m}
  <2>1. m \in Nat /\ DOMAIN content.sheets[s].columns = 1..m
    BY <1>1 DEF IsContent, IsList
  <2>2. ss[s] = [c \in 1..m |-> place(s, c)]
    BY <1>1, <2>1
  <2>3. \A c \in 1..m : place(s, c) \in W
    OBVIOUS
  <2> HIDE DEF ss, place, W
  <2>4. ss[s] \in Seq(W)
    BY <2>1, <2>2, <2>3
  <2> QED
    BY <2>4
<1>3. ss = [s \in 1..n |-> ss[s]]
  BY <1>1
<1>4. ColumnsOf(content) = ConcatAll(ss)
  BY DEF ColumnsOf
<1> HIDE DEF ss
<1>5. PICK V : ss \in Seq(Seq(V))
  BY <1>1, <1>2, <1>3, Gathered
<1> DEFINE columns == ColumnsOf(content)
           all == [i \in DOMAIN columns |-> RuleFor(columns[i])]
           W == {all[i] : i \in DOMAIN columns}
           chosen == {i \in DOMAIN all : all[i].kind # "extension"}
<1>6. columns \in Seq(V)
  BY <1>4, <1>5, FlattenElements
<1>7. all \in Seq(W)
  <2>1. /\ Len(columns) \in Nat /\ all = [i \in 1..Len(columns) |-> all[i]]
        /\ \A i \in 1..Len(columns) : all[i] \in W
    BY <1>6
  <2> HIDE DEF all, W, columns
  <2> QED
    BY <2>1
<1>8. ASSUME NEW i \in chosen
      PROVE  Sound(all[i])
  <2> DEFINE c == columns[i]
  <2>1. all[i] = RuleFor(c) /\ all[i].kind # "extension"
    OBVIOUS
  <2> HIDE DEF c, all
  <2>2. CASE c.header \in Fields
    <3>1. c.header # "both"
      BY <2>2 DEF Fields, ToSet, TenColumns
    <3>2. RuleFor(c) = [kind |-> "direct", of |-> c, targets |-> {c.header}]
      BY <2>2, <3>1 DEF RuleFor
    <3> QED
      BY <2>1, <3>2 DEF Sound
  <2>3. CASE c.header \notin Fields /\ c.header = "both"
    <3>1. RuleFor(c) = [kind |-> "split", of |-> c, targets |-> {"steps", "expected"}]
      BY <2>3 DEF RuleFor
    <3> QED
      BY <2>1, <3>1 DEF Sound
  <2>4. CASE c.header \notin Fields /\ c.header # "both"
    <3>1. RuleFor(c) = [kind |-> "extension", of |-> c, targets |-> {}]
      BY <2>4 DEF RuleFor
    <3> QED
      BY <2>1, <3>1
  <2> QED
    BY <2>2, <2>3, <2>4
<1>9. Rules(content) = Kept(all, chosen)
  BY DEF Rules
<1>10. chosen \in SUBSET DOMAIN all
  OBVIOUS
<1> HIDE DEF all, chosen, W
<1>11. Kept(all, chosen) \in Seq({all[i] : i \in chosen})
  BY <1>7, <1>8, <1>10, KeptSound
<1>12. \A i \in DOMAIN Kept(all, chosen) : Sound(Kept(all, chosen)[i])
  BY <1>7, <1>8, <1>10, KeptSound
<1> QED
  BY <1>9, <1>11, <1>12

\* A row has a value in each field.
Row(r) == r.values = [f \in Fields |-> r.values[f]]

\* Each sample row is a row that is prepared.
LEMMA PreviewIsPrepared ==
  ASSUME NEW content, IsContent(content)
  PROVE  /\ \E V : PrepareRows(content, Rules(content)) \in Seq(V)
         /\ \A i \in DOMAIN NormalizeForPreview(content, Rules(content)) :
              /\ NormalizeForPreview(content, Rules(content))[i]
                   \in ToSet(PrepareRows(content, Rules(content)))
              /\ Row(NormalizeForPreview(content, Rules(content))[i])
<1> DEFINE n == Len(content.sheets)
           mine(s) == RulesOfSheet(Rules(content), content.sheets[s].name)
           rows(s) == RowsOf(content.sheets[s])
           sample(s) == IF {"steps", "expected"} \subseteq Covered(mine(s))
                        THEN [i \in DOMAIN rows(s) |-> PreviewRow(rows(s)[i], mine(s))] ELSE <<>>
           prepared(s) == IF mine(s) = <<>> THEN <<>>
                          ELSE [i \in DOMAIN rows(s) |-> PrepareRow(rows(s)[i], mine(s))]
           samples == [s \in DOMAIN content.sheets |-> sample(s)]
           all == [s \in DOMAIN content.sheets |-> prepared(s)]
<1>1. n \in Nat /\ DOMAIN content.sheets = 1..n
  BY DEF IsContent, IsList
<1>2. ASSUME NEW s \in 1..n
      PROVE  /\ \E V : mine(s) \in Seq(V)
             /\ \A i \in DOMAIN mine(s) : Sound(mine(s)[i])
  <2>1. PICK V : Rules(content) \in Seq(V)
    BY RulesSound
  <2> DEFINE chosen == {i \in DOMAIN Rules(content) : Rules(content)[i].of.sheet = content.sheets[s].name}
  <2>2. mine(s) = Kept(Rules(content), chosen) /\ chosen \in SUBSET DOMAIN Rules(content)
    BY DEF RulesOfSheet
  <2>3. \A i \in chosen : Sound(Rules(content)[i])
    BY RulesSound
  <2> HIDE DEF chosen, mine
  <2>4. mine(s) \in Seq({Rules(content)[i] : i \in chosen})
    BY <2>1, <2>2, <2>3, KeptSound
  <2>5. \A i \in DOMAIN mine(s) : Sound(mine(s)[i])
    BY <2>1, <2>2, <2>3, KeptSound
  <2> QED
    BY <2>4, <2>5
<1>3. ASSUME NEW s \in 1..n
      PROVE  \E m \in Nat : DOMAIN rows(s) = 1..m
  <2>1. IsList(content.sheets[s].rows)
    BY <1>1 DEF IsContent
  <2>2. PICK W : rows(s) \in Seq(W)
    BY <2>1, RowsElements
  <2>3. Len(rows(s)) \in Nat /\ DOMAIN rows(s) = 1..Len(rows(s))
    BY <2>2
  <2> QED
    BY <2>3
<1>4. ASSUME NEW s \in 1..n
      PROVE  (\E V : sample(s) \in Seq(V)) /\ (\E V : prepared(s) \in Seq(V))
  <2>1. PICK m \in Nat : DOMAIN rows(s) = 1..m
    BY <1>3
  <2> DEFINE p == [i \in 1..m |-> PreviewRow(rows(s)[i], mine(s))]
             q == [i \in 1..m |-> PrepareRow(rows(s)[i], mine(s))]
  <2>2. p \in Seq({p[i] : i \in 1..m}) /\ q \in Seq({q[i] : i \in 1..m})
    <3>1. \A f : f = [i \in 1..m |-> f[i]] => f \in Seq({f[i] : i \in 1..m})
      OBVIOUS
    <3>2. p = [i \in 1..m |-> p[i]] /\ q = [i \in 1..m |-> q[i]]
      OBVIOUS
    <3> HIDE DEF p, q
    <3> QED
      BY <3>1, <3>2
  <2>3. sample(s) \in {p, <<>>} /\ prepared(s) \in {q, <<>>}
    BY <2>1
  <2>4. <<>> \in Seq({})
    OBVIOUS
  <2> HIDE DEF p, q, sample, prepared
  <2> QED
    BY <2>2, <2>3, <2>4
<1>5. ASSUME NEW s \in 1..n
      PROVE  /\ ToSet(sample(s)) \subseteq ToSet(prepared(s))
             /\ \A r \in ToSet(sample(s)) : Row(r)
  <2>1. CASE {"steps", "expected"} \subseteq Covered(mine(s))
    <3>1. mine(s) # <<>>
      <4>1. Covered(<<>>) = {}
        BY DEF Covered
      <4> QED
        BY <2>1, <4>1
    <3>2. PICK V : mine(s) \in Seq(V)
      BY <1>2
    <3>3. ASSUME NEW i \in DOMAIN rows(s)
          PROVE  PreviewRow(rows(s)[i], mine(s)) = PrepareRow(rows(s)[i], mine(s))
      <4> HIDE DEF mine, rows
      <4> QED
        BY <1>2, <3>2, SameRow
    <3>4. sample(s) = prepared(s)
      <4>1. /\ sample(s) = [i \in DOMAIN rows(s) |-> PreviewRow(rows(s)[i], mine(s))]
            /\ prepared(s) = [i \in DOMAIN rows(s) |-> PrepareRow(rows(s)[i], mine(s))]
        BY <2>1, <3>1
      <4> HIDE DEF sample, prepared, rows, mine
      <4> QED
        BY <3>3, <4>1
    <3>5. ASSUME NEW i \in DOMAIN rows(s)
          PROVE  Row(PreviewRow(rows(s)[i], mine(s)))
      BY DEF PreviewRow, Row
    <3>6. ASSUME NEW r \in ToSet(sample(s))
          PROVE  Row(r)
      <4>1. PICK i \in DOMAIN rows(s) : r = PreviewRow(rows(s)[i], mine(s))
        BY <2>1 DEF ToSet
      <4> QED
        BY <3>5, <4>1
    <3> QED
      BY <3>4, <3>6
  <2>2. CASE ~({"steps", "expected"} \subseteq Covered(mine(s)))
    <3>1. sample(s) = <<>>
      BY <2>2
    <3>2. ToSet(<<>>) = {}
      BY DEF ToSet
    <3> QED
      BY <3>1, <3>2
  <2> QED
    BY <2>1, <2>2
<1>6. samples = [s \in 1..n |-> samples[s]] /\ all = [s \in 1..n |-> all[s]]
  BY <1>1
<1>7. \A s \in 1..n : samples[s] = sample(s) /\ all[s] = prepared(s)
  BY <1>1
<1>8. PrepareRows(content, Rules(content)) = ConcatAll(all)
  BY DEF PrepareRows
<1>9. NormalizeForPreview(content, Rules(content)) =
        SubSeq(ConcatAll(samples), 1,
               IF Len(ConcatAll(samples)) < SampleSize THEN Len(ConcatAll(samples)) ELSE SampleSize)
  BY DEF NormalizeForPreview
<1> HIDE DEF samples, all, sample, prepared, n, mine, rows
<1>a. \A s \in 1..n : \E V : samples[s] \in Seq(V)
  BY <1>4, <1>7
<1>b. \A s \in 1..n : \E V : all[s] \in Seq(V)
  BY <1>4, <1>7
<1>10. PICK V : samples \in Seq(Seq(V))
  <2>1. n \in Nat /\ samples = [s \in 1..n |-> samples[s]]
    BY <1>1, <1>6
  <2> QED
    BY <1>a, <2>1, Gathered
<1>11. PICK W : all \in Seq(Seq(W))
  <2>1. n \in Nat /\ all = [s \in 1..n |-> all[s]]
    BY <1>1, <1>6
  <2> QED
    BY <1>b, <2>1, Gathered
<1>12. /\ ConcatAll(samples) \in Seq(V)
       /\ ToSet(ConcatAll(samples)) = UNION {ToSet(samples[s]) : s \in DOMAIN samples}
  BY <1>10, FlattenElements
<1>13. /\ ConcatAll(all) \in Seq(W)
       /\ ToSet(ConcatAll(all)) = UNION {ToSet(all[s]) : s \in DOMAIN all}
  BY <1>11, FlattenElements
<1>14. /\ ToSet(ConcatAll(samples)) \subseteq ToSet(ConcatAll(all))
       /\ \A r \in ToSet(ConcatAll(samples)) : Row(r)
  <2>1. DOMAIN samples = 1..n /\ DOMAIN all = 1..n
    BY <1>6
  <2>2. \A s \in 1..n : /\ ToSet(samples[s]) \subseteq ToSet(all[s])
                        /\ \A r \in ToSet(samples[s]) : Row(r)
    BY <1>5, <1>7
  <2> QED
    BY <1>12, <1>13, <2>1, <2>2
<1>15. ASSUME NEW i \in DOMAIN NormalizeForPreview(content, Rules(content))
       PROVE  NormalizeForPreview(content, Rules(content))[i] \in ToSet(ConcatAll(samples))
  <2> DEFINE t == ConcatAll(samples)
             k == IF Len(t) < SampleSize THEN Len(t) ELSE SampleSize
  <2>1. t \in Seq(V) /\ Len(t) \in Nat /\ k \in 0..Len(t)
    BY <1>12 DEF SampleSize
  <2>2. NormalizeForPreview(content, Rules(content)) = SubSeq(t, 1, k)
    BY <1>9
  <2> HIDE DEF t, k
  <2>3. /\ DOMAIN SubSeq(t, 1, k) = 1..k /\ DOMAIN t = 1..Len(t)
        /\ \A x \in 1..k : SubSeq(t, 1, k)[x] = t[x]
    BY <2>1
  <2>4. i \in DOMAIN t /\ NormalizeForPreview(content, Rules(content))[i] = t[i]
    BY <2>1, <2>2, <2>3
  <2>5. t[i] \in ToSet(t)
    BY <2>4 DEF ToSet
  <2> QED
    BY <2>4, <2>5 DEF t
<1> QED
  BY <1>8, <1>13, <1>14, <1>15

\* A row that is no title row is among the cases, with its values but for the status.
LEMMA NormalizedRow ==
  ASSUME NEW V, NEW rows \in Seq(V), NormalizeSourceRows(rows) # Refused,
         NEW i \in DOMAIN rows, ~IsDivider(rows[i].values),
         Row(rows[i])
  PROVE  \E c \in ToSet(Real(NormalizeSourceRows(rows).cases)) :
           /\ c.sheet = rows[i].sheet /\ c.row = rows[i].row
           /\ c.id = rows[i].values["id"]
           /\ \A f \in Fields \ {"status"} : c.values[f] = rows[i].values[f]
<1> DEFINE case(r) ==
             LET divider == IsDivider(r.values)
             IN  [id |-> r.values["id"], sheet |-> r.sheet, row |-> r.row, divider |-> divider,
                  values |-> [r.values EXCEPT !["status"] = NormalizedStatus(@, divider)]]
           cases == [k \in DOMAIN rows |-> case(rows[k])]
           chosen == {k \in DOMAIN cases : ~cases[k].divider}
<1>1. NormalizeSourceRows(rows).cases = cases
  <2>1. (\A k \in DOMAIN cases : cases[k].values["status"] # Invalid) /\ ValidateIds(cases)
    BY DEF NormalizeSourceRows
  <2> QED
    BY <2>1 DEF NormalizeSourceRows
<1>2. i \in chosen
  OBVIOUS
<1>3. chosen \in SUBSET DOMAIN cases
  OBVIOUS
<1>0. Len(rows) \in Nat /\ cases = [x \in 1..Len(rows) |-> cases[x]]
  OBVIOUS
<1>4. Real(cases) = Kept(cases, chosen)
  BY DEF Real
<1>5. cases[i] \in ToSet(Real(cases))
  <2> HIDE DEF cases, chosen
  <2>1. PICK k \in DOMAIN Kept(cases, chosen) : Kept(cases, chosen)[k] = cases[i]
    <3>1. cases \in Seq({cases[x] : x \in 1..Len(rows)})
      BY <1>0
    <3> QED
      BY <1>2, <1>3, <3>1, KeptElements
  <2> QED
    BY <1>4, <2>1 DEF ToSet
<1>6. /\ cases[i].sheet = rows[i].sheet /\ cases[i].row = rows[i].row
      /\ cases[i].id = rows[i].values["id"]
  OBVIOUS
<1>7. \A f \in Fields \ {"status"} : cases[i].values[f] = rows[i].values[f]
  BY DEF Row
<1> HIDE DEF cases
<1> QED
  BY <1>1, <1>5, <1>6, <1>7

\* The rows of a confirmed proposal are among the cases of the manifest.
LEMMA PreviewRuns == PrepInv => PreviewIsWhatRuns
<1> SUFFICES ASSUME PrepInv, ByMapping
             PROVE  PreviewIsWhatRuns
  BY DEF PreviewIsWhatRuns
<1>1. Mapped(out.manifest, confirmed)
  BY DEF PrepInv, ManifestFounded, Founded, ByMapping
<1> DEFINE content(p) == p.source.content
           rows(p) == PrepareRows(content(p), p.rules)
<1>2. PICK p \in confirmed :
        /\ content(p) \in Contents /\ p # Refused /\ p = BuildMappingProposal(p.source)
        /\ content(p) = out.manifest.source
        /\ NormalizeSourceRows(rows(p)) # Refused
        /\ out.manifest.cases = Real(NormalizeSourceRows(rows(p)).cases)
  BY <1>1 DEF Mapped
<1>3. /\ p.rules = Rules(content(p))
      /\ p.samples = NormalizeForPreview(content(p), Rules(content(p)))
  <2> DEFINE built == [source |-> p.source, rules |-> Rules(p.source.content),
                       missing |-> Fields \ Covered(Rules(p.source.content)),
                       samples |-> NormalizeForPreview(p.source.content, Rules(p.source.content))]
  <2>1. p = built
    BY <1>2 DEF BuildMappingProposal
  <2>2. /\ built.rules = Rules(p.source.content)
        /\ built.samples = NormalizeForPreview(p.source.content, Rules(p.source.content))
    OBVIOUS
  <2> HIDE DEF built
  <2> QED
    BY <2>1, <2>2
<1>4. IsContent(content(p))
  BY <1>2, ContentsAssumption
<1> DEFINE r == rows(p)
<1>5. /\ \E V : r \in Seq(V)
      /\ \A i \in DOMAIN p.samples : p.samples[i] \in ToSet(r) /\ Row(p.samples[i])
  BY <1>3, <1>4, PreviewIsPrepared
<1>6. ASSUME NEW i \in DOMAIN p.samples, ~IsDivider(p.samples[i].values)
      PROVE  \E c \in ToSet(out.manifest.cases) :
               /\ c.sheet = p.samples[i].sheet /\ c.row = p.samples[i].row
               /\ c.id = p.samples[i].values["id"]
               /\ \A f \in Fields \ {"status"} : c.values[f] = p.samples[i].values[f]
  <2>1. PICK k \in DOMAIN r : p.samples[i] = r[k]
    BY <1>5 DEF ToSet
  <2>2. NormalizeSourceRows(r) # Refused /\ out.manifest.cases = Real(NormalizeSourceRows(r).cases)
    BY <1>2
  <2>3. PICK V : r \in Seq(V)
    BY <1>5
  <2>4. Row(r[k]) /\ ~IsDivider(r[k].values)
    BY <1>5, <1>6, <2>1
  <2> HIDE DEF r
  <2>5. PICK c \in ToSet(Real(NormalizeSourceRows(r).cases)) :
          /\ c.sheet = r[k].sheet /\ c.row = r[k].row
          /\ c.id = r[k].values["id"]
          /\ \A f \in Fields \ {"status"} : c.values[f] = r[k].values[f]
    BY <2>1, <2>2, <2>3, <2>4, NormalizedRow
  <2> QED
    BY <2>1, <2>2, <2>5
<1> QED
  BY <1>2, <1>6 DEF PreviewIsWhatRuns

-----------------------------------------------------------------------------
(* The package and the Runner's reader.                                    *)

\* What validation says of a package.
LEMMA VettedTells ==
  ASSUME NEW p, Vetted(p)
  PROVE  /\ AllResolved(p.contract) /\ p.manifest.source = p.source
         /\ InspectWorkbook(p.source, None) # Refused
         /\ SourceMatches(p, InspectWorkbook(p.source, None).cases)
<1> DEFINE source == InspectWorkbook(p.source, None)
           c == p.contract
           all == UNION {{<<i, f>> : f \in c[i].unresolved} : i \in DOMAIN c}
<1>1. p.intact /\ source # Refused /\ SchemaHolds(c)
  BY DEF Vetted, ValidatePackage
<1>2. {} = {e \in {"case_ids"} : Ids(c) # p.manifest.ids}
           \cup {e \in {"package_status"} : p.manifest.status # StatusOf(c)}
           \cup {e \in {"source_sha"} : p.manifest.source # p.source}
           \cup {e \in {"source_mapping"} : ~SourceMatches(p, source.cases)}
  BY <1>1 DEF Vetted, ValidatePackage
<1>3. p.manifest.status = StatusOf(c) /\ p.manifest.source = p.source /\ SourceMatches(p, source.cases)
  BY <1>2
<1>4. Cardinality(all) = 0
  <2>1. StatusOf(c) = "READY"
    BY <1>3 DEF Vetted
  <2> QED
    BY <2>1 DEF StatusOf, UnresolvedCount
<1>5. IsFiniteSet(all)
  <2>1. Len(c) \in Nat /\ DOMAIN c = 1..Len(c)
    BY DEF Vetted, Lawful
  <2>2. IsFiniteSet(1..Len(c))
    BY <2>1, FS_Interval
  <2>3. IsFiniteSet(Left)
    <3>1. IsFiniteSet({})
      BY FS_EmptySet
    <3>2. IsFiniteSet({} \cup {"precondition"})
      BY <3>1, FS_AddElement
    <3>3. IsFiniteSet({} \cup {"precondition"} \cup {"steps"})
      BY <3>2, FS_AddElement
    <3>4. IsFiniteSet({} \cup {"precondition"} \cup {"steps"} \cup {"expected"})
      BY <3>3, FS_AddElement
    <3>5. IsFiniteSet({} \cup {"precondition"} \cup {"steps"} \cup {"expected"} \cup {"priority"})
      BY <3>4, FS_AddElement
    <3>6. Left = {} \cup {"precondition"} \cup {"steps"} \cup {"expected"} \cup {"priority"}
      BY DEF Left
    <3> QED
      BY <3>5, <3>6
  <2>4. IsFiniteSet((1..Len(c)) \X Left)
    BY <2>2, <2>3, FS_Product
  <2>5. \A i \in DOMAIN c : c[i].unresolved \subseteq Left
    BY DEF Vetted, Lawful
  <2>6. all \in SUBSET ((1..Len(c)) \X Left)
    BY <2>1, <2>5
  <2> HIDE DEF all
  <2> QED
    BY <2>4, <2>6, FS_Subset
<1>6. all = {}
  <2> HIDE DEF all
  <2> QED
    BY <1>4, <1>5, FS_EmptySet
<1>7. AllResolved(c)
  <2>1. ASSUME NEW i \in DOMAIN c
        PROVE  c[i].unresolved = {}
    <3>1. {<<i, f>> : f \in c[i].unresolved} = {}
      BY <1>6
    <3> QED
      BY <3>1
  <2> QED
    BY <2>1 DEF AllResolved
<1> QED
  BY <1>1, <1>3, <1>7

\* In a sheet of cases the columns of the id and of the title are the first two.
LEMMA CaseColumns ==
  ASSUME NEW columns \in {TenColumns, ElevenColumns}
  PROVE  /\ SelectInSeq(columns, LAMBDA c : c = "id") = 1
         /\ IndexesOf(columns, None)["id"] = 1
         /\ IndexesOf(columns, None)["title"] # 0
<1>1. /\ Len(columns) \in Nat /\ Len(columns) >= 2 /\ columns[1] = "id" /\ columns[2] = "title"
  BY DEF TenColumns, ElevenColumns
<1>2. ASSUME NEW I, I \subseteq 1..Len(columns), 1 \in I
      PROVE  Min(I) = 1
  <2>1. \A y \in I : y \in Nat /\ 1 <= y
    BY <1>1, <1>2
  <2>2. \A x \in I : (\A y \in I : x <= y) => x = 1
    BY <1>2, <2>1
  <2> QED
    BY <1>2, <2>1, <2>2 DEF Min
<1>3. SelectInSeq(columns, LAMBDA c : c = "id") = 1
  <2> DEFINE I == {i \in 1..Len(columns) : columns[i] = "id"}
  <2>1. I \subseteq 1..Len(columns) /\ 1 \in I
    BY <1>1
  <2>2. SelectInSeq(columns, LAMBDA c : c = "id") = IF I # {} THEN Min(I) ELSE 0
    BY DEF SelectInSeq
  <2> HIDE DEF I
  <2> QED
    BY <1>2, <2>1, <2>2
<1>4. SelectInSeq(columns, LAMBDA c : c \in Aliases("id")) = 1
  <2> DEFINE I == {i \in 1..Len(columns) : columns[i] \in Aliases("id")}
  <2>1. I \subseteq 1..Len(columns) /\ 1 \in I
    BY <1>1 DEF Aliases
  <2>2. SelectInSeq(columns, LAMBDA c : c \in Aliases("id")) = IF I # {} THEN Min(I) ELSE 0
    BY DEF SelectInSeq
  <2> HIDE DEF I
  <2> QED
    BY <1>2, <2>1, <2>2
<1>5. MappingFor(columns, None)["id"] = "id"
  BY <1>1, <1>4 DEF MappingFor, CaseFields
<1>6. IndexesOf(columns, None)["id"] = 1
  <2>1. IndexesOf(columns, None)["id"]
          = SelectInSeq(columns, LAMBDA c : c = MappingFor(columns, None)["id"])
    BY DEF IndexesOf, CaseFields
  <2> QED
    BY <1>3, <1>5, <2>1
<1>7. IndexesOf(columns, None)["title"] # 0
  <2> DEFINE J == {i \in 1..Len(columns) : columns[i] \in Aliases("title")}
             name == MappingFor(columns, None)["title"]
             I == {i \in 1..Len(columns) : columns[i] = name}
  <2>1. J = {2} \/ (J # {} /\ J \subseteq 1..Len(columns))
    BY <1>1 DEF Aliases
  <2>2. Min(J) \in J
    <3>1. J = {2}
      BY DEF Aliases, TenColumns, ElevenColumns
    <3> QED
      BY <3>1 DEF Min
  <2>3. SelectInSeq(columns, LAMBDA c : c \in Aliases("title")) = IF J # {} THEN Min(J) ELSE 0
    BY DEF SelectInSeq
  <2>4. SelectInSeq(columns, LAMBDA c : c \in Aliases("title")) \in J
    <3> HIDE DEF J
    <3> QED
      BY <2>2, <2>3
  <2>5. name = "title"
    BY <2>4 DEF MappingFor, CaseFields, Aliases
  <2>6. IndexesOf(columns, None)["title"] = IF I # {} THEN Min(I) ELSE 0
    BY DEF IndexesOf, CaseFields, SelectInSeq
  <2>7. I = {2}
    BY <2>5 DEF TenColumns, ElevenColumns
  <2>8. Min(I) = 2
    <3> HIDE DEF I
    <3> QED
      BY <2>7 DEF Min
  <2> HIDE DEF I, name
  <2> QED
    BY <2>6, <2>7, <2>8
<1> QED
  BY <1>3, <1>6, <1>7

\* A case the Runner finds on a sheet, the compiler finds there too.
LEMMA SheetCaseFound ==
  ASSUME NEW sheet, IsList(sheet.rows), IsCaseSheet(sheet), NEW k \in DOMAIN SheetCases(sheet),
         SheetCases(sheet)[k].values["id"] # Blank
  PROVE  /\ Len(sheet.rows) > 0 /\ SheetCases(sheet)[k].sheet = sheet.name
         /\ \E d \in ToSet(CasesOfSheet(sheet, None)) :
              d.id = SheetCases(sheet)[k].values["id"] /\ d.sheet = sheet.name
<1> DEFINE all == RowsOf(sheet)
           at == IndexesOf(sheet.columns, None)
           text(r, f) == IF at[f] = 0 THEN Blank ELSE r.raw[at[f]]
           chosen == {i \in DOMAIN all : text(all[i], "id") # Blank}
           rows == Kept(all, chosen)
           found(r) == [id |-> text(r, "id"), sheet |-> sheet.name, row |-> r.row,
                        values |-> [f \in CaseFields |-> text(r, f)]]
           W == {Placed(sheet, i) : i \in DOMAIN sheet.rows}
<1>1. /\ SelectInSeq(sheet.columns, LAMBDA c : c = "id") = 1
      /\ at["id"] = 1 /\ at["title"] # 0
  BY CaseColumns DEF IsCaseSheet
<1>2. all \in Seq(W) /\ k \in DOMAIN all
  BY RowsElements DEF SheetCases
<1>3. PICK i \in DOMAIN sheet.rows : all[k] = Placed(sheet, i)
  BY <1>2
<1>4. SheetCases(sheet)[k] = ByColumn(sheet.columns, all[k])
  BY <1>2 DEF SheetCases
<1>5. /\ SheetCases(sheet)[k].sheet = sheet.name
      /\ SheetCases(sheet)[k].values["id"] = all[k].raw[1]
  <2>1. "id" \in Fields
    BY DEF Fields, TenColumns, ToSet
  <2>2. ByColumn(sheet.columns, all[k]).values["id"]
          = all[k].raw[SelectInSeq(sheet.columns, LAMBDA c : c = "id")]
    BY <2>1 DEF ByColumn
  <2>3. ByColumn(sheet.columns, all[k]).sheet = all[k].sheet
    BY DEF ByColumn
  <2> QED
    BY <1>1, <1>3, <1>4, <2>2, <2>3 DEF Placed
<1>6. k \in chosen
  <2>1. text(all[k], "id") = all[k].raw[1]
    BY <1>1
  <2> QED
    BY <1>2, <1>5, <2>1
<1>7. PICK j \in DOMAIN rows : rows[j] = all[k]
  <2>1. chosen \in SUBSET DOMAIN all
    OBVIOUS
  <2> HIDE DEF chosen, all
  <2> QED
    BY <1>2, <1>6, <2>1, KeptElements
<1>8. CasesOfSheet(sheet, None) = [x \in DOMAIN rows |-> found(rows[x])]
  BY <1>1 DEF CasesOfSheet
<1>9. found(rows[j]) \in ToSet(CasesOfSheet(sheet, None))
  <2> HIDE DEF rows, found
  <2> QED
    BY <1>8 DEF ToSet
<1>10. found(rows[j]).id = all[k].raw[1] /\ found(rows[j]).sheet = sheet.name
  <2> HIDE DEF rows, all, at
  <2> QED
    BY <1>1, <1>7
<1>11. Len(sheet.rows) > 0
  BY <1>3 DEF IsList
<1> HIDE DEF found, rows, all
<1> QED
  BY <1>5, <1>9, <1>10, <1>11

LEMMA NothingListed == <<>> \in Seq({})
OBVIOUS

\* Every formal case of a workbook is among those the compiler inspects.
LEMMA FormalCasesFound ==
  ASSUME NEW content, IsContent(content), ReadStandardExcel(content) # Refused,
         InspectWorkbook(content, None) # Refused,
         NEW c \in ToSet(Real(ReadStandardExcel(content).cases))
  PROVE  \E d \in ToSet(InspectWorkbook(content, None).cases) : d.id = c.id /\ d.sheet = c.sheet
<1> DEFINE n == Len(content.sheets)
           read == [i \in DOMAIN content.sheets |->
                      IF IsCaseSheet(content.sheets[i]) THEN SheetCases(content.sheets[i]) ELSE <<>>]
           found == [s \in DOMAIN content.sheets |->
                      IF s \in WithRows(content) THEN CasesOfSheet(content.sheets[s], None) ELSE <<>>]
           rows == ConcatAll(read)
           case(r) == LET divider == IsDivider(r.values)
                      IN  [id |-> r.values["id"], sheet |-> r.sheet, row |-> r.row,
                           divider |-> divider,
                           values |-> [r.values EXCEPT !["status"] = NormalizedStatus(@, divider)]]
           cases == [k \in DOMAIN rows |-> case(rows[k])]
           real == {k \in DOMAIN cases : ~cases[k].divider}
<1>1. n \in Nat /\ DOMAIN content.sheets = 1..n
      /\ \A i \in 1..n : IsList(content.sheets[i].rows)
  BY DEF IsContent, IsList
<1>2. ReadStandardExcel(content) = NormalizeSourceRows(rows) /\ NormalizeSourceRows(rows) # Refused
  BY DEF ReadStandardExcel
<1>3. ReadStandardExcel(content).cases = cases /\ ValidateIds(cases)
  <2> DEFINE lawful == /\ \A k \in DOMAIN cases : cases[k].values["status"] # Invalid
                       /\ ValidateIds(cases)
  <2>1. NormalizeSourceRows(rows) = IF lawful THEN [cases |-> cases] ELSE Refused
    BY DEF NormalizeSourceRows
  <2>2. lawful
    <3> HIDE DEF lawful, rows, case, cases
    <3> QED
      BY <1>2, <2>1
  <2> HIDE DEF rows, case, cases
  <2> QED
    BY <1>2, <2>1, <2>2
<1>4. PICK V : read \in Seq(Seq(V))
  <2>1. ASSUME NEW i \in 1..n
        PROVE  \E V : read[i] \in Seq(V)
    <3> DEFINE sheet == content.sheets[i]
               W == {Placed(sheet, j) : j \in DOMAIN sheet.rows}
               U == {ByColumn(sheet.columns, r) : r \in W}
    <3>1. RowsOf(sheet) \in Seq(W)
      BY <1>1, RowsElements
    <3>2. SheetCases(sheet) \in Seq(U)
      <4>1. /\ Len(RowsOf(sheet)) \in Nat /\ DOMAIN RowsOf(sheet) = 1..Len(RowsOf(sheet))
            /\ \A j \in 1..Len(RowsOf(sheet)) : RowsOf(sheet)[j] \in W
        BY <3>1
      <4> HIDE DEF W
      <4> QED
        BY <4>1 DEF SheetCases
    <3>3. <<>> \in Seq(U)
      OBVIOUS
    <3> HIDE DEF U
    <3> QED
      BY <1>1, <3>2, <3>3
  <2>2. read = [i \in 1..n |-> read[i]]
    BY <1>1
  <2> HIDE DEF read
  <2> QED
    BY <1>1, <2>1, <2>2, Gathered
<1>5. rows \in Seq(V) /\ ToSet(rows) = UNION {ToSet(read[i]) : i \in DOMAIN read}
  BY <1>4, FlattenElements
<1>6. PICK k \in real : c = cases[k]
  <2>1. cases \in Seq({cases[x] : x \in 1..Len(rows)})
    <3>1. Len(rows) \in Nat /\ cases = [x \in 1..Len(rows) |-> cases[x]]
      BY <1>5
    <3> HIDE DEF cases
    <3> QED
      BY <3>1
  <2>2. real \in SUBSET DOMAIN cases
    OBVIOUS
  <2>3. PICK x \in DOMAIN Kept(cases, real) : c = Kept(cases, real)[x]
    BY <1>3 DEF Real, ToSet
  <2> HIDE DEF cases, real
  <2> QED
    BY <2>1, <2>2, <2>3, KeptElements
<1>7. /\ k \in DOMAIN rows /\ c.id = rows[k].values["id"] /\ c.sheet = rows[k].sheet
      /\ c.id # Blank
  <2>1. cases[k].id # Blank
    <3> HIDE DEF cases
    <3> QED
      BY <1>3 DEF ValidateIds
  <2> QED
    BY <1>6, <2>1
<1>8. PICK i \in 1..n : rows[k] \in ToSet(read[i])
  <2>1. rows[k] \in ToSet(rows)
    BY <1>7 DEF ToSet
  <2>2. DOMAIN read = 1..n
    BY <1>1
  <2> HIDE DEF read, rows
  <2> QED
    BY <1>5, <2>1, <2>2
<1> DEFINE sheet == content.sheets[i]
<1>9. PICK j \in DOMAIN read[i] : rows[k] = read[i][j]
  <2> HIDE DEF read, rows
  <2> QED
    BY <1>8 DEF ToSet
<1>10. IsCaseSheet(sheet) /\ j \in DOMAIN SheetCases(sheet) /\ rows[k] = SheetCases(sheet)[j]
  <2>1. read[i] = IF IsCaseSheet(sheet) THEN SheetCases(sheet) ELSE <<>>
    BY <1>1
  <2> HIDE DEF read, rows
  <2> QED
    BY <1>9, <2>1
<1>11. /\ Len(sheet.rows) > 0 /\ c.sheet = sheet.name
       /\ \E d \in ToSet(CasesOfSheet(sheet, None)) : d.id = c.id /\ d.sheet = sheet.name
  <2> HIDE DEF rows
  <2> QED
    BY <1>1, <1>7, <1>10, SheetCaseFound
<1>12. PICK d \in ToSet(found[i]) : d.id = c.id /\ d.sheet = c.sheet
  <2>1. i \in WithRows(content)
    BY <1>1, <1>11 DEF WithRows
  <2>2. found[i] = CasesOfSheet(sheet, None)
    BY <1>1, <2>1
  <2> HIDE DEF found
  <2> QED
    BY <1>11, <2>2
<1>13. PICK U : found \in Seq(Seq(U))
  <2>1. ASSUME NEW s \in 1..n
        PROVE  \E U : found[s] \in Seq(U)
    <3>1. CASE s \in WithRows(content)
      BY <1>1, <3>1, CasesListed
    <3>2. CASE s \notin WithRows(content)
      <4>1. found[s] = <<>>
        BY <1>1, <3>2
      <4>2. \E U : found[s] \in Seq(U)
        <5> HIDE DEF found
        <5> QED
          BY <4>1, NothingListed
      <4> QED
        BY <4>2
    <3> QED
      BY <3>1, <3>2
  <2>2. found = [s \in 1..n |-> found[s]]
    BY <1>1
  <2> HIDE DEF found
  <2> QED
    BY <1>1, <2>1, <2>2, Gathered
<1>14. d \in ToSet(ConcatAll(found))
  <2>1. ToSet(ConcatAll(found)) = UNION {ToSet(found[s]) : s \in DOMAIN found}
    BY <1>13, FlattenElements
  <2>2. i \in DOMAIN found
    BY <1>1
  <2> HIDE DEF found
  <2> QED
    BY <1>12, <2>1, <2>2
<1>15. InspectWorkbook(content, None).cases = ConcatAll(found)
  BY DEF InspectWorkbook
<1> HIDE DEF found
<1> QED
  BY <1>12, <1>14, <1>15

\* A package that was validated, and is what is planned, holds the cases of its workbook.
LEMMA PackageIsComplete == PrepInv => FormalCasesArePlanned
<1> SUFFICES ASSUME PrepInv, ByPackage, out.manifest.from.validated = out.manifest.from.package
             PROVE  LET read == ReadStandardExcel(out.manifest.source) IN
                    /\ read # Refused =>
                         \A c \in ToSet(Real(read.cases)) :
                           \E p \in ToSet(out.manifest.cases) : p.id = c.id /\ p.sheet = c.sheet
                    /\ AllResolved(out.manifest.from.package.contract)
  BY DEF FormalCasesArePlanned
<1> DEFINE p == out.manifest.from.package
           source == InspectWorkbook(p.source, None).cases
<1>1. /\ Vetted(p) /\ out.manifest.cases = AsCases(p.contract)
      /\ out.manifest.source = p.manifest.source
  BY DEF PrepInv, ManifestFounded, Founded, Packaged, ByPackage
<1>2. /\ AllResolved(p.contract) /\ p.manifest.source = p.source
      /\ InspectWorkbook(p.source, None) # Refused /\ SourceMatches(p, source)
  BY <1>1, VettedTells
<1>3. IsContent(p.source)
  BY <1>1, ContentsAssumption DEF Vetted
<1>4. ASSUME ReadStandardExcel(p.source) # Refused,
             NEW c \in ToSet(Real(ReadStandardExcel(p.source).cases))
      PROVE  \E q \in ToSet(out.manifest.cases) : q.id = c.id /\ q.sheet = c.sheet
  <2>1. PICK d \in ToSet(source) : d.id = c.id /\ d.sheet = c.sheet
    BY <1>2, <1>3, <1>4, FormalCasesFound
  <2>2. PICK i \in DOMAIN source : d = source[i]
    BY <2>1 DEF ToSet
  <2>3. /\ Ids(source) = Ids(p.contract)
        /\ \A x \in DOMAIN source : p.contract[x].sheet = source[x].sheet
    BY <1>2 DEF SourceMatches
  <2>4. i \in DOMAIN p.contract /\ p.contract[i].id = d.id /\ p.contract[i].sheet = d.sheet
    <3> HIDE DEF source, p
    <3>1. DOMAIN Ids(source) = DOMAIN source /\ DOMAIN Ids(p.contract) = DOMAIN p.contract
      BY DEF Ids
    <3>2. Ids(source)[i] = source[i].id
      BY <2>2 DEF Ids
    <3>3. i \in DOMAIN p.contract
      BY <2>2, <2>3, <3>1
    <3>4. Ids(p.contract)[i] = p.contract[i].id
      BY <3>3 DEF Ids
    <3> QED
      BY <2>2, <2>3, <3>2, <3>3, <3>4
  <2>5. AsCases(p.contract)[i] \in ToSet(AsCases(p.contract))
    BY <2>4 DEF AsCases, ToSet
  <2>6. AsCases(p.contract)[i].id = d.id /\ AsCases(p.contract)[i].sheet = d.sheet
    BY <2>4 DEF AsCases
  <2> HIDE DEF source, p
  <2> QED
    BY <1>1, <2>1, <2>5, <2>6
<1>5. out.manifest.source = p.source
  BY <1>1, <1>2
<1> QED
  BY <1>2, <1>4, <1>5

-----------------------------------------------------------------------------
(* Theorems                                                                *)

\* What is planned of a workbook that had to be mapped are the cases a user confirmed, of
\* the content and under the rules that were shown, although a plan reads the workbook three
\* times while it is written, and approvals of older proposals lie about (plan.ts, readCases,
\* and applyConfirmedMapping).
THEOREM CasesAreConfirmed == Spec => []CasesAreTheConfirmed
<1>1. PrepInv => CasesAreTheConfirmed
  BY DEF PrepInv, ManifestFounded, Founded, Mapped, CasesAreTheConfirmed, ByMapping
<1> QED
  BY <1>1, PrepAlways, PTL

\* Every sample row the user confirmed comes back among the planned cases, with its id and its
\* values, though the preview computes field by field and the plan rule by rule
\* (normalizeForPreview, prepareRows).
THEOREM PreviewsRun == Spec => []PreviewIsWhatRuns
  BY PreviewRuns, PrepAlways, PTL

\* A plan of a package that nobody replaced meanwhile leaves out no case the Runner itself
\* would find in the workbook whose hash the manifest records, and none of it is unresolved:
\* for any workbooks, overrides and explicit mappings, and although the compiler reads the
\* workbook twice, by other code than the Runner's (inspectWorkbook, readStandardExcel,
\* validatePackage, loadExecutionPackage).
THEOREM FormalCasesPlanned == Spec => []FormalCasesArePlanned
  BY PackageIsComplete, PrepAlways, PTL

\* Any two cases of a package that want one lock are ordered by dependencies, although the
\* compiler compares each holder with the last one before it only (assertConsistency).
THEOREM LocksOrder == Spec => []LocksAreOrdered
<1>1. PrepInv => LocksAreOrdered
  <2> SUFFICES ASSUME PrepInv, package # None, package.intact,
                      NEW i \in DOMAIN package.contract, NEW j \in DOMAIN package.contract,
                      i < j, package.contract[i].locks \cap package.contract[j].locks # {}
               PROVE  DependsOn(package.contract, package.contract[j].id, package.contract[i].id)
    BY DEF LocksAreOrdered
  <2> QED
    BY HoldersChain DEF PrepInv, Compiled
<1> QED
  BY <1>1, PrepAlways, PTL
=============================================================================
