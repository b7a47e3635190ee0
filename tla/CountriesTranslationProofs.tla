--------------------- MODULE CountriesTranslationProofs ---------------------
(***************************************************************************)
(* The lists of countries, for any countries, languages, translations,     *)
(* collators and weighted codes.  The first part is about sorting and      *)
(* filtering, the second about one list, the third about the request.      *)
(***************************************************************************)
EXTENDS CountriesTranslation, FiniteSetTheorems, FunctionTheorems,
        SequenceTheorems, TLAPS

-----------------------------------------------------------------------------
(* Sorting and filtering.                                                  *)

\* A set of pairs that orders a set strictly and totally.
StrictOrder(S, less) ==
    /\ \A i \in S : <<i, i>> \notin less
    /\ \A i, j \in S : i # j => <<i, j>> \in less \/ <<j, i>> \in less
    /\ \A i, j, k \in S :
        <<i, j>> \in less /\ <<j, k>> \in less => <<i, k>> \in less

Below(S, less, i) == {j \in S : <<j, i>> \in less}

\* The more elements are below an element, the later it comes.
LEMMA BelowGrows ==
    ASSUME NEW S, IsFiniteSet(S), NEW less, StrictOrder(S, less),
           NEW i \in S, NEW j \in S, <<i, j>> \in less
    PROVE  Cardinality(Below(S, less, i)) < Cardinality(Below(S, less, j))
<1>1. Below(S, less, i) \subseteq Below(S, less, j)
  BY DEF Below, StrictOrder
<1>2. i \in Below(S, less, j) /\ i \notin Below(S, less, i)
  BY DEF Below, StrictOrder
<1>3. IsFiniteSet(Below(S, less, j))
  BY FS_Subset DEF Below
<1>4. IsFiniteSet(Below(S, less, i))
  BY FS_Subset DEF Below
<1>5. /\ Cardinality(Below(S, less, i)) <= Cardinality(Below(S, less, j))
      /\ Cardinality(Below(S, less, i)) # Cardinality(Below(S, less, j))
  BY <1>1, <1>2, <1>3, FS_Subset
<1> QED
  BY <1>3, <1>4, <1>5, FS_CardinalityType

\* So the numbers of elements below are the numbers up to the size of the set.
LEMMA Places ==
    ASSUME NEW S, IsFiniteSet(S), NEW less, StrictOrder(S, less)
    PROVE  /\ \A i \in S : Cardinality(Below(S, less, i)) \in 0 .. Cardinality(S) - 1
           /\ \A k \in 0 .. Cardinality(S) - 1 : \E i \in S :
                Cardinality(Below(S, less, i)) = k
<1> DEFINE n == Cardinality(S)
           place == [i \in S |-> Cardinality(Below(S, less, i))]
<1>1. n \in Nat
  BY FS_CardinalityType
<1>2. ASSUME NEW i \in S
      PROVE  Cardinality(Below(S, less, i)) \in 0 .. n - 1
  <2>1. /\ IsFiniteSet(Below(S, less, i))
        /\ Cardinality(Below(S, less, i)) <= n
        /\ Cardinality(Below(S, less, i)) = n => Below(S, less, i) = S
    BY FS_Subset DEF Below
  <2>2. i \notin Below(S, less, i)
    BY DEF Below, StrictOrder
  <2>3. Cardinality(Below(S, less, i)) \in Nat
    BY <2>1, FS_CardinalityType
  <2> QED
    BY <1>1, <2>1, <2>2, <2>3
<1>3. place \in [S -> 0 .. n - 1]
  BY <1>2
<1>4. ASSUME NEW i \in S, NEW j \in S, place[i] = place[j]
      PROVE  i = j
  <2>1. CASE <<i, j>> \in less
    BY <2>1, <1>2, <1>4, BelowGrows
  <2>2. CASE <<j, i>> \in less
    BY <2>2, <1>2, <1>4, BelowGrows
  <2> QED
    BY <2>1, <2>2 DEF StrictOrder
<1>5. place \in Injection(S, 0 .. n - 1)
  BY <1>3, <1>4, Fun_IsInj
<1>6. IsFiniteSet(0 .. n - 1) /\ Cardinality(0 .. n - 1) = n
  <2>1. n - 1 \in Int /\ 0 \in Int
    BY <1>1
  <2> HIDE DEF n
  <2>2. /\ IsFiniteSet(0 .. n - 1)
        /\ Cardinality(0 .. n - 1) = IF 0 > n - 1 THEN 0 ELSE (n - 1) - 0 + 1
    BY <2>1, FS_Interval
  <2> QED
    BY <1>1, <2>2
<1>7. place \in Surjection(S, 0 .. n - 1)
  <2> HIDE DEF place
  <2>1. Cardinality(S) = Cardinality(0 .. n - 1)
    BY <1>6
  <2> QED
    BY <1>5, <1>6, <2>1, FS_Injection
<1>8. \A k \in 0 .. n - 1 : \E i \in S : place[i] = k
  BY <1>7 DEF Surjection
<1> QED
  BY <1>2, <1>8

\* InOrder has every element of the set once, in the order.
LEMMA InOrderSorts ==
    ASSUME NEW S, IsFiniteSet(S), NEW less, StrictOrder(S, less)
    PROVE  /\ Cardinality(S) \in Nat
           /\ InOrder(S, less) \in [1 .. Cardinality(S) -> S]
           /\ \A k, l \in 1 .. Cardinality(S) : k < l =>
                <<InOrder(S, less)[k], InOrder(S, less)[l]>> \in less
           /\ \A k, l \in 1 .. Cardinality(S) :
                InOrder(S, less)[k] = InOrder(S, less)[l] => k = l
           /\ \A i \in S : \E k \in 1 .. Cardinality(S) :
                InOrder(S, less)[k] = i
<1> DEFINE n == Cardinality(S)
           Sorted(f) == \A k, l \in 1 .. n : k < l => <<f[k], f[l]>> \in less
           order == [k \in 1 .. n |->
                CHOOSE i \in S : Cardinality(Below(S, less, i)) = k - 1]
<1>1. n \in Nat
  BY FS_CardinalityType
<1>2. \A k \in 1 .. n : /\ order[k] \in S
                        /\ Cardinality(Below(S, less, order[k])) = k - 1
  BY <1>1, Places
<1>3. order \in [1 .. n -> S]
  BY <1>2
<1>4. Sorted(order)
  <2> SUFFICES ASSUME NEW k \in 1 .. n, NEW l \in 1 .. n, k < l
               PROVE  <<order[k], order[l]>> \in less
    OBVIOUS
  <2>1. order[k] # order[l]
    BY <1>1, <1>2
  <2>2. <<order[l], order[k]>> \notin less
    BY <1>1, <1>2, BelowGrows
  <2> QED
    BY <1>2, <2>1, <2>2 DEF StrictOrder
<1> HIDE DEF order
<1> DEFINE f == InOrder(S, less)
<1>5. f \in [1 .. n -> S] /\ Sorted(f)
  BY <1>3, <1>4 DEF InOrder
<1> HIDE DEF f
<1>6. ASSUME NEW k \in 1 .. n, NEW l \in 1 .. n, f[k] = f[l]
      PROVE  k = l
  <2>1. f[k] \in S /\ <<f[k], f[k]>> \notin less
    BY <1>5 DEF StrictOrder
  <2>2. ~(k < l) /\ ~(l < k)
    BY <1>5, <1>6, <2>1
  <2> QED
    BY <2>2, <1>1
<1>7. f \in Injection(1 .. n, S)
  BY <1>5, <1>6, Fun_IsInj
<1>8. IsFiniteSet(1 .. n) /\ Cardinality(1 .. n) = n
  BY <1>1, FS_Interval
<1>9. f \in Surjection(1 .. n, S)
  BY <1>7, <1>8, FS_Injection
<1>10. \A i \in S : \E k \in 1 .. n : f[k] = i
  BY <1>9 DEF Surjection
<1> QED
  BY <1>1, <1>5, <1>6, <1>10 DEF f

\* What is taken at the places of a set of indices, in what order.
TakenBy(p, taken, list, S, less) ==
    LET n == Cardinality(S)
    IN  /\ n \in Nat
        /\ p \in [1 .. n -> S]
        /\ taken = [k \in 1 .. n |-> list[p[k]]]
        /\ \A k, l \in 1 .. n : k < l => <<p[k], p[l]>> \in less
        /\ \A k, l \in 1 .. n : p[k] = p[l] => k = l
        /\ \A i \in S : \E k \in 1 .. n : p[k] = i

\* Every index is taken once, in the order of the indices.
LEMMA TakenSorts ==
    ASSUME NEW list, NEW S, IsFiniteSet(S), NEW less, StrictOrder(S, less)
    PROVE  \E p : TakenBy(p, Taken(list, S, less), list, S, less)
<1> DEFINE f == InOrder(S, less)
           n == Cardinality(S)
<1>1. /\ n \in Nat
      /\ f \in [1 .. n -> S]
      /\ \A k, l \in 1 .. n : k < l => <<f[k], f[l]>> \in less
      /\ \A k, l \in 1 .. n : f[k] = f[l] => k = l
      /\ \A i \in S : \E k \in 1 .. n : f[k] = i
  BY InOrderSorts
<1>2. Taken(list, S, less) = [k \in DOMAIN f |-> list[f[k]]]
  BY DEF Taken
<1> HIDE DEF f
<1>3. DOMAIN f = 1 .. n
  BY <1>1
<1>4. TakenBy(f, Taken(list, S, less), list, S, less)
  BY <1>1, <1>2, <1>3 DEF TakenBy
<1> QED
  BY <1>4

\* Selecting keeps the order of the list.
LEMMA SelectedKeepsOrder ==
    ASSUME NEW list, NEW n \in Nat, NEW S \in SUBSET (1 .. n)
    PROVE  \E p : TakenBy(p, Selected(list, S), list, S,
                          {q \in S \X S : q[1] < q[2]})
<1> DEFINE less == {q \in S \X S : q[1] < q[2]}
<1>1. StrictOrder(S, less)
  BY DEF StrictOrder
<1>2. IsFiniteSet(S)
  <2>1. IsFiniteSet(1 .. n) /\ S \subseteq 1 .. n
    BY FS_Interval
  <2> QED
    BY <2>1, FS_Subset
<1>3. Selected(list, S) = Taken(list, S, less)
  BY DEF Selected
<1> HIDE DEF less
<1>4. \E p : TakenBy(p, Taken(list, S, less), list, S, less)
  BY <1>1, <1>2, TakenSorts
<1> QED
  BY <1>3, <1>4 DEF less

\* What a comparator must be for a sort to have a result: neither before the
\* other is an equivalence.
WeakOrder(S, before) ==
    /\ \A i \in S : <<i, i>> \notin before
    /\ \A i, j, k \in S :
        <<i, j>> \in before /\ <<j, k>> \in before => <<i, k>> \in before
    /\ \A i, j, k \in S :
        <<i, k>> \in before => <<i, j>> \in before \/ <<j, k>> \in before

\* A sort has every element of the list once, and none behind one it is before.
SortedBy(p, sorted, list, n, before) ==
    /\ p \in [1 .. n -> 1 .. n]
    /\ sorted = [k \in 1 .. n |-> list[p[k]]]
    /\ \A k, l \in 1 .. n : k < l => <<p[l], p[k]>> \notin before
    /\ \A k, l \in 1 .. n : p[k] = p[l] => k = l
    /\ \A i \in 1 .. n : \E k \in 1 .. n : p[k] = i

LEMMA StableSortSorts ==
    ASSUME NEW n \in Nat, NEW list, DOMAIN list = 1 .. n,
           NEW before, WeakOrder(1 .. n, before)
    PROVE  \E p : SortedBy(p, StableSort(list, before), list, n, before)
<1> DEFINE D == 1 .. n
           less == {q \in D \X D :
                q \in before \/ (<<q[2], q[1]>> \notin before /\ q[1] < q[2])}
<1>1. \A i, j \in D : <<i, j>> \in less <=>
            \/ <<i, j>> \in before
            \/ <<j, i>> \notin before /\ i < j
  OBVIOUS
<1>2. \A i \in D : <<i, i>> \notin before
  BY DEF WeakOrder
<1>3. \A i, j \in D : <<i, j>> \in before => <<j, i>> \notin before
  BY DEF WeakOrder
<1>4. StableSort(list, before) = Taken(list, D, less)
  BY DEF StableSort
<1> HIDE DEF less
<1>5. ASSUME NEW i \in D
      PROVE  <<i, i>> \notin less
  <2>1. <<i, i>> \in less => <<i, i>> \in before \/ i < i
    BY <1>1
  <2> QED
    BY <1>2, <2>1
<1>6. \A i, j \in D : i # j => <<i, j>> \in less \/ <<j, i>> \in less
  BY <1>1
<1>7. ASSUME NEW i \in D, NEW j \in D, NEW k \in D,
             <<i, j>> \in less, <<j, k>> \in less
      PROVE  <<i, k>> \in less
  <2>1. CASE <<i, j>> \in before /\ <<j, k>> \in before
    BY <1>1, <2>1 DEF WeakOrder
  <2>2. CASE <<i, j>> \in before /\ <<k, j>> \notin before
    BY <1>1, <2>2 DEF WeakOrder
  <2>3. CASE <<j, i>> \notin before /\ <<j, k>> \in before
    BY <1>1, <2>3 DEF WeakOrder
  <2>4. CASE /\ <<j, i>> \notin before /\ i < j
             /\ <<k, j>> \notin before /\ j < k
    <3>1. <<k, i>> \notin before
      BY <2>4 DEF WeakOrder
    <3>2. i < k
      BY <2>4
    <3> QED
      BY <1>1, <3>1, <3>2
  <2>5. \/ <<i, j>> \in before
        \/ <<j, i>> \notin before /\ i < j
    BY <1>1, <1>7
  <2>6. \/ <<j, k>> \in before
        \/ <<k, j>> \notin before /\ j < k
    BY <1>1, <1>7
  <2> QED
    BY <1>3, <2>1, <2>2, <2>3, <2>4, <2>5, <2>6
<1>8. StrictOrder(D, less)
  BY <1>5, <1>6, <1>7 DEF StrictOrder
<1>9. IsFiniteSet(D) /\ Cardinality(D) = n
  BY FS_Interval
<1>10. PICK p : TakenBy(p, Taken(list, D, less), list, D, less)
  BY <1>8, <1>9, TakenSorts
<1>11. /\ p \in [1 .. n -> D]
       /\ Taken(list, D, less) = [k \in 1 .. n |-> list[p[k]]]
       /\ \A k, l \in 1 .. n : k < l => <<p[k], p[l]>> \in less
       /\ \A k, l \in 1 .. n : p[k] = p[l] => k = l
       /\ \A i \in D : \E k \in 1 .. n : p[k] = i
  BY <1>9, <1>10 DEF TakenBy
<1>12. \A k, l \in 1 .. n : k < l => <<p[l], p[k]>> \notin before
  BY <1>1, <1>3, <1>11
<1>13. SortedBy(p, Taken(list, D, less), list, n, before)
  BY <1>11, <1>12 DEF SortedBy
<1> QED
  BY <1>4, <1>13

\* More weight first, and among equals the lower rank, is such a comparator.
LEMMA ByWeightAndRank ==
    ASSUME NEW n \in Nat, NEW w \in [1 .. n -> Int], NEW r \in [1 .. n -> Int],
           NEW before,
           \A i, j \in 1 .. n : <<i, j>> \in before <=>
                w[i] > w[j] \/ (w[i] = w[j] /\ r[i] < r[j])
    PROVE  WeakOrder(1 .. n, before)
<1>1. \A i \in 1 .. n : w[i] \in Int /\ r[i] \in Int
  OBVIOUS
<1>2. ASSUME NEW i \in 1 .. n
      PROVE  <<i, i>> \notin before
  BY <1>1
<1>3. ASSUME NEW i \in 1 .. n, NEW j \in 1 .. n, NEW k \in 1 .. n,
             <<i, j>> \in before, <<j, k>> \in before
      PROVE  <<i, k>> \in before
  <2>1. w[i] > w[j] \/ (w[i] = w[j] /\ r[i] < r[j])
    BY <1>3
  <2>2. w[j] > w[k] \/ (w[j] = w[k] /\ r[j] < r[k])
    BY <1>3
  <2>3. w[i] > w[k] \/ (w[i] = w[k] /\ r[i] < r[k])
    BY <1>1, <2>1, <2>2
  <2> QED
    BY <2>3
<1>4. ASSUME NEW i \in 1 .. n, NEW j \in 1 .. n, NEW k \in 1 .. n,
             <<i, k>> \in before, <<i, j>> \notin before
      PROVE  <<j, k>> \in before
  <2>1. w[i] > w[k] \/ (w[i] = w[k] /\ r[i] < r[k])
    BY <1>4
  <2>2. ~ (w[i] > w[j] \/ (w[i] = w[j] /\ r[i] < r[j]))
    BY <1>4
  <2>3. w[j] > w[k] \/ (w[j] = w[k] /\ r[j] < r[k])
    BY <1>1, <2>1, <2>2
  <2> QED
    BY <2>3
<1> QED
  BY <1>2, <1>3, <1>4 DEF WeakOrder

-----------------------------------------------------------------------------
(* One list of countries.                                                  *)

\* The name of every code that can appear, in the language resolved.
LEMMA TranslateIsName ==
    ASSUME NEW language, NEW code \in validCodes \cup {Sentinel}
    PROVE  Translate(language, code) \in Names
<1>1. <<language, code>> \in Translations => language \in Languages
  BY LanguagesAssumption
<1> QED
  BY <1>1 DEF Translate, Names

\* What one list is built from: codes of which no two are the same, and the
\* names of all of them, or none.
CodeList(codes) ==
    /\ codes \in Seq(WeightedCode)
    /\ \A i, j \in DOMAIN codes : codes[i].value = codes[j].value => i = j

NamesIn(language, codes) ==
    [i \in DOMAIN codes |-> [value  |-> Translate(language, codes[i].value),
                             weight |-> codes[i].weight]]

Given(names, codes) ==
    /\ match \in Languages \cup {None}
    /\ CodeList(codes)
    /\ names = <<>> \/ names = NamesIn(match, codes)

TupleOf(weightedCode) == [code   |-> weightedCode.value,
                          name   |-> Translate(match, weightedCode.value),
                          weight |-> weightedCode.weight]

Tuple == [code : validCodes \cup {Sentinel}, name : Names, weight : Nat]

\* Names and codes are paired to the end of the names, or not at all.
LEMMA TuplesPair ==
    ASSUME NEW names, NEW codes, Given(names, codes)
    PROVE  /\ Len(names) \in Nat
           /\ 1 .. Len(names) \subseteq DOMAIN codes
           /\ Tuples(names, codes) = [i \in 1 .. Len(names) |-> TupleOf(codes[i])]
           /\ \A i \in 1 .. Len(names) : TupleOf(codes[i]) \in Tuple
           /\ \A i \in 1 .. Len(names) : codes[i] \in WeightedCode
<1>1. codes \in Seq(WeightedCode)
  BY DEF Given, CodeList
<1>2. /\ Len(codes) \in Nat
      /\ DOMAIN codes = 1 .. Len(codes)
      /\ \A i \in DOMAIN codes : codes[i] \in WeightedCode
  BY <1>1, LenProperties, ElementOfSeq
<1>3. \A i \in DOMAIN codes : TupleOf(codes[i]) \in Tuple
  BY <1>2, TranslateIsName DEF TupleOf, Tuple, WeightedCode
<1>4. CASE names = <<>>
  <2>1. Len(names) = 0
    BY <1>4
  <2>2. Shorter(Len(names), Len(codes)) = 0
    BY <1>2, <2>1 DEF Shorter
  <2>3. 1 .. 0 = {}
    OBVIOUS
  <2>4. Tuples(names, codes) = [i \in 1 .. 0 |-> TupleOf(codes[i])]
    BY <2>2, <2>3 DEF Tuples, Paired
  <2> QED
    BY <2>1, <2>3, <2>4
<1>5. CASE names = NamesIn(match, codes)
  <2>1. Len(names) = Len(codes)
    BY <1>2, <1>5 DEF NamesIn
  <2>2. Shorter(Len(names), Len(codes)) = Len(codes)
    BY <1>2, <2>1 DEF Shorter
  <2>3. \A i \in 1 .. Len(codes) :
            [code |-> codes[i].value, name |-> names[i].value,
             weight |-> names[i].weight] = TupleOf(codes[i])
    BY <1>2, <1>5 DEF NamesIn, TupleOf
  <2>4. Tuples(names, codes) = [i \in 1 .. Len(codes) |-> TupleOf(codes[i])]
    BY <2>2, <2>3 DEF Tuples, Paired
  <2> QED
    BY <1>2, <1>3, <2>1, <2>4
<1> QED
  BY <1>4, <1>5 DEF Given

\* The place of a name in the order of the comparator of this request.
RankOf(name) == Rank[CultureOf(match)][name]

\* The comparator has a place for every name, also when the match that was
\* resolved has no locale.
LEMMA RankOfIsInt ==
    ASSUME match \in Languages \cup {None}, NEW name \in Names
    PROVE  RankOf(name) \in Int
BY RankAssumption, LanguagesAssumption DEF RankOf, CultureOf

\* Heavier, or as heavy with a name that does not come later.
Ahead(a, b) ==
    \/ a.weight > b.weight
    \/ a.weight = b.weight /\ RankOf(a.name) <= RankOf(b.name)

\* Where the tuple at each place comes from, and that none is behind another
\* that is less probable.
Weighted(p, sorted, codes, m) ==
    /\ p \in [1 .. m -> 1 .. m]
    /\ sorted = [k \in 1 .. m |-> TupleOf(codes[p[k]])]
    /\ \A k, l \in 1 .. m : k < l => Ahead(sorted[k], sorted[l])
    /\ \A k, l \in 1 .. m : p[k] = p[l] => k = l
    /\ \A i \in 1 .. m : \E k \in 1 .. m : p[k] = i

\* The sort of the pairs: heavier first, then by the rank of the name.
LEMMA TuplesSorted ==
    ASSUME NEW names, NEW codes, Given(names, codes)
    PROVE  \E p : Weighted(p, BuildWeightedTuples(names, codes),
                           codes, Len(names))
<1> DEFINE m == Len(names)
           tuples == Tuples(names, codes)
           w == [i \in 1 .. m |-> tuples[i].weight]
           r == [i \in 1 .. m |-> RankOf(tuples[i].name)]
           before == {q \in (DOMAIN tuples) \X (DOMAIN tuples) :
                \/ tuples[q[1]].weight > tuples[q[2]].weight
                \/ /\ tuples[q[1]].weight = tuples[q[2]].weight
                   /\ Precedes(CultureOf(match), tuples[q[1]].name,
                               tuples[q[2]].name)}
<1>1. /\ m \in Nat
      /\ tuples = [i \in 1 .. m |-> TupleOf(codes[i])]
      /\ \A i \in 1 .. m : tuples[i] \in Tuple
  BY TuplesPair
<1>2. BuildWeightedTuples(names, codes) = StableSort(tuples, before)
  BY DEF BuildWeightedTuples
<1> HIDE DEF tuples
<1>3. DOMAIN tuples = 1 .. m
  BY <1>1
<1>4. \A i \in 1 .. m : tuples[i].weight \in Nat /\ tuples[i].name \in Names
  BY <1>1 DEF Tuple
<1>5. match \in Languages \cup {None}
  BY DEF Given
<1>6. /\ w \in [1 .. m -> Int]
      /\ r \in [1 .. m -> Int]
  BY <1>4, <1>5, RankOfIsInt
<1>7. \A i, j \in 1 .. m : <<i, j>> \in before <=>
            w[i] > w[j] \/ (w[i] = w[j] /\ r[i] < r[j])
  BY <1>3 DEF Precedes, RankOf
<1>8. /\ \A i \in 1 .. m : w[i] = tuples[i].weight
      /\ \A i \in 1 .. m : r[i] = RankOf(tuples[i].name)
  OBVIOUS
<1> HIDE DEF m, w, r, before
<1>9. WeakOrder(1 .. m, before)
  BY <1>1, <1>6, <1>7, ByWeightAndRank
<1>10. PICK p : SortedBy(p, StableSort(tuples, before), tuples, m, before)
  BY <1>1, <1>3, <1>9, StableSortSorts
<1> DEFINE sorted == StableSort(tuples, before)
<1>11. /\ p \in [1 .. m -> 1 .. m]
       /\ sorted = [k \in 1 .. m |-> tuples[p[k]]]
       /\ \A k, l \in 1 .. m : k < l => <<p[l], p[k]>> \notin before
       /\ \A k, l \in 1 .. m : p[k] = p[l] => k = l
       /\ \A i \in 1 .. m : \E k \in 1 .. m : p[k] = i
  BY <1>10 DEF SortedBy
<1> HIDE DEF sorted
<1>12. \A k \in 1 .. m : p[k] \in 1 .. m /\ sorted[k] = tuples[p[k]]
  BY <1>11
<1>13. sorted = [k \in 1 .. m |-> TupleOf(codes[p[k]])]
  BY <1>1, <1>11, <1>12
<1>14. ASSUME NEW k \in 1 .. m, NEW l \in 1 .. m, k < l
       PROVE  Ahead(sorted[k], sorted[l])
  <2>0. <<p[l], p[k]>> \notin before /\ p[k] \in 1 .. m /\ p[l] \in 1 .. m
    BY <1>11, <1>12, <1>14
  <2>1. ~ (w[p[l]] > w[p[k]] \/ (w[p[l]] = w[p[k]] /\ r[p[l]] < r[p[k]]))
    BY <1>7, <2>0
  <2>2. /\ w[p[k]] \in Int /\ w[p[l]] \in Int
        /\ r[p[k]] \in Int /\ r[p[l]] \in Int
    BY <1>6, <1>12
  <2>3. \/ w[p[k]] > w[p[l]]
        \/ w[p[k]] = w[p[l]] /\ r[p[k]] <= r[p[l]]
    BY <2>1, <2>2
  <2>4. /\ w[p[k]] = sorted[k].weight /\ w[p[l]] = sorted[l].weight
        /\ r[p[k]] = RankOf(sorted[k].name)
        /\ r[p[l]] = RankOf(sorted[l].name)
    BY <1>8, <1>12
  <2> QED
    BY <2>3, <2>4 DEF Ahead
<1>15. BuildWeightedTuples(names, codes) = sorted
  BY <1>2 DEF sorted
<1>16. Weighted(p, sorted, codes, m)
  BY <1>11, <1>13, <1>14 DEF Weighted
<1> QED
  BY <1>15, <1>16 DEF m

\* The weighted part of a list: the known countries of the codes, each once,
\* and each at the place its weight and name give it.
WeightedPart(part, c, codes, m) ==
    /\ c \in Nat
    /\ part \in [1 .. c -> Tuple]
    /\ \A k \in 1 .. c : /\ part[k].code \in validCodes
                         /\ \E i \in 1 .. m : part[k] = TupleOf(codes[i])
    /\ \A k, l \in 1 .. c : k < l => Ahead(part[k], part[l])
    /\ \A k, l \in 1 .. c : part[k].code = part[l].code => k = l
    /\ \A i \in 1 .. m : codes[i].value \in validCodes =>
            \E k \in 1 .. c : part[k] = TupleOf(codes[i])

LEMMA ValidIsWeightedPart ==
    ASSUME NEW names, NEW codes, Given(names, codes)
    PROVE  \E c : WeightedPart(Valid(BuildWeightedTuples(names, codes)), c,
                               codes, Len(names))
<1> DEFINE m == Len(names)
           W == BuildWeightedTuples(names, codes)
           S == {i \in DOMAIN W : W[i].code \in validCodes}
           c == Cardinality(S)
           V == Selected(W, S)
<1>1. /\ m \in Nat
      /\ 1 .. m \subseteq DOMAIN codes
      /\ \A i \in 1 .. m : TupleOf(codes[i]) \in Tuple
  BY TuplesPair
<1>2. PICK p : Weighted(p, W, codes, m)
  BY TuplesSorted
<1>3. Valid(W) = V
  BY DEF Valid
<1> HIDE DEF W
<1>4. /\ DOMAIN W = 1 .. m
      /\ \A k \in 1 .. m : p[k] \in 1 .. m /\ W[k] = TupleOf(codes[p[k]])
  BY <1>2 DEF Weighted
<1>5. S \in SUBSET (1 .. m)
  BY <1>4
<1>6. \A i : i \in S <=> i \in 1 .. m /\ W[i].code \in validCodes
  BY <1>4
<1> HIDE DEF m, S
<1>7. PICK q : TakenBy(q, V, W, S, {x \in S \X S : x[1] < x[2]})
  BY <1>1, <1>5, SelectedKeepsOrder
<1> HIDE DEF V
<1>8. /\ c \in Nat
      /\ q \in [1 .. c -> S]
      /\ V = [k \in 1 .. c |-> W[q[k]]]
      /\ \A k, l \in 1 .. c : k < l => q[k] < q[l]
      /\ \A k, l \in 1 .. c : q[k] = q[l] => k = l
      /\ \A i \in S : \E k \in 1 .. c : q[k] = i
  BY <1>7 DEF TakenBy
<1> HIDE DEF c
<1>9. ASSUME NEW k \in 1 .. c
      PROVE  /\ q[k] \in 1 .. m
             /\ p[q[k]] \in 1 .. m
             /\ V[k] = W[q[k]]
             /\ V[k] = TupleOf(codes[p[q[k]]])
             /\ V[k] \in Tuple
             /\ V[k].code \in validCodes
             /\ V[k].code = codes[p[q[k]]].value
  <2>1. q[k] \in 1 .. m /\ W[q[k]].code \in validCodes
    BY <1>6, <1>8
  <2>2. V[k] = W[q[k]]
    BY <1>8
  <2>3. p[q[k]] \in 1 .. m /\ W[q[k]] = TupleOf(codes[p[q[k]]])
    BY <1>4, <2>1
  <2> QED
    BY <1>1, <2>1, <2>2, <2>3 DEF TupleOf
<1>10. V \in [1 .. c -> Tuple]
  BY <1>8, <1>9
<1>11. ASSUME NEW k \in 1 .. c, NEW l \in 1 .. c, k < l
       PROVE  Ahead(V[k], V[l])
  <2>1. q[k] < q[l]
    BY <1>8, <1>11
  <2>2. Ahead(W[q[k]], W[q[l]])
    BY <1>2, <1>9, <2>1 DEF Weighted
  <2> QED
    BY <1>9, <2>2
<1>12. ASSUME NEW k \in 1 .. c, NEW l \in 1 .. c, V[k].code = V[l].code
       PROVE  k = l
  <2>1. codes[p[q[k]]].value = codes[p[q[l]]].value
    BY <1>9, <1>12
  <2>2. p[q[k]] = p[q[l]]
    BY <1>1, <1>9, <2>1 DEF Given, CodeList
  <2>3. q[k] = q[l]
    BY <1>2, <1>9, <2>2 DEF Weighted
  <2> QED
    BY <1>8, <2>3
<1>13. ASSUME NEW i \in 1 .. m, codes[i].value \in validCodes
       PROVE  \E k \in 1 .. c : V[k] = TupleOf(codes[i])
  <2>1. PICK j \in 1 .. m : p[j] = i
    BY <1>2 DEF Weighted
  <2>2. W[j] = TupleOf(codes[i])
    BY <1>4, <2>1
  <2>3. j \in S
    BY <1>6, <1>13, <2>2 DEF TupleOf
  <2>4. PICK k \in 1 .. c : q[k] = j
    BY <1>8, <2>3
  <2> QED
    BY <1>8, <2>2, <2>4
<1>14. WeightedPart(V, c, codes, m)
  BY <1>8, <1>9, <1>10, <1>11, <1>12, <1>13 DEF WeightedPart
<1> QED
  BY <1>3, <1>14 DEF m, W

\* The second half of BuildLists, by the codes that the first half used.
Others(used) ==
    Selected(Countries, {i \in DOMAIN Countries : Countries[i] \notin used})

Remaining(used) ==
    LET others == Others(used)
    IN  [i \in DOMAIN others |-> [code   |-> others[i],
                                  name   |-> Translate(match, others[i]),
                                  weight |-> 0]]

RemainingSorted(used) ==
    LET remaining == Remaining(used)
    IN  StableSort(remaining,
            {p \in (DOMAIN remaining) \X (DOMAIN remaining) :
                Precedes(CultureOf(match), remaining[p[1]].name,
                         remaining[p[2]].name)})

\* The known countries that were not used, each once, by the rank of the name.
RemainingPart(part, r, used) ==
    /\ r \in Nat
    /\ part \in [1 .. r -> Tuple]
    /\ \A k \in 1 .. r : /\ part[k].code \in validCodes \ used
                         /\ part[k].name = Translate(match, part[k].code)
    /\ \A k, l \in 1 .. r : k < l =>
            RankOf(part[k].name) <= RankOf(part[l].name)
    /\ \A k, l \in 1 .. r : part[k].code = part[l].code => k = l
    /\ \A code \in validCodes \ used : \E k \in 1 .. r : part[k].code = code

\* The known countries are listed once each.
LEMMA CountriesListed ==
    /\ Len(Countries) \in Nat
    /\ DOMAIN Countries = 1 .. Len(Countries)
    /\ \A i \in 1 .. Len(Countries) : Countries[i] \in validCodes
    /\ \A code \in validCodes : \E i \in 1 .. Len(Countries) : Countries[i] = code
    /\ \A i, j \in 1 .. Len(Countries) : Countries[i] = Countries[j] => i = j
<1>1. Countries \in Seq(validCodes)
  BY CountriesAssumption DEF validCodes
<1>2. /\ Len(Countries) \in Nat
      /\ DOMAIN Countries = 1 .. Len(Countries)
  BY <1>1, LenProperties
<1>3. \A code \in validCodes : \E i \in DOMAIN Countries : Countries[i] = code
  BY DEF validCodes, Range
<1>4. \A i \in DOMAIN Countries : Countries[i] \in validCodes
  BY DEF validCodes, Range
<1> QED
  BY <1>2, <1>3, <1>4, CountriesAssumption

\* Before they are sorted they are in the order of the file.
LEMMA OthersTaken ==
    ASSUME NEW used
    PROVE  \E r \in Nat :
        /\ Others(used) \in [1 .. r -> validCodes \ used]
        /\ \A k, l \in 1 .. r : Others(used)[k] = Others(used)[l] => k = l
        /\ \A code \in validCodes \ used :
                \E k \in 1 .. r : Others(used)[k] = code
<1> DEFINE n == Len(Countries)
           S == {i \in DOMAIN Countries : Countries[i] \notin used}
           r == Cardinality(S)
           V == Others(used)
<1>1. /\ n \in Nat
      /\ DOMAIN Countries = 1 .. n
      /\ \A i \in 1 .. n : Countries[i] \in validCodes
      /\ \A code \in validCodes : \E i \in 1 .. n : Countries[i] = code
      /\ \A i, j \in 1 .. n : Countries[i] = Countries[j] => i = j
  BY CountriesListed
<1>2. S \in SUBSET (1 .. n)
  BY <1>1
<1>3. \A i : i \in S <=> i \in 1 .. n /\ Countries[i] \notin used
  BY <1>1
<1>4. V = Selected(Countries, S)
  BY DEF Others
<1> HIDE DEF n, S, V
<1>5. PICK q : TakenBy(q, V, Countries, S, {x \in S \X S : x[1] < x[2]})
  BY <1>1, <1>2, <1>4, SelectedKeepsOrder
<1>6. /\ r \in Nat
      /\ q \in [1 .. r -> S]
      /\ V = [k \in 1 .. r |-> Countries[q[k]]]
      /\ \A k, l \in 1 .. r : q[k] = q[l] => k = l
      /\ \A i \in S : \E k \in 1 .. r : q[k] = i
  BY <1>5 DEF TakenBy
<1> HIDE DEF r
<1>7. \A k \in 1 .. r : /\ q[k] \in 1 .. n
                        /\ V[k] = Countries[q[k]]
                        /\ V[k] \in validCodes \ used
  BY <1>1, <1>3, <1>6
<1>8. V \in [1 .. r -> validCodes \ used]
  BY <1>6, <1>7
<1>9. \A k, l \in 1 .. r : V[k] = V[l] => k = l
  BY <1>1, <1>6, <1>7
<1>10. ASSUME NEW code \in validCodes \ used
       PROVE  \E k \in 1 .. r : V[k] = code
  <2>1. PICK i \in 1 .. n : Countries[i] = code
    BY <1>1
  <2>2. i \in S
    BY <1>3, <2>1
  <2>3. PICK k \in 1 .. r : q[k] = i
    BY <1>6, <2>2
  <2> QED
    BY <1>7, <2>1, <2>3
<1> QED
  BY <1>6, <1>8, <1>9, <1>10 DEF V

LEMMA RemainingIsSorted ==
    ASSUME match \in Languages \cup {None}, NEW used
    PROVE  \E r : RemainingPart(RemainingSorted(used), r, used)
<1> DEFINE V == Others(used)
           T == Remaining(used)
           R == RemainingSorted(used)
           before == {p \in (DOMAIN T) \X (DOMAIN T) :
                        Precedes(CultureOf(match), T[p[1]].name, T[p[2]].name)}
<1>1. PICK r \in Nat :
        /\ V \in [1 .. r -> validCodes \ used]
        /\ \A k, l \in 1 .. r : V[k] = V[l] => k = l
        /\ \A code \in validCodes \ used : \E k \in 1 .. r : V[k] = code
  BY OthersTaken
<1>2. T = [i \in DOMAIN V |-> [code |-> V[i], name |-> Translate(match, V[i]),
                               weight |-> 0]]
  BY DEF Remaining
<1>3. R = StableSort(T, before)
  BY DEF RemainingSorted
<1> HIDE DEF V, T, R
<1>4. /\ DOMAIN T = 1 .. r
      /\ \A i \in 1 .. r : /\ T[i].code = V[i]
                           /\ T[i].name = Translate(match, V[i])
                           /\ T[i] \in Tuple
                           /\ T[i].name \in Names
  BY <1>1, <1>2, TranslateIsName DEF Tuple
<1> DEFINE w == [i \in 1 .. r |-> 0]
           k == [i \in 1 .. r |-> RankOf(T[i].name)]
<1>5. /\ w \in [1 .. r -> Int]
      /\ k \in [1 .. r -> Int]
  BY <1>4, RankOfIsInt
<1>6. \A i, j \in 1 .. r : <<i, j>> \in before <=>
            w[i] > w[j] \/ (w[i] = w[j] /\ k[i] < k[j])
  BY <1>4 DEF Precedes, RankOf
<1>7. \A i \in 1 .. r : k[i] = RankOf(T[i].name)
  OBVIOUS
<1>8. \A i, j \in 1 .. r : <<i, j>> \notin before => k[j] <= k[i]
  <2> SUFFICES ASSUME NEW i \in 1 .. r, NEW j \in 1 .. r, <<i, j>> \notin before
               PROVE  k[j] <= k[i]
    OBVIOUS
  <2>1. ~ (k[i] < k[j])
    BY <1>6
  <2>2. k[i] \in Int /\ k[j] \in Int
    BY <1>5
  <2> QED
    BY <2>1, <2>2
<1> HIDE DEF w, k, before
<1>9. WeakOrder(1 .. r, before)
  BY <1>5, <1>6, ByWeightAndRank
<1>10. PICK p : SortedBy(p, R, T, r, before)
  BY <1>3, <1>4, <1>9, StableSortSorts
<1>11. /\ p \in [1 .. r -> 1 .. r]
       /\ R = [i \in 1 .. r |-> T[p[i]]]
       /\ \A i, j \in 1 .. r : i < j => <<p[j], p[i]>> \notin before
       /\ \A i, j \in 1 .. r : p[i] = p[j] => i = j
       /\ \A i \in 1 .. r : \E j \in 1 .. r : p[j] = i
  BY <1>10 DEF SortedBy
<1>12. \A i \in 1 .. r : /\ p[i] \in 1 .. r
                         /\ R[i] = T[p[i]]
                         /\ R[i] \in Tuple
                         /\ R[i].code = V[p[i]]
                         /\ R[i].name = Translate(match, R[i].code)
  BY <1>4, <1>11
<1>13. /\ R \in [1 .. r -> Tuple]
       /\ \A i \in 1 .. r : R[i].code \in validCodes \ used
  <2>1. \A i \in 1 .. r : V[i] \in validCodes \ used
    BY <1>1
  <2>2. \A i \in 1 .. r : R[i].code \in validCodes \ used
    BY <1>12, <2>1
  <2>3. R \in [1 .. r -> Tuple]
    BY <1>11, <1>12
  <2> QED
    BY <2>2, <2>3
<1>14. ASSUME NEW i \in 1 .. r, NEW j \in 1 .. r, i < j
       PROVE  RankOf(R[i].name) <= RankOf(R[j].name)
  <2>1. <<p[j], p[i]>> \notin before
    BY <1>11, <1>14
  <2>2. k[p[i]] <= k[p[j]]
    BY <1>8, <1>12, <2>1
  <2> QED
    BY <1>7, <1>12, <2>2
<1>15. ASSUME NEW i \in 1 .. r, NEW j \in 1 .. r, R[i].code = R[j].code
       PROVE  i = j
  <2>1. V[p[i]] = V[p[j]]
    BY <1>12, <1>15
  <2>2. p[i] = p[j]
    BY <1>1, <1>12, <2>1
  <2> QED
    BY <1>11, <2>2
<1>16. ASSUME NEW code \in validCodes \ used
       PROVE  \E i \in 1 .. r : R[i].code = code
  <2>1. PICK j \in 1 .. r : V[j] = code
    BY <1>1
  <2>2. PICK i \in 1 .. r : p[i] = j
    BY <1>11
  <2> QED
    BY <1>12, <2>1, <2>2
<1>17. RemainingPart(R, r, used)
  BY <1>12, <1>13, <1>14, <1>15, <1>16 DEF RemainingPart
<1> QED
  BY <1>17 DEF R

\* What m of the codes say of a country: its weight, or less than any.
Said(codes, m, code) ==
    WeightAmong({e \in {codes[i] : i \in 1 .. m} : e.value = code})

LEMMA SaidIsWeight ==
    ASSUME NEW names, NEW codes, Given(names, codes)
    PROVE  /\ \A i \in 1 .. Len(names) :
                /\ codes[i].weight \in Nat
                /\ Said(codes, Len(names), codes[i].value) = codes[i].weight
           /\ \A code :
                (\A i \in 1 .. Len(names) : codes[i].value # code) =>
                    Said(codes, Len(names), code) = -1
<1> DEFINE m == Len(names)
           entries(code) == {e \in {codes[i] : i \in 1 .. m} : e.value = code}
<1>1. /\ 1 .. m \subseteq DOMAIN codes
      /\ \A i \in 1 .. m : codes[i].weight \in Nat
  BY TuplesPair DEF WeightedCode
<1>2. ASSUME NEW i \in 1 .. m
      PROVE  entries(codes[i].value) = {codes[i]}
  BY <1>1 DEF Given, CodeList
<1>3. ASSUME NEW i \in 1 .. m
      PROVE  Said(codes, m, codes[i].value) = codes[i].weight
  BY <1>2 DEF Said, WeightAmong
<1>4. ASSUME NEW code, \A i \in 1 .. m : codes[i].value # code
      PROVE  Said(codes, m, code) = -1
  <2>1. entries(code) = {}
    BY <1>4
  <2> QED
    BY <2>1 DEF Said, WeightAmong
<1> QED
  BY <1>1, <1>3, <1>4

\* What one list promises: every known country once, its name in the language
\* resolved, and none behind one that is less probable.
Built(list, codes, m) ==
    /\ list \in Seq(Tuple)
    /\ Len(list) = Len(Countries)
    /\ \A i \in DOMAIN list : /\ list[i].code \in validCodes
                              /\ list[i].name = Translate(match, list[i].code)
    /\ \A code \in validCodes : \E i \in DOMAIN list : list[i].code = code
    /\ \A i, j \in DOMAIN list : i < j =>
        LET wi == Said(codes, m, list[i].code)
            wj == Said(codes, m, list[j].code)
        IN  \/ wi > wj
            \/ wi = wj /\ RankOf(list[i].name) <= RankOf(list[j].name)

\* A list of known countries, each once and none missing, is as long as they are.
LEMMA AsManyCountries ==
    ASSUME NEW n \in Nat, NEW f \in [1 .. n -> validCodes],
           \A i, j \in 1 .. n : f[i] = f[j] => i = j,
           \A code \in validCodes : \E i \in 1 .. n : f[i] = code
    PROVE  n = Len(Countries)
<1> DEFINE size == Len(Countries)
<1>1. /\ size \in Nat
      /\ DOMAIN Countries = 1 .. size
      /\ \A i \in 1 .. size : Countries[i] \in validCodes
      /\ \A code \in validCodes : \E i \in 1 .. size : Countries[i] = code
      /\ \A i, j \in 1 .. size : Countries[i] = Countries[j] => i = j
  BY CountriesListed
<1>2. Countries \in [1 .. size -> validCodes]
  <2>1. Countries \in Seq(validCodes)
    BY CountriesAssumption DEF validCodes
  <2> QED
    BY <2>1
<1> HIDE DEF size
<1>3. Countries \in Injection(1 .. size, validCodes)
  BY <1>1, <1>2, Fun_IsInj
<1>4. Countries \in Surjection(1 .. size, validCodes)
  BY <1>1, <1>2, Fun_IsSurj
<1>5. f \in Injection(1 .. n, validCodes)
  BY Fun_IsInj
<1>6. f \in Surjection(1 .. n, validCodes)
  BY Fun_IsSurj
<1>7. /\ IsFiniteSet(1 .. size) /\ Cardinality(1 .. size) = size
      /\ IsFiniteSet(1 .. n) /\ Cardinality(1 .. n) = n
  BY <1>1, FS_Interval
<1>8. Cardinality(validCodes) = size
  BY <1>3, <1>4, <1>7, FS_Surjection
<1>9. Cardinality(validCodes) = n
  BY <1>5, <1>6, <1>7, FS_Surjection
<1> QED
  BY <1>8, <1>9 DEF size

\* A function on the first naturals is a sequence of that length.
LEMMA FunctionIsSequence ==
    ASSUME NEW n \in Nat, NEW S, NEW f \in [1 .. n -> S]
    PROVE  f \in Seq(S) /\ Len(f) = n
<1>1. f \in Seq(S)
  BY SeqDef
<1> QED
  BY <1>1, LenProperties

LEMMA BuildListsBuilds ==
    ASSUME NEW names, NEW codes, Given(names, codes)
    PROVE  Built(BuildLists(names, codes), codes, Len(names))
<1> DEFINE m == Len(names)
           V == Valid(BuildWeightedTuples(names, codes))
           used == {V[i].code : i \in DOMAIN V}
           R == RemainingSorted(used)
           L == V \o R
<1>1. BuildLists(names, codes) = L
  BY DEF BuildLists, RemainingSorted, Remaining, Others
<1>2. match \in Languages \cup {None}
  BY DEF Given
<1>3. PICK c : WeightedPart(V, c, codes, m)
  BY ValidIsWeightedPart
<1>4. PICK r : RemainingPart(R, r, used)
  BY <1>2, RemainingIsSorted
<1>5. /\ \A i \in 1 .. m : /\ codes[i].weight \in Nat
                           /\ Said(codes, m, codes[i].value) = codes[i].weight
      /\ \A code : (\A i \in 1 .. m : codes[i].value # code) =>
                        Said(codes, m, code) = -1
  BY SaidIsWeight
<1> HIDE DEF m, V, R
<1>6. /\ c \in Nat
      /\ V \in [1 .. c -> Tuple]
      /\ \A k \in 1 .. c : /\ V[k].code \in validCodes
                           /\ \E i \in 1 .. m : V[k] = TupleOf(codes[i])
      /\ \A k, l \in 1 .. c : k < l => Ahead(V[k], V[l])
      /\ \A k, l \in 1 .. c : V[k].code = V[l].code => k = l
      /\ \A i \in 1 .. m : codes[i].value \in validCodes =>
                \E k \in 1 .. c : V[k] = TupleOf(codes[i])
  BY <1>3 DEF WeightedPart
<1>7. used = {V[k].code : k \in 1 .. c}
  BY <1>6
<1>8. /\ r \in Nat
      /\ R \in [1 .. r -> Tuple]
      /\ \A k \in 1 .. r : /\ R[k].code \in validCodes \ used
                           /\ R[k].name = Translate(match, R[k].code)
      /\ \A k, l \in 1 .. r : k < l =>
                RankOf(R[k].name) <= RankOf(R[l].name)
      /\ \A k, l \in 1 .. r : R[k].code = R[l].code => k = l
      /\ \A code \in validCodes \ used : \E k \in 1 .. r : R[k].code = code
  BY <1>4 DEF RemainingPart
<1> HIDE DEF used
<1>9. /\ V \in Seq(Tuple) /\ Len(V) = c
      /\ R \in Seq(Tuple) /\ Len(R) = r
  BY <1>6, <1>8, FunctionIsSequence
<1>10. /\ L \in Seq(Tuple)
       /\ Len(L) = c + r
       /\ \A i \in 1 .. c + r : L[i] = IF i <= c THEN V[i] ELSE R[i - c]
  BY <1>9, ConcatProperties
<1> HIDE DEF L
<1>11. DOMAIN L = 1 .. c + r
  BY <1>10, LenProperties
\* The two parts apart.
<1>12. ASSUME NEW i \in 1 .. c + r, i <= c
       PROVE  /\ i \in 1 .. c
              /\ L[i] = V[i]
              /\ L[i].code \in validCodes
              /\ L[i].code \in used
              /\ L[i].name = Translate(match, L[i].code)
              /\ L[i].weight \in Nat
              /\ Said(codes, m, L[i].code) = L[i].weight
  <2>1. i \in 1 .. c /\ L[i] = V[i]
    BY <1>6, <1>8, <1>10, <1>12
  <2>2. PICK j \in 1 .. m : V[i] = TupleOf(codes[j])
    BY <1>6, <2>1
  <2>3. V[i].code \in validCodes /\ V[i].code \in used
    BY <1>6, <1>7, <2>1
  <2> QED
    BY <1>5, <2>1, <2>2, <2>3 DEF TupleOf
<1>13. ASSUME NEW i \in 1 .. c + r, ~ (i <= c)
       PROVE  /\ i - c \in 1 .. r
              /\ L[i] = R[i - c]
              /\ L[i].code \in validCodes
              /\ L[i].code \notin used
              /\ L[i].name = Translate(match, L[i].code)
              /\ Said(codes, m, L[i].code) = -1
  <2>1. i - c \in 1 .. r /\ L[i] = R[i - c]
    BY <1>6, <1>8, <1>10, <1>13
  <2>2. /\ L[i].code \in validCodes /\ L[i].code \notin used
        /\ L[i].name = Translate(match, L[i].code)
    BY <1>8, <2>1
  <2>3. ASSUME NEW j \in 1 .. m, codes[j].value = L[i].code
        PROVE  FALSE
    <3>1. PICK k \in 1 .. c : V[k] = TupleOf(codes[j])
      BY <1>6, <2>2, <2>3
    <3>2. V[k].code = L[i].code
      BY <2>3, <3>1 DEF TupleOf
    <3> QED
      BY <1>7, <2>2, <3>2
  <2> QED
    BY <1>5, <2>1, <2>2, <2>3
<1>14. \A i \in 1 .. c + r : /\ L[i].code \in validCodes
                             /\ L[i].name = Translate(match, L[i].code)
  BY <1>12, <1>13
<1>15. ASSUME NEW code \in validCodes
       PROVE  \E i \in 1 .. c + r : L[i].code = code
  <2>1. CASE code \in used
    <3>1. PICK k \in 1 .. c : V[k].code = code
      BY <1>7, <2>1
    <3>2. k \in 1 .. c + r /\ L[k] = V[k]
      BY <1>6, <1>8, <1>10
    <3> QED
      BY <3>1, <3>2
  <2>2. CASE code \notin used
    <3>1. PICK k \in 1 .. r : R[k].code = code
      BY <1>8, <2>2
    <3>2. k + c \in 1 .. c + r /\ ~ (k + c <= c) /\ (k + c) - c = k
      BY <1>6, <1>8
    <3>3. L[k + c] = R[k]
      BY <1>10, <3>2
    <3> QED
      BY <3>1, <3>2, <3>3
  <2> QED
    BY <2>1, <2>2
<1>16. ASSUME NEW i \in 1 .. c + r, NEW j \in 1 .. c + r, L[i].code = L[j].code
       PROVE  i = j
  <2>1. CASE i <= c /\ j <= c
    BY <1>6, <1>12, <1>16, <2>1
  <2>2. CASE ~ (i <= c) /\ ~ (j <= c)
    <3>1. i - c = j - c
      BY <1>8, <1>13, <1>16, <2>2
    <3> QED
      BY <1>6, <1>8, <3>1
  <2>3. CASE (i <= c) # (j <= c)
    BY <1>12, <1>13, <1>16, <2>3
  <2> QED
    BY <2>1, <2>2, <2>3
<1>17. Len(L) = Len(Countries)
  <2> DEFINE f == [i \in 1 .. c + r |-> L[i].code]
  <2>1. f \in [1 .. c + r -> validCodes]
    BY <1>14
  <2>2. \A i, j \in 1 .. c + r : f[i] = f[j] => i = j
    BY <1>16
  <2>3. \A code \in validCodes : \E i \in 1 .. c + r : f[i] = code
    BY <1>15
  <2>4. c + r \in Nat
    BY <1>6, <1>8
  <2> HIDE DEF f
  <2> QED
    BY <1>10, <2>1, <2>2, <2>3, <2>4, AsManyCountries
<1>18. ASSUME NEW i \in 1 .. c + r, NEW j \in 1 .. c + r, i < j
       PROVE  LET wi == Said(codes, m, L[i].code)
                  wj == Said(codes, m, L[j].code)
              IN  \/ wi > wj
                  \/ wi = wj /\ RankOf(L[i].name) <= RankOf(L[j].name)
  <2>1. CASE i <= c /\ j <= c
    <3>1. Ahead(V[i], V[j])
      BY <1>6, <1>12, <1>18, <2>1
    <3> QED
      BY <1>12, <2>1, <3>1 DEF Ahead
  <2>2. CASE i <= c /\ ~ (j <= c)
    <3>1. Said(codes, m, L[i].code) \in Nat /\ Said(codes, m, L[j].code) = -1
      BY <1>12, <1>13, <2>2
    <3> QED
      BY <3>1
  <2>3. CASE ~ (i <= c) /\ ~ (j <= c)
    <3>1. i - c < j - c
      BY <1>6, <1>8, <1>18
    <3>2. RankOf(R[i - c].name) <= RankOf(R[j - c].name)
      BY <1>8, <1>13, <2>3, <3>1
    <3> QED
      BY <1>13, <2>3, <3>2
  <2>4. ~ (~ (i <= c) /\ j <= c)
    BY <1>6, <1>8, <1>18
  <2> QED
    BY <2>1, <2>2, <2>3, <2>4
<1>19. Built(L, codes, m)
  BY <1>10, <1>11, <1>14, <1>15, <1>17, <1>18 DEF Built
<1> QED
  BY <1>1, <1>19 DEF m

-----------------------------------------------------------------------------
(* The request.                                                            *)

LEMMA TwoDimensions == Range(Dimensions) = {"Geographical", "Population"}
<1>1. DOMAIN Dimensions = {1, 2}
  BY DEF Dimensions
<1> QED
  BY <1>1 DEF Dimensions, Range

\* Only a language with translations is resolved, whatever the evidence.
LEMMA ResolveIsLanguage == Resolve \in Languages \cup {None}
BY DEF Resolve, LanguagesMatch

\* The language is resolved once, from evidence that does not change.
ResolvedInv ==
    IF pc \in {"translate", "resolve"}
    THEN match = None /\ SortingCultureUsed = None
    ELSE match = Resolve /\ SortingCultureUsed = CultureOf(Resolve)

\* The base class translates into the language that is resolved after it: the
\* names of all the codes of a dimension, or none.
TranslatedInv ==
    \A d \in Range(Dimensions) :
        \/ translatedNames[d] = None
        \/ /\ pc # "translate"
           /\ ipCodes[d] # None
           /\ translatedNames[d] = NamesIn(Resolve, ipCodes[d])

ReadInv ==
    pc \in Range(Dimensions) \cup {"done"} =>
        /\ geoCodes = OrEmpty(ipCodes["Geographical"])
        /\ popCodes = OrEmpty(ipCodes["Population"])

\* Nothing is stored before the codes are read.
StoredInv ==
    /\ DOMAIN allCodes = Range(Dimensions)
    /\ DOMAIN allNames = Range(Dimensions)
    /\ pc \in {"translate", "resolve", "read"} =>
        \A d \in Range(Dimensions) : allCodes[d] = None /\ allNames[d] = None

IInv ==
    /\ TypeOK
    /\ ResolvedInv
    /\ TranslatedInv
    /\ ReadInv
    /\ StoredInv
    /\ EveryCountryOnce
    /\ NamesBelongToCodes
    /\ MostProbableFirst

LEMMA InitIInv == Init => IInv
<1> SUFFICES ASSUME Init PROVE IInv
  OBVIOUS
<1> USE TwoDimensions
<1>1. /\ pc = "translate"
      /\ match = None /\ SortingCultureUsed = None
      /\ evidence \in [Range(EVIDENCE_KEYS) -> EvidenceValues]
      /\ \A d \in Range(Dimensions) :
            /\ ipCodes[d] \in CodesOf[d] \cup {None}
            /\ translatedNames[d] = None
            /\ allCodes[d] = None /\ allNames[d] = None
      /\ DOMAIN allCodes = Range(Dimensions)
      /\ DOMAIN allNames = Range(Dimensions)
  BY DEF Init
<1>2. TypeOK
  BY <1>1 DEF TypeOK
<1>3. ResolvedInv /\ TranslatedInv /\ ReadInv /\ StoredInv
  BY <1>1 DEF ResolvedInv, TranslatedInv, ReadInv, StoredInv
<1>4. EveryCountryOnce /\ NamesBelongToCodes /\ MostProbableFirst
  BY <1>1 DEF EveryCountryOnce, NamesBelongToCodes, MostProbableFirst
<1> QED
  BY <1>2, <1>3, <1>4 DEF IInv

\* When a list is stored, its names and codes are such as a list is built from.
LEMMA StoredIsGiven ==
    ASSUME IInv, NEW d \in Range(Dimensions),
           pc \in Range(Dimensions) \cup {"done"}
    PROVE  Given(OrEmpty(translatedNames[d]), OrEmpty(ipCodes[d]))
<1>1. pc \notin {"translate", "resolve"}
  BY TwoDimensions
<1>2. match = Resolve /\ match \in Languages \cup {None}
  BY <1>1, ResolveIsLanguage DEF IInv, ResolvedInv
<1>3. <<>> \in Seq(WeightedCode)
  OBVIOUS
<1>4. CodeList(<<>>)
  <2>1. DOMAIN <<>> = {}
    OBVIOUS
  <2> QED
    BY <1>3, <2>1 DEF CodeList
<1>5. CodeList(OrEmpty(ipCodes[d]))
  <2>1. ipCodes[d] \in CodesOf[d] \cup {None}
    BY DEF IInv, TypeOK
  <2> QED
    BY <1>4, <2>1, CodesAssumption DEF OrEmpty, CodeList
<1>6. \/ OrEmpty(translatedNames[d]) = <<>>
      \/ OrEmpty(translatedNames[d]) = NamesIn(match, OrEmpty(ipCodes[d]))
  BY <1>2 DEF IInv, TranslatedInv, OrEmpty
<1> QED
  BY <1>2, <1>5, <1>6 DEF Given

\* The weights of a dimension are those of the codes it was built from.
LEMMA SaidIsWeightOf ==
    ASSUME IInv, NEW d \in Range(Dimensions),
           pc \in Range(Dimensions) \cup {"done"}, NEW code
    PROVE  Said(OrEmpty(ipCodes[d]), Len(OrEmpty(translatedNames[d])), code)
                = WeightOf(d, code)
<1> DEFINE codes == OrEmpty(ipCodes[d])
           m == Len(OrEmpty(translatedNames[d]))
<1>1. CASE translatedNames[d] = None
  <2>1. Len(<<>>) = 0 /\ 1 .. 0 = {}
    OBVIOUS
  <2>2. 1 .. m = {}
    BY <1>1, <2>1 DEF OrEmpty
  <2> QED
    BY <1>1, <2>2 DEF Said, WeightOf
<1>2. CASE translatedNames[d] # None
  <2>1. /\ ipCodes[d] # None
        /\ translatedNames[d] = NamesIn(Resolve, ipCodes[d])
        /\ codes = ipCodes[d]
    BY <1>2 DEF IInv, TranslatedInv, OrEmpty
  <2>2. codes \in Seq(WeightedCode)
    BY StoredIsGiven DEF Given, CodeList
  <2>3. Len(codes) \in Nat /\ DOMAIN codes = 1 .. Len(codes)
    BY <2>2, LenProperties
  <2>4. Len(NamesIn(Resolve, codes)) = Len(codes)
    BY <2>3 DEF NamesIn
  <2>5. m = Len(codes)
    BY <1>2, <2>1, <2>4 DEF OrEmpty
  <2>6. {codes[i] : i \in 1 .. m} = Range(ipCodes[d])
    BY <2>1, <2>3, <2>5 DEF Range
  <2> DEFINE entries == {e \in Range(ipCodes[d]) : e.value = code}
  <2>7. Said(codes, m, code) = WeightAmong(entries)
    BY <2>6 DEF Said
  <2>8. WeightOf(d, code) = WeightAmong(entries)
    BY <1>2, <2>1 DEF WeightOf
  <2> QED
    BY <2>7, <2>8
<1> QED
  BY <1>1, <1>2

\* What is stored for one dimension is a list such as BuildLists promises.
LEMMA StoreStep ==
    ASSUME IInv, NEW d \in Range(Dimensions), NEW codes, NEW next,
           BuildAndStore(d, codes, next), codes = OrEmpty(ipCodes[d]),
           next \in Range(Dimensions) \cup {"done"}
    PROVE  IInv'
<1> DEFINE names == OrEmpty(translatedNames[d])
           list == BuildLists(names, codes)
           m == Len(names)
           n == Len(Countries)
<1>1. /\ pc = d /\ pc' = next
      /\ UNCHANGED <<evidence, ipCodes, translatedNames, match,
                     SortingCultureUsed, geoCodes, popCodes>>
      /\ allCodes' = [allCodes EXCEPT ![d] =
                          [i \in DOMAIN list |-> list[i].code]]
      /\ allNames' = [allNames EXCEPT ![d] =
                          [i \in DOMAIN list |-> list[i].name]]
  BY DEF BuildAndStore
<1>2. Given(names, codes)
  BY <1>1, StoredIsGiven
<1>3. Built(list, codes, m)
  BY <1>2, BuildListsBuilds
<1>4. \A code : Said(codes, m, code) = WeightOf(d, code)
  BY <1>1, SaidIsWeightOf
<1>5. \A e \in Range(Dimensions) : \A code : WeightOf(e, code)' = WeightOf(e, code)
  BY <1>1 DEF WeightOf
<1>6. pc \notin {"translate", "resolve", "read"}
      /\ pc' \notin {"translate", "resolve", "read"}
  BY <1>1, TwoDimensions
<1>7. SortingCultureUsed = CultureOf(match)
  BY <1>6 DEF IInv, ResolvedInv
<1> HIDE DEF names, list, m
<1>8. /\ list \in Seq(Tuple)
      /\ Len(list) = n
      /\ \A i \in DOMAIN list :
            /\ list[i].code \in validCodes
            /\ list[i].name = Translate(match, list[i].code)
      /\ \A code \in validCodes : \E i \in DOMAIN list : list[i].code = code
      /\ \A i, j \in DOMAIN list : i < j =>
            LET wi == Said(codes, m, list[i].code)
                wj == Said(codes, m, list[j].code)
            IN  \/ wi > wj
                \/ /\ wi = wj
                   /\ RankOf(list[i].name) <= RankOf(list[j].name)
  BY <1>3 DEF Built
<1>9. n \in Nat /\ DOMAIN list = 1 .. n
  BY <1>8, LenProperties
<1>10. \A i \in 1 .. n : list[i].name \in Names
  BY <1>8, <1>9, TranslateIsName
<1>11. /\ DOMAIN allCodes' = Range(Dimensions)
       /\ DOMAIN allNames' = Range(Dimensions)
       /\ allCodes'[d] = [i \in 1 .. n |-> list[i].code]
       /\ allNames'[d] = [i \in 1 .. n |-> list[i].name]
       /\ \A e \in Range(Dimensions) : e # d =>
            allCodes'[e] = allCodes[e] /\ allNames'[e] = allNames[e]
  BY <1>1, <1>9 DEF IInv, StoredInv
<1> HIDE DEF n
<1>12. TypeOK'
  <2>1. /\ Range(allCodes'[d]) \subseteq validCodes \cup {Sentinel}
        /\ Range(allNames'[d]) \subseteq Names
    BY <1>8, <1>9, <1>10, <1>11 DEF Range
  <2>2. ASSUME NEW e \in Range(Dimensions)
        PROVE  /\ allCodes'[e] # None =>
                    Range(allCodes'[e]) \subseteq validCodes \cup {Sentinel}
               /\ allNames'[e] # None => Range(allNames'[e]) \subseteq Names
    BY <1>11, <2>1 DEF IInv, TypeOK
  <2> QED
    BY <1>1, <2>2 DEF IInv, TypeOK
<1>13. ResolvedInv'
  <2>1. Resolve' = Resolve
    BY <1>1 DEF Resolve
  <2> QED
    BY <1>1, <1>6, <2>1 DEF IInv, ResolvedInv
<1>14. TranslatedInv'
  <2>1. Resolve' = Resolve
    BY <1>1 DEF Resolve
  <2> QED
    BY <1>1, <1>6, <2>1 DEF IInv, TranslatedInv, NamesIn
<1>15. ReadInv'
  BY <1>1 DEF IInv, ReadInv
<1>16. StoredInv'
  BY <1>6, <1>11 DEF StoredInv
<1>17. EveryCountryOnce'
  <2>1. /\ Len(allCodes'[d]) = n
        /\ Range(allCodes'[d]) = validCodes
    <3>1. allCodes'[d] \in [1 .. n -> validCodes]
      BY <1>8, <1>9, <1>11
    <3>2. Len(allCodes'[d]) = n
      BY <1>9, <3>1, FunctionIsSequence
    <3>3. \A code \in validCodes : \E i \in 1 .. n : allCodes'[d][i] = code
      BY <1>8, <1>9, <1>11
    <3>4. Range(allCodes'[d]) = validCodes
      BY <3>1, <3>3 DEF Range
    <3> QED
      BY <3>2, <3>4
  <2> QED
    BY <1>11, <2>1 DEF IInv, EveryCountryOnce, n
<1>18. NamesBelongToCodes'
  <2>1. /\ DOMAIN allNames'[d] = DOMAIN allCodes'[d]
        /\ \A i \in DOMAIN allCodes'[d] :
            allNames'[d][i] = Translate(match, allCodes'[d][i])
    BY <1>8, <1>9, <1>11
  <2>2. SortingCultureUsed \in {match, None}
    BY <1>7 DEF CultureOf
  <2> QED
    BY <1>1, <1>11, <2>1, <2>2 DEF IInv, NamesBelongToCodes
<1>19. MostProbableFirst'
  <2>1. ASSUME NEW i \in DOMAIN allCodes'[d], NEW j \in DOMAIN allCodes'[d],
               i < j
        PROVE  LET wi == WeightOf(d, allCodes'[d][i])
                   wj == WeightOf(d, allCodes'[d][j])
               IN  \/ wi > wj
                   \/ /\ wi = wj
                      /\ Rank[SortingCultureUsed][allNames'[d][i]]
                            <= Rank[SortingCultureUsed][allNames'[d][j]]
    <3>1. i \in 1 .. n /\ j \in 1 .. n
      BY <1>11
    <3>2. /\ allCodes'[d][i] = list[i].code /\ allCodes'[d][j] = list[j].code
          /\ allNames'[d][i] = list[i].name /\ allNames'[d][j] = list[j].name
      BY <1>11, <3>1
    <3> QED
      BY <1>4, <1>7, <1>8, <1>9, <2>1, <3>1, <3>2 DEF RankOf
  <2> QED
    BY <1>1, <1>5, <1>11, <2>1 DEF IInv, MostProbableFirst
<1> QED
  BY <1>12, <1>13, <1>14, <1>15, <1>16, <1>17, <1>18, <1>19 DEF IInv

\* Before anything is stored the lists are missing and say nothing wrong.
LEMMA NothingStored ==
    ASSUME \A d \in Range(Dimensions) : allCodes[d] = None /\ allNames[d] = None
    PROVE  EveryCountryOnce /\ NamesBelongToCodes /\ MostProbableFirst
BY DEF EveryCountryOnce, NamesBelongToCodes, MostProbableFirst

LEMMA TranslateStep == IInv /\ TranslateWeighted => IInv'
<1> SUFFICES ASSUME IInv, TranslateWeighted PROVE IInv'
  OBVIOUS
<1>1. PICK lost \in SUBSET Range(Dimensions) :
        translatedNames' = [d \in Range(Dimensions) |->
            IF d \in lost \/ ipCodes[d] = None THEN None
            ELSE [i \in DOMAIN ipCodes[d] |->
                    [value  |-> Translate(Resolve, ipCodes[d][i].value),
                     weight |-> ipCodes[d][i].weight]]]
  BY DEF TranslateWeighted
<1>2. /\ pc = "translate" /\ pc' = "resolve"
      /\ UNCHANGED <<evidence, ipCodes, match, SortingCultureUsed, geoCodes,
                     popCodes, allCodes, allNames>>
  BY DEF TranslateWeighted
<1>3. \A d \in Range(Dimensions) :
        \/ translatedNames'[d] = None
        \/ /\ ipCodes[d] # None
           /\ translatedNames'[d] = NamesIn(Resolve, ipCodes[d])
  BY <1>1 DEF NamesIn
<1>4. Resolve' = Resolve
  BY <1>2 DEF Resolve
<1>5. ASSUME NEW d \in Range(Dimensions), translatedNames'[d] # None
      PROVE  \A i \in DOMAIN translatedNames'[d] :
                translatedNames'[d][i].value \in Names
  <2>1. /\ ipCodes[d] # None
        /\ translatedNames'[d] = NamesIn(Resolve, ipCodes[d])
    BY <1>3, <1>5
  <2>2. ipCodes[d] \in Seq(WeightedCode)
    BY <2>1, CodesAssumption DEF IInv, TypeOK
  <2>3. \A i \in DOMAIN ipCodes[d] :
            ipCodes[d][i].value \in validCodes \cup {Sentinel}
    <3>1. \A i \in DOMAIN ipCodes[d] : ipCodes[d][i] \in WeightedCode
      BY <2>2, ElementOfSeq, LenProperties
    <3> QED
      BY <3>1 DEF WeightedCode
  <2> QED
    BY <2>1, <2>3, TranslateIsName DEF NamesIn
<1>6. TypeOK'
  BY <1>2, <1>5 DEF IInv, TypeOK
<1>7. ResolvedInv' /\ ReadInv'
  BY <1>2, TwoDimensions DEF IInv, ResolvedInv, ReadInv
<1>8. TranslatedInv'
  BY <1>2, <1>3, <1>4 DEF TranslatedInv, NamesIn
<1>9. /\ StoredInv'
      /\ (\A d \in Range(Dimensions) : allCodes[d] = None /\ allNames[d] = None)'
  BY <1>2 DEF IInv, StoredInv
<1>10. (EveryCountryOnce /\ NamesBelongToCodes /\ MostProbableFirst)'
  BY <1>9, NothingStored, PTL
<1> QED
  BY <1>6, <1>7, <1>8, <1>9, <1>10 DEF IInv

LEMMA ResolveStep == IInv /\ ResolveMatch => IInv'
<1> SUFFICES ASSUME IInv, ResolveMatch PROVE IInv'
  OBVIOUS
<1>1. /\ pc = "resolve" /\ pc' = "read"
      /\ match' = Resolve /\ SortingCultureUsed' = CultureOf(Resolve)
      /\ UNCHANGED <<evidence, ipCodes, translatedNames, geoCodes, popCodes,
                     allCodes, allNames>>
  BY DEF ResolveMatch
<1>2. Resolve' = Resolve
  BY <1>1 DEF Resolve
<1>3. TypeOK'
  BY <1>1, ResolveIsLanguage DEF IInv, TypeOK, CultureOf
<1>4. ResolvedInv' /\ ReadInv'
  BY <1>1, <1>2, TwoDimensions DEF IInv, ResolvedInv, ReadInv
<1>5. TranslatedInv'
  BY <1>1, <1>2 DEF IInv, TranslatedInv, NamesIn
<1>6. /\ StoredInv'
      /\ (\A d \in Range(Dimensions) : allCodes[d] = None /\ allNames[d] = None)'
  BY <1>1 DEF IInv, StoredInv
<1>7. (EveryCountryOnce /\ NamesBelongToCodes /\ MostProbableFirst)'
  BY <1>6, NothingStored, PTL
<1> QED
  BY <1>3, <1>4, <1>5, <1>6, <1>7 DEF IInv

LEMMA ReadStep == IInv /\ ReadCodes => IInv'
<1> SUFFICES ASSUME IInv, ReadCodes PROVE IInv'
  OBVIOUS
<1>1. /\ pc = "read" /\ pc' = "Geographical"
      /\ geoCodes' = OrEmpty(ipCodes["Geographical"])
      /\ popCodes' = OrEmpty(ipCodes["Population"])
      /\ UNCHANGED <<evidence, ipCodes, translatedNames, match,
                     SortingCultureUsed, allCodes, allNames>>
  BY DEF ReadCodes
<1>2. Resolve' = Resolve
  BY <1>1 DEF Resolve
<1>3. TypeOK'
  BY <1>1, TwoDimensions DEF IInv, TypeOK
<1>4. ResolvedInv' /\ ReadInv'
  BY <1>1, <1>2 DEF IInv, ResolvedInv, ReadInv, OrEmpty
<1>5. TranslatedInv'
  BY <1>1, <1>2 DEF IInv, TranslatedInv, NamesIn
<1>6. /\ StoredInv'
      /\ (\A d \in Range(Dimensions) : allCodes[d] = None /\ allNames[d] = None)'
  BY <1>1 DEF IInv, StoredInv
<1>7. (EveryCountryOnce /\ NamesBelongToCodes /\ MostProbableFirst)'
  BY <1>6, NothingStored, PTL
<1> QED
  BY <1>3, <1>4, <1>5, <1>6, <1>7 DEF IInv

LEMMA StutterStep == IInv /\ UNCHANGED vars => IInv'
<1> SUFFICES ASSUME IInv, UNCHANGED vars PROVE IInv'
  OBVIOUS
<1>1. UNCHANGED <<evidence, ipCodes, translatedNames, match,
                  SortingCultureUsed, geoCodes, popCodes, allCodes, allNames, pc>>
  BY DEF vars
<1>2. Resolve' = Resolve
  BY <1>1 DEF Resolve
<1>3. TypeOK' /\ ReadInv' /\ StoredInv' /\ EveryCountryOnce' /\ NamesBelongToCodes'
  BY <1>1 DEF IInv, TypeOK, ReadInv, StoredInv, EveryCountryOnce,
              NamesBelongToCodes, OrEmpty
<1>4. ResolvedInv' /\ TranslatedInv'
  BY <1>1, <1>2 DEF IInv, ResolvedInv, TranslatedInv, NamesIn
<1>5. MostProbableFirst'
  BY <1>1 DEF IInv, MostProbableFirst, WeightOf
<1> QED
  BY <1>3, <1>4, <1>5 DEF IInv

LEMMA NextIInv == IInv /\ [Next]_vars => IInv'
<1> SUFFICES ASSUME IInv, [Next]_vars PROVE IInv'
  OBVIOUS
<1>1. CASE TranslateWeighted
  BY <1>1, TranslateStep
<1>2. CASE ResolveMatch
  BY <1>2, ResolveStep
<1>3. CASE ReadCodes
  BY <1>3, ReadStep
<1>4. CASE BuildAndStore("Geographical", geoCodes, "Population")
  <2>1. geoCodes = OrEmpty(ipCodes["Geographical"])
    BY <1>4, TwoDimensions DEF IInv, ReadInv, BuildAndStore
  <2> QED
    BY <1>4, <2>1, StoreStep, TwoDimensions
<1>5. CASE BuildAndStore("Population", popCodes, "done")
  <2>1. popCodes = OrEmpty(ipCodes["Population"])
    BY <1>5, TwoDimensions DEF IInv, ReadInv, BuildAndStore
  <2> QED
    BY <1>5, <2>1, StoreStep, TwoDimensions
<1>6. CASE UNCHANGED vars
  BY <1>6, StutterStep
<1> QED
  BY <1>1, <1>2, <1>3, <1>4, <1>5, <1>6 DEF Next

\* The inductive invariant holds of every request.
THEOREM InductiveInvariant == Spec => []IInv
BY InitIInv, NextIInv, PTL DEF Spec

\* Every variable keeps its type, whatever the evidence and the codes.
THEOREM TypeInvariant == Spec => []TypeOK
BY InductiveInvariant, PTL DEF IInv

\* The lists of processInternal have every known country once and nothing else,
\* for any number of countries and any weighted codes of the IP engine.
THEOREM EveryCountryTheorem == Spec => []EveryCountryOnce
BY InductiveInvariant, PTL DEF IInv

\* Names and codes stay side by side through both sorts, the names are in the
\* language resolved, and no other culture than its own is reported.
THEOREM NamesTheorem == Spec => []NamesBelongToCodes
BY InductiveInvariant, PTL DEF IInv

\* Whatever the collators, and however many names they hold for the same, no
\* country is behind one that is less probable or later by name.
THEOREM OrderTheorem == Spec => []MostProbableFirst
BY InductiveInvariant, PTL DEF IInv

\* What is left of QueryTranslationWins: a language with translations that the
\* query asks for is the one of the names, whatever the browser accepts, and its
\* culture is the one reported, if its match has a locale.
QueryLanguageWins ==
    pc \notin {"translate", "resolve"} =>
        LET asked == evidence["query.translation"]
        IN  asked \in Languages =>
                /\ match = asked
                /\ SortingCultureUsed =
                      IF asked \in WithLocale THEN asked ELSE None

\* The first key of the evidence that names a language wins.  (resolveMatch)
THEOREM QueryLanguageTheorem == Spec => []QueryLanguageWins
<1>1. IInv => QueryLanguageWins
  <2> SUFFICES ASSUME IInv, pc \notin {"translate", "resolve"},
                      evidence["query.translation"] \in Languages
               PROVE  match = evidence["query.translation"]
    BY DEF IInv, ResolvedInv, CultureOf, QueryLanguageWins
  <2> DEFINE matching == {k \in DOMAIN EVIDENCE_KEYS :
                /\ evidence[EVIDENCE_KEYS[k]] # Blank
                /\ LanguagesMatch(evidence[EVIDENCE_KEYS[k]]) # None}
             first == CHOOSE k \in matching : \A other \in matching : k <= other
  <2>1. DOMAIN EVIDENCE_KEYS = 1 .. 3 /\ EVIDENCE_KEYS[1] = "query.translation"
    BY DEF EVIDENCE_KEYS
  <2>2. 1 \in matching /\ matching \subseteq 1 .. 3
    BY <2>1, LanguagesAssumption DEF LanguagesMatch
  <2>3. Resolve = LanguagesMatch(evidence[EVIDENCE_KEYS[first]])
    BY <2>2 DEF Resolve
  <2> HIDE DEF matching
  <2>4. first \in matching /\ \A other \in matching : first <= other
    <3>1. \A other \in matching : 1 <= other
      BY <2>2
    <3> QED
      BY <2>2, <3>1
  <2> HIDE DEF first
  <2>5. first = 1
    <3>1. first \in 1 .. 3 /\ first <= 1
      BY <2>2, <2>4
    <3> QED
      BY <3>1
  <2> QED
    BY <2>1, <2>3, <2>5 DEF IInv, ResolvedInv, LanguagesMatch
<1> QED
  BY <1>1, InductiveInvariant, PTL

=============================================================================
