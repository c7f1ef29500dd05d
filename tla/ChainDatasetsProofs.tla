------------------------ MODULE ChainDatasetsProofs ------------------------
(***************************************************************************)
(* How rows become the chunks of a catalog: lists of chunks, pages, planned  *)
(* ranges and trees; and that a step of publish_chain_entry on one of its    *)
(* datasets, public TXIDs, wallet-scan rows, commitments or Merkle           *)
(* checkpoints, keeps the chunks it has pushed and the pages it has yet to   *)
(* read in order.  For chains of any length, blocks of any shape, any limits *)
(* and any tree size.                                                        *)
(***************************************************************************)
EXTENDS ChainCatalogs, FiniteSetTheorems, WellFoundedInduction, TLAPS

\* A set of naturals has a least element.
LEMMA LeastNumber ==
    ASSUME NEW S \in SUBSET Nat, S # {}
    PROVE  \E x \in S : \A y \in S : x <= y
<1>1. \E x \in S : \A y \in S : ~(<<y, x>> \in OpToRel(<, Nat))
  BY Zenon, NatLessThanWellFounded, WFMin
<1>2. \E x \in S : \A y \in S : ~(y < x)
  BY Zenon, <1>1 DEF OpToRel
<1> QED
  BY <1>2

\* The image of a finite set is finite.
LEMMA ImageIsFinite ==
    ASSUME NEW S, IsFiniteSet(S), NEW f
    PROVE  IsFiniteSet({f[x] : x \in S})
<1> DEFINE T == {f[x] : x \in S}
           g == [x \in S |-> f[x]]
<1>1. g \in [S -> T] /\ \A t \in T : \E x \in S : g[x] = t
  BY Zenon
<1>2. g \in Surjection(S, T)
  BY Zenon, <1>1 DEF Surjection
<1> HIDE DEF g, T
<1>3. IsFiniteSet(T)
  BY Zenon, <1>2, FS_Surjection
<1> QED
  BY Zenon, <1>3 DEF T

-----------------------------------------------------------------------------
(* Extreme elements and ranks. *)

\* A finite set has an element with none above it in a strict order.
LEMMA MaximalElement ==
    ASSUME NEW S, IsFiniteSet(S), S # {}, NEW R,
           \A x, y, z \in S : <<x, y>> \in R /\ <<y, z>> \in R => <<x, z>> \in R,
           \A x \in S : <<x, x>> \notin R
    PROVE  \E x \in S : \A y \in S : <<x, y>> \notin R
<1> DEFINE below == [x \in S |-> {y \in S : <<y, x>> \in R}]
           left == [x \in S |-> Cardinality(S) - Cardinality(below[x])]
<1>1. ASSUME NEW x \in S
      PROVE  IsFiniteSet(below[x]) /\ Cardinality(below[x]) <= Cardinality(S)
  <2>1. below[x] \in SUBSET S
    BY Zenon
  <2> HIDE DEF below
  <2> QED
    BY Zenon, <2>1, FS_Subset
<1>2. \A x \in S : Cardinality(below[x]) \in Nat
  BY Zenon, <1>1, FS_CardinalityType
<1>3. Cardinality(S) \in Nat
  BY Zenon, FS_CardinalityType
<1>4. \A x \in S : left[x] = Cardinality(S) - Cardinality(below[x])
  BY Zenon
<1>5. \A x, y \in S : y \in below[x] <=> <<y, x>> \in R
  BY Zenon
<1>6. \A x \in S : below[x] \subseteq S
  BY Zenon
<1> HIDE DEF below, left
<1>7. ASSUME NEW x \in S PROVE left[x] \in Nat
  <2>1. Cardinality(below[x]) <= Cardinality(S) /\ Cardinality(below[x]) \in Nat
    BY Zenon, <1>1, <1>2
  <2> QED
    BY <1>3, <1>4, <2>1
<1> DEFINE N == {left[x] : x \in S}
<1>8. N \in SUBSET Nat /\ N # {}
  BY <1>7, SMT
<1>9. PICK n \in N : \A m \in N : n <= m
  BY Zenon, <1>8, LeastNumber
<1>10. PICK x \in S : n = left[x]
  BY Zenon, <1>9
<1>11. ASSUME NEW y \in S, <<x, y>> \in R PROVE FALSE
  <2>1. below[x] \cup {x} \in SUBSET below[y] /\ x \notin below[x]
    BY Zenon, <1>5, <1>6, <1>11
  <2>2. Cardinality(below[x] \cup {x}) = Cardinality(below[x]) + 1
    BY Zenon, <1>1, <2>1, FS_AddElement
  <2>3. Cardinality(below[x] \cup {x}) <= Cardinality(below[y])
    BY Zenon, <1>1, <2>1, FS_Subset
  <2>4. left[x] <= left[y]
    <3>1. left[y] \in N
      BY SMT
    <3> QED
      BY Zenon, <1>9, <1>10, <3>1
  <2>5. Cardinality(below[x]) \in Nat /\ Cardinality(below[y]) \in Nat
    BY Zenon, <1>2
  <2>6. Cardinality(S) - Cardinality(below[x]) <= Cardinality(S) - Cardinality(below[y])
    BY Zenon, <1>4, <2>4
  <2> QED
    BY <1>3, <2>2, <2>3, <2>5, <2>6
<1> QED
  BY Zenon, <1>11

\* The largest of finitely many numbers.
LEMMA FiniteMax ==
    ASSUME NEW S \in SUBSET Nat, IsFiniteSet(S), S # {}
    PROVE  Max(S) \in S /\ \A y \in S : y <= Max(S)
<1> DEFINE R == {z \in Nat \X Nat : z[1] < z[2]}
<1>1. \A x, y \in S : <<x, y>> \in R <=> x < y
  OBVIOUS
<1> HIDE DEF R
<1>2. \A x, y, z \in S : x < y /\ y < z => x < z
  OBVIOUS
<1>3. \A x \in S : ~(x < x)
  OBVIOUS
<1>4. PICK x \in S : \A y \in S : <<x, y>> \notin R
  BY Zenon, <1>1, <1>2, <1>3, MaximalElement
<1>5. ASSUME NEW y \in S PROVE x >= y
  <2>1. ~(x < y)
    BY Zenon, <1>1, <1>4
  <2> QED
    BY <2>1
<1>6. Max(S) \in S /\ \A y \in S : Max(S) >= y
  BY Zenon, <1>5 DEF Max
<1> QED
  BY <1>6

\* The largest of some numbers with a bound.
LEMMA BoundedMax ==
    ASSUME NEW S \in SUBSET Nat, S # {}, NEW n \in Nat, \A s \in S : s <= n
    PROVE  Max(S) \in S /\ \A y \in S : y <= Max(S)
BY Zenon, FS_BoundedSetOfNaturals, FiniteMax

\* The smallest of some numbers.
LEMMA NatMin ==
    ASSUME NEW S \in SUBSET Nat, S # {}
    PROVE  Min(S) \in S /\ \A y \in S : Min(S) <= y
BY Zenon, LeastNumber DEF Min

\* The rank of a member of a finite, strictly ordered set.
Rank(S, R, r) == Cardinality({s \in S : <<s, r>> \in R})

StrictOrder(S, R) ==
    /\ \A x, y, z \in S : <<x, y>> \in R /\ <<y, z>> \in R => <<x, z>> \in R
    /\ \A x \in S : <<x, x>> \notin R
    /\ \A x, y \in S : x = y \/ <<x, y>> \in R \/ <<y, x>> \in R

\* Ranks are numbers.
LEMMA RankType ==
    ASSUME NEW S, IsFiniteSet(S), NEW R, NEW r
    PROVE  IsFiniteSet({s \in S : <<s, r>> \in R}) /\ Rank(S, R, r) \in Nat
<1> DEFINE T == {s \in S : <<s, r>> \in R}
<1>1. T \in SUBSET S
  BY Zenon
<1> HIDE DEF T
<1>2. IsFiniteSet(T) /\ Cardinality(T) \in Nat
  BY Zenon, <1>1, FS_Subset, FS_CardinalityType
<1> QED
  BY Zenon, <1>2 DEF T, Rank

\* No rank is left out.
LEMMA RanksAreDense ==
    ASSUME NEW S, IsFiniteSet(S), NEW R, StrictOrder(S, R), NEW r \in S, NEW j \in 0..Rank(S, R, r)
    PROVE  \E s \in S : Rank(S, R, s) = j
<1> DEFINE N == {Rank(S, R, s) : s \in {s \in S : Rank(S, R, s) >= j}}
<1>1. \A s \in S : Rank(S, R, s) \in Nat
  BY Zenon, RankType
<1>2. N \in SUBSET Nat /\ N # {} /\ j \in Nat
  <2>1. Rank(S, R, r) \in Nat
    BY Zenon, <1>1
  <2>2. Rank(S, R, r) >= j /\ j \in Nat
    BY <2>1
  <2> QED
    BY Zenon, <1>1, <2>2
<1>3. PICK n \in N : \A m \in N : n <= m
  BY Zenon, <1>2, LeastNumber
<1>4. PICK s \in S : n = Rank(S, R, s) /\ n >= j
  BY Zenon, <1>3
<1>5. n \in Nat
  BY Zenon, <1>2, <1>3
<1>6. CASE n = j
  BY Zenon, <1>4, <1>6
<1>7. CASE n # j
  <2> DEFINE P == {t \in S : <<t, s>> \in R}
  <2>1. IsFiniteSet(P) /\ Cardinality(P) = n
    BY Zenon, <1>4, RankType DEF Rank
  <2>2. n # 0
    BY <1>2, <1>4, <1>5, <1>7
  <2>3. P # {}
    BY Zenon, <2>1, <2>2, FS_EmptySet
  <2>4. \A x \in P : x \in S /\ <<x, s>> \in R
    BY Zenon
  <2>5. \A x, y, z \in P : <<x, y>> \in R /\ <<y, z>> \in R => <<x, z>> \in R
    BY Zenon, <2>4 DEF StrictOrder
  <2>6. \A x \in P : <<x, x>> \notin R
    BY Zenon, <2>4 DEF StrictOrder
  <2>7. PICK t \in P : \A y \in P : <<t, y>> \notin R
    <3> HIDE DEF P
    <3> QED
      BY Zenon, <2>1, <2>3, <2>5, <2>6, MaximalElement
  <2>8. {u \in S : <<u, t>> \in R} = P \ {t}
    BY Zenon, <2>7 DEF StrictOrder
  <2>9. Cardinality(P \ {t}) = n - 1
    <3> HIDE DEF P
    <3> QED
      BY Zenon, <2>1, <2>7, FS_RemoveElement
  <2>10. Rank(S, R, t) = n - 1
    BY Zenon, <2>8, <2>9 DEF Rank
  <2>11. n - 1 >= j /\ ~(n <= n - 1)
    BY <1>2, <1>4, <1>5, <1>7
  <2>12. t \in S
    BY Zenon, <2>4, <2>7
  <2>13. n - 1 \in N
    BY Zenon, <2>10, <2>11, <2>12
  <2> QED
    BY Zenon, <1>3, <2>11, <2>13
<1> QED
  BY Zenon, <1>6, <1>7

-----------------------------------------------------------------------------
(* Plans and lists of chunks, over rows W with their places f. *)

InRange(x, p) == x[1] <= p /\ p <= x[2]

Within(W, f, a, b) == {r \in W : a <= f[r] /\ f[r] <= b}

\* The chunks follow one another, have the rows of their ranges, and all rows below c.
Lists(list, W, f, c) ==
    /\ \A i \in 1..Len(list) :
          /\ list[i].start \in Nat /\ list[i].end \in Nat
          /\ list[i].start <= list[i].end /\ list[i].end < c
          /\ list[i].rows = {Ident(r) : r \in Within(W, f, list[i].start, list[i].end)}
    /\ \A i, j \in 1..Len(list) : i < j => list[i].end < list[j].start
    /\ \A r \in W : f[r] < c => \E i \in 1..Len(list) : list[i].start <= f[r] /\ f[r] <= list[i].end

ListsAll(list, W, f) == \E c \in Nat : Lists(list, W, f, c) /\ \A r \in W : f[r] < c

\* Ranges that follow one another, begin and end at rows, and hold all rows from low to top.
Ranges(S, W, f, low, top) ==
    /\ S \in SUBSET (Nat \X Nat)
    /\ \A x \in S : /\ low <= x[1] /\ x[1] <= x[2] /\ x[2] <= top
                    /\ \E r \in W : f[r] = x[1]
                    /\ \E r \in W : f[r] = x[2]
    /\ \A x, y \in S : x = y \/ x[2] < y[1] \/ y[2] < x[1]
    /\ \A r \in Within(W, f, low, top) : \E x \in S : InRange(x, f[r])

IsASeq(list) == \E T : list \in Seq(T)

\* The first of some ranges is one of them.
LEMMA ForemostIsFirst ==
    ASSUME NEW S \in SUBSET (Nat \X Nat), S # {}
    PROVE  Foremost(S) \in S /\ \A y \in S : Foremost(S)[1] <= y[1]
<1> DEFINE N == {x[1] : x \in S}
<1>1. N \in SUBSET Nat /\ N # {}
  BY SMT
<1>2. PICK n \in N : \A m \in N : n <= m
  BY Zenon, <1>1, LeastNumber
<1>3. PICK x \in S : n = x[1]
  BY SMT, <1>2
<1>4. ASSUME NEW y \in S PROVE x[1] <= y[1]
  <2>1. y[1] \in N
    BY SMT
  <2> QED
    BY Zenon, <1>2, <1>3, <2>1
<1> QED
  BY Zenon, <1>4 DEF Foremost

\* The rows of a page, as ranges.
LEMMA PageRanges ==
    ASSUME NEW W, NEW f \in [W -> Nat], NEW low \in Nat, NEW top \in Int
    PROVE  Ranges({<<f[r], f[r]>> : r \in Within(W, f, low, top)}, W, f, low, top)
<1> DEFINE T == Within(W, f, low, top)
           S == {<<f[r], f[r]>> : r \in T}
<1>1. ASSUME NEW r \in T PROVE r \in W /\ f[r] \in Nat /\ low <= f[r] /\ f[r] <= top
  BY Zenon DEF Within
<1> HIDE DEF T
<1>2. ASSUME NEW x \in S
      PROVE  /\ x \in Nat \X Nat /\ x[1] = x[2]
             /\ \E r \in T : f[r] = x[1]
  BY <1>1, SMT
<1>3. \A r \in T : <<f[r], f[r]>> \in S
  BY SMT
<1>4. ASSUME NEW x \in S
      PROVE  /\ low <= x[1] /\ x[1] <= x[2] /\ x[2] <= top
             /\ \E r \in W : f[r] = x[1]
             /\ \E r \in W : f[r] = x[2]
  <2>1. PICK r \in T : f[r] = x[1]
    BY Zenon, <1>2
  <2>2. x[1] \in Nat /\ low <= x[1] /\ x[1] <= top /\ x[1] = x[2]
    BY Zenon, <1>1, <1>2, <2>1
  <2>3. x[1] <= x[1]
    BY <2>2
  <2> QED
    BY Zenon, <1>1, <2>1, <2>2, <2>3
<1>5. ASSUME NEW x \in S, NEW y \in S PROVE x = y \/ x[2] < y[1] \/ y[2] < x[1]
  <2>1. x \in Nat \X Nat /\ y \in Nat \X Nat /\ x[1] = x[2] /\ y[1] = y[2]
    BY Zenon, <1>2
  <2> HIDE DEF S
  <2> QED
    BY <2>1
<1>6. ASSUME NEW r \in T PROVE \E x \in S : InRange(x, f[r])
  <2>1. f[r] \in Nat
    BY Zenon, <1>1
  <2>2. InRange(<<f[r], f[r]>>, f[r])
    BY <2>1 DEF InRange
  <2> QED
    BY Zenon, <1>3, <2>2
<1>7. S \in SUBSET (Nat \X Nat)
  BY Zenon, <1>2
<1> HIDE DEF S
<1>8. Ranges(S, W, f, low, top)
  BY Zenon, <1>4, <1>5, <1>6, <1>7 DEF Ranges, T
<1> QED
  BY Zenon, <1>8 DEF S, T

\* plan_chunks drops no row and plans none twice, wherever it cuts.
LEMMA PlanRanges ==
    ASSUME NEW W, NEW f \in [W -> Nat], NEW low \in Nat, NEW top \in Nat,
           NEW items, items # {}, Ranges(items, W, f, low, top), NEW p \in plan_chunks(items)
    PROVE  p # {} /\ Ranges(p, W, f, low, top)
<1> DEFINE Group(s, starts) ==
        {x \in items : s[1] <= x[1] /\ \A t \in starts : t[1] <= s[1] \/ x[1] < t[1]}
           Last(s, starts) == Max({x[2] : x \in Group(s, starts)})
<1>1. items \in SUBSET (Nat \X Nat)
  BY Zenon DEF Ranges
<1>2. PICK starts \in SUBSET items :
         /\ Foremost(items) \in starts
         /\ p = {<<s[1], Last(s, starts)>> : s \in starts}
  BY Zenon DEF plan_chunks
<1> DEFINE last == [s \in starts |-> Last(s, starts)]
           group == [s \in starts |-> Group(s, starts)]
<1>3. \A s \in starts : s \in items /\ s \in Nat \X Nat
  BY Zenon, <1>1
<1>4. p = {<<s[1], last[s]>> : s \in starts}
  BY Zenon, <1>2
<1>5. \A s \in starts : last[s] = Max({x[2] : x \in group[s]})
  BY Zenon
<1>6. \A s \in starts : \A x \in items :
         x \in group[s] <=> s[1] <= x[1] /\ \A t \in starts : t[1] <= s[1] \/ x[1] < t[1]
  BY Zenon
<1>7. \A s \in starts : group[s] \subseteq items
  BY Zenon
<1>8. \A s, t \in starts : s[1] = t[1] => last[s] = last[t]
  BY Zenon
<1>9. \A x \in items : low <= x[1] /\ x[1] <= x[2] /\ x[2] <= top /\ x[1] \in Nat /\ x[2] \in Nat
                       /\ (\E r \in W : f[r] = x[1]) /\ (\E r \in W : f[r] = x[2])
  <2>1. \A x \in items : x[1] \in Nat /\ x[2] \in Nat
    BY <1>1
  <2> QED
    BY Zenon, <2>1 DEF Ranges
<1> HIDE DEF last, group, Last, Group
<1>10. ASSUME NEW s \in starts
       PROVE  /\ \E x \in group[s] : last[s] = x[2]
              /\ \A x \in group[s] : x[2] <= last[s]
  <2> DEFINE N == {x[2] : x \in group[s]}
  <2>1. \A x \in group[s] : x[2] \in Nat /\ x[2] <= top
    BY Zenon, <1>7, <1>9
  <2>2. s \in group[s]
    <3>1. s[1] \in Nat /\ \A t \in starts : t[1] \in Nat
      BY Zenon, <1>3, <1>9
    <3>2. s[1] <= s[1] /\ \A t \in starts : t[1] <= s[1] \/ s[1] < t[1]
      BY <3>1
    <3> QED
      BY Zenon, <1>3, <1>6, <3>2
  <2>3. N \in SUBSET Nat /\ \A n \in N : n <= top
    BY <2>1, SMT
  <2>4. \A x \in group[s] : x[2] \in N
    BY SMT
  <2>5. N # {}
    BY Zenon, <2>2, <2>4
  <2>6. Max(N) \in N /\ \A y \in N : y <= Max(N)
    <3> HIDE DEF N
    <3> QED
      BY Zenon, <2>3, <2>5, BoundedMax
  <2>7. last[s] = Max(N)
    BY Zenon, <1>5
  <2> QED
    BY Zenon, <2>4, <2>6, <2>7
<1>11. ASSUME NEW s \in starts
       PROVE  /\ s[1] \in Nat /\ last[s] \in Nat
              /\ low <= s[1] /\ s[1] <= last[s] /\ last[s] <= top
              /\ \E r \in W : f[r] = s[1]
              /\ \E r \in W : f[r] = last[s]
  <2>1. PICK x \in group[s] : last[s] = x[2]
    BY Zenon, <1>10
  <2>2. x \in items /\ s[1] <= x[1]
    BY Zenon, <1>6, <1>7, <2>1
  <2>3. s[1] \in Nat /\ x[1] \in Nat /\ x[2] \in Nat /\ s[1] <= x[1] /\ x[1] <= x[2] /\ x[2] <= top /\ low <= s[1]
    BY Zenon, <1>3, <1>9, <2>2
  <2>4. s[1] <= x[2]
    BY <2>3
  <2> QED
    BY Zenon, <1>3, <1>9, <2>1, <2>2, <2>3, <2>4
<1>12. ASSUME NEW s \in starts, NEW t \in starts, s[1] < t[1] PROVE last[s] < t[1]
  <2>1. PICK x \in group[s] : last[s] = x[2]
    BY Zenon, <1>10
  <2>2. x \in items /\ t \in items /\ (t[1] <= s[1] \/ x[1] < t[1])
    BY Zenon, <1>3, <1>6, <1>7, <2>1
  <2>3. s[1] \in Nat /\ t[1] \in Nat /\ t[2] \in Nat /\ x[1] \in Nat /\ x[2] \in Nat /\ t[1] <= t[2]
    BY Zenon, <1>3, <1>9, <2>2
  <2>4. x = t \/ x[2] < t[1] \/ t[2] < x[1]
    BY Zenon, <2>2 DEF Ranges
  <2>5. x[1] < t[1]
    BY <1>12, <2>2, <2>3
  <2>6. x # t /\ ~(t[2] < x[1])
    BY <2>3, <2>5
  <2> QED
    BY Zenon, <2>1, <2>4, <2>6
<1>13. ASSUME NEW r \in Within(W, f, low, top)
       PROVE  \E s \in starts : s[1] <= f[r] /\ f[r] <= last[s]
  <2>1. PICK x \in items : InRange(x, f[r])
    BY Zenon DEF Ranges
  <2> DEFINE N == {s[1] : s \in {s \in starts : s[1] <= x[1]}}
  <2>2. \A s \in starts : s[1] \in Nat
    BY Zenon, <1>11
  <2>3. N \in SUBSET Nat /\ (\A n \in N : n <= x[1]) /\ x[1] \in Nat
    BY <1>9, <2>2
  <2>4. N # {}
    <3>1. Foremost(items)[1] <= x[1]
      BY Zenon, <1>1, ForemostIsFirst
    <3> QED
      BY <1>2, <3>1
  <2>5. Max(N) \in N /\ \A y \in N : y <= Max(N)
    <3> HIDE DEF N
    <3> QED
      BY Zenon, <2>3, <2>4, BoundedMax
  <2>6. PICK s \in starts : s[1] = Max(N) /\ s[1] <= x[1]
    BY <2>5
  <2>7. ASSUME NEW t \in starts PROVE t[1] <= s[1] \/ x[1] < t[1]
    <3>1. CASE t[1] <= x[1]
      <4>1. t[1] \in N
        BY <3>1
      <4> QED
        BY Zenon, <2>5, <2>6, <4>1
    <3>2. CASE ~(t[1] <= x[1])
      BY <2>2, <2>3, <3>2
    <3> QED
      BY Zenon, <3>1, <3>2
  <2>8. x \in group[s]
    BY Zenon, <1>6, <2>6, <2>7
  <2>9. x[2] <= last[s] /\ last[s] \in Nat /\ s[1] \in Nat
    BY Zenon, <1>10, <1>11, <2>8
  <2>10. f[r] \in Nat /\ x[1] <= f[r] /\ f[r] <= x[2] /\ x[2] \in Nat
    BY Zenon, <1>9, <2>1 DEF InRange, Within
  <2>11. s[1] <= f[r] /\ f[r] <= last[s]
    <3> HIDE DEF N
    <3> QED
      BY <2>3, <2>6, <2>9, <2>10
  <2> QED
    BY Zenon, <2>11
<1>14. \A s \in starts : <<s[1], last[s]>> \in p
  BY <1>4
<1>15. ASSUME NEW x \in p PROVE \E s \in starts : x = <<s[1], last[s]>>
  BY Zenon, <1>4
<1>16. ASSUME NEW x \in p
       PROVE  /\ x \in Nat \X Nat /\ low <= x[1] /\ x[1] <= x[2] /\ x[2] <= top
              /\ \E r \in W : f[r] = x[1]
              /\ \E r \in W : f[r] = x[2]
  <2>1. PICK s \in starts : x = <<s[1], last[s]>>
    BY Zenon, <1>15
  <2>2. x[1] = s[1] /\ x[2] = last[s] /\ x \in Nat \X Nat
    BY <1>11, <2>1
  <2> QED
    BY Zenon, <1>11, <2>2
<1>17. ASSUME NEW x \in p, NEW y \in p PROVE x = y \/ x[2] < y[1] \/ y[2] < x[1]
  <2>1. PICK s \in starts : x = <<s[1], last[s]>>
    BY Zenon, <1>15
  <2>2. PICK t \in starts : y = <<t[1], last[t]>>
    BY Zenon, <1>15
  <2>3. x[1] = s[1] /\ x[2] = last[s] /\ y[1] = t[1] /\ y[2] = last[t] /\ s[1] \in Nat /\ t[1] \in Nat
    BY <1>11, <2>1, <2>2
  <2>4. s[1] = t[1] \/ s[1] < t[1] \/ t[1] < s[1]
    BY <2>3
  <2>5. s[1] = t[1] => x = y
    BY Zenon, <1>8, <2>1, <2>2
  <2> QED
    BY Zenon, <1>12, <2>3, <2>4, <2>5
<1>18. ASSUME NEW r \in Within(W, f, low, top) PROVE \E x \in p : InRange(x, f[r])
  <2>1. PICK s \in starts : s[1] <= f[r] /\ f[r] <= last[s]
    BY Zenon, <1>13
  <2>2. InRange(<<s[1], last[s]>>, f[r])
    BY <2>1 DEF InRange
  <2> QED
    BY Zenon, <1>14, <2>2
<1>19. p \in SUBSET (Nat \X Nat)
  BY Zenon, <1>16
<1>20. p # {}
  BY Zenon, <1>2, <1>14
<1> QED
  BY Zenon, <1>16, <1>17, <1>18, <1>19, <1>20 DEF Ranges

\* An appended chunk is the last.
LEMMA Appended ==
    ASSUME NEW list, IsASeq(list), NEW x
    PROVE  /\ IsASeq(Append(list, x))
           /\ Len(list) \in Nat
           /\ Len(Append(list, x)) = Len(list) + 1
           /\ \A i \in 1..Len(list) : Append(list, x)[i] = list[i]
           /\ Append(list, x)[Len(list) + 1] = x
<1>1. PICK T : list \in Seq(T)
  BY Zenon DEF IsASeq
<1> DEFINE U == T \cup {x}
<1>2. list \in Seq(U) /\ x \in U
  BY <1>1
<1> HIDE DEF U
<1>3. Append(list, x) \in Seq(U)
  BY <1>2
<1>4. /\ Len(list) \in Nat
      /\ Len(Append(list, x)) = Len(list) + 1
      /\ \A i \in 1..Len(list) : Append(list, x)[i] = list[i]
      /\ Append(list, x)[Len(list) + 1] = x
  BY <1>2
<1> QED
  BY Zenon, <1>3, <1>4 DEF IsASeq

\* The chunk of the first range of a plan is appended: it follows the others, and the rest of the
\* plan follows it.
LEMMA ChunkAppended ==
    ASSUME NEW W, NEW f \in [W -> Nat], NEW low \in Nat, NEW top \in Nat,
           NEW S, S # {}, Ranges(S, W, f, low, top),
           NEW list, IsASeq(list), Lists(list, W, f, low),
           NEW x, x.start = Foremost(S)[1], x.end = Foremost(S)[2],
           x.rows = {Ident(r) : r \in Within(W, f, Foremost(S)[1], Foremost(S)[2])}
    PROVE  /\ Foremost(S)[2] + 1 \in Nat
           /\ Lists(Append(list, x), W, f, Foremost(S)[2] + 1)
           /\ Ranges(S \ {Foremost(S)}, W, f, Foremost(S)[2] + 1, top)
<1> DEFINE z == Foremost(S)
           a == z[1]
           b == z[2]
           new == Append(list, x)
           n == Len(list)
<1>1. S \in SUBSET (Nat \X Nat)
  BY Zenon DEF Ranges
<1>2. z \in S /\ \A y \in S : a <= y[1]
  BY Zenon, <1>1, ForemostIsFirst
<1> HIDE DEF z
<1>3. \A y \in S : y[1] \in Nat /\ y[2] \in Nat
  BY <1>1
<1>4. a \in Nat /\ b \in Nat /\ low <= a /\ a <= b /\ b <= top /\ b + 1 \in Nat
  <2>1. a \in Nat /\ b \in Nat
    BY Zenon, <1>2, <1>3
  <2>2. b + 1 \in Nat
    BY <2>1
  <2> QED
    BY Zenon, <1>2, <2>1, <2>2 DEF Ranges
<1>5. \A y \in S : y = z \/ b < y[1]
  <2> SUFFICES ASSUME NEW y \in S, y # z PROVE b < y[1]
    BY Zenon
  <2>1. b < y[1] \/ y[2] < a
    BY Zenon, <1>2 DEF Ranges
  <2>2. a <= y[1] /\ y[1] <= y[2] /\ y[1] \in Nat /\ y[2] \in Nat
    BY Zenon, <1>2, <1>3 DEF Ranges
  <2> QED
    BY <1>4, <2>1, <2>2
<1>6. /\ n \in Nat /\ Len(new) = n + 1 /\ new[n + 1] = x
      /\ \A i \in 1..n : new[i] = list[i]
  <2>1. /\ Len(list) \in Nat /\ Len(Append(list, x)) = Len(list) + 1 /\ Append(list, x)[Len(list) + 1] = x
        /\ \A i \in 1..Len(list) : Append(list, x)[i] = list[i]
    BY SMT, Appended
  <2> QED
    BY <2>1
<1>7. x.start = a /\ x.end = b /\ x.rows = {Ident(r) : r \in Within(W, f, a, b)}
  BY Zenon DEF z
<1>8. \A r \in W : f[r] \in Nat
  BY Zenon
<1> HIDE DEF a, b, new, n
<1>9. \A i \in 1..(n + 1) : i \in 1..n \/ i = n + 1
  BY <1>6
<1>10. ASSUME NEW i \in 1..(n + 1)
       PROVE  /\ new[i].start \in Nat /\ new[i].end \in Nat
              /\ new[i].start <= new[i].end /\ new[i].end < b + 1
              /\ new[i].rows = {Ident(r) : r \in Within(W, f, new[i].start, new[i].end)}
  <2>1. CASE i \in 1..n
    <3>1. /\ list[i].start \in Nat /\ list[i].end \in Nat
          /\ list[i].start <= list[i].end /\ list[i].end < low
          /\ list[i].rows = {Ident(r) : r \in Within(W, f, list[i].start, list[i].end)}
      BY Zenon, <2>1 DEF Lists, n
    <3>2. list[i].end < b + 1
      BY <1>4, <3>1
    <3> QED
      BY Zenon, <1>6, <2>1, <3>1, <3>2
  <2>2. CASE i = n + 1
    <3>1. a <= b /\ b < b + 1
      BY <1>4
    <3> QED
      BY Zenon, <1>4, <1>6, <1>7, <2>2, <3>1
  <2> QED
    BY Zenon, <1>9, <2>1, <2>2
<1>11. ASSUME NEW i \in 1..(n + 1), NEW j \in 1..(n + 1), i < j PROVE new[i].end < new[j].start
  <2>1. i \in 1..n
    BY <1>6, <1>11
  <2>2. new[i] = list[i] /\ list[i].end < low /\ list[i].end \in Nat
    BY Zenon, <1>6, <2>1 DEF Lists, n
  <2>3. CASE j \in 1..n
    BY Zenon, <1>6, <1>11, <2>1, <2>3 DEF Lists, n
  <2>4. CASE j = n + 1
    <3>1. list[i].end < a
      BY <1>4, <2>2
    <3> QED
      BY Zenon, <1>6, <1>7, <2>2, <2>4, <3>1
  <2> QED
    BY Zenon, <1>9, <2>3, <2>4
<1>12. ASSUME NEW r \in W, f[r] < b + 1
       PROVE  \E i \in 1..(n + 1) : new[i].start <= f[r] /\ f[r] <= new[i].end
  <2>1. CASE f[r] < low
    <3>1. PICK i \in 1..n : list[i].start <= f[r] /\ f[r] <= list[i].end
      BY Zenon, <2>1 DEF Lists, n
    <3>2. i \in 1..(n + 1)
      BY <1>6
    <3> QED
      BY Zenon, <1>6, <3>1, <3>2
  <2>2. CASE ~(f[r] < low)
    <3>1. f[r] \in Nat
      BY Zenon, <1>8
    <3>2. low <= f[r] /\ f[r] <= top /\ f[r] <= b
      BY <1>4, <1>12, <2>2, <3>1
    <3>3. r \in Within(W, f, low, top)
      BY Zenon, <3>2 DEF Within
    <3>4. PICK y \in S : y[1] <= f[r] /\ f[r] <= y[2]
      BY Zenon, <3>3 DEF Ranges, InRange
    <3>5. y = z
      <4>1. y[1] \in Nat
        BY Zenon, <1>3
      <4>2. ~(b < y[1])
        BY <1>4, <3>1, <3>2, <3>4, <4>1
      <4> QED
        BY Zenon, <1>5, <4>2
    <3>6. a <= f[r] /\ f[r] <= b
      BY Zenon, <3>2, <3>4, <3>5 DEF a
    <3>7. n + 1 \in 1..(n + 1)
      BY <1>6
    <3> QED
      BY Zenon, <1>6, <1>7, <3>6, <3>7
  <2> QED
    BY Zenon, <2>1, <2>2
<1>13. Lists(new, W, f, b + 1)
  BY Zenon, <1>6, <1>10, <1>11, <1>12 DEF Lists
<1> DEFINE rest == S \ {z}
<1>14. rest \in SUBSET (Nat \X Nat)
  BY Zenon, <1>1
<1>15. ASSUME NEW y \in rest
       PROVE  /\ b + 1 <= y[1] /\ y[1] <= y[2] /\ y[2] <= top
              /\ \E r \in W : f[r] = y[1]
              /\ \E r \in W : f[r] = y[2]
  <2>1. y \in S /\ b < y[1] /\ y[1] \in Nat
    BY Zenon, <1>3, <1>5
  <2>2. b + 1 <= y[1]
    BY <1>4, <2>1
  <2> QED
    BY Zenon, <2>1, <2>2 DEF Ranges
<1>16. \A y, t \in rest : y = t \/ y[2] < t[1] \/ t[2] < y[1]
  BY Zenon DEF Ranges
<1>17. ASSUME NEW r \in Within(W, f, b + 1, top) PROVE \E y \in rest : InRange(y, f[r])
  <2>1. r \in W /\ b + 1 <= f[r] /\ f[r] <= top /\ f[r] \in Nat
    BY Zenon, <1>8 DEF Within
  <2>2. low <= f[r] /\ ~(f[r] <= b)
    BY <1>4, <2>1
  <2>3. r \in Within(W, f, low, top)
    BY Zenon, <2>1, <2>2 DEF Within
  <2>4. PICK y \in S : InRange(y, f[r])
    BY Zenon, <2>3 DEF Ranges
  <2>5. y # z
    BY Zenon, <2>2, <2>4 DEF InRange, b
  <2> QED
    BY Zenon, <2>4, <2>5
<1> HIDE DEF rest
<1>18. Ranges(rest, W, f, b + 1, top)
  BY Zenon, <1>14, <1>15, <1>16, <1>17 DEF Ranges
<1> QED
  BY Zenon, <1>4, <1>13, <1>18 DEF rest, new, b, z

\* When the plan of a page is done, the rows of the page are listed.
LEMMA PageListed ==
    ASSUME NEW W, NEW f \in [W -> Nat], NEW low \in Nat, NEW top \in Nat, Ranges({}, W, f, low, top)
    PROVE  \A r \in W : f[r] <= top => f[r] < low
<1> SUFFICES ASSUME NEW r \in W, f[r] <= top, ~(f[r] < low) PROVE FALSE
  BY Zenon
<1>1. f[r] \in Nat
  BY Zenon
<1>2. low <= f[r]
  BY <1>1
<1> QED
  BY Zenon, <1>2 DEF Ranges, Within

\* A list without chunks.
LEMMA NothingListedYet ==
    ASSUME NEW W, NEW f \in [W -> Nat], NEW low \in Nat, \A r \in W : low <= f[r]
    PROVE  Lists(<<>>, W, f, low) /\ IsASeq(<<>>)
<1>1. Len(<<>>) = 0 /\ 1..0 = {}
  OBVIOUS
<1>2. \A r \in W : ~(f[r] < low)
  <2> SUFFICES ASSUME NEW r \in W PROVE ~(f[r] < low)
    BY Zenon
  <2>1. f[r] \in Nat /\ low <= f[r]
    BY Zenon
  <2> QED
    BY <2>1
<1>3. <<>> \in Seq({})
  OBVIOUS
<1> QED
  BY Zenon, <1>1, <1>2, <1>3 DEF Lists, IsASeq

\* Where no row lies a list goes on without a chunk.
LEMMA ListsFurther ==
    ASSUME NEW W, NEW f \in [W -> Nat], NEW list, NEW low \in Nat, NEW c \in Nat, low <= c,
           Lists(list, W, f, low), \A r \in W : f[r] < c => f[r] < low
    PROVE  Lists(list, W, f, c)
<1>1. ASSUME NEW i \in 1..Len(list) PROVE list[i].end < c
  <2>1. list[i].end \in Nat /\ list[i].end < low
    BY Zenon DEF Lists
  <2> QED
    BY <2>1
<1> QED
  BY Zenon, <1>1 DEF Lists

\* The rows of a chunk.
LEMMA RowsOfChunk ==
    ASSUME NEW W, NEW f, NEW list, NEW c, Lists(list, W, f, c), NEW i \in 1..Len(list), NEW u
    PROVE  u \in list[i].rows <=> \E r \in W : u = Ident(r) /\ list[i].start <= f[r] /\ f[r] <= list[i].end
<1> DEFINE T == Within(W, f, list[i].start, list[i].end)
<1>1. list[i].rows = {Ident(r) : r \in T}
  BY Zenon DEF Lists
<1>2. \A r : r \in T <=> r \in W /\ list[i].start <= f[r] /\ f[r] <= list[i].end
  BY Zenon DEF Within
<1> HIDE DEF T
<1>3. u \in list[i].rows <=> \E r \in T : u = Ident(r)
  BY <1>1
<1> QED
  BY Zenon, <1>2, <1>3

\* A list of all rows has each of them once.
LEMMA EveryRowOnce ==
    ASSUME NEW W, IsFiniteSet(W), NEW f \in [W -> Nat], NEW list, IsASeq(list),
           ListsAll(list, W, f), \A r, s \in W : Ident(r) = Ident(s) => r = s
    PROVE  /\ UNION {list[i].rows : i \in 1..Len(list)} = {Ident(r) : r \in W}
           /\ \A i \in 1..Len(list) - 1 : list[i].end < list[i + 1].start
           /\ row_count(list) = Cardinality({Ident(r) : r \in W})
<1> DEFINE n == Len(list)
           id == [r \in W |-> Ident(r)]
           U == {id[r] : r \in W}
           T == UNION {{i} \X list[i].rows : i \in 1..n}
<1>1. PICK c \in Nat : Lists(list, W, f, c) /\ \A r \in W : f[r] < c
  BY Zenon DEF ListsAll
<1>2. n \in Nat
  BY DEF IsASeq
<1>3. U = {Ident(r) : r \in W}
  BY Zenon
<1>4. \A i \in 1..n : \A u : u \in list[i].rows <=>
          \E r \in W : u = Ident(r) /\ list[i].start <= f[r] /\ f[r] <= list[i].end
  BY Zenon, <1>1, RowsOfChunk
<1>5. \A i, j \in 1..n : i < j => list[i].end < list[j].start
  BY Zenon, <1>1 DEF Lists
<1>6. \A i \in 1..n : list[i].start \in Nat /\ list[i].end \in Nat
  BY Zenon, <1>1 DEF Lists
<1>7. ASSUME NEW r \in W PROVE \E i \in 1..n : Ident(r) \in list[i].rows
  <2>1. PICK i \in 1..n : list[i].start <= f[r] /\ f[r] <= list[i].end
    BY Zenon, <1>1 DEF Lists
  <2> QED
    BY Zenon, <1>4, <2>1
<1>8. UNION {list[i].rows : i \in 1..n} = {Ident(r) : r \in W}
  <2>1. \A u : u \in UNION {list[i].rows : i \in 1..n} <=> \E i \in 1..n : u \in list[i].rows
    BY Zenon
  <2>2. \A u : (\E i \in 1..n : u \in list[i].rows) <=> \E r \in W : u = Ident(r)
    BY Zenon, <1>4, <1>7
  <2>3. \A u : u \in {Ident(r) : r \in W} <=> \E r \in W : u = Ident(r)
    BY Zenon
  <2> QED
    BY Zenon, <2>1, <2>2, <2>3
<1>9. ASSUME NEW i \in 1..n - 1 PROVE list[i].end < list[i + 1].start
  <2>1. i \in 1..n /\ i + 1 \in 1..n /\ i < i + 1
    BY <1>2
  <2> QED
    BY Zenon, <1>5, <2>1
<1>10. ASSUME NEW i \in 1..n, NEW j \in 1..n, NEW u, u \in list[i].rows, u \in list[j].rows, i < j
       PROVE  FALSE
  <2>1. PICK r \in W : u = Ident(r) /\ list[i].start <= f[r] /\ f[r] <= list[i].end
    BY Zenon, <1>4, <1>10
  <2>2. PICK s \in W : u = Ident(s) /\ list[j].start <= f[s] /\ f[s] <= list[j].end
    BY Zenon, <1>4, <1>10
  <2>3. r = s
    BY Zenon, <2>1, <2>2
  <2>4. f[r] \in Nat /\ f[r] <= list[i].end /\ list[j].start <= f[r] /\ list[i].end < list[j].start
        /\ list[i].end \in Nat /\ list[j].start \in Nat
    BY Zenon, <1>5, <1>6, <1>10, <2>1, <2>2, <2>3
  <2> QED
    BY <2>4
<1>11. ASSUME NEW i \in 1..n, NEW j \in 1..n, NEW u, u \in list[i].rows, u \in list[j].rows
       PROVE  i = j
  <2>1. ~(i < j) /\ ~(j < i)
    BY Zenon, <1>10, <1>11
  <2> QED
    BY <1>2, <2>1
<1>12. ASSUME NEW t \in T PROVE \E i \in 1..n : \E u \in list[i].rows : t = <<i, u>>
  <2>1. PICK i \in 1..n : t \in {i} \X list[i].rows
    BY Zenon
  <2>2. t[1] = i /\ t[2] \in list[i].rows /\ t = <<t[1], t[2]>>
    BY <2>1
  <2> QED
    BY Zenon, <2>2
<1>13. \A i \in 1..n : \A u \in list[i].rows : <<i, u>> \in T
  <2> SUFFICES ASSUME NEW i \in 1..n, NEW u \in list[i].rows PROVE <<i, u>> \in T
    BY Zenon
  <2>1. <<i, u>> \in {i} \X list[i].rows
    BY Zenon
  <2> QED
    BY Zenon, <2>1
<1>14. row_count(list) = Cardinality(T)
  BY Zenon DEF row_count
<1> HIDE DEF T, id, U, n
<1> DEFINE h == [t \in T |-> t[2]]
<1>15. ASSUME NEW t \in T
       PROVE  /\ h[t] \in U
              /\ \E i \in 1..n : t = <<i, h[t]>> /\ h[t] \in list[i].rows
  <2>4. PICK i \in 1..n : \E u \in list[i].rows : t = <<i, u>>
    BY Zenon, <1>12
  <2>1. PICK u \in list[i].rows : t = <<i, u>>
    BY Zenon, <2>4
  <2>2. h[t] = u
    BY <2>1
  <2>5. PICK r \in W : u = Ident(r)
    BY Zenon, <1>4
  <2>3. u \in U
    BY <1>3, <2>5
  <2> QED
    BY Zenon, <2>1, <2>2, <2>3
<1>16. \A t \in T, s \in T : h[t] = h[s] => t = s
  <2> SUFFICES ASSUME NEW t \in T, NEW s \in T, h[t] = h[s] PROVE t = s
    BY Zenon
  <2>1. PICK i \in 1..n : t = <<i, h[t]>> /\ h[t] \in list[i].rows
    BY Zenon, <1>15
  <2>2. PICK j \in 1..n : s = <<j, h[s]>> /\ h[s] \in list[j].rows
    BY Zenon, <1>15
  <2> HIDE DEF h
  <2>3. i = j
    BY Zenon, <1>11, <2>1, <2>2
  <2> QED
    BY Zenon, <2>1, <2>2, <2>3
<1>17. \A u \in U : \E t \in T : h[t] = u
  <2> SUFFICES ASSUME NEW u \in U PROVE \E t \in T : h[t] = u
    BY Zenon
  <2>1. PICK i \in 1..n : u \in list[i].rows
    BY Zenon, <1>3, <1>7
  <2>2. <<i, u>> \in T
    BY Zenon, <1>13, <2>1
  <2>3. h[<<i, u>>] = u
    BY <2>2
  <2> QED
    BY Zenon, <2>2, <2>3
<1>18. h \in [T -> U]
  BY Zenon, <1>15
<1> HIDE DEF h
<1>19. h \in Injection(T, U) /\ h \in Surjection(T, U)
  BY Zenon, <1>16, <1>17, <1>18 DEF Injection, Surjection, IsInjective
<1>20. IsFiniteSet(U)
  BY Zenon, ImageIsFinite DEF U
<1>21. Cardinality(T) = Cardinality(U)
  BY Zenon, <1>19, <1>20, FS_Injection
<1> QED
  BY Zenon, <1>3, <1>8, <1>9, <1>14, <1>21 DEF n

\* The roots of chunks of public TXIDs.
Rooted(list, W, f) ==
    \A i \in 1..Len(list) :
        /\ SingleTree(list[i].start, list[i].end)
        /\ list[i].root = {Ident(r) : r \in Within(W, f, CheckpointStart(list[i].start, list[i].end), list[i].end)}

\* A tree has leaves.
LEMMA LeafCount == TREE_LEAF_COUNT \in Nat \ {0}
BY Zenon, TreeAssumption

\* A position and its tree.
LEMMA TreeBounds ==
    ASSUME NEW a \in Nat
    PROVE  LET t == a \div TREE_LEAF_COUNT
           IN  t \in Nat /\ t * TREE_LEAF_COUNT \in Nat
               /\ t * TREE_LEAF_COUNT <= a /\ a < t * TREE_LEAF_COUNT + TREE_LEAF_COUNT
<1> DEFINE q == TREE_LEAF_COUNT
<1>1. q \in Nat \ {0}
  BY Zenon, LeafCount
<1> HIDE DEF q
<1>2. a \div q \in Nat /\ (a \div q) * q <= a /\ a < (a \div q) * q + q
  BY <1>1
<1>3. (a \div q) * q \in Nat
  BY <1>1, <1>2
<1> QED
  BY Zenon, <1>2, <1>3 DEF q

\* An earlier tree ends before a later one begins.
LEMMA TreesInOrder ==
    ASSUME NEW m \in Nat, NEW n \in Nat, m < n
    PROVE  m * TREE_LEAF_COUNT + TREE_LEAF_COUNT <= n * TREE_LEAF_COUNT
<1> DEFINE q == TREE_LEAF_COUNT
<1>1. q \in Nat /\ m + 1 <= n
  BY LeafCount
<1> HIDE DEF q
<1>2. (m + 1) * q <= n * q
  BY <1>1
<1>3. (m + 1) * q = m * q + q
  BY <1>1
<1>4. m * q + q <= n * q
  BY <1>2, <1>3
<1> QED
  BY <1>4 DEF q

\* A position is in the tree whose first position it does not precede and whose next tree it does.
LEMMA TreeOfPosition ==
    ASSUME NEW a \in Nat, NEW t \in Nat
    PROVE  a \div TREE_LEAF_COUNT = t
             <=> t * TREE_LEAF_COUNT <= a /\ a < t * TREE_LEAF_COUNT + TREE_LEAF_COUNT
<1> DEFINE q == TREE_LEAF_COUNT
           s == a \div TREE_LEAF_COUNT
<1>1. s \in Nat /\ s * q \in Nat /\ s * q <= a /\ a < s * q + q
  BY Zenon, TreeBounds
<1>2. q \in Nat /\ t * q \in Nat
  BY LeafCount
<1>3. s < t => s * q + q <= t * q
  BY Zenon, <1>1, TreesInOrder
<1>4. t < s => t * q + q <= s * q
  BY Zenon, <1>1, TreesInOrder
<1> HIDE DEF s, q
<1>5. s = t <=> t * q <= a /\ a < t * q + q
  <2>1. s = t \/ s < t \/ t < s
    BY <1>1
  <2>2. CASE s = t
    BY <1>1, <2>2
  <2>3. CASE s < t
    BY <1>1, <1>2, <1>3, <2>3
  <2>4. CASE t < s
    BY <1>1, <1>2, <1>4, <2>4
  <2> QED
    BY Zenon, <2>1, <2>2, <2>3, <2>4
<1> QED
  BY Zenon, <1>5 DEF s, q

\* What lies between two positions of a tree is of that tree.
LEMMA TreeBetween ==
    ASSUME NEW a \in Nat, NEW b \in Nat, NEW c \in Nat, a <= b, b <= c, SingleTree(a, c)
    PROVE  SingleTree(a, b) /\ SingleTree(b, c)
<1> DEFINE t == a \div TREE_LEAF_COUNT
<1>1. t \in Nat /\ t * TREE_LEAF_COUNT \in Nat /\ t * TREE_LEAF_COUNT <= a
  BY Zenon, TreeBounds
<1>2. c \div TREE_LEAF_COUNT = t
  BY Zenon DEF SingleTree
<1>3. TREE_LEAF_COUNT \in Nat
  BY LeafCount
<1> HIDE DEF t
<1>4. c < t * TREE_LEAF_COUNT + TREE_LEAF_COUNT
  BY Zenon, <1>1, <1>2, TreeOfPosition
<1> DEFINE s == t * TREE_LEAF_COUNT
<1> HIDE DEF s
<1>5. s \in Nat /\ s <= a /\ c < s + TREE_LEAF_COUNT
  BY Zenon, <1>1, <1>4 DEF s
<1>6. s <= b /\ b < s + TREE_LEAF_COUNT
  BY <1>3, <1>5
<1>7. b \div TREE_LEAF_COUNT = t
  BY Zenon, <1>1, <1>6, TreeOfPosition DEF s
<1> QED
  BY Zenon, <1>2, <1>7 DEF SingleTree, t

\* The root of a chunk is then over the listed rows of its tree.
LEMMA RootsOfLists ==
    ASSUME NEW W, NEW f \in [W -> Nat], NEW list, IsASeq(list), ListsAll(list, W, f), Rooted(list, W, f),
           NEW i \in 1..Len(list)
    PROVE  list[i].root = UNION {list[j].rows : j \in {j \in 1..i : SingleTree(list[j].start, list[i].end)}}
<1> DEFINE n == Len(list)
           start == CheckpointStart(list[i].start, list[i].end)
           tree == list[i].end \div TREE_LEAF_COUNT
           J == {j \in 1..i : SingleTree(list[j].start, list[i].end)}
<1>1. PICK c \in Nat : Lists(list, W, f, c) /\ \A r \in W : f[r] < c
  BY Zenon DEF ListsAll
<1>2. n \in Nat /\ i \in 1..n
  BY DEF IsASeq
<1>3. \A j \in 1..n : \A u : u \in list[j].rows <=>
          \E r \in W : u = Ident(r) /\ list[j].start <= f[r] /\ f[r] <= list[j].end
  BY Zenon, <1>1, RowsOfChunk
<1>4. \A j, k \in 1..n : j < k => list[j].end < list[k].start
  BY Zenon, <1>1 DEF Lists
<1>5. \A j \in 1..n : list[j].start \in Nat /\ list[j].end \in Nat /\ list[j].start <= list[j].end
  BY Zenon, <1>1 DEF Lists
<1>6. \A u : u \in list[i].root <=> \E r \in W : u = Ident(r) /\ start <= f[r] /\ f[r] <= list[i].end
  BY Zenon DEF Rooted, Within
<1>7. tree \in Nat /\ start = tree * TREE_LEAF_COUNT /\ start \in Nat /\ start <= list[i].end
      /\ list[i].end < start + TREE_LEAF_COUNT /\ TREE_LEAF_COUNT \in Nat
  <2>1. list[i].end \in Nat
    BY Zenon, <1>5
  <2>2. TREE_LEAF_COUNT \in Nat
    BY LeafCount
  <2>3. start = tree * TREE_LEAF_COUNT
    BY Zenon DEF CheckpointStart
  <2> QED
    BY Zenon, <2>1, <2>2, <2>3, TreeBounds
<1>8. \A p \in Nat : SingleTree(p, list[i].end) <=> start <= p /\ p < start + TREE_LEAF_COUNT
  <2> SUFFICES ASSUME NEW p \in Nat
               PROVE  SingleTree(p, list[i].end) <=> start <= p /\ p < start + TREE_LEAF_COUNT
    BY Zenon
  <2>1. p \div TREE_LEAF_COUNT = tree <=> start <= p /\ p < start + TREE_LEAF_COUNT
    <3>1. p \div TREE_LEAF_COUNT = tree <=> tree * TREE_LEAF_COUNT <= p /\ p < tree * TREE_LEAF_COUNT + TREE_LEAF_COUNT
      BY Zenon, <1>7, TreeOfPosition
    <3> QED
      BY Zenon, <1>7, <3>1
  <2> QED
    BY Zenon, <2>1 DEF SingleTree
<1>9. \A j \in 1..n : SingleTree(list[j].start, list[j].end)
  BY Zenon DEF Rooted
<1> HIDE DEF start, tree, n
<1>10. \A j \in 1..i : j \in 1..n /\ (j < i \/ j = i)
  BY <1>2
<1>11. ASSUME NEW u \in list[i].root PROVE \E j \in J : u \in list[j].rows
  <2>1. PICK r \in W : u = Ident(r) /\ start <= f[r] /\ f[r] <= list[i].end
    BY Zenon, <1>6, <1>11
  <2>2. f[r] \in Nat /\ f[r] < c
    BY Zenon, <1>1
  <2>3. PICK j \in 1..n : list[j].start <= f[r] /\ f[r] <= list[j].end
    BY Zenon, <1>1, <2>2 DEF Lists, n
  <2>4. list[j].start \in Nat /\ list[j].end \in Nat /\ list[i].end \in Nat
    BY Zenon, <1>2, <1>5
  <2>5. j \in 1..i
    <3>1. ~(i < j)
      <4> SUFFICES ASSUME i < j PROVE FALSE
        BY Zenon
      <4>1. list[i].end < list[j].start
        BY Zenon, <1>2, <1>4
      <4> QED
        BY <2>1, <2>2, <2>3, <2>4, <4>1
    <3> QED
      BY <1>2, <3>1
  <2>6. SingleTree(list[j].start, f[r])
    BY Zenon, <1>9, <2>2, <2>3, <2>4, TreeBetween
  <2>7. f[r] < start + TREE_LEAF_COUNT
    BY <1>7, <2>1, <2>2, <2>4
  <2>8. SingleTree(f[r], list[i].end)
    BY Zenon, <1>8, <2>1, <2>2, <2>7
  <2>9. SingleTree(list[j].start, list[i].end)
    BY Zenon, <2>6, <2>8 DEF SingleTree
  <2> QED
    BY Zenon, <1>3, <2>1, <2>3, <2>5, <2>9
<1>12. ASSUME NEW j \in J, NEW u \in list[j].rows PROVE u \in list[i].root
  <2>1. j \in 1..n /\ (j < i \/ j = i) /\ SingleTree(list[j].start, list[i].end)
    BY Zenon, <1>10
  <2>2. PICK r \in W : u = Ident(r) /\ list[j].start <= f[r] /\ f[r] <= list[j].end
    BY Zenon, <1>3, <1>12, <2>1
  <2>3. list[j].start \in Nat /\ list[j].end \in Nat /\ list[i].end \in Nat /\ list[i].start \in Nat
        /\ list[i].start <= list[i].end /\ f[r] \in Nat
    BY Zenon, <1>2, <1>5, <2>1
  <2>4. start <= list[j].start
    BY Zenon, <1>8, <2>1, <2>3
  <2>5. list[j].end <= list[i].end
    <3>1. CASE j = i
      BY <2>3, <3>1
    <3>2. CASE j < i
      <4>1. list[j].end < list[i].start
        BY Zenon, <1>2, <1>4, <2>1, <3>2
      <4> QED
        BY <2>3, <4>1
    <3> QED
      BY Zenon, <2>1, <3>1, <3>2
  <2>6. start <= f[r] /\ f[r] <= list[i].end
    BY <1>7, <2>2, <2>3, <2>4, <2>5
  <2> QED
    BY Zenon, <1>6, <2>2, <2>6
<1> HIDE DEF J
<1>13. list[i].root = UNION {list[j].rows : j \in J}
  BY Zenon, <1>11, <1>12
<1> QED
  BY Zenon, <1>13 DEF J

\* What the cycle relies on: a table holds one row of a key, of whatever branch.
GoodRows(table) ==
    /\ \A r \in table : r.block \in Block /\ r.pos \in Nat /\ r.hash = <<r.pos, r.bhash>>
    /\ \A r, s \in table : Key(r) = Key(s) => r = s

-----------------------------------------------------------------------------
(* What a cycle reads, as long as nothing is disturbed. *)

RowsOf(d) == IF d = "checkpoints" THEN {} ELSE WantedRows(d)

Place(d) ==
    [r \in RowsOf(d) |-> IF d = "txid" THEN txid_index(r) ELSE IF d = "wallet" THEN r.block ELSE r.pos]

Summaries == commitment_tree_summaries(rows, heights["checkpoints"].block)

CheckpointOf(s) ==
    Chunk(global_tree_position(s.tree, 0), global_tree_position(s.tree, 0) + s.leaf_count - 1, {},
          commitment_tree_checkpoint(rows, s, heights["checkpoints"].block).leaves)

Checks == [s \in Summaries |-> CheckpointOf(s)]

\* The rows below the height of a dataset.
Below(d) == {r \in rows : r.block <= heights[d].block}

\* A dataset with a height is configured, and its header stays while nothing is disturbed.
HeightInv ==
    /\ disturbed \in {"yes", "no"}
    /\ DOMAIN heights = Dataset
    /\ \A d \in Dataset : heights[d] # NoHeight =>
          /\ heights[d].block \in Block
          /\ \E m \in 1..Len(datasets) : datasets[m] = d
          /\ disturbed = "no" => headers[heights[d].block] = heights[d].hash

\* A height is a number of a block, or zero.
LEMMA HeightIsNat == HeightInv => \A d \in Dataset : heights[d].block \in Nat /\ (heights[d] = NoHeight => heights[d].block = 0)
<1> SUFFICES ASSUME HeightInv, NEW d \in Dataset
             PROVE  heights[d].block \in Nat /\ (heights[d] = NoHeight => heights[d].block = 0)
  BY Zenon
<1>1. CASE heights[d] = NoHeight
  BY <1>1 DEF NoHeight
<1>2. CASE heights[d] # NoHeight
  <2>1. heights[d].block \in Block
    BY Zenon, <1>2 DEF HeightInv
  <2> QED
    BY <1>2, <2>1 DEF Block
<1> QED
  BY Zenon, <1>1, <1>2

\* A move of the tables that does not disturb leaves the rows below the heights and their headers.
LEMMA NotDisturbed ==
    ASSUME GoodRows(rows), GoodRows(rows'), HeightInv, TablesMove, disturbed' = "no"
    PROVE  /\ disturbed = "no"
           /\ \A d \in Dataset : Below(d)' = Below(d)
           /\ \A d \in Dataset : heights[d] # NoHeight => headers'[heights[d].block] = headers[heights[d].block]
<1>1. heights' = heights /\ disturbed' = IF Disturbs THEN "yes" ELSE disturbed
  BY Zenon DEF TablesMove
<1>2. ~Disturbs
  <2>1. "yes" # "no"
    OBVIOUS
  <2> QED
    BY Zenon, <1>1, <2>1
<1>3. disturbed = "no"
  BY Zenon, <1>1, <1>2
<1>4. ASSUME NEW d \in Dataset, heights[d].block > 0
      PROVE  {r \in rows' : r.block <= heights[d].block} = {r \in rows : r.block <= heights[d].block}
             /\ headers'[heights[d].block] = headers[heights[d].block]
  BY Zenon, <1>2, <1>4 DEF Disturbs
<1>5. ASSUME NEW d \in Dataset, ~(heights[d].block > 0)
      PROVE  {r \in rows' : r.block <= heights[d].block} = {r \in rows : r.block <= heights[d].block}
  <2>1. heights[d].block = 0
    <3>1. heights[d].block \in Nat
      BY Zenon, HeightIsNat
    <3> QED
      BY <1>5, <3>1
  <2>2. \A r \in rows : ~(r.block <= 0)
    BY DEF GoodRows, Block
  <2>3. \A r \in rows' : ~(r.block <= 0)
    BY DEF GoodRows, Block
  <2> QED
    BY Zenon, <2>1, <2>2, <2>3
<1>6. ASSUME NEW d \in Dataset PROVE Below(d)' = Below(d)
  BY Zenon, <1>1, <1>4, <1>5 DEF Below
<1>7. ASSUME NEW d \in Dataset, heights[d] # NoHeight
      PROVE  headers'[heights[d].block] = headers[heights[d].block]
  <2>1. heights[d].block \in Block
    BY Zenon, <1>7 DEF HeightInv
  <2>2. heights[d].block > 0
    BY <2>1 DEF Block
  <2> QED
    BY Zenon, <1>4, <2>2
<1> QED
  BY Zenon, <1>3, <1>6, <1>7

\* A checkpoint depends on the rows of its tree only.
LEMMA CheckpointIsOfRows ==
    ASSUME NEW T, NEW U, NEW s, NEW h,
           \A a, b : commitment_rows(T, a, b, h) = commitment_rows(U, a, b, h)
    PROVE  commitment_tree_checkpoint(T, s, h) = commitment_tree_checkpoint(U, s, h)
<1> DEFINE start == global_tree_position(s.tree, 0)
           of(found) ==
    LET at(p) == {r \in found : r.pos = start + p}
    IN  IF \E p \in 0..s.leaf_count - 1 : Cardinality(at(p)) > 1
        THEN [err |-> "DuplicateCommitmentTreePosition", leaves |-> <<>>]
        ELSE [err |-> "none",
              leaves |-> [k \in 1..s.leaf_count |->
                             IF at(k - 1) = {} THEN MERKLE_ZERO_VALUE
                             ELSE (CHOOSE r \in at(k - 1) : TRUE).hash]]
           F(T0) == commitment_rows(T0, start, start + s.leaf_count - 1, h)
<1>1. commitment_tree_checkpoint(T, s, h) = of(F(T)) 
  BY Zenon DEF commitment_tree_checkpoint
<1>2. commitment_tree_checkpoint(U, s, h) = of(F(U)) 
  BY Zenon DEF commitment_tree_checkpoint
<1>3. F(T) = F(U)
  BY Zenon
<1> HIDE DEF of, F
<1> QED
  BY Zenon, <1>1, <1>2, <1>3

\* A reading depends on the rows below its height only.
LEMMA DataIsKept ==
    ASSUME heights' = heights, omitted' = omitted, \A d \in Dataset : Below(d)' = Below(d), HeightInv,
           GoodRows(rows), GoodRows(rows')
    PROVE  /\ \A d \in Dataset : RowsOf(d)' = RowsOf(d) /\ Place(d)' = Place(d)
           /\ Checks' = Checks
           /\ validate_public_txid_compatibility_omissions' <=> validate_public_txid_compatibility_omissions
           /\ \A d \in Dataset : PositionTaken(heights[d].block)' <=> PositionTaken(heights[d].block)
<1> DEFINE same(d) == \A r : r \in rows' /\ r.block <= heights[d].block <=> r \in rows /\ r.block <= heights[d].block
<1>1. ASSUME NEW d \in Dataset PROVE same(d)
  <2>1. {r \in rows' : r.block <= heights[d].block} = {r \in rows : r.block <= heights[d].block}
    BY Zenon DEF Below
  <2> QED
    BY Zenon, <2>1
<1>2. "txid" \in Dataset /\ "wallet" \in Dataset /\ "commitments" \in Dataset /\ "checkpoints" \in Dataset
  BY DEF Dataset
<1>3. same("txid") /\ same("wallet") /\ same("commitments") /\ same("checkpoints")
  BY Zenon, <1>1, <1>2
<1>4. PublishedTxids' = PublishedTxids
  BY Zenon, <1>3 DEF PublishedTxids
<1>5. ASSUME NEW r PROVE txid_index(r)' = txid_index(r)
  BY Zenon, <1>4 DEF txid_index
<1>6. wallet_scan_rows(rows, 1, heights["wallet"].block)' = wallet_scan_rows(rows, 1, heights["wallet"].block)
  <2> DEFINE h == heights["wallet"].block
  <2>1. h \in Nat
    BY Zenon, <1>2, HeightIsNat
  <2>2. \A b : b \in 1..h => b <= h
    BY <2>1
  <2>3. wallet_scan_rows(rows', 1, h) = wallet_scan_rows(rows, 1, h)
    BY Zenon, <1>3, <2>2 DEF wallet_scan_rows
  <2> QED
    BY Zenon, <2>3
<1>7. {r \in rows' : r.family \in Families /\ r.block <= heights["commitments"].block}
        = {r \in rows : r.family \in Families /\ r.block <= heights["commitments"].block}
  BY Zenon, <1>3
<1>8. ASSUME NEW d \in Dataset PROVE RowsOf(d)' = RowsOf(d)
  <2>1. CASE d = "txid"
    BY <1>4, <2>1 DEF RowsOf, WantedRows
  <2>2. CASE d = "wallet"
    BY <1>6, <2>2 DEF RowsOf, WantedRows
  <2>3. CASE d = "commitments"
    BY <1>7, <2>3 DEF RowsOf, WantedRows
  <2>4. CASE d = "checkpoints"
    BY Zenon, <2>4 DEF RowsOf
  <2> QED
    BY Zenon, <2>1, <2>2, <2>3, <2>4 DEF Dataset
<1>9. ASSUME NEW d \in Dataset PROVE Place(d)' = Place(d)
  BY Zenon, <1>5, <1>8 DEF Place
<1> DEFINE h == heights["checkpoints"].block
           kept == {r \in rows : r.family \in Families /\ r.block <= h}
<1>10. {r \in rows' : r.family \in Families /\ r.block <= h} = kept
  BY Zenon, <1>3
<1>11. Summaries' = Summaries
  BY Zenon, <1>10 DEF Summaries, commitment_tree_summaries
<1>12. ASSUME NEW a, NEW b PROVE commitment_rows(rows', a, b, h) = commitment_rows(rows, a, b, h)
  BY Zenon, <1>3 DEF commitment_rows
<1>13. ASSUME NEW s PROVE commitment_tree_checkpoint(rows', s, h) = commitment_tree_checkpoint(rows, s, h)
  <2>1. \A a, b : commitment_rows(rows', a, b, h) = commitment_rows(rows, a, b, h)
    BY Zenon, <1>12
  <2> HIDE DEF h
  <2> QED
    BY <2>1, CheckpointIsOfRows
<1>14. ASSUME NEW s PROVE CheckpointOf(s)' = CheckpointOf(s)
  BY Zenon, <1>13 DEF CheckpointOf
<1>15. Checks' = Checks
  BY Zenon, <1>11, <1>14 DEF Checks
<1> DEFINE g == heights["txid"].block
           Found(table, o) == {r \in table : r.family = "txid" /\ <<r.block, r.pos>> = o}
<1>16. ASSUME NEW o, ~(o[1] > g) PROVE Found(rows', o) = Found(rows, o)
  <2>1. g \in Nat
    BY Zenon, <1>2, HeightIsNat
  <2>2. ASSUME NEW r, <<r.block, r.pos>> = o, r.block \in Block PROVE r.block <= g
    <3>1. o[1] = r.block
      BY <2>2
    <3> QED
      BY <1>16, <2>1, <2>2, <3>1 DEF Block
  <2>3. (\A r \in rows : r.block \in Block) /\ (\A r \in rows' : r.block \in Block)
    BY Zenon DEF GoodRows
  <2> HIDE DEF g
  <2>4. \A r : r \in rows' /\ r.block <= g <=> r \in rows /\ r.block <= g
    BY Zenon, <1>3 DEF g
  <2> QED
    BY Zenon, <2>2, <2>3, <2>4
<1>17. (\A o \in omitted : o[1] > g \/ Cardinality(Found(rows', o)) = 1)
        <=> (\A o \in omitted : o[1] > g \/ Cardinality(Found(rows, o)) = 1)
  <2> HIDE DEF Found, g
  <2> QED
    BY Zenon, <1>16
<1>18. validate_public_txid_compatibility_omissions' <=> validate_public_txid_compatibility_omissions
  BY Zenon, <1>17 DEF validate_public_txid_compatibility_omissions
<1>19. ASSUME NEW d \in Dataset PROVE PositionTaken(heights[d].block)' <=> PositionTaken(heights[d].block)
  <2> DEFINE top == heights[d].block
  <2>1. {r \in rows' : r.family \in Families /\ r.block <= top} = {r \in rows : r.family \in Families /\ r.block <= top}
    BY Zenon, <1>1
  <2> HIDE DEF top
  <2>2. PositionTaken(top)' <=> PositionTaken(top)
    BY Zenon, <2>1 DEF PositionTaken, top
  <2> QED
    BY Zenon, <2>2 DEF top
<1> QED
  BY Zenon, <1>8, <1>9, <1>15, <1>18, <1>19

TxidOrder == {z \in PublishedTxids \X PublishedTxids : Precedes(z[1], z[2])}

\* The public TXIDs are ordered, and the index of one is its rank.
LEMMA TxidsAreOrdered ==
    ASSUME GoodRows(rows)
    PROVE  /\ StrictOrder(PublishedTxids, TxidOrder)
           /\ \A r \in PublishedTxids : txid_index(r) = Rank(PublishedTxids, TxidOrder, r)
<1> DEFINE P == PublishedTxids
<1>1. ASSUME NEW r \in P
      PROVE  r \in rows /\ r.family = "txid" /\ r.block \in Nat /\ r.pos \in Nat
  <2>1. r \in rows /\ r.family = "txid"
    BY Zenon DEF PublishedTxids
  <2>2. r.block \in Block /\ r.pos \in Nat
    BY Zenon, <2>1 DEF GoodRows
  <2> QED
    BY <2>1, <2>2 DEF Block
<1>2. ASSUME NEW r \in P, NEW s \in P PROVE <<r, s>> \in TxidOrder <=> Precedes(r, s)
  BY Zenon DEF TxidOrder
<1> HIDE DEF P
<1>3. ASSUME NEW x \in P, NEW y \in P, NEW z \in P, Precedes(x, y), Precedes(y, z) PROVE Precedes(x, z)
  BY <1>1, <1>3 DEF Precedes
<1>4. ASSUME NEW x \in P PROVE ~Precedes(x, x)
  BY <1>1 DEF Precedes
<1>5. ASSUME NEW x \in P, NEW y \in P PROVE x = y \/ Precedes(x, y) \/ Precedes(y, x)
  <2>1. CASE x.block = y.block /\ x.pos = y.pos
    <3>1. Key(x) = Key(y)
      BY Zenon, <1>1, <2>1 DEF Key
    <3> QED
      BY Zenon, <1>1, <3>1 DEF GoodRows
  <2>2. CASE ~(x.block = y.block /\ x.pos = y.pos)
    BY <1>1, <2>2 DEF Precedes
  <2> QED
    BY Zenon, <2>1, <2>2
<1>6. StrictOrder(P, TxidOrder)
  BY Zenon, <1>2, <1>3, <1>4, <1>5 DEF StrictOrder
<1>7. ASSUME NEW r \in P PROVE txid_index(r) = Rank(P, TxidOrder, r)
  <2>1. {s \in P : Precedes(s, r)} = {s \in P : <<s, r>> \in TxidOrder}
    BY Zenon, <1>2
  <2> QED
    BY Zenon, <2>1 DEF txid_index, Rank, P
<1> QED
  BY Zenon, <1>6, <1>7 DEF P

\* The rows a dataset is to list are finitely many, each with a place and a name of its own.
LEMMA RowsAndPlaces ==
    ASSUME GoodRows(rows), IsFiniteSet(rows), NEW d \in Dataset
    PROVE  /\ IsFiniteSet(RowsOf(d)) /\ RowsOf(d) \subseteq rows
           /\ Place(d) \in [RowsOf(d) -> Nat]
           /\ \A r, s \in RowsOf(d) : Ident(r) = Ident(s) => r = s
<1>1. RowsOf(d) \in SUBSET rows
  <2>1. CASE d = "txid"
    <3>1. RowsOf(d) = PublishedTxids
      BY <2>1 DEF RowsOf, WantedRows
    <3> QED
      BY Zenon, <3>1 DEF PublishedTxids
  <2>2. CASE d = "wallet"
    <3>1. RowsOf(d) = wallet_scan_rows(rows, 1, heights["wallet"].block)
      BY <2>2 DEF RowsOf, WantedRows
    <3> QED
      BY Zenon, <3>1 DEF wallet_scan_rows
  <2>3. CASE d = "commitments"
    <3>1. RowsOf(d) = {r \in rows : r.family \in Families /\ r.block <= heights["commitments"].block}
      BY <2>3 DEF RowsOf, WantedRows
    <3> QED
      BY Zenon, <3>1
  <2>4. CASE d = "checkpoints"
    BY Zenon, <2>4 DEF RowsOf
  <2> QED
    BY Zenon, <2>1, <2>2, <2>3, <2>4 DEF Dataset
<1>2. IsFiniteSet(RowsOf(d))
  BY Zenon, <1>1, FS_Subset
<1>3. IsFiniteSet(PublishedTxids)
  <2>1. PublishedTxids \in SUBSET rows
    BY Zenon DEF PublishedTxids
  <2> QED
    BY Zenon, <2>1, FS_Subset
<1>4. ASSUME NEW r \in rows PROVE r.block \in Nat /\ r.pos \in Nat
  <2>1. r.block \in Block /\ r.pos \in Nat
    BY Zenon DEF GoodRows
  <2> QED
    BY <2>1 DEF Block
<1>5. ASSUME NEW r PROVE txid_index(r) \in Nat
  <2> DEFINE T == {s \in PublishedTxids : Precedes(s, r)}
  <2>1. T \in SUBSET PublishedTxids
    BY Zenon
  <2> HIDE DEF T
  <2>2. Cardinality(T) \in Nat
    BY Zenon, <1>3, <2>1, FS_Subset, FS_CardinalityType
  <2> QED
    BY Zenon, <2>2 DEF T, txid_index
<1>6. Place(d) \in [RowsOf(d) -> Nat]
  <2>1. ASSUME NEW r \in RowsOf(d)
        PROVE  (IF d = "txid" THEN txid_index(r) ELSE IF d = "wallet" THEN r.block ELSE r.pos) \in Nat
    BY Zenon, <1>1, <1>4, <1>5
  <2> QED
    BY Zenon, <2>1 DEF Place
<1>7. ASSUME NEW r \in RowsOf(d), NEW s \in RowsOf(d), Ident(r) = Ident(s) PROVE r = s
  <2>1. Key(r) = Key(s)
    BY <1>7 DEF Ident
  <2> QED
    BY Zenon, <1>1, <2>1 DEF GoodRows
<1> QED
  BY Zenon, <1>1, <1>2, <1>6, <1>7

-----------------------------------------------------------------------------
(* Public TXIDs: pages and chunks read by index. *)

Dense(W, f) == \A r \in W : \A j \in 0..f[r] : \E s \in W : f[s] = j

Indexed(W, f, a, b) == {[index |-> f[r], row |-> r] : r \in Within(W, f, a, b)}

\* The index of a public TXID is its place.
LEMMA TxidPlaces ==
    ASSUME GoodRows(rows), IsFiniteSet(rows)
    PROVE  /\ RowsOf("txid") = PublishedTxids
           /\ \A r \in RowsOf("txid") : Place("txid")[r] = txid_index(r)
           /\ Dense(RowsOf("txid"), Place("txid"))
<1> DEFINE W == RowsOf("txid")
           f == Place("txid")
<1>1. W = PublishedTxids
  BY DEF RowsOf, WantedRows
<1>2. ASSUME NEW r \in W PROVE f[r] = txid_index(r)
  BY Zenon DEF Place
<1>3. IsFiniteSet(W)
  <2>1. "txid" \in Dataset
    BY DEF Dataset
  <2> QED
    BY Zenon, <2>1, RowsAndPlaces
<1>4. StrictOrder(W, TxidOrder) /\ \A r \in W : txid_index(r) = Rank(W, TxidOrder, r)
  BY Zenon, <1>1, TxidsAreOrdered
<1> HIDE DEF W, f
<1>5. ASSUME NEW r \in W, NEW j \in 0..f[r] PROVE \E s \in W : f[s] = j
  <2>1. j \in 0..Rank(W, TxidOrder, r)
    BY Zenon, <1>2, <1>4
  <2>2. PICK s \in W : Rank(W, TxidOrder, s) = j
    BY <1>3, <1>4, <2>1, RanksAreDense
  <2> QED
    BY Zenon, <1>2, <1>4, <2>2
<1> QED
  BY Zenon, <1>1, <1>2, <1>5 DEF W, f, Dense

\* What a query for public TXIDs returns.
LEMMA TxidRead ==
    ASSUME GoodRows(rows), IsFiniteSet(rows), NEW a \in Nat, NEW n \in Int
    PROVE  txid_rows(a, n) = Indexed(RowsOf("txid"), Place("txid"), a, a + n - 1)
<1> DEFINE W == RowsOf("txid")
           f == Place("txid")
           b == a + n - 1
<1>1. W = PublishedTxids /\ \A r \in W : f[r] = txid_index(r)
  BY Zenon, TxidPlaces
<1>2. f \in [W -> Nat]
  <2>1. "txid" \in Dataset
    BY DEF Dataset
  <2> QED
    BY Zenon, <2>1, RowsAndPlaces
<1>3. b \in Int
  OBVIOUS
<1> HIDE DEF W, f, b
<1>4. ASSUME NEW r \in W PROVE txid_index(r) \in a..b <=> a <= f[r] /\ f[r] <= b
  <2>1. f[r] \in Nat
    BY Zenon, <1>2
  <2>2. f[r] \in a..b <=> a <= f[r] /\ f[r] <= b
    BY <1>3, <2>1
  <2> QED
    BY Zenon, <1>1, <2>2
<1>5. {r \in PublishedTxids : txid_index(r) \in a..b} = Within(W, f, a, b)
  BY Zenon, <1>1, <1>4 DEF Within
<1>6. \A r \in Within(W, f, a, b) : txid_index(r) = f[r]
  BY Zenon, <1>1 DEF Within
<1>7. txid_rows(a, n) = {[index |-> txid_index(r), row |-> r] : r \in Within(W, f, a, b)}
  BY Zenon, <1>5 DEF txid_rows, b
<1>8. {[index |-> txid_index(r), row |-> r] : r \in Within(W, f, a, b)}
        = {[index |-> f[r], row |-> r] : r \in Within(W, f, a, b)}
  BY Zenon, <1>6
<1> QED
  BY Zenon, <1>7, <1>8 DEF Indexed, W, f, b

\* The indexes and the rows of such an answer.
LEMMA IndexedRows ==
    ASSUME NEW W, NEW f \in [W -> Nat], NEW a, NEW b
    PROVE  /\ {x.index : x \in Indexed(W, f, a, b)} = {f[r] : r \in Within(W, f, a, b)}
           /\ {<<x.index, x.index>> : x \in Indexed(W, f, a, b)} = {<<f[r], f[r]>> : r \in Within(W, f, a, b)}
           /\ {x.row : x \in Indexed(W, f, a, b)} = Within(W, f, a, b)
           /\ {Ident(x.row) : x \in Indexed(W, f, a, b)} = {Ident(r) : r \in Within(W, f, a, b)}
           /\ Indexed(W, f, a, b) = {} <=> Within(W, f, a, b) = {}
<1> DEFINE V == Within(W, f, a, b)
           m == [r \in V |-> [index |-> f[r], row |-> r]]
           D == Indexed(W, f, a, b)
<1>1. D = {m[r] : r \in V}
  BY Zenon DEF Indexed
<1>2. \A r \in V : m[r].index = f[r] /\ m[r].row = r
  BY Zenon
<1> HIDE DEF V, m, D
<1>3. {x.index : x \in D} = {f[r] : r \in V}
  BY <1>1, <1>2
<1>4. {<<x.index, x.index>> : x \in D} = {<<f[r], f[r]>> : r \in V}
  BY <1>1, <1>2
<1>5. {x.row : x \in D} = V
  BY <1>1, <1>2
<1>6. {Ident(x.row) : x \in D} = {Ident(r) : r \in V}
  BY <1>1, <1>2
<1>7. D = {} <=> V = {}
  BY <1>1
<1> QED
  BY Zenon, <1>3, <1>4, <1>5, <1>6, <1>7 DEF V, D

\* After an empty page no public TXID is left.
LEMMA EmptyPage ==
    ASSUME NEW W, NEW f \in [W -> Nat], Dense(W, f), NEW a \in Nat, NEW b \in Int, a <= b, Within(W, f, a, b) = {}
    PROVE  \A r \in W : f[r] < a
<1> SUFFICES ASSUME NEW r \in W, ~(f[r] < a) PROVE FALSE
  BY Zenon
<1>1. f[r] \in Nat
  BY Zenon
<1>2. a \in 0..f[r]
  BY <1>1
<1>3. PICK s \in W : f[s] = a
  BY Zenon, <1>2 DEF Dense
<1>4. s \in Within(W, f, a, b)
  <2>1. a <= a
    OBVIOUS
  <2> QED
    BY Zenon, <1>3, <2>1 DEF Within
<1> QED
  BY Zenon, <1>4

\* A page shorter than its limit is the last.
LEMMA LastPage ==
    ASSUME NEW W, IsFiniteSet(W), NEW f \in [W -> Nat], Dense(W, f), NEW a \in Nat, NEW n \in Nat \ {0},
           Cardinality(Indexed(W, f, a, a + n - 1)) < n
    PROVE  \A r \in W : f[r] <= a + n - 1
<1> DEFINE b == a + n - 1
           D == Indexed(W, f, a, b)
           g == [x \in D |-> x.index]
<1> SUFFICES ASSUME NEW r \in W, ~(f[r] <= b) PROVE FALSE
  BY Zenon
<1>1. b \in Nat /\ b - a + 1 = n /\ a <= b
  OBVIOUS
<1> HIDE DEF b
<1>2. D = {[index |-> f[s], row |-> s] : s \in Within(W, f, a, b)}
  BY Zenon DEF Indexed
<1>3. IsFiniteSet(D)
  <2>1. Within(W, f, a, b) \in SUBSET W
    BY Zenon DEF Within
  <2>2. IsFiniteSet(Within(W, f, a, b))
    BY Zenon, <2>1, FS_Subset
  <2> DEFINE h == [s \in Within(W, f, a, b) |-> [index |-> f[s], row |-> s]]
  <2>3. h \in Surjection(Within(W, f, a, b), D)
    <3>1. h \in [Within(W, f, a, b) -> D]
      BY <1>2
    <3>2. \A x \in D : \E s \in Within(W, f, a, b) : h[s] = x
      BY Zenon, <1>2
    <3> QED
      BY Zenon, <3>1, <3>2 DEF Surjection
  <2> HIDE DEF h, D
  <2> QED
    BY Zenon, <2>2, <2>3, FS_Surjection
<1>4. g \in Surjection(D, a..b)
  <2>1. ASSUME NEW x \in D PROVE x.index \in a..b
    <3>1. PICK s \in Within(W, f, a, b) : x = [index |-> f[s], row |-> s]
      BY Zenon, <1>2
    <3>2. s \in W /\ a <= f[s] /\ f[s] <= b
      BY Zenon DEF Within
    <3>3. f[s] \in Nat
      BY Zenon, <3>2
    <3> QED
      BY <1>1, <3>1, <3>2, <3>3
  <2>2. ASSUME NEW j \in a..b PROVE \E x \in D : x.index = j
    <3>1. j \in 0..f[r]
      <4>1. f[r] \in Nat
        BY Zenon
      <4> QED
        BY <1>1, <4>1
    <3>2. PICK s \in W : f[s] = j
      BY Zenon, <3>1 DEF Dense
    <3>3. a <= j /\ j <= b
      BY <1>1
    <3>4. s \in Within(W, f, a, b)
      BY Zenon, <3>2, <3>3 DEF Within
    <3>5. [index |-> f[s], row |-> s] \in D
      BY Zenon, <1>2, <3>4
    <3>6. [index |-> f[s], row |-> s].index = j
      BY <3>2
    <3> QED
      BY Zenon, <3>5, <3>6
  <2> HIDE DEF D
  <2>3. g \in [D -> a..b]
    BY Zenon, <2>1
  <2>4. \A j \in a..b : \E x \in D : g[x] = j
    BY Zenon, <2>2
  <2> QED
    BY Zenon, <2>3, <2>4 DEF Surjection
<1>5. Cardinality(a..b) <= Cardinality(D)
  BY Zenon, <1>3, <1>4, FS_Surjection
<1>6. Cardinality(a..b) = n
  <2>1. a \in Int /\ b \in Int /\ ~(a > b)
    BY <1>1
  <2> QED
    BY <1>1, <2>1, FS_Interval
<1>7. Cardinality(D) \in Nat
  BY Zenon, <1>3, FS_CardinalityType
<1>8. Cardinality(D) < n
  BY Zenon DEF b
<1> QED
  BY <1>5, <1>6, <1>7, <1>8

\* A page ends with its tree at the latest.
LEMMA PageInTree ==
    ASSUME NEW c \in Nat, NEW n, n = public_txid_chunk_row_limit(c)
    PROVE  n \in Nat \ {0} /\ SingleTree(c, c + n - 1)
<1> DEFINE t == c \div TREE_LEAF_COUNT
           w == c % TREE_LEAF_COUNT
           m == t * TREE_LEAF_COUNT
<1>1. TREE_LEAF_COUNT \in Nat \ {0}
  BY Zenon, LeafCount
<1>2. t \in Nat /\ m \in Nat /\ m <= c /\ c < m + TREE_LEAF_COUNT
  BY Zenon, TreeBounds
<1>3. w = c - m
  BY <1>1
<1>4. TxidRowLimit \in Nat \ {0}
  BY Zenon, CatalogAssumption
<1> HIDE DEF w, m, t
<1> DEFINE S == {TxidRowLimit, TREE_LEAF_COUNT - w}
<1>5. S \in SUBSET (Nat \ {0}) /\ TREE_LEAF_COUNT - w \in S /\ S # {}
  BY <1>1, <1>2, <1>3, <1>4
<1> HIDE DEF S
<1>6. S \in SUBSET Nat
  BY Zenon, <1>5
<1>7. Min(S) \in S /\ \A y \in S : Min(S) <= y
  BY Zenon, <1>5, <1>6, NatMin
<1>8. n = Min(S)
  BY Zenon DEF public_txid_chunk_row_limit, S, w
<1>9. n \in Nat \ {0} /\ n <= TREE_LEAF_COUNT - w
  BY Zenon, <1>5, <1>7, <1>8
<1> DEFINE b == c + n - 1
<1>10. b \in Nat /\ m <= b /\ b < m + TREE_LEAF_COUNT
  BY <1>1, <1>2, <1>3, <1>9
<1> HIDE DEF b
<1>11. b \div TREE_LEAF_COUNT = t
  BY Zenon, <1>2, <1>10, TreeOfPosition DEF m
<1>12. SingleTree(c, b)
  BY Zenon, <1>11 DEF SingleTree, t
<1> QED
  BY Zenon, <1>9, <1>12 DEF b

-----------------------------------------------------------------------------
(* The inductive invariant, continued: the cycle.  cp maps the summary of a  *)
(* tree to its checkpoint.                                                   *)

Working == {"start", "plan", "page", "chunk", "root"}

\* The checkpoints of all trees but some.
Checkpoints(list, cp, left) ==
    /\ left \subseteq DOMAIN cp
    /\ \A i \in 1..Len(list) : \E s \in DOMAIN cp : list[i] = cp[s]
    /\ \A s \in DOMAIN cp \ left : cp[s].root # <<>> /\ \E i \in 1..Len(list) : list[i] = cp[s]

\* The catalog of a dataset is complete.
Finished(d, list, W, f, cp) ==
    IF d = "checkpoints" THEN Checkpoints(list, cp, {})
    ELSE ListsAll(list, W, f) /\ (d = "txid" => Rooted(list, W, f))

\* What the next page starts from.
PageInv(d, list, c, h, W, f) ==
    /\ c \in Nat
    /\ Lists(list, W, f, c)
    /\ d = "txid" => Rooted(list, W, f)
    /\ d = "commitments" => h.last \in Nat /\ \A r \in W : f[r] <= h.last

\* The plan covers the rest of a page.
ChunkInv(d, list, low, p, h, W, f) ==
    /\ p # {}
    /\ Lists(list, W, f, low)
    /\ \E top \in Nat :
          /\ Ranges(p, W, f, low, top)
          /\ d = "txid" => /\ h.fill = "last" => \A r \in W : f[r] <= top
                           /\ \A x \in p : SingleTree(x[1], x[2])
          /\ d = "wallet" => \A r \in W : f[r] <= top
    /\ d = "txid" => h.fill \in {"last", "more"}

\* The catalog of the dataset at work.
AtWork(step, d, list, c, p, h, W, f, cp) ==
    /\ step = "start" => list = <<>>
    /\ step = "page" => d \in {"txid", "commitments"} /\ PageInv(d, list, c, h, W, f)
    /\ step = "plan" => d = "wallet" /\ list = <<>> /\ Ranges(p \cup h.items, W, f, 0, MaxBlock)
    /\ step \in {"chunk", "root"} /\ d \in {"txid", "commitments"} =>
          PageInv(d, list, c, h, W, f) /\ ChunkInv(d, list, c, p, h, W, f)
    /\ step = "root" => d = "txid" /\ h.found = Indexed(W, f, Foremost(p)[1], Foremost(p)[2])
    /\ step = "chunk" /\ d = "wallet" => \E low \in Nat : ChunkInv(d, list, low, p, h, W, f)
    /\ step = "chunk" /\ d = "checkpoints" => p # {} /\ Checkpoints(list, cp, p)

-----------------------------------------------------------------------------
(* Public TXIDs. *)

\* A page is planned.
LEMMA TxidPagePlanned ==
    ASSUME NEW W, IsFiniteSet(W), NEW f \in [W -> Nat], Dense(W, f), NEW c \in Nat, NEW list, Lists(list, W, f, c),
           NEW n, n = public_txid_chunk_row_limit(c), NEW D, D = Indexed(W, f, c, c + n - 1), D # {},
           NEW p \in plan_chunks({<<x.index, x.index>> : x \in D}),
           NEW h, h.fill = PageFill(Cardinality(D), n)
    PROVE  ChunkInv("txid", list, c, p, h, W, f)
<1> DEFINE top == c + n - 1
           items == {<<f[r], f[r]>> : r \in Within(W, f, c, top)}
<1>1. n \in Nat \ {0} /\ SingleTree(c, top)
  BY Zenon, PageInTree
<1>2. top \in Nat
  BY <1>1
<1>3. {<<x.index, x.index>> : x \in D} = items /\ Within(W, f, c, top) # {}
  BY Zenon, IndexedRows
<1>4. items # {}
  BY <1>3
<1>5. Ranges(items, W, f, c, top)
  <2>1. top \in Int
    BY <1>2
  <2> HIDE DEF top
  <2> QED
    BY Zenon, <2>1, PageRanges
<1>6. p \in plan_chunks(items)
  BY Zenon, <1>3
<1> HIDE DEF items
<1>7. p # {} /\ Ranges(p, W, f, c, top)
  <2> HIDE DEF top
  <2> QED
    BY Zenon, <1>2, <1>4, <1>5, <1>6, PlanRanges
<1>8. ASSUME NEW x \in p PROVE SingleTree(x[1], x[2])
  <2>1. x \in Nat \X Nat
    BY Zenon, <1>7 DEF Ranges
  <2>2. x[1] \in Nat /\ x[2] \in Nat
    BY <2>1
  <2>3. c <= x[1] /\ x[1] <= x[2] /\ x[2] <= top
    BY Zenon, <1>7 DEF Ranges
  <2>4. c <= x[2]
    BY <2>2, <2>3
  <2> HIDE DEF top
  <2>5. SingleTree(c, x[2])
    BY Zenon, <1>1, <1>2, <2>2, <2>3, <2>4, TreeBetween
  <2> QED
    BY Zenon, <2>2, <2>3, <2>5, TreeBetween
<1>9. h.fill = "last" => \A r \in W : f[r] <= top
  <2> SUFFICES ASSUME h.fill = "last" PROVE \A r \in W : f[r] <= top
    BY Zenon
  <2>1. Cardinality(D) < n
    <3>1. "last" # "more"
      OBVIOUS
    <3> QED
      BY Zenon, <3>1 DEF PageFill
  <2> QED
    BY Zenon, <1>1, <2>1, LastPage
<1>10. h.fill \in {"last", "more"}
  BY Zenon DEF PageFill
<1>11. "txid" # "wallet"
  OBVIOUS
<1> HIDE DEF top
<1> QED
  BY Zenon, <1>2, <1>7, <1>8, <1>9, <1>10, <1>11 DEF ChunkInv

\* The ends of a range are places of rows.
Bounded(W, f, a, b) ==
    /\ a \in Nat /\ b \in Nat /\ a <= b
    /\ a \in {f[r] : r \in Within(W, f, a, b)}
    /\ b \in {f[r] : r \in Within(W, f, a, b)}
    /\ Within(W, f, a, b) # {}
    /\ Min({f[r] : r \in Within(W, f, a, b)}) = a
    /\ Max({f[r] : r \in Within(W, f, a, b)}) = b

\* The first range of a plan is such a range.
LEMMA FirstRange ==
    ASSUME NEW W, NEW f \in [W -> Nat], NEW low \in Nat, NEW top \in Nat, NEW p, p # {}, Ranges(p, W, f, low, top)
    PROVE  Foremost(p) \in p /\ Bounded(W, f, Foremost(p)[1], Foremost(p)[2])
<1> DEFINE a == Foremost(p)[1]
           b == Foremost(p)[2]
           V == Within(W, f, a, b)
           S == {f[r] : r \in V}
<1>1. p \in SUBSET (Nat \X Nat)
  BY Zenon DEF Ranges
<1>2. Foremost(p) \in p
  BY Zenon, <1>1, ForemostIsFirst
<1>3. a \in Nat /\ b \in Nat
  BY <1>1, <1>2
<1>4. low <= a /\ a <= b /\ b <= top /\ (\E r \in W : f[r] = a) /\ (\E r \in W : f[r] = b)
  BY Zenon, <1>2 DEF Ranges
<1>5. a <= a /\ b <= b
  BY <1>3
<1>6. \A r : r \in V <=> r \in W /\ a <= f[r] /\ f[r] <= b
  BY Zenon DEF Within
<1> HIDE DEF a, b, V
<1>7. PICK r \in V : f[r] = a
  BY Zenon, <1>4, <1>5, <1>6
<1>8. PICK s \in V : f[s] = b
  BY Zenon, <1>4, <1>5, <1>6
<1>9. a \in S /\ b \in S /\ V # {}
  BY <1>7, <1>8
<1>10. ASSUME NEW y \in S PROVE y \in Nat /\ a <= y /\ y <= b
  <2>1. PICK u \in V : y = f[u]
    BY <1>10
  <2>2. u \in W /\ a <= f[u] /\ f[u] <= b
    BY Zenon, <1>6
  <2>3. f[u] \in Nat
    BY Zenon, <2>2
  <2> QED
    BY Zenon, <2>1, <2>2, <2>3
<1>11. S \in SUBSET Nat /\ S # {} /\ \A y \in S : y <= b
  BY Zenon, <1>9, <1>10
<1>12. Min(S) = a /\ Max(S) = b
  <2> HIDE DEF S
  <2>1. Min(S) \in S /\ \A y \in S : Min(S) <= y
    BY Zenon, <1>11, NatMin
  <2>2. Max(S) \in S /\ \A y \in S : y <= Max(S)
    BY Zenon, <1>3, <1>11, BoundedMax
  <2>3. Min(S) \in Nat /\ a <= Min(S) /\ Min(S) <= a /\ Max(S) \in Nat /\ Max(S) <= b /\ b <= Max(S)
    BY Zenon, <1>9, <1>10, <2>1, <2>2
  <2> HIDE DEF S
  <2> QED
    BY <1>3, <2>3
<1> QED
  BY Zenon, <1>2, <1>3, <1>4, <1>9, <1>12 DEF a, b, V, Bounded

\* The first chunk of a plan of public TXIDs is built, with its root.
LEMMA TxidChunkBuilt ==
    ASSUME NEW W, NEW f \in [W -> Nat], NEW c \in Nat, NEW p, NEW h, NEW list, IsASeq(list),
           PageInv("txid", list, c, h, W, f), ChunkInv("txid", list, c, p, h, W, f),
           NEW a, NEW b, a = Foremost(p)[1], b = Foremost(p)[2],
           NEW x, x.start = a, x.end = b, x.rows = {Ident(r) : r \in Within(W, f, a, b)},
           x.root = {Ident(r) : r \in Within(W, f, CheckpointStart(a, b), b)},
           NEW h2, h2.fill = h.fill, NEW cp
    PROVE  /\ SingleTree(a, b)
           /\ PageInv("txid", Append(list, x), b + 1, h2, W, f)
           /\ p \ {Foremost(p)} # {} => ChunkInv("txid", Append(list, x), b + 1, p \ {Foremost(p)}, h2, W, f)
           /\ p \ {Foremost(p)} = {} /\ h.fill = "last" => Finished("txid", Append(list, x), W, f, cp)
<1> DEFINE more == Append(list, x)
           rest == p \ {Foremost(p)}
<1>1. PICK top \in Nat : /\ Ranges(p, W, f, c, top)
                         /\ h.fill = "last" => \A r \in W : f[r] <= top
                         /\ \A y \in p : SingleTree(y[1], y[2])
  BY Zenon DEF ChunkInv
<1>2. p # {} /\ Lists(list, W, f, c) /\ Rooted(list, W, f) /\ h.fill \in {"last", "more"}
  BY Zenon DEF ChunkInv, PageInv
<1>3. Foremost(p) \in p
  BY Zenon, <1>1, <1>2, FirstRange
<1>4. SingleTree(a, b)
  BY Zenon, <1>1, <1>3
<1>5. b + 1 \in Nat /\ Lists(more, W, f, b + 1) /\ Ranges(rest, W, f, b + 1, top)
  <2>1. x.start = Foremost(p)[1] /\ x.end = Foremost(p)[2]
        /\ x.rows = {Ident(r) : r \in Within(W, f, Foremost(p)[1], Foremost(p)[2])}
    BY Zenon
  <2>2. /\ Foremost(p)[2] + 1 \in Nat
        /\ Lists(Append(list, x), W, f, Foremost(p)[2] + 1)
        /\ Ranges(p \ {Foremost(p)}, W, f, Foremost(p)[2] + 1, top)
    BY <1>1, <1>2, <2>1, ChunkAppended
  <2> QED
    BY Zenon, <2>2
<1>6. Rooted(more, W, f)
  <2>1. /\ Len(list) \in Nat
        /\ Len(more) = Len(list) + 1
        /\ \A i \in 1..Len(list) : more[i] = list[i]
        /\ more[Len(list) + 1] = x
    BY Appended
  <2> HIDE DEF more
  <2>2. ASSUME NEW i \in 1..Len(more)
        PROVE  /\ SingleTree(more[i].start, more[i].end)
               /\ more[i].root = {Ident(r) : r \in Within(W, f, CheckpointStart(more[i].start, more[i].end), more[i].end)}
    <3>1. CASE i \in 1..Len(list)
      BY Zenon, <1>2, <2>1, <3>1 DEF Rooted
    <3>2. CASE i = Len(list) + 1
      BY Zenon, <1>4, <2>1, <3>2
    <3>3. i \in 1..Len(list) \/ i = Len(list) + 1
      BY <2>1
    <3> QED
      BY Zenon, <3>1, <3>2, <3>3
  <2> QED
    BY Zenon, <2>2 DEF Rooted
<1> HIDE DEF more
<1>7. "txid" # "commitments" /\ "txid" # "wallet" /\ "txid" # "checkpoints"
  OBVIOUS
<1>8. PageInv("txid", more, b + 1, h2, W, f)
  BY Zenon, <1>5, <1>6, <1>7 DEF PageInv
<1>9. ASSUME rest # {} PROVE ChunkInv("txid", more, b + 1, rest, h2, W, f)
  <2>1. \A y \in rest : SingleTree(y[1], y[2])
    BY Zenon, <1>1
  <2> HIDE DEF rest
  <2> QED
    BY Zenon, <1>1, <1>2, <1>5, <1>7, <1>9, <2>1 DEF ChunkInv
<1>10. ASSUME rest = {}, h.fill = "last" PROVE Finished("txid", more, W, f, cp)
  <2>1. \A r \in W : f[r] < b + 1
    BY Zenon, <1>1, <1>5, <1>10, PageListed
  <2>2. ListsAll(more, W, f)
    BY Zenon, <1>5, <2>1 DEF ListsAll
  <2> QED
    BY Zenon, <1>6, <1>7, <2>2 DEF Finished
<1> QED
  BY Zenon, <1>4, <1>8, <1>9, <1>10 DEF more

-----------------------------------------------------------------------------
(* The steps of a cycle that nothing disturbs. *)

CycleOK ==
    /\ datasets \in Seq(Dataset)
    /\ datasets # <<>>
    /\ \A m, n \in 1..Len(datasets) : datasets[m] = datasets[n] => m = n
    /\ turn \in 1..Len(datasets)
    /\ cpc \in Working \cup {"height", "validate", "done", "failed"}
    /\ DOMAIN held = {"fill", "found", "last", "items"}
    /\ DOMAIN chunks = Dataset
    /\ \A d \in Dataset : IsASeq(chunks[d])
    /\ \A d \in Dataset : (\A m \in 1..Len(datasets) : datasets[m] # d) => chunks[d] = <<>>

Readable == GoodRows(rows) /\ IsFiniteSet(rows) /\ HeightInv

AtWorkOn(d) == AtWork(cpc, d, chunks[d], cursor, plan, held, RowsOf(d), Place(d), Checks)

FinishedWith(d) == Finished(d, chunks[d], RowsOf(d), Place(d), Checks)

\* What a cycle may fail for.
Excuse(error) ==
    \/ error = "MissingBlockTimestamp" /\ \E r \in RowsOf("wallet") : r.time = NoTime
    \/ error = "omission" /\ ~validate_public_txid_compatibility_omissions
    \/ /\ error \in {"NonIncreasingGlobalPosition", "DuplicateCommitmentTreePosition"}
       /\ PositionTaken(heights[datasets[turn]].block)

\* A step goes on with its dataset, finishes it or fails for a reason.
Outcome(d) ==
    \/ /\ cpc' \in Working
       /\ turn' = turn
       /\ AtWork(cpc', d, chunks'[d], cursor', plan', held', RowsOf(d), Place(d), Checks)
    \/ FinishDataset /\ Finished(d, chunks'[d], RowsOf(d), Place(d), Checks)
    \/ cpc' = "failed" /\ turn' = turn /\ Excuse(failure')

\* The public TXIDs, as they are read.
LEMMA TxidData ==
    ASSUME Readable
    PROVE  /\ IsFiniteSet(RowsOf("txid")) /\ Place("txid") \in [RowsOf("txid") -> Nat]
           /\ Dense(RowsOf("txid"), Place("txid"))
<1>1. "txid" \in Dataset
  BY DEF Dataset
<1> QED
  BY Zenon, <1>1, RowsAndPlaces, TxidPlaces DEF Readable

\* The catalog of public TXIDs begins.
LEMMA StartTxidStep ==
    ASSUME Readable, CycleOK, AtWorkOn("txid"), StartTxid
    PROVE  Outcome("txid")
<1> DEFINE W == RowsOf("txid")
           f == Place("txid")
<1>1. CASE validate_public_txid_compatibility_omissions
  <2>1. cpc' = "page" /\ cursor' = 0 /\ turn' = turn /\ chunks' = chunks /\ cpc = "start"
    BY Zenon, <1>1 DEF StartTxid, Go, Starts, At
  <2>2. chunks["txid"] = <<>>
    BY Zenon, <2>1 DEF AtWorkOn, AtWork
  <2>3. f \in [W -> Nat]
    BY Zenon, TxidData
  <2> HIDE DEF W, f
  <2>4. Lists(<<>>, W, f, 0)
    <3>1. \A r \in W : 0 <= f[r]
      BY <2>3
    <3>2. 0 \in Nat
      OBVIOUS
    <3> QED
      BY Zenon, <2>3, <3>1, <3>2, NothingListedYet
  <2>5. Rooted(<<>>, W, f)
    BY DEF Rooted
  <2>6. PageInv("txid", <<>>, 0, held', W, f)
    BY <2>4, <2>5 DEF PageInv
  <2>7. AtWork("page", "txid", <<>>, 0, plan', held', W, f, Checks)
    BY <2>6 DEF AtWork
  <2> QED
    BY Zenon, <2>1, <2>2, <2>7 DEF W, f, Outcome, Working
<1>2. CASE ~validate_public_txid_compatibility_omissions
  BY Zenon, <1>2 DEF StartTxid, Fail, Outcome, Excuse
<1> QED
  BY Zenon, <1>1, <1>2

\* A page of public TXIDs.
LEMMA TxidPageStep ==
    ASSUME Readable, CycleOK, AtWorkOn("txid"), TxidPage
    PROVE  Outcome("txid")
<1> DEFINE W == RowsOf("txid")
           f == Place("txid")
           list == chunks["txid"]
           limit == public_txid_chunk_row_limit(cursor)
           page == txid_rows(cursor, limit)
<1>1. cpc = "page" /\ chunks' = chunks
  BY Zenon DEF TxidPage, At
<1>2. PageInv("txid", list, cursor, held, W, f)
  BY Zenon, <1>1 DEF AtWorkOn, AtWork
<1>3. cursor \in Nat /\ Lists(list, W, f, cursor) /\ Rooted(list, W, f)
  BY Zenon, <1>2 DEF PageInv
<1>4. IsFiniteSet(W) /\ f \in [W -> Nat] /\ Dense(W, f)
  BY Zenon, TxidData
<1>5. limit \in Nat \ {0} /\ SingleTree(cursor, cursor + limit - 1)
  BY Zenon, <1>3, PageInTree
<1>6. page = Indexed(W, f, cursor, cursor + limit - 1)
  <2>1. limit \in Int
    BY <1>5
  <2> HIDE DEF limit
  <2> QED
    BY Zenon, <1>3, <2>1, TxidRead DEF Readable
<1>7. \/ page = {} /\ FinishDataset
      \/ /\ page # {}
         /\ \E p \in plan_chunks({<<x.index, x.index>> : x \in page}) :
               Go("chunk", cursor, p, [NoneHeld EXCEPT !.fill = PageFill(Cardinality(page), limit)])
  BY Zenon DEF TxidPage
<1> HIDE DEF W, f, list, page, limit
<1>8. CASE page = {} /\ FinishDataset
  <2> DEFINE b == cursor + limit - 1
  <2>1. b \in Int /\ cursor <= b
    BY <1>3, <1>5
  <2>2. Within(W, f, cursor, b) = {}
    BY <1>4, <1>6, <1>8, IndexedRows
  <2> HIDE DEF b
  <2>3. \A r \in W : f[r] < cursor
    BY Zenon, <1>3, <1>4, <2>1, <2>2, EmptyPage
  <2>4. Finished("txid", list, W, f, Checks)
    <3>1. "txid" # "checkpoints"
      OBVIOUS
    <3> QED
      BY Zenon, <1>3, <2>3, <3>1 DEF Finished, ListsAll
  <2> QED
    BY Zenon, <1>1, <1>8, <2>4 DEF Outcome, list, W, f
<1>9. ASSUME page # {}, NEW p \in plan_chunks({<<x.index, x.index>> : x \in page}),
             Go("chunk", cursor, p, [NoneHeld EXCEPT !.fill = PageFill(Cardinality(page), limit)])
      PROVE  Outcome("txid")
  <2>1. cpc' = "chunk" /\ cursor' = cursor /\ plan' = p /\ turn' = turn
        /\ held' = [NoneHeld EXCEPT !.fill = PageFill(Cardinality(page), limit)]
    BY Zenon, <1>9 DEF Go
  <2>2. held'.fill = PageFill(Cardinality(page), limit)
    BY <2>1 DEF NoneHeld
  <2>3. ChunkInv("txid", list, cursor, p, held', W, f)
    <3>1. limit = public_txid_chunk_row_limit(cursor)
      BY Zenon DEF limit
    <3> QED
      BY <1>3, <1>4, <1>6, <1>9, <2>2, <3>1, TxidPagePlanned
  <2>4. PageInv("txid", list, cursor, held', W, f)
    BY <1>3 DEF PageInv
  <2>5. AtWork("chunk", "txid", list, cursor, p, held', W, f, Checks)
    BY <2>3, <2>4 DEF AtWork
  <2> QED
    BY Zenon, <1>1, <2>1, <2>5 DEF Outcome, Working, list, W, f
<1> QED
  BY Zenon, <1>7, <1>8, <1>9

\* What the plan of a page tells of its first chunk.
LEMMA TxidPlan ==
    ASSUME Readable, AtWorkOn("txid"), cpc \in {"chunk", "root"}
    PROVE  LET W == RowsOf("txid")
               f == Place("txid")
           IN  /\ PageInv("txid", chunks["txid"], cursor, held, W, f)
               /\ ChunkInv("txid", chunks["txid"], cursor, plan, held, W, f)
               /\ Bounded(W, f, Foremost(plan)[1], Foremost(plan)[2])
<1> DEFINE W == RowsOf("txid")
           f == Place("txid")
           list == chunks["txid"]
<1>1. PageInv("txid", list, cursor, held, W, f) /\ ChunkInv("txid", list, cursor, plan, held, W, f)
  BY Zenon DEF AtWorkOn, AtWork
<1>2. f \in [W -> Nat]
  BY Zenon, TxidData
<1> HIDE DEF W, f, list
<1>3. PICK top \in Nat : Ranges(plan, W, f, cursor, top)
  BY Zenon, <1>1 DEF ChunkInv
<1>4. plan # {} /\ cursor \in Nat
  BY Zenon, <1>1 DEF ChunkInv, PageInv
<1>5. Bounded(W, f, Foremost(plan)[1], Foremost(plan)[2])
  BY Zenon, <1>2, <1>3, <1>4, FirstRange
<1> QED
  BY Zenon, <1>1, <1>5 DEF W, f, list

\* The rows of a chunk of public TXIDs are read.
LEMMA TxidChunkStep ==
    ASSUME Readable, CycleOK, AtWorkOn("txid"), TxidChunk
    PROVE  Outcome("txid")
<1> DEFINE W == RowsOf("txid")
           f == Place("txid")
           list == chunks["txid"]
           a == Foremost(plan)[1]
           b == Foremost(plan)[2]
           found == txid_rows(a, b - a + 1)
<1>1. cpc = "chunk"
  BY Zenon DEF TxidChunk, At
<1>2. /\ PageInv("txid", list, cursor, held, W, f) /\ ChunkInv("txid", list, cursor, plan, held, W, f)
      /\ a \in Nat /\ b \in Nat /\ a <= b
      /\ Within(W, f, a, b) # {}
  BY Zenon, <1>1, TxidPlan DEF Bounded
<1>3. f \in [W -> Nat]
  BY Zenon, TxidData
<1>4. IF found = {} THEN Fail("EmptyChunk")
      ELSE Go("root", cursor, plan, [held EXCEPT !.found = found]) /\ UNCHANGED chunks
  BY Zenon DEF TxidChunk
<1>5. found = Indexed(W, f, a, b)
  <2> HIDE DEF a, b
  <2>1. b - a + 1 \in Int /\ a + (b - a + 1) - 1 = b
    BY <1>2
  <2>2. found = Indexed(W, f, a, a + (b - a + 1) - 1)
    BY Zenon, <1>2, <2>1, TxidRead DEF Readable
  <2> QED
    BY Zenon, <2>1, <2>2
<1> HIDE DEF W, f, list, found, a, b
<1>6. found # {}
  BY <1>2, <1>3, <1>5, IndexedRows
<1>7. cpc' = "root" /\ cursor' = cursor /\ plan' = plan /\ turn' = turn /\ chunks' = chunks
      /\ held' = [held EXCEPT !.found = found]
  BY Zenon, <1>4, <1>6 DEF Go
<1>8. held'.found = found /\ held'.fill = held.fill
  <2>1. DOMAIN held = {"fill", "found", "last", "items"}
    BY Zenon DEF CycleOK
  <2> QED
    BY <1>7, <2>1
<1>9. PageInv("txid", list, cursor, held', W, f)
  BY <1>2 DEF PageInv
<1>10. ChunkInv("txid", list, cursor, plan, held', W, f)
  BY Zenon, <1>2, <1>8 DEF ChunkInv
<1>11. AtWork("root", "txid", list, cursor, plan, held', W, f, Checks)
  BY <1>5, <1>8, <1>9, <1>10 DEF AtWork, a, b
<1> QED
  BY Zenon, <1>7, <1>11 DEF Outcome, Working, list, W, f

\* The chunk gets its root and is listed.
LEMMA TxidRootStep ==
    ASSUME Readable, CycleOK, AtWorkOn("txid"), TxidRoot
    PROVE  Outcome("txid")
<1> DEFINE W == RowsOf("txid")
           f == Place("txid")
           list == chunks["txid"]
           a == Foremost(plan)[1]
           b == Foremost(plan)[2]
           start == Min({x.index : x \in held.found})
           end == Max({x.index : x \in held.found})
           tree == CheckpointStart(start, end)
           leaves == txid_rows(tree, end - tree + 1)
           rest == plan \ {Foremost(plan)}
           chunk == Chunk(start, end, {x.row : x \in held.found}, {Ident(x.row) : x \in leaves})
<1>1. cpc = "root"
  BY Zenon DEF TxidRoot, At
<1>2. /\ PageInv("txid", list, cursor, held, W, f) /\ ChunkInv("txid", list, cursor, plan, held, W, f)
      /\ a \in Nat /\ b \in Nat /\ a <= b
      /\ b \in {f[r] : r \in Within(W, f, a, b)}
      /\ Min({f[r] : r \in Within(W, f, a, b)}) = a
      /\ Max({f[r] : r \in Within(W, f, a, b)}) = b
  BY Zenon, <1>1, TxidPlan DEF Bounded
<1>3. held.found = Indexed(W, f, a, b)
  BY Zenon, <1>1 DEF AtWorkOn, AtWork
<1>4. f \in [W -> Nat]
  BY Zenon, TxidData
<1>5. IF leaves = {} THEN Fail("EmptyChunk")
      ELSE IF ~SingleTree(start, end) THEN Fail("CrossesTxidTreeBoundary")
      ELSE /\ Push("txid", chunk)
           /\ IF rest # {} THEN Go("chunk", end + 1, rest, [held EXCEPT !.found = {}])
              ELSE IF held.fill = "more" THEN Go("page", end + 1, {}, NoneHeld)
              ELSE FinishDataset
  BY Zenon DEF TxidRoot
<1>6. start = a /\ end = b /\ {x.row : x \in held.found} = Within(W, f, a, b)
  <2> HIDE DEF W, f, a, b
  <2>1. {x.index : x \in held.found} = {f[r] : r \in Within(W, f, a, b)}
        /\ {x.row : x \in held.found} = Within(W, f, a, b)
    <3>1. {x.index : x \in Indexed(W, f, a, b)} = {f[r] : r \in Within(W, f, a, b)}
          /\ {x.row : x \in Indexed(W, f, a, b)} = Within(W, f, a, b)
      BY Zenon, <1>4, IndexedRows
    <3> QED
      BY Zenon, <1>3, <3>1
  <2> QED
    BY Zenon, <1>2, <2>1
<1> HIDE DEF W, f, list, a, b, start, end, leaves
<1>7. tree \in Nat /\ tree <= b
  <2>1. tree = (b \div TREE_LEAF_COUNT) * TREE_LEAF_COUNT
    BY Zenon, <1>6 DEF CheckpointStart
  <2> QED
    BY Zenon, <1>2, <2>1, TreeBounds
<1>8. leaves = Indexed(W, f, tree, b)
  <2> HIDE DEF tree
  <2>1. b - tree + 1 \in Int /\ tree + (b - tree + 1) - 1 = b
    BY <1>2, <1>7
  <2>2. txid_rows(tree, b - tree + 1) = Indexed(W, f, tree, tree + (b - tree + 1) - 1)
    BY Zenon, <1>7, <2>1, TxidRead DEF Readable, W, f
  <2> QED
    BY Zenon, <1>6, <2>1, <2>2 DEF leaves, tree
<1>9. leaves # {} /\ {Ident(x.row) : x \in leaves} = {Ident(r) : r \in Within(W, f, tree, b)}
  <2> HIDE DEF tree
  <2>1. PICK r \in Within(W, f, a, b) : f[r] = b
    BY <1>2
  <2>2. b <= b
    BY <1>2
  <2>3. r \in Within(W, f, tree, b)
    BY Zenon, <1>7, <2>1, <2>2 DEF Within
  <2> QED
    BY <1>4, <1>8, <2>3, IndexedRows
<1>10. /\ chunk.start = a /\ chunk.end = b
       /\ chunk.rows = {Ident(r) : r \in Within(W, f, a, b)}
       /\ chunk.root = {Ident(r) : r \in Within(W, f, CheckpointStart(a, b), b)}
  <2>1. chunk = [start |-> a, end |-> b, rows |-> {Ident(r) : r \in Within(W, f, a, b)},
                 root |-> {Ident(r) : r \in Within(W, f, tree, b)}]
    BY Zenon, <1>6, <1>9 DEF Chunk
  <2>2. tree = CheckpointStart(a, b)
    BY Zenon, <1>6
  <2> HIDE DEF chunk, tree
  <2> QED
    BY Zenon, <2>1, <2>2
<1>11. IsASeq(list) /\ "txid" \in DOMAIN chunks
  BY DEF CycleOK, Dataset, list
<1>12. cursor \in Nat
  BY Zenon, <1>2 DEF PageInv
<1> HIDE DEF chunk, tree
<1>13. ASSUME NEW h2, h2.fill = held.fill
       PROVE  /\ SingleTree(a, b)
              /\ PageInv("txid", Append(list, chunk), b + 1, h2, W, f)
              /\ rest # {} => ChunkInv("txid", Append(list, chunk), b + 1, rest, h2, W, f)
              /\ rest = {} /\ held.fill = "last" => Finished("txid", Append(list, chunk), W, f, Checks)
  <2>1. a = Foremost(plan)[1] /\ b = Foremost(plan)[2]
    BY Zenon DEF a, b
  <2> QED
    BY ZenonT(40), <1>2, <1>4, <1>10, <1>11, <1>12, <1>13, <2>1, TxidChunkBuilt
<1>14. SingleTree(start, end)
  BY Zenon, <1>6, <1>13
<1>15. chunks' = [chunks EXCEPT !["txid"] = Append(@, chunk)]
  BY Zenon, <1>5, <1>9, <1>14 DEF Push
<1>16. chunks'["txid"] = Append(list, chunk)
  BY <1>11, <1>15 DEF list
<1> DEFINE more == Append(list, chunk)
<1>17. IF rest # {} THEN Go("chunk", b + 1, rest, [held EXCEPT !.found = {}])
       ELSE IF held.fill = "more" THEN Go("page", b + 1, {}, NoneHeld)
       ELSE FinishDataset
  BY Zenon, <1>5, <1>6, <1>9, <1>14
<1> HIDE DEF more, rest
<1>18. CASE rest # {}
  <2>1. cpc' = "chunk" /\ cursor' = b + 1 /\ plan' = rest /\ turn' = turn /\ held' = [held EXCEPT !.found = {}]
    BY Zenon, <1>17, <1>18 DEF Go
  <2>2. held'.fill = held.fill
    <3>1. DOMAIN held = {"fill", "found", "last", "items"}
      BY Zenon DEF CycleOK
    <3> QED
      BY <2>1, <3>1
  <2>3. PageInv("txid", more, b + 1, held', W, f) /\ ChunkInv("txid", more, b + 1, rest, held', W, f)
    BY Zenon, <1>13, <1>18, <2>2 DEF more
  <2>4. AtWork("chunk", "txid", more, b + 1, rest, held', W, f, Checks)
    BY <2>3 DEF AtWork
  <2> QED
    BY Zenon, <1>16, <2>1, <2>4 DEF Outcome, Working, W, f, more
<1>19. CASE rest = {} /\ held.fill = "more"
  <2>1. cpc' = "page" /\ cursor' = b + 1 /\ turn' = turn /\ held' = NoneHeld
    BY Zenon, <1>17, <1>19 DEF Go
  <2>2. PageInv("txid", more, b + 1, held, W, f)
    BY Zenon, <1>13 DEF more
  <2>3. PageInv("txid", more, b + 1, held', W, f)
    BY <2>2 DEF PageInv
  <2>4. AtWork("page", "txid", more, b + 1, plan', held', W, f, Checks)
    BY <2>3 DEF AtWork
  <2> QED
    BY Zenon, <1>16, <2>1, <2>4 DEF Outcome, Working, W, f, more
<1>20. CASE rest = {} /\ held.fill # "more"
  <2>1. FinishDataset
    BY Zenon, <1>17, <1>20
  <2>2. held.fill = "last"
    BY Zenon, <1>2, <1>20 DEF ChunkInv
  <2>3. Finished("txid", more, W, f, Checks)
    BY Zenon, <1>13, <1>20, <2>2 DEF more
  <2> QED
    BY Zenon, <1>16, <2>1, <2>3 DEF Outcome, W, f, more
<1> QED
  BY Zenon, <1>18, <1>19, <1>20

-----------------------------------------------------------------------------
(* Wallet scans. *)

\* The rows of the wallet scans, as they are read.
LEMMA WalletData ==
    ASSUME Readable
    PROVE  LET W == RowsOf("wallet")
               f == Place("wallet")
           IN  /\ IsFiniteSet(W) /\ f \in [W -> Nat]
               /\ \A r \in W : f[r] = r.block
               /\ \A r \in W : 1 <= f[r] /\ f[r] <= MaxBlock
               /\ \A a, b \in Nat : (\E r \in W : f[r] = a) /\ (\E r \in W : f[r] = b)
                      => wallet_scan_rows(rows, a, b) = Within(W, f, a, b)
<1> DEFINE W == RowsOf("wallet")
           f == Place("wallet")
           h == heights["wallet"].block
<1>1. "wallet" \in Dataset /\ "wallet" # "txid"
  BY DEF Dataset
<1>2. IsFiniteSet(W) /\ f \in [W -> Nat]
  BY Zenon, <1>1, RowsAndPlaces DEF Readable
<1>3. \A r \in W : f[r] = r.block
  BY Zenon, <1>1 DEF Place
<1>4. W = wallet_scan_rows(rows, 1, h)
  BY DEF RowsOf, WantedRows
<1>5. \A r : r \in W <=> r \in rows /\ InWalletScan(r) /\ r.block \in 1..h
  BY Zenon, <1>4 DEF wallet_scan_rows
<1>6. h \in Nat
  BY Zenon, <1>1, HeightIsNat DEF Readable
<1> HIDE DEF W, f, h
<1>7. ASSUME NEW r \in W PROVE 1 <= f[r] /\ f[r] <= MaxBlock
  <2>1. r.block \in Block
    BY Zenon, <1>5 DEF Readable, GoodRows
  <2>2. 1 <= r.block /\ r.block <= MaxBlock
    BY <2>1, BlocksAssumption DEF Block
  <2> QED
    BY Zenon, <1>3, <2>2
<1>8. ASSUME NEW a \in Nat, NEW b \in Nat, \E r \in W : f[r] = a, \E r \in W : f[r] = b
      PROVE  wallet_scan_rows(rows, a, b) = Within(W, f, a, b)
  <2>1. a \in 1..h /\ b \in 1..h
    BY Zenon, <1>3, <1>5, <1>8
  <2>2. \A r : r \in wallet_scan_rows(rows, a, b) <=> r \in rows /\ InWalletScan(r) /\ r.block \in a..b
    BY Zenon DEF wallet_scan_rows
  <2>3. \A r : r \in Within(W, f, a, b) <=> r \in W /\ a <= f[r] /\ f[r] <= b
    BY Zenon DEF Within
  <2>4. ASSUME NEW r \in rows PROVE r.block \in a..b <=> r.block \in 1..h /\ a <= r.block /\ r.block <= b
    <3>1. r.block \in Block
      BY Zenon DEF Readable, GoodRows
    <3>2. r.block \in Int
      BY <3>1 DEF Block
    <3> QED
      BY <1>6, <2>1, <3>2
  <2>5. \A r : r \in wallet_scan_rows(rows, a, b) <=> r \in Within(W, f, a, b)
    BY Zenon, <1>3, <1>5, <2>2, <2>3, <2>4
  <2> QED
    BY Zenon, <2>5
<1> QED
  BY Zenon, <1>2, <1>3, <1>7, <1>8 DEF W, f

\* The ranges of the first read hold every row.
LEMMA WalletRanges ==
    ASSUME Readable
    PROVE  Ranges(wallet_scan_populated_block_ranges, RowsOf("wallet"), Place("wallet"), 0, MaxBlock)
<1> DEFINE W == RowsOf("wallet")
           f == Place("wallet")
           blocks == {r.block : r \in wallet_scan_rows(rows, 1, heights["wallet"].block)}
           q(b) == (b - 1) \div PlanningBlockSpan
           span(b) == {c \in blocks : q(c) = q(b)}
           S == {<<Min(span(b)), Max(span(b))>> : b \in blocks}
<1>1. f \in [W -> Nat] /\ (\A r \in W : f[r] = r.block) /\ \A r \in W : 1 <= f[r] /\ f[r] <= MaxBlock
  BY Zenon, WalletData
<1>2. W = wallet_scan_rows(rows, 1, heights["wallet"].block)
  BY DEF RowsOf, WantedRows
<1>3. wallet_scan_populated_block_ranges = S
  BY Zenon DEF wallet_scan_populated_block_ranges
<1>4. PlanningBlockSpan \in Nat \ {0}
  BY Zenon, CatalogAssumption
<1> HIDE DEF W, f
<1>5. \A b : b \in blocks <=> \E r \in W : f[r] = b
  BY <1>1, <1>2
<1>6. \A b \in blocks : b \in Nat /\ 1 <= b /\ b <= MaxBlock
  BY Zenon, <1>1, <1>5
<1> HIDE DEF blocks
<1>7. ASSUME NEW b \in blocks
      PROVE  /\ Min(span(b)) \in span(b) /\ Max(span(b)) \in span(b)
             /\ \A c \in span(b) : Min(span(b)) <= c /\ c <= Max(span(b))
  <2>1. b \in span(b)
    BY Zenon
  <2>2. span(b) \in SUBSET Nat /\ \A c \in span(b) : c <= MaxBlock
    BY Zenon, <1>6
  <2>3. MaxBlock \in Nat
    BY Zenon, BlocksAssumption
  <2>4. span(b) # {}
    BY Zenon, <2>1
  <2> HIDE DEF span
  <2>5. Min(span(b)) \in span(b) /\ \A c \in span(b) : Min(span(b)) <= c
    BY Zenon, <2>2, <2>4, NatMin
  <2>6. Max(span(b)) \in span(b) /\ \A c \in span(b) : c <= Max(span(b))
    BY Zenon, <2>2, <2>3, <2>4, BoundedMax
  <2> QED
    BY Zenon, <2>5, <2>6
<1>8. \A b \in blocks : \A c : c \in span(b) => c \in blocks /\ q(c) = q(b)
  BY Zenon
<1>9. \A b, c \in blocks : q(b) = q(c) => span(b) = span(c)
  BY Zenon
<1>10. \A b \in blocks : b \in span(b)
  BY Zenon
<1>11. ASSUME NEW b \in blocks, NEW c \in blocks, q(b) < q(c) PROVE b < c
  <2>1. b \in Nat /\ c \in Nat /\ 1 <= b /\ 1 <= c
    BY Zenon, <1>6
  <2>2. q(b) < q(c)
    BY Zenon, <1>11
  <2> SUFFICES ASSUME ~(b < c) PROVE FALSE
    BY Zenon
  <2> QED
    BY <1>4, <2>1, <2>2
<1>12. \A b \in blocks : q(b) \in Int
  BY <1>4, <1>6
<1> HIDE DEF q, span
<1> DEFINE lo == [b \in blocks |-> Min(span(b))]
           hi == [b \in blocks |-> Max(span(b))]
<1>13. ASSUME NEW b \in blocks
       PROVE  /\ lo[b] \in blocks /\ hi[b] \in blocks /\ lo[b] <= b /\ b <= hi[b] /\ lo[b] <= hi[b]
              /\ q(lo[b]) = q(b) /\ q(hi[b]) = q(b)
  BY Zenon, <1>7, <1>8, <1>10
<1>14. S = {<<lo[b], hi[b]>> : b \in blocks}
  BY Zenon
<1>15. \A b, c \in blocks : q(b) = q(c) => lo[b] = lo[c] /\ hi[b] = hi[c]
  BY Zenon, <1>9
<1> HIDE DEF S, lo, hi
<1>16. \A x \in S : \E b \in blocks : x = <<lo[b], hi[b]>>
  BY <1>14
<1>17. S \in SUBSET (Nat \X Nat)
  <2>1. ASSUME NEW x \in S PROVE x \in Nat \X Nat
    <3>1. PICK b \in blocks : x = <<lo[b], hi[b]>>
      BY Zenon, <1>16
    <3>2. lo[b] \in Nat /\ hi[b] \in Nat
      BY Zenon, <1>6, <1>13
    <3> QED
      BY Zenon, <3>1, <3>2
  <2> QED
    BY Zenon, <2>1
<1>18. ASSUME NEW x \in S
       PROVE  0 <= x[1] /\ x[1] <= x[2] /\ x[2] <= MaxBlock /\ (\E r \in W : f[r] = x[1]) /\ (\E r \in W : f[r] = x[2])
  <2>1. PICK b \in blocks : x = <<lo[b], hi[b]>>
    BY Zenon, <1>16
  <2>2. x[1] = lo[b] /\ x[2] = hi[b]
    BY <2>1
  <2>3. lo[b] \in blocks /\ hi[b] \in blocks /\ lo[b] <= hi[b]
    BY Zenon, <1>13
  <2>4. lo[b] \in Nat /\ hi[b] \in Nat /\ hi[b] <= MaxBlock
    BY Zenon, <1>6, <2>3
  <2>5. 0 <= lo[b]
    BY <2>4
  <2> QED
    BY Zenon, <1>5, <2>2, <2>3, <2>4, <2>5
<1>19. ASSUME NEW x \in S, NEW y \in S PROVE x = y \/ x[2] < y[1] \/ y[2] < x[1]
  <2>1. PICK b \in blocks : x = <<lo[b], hi[b]>>
    BY Zenon, <1>16
  <2>2. PICK c \in blocks : y = <<lo[c], hi[c]>>
    BY Zenon, <1>16
  <2>3. x[1] = lo[b] /\ x[2] = hi[b] /\ y[1] = lo[c] /\ y[2] = hi[c]
    BY <2>1, <2>2
  <2>4. q(b) = q(c) \/ q(b) < q(c) \/ q(c) < q(b)
    BY <1>12
  <2>5. CASE q(b) = q(c)
    BY Zenon, <1>15, <2>1, <2>2, <2>5
  <2>6. CASE q(b) < q(c)
    <3>1. q(hi[b]) < q(lo[c]) /\ hi[b] \in blocks /\ lo[c] \in blocks
      BY Zenon, <1>13, <2>6
    <3> QED
      BY Zenon, <1>11, <2>3, <3>1
  <2>7. CASE q(c) < q(b)
    <3>1. q(hi[c]) < q(lo[b]) /\ hi[c] \in blocks /\ lo[b] \in blocks
      BY Zenon, <1>13, <2>7
    <3> QED
      BY Zenon, <1>11, <2>3, <3>1
  <2> QED
    BY Zenon, <2>4, <2>5, <2>6, <2>7
<1>20. ASSUME NEW r \in Within(W, f, 0, MaxBlock) PROVE \E x \in S : InRange(x, f[r])
  <2>1. f[r] \in blocks
    BY Zenon, <1>5 DEF Within
  <2> DEFINE b == f[r]
             x == <<lo[b], hi[b]>>
  <2>2. x \in S
    BY <1>14, <2>1
  <2>3. lo[b] <= b /\ b <= hi[b]
    BY Zenon, <1>13, <2>1
  <2>4. x[1] = lo[b] /\ x[2] = hi[b]
    OBVIOUS
  <2> HIDE DEF x
  <2> QED
    BY Zenon, <2>2, <2>3, <2>4 DEF InRange
<1>21. Ranges(S, W, f, 0, MaxBlock)
  BY Zenon, <1>17, <1>18, <1>19, <1>20 DEF Ranges
<1> QED
  BY Zenon, <1>3, <1>21 DEF W, f

\* The catalog of wallet scans begins.
LEMMA StartWalletStep ==
    ASSUME Readable, CycleOK, AtWorkOn("wallet"), StartWallet
    PROVE  Outcome("wallet")
<1> DEFINE W == RowsOf("wallet")
           f == Place("wallet")
           S == wallet_scan_populated_block_ranges
<1>1. cpc = "start" /\ cpc' = "plan" /\ plan' = S /\ held' = NoneHeld /\ turn' = turn /\ chunks' = chunks
  BY Zenon DEF StartWallet, Go, Starts, At
<1>2. chunks["wallet"] = <<>>
  BY Zenon, <1>1 DEF AtWorkOn, AtWork
<1>3. Ranges(S, W, f, 0, MaxBlock)
  BY Zenon, WalletRanges
<1>4. plan' \cup held'.items = S
  <2>1. held'.items = {}
    BY <1>1 DEF NoneHeld
  <2> QED
    BY Zenon, <1>1, <2>1
<1> HIDE DEF W, f, S
<1>5. AtWork("plan", "wallet", <<>>, cursor', plan', held', W, f, Checks)
  <2>1. Ranges(plan' \cup held'.items, W, f, 0, MaxBlock)
    BY Zenon, <1>3, <1>4
  <2> QED
    BY <2>1 DEF AtWork
<1> QED
  BY Zenon, <1>1, <1>2, <1>5 DEF Outcome, Working, W, f

\* The first range of what is planned, and its rows.
LEMMA WalletFirst ==
    ASSUME Readable, NEW p, p # {}, NEW S, p \in SUBSET S, NEW low \in Nat, NEW top \in Nat,
           Ranges(S, RowsOf("wallet"), Place("wallet"), low, top)
    PROVE  /\ Foremost(p) \in p
           /\ wallet_scan_rows(rows, Foremost(p)[1], Foremost(p)[2])
                = Within(RowsOf("wallet"), Place("wallet"), Foremost(p)[1], Foremost(p)[2])
           /\ wallet_scan_rows(rows, Foremost(p)[1], Foremost(p)[2]) # {}
           /\ Undated(wallet_scan_rows(rows, Foremost(p)[1], Foremost(p)[2]))
                => \E r \in RowsOf("wallet") : r.time = NoTime
<1> DEFINE W == RowsOf("wallet")
           f == Place("wallet")
           x == Foremost(p)
           found == wallet_scan_rows(rows, x[1], x[2])
<1>1. p \in SUBSET (Nat \X Nat)
  BY Zenon DEF Ranges
<1>2. x \in p /\ x \in S
  BY Zenon, <1>1, ForemostIsFirst
<1>3. x[1] \in Nat /\ x[2] \in Nat
  <2>1. x \in Nat \X Nat
    BY Zenon, <1>1, <1>2
  <2> HIDE DEF x
  <2> QED
    BY <2>1
<1>4. x[1] <= x[2] /\ (\E r \in W : f[r] = x[1]) /\ (\E r \in W : f[r] = x[2])
  BY Zenon, <1>2 DEF Ranges
<1>5. found = Within(W, f, x[1], x[2])
  BY Zenon, <1>3, <1>4, WalletData
<1> HIDE DEF W, f, x, found
<1>6. PICK r \in W : f[r] = x[1]
  BY Zenon, <1>4
<1>7. x[1] <= x[1]
  BY <1>3
<1>8. r \in found
  BY Zenon, <1>4, <1>5, <1>6, <1>7 DEF Within
<1>9. Undated(found) => \E s \in W : s.time = NoTime
  BY Zenon, <1>5 DEF Undated, Within
<1> QED
  BY Zenon, <1>2, <1>5, <1>8, <1>9 DEF W, f, x, found

\* A range is read, and in the end the chunks are planned.
LEMMA WalletPlanStep ==
    ASSUME Readable, CycleOK, AtWorkOn("wallet"), WalletPlan
    PROVE  Outcome("wallet")
<1> DEFINE W == RowsOf("wallet")
           f == Place("wallet")
           range == Foremost(plan)
           found == wallet_scan_rows(rows, range[1], range[2])
           items == held.items \cup IF found = {} THEN {} ELSE {range}
<1>1. cpc = "plan"
  BY Zenon DEF WalletPlan, At
<1>2. chunks["wallet"] = <<>> /\ Ranges(plan \cup held.items, W, f, 0, MaxBlock)
  BY Zenon, <1>1 DEF AtWorkOn, AtWork
<1>3. f \in [W -> Nat] /\ \A r \in W : 1 <= f[r] /\ f[r] <= MaxBlock
  BY Zenon, WalletData
<1>4. 0 \in Nat /\ MaxBlock \in Nat
  BY BlocksAssumption
<1>5. \/ /\ plan # {}
         /\ IF Undated(found) THEN Fail("MissingBlockTimestamp")
            ELSE Go("plan", 0, plan \ {range}, [held EXCEPT !.items = items]) /\ UNCHANGED chunks
      \/ plan = {} /\ held.items = {} /\ FinishDataset /\ UNCHANGED chunks
      \/ /\ plan = {} /\ held.items # {}
         /\ \E p \in plan_chunks(held.items) : Go("chunk", 0, p, NoneHeld)
         /\ UNCHANGED chunks
  BY Zenon DEF WalletPlan
<1>6. ASSUME plan # {} PROVE range \in plan /\ found # {} /\ (Undated(found) => \E r \in W : r.time = NoTime)
  <2>1. plan \in SUBSET (plan \cup held.items)
    BY Zenon
  <2> QED
    BY <1>2, <1>4, <1>6, <2>1, WalletFirst
<1> HIDE DEF W, f, range, found
<1>7. CASE plan # {} /\ Undated(found) /\ Fail("MissingBlockTimestamp")
  <2>1. \E r \in W : r.time = NoTime
    BY Zenon, <1>6, <1>7
  <2> QED
    BY Zenon, <1>7, <2>1 DEF Fail, Outcome, Excuse, W
<1>8. CASE plan # {} /\ Go("plan", 0, plan \ {range}, [held EXCEPT !.items = items]) /\ UNCHANGED chunks
  <2>1. cpc' = "plan" /\ plan' = plan \ {range} /\ turn' = turn /\ chunks' = chunks
        /\ held' = [held EXCEPT !.items = items]
    BY Zenon, <1>8 DEF Go
  <2>2. held'.items = items
    <3>1. DOMAIN held = {"fill", "found", "last", "items"}
      BY Zenon DEF CycleOK
    <3> HIDE DEF items
    <3> QED
      BY <2>1, <3>1
  <2>3. items = held.items \cup {range} /\ range \in plan
    BY Zenon, <1>6, <1>8
  <2> HIDE DEF items
  <2>4. plan' \cup held'.items = plan \cup held.items
    BY Zenon, <2>1, <2>2, <2>3
  <2>5. AtWork("plan", "wallet", <<>>, cursor', plan', held', W, f, Checks)
    <3>1. Ranges(plan' \cup held'.items, W, f, 0, MaxBlock)
      BY Zenon, <1>2, <2>4
    <3> QED
      BY <3>1 DEF AtWork
  <2> QED
    BY Zenon, <1>2, <2>1, <2>5 DEF Outcome, Working, W, f
<1>9. CASE plan = {} /\ held.items = {} /\ FinishDataset /\ UNCHANGED chunks
  <2>1. Ranges({}, W, f, 0, MaxBlock)
    <3>1. plan \cup held.items = {}
      BY Zenon, <1>9
    <3> QED
      BY Zenon, <1>2, <3>1
  <2>2. \A r \in W : f[r] <= MaxBlock => f[r] < 0
    BY Zenon, <1>3, <1>4, <2>1, PageListed
  <2>3. \A r \in W : 0 <= f[r]
    BY <1>3
  <2>4. Lists(<<>>, W, f, 0)
    BY Zenon, <1>3, <1>4, <2>3, NothingListedYet
  <2>5. ListsAll(<<>>, W, f)
    BY Zenon, <1>3, <1>4, <2>2, <2>4 DEF ListsAll
  <2>6. Finished("wallet", <<>>, W, f, Checks)
    BY <2>5 DEF Finished
  <2> QED
    BY Zenon, <1>2, <1>9, <2>6 DEF Outcome, W, f
<1>10. ASSUME plan = {}, held.items # {}, NEW p \in plan_chunks(held.items), Go("chunk", 0, p, NoneHeld), UNCHANGED chunks
       PROVE  Outcome("wallet")
  <2>1. cpc' = "chunk" /\ plan' = p /\ turn' = turn
    BY Zenon, <1>10 DEF Go
  <2>2. Ranges(held.items, W, f, 0, MaxBlock)
    <3>1. plan \cup held.items = held.items
      BY Zenon, <1>10
    <3> QED
      BY Zenon, <1>2, <3>1
  <2>3. p # {} /\ Ranges(p, W, f, 0, MaxBlock)
    BY Zenon, <1>3, <1>4, <1>10, <2>2, PlanRanges
  <2>4. Lists(<<>>, W, f, 0)
    <3>1. \A r \in W : 0 <= f[r]
      BY <1>3
    <3> QED
      BY Zenon, <1>3, <1>4, <3>1, NothingListedYet
  <2>5. "wallet" # "txid" /\ "wallet" # "commitments" /\ "wallet" # "checkpoints"
    OBVIOUS
  <2>6. ChunkInv("wallet", <<>>, 0, p, held', W, f)
    BY Zenon, <1>3, <1>4, <2>3, <2>4, <2>5 DEF ChunkInv
  <2>7. AtWork("chunk", "wallet", <<>>, cursor', p, held', W, f, Checks)
    BY <1>4, <2>6 DEF AtWork
  <2> QED
    BY Zenon, <1>2, <1>10, <2>1, <2>7 DEF Outcome, Working, W, f
<1> QED
  BY Zenon, <1>5, <1>7, <1>8, <1>9, <1>10

\* A chunk of wallet scans is read and listed.
LEMMA WalletChunkStep ==
    ASSUME Readable, CycleOK, AtWorkOn("wallet"), WalletChunk
    PROVE  Outcome("wallet")
<1> DEFINE W == RowsOf("wallet")
           f == Place("wallet")
           list == chunks["wallet"]
           range == Foremost(plan)
           found == wallet_scan_rows(rows, range[1], range[2])
           rest == plan \ {range}
           chunk == Chunk(range[1], range[2], found, {})
<1>1. cpc = "chunk"
  BY Zenon DEF WalletChunk, At
<1>2. PICK low \in Nat : ChunkInv("wallet", list, low, plan, held, W, f)
  BY Zenon, <1>1 DEF AtWorkOn, AtWork
<1>3. PICK top \in Nat : Ranges(plan, W, f, low, top) /\ \A r \in W : f[r] <= top
  BY Zenon, <1>2 DEF ChunkInv
<1>4. plan # {} /\ Lists(list, W, f, low)
  BY Zenon, <1>2 DEF ChunkInv
<1>5. f \in [W -> Nat]
  BY Zenon, WalletData
<1>6. /\ range \in plan /\ found # {}
      /\ found = Within(W, f, range[1], range[2])
      /\ Undated(found) => \E r \in W : r.time = NoTime
  <2>1. plan \in SUBSET plan
    BY Zenon
  <2> QED
    BY <1>3, <1>4, <2>1, WalletFirst
<1>7. IF Undated(found) THEN Fail("MissingBlockTimestamp")
      ELSE /\ IF found = {} THEN UNCHANGED chunks ELSE Push("wallet", chunk)
           /\ IF rest # {} THEN Go("chunk", 0, rest, NoneHeld) ELSE FinishDataset
  BY Zenon DEF WalletChunk
<1>8. chunk.start = range[1] /\ chunk.end = range[2] /\ chunk.rows = {Ident(r) : r \in Within(W, f, range[1], range[2])}
  <2>1. chunk = [start |-> range[1], end |-> range[2],
                 rows |-> {Ident(r) : r \in Within(W, f, range[1], range[2])}, root |-> {}]
    BY Zenon, <1>6 DEF Chunk
  <2> HIDE DEF chunk, range
  <2> QED
    BY Zenon, <2>1
<1>9. IsASeq(list) /\ "wallet" \in DOMAIN chunks
  BY DEF CycleOK, Dataset
<1> HIDE DEF W, f, list, found, chunk
<1>10. /\ range[2] + 1 \in Nat
       /\ Lists(Append(list, chunk), W, f, range[2] + 1)
       /\ Ranges(rest, W, f, range[2] + 1, top)
  BY ZenonT(40), <1>3, <1>4, <1>5, <1>8, <1>9, ChunkAppended
<1> HIDE DEF range, rest
<1>11. CASE Undated(found)
  <2>1. Fail("MissingBlockTimestamp") /\ \E r \in W : r.time = NoTime
    BY Zenon, <1>6, <1>7, <1>11
  <2> QED
    BY Zenon, <2>1 DEF Fail, Outcome, Excuse, W
<1>12. CASE ~Undated(found)
  <2> DEFINE more == Append(list, chunk)
  <2>1. chunks' = [chunks EXCEPT !["wallet"] = Append(@, chunk)]
    BY Zenon, <1>6, <1>7, <1>12 DEF Push
  <2>2. chunks'["wallet"] = more
    BY <1>9, <2>1 DEF list
  <2>3. IF rest # {} THEN Go("chunk", 0, rest, NoneHeld) ELSE FinishDataset
    BY Zenon, <1>7, <1>12
  <2> HIDE DEF more
  <2>4. Lists(more, W, f, range[2] + 1)
    BY Zenon, <1>10 DEF more
  <2>5. "wallet" # "txid" /\ "wallet" # "commitments" /\ "wallet" # "checkpoints"
    OBVIOUS
  <2>6. CASE rest # {}
    <3>1. cpc' = "chunk" /\ plan' = rest /\ turn' = turn
      BY Zenon, <2>3, <2>6 DEF Go
    <3>2. ChunkInv("wallet", more, range[2] + 1, rest, held', W, f)
      BY Zenon, <1>3, <1>10, <2>4, <2>5, <2>6 DEF ChunkInv
    <3>3. \E l \in Nat : ChunkInv("wallet", more, l, rest, held', W, f)
      BY Zenon, <1>10, <3>2
    <3>4. AtWork("chunk", "wallet", more, cursor', rest, held', W, f, Checks)
      BY <3>3 DEF AtWork
    <3> QED
      BY Zenon, <2>2, <3>1, <3>4 DEF Outcome, Working, W, f
  <2>7. CASE rest = {}
    <3>1. FinishDataset
      BY Zenon, <2>3, <2>7
    <3>2. \A r \in W : f[r] < range[2] + 1
      <4>1. Ranges({}, W, f, range[2] + 1, top)
        BY Zenon, <1>10, <2>7
      <4> DEFINE c == range[2] + 1
      <4> HIDE DEF c
      <4>2. c \in Nat /\ Ranges({}, W, f, c, top)
        BY Zenon, <1>10, <4>1 DEF c
      <4>3. \A r \in W : f[r] < c
        BY Zenon, <1>3, <1>5, <4>2, PageListed
      <4> QED
        BY Zenon, <4>3 DEF c
    <3>3. Finished("wallet", more, W, f, Checks)
      BY Zenon, <1>10, <2>4, <2>5, <3>2 DEF Finished, ListsAll
    <3> QED
      BY Zenon, <2>2, <3>1, <3>3 DEF Outcome, W, f
  <2> QED
    BY Zenon, <2>6, <2>7
<1> QED
  BY Zenon, <1>11, <1>12

-----------------------------------------------------------------------------
(* Commitments. *)

\* A position, by tree and place.
LEMMA PositionInTree ==
    ASSUME NEW r, r.pos \in Nat
    PROVE  /\ TreeOf(r) \in Nat /\ PlaceOf(r) \in Nat /\ PlaceOf(r) < TREE_LEAF_COUNT
           /\ r.pos = TreeOf(r) * TREE_LEAF_COUNT + PlaceOf(r)
           /\ TreeOf(r) * TREE_LEAF_COUNT \in Nat
<1> DEFINE p == r.pos
           t == p \div TREE_LEAF_COUNT
           w == p % TREE_LEAF_COUNT
<1>1. TREE_LEAF_COUNT \in Nat \ {0}
  BY Zenon, LeafCount
<1>2. t \in Nat /\ t * TREE_LEAF_COUNT \in Nat /\ t * TREE_LEAF_COUNT <= p /\ p < t * TREE_LEAF_COUNT + TREE_LEAF_COUNT
  BY Zenon, TreeBounds
<1>3. w = p - t * TREE_LEAF_COUNT
  BY <1>1
<1>4. TreeOf(r) = t /\ PlaceOf(r) = w
  <2>1. normalized_global_position(p) = <<0 + t, w>>
    BY Zenon DEF normalized_global_position, normalize_tree_position
  <2> HIDE DEF t, w
  <2>2. 0 + t = t
    BY <1>2 DEF t
  <2> QED
    BY <2>1, <2>2 DEF TreeOf, PlaceOf
<1> HIDE DEF t, w, p
<1>5. w \in Nat /\ w < TREE_LEAF_COUNT /\ p = t * TREE_LEAF_COUNT + w
  BY <1>1, <1>2, <1>3 DEF p
<1> QED
  BY Zenon, <1>2, <1>4, <1>5 DEF p

SummariesOf(K) ==
    {[tree |-> t, leaf_count |-> Max({PlaceOf(r) : r \in {r \in K : TreeOf(r) = t}}) + 1]
        : t \in {TreeOf(r) : r \in K}}

\* The summaries of some commitments.
LEMMA TreeSummaries ==
    ASSUME NEW K, IsFiniteSet(K), \A r \in K : r.pos \in Nat, NEW S,
           S = SummariesOf(K)
    PROVE  /\ IsFiniteSet(S)
           /\ \A s \in S : s.tree \in Nat /\ s.leaf_count \in Nat \ {0}
           /\ \A s, u \in S : s.tree = u.tree => s = u
           /\ \A r \in K : \E s \in S : s.tree = TreeOf(r) /\ PlaceOf(r) < s.leaf_count
           /\ S = {} <=> K = {}
<1> DEFINE trees == {TreeOf(r) : r \in K}
           of(t) == {r \in K : TreeOf(r) = t}
           places(t) == {PlaceOf(r) : r \in of(t)}
           sum == [t \in trees |-> [tree |-> t, leaf_count |-> Max(places(t)) + 1]]
<1>1. S = {sum[t] : t \in trees}
  BY Zenon DEF SummariesOf
<1>2. ASSUME NEW r \in K
      PROVE  TreeOf(r) \in trees /\ r \in of(TreeOf(r)) /\ TreeOf(r) \in Nat /\ PlaceOf(r) \in Nat
             /\ PlaceOf(r) < TREE_LEAF_COUNT
  <2>1. TreeOf(r) \in Nat /\ PlaceOf(r) \in Nat /\ PlaceOf(r) < TREE_LEAF_COUNT
    BY Zenon, PositionInTree
  <2>2. TreeOf(r) \in trees
    OBVIOUS
  <2> QED
    BY Zenon, <2>1, <2>2
<1>3. \A t \in trees : \E r \in K : t = TreeOf(r)
  OBVIOUS
<1>4. ASSUME NEW t \in trees
      PROVE  Max(places(t)) \in Nat /\ \A r \in K : TreeOf(r) = t => PlaceOf(r) <= Max(places(t))
  <2>1. \A r \in of(t) : r \in K /\ TreeOf(r) = t
    BY Zenon
  <2>2. PICK u \in K : t = TreeOf(u)
    BY Zenon, <1>3
  <2>3. u \in of(t)
    BY Zenon, <2>2
  <2>4. \A r \in K : TreeOf(r) = t => r \in of(t)
    BY Zenon
  <2> HIDE DEF of
  <2>5. \A r \in of(t) : PlaceOf(r) \in places(t)
    OBVIOUS
  <2>6. \A y \in places(t) : \E r \in of(t) : y = PlaceOf(r)
    OBVIOUS
  <2> HIDE DEF places
  <2>7. places(t) \in SUBSET Nat /\ places(t) # {} /\ \A y \in places(t) : y < TREE_LEAF_COUNT
    BY Zenon, <1>2, <2>1, <2>3, <2>5, <2>6
  <2>8. TREE_LEAF_COUNT \in Nat /\ \A y \in places(t) : y <= TREE_LEAF_COUNT
    BY <2>7, LeafCount
  <2>9. Max(places(t)) \in places(t) /\ \A y \in places(t) : y <= Max(places(t))
    BY Zenon, <2>7, <2>8, BoundedMax
  <2> QED
    BY Zenon, <2>4, <2>5, <2>7, <2>9
<1> HIDE DEF places, of
<1>5. ASSUME NEW t \in trees
      PROVE  /\ sum[t].tree = t /\ sum[t].leaf_count = Max(places(t)) + 1
             /\ t \in Nat /\ sum[t].leaf_count \in Nat \ {0}
  <2>1. sum[t].tree = t /\ sum[t].leaf_count = Max(places(t)) + 1
    BY Zenon
  <2>2. t \in Nat
    BY Zenon, <1>2, <1>3
  <2>3. Max(places(t)) + 1 \in Nat \ {0}
    BY <1>4
  <2> HIDE DEF sum
  <2> QED
    BY Zenon, <2>1, <2>2, <2>3
<1> DEFINE at == [r \in K |-> TreeOf(r)]
<1>6. IsFiniteSet(trees)
  <2>1. at \in Surjection(K, trees)
    <3>1. at \in [K -> trees]
      BY Zenon, <1>2
    <3>2. \A t \in trees : \E r \in K : at[r] = t
      BY Zenon, <1>3
    <3> QED
      BY Zenon, <3>1, <3>2 DEF Surjection
  <2> HIDE DEF at, trees
  <2> QED
    BY Zenon, <2>1, FS_Surjection
<1> HIDE DEF trees, sum
<1>7. DOMAIN sum = trees /\ \A t \in trees : sum[t] \in S
  BY <1>1 DEF sum
<1>8. \A s \in S : \E t \in trees : s = sum[t]
  BY <1>1
<1>9. IsFiniteSet(S)
  <2>1. sum \in Surjection(trees, S)
    <3>1. sum \in [trees -> S]
      BY <1>7 DEF sum
    <3> QED
      BY Zenon, <1>8, <3>1 DEF Surjection
  <2> QED
    BY Zenon, <1>6, <2>1, FS_Surjection
<1>10. ASSUME NEW s \in S PROVE s.tree \in Nat /\ s.leaf_count \in Nat \ {0} /\ s = sum[s.tree]
  <2>1. PICK t \in trees : s = sum[t]
    BY Zenon, <1>8
  <2>2. sum[t].tree = t /\ t \in Nat /\ sum[t].leaf_count \in Nat \ {0}
    BY Zenon, <1>5
  <2> QED
    BY Zenon, <2>1, <2>2
<1>11. ASSUME NEW s \in S, NEW u \in S, s.tree = u.tree PROVE s = u
  <2>1. s = sum[s.tree] /\ u = sum[u.tree]
    BY Zenon, <1>10
  <2> QED
    BY Zenon, <1>11, <2>1
<1>12. ASSUME NEW r \in K PROVE \E s \in S : s.tree = TreeOf(r) /\ PlaceOf(r) < s.leaf_count
  <2> DEFINE t == TreeOf(r)
  <2>1. t \in trees /\ PlaceOf(r) \in Nat
    BY Zenon, <1>2
  <2>2. Max(places(t)) \in Nat /\ PlaceOf(r) <= Max(places(t))
    BY Zenon, <1>4, <2>1
  <2>3. PlaceOf(r) < Max(places(t)) + 1
    BY <2>1, <2>2
  <2>4. sum[t] \in S /\ sum[t].tree = t /\ PlaceOf(r) < sum[t].leaf_count
    BY Zenon, <1>5, <1>7, <2>1, <2>3
  <2> QED
    BY Zenon, <2>4
<1>13. S = {} <=> K = {}
  <2>1. ASSUME K = {} PROVE S = {}
    BY Zenon, <1>3, <1>8, <2>1
  <2>2. ASSUME S = {} PROVE K = {}
    BY Zenon, <1>12, <2>2
  <2> QED
    BY Zenon, <2>1, <2>2
<1> QED
  BY Zenon, <1>9, <1>10, <1>11, <1>12, <1>13

\* Two commitments at one position are of two families.
LEMMA SharedPosition ==
    ASSUME GoodRows(rows), NEW h, NEW r \in rows, NEW s \in rows, r.family \in Families, s.family \in Families,
           r.block <= h, s.block <= h, r.pos = s.pos, r # s
    PROVE  PositionTaken(h)
<1>1. r.family # s.family
  BY Zenon DEF GoodRows, Key
<1> QED
  BY Zenon, <1>1 DEF PositionTaken

\* The commitments, as they are read.
LEMMA CommitmentData ==
    ASSUME Readable
    PROVE  LET W == RowsOf("commitments")
               f == Place("commitments")
           IN  /\ IsFiniteSet(W) /\ f \in [W -> Nat]
               /\ \A r \in W : f[r] = r.pos
               /\ W = {r \in rows : r.family \in Families /\ r.block <= heights["commitments"].block}
               /\ \A a, b \in Int : CommitmentRows(a, b) = Within(W, f, a, b)
               /\ \A V \in SUBSET W : Increasing(V) \/ PositionTaken(heights["commitments"].block)
<1> DEFINE W == RowsOf("commitments")
           f == Place("commitments")
           h == heights["commitments"].block
<1>1. "commitments" \in Dataset /\ "commitments" # "txid" /\ "commitments" # "wallet"
  BY DEF Dataset
<1>2. IsFiniteSet(W) /\ f \in [W -> Nat] /\ W \subseteq rows
  BY Zenon, <1>1, RowsAndPlaces DEF Readable
<1>3. \A r \in W : f[r] = r.pos
  BY Zenon, <1>1 DEF Place
<1>4. W = {r \in rows : r.family \in Families /\ r.block <= h}
  BY DEF RowsOf, WantedRows
<1>5. \A r : r \in W <=> r \in rows /\ r.family \in Families /\ r.block <= h
  BY Zenon, <1>4
<1> HIDE DEF W, f
<1>6. ASSUME NEW a \in Int, NEW b \in Int PROVE CommitmentRows(a, b) = Within(W, f, a, b)
  <2>1. \A r : r \in CommitmentRows(a, b) <=> r \in rows /\ r.family \in Families /\ r.pos \in a..b /\ r.block <= h
    BY Zenon DEF CommitmentRows, commitment_rows
  <2>2. \A r : r \in Within(W, f, a, b) <=> r \in W /\ a <= f[r] /\ f[r] <= b
    BY Zenon DEF Within
  <2>3. ASSUME NEW r \in rows PROVE r.pos \in a..b <=> a <= r.pos /\ r.pos <= b
    <3>1. r.pos \in Nat
      BY Zenon DEF Readable, GoodRows
    <3> QED
      BY <3>1
  <2>4. \A r : r \in CommitmentRows(a, b) <=> r \in Within(W, f, a, b)
    BY Zenon, <1>3, <1>5, <2>1, <2>2, <2>3
  <2> QED
    BY Zenon, <2>4
<1>7. ASSUME NEW V \in SUBSET W, ~Increasing(V) PROVE PositionTaken(h)
  <2>1. PICK r, t \in V : r.pos = t.pos /\ r # t
    BY Zenon, <1>7 DEF Increasing
  <2>2. r \in rows /\ r.family \in Families /\ r.block <= h /\ t \in rows /\ t.family \in Families /\ t.block <= h
    BY Zenon, <1>5, <2>1
  <2> QED
    BY Zenon, <2>1, <2>2, SharedPosition DEF Readable
<1> QED
  BY Zenon, <1>2, <1>3, <1>4, <1>6, <1>7 DEF W, f

\* The last position of the summaries bounds every position.
LEMMA LastPosition ==
    ASSUME NEW K, IsFiniteSet(K), \A r \in K : r.pos \in Nat, NEW S,
           S = SummariesOf(K),
           NEW L, L = {global_tree_position(s.tree, s.leaf_count - 1) : s \in S}
    PROVE  /\ L = {} => K = {}
           /\ L # {} => Max(L) \in Nat /\ \A r \in K : r.pos <= Max(L)
<1> DEFINE last == [s \in S |-> s.tree * TREE_LEAF_COUNT + (s.leaf_count - 1)]
<1>1. /\ IsFiniteSet(S)
      /\ \A s \in S : s.tree \in Nat /\ s.leaf_count \in Nat \ {0}
      /\ \A r \in K : \E s \in S : s.tree = TreeOf(r) /\ PlaceOf(r) < s.leaf_count
      /\ S = {} <=> K = {}
  BY TreeSummaries
<1>2. L = {last[s] : s \in S}
  BY Zenon DEF global_tree_position
<1>3. TREE_LEAF_COUNT \in Nat \ {0}
  BY Zenon, LeafCount
<1>4. ASSUME NEW s \in S PROVE last[s] \in Nat /\ last[s] = s.tree * TREE_LEAF_COUNT + (s.leaf_count - 1)
  <2>1. last[s] = s.tree * TREE_LEAF_COUNT + (s.leaf_count - 1)
    BY Zenon
  <2>2. s.tree \in Nat /\ s.leaf_count \in Nat \ {0}
    BY Zenon, <1>1
  <2>3. s.tree * TREE_LEAF_COUNT \in Nat
    BY <1>3, <2>2
  <2> HIDE DEF last
  <2> QED
    BY <2>1, <2>2, <2>3
<1>5. DOMAIN last = S
  OBVIOUS
<1> HIDE DEF last
<1>6. \A y \in L : \E s \in S : y = last[s]
  BY <1>2
<1>7. \A s \in S : last[s] \in L
  BY <1>2
<1>8. L = {} => K = {}
  BY Zenon, <1>1, <1>7
<1>9. ASSUME L # {} PROVE Max(L) \in Nat /\ \A r \in K : r.pos <= Max(L)
  <2>1. L \in SUBSET Nat
    BY Zenon, <1>4, <1>6
  <2>2. IsFiniteSet(L)
    <3>1. last \in Surjection(S, L)
      <4>1. last \in [S -> L]
        BY <1>5, <1>7 DEF last
      <4> QED
        BY Zenon, <1>6, <4>1 DEF Surjection
    <3> QED
      BY Zenon, <1>1, <3>1, FS_Surjection
  <2>3. Max(L) \in L /\ \A y \in L : y <= Max(L)
    BY Zenon, <1>9, <2>1, <2>2, FiniteMax
  <2>4. Max(L) \in Nat
    BY Zenon, <2>1, <2>3
  <2>5. ASSUME NEW r \in K PROVE r.pos <= Max(L)
    <3>1. PICK s \in S : s.tree = TreeOf(r) /\ PlaceOf(r) < s.leaf_count
      BY Zenon, <1>1
    <3> DEFINE base == TreeOf(r) * TREE_LEAF_COUNT
    <3>2. PlaceOf(r) \in Nat /\ r.pos = base + PlaceOf(r) /\ base \in Nat
      BY Zenon, PositionInTree
    <3>3. last[s] = base + (s.leaf_count - 1) /\ s.leaf_count \in Nat
      BY Zenon, <1>1, <1>4, <3>1
    <3>4. last[s] <= Max(L) /\ last[s] \in Nat
      BY Zenon, <1>4, <1>7, <2>3
    <3> HIDE DEF base
    <3> QED
      BY <2>4, <3>1, <3>2, <3>3, <3>4
  <2> QED
    BY Zenon, <2>4, <2>5
<1> QED
  BY Zenon, <1>8, <1>9

\* The catalog of commitments begins.
LEMMA StartCommitmentsStep ==
    ASSUME Readable, CycleOK, AtWorkOn("commitments"), StartCommitments
    PROVE  Outcome("commitments")
<1> DEFINE W == RowsOf("commitments")
           f == Place("commitments")
           S == commitment_tree_summaries(rows, heights["commitments"].block)
           last == {global_tree_position(s.tree, s.leaf_count - 1) : s \in S}
<1>1. /\ cpc = "start" /\ chunks' = chunks
      /\ IF last = {} THEN FinishDataset ELSE Go("page", 0, {}, [NoneHeld EXCEPT !.last = Max(last)])
  BY Zenon DEF StartCommitments, Starts, At
<1>2. chunks["commitments"] = <<>>
  BY Zenon, <1>1 DEF AtWorkOn, AtWork
<1>3. IsFiniteSet(W) /\ f \in [W -> Nat] /\ (\A r \in W : f[r] = r.pos)
      /\ W = {r \in rows : r.family \in Families /\ r.block <= heights["commitments"].block}
  BY Zenon, CommitmentData
<1>4. S = SummariesOf(W)
  BY Zenon, <1>3 DEF commitment_tree_summaries, SummariesOf
<1> HIDE DEF W, f, S
<1>5. \A r \in W : r.pos \in Nat
  BY Zenon, <1>3
<1> HIDE DEF last
<1>6. /\ last = {} => W = {}
      /\ last # {} => Max(last) \in Nat /\ \A r \in W : r.pos <= Max(last)
  BY Zenon, <1>3, <1>4, <1>5, LastPosition DEF last
<1>7. 0 \in Nat /\ \A r \in W : 0 <= f[r]
  BY <1>3
<1>8. Lists(<<>>, W, f, 0)
  BY Zenon, <1>3, <1>7, NothingListedYet
<1>9. "commitments" # "txid" /\ "commitments" # "wallet" /\ "commitments" # "checkpoints"
  OBVIOUS
<1>10. CASE last = {}
  <2>1. ListsAll(<<>>, W, f)
    BY Zenon, <1>6, <1>7, <1>8, <1>10 DEF ListsAll
  <2>2. Finished("commitments", <<>>, W, f, Checks)
    BY Zenon, <1>9, <2>1 DEF Finished
  <2> QED
    BY Zenon, <1>1, <1>2, <1>10, <2>2 DEF Outcome, W, f
<1>11. CASE last # {}
  <2>1. cpc' = "page" /\ cursor' = 0 /\ turn' = turn /\ held' = [NoneHeld EXCEPT !.last = Max(last)]
    BY Zenon, <1>1, <1>11 DEF Go
  <2>2. held'.last = Max(last)
    BY <2>1 DEF NoneHeld
  <2>3. held'.last \in Nat /\ \A r \in W : f[r] <= held'.last
    BY Zenon, <1>3, <1>6, <1>11, <2>2
  <2>4. PageInv("commitments", <<>>, 0, held', W, f)
    BY Zenon, <1>7, <1>8, <1>9, <2>3 DEF PageInv
  <2>5. AtWork("page", "commitments", <<>>, 0, plan', held', W, f, Checks)
    BY <2>4 DEF AtWork
  <2> QED
    BY Zenon, <1>1, <1>2, <2>1, <2>5 DEF Outcome, Working, W, f
<1> QED
  BY Zenon, <1>10, <1>11

\* A page of commitments.
LEMMA CommitmentPageStep ==
    ASSUME Readable, CycleOK, AtWorkOn("commitments"), CommitmentPage
    PROVE  Outcome("commitments")
<1> DEFINE W == RowsOf("commitments")
           f == Place("commitments")
           list == chunks["commitments"]
           last == held.last
           end == Min({cursor + CommitmentRowLimit - 1, last})
           found == CommitmentRows(cursor, end)
<1>1. cpc = "page"
  BY Zenon DEF CommitmentPage, At
<1>2. PageInv("commitments", list, cursor, held, W, f)
  BY Zenon, <1>1 DEF AtWorkOn, AtWork
<1>3. cursor \in Nat /\ Lists(list, W, f, cursor) /\ last \in Nat /\ \A r \in W : f[r] <= last
  BY Zenon, <1>2 DEF PageInv
<1>4. /\ IsFiniteSet(W) /\ f \in [W -> Nat]
      /\ \A r \in W : f[r] = r.pos
      /\ \A a, b \in Int : CommitmentRows(a, b) = Within(W, f, a, b)
      /\ \A V \in SUBSET W : Increasing(V) \/ PositionTaken(heights["commitments"].block)
  BY Zenon, CommitmentData
<1>5. IF cursor > last THEN FinishDataset /\ UNCHANGED chunks
      ELSE IF found = {} THEN Go("page", end + 1, {}, held) /\ UNCHANGED chunks
      ELSE IF ~Increasing(found) THEN Fail("NonIncreasingGlobalPosition")
      ELSE /\ \E p \in plan_chunks({<<r.pos, r.pos>> : r \in found}) : Go("chunk", cursor, p, held)
           /\ UNCHANGED chunks
  BY Zenon DEF CommitmentPage
<1>6. "commitments" # "txid" /\ "commitments" # "wallet" /\ "commitments" # "checkpoints"
  OBVIOUS
<1> HIDE DEF W, f, list, last
<1>7. CASE cursor > last
  <2>1. \A r \in W : f[r] < cursor
    BY <1>3, <1>4, <1>7
  <2>2. Finished("commitments", list, W, f, Checks)
    BY Zenon, <1>3, <1>6, <2>1 DEF Finished, ListsAll
  <2> QED
    BY Zenon, <1>5, <1>7, <2>2 DEF Outcome, W, f, list
<1>8. ASSUME ~(cursor > last) PROVE end \in Nat /\ cursor <= end
  <2> DEFINE x == cursor + CommitmentRowLimit - 1
  <2>1. CommitmentRowLimit \in Nat \ {0}
    BY Zenon, CatalogAssumption
  <2>2. x \in Nat /\ cursor <= x /\ cursor <= last
    BY <1>3, <1>8, <2>1
  <2> HIDE DEF x
  <2> DEFINE T == {x, last}
  <2>3. T \in SUBSET Nat /\ T # {}
    BY Zenon, <1>3, <2>2
  <2> HIDE DEF T
  <2>4. Min(T) \in T
    BY Zenon, <2>3, NatMin
  <2>5. Min(T) = x \/ Min(T) = last
    BY Zenon, <2>4 DEF T
  <2> QED
    BY Zenon, <1>3, <2>2, <2>5 DEF T, x
<1> HIDE DEF end
<1>9. ASSUME ~(cursor > last)
      PROVE  /\ found = Within(W, f, cursor, end)
             /\ Increasing(found) \/ PositionTaken(heights["commitments"].block)
  <2>1. cursor \in Int /\ end \in Int
    BY <1>3, <1>8, <1>9
  <2>2. found = Within(W, f, cursor, end)
    BY Zenon, <1>4, <2>1
  <2>3. Within(W, f, cursor, end) \in SUBSET W
    BY Zenon DEF Within
  <2> QED
    BY Zenon, <1>4, <2>2, <2>3
<1> HIDE DEF found
<1>10. CASE ~(cursor > last) /\ found = {}
  <2>1. cpc' = "page" /\ cursor' = end + 1 /\ turn' = turn /\ held' = held /\ chunks' = chunks
    BY Zenon, <1>5, <1>10 DEF Go
  <2>2. end \in Nat /\ cursor <= end /\ Within(W, f, cursor, end) = {}
    BY Zenon, <1>8, <1>9, <1>10
  <2>3. ASSUME NEW r \in W, f[r] < end + 1 PROVE f[r] < cursor
    <3>1. f[r] \in Nat
      BY Zenon, <1>4
    <3>2. ~(cursor <= f[r] /\ f[r] <= end)
      BY Zenon, <2>2 DEF Within
    <3> QED
      BY <1>3, <2>2, <2>3, <3>1, <3>2
  <2> DEFINE c == end + 1
  <2>4. c \in Nat /\ cursor <= c
    BY <1>3, <2>2
  <2>5. \A r \in W : f[r] < c => f[r] < cursor
    BY Zenon, <2>3
  <2> HIDE DEF c
  <2>6. Lists(list, W, f, c)
    BY Zenon, <1>3, <1>4, <2>4, <2>5, ListsFurther
  <2>7. PageInv("commitments", list, c, held, W, f)
    BY Zenon, <1>3, <1>6, <2>4, <2>6 DEF PageInv, last
  <2>8. AtWork("page", "commitments", list, c, plan', held, W, f, Checks)
    BY <2>7 DEF AtWork
  <2> QED
    BY Zenon, <2>1, <2>8 DEF Outcome, Working, W, f, list, c
<1>11. CASE ~(cursor > last) /\ found # {} /\ Increasing(found)
  <2> DEFINE V == Within(W, f, cursor, end)
             items == {<<f[r], f[r]>> : r \in V}
  <2>1. end \in Nat /\ found = V /\ Increasing(found)
    BY Zenon, <1>8, <1>9, <1>11
  <2>2. \A r \in V : f[r] = r.pos
    BY Zenon, <1>4 DEF Within
  <2>3. {<<r.pos, r.pos>> : r \in found} = items
    <3> HIDE DEF V
    <3> QED
      BY Zenon, <2>1, <2>2
  <2>4. PICK p \in plan_chunks(items) : Go("chunk", cursor, p, held) /\ UNCHANGED chunks
    <3> HIDE DEF items, V
    <3> QED
      BY Zenon, <1>5, <1>11, <2>1, <2>3
  <2>5. items # {}
    <3> HIDE DEF V
    <3> QED
      BY <1>11, <2>1
  <2>6. Ranges(items, W, f, cursor, end)
    <3>1. end \in Int
      BY <2>1
    <3> QED
      BY Zenon, <1>3, <1>4, <3>1, PageRanges
  <2> HIDE DEF items
  <2>7. p # {} /\ Ranges(p, W, f, cursor, end)
    BY Zenon, <1>3, <1>4, <2>1, <2>4, <2>5, <2>6, PlanRanges
  <2>8. ChunkInv("commitments", list, cursor, p, held, W, f)
    BY Zenon, <1>3, <1>6, <2>1, <2>7 DEF ChunkInv
  <2>9. AtWork("chunk", "commitments", list, cursor, p, held, W, f, Checks)
    BY <1>2, <2>8 DEF AtWork, W, f, list
  <2>10. cpc' = "chunk" /\ cursor' = cursor /\ plan' = p /\ held' = held /\ turn' = turn /\ chunks' = chunks
    BY Zenon, <2>4 DEF Go
  <2> QED
    BY Zenon, <2>9, <2>10 DEF Outcome, Working, W, f, list
<1>12. CASE ~(cursor > last) /\ found # {} /\ ~Increasing(found)
  <2>1. Fail("NonIncreasingGlobalPosition")
    BY Zenon, <1>5, <1>12
  <2>2. PositionTaken(heights[datasets[turn]].block)
    BY Zenon, <1>9, <1>12 DEF CommitmentPage, At
  <2> QED
    BY Zenon, <2>1, <2>2 DEF Fail, Outcome, Excuse
<1> QED
  BY Zenon, <1>7, <1>10, <1>11, <1>12

\* A chunk of commitments is read and listed.
LEMMA CommitmentChunkStep ==
    ASSUME Readable, CycleOK, AtWorkOn("commitments"), CommitmentChunk
    PROVE  Outcome("commitments")
<1> DEFINE W == RowsOf("commitments")
           f == Place("commitments")
           list == chunks["commitments"]
           range == Foremost(plan)
           a == range[1]
           b == range[2]
           found == CommitmentRows(a, b)
           start == Min({r.pos : r \in found})
           end == Max({r.pos : r \in found})
           rest == plan \ {range}
           chunk == Chunk(start, end, found, {})
<1>1. cpc = "chunk"
  BY Zenon DEF CommitmentChunk, At
<1>2. PageInv("commitments", list, cursor, held, W, f) /\ ChunkInv("commitments", list, cursor, plan, held, W, f)
  BY Zenon, <1>1 DEF AtWorkOn, AtWork
<1>3. cursor \in Nat /\ plan # {} /\ Lists(list, W, f, cursor) /\ held.last \in Nat /\ \A r \in W : f[r] <= held.last
  BY Zenon, <1>2 DEF PageInv, ChunkInv
<1>4. PICK top \in Nat : Ranges(plan, W, f, cursor, top)
  BY Zenon, <1>2 DEF ChunkInv
<1>5. /\ f \in [W -> Nat]
      /\ \A r \in W : f[r] = r.pos
      /\ \A x, y \in Int : CommitmentRows(x, y) = Within(W, f, x, y)
      /\ \A V \in SUBSET W : Increasing(V) \/ PositionTaken(heights["commitments"].block)
  BY Zenon, CommitmentData
<1>6. IF found = {} THEN Fail("EmptyChunk")
      ELSE IF ~Increasing(found) THEN Fail("NonIncreasingGlobalPosition")
      ELSE /\ Push("commitments", chunk)
           /\ Go(IF rest # {} THEN "chunk" ELSE "page", end + 1, rest, held)
  BY Zenon DEF CommitmentChunk
<1>7. IsASeq(list) /\ "commitments" \in DOMAIN chunks
  BY DEF CycleOK, Dataset
<1> HIDE DEF W, f, list
<1>8. /\ range \in plan
      /\ a \in Nat /\ b \in Nat /\ a <= b
      /\ Within(W, f, a, b) # {}
      /\ Min({f[r] : r \in Within(W, f, a, b)}) = a
      /\ Max({f[r] : r \in Within(W, f, a, b)}) = b
  <2>1. cursor \in Nat /\ plan # {} /\ f \in [W -> Nat]
    BY Zenon, <1>3, <1>5
  <2>2. Foremost(plan) \in plan /\ Bounded(W, f, Foremost(plan)[1], Foremost(plan)[2])
    BY Zenon, <1>4, <2>1, FirstRange
  <2> QED
    BY Zenon, <2>2 DEF Bounded
<1>9. found = Within(W, f, a, b)
  <2> HIDE DEF a, b
  <2>1. a \in Int /\ b \in Int
    BY <1>8
  <2> QED
    BY Zenon, <1>5, <2>1
<1>10. /\ start = a /\ end = b /\ found # {}
       /\ Increasing(found) \/ PositionTaken(heights["commitments"].block)
  <2> DEFINE V == Within(W, f, a, b)
  <2>1. V \in SUBSET W /\ \A r \in V : f[r] = r.pos
    BY Zenon, <1>5 DEF Within
  <2> HIDE DEF V, a, b, found
  <2>2. found = V /\ V # {} /\ Min({f[r] : r \in V}) = a /\ Max({f[r] : r \in V}) = b
    BY Zenon, <1>8, <1>9 DEF V
  <2>3. {r.pos : r \in V} = {f[r] : r \in V}
    BY Zenon, <2>1
  <2>4. Increasing(V) \/ PositionTaken(heights["commitments"].block)
    BY Zenon, <1>5, <2>1
  <2> QED
    BY Zenon, <2>2, <2>3, <2>4
<1> HIDE DEF start, end, found
<1>11. chunk.start = range[1] /\ chunk.end = range[2] /\ chunk.rows = {Ident(r) : r \in Within(W, f, range[1], range[2])}
  <2>1. chunk = [start |-> range[1], end |-> range[2],
                 rows |-> {Ident(r) : r \in Within(W, f, range[1], range[2])}, root |-> {}]
    BY Zenon, <1>9, <1>10 DEF Chunk
  <2> HIDE DEF chunk, range
  <2> QED
    BY Zenon, <2>1
<1> HIDE DEF chunk
<1>12. CASE ~Increasing(found)
  <2>1. Fail("NonIncreasingGlobalPosition")
    BY Zenon, <1>6, <1>10, <1>12
  <2>2. PositionTaken(heights[datasets[turn]].block)
    BY Zenon, <1>10, <1>12 DEF CommitmentChunk, At
  <2> QED
    BY Zenon, <2>1, <2>2 DEF Fail, Outcome, Excuse
<1> SUFFICES ASSUME Increasing(found) PROVE Outcome("commitments")
  BY Zenon, <1>12
<1>13. /\ range[2] + 1 \in Nat
       /\ Lists(Append(list, chunk), W, f, range[2] + 1)
       /\ Ranges(rest, W, f, range[2] + 1, top)
  BY ZenonT(40), <1>3, <1>4, <1>5, <1>7, <1>11, ChunkAppended
<1>14. /\ chunks' = [chunks EXCEPT !["commitments"] = Append(@, chunk)]
       /\ Go(IF rest # {} THEN "chunk" ELSE "page", b + 1, rest, held)
  BY Zenon, <1>6, <1>10 DEF Push
<1> DEFINE more == Append(list, chunk)
           c == b + 1
<1>15. c \in Nat /\ Lists(more, W, f, c) /\ Ranges(rest, W, f, c, top)
  BY Zenon, <1>13
<1>16. chunks'["commitments"] = more
  BY <1>7, <1>14 DEF list
<1>17. /\ cpc' = IF rest # {} THEN "chunk" ELSE "page"
       /\ cursor' = c /\ plan' = rest /\ held' = held /\ turn' = turn
  BY Zenon, <1>14 DEF Go
<1>18. "commitments" # "txid" /\ "commitments" # "wallet" /\ "commitments" # "checkpoints"
  OBVIOUS
<1> HIDE DEF more, c, rest
<1>19. PageInv("commitments", more, c, held, W, f)
  BY Zenon, <1>3, <1>15, <1>18 DEF PageInv
<1>20. CASE rest # {}
  <2>1. ChunkInv("commitments", more, c, rest, held, W, f)
    BY Zenon, <1>15, <1>18, <1>20 DEF ChunkInv
  <2>2. AtWork("chunk", "commitments", more, c, rest, held, W, f, Checks)
    BY <1>19, <2>1 DEF AtWork
  <2> QED
    BY Zenon, <1>16, <1>17, <1>20, <2>2 DEF Outcome, Working, W, f
<1>21. CASE rest = {}
  <2>1. AtWork("page", "commitments", more, c, rest, held, W, f, Checks)
    BY <1>19 DEF AtWork
  <2> QED
    BY Zenon, <1>16, <1>17, <1>21, <2>1 DEF Outcome, Working, W, f
<1> QED
  BY Zenon, <1>20, <1>21

-----------------------------------------------------------------------------
(* Merkle checkpoints. *)

Checked == {r \in rows : r.family \in Families /\ r.block <= heights["checkpoints"].block}

\* The summaries and the checkpoints they lead to.
LEMMA CheckpointData ==
    ASSUME Readable
    PROVE  /\ IsFiniteSet(Summaries)
           /\ \A s \in Summaries : s.tree \in Nat /\ s.leaf_count \in Nat \ {0}
           /\ \A r \in Checked : \E s \in Summaries : s.tree = TreeOf(r) /\ PlaceOf(r) < s.leaf_count
           /\ DOMAIN Checks = Summaries
           /\ \A s \in Summaries : Checks[s] = CheckpointOf(s)
<1>1. Summaries = SummariesOf(Checked)
  BY Zenon DEF Summaries, commitment_tree_summaries, SummariesOf, Checked
<1>2. Checked \in SUBSET rows
  BY Zenon DEF Checked
<1>3. IsFiniteSet(Checked) /\ \A r \in Checked : r.pos \in Nat
  BY Zenon, <1>2, FS_Subset DEF Readable, GoodRows
<1>4. /\ IsFiniteSet(Summaries)
      /\ \A s \in Summaries : s.tree \in Nat /\ s.leaf_count \in Nat \ {0}
      /\ \A r \in Checked : \E s \in Summaries : s.tree = TreeOf(r) /\ PlaceOf(r) < s.leaf_count
  BY <1>1, <1>3, TreeSummaries
<1>5. DOMAIN Checks = Summaries /\ \A s \in Summaries : Checks[s] = CheckpointOf(s)
  BY Zenon DEF Checks
<1> QED
  BY Zenon, <1>4, <1>5

\* A leaf of a checkpoint is the hash of the only commitment at its position, or the zero leaf.
LeafAt(leaf, pos, K) ==
    \/ leaf = MERKLE_ZERO_VALUE /\ \A r \in K : r.pos # pos
    \/ \E r \in K : r.pos = pos /\ leaf = r.hash /\ \A u \in K : u.pos = pos => u = r

Filled(leaves, start, n, K) ==
    /\ Len(leaves) = n
    /\ \A k \in 1..n : LeafAt(leaves[k], start + (k - 1), K)

\* A checkpoint is built from the commitments of its tree, unless two of them have one position.
LEMMA CheckpointBuilt ==
    ASSUME Readable, NEW s \in Summaries
    PROVE  LET c == commitment_tree_checkpoint(rows, s, heights["checkpoints"].block)
           IN  \/ c.err = "none" /\ Filled(c.leaves, s.tree * TREE_LEAF_COUNT, s.leaf_count, Checked)
               \/ /\ c.err = "DuplicateCommitmentTreePosition" /\ c.leaves = <<>>
                  /\ PositionTaken(heights["checkpoints"].block)
<1> DEFINE h == heights["checkpoints"].block
           n == s.leaf_count
           start == s.tree * TREE_LEAF_COUNT
           first == global_tree_position(s.tree, 0)
           found == commitment_rows(rows, first, first + n - 1, h)
           at(p) == {r \in found : r.pos = first + p}
           leaf(k) == IF at(k - 1) = {} THEN MERKLE_ZERO_VALUE ELSE (CHOOSE r \in at(k - 1) : TRUE).hash
           c == commitment_tree_checkpoint(rows, s, h)
<1>1. s.tree \in Nat /\ n \in Nat \ {0}
  BY Zenon, CheckpointData
<1>2. first = start /\ start \in Nat
  BY <1>1, LeafCount DEF global_tree_position
<1>3. c = IF \E p \in 0..n - 1 : Cardinality(at(p)) > 1
          THEN [err |-> "DuplicateCommitmentTreePosition", leaves |-> <<>>]
          ELSE [err |-> "none", leaves |-> [k \in 1..n |-> leaf(k)]]
  BY Zenon DEF commitment_tree_checkpoint
<1>4. \A r : r \in found <=> r \in rows /\ r.family \in Families /\ r.pos \in first..first + n - 1 /\ r.block <= h
  BY Zenon DEF commitment_rows
<1>5. \A r : r \in Checked <=> r \in rows /\ r.family \in Families /\ r.block <= h
  BY Zenon DEF Checked
<1>6. \A p : \A r : r \in at(p) <=> r \in found /\ r.pos = first + p
  BY Zenon
<1> HIDE DEF n, start, first, found, at, h
<1>7. ASSUME NEW p \in 0..n - 1, NEW r PROVE r \in at(p) <=> r \in Checked /\ r.pos = start + p
  <2>1. first + p \in first..first + n - 1
    BY <1>1, <1>2
  <2> QED
    BY Zenon, <1>2, <1>4, <1>5, <1>6, <2>1
<1>8. CASE \E p \in 0..n - 1 : Cardinality(at(p)) > 1
  <2>1. PICK p \in 0..n - 1 : Cardinality(at(p)) > 1
    BY Zenon, <1>8
  <2>2. PICK r, u \in at(p) : r # u
    <3> SUFFICES ASSUME \A r, u \in at(p) : r = u PROVE ~(Cardinality(at(p)) > 1)
      BY Zenon, <2>1
    <3>1. CASE at(p) = {}
      <4>1. Cardinality(at(p)) = 0
        BY Zenon, <3>1, FS_EmptySet
      <4> QED
        BY <4>1
    <3>2. CASE at(p) # {}
      <4>1. PICK r : r \in at(p)
        BY Zenon, <3>2
      <4>2. at(p) = {r}
        BY Zenon, <4>1
      <4>3. Cardinality({r}) = 1
        BY Zenon, FS_Singleton
      <4> QED
        BY <4>2, <4>3
    <3> QED
      BY Zenon, <3>1, <3>2
  <2>3. r \in Checked /\ u \in Checked /\ r.pos = u.pos
    BY Zenon, <1>7, <2>2
  <2>4. PositionTaken(h)
    BY Zenon, <1>5, <2>2, <2>3, SharedPosition DEF Readable
  <2>5. c = [err |-> "DuplicateCommitmentTreePosition", leaves |-> <<>>]
    BY Zenon, <1>3, <1>8
  <2> HIDE DEF c
  <2>6. c.err = "DuplicateCommitmentTreePosition" /\ c.leaves = <<>>
    BY <2>5
  <2> QED
    BY Zenon, <2>4, <2>6 DEF c, h
<1> SUFFICES ASSUME ~\E p \in 0..n - 1 : Cardinality(at(p)) > 1
             PROVE  c.err = "none" /\ Filled(c.leaves, start, n, Checked)
  BY Zenon, <1>8 DEF c, n, start, h
<1>9. ASSUME NEW p \in 0..n - 1, NEW r \in at(p), NEW u \in at(p) PROVE r = u
  <2> SUFFICES ASSUME r # u PROVE FALSE
    BY Zenon
  <2>1. at(p) \in SUBSET rows
    BY Zenon, <1>4, <1>6
  <2>2. IsFiniteSet(at(p))
    BY Zenon, <2>1, FS_Subset DEF Readable
  <2> DEFINE pair == {r} \cup {u}
  <2>3. Cardinality({r}) = 1 /\ IsFiniteSet({r})
    BY Zenon, FS_Singleton
  <2>4. Cardinality(pair) = Cardinality({r}) + 1
    BY Zenon, <2>3, FS_AddElement
  <2>5. pair \in SUBSET at(p)
    BY Zenon
  <2>6. Cardinality(pair) <= Cardinality(at(p))
    BY Zenon, <2>2, <2>5, FS_Subset
  <2>7. Cardinality(at(p)) \in Nat
    BY Zenon, <2>2, FS_CardinalityType
  <2> HIDE DEF pair
  <2>8. Cardinality(at(p)) > 1
    BY <2>3, <2>4, <2>6, <2>7
  <2> QED
    BY Zenon, <2>8
<1> DEFINE leaves == [k \in 1..n |-> leaf(k)]
<1>10. c = [err |-> "none", leaves |-> leaves]
  BY Zenon, <1>3
<1>11. ASSUME NEW k \in 1..n PROVE LeafAt(leaf(k), start + (k - 1), Checked)
  <2>1. k - 1 \in 0..n - 1
    BY <1>1
  <2>2. \A r : r \in at(k - 1) <=> r \in Checked /\ r.pos = start + (k - 1)
    BY Zenon, <1>7, <2>1
  <2>3. CASE at(k - 1) = {}
    BY Zenon, <2>2, <2>3 DEF LeafAt
  <2>4. CASE at(k - 1) # {}
    <3> DEFINE u == CHOOSE r \in at(k - 1) : TRUE
    <3>1. u \in at(k - 1)
      BY Zenon, <2>4
    <3>2. leaf(k) = u.hash
      BY Zenon, <2>4
    <3> HIDE DEF u
    <3>3. \A t \in at(k - 1) : t = u
      BY Zenon, <1>9, <2>1, <3>1
    <3> QED
      BY Zenon, <2>2, <3>1, <3>2, <3>3 DEF LeafAt
  <2> QED
    BY Zenon, <2>3, <2>4
<1> HIDE DEF leaf, c
<1>12. Len(leaves) = n
  BY <1>1
<1>13. \A k \in 1..n : leaves[k] = leaf(k)
  BY Zenon
<1> HIDE DEF leaves
<1>14. Filled(leaves, start, n, Checked)
  BY Zenon, <1>11, <1>12, <1>13 DEF Filled
<1>15. c.err = "none" /\ c.leaves = leaves
  BY <1>10
<1> QED
  BY Zenon, <1>14, <1>15

\* The catalog of checkpoints begins.
LEMMA StartCheckpointsStep ==
    ASSUME Readable, CycleOK, AtWorkOn("checkpoints"), StartCheckpoints
    PROVE  Outcome("checkpoints")
<1> DEFINE d == "checkpoints"
           W == RowsOf(d)
           f == Place(d)
           S == Summaries
<1>1. /\ cpc = "start" /\ chunks' = chunks
      /\ IF S = {} THEN FinishDataset ELSE Go("chunk", 0, S, NoneHeld)
  BY Zenon DEF StartCheckpoints, Starts, At, Summaries
<1>2. chunks[d] = <<>>
  BY Zenon, <1>1 DEF AtWorkOn, AtWork
<1>3. DOMAIN Checks = S
  BY Zenon, CheckpointData
<1> HIDE DEF S, W, f
<1>4. Checkpoints(<<>>, Checks, S)
  <2>1. \A i \in 1..Len(<<>>) : FALSE
    OBVIOUS
  <2> QED
    BY Zenon, <1>3, <2>1 DEF Checkpoints
<1>5. CASE S = {}
  <2>1. Finished(d, <<>>, W, f, Checks)
    BY Zenon, <1>4, <1>5 DEF Finished
  <2> QED
    BY Zenon, <1>1, <1>2, <1>5, <2>1 DEF Outcome, W, f
<1>6. CASE S # {}
  <2>1. cpc' = "chunk" /\ plan' = S /\ turn' = turn
    BY Zenon, <1>1, <1>6 DEF Go
  <2>2. AtWork("chunk", d, <<>>, cursor', S, held', W, f, Checks)
    BY <1>4, <1>6 DEF AtWork
  <2> QED
    BY Zenon, <1>1, <1>2, <2>1, <2>2 DEF Outcome, Working, W, f
<1> QED
  BY Zenon, <1>5, <1>6

\* The checkpoint of the first tree left is built and listed.
LEMMA CheckpointChunkStep ==
    ASSUME Readable, CycleOK, AtWorkOn("checkpoints"), CheckpointChunk
    PROVE  Outcome("checkpoints")
<1> DEFINE d == "checkpoints"
           W == RowsOf(d)
           f == Place(d)
           list == chunks[d]
           summary == CHOOSE s \in plan : \A t \in plan : s.tree <= t.tree
           checkpoint == commitment_tree_checkpoint(rows, summary, heights["checkpoints"].block)
           start == global_tree_position(summary.tree, 0)
           rest == plan \ {summary}
           chunk == Chunk(start, start + summary.leaf_count - 1, {}, checkpoint.leaves)
<1>1. cpc = "chunk"
  BY Zenon DEF CheckpointChunk, At
<1>2. plan # {} /\ Checkpoints(list, Checks, plan)
  BY Zenon, <1>1 DEF AtWorkOn, AtWork
<1>3. DOMAIN Checks = Summaries /\ \A s \in Summaries : Checks[s] = CheckpointOf(s) /\ s.tree \in Nat
  BY Zenon, CheckpointData
<1>4. plan \in SUBSET Summaries
  BY Zenon, <1>2, <1>3 DEF Checkpoints
<1>5. summary \in plan
  <2> DEFINE N == {s.tree : s \in plan}
  <2>1. N \in SUBSET Nat /\ N # {}
    BY <1>2, <1>3, <1>4
  <2>2. \A s \in plan : s.tree \in N
    OBVIOUS
  <2>3. \A m \in N : \E s \in plan : m = s.tree
    OBVIOUS
  <2> HIDE DEF N
  <2>4. Min(N) \in N /\ \A y \in N : Min(N) <= y
    BY Zenon, <2>1, NatMin
  <2>5. PICK s \in plan : Min(N) = s.tree
    BY Zenon, <2>3, <2>4
  <2>6. \A t \in plan : s.tree <= t.tree
    BY Zenon, <2>2, <2>4, <2>5
  <2> QED
    BY Zenon, <2>6
<1>6. IF checkpoint.err # "none" THEN Fail(checkpoint.err)
      ELSE /\ Push("checkpoints", chunk)
           /\ IF rest # {} THEN Go("chunk", 0, rest, NoneHeld) ELSE FinishDataset
  BY Zenon DEF CheckpointChunk
<1> HIDE DEF summary
<1>7. summary \in Summaries
  BY Zenon, <1>4, <1>5
<1>8. \/ checkpoint.err = "none" /\ Filled(checkpoint.leaves, summary.tree * TREE_LEAF_COUNT, summary.leaf_count, Checked)
      \/ checkpoint.err = "DuplicateCommitmentTreePosition" /\ PositionTaken(heights["checkpoints"].block)
  BY Zenon, <1>7, CheckpointBuilt
<1>9. chunk = Checks[summary]
  BY Zenon, <1>3, <1>7 DEF CheckpointOf
<1>10. chunk.root = checkpoint.leaves
  <2> HIDE DEF checkpoint
  <2> QED
    BY DEF Chunk
<1>11. IsASeq(list) /\ d \in DOMAIN chunks
  BY DEF CycleOK, Dataset
<1> HIDE DEF checkpoint, chunk
<1>12. CASE checkpoint.err # "none"
  <2>1. checkpoint.err = "DuplicateCommitmentTreePosition" /\ PositionTaken(heights["checkpoints"].block)
    BY Zenon, <1>8, <1>12
  <2>2. Fail("DuplicateCommitmentTreePosition")
    BY Zenon, <1>6, <1>12, <2>1
  <2>3. datasets[turn] = "checkpoints"
    BY Zenon DEF CheckpointChunk, At
  <2> QED
    BY Zenon, <2>1, <2>2, <2>3 DEF Fail, Outcome, Excuse
<1> SUFFICES ASSUME checkpoint.err = "none" PROVE Outcome("checkpoints")
  BY Zenon, <1>12
<1>13. checkpoint.err = "none"
  OBVIOUS
<1>14. Checks[summary].root # <<>>
  <2>1. Len(checkpoint.leaves) = summary.leaf_count /\ summary.leaf_count \in Nat \ {0}
    <3>1. "none" # "DuplicateCommitmentTreePosition"
      OBVIOUS
    <3> QED
      BY Zenon, <1>7, <1>8, <1>13, <3>1, CheckpointData DEF Filled
  <2>2. checkpoint.leaves # <<>>
    BY <2>1
  <2> QED
    BY Zenon, <1>9, <1>10, <2>2
<1>15. chunks' = [chunks EXCEPT !["checkpoints"] = Append(@, chunk)]
       /\ IF rest # {} THEN Go("chunk", 0, rest, NoneHeld) ELSE FinishDataset
  BY Zenon, <1>6, <1>13 DEF Push
<1> DEFINE more == Append(list, chunk)
<1>16. chunks'[d] = more
  BY <1>11, <1>15
<1> HIDE DEF W, f, list
<1>17. /\ Len(list) \in Nat
       /\ Len(more) = Len(list) + 1
       /\ \A i \in 1..Len(list) : more[i] = list[i]
       /\ more[Len(list) + 1] = chunk
  BY <1>11, Appended
<1> HIDE DEF more
<1>18. Checkpoints(more, Checks, rest)
  <2>1. rest \subseteq DOMAIN Checks
    BY Zenon, <1>3, <1>4
  <2>2. ASSUME NEW i \in 1..Len(more) PROVE \E s \in DOMAIN Checks : more[i] = Checks[s]
    <3>1. i \in 1..Len(list) \/ i = Len(list) + 1
      BY <1>17
    <3>2. CASE i \in 1..Len(list)
      BY Zenon, <1>2, <1>17, <3>2 DEF Checkpoints
    <3>3. CASE i = Len(list) + 1
      BY Zenon, <1>3, <1>7, <1>9, <1>17, <3>3
    <3> QED
      BY Zenon, <3>1, <3>2, <3>3
  <2>3. \A i \in 1..Len(list) : i \in 1..Len(more)
    BY <1>17
  <2>4. Len(list) + 1 \in 1..Len(more)
    BY <1>17
  <2>5. ASSUME NEW s \in DOMAIN Checks \ rest
        PROVE Checks[s].root # <<>> /\ \E i \in 1..Len(more) : more[i] = Checks[s]
    <3>1. CASE s = summary
      BY Zenon, <1>9, <1>14, <1>17, <2>4, <3>1
    <3>2. CASE s # summary
      <4>1. s \in DOMAIN Checks \ plan
        BY Zenon, <3>2
      <4>2. PICK i \in 1..Len(list) : list[i] = Checks[s]
        BY Zenon, <1>2, <4>1 DEF Checkpoints
      <4>3. Checks[s].root # <<>>
        BY Zenon, <1>2, <4>1 DEF Checkpoints
      <4> QED
        BY Zenon, <1>17, <2>3, <4>2, <4>3
    <3> QED
      BY Zenon, <3>1, <3>2
  <2> QED
    BY Zenon, <2>1, <2>2, <2>5 DEF Checkpoints
<1> HIDE DEF rest
<1>19. CASE rest # {}
  <2>1. cpc' = "chunk" /\ plan' = rest /\ turn' = turn
    BY Zenon, <1>15, <1>19 DEF Go
  <2>2. AtWork("chunk", d, more, cursor', rest, held', W, f, Checks)
    BY <1>18, <1>19 DEF AtWork
  <2> QED
    BY Zenon, <1>16, <2>1, <2>2 DEF Outcome, Working, W, f
<1>20. CASE rest = {}
  <2>1. Finished(d, more, W, f, Checks)
    BY Zenon, <1>18, <1>20 DEF Finished
  <2> QED
    BY Zenon, <1>15, <1>16, <1>20, <2>1 DEF Outcome, W, f
<1> QED
  BY Zenon, <1>19, <1>20

HeldFields == {"fill", "found", "last", "items"}

\* A step on a dataset: at most a chunk is appended, then the dataset goes on, is finished or fails.
Step(d) ==
    /\ chunks' = chunks \/ \E x : chunks' = [chunks EXCEPT ![d] = Append(@, x)]
    /\ FinishDataset \/ (turn' = turn /\ cpc' \in Working \cup {"failed"})
    /\ DOMAIN held' = HeldFields

\* What is held keeps its fields.
LEMMA HeldKeepsFields ==
    ASSUME DOMAIN held = HeldFields
    PROVE  /\ DOMAIN NoneHeld = HeldFields
           /\ \A x : DOMAIN [NoneHeld EXCEPT !.fill = x] = HeldFields
           /\ \A x : DOMAIN [NoneHeld EXCEPT !.last = x] = HeldFields
           /\ \A x : DOMAIN [held EXCEPT !.found = x] = HeldFields
           /\ \A x : DOMAIN [held EXCEPT !.items = x] = HeldFields
BY DEF NoneHeld, HeldFields

\* Every way a step may end keeps to it.
LEMMA StepForms ==
    ASSUME CycleOK
    PROVE  /\ \A s, c, p : s \in Working /\ Go(s, c, p, NoneHeld) => DOMAIN held' = HeldFields
           /\ FinishDataset => DOMAIN held' = HeldFields
           /\ \A e : Fail(e) => \A d : Step(d)
           /\ \A d, s, c, p, h : /\ s \in Working /\ Go(s, c, p, h) /\ DOMAIN h = HeldFields
                                 /\ chunks' = chunks \/ \E x : chunks' = [chunks EXCEPT ![d] = Append(@, x)]
                                 => Step(d)
           /\ \A d : /\ FinishDataset
                     /\ chunks' = chunks \/ \E x : chunks' = [chunks EXCEPT ![d] = Append(@, x)]
                     => Step(d)
<1>1. DOMAIN held = HeldFields
  BY Zenon DEF CycleOK, HeldFields
<1>2. DOMAIN NoneHeld = HeldFields
  BY Zenon, <1>1, HeldKeepsFields
<1>3. ASSUME NEW e, Fail(e), NEW d PROVE Step(d)
  BY Zenon, <1>1, <1>3 DEF Fail, Step
<1>4. ASSUME FinishDataset PROVE DOMAIN held' = HeldFields
  BY Zenon, <1>2, <1>4 DEF FinishDataset
<1>5. ASSUME NEW d, FinishDataset, chunks' = chunks \/ \E x : chunks' = [chunks EXCEPT ![d] = Append(@, x)]
      PROVE  Step(d)
  BY Zenon, <1>4, <1>5 DEF Step
<1>6. ASSUME NEW d, NEW s \in Working, NEW c, NEW p, NEW h, Go(s, c, p, h), DOMAIN h = HeldFields,
             chunks' = chunks \/ \E x : chunks' = [chunks EXCEPT ![d] = Append(@, x)]
      PROVE  Step(d)
  BY Zenon, <1>6 DEF Go, Step
<1>7. ASSUME NEW s, NEW c, NEW p, Go(s, c, p, NoneHeld) PROVE DOMAIN held' = HeldFields
  BY Zenon, <1>2, <1>7 DEF Go
<1> QED
  BY Zenon, <1>3, <1>4, <1>5, <1>6, <1>7

\* A step of a dataset, and where it leads when nothing is disturbed.
Works(d) ==
    /\ cpc \in Working
    /\ datasets[turn] = d
    /\ Step(d)
    /\ Readable /\ AtWorkOn(d) => Outcome(d)

\* The steps on public TXIDs.
LEMMA TxidWorks ==
    ASSUME CycleOK, TxidNext
    PROVE  Works("txid")
<1> DEFINE d == "txid"
<1>1. DOMAIN held = HeldFields
  BY Zenon DEF CycleOK, HeldFields
<1>2. CASE StartTxid
  <2>1. cpc \in Working /\ datasets[turn] = d
    BY Zenon, <1>2 DEF StartTxid, Starts, At, Working
  <2>2. Fail("omission") \/ (Go("page", 0, {}, NoneHeld) /\ chunks' = chunks)
    BY Zenon, <1>2 DEF StartTxid
  <2>3. Step(d)
    BY Zenon, <1>1, <2>2, StepForms, HeldKeepsFields DEF Working
  <2> QED
    BY Zenon, <1>2, <2>1, <2>3, StartTxidStep DEF Works
<1>3. CASE TxidPage
  <2>1. cpc \in Working /\ datasets[turn] = d
    BY Zenon, <1>3 DEF TxidPage, At, Working
  <2>2. chunks' = chunks /\ (FinishDataset \/ \E p, x : Go("chunk", cursor, p, [NoneHeld EXCEPT !.fill = x]))
    BY Zenon, <1>3 DEF TxidPage
  <2>3. Step(d)
    BY Zenon, <1>1, <2>2, StepForms, HeldKeepsFields DEF Working
  <2> QED
    BY Zenon, <1>3, <2>1, <2>3, TxidPageStep DEF Works
<1>4. CASE TxidChunk
  <2>1. cpc \in Working /\ datasets[turn] = d
    BY Zenon, <1>4 DEF TxidChunk, At, Working
  <2>2. Fail("EmptyChunk") \/ \E x : Go("root", cursor, plan, [held EXCEPT !.found = x]) /\ chunks' = chunks
    BY Zenon, <1>4 DEF TxidChunk
  <2>3. Step(d)
    BY Zenon, <1>1, <2>2, StepForms, HeldKeepsFields DEF Working
  <2> QED
    BY Zenon, <1>4, <2>1, <2>3, TxidChunkStep DEF Works
<1>5. CASE TxidRoot
  <2>1. cpc \in Working /\ datasets[turn] = d
    BY Zenon, <1>5 DEF TxidRoot, At, Working
  <2>2. \/ \E e : Fail(e)
        \/ \E x : /\ chunks' = [chunks EXCEPT !["txid"] = Append(@, x)]
                  /\ \/ \E c, p : Go("chunk", c, p, [held EXCEPT !.found = {}])
                     \/ \E c, p : Go("page", c, p, NoneHeld)
                     \/ FinishDataset
    BY Zenon, <1>5 DEF TxidRoot, Push
  <2>3. Step(d)
    BY Zenon, <1>1, <2>2, StepForms, HeldKeepsFields DEF Working
  <2> QED
    BY Zenon, <1>5, <2>1, <2>3, TxidRootStep DEF Works
<1> QED
  BY Zenon, <1>2, <1>3, <1>4, <1>5 DEF TxidNext

\* The steps on wallet scans.
LEMMA WalletWorks ==
    ASSUME CycleOK, WalletNext
    PROVE  Works("wallet")
<1> DEFINE d == "wallet"
<1>1. DOMAIN held = HeldFields
  BY Zenon DEF CycleOK, HeldFields
<1>2. CASE StartWallet
  <2>1. cpc \in Working /\ datasets[turn] = d
    BY Zenon, <1>2 DEF StartWallet, Starts, At, Working
  <2>2. (\E p : Go("plan", 0, p, NoneHeld)) /\ chunks' = chunks
    BY Zenon, <1>2 DEF StartWallet
  <2>3. Step(d)
    BY Zenon, <1>1, <2>2, StepForms, HeldKeepsFields DEF Working
  <2> QED
    BY Zenon, <1>2, <2>1, <2>3, StartWalletStep DEF Works
<1>3. CASE WalletPlan
  <2>1. cpc \in Working /\ datasets[turn] = d
    BY Zenon, <1>3 DEF WalletPlan, At, Working
  <2>2. \/ Fail("MissingBlockTimestamp")
        \/ chunks' = chunks /\ \/ \E p, x : Go("plan", 0, p, [held EXCEPT !.items = x])
                               \/ FinishDataset
                               \/ \E p : Go("chunk", 0, p, NoneHeld)
    BY Zenon, <1>3 DEF WalletPlan
  <2>3. Step(d)
    BY Zenon, <1>1, <2>2, StepForms, HeldKeepsFields DEF Working
  <2> QED
    BY Zenon, <1>3, <2>1, <2>3, WalletPlanStep DEF Works
<1>4. CASE WalletChunk
  <2>1. cpc \in Working /\ datasets[turn] = d
    BY Zenon, <1>4 DEF WalletChunk, At, Working
  <2>2. \/ Fail("MissingBlockTimestamp")
        \/ /\ chunks' = chunks \/ \E x : chunks' = [chunks EXCEPT !["wallet"] = Append(@, x)]
           /\ FinishDataset \/ \E p : Go("chunk", 0, p, NoneHeld)
    BY Zenon, <1>4 DEF WalletChunk, Push
  <2>3. Step(d)
    BY Zenon, <1>1, <2>2, StepForms, HeldKeepsFields DEF Working
  <2> QED
    BY Zenon, <1>4, <2>1, <2>3, WalletChunkStep DEF Works
<1> QED
  BY Zenon, <1>2, <1>3, <1>4 DEF WalletNext

\* The steps on commitments.
LEMMA CommitmentsWork ==
    ASSUME CycleOK, CommitmentsNext
    PROVE  Works("commitments")
<1> DEFINE d == "commitments"
<1>1. DOMAIN held = HeldFields
  BY Zenon DEF CycleOK, HeldFields
<1>2. CASE StartCommitments
  <2>1. cpc \in Working /\ datasets[turn] = d
    BY Zenon, <1>2 DEF StartCommitments, Starts, At, Working
  <2>2. chunks' = chunks /\ (FinishDataset \/ \E x : Go("page", 0, {}, [NoneHeld EXCEPT !.last = x]))
    BY Zenon, <1>2 DEF StartCommitments
  <2>3. Step(d)
    BY Zenon, <1>1, <2>2, StepForms, HeldKeepsFields DEF Working
  <2> QED
    BY Zenon, <1>2, <2>1, <2>3, StartCommitmentsStep DEF Works
<1>3. CASE CommitmentPage
  <2>1. cpc \in Working /\ datasets[turn] = d
    BY Zenon, <1>3 DEF CommitmentPage, At, Working
  <2>2. \/ \E e : Fail(e)
        \/ chunks' = chunks /\ \/ FinishDataset
                               \/ \E c, p : Go("page", c, p, held)
                               \/ \E c, p : Go("chunk", c, p, held)
    BY Zenon, <1>3 DEF CommitmentPage
  <2>3. Step(d)
    BY Zenon, <1>1, <2>2, StepForms DEF Working
  <2> QED
    BY Zenon, <1>3, <2>1, <2>3, CommitmentPageStep DEF Works
<1>4. CASE CommitmentChunk
  <2>1. cpc \in Working /\ datasets[turn] = d
    BY Zenon, <1>4 DEF CommitmentChunk, At, Working
  <2>2. \/ \E e : Fail(e)
        \/ /\ \E x : chunks' = [chunks EXCEPT !["commitments"] = Append(@, x)]
           /\ \E c, p : Go("chunk", c, p, held) \/ Go("page", c, p, held)
    BY Zenon, <1>4 DEF CommitmentChunk, Push
  <2>3. Step(d)
    BY Zenon, <1>1, <2>2, StepForms DEF Working
  <2> QED
    BY Zenon, <1>4, <2>1, <2>3, CommitmentChunkStep DEF Works
<1> QED
  BY Zenon, <1>2, <1>3, <1>4 DEF CommitmentsNext

\* The steps on checkpoints.
LEMMA CheckpointsWork ==
    ASSUME CycleOK, CheckpointsNext
    PROVE  Works("checkpoints")
<1> DEFINE d == "checkpoints"
<1>1. DOMAIN held = HeldFields
  BY Zenon DEF CycleOK, HeldFields
<1>2. CASE StartCheckpoints
  <2>1. cpc \in Working /\ datasets[turn] = d
    BY Zenon, <1>2 DEF StartCheckpoints, Starts, At, Working
  <2>2. chunks' = chunks /\ (FinishDataset \/ \E p : Go("chunk", 0, p, NoneHeld))
    BY Zenon, <1>2 DEF StartCheckpoints
  <2>3. Step(d)
    BY Zenon, <1>1, <2>2, StepForms, HeldKeepsFields DEF Working
  <2> QED
    BY Zenon, <1>2, <2>1, <2>3, StartCheckpointsStep DEF Works
<1>3. CASE CheckpointChunk
  <2>1. cpc \in Working /\ datasets[turn] = d
    BY Zenon, <1>3 DEF CheckpointChunk, At, Working
  <2>2. \/ \E e : Fail(e)
        \/ /\ \E x : chunks' = [chunks EXCEPT !["checkpoints"] = Append(@, x)]
           /\ FinishDataset \/ \E p : Go("chunk", 0, p, NoneHeld)
    BY Zenon, <1>3 DEF CheckpointChunk, Push
  <2>3. Step(d)
    BY Zenon, <1>1, <2>2, StepForms, HeldKeepsFields DEF Working
  <2> QED
    BY Zenon, <1>3, <2>1, <2>3, CheckpointChunkStep DEF Works
<1> QED
  BY Zenon, <1>2, <1>3 DEF CheckpointsNext

\* A dataset without progress has no rows and no checkpoints.
LEMMA NothingIndexed ==
    ASSUME Readable, NEW d \in Dataset, heights[d] = NoHeight
    PROVE  Finished(d, <<>>, RowsOf(d), Place(d), Checks)
<1>1. heights[d].block = 0
  BY Zenon, HeightIsNat DEF Readable
<1>2. \A r \in rows : ~(r.block <= 0)
  BY DEF Readable, GoodRows, Block
<1>3. CASE d = "checkpoints"
  <2>1. Checked = {}
    BY Zenon, <1>1, <1>2, <1>3 DEF Checked
  <2>2. Summaries = SummariesOf({})
    BY Zenon, <2>1 DEF Summaries, commitment_tree_summaries, SummariesOf, Checked
  <2>3. Summaries = {}
    BY <2>2 DEF SummariesOf
  <2>4. DOMAIN Checks = {}
    BY Zenon, <2>3, CheckpointData
  <2>5. \A i \in 1..Len(<<>>) : FALSE
    OBVIOUS
  <2>6. Checkpoints(<<>>, Checks, {})
    BY Zenon, <2>4, <2>5 DEF Checkpoints
  <2> QED
    BY Zenon, <1>3, <2>6 DEF Finished
<1>4. CASE d # "checkpoints"
  <2> DEFINE W == RowsOf(d)
             f == Place(d)
  <2>1. W = {}
    <3>1. CASE d = "txid"
      <4>1. W = PublishedTxids
        BY <3>1 DEF RowsOf, WantedRows
      <4> QED
        BY Zenon, <1>1, <1>2, <3>1, <4>1 DEF PublishedTxids
    <3>2. CASE d = "wallet"
      <4>1. W = wallet_scan_rows(rows, 1, heights["wallet"].block)
        BY <3>2 DEF RowsOf, WantedRows
      <4>2. \A b : b \notin 1..0
        OBVIOUS
      <4> QED
        BY Zenon, <1>1, <3>2, <4>1, <4>2 DEF wallet_scan_rows
    <3>3. CASE d = "commitments"
      <4>1. W = {r \in rows : r.family \in Families /\ r.block <= heights["commitments"].block}
        BY <3>3 DEF RowsOf, WantedRows
      <4> QED
        BY Zenon, <1>1, <1>2, <3>3, <4>1
    <3> QED
      BY Zenon, <1>4, <3>1, <3>2, <3>3 DEF Dataset
  <2>2. f \in [W -> Nat]
    BY Zenon, RowsAndPlaces DEF Readable
  <2> HIDE DEF W, f
  <2>3. 0 \in Nat
    OBVIOUS
  <2>4. Lists(<<>>, W, f, 0)
    BY Zenon, <2>1, <2>2, <2>3, NothingListedYet
  <2>5. ListsAll(<<>>, W, f)
    BY Zenon, <2>1, <2>3, <2>4 DEF ListsAll
  <2>6. Rooted(<<>>, W, f)
    BY DEF Rooted
  <2>7. Finished(d, <<>>, W, f, Checks)
    BY Zenon, <1>4, <2>5, <2>6 DEF Finished
  <2> QED
    BY Zenon, <2>7 DEF W, f
<1> QED
  BY Zenon, <1>3, <1>4

\* A dataset is passed over.
LEMMA PassOverWorks ==
    ASSUME CycleOK, PassOver
    PROVE  Works(datasets[turn])
<1> DEFINE d == datasets[turn]
<1>1. cpc = "start" /\ heights[d] = NoHeight /\ FinishDataset /\ chunks' = chunks
  BY Zenon DEF PassOver
<1>2. Step(d)
  BY Zenon, <1>1, StepForms
<1>3. d \in Dataset
  BY DEF CycleOK
<1> HIDE DEF d
<1>4. ASSUME Readable, AtWorkOn(d) PROVE Outcome(d)
  <2>1. chunks[d] = <<>>
    BY Zenon, <1>1, <1>4 DEF AtWorkOn, AtWork
  <2>2. Finished(d, chunks'[d], RowsOf(d), Place(d), Checks)
    BY Zenon, <1>1, <1>3, <1>4, <2>1, NothingIndexed
  <2> QED
    BY Zenon, <1>1, <2>2 DEF Outcome
<1> QED
  BY Zenon, <1>1, <1>2, <1>4 DEF Works, Working, d

=============================================================================
