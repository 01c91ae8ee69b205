------------------------ MODULE RuleAllocationProofs ------------------------
(***************************************************************************)
(* Proofs about RuleAllocation, for any nodes, rules and lists of them:    *)
(* type correctness, that each name is merged once, and that each item is  *)
(* inspected where its target says.  What the merge of a number of lists   *)
(* gives is proved by the least number for which it would not.             *)
(***************************************************************************)
EXTENDS RuleAllocation, FiniteSetTheorems, FunctionTheorems, SequenceTheorems,
        WellFoundedInduction, TLAPS

-----------------------------------------------------------------------------
(* Induction and recursion                                                 *)

(* A set of numbers that is not empty has a least one.                     *)
LEMMA Least ==
    ASSUME NEW T \in SUBSET Nat, T # {}
    PROVE  \E x \in T : \A y \in T : x <= y
<1> DEFINE R == OpToRel(<, Nat)
<1>1. IsWellFoundedOn(R, Nat)
  BY NatLessThanWellFounded
<1>2. \A x, y \in Nat : x < y => <<x, y>> \in R
  BY DEF OpToRel
<1> HIDE DEF R
<1>3. \E x \in T : \A y \in T : ~(<<y, x>> \in R)
  BY <1>1, WFMin
<1>4. \A x, y \in Nat : ~(y < x) => x <= y
  OBVIOUS
<1> QED BY <1>2, <1>3, <1>4

(* A set with 0 and the successor of each of its numbers has all of them.  *)
LEMMA Induct ==
    ASSUME NEW N \in Nat, NEW T, 0 \in T, \A n \in 1..N : n - 1 \in T => n \in T
    PROVE  0..N \subseteq T
<1> SUFFICES ASSUME ~(0..N \subseteq T) PROVE FALSE
  OBVIOUS
<1>1. (0..N) \ T # {} /\ (0..N) \ T \in SUBSET Nat
  OBVIOUS
<1>2. PICK x \in (0..N) \ T : \A y \in (0..N) \ T : x <= y
  BY <1>1, Least
<1>3. x \in 1..N /\ x - 1 \in 0..N /\ ~(x <= x - 1)
  BY <1>2
<1>4. x - 1 \in T
  BY <1>2, <1>3
<1> QED BY <1>2, <1>3, <1>4

(* f is base, and then N times the next value that step gives.             *)
Follows(f, N, X, base, step) ==
    f \in [0..N -> X] /\ f[0] = base /\ \A n \in 1..N : f[n] = step[<<n, f[n - 1]>>]

(* A function may be defined step by step.                                 *)
LEMMA Recursion ==
    ASSUME NEW N \in Nat, NEW X, NEW base \in X, NEW step \in [(1..N) \X X -> X]
    PROVE  \E f : Follows(f, N, X, base, step)
<1> DEFINE IsUpTo(f, m) == /\ f \in [0..m -> X] /\ f[0] = base
                           /\ \A n \in 1..m : f[n] = step[<<n, f[n - 1]>>]
           T == {m \in 0..N : \E f : IsUpTo(f, m)}
<1>1. 0 \in T
  <2> DEFINE g == [n \in 0..0 |-> base]
  <2>1. g \in [0..0 -> X] /\ g[0] = base /\ 1..0 = {}
    OBVIOUS
  <2> HIDE DEF g
  <2>2. IsUpTo(g, 0)
    BY <2>1
  <2> HIDE DEF IsUpTo
  <2>3. \E f : IsUpTo(f, 0)
    BY <2>2
  <2> QED BY <2>3
<1>2. ASSUME NEW m \in 1..N, m - 1 \in T PROVE m \in T
  <2>1. PICK f : IsUpTo(f, m - 1)
    BY <1>2
  <2> DEFINE g == [n \in 0..m |-> IF n = m THEN step[<<m, f[m - 1]>>] ELSE f[n]]
  <2>2. f[m - 1] \in X /\ step[<<m, f[m - 1]>>] \in X
    BY <2>1
  <2>3. g \in [0..m -> X] /\ g[0] = base
    BY <2>1, <2>2
  <2>4. \A n \in 0..m : n # m => g[n] = f[n]
    OBVIOUS
  <2>5. ASSUME NEW n \in 1..m PROVE g[n] = step[<<n, g[n - 1]>>]
    <3>1. g[n - 1] = f[n - 1]
      BY <2>4
    <3>2. CASE n = m
      <4>1. g[m] = step[<<m, f[m - 1]>>]
        OBVIOUS
      <4> HIDE DEF g
      <4> QED BY <3>1, <3>2, <4>1
    <3>3. CASE n # m
      <4>1. n \in 1..(m - 1) /\ g[n] = f[n]
        BY <2>4, <3>3
      <4> HIDE DEF g
      <4> QED BY <2>1, <3>1, <4>1
    <3> QED BY <3>2, <3>3
  <2> HIDE DEF g
  <2>6. IsUpTo(g, m)
    BY <2>3, <2>5
  <2> QED BY <2>6
<1> HIDE DEF T
<1>3. N \in T
  BY <1>1, <1>2, Induct
<1> QED BY <1>3 DEF T, Follows

-----------------------------------------------------------------------------
(* Elements of a list in their order                                       *)

(* A function of the numbers up to n is a list of its values.              *)
LEMMA IsList ==
    ASSUME NEW X, NEW n \in Nat, NEW s \in [1..n -> X]
    PROVE  s \in Seq(X) /\ Len(s) = n /\ DOMAIN s = 1..n
BY IsASeq, LenProperties

(* InOrder counts a finite set of numbers off.                             *)
LEMMA InOrderIs ==
    ASSUME NEW S \in SUBSET Nat, IsFiniteSet(S)
    PROVE  [k \in 1..Cardinality(S) |-> InOrder(S, k)] \in Bijection(1..Cardinality(S), S)
<1> DEFINE n == Cardinality(S)
           below(m) == {k \in S : k < m}
           rank == [m \in S |-> Cardinality(below(m))]
<1>0. n \in Nat
  BY FS_CardinalityType
<1>1. ASSUME NEW m \in S
      PROVE  IsFiniteSet(below(m)) /\ Cardinality(below(m)) \in 0..(n - 1)
  <2>1. below(m) \subseteq S \ {m} /\ IsFiniteSet(S \ {m})
    BY FS_RemoveElement
  <2>2. Cardinality(S \ {m}) = n - 1
    BY FS_RemoveElement
  <2>3. IsFiniteSet(below(m)) /\ Cardinality(below(m)) <= Cardinality(S \ {m})
    BY <2>1, FS_Subset
  <2>4. Cardinality(below(m)) \in Nat
    BY <2>3, FS_CardinalityType
  <2> QED BY <1>0, <2>2, <2>3, <2>4
<1>2. ASSUME NEW m \in S, NEW l \in S, m < l
      PROVE  Cardinality(below(m)) < Cardinality(below(l))
  <2>0. m \in Nat /\ l \in Nat /\ \A k \in S : k \in Nat
    OBVIOUS
  <2>1. below(m) \subseteq below(l) /\ m \in below(l) /\ m \notin below(m)
    <3>1. ASSUME NEW k \in S, k < m PROVE k < l
      BY <1>2, <2>0, <3>1
    <3>2. ~(m < m) /\ m < l
      BY <1>2, <2>0
    <3> QED BY <3>1, <3>2
  <2>2. IsFiniteSet(below(l)) /\ IsFiniteSet(below(m))
    BY <1>1
  <2>3. Cardinality(below(l)) \in Nat /\ Cardinality(below(m)) \in Nat
    BY <2>2, FS_CardinalityType
  <2>4. Cardinality(below(m)) <= Cardinality(below(l))
    BY <2>1, <2>2, FS_Subset
  <2>5. Cardinality(below(m)) # Cardinality(below(l))
    BY <2>1, <2>2, FS_Subset
  <2> QED BY <2>3, <2>4, <2>5
<1>3. \A m, l \in S : Cardinality(below(m)) = Cardinality(below(l)) => m = l
  <2> SUFFICES ASSUME NEW m \in S, NEW l \in S, Cardinality(below(m)) = Cardinality(below(l))
               PROVE  m = l
    OBVIOUS
  <2>1. Cardinality(below(m)) \in Nat
    BY <1>1, FS_CardinalityType
  <2>2. ~(m < l) /\ ~(l < m)
    BY <1>2, <2>1
  <2> QED BY <2>2
<1>4. IsFiniteSet(0..(n - 1)) /\ Cardinality(0..(n - 1)) = n
  <2>1. 0 \in Int /\ n - 1 \in Int
    BY <1>0
  <2>2. /\ IsFiniteSet(0..(n - 1))
        /\ Cardinality(0..(n - 1)) = IF 0 > n - 1 THEN 0 ELSE (n - 1) - 0 + 1
    BY <2>1, FS_Interval
  <2>3. (IF 0 > n - 1 THEN 0 ELSE (n - 1) - 0 + 1) = n
    BY <1>0
  <2> QED BY <2>2, <2>3
<1>5. rank \in Injection(S, 0..(n - 1))
  BY <1>1, <1>3 DEF Injection, IsInjective
<1>6. rank \in Surjection(S, 0..(n - 1))
  BY <1>4, <1>5, FS_Injection
<1>7. ASSUME NEW k \in 1..n
      PROVE  InOrder(S, k) \in S /\ Cardinality(below(InOrder(S, k))) = k - 1
  <2>1. k - 1 \in 0..(n - 1)
    BY <1>0
  <2>2. \E m \in S : Cardinality(below(m)) = k - 1
    BY <1>6, <2>1 DEF Surjection
  <2> QED BY <2>2 DEF InOrder
<1>8. ASSUME NEW m \in S PROVE \E k \in 1..n : InOrder(S, k) = m
  <2>1. Cardinality(below(m)) \in 0..(n - 1)
    BY <1>1
  <2>2. PICK k \in 1..n : Cardinality(below(m)) = k - 1
    BY <1>0, <2>1
  <2>3. InOrder(S, k) \in S /\ Cardinality(below(InOrder(S, k))) = k - 1
    BY <1>7
  <2>4. InOrder(S, k) = m
    BY <1>3, <2>2, <2>3
  <2> QED BY <2>4
<1>9. ASSUME NEW k \in 1..n, NEW l \in 1..n, InOrder(S, k) = InOrder(S, l) PROVE k = l
  <2>1. Cardinality(below(InOrder(S, k))) = k - 1 /\ Cardinality(below(InOrder(S, l))) = l - 1
    BY <1>7
  <2>2. k - 1 = l - 1
    BY <1>9, <2>1
  <2> QED BY <1>0, <2>2
<1> HIDE DEF n
<1> DEFINE f == [k \in 1..n |-> InOrder(S, k)]
<1>10. f \in [1..n -> S]
  BY <1>7
<1>11. f \in Injection(1..n, S)
  BY <1>9, <1>10 DEF Injection, IsInjective
<1>12. f \in Surjection(1..n, S)
  BY <1>8, <1>10 DEF Surjection
<1>13. f \in Bijection(1..n, S)
  BY <1>11, <1>12 DEF Bijection
<1> QED BY <1>13 DEF n

(* s has the elements of list at the indices in I, each of them once.      *)
Picks(s, list, I, pos) ==
    /\ DOMAIN s = 1..Len(s) /\ Len(s) = Cardinality(I) /\ Len(s) \in Nat
    /\ \A k \in DOMAIN s : pos[k] \in I /\ s[k] = list[pos[k]]
    /\ \A k, l \in DOMAIN s : pos[k] = pos[l] => k = l
    /\ \A i \in I : \E k \in DOMAIN s : pos[k] = i

(* Select does what its name says.                                         *)
LEMMA SelectIs ==
    ASSUME NEW X, NEW list \in Seq(X), NEW I, I \subseteq DOMAIN list
    PROVE  Select(list, I) \in Seq(X) /\ \E pos : Picks(Select(list, I), list, I, pos)
<1> DEFINE n == Cardinality(I)
           pos == [k \in 1..n |-> InOrder(I, k)]
           s == Select(list, I)
<1>1. DOMAIN list = 1..Len(list) /\ Len(list) \in Nat
  BY LenProperties
<1>2. I \in SUBSET Nat /\ IsFiniteSet(I)
  <2>1. \A i \in I : i \in Nat /\ i <= Len(list)
    BY <1>1
  <2> QED BY <1>1, <2>1, FS_BoundedSetOfNaturals
<1>3. pos \in Bijection(1..n, I) /\ n \in Nat
  BY <1>2, InOrderIs, FS_CardinalityType
<1>4. s = [k \in 1..n |-> list[pos[k]]]
  BY DEF Select
<1> HIDE DEF pos, s, n
<1>5. \A k \in 1..n : pos[k] \in I /\ list[pos[k]] \in X
  BY <1>1, <1>3, ElementOfSeq DEF Bijection, Injection
<1>6. s \in Seq(X) /\ Len(s) = n /\ DOMAIN s = 1..n
  <2>1. s \in [1..n -> X]
    BY <1>4, <1>5
  <2> QED BY <1>3, <2>1, IsASeq, LenProperties
<1>7. \A k \in DOMAIN s : pos[k] \in I /\ s[k] = list[pos[k]]
  BY <1>4, <1>5, <1>6
<1>8. \A k, l \in DOMAIN s : pos[k] = pos[l] => k = l
  BY <1>3, <1>6 DEF Bijection, Injection, IsInjective
<1>9. \A i \in I : \E k \in DOMAIN s : pos[k] = i
  BY <1>3, <1>6 DEF Bijection, Surjection
<1>10. Picks(s, list, I, pos)
  BY <1>3, <1>6, <1>7, <1>8, <1>9 DEF Picks, n
<1> QED BY <1>6, <1>10 DEF s

-----------------------------------------------------------------------------
(* Merging                                                                 *)

(* No element before this one has its name.                                *)
Earliest(list, i) == \A j \in DOMAIN list : list[j].name = list[i].name => i <= j

Distinct(list) == \A k, l \in DOMAIN list : list[k].name = list[l].name => k = l

(* The first element of each name stays, and no other.                     *)
LEMMA DedupIs ==
    ASSUME NEW X, NEW list \in Seq(X)
    PROVE  LET s == RuleArrayDeduplication(list)
           IN  /\ s \in Seq(X) /\ Distinct(s)
               /\ \A k \in DOMAIN s : \E i \in DOMAIN list : s[k] = list[i] /\ Earliest(list, i)
               /\ \A i \in DOMAIN list : Earliest(list, i) => \E k \in DOMAIN s : s[k] = list[i]
               /\ \A i \in DOMAIN list : \E k \in DOMAIN s : s[k].name = list[i].name
<1> DEFINE I == {i \in DOMAIN list : Earliest(list, i)}
           s == Select(list, I)
<1>1. RuleArrayDeduplication(list) = s
  BY DEF RuleArrayDeduplication, Earliest
<1>2. DOMAIN list \in SUBSET Nat
  BY LenProperties
<1>0. I \subseteq DOMAIN list
  OBVIOUS
<1> HIDE DEF I
<1>3. s \in Seq(X) /\ \E pos : Picks(s, list, I, pos)
  BY <1>0, SelectIs
<1> HIDE DEF s
<1>9. PICK pos : /\ \A k \in DOMAIN s : pos[k] \in I /\ s[k] = list[pos[k]]
                 /\ \A k, l \in DOMAIN s : pos[k] = pos[l] => k = l
                 /\ \A i \in I : \E k \in DOMAIN s : pos[k] = i
  BY <1>3 DEF Picks
<1> USE DEF I
<1>4. Distinct(s)
  <2> SUFFICES ASSUME NEW k \in DOMAIN s, NEW l \in DOMAIN s, s[k].name = s[l].name
               PROVE  k = l
    BY DEF Distinct
  <2>1. list[pos[k]].name = list[pos[l]].name /\ pos[k] \in I /\ pos[l] \in I
    BY <1>9
  <2>2. pos[k] <= pos[l] /\ pos[l] <= pos[k] /\ pos[k] \in Nat /\ pos[l] \in Nat
    BY <1>2, <2>1 DEF Earliest
  <2> QED BY <1>9, <2>2
<1>5. ASSUME NEW i \in DOMAIN list PROVE \E j \in I : list[j].name = list[i].name
  <2> DEFINE T == {j \in DOMAIN list : list[j].name = list[i].name}
  <2>1. T \in SUBSET Nat /\ T # {}
    BY <1>2
  <2>2. PICK j \in T : \A l \in T : j <= l
    BY <2>1, Least
  <2> QED BY <2>2 DEF Earliest
<1>6. \A i \in DOMAIN list : \E k \in DOMAIN s : s[k].name = list[i].name
  BY <1>9, <1>5
<1>7. \A k \in DOMAIN s : \E i \in DOMAIN list : s[k] = list[i] /\ Earliest(list, i)
  BY <1>9
<1>8. \A i \in DOMAIN list : Earliest(list, i) => \E k \in DOMAIN s : s[k] = list[i]
  BY <1>9
<1> QED BY <1>1, <1>3, <1>4, <1>6, <1>7, <1>8

(* Merged applies RuleArrayDeduplication once for each list.               *)
LEMMA MergedSteps ==
    ASSUME NEW X, NEW lists \in Seq(Seq(X))
    PROVE  \E f : /\ f[0] = <<>> /\ f[Len(lists)] = Merged(lists)
                  /\ \A n \in 1..Len(lists) : f[n] = RuleArrayDeduplication(f[n - 1] \o lists[n])
<1> DEFINE N == Len(lists)
           Lists == Seq(X)
           Def(g) == [n \in 0..N |-> IF n = 0 THEN <<>>
                                     ELSE RuleArrayDeduplication(g[n - 1] \o lists[n])]
           step == [p \in (1..N) \X Lists |-> RuleArrayDeduplication(p[2] \o lists[p[1]])]
<1>1. N \in Nat /\ \A n \in 1..N : lists[n] \in Seq(X)
  BY LenProperties, ElementOfSeq
<1> HIDE DEF N
<1>2. step \in [(1..N) \X Lists -> Lists]
  <2> SUFFICES ASSUME NEW n \in 1..N, NEW y \in Seq(X)
               PROVE  RuleArrayDeduplication(y \o lists[n]) \in Seq(X)
    OBVIOUS
  <2>1. y \o lists[n] \in Seq(X)
    BY <1>1, ConcatProperties
  <2> QED BY <2>1, DedupIs
<1>3. \A n \in 1..N, y \in Lists : step[<<n, y>>] = RuleArrayDeduplication(y \o lists[n])
  OBVIOUS
<1> HIDE DEF step
<1>4. PICK f : Follows(f, N, Lists, <<>>, step)
  <2>1. <<>> \in Lists
    BY EmptySeq
  <2> HIDE DEF Lists
  <2> QED BY <1>1, <1>2, <2>1, Recursion
<1>5. f = Def(f)
  <2>1. ASSUME NEW n \in 1..N PROVE f[n] = RuleArrayDeduplication(f[n - 1] \o lists[n])
    <3>1. n - 1 \in 0..N
      BY <1>1
    <3>2. f[n - 1] \in Lists
      BY <1>4, <3>1 DEF Follows
    <3> QED BY <1>3, <1>4, <3>2 DEF Follows
  <2> QED BY <1>1, <1>4, <2>1 DEF Follows
<1>6. Merged(lists) = (CHOOSE g : g = Def(g))[N]
  BY DEF Merged, N
<1> DEFINE g == CHOOSE h : h = Def(h)
<1>7. g = Def(g)
  BY <1>5
<1> HIDE DEF g
<1>8. g[0] = <<>> /\ \A n \in 1..N : g[n] = RuleArrayDeduplication(g[n - 1] \o lists[n])
  BY <1>1, <1>7
<1>9. g[N] = Merged(lists)
  BY <1>6 DEF g
<1> QED BY <1>8, <1>9 DEF N

(* No element before the j-th of the i-th list has its name.               *)
Foremost(lists, i, j) ==
    \A a \in DOMAIN lists : \A b \in DOMAIN lists[a] :
        a < i \/ (a = i /\ b < j) => lists[a][b].name # lists[i][j].name

(* m has the foremost elements of the first n lists, each of them once.    *)
MergedUpTo(m, lists, n) ==
    /\ Distinct(m)
    /\ \A k \in DOMAIN m : \E i \in 1..n : \E j \in DOMAIN lists[i] :
           m[k] = lists[i][j] /\ Foremost(lists, i, j)
    /\ \A i \in 1..n : \A j \in DOMAIN lists[i] :
           Foremost(lists, i, j) => \E k \in DOMAIN m : m[k] = lists[i][j]
    /\ \A i \in 1..n : \A j \in DOMAIN lists[i] : \E k \in DOMAIN m : m[k].name = lists[i][j].name

(* One more list is merged.                                                *)
LEMMA MergeOne ==
    ASSUME NEW X, NEW lists \in Seq(Seq(X)), NEW n \in 1..Len(lists),
           NEW m \in Seq(X), MergedUpTo(m, lists, n - 1)
    PROVE  /\ RuleArrayDeduplication(m \o lists[n]) \in Seq(X)
           /\ MergedUpTo(RuleArrayDeduplication(m \o lists[n]), lists, n)
<1> DEFINE l == lists[n]
           list == m \o l
           s == RuleArrayDeduplication(list)
<1>1. /\ l \in Seq(X) /\ Len(lists) \in Nat /\ DOMAIN lists = 1..Len(lists)
      /\ DOMAIN l = 1..Len(l) /\ Len(l) \in Nat /\ DOMAIN m = 1..Len(m) /\ Len(m) \in Nat
  BY LenProperties, ElementOfSeq
<1>2. /\ list \in Seq(X) /\ Len(list) = Len(m) + Len(l)
      /\ \A i \in 1..(Len(m) + Len(l)) : list[i] = IF i <= Len(m) THEN m[i] ELSE l[i - Len(m)]
  BY <1>1, ConcatProperties
<1>3. DOMAIN list = 1..(Len(m) + Len(l))
  BY <1>2, LenProperties
<1>4. /\ s \in Seq(X) /\ Distinct(s)
      /\ \A k \in DOMAIN s : \E i \in DOMAIN list : s[k] = list[i] /\ Earliest(list, i)
      /\ \A i \in DOMAIN list : Earliest(list, i) => \E k \in DOMAIN s : s[k] = list[i]
      /\ \A i \in DOMAIN list : \E k \in DOMAIN s : s[k].name = list[i].name
  BY <1>2, DedupIs
<1>5. \A k \in DOMAIN m : k \in DOMAIN list /\ list[k] = m[k]
  BY <1>1, <1>2, <1>3
<1>6. \A j \in DOMAIN l : Len(m) + j \in DOMAIN list /\ list[Len(m) + j] = l[j]
  <2> SUFFICES ASSUME NEW j \in DOMAIN l
               PROVE  Len(m) + j \in DOMAIN list /\ list[Len(m) + j] = l[j]
    OBVIOUS
  <2>1. Len(m) + j \in 1..(Len(m) + Len(l)) /\ ~(Len(m) + j <= Len(m)) /\ Len(m) + j - Len(m) = j
    BY <1>1
  <2> QED BY <1>2, <1>3, <2>1
<1>7. \A i \in DOMAIN list : i \in DOMAIN m \/ \E j \in DOMAIN l : i = Len(m) + j
  <2> SUFFICES ASSUME NEW i \in DOMAIN list, i \notin DOMAIN m
               PROVE  \E j \in DOMAIN l : i = Len(m) + j
    OBVIOUS
  <2>1. i - Len(m) \in DOMAIN l /\ i = Len(m) + (i - Len(m))
    BY <1>1, <1>3
  <2> QED BY <2>1
<1> HIDE DEF list, s
<1>8. ASSUME NEW k \in DOMAIN m PROVE Earliest(list, k)
  <2> SUFFICES ASSUME NEW j \in DOMAIN list, list[j].name = list[k].name PROVE k <= j
    BY DEF Earliest
  <2>1. CASE j \in DOMAIN m
    BY <1>1, <1>5, <2>1 DEF MergedUpTo, Distinct
  <2>2. CASE j \notin DOMAIN m
    BY <1>1, <1>7, <2>2
  <2> QED BY <2>1, <2>2
<1>9. ASSUME NEW j \in DOMAIN l, Earliest(list, Len(m) + j) PROVE Foremost(lists, n, j)
  <2> SUFFICES ASSUME NEW a \in DOMAIN lists, NEW b \in DOMAIN lists[a],
                      a < n \/ (a = n /\ b < j), lists[a][b].name = l[j].name
               PROVE  FALSE
    BY DEF Foremost
  <2>1. CASE a < n
    <3>1. a \in 1..(n - 1)
      BY <1>1, <2>1
    <3>2. PICK k \in DOMAIN m : m[k].name = l[j].name
      BY <3>1 DEF MergedUpTo
    <3>3. Len(m) + j <= k
      BY <1>5, <1>6, <1>9, <3>2 DEF Earliest
    <3> QED BY <1>1, <3>3
  <2>2. CASE a = n /\ b < j
    <3>1. Len(m) + j <= Len(m) + b
      BY <1>6, <1>9, <2>2 DEF Earliest
    <3> QED BY <1>1, <2>2, <3>1
  <2> QED BY <2>1, <2>2
<1>10. ASSUME NEW j \in DOMAIN l, Foremost(lists, n, j) PROVE Earliest(list, Len(m) + j)
  <2> SUFFICES ASSUME NEW i \in DOMAIN list, list[i].name = list[Len(m) + j].name
               PROVE  Len(m) + j <= i
    BY DEF Earliest
  <2>1. list[i].name = l[j].name
    BY <1>6
  <2>2. CASE i \in DOMAIN m
    <3>1. PICK a \in 1..(n - 1) : \E b \in DOMAIN lists[a] : m[i] = lists[a][b]
      BY <2>2 DEF MergedUpTo
    <3>2. a \in DOMAIN lists /\ a < n
      BY <1>1
    <3> QED BY <1>5, <1>10, <2>1, <2>2, <3>1, <3>2 DEF Foremost
  <2>3. CASE i \notin DOMAIN m
    <3>1. PICK b \in DOMAIN l : i = Len(m) + b
      BY <1>7, <2>3
    <3>2. l[b].name = l[j].name
      BY <1>6, <2>1, <3>1
    <3>3. ~(b < j)
      BY <1>1, <1>10, <3>2 DEF Foremost
    <3> QED BY <1>1, <3>1, <3>3
  <2> QED BY <2>2, <2>3
<1>11. ASSUME NEW k \in DOMAIN s
       PROVE  \E i \in 1..n : \E j \in DOMAIN lists[i] : s[k] = lists[i][j] /\ Foremost(lists, i, j)
  <2>1. PICK i \in DOMAIN list : s[k] = list[i] /\ Earliest(list, i)
    BY <1>4
  <2>2. CASE i \in DOMAIN m
    <3>1. PICK a \in 1..(n - 1) : \E j \in DOMAIN lists[a] :
                m[i] = lists[a][j] /\ Foremost(lists, a, j)
      BY <2>2 DEF MergedUpTo
    <3>2. a \in 1..n
      BY <1>1
    <3> QED BY <1>5, <2>1, <2>2, <3>1, <3>2
  <2>3. CASE i \notin DOMAIN m
    <3>1. PICK j \in DOMAIN l : i = Len(m) + j
      BY <1>7, <2>3
    <3>2. n \in 1..n
      BY <1>1
    <3> QED BY <1>6, <1>9, <2>1, <3>1, <3>2
  <2> QED BY <2>2, <2>3
<1>12. \A i \in DOMAIN list : Earliest(list, i) => \E k \in DOMAIN s : s[k] = list[i]
  BY <1>4
<1>13. \A i \in DOMAIN list : \E k \in DOMAIN s : s[k].name = list[i].name
  BY <1>4
<1>14. ASSUME NEW i \in 1..n, NEW j \in DOMAIN lists[i]
       PROVE  /\ Foremost(lists, i, j) => \E k \in DOMAIN s : s[k] = lists[i][j]
              /\ \E k \in DOMAIN s : s[k].name = lists[i][j].name
  <2>1. CASE i = n
    <3>1. j \in DOMAIN l /\ lists[i][j] = l[j]
      BY <2>1
    <3>2. Len(m) + j \in DOMAIN list /\ list[Len(m) + j] = l[j]
      BY <1>6, <3>1
    <3>3. \E k \in DOMAIN s : s[k].name = l[j].name
      <4>1. PICK k \in DOMAIN s : s[k].name = list[Len(m) + j].name
        BY <1>13, <3>2
      <4> QED BY <3>2, <4>1
    <3>4. Foremost(lists, i, j) => \E k \in DOMAIN s : s[k] = l[j]
      BY <1>12, <1>10, <2>1, <3>1, <3>2
    <3> QED BY <3>1, <3>3, <3>4
  <2>2. CASE i # n
    <3>1. i \in 1..(n - 1)
      BY <1>1, <2>2
    <3>2. \E k \in DOMAIN m : m[k].name = lists[i][j].name
      BY <3>1 DEF MergedUpTo
    <3>3. Foremost(lists, i, j) => \E k \in DOMAIN m : m[k] = lists[i][j]
      BY <3>1 DEF MergedUpTo
    <3>4. \A k \in DOMAIN m : k \in DOMAIN list /\ list[k] = m[k] /\ Earliest(list, k)
      BY <1>5, <1>8
    <3>5. \E k \in DOMAIN s : s[k].name = lists[i][j].name
      <4>1. PICK k \in DOMAIN m : m[k].name = lists[i][j].name
        BY <3>2
      <4>2. PICK h \in DOMAIN s : s[h].name = list[k].name
        BY <1>13, <3>4
      <4> QED BY <3>4, <4>1, <4>2
    <3>6. Foremost(lists, i, j) => \E k \in DOMAIN s : s[k] = lists[i][j]
      BY <1>12, <3>3, <3>4
    <3> QED BY <3>5, <3>6
  <2> QED BY <2>1, <2>2
<1> QED BY <1>4, <1>11, <1>14 DEF MergedUpTo, s, list

(* Of all the lists the first element of each name is merged, and no other.*)
LEMMA MergedIs ==
    ASSUME NEW X, NEW lists \in Seq(Seq(X))
    PROVE  Merged(lists) \in Seq(X) /\ MergedUpTo(Merged(lists), lists, Len(lists))
<1> DEFINE N == Len(lists)
<1>1. PICK f : /\ f[0] = <<>> /\ f[N] = Merged(lists)
               /\ \A n \in 1..N : f[n] = RuleArrayDeduplication(f[n - 1] \o lists[n])
  BY MergedSteps
<1>2. N \in Nat
  BY LenProperties
<1> DEFINE T == {n \in 0..N : f[n] \in Seq(X) /\ MergedUpTo(f[n], lists, n)}
<1>3. 0 \in T
  <2>1. f[0] \in Seq(X) /\ DOMAIN f[0] = {} /\ 1..0 = {}
    BY <1>1, EmptySeq
  <2>2. MergedUpTo(f[0], lists, 0)
    BY <2>1 DEF MergedUpTo, Distinct
  <2> QED BY <1>2, <2>1, <2>2
<1>4. \A n \in 1..N : n - 1 \in T => n \in T
  <2> SUFFICES ASSUME NEW n \in 1..N, n - 1 \in T PROVE n \in T
    OBVIOUS
  <2>1. f[n - 1] \in Seq(X) /\ MergedUpTo(f[n - 1], lists, n - 1)
    OBVIOUS
  <2>2. f[n] \in Seq(X) /\ MergedUpTo(f[n], lists, n)
    BY <1>1, <2>1, MergeOne
  <2> QED BY <1>2, <2>2
<1>5. N \in 0..N
  BY <1>2
<1> HIDE DEF T, N
<1>6. N \in T
  BY <1>2, <1>3, <1>4, <1>5, Induct
<1> QED BY <1>1, <1>6 DEF T, N

-----------------------------------------------------------------------------
(* Lists of jobs, taken for sets                                           *)

(* s lists the elements of S, each of them once.                           *)
Enumerates(s, S) ==
    /\ s \in Seq(S) /\ Len(s) \in Nat /\ DOMAIN s = 1..Len(s)
    /\ \A k \in DOMAIN s : s[k] \in S
    /\ \A k, l \in DOMAIN s : s[k] = s[l] => k = l
    /\ \A x \in S : \E k \in DOMAIN s : s[k] = x

(* SetToSeq lists any finite set.                                          *)
LEMMA SetToSeqIs ==
    ASSUME NEW S, IsFiniteSet(S)
    PROVE  Enumerates(SetToSeq(S), S)
<1> DEFINE n == Cardinality(S)
           s == SetToSeq(S)
<1>1. n \in Nat /\ ExistsBijection(1..n, S)
  BY FS_CardinalityType
<1>2. \E f \in [1..n -> S] : IsInjective(f)
  BY <1>1 DEF ExistsBijection, Bijection, Injection
<1>3. s \in [1..n -> S] /\ IsInjective(s)
  BY <1>2 DEF SetToSeq
<1> HIDE DEF s
<1>4. IsFiniteSet(1..n) /\ Cardinality(1..n) = n
  <2>1. 1 \in Int /\ n \in Int
    BY <1>1
  <2>2. IsFiniteSet(1..n) /\ Cardinality(1..n) = IF 1 > n THEN 0 ELSE n - 1 + 1
    BY <2>1, FS_Interval
  <2>3. (IF 1 > n THEN 0 ELSE n - 1 + 1) = n
    BY <1>1
  <2> QED BY <2>2, <2>3
<1>5. s \in Injection(1..n, S)
  BY <1>3 DEF Injection
<1>6. s \in Surjection(1..n, S)
  BY <1>4, <1>5, FS_Injection
<1> HIDE DEF n
<1>7. s \in Seq(S) /\ Len(s) = n /\ DOMAIN s = 1..n
  BY <1>1, <1>3, IsASeq, LenProperties
<1>8. \A k, l \in DOMAIN s : s[k] = s[l] => k = l
  BY <1>3 DEF IsInjective
<1>9. \A x \in S : \E k \in DOMAIN s : s[k] = x
  BY <1>6, <1>7 DEF Surjection
<1>10. \A k \in DOMAIN s : s[k] \in S
  BY <1>3
<1> QED BY <1>1, <1>7, <1>8, <1>9, <1>10 DEF Enumerates, s

(* Two lists with no element in common, one after the other.               *)
LEMMA ConcatEnumerates ==
    ASSUME NEW S, NEW T, S \cap T = {}, NEW s, NEW t, Enumerates(s, S), Enumerates(t, T)
    PROVE  Enumerates(s \o t, S \cup T)
<1> DEFINE c == s \o t
<1>1. /\ s \in Seq(S \cup T) /\ t \in Seq(S \cup T)
      /\ Len(s) \in Nat /\ DOMAIN s = 1..Len(s) /\ Len(t) \in Nat /\ DOMAIN t = 1..Len(t)
  BY SeqMonotonic DEF Enumerates
<1>2. /\ c \in Seq(S \cup T) /\ Len(c) = Len(s) + Len(t)
      /\ \A i \in 1..(Len(s) + Len(t)) : c[i] = IF i <= Len(s) THEN s[i] ELSE t[i - Len(s)]
  BY <1>1, ConcatProperties
<1>3. DOMAIN c = 1..(Len(s) + Len(t)) /\ Len(c) \in Nat
  BY <1>1, <1>2, LenProperties
<1>4. \A k \in DOMAIN s : k \in DOMAIN c /\ c[k] = s[k]
  BY <1>1, <1>2, <1>3
<1>5. \A j \in DOMAIN t : Len(s) + j \in DOMAIN c /\ c[Len(s) + j] = t[j]
  <2> SUFFICES ASSUME NEW j \in DOMAIN t
               PROVE  Len(s) + j \in DOMAIN c /\ c[Len(s) + j] = t[j]
    OBVIOUS
  <2>1. /\ Len(s) + j \in 1..(Len(s) + Len(t)) /\ ~(Len(s) + j <= Len(s))
        /\ Len(s) + j - Len(s) = j
    BY <1>1
  <2> QED BY <1>2, <1>3, <2>1
<1>6. \A i \in DOMAIN c : i \in DOMAIN s \/ \E j \in DOMAIN t : i = Len(s) + j
  <2> SUFFICES ASSUME NEW i \in DOMAIN c, i \notin DOMAIN s
               PROVE  \E j \in DOMAIN t : i = Len(s) + j
    OBVIOUS
  <2>1. i - Len(s) \in DOMAIN t /\ i = Len(s) + (i - Len(s))
    BY <1>1, <1>3
  <2> QED BY <2>1
<1> HIDE DEF c
<1>7. \A k \in DOMAIN s : s[k] \in S
  BY DEF Enumerates
<1>8. \A k \in DOMAIN t : t[k] \in T
  BY DEF Enumerates
<1>9. \A i \in DOMAIN c : c[i] \in S \cup T
  BY <1>4, <1>5, <1>6, <1>7, <1>8
<1>10. ASSUME NEW i \in DOMAIN c, NEW h \in DOMAIN c, c[i] = c[h] PROVE i = h
  <2>1. CASE i \in DOMAIN s /\ h \in DOMAIN s
    BY <1>4, <1>10, <2>1 DEF Enumerates
  <2>2. CASE ~(i \in DOMAIN s) /\ ~(h \in DOMAIN s)
    <3>1. PICK j \in DOMAIN t : i = Len(s) + j
      BY <1>6, <2>2
    <3>2. PICK l \in DOMAIN t : h = Len(s) + l
      BY <1>6, <2>2
    <3>3. t[j] = t[l]
      BY <1>5, <1>10, <3>1, <3>2
    <3> QED BY <3>1, <3>2, <3>3 DEF Enumerates
  <2>3. CASE i \in DOMAIN s /\ ~(h \in DOMAIN s)
    BY <1>4, <1>5, <1>6, <1>7, <1>8, <1>10, <2>3
  <2>4. CASE ~(i \in DOMAIN s) /\ h \in DOMAIN s
    BY <1>4, <1>5, <1>6, <1>7, <1>8, <1>10, <2>4
  <2> QED BY <2>1, <2>2, <2>3, <2>4
<1>11. ASSUME NEW x \in S \cup T PROVE \E i \in DOMAIN c : c[i] = x
  <2>1. CASE x \in S
    <3>1. PICK k \in DOMAIN s : s[k] = x
      BY <2>1 DEF Enumerates
    <3> QED BY <1>4, <3>1
  <2>2. CASE x \in T
    <3>1. PICK k \in DOMAIN t : t[k] = x
      BY <2>2 DEF Enumerates
    <3> QED BY <1>5, <3>1
  <2> QED BY <2>1, <2>2
<1> QED BY <1>2, <1>3, <1>9, <1>10, <1>11 DEF Enumerates, c

(* A list of one, and one more at the end of a list.                       *)
LEMMA AppendEnumerates ==
    ASSUME NEW S, NEW x, x \notin S, NEW s, Enumerates(s, S)
    PROVE  Enumerates(<<x>>, {x}) /\ Enumerates(Append(s, x), S \cup {x})
<1>1. <<x>> \in Seq({x}) /\ Len(<<x>>) = 1 /\ DOMAIN <<x>> = 1..1 /\ <<x>>[1] = x
  OBVIOUS
<1>2. Enumerates(<<x>>, {x})
  BY <1>1 DEF Enumerates
<1>3. S \cap {x} = {}
  OBVIOUS
<1>4. Enumerates(s \o <<x>>, S \cup {x})
  BY <1>2, <1>3, ConcatEnumerates
<1>5. s \in Seq(S \cup {x})
  BY SeqMonotonic DEF Enumerates
<1>6. Append(s, x) = s \o <<x>>
  BY <1>5, AppendIsConcat
<1> QED BY <1>2, <1>4, <1>6

(* sortRuleOpaToAtLast keeps the jobs, and puts the OPA job at the end.    *)
LEMMA SortEnumerates ==
    ASSUME NEW S, NEW s, Enumerates(s, S)
    PROVE  LET r == sortRuleOpaToAtLast(s)
           IN  /\ Enumerates(r, S)
               /\ (\E x \in S : x.kind = "opa") => Len(r) \in DOMAIN r /\ r[Len(r)].kind = "opa"
<1> DEFINE n == Len(s)
           I == {i \in 1..n : s[i].kind = "opa"}
           r == sortRuleOpaToAtLast(s)
<1>1. n \in Nat /\ DOMAIN s = 1..n /\ s \in Seq(S) /\ \A k \in DOMAIN s : s[k] \in S
  BY DEF Enumerates
<1>2. CASE I = {}
  <2>1. r = s
    BY <1>2 DEF sortRuleOpaToAtLast, SelectInSeq
  <2>2. ~ \E x \in S : x.kind = "opa"
    BY <1>1, <1>2 DEF Enumerates
  <2> QED BY <2>1, <2>2
<1>3. CASE I # {}
  <2> DEFINE i == Min(I)
             t == SubSeq(s, 1, i - 1)
             u == SubSeq(s, i + 1, n)
  <2>1. I \in SUBSET Nat
    BY <1>1
  <2>2. \E x \in I : \A y \in I : x <= y
    BY <1>3, <2>1, Least
  <2>3. i \in I
    BY <2>2 DEF Min
  <2>4. r = Append(t \o u, s[i])
    <3>1. i \in Nat /\ i # 0
      BY <1>1, <2>3
    <3> QED BY <1>1, <1>3, <3>1 DEF sortRuleOpaToAtLast, SelectInSeq, RemoveAt
  <2> HIDE DEF i
  <2>5. i \in 1..n /\ s[i].kind = "opa" /\ s[i] \in S
    BY <1>1, <2>3
  <2>6. /\ t \in Seq(S) /\ Len(t) = i - 1 /\ \A k \in 1..(i - 1) : t[k] = s[k]
        /\ u \in Seq(S) /\ Len(u) = n - i /\ \A k \in 1..(n - i) : u[k] = s[i + k]
    <3>1. 1 \in 1..(n + 1) /\ i - 1 \in (1 - 1)..n /\ i + 1 \in 1..(n + 1) /\ n \in ((i + 1) - 1)..n
      BY <1>1, <2>5
    <3>2. /\ t \in Seq(S) /\ Len(t) = (IF 1 <= i - 1 THEN (i - 1) - 1 + 1 ELSE 0)
          /\ \A k \in 1..((i - 1) - 1 + 1) : t[k] = s[1 + k - 1]
      BY <1>1, <3>1, SubSeqProperties
    <3>3. /\ u \in Seq(S) /\ Len(u) = (IF i + 1 <= n THEN n - (i + 1) + 1 ELSE 0)
          /\ \A k \in 1..(n - (i + 1) + 1) : u[k] = s[(i + 1) + k - 1]
      BY <1>1, <3>1, SubSeqProperties
    <3>4. Len(t) = i - 1 /\ \A k \in 1..(i - 1) : k \in 1..((i - 1) - 1 + 1) /\ 1 + k - 1 = k
      BY <1>1, <2>5, <3>2
    <3>5. Len(u) = n - i
      <4>1. (IF i + 1 <= n THEN n - (i + 1) + 1 ELSE 0) = n - i
        BY <1>1, <2>5
      <4> QED BY <3>3, <4>1
    <3>6. \A k \in 1..(n - i) : k \in 1..(n - (i + 1) + 1) /\ (i + 1) + k - 1 = i + k
      BY <1>1, <2>5
    <3>7. \A k \in 1..(n - i) : u[k] = s[i + k]
      BY <3>3, <3>6
    <3> QED BY <3>2, <3>3, <3>4, <3>5, <3>7
  <2> HIDE DEF t, u, r, n
  <2> DEFINE c == t \o u
  <2>7. /\ c \in Seq(S) /\ Len(c) = Len(t) + Len(u)
        /\ \A k \in 1..(Len(t) + Len(u)) : c[k] = IF k <= Len(t) THEN t[k] ELSE u[k - Len(t)]
    BY <2>6, ConcatProperties
  <2>8. Len(c) = n - 1 /\ n - 1 \in Nat
    BY <1>1, <2>5, <2>6, <2>7
  <2>9. /\ \A k \in 1..(i - 1) : c[k] = s[k]
        /\ \A k \in i..(n - 1) : c[k] = s[k + 1]
    <3>1. ASSUME NEW k \in 1..(i - 1) PROVE c[k] = s[k]
      <4>1. k \in 1..(Len(t) + Len(u)) /\ k <= Len(t)
        BY <1>1, <2>5, <2>6
      <4> QED BY <2>6, <2>7, <4>1
    <3>2. ASSUME NEW k \in i..(n - 1) PROVE c[k] = s[k + 1]
      <4>1. /\ k \in 1..(Len(t) + Len(u)) /\ ~(k <= Len(t))
            /\ k - Len(t) \in 1..(n - i) /\ i + (k - Len(t)) = k + 1
        BY <1>1, <2>5, <2>6
      <4> QED BY <2>6, <2>7, <4>1
    <3> QED BY <3>1, <3>2
  <2> HIDE DEF c
  <2>10. /\ r \in Seq(S) /\ Len(r) = n /\ r[n] = s[i]
         /\ \A k \in 1..(n - 1) : r[k] = c[k]
    <3>1. /\ Append(c, s[i]) \in Seq(S) /\ Len(Append(c, s[i])) = Len(c) + 1
          /\ \A k \in 1..Len(c) : Append(c, s[i])[k] = c[k]
          /\ Append(c, s[i])[Len(c) + 1] = s[i]
      BY <2>5, <2>7, AppendProperties
    <3>2. Len(c) + 1 = n
      BY <1>1, <2>8
    <3>3. r = Append(c, s[i])
      BY <2>4 DEF c
    <3> QED BY <2>8, <3>1, <3>2, <3>3
  <2>11. DOMAIN r = 1..n
    BY <2>10, LenProperties
  <2> DEFINE pos(k) == IF k < i THEN k ELSE IF k < n THEN k + 1 ELSE i
  <2>12. \A k \in 1..n : pos(k) \in 1..n /\ r[k] = s[pos(k)]
    <3> SUFFICES ASSUME NEW k \in 1..n PROVE pos(k) \in 1..n /\ r[k] = s[pos(k)]
      OBVIOUS
    <3>1. CASE k < i
      <4>1. k \in 1..(i - 1) /\ k \in 1..(n - 1)
        BY <1>1, <2>5, <3>1
      <4> QED BY <2>9, <2>10, <3>1, <4>1
    <3>2. CASE ~(k < i) /\ k < n
      <4>1. k \in i..(n - 1) /\ k \in 1..(n - 1) /\ k + 1 \in 1..n
        BY <1>1, <2>5, <3>2
      <4> QED BY <2>9, <2>10, <3>2, <4>1
    <3>3. CASE ~(k < i) /\ ~(k < n)
      <4>1. k = n
        BY <1>1, <3>3
      <4> QED BY <2>5, <2>10, <3>3, <4>1
    <3> QED BY <3>1, <3>2, <3>3
  <2>13. \A k, l \in 1..n : pos(k) = pos(l) => k = l
    BY <1>1, <2>5
  <2>14. \A h \in 1..n : \E k \in 1..n : pos(k) = h
    <3> SUFFICES ASSUME NEW h \in 1..n PROVE \E k \in 1..n : pos(k) = h
      OBVIOUS
    <3>1. CASE h < i
      BY <3>1
    <3>2. CASE h = i
      <4>1. n \in 1..n /\ pos(n) = i
        BY <1>1, <2>5
      <4> QED BY <3>2, <4>1
    <3>3. CASE h > i
      <4>1. h - 1 \in 1..n /\ pos(h - 1) = h
        BY <1>1, <2>5, <3>3
      <4> QED BY <4>1
    <3> QED BY <2>5, <3>1, <3>2, <3>3
  <2> HIDE DEF pos
  <2>15. \A k, l \in DOMAIN r : r[k] = r[l] => k = l
    BY <1>1, <2>11, <2>12, <2>13 DEF Enumerates
  <2>16. ASSUME NEW x \in S PROVE \E k \in DOMAIN r : r[k] = x
    <3>1. PICK h \in 1..n : s[h] = x
      BY <1>1 DEF Enumerates
    <3> QED BY <2>11, <2>12, <2>14, <3>1
  <2>17. \A k \in DOMAIN r : r[k] \in S
    BY <1>1, <2>11, <2>12
  <2>18. Enumerates(r, S)
    BY <1>1, <2>10, <2>11, <2>15, <2>16, <2>17 DEF Enumerates
  <2>19. Len(r) \in DOMAIN r /\ r[Len(r)].kind = "opa"
    BY <1>1, <2>5, <2>10, <2>11
  <2> QED BY <2>18, <2>19 DEF r
<1> QED BY <1>2, <1>3

-----------------------------------------------------------------------------
(* The invariant                                                           *)

ItemLists == [i \in DOMAIN Found |-> SetRuleSchedule(Found[i])]
OpaLists == [i \in DOMAIN Found |-> rules[Found[i].rule].opas]

(* The sets of nodes an item may be given to.                              *)
GoesTo(item, nodes) == IF Wide(item) THEN {nodes} ELSE SitesOf(item, nodes)

(* A job in L has an item of that name for that node.                      *)
Given(L, name, n) ==
    \E j \in L : \E k \in DOMAIN j.items : j.items[k].name = name /\ j.items[k].node = n

(* The jobs of a node have items, all of them for that node.               *)
AreNodes(L) ==
    \A j \in L : /\ j \in Job /\ j.kind = "node" /\ 1 \in DOMAIN j.items
                 /\ \A k \in DOMAIN j.items : j.items[k].node = j.items[1].node

(* A node has one item of a name, in one job.                              *)
NoneTwice(L) ==
    \A j, h \in L : \A k \in DOMAIN j.items, l \in DOMAIN h.items :
        j.items[k].name = h.items[l].name /\ j.items[k].node = h.items[l].node
        => j = h /\ k = l

(* L has a job for each node an item is given to, and no other.            *)
Allotted(L, items, nodes) ==
    /\ AreNodes(L) /\ NoneTwice(L)
    /\ \A i \in DOMAIN items : \E W \in GoesTo(items[i], nodes) :
           \A n : n \in W <=> Given(L, items[i].name, n)

OpaJobs(opas) == IF opas = <<>> THEN {} ELSE {[kind |-> "opa", items |-> opas]}

(* list has the jobs of L, the OPA job if there is one, and the component's.*)
Lists(list, L, opas) == Enumerates(list, L \cup OpaJobs(opas) \cup {Component})

IsMerged ==
    pc \in {"generate", "store", "stored"} =>
        /\ merged.items = Merged(ItemLists) /\ merged.opas = Merged(OpaLists)
        /\ total.node = Len(merged.items) /\ total.opa = Len(merged.opas)

IsAllotted ==
    pc \in {"store", "stored"} =>
        \E L : Allotted(L, merged.items, seen) /\ Lists(jobs, L, merged.opas)

OpaIsLast ==
    pc = "stored" /\ merged.opas # <<>> =>
        Len(jobs) \in DOMAIN jobs /\ jobs[Len(jobs)].kind = "opa"

IInv == TypeOK /\ IsMerged /\ IsAllotted /\ OpaIsLast /\ StoredIsRun

-----------------------------------------------------------------------------
(* Merging, in a state                                                     *)

(* The rules found are there, and have lists.                              *)
LEMMA FoundIs ==
    ASSUME TypeOK
    PROVE  /\ Found \in Seq(Ref) /\ DOMAIN Found = 1..Len(Found) /\ Len(Found) \in Nat
           /\ \A i \in DOMAIN Found :
                  /\ Found[i] \in Ref /\ Found[i].rule \in Installed
                  /\ rules[Found[i].rule] \in RuleSpec
<1> DEFINE I == {i \in DOMAIN refs : refs[i].rule \in Installed}
<1>1. refs \in Seq(Ref) /\ I \subseteq DOMAIN refs
  BY InputAssumption DEF TypeOK
<1> HIDE DEF I
<1>2. Found = Select(refs, I)
  BY DEF Found, I
<1>3. Found \in Seq(Ref) /\ \E pos : Picks(Found, refs, I, pos)
  BY <1>1, <1>2, SelectIs
<1>4. PICK pos : Picks(Found, refs, I, pos)
  BY <1>3
<1>5. \A i \in I : refs[i].rule \in Installed
  BY DEF I
<1> HIDE DEF Found
<1>6. ASSUME NEW i \in DOMAIN Found
      PROVE  /\ Found[i] \in Ref /\ Found[i].rule \in Installed
             /\ rules[Found[i].rule] \in RuleSpec
  <2>1. Found[i].rule \in Installed
    BY <1>4, <1>5 DEF Picks
  <2>2. rules[Found[i].rule] \in RuleSpec
    BY <2>1, InputAssumption DEF TypeOK
  <2> QED BY <1>3, <2>1, <2>2, ElementOfSeq, LenProperties
<1> QED BY <1>3, <1>4, <1>6, LenProperties DEF Picks

(* The lists merged are lists of items, of which SetTarget keeps the name. *)
LEMMA ListsAre ==
    ASSUME TypeOK
    PROVE  /\ ItemLists \in Seq(Seq(Item)) /\ OpaLists \in Seq(Seq([name : Names]))
           /\ DOMAIN ItemLists = DOMAIN Found /\ DOMAIN OpaLists = DOMAIN Found
           /\ Len(ItemLists) = Len(Found) /\ Len(OpaLists) = Len(Found)
           /\ \A i \in DOMAIN Found :
                  /\ DOMAIN ItemLists[i] = DOMAIN rules[Found[i].rule].items
                  /\ OpaLists[i] = rules[Found[i].rule].opas
                  /\ \A j \in DOMAIN ItemLists[i] :
                         /\ rules[Found[i].rule].items[j] \in Item
                         /\ ItemLists[i][j] = SetTarget(rules[Found[i].rule].items[j], Found[i])
                         /\ ItemLists[i][j].name = rules[Found[i].rule].items[j].name
<1>1. /\ DOMAIN Found = 1..Len(Found) /\ Len(Found) \in Nat
      /\ \A i \in DOMAIN Found : /\ Found[i] \in Ref /\ Found[i].rule \in Installed
                                 /\ rules[Found[i].rule] \in RuleSpec
  BY FoundIs
<1> HIDE DEF Found
<1>2. ASSUME NEW item \in Item, NEW ref \in Ref
      PROVE  SetTarget(item, ref) \in Item /\ SetTarget(item, ref).name = item.name
  BY DEF SetTarget, Item, Ref
<1>3. ASSUME NEW i \in DOMAIN Found
      PROVE  /\ SetRuleSchedule(Found[i]) \in Seq(Item)
             /\ DOMAIN SetRuleSchedule(Found[i]) = DOMAIN rules[Found[i].rule].items
             /\ \A j \in DOMAIN rules[Found[i].rule].items :
                    /\ rules[Found[i].rule].items[j] \in Item
                    /\ SetRuleSchedule(Found[i])[j]
                       = SetTarget(rules[Found[i].rule].items[j], Found[i])
  <2> DEFINE items == rules[Found[i].rule].items
             s == [j \in DOMAIN items |-> SetTarget(items[j], Found[i])]
  <2>1. items \in Seq(Item) /\ Found[i] \in Ref
    BY <1>1 DEF RuleSpec
  <2>2. s = SetRuleSchedule(Found[i])
    BY DEF SetRuleSchedule
  <2> HIDE DEF items
  <2>3. DOMAIN items = 1..Len(items) /\ Len(items) \in Nat
    BY <2>1, LenProperties
  <2>4. \A j \in DOMAIN items : items[j] \in Item
    BY <2>1, <2>3, ElementOfSeq
  <2>5. s \in [1..Len(items) -> Item]
    BY <1>2, <2>1, <2>3, <2>4
  <2>6. s \in Seq(Item)
    BY <2>3, <2>5, IsASeq
  <2>7. DOMAIN s = DOMAIN items /\ \A j \in DOMAIN items : s[j] = SetTarget(items[j], Found[i])
    OBVIOUS
  <2> QED BY <2>2, <2>4, <2>6, <2>7 DEF items
<1>4. ASSUME NEW i \in DOMAIN Found PROVE rules[Found[i].rule].opas \in Seq([name : Names])
  BY <1>1 DEF RuleSpec
<1>5. ItemLists \in [1..Len(Found) -> Seq(Item)] /\ OpaLists \in [1..Len(Found) -> Seq([name : Names])]
  BY <1>1, <1>3, <1>4 DEF ItemLists, OpaLists
<1>6. ItemLists \in Seq(Seq(Item)) /\ OpaLists \in Seq(Seq([name : Names]))
  BY <1>1, <1>5, IsList
<1>7. Len(ItemLists) = Len(Found) /\ Len(OpaLists) = Len(Found)
  BY <1>1, <1>5, IsList
<1>8. \A i \in DOMAIN Found : /\ ItemLists[i] = SetRuleSchedule(Found[i])
                              /\ OpaLists[i] = rules[Found[i].rule].opas
  BY DEF ItemLists, OpaLists
<1>9. \A i \in DOMAIN Found : \A j \in DOMAIN rules[Found[i].rule].items :
          SetTarget(rules[Found[i].rule].items[j], Found[i]).name = rules[Found[i].rule].items[j].name
  BY <1>1, <1>2, <1>3
<1>10. DOMAIN ItemLists = DOMAIN Found /\ DOMAIN OpaLists = DOMAIN Found
  BY DEF ItemLists, OpaLists
<1>11. ASSUME NEW i \in DOMAIN Found
       PROVE  /\ DOMAIN ItemLists[i] = DOMAIN rules[Found[i].rule].items
              /\ OpaLists[i] = rules[Found[i].rule].opas
              /\ \A j \in DOMAIN ItemLists[i] :
                     /\ rules[Found[i].rule].items[j] \in Item
                     /\ ItemLists[i][j] = SetTarget(rules[Found[i].rule].items[j], Found[i])
                     /\ ItemLists[i][j].name = rules[Found[i].rule].items[j].name
  BY <1>3, <1>8, <1>9
<1> QED BY <1>6, <1>7, <1>10, <1>11

(* As many elements are merged as there are names.                         *)
LEMMA MergedCounts ==
    ASSUME NEW X, NEW lists \in Seq(Seq(X)), NEW T,
           \A x : x \in T <=> \E i \in DOMAIN lists : \E j \in DOMAIN lists[i] : x = lists[i][j].name
    PROVE  Len(Merged(lists)) = Cardinality(T)
<1> DEFINE m == Merged(lists)
<1>1. m \in Seq(X) /\ MergedUpTo(m, lists, Len(lists))
  BY MergedIs
<1>2. DOMAIN lists = 1..Len(lists) /\ DOMAIN m = 1..Len(m) /\ Len(m) \in Nat
  BY <1>1, LenProperties
<1> HIDE DEF m
<1> DEFINE f == [k \in 1..Len(m) |-> m[k].name]
<1>3. ASSUME NEW k \in DOMAIN m PROVE m[k].name \in T
  <2>1. \E i \in 1..Len(lists) : \E j \in DOMAIN lists[i] : m[k] = lists[i][j]
    BY <1>1 DEF MergedUpTo
  <2> QED BY <1>2, <2>1
<1>4. ASSUME NEW x \in T PROVE \E k \in DOMAIN m : m[k].name = x
  <2>1. \A i \in 1..Len(lists) : \A j \in DOMAIN lists[i] :
            \E k \in DOMAIN m : m[k].name = lists[i][j].name
    BY <1>1 DEF MergedUpTo
  <2>2. PICK i \in 1..Len(lists) : \E j \in DOMAIN lists[i] : x = lists[i][j].name
    BY <1>2
  <2>3. PICK j \in DOMAIN lists[i] : x = lists[i][j].name
    BY <2>2
  <2>4. \E k \in DOMAIN m : m[k].name = lists[i][j].name
    BY <2>1
  <2> QED BY <2>3, <2>4
<1>9. f \in [1..Len(m) -> T] /\ \A k \in 1..Len(m) : f[k] = m[k].name
  <2>1. \A k \in 1..Len(m) : m[k].name \in T
    BY <1>2, <1>3
  <2> QED BY <2>1
<1> HIDE DEF f
<1>10. \A k, l \in 1..Len(m) : f[k] = f[l] => k = l
  BY <1>1, <1>2, <1>9 DEF MergedUpTo, Distinct
<1>5. f \in Injection(1..Len(m), T)
  BY <1>9, <1>10 DEF Injection, IsInjective
<1>6. f \in Surjection(1..Len(m), T)
  BY <1>2, <1>4, <1>9 DEF Surjection
<1>7. IsFiniteSet(1..Len(m)) /\ Cardinality(1..Len(m)) = Len(m)
  <2>1. 1 \in Int /\ Len(m) \in Int
    BY <1>2
  <2>2. /\ IsFiniteSet(1..Len(m))
        /\ Cardinality(1..Len(m)) = IF 1 > Len(m) THEN 0 ELSE Len(m) - 1 + 1
    BY <2>1, FS_Interval
  <2>3. (IF 1 > Len(m) THEN 0 ELSE Len(m) - 1 + 1) = Len(m)
    BY <1>2
  <2> QED BY <2>2, <2>3
<1>8. Cardinality(T) = Cardinality(1..Len(m))
  BY <1>5, <1>6, <1>7, FS_Surjection
<1> QED BY <1>7, <1>8 DEF m

(* The two lists merged, and how many names they have.                     *)
LEMMA MergeIs ==
    ASSUME TypeOK
    PROVE  /\ Merged(ItemLists) \in Seq(Item) /\ Merged(OpaLists) \in Seq([name : Names])
           /\ Len(Merged(ItemLists)) \in Nat /\ Len(Merged(OpaLists)) \in Nat
           /\ MergedUpTo(Merged(ItemLists), ItemLists, Len(ItemLists))
           /\ MergedUpTo(Merged(OpaLists), OpaLists, Len(OpaLists))
           /\ Len(Merged(ItemLists)) = Cardinality({At(p).name : p \in Places})
           /\ Len(Merged(OpaLists)) = Cardinality(UNION {{rules[Found[i].rule].opas[k].name :
                           k \in DOMAIN rules[Found[i].rule].opas} : i \in DOMAIN Found})
<1> DEFINE T == {At(p).name : p \in Places}
           U == UNION {{rules[Found[i].rule].opas[k].name :
                           k \in DOMAIN rules[Found[i].rule].opas} : i \in DOMAIN Found}
<1>1. /\ ItemLists \in Seq(Seq(Item)) /\ OpaLists \in Seq(Seq([name : Names]))
      /\ DOMAIN ItemLists = DOMAIN Found /\ DOMAIN OpaLists = DOMAIN Found
      /\ \A i \in DOMAIN Found :
             /\ DOMAIN ItemLists[i] = DOMAIN rules[Found[i].rule].items
             /\ OpaLists[i] = rules[Found[i].rule].opas
             /\ \A j \in DOMAIN ItemLists[i] :
                    ItemLists[i][j].name = rules[Found[i].rule].items[j].name
  BY ListsAre
<1>2. \A x : x \in T <=> \E i \in DOMAIN ItemLists : \E j \in DOMAIN ItemLists[i] : x = ItemLists[i][j].name
  <2>1. ASSUME NEW p \in Places
        PROVE  \E i \in DOMAIN ItemLists : \E j \in DOMAIN ItemLists[i] : At(p).name = ItemLists[i][j].name
    <3>1. p[1] \in DOMAIN Found /\ p[2] \in DOMAIN rules[Found[p[1]].rule].items
      BY DEF Places
    <3>2. At(p).name = ItemLists[p[1]][p[2]].name
      BY <1>1, <3>1 DEF At
    <3> QED BY <1>1, <3>1, <3>2
  <2>2. ASSUME NEW i \in DOMAIN ItemLists, NEW j \in DOMAIN ItemLists[i]
        PROVE  <<i, j>> \in Places /\ At(<<i, j>>).name = ItemLists[i][j].name
    BY <1>1 DEF At, Places
  <2> QED BY <2>1, <2>2
<1>3. \A x : x \in U <=> \E i \in DOMAIN OpaLists : \E j \in DOMAIN OpaLists[i] : x = OpaLists[i][j].name
  <2>1. \A i \in DOMAIN Found : OpaLists[i] = rules[Found[i].rule].opas
    BY <1>1
  <2> DEFINE V(i) == {rules[Found[i].rule].opas[k].name : k \in DOMAIN rules[Found[i].rule].opas}
  <2>2. \A i \in DOMAIN Found : \A x :
            x \in V(i) <=> \E j \in DOMAIN OpaLists[i] : x = OpaLists[i][j].name
    <3> SUFFICES ASSUME NEW i \in DOMAIN Found
                 PROVE  \A x : x \in V(i) <=> \E j \in DOMAIN OpaLists[i] : x = OpaLists[i][j].name
      OBVIOUS
    <3>1. OpaLists[i] = rules[Found[i].rule].opas
      BY <2>1
    <3> QED BY <3>1
  <2>3. U = UNION {V(i) : i \in DOMAIN Found}
    OBVIOUS
  <2> HIDE DEF U, V
  <2>4. \A x : x \in U <=> \E i \in DOMAIN Found : x \in V(i)
    BY <2>3
  <2> QED BY <1>1, <2>2, <2>4
<1> HIDE DEF T, U
<1>4. Len(Merged(ItemLists)) = Cardinality(T)
  BY <1>1, <1>2, MergedCounts
<1>5. Len(Merged(OpaLists)) = Cardinality(U)
  BY <1>1, <1>3, MergedCounts
<1>6. /\ Merged(ItemLists) \in Seq(Item)
      /\ MergedUpTo(Merged(ItemLists), ItemLists, Len(ItemLists))
  BY <1>1, MergedIs
<1>7. /\ Merged(OpaLists) \in Seq([name : Names])
      /\ MergedUpTo(Merged(OpaLists), OpaLists, Len(OpaLists))
  BY <1>1, MergedIs
<1>8. Len(Merged(ItemLists)) \in Nat /\ Len(Merged(OpaLists)) \in Nat
  BY <1>6, <1>7, LenProperties
<1> QED BY <1>4, <1>5, <1>6, <1>7, <1>8 DEF T, U

-----------------------------------------------------------------------------
(* Allocation                                                              *)

(* The job of a node, with the items of a list at the indices in I.        *)
JobFor(j, list, n, I) ==
    /\ j \in Job /\ j.kind = "node" /\ 1 \in DOMAIN j.items
    /\ \A k \in DOMAIN j.items : j.items[k].node = n /\ \E i \in I : j.items[k].name = list[i].name
    /\ \A i \in I : \E k \in DOMAIN j.items : j.items[k].name = list[i].name
    /\ \A k, l \in DOMAIN j.items : j.items[k].name = j.items[l].name => k = l

(* L has the jobs of the items of a list, each of them on its nodes.       *)
AllottedFrom(L, list, given) ==
    /\ IsFiniteSet(L) /\ AreNodes(L) /\ NoneTwice(L)
    /\ \A i \in DOMAIN list : \A n : n \in given[i] <=> Given(L, list[i].name, n)
    /\ \A j \in L : \A k \in DOMAIN j.items : \E i \in DOMAIN list : j.items[k].name = list[i].name

Share(list, given, n) == {i \in DOMAIN list : n \in given[i]}

(* L has one job for each node of N, with its share of the items.          *)
OnePerNode(job, N, L, list, given) ==
    /\ IsFiniteSet(N) /\ \A i \in DOMAIN list : given[i] \subseteq N
    /\ job \in [N -> L] /\ \A j \in L : \E n \in N : job[n] = j
    /\ \A n \in N : JobFor(job[n], list, n, Share(list, given, n))

(* One job for each node: the items are where they were given to.          *)
LEMMA JobsAre ==
    ASSUME NEW N, NEW L, NEW list, Distinct(list), NEW given, NEW job,
           OnePerNode(job, N, L, list, given)
    PROVE  AllottedFrom(L, list, given)
<1> DEFINE I(n) == Share(list, given, n)
<1> USE DEF OnePerNode
<1>0. \A n \in N : /\ JobFor(job[n], list, n, I(n))
                   /\ \A i : i \in I(n) <=> i \in DOMAIN list /\ n \in given[i]
  BY DEF Share
<1>1. IsFiniteSet(L)
  <2>1. job \in Surjection(N, L)
    BY DEF Surjection
  <2> QED BY <2>1, FS_Surjection
<1>2. AreNodes(L)
  <2> SUFFICES ASSUME NEW j \in L
               PROVE  /\ j \in Job /\ j.kind = "node" /\ 1 \in DOMAIN j.items
                      /\ \A k \in DOMAIN j.items : j.items[k].node = j.items[1].node
    BY DEF AreNodes
  <2>1. PICK n \in N : job[n] = j
    OBVIOUS
  <2> HIDE DEF I
  <2> QED BY <1>0, <2>1 DEF JobFor
<1>3. NoneTwice(L)
  <2> SUFFICES ASSUME NEW j \in L, NEW h \in L, NEW k \in DOMAIN j.items, NEW l \in DOMAIN h.items,
                      j.items[k].name = h.items[l].name, j.items[k].node = h.items[l].node
               PROVE  j = h /\ k = l
    BY DEF NoneTwice
  <2>1. PICK n \in N : job[n] = j
    OBVIOUS
  <2>2. PICK m \in N : job[m] = h
    OBVIOUS
  <2> HIDE DEF I
  <2>3. j.items[k].node = n /\ h.items[l].node = m
    BY <1>0, <2>1, <2>2 DEF JobFor
  <2>4. j = h
    BY <2>1, <2>2, <2>3
  <2> QED BY <1>0, <2>1, <2>4 DEF JobFor
<1>4. ASSUME NEW i \in DOMAIN list, NEW n
      PROVE  n \in given[i] <=> Given(L, list[i].name, n)
  <2>1. ASSUME n \in given[i] PROVE Given(L, list[i].name, n)
    <3>1. n \in N /\ i \in I(n)
      BY <1>0, <2>1
    <3> HIDE DEF I
    <3>2. \E k \in DOMAIN job[n].items : job[n].items[k].name = list[i].name
      BY <1>0, <3>1 DEF JobFor
    <3>3. \A k \in DOMAIN job[n].items : job[n].items[k].node = n
      BY <1>0, <3>1 DEF JobFor
    <3>4. job[n] \in L
      BY <3>1
    <3> QED BY <3>2, <3>3, <3>4 DEF Given
  <2>2. ASSUME Given(L, list[i].name, n) PROVE n \in given[i]
    <3>1. PICK j \in L : \E k \in DOMAIN j.items : j.items[k].name = list[i].name /\ j.items[k].node = n
      BY <2>2 DEF Given
    <3>2. PICK k \in DOMAIN j.items : j.items[k].name = list[i].name /\ j.items[k].node = n
      BY <3>1
    <3>3. PICK m \in N : job[m] = j
      OBVIOUS
    <3> HIDE DEF I
    <3>4. m = n
      BY <1>0, <3>2, <3>3 DEF JobFor
    <3>5. PICK g \in I(m) : j.items[k].name = list[g].name
      BY <1>0, <3>3 DEF JobFor
    <3>6. g \in DOMAIN list /\ m \in given[g]
      BY <1>0
    <3>7. g = i
      BY <3>2, <3>5, <3>6 DEF Distinct
    <3> QED BY <3>4, <3>6, <3>7
  <2> QED BY <2>1, <2>2
<1>5. ASSUME NEW j \in L, NEW k \in DOMAIN j.items
      PROVE  \E i \in DOMAIN list : j.items[k].name = list[i].name
  <2>1. PICK n \in N : job[n] = j
    OBVIOUS
  <2> HIDE DEF I
  <2>2. \E i \in I(n) : j.items[k].name = list[i].name
    BY <1>0, <2>1 DEF JobFor
  <2> QED BY <1>0, <2>2
<1> QED BY <1>1, <1>2, <1>3, <1>4, <1>5 DEF AllottedFrom

(* What a job has of an item.                                              *)
LEMMA CopyIs ==
    ASSUME NEW item \in Item, NEW n \in Sites
    PROVE  /\ [item EXCEPT !.node = n] \in [name : Names, node : Sites, sel : SUBSET Labels]
           /\ [item EXCEPT !.node = n].name = item.name
           /\ [item EXCEPT !.node = n].node = n
BY DEF Item

(* mergeNodeRule gives each item to the nodes picked for it, and to no     *)
(* other.                                                                  *)
LEMMA MergeNodeRuleIs ==
    ASSUME InputAssumption, NEW list \in Seq(Item), Distinct(list),
           NEW given \in [DOMAIN list -> SUBSET Sites]
    PROVE  AllottedFrom(mergeNodeRule(list, given), list, given)
<1> DEFINE NodeItem == [name : Names, node : Sites, sel : SUBSET Labels]
           N == UNION {given[i] : i \in DOMAIN list}
           L == mergeNodeRule(list, given)
           copies(n) == [i \in DOMAIN list |-> CopyFor(list[i], n, given[i])]
           I(n) == Share(list, given, n)
           job == [n \in N |-> [kind |-> "node", items |-> Select(copies(n), I(n))]]
<1>1. DOMAIN list = 1..Len(list) /\ Len(list) \in Nat /\ \A i \in DOMAIN list : list[i] \in Item
  BY LenProperties, ElementOfSeq
<1>2. N \subseteq Sites /\ \A i \in DOMAIN list : given[i] \subseteq N
  OBVIOUS
<1>3. IsFiniteSet(N)
  <2>1. IsFiniteSet(Sites)
    BY FS_Union DEF InputAssumption, Sites
  <2> HIDE DEF N
  <2> QED BY <1>2, <2>1, FS_Subset
<1>4. L = {[kind |-> "node", items |-> Select(copies(n), I(n))] : n \in N}
  BY DEF mergeNodeRule, Share
<1>5. job \in [N -> L] /\ \A j \in L : \E n \in N : job[n] = j
  <2> HIDE DEF N, L, copies, I
  <2> QED BY <1>4
<1>6. ASSUME NEW n \in N PROVE JobFor(job[n], list, n, I(n))
  <2> DEFINE s == Select(copies(n), I(n))
  <2>1. n \in Sites /\ \E i \in DOMAIN list : n \in given[i]
    OBVIOUS
  <2>2. /\ DOMAIN copies(n) = DOMAIN list
        /\ \A i \in DOMAIN list : /\ copies(n)[i] \in NodeItem /\ copies(n)[i].name = list[i].name
                                  /\ copies(n)[i].node = n
    BY <1>1, <2>1, CopyIs DEF CopyFor
  <2>3. job[n].kind = "node" /\ job[n].items = s /\ job[n] = [kind |-> "node", items |-> s]
    BY DEF job
  <2>4. I(n) \subseteq DOMAIN list /\ I(n) # {}
    BY <2>1 DEF Share
  <2>5. DOMAIN copies(n) = 1..Len(list)
    BY <1>1, <2>2
  <2> HIDE DEF copies, job, N, NodeItem, I
  <2>6. copies(n) \in Seq(NodeItem)
    <3>1. copies(n) \in [1..Len(list) -> NodeItem]
      BY <1>1, <2>2 DEF copies
    <3> QED BY <1>1, <3>1, IsList
  <2>7. s \in Seq(NodeItem) /\ \E pos : Picks(s, copies(n), I(n), pos)
    BY <2>2, <2>4, <2>6, SelectIs
  <2> HIDE DEF s
  <2>8. PICK pos : Picks(s, copies(n), I(n), pos)
    BY <2>7
  <2>9. job[n] \in Job
    BY <2>3, <2>7 DEF Job, NodeItem
  <2>10. 1 \in DOMAIN s
    <3>1. DOMAIN s = 1..Len(s) /\ Len(s) \in Nat /\ DOMAIN s # {}
      BY <2>4, <2>8 DEF Picks
    <3> QED BY <3>1
  <2>11. ASSUME NEW k \in DOMAIN s
         PROVE  pos[k] \in I(n) /\ s[k].node = n /\ s[k].name = list[pos[k]].name
    BY <2>2, <2>4, <2>8 DEF Picks
  <2>12. ASSUME NEW i \in I(n) PROVE \E k \in DOMAIN s : s[k].name = list[i].name
    BY <2>8, <2>11 DEF Picks
  <2>13. ASSUME NEW k \in DOMAIN s, NEW l \in DOMAIN s, s[k].name = s[l].name PROVE k = l
    <3>1. pos[k] = pos[l]
      BY <2>4, <2>11, <2>13 DEF Distinct
    <3> QED BY <2>8, <3>1 DEF Picks
  <2> QED BY <2>3, <2>9, <2>10, <2>11, <2>12, <2>13 DEF JobFor
<1> HIDE DEF N, L, job
<1>7. AllottedFrom(L, list, given)
  BY <1>2, <1>3, <1>5, <1>6, JobsAre DEF OnePerNode
<1> QED BY <1>7 DEF L

(* The other items go to every node.                                       *)
LEMMA WideJobsAre ==
    ASSUME InputAssumption, NEW list \in Seq(Item), Distinct(list), NEW nodes \in SUBSET Nodes
    PROVE  AllottedFrom(wideJobs(list, nodes), list, [i \in DOMAIN list |-> nodes])
<1> DEFINE NodeItem == [name : Names, node : Sites, sel : SUBSET Labels]
           N == IF list = <<>> THEN {} ELSE nodes
           L == wideJobs(list, nodes)
           given == [i \in DOMAIN list |-> nodes]
           copies(n) == [i \in DOMAIN list |-> [list[i] EXCEPT !.node = n]]
           I(n) == Share(list, given, n)
           job == [n \in N |-> [kind |-> "node", items |-> copies(n)]]
<1>1. DOMAIN list = 1..Len(list) /\ Len(list) \in Nat /\ \A i \in DOMAIN list : list[i] \in Item
  BY LenProperties, ElementOfSeq
<1>2. N \subseteq Nodes /\ (list = <<>> => DOMAIN list = {})
  BY EmptySeq
<1>3. IsFiniteSet(N)
  <2> HIDE DEF N
  <2> QED BY <1>2, FS_Subset DEF InputAssumption
<1>4. L = {[kind |-> "node", items |-> copies(n)] : n \in N}
  BY DEF wideJobs
<1>5. job \in [N -> L] /\ \A j \in L : \E n \in N : job[n] = j
  <2> HIDE DEF N, L, copies
  <2> QED BY <1>4
<1>6. \A i \in DOMAIN list : given[i] \subseteq N
  BY <1>2
<1>7. ASSUME NEW n \in N PROVE JobFor(job[n], list, n, I(n))
  <2> DEFINE s == copies(n)
  <2>1. n \in Sites /\ n \in nodes /\ list # <<>>
    BY DEF Sites
  <2>2. /\ DOMAIN s = DOMAIN list
        /\ \A i \in DOMAIN list : s[i] \in NodeItem /\ s[i].name = list[i].name /\ s[i].node = n
    BY <1>1, <2>1, CopyIs
  <2>3. job[n].kind = "node" /\ job[n].items = s /\ job[n] = [kind |-> "node", items |-> s]
    BY DEF job
  <2>4. I(n) = DOMAIN list
    BY <2>1 DEF Share
  <2>5. 1 \in DOMAIN list
    <3>1. Len(list) # 0
      BY <2>1, EmptySeq
    <3> QED BY <1>1, <3>1
  <2>6. s \in Seq(NodeItem)
    <3>1. s \in [1..Len(list) -> NodeItem]
      BY <1>1, <2>2 DEF copies
    <3> HIDE DEF s
    <3> QED BY <1>1, <3>1, IsList
  <2> HIDE DEF s, job, N, I
  <2>7. job[n] \in Job
    BY <2>3, <2>6 DEF Job, NodeItem
  <2>8. ASSUME NEW k \in DOMAIN s, NEW l \in DOMAIN s, s[k].name = s[l].name PROVE k = l
    BY <2>2, <2>8 DEF Distinct
  <2> QED BY <2>2, <2>3, <2>4, <2>5, <2>7, <2>8 DEF JobFor
<1> HIDE DEF N, L, job, given
<1>8. AllottedFrom(L, list, given)
  BY <1>3, <1>5, <1>6, <1>7, JobsAre DEF OnePerNode
<1> QED BY <1>8 DEF L, given

(* An item is given to nodes of the cluster, or to the one it names.       *)
LEMMA SitesOfAre ==
    ASSUME NEW item, NEW nodes \in SUBSET Nodes, NEW W \in SitesOf(item, nodes)
    PROVE  W \subseteq Sites
BY DEF SitesOf, PickedByLast, Sites

(* AllocationRule: jobs for the nodes each item goes to, and for no other. *)
LEMMA AllocationIs ==
    ASSUME InputAssumption, NEW items \in Seq(Item), Distinct(items), NEW nodes \in SUBSET Nodes,
           NEW given, given \in [DOMAIN Narrow(items) -> SUBSET Sites],
           \A i \in DOMAIN Narrow(items) : given[i] \in SitesOf(Narrow(items)[i], nodes)
    PROVE  \E L : Allotted(L, items, nodes) /\ Enumerates(AllocationRule(items, nodes, given), L)
<1> DEFINE NI == {i \in DOMAIN items : ~Wide(items[i])}
           WI == {i \in DOMAIN items : Wide(items[i])}
           NL == Select(items, NI)
           WL == Select(items, WI)
           M == mergeNodeRule(NL, given)
           V == wideJobs(WL, nodes)
           all == [i \in DOMAIN WL |-> nodes]
<1>1. Narrow(items) = NL
  BY DEF Narrow
<1>2. /\ NI \subseteq DOMAIN items /\ \A i \in NI : ~Wide(items[i])
      /\ WI \subseteq DOMAIN items /\ \A i \in WI : Wide(items[i])
      /\ \A i \in DOMAIN items : IF Wide(items[i]) THEN i \in WI ELSE i \in NI
  OBVIOUS
<1>3. AllocationRule(items, nodes, given) = SetToSeq(M) \o SetToSeq(V)
  BY <1>1 DEF AllocationRule
<1> HIDE DEF NI, WI
<1>4. NL \in Seq(Item) /\ \E pos : Picks(NL, items, NI, pos)
  BY <1>2, SelectIs
<1>5. WL \in Seq(Item) /\ \E pos : Picks(WL, items, WI, pos)
  BY <1>2, SelectIs
<1> HIDE DEF NL, WL
<1>6. PICK posN : Picks(NL, items, NI, posN)
  BY <1>4
<1>7. PICK posW : Picks(WL, items, WI, posW)
  BY <1>5
<1>8. Distinct(NL)
  BY <1>2, <1>6 DEF Distinct, Picks
<1>9. Distinct(WL)
  BY <1>2, <1>7 DEF Distinct, Picks
<1>10. AllottedFrom(M, NL, given)
  BY <1>1, <1>4, <1>8, MergeNodeRuleIs
<1>11. AllottedFrom(V, WL, all)
  BY <1>5, <1>9, WideJobsAre
<1> HIDE DEF M, V
<1>12. ASSUME NEW j \in M, NEW k \in DOMAIN j.items
       PROVE  \E i \in NI : j.items[k].name = items[i].name
  BY <1>6, <1>10 DEF AllottedFrom, Picks
<1>13. ASSUME NEW j \in V, NEW k \in DOMAIN j.items
       PROVE  \E i \in WI : j.items[k].name = items[i].name
  BY <1>7, <1>11 DEF AllottedFrom, Picks
<1>14. \A i \in NI, h \in WI : items[i].name # items[h].name
  BY <1>2 DEF Distinct
<1>15. ASSUME NEW j \in M, NEW h \in V, NEW k \in DOMAIN j.items, NEW l \in DOMAIN h.items
       PROVE  j.items[k].name # h.items[l].name
  BY <1>12, <1>13, <1>14
<1>16. AreNodes(M) /\ AreNodes(V) /\ NoneTwice(M) /\ NoneTwice(V)
       /\ IsFiniteSet(M) /\ IsFiniteSet(V)
  BY <1>10, <1>11 DEF AllottedFrom
<1>17. M \cap V = {}
  BY <1>15, <1>16 DEF AreNodes
<1>18. Enumerates(SetToSeq(M) \o SetToSeq(V), M \cup V)
  BY <1>16, <1>17, SetToSeqIs, ConcatEnumerates
<1>19. AreNodes(M \cup V)
  BY <1>16 DEF AreNodes
<1>20. NoneTwice(M \cup V)
  <2> SUFFICES ASSUME NEW j \in M \cup V, NEW h \in M \cup V,
                      NEW k \in DOMAIN j.items, NEW l \in DOMAIN h.items,
                      j.items[k].name = h.items[l].name, j.items[k].node = h.items[l].node
               PROVE  j = h /\ k = l
    BY DEF NoneTwice
  <2>1. j \in M <=> h \in M
    BY <1>15
  <2>2. CASE j \in M /\ h \in M
    BY <1>16, <2>2 DEF NoneTwice
  <2>3. CASE j \in V /\ h \in V
    BY <1>16, <2>3 DEF NoneTwice
  <2> QED BY <2>1, <2>2, <2>3
<1>21. \A name, n : Given(M \cup V, name, n) <=> Given(M, name, n) \/ Given(V, name, n)
  BY DEF Given
<1>22. ASSUME NEW i \in DOMAIN items
       PROVE  \E W \in GoesTo(items[i], nodes) : \A n : n \in W <=> Given(M \cup V, items[i].name, n)
  <2>1. CASE Wide(items[i])
    <3>1. i \in WI
      BY <1>2, <2>1
    <3>2. PICK k \in DOMAIN WL : items[i] = WL[k]
      BY <1>7, <3>1 DEF Picks
    <3>3. \A n : n \in nodes <=> Given(V, items[i].name, n)
      <4>1. \A n : n \in all[k] <=> Given(V, WL[k].name, n)
        BY <1>11 DEF AllottedFrom
      <4> QED BY <3>2, <4>1
    <3>4. \A n : ~Given(M, items[i].name, n)
      BY <1>12, <1>14, <3>1 DEF Given
    <3>5. nodes \in GoesTo(items[i], nodes)
      BY <2>1 DEF GoesTo
    <3> QED BY <1>21, <3>3, <3>4, <3>5
  <2>2. CASE ~Wide(items[i])
    <3>1. i \in NI
      BY <1>2, <2>2
    <3>2. PICK k \in DOMAIN NL : items[i] = NL[k]
      BY <1>6, <3>1 DEF Picks
    <3>3. \A n : n \in given[k] <=> Given(M, items[i].name, n)
      BY <1>10, <3>2 DEF AllottedFrom
    <3>4. \A n : ~Given(V, items[i].name, n)
      BY <1>13, <1>14, <3>1 DEF Given
    <3>5. given[k] \in GoesTo(items[i], nodes)
      BY <1>1, <2>2, <3>2 DEF GoesTo
    <3> QED BY <1>21, <3>3, <3>4, <3>5
  <2> QED BY <2>1, <2>2
<1>23. Allotted(M \cup V, items, nodes)
  BY <1>19, <1>20, <1>22 DEF Allotted
<1> QED BY <1>3, <1>18, <1>23

-----------------------------------------------------------------------------
(* The jobs of a cluster                                                   *)

(* The jobs of the nodes, then or before them the OPA's, and at the end    *)
(* that of the components.                                                 *)
LEMMA ListsJobs ==
    ASSUME NEW local, NEW L, Enumerates(local, L), AreNodes(L),
           NEW opas \in Seq([name : Names])
    PROVE  LET o == Allocation(opas)
           IN  /\ Lists(Append(local \o o, Component), L, opas)
               /\ Lists(Append(o \o local, Component), L, opas)
<1> DEFINE o == Allocation(opas)
           O == OpaJobs(opas)
<1>1. \A j \in L : j.kind = "node"
  BY DEF AreNodes
<1>2. \A j \in O : j.kind = "opa"
  BY DEF OpaJobs
<1>3. Component.kind = "component"
  BY DEF Component
<1>4. Enumerates(o, O)
  <2>1. CASE opas = <<>>
    <3>1. o = <<>> /\ O = {}
      BY <2>1 DEF Allocation, OpaJobs
    <3>2. <<>> \in Seq({}) /\ Len(<<>>) = 0 /\ DOMAIN <<>> = {} /\ 1..0 = {}
      BY EmptySeq
    <3>3. Enumerates(<<>>, {})
      BY <3>2 DEF Enumerates
    <3> QED BY <3>1, <3>3
  <2>2. CASE opas # <<>>
    <3> DEFINE x == [kind |-> "opa", items |-> opas]
    <3>1. o = <<x>> /\ O = {x}
      BY <2>2 DEF Allocation, OpaJobs
    <3> HIDE DEF x
    <3>2. <<x>> \in Seq({x}) /\ Len(<<x>>) = 1 /\ DOMAIN <<x>> = 1..1 /\ <<x>>[1] = x
      OBVIOUS
    <3>3. Enumerates(<<x>>, {x})
      BY <3>2 DEF Enumerates
    <3> QED BY <3>1, <3>3
  <2> QED BY <2>1, <2>2
<1>5. L \cap O = {} /\ O \cap L = {} /\ Component \notin L \cup O
  BY <1>1, <1>2, <1>3
<1> HIDE DEF o, O
<1>6. Enumerates(local \o o, L \cup O) /\ Enumerates(o \o local, O \cup L)
  BY <1>4, <1>5, ConcatEnumerates
<1>7. O \cup L = L \cup O
  OBVIOUS
<1>8. /\ Enumerates(Append(local \o o, Component), L \cup O \cup {Component})
      /\ Enumerates(Append(o \o local, Component), L \cup O \cup {Component})
  BY <1>5, <1>6, <1>7, AppendEnumerates
<1> QED BY <1>8 DEF Lists, o, O

(* What is listed are jobs.                                                *)
LEMMA ListsAreJobs ==
    ASSUME NEW L, AreNodes(L), NEW opas \in Seq([name : Names]), NEW list, Lists(list, L, opas)
    PROVE  list \in Seq(Job)
<1> DEFINE J == L \cup OpaJobs(opas) \cup {Component}
<1>1. Component \in Job
  BY DEF Component, Job
<1>2. OpaJobs(opas) \subseteq Job
  BY DEF OpaJobs, Job
<1>3. L \subseteq Job
  BY DEF AreNodes
<1>4. J \subseteq Job
  BY <1>1, <1>2, <1>3
<1>5. list \in Seq(J)
  BY DEF Lists, Enumerates
<1> HIDE DEF J
<1> QED BY <1>4, <1>5, SeqMonotonic

(* Sorted, the list has the same jobs, and the OPA's at the end.           *)
LEMMA SortLists ==
    ASSUME NEW L, NEW opas, NEW list, Lists(list, L, opas)
    PROVE  /\ Lists(sortRuleOpaToAtLast(list), L, opas)
           /\ opas # <<>> => LET r == sortRuleOpaToAtLast(list)
                             IN  Len(r) \in DOMAIN r /\ r[Len(r)].kind = "opa"
<1> DEFINE J == L \cup OpaJobs(opas) \cup {Component}
<1>1. Enumerates(list, J)
  BY DEF Lists
<1>2. opas # <<>> => \E x \in J : x.kind = "opa"
  <2> SUFFICES ASSUME opas # <<>> PROVE \E x \in J : x.kind = "opa"
    OBVIOUS
  <2>1. [kind |-> "opa", items |-> opas] \in J
    BY DEF OpaJobs
  <2>2. [kind |-> "opa", items |-> opas].kind = "opa"
    OBVIOUS
  <2> QED BY <2>1, <2>2
<1> HIDE DEF J
<1>3. LET r == sortRuleOpaToAtLast(list)
      IN  /\ Enumerates(r, J)
          /\ (\E x \in J : x.kind = "opa") => Len(r) \in DOMAIN r /\ r[Len(r)].kind = "opa"
  BY <1>1, SortEnumerates
<1> QED BY <1>2, <1>3 DEF Lists, J

-----------------------------------------------------------------------------
(* The invariant is one                                                    *)

(* At first nothing is merged, and there are no jobs.                      *)
LEMMA InitInv == Init => IInv
<1> SUFFICES ASSUME Init PROVE IInv
  OBVIOUS
<1>1. TypeOK
  <2>1. Nothing.items = <<>> /\ Nothing.opas = <<>>
    BY DEF Nothing
  <2>2. <<>> \in Seq(Item) /\ <<>> \in Seq([name : Names]) /\ <<>> \in Seq(Job)
    BY EmptySeq
  <2>3. Cardinality({}) = 0 /\ 0 \in 0..MaxErrors
    BY FS_EmptySet, InputAssumption
  <2> QED BY <2>1, <2>2, <2>3 DEF Init, TypeOK
<1> QED BY <1>1 DEF Init, IInv, IsMerged, IsAllotted, OpaIsLast, StoredIsRun

(* What the rules say is not changed.                                      *)
LEMMA ListsStay ==
    ASSUME UNCHANGED <<rules, refs>>
    PROVE  ItemLists' = ItemLists /\ OpaLists' = OpaLists
BY DEF ItemLists, OpaLists, SetRuleSchedule, Found

(* MergeRule leaves what Merged makes of the lists, and counts it.         *)
LEMMA MergeRuleInv == IInv /\ MergeRule => IInv'
<1> SUFFICES ASSUME IInv, MergeRule PROVE IInv'
  OBVIOUS
<1> USE DEF MergeRule, IInv
<1>1. pc' \in {"generate", "panicked"} /\ UNCHANGED <<rules, refs, seen, jobs, temp, errors>>
  OBVIOUS
<1>2. IsAllotted' /\ OpaIsLast' /\ StoredIsRun'
  BY <1>1 DEF IsAllotted, OpaIsLast, StoredIsRun
<1>3. CASE Panics
  <2>1. pc' = "panicked" /\ UNCHANGED <<merged, total>>
    BY <1>3
  <2>2. TypeOK'
    BY <1>1, <2>1 DEF TypeOK
  <2> QED BY <1>2, <2>1, <2>2 DEF IsMerged
<1>4. CASE ~Panics
  <2>1. /\ merged' = [items |-> Merged(ItemLists), opas |-> Merged(OpaLists)]
        /\ total' = [node |-> Len(merged'.items), opa |-> Len(merged'.opas)]
    BY <1>4 DEF ItemLists, OpaLists
  <2>2. /\ Merged(ItemLists) \in Seq(Item) /\ Merged(OpaLists) \in Seq([name : Names])
        /\ Len(Merged(ItemLists)) \in Nat /\ Len(Merged(OpaLists)) \in Nat
    BY MergeIs
  <2>3. /\ merged'.items = Merged(ItemLists) /\ merged'.opas = Merged(OpaLists)
        /\ total'.node = Len(merged'.items) /\ total'.opa = Len(merged'.opas)
    BY <2>1
  <2>4. total' \in [node : Nat, opa : Nat]
    BY <2>1, <2>2
  <2>5. TypeOK'
    BY <1>1, <2>2, <2>3, <2>4 DEF TypeOK
  <2>6. IsMerged'
    BY <1>1, <2>3, ListsStay DEF IsMerged
  <2> QED BY <1>2, <2>5, <2>6
<1> QED BY <1>3, <1>4

(* GenerateJob gives each item to the nodes it goes to.                    *)
LEMMA GenerateJobInv == IInv /\ GenerateJob => IInv'
<1> SUFFICES ASSUME IInv, GenerateJob PROVE IInv'
  OBVIOUS
<1> USE DEF IInv
<1>1. /\ pc = "generate" /\ pc' = "store" /\ UNCHANGED <<rules, refs, merged, total, temp>>
      /\ GetNodes
  BY DEF GenerateJob
<1>2. seen' \in SUBSET Nodes /\ errors' \in 0..MaxErrors
  BY <1>1, InputAssumption DEF GetNodes, Fault, TypeOK
<1>3. IsMerged' /\ OpaIsLast' /\ StoredIsRun'
  BY <1>1, ListsStay DEF IsMerged, OpaIsLast, StoredIsRun
<1> DEFINE narrow == Narrow(merged.items)
<1>4. PICK given : /\ given \in [DOMAIN narrow -> UNION {SitesOf(narrow[i], seen') : i \in DOMAIN narrow}]
                   /\ \A i \in DOMAIN narrow : given[i] \in SitesOf(narrow[i], seen')
                   /\ LET local == AllocationRule(merged.items, seen', given)
                          opas  == Allocation(merged.opas)
                      IN  jobs' \in {Append(local \o opas, Component), Append(opas \o local, Component)}
  BY DEF GenerateJob
<1>5. merged.items \in Seq(Item) /\ Distinct(merged.items) /\ merged.opas \in Seq([name : Names])
  BY <1>1, MergeIs DEF IsMerged, TypeOK, MergedUpTo
<1>6. given \in [DOMAIN narrow -> SUBSET Sites]
  <2>1. \A i \in DOMAIN narrow : given[i] \subseteq Sites
    BY <1>2, <1>4, SitesOfAre
  <2> QED BY <1>4, <2>1
<1>7. PICK L : /\ Allotted(L, merged.items, seen')
               /\ Enumerates(AllocationRule(merged.items, seen', given), L)
  BY <1>2, <1>4, <1>5, <1>6, AllocationIs, InputAssumption
<1>8. Lists(jobs', L, merged.opas)
  BY <1>4, <1>5, <1>7, ListsJobs DEF Allotted
<1>9. IsAllotted'
  BY <1>1, <1>7, <1>8 DEF IsAllotted
<1>10. jobs' \in Seq(Job)
  BY <1>5, <1>7, <1>8, ListsAreJobs DEF Allotted
<1>11. TypeOK'
  BY <1>1, <1>2, <1>10 DEF TypeOK
<1> QED BY <1>3, <1>9, <1>11

(* The jobs as they are handed on.                                         *)
LEMMA Sorted ==
    ASSUME IInv, pc = "store"
    PROVE  LET r == sortRuleOpaToAtLast(jobs)
           IN  /\ r \in Seq(Job)
               /\ \E L : Allotted(L, merged.items, seen) /\ Lists(r, L, merged.opas)
               /\ merged.opas # <<>> => Len(r) \in DOMAIN r /\ r[Len(r)].kind = "opa"
<1>1. PICK L : Allotted(L, merged.items, seen) /\ Lists(jobs, L, merged.opas)
  BY DEF IInv, IsAllotted
<1> DEFINE r == sortRuleOpaToAtLast(jobs)
<1>2. /\ Lists(r, L, merged.opas)
      /\ merged.opas # <<>> => Len(r) \in DOMAIN r /\ r[Len(r)].kind = "opa"
  BY <1>1, SortLists
<1> HIDE DEF r
<1>3. AreNodes(L) /\ merged.opas \in Seq([name : Names])
  BY <1>1 DEF Allotted, IInv, TypeOK
<1>4. r \in Seq(Job)
  BY <1>2, <1>3, ListsAreJobs
<1> QED BY <1>1, <1>2, <1>4 DEF r

(* CreateInspectRule sorts the jobs and stores them, the ones it hands on. *)
LEMMA CreateInspectRuleInv == IInv /\ CreateInspectRule => IInv'
<1> SUFFICES ASSUME IInv, CreateInspectRule PROVE IInv'
  OBVIOUS
<1>1. /\ pc = "store" /\ pc' = "stored" /\ jobs' = sortRuleOpaToAtLast(jobs) /\ temp' = {jobs'}
      /\ UNCHANGED <<rules, refs, merged, total, seen, errors>>
  BY DEF CreateInspectRule
<1>2. /\ jobs' \in Seq(Job)
      /\ \E L : Allotted(L, merged.items, seen) /\ Lists(jobs', L, merged.opas)
      /\ merged.opas # <<>> => Len(jobs') \in DOMAIN jobs' /\ jobs'[Len(jobs')].kind = "opa"
  BY <1>1, Sorted
<1>3. TypeOK'
  <2>1. temp' \subseteq Seq(Job) /\ Cardinality(temp') = 1
    BY <1>1, <1>2, FS_Singleton
  <2> QED BY <1>1, <1>2, <2>1 DEF IInv, TypeOK
<1>4. IsMerged'
  BY <1>1, ListsStay DEF IInv, IsMerged
<1>5. IsAllotted' /\ OpaIsLast' /\ StoredIsRun'
  BY <1>1, <1>2 DEF IsAllotted, OpaIsLast, StoredIsRun
<1> QED BY <1>3, <1>4, <1>5 DEF IInv

(* After a failure or a new start nothing is said of the jobs.             *)
LEMMA OthersInv == IInv /\ (CreateInspectRuleFails \/ Retry \/ UNCHANGED vars) => IInv'
<1> SUFFICES ASSUME IInv, CreateInspectRuleFails \/ Retry \/ UNCHANGED vars PROVE IInv'
  OBVIOUS
<1>1. CASE CreateInspectRuleFails
  <2>1. /\ pc = "store" /\ pc' = "failed" /\ jobs' = sortRuleOpaToAtLast(jobs)
        /\ temp' \in {temp, {}, {jobs'}} /\ errors < MaxErrors /\ errors' = errors + 1
        /\ UNCHANGED <<rules, refs, merged, total, seen>>
    BY <1>1 DEF CreateInspectRuleFails, Fault
  <2>2. jobs' \in Seq(Job)
    BY <2>1, Sorted
  <2>3. temp' \subseteq Seq(Job) /\ Cardinality(temp') <= 1
    <3>1. Cardinality({}) <= 1 /\ Cardinality({jobs'}) <= 1
      <4>1. Cardinality({}) = 0
        BY FS_EmptySet
      <4>2. Cardinality({jobs'}) = 1
        BY FS_Singleton
      <4> QED BY <4>1, <4>2
    <3>2. temp \subseteq Seq(Job) /\ Cardinality(temp) <= 1
      BY DEF IInv, TypeOK
    <3>3. CASE temp' = temp
      BY <3>2, <3>3
    <3>4. CASE temp' = {}
      BY <3>1, <3>4
    <3>5. CASE temp' = {jobs'}
      BY <2>2, <3>1, <3>5
    <3> QED BY <2>1, <3>3, <3>4, <3>5
  <2>4. errors' \in 0..MaxErrors
    BY <2>1, InputAssumption DEF IInv, TypeOK
  <2>5. TypeOK'
    BY <2>1, <2>2, <2>3, <2>4 DEF IInv, TypeOK
  <2> QED BY <2>1, <2>5 DEF IInv, IsMerged, IsAllotted, OpaIsLast, StoredIsRun
<1>2. CASE Retry
  <2>1. /\ pc' = "merge" /\ merged'.items = <<>> /\ merged'.opas = <<>>
        /\ total' = [node |-> 0, opa |-> 0] /\ seen' = {} /\ jobs' = <<>>
        /\ UNCHANGED <<rules, refs, temp, errors>>
    BY <1>2 DEF Retry, Nothing
  <2>2. <<>> \in Seq(Item) /\ <<>> \in Seq([name : Names]) /\ <<>> \in Seq(Job)
    BY EmptySeq
  <2>3. TypeOK'
    BY <2>1, <2>2 DEF IInv, TypeOK
  <2> QED BY <2>1, <2>3 DEF IInv, IsMerged, IsAllotted, OpaIsLast, StoredIsRun
<1>3. CASE UNCHANGED vars
  <2>1. UNCHANGED <<rules, refs, pc, merged, total, seen, jobs, temp, errors>>
    BY <1>3 DEF vars
  <2>2. TypeOK'
    BY <2>1 DEF IInv, TypeOK
  <2>3. IsMerged'
    BY <2>1, ListsStay DEF IInv, IsMerged
  <2> QED BY <2>1, <2>2, <2>3 DEF IInv, IsAllotted, OpaIsLast, StoredIsRun
<1> QED BY <1>1, <1>2, <1>3

(* The lists are merged from the rules, the jobs allotted from the lists,  *)
(* and what is stored is what is run, in every state.                      *)
THEOREM AllocationInvariant == Spec => []IInv
<1>1. IInv /\ [Next]_vars => IInv'
  BY MergeRuleInv, GenerateJobInv, CreateInspectRuleInv, OthersInv DEF Next
<1> QED BY <1>1, InitInv, PTL DEF Spec

(* The rules, the lists merged from them, the jobs and the ConfigMap have  *)
(* the types they should, whatever the lists are.                          *)
THEOREM AllocationTypeCorrect == Spec => []TypeOK
BY AllocationInvariant, PTL DEF IInv

(* The pods find the jobs the pool runs in the ConfigMap, not those of an  *)
(* earlier attempt.                                                        *)
THEOREM AllocationStoredIsRun == Spec => []StoredIsRun
BY AllocationInvariant, PTL DEF IInv

-----------------------------------------------------------------------------
(* Each once                                                               *)

(* A job of which there is no other of its kind is listed once.            *)
LEMMA ListedOnce ==
    ASSUME NEW J, NEW s, Enumerates(s, J), NEW x \in J, \A y \in J : y.kind = x.kind => y = x
    PROVE  \E i \in DOMAIN s : s[i] = x /\ {h \in DOMAIN s : s[h].kind = x.kind} = {i}
<1>1. PICK i \in DOMAIN s : s[i] = x
  BY DEF Enumerates
<1>2. ASSUME NEW h \in DOMAIN s, s[h].kind = x.kind PROVE h = i
  BY <1>1, <1>2 DEF Enumerates
<1> QED BY <1>1, <1>2

(* As many items are merged as there are names; a kind of one job is       *)
(* listed once.                                                            *)
LEMMA InvEachOnce == IInv => EachOnce
<1> SUFFICES ASSUME IInv PROVE EachOnce
  OBVIOUS
<1> USE DEF IInv
<1>1. ASSUME pc \in {"generate", "store", "stored"}
      PROVE  /\ total.node = Cardinality({At(p).name : p \in Places})
             /\ total.opa = Cardinality(UNION {{rules[Found[i].rule].opas[k].name :
                           k \in DOMAIN rules[Found[i].rule].opas} : i \in DOMAIN Found})
  BY <1>1, MergeIs DEF IsMerged
<1>2. ASSUME pc = "stored"
      PROVE  /\ Cardinality({i \in DOMAIN jobs : jobs[i].kind = "component"}) = 1
             /\ {i \in DOMAIN jobs : jobs[i].kind = "opa"} = IF total.opa > 0 THEN {Len(jobs)} ELSE {}
  <2>1. PICK L : Allotted(L, merged.items, seen) /\ Lists(jobs, L, merged.opas)
    BY <1>2 DEF IsAllotted
  <2> DEFINE O == OpaJobs(merged.opas)
             J == L \cup O \cup {Component}
  <2>2. Enumerates(jobs, J) /\ \A i \in DOMAIN jobs : jobs[i] \in J
    BY <2>1 DEF Lists, Enumerates
  <2>3. \A j \in L : j.kind = "node"
    BY <2>1 DEF Allotted, AreNodes
  <2>4. \A j \in O : j.kind = "opa"
    BY DEF OpaJobs
  <2>5. Component.kind = "component"
    BY DEF Component
  <2>6. total.opa = Len(merged.opas) /\ merged.opas \in Seq([name : Names])
    BY <1>2 DEF IsMerged, TypeOK
  <2>7. Cardinality({i \in DOMAIN jobs : jobs[i].kind = "component"}) = 1
    <3>1. Component \in J /\ \A y \in J : y.kind = Component.kind => y = Component
      BY <2>3, <2>4, <2>5
    <3> HIDE DEF J
    <3>2. PICK i \in DOMAIN jobs : {h \in DOMAIN jobs : jobs[h].kind = Component.kind} = {i}
      BY <2>2, <3>1, ListedOnce
    <3> QED BY <2>5, <3>2, FS_Singleton
  <2>8. CASE merged.opas = <<>>
    <3>1. O = {} /\ ~(total.opa > 0)
      BY <2>6, <2>8, EmptySeq DEF OpaJobs
    <3>2. \A j \in J : j.kind # "opa"
      BY <2>3, <2>5, <3>1
    <3> HIDE DEF J
    <3>3. {i \in DOMAIN jobs : jobs[i].kind = "opa"} = {}
      BY <2>2, <3>2
    <3> QED BY <2>7, <3>1, <3>3
  <2>9. CASE merged.opas # <<>>
    <3> DEFINE x == [kind |-> "opa", items |-> merged.opas]
    <3>1. O = {x} /\ x.kind = "opa"
      BY <2>9 DEF OpaJobs
    <3>2. x \in J /\ \A y \in J : y.kind = x.kind => y = x
      BY <2>3, <2>5, <3>1
    <3>3. total.opa > 0
      <4>1. Len(merged.opas) \in Nat /\ Len(merged.opas) # 0
        BY <2>6, <2>9, EmptySeq, LenProperties
      <4> QED BY <2>6, <4>1
    <3> HIDE DEF J, x
    <3>4. PICK i \in DOMAIN jobs : {h \in DOMAIN jobs : jobs[h].kind = x.kind} = {i}
      BY <2>2, <3>2, ListedOnce
    <3>5. Len(jobs) \in {h \in DOMAIN jobs : jobs[h].kind = "opa"}
      BY <1>2, <2>9 DEF OpaIsLast
    <3>6. {h \in DOMAIN jobs : jobs[h].kind = "opa"} = {Len(jobs)}
      BY <3>1, <3>4, <3>5
    <3> QED BY <2>7, <3>3, <3>6
  <2> QED BY <2>8, <2>9
<1> QED BY <1>1, <1>2 DEF EachOnce

(* Each name is merged and counted once; one job is the components', and   *)
(* the OPA job, if there is one, comes once and at the end.                *)
THEOREM AllocationEachOnce == Spec => []EachOnce
BY AllocationInvariant, InvEachOnce, PTL

-----------------------------------------------------------------------------
(* Inspected where asked                                                   *)

(* The jobs that are nodes' are the ones of L.                             *)
LEMMA LocalJobsAre ==
    ASSUME NEW L, NEW opas, AreNodes(L), Lists(jobs, L, opas)
    PROVE  /\ \A i \in LocalJobs :
                  /\ i \in DOMAIN jobs /\ jobs[i] \in L
                  /\ \A k \in DOMAIN jobs[i].items : jobs[i].items[k].node = NodeOf(i)
           /\ \A j \in L : \E i \in LocalJobs : jobs[i] = j
           /\ \A i, h \in LocalJobs : jobs[i] = jobs[h] => i = h
<1> DEFINE J == L \cup OpaJobs(opas) \cup {Component}
<1>1. \A j \in L : j.kind = "node"
  BY DEF AreNodes
<1>2. \A j \in J : j.kind = "node" => j \in L
  <2>1. \A j \in OpaJobs(opas) : j.kind = "opa"
    BY DEF OpaJobs
  <2>2. Component.kind = "component"
    BY DEF Component
  <2> QED BY <2>1, <2>2
<1>3. L \subseteq J
  OBVIOUS
<1>4. Enumerates(jobs, J)
  BY DEF Lists
<1> HIDE DEF J
<1>5. ASSUME NEW i \in LocalJobs
      PROVE  /\ i \in DOMAIN jobs /\ jobs[i] \in L
             /\ \A k \in DOMAIN jobs[i].items : jobs[i].items[k].node = NodeOf(i)
  <2>1. i \in DOMAIN jobs /\ jobs[i].kind = "node"
    BY DEF LocalJobs
  <2>2. jobs[i] \in L
    BY <1>2, <1>4, <2>1 DEF Enumerates
  <2> QED BY <2>1, <2>2 DEF AreNodes, NodeOf
<1>6. ASSUME NEW j \in L PROVE \E i \in LocalJobs : jobs[i] = j
  BY <1>1, <1>3, <1>4 DEF Enumerates, LocalJobs
<1>7. \A i, h \in LocalJobs : jobs[i] = jobs[h] => i = h
  BY <1>4 DEF Enumerates, LocalJobs
<1> QED BY <1>5, <1>6, <1>7

(* The items of a name run on the nodes L has it for, on each once.        *)
LEMMA RunsAre ==
    ASSUME InputAssumption, NEW L, NEW opas, AreNodes(L), NoneTwice(L), Lists(jobs, L, opas),
           NEW name, NEW W \in SUBSET Sites, \A n : n \in W <=> Given(L, name, n)
    PROVE  /\ {NodeOf(r[1]) : r \in Runs(name)} = W
           /\ Cardinality(Runs(name)) = Cardinality({NodeOf(r[1]) : r \in Runs(name)})
<1> DEFINE R == Runs(name)
           T == {NodeOf(r[1]) : r \in R}
           f == [r \in R |-> NodeOf(r[1])]
<1>1. /\ \A i \in LocalJobs :
             /\ i \in DOMAIN jobs /\ jobs[i] \in L
             /\ \A k \in DOMAIN jobs[i].items : jobs[i].items[k].node = NodeOf(i)
      /\ \A j \in L : \E i \in LocalJobs : jobs[i] = j
      /\ \A i, h \in LocalJobs : jobs[i] = jobs[h] => i = h
  BY LocalJobsAre
<1>2. ASSUME NEW r \in R
      PROVE  /\ r = <<r[1], r[2]>> /\ r[1] \in LocalJobs /\ r[2] \in DOMAIN jobs[r[1]].items
             /\ jobs[r[1]].items[r[2]].name = name
  BY DEF Runs
<1>3. ASSUME NEW i \in LocalJobs, NEW k \in DOMAIN jobs[i].items, jobs[i].items[k].name = name
      PROVE  <<i, k>> \in R
  BY <1>3 DEF Runs
<1> HIDE DEF R
<1>4. ASSUME NEW r \in R PROVE NodeOf(r[1]) \in W
  <2>1. jobs[r[1]].items[r[2]].node = NodeOf(r[1]) /\ jobs[r[1]] \in L
    BY <1>1, <1>2
  <2>2. Given(L, name, NodeOf(r[1]))
    BY <1>2, <2>1 DEF Given
  <2> QED BY <2>2
<1>5. ASSUME NEW n \in W PROVE \E r \in R : NodeOf(r[1]) = n
  <2>1. Given(L, name, n)
    OBVIOUS
  <2>2. PICK j \in L : \E k \in DOMAIN j.items : j.items[k].name = name /\ j.items[k].node = n
    BY <2>1 DEF Given
  <2>3. PICK k \in DOMAIN j.items : j.items[k].name = name /\ j.items[k].node = n
    BY <2>2
  <2>4. PICK i \in LocalJobs : jobs[i] = j
    BY <1>1
  <2>5. <<i, k>> \in R /\ NodeOf(i) = n
    BY <1>1, <1>3, <2>3, <2>4
  <2>6. <<i, k>>[1] = i
    OBVIOUS
  <2> QED BY <2>5, <2>6
<1>6. T = W
  BY <1>4, <1>5
<1>7. ASSUME NEW r \in R, NEW q \in R, NodeOf(r[1]) = NodeOf(q[1]) PROVE r = q
  <2>1. /\ jobs[r[1]] \in L /\ jobs[r[1]].items[r[2]].node = NodeOf(r[1])
        /\ jobs[q[1]] \in L /\ jobs[q[1]].items[q[2]].node = NodeOf(q[1])
    BY <1>1, <1>2
  <2>2. jobs[r[1]] = jobs[q[1]] /\ r[2] = q[2]
    BY <1>2, <1>7, <2>1 DEF NoneTwice
  <2>3. r[1] = q[1]
    BY <1>1, <1>2, <2>2
  <2> QED BY <1>2, <2>2, <2>3
<1> HIDE DEF T
<1>8. f \in [R -> T] /\ \A r \in R : f[r] = NodeOf(r[1])
  BY DEF T
<1>9. \A n \in T : \E r \in R : f[r] = n
  BY DEF T
<1> HIDE DEF f
<1>10. f \in Injection(R, T) /\ f \in Surjection(R, T)
  BY <1>7, <1>8, <1>9 DEF Injection, IsInjective, Surjection
<1>11. IsFiniteSet(T)
  <2>1. IsFiniteSet(Sites)
    BY FS_Union DEF InputAssumption, Sites
  <2> QED BY <1>6, <2>1, FS_Subset
<1>12. Cardinality(R) = Cardinality(T)
  BY <1>10, <1>11, FS_Injection
<1> QED BY <1>6, <1>12 DEF R, T

(* The nodes an item goes to are between the ones it must and may go to.   *)
LEMMA GoesWhereAsked ==
    ASSUME TypeOK, NEW p \in Places, NEW W \in GoesTo(SetTarget(At(p), Found[p[1]]), seen)
    PROVE  \/ At(p).node = Blank /\ Target(p).sel = {}
           \/ Must(Target(p)) \subseteq W /\ W \subseteq May(Target(p))
<1> DEFINE item == At(p)
           ref == Found[p[1]]
           it == SetTarget(item, ref)
           t == Target(p)
<1>1. item \in Item /\ ref \in Ref
  <2>1. p[1] \in DOMAIN Found /\ p[2] \in DOMAIN rules[Found[p[1]].rule].items
    BY DEF Places
  <2> QED BY <2>1, FoundIs, ListsAre DEF At
<1>2. /\ item.node \in Sites \cup {NoNode, Blank} /\ item.sel \in SUBSET Labels
      /\ ref.node \in Sites \cup {Blank} /\ ref.sel \in SUBSET Labels
  BY <1>1 DEF Item, Ref
<1>3. NoNode \notin Sites /\ Blank \notin Sites /\ NoNode # Blank
  BY InputAssumption
<1>4. t = IF item.node # NoNode \/ item.sel # {} THEN [node |-> item.node, sel |-> item.sel]
          ELSE [node |-> ref.node, sel |-> ref.sel]
  BY DEF Target
<1>5. ASSUME NEW x, x.node = t.node, x.sel = t.sel, x.node # NoNode \/ x.sel # {},
             t.node \in Sites \/ t.sel # {}, W \in GoesTo(x, seen)
      PROVE  Must(t) \subseteq W /\ W \subseteq May(t)
  <2>1. W \in SitesOf(x, seen)
    BY <1>5 DEF GoesTo, Wide
  <2>2. CASE t.node \in Sites
    <3>1. W = {t.node}
      BY <1>5, <2>1, <2>2 DEF SitesOf
    <3> QED BY <2>2, <3>1 DEF Must, May
  <2>3. CASE ~(t.node \in Sites)
    <3>1. t.sel # {}
      BY <1>5, <2>3
    <3>2. W \in PickedByLast(x, seen)
      BY <1>5, <2>1, <2>3, <3>1 DEF SitesOf
    <3>3. W \subseteq seen /\ \A n \in seen : /\ n \in W => t.sel \cap LabelsOf[n] # {}
                                              /\ n \notin W => t.sel \ LabelsOf[n] # {}
      BY <1>5, <3>2 DEF PickedByLast
    <3> QED BY <2>3, <3>1, <3>3 DEF Must, May
  <2> QED BY <2>2, <2>3
<1>6. CASE item.node # NoNode \/ item.sel # {}
  <2>1. it = item /\ t.node = item.node /\ t.sel = item.sel
    BY <1>4, <1>6 DEF SetTarget
  <2>2. CASE t.node \in Sites \/ t.sel # {}
    BY <1>5, <1>6, <2>1, <2>2
  <2>3. CASE ~(t.node \in Sites) /\ t.sel = {}
    BY <1>2, <1>6, <2>1, <2>3
  <2> QED BY <2>2, <2>3
<1>7. CASE item.node = NoNode /\ item.sel = {} /\ Targeted(ref)
  <2>1. it.node = ref.node /\ it.sel = ref.sel /\ t.node = ref.node /\ t.sel = ref.sel
    BY <1>1, <1>4, <1>7 DEF SetTarget, Item
  <2>2. ref.node \in Sites \/ ref.sel # {}
    BY <1>2, <1>7 DEF Targeted
  <2> QED BY <1>2, <1>3, <1>5, <2>1, <2>2
<1>8. CASE item.node = NoNode /\ item.sel = {} /\ ~Targeted(ref)
  <2>1. it = item /\ t.node = Blank /\ t.sel = {}
    BY <1>2, <1>3, <1>4, <1>8 DEF SetTarget, Targeted
  <2>2. W = seen
    BY <1>8, <2>1 DEF GoesTo, Wide
  <2>3. May(t) = seen /\ Must(t) \subseteq seen
    BY <1>3, <2>1 DEF May, Must
  <2> QED BY <2>2, <2>3
<1> QED BY <1>6, <1>7, <1>8

(* The first item of a name is merged with its target, and its jobs are    *)
(* those of the nodes it was given to.                                     *)
LEMMA InvInspectedWhereAsked == IInv => InspectedWhereAsked
<1> SUFFICES ASSUME IInv, pc = "stored" PROVE InspectedWhereAsked
  BY DEF InspectedWhereAsked
<1> USE DEF IInv
<1>1. PICK L : Allotted(L, merged.items, seen) /\ Lists(jobs, L, merged.opas)
  BY DEF IsAllotted
<1>2. AreNodes(L) /\ NoneTwice(L)
  BY <1>1 DEF Allotted
<1>3. \A i \in LocalJobs : \A k \in DOMAIN jobs[i].items : jobs[i].items[k].node = NodeOf(i)
  BY <1>1, <1>2, LocalJobsAre
<1>4. ASSUME NEW p \in Firsts
      PROVE  LET t     == Target(p)
                 runs  == Runs(At(p).name)
                 where == {NodeOf(r[1]) : r \in runs}
             IN  \/ At(p).node = Blank /\ t.sel = {}
                 \/ /\ Must(t) \subseteq where /\ where \subseteq May(t)
                    /\ Cardinality(runs) = Cardinality(where)
  <2> DEFINE it == SetTarget(At(p), Found[p[1]])
  <2>1. p \in Places /\ p[1] \in DOMAIN Found /\ p[2] \in DOMAIN rules[Found[p[1]].rule].items
        /\ \A q \in Places : Before(q, p) => At(q).name # At(p).name
    BY DEF Firsts, Places
  <2>2. /\ DOMAIN ItemLists = DOMAIN Found /\ DOMAIN Found = 1..Len(ItemLists)
        /\ \A i \in DOMAIN Found :
               /\ DOMAIN ItemLists[i] = DOMAIN rules[Found[i].rule].items
               /\ \A j \in DOMAIN ItemLists[i] :
                      /\ ItemLists[i][j] = SetTarget(rules[Found[i].rule].items[j], Found[i])
                      /\ ItemLists[i][j].name = rules[Found[i].rule].items[j].name
    BY ListsAre, FoundIs
  <2>3. p[2] \in DOMAIN ItemLists[p[1]] /\ ItemLists[p[1]][p[2]] = it /\ it.name = At(p).name
    BY <2>1, <2>2 DEF At
  <2>4. Foremost(ItemLists, p[1], p[2])
    <3> SUFFICES ASSUME NEW a \in DOMAIN ItemLists, NEW b \in DOMAIN ItemLists[a],
                        a < p[1] \/ (a = p[1] /\ b < p[2])
                 PROVE  ItemLists[a][b].name # ItemLists[p[1]][p[2]].name
      BY DEF Foremost
    <3>1. <<a, b>> \in Places /\ At(<<a, b>>).name = ItemLists[a][b].name
      BY <2>2 DEF Places, At
    <3>2. Before(<<a, b>>, p)
      BY DEF Before
    <3> QED BY <2>1, <2>3, <3>1, <3>2
  <2>5. PICK m \in DOMAIN merged.items : merged.items[m] = it
    <3>1. MergedUpTo(merged.items, ItemLists, Len(ItemLists))
      BY MergeIs DEF IsMerged
    <3> QED BY <2>1, <2>2, <2>3, <2>4, <3>1 DEF MergedUpTo
  <2> HIDE DEF it
  <2>6. PICK W \in GoesTo(it, seen) : \A n : n \in W <=> Given(L, At(p).name, n)
    BY <1>1, <2>3, <2>5 DEF Allotted
  <2>7. seen \in SUBSET Nodes
    BY DEF TypeOK
  <2>8. W \subseteq Sites
    BY <2>6, <2>7, SitesOfAre DEF GoesTo, Sites
  <2>9. /\ {NodeOf(r[1]) : r \in Runs(At(p).name)} = W
        /\ Cardinality(Runs(At(p).name)) = Cardinality({NodeOf(r[1]) : r \in Runs(At(p).name)})
    BY <1>1, <1>2, <2>6, <2>8, RunsAre, InputAssumption
  <2>10. \/ At(p).node = Blank /\ Target(p).sel = {}
         \/ Must(Target(p)) \subseteq W /\ W \subseteq May(Target(p))
    BY <2>1, <2>6, GoesWhereAsked DEF it
  <2> QED BY <2>9, <2>10
<1> QED BY <1>3, <1>4 DEF InspectedWhereAsked

(* Once the jobs are stored, each item is inspected where its target says  *)
(* and on no node twice, whatever the rules, the nodes and their labels.   *)
THEOREM AllocationInspectedWhereAsked == Spec => []InspectedWhereAsked
BY AllocationInvariant, InvInspectedWhereAsked, PTL
=============================================================================
