---------------------------- MODULE QueryProofs ----------------------------
(***************************************************************************)
(* The bounds of a page and the walk over the pages of a list, for every   *)
(* width of int, every default limit and every list.                       *)
(***************************************************************************)
EXTENDS Query, FiniteSetTheorems, FunctionTheorems, SequenceTheorems, TLAPS

(* A natural number below the modulus is its own remainder.                *)
LEMMA SmallRemainder ==
    ASSUME NEW a \in Nat, NEW m \in Nat, a < m
    PROVE  a % m = a
  OBVIOUS

(* A number that fits into an int is not changed by the arithmetic of Go.  *)
LEMMA WrapFits ==
    ASSUME NEW x \in Nat, x <= MaxInt
    PROVE  Wrap(x) = x
<1>1. x + MaxInt + 1 \in Nat /\ 2 * (MaxInt + 1) \in Nat /\ x + MaxInt + 1 < 2 * (MaxInt + 1)
  BY WidthAssumption
<1>2. (x + MaxInt + 1) % (2 * (MaxInt + 1)) = x + MaxInt + 1
  BY <1>1, SmallRemainder
<1> QED BY <1>2, WidthAssumption DEF Wrap

(* Whatever is computed is an integer.                                     *)
LEMMA WrapInt ==
    ASSUME NEW x \in Int
    PROVE  Wrap(x) \in Int
<1>1. 2 * (MaxInt + 1) \in Nat /\ 2 * (MaxInt + 1) > 0 /\ x + MaxInt + 1 \in Int
  BY WidthAssumption
<1>2. (x + MaxInt + 1) % (2 * (MaxInt + 1)) \in Int
  BY <1>1
<1> QED BY <1>2, WidthAssumption DEF Wrap

(* computeIndex: an offset and a limit whose sum fits into an int give     *)
(* bounds the slice expression of GetPageData accepts.                     *)
LEMMA IndexInBounds ==
    ASSUME NEW p, NEW total \in Nat,
           p.offset \in Int, p.limit \in Nat, p.offset + p.limit <= MaxInt
    PROVE  InBounds(computeIndex(p, total), total)
<1>1. CASE p.offset < 0 \/ p.offset > total
  BY <1>1 DEF computeIndex, InBounds
<1>2. CASE ~(p.offset < 0 \/ p.offset > total)
  <2>1. p.offset + p.limit \in Nat
    BY <1>2
  <2>2. Wrap(p.offset + p.limit) = p.offset + p.limit
    BY <2>1, WrapFits
  <2>3. computeIndex(p, total) =
          <<p.offset, IF p.offset + p.limit > total \/ p.offset + p.limit = 0
                      THEN total ELSE p.offset + p.limit>>
    BY <1>2, <2>2 DEF computeIndex
  <2> QED BY <1>2, <2>3 DEF InBounds
<1> QED BY <1>1, <1>2

(* No page and no limit of a request make the slice expression of          *)
(* GetPageData panic, unless their sum overflows.                          *)
THEOREM PagesInBounds ==
    ASSUME NEW total \in Nat
    PROVE  PageInBounds(total)
<1> SUFFICES ASSUME NEW page \in Param, NEW limit \in Param,
                    NEW p, p = ParsePagination(page, limit),
                    p.offset + p.limit <= MaxInt
             PROVE  InBounds(computeIndex(p, total), total)
  BY DEF PageInBounds
<1>1. page.n \in Int /\ limit.n \in Int
  BY WidthAssumption DEF Param, None
<1>2. (page.n - 1) * DefaultLimit \in Int
  BY <1>1, WidthAssumption
<1>3. p.offset \in Int
  BY <1>2, WrapInt DEF ParsePagination
<1>4. p.limit \in Nat
  BY <1>1, WidthAssumption DEF ParsePagination
<1> QED BY <1>3, <1>4, IndexInBounds

-----------------------------------------------------------------------------
(* A walk over the pages: the order of the objects leaves no choice, so    *)
(* that each request sees the same list, and the pages are its slices.     *)

(* What a function that is not onto a finite set, or that takes a value    *)
(* twice, cannot be: one to one between as many.                           *)
LEMMA Onto ==
    ASSUME NEW S, IsFiniteSet(S), NEW s \in [1..Cardinality(S) -> S],
           \A i, j \in DOMAIN s : i # j => s[i] # s[j]
    PROVE  \A o \in S : \E i \in 1..Cardinality(S) : s[i] = o
<1> DEFINE n == Cardinality(S)
<1>1. n \in Nat
  BY FS_CardinalityType
<1>2. s \in Injection(1..n, S)
  BY Fun_IsInj
<1>3. IsFiniteSet(1..n) /\ Cardinality(1..n) = n
  BY <1>1, FS_Interval
<1>4. s \in Surjection(1..n, S)
  BY <1>2, <1>3, FS_Injection
<1> QED BY <1>4, Zenon DEF Surjection

(* Whether the comparison of the list tells any two objects apart.         *)
TellsApart(kind, S, by) ==
    /\ by # ""
    /\ \A a, b \in S : compare(kind, a, b, by) => ~compare(kind, b, a, by)
    /\ \A a, b \in S : a # b => compare(kind, a, b, by) \/ compare(kind, b, a, by)

(* a stands ahead of b in an ascending, in a descending list.              *)
AheadOf(kind, a, b, by, asc) ==
    IF asc THEN compare(kind, a, b, by) ELSE compare(kind, b, a, by)

Ahead(kind, S, o, by, asc) == {x \in S : AheadOf(kind, x, o, by, asc)}

(* sort.Slice: a comparison that tells the objects apart puts what is      *)
(* ahead first, although Desc is not a strict order.                       *)
LEMMA SortedIs ==
    ASSUME NEW kind, NEW S, NEW by, NEW asc, IsFiniteSet(S),
           TellsApart(kind, S, by), NEW s \in Sorted(kind, S, by, asc)
    PROVE  /\ s \in [1..Cardinality(S) -> S]
           /\ \A i, j \in DOMAIN s : i # j => s[i] # s[j]
           /\ \A i, j \in DOMAIN s : i < j =>
                  AheadOf(kind, s[i], s[j], by, asc) /\ ~AheadOf(kind, s[j], s[i], by, asc)
<1>1. /\ s \in [1..Cardinality(S) -> S]
      /\ \A i, j \in DOMAIN s : i # j => s[i] # s[j]
      /\ \A i, j \in DOMAIN s : i < j =>
             ~(/\ Before(kind, s[j], s[i], by, asc)
               /\ ~Before(kind, s[i], s[j], by, asc))
  BY DEF Sorted, TellsApart
<1>2. ASSUME NEW i \in DOMAIN s, NEW j \in DOMAIN s, i < j
      PROVE  AheadOf(kind, s[i], s[j], by, asc) /\ ~AheadOf(kind, s[j], s[i], by, asc)
  <2>1. s[i] \in S /\ s[j] \in S /\ i # j
    <3>1. i \in 1..Cardinality(S) /\ j \in 1..Cardinality(S)
      BY <1>1
    <3>2. Cardinality(S) \in Nat
      BY FS_CardinalityType
    <3>3. i # j
      BY <1>2, <3>1, <3>2
    <3> QED BY <1>1, <3>1, <3>3
  <2>2. s[i] # s[j]
    BY <1>1, <2>1
  <2>3. ~(/\ Before(kind, s[j], s[i], by, asc) /\ ~Before(kind, s[i], s[j], by, asc))
    BY <1>1, <1>2
  <2>4. /\ compare(kind, s[i], s[j], by) => ~compare(kind, s[j], s[i], by)
        /\ compare(kind, s[i], s[j], by) \/ compare(kind, s[j], s[i], by)
    BY <2>1, <2>2 DEF TellsApart
  <2>5. CASE asc
    BY <2>3, <2>4, <2>5, Zenon DEF Before, AheadOf
  <2>6. CASE ~asc
    BY <2>3, <2>4, <2>6, Zenon DEF Before, AheadOf
  <2> QED BY <2>5, <2>6
<1> QED BY <1>1, <1>2

(* The place of an object in a sorted list is one more than the number of  *)
(* the objects that stand ahead of it, in every list.                      *)
LEMMA PlaceIs ==
    ASSUME NEW kind, NEW S, NEW by, NEW asc, IsFiniteSet(S),
           TellsApart(kind, S, by), NEW s \in Sorted(kind, S, by, asc),
           NEW i \in 1..Cardinality(S)
    PROVE  IsFiniteSet(Ahead(kind, S, s[i], by, asc))
           /\ Cardinality(Ahead(kind, S, s[i], by, asc)) = i - 1
<1> DEFINE A == Ahead(kind, S, s[i], by, asc)
           f == [j \in 1..(i - 1) |-> s[j]]
<1> HIDE DEF A, f
<1>1. /\ s \in [1..Cardinality(S) -> S]
      /\ \A k, j \in DOMAIN s : k # j => s[k] # s[j]
      /\ \A k, j \in DOMAIN s : k < j =>
             AheadOf(kind, s[k], s[j], by, asc) /\ ~AheadOf(kind, s[j], s[k], by, asc)
  BY SortedIs
<1>2. Cardinality(S) \in Nat
  BY FS_CardinalityType
<1>3. ~AheadOf(kind, s[i], s[i], by, asc)
  <2>1. s[i] \in S
    BY <1>1
  <2>2. ~compare(kind, s[i], s[i], by)
    BY <2>1 DEF TellsApart
  <2> QED BY <2>2, Zenon DEF AheadOf
<1>4. f \in [1..(i - 1) -> A]
  <2> SUFFICES ASSUME NEW j \in 1..(i - 1) PROVE s[j] \in A
    BY DEF f
  <2>1. j \in 1..Cardinality(S) /\ j < i
    BY <1>2
  <2> QED BY <1>1, <2>1 DEF A, Ahead
<1>5. \A a, b \in 1..(i - 1) : f[a] = f[b] => a = b
  <2> SUFFICES ASSUME NEW a \in 1..(i - 1), NEW b \in 1..(i - 1), a # b PROVE s[a] # s[b]
    BY DEF f
  <2>1. a \in 1..Cardinality(S) /\ b \in 1..Cardinality(S)
    BY <1>2
  <2> QED BY <1>1, <2>1
<1>6. \A o \in S : \E j \in 1..Cardinality(S) : s[j] = o
  BY <1>1, Onto, Zenon
<1>7. \A x \in A : \E j \in 1..(i - 1) : f[j] = x
  <2> SUFFICES ASSUME NEW x \in A PROVE \E j \in 1..(i - 1) : s[j] = x
    BY DEF f
  <2>1. x \in S /\ AheadOf(kind, x, s[i], by, asc)
    BY DEF A, Ahead
  <2>2. PICK j \in 1..Cardinality(S) : s[j] = x
    BY <1>6, <2>1
  <2>3. j # i /\ ~(i < j)
    BY <1>1, <1>3, <2>1, <2>2
  <2> QED BY <1>2, <2>2, <2>3
<1>8. f \in Injection(1..(i - 1), A) /\ f \in Surjection(1..(i - 1), A)
  BY <1>4, <1>5, <1>7, Fun_IsInj, Fun_IsSurj
<1>9. IsFiniteSet(1..(i - 1)) /\ Cardinality(1..(i - 1)) = i - 1
  <2>2. i - 1 \in Int /\ i - 1 >= 0
    BY <1>2
  <2> DEFINE m == i - 1
  <2> HIDE DEF m
  <2>3. m \in Int /\ m >= 0 => IsFiniteSet(1..m) /\ Cardinality(1..m) = m
    BY FS_Interval
  <2> QED BY <2>2, <2>3 DEF m
<1>10. IsFiniteSet(A) /\ Cardinality(A) = i - 1
  BY <1>8, <1>9, FS_Surjection
<1> QED BY <1>10 DEF A

(* Multiplication by a positive number keeps the order.                    *)
LEMMA TimesKeepsOrder ==
    ASSUME NEW a \in Int, NEW b \in Int, NEW d \in Nat, a <= b
    PROVE  a * d <= b * d /\ a * d \in Int /\ b * d \in Int
  BY SMT

(* The quotient and the remainder of a page: no other page has the place.  *)
LEMMA OnePage ==
    ASSUME NEW a \in Nat, NEW b \in Nat, NEW i \in 1..DefaultLimit, NEW j \in 1..DefaultLimit,
           a * DefaultLimit + i = b * DefaultLimit + j
    PROVE  a = b /\ i = j
<1>1. DefaultLimit \in Nat /\ i \in Nat /\ j \in Nat
  BY WidthAssumption
<1>2. ASSUME NEW x \in Nat, NEW y \in Nat, NEW k \in 1..DefaultLimit, NEW l \in 1..DefaultLimit,
             x * DefaultLimit + k = y * DefaultLimit + l
      PROVE  ~(x < y)
  <2> SUFFICES ASSUME x + 1 <= y PROVE FALSE
    OBVIOUS
  <2>1. (x + 1) * DefaultLimit <= y * DefaultLimit
    BY <1>1, TimesKeepsOrder
  <2>2. (x + 1) * DefaultLimit = x * DefaultLimit + DefaultLimit
    BY <1>1
  <2> QED BY <1>1, <1>2, <2>1, <2>2
<1>3. a = b
  BY <1>2
<1> QED BY <1>1, <1>3

(* What a slice expression within its bounds gives.                        *)
LEMMA SliceIs ==
    ASSUME NEW N \in Nat, NEW S, NEW s \in [1..N -> S], NEW a \in 0..N, NEW b \in a..N
    PROVE  /\ Len(SubSeq(s, a + 1, b)) = b - a
           /\ \A k \in 1..(b - a) : SubSeq(s, a + 1, b)[k] = s[a + k]
<1> DEFINE m == a + 1
<1>1. m \in Int /\ b \in Int /\ \A i \in m..b : s[i] \in S
  OBVIOUS
<1> HIDE DEF m
<1>2. /\ Len(SubSeq(s, m, b)) = IF m <= b THEN b - m + 1 ELSE 0
      /\ \A k \in 1..(b - m + 1) : SubSeq(s, m, b)[k] = s[m + k - 1]
  BY <1>1, SubSeqProperties
<1>3. m = a + 1
  BY DEF m
<1>4. Len(SubSeq(s, m, b)) = b - a
  BY <1>2, <1>3
<1>5. ASSUME NEW k \in 1..(b - a)
      PROVE  SubSeq(s, m, b)[k] = s[a + k]
  <2>1. k \in 1..(b - m + 1) /\ m + k - 1 = a + k
    BY <1>3
  <2> QED BY <1>2, <2>1
<1> QED BY <1>4, <1>5 DEF m

(* The lines of page n are those of its slice of the list.                 *)
Shows(items, s, N, n) ==
    \A i \in 1..DefaultLimit :
        /\ i <= Len(items) <=> (n - 1) * DefaultLimit + i <= N
        /\ i <= Len(items) => items[i] = s[(n - 1) * DefaultLimit + i]

(* GetPageData: without a limit, page n of a list far from the largest int *)
(* is its n-th slice.                                                      *)
LEMMA PageIs ==
    ASSUME NEW N \in Nat, NEW S, NEW s \in [1..N -> S], N + DefaultLimit <= MaxInt,
           NEW n \in 1..((N \div DefaultLimit) + 1)
    PROVE  Shows(GetPageData(s, [kind |-> "int", n |-> n], None).items, s, N, n)
<1> DEFINE items == GetPageData(s, [kind |-> "int", n |-> n], None).items
           off == (n - 1) * DefaultLimit
<1>1. DefaultLimit \in Nat /\ DefaultLimit >= 1 /\ MaxInt \in Nat /\ n \in Nat /\ n >= 1
  BY WidthAssumption
<1>2. N \div DefaultLimit \in Int /\ (N \div DefaultLimit) * DefaultLimit <= N
  BY <1>1
<1>3. off \in Nat /\ off <= N
  <2>1. n - 1 <= N \div DefaultLimit /\ n - 1 \in Nat
    BY <1>1, <1>2
  <2>2. off <= (N \div DefaultLimit) * DefaultLimit /\ off \in Int
    BY <1>1, <1>2, <2>1, TimesKeepsOrder
  <2>3. 0 * DefaultLimit <= off
    BY <1>1, <2>1, TimesKeepsOrder
  <2> QED BY <1>1, <1>2, <2>2, <2>3
<1>4. s \in Seq(S) /\ Len(s) = N
  BY IsASeq, LenProperties
<1> DEFINE p == ParsePagination([kind |-> "int", n |-> n], None)
           end == IF off + DefaultLimit > N THEN N ELSE off + DefaultLimit
<1>5. Wrap(off) = off /\ Wrap(off + DefaultLimit) = off + DefaultLimit
  <2>1. off <= MaxInt /\ off + DefaultLimit \in Nat /\ off + DefaultLimit <= MaxInt
    BY <1>1, <1>3
  <2> QED BY <1>3, <2>1, WrapFits
<1>6. p.offset = off /\ p.limit = DefaultLimit
  BY <1>1, <1>5 DEF ParsePagination, None
<1>7. computeIndex(p, N) = <<off, end>>
  <2> HIDE DEF p, off
  <2>1. ~(p.limit < 0 \/ p.offset < 0 \/ p.offset > N)
    BY <1>1, <1>3, <1>6
  <2>2. off + DefaultLimit # 0
    BY <1>1, <1>3
  <2> QED BY <1>5, <1>6, <2>1, <2>2 DEF computeIndex
<1>8. end \in Nat /\ off <= end /\ end <= N
  BY <1>1, <1>3
<1>9. items = SubSeq(s, off + 1, end)
  <2> DEFINE b == computeIndex(p, Len(s))
  <2>1. items = IF InBounds(b, Len(s)) THEN SubSeq(s, b[1] + 1, b[2]) ELSE <<>>
    BY DEF GetPageData
  <2> HIDE DEF p, off, end
  <2>2. InBounds(<<off, end>>, N)
    BY <1>3, <1>8 DEF InBounds
  <2>3. b = <<off, end>>
    BY <1>4, <1>7
  <2> HIDE DEF b
  <2> QED BY <1>4, <2>1, <2>2, <2>3
<1> HIDE DEF off, end, items
<1>10. Len(items) = end - off /\ \A k \in 1..(end - off) : items[k] = s[off + k]
  <2>1. off \in 0..N /\ end \in off..N
    BY <1>3, <1>8
  <2>2. /\ Len(SubSeq(s, off + 1, end)) = end - off
        /\ \A k \in 1..(end - off) : SubSeq(s, off + 1, end)[k] = s[off + k]
    BY <2>1, SliceIs
  <2> QED BY <1>9, <2>2, Zenon
<1>11. end = IF off + DefaultLimit > N THEN N ELSE off + DefaultLimit
  BY DEF end
<1>12. ASSUME NEW i \in 1..DefaultLimit
       PROVE  /\ i <= Len(items) <=> off + i <= N
              /\ i <= Len(items) => items[i] = s[off + i]
  <2>1. i <= end - off <=> off + i <= N
    BY <1>1, <1>3, <1>8, <1>11
  <2>2. Len(items) = end - off
    BY <1>10
  <2>3. i <= end - off => i \in 1..(end - off)
    BY <1>1, <1>3, <1>8
  <2> QED BY <1>10, <2>1, <2>2, <2>3
<1> QED BY <1>12 DEF off, items, Shows

(* A place in the list is on one page, in one line of it.                  *)
LEMMA PageOfPlace ==
    ASSUME NEW N \in Nat, NEW q \in 1..N
    PROVE  \E n \in 1..((N \div DefaultLimit) + 1), i \in 1..DefaultLimit :
               (n - 1) * DefaultLimit + i = q
<1> DEFINE n == ((q - 1) \div DefaultLimit) + 1
           i == ((q - 1) % DefaultLimit) + 1
<1>1. DefaultLimit \in Nat /\ DefaultLimit >= 1 /\ q - 1 \in Nat /\ q - 1 < N
  BY WidthAssumption
<1>2. /\ (q - 1) \div DefaultLimit \in Nat
      /\ (q - 1) % DefaultLimit \in 0..(DefaultLimit - 1)
      /\ q - 1 = ((q - 1) \div DefaultLimit) * DefaultLimit + ((q - 1) % DefaultLimit)
  BY <1>1, SMT
<1>3. N \div DefaultLimit \in Nat /\ N = (N \div DefaultLimit) * DefaultLimit + (N % DefaultLimit)
      /\ N % DefaultLimit \in 0..(DefaultLimit - 1)
  BY <1>1, SMT
<1>4. (q - 1) \div DefaultLimit <= N \div DefaultLimit
  <2> DEFINE a == (q - 1) \div DefaultLimit
             b == N \div DefaultLimit
             r == N % DefaultLimit
             u == (q - 1) % DefaultLimit
  <2> SUFFICES ASSUME b + 1 <= a PROVE FALSE
    BY <1>2, <1>3
  <2>1. (b + 1) * DefaultLimit <= a * DefaultLimit /\ a * DefaultLimit \in Int
    BY <1>1, <1>2, <1>3, TimesKeepsOrder
  <2>2. (b + 1) * DefaultLimit = b * DefaultLimit + DefaultLimit /\ b * DefaultLimit \in Int
    BY <1>1, <1>3
  <2>3. q - 1 = a * DefaultLimit + u /\ N = b * DefaultLimit + r
        /\ r \in 0..(DefaultLimit - 1) /\ u \in 0..(DefaultLimit - 1)
    BY <1>2, <1>3
  <2> HIDE DEF a, b, r, u
  <2> QED BY <1>1, <2>1, <2>2, <2>3
<1>5. n \in 1..((N \div DefaultLimit) + 1) /\ n - 1 = (q - 1) \div DefaultLimit
  BY <1>2, <1>3, <1>4
<1>6. i \in 1..DefaultLimit
  BY <1>1, <1>2
<1>7. (n - 1) * DefaultLimit + i = q
  <2>1. ((q - 1) \div DefaultLimit) * DefaultLimit \in Int
    BY <1>1, <1>2
  <2> QED BY <1>1, <1>2, <1>5, <2>1
<1> QED BY <1>5, <1>6, <1>7

(* A walk over the pages of a list whose objects the comparison tells      *)
(* apart meets every object once, however the lister hands them out.       *)
THEOREM WalkTiles ==
    ASSUME NEW kind, NEW S, NEW by, NEW asc, IsFiniteSet(S), TellsApart(kind, S, by),
           Cardinality(S) + DefaultLimit <= MaxInt
    PROVE  PagesTile(kind, S, by, asc)
<1> DEFINE N == Cardinality(S)
           last == (N \div DefaultLimit) + 1
           Pages(sorted) ==
               [n \in 1..last |-> GetPageData(sorted[n], [kind |-> "int", n |-> n], None).items]
           Met(sorted, o) ==
               Cardinality({at \in (1..last) \X (1..DefaultLimit) :
                   at[2] <= Len(Pages(sorted)[at[1]]) /\ Pages(sorted)[at[1]][at[2]] = o})
<1> SUFFICES \A sorted \in [1..last -> Sorted(kind, S, by, asc)] : \A o \in S :
                  Met(sorted, o) = 1
  BY Zenon DEF PagesTile
<1> SUFFICES ASSUME NEW sorted \in [1..last -> Sorted(kind, S, by, asc)], NEW o \in S
             PROVE  Met(sorted, o) = 1
  OBVIOUS
<1> DEFINE pages == Pages(sorted)
<1> DEFINE At == {at \in (1..last) \X (1..DefaultLimit) :
                      at[2] <= Len(pages[at[1]]) /\ pages[at[1]][at[2]] = o}
           q == Cardinality(Ahead(kind, S, o, by, asc)) + 1
<1>1. N \in Nat /\ DefaultLimit \in Nat /\ DefaultLimit >= 1
  BY FS_CardinalityType, WidthAssumption
<1>2. ASSUME NEW n \in 1..last
      PROVE  /\ sorted[n] \in [1..N -> S] /\ q \in 1..N
             /\ \A i \in 1..N : sorted[n][i] = o <=> i = q
  <2> DEFINE s == sorted[n]
  <2>1. s \in Sorted(kind, S, by, asc)
    OBVIOUS
  <2> HIDE DEF s
  <2>2. s \in [1..N -> S] /\ \A i, j \in DOMAIN s : i # j => s[i] # s[j]
    BY <2>1, SortedIs, Zenon
  <2>3. \A x \in S : \E i \in 1..N : s[i] = x
    BY <2>2, Onto, Zenon
  <2>4. PICK k \in 1..N : s[k] = o
    BY <2>3
  <2>5. Cardinality(Ahead(kind, S, s[k], by, asc)) = k - 1
    BY <2>1, PlaceIs
  <2>6. q = k
    <3> HIDE DEF N
    <3> QED BY <1>1, <2>4, <2>5
  <2> HIDE DEF q, N
  <2>7. \A i \in 1..N : s[i] = o <=> i = q
    BY <2>2, <2>4, <2>6
  <2> QED BY <2>2, <2>4, <2>6, <2>7 DEF s
<1>3. 1 \in 1..last
  <2>1. N \div DefaultLimit \in Nat
    BY <1>1, SMT
  <2> HIDE DEF N
  <2> QED BY <2>1
<1>4. q \in 1..N
  BY <1>2, <1>3
<1>5. ASSUME NEW n \in 1..last, NEW i \in 1..DefaultLimit
      PROVE  i <= Len(pages[n]) /\ pages[n][i] = o <=> (n - 1) * DefaultLimit + i = q
  <2> DEFINE place == (n - 1) * DefaultLimit + i
  <2>1. pages[n] = GetPageData(sorted[n], [kind |-> "int", n |-> n], None).items
    BY Zenon
  <2>2. /\ sorted[n] \in [1..N -> S] /\ q \in 1..N
        /\ \A k \in 1..N : sorted[n][k] = o <=> k = q
    BY <1>2
  <2>3. N + DefaultLimit <= MaxInt
    OBVIOUS
  <2> HIDE DEF N, q, Pages
  <2>4. Shows(pages[n], sorted[n], N, n)
    <3> DEFINE m == (N \div DefaultLimit) + 1
    <3>1. N \in Nat /\ n \in 1..m /\ sorted[n] \in [1..N -> S]
      BY <1>1, <2>2
    <3> QED BY <2>1, <2>3, <3>1, PageIs, Zenon
  <2>5. /\ i <= Len(pages[n]) <=> place <= N
        /\ i <= Len(pages[n]) => pages[n][i] = sorted[n][place]
    BY <2>4, Zenon DEF Shows
  <2>6. place \in Int /\ place >= 1
    <3>1. 0 <= n - 1 /\ n - 1 \in Int
      BY <1>1
    <3>2. 0 * DefaultLimit <= (n - 1) * DefaultLimit /\ (n - 1) * DefaultLimit \in Int
      BY <1>1, <3>1, TimesKeepsOrder
    <3> QED BY <1>1, <3>2
  <2> HIDE DEF place
  <2>7. q <= N /\ (place <= N => place \in 1..N)
    BY <1>1, <2>2, <2>6
  <2> QED BY <2>2, <2>5, <2>7 DEF place
<1>6. PICK n \in 1..last, i \in 1..DefaultLimit : (n - 1) * DefaultLimit + i = q
  BY <1>1, <1>4, PageOfPlace
<1>7. At = {<<n, i>>}
  <2>1. <<n, i>> \in At
    BY <1>5, <1>6
  <2>2. ASSUME NEW at \in At PROVE at = <<n, i>>
    <3>1. PICK m \in 1..last, j \in 1..DefaultLimit : at = <<m, j>>
      OBVIOUS
    <3>2. j <= Len(pages[m]) /\ pages[m][j] = o
      BY <3>1
    <3>3. (m - 1) * DefaultLimit + j = q
      BY <1>5, <3>2
    <3>4. m - 1 \in Nat /\ n - 1 \in Nat
      <4> HIDE DEF last
      <4> QED OBVIOUS
    <3> HIDE DEF q, last
    <3>5. m - 1 = n - 1 /\ j = i
      BY <1>6, <3>3, <3>4, OnePage
    <3> QED BY <3>1, <3>4, <3>5
  <2> QED BY <2>1, <2>2
<1> HIDE DEF At
<1>8. Cardinality(At) = 1
  BY <1>7, FS_Singleton
<1> QED BY <1>8 DEF At

(* compareRule: two rules of the same second are told apart by their       *)
(* names, and by their names alone.                                        *)
LEMMA RulesToldApart ==
    ASSUME NEW S \in SUBSET Object, \A a, b \in S : a # b => a.name # b.name,
           NEW by \in {"createTime", "name"}
    PROVE  TellsApart("inspectrules", S, by)
<1>1. \A a \in S : a.name \in Nat /\ a.time \in Nat
  BY DEF Object
<1> DEFINE first(a, b) == \/ by # "name" /\ a.time < b.time
                          \/ (by = "name" \/ a.time = b.time) /\ a.name < b.name
<1>2. \A a, b : compare("inspectrules", a, b, by) <=>
          IF by = "name" THEN a.name < b.name
          ELSE IF a.time = b.time THEN a.name < b.name ELSE a.time < b.time
  BY DEF compare, compareRule
<1>3. ASSUME NEW a \in S, NEW b \in S
      PROVE  /\ first(a, b) => ~first(b, a)
             /\ a # b => first(a, b) \/ first(b, a)
  <2> DEFINE n == by = "name"
  <2>1. a.name \in Nat /\ a.time \in Nat /\ b.name \in Nat /\ b.time \in Nat
    BY <1>1
  <2>2. a # b => a.name # b.name
    OBVIOUS
  <2> HIDE DEF n
  <2>3. CASE n
    BY <2>1, <2>2, <2>3 DEF n
  <2>4. CASE ~n
    BY <2>1, <2>2, <2>4 DEF n
  <2> QED BY <2>3, <2>4
<1>4. ASSUME NEW a \in S, NEW b \in S PROVE compare("inspectrules", a, b, by) <=> first(a, b)
  <2>1. a.name \in Nat /\ a.time \in Nat /\ b.name \in Nat /\ b.time \in Nat
    BY <1>1
  <2>2. ~(a.time = b.time /\ a.time < b.time)
    BY <2>1
  <2> QED BY <1>2, <2>2, Zenon
<1> HIDE DEF first
<1>5. ASSUME NEW a \in S, NEW b \in S
      PROVE  /\ compare("inspectrules", a, b, by) => ~compare("inspectrules", b, a, by)
             /\ a # b => compare("inspectrules", a, b, by) \/ compare("inspectrules", b, a, by)
  BY <1>3, <1>4, Zenon
<1> QED BY <1>5 DEF TellsApart

(* comparePlan, compareTask, compareResult: objects of different seconds   *)
(* are told apart by the time they were created.                           *)
LEMMA TimesTellApart ==
    ASSUME NEW S \in SUBSET Object, \A a, b \in S : a # b => a.time # b.time,
           NEW kind \in {"inspectplans", "inspecttasks", "inspectresults"}
    PROVE  TellsApart(kind, S, "createTime")
<1>1. \A a \in S : a.time \in Nat
  BY DEF Object
<1>2. \A a, b : compare(kind, a, b, "createTime") <=> a.time < b.time
  BY DEF compare, comparePlan, compareTask, compareResult
<1>3. ASSUME NEW a \in S, NEW b \in S
      PROVE  /\ compare(kind, a, b, "createTime") => ~compare(kind, b, a, "createTime")
             /\ a # b => compare(kind, a, b, "createTime") \/ compare(kind, b, a, "createTime")
  <2>1. /\ a.time < b.time => ~(b.time < a.time)
        /\ a # b => a.time < b.time \/ b.time < a.time
    BY <1>1
  <2> QED BY <1>2, <2>1, Zenon
<1> QED BY <1>3 DEF TellsApart

(* ListInspectRule: a walk over the pages of the rules, by time or by      *)
(* name, up or down, meets each rule once: rules have names of their own.  *)
THEOREM RulePagesTile ==
    ASSUME NEW S \in SUBSET Object, IsFiniteSet(S),
           \A a, b \in S : a # b => a.name # b.name,
           Cardinality(S) + DefaultLimit <= MaxInt,
           NEW by \in {"createTime", "name"}, NEW asc
    PROVE  PagesTile("inspectrules", S, by, asc)
  BY RulesToldApart, WalkTiles

(* ListInspectPlan, ListInspectTask, ListInspectResult: by the time they   *)
(* were created, if no two of them were created in the same second.        *)
THEOREM TimePagesTile ==
    ASSUME NEW S \in SUBSET Object, IsFiniteSet(S),
           Cardinality(S) + DefaultLimit <= MaxInt,
           NEW kind \in {"inspectplans", "inspecttasks", "inspectresults"}, NEW asc
    PROVE  PagesTile(kind, S, "createTime", asc)
<1>1. CASE \A a, b \in S : a # b => a.time # b.time
  BY <1>1, TimesTellApart, WalkTiles
<1>2. CASE ~(\A a, b \in S : a # b => a.time # b.time)
  BY <1>2, Zenon DEF PagesTile
<1> QED BY <1>1, <1>2
=============================================================================
