----------------------------- MODULE DBScanProofs -----------------------------
(***************************************************************************)
(* Theorems about DBScan and FilterSet.                                    *)
(*                                                                         *)
(* First come the algorithms: sorting, the binary search of                *)
(* FilterSetBytes (SearchExactTheorem), std::merge.  Then the query.       *)
(* ScanInv places every stored match of a cursor's key: ahead of the       *)
(* cursor, in the queue, or handed over.  The lemmas say what the          *)
(* constructor, the queue and collect do with keys, candidates and         *)
(* positions; each action keeps ScanInv; and at the end of a filter, with  *)
(* an empty queue or the limit reached, ScanInv gives NewestFirst.         *)
(***************************************************************************)
EXTENDS DBScan, TLAPS, WellFoundedInduction, FiniteSetTheorems

-----------------------------------------------------------------------------
(* Induction.  The least counterexample takes the place of the library's     *)
(* induction rules, which have an operator as parameter.                     *)

\* A set of numbers that is not empty has a least member.
LEMMA LeastNumber ==
  ASSUME NEW T \in SUBSET Nat, T # {}
  PROVE  \E n \in T : \A k \in T : n <= k
<1> DEFINE R == OpToRel(<, Nat)
<1>1. PICK n \in T : \A k \in T : ~(<<k, n>> \in R)
  BY NatLessThanWellFounded, WFMin
<1>2. \A k \in T : ~(k < n)
  BY <1>1 DEF OpToRel
<1> QED BY <1>2

\* A set that has 0 and with each number the next one, up to L, has all of them.
LEMMA UpTo ==
  ASSUME NEW L \in Nat, NEW P \in SUBSET (0..L), 0 \in P,
         \A n \in 0..(L - 1) : n \in P => n + 1 \in P
  PROVE  P = 0..L
<1> SUFFICES ASSUME (0..L) \ P # {} PROVE FALSE
  OBVIOUS
<1>1. (0..L) \ P \in SUBSET Nat
  OBVIOUS
<1>2. PICK n \in (0..L) \ P : \A k \in (0..L) \ P : n <= k
  BY <1>1, LeastNumber
<1>3. n # 0 /\ n - 1 \in 0..(L - 1) /\ n - 1 \in P
  BY <1>2
<1> QED BY <1>2, <1>3

\* What f has come to after each of L steps.
Iterates(L, base, step, f) == f[0] = base /\ \A n \in 1..L : f[n] = step[n][f[n - 1]]

\* A value computed step by step from a first one is there for every step.
LEMMA Iteration ==
  ASSUME NEW L \in Nat, NEW S, NEW base \in S, NEW step \in [1..L -> [S -> S]]
  PROVE  \E f \in [0..L -> S] : Iterates(L, base, step, f)
<1> DEFINE Good(n, f) == f[0] = base /\ \A k \in 1..n : f[k] = step[k][f[k - 1]]
           P == {n \in 0..L : \E f \in [0..n -> S] : Good(n, f)}
<1>1. 0 \in P
  <2> DEFINE f == [k \in 0..0 |-> base]
  <2>1. f \in [0..0 -> S] /\ Good(0, f)
    OBVIOUS
  <2> HIDE DEF f, Good
  <2>2. \E h \in [0..0 -> S] : Good(0, h)
    BY <2>1
  <2> QED BY <2>2
<1>2. ASSUME NEW n \in 0..(L - 1), n \in P PROVE n + 1 \in P
  <2>1. PICK f \in [0..n -> S] : Good(n, f)
    BY <1>2
  <2> DEFINE g == [k \in 0..(n + 1) |-> IF k = n + 1 THEN step[n + 1][f[n]] ELSE f[k]]
  <2>2. step[n + 1][f[n]] \in S
    OBVIOUS
  <2>3. g \in [0..(n + 1) -> S]
    BY <2>2
  <2>4. g[0] = base
    BY <2>1
  <2>5. ASSUME NEW k \in 1..(n + 1) PROVE g[k] = step[k][g[k - 1]]
    <3>1. k - 1 \in 0..n /\ g[k - 1] = f[k - 1]
      OBVIOUS
    <3>2. CASE k = n + 1
      BY <3>1, <3>2
    <3>3. CASE k \in 1..n
      BY <2>1, <3>1, <3>3
    <3> QED BY <3>2, <3>3
  <2>6. Good(n + 1, g)
    BY <2>4, <2>5
  <2> HIDE DEF g, Good
  <2>7. \E h \in [0..(n + 1) -> S] : Good(n + 1, h)
    BY <2>3, <2>6
  <2> QED BY <2>7
<1>3. P = 0..L
  <2> HIDE DEF P
  <2>1. P \in SUBSET (0..L)
    BY DEF P
  <2> QED BY <1>1, <1>2, <2>1, UpTo
<1>4. L \in P
  <2>1. L \in 0..L
    OBVIOUS
  <2> HIDE DEF P
  <2> QED BY <1>3, <2>1
<1> QED BY <1>4 DEF Iterates

-----------------------------------------------------------------------------
(* SortedBy.  The order is given as a set of pairs; each use of SortedBy is  *)
(* brought into this form.                                                   *)

Ordered(S, R) ==
  /\ \A x \in S : <<x, x>> \notin R
  /\ \A x, y \in S : x = y \/ <<x, y>> \in R \/ <<y, x>> \in R
  /\ \A x, y, z \in S : <<x, y>> \in R /\ <<y, z>> \in R => <<x, z>> \in R

Rank(S, R, x) == Cardinality({y \in S : <<y, x>> \in R})

Sorted(S, R) == [k \in 1..Cardinality(S) |-> CHOOSE x \in S : Rank(S, R, x) = k - 1]

\* What is further up in the order has more below it.
LEMMA RankGrows ==
  ASSUME NEW S, IsFiniteSet(S), NEW R, Ordered(S, R), NEW x \in S, NEW y \in S
  PROVE  /\ Rank(S, R, x) \in 0..(Cardinality(S) - 1) /\ Cardinality(S) \in Nat
         /\ <<x, y>> \in R => Rank(S, R, x) < Rank(S, R, y)
<1> DEFINE Below(z) == {w \in S : <<w, z>> \in R}
<1>1. ASSUME NEW z \in S PROVE IsFiniteSet(Below(z)) /\ Cardinality(Below(z)) \in Nat
  <2>1. Below(z) \in SUBSET S
    OBVIOUS
  <2> HIDE DEF Below
  <2> QED BY <2>1, FS_Subset, FS_CardinalityType
<1>2. Cardinality(S) \in Nat
  BY FS_CardinalityType
<1>3. Cardinality(Below(x)) <= Cardinality(S) - 1
  <2>1. Below(x) \in SUBSET S /\ Below(x) # S
    BY DEF Ordered
  <2> HIDE DEF Below
  <2>2. Cardinality(Below(x)) <= Cardinality(S) /\ Cardinality(Below(x)) # Cardinality(S)
    BY <2>1, FS_Subset
  <2> QED BY <1>1, <1>2, <2>2
<1>4. ASSUME <<x, y>> \in R PROVE Cardinality(Below(x)) < Cardinality(Below(y))
  <2>1. Below(x) \in SUBSET Below(y) /\ Below(x) # Below(y)
    BY <1>4 DEF Ordered
  <2>2. IsFiniteSet(Below(y)) /\ Cardinality(Below(y)) \in Nat /\ Cardinality(Below(x)) \in Nat
    BY <1>1
  <2> HIDE DEF Below
  <2>3. Cardinality(Below(x)) <= Cardinality(Below(y))
        /\ Cardinality(Below(x)) # Cardinality(Below(y))
    BY <2>1, <2>2, FS_Subset
  <2> QED BY <2>2, <2>3
<1>5. Rank(S, R, x) = Cardinality(Below(x)) /\ Rank(S, R, y) = Cardinality(Below(y))
  BY DEF Rank
<1> HIDE DEF Below
<1> QED BY <1>1, <1>2, <1>3, <1>4, <1>5

\* Every rank is taken.
LEMMA RankTaken ==
  ASSUME NEW S, IsFiniteSet(S), NEW R, Ordered(S, R), NEW k \in 1..Cardinality(S)
  PROVE  \E x \in S : Rank(S, R, x) = k - 1
<1> DEFINE n == Cardinality(S)
           f == [x \in S |-> Rank(S, R, x)]
<1>1. n \in Nat
  BY FS_CardinalityType
<1>2. IsFiniteSet(0..(n - 1)) /\ Cardinality(0..(n - 1)) = n
  <2> HIDE DEF n
  <2>1. 0 \in Int /\ n - 1 \in Int
    BY <1>1
  <2>2. IsFiniteSet(0..(n - 1)) /\ Cardinality(0..(n - 1)) = IF 0 > n - 1 THEN 0 ELSE (n - 1) - 0 + 1
    BY <2>1, FS_Interval
  <2> QED BY <1>1, <2>2
<1>3. f \in [S -> 0..(n - 1)]
  BY RankGrows
<1>4. ASSUME NEW x \in S, NEW y \in S, f[x] = f[y] PROVE x = y
  <2>1. Rank(S, R, x) = Rank(S, R, y) /\ Rank(S, R, x) \in Int
    <3>1. Rank(S, R, x) \in 0..(Cardinality(S) - 1)
      BY RankGrows
    <3> QED BY <1>4, <3>1
  <2>2. <<x, y>> \notin R /\ <<y, x>> \notin R
    BY <2>1, RankGrows
  <2> QED BY <2>2 DEF Ordered
<1>5. f \in Injection(S, 0..(n - 1))
  BY <1>3, <1>4 DEF Injection, IsInjective
<1>6. f \in Surjection(S, 0..(n - 1))
  <2> HIDE DEF f
  <2> QED BY <1>2, <1>5, FS_Injection
<1>7. k - 1 \in 0..(n - 1)
  BY <1>1
<1>8. \E x \in S : f[x] = k - 1
  <2> HIDE DEF f
  <2> QED BY <1>6, <1>7 DEF Surjection
<1> QED BY <1>8

\* The members of the set, each once, in order.
LEMMA SortedSeq ==
  ASSUME NEW S, IsFiniteSet(S), NEW R, Ordered(S, R)
  PROVE  /\ Sorted(S, R) \in Seq(S) /\ Len(Sorted(S, R)) = Cardinality(S)
         /\ Cardinality(S) \in Nat
         /\ \A i, j \in 1..Cardinality(S) : i < j => <<Sorted(S, R)[i], Sorted(S, R)[j]>> \in R
         /\ \A x \in S : \E i \in 1..Cardinality(S) : Sorted(S, R)[i] = x
<1> DEFINE n == Cardinality(S)
           s == Sorted(S, R)
<1>1. n \in Nat
  BY FS_CardinalityType
<1>2. ASSUME NEW k \in 1..n PROVE s[k] \in S /\ Rank(S, R, s[k]) = k - 1
  <2>1. \E x \in S : Rank(S, R, x) = k - 1
    BY RankTaken
  <2>2. s[k] = CHOOSE x \in S : Rank(S, R, x) = k - 1
    BY DEF Sorted
  <2> QED BY <2>1, <2>2, Zenon
<1>3. s = [k \in 1..n |-> s[k]]
  BY DEF Sorted
<1>4. s \in Seq(S) /\ Len(s) = n
  <2> HIDE DEF s, n
  <2> QED BY <1>1, <1>2, <1>3
<1>5. ASSUME NEW i \in 1..n, NEW j \in 1..n, i < j PROVE <<s[i], s[j]>> \in R
  <2>1. s[i] \in S /\ s[j] \in S /\ Rank(S, R, s[i]) = i - 1 /\ Rank(S, R, s[j]) = j - 1
    BY <1>2
  <2> HIDE DEF s, n
  <2>2. Rank(S, R, s[i]) < Rank(S, R, s[j]) /\ i \in Int /\ j \in Int
    BY <1>1, <1>5, <2>1
  <2>3. s[i] # s[j]
    BY <2>1, <2>2
  <2>4. <<s[j], s[i]>> \notin R
    <3>1. <<s[j], s[i]>> \in R => Rank(S, R, s[j]) < Rank(S, R, s[i])
      BY <2>1, RankGrows
    <3> QED BY <2>1, <2>2, <3>1
  <2> QED BY <2>1, <2>3, <2>4 DEF Ordered
<1>6. ASSUME NEW x \in S PROVE \E i \in 1..n : s[i] = x
  <2>1. Rank(S, R, x) \in 0..(n - 1)
    BY RankGrows
  <2> DEFINE k == Rank(S, R, x) + 1
  <2>2. k \in 1..n /\ k - 1 = Rank(S, R, x)
    BY <1>1, <2>1
  <2> HIDE DEF s, n, k
  <2>3. s[k] \in S /\ Rank(S, R, s[k]) = Rank(S, R, x)
    BY <1>2, <2>2
  <2>4. <<s[k], x>> \notin R /\ <<x, s[k]>> \notin R
    <3>1. <<s[k], x>> \in R => Rank(S, R, s[k]) < Rank(S, R, x)
      BY <2>3, RankGrows
    <3>2. <<x, s[k]>> \in R => Rank(S, R, x) < Rank(S, R, s[k])
      BY <2>3, RankGrows
    <3> QED BY <2>1, <2>3, <3>1, <3>2
  <2>5. s[k] = x
    BY <2>3, <2>4 DEF Ordered
  <2> QED BY <2>2, <2>5
<1> QED BY <1>1, <1>4, <1>5, <1>6

-----------------------------------------------------------------------------
(* FilterSetBytes *)

\* A value is a sequence of bytes.
LEMMA ValueType ==
  ASSUME NEW x \in Values
  PROVE  x \in Seq(0..255) /\ Len(x) \in Nat /\ DOMAIN x = 1..Len(x)
         /\ \A i \in 1..Len(x) : x[i] \in Int
<1>1. PICK n \in 0..MaxLen : x \in [1..n -> Bytes]
  BY DEF Values
<1>2. n \in Nat /\ Bytes \in SUBSET (0..255)
  BY FilterSetAssumption
<1>3. x \in [1..n -> 0..255]
  BY <1>1, <1>2
<1>4. x \in Seq(0..255) /\ Len(x) = n /\ DOMAIN x = 1..n
  BY <1>2, <1>3
<1>5. \A i \in 1..n : x[i] \in 0..255
  BY <1>3
<1>6. \A i \in 1..n : x[i] \in Int
  BY <1>5
<1> QED BY <1>2, <1>4, <1>6

\* Values that differ do so at a first place.
LEMMA FirstDifference ==
  ASSUME NEW x \in Values, NEW y \in Values, x # y
  PROVE  StringLess(x, y) \/ StringLess(y, x)
<1> DEFINE T == {i \in 1..(Len(x) + 1) : i = Len(x) + 1 \/ i > Len(y) \/ x[i] # y[i]}
<1>1. /\ Len(x) \in Nat /\ Len(y) \in Nat /\ DOMAIN x = 1..Len(x) /\ DOMAIN y = 1..Len(y)
      /\ x = [i \in 1..Len(x) |-> x[i]] /\ y = [i \in 1..Len(y) |-> y[i]]
      /\ \A i \in 1..Len(x) : x[i] \in Int
      /\ \A i \in 1..Len(y) : y[i] \in Int
  BY ValueType
<1>2. T \in SUBSET Nat /\ Len(x) + 1 \in T
  BY <1>1
<1>3. PICK i \in T : \A k \in T : i <= k
  <2> HIDE DEF T
  <2> QED BY <1>2, LeastNumber
<1>4. i \in 1..(Len(x) + 1) /\ \A j \in 1..(i - 1) : j <= Len(x) /\ j <= Len(y) /\ x[j] = y[j]
  <2>1. i \in 1..(Len(x) + 1)
    OBVIOUS
  <2>2. ASSUME NEW j \in 1..(i - 1) PROVE j <= Len(x) /\ j <= Len(y) /\ x[j] = y[j]
    <3>1. j \notin T
      BY <1>1, <1>2, <1>3
    <3> QED BY <1>1, <2>1, <3>1
  <2> QED BY <2>1, <2>2
<1>5. CASE i = Len(x) + 1
  <2>1. CASE i <= Len(y)
    BY <1>4, <1>5, <2>1 DEF StringLess
  <2>2. CASE i > Len(y)
    <3>1. Len(x) \in 1..(i - 1) \/ Len(x) = 0
      BY <1>1, <1>5
    <3>2. Len(y) = Len(x)
      <4>1. Len(x) \in 1..(i - 1) => Len(x) <= Len(y)
        BY <1>4
      <4>2. Len(x) \in Nat /\ Len(y) \in Nat
        BY <1>1
      <4> HIDE DEF T
      <4> QED BY <1>5, <2>2, <3>1, <4>1, <4>2
    <3>3. x = y
      BY <1>1, <1>4, <1>5, <3>2
    <3> QED BY <3>3
  <2> QED BY <1>1, <1>4, <2>1, <2>2
<1>6. CASE i <= Len(x) /\ i > Len(y)
  <2>0. i - 1 \in 1..(i - 1) \/ i = 1
    BY <1>1, <1>4
  <2>1. i = Len(y) + 1
    BY <1>1, <1>4, <1>6, <2>0
  <2> QED BY <1>1, <1>4, <1>6, <2>1 DEF StringLess
<1>7. CASE i <= Len(x) /\ i <= Len(y)
  <2>1. x[i] # y[i] /\ i \in 1..Len(x) /\ i \in 1..Len(y)
    BY <1>1, <1>4, <1>7
  <2>2. x[i] < y[i] \/ y[i] < x[i]
    BY <1>1, <2>1
  <2> QED BY <1>1, <1>4, <1>7, <2>1, <2>2 DEF StringLess
<1> QED BY <1>1, <1>4, <1>5, <1>6, <1>7

\* operator< is a total order.
LEMMA StringOrder ==
  ASSUME NEW x \in Values, NEW y \in Values, NEW z \in Values
  PROVE  /\ ~StringLess(x, x)
         /\ x = y \/ StringLess(x, y) \/ StringLess(y, x)
         /\ StringLess(x, y) /\ StringLess(y, z) => StringLess(x, z)
<1>1. /\ Len(x) \in Nat /\ Len(y) \in Nat /\ Len(z) \in Nat
      /\ \A i \in 1..Len(x) : x[i] \in Int
      /\ \A i \in 1..Len(y) : y[i] \in Int
      /\ \A i \in 1..Len(z) : z[i] \in Int
  BY ValueType
<1>2. ~StringLess(x, x)
  BY <1>1 DEF StringLess
<1>3. x = y \/ StringLess(x, y) \/ StringLess(y, x)
  BY FirstDifference
<1>4. ASSUME StringLess(x, y), StringLess(y, z) PROVE StringLess(x, z)
  <2>1. PICK i \in 1..(Len(x) + 1) : /\ i <= Len(y)
                                     /\ \A j \in 1..(i - 1) : x[j] = y[j]
                                     /\ i = Len(x) + 1 \/ x[i] < y[i]
    BY <1>4 DEF StringLess
  <2>2. PICK k \in 1..(Len(y) + 1) : /\ k <= Len(z)
                                     /\ \A j \in 1..(k - 1) : y[j] = z[j]
                                     /\ k = Len(y) + 1 \/ y[k] < z[k]
    BY <1>4 DEF StringLess
  <2>3. CASE i <= k
    <3>1. i <= Len(z) /\ \A j \in 1..(i - 1) : x[j] = z[j]
      BY <1>1, <2>1, <2>2, <2>3
    <3>2. i = Len(x) + 1 \/ x[i] < z[i]
      BY <1>1, <2>1, <2>2, <2>3
    <3> QED BY <3>1, <3>2 DEF StringLess
  <2>4. CASE k < i
    <3>1. k \in 1..(Len(x) + 1) /\ \A j \in 1..(k - 1) : x[j] = z[j]
      BY <1>1, <2>1, <2>2, <2>4
    <3>2. k <= Len(z) /\ x[k] < z[k]
      BY <1>1, <2>1, <2>2, <2>4
    <3> QED BY <3>1, <3>2 DEF StringLess
  <2> QED BY <1>1, <2>1, <2>2, <2>3, <2>4
<1> QED BY <1>2, <1>3, <1>4

\* Looking at the first bytes first gives the same answer.
LEMMA CompIsLess ==
  ASSUME NEW x \in Values, NEW y \in Values
  PROVE  Comp(x, y) <=> StringLess(x, y)
<1>1. /\ Len(x) \in Nat /\ Len(y) \in Nat /\ x \in Seq(0..255) /\ y \in Seq(0..255)
      /\ \A i \in 1..Len(x) : x[i] \in Int
      /\ \A i \in 1..Len(y) : y[i] \in Int
  BY ValueType
<1>2. CASE x # <<>> /\ y # <<>> /\ x[1] # y[1]
  <2>1. Len(x) >= 1 /\ Len(y) >= 1 /\ x[1] \in Int /\ y[1] \in Int
    BY <1>1, <1>2
  <2>2. ASSUME x[1] < y[1] PROVE StringLess(x, y)
    BY <1>1, <2>1, <2>2 DEF StringLess
  <2>3. ASSUME StringLess(x, y) PROVE x[1] < y[1]
    <3>1. PICK i \in 1..(Len(x) + 1) : /\ i <= Len(y)
                                       /\ \A j \in 1..(i - 1) : x[j] = y[j]
                                       /\ i = Len(x) + 1 \/ x[i] < y[i]
      BY <2>3 DEF StringLess
    <3>2. i = 1
      BY <1>1, <1>2, <2>1, <3>1
    <3> QED BY <1>1, <2>1, <3>1, <3>2
  <2> QED BY <1>2, <2>2, <2>3 DEF Comp
<1>3. CASE ~(x # <<>> /\ y # <<>> /\ x[1] # y[1])
  BY <1>3 DEF Comp
<1> QED BY <1>2, <1>3

\* The constructor sorts: each value once, in order.
LEMMA ItemsSorted ==
  ASSUME NEW vals \in SUBSET Values, IsFiniteSet(vals)
  PROVE  /\ Items(vals) \in Seq(vals) /\ Len(Items(vals)) \in Nat
         /\ \A i, j \in 1..Len(Items(vals)) : i < j => StringLess(Items(vals)[i], Items(vals)[j])
         /\ \A x \in vals : \E i \in 1..Len(Items(vals)) : Items(vals)[i] = x
<1> DEFINE R == {p \in vals \X vals : StringLess(p[1], p[2])}
<1>1. \A x, y \in vals : <<x, y>> \in R <=> StringLess(x, y)
  OBVIOUS
<1>2. Ordered(vals, R)
  <2>1. vals \subseteq Values
    OBVIOUS
  <2> HIDE DEF R
  <2>2. /\ \A x \in vals : <<x, x>> \notin R
        /\ \A x, y \in vals : x = y \/ <<x, y>> \in R \/ <<y, x>> \in R
    BY <1>1, <2>1, StringOrder
  <2>3. ASSUME NEW x \in vals, NEW y \in vals, NEW z \in vals, <<x, y>> \in R, <<y, z>> \in R
        PROVE  <<x, z>> \in R
    <3>1. StringLess(x, y) /\ StringLess(y, z)
      BY <1>1, <2>3
    <3> QED BY <1>1, <2>1, <3>1, StringOrder
  <2> QED BY <2>2, <2>3 DEF Ordered
<1>3. Items(vals) = Sorted(vals, R)
  <2>1. ASSUME NEW x \in vals
        PROVE  {y \in vals : StringLess(y, x)} = {y \in vals : <<y, x>> \in R}
    BY <1>1
  <2>2. ASSUME NEW k \in 1..Cardinality(vals)
        PROVE  (CHOOSE x \in vals : Cardinality({y \in vals : StringLess(y, x)}) = k - 1)
               = (CHOOSE x \in vals : Cardinality({y \in vals : <<y, x>> \in R}) = k - 1)
    <3> HIDE DEF R
    <3> QED BY <2>1
  <2>3. Items(vals) = [k \in 1..Cardinality(vals) |->
                         CHOOSE x \in vals : Cardinality({y \in vals : StringLess(y, x)}) = k - 1]
    BY DEF Items, SortedBy
  <2>4. Sorted(vals, R) = [k \in 1..Cardinality(vals) |->
                             CHOOSE x \in vals : Cardinality({y \in vals : <<y, x>> \in R}) = k - 1]
    <3> HIDE DEF R
    <3> QED BY DEF Sorted, Rank
  <2> HIDE DEF R
  <2> QED BY <2>2, <2>3, <2>4
<1> HIDE DEF R
<1>4. /\ Sorted(vals, R) \in Seq(vals) /\ Len(Sorted(vals, R)) = Cardinality(vals)
      /\ Cardinality(vals) \in Nat
      /\ \A i, j \in 1..Cardinality(vals) : i < j => <<Sorted(vals, R)[i], Sorted(vals, R)[j]>> \in R
      /\ \A x \in vals : \E i \in 1..Cardinality(vals) : Sorted(vals, R)[i] = x
  BY <1>2, SortedSeq
<1>5. \A i \in 1..Cardinality(vals) : Sorted(vals, R)[i] \in vals
  BY <1>4
<1> QED BY <1>1, <1>3, <1>4, <1>5

\* The loop, for items in order: before first all are at or below the candidate,
\* behind first + count all are above, and a round takes away at least one.
LEMMA SearchLoop ==
  ASSUME NEW items \in Seq(Values), NEW c \in Values,
         \A i, j \in 1..Len(items) : i < j => StringLess(items[i], items[j])
  PROVE  LET at == UpperBound(items, c)
         IN  /\ at.count = 0 /\ at.first \in 0..Len(items)
             /\ \A i \in 1..at.first : ~StringLess(c, items[i])
             /\ \A i \in (at.first + 1)..Len(items) : StringLess(c, items[i])
<1> DEFINE n == Len(items)
           S == {a \in [first : 0..n, count : 0..n] : a.first + a.count <= n}
           base == [first |-> 0, count |-> n]
           step == [k \in 1..n |-> [a \in S |-> Halve(items, c, a)]]
           body(f) == [k \in 0..n |-> IF k = 0 THEN base ELSE Halve(items, c, f[k - 1])]
           Split(a) == /\ \A i \in 1..a.first : ~StringLess(c, items[i])
                       /\ \A i \in (a.first + a.count + 1)..n : StringLess(c, items[i])
<1>1. n \in Nat /\ \A i \in 1..n : items[i] \in Values
  OBVIOUS
<1>2. base \in S
  BY <1>1
<1>3. ASSUME NEW a \in S
      PROVE  /\ Halve(items, c, a) \in S
             /\ a.count > 0 => Halve(items, c, a).count < a.count
             /\ a.count = 0 => Halve(items, c, a) = a
             /\ Split(a) => Split(Halve(items, c, a))
  <2>0. /\ a.first \in 0..n /\ a.count \in 0..n /\ a.first + a.count <= n
        /\ a = [first |-> a.first, count |-> a.count]
    OBVIOUS
  <2>1. CASE a.count = 0
    <3>1. Halve(items, c, a) = a
      BY <2>1 DEF Halve
    <3> QED BY <2>0, <2>1, <3>1
  <2>2. CASE a.count > 0
    <3> DEFINE half == a.count \div 2
               curr == a.first + half
    <3>1. half \in Nat /\ half < a.count
      BY <1>1, <2>0, <2>2
    <3> HIDE DEF half
    <3>2. curr + 1 \in 1..n
      BY <1>1, <2>0, <3>1
    <3>3. CASE ~Comp(c, items[curr + 1])
      <4>1. Halve(items, c, a) = [first |-> curr + 1, count |-> a.count - (half + 1)]
        BY <2>0, <2>2, <3>3 DEF Halve, half
      <4>2. ~StringLess(c, items[curr + 1])
        BY <1>1, <3>2, <3>3, CompIsLess
      <4>3. ASSUME NEW i \in 1..(curr + 1) PROVE ~StringLess(c, items[i])
        <5>1. i \in 1..n /\ (i = curr + 1 \/ i < curr + 1)
          BY <1>1, <3>2
        <5>2. i < curr + 1 => StringLess(items[i], items[curr + 1])
          BY <3>2, <5>1
        <5>3. items[i] \in Values /\ items[curr + 1] \in Values
          BY <1>1, <3>2, <5>1
        <5> QED BY <4>2, <5>1, <5>2, <5>3, StringOrder
      <4>4. curr + 1 \in 0..n /\ a.count - (half + 1) \in 0..n /\ a.count - (half + 1) < a.count
            /\ (curr + 1) + (a.count - (half + 1)) = a.first + a.count
        BY <1>1, <2>0, <3>1, <3>2
      <4>5. Halve(items, c, a) \in S /\ Halve(items, c, a).count < a.count
        <5> HIDE DEF curr
        <5> QED BY <2>0, <4>1, <4>4
      <4>6. ASSUME Split(a) PROVE Split(Halve(items, c, a))
        <5> HIDE DEF curr
        <5> QED BY <4>1, <4>3, <4>4, <4>6
      <4> QED BY <1>1, <2>0, <2>2, <4>5, <4>6
    <3>4. CASE Comp(c, items[curr + 1])
      <4>1. Halve(items, c, a) = [first |-> a.first, count |-> half]
        BY <2>0, <2>2, <3>4 DEF Halve, half
      <4>2. StringLess(c, items[curr + 1])
        BY <1>1, <3>2, <3>4, CompIsLess
      <4>3. ASSUME NEW i \in (curr + 1)..n PROVE StringLess(c, items[i])
        <5>1. i \in 1..n /\ (i = curr + 1 \/ curr + 1 < i)
          BY <1>1, <3>2
        <5>2. curr + 1 < i => StringLess(items[curr + 1], items[i])
          BY <3>2, <5>1
        <5>3. items[i] \in Values /\ items[curr + 1] \in Values
          BY <1>1, <3>2, <5>1
        <5> QED BY <4>2, <5>1, <5>2, <5>3, StringOrder
      <4>4. half \in 0..n /\ a.first + half <= n
        BY <1>1, <2>0, <3>1
      <4>5. Halve(items, c, a) \in S /\ Halve(items, c, a).count < a.count
        BY <2>0, <3>1, <4>1, <4>4
      <4>6. ASSUME Split(a) PROVE Split(Halve(items, c, a))
        BY <4>1, <4>3, <4>6
      <4> QED BY <1>1, <2>0, <2>2, <4>5, <4>6
    <3> QED BY <3>3, <3>4
  <2> QED BY <1>1, <2>0, <2>1, <2>2
<1>4. step \in [1..n -> [S -> S]] /\ \A k \in 1..n, a \in S : step[k][a] = Halve(items, c, a)
  <2> HIDE DEF S, n
  <2> QED BY <1>3
<1>5. \E f \in [0..n -> S] : f = body(f)
  <2>1. PICK f \in [0..n -> S] : f[0] = base /\ \A k \in 1..n : f[k] = step[k][f[k - 1]]
    <3> HIDE DEF n, S, base, step
    <3>1. n \in Nat /\ base \in S /\ step \in [1..n -> [S -> S]]
      BY <1>1, <1>2, <1>4
    <3>2. \E f \in [0..n -> S] : Iterates(n, base, step, f)
      BY <3>1, Iteration, Zenon
    <3> QED BY <3>2 DEF Iterates
  <2>2. ASSUME NEW k \in 0..n PROVE f[k] = IF k = 0 THEN base ELSE Halve(items, c, f[k - 1])
    <3> HIDE DEF n, S, base, step
    <3>1. CASE k = 0
      BY <2>1, <3>1
    <3>2. CASE k # 0
      <4>1. k \in 1..n /\ k - 1 \in 0..n
        BY <1>1, <3>2
      <4>2. f[k - 1] \in S
        BY <4>1
      <4> QED BY <1>4, <2>1, <3>2, <4>1, <4>2
    <3> QED BY <3>1, <3>2
  <2>3. f = body(f)
    <3> HIDE DEF n, S, base, step
    <3> QED BY <2>2
  <2> QED BY <2>3
<1> DEFINE loop == CHOOSE f : f = body(f)
<1>6. loop = body(loop) /\ UpperBound(items, c) = loop[n]
  <2>1. loop = body(loop)
    <3> HIDE DEF body, S, n
    <3> QED BY <1>5
  <2>2. UpperBound(items, c) = loop[n]
    BY DEF UpperBound
  <2> QED BY <2>1, <2>2
<1> HIDE DEF loop
<1>7. loop[0] = base /\ \A k \in 0..(n - 1) : loop[k + 1] = Halve(items, c, loop[k])
  <2>1. \A k \in 0..n : loop[k] = IF k = 0 THEN base ELSE Halve(items, c, loop[k - 1])
    <3> HIDE DEF n, base
    <3> QED BY <1>6
  <2> HIDE DEF n, base
  <2> QED BY <1>1, <2>1
<1> DEFINE P == {k \in 0..n : loop[k] \in S /\ Split(loop[k]) /\ loop[k].count <= n - k}
<1>8. P = 0..n
  <2>1. 0 \in P
    BY <1>1, <1>2, <1>7
  <2>2. ASSUME NEW k \in 0..(n - 1), k \in P PROVE k + 1 \in P
    <3> DEFINE a == loop[k]
               b == Halve(items, c, a)
    <3>1. a \in S /\ Split(a) /\ a.count <= n - k
      BY <2>2
    <3>2. loop[k + 1] = b
      BY <1>7
    <3> HIDE DEF a, S, Split
    <3>3. b \in S /\ Split(b)
      BY <1>3, <3>1
    <3>4. a.count \in Nat /\ b.count \in Nat
      BY <1>1, <3>1, <3>3 DEF S
    <3>5. b.count < a.count \/ (a.count = 0 /\ b.count = 0)
      BY <1>3, <3>1, <3>4
    <3>6. b.count <= n - (k + 1) /\ k + 1 \in 0..n
      BY <1>1, <3>1, <3>4, <3>5
    <3> QED BY <3>2, <3>3, <3>6
  <2>3. P \in SUBSET (0..n)
    OBVIOUS
  <2> HIDE DEF P, n
  <2> QED BY <1>1, <2>1, <2>2, <2>3, UpTo
<1>9. n \in P
  BY <1>1, <1>8
<1>10. loop[n] \in S /\ Split(loop[n]) /\ loop[n].count <= 0
  BY <1>1, <1>9
<1>11. loop[n].first \in 0..n /\ loop[n].count = 0
  BY <1>1, <1>10
<1>12. /\ \A i \in 1..loop[n].first : ~StringLess(c, items[i])
       /\ \A i \in (loop[n].first + 1)..n : StringLess(c, items[i])
  BY <1>1, <1>10, <1>11
<1> HIDE DEF n
<1>13. n = Len(items)
  BY DEF n
<1> QED BY <1>6, <1>11, <1>12, <1>13

\* SearchExact, for every finite set of filter values: FilterSetBytes::doesMatch
\* ends after at most as many rounds as there are items, never looks outside of
\* them, and says yes exactly for the values of the filter.
THEOREM SearchExactTheorem ==
  ASSUME values \in SUBSET Values, IsFiniteSet(values)
  PROVE  SearchExact
<1> DEFINE items == Items(values)
<1>1. /\ items \in Seq(values) /\ Len(items) \in Nat
      /\ \A i, j \in 1..Len(items) : i < j => StringLess(items[i], items[j])
      /\ \A x \in values : \E i \in 1..Len(items) : items[i] = x
  BY ItemsSorted
<1>2. items \in Seq(Values) /\ \A i \in 1..Len(items) : items[i] \in values
  <2> HIDE DEF items
  <2> QED BY <1>1
<1> HIDE DEF items
<1>3. ASSUME NEW c \in Values
      PROVE  UpperBound(items, c).count = 0 /\ (SetMatches(items, c) <=> c \in values)
  <2> DEFINE first == UpperBound(items, c).first
  <2>1. /\ UpperBound(items, c).count = 0 /\ first \in 0..Len(items)
        /\ \A i \in 1..first : ~StringLess(c, items[i])
        /\ \A i \in (first + 1)..Len(items) : StringLess(c, items[i])
    BY <1>1, <1>2, SearchLoop
  <2> HIDE DEF first
  <2>2. ASSUME first # 0, items[first] = c PROVE c \in values
    BY <1>1, <1>2, <2>1, <2>2
  <2>3. ASSUME c \in values PROVE first # 0 /\ items[first] = c
    <3>1. PICK i \in 1..Len(items) : items[i] = c
      BY <1>1, <2>3
    <3>2. ~StringLess(c, items[i])
      BY <3>1, StringOrder
    <3>3. i <= first
      BY <1>1, <2>1, <3>2
    <3>4. i = first
      <4>1. ASSUME i < first PROVE FALSE
        <5>1. first \in 1..Len(items) /\ StringLess(items[i], items[first])
          BY <1>1, <2>1, <4>1
        <5>2. ~StringLess(c, items[first])
          BY <1>1, <2>1, <5>1
        <5> QED BY <3>1, <5>1, <5>2
      <4> QED BY <1>1, <2>1, <3>3, <4>1
    <3> QED BY <3>1, <3>4
  <2>4. SetMatches(items, c) <=> first # 0 /\ items[first] = c
    BY DEF SetMatches, first
  <2> QED BY <2>1, <2>2, <2>3, <2>4
<1> QED BY <1>3 DEF SearchExact, items

-----------------------------------------------------------------------------
(* CandidateEvent *)

Cands == [packed : Nat, levId : Nat]

\* A multiple of a positive number is no less than it.
LEMMA AtLeastOnce ==
  ASSUME NEW p \in Nat \ {0}, NEW k \in Nat \ {0}
  PROVE  k * p >= p
OBVIOUS

\* Shifting and masking recover what was packed.
LEMMA Unpacked ==
  ASSUME NEW levId \in Nat, NEW created \in 0..(CreatedLimit - 1), NEW i \in Nat
  PROVE  LET c == Candidate(levId, created, i)
         IN  c \in Cands /\ c.levId = levId /\ CreatedOf(c) = created /\ ScanIndexOf(c) = i
<1> DEFINE x == i * CreatedLimit + created
           d == x \div CreatedLimit
           m == x % CreatedLimit
<1>1. CreatedLimit \in Nat \ {0} /\ x \in Nat
  BY ScanAssumption
<1>2. d \in Nat /\ m \in 0..(CreatedLimit - 1) /\ x = d * CreatedLimit + m
  <2> HIDE DEF x
  <2> QED BY <1>1
<1> HIDE DEF d, m
<1>3. d = i
  <2>1. ASSUME d > i PROVE FALSE
    <3>1. d - i \in Nat \ {0} /\ (d - i) * CreatedLimit >= CreatedLimit
      BY <1>1, <1>2, <2>1, AtLeastOnce
    <3>2. (d - i) * CreatedLimit = d * CreatedLimit - i * CreatedLimit
      BY <1>1, <1>2
    <3> QED BY <1>1, <1>2, <3>1, <3>2
  <2>2. ASSUME i > d PROVE FALSE
    <3>1. i - d \in Nat \ {0} /\ (i - d) * CreatedLimit >= CreatedLimit
      BY <1>1, <1>2, <2>2, AtLeastOnce
    <3>2. (i - d) * CreatedLimit = i * CreatedLimit - d * CreatedLimit
      BY <1>1, <1>2
    <3> QED BY <1>1, <1>2, <3>1, <3>2
  <2> QED BY <1>2, <2>1, <2>2
<1>4. m = created
  BY <1>1, <1>2, <1>3
<1> QED BY <1>1, <1>3, <1>4 DEF Candidate, CreatedOf, ScanIndexOf, Cands, d, m

\* created() is a number.
LEMMA CreatedType ==
  ASSUME NEW c \in Cands
  PROVE  CreatedOf(c) \in Nat /\ c.levId \in Nat /\ c.packed \in Nat
<1>1. CreatedLimit \in Nat \ {0} /\ c.packed \in Nat
  BY ScanAssumption DEF Cands
<1> DEFINE x == c.packed
<1>2. x % CreatedLimit \in Nat
  <2>1. x \in Nat
    BY <1>1
  <2> HIDE DEF x
  <2> QED BY <1>1, <2>1
<1> QED BY <1>1, <1>2 DEF CreatedOf, Cands

\* cmp is a weak order.
LEMMA CmpOrder ==
  ASSUME NEW x \in Cands, NEW y \in Cands, NEW z \in Cands
  PROVE  /\ Cmp(x, y) => ~Cmp(y, x)
         /\ ~Cmp(x, x)
         /\ Cmp(x, y) /\ Cmp(y, z) => Cmp(x, z)
         /\ ~Cmp(x, y) /\ ~Cmp(y, z) => ~Cmp(x, z)
<1>1. /\ CreatedOf(x) \in Nat /\ x.levId \in Nat /\ CreatedOf(y) \in Nat /\ y.levId \in Nat
      /\ CreatedOf(z) \in Nat /\ z.levId \in Nat
  BY CreatedType
<1> QED BY <1>1 DEF Cmp

-----------------------------------------------------------------------------
(* std::merge *)

InOrder(q) == \A i, j \in DOMAIN q : i < j => ~Cmp(q[j], q[i])

\* What `from` is: the merge goes on in a, or in b, by what cmp says.
Merging(a, b, from) ==
  /\ from[0] = 0
  /\ \A n \in 0..(Len(a) + Len(b)) : from[n] \in 0..Len(a) /\ n - from[n] \in 0..Len(b)
  /\ \A n \in 1..(Len(a) + Len(b)) :
       \/ /\ from[n] = from[n - 1] + 1
          /\ n - from[n] < Len(b) => ~Cmp(b[n - from[n] + 1], a[from[n]])
       \/ /\ from[n] = from[n - 1]
          /\ from[n] < Len(a) => Cmp(b[n - from[n]], a[from[n] + 1])

Merged(a, b, from) ==
  [n \in 1..(Len(a) + Len(b)) |-> IF from[n] > from[n - 1] THEN a[from[n]] ELSE b[n - from[n]]]

\* The recursion of Merge does so.
LEMMA MergeRecursion ==
  ASSUME NEW a \in Seq(Cands), NEW b \in Seq(Cands)
  PROVE  \E from : Merging(a, b, from) /\ Merge(a, b) = Merged(a, b, from)
<1> DEFINE L == Len(a) + Len(b)
           takeA(n, i) == i < Len(a) /\ (n - 1 - i < Len(b) => ~Cmp(b[n - 1 - i + 1], a[i + 1]))
           S == 0..Len(a)
           step == [n \in 1..L |-> [i \in S |-> IF takeA(n, i) THEN i + 1 ELSE i]]
           body(f) == [n \in 0..L |-> IF n = 0 THEN 0
                                      ELSE IF takeA(n, f[n - 1]) THEN f[n - 1] + 1 ELSE f[n - 1]]
<1>1. L \in Nat /\ Len(a) \in Nat /\ Len(b) \in Nat
  OBVIOUS
<1>2. 0 \in S /\ step \in [1..L -> [S -> S]]
      /\ \A n \in 1..L, i \in S : step[n][i] = IF takeA(n, i) THEN i + 1 ELSE i
  <2>1. \A n \in 1..L, i \in S : (IF takeA(n, i) THEN i + 1 ELSE i) \in S
    <3>1. \A n \in 1..L, i \in S : takeA(n, i) => i < Len(a)
      OBVIOUS
    <3> HIDE DEF takeA, L
    <3> QED BY <1>1, <3>1
  <2> HIDE DEF takeA, L
  <2>2. 0 \in S
    BY <1>1
  <2> HIDE DEF S
  <2> QED BY <2>1, <2>2
<1>3. \E f \in [0..L -> S] : f = body(f)
  <2> HIDE DEF L, S, takeA
  <2>1. PICK f \in [0..L -> S] : Iterates(L, 0, step, f)
    <3> HIDE DEF step
    <3> QED BY <1>1, <1>2, Iteration, Zenon
  <2>2. ASSUME NEW n \in 0..L
        PROVE  f[n] = IF n = 0 THEN 0 ELSE IF takeA(n, f[n - 1]) THEN f[n - 1] + 1 ELSE f[n - 1]
    <3> HIDE DEF step
    <3>1. CASE n = 0
      BY <2>1, <3>1 DEF Iterates
    <3>2. CASE n # 0
      <4>1. n \in 1..L /\ n - 1 \in 0..L
        BY <1>1, <3>2
      <4>2. f[n - 1] \in S
        BY <4>1
      <4>3. f[n] = step[n][f[n - 1]]
        BY <2>1, <4>1 DEF Iterates
      <4> QED BY <1>2, <3>2, <4>1, <4>2, <4>3
    <3> QED BY <3>1, <3>2
  <2>3. f = body(f)
    BY <2>2
  <2> QED BY <2>3
<1> DEFINE from == CHOOSE f : f = body(f)
<1>4. from = body(from)
  <2> HIDE DEF body, S, L
  <2> QED BY <1>3
<1>5. Merge(a, b) = Merged(a, b, from)
  BY DEF Merge, Merged
<1> HIDE DEF from
<1>6. /\ from[0] = 0
      /\ \A n \in 1..L : from[n] = IF takeA(n, from[n - 1]) THEN from[n - 1] + 1 ELSE from[n - 1]
  <2>1. \A n \in 0..L : from[n] = IF n = 0 THEN 0 ELSE IF takeA(n, from[n - 1]) THEN from[n - 1] + 1
                                                       ELSE from[n - 1]
    <3> HIDE DEF L, takeA
    <3> QED BY <1>4
  <2> HIDE DEF L, takeA
  <2> QED BY <1>1, <2>1
<1> DEFINE P == {n \in 0..L : from[n] \in 0..Len(a) /\ n - from[n] \in 0..Len(b)}
<1>7. P = 0..L
  <2>1. 0 \in P
    BY <1>1, <1>6
  <2>2. ASSUME NEW n \in 0..(L - 1), n \in P PROVE n + 1 \in P
    <3>1. from[n] \in 0..Len(a) /\ n - from[n] \in 0..Len(b)
      BY <2>2
    <3>2. n + 1 \in 1..L /\ (n + 1) - 1 = n
      BY <1>1
    <3>3. from[n + 1] = IF takeA(n + 1, from[n]) THEN from[n] + 1 ELSE from[n]
      <4> HIDE DEF takeA, L
      <4> QED BY <1>6, <3>2
    <3>4. CASE takeA(n + 1, from[n])
      <4>1. from[n + 1] = from[n] + 1 /\ from[n] < Len(a)
        BY <3>3, <3>4
      <4>2. (n + 1) - (from[n] + 1) \in 0..Len(b) /\ from[n] + 1 \in 0..Len(a)
        BY <1>1, <3>1, <3>2, <4>1
      <4> QED BY <3>2, <4>1, <4>2
    <3>5. CASE ~takeA(n + 1, from[n])
      <4>1. from[n] = Len(a) \/ n - from[n] < Len(b)
        BY <1>1, <3>1, <3>5
      <4>2. from[n + 1] = from[n]
        BY <3>3, <3>5
      <4>3. (n + 1) - from[n] \in 0..Len(b)
        BY <1>1, <3>1, <3>2, <4>1
      <4> QED BY <1>1, <3>1, <3>2, <4>2, <4>3
    <3> QED BY <3>4, <3>5
  <2>3. P \in SUBSET (0..L)
    OBVIOUS
  <2> HIDE DEF P, L
  <2> QED BY <1>1, <2>1, <2>2, <2>3, UpTo
<1>8. \A n \in 0..L : from[n] \in 0..Len(a) /\ n - from[n] \in 0..Len(b)
  BY <1>7
<1>9. ASSUME NEW n \in 1..L
      PROVE  \/ /\ from[n] = from[n - 1] + 1
                /\ n - from[n] < Len(b) => ~Cmp(b[n - from[n] + 1], a[from[n]])
             \/ /\ from[n] = from[n - 1]
                /\ from[n] < Len(a) => Cmp(b[n - from[n]], a[from[n] + 1])
  <2>1. from[n - 1] \in Nat /\ n - 1 \in 0..L /\ n \in Nat
    BY <1>1, <1>8
  <2>2. CASE takeA(n, from[n - 1])
    <3>1. from[n] = from[n - 1] + 1
      BY <1>6, <2>2
    <3>2. n - 1 - from[n - 1] = n - from[n]
      BY <2>1, <3>1
    <3> QED BY <2>2, <3>1, <3>2
  <2>3. CASE ~takeA(n, from[n - 1])
    <3>1. from[n] = from[n - 1]
      BY <1>6, <2>3
    <3>2. n - 1 - from[n - 1] + 1 = n - from[n]
      BY <2>1, <3>1
    <3> QED BY <2>3, <3>1, <3>2
  <2> QED BY <2>2, <2>3
<1>10. Merging(a, b, from)
  BY <1>6, <1>8, <1>9 DEF Merging
<1> QED BY <1>5, <1>10

\* The merge never goes back.
LEMMA MergeForward ==
  ASSUME NEW a \in Seq(Cands), NEW b \in Seq(Cands), NEW from, Merging(a, b, from),
         NEW m \in 0..(Len(a) + Len(b)), NEW n \in m..(Len(a) + Len(b))
  PROVE  from[m] <= from[n] /\ m - from[m] <= n - from[n]
<1> DEFINE L == Len(a) + Len(b)
           P == {k \in 0..(L - m) : from[m] <= from[m + k] /\ m - from[m] <= (m + k) - from[m + k]}
<1>1. L \in Nat /\ L - m \in Nat /\ n - m \in 0..(L - m) /\ m + (n - m) = n
  OBVIOUS
<1>2. \A k \in 0..L : from[k] \in Int
  BY DEF Merging
<1>3. 0 \in P
  BY <1>1, <1>2
<1>4. ASSUME NEW k \in 0..((L - m) - 1), k \in P PROVE k + 1 \in P
  <2>1. m + k \in 0..L /\ m + k + 1 \in 1..L /\ (m + k + 1) - 1 = m + k /\ m + (k + 1) = m + k + 1
    BY <1>1
  <2>2. from[m + k + 1] = from[m + k] + 1 \/ from[m + k + 1] = from[m + k]
    BY <2>1 DEF Merging
  <2>3. from[m] \in Int /\ from[m + k] \in Int
    BY <1>2, <2>1
  <2>4. from[m] <= from[m + k] /\ m - from[m] <= (m + k) - from[m + k]
    BY <1>4
  <2>5. from[m] <= from[m + k + 1] /\ m - from[m] <= (m + k + 1) - from[m + k + 1]
    BY <1>1, <2>2, <2>3, <2>4
  <2> QED BY <1>1, <2>1, <2>5
<1>5. P = 0..(L - m)
  <2>1. P \in SUBSET (0..(L - m))
    OBVIOUS
  <2> HIDE DEF P, L
  <2> QED BY <1>1, <1>3, <1>4, <2>1, UpTo
<1>6. n - m \in P
  BY <1>1, <1>5
<1> QED BY <1>1, <1>6

\* Each place of a merge is one of a or one of b, no place comes twice.
LEMMA MergePlaces ==
  ASSUME NEW a \in Seq(Cands), NEW b \in Seq(Cands), NEW from, Merging(a, b, from)
  PROVE  LET L == Len(a) + Len(b)
             InA(n) == from[n] > from[n - 1]
             J(n) == n - from[n]
             m == Merged(a, b, from)
         IN  /\ m \in Seq(Cands) /\ Len(m) = L
             /\ \A n \in 1..L : InA(n) => from[n] \in 1..Len(a) /\ m[n] = a[from[n]]
             /\ \A n \in 1..L : ~InA(n) => J(n) \in 1..Len(b) /\ m[n] = b[J(n)]
             /\ \A n, k \in 1..L : n < k => /\ InA(k) => from[n] < from[k]
                                            /\ ~InA(k) => J(n) < J(k)
<1> DEFINE L == Len(a) + Len(b)
           InA(n) == from[n] > from[n - 1]
           J(n) == n - from[n]
           m == Merged(a, b, from)
<1>1. L \in Nat /\ Len(a) \in Nat /\ Len(b) \in Nat
  OBVIOUS
<1>2. ASSUME NEW n \in 1..L
      PROVE  /\ n - 1 \in 0..L /\ from[n] \in 0..Len(a) /\ n - from[n] \in 0..Len(b)
             /\ from[n - 1] \in 0..Len(a) /\ (n - 1) - from[n - 1] \in 0..Len(b)
             /\ from[n] = from[n - 1] + 1 \/ from[n] = from[n - 1]
  <2>1. n - 1 \in 0..L /\ n \in 0..L
    BY <1>1
  <2> QED BY <2>1 DEF Merging
<1>3. ASSUME NEW n \in 1..L, InA(n)
      PROVE  from[n] = from[n - 1] + 1 /\ from[n] \in 1..Len(a) /\ m[n] = a[from[n]]
  <2>1. from[n] = from[n - 1] + 1 /\ from[n] \in 1..Len(a)
    BY <1>1, <1>2, <1>3
  <2> QED BY <1>3, <2>1 DEF Merged
<1>4. ASSUME NEW n \in 1..L, ~InA(n)
      PROVE  from[n] = from[n - 1] /\ J(n) \in 1..Len(b) /\ m[n] = b[J(n)]
  <2>1. from[n] = from[n - 1] /\ J(n) \in 1..Len(b)
    BY <1>1, <1>2, <1>4
  <2> QED BY <1>4, <2>1 DEF Merged
<1>5. m \in Seq(Cands) /\ Len(m) = L
  <2>1. ASSUME NEW n \in 1..L PROVE m[n] \in Cands
    <3>1. CASE InA(n)
      <4>1. from[n] \in 1..Len(a) /\ m[n] = a[from[n]]
        BY <1>3, <3>1
      <4> HIDE DEF m
      <4> QED BY <4>1
    <3>2. CASE ~InA(n)
      <4>1. J(n) \in 1..Len(b) /\ m[n] = b[J(n)]
        BY <1>4, <3>2
      <4> HIDE DEF m, J
      <4> QED BY <4>1
    <3> QED BY <3>1, <3>2
  <2>2. m = [n \in 1..L |-> m[n]]
    BY DEF Merged
  <2> HIDE DEF m, L
  <2> QED BY <1>1, <2>1, <2>2
<1>6. ASSUME NEW n \in 1..L, NEW k \in 1..L, n < k
      PROVE  (InA(k) => from[n] < from[k]) /\ (~InA(k) => J(n) < J(k))
  <2>1. n \in 0..L /\ k - 1 \in n..L
    BY <1>1, <1>6
  <2>2. from[n] <= from[k - 1] /\ n - from[n] <= (k - 1) - from[k - 1]
    BY <2>1, MergeForward
  <2>3. from[n] \in Int /\ from[k] \in Int /\ from[k - 1] \in Int
    BY <1>2
  <2>4. InA(k) => from[k] = from[k - 1] + 1
    BY <1>3
  <2>5. ~InA(k) => from[k] = from[k - 1]
    BY <1>4
  <2>6. ASSUME InA(k) PROVE from[n] < from[k]
    BY <2>2, <2>3, <2>4, <2>6
  <2>7. ASSUME ~InA(k) PROVE J(n) < J(k)
    BY <2>2, <2>3, <2>5, <2>7
  <2> QED BY <2>6, <2>7
<1> HIDE DEF m
<1> QED BY <1>3, <1>4, <1>5, <1>6 DEF m

\* Every place of a and of b is one of the merge.
LEMMA MergeComplete ==
  ASSUME NEW a \in Seq(Cands), NEW b \in Seq(Cands), NEW from, Merging(a, b, from)
  PROVE  /\ \A i \in 1..Len(a) : \E n \in 1..(Len(a) + Len(b)) : from[n] = i /\ from[n - 1] = i - 1
         /\ \A j \in 1..Len(b) : \E n \in 1..(Len(a) + Len(b)) :
              n - from[n] = j /\ from[n - 1] = from[n]
<1> DEFINE L == Len(a) + Len(b)
<1>1. L \in Nat /\ Len(a) \in Nat /\ Len(b) \in Nat
  OBVIOUS
<1>2. \A n \in 0..L : from[n] \in 0..Len(a) /\ n - from[n] \in 0..Len(b)
  BY DEF Merging
<1>3. from[0] = 0 /\ from[L] = Len(a)
  <2>1. from[L] \in 0..Len(a) /\ L - from[L] \in 0..Len(b)
    BY <1>1, <1>2
  <2>2. from[L] = Len(a)
    BY <1>1, <2>1
  <2> QED BY <2>2 DEF Merging
<1>4. \A n \in 1..L : from[n] = from[n - 1] + 1 \/ from[n] = from[n - 1]
  BY DEF Merging
<1>5. ASSUME NEW i \in 1..Len(a)
      PROVE  \E n \in 1..L : from[n] = i /\ from[n - 1] = i - 1
  <2> DEFINE T == {n \in 0..L : from[n] >= i}
  <2>1. T \in SUBSET Nat /\ L \in T
    BY <1>1, <1>3
  <2>2. PICK n \in T : \A k \in T : n <= k
    <3> HIDE DEF T
    <3> QED BY <2>1, LeastNumber
  <2>3. n \in 1..L /\ n - 1 \in 0..L /\ n - 1 \notin T
    BY <1>1, <1>3, <2>2
  <2>4. from[n] \in Int /\ from[n - 1] \in Int /\ from[n] >= i /\ ~(from[n - 1] >= i)
    BY <1>2, <2>3
  <2>5. from[n] = i /\ from[n - 1] = i - 1
    BY <1>4, <2>3, <2>4
  <2> QED BY <2>3, <2>5
<1>6. ASSUME NEW j \in 1..Len(b)
      PROVE  \E n \in 1..L : n - from[n] = j /\ from[n - 1] = from[n]
  <2> DEFINE T == {n \in 0..L : n - from[n] >= j}
  <2>1. T \in SUBSET Nat /\ L \in T
    BY <1>1, <1>3
  <2>2. PICK n \in T : \A k \in T : n <= k
    <3> HIDE DEF T
    <3> QED BY <2>1, LeastNumber
  <2>3. n \in 1..L /\ n - 1 \in 0..L /\ n - 1 \notin T
    BY <1>1, <1>3, <2>2
  <2>4. from[n] \in Int /\ from[n - 1] \in Int /\ n - from[n] >= j /\ ~((n - 1) - from[n - 1] >= j)
    BY <1>2, <2>3
  <2>5. n - from[n] = j /\ from[n - 1] = from[n]
    BY <1>4, <2>3, <2>4
  <2> QED BY <2>3, <2>5
<1> QED BY <1>5, <1>6

\* Merging sequences without common members gives each of them once; merging
\* sequences that are in order gives one that is.
LEMMA MergeExact ==
  ASSUME NEW a \in Seq(Cands), NEW b \in Seq(Cands)
  PROVE  /\ Merge(a, b) \in Seq(Cands)
         /\ Range(Merge(a, b)) = Range(a) \cup Range(b)
         /\ IsInjective(a) /\ IsInjective(b) /\ Range(a) \cap Range(b) = {} =>
              IsInjective(Merge(a, b))
         /\ InOrder(a) /\ InOrder(b) => InOrder(Merge(a, b))
<1>1. PICK from : Merging(a, b, from) /\ Merge(a, b) = Merged(a, b, from)
  BY MergeRecursion
<1> DEFINE L == Len(a) + Len(b)
           InA(n) == from[n] > from[n - 1]
           J(n) == n - from[n]
           m == Merge(a, b)
<1>2. /\ m \in Seq(Cands) /\ Len(m) = L
      /\ \A n \in 1..L : InA(n) => from[n] \in 1..Len(a) /\ m[n] = a[from[n]]
      /\ \A n \in 1..L : ~InA(n) => J(n) \in 1..Len(b) /\ m[n] = b[J(n)]
      /\ \A n, k \in 1..L : n < k => /\ InA(k) => from[n] < from[k]
                                     /\ ~InA(k) => J(n) < J(k)
  BY <1>1, MergePlaces
<1>3. /\ L \in Nat /\ Len(a) \in Nat /\ Len(b) \in Nat
      /\ DOMAIN m = 1..L /\ DOMAIN a = 1..Len(a) /\ DOMAIN b = 1..Len(b)
      /\ \A i \in 1..Len(a) : a[i] \in Cands
      /\ \A i \in 1..Len(b) : b[i] \in Cands
      /\ \A n \in 1..L : m[n] \in Cands
  <2> HIDE DEF m
  <2> QED BY <1>2
<1>4. Range(m) = Range(a) \cup Range(b)
  <2>1. Range(m) \subseteq Range(a) \cup Range(b)
    <3> SUFFICES ASSUME NEW n \in 1..L PROVE m[n] \in Range(a) \cup Range(b)
      <4> HIDE DEF m, L
      <4> QED BY <1>3 DEF Range
    <3>1. CASE InA(n)
      BY <1>2, <1>3, <3>1 DEF Range
    <3>2. CASE ~InA(n)
      BY <1>2, <1>3, <3>2 DEF Range
    <3> QED BY <3>1, <3>2
  <2>2. ASSUME NEW i \in 1..Len(a) PROVE a[i] \in Range(m)
    <3>1. PICK n \in 1..L : from[n] = i /\ from[n - 1] = i - 1
      BY <1>1, MergeComplete
    <3>2. m[n] = a[i]
      BY <1>2, <3>1
    <3> HIDE DEF m, L
    <3> QED BY <1>3, <3>2 DEF Range
  <2>3. ASSUME NEW j \in 1..Len(b) PROVE b[j] \in Range(m)
    <3>1. PICK n \in 1..L : n - from[n] = j /\ from[n - 1] = from[n]
      BY <1>1, MergeComplete
    <3>2. from[n] \in Int
      BY <1>1, <1>3 DEF Merging
    <3>3. m[n] = b[j]
      BY <1>2, <3>1, <3>2
    <3> HIDE DEF m, L
    <3> QED BY <1>3, <3>3 DEF Range
  <2> HIDE DEF m
  <2> QED BY <1>3, <2>1, <2>2, <2>3 DEF Range
<1>5. ASSUME IsInjective(a), IsInjective(b), Range(a) \cap Range(b) = {} PROVE IsInjective(m)
  <2>1. ASSUME NEW n \in 1..L, NEW k \in 1..L, n < k PROVE m[n] # m[k]
    <3>1. \A i \in 1..Len(a), j \in 1..Len(b) : a[i] # b[j]
      BY <1>3, <1>5 DEF Range
    <3>2. from[n] \in Int /\ from[k] \in Int
      BY <1>1, <1>3 DEF Merging
    <3>3. CASE InA(n) /\ InA(k)
      <4>1. from[n] < from[k] /\ from[n] \in 1..Len(a) /\ from[k] \in 1..Len(a)
            /\ m[n] = a[from[n]] /\ m[k] = a[from[k]]
        BY <1>2, <2>1, <3>3
      <4> QED BY <1>3, <1>5, <4>1 DEF IsInjective
    <3>4. CASE ~InA(n) /\ ~InA(k)
      <4>1. J(n) < J(k) /\ J(n) \in 1..Len(b) /\ J(k) \in 1..Len(b) /\ m[n] = b[J(n)] /\ m[k] = b[J(k)]
        BY <1>2, <2>1, <3>4
      <4> HIDE DEF J
      <4> QED BY <1>3, <1>5, <4>1 DEF IsInjective
    <3>5. CASE InA(n) /\ ~InA(k)
      <4>1. from[n] \in 1..Len(a) /\ J(k) \in 1..Len(b) /\ m[n] = a[from[n]] /\ m[k] = b[J(k)]
        BY <1>2, <3>5
      <4> HIDE DEF J, m
      <4> QED BY <3>1, <4>1
    <3>6. CASE ~InA(n) /\ InA(k)
      <4>1. from[k] \in 1..Len(a) /\ J(n) \in 1..Len(b) /\ m[k] = a[from[k]] /\ m[n] = b[J(n)]
        BY <1>2, <3>6
      <4> HIDE DEF J, m
      <4> QED BY <3>1, <4>1
    <3> QED BY <3>3, <3>4, <3>5, <3>6
  <2> HIDE DEF m, L
  <2> QED BY <1>3, <2>1 DEF IsInjective
<1>6. ASSUME InOrder(a), InOrder(b) PROVE InOrder(m)
  <2>1. ASSUME NEW n \in 1..L, NEW k \in 1..L, n < k PROVE ~Cmp(m[k], m[n])
    <3>1. from[n] \in Int /\ from[k] \in Int
      BY <1>1, <1>3 DEF Merging
    <3>2. CASE InA(n) /\ InA(k)
      <4>1. from[n] < from[k] /\ from[n] \in 1..Len(a) /\ from[k] \in 1..Len(a)
            /\ m[n] = a[from[n]] /\ m[k] = a[from[k]]
        BY <1>2, <2>1, <3>2
      <4> HIDE DEF m
      <4> QED BY <1>3, <1>6, <4>1 DEF InOrder
    <3>3. CASE ~InA(n) /\ ~InA(k)
      <4>1. J(n) < J(k) /\ J(n) \in 1..Len(b) /\ J(k) \in 1..Len(b) /\ m[n] = b[J(n)] /\ m[k] = b[J(k)]
        BY <1>2, <2>1, <3>3
      <4> HIDE DEF J, m
      <4> QED BY <1>3, <1>6, <4>1 DEF InOrder
    <3>4. CASE InA(n) /\ ~InA(k)
      <4>1. /\ from[n] \in 1..Len(a) /\ m[n] = a[from[n]]
            /\ J(k) \in 1..Len(b) /\ m[k] = b[J(k)] /\ J(n) < J(k)
        BY <1>2, <2>1, <3>4
      <4>2. from[n - 1] \in Int /\ J(n) \in 0..Len(b)
        BY <1>1, <1>3 DEF Merging
      <4>3. J(n) < Len(b) => ~Cmp(b[J(n) + 1], a[from[n]])
        <5>1. from[n] # from[n - 1]
          BY <3>1, <3>4, <4>2
        <5> QED BY <1>1, <5>1 DEF Merging
      <4> HIDE DEF J, m, InA
      <4>4. J(n) + 1 \in 1..Len(b) /\ (J(n) + 1 = J(k) \/ J(n) + 1 < J(k)) /\ J(n) < Len(b)
        BY <1>3, <4>1, <4>2
      <4>5. ~Cmp(b[J(k)], b[J(n) + 1])
        <5>1. b[J(k)] \in Cands
          BY <1>3, <4>1
        <5>2. CASE J(n) + 1 = J(k)
          BY <5>1, <5>2, CmpOrder
        <5>3. CASE J(n) + 1 < J(k)
          BY <1>3, <1>6, <4>1, <4>4, <5>3 DEF InOrder
        <5> QED BY <4>4, <5>2, <5>3
      <4>6. b[J(k)] \in Cands /\ b[J(n) + 1] \in Cands /\ a[from[n]] \in Cands
        BY <1>3, <4>1, <4>4
      <4> QED BY <4>1, <4>3, <4>4, <4>5, <4>6, CmpOrder
    <3>5. CASE ~InA(n) /\ InA(k)
      <4>1. /\ from[k] \in 1..Len(a) /\ m[k] = a[from[k]] /\ from[n] < from[k]
            /\ J(n) \in 1..Len(b) /\ m[n] = b[J(n)]
        BY <1>2, <2>1, <3>5
      <4>2. from[n - 1] \in Int /\ from[n] \in 0..Len(a)
        BY <1>1, <1>3 DEF Merging
      <4>3. from[n] < Len(a) => Cmp(b[J(n)], a[from[n] + 1])
        <5>1. from[n] # from[n - 1] + 1
          BY <3>1, <3>5, <4>2
        <5> QED BY <1>1, <5>1 DEF Merging
      <4> HIDE DEF J, m, InA
      <4>4. from[n] + 1 \in 1..Len(a) /\ (from[n] + 1 = from[k] \/ from[n] + 1 < from[k])
            /\ from[n] < Len(a)
        <5>1. from[n] \in Int /\ from[k] \in Int /\ Len(a) \in Nat /\ from[n] >= 0
          BY <1>3, <3>1, <4>2
        <5>2. from[n] < from[k] /\ from[k] <= Len(a)
          BY <4>1
        <5> QED BY <5>1, <5>2
      <4>5. ~Cmp(a[from[k]], a[from[n] + 1])
        <5>1. a[from[k]] \in Cands
          BY <1>3, <4>1
        <5>2. CASE from[n] + 1 = from[k]
          BY <5>1, <5>2, CmpOrder
        <5>3. CASE from[n] + 1 < from[k]
          BY <1>3, <1>6, <4>1, <4>4, <5>3 DEF InOrder
        <5> QED BY <4>4, <5>2, <5>3
      <4>6. a[from[k]] \in Cands /\ a[from[n] + 1] \in Cands /\ b[J(n)] \in Cands
        BY <1>3, <4>1, <4>4
      <4> QED BY <4>1, <4>3, <4>4, <4>5, <4>6, CmpOrder
    <3> QED BY <3>2, <3>3, <3>4, <3>5
  <2> HIDE DEF m, L
  <2> QED BY <1>3, <2>1 DEF InOrder
<1> QED BY <1>2, <1>4, <1>5, <1>6

-----------------------------------------------------------------------------
(* The invariant of a scan *)

\* What cursor i hands over for event n, and the record it found it at.
Cand(i, n) == Candidate(n, EventAt[n].created, i)
Rec(key, n) == [key |-> key, created |-> EventAt[n].created, levId |-> n]

\* The cursor has not come to the record yet.
Ahead(pos, r) == pos # Inactive /\ (r = pos \/ RecordLess(r, pos))

\* The candidates of cursor i among those in q.
Of(q, i) == {c \in q : ScanIndexOf(c) = i}

Positions == [key : Int, created : Nat, levId : Nat]

CursorType(cur) ==
  /\ cur \in [key : Nat, pos : Positions, outstanding : Nat]
  /\ cur.pos = Inactive \/ cur.pos.key \in Nat

\* Cursor i, with q the candidates queued, d the events stored and ids those
\* handed over, for the filter f: the candidates of a cursor are behind it, and
\* a matching event of its key is ahead of it, queued or handed over.
CursorInv(i, cur, q, f, d, ids) ==
  /\ CursorType(cur)
  /\ cur.outstanding = Cardinality(Of(q, i))
  /\ \A n \in DOMAIN EventAt : Cand(i, n) \in q =>
       /\ cur.key \in IndexKeys(IndexOf(f), EventAt[n])
       /\ cur.pos # Inactive => RecordLess(cur.pos, Rec(cur.key, n))
  /\ \A n \in d : n <= StartLevId /\ DoesMatch(f, EventAt[n])
                 /\ cur.key \in IndexKeys(IndexOf(f), EventAt[n]) =>
       Ahead(cur.pos, Rec(cur.key, n)) \/ Cand(i, n) \in q \/ n \in ids

\* The queue: each candidate of an event and an initialised cursor, once.
QueueInv(q, m) ==
  /\ q \in Seq(Cands) /\ IsInjective(q)
  /\ \A c \in Range(q) : \E i \in 1..m, n \in DOMAIN EventAt : c = Cand(i, n)

\* What was handed over: matching events, newest first, none of them behind a
\* candidate that is still queued.
OrderInv(ord, q, f) ==
  /\ ord \in Seq(1..StartLevId)
  /\ \A i, j \in DOMAIN ord : i < j => Newer(ord[i], ord[j])
  /\ \A i \in DOMAIN ord : DoesMatch(f, EventAt[ord[i]])
  /\ \A i \in DOMAIN ord, c \in q : ~Newer(c.levId, ord[i])

Scanning ==
  /\ scanner = [index |-> IndexOf(F), indexOnly |-> IndexOnly(F)]
  /\ Len(cursors) \in Nat /\ DOMAIN cursors = 1..Len(cursors)
  /\ nextInit \in 1..(Len(cursors) + 1)
  /\ {cursors[i].key : i \in DOMAIN cursors} = SearchKeys(F)
  /\ \A i \in DOMAIN cursors : CursorInv(i, cursors[i], Range(queue), F, db, Range(order))
  /\ \A i \in 1..(nextInit - 1) : cursors[i].pos # Inactive => cursors[i].outstanding > 0
  /\ QueueInv(queue, nextInit - 1)
  /\ OrderInv(order, Range(queue), F)
  /\ nextInit \in DOMAIN cursors => order = <<>>
  /\ nextInit \notin DOMAIN cursors => InOrder(queue)
  /\ IF F.limit = 0 THEN order = <<>> ELSE Len(order) < F.limit

ScanInv ==
  /\ group \in Groups /\ written \in StartLevId..Len(EventAt) /\ db \subseteq 1..written
  /\ pc \in {"filter", "scan", "paused", "filterDone", "complete"}
  /\ pc # "complete" => filter \in DOMAIN group
  /\ pc = "filter" => order = <<>>
  /\ pc \in {"scan", "paused"} => Scanning
  /\ pc = "filterDone" => NewestFirst

-----------------------------------------------------------------------------
(* Candidates and records *)

\* A levId of the log is a number, and its event has a created_at that fits.
LEMMA EventType ==
  ASSUME NEW n \in DOMAIN EventAt
  PROVE  /\ n \in Nat \ {0} /\ EventOK(EventAt[n])
         /\ EventAt[n].created \in 0..(CreatedLimit - 1) /\ EventAt[n].created \in Nat
<1>1. n \in Nat \ {0} /\ EventOK(EventAt[n]) /\ CreatedLimit \in Nat
  BY ScanAssumption
<1> QED BY <1>1 DEF EventOK

\* What a candidate says of its event and its cursor.
LEMMA CandOf ==
  ASSUME NEW i \in Nat, NEW n \in DOMAIN EventAt
  PROVE  /\ Cand(i, n) \in Cands /\ Cand(i, n).levId = n
         /\ CreatedOf(Cand(i, n)) = EventAt[n].created /\ ScanIndexOf(Cand(i, n)) = i
<1>1. n \in Nat /\ EventAt[n].created \in 0..(CreatedLimit - 1)
  BY EventType
<1> QED BY <1>1, Unpacked DEF Cand

\* Newer is a total order.
LEMMA NewerOrder ==
  ASSUME NEW l \in DOMAIN EventAt, NEW m \in DOMAIN EventAt, NEW n \in DOMAIN EventAt
  PROVE  /\ ~Newer(n, n) /\ (m = n \/ Newer(m, n) \/ Newer(n, m))
         /\ Newer(l, m) => ~Newer(m, l)
         /\ Newer(l, m) /\ Newer(m, n) => Newer(l, n)
         /\ ~Newer(l, m) /\ ~Newer(m, n) => ~Newer(l, n)
<1>1. /\ l \in Nat /\ m \in Nat /\ n \in Nat
      /\ EventAt[l].created \in Nat /\ EventAt[m].created \in Nat /\ EventAt[n].created \in Nat
  BY EventType
<1> QED BY <1>1 DEF Newer

\* cmp puts candidates in that order.
LEMMA CmpIsNewer ==
  ASSUME NEW i \in Nat, NEW j \in Nat, NEW m \in DOMAIN EventAt, NEW n \in DOMAIN EventAt
  PROVE  Cmp(Cand(i, m), Cand(j, n)) <=> Newer(m, n)
<1>1. /\ m \in Nat /\ n \in Nat /\ EventAt[m].created \in Nat /\ EventAt[n].created \in Nat
  BY EventType
<1>2. /\ Cand(i, m).levId = m /\ Cand(j, n).levId = n
      /\ CreatedOf(Cand(i, m)) = EventAt[m].created /\ CreatedOf(Cand(j, n)) = EventAt[n].created
  BY CandOf
<1> QED BY <1>1, <1>2 DEF Cmp, Newer

\* The order of an index is total.
LEMMA RecordOrder ==
  ASSUME NEW r \in Positions, NEW s \in Positions, NEW t \in Positions
  PROVE  /\ ~RecordLess(r, r) /\ (r = s \/ RecordLess(r, s) \/ RecordLess(s, r))
         /\ RecordLess(r, s) => ~RecordLess(s, r)
         /\ RecordLess(r, s) /\ RecordLess(s, t) => RecordLess(r, t)
<1>1. /\ r.key \in Int /\ s.key \in Int /\ t.key \in Int
      /\ r.created \in Int /\ s.created \in Int /\ t.created \in Int
      /\ r.levId \in Int /\ s.levId \in Int /\ t.levId \in Int
  BY DEF Positions
<1>2. r.key = s.key /\ r.created = s.created /\ r.levId = s.levId => r = s
  BY DEF Positions
<1> QED BY <1>1, <1>2 DEF RecordLess

\* The records of one key are in the order of their events.
LEMMA RecOrder ==
  ASSUME NEW key \in Int, NEW m \in DOMAIN EventAt, NEW n \in DOMAIN EventAt
  PROVE  /\ Rec(key, m) \in Positions
         /\ RecordLess(Rec(key, m), Rec(key, n)) <=> Newer(n, m)
<1>1. /\ m \in Nat /\ n \in Nat /\ EventAt[m].created \in Nat /\ EventAt[n].created \in Nat
  BY EventType
<1> QED BY <1>1 DEF Rec, RecordLess, Newer, Positions

\* A key of an event is a number, and it has finitely many.
LEMMA IndexKeysType ==
  ASSUME NEW f, NEW n \in DOMAIN EventAt
  PROVE  /\ \A k \in IndexKeys(IndexOf(f), EventAt[n]) : k \in Nat
         /\ IsFiniteSet(IndexKeys(IndexOf(f), EventAt[n]))
<1> DEFINE ev == EventAt[n]
           ix == IndexOf(f)
           tagKeys == {TagKey[ev.tags[i]] : i \in DOMAIN ev.tags}
<1>1. EventOK(ev)
  BY EventType
<1>2. /\ ev.id \in Nat /\ ev.pubkey \in Nat /\ ev.kind \in Nat
      /\ <<ev.pubkey, ev.kind>> \in DOMAIN PubkeyKindKey
      /\ IsFiniteSet(DOMAIN ev.tags)
      /\ \A i \in DOMAIN ev.tags : ev.tags[i] \in DOMAIN TagKey
  BY <1>1 DEF EventOK
<1>3. PubkeyKindKey[<<ev.pubkey, ev.kind>>] \in Nat
  BY <1>2, KeyAssumption
<1>4. tagKeys \subseteq Nat
  BY <1>2, KeyAssumption
<1>5. IsFiniteSet(tagKeys)
  <2> DEFINE g == [i \in DOMAIN ev.tags |-> TagKey[ev.tags[i]]]
             S == DOMAIN ev.tags
  <2>1. g \in Surjection(S, tagKeys)
    BY DEF Surjection
  <2> HIDE DEF g, S, tagKeys
  <2>2. IsFiniteSet(S)
    BY <1>2 DEF S
  <2> QED BY <2>1, <2>2, FS_Surjection
<1>6. \A x : IsFiniteSet({x})
  BY FS_Singleton
<1>7. ix \in {"ID", "Tag", "PubkeyKind", "Pubkey", "Kind", "CreatedAt"}
  BY DEF IndexOf
<1>8. IndexKeys(ix, ev) \in {tagKeys, {ev.id}, {ev.pubkey}, {ev.kind}, {0},
                             {PubkeyKindKey[<<ev.pubkey, ev.kind>>]}}
  <2> HIDE DEF ix, ev
  <2>1. CASE ix = "Tag"
    BY <2>1 DEF IndexKeys
  <2>2. CASE ix # "Tag"
    BY <1>7, <2>2 DEF IndexKeys
  <2> QED BY <2>1, <2>2
<1> HIDE DEF tagKeys, ev, ix
<1>9. IndexKeys(ix, ev) \in SUBSET Nat
  <2>1. /\ tagKeys \in SUBSET Nat /\ {ev.id} \in SUBSET Nat /\ {ev.pubkey} \in SUBSET Nat
        /\ {ev.kind} \in SUBSET Nat /\ {0} \in SUBSET Nat
        /\ {PubkeyKindKey[<<ev.pubkey, ev.kind>>]} \in SUBSET Nat
    BY <1>2, <1>3, <1>4
  <2> QED BY <1>8, <2>1, Zenon
<1>10. IsFiniteSet(IndexKeys(ix, ev))
  BY <1>5, <1>6, <1>8
<1> QED BY <1>9, <1>10 DEF ev, ix

\* An index is finite; its records are those of the events stored.
LEMMA RecordsType ==
  ASSUME NEW f, NEW d \in SUBSET (DOMAIN EventAt)
  PROVE  LET rs == Records(IndexOf(f), d) IN
         /\ IsFiniteSet(rs) /\ rs \subseteq Positions
         /\ \A r \in rs : /\ r.key \in Nat /\ r.levId \in d
                          /\ r.key \in IndexKeys(IndexOf(f), EventAt[r.levId])
                          /\ r = Rec(r.key, r.levId)
         /\ \A n \in d : \A k \in IndexKeys(IndexOf(f), EventAt[n]) : Rec(k, n) \in rs
<1> DEFINE ix == IndexOf(f)
           of(n) == {Rec(k, n) : k \in IndexKeys(ix, EventAt[n])}
           rs == Records(ix, d)
<1>1. rs = UNION {of(n) : n \in d}
  BY DEF Records, Rec
<1>2. IsFiniteSet(d)
  <2>1. DOMAIN EventAt = 1..Len(EventAt) /\ Len(EventAt) \in Nat
    BY ScanAssumption
  <2>2. IsFiniteSet(1..Len(EventAt))
    BY <2>1, FS_Interval
  <2> QED BY <2>1, <2>2, FS_Subset
<1>3. ASSUME NEW n \in d PROVE IsFiniteSet(of(n))
  <2> DEFINE K == IndexKeys(ix, EventAt[n])
             g == [k \in K |-> Rec(k, n)]
  <2>1. IsFiniteSet(K)
    BY <1>3, IndexKeysType
  <2>2. g \in Surjection(K, of(n))
    <3> HIDE DEF K
    <3> QED BY DEF Surjection, K
  <2> HIDE DEF g, K, of
  <2> QED BY <2>1, <2>2, FS_Surjection
<1>4. IsFiniteSet(rs)
  <2> DEFINE U == {of(n) : n \in d}
             g == [n \in d |-> of(n)]
  <2>1. g \in Surjection(d, U)
    <3> HIDE DEF of
    <3> QED BY DEF Surjection
  <2>2. IsFiniteSet(U)
    <3> HIDE DEF g, U
    <3> QED BY <1>2, <2>1, FS_Surjection
  <2>3. \A T \in U : IsFiniteSet(T)
    <3> HIDE DEF of
    <3> QED BY <1>3
  <2> HIDE DEF U
  <2>4. IsFiniteSet(UNION U)
    BY <2>2, <2>3, FS_UNION
  <2> QED BY <1>1, <2>4 DEF U
<1>5. ASSUME NEW r \in rs
      PROVE  \E n \in d : \E k \in IndexKeys(ix, EventAt[n]) : r = Rec(k, n)
  <2> HIDE DEF rs, ix
  <2> QED BY <1>1, <1>5
<1>6. ASSUME NEW r \in rs
      PROVE  /\ r.key \in Nat /\ r.levId \in d /\ r.key \in IndexKeys(ix, EventAt[r.levId])
             /\ r = Rec(r.key, r.levId) /\ r \in Positions
  <2> HIDE DEF rs
  <2>1. PICK n \in d : \E k \in IndexKeys(ix, EventAt[n]) : r = Rec(k, n)
    BY <1>5, <1>6
  <2>2. PICK k \in IndexKeys(ix, EventAt[n]) : r = Rec(k, n)
    BY <2>1
  <2>3. k \in Nat /\ k \in Int
    BY IndexKeysType
  <2>4. Rec(k, n) \in Positions
    BY <2>3, RecOrder
  <2>5. r.key = k /\ r.levId = n
    BY <2>2 DEF Rec
  <2> HIDE DEF ix
  <2> QED BY <2>2, <2>3, <2>4, <2>5
<1>7. ASSUME NEW n \in d, NEW k \in IndexKeys(ix, EventAt[n]) PROVE Rec(k, n) \in rs
  <2> HIDE DEF rs, ix
  <2> QED BY <1>1
<1> HIDE DEF rs
<1> QED BY <1>4, <1>6, <1>7 DEF rs

-----------------------------------------------------------------------------
(* The constructor of DBScan *)

\* The field of a filter.
LEMMA FieldType ==
  ASSUME NEW f, FilterOK(f), NEW field \in {f.ids, f.authors, f.kinds}
  PROVE  /\ UNION field \in SUBSET Nat /\ IsFiniteSet(UNION field)
         /\ Cardinality(field) \in Nat /\ (field # {} => Cardinality(field) = 1)
         /\ field # {} => field = {UNION field}
<1>1. /\ field = {} \/ \E vals \in field : field = {vals}
      /\ \A vals \in field : vals \in SUBSET Nat /\ IsFiniteSet(vals)
  BY DEF FilterOK
<1>2. CASE field = {}
  <2>1. UNION field = {} /\ IsFiniteSet({}) /\ Cardinality({}) = 0
    BY <1>2, FS_EmptySet
  <2> QED BY <1>2, <2>1
<1>3. ASSUME NEW vals \in field, field = {vals}
      PROVE  /\ UNION field \in SUBSET Nat /\ IsFiniteSet(UNION field)
             /\ Cardinality(field) = 1 /\ field = {UNION field}
  <2>1. UNION field = vals
    BY <1>3
  <2>2. Cardinality({vals}) = 1
    BY FS_Singleton
  <2> QED BY <1>1, <1>3, <2>1, <2>2
<1> QED BY <1>1, <1>2, <1>3

\* There is a tag with the fewest values.
LEMMA ScanTagOf ==
  ASSUME NEW f, FilterOK(f), DOMAIN f.tags # {}
  PROVE  ScanTag(f) \in DOMAIN f.tags
<1> DEFINE D == DOMAIN f.tags
           size(n) == Cardinality(f.tags[n])
           T == {size(n) : n \in D}
<1>1. ASSUME NEW n \in D PROVE size(n) \in Nat
  <2>1. IsFiniteSet(f.tags[n])
    BY DEF FilterOK
  <2> QED BY <2>1, FS_CardinalityType
<1>2. T \in SUBSET Nat /\ T # {}
  <2> HIDE DEF size
  <2> QED BY <1>1
<1>3. PICK c \in T : \A k \in T : c <= k
  <2> HIDE DEF T
  <2> QED BY <1>2, LeastNumber
<1>4. \E n \in D : \A m \in D : size(n) <= size(m)
  <2> HIDE DEF size
  <2> QED BY <1>3
<1>5. ScanTag(f) = CHOOSE n \in D : \A m \in D : size(n) <= size(m)
  BY DEF ScanTag
<1> HIDE DEF D, size
<1>6. (CHOOSE n \in D : \A m \in D : size(n) <= size(m)) \in D
  BY <1>4, Zenon
<1> QED BY <1>5, <1>6 DEF D

\* The pairs of pubkey and kind are finitely many.
LEMMA ProductType ==
  ASSUME NEW f, FilterOK(f)
  PROVE  Product(f) \in SUBSET Nat /\ IsFiniteSet(Product(f)) /\ Cardinality(Product(f)) \in Nat
<1> DEFINE A == UNION f.authors
           K == UNION f.kinds
           g == [p \in A \X K |-> PubkeyKindKey[p]]
<1>1. IsFiniteSet(A) /\ IsFiniteSet(K)
  BY FieldType
<1>2. \A a \in A, k \in K : <<a, k>> \in DOMAIN PubkeyKindKey
  BY DEF FilterOK
<1>3. \A a \in A, k \in K : PubkeyKindKey[<<a, k>>] \in Nat
  <2> HIDE DEF A, K
  <2> QED BY <1>2, KeyAssumption
<1>4. Product(f) = {PubkeyKindKey[<<a, k>>] : a \in A, k \in K}
  BY DEF Product
<1> HIDE DEF A, K
<1>5. Product(f) \in SUBSET Nat
  <2> SUFFICES ASSUME NEW x \in Product(f) PROVE x \in Nat
    OBVIOUS
  <2>1. PICK a \in A, k \in K : x = PubkeyKindKey[<<a, k>>]
    BY <1>4
  <2> QED BY <1>3, <2>1
<1>6. IsFiniteSet(A \X K)
  BY <1>1, FS_Product
<1>7. g \in Surjection(A \X K, Product(f))
  <2>1. ASSUME NEW p \in A \X K PROVE g[p] \in Product(f)
    <3>1. p[1] \in A /\ p[2] \in K /\ p = <<p[1], p[2]>>
      OBVIOUS
    <3> QED BY <1>4, <3>1
  <2>2. ASSUME NEW x \in Product(f) PROVE \E p \in A \X K : g[p] = x
    <3>1. PICK a \in A, k \in K : x = PubkeyKindKey[<<a, k>>]
      BY <1>4
    <3>2. <<a, k>> \in A \X K
      OBVIOUS
    <3> QED BY <3>1, <3>2
  <2> QED BY <2>1, <2>2 DEF Surjection
<1>8. IsFiniteSet(Product(f))
  <2> DEFINE AK == A \X K
  <2>1. IsFiniteSet(AK) /\ g \in Surjection(AK, Product(f))
    BY <1>6, <1>7
  <2> HIDE DEF g, AK
  <2> QED BY <2>1, FS_Surjection
<1> QED BY <1>5, <1>8, FS_CardinalityType

\* Its members.
LEMMA ProductOf ==
  ASSUME NEW f
  PROVE  /\ \A a \in UNION f.authors, k \in UNION f.kinds : PubkeyKindKey[<<a, k>>] \in Product(f)
         /\ \A x \in Product(f) : \E a \in UNION f.authors, k \in UNION f.kinds :
              x = PubkeyKindKey[<<a, k>>]
<1> DEFINE A == UNION f.authors
           K == UNION f.kinds
<1>1. Product(f) = {PubkeyKindKey[<<a, k>>] : a \in A, k \in K}
  BY DEF Product
<1> HIDE DEF A, K
<1>2. ASSUME NEW a \in A, NEW k \in K PROVE PubkeyKindKey[<<a, k>>] \in Product(f)
  <2>1. \E b \in A, j \in K : PubkeyKindKey[<<a, k>>] = PubkeyKindKey[<<b, j>>]
    OBVIOUS
  <2> QED BY <1>1, <2>1
<1>3. \A x \in Product(f) : \E a \in A, k \in K : x = PubkeyKindKey[<<a, k>>]
  BY <1>1
<1> QED BY <1>2, <1>3 DEF A, K

\* Which index a filter is looked up in.
LEMMA IndexCases ==
  ASSUME NEW f, FilterOK(f)
  PROVE  \/ IndexOf(f) = "ID" /\ f.ids # {}
         \/ IndexOf(f) = "Tag" /\ f.ids = {} /\ DOMAIN f.tags # {}
         \/ IndexOf(f) = "PubkeyKind" /\ f.ids = {} /\ DOMAIN f.tags = {} /\ f.authors # {} /\ f.kinds # {}
         \/ IndexOf(f) = "Pubkey" /\ f.ids = {} /\ DOMAIN f.tags = {} /\ f.authors # {}
         \/ IndexOf(f) = "Kind" /\ f.ids = {} /\ DOMAIN f.tags = {} /\ f.authors = {} /\ f.kinds # {}
         \/ IndexOf(f) = "CreatedAt" /\ f.ids = {} /\ DOMAIN f.tags = {} /\ f.authors = {} /\ f.kinds = {}
<1> DEFINE c == Cardinality(Product(f))
<1>1. c \in Nat /\ SmallProduct \in Nat
  BY ProductType, ScanAssumption
<1>2. c < SmallProduct \/ c >= SmallProduct
  BY <1>1
<1>3. ~(c < SmallProduct /\ c >= SmallProduct)
  BY <1>1
<1> DEFINE small == c < SmallProduct
           large == c >= SmallProduct
<1>4. IndexOf(f) =
    CASE f.ids # {}                -> "ID"
      [] f.ids = {} /\ DOMAIN f.tags # {} -> "Tag"
      [] f.ids = {} /\ DOMAIN f.tags = {} /\ f.authors # {} /\ f.kinds # {} /\ small -> "PubkeyKind"
      [] f.ids = {} /\ DOMAIN f.tags = {} /\ f.authors # {} /\ (f.kinds = {} \/ large) -> "Pubkey"
      [] f.ids = {} /\ DOMAIN f.tags = {} /\ f.authors = {} /\ f.kinds # {} -> "Kind"
      [] OTHER -> "CreatedAt"
  BY DEF IndexOf
<1>5. (small \/ large) /\ ~(small /\ large)
  BY <1>2, <1>3
<1> HIDE DEF small, large
<1>6. CASE f.ids # {}
  BY <1>4, <1>6
<1>7. CASE f.ids = {} /\ DOMAIN f.tags # {}
  BY <1>4, <1>7
<1>8. CASE f.ids = {} /\ DOMAIN f.tags = {} /\ f.authors # {} /\ f.kinds # {}
  BY <1>4, <1>5, <1>8
<1>9. CASE f.ids = {} /\ DOMAIN f.tags = {} /\ f.authors # {} /\ f.kinds = {}
  BY <1>4, <1>5, <1>9
<1>10. CASE f.ids = {} /\ DOMAIN f.tags = {} /\ f.authors = {} /\ f.kinds # {}
  BY <1>4, <1>10
<1>11. CASE f.ids = {} /\ DOMAIN f.tags = {} /\ f.authors = {} /\ f.kinds = {}
  BY <1>4, <1>11
<1> QED BY <1>6, <1>7, <1>8, <1>9, <1>10, <1>11

\* The keys a filter is looked up under are numbers, finitely many.
LEMMA SearchKeysType ==
  ASSUME NEW f, FilterOK(f)
  PROVE  SearchKeys(f) \in SUBSET Nat /\ IsFiniteSet(SearchKeys(f))
<1>1. CASE IndexOf(f) = "ID"
  <2>1. SearchKeys(f) = UNION f.ids
    BY <1>1 DEF SearchKeys
  <2>2. UNION f.ids \in SUBSET Nat /\ IsFiniteSet(UNION f.ids)
    BY FieldType
  <2> QED BY <2>1, <2>2
<1>2. CASE IndexOf(f) = "Pubkey"
  <2>1. SearchKeys(f) = UNION f.authors
    BY <1>2 DEF SearchKeys
  <2>2. UNION f.authors \in SUBSET Nat /\ IsFiniteSet(UNION f.authors)
    BY FieldType
  <2> QED BY <2>1, <2>2
<1>3. CASE IndexOf(f) = "Kind"
  <2>1. SearchKeys(f) = UNION f.kinds
    BY <1>3 DEF SearchKeys
  <2>2. UNION f.kinds \in SUBSET Nat /\ IsFiniteSet(UNION f.kinds)
    BY FieldType
  <2> QED BY <2>1, <2>2
<1>4. CASE IndexOf(f) = "PubkeyKind"
  <2>1. SearchKeys(f) = Product(f)
    BY <1>4 DEF SearchKeys
  <2> QED BY <2>1, ProductType
<1>5. CASE IndexOf(f) = "CreatedAt"
  <2>1. SearchKeys(f) = {0}
    BY <1>5 DEF SearchKeys
  <2>2. IsFiniteSet({0})
    BY FS_Singleton
  <2> QED BY <2>1, <2>2
<1>6. CASE IndexOf(f) = "Tag"
  <2> DEFINE t == ScanTag(f)
             V == f.tags[t]
             key(v) == TagKey[[name |-> t, val |-> v]]
             g == [v \in V |-> key(v)]
  <2>1. DOMAIN f.tags # {}
    BY <1>6, IndexCases
  <2>2. t \in DOMAIN f.tags
    BY <2>1, ScanTagOf
  <2>3. IsFiniteSet(V) /\ \A v \in V : [name |-> t, val |-> v] \in DOMAIN TagKey
    BY <2>2 DEF FilterOK
  <2>4. SearchKeys(f) = {key(v) : v \in V}
    BY <1>6 DEF SearchKeys
  <2>5. \A v \in V : key(v) \in Nat
    <3> HIDE DEF t, V
    <3> QED BY <2>3, KeyAssumption
  <2>6. SearchKeys(f) \in SUBSET Nat
    <3> HIDE DEF key, V
    <3> QED BY <2>4, <2>5
  <2>7. g \in Surjection(V, SearchKeys(f))
    <3> HIDE DEF key, V
    <3> QED BY <2>4 DEF Surjection
  <2> HIDE DEF g, V
  <2>8. IsFiniteSet(SearchKeys(f))
    BY <2>3, <2>7, FS_Surjection
  <2> QED BY <2>6, <2>8
<1> QED BY <1>1, <1>2, <1>3, <1>4, <1>5, <1>6, IndexCases

\* One cursor for each key.
LEMMA SearchesOf ==
  ASSUME NEW f, FilterOK(f)
  PROVE  /\ Len(Searches(f)) \in Nat /\ DOMAIN Searches(f) = 1..Len(Searches(f))
         /\ \A i \in DOMAIN Searches(f) : Searches(f)[i] \in SearchKeys(f)
         /\ \A k \in SearchKeys(f) : \E i \in DOMAIN Searches(f) : Searches(f)[i] = k
<1> DEFINE S == SearchKeys(f)
           R == {p \in S \X S : p[1] < p[2]}
<1>1. S \in SUBSET Nat /\ IsFiniteSet(S)
  BY SearchKeysType
<1>2. Searches(f) = [k \in 1..Cardinality(S) |->
                       CHOOSE x \in S : Cardinality({y \in S : y < x}) = k - 1]
  BY DEF Searches, SortedBy
<1> HIDE DEF S
<1>3. \A x, y \in S : <<x, y>> \in R <=> x < y
  OBVIOUS
<1>4. Ordered(S, R)
  <2> HIDE DEF R
  <2>1. \A x \in S : x \in Int
    BY <1>1
  <2> QED BY <1>3, <2>1 DEF Ordered
<1>5. Searches(f) = Sorted(S, R)
  <2>1. ASSUME NEW x \in S
        PROVE  {y \in S : y < x} = {y \in S : <<y, x>> \in R}
    BY <1>3
  <2> HIDE DEF R
  <2>2. ASSUME NEW k \in 1..Cardinality(S)
        PROVE  (CHOOSE x \in S : Cardinality({y \in S : y < x}) = k - 1)
               = (CHOOSE x \in S : Cardinality({y \in S : <<y, x>> \in R}) = k - 1)
    BY <2>1
  <2>3. Sorted(S, R) = [k \in 1..Cardinality(S) |->
                          CHOOSE x \in S : Cardinality({y \in S : <<y, x>> \in R}) = k - 1]
    BY DEF Sorted, Rank
  <2> QED BY <1>2, <2>2, <2>3
<1> HIDE DEF R
<1>6. /\ Sorted(S, R) \in Seq(S) /\ Len(Sorted(S, R)) = Cardinality(S)
      /\ Cardinality(S) \in Nat
      /\ \A x \in S : \E i \in 1..Cardinality(S) : Sorted(S, R)[i] = x
  BY <1>1, <1>4, SortedSeq
<1>7. /\ DOMAIN Sorted(S, R) = 1..Cardinality(S)
      /\ \A i \in 1..Cardinality(S) : Sorted(S, R)[i] \in S
  BY <1>6
<1> QED BY <1>5, <1>6, <1>7 DEF S

\* A matching event has a record under one of the keys.
LEMMA MatchHasKey ==
  ASSUME NEW f, FilterOK(f), NEW ev, EventOK(ev), DoesMatch(f, ev)
  PROVE  \E k \in SearchKeys(f) : k \in IndexKeys(IndexOf(f), ev)
<1>1. /\ \A ids \in f.ids : ev.id \in ids
      /\ \A authors \in f.authors : ev.pubkey \in authors
      /\ \A kinds \in f.kinds : ev.kind \in kinds
      /\ \A name \in DOMAIN f.tags : \E i \in DOMAIN ev.tags :
           ev.tags[i].name = name /\ ev.tags[i].val \in f.tags[name]
  BY DEF DoesMatch
<1>2. /\ f.ids # {} => ev.id \in UNION f.ids
      /\ f.authors # {} => ev.pubkey \in UNION f.authors
      /\ f.kinds # {} => ev.kind \in UNION f.kinds
  BY <1>1
<1>3. CASE IndexOf(f) = "ID"
  <2>1. SearchKeys(f) = UNION f.ids /\ IndexKeys(IndexOf(f), ev) = {ev.id} /\ f.ids # {}
    BY <1>3, IndexCases DEF SearchKeys, IndexKeys
  <2> QED BY <1>2, <2>1
<1>4. CASE IndexOf(f) = "Pubkey"
  <2>1. SearchKeys(f) = UNION f.authors /\ IndexKeys(IndexOf(f), ev) = {ev.pubkey} /\ f.authors # {}
    BY <1>4, IndexCases DEF SearchKeys, IndexKeys
  <2> QED BY <1>2, <2>1
<1>5. CASE IndexOf(f) = "Kind"
  <2>1. SearchKeys(f) = UNION f.kinds /\ IndexKeys(IndexOf(f), ev) = {ev.kind} /\ f.kinds # {}
    BY <1>5, IndexCases DEF SearchKeys, IndexKeys
  <2> QED BY <1>2, <2>1
<1>6. CASE IndexOf(f) = "PubkeyKind"
  <2>1. /\ SearchKeys(f) = Product(f) /\ f.authors # {} /\ f.kinds # {}
        /\ IndexKeys(IndexOf(f), ev) = {PubkeyKindKey[<<ev.pubkey, ev.kind>>]}
    BY <1>6, IndexCases DEF SearchKeys, IndexKeys
  <2>2. ev.pubkey \in UNION f.authors /\ ev.kind \in UNION f.kinds
    BY <1>2, <2>1
  <2>3. PubkeyKindKey[<<ev.pubkey, ev.kind>>] \in Product(f)
    BY <2>2, ProductOf
  <2> QED BY <2>1, <2>3
<1>7. CASE IndexOf(f) = "CreatedAt"
  <2>1. SearchKeys(f) = {0} /\ IndexKeys(IndexOf(f), ev) = {0}
    BY <1>7 DEF SearchKeys, IndexKeys
  <2> QED BY <2>1
<1>8. CASE IndexOf(f) = "Tag"
  <2> DEFINE t == ScanTag(f)
  <2>1. /\ SearchKeys(f) = {TagKey[[name |-> t, val |-> v]] : v \in f.tags[t]}
        /\ IndexKeys(IndexOf(f), ev) = {TagKey[ev.tags[i]] : i \in DOMAIN ev.tags}
    BY <1>8 DEF SearchKeys, IndexKeys
  <2>2. t \in DOMAIN f.tags
    BY <1>8, IndexCases, ScanTagOf
  <2> HIDE DEF t
  <2>3. PICK i \in DOMAIN ev.tags : ev.tags[i].name = t /\ ev.tags[i].val \in f.tags[t]
    BY <1>1, <2>2
  <2>4. ev.tags[i] \in DOMAIN TagKey
    BY DEF EventOK
  <2>5. ev.tags[i] = [name |-> ev.tags[i].name, val |-> ev.tags[i].val]
    BY <2>4, KeyAssumption
  <2>6. TagKey[ev.tags[i]] \in SearchKeys(f) /\ TagKey[ev.tags[i]] \in IndexKeys(IndexOf(f), ev)
    BY <2>1, <2>3, <2>5
  <2> QED BY <2>6
<1> QED BY <1>3, <1>4, <1>5, <1>6, <1>7, <1>8, IndexCases

\* When the scan looks at the index only, its records within the times match.
LEMMA IndexOnlyExact ==
  ASSUME NEW f, FilterOK(f), NEW ev, EventOK(ev), IndexOnly(f), DoesMatchTimes(f, ev.created),
         NEW k \in SearchKeys(f), k \in IndexKeys(IndexOf(f), ev)
  PROVE  DoesMatch(f, ev)
<1> DEFINE t == ScanTag(f)
           n1 == Cardinality(f.ids)
           n2 == Cardinality(f.authors)
           n3 == Cardinality(f.kinds)
           n4 == Cardinality(DOMAIN f.tags)
<1>1. /\ n1 \in Nat /\ (f.ids # {} => n1 = 1)
      /\ n2 \in Nat /\ (f.authors # {} => n2 = 1)
      /\ n3 \in Nat /\ (f.kinds # {} => n3 = 1)
  BY FieldType
<1>2. n4 \in Nat /\ (DOMAIN f.tags # {} => n4 >= 1) /\ (n4 = 1 => \E x : DOMAIN f.tags = {x})
  <2>1. IsFiniteSet(DOMAIN f.tags)
    BY DEF FilterOK
  <2>2. n4 \in Nat /\ (n4 = 0 <=> DOMAIN f.tags = {}) /\ (n4 = 1 <=> \E x : DOMAIN f.tags = {x})
    BY <2>1, FS_CardinalityType, FS_EmptySet, FS_Singleton
  <2> QED BY <2>2
<1>3. /\ (n1 + n2 + n3 + n4 <= 1) \/ ((n1 + n2 + n3 + n4 = 2) /\ f.authors # {} /\ f.kinds # {})
      /\ ~(IndexOf(f) = "Pubkey" /\ f.kinds # {})
  BY DEF IndexOnly, MajorFields
<1> HIDE DEF n1, n2, n3, n4
<1>4. CASE IndexOf(f) = "ID"
  <2>1. SearchKeys(f) = UNION f.ids /\ IndexKeys(IndexOf(f), ev) = {ev.id} /\ f.ids # {}
    BY <1>4, IndexCases DEF SearchKeys, IndexKeys
  <2>2. f.authors = {} /\ f.kinds = {} /\ DOMAIN f.tags = {}
    BY <1>1, <1>2, <1>3, <2>1
  <2>3. f.ids = {UNION f.ids}
    BY <2>1, FieldType
  <2> QED BY <2>1, <2>2, <2>3 DEF DoesMatch
<1>5. CASE IndexOf(f) = "Pubkey"
  <2>1. /\ SearchKeys(f) = UNION f.authors /\ IndexKeys(IndexOf(f), ev) = {ev.pubkey}
        /\ f.authors # {} /\ f.ids = {} /\ DOMAIN f.tags = {}
    BY <1>5, IndexCases DEF SearchKeys, IndexKeys
  <2>2. f.kinds = {}
    BY <1>3, <1>5
  <2>3. f.authors = {UNION f.authors}
    BY <2>1, FieldType
  <2> QED BY <2>1, <2>2, <2>3 DEF DoesMatch
<1>6. CASE IndexOf(f) = "Kind"
  <2>1. /\ SearchKeys(f) = UNION f.kinds /\ IndexKeys(IndexOf(f), ev) = {ev.kind}
        /\ f.kinds # {} /\ f.ids = {} /\ f.authors = {} /\ DOMAIN f.tags = {}
    BY <1>6, IndexCases DEF SearchKeys, IndexKeys
  <2>2. f.kinds = {UNION f.kinds}
    BY <2>1, FieldType
  <2> QED BY <2>1, <2>2 DEF DoesMatch
<1>7. CASE IndexOf(f) = "PubkeyKind"
  <2>1. /\ SearchKeys(f) = Product(f) /\ f.authors # {} /\ f.kinds # {}
        /\ f.ids = {} /\ DOMAIN f.tags = {}
        /\ IndexKeys(IndexOf(f), ev) = {PubkeyKindKey[<<ev.pubkey, ev.kind>>]}
    BY <1>7, IndexCases DEF SearchKeys, IndexKeys
  <2>2. f.authors = {UNION f.authors} /\ f.kinds = {UNION f.kinds}
    BY <2>1, FieldType
  <2>3. PICK a \in UNION f.authors, kd \in UNION f.kinds : k = PubkeyKindKey[<<a, kd>>]
    <3>1. k \in Product(f)
      BY <2>1
    <3> QED BY <3>1, ProductOf
  <2>4. <<a, kd>> \in DOMAIN PubkeyKindKey /\ <<ev.pubkey, ev.kind>> \in DOMAIN PubkeyKindKey
    BY DEF FilterOK, EventOK
  <2>5. <<a, kd>> = <<ev.pubkey, ev.kind>>
    BY <2>1, <2>3, <2>4, KeyAssumption DEF IsInjective
  <2>6. a = ev.pubkey /\ kd = ev.kind
    BY <2>5
  <2> QED BY <2>1, <2>2, <2>6 DEF DoesMatch
<1>8. CASE IndexOf(f) = "CreatedAt"
  <2>1. f.ids = {} /\ f.authors = {} /\ f.kinds = {} /\ DOMAIN f.tags = {}
    BY <1>8, IndexCases
  <2> QED BY <2>1 DEF DoesMatch
<1>9. CASE IndexOf(f) = "Tag"
  <2>1. /\ SearchKeys(f) = {TagKey[[name |-> t, val |-> v]] : v \in f.tags[t]}
        /\ IndexKeys(IndexOf(f), ev) = {TagKey[ev.tags[i]] : i \in DOMAIN ev.tags}
    BY <1>9 DEF SearchKeys, IndexKeys
  <2>2. f.ids = {} /\ DOMAIN f.tags # {} /\ t \in DOMAIN f.tags
    BY <1>9, IndexCases, ScanTagOf
  <2>3. f.authors = {} /\ f.kinds = {} /\ n4 = 1
    BY <1>1, <1>2, <1>3, <2>2
  <2> HIDE DEF t
  <2>4. DOMAIN f.tags = {t}
    BY <1>2, <2>2, <2>3
  <2>5. PICK v \in f.tags[t] : k = TagKey[[name |-> t, val |-> v]]
    BY <2>1
  <2>6. PICK i \in DOMAIN ev.tags : k = TagKey[ev.tags[i]]
    BY <2>1
  <2>7. ev.tags[i] \in DOMAIN TagKey /\ [name |-> t, val |-> v] \in DOMAIN TagKey
    BY <2>2 DEF FilterOK, EventOK
  <2>8. ev.tags[i] = [name |-> t, val |-> v]
    BY <2>5, <2>6, <2>7, KeyAssumption DEF IsInjective
  <2>9. ev.tags[i].name = t /\ ev.tags[i].val = v
    BY <2>8
  <2> QED BY <2>2, <2>3, <2>4, <2>9 DEF DoesMatch
<1> QED BY <1>4, <1>5, <1>6, <1>7, <1>8, <1>9, IndexCases

-----------------------------------------------------------------------------
(* The queue *)

\* A sequence without duplicates has as many members as places.
LEMMA RangeCount ==
  ASSUME NEW q \in Seq(Cands)
  PROVE  /\ IsFiniteSet(Range(q)) /\ Range(q) \in SUBSET Cands
         /\ IsInjective(q) => Cardinality(Range(q)) = Len(q)
<1> DEFINE D == 1..Len(q)
<1>1. Len(q) \in Nat /\ DOMAIN q = D /\ \A k \in D : q[k] \in Cands
  OBVIOUS
<1>2. IsFiniteSet(D) /\ Cardinality(D) = Len(q)
  <2>1. IsFiniteSet(1..Len(q)) /\ Cardinality(1..Len(q)) = IF 1 > Len(q) THEN 0 ELSE Len(q) - 1 + 1
    BY <1>1, FS_Interval
  <2> QED BY <1>1, <2>1
<1> HIDE DEF D
<1>3. Range(q) = {q[k] : k \in D}
  BY <1>1 DEF Range
<1>4. q \in [D -> Range(q)]
  BY <1>1, <1>3
<1>5. q \in Surjection(D, Range(q))
  BY <1>3, <1>4 DEF Surjection
<1>6. IsFiniteSet(Range(q))
  BY <1>2, <1>5, FS_Surjection
<1>7. Range(q) \in SUBSET Cands
  BY <1>1, <1>3
<1>8. ASSUME IsInjective(q) PROVE Cardinality(Range(q)) = Len(q)
  <2>1. q \in Bijection(D, Range(q))
    BY <1>1, <1>4, <1>5, <1>8 DEF Bijection, Injection, IsInjective
  <2>2. Cardinality(D) = Cardinality(Range(q))
    BY <1>2, <1>6, <2>1, FS_Bijection DEF ExistsBijection
  <2> QED BY <1>2, <2>2
<1> QED BY <1>6, <1>7, <1>8

\* Counting places or candidates is the same.
LEMMA Counted ==
  ASSUME NEW q \in Seq(Cands), IsInjective(q), NEW i
  PROVE  /\ IsFiniteSet(Of(Range(q), i)) /\ Cardinality(Of(Range(q), i)) \in Nat
         /\ Cardinality({k \in DOMAIN q : ScanIndexOf(q[k]) = i}) = Cardinality(Of(Range(q), i))
<1> DEFINE D == {k \in DOMAIN q : ScanIndexOf(q[k]) = i}
           C == Of(Range(q), i)
           g == [k \in D |-> q[k]]
<1>1. IsFiniteSet(C) /\ Cardinality(C) \in Nat
  <2>1. C \in SUBSET Range(q)
    BY DEF Of
  <2>2. IsFiniteSet(Range(q))
    BY RangeCount
  <2> HIDE DEF C
  <2> QED BY <2>1, <2>2, FS_Subset, FS_CardinalityType
<1>2. IsFiniteSet(D)
  <2>1. IsFiniteSet(1..Len(q)) /\ DOMAIN q = 1..Len(q)
    BY FS_Interval
  <2>2. D \in SUBSET (1..Len(q))
    BY <2>1
  <2> HIDE DEF D
  <2> QED BY <2>1, <2>2, FS_Subset
<1>3. \A k \in D : k \in DOMAIN q /\ ScanIndexOf(q[k]) = i
  OBVIOUS
<1>4. \A c \in C : \E k \in D : q[k] = c
  BY DEF Of, Range
<1>5. \A k \in D : q[k] \in C
  BY DEF Of, Range
<1> HIDE DEF C, D
<1>6. g \in Bijection(D, C)
  BY <1>3, <1>4, <1>5 DEF Bijection, Injection, Surjection, IsInjective
<1>7. Cardinality(D) = Cardinality(C)
  <2> HIDE DEF g
  <2> QED BY <1>1, <1>2, <1>6, FS_Bijection DEF ExistsBijection
<1> QED BY <1>1, <1>7 DEF C, D

\* std::sort puts the queue in order and keeps its candidates.
LEMMA SortExact ==
  ASSUME NEW q \in Seq(Cands)
  PROVE  /\ Sort(q) \in Seq(Cands) /\ IsInjective(Sort(q))
         /\ Range(Sort(q)) = Range(q) /\ InOrder(Sort(q))
<1> DEFINE S == Range(q)
           R == {p \in S \X S : SortLess(p[1], p[2])}
<1>1. IsFiniteSet(S) /\ S \in SUBSET Cands
  BY RangeCount
<1>2. Sort(q) = [k \in 1..Cardinality(S) |->
                   CHOOSE x \in S : Cardinality({y \in S : SortLess(y, x)}) = k - 1]
  BY DEF Sort, SortedBy
<1> HIDE DEF S
<1>3. \A x, y \in S : <<x, y>> \in R <=> SortLess(x, y)
  OBVIOUS
<1>4. ASSUME NEW x \in S, NEW y \in S, NEW z \in S
      PROVE  /\ ~SortLess(x, x) /\ (x = y \/ SortLess(x, y) \/ SortLess(y, x))
             /\ SortLess(x, y) /\ SortLess(y, z) => SortLess(x, z)
             /\ SortLess(x, y) => ~Cmp(y, x)
  <2>1. x \in Cands /\ y \in Cands /\ z \in Cands
    BY <1>1
  <2>2. /\ CreatedOf(x) \in Nat /\ x.levId \in Nat /\ x.packed \in Nat
        /\ CreatedOf(y) \in Nat /\ y.levId \in Nat /\ y.packed \in Nat
        /\ CreatedOf(z) \in Nat /\ z.levId \in Nat /\ z.packed \in Nat
    BY <2>1, CreatedType
  <2>3. x.packed = y.packed /\ x.levId = y.levId => x = y
    BY <2>1 DEF Cands
  <2> QED BY <2>2, <2>3 DEF SortLess, Cmp
<1>5. Ordered(S, R)
  <2> HIDE DEF R
  <2>1. ASSUME NEW x \in S, NEW y \in S, NEW z \in S, <<x, y>> \in R, <<y, z>> \in R
        PROVE  <<x, z>> \in R
    BY <1>3, <1>4, <2>1
  <2>2. /\ \A x \in S : <<x, x>> \notin R
        /\ \A x, y \in S : x = y \/ <<x, y>> \in R \/ <<y, x>> \in R
    BY <1>3, <1>4
  <2> QED BY <2>1, <2>2 DEF Ordered
<1>6. Sort(q) = Sorted(S, R)
  <2>1. ASSUME NEW x \in S
        PROVE  {y \in S : SortLess(y, x)} = {y \in S : <<y, x>> \in R}
    BY <1>3
  <2> HIDE DEF R
  <2>2. ASSUME NEW k \in 1..Cardinality(S)
        PROVE  (CHOOSE x \in S : Cardinality({y \in S : SortLess(y, x)}) = k - 1)
               = (CHOOSE x \in S : Cardinality({y \in S : <<y, x>> \in R}) = k - 1)
    BY <2>1
  <2>3. Sorted(S, R) = [k \in 1..Cardinality(S) |->
                          CHOOSE x \in S : Cardinality({y \in S : <<y, x>> \in R}) = k - 1]
    BY DEF Sorted, Rank
  <2> QED BY <1>2, <2>2, <2>3
<1> HIDE DEF R
<1> DEFINE s == Sorted(S, R)
           n == Cardinality(S)
<1>7. /\ s \in Seq(S) /\ Len(s) = n /\ n \in Nat
      /\ \A i, j \in 1..n : i < j => <<s[i], s[j]>> \in R
      /\ \A x \in S : \E i \in 1..n : s[i] = x
  BY <1>1, <1>5, SortedSeq
<1> HIDE DEF s, n
<1>8. DOMAIN s = 1..n /\ \A i \in 1..n : s[i] \in S
  BY <1>7
<1>9. s \in Seq(Cands)
  BY <1>1, <1>7, <1>8
<1>10. Range(s) = S
  BY <1>7, <1>8 DEF Range
<1>11. \A i, j \in 1..n : i < j => SortLess(s[i], s[j])
  BY <1>3, <1>7, <1>8
<1>12. InOrder(s)
  BY <1>4, <1>8, <1>11 DEF InOrder
<1>13. IsInjective(s)
  <2>1. \A i, j \in 1..n : i < j => s[i] # s[j]
    BY <1>4, <1>8, <1>11
  <2> QED BY <1>7, <1>8, <2>1 DEF IsInjective
<1> QED BY <1>6, <1>9, <1>10, <1>12, <1>13 DEF s, S

\* Adding candidates at the end.
LEMMA Appended ==
  ASSUME NEW a \in Seq(Cands), NEW b \in Seq(Cands)
  PROVE  /\ a \o b \in Seq(Cands) /\ Range(a \o b) = Range(a) \cup Range(b)
         /\ IsInjective(a) /\ IsInjective(b) /\ Range(a) \cap Range(b) = {} => IsInjective(a \o b)
<1> DEFINE s == a \o b
<1>1. /\ Len(a) \in Nat /\ Len(b) \in Nat /\ DOMAIN a = 1..Len(a) /\ DOMAIN b = 1..Len(b)
      /\ s \in Seq(Cands) /\ Len(s) = Len(a) + Len(b) /\ DOMAIN s = 1..(Len(a) + Len(b))
  OBVIOUS
<1>2. ASSUME NEW k \in DOMAIN s
      PROVE  IF k <= Len(a) THEN k \in DOMAIN a /\ s[k] = a[k]
             ELSE k - Len(a) \in DOMAIN b /\ s[k] = b[k - Len(a)]
  BY <1>1
<1>3. \A k \in DOMAIN a : k \in DOMAIN s /\ s[k] = a[k]
  BY <1>1
<1>4. \A k \in DOMAIN b : k + Len(a) \in DOMAIN s /\ s[k + Len(a)] = b[k]
  BY <1>1
<1> HIDE DEF s
<1>5. Range(s) = Range(a) \cup Range(b)
  <2>1. \A k \in DOMAIN s : s[k] \in Range(a) \cup Range(b)
    BY <1>2 DEF Range
  <2>2. \A k \in DOMAIN a : a[k] \in Range(s)
    BY <1>3 DEF Range
  <2>3. \A k \in DOMAIN b : b[k] \in Range(s)
    BY <1>4 DEF Range
  <2> QED BY <2>1, <2>2, <2>3 DEF Range
<1>6. ASSUME IsInjective(a), IsInjective(b), Range(a) \cap Range(b) = {} PROVE IsInjective(s)
  <2>1. \A i \in DOMAIN a, j \in DOMAIN b : a[i] # b[j]
    BY <1>6 DEF Range
  <2>2. ASSUME NEW i \in DOMAIN s, NEW j \in DOMAIN s, s[i] = s[j] PROVE i = j
    <3>1. i \in Int /\ j \in Int
      BY <1>1
    <3>2. CASE i <= Len(a) /\ j <= Len(a)
      BY <1>2, <1>6, <2>2, <3>2 DEF IsInjective
    <3>3. CASE ~(i <= Len(a)) /\ ~(j <= Len(a))
      <4>1. i - Len(a) = j - Len(a)
        BY <1>2, <1>6, <2>2, <3>3 DEF IsInjective
      <4> QED BY <1>1, <3>1, <4>1
    <3>4. CASE (i <= Len(a)) # (j <= Len(a))
      BY <1>2, <2>1, <2>2, <3>4
    <3> QED BY <3>2, <3>3, <3>4
  <2> QED BY <2>2 DEF IsInjective
<1> QED BY <1>1, <1>5, <1>6 DEF s

\* Taking the candidate in front.
LEMMA Popped ==
  ASSUME NEW q \in Seq(Cands), q # <<>>, IsInjective(q)
  PROVE  /\ Head(q) \in Range(q) /\ Head(q) \in Cands
         /\ Tail(q) \in Seq(Cands) /\ IsInjective(Tail(q))
         /\ Range(Tail(q)) = Range(q) \ {Head(q)}
         /\ InOrder(q) => InOrder(Tail(q)) /\ \A c \in Range(q) : ~Cmp(c, Head(q))
<1> DEFINE s == Tail(q)
<1>1. /\ Len(q) \in Nat \ {0} /\ DOMAIN q = 1..Len(q) /\ Head(q) = q[1] /\ q[1] \in Cands
      /\ s \in Seq(Cands) /\ Len(s) = Len(q) - 1 /\ DOMAIN s = 1..(Len(q) - 1)
      /\ \A k \in DOMAIN s : k + 1 \in DOMAIN q /\ s[k] = q[k + 1]
  OBVIOUS
<1> HIDE DEF s
<1>2. 1 \in DOMAIN q
  BY <1>1
<1>3. \A k \in DOMAIN s : k \in Int
  BY <1>1
<1>4. IsInjective(s)
  BY <1>1, <1>3 DEF IsInjective
<1>5. Range(s) = Range(q) \ {q[1]}
  <2>1. ASSUME NEW k \in DOMAIN s PROVE s[k] \in Range(q) \ {q[1]}
    <3>1. k + 1 # 1
      BY <1>3
    <3> QED BY <1>1, <1>2, <3>1 DEF IsInjective, Range
  <2>2. ASSUME NEW k \in DOMAIN q, q[k] # q[1] PROVE q[k] \in Range(s)
    <3>1. k - 1 \in DOMAIN s /\ (k - 1) + 1 = k
      BY <1>1, <2>2
    <3> QED BY <1>1, <3>1 DEF Range
  <2> QED BY <2>1, <2>2 DEF Range
<1>6. ASSUME InOrder(q) PROVE InOrder(s) /\ \A c \in Range(q) : ~Cmp(c, q[1])
  <2>1. InOrder(s)
    <3> SUFFICES ASSUME NEW i \in DOMAIN s, NEW j \in DOMAIN s, i < j PROVE ~Cmp(s[j], s[i])
      BY DEF InOrder
    <3>1. i + 1 < j + 1
      BY <1>3
    <3> QED BY <1>1, <1>6, <3>1 DEF InOrder
  <2>2. ASSUME NEW k \in DOMAIN q PROVE ~Cmp(q[k], q[1])
    <3>1. CASE k = 1
      BY <1>1, <3>1, CmpOrder
    <3>2. CASE k # 1
      <4>1. 1 < k
        BY <1>1, <3>2
      <4> QED BY <1>2, <1>6, <4>1 DEF InOrder
    <3> QED BY <3>1, <3>2
  <2> QED BY <2>1, <2>2 DEF Range
<1>7. q[1] \in Range(q)
  BY <1>2 DEF Range
<1> QED BY <1>1, <1>4, <1>5, <1>6, <1>7 DEF s

-----------------------------------------------------------------------------
(* ScanCursor::collect *)

\* The records in the order of the cursor.
LEMMA RecordsSorted ==
  ASSUME NEW S \in SUBSET Positions, IsFiniteSet(S)
  PROVE  LET s == SortedBy(S, RecordAfter) IN
         /\ s \in Seq(S) /\ Len(s) \in Nat
         /\ \A i, j \in 1..Len(s) : i < j => RecordLess(s[j], s[i])
         /\ \A x \in S : \E i \in 1..Len(s) : s[i] = x
<1> DEFINE R == {p \in S \X S : RecordAfter(p[1], p[2])}
<1>1. SortedBy(S, RecordAfter)
        = [k \in 1..Cardinality(S) |->
             CHOOSE x \in S : Cardinality({y \in S : RecordAfter(y, x)}) = k - 1]
  BY DEF SortedBy
<1>2. \A x, y \in S : <<x, y>> \in R <=> RecordAfter(x, y)
  OBVIOUS
<1>3. \A x, y \in S : RecordAfter(x, y) <=> RecordLess(y, x)
  BY DEF RecordAfter
<1>4. Ordered(S, R)
  <2> HIDE DEF R
  <2>1. ASSUME NEW x \in S, NEW y \in S, NEW z \in S, <<x, y>> \in R, <<y, z>> \in R
        PROVE  <<x, z>> \in R
    <3>1. x \in Positions /\ y \in Positions /\ z \in Positions
      OBVIOUS
    <3>2. RecordLess(y, x) /\ RecordLess(z, y)
      BY <1>2, <1>3, <2>1
    <3>3. RecordLess(z, x)
      BY <3>1, <3>2, RecordOrder
    <3> QED BY <1>2, <1>3, <3>3
  <2>2. /\ \A x \in S : <<x, x>> \notin R
        /\ \A x, y \in S : x = y \/ <<x, y>> \in R \/ <<y, x>> \in R
    <3>1. \A x, y \in S : ~RecordLess(x, x) /\ (x = y \/ RecordLess(x, y) \/ RecordLess(y, x))
      BY RecordOrder
    <3> QED BY <1>2, <1>3, <3>1
  <2> QED BY <2>1, <2>2 DEF Ordered
<1>5. SortedBy(S, RecordAfter) = Sorted(S, R)
  <2>1. ASSUME NEW x \in S
        PROVE  {y \in S : RecordAfter(y, x)} = {y \in S : <<y, x>> \in R}
    BY <1>2
  <2> HIDE DEF R
  <2>2. ASSUME NEW k \in 1..Cardinality(S)
        PROVE  (CHOOSE x \in S : Cardinality({y \in S : RecordAfter(y, x)}) = k - 1)
               = (CHOOSE x \in S : Cardinality({y \in S : <<y, x>> \in R}) = k - 1)
    BY <2>1
  <2>3. Sorted(S, R) = [k \in 1..Cardinality(S) |->
                          CHOOSE x \in S : Cardinality({y \in S : <<y, x>> \in R}) = k - 1]
    BY DEF Sorted, Rank
  <2> QED BY <1>1, <2>2, <2>3
<1> HIDE DEF R
<1> DEFINE s == Sorted(S, R)
           n == Cardinality(S)
<1>6. /\ s \in Seq(S) /\ Len(s) = n /\ n \in Nat
      /\ \A i, j \in 1..n : i < j => <<s[i], s[j]>> \in R
      /\ \A x \in S : \E i \in 1..n : s[i] = x
  BY <1>4, SortedSeq
<1> HIDE DEF s, n
<1>7. \A i \in 1..n : s[i] \in S
  BY <1>6
<1>8. \A i, j \in 1..Len(s) : i < j => RecordLess(s[j], s[i])
  BY <1>2, <1>3, <1>6, <1>7
<1>9. s \in Seq(S) /\ Len(s) \in Nat /\ \A x \in S : \E i \in 1..Len(s) : s[i] = x
  BY <1>6
<1> QED BY <1>5, <1>8, <1>9 DEF s

\* Records have a last one.
LEMMA LastRecord ==
  ASSUME NEW S \in SUBSET Positions, IsFiniteSet(S), S # {}
  PROVE  \E r \in S : \A x \in S : x = r \/ RecordLess(x, r)
<1> DEFINE s == SortedBy(S, RecordAfter)
<1>1. /\ s \in Seq(S) /\ Len(s) \in Nat
      /\ \A i, j \in 1..Len(s) : i < j => RecordLess(s[j], s[i])
      /\ \A x \in S : \E i \in 1..Len(s) : s[i] = x
  BY RecordsSorted
<1> HIDE DEF s
<1>2. PICK x \in S : TRUE
  OBVIOUS
<1>3. 1 \in 1..Len(s)
  BY <1>1, <1>2
<1>4. s[1] \in S
  BY <1>1, <1>3
<1>5. ASSUME NEW y \in S PROVE y = s[1] \/ RecordLess(y, s[1])
  <2>1. PICK i \in 1..Len(s) : s[i] = y
    BY <1>1
  <2>2. i = 1 \/ 1 < i
    BY <1>1
  <2> QED BY <1>1, <1>3, <2>1, <2>2
<1> QED BY <1>4, <1>5

\* The resume key is the next record behind the last one taken.
LEMMA ResumeExact ==
  ASSUME NEW S \in SUBSET Positions, IsFiniteSet(S), S = Records(scanner.index, db),
         NEW taken, NEW last, last = taken[Len(taken)]
  PROVE  \/ Resume(taken) = Inactive /\ \A r \in S : ~RecordLess(r, last)
         \/ /\ Resume(taken) \in S /\ RecordLess(Resume(taken), last)
            /\ \A r \in S : RecordLess(r, last) => r = Resume(taken) \/ RecordLess(r, Resume(taken))
<1> DEFINE rest == {r \in S : RecordLess(r, last)}
<1>1. Resume(taken) = IF rest = {} THEN Inactive
                      ELSE CHOOSE r \in rest : \A s \in rest : s = r \/ RecordLess(s, r)
  BY DEF Resume
<1>2. \A r : r \in rest <=> r \in S /\ RecordLess(r, last)
  OBVIOUS
<1>3. rest \in SUBSET S
  OBVIOUS
<1> HIDE DEF rest
<1>4. rest \in SUBSET Positions /\ IsFiniteSet(rest)
  BY <1>3, FS_Subset
<1>5. CASE rest = {}
  BY <1>1, <1>2, <1>5
<1>6. CASE rest # {}
  <2>1. \E r \in rest : \A s \in rest : s = r \/ RecordLess(s, r)
    BY <1>4, <1>6, LastRecord
  <2> DEFINE m == CHOOSE r \in rest : \A s \in rest : s = r \/ RecordLess(s, r)
  <2>2. m \in rest /\ \A s \in rest : s = m \/ RecordLess(s, m)
    BY <2>1, Zenon
  <2>3. Resume(taken) = m
    BY <1>1, <1>6
  <2> HIDE DEF m
  <2> QED BY <1>2, <2>2, <2>3
<1> QED BY <1>5, <1>6

\* What collect returns: candidates of records ahead of the cursor, newest first;
\* the cursor is then in front of them, and a record the filter matches is
\* among them or still ahead.
LEMMA CollectExact ==
  ASSUME db \in SUBSET (DOMAIN EventAt), FilterOK(F), scanner.index = IndexOf(F),
         NEW i \in Nat, CursorType(cursors[i]), NEW limit \in Nat \ {0}
  PROVE  LET out == Collect(i, limit).output
             cur == Collect(i, limit).cursor
             old == cursors[i]
         IN  /\ out \in Seq(Cands) /\ IsInjective(out) /\ InOrder(out)
             /\ CursorType(cur) /\ cur.key = old.key
             /\ cur.outstanding = old.outstanding + Len(out)
             /\ \A c \in Range(out) : \E n \in db :
                  /\ c = Cand(i, n) /\ Ahead(old.pos, Rec(old.key, n))
                  /\ old.key \in IndexKeys(IndexOf(F), EventAt[n])
             /\ cur.pos # Inactive =>
                  /\ Len(out) > 0
                  /\ \A n \in DOMAIN EventAt :
                       Cand(i, n) \in Range(out) => RecordLess(cur.pos, Rec(old.key, n))
             /\ \A n \in db :
                  /\ old.key \in IndexKeys(IndexOf(F), EventAt[n]) /\ DoesMatch(F, EventAt[n])
                  /\ Ahead(old.pos, Rec(old.key, n))
                  => Cand(i, n) \in Range(out) \/ Ahead(cur.pos, Rec(old.key, n))
<1> DEFINE key == cursors[i].key
           pos == cursors[i].pos
           rs == Records(scanner.index, db)
           found == IF pos = Inactive THEN {} ELSE Takes(i, pos)
           all == SortedBy(found, RecordAfter)
           m == IF Len(all) < limit THEN Len(all) ELSE limit
           taken == SubSeq(all, 1, m)
           out == [k \in DOMAIN taken |-> Candidate(taken[k].levId, taken[k].created, i)]
           new == NextPos(pos, all, taken, limit)
<1>1. /\ Collect(i, limit).output = out
      /\ Collect(i, limit).cursor = [key |-> key, pos |-> new,
                                     outstanding |-> cursors[i].outstanding + Len(taken)]
  BY DEF Collect
<1>2. /\ key \in Nat /\ pos \in Positions /\ cursors[i].outstanding \in Nat
      /\ pos = Inactive \/ pos.key \in Nat
  BY DEF CursorType
<1>3. /\ IsFiniteSet(rs) /\ rs \in SUBSET Positions
      /\ \A r \in rs : /\ r.key \in Nat /\ r.levId \in db
                       /\ r.key \in IndexKeys(IndexOf(F), EventAt[r.levId])
                       /\ r = Rec(r.key, r.levId)
      /\ \A n \in db : \A k \in IndexKeys(IndexOf(F), EventAt[n]) : Rec(k, n) \in rs
  BY RecordsType
<1>4. /\ found \in SUBSET rs
      /\ \A r \in found : r.key = key /\ Ahead(pos, r)
  BY DEF Takes, Ahead
<1>5. ASSUME NEW n \in db, key \in IndexKeys(IndexOf(F), EventAt[n]), DoesMatch(F, EventAt[n]),
             Ahead(pos, Rec(key, n))
      PROVE  Rec(key, n) \in found
  <2>1. Rec(key, n) \in rs
    BY <1>3, <1>5
  <2>2. pos # Inactive /\ (Rec(key, n) = pos \/ RecordLess(Rec(key, n), pos))
    BY <1>5 DEF Ahead
  <2>3. Rec(key, n).key = key /\ Rec(key, n).created = EventAt[n].created
    BY DEF Rec
  <2>4. F.since <= EventAt[n].created /\ EventAt[n].created <= F.until
    BY <1>5 DEF DoesMatch, DoesMatchTimes
  <2>5. F.since \in Nat /\ F.until \in Nat /\ EventAt[n].created \in Nat
    BY EventType DEF FilterOK
  <2>6. EventAt[n].created >= F.since /\ EventAt[n].created <= F.until
    BY <2>4, <2>5
  <2> HIDE DEF rs
  <2>7. Rec(key, n) \in Takes(i, pos)
    BY <2>1, <2>2, <2>3, <2>6 DEF Takes, rs
  <2> QED BY <2>2, <2>7
<1> HIDE DEF found, rs
<1>6. found \in SUBSET Positions /\ IsFiniteSet(found)
  BY <1>3, <1>4, FS_Subset
<1>7. /\ all \in Seq(found) /\ Len(all) \in Nat
      /\ \A k, j \in 1..Len(all) : k < j => RecordLess(all[j], all[k])
      /\ \A x \in found : \E k \in 1..Len(all) : all[k] = x
  BY <1>6, RecordsSorted
<1>8. new = IF Len(all) < limit THEN Inactive ELSE Resume(taken)
  BY DEF NextPos
<1> HIDE DEF all, new
<1>9. m \in 0..Len(all) /\ (Len(all) < limit => m = Len(all)) /\ (~(Len(all) < limit) => m = limit /\ m > 0)
  BY <1>7
<1> HIDE DEF m
<1>10. /\ Len(taken) = m /\ DOMAIN taken = 1..m
       /\ \A k \in 1..m : taken[k] = all[k] /\ all[k] \in found /\ k \in 1..Len(all)
  BY <1>7, <1>9
<1> HIDE DEF taken
<1> DEFINE lev(k) == all[k].levId
<1>11. ASSUME NEW k \in 1..m
       PROVE  /\ lev(k) \in db /\ lev(k) \in DOMAIN EventAt /\ all[k] = Rec(key, lev(k))
              /\ key \in IndexKeys(IndexOf(F), EventAt[lev(k)]) /\ Ahead(pos, Rec(key, lev(k)))
              /\ out[k] = Cand(i, lev(k)) /\ Cand(i, lev(k)) \in Cands
  <2>1. all[k] \in found /\ taken[k] = all[k]
    BY <1>10
  <2>2. all[k] \in rs /\ all[k].key = key /\ Ahead(pos, all[k])
    BY <1>4, <2>1
  <2>3. /\ lev(k) \in db /\ all[k] = Rec(key, lev(k))
        /\ key \in IndexKeys(IndexOf(F), EventAt[lev(k)])
    BY <1>3, <2>2
  <2>4. all[k].created = EventAt[lev(k)].created
    BY <2>3 DEF Rec
  <2>5. lev(k) \in DOMAIN EventAt
    BY <2>3
  <2>6. out[k] = Candidate(all[k].levId, all[k].created, i)
    BY <1>10, <2>1
  <2>7. out[k] = Cand(i, lev(k))
    BY <2>4, <2>6 DEF Cand
  <2>8. Cand(i, lev(k)) \in Cands
    BY <2>5, CandOf
  <2> QED BY <2>2, <2>3, <2>5, <2>7, <2>8
<1>12. DOMAIN out = 1..m /\ out = [k \in 1..m |-> out[k]] /\ m \in Nat
  BY <1>7, <1>9, <1>10
<1> HIDE DEF out
<1>13. out \in Seq(Cands) /\ Len(out) = m
  BY <1>11, <1>12
<1>14. ASSUME NEW j \in 1..m, NEW k \in 1..m, j < k
       PROVE  Newer(lev(j), lev(k))
  <2>1. RecordLess(all[k], all[j])
    BY <1>7, <1>10, <1>14
  <2>2. RecordLess(Rec(key, lev(k)), Rec(key, lev(j)))
    BY <1>11, <2>1
  <2>3. lev(k) \in DOMAIN EventAt /\ lev(j) \in DOMAIN EventAt
    BY <1>11
  <2> HIDE DEF lev
  <2> QED BY <1>2, <2>2, <2>3, RecOrder
<1>15. IsInjective(out) /\ InOrder(out)
  <2>1. ASSUME NEW j \in 1..m, NEW k \in 1..m, j < k
        PROVE  out[j] # out[k] /\ ~Cmp(out[k], out[j])
    <3>1. /\ out[j] = Cand(i, lev(j)) /\ out[k] = Cand(i, lev(k))
          /\ lev(k) \in DOMAIN EventAt /\ lev(j) \in DOMAIN EventAt
      BY <1>11
    <3>2. Newer(lev(j), lev(k))
      BY <1>14, <2>1
    <3> HIDE DEF lev
    <3>3. ~Newer(lev(k), lev(j)) /\ lev(j) # lev(k)
      BY <3>1, <3>2, NewerOrder
    <3>4. out[j].levId = lev(j) /\ out[k].levId = lev(k)
      BY <3>1, CandOf
    <3>5. ~Cmp(out[k], out[j])
      BY <3>1, <3>3, CmpIsNewer
    <3> QED BY <3>3, <3>4, <3>5
  <2>2. InOrder(out)
    BY <1>12, <2>1 DEF InOrder
  <2>3. IsInjective(out)
    BY <1>12, <2>1 DEF IsInjective
  <2> QED BY <2>2, <2>3
<1>16. ASSUME NEW c \in Range(out)
       PROVE  \E n \in db : /\ c = Cand(i, n) /\ Ahead(pos, Rec(key, n))
                            /\ key \in IndexKeys(IndexOf(F), EventAt[n])
  <2>1. PICK k \in 1..m : c = out[k]
    BY <1>12 DEF Range
  <2> HIDE DEF lev
  <2> QED BY <1>11, <2>1
<1> DEFINE last == taken[Len(taken)]
<1>17. \/ Resume(taken) = Inactive /\ \A r \in rs : ~RecordLess(r, last)
       \/ /\ Resume(taken) \in rs /\ RecordLess(Resume(taken), last)
          /\ \A r \in rs : RecordLess(r, last) => r = Resume(taken) \/ RecordLess(r, Resume(taken))
  BY <1>3, ResumeExact DEF rs
<1>18. m > 0 => last = all[m] /\ m \in 1..m
  BY <1>10, <1>12
<1> HIDE DEF last
<1>19. CursorType(Collect(i, limit).cursor)
  <2>1. new \in Positions /\ (new = Inactive \/ new.key \in Nat)
    <3>1. Inactive \in Positions
      BY DEF Inactive, Positions
    <3> QED BY <1>3, <1>8, <1>17, <3>1
  <2>2. cursors[i].outstanding + Len(taken) \in Nat
    BY <1>2, <1>10, <1>12
  <2> QED BY <1>1, <1>2, <2>1, <2>2 DEF CursorType
<1>20. ASSUME new # Inactive
       PROVE  /\ m > 0
              /\ \A n \in DOMAIN EventAt : Cand(i, n) \in Range(out) => RecordLess(new, Rec(key, n))
  <2>1. ~(Len(all) < limit) /\ new = Resume(taken) /\ m > 0
    BY <1>8, <1>9, <1>20
  <2>2. new \in rs /\ RecordLess(new, all[m])
    BY <1>17, <1>18, <1>20, <2>1
  <2>3. ASSUME NEW n \in DOMAIN EventAt, Cand(i, n) \in Range(out) PROVE RecordLess(new, Rec(key, n))
    <3>1. PICK k \in 1..m : Cand(i, n) = out[k]
      BY <1>12, <2>3 DEF Range
    <3>2. out[k] = Cand(i, lev(k)) /\ lev(k) \in DOMAIN EventAt /\ all[k] = Rec(key, lev(k))
      BY <1>11
    <3>3. n = lev(k)
      <4> HIDE DEF lev
      <4>1. Cand(i, n).levId = n /\ Cand(i, lev(k)).levId = lev(k)
        BY <3>2, CandOf
      <4> QED BY <3>1, <3>2, <4>1
    <3>4. all[k] = Rec(key, n)
      BY <3>2, <3>3
    <3>5. k = m \/ RecordLess(all[m], all[k])
      <4>1. k = m \/ k < m
        BY <1>12
      <4>2. k \in 1..Len(all) /\ m \in 1..Len(all)
        BY <1>10, <1>18, <2>1
      <4> QED BY <1>7, <4>1, <4>2
    <3>6. new \in Positions /\ all[m] \in Positions /\ all[k] \in Positions
      BY <1>3, <1>6, <1>10, <1>18, <2>1, <2>2
    <3>7. RecordLess(new, all[k])
      BY <2>2, <3>5, <3>6, RecordOrder
    <3> QED BY <3>4, <3>7
  <2> QED BY <2>1, <2>3
<1>21. ASSUME NEW n \in db, key \in IndexKeys(IndexOf(F), EventAt[n]), DoesMatch(F, EventAt[n]),
              Ahead(pos, Rec(key, n))
       PROVE  Cand(i, n) \in Range(out) \/ Ahead(new, Rec(key, n))
  <2>1. Rec(key, n) \in found
    BY <1>5, <1>21
  <2>2. PICK k \in 1..Len(all) : all[k] = Rec(key, n)
    BY <1>7, <2>1
  <2>3. CASE k \in 1..m
    <3>1. out[k] = Cand(i, lev(k)) /\ lev(k) = n
      BY <1>11, <2>2, <2>3 DEF Rec
    <3>2. out[k] \in Range(out)
      BY <1>12, <2>3 DEF Range
    <3> QED BY <3>1, <3>2
  <2>4. CASE k \notin 1..m
    <3>1. m < k /\ ~(Len(all) < limit) /\ m > 0 /\ m \in 1..Len(all)
      BY <1>7, <1>9, <2>4
    <3>2. RecordLess(Rec(key, n), last) /\ new = Resume(taken)
      BY <1>7, <1>8, <1>18, <2>2, <3>1
    <3>3. Rec(key, n) \in rs
      BY <1>4, <2>1
    <3>4. new \in rs /\ (Rec(key, n) = new \/ RecordLess(Rec(key, n), new))
      BY <1>17, <3>2, <3>3
    <3>5. new.key \in Nat
      BY <1>3, <3>4
    <3>6. new # Inactive
      BY <3>5 DEF Inactive
    <3> QED BY <3>4, <3>6 DEF Ahead
  <2> QED BY <2>3, <2>4
<1>22. /\ Collect(i, limit).cursor.key = key /\ Collect(i, limit).cursor.pos = new
       /\ Collect(i, limit).cursor.outstanding = cursors[i].outstanding + Len(out)
  BY <1>1, <1>10, <1>13
<1> HIDE DEF key, pos
<1> QED BY <1>1, <1>13, <1>15, <1>16, <1>19, <1>20, <1>21, <1>22 DEF key, pos

-----------------------------------------------------------------------------
(* What the invariant says *)

\* Constants and filters of a query that is running.
LEMMA Running ==
  ASSUME ScanInv, pc # "complete"
  PROVE  /\ FilterOK(F) /\ db \in SUBSET (DOMAIN EventAt)
         /\ DOMAIN EventAt = 1..Len(EventAt) /\ Len(EventAt) \in Nat
         /\ StartLevId \in DOMAIN EventAt /\ 1..StartLevId \subseteq DOMAIN EventAt
<1>1. group \in Groups /\ filter \in DOMAIN group /\ written \in StartLevId..Len(EventAt)
      /\ db \subseteq 1..written
  BY DEF ScanInv
<1>2. DOMAIN EventAt = 1..Len(EventAt) /\ Len(EventAt) \in Nat /\ StartLevId \in DOMAIN EventAt
  BY ScanAssumption
<1>3. FilterOK(F)
  BY <1>1, ScanAssumption DEF F
<1> QED BY <1>1, <1>2, <1>3

\* A record ahead of a cursor is older than one behind it.
LEMMA BehindAhead ==
  ASSUME NEW cur, CursorType(cur), NEW m \in DOMAIN EventAt, NEW n \in DOMAIN EventAt,
         Ahead(cur.pos, Rec(cur.key, n)), RecordLess(cur.pos, Rec(cur.key, m))
  PROVE  Newer(m, n)
<1>1. cur.pos \in Positions /\ cur.key \in Nat /\ cur.key \in Int
  BY DEF CursorType
<1>2. Rec(cur.key, n) \in Positions /\ Rec(cur.key, m) \in Positions
  BY <1>1, RecOrder
<1>3. RecordLess(Rec(cur.key, n), Rec(cur.key, m))
  BY <1>1, <1>2, RecordOrder DEF Ahead
<1> QED BY <1>1, <1>3, RecOrder

\* A matching event that was not handed over has a candidate in the queue that is
\* as new as it: its own, or one of the cursor that has it ahead.
LEMMA Pending ==
  ASSUME Scanning, FilterOK(F), db \in SUBSET (DOMAIN EventAt), nextInit \notin DOMAIN cursors,
         NEW n \in Eligible \ Range(order)
  PROVE  \E c \in Range(queue) : c.levId \in DOMAIN EventAt /\ (c.levId = n \/ Newer(c.levId, n))
<1>1. n \in db /\ n \in DOMAIN EventAt /\ n <= StartLevId /\ DoesMatch(F, EventAt[n]) /\ n \notin Range(order)
  BY DEF Eligible
<1>2. EventOK(EventAt[n])
  BY <1>1, EventType
<1>3. PICK k \in SearchKeys(F) : k \in IndexKeys(IndexOf(F), EventAt[n])
  BY <1>1, <1>2, MatchHasKey
<1>4. /\ {cursors[i].key : i \in DOMAIN cursors} = SearchKeys(F)
      /\ nextInit \in 1..(Len(cursors) + 1) /\ Len(cursors) \in Nat /\ DOMAIN cursors = 1..Len(cursors)
      /\ \A i \in DOMAIN cursors : CursorInv(i, cursors[i], Range(queue), F, db, Range(order))
      /\ \A i \in 1..(nextInit - 1) : cursors[i].pos # Inactive => cursors[i].outstanding > 0
      /\ QueueInv(queue, nextInit - 1)
  BY DEF Scanning
<1>5. PICK i \in DOMAIN cursors : cursors[i].key = k
  BY <1>4
<1>6. i \in Nat /\ i \in 1..(nextInit - 1)
  BY <1>4
<1> DEFINE cur == cursors[i]
<1>7. CursorInv(i, cur, Range(queue), F, db, Range(order))
  BY <1>4
<1>8. cur.key \in IndexKeys(IndexOf(F), EventAt[n])
  BY <1>3, <1>5
<1>9. /\ CursorType(cur) /\ cur.outstanding = Cardinality(Of(Range(queue), i))
      /\ cur.pos # Inactive => cur.outstanding > 0
  BY <1>4, <1>6, <1>7 DEF CursorInv
<1> HIDE DEF cur
<1>10. Ahead(cur.pos, Rec(cur.key, n)) \/ Cand(i, n) \in Range(queue)
  BY <1>1, <1>7, <1>8 DEF CursorInv
<1>11. CASE Cand(i, n) \in Range(queue)
  BY <1>1, <1>6, <1>11, CandOf
<1>12. CASE Ahead(cur.pos, Rec(cur.key, n))
  <2>1. cur.pos # Inactive
    BY <1>12 DEF Ahead
  <2>2. Of(Range(queue), i) # {}
    <3>1. Cardinality({}) = 0
      BY FS_EmptySet
    <3>2. cur.outstanding > 0
      BY <1>9, <2>1
    <3> QED BY <1>9, <3>1, <3>2
  <2>3. PICK c \in Range(queue) : ScanIndexOf(c) = i
    BY <2>2 DEF Of
  <2>4. PICK j \in 1..(nextInit - 1), m \in DOMAIN EventAt : c = Cand(j, m)
    BY <1>4 DEF QueueInv
  <2>5. j \in Nat
    OBVIOUS
  <2>6. j = i /\ c.levId = m
    BY <2>3, <2>4, <2>5, CandOf
  <2>7. RecordLess(cur.pos, Rec(cur.key, m))
    BY <1>7, <2>1, <2>4, <2>6 DEF CursorInv
  <2>8. Newer(m, n)
    BY <1>1, <1>9, <1>12, <2>7, BehindAhead
  <2> QED BY <2>4, <2>6, <2>8
<1> QED BY <1>10, <1>11, <1>12

\* So what was handed over is newer than what was not.
LEMMA HandedOver ==
  ASSUME Scanning, FilterOK(F), db \in SUBSET (DOMAIN EventAt), nextInit \notin DOMAIN cursors,
         1..StartLevId \subseteq DOMAIN EventAt,
         NEW ids, OrderInv(ids, Range(queue), F), Range(order) \subseteq Range(ids),
         NEW n \in Eligible \ Range(ids), NEW k \in DOMAIN ids
  PROVE  Newer(ids[k], n)
<1>1. n \in Eligible \ Range(order) /\ n \in DOMAIN EventAt
  BY DEF Eligible
<1>2. PICK c \in Range(queue) : c.levId \in DOMAIN EventAt /\ (c.levId = n \/ Newer(c.levId, n))
  BY <1>1, Pending
<1>3. ids[k] \in 1..StartLevId /\ ~Newer(c.levId, ids[k])
  <2> DEFINE T == 1..StartLevId
  <2>1. ids \in Seq(T) /\ ~Newer(c.levId, ids[k])
    BY DEF OrderInv
  <2> HIDE DEF T
  <2>2. ids[k] \in T
    BY <2>1
  <2> QED BY <2>1, <2>2 DEF T
<1>4. ids[k] \in DOMAIN EventAt /\ ids[k] # n
  BY <1>3 DEF Range
<1> QED BY <1>1, <1>2, <1>3, <1>4, NewerOrder

\* NewestFirst while the scan goes on.
LEMMA ScanningNewest ==
  ASSUME ScanInv
  PROVE  NewestFirst
<1> SUFFICES ASSUME pc \in {"scan", "paused"} PROVE NewestFirst
  BY DEF ScanInv, NewestFirst
<1>1. /\ FilterOK(F) /\ db \in SUBSET (DOMAIN EventAt) /\ 1..StartLevId \subseteq DOMAIN EventAt
  BY Running
<1>2. Scanning
  BY DEF ScanInv
<1>3. OrderInv(order, Range(queue), F) /\ (nextInit \in DOMAIN cursors => order = <<>>)
  BY <1>2 DEF Scanning
<1>4. /\ \A i, j \in DOMAIN order : i < j => Newer(order[i], order[j])
      /\ \A i \in DOMAIN order : DoesMatch(F, EventAt[order[i]])
  BY <1>3 DEF OrderInv
<1>5. ASSUME NEW n \in Eligible \ Range(order), NEW i \in DOMAIN order PROVE Newer(order[i], n)
  <2>1. nextInit \notin DOMAIN cursors
    BY <1>3
  <2> QED BY <1>1, <1>2, <1>3, <2>1, HandedOver
<1>6. pc # "filterDone"
  OBVIOUS
<1> QED BY <1>4, <1>5, <1>6 DEF NewestFirst

\* OutstandingExact.
LEMMA ScanningOutstanding ==
  ASSUME ScanInv
  PROVE  OutstandingExact
<1> SUFFICES ASSUME pc \in {"scan", "paused"}, NEW i \in DOMAIN cursors
             PROVE  /\ cursors[i].outstanding
                         = Cardinality({k \in DOMAIN queue : ScanIndexOf(queue[k]) = i})
                    /\ nextInit > i /\ cursors[i].pos # Inactive => cursors[i].outstanding > 0
  BY DEF OutstandingExact
<1>1. Scanning
  BY DEF ScanInv
<1>2. /\ cursors[i].outstanding = Cardinality(Of(Range(queue), i))
      /\ queue \in Seq(Cands) /\ IsInjective(queue)
      /\ Len(cursors) \in Nat /\ DOMAIN cursors = 1..Len(cursors) /\ nextInit \in 1..(Len(cursors) + 1)
      /\ \A j \in 1..(nextInit - 1) : cursors[j].pos # Inactive => cursors[j].outstanding > 0
  BY <1>1 DEF Scanning, CursorInv, QueueInv
<1>3. cursors[i].outstanding = Cardinality({k \in DOMAIN queue : ScanIndexOf(queue[k]) = i})
  BY <1>2, Counted
<1>4. nextInit > i => i \in 1..(nextInit - 1)
  BY <1>2
<1> QED BY <1>2, <1>3, <1>4

-----------------------------------------------------------------------------
(* Cursors that change and cursors that do not *)

\* A candidate of cursor i is one of the candidates of cursor i.
LEMMA OfCand ==
  ASSUME NEW q, NEW i \in Nat, NEW n \in DOMAIN EventAt
  PROVE  Cand(i, n) \in q <=> Cand(i, n) \in Of(q, i)
<1>1. ScanIndexOf(Cand(i, n)) = i
  BY CandOf
<1> QED BY <1>1 DEF Of

\* A cursor none of whose candidates comes or goes keeps its invariant, when
\* events are handed over, removed, or written after the query began.
LEMMA CursorKept ==
  ASSUME NEW i \in Nat, NEW cur, NEW q, NEW f, NEW d \in SUBSET (DOMAIN EventAt), NEW ids,
         CursorInv(i, cur, q, f, d, ids),
         NEW q2, Of(q2, i) = Of(q, i),
         NEW d2, \A n \in d2 : n <= StartLevId => n \in d,
         NEW ids2, ids \subseteq ids2
  PROVE  CursorInv(i, cur, q2, f, d2, ids2)
<1>1. \A n \in DOMAIN EventAt : Cand(i, n) \in q2 <=> Cand(i, n) \in q
  BY OfCand
<1>2. /\ CursorType(cur) /\ cur.outstanding = Cardinality(Of(q2, i))
      /\ \A n \in DOMAIN EventAt : Cand(i, n) \in q2 =>
           /\ cur.key \in IndexKeys(IndexOf(f), EventAt[n])
           /\ cur.pos # Inactive => RecordLess(cur.pos, Rec(cur.key, n))
  BY <1>1 DEF CursorInv
<1>3. ASSUME NEW n \in d2, n <= StartLevId, DoesMatch(f, EventAt[n]),
             cur.key \in IndexKeys(IndexOf(f), EventAt[n])
      PROVE  Ahead(cur.pos, Rec(cur.key, n)) \/ Cand(i, n) \in q2 \/ n \in ids2
  <2>1. n \in d /\ n \in DOMAIN EventAt
    BY <1>3
  <2>2. Ahead(cur.pos, Rec(cur.key, n)) \/ Cand(i, n) \in q \/ n \in ids
    BY <1>3, <2>1 DEF CursorInv
  <2> QED BY <1>1, <2>1, <2>2
<1> QED BY <1>2, <1>3 DEF CursorInv

\* A cursor that collects when none of its candidates is queued.
LEMMA CursorCollected ==
  ASSUME db \in SUBSET (DOMAIN EventAt), FilterOK(F), scanner.index = IndexOf(F),
         NEW i \in Nat, CursorType(cursors[i]), NEW limit \in Nat \ {0},
         NEW q, Of(q, i) = {}, NEW ids, NEW cur,
         cur = [key |-> cursors[i].key, pos |-> Collect(i, limit).cursor.pos,
                outstanding |-> Len(Collect(i, limit).output)],
         \A n \in db : n <= StartLevId /\ DoesMatch(F, EventAt[n])
                       /\ cursors[i].key \in IndexKeys(IndexOf(F), EventAt[n]) =>
           Ahead(cursors[i].pos, Rec(cursors[i].key, n)) \/ n \in ids
  PROVE  /\ CursorInv(i, cur, q \cup Range(Collect(i, limit).output), F, db, ids)
         /\ cur.pos # Inactive => cur.outstanding > 0
<1> DEFINE out == Collect(i, limit).output
           new == Collect(i, limit).cursor
           old == cursors[i]
           q2 == q \cup Range(out)
<1>1. /\ out \in Seq(Cands) /\ IsInjective(out)
      /\ CursorType(new) /\ new.key = old.key
      /\ \A c \in Range(out) : \E n \in db :
           /\ c = Cand(i, n) /\ Ahead(old.pos, Rec(old.key, n))
           /\ old.key \in IndexKeys(IndexOf(F), EventAt[n])
      /\ new.pos # Inactive =>
           /\ Len(out) > 0
           /\ \A n \in DOMAIN EventAt :
                Cand(i, n) \in Range(out) => RecordLess(new.pos, Rec(old.key, n))
      /\ \A n \in db :
           /\ old.key \in IndexKeys(IndexOf(F), EventAt[n]) /\ DoesMatch(F, EventAt[n])
           /\ Ahead(old.pos, Rec(old.key, n))
           => Cand(i, n) \in Range(out) \/ Ahead(new.pos, Rec(old.key, n))
  BY CollectExact
<1>2. cur.key = old.key /\ cur.pos = new.pos /\ cur.outstanding = Len(out) /\ Len(out) \in Nat
  <2>1. out \in Seq(Cands)
    BY <1>1
  <2> HIDE DEF out, new, old
  <2>2. cur = [key |-> old.key, pos |-> new.pos, outstanding |-> Len(out)]
    BY DEF out, new, old
  <2> QED BY <2>1, <2>2
<1>3. CursorType(cur)
  <2>1. old.key \in Nat /\ new.pos \in Positions /\ (new.pos = Inactive \/ new.pos.key \in Nat)
    BY <1>1 DEF CursorType
  <2>2. cur = [key |-> old.key, pos |-> new.pos, outstanding |-> Len(out)]
    OBVIOUS
  <2> HIDE DEF out, new, old
  <2> QED BY <1>2, <2>1, <2>2 DEF CursorType
<1> HIDE DEF out, new, old
<1>4. \A c \in Range(out) : ScanIndexOf(c) = i
  BY <1>1, CandOf
<1>5. Of(q2, i) = Range(out)
  BY <1>4 DEF Of
<1>6. cur.outstanding = Cardinality(Of(q2, i))
  BY <1>1, <1>2, <1>5, RangeCount
<1>7. \A n \in DOMAIN EventAt : Cand(i, n) \in q2 <=> Cand(i, n) \in Range(out)
  <2> HIDE DEF q2
  <2> QED BY <1>5, OfCand
<1>8. ASSUME NEW n \in DOMAIN EventAt, Cand(i, n) \in q2
      PROVE  /\ cur.key \in IndexKeys(IndexOf(F), EventAt[n])
             /\ cur.pos # Inactive => RecordLess(cur.pos, Rec(cur.key, n))
  <2>1. Cand(i, n) \in Range(out)
    BY <1>7, <1>8
  <2>2. PICK m \in db : Cand(i, n) = Cand(i, m) /\ old.key \in IndexKeys(IndexOf(F), EventAt[m])
    BY <1>1, <2>1
  <2>3. m = n
    <3>1. Cand(i, n).levId = n /\ Cand(i, m).levId = m
      BY CandOf
    <3> QED BY <2>2, <3>1
  <2> QED BY <1>1, <1>2, <2>1, <2>2, <2>3
<1>9. ASSUME NEW n \in db, n <= StartLevId, DoesMatch(F, EventAt[n]),
             cur.key \in IndexKeys(IndexOf(F), EventAt[n])
      PROVE  Ahead(cur.pos, Rec(cur.key, n)) \/ Cand(i, n) \in q2 \/ n \in ids
  <2>1. Ahead(old.pos, Rec(old.key, n)) \/ n \in ids
    BY <1>2, <1>9 DEF old
  <2>2. CASE Ahead(old.pos, Rec(old.key, n))
    BY <1>1, <1>2, <1>9, <2>2
  <2> QED BY <2>1, <2>2
<1>10. CursorInv(i, cur, q2, F, db, ids)
  <2> HIDE DEF q2
  <2> QED BY <1>3, <1>6, <1>8, <1>9 DEF CursorInv
<1>11. cur.pos # Inactive => cur.outstanding > 0
  BY <1>1, <1>2
<1> QED BY <1>10, <1>11 DEF out

-----------------------------------------------------------------------------
(* The invariant is kept *)

\* A query begins without having looked at anything.
LEMMA InitScan ==
  ASSUME Init
  PROVE  ScanInv
<1>1. StartLevId \in 1..Len(EventAt) /\ Len(EventAt) \in Nat
  BY ScanAssumption
<1>2. group \in Groups /\ written = StartLevId /\ db \subseteq 1..StartLevId
      /\ filter = 1 /\ order = <<>> /\ pc = IF group = <<>> THEN "complete" ELSE "filter"
  BY DEF Init
<1>3. group # <<>> => filter \in DOMAIN group
  <2>1. group \in Seq(Range(group))
    BY <1>2, ScanAssumption
  <2> QED BY <1>2, <2>1
<1> QED BY <1>1, <1>2, <1>3 DEF ScanInv

\* Every cursor starts behind all records of its key.
LEMMA StartFilterScan ==
  ASSUME ScanInv, StartFilter
  PROVE  ScanInv'
<1> DEFINE keys == Searches(F)
           start(k) == [key |-> k, pos |-> StartPos(k), outstanding |-> 0]
<1>1. /\ pc = "filter" /\ pc' = "scan" /\ UNCHANGED <<group, db, written, filter, order>>
      /\ scanner' = [index |-> IndexOf(F), indexOnly |-> IndexOnly(F)]
      /\ cursors' = [i \in DOMAIN keys |-> start(keys[i])] /\ queue' = <<>> /\ nextInit' = 1
  BY DEF StartFilter
<1>2. FilterOK(F) /\ db \in SUBSET (DOMAIN EventAt) /\ F' = F /\ order = <<>> /\ Len(EventAt) \in Nat
  BY <1>1, Running DEF F, ScanInv
<1>3. /\ Len(keys) \in Nat /\ DOMAIN keys = 1..Len(keys)
      /\ \A i \in DOMAIN keys : keys[i] \in SearchKeys(F)
      /\ \A k \in SearchKeys(F) : \E i \in DOMAIN keys : keys[i] = k
  BY <1>2, SearchesOf
<1>4. SearchKeys(F) \in SUBSET Nat
  BY <1>2, SearchKeysType
<1> HIDE DEF keys
<1>5. /\ Len(cursors') = Len(keys) /\ DOMAIN cursors' = 1..Len(keys)
      /\ \A i \in DOMAIN cursors' : cursors'[i] = start(keys[i]) /\ cursors'[i].key = keys[i]
  <2>1. DOMAIN cursors' = 1..Len(keys) /\ \A i \in DOMAIN cursors' : cursors'[i] = start(keys[i])
    BY <1>1, <1>3
  <2>2. \A k : start(k).key = k
    OBVIOUS
  <2> HIDE DEF start
  <2>3. Len(cursors') = Len(keys)
    BY <1>1, <1>3
  <2> QED BY <2>1, <2>2, <2>3
<1>6. {cursors'[i].key : i \in DOMAIN cursors'} = SearchKeys(F)
  BY <1>3, <1>5
<1>7. Range(<<>>) = {}
  BY DEF Range
<1>8. ASSUME NEW k \in SearchKeys(F), NEW i
      PROVE  CursorInv(i, start(k), {}, F, db, {})
  <2>1. k \in Nat /\ CreatedLimit \in Nat
    BY <1>4, ScanAssumption
  <2>2. StartPos(k) \in Positions /\ StartPos(k).key = k /\ StartPos(k) # Inactive
    BY <1>2, <2>1 DEF StartPos, Positions, Inactive
  <2>3. start(k).key = k /\ start(k).pos = StartPos(k) /\ start(k).outstanding = 0
    OBVIOUS
  <2>4. CursorType(start(k))
    BY <2>1, <2>2 DEF CursorType
  <2> HIDE DEF start
  <2>5. Cardinality(Of({}, i)) = 0
    <3>1. Of({}, i) = {}
      BY DEF Of
    <3> QED BY <3>1, FS_EmptySet
  <2>6. ASSUME NEW n \in db PROVE Ahead(StartPos(k), Rec(k, n))
    <3>1. EventAt[n].created \in 0..(CreatedLimit - 1)
      BY <1>2, EventType
    <3>2. EventAt[n].created < CreatedLimit
      BY <2>1, <3>1
    <3>3. RecordLess(Rec(k, n), StartPos(k))
      BY <3>2 DEF RecordLess, Rec, StartPos
    <3> QED BY <2>2, <3>3 DEF Ahead
  <2> QED BY <2>3, <2>4, <2>5, <2>6 DEF CursorInv
<1> HIDE DEF start
<1>9. \A i \in DOMAIN cursors' : CursorInv(i, cursors'[i], Range(queue'), F, db, Range(order'))
  BY <1>1, <1>2, <1>3, <1>5, <1>7, <1>8
<1>10. QueueInv(queue', nextInit' - 1)
  <2>1. <<>> \in Seq(Cands) /\ IsInjective(<<>>)
    BY DEF IsInjective
  <2> QED BY <1>1, <1>7, <2>1 DEF QueueInv
<1>11. OrderInv(order', Range(queue'), F)
  BY <1>1, <1>2 DEF OrderInv
<1>12. InOrder(queue')
  BY <1>1 DEF InOrder
<1>13. IF F.limit = 0 THEN order' = <<>> ELSE Len(order') < F.limit
  <2>1. F.limit \in Nat
    BY <1>2 DEF FilterOK
  <2> QED BY <1>1, <1>2, <2>1
<1>14. nextInit' \in 1..(Len(cursors') + 1) /\ (1..(nextInit' - 1)) = {}
  BY <1>1, <1>3, <1>5
<1>15. Scanning'
  BY <1>1, <1>2, <1>3, <1>5, <1>6, <1>9, <1>10, <1>11, <1>12, <1>13, <1>14 DEF Scanning
<1> QED BY <1>1, <1>15 DEF ScanInv

\* What holds in a scan that goes on with the same filter.
LEMMA ScanGoesOn ==
  ASSUME ScanInv, pc \in {"scan", "paused"}
  PROVE  /\ Scanning /\ FilterOK(F) /\ db \in SUBSET (DOMAIN EventAt)
         /\ DOMAIN EventAt = 1..Len(EventAt) /\ Len(EventAt) \in Nat
         /\ scanner.index = IndexOf(F) /\ scanner.indexOnly = IndexOnly(F)
         /\ Len(cursors) \in Nat /\ DOMAIN cursors = 1..Len(cursors)
         /\ nextInit \in 1..(Len(cursors) + 1)
         /\ \A i \in DOMAIN cursors :
              i \in Nat /\ CursorInv(i, cursors[i], Range(queue), F, db, Range(order))
         /\ queue \in Seq(Cands) /\ IsInjective(queue) /\ QueueInv(queue, nextInit - 1)
         /\ InitialScanDepth \in Nat \ {0} /\ RefillScanDepth \in Nat \ {0}
<1>1. Scanning
  BY DEF ScanInv
<1>2. FilterOK(F) /\ db \in SUBSET (DOMAIN EventAt)
      /\ DOMAIN EventAt = 1..Len(EventAt) /\ Len(EventAt) \in Nat
  BY Running
<1>3. InitialScanDepth \in Nat \ {0} /\ RefillScanDepth \in Nat \ {0}
  BY ScanAssumption
<1>4. /\ scanner = [index |-> IndexOf(F), indexOnly |-> IndexOnly(F)]
      /\ Len(cursors) \in Nat /\ DOMAIN cursors = 1..Len(cursors)
      /\ nextInit \in 1..(Len(cursors) + 1)
      /\ \A i \in DOMAIN cursors : CursorInv(i, cursors[i], Range(queue), F, db, Range(order))
      /\ QueueInv(queue, nextInit - 1)
  BY <1>1 DEF Scanning
<1>5. queue \in Seq(Cands) /\ IsInjective(queue)
  BY <1>4 DEF QueueInv
<1>6. \A i \in DOMAIN cursors : i \in Nat
  BY <1>4
<1>7. scanner.index = IndexOf(F) /\ scanner.indexOnly = IndexOnly(F)
  BY <1>4
<1> QED BY <1>1, <1>2, <1>3, <1>4, <1>5, <1>6, <1>7

\* The first collection of a cursor.
LEMMA InitCursorScan ==
  ASSUME ScanInv, InitCursor
  PROVE  ScanInv'
<1> DEFINE i == nextInit
           c == Collect(nextInit, InitialScanDepth)
           q == queue \o c.output
           out == c.output
<1>1. /\ pc = "scan" /\ i \in DOMAIN cursors /\ nextInit' = i + 1
      /\ cursors' = [cursors EXCEPT ![nextInit] = c.cursor]
      /\ queue' = IF nextInit = Len(cursors) THEN Sort(q) ELSE q
      /\ UNCHANGED <<group, db, written, pc, filter, scanner, order>>
  BY DEF InitCursor
<1>2. /\ Scanning /\ FilterOK(F) /\ db \in SUBSET (DOMAIN EventAt)
      /\ scanner.index = IndexOf(F)
      /\ Len(cursors) \in Nat /\ DOMAIN cursors = 1..Len(cursors)
      /\ i \in Nat /\ CursorInv(i, cursors[i], Range(queue), F, db, Range(order))
      /\ \A j \in DOMAIN cursors :
           j \in Nat /\ CursorInv(j, cursors[j], Range(queue), F, db, Range(order))
      /\ queue \in Seq(Cands) /\ IsInjective(queue) /\ QueueInv(queue, i - 1)
      /\ InitialScanDepth \in Nat \ {0}
  BY <1>1, ScanGoesOn
<1>3. F' = F
  BY <1>1 DEF F
<1>4. CursorType(cursors[i]) /\ cursors[i].outstanding = Cardinality(Of(Range(queue), i))
  BY <1>2 DEF CursorInv
<1>5. Of(Range(queue), i) = {}
  <2> SUFFICES ASSUME NEW x \in Range(queue), ScanIndexOf(x) = i PROVE FALSE
    BY DEF Of
  <2>1. PICK j \in 1..(i - 1), n \in DOMAIN EventAt : x = Cand(j, n)
    BY <1>2 DEF QueueInv
  <2>2. j \in Nat /\ j # i
    BY <1>2
  <2> HIDE DEF i
  <2> QED BY <2>1, <2>2, CandOf
<1>6. cursors[i].outstanding = 0
  BY <1>4, <1>5, FS_EmptySet
<1>7. /\ out \in Seq(Cands) /\ IsInjective(out)
      /\ CursorType(c.cursor) /\ c.cursor.key = cursors[i].key
      /\ c.cursor.outstanding = cursors[i].outstanding + Len(out)
      /\ \A x \in Range(out) : \E n \in db : x = Cand(i, n)
  BY <1>2, <1>4, CollectExact
<1>8. c.cursor = [key |-> cursors[i].key, pos |-> c.cursor.pos, outstanding |-> Len(out)]
  <2>1. Len(out) \in Nat /\ c.cursor.outstanding = Len(out)
    BY <1>6, <1>7
  <2>2. c.cursor = [key |-> c.cursor.key, pos |-> c.cursor.pos, outstanding |-> c.cursor.outstanding]
    BY <1>7 DEF CursorType
  <2> HIDE DEF c, out
  <2> QED BY <1>7, <2>1, <2>2
<1>9. \A n \in DOMAIN EventAt : Cand(i, n) \notin Range(queue)
  BY <1>2, <1>5, OfCand
<1>10. /\ CursorInv(i, c.cursor, Range(queue) \cup Range(out), F, db, Range(order))
       /\ c.cursor.pos # Inactive => c.cursor.outstanding > 0
  <2>1. \A n \in db : n <= StartLevId /\ DoesMatch(F, EventAt[n])
                      /\ cursors[i].key \in IndexKeys(IndexOf(F), EventAt[n]) =>
          Ahead(cursors[i].pos, Rec(cursors[i].key, n)) \/ n \in Range(order)
    BY <1>2, <1>9 DEF CursorInv
  <2> QED BY <1>2, <1>4, <1>5, <1>8, <2>1, CursorCollected
<1> HIDE DEF c, out
<1>11. \A x \in Range(out) : ScanIndexOf(x) = i
  BY <1>2, <1>7, CandOf
<1>12. Range(queue) \cap Range(out) = {}
  BY <1>5, <1>11 DEF Of
<1>13. q \in Seq(Cands) /\ Range(q) = Range(queue) \cup Range(out) /\ IsInjective(q)
  BY <1>2, <1>7, <1>12, Appended DEF out
<1> HIDE DEF q
<1>14. /\ queue' \in Seq(Cands) /\ IsInjective(queue')
       /\ Range(queue') = Range(queue) \cup Range(out)
       /\ i = Len(cursors) => InOrder(queue')
  BY <1>1, <1>13, SortExact
<1>15. /\ DOMAIN cursors' = DOMAIN cursors /\ Len(cursors') = Len(cursors)
       /\ cursors'[i] = c.cursor /\ \A j \in DOMAIN cursors \ {i} : cursors'[j] = cursors[j]
  BY <1>1, <1>2
<1>16. ASSUME NEW j \in DOMAIN cursors
       PROVE  CursorInv(j, cursors'[j], Range(queue'), F, db, Range(order))
  <2>1. CASE j = i
    BY <1>10, <1>14, <1>15, <2>1
  <2>2. CASE j # i
    <3>1. Of(Range(queue'), j) = Of(Range(queue), j)
      BY <1>11, <1>14, <2>2 DEF Of
    <3>2. cursors'[j] = cursors[j] /\ j \in Nat /\ CursorInv(j, cursors[j], Range(queue), F, db, Range(order))
      BY <1>2, <1>15, <2>2
    <3> QED BY <1>2, <3>1, <3>2, CursorKept
  <2> QED BY <2>1, <2>2
<1>17. \A j \in 1..i : cursors'[j].pos # Inactive => cursors'[j].outstanding > 0
  <2>1. \A j \in 1..(i - 1) : cursors[j].pos # Inactive => cursors[j].outstanding > 0
    BY <1>2 DEF Scanning
  <2> HIDE DEF i
  <2>2. \A j \in 1..i : j = i \/ (j \in 1..(i - 1) /\ j \in DOMAIN cursors \ {i})
    BY <1>1, <1>2
  <2> QED BY <1>10, <1>15, <2>1, <2>2
<1>18. QueueInv(queue', i)
  <2>1. ASSUME NEW x \in Range(queue')
        PROVE  \E j \in 1..i, n \in DOMAIN EventAt : x = Cand(j, n)
    <3>1. CASE x \in Range(queue)
      <4>1. PICK j \in 1..(i - 1), n \in DOMAIN EventAt : x = Cand(j, n)
        BY <1>2, <3>1 DEF QueueInv
      <4>2. j \in 1..i
        BY <1>2
      <4> QED BY <4>1, <4>2
    <3>2. CASE x \in Range(out)
      <4>1. PICK n \in db : x = Cand(i, n)
        BY <1>7, <3>2
      <4>2. i \in 1..i
        BY <1>1, <1>2
      <4> QED BY <1>2, <4>1, <4>2
    <3> QED BY <1>14, <3>1, <3>2
  <2> QED BY <1>14, <2>1 DEF QueueInv
<1>19. order = <<>> /\ {cursors[j].key : j \in DOMAIN cursors} = SearchKeys(F)
       /\ scanner = [index |-> IndexOf(F), indexOnly |-> IndexOnly(F)]
       /\ IF F.limit = 0 THEN order = <<>> ELSE Len(order) < F.limit
  BY <1>1, <1>2 DEF Scanning
<1>20. {cursors'[j].key : j \in DOMAIN cursors'} = SearchKeys(F)
  <2>1. \A j \in DOMAIN cursors : cursors'[j].key = cursors[j].key
    BY <1>7, <1>15
  <2> QED BY <1>15, <1>19, <2>1
<1>21. OrderInv(order', Range(queue'), F)
  BY <1>1, <1>19 DEF OrderInv
<1>22. /\ nextInit' - 1 = i /\ nextInit' \in 1..(Len(cursors) + 1)
       /\ nextInit' \notin DOMAIN cursors => i = Len(cursors)
  BY <1>1, <1>2
<1> HIDE DEF i
<1>23. Scanning'
  BY <1>1, <1>2, <1>3, <1>14, <1>15, <1>16, <1>17, <1>18, <1>19, <1>20, <1>21, <1>22 DEF Scanning
<1> QED BY <1>1, <1>23 DEF ScanInv

\* An empty queue means that every cursor has come to its end.
LEMMA ScanEndsScan ==
  ASSUME ScanInv, ScanEnds
  PROVE  ScanInv'
<1>1. /\ pc = "scan" /\ nextInit \notin DOMAIN cursors /\ queue = <<>> /\ pc' = "filterDone"
      /\ UNCHANGED <<group, db, written, filter, order>>
  BY DEF ScanEnds
<1>2. Scanning /\ FilterOK(F) /\ db \in SUBSET (DOMAIN EventAt)
  BY <1>1, ScanGoesOn
<1>3. Eligible \ Range(order) = {}
  <2> SUFFICES ASSUME NEW n \in Eligible \ Range(order) PROVE FALSE
    OBVIOUS
  <2>1. \E c \in Range(queue) : c.levId \in DOMAIN EventAt /\ (c.levId = n \/ Newer(c.levId, n))
    BY <1>1, <1>2, Pending
  <2> QED BY <1>1, <2>1 DEF Range
<1>4. Eligible' = Eligible /\ F' = F
  BY <1>1 DEF Eligible, F
<1>5. OrderInv(order, Range(queue), F)
  BY <1>2 DEF Scanning
<1>6. NewestFirst'
  BY <1>1, <1>3, <1>4, <1>5 DEF NewestFirst, OrderInv
<1> QED BY <1>1, <1>6 DEF ScanInv

\* The candidate in front belongs to a cursor, which has its record behind it; no
\* candidate is newer.
LEMMA FrontOf ==
  ASSUME ScanInv, pc = "scan", nextInit \notin DOMAIN cursors, queue # <<>>
  PROVE  LET c == Head(queue)
             i == ScanIndexOf(c)
             n == c.levId
         IN  /\ c \in Range(queue) /\ i \in DOMAIN cursors /\ n \in DOMAIN EventAt /\ c = Cand(i, n)
             /\ CreatedOf(c) = EventAt[n].created
             /\ cursors[i].key \in SearchKeys(F)
             /\ cursors[i].key \in IndexKeys(IndexOf(F), EventAt[n])
             /\ cursors[i].pos # Inactive => RecordLess(cursors[i].pos, Rec(cursors[i].key, n))
             /\ \A x \in Range(queue) : x.levId \in DOMAIN EventAt /\ ~Newer(x.levId, n)
<1> DEFINE c == Head(queue)
<1>1. /\ Scanning /\ Len(cursors) \in Nat /\ DOMAIN cursors = 1..Len(cursors)
      /\ nextInit \in 1..(Len(cursors) + 1)
      /\ \A i \in DOMAIN cursors : CursorInv(i, cursors[i], Range(queue), F, db, Range(order))
      /\ queue \in Seq(Cands) /\ IsInjective(queue) /\ QueueInv(queue, nextInit - 1)
  BY ScanGoesOn
<1>2. InOrder(queue) /\ {cursors[j].key : j \in DOMAIN cursors} = SearchKeys(F)
  BY <1>1 DEF Scanning
<1>3. c \in Range(queue) /\ \A x \in Range(queue) : ~Cmp(x, c)
  BY <1>1, <1>2, Popped
<1> HIDE DEF c
<1>4. PICK i \in 1..(nextInit - 1), n \in DOMAIN EventAt : c = Cand(i, n)
  BY <1>1, <1>3 DEF QueueInv
<1>5. i \in Nat /\ i \in DOMAIN cursors
  BY <1>1
<1>6. ScanIndexOf(c) = i /\ c.levId = n /\ CreatedOf(c) = EventAt[n].created
  BY <1>4, <1>5, CandOf
<1>7. /\ cursors[i].key \in IndexKeys(IndexOf(F), EventAt[n])
      /\ cursors[i].pos # Inactive => RecordLess(cursors[i].pos, Rec(cursors[i].key, n))
  BY <1>1, <1>3, <1>4, <1>5 DEF CursorInv
<1>8. cursors[i].key \in SearchKeys(F)
  BY <1>2, <1>5
<1>9. ASSUME NEW x \in Range(queue) PROVE x.levId \in DOMAIN EventAt /\ ~Newer(x.levId, n)
  <2>1. PICK j \in 1..(nextInit - 1), m \in DOMAIN EventAt : x = Cand(j, m)
    BY <1>1 DEF QueueInv
  <2>2. j \in Nat
    OBVIOUS
  <2>3. x.levId = m
    BY <2>1, <2>2, CandOf
  <2>4. ~Newer(m, n)
    BY <1>3, <1>4, <1>5, <2>1, <2>2, CmpIsNewer
  <2> QED BY <2>3, <2>4
<1> QED BY <1>3, <1>4, <1>5, <1>6, <1>7, <1>8, <1>9 DEF c

\* What is sent matches, and a stored event that matches is sent.
LEMMA DoSendExact ==
  ASSUME ScanInv, pc = "scan", nextInit \notin DOMAIN cursors, queue # <<>>
  PROVE  LET c == Head(queue)
             ev == EventAt[c.levId]
         IN  /\ DoSend(c) => DoesMatch(F, ev)
             /\ c.levId \in db /\ DoesMatch(F, ev) => DoSend(c)
<1> DEFINE c == Head(queue)
           n == c.levId
           k == cursors[ScanIndexOf(c)].key
<1>1. /\ n \in DOMAIN EventAt /\ CreatedOf(c) = EventAt[n].created
      /\ k \in SearchKeys(F) /\ k \in IndexKeys(IndexOf(F), EventAt[n])
  BY FrontOf
<1>2. FilterOK(F) /\ scanner.indexOnly = IndexOnly(F)
  BY ScanGoesOn
<1>3. EventOK(EventAt[n])
  BY <1>1, EventType
<1> HIDE DEF c, k
<1>4. CASE IndexOnly(F)
  <2>1. DoSend(c) <=> DoesMatchTimes(F, EventAt[n].created)
    BY <1>1, <1>2, <1>4 DEF DoSend
  <2>2. DoesMatchTimes(F, EventAt[n].created) => DoesMatch(F, EventAt[n])
    BY <1>1, <1>2, <1>3, <1>4, IndexOnlyExact
  <2>3. DoesMatch(F, EventAt[n]) => DoesMatchTimes(F, EventAt[n].created)
    BY DEF DoesMatch
  <2> QED BY <2>1, <2>2, <2>3 DEF c
<1>5. CASE ~IndexOnly(F)
  <2>1. DoSend(c) <=> n \in db /\ DoesMatch(F, EventAt[n])
    BY <1>2, <1>5 DEF DoSend
  <2> QED BY <2>1 DEF c
<1> QED BY <1>4, <1>5

\* The list of what was handed over after one more.
LEMMA OneMore ==
  ASSUME NEW ord, NEW q, NEW f, OrderInv(ord, q, f), NEW n \in 1..StartLevId, n \notin Range(ord),
         1..StartLevId \subseteq DOMAIN EventAt, DoesMatch(f, EventAt[n]),
         \A i \in DOMAIN ord : ~Newer(n, ord[i]),
         \A c \in q : ~Newer(c.levId, n)
  PROVE  /\ OrderInv(Append(ord, n), q, f) /\ Len(Append(ord, n)) = Len(ord) + 1
         /\ Range(Append(ord, n)) = Range(ord) \cup {n} /\ Len(ord) \in Nat
<1> DEFINE T == 1..StartLevId
           s == Append(ord, n)
<1>1. ord \in Seq(T) /\ n \in T
  BY DEF OrderInv
<1> HIDE DEF T
<1>2. /\ s \in Seq(T) /\ Len(s) = Len(ord) + 1 /\ Len(ord) \in Nat /\ DOMAIN ord = 1..Len(ord)
      /\ DOMAIN s = 1..(Len(ord) + 1) /\ s[Len(ord) + 1] = n
      /\ \A i \in DOMAIN ord : s[i] = ord[i] /\ ord[i] \in T
  BY <1>1
<1> HIDE DEF s
<1>3. \A i \in DOMAIN s : i \in DOMAIN ord \/ i = Len(ord) + 1
  BY <1>2
<1>4. Range(s) = Range(ord) \cup {n}
  <2>1. \A i \in DOMAIN s : s[i] \in Range(ord) \cup {n}
    BY <1>2, <1>3 DEF Range
  <2>2. \A i \in DOMAIN ord : ord[i] \in Range(s)
    BY <1>2 DEF Range
  <2>3. n \in Range(s)
    BY <1>2 DEF Range
  <2> QED BY <2>1, <2>2, <2>3 DEF Range
<1>5. \A i \in DOMAIN ord : Newer(ord[i], n)
  <2> SUFFICES ASSUME NEW i \in DOMAIN ord PROVE Newer(ord[i], n)
    OBVIOUS
  <2>1. ord[i] \in DOMAIN EventAt /\ n \in DOMAIN EventAt /\ ord[i] # n
    BY <1>2 DEF T, Range
  <2> QED BY <2>1, NewerOrder
<1>6. ASSUME NEW i \in DOMAIN s, NEW j \in DOMAIN s, i < j PROVE Newer(s[i], s[j])
  <2>1. i \in DOMAIN ord
    BY <1>2, <1>6
  <2>2. CASE j = Len(ord) + 1
    BY <1>2, <1>5, <2>1, <2>2
  <2>3. CASE j \in DOMAIN ord
    BY <1>2, <1>6, <2>1, <2>3 DEF OrderInv
  <2> QED BY <1>3, <2>2, <2>3
<1>7. \A i \in DOMAIN s : DoesMatch(f, EventAt[s[i]])
  BY <1>2, <1>3 DEF OrderInv
<1>8. \A i \in DOMAIN s, c \in q : ~Newer(c.levId, s[i])
  BY <1>2, <1>3 DEF OrderInv
<1>9. OrderInv(s, q, f)
  BY <1>2, <1>6, <1>7, <1>8 DEF OrderInv, T
<1> QED BY <1>2, <1>4, <1>9 DEF s

\* What PopEvent makes of the list, and whether it ends the filter.
Adds == DoSend(Head(queue)) /\ F.limit # 0 /\ Accepted(Head(queue).levId)
Ids == IF Adds /\ Head(queue).levId \notin Range(order)
       THEN Append(order, Head(queue).levId) ELSE order
Stops == (DoSend(Head(queue)) /\ F.limit = 0) \/ (Adds /\ Len(Ids) >= F.limit)

\* The callback: the list stays right, an event that matches is on it unless the
\* filter ends, and the filter ends with as many as it asked for.
LEMMA CallbackExact ==
  ASSUME ScanInv, pc = "scan", nextInit \notin DOMAIN cursors, queue # <<>>
  PROVE  LET n == Head(queue).levId
         IN  /\ OrderInv(Ids, Range(queue), F) /\ Range(order) \subseteq Range(Ids)
             /\ ~Stops /\ n \in db /\ n <= StartLevId /\ DoesMatch(F, EventAt[n]) => n \in Range(Ids)
             /\ ~Stops => IF F.limit = 0 THEN Ids = <<>> ELSE Len(Ids) < F.limit
             /\ Stops => Len(Ids) = F.limit
<1> DEFINE n == Head(queue).levId
<1>1. /\ Head(queue) \in Range(queue) /\ n \in DOMAIN EventAt
      /\ \A x \in Range(queue) : x.levId \in DOMAIN EventAt /\ ~Newer(x.levId, n)
  BY FrontOf
<1>2. /\ DoSend(Head(queue)) => DoesMatch(F, EventAt[n])
      /\ n \in db /\ DoesMatch(F, EventAt[n]) => DoSend(Head(queue))
  BY DoSendExact
<1>3. Scanning /\ FilterOK(F)
  BY ScanGoesOn
<1>4. /\ OrderInv(order, Range(queue), F)
      /\ IF F.limit = 0 THEN order = <<>> ELSE Len(order) < F.limit
  BY <1>3 DEF Scanning
<1>5. F.limit \in Nat
  BY <1>3 DEF FilterOK
<1>6. order \in Seq(1..StartLevId)
  BY <1>4 DEF OrderInv
<1>7. Len(order) \in Nat
  BY <1>6
<1>8. /\ StartLevId \in DOMAIN EventAt /\ DOMAIN EventAt = 1..Len(EventAt)
      /\ 1..StartLevId \subseteq DOMAIN EventAt
  BY Running
<1> HIDE DEF n
<1>9. CASE Adds /\ n \notin Range(order)
  <2>1. /\ DoSend(Head(queue)) /\ F.limit # 0 /\ n <= StartLevId /\ Ids = Append(order, n)
    BY <1>9 DEF Adds, Ids, Accepted, n
  <2>2. n \in 1..StartLevId
    BY <1>1, <1>8, <2>1
  <2>3. DoesMatch(F, EventAt[n])
    BY <1>2, <2>1
  <2>4. \A i \in DOMAIN order : ~Newer(n, order[i])
    BY <1>1, <1>4 DEF OrderInv, n
  <2>5. /\ OrderInv(Append(order, n), Range(queue), F) /\ Len(Append(order, n)) = Len(order) + 1
        /\ Range(Append(order, n)) = Range(order) \cup {n}
    BY <1>1, <1>4, <1>8, <1>9, <2>2, <2>3, <2>4, OneMore
  <2>6. OrderInv(Ids, Range(queue), F) /\ Range(order) \subseteq Range(Ids) /\ n \in Range(Ids)
    BY <2>1, <2>5
  <2>7. Len(Ids) = Len(order) + 1 /\ Len(order) < F.limit
    BY <1>4, <2>1, <2>5
  <2>8. Stops <=> Len(Ids) >= F.limit
    BY <1>9, <2>1 DEF Stops
  <2>9. /\ ~Stops => IF F.limit = 0 THEN Ids = <<>> ELSE Len(Ids) < F.limit
        /\ Stops => Len(Ids) = F.limit
    BY <1>5, <1>7, <2>1, <2>7, <2>8
  <2> QED BY <2>6, <2>9 DEF n
<1>10. CASE ~(Adds /\ n \notin Range(order))
  <2>1. Ids = order
    BY <1>10 DEF Ids, n
  <2>2. ASSUME ~Stops, n \in db, n <= StartLevId, DoesMatch(F, EventAt[n]) PROVE n \in Range(Ids)
    <3>1. DoSend(Head(queue))
      BY <1>2, <2>2
    <3>2. F.limit # 0
      BY <2>2, <3>1 DEF Stops
    <3>3. Adds
      BY <2>2, <3>1, <3>2 DEF Adds, Accepted, n
    <3> QED BY <1>10, <2>1, <3>3
  <2>3. ~Stops => IF F.limit = 0 THEN Ids = <<>> ELSE Len(Ids) < F.limit
    BY <1>4, <2>1
  <2>4. Stops => Len(Ids) = F.limit
    <3>1. Adds => F.limit # 0
      BY DEF Adds
    <3>2. Adds => ~(Len(Ids) >= F.limit)
      BY <1>4, <1>5, <1>7, <2>1, <3>1
    <3>3. Len(<<>>) = 0
      OBVIOUS
    <3> QED BY <1>4, <2>1, <3>2, <3>3 DEF Stops
  <2> QED BY <1>4, <2>1, <2>2, <2>3, <2>4 DEF n
<1> QED BY <1>9, <1>10

\* A round that ends the filter.
LEMMA PopStops ==
  ASSUME ScanInv, PopEvent, Stops
  PROVE  ScanInv'
<1>1. /\ pc = "scan" /\ nextInit \notin DOMAIN cursors /\ queue # <<>>
      /\ order' = Ids /\ UNCHANGED <<group, db, written, filter>>
      /\ pc' = "filterDone"
  BY DEF PopEvent, Ids, Adds, Stops
<1>2. /\ OrderInv(Ids, Range(queue), F) /\ Range(order) \subseteq Range(Ids) /\ Len(Ids) = F.limit
  BY <1>1, CallbackExact
<1>3. Scanning /\ FilterOK(F) /\ db \in SUBSET (DOMAIN EventAt)
  BY <1>1, ScanGoesOn
<1>4. 1..StartLevId \subseteq DOMAIN EventAt
  BY <1>1, Running
<1>5. \A n \in Eligible \ Range(Ids) : \A k \in DOMAIN Ids : Newer(Ids[k], n)
  BY <1>1, <1>2, <1>3, <1>4, HandedOver
<1>6. Eligible' = Eligible /\ F' = F
  BY <1>1 DEF Eligible, F
<1>7. /\ \A i, j \in DOMAIN Ids : i < j => Newer(Ids[i], Ids[j])
      /\ \A i \in DOMAIN Ids : DoesMatch(F, EventAt[Ids[i]])
  BY <1>2 DEF OrderInv
<1> HIDE DEF Ids
<1>8. NewestFirst'
  BY <1>1, <1>2, <1>5, <1>6, <1>7 DEF NewestFirst
<1> QED BY <1>1, <1>8 DEF ScanInv

\* A round that goes on has a new list, a new queue and one cursor changed.
LEMMA PopRest ==
  ASSUME ScanInv, PopEvent, ~Stops,
         NEW cur,
         cursors' = [cursors EXCEPT ![ScanIndexOf(Head(queue))] = cur],
         cur.key = cursors[ScanIndexOf(Head(queue))].key,
         CursorInv(ScanIndexOf(Head(queue)), cur, Range(queue'), F, db, Range(Ids)),
         cur.pos # Inactive => cur.outstanding > 0,
         \A j \in Nat \ {ScanIndexOf(Head(queue))} : Of(Range(queue'), j) = Of(Range(queue), j),
         QueueInv(queue', nextInit - 1), InOrder(queue'),
         OrderInv(Ids, Range(queue'), F)
  PROVE  ScanInv'
<1> DEFINE i == ScanIndexOf(Head(queue))
<1>1. /\ pc = "scan" /\ pc' = pc /\ nextInit \notin DOMAIN cursors /\ queue # <<>>
      /\ order' = Ids /\ UNCHANGED <<group, db, written, filter, scanner, nextInit>>
  BY DEF PopEvent, Ids, Adds, Stops
<1>2. /\ Scanning /\ db \in SUBSET (DOMAIN EventAt)
      /\ Len(cursors) \in Nat /\ DOMAIN cursors = 1..Len(cursors) /\ nextInit \in 1..(Len(cursors) + 1)
      /\ \A j \in DOMAIN cursors :
           j \in Nat /\ CursorInv(j, cursors[j], Range(queue), F, db, Range(order))
  BY <1>1, ScanGoesOn
<1>3. i \in DOMAIN cursors
  BY <1>1, FrontOf
<1>4. /\ Range(order) \subseteq Range(Ids)
      /\ IF F.limit = 0 THEN Ids = <<>> ELSE Len(Ids) < F.limit
  BY <1>1, CallbackExact
<1>5. F' = F
  BY <1>1 DEF F
<1> HIDE DEF i, Ids
<1>6. /\ cursors'[i] = cur /\ DOMAIN cursors' = DOMAIN cursors /\ Len(cursors') = Len(cursors)
      /\ \A j \in DOMAIN cursors \ {i} : cursors'[j] = cursors[j]
  BY <1>2, <1>3 DEF i
<1>7. ASSUME NEW j \in DOMAIN cursors
      PROVE  CursorInv(j, cursors'[j], Range(queue'), F, db, Range(Ids))
  <2>1. CASE j = i
    BY <1>6, <2>1 DEF i
  <2>2. CASE j # i
    <3>1. /\ cursors'[j] = cursors[j] /\ j \in Nat
          /\ CursorInv(j, cursors[j], Range(queue), F, db, Range(order))
          /\ Of(Range(queue'), j) = Of(Range(queue), j)
      BY <1>2, <1>6, <2>2 DEF i
    <3> QED BY <1>2, <1>4, <3>1, CursorKept
  <2> QED BY <2>1, <2>2
<1>8. \A j \in 1..(nextInit - 1) : cursors'[j].pos # Inactive => cursors'[j].outstanding > 0
  <2>1. \A j \in 1..(nextInit - 1) : cursors[j].pos # Inactive => cursors[j].outstanding > 0
    BY <1>2 DEF Scanning
  <2>2. \A j \in 1..(nextInit - 1) : j = i \/ j \in DOMAIN cursors \ {i}
    BY <1>2
  <2> QED BY <1>6, <2>1, <2>2
<1>9. {cursors'[j].key : j \in DOMAIN cursors'} = SearchKeys(F)
  <2>1. {cursors[j].key : j \in DOMAIN cursors} = SearchKeys(F)
    BY <1>2 DEF Scanning
  <2>2. \A j \in DOMAIN cursors : cursors'[j].key = cursors[j].key
    BY <1>6 DEF i
  <2> QED BY <1>6, <2>1, <2>2
<1>10. scanner = [index |-> IndexOf(F), indexOnly |-> IndexOnly(F)]
  BY <1>2 DEF Scanning
<1>11. Scanning'
  BY <1>1, <1>2, <1>4, <1>5, <1>6, <1>7, <1>8, <1>9, <1>10 DEF Scanning
<1> QED BY <1>1, <1>11 DEF ScanInv

\* The queue without its front.
LEMMA FrontTaken ==
  ASSUME ScanInv, pc = "scan", nextInit \notin DOMAIN cursors, queue # <<>>
  PROVE  LET c == Head(queue)
             i == ScanIndexOf(c)
             q == Range(Tail(queue))
         IN  /\ Tail(queue) \in Seq(Cands) /\ IsInjective(Tail(queue)) /\ InOrder(Tail(queue))
             /\ q = Range(queue) \ {c}
             /\ QueueInv(Tail(queue), nextInit - 1)
             /\ Of(q, i) = Of(Range(queue), i) \ {c} /\ IsFiniteSet(Of(q, i))
             /\ Cardinality(Of(q, i)) = cursors[i].outstanding - 1
             /\ cursors[i].outstanding \in Nat \ {0} /\ CursorType(cursors[i])
             /\ \A j \in Nat \ {i} : Of(q, j) = Of(Range(queue), j)
<1> DEFINE c == Head(queue)
           i == ScanIndexOf(c)
           q == Range(Tail(queue))
           C == Of(Range(queue), i)
<1>1. /\ Scanning /\ queue \in Seq(Cands) /\ IsInjective(queue) /\ QueueInv(queue, nextInit - 1)
      /\ \A j \in DOMAIN cursors : CursorInv(j, cursors[j], Range(queue), F, db, Range(order))
  BY ScanGoesOn
<1>2. InOrder(queue)
  BY <1>1 DEF Scanning
<1>3. /\ c \in Range(queue) /\ Tail(queue) \in Seq(Cands) /\ IsInjective(Tail(queue))
      /\ q = Range(queue) \ {c} /\ InOrder(Tail(queue))
  BY <1>1, <1>2, Popped
<1>4. i \in DOMAIN cursors
  BY FrontOf
<1>5. CursorType(cursors[i]) /\ cursors[i].outstanding = Cardinality(C)
  BY <1>1, <1>4 DEF CursorInv
<1>6. c \in C
  BY <1>3 DEF Of
<1>7. IsFiniteSet(C) /\ Cardinality(C) \in Nat
  BY <1>1, Counted
<1>8. Of(q, i) = C \ {c} /\ \A j \in Nat \ {i} : Of(q, j) = Of(Range(queue), j)
  BY <1>3 DEF Of
<1> HIDE DEF C, q
<1>9. IsFiniteSet(C \ {c}) /\ Cardinality(C \ {c}) = Cardinality(C) - 1
  BY <1>6, <1>7, FS_RemoveElement
<1>10. Cardinality(C \ {c}) \in Nat
  BY <1>9, FS_CardinalityType
<1>11. QueueInv(Tail(queue), nextInit - 1)
  BY <1>1, <1>3 DEF QueueInv, q
<1>12. cursors[i].outstanding \in Nat \ {0}
  BY <1>5, <1>7, <1>9, <1>10
<1>13. IsFiniteSet(Of(q, i)) /\ Cardinality(Of(q, i)) = cursors[i].outstanding - 1
  BY <1>5, <1>8, <1>9
<1> QED BY <1>3, <1>5, <1>8, <1>11, <1>12, <1>13 DEF C, q

\* A round that goes on, when the cursor has other candidates queued.
LEMMA PopGoesOn ==
  ASSUME ScanInv, PopEvent, ~Stops, cursors[ScanIndexOf(Head(queue))].outstanding # 1
  PROVE  ScanInv'
<1> DEFINE c == Head(queue)
           i == ScanIndexOf(c)
           n == c.levId
           old == cursors[i]
           cur == [old EXCEPT !.outstanding = @ - 1]
           q == Range(Tail(queue))
<1>1. /\ pc = "scan" /\ nextInit \notin DOMAIN cursors /\ queue # <<>> /\ Taken(i)
  BY DEF PopEvent, Ids, Adds, Stops
<1>2. queue' = Tail(queue) /\ cursors' = [cursors EXCEPT ![i].outstanding = @ - 1]
  BY <1>1 DEF Taken
<1>3. /\ Tail(queue) \in Seq(Cands) /\ IsInjective(Tail(queue)) /\ InOrder(Tail(queue))
      /\ q = Range(queue) \ {c} /\ QueueInv(Tail(queue), nextInit - 1)
      /\ Cardinality(Of(q, i)) = old.outstanding - 1
      /\ old.outstanding \in Nat \ {0} /\ CursorType(old)
      /\ \A j \in Nat \ {i} : Of(q, j) = Of(Range(queue), j)
  BY <1>1, FrontTaken
<1>4. i \in DOMAIN cursors /\ n \in DOMAIN EventAt /\ c = Cand(i, n)
  BY <1>1, FrontOf
<1>5. /\ OrderInv(Ids, Range(queue), F) /\ Range(order) \subseteq Range(Ids)
      /\ n \in db /\ n <= StartLevId /\ DoesMatch(F, EventAt[n]) => n \in Range(Ids)
  BY <1>1, CallbackExact
<1>6. i \in Nat /\ CursorInv(i, old, Range(queue), F, db, Range(order))
      /\ db \in SUBSET (DOMAIN EventAt)
  BY <1>1, <1>4, ScanGoesOn
<1>7. cursors' = [cursors EXCEPT ![i] = cur]
  BY <1>2
<1>8. old \in [key : Nat, pos : Positions, outstanding : Nat]
  BY <1>3 DEF CursorType
<1> HIDE DEF c, n, q, Ids
<1>9. cur.key = old.key /\ cur.pos = old.pos /\ cur.outstanding = old.outstanding - 1
      /\ cur \in [key : Nat, pos : Positions, outstanding : Nat] /\ cur.outstanding > 0
  <2>1. old.outstanding - 1 \in Nat /\ old.outstanding - 1 > 0
    BY <1>3 DEF c
  <2> HIDE DEF old
  <2> QED BY <1>8, <2>1
<1> HIDE DEF cur, old, i
<1>10. CursorType(cur)
  BY <1>3, <1>9 DEF CursorType
<1>11. ASSUME NEW m \in DOMAIN EventAt, Cand(i, m) \in q
       PROVE  /\ cur.key \in IndexKeys(IndexOf(F), EventAt[m])
              /\ cur.pos # Inactive => RecordLess(cur.pos, Rec(cur.key, m))
  BY <1>3, <1>6, <1>9, <1>11 DEF CursorInv
<1>12. ASSUME NEW m \in db, m <= StartLevId, DoesMatch(F, EventAt[m]),
              cur.key \in IndexKeys(IndexOf(F), EventAt[m])
       PROVE  Ahead(cur.pos, Rec(cur.key, m)) \/ Cand(i, m) \in q \/ m \in Range(Ids)
  <2>1. Ahead(cur.pos, Rec(cur.key, m)) \/ Cand(i, m) \in Range(queue) \/ m \in Range(order)
    BY <1>6, <1>9, <1>12 DEF CursorInv
  <2>2. CASE Cand(i, m) = c
    <3>1. m \in DOMAIN EventAt
      BY <1>6
    <3>2. Cand(i, m).levId = m /\ Cand(i, n).levId = n
      BY <1>4, <1>6, <3>1, CandOf
    <3>3. m = n
      BY <1>4, <2>2, <3>2
    <3> QED BY <1>5, <1>12, <3>3
  <2> QED BY <1>3, <1>5, <2>1, <2>2
<1>13. CursorInv(i, cur, q, F, db, Range(Ids))
  BY <1>3, <1>9, <1>10, <1>11, <1>12 DEF CursorInv
<1>14. OrderInv(Ids, q, F)
  BY <1>3, <1>5 DEF OrderInv
<1> QED BY <1>2, <1>3, <1>7, <1>9, <1>13, <1>14, PopRest DEF q, i, c, old

\* A round that goes on, when the candidate was the last one of its cursor.
LEMMA PopRefills ==
  ASSUME ScanInv, PopEvent, ~Stops, cursors[ScanIndexOf(Head(queue))].outstanding = 1
  PROVE  ScanInv'
<1> DEFINE c == Head(queue)
           i == ScanIndexOf(c)
           n == c.levId
           old == cursors[i]
           got == Collect(i, RefillScanDepth)
           out == got.output
           cur == [got.cursor EXCEPT !.outstanding = @ - 1]
           q == Range(Tail(queue))
           q2 == q \cup Range(out)
<1>1. /\ pc = "scan" /\ nextInit \notin DOMAIN cursors /\ queue # <<>> /\ Taken(i)
  BY DEF PopEvent, Ids, Adds, Stops
<1>2. queue' = Merge(Tail(queue), out) /\ cursors' = [cursors EXCEPT ![i] = cur]
  BY <1>1 DEF Taken, Refilled
<1>3. /\ Tail(queue) \in Seq(Cands) /\ IsInjective(Tail(queue)) /\ InOrder(Tail(queue))
      /\ q = Range(queue) \ {c} /\ QueueInv(Tail(queue), nextInit - 1)
      /\ Cardinality(Of(q, i)) = old.outstanding - 1 /\ IsFiniteSet(Of(q, i))
      /\ CursorType(old)
      /\ \A j \in Nat \ {i} : Of(q, j) = Of(Range(queue), j)
  BY <1>1, FrontTaken
<1>4. /\ c \in Range(queue) /\ i \in DOMAIN cursors /\ n \in DOMAIN EventAt /\ c = Cand(i, n)
      /\ old.pos # Inactive => RecordLess(old.pos, Rec(old.key, n))
  BY <1>1, FrontOf
<1>5. /\ OrderInv(Ids, Range(queue), F) /\ Range(order) \subseteq Range(Ids)
      /\ n \in db /\ n <= StartLevId /\ DoesMatch(F, EventAt[n]) => n \in Range(Ids)
  BY <1>1, CallbackExact
<1>6. /\ i \in Nat /\ CursorInv(i, old, Range(queue), F, db, Range(order))
      /\ db \in SUBSET (DOMAIN EventAt) /\ FilterOK(F) /\ scanner.index = IndexOf(F)
      /\ RefillScanDepth \in Nat \ {0}
      /\ Len(cursors) \in Nat /\ DOMAIN cursors = 1..Len(cursors) /\ nextInit \in 1..(Len(cursors) + 1)
  BY <1>1, <1>4, ScanGoesOn
<1>7. Of(q, i) = {}
  <2>1. Cardinality(Of(q, i)) = 0
    BY <1>3
  <2> QED BY <1>3, <2>1, FS_EmptySet
<1>8. /\ out \in Seq(Cands) /\ IsInjective(out) /\ InOrder(out)
      /\ CursorType(got.cursor) /\ got.cursor.key = old.key
      /\ got.cursor.outstanding = old.outstanding + Len(out)
      /\ \A x \in Range(out) : \E m \in db : x = Cand(i, m) /\ Ahead(old.pos, Rec(old.key, m))
  BY <1>3, <1>6, CollectExact
<1>9. cur = [key |-> old.key, pos |-> got.cursor.pos, outstanding |-> Len(out)]
  <2>1. Len(out) \in Nat /\ got.cursor.outstanding = 1 + Len(out)
    BY <1>8
  <2>2. got.cursor \in [key : Nat, pos : Positions, outstanding : Nat]
    BY <1>8 DEF CursorType
  <2>3. got.cursor.key = old.key
    BY <1>8
  <2> DEFINE gc == got.cursor
             k == old.key
             l == Len(out)
  <2>4. l \in Nat /\ gc.outstanding = 1 + l /\ gc \in [key : Nat, pos : Positions, outstanding : Nat]
        /\ gc.key = k
    BY <2>1, <2>2, <2>3
  <2> HIDE DEF gc, k, l
  <2>5. [gc EXCEPT !.outstanding = @ - 1] = [key |-> k, pos |-> gc.pos, outstanding |-> l]
    BY <2>4
  <2> QED BY <2>5 DEF gc, k, l
<1>10. ASSUME NEW m \in db, m <= StartLevId, DoesMatch(F, EventAt[m]),
              old.key \in IndexKeys(IndexOf(F), EventAt[m])
       PROVE  Ahead(old.pos, Rec(old.key, m)) \/ m \in Range(Ids)
  <2>1. Ahead(old.pos, Rec(old.key, m)) \/ Cand(i, m) \in Range(queue) \/ m \in Range(order)
    BY <1>6, <1>10 DEF CursorInv
  <2>2. CASE Cand(i, m) \in Range(queue)
    <3>1. m \in DOMAIN EventAt
      BY <1>6
    <3>2. Cand(i, m) \notin q
      <4> HIDE DEF q
      <4> QED BY <1>6, <1>7, <3>1, OfCand
    <3>3. Cand(i, m) = c
      BY <1>3, <2>2, <3>2
    <3>4. Cand(i, m).levId = m
      BY <1>6, <3>1, CandOf
    <3>5. m = n
      BY <3>3, <3>4
    <3> QED BY <1>5, <1>10, <3>5
  <2> QED BY <1>5, <2>1, <2>2
<1>11. /\ CursorInv(i, cur, q2, F, db, Range(Ids))
       /\ cur.pos # Inactive => cur.outstanding > 0
  <2> HIDE DEF q, Ids, cur, i
  <2> QED BY <1>3, <1>6, <1>7, <1>9, <1>10, CursorCollected
<1>12. cur.key = old.key
  BY <1>9
<1> HIDE DEF c, n, q, Ids, cur, got, old, i
<1>13. \A x \in Range(out) : ScanIndexOf(x) = i
  BY <1>6, <1>8, CandOf
<1>14. q \cap Range(out) = {}
  BY <1>7, <1>13 DEF Of
<1>15. /\ queue' \in Seq(Cands) /\ IsInjective(queue') /\ InOrder(queue')
       /\ Range(queue') = q2
  BY <1>2, <1>3, <1>8, <1>14, MergeExact DEF q
<1>16. \A j \in Nat \ {i} : Of(q2, j) = Of(Range(queue), j)
  <2>1. \A j \in Nat \ {i} : Of(q2, j) = Of(q, j)
    BY <1>13 DEF Of
  <2> QED BY <1>3, <2>1
<1>17. QueueInv(queue', nextInit - 1)
  <2>1. ASSUME NEW x \in q2
        PROVE  \E j \in 1..(nextInit - 1), m \in DOMAIN EventAt : x = Cand(j, m)
    <3>1. CASE x \in q
      BY <1>3, <3>1 DEF QueueInv, q
    <3>2. CASE x \in Range(out)
      <4>1. PICK m \in db : x = Cand(i, m)
        BY <1>8, <3>2
      <4>2. i \in 1..(nextInit - 1)
        BY <1>1, <1>4, <1>6
      <4> QED BY <1>6, <4>1, <4>2
    <3> QED BY <3>1, <3>2
  <2> QED BY <1>15, <2>1 DEF QueueInv
<1>18. OrderInv(Ids, q2, F)
  <2>1. ASSUME NEW k \in DOMAIN Ids, NEW x \in q2 PROVE ~Newer(x.levId, Ids[k])
    <3>1. CASE x \in q
      BY <1>3, <1>5, <3>1 DEF OrderInv
    <3>2. CASE x \in Range(out)
      <4>1. PICK m \in db : x = Cand(i, m) /\ Ahead(old.pos, Rec(old.key, m))
        BY <1>8, <3>2
      <4>2. m \in DOMAIN EventAt /\ x.levId = m
        BY <1>6, <4>1, CandOf
      <4>3. RecordLess(old.pos, Rec(old.key, n))
        BY <1>4, <4>1 DEF Ahead
      <4>4. Newer(n, m)
        BY <1>3, <1>4, <4>1, <4>2, <4>3, BehindAhead
      <4>5. ~Newer(n, Ids[k])
        BY <1>4, <1>5 DEF OrderInv, n
      <4>6. Ids[k] \in DOMAIN EventAt
        <5> DEFINE T == 1..StartLevId
        <5>1. Ids \in Seq(T)
          BY <1>5 DEF OrderInv
        <5>2. T \subseteq DOMAIN EventAt
          BY <1>1, Running
        <5> HIDE DEF T
        <5> QED BY <5>1, <5>2
      <4>7. ~Newer(m, Ids[k])
        BY <1>4, <4>2, <4>4, <4>5, <4>6, NewerOrder
      <4> QED BY <4>2, <4>7
    <3> QED BY <3>1, <3>2
  <2>2. /\ Ids \in Seq(1..StartLevId)
        /\ \A k, j \in DOMAIN Ids : k < j => Newer(Ids[k], Ids[j])
        /\ \A k \in DOMAIN Ids : DoesMatch(F, EventAt[Ids[k]])
    BY <1>5 DEF OrderInv
  <2> HIDE DEF q2
  <2> QED BY <2>1, <2>2 DEF OrderInv
<1> HIDE DEF q2
<1> QED BY <1>2, <1>11, <1>12, <1>15, <1>16, <1>17, <1>18, PopRest DEF i, c, old

\* Every step keeps the invariant.
LEMMA NextScan ==
  ASSUME ScanInv, [Next]_vars
  PROVE  ScanInv'
<1>1. CASE StartFilter
  BY <1>1, StartFilterScan
<1>2. CASE InitCursor
  BY <1>2, InitCursorScan
<1>3. CASE ScanEnds
  BY <1>3, ScanEndsScan
<1>4. CASE PopEvent
  BY <1>4, PopStops, PopGoesOn, PopRefills
<1>5. CASE NextFilter
  <2>1. /\ pc = "filterDone" /\ filter' = filter + 1 /\ order' = <<>>
        /\ pc' = (IF filter = Len(group) THEN "complete" ELSE "filter")
        /\ UNCHANGED <<group, db, written>>
    BY <1>5 DEF NextFilter
  <2>2. filter \in DOMAIN group /\ group \in Groups
    BY <2>1 DEF ScanInv
  <2>3. group \in Seq(Range(group))
    BY <2>2, ScanAssumption
  <2>4. filter # Len(group) => filter + 1 \in DOMAIN group
    BY <2>2, <2>3
  <2> QED BY <2>1, <2>4 DEF ScanInv
<1>6. CASE Pause \/ Continue
  <2>1. /\ pc \in {"scan", "paused"} /\ pc' \in {"scan", "paused"}
        /\ UNCHANGED <<group, db, written, filter, scanner, cursors, queue, nextInit, order>>
    BY <1>6 DEF Pause, Continue, scan
  <2>2. Scanning' <=> Scanning
    BY <2>1 DEF Scanning, F, CursorInv
  <2> QED BY <2>1, <2>2 DEF ScanInv
<1>7. CASE WriteEvent \/ \E n \in db : RemoveEvent(n)
  <2>1. /\ pc = "paused" /\ UNCHANGED <<group, pc, filter, scanner, cursors, queue, nextInit, order>>
        /\ \/ written < Len(EventAt) /\ written' = written + 1 /\ db' = db \cup {written + 1}
           \/ written' = written /\ db' \subseteq db
    BY <1>7 DEF WriteEvent, RemoveEvent, scan
  <2>2. /\ Scanning /\ db \in SUBSET (DOMAIN EventAt)
        /\ DOMAIN EventAt = 1..Len(EventAt) /\ Len(EventAt) \in Nat
        /\ \A i \in DOMAIN cursors :
             i \in Nat /\ CursorInv(i, cursors[i], Range(queue), F, db, Range(order))
    BY <2>1, ScanGoesOn
  <2>3. written \in StartLevId..Len(EventAt) /\ db \subseteq 1..written /\ StartLevId \in Nat
    BY <2>2, ScanAssumption DEF ScanInv
  <2>4. written' \in StartLevId..Len(EventAt) /\ db' \subseteq 1..written'
    BY <2>1, <2>2, <2>3
  <2>5. \A n \in db' : n <= StartLevId => n \in db
    BY <2>1, <2>2, <2>3
  <2>6. \A i \in DOMAIN cursors : CursorInv(i, cursors[i], Range(queue), F, db', Range(order))
    BY <2>2, <2>5, CursorKept
  <2>7. F' = F
    BY <2>1 DEF F
  <2>8. Scanning'
    BY <2>1, <2>2, <2>6, <2>7 DEF Scanning
  <2> QED BY <2>1, <2>4, <2>8 DEF ScanInv
<1>8. CASE UNCHANGED vars
  <2>1. UNCHANGED <<group, db, written, pc, filter, scanner, cursors, queue, nextInit, order>>
    BY <1>8 DEF vars, scan
  <2>2. (Scanning' <=> Scanning) /\ (NewestFirst' <=> NewestFirst)
    BY <2>1 DEF Scanning, NewestFirst, Eligible, F
  <2> QED BY <2>1, <2>2 DEF ScanInv
<1> QED BY <1>1, <1>2, <1>3, <1>4, <1>5, <1>6, <1>7, <1>8 DEF Next, Query

-----------------------------------------------------------------------------
(* The theorems *)

\* ScanInv holds throughout a query.
THEOREM ScanInvariant == Spec => []ScanInv
<1>1. Init => ScanInv
  BY InitScan
<1>2. ScanInv /\ [Next]_vars => ScanInv'
  BY NextScan
<1> QED BY <1>1, <1>2, PTL DEF Spec

\* NewestFirst (DBScan::scan, ScanCursor::collect and the callback of
\* DBQuery::process): whatever the filter, the events stored, the depths of the
\* scan, and wherever the query pauses and the database changes below it, a filter
\* gets its matches newest first, skips none that was stored when the query began
\* and still is, and leaves one out only when the limit cut it off.
THEOREM NewestFirstTheorem == Spec => []NewestFirst
<1>1. ScanInv => NewestFirst
  BY ScanningNewest
<1> QED BY <1>1, ScanInvariant, PTL

\* OutstandingExact (the refill of DBScan::scan): the count of a cursor is the
\* number of its candidates in the queue, and a cursor that has more to give has
\* one there, so it is asked again.
THEOREM OutstandingExactTheorem == Spec => []OutstandingExact
<1>1. ScanInv => OutstandingExact
  BY ScanningOutstanding
<1> QED BY <1>1, ScanInvariant, PTL
=============================================================================
