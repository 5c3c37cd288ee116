------------------------------ MODULE SumLemmas ------------------------------
(***************************************************************************)
(* Sums over sequences: FoldLeft with + defines a recursive function by    *)
(* CHOOSE, and the lemmas show that there is exactly one such function, so *)
(* that appending an element adds it to the sum.  Induction is on sets of  *)
(* numbers (WFMin), since a theorem with an operator parameter cannot be   *)
(* used.                                                                   *)
(***************************************************************************)
EXTENDS Integers, FiniteSetsExt, SequencesExt, WellFoundedInduction, SequenceTheorems, TLAPS

\* A set of numbers with a member has a least one.
LEMMA LeastNumber ==
  ASSUME NEW T \in SUBSET Nat, T # {}
  PROVE  \E n \in T : \A m \in T : n <= m
<1>1. PICK R : R = OpToRel(<, Nat)
  OBVIOUS
<1>2. IsWellFoundedOn(R, Nat)
  BY <1>1, NatLessThanWellFounded
<1>3. PICK n \in T : \A m \in T : ~(<<m, n>> \in R)
  BY <1>2, WFMin
<1>4. \A m \in T : ~(m < n)
  BY <1>1, <1>3 DEF OpToRel
<1>5. \A m \in T : m \in Nat
  OBVIOUS
<1> QED BY <1>3, <1>4, <1>5

\* What holds of 0, and of n + 1 if it holds of n, holds of every number.
LEMMA NumbersFollow ==
  ASSUME NEW T, 0 \in T, \A n \in Nat : n \in T => n + 1 \in T
  PROVE  Nat \subseteq T
<1> SUFFICES ASSUME Nat \ T # {} PROVE FALSE
  OBVIOUS
<1>1. PICK n \in Nat \ T : \A m \in Nat \ T : n <= m
  BY LeastNumber
<1>2. n # 0 /\ n - 1 \in Nat
  BY <1>1
<1>3. n - 1 \in T
  BY <1>1, <1>2
<1>4. (n - 1) + 1 = n
  BY <1>1
<1>5. (n - 1) + 1 \in T
  BY <1>2, <1>3
<1> QED BY <1>1, <1>4, <1>5

\* The largest member of a set of places.
LEMMA LargestPlace ==
  ASSUME NEW n \in Nat, NEW x \in SUBSET (1..n), x # {}
  PROVE  Max(x) \in x /\ \A y \in x : y <= Max(x)
<1>1. PICK T : T = {n - y : y \in x}
  OBVIOUS
<1>2. T \in SUBSET Nat /\ T # {}
  <2>1. \A y \in x : n - y \in Nat
    OBVIOUS
  <2> QED BY <1>1, <2>1
<1>3. PICK m \in T : \A k \in T : m <= k
  BY <1>2, LeastNumber
<1>4. PICK y \in x : m = n - y
  BY <1>1, <1>3
<1>5. \A z \in x : n - z \in T /\ z \in Int
  BY <1>1
<1>6. \A z \in x : y >= z
  BY <1>3, <1>4, <1>5
<1> QED BY <1>6 DEF Max

\* A function that adds up the sizes of the places in a set, the largest last.
Adds(sum, n, size) ==
  sum = [x \in SUBSET (1..n) |-> IF x = {} THEN 0 ELSE sum[x \ {Max(x)}] + size[Max(x)]]

\* That of 1..n gives that of 1..(n + 1), ...
LEMMA AddsOneMore ==
  ASSUME NEW n \in Nat, NEW size, NEW sum, Adds(sum, n, size)
  PROVE  \E more : Adds(more, n + 1, size)
<1>1. PICK more : more = [x \in SUBSET (1..(n + 1)) |->
                            IF n + 1 \in x THEN sum[x \ {n + 1}] + size[n + 1] ELSE sum[x]]
  OBVIOUS
<1>2. ASSUME NEW x \in SUBSET (1..(n + 1))
      PROVE  more[x] = IF x = {} THEN 0 ELSE more[x \ {Max(x)}] + size[Max(x)]
  <2>1. CASE x = {}
    BY <1>1, <2>1 DEF Adds
  <2>2. CASE n + 1 \in x
    <3>1. Max(x) \in x /\ \A y \in x : y <= Max(x)
      <4>1. n + 1 \in Nat /\ x # {}
        BY <2>2
      <4> QED BY <4>1, LargestPlace
    <3>2. Max(x) = n + 1
      <4>1. Max(x) \in 1..(n + 1)
        BY <3>1
      <4>2. n + 1 <= Max(x)
        BY <2>2, <3>1
      <4> QED BY <4>1, <4>2
    <3>3. x \ {n + 1} \in SUBSET (1..(n + 1)) /\ n + 1 \notin x \ {n + 1}
      OBVIOUS
    <3>4. more[x \ {n + 1}] = sum[x \ {n + 1}]
      BY <1>1, <3>3
    <3> QED BY <1>1, <2>2, <3>2, <3>4
  <2>3. CASE x # {} /\ n + 1 \notin x
    <3>1. x \in SUBSET (1..n)
      BY <2>3
    <3>2. sum[x] = sum[x \ {Max(x)}] + size[Max(x)]
      BY <2>3, <3>1 DEF Adds
    <3>3. x \ {Max(x)} \in SUBSET (1..(n + 1)) /\ n + 1 \notin x \ {Max(x)}
      BY <2>3
    <3>4. more[x \ {Max(x)}] = sum[x \ {Max(x)}] /\ more[x] = sum[x]
      BY <1>1, <2>3, <3>3
    <3> QED BY <2>3, <3>2, <3>4
  <2> QED BY <2>1, <2>2, <2>3
<1>3. Adds(more, n + 1, size)
  BY <1>1, <1>2 DEF Adds
<1> QED BY <1>3

\* ... so that there is one for every n.
LEMMA SumExists ==
  ASSUME NEW n \in Nat, NEW size
  PROVE  \E sum : Adds(sum, n, size)
<1>1. PICK T : T = {k \in Nat : \E sum : Adds(sum, k, size)}
  OBVIOUS
<1>2. 0 \in T
  <2>1. PICK sum : sum = [x \in SUBSET (1..0) |-> 0]
    OBVIOUS
  <2>2. \A x \in SUBSET (1..0) : x = {}
    OBVIOUS
  <2>3. Adds(sum, 0, size)
    BY <2>1, <2>2 DEF Adds
  <2> QED BY <1>1, <2>3
<1>3. ASSUME NEW k \in Nat, k \in T PROVE k + 1 \in T
  BY <1>1, <1>3, AddsOneMore
<1> QED BY <1>1, <1>2, <1>3, NumbersFollow

\* Two such functions agree where both are defined and the sizes are the same.
LEMMA SumsAgree ==
  ASSUME NEW n \in Nat, NEW m \in Nat, n <= m, NEW size, NEW other,
         \A i \in 1..n : size[i] = other[i],
         NEW sum, Adds(sum, n, size), NEW more, Adds(more, m, other)
  PROVE  sum[1..n] = more[1..n]
<1>1. PICK T : T = {k \in Nat : k <= n => sum[1..k] = more[1..k]}
  OBVIOUS
<1>2. 0 \in T
  <2>1. 1..0 = {} /\ {} \in SUBSET (1..n) /\ {} \in SUBSET (1..m)
    OBVIOUS
  <2>2. sum[{}] = 0 /\ more[{}] = 0
    BY <2>1 DEF Adds
  <2> QED BY <1>1, <2>1, <2>2
<1>3. ASSUME NEW k \in Nat, k \in T PROVE k + 1 \in T
  <2> SUFFICES ASSUME k + 1 <= n PROVE sum[1..(k + 1)] = more[1..(k + 1)]
    BY <1>1
  <2>1. PICK x : x = 1..(k + 1)
    OBVIOUS
  <2>2. x \in SUBSET (1..n) /\ x \in SUBSET (1..m) /\ x # {} /\ k + 1 \in x
    <3>1. k + 1 \in x /\ \A i \in x : i \in 1..n /\ i \in 1..m
      BY <2>1
    <3> QED BY <3>1
  <2>3. Max(x) \in x /\ \A y \in x : y <= Max(x)
    BY <2>2, LargestPlace
  <2>4. Max(x) = k + 1
    BY <2>1, <2>2, <2>3
  <2>5. x \ {Max(x)} = 1..k
    BY <2>1, <2>4
  <2>6. sum[x] = sum[1..k] + size[k + 1] /\ more[x] = more[1..k] + other[k + 1]
    BY <2>2, <2>4, <2>5, ZenonT(60) DEF Adds
  <2>7. sum[1..k] = more[1..k] /\ size[k + 1] = other[k + 1]
    BY <1>1, <1>3
  <2> QED BY <2>1, <2>6, <2>7
<1>4. n \in T
  BY <1>2, <1>3, NumbersFollow
<1> QED BY <1>1, <1>4

\* The sum of the first n sizes.
SumTo(n, size) == (CHOOSE sum : Adds(sum, n, size))[1..n]

LEMMA SumToIs ==
  ASSUME NEW n \in Nat, NEW size, NEW sum, Adds(sum, n, size)
  PROVE  SumTo(n, size) = sum[1..n]
<1>1. PICK first : first = CHOOSE f : Adds(f, n, size)
  OBVIOUS
<1>2. Adds(first, n, size)
  BY <1>1
<1>3. first[1..n] = sum[1..n]
  BY <1>2, SumsAgree
<1> QED BY <1>1, <1>3 DEF SumTo

\* It depends on those sizes only, and the next size is added to it.
LEMMA SumIsOfSizes ==
  ASSUME NEW n \in Nat, NEW size, NEW other, \A i \in 1..n : size[i] = other[i]
  PROVE  SumTo(n, size) = SumTo(n, other)
<1>1. PICK sum : Adds(sum, n, size)
  BY SumExists
<1>2. PICK more : Adds(more, n, other)
  BY SumExists
<1>3. sum[1..n] = more[1..n]
  BY <1>1, <1>2, SumsAgree
<1> QED BY <1>1, <1>2, <1>3, SumToIs

LEMMA SumOfMore ==
  ASSUME NEW n \in Nat, NEW size
  PROVE  SumTo(n + 1, size) = SumTo(n, size) + size[n + 1]
<1>1. PICK sum : Adds(sum, n, size)
  BY SumExists
<1>2. PICK more : Adds(more, n + 1, size)
  BY SumExists
<1>3. sum[1..n] = more[1..n]
  BY <1>1, <1>2, SumsAgree, SMTT(30)
<1>4. PICK x : x = 1..(n + 1)
  OBVIOUS
<1>5. Max(x) \in x /\ \A y \in x : y <= Max(x)
  <2>1. n + 1 \in Nat /\ x \in SUBSET (1..(n + 1)) /\ n + 1 \in x
    BY <1>4
  <2> QED BY <2>1, LargestPlace
<1>6. Max(x) = n + 1 /\ x # {} /\ x \ {Max(x)} = 1..n
  BY <1>4, <1>5
<1>7. more[x] = more[1..n] + size[n + 1]
  BY <1>2, <1>4, <1>6 DEF Adds
<1>8. SumTo(n + 1, size) = more[x]
  BY <1>2, <1>4, SumToIs
<1>9. SumTo(n, size) = sum[1..n]
  BY <1>1, SumToIs
<1> QED BY <1>3, <1>7, <1>8, <1>9

LEMMA SumOfNone ==
  ASSUME NEW size PROVE SumTo(0, size) = 0
<1>1. PICK sum : Adds(sum, 0, size)
  BY SumExists
<1>2. 1..0 = {}
  OBVIOUS
<1>3. sum[1..0] = 0
  BY <1>1, <1>2 DEF Adds
<1> QED BY <1>1, <1>3, SumToIs

\* Sums of numbers are numbers.
LEMMA SumIsNumber ==
  ASSUME NEW n \in Nat, NEW size, \A i \in 1..n : size[i] \in Nat
  PROVE  SumTo(n, size) \in Nat
<1>1. PICK T : T = {k \in Nat : k <= n => SumTo(k, size) \in Nat}
  OBVIOUS
<1>2. 0 \in T
  BY <1>1, SumOfNone
<1>3. ASSUME NEW k \in Nat, k \in T PROVE k + 1 \in T
  BY <1>1, <1>3, SumOfMore
<1>4. n \in T
  BY <1>2, <1>3, NumbersFollow
<1> QED BY <1>1, <1>4

-----------------------------------------------------------------------------
(* Sums of records' sizes. *)

SizesOf(r) == [i \in DOMAIN r |-> r[i].size]
SizeSum(r) == SumTo(Len(r), SizesOf(r))

\* That is what both ways to fold give: over the sizes, and over the records.
LEMMA FoldOfSizes ==
  ASSUME NEW R, NEW r \in Seq(R)
  PROVE  FoldLeft(+, 0, SizesOf(r)) = SizeSum(r)
<1>1. PICK n \in Nat : n = Len(r) /\ DOMAIN r = 1..n /\ DOMAIN SizesOf(r) = 1..n
  BY DEF SizesOf
<1>2. PICK s : s = SizesOf(r)
  OBVIOUS
<1>3. FoldLeft(+, 0, s) = SumTo(n, s)
  BY <1>1, <1>2 DEF FoldLeft, MapThenFoldSet, SumTo, Adds
<1> QED BY <1>1, <1>2, <1>3 DEF SizeSum

LEMMA FoldOfRecords ==
  ASSUME NEW R, NEW r \in Seq(R)
  PROVE  FoldLeft(LAMBDA sum, m : sum + m.size, 0, r) = SizeSum(r)
<1>1. PICK n \in Nat : n = Len(r) /\ DOMAIN r = 1..n
  OBVIOUS
<1>2. PICK s : s = SizesOf(r)
  OBVIOUS
<1>3. \A i \in 1..n : s[i] = r[i].size
  BY <1>1, <1>2 DEF SizesOf
<1>4. PICK g : g = CHOOSE f : f = [x \in SUBSET DOMAIN r |->
                     IF x = {} THEN 0 ELSE f[x \ {Max(x)}] + r[Max(x)].size]
  OBVIOUS
<1>5. \A x \in SUBSET (1..n) : x # {} => Max(x) \in 1..n
  BY LargestPlace
<1>6. ASSUME NEW f
      PROVE  Adds(f, n, s) <=> f = [x \in SUBSET DOMAIN r |->
                     IF x = {} THEN 0 ELSE f[x \ {Max(x)}] + r[Max(x)].size]
  <2>1. \A x \in SUBSET (1..n) : x # {} => s[Max(x)] = r[Max(x)].size
    BY <1>3, <1>5
  <2> QED BY <1>1, <2>1 DEF Adds
<1>7. PICK f : Adds(f, n, s)
  BY SumExists
<1>8. Adds(g, n, s)
  BY <1>4, <1>6, <1>7
<1>9. g[1..n] = SumTo(n, s)
  BY <1>8, SumToIs
<1>10. FoldLeft(LAMBDA sum, m : sum + m.size, 0, r) = g[DOMAIN r]
  BY <1>4 DEF FoldLeft, MapThenFoldSet
<1> QED BY <1>1, <1>2, <1>9, <1>10 DEF SizeSum

LEMMA SizesAdd ==
  ASSUME NEW R, NEW r \in Seq(R), NEW x \in R
  PROVE  SizeSum(Append(r, x)) = SizeSum(r) + x.size
<1>1. PICK n \in Nat : n = Len(r) /\ DOMAIN r = 1..n
  OBVIOUS
<1>2. PICK s : s = SizesOf(r)
  OBVIOUS
<1>3. PICK more : more = Append(r, x)
  OBVIOUS
<1>4. PICK t : t = SizesOf(more)
  OBVIOUS
<1>5. /\ Len(more) = n + 1 /\ DOMAIN more = 1..(n + 1) /\ more[n + 1] = x
      /\ \A i \in 1..n : more[i] = r[i]
  BY <1>1, <1>3
<1>6. t[n + 1] = x.size /\ \A i \in 1..n : s[i] = t[i]
  BY <1>1, <1>2, <1>4, <1>5 DEF SizesOf
<1>7. SumTo(n, s) = SumTo(n, t)
  BY <1>6, SumIsOfSizes
<1>8. SumTo(n + 1, t) = SumTo(n, t) + t[n + 1]
  BY SumOfMore
<1> QED BY <1>1, <1>2, <1>3, <1>4, <1>5, <1>6, <1>7, <1>8 DEF SizeSum

LEMMA SizesOfNone == SizeSum(<<>>) = 0
<1>1. Len(<<>>) = 0
  OBVIOUS
<1> QED BY <1>1, SumOfNone DEF SizeSum

LEMMA SizesNumber ==
  ASSUME NEW R, NEW r \in Seq(R), \A i \in DOMAIN r : r[i].size \in Nat
  PROVE  SizeSum(r) \in Nat
<1>1. PICK n \in Nat : n = Len(r) /\ DOMAIN r = 1..n
  OBVIOUS
<1>2. PICK s : s = SizesOf(r)
  OBVIOUS
<1>3. \A i \in 1..n : s[i] \in Nat
  BY <1>1, <1>2 DEF SizesOf
<1>4. SumTo(n, s) \in Nat
  BY <1>3, SumIsNumber
<1> QED BY <1>1, <1>2, <1>4 DEF SizeSum

\* Later sums of numbers are not smaller.
LEMMA SumsGrow ==
  ASSUME NEW n \in Nat, NEW m \in Nat, n <= m, NEW size, \A i \in 1..m : size[i] \in Nat
  PROVE  SumTo(n, size) <= SumTo(m, size)
<1>1. PICK T : T = {k \in Nat : n <= k /\ k <= m => SumTo(n, size) <= SumTo(k, size)}
  OBVIOUS
<1>2. \A k \in 0..m : SumTo(k, size) \in Nat
  BY SumIsNumber
<1>3. n \in 0..m /\ SumTo(n, size) \in Nat
  BY <1>2
<1>4. 0 \in T
  BY <1>1, <1>3
<1>5. ASSUME NEW k \in Nat, k \in T PROVE k + 1 \in T
  <2> SUFFICES ASSUME n <= k + 1, k + 1 <= m PROVE SumTo(n, size) <= SumTo(k + 1, size)
    BY <1>1
  <2>1. CASE n = k + 1
    BY <1>3, <2>1
  <2>2. CASE n <= k
    <3>1. SumTo(n, size) <= SumTo(k, size)
      BY <1>1, <1>5, <2>2
    <3>2. SumTo(k + 1, size) = SumTo(k, size) + size[k + 1]
      BY SumOfMore
    <3>3. SumTo(k, size) \in Nat /\ size[k + 1] \in Nat
      BY <1>2
    <3> QED BY <1>3, <3>1, <3>2, <3>3
  <2> QED BY <2>1, <2>2
<1>6. m \in T
  BY <1>4, <1>5, NumbersFollow
<1> QED BY <1>1, <1>6

\* What a part of the records adds up to.
LEMMA SizesOfPart ==
  ASSUME NEW R, NEW r \in Seq(R), NEW a \in Nat \ {0}, NEW b \in Nat, a <= b + 1, b <= Len(r),
         \A i \in DOMAIN r : r[i].size \in Nat
  PROVE  SumTo(a - 1, SizesOf(r)) + SizeSum(SubSeq(r, a, b)) = SumTo(b, SizesOf(r))
<1>1. PICK n \in Nat : n = Len(r) /\ DOMAIN r = 1..n
  OBVIOUS
<1>2. PICK s : s = SizesOf(r)
  OBVIOUS
<1>3. \A i \in 1..n : s[i] = r[i].size /\ s[i] \in Nat
  BY <1>1, <1>2 DEF SizesOf
<1>4. PICK T : T = {k \in Nat : a <= k + 1 /\ k <= n =>
                      SumTo(a - 1, s) + SizeSum(SubSeq(r, a, k)) = SumTo(k, s)}
  OBVIOUS
<1>5. a - 1 \in Nat /\ (a - 1 <= n => SumTo(a - 1, s) \in Nat)
  BY <1>3, SumIsNumber
<1>6. ASSUME NEW k \in Nat, k = a - 1 PROVE k \in T
  <2>1. SubSeq(r, a, k) = <<>>
    BY <1>1, <1>6
  <2>2. SizeSum(SubSeq(r, a, k)) = 0
    BY <2>1, SizesOfNone
  <2>3. SumTo(a - 1, s) = SumTo(k, s)
    BY <1>6
  <2>4. k <= n => SumTo(k, s) + 0 = SumTo(k, s)
    BY <1>5, <1>6, <2>3
  <2> QED BY <1>4, <1>6, <2>2, <2>3, <2>4
<1>7. 0 \in T
  <2>1. CASE a = 1
    BY <1>6, <2>1
  <2>2. CASE a > 1
    BY <1>4, <2>2
  <2> QED BY <2>1, <2>2
<1>8. ASSUME NEW k \in Nat, k \in T PROVE k + 1 \in T
  <2>1. CASE a = k + 2
    BY <1>6, <2>1
  <2>2. CASE a <= k + 1 /\ k + 1 <= n
    <3>1. PICK part : part = SubSeq(r, a, k)
      OBVIOUS
    <3>2. part \in Seq(R) /\ r[k + 1] \in R /\ SubSeq(r, a, k + 1) = Append(part, r[k + 1])
      <4>1. a \in 1..Len(r) /\ k + 1 \in a..Len(r) /\ (k + 1) - 1 = k
        BY <1>1, <2>2
      <4>2. part \in Seq(R) /\ r[k + 1] \in R
        BY <1>1, <2>2, <3>1
      <4>3. SubSeq(r, a, k + 1) = part \o <<r[k + 1]>>
        BY <3>1, <4>1, SubSeqRecursiveSecond
      <4>4. Append(part, r[k + 1]) = part \o <<r[k + 1]>>
        BY <4>2, AppendIsConcat
      <4> QED BY <4>2, <4>3, <4>4
    <3>3. SizeSum(Append(part, r[k + 1])) = SizeSum(part) + r[k + 1].size
      BY <3>2, SizesAdd
    <3>4. SumTo(k + 1, s) = SumTo(k, s) + s[k + 1]
      BY SumOfMore
    <3>5. SumTo(a - 1, s) + SizeSum(part) = SumTo(k, s)
      BY <1>4, <1>8, <2>2, <3>1
    <3>6. \A i \in DOMAIN part : part[i].size \in Nat
      BY <1>1, <2>2, <3>1
    <3>7. SizeSum(part) \in Nat
      BY <3>2, <3>6, SizesNumber
    <3>8. s[k + 1] = r[k + 1].size /\ s[k + 1] \in Nat
      BY <1>3, <2>2
    <3>9. SumTo(a - 1, s) + SizeSum(SubSeq(r, a, k + 1)) = SumTo(k + 1, s)
      <4>1. SizeSum(SubSeq(r, a, k + 1)) = SizeSum(part) + r[k + 1].size
        BY <3>2, <3>3
      <4>2. SumTo(a - 1, s) \in Nat
        BY <1>5, <2>2
      <4>3. SumTo(k, s) \in Nat
        BY <3>5, <3>7, <4>2
      <4> QED BY <3>4, <3>5, <3>7, <3>8, <4>1, <4>2, <4>3
    <3> QED BY <1>4, <3>9
  <2>3. CASE ~(a <= k + 2 /\ k + 1 <= n)
    BY <1>4, <2>3
  <2> QED BY <2>1, <2>2, <2>3
<1>9. b \in T
  BY <1>7, <1>8, NumbersFollow
<1> QED BY <1>1, <1>2, <1>4, <1>9

=============================================================================
