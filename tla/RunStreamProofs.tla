--------------------------- MODULE RunStreamProofs ---------------------------
(***************************************************************************)
(* Proofs, for any number of events, threads and streams and any limits,   *)
(* that the history of a run keeps its numbers, its outcome and its bound  *)
(* however it is joined, collapsed, truncated and numbered anew; and that, *)
(* while it is not collapsed, each stream gives its client what was        *)
(* produced, in order and once.                                            *)
(***************************************************************************)
EXTENDS RunStream, SumLemmas, FiniteSetTheorems

(* Recursion over the places of a sequence, and induction over sequences.  *)

\* A function of the places 0..n, and one of the sets of places in 1..n.
Walks(f, n, A, base, step) ==
  f \in [0..n -> A] /\ f = [i \in 0..n |-> IF i = 0 THEN base ELSE step[i][f[i - 1]]]

Folds(f, n, A, base, step) ==
  /\ f \in [SUBSET (1..n) -> A]
  /\ f = [x \in SUBSET (1..n) |-> IF x = {} THEN base ELSE step[Max(x)][f[x \ {Max(x)}]]]

\* A step for each place that stays in a set defines a function of the places, ...
LEMMA StepsDefine ==
  ASSUME NEW n \in Nat, NEW A, NEW base \in A, NEW step,
         \A i \in 1..n : \A a \in A : step[i][a] \in A
  PROVE  \E f : Walks(f, n, A, base, step)
<1>1. PICK T : T = {k \in Nat : k <= n => \E f : Walks(f, k, A, base, step)}
  OBVIOUS
<1>2. 0 \in T
  <2>1. PICK f : f = [i \in 0..0 |-> base]
    OBVIOUS
  <2>2. \A i \in 0..0 : i = 0
    OBVIOUS
  <2>3. Walks(f, 0, A, base, step)
    BY <2>1, <2>2 DEF Walks
  <2> QED BY <1>1, <2>3
<1>3. ASSUME NEW k \in Nat, k \in T PROVE k + 1 \in T
  <2> SUFFICES ASSUME k + 1 <= n
               PROVE  \E g : Walks(g, k + 1, A, base, step)
    BY <1>1
  <2>1. PICK f : Walks(f, k, A, base, step)
    BY <1>1, <1>3
  <2>2. PICK g : g = [i \in 0..(k + 1) |-> IF i = k + 1 THEN step[k + 1][f[k]] ELSE f[i]]
    OBVIOUS
  <2>3. k \in 0..k /\ k + 1 \in 1..n
    OBVIOUS
  <2>4. f[k] \in A /\ step[k + 1][f[k]] \in A
    BY <2>1, <2>3 DEF Walks
  <2>5. g \in [0..(k + 1) -> A]
    BY <2>1, <2>2, <2>4 DEF Walks
  <2>6. ASSUME NEW i \in 0..(k + 1)
        PROVE  g[i] = IF i = 0 THEN base ELSE step[i][g[i - 1]]
    <3>1. CASE i = k + 1
      <4>1. g[i] = step[k + 1][f[k]] /\ g[k] = f[k] /\ i - 1 = k /\ i # 0
        BY <2>2, <3>1
      <4> QED BY <3>1, <4>1
    <3>2. CASE i # k + 1
      <4>1. i \in 0..k /\ (i # 0 => i - 1 \in 0..k)
        BY <3>2
      <4>2. g[i] = f[i] /\ (i # 0 => g[i - 1] = f[i - 1])
        BY <2>2, <4>1
      <4>3. f[i] = IF i = 0 THEN base ELSE step[i][f[i - 1]]
        BY <2>1, <4>1 DEF Walks
      <4> QED BY <4>2, <4>3
    <3> QED BY <3>1, <3>2
  <2>7. Walks(g, k + 1, A, base, step)
    BY <2>2, <2>5, <2>6, Zenon DEF Walks
  <2> QED BY <2>7
<1>4. n \in T
  BY <1>2, <1>3, NumbersFollow
<1> QED BY <1>1, <1>4

\* ... and a function of the sets of places, in which the largest comes last.
LEMMA StepsFold ==
  ASSUME NEW n \in Nat, NEW A, NEW base \in A, NEW step,
         \A i \in 1..n : \A a \in A : step[i][a] \in A
  PROVE  \E f : Folds(f, n, A, base, step)
<1>1. PICK T : T = {k \in Nat : k <= n => \E f : Folds(f, k, A, base, step)}
  OBVIOUS
<1>2. 0 \in T
  <2>1. PICK f : f = [x \in SUBSET (1..0) |-> base]
    OBVIOUS
  <2>2. \A x \in SUBSET (1..0) : x = {}
    OBVIOUS
  <2>3. Folds(f, 0, A, base, step)
    BY <2>1, <2>2 DEF Folds
  <2> QED BY <1>1, <2>3
<1>3. ASSUME NEW k \in Nat, k \in T PROVE k + 1 \in T
  <2> SUFFICES ASSUME k + 1 <= n
               PROVE  \E g : Folds(g, k + 1, A, base, step)
    BY <1>1
  <2>1. PICK f : Folds(f, k, A, base, step)
    BY <1>1, <1>3
  <2>2. PICK g : g = [x \in SUBSET (1..(k + 1)) |->
                        IF k + 1 \in x THEN step[k + 1][f[x \ {k + 1}]] ELSE f[x]]
    OBVIOUS
  <2>3. \A x \in SUBSET (1..(k + 1)) :
          x \ {k + 1} \in SUBSET (1..k) /\ (k + 1 \notin x => x \in SUBSET (1..k))
    OBVIOUS
  <2>4. g \in [SUBSET (1..(k + 1)) -> A]
    <3>1. k + 1 \in 1..n
      OBVIOUS
    <3>2. \A x \in SUBSET (1..(k + 1)) :
            f[x \ {k + 1}] \in A /\ (k + 1 \notin x => f[x] \in A)
      BY <2>1, <2>3 DEF Folds
    <3> QED BY <2>2, <3>1, <3>2
  <2>5. ASSUME NEW x \in SUBSET (1..(k + 1))
        PROVE  g[x] = IF x = {} THEN base ELSE step[Max(x)][g[x \ {Max(x)}]]
    <3>1. CASE x = {}
      <4>1. k + 1 \notin x /\ x \in SUBSET (1..k)
        BY <3>1
      <4> QED BY <2>1, <2>2, <3>1, <4>1 DEF Folds
    <3>2. CASE k + 1 \in x
      <4>1. Max(x) \in x /\ \A y \in x : y <= Max(x)
        <5>1. k + 1 \in Nat /\ x # {}
          BY <3>2
        <5> QED BY <5>1, LargestPlace
      <4>2. Max(x) = k + 1
        <5>1. Max(x) \in 1..(k + 1)
          BY <4>1
        <5>2. k + 1 <= Max(x)
          BY <3>2, <4>1
        <5> QED BY <5>1, <5>2
      <4>3. x \ {k + 1} \in SUBSET (1..(k + 1)) /\ k + 1 \notin x \ {k + 1}
        OBVIOUS
      <4>4. g[x \ {k + 1}] = f[x \ {k + 1}]
        BY <2>2, <4>3
      <4> QED BY <2>2, <3>2, <4>2, <4>4
    <3>3. CASE x # {} /\ k + 1 \notin x
      <4>1. x \in SUBSET (1..k)
        BY <2>3, <3>3
      <4>2. f[x] = step[Max(x)][f[x \ {Max(x)}]]
        BY <2>1, <3>3, <4>1 DEF Folds
      <4>3. x \ {Max(x)} \in SUBSET (1..(k + 1)) /\ k + 1 \notin x \ {Max(x)}
        BY <3>3
      <4>4. g[x \ {Max(x)}] = f[x \ {Max(x)}] /\ g[x] = f[x]
        BY <2>2, <3>3, <4>3
      <4> QED BY <3>3, <4>2, <4>4
    <3> QED BY <3>1, <3>2, <3>3
  <2>6. Folds(g, k + 1, A, base, step)
    BY <2>2, <2>4, <2>5, Zenon DEF Folds
  <2> QED BY <2>6
<1>4. n \in T
  BY <1>2, <1>3, NumbersFollow
<1> QED BY <1>1, <1>4

\* In such a function the places from 1 on come one by one.
LEMMA PlacesInTurn ==
  ASSUME NEW n \in Nat, NEW k \in 1..n
  PROVE  /\ 1..k \in SUBSET (1..n) /\ 1..k # {} /\ Max(1..k) = k
         /\ (1..k) \ {k} = 1..(k - 1)
<1>1. PICK x : x = 1..k
  OBVIOUS
<1>2. x \in SUBSET (1..k) /\ x # {} /\ k \in x /\ k \in Nat
  BY <1>1
<1>3. Max(x) \in x /\ \A y \in x : y <= Max(x)
  BY <1>2, LargestPlace
<1>4. Max(x) = k
  BY <1>1, <1>2, <1>3
<1>5. (1..k) \ {k} = 1..(k - 1) /\ 1..k \in SUBSET (1..n)
  OBVIOUS
<1> QED BY <1>1, <1>2, <1>4, <1>5

\* Two functions that begin and go on alike are alike.
LEMMA AlikeUpTo ==
  ASSUME NEW n \in Nat, NEW c, NEW d, c[0] = d[0],
         \A i \in 1..n : c[i - 1] = d[i - 1] => c[i] = d[i]
  PROVE  c[n] = d[n]
<1>1. PICK T : T = {k \in Nat : k <= n => c[k] = d[k]}
  OBVIOUS
<1>2. 0 \in T
  BY <1>1
<1>3. ASSUME NEW k \in Nat, k \in T PROVE k + 1 \in T
  <2> SUFFICES ASSUME k + 1 <= n PROVE c[k + 1] = d[k + 1]
    BY <1>1
  <2>1. k + 1 \in 1..n /\ (k + 1) - 1 = k
    OBVIOUS
  <2>2. c[k] = d[k]
    BY <1>1, <1>3
  <2> QED BY <2>1, <2>2
<1>4. n \in T
  BY <1>2, <1>3, NumbersFollow
<1> QED BY <1>1, <1>4

\* What holds of the empty sequence, and of a longer one if it holds of a sequence,
\* holds of every sequence.
LEMMA SequencesFollow ==
  ASSUME NEW R, NEW T, <<>> \in T, \A s \in Seq(R), e \in R : s \in T => Append(s, e) \in T
  PROVE  \A s \in Seq(R) : s \in T
<1>1. PICK U : U = {n \in Nat : \A s \in Seq(R) : Len(s) = n => s \in T}
  OBVIOUS
<1>2. 0 \in U
  BY <1>1
<1>3. ASSUME NEW n \in Nat, n \in U PROVE n + 1 \in U
  <2> SUFFICES ASSUME NEW s \in Seq(R), Len(s) = n + 1 PROVE s \in T
    BY <1>1
  <2>1. s # <<>>
    OBVIOUS
  <2>2. PICK t \in Seq(R), e \in R : s = Append(t, e)
    BY <2>1, SequenceEmptyOrAppend
  <2>3. Len(t) = n
    BY <2>2
  <2>4. t \in T
    BY <1>1, <1>3, <2>3
  <2> QED BY <2>2, <2>4
<1>4. \A s \in Seq(R) : Len(s) \in U
  BY <1>2, <1>3, NumbersFollow
<1> QED BY <1>1, <1>4

-----------------------------------------------------------------------------
(* What the operators on events do with one more event.                    *)

\* The places of a sequence with one more element.
LEMMA OneMore ==
  ASSUME NEW R, NEW s \in Seq(R), NEW e \in R
  PROVE  /\ Append(s, e) \in Seq(R) /\ Append(s, e) # <<>>
         /\ Len(s) \in Nat /\ Len(Append(s, e)) = Len(s) + 1
         /\ DOMAIN s = 1..Len(s) /\ DOMAIN Append(s, e) = 1..(Len(s) + 1)
         /\ Append(s, e)[Len(s) + 1] = e
         /\ \A i \in 1..Len(s) : Append(s, e)[i] = s[i] /\ s[i] \in R
  BY AppendProperties, ElementOfSeq, LenProperties

LEMMA OfKindsWalks ==
  ASSUME NEW R, NEW s \in Seq(R), NEW kinds
  PROVE  \E g \in [0..Len(s) -> Seq(R)] :
           /\ g[0] = <<>> /\ OfKinds(s, kinds) = g[Len(s)]
           /\ \A i \in 1..Len(s) :
                g[i] = IF s[i].kind \in kinds THEN Append(g[i - 1], s[i]) ELSE g[i - 1]
<1>1. PICK n \in Nat : n = Len(s)
  OBVIOUS
<1>2. PICK step : step = [i \in 1..n |-> [a \in Seq(R) |->
                            IF s[i].kind \in kinds THEN Append(a, s[i]) ELSE a]]
  OBVIOUS
<1>3. \A i \in 1..n : \A a \in Seq(R) : step[i][a] \in Seq(R)
  <2>1. \A i \in 1..n : s[i] \in R
    BY <1>1
  <2>2. \A i \in 1..n : \A a \in Seq(R) : Append(a, s[i]) \in Seq(R)
    BY <2>1
  <2> QED BY <1>2, <2>2
<1>4. PICK g : Walks(g, n, Seq(R), <<>>, step)
  <2>1. <<>> \in Seq(R)
    OBVIOUS
  <2> QED BY <1>3, <2>1, StepsDefine
<1>5. g \in [0..n -> Seq(R)] /\ g[0] = <<>>
  BY <1>4 DEF Walks
<1>6. ASSUME NEW i \in 1..n
      PROVE  g[i] = IF s[i].kind \in kinds THEN Append(g[i - 1], s[i]) ELSE g[i - 1]
  <2>1. i \in 0..n /\ i # 0 /\ i - 1 \in 0..n
    OBVIOUS
  <2>2. g[i] = step[i][g[i - 1]] /\ g[i - 1] \in Seq(R)
    BY <1>4, <2>1, Zenon DEF Walks
  <2> QED BY <1>2, <2>2, Zenon
<1>7. PICK c : c = CHOOSE kept : kept = [i \in 0..Len(s) |->
                 IF i = 0 THEN <<>>
                 ELSE IF s[i].kind \in kinds THEN Append(kept[i - 1], s[i]) ELSE kept[i - 1]]
  OBVIOUS
<1>8. c = [i \in 0..n |-> IF i = 0 THEN <<>>
                 ELSE IF s[i].kind \in kinds THEN Append(c[i - 1], s[i]) ELSE c[i - 1]]
  <2>1. g = [i \in 0..n |-> g[i]]
    BY <1>5
  <2>2. \A i \in 0..n : i # 0 => i \in 1..n
    OBVIOUS
  <2>3. g = [i \in 0..n |-> IF i = 0 THEN <<>>
                 ELSE IF s[i].kind \in kinds THEN Append(g[i - 1], s[i]) ELSE g[i - 1]]
    BY <1>5, <1>6, <2>1, <2>2, Zenon
  <2> QED BY <1>1, <1>7, <2>3, Zenon
<1>9. c[n] = g[n]
  <2>1. /\ 0 \in 0..n /\ c[0] = g[0]
        /\ \A i \in 1..n : i \in 0..n /\ i # 0
    BY <1>5, <1>8
  <2>2. ASSUME NEW i \in 1..n, c[i - 1] = g[i - 1] PROVE c[i] = g[i]
    BY <1>6, <1>8, <2>1, <2>2, Zenon
  <2> QED BY <2>1, <2>2, AlikeUpTo
<1>10. OfKinds(s, kinds) = c[n]
  BY <1>1, <1>7, Zenon DEF OfKinds
<1> QED BY <1>1, <1>5, <1>6, <1>9, <1>10

LEMMA OfKindsMore ==
  ASSUME NEW R, NEW kinds
  PROVE  /\ OfKinds(<<>>, kinds) = <<>>
         /\ \A s \in Seq(R) : OfKinds(s, kinds) \in Seq(R)
         /\ \A s \in Seq(R), e \in R : OfKinds(Append(s, e), kinds) =
              IF e.kind \in kinds THEN Append(OfKinds(s, kinds), e) ELSE OfKinds(s, kinds)
<1>1. OfKinds(<<>>, kinds) = <<>>
  <2>1. PICK s : s = <<>>
    OBVIOUS
  <2>2. PICK g : g[0] = <<>> /\ OfKinds(s, kinds) = g[Len(s)]
    <3>1. s \in Seq(R)
      BY <2>1
    <3> QED BY <3>1, OfKindsWalks
  <2>3. Len(s) = 0
    BY <2>1
  <2> QED BY <2>1, <2>2, <2>3
<1>2. \A s \in Seq(R) : OfKinds(s, kinds) \in Seq(R)
  <2> SUFFICES ASSUME NEW s \in Seq(R) PROVE OfKinds(s, kinds) \in Seq(R)
    OBVIOUS
  <2>1. PICK g \in [0..Len(s) -> Seq(R)] : OfKinds(s, kinds) = g[Len(s)]
    BY OfKindsWalks
  <2>2. Len(s) \in 0..Len(s)
    OBVIOUS
  <2> QED BY <2>1, <2>2
<1>3. ASSUME NEW s \in Seq(R), NEW e \in R
      PROVE  OfKinds(Append(s, e), kinds) =
               IF e.kind \in kinds THEN Append(OfKinds(s, kinds), e) ELSE OfKinds(s, kinds)
  <2>1. PICK t : t = Append(s, e)
    OBVIOUS
  <2>2. PICK n \in Nat : n = Len(s)
    OBVIOUS
  <2>3. t \in Seq(R) /\ Len(t) = n + 1 /\ t[n + 1] = e /\ \A i \in 1..n : t[i] = s[i]
    BY <2>1, <2>2, OneMore
  <2>4. PICK f : /\ f[0] = <<>> /\ OfKinds(s, kinds) = f[n]
                 /\ \A i \in 1..n :
                      f[i] = IF s[i].kind \in kinds THEN Append(f[i - 1], s[i]) ELSE f[i - 1]
    BY <2>2, OfKindsWalks
  <2>5. PICK g : /\ g[0] = <<>> /\ OfKinds(t, kinds) = g[n + 1]
                 /\ \A i \in 1..(n + 1) :
                      g[i] = IF t[i].kind \in kinds THEN Append(g[i - 1], t[i]) ELSE g[i - 1]
    BY <2>3, OfKindsWalks
  <2>6. \A i \in 1..n : i \in 1..(n + 1)
    OBVIOUS
  <2>7. \A i \in 1..n : f[i - 1] = g[i - 1] => f[i] = g[i]
    BY <2>3, <2>4, <2>5, <2>6, Zenon
  <2>8. f[n] = g[n]
    BY <2>4, <2>5, <2>7, AlikeUpTo
  <2>9. n + 1 \in 1..(n + 1) /\ (n + 1) - 1 = n
    OBVIOUS
  <2>10. g[n + 1] = IF e.kind \in kinds THEN Append(g[n], e) ELSE g[n]
    BY <2>3, <2>5, <2>9
  <2> QED BY <2>1, <2>4, <2>5, <2>8, <2>10
<1> QED BY <1>1, <1>2, <1>3

\* A function that is built up like that comes to what the steps come to one by one.
BuiltUp(c, n, A, base, step) ==
  c[{}] = base /\ \A x \in SUBSET (1..n) :
    x # {} /\ c[x \ {Max(x)}] \in A => c[x] = step[Max(x)][c[x \ {Max(x)}]]

ComesTo(g, n, A, base, step, end) ==
  /\ g \in [0..n -> A] /\ g[0] = base /\ end = g[n]
  /\ \A i \in 1..n : g[i] = step[i][g[i - 1]]

LEMMA FoldInTurn ==
  ASSUME NEW n \in Nat, NEW A, NEW base \in A, NEW step,
         \A i \in 1..n : \A a \in A : step[i][a] \in A,
         NEW c, BuiltUp(c, n, A, base, step)
  PROVE  \E g : ComesTo(g, n, A, base, step, c[1..n])
<1> USE DEF BuiltUp
<1>1. PICK g : Walks(g, n, A, base, step)
  BY StepsDefine
<1>2. g \in [0..n -> A] /\ g[0] = base
  BY <1>1 DEF Walks
<1>3. ASSUME NEW i \in 1..n PROVE g[i] = step[i][g[i - 1]]
  <2>1. i \in 0..n /\ i # 0
    OBVIOUS
  <2> QED BY <1>1, <2>1, Zenon DEF Walks
<1>4. PICK d : d = [i \in 0..n |-> c[1..i]]
  OBVIOUS
<1>5. d[0] = g[0]
  <2>1. 0 \in 0..n /\ 1..0 = {}
    OBVIOUS
  <2>2. d[0] = c[1..0]
    BY <1>4, <2>1
  <2> QED BY <1>2, <2>1, <2>2
<1>6. ASSUME NEW i \in 1..n, d[i - 1] = g[i - 1] PROVE d[i] = g[i]
  <2>1. i \in 0..n /\ i - 1 \in 0..n
    OBVIOUS
  <2>2. d[i] = c[1..i] /\ d[i - 1] = c[1..(i - 1)] /\ g[i - 1] \in A
    BY <1>2, <1>4, <2>1, Zenon
  <2>3. 1..i \in SUBSET (1..n) /\ 1..i # {} /\ Max(1..i) = i /\ (1..i) \ {i} = 1..(i - 1)
    BY PlacesInTurn
  <2>4. c[(1..i) \ {Max(1..i)}] = g[i - 1]
    BY <1>6, <2>2, <2>3, Zenon
  <2>5. c[1..i] = step[Max(1..i)][c[(1..i) \ {Max(1..i)}]]
    BY <2>2, <2>3, <2>4, Zenon
  <2> QED BY <1>3, <2>2, <2>3, <2>4, <2>5, Zenon
<1>7. d[n] = g[n]
  BY <1>5, <1>6, AlikeUpTo
<1>8. c[1..n] = g[n]
  <2>1. n \in 0..n
    OBVIOUS
  <2> QED BY <1>4, <1>7, <2>1, Zenon
<1> QED BY <1>2, <1>3, <1>8 DEF ComesTo

\* What a step does with the values of a function that is built up like that.
FoldsBy(f, n, A, base, step) ==
  /\ f = [x \in SUBSET (1..n) |-> f[x]] /\ f[{}] = base
  /\ \A x \in SUBSET (1..n) :
       x # {} => /\ Max(x) \in 1..n /\ f[x \ {Max(x)}] \in A
                 /\ f[x] = step[Max(x)][f[x \ {Max(x)}]]

LEMMA FoldTyped ==
  ASSUME NEW n \in Nat, NEW A, NEW base, NEW step, NEW f, Folds(f, n, A, base, step)
  PROVE  FoldsBy(f, n, A, base, step)
<1> USE DEF FoldsBy
<1>1. f = [x \in SUBSET (1..n) |-> f[x]] /\ f[{}] = base
  <2>1. {} \in SUBSET (1..n)
    OBVIOUS
  <2> QED BY <2>1, Zenon DEF Folds
<1>2. ASSUME NEW x \in SUBSET (1..n), x # {}
      PROVE  /\ Max(x) \in 1..n /\ f[x \ {Max(x)}] \in A
             /\ f[x] = step[Max(x)][f[x \ {Max(x)}]]
  <2>1. Max(x) \in x
    BY <1>2, LargestPlace
  <2>2. Max(x) \in 1..n /\ x \ {Max(x)} \in SUBSET (1..n)
    BY <2>1
  <2>3. f[x \ {Max(x)}] \in A
    BY <2>2, Zenon DEF Folds
  <2>4. f[x] = step[Max(x)][f[x \ {Max(x)}]]
    BY <1>2, Zenon DEF Folds
  <2> QED BY <2>2, <2>3, <2>4
<1> QED BY <1>1, <1>2

\* One more element takes one more step.
LEMMA OneMoreStep ==
  ASSUME NEW n \in Nat, NEW m, m = n + 1, NEW A, NEW base, NEW step, NEW more,
         \A i \in 1..n : step[i] = more[i],
         NEW f, NEW v, ComesTo(f, n, A, base, step, v),
         NEW g, NEW w, ComesTo(g, m, A, base, more, w)
  PROVE  v \in A /\ w = more[m][v]
<1>1. f[0] = g[0]
  BY DEF ComesTo
<1>2. ASSUME NEW i \in 1..n, f[i - 1] = g[i - 1] PROVE f[i] = g[i]
  <2>1. i \in 1..(n + 1) /\ step[i] = more[i]
    OBVIOUS
  <2> QED BY <1>2, <2>1, Zenon DEF ComesTo
<1>3. f[n] = g[n]
  BY <1>1, <1>2, AlikeUpTo
<1>4. n \in 0..n /\ n + 1 \in 1..(n + 1) /\ (n + 1) - 1 = n
  OBVIOUS
<1>5. v = f[n] /\ f[n] \in A
  BY <1>4 DEF ComesTo
<1>6. w = g[n + 1] /\ g[n + 1] = more[n + 1][g[n]]
  BY <1>4 DEF ComesTo
<1> QED BY <1>3, <1>5, <1>6

\* What has a text: an event, or a piece of one.  And an event with a range.
Items == Events \cup [kind : Kinds, text : Seq(Nat)]
Wide  == {e \in Events : 1 <= e.first /\ e.first <= e.last}

LEMMA ItemsGrow ==
  /\ Events \subseteq Items /\ Wide \subseteq Events
  /\ \A e \in Items : e.kind \in Kinds /\ e.text \in Seq(Nat)
  /\ \A e \in Items, a \in Seq(Nat) : a \o e.text \in Seq(Nat)
<1>1. \A e \in Items : e.kind \in Kinds /\ e.text \in Seq(Nat)
  BY DEF Items, Events
<1>2. \A a \in Seq(Nat), b \in Seq(Nat) : a \o b \in Seq(Nat)
  OBVIOUS
<1> QED BY <1>1, <1>2 DEF Items, Wide

LEMMA WideIs ==
  /\ \A e \in Wide : /\ e \in Events /\ e.kind \in Kinds /\ e.text \in Seq(Nat)
                     /\ e.first \in Nat \ {0} /\ e.last \in Nat \ {0} /\ e.first <= e.last
                     /\ e = [kind |-> e.kind, first |-> e.first, last |-> e.last, text |-> e.text]
  /\ \A k \in Kinds, m \in Nat \ {0}, n \in Nat, t \in Seq(Nat) :
       m <= n => [kind |-> k, first |-> m, last |-> n, text |-> t] \in Wide
<1>1. \A e \in Events : e = [kind |-> e.kind, first |-> e.first, last |-> e.last, text |-> e.text]
  BY DEF Events
<1> QED BY <1>1 DEF Wide, Events

\* Texts, element by element.
TextsStep(s) == [i \in DOMAIN s |-> [a \in Seq(Nat) |-> a \o s[i].text]]

LEMMA TextsFold ==
  ASSUME NEW s \in Seq(Items)
  PROVE  \E g : ComesTo(g, Len(s), Seq(Nat), <<>>, TextsStep(s), Texts(s))
<1>1. PICK n \in Nat : n = Len(s) /\ DOMAIN s = 1..n /\ \A i \in 1..n : s[i] \in Items
  OBVIOUS
<1>2. PICK step : step = TextsStep(s)
  OBVIOUS
<1>3. PICK A : A = Seq(Nat)
  OBVIOUS
<1>4. PICK none : none = <<>>
  OBVIOUS
<1>5. none \in A /\ \A i \in 1..n : \A a \in A : /\ step[i][a] = a \o s[i].text
                                                /\ step[i][a] \in A
  <2>1. \A i \in 1..n : \A a \in A : a \o s[i].text \in A
    BY <1>1, <1>3, ItemsGrow, Zenon
  <2>2. none \in A
    BY <1>3, <1>4
  <2> QED BY <1>1, <1>2, <1>3, <2>1, <2>2, Zenon DEF TextsStep
<1>6. PICK c : c = CHOOSE h : h = [x \in SUBSET DOMAIN s |->
                 IF x = {} THEN <<>> ELSE h[x \ {Max(x)}] \o s[Max(x)].text]
  OBVIOUS
<1>7. c = [x \in SUBSET (1..n) |->
             IF x = {} THEN none ELSE c[x \ {Max(x)}] \o s[Max(x)].text]
  <2>1. PICK f : Folds(f, n, A, none, step)
    BY <1>5, StepsFold
  <2>2. FoldsBy(f, n, A, none, step)
    BY <2>1, FoldTyped
  <2>3. f = [x \in SUBSET (1..n) |->
               IF x = {} THEN none ELSE f[x \ {Max(x)}] \o s[Max(x)].text]
    BY <1>5, <2>2, Zenon DEF FoldsBy
  <2> QED BY <1>1, <1>4, <1>6, <2>3, Zenon
<1>8. BuiltUp(c, n, A, none, step)
  <2>1. \A x \in SUBSET (1..n) : x # {} => Max(x) \in 1..n
    BY LargestPlace
  <2>2. {} \in SUBSET (1..n)
    OBVIOUS
  <2> QED BY <1>5, <1>7, <2>1, <2>2, Zenon DEF BuiltUp
<1>9. PICK g : ComesTo(g, n, A, none, step, c[1..n])
  BY <1>5, <1>8, FoldInTurn
<1>10. Texts(s) = c[1..n]
  BY <1>1, <1>6 DEF Texts, FoldLeft, MapThenFoldSet
<1> QED BY <1>1, <1>2, <1>3, <1>4, <1>9, <1>10

LEMMA TextsMore ==
  /\ Texts(<<>>) = <<>>
  /\ \A s \in Seq(Items) : Texts(s) \in Seq(Nat)
  /\ \A s \in Seq(Items), e \in Items : Texts(Append(s, e)) = Texts(s) \o e.text
<1>1. Texts(<<>>) = <<>>
  <2>1. PICK s : s = <<>>
    OBVIOUS
  <2>2. PICK g : ComesTo(g, Len(s), Seq(Nat), <<>>, TextsStep(s), Texts(s))
    <3>1. s \in Seq(Items)
      BY <2>1
    <3> QED BY <3>1, TextsFold
  <2>3. Len(s) = 0
    BY <2>1
  <2> QED BY <2>1, <2>2, <2>3 DEF ComesTo
<1>2. ASSUME NEW s \in Seq(Items) PROVE Texts(s) \in Seq(Nat)
  <2>1. PICK g : ComesTo(g, Len(s), Seq(Nat), <<>>, TextsStep(s), Texts(s))
    BY TextsFold
  <2>2. Len(s) \in 0..Len(s)
    OBVIOUS
  <2> QED BY <2>1, <2>2, Zenon DEF ComesTo
<1>3. ASSUME NEW s \in Seq(Items), NEW e \in Items
      PROVE  Texts(Append(s, e)) = Texts(s) \o e.text
  <2>1. PICK t : t = Append(s, e)
    OBVIOUS
  <2>2. PICK n \in Nat : n = Len(s)
    OBVIOUS
  <2>3. /\ t \in Seq(Items) /\ Len(t) = n + 1 /\ DOMAIN t = 1..(n + 1) /\ DOMAIN s = 1..n
        /\ t[n + 1] = e /\ \A i \in 1..n : t[i] = s[i]
    BY <2>1, <2>2, OneMore
  <2>4. PICK step, more : step = TextsStep(s) /\ more = TextsStep(t)
    OBVIOUS
  <2>5. /\ \A i \in 1..n : step[i] = more[i]
        /\ more[n + 1] = [a \in Seq(Nat) |-> a \o e.text]
    <3>1. n + 1 \in 1..(n + 1) /\ \A i \in 1..n : i \in 1..(n + 1)
      OBVIOUS
    <3> QED BY <2>3, <2>4, <3>1, Zenon DEF TextsStep
  <2>6. PICK A, none : A = Seq(Nat) /\ none = <<>>
    OBVIOUS
  <2>7. PICK f : ComesTo(f, n, A, none, step, Texts(s))
    BY <2>2, <2>4, <2>6, TextsFold
  <2>8. PICK m, g : m = n + 1 /\ ComesTo(g, m, A, none, more, Texts(t))
    BY <2>3, <2>4, <2>6, TextsFold
  <2>9. \A i \in 1..n : step[i] = more[i]
    BY <2>5
  <2>10. Texts(s) \in A /\ Texts(t) = more[m][Texts(s)]
    BY <2>7, <2>8, <2>9, OneMoreStep
  <2> QED BY <2>1, <2>5, <2>6, <2>8, <2>10
<1> QED BY <1>1, <1>2, <1>3

LEMMA WidthGrows ==
  \A e \in Wide, a \in Nat : a + (e.last - e.first + 1) \in Nat
BY WideIs

\* Widths.
WidthStep(s) == [i \in DOMAIN s |-> [a \in Nat |-> a + (s[i].last - s[i].first + 1)]]

LEMMA WidthFold ==
  ASSUME NEW s \in Seq(Wide)
  PROVE  \E g : ComesTo(g, Len(s), Nat, 0, WidthStep(s), Width(s))
<1>1. PICK n \in Nat : n = Len(s) /\ DOMAIN s = 1..n /\ \A i \in 1..n : s[i] \in Wide
  OBVIOUS
<1>2. PICK step : step = WidthStep(s)
  OBVIOUS
<1>3. PICK A : A = Nat
  OBVIOUS
<1>4. PICK none : none = 0
  OBVIOUS
<1>5. none \in A /\ \A i \in 1..n : \A a \in A : /\ step[i][a] = a + (s[i].last - s[i].first + 1)
                                                /\ step[i][a] \in A
  <2>1. \A i \in 1..n : \A a \in A : a + (s[i].last - s[i].first + 1) \in A
    BY <1>1, <1>3, WidthGrows, Zenon
  <2>2. none \in A
    BY <1>3, <1>4
  <2> QED BY <1>1, <1>2, <1>3, <2>1, <2>2, Zenon DEF WidthStep
<1>6. PICK c : c = CHOOSE h : h = [x \in SUBSET DOMAIN s |->
                 IF x = {} THEN 0 ELSE h[x \ {Max(x)}] + (s[Max(x)].last - s[Max(x)].first + 1)]
  OBVIOUS
<1>7. c = [x \in SUBSET (1..n) |->
             IF x = {} THEN none ELSE c[x \ {Max(x)}] + (s[Max(x)].last - s[Max(x)].first + 1)]
  <2>1. PICK f : Folds(f, n, A, none, step)
    BY <1>5, StepsFold
  <2>2. FoldsBy(f, n, A, none, step)
    BY <2>1, FoldTyped
  <2>3. f = [x \in SUBSET (1..n) |->
               IF x = {} THEN none ELSE f[x \ {Max(x)}] + (s[Max(x)].last - s[Max(x)].first + 1)]
    BY <1>5, <2>2, Zenon DEF FoldsBy
  <2> QED BY <1>1, <1>4, <1>6, <2>3, Zenon
<1>8. BuiltUp(c, n, A, none, step)
  <2>1. \A x \in SUBSET (1..n) : x # {} => Max(x) \in 1..n
    BY LargestPlace
  <2>2. {} \in SUBSET (1..n)
    OBVIOUS
  <2> QED BY <1>5, <1>7, <2>1, <2>2, Zenon DEF BuiltUp
<1>9. PICK g : ComesTo(g, n, A, none, step, c[1..n])
  BY <1>5, <1>8, FoldInTurn
<1>10. Width(s) = c[1..n]
  BY <1>1, <1>6 DEF Width, FoldLeft, MapThenFoldSet
<1> QED BY <1>1, <1>2, <1>3, <1>4, <1>9, <1>10

LEMMA WidthMore ==
  /\ Width(<<>>) = 0
  /\ \A s \in Seq(Wide) : Width(s) \in Nat
  /\ \A s \in Seq(Wide), e \in Wide : Width(Append(s, e)) = Width(s) + (e.last - e.first + 1)
<1>1. Width(<<>>) = 0
  <2>1. PICK s : s = <<>>
    OBVIOUS
  <2>2. PICK g : ComesTo(g, Len(s), Nat, 0, WidthStep(s), Width(s))
    <3>1. s \in Seq(Wide)
      BY <2>1
    <3> QED BY <3>1, WidthFold
  <2>3. Len(s) = 0
    BY <2>1
  <2> QED BY <2>1, <2>2, <2>3 DEF ComesTo
<1>2. ASSUME NEW s \in Seq(Wide) PROVE Width(s) \in Nat
  <2>1. PICK g : ComesTo(g, Len(s), Nat, 0, WidthStep(s), Width(s))
    BY WidthFold
  <2>2. Len(s) \in 0..Len(s)
    OBVIOUS
  <2> QED BY <2>1, <2>2, Zenon DEF ComesTo
<1>3. ASSUME NEW s \in Seq(Wide), NEW e \in Wide
      PROVE  Width(Append(s, e)) = Width(s) + (e.last - e.first + 1)
  <2>1. PICK t : t = Append(s, e)
    OBVIOUS
  <2>2. PICK n \in Nat : n = Len(s)
    OBVIOUS
  <2>3. /\ t \in Seq(Wide) /\ Len(t) = n + 1 /\ DOMAIN t = 1..(n + 1) /\ DOMAIN s = 1..n
        /\ t[n + 1] = e /\ \A i \in 1..n : t[i] = s[i]
    BY <2>1, <2>2, OneMore
  <2>4. PICK step, more : step = WidthStep(s) /\ more = WidthStep(t)
    OBVIOUS
  <2>5. /\ \A i \in 1..n : step[i] = more[i]
        /\ more[n + 1] = [a \in Nat |-> a + (e.last - e.first + 1)]
    <3>1. n + 1 \in 1..(n + 1) /\ \A i \in 1..n : i \in 1..(n + 1)
      OBVIOUS
    <3> QED BY <2>3, <2>4, <3>1, Zenon DEF WidthStep
  <2>6. PICK A, none : A = Nat /\ none = 0
    OBVIOUS
  <2>7. PICK f : ComesTo(f, n, A, none, step, Width(s))
    BY <2>2, <2>4, <2>6, WidthFold
  <2>8. PICK m, g : m = n + 1 /\ ComesTo(g, m, A, none, more, Width(t))
    BY <2>3, <2>4, <2>6, WidthFold
  <2>9. \A i \in 1..n : step[i] = more[i]
    BY <2>5
  <2>10. Width(s) \in A /\ Width(t) = more[m][Width(s)]
    BY <2>7, <2>8, <2>9, OneMoreStep
  <2> QED BY <2>1, <2>5, <2>6, <2>8, <2>10
<1> QED BY <1>1, <1>2, <1>3

-----------------------------------------------------------------------------
(* What is seen of a sequence of events: its channels, their texts, and    *)
(* whether its numbers follow one another.                                 *)

Histories == Seq(Wide)
Words     == Seq(Nat)

\* The provers go by these names of the operations on histories and on texts, and
\* by what the lemmas say of them.
Empty      == <<>>
Plus(s, e) == Append(s, e)
Then(a, b) == a \o b

\* Its numbers follow one another from n on, up to but not including After(n, s).
TilesFrom(n, s) == \A i \in DOMAIN s : s[i].first = IF i = 1 THEN n ELSE s[i - 1].last + 1
After(n, s)     == IF s = <<>> THEN n ELSE Last(s).last + 1

\* No event but the last one is the outcome.
Closing(s) == \A f \in Histories, e \in Wide : s = Plus(f, e) => Channel(f, "terminal") = Empty

\* One more element behind two sequences.
LEMMA AppendToConcat ==
  ASSUME NEW R, NEW a \in Seq(R), NEW b \in Seq(R), NEW e \in R
  PROVE  a \o Append(b, e) = Append(a \o b, e)
<1>1. Append(b, e) = b \o <<e>> /\ <<e>> \in Seq(R) /\ a \o b \in Seq(R)
  OBVIOUS
<1>2. Append(a \o b, e) = (a \o b) \o <<e>>
  BY <1>1, AppendIsConcat
<1>3. (a \o b) \o <<e>> = a \o (b \o <<e>>)
  BY <1>1, ConcatAssociative
<1> QED BY <1>1, <1>2, <1>3

LEMMA HistoriesGrow ==
  /\ Empty \in Histories
  /\ \A s \in Histories : Then(s, Empty) = s /\ Then(Empty, s) = s
  /\ \A s \in Histories, e \in Wide :
       /\ Plus(s, e) \in Histories /\ Plus(s, e) # Empty
       /\ Then(s, Plus(Empty, e)) = Plus(s, e)
  /\ \A a \in Histories, b \in Histories : Then(a, b) \in Histories
  /\ \A a \in Histories, b \in Histories, e \in Wide : Then(a, Plus(b, e)) = Plus(Then(a, b), e)
  /\ \A a \in Histories, b \in Histories, c \in Histories :
       Then(Then(a, b), c) = Then(a, Then(b, c))
  /\ \A s \in Histories : s # Empty => \E f \in Histories, e \in Wide : s = Plus(f, e)
  /\ \A s \in Histories, t \in Histories, d \in Wide, e \in Wide :
       Plus(s, d) = Plus(t, e) => s = t /\ d = e
<1>1. \A s \in Seq(Wide), e \in Wide : Append(s, e) \in Seq(Wide) /\ Append(s, e) # <<>>
  BY AppendProperties
<1>2. \A s \in Seq(Wide), e \in Wide : Append(s, e) = s \o Append(<<>>, e)
  <2>1. \A s \in Seq(Wide), e \in Wide : Append(s, e) = s \o <<e>>
    BY AppendIsConcat
  <2>2. \A e : Append(<<>>, e) = <<e>>
    OBVIOUS
  <2> QED BY <2>1, <2>2, Zenon
<1>3. \A s \in Seq(Wide) : s # <<>> => \E f \in Seq(Wide), e \in Wide : s = Append(f, e)
  BY SequenceEmptyOrAppend
<1>4. \A a \in Seq(Wide), b \in Seq(Wide), e \in Wide : a \o Append(b, e) = Append(a \o b, e)
  BY AppendToConcat
<1>5. <<>> \in Seq(Wide) /\ \A s \in Seq(Wide) : s \o <<>> = s /\ <<>> \o s = s
  OBVIOUS
<1>6. \A a \in Seq(Wide), b \in Seq(Wide) : a \o b \in Seq(Wide)
  OBVIOUS
<1>7. ASSUME NEW a \in Seq(Wide), NEW b \in Seq(Wide), NEW c \in Seq(Wide)
      PROVE  (a \o b) \o c = a \o (b \o c)
  BY ConcatAssociative
<1>8. ASSUME NEW s \in Seq(Wide), NEW t \in Seq(Wide), NEW d \in Wide, NEW e \in Wide,
             Append(s, d) = Append(t, e)
      PROVE  s = t /\ d = e
  BY <1>8, AppendInjective
<1> QED BY <1>1, <1>2, <1>3, <1>4, <1>5, <1>6, <1>7, <1>8, Zenon DEF Histories, Empty, Plus, Then

InAnyOrder(S) == \A t \in S, u \in S, v \in S : (t \o u) \o v = t \o (u \o v)

LEMMA JoinInAnyOrder ==
  ASSUME NEW R
  PROVE  InAnyOrder(Seq(R))
<1> USE DEF InAnyOrder
<1> SUFFICES ASSUME NEW t \in Seq(R), NEW u \in Seq(R), NEW v \in Seq(R)
             PROVE  (t \o u) \o v = t \o (u \o v)
  OBVIOUS
<1> QED BY ConcatAssociative

LEMMA WordsJoin ==
  /\ Empty \in Words
  /\ \A t \in Words : Then(t, Empty) = t /\ Then(Empty, t) = t
  /\ \A t \in Words, u \in Words : Then(t, u) \in Words
  /\ \A t \in Words, u \in Words, v \in Words : Then(Then(t, u), v) = Then(t, Then(u, v))
  /\ \A e \in Wide : e.text \in Words
<1>1. InAnyOrder(Seq(Nat))
  BY JoinInAnyOrder
<1>2. <<>> \in Seq(Nat) /\ \A t \in Seq(Nat) : t \o <<>> = t /\ <<>> \o t = t
  OBVIOUS
<1>3. \A t \in Seq(Nat), u \in Seq(Nat) : t \o u \in Seq(Nat)
  OBVIOUS
<1> QED BY <1>1, <1>2, <1>3, WideIs, Zenon DEF Words, Empty, Then, InAnyOrder

\* What holds of the empty history, and of a longer one if it holds of a history,
\* holds of every history.
LEMMA HistoriesFollow ==
  ASSUME NEW T, Empty \in T, \A s \in Histories, e \in Wide : s \in T => Plus(s, e) \in T
  PROVE  \A s \in Histories : s \in T
<1> USE DEF Empty, Plus, Histories
<1> QED BY SequencesFollow

LEMMA SelectionsMore ==
  ASSUME NEW K
  PROVE  /\ OfKinds(Empty, K) = Empty
         /\ \A s \in Histories : OfKinds(s, K) \in Histories
         /\ \A s \in Histories, e \in Wide :
              /\ e.kind \in K => OfKinds(Plus(s, e), K) = Plus(OfKinds(s, K), e)
              /\ e.kind \notin K => OfKinds(Plus(s, e), K) = OfKinds(s, K)
<1>1. /\ OfKinds(<<>>, K) = <<>>
      /\ \A s \in Seq(Wide) : OfKinds(s, K) \in Seq(Wide)
      /\ \A s \in Seq(Wide), e \in Wide : OfKinds(Append(s, e), K) =
           IF e.kind \in K THEN Append(OfKinds(s, K), e) ELSE OfKinds(s, K)
  BY OfKindsMore
<1> QED BY <1>1, Zenon DEF Histories, Empty, Plus

LEMMA TextsOfHistories ==
  /\ Texts(Empty) = Empty
  /\ \A s \in Histories : Texts(s) \in Words
  /\ \A s \in Histories, e \in Wide : Texts(Plus(s, e)) = Then(Texts(s), e.text)
<1>1. \A s \in Seq(Wide) : s \in Seq(Items)
  BY ItemsGrow, SeqMonotonic
<1>2. \A e \in Wide : e \in Items
  BY ItemsGrow
<1> QED BY <1>1, <1>2, TextsMore, Zenon DEF Histories, Words, Empty, Plus, Then

LEMMA WidthOfHistories ==
  /\ Width(Empty) = 0
  /\ \A s \in Histories : Width(s) \in Nat
  /\ \A s \in Histories, e \in Wide :
       Width(Plus(s, e)) = Width(s) + (e.last - e.first + 1)
BY WidthMore, Zenon DEF Histories, Empty, Plus

LEMMA ChannelsMore ==
  ASSUME NEW k
  PROVE  /\ Channel(Empty, k) = Empty /\ TextOf(Empty, k) = Empty
         /\ \A s \in Histories : Channel(s, k) \in Histories /\ TextOf(s, k) \in Words
         /\ \A s \in Histories, e \in Wide :
              /\ e.kind = k => /\ Channel(Plus(s, e), k) = Plus(Channel(s, k), e)
                               /\ TextOf(Plus(s, e), k) = Then(TextOf(s, k), e.text)
              /\ e.kind # k => /\ Channel(Plus(s, e), k) = Channel(s, k)
                               /\ TextOf(Plus(s, e), k) = TextOf(s, k)
<1>1. PICK K : K = {k}
  OBVIOUS
<1>2. \A s : Channel(s, k) = OfKinds(s, K) /\ TextOf(s, k) = Texts(OfKinds(s, K))
  BY <1>1 DEF Channel, TextOf
<1>3. \A e \in Wide : e.kind = k <=> e.kind \in K
  BY <1>1
<1>4. Channel(Empty, k) = Empty /\ TextOf(Empty, k) = Empty
  BY <1>2, SelectionsMore, TextsOfHistories
<1>5. ASSUME NEW s \in Histories
      PROVE  Channel(s, k) \in Histories /\ TextOf(s, k) \in Words
  <2>1. OfKinds(s, K) \in Histories
    BY SelectionsMore
  <2> QED BY <1>2, <2>1, TextsOfHistories, Zenon
<1>6. ASSUME NEW s \in Histories, NEW e \in Wide
      PROVE  /\ e.kind = k => /\ Channel(Plus(s, e), k) = Plus(Channel(s, k), e)
                              /\ TextOf(Plus(s, e), k) = Then(TextOf(s, k), e.text)
             /\ e.kind # k => /\ Channel(Plus(s, e), k) = Channel(s, k)
                              /\ TextOf(Plus(s, e), k) = TextOf(s, k)
  <2>1. OfKinds(s, K) \in Histories
    BY SelectionsMore
  <2> QED BY <1>2, <1>3, <2>1, SelectionsMore, TextsOfHistories
<1> QED BY <1>4, <1>5, <1>6

\* The channels of two sequences, one behind the other.
LEMMA ChannelsConcat ==
  ASSUME NEW k, NEW a \in Histories, NEW b \in Histories
  PROVE  /\ Channel(Then(a, b), k) = Then(Channel(a, k), Channel(b, k))
         /\ TextOf(Then(a, b), k) = Then(TextOf(a, k), TextOf(b, k))
<1>1. PICK T : T = {s \in Histories : /\ Channel(Then(a, s), k) = Then(Channel(a, k), Channel(s, k))
                                      /\ TextOf(Then(a, s), k) = Then(TextOf(a, k), TextOf(s, k))}
  OBVIOUS
<1>2. Channel(a, k) \in Histories /\ TextOf(a, k) \in Words
  BY ChannelsMore
<1>3. Empty \in T
  BY <1>1, <1>2, ChannelsMore, HistoriesGrow, WordsJoin
<1>4. ASSUME NEW s \in Histories, NEW e \in Wide, s \in T PROVE Plus(s, e) \in T
  <2>1. /\ Then(a, Plus(s, e)) = Plus(Then(a, s), e)
        /\ Then(a, s) \in Histories /\ Plus(s, e) \in Histories
    BY HistoriesGrow
  <2>2. /\ Channel(s, k) \in Histories /\ TextOf(s, k) \in Words /\ e.text \in Words
    BY ChannelsMore, WordsJoin
  <2>3. /\ Channel(Then(a, s), k) = Then(Channel(a, k), Channel(s, k))
        /\ TextOf(Then(a, s), k) = Then(TextOf(a, k), TextOf(s, k))
    BY <1>1, <1>4
  <2>4. CASE e.kind = k
    <3>1. /\ Channel(Plus(Then(a, s), e), k) = Plus(Channel(Then(a, s), k), e)
          /\ TextOf(Plus(Then(a, s), e), k) = Then(TextOf(Then(a, s), k), e.text)
          /\ Channel(Plus(s, e), k) = Plus(Channel(s, k), e)
          /\ TextOf(Plus(s, e), k) = Then(TextOf(s, k), e.text)
      BY <2>1, <2>4, ChannelsMore
    <3>2. Then(Channel(a, k), Plus(Channel(s, k), e)) = Plus(Then(Channel(a, k), Channel(s, k)), e)
      BY <1>2, <2>2, HistoriesGrow
    <3>3. Then(Then(TextOf(a, k), TextOf(s, k)), e.text)
            = Then(TextOf(a, k), Then(TextOf(s, k), e.text))
      BY <1>2, <2>2, WordsJoin
    <3> QED BY <1>1, <2>1, <2>3, <3>1, <3>2, <3>3
  <2>5. CASE e.kind # k
    <3>1. /\ Channel(Plus(Then(a, s), e), k) = Channel(Then(a, s), k)
          /\ TextOf(Plus(Then(a, s), e), k) = TextOf(Then(a, s), k)
          /\ Channel(Plus(s, e), k) = Channel(s, k)
          /\ TextOf(Plus(s, e), k) = TextOf(s, k)
      BY <2>1, <2>5, ChannelsMore
    <3> QED BY <1>1, <2>1, <2>3, <3>1
  <2> QED BY <2>4, <2>5
<1>5. b \in T
  BY <1>3, <1>4, HistoriesFollow
<1> QED BY <1>1, <1>5

LEMMA NumbersMore ==
  ASSUME NEW n \in Nat
  PROVE  /\ TilesFrom(n, Empty) /\ After(n, Empty) = n
         /\ \A s \in Histories : After(n, s) \in Nat
         /\ \A s \in Histories, e \in Wide :
              /\ TilesFrom(n, Plus(s, e)) <=> TilesFrom(n, s) /\ e.first = After(n, s)
              /\ After(n, Plus(s, e)) = e.last + 1
<1>1. TilesFrom(n, <<>>) /\ After(n, <<>>) = n
  BY DEF TilesFrom, After
<1>2. ASSUME NEW s \in Seq(Wide) PROVE After(n, s) \in Nat
  <2>1. CASE s = <<>>
    BY <2>1 DEF After
  <2>2. CASE s # <<>>
    <3>1. s[Len(s)] \in Wide
      BY <2>2
    <3>2. s[Len(s)].last \in Nat
      BY <3>1, WideIs
    <3> QED BY <2>2, <3>2 DEF After, Last
  <2> QED BY <2>1, <2>2
<1>3. ASSUME NEW s \in Seq(Wide), NEW e \in Wide
      PROVE  /\ TilesFrom(n, Append(s, e)) <=> TilesFrom(n, s) /\ e.first = After(n, s)
             /\ After(n, Append(s, e)) = e.last + 1
  <2>1. PICK t, m : t = Append(s, e) /\ m = Len(s)
    OBVIOUS
  <2>2. /\ m \in Nat /\ Len(t) = m + 1 /\ DOMAIN t = 1..(m + 1) /\ DOMAIN s = 1..m
        /\ t[m + 1] = e /\ t # <<>> /\ \A i \in 1..m : t[i] = s[i]
    BY <2>1, OneMore
  <2>3. After(n, s) = IF m = 0 THEN n ELSE s[m].last + 1
    BY <2>1 DEF After, Last
  <2>4. \A i \in 1..m : t[i].first = (IF i = 1 THEN n ELSE t[i - 1].last + 1)
                        <=> s[i].first = (IF i = 1 THEN n ELSE s[i - 1].last + 1)
    BY <2>2
  <2>5. e.first = After(n, s) <=>
          t[m + 1].first = IF m + 1 = 1 THEN n ELSE t[(m + 1) - 1].last + 1
    BY <2>2, <2>3
  <2>6. TilesFrom(n, t) <=> TilesFrom(n, s) /\ e.first = After(n, s)
    <3>1. 1..(m + 1) = 1..m \cup {m + 1}
      BY <2>2
    <3> QED BY <2>2, <2>4, <2>5, <3>1, Zenon DEF TilesFrom
  <2>7. After(n, t) = e.last + 1
    BY <2>2 DEF After, Last
  <2> QED BY <2>1, <2>6, <2>7
<1> QED BY <1>1, <1>2, <1>3, Zenon DEF Histories, Empty, Plus

LEMMA NumbersConcat ==
  ASSUME NEW n \in Nat, NEW a \in Histories, NEW b \in Histories
  PROVE  /\ TilesFrom(n, Then(a, b)) <=> TilesFrom(n, a) /\ TilesFrom(After(n, a), b)
         /\ After(n, Then(a, b)) = After(After(n, a), b)
<1>1. PICK m \in Nat : m = After(n, a)
  BY NumbersMore
<1>2. PICK T : T = {s \in Histories :
                      /\ TilesFrom(n, Then(a, s)) <=> TilesFrom(n, a) /\ TilesFrom(m, s)
                      /\ After(n, Then(a, s)) = After(m, s)}
  OBVIOUS
<1>3. Empty \in T
  <2>1. TilesFrom(m, Empty) /\ After(m, Empty) = m
    BY NumbersMore
  <2>2. Then(a, Empty) = a /\ Empty \in Histories
    BY HistoriesGrow
  <2> QED BY <1>1, <1>2, <2>1, <2>2
<1>4. ASSUME NEW s \in Histories, NEW e \in Wide, s \in T PROVE Plus(s, e) \in T
  <2>1. /\ Then(a, Plus(s, e)) = Plus(Then(a, s), e)
        /\ Then(a, s) \in Histories /\ Plus(s, e) \in Histories
    BY HistoriesGrow
  <2>2. /\ TilesFrom(n, Plus(Then(a, s), e)) <=>
             TilesFrom(n, Then(a, s)) /\ e.first = After(n, Then(a, s))
        /\ After(n, Plus(Then(a, s), e)) = e.last + 1
    BY <2>1, NumbersMore
  <2>3. /\ TilesFrom(m, Plus(s, e)) <=> TilesFrom(m, s) /\ e.first = After(m, s)
        /\ After(m, Plus(s, e)) = e.last + 1
    BY NumbersMore
  <2>4. /\ TilesFrom(n, Then(a, s)) <=> TilesFrom(n, a) /\ TilesFrom(m, s)
        /\ After(n, Then(a, s)) = After(m, s)
    BY <1>2, <1>4
  <2>5. /\ TilesFrom(n, Then(a, Plus(s, e))) <=> TilesFrom(n, a) /\ TilesFrom(m, Plus(s, e))
        /\ After(n, Then(a, Plus(s, e))) = After(m, Plus(s, e))
    BY <2>1, <2>2, <2>3, <2>4, Zenon
  <2> QED BY <1>2, <2>1, <2>5
<1>5. b \in T
  BY <1>3, <1>4, HistoriesFollow
<1> QED BY <1>1, <1>2, <1>5

\* Its numbers end as far behind as it is wide.
LEMMA WideAsItTiles ==
  ASSUME NEW n \in Nat, NEW s \in Histories, TilesFrom(n, s)
  PROVE  After(n, s) = n + Width(s)
<1>1. PICK T : T = {t \in Histories : TilesFrom(n, t) => After(n, t) = n + Width(t)}
  OBVIOUS
<1>2. Empty \in T
  <2>1. Empty \in Histories /\ After(n, Empty) = n /\ Width(Empty) = 0
    BY NumbersMore, WidthOfHistories, HistoriesGrow
  <2> QED BY <1>1, <2>1
<1>3. ASSUME NEW t \in Histories, NEW e \in Wide, t \in T PROVE Plus(t, e) \in T
  <2>1. PICK u : u = Plus(t, e) /\ u \in Histories
    BY HistoriesGrow
  <2> SUFFICES ASSUME TilesFrom(n, u) PROVE After(n, u) = n + Width(u)
    BY <1>1, <2>1
  <2>2. TilesFrom(n, t) /\ e.first = After(n, t) /\ After(n, u) = e.last + 1
    BY <2>1, NumbersMore
  <2>3. After(n, t) = n + Width(t)
    BY <1>1, <1>3, <2>2
  <2>4. Width(u) = Width(t) + (e.last - e.first + 1) /\ Width(t) \in Nat
    BY <2>1, WidthOfHistories
  <2>5. e.first \in Nat /\ e.last \in Nat
    BY WideIs
  <2> QED BY <2>2, <2>3, <2>4, <2>5
<1>4. s \in T
  BY <1>2, <1>3, HistoriesFollow
<1> QED BY <1>1, <1>4

\* A history is empty, or has something of a kind, or has nothing of it.
LEMMA NoneOfKind ==
  ASSUME NEW k, NEW s \in Histories
  PROVE  Channel(s, k) = Empty <=> \A i \in DOMAIN s : s[i].kind # k
<1>1. PICK T : T = {t \in Histories : Channel(t, k) = Empty <=> \A i \in DOMAIN t : t[i].kind # k}
  OBVIOUS
<1>2. Empty \in T
  <2>1. DOMAIN Empty = {}
    BY DEF Empty
  <2> QED BY <1>1, <2>1, ChannelsMore, HistoriesGrow
<1>3. ASSUME NEW t \in Histories, NEW e \in Wide, t \in T PROVE Plus(t, e) \in T
  <2>1. PICK u, m : /\ u = Plus(t, e) /\ m \in Nat /\ DOMAIN t = 1..m /\ DOMAIN u = 1..(m + 1)
                    /\ u[m + 1] = e /\ \A i \in 1..m : u[i] = t[i]
    <3>1. PICK u, m : u = Append(t, e) /\ m = Len(t)
      OBVIOUS
    <3>2. /\ m \in Nat /\ DOMAIN t = 1..m /\ DOMAIN u = 1..(m + 1)
          /\ u[m + 1] = e /\ \A i \in 1..m : u[i] = t[i]
      BY <3>1, OneMore DEF Histories
    <3> QED BY <3>1, <3>2, Zenon DEF Plus
  <2>2. 1..(m + 1) = 1..m \cup {m + 1}
    BY <2>1
  <2>3. (\A i \in DOMAIN u : u[i].kind # k) <=> e.kind # k /\ \A i \in DOMAIN t : t[i].kind # k
    BY <2>1, <2>2, Zenon
  <2>4. u \in Histories /\ Channel(t, k) \in Histories
    BY <2>1, HistoriesGrow, ChannelsMore
  <2>5. Channel(u, k) = Empty <=> e.kind # k /\ Channel(t, k) = Empty
    <3>1. CASE e.kind = k
      <4>1. Channel(u, k) = Plus(Channel(t, k), e)
        BY <2>1, <3>1, ChannelsMore
      <4> QED BY <2>4, <3>1, <4>1, HistoriesGrow
    <3>2. CASE e.kind # k
      <4>1. Channel(u, k) = Channel(t, k)
        BY <2>1, <3>2, ChannelsMore
      <4> QED BY <3>2, <4>1
    <3> QED BY <3>1, <3>2
  <2>6. Channel(t, k) = Empty <=> \A i \in DOMAIN t : t[i].kind # k
    BY <1>1, <1>3
  <2> QED BY <1>1, <2>1, <2>3, <2>4, <2>5, <2>6
<1>4. s \in T
  BY <1>2, <1>3, HistoriesFollow
<1> QED BY <1>1, <1>4

\* A history without an outcome, and one that ends with it, are closing.
LEMMA ClosingIs ==
  /\ \A s \in Histories : Channel(s, "terminal") = Empty => Closing(s)
  /\ \A s \in Histories, e \in Wide : Closing(Plus(s, e)) <=> Channel(s, "terminal") = Empty
<1>1. ASSUME NEW s \in Histories, Channel(s, "terminal") = Empty PROVE Closing(s)
  <2> SUFFICES ASSUME NEW f \in Histories, NEW e \in Wide, s = Plus(f, e)
               PROVE  Channel(f, "terminal") = Empty
    BY DEF Closing
  <2>1. Channel(f, "terminal") \in Histories
    BY ChannelsMore
  <2>2. CASE e.kind = "terminal"
    <3>1. Channel(s, "terminal") = Plus(Channel(f, "terminal"), e)
      BY <2>2, ChannelsMore
    <3> QED BY <1>1, <2>1, <3>1, HistoriesGrow
  <2>3. CASE e.kind # "terminal"
    <3>1. Channel(s, "terminal") = Channel(f, "terminal")
      BY <2>3, ChannelsMore
    <3> QED BY <1>1, <3>1
  <2> QED BY <2>2, <2>3
<1>2. ASSUME NEW s \in Histories, NEW e \in Wide
      PROVE  Closing(Plus(s, e)) <=> Channel(s, "terminal") = Empty
  <2>1. Closing(Plus(s, e)) => Channel(s, "terminal") = Empty
    BY DEF Closing
  <2>2. ASSUME Channel(s, "terminal") = Empty,
               NEW f \in Histories, NEW d \in Wide, Plus(s, e) = Plus(f, d)
        PROVE  Channel(f, "terminal") = Empty
    <3>1. f = s
      BY <2>2, HistoriesGrow
    <3> QED BY <2>2, <3>1
  <2> QED BY <2>1, <2>2 DEF Closing
<1> QED BY <1>1, <1>2

\* The rest of a history behind its first events, and those.
LEMMA CutInTwo ==
  ASSUME NEW s \in Histories, NEW m \in 0..Len(s)
  PROVE  /\ SubSeq(s, 1, m) \in Histories /\ SubSeq(s, m + 1, Len(s)) \in Histories
         /\ Then(SubSeq(s, 1, m), SubSeq(s, m + 1, Len(s))) = s
         /\ Len(SubSeq(s, 1, m)) = m /\ Len(SubSeq(s, m + 1, Len(s))) = Len(s) - m
<1>1. PICK n \in Nat : n = Len(s) /\ s \in Seq(Wide) /\ \A i \in 1..n : s[i] \in Wide
  BY DEF Histories
<1>2. m \in Nat /\ m <= n /\ 1 \in Int /\ m \in Int /\ n \in Int /\ m + 1 \in Int
  BY <1>1
<1>3. \A i \in 1..m : s[i] \in Wide
  BY <1>1, <1>2
<1>4. \A i \in (m + 1)..n : s[i] \in Wide
  BY <1>1, <1>2
<1>5. SubSeq(s, 1, m) \in Seq(Wide) /\ Len(SubSeq(s, 1, m)) = IF 1 <= m THEN m - 1 + 1 ELSE 0
  BY <1>2, <1>3, SubSeqProperties
<1>6. /\ SubSeq(s, m + 1, n) \in Seq(Wide)
      /\ Len(SubSeq(s, m + 1, n)) = IF m + 1 <= n THEN n - (m + 1) + 1 ELSE 0
  BY <1>2, <1>4, SubSeqProperties
<1>7. SubSeq(s, 1, m) \o SubSeq(s, m + 1, n) = s
  <2>1. 1 \in 1..(Len(s) + 1) /\ m \in (1 - 1)..Len(s) /\ n \in m..Len(s)
    BY <1>1, <1>2
  <2>2. SubSeq(s, 1, m) \o SubSeq(s, m + 1, n) = SubSeq(s, 1, n)
    BY <1>1, <2>1, ConcatAdjacentSubSeq
  <2>3. SubSeq(s, 1, n) = s
    BY <1>1, SubSeqFull
  <2> QED BY <2>2, <2>3
<1>8. (IF 1 <= m THEN m - 1 + 1 ELSE 0) = m /\ (IF m + 1 <= n THEN n - (m + 1) + 1 ELSE 0) = n - m
  BY <1>2
<1> QED BY <1>1, <1>5, <1>6, <1>7, <1>8 DEF Histories, Then

-----------------------------------------------------------------------------
(* Joining and collapsing. *)

\* a tells what b tells: the same texts in the same channels and the same other
\* events, and it takes as many numbers.
Retells(a, b) ==
  /\ a \in Histories
  /\ \A k \in TextKinds : TextOf(a, k) = TextOf(b, k)
  /\ \A k \in Kinds \ TextKinds : Channel(a, k) = Channel(b, k)
  /\ TilesFrom(1, a) /\ After(1, a) = After(1, b)
  /\ Closing(b) => Closing(a)

\* It goes on doing so when the same event is put behind both.
LEMMA RetellsMore ==
  ASSUME NEW a, NEW b \in Histories, Retells(a, b), NEW e \in Wide, e.first = After(1, b)
  PROVE  Retells(Plus(a, e), Plus(b, e))
<1>1. a \in Histories /\ Plus(a, e) \in Histories
  BY HistoriesGrow DEF Retells
<1>2. ASSUME NEW k \in TextKinds PROVE TextOf(Plus(a, e), k) = TextOf(Plus(b, e), k)
  <2>1. TextOf(a, k) = TextOf(b, k)
    BY DEF Retells
  <2>2. CASE e.kind = k
    <3>1. /\ TextOf(Plus(a, e), k) = Then(TextOf(a, k), e.text)
          /\ TextOf(Plus(b, e), k) = Then(TextOf(b, k), e.text)
      BY <1>1, <2>2, ChannelsMore
    <3> QED BY <2>1, <3>1
  <2>3. CASE e.kind # k
    BY <1>1, <2>1, <2>3, ChannelsMore
  <2> QED BY <2>2, <2>3
<1>3. ASSUME NEW k \in Kinds \ TextKinds PROVE Channel(Plus(a, e), k) = Channel(Plus(b, e), k)
  <2>1. Channel(a, k) = Channel(b, k)
    BY DEF Retells
  <2>2. CASE e.kind = k
    <3>1. /\ Channel(Plus(a, e), k) = Plus(Channel(a, k), e)
          /\ Channel(Plus(b, e), k) = Plus(Channel(b, k), e)
      BY <1>1, <2>2, ChannelsMore
    <3> QED BY <2>1, <3>1
  <2>3. CASE e.kind # k
    BY <1>1, <2>1, <2>3, ChannelsMore
  <2> QED BY <2>2, <2>3
<1>4. TilesFrom(1, Plus(a, e)) /\ After(1, Plus(a, e)) = After(1, Plus(b, e))
  <2>1. TilesFrom(1, a) /\ After(1, a) = After(1, b)
    BY DEF Retells
  <2> QED BY <1>1, <2>1, NumbersMore
<1>5. Closing(Plus(b, e)) => Closing(Plus(a, e))
  <2>1. "terminal" \in Kinds \ TextKinds
    BY DEF Kinds, TextKinds
  <2>2. Channel(a, "terminal") = Channel(b, "terminal")
    BY <2>1 DEF Retells
  <2> QED BY <1>1, <2>2, ClosingIs
<1> QED BY <1>1, <1>2, <1>3, <1>4, <1>5 DEF Retells

\* A chunk is put behind the others, or joined to the last one.
LEMMA ChunkIs ==
  ASSUME NEW done \in Histories, NEW e \in Wide
  PROVE  \/ AddToChunks(done, e) = Plus(done, e)
         \/ \E f \in Histories, d \in Wide, g \in Wide :
              /\ done = Plus(f, d) /\ AddToChunks(done, e) = Plus(f, g)
              /\ e.kind \in TextKinds /\ e.first = d.last + 1
              /\ g.kind = e.kind /\ d.kind = e.kind /\ g.first = d.first /\ g.last = e.last
              /\ g.text = Then(d.text, e.text)
<1>1. CASE ~(done # <<>> /\ Joins(Last(done), e))
  BY <1>1, Zenon DEF AddToChunks, Plus
<1>2. CASE done # <<>> /\ Joins(Last(done), e)
  <2>1. PICK f \in Seq(Wide), d \in Wide : done = Append(f, d)
    BY <1>2, SequenceEmptyOrAppend DEF Histories
  <2>2. PICK n \in Nat : n = Len(f)
    BY <2>1
  <2>3. /\ Len(done) = n + 1 /\ DOMAIN done = 1..(n + 1) /\ done[n + 1] = d
        /\ \A i \in 1..n : done[i] = f[i]
    BY <2>1, <2>2, OneMore
  <2>4. /\ e.kind \in TextKinds /\ d.kind = e.kind /\ e.first = d.last + 1
    BY <1>2, <2>3 DEF Joins, IsText, Last
  <2>5. PICK g : g = [kind |-> d.kind, first |-> d.first, last |-> e.last, text |-> d.text \o e.text]
    OBVIOUS
  <2>6. g \in Wide
    <3>1. /\ d.kind \in Kinds /\ d.first \in Nat \ {0} /\ d.last \in Nat /\ e.last \in Nat
          /\ d.first <= d.last /\ e.first <= e.last /\ e.first \in Nat
      BY WideIs
    <3>2. d.text \o e.text \in Seq(Nat)
      BY WordsJoin DEF Words, Then
    <3>3. d.first <= e.last
      BY <2>4, <3>1
    <3> QED BY <2>5, <3>1, <3>2, <3>3, WideIs
  <2>7. PICK u : u = Append(f, g)
    OBVIOUS
  <2>8. /\ Len(u) = n + 1 /\ DOMAIN u = 1..(n + 1) /\ u[n + 1] = g
        /\ \A i \in 1..n : u[i] = f[i]
    BY <2>1, <2>2, <2>6, <2>7, OneMore
  <2>9. [d EXCEPT !.text = d.text \o e.text, !.last = e.last] = g
    <3>1. PICK w \in Seq(Nat), l \in Nat : w = d.text \o e.text /\ l = e.last
      <4>1. d.text \o e.text \in Seq(Nat)
        BY WordsJoin DEF Words, Then
      <4> QED BY <4>1, WideIs
    <3>2. PICK r : r = [d EXCEPT !.text = w, !.last = l]
      OBVIOUS
    <3>3. r.kind = d.kind /\ r.first = d.first /\ r.last = l /\ r.text = w /\ r \in Events
      BY <3>2, WideIs DEF Events
    <3>4. r = [kind |-> r.kind, first |-> r.first, last |-> r.last, text |-> r.text]
      BY <3>3 DEF Events
    <3> QED BY <2>5, <3>1, <3>2, <3>3, <3>4
  <2>10. PICK j : j = Join(done, e)
    OBVIOUS
  <2>11. /\ j = [done EXCEPT ![n + 1] = [d EXCEPT !.text = d.text \o e.text, !.last = e.last]]
    BY <2>3, <2>10 DEF Join
  <2>12. j = u
    <3>1. u \in Seq(Wide)
      BY <2>1, <2>6, <2>7
    <3>2. j \in Seq(Wide) /\ Len(j) = n + 1 /\ \A i \in 1..(n + 1) : j[i] = IF i = n + 1 THEN g ELSE done[i]
      <4>1. j = [done EXCEPT ![n + 1] = g]
        BY <2>9, <2>11
      <4>2. done \in Seq(Wide) /\ n + 1 \in 1..Len(done)
        BY <2>2, <2>3 DEF Histories
      <4> QED BY <2>3, <2>6, <4>1, <4>2, ExceptSeq
    <3>3. \A i \in 1..(n + 1) : j[i] = u[i]
      BY <2>3, <2>8, <3>2
    <3> QED BY <2>8, <3>1, <3>2, <3>3, SeqEqual
  <2>13. AddToChunks(done, e) = j
    BY <1>2, <2>10 DEF AddToChunks
  <2>14. /\ g.kind = d.kind /\ g.first = d.first /\ g.last = e.last /\ g.text = d.text \o e.text
    BY <2>5
  <2> QED BY <2>1, <2>4, <2>6, <2>7, <2>12, <2>13, <2>14, Zenon DEF Histories, Plus, Then
<1> QED BY <1>1, <1>2

LEMMA ChunksGrow ==
  \A a \in Seq(Wide), e \in Wide : AddToChunks(a, e) \in Seq(Wide)
<1> SUFFICES ASSUME NEW a \in Histories, NEW e \in Wide PROVE AddToChunks(a, e) \in Histories
  BY Zenon DEF Histories
<1>1. CASE AddToChunks(a, e) = Plus(a, e)
  BY <1>1, HistoriesGrow
<1>2. ASSUME NEW f \in Histories, NEW g \in Wide, AddToChunks(a, e) = Plus(f, g)
      PROVE  AddToChunks(a, e) \in Histories
  BY <1>2, HistoriesGrow
<1> QED BY <1>1, <1>2, ChunkIs

\* Chunks, one by one.
CoalesceStep(s) == [i \in DOMAIN s |-> [a \in Seq(Wide) |-> AddToChunks(a, s[i])]]

LEMMA CoalesceFold ==
  ASSUME NEW s \in Seq(Wide)
  PROVE  \E g : ComesTo(g, Len(s), Seq(Wide), <<>>, CoalesceStep(s), Coalesce(s))
<1>1. PICK n \in Nat : n = Len(s) /\ DOMAIN s = 1..n /\ \A i \in 1..n : s[i] \in Wide
  OBVIOUS
<1>2. PICK step : step = CoalesceStep(s)
  OBVIOUS
<1>3. PICK A : A = Seq(Wide)
  OBVIOUS
<1>4. PICK none : none = <<>>
  OBVIOUS
<1>5. none \in A /\ \A i \in 1..n : \A a \in A : /\ step[i][a] = AddToChunks(a, s[i])
                                                /\ step[i][a] \in A
  <2>1. \A i \in 1..n : \A a \in A : AddToChunks(a, s[i]) \in A
    BY <1>1, <1>3, ChunksGrow, Zenon
  <2>2. none \in A
    BY <1>3, <1>4
  <2> QED BY <1>1, <1>2, <1>3, <2>1, <2>2, Zenon DEF CoalesceStep
<1>6. PICK c : c = CHOOSE h : h = [x \in SUBSET DOMAIN s |->
                 IF x = {} THEN <<>> ELSE AddToChunks(h[x \ {Max(x)}], s[Max(x)])]
  OBVIOUS
<1>7. c = [x \in SUBSET (1..n) |->
             IF x = {} THEN none ELSE AddToChunks(c[x \ {Max(x)}], s[Max(x)])]
  <2>1. PICK f : Folds(f, n, A, none, step)
    BY <1>5, StepsFold
  <2>2. FoldsBy(f, n, A, none, step)
    BY <2>1, FoldTyped
  <2>3. f = [x \in SUBSET (1..n) |->
               IF x = {} THEN none ELSE AddToChunks(f[x \ {Max(x)}], s[Max(x)])]
    BY <1>5, <2>2, Zenon DEF FoldsBy
  <2> QED BY <1>1, <1>4, <1>6, <2>3, Zenon
<1>8. BuiltUp(c, n, A, none, step)
  <2>1. \A x \in SUBSET (1..n) : x # {} => Max(x) \in 1..n
    BY LargestPlace
  <2>2. {} \in SUBSET (1..n)
    OBVIOUS
  <2> QED BY <1>5, <1>7, <2>1, <2>2, Zenon DEF BuiltUp
<1>9. PICK g : ComesTo(g, n, A, none, step, c[1..n])
  BY <1>5, <1>8, FoldInTurn
<1>10. Coalesce(s) = c[1..n]
  BY <1>1, <1>6 DEF Coalesce, FoldLeft, MapThenFoldSet
<1> QED BY <1>1, <1>2, <1>3, <1>4, <1>9, <1>10

LEMMA CoalesceMore ==
  /\ Coalesce(<<>>) = <<>>
  /\ \A s \in Seq(Wide) : Coalesce(s) \in Seq(Wide)
  /\ \A s \in Seq(Wide), e \in Wide : Coalesce(Append(s, e)) = AddToChunks(Coalesce(s), e)
<1>1. Coalesce(<<>>) = <<>>
  <2>1. PICK s : s = <<>>
    OBVIOUS
  <2>2. PICK g : ComesTo(g, Len(s), Seq(Wide), <<>>, CoalesceStep(s), Coalesce(s))
    <3>1. s \in Seq(Wide)
      BY <2>1
    <3> QED BY <3>1, CoalesceFold
  <2>3. Len(s) = 0
    BY <2>1
  <2> QED BY <2>1, <2>2, <2>3 DEF ComesTo
<1>2. ASSUME NEW s \in Seq(Wide) PROVE Coalesce(s) \in Seq(Wide)
  <2>1. PICK g : ComesTo(g, Len(s), Seq(Wide), <<>>, CoalesceStep(s), Coalesce(s))
    BY CoalesceFold
  <2>2. Len(s) \in 0..Len(s)
    OBVIOUS
  <2> QED BY <2>1, <2>2, Zenon DEF ComesTo
<1>3. ASSUME NEW s \in Seq(Wide), NEW e \in Wide
      PROVE  Coalesce(Append(s, e)) = AddToChunks(Coalesce(s), e)
  <2>1. PICK t : t = Append(s, e)
    OBVIOUS
  <2>2. PICK n \in Nat : n = Len(s)
    OBVIOUS
  <2>3. /\ t \in Seq(Wide) /\ Len(t) = n + 1 /\ DOMAIN t = 1..(n + 1) /\ DOMAIN s = 1..n
        /\ t[n + 1] = e /\ \A i \in 1..n : t[i] = s[i]
    BY <2>1, <2>2, OneMore
  <2>4. PICK step, more : step = CoalesceStep(s) /\ more = CoalesceStep(t)
    OBVIOUS
  <2>5. /\ \A i \in 1..n : step[i] = more[i]
        /\ more[n + 1] = [a \in Seq(Wide) |-> AddToChunks(a, e)]
    <3>1. n + 1 \in 1..(n + 1) /\ \A i \in 1..n : i \in 1..(n + 1)
      OBVIOUS
    <3> QED BY <2>3, <2>4, <3>1, Zenon DEF CoalesceStep
  <2>6. PICK A, none : A = Seq(Wide) /\ none = <<>>
    OBVIOUS
  <2>7. PICK f : ComesTo(f, n, A, none, step, Coalesce(s))
    BY <2>2, <2>4, <2>6, CoalesceFold
  <2>8. PICK m, g : m = n + 1 /\ ComesTo(g, m, A, none, more, Coalesce(t))
    BY <2>3, <2>4, <2>6, CoalesceFold
  <2>9. \A i \in 1..n : step[i] = more[i]
    BY <2>5
  <2>10. Coalesce(s) \in A /\ Coalesce(t) = more[m][Coalesce(s)]
    BY <2>7, <2>8, <2>9, OneMoreStep
  <2> QED BY <2>1, <2>5, <2>6, <2>8, <2>10
<1> QED BY <1>1, <1>2, <1>3

\* A chunk that is joined tells what the two events told.
LEMMA RetellsJoined ==
  ASSUME NEW f \in Histories, NEW d \in Wide, NEW e \in Wide, NEW g \in Wide, NEW b \in Histories,
         Retells(Plus(f, d), b), e.kind \in TextKinds, e.first = d.last + 1,
         g.kind = e.kind, d.kind = e.kind, g.first = d.first, g.last = e.last,
         g.text = Then(d.text, e.text)
  PROVE  Retells(Plus(f, g), Plus(b, e))
<1>1. Plus(f, g) \in Histories /\ Plus(f, d) \in Histories
  BY HistoriesGrow
<1>2. ASSUME NEW k \in TextKinds PROVE TextOf(Plus(f, g), k) = TextOf(Plus(b, e), k)
  <2>1. TextOf(Plus(f, d), k) = TextOf(b, k)
    BY DEF Retells
  <2>2. CASE e.kind = k
    <3>1. /\ TextOf(Plus(f, g), k) = Then(TextOf(f, k), Then(d.text, e.text))
          /\ TextOf(Plus(f, d), k) = Then(TextOf(f, k), d.text)
          /\ TextOf(Plus(b, e), k) = Then(TextOf(b, k), e.text)
      BY <2>2, ChannelsMore
    <3>2. TextOf(f, k) \in Words /\ d.text \in Words /\ e.text \in Words
      BY ChannelsMore, WordsJoin
    <3>3. Then(Then(TextOf(f, k), d.text), e.text) = Then(TextOf(f, k), Then(d.text, e.text))
      BY <3>2, WordsJoin
    <3> QED BY <2>1, <3>1, <3>3
  <2>3. CASE e.kind # k
    <3>1. /\ TextOf(Plus(f, g), k) = TextOf(f, k) /\ TextOf(Plus(f, d), k) = TextOf(f, k)
          /\ TextOf(Plus(b, e), k) = TextOf(b, k)
      BY <2>3, ChannelsMore
    <3> QED BY <2>1, <3>1
  <2> QED BY <2>2, <2>3
<1>3. ASSUME NEW k \in Kinds \ TextKinds
      PROVE  /\ Channel(Plus(f, g), k) = Channel(Plus(b, e), k)
             /\ Channel(Plus(b, e), k) = Channel(f, k)
  <2>1. Channel(Plus(f, d), k) = Channel(b, k) /\ e.kind # k
    BY DEF Retells
  <2>2. /\ Channel(Plus(f, g), k) = Channel(f, k) /\ Channel(Plus(f, d), k) = Channel(f, k)
        /\ Channel(Plus(b, e), k) = Channel(b, k)
    BY <2>1, ChannelsMore
  <2> QED BY <2>1, <2>2
<1>4. TilesFrom(1, Plus(f, g)) /\ After(1, Plus(f, g)) = After(1, Plus(b, e))
  <2>1. TilesFrom(1, Plus(f, d))
    BY DEF Retells
  <2> QED BY <2>1, NumbersMore
<1>5. Closing(Plus(b, e)) => Closing(Plus(f, g))
  <2>1. "terminal" \in Kinds \ TextKinds /\ e.kind # "terminal"
    BY DEF Kinds, TextKinds
  <2>2. Channel(b, "terminal") = Channel(f, "terminal")
    <3>1. Channel(Plus(b, e), "terminal") = Channel(b, "terminal")
      BY <2>1, ChannelsMore
    <3> QED BY <1>3, <2>1, <3>1
  <2> QED BY <2>2, ClosingIs
<1> QED BY <1>1, <1>2, <1>3, <1>4, <1>5 DEF Retells

\* The empty history tells what it tells.
LEMMA NothingToTell == Retells(Empty, Empty)
<1>1. Channel(Empty, "terminal") = Empty
  BY ChannelsMore
<1> QED BY <1>1, HistoriesGrow, NumbersMore, ClosingIs DEF Retells

\* The chunks of a history tell what it tells (_coalesce_stream_events).
LEMMA CoalesceRetells ==
  ASSUME NEW s \in Histories, TilesFrom(1, s)
  PROVE  Retells(Coalesce(s), s)
<1>1. PICK T : T = {t \in Histories : TilesFrom(1, t) => Retells(Coalesce(t), t)}
  OBVIOUS
<1>2. /\ Coalesce(Empty) = Empty
      /\ \A t \in Histories, e \in Wide : Coalesce(Plus(t, e)) = AddToChunks(Coalesce(t), e)
  BY CoalesceMore, Zenon DEF Empty, Plus, Histories
<1>3. Empty \in T
  BY <1>1, <1>2, NothingToTell, HistoriesGrow
<1>4. ASSUME NEW t \in Histories, NEW e \in Wide, t \in T PROVE Plus(t, e) \in T
  <2>1. PICK u : u = Plus(t, e) /\ u \in Histories
    BY HistoriesGrow
  <2> SUFFICES ASSUME TilesFrom(1, u) PROVE Retells(Coalesce(u), u)
    BY <1>1, <2>1
  <2>2. TilesFrom(1, t) /\ e.first = After(1, t)
    BY <2>1, NumbersMore
  <2>3. PICK done \in Histories : done = Coalesce(t) /\ Retells(done, t)
    BY <1>1, <1>4, <2>2 DEF Retells
  <2>4. Coalesce(u) = AddToChunks(done, e)
    BY <1>2, <2>1, <2>3
  <2>5. CASE AddToChunks(done, e) = Plus(done, e)
    BY <2>1, <2>2, <2>3, <2>4, <2>5, RetellsMore
  <2>6. ASSUME NEW f \in Histories, NEW d \in Wide, NEW g \in Wide,
               done = Plus(f, d), AddToChunks(done, e) = Plus(f, g),
               e.kind \in TextKinds, e.first = d.last + 1,
               g.kind = e.kind, d.kind = e.kind, g.first = d.first, g.last = e.last,
               g.text = Then(d.text, e.text)
        PROVE  Retells(Coalesce(u), u)
    BY <2>1, <2>3, <2>4, <2>6, RetellsJoined
  <2> QED BY <2>5, <2>6, ChunkIs
<1>5. s \in T
  BY <1>3, <1>4, HistoriesFollow
<1> QED BY <1>1, <1>5

\* If a tells what b tells and b what c tells, ...
LEMMA RetellsOn ==
  ASSUME NEW a, NEW b, NEW c, Retells(a, b), Retells(b, c)
  PROVE  Retells(a, c)
BY DEF Retells

\* A stretch of text, all of one channel, as one event.
Span(k, from, c) ==
  IF c = <<>> THEN <<>>
  ELSE <<[kind |-> k, first |-> from, last |-> from + Width(c) - 1, text |-> Texts(c)]>>

LEMMA WideEnough ==
  \A c \in Histories : c # Empty => Width(c) >= 1
<1> SUFFICES ASSUME NEW c \in Histories, c # Empty PROVE Width(c) >= 1
  OBVIOUS
<1>1. PICK f \in Histories, e \in Wide : c = Plus(f, e)
  BY HistoriesGrow
<1>2. Width(c) = Width(f) + (e.last - e.first + 1) /\ Width(f) \in Nat
  BY <1>1, WidthOfHistories
<1>3. e.first \in Nat /\ e.last \in Nat /\ e.first <= e.last
  BY WideIs
<1> QED BY <1>2, <1>3

LEMMA SpanIs ==
  ASSUME NEW k \in TextKinds, NEW from \in Nat \ {0}, NEW c \in Histories
  PROVE  /\ Span(k, from, c) \in Histories
         /\ TilesFrom(from, Span(k, from, c)) /\ After(from, Span(k, from, c)) = from + Width(c)
         /\ TextOf(Span(k, from, c), k) = Texts(c)
         /\ \A j : j # k => /\ Channel(Span(k, from, c), j) = Empty
                            /\ TextOf(Span(k, from, c), j) = Empty
         /\ c # Empty => Span(k, from, c) # Empty
<1>1. PICK w \in Nat : w = Width(c)
  BY WidthOfHistories
<1>2. CASE c = Empty
  <2>1. Span(k, from, c) = Empty
    BY <1>2 DEF Span, Empty
  <2>2. w = 0 /\ Texts(c) = Empty
    BY <1>1, <1>2, WidthOfHistories, TextsOfHistories
  <2>3. TextOf(Empty, k) = Empty /\ \A j : Channel(Empty, j) = Empty /\ TextOf(Empty, j) = Empty
    BY ChannelsMore
  <2>4. TilesFrom(from, Empty) /\ After(from, Empty) = from
    BY NumbersMore
  <2> QED BY <1>1, <1>2, <2>1, <2>2, <2>3, <2>4, HistoriesGrow
<1>3. CASE c # Empty
  <2>1. PICK e : e = [kind |-> k, first |-> from, last |-> from + w - 1, text |-> Texts(c)]
    OBVIOUS
  <2>2. w >= 1
    BY <1>1, <1>3, WideEnough
  <2>3. e \in Wide
    <3>1. k \in Kinds
      BY DEF Kinds
    <3>2. from + w - 1 \in Nat /\ from <= from + w - 1
      BY <2>2
    <3>3. Texts(c) \in Seq(Nat)
      BY TextsOfHistories DEF Words
    <3> QED BY <2>1, <3>1, <3>2, <3>3, WideIs
  <2>4. Span(k, from, c) = Plus(Empty, e)
    <3>1. Span(k, from, c) = <<e>>
      BY <1>1, <1>3, <2>1 DEF Span, Empty
    <3> QED BY <3>1 DEF Plus, Empty
  <2>5. e.kind = k /\ e.first = from /\ e.last + 1 = from + w /\ e.text = Texts(c)
    BY <2>1
  <2>6. /\ TilesFrom(from, Plus(Empty, e)) <=> TilesFrom(from, Empty) /\ e.first = After(from, Empty)
        /\ After(from, Plus(Empty, e)) = e.last + 1
    <3>1. Empty \in Histories
      BY HistoriesGrow
    <3> QED BY <2>3, <3>1, NumbersMore
  <2>7. TilesFrom(from, Empty) /\ After(from, Empty) = from
    BY NumbersMore
  <2>8. TextOf(Plus(Empty, e), k) = Then(Empty, e.text)
    <3>1. Empty \in Histories
      BY HistoriesGrow
    <3>2. TextOf(Plus(Empty, e), k) = Then(TextOf(Empty, k), e.text)
      BY <2>3, <2>5, <3>1, ChannelsMore
    <3> QED BY <3>2, ChannelsMore
  <2>9. Then(Empty, e.text) = e.text
    BY <2>3, WordsJoin
  <2>10. ASSUME NEW j, j # k
         PROVE  Channel(Plus(Empty, e), j) = Empty /\ TextOf(Plus(Empty, e), j) = Empty
    <3>1. Channel(Empty, j) = Empty /\ TextOf(Empty, j) = Empty
      BY ChannelsMore
    <3>2. e.kind # j
      BY <2>5, <2>10
    <3> QED BY <2>3, <3>1, <3>2, ChannelsMore, HistoriesGrow
  <2>11. Plus(Empty, e) \in Histories /\ Plus(Empty, e) # Empty
    BY <2>3, HistoriesGrow
  <2> QED BY <1>1, <2>4, <2>5, <2>6, <2>7, <2>8, <2>9, <2>10, <2>11
<1> QED BY <1>2, <1>3

\* No event of it is anything but text.
AllText(s) == \A k : k \notin TextKinds => Channel(s, k) = Empty

\* The channels of a stretch of text, one behind the other.
LEMMA ChannelsAre ==
  ASSUME NEW s \in Histories, s # Empty
  PROVE  /\ Head(s) \in Wide
         /\ Channels(s) = Then(Span("thinking", Head(s).first, Channel(s, "thinking")),
                               Span("token", Head(s).first + Width(Channel(s, "thinking")),
                                    Channel(s, "token")))
         /\ Channels(s) \in Histories
         /\ \A k \in TextKinds : TextOf(Channels(s), k) = TextOf(s, k)
         /\ AllText(Channels(s))
<1>1. PICK m, h : m = Head(s) /\ h = m.first
  OBVIOUS
<1>2. m \in Wide
  BY <1>1 DEF Histories, Empty
<1>3. PICK c, d : c = Channel(s, "thinking") /\ d = Channel(s, "token")
  OBVIOUS
<1>4. c \in Histories /\ d \in Histories
  BY <1>3, ChannelsMore
<1>5. h \in Nat \ {0} /\ h + Width(c) \in Nat \ {0}
  <2>1. h \in Nat \ {0}
    BY <1>1, <1>2, WideIs
  <2>2. Width(c) \in Nat
    BY <1>4, WidthOfHistories
  <2> QED BY <2>1, <2>2
<1>6. PICK p, q : p = Span("thinking", h, c) /\ q = Span("token", h + Width(c), d)
  OBVIOUS
<1>7. Channels(s) = Then(p, q)
  BY <1>1, <1>3, <1>6 DEF Channels, Span, Then
<1>8. "thinking" \in TextKinds /\ "token" \in TextKinds /\ "thinking" # "token"
  BY DEF TextKinds
<1>9. /\ p \in Histories /\ TextOf(p, "thinking") = Texts(c)
      /\ \A j : j # "thinking" => Channel(p, j) = Empty /\ TextOf(p, j) = Empty
  BY <1>4, <1>5, <1>6, <1>8, SpanIs
<1>10. /\ q \in Histories /\ TextOf(q, "token") = Texts(d)
       /\ \A j : j # "token" => Channel(q, j) = Empty /\ TextOf(q, j) = Empty
  BY <1>4, <1>5, <1>6, <1>8, SpanIs
<1>11. TextOf(s, "thinking") = Texts(c) /\ TextOf(s, "token") = Texts(d)
  BY <1>3 DEF TextOf
<1>12. Texts(c) \in Words /\ Texts(d) \in Words
  BY <1>4, TextsOfHistories
<1>13. TextOf(Then(p, q), "thinking") = Texts(c)
  <2>1. TextOf(Then(p, q), "thinking") = Then(TextOf(p, "thinking"), TextOf(q, "thinking"))
    BY <1>9, <1>10, ChannelsConcat
  <2>2. TextOf(q, "thinking") = Empty
    BY <1>8, <1>10
  <2> QED BY <1>9, <1>12, <2>1, <2>2, WordsJoin
<1>14. TextOf(Then(p, q), "token") = Texts(d)
  <2>1. TextOf(Then(p, q), "token") = Then(TextOf(p, "token"), TextOf(q, "token"))
    BY <1>9, <1>10, ChannelsConcat
  <2>2. TextOf(p, "token") = Empty
    BY <1>8, <1>9
  <2> QED BY <1>10, <1>12, <2>1, <2>2, WordsJoin
<1>15. ASSUME NEW k, k \notin TextKinds PROVE Channel(Then(p, q), k) = Empty
  <2>1. Channel(Then(p, q), k) = Then(Channel(p, k), Channel(q, k))
    BY <1>9, <1>10, ChannelsConcat
  <2>2. k # "thinking" /\ k # "token"
    BY <1>8, <1>15
  <2>3. Channel(p, k) = Empty /\ Channel(q, k) = Empty
    BY <1>9, <1>10, <2>2
  <2> QED BY <2>1, <2>3, HistoriesGrow
<1>16. Then(p, q) \in Histories
  BY <1>9, <1>10, HistoriesGrow
<1>17. \A k \in TextKinds : k = "thinking" \/ k = "token"
  BY DEF TextKinds
<1>18. \A k \in TextKinds : TextOf(Then(p, q), k) = TextOf(s, k)
  BY <1>11, <1>13, <1>14, <1>17
<1>19. AllText(Then(p, q))
  BY <1>15 DEF AllText
<1> QED BY <1>1, <1>2, <1>3, <1>6, <1>7, <1>16, <1>18, <1>19

\* Text is as wide as its channels.
LEMMA WideAsItsChannels ==
  ASSUME NEW s \in Histories, AllText(s)
  PROVE  Width(s) = Width(Channel(s, "thinking")) + Width(Channel(s, "token"))
<1>1. PICK T : T = {t \in Histories : AllText(t) =>
                 Width(t) = Width(Channel(t, "thinking")) + Width(Channel(t, "token"))}
  OBVIOUS
<1>2. Empty \in T
  <2>1. Channel(Empty, "thinking") = Empty /\ Channel(Empty, "token") = Empty
    BY ChannelsMore
  <2>2. Width(Empty) = 0 /\ Empty \in Histories
    BY WidthOfHistories, HistoriesGrow
  <2> QED BY <1>1, <2>1, <2>2
<1>3. ASSUME NEW t \in Histories, NEW e \in Wide, t \in T PROVE Plus(t, e) \in T
  <2>1. PICK u : u = Plus(t, e) /\ u \in Histories
    BY HistoriesGrow
  <2> SUFFICES ASSUME AllText(u)
               PROVE  Width(u) = Width(Channel(u, "thinking")) + Width(Channel(u, "token"))
    BY <1>1, <2>1
  <2>2. e.kind \in TextKinds
    <3> SUFFICES ASSUME e.kind \notin TextKinds PROVE FALSE
      OBVIOUS
    <3>1. PICK k : k = e.kind
      OBVIOUS
    <3>2. Channel(u, k) = Plus(Channel(t, k), e) /\ Channel(t, k) \in Histories
      BY <2>1, <3>1, ChannelsMore
    <3>3. Channel(u, k) = Empty
      BY <3>1 DEF AllText
    <3> QED BY <3>2, <3>3, HistoriesGrow
  <2>3. AllText(t)
    <3>1. ASSUME NEW k, k \notin TextKinds PROVE Channel(t, k) = Empty
      <4>1. e.kind # k
        BY <2>2, <3>1
      <4>2. Channel(u, k) = Channel(t, k)
        BY <2>1, <4>1, ChannelsMore
      <4> QED BY <3>1, <4>2 DEF AllText
    <3> QED BY <3>1 DEF AllText
  <2>4. Width(t) = Width(Channel(t, "thinking")) + Width(Channel(t, "token"))
    BY <1>1, <1>3, <2>3
  <2>5. Width(u) = Width(t) + (e.last - e.first + 1)
    BY <2>1, WidthOfHistories
  <2>6. Channel(t, "thinking") \in Histories /\ Channel(t, "token") \in Histories
    BY ChannelsMore
  <2>7. /\ Width(t) \in Nat /\ Width(Channel(t, "thinking")) \in Nat
        /\ Width(Channel(t, "token")) \in Nat /\ e.first \in Nat /\ e.last \in Nat
    BY <2>6, WidthOfHistories, WideIs
  <2>8. CASE e.kind = "thinking"
    <3>1. Channel(u, "thinking") = Plus(Channel(t, "thinking"), e)
      BY <2>1, <2>8, ChannelsMore
    <3>2. Channel(u, "token") = Channel(t, "token")
      BY <2>1, <2>8, ChannelsMore
    <3>3. Width(Channel(u, "thinking")) = Width(Channel(t, "thinking")) + (e.last - e.first + 1)
      BY <2>6, <3>1, WidthOfHistories
    <3> QED BY <2>4, <2>5, <2>7, <3>2, <3>3
  <2>9. CASE e.kind = "token"
    <3>1. Channel(u, "token") = Plus(Channel(t, "token"), e)
      BY <2>1, <2>9, ChannelsMore
    <3>2. Channel(u, "thinking") = Channel(t, "thinking")
      BY <2>1, <2>9, ChannelsMore
    <3>3. Width(Channel(u, "token")) = Width(Channel(t, "token")) + (e.last - e.first + 1)
      BY <2>6, <3>1, WidthOfHistories
    <3> QED BY <2>4, <2>5, <2>7, <3>2, <3>3
  <2> QED BY <2>2, <2>8, <2>9 DEF TextKinds
<1>4. s \in T
  BY <1>2, <1>3, HistoriesFollow
<1> QED BY <1>1, <1>4

\* The range of a stretch is divided anew, and no number is lost.
LEMMA ChannelsTile ==
  ASSUME NEW n \in Nat, NEW s \in Histories, s # Empty, AllText(s), TilesFrom(n, s)
  PROVE  TilesFrom(n, Channels(s)) /\ After(n, Channels(s)) = After(n, s)
<1>1. PICK h : h = Head(s).first
  OBVIOUS
<1>2. h = n
  BY <1>1 DEF TilesFrom, Histories, Empty
<1>3. h \in Nat \ {0}
  <2>1. Head(s) \in Wide
    BY ChannelsAre
  <2> QED BY <1>1, <2>1, WideIs
<1>4. PICK c, d : c = Channel(s, "thinking") /\ d = Channel(s, "token")
  OBVIOUS
<1>5. c \in Histories /\ d \in Histories
  BY <1>4, ChannelsMore
<1>6. PICK m : m = n + Width(c)
  OBVIOUS
<1>7. Width(c) \in Nat /\ Width(d) \in Nat
  BY <1>5, WidthOfHistories
<1>8. m \in Nat \ {0}
  BY <1>2, <1>3, <1>6, <1>7
<1>9. PICK p, q : p = Span("thinking", n, c) /\ q = Span("token", m, d)
  OBVIOUS
<1>10. Channels(s) = Then(p, q)
  BY <1>1, <1>2, <1>4, <1>6, <1>9, ChannelsAre
<1>11. "thinking" \in TextKinds /\ "token" \in TextKinds
  BY DEF TextKinds
<1>12. p \in Histories /\ TilesFrom(n, p) /\ After(n, p) = m
  BY <1>2, <1>3, <1>5, <1>6, <1>9, <1>11, SpanIs
<1>13. q \in Histories /\ TilesFrom(m, q) /\ After(m, q) = m + Width(d)
  BY <1>5, <1>8, <1>9, <1>11, SpanIs
<1>14. TilesFrom(n, Then(p, q)) /\ After(n, Then(p, q)) = m + Width(d)
  BY <1>12, <1>13, NumbersConcat
<1>15. After(n, s) = n + Width(s)
  BY WideAsItTiles
<1>16. Width(s) = Width(c) + Width(d)
  BY <1>4, WideAsItsChannels
<1> QED BY <1>6, <1>7, <1>10, <1>14, <1>15, <1>16

\* The stretch of text at the end of a history, with which another text is gathered.
LEMMA CutIs ==
  ASSUME NEW s \in Histories
  PROVE  \E base \in Histories, stretch \in Histories :
           /\ s = Then(base, stretch) /\ AllText(stretch)
           /\ \A e \in Wide : Gather(s, e) =
                IF e.kind \in TextKinds THEN Then(base, Channels(Plus(stretch, e))) ELSE Plus(s, e)
<1>1. PICK n \in Nat : n = Len(s) /\ s \in Seq(Wide) /\ DOMAIN s = 1..n
  BY DEF Histories
<1>2. PICK I : I = {i \in 1..Len(s) : ~IsText(s[i])}
  OBVIOUS
<1>3. PICK cut : cut = IF I # {} THEN Max(I) ELSE 0
  OBVIOUS
<1>4. cut \in 0..n /\ \A i \in 1..n : i > cut => s[i].kind \in TextKinds
  <2>1. CASE I = {}
    BY <1>1, <1>2, <1>3, <2>1 DEF IsText
  <2>2. CASE I # {}
    <3>1. I \in SUBSET (1..n)
      BY <1>1, <1>2
    <3>2. Max(I) \in I /\ \A i \in I : i <= Max(I)
      BY <2>2, <3>1, LargestPlace
    <3>3. Max(I) \in 1..n
      BY <3>1, <3>2
    <3>4. \A i \in 1..n : i > Max(I) => i \notin I
      BY <3>2, <3>3
    <3> QED BY <1>1, <1>2, <1>3, <2>2, <3>3, <3>4 DEF IsText
  <2> QED BY <2>1, <2>2
<1>5. SelectLastInSeq(s, LAMBDA d : ~IsText(d)) = cut
  BY <1>2, <1>3 DEF SelectLastInSeq
<1>6. PICK base, stretch : base = SubSeq(s, 1, cut) /\ stretch = SubSeq(s, cut + 1, Len(s))
  OBVIOUS
<1>7. /\ base \in Histories /\ stretch \in Histories /\ Then(base, stretch) = s
      /\ Len(stretch) = n - cut
  BY <1>1, <1>4, <1>6, CutInTwo
<1>8. AllText(stretch)
  <2>1. ASSUME NEW k, k \notin TextKinds PROVE Channel(stretch, k) = Empty
    <3>1. ASSUME NEW i \in DOMAIN stretch PROVE stretch[i].kind # k
      <4>1. i \in 1..(n - cut)
        BY <1>7, <3>1 DEF Histories
      <4>2. stretch[i] = s[cut + i] /\ cut + i \in 1..n /\ cut + i > cut
        BY <1>1, <1>4, <1>6, <4>1
      <4> QED BY <1>4, <2>1, <4>2
    <3> QED BY <1>7, <3>1, NoneOfKind
  <2> QED BY <2>1 DEF AllText
<1>9. \A e \in Wide : Gather(s, e) =
        IF e.kind \in TextKinds THEN Then(base, Channels(Plus(stretch, e))) ELSE Plus(s, e)
  BY <1>5, <1>6, Zenon DEF Gather, IsText, Then, Plus
<1> QED BY <1>7, <1>8, <1>9

LEMMA GatherGrows ==
  \A a \in Seq(Wide), e \in Wide : Gather(a, e) \in Seq(Wide)
<1> SUFFICES ASSUME NEW a \in Histories, NEW e \in Wide PROVE Gather(a, e) \in Histories
  BY Zenon DEF Histories
<1>1. PICK base \in Histories, stretch \in Histories :
        Gather(a, e) = IF e.kind \in TextKinds THEN Then(base, Channels(Plus(stretch, e)))
                       ELSE Plus(a, e)
  BY CutIs
<1>2. Plus(stretch, e) \in Histories /\ Plus(stretch, e) # Empty /\ Plus(a, e) \in Histories
  BY HistoriesGrow
<1>3. Channels(Plus(stretch, e)) \in Histories
  BY <1>2, ChannelsAre
<1>4. Then(base, Channels(Plus(stretch, e))) \in Histories
  BY <1>3, HistoriesGrow
<1> QED BY <1>1, <1>2, <1>4

\* Stretches, event by event.
CollapseStep(s) == [i \in DOMAIN s |-> [a \in Seq(Wide) |-> Gather(a, s[i])]]

LEMMA CollapseFold ==
  ASSUME NEW s \in Seq(Wide)
  PROVE  \E g : ComesTo(g, Len(s), Seq(Wide), <<>>, CollapseStep(s), Collapse(s))
<1>1. PICK n \in Nat : n = Len(s) /\ DOMAIN s = 1..n /\ \A i \in 1..n : s[i] \in Wide
  OBVIOUS
<1>2. PICK step : step = CollapseStep(s)
  OBVIOUS
<1>3. PICK A : A = Seq(Wide)
  OBVIOUS
<1>4. PICK none : none = <<>>
  OBVIOUS
<1>5. none \in A /\ \A i \in 1..n : \A a \in A : /\ step[i][a] = Gather(a, s[i])
                                                /\ step[i][a] \in A
  <2>1. \A i \in 1..n : \A a \in A : Gather(a, s[i]) \in A
    BY <1>1, <1>3, GatherGrows, Zenon
  <2>2. none \in A
    BY <1>3, <1>4
  <2> QED BY <1>1, <1>2, <1>3, <2>1, <2>2, Zenon DEF CollapseStep
<1>6. PICK c : c = CHOOSE h : h = [x \in SUBSET DOMAIN s |->
                 IF x = {} THEN <<>> ELSE Gather(h[x \ {Max(x)}], s[Max(x)])]
  OBVIOUS
<1>7. c = [x \in SUBSET (1..n) |->
             IF x = {} THEN none ELSE Gather(c[x \ {Max(x)}], s[Max(x)])]
  <2>1. PICK f : Folds(f, n, A, none, step)
    BY <1>5, StepsFold
  <2>2. FoldsBy(f, n, A, none, step)
    BY <2>1, FoldTyped
  <2>3. f = [x \in SUBSET (1..n) |->
               IF x = {} THEN none ELSE Gather(f[x \ {Max(x)}], s[Max(x)])]
    BY <1>5, <2>2, Zenon DEF FoldsBy
  <2> QED BY <1>1, <1>4, <1>6, <2>3, Zenon
<1>8. BuiltUp(c, n, A, none, step)
  <2>1. \A x \in SUBSET (1..n) : x # {} => Max(x) \in 1..n
    BY LargestPlace
  <2>2. {} \in SUBSET (1..n)
    OBVIOUS
  <2> QED BY <1>5, <1>7, <2>1, <2>2, Zenon DEF BuiltUp
<1>9. PICK g : ComesTo(g, n, A, none, step, c[1..n])
  BY <1>5, <1>8, FoldInTurn
<1>10. Collapse(s) = c[1..n]
  BY <1>1, <1>6 DEF Collapse, FoldLeft, MapThenFoldSet
<1> QED BY <1>1, <1>2, <1>3, <1>4, <1>9, <1>10

LEMMA CollapseMore ==
  /\ Collapse(<<>>) = <<>>
  /\ \A s \in Seq(Wide) : Collapse(s) \in Seq(Wide)
  /\ \A s \in Seq(Wide), e \in Wide : Collapse(Append(s, e)) = Gather(Collapse(s), e)
<1>1. Collapse(<<>>) = <<>>
  <2>1. PICK s : s = <<>>
    OBVIOUS
  <2>2. PICK g : ComesTo(g, Len(s), Seq(Wide), <<>>, CollapseStep(s), Collapse(s))
    <3>1. s \in Seq(Wide)
      BY <2>1
    <3> QED BY <3>1, CollapseFold
  <2>3. Len(s) = 0
    BY <2>1
  <2> QED BY <2>1, <2>2, <2>3 DEF ComesTo
<1>2. ASSUME NEW s \in Seq(Wide) PROVE Collapse(s) \in Seq(Wide)
  <2>1. PICK g : ComesTo(g, Len(s), Seq(Wide), <<>>, CollapseStep(s), Collapse(s))
    BY CollapseFold
  <2>2. Len(s) \in 0..Len(s)
    OBVIOUS
  <2> QED BY <2>1, <2>2, Zenon DEF ComesTo
<1>3. ASSUME NEW s \in Seq(Wide), NEW e \in Wide
      PROVE  Collapse(Append(s, e)) = Gather(Collapse(s), e)
  <2>1. PICK t : t = Append(s, e)
    OBVIOUS
  <2>2. PICK n \in Nat : n = Len(s)
    OBVIOUS
  <2>3. /\ t \in Seq(Wide) /\ Len(t) = n + 1 /\ DOMAIN t = 1..(n + 1) /\ DOMAIN s = 1..n
        /\ t[n + 1] = e /\ \A i \in 1..n : t[i] = s[i]
    BY <2>1, <2>2, OneMore
  <2>4. PICK step, more : step = CollapseStep(s) /\ more = CollapseStep(t)
    OBVIOUS
  <2>5. /\ \A i \in 1..n : step[i] = more[i]
        /\ more[n + 1] = [a \in Seq(Wide) |-> Gather(a, e)]
    <3>1. n + 1 \in 1..(n + 1) /\ \A i \in 1..n : i \in 1..(n + 1)
      OBVIOUS
    <3> QED BY <2>3, <2>4, <3>1, Zenon DEF CollapseStep
  <2>6. PICK A, none : A = Seq(Wide) /\ none = <<>>
    OBVIOUS
  <2>7. PICK f : ComesTo(f, n, A, none, step, Collapse(s))
    BY <2>2, <2>4, <2>6, CollapseFold
  <2>8. PICK m, g : m = n + 1 /\ ComesTo(g, m, A, none, more, Collapse(t))
    BY <2>3, <2>4, <2>6, CollapseFold
  <2>9. \A i \in 1..n : step[i] = more[i]
    BY <2>5
  <2>10. Collapse(s) \in A /\ Collapse(t) = more[m][Collapse(s)]
    BY <2>7, <2>8, <2>9, OneMoreStep
  <2> QED BY <2>1, <2>5, <2>6, <2>8, <2>10
<1> QED BY <1>1, <1>2, <1>3

\* A history with its last stretch of text divided anew tells what it told.
LEMMA RetellsGathered ==
  ASSUME NEW base \in Histories, NEW stretch \in Histories, NEW e \in Wide,
         AllText(Plus(stretch, e)), NEW b \in Histories,
         Retells(Then(base, Plus(stretch, e)), b)
  PROVE  Retells(Then(base, Channels(Plus(stretch, e))), b)
<1>1. PICK s : s = Plus(stretch, e) /\ s \in Histories /\ s # Empty
  BY HistoriesGrow
<1>2. PICK r : r = Channels(s) /\ r \in Histories /\ AllText(r)
  BY <1>1, ChannelsAre
<1>3. Then(base, s) \in Histories /\ Then(base, r) \in Histories
  BY <1>1, <1>2, HistoriesGrow
<1>4. ASSUME NEW k \in TextKinds PROVE TextOf(Then(base, r), k) = TextOf(Then(base, s), k)
  <2>1. TextOf(r, k) = TextOf(s, k)
    BY <1>1, <1>2, ChannelsAre
  <2>2. TextOf(Then(base, r), k) = Then(TextOf(base, k), TextOf(r, k))
    BY <1>2, ChannelsConcat
  <2>3. TextOf(Then(base, s), k) = Then(TextOf(base, k), TextOf(s, k))
    BY <1>1, ChannelsConcat
  <2> QED BY <2>1, <2>2, <2>3
<1>5. ASSUME NEW k, k \notin TextKinds
      PROVE  Channel(Then(base, r), k) = Channel(base, k) /\ Channel(Then(base, s), k) = Channel(base, k)
  <2>1. Channel(r, k) = Empty /\ Channel(s, k) = Empty
    BY <1>1, <1>2, <1>5 DEF AllText
  <2>2. Channel(Then(base, r), k) = Then(Channel(base, k), Channel(r, k))
    BY <1>2, ChannelsConcat
  <2>3. Channel(Then(base, s), k) = Then(Channel(base, k), Channel(s, k))
    BY <1>1, ChannelsConcat
  <2>4. Channel(base, k) \in Histories
    BY ChannelsMore
  <2> QED BY <2>1, <2>2, <2>3, <2>4, HistoriesGrow
<1>6. TilesFrom(1, Then(base, r)) /\ After(1, Then(base, r)) = After(1, Then(base, s))
  <2>1. TilesFrom(1, Then(base, s))
    BY <1>1 DEF Retells
  <2>2. PICK m \in Nat : m = After(1, base)
    BY NumbersMore
  <2>3. TilesFrom(1, base) /\ TilesFrom(m, s) /\ After(1, Then(base, s)) = After(m, s)
    BY <1>1, <2>1, <2>2, NumbersConcat
  <2>4. TilesFrom(m, r) /\ After(m, r) = After(m, s)
    BY <1>1, <1>2, <2>3, ChannelsTile
  <2>5. /\ TilesFrom(1, Then(base, r)) <=> TilesFrom(1, base) /\ TilesFrom(m, r)
        /\ After(1, Then(base, r)) = After(m, r)
    BY <1>2, <2>2, NumbersConcat
  <2> QED BY <2>3, <2>4, <2>5
<1>7. Closing(Then(base, s)) => Closing(Then(base, r))
  <2>1. "terminal" \notin TextKinds
    BY DEF TextKinds
  <2> SUFFICES ASSUME Closing(Then(base, s)) PROVE Closing(Then(base, r))
    OBVIOUS
  <2>2. Then(base, s) = Plus(Then(base, stretch), e) /\ Then(base, stretch) \in Histories
    BY <1>1, HistoriesGrow
  <2>3. Channel(Then(base, stretch), "terminal") = Empty
    BY <2>2, ClosingIs
  <2>4. e.kind # "terminal"
    <3> SUFFICES ASSUME e.kind = "terminal" PROVE FALSE
      OBVIOUS
    <3>1. Channel(s, "terminal") = Empty
      BY <1>1, <2>1 DEF AllText
    <3>2. Channel(stretch, "terminal") \in Histories
      BY ChannelsMore
    <3>3. Channel(s, "terminal") = Plus(Channel(stretch, "terminal"), e)
      BY <1>1, ChannelsMore
    <3>4. Plus(Channel(stretch, "terminal"), e) # Empty
      BY <3>2, HistoriesGrow
    <3> QED BY <3>1, <3>3, <3>4
  <2>5. Channel(Then(base, s), "terminal") = Empty
    <3>1. PICK u \in Histories : u = Then(base, stretch)
      BY <2>2
    <3>2. Channel(Plus(u, e), "terminal") = Channel(u, "terminal")
      BY <2>4, ChannelsMore
    <3> QED BY <2>2, <2>3, <3>1, <3>2
  <2>6. Channel(Then(base, r), "terminal") = Empty
    BY <1>5, <2>1, <2>5
  <2> QED BY <1>3, <2>6, ClosingIs
<1>8. Retells(Then(base, r), Then(base, s))
  BY <1>3, <1>4, <1>5, <1>6, <1>7 DEF Retells
<1> QED BY <1>1, <1>2, <1>8, RetellsOn

\* A collapsed history tells what it told (_collapse_stream_segments).
LEMMA CollapseRetells ==
  ASSUME NEW s \in Histories, TilesFrom(1, s)
  PROVE  Retells(Collapse(s), s)
<1>1. PICK T : T = {t \in Histories : TilesFrom(1, t) => Retells(Collapse(t), t)}
  OBVIOUS
<1>2. /\ Collapse(Empty) = Empty
      /\ \A t \in Histories, e \in Wide : Collapse(Plus(t, e)) = Gather(Collapse(t), e)
  BY CollapseMore, Zenon DEF Empty, Plus, Histories
<1>3. Empty \in T
  BY <1>1, <1>2, NothingToTell, HistoriesGrow
<1>4. ASSUME NEW t \in Histories, NEW e \in Wide, t \in T PROVE Plus(t, e) \in T
  <2>1. PICK u : u = Plus(t, e) /\ u \in Histories
    BY HistoriesGrow
  <2> SUFFICES ASSUME TilesFrom(1, u) PROVE Retells(Collapse(u), u)
    BY <1>1, <2>1
  <2>2. TilesFrom(1, t) /\ e.first = After(1, t)
    BY <2>1, NumbersMore
  <2>3. PICK done \in Histories : done = Collapse(t) /\ Retells(done, t)
    BY <1>1, <1>4, <2>2 DEF Retells
  <2>4. Retells(Plus(done, e), u)
    BY <2>1, <2>2, <2>3, RetellsMore
  <2>5. Collapse(u) = Gather(done, e)
    BY <1>2, <2>1, <2>3
  <2>6. PICK base \in Histories, stretch \in Histories :
          /\ done = Then(base, stretch) /\ AllText(stretch)
          /\ Gather(done, e) = IF e.kind \in TextKinds THEN Then(base, Channels(Plus(stretch, e)))
                               ELSE Plus(done, e)
    BY CutIs
  <2>7. CASE e.kind \notin TextKinds
    BY <2>4, <2>5, <2>6, <2>7
  <2>8. CASE e.kind \in TextKinds
    <3>1. AllText(Plus(stretch, e))
      <4>1. ASSUME NEW k, k \notin TextKinds PROVE Channel(Plus(stretch, e), k) = Empty
        <5>1. e.kind # k
          BY <2>8, <4>1
        <5>2. Channel(Plus(stretch, e), k) = Channel(stretch, k)
          BY <5>1, ChannelsMore
        <5> QED BY <2>6, <4>1, <5>2 DEF AllText
      <4> QED BY <4>1 DEF AllText
    <3>2. Plus(done, e) = Then(base, Plus(stretch, e))
      BY <2>6, HistoriesGrow
    <3>3. Retells(Then(base, Plus(stretch, e)), u)
      BY <2>4, <3>2
    <3>4. Retells(Then(base, Channels(Plus(stretch, e))), u)
      BY <2>1, <3>1, <3>3, RetellsGathered
    <3> QED BY <2>5, <2>6, <2>8, <3>4
  <2> QED BY <2>7, <2>8
<1>5. s \in T
  BY <1>3, <1>4, HistoriesFollow
<1> QED BY <1>1, <1>5

-----------------------------------------------------------------------------
(* Numbering anew. *)

LEMMA RenumberWalks ==
  ASSUME NEW s \in Histories
  PROVE  \E end \in [0..Len(s) -> Nat] :
           /\ end[0] = 0
           /\ \A i \in 1..Len(s) : end[i] = end[i - 1] + (s[i].last - s[i].first + 1)
           /\ Renumber(s) = [i \in DOMAIN s |-> [s[i] EXCEPT !.first = end[i - 1] + 1, !.last = end[i]]]
<1>1. PICK n \in Nat : n = Len(s) /\ DOMAIN s = 1..n /\ \A i \in 1..n : s[i] \in Wide
  BY DEF Histories
<1>2. PICK step : step = [i \in 1..n |-> [a \in Nat |-> a + (s[i].last - s[i].first + 1)]]
  OBVIOUS
<1>3. \A i \in 1..n : \A a \in Nat : step[i][a] \in Nat
  <2>1. \A i \in 1..n : s[i].last \in Nat /\ s[i].first \in Nat /\ s[i].first <= s[i].last
    BY <1>1, WideIs
  <2>2. \A i \in 1..n : \A a \in Nat : a + (s[i].last - s[i].first + 1) \in Nat
    BY <2>1
  <2> QED BY <1>2, <2>2
<1>4. PICK g : Walks(g, n, Nat, 0, step)
  BY <1>3, StepsDefine
<1>5. g \in [0..n -> Nat] /\ g[0] = 0
  BY <1>4 DEF Walks
<1>6. ASSUME NEW i \in 1..n PROVE g[i] = g[i - 1] + (s[i].last - s[i].first + 1)
  <2>1. i \in 0..n /\ i # 0 /\ i - 1 \in 0..n
    OBVIOUS
  <2>2. g[i] = step[i][g[i - 1]] /\ g[i - 1] \in Nat
    BY <1>4, <2>1, Zenon DEF Walks
  <2> QED BY <1>2, <2>2, Zenon
<1>7. PICK c : c = CHOOSE end : end = [i \in 0..Len(s) |->
                 IF i = 0 THEN 0 ELSE end[i - 1] + (s[i].last - s[i].first + 1)]
  OBVIOUS
<1>8. c = [i \in 0..n |-> IF i = 0 THEN 0 ELSE c[i - 1] + (s[i].last - s[i].first + 1)]
  <2>1. g = [i \in 0..n |-> g[i]]
    BY <1>5
  <2>2. \A i \in 0..n : i # 0 => i \in 1..n
    OBVIOUS
  <2>3. g = [i \in 0..n |-> IF i = 0 THEN 0 ELSE g[i - 1] + (s[i].last - s[i].first + 1)]
    BY <1>5, <1>6, <2>1, <2>2, Zenon
  <2> QED BY <1>1, <1>7, <2>3, Zenon
<1>9. /\ 0 \in 0..n /\ c[0] = 0
      /\ \A i \in 1..n : i \in 0..n /\ i # 0
  BY <1>8
<1>10. \A i \in 1..n : c[i] = c[i - 1] + (s[i].last - s[i].first + 1)
  BY <1>8, <1>9, Zenon
<1>11. ASSUME NEW k \in 0..n PROVE c[k] = g[k]
  <2>1. k \in Nat /\ \A i \in 1..k : i \in 1..n
    OBVIOUS
  <2>2. ASSUME NEW i \in 1..k, c[i - 1] = g[i - 1] PROVE c[i] = g[i]
    <3>1. i \in 1..n
      BY <2>1
    <3> QED BY <1>6, <1>10, <2>2, <3>1, Zenon
  <2>3. c[0] = g[0]
    BY <1>5, <1>9
  <2> QED BY <2>1, <2>2, <2>3, AlikeUpTo
<1>12. c \in [0..n -> Nat]
  <2>1. c = [i \in 0..n |-> c[i]]
    BY <1>8
  <2>2. g = [i \in 0..n |-> g[i]]
    BY <1>5
  <2>3. c = g
    BY <1>11, <2>1, <2>2, Zenon
  <2> QED BY <1>5, <2>3
<1>13. Renumber(s) = [i \in DOMAIN s |-> [s[i] EXCEPT !.first = c[i - 1] + 1, !.last = c[i]]]
  BY <1>7 DEF Renumber
<1> QED BY <1>1, <1>9, <1>10, <1>12, <1>13

\* The events and their order stay, their ranges begin behind those before.
Ranged(r, s, n, end) ==
  /\ end \in [0..n -> Nat] /\ end[0] = 0
  /\ \A i \in 1..n : end[i] = end[i - 1] + (s[i].last - s[i].first + 1)
  /\ r \in Seq(Wide) /\ Len(r) = n
  /\ \A i \in 1..n : /\ r[i] \in Wide /\ r[i].kind = s[i].kind /\ r[i].text = s[i].text
                     /\ r[i].first = end[i - 1] + 1 /\ r[i].last = end[i]

LEMMA RenumberIs ==
  ASSUME NEW s \in Histories, NEW n \in Nat, n = Len(s)
  PROVE  \E end : Ranged(Renumber(s), s, n, end)
<1>1. DOMAIN s = 1..n /\ \A i \in 1..n : s[i] \in Wide
  BY DEF Histories
<1>2. PICK end \in [0..n -> Nat] :
        /\ end[0] = 0
        /\ \A i \in 1..n : end[i] = end[i - 1] + (s[i].last - s[i].first + 1)
        /\ Renumber(s) = [i \in DOMAIN s |-> [s[i] EXCEPT !.first = end[i - 1] + 1, !.last = end[i]]]
  BY RenumberWalks
<1>3. PICK r : r = Renumber(s)
  OBVIOUS
<1>4. ASSUME NEW i \in 1..n
      PROVE  /\ r[i] \in Wide /\ r[i].kind = s[i].kind /\ r[i].text = s[i].text
             /\ r[i].first = end[i - 1] + 1 /\ r[i].last = end[i]
  <2>1. i \in 0..n /\ i - 1 \in 0..n
    OBVIOUS
  <2>2. PICK m \in Nat, l \in Nat : m = end[i - 1] + 1 /\ l = end[i] /\ m >= 1
    BY <2>1
  <2>3. m <= l
    <3>1. s[i].last \in Nat /\ s[i].first \in Nat /\ s[i].first <= s[i].last
      BY <1>1, WideIs
    <3>2. end[i - 1] \in Nat /\ end[i] = end[i - 1] + (s[i].last - s[i].first + 1)
      BY <1>2, <2>1
    <3> QED BY <2>2, <3>1, <3>2
  <2>4. r[i] = [s[i] EXCEPT !.first = m, !.last = l]
    BY <1>1, <1>2, <1>3, <2>2, Zenon
  <2>5. s[i] \in Events
    BY <1>1, WideIs
  <2>6. /\ r[i] \in Events /\ r[i].kind = s[i].kind /\ r[i].text = s[i].text
        /\ r[i].first = m /\ r[i].last = l
    BY <2>4, <2>5 DEF Events
  <2> QED BY <2>2, <2>3, <2>6 DEF Wide
<1>5. r \in [1..n -> Wide]
  <2>1. r = [i \in 1..n |-> r[i]]
    BY <1>1, <1>2, <1>3
  <2> QED BY <1>4, <2>1
<1>6. r \in Seq(Wide) /\ Len(r) = n
  BY <1>5
<1> QED BY <1>2, <1>3, <1>4, <1>6, Zenon DEF Ranged

\* Another event comes behind the others.
LEMMA RenumberMore ==
  /\ Renumber(Empty) = Empty
  /\ \A s \in Histories : Renumber(s) \in Histories /\ Len(Renumber(s)) = Len(s)
  /\ \A s \in Histories, e \in Wide : \E f \in Wide :
       /\ Renumber(Plus(s, e)) = Plus(Renumber(s), f)
       /\ f.kind = e.kind /\ f.text = e.text
       /\ f.first = After(1, Renumber(s)) /\ f.last - f.first = e.last - e.first
<1>1. Renumber(Empty) = Empty
  <2>1. PICK r : r = Renumber(Empty)
    OBVIOUS
  <2>2. Empty \in Histories /\ Len(Empty) = 0
    BY HistoriesGrow DEF Empty
  <2>3. r \in Seq(Wide) /\ Len(r) = 0
    BY <2>1, <2>2, RenumberIs DEF Ranged
  <2>4. r = <<>>
    BY <2>3
  <2> QED BY <2>1, <2>4 DEF Empty
<1>2. ASSUME NEW s \in Histories PROVE Renumber(s) \in Histories /\ Len(Renumber(s)) = Len(s)
  <2>1. PICK n \in Nat : n = Len(s)
    BY DEF Histories
  <2>2. PICK end : Ranged(Renumber(s), s, n, end)
    BY <2>1, RenumberIs
  <2> QED BY <2>1, <2>2, Zenon DEF Histories, Ranged
<1>3. ASSUME NEW s \in Histories, NEW e \in Wide
      PROVE  \E f \in Wide :
               /\ Renumber(Plus(s, e)) = Plus(Renumber(s), f)
               /\ f.kind = e.kind /\ f.text = e.text
               /\ f.first = After(1, Renumber(s)) /\ f.last - f.first = e.last - e.first
  <2>1. PICK t : t = Plus(s, e) /\ t \in Histories
    BY HistoriesGrow
  <2>2. PICK n \in Nat, m \in Nat : n = Len(s) /\ m = n + 1
    BY DEF Histories
  <2>3. Len(t) = m /\ t[m] = e /\ \A i \in 1..n : t[i] = s[i]
    <3>1. PICK u : u = Append(s, e)
      OBVIOUS
    <3>2. Len(u) = n + 1 /\ u[n + 1] = e /\ \A i \in 1..n : u[i] = s[i]
      BY <2>2, <3>1, OneMore DEF Histories
    <3> QED BY <2>1, <2>2, <3>1, <3>2 DEF Plus
  <2>4. PICK q, r : q = Renumber(s) /\ r = Renumber(t)
    OBVIOUS
  <2>5. PICK f : Ranged(q, s, n, f)
    BY <2>2, <2>4, RenumberIs
  <2>6. PICK g : Ranged(r, t, m, g)
    <3>1. t \in Histories /\ m = Len(t)
      BY <2>1, <2>3
    <3> QED BY <2>4, <3>1, RenumberIs
  <2>7. ASSUME NEW k \in 0..n PROVE f[k] = g[k]
    <3>1. k \in Nat /\ \A i \in 1..k : i \in 1..n /\ i \in 1..m
      BY <2>2
    <3>2. ASSUME NEW i \in 1..k, f[i - 1] = g[i - 1] PROVE f[i] = g[i]
      <4>1. f[i] = f[i - 1] + (s[i].last - s[i].first + 1)
        BY <2>5, <3>1, Zenon DEF Ranged
      <4>2. g[i] = g[i - 1] + (t[i].last - t[i].first + 1)
        BY <2>6, <3>1, Zenon DEF Ranged
      <4>3. t[i] = s[i]
        BY <2>3, <3>1
      <4> QED BY <3>2, <4>1, <4>2, <4>3, Zenon
    <3>3. f[0] = g[0]
      BY <2>5, <2>6 DEF Ranged
    <3> QED BY <3>1, <3>2, <3>3, AlikeUpTo
  <2>8. /\ m \in 1..m /\ m - 1 = n /\ n \in 0..n /\ n \in 0..m /\ 1..m = 1..n \cup {m}
        /\ \A i \in 1..n : i \in 1..m /\ i \in 0..n /\ i - 1 \in 0..n
    BY <2>2
  <2>9. PICK d \in Wide : d = r[m]
    BY <2>6, <2>8, Zenon DEF Ranged
  <2>10. d.kind = e.kind /\ d.text = e.text /\ d.first = f[n] + 1 /\ d.last - d.first = e.last - e.first
    <3>1. d.kind = t[m].kind /\ d.text = t[m].text /\ d.first = g[m - 1] + 1 /\ d.last = g[m]
      BY <2>6, <2>8, <2>9, Zenon DEF Ranged
    <3>2. g[m] = g[m - 1] + (t[m].last - t[m].first + 1)
      BY <2>6, <2>8, Zenon DEF Ranged
    <3>3. g[n] \in Nat
      BY <2>6, <2>8 DEF Ranged
    <3>4. f[n] = g[n] /\ m - 1 = n /\ t[m] = e
      BY <2>3, <2>7, <2>8
    <3>5. e.last \in Nat /\ e.first \in Nat
      BY WideIs
    <3> QED BY <3>1, <3>2, <3>3, <3>4, <3>5
  <2>11. ASSUME NEW i \in 1..n PROVE r[i] = q[i]
    <3>1. i \in 1..m /\ i \in 0..n /\ i - 1 \in 0..n
      BY <2>8
    <3>2. /\ r[i] \in Wide /\ r[i].kind = t[i].kind /\ r[i].text = t[i].text
          /\ r[i].first = g[i - 1] + 1 /\ r[i].last = g[i]
      BY <2>6, <3>1, Zenon DEF Ranged
    <3>3. /\ q[i] \in Wide /\ q[i].kind = s[i].kind /\ q[i].text = s[i].text
          /\ q[i].first = f[i - 1] + 1 /\ q[i].last = f[i]
      BY <2>5, <3>1, Zenon DEF Ranged
    <3>4. t[i] = s[i] /\ f[i] = g[i] /\ f[i - 1] = g[i - 1]
      BY <2>3, <2>7, <3>1
    <3>5. r[i] = [kind |-> r[i].kind, first |-> r[i].first, last |-> r[i].last, text |-> r[i].text]
      BY <3>2, WideIs
    <3>6. q[i] = [kind |-> q[i].kind, first |-> q[i].first, last |-> q[i].last, text |-> q[i].text]
      BY <3>3, WideIs
    <3> QED BY <3>2, <3>3, <3>4, <3>5, <3>6
  <2>12. r = Append(q, d)
    <3>1. PICK u : u = Append(q, d)
      OBVIOUS
    <3>2. q \in Seq(Wide) /\ Len(q) = n /\ r \in Seq(Wide) /\ Len(r) = m
      BY <2>5, <2>6 DEF Ranged
    <3>3. u \in Seq(Wide) /\ Len(u) = m /\ u[m] = d /\ \A i \in 1..n : u[i] = q[i]
      BY <2>2, <3>1, <3>2, OneMore
    <3>4. \A i \in 1..m : r[i] = u[i]
      BY <2>8, <2>9, <2>11, <3>3, Zenon
    <3> QED BY <3>1, <3>2, <3>3, <3>4, SeqEqual
  <2>13. After(1, q) = f[n] + 1
    <3> q \in Seq(Wide) /\ Len(q) = n /\ f[0] = 0 /\ \A i \in 1..n : q[i].last = f[i]
      BY <2>5 DEF Ranged
    <3>1. CASE n = 0
      <4>1. q = <<>>
        BY <3>1
      <4> QED BY <3>1, <4>1 DEF After
    <3>2. CASE n # 0
      <4>1. n \in 1..n /\ q # <<>> /\ q[Len(q)].last = f[n]
        BY <2>2, <3>2
      <4> QED BY <4>1 DEF After, Last
    <3> QED BY <3>1, <3>2
  <2> QED BY <2>1, <2>4, <2>9, <2>10, <2>12, <2>13, Zenon DEF Plus
<1> QED BY <1>1, <1>2, <1>3

\* r and s have the same events but for their ranges.
Alike(r, s) ==
  /\ \A k : /\ TextOf(r, k) = TextOf(s, k)
            /\ Len(Channel(r, k)) = Len(Channel(s, k))
  /\ Closing(s) => Closing(r)

LEMMA EmptyIs ==
  \A s \in Histories : /\ Len(s) \in Nat /\ (Len(s) = 0 <=> s = Empty)
                       /\ \A e \in Wide : Len(Plus(s, e)) = Len(s) + 1
                       /\ \A t \in Histories : Len(Then(s, t)) = Len(s) + Len(t)
<1> SUFFICES ASSUME NEW s \in Seq(Wide)
             PROVE  /\ Len(s) \in Nat /\ (Len(s) = 0 <=> s = <<>>)
                    /\ \A e \in Wide : Len(Append(s, e)) = Len(s) + 1
                    /\ \A t \in Seq(Wide) : Len(s \o t) = Len(s) + Len(t)
  BY Zenon DEF Histories, Empty, Plus, Then
<1>1. \A e \in Wide : Len(Append(s, e)) = Len(s) + 1
  BY OneMore
<1>2. Len(s) \in Nat /\ (Len(s) = 0 <=> s = <<>>)
  OBVIOUS
<1>3. \A t \in Seq(Wide) : Len(s \o t) = Len(s) + Len(t)
  OBVIOUS
<1> QED BY <1>1, <1>2, <1>3

\* A history that is numbered anew (_register_event_sequences) has gapless numbers and is
\* otherwise as it was; one that has gapless numbers stays as it is.
LEMMA RenumberTiles ==
  ASSUME NEW s \in Histories
  PROVE  /\ Renumber(s) \in Histories /\ Len(Renumber(s)) = Len(s)
         /\ TilesFrom(1, Renumber(s)) /\ Alike(Renumber(s), s)
         /\ TilesFrom(1, s) => Renumber(s) = s
<1>1. PICK T : T = {t \in Histories : /\ TilesFrom(1, Renumber(t)) /\ Alike(Renumber(t), t)
                                      /\ TilesFrom(1, t) => Renumber(t) = t}
  OBVIOUS
<1>2. Empty \in T
  <2>1. Empty \in Histories /\ Renumber(Empty) = Empty /\ TilesFrom(1, Empty)
    BY HistoriesGrow, RenumberMore, NumbersMore
  <2> QED BY <1>1, <2>1 DEF Alike
<1>3. ASSUME NEW t \in Histories, NEW e \in Wide, t \in T PROVE Plus(t, e) \in T
  <2>1. PICK u : u = Plus(t, e) /\ u \in Histories
    BY HistoriesGrow
  <2>2. PICK r \in Histories : r = Renumber(t)
    BY RenumberMore
  <2>3. PICK f \in Wide : /\ Renumber(u) = Plus(r, f) /\ f.kind = e.kind /\ f.text = e.text
                          /\ f.first = After(1, r) /\ f.last - f.first = e.last - e.first
    BY <2>1, <2>2, RenumberMore
  <2>4. TilesFrom(1, r) /\ Alike(r, t) /\ (TilesFrom(1, t) => r = t)
    BY <1>1, <1>3, <2>2
  <2>5. TilesFrom(1, Plus(r, f))
    BY <2>3, <2>4, NumbersMore
  <2>6. ASSUME NEW k
        PROVE  /\ TextOf(Plus(r, f), k) = TextOf(u, k)
               /\ Len(Channel(Plus(r, f), k)) = Len(Channel(u, k))
    <3>1. TextOf(r, k) = TextOf(t, k) /\ Len(Channel(r, k)) = Len(Channel(t, k))
      BY <2>4 DEF Alike
    <3>2. Channel(r, k) \in Histories /\ Channel(t, k) \in Histories
      BY ChannelsMore
    <3>3. CASE e.kind = k
      <4>1. /\ TextOf(Plus(r, f), k) = Then(TextOf(r, k), f.text)
            /\ Channel(Plus(r, f), k) = Plus(Channel(r, k), f)
        BY <2>3, <3>3, ChannelsMore
      <4>2. /\ TextOf(u, k) = Then(TextOf(t, k), e.text)
            /\ Channel(u, k) = Plus(Channel(t, k), e)
        BY <2>1, <3>3, ChannelsMore
      <4>3. /\ Len(Plus(Channel(r, k), f)) = Len(Channel(r, k)) + 1
            /\ Len(Plus(Channel(t, k), e)) = Len(Channel(t, k)) + 1
        BY <3>2, EmptyIs
      <4> QED BY <2>3, <3>1, <4>1, <4>2, <4>3
    <3>4. CASE e.kind # k
      <4>1. TextOf(Plus(r, f), k) = TextOf(r, k) /\ Channel(Plus(r, f), k) = Channel(r, k)
        BY <2>3, <3>4, ChannelsMore
      <4>2. TextOf(u, k) = TextOf(t, k) /\ Channel(u, k) = Channel(t, k)
        BY <2>1, <3>4, ChannelsMore
      <4> QED BY <3>1, <4>1, <4>2
    <3> QED BY <3>3, <3>4
  <2>7. Closing(u) => Closing(Plus(r, f))
    <3>1. Channel(r, "terminal") \in Histories /\ Channel(t, "terminal") \in Histories
      BY ChannelsMore
    <3>2. Len(Channel(r, "terminal")) = Len(Channel(t, "terminal"))
      BY <2>4 DEF Alike
    <3>3. Channel(t, "terminal") = Empty => Channel(r, "terminal") = Empty
      BY <3>1, <3>2, EmptyIs
    <3> QED BY <2>1, <3>3, ClosingIs
  <2>8. TilesFrom(1, u) => Plus(r, f) = u
    <3> SUFFICES ASSUME TilesFrom(1, u) PROVE Plus(r, f) = u
      OBVIOUS
    <3>1. TilesFrom(1, t) /\ e.first = After(1, t)
      BY <2>1, NumbersMore
    <3>2. r = t /\ f.first = e.first
      BY <2>3, <2>4, <3>1
    <3>3. f.last = e.last
      <4>1. f.last \in Nat /\ f.first \in Nat /\ e.last \in Nat /\ e.first \in Nat
        BY WideIs
      <4> QED BY <2>3, <3>2, <4>1
    <3>4. f = [kind |-> f.kind, first |-> f.first, last |-> f.last, text |-> f.text]
      BY WideIs
    <3>5. e = [kind |-> e.kind, first |-> e.first, last |-> e.last, text |-> e.text]
      BY WideIs
    <3>6. f = e
      BY <2>3, <3>2, <3>3, <3>4, <3>5
    <3> QED BY <2>1, <3>2, <3>6
  <2>9. Alike(Plus(r, f), u)
    BY <2>6, <2>7 DEF Alike
  <2> QED BY <1>1, <2>1, <2>3, <2>5, <2>8, <2>9
<1>4. s \in T
  BY <1>2, <1>3, HistoriesFollow
<1> QED BY <1>1, <1>4, RenumberMore

-----------------------------------------------------------------------------
(* Truncating. *)

NotOver == Kinds \ {"terminal"}

LEMMA LengthsAddUp ==
  ASSUME NEW s \in Histories
  PROVE  Len(OfKinds(s, NotOver)) + Len(Channel(s, "terminal")) = Len(s)
<1>1. PICK T : T = {t \in Histories :
                      Len(OfKinds(t, NotOver)) + Len(Channel(t, "terminal")) = Len(t)}
  OBVIOUS
<1>2. Empty \in T
  <2>1. /\ Empty \in Histories /\ OfKinds(Empty, NotOver) = Empty
        /\ Channel(Empty, "terminal") = Empty
    BY HistoriesGrow, SelectionsMore, ChannelsMore
  <2>2. Len(Empty) = 0
    BY <2>1, EmptyIs
  <2> QED BY <1>1, <2>1, <2>2
<1>3. ASSUME NEW t \in Histories, NEW e \in Wide, t \in T PROVE Plus(t, e) \in T
  <2>1. PICK u : u = Plus(t, e) /\ u \in Histories
    BY HistoriesGrow
  <2>2. PICK o, c : o = OfKinds(t, NotOver) /\ c = Channel(t, "terminal")
    OBVIOUS
  <2>3. o \in Histories /\ c \in Histories
    BY <2>2, SelectionsMore, ChannelsMore
  <2>4. Len(o) + Len(c) = Len(t) /\ Len(o) \in Nat /\ Len(c) \in Nat /\ Len(t) \in Nat
    BY <1>1, <1>3, <2>2, <2>3, EmptyIs
  <2>5. Len(u) = Len(t) + 1
    BY <2>1, EmptyIs
  <2>6. e.kind = "terminal" <=> e.kind \notin NotOver
    BY WideIs DEF NotOver
  <2>7. CASE e.kind = "terminal"
    <3>1. OfKinds(u, NotOver) = o
      BY <2>1, <2>2, <2>6, <2>7, SelectionsMore
    <3>2. Channel(u, "terminal") = Plus(c, e)
      BY <2>1, <2>2, <2>7, ChannelsMore
    <3>3. Len(Plus(c, e)) = Len(c) + 1
      BY <2>3, EmptyIs
    <3> QED BY <1>1, <2>1, <2>4, <2>5, <3>1, <3>2, <3>3
  <2>8. CASE e.kind # "terminal"
    <3>1. OfKinds(u, NotOver) = Plus(o, e)
      BY <2>1, <2>2, <2>6, <2>8, SelectionsMore
    <3>2. Channel(u, "terminal") = c
      BY <2>1, <2>2, <2>8, ChannelsMore
    <3>3. Len(Plus(o, e)) = Len(o) + 1
      BY <2>3, EmptyIs
    <3> QED BY <1>1, <2>1, <2>4, <2>5, <3>1, <3>2, <3>3
  <2> QED BY <2>7, <2>8
<1>4. s \in T
  BY <1>2, <1>3, HistoriesFollow
<1> QED BY <1>1, <1>4

\* A channel of some kinds of events.
LEMMA ChannelsOfSome ==
  ASSUME NEW s \in Histories, NEW K, NEW k
  PROVE  /\ k \in K => Channel(OfKinds(s, K), k) = Channel(s, k)
         /\ k \notin K => Channel(OfKinds(s, K), k) = Empty
<1>1. PICK T : T = {t \in Histories :
                      /\ k \in K => Channel(OfKinds(t, K), k) = Channel(t, k)
                      /\ k \notin K => Channel(OfKinds(t, K), k) = Empty}
  OBVIOUS
<1>2. Empty \in T
  <2>1. Empty \in Histories /\ OfKinds(Empty, K) = Empty /\ Channel(Empty, k) = Empty
    BY HistoriesGrow, SelectionsMore, ChannelsMore
  <2> QED BY <1>1, <2>1
<1>3. ASSUME NEW t \in Histories, NEW e \in Wide, t \in T PROVE Plus(t, e) \in T
  <2>1. PICK u : u = Plus(t, e) /\ u \in Histories
    BY HistoriesGrow
  <2>2. PICK o \in Histories : o = OfKinds(t, K)
    BY SelectionsMore
  <2>3. /\ k \in K => Channel(o, k) = Channel(t, k)
        /\ k \notin K => Channel(o, k) = Empty
    BY <1>1, <1>3, <2>2
  <2>4. CASE e.kind \in K
    <3>1. OfKinds(u, K) = Plus(o, e)
      BY <2>1, <2>2, <2>4, SelectionsMore
    <3>2. e.kind = k => /\ Channel(Plus(o, e), k) = Plus(Channel(o, k), e)
                        /\ Channel(u, k) = Plus(Channel(t, k), e)
      BY <2>1, ChannelsMore
    <3>3. e.kind # k => Channel(Plus(o, e), k) = Channel(o, k) /\ Channel(u, k) = Channel(t, k)
      BY <2>1, ChannelsMore
    <3> QED BY <1>1, <2>1, <2>3, <2>4, <3>1, <3>2, <3>3
  <2>5. CASE e.kind \notin K
    <3>1. OfKinds(u, K) = o
      BY <2>1, <2>2, <2>5, SelectionsMore
    <3>2. e.kind # k => Channel(u, k) = Channel(t, k)
      BY <2>1, ChannelsMore
    <3>3. k \in K => e.kind # k
      BY <2>5
    <3> QED BY <1>1, <2>1, <2>3, <3>1, <3>2, <3>3
  <2> QED BY <2>4, <2>5
<1>4. s \in T
  BY <1>2, <1>3, HistoriesFollow
<1> QED BY <1>1, <1>4

\* Without an outcome, all of it is not the outcome.
LEMMA NoneOver ==
  ASSUME NEW s \in Histories, Channel(s, "terminal") = Empty
  PROVE  OfKinds(s, NotOver) = s
<1>1. PICK T : T = {t \in Histories : Channel(t, "terminal") = Empty => OfKinds(t, NotOver) = t}
  OBVIOUS
<1>2. Empty \in T
  BY <1>1, HistoriesGrow, SelectionsMore
<1>3. ASSUME NEW t \in Histories, NEW e \in Wide, t \in T PROVE Plus(t, e) \in T
  <2>1. PICK u : u = Plus(t, e) /\ u \in Histories
    BY HistoriesGrow
  <2> SUFFICES ASSUME Channel(u, "terminal") = Empty PROVE OfKinds(u, NotOver) = u
    BY <1>1, <2>1
  <2>2. e.kind # "terminal"
    <3> SUFFICES ASSUME e.kind = "terminal" PROVE FALSE
      OBVIOUS
    <3>1. Channel(u, "terminal") = Plus(Channel(t, "terminal"), e)
      BY <2>1, ChannelsMore
    <3>2. Channel(t, "terminal") \in Histories
      BY ChannelsMore
    <3>3. Plus(Channel(t, "terminal"), e) # Empty
      BY <3>2, HistoriesGrow
    <3> QED BY <3>1, <3>3
  <2>3. Channel(t, "terminal") = Empty
    <3>1. Channel(u, "terminal") = Channel(t, "terminal")
      BY <2>1, <2>2, ChannelsMore
    <3> QED BY <3>1
  <2>4. OfKinds(t, NotOver) = t
    BY <1>1, <1>3, <2>3
  <2>5. e.kind \in NotOver
    BY <2>2, WideIs DEF NotOver
  <2>6. OfKinds(u, NotOver) = Plus(OfKinds(t, NotOver), e)
    BY <2>1, <2>5, SelectionsMore
  <2> QED BY <2>1, <2>4, <2>6
<1>4. s \in T
  BY <1>2, <1>3, HistoriesFollow
<1> QED BY <1>1, <1>4

\* Its numbers go up.
Ascends(s) == \A i \in DOMAIN s, j \in DOMAIN s : i <= j => s[i].first <= s[j].first
Below(s, n) == \A i \in DOMAIN s : s[i].first < n

LEMMA SomeAscend ==
  ASSUME NEW s \in Histories, NEW K, NEW n \in Nat, TilesFrom(n, s)
  PROVE  Ascends(OfKinds(s, K))
<1>1. PICK T : T = {t \in Histories : TilesFrom(n, t) => /\ Ascends(OfKinds(t, K))
                                                         /\ Below(OfKinds(t, K), After(n, t))}
  OBVIOUS
<1>2. Empty \in T
  <2>1. Empty \in Histories /\ OfKinds(Empty, K) = Empty /\ DOMAIN Empty = {}
    BY HistoriesGrow, SelectionsMore DEF Empty
  <2> QED BY <1>1, <2>1 DEF Ascends, Below
<1>3. ASSUME NEW t \in Histories, NEW e \in Wide, t \in T PROVE Plus(t, e) \in T
  <2>1. PICK u : u = Plus(t, e) /\ u \in Histories
    BY HistoriesGrow
  <2> SUFFICES ASSUME TilesFrom(n, u)
               PROVE  Ascends(OfKinds(u, K)) /\ Below(OfKinds(u, K), After(n, u))
    BY <1>1, <2>1
  <2>2. TilesFrom(n, t) /\ e.first = After(n, t) /\ After(n, u) = e.last + 1
    BY <2>1, NumbersMore
  <2>3. PICK o \in Histories : o = OfKinds(t, K)
    BY SelectionsMore
  <2>4. Ascends(o) /\ Below(o, e.first)
    BY <1>1, <1>3, <2>2, <2>3
  <2>5. e.first \in Nat /\ e.last \in Nat /\ e.first <= e.last
    BY WideIs
  <2>6. PICK m \in Nat : /\ m = Len(o) /\ DOMAIN o = 1..m
                         /\ \A i \in 1..m : o[i].first \in Nat /\ o[i].first < e.first
    <3>1. PICK m \in Nat : m = Len(o) /\ DOMAIN o = 1..m /\ \A i \in 1..m : o[i] \in Wide
      BY DEF Histories
    <3>2. \A i \in 1..m : o[i].first \in Nat
      BY <3>1, WideIs
    <3> QED BY <2>4, <3>1, <3>2 DEF Below
  <2>7. CASE e.kind \in K
    <3>1. OfKinds(u, K) = Plus(o, e)
      BY <2>1, <2>3, <2>7, SelectionsMore
    <3>2. PICK p : /\ p = Plus(o, e) /\ DOMAIN p = 1..(m + 1) /\ p[m + 1] = e
                   /\ \A i \in 1..m : p[i] = o[i]
      <4>1. PICK p : p = Append(o, e)
        OBVIOUS
      <4>2. DOMAIN p = 1..(m + 1) /\ p[m + 1] = e /\ \A i \in 1..m : p[i] = o[i]
        BY <2>6, <4>1, OneMore DEF Histories
      <4> QED BY <4>1, <4>2, Zenon DEF Plus
    <3>3. Below(p, e.last + 1)
      <4>1. ASSUME NEW i \in 1..(m + 1) PROVE p[i].first < e.last + 1
        <5>1. CASE i \in 1..m
          BY <2>5, <2>6, <3>2, <5>1
        <5>2. CASE i = m + 1
          BY <2>5, <3>2, <5>2
        <5> QED BY <2>6, <5>1, <5>2
      <4> QED BY <3>2, <4>1 DEF Below
    <3>4. ASSUME NEW i \in 1..(m + 1), NEW j \in 1..(m + 1), i <= j PROVE p[i].first <= p[j].first
      <4>1. CASE j \in 1..m
        <5>1. i \in 1..m
          BY <2>6, <3>4, <4>1
        <5>2. o[i].first <= o[j].first
          BY <2>4, <2>6, <3>4, <4>1, <5>1 DEF Ascends
        <5> QED BY <3>2, <4>1, <5>1, <5>2
      <4>2. CASE j = m + 1 /\ i \in 1..m
        BY <2>5, <2>6, <3>2, <4>2
      <4>3. CASE j = m + 1 /\ i = m + 1
        BY <2>5, <3>2, <4>3
      <4> QED BY <2>6, <4>1, <4>2, <4>3
    <3>5. Ascends(p)
      BY <3>2, <3>4, Zenon DEF Ascends
    <3> QED BY <2>2, <3>1, <3>2, <3>3, <3>5
  <2>8. CASE e.kind \notin K
    <3>1. OfKinds(u, K) = o
      BY <2>1, <2>3, <2>8, SelectionsMore
    <3>2. Below(o, e.last + 1)
      BY <2>5, <2>6 DEF Below
    <3> QED BY <2>2, <2>4, <3>1, <3>2
  <2> QED BY <2>7, <2>8
<1>4. s \in T
  BY <1>2, <1>3, HistoriesFollow
<1> QED BY <1>1, <1>4

LEMMA BothEmpty ==
  ASSUME NEW a \in Histories, NEW b \in Histories, Then(a, b) = Empty
  PROVE  a = Empty /\ b = Empty
<1>1. Len(Then(a, b)) = Len(a) + Len(b) /\ Len(a) \in Nat /\ Len(b) \in Nat
  BY EmptyIs
<1>2. Len(Empty) = 0
  BY DEF Empty
<1>3. Len(a) = 0 /\ Len(b) = 0
  BY <1>1, <1>2
<1> QED BY <1>3, EmptyIs

\* The last of one outcome at most.
LEMMA LastOfOne ==
  ASSUME NEW s \in Histories, Len(s) <= 1
  PROVE  (IF s = <<>> THEN <<>> ELSE <<Last(s)>>) = s
<1>1. CASE s = <<>>
  BY <1>1
<1>2. CASE s # <<>>
  <2>1. PICK f \in Histories, e \in Wide : s = Plus(f, e)
    BY <1>2, HistoriesGrow DEF Empty
  <2>2. Len(s) = Len(f) + 1 /\ Len(f) \in Nat
    BY <2>1, EmptyIs
  <2>3. f = Empty
    BY <2>2, EmptyIs
  <2>4. s = <<e>>
    BY <2>1, <2>3 DEF Plus, Empty
  <2>5. Last(s) = e
    BY <2>4 DEF Last
  <2> QED BY <1>2, <2>4, <2>5
<1> QED BY <1>1, <1>2

\* What is left of a history that is too long: its first events, a marker, the outcome.
LEMMA TruncateIs ==
  ASSUME NEW s \in Histories, ~Fits(s), TilesFrom(1, s), Len(Channel(s, "terminal")) <= 1
  PROVE  \E kept \in Histories, dropped \in Histories, m \in Wide :
           /\ OfKinds(s, NotOver) = Then(kept, dropped) /\ dropped # Empty
           /\ m.kind = "truncated"
           /\ m.first = Head(dropped).first /\ m.last = Last(dropped).last
           /\ Truncate(s) = Then(Plus(kept, m), Channel(s, "terminal"))
           /\ Len(Truncate(s)) = MaxEvents
<1>1. PICK outs \in Histories, o \in Histories :
        outs = Channel(s, "terminal") /\ o = OfKinds(s, NotOver)
  BY SelectionsMore, ChannelsMore
<1>2. PICK terminal : terminal = IF outs = <<>> THEN <<>> ELSE <<Last(outs)>>
  OBVIOUS
<1>3. terminal = outs
  BY <1>1, <1>2, LastOfOne
<1>4. PICK x \in Nat, y \in Nat : x = Len(outs) /\ y = Len(o)
  BY EmptyIs
<1>5. MaxEvents \in Nat \ {0, 1}
  BY EventsAssumption
<1>6. x <= 1 /\ y + x = Len(s) /\ Len(s) > MaxEvents
  <2>1. Len(o) + Len(outs) = Len(s)
    BY <1>1, LengthsAddUp
  <2>2. Len(s) \in Nat /\ MaxEvents \in Nat
    BY <1>5, EmptyIs
  <2>3. Len(s) > MaxEvents
    BY <2>2 DEF Fits
  <2> QED BY <1>1, <1>4, <2>1, <2>3
<1>7. PICK room \in Nat : room = MaxEvents - 1 - x
  <2>1. MaxEvents \in Nat /\ MaxEvents >= 2
    BY <1>5
  <2>2. MaxEvents - 1 - x \in Nat
    BY <1>4, <1>6, <2>1
  <2> QED BY <2>2
<1>8. room \in 0..y /\ y - room >= 1
  BY <1>4, <1>5, <1>6, <1>7
<1>9. PICK kept, dropped : kept = SubSeq(o, 1, room) /\ dropped = SubSeq(o, room + 1, y)
  OBVIOUS
<1>10. /\ kept \in Histories /\ dropped \in Histories /\ Then(kept, dropped) = o
       /\ Len(kept) = room /\ Len(dropped) = y - room
  BY <1>4, <1>8, <1>9, CutInTwo
<1>11. dropped # Empty
  BY <1>8, <1>10, EmptyIs
<1>12. PICK m : m = [kind |-> "truncated", first |-> Head(dropped).first,
                     last |-> Last(dropped).last, text |-> <<>>]
  OBVIOUS
<1>13. m \in Wide
  <2>1. Head(dropped) = o[room + 1] /\ Last(dropped) = o[y]
    <3>1. Len(dropped) = y - room /\ dropped[1] = o[room + 1] /\ dropped[y - room] = o[y]
      <4>1. \A i \in 1..(y - room) : dropped[i] = o[room + i]
        BY <1>4, <1>8, <1>9
      <4>2. 1 \in 1..(y - room) /\ y - room \in 1..(y - room) /\ room + (y - room) = y
        BY <1>4, <1>7, <1>8
      <4> QED BY <1>10, <4>1, <4>2
    <3>2. dropped # <<>>
      BY <1>11 DEF Empty
    <3>3. dropped \in Seq(Wide)
      BY <1>10 DEF Histories
    <3> QED BY <3>1, <3>2, <3>3 DEF Last
  <2>2. room + 1 \in 1..y /\ y \in 1..y /\ room + 1 <= y
    BY <1>4, <1>7, <1>8
  <2>3. DOMAIN o = 1..y /\ o[room + 1] \in Wide /\ o[y] \in Wide
    BY <1>4, <2>2 DEF Histories
  <2>4. Ascends(o)
    BY <1>1, SomeAscend
  <2>5. o[room + 1].first <= o[y].first
    BY <2>2, <2>3, <2>4, Zenon DEF Ascends
  <2>6. PICK a \in Nat, b \in Nat, c \in Nat :
          /\ a = o[room + 1].first /\ b = o[y].first /\ c = o[y].last /\ b <= c /\ a # 0
    BY <2>3, WideIs
  <2>7. a <= c /\ a \in Nat \ {0}
    BY <2>5, <2>6
  <2>8. m = [kind |-> "truncated", first |-> a, last |-> c, text |-> <<>>]
    BY <1>12, <2>1, <2>6
  <2>9. "truncated" \in Kinds /\ <<>> \in Seq(Nat)
    BY DEF Kinds
  <2> QED BY <2>7, <2>8, <2>9, WideIs
<1>14. PICK marker : marker = IF dropped = <<>> THEN <<>> ELSE <<m>>
  OBVIOUS
<1>15. marker = <<m>>
  BY <1>11, <1>14 DEF Empty
<1>16. Truncate(s) = (kept \o marker) \o terminal
  <2>1. room = MaxEvents - 1 - Len(terminal) /\ y = Len(o)
    BY <1>3, <1>4, <1>7
  <2> QED BY <1>1, <1>2, <1>9, <1>12, <1>14, <2>1, Zenon DEF Truncate, NotOver
<1>17. kept \o <<m>> = Plus(kept, m)
  BY <1>10, <1>13, AppendIsConcat DEF Histories, Plus
<1>18. Truncate(s) = Then(Plus(kept, m), outs)
  BY <1>3, <1>15, <1>16, <1>17 DEF Then
<1>19. Len(Truncate(s)) = MaxEvents
  <2>1. Plus(kept, m) \in Histories
    BY <1>10, <1>13, HistoriesGrow
  <2>2. Len(Then(Plus(kept, m), outs)) = Len(Plus(kept, m)) + Len(outs)
    BY <2>1, EmptyIs
  <2>3. Len(Plus(kept, m)) = Len(kept) + 1
    BY <1>10, <1>13, EmptyIs
  <2> QED BY <1>4, <1>5, <1>7, <1>10, <1>18, <2>2, <2>3
<1> QED BY <1>1, <1>10, <1>11, <1>12, <1>13, <1>18, <1>19

\* The marker takes the range of what it stands for.
LEMMA MarkerTiles ==
  ASSUME NEW kept \in Histories, NEW dropped \in Histories, NEW m \in Wide, dropped # Empty,
         NEW s \in Histories, s = Then(kept, dropped), TilesFrom(1, s),
         m.first = Head(dropped).first, m.last = Last(dropped).last
  PROVE  TilesFrom(1, Plus(kept, m)) /\ After(1, Plus(kept, m)) = After(1, s)
<1>1. PICK n \in Nat : n = After(1, kept)
  BY NumbersMore
<1>2. TilesFrom(1, kept) /\ TilesFrom(n, dropped) /\ After(1, s) = After(n, dropped)
  BY <1>1, NumbersConcat
<1>3. dropped \in Seq(Wide) /\ dropped # <<>>
  BY DEF Histories, Empty
<1>4. Head(dropped).first = n
  BY <1>2, <1>3 DEF TilesFrom
<1>5. After(n, dropped) = Last(dropped).last + 1
  BY <1>3 DEF After
<1> QED BY <1>1, <1>2, <1>4, <1>5, NumbersMore

LEMMA TruncateKeeps ==
  ASSUME NEW s \in Histories, ~Fits(s), TilesFrom(1, s), Len(Channel(s, "terminal")) <= 1
  PROVE  /\ Truncate(s) \in Histories /\ Len(Truncate(s)) = MaxEvents
         /\ Channel(Truncate(s), "terminal") = Channel(s, "terminal")
         /\ Channel(Truncate(s), "truncated") # Empty
         /\ Closing(s) => /\ Closing(Truncate(s)) /\ TilesFrom(1, Truncate(s))
                          /\ After(1, Truncate(s)) = After(1, s)
<1>1. PICK kept \in Histories, dropped \in Histories, m \in Wide :
        /\ OfKinds(s, NotOver) = Then(kept, dropped) /\ dropped # Empty
        /\ m.kind = "truncated"
        /\ m.first = Head(dropped).first /\ m.last = Last(dropped).last
        /\ Truncate(s) = Then(Plus(kept, m), Channel(s, "terminal"))
        /\ Len(Truncate(s)) = MaxEvents
  BY TruncateIs
<1>2. PICK outs \in Histories, o \in Histories, p \in Histories :
        outs = Channel(s, "terminal") /\ o = OfKinds(s, NotOver) /\ p = Plus(kept, m)
  BY ChannelsMore, SelectionsMore, HistoriesGrow
<1>3. PICK r \in Histories : r = Truncate(s) /\ r = Then(p, outs)
  BY <1>1, <1>2, HistoriesGrow
<1>4. Channel(kept, "terminal") = Empty
  <2>1. Channel(o, "terminal") = Empty
    <3>1. "terminal" \notin NotOver
      BY DEF NotOver
    <3> QED BY <1>2, <3>1, ChannelsOfSome
  <2>2. Channel(o, "terminal") = Then(Channel(kept, "terminal"), Channel(dropped, "terminal"))
    BY <1>1, <1>2, ChannelsConcat
  <2>3. Channel(kept, "terminal") \in Histories /\ Channel(dropped, "terminal") \in Histories
    BY ChannelsMore
  <2> QED BY <2>1, <2>2, <2>3, BothEmpty
<1>5. Channel(p, "terminal") = Empty
  <2>1. m.kind # "terminal"
    BY <1>1
  <2>2. Channel(Plus(kept, m), "terminal") = Channel(kept, "terminal")
    BY <2>1, ChannelsMore
  <2> QED BY <1>2, <1>4, <2>2
<1>6. Channel(r, "terminal") = outs
  <2>1. Channel(r, "terminal") = Then(Channel(p, "terminal"), Channel(outs, "terminal"))
    BY <1>3, ChannelsConcat
  <2>2. Channel(outs, "terminal") = outs
    <3>1. PICK K : K = {"terminal"}
      OBVIOUS
    <3>2. outs = OfKinds(s, K) /\ "terminal" \in K
      BY <1>2, <3>1 DEF Channel
    <3> QED BY <1>2, <3>2, ChannelsOfSome
  <2> QED BY <1>5, <2>1, <2>2, HistoriesGrow
<1>7. Channel(r, "truncated") # Empty
  <2>1. Channel(r, "truncated") = Then(Channel(p, "truncated"), Channel(outs, "truncated"))
    BY <1>3, ChannelsConcat
  <2>2. PICK q : q = Channel(kept, "truncated") /\ q \in Histories
    BY ChannelsMore
  <2>3. Channel(Plus(kept, m), "truncated") = Plus(q, m)
    BY <1>1, <2>2, ChannelsMore
  <2>4. Plus(q, m) # Empty
    BY <2>2, HistoriesGrow
  <2>5. Channel(p, "truncated") \in Histories /\ Channel(outs, "truncated") \in Histories
    BY ChannelsMore
  <2>6. Channel(p, "truncated") # Empty
    BY <1>2, <2>3, <2>4
  <2> QED BY <2>1, <2>5, <2>6, BothEmpty
<1>8. ASSUME Closing(s)
      PROVE  Closing(r) /\ TilesFrom(1, r) /\ After(1, r) = After(1, s)
  <2>1. CASE outs = Empty
    <3>1. o = s
      BY <1>2, <2>1, NoneOver
    <3>2. r = p
      BY <1>3, <2>1, HistoriesGrow
    <3>3. TilesFrom(1, p) /\ After(1, p) = After(1, s)
      <4>1. s = Then(kept, dropped)
        BY <1>1, <1>2, <3>1
      <4>2. TilesFrom(1, Plus(kept, m)) /\ After(1, Plus(kept, m)) = After(1, s)
        BY <1>1, <4>1, MarkerTiles
      <4> QED BY <1>2, <4>2
    <3>4. Closing(p)
      BY <1>5, ClosingIs
    <3> QED BY <3>2, <3>3, <3>4
  <2>2. CASE outs # Empty
    <3>1. PICK f \in Histories, e \in Wide : s = Plus(f, e)
      <4>1. s # Empty
        BY <1>2, <2>2, ChannelsMore
      <4> QED BY <4>1, HistoriesGrow
    <3>2. Channel(f, "terminal") = Empty
      BY <1>8, <3>1, ClosingIs
    <3>3. e.kind = "terminal"
      <4> SUFFICES ASSUME e.kind # "terminal" PROVE FALSE
        OBVIOUS
      <4>1. Channel(Plus(f, e), "terminal") = Channel(f, "terminal")
        BY ChannelsMore
      <4> QED BY <1>2, <2>2, <3>1, <3>2, <4>1
    <3>4. outs = Plus(Empty, e)
      <4>1. Channel(Plus(f, e), "terminal") = Plus(Channel(f, "terminal"), e)
        BY <3>3, ChannelsMore
      <4> QED BY <1>2, <3>1, <3>2, <4>1
    <3>5. o = f
      <4>1. e.kind \notin NotOver
        BY <3>3 DEF NotOver
      <4>2. OfKinds(Plus(f, e), NotOver) = OfKinds(f, NotOver)
        BY <4>1, SelectionsMore
      <4>3. OfKinds(f, NotOver) = f
        BY <3>2, NoneOver
      <4> QED BY <1>2, <3>1, <4>2, <4>3
    <3>6. r = Plus(p, e)
      BY <1>3, <3>4, HistoriesGrow
    <3>7. TilesFrom(1, f) /\ e.first = After(1, f) /\ After(1, s) = e.last + 1
      <4>1. TilesFrom(1, Plus(f, e))
        BY <3>1
      <4>2. /\ TilesFrom(1, f) /\ e.first = After(1, f)
            /\ After(1, Plus(f, e)) = e.last + 1
        BY <4>1, NumbersMore
      <4> QED BY <3>1, <4>2
    <3>8. TilesFrom(1, p) /\ After(1, p) = After(1, f)
      <4>1. f = Then(kept, dropped)
        BY <1>1, <1>2, <3>5
      <4>2. TilesFrom(1, Plus(kept, m)) /\ After(1, Plus(kept, m)) = After(1, f)
        BY <1>1, <3>7, <4>1, MarkerTiles
      <4> QED BY <1>2, <4>2
    <3>9. TilesFrom(1, Plus(p, e)) /\ After(1, Plus(p, e)) = e.last + 1
      <4>1. TilesFrom(1, p) /\ e.first = After(1, p)
        BY <3>7, <3>8
      <4>2. /\ TilesFrom(1, Plus(p, e)) <=> TilesFrom(1, p) /\ e.first = After(1, p)
            /\ After(1, Plus(p, e)) = e.last + 1
        BY NumbersMore
      <4> QED BY <4>1, <4>2
    <3>10. Closing(Plus(p, e))
      BY <1>5, ClosingIs
    <3> QED BY <3>6, <3>7, <3>9, <3>10
  <2> QED BY <2>1, <2>2
<1> QED BY <1>1, <1>2, <1>3, <1>6, <1>7, <1>8

\* What a history keeps when it is made fit for the file: its bound and its outcome, all of
\* its text and stages and its numbers unless it says that it was truncated, and its numbers
\* even then if nothing is behind the outcome.
Told == TextKinds \cup {"stage"}

Keeps(a, b) ==
  /\ a \in Histories /\ Len(a) <= MaxEvents
  /\ Channel(a, "terminal") = Channel(b, "terminal")
  /\ Channel(a, "truncated") = Empty =>
       /\ Channel(b, "truncated") = Empty
       /\ TilesFrom(1, a) /\ After(1, a) = After(1, b)
       /\ \A k \in Told : TextOf(a, k) = TextOf(b, k)
  /\ Closing(b) => Closing(a) /\ TilesFrom(1, a) /\ After(1, a) = After(1, b)

\* So it does: _compact_artifact_for_storage.
THEOREM CompactKeeps ==
  ASSUME NEW s \in Histories, TilesFrom(1, s), Len(Channel(s, "terminal")) <= 1
  PROVE  Keeps(Compact(s), s)
<1>1. PICK chunks : chunks = Coalesce(s) /\ Retells(chunks, s)
  BY CoalesceRetells
<1>2. PICK all : all = IF Fits(chunks) THEN chunks ELSE Collapse(chunks)
  OBVIOUS
<1>3. chunks \in Histories /\ TilesFrom(1, chunks)
  BY <1>1 DEF Retells
<1>4. Retells(all, s)
  <2>1. Retells(Collapse(chunks), chunks)
    BY <1>3, CollapseRetells
  <2> QED BY <1>1, <1>2, <2>1, RetellsOn
<1>5. PICK c : c = Compact(s)
  OBVIOUS
<1>6. c = IF Fits(all) THEN all ELSE Truncate(all)
  BY <1>1, <1>2, <1>5 DEF Compact
<1>7. all \in Histories /\ TilesFrom(1, all) /\ After(1, all) = After(1, s) /\ (Closing(s) => Closing(all))
  BY <1>4 DEF Retells
<1>8. Channel(all, "terminal") = Channel(s, "terminal") /\ Channel(all, "truncated") = Channel(s, "truncated")
  <2>1. "terminal" \in Kinds \ TextKinds /\ "truncated" \in Kinds \ TextKinds
    BY DEF Kinds, TextKinds
  <2> QED BY <1>4, <2>1 DEF Retells
<1>9. ASSUME NEW k \in Told PROVE TextOf(all, k) = TextOf(s, k)
  <2>1. CASE k \in TextKinds
    BY <1>4, <2>1 DEF Retells
  <2>2. CASE k \notin TextKinds
    <3>1. k \in Kinds \ TextKinds
      BY <2>2 DEF Told, Kinds
    <3>2. Channel(all, k) = Channel(s, k)
      BY <1>4, <3>1 DEF Retells
    <3> QED BY <3>2 DEF TextOf
  <2> QED BY <2>1, <2>2
<1>10. CASE Fits(all)
  <2>1. c = all /\ Len(all) <= MaxEvents
    BY <1>6, <1>10 DEF Fits
  <2> QED BY <1>5, <1>7, <1>8, <1>9, <2>1 DEF Keeps
<1>11. CASE ~Fits(all)
  <2>1. c = Truncate(all)
    BY <1>6, <1>11
  <2>2. /\ c \in Histories /\ Len(c) = MaxEvents
        /\ Channel(c, "terminal") = Channel(all, "terminal")
        /\ Channel(c, "truncated") # Empty
        /\ Closing(all) => Closing(c) /\ TilesFrom(1, c) /\ After(1, c) = After(1, all)
    BY <1>7, <1>8, <1>11, <2>1, TruncateKeeps
  <2>3. Len(c) <= MaxEvents
    BY <2>2, EventsAssumption
  <2> QED BY <1>5, <1>7, <1>8, <2>2, <2>3 DEF Keeps
<1> QED BY <1>10, <1>11

-----------------------------------------------------------------------------
(* What an artifact tells of what was produced. *)

Tale(p)   == [i \in DOMAIN p |-> Event(p[i], i)]
IsLate(p) == \E i \in 1 .. Len(p) - 1 : p[i] = "terminal"

LEMMA TaleMore ==
  /\ Tale(<<>>) = Empty
  /\ \A p \in Seq(Kinds) : Tale(p) \in Histories
  /\ \A p \in Seq(Kinds), kind \in Kinds, n \in Nat : n = Len(p) + 1 =>
       /\ Event(kind, n) \in Wide /\ Event(kind, n).kind = kind /\ Event(kind, n).text = <<n>>
       /\ Tale(Append(p, kind)) = Plus(Tale(p), Event(kind, n))
<1>1. \A kind \in Kinds, n \in Nat \ {0} :
        Event(kind, n) \in Wide /\ Event(kind, n).kind = kind /\ Event(kind, n).text = <<n>>
  <2> SUFFICES ASSUME NEW kind \in Kinds, NEW n \in Nat \ {0}
               PROVE  /\ Event(kind, n) \in Wide /\ Event(kind, n).kind = kind
                      /\ Event(kind, n).text = <<n>>
    OBVIOUS
  <2>a. n \in Nat
    OBVIOUS
  <2>b. <<n>> \in Seq(Nat)
    BY <2>a
  <2>1. PICK t \in Seq(Nat) : t = <<n>>
    BY <2>b
  <2>2. Event(kind, n) = [kind |-> kind, first |-> n, last |-> n, text |-> t]
    BY <2>1 DEF Event
  <2>3. n \in Nat /\ n <= n
    OBVIOUS
  <2>4. [kind |-> kind, first |-> n, last |-> n, text |-> t] \in Wide
    BY <2>3, WideIs
  <2> QED BY <2>1, <2>2, <2>4
<1>2. ASSUME NEW p \in Seq(Kinds) PROVE Tale(p) \in Seq(Wide) /\ Len(Tale(p)) = Len(p)
  <2>1. PICK n \in Nat : n = Len(p) /\ DOMAIN p = 1..n /\ \A i \in 1..n : p[i] \in Kinds
    OBVIOUS
  <2>2. PICK t : t = Tale(p)
    OBVIOUS
  <2>3. t = [i \in 1..n |-> Event(p[i], i)]
    BY <2>1, <2>2 DEF Tale
  <2>4. \A i \in 1..n : i \in Nat \ {0}
    OBVIOUS
  <2>5. \A i \in 1..n : Event(p[i], i) \in Wide
    BY <1>1, <2>1, <2>4
  <2>6. t \in [1..n -> Wide]
    BY <2>3, <2>5
  <2> QED BY <2>1, <2>2, <2>6
<1>3. ASSUME NEW p \in Seq(Kinds), NEW kind \in Kinds, NEW n \in Nat, n = Len(p) + 1
      PROVE  Tale(Append(p, kind)) = Append(Tale(p), Event(kind, n))
  <2>1. PICK q : q = Append(p, kind)
    OBVIOUS
  <2>2. PICK m \in Nat : m = Len(p) /\ n = m + 1 /\ 1..n = 1..m \cup {n} /\ n \in 1..n
    BY <1>3
  <2>3. /\ q \in Seq(Kinds) /\ Len(q) = n /\ DOMAIN q = 1..n /\ q[n] = kind
        /\ \A i \in 1..m : q[i] = p[i]
    BY <2>1, <2>2, OneMore
  <2>4. PICK s, t, u : s = Tale(p) /\ t = Tale(q) /\ u = Append(s, Event(kind, n))
    OBVIOUS
  <2>5. s \in Seq(Wide) /\ t \in Seq(Wide) /\ Len(s) = m /\ Len(t) = n
    BY <1>2, <2>2, <2>3, <2>4
  <2>6. n \in Nat \ {0}
    BY <2>2
  <2>7. Event(kind, n) \in Wide
    BY <1>1, <2>6
  <2>8. u \in Seq(Wide) /\ Len(u) = n /\ u[n] = Event(kind, n) /\ \A i \in 1..m : u[i] = s[i]
    BY <2>2, <2>4, <2>5, <2>7, OneMore
  <2>9. DOMAIN p = 1..m
    BY <2>2
  <2>a. s = [i \in 1..m |-> Event(p[i], i)] /\ t = [i \in 1..n |-> Event(q[i], i)]
    BY <2>3, <2>4, <2>9 DEF Tale
  <2>b. \A i \in 1..m : s[i] = Event(p[i], i)
    BY <2>a
  <2>c. \A i \in 1..n : t[i] = Event(q[i], i)
    BY <2>a
  <2>10. (\A i \in 1..m : s[i] = Event(p[i], i)) /\ \A i \in 1..n : t[i] = Event(q[i], i)
    BY <2>b, <2>c
  <2>d. t[n] = u[n]
    BY <2>2, <2>3, <2>8, <2>10, Zenon
  <2>e. \A i \in 1..m : t[i] = u[i]
    <3> SUFFICES ASSUME NEW i \in 1..m PROVE t[i] = u[i]
      OBVIOUS
    <3>1. i \in 1..n
      BY <2>2
    <3>2. t[i] = Event(q[i], i) /\ s[i] = Event(p[i], i)
      BY <2>10, <3>1
    <3> QED BY <2>3, <2>8, <3>2
  <2>11. \A i \in 1..n : t[i] = u[i]
    BY <2>2, <2>d, <2>e
  <2>12. t = u
    BY <2>5, <2>8, <2>11, SeqEqual
  <2> QED BY <2>1, <2>4, <2>12
<1>4. Tale(<<>>) = <<>>
  BY DEF Tale
<1>5. \A p \in Seq(Kinds), n \in Nat : n = Len(p) + 1 => n \in Nat \ {0}
  OBVIOUS
<1>6. ASSUME NEW p \in Seq(Kinds), NEW kind \in Kinds, NEW n \in Nat, n = Len(p) + 1
      PROVE  /\ Event(kind, n) \in Wide /\ Event(kind, n).kind = kind /\ Event(kind, n).text = <<n>>
             /\ Tale(Append(p, kind)) = Plus(Tale(p), Event(kind, n))
  <2>1. n \in Nat \ {0}
    BY <1>5, <1>6
  <2>2. Tale(Append(p, kind)) = Append(Tale(p), Event(kind, n))
    BY <1>3, <1>6
  <2> QED BY <1>1, <2>1, <2>2 DEF Plus
<1> QED BY <1>2, <1>4, <1>6, Zenon DEF Histories, Empty

LEMMA LateStays ==
  ASSUME NEW p \in Seq(Kinds), NEW kind \in Kinds
  PROVE  /\ IsLate(p) => IsLate(Append(p, kind))
         /\ ~IsLate(Append(p, kind)) => Channel(Tale(p), "terminal") = Empty
<1>1. PICK q : q = Append(p, kind)
  OBVIOUS
<1>2. PICK m \in Nat : m = Len(p)
  OBVIOUS
<1>3. Len(q) - 1 = m /\ \A i \in 1..m : q[i] = p[i]
  BY <1>1, <1>2, OneMore
<1>4. \A i \in 1..(m - 1) : i \in 1..m
  OBVIOUS
<1>5. IsLate(p) => IsLate(q)
  BY <1>2, <1>3, <1>4 DEF IsLate
<1>6. ASSUME ~IsLate(q) PROVE Channel(Tale(p), "terminal") = Empty
  <2>1. \A i \in 1..m : p[i] # "terminal"
    BY <1>3, <1>6 DEF IsLate
  <2>2. DOMAIN p = 1..m
    BY <1>2
  <2>3. PICK t : t = Tale(p) /\ t \in Histories
    BY TaleMore
  <2>4. DOMAIN t = 1..m /\ \A i \in 1..m : t[i].kind = p[i]
    BY <2>2, <2>3 DEF Tale, Event
  <2>5. \A i \in DOMAIN t : t[i].kind # "terminal"
    BY <2>1, <2>4
  <2> QED BY <2>3, <2>5, NoneOfKind
<1> QED BY <1>1, <1>5, <1>6

\* The artifact a tells what was produced, as far as it must, and c is its next number.
Faithful(a, p, c) ==
  /\ a \in Histories /\ p \in Seq(Kinds) /\ c \in Nat \ {0}
  /\ Len(Channel(a, "terminal")) <= 1
  /\ Len(Channel(a, "terminal")) = Len(Channel(Tale(p), "terminal"))
  /\ TextOf(a, "terminal") = TextOf(Tale(p), "terminal")
  /\ Channel(a, "truncated") = Empty => \A k \in Told : TextOf(a, k) = TextOf(Tale(p), k)
  /\ \/ IsLate(p) /\ Channel(a, "truncated") # Empty
     \/ TilesFrom(1, a) /\ After(1, a) = c
  /\ ~IsLate(p) => Closing(a)

LEMMA NothingFaithful == Faithful(Empty, <<>>, 1)
<1>1. Empty \in Histories /\ Channel(Empty, "terminal") = Empty /\ Len(Empty) = 0
  BY HistoriesGrow, ChannelsMore DEF Empty
<1>2. Tale(<<>>) = Empty
  BY TaleMore
<1>3. TilesFrom(1, Empty) /\ After(1, Empty) = 1
  BY NumbersMore
<1>4. Closing(Empty)
  BY <1>1, ClosingIs
<1>5. <<>> \in Seq(Kinds) /\ 1 \in Nat \ {0}
  OBVIOUS
<1> QED BY <1>1, <1>2, <1>3, <1>4, <1>5 DEF Faithful

LEMMA FromOne ==
  \A s \in Histories, e \in Wide :
    /\ TilesFrom(1, Plus(s, e)) <=> TilesFrom(1, s) /\ e.first = After(1, s)
    /\ After(1, Plus(s, e)) = e.last + 1
BY NumbersMore

\* Another event is produced and put behind the artifact.
LEMMA FaithfulMore ==
  ASSUME NEW a, NEW p, NEW c, Faithful(a, p, c), NEW d, d = c + 1,
         NEW kind \in Kinds \ {"truncated"},
         kind = "terminal" => Channel(a, "terminal") = Empty,
         NEW n \in Nat, n = Len(p) + 1, NEW e \in Wide,
         e.kind = kind, e.first = c, e.last = c, e.text = <<n>>
  PROVE  Faithful(Plus(a, e), Append(p, kind), d)
<1>1. a \in Histories /\ p \in Seq(Kinds) /\ c \in Nat \ {0}
  BY DEF Faithful
<1>2. kind \in Kinds
  OBVIOUS
<1>3. PICK t \in Histories, f \in Wide, q \in Seq(Kinds), s \in Histories :
        /\ t = Tale(p) /\ f = Event(kind, n) /\ q = Append(p, kind) /\ s = Plus(a, e)
  <2>1. Append(p, kind) \in Seq(Kinds)
    BY <1>1, <1>2
  <2>2. Tale(p) \in Histories /\ Event(kind, n) \in Wide
    BY <1>1, <1>2, TaleMore
  <2>3. Plus(a, e) \in Histories
    BY <1>1, HistoriesGrow
  <2> QED BY <2>1, <2>2, <2>3
<1>4. f.kind = kind /\ f.text = <<n>> /\ Tale(q) = Plus(t, f)
  BY <1>1, <1>2, <1>3, TaleMore
<1>5. d \in Nat \ {0} /\ d = c + 1
  BY <1>1
<1>6. ASSUME NEW k, TextOf(a, k) = TextOf(t, k) PROVE TextOf(s, k) = TextOf(Tale(q), k)
  <2>1. CASE kind = k
    <3>a. e.kind = k /\ f.kind = k
      BY <1>4, <2>1
    <3>1. TextOf(Plus(a, e), k) = Then(TextOf(a, k), e.text)
      BY <1>1, <3>a, ChannelsMore
    <3>2. TextOf(Plus(t, f), k) = Then(TextOf(t, k), f.text)
      BY <3>a, ChannelsMore
    <3> QED BY <1>3, <1>4, <1>6, <3>1, <3>2
  <2>2. CASE kind # k
    <3>1. TextOf(s, k) = TextOf(a, k)
      BY <1>1, <1>3, <2>2, ChannelsMore
    <3>2. TextOf(Plus(t, f), k) = TextOf(t, k)
      BY <1>4, <2>2, ChannelsMore
    <3> QED BY <1>4, <1>6, <3>1, <3>2
  <2> QED BY <2>1, <2>2
<1>7. TextOf(s, "terminal") = TextOf(Tale(q), "terminal")
  <2>1. TextOf(a, "terminal") = TextOf(t, "terminal")
    BY <1>3 DEF Faithful
  <2> QED BY <1>6, <2>1
<1>8. /\ Len(Channel(s, "terminal")) <= 1
      /\ Len(Channel(s, "terminal")) = Len(Channel(Tale(q), "terminal"))
  <2>1. PICK x \in Histories, y \in Histories :
          x = Channel(a, "terminal") /\ y = Channel(t, "terminal")
    BY <1>1, ChannelsMore
  <2>2. Len(x) <= 1 /\ Len(x) = Len(y)
    BY <1>3, <2>1 DEF Faithful
  <2>3. CASE kind = "terminal"
    <3>a. e.kind = "terminal" /\ f.kind = "terminal"
      BY <1>4, <2>3
    <3>1. Channel(Plus(a, e), "terminal") = Plus(Channel(a, "terminal"), e)
      BY <1>1, <3>a, ChannelsMore
    <3>2. Channel(Plus(t, f), "terminal") = Plus(Channel(t, "terminal"), f)
      BY <3>a, ChannelsMore
    <3>3. Len(Plus(x, e)) = Len(x) + 1 /\ Len(Plus(y, f)) = Len(y) + 1
      BY EmptyIs
    <3>b. Channel(a, "terminal") = Empty
      BY <2>3
    <3>4. Len(x) = 0
      BY <2>1, <3>b DEF Empty
    <3> QED BY <1>3, <1>4, <2>1, <2>2, <3>1, <3>2, <3>3, <3>4
  <2>4. CASE kind # "terminal"
    <3>1. Channel(s, "terminal") = x
      BY <1>1, <1>3, <2>1, <2>4, ChannelsMore
    <3>2. Channel(Plus(t, f), "terminal") = y
      BY <1>4, <2>1, <2>4, ChannelsMore
    <3> QED BY <1>4, <2>2, <3>1, <3>2
  <2> QED BY <2>3, <2>4
<1>9. Channel(s, "truncated") = Channel(a, "truncated")
  <2>1. e.kind # "truncated"
    OBVIOUS
  <2> QED BY <1>1, <1>3, <2>1, ChannelsMore
<1>10. Channel(s, "truncated") = Empty => \A k \in Told : TextOf(s, k) = TextOf(Tale(q), k)
  <2> SUFFICES ASSUME Channel(s, "truncated") = Empty, NEW k \in Told
               PROVE  TextOf(s, k) = TextOf(Tale(q), k)
    OBVIOUS
  <2>1. Channel(a, "truncated") = Empty
    BY <1>9
  <2>2. TextOf(a, k) = TextOf(t, k)
    BY <1>3, <2>1 DEF Faithful
  <2> QED BY <1>6, <2>2
<1>11. \/ IsLate(q) /\ Channel(s, "truncated") # Empty
       \/ TilesFrom(1, s) /\ After(1, s) = d
  <2>1. CASE IsLate(p) /\ Channel(a, "truncated") # Empty
    <3>1. IsLate(q)
      BY <1>1, <1>2, <1>3, <2>1, LateStays
    <3> QED BY <1>9, <2>1, <3>1
  <2>2. CASE TilesFrom(1, a) /\ After(1, a) = c
    <3>1. TilesFrom(1, Plus(a, e)) /\ After(1, Plus(a, e)) = e.last + 1
      BY <1>1, <2>2, FromOne
    <3> QED BY <1>3, <1>5, <3>1
  <2> QED BY <2>1, <2>2 DEF Faithful
<1>12. ~IsLate(q) => Closing(s)
  <2> SUFFICES ASSUME ~IsLate(q) PROVE Closing(s)
    OBVIOUS
  <2>1. Channel(t, "terminal") = Empty
    BY <1>1, <1>2, <1>3, LateStays
  <2>2. Len(Channel(a, "terminal")) = Len(Channel(t, "terminal"))
    BY <1>3 DEF Faithful
  <2>3. Channel(a, "terminal") \in Histories /\ Channel(t, "terminal") \in Histories
    BY <1>1, ChannelsMore
  <2>4. Channel(a, "terminal") = Empty
    BY <2>1, <2>2, <2>3, EmptyIs
  <2> QED BY <1>1, <1>3, <2>4, ClosingIs
<1>13. Faithful(s, q, d)
  BY <1>3, <1>5, <1>7, <1>8, <1>10, <1>11, <1>12 DEF Faithful
<1> QED BY <1>3, <1>13

\* The artifact is written, and read again.
LEMMA WriteFaithful ==
  ASSUME NEW a, NEW p, NEW c, Faithful(a, p, c),
         NEW r, r = Renumber(a), NEW s, s = Compact(r), NEW d, d = Synced(c, r)
  PROVE  s \in Histories /\ Len(s) <= MaxEvents /\ Faithful(Renumber(s), p, d)
<1>1. a \in Histories /\ p \in Seq(Kinds) /\ c \in Nat \ {0}
  BY DEF Faithful
<1>2. r \in Histories /\ TilesFrom(1, r) /\ Alike(r, a) /\ (TilesFrom(1, a) => r = a)
  BY <1>1, RenumberTiles
<1>3. PICK o \in Histories, q \in Histories, x \in Histories, y \in Histories :
        /\ o = Channel(a, "terminal") /\ q = Channel(r, "terminal")
        /\ x = Channel(a, "truncated") /\ y = Channel(r, "truncated")
  BY <1>1, <1>2, ChannelsMore
<1>4. Len(q) = Len(o) /\ Len(o) <= 1 /\ (y = Empty => x = Empty)
  <2>1. Len(q) = Len(o) /\ Len(y) = Len(x)
    BY <1>2, <1>3 DEF Alike
  <2>2. Len(o) <= 1
    BY <1>3 DEF Faithful
  <2> QED BY <2>1, <2>2, EmptyIs
<1>5. Keeps(s, r)
  <2>1. Len(Channel(r, "terminal")) <= 1
    BY <1>3, <1>4
  <2> QED BY <1>2, <2>1, CompactKeeps
<1>6. s \in Histories /\ Len(s) <= MaxEvents
  BY <1>5 DEF Keeps
<1>7. PICK b \in Histories : /\ b = Renumber(s) /\ TilesFrom(1, b) /\ Alike(b, s)
                             /\ TilesFrom(1, s) => b = s
  BY <1>6, RenumberTiles
<1>8. Len(Channel(b, "terminal")) = Len(o) /\ TextOf(b, "terminal") = TextOf(a, "terminal")
  <2>1. Channel(s, "terminal") = q
    BY <1>3, <1>5 DEF Keeps
  <2>2. Len(Channel(b, "terminal")) = Len(Channel(s, "terminal"))
    BY <1>7 DEF Alike
  <2>3. TextOf(b, "terminal") = TextOf(s, "terminal")
    BY <1>7 DEF Alike
  <2>4. TextOf(s, "terminal") = TextOf(r, "terminal")
    BY <1>3, <2>1 DEF TextOf
  <2>5. TextOf(r, "terminal") = TextOf(a, "terminal")
    BY <1>2 DEF Alike
  <2> QED BY <1>4, <2>1, <2>2, <2>3, <2>4, <2>5
<1>9. ASSUME Channel(b, "truncated") = Empty
      PROVE  /\ Channel(s, "truncated") = Empty /\ y = Empty /\ x = Empty
             /\ \A k \in Told : TextOf(b, k) = TextOf(a, k)
  <2>1. Channel(s, "truncated") = Empty
    <3>1. Len(Channel(b, "truncated")) = Len(Channel(s, "truncated"))
      BY <1>7 DEF Alike
    <3>2. Channel(s, "truncated") \in Histories /\ Channel(b, "truncated") \in Histories
      BY <1>6, ChannelsMore
    <3> QED BY <1>9, <3>1, <3>2, EmptyIs
  <2>2. y = Empty /\ \A k \in Told : TextOf(s, k) = TextOf(r, k)
    BY <1>3, <1>5, <2>1 DEF Keeps
  <2>3. \A k : TextOf(b, k) = TextOf(s, k) /\ TextOf(r, k) = TextOf(a, k)
    BY <1>2, <1>7 DEF Alike
  <2> QED BY <1>4, <2>1, <2>2, <2>3
<1>10. d \in Nat \ {0}
  <2>1. After(1, r) = NextNumber(r) /\ After(1, r) \in Nat
    BY <1>2, NumbersMore DEF After, NextNumber
  <2> QED BY <1>1, <2>1 DEF Synced
<1>11. \/ IsLate(p) /\ Channel(b, "truncated") # Empty
       \/ TilesFrom(1, b) /\ After(1, b) = d
  <2>1. CASE IsLate(p) /\ x # Empty
    BY <1>9, <2>1
  <2>2. CASE TilesFrom(1, a) /\ After(1, a) = c
    <3>1. r = a /\ After(1, r) = c
      BY <1>2, <2>2
    <3>2. d = c
      <4>1. NextNumber(r) = c
        BY <3>1 DEF After, NextNumber
      <4> QED BY <1>1, <4>1 DEF Synced
    <3>3. CASE Closing(a) \/ Channel(b, "truncated") = Empty
      <4>1. TilesFrom(1, s) /\ After(1, s) = After(1, r)
        <5>1. CASE Closing(a)
          BY <1>5, <3>1, <5>1 DEF Keeps
        <5>2. CASE Channel(b, "truncated") = Empty
          BY <1>5, <1>9, <5>2 DEF Keeps
        <5> QED BY <3>3, <5>1, <5>2
      <4> QED BY <1>7, <3>1, <3>2, <4>1
    <3>4. CASE ~Closing(a) /\ Channel(b, "truncated") # Empty
      BY <3>4 DEF Faithful
    <3> QED BY <3>3, <3>4
  <2> QED BY <1>3, <2>1, <2>2 DEF Faithful
<1>12. ~IsLate(p) => Closing(b)
  <2> SUFFICES ASSUME ~IsLate(p) PROVE Closing(b)
    OBVIOUS
  <2>1. Closing(a)
    BY DEF Faithful
  <2>2. Closing(r)
    BY <1>2, <2>1 DEF Alike
  <2>3. Closing(s)
    BY <1>5, <2>2 DEF Keeps
  <2> QED BY <1>7, <2>3 DEF Alike
<1>13. /\ Len(Channel(b, "terminal")) <= 1
       /\ Len(Channel(b, "terminal")) = Len(Channel(Tale(p), "terminal"))
       /\ TextOf(b, "terminal") = TextOf(Tale(p), "terminal")
  BY <1>3, <1>8 DEF Faithful
<1>14. Channel(b, "truncated") = Empty => \A k \in Told : TextOf(b, k) = TextOf(Tale(p), k)
  BY <1>3, <1>9 DEF Faithful
<1>15. Faithful(b, p, d)
  BY <1>1, <1>10, <1>11, <1>12, <1>13, <1>14 DEF Faithful
<1> QED BY <1>6, <1>7, <1>15

\* Reading does not move the counter, or where it does, no more is claimed of it.
LEMMA SyncFaithful ==
  ASSUME NEW r \in Histories, NEW b \in Histories, TilesFrom(1, r), NEW p, NEW c,
         NEW a, a = Then(r, b), Faithful(a, p, c)
  PROVE  Faithful(a, p, Synced(c, r))
<1>a. PICK m \in Nat : m = After(1, r)
  BY NumbersMore
<1>b. PICK d : d = Synced(c, r)
  OBVIOUS
<1>1. d = Synced(c, r) /\ m = After(1, r)
  BY <1>a, <1>b
<1>2. NextNumber(r) = m /\ c \in Nat \ {0}
  BY <1>1 DEF After, NextNumber, Faithful
<1>3. d \in Nat \ {0}
  BY <1>1, <1>2 DEF Synced
<1>4. TilesFrom(1, a) /\ After(1, a) = c => d = c
  <2> SUFFICES ASSUME TilesFrom(1, a), After(1, a) = c PROVE d = c
    OBVIOUS
  <2>1. TilesFrom(m, b) /\ c = After(m, b)
    BY <1>1, NumbersConcat
  <2>2. After(m, b) = m + Width(b) /\ Width(b) \in Nat
    BY <2>1, WideAsItTiles, WidthOfHistories
  <2>3. m <= c
    BY <1>2, <2>1, <2>2
  <2> QED BY <1>1, <1>2, <2>3 DEF Synced
<1>5. Faithful(a, p, d)
  BY <1>3, <1>4 DEF Faithful
<1> QED BY <1>1, <1>5

-----------------------------------------------------------------------------
(* The store: its artifact is faithful to what was produced.               *)

StoreInv ==
  /\ stored \in Histories /\ buffered \in Histories /\ Len(stored) <= MaxEvents
  /\ Faithful(Artifact, produced, counter)

LEMMA ArtifactIs ==
  ASSUME StoreInv
  PROVE  /\ Artifact \in Histories /\ Renumber(stored) \in Histories
         /\ Artifact = Then(Renumber(stored), buffered)
         /\ counter \in Nat \ {0} /\ produced \in Seq(Kinds)
<1>1. Artifact = Then(Renumber(stored), buffered)
  BY DEF Artifact, Then
<1>2. Renumber(stored) \in Histories
  BY RenumberTiles DEF StoreInv
<1> QED BY <1>1, <1>2 DEF StoreInv, Faithful

LEMMA FreshIs ==
  ASSUME NEW kind \in Kinds, counter \in Nat \ {0}, produced \in Seq(Kinds),
         NEW n \in Nat, n = Len(produced) + 1
  PROVE  /\ Fresh(kind) \in Wide /\ Fresh(kind).kind = kind
         /\ Fresh(kind).first = counter /\ Fresh(kind).last = counter
         /\ Fresh(kind).text = <<n>>
<1>1. PICK t, c : t = <<n>> /\ c = counter
  OBVIOUS
<1>2. t \in Seq(Nat) /\ c \in Nat \ {0}
  BY <1>1
<1>3. Fresh(kind) = [kind |-> kind, first |-> c, last |-> c, text |-> t]
  BY <1>1 DEF Fresh, Event
<1>4. c \in Nat /\ c <= c
  BY <1>2
<1>5. [kind |-> kind, first |-> c, last |-> c, text |-> t] \in Wide
  BY <1>2, <1>4, WideIs
<1> QED BY <1>1, <1>3, <1>5

\* What the events of kinds other than the marker can be, and when.
MayFollow(kind) ==
  kind \in Kinds \ {"truncated"} /\ (kind = "terminal" => Channel(Artifact, "terminal") = Empty)

LEMMA FreshFaithful ==
  ASSUME StoreInv, NEW kind, MayFollow(kind), NEW d, d = counter + 1
  PROVE  /\ Fresh(kind) \in Wide
         /\ Faithful(Plus(Artifact, Fresh(kind)), Append(produced, kind), d)
<1>1. PICK a, p, c, e : a = Artifact /\ p = produced /\ c = counter /\ e = Fresh(kind)
  OBVIOUS
<1>2. /\ kind \in Kinds \ {"truncated"} /\ kind \in Kinds
      /\ kind = "terminal" => Channel(a, "terminal") = Empty
  BY <1>1 DEF MayFollow
<1>3. p \in Seq(Kinds) /\ c \in Nat \ {0} /\ Faithful(a, p, c)
  BY <1>1, ArtifactIs DEF StoreInv
<1>4. PICK n \in Nat : n = Len(p) + 1
  BY <1>3
<1>5. /\ e \in Wide /\ e.kind = kind /\ e.first = c /\ e.last = c /\ e.text = <<n>>
  BY <1>1, <1>2, <1>3, <1>4, FreshIs
<1>6. d = c + 1
  BY <1>1
<1>7. Faithful(Plus(a, e), Append(p, kind), d)
  BY <1>2, <1>3, <1>4, <1>5, <1>6, FaithfulMore
<1> QED BY <1>1, <1>5, <1>7

LEMMA ReadAsWritten ==
  ASSUME stored' \in Histories, Len(stored') <= MaxEvents, buffered' = <<>>,
         Faithful(Renumber(stored'), produced', counter')
  PROVE  StoreInv'
<1>1. PICK s, r : s = stored' /\ r = Renumber(s) /\ s \in Histories
  OBVIOUS
<1>2. r \in Histories /\ Empty \in Histories
  BY <1>1, RenumberTiles, HistoriesGrow
<1>3. buffered' = Empty /\ Then(r, Empty) = r
  BY <1>2, HistoriesGrow DEF Empty
<1>4. Artifact' = Then(r, Empty)
  BY <1>1, <1>3 DEF Artifact, Then
<1>5. Artifact' = Renumber(stored')
  BY <1>1, <1>3, <1>4
<1> QED BY <1>2, <1>3, <1>5 DEF StoreInv

\* An event is buffered: _pending_run_events.
LEMMA Buffers ==
  ASSUME StoreInv, NEW kind, MayFollow(kind), produced' = Append(produced, kind),
         buffered' = Append(buffered, Fresh(kind)), counter' = counter + 1, stored' = stored
  PROVE  StoreInv'
<1>1. PICK d : d = counter + 1
  OBVIOUS
<1>2. /\ Fresh(kind) \in Wide
      /\ Faithful(Plus(Artifact, Fresh(kind)), Append(produced, kind), d)
  BY <1>1, FreshFaithful
<1>3. PICK e \in Wide, r \in Histories, b \in Histories :
        e = Fresh(kind) /\ r = Renumber(stored) /\ b = buffered
  BY <1>2, ArtifactIs DEF StoreInv
<1>4. Then(r, Plus(b, e)) = Plus(Then(r, b), e) /\ Plus(b, e) \in Histories
  BY HistoriesGrow
<1>5. buffered' = Plus(b, e) /\ Renumber(stored') = r
  BY <1>3 DEF Plus
<1>6. Artifact' = Then(r, Plus(b, e))
  BY <1>5 DEF Artifact, Then
<1>7. Artifact = Then(r, b)
  BY <1>3, ArtifactIs
<1>8. Artifact' = Plus(Artifact, Fresh(kind))
  BY <1>3, <1>4, <1>6, <1>7
<1>9. Faithful(Artifact', produced', counter')
  BY <1>1, <1>2, <1>8
<1> QED BY <1>4, <1>5, <1>9 DEF StoreInv

\* The file is written, with a new event or without.
LEMMA WritesMore ==
  ASSUME StoreInv, NEW kind, MayFollow(kind), produced' = Append(produced, kind),
         Write(<<Fresh(kind)>>)
  PROVE  StoreInv'
<1>1. PICK d : d = counter + 1
  OBVIOUS
<1>2. PICK e, a, p : e = Fresh(kind) /\ a = Artifact /\ p = Append(produced, kind)
  OBVIOUS
<1>3. e \in Wide /\ a \in Histories /\ Faithful(Plus(a, e), p, d)
  BY <1>1, <1>2, FreshFaithful, ArtifactIs
<1>4. Empty \in Histories /\ Then(a, Plus(Empty, e)) = Plus(a, e)
  BY <1>3, HistoriesGrow
<1>5. Plus(Empty, e) = <<e>>
  BY <1>3 DEF Plus, Empty
<1>6. a \o <<e>> = Plus(a, e)
  BY <1>4, <1>5 DEF Then
<1>7. PICK r, s, c : r = Renumber(Plus(a, e)) /\ s = Compact(r) /\ c = Synced(d, r)
  OBVIOUS
<1>8. s \in Histories /\ Len(s) <= MaxEvents /\ Faithful(Renumber(s), p, c)
  BY <1>3, <1>7, WriteFaithful
<1>9. Len(<<e>>) = 1
  OBVIOUS
<1>10. stored' = s /\ buffered' = <<>> /\ counter' = c
  BY <1>1, <1>2, <1>6, <1>7, <1>9 DEF Write
<1>11. Faithful(Renumber(stored'), produced', counter')
  BY <1>2, <1>8, <1>10
<1> QED BY <1>8, <1>10, <1>11, ReadAsWritten

LEMMA WritesAgain ==
  ASSUME StoreInv, produced' = produced, Write(<<>>)
  PROVE  StoreInv'
<1>1. PICK a, p, d : a = Artifact /\ p = produced /\ d = counter
  OBVIOUS
<1>2. a \in Histories /\ d \in Nat /\ Faithful(a, p, d)
  BY <1>1, ArtifactIs DEF StoreInv
<1>3. a \o <<>> = a
  BY <1>2, HistoriesGrow DEF Then, Empty
<1>4. PICK r, s, c : r = Renumber(a) /\ s = Compact(r) /\ c = Synced(d, r)
  OBVIOUS
<1>5. s \in Histories /\ Len(s) <= MaxEvents /\ Faithful(Renumber(s), p, c)
  BY <1>2, <1>4, WriteFaithful
<1>6. d + Len(<<>>) = d
  BY <1>2
<1>7. stored' = s /\ buffered' = <<>> /\ counter' = c
  BY <1>1, <1>3, <1>4, <1>6 DEF Write
<1>8. Faithful(Renumber(stored'), produced', counter')
  BY <1>1, <1>5, <1>7
<1> QED BY <1>5, <1>7, <1>8, ReadAsWritten

\* A stream reads it.
LEMMA Reads ==
  ASSUME StoreInv, counter' = Counter, UNCHANGED <<stored, buffered, produced>>
  PROVE  StoreInv'
<1>1. PICK r, b, a, p, c :
        r = Renumber(stored) /\ b = buffered /\ a = Artifact /\ p = produced /\ c = counter
  OBVIOUS
<1>2. r \in Histories /\ b \in Histories /\ TilesFrom(1, r) /\ a = Then(r, b)
  BY <1>1, ArtifactIs, RenumberTiles DEF StoreInv
<1>3. Faithful(a, p, c)
  BY <1>1 DEF StoreInv
<1>4. Faithful(a, p, Synced(c, r))
  BY <1>2, <1>3, SyncFaithful
<1>5. Artifact' = Artifact
  BY DEF Artifact
<1>6. Faithful(Artifact', produced', counter')
  BY <1>1, <1>4, <1>5 DEF Counter
<1> QED BY <1>6 DEF StoreInv

LEMMA StoreStart == Init => StoreInv
<1> SUFFICES ASSUME Init PROVE StoreInv
  OBVIOUS
<1>1. stored = Empty /\ buffered = Empty /\ counter = 1 /\ produced = <<>>
  BY DEF Init, Empty
<1>2. Empty \in Histories /\ Len(Empty) = 0 /\ 0 <= MaxEvents
  BY HistoriesGrow, EventsAssumption DEF Empty
<1>3. Renumber(Empty) = Empty /\ Then(Empty, Empty) = Empty
  BY <1>2, HistoriesGrow, RenumberMore
<1>4. Artifact = Empty
  BY <1>1, <1>3 DEF Artifact, Then
<1> QED BY <1>1, <1>2, <1>4, NothingFaithful DEF StoreInv

\* No outcome was written.
LEMMA NoOutcome ==
  ASSUME StoreInv, ~Has(Artifact, IsTerminal)
  PROVE  Channel(Artifact, "terminal") = Empty
<1>1. PICK a \in Histories : a = Artifact
  BY ArtifactIs
<1>2. \A i \in DOMAIN a : a[i].kind # "terminal"
  BY <1>1 DEF Has, IsTerminal
<1> QED BY <1>1, <1>2, NoneOfKind

LEMMA StoreStays ==
  ASSUME StoreInv, UNCHANGED store
  PROVE  StoreInv'
<1>1. Artifact' = Artifact
  BY DEF Artifact, store
<1> QED BY <1>1 DEF StoreInv, store

LEMMA MayStream == \A kind \in TextKinds : MayFollow(kind)
BY DEF MayFollow, TextKinds, Kinds

LEMMA StoreStep ==
  ASSUME StoreInv, [Next]_vars
  PROVE  StoreInv'
<1>1. ASSUME NEW kind \in TextKinds, Stream(kind) PROVE StoreInv'
  <2>1. MayFollow(kind) /\ produced' = Append(produced, kind)
    BY <1>1, MayStream DEF Stream
  <2>2. CASE Write(<<Fresh(kind)>>)
    BY <2>1, <2>2, WritesMore
  <2>3. CASE /\ buffered' = Append(buffered, Fresh(kind))
             /\ counter' = counter + 1
             /\ UNCHANGED stored
    <3>1. stored' = stored
      BY <2>3
    <3> QED BY <2>1, <2>3, <3>1, Buffers
  <2> QED BY <1>1, <2>2, <2>3 DEF Stream
<1>2. ASSUME NEW p \in Publishers, EmitStage(p) PROVE StoreInv'
  <2>1. MayFollow("stage")
    BY DEF MayFollow, Kinds
  <2> QED BY <1>2, <2>1, WritesMore DEF EmitStage
<1>3. ASSUME NEW p \in Publishers, Finish(p) PROVE StoreInv'
  <2>1. Channel(Artifact, "terminal") = Empty
    BY <1>3, NoOutcome DEF Finish
  <2>2. MayFollow("terminal")
    BY <2>1 DEF MayFollow, Kinds
  <2> QED BY <1>3, <2>2, WritesMore DEF Finish
<1>4. ASSUME NEW p \in Publishers, FinishAgain(p) PROVE StoreInv'
  BY <1>4, WritesAgain DEF FinishAgain
<1>5. CASE Rewrite
  BY <1>5, WritesAgain DEF Rewrite
<1>6. ASSUME NEW s \in Streams, ReadStore(s) PROVE StoreInv'
  BY <1>6, Reads DEF ReadStore
<1>7. ASSUME NEW p \in Publishers, Publishing(p) PROVE StoreInv'
  BY <1>7, StoreStays DEF Publishing, CopySubscribers, Put, DropOldest, PutAgain
<1>8. ASSUME NEW s \in Streams, Subscribe(s) \/ TakeEvent(s) \/ TimesOut(s) \/ Disconnect(s)
      PROVE  StoreInv'
  BY <1>8, StoreStays DEF Subscribe, TakeEvent, TimesOut, Disconnect
<1>9. CASE UNCHANGED vars
  BY <1>9, StoreStays DEF vars
<1> QED BY <1>1, <1>2, <1>3, <1>4, <1>5, <1>6, <1>7, <1>8, <1>9
        DEF Next, Appending, Following

THEOREM StoreIsFaithful == Spec => []StoreInv
<1>1. StoreInv /\ [Next]_vars => StoreInv'
  BY StoreStep
<1> QED BY <1>1, StoreStart, PTL DEF Spec

\* The numbers of a history, as the property states them.
LEMMA TilesAre ==
  ASSUME NEW a \in Histories, TilesFrom(1, a)
  PROVE  \A i \in DOMAIN a : a[i].first = NextNumber(SubSeq(a, 1, i - 1))
<1> SUFFICES ASSUME NEW i \in DOMAIN a PROVE a[i].first = NextNumber(SubSeq(a, 1, i - 1))
  OBVIOUS
<1>1. PICK n \in Nat : n = Len(a) /\ DOMAIN a = 1..n
  BY DEF Histories
<1>2. i \in 1..n /\ i - 1 \in 0..n
  BY <1>1
<1>3. PICK m, u : m = i - 1 /\ u = SubSeq(a, 1, m)
  OBVIOUS
<1>4. m \in 0..Len(a)
  BY <1>1, <1>2, <1>3
<1>5. u \in Histories /\ Len(u) = m
  BY <1>3, <1>4, CutInTwo
<1>6. a[i].first = IF i = 1 THEN 1 ELSE a[m].last + 1
  BY <1>3 DEF TilesFrom
<1>7. CASE i = 1
  <2>1. u = <<>>
    BY <1>3, <1>5, <1>7, EmptyIs DEF Empty
  <2> QED BY <1>3, <1>6, <1>7, <2>1 DEF NextNumber
<1>8. CASE i # 1
  <2>1. m \in 1..m /\ m \in 1..n
    BY <1>2, <1>3, <1>8
  <2>2. u # <<>>
    BY <1>5, <2>1
  <2>3. u[m] = a[m]
    <3>1. a \in Seq(Wide) /\ 1 \in 1..n + 1 /\ m \in 0..n
      BY <1>1, <1>2, <1>3 DEF Histories
    <3> QED BY <1>1, <1>3, <2>1, <3>1, SubSeqProperties
  <2>4. Last(u) = a[m]
    BY <1>5, <2>3 DEF Last
  <2> QED BY <1>3, <1>6, <1>8, <2>2, <2>4 DEF NextNumber
<1> QED BY <1>7, <1>8

LEMMA StoreTiles == StoreInv => NumbersTile
<1> SUFFICES ASSUME StoreInv PROVE NumbersTile
  OBVIOUS
<1>1. PICK a \in Histories : a = Artifact
  BY ArtifactIs
<1>2. CASE IsLate(produced) /\ Channel(a, "truncated") # Empty
  <2>1. Belated
    BY <1>2 DEF IsLate, Belated
  <2>2. Truncated
    BY <1>1, <1>2 DEF Truncated, Empty
  <2> QED BY <2>1, <2>2 DEF NumbersTile
<1>3. CASE TilesFrom(1, a) /\ After(1, a) = counter
  <2>1. \A i \in DOMAIN a : a[i].first = NextNumber(SubSeq(a, 1, i - 1))
    BY <1>3, TilesAre
  <2>2. NextNumber(a) = counter
    BY <1>3 DEF After, NextNumber
  <2> QED BY <1>1, <2>1, <2>2 DEF NumbersTile
<1> QED BY <1>1, <1>2, <1>3 DEF StoreInv, Faithful

LEMMA StoreKeeps == StoreInv => HistoryIsKept
<1> SUFFICES ASSUME StoreInv PROVE HistoryIsKept
  OBVIOUS
<1>1. PICK a, p : a = Artifact /\ p = produced
  OBVIOUS
<1>2. Faithful(a, p, counter) /\ Len(stored) <= MaxEvents
  BY <1>1 DEF StoreInv
<1>3. ASSUME NEW k PROVE Produced({k}) = TextOf(Tale(p), k)
  <2>1. Original = Tale(p)
    BY <1>1 DEF Original, Tale
  <2> QED BY <2>1 DEF Produced, TextOf, Channel
<1>4. TextOf(Artifact, "terminal") = Produced({"terminal"})
  BY <1>1, <1>2, <1>3 DEF Faithful
<1>5. ASSUME ~Truncated
      PROVE  /\ \A k \in TextKinds : TextOf(Artifact, k) = Produced({k})
             /\ TextOf(Artifact, "stage") = Produced({"stage"})
  <2>1. Channel(a, "truncated") = Empty
    BY <1>1, <1>5 DEF Truncated, Empty
  <2>2. \A k \in Told : TextOf(a, k) = TextOf(Tale(p), k)
    BY <1>2, <2>1 DEF Faithful
  <2>3. "stage" \in Told /\ \A k \in TextKinds : k \in Told
    BY DEF Told
  <2> QED BY <1>1, <1>3, <2>2, <2>3
<1> QED BY <1>2, <1>4, <1>5 DEF HistoryIsKept

\* HistoryIsSound: however the store joins, collapses, truncates and numbers the
\* events anew, their numbers follow one another up to the next one, the file keeps
\* its bound, the outcome is kept, and unless there is a marker every fragment is.
THEOREM HistoryStaysSound == Spec => []HistoryIsSound
<1>1. StoreInv => HistoryIsSound
  BY StoreTiles, StoreKeeps DEF HistoryIsSound
<1> QED BY <1>1, StoreIsFaithful, PTL

-----------------------------------------------------------------------------
(* What a stream is sent has its type.                                     *)

PieceType == [kind : Kinds, text : Seq(Nat)]

LEMMA PieceTyped == \A k \in Kinds, t \in Words : Piece(k, t) \in PieceType
BY DEF Piece, PieceType, Words

\* The operators inside Unseen.
UpToEvent(events, i) == TextOf(SubSeq(events, 1, i), events[i].kind)

ExtendsSent(events, sent, i) == IsPrefix(sent[events[i].kind], UpToEvent(events, i))

ToldBefore(events, old, sent, i) ==
  LET told == {j \in old + 1 .. i - 1 :
                 events[j].kind = events[i].kind /\ ExtendsSent(events, sent, j)}
  IN  IF told = {} THEN sent[events[i].kind] ELSE UpToEvent(events, Max(told))

RestOf(events, old, sent, i) ==
  IF ~IsText(events[i]) THEN events[i].text
  ELSE IF ExtendsSent(events, sent, i)
  THEN SubSeq(UpToEvent(events, i), Len(ToldBefore(events, old, sent, i)) + 1,
              Len(UpToEvent(events, i)))
  ELSE <<>>

IsSent(sent) == \A k \in TextKinds : sent[k] \in Words

LEMMA UpToTyped ==
  ASSUME NEW events \in Histories, NEW i \in 1..Len(events)
  PROVE  UpToEvent(events, i) \in Words
<1>1. i \in 0..Len(events)
  BY EmptyIs
<1>2. SubSeq(events, 1, i) \in Histories
  BY <1>1, CutInTwo
<1> QED BY <1>2, ChannelsMore DEF UpToEvent

LEMMA ToldTyped ==
  ASSUME NEW events \in Histories, NEW n \in Nat, n = Len(events), NEW old \in Nat,
         NEW sent, IsSent(sent), NEW i \in 1..n, IsText(events[i])
  PROVE  ToldBefore(events, old, sent, i) \in Words
<1>1. PICK told : told = {j \in old + 1 .. i - 1 :
                 events[j].kind = events[i].kind /\ ExtendsSent(events, sent, j)}
  OBVIOUS
<1>2. told \in SUBSET (1..n)
  <2>1. \A j \in old + 1 .. i - 1 : j \in 1..n
    OBVIOUS
  <2> QED BY <1>1, <2>1
<1>3. CASE told = {}
  <2>1. sent[events[i].kind] \in Words
    BY DEF IsText, IsSent
  <2> QED BY <1>1, <1>3, <2>1 DEF ToldBefore
<1>4. CASE told # {}
  <2>1. Max(told) \in 1..n
    BY <1>2, <1>4, LargestPlace
  <2>2. UpToEvent(events, Max(told)) \in Words
    BY <2>1, UpToTyped
  <2> QED BY <1>1, <1>4, <2>2 DEF ToldBefore
<1> QED BY <1>3, <1>4

LEMMA PartOfWords ==
  ASSUME NEW t \in Words, NEW u \in Words
  PROVE  SubSeq(u, Len(t) + 1, Len(u)) \in Words
<1>1. PICK m \in Nat, n \in Nat : m = Len(t) + 1 /\ n = Len(u) /\ m >= 1
  BY DEF Words
<1>2. \A i \in m..n : i \in 1..n
  BY <1>1
<1>3. \A i \in m..n : u[i] \in Nat
  BY <1>1, <1>2 DEF Words
<1>4. m \in Int /\ n \in Int
  OBVIOUS
<1>5. SubSeq(u, m, n) \in Seq(Nat)
  BY <1>3, <1>4, SubSeqProperties
<1> QED BY <1>1, <1>5 DEF Words

LEMMA RestTyped ==
  ASSUME NEW events \in Histories, NEW n \in Nat, n = Len(events), NEW old \in Nat,
         NEW sent, IsSent(sent), NEW i \in 1..n
  PROVE  RestOf(events, old, sent, i) \in Words
<1>1. events[i] \in Wide
  BY DEF Histories
<1>2. events[i].text \in Words /\ Empty \in Words
  BY <1>1, WordsJoin
<1>3. CASE IsText(events[i])
  <2>1. UpToEvent(events, i) \in Words /\ ToldBefore(events, old, sent, i) \in Words
    BY <1>3, UpToTyped, ToldTyped
  <2>2. SubSeq(UpToEvent(events, i), Len(ToldBefore(events, old, sent, i)) + 1,
               Len(UpToEvent(events, i))) \in Words
    BY <2>1, PartOfWords
  <2> QED BY <1>2, <1>3, <2>2 DEF RestOf, Empty
<1>4. CASE ~IsText(events[i])
  BY <1>2, <1>4 DEF RestOf
<1> QED BY <1>3, <1>4

\* What Unseen builds piece by piece.
UnseenBy(g, events, next, sent, n, old) ==
  /\ g \in [0..n -> Seq(PieceType)] /\ g[0] = <<>>
  /\ \A i \in 1..n :
       g[i] = IF i <= old THEN <<>>
              ELSE IF IsText(events[i]) /\ RestOf(events, old, sent, i) = <<>>
              THEN g[i - 1]
              ELSE Append(g[i - 1], Piece(events[i].kind, RestOf(events, old, sent, i)))
  /\ Unseen(events, next, sent) = [next |-> IF old = n THEN next ELSE NextNumber(events),
                                   send |-> g[n]]

LEMMA UnseenSteps ==
  ASSUME NEW events \in Histories, NEW next \in Nat \ {0}, NEW sent, IsSent(sent)
  PROVE  \E n \in Nat, old \in Nat :
           /\ n = Len(events) /\ old = Cardinality({i \in DOMAIN events : events[i].last < next})
           /\ \E g : UnseenBy(g, events, next, sent, n, old)
<1>1. PICK n \in Nat : n = Len(events) /\ DOMAIN events = 1..n
  BY DEF Histories
<1>2. PICK old \in Nat : old = Cardinality({i \in DOMAIN events : events[i].last < next})
  <2>1. IsFiniteSet(1..n)
    BY FS_Interval
  <2>2. IsFiniteSet({i \in 1..n : events[i].last < next})
    BY <2>1, FS_Subset
  <2> QED BY <1>1, <2>2, FS_CardinalityType
<1>3. PICK piece : piece = [i \in 1..n |-> Piece(events[i].kind, RestOf(events, old, sent, i))]
  OBVIOUS
<1>4. ASSUME NEW i \in 1..n PROVE piece[i] \in PieceType
  <2>1. events[i] \in Wide
    BY <1>1 DEF Histories
  <2>2. events[i].kind \in Kinds /\ RestOf(events, old, sent, i) \in Words
    BY <1>1, <2>1, WideIs, RestTyped
  <2> QED BY <1>3, <2>2, PieceTyped
<1>5. PICK step : step = [i \in 1..n |-> [a \in Seq(PieceType) |->
         IF i <= old THEN <<>>
         ELSE IF IsText(events[i]) /\ RestOf(events, old, sent, i) = <<>> THEN a
         ELSE Append(a, piece[i])]]
  OBVIOUS
<1>6. \A i \in 1..n : \A a \in Seq(PieceType) : step[i][a] \in Seq(PieceType)
  <2>1. \A i \in 1..n : \A a \in Seq(PieceType) : Append(a, piece[i]) \in Seq(PieceType)
    BY <1>4
  <2>2. <<>> \in Seq(PieceType)
    OBVIOUS
  <2> QED BY <1>5, <2>1, <2>2
<1>7. PICK g : Walks(g, n, Seq(PieceType), <<>>, step)
  <2>1. <<>> \in Seq(PieceType)
    OBVIOUS
  <2> QED BY <1>6, <2>1, StepsDefine
<1>8. g \in [0..n -> Seq(PieceType)] /\ g[0] = <<>>
  BY <1>7 DEF Walks
<1>9. ASSUME NEW i \in 1..n
      PROVE  g[i] = IF i <= old THEN <<>>
                    ELSE IF IsText(events[i]) /\ RestOf(events, old, sent, i) = <<>>
                    THEN g[i - 1]
                    ELSE Append(g[i - 1], Piece(events[i].kind, RestOf(events, old, sent, i)))
  <2>1. i \in 0..n /\ i # 0 /\ i - 1 \in 0..n
    OBVIOUS
  <2>2. g[i] = step[i][g[i - 1]] /\ g[i - 1] \in Seq(PieceType)
    BY <1>7, <2>1, Zenon DEF Walks
  <2>3. piece[i] = Piece(events[i].kind, RestOf(events, old, sent, i))
    BY <1>3
  <2> QED BY <1>5, <2>2, <2>3, Zenon
<1>10. PICK c : c = CHOOSE send : send = [i \in 0..Len(events) |->
         IF i <= old THEN <<>>
         ELSE IF IsText(events[i]) /\ RestOf(events, old, sent, i) = <<>> THEN send[i - 1]
         ELSE Append(send[i - 1], Piece(events[i].kind, RestOf(events, old, sent, i)))]
  OBVIOUS
<1>11. 0 <= old /\ \A i \in 0..n : i # 0 => i \in 1..n
  OBVIOUS
<1>12. c = [i \in 0..n |->
         IF i <= old THEN <<>>
         ELSE IF IsText(events[i]) /\ RestOf(events, old, sent, i) = <<>> THEN c[i - 1]
         ELSE Append(c[i - 1], Piece(events[i].kind, RestOf(events, old, sent, i)))]
  <2>1. g = [i \in 0..n |-> g[i]]
    BY <1>8
  <2>2. g = [i \in 0..n |->
         IF i <= old THEN <<>>
         ELSE IF IsText(events[i]) /\ RestOf(events, old, sent, i) = <<>> THEN g[i - 1]
         ELSE Append(g[i - 1], Piece(events[i].kind, RestOf(events, old, sent, i)))]
    BY <1>8, <1>9, <1>11, <2>1, Zenon
  <2> QED BY <1>1, <1>10, <2>2, Zenon
<1>13. c[n] = g[n]
  <2>1. /\ 0 \in 0..n /\ \A i \in 1..n : i \in 0..n
    OBVIOUS
  <2>2. c[0] = g[0]
    BY <1>8, <1>11, <1>12, <2>1, Zenon
  <2>3. ASSUME NEW i \in 1..n, c[i - 1] = g[i - 1] PROVE c[i] = g[i]
    BY <1>9, <1>12, <2>1, <2>3, Zenon
  <2> QED BY <2>2, <2>3, AlikeUpTo
<1>14. Unseen(events, next, sent)
         = [next |-> IF old = Len(events) THEN next ELSE NextNumber(events), send |-> c[Len(events)]]
  BY <1>2, <1>10 DEF Unseen, RestOf, ToldBefore, ExtendsSent, UpToEvent
<1>15. Unseen(events, next, sent)
         = [next |-> IF old = n THEN next ELSE NextNumber(events), send |-> g[n]]
  BY <1>1, <1>13, <1>14
<1>16. UnseenBy(g, events, next, sent, n, old)
  BY <1>8, <1>9, <1>15, Zenon DEF UnseenBy
<1> QED BY <1>1, <1>2, <1>16

LEMMA UnseenTyped ==
  ASSUME NEW events \in Histories, NEW next \in Nat \ {0}, NEW sent, IsSent(sent)
  PROVE  /\ Unseen(events, next, sent).next \in Nat \ {0}
         /\ Unseen(events, next, sent).send \in Seq(PieceType)
<1>a. PICK n \in Nat, old \in Nat : /\ n = Len(events)
                                    /\ \E g : UnseenBy(g, events, next, sent, n, old)
  BY UnseenSteps
<1>1. PICK g : UnseenBy(g, events, next, sent, n, old)
  BY <1>a
<1>2. DOMAIN events = 1..n
  BY <1>a DEF Histories
<1>3. /\ g \in [0..n -> Seq(PieceType)] /\ n \in 0..n
      /\ Unseen(events, next, sent) = [next |-> IF old = n THEN next ELSE NextNumber(events),
                                       send |-> g[n]]
  BY <1>1 DEF UnseenBy
<1>4. g[n] \in Seq(PieceType)
  BY <1>3
<1>5. NextNumber(events) \in Nat \ {0}
  <2>1. CASE events = <<>>
    BY <2>1 DEF NextNumber
  <2>2. CASE events # <<>>
    <3>1. Last(events) \in Wide
      BY <1>a, <1>2, <2>2 DEF Histories, Last
    <3>2. Last(events).last \in Nat
      BY <3>1, WideIs
    <3> QED BY <2>2, <3>2 DEF NextNumber
  <2> QED BY <2>1, <2>2
<1> QED BY <1>3, <1>4, <1>5

-----------------------------------------------------------------------------
(* The hub and the streams keep their types.                               *)

\* Whoever unsubscribes leaves a list of subscribers: RunHub._queues.
LEMMA UnsubscribedTyped ==
  ASSUME subscribers \in Seq(Streams), NEW s \in Streams
  PROVE  Unsubscribed(s) \in Seq(Streams)
<1>1. PICK q : q = subscribers
  OBVIOUS
<1>2. PICK n \in Nat : n = Len(q) /\ DOMAIN q = 1..n /\ \A i \in 1..n : q[i] \in Streams
  BY <1>1
<1>3. PICK A, none : A = Seq(Streams) /\ none = <<>>
  OBVIOUS
<1>4. PICK step : step = [i \in 1..n |-> [a \in A |-> IF q[i] = s THEN a ELSE Append(a, q[i])]]
  OBVIOUS
<1>5. none \in A /\ \A i \in 1..n : \A a \in A :
        /\ step[i][a] = IF q[i] = s THEN a ELSE Append(a, q[i])
        /\ step[i][a] \in A
  <2>1. \A i \in 1..n : \A a \in A : Append(a, q[i]) \in A
    BY <1>2, <1>3
  <2>2. none \in A
    BY <1>3
  <2> QED BY <1>4, <2>1, <2>2
<1>6. PICK c : c = CHOOSE h : h = [x \in SUBSET DOMAIN q |->
                 IF x = {} THEN <<>>
                 ELSE IF q[Max(x)] = s THEN h[x \ {Max(x)}]
                 ELSE Append(h[x \ {Max(x)}], q[Max(x)])]
  OBVIOUS
<1>7. c = [x \in SUBSET (1..n) |->
                 IF x = {} THEN none
                 ELSE IF q[Max(x)] = s THEN c[x \ {Max(x)}]
                 ELSE Append(c[x \ {Max(x)}], q[Max(x)])]
  <2>1. PICK f : Folds(f, n, A, none, step)
    BY <1>5, StepsFold
  <2>2. FoldsBy(f, n, A, none, step)
    BY <2>1, FoldTyped
  <2>3. f = [x \in SUBSET (1..n) |->
                 IF x = {} THEN none
                 ELSE IF q[Max(x)] = s THEN f[x \ {Max(x)}]
                 ELSE Append(f[x \ {Max(x)}], q[Max(x)])]
    <3>1. ASSUME NEW x \in SUBSET (1..n), x # {}
          PROVE  f[x] = IF q[Max(x)] = s THEN f[x \ {Max(x)}]
                        ELSE Append(f[x \ {Max(x)}], q[Max(x)])
      <4>1. PICK m, v : m = Max(x) /\ v = f[x \ {m}]
        OBVIOUS
      <4>2. m \in 1..n /\ v \in A /\ f[x] = step[m][v]
        BY <2>2, <3>1, <4>1, Zenon DEF FoldsBy
      <4>3. step[m][v] = IF q[m] = s THEN v ELSE Append(v, q[m])
        BY <1>5, <4>2
      <4> QED BY <4>1, <4>2, <4>3
    <3>2. f = [x \in SUBSET (1..n) |-> f[x]] /\ f[{}] = none
      BY <2>2, Zenon DEF FoldsBy
    <3> QED BY <3>1, <3>2, Zenon
  <2> QED BY <1>2, <1>3, <1>6, <2>3, Zenon
<1>8. BuiltUp(c, n, A, none, step)
  <2>1. \A x \in SUBSET (1..n) : x # {} => Max(x) \in 1..n
    BY LargestPlace
  <2>2. {} \in SUBSET (1..n)
    OBVIOUS
  <2> QED BY <1>5, <1>7, <2>1, <2>2, Zenon DEF BuiltUp
<1>9. PICK g : ComesTo(g, n, A, none, step, c[1..n])
  BY <1>5, <1>8, FoldInTurn
<1>10. Unsubscribed(s) = c[1..n]
  BY <1>1, <1>2, <1>6 DEF Unsubscribed, FoldLeft, MapThenFoldSet
<1>11. n \in 0..n
  OBVIOUS
<1>12. c[1..n] \in A
  BY <1>9, <1>11, Zenon DEF ComesTo
<1> QED BY <1>3, <1>10, <1>12

\* What a publishing thread and a stream can be doing.
Publications ==
  {r \in [pc : {"ready", "publish", "put", "drop", "again"}, event : Events, to : Seq(Streams)] :
     r.pc \in {"put", "drop", "again"} => r.to # <<>>}

Connections == [pc : {"closed", "read", "wait", "ended", "gone"},
                next : Nat \ {0}, ahead : Seq(Events)]

FeedTyped ==
  /\ subscribers \in Seq(Streams)
  /\ queue \in [Streams -> Seq(Events)]
  /\ \A s \in Streams : Len(queue[s]) <= QueueSize
  /\ publisher \in [Publishers -> Publications]
  /\ stream \in [Streams -> Connections]
  /\ received \in [Streams -> Seq(PieceType)]

LEMMA EventsAre ==
  /\ NoEvent \in Events /\ Wide \subseteq Events
  /\ \A h \in Histories : h \in Seq(Events)
  /\ \A e \in Wide : e.first \in Nat
  /\ \A e \in Events : Piece(e.kind, e.text) \in PieceType
<1>1. PICK t : t = <<0>>
  OBVIOUS
<1>2. t \in Seq(Nat)
  <2>1. 0 \in Nat
    OBVIOUS
  <2> QED BY <1>1, <2>1
<1>3. NoEvent = [kind |-> "truncated", first |-> 0, last |-> 0, text |-> t]
  BY <1>1 DEF NoEvent, Event
<1>4. "truncated" \in Kinds /\ 0 \in Nat
  BY DEF Kinds
<1>5. NoEvent \in Events
  BY <1>2, <1>3, <1>4 DEF Events
<1>6. Wide \subseteq Events
  BY DEF Wide
<1>7. \A h \in Histories : h \in Seq(Events)
  BY <1>6, SeqMonotonic DEF Histories
<1>8. \A e \in Events : Piece(e.kind, e.text) \in PieceType
  BY DEF Events, Piece, PieceType
<1> QED BY <1>5, <1>6, <1>7, <1>8, WideIs

LEMMA PiecesTyped ==
  ASSUME NEW es \in Seq(Events)
  PROVE  Pieces(es) \in Seq(PieceType)
<1>1. PICK n \in Nat : n = Len(es) /\ DOMAIN es = 1..n /\ \A i \in 1..n : es[i] \in Events
  OBVIOUS
<1>2. PICK h : h = [i \in 1..n |-> Piece(es[i].kind, es[i].text)]
  OBVIOUS
<1>3. \A i \in 1..n : Piece(es[i].kind, es[i].text) \in PieceType
  BY <1>1, EventsAre
<1>4. h \in [1..n -> PieceType]
  BY <1>2, <1>3
<1>5. h \in Seq(PieceType)
  BY <1>4
<1>6. Pieces(es) = h
  BY <1>1, <1>2 DEF Pieces
<1> QED BY <1>5, <1>6

\* What a stream has sent, by channel.
LEMMA SentTyped ==
  ASSUME received \in [Streams -> Seq(PieceType)], NEW s \in Streams
  PROVE  IsSent(Sent(s))
<1>1. PICK r \in Seq(PieceType) : r = received[s]
  OBVIOUS
<1>2. PieceType \subseteq Items
  BY DEF PieceType, Items
<1>3. ASSUME NEW k PROVE TextOf(r, k) \in Words
  <2>1. OfKinds(r, {k}) \in Seq(PieceType)
    BY OfKindsMore
  <2>2. OfKinds(r, {k}) \in Seq(Items)
    BY <1>2, <2>1, SeqMonotonic
  <2>3. Texts(OfKinds(r, {k})) \in Seq(Nat)
    BY <2>2, TextsMore
  <2> QED BY <2>3 DEF TextOf, Channel, Words
<1>4. \A k \in TextKinds : Sent(s)[k] = TextOf(r, k)
  BY <1>1 DEF Sent
<1> QED BY <1>3, <1>4 DEF IsSent

LEMMA OutcomePublished ==
  ASSUME StoreInv, Has(Artifact, IsTerminal)
  PROVE  Last(Channel(Artifact, "terminal")) \in Events
<1>1. PICK a \in Histories : a = Artifact
  BY ArtifactIs
<1>2. ~(\A i \in DOMAIN a : a[i].kind # "terminal")
  BY <1>1 DEF Has, IsTerminal
<1>3. PICK h \in Histories : h = Channel(a, "terminal")
  BY ChannelsMore
<1>4. h # Empty
  BY <1>2, <1>3, NoneOfKind
<1>5. PICK f \in Histories, e \in Wide : h = Plus(f, e)
  BY <1>4, HistoriesGrow
<1>6. Last(Append(f, e)) = e
  BY OneMore DEF Histories, Last
<1>7. Last(h) = e
  BY <1>5, <1>6 DEF Plus
<1> QED BY <1>1, <1>3, <1>7, EventsAre

LEMMA WrittenPublished ==
  ASSUME StoreInv, NEW kind \in Kinds
  PROVE  Fresh(kind) \in Events /\ Written(kind) \in Events
<1>1. PICK n \in Nat : n = Len(produced) + 1
  BY ArtifactIs
<1>2. PICK e \in Wide : e = Fresh(kind)
  BY <1>1, ArtifactIs, FreshIs
<1>3. PICK a \in Histories : a = Artifact
  BY ArtifactIs
<1>4. Plus(a, e) \in Histories /\ Plus(a, e) # Empty /\ Then(a, Plus(Empty, e)) = Plus(a, e)
  BY HistoriesGrow
<1>5. Plus(Empty, e) = <<e>>
  BY DEF Plus, Empty
<1>6. a \o <<e>> = Plus(a, e)
  BY <1>4, <1>5 DEF Then
<1>7. PICK r : r = Renumber(Plus(a, e))
  OBVIOUS
<1>8. r \in Histories /\ Len(r) = Len(Plus(a, e))
  BY <1>4, <1>7, RenumberTiles
<1>9. r # Empty
  BY <1>4, <1>8, EmptyIs
<1>10. PICK f \in Histories, d \in Wide : r = Plus(f, d)
  BY <1>8, <1>9, HistoriesGrow
<1>11. Last(Append(f, d)) = d
  BY OneMore DEF Histories, Last
<1>12. Written(kind) = d
  BY <1>2, <1>3, <1>6, <1>7, <1>10, <1>11 DEF Written, Plus
<1> QED BY <1>2, <1>12, EventsAre

PublishersTyped  == publisher \in [Publishers -> Publications]
QueuesTyped      == /\ queue \in [Streams -> Seq(Events)]
                    /\ \A s \in Streams : Len(queue[s]) <= QueueSize
ConnectionsTyped == stream \in [Streams -> Connections]
ReceivedTyped    == received \in [Streams -> Seq(PieceType)]

LEMMA PublishesTyped ==
  ASSUME PublishersTyped, NEW p \in Publishers, NEW e \in Events, Publishes(p, e)
  PROVE  PublishersTyped'
<1>a. PICK z : z = Silent
  OBVIOUS
<1>b. z \in Publications
  BY <1>a, EventsAre DEF Silent, Publications
<1>1. PICK r : r = [z EXCEPT !.pc = "publish", !.event = e]
  OBVIOUS
<1>2. r \in Publications
  BY <1>b, <1>1 DEF Publications
<1>3. publisher' = [publisher EXCEPT ![p] = r]
  BY <1>a, <1>1 DEF Publishes
<1> QED BY <1>2, <1>3 DEF PublishersTyped

LEMMA TurnsTyped ==
  ASSUME PublishersTyped, NEW p \in Publishers, NEW subs \in Seq(Streams), TurnsTo(p, subs)
  PROVE  PublishersTyped'
<1>1. PICK o \in Publications : o = publisher[p]
  BY DEF PublishersTyped
<1>2. PICK r : r = IF subs = <<>> THEN Silent ELSE [o EXCEPT !.pc = "put", !.to = subs]
  OBVIOUS
<1>3. CASE subs = <<>>
  <2>1. r \in Publications
    BY <1>2, <1>3, EventsAre DEF Silent, Publications
  <2>2. publisher' = [publisher EXCEPT ![p] = r]
    BY <1>1, <1>2, <1>3 DEF TurnsTo
  <2> QED BY <2>1, <2>2 DEF PublishersTyped
<1>4. CASE subs # <<>>
  <2>1. r \in Publications
    BY <1>1, <1>2, <1>4 DEF Publications
  <2>2. publisher' = [publisher EXCEPT ![p] = [publisher[p] EXCEPT !.pc = "put", !.to = subs]]
    BY <1>4 DEF TurnsTo
  <2>3. publisher' = [publisher EXCEPT ![p] = r]
    BY <1>1, <1>2, <1>4, <2>2
  <2> QED BY <2>1, <2>3 DEF PublishersTyped
<1> QED BY <1>3, <1>4

LEMMA GoesTyped ==
  ASSUME PublishersTyped, NEW p \in Publishers, NEW pc \in {"drop", "again"},
         publisher[p].to # <<>>, Goes(p, pc)
  PROVE  PublishersTyped'
<1>1. PICK o \in Publications : o = publisher[p]
  BY DEF PublishersTyped
<1>2. PICK r : r = [o EXCEPT !.pc = pc]
  OBVIOUS
<1>3. r \in Publications
  BY <1>1, <1>2 DEF Publications
<1>4. publisher' = [publisher EXCEPT ![p] = r]
  BY <1>1, <1>2 DEF Goes
<1> QED BY <1>3, <1>4 DEF PublishersTyped

\* A thread that serves a subscriber has one, and knows what to put.
LEMMA Serving ==
  ASSUME PublishersTyped, NEW p \in Publishers, publisher[p].pc \in {"put", "drop", "again"}
  PROVE  /\ publisher[p].to # <<>> /\ Target(p) \in Streams
         /\ Tail(publisher[p].to) \in Seq(Streams) /\ publisher[p].event \in Events
<1>1. PICK o \in Publications : o = publisher[p]
  BY DEF PublishersTyped
<1>2. o.to \in Seq(Streams) /\ o.to # <<>> /\ o.event \in Events
  BY <1>1 DEF Publications
<1> QED BY <1>1, <1>2 DEF Target

LEMMA EnqueueTyped ==
  ASSUME PublishersTyped, QueuesTyped, NEW p \in Publishers,
         publisher[p].pc \in {"put", "drop", "again"}, ~Full(Target(p)), Enqueue(p)
  PROVE  QueuesTyped'
<1>1. PICK t \in Streams, e \in Events : t = Target(p) /\ e = publisher[p].event
  BY Serving
<1>2. PICK q \in Seq(Events) : q = queue[t] /\ Len(q) < QueueSize
  BY <1>1, StreamAssumption DEF QueuesTyped, Full
<1>3. Append(q, e) \in Seq(Events) /\ Len(Append(q, e)) <= QueueSize
  BY <1>2, StreamAssumption
<1>4. queue' = [queue EXCEPT ![t] = Append(q, e)]
  BY <1>1, <1>2 DEF Enqueue
<1> QED BY <1>3, <1>4 DEF QueuesTyped

LEMMA TailTyped ==
  ASSUME QueuesTyped, NEW t \in Streams, queue[t] # <<>>
  PROVE  /\ Head(queue[t]) \in Events
         /\ queue' = [queue EXCEPT ![t] = Tail(queue[t])] => QueuesTyped'
<1>1. PICK q \in Seq(Events) : q = queue[t] /\ Len(q) <= QueueSize /\ q # <<>>
  BY DEF QueuesTyped
<1>2. Tail(q) \in Seq(Events) /\ Len(Tail(q)) <= QueueSize /\ Head(q) \in Events
  BY <1>1, StreamAssumption
<1> QED BY <1>1, <1>2 DEF QueuesTyped

LEMMA GoesOnTyped ==
  ASSUME subscribers \in Seq(Streams), ConnectionsTyped, NEW s \in Streams,
         NEW n \in Nat \ {0}, NEW over, GoesOn(s, n, over)
  PROVE  subscribers' \in Seq(Streams) /\ ConnectionsTyped'
<1>1. PICK r : r = [pc |-> IF over THEN "ended" ELSE "wait", next |-> n, ahead |-> <<>>]
  OBVIOUS
<1>2. r \in Connections
  BY <1>1 DEF Connections
<1>3. stream' = [stream EXCEPT ![s] = r]
  BY <1>1 DEF GoesOn
<1>4. subscribers' \in Seq(Streams)
  BY UnsubscribedTyped DEF GoesOn
<1> QED BY <1>2, <1>3, <1>4 DEF ConnectionsTyped

LEMMA ReceivesTyped ==
  ASSUME ReceivedTyped, NEW s \in Streams, NEW pieces \in Seq(PieceType), Receives(s, pieces)
  PROVE  ReceivedTyped'
<1>1. PICK r \in Seq(PieceType) : r = received[s]
  BY DEF ReceivedTyped
<1>2. r \o pieces \in Seq(PieceType)
  OBVIOUS
<1>3. received' = [received EXCEPT ![s] = r \o pieces]
  BY <1>1 DEF Receives
<1> QED BY <1>2, <1>3 DEF ReceivedTyped

LEMMA ReadTyped ==
  ASSUME StoreInv, FeedTyped, NEW s \in Streams, ReadStore(s)
  PROVE  FeedTyped'
<1>1. ConnectionsTyped /\ ReceivedTyped /\ subscribers \in Seq(Streams)
  BY DEF FeedTyped, ConnectionsTyped, ReceivedTyped
<1>2. PICK o \in Connections : o = stream[s]
  BY <1>1 DEF ConnectionsTyped
<1>3. o.next \in Nat \ {0} /\ o.ahead \in Seq(Events)
  BY DEF Connections
<1>4. PICK u : /\ u = Unseen(Artifact, stream[s].next, Sent(s))
               /\ LET behind == Has(stream[s].ahead, LAMBDA e : e.first # u.next)
                      ahead  == IF behind THEN <<>> ELSE stream[s].ahead
                      over   == Has(u.send, IsTerminal)
                      pieces == IF over THEN u.send ELSE u.send \o Pieces(ahead)
                  IN /\ Receives(s, pieces)
                     /\ GoesOn(s, IF over THEN u.next ELSE u.next + Len(ahead),
                               Has(pieces, IsTerminal))
  BY DEF ReadStore
<1>5. PICK ahead : ahead = IF Has(stream[s].ahead, LAMBDA e : e.first # u.next) THEN <<>>
                           ELSE stream[s].ahead
  OBVIOUS
<1>6. ahead \in Seq(Events)
  BY <1>2, <1>3, <1>5
<1>7. u.next \in Nat \ {0} /\ u.send \in Seq(PieceType)
  <2>1. IsSent(Sent(s))
    BY <1>1, SentTyped DEF ReceivedTyped
  <2> QED BY <1>2, <1>3, <1>4, <2>1, ArtifactIs, UnseenTyped
<1>8. PICK pieces : pieces = IF Has(u.send, IsTerminal) THEN u.send ELSE u.send \o Pieces(ahead)
  OBVIOUS
<1>9. pieces \in Seq(PieceType)
  <2>1. Pieces(ahead) \in Seq(PieceType)
    BY <1>6, PiecesTyped
  <2> QED BY <1>7, <1>8, <2>1
<1>10. PICK n : n = IF Has(u.send, IsTerminal) THEN u.next ELSE u.next + Len(ahead)
  OBVIOUS
<1>11. n \in Nat \ {0}
  <2>1. Len(ahead) \in Nat
    BY <1>6
  <2> QED BY <1>7, <1>10, <2>1
<1>12. Receives(s, pieces) /\ GoesOn(s, n, Has(pieces, IsTerminal))
  BY <1>4, <1>5, <1>8, <1>10
<1>13. ReceivedTyped' /\ subscribers' \in Seq(Streams) /\ ConnectionsTyped'
  BY <1>1, <1>9, <1>11, <1>12, ReceivesTyped, GoesOnTyped
<1>14. queue' = queue /\ publisher' = publisher
  BY DEF ReadStore
<1> QED BY <1>13, <1>14 DEF FeedTyped, ConnectionsTyped, ReceivedTyped

LEMMA TakeTyped ==
  ASSUME FeedTyped, NEW s \in Streams, TakeEvent(s)
  PROVE  FeedTyped'
<1>1. ConnectionsTyped /\ ReceivedTyped /\ QueuesTyped /\ subscribers \in Seq(Streams)
  BY DEF FeedTyped, ConnectionsTyped, ReceivedTyped, QueuesTyped
<1>2. PICK o \in Connections : o = stream[s]
  BY <1>1 DEF ConnectionsTyped
<1>3. o.next \in Nat \ {0}
  BY DEF Connections
<1>4. PICK e : e = Head(queue[s])
  OBVIOUS
<1>5. e \in Events /\ QueuesTyped'
  BY <1>1, <1>4, TailTyped DEF TakeEvent
<1>6. publisher' = publisher
  BY DEF TakeEvent, store
<1>7. <<e>> \in Seq(Events)
  BY <1>5
<1>8. CASE UNCHANGED <<stream, subscribers, received>>
  BY <1>1, <1>5, <1>6, <1>8 DEF FeedTyped, QueuesTyped
<1>9. CASE Receives(s, Pieces(<<e>>)) /\ GoesOn(s, o.next + 1, IsTerminal(e))
  <2>a. Pieces(<<e>>) \in Seq(PieceType)
    BY <1>7, PiecesTyped
  <2>b. o.next + 1 \in Nat \ {0}
    BY <1>3
  <2>1. Pieces(<<e>>) \in Seq(PieceType) /\ o.next + 1 \in Nat \ {0}
    BY <2>a, <2>b
  <2>2. ReceivedTyped' /\ subscribers' \in Seq(Streams) /\ ConnectionsTyped'
    BY <1>1, <1>9, <2>1, ReceivesTyped, GoesOnTyped
  <2> QED BY <1>5, <1>6, <2>2 DEF FeedTyped, QueuesTyped, ConnectionsTyped, ReceivedTyped
<1>10. CASE /\ stream' = [stream EXCEPT ![s].pc = "read", ![s].ahead = <<e>>]
            /\ UNCHANGED <<subscribers, received>>
  <2>1. stream' \in [Streams -> Connections]
    BY <1>1, <1>7, <1>10 DEF ConnectionsTyped, Connections
  <2> QED BY <1>1, <1>5, <1>6, <1>10, <2>1 DEF FeedTyped, QueuesTyped
<1> QED BY <1>2, <1>4, <1>8, <1>9, <1>10 DEF TakeEvent

LEMMA FeedStart == Init => FeedTyped
<1> SUFFICES ASSUME Init PROVE FeedTyped
  OBVIOUS
<1>1. PICK z : z = Silent
  OBVIOUS
<1>2. z \in Publications
  BY <1>1, EventsAre DEF Silent, Publications
<1>3. publisher \in [Publishers -> Publications]
  BY <1>1, <1>2 DEF Init
<1>4. Closed \in Connections
  BY DEF Closed, Connections
<1>5. stream \in [Streams -> Connections]
  BY <1>4 DEF Init
<1>6. received \in [Streams -> Seq(PieceType)] /\ subscribers \in Seq(Streams)
  BY DEF Init
<1>7. queue \in [Streams -> Seq(Events)] /\ \A s \in Streams : Len(queue[s]) <= QueueSize
  BY StreamAssumption DEF Init
<1> QED BY <1>3, <1>5, <1>6, <1>7 DEF FeedTyped

\* A thread publishes another event.
LEMMA AppendTyped ==
  ASSUME FeedTyped, NEW p \in Publishers, NEW e \in Events, Publishes(p, e),
         UNCHANGED <<hub, stream, received>>
  PROVE  FeedTyped'
<1>1. PublishersTyped'
  BY PublishesTyped DEF FeedTyped, PublishersTyped
<1> QED BY <1>1 DEF FeedTyped, PublishersTyped, hub

LEMMA FeedStep ==
  ASSUME StoreInv, FeedTyped, [Next]_vars
  PROVE  FeedTyped'
<1>1. PublishersTyped /\ QueuesTyped /\ ConnectionsTyped /\ ReceivedTyped
  BY DEF FeedTyped, PublishersTyped, QueuesTyped, ConnectionsTyped, ReceivedTyped
<1>2. "stage" \in Kinds /\ "terminal" \in Kinds /\ TextKinds \subseteq Kinds
  BY DEF Kinds
<1>3. ASSUME NEW kind \in TextKinds, Stream(kind) PROVE FeedTyped'
  <2>1. Worker \in Publishers /\ Fresh(kind) \in Events /\ Written(kind) \in Events
    BY <1>2, StreamAssumption, WrittenPublished
  <2>2. UNCHANGED <<hub, stream, received>>
    BY <1>3 DEF Stream
  <2>3. Publishes(Worker, Fresh(kind)) \/ Publishes(Worker, Written(kind))
    BY <1>3 DEF Stream
  <2> QED BY <2>1, <2>2, <2>3, AppendTyped
<1>4. ASSUME NEW p \in Publishers, EmitStage(p) PROVE FeedTyped'
  <2>1. Written("stage") \in Events
    BY <1>2, WrittenPublished
  <2> QED BY <1>4, <2>1, AppendTyped DEF EmitStage
<1>5. ASSUME NEW p \in Publishers, Finish(p) PROVE FeedTyped'
  <2>1. Written("terminal") \in Events
    BY <1>2, WrittenPublished
  <2> QED BY <1>5, <2>1, AppendTyped DEF Finish
<1>6. ASSUME NEW p \in Publishers, FinishAgain(p) PROVE FeedTyped'
  <2>1. Last(Channel(Artifact, "terminal")) \in Events
    BY <1>6, OutcomePublished DEF FinishAgain
  <2> QED BY <1>6, <2>1, AppendTyped DEF FinishAgain
<1>7. ASSUME NEW p \in Publishers, CopySubscribers(p) PROVE FeedTyped'
  <2>1. PublishersTyped'
    BY <1>1, <1>7, TurnsTyped DEF CopySubscribers, FeedTyped
  <2> QED BY <1>7, <2>1 DEF FeedTyped, PublishersTyped, CopySubscribers, hub
<1>8. ASSUME NEW p \in Publishers, Put(p) PROVE FeedTyped'
  <2>1. /\ publisher[p].to # <<>> /\ Tail(publisher[p].to) \in Seq(Streams)
        /\ publisher[p].pc \in {"put", "drop", "again"}
    BY <1>1, <1>8, Serving DEF Put
  <2>2. CASE Full(Target(p))
    <3>1. PublishersTyped' /\ queue' = queue
      BY <1>1, <1>8, <2>1, <2>2, GoesTyped DEF Put
    <3> QED BY <1>8, <3>1 DEF FeedTyped, PublishersTyped, Put
  <2>3. CASE ~Full(Target(p))
    <3>1. Enqueue(p) /\ Served(p)
      BY <1>8, <2>3 DEF Put
    <3>2. PublishersTyped'
      BY <1>1, <2>1, <3>1, TurnsTyped DEF Served
    <3>3. QueuesTyped'
      BY <1>1, <2>1, <2>3, <3>1, EnqueueTyped
    <3> QED BY <1>8, <3>2, <3>3 DEF FeedTyped, PublishersTyped, QueuesTyped, Put
  <2> QED BY <2>2, <2>3
<1>9. ASSUME NEW p \in Publishers, DropOldest(p) PROVE FeedTyped'
  <2>1. /\ publisher[p].to # <<>> /\ Target(p) \in Streams
        /\ publisher[p].pc \in {"put", "drop", "again"}
    BY <1>1, <1>9, Serving DEF DropOldest
  <2>2. PublishersTyped'
    BY <1>1, <1>9, <2>1, GoesTyped DEF DropOldest
  <2>3. QueuesTyped'
    <3>1. CASE queue[Target(p)] = <<>>
      <4>1. queue' = [queue EXCEPT ![Target(p)] = queue[Target(p)]]
        BY <1>9, <3>1 DEF DropOldest
      <4>2. queue' = queue
        BY <1>1, <2>1, <4>1 DEF QueuesTyped
      <4> QED BY <1>1, <4>2 DEF QueuesTyped
    <3>2. CASE queue[Target(p)] # <<>>
      <4>1. queue' = [queue EXCEPT ![Target(p)] = Tail(queue[Target(p)])]
        BY <1>9, <3>2 DEF DropOldest
      <4> QED BY <1>1, <2>1, <3>2, <4>1, TailTyped
    <3> QED BY <3>1, <3>2
  <2> QED BY <1>9, <2>2, <2>3 DEF FeedTyped, PublishersTyped, QueuesTyped, DropOldest
<1>10. ASSUME NEW p \in Publishers, PutAgain(p) PROVE FeedTyped'
  <2>1. /\ publisher[p].to # <<>> /\ Tail(publisher[p].to) \in Seq(Streams)
        /\ publisher[p].pc \in {"put", "drop", "again"}
    BY <1>1, <1>10, Serving DEF PutAgain
  <2>2. PublishersTyped'
    BY <1>1, <1>10, <2>1, TurnsTyped DEF PutAgain, Served
  <2>3. QueuesTyped'
    <3>1. CASE Full(Target(p))
      <4>1. queue' = queue
        BY <1>10, <3>1 DEF PutAgain
      <4> QED BY <1>1, <4>1 DEF QueuesTyped
    <3>2. CASE ~Full(Target(p))
      <4>1. Enqueue(p)
        BY <1>10, <3>2 DEF PutAgain
      <4> QED BY <1>1, <2>1, <3>2, <4>1, EnqueueTyped
    <3> QED BY <3>1, <3>2
  <2> QED BY <1>10, <2>2, <2>3 DEF FeedTyped, PublishersTyped, QueuesTyped, PutAgain
<1>11. CASE Rewrite
  BY <1>11 DEF Rewrite, FeedTyped, hub
<1>12. ASSUME NEW s \in Streams, Subscribe(s) PROVE FeedTyped'
  <2>1. stream' \in [Streams -> Connections]
    BY <1>1, <1>12 DEF Subscribe, ConnectionsTyped, Connections
  <2>2. subscribers' \in Seq(Streams)
    BY <1>12 DEF Subscribe, FeedTyped
  <2> QED BY <1>12, <2>1, <2>2 DEF Subscribe, FeedTyped
<1>13. ASSUME NEW s \in Streams, TimesOut(s) PROVE FeedTyped'
  <2>1. stream' \in [Streams -> Connections]
    BY <1>1, <1>13 DEF TimesOut, ConnectionsTyped, Connections
  <2> QED BY <1>13, <2>1 DEF TimesOut, FeedTyped, hub
<1>14. ASSUME NEW s \in Streams, Disconnect(s) PROVE FeedTyped'
  <2>1. stream' \in [Streams -> Connections]
    BY <1>1, <1>14 DEF Disconnect, ConnectionsTyped, Connections
  <2>2. subscribers' \in Seq(Streams)
    BY <1>14, UnsubscribedTyped DEF Disconnect, FeedTyped
  <2> QED BY <1>14, <2>1, <2>2 DEF Disconnect, FeedTyped
<1>15. ASSUME NEW s \in Streams, ReadStore(s) \/ TakeEvent(s) PROVE FeedTyped'
  BY <1>15, ReadTyped, TakeTyped
<1>16. CASE UNCHANGED vars
  BY <1>16 DEF vars, hub, FeedTyped
<1> QED BY <1>3, <1>4, <1>5, <1>6, <1>7, <1>8, <1>9, <1>10, <1>11, <1>12, <1>13, <1>14, <1>15, <1>16
        DEF Next, Appending, Publishing, Following

LEMMA TypesAre == StoreInv /\ FeedTyped => TypeOK
<1> SUFFICES ASSUME StoreInv, FeedTyped PROVE TypeOK
  OBVIOUS
<1>1. stored \in Seq(Events) /\ buffered \in Seq(Events)
  BY EventsAre DEF StoreInv
<1>2. counter \in Nat \ {0} /\ produced \in Seq(Kinds)
  BY ArtifactIs
<1>3. publisher \in [Publishers -> [pc : {"ready", "publish", "put", "drop", "again"},
                                    event : Events \union {NoEvent}, to : Seq(Streams)]]
  <2>1. Publications \subseteq [pc : {"ready", "publish", "put", "drop", "again"},
                                event : Events \union {NoEvent}, to : Seq(Streams)]
    BY DEF Publications
  <2> QED BY <2>1 DEF FeedTyped
<1>4. stream \in [Streams -> [pc : {"closed", "read", "wait", "ended", "gone"},
                              next : Nat \ {0}, ahead : Seq(Events)]]
  BY DEF FeedTyped, Connections
<1>5. received \in [Streams -> Seq([kind : Kinds, text : Seq(Nat)])]
  BY DEF FeedTyped, PieceType
<1> QED BY <1>1, <1>2, <1>3, <1>4, <1>5 DEF TypeOK, FeedTyped

\* FeedIsSound: no queue of a subscriber outgrows its bound, every stream waits for
\* a number, and the numbers of what it reads follow one another.
THEOREM FeedStaysSound == Spec => []FeedIsSound
<1>1. Init => StoreInv /\ FeedTyped
  BY StoreStart, FeedStart
<1>2. (StoreInv /\ FeedTyped) /\ [Next]_vars => (StoreInv /\ FeedTyped)'
  BY StoreStep, FeedStep
<1>3. StoreInv /\ FeedTyped => FeedIsSound
  BY StoreTiles, TypesAre DEF FeedIsSound
<1> QED BY <1>1, <1>2, <1>3, PTL DEF Spec

-----------------------------------------------------------------------------
(* The numbers m, m + 1, ... before n, and what the kind k said of them.   *)

Run(m, n) == [j \in 1..(n - m) |-> m + j - 1]

Said(p, k, n) == TextOf(Tale(SubSeq(p, 1, n - 1)), k)

LEMMA RunIs ==
  ASSUME NEW m \in Nat \ {0}, NEW n \in Nat, m <= n
  PROVE  Run(m, n) \in Words /\ Len(Run(m, n)) = n - m
<1>1. PICK d \in Nat : d = n - m
  OBVIOUS
<1>2. \A j \in 1..d : m + j - 1 \in Nat
  OBVIOUS
<1>3. PICK r : r = [j \in 1..d |-> m + j - 1]
  OBVIOUS
<1>4. r \in [1..d -> Nat]
  BY <1>2, <1>3
<1>5. r \in Seq(Nat) /\ Len(r) = d
  BY <1>4
<1>6. Run(m, n) = r
  BY <1>1, <1>3 DEF Run
<1> QED BY <1>1, <1>5, <1>6 DEF Words

LEMMA RunsStart ==
  /\ \A n \in Nat \ {0} : Run(n, n) = Empty
  /\ \A n \in Nat \ {0}, m \in Nat : m = n + 1 => Run(n, m) = <<n>>
<1>1. ASSUME NEW n \in Nat \ {0} PROVE Run(n, n) = Empty
  <2>1. 1..(n - n) = {}
    OBVIOUS
  <2>2. Run(n, n) \in Words /\ Len(Run(n, n)) = 0
    BY RunIs
  <2> QED BY <2>2 DEF Words, Empty
<1>2. ASSUME NEW n \in Nat \ {0}, NEW m \in Nat, m = n + 1 PROVE Run(n, m) = <<n>>
  <2>1. PICK r : r = Run(n, m)
    OBVIOUS
  <2>2. m - n = 1 /\ n <= m
    BY <1>2
  <2>3. r \in Seq(Nat) /\ Len(r) = 1
    BY <2>1, <2>2, RunIs DEF Words
  <2>4. r[1] = n
    BY <2>1, <2>2 DEF Run
  <2> QED BY <2>1, <2>3, <2>4
<1> QED BY <1>1, <1>2

LEMMA RunsJoin ==
  ASSUME NEW m \in Nat \ {0}, NEW n \in Nat, NEW l \in Nat, m <= n, n <= l
  PROVE  Then(Run(m, n), Run(n, l)) = Run(m, l)
<1>1. n \in Nat \ {0} /\ m <= l
  OBVIOUS
<1>2. PICK a, b, c : a = Run(m, n) /\ b = Run(n, l) /\ c = Run(m, l)
  OBVIOUS
<1>3. PICK x \in Nat, y \in Nat : x = n - m /\ y = l - n /\ l - m = x + y
  OBVIOUS
<1>4. a \in Seq(Nat) /\ b \in Seq(Nat) /\ c \in Seq(Nat) /\ Len(a) = x /\ Len(b) = y /\ Len(c) = x + y
  BY <1>1, <1>2, <1>3, RunIs DEF Words
<1>5. /\ \A j \in 1..x : a[j] = m + j - 1
      /\ \A j \in 1..y : b[j] = n + j - 1
      /\ \A j \in 1..(x + y) : c[j] = m + j - 1
  BY <1>2, <1>3 DEF Run
<1>6. PICK d : d = a \o b
  OBVIOUS
<1>7. d \in Seq(Nat) /\ Len(d) = x + y
  <2>1. d \in Seq(Nat) /\ Len(d) = Len(a) + Len(b)
    BY <1>4, <1>6, ConcatProperties
  <2> QED BY <1>4, <2>1
<1>8. ASSUME NEW j \in 1..(x + y) PROVE d[j] = c[j]
  <2>1. CASE j <= x
    <3>1. j \in 1..x /\ d[j] = a[j]
      BY <1>4, <1>6, <2>1
    <3> QED BY <1>5, <3>1
  <2>2. CASE j > x
    <3>a. j - x \in 1..y
      BY <2>2
    <3>b. d[j] = b[j - x]
      <4>1. \A i \in 1..(Len(a) + Len(b)) : (a \o b)[i] = IF i <= Len(a) THEN a[i] ELSE b[i - Len(a)]
        BY <1>4, ConcatProperties
      <4>2. (a \o b)[j] = IF j <= x THEN a[j] ELSE b[j - x]
        BY <1>4, <4>1
      <4> QED BY <1>6, <2>2, <4>2
    <3>1. j - x \in 1..y /\ d[j] = b[j - x]
      BY <3>a, <3>b
    <3>2. b[j - x] = n + (j - x) - 1
      BY <1>5, <3>1
    <3> QED BY <1>3, <1>5, <3>1, <3>2
  <2> QED BY <2>1, <2>2
<1>9. d = c
  BY <1>4, <1>7, <1>8, SeqEqual
<1> QED BY <1>2, <1>6, <1>9 DEF Then

LEMMA BeginningIs ==
  ASSUME NEW R, NEW p \in Seq(R), NEW n \in 0..Len(p)
  PROVE  /\ SubSeq(p, 1, n) \in Seq(R) /\ Len(SubSeq(p, 1, n)) = n
         /\ \A j \in 1..n : SubSeq(p, 1, n)[j] = p[j]
<1>1. PICK l \in Nat : l = Len(p) /\ DOMAIN p = 1..l /\ \A i \in 1..l : p[i] \in R
  OBVIOUS
<1>2. PICK u : u = SubSeq(p, 1, n)
  OBVIOUS
<1>3. /\ 1 \in Int /\ n \in Int /\ n - 1 + 1 = n /\ \A i \in 1..n : i \in 1..l
      /\ \A i \in 1..n : 1 + i - 1 = i
  BY <1>1
<1>4. \A i \in 1..n : p[i] \in R
  BY <1>1, <1>3
<1>5. /\ u \in Seq(R) /\ Len(u) = IF 1 <= n THEN n - 1 + 1 ELSE 0
      /\ \A i \in 1..(n - 1 + 1) : u[i] = p[1 + i - 1]
  BY <1>2, <1>3, <1>4, SubSeqProperties
<1>6. Len(u) = n
  BY <1>3, <1>5
<1>7. \A i \in 1..n : u[i] = p[i]
  BY <1>3, <1>5
<1> QED BY <1>2, <1>5, <1>6, <1>7

LEMMA SaidWords ==
  ASSUME NEW k, NEW p \in Seq(Kinds), NEW l \in Nat, l = Len(p)
  PROVE  Said(p, k, 1) = Empty /\ \A n \in 1..(l + 1) : Said(p, k, n) \in Words
<1>1. Said(p, k, 1) = Empty
  <2>1. 0 \in 0..Len(p) /\ 1 - 1 = 0
    OBVIOUS
  <2>2. SubSeq(p, 1, 0) = <<>>
    BY <2>1, BeginningIs
  <2> QED BY <2>1, <2>2, TaleMore, ChannelsMore DEF Said
<1>2. ASSUME NEW n \in 1..(l + 1) PROVE Said(p, k, n) \in Words
  <2>1. PICK i \in 0..Len(p) : i = n - 1
    OBVIOUS
  <2>2. Tale(SubSeq(p, 1, i)) \in Histories
    BY BeginningIs, TaleMore
  <2> QED BY <2>1, <2>2, ChannelsMore DEF Said
<1> QED BY <1>1, <1>2

\* One more number.
SaysNext(p, k, n, m) ==
  m = n + 1 => /\ p[n] = k => Said(p, k, m) = Then(Said(p, k, n), <<n>>)
               /\ p[n] # k => Said(p, k, m) = Said(p, k, n)

LEMMA SaidNext ==
  ASSUME NEW k, NEW p \in Seq(Kinds), NEW l \in Nat, l = Len(p), NEW n \in 1..l, NEW m \in Nat
  PROVE  SaysNext(p, k, n, m)
<1> SUFFICES ASSUME m = n + 1
             PROVE  /\ p[n] = k => Said(p, k, m) = Then(Said(p, k, n), <<n>>)
                    /\ p[n] # k => Said(p, k, m) = Said(p, k, n)
  BY DEF SaysNext
<1>1. PICK i \in 0..Len(p) : i = n - 1
  OBVIOUS
<1>2. n \in 0..Len(p) /\ n \in Nat
  OBVIOUS
<1>3. PICK u, v : u = SubSeq(p, 1, i) /\ v = SubSeq(p, 1, n)
  OBVIOUS
<1>4. u \in Seq(Kinds) /\ Len(u) = i /\ \A j \in 1..i : u[j] = p[j]
  BY <1>3, BeginningIs
<1>5. v \in Seq(Kinds) /\ Len(v) = n /\ \A j \in 1..n : v[j] = p[j]
  BY <1>2, <1>3, BeginningIs
<1>6. PICK kind \in Kinds : kind = p[n]
  OBVIOUS
<1>7. PICK w : w = Append(u, kind)
  OBVIOUS
<1>8. w \in Seq(Kinds) /\ Len(w) = n /\ w[n] = kind /\ \A j \in 1..i : w[j] = u[j]
  BY <1>1, <1>4, <1>7, OneMore
<1>9. ASSUME NEW j \in 1..n PROVE v[j] = w[j]
  <2>1. CASE j = n
    BY <1>5, <1>6, <1>8, <2>1
  <2>2. CASE j # n
    <3>1. j \in 1..i
      BY <1>1, <2>2
    <3> QED BY <1>4, <1>5, <1>8, <3>1
  <2> QED BY <2>1, <2>2
<1>10. v = w
  BY <1>5, <1>8, <1>9, SeqEqual
<1>11. n = Len(u) + 1
  BY <1>1, <1>4
<1>12. /\ Event(kind, n) \in Wide /\ Event(kind, n).kind = kind /\ Event(kind, n).text = <<n>>
       /\ Tale(Append(u, kind)) = Plus(Tale(u), Event(kind, n)) /\ Tale(u) \in Histories
  BY <1>2, <1>4, <1>11, TaleMore
<1>13. PICK t \in Histories, e \in Wide : t = Tale(u) /\ e = Event(kind, n)
  BY <1>12
<1>14. e.kind = kind /\ e.text = <<n>> /\ Tale(v) = Plus(t, e)
  BY <1>7, <1>10, <1>12, <1>13
<1>15. Said(p, k, n) = TextOf(t, k)
  BY <1>1, <1>3, <1>13 DEF Said
<1>16. Said(p, k, m) = TextOf(Plus(t, e), k)
  <2>1. m - 1 = n
    OBVIOUS
  <2> QED BY <1>3, <1>14, <2>1 DEF Said
<1>17. CASE kind = k
  <2>1. e.kind = k
    BY <1>14, <1>17
  <2>2. TextOf(Plus(t, e), k) = Then(TextOf(t, k), e.text)
    BY <2>1, ChannelsMore
  <2> QED BY <1>6, <1>14, <1>15, <1>16, <1>17, <2>2
<1>18. CASE kind # k
  <2>1. e.kind # k
    BY <1>14, <1>18
  <2>2. TextOf(Plus(t, e), k) = TextOf(t, k)
    BY <2>1, ChannelsMore
  <2> QED BY <1>6, <1>15, <1>16, <1>18, <2>2
<1> QED BY <1>17, <1>18

\* From m on but before n, p has the kind k, or does not.
AllOf(p, k, m, n) == \A i \in m..(n - 1) : p[i] = k
NoneOf(p, k, m, n) == \A i \in m..(n - 1) : p[i] # k

Says(p, k, m, d, n) ==
  /\ AllOf(p, k, m, n) => Said(p, k, n) = Then(Said(p, k, m), Run(m, n))
  /\ NoneOf(p, k, m, n) => Said(p, k, n) = Said(p, k, m)
  /\ \E x \in Words : Said(p, k, n) = Then(Said(p, k, m), x)
  /\ n = m + d

LEMMA SaidFurther ==
  ASSUME NEW k, NEW p \in Seq(Kinds), NEW l \in Nat, l = Len(p),
         NEW m \in 1..(l + 1), NEW d \in Nat, NEW n \in m..l, NEW h \in Nat, h = n + 1,
         Says(p, k, m, d, n)
  PROVE  Says(p, k, m, d + 1, h)
<1>1. m \in Nat \ {0} /\ n \in Nat \ {0} /\ n \in 1..l /\ n \in 1..(l + 1) /\ m <= n /\ n <= h
  OBVIOUS
<1>2. PICK a, b, c : a = Said(p, k, m) /\ b = Said(p, k, n) /\ c = Said(p, k, h)
  OBVIOUS
<1>3. a \in Words /\ b \in Words
  BY <1>1, <1>2, SaidWords
<1>4. (p[n] = k => c = Then(b, <<n>>)) /\ (p[n] # k => c = b)
  <2>2. /\ p[n] = k => Said(p, k, h) = Then(Said(p, k, n), <<n>>)
        /\ p[n] # k => Said(p, k, h) = Said(p, k, n)
    <3>1. SaysNext(p, k, n, h)
      BY <1>1, SaidNext
    <3> QED BY <3>1 DEF SaysNext
  <2> QED BY <1>2, <2>2
<1>5. Run(m, n) \in Words /\ Run(n, h) = <<n>> /\ Run(n, h) \in Words /\ Empty \in Words
  BY <1>1, RunIs, RunsStart, WordsJoin
<1>6. \A i \in m..(n - 1) : i \in m..(h - 1)
  OBVIOUS
<1>7. n \in m..(h - 1)
  OBVIOUS
<1>8. ASSUME AllOf(p, k, m, h) PROVE c = Then(a, Run(m, h))
  <2>1. AllOf(p, k, m, n) /\ p[n] = k
    BY <1>6, <1>7, <1>8 DEF AllOf
  <2>2. b = Then(a, Run(m, n))
    BY <1>2, <2>1 DEF Says
  <2>3. c = Then(Then(a, Run(m, n)), Run(n, h))
    BY <1>4, <1>5, <2>1, <2>2
  <2>4. Then(Then(a, Run(m, n)), Run(n, h)) = Then(a, Then(Run(m, n), Run(n, h)))
    BY <1>3, <1>5, WordsJoin
  <2>5. Then(Run(m, n), Run(n, h)) = Run(m, h)
    BY <1>1, RunsJoin
  <2> QED BY <2>3, <2>4, <2>5
<1>9. ASSUME NoneOf(p, k, m, h) PROVE c = a
  <2>1. NoneOf(p, k, m, n) /\ p[n] # k
    BY <1>6, <1>7, <1>9 DEF NoneOf
  <2>2. b = a
    BY <1>2, <2>1 DEF Says
  <2> QED BY <1>4, <2>1, <2>2
<1>10. \E x \in Words : c = Then(a, x)
  <2>1. PICK x \in Words : b = Then(a, x)
    BY <1>2 DEF Says
  <2>2. CASE p[n] = k
    <3>a. <<n>> \in Words
      BY <1>5
    <3>1. Then(x, <<n>>) \in Words /\ Then(Then(a, x), <<n>>) = Then(a, Then(x, <<n>>))
      BY <1>3, <3>a, WordsJoin
    <3>2. c = Then(a, Then(x, <<n>>))
      BY <1>4, <2>1, <2>2, <3>1
    <3> QED BY <3>1, <3>2
  <2>3. CASE p[n] # k
    BY <1>4, <2>1, <2>3
  <2> QED BY <2>2, <2>3
<1>11. h = m + (d + 1)
  BY DEF Says
<1> QED BY <1>2, <1>8, <1>9, <1>10, <1>11 DEF Says

LEMMA SaidSame ==
  ASSUME NEW k, NEW p \in Seq(Kinds), NEW l \in Nat, l = Len(p), NEW m \in 1..(l + 1)
  PROVE  Says(p, k, m, 0, m)
<1>1. m \in Nat \ {0}
  OBVIOUS
<1>2. Said(p, k, m) \in Words
  BY SaidWords
<1>3. Run(m, m) = Empty /\ Empty \in Words
  BY <1>1, RunsStart, WordsJoin
<1>4. Then(Said(p, k, m), Empty) = Said(p, k, m)
  BY <1>2, WordsJoin
<1>5. \E x \in Words : Said(p, k, m) = Then(Said(p, k, m), x)
  BY <1>3, <1>4
<1>6. m = m + 0
  BY <1>1
<1> QED BY <1>3, <1>4, <1>5, <1>6 DEF Says

\* What is said of kind k before number n, knowing what is before number m.
Later(p, k, m, n) == /\ AllOf(p, k, m, n) => Said(p, k, n) = Then(Said(p, k, m), Run(m, n))
                     /\ NoneOf(p, k, m, n) => Said(p, k, n) = Said(p, k, m)
                     /\ \E x \in Words : Said(p, k, n) = Then(Said(p, k, m), x)

LEMMA SaidOn ==
  ASSUME NEW k, NEW p \in Seq(Kinds), NEW l \in Nat, l = Len(p), NEW m \in 1..(l + 1), NEW n \in m..(l + 1)
  PROVE  Later(p, k, m, n)
<1>1. PICK T : T = {d \in Nat : \A h \in m..(l + 1) : h = m + d => Says(p, k, m, d, h)}
  OBVIOUS
<1>2. 0 \in T
  <2>1. \A h \in m..(l + 1) : h = m + 0 => h = m
    OBVIOUS
  <2>2. Says(p, k, m, 0, m)
    BY SaidSame
  <2> QED BY <1>1, <2>1, <2>2
<1>3. ASSUME NEW d \in Nat, d \in T PROVE d + 1 \in T
  <2>1. ASSUME NEW h \in m..(l + 1), h = m + (d + 1) PROVE Says(p, k, m, d + 1, h)
    <3>1. PICK i : i = m + d
      OBVIOUS
    <3>2. i \in m..l /\ h \in Nat /\ h = i + 1 /\ i \in m..(l + 1)
      BY <2>1, <3>1
    <3>3. Says(p, k, m, d, i)
      BY <1>1, <1>3, <3>1, <3>2
    <3> QED BY <3>2, <3>3, SaidFurther
  <2>2. d + 1 \in Nat
    OBVIOUS
  <2> QED BY <1>1, <2>1, <2>2
<1>4. Nat \subseteq T
  BY <1>2, <1>3, NumbersFollow
<1>5. n - m \in Nat /\ n = m + (n - m)
  OBVIOUS
<1>6. PICK d \in Nat : n = m + d
  BY <1>5
<1>7. Says(p, k, m, d, n)
  BY <1>1, <1>4, <1>6
<1> QED BY <1>7 DEF Says, Later

\* What was said is not unsaid.
LEMMA SaidStays ==
  ASSUME NEW k, NEW p \in Seq(Kinds), NEW kind \in Kinds, NEW l \in Nat, l = Len(p), NEW n \in 1..(l + 1)
  PROVE  Said(Append(p, kind), k, n) = Said(p, k, n)
<1>1. PICK q : q = Append(p, kind)
  OBVIOUS
<1>2. q \in Seq(Kinds) /\ Len(q) = l + 1 /\ \A i \in 1..l : q[i] = p[i]
  BY <1>1, OneMore
<1>3. PICK m : m = n - 1
  OBVIOUS
<1>4. m \in 0..Len(p) /\ m \in 0..Len(q) /\ m \in Nat /\ \A i \in 1..m : i \in 1..l
  BY <1>2, <1>3
<1>5. PICK u, v : u = SubSeq(p, 1, m) /\ v = SubSeq(q, 1, m)
  OBVIOUS
<1>6. u \in Seq(Kinds) /\ Len(u) = m /\ \A j \in 1..m : u[j] = p[j]
  BY <1>4, <1>5, BeginningIs
<1>7. v \in Seq(Kinds) /\ Len(v) = m /\ \A j \in 1..m : v[j] = q[j]
  BY <1>2, <1>4, <1>5, BeginningIs
<1>8. \A j \in 1..m : u[j] = v[j]
  BY <1>2, <1>4, <1>6, <1>7
<1>9. u = v
  BY <1>6, <1>7, <1>8, SeqEqual
<1> QED BY <1>1, <1>3, <1>5, <1>9 DEF Said

-----------------------------------------------------------------------------
(* Histories that are not collapsed: an event is a run of numbers of its   *)
(* kind.                                                                   *)

TellsUpTo(e, p, h) ==
  /\ e.text = Run(e.first, h) /\ e.last <= Len(p) /\ AllOf(p, e.kind, e.first, h)
  /\ e.kind \notin TextKinds => e.first = e.last

Tells(e, p) == TellsUpTo(e, p, e.last + 1)

Plain(s, p) == s \in Histories /\ TilesFrom(1, s) /\ \A i \in DOMAIN s : Tells(s[i], p)

LEMMA PlainMore ==
  /\ \A p : Plain(Empty, p)
  /\ \A p : \A s \in Histories, e \in Wide :
       Plain(Plus(s, e), p) <=> Plain(s, p) /\ e.first = After(1, s) /\ Tells(e, p)
<1>1. ASSUME NEW p PROVE Plain(Empty, p)
  <2>1. DOMAIN Empty = {} /\ TilesFrom(1, Empty)
    BY NumbersMore DEF Empty
  <2> QED BY <2>1, HistoriesGrow DEF Plain
<1>2. ASSUME NEW p, NEW s \in Histories, NEW e \in Wide
      PROVE  Plain(Plus(s, e), p) <=> Plain(s, p) /\ e.first = After(1, s) /\ Tells(e, p)
  <2>1. PICK u, n : u = Plus(s, e) /\ n = Len(s)
    OBVIOUS
  <2>2. /\ n \in Nat /\ DOMAIN s = 1..n /\ DOMAIN u = 1..(n + 1) /\ u[n + 1] = e
        /\ \A i \in 1..n : u[i] = s[i]
    BY <2>1, OneMore DEF Plus, Histories
  <2>3. n + 1 \in 1..(n + 1) /\ \A i \in 1..(n + 1) : i \in 1..n \/ i = n + 1
    BY <2>2
  <2>4. \A i \in 1..n : i \in 1..(n + 1)
    BY <2>2
  <2>5. (\A i \in DOMAIN u : Tells(u[i], p)) <=> (\A i \in DOMAIN s : Tells(s[i], p)) /\ Tells(e, p)
    BY <2>2, <2>3, <2>4, Zenon
  <2>6. TilesFrom(1, u) <=> TilesFrom(1, s) /\ e.first = After(1, s)
    BY <2>1, FromOne
  <2>7. u \in Histories
    BY <2>1, HistoriesGrow
  <2> QED BY <2>1, <2>5, <2>6, <2>7, Zenon DEF Plain
<1> QED BY <1>1, <1>2, Zenon

\* A range as a run of numbers.
LEMMA RangeIs ==
  ASSUME NEW e \in Wide, NEW l \in Nat
  PROVE  \E m \in Nat \ {0}, h \in Nat : /\ m = e.first /\ h = e.last + 1 /\ m < h /\ m <= h
                                         /\ e.last <= l => h \in m..(l + 1)
<1>1. PICK m \in Nat \ {0}, n \in Nat : m = e.first /\ n = e.last /\ m <= n
  BY WideIs
<1>2. PICK h \in Nat : h = n + 1
  OBVIOUS
<1>3. m < h /\ m <= h /\ (n <= l => h \in m..(l + 1))
  BY <1>1, <1>2
<1> QED BY <1>1, <1>2, <1>3

LEMMA PlainNext ==
  ASSUME NEW p \in Seq(Kinds), NEW l \in Nat, l = Len(p), NEW k, NEW t \in Histories, NEW e \in Wide,
         NEW m \in 1..(l + 1), m = After(1, t), e.first = m, TextOf(t, k) = Said(p, k, m),
         Tells(e, p)
  PROVE  /\ After(1, Plus(t, e)) \in 1..(l + 1)
         /\ TextOf(Plus(t, e), k) = Said(p, k, After(1, Plus(t, e)))
<1>1. PICK h \in Nat : h = e.last + 1 /\ h \in m..(l + 1)
  <2>1. e.last <= l
    BY DEF Tells, TellsUpTo
  <2> QED BY <2>1, RangeIs
<1>2. TellsUpTo(e, p, h)
  BY <1>1 DEF Tells
<1>3. After(1, Plus(t, e)) = h /\ h \in 1..(l + 1)
  BY <1>1, FromOne
<1>4. CASE e.kind = k
  <2>1. TextOf(Plus(t, e), k) = Then(TextOf(t, k), e.text)
    BY <1>4, ChannelsMore
  <2>2. AllOf(p, k, m, h) /\ e.text = Run(m, h)
    BY <1>2, <1>4 DEF TellsUpTo
  <2>3. Said(p, k, h) = Then(Said(p, k, m), Run(m, h))
    <3>1. Later(p, k, m, h)
      BY <1>1, SaidOn
    <3> QED BY <2>2, <3>1 DEF Later
  <2> QED BY <1>3, <2>1, <2>2, <2>3
<1>5. CASE e.kind # k
  <2>1. TextOf(Plus(t, e), k) = TextOf(t, k)
    BY <1>5, ChannelsMore
  <2>2. NoneOf(p, k, m, h)
    BY <1>2, <1>5 DEF TellsUpTo, AllOf, NoneOf
  <2>3. Said(p, k, h) = Said(p, k, m)
    <3>1. Later(p, k, m, h)
      BY <1>1, SaidOn
    <3> QED BY <2>2, <3>1 DEF Later
  <2> QED BY <1>3, <2>1, <2>3
<1> QED BY <1>4, <1>5

LEMMA PlainTells ==
  ASSUME NEW p \in Seq(Kinds), NEW l \in Nat, l = Len(p), NEW k, NEW s, Plain(s, p)
  PROVE  After(1, s) \in 1..(l + 1) /\ TextOf(s, k) = Said(p, k, After(1, s))
<1>1. PICK T : T = {t \in Histories : Plain(t, p) => /\ After(1, t) \in 1..(l + 1)
                                                     /\ TextOf(t, k) = Said(p, k, After(1, t))}
  OBVIOUS
<1>2. Empty \in T
  <2>1. After(1, Empty) = 1 /\ TextOf(Empty, k) = Empty /\ Empty \in Histories
    BY NumbersMore, ChannelsMore, HistoriesGrow
  <2>2. Said(p, k, 1) = Empty /\ 1 \in 1..(l + 1)
    BY SaidWords
  <2> QED BY <1>1, <2>1, <2>2
<1>3. ASSUME NEW t \in Histories, NEW e \in Wide, t \in T PROVE Plus(t, e) \in T
  <2>1. Plus(t, e) \in Histories
    BY HistoriesGrow
  <2>2. ASSUME Plain(Plus(t, e), p)
        PROVE  /\ After(1, Plus(t, e)) \in 1..(l + 1)
               /\ TextOf(Plus(t, e), k) = Said(p, k, After(1, Plus(t, e)))
    <3>1. Plain(t, p) /\ e.first = After(1, t) /\ Tells(e, p)
      BY <2>2, PlainMore
    <3>2. PICK m \in 1..(l + 1) : m = After(1, t) /\ TextOf(t, k) = Said(p, k, m)
      BY <1>1, <1>3, <3>1
    <3> QED BY <3>1, <3>2, PlainNext
  <2> QED BY <1>1, <2>1, <2>2
<1>4. s \in Histories
  BY DEF Plain
<1>5. s \in T
  BY <1>2, <1>3, <1>4, HistoriesFollow
<1> QED BY <1>1, <1>5

LEMMA PlainJoined ==
  ASSUME NEW p, NEW f \in Histories, NEW d \in Wide, NEW e \in Wide, NEW g \in Wide,
         Plain(Plus(f, d), p), Tells(e, p), e.kind \in TextKinds, e.first = d.last + 1,
         g.kind = e.kind, d.kind = e.kind, g.first = d.first, g.last = e.last,
         g.text = Then(d.text, e.text)
  PROVE  Plain(Plus(f, g), p)
<1>1. Plain(f, p) /\ d.first = After(1, f) /\ Tells(d, p)
  BY PlainMore
<1>2. PICK m \in Nat \ {0}, n \in Nat : m = d.first /\ n = d.last + 1 /\ m <= n
  BY RangeIs
<1>3. PICK o \in Nat \ {0}, h \in Nat : o = e.first /\ h = e.last + 1 /\ o <= h
  BY RangeIs
<1>4. o = n
  BY <1>2, <1>3
<1>5. TellsUpTo(d, p, n) /\ TellsUpTo(e, p, h)
  BY <1>1, <1>2, <1>3 DEF Tells
<1>6. d.text = Run(m, n) /\ e.text = Run(n, h) /\ e.last <= Len(p)
  BY <1>2, <1>3, <1>4, <1>5 DEF TellsUpTo
<1>7. g.text = Run(m, h)
  BY <1>2, <1>3, <1>4, <1>6, RunsJoin
<1>8. AllOf(p, g.kind, m, h)
  <2>1. AllOf(p, g.kind, m, n) /\ AllOf(p, g.kind, n, h)
    BY <1>2, <1>3, <1>4, <1>5 DEF TellsUpTo
  <2>2. \A i \in m..(h - 1) : i \in m..(n - 1) \/ i \in n..(h - 1)
    OBVIOUS
  <2> QED BY <2>1, <2>2 DEF AllOf
<1>9. TellsUpTo(g, p, h)
  BY <1>2, <1>6, <1>7, <1>8 DEF TellsUpTo
<1>10. Tells(g, p)
  BY <1>3, <1>9 DEF Tells
<1> QED BY <1>1, <1>10, PlainMore

\* Joining keeps them that way, and makes them no longer.
LEMMA CoalescePlain ==
  ASSUME NEW p, NEW s, Plain(s, p)
  PROVE  Plain(Coalesce(s), p) /\ Len(Coalesce(s)) <= Len(s)
<1>1. PICK T : T = {t \in Histories : Plain(t, p) => /\ Plain(Coalesce(t), p)
                                                     /\ Len(Coalesce(t)) <= Len(t)}
  OBVIOUS
<1>2. /\ Coalesce(Empty) = Empty
      /\ \A t \in Histories, e \in Wide : Coalesce(Plus(t, e)) = AddToChunks(Coalesce(t), e)
  BY CoalesceMore, Zenon DEF Empty, Plus, Histories
<1>3. Empty \in T
  <2>1. Empty \in Histories /\ Len(Empty) <= Len(Empty)
    BY HistoriesGrow, EmptyIs
  <2> QED BY <1>1, <1>2, <2>1, PlainMore
<1>4. ASSUME NEW t \in Histories, NEW e \in Wide, t \in T PROVE Plus(t, e) \in T
  <2>1. PICK u : u = Plus(t, e) /\ u \in Histories
    BY HistoriesGrow
  <2> SUFFICES ASSUME Plain(u, p) PROVE Plain(Coalesce(u), p) /\ Len(Coalesce(u)) <= Len(u)
    BY <1>1, <2>1
  <2>2. Plain(t, p) /\ e.first = After(1, t) /\ Tells(e, p)
    BY <2>1, PlainMore
  <2>3. TilesFrom(1, t)
    BY <2>2 DEF Plain
  <2>4. PICK done \in Histories : /\ done = Coalesce(t) /\ Plain(done, p) /\ Len(done) <= Len(t)
                                  /\ After(1, done) = After(1, t)
    <3>1. Retells(Coalesce(t), t)
      BY <2>3, CoalesceRetells
    <3> QED BY <1>1, <1>4, <2>2, <3>1 DEF Retells
  <2>5. Coalesce(u) = AddToChunks(done, e)
    BY <1>2, <2>1, <2>4
  <2>6. Len(u) = Len(t) + 1 /\ Len(t) \in Nat /\ Len(done) \in Nat
    BY <2>1, EmptyIs
  <2>7. CASE AddToChunks(done, e) = Plus(done, e)
    <3>1. Plain(Plus(done, e), p)
      BY <2>2, <2>4, PlainMore
    <3>2. Len(Plus(done, e)) = Len(done) + 1
      BY EmptyIs
    <3> QED BY <2>4, <2>5, <2>6, <2>7, <3>1, <3>2
  <2>8. ASSUME NEW f \in Histories, NEW d \in Wide, NEW g \in Wide,
               done = Plus(f, d), AddToChunks(done, e) = Plus(f, g),
               e.kind \in TextKinds, e.first = d.last + 1,
               g.kind = e.kind, d.kind = e.kind, g.first = d.first, g.last = e.last,
               g.text = Then(d.text, e.text)
        PROVE  Plain(Coalesce(u), p) /\ Len(Coalesce(u)) <= Len(u)
    <3>1. Plain(Plus(f, d), p)
      BY <2>4, <2>8
    <3>2. Plain(Plus(f, g), p)
      BY <2>2, <2>8, <3>1, PlainJoined
    <3>3. Len(Plus(f, g)) = Len(f) + 1 /\ Len(Plus(f, d)) = Len(f) + 1 /\ Len(f) \in Nat
      BY EmptyIs
    <3> QED BY <2>4, <2>5, <2>6, <2>8, <3>2, <3>3
  <2> QED BY <2>7, <2>8, ChunkIs
<1>5. s \in Histories
  BY DEF Plain
<1>6. s \in T
  BY <1>3, <1>4, <1>5, HistoriesFollow
<1> QED BY <1>1, <1>6

\* They stay that way when more is produced.
LEMMA TellsStill ==
  ASSUME NEW p \in Seq(Kinds), NEW kind \in Kinds, NEW e \in Wide, Tells(e, p)
  PROVE  Tells(e, Append(p, kind))
<1>1. PICK q, l : q = Append(p, kind) /\ l = Len(p)
  OBVIOUS
<1>2. l \in Nat /\ Len(q) = l + 1 /\ \A i \in 1..l : q[i] = p[i]
  BY <1>1, OneMore
<1>3. PICK m \in Nat \ {0}, h \in Nat : m = e.first /\ h = e.last + 1
  BY RangeIs
<1>4. TellsUpTo(e, p, h)
  BY <1>3 DEF Tells
<1>5. e.last <= l /\ e.last \in Nat
  BY <1>1, <1>4, WideIs DEF TellsUpTo
<1>6. \A i \in m..(h - 1) : i \in 1..l
  BY <1>2, <1>3, <1>5
<1>7. AllOf(q, e.kind, m, h)
  BY <1>2, <1>3, <1>4, <1>6 DEF TellsUpTo, AllOf
<1>8. e.last <= Len(q)
  BY <1>2, <1>5
<1>9. TellsUpTo(e, q, h)
  BY <1>3, <1>4, <1>7, <1>8 DEF TellsUpTo
<1> QED BY <1>1, <1>3, <1>9 DEF Tells

LEMMA PlainStill ==
  ASSUME NEW p \in Seq(Kinds), NEW kind \in Kinds, NEW s, Plain(s, p)
  PROVE  Plain(s, Append(p, kind))
<1>1. \A i \in DOMAIN s : s[i] \in Wide
  BY DEF Plain, Histories
<1> QED BY <1>1, TellsStill DEF Plain

LEMMA PlainBeginning ==
  ASSUME NEW p, NEW s, Plain(s, p), NEW i \in 0..Len(s)
  PROVE  /\ Plain(SubSeq(s, 1, i), p)
         /\ After(1, SubSeq(s, 1, i)) = IF i = 0 THEN 1 ELSE s[i].last + 1
<1>1. s \in Histories /\ TilesFrom(1, s)
  BY DEF Plain
<1>2. PICK a \in Histories, b \in Histories :
        a = SubSeq(s, 1, i) /\ b = SubSeq(s, i + 1, Len(s)) /\ Then(a, b) = s
  BY <1>1, CutInTwo
<1>3. TilesFrom(1, a)
  <2>1. 1 \in Nat
    OBVIOUS
  <2>2. TilesFrom(1, Then(a, b))
    BY <1>1, <1>2
  <2> QED BY <2>1, <2>2, NumbersConcat
<1>4. Len(a) = i /\ \A j \in 1..i : a[j] = s[j]
  BY <1>1, <1>2, BeginningIs DEF Histories
<1>5. DOMAIN a = 1..i /\ \A j \in 1..i : j \in DOMAIN s
  BY <1>1, <1>2, <1>4 DEF Histories
<1>6. \A j \in DOMAIN a : Tells(a[j], p)
  BY <1>4, <1>5 DEF Plain
<1>7. After(1, a) = IF i = 0 THEN 1 ELSE s[i].last + 1
  <2>1. CASE i = 0
    <3>1. a = <<>>
      BY <1>2, <1>4, <2>1, EmptyIs DEF Empty
    <3> QED BY <2>1, <3>1 DEF After
  <2>2. CASE i # 0
    <3>1. a # <<>> /\ i \in 1..i
      BY <1>4, <2>2
    <3>2. Last(a) = s[i]
      BY <1>4, <3>1 DEF Last
    <3> QED BY <2>2, <3>1, <3>2 DEF After
  <2> QED BY <2>1, <2>2
<1> QED BY <1>2, <1>3, <1>6, <1>7 DEF Plain

-----------------------------------------------------------------------------
(* As long as nothing has to be collapsed the artifact is plain.           *)

LEMMA WritePlain ==
  ASSUME EventBound <= MaxEvents, NEW p \in Seq(Kinds), Len(p) <= EventBound,
         NEW x, Plain(x, p), Len(x) <= Len(p), NEW c, c = After(1, x)
  PROVE  /\ Renumber(x) = x /\ Synced(c, x) = c
         /\ Plain(Compact(x), p) /\ Len(Compact(x)) <= Len(p) /\ After(1, Compact(x)) = c
         /\ Renumber(Compact(x)) = Compact(x)
<1>1. x \in Histories /\ TilesFrom(1, x)
  BY DEF Plain
<1>2. PICK s : s = Coalesce(x)
  OBVIOUS
<1>3. Plain(s, p) /\ Len(s) <= Len(x) /\ Retells(s, x)
  BY <1>1, <1>2, CoalescePlain, CoalesceRetells
<1>4. s \in Histories /\ TilesFrom(1, s) /\ After(1, s) = c
  BY <1>3 DEF Plain, Retells
<1>5. Len(s) \in Nat /\ Len(x) \in Nat /\ Len(p) \in Nat /\ EventBound \in Nat /\ MaxEvents \in Nat
  BY <1>1, <1>4, EmptyIs, EventsAssumption, StreamAssumption
<1>6. Len(s) <= Len(p) /\ Len(s) <= MaxEvents
  BY <1>3, <1>5
<1>7. Compact(x) = s
  BY <1>2, <1>6 DEF Compact, Fits
<1>8. c \in Nat /\ NextNumber(x) = c
  BY <1>1, NumbersMore DEF After, NextNumber
<1>9. Synced(c, x) = c
  BY <1>8 DEF Synced
<1> QED BY <1>1, <1>3, <1>4, <1>6, <1>7, <1>9, RenumberTiles

PlainStore ==
  /\ Plain(stored, produced) /\ Plain(Artifact, produced) /\ buffered \in Histories
  /\ Len(Artifact) <= Len(produced) /\ Len(produced) <= EventBound
  /\ After(1, Artifact) = counter /\ counter = Len(produced) + 1 /\ produced \in Seq(Kinds)

\* The next event is plain, too, and is written as it was made.
LEMMA FreshPlain ==
  ASSUME PlainStore, NEW kind \in Kinds
  PROVE  /\ Plain(Plus(Artifact, Fresh(kind)), Append(produced, kind))
         /\ Len(Plus(Artifact, Fresh(kind))) <= Len(Append(produced, kind))
         /\ After(1, Plus(Artifact, Fresh(kind))) = counter + 1
         /\ Fresh(kind) \in Wide /\ Fresh(kind).first = Fresh(kind).last
         /\ Tells(Fresh(kind), Append(produced, kind))
         /\ counter + 1 = Len(Append(produced, kind)) + 1
<1>1. PICK a, p, c, e, q : /\ a = Artifact /\ p = produced /\ c = counter /\ e = Fresh(kind)
                           /\ q = Append(produced, kind)
  OBVIOUS
<1>2. /\ a \in Histories /\ p \in Seq(Kinds) /\ Plain(a, p) /\ Len(a) <= Len(p) /\ c = After(1, a)
      /\ c = Len(p) + 1
  BY <1>1 DEF PlainStore, Plain
<1>3. PICK l \in Nat : l = Len(p)
  BY <1>2
<1>4. c \in Nat \ {0} /\ c = l + 1 /\ c \in Nat
  BY <1>2, <1>3
<1>5. e \in Wide /\ e.kind = kind /\ e.first = c /\ e.last = c /\ e.text = <<c>>
  BY <1>1, <1>3, <1>4, FreshIs DEF PlainStore
<1>6. q \in Seq(Kinds) /\ Len(q) = c /\ q[c] = kind
  BY <1>1, <1>2, <1>3, <1>4, OneMore
<1>7. PICK h \in Nat : h = c + 1
  BY <1>4
<1>8. Tells(e, q)
  <2>1. Run(c, h) = <<c>>
    BY <1>4, <1>7, RunsStart
  <2>2. \A i \in c..(h - 1) : i = c
    BY <1>4, <1>7
  <2>3. AllOf(q, kind, c, h)
    BY <1>6, <2>2 DEF AllOf
  <2>4. c <= c
    BY <1>4
  <2>5. TellsUpTo(e, q, h)
    BY <1>5, <1>6, <2>1, <2>3, <2>4 DEF TellsUpTo
  <2> QED BY <1>5, <1>7, <2>5 DEF Tells
<1>9. Plain(a, q)
  BY <1>1, <1>2, PlainStill
<1>10. Plain(Plus(a, e), q)
  BY <1>2, <1>5, <1>8, <1>9, PlainMore
<1>11. Len(Plus(a, e)) = Len(a) + 1 /\ Len(a) \in Nat
  BY <1>2, <1>5, EmptyIs
<1>12. Len(Plus(a, e)) <= Len(q)
  BY <1>2, <1>3, <1>4, <1>6, <1>11
<1>13. After(1, Plus(a, e)) = c + 1
  BY <1>2, <1>5, FromOne
<1> QED BY <1>1, <1>5, <1>6, <1>8, <1>10, <1>12, <1>13

LEMMA ArtifactPlain ==
  ASSUME PlainStore
  PROVE  /\ Renumber(stored) = stored /\ Artifact = Then(stored, buffered)
         /\ Synced(counter, Renumber(stored)) = counter
<1>1. stored \in Histories /\ TilesFrom(1, stored)
  BY DEF PlainStore, Plain
<1>2. Renumber(stored) = stored
  BY <1>1, RenumberTiles
<1>3. PICK n \in Nat, l \in Nat : n = After(1, stored) /\ l = Len(produced)
  BY <1>1, NumbersMore DEF PlainStore
<1>4. n \in 1..(l + 1)
  BY <1>3, PlainTells DEF PlainStore
<1>5. counter = l + 1 /\ NextNumber(stored) = n
  BY <1>3 DEF PlainStore, After, NextNumber
<1>6. Synced(counter, stored) = counter
  BY <1>4, <1>5 DEF Synced
<1> QED BY <1>2, <1>6 DEF Artifact, Then

\* What was written is plain.
LEMMA WrittenPlain ==
  ASSUME NEW s, stored' = s, buffered' = <<>>, Plain(s, produced'), Renumber(s) = s,
         Len(s) <= Len(produced'), Len(produced') <= EventBound, produced' \in Seq(Kinds),
         After(1, s) = counter', counter' = Len(produced') + 1
  PROVE  PlainStore'
<1>1. s \in Histories /\ Empty \in Histories
  BY HistoriesGrow DEF Plain
<1>2. Then(s, Empty) = s
  BY <1>1, HistoriesGrow
<1>3. Artifact' = s
  BY <1>2 DEF Artifact, Then, Empty
<1> QED BY <1>1, <1>3 DEF PlainStore, Empty

\* One more event is within the bound.
LEMMA OneMoreProduced ==
  ASSUME PlainStore, NEW kind \in Kinds, Len(produced) < EventBound
  PROVE  /\ Append(produced, kind) \in Seq(Kinds) /\ Len(Append(produced, kind)) <= EventBound
<1>1. PICK l \in Nat : l = Len(produced)
  BY DEF PlainStore
<1>2. Append(produced, kind) \in Seq(Kinds) /\ Len(Append(produced, kind)) = l + 1
  BY <1>1, OneMore DEF PlainStore
<1> QED BY <1>1, <1>2, StreamAssumption

LEMMA BuffersPlain ==
  ASSUME PlainStore, NEW kind \in Kinds, Len(produced) < EventBound,
         produced' = Append(produced, kind), buffered' = Append(buffered, Fresh(kind)),
         counter' = counter + 1, stored' = stored
  PROVE  PlainStore'
<1>1. PICK e, a, q : e = Fresh(kind) /\ a = Plus(Artifact, e) /\ q = Append(produced, kind)
  OBVIOUS
<1>2. /\ Plain(a, q) /\ Len(a) <= Len(q) /\ After(1, a) = counter + 1 /\ e \in Wide
      /\ counter + 1 = Len(q) + 1
  BY <1>1, FreshPlain
<1>3. PICK r \in Histories, b \in Histories : r = stored /\ b = buffered
  BY DEF PlainStore, Plain
<1>4. r \in Histories /\ Renumber(r) = r /\ Artifact = Then(r, b) /\ Plain(r, produced)
  BY <1>3, ArtifactPlain DEF PlainStore, Plain
<1>5. Then(r, Plus(b, e)) = Plus(Then(r, b), e) /\ Plus(b, e) \in Histories
  BY <1>2, <1>3, <1>4, HistoriesGrow
<1>6. stored' = r /\ buffered' = Plus(b, e)
  BY <1>1, <1>3 DEF Plus
<1>7. Artifact' = a
  BY <1>1, <1>4, <1>5, <1>6 DEF Artifact, Then
<1>8. Plain(r, q)
  BY <1>1, <1>4, PlainStill DEF PlainStore
<1>9. q \in Seq(Kinds) /\ Len(q) <= EventBound
  BY <1>1, OneMoreProduced
<1>10. produced' = q /\ counter' = counter + 1
  BY <1>1
<1> QED BY <1>2, <1>5, <1>6, <1>7, <1>8, <1>9, <1>10 DEF PlainStore

LEMMA WritesMorePlain ==
  ASSUME EventBound <= MaxEvents, PlainStore, NEW kind \in Kinds, Len(produced) < EventBound,
         produced' = Append(produced, kind), Write(<<Fresh(kind)>>)
  PROVE  PlainStore' /\ Written(kind) = Fresh(kind)
<1>1. PICK e, a, q, d : /\ e = Fresh(kind) /\ a = Artifact /\ q = Append(produced, kind)
                        /\ d = counter + 1
  OBVIOUS
<1>2. PICK x : x = Plus(a, e)
  OBVIOUS
<1>3. /\ Plain(x, q) /\ Len(x) <= Len(q) /\ After(1, x) = d /\ e \in Wide /\ d = Len(q) + 1
  BY <1>1, <1>2, FreshPlain
<1>4. q \in Seq(Kinds) /\ Len(q) <= EventBound
  BY <1>1, OneMoreProduced
<1>5. PICK s : s = Compact(x)
  OBVIOUS
<1>6. /\ Renumber(x) = x /\ Synced(d, x) = d /\ Plain(s, q) /\ Len(s) <= Len(q)
      /\ After(1, s) = d /\ Renumber(s) = s
  BY <1>3, <1>4, <1>5, WritePlain
<1>7. a \in Histories
  BY <1>1 DEF PlainStore, Plain
<1>8. a \o <<e>> = x
  <2>1. Then(a, Plus(Empty, e)) = Plus(a, e)
    BY <1>3, <1>7, HistoriesGrow
  <2>2. Plus(Empty, e) = <<e>>
    BY <1>3 DEF Plus, Empty
  <2> QED BY <1>2, <2>1, <2>2 DEF Then
<1>9. Len(<<e>>) = 1
  OBVIOUS
<1>10. stored' = s /\ buffered' = <<>> /\ counter' = d
  BY <1>1, <1>5, <1>6, <1>8, <1>9 DEF Write
<1>11. Written(kind) = e
  <2>1. Last(Append(a, e)) = e
    BY <1>3, <1>7, OneMore DEF Histories, Last
  <2>2. Last(x) = e
    BY <1>2, <2>1 DEF Plus
  <2> QED BY <1>1, <1>6, <1>8, <2>2 DEF Written
<1>12. produced' = q
  BY <1>1
<1> QED BY <1>1, <1>3, <1>4, <1>6, <1>10, <1>11, <1>12, WrittenPlain

LEMMA WritesAgainPlain ==
  ASSUME EventBound <= MaxEvents, PlainStore, produced' = produced, Write(<<>>)
  PROVE  PlainStore'
<1>1. PICK a, p, c, s : a = Artifact /\ p = produced /\ c = counter /\ s = Compact(a)
  OBVIOUS
<1>2. /\ Plain(a, p) /\ Len(a) <= Len(p) /\ Len(p) <= EventBound /\ p \in Seq(Kinds)
      /\ c = After(1, a) /\ c = Len(p) + 1
  BY <1>1 DEF PlainStore
<1>3. /\ Renumber(a) = a /\ Synced(c, a) = c /\ Plain(s, p) /\ Len(s) <= Len(p)
      /\ After(1, s) = c /\ Renumber(s) = s
  BY <1>1, <1>2, WritePlain
<1>4. a \o <<>> = a
  BY <1>2, HistoriesGrow DEF Plain, Then, Empty
<1>5. c + Len(<<>>) = c
  BY <1>2
<1>6. stored' = s /\ buffered' = <<>> /\ counter' = c
  BY <1>1, <1>3, <1>4, <1>5 DEF Write
<1>7. produced' = p
  BY <1>1
<1> QED BY <1>2, <1>3, <1>6, <1>7, WrittenPlain

LEMMA ReadsPlain ==
  ASSUME PlainStore, counter' = Counter, UNCHANGED <<stored, buffered, produced>>
  PROVE  PlainStore'
<1>1. counter' = counter
  BY ArtifactPlain DEF Counter
<1>2. Artifact' = Artifact
  BY DEF Artifact
<1> QED BY <1>1, <1>2 DEF PlainStore

LEMMA PlainStays ==
  ASSUME PlainStore, UNCHANGED store
  PROVE  PlainStore'
<1>1. Artifact' = Artifact
  BY DEF Artifact, store
<1> QED BY <1>1 DEF PlainStore, store

LEMMA PlainStart == Init => PlainStore
<1> SUFFICES ASSUME Init PROVE PlainStore
  OBVIOUS
<1>1. stored = Empty /\ buffered = Empty /\ counter = 1 /\ produced = <<>>
  BY DEF Init, Empty
<1>2. Empty \in Histories /\ Len(Empty) = 0 /\ Len(<<>>) = 0
  BY HistoriesGrow DEF Empty
<1>3. Renumber(Empty) = Empty /\ Then(Empty, Empty) = Empty
  BY <1>2, HistoriesGrow, RenumberMore
<1>4. Artifact = Empty
  BY <1>1, <1>3 DEF Artifact, Then
<1>5. Plain(Empty, produced) /\ After(1, Empty) = 1
  BY PlainMore, NumbersMore
<1>6. <<>> \in Seq(Kinds) /\ 0 <= EventBound /\ 0 <= 0 /\ 1 = 0 + 1
  BY StreamAssumption
<1> QED BY <1>1, <1>2, <1>4, <1>5, <1>6 DEF PlainStore

LEMMA PlainStoreStep ==
  ASSUME EventBound <= MaxEvents, StoreInv, PlainStore, [Next]_vars
  PROVE  PlainStore'
<1>a. "stage" \in Kinds /\ "terminal" \in Kinds /\ TextKinds \subseteq Kinds
  BY DEF Kinds
<1>1. ASSUME NEW kind \in TextKinds, Stream(kind) PROVE PlainStore'
  <2>1. kind \in Kinds /\ Len(produced) < EventBound /\ produced' = Append(produced, kind)
    BY <1>1, <1>a DEF Stream, CanAppend
  <2>2. CASE Write(<<Fresh(kind)>>)
    BY <2>1, <2>2, WritesMorePlain
  <2>3. CASE /\ buffered' = Append(buffered, Fresh(kind))
             /\ counter' = counter + 1
             /\ UNCHANGED stored
    <3>1. stored' = stored
      BY <2>3
    <3> QED BY <2>1, <2>3, <3>1, BuffersPlain
  <2> QED BY <1>1, <2>2, <2>3 DEF Stream
<1>2. ASSUME NEW p \in Publishers, EmitStage(p) PROVE PlainStore'
  BY <1>2, <1>a, WritesMorePlain DEF EmitStage, CanAppend
<1>3. ASSUME NEW p \in Publishers, Finish(p) PROVE PlainStore'
  BY <1>3, <1>a, WritesMorePlain DEF Finish, CanAppend
<1>4. ASSUME NEW p \in Publishers, FinishAgain(p) PROVE PlainStore'
  BY <1>4, WritesAgainPlain DEF FinishAgain
<1>5. CASE Rewrite
  BY <1>5, WritesAgainPlain DEF Rewrite
<1>6. ASSUME NEW s \in Streams, ReadStore(s) PROVE PlainStore'
  BY <1>6, ReadsPlain DEF ReadStore
<1>7. ASSUME NEW p \in Publishers, Publishing(p) PROVE PlainStore'
  BY <1>7, PlainStays DEF Publishing, CopySubscribers, Put, DropOldest, PutAgain
<1>8. ASSUME NEW s \in Streams, Subscribe(s) \/ TakeEvent(s) \/ TimesOut(s) \/ Disconnect(s)
      PROVE  PlainStore'
  BY <1>8, PlainStays DEF Subscribe, TakeEvent, TimesOut, Disconnect
<1>9. CASE UNCHANGED vars
  BY <1>9, PlainStays DEF vars
<1> QED BY <1>1, <1>2, <1>3, <1>4, <1>5, <1>6, <1>7, <1>8, <1>9
        DEF Next, Appending, Following

-----------------------------------------------------------------------------
(* The events under way are among those that were produced.                *)

KnownTo(p) == {e \in Wide : e.first = e.last /\ Tells(e, p)}

LEMMA KnownIs ==
  ASSUME NEW p \in Seq(Kinds), NEW e \in KnownTo(p)
  PROVE  /\ e \in Wide /\ e.kind \in Kinds /\ e.first \in 1..Len(p)
         /\ e.text = Run(e.first, e.first + 1) /\ AllOf(p, e.kind, e.first, e.first + 1)
<1>1. e \in Wide /\ e.first = e.last /\ Tells(e, p)
  BY DEF KnownTo
<1>2. PICK n \in Nat \ {0} : n = e.first /\ n = e.last
  BY <1>1, WideIs
<1>3. TellsUpTo(e, p, n + 1)
  BY <1>1, <1>2 DEF Tells
<1>4. e.text = Run(n, n + 1) /\ n <= Len(p) /\ AllOf(p, e.kind, n, n + 1)
  BY <1>2, <1>3 DEF TellsUpTo
<1>5. n \in 1..Len(p)
  <2>1. Len(p) \in Nat
    OBVIOUS
  <2> QED BY <1>4, <2>1
<1> QED BY <1>1, <1>2, <1>4, <1>5, WideIs

LEMMA KnownStill ==
  ASSUME NEW p \in Seq(Kinds), NEW kind \in Kinds
  PROVE  /\ KnownTo(p) \subseteq KnownTo(Append(p, kind))
         /\ \A q \in Seq(KnownTo(p)) : q \in Seq(KnownTo(Append(p, kind)))
<1>1. KnownTo(p) \subseteq KnownTo(Append(p, kind))
  BY TellsStill DEF KnownTo
<1> QED BY <1>1, SeqMonotonic

\* An event of a plain history that is not text.
LEMMA KnownOutcome ==
  ASSUME NEW p, NEW k, k \notin TextKinds, NEW s, Plain(s, p), Channel(s, k) # Empty
  PROVE  Last(Channel(s, k)) \in KnownTo(p)
<1>1. PICK T : T = {t \in Histories : Plain(t, p) /\ Channel(t, k) # Empty
                                        => Last(Channel(t, k)) \in KnownTo(p)}
  OBVIOUS
<1>2. Empty \in T
  BY <1>1, ChannelsMore, HistoriesGrow
<1>3. ASSUME NEW t \in Histories, NEW e \in Wide, t \in T PROVE Plus(t, e) \in T
  <2>1. PICK u \in Histories : u = Plus(t, e)
    BY HistoriesGrow
  <2>2. ASSUME Plain(u, p), Channel(u, k) # Empty PROVE Last(Channel(u, k)) \in KnownTo(p)
    <3>1. Plain(t, p) /\ Tells(e, p)
      BY <2>1, <2>2, PlainMore
    <3>2. CASE e.kind = k
      <4>1. PICK c \in Histories : c = Channel(t, k)
        BY ChannelsMore
      <4>2. Channel(u, k) = Plus(c, e)
        BY <2>1, <3>2, <4>1, ChannelsMore
      <4>3. Last(Append(c, e)) = e
        BY OneMore DEF Histories, Last
      <4>4. Last(Channel(u, k)) = e
        BY <4>2, <4>3 DEF Plus
      <4>5. PICK h : h = e.last + 1
        OBVIOUS
      <4>6. TellsUpTo(e, p, h)
        BY <3>1, <4>5 DEF Tells
      <4>7. e.first = e.last
        BY <3>2, <4>6 DEF TellsUpTo
      <4> QED BY <3>1, <4>4, <4>7 DEF KnownTo
    <3>3. CASE e.kind # k
      <4>1. Channel(u, k) = Channel(t, k)
        BY <2>1, <3>3, ChannelsMore
      <4> QED BY <1>1, <1>3, <2>2, <3>1, <4>1
    <3> QED BY <3>2, <3>3
  <2> QED BY <1>1, <2>1, <2>2
<1>4. s \in Histories
  BY DEF Plain
<1>5. s \in T
  BY <1>2, <1>3, <1>4, HistoriesFollow
<1> QED BY <1>1, <1>5

ThreadsKnow(K) == \A p \in Publishers : publisher[p].pc # "ready" => publisher[p].event \in K
QueuesKnow(K)  == queue \in [Streams -> Seq(K)]
StreamsKnow(K) == \A s \in Streams : stream[s].ahead \in Seq(K)
AllKnow(K)     == ThreadsKnow(K) /\ QueuesKnow(K) /\ StreamsKnow(K)
EventsKnown    == AllKnow(KnownTo(produced))

\* What one thread, one queue or one stream does.
LEMMA ThreadKnows ==
  ASSUME NEW K, ThreadsKnow(K), PublishersTyped, NEW p \in Publishers, NEW r,
         publisher' = [publisher EXCEPT ![p] = r], r.pc # "ready" => r.event \in K
  PROVE  ThreadsKnow(K)'
<1> SUFFICES ASSUME NEW q \in Publishers, publisher'[q].pc # "ready"
             PROVE  publisher'[q].event \in K
  BY DEF ThreadsKnow
<1>1. CASE q = p
  <2>1. publisher'[q] = r
    BY <1>1 DEF PublishersTyped
  <2> QED BY <2>1
<1>2. CASE q # p
  <2>1. publisher'[q] = publisher[q]
    BY <1>2 DEF PublishersTyped
  <2> QED BY <2>1 DEF ThreadsKnow
<1> QED BY <1>1, <1>2

LEMMA PublishesKnown ==
  ASSUME NEW K, ThreadsKnow(K), PublishersTyped, NEW p \in Publishers, NEW e \in K, Publishes(p, e)
  PROVE  ThreadsKnow(K)'
<1>1. PICK z : z = Silent
  OBVIOUS
<1>2. z \in Publications
  BY <1>1, EventsAre DEF Silent, Publications
<1>3. PICK r : r = [z EXCEPT !.pc = "publish", !.event = e]
  OBVIOUS
<1>4. r.event = e
  BY <1>2, <1>3 DEF Publications
<1>5. publisher' = [publisher EXCEPT ![p] = r]
  BY <1>1, <1>3 DEF Publishes
<1> QED BY <1>4, <1>5, ThreadKnows

LEMMA TurnsKnown ==
  ASSUME NEW K, ThreadsKnow(K), PublishersTyped, NEW p \in Publishers, publisher[p].pc # "ready",
         NEW subs, TurnsTo(p, subs)
  PROVE  ThreadsKnow(K)'
<1>1. PICK o \in Publications : o = publisher[p] /\ o.event \in K
  BY DEF PublishersTyped, ThreadsKnow
<1>2. PICK z : z = Silent
  OBVIOUS
<1>3. z.pc = "ready"
  BY <1>2 DEF Silent
<1>4. PICK w : w = [o EXCEPT !.pc = "put", !.to = subs]
  OBVIOUS
<1>5. w.event = o.event
  BY <1>1, <1>4 DEF Publications
<1>6. PICK r : r = IF subs = <<>> THEN z ELSE w
  OBVIOUS
<1>7. r.pc # "ready" => r.event \in K
  BY <1>1, <1>3, <1>5, <1>6
<1>8. CASE subs = <<>>
  <2>1. publisher' = [publisher EXCEPT ![p] = r]
    BY <1>2, <1>6, <1>8 DEF TurnsTo
  <2> QED BY <1>7, <2>1, ThreadKnows
<1>9. CASE subs # <<>>
  <2>1. publisher' = [publisher EXCEPT ![p] = [publisher[p] EXCEPT !.pc = "put", !.to = subs]]
    BY <1>9 DEF TurnsTo
  <2>2. publisher' = [publisher EXCEPT ![p] = r]
    BY <1>1, <1>4, <1>6, <1>9, <2>1
  <2> QED BY <1>7, <2>2, ThreadKnows
<1> QED BY <1>8, <1>9

LEMMA GoesKnown ==
  ASSUME NEW K, ThreadsKnow(K), PublishersTyped, NEW p \in Publishers, publisher[p].pc # "ready",
         NEW pc, Goes(p, pc)
  PROVE  ThreadsKnow(K)'
<1>1. PICK o \in Publications : o = publisher[p] /\ o.event \in K
  BY DEF PublishersTyped, ThreadsKnow
<1>2. PICK r : r = [o EXCEPT !.pc = pc]
  OBVIOUS
<1>3. r.event = o.event
  BY <1>1, <1>2 DEF Publications
<1>4. publisher' = [publisher EXCEPT ![p] = r]
  BY <1>1, <1>2 DEF Goes
<1> QED BY <1>1, <1>3, <1>4, ThreadKnows

LEMMA EnqueueKnown ==
  ASSUME NEW K, QueuesKnow(K), ThreadsKnow(K), PublishersTyped, NEW p \in Publishers,
         publisher[p].pc \in {"put", "drop", "again"}, Enqueue(p)
  PROVE  QueuesKnow(K)'
<1>1. publisher[p].pc # "ready"
  OBVIOUS
<1>2. PICK t \in Streams, e \in K : t = Target(p) /\ e = publisher[p].event
  BY <1>1, Serving DEF ThreadsKnow
<1>3. PICK q \in Seq(K) : q = queue[t]
  BY <1>2 DEF QueuesKnow
<1>4. Append(q, e) \in Seq(K)
  BY OneMore
<1>5. queue' = [queue EXCEPT ![t] = Append(q, e)]
  BY <1>2, <1>3 DEF Enqueue
<1> QED BY <1>4, <1>5 DEF QueuesKnow

LEMMA TailKnown ==
  ASSUME NEW K, QueuesKnow(K), NEW t \in Streams, queue[t] # <<>>
  PROVE  /\ Head(queue[t]) \in K
         /\ queue' = [queue EXCEPT ![t] = Tail(queue[t])] => QueuesKnow(K)'
<1>1. PICK q \in Seq(K) : q = queue[t] /\ q # <<>>
  BY DEF QueuesKnow
<1>2. Tail(q) \in Seq(K) /\ Head(q) \in K
  BY <1>1
<1> QED BY <1>1, <1>2 DEF QueuesKnow

LEMMA StreamKnows ==
  ASSUME NEW K, StreamsKnow(K), ConnectionsTyped, NEW s \in Streams, NEW r,
         stream' = [stream EXCEPT ![s] = r], r.ahead \in Seq(K)
  PROVE  StreamsKnow(K)'
<1> SUFFICES ASSUME NEW t \in Streams PROVE stream'[t].ahead \in Seq(K)
  BY DEF StreamsKnow
<1>1. CASE t = s
  <2>1. stream'[t] = r
    BY <1>1 DEF ConnectionsTyped
  <2> QED BY <2>1
<1>2. CASE t # s
  <2>1. stream'[t] = stream[t]
    BY <1>2 DEF ConnectionsTyped
  <2> QED BY <2>1 DEF StreamsKnow
<1> QED BY <1>1, <1>2

LEMMA StreamMoves ==
  ASSUME NEW K, StreamsKnow(K), ConnectionsTyped, NEW s \in Streams, NEW pc,
         stream' = [stream EXCEPT ![s].pc = pc]
  PROVE  StreamsKnow(K)'
<1>1. PICK o \in Connections : o = stream[s] /\ o.ahead \in Seq(K)
  BY DEF ConnectionsTyped, StreamsKnow
<1>2. PICK r : r = [o EXCEPT !.pc = pc]
  OBVIOUS
<1>3. r.ahead = o.ahead
  BY <1>1, <1>2 DEF Connections
<1>4. stream' = [stream EXCEPT ![s] = r]
  BY <1>1, <1>2
<1> QED BY <1>1, <1>3, <1>4, StreamKnows

LEMMA GoesOnKnown ==
  ASSUME NEW K, StreamsKnow(K), ConnectionsTyped, NEW s \in Streams, NEW n, NEW over,
         GoesOn(s, n, over)
  PROVE  StreamsKnow(K)'
<1>1. PICK r : r = [pc |-> IF over THEN "ended" ELSE "wait", next |-> n, ahead |-> <<>>]
  OBVIOUS
<1>2. r.ahead = <<>> /\ <<>> \in Seq(K)
  BY <1>1
<1>3. stream' = [stream EXCEPT ![s] = r]
  BY <1>1 DEF GoesOn
<1> QED BY <1>2, <1>3, StreamKnows

LEMMA AppendKnown ==
  ASSUME PlainStore, FeedTyped, EventsKnown, NEW p \in Publishers, NEW kind \in Kinds,
         produced' = Append(produced, kind), Publishes(p, Fresh(kind)),
         UNCHANGED <<hub, stream>>
  PROVE  EventsKnown'
<1>1. PICK K, L : K = KnownTo(produced) /\ L = KnownTo(produced')
  OBVIOUS
<1>2. K \subseteq L /\ \A q \in Seq(K) : q \in Seq(L)
  BY <1>1, KnownStill DEF PlainStore
<1>3. ThreadsKnow(L)
  BY <1>1, <1>2 DEF EventsKnown, AllKnow, ThreadsKnow
<1>4. QueuesKnow(L)
  BY <1>1, <1>2 DEF EventsKnown, AllKnow, QueuesKnow
<1>5. StreamsKnow(L)
  BY <1>1, <1>2 DEF EventsKnown, AllKnow, StreamsKnow
<1>6. PICK e : e = Fresh(kind)
  OBVIOUS
<1>7. e \in L
  BY <1>1, <1>6, FreshPlain DEF KnownTo
<1>8. PublishersTyped /\ Publishes(p, e)
  BY <1>6 DEF FeedTyped, PublishersTyped
<1>9. ThreadsKnow(L)'
  BY <1>3, <1>7, <1>8, PublishesKnown
<1>10. QueuesKnow(L)' /\ StreamsKnow(L)'
  BY <1>4, <1>5 DEF QueuesKnow, StreamsKnow, hub
<1> QED BY <1>1, <1>9, <1>10 DEF EventsKnown, AllKnow, ThreadsKnow, QueuesKnow, StreamsKnow

\* The events of a kind that is always written.
LEMMA WritesKnown ==
  ASSUME EventBound <= MaxEvents, PlainStore, FeedTyped, EventsKnown, NEW p \in Publishers,
         NEW kind \in Kinds, CanAppend(p), produced' = Append(produced, kind),
         Write(<<Fresh(kind)>>), Publishes(p, Written(kind)), UNCHANGED <<hub, stream, received>>
  PROVE  EventsKnown'
<1>1. Written(kind) = Fresh(kind)
  BY WritesMorePlain DEF CanAppend
<1> QED BY <1>1, AppendKnown

LEMMA KnownStays ==
  ASSUME NEW K, AllKnow(K), EventsKnown, K = KnownTo(produced), produced' = produced,
         ThreadsKnow(K)', QueuesKnow(K)', StreamsKnow(K)'
  PROVE  EventsKnown'
<1>1. KnownTo(produced') = K
  OBVIOUS
<1> QED BY <1>1 DEF EventsKnown, AllKnow, ThreadsKnow, QueuesKnow, StreamsKnow

LEMMA KnownStep ==
  ASSUME EventBound <= MaxEvents, StoreInv, PlainStore, FeedTyped, EventsKnown, [Next]_vars
  PROVE  EventsKnown'
<1>a. "stage" \in Kinds /\ "terminal" \in Kinds /\ TextKinds \subseteq Kinds
  BY DEF Kinds
<1>b. PublishersTyped /\ QueuesTyped /\ ConnectionsTyped
  BY DEF FeedTyped, PublishersTyped, QueuesTyped, ConnectionsTyped
<1>c. PICK K : K = KnownTo(produced)
  OBVIOUS
<1>d. AllKnow(K) /\ ThreadsKnow(K) /\ QueuesKnow(K) /\ StreamsKnow(K)
  BY <1>c DEF EventsKnown, AllKnow
<1>e. UNCHANGED publisher => ThreadsKnow(K)'
  BY <1>d DEF ThreadsKnow
<1>f. UNCHANGED queue => QueuesKnow(K)'
  BY <1>d DEF QueuesKnow
<1>g. UNCHANGED stream => StreamsKnow(K)'
  BY <1>d DEF StreamsKnow
<1>1. ASSUME NEW kind \in TextKinds, Stream(kind) PROVE EventsKnown'
  <2>1. /\ kind \in Kinds /\ produced' = Append(produced, kind) /\ Worker \in Publishers
        /\ CanAppend(Worker) /\ UNCHANGED <<hub, stream, received>>
    BY <1>1, <1>a, StreamAssumption DEF Stream
  <2>2. CASE Publishes(Worker, Fresh(kind))
    <3>1. UNCHANGED <<hub, stream>>
      BY <2>1
    <3> QED BY <2>1, <2>2, <3>1, AppendKnown
  <2>3. CASE Write(<<Fresh(kind)>>) /\ Publishes(Worker, Written(kind))
    BY <2>1, <2>3, WritesKnown
  <2> QED BY <1>1, <2>2, <2>3 DEF Stream
<1>2. ASSUME NEW p \in Publishers, EmitStage(p) PROVE EventsKnown'
  BY <1>2, <1>a, WritesKnown DEF EmitStage
<1>3. ASSUME NEW p \in Publishers, Finish(p) PROVE EventsKnown'
  BY <1>3, <1>a, WritesKnown DEF Finish
<1>4. ASSUME NEW p \in Publishers, FinishAgain(p) PROVE EventsKnown'
  <2>1. PICK o : o = Last(Channel(Artifact, "terminal"))
    OBVIOUS
  <2>2. o \in K
    <3>1. Plain(Artifact, produced) /\ "terminal" \notin TextKinds
      BY DEF PlainStore, TextKinds
    <3>2. Channel(Artifact, "terminal") # Empty
      <4>1. PICK a \in Histories : a = Artifact
        BY ArtifactIs
      <4>2. ~(\A i \in DOMAIN a : a[i].kind # "terminal")
        BY <1>4, <4>1 DEF FinishAgain, Has, IsTerminal
      <4> QED BY <4>1, <4>2, NoneOfKind
    <3> QED BY <1>c, <2>1, <3>1, <3>2, KnownOutcome
  <2>3. ThreadsKnow(K)'
    BY <1>4, <1>b, <1>d, <2>1, <2>2, PublishesKnown DEF FinishAgain
  <2>4. produced' = produced /\ UNCHANGED queue /\ UNCHANGED stream
    BY <1>4 DEF FinishAgain, hub
  <2> QED BY <1>c, <1>d, <1>f, <1>g, <2>3, <2>4, KnownStays
<1>5. ASSUME NEW p \in Publishers, CopySubscribers(p) PROVE EventsKnown'
  <2>1. ThreadsKnow(K)'
    BY <1>5, <1>b, <1>d, TurnsKnown DEF CopySubscribers
  <2>2. produced' = produced /\ UNCHANGED queue /\ UNCHANGED stream
    BY <1>5 DEF CopySubscribers, store, hub
  <2> QED BY <1>c, <1>d, <1>f, <1>g, <2>1, <2>2, KnownStays
<1>6. ASSUME NEW p \in Publishers, Put(p) \/ PutAgain(p) PROVE EventsKnown'
  <2>1. publisher[p].pc \in {"put", "drop", "again"} /\ publisher[p].pc # "ready"
    BY <1>6 DEF Put, PutAgain
  <2>2. ThreadsKnow(K)'
    <3>1. CASE Served(p)
      BY <1>b, <1>d, <2>1, <3>1, TurnsKnown DEF Served
    <3>2. CASE Goes(p, "drop")
      BY <1>b, <1>d, <2>1, <3>2, GoesKnown
    <3> QED BY <1>6, <3>1, <3>2 DEF Put, PutAgain
  <2>3. QueuesKnow(K)'
    <3>1. CASE Enqueue(p)
      BY <1>b, <1>d, <2>1, <3>1, EnqueueKnown
    <3> QED BY <1>6, <1>f, <3>1 DEF Put, PutAgain
  <2>4. produced' = produced /\ UNCHANGED stream
    BY <1>6 DEF Put, PutAgain, store
  <2> QED BY <1>c, <1>d, <1>g, <2>2, <2>3, <2>4, KnownStays
<1>7. ASSUME NEW p \in Publishers, DropOldest(p) PROVE EventsKnown'
  <2>1. publisher[p].pc \in {"put", "drop", "again"} /\ publisher[p].pc # "ready"
    BY <1>7 DEF DropOldest
  <2>2. ThreadsKnow(K)'
    BY <1>7, <1>b, <1>d, <2>1, GoesKnown DEF DropOldest
  <2>3. PICK t \in Streams : t = Target(p)
    BY <1>b, <2>1, Serving
  <2>4. QueuesKnow(K)'
    <3>1. CASE queue[t] = <<>>
      <4>1. queue' = [queue EXCEPT ![t] = queue[t]]
        BY <1>7, <2>3, <3>1 DEF DropOldest
      <4>2. queue' = queue
        BY <1>d, <4>1 DEF QueuesKnow
      <4> QED BY <1>f, <4>2
    <3>2. CASE queue[t] # <<>>
      <4>1. queue' = [queue EXCEPT ![t] = Tail(queue[t])]
        BY <1>7, <2>3, <3>2 DEF DropOldest
      <4> QED BY <1>d, <3>2, <4>1, TailKnown
    <3> QED BY <3>1, <3>2
  <2>5. produced' = produced /\ UNCHANGED stream
    BY <1>7 DEF DropOldest, store
  <2> QED BY <1>c, <1>d, <1>g, <2>2, <2>4, <2>5, KnownStays
<1>8. CASE Rewrite
  <2>1. produced' = produced /\ UNCHANGED publisher /\ UNCHANGED queue /\ UNCHANGED stream
    BY <1>8 DEF Rewrite, hub
  <2> QED BY <1>c, <1>d, <1>e, <1>f, <1>g, <2>1, KnownStays
<1>9. ASSUME NEW s \in Streams, Subscribe(s) \/ TimesOut(s) \/ Disconnect(s) PROVE EventsKnown'
  <2>1. produced' = produced /\ UNCHANGED publisher /\ UNCHANGED queue
    BY <1>9 DEF Subscribe, TimesOut, Disconnect, store, hub
  <2>2. PICK pc : stream' = [stream EXCEPT ![s].pc = pc]
    BY <1>9 DEF Subscribe, TimesOut, Disconnect
  <2>3. StreamsKnow(K)'
    BY <1>b, <1>d, <2>2, StreamMoves
  <2> QED BY <1>c, <1>d, <1>e, <1>f, <2>1, <2>3, KnownStays
<1>10. ASSUME NEW s \in Streams, ReadStore(s) PROVE EventsKnown'
  <2>1. produced' = produced /\ UNCHANGED publisher /\ UNCHANGED queue
    BY <1>10 DEF ReadStore
  <2>2. \E n, over : GoesOn(s, n, over)
    BY <1>10 DEF ReadStore
  <2>3. StreamsKnow(K)'
    BY <1>b, <1>d, <2>2, GoesOnKnown
  <2> QED BY <1>c, <1>d, <1>e, <1>f, <2>1, <2>3, KnownStays
<1>11. ASSUME NEW s \in Streams, TakeEvent(s) PROVE EventsKnown'
  <2>1. produced' = produced /\ UNCHANGED publisher /\ queue[s] # <<>>
        /\ queue' = [queue EXCEPT ![s] = Tail(queue[s])]
    BY <1>11, <1>d DEF TakeEvent, store, QueuesKnow
  <2>2. PICK e \in K : e = Head(queue[s])
    BY <1>d, <2>1, TailKnown
  <2>3. QueuesKnow(K)'
    BY <1>d, <2>1, TailKnown
  <2>4. StreamsKnow(K)'
    <3>1. CASE UNCHANGED stream
      BY <1>g, <3>1
    <3>2. CASE GoesOn(s, stream[s].next + 1, IsTerminal(e))
      BY <1>b, <1>d, <3>2, GoesOnKnown
    <3>3. CASE stream' = [stream EXCEPT ![s].pc = "read", ![s].ahead = <<e>>]
      <4>1. PICK o \in Connections : o = stream[s]
        BY <1>b DEF ConnectionsTyped
      <4>2. PICK r : r = [o EXCEPT !.pc = "read", !.ahead = <<e>>]
        OBVIOUS
      <4>3. r.ahead = <<e>> /\ <<e>> \in Seq(K)
        BY <4>1, <4>2 DEF Connections
      <4>4. stream' = [stream EXCEPT ![s] = r]
        BY <3>3, <4>1, <4>2
      <4> QED BY <1>b, <1>d, <4>3, <4>4, StreamKnows
    <3> QED BY <1>11, <2>2, <3>1, <3>2, <3>3 DEF TakeEvent
  <2> QED BY <1>c, <1>d, <1>e, <2>1, <2>3, <2>4, KnownStays
<1>12. CASE UNCHANGED vars
  <2>1. produced' = produced /\ UNCHANGED publisher /\ UNCHANGED queue /\ UNCHANGED stream
    BY <1>12 DEF vars, store, hub
  <2> QED BY <1>c, <1>d, <1>e, <1>f, <1>g, <2>1, KnownStays
<1> QED BY <1>1, <1>2, <1>3, <1>4, <1>5, <1>6, <1>7, <1>8, <1>9, <1>10, <1>11, <1>12
        DEF Next, Appending, Publishing, Following

LEMMA KnownStart == Init => EventsKnown
<1> SUFFICES ASSUME Init PROVE EventsKnown
  OBVIOUS
<1>1. PICK K : K = KnownTo(produced) /\ <<>> \in Seq(K)
  OBVIOUS
<1>2. QueuesKnow(K)
  BY <1>1 DEF Init, QueuesKnow
<1>3. ThreadsKnow(K)
  BY DEF Init, ThreadsKnow, Silent
<1>4. StreamsKnow(K)
  BY <1>1 DEF Init, StreamsKnow, Closed
<1> QED BY <1>1, <1>2, <1>3, <1>4 DEF EventsKnown, AllKnow

-----------------------------------------------------------------------------
(* What a client has received.                                             *)

LEMMA PiecesMore ==
  ASSUME NEW k
  PROVE  /\ Texts(<<>>) = Empty /\ TextOf(<<>>, k) = Empty
         /\ \A r \in Seq(PieceType) : Texts(r) \in Words /\ TextOf(r, k) \in Words
         /\ \A r \in Seq(PieceType), e \in PieceType :
              /\ Texts(Append(r, e)) = Then(Texts(r), e.text)
              /\ e.kind = k => TextOf(Append(r, e), k) = Then(TextOf(r, k), e.text)
              /\ e.kind # k => TextOf(Append(r, e), k) = TextOf(r, k)
<1>1. PICK K : K = {k}
  OBVIOUS
<1>2. \A s : TextOf(s, k) = Texts(OfKinds(s, K))
  BY <1>1 DEF Channel, TextOf
<1>3. PieceType \subseteq Items
  BY DEF PieceType, Items
<1>4. \A s \in Seq(PieceType) : s \in Seq(Items)
  BY <1>3, SeqMonotonic
<1>5. /\ OfKinds(<<>>, K) = <<>>
      /\ \A s \in Seq(PieceType) : OfKinds(s, K) \in Seq(PieceType)
      /\ \A s \in Seq(PieceType), e \in PieceType : OfKinds(Append(s, e), K) =
           IF e.kind \in K THEN Append(OfKinds(s, K), e) ELSE OfKinds(s, K)
  BY OfKindsMore
<1>6. \A r \in Seq(PieceType) : Texts(r) \in Seq(Nat)
  BY <1>4, TextsMore
<1>7. \A r \in Seq(PieceType), e \in PieceType : Texts(Append(r, e)) = Texts(r) \o e.text
  BY <1>3, <1>4, TextsMore
<1>8. ASSUME NEW r \in Seq(PieceType), NEW e \in PieceType
      PROVE  /\ e.kind = k => TextOf(Append(r, e), k) = TextOf(r, k) \o e.text
             /\ e.kind # k => TextOf(Append(r, e), k) = TextOf(r, k)
  <2>1. e.kind = k <=> e.kind \in K
    BY <1>1
  <2>2. e.kind = k => OfKinds(Append(r, e), K) = Append(OfKinds(r, K), e)
    BY <1>5, <2>1
  <2>3. e.kind # k => OfKinds(Append(r, e), K) = OfKinds(r, K)
    BY <1>5, <2>1
  <2>4. PICK o \in Seq(PieceType) : o = OfKinds(r, K)
    BY <1>5
  <2>5. Texts(Append(o, e)) = Texts(o) \o e.text
    BY <1>7
  <2>6. TextOf(r, k) = Texts(o)
    BY <1>2, <2>4
  <2>7. TextOf(Append(r, e), k) = Texts(OfKinds(Append(r, e), K))
    BY <1>2
  <2> QED BY <2>2, <2>3, <2>4, <2>5, <2>6, <2>7
<1>9. Texts(<<>>) = <<>> /\ TextOf(<<>>, k) = <<>>
  BY <1>2, <1>5, TextsMore
<1>10. \A r \in Seq(PieceType) : TextOf(r, k) \in Seq(Nat)
  BY <1>2, <1>5, <1>6
<1> QED BY <1>6, <1>7, <1>8, <1>9, <1>10, Zenon DEF Words, Then, Empty

Over(p, n) == \E m \in 1..(n - 1) : p[m] = "terminal"

\* A client that waits for number n got what was produced before it, in order and
\* once, by channel as well.
Follows(r, p, n) ==
  /\ r \in Seq(PieceType) /\ n \in 1..(Len(p) + 1)
  /\ Texts(r) = Run(1, n)
  /\ \A k \in TextKinds : TextOf(r, k) = Said(p, k, n)
  /\ Has(r, IsTerminal) => Over(p, n)

LEMMA FollowsMore ==
  ASSUME NEW p \in Seq(Kinds), NEW l \in Nat, l = Len(p), NEW m \in 1..(l + 1), NEW n \in m..(l + 1),
         m < n, NEW kind \in Kinds, NEW r, Follows(r, p, m), AllOf(p, kind, m, n)
  PROVE  Follows(Append(r, Piece(kind, Run(m, n))), p, n)
<1>1. m \in Nat \ {0} /\ n \in Nat /\ m <= n /\ n \in 1..(l + 1) /\ 1 <= m
  OBVIOUS
<1>2. PICK x : x = Run(m, n) /\ x \in Words
  BY <1>1, RunIs
<1>3. PICK e : e = Piece(kind, x)
  OBVIOUS
<1>4. e \in PieceType /\ e.kind = kind /\ e.text = x
  BY <1>2, <1>3, PieceTyped DEF Piece
<1>5. r \in Seq(PieceType)
  BY DEF Follows
<1>6. PICK q : q = Append(r, e)
  OBVIOUS
<1>7. q \in Seq(PieceType) /\ DOMAIN q = 1..(Len(r) + 1) /\ DOMAIN r = 1..Len(r)
      /\ q[Len(r) + 1] = e /\ Len(r) \in Nat /\ \A i \in 1..Len(r) : q[i] = r[i]
  BY <1>4, <1>5, <1>6, OneMore
<1>8. Texts(q) = Run(1, n)
  <2>1. Texts(q) = Then(Texts(r), x)
    BY <1>4, <1>5, <1>6, PiecesMore
  <2>2. Texts(r) = Run(1, m)
    BY DEF Follows
  <2>3. 1 \in Nat \ {0} /\ m \in Nat
    BY <1>1
  <2> QED BY <1>1, <1>2, <2>1, <2>2, <2>3, RunsJoin
<1>9. ASSUME NEW k \in TextKinds PROVE TextOf(q, k) = Said(p, k, n)
  <2>1. TextOf(r, k) = Said(p, k, m)
    BY DEF Follows
  <2>2. CASE k = kind
    <3>1. TextOf(q, k) = Then(TextOf(r, k), x)
      BY <1>4, <1>5, <1>6, <2>2, PiecesMore
    <3>2. Said(p, k, n) = Then(Said(p, k, m), x)
      <4>1. Later(p, k, m, n)
        BY SaidOn
      <4> QED BY <1>2, <2>2, <4>1 DEF Later
    <3> QED BY <2>1, <3>1, <3>2
  <2>3. CASE k # kind
    <3>1. TextOf(q, k) = TextOf(r, k)
      BY <1>4, <1>5, <1>6, <2>3, PiecesMore
    <3>2. NoneOf(p, k, m, n)
      BY <2>3 DEF AllOf, NoneOf
    <3>3. Said(p, k, n) = Said(p, k, m)
      <4>1. Later(p, k, m, n)
        BY SaidOn
      <4> QED BY <3>2, <4>1 DEF Later
    <3> QED BY <2>1, <3>1, <3>3
  <2> QED BY <2>2, <2>3
<1>10. ASSUME Has(q, IsTerminal) PROVE Over(p, n)
  <2>1. PICK i \in DOMAIN q : q[i].kind = "terminal"
    BY <1>10 DEF Has, IsTerminal
  <2>2. CASE i \in 1..Len(r)
    <3>1. Has(r, IsTerminal)
      BY <1>7, <2>1, <2>2 DEF Has, IsTerminal
    <3>2. PICK j \in 1..(m - 1) : p[j] = "terminal"
      BY <3>1 DEF Follows, Over
    <3>3. j \in 1..(n - 1)
      OBVIOUS
    <3> QED BY <3>2, <3>3 DEF Over
  <2>3. CASE i \notin 1..Len(r)
    <3>1. i = Len(r) + 1
      BY <1>7, <2>3
    <3>2. kind = "terminal"
      BY <1>4, <1>7, <2>1, <3>1
    <3>3. m \in m..(n - 1) /\ m \in 1..(n - 1)
      OBVIOUS
    <3>4. p[m] = "terminal"
      BY <3>2, <3>3 DEF AllOf
    <3> QED BY <3>3, <3>4 DEF Over
  <2> QED BY <2>2, <2>3
<1> QED BY <1>1, <1>2, <1>3, <1>6, <1>7, <1>8, <1>9, <1>10 DEF Follows

LEMMA FollowsStill ==
  ASSUME NEW p \in Seq(Kinds), NEW kind \in Kinds, NEW r, NEW n, Follows(r, p, n)
  PROVE  Follows(r, Append(p, kind), n)
<1>1. PICK l \in Nat : l = Len(p)
  OBVIOUS
<1>2. PICK q : q = Append(p, kind)
  OBVIOUS
<1>3. q \in Seq(Kinds) /\ Len(q) = l + 1 /\ \A i \in 1..l : q[i] = p[i]
  BY <1>1, <1>2, OneMore
<1>4. n \in 1..(l + 1) /\ n \in 1..((l + 1) + 1)
  BY <1>1 DEF Follows
<1>5. \A k : Said(q, k, n) = Said(p, k, n)
  BY <1>1, <1>2, <1>4, SaidStays
<1>6. Over(p, n) => Over(q, n)
  <2>1. \A m \in 1..(n - 1) : m \in 1..l
    BY <1>4
  <2> QED BY <1>3, <2>1 DEF Over
<1>7. n \in 1..(Len(q) + 1)
  BY <1>3, <1>4
<1> QED BY <1>2, <1>5, <1>6, <1>7 DEF Follows

LEMMA NothingFollowed ==
  ASSUME NEW p \in Seq(Kinds)
  PROVE  Follows(<<>>, p, 1)
<1>1. PICK l \in Nat : l = Len(p)
  OBVIOUS
<1>2. 1 \in Nat \ {0} /\ 1 \in 1..(l + 1)
  OBVIOUS
<1>3. Run(1, 1) = Empty
  BY <1>2, RunsStart
<1>4. \A k : Texts(<<>>) = Empty /\ TextOf(<<>>, k) = Empty
  BY PiecesMore
<1>5. \A k : Said(p, k, 1) = Empty
  BY <1>1, SaidWords
<1>6. ~Has(<<>>, IsTerminal) /\ <<>> \in Seq(PieceType)
  BY DEF Has
<1> QED BY <1>1, <1>2, <1>3, <1>4, <1>5, <1>6 DEF Follows

-----------------------------------------------------------------------------
(* What a stream has unseen of a plain artifact.                           *)

LEMMA JoinedText ==
  ASSUME NEW a \in Words, NEW b \in Words
  PROVE  IsPrefix(a, Then(a, b)) /\ SubSeq(Then(a, b), Len(a) + 1, Len(Then(a, b))) = b
<1>1. PICK c, m, n : c = a \o b /\ m = Len(a) /\ n = Len(b)
  OBVIOUS
<1>2. a \in Seq(Nat) /\ b \in Seq(Nat) /\ c \in Seq(Nat) /\ m \in Nat /\ n \in Nat /\ Len(c) = m + n
  <2>1. a \in Seq(Nat) /\ b \in Seq(Nat)
    BY DEF Words
  <2>2. c \in Seq(Nat) /\ Len(c) = Len(a) + Len(b)
    BY <1>1, <2>1, ConcatProperties
  <2> QED BY <1>1, <2>1, <2>2
<1>3. /\ \A i \in 1..m : c[i] = a[i] /\ a[i] \in Nat
      /\ \A i \in 1..n : c[m + i] = b[i] /\ b[i] \in Nat
  <2>1. \A i \in 1..(Len(a) + Len(b)) : (a \o b)[i] = IF i <= Len(a) THEN a[i] ELSE b[i - Len(a)]
    BY <1>2, ConcatProperties
  <2>2. \A i \in 1..(m + n) : c[i] = IF i <= m THEN a[i] ELSE b[i - m]
    BY <1>1, <2>1
  <2>3. \A i \in 1..m : i \in 1..(m + n) /\ i <= m
    BY <1>2
  <2>4. \A i \in 1..n : m + i \in 1..(m + n) /\ ~(m + i <= m) /\ (m + i) - m = i
    BY <1>2
  <2>5. (\A i \in 1..m : a[i] \in Nat) /\ \A i \in 1..n : b[i] \in Nat
    BY <1>1, <1>2
  <2>6. \A i \in 1..m : c[i] = a[i]
    BY <2>2, <2>3
  <2>7. ASSUME NEW i \in 1..n PROVE c[m + i] = b[i]
    BY <2>2, <2>4
  <2> QED BY <2>5, <2>6, <2>7
<1>4. /\ 1 \in Int /\ m \in Int /\ \A i \in 1..m : c[i] \in Nat
      /\ m - 1 + 1 = m /\ \A i \in 1..m : 1 + i - 1 = i
  BY <1>2, <1>3
<1>5. PICK u, v : u = SubSeq(a, 1, m) /\ v = SubSeq(c, 1, m)
  OBVIOUS
<1>6. /\ u \in Seq(Nat) /\ Len(u) = (IF 1 <= m THEN m - 1 + 1 ELSE 0)
      /\ \A i \in 1..(m - 1 + 1) : u[i] = a[1 + i - 1]
  BY <1>3, <1>4, <1>5, SubSeqProperties
<1>7. /\ v \in Seq(Nat) /\ Len(v) = (IF 1 <= m THEN m - 1 + 1 ELSE 0)
      /\ \A i \in 1..(m - 1 + 1) : v[i] = c[1 + i - 1]
  BY <1>3, <1>4, <1>5, SubSeqProperties
<1>8. Len(u) = m /\ Len(v) = m
  BY <1>2, <1>6, <1>7
<1>9. (\A i \in 1..m : u[i] = a[i]) /\ \A i \in 1..m : v[i] = c[i]
  BY <1>4, <1>6, <1>7
<1>10. \A i \in 1..m : u[i] = v[i]
  BY <1>3, <1>9
<1>11. u = v
  BY <1>6, <1>7, <1>8, <1>10, SeqEqual
<1>12. IsPrefix(a, c)
  <2>1. m <= m + n
    BY <1>2
  <2> QED BY <1>1, <1>2, <1>5, <1>11, <2>1 DEF IsPrefix
<1>13. PICK h, l : h = m + 1 /\ l = m + n
  OBVIOUS
<1>14. /\ h \in Int /\ l \in Int /\ l - h + 1 = n /\ (h <= l <=> 1 <= n)
       /\ \A i \in h..l : i - m \in 1..n /\ m + (i - m) = i
       /\ \A i \in 1..n : h + i - 1 = m + i
  BY <1>2, <1>13
<1>15. \A i \in h..l : c[i] \in Nat
  BY <1>3, <1>14
<1>16. PICK w : w = SubSeq(c, h, l)
  OBVIOUS
<1>17. /\ w \in Seq(Nat) /\ Len(w) = (IF h <= l THEN l - h + 1 ELSE 0)
       /\ \A i \in 1..(l - h + 1) : w[i] = c[h + i - 1]
  BY <1>14, <1>15, <1>16, SubSeqProperties
<1>18. Len(w) = n
  BY <1>2, <1>14, <1>17
<1>19. ASSUME NEW i \in 1..n PROVE w[i] = b[i]
  <2>1. w[i] = c[h + i - 1]
    BY <1>14, <1>17
  <2> QED BY <1>3, <1>14, <2>1
<1>20. w = b
  BY <1>1, <1>2, <1>17, <1>18, <1>19, SeqEqual
<1> QED BY <1>1, <1>2, <1>12, <1>13, <1>16, <1>20 DEF Then

\* The last numbers of the events ascend.
LEMMA LastsAscend ==
  ASSUME NEW s \in Histories, TilesFrom(1, s)
  PROVE  /\ \A i \in DOMAIN s : s[i].last < After(1, s)
         /\ \A i \in DOMAIN s, j \in DOMAIN s : i < j => s[i].last < s[j].last
<1>1. PICK T : T = {t \in Histories : TilesFrom(1, t) =>
                      /\ \A i \in DOMAIN t : t[i].last < After(1, t)
                      /\ \A i \in DOMAIN t, j \in DOMAIN t : i < j => t[i].last < t[j].last}
  OBVIOUS
<1>2. Empty \in T
  <2>1. DOMAIN Empty = {}
    BY DEF Empty
  <2> QED BY <1>1, <2>1, HistoriesGrow
<1>3. ASSUME NEW t \in Histories, NEW e \in Wide, t \in T PROVE Plus(t, e) \in T
  <2>1. PICK u \in Histories : u = Plus(t, e)
    BY HistoriesGrow
  <2>2. PICK n \in Nat : n = Len(t)
    BY EmptyIs
  <2>3. /\ DOMAIN t = 1..n /\ DOMAIN u = 1..(n + 1) /\ u[n + 1] = e
        /\ \A i \in 1..n : u[i] = t[i] /\ t[i] \in Wide
    BY <2>1, <2>2, OneMore DEF Plus, Histories
  <2> SUFFICES ASSUME TilesFrom(1, u)
               PROVE  /\ \A i \in DOMAIN u : u[i].last < After(1, u)
                      /\ \A i \in DOMAIN u, j \in DOMAIN u : i < j => u[i].last < u[j].last
    BY <1>1, <2>1
  <2>4. TilesFrom(1, t) /\ e.first = After(1, t) /\ After(1, u) = e.last + 1
    BY <2>1, FromOne
  <2>5. e.first \in Nat /\ e.last \in Nat /\ e.first <= e.last /\ \A i \in 1..n : t[i].last \in Nat
    BY <2>3, WideIs
  <2>6. \A i \in 1..n : t[i].last < e.first
    BY <1>1, <1>3, <2>3, <2>4
  <2>7. \A i \in 1..n, j \in 1..n : i < j => t[i].last < t[j].last
    BY <1>1, <1>3, <2>3, <2>4
  <2>8. ASSUME NEW i \in 1..(n + 1) PROVE u[i].last < After(1, u)
    <3>1. CASE i \in 1..n
      <4>1. u[i] = t[i] /\ t[i].last \in Nat /\ t[i].last < e.first
        BY <2>3, <2>5, <2>6, <3>1
      <4> QED BY <2>4, <2>5, <4>1
    <3>2. CASE i = n + 1
      BY <2>3, <2>4, <2>5, <3>2
    <3> QED BY <2>2, <3>1, <3>2
  <2>9. ASSUME NEW i \in 1..(n + 1), NEW j \in 1..(n + 1), i < j PROVE u[i].last < u[j].last
    <3>1. i \in 1..n /\ (j \in 1..n \/ j = n + 1)
      BY <2>2, <2>9
    <3>2. u[i] = t[i] /\ t[i].last \in Nat /\ t[i].last < e.first
      BY <2>3, <2>5, <2>6, <3>1
    <3>3. CASE j \in 1..n
      BY <2>3, <2>7, <2>9, <3>1, <3>2, <3>3
    <3>4. CASE j = n + 1
      BY <2>3, <2>5, <3>2, <3>4
    <3> QED BY <3>1, <3>3, <3>4
  <2> QED BY <2>3, <2>8, <2>9
<1>4. s \in T
  BY <1>2, <1>3, HistoriesFollow
<1> QED BY <1>1, <1>4

LEMMA NoneBetween ==
  ASSUME NEW p, NEW s, Plain(s, p), NEW k, NEW m \in Nat \ {0},
         \A i \in DOMAIN s : s[i].kind = k => s[i].last < m
  PROVE  NoneOf(p, k, m, After(1, s))
<1>1. PICK T : T = {t \in Histories :
          Plain(t, p) /\ (\A i \in DOMAIN t : t[i].kind = k => t[i].last < m)
            => NoneOf(p, k, m, After(1, t))}
  OBVIOUS
<1>2. Empty \in T
  <2>1. After(1, Empty) = 1 /\ Empty \in Histories
    BY NumbersMore, HistoriesGrow
  <2>2. \A i \in m..(1 - 1) : FALSE
    OBVIOUS
  <2>3. NoneOf(p, k, m, 1)
    BY <2>2 DEF NoneOf
  <2> QED BY <1>1, <2>1, <2>3
<1>3. ASSUME NEW t \in Histories, NEW e \in Wide, t \in T PROVE Plus(t, e) \in T
  <2>1. PICK u \in Histories : u = Plus(t, e)
    BY HistoriesGrow
  <2>2. PICK n \in Nat : n = Len(t)
    BY EmptyIs
  <2>3. /\ DOMAIN t = 1..n /\ DOMAIN u = 1..(n + 1) /\ u[n + 1] = e
        /\ \A i \in 1..n : u[i] = t[i]
    BY <2>1, <2>2, OneMore DEF Plus, Histories
  <2> SUFFICES ASSUME Plain(u, p), \A i \in DOMAIN u : u[i].kind = k => u[i].last < m
               PROVE  NoneOf(p, k, m, After(1, u))
    BY <1>1, <2>1
  <2>4. Plain(t, p) /\ e.first = After(1, t) /\ Tells(e, p)
    BY <2>1, PlainMore
  <2>5. PICK a \in Nat \ {0}, h \in Nat : a = e.first /\ h = e.last + 1 /\ a < h
    BY RangeIs
  <2>6. After(1, u) = h /\ AllOf(p, e.kind, a, h)
    BY <2>1, <2>4, <2>5, FromOne DEF Tells, TellsUpTo
  <2>7. (\A i \in 1..n : i \in 1..(n + 1)) /\ n + 1 \in 1..(n + 1)
    BY <2>2
  <2>8. \A i \in DOMAIN t : t[i].kind = k => t[i].last < m
    BY <2>3, <2>7
  <2>9. NoneOf(p, k, m, a)
    BY <1>1, <1>3, <2>4, <2>5, <2>8
  <2>10. e.kind = k => h <= m
    <3>1. e.kind = k => e.last < m
      BY <2>3, <2>7
    <3>2. e.last \in Nat
      BY WideIs
    <3> QED BY <2>5, <3>1, <3>2
  <2>11. ASSUME NEW i \in m..(h - 1) PROVE p[i] # k
    <3>1. CASE i < a
      <4>1. i \in m..(a - 1)
        BY <2>5, <3>1
      <4> QED BY <2>9, <4>1 DEF NoneOf
    <3>2. CASE i >= a
      <4>1. i \in a..(h - 1) /\ ~(h <= m)
        BY <2>5, <3>2
      <4> QED BY <2>6, <2>10, <4>1 DEF AllOf
    <3> QED BY <2>5, <3>1, <3>2
  <2> QED BY <2>6, <2>11 DEF NoneOf
<1>4. s \in Histories
  BY DEF Plain
<1>5. s \in T
  BY <1>2, <1>3, <1>4, HistoriesFollow
<1> QED BY <1>1, <1>5

\* What is old is a beginning of the artifact.
LEMMA OldOnes ==
  ASSUME NEW s \in Histories, TilesFrom(1, s), NEW next \in Nat
  PROVE  \E o \in 0..Len(s) : /\ o \in Nat
                              /\ o = Cardinality({i \in DOMAIN s : s[i].last < next})
                              /\ \A i \in DOMAIN s : s[i].last < next <=> i <= o
<1>1. PICK n \in Nat : n = Len(s) /\ DOMAIN s = 1..n
  BY DEF Histories
<1>2. PICK D : D = {i \in 1..n : s[i].last < next}
  OBVIOUS
<1>3. D \in SUBSET (1..n)
  BY <1>2
<1>4. \A i \in 1..n : s[i].last \in Nat
  BY <1>1, WideIs DEF Histories
<1>5. PICK o \in 0..n : D = 1..o
  <2>1. CASE D = {}
    <3>1. 0 \in 0..n /\ 1..0 = {}
      OBVIOUS
    <3> QED BY <2>1, <3>1
  <2>2. CASE D # {}
    <3>1. PICK o \in D : \A i \in D : i <= o
      BY <1>3, <2>2, LargestPlace
    <3>2. o \in 1..n /\ s[o].last < next
      BY <1>2, <3>1
    <3>3. ASSUME NEW i \in 1..o PROVE i \in D
      <4>1. i \in 1..n
        BY <3>2
      <4>2. i < o => s[i].last < s[o].last
        BY <1>1, <3>2, <4>1, LastsAscend
      <4>3. s[i].last < next
        <5>1. CASE i = o
          BY <3>2, <5>1
        <5>2. CASE i # o
          <6>1. i < o
            BY <3>2, <5>2
          <6> QED BY <1>4, <3>2, <4>1, <4>2, <6>1
        <5> QED BY <5>1, <5>2
      <4> QED BY <1>2, <4>1, <4>3
    <3>4. \A i \in D : i \in 1..o
      BY <1>3, <3>1, <3>2
    <3>5. D = 1..o
      BY <3>3, <3>4
    <3> QED BY <3>2, <3>5
  <2> QED BY <2>1, <2>2
<1>6. Cardinality(1..o) = o
  BY <1>5, FS_Interval
<1>7. \A i \in 1..n : s[i].last < next <=> i <= o
  <2>1. \A i \in 1..n : i \in 1..o <=> i <= o
    BY <1>5
  <2> QED BY <1>2, <1>5, <2>1
<1>8. o = Cardinality({i \in DOMAIN s : s[i].last < next})
  <2>1. {i \in DOMAIN s : s[i].last < next} = D
    BY <1>1, <1>2
  <2> QED BY <1>5, <1>6, <2>1
<1>9. o \in 0..Len(s) /\ o \in Nat /\ \A i \in DOMAIN s : s[i].last < next <=> i <= o
  BY <1>1, <1>5, <1>7
<1> QED BY <1>8, <1>9, Zenon

\* A stream that waits for number "next" has sent what was said before it; o events
\* are behind it.
Waits(s, p, next, o, sent) ==
  /\ Plain(s, p) /\ p \in Seq(Kinds) /\ next \in Nat \ {0} /\ next <= After(1, s)
  /\ o \in 0..Len(s) /\ \A i \in DOMAIN s : s[i].last < next <=> i <= o
  /\ \A k \in TextKinds : sent[k] = Said(p, k, next)

\* Where it stands behind event i.
Mark(s, o, next, i) == IF i <= o THEN next ELSE s[i].last + 1

LEMMA MarksAre ==
  ASSUME NEW s, NEW p, NEW next, NEW o, NEW sent, Waits(s, p, next, o, sent),
         NEW n \in Nat, n = Len(s), NEW l \in Nat, l = Len(p)
  PROVE  /\ \A i \in o..n : Mark(s, o, next, i) \in 1..(l + 1)
         /\ Mark(s, o, next, o) = next
         /\ Mark(s, o, next, n) = After(1, s)
         /\ \A i \in 1..n : i > o =>
              /\ Mark(s, o, next, i - 1) < Mark(s, o, next, i)
              /\ s[i].first <= Mark(s, o, next, i - 1)
              /\ s[i].first = s[i].last => Mark(s, o, next, i - 1) = s[i].first
              /\ Mark(s, o, next, i) = s[i].last + 1
<1>1. /\ s \in Histories /\ TilesFrom(1, s) /\ DOMAIN s = 1..n /\ p \in Seq(Kinds)
      /\ o \in 0..n /\ next \in Nat \ {0} /\ next <= After(1, s)
      /\ \A i \in 1..n : s[i].last < next <=> i <= o
      /\ \A i \in 1..n : s[i] \in Wide /\ Tells(s[i], p)
  BY DEF Waits, Plain, Histories
<1>2. \A i \in 1..n : /\ s[i].first \in Nat \ {0} /\ s[i].last \in Nat /\ s[i].first <= s[i].last
                      /\ s[i].last <= l
  BY <1>1, WideIs DEF Tells, TellsUpTo
<1>3. After(1, s) \in 1..(l + 1)
  BY <1>1, PlainTells DEF Waits
<1>4. After(1, s) = IF n = 0 THEN 1 ELSE s[n].last + 1
  <2>1. CASE n = 0
    <3>1. s = <<>>
      BY <1>1, <2>1, EmptyIs DEF Empty
    <3> QED BY <2>1, <3>1 DEF After
  <2>2. CASE n # 0
    <3>1. s # <<>>
      BY <2>2
    <3> QED BY <2>2, <3>1 DEF After, Last
  <2> QED BY <2>1, <2>2
<1>5. \A i \in 1..n : s[i].first = IF i = 1 THEN 1 ELSE s[i - 1].last + 1
  BY <1>1 DEF TilesFrom
<1>6. Mark(s, o, next, o) = next
  BY <1>1 DEF Mark
<1>7. ASSUME NEW i \in o..n PROVE Mark(s, o, next, i) \in 1..(l + 1)
  <2>1. CASE i <= o
    BY <1>1, <1>3, <2>1 DEF Mark
  <2>2. CASE i > o
    <3>1. i \in 1..n /\ ~(i <= o)
      BY <1>1, <2>2
    <3>2. s[i].last \in Nat /\ s[i].last <= l
      BY <1>2, <3>1
    <3> QED BY <3>1, <3>2 DEF Mark
  <2> QED BY <1>1, <2>1, <2>2
<1>8. Mark(s, o, next, n) = After(1, s)
  <2>1. CASE n = 0
    <3>1. n <= o
      BY <1>1, <2>1
    <3>2. next = 1
      BY <1>1, <1>4, <2>1
    <3> QED BY <1>4, <2>1, <3>1, <3>2 DEF Mark
  <2>2. CASE n # 0 /\ n <= o
    <3>1. n \in 1..n
      BY <2>2
    <3>2. s[n].last < next /\ next <= s[n].last + 1
      BY <1>1, <1>4, <2>2, <3>1
    <3>3. next = s[n].last + 1
      BY <1>1, <1>2, <3>1, <3>2
    <3> QED BY <1>4, <2>2, <3>3 DEF Mark
  <2>3. CASE n # 0 /\ ~(n <= o)
    BY <1>4, <2>3 DEF Mark
  <2> QED BY <2>1, <2>2, <2>3
<1>9. ASSUME NEW i \in 1..n, i > o
      PROVE  /\ Mark(s, o, next, i - 1) < Mark(s, o, next, i)
             /\ s[i].first <= Mark(s, o, next, i - 1)
             /\ s[i].first = s[i].last => Mark(s, o, next, i - 1) = s[i].first
             /\ Mark(s, o, next, i) = s[i].last + 1
  <2>1. ~(i <= o) /\ o \in Nat
    BY <1>1, <1>9
  <2>2. PICK a \in Nat \ {0}, z \in Nat : a = s[i].first /\ z = s[i].last /\ a <= z
    BY <1>2
  <2>3. Mark(s, o, next, i) = z + 1 /\ ~(z < next)
    BY <1>1, <2>1, <2>2 DEF Mark
  <2>4. CASE i - 1 <= o
    <3>1. Mark(s, o, next, i - 1) = next
      BY <2>4 DEF Mark
    <3>2. a <= next
      <4>1. CASE i = 1
        BY <1>1, <1>5, <2>2, <4>1
      <4>2. CASE i # 1
        <5>1. i - 1 \in 1..n
          BY <4>2
        <5>2. s[i - 1].last < next /\ s[i - 1].last \in Nat
          BY <1>1, <1>2, <2>4, <5>1
        <5>3. a = s[i - 1].last + 1
          BY <1>5, <2>2, <4>2
        <5> QED BY <1>1, <5>2, <5>3
      <4> QED BY <4>1, <4>2
    <3>3. next < z + 1 /\ (a = z => next = a)
      BY <1>1, <2>2, <2>3, <3>2
    <3> QED BY <2>2, <2>3, <3>1, <3>2, <3>3
  <2>5. CASE i - 1 > o
    <3>1. i # 1 /\ ~(i - 1 <= o)
      BY <2>1, <2>5
    <3>2. a = s[i - 1].last + 1
      BY <1>5, <2>2, <3>1
    <3>3. Mark(s, o, next, i - 1) = a
      BY <3>1, <3>2 DEF Mark
    <3>4. a < z + 1 /\ a <= a
      BY <2>2
    <3> QED BY <2>2, <2>3, <3>3, <3>4
  <2> QED BY <2>1, <2>4, <2>5
<1> QED BY <1>6, <1>7, <1>8, <1>9

\* Up to the mark behind event i everything is said.
LEMMA SaidUpTo ==
  ASSUME NEW s, NEW p \in Seq(Kinds), Plain(s, p), NEW i \in 1..Len(s), NEW k
  PROVE  TextOf(SubSeq(s, 1, i), k) = Said(p, k, s[i].last + 1)
<1>1. PICK l \in Nat : l = Len(p)
  OBVIOUS
<1>2. i \in 0..Len(s) /\ i # 0
  BY EmptyIs DEF Plain
<1>3. Plain(SubSeq(s, 1, i), p) /\ After(1, SubSeq(s, 1, i)) = s[i].last + 1
  BY <1>2, PlainBeginning
<1> QED BY <1>1, <1>3, PlainTells

\* The same, for number m and any later one.
LEMMA SaidLater ==
  ASSUME NEW p \in Seq(Kinds), NEW k, NEW m \in Nat \ {0}, NEW n \in Nat, m <= n, n <= Len(p) + 1
  PROVE  Later(p, k, m, n)
<1>1. \A l \in Nat : l = Len(p) => \A i \in 1..(l + 1) : \A j \in i..(l + 1) : Later(p, k, i, j)
  BY SaidOn
<1>2. Len(p) \in Nat
  OBVIOUS
<1>3. \A i \in 1..(Len(p) + 1) : \A j \in i..(Len(p) + 1) : Later(p, k, i, j)
  BY <1>1, <1>2
<1>4. m \in 1..(Len(p) + 1) /\ n \in m..(Len(p) + 1)
  BY <1>2
<1> QED BY <1>3, <1>4

\* Nothing was said between number m and the end of event h.
LEMMA SaidSince ==
  ASSUME NEW s, NEW p \in Seq(Kinds), Plain(s, p), NEW n \in Nat, n = Len(s), NEW h \in 1..n, NEW k,
         NEW m \in Nat \ {0}, m <= s[h].last + 1, \A j \in 1..h : s[j].kind = k => s[j].last < m
  PROVE  Said(p, k, m) = Said(p, k, s[h].last + 1)
<1>1. s \in Histories /\ s \in Seq(Wide)
  BY DEF Plain, Histories
<1>2. h \in 0..Len(s) /\ h # 0
  OBVIOUS
<1>3. PICK u : u = SubSeq(s, 1, h)
  OBVIOUS
<1>4. Plain(u, p) /\ After(1, u) = s[h].last + 1
  BY <1>2, <1>3, PlainBeginning
<1>5. u \in Seq(Wide) /\ Len(u) = h /\ \A j \in 1..h : u[j] = s[j]
  BY <1>1, <1>2, <1>3, BeginningIs
<1>6. DOMAIN u = 1..h
  BY <1>5
<1>7. \A j \in DOMAIN u : u[j].kind = k => u[j].last < m
  BY <1>5, <1>6
<1>8. PICK z : z = After(1, u)
  OBVIOUS
<1>9. NoneOf(p, k, m, z)
  BY <1>4, <1>7, <1>8, NoneBetween
<1>10. PICK l \in Nat : l = Len(p)
  OBVIOUS
<1>11. z \in 1..(l + 1)
  BY <1>4, <1>8, <1>10, PlainTells
<1>a. m <= z
  BY <1>4, <1>8
<1>12. m \in 1..(l + 1) /\ z \in m..(l + 1)
  BY <1>a, <1>10, <1>11
<1>13. Said(p, k, z) = Said(p, k, m)
  <2>1. z \in Nat /\ m <= z /\ z <= Len(p) + 1
    BY <1>10, <1>11, <1>12
  <2>2. Later(p, k, m, z)
    BY <2>1, SaidLater
  <2> QED BY <1>9, <2>2 DEF Later
<1> QED BY <1>4, <1>8, <1>13

LEMMA SentExtended ==
  ASSUME NEW s, NEW p, NEW next, NEW o, NEW sent, Waits(s, p, next, o, sent),
         NEW n \in Nat, n = Len(s), NEW j \in 1..n, j > o, IsText(s[j])
  PROVE  ExtendsSent(s, sent, j)
<1>1. PICK k : k = s[j].kind /\ k \in TextKinds
  BY DEF IsText
<1>2. PICK l \in Nat : l = Len(p)
  BY DEF Waits
<1>3. p \in Seq(Kinds) /\ Plain(s, p) /\ sent[k] = Said(p, k, next) /\ o \in 0..n
  BY <1>1 DEF Waits
<1>4. o \in o..n /\ j \in o..n
  BY <1>3
<1>5. /\ Mark(s, o, next, o) \in 1..(l + 1) /\ Mark(s, o, next, j) \in 1..(l + 1)
      /\ Mark(s, o, next, o) = next /\ Mark(s, o, next, j) = s[j].last + 1
  BY <1>2, <1>4, MarksAre
<1>6. PICK h : h = s[j].last + 1
  OBVIOUS
<1>7. next \in 1..(l + 1) /\ h \in 1..(l + 1)
  BY <1>5, <1>6
<1>8. h \in next..(l + 1)
  <2>1. ~(j <= o)
    BY <1>3
  <2>2. ~(s[j].last < next)
    BY <2>1 DEF Waits, Plain, Histories
  <2>3. PICK z \in Nat : z = s[j].last
    BY <1>3, WideIs DEF Plain, Histories
  <2>4. ~(z < next) /\ h = z + 1
    BY <1>6, <2>2, <2>3
  <2> QED BY <1>2, <1>7, <2>3, <2>4
<1>9. PICK x \in Words : Said(p, k, h) = Then(Said(p, k, next), x)
  <2>1. h \in Nat /\ next \in Nat \ {0} /\ next <= h /\ h <= Len(p) + 1
    BY <1>2, <1>7, <1>8
  <2>2. Later(p, k, next, h)
    BY <1>3, <2>1, SaidLater
  <2> QED BY <2>2 DEF Later
<1>10. Said(p, k, next) \in Words
  BY <1>2, <1>3, <1>7, SaidWords
<1>11. IsPrefix(Said(p, k, next), Said(p, k, h))
  BY <1>9, <1>10, JoinedText
<1>12. UpToEvent(s, j) = Said(p, k, h)
  BY <1>1, <1>3, <1>6, SaidUpTo DEF UpToEvent
<1> QED BY <1>1, <1>3, <1>11, <1>12 DEF ExtendsSent

LEMMA ToldIs ==
  ASSUME NEW s, NEW p, NEW next, NEW o, NEW sent, Waits(s, p, next, o, sent),
         NEW n \in Nat, n = Len(s), NEW i \in 1..n, i > o, IsText(s[i])
  PROVE  ToldBefore(s, o, sent, i) = Said(p, s[i].kind, Mark(s, o, next, i - 1))
<1>1. PICK k : k = s[i].kind /\ k \in TextKinds
  BY DEF IsText
<1>2. /\ p \in Seq(Kinds) /\ Plain(s, p) /\ sent[k] = Said(p, k, next) /\ o \in 0..n /\ o \in Nat
      /\ next \in Nat \ {0} /\ \A j \in 1..n : s[j].last < next <=> j <= o
  BY <1>1 DEF Waits, Plain, Histories
<1>3. /\ \A j \in 1..n : s[j].last \in Nat
      /\ \A j \in 1..n, g \in 1..n : j < g => s[j].last < s[g].last
  <2>1. s \in Histories /\ TilesFrom(1, s) /\ DOMAIN s = 1..n /\ \A j \in 1..n : s[j] \in Wide
    BY <1>2 DEF Plain, Histories
  <2>2. \A j \in 1..n : s[j].last \in Nat
    BY <2>1, WideIs
  <2>3. \A j \in DOMAIN s, g \in DOMAIN s : j < g => s[j].last < s[g].last
    BY <2>1, LastsAscend
  <2> QED BY <2>1, <2>2, <2>3
<1>4. PICK told : told = {j \in o + 1 .. i - 1 : s[j].kind = s[i].kind /\ ExtendsSent(s, sent, j)}
  OBVIOUS
<1>5. told = {j \in o + 1 .. i - 1 : s[j].kind = k}
  <2>1. \A j \in o + 1 .. i - 1 : j \in 1..n /\ j > o
    BY <1>2
  <2>2. \A j \in o + 1 .. i - 1 : s[j].kind = k => ExtendsSent(s, sent, j)
    BY <1>1, <2>1, SentExtended DEF IsText
  <2> QED BY <1>1, <1>4, <2>2
<1>6. ToldBefore(s, o, sent, i) = IF told = {} THEN Said(p, k, next) ELSE UpToEvent(s, Max(told))
  BY <1>1, <1>2, <1>4 DEF ToldBefore
<1>7. CASE i - 1 <= o
  <2>1. told = {}
    <3>1. \A j \in o + 1 .. i - 1 : FALSE
      BY <1>2, <1>7
    <3> QED BY <1>5, <3>1
  <2> QED BY <1>1, <1>6, <1>7, <2>1 DEF Mark
<1>8. CASE i - 1 > o
  <2>1. PICK h \in 1..n : h = i - 1 /\ h > o /\ ~(h <= o)
    BY <1>2, <1>8
  <2>2. Mark(s, o, next, i - 1) = s[h].last + 1
    BY <2>1 DEF Mark
  <2>3. \A j \in 1..h : j \in 1..n /\ (j <= o \/ j \in o + 1 .. i - 1)
    BY <1>2, <2>1
  <2>4. CASE told = {}
    <3>1. \A j \in 1..h : s[j].kind = k => s[j].last < next
      BY <1>2, <1>5, <2>3, <2>4
    <3>2. next <= s[h].last + 1
      BY <1>2, <1>3, <2>1
    <3> QED BY <1>1, <1>2, <1>6, <2>2, <2>4, <3>1, <3>2, SaidSince
  <2>5. CASE told # {}
    <3>1. told \in SUBSET (1..n)
      BY <1>5, <2>1, <1>2
    <3>2. PICK g \in told : g = Max(told) /\ \A j \in told : j <= g
      BY <2>5, <3>1, LargestPlace
    <3>3. g \in 1..n /\ g \in 1..h /\ g > o /\ s[g].kind = k
      BY <1>2, <1>5, <2>1, <3>2
    <3>4. PICK m \in Nat \ {0} : m = s[g].last + 1
      BY <1>3, <3>3
    <3>5. UpToEvent(s, Max(told)) = Said(p, k, m)
      BY <1>2, <3>2, <3>3, <3>4, SaidUpTo DEF UpToEvent
    <3>6. ASSUME NEW j \in 1..h, s[j].kind = k PROVE s[j].last < m
      <4>1. j \in 1..n /\ j <= g
        <5>1. CASE j <= o
          BY <2>3, <3>3, <5>1, <1>2
        <5>2. CASE j \in o + 1 .. i - 1
          BY <1>5, <2>3, <3>2, <3>6, <5>2
        <5> QED BY <2>3, <5>1, <5>2
      <4>2. CASE j = g
        BY <1>3, <3>3, <3>4, <4>2
      <4>3. CASE j # g
        <5>1. j < g
          BY <3>3, <4>1, <4>3
        <5>2. s[j].last < s[g].last
          BY <1>3, <3>3, <4>1, <5>1
        <5> QED BY <1>3, <3>3, <3>4, <4>1, <5>2
      <4> QED BY <4>2, <4>3
    <3>7. m <= s[h].last + 1
      <4>1. CASE g = h
        BY <1>3, <2>1, <3>4, <4>1
      <4>2. CASE g # h
        <5>1. g < h
          BY <3>3, <4>2
        <5>2. s[g].last < s[h].last
          BY <1>3, <2>1, <3>3, <5>1
        <5> QED BY <1>3, <2>1, <3>3, <3>4, <5>2
      <4> QED BY <4>1, <4>2
    <3>8. Said(p, k, m) = Said(p, k, s[h].last + 1)
      BY <1>2, <3>6, <3>7, SaidSince
    <3> QED BY <1>1, <1>6, <2>2, <2>5, <3>5, <3>8
  <2> QED BY <2>4, <2>5
<1> QED BY <1>2, <1>7, <1>8

-----------------------------------------------------------------------------
(* What a stream is sent of a plain artifact follows what it got.          *)

LEMMA RestIs ==
  ASSUME NEW s, NEW p, NEW next, NEW o, NEW sent, Waits(s, p, next, o, sent),
         NEW n \in Nat, n = Len(s), NEW l \in Nat, l = Len(p), NEW i \in 1..n, i > o,
         NEW x \in 1..(l + 1), NEW y \in x..(l + 1), x = Mark(s, o, next, i - 1),
         y = s[i].last + 1, s[i].first <= x, s[i].first = s[i].last => x = s[i].first
  PROVE  /\ RestOf(s, o, sent, i) = Run(x, y)
         /\ AllOf(p, s[i].kind, x, y)
<1>1. PICK k : k = s[i].kind
  OBVIOUS
<1>2. p \in Seq(Kinds) /\ Plain(s, p) /\ DOMAIN s = 1..n
  BY DEF Waits, Plain, Histories
<1>3. TellsUpTo(s[i], p, y) /\ s[i] \in Wide
  <2>1. Tells(s[i], p)
    BY <1>2 DEF Plain
  <2>2. s[i] \in Wide
    BY <1>2 DEF Plain, Histories
  <2> QED BY <2>1, <2>2 DEF Tells
<1>4. AllOf(p, k, x, y)
  <2>1. AllOf(p, k, s[i].first, y)
    BY <1>1, <1>3 DEF TellsUpTo
  <2>2. PICK a \in Nat \ {0} : a = s[i].first /\ a <= x
    BY <1>3, WideIs
  <2>3. \A j \in x..(y - 1) : j \in a..(y - 1)
    BY <2>2
  <2> QED BY <2>1, <2>2, <2>3 DEF AllOf
<1>5. CASE IsText(s[i])
  <2>1. UpToEvent(s, i) = Said(p, k, y)
    BY <1>1, <1>2, SaidUpTo DEF UpToEvent
  <2>2. ToldBefore(s, o, sent, i) = Said(p, k, x)
    BY <1>1, <1>5, ToldIs
  <2>3. ExtendsSent(s, sent, i)
    BY <1>5, SentExtended
  <2>4. Said(p, k, y) = Then(Said(p, k, x), Run(x, y))
    <3>1. Later(p, k, x, y)
      BY <1>2, SaidOn
    <3> QED BY <1>4, <3>1 DEF Later
  <2>5. Said(p, k, x) \in Words /\ Run(x, y) \in Words
    <3>1. x \in Nat \ {0} /\ y \in Nat /\ x <= y
      OBVIOUS
    <3> QED BY <1>2, <3>1, SaidWords, RunIs
  <2>6. SubSeq(Said(p, k, y), Len(Said(p, k, x)) + 1, Len(Said(p, k, y))) = Run(x, y)
    BY <2>4, <2>5, JoinedText
  <2> QED BY <1>1, <1>4, <1>5, <2>1, <2>2, <2>3, <2>6 DEF RestOf
<1>6. CASE ~IsText(s[i])
  <2>1. k \notin TextKinds
    BY <1>1, <1>6 DEF IsText
  <2>2. s[i].text = Run(x, y)
    BY <1>1, <1>3, <2>1 DEF TellsUpTo
  <2> QED BY <1>1, <1>4, <1>6, <2>2 DEF RestOf
<1> QED BY <1>5, <1>6

LEMMA PieceBehind ==
  ASSUME NEW a \in Seq(PieceType), NEW b \in Seq(PieceType), NEW e \in PieceType
  PROVE  a \o Append(b, e) = Append(a \o b, e)
<1>1. PICK R : R = PieceType
  OBVIOUS
<1>2. a \in Seq(R) /\ b \in Seq(R) /\ e \in R
  BY <1>1
<1> QED BY <1>2, AppendToConcat

LEMMA UnseenFollows ==
  ASSUME NEW s, NEW p, NEW next, NEW o \in Nat, NEW sent, Waits(s, p, next, o, sent),
         NEW n \in Nat, n = Len(s), NEW l \in Nat, l = Len(p), NEW r, Follows(r, p, next),
         NEW g, UnseenBy(g, s, next, sent, n, o)
  PROVE  /\ Unseen(s, next, sent).next = After(1, s)
         /\ Follows(r \o Unseen(s, next, sent).send, p, After(1, s))
<1>1. /\ s \in Histories /\ next \in Nat \ {0} /\ p \in Seq(Kinds) /\ o \in 0..n
      /\ DOMAIN s = 1..n /\ r \in Seq(PieceType)
  BY DEF Waits, Plain, Histories, Follows
<1>2. /\ \A i \in o..n : Mark(s, o, next, i) \in 1..(l + 1)
      /\ Mark(s, o, next, o) = next
      /\ Mark(s, o, next, n) = After(1, s)
      /\ \A i \in 1..n : i > o =>
           /\ Mark(s, o, next, i - 1) < Mark(s, o, next, i)
           /\ s[i].first <= Mark(s, o, next, i - 1)
           /\ s[i].first = s[i].last => Mark(s, o, next, i - 1) = s[i].first
           /\ Mark(s, o, next, i) = s[i].last + 1
  BY MarksAre
<1>6. /\ \A i \in 0..n : g[i] \in Seq(PieceType)
      /\ g[0] = <<>>
      /\ \A i \in 1..n :
           g[i] = IF i <= o THEN <<>>
                  ELSE IF IsText(s[i]) /\ RestOf(s, o, sent, i) = <<>>
                  THEN g[i - 1]
                  ELSE Append(g[i - 1], Piece(s[i].kind, RestOf(s, o, sent, i)))
      /\ Unseen(s, next, sent).next = IF o = n THEN next ELSE NextNumber(s)
      /\ Unseen(s, next, sent).send = g[n]
  BY DEF UnseenBy
<1>7. PICK T : T = {i \in Nat : i <= n => Follows(r \o g[i], p, Mark(s, o, next, i))}
  OBVIOUS
<1>8. \A i \in 0..n : i <= o => Follows(r \o g[i], p, Mark(s, o, next, i))
  <2> SUFFICES ASSUME NEW i \in 0..n, i <= o PROVE Follows(r \o g[i], p, Mark(s, o, next, i))
    OBVIOUS
  <2>1. g[i] = <<>>
    BY <1>6
  <2>2. r \o <<>> = r
    BY <1>1, ConcatEmptySeq
  <2>3. Mark(s, o, next, i) = next
    BY DEF Mark
  <2> QED BY <2>1, <2>2, <2>3
<1>9. 0 \in T
  BY <1>1, <1>7, <1>8
<1>10. ASSUME NEW d \in Nat, d \in T PROVE d + 1 \in T
  <2> SUFFICES ASSUME NEW i \in 1..n, i = d + 1 PROVE Follows(r \o g[i], p, Mark(s, o, next, i))
    BY <1>7
  <2>1. CASE i <= o
    BY <1>8, <2>1
  <2>2. CASE i > o
    <3>1. /\ d = i - 1 /\ d \in 0..n /\ d \in o..n /\ i \in o..n /\ ~(i <= o)
      BY <1>1, <2>2
    <3>2. /\ Mark(s, o, next, i - 1) < Mark(s, o, next, i)
          /\ s[i].first <= Mark(s, o, next, i - 1)
          /\ s[i].first = s[i].last => Mark(s, o, next, i - 1) = s[i].first
          /\ Mark(s, o, next, i) = s[i].last + 1
      BY <1>2, <2>2
    <3>3. PICK x \in 1..(l + 1) : x = Mark(s, o, next, i - 1)
      BY <1>2, <3>1
    <3>4. PICK y \in 1..(l + 1) : y = Mark(s, o, next, i)
      BY <1>2, <3>1
    <3>5. y \in x..(l + 1) /\ x < y /\ y = s[i].last + 1
          /\ s[i].first <= x /\ (s[i].first = s[i].last => x = s[i].first)
      BY <3>2, <3>3, <3>4
    <3>6. RestOf(s, o, sent, i) = Run(x, y) /\ AllOf(p, s[i].kind, x, y)
      BY <2>2, <3>3, <3>5, RestIs
    <3>7. Run(x, y) # <<>>
      <4>1. x \in Nat \ {0} /\ y \in Nat /\ x <= y
        BY <3>5
      <4>2. Len(Run(x, y)) = y - x
        BY <4>1, RunIs
      <4>3. y - x # 0
        BY <3>5
      <4> QED BY <4>2, <4>3
    <3>8. PICK e : e = Piece(s[i].kind, Run(x, y))
      OBVIOUS
    <3>9. g[i] = Append(g[d], e)
      BY <1>6, <3>1, <3>6, <3>7, <3>8
    <3>10. s[i].kind \in Kinds
      BY <1>1, WideIs DEF Histories
    <3>11. e \in PieceType
      <4>1. x \in Nat \ {0} /\ y \in Nat /\ x <= y
        BY <3>5
      <4>2. Run(x, y) \in Words
        BY <4>1, RunIs
      <4> QED BY <3>8, <3>10, <4>2, PieceTyped
    <3>12. PICK q : q = r \o g[d]
      OBVIOUS
    <3>13. r \o g[i] = Append(q, e)
      <4>1. PICK h : h = g[d] /\ h \in Seq(PieceType)
        BY <1>6, <3>1
      <4>2. r \o Append(h, e) = Append(r \o h, e)
        BY <1>1, <3>11, <4>1, PieceBehind
      <4> QED BY <3>9, <3>12, <4>1, <4>2
    <3>14. Follows(q, p, x)
      BY <1>7, <1>10, <3>1, <3>3, <3>12
    <3>15. Follows(Append(q, e), p, y)
      BY <1>1, <3>5, <3>6, <3>8, <3>10, <3>14, FollowsMore
    <3> QED BY <3>4, <3>13, <3>15
  <2> QED BY <1>1, <2>1, <2>2
<1>11. Nat \subseteq T
  BY <1>9, <1>10, NumbersFollow
<1>12. Follows(r \o g[n], p, After(1, s))
  BY <1>2, <1>7, <1>11
<1>13. Unseen(s, next, sent).next = After(1, s)
  <2>1. CASE o = n
    BY <1>2, <1>6, <2>1
  <2>2. CASE o # n
    <3>1. s # <<>>
      BY <1>1, <2>2
    <3>2. NextNumber(s) = After(1, s)
      BY <3>1 DEF NextNumber, After
    <3> QED BY <1>6, <2>2, <3>2
  <2> QED BY <2>1, <2>2
<1> QED BY <1>6, <1>12, <1>13

-----------------------------------------------------------------------------
(* A stream sends what was produced, in order and once.                    *)

FeedFollows == \A s \in Streams : Follows(received[s], produced, stream[s].next)

\* What a turn of the generator makes of one stream.
FollowsOn(s, pieces, n) ==
  /\ Receives(s, pieces) /\ GoesOn(s, n, Has(pieces, IsTerminal))
  /\ Follows(received[s] \o pieces, produced, n) /\ stream[s].next <= n
  /\ pieces \in Seq(PieceType)

LEMMA StreamWaits ==
  ASSUME StoreInv, PlainStore, FeedTyped, FeedFollows, NEW s \in Streams
  PROVE  /\ Unseen(Artifact, stream[s].next, Sent(s)).next = counter
         /\ Follows(received[s] \o Unseen(Artifact, stream[s].next, Sent(s)).send, produced, counter)
<1>1. PICK a, p, next, sent, r :
        /\ a = Artifact /\ p = produced /\ next = stream[s].next /\ sent = Sent(s) /\ r = received[s]
  OBVIOUS
<1>2. PICK l \in Nat : l = Len(p) /\ p \in Seq(Kinds)
  BY <1>1 DEF PlainStore
<1>3. Follows(r, p, next)
  BY <1>1 DEF FeedFollows
<1>4. Plain(a, p) /\ After(1, a) = l + 1 /\ counter = After(1, a)
  BY <1>1, <1>2 DEF PlainStore
<1>5. next \in 1..(l + 1) /\ \A k \in TextKinds : TextOf(r, k) = Said(p, k, next)
  BY <1>2, <1>3 DEF Follows
<1>6. next \in Nat \ {0} /\ next \in Nat /\ next <= After(1, a)
  BY <1>4, <1>5
<1>7. \A k \in TextKinds : sent[k] = Said(p, k, next)
  BY <1>1, <1>5 DEF Sent
<1>8. a \in Histories /\ TilesFrom(1, a)
  BY <1>4 DEF Plain
<1>9. IsSent(sent)
  <2>1. \A k \in TextKinds : Said(p, k, next) \in Words
    BY <1>2, <1>5, SaidWords
  <2> QED BY <1>7, <2>1 DEF IsSent
<1>10. PICK n \in Nat, o \in Nat : /\ n = Len(a) /\ o = Cardinality({i \in DOMAIN a : a[i].last < next})
                                   /\ \E g : UnseenBy(g, a, next, sent, n, o)
  BY <1>6, <1>8, <1>9, UnseenSteps
<1>11. PICK h \in 0..Len(a) : /\ h = Cardinality({i \in DOMAIN a : a[i].last < next})
                              /\ \A i \in DOMAIN a : a[i].last < next <=> i <= h
  BY <1>6, <1>8, OldOnes
<1>12. h = o
  BY <1>10, <1>11
<1>13. Waits(a, p, next, o, sent)
  BY <1>2, <1>4, <1>6, <1>7, <1>11, <1>12 DEF Waits
<1>14. PICK g : UnseenBy(g, a, next, sent, n, o)
  BY <1>10
<1>15. n = Len(a)
  BY <1>10
<1>16. /\ Unseen(a, next, sent).next = After(1, a)
       /\ Follows(r \o Unseen(a, next, sent).send, p, After(1, a))
  BY <1>2, <1>3, <1>13, <1>14, <1>15, UnseenFollows
<1> QED BY <1>1, <1>4, <1>16

\* The event that was ahead is in the store already.
LEMMA ReadFollows ==
  ASSUME StoreInv, PlainStore, FeedTyped, EventsKnown, FeedFollows, NEW s \in Streams, ReadStore(s)
  PROVE  \E pieces : FollowsOn(s, pieces, counter)
<1>1. PICK u : /\ u = Unseen(Artifact, stream[s].next, Sent(s))
               /\ LET behind == Has(stream[s].ahead, LAMBDA e : e.first # u.next)
                      ahead  == IF behind THEN <<>> ELSE stream[s].ahead
                      over   == Has(u.send, IsTerminal)
                      pieces == IF over THEN u.send ELSE u.send \o Pieces(ahead)
                  IN /\ Receives(s, pieces)
                     /\ GoesOn(s, IF over THEN u.next ELSE u.next + Len(ahead),
                               Has(pieces, IsTerminal))
  BY DEF ReadStore
<1>2. PICK q : q = stream[s].ahead
  OBVIOUS
<1>3. u.next = counter /\ Follows(received[s] \o u.send, produced, counter)
  BY <1>1, StreamWaits
<1>4. PICK l \in Nat : l = Len(produced) /\ counter = l + 1 /\ produced \in Seq(Kinds)
  BY DEF PlainStore
<1>5. PICK ahead : ahead = IF Has(q, LAMBDA e : e.first # u.next) THEN <<>> ELSE q
  OBVIOUS
<1>6. ahead = <<>>
  <2>1. q \in Seq(KnownTo(produced))
    BY <1>2 DEF EventsKnown, AllKnow, StreamsKnow
  <2>2. CASE q = <<>>
    BY <1>5, <2>2
  <2>3. CASE q # <<>>
    <3>1. 1 \in DOMAIN q /\ q[1] \in KnownTo(produced)
      BY <2>1, <2>3
    <3>2. q[1].first \in 1..l
      BY <1>4, <3>1, KnownIs
    <3>3. q[1].first # u.next
      BY <1>3, <1>4, <3>2
    <3>4. \E i \in DOMAIN q : q[i].first # u.next
      BY <3>1, <3>3
    <3> QED BY <1>5, <3>4 DEF Has
  <2> QED BY <2>2, <2>3
<1>7. u.send \in Seq(PieceType)
  <2>1. ReceivedTyped
    BY DEF FeedTyped, ReceivedTyped
  <2>2. IsSent(Sent(s))
    BY <2>1, SentTyped DEF ReceivedTyped
  <2>3. stream[s].next \in Nat \ {0}
    BY DEF FeedTyped, Connections
  <2> QED BY <1>1, <2>2, <2>3, ArtifactIs, UnseenTyped
<1>8. Len(<<>>) = 0 /\ Pieces(<<>>) = <<>>
  BY DEF Pieces
<1>9. u.send \o Pieces(ahead) = u.send
  BY <1>6, <1>7, <1>8, ConcatEmptySeq
<1>10. u.next + Len(ahead) = counter
  BY <1>3, <1>4, <1>6, <1>8
<1>11. PICK pieces, n : /\ pieces = IF Has(u.send, IsTerminal) THEN u.send ELSE u.send \o Pieces(ahead)
                        /\ n = IF Has(u.send, IsTerminal) THEN u.next ELSE u.next + Len(ahead)
  OBVIOUS
<1>12. Receives(s, pieces) /\ GoesOn(s, n, Has(pieces, IsTerminal))
  BY <1>1, <1>2, <1>5, <1>11
<1>13. pieces = u.send /\ n = counter
  BY <1>3, <1>9, <1>10, <1>11
<1>a. stream[s].next <= counter
  <2>1. stream[s].next \in 1..(l + 1)
    BY <1>4 DEF FeedFollows, Follows
  <2> QED BY <1>4, <2>1
<1>14. FollowsOn(s, pieces, counter)
  BY <1>3, <1>7, <1>12, <1>13, <1>a DEF FollowsOn
<1> QED BY <1>14

\* The expected event of the queue is the next one that was produced.
LEMMA TakeFollows ==
  ASSUME PlainStore, FeedTyped, EventsKnown, FeedFollows, NEW s \in Streams, TakeEvent(s),
         Head(queue[s]).first = stream[s].next
  PROVE  \E pieces : \E n : FollowsOn(s, pieces, n)
<1>1. PICK e, p, m, r : e = Head(queue[s]) /\ p = produced /\ m = stream[s].next /\ r = received[s]
  OBVIOUS
<1>2. queue[s] # <<>> /\ e.first = m /\ Receives(s, Pieces(<<e>>)) /\ GoesOn(s, m + 1, IsTerminal(e))
  <2>1. m \in Nat
    BY <1>1 DEF FeedFollows, Follows
  <2>2. ~(e.first < m) /\ ~(e.first > m)
    BY <1>1, <2>1
  <2> QED BY <1>1, <2>2 DEF TakeEvent
<1>3. PICK l \in Nat : l = Len(p) /\ p \in Seq(Kinds)
  BY <1>1 DEF PlainStore
<1>4. e \in KnownTo(p)
  BY <1>1, <1>2, TailKnown DEF EventsKnown, AllKnow
<1>5. e \in Wide /\ e.kind \in Kinds /\ m \in 1..l /\ e.text = Run(m, m + 1) /\ AllOf(p, e.kind, m, m + 1)
  BY <1>2, <1>3, <1>4, KnownIs
<1>6. PICK n \in Nat : n = m + 1
  BY <1>5
<1>7. m \in 1..(l + 1) /\ n \in m..(l + 1) /\ m < n
  BY <1>5, <1>6
<1>8. Follows(r, p, m)
  BY <1>1 DEF FeedFollows
<1>9. PICK x, pieces : x = Piece(e.kind, Run(m, n)) /\ pieces = <<x>>
  OBVIOUS
<1>10. Follows(Append(r, x), p, n)
  BY <1>3, <1>5, <1>6, <1>7, <1>8, <1>9, FollowsMore
<1>11. Pieces(<<e>>) = pieces
  <2>1. x = Piece(e.kind, e.text)
    BY <1>5, <1>6, <1>9
  <2> QED BY <1>9, <2>1 DEF Pieces
<1>12. r \o pieces = Append(r, x)
  <2>1. r \in Seq(PieceType)
    BY <1>8 DEF Follows
  <2> QED BY <1>9, <2>1, AppendIsConcat
<1>13. Has(pieces, IsTerminal) <=> IsTerminal(e)
  <2>1. x.kind = e.kind
    BY <1>9 DEF Piece
  <2>2. DOMAIN pieces = {1} /\ pieces[1] = x
    BY <1>9
  <2> QED BY <2>1, <2>2 DEF Has, IsTerminal
<1>14. GoesOn(s, n, Has(pieces, IsTerminal))
  <2>1. GoesOn(s, n, IsTerminal(e))
    BY <1>2, <1>6
  <2> QED BY <1>13, <2>1 DEF GoesOn
<1>a. stream[s].next <= n
  BY <1>1, <1>7
<1>b. pieces \in Seq(PieceType)
  <2>1. m \in Nat \ {0} /\ n \in Nat /\ m <= n
    BY <1>7
  <2>2. Run(m, n) \in Words
    BY <2>1, RunIs
  <2>3. x \in PieceType
    BY <1>5, <1>9, <2>2, PieceTyped
  <2> QED BY <1>9, <2>3
<1>15. FollowsOn(s, pieces, n)
  BY <1>1, <1>2, <1>b, <1>10, <1>11, <1>12, <1>14, <1>a DEF FollowsOn
<1> QED BY <1>15

\* What a step is to the clients: nothing or one more event is produced, a stream
\* waits or reads, or one sends what follows.
Produces == /\ UNCHANGED <<stream, received>>
            /\ produced' = produced \/ \E kind \in Kinds : produced' = Append(produced, kind)

Moves(s) == /\ UNCHANGED <<produced, received>> /\ stream[s].pc # "ended"
            /\ \E r : /\ stream' = [stream EXCEPT ![s] = r]
                     /\ r.pc # "ended" /\ r.next = stream[s].next

Turns(s) == /\ UNCHANGED produced /\ stream[s].pc # "ended"
            /\ \E pieces : \E n : FollowsOn(s, pieces, n)

LEMMA MovesOnly ==
  ASSUME FeedTyped, NEW s \in Streams, stream[s].pc # "ended", UNCHANGED <<produced, received>>,
         NEW pc, pc # "ended", NEW q,
         \/ stream' = [stream EXCEPT ![s].pc = pc]
         \/ stream' = [stream EXCEPT ![s].pc = pc, ![s].ahead = q]
  PROVE  Moves(s)
<1>1. PICK o \in Connections : o = stream[s]
  BY DEF FeedTyped
<1>2. PICK r, u : r = [o EXCEPT !.pc = pc] /\ u = [o EXCEPT !.pc = pc, !.ahead = q]
  OBVIOUS
<1>3. r.pc = pc /\ r.next = o.next /\ u.pc = pc /\ u.next = o.next
  BY <1>1, <1>2 DEF Connections
<1>4. stream' = [stream EXCEPT ![s] = r] \/ stream' = [stream EXCEPT ![s] = u]
  BY <1>1, <1>2
<1> QED BY <1>1, <1>3, <1>4 DEF Moves

LEMMA OnlyTurns ==
  ASSUME StoreInv, PlainStore, FeedTyped, EventsKnown, FeedFollows, [Next]_vars
  PROVE  Produces \/ \E s \in Streams : Moves(s) \/ Turns(s)
<1>a. "stage" \in Kinds /\ "terminal" \in Kinds /\ TextKinds \subseteq Kinds
  BY DEF Kinds
<1>1. ASSUME NEW kind \in TextKinds, Stream(kind) PROVE Produces
  BY <1>1, <1>a DEF Stream, Produces
<1>2. ASSUME NEW p \in Publishers, EmitStage(p) \/ Finish(p) PROVE Produces
  BY <1>2, <1>a DEF EmitStage, Finish, Produces
<1>3. ASSUME NEW p \in Publishers, FinishAgain(p) \/ Publishing(p) PROVE Produces
  BY <1>3 DEF FinishAgain, Publishing, CopySubscribers, Put, DropOldest, PutAgain, store, Produces
<1>4. ASSUME Rewrite \/ UNCHANGED vars PROVE Produces
  BY <1>4 DEF Rewrite, vars, store, Produces
<1>5. ASSUME NEW s \in Streams, Subscribe(s) \/ TimesOut(s) \/ Disconnect(s) PROVE Moves(s)
  <2>1. UNCHANGED <<produced, received>> /\ stream[s].pc # "ended"
    BY <1>5 DEF Subscribe, TimesOut, Disconnect, Connected, store
  <2>2. PICK pc : pc # "ended" /\ stream' = [stream EXCEPT ![s].pc = pc]
    BY <1>5 DEF Subscribe, TimesOut, Disconnect
  <2> QED BY <2>1, <2>2, MovesOnly
<1>6. ASSUME NEW s \in Streams, ReadStore(s) PROVE Turns(s)
  <2>1. UNCHANGED produced /\ stream[s].pc # "ended"
    BY <1>6 DEF ReadStore
  <2> QED BY <1>6, <2>1, ReadFollows DEF Turns
<1>7. ASSUME NEW s \in Streams, TakeEvent(s) PROVE Produces \/ Moves(s) \/ Turns(s)
  <2>1. UNCHANGED produced /\ stream[s].pc # "ended"
    BY <1>7 DEF TakeEvent, store
  <2>2. CASE Head(queue[s]).first = stream[s].next
    <3>1. \E pieces : \E n : FollowsOn(s, pieces, n)
      BY <1>7, <2>2, TakeFollows
    <3> QED BY <2>1, <3>1 DEF Turns
  <2>3. CASE Head(queue[s]).first # stream[s].next
    <3>1. PICK e : e = Head(queue[s])
      OBVIOUS
    <3>2. UNCHANGED received
          /\ (UNCHANGED stream \/ stream' = [stream EXCEPT ![s].pc = "read", ![s].ahead = <<e>>])
      BY <1>7, <2>3, <3>1 DEF TakeEvent
    <3>3. CASE UNCHANGED stream
      BY <2>1, <3>2, <3>3 DEF Produces
    <3>4. CASE stream' = [stream EXCEPT ![s].pc = "read", ![s].ahead = <<e>>]
      <4>1. "read" # "ended"
        OBVIOUS
      <4> QED BY <2>1, <3>2, <3>4, <4>1, MovesOnly
    <3> QED BY <3>2, <3>3, <3>4
  <2> QED BY <2>2, <2>3
<1> QED BY <1>1, <1>2, <1>3, <1>4, <1>5, <1>6, <1>7 DEF Next, Appending, Following

LEMMA FollowStep ==
  ASSUME StoreInv, PlainStore, FeedTyped, EventsKnown, FeedFollows, [Next]_vars
  PROVE  FeedFollows'
<1>a. produced \in Seq(Kinds) /\ stream \in [Streams -> Connections]
      /\ received \in [Streams -> Seq(PieceType)]
  BY DEF PlainStore, FeedTyped
<1>1. CASE Produces
  <2> SUFFICES ASSUME NEW s \in Streams PROVE Follows(received[s], produced', stream[s].next)
    BY <1>1 DEF FeedFollows, Produces
  <2>1. Follows(received[s], produced, stream[s].next)
    BY DEF FeedFollows
  <2>2. CASE produced' = produced
    BY <2>1, <2>2
  <2>3. CASE \E kind \in Kinds : produced' = Append(produced, kind)
    <3>1. PICK kind \in Kinds : produced' = Append(produced, kind)
      BY <2>3
    <3>2. PICK r, p, n : r = received[s] /\ p = produced /\ n = stream[s].next
      OBVIOUS
    <3>3. Follows(r, Append(p, kind), n)
      BY <1>a, <2>1, <3>2, FollowsStill
    <3> QED BY <3>1, <3>2, <3>3
  <2> QED BY <1>1, <2>2, <2>3 DEF Produces
<1>2. ASSUME NEW s \in Streams, Moves(s) PROVE FeedFollows'
  <2>1. PICK r : stream' = [stream EXCEPT ![s] = r] /\ r.next = stream[s].next
    BY <1>2 DEF Moves
  <2>2. \A t \in Streams : stream'[t].next = stream[t].next
    BY <1>a, <2>1
  <2>3. received' = received /\ produced' = produced
    BY <1>2 DEF Moves
  <2> QED BY <2>2, <2>3 DEF FeedFollows
<1>3. ASSUME NEW s \in Streams, Turns(s) PROVE FeedFollows'
  <2>1. PICK pieces : \E n : FollowsOn(s, pieces, n)
    BY <1>3 DEF Turns
  <2>2. PICK n : FollowsOn(s, pieces, n)
    BY <2>1
  <2>3. produced' = produced
    BY <1>3 DEF Turns
  <2>4. stream'[s].next = n /\ \A t \in Streams : t # s => stream'[t] = stream[t]
    BY <1>a, <2>2 DEF FollowsOn, GoesOn
  <2>5. received'[s] = received[s] \o pieces /\ \A t \in Streams : t # s => received'[t] = received[t]
    BY <1>a, <2>2 DEF FollowsOn, Receives
  <2>6. Follows(received'[s], produced', stream'[s].next)
    BY <2>2, <2>3, <2>4, <2>5 DEF FollowsOn
  <2>7. ASSUME NEW t \in Streams PROVE Follows(received'[t], produced', stream'[t].next)
    <3>1. CASE t = s
      BY <2>6, <3>1
    <3>2. CASE t # s
      <4>1. Follows(received[t], produced, stream[t].next)
        BY DEF FeedFollows
      <4> QED BY <2>3, <2>4, <2>5, <3>2, <4>1
    <3> QED BY <3>1, <3>2
  <2> QED BY <2>7 DEF FeedFollows
<1> QED BY <1>1, <1>2, <1>3, OnlyTurns

LEMMA FollowStart == Init /\ PlainStore => FeedFollows
<1> SUFFICES ASSUME Init, PlainStore, NEW s \in Streams
             PROVE  Follows(received[s], produced, stream[s].next)
  BY DEF FeedFollows
<1>1. received[s] = <<>> /\ stream[s].next = 1
  BY DEF Init, Closed
<1>2. produced \in Seq(Kinds)
  BY DEF PlainStore
<1> QED BY <1>1, <1>2, NothingFollowed

\* What RunFeed sees of the streams.
Fed   == [s \in Streams |-> Texts(received[s])]
Ended == {s \in Streams : stream[s].pc = "ended"}

\* What a client that waits for number n got is the numbers before it.
LEMMA FollowsIs ==
  ASSUME NEW r, NEW p \in Seq(Kinds), NEW n, Follows(r, p, n)
  PROVE  n \in Nat \ {0} /\ n <= Len(p) + 1 /\ Texts(r) = Feed!UpTo(n - 1) /\ Len(Texts(r)) = n - 1
<1>1. PICK l \in Nat : l = Len(p)
  OBVIOUS
<1>2. n \in 1..(l + 1) /\ Texts(r) = Run(1, n)
  BY <1>1 DEF Follows
<1>3. 1 \in Nat \ {0} /\ n \in Nat /\ 1 <= n
  BY <1>2
<1>4. Len(Run(1, n)) = n - 1
  BY <1>3, RunIs
<1>5. Run(1, n) = [i \in 1..(n - 1) |-> i]
  <2>1. \A i \in 1..(n - 1) : 1 + i - 1 = i
    BY <1>3
  <2> QED BY <2>1 DEF Run
<1> QED BY <1>1, <1>2, <1>3, <1>4, <1>5 DEF Feed!UpTo

LEMMA ProducesFed ==
  ASSUME Produces
  PROVE  [Feed!Next]_<<produced, Fed, Ended>>
<1>1. Fed' = Fed /\ Ended' = Ended
  BY DEF Produces, Fed, Ended
<1>2. CASE produced' = produced
  BY <1>1, <1>2
<1>3. CASE \E kind \in Kinds : produced' = Append(produced, kind)
  BY <1>1, <1>3 DEF Feed!Next, Feed!Produce, Fed, Ended
<1> QED BY <1>2, <1>3 DEF Produces

LEMMA MovesFed ==
  ASSUME FeedTyped, NEW s \in Streams, Moves(s)
  PROVE  UNCHANGED <<produced, Fed, Ended>>
<1>1. produced' = produced /\ Fed' = Fed
  BY DEF Moves, Fed
<1>2. PICK r : stream' = [stream EXCEPT ![s] = r] /\ r.pc # "ended" /\ stream[s].pc # "ended"
  BY DEF Moves
<1>3. \A t \in Streams : stream'[t].pc = "ended" <=> stream[t].pc = "ended"
  BY <1>2 DEF FeedTyped
<1>4. Ended' = Ended
  BY <1>3 DEF Ended
<1> QED BY <1>1, <1>4

LEMMA TurnsFed ==
  ASSUME PlainStore, FeedTyped, FeedFollows, NEW s \in Streams, Turns(s)
  PROVE  Feed!Deliver(s)
<1>1. PICK pieces : \E h : FollowsOn(s, pieces, h)
  BY DEF Turns
<1>2. PICK h : FollowsOn(s, pieces, h)
  BY <1>1
<1>3. produced' = produced /\ stream[s].pc # "ended"
  BY DEF Turns
<1>4. PICK p, m, r, q : p = produced /\ m = stream[s].next /\ r = received[s] /\ q = r \o pieces
  OBVIOUS
<1>5. Follows(r, p, m) /\ Follows(q, p, h) /\ m <= h /\ p \in Seq(Kinds)
  BY <1>2, <1>4 DEF FeedFollows, FollowsOn, PlainStore
<1>6. /\ m \in Nat \ {0} /\ Len(Texts(r)) = m - 1
      /\ h \in Nat \ {0} /\ h <= Len(p) + 1 /\ Texts(q) = Feed!UpTo(h - 1)
  BY <1>5, FollowsIs
<1>7. PICK n : n = h - 1
  OBVIOUS
<1>8. n \in Len(Texts(r)) .. Len(p)
  <2>1. Len(p) \in Nat
    BY <1>5
  <2> QED BY <1>5, <1>6, <1>7, <2>1
<1>9. received' = [received EXCEPT ![s] = q]
  BY <1>2, <1>4 DEF FollowsOn, Receives
<1>10. Fed' = [Fed EXCEPT ![s] = Feed!UpTo(n)] /\ Fed[s] = Texts(r)
  <2>1. received'[s] = q /\ \A t \in Streams : t # s => received'[t] = received[t]
    BY <1>9 DEF FeedTyped
  <2>2. Texts(received'[s]) = Feed!UpTo(n)
        /\ \A t \in Streams : t # s => Texts(received'[t]) = Texts(received[t])
    BY <1>6, <1>7, <2>1
  <2> QED BY <1>4, <2>2 DEF Fed
<1>11. PICK over : over = Has(pieces, IsTerminal)
  OBVIOUS
<1>12. PICK c : c = [pc |-> IF over THEN "ended" ELSE "wait", next |-> h, ahead |-> <<>>]
  OBVIOUS
<1>13. stream' = [stream EXCEPT ![s] = c]
  BY <1>2, <1>11, <1>12 DEF FollowsOn, GoesOn
<1>14. stream'[s] = c /\ \A t \in Streams : t # s => stream'[t] = stream[t]
  BY <1>13 DEF FeedTyped
<1>15. CASE ~over
  <2>1. c.pc # "ended"
    BY <1>12, <1>15
  <2>2. Ended' = Ended
    BY <1>3, <1>14, <2>1 DEF Ended
  <2> QED BY <1>3, <1>4, <1>8, <1>10, <2>2 DEF Feed!Deliver, Fed, Ended
<1>16. CASE over
  <2>1. c.pc = "ended"
    BY <1>12, <1>16
  <2>2. Ended' = Ended \union {s}
    BY <1>14, <2>1 DEF Ended
  <2>3. Has(q, IsTerminal)
    <3>1. PICK i \in DOMAIN pieces : IsTerminal(pieces[i])
      BY <1>11, <1>16 DEF Has
    <3>2. r \in Seq(PieceType) /\ pieces \in Seq(PieceType)
      BY <1>2, <1>5 DEF Follows, FollowsOn
    <3>3. PICK k \in Nat : k = Len(r) + i
      BY <3>1, <3>2
    <3>4. k \in DOMAIN q /\ q[k] = pieces[i]
      <4>1. i \in 1..Len(pieces) /\ Len(pieces) \in Nat /\ Len(r) \in Nat
        BY <3>1, <3>2
      <4>2. Len(q) = Len(r) + Len(pieces) /\ q \in Seq(PieceType)
            /\ \A j \in 1..(Len(r) + Len(pieces)) : q[j] = IF j <= Len(r) THEN r[j] ELSE pieces[j - Len(r)]
        BY <1>4, <3>2, ConcatProperties
      <4>3. k \in 1..(Len(r) + Len(pieces)) /\ ~(k <= Len(r)) /\ k - Len(r) = i
        BY <3>3, <4>1
      <4> QED BY <4>2, <4>3
    <3> QED BY <3>1, <3>4 DEF Has
  <2>4. Over(p, h)
    BY <1>5, <2>3 DEF Follows
  <2>5. \E i \in 1..n : produced[i] = "terminal"
    BY <1>4, <1>7, <2>4 DEF Over
  <2> QED BY <1>3, <1>4, <1>8, <1>10, <2>2, <2>5 DEF Feed!Deliver, Fed, Ended
<1> QED BY <1>15, <1>16

LEMMA FeedRefines ==
  StoreInv /\ PlainStore /\ FeedTyped /\ EventsKnown /\ FeedFollows /\ [Next]_vars
    => [Feed!Next]_<<produced, Fed, Ended>>
<1> SUFFICES ASSUME StoreInv, PlainStore, FeedTyped, EventsKnown, FeedFollows, [Next]_vars
             PROVE  [Feed!Next]_<<produced, Fed, Ended>>
  OBVIOUS
<1>1. ASSUME NEW s \in Streams, Moves(s) PROVE [Feed!Next]_<<produced, Fed, Ended>>
  BY <1>1, MovesFed
<1>2. ASSUME NEW s \in Streams, Turns(s) PROVE [Feed!Next]_<<produced, Fed, Ended>>
  BY <1>2, TurnsFed DEF Feed!Next
<1> QED BY <1>1, <1>2, ProducesFed, OnlyTurns

\* InOrderOnce: as long as the history is short enough not to be collapsed, whatever
\* the hub loses, delays or delivers twice, each client gets what was produced, in
\* order and once, and its stream ends behind the outcome only: the streams
\* implement RunFeed.
THEOREM StreamsInOrder == ASSUME EventBound <= MaxEvents PROVE Spec => InOrderOnce
<1>1. Init => Feed!Init
  <2> SUFFICES ASSUME Init PROVE Feed!Init
    OBVIOUS
  <2>1. Texts(<<>>) = <<>>
    BY PiecesMore DEF Empty
  <2>2. \A s \in Streams : received[s] = <<>> /\ stream[s].pc # "ended"
    BY DEF Init, Closed
  <2> QED BY <2>1, <2>2 DEF Init, Feed!Init
<1>2. Init => StoreInv /\ PlainStore /\ FeedTyped /\ EventsKnown /\ FeedFollows
  BY StoreStart, PlainStart, FeedStart, KnownStart, FollowStart
<1>3. (StoreInv /\ PlainStore /\ FeedTyped /\ EventsKnown /\ FeedFollows) /\ [Next]_vars
        => (StoreInv /\ PlainStore /\ FeedTyped /\ EventsKnown /\ FeedFollows)'
  BY StoreStep, PlainStoreStep, FeedStep, KnownStep, FollowStep
<1>4. [Feed!Next]_<<produced, Fed, Ended>>
        => [Feed!Next]_<<produced, [s \in Streams |-> Texts(received[s])],
                         {s \in Streams : stream[s].pc = "ended"}>>
  BY DEF Fed, Ended
<1> QED BY <1>1, <1>2, <1>3, <1>4, FeedRefines, PTL DEF Spec, InOrderOnce, Feed!Spec
=============================================================================
