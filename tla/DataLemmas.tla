----------------------------- MODULE DataLemmas -----------------------------
(***************************************************************************)
(* Induction, and what follows by it for the sequences that the models     *)
(* build.  The library's induction theorems take an operator, which the    *)
(* provers cannot instantiate; that the natural numbers are well-founded   *)
(* says the same of sets.                                                  *)
(***************************************************************************)
EXTENDS Integers, SequencesExt, SequenceTheorems, WellFoundedInduction, FiniteSetTheorems,
        TLAPS

\* A set of natural numbers has a least element.
LEMMA Least ==
    ASSUME NEW T \in SUBSET Nat, T # {}
    PROVE  \E n \in T : \A k \in T : n <= k
<1>1. IsWellFoundedOn({ss \in Nat \X Nat : ss[1] < ss[2]}, Nat)
  BY NatLessThanWellFounded DEF OpToRel
<1>2. PICK n \in T : \A k \in T : <<k, n>> \notin {ss \in Nat \X Nat : ss[1] < ss[2]}
  BY <1>1, WFMin
<1>3. ASSUME NEW k \in T PROVE n <= k
  <2>1. <<k, n>> \in Nat \X Nat /\ <<k, n>>[1] = k /\ <<k, n>>[2] = n
    OBVIOUS
  <2>2. ~(k < n)
    BY <1>2, <2>1
  <2> QED BY <2>2
<1> QED BY <1>3

\* A set with 0 and the successors of its elements has all natural numbers.
LEMMA Induct ==
    ASSUME NEW S \in SUBSET Nat, 0 \in S, \A n \in S : n + 1 \in S
    PROVE  S = Nat
<1>1. SUFFICES ASSUME Nat \ S # {} PROVE FALSE
  OBVIOUS
<1>2. PICK n \in Nat \ S : \A k \in Nat \ S : n <= k
  BY <1>1, Least
<1>3. n - 1 \in Nat /\ n - 1 \in S
  BY <1>2
<1> QED BY <1>2, <1>3

-----------------------------------------------------------------------------
(* FlattenSeq *)

\* A concatenation has the elements of both.
LEMMA ConcatRange ==
    ASSUME NEW S, NEW s \in Seq(S), NEW t \in Seq(S)
    PROVE  Range(s \o t) = Range(s) \cup Range(t)
<1> DEFINE u == s \o t
<1>1. /\ DOMAIN s = 1..Len(s) /\ Len(s) \in Nat
      /\ DOMAIN t = 1..Len(t) /\ Len(t) \in Nat
      /\ u \in Seq(S) /\ Len(u) = Len(s) + Len(t)
  BY ConcatProperties, LenProperties
<1>2. \A i \in 1..Len(s) + Len(t) : u[i] = IF i <= Len(s) THEN s[i] ELSE t[i - Len(s)]
  BY ConcatProperties
<1>3. DOMAIN u = 1..Len(s) + Len(t)
  BY <1>1, LenProperties
<1> HIDE DEF u
<1>4. ASSUME NEW i \in 1..Len(s) + Len(t) PROVE u[i] \in Range(s) \cup Range(t)
  <2>1. CASE i <= Len(s)
    <3>1. i \in 1..Len(s) /\ u[i] = s[i]
      BY <1>1, <1>2, <2>1
    <3> QED BY <1>1, <3>1 DEF Range
  <2>2. CASE ~(i <= Len(s))
    <3>1. i - Len(s) \in 1..Len(t) /\ u[i] = t[i - Len(s)]
      BY <1>1, <1>2, <2>2
    <3> QED BY <1>1, <3>1 DEF Range
  <2> QED BY <2>1, <2>2
<1>5. ASSUME NEW i \in 1..Len(s) PROVE s[i] \in Range(u)
  <2>1. i \in 1..Len(s) + Len(t) /\ u[i] = s[i]
    BY <1>1, <1>2
  <2> QED BY <1>3, <2>1 DEF Range
<1>6. ASSUME NEW i \in 1..Len(t) PROVE t[i] \in Range(u)
  <2>0. /\ Len(s) + i \in 1..Len(s) + Len(t)
        /\ ~(Len(s) + i <= Len(s)) /\ (Len(s) + i) - Len(s) = i
    BY <1>1
  <2>1. u[Len(s) + i] = t[i]
    BY <1>2, <2>0
  <2> QED BY <1>3, <2>0, <2>1 DEF Range
<1> QED BY <1>1, <1>3, <1>4, <1>5, <1>6 DEF Range, u

\* f is the recursive function of FlattenSeq, for the first n of the sequences.
Flattens(f, ss, n) == f = [i \in 1..n |-> IF i = 1 THEN ss[i] ELSE f[i-1] \o ss[i]]

\* The recursion has a solution.
LEMMA FlattenExists ==
    ASSUME NEW ss, NEW n \in Nat
    PROVE  \E f : Flattens(f, ss, n)
<1> DEFINE T == {k \in Nat : \E f : Flattens(f, ss, k)}
<1>1. 0 \in T
  <2>1. Flattens([i \in 1..0 |-> ss[i]], ss, 0)
    BY DEF Flattens
  <2> QED BY <2>1
<1>2. ASSUME NEW k \in T PROVE k + 1 \in T
  <2>0. k \in Nat /\ k + 1 \in Nat
    OBVIOUS
  <2>1. PICK f : Flattens(f, ss, k)
    OBVIOUS
  <2> DEFINE g == [i \in 1..k+1 |-> IF i = 1 THEN ss[i] ELSE f[i-1] \o ss[i]]
  <2>2. ASSUME NEW i \in 1..k PROVE g[i] = f[i]
    <3>1. f[i] = IF i = 1 THEN ss[i] ELSE f[i-1] \o ss[i]
      BY <2>1 DEF Flattens
    <3>2. g[i] = IF i = 1 THEN ss[i] ELSE f[i-1] \o ss[i]
      BY <2>0
    <3> QED BY <3>1, <3>2
  <2>3. \A i \in 1..k+1 : i # 1 => g[i-1] = f[i-1]
    <3> HIDE DEF g
    <3> TAKE i \in 1..k+1
    <3>1. i # 1 => i - 1 \in 1..k
      BY <2>0
    <3> QED BY <2>2, <3>1
  <2>4. Flattens(g, ss, k + 1)
    BY <2>3 DEF Flattens
  <2> HIDE DEF g
  <2> QED BY <2>0, <2>4
<1>3. T \in SUBSET Nat
  OBVIOUS
<1> HIDE DEF T
<1>4. T = Nat
  BY <1>1, <1>2, <1>3, Induct
<1> QED BY <1>4 DEF T

\* What solves it has the elements of the sequences so far.
LEMMA FlattenPrefix ==
    ASSUME NEW S, NEW n \in Nat \ {0}, NEW ss, NEW f,
           \A i \in 1..n : ss[i] \in Seq(S),
           Flattens(f, ss, n)
    PROVE  /\ f[n] \in Seq(S)
           /\ \A x \in Range(f[n]) : \E i \in 1..n : x \in Range(ss[i])
           /\ \A i \in 1..n : Range(ss[i]) \subseteq Range(f[n])
<1> DEFINE Good(k) == f[k] \in Seq(S) /\ \A x : x \in Range(f[k]) <=> \E i \in 1..k : x \in Range(ss[i])
           T == {k \in Nat : k + 1 <= n => Good(k + 1)}
<1>0. f[1] = ss[1] /\ \A i \in 2..n : f[i] = f[i-1] \o ss[i]
  <2> HIDE DEF Good, T
  <2>1. 1 \in 1..n /\ \A i \in 2..n : i \in 1..n /\ i # 1
    OBVIOUS
  <2>2. \A i \in 1..n : f[i] = IF i = 1 THEN ss[i] ELSE f[i-1] \o ss[i]
    BY DEF Flattens
  <2> QED BY <2>1, <2>2
<1>1. 0 \in T
  <2>1. 1..1 = {1} /\ 1 \in 1..n
    OBVIOUS
  <2>2. Good(1)
    BY <1>0, <2>1
  <2> HIDE DEF Good
  <2> QED BY <2>2
<1>2. ASSUME NEW k \in T PROVE k + 1 \in T
  <2>1. SUFFICES ASSUME (k + 1) + 1 <= n PROVE Good((k + 1) + 1)
    OBVIOUS
  <2> DEFINE j == k + 1
  <2>2. j \in Nat /\ j + 1 \in 2..n /\ (j + 1) - 1 = j /\ j + 1 \in 1..n
    BY <2>1
  <2>3. Good(j)
    <3> HIDE DEF Good
    <3> QED BY <1>2, <2>1
  <2> HIDE DEF j
  <2>4. f[j+1] = f[j] \o ss[j+1] /\ ss[j+1] \in Seq(S)
    BY <1>0, <2>2
  <2>5. f[j+1] \in Seq(S)
    BY <2>3, <2>4, ConcatProperties
  <2>6. Range(f[j+1]) = Range(f[j]) \cup Range(ss[j+1])
    BY <2>3, <2>4, ConcatRange
  <2>7. 1..j+1 = 1..j \cup {j+1}
    BY <2>2
  <2>8. \A x : x \in Range(f[j+1]) <=> \E i \in 1..j+1 : x \in Range(ss[i])
    BY <2>3, <2>6, <2>7
  <2> QED BY <2>5, <2>8 DEF j
<1>3. T \in SUBSET Nat
  OBVIOUS
<1> HIDE DEF T, Good
<1>4. T = Nat
  BY <1>1, <1>2, <1>3, Induct
<1>5. Good(n)
  <2>1. n - 1 \in Nat /\ (n - 1) + 1 = n
    OBVIOUS
  <2>2. n - 1 \in T
    BY <1>4, <2>1
  <2> QED BY <2>1, <2>2 DEF T
<1> QED BY <1>5 DEF Good

\* A flattened sequence has the elements of all the sequences.
LEMMA Flatten ==
    ASSUME NEW S, NEW ss \in Seq(Seq(S))
    PROVE  /\ FlattenSeq(ss) \in Seq(S)
           /\ \A x \in Range(FlattenSeq(ss)) : \E i \in 1..Len(ss) : x \in Range(ss[i])
           /\ \A i \in 1..Len(ss) : Range(ss[i]) \subseteq Range(FlattenSeq(ss))
<1> DEFINE n == Len(ss)
<1>0. n \in Nat /\ DOMAIN ss = 1..n
  BY LenProperties
<1>1. CASE n = 0
  <2>1. ss = << >> /\ FlattenSeq(ss) = ss
    BY <1>1, EmptySeq DEF FlattenSeq
  <2>2. Range(<< >>) = {} /\ 1..Len(ss) = {}
    BY <1>1 DEF Range
  <2>3. << >> \in Seq(S)
    BY EmptySeq
  <2> QED BY <2>1, <2>2, <2>3
<1>2. CASE n # 0
  <2> DEFINE flatten == CHOOSE f : Flattens(f, ss, n)
  <2>1. FlattenSeq(ss) = flatten[n]
    BY <1>2 DEF FlattenSeq, Flattens
  <2>2. \E f : Flattens(f, ss, n)
    <3> HIDE DEF n
    <3> QED BY <1>0, FlattenExists
  <2>3. Flattens(flatten, ss, n)
    BY <2>2
  <2> HIDE DEF flatten, n
  <2>4. n \in Nat \ {0}
    BY <1>0, <1>2
  <2>5. \A i \in 1..n : ss[i] \in Seq(S)
    BY ElementOfSeq DEF n
  <2>6. /\ flatten[n] \in Seq(S)
        /\ \A x \in Range(flatten[n]) : \E i \in 1..n : x \in Range(ss[i])
        /\ \A i \in 1..n : Range(ss[i]) \subseteq Range(flatten[n])
    BY <2>3, <2>4, <2>5, FlattenPrefix
  <2> QED BY <2>1, <2>6 DEF n
<1> QED BY <1>0, <1>1, <1>2

\* Flattening is adding one sequence after the other: the sums of the first 0, 1, 2, ...
LEMMA FlattenSums ==
    ASSUME NEW S, NEW ss \in Seq(Seq(S))
    PROVE  \E f \in [0..Len(ss) -> Seq(S)] :
              /\ f[0] = << >> /\ f[Len(ss)] = FlattenSeq(ss)
              /\ \A i \in 1..Len(ss) : f[i] = f[i - 1] \o ss[i]
<1> DEFINE n == Len(ss)
<1>0. n \in Nat /\ DOMAIN ss = 1..n /\ << >> \in Seq(S) /\ \A i \in 1..n : ss[i] \in Seq(S)
  BY LenProperties, ElementOfSeq, EmptySeq
<1>1. CASE n = 0
  <2>1. FlattenSeq(ss) = << >>
    BY <1>1, EmptySeq DEF FlattenSeq
  <2> HIDE DEF n
  <2>2. [i \in 0..n |-> << >>] \in [0..n -> Seq(S)] /\ 1..n = {} /\ 0 \in 0..n
    BY <1>0, <1>1
  <2> QED BY <1>1, <2>1, <2>2 DEF n
<1>2. CASE n # 0
  <2> DEFINE g == CHOOSE f : Flattens(f, ss, n)
             f == [i \in 0..n |-> IF i = 0 THEN << >> ELSE g[i]]
             T == {k \in Nat : k <= n => f[k] \in Seq(S)}
  <2>1. FlattenSeq(ss) = g[n]
    BY <1>2 DEF FlattenSeq, Flattens
  <2>2. Flattens(g, ss, n)
    <3>1. \E h : Flattens(h, ss, n)
      <4> HIDE DEF n
      <4> QED BY <1>0, FlattenExists
    <3> QED BY <3>1
  <2> HIDE DEF g, n
  <2>3. \A i \in 1..n : g[i] = IF i = 1 THEN ss[i] ELSE g[i-1] \o ss[i]
    BY <2>2 DEF Flattens
  <2>4. \A i \in 1..n : f[i] = g[i] /\ i \in 0..n /\ i - 1 \in 0..n
    BY <1>0
  <2>5. f[0] = << >> /\ f[n] = g[n]
    BY <1>0, <1>2
  <2>6. ASSUME NEW i \in 1..n PROVE f[i] = f[i - 1] \o ss[i]
    <3>1. CASE i = 1
      <4>1. f[1] = ss[1] /\ << >> \o ss[1] = ss[1]
        <5>1. f[1] = ss[1] /\ ss[1] \in Seq(S)
          BY <1>0, <2>3, <2>4, <3>1
        <5> QED BY <5>1, ConcatEmptySeq
      <4>2. i - 1 = 0
        BY <3>1
      <4> HIDE DEF f
      <4> QED BY <2>5, <3>1, <4>1, <4>2
    <3>2. CASE i # 1
      <4>1. i - 1 \in 1..n
        BY <1>0, <3>2
      <4>2. f[i - 1] = g[i - 1] /\ f[i] = g[i]
        BY <2>4, <4>1
      <4> HIDE DEF f
      <4> QED BY <2>3, <3>2, <4>2
    <3> QED BY <3>1, <3>2
  <2>7. DOMAIN f = 0..n
    OBVIOUS
  <2>8. f = [i \in 0..n |-> f[i]]
    OBVIOUS
  <2> HIDE DEF f
  <2>9. 0 \in T
    BY <1>0, <2>5
  <2>10. ASSUME NEW k \in T PROVE k + 1 \in T
    <3>1. SUFFICES ASSUME k + 1 <= n PROVE f[k + 1] \in Seq(S)
      OBVIOUS
    <3>2. k \in Nat /\ k <= n /\ k + 1 \in 1..n /\ (k + 1) - 1 = k
      BY <1>0, <3>1
    <3>3. f[k + 1] = f[k] \o ss[k + 1] /\ f[k] \in Seq(S) /\ ss[k + 1] \in Seq(S)
      BY <1>0, <2>6, <3>2
    <3> QED BY <3>3, ConcatProperties
  <2>11. T = Nat
    <3>1. T \in SUBSET Nat
      OBVIOUS
    <3> HIDE DEF T
    <3> QED BY <2>9, <2>10, <3>1, Induct
  <2>12. \A i \in 0..n : f[i] \in Seq(S)
    <3> TAKE i \in 0..n
    <3>1. i \in T /\ i <= n
      BY <1>0, <2>11
    <3> QED BY <3>1
  <2>13. f \in [0..n -> Seq(S)]
    BY <2>8, <2>12
  <2> QED BY <2>1, <2>5, <2>6, <2>13 DEF n
<1> QED BY <1>1, <1>2

\* A concatenation of sequences without repetitions that share no element has none.
LEMMA ConcatInjective ==
    ASSUME NEW S, NEW s \in Seq(S), NEW t \in Seq(S), IsInjective(s), IsInjective(t),
           Range(s) \cap Range(t) = {}
    PROVE  IsInjective(s \o t)
<1> DEFINE u == s \o t
           m == Len(s)
           n == Len(t)
<1>1. /\ DOMAIN s = 1..m /\ m \in Nat /\ DOMAIN t = 1..n /\ n \in Nat
      /\ u \in Seq(S) /\ Len(u) = m + n
  BY ConcatProperties, LenProperties
<1>2. \A i \in 1..m + n : u[i] = IF i <= m THEN s[i] ELSE t[i - m]
  BY ConcatProperties
<1>3. DOMAIN u = 1..m + n
  BY <1>1, LenProperties
<1> HIDE DEF u, m, n
<1>4. ASSUME NEW i \in 1..m + n, NEW j \in 1..m + n, u[i] = u[j] PROVE i = j
  <2>1. ASSUME NEW k \in 1..m + n
        PROVE  \/ k <= m /\ k \in DOMAIN s /\ u[k] = s[k] /\ s[k] \in Range(s)
               \/ ~(k <= m) /\ k - m \in DOMAIN t /\ u[k] = t[k - m] /\ t[k - m] \in Range(t)
    <3>1. CASE k <= m
      <4>1. k \in DOMAIN s /\ u[k] = s[k]
        BY <1>1, <1>2, <3>1
      <4> QED BY <3>1, <4>1 DEF Range
    <3>2. CASE ~(k <= m)
      <4>1. k - m \in DOMAIN t /\ u[k] = t[k - m]
        BY <1>1, <1>2, <3>2
      <4> QED BY <3>2, <4>1 DEF Range
    <3> QED BY <3>1, <3>2
  <2>2. CASE i <= m
    <3>1. i \in DOMAIN s /\ u[i] = s[i] /\ u[i] \in Range(s)
      BY <2>1, <2>2
    <3>2. j \in DOMAIN s /\ u[j] = s[j]
      BY <1>4, <2>1, <3>1
    <3> QED BY <1>4, <3>1, <3>2 DEF IsInjective
  <2>3. CASE ~(i <= m)
    <3>1. i - m \in DOMAIN t /\ u[i] = t[i - m] /\ u[i] \in Range(t)
      BY <2>1, <2>3
    <3>2. j - m \in DOMAIN t /\ u[j] = t[j - m]
      BY <1>4, <2>1, <3>1
    <3>3. i - m = j - m
      BY <1>4, <3>1, <3>2 DEF IsInjective
    <3> QED BY <1>1, <3>3
  <2> QED BY <2>2, <2>3
<1>5. IsInjective(u)
  BY <1>3, <1>4 DEF IsInjective
<1> QED BY <1>5 DEF u

\* Nor has a flattening of such sequences.
LEMMA FlattenInjective ==
    ASSUME NEW S, NEW ss \in Seq(Seq(S)), \A i \in 1..Len(ss) : IsInjective(ss[i]),
           \A i, j \in 1..Len(ss) : i # j => Range(ss[i]) \cap Range(ss[j]) = {}
    PROVE  IsInjective(FlattenSeq(ss))
<1> DEFINE n == Len(ss)
<1>0. n \in Nat /\ \A i \in 1..n : ss[i] \in Seq(S)
  BY LenProperties, ElementOfSeq
<1>1. PICK f \in [0..n -> Seq(S)] : /\ f[0] = << >> /\ f[n] = FlattenSeq(ss)
                                    /\ \A i \in 1..n : f[i] = f[i - 1] \o ss[i]
  BY FlattenSums
<1> DEFINE Good(k) == /\ IsInjective(f[k])
                      /\ \A x \in Range(f[k]) : \E i \in 1..k : x \in Range(ss[i])
           T == {k \in Nat : k <= n => Good(k)}
<1>2. 0 \in T
  <2>1. DOMAIN f[0] = {}
    BY <1>1
  <2>2. Good(0)
    BY <2>1 DEF IsInjective, Range
  <2> HIDE DEF Good
  <2> QED BY <2>2
<1>3. ASSUME NEW k \in T PROVE k + 1 \in T
  <2>1. SUFFICES ASSUME k + 1 <= n PROVE Good(k + 1)
    OBVIOUS
  <2>2. k \in Nat /\ k <= n /\ k + 1 \in 1..n /\ (k + 1) - 1 = k /\ k \in 0..n
    <3> HIDE DEF n, Good
    <3> QED BY <1>0, <2>1
  <2>3. Good(k)
    <3> HIDE DEF Good
    <3> QED BY <2>2
  <2>4. f[k + 1] = f[k] \o ss[k + 1] /\ f[k] \in Seq(S) /\ ss[k + 1] \in Seq(S)
    BY <1>0, <1>1, <2>2
  <2>5. ASSUME NEW x \in Range(f[k]), x \in Range(ss[k + 1]) PROVE FALSE
    <3>1. PICK i \in 1..k : x \in Range(ss[i])
      BY <2>3
    <3>2. i \in 1..n /\ i # k + 1
      BY <1>0, <2>2
    <3> QED BY <2>2, <2>5, <3>1, <3>2
  <2>6. IsInjective(f[k + 1])
    BY <2>2, <2>3, <2>4, <2>5, ConcatInjective
  <2>7. Range(f[k + 1]) = Range(f[k]) \cup Range(ss[k + 1])
    BY <2>4, ConcatRange
  <2>8. 1..k + 1 = 1..k \cup {k + 1}
    BY <2>2
  <2> QED BY <2>3, <2>6, <2>7, <2>8
<1>4. T = Nat
  <2>1. T \in SUBSET Nat
    OBVIOUS
  <2> HIDE DEF T
  <2> QED BY <1>2, <1>3, <2>1, Induct
<1>5. Good(n)
  <2>1. n \in T /\ n <= n
    <3> HIDE DEF Good, n
    <3> QED BY <1>0, <1>4
  <2> HIDE DEF Good
  <2> QED BY <2>1
<1> QED BY <1>1, <1>5

-----------------------------------------------------------------------------
(* Finite sets and sequences *)

\* A function on 1..n is a sequence.
LEMMA FunctionIsSeq ==
    ASSUME NEW S, NEW n \in Nat, NEW f \in [1..n -> S]
    PROVE  f \in Seq(S) /\ Len(f) = n
<1>1. f \in Seq(S)
  OBVIOUS
<1> QED BY <1>1, LenProperties

\* A finite set of integers has a largest element.
LEMMA Largest ==
    ASSUME NEW S \in SUBSET Int, IsFiniteSet(S), S # {}
    PROVE  \E x \in S : \A y \in S : y <= x
<1> DEFINE Above == [x \in S |-> {y \in S : x < y}]
           T == {Cardinality(Above[x]) : x \in S}
<1>0. \A x \in S : x \in Int /\ \A y \in S : y \in Above[x] <=> x < y
  OBVIOUS
<1>1. \A x \in S : Above[x] \subseteq S /\ IsFiniteSet(Above[x]) /\ Cardinality(Above[x]) \in Nat
  BY FS_Subset, FS_CardinalityType
<1>2. T \in SUBSET Nat /\ T # {}
  BY <1>1
<1>3. PICK n \in T : \A k \in T : n <= k
  BY <1>2, Least
<1>4. PICK x \in S : n = Cardinality(Above[x])
  OBVIOUS
<1>5. ASSUME NEW y \in S, x < y PROVE FALSE
  <2>1. Above[y] \subseteq Above[x] /\ y \in Above[x] /\ y \notin Above[y]
    <3> HIDE DEF Above, T
    <3>1. ASSUME NEW z \in Above[y] PROVE z \in Above[x]
      <4>1. z \in S /\ x \in Int /\ y \in Int /\ z \in Int
        BY <1>0, <1>1
      <4>2. x < z
        BY <1>0, <1>5, <4>1
      <4> QED BY <1>0, <4>1, <4>2
    <3>2. y \in Above[x] /\ y \notin Above[y]
      BY <1>0, <1>5
    <3> QED BY <3>1, <3>2
  <2>2. Cardinality(Above[y]) <= Cardinality(Above[x]) /\ Cardinality(Above[y]) # Cardinality(Above[x])
    BY <1>1, <2>1, FS_Subset
  <2>3. Cardinality(Above[y]) \in T
    OBVIOUS
  <2> HIDE DEF Above, T
  <2>4. n <= Cardinality(Above[y])
    BY <1>3, <2>3
  <2> QED BY <1>1, <1>4, <2>2, <2>4
<1> QED BY <1>5

\* And a smallest one.
LEMMA Smallest ==
    ASSUME NEW S \in SUBSET Int, IsFiniteSet(S), S # {}
    PROVE  \E x \in S : \A y \in S : x <= y
<1> DEFINE Below == [x \in S |-> {y \in S : y < x}]
           T == {Cardinality(Below[x]) : x \in S}
<1>0. \A x \in S : x \in Int /\ \A y \in S : y \in Below[x] <=> y < x
  OBVIOUS
<1>1. \A x \in S : Below[x] \subseteq S /\ IsFiniteSet(Below[x]) /\ Cardinality(Below[x]) \in Nat
  BY FS_Subset, FS_CardinalityType
<1>2. T \in SUBSET Nat /\ T # {}
  BY <1>1
<1>3. PICK n \in T : \A k \in T : n <= k
  BY <1>2, Least
<1>4. PICK x \in S : n = Cardinality(Below[x])
  OBVIOUS
<1>5. ASSUME NEW y \in S, y < x PROVE FALSE
  <2>1. Below[y] \subseteq Below[x] /\ y \in Below[x] /\ y \notin Below[y]
    <3> HIDE DEF Below, T
    <3>1. ASSUME NEW z \in Below[y] PROVE z \in Below[x]
      <4>1. z \in S /\ x \in Int /\ y \in Int /\ z \in Int
        BY <1>0, <1>1
      <4>2. z < x
        BY <1>0, <1>5, <4>1
      <4> QED BY <1>0, <4>1, <4>2
    <3>2. y \in Below[x] /\ y \notin Below[y]
      BY <1>0, <1>5
    <3> QED BY <3>1, <3>2
  <2>2. Cardinality(Below[y]) <= Cardinality(Below[x]) /\ Cardinality(Below[y]) # Cardinality(Below[x])
    BY <1>1, <2>1, FS_Subset
  <2>3. Cardinality(Below[y]) \in T
    OBVIOUS
  <2> HIDE DEF Below, T
  <2>4. n <= Cardinality(Below[y])
    BY <1>3, <2>3
  <2> QED BY <1>1, <1>4, <2>2, <2>4
<1> QED BY <1>5

\* A sequence has finitely many elements.
LEMMA RangeFinite ==
    ASSUME NEW S, NEW s \in Seq(S)
    PROVE  IsFiniteSet(Range(s)) /\ Range(s) \subseteq S
<1>1. Len(s) \in Nat /\ s \in [1..Len(s) -> S] /\ DOMAIN s = 1..Len(s)
  BY LenProperties
<1>2. s \in Surjection(1..Len(s), Range(s))
  <2>1. s \in [1..Len(s) -> Range(s)] /\ \A t \in Range(s) : \E i \in 1..Len(s) : s[i] = t
    BY <1>1 DEF Range
  <2> QED BY <2>1 DEF Surjection
<1>3. IsFiniteSet(1..Len(s))
  BY <1>1, FS_Interval
<1>4. Range(s) \subseteq S
  BY <1>1 DEF Range
<1> QED BY <1>2, <1>3, <1>4, FS_Surjection

\* A sequence of all elements of a set has them and no others.
LEMMA OrdersAreWhole ==
    ASSUME NEW S, IsFiniteSet(S), NEW order \in SetToSeqs(S)
    PROVE  order \in Seq(S) /\ Range(order) = S
<1> DEFINE n == Cardinality(S)
<1>1. n \in Nat
  BY FS_CardinalityType
<1>2. /\ order \in [1..n -> S]
      /\ \A i, j \in 1..n : i # j => order[i] # order[j]
  BY DEF SetToSeqs
<1>3. order \in Injection(1..n, S)
  BY <1>2 DEF Injection, IsInjective
<1>4. Cardinality(1..n) = n
  <2>1. 1 \in Int /\ n \in Int /\ (IF 1 > n THEN 0 ELSE n - 1 + 1) = n
    <3> HIDE DEF n
    <3> QED BY <1>1
  <2> QED BY <2>1, FS_Interval
<1>5. order \in Surjection(1..n, S)
  BY <1>3, <1>4, FS_Injection
<1>6. order \in Seq(S)
  <2> HIDE DEF n
  <2> QED BY <1>1, <1>2, FunctionIsSeq
<1>7. DOMAIN order = 1..n
  BY <1>2
<1> QED BY <1>2, <1>5, <1>6, <1>7 DEF Surjection, Range
=============================================================================
