-------------------------- MODULE HashRing_proofs --------------------------
(***************************************************************************)
(* What the operators of HashRing compute: a ring has its virtual nodes in *)
(* ascending order, and Get finds the owner of a key on it.                *)
(***************************************************************************)
EXTENDS HashRing, DataLemmas

\* The counts by which Sorted takes the elements of s.
Less(s) == [x \in Int |-> {j \in DOMAIN s : s[j] < x}]
UpTo(s) == [x \in Int |-> {j \in DOMAIN s : s[j] <= x}]
Ranked(s, i, x) == Cardinality(Less(s)[x]) < i /\ Cardinality(UpTo(s)[x]) >= i

\* They are numbers, and grow.
LEMMA Counts ==
    ASSUME NEW s \in Seq(Int), NEW x \in Int
    PROVE  /\ Cardinality(Less(s)[x]) \in Nat
           /\ Cardinality(UpTo(s)[x]) \in 0..Len(s)
           /\ x \in Range(s) => Cardinality(Less(s)[x]) < Cardinality(UpTo(s)[x])
           /\ \A y \in Int : y < x => Cardinality(UpTo(s)[y]) <= Cardinality(Less(s)[x])
<1>0. Len(s) \in Nat /\ DOMAIN s = 1..Len(s) /\ \A j \in 1..Len(s) : s[j] \in Int
  BY LenProperties, ElementOfSeq
<1>1. IsFiniteSet(1..Len(s)) /\ Cardinality(1..Len(s)) = Len(s)
  <2>1. 1 \in Int /\ Len(s) \in Int /\ (IF 1 > Len(s) THEN 0 ELSE Len(s) - 1 + 1) = Len(s)
    BY <1>0
  <2> QED BY <2>1, FS_Interval
<1>2. ASSUME NEW T \in SUBSET (1..Len(s)) PROVE IsFiniteSet(T) /\ Cardinality(T) \in 0..Len(s)
  <2>1. IsFiniteSet(T) /\ Cardinality(T) <= Len(s)
    BY <1>1, FS_Subset
  <2>2. Cardinality(T) \in Nat
    BY <2>1, FS_CardinalityType
  <2> QED BY <1>0, <2>1, <2>2
<1>3. \A y \in Int : Less(s)[y] \in SUBSET (1..Len(s)) /\ UpTo(s)[y] \in SUBSET (1..Len(s))
  BY <1>0 DEF Less, UpTo
<1>4. ASSUME x \in Range(s) PROVE Cardinality(Less(s)[x]) < Cardinality(UpTo(s)[x])
  <2>1. PICK j \in 1..Len(s) : s[j] = x
    BY <1>0, <1>4 DEF Range
  <2>2. Less(s)[x] \subseteq UpTo(s)[x] /\ j \in UpTo(s)[x] /\ j \notin Less(s)[x]
    BY <1>0, <2>1 DEF Less, UpTo
  <2>3. /\ IsFiniteSet(UpTo(s)[x]) /\ Cardinality(UpTo(s)[x]) \in Nat
        /\ Cardinality(Less(s)[x]) \in Nat
    BY <1>2, <1>3
  <2> QED BY <2>2, <2>3, FS_Subset
<1>5. ASSUME NEW y \in Int, y < x PROVE Cardinality(UpTo(s)[y]) <= Cardinality(Less(s)[x])
  <2>1. UpTo(s)[y] \subseteq Less(s)[x]
    BY <1>0, <1>5 DEF Less, UpTo
  <2>2. IsFiniteSet(Less(s)[x])
    BY <1>2, <1>3
  <2> QED BY <2>1, <2>2, FS_Subset
<1>6. Cardinality(Less(s)[x]) \in Nat /\ Cardinality(UpTo(s)[x]) \in 0..Len(s)
  BY <1>2, <1>3
<1> QED BY <1>4, <1>5, <1>6

\* Every place has an element.
LEMMA RankExists ==
    ASSUME NEW s \in Seq(Int), NEW i \in 1..Len(s)
    PROVE  \E x \in Range(s) : Ranked(s, i, x)
<1>0. /\ Len(s) \in Nat /\ DOMAIN s = 1..Len(s) /\ IsFiniteSet(Range(s)) /\ Range(s) \in SUBSET Int
      /\ \A j \in 1..Len(s) : s[j] \in Range(s)
  BY LenProperties, RangeFinite DEF Range
<1> DEFINE C == {x \in Range(s) : Cardinality(UpTo(s)[x]) >= i}
<1>1. PICK top \in Range(s) : \A y \in Range(s) : y <= top
  BY <1>0, Largest
<1>2. UpTo(s)[top] = 1..Len(s)
  BY <1>0, <1>1 DEF UpTo
<1>3. top \in C
  BY <1>0, <1>2, FS_Interval
<1>4. IsFiniteSet(C) /\ C \in SUBSET Int /\ C # {}
  BY <1>0, <1>3, FS_Subset
<1>5. PICK x \in C : \A y \in C : x <= y
  BY <1>4, Smallest
<1>6. Cardinality(Less(s)[x]) < i
  <2> DEFINE B == {y \in Range(s) : y < x}
  <2>1. SUFFICES ASSUME ~(Cardinality(Less(s)[x]) < i) PROVE FALSE
    OBVIOUS
  <2>2. x \in Int /\ Cardinality(Less(s)[x]) \in Nat
    BY <1>4, Counts
  <2>3. Less(s)[x] # {}
    <3>1. Cardinality({}) = 0 /\ i >= 1
      BY FS_EmptySet
    <3>2. Less(s)[x] = {} => Cardinality(Less(s)[x]) < i
      BY <3>1, Z3
    <3> QED BY <2>1, <3>2
  <2>4. PICK j \in 1..Len(s) : s[j] < x
    BY <1>0, <2>2, <2>3 DEF Less
  <2>5. IsFiniteSet(B) /\ B \in SUBSET Int /\ B # {}
    BY <1>0, <2>4, FS_Subset
  <2>6. PICK y \in B : \A z \in B : z <= y
    BY <2>5, Largest
  <2>7. Less(s)[x] = UpTo(s)[y]
    <3>1. y \in Int /\ y < x
      BY <2>5
    <3>2. ASSUME NEW k \in 1..Len(s) PROVE s[k] < x <=> s[k] <= y
      <4>1. s[k] \in Range(s) /\ s[k] \in Int
        BY <1>0
      <4>2. s[k] < x => s[k] \in B
        BY <4>1
      <4> QED BY <2>2, <2>6, <3>1, <4>1, <4>2
    <3> QED BY <1>0, <2>2, <3>1, <3>2 DEF Less, UpTo
  <2>8. y \in C
    BY <2>1, <2>2, <2>7
  <2> QED BY <1>5, <2>2, <2>5, <2>6, <2>8
<1> QED BY <1>5, <1>6 DEF Ranked

-----------------------------------------------------------------------------
(* sort.Ints and sort.Search *)

\* And only one.
LEMMA RankUnique ==
    ASSUME NEW s \in Seq(Int), NEW i \in Int, NEW j \in Int, NEW x \in Int, NEW y \in Int,
           Ranked(s, i, x), Ranked(s, j, y), i <= j
    PROVE  x <= y
<1>1. SUFFICES ASSUME y < x PROVE FALSE
  OBVIOUS
<1>2. Cardinality(UpTo(s)[y]) <= Cardinality(Less(s)[x])
  BY <1>1, Counts
<1>3. Cardinality(UpTo(s)[y]) \in Nat /\ Cardinality(Less(s)[x]) \in Nat
  <2>1. Cardinality(UpTo(s)[y]) \in 0..Len(s) /\ Len(s) \in Nat
    BY Counts, LenProperties
  <2> QED BY <2>1, Counts
<1>4. Cardinality(Less(s)[x]) < i /\ Cardinality(UpTo(s)[y]) >= j
  BY DEF Ranked
<1> QED BY <1>2, <1>3, <1>4

\* sort.Ints leaves the same keys, in ascending order (consistenthash.go:45).
THEOREM SortedIsSorted ==
    ASSUME NEW s \in Seq(Int)
    PROVE  /\ Sorted(s) \in Seq(Int) /\ Len(Sorted(s)) = Len(s)
           /\ Range(Sorted(s)) = Range(s)
           /\ \A i, j \in 1..Len(s) : i <= j => Sorted(s)[i] <= Sorted(s)[j]
<1> DEFINE t == Sorted(s)
<1>0. Len(s) \in Nat /\ DOMAIN s = 1..Len(s) /\ Range(s) \subseteq Int
  BY LenProperties, RangeFinite
<1>1. t = [i \in 1..Len(s) |-> CHOOSE x \in Range(s) : Ranked(s, i, x)]
  <2>1. ASSUME NEW i \in 1..Len(s), NEW x \in Range(s)
        PROVE  Ranked(s, i, x) <=> /\ Cardinality({j \in DOMAIN s : s[j] < x}) < i
                                   /\ Cardinality({j \in DOMAIN s : s[j] <= x}) >= i
    <3>1. x \in Int
      BY <1>0
    <3>2. Less(s)[x] = {j \in DOMAIN s : s[j] < x} /\ UpTo(s)[x] = {j \in DOMAIN s : s[j] <= x}
      BY <3>1 DEF Less, UpTo
    <3> QED BY <3>2 DEF Ranked
  <2>2. t = [i \in 1..Len(s) |-> CHOOSE x \in Range(s) :
               /\ Cardinality({j \in DOMAIN s : s[j] < x}) < i
               /\ Cardinality({j \in DOMAIN s : s[j] <= x}) >= i]
    BY <1>0 DEF Sorted
  <2>3. ASSUME NEW i \in 1..Len(s)
        PROVE  (CHOOSE x \in Range(s) : Ranked(s, i, x))
             = (CHOOSE x \in Range(s) : /\ Cardinality({j \in DOMAIN s : s[j] < x}) < i
                                        /\ Cardinality({j \in DOMAIN s : s[j] <= x}) >= i)
    BY <2>1
  <2> HIDE DEF t
  <2> QED BY <2>2, <2>3
<1> HIDE DEF t
<1>2. ASSUME NEW i \in 1..Len(s) PROVE t[i] \in Range(s) /\ Ranked(s, i, t[i])
  <2>1. t[i] = CHOOSE x \in Range(s) : Ranked(s, i, x)
    BY <1>1
  <2> QED BY <2>1, RankExists
<1>3. t \in Seq(Int) /\ Len(t) = Len(s)
  <2>1. t \in [1..Len(s) -> Int]
    <3>1. t = [i \in 1..Len(s) |-> t[i]]
      BY <1>1
    <3> QED BY <1>0, <1>2, <3>1
  <2> QED BY <1>0, <2>1
<1>4. DOMAIN t = 1..Len(s)
  BY <1>1
<1>5. Range(t) \subseteq Range(s)
  BY <1>2, <1>4 DEF Range
<1>6. ASSUME NEW x \in Range(s) PROVE x \in Range(t)
  <2> DEFINE i == Cardinality(UpTo(s)[x])
  <2>1. x \in Int
    BY <1>0
  <2>2. i \in 0..Len(s) /\ Cardinality(Less(s)[x]) < i /\ Cardinality(Less(s)[x]) \in Nat
    BY <2>1, Counts
  <2>3. i \in 1..Len(s) /\ i \in Int /\ i >= i
    <3> HIDE DEF i
    <3> QED BY <1>0, <2>2
  <2>4. Ranked(s, i, x)
    BY <2>2, <2>3 DEF Ranked
  <2> HIDE DEF i
  <2>5. Ranked(s, i, t[i]) /\ t[i] \in Int
    BY <1>0, <1>2, <2>3
  <2>6. t[i] <= x /\ x <= t[i]
    BY <2>1, <2>3, <2>4, <2>5, RankUnique
  <2>7. t[i] = x
    BY <2>1, <2>5, <2>6
  <2> QED BY <1>4, <2>3, <2>7 DEF Range
<1>7. ASSUME NEW i \in 1..Len(s), NEW j \in 1..Len(s), i <= j PROVE t[i] <= t[j]
  <2>1. i \in Int /\ j \in Int /\ t[i] \in Int /\ t[j] \in Int
    BY <1>0, <1>2
  <2> QED BY <1>2, <1>7, <2>1, RankUnique
<1> QED BY <1>3, <1>5, <1>6, <1>7 DEF t

\* sort.Search finds the first key that is h or more.
LEMMA SearchFinds ==
    ASSUME NEW keys \in Seq(Int), NEW h \in Int
    PROVE  /\ Search(keys, h) \in 0..Len(keys)
           /\ Search(keys, h) < Len(keys) => keys[Search(keys, h) + 1] >= h
           /\ \A j \in 1..Search(keys, h) : keys[j] < h
<1> DEFINE I == {i \in 1..Len(keys) : keys[i] >= h}
<1>0. Len(keys) \in Nat /\ \A i \in 1..Len(keys) : keys[i] \in Int
  BY LenProperties, ElementOfSeq
<1>1. Search(keys, h) = IF (IF I # {} THEN Min(I) ELSE 0) = 0 THEN Len(keys)
                        ELSE (IF I # {} THEN Min(I) ELSE 0) - 1
  BY DEF Search, SelectInSeq
<1>2. CASE I = {}
  <2>1. Search(keys, h) = Len(keys)
    BY <1>1, <1>2
  <2>2. \A j \in 1..Len(keys) : keys[j] < h
    BY <1>0, <1>2
  <2> QED BY <1>0, <2>1, <2>2
<1>3. CASE I # {}
  <2>1. I \in SUBSET Nat
    OBVIOUS
  <2>2. \E n \in I : \A k \in I : n <= k
    <3> HIDE DEF I
    <3> QED BY <1>3, <2>1, Least
  <2>3. Min(I) \in I /\ \A k \in I : Min(I) <= k
    BY <2>2 DEF Min
  <2> DEFINE n == Min(I)
  <2>4. n \in 1..Len(keys) /\ keys[n] >= h
    BY <2>3
  <2>5. \A j \in 1..Len(keys) : j < n => ~(keys[j] >= h)
    <3> SUFFICES ASSUME NEW j \in 1..Len(keys), j < n, keys[j] >= h PROVE FALSE
      OBVIOUS
    <3>1. j \in I
      OBVIOUS
    <3>2. n <= j
      BY <2>3, <3>1
    <3> HIDE DEF n
    <3> QED BY <2>4, <3>2
  <2>6. Search(keys, h) = n - 1
    <3>1. n # 0
      <4> HIDE DEF n
      <4> QED BY <2>4
    <3> QED BY <1>1, <1>3, <3>1
  <2> HIDE DEF n, I
  <2>7. n - 1 \in 0..Len(keys) /\ (n - 1) + 1 = n
    BY <1>0, <2>4
  <2>8. ASSUME NEW j \in 1..n-1 PROVE keys[j] < h
    <3>1. j \in 1..Len(keys) /\ j < n
      BY <1>0, <2>4
    <3> QED BY <1>0, <2>5, <3>1
  <2> QED BY <2>4, <2>6, <2>7, <2>8
<1> QED BY <1>2, <1>3

-----------------------------------------------------------------------------
(* Add and Get *)

\* Add's loops come to every virtual node of every node.
LEMMA VirtualsAreAll ==
    ASSUME NEW N, NEW nodes \in Seq(N), NEW hash \in [N -> Seq(Int)]
    PROVE  /\ Virtuals(nodes, hash) \in Seq(Int \X N)
           /\ \A x \in Range(Virtuals(nodes, hash)) : x[2] \in Range(nodes) /\ x[1] \in Range(hash[x[2]])
           /\ \A n \in Range(nodes) : \A h \in Range(hash[n]) : <<h, n>> \in Range(Virtuals(nodes, hash))
<1> DEFINE part(n) == [j \in DOMAIN hash[n] |-> <<hash[n][j], n>>]
           parts == [i \in DOMAIN nodes |-> part(nodes[i])]
<1>0. /\ Len(nodes) \in Nat /\ DOMAIN nodes = 1..Len(nodes)
      /\ \A i \in 1..Len(nodes) : nodes[i] \in N /\ nodes[i] \in Range(nodes)
  BY LenProperties, ElementOfSeq DEF Range
<1>1. Virtuals(nodes, hash) = FlattenSeq(parts)
  BY DEF Virtuals
<1>2. ASSUME NEW n \in N
      PROVE  /\ part(n) \in Seq(Int \X N)
             /\ \A x \in Range(part(n)) : x[2] = n /\ x[1] \in Range(hash[n])
             /\ \A h \in Range(hash[n]) : <<h, n>> \in Range(part(n))
  <2>1. /\ hash[n] \in Seq(Int) /\ Len(hash[n]) \in Nat /\ DOMAIN hash[n] = 1..Len(hash[n])
        /\ \A j \in 1..Len(hash[n]) : hash[n][j] \in Int
    BY LenProperties, ElementOfSeq
  <2>2. part(n) \in [1..Len(hash[n]) -> Int \X N] /\ DOMAIN part(n) = DOMAIN hash[n]
    BY <2>1
  <2>3. part(n) \in Seq(Int \X N)
    BY <2>1, <2>2, FunctionIsSeq
  <2>4. \A j \in DOMAIN hash[n] : part(n)[j] = <<hash[n][j], n>>
    OBVIOUS
  <2> HIDE DEF part
  <2>5. ASSUME NEW x \in Range(part(n)) PROVE x[2] = n /\ x[1] \in Range(hash[n])
    <3>1. PICK j \in DOMAIN hash[n] : x = <<hash[n][j], n>>
      BY <2>2, <2>4 DEF Range
    <3> QED BY <3>1 DEF Range
  <2>6. ASSUME NEW h \in Range(hash[n]) PROVE <<h, n>> \in Range(part(n))
    <3>1. PICK j \in DOMAIN hash[n] : h = hash[n][j]
      BY DEF Range
    <3> QED BY <2>2, <2>4, <3>1 DEF Range
  <2> QED BY <2>3, <2>5, <2>6
<1> HIDE DEF part
<1>3. parts \in Seq(Seq(Int \X N)) /\ Len(parts) = Len(nodes)
  <2>1. parts \in [1..Len(nodes) -> Seq(Int \X N)]
    BY <1>0, <1>2
  <2> QED BY <1>0, <2>1, FunctionIsSeq
<1>4. \A i \in 1..Len(nodes) : parts[i] = part(nodes[i])
  BY <1>0
<1> HIDE DEF parts
<1>5. /\ FlattenSeq(parts) \in Seq(Int \X N)
      /\ \A x \in Range(FlattenSeq(parts)) : \E i \in 1..Len(parts) : x \in Range(parts[i])
      /\ \A i \in 1..Len(parts) : Range(parts[i]) \subseteq Range(FlattenSeq(parts))
  BY <1>3, Flatten
<1>6. ASSUME NEW x \in Range(FlattenSeq(parts)) PROVE x[2] \in Range(nodes) /\ x[1] \in Range(hash[x[2]])
  <2>1. PICK i \in 1..Len(nodes) : x \in Range(part(nodes[i]))
    BY <1>3, <1>4, <1>5
  <2>2. x[2] = nodes[i] /\ x[1] \in Range(hash[nodes[i]])
    BY <1>0, <1>2, <2>1
  <2> QED BY <1>0, <2>2
<1>7. ASSUME NEW n \in Range(nodes), NEW h \in Range(hash[n]) PROVE <<h, n>> \in Range(FlattenSeq(parts))
  <2>1. PICK i \in 1..Len(nodes) : n = nodes[i]
    BY <1>0 DEF Range
  <2>2. <<h, n>> \in Range(parts[i])
    BY <1>0, <1>2, <1>4, <2>1
  <2> QED BY <1>3, <1>5, <2>2
<1> QED BY <1>1, <1>5, <1>6, <1>7

\* What a ring is.
IsRing(r, nodes, hash) ==
    /\ r.keys \in Seq(Int)
    /\ \A i, j \in 1..Len(r.keys) : i <= j => r.keys[i] <= r.keys[j]
    /\ \A n \in nodes : Range(hash[n]) \subseteq Range(r.keys)
    /\ \A h \in Range(r.keys) : /\ h \in DOMAIN r.nodeAt
                                /\ r.nodeAt[h] \in nodes
                                /\ h \in Range(hash[r.nodeAt[h]])

\* Add of some nodes makes a ring of them: every virtual node's hash is a key, no other
\* is, the keys ascend, and hashMap has a node with that hash for each, whether hashes
\* collide or not (consistenthash.go:34-46).
THEOREM AddMakesRing ==
    ASSUME NEW N, NEW nodes \in Seq(N), NEW hash \in [N -> Seq(Int)]
    PROVE  IsRing(AddNodes(nodes, hash), Range(nodes), hash)
<1> DEFINE v == Virtuals(nodes, hash)
           keys == [i \in DOMAIN v |-> v[i][1]]
           at(h) == {i \in DOMAIN v : v[i][1] = h}
           r == AddNodes(nodes, hash)
<1>1. /\ v \in Seq(Int \X N)
      /\ \A x \in Range(v) : x[2] \in Range(nodes) /\ x[1] \in Range(hash[x[2]])
      /\ \A n \in Range(nodes) : \A h \in Range(hash[n]) : <<h, n>> \in Range(v)
  BY VirtualsAreAll
<1>2. r = [keys |-> Sorted(keys), nodeAt |-> [h \in Range(keys) |-> v[Max(at(h))][2]]]
  BY DEF AddNodes
<1> HIDE DEF v, r
<1>3. /\ Len(v) \in Nat /\ DOMAIN v = 1..Len(v)
      /\ \A i \in 1..Len(v) : v[i] \in Int \X N /\ v[i] \in Range(v)
  BY <1>1, LenProperties, ElementOfSeq DEF Range
<1>4. keys \in Seq(Int) /\ DOMAIN keys = 1..Len(v) /\ \A i \in 1..Len(v) : keys[i] = v[i][1]
  <2>1. keys \in [1..Len(v) -> Int]
    BY <1>3
  <2> QED BY <1>3, <2>1
<1>5. \A h : at(h) = {i \in 1..Len(v) : v[i][1] = h}
  BY <1>3
<1> HIDE DEF keys, at
<1>6. r.keys = Sorted(keys) /\ r.nodeAt = [h \in Range(keys) |-> v[Max(at(h))][2]]
  BY <1>2
<1>7. /\ r.keys \in Seq(Int) /\ Range(r.keys) = Range(keys)
      /\ \A i, j \in 1..Len(r.keys) : i <= j => r.keys[i] <= r.keys[j]
  BY <1>4, <1>6, SortedIsSorted
<1>8. ASSUME NEW n \in Range(nodes), NEW h \in Range(hash[n]) PROVE h \in Range(keys)
  <2>1. PICK i \in 1..Len(v) : v[i] = <<h, n>>
    BY <1>1, <1>3 DEF Range
  <2>2. keys[i] = h /\ i \in DOMAIN keys
    BY <1>4, <2>1
  <2> QED BY <2>2 DEF Range
<1>9. ASSUME NEW h \in Range(keys)
      PROVE  /\ h \in DOMAIN r.nodeAt
             /\ r.nodeAt[h] \in Range(nodes)
             /\ h \in Range(hash[r.nodeAt[h]])
  <2>1. PICK k \in 1..Len(v) : v[k][1] = h
    BY <1>4 DEF Range
  <2>2. at(h) \in SUBSET Int /\ IsFiniteSet(at(h)) /\ at(h) # {}
    <3>1. IsFiniteSet(1..Len(v))
      BY <1>3, FS_Interval
    <3>2. at(h) \subseteq 1..Len(v) /\ k \in at(h)
      BY <1>5, <2>1
    <3> QED BY <3>1, <3>2, FS_Subset
  <2>3. \E x \in at(h) : \A y \in at(h) : x >= y
    <3>1. PICK x \in at(h) : \A y \in at(h) : y <= x
      BY <2>2, Largest
    <3>2. \A y \in at(h) : x >= y
      BY <2>2, <3>1
    <3> QED BY <3>2
  <2>4. Max(at(h)) \in at(h)
    BY <2>3 DEF Max
  <2> DEFINE i == Max(at(h))
  <2> HIDE DEF i
  <2>5. i \in 1..Len(v) /\ v[i][1] = h
    BY <1>5, <2>4 DEF i
  <2>6. r.nodeAt[h] = v[i][2] /\ h \in DOMAIN r.nodeAt
    BY <1>6 DEF i
  <2>7. v[i][2] \in Range(nodes) /\ h \in Range(hash[v[i][2]])
    BY <1>1, <1>3, <2>5
  <2> QED BY <2>6, <2>7
<1> QED BY <1>7, <1>8, <1>9 DEF IsRing, r

\* a is the first of the keys K at h or after it, going round.
IsNext(a, h, K) == a \in K /\ \A k \in K : NotBefore(h, a, k)

\* There is one such key.
LEMMA NextIsOne ==
    ASSUME NEW K \in SUBSET Int, NEW h \in Int, NEW a, NEW b, IsNext(a, h, K), IsNext(b, h, K)
    PROVE  a = b
<1>1. a \in Int /\ b \in Int /\ NotBefore(h, a, b) /\ NotBefore(h, b, a)
  BY DEF IsNext
<1> QED BY <1>1 DEF NotBefore

\* If the keys ascend, Get looks up the next.
LEMMA GetIsNext ==
    ASSUME NEW r, r.keys \in Seq(Int), r.keys # << >>,
           \A i, j \in 1..Len(r.keys) : i <= j => r.keys[i] <= r.keys[j],
           NEW h \in Int
    PROVE  \E a : /\ IsNext(a, h, Range(r.keys))
                 /\ GetNode(r, h) = IF a \in DOMAIN r.nodeAt THEN r.nodeAt[a] ELSE NoNode
<1>0. /\ Len(r.keys) \in Nat /\ DOMAIN r.keys = 1..Len(r.keys)
      /\ \A i \in 1..Len(r.keys) : r.keys[i] \in Int /\ r.keys[i] \in Range(r.keys)
  BY LenProperties, ElementOfSeq DEF Range
<1> DEFINE n == Len(r.keys)
           s == Search(r.keys, h)
           i == (s % n) + 1
           a == r.keys[i]
<1>1. n \in Nat \ {0}
  BY <1>0, EmptySeq
<1>2. /\ s \in 0..n /\ (s < n => r.keys[s + 1] >= h)
      /\ \A j \in 1..s : r.keys[j] < h
  BY <1>0, SearchFinds
<1>3. i \in 1..n /\ (s < n => i = s + 1) /\ (s = n => i = 1)
  <2> HIDE DEF n, s
  <2>1. CASE s < n
    BY SMTT(20), <1>1, <1>2, <2>1
  <2>2. CASE s = n
    BY <1>1, <2>2
  <2> QED BY <1>1, <1>2, <2>1, <2>2
<1>4. GetNode(r, h) = IF a \in DOMAIN r.nodeAt THEN r.nodeAt[a] ELSE NoNode
  BY DEF GetNode, NodeOfIndex
<1> HIDE DEF n, s, i
<1>5. a \in Int /\ a \in Range(r.keys)
  BY <1>0, <1>3 DEF n
<1> HIDE DEF a
<1>6. ASSUME NEW b \in Range(r.keys) PROVE NotBefore(h, a, b)
  <2>1. PICK j \in 1..n : r.keys[j] = b
    BY <1>0 DEF Range, n
  <2>2. b \in Int
    BY <1>0, <2>1 DEF n
  <2>3. CASE j >= i /\ s < n
    <3>1. h <= a /\ a <= b
      BY <1>0, <1>2, <1>3, <1>5, <2>1, <2>2, <2>3 DEF n, a
    <3> QED BY <3>1 DEF NotBefore
  <2>4. CASE j < i /\ s < n
    <3>1. j \in 1..s
      BY <1>1, <1>2, <1>3, <2>1, <2>4
    <3>2. b < h
      BY <1>2, <2>1, <3>1
    <3>3. h <= a
      BY <1>2, <1>3, <1>5, <2>4 DEF a
    <3>4. b < h /\ h <= a
      BY <3>2, <3>3
    <3> QED BY <3>4 DEF NotBefore
  <2>5. CASE s = n
    <3>1. b < h /\ a <= b
      BY <1>0, <1>1, <1>2, <1>3, <1>5, <2>1, <2>2, <2>5 DEF n, a
    <3> QED BY <3>1 DEF NotBefore
  <2> QED BY <1>1, <1>2, <1>3, <2>1, <2>3, <2>4, <2>5
<1> QED BY <1>4, <1>5, <1>6 DEF IsNext

\* On a ring, Get answers a node with the first virtual node at the key's hash or after
\* it, going round, and none only if the ring is empty (consistenthash.go:49-61).
THEOREM GetFindsOwner ==
    ASSUME NEW N, NEW hash \in [N -> Seq(Int)], NEW nodes \in SUBSET N,
           NEW r, IsRing(r, nodes, hash), NEW h \in Int
    PROVE  IF r.keys = << >> THEN GetNode(r, h) = NoNode
           ELSE GetNode(r, h) \in nodes /\ IsOwner(GetNode(r, h), h, nodes, hash)
<1>1. CASE r.keys = << >>
  BY <1>1 DEF GetNode
<1>2. CASE r.keys # << >>
  <2> DEFINE o == GetNode(r, h)
  <2>1. PICK a : /\ IsNext(a, h, Range(r.keys))
                 /\ o = IF a \in DOMAIN r.nodeAt THEN r.nodeAt[a] ELSE NoNode
    BY <1>2, GetIsNext DEF IsRing
  <2> HIDE DEF o
  <2>2. a \in Range(r.keys) /\ o \in nodes /\ o \in N /\ a \in Range(hash[o])
    BY <2>1 DEF IsRing, IsNext
  <2>3. PICK x \in DOMAIN hash[o] : hash[o][x] = a
    BY <2>2 DEF Range
  <2>4. ASSUME NEW p \in nodes, NEW y \in DOMAIN hash[p] PROVE NotBefore(h, hash[o][x], hash[p][y])
    <3>1. hash[p][y] \in Range(r.keys)
      BY DEF IsRing, Range
    <3> QED BY <2>1, <2>3, <3>1 DEF IsNext
  <2> QED BY <1>2, <2>2, <2>4 DEF IsOwner, o
<1> QED BY <1>1, <1>2

\* If hashes do not collide there is no other.
LEMMA OwnerIsOne ==
    ASSUME NEW N, NEW hash \in [N -> Seq(Int)], NEW nodes \in SUBSET N, Distinct(nodes, hash),
           NEW h \in Int, NEW a \in nodes, NEW b \in nodes,
           IsOwner(a, h, nodes, hash), IsOwner(b, h, nodes, hash)
    PROVE  a = b
<1>1. PICK i \in DOMAIN hash[a] : \A o \in nodes : \A j \in DOMAIN hash[o] : NotBefore(h, hash[a][i], hash[o][j])
  BY DEF IsOwner
<1>2. PICK j \in DOMAIN hash[b] : \A o \in nodes : \A k \in DOMAIN hash[o] : NotBefore(h, hash[b][j], hash[o][k])
  BY DEF IsOwner
<1>3. hash[a][i] \in Int /\ hash[b][j] \in Int
  <2>1. \A n \in N : \A k \in DOMAIN hash[n] : hash[n][k] \in Int
    BY LenProperties
  <2> QED BY <2>1
<1>4. NotBefore(h, hash[a][i], hash[b][j]) /\ NotBefore(h, hash[b][j], hash[a][i])
  BY <1>1, <1>2
<1>5. hash[a][i] = hash[b][j]
  <2> DEFINE x == hash[a][i]
             y == hash[b][j]
  <2>1. x \in Int /\ y \in Int /\ NotBefore(h, x, y) /\ NotBefore(h, y, x)
    BY <1>3, <1>4
  <2> HIDE DEF x, y
  <2>2. x = y
    BY <2>1 DEF NotBefore
  <2> QED BY <2>2 DEF x, y
<1> QED BY <1>5 DEF Distinct

\* If hashes do not collide, two rings made of the same nodes agree on every key, in
\* whatever order Add was given the nodes (main.go takes them from a map).
THEOREM OrderDoesNotMatter ==
    ASSUME NEW N, NEW hash \in [N -> Seq(Int)], NEW s \in Seq(N), NEW t \in Seq(N),
           Range(s) = Range(t), Distinct(Range(s), hash), NEW h \in Int
    PROVE  GetNode(AddNodes(s, hash), h) = GetNode(AddNodes(t, hash), h)
<1> DEFINE r == AddNodes(s, hash)
           q == AddNodes(t, hash)
           nodes == Range(s)
<1>1. IsRing(r, nodes, hash) /\ IsRing(q, nodes, hash)
  BY AddMakesRing
<1>2. nodes \in SUBSET N
  BY RangeFinite
<1> HIDE DEF r, q, nodes
<1>3. r.keys = << >> <=> q.keys = << >>
  <2>1. Range(r.keys) = Range(q.keys) /\ r.keys \in Seq(Int) /\ q.keys \in Seq(Int)
    BY <1>1 DEF IsRing
  <2>2. \A k \in Seq(Int) : k = << >> <=> Range(k) = {}
    <3> TAKE k \in Seq(Int)
    <3>1. Len(k) \in Nat /\ DOMAIN k = 1..Len(k) /\ (k = << >> <=> Len(k) = 0)
      BY LenProperties, EmptySeq
    <3>2. Len(k) # 0 => k[1] \in Range(k)
      <4>1. Len(k) # 0 => 1 \in DOMAIN k
        BY <3>1
      <4> QED BY <4>1 DEF Range
    <3>3. Len(k) = 0 => Range(k) = {}
      BY <3>1 DEF Range
    <3> QED BY <3>1, <3>2, <3>3
  <2> QED BY <2>1, <2>2
<1> SUFFICES GetNode(r, h) = GetNode(q, h)
  BY DEF r, q
<1>4. CASE r.keys = << >>
  BY <1>3, <1>4 DEF GetNode
<1>5. CASE r.keys # << >>
  <2>1. GetNode(r, h) \in nodes /\ IsOwner(GetNode(r, h), h, nodes, hash)
    BY <1>1, <1>2, <1>5, GetFindsOwner
  <2>2. GetNode(q, h) \in nodes /\ IsOwner(GetNode(q, h), h, nodes, hash)
    BY <1>1, <1>2, <1>3, <1>5, GetFindsOwner
  <2>3. Distinct(nodes, hash)
    BY DEF nodes
  <2> QED BY <1>2, <2>1, <2>2, <2>3, OwnerIsOne
<1> QED BY <1>4, <1>5

-----------------------------------------------------------------------------
(* Keys without repetitions *)

\* sort.Ints makes none.
LEMMA SortedIsInjective ==
    ASSUME NEW s \in Seq(Int), IsInjective(s)
    PROVE  IsInjective(Sorted(s))
<1> DEFINE t == Sorted(s)
           n == Len(s)
           R == Range(s)
<1>1. /\ t \in Seq(Int) /\ Len(t) = n /\ Range(t) = R
      /\ n \in Nat /\ DOMAIN s = 1..n
  BY SortedIsSorted, LenProperties
<1>2. DOMAIN t = 1..n
  BY <1>1, LenProperties
<1> HIDE DEF t, n, R
<1>3. s \in [1..n -> R] /\ s \in Injection(1..n, R) /\ s \in Surjection(1..n, R)
  <2>1. s \in [1..n -> R] /\ \A x \in R : \E i \in 1..n : s[i] = x
    <3>1. s = [i \in 1..n |-> s[i]] /\ R = {s[i] : i \in 1..n}
      BY <1>1, LenProperties DEF R, Range, n
    <3> QED BY <3>1
  <2> QED BY <2>1 DEF Injection, Surjection
<1>4. t \in [1..n -> R] /\ t \in Surjection(1..n, R)
  <2>1. t = [i \in 1..n |-> t[i]] /\ R = {t[i] : i \in 1..n}
    <3>1. t = [i \in 1..Len(t) |-> t[i]]
      BY <1>1, LenProperties
    <3> QED BY <1>1, <1>2, <3>1 DEF Range
  <2>2. t \in [1..n -> R] /\ \A x \in R : \E i \in 1..n : t[i] = x
    BY <2>1
  <2> QED BY <2>2 DEF Surjection
<1>5. IsFiniteSet(1..n)
  BY <1>1, FS_Interval
<1>6. Cardinality(R) = Cardinality(1..n)
  BY <1>3, <1>5, FS_Surjection
<1>7. t \in Injection(1..n, R)
  BY <1>4, <1>5, <1>6, FS_Surjection
<1> QED BY <1>7 DEF Injection, t

\* append(keys[:i], keys[i+1:]...) takes one key out and leaves the order.
LEMMA RemoveAtTakesOne ==
    ASSUME NEW s \in Seq(Int), NEW i \in 1..Len(s),
           \A j, k \in 1..Len(s) : j <= k => s[j] <= s[k]
    PROVE  LET t == RemoveAt(s, i)
           IN /\ t \in Seq(Int)
              /\ \A j, k \in 1..Len(t) : j <= k => t[j] <= t[k]
              /\ Range(s) = Range(t) \cup {s[i]}
              /\ IsInjective(s) => IsInjective(t) /\ Range(t) = Range(s) \ {s[i]}
<1> DEFINE t == RemoveAt(s, i)
           n == Len(s)
           f(j) == IF j < i THEN j ELSE j + 1
<1>0. n \in Nat /\ DOMAIN s = 1..n /\ \A j \in 1..n : s[j] \in Int
  BY LenProperties, ElementOfSeq
<1>1. /\ SubSeq(s, 1, i - 1) \in Seq(Int) /\ Len(SubSeq(s, 1, i - 1)) = i - 1
      /\ \A j \in 1..i-1 : SubSeq(s, 1, i - 1)[j] = s[j]
  <2>1. \A j \in 1..i-1 : j \in 1..n
    BY <1>0
  <2> QED BY <1>0, <2>1, SubSeqProperties
<1>2. /\ SubSeq(s, i + 1, n) \in Seq(Int) /\ Len(SubSeq(s, i + 1, n)) = n - i
      /\ \A j \in 1..n-i : SubSeq(s, i + 1, n)[j] = s[i + j]
  <2> DEFINE u == SubSeq(s, i + 1, n)
  <2>1. i \in Int /\ i + 1 \in 1..n+1 /\ n \in Nat /\ \A j \in (i+1)..n : j \in 1..n
    BY <1>0
  <2>2. u \in Seq(Int)
    BY <2>1, SubSeqProperties
  <2>3. Len(u) = IF i + 1 <= n THEN n - (i + 1) + 1 ELSE 0
    BY <2>1, SubSeqProperties
  <2>4. Len(u) = n - i
    <3> HIDE DEF u, n
    <3> QED BY <2>1, <2>3
  <2>5. \A j \in 1..n-(i+1)+1 : u[j] = s[(i + 1) + j - 1]
    BY <2>1, SubSeqProperties
  <2>6. \A j \in 1..n-i : j \in 1..n-(i+1)+1 /\ (i + 1) + j - 1 = i + j
    <3> HIDE DEF u, n
    <3> QED BY <2>1
  <2> QED BY <2>2, <2>4, <2>5, <2>6
<1>3. t = SubSeq(s, 1, i - 1) \o SubSeq(s, i + 1, n)
  BY DEF RemoveAt
<1>4. /\ t \in Seq(Int) /\ Len(t) = n - 1
      /\ \A j \in 1..n-1 : t[j] = s[f(j)]
  <2> DEFINE u == SubSeq(s, 1, i - 1)
             v == SubSeq(s, i + 1, n)
  <2>0. u \in Seq(Int) /\ v \in Seq(Int) /\ Len(u) = i - 1 /\ Len(v) = n - i
    BY <1>1, <1>2
  <2>1. t = u \o v
    BY <1>3
  <2> HIDE DEF t, n
  <2>2. \A j \in 1..i-1 : u[j] = s[j]
    BY <1>1
  <2>3. \A j \in 1..n-i : v[j] = s[i + j]
    BY <1>2
  <2> HIDE DEF u, v
  <2>4. /\ t \in Seq(Int) /\ Len(t) = (i - 1) + (n - i)
        /\ \A j \in 1..(i - 1)+(n - i) : t[j] = IF j <= i - 1 THEN u[j] ELSE v[j - (i - 1)]
    <3>1. /\ t \in Seq(Int) /\ Len(t) = Len(u) + Len(v)
          /\ \A j \in 1..Len(u)+Len(v) : t[j] = IF j <= Len(u) THEN u[j] ELSE v[j - Len(u)]
      BY <2>0, <2>1, ConcatProperties
    <3> QED BY <2>0, <3>1, Zenon
  <2>5. (i - 1) + (n - i) = n - 1 /\ i \in 1..n
    BY <1>0 DEF n
  <2>6. ASSUME NEW j \in 1..n-1 PROVE t[j] = s[f(j)]
    <3>1. CASE j < i
      <4>1. j \in 1..i-1 /\ j <= i - 1
        BY <1>0, <2>5, <3>1
      <4> QED BY <2>2, <2>4, <2>5, <3>1, <4>1
    <3>2. CASE ~(j < i)
      <4>1. j - (i - 1) \in 1..n-i /\ i + (j - (i - 1)) = j + 1 /\ ~(j <= i - 1)
        BY <1>0, <2>5, <3>2
      <4>2. t[j] = v[j - (i - 1)]
        BY <2>4, <2>5, <4>1
      <4>3. v[j - (i - 1)] = s[i + (j - (i - 1))]
        BY <2>3, <4>1
      <4> QED BY <3>2, <4>1, <4>2, <4>3
    <3> QED BY <3>1, <3>2
  <2> QED BY <2>4, <2>5, <2>6
<1>5. DOMAIN t = 1..n-1 /\ Len(t) = n - 1
  BY <1>4, LenProperties
<1>6. i \in 1..n
  OBVIOUS
<1> HIDE DEF t, n
<1>7. \A j \in 1..n-1 : f(j) \in 1..n /\ f(j) # i
  BY <1>0, <1>6
<1>8. \A j, k \in 1..n-1 : (j <= k => f(j) <= f(k)) /\ (f(j) = f(k) => j = k)
  BY <1>0, <1>6
<1>9. \A k \in 1..n : k # i => \E j \in 1..n-1 : f(j) = k
  <2> TAKE k \in 1..n
  <2>1. CASE k < i
    <3>1. k \in 1..n-1 /\ f(k) = k
      BY <1>0, <1>6, <2>1
    <3> QED BY <3>1
  <2>2. CASE k > i
    <3>1. k - 1 \in 1..n-1 /\ f(k - 1) = k
      BY <1>0, <1>6, <2>2
    <3> QED BY <3>1
  <2> QED BY <1>0, <1>6, <2>1, <2>2
<1> HIDE DEF f
<1>10. \A j, k \in 1..n-1 : j <= k => t[j] <= t[k]
  BY <1>4, <1>7, <1>8 DEF n
<1>11. Range(s) = Range(t) \cup {s[i]}
  <2>1. ASSUME NEW x \in Range(s) PROVE x \in Range(t) \cup {s[i]}
    <3>1. PICK k \in 1..n : s[k] = x
      BY <1>0 DEF Range
    <3>2. CASE k = i
      BY <3>1, <3>2
    <3>3. CASE k # i
      <4>1. PICK j \in 1..n-1 : f(j) = k
        BY <1>9, <3>3
      <4>2. t[j] = x
        BY <1>4, <3>1, <4>1
      <4> QED BY <1>5, <4>2 DEF Range
    <3> QED BY <3>2, <3>3
  <2>2. ASSUME NEW x \in Range(t) PROVE x \in Range(s)
    <3>1. PICK j \in 1..n-1 : t[j] = x
      BY <1>5 DEF Range
    <3>2. x = s[f(j)] /\ f(j) \in 1..n
      BY <1>4, <1>7, <3>1
    <3> QED BY <1>0, <3>2 DEF Range
  <2>3. s[i] \in Range(s)
    BY <1>0, <1>6 DEF Range
  <2> QED BY <2>1, <2>2, <2>3
<1>12. ASSUME IsInjective(s) PROVE IsInjective(t) /\ Range(t) = Range(s) \ {s[i]}
  <2>1. \A j, k \in 1..n-1 : t[j] = t[k] => j = k
    BY <1>0, <1>4, <1>7, <1>8, <1>12 DEF IsInjective
  <2>2. s[i] \notin Range(t)
    <3>1. SUFFICES ASSUME NEW j \in 1..n-1, t[j] = s[i] PROVE FALSE
      BY <1>5 DEF Range
    <3> QED BY <1>0, <1>4, <1>6, <1>7, <1>12, <3>1 DEF IsInjective
  <2> QED BY <1>5, <1>11, <2>1, <2>2 DEF IsInjective
<1> QED BY <1>4, <1>5, <1>10, <1>11, <1>12 DEF t

\* If hashes do not collide and no node comes twice, Add's loops come to no hash twice.
LEMMA VirtualsAreOne ==
    ASSUME NEW N, NEW nodes \in Seq(N), NEW hash \in [N -> Seq(Int)],
           IsInjective(nodes), Distinct(N, hash)
    PROVE  LET v == Virtuals(nodes, hash)
           IN \A i, j \in 1..Len(v) : v[i][1] = v[j][1] => i = j
<1> DEFINE part(n) == [j \in DOMAIN hash[n] |-> <<hash[n][j], n>>]
           parts == [i \in DOMAIN nodes |-> part(nodes[i])]
           v == Virtuals(nodes, hash)
<1>0. /\ Len(nodes) \in Nat /\ DOMAIN nodes = 1..Len(nodes)
      /\ \A i \in 1..Len(nodes) : nodes[i] \in N
  BY LenProperties, ElementOfSeq
<1>1. v = FlattenSeq(parts)
  BY DEF Virtuals
<1>2. ASSUME NEW n \in N
      PROVE  /\ part(n) \in Seq(Int \X N) /\ IsInjective(part(n))
             /\ \A x \in Range(part(n)) : x[2] = n
  <2>1. /\ hash[n] \in Seq(Int) /\ Len(hash[n]) \in Nat /\ DOMAIN hash[n] = 1..Len(hash[n])
        /\ \A j \in 1..Len(hash[n]) : hash[n][j] \in Int
    BY LenProperties, ElementOfSeq
  <2>2. part(n) \in [1..Len(hash[n]) -> Int \X N] /\ DOMAIN part(n) = DOMAIN hash[n]
    BY <2>1
  <2>3. part(n) \in Seq(Int \X N)
    BY <2>1, <2>2, FunctionIsSeq
  <2>4. \A j \in DOMAIN hash[n] : part(n)[j] = <<hash[n][j], n>>
    OBVIOUS
  <2> HIDE DEF part
  <2>5. \A j, k \in DOMAIN hash[n] : hash[n][j] = hash[n][k] => j = k
    BY DEF Distinct
  <2>6. IsInjective(part(n))
    <3>1. ASSUME NEW j \in DOMAIN hash[n], NEW k \in DOMAIN hash[n], part(n)[j] = part(n)[k] PROVE j = k
      <4>1. <<hash[n][j], n>> = <<hash[n][k], n>>
        BY <2>4, <3>1
      <4> QED BY <2>5, <4>1
    <3> QED BY <2>2, <3>1 DEF IsInjective
  <2>7. \A x \in Range(part(n)) : x[2] = n
    BY <2>2, <2>4 DEF Range
  <2> QED BY <2>3, <2>6, <2>7
<1> HIDE DEF part
<1>3. parts \in Seq(Seq(Int \X N)) /\ Len(parts) = Len(nodes)
  <2>1. parts \in [1..Len(nodes) -> Seq(Int \X N)]
    BY <1>0, <1>2
  <2> QED BY <1>0, <2>1, FunctionIsSeq
<1>4. \A i \in 1..Len(nodes) : parts[i] = part(nodes[i])
  BY <1>0
<1> HIDE DEF parts
<1>5. \A i \in 1..Len(parts) : IsInjective(parts[i])
  BY <1>0, <1>2, <1>3, <1>4
<1>6. \A i, j \in 1..Len(parts) : i # j => Range(parts[i]) \cap Range(parts[j]) = {}
  <2> TAKE i, j \in 1..Len(parts)
  <2>1. SUFFICES ASSUME i # j, NEW x \in Range(parts[i]), x \in Range(parts[j]) PROVE FALSE
    OBVIOUS
  <2>2. x[2] = nodes[i] /\ x[2] = nodes[j]
    BY <1>0, <1>2, <1>3, <1>4, <2>1
  <2> QED BY <1>0, <1>3, <2>1, <2>2 DEF IsInjective
<1>7. IsInjective(v)
  BY <1>1, <1>3, <1>5, <1>6, FlattenInjective
<1>8. /\ v \in Seq(Int \X N)
      /\ \A x \in Range(v) : x[2] \in Range(nodes) /\ x[1] \in Range(hash[x[2]])
  BY VirtualsAreAll
<1> HIDE DEF v
<1>9. /\ DOMAIN v = 1..Len(v)
      /\ \A i \in 1..Len(v) : v[i] \in Range(v) /\ v[i] = <<v[i][1], v[i][2]>> /\ v[i][2] \in N
  <2>1. DOMAIN v = 1..Len(v) /\ \A i \in 1..Len(v) : v[i] \in Int \X N
    BY <1>8, LenProperties, ElementOfSeq
  <2>2. \A w \in Int \X N : w = <<w[1], w[2]>> /\ w[2] \in N
    OBVIOUS
  <2>3. \A i \in 1..Len(v) : v[i] \in Range(v)
    BY <2>1 DEF Range
  <2> QED BY <2>1, <2>2, <2>3
<1>10. ASSUME NEW i \in 1..Len(v), NEW j \in 1..Len(v), v[i][1] = v[j][1] PROVE i = j
  <2>1. PICK k \in DOMAIN hash[v[i][2]] : v[i][1] = hash[v[i][2]][k]
    BY <1>8, <1>9 DEF Range
  <2>2. PICK l \in DOMAIN hash[v[j][2]] : v[j][1] = hash[v[j][2]][l]
    BY <1>8, <1>9 DEF Range
  <2>3. v[i][2] = v[j][2]
    <3> DEFINE a == v[i][2]
               b == v[j][2]
    <3>1. /\ a \in N /\ b \in N /\ k \in DOMAIN hash[a] /\ l \in DOMAIN hash[b]
          /\ hash[a][k] = hash[b][l]
      BY <1>9, <1>10, <2>1, <2>2
    <3> HIDE DEF a, b
    <3>2. a = b
      BY <3>1 DEF Distinct
    <3> QED BY <3>2 DEF a, b
  <2>4. v[i] = v[j]
    BY <1>9, <1>10, <2>3
  <2> QED BY <1>7, <1>9, <2>4 DEF IsInjective
<1> QED BY <1>10 DEF v
=============================================================================
