--------------------------- MODULE LRUCache_proofs ---------------------------
(***************************************************************************)
(* The map and the list of lru.go stay consistent and in order of last use *)
(* for every set of keys and values, every limit and every mix of calls,   *)
(* the ones that make the byte count drift included.                       *)
(***************************************************************************)
EXTENDS LRUCache, SequenceTheorems, FiniteSetTheorems, FunctionTheorems, TLAPS

\* Where MoveToFront puts each element of the list.
LEMMA MoveToFrontFacts ==
    ASSUME NEW S, NEW s \in Seq(S), NEW i \in 1..Len(s)
    PROVE  /\ MoveToFront(s, i) \in Seq(S)
           /\ Len(MoveToFront(s, i)) = Len(s)
           /\ \A j \in 1..Len(s) :
                MoveToFront(s, i)[j] =
                    IF j = 1 THEN s[i] ELSE IF j <= i THEN s[j-1] ELSE s[j]
<1>1. DOMAIN s = 1..Len(s) /\ Len(s) \in Nat
  OBVIOUS
<1>2. \A j \in 1..Len(s) :
        (IF j = 1 THEN s[i] ELSE IF j <= i THEN s[j-1] ELSE s[j]) \in S
  OBVIOUS
<1>3. MoveToFront(s, i) \in [1..Len(s) -> S]
  BY <1>2 DEF MoveToFront
<1>4. MoveToFront(s, i) \in Seq(S) /\ Len(MoveToFront(s, i)) = Len(s)
  BY <1>1, <1>3
<1> QED
  BY <1>4 DEF MoveToFront

\* Dropping the back of the list keeps every other element in its place.
LEMMA FrontFacts ==
    ASSUME NEW S, NEW s \in Seq(S), s # << >>
    PROVE  /\ Front(s) \in Seq(S)
           /\ Len(Front(s)) = Len(s) - 1
           /\ Len(s) \in Nat \ {0}
           /\ \A j \in 1..Len(s)-1 : Front(s)[j] = s[j]
<1> DEFINE t == SubSeq(s, 1, Len(s)-1)
<1>1. Len(s) \in Nat \ {0}
  BY EmptySeq
<1>2. \A j \in 1..Len(s)-1 : s[j] \in S
  BY <1>1
<1>3. /\ t \in Seq(S)
      /\ Len(t) = IF 1 <= Len(s)-1 THEN Len(s)-1-1+1 ELSE 0
      /\ \A j \in 1..Len(s)-1-1+1 : t[j] = s[1+j-1]
  <2> HIDE DEF Front
  <2>1. 1 \in Int /\ Len(s)-1 \in Int
    BY <1>1
  <2> QED
    BY <1>2, <2>1, SubSeqProperties
<1>4. t = Front(s)
  BY DEF Front
<1>5. Len(t) = Len(s)-1 /\ \A j \in 1..Len(s)-1 : t[j] = s[j]
  <2> DEFINE n == Len(s)
  <2> HIDE DEF t, n
  <2>1. n \in Nat \ {0}
    BY <1>1 DEF n
  <2>2. Len(t) = IF 1 <= n-1 THEN n-1-1+1 ELSE 0
    BY <1>3 DEF n
  <2>3. Len(t) = n-1
    BY <2>1, <2>2
  <2>4. ASSUME NEW j \in 1..n-1 PROVE t[j] = s[j]
    <3>1. j \in 1..n-1-1+1 /\ 1+j-1 = j
      BY <2>1
    <3>2. t[j] = s[1+j-1]
      BY <1>3, <3>1 DEF n
    <3> QED
      BY <3>1, <3>2
  <2> QED
    BY <2>3, <2>4 DEF n
<1> QED
  BY <1>1, <1>3, <1>4, <1>5

\* The map's element for a cached key is in the list.
LEMMA PosOfFacts ==
    ASSUME cache = KeysOf(ll), NEW k \in cache
    PROVE  PosOf(k) \in 1..Len(ll) /\ ll[PosOf(k)].key = k
<1>1. \E i \in 1..Len(ll) : ll[i].key = k
  BY DEF KeysOf
<1> QED
  BY <1>1 DEF PosOf
-----------------------------------------------------------------------------
\* The three invariants are inductive together: the order of the list is only
\* the order of use because each key occurs once, and RemoveBack only drops the
\* map's key because the map holds the keys of the list.
IInv == TypeOK /\ IndexConsistent /\ RecencyOrder

\* An empty cache has the three.
LEMMA InitIInv == Init => IInv
<1> SUFFICES ASSUME Init PROVE IInv
  OBVIOUS
<1>1. ll \in Seq(Entry) /\ Len(ll) = 0
  BY EmptySeq DEF Init
<1>2. KeysOf(ll) = {}
  BY <1>1 DEF KeysOf
<1>3. TypeOK
  <2>1. cache \subseteq Key /\ nbytes \in Int
    BY DEF Init
  <2>2. adding \in BOOLEAN
    BY DEF Init
  <2>3. got \in Value \cup {Miss} /\ newer \subseteq Key \X Key
    BY DEF Init
  <2> QED
    BY <1>1, <2>1, <2>2, <2>3 DEF TypeOK
<1> QED
  BY <1>1, <1>2, <1>3 DEF Init, IInv, IndexConsistent, RecencyOrder

\* Moving a cached key's element to the front keeps the three.
LEMMA MoveKeepsIInv ==
    ASSUME IInv, NEW k \in cache,
           ll' = MoveToFront(ll, PosOf(k)), cache' = cache, newer' = Touch(k),
           nbytes' \in Int, adding' \in BOOLEAN, got' \in Value \cup {Miss}
    PROVE  IInv'
<1> DEFINE p == PosOf(k)
<1>1. /\ p \in 1..Len(ll) /\ ll[p].key = k
      /\ ll \in Seq(Entry) /\ cache \subseteq Key /\ newer \subseteq Key \X Key
      /\ Len(ll) \in Nat
  BY PosOfFacts DEF IInv, TypeOK, IndexConsistent
<1>2. /\ ll' \in Seq(Entry) /\ Len(ll') = Len(ll)
      /\ \A j \in 1..Len(ll) :
           ll'[j] = IF j = 1 THEN ll[p] ELSE IF j <= p THEN ll[j-1] ELSE ll[j]
  BY <1>1, MoveToFrontFacts
<1> DEFINE old(j) == IF j = 1 THEN p ELSE IF j <= p THEN j-1 ELSE j
<1> HIDE DEF p
<1>3. k \in Key
  BY <1>1
<1>4. TypeOK'
  BY <1>1, <1>2, <1>3 DEF TypeOK, Touch, IInv
<1>a. \A j \in 1..Len(ll) : old(j) \in 1..Len(ll) /\ ll'[j] = ll[old(j)]
  BY <1>1, <1>2
<1>b. \A i, j \in 1..Len(ll) : old(i) = old(j) => i = j
  BY <1>1
<1>c. \A i \in 1..Len(ll) : \E j \in 1..Len(ll) : old(j) = i
  <2> TAKE i \in 1..Len(ll)
  <2> DEFINE j == IF i = p THEN 1 ELSE IF i < p THEN i+1 ELSE i
  <2>1. j \in 1..Len(ll) /\ old(j) = i
    BY <1>1
  <2> QED BY <2>1
<1>d. \A i, j \in 2..Len(ll) : i < j => old(i) < old(j)
  BY <1>1
<1>e. old(1) = p
  OBVIOUS
<1> HIDE DEF old
<1>5. KeysOf(ll') = KeysOf(ll)
  <2>1. \A x : x \in KeysOf(ll') => x \in KeysOf(ll)
    BY <1>2, <1>a DEF KeysOf
  <2>2. \A x : x \in KeysOf(ll) => x \in KeysOf(ll')
    <3> SUFFICES ASSUME NEW i \in 1..Len(ll) PROVE ll[i].key \in KeysOf(ll')
      BY DEF KeysOf
    <3>1. PICK j \in 1..Len(ll) : old(j) = i
      BY <1>c
    <3>2. ll'[j] = ll[i] /\ j \in 1..Len(ll')
      BY <1>2, <1>a, <3>1
    <3> QED
      BY <3>2 DEF KeysOf
  <2> QED
    BY <2>1, <2>2
<1>6. \A i, j \in 1..Len(ll') : ll'[i].key = ll'[j].key => i = j
  BY SMTT(20), <1>2, <1>a, <1>b DEF IInv, IndexConsistent
<1>7. IndexConsistent'
  BY <1>5, <1>6 DEF IInv, IndexConsistent
<1>8. ASSUME NEW i \in 1..Len(ll'), NEW j \in 1..Len(ll'), i < j
      PROVE  <<ll'[i].key, ll'[j].key>> \in newer'
  <2>1. i \in 1..Len(ll) /\ j \in 1..Len(ll) /\ 1 \in 1..Len(ll) /\ j \in 2..Len(ll)
    BY <1>1, <1>2, <1>8
  <2>2. ll'[1].key = k
    BY <1>1, <1>2, <2>1
  <2>3. ll'[j].key # k
    BY <1>2, <1>6, <2>1, <2>2
  <2>4. ll'[j].key \in Key
    <3>1. ll'[j] \in Entry
      BY <1>2, <2>1, ElementOfSeq
    <3> QED BY <3>1 DEF Entry
  <2>5. CASE i = 1
    BY <2>2, <2>3, <2>4, <2>5, <1>3 DEF Touch
  <2>6. CASE i # 1
    <3>1. old(i) < old(j) /\ old(i) \in 1..Len(ll) /\ old(j) \in 1..Len(ll)
      BY <1>a, <1>d, <1>8, <2>1, <2>6
    <3>2. <<ll[old(i)].key, ll[old(j)].key>> \in newer
      BY <3>1 DEF IInv, RecencyOrder
    <3>3. <<ll'[i].key, ll'[j].key>> \in newer
      BY <3>2, <1>a, <2>1
    <3> QED
      BY <3>3, <2>3 DEF Touch
  <2> QED BY <2>5, <2>6
<1>9. ASSUME NEW a \in cache', NEW b \in Key \ cache'
      PROVE  <<a, b>> \in newer'
  BY <1>1, <1>3, <1>9 DEF IInv, RecencyOrder, Touch
<1> QED
  BY <1>4, <1>7, <1>8, <1>9 DEF IInv, RecencyOrder

\* Pushing a new key's entry in front keeps the three.
LEMMA PushKeepsIInv ==
    ASSUME IInv, NEW k \in Key \ cache, NEW e \in Entry, e.key = k,
           ll' = PushFront(ll, e), cache' = cache \cup {k}, newer' = Touch(k),
           nbytes' \in Int, adding' \in BOOLEAN, got' = got
    PROVE  IInv'
<1>1. /\ ll \in Seq(Entry) /\ Len(ll) \in Nat
      /\ cache \subseteq Key /\ newer \subseteq Key \X Key
      /\ got \in Value \cup {Miss}
  BY LenProperties DEF IInv, TypeOK
<1>2. e.key = k
  OBVIOUS
<1>3. /\ ll' \in Seq(Entry) /\ Len(ll') = Len(ll)+1
      /\ ll'[1] = e
      /\ \A j \in 2..Len(ll)+1 : ll'[j] = ll[j-1]
  <2>1. ll' \in Seq(Entry) /\ Len(ll') = Len(ll)+1
    BY <1>1 DEF PushFront
  <2>2. ll'[1] = e
    BY <1>1 DEF PushFront
  <2>3. \A j \in 2..Len(ll)+1 : ll'[j] = ll[j-1]
    BY <1>1 DEF PushFront
  <2> QED BY <2>1, <2>2, <2>3
<1>4. TypeOK'
  <2>1. cache' \subseteq Key /\ newer' \subseteq Key \X Key /\ got' \in Value \cup {Miss}
    BY <1>1 DEF Touch
  <2> QED
    BY <1>3, <2>1 DEF TypeOK
<1>5. \A i \in 1..Len(ll) : ll[i].key \in cache /\ ll[i].key # k
  BY DEF IInv, IndexConsistent, KeysOf
<1>6. KeysOf(ll') = cache'
  <2>1. ASSUME NEW i \in 1..Len(ll') PROVE ll'[i].key \in cache'
    <3>1. CASE i = 1
      BY <1>2, <1>3, <3>1
    <3>2. CASE i # 1
      <4>1. i \in 2..Len(ll)+1 /\ i-1 \in 1..Len(ll)
        BY <1>1, <1>3, <3>2
      <4> QED
        BY <1>3, <1>5, <4>1
    <3> QED BY <3>1, <3>2
  <2>2. ASSUME NEW x \in cache' PROVE \E i \in 1..Len(ll') : ll'[i].key = x
    <3>1. CASE x = k
      <4>1. 1 \in 1..Len(ll') /\ ll'[1].key = x
        BY <1>1, <1>2, <1>3, <3>1
      <4> QED BY <4>1
    <3>2. CASE x \in cache
      <4>1. PICK i \in 1..Len(ll) : ll[i].key = x
        BY <3>2 DEF IInv, IndexConsistent, KeysOf
      <4>2. i+1 \in 1..Len(ll') /\ i+1 \in 2..Len(ll)+1 /\ (i+1)-1 = i
        BY <1>1, <1>3
      <4>3. ll'[i+1].key = x
        BY <1>3, <4>1, <4>2
      <4> QED BY <4>2, <4>3
    <3> QED BY <3>1, <3>2
  <2> QED
    BY <2>1, <2>2 DEF KeysOf
<1>7. ASSUME NEW i \in 1..Len(ll'), NEW j \in 1..Len(ll'), i < j
      PROVE  /\ ll'[i].key # ll'[j].key
             /\ <<ll'[i].key, ll'[j].key>> \in newer'
  <2>1. j \in 2..Len(ll)+1 /\ j-1 \in 1..Len(ll) /\ ll'[j] = ll[j-1]
    BY <1>1, <1>3, <1>7
  <2>2. ll'[j].key \in Key /\ ll'[j].key # k
    <3>1. ll[j-1] \in Entry
      BY <1>1, <2>1, ElementOfSeq
    <3> QED BY <3>1, <2>1, <1>5 DEF Entry
  <2>3. CASE i = 1
    BY <1>2, <1>3, <2>2, <2>3 DEF Touch
  <2>4. CASE i # 1
    <3>1. i \in 2..Len(ll)+1 /\ i-1 \in 1..Len(ll) /\ ll'[i] = ll[i-1]
      BY <1>1, <1>3, <2>4
    <3>2. i-1 < j-1 /\ i-1 # j-1
      BY <3>1, <2>1, <1>7
    <3>3. <<ll'[i].key, ll'[j].key>> \in newer
      BY <2>1, <3>1, <3>2 DEF IInv, RecencyOrder
    <3>4. ll'[i].key # ll'[j].key
      BY <2>1, <3>1, <3>2 DEF IInv, IndexConsistent
    <3> QED
      BY <2>2, <3>3, <3>4 DEF Touch
  <2> QED BY <2>3, <2>4
<1>8. ASSUME NEW i \in 1..Len(ll'), NEW j \in 1..Len(ll'), ll'[i].key = ll'[j].key
      PROVE  i = j
  <2>1. i \in Int /\ j \in Int
    OBVIOUS
  <2>2. ~(i < j) /\ ~(j < i)
    BY <1>7, <1>8
  <2> QED BY <2>1, <2>2
<1>9. ASSUME NEW a \in cache', NEW b \in Key \ cache'
      PROVE  <<a, b>> \in newer'
  BY <1>9 DEF IInv, RecencyOrder, Touch
<1> QED
  BY <1>4, <1>6, <1>7, <1>8, <1>9 DEF IInv, IndexConsistent, RecencyOrder

\* Removing the back of the list keeps the three.
LEMMA RemoveBackKeepsIInv ==
    ASSUME IInv, RemoveBack, adding' \in BOOLEAN, got' = got, newer' = newer
    PROVE  IInv'
<1>1. /\ ll \in Seq(Entry) /\ Len(ll) \in Nat
      /\ cache \subseteq Key /\ newer \subseteq Key \X Key /\ nbytes \in Int
      /\ got \in Value \cup {Miss}
  BY LenProperties DEF IInv, TypeOK
<1>2. CASE ll = << >>
  <2>1. ll' = ll /\ cache' = cache /\ nbytes' = nbytes
    BY <1>2 DEF RemoveBack
  <2>2. TypeOK'
    BY <1>1, <2>1 DEF TypeOK
  <2>3. IndexConsistent' /\ RecencyOrder'
    BY <2>1 DEF IInv, IndexConsistent, RecencyOrder, KeysOf
  <2> QED BY <2>2, <2>3 DEF IInv
<1>3. CASE ll # << >>
  <2> DEFINE n == Len(ll)
  <2>1. /\ ll' \in Seq(Entry) /\ Len(ll') = n-1 /\ n \in Nat \ {0}
        /\ \A j \in 1..n-1 : ll'[j] = ll[j]
    BY <1>1, <1>3, FrontFacts DEF RemoveBack
  <2>2. /\ cache' = cache \ {ll[n].key}
        /\ nbytes' = nbytes - EntryLen(ll[n])
    BY <1>3 DEF RemoveBack
  <2>3. ll[n] \in Entry /\ n \in 1..n
    BY <1>1, <2>1, ElementOfSeq
  <2>4. TypeOK'
    <3>1. EntryLen(ll[n]) \in Nat
      BY <2>3, SizesAssumption DEF EntryLen, Entry
    <3>2. nbytes' \in Int
      BY <1>1, <2>2, <3>1
    <3> QED
      BY <1>1, <2>1, <2>2, <3>2 DEF TypeOK
  <2>5. \A j \in 1..n-1 : ll[j].key # ll[n].key /\ j \in 1..n
    <3> TAKE j \in 1..n-1
    <3>1. j \in 1..n /\ j # n
      BY <2>1
    <3> QED
      BY <2>3, <3>1 DEF IInv, IndexConsistent
  <2>6. KeysOf(ll') = cache'
    <3>1. ASSUME NEW j \in 1..Len(ll') PROVE ll'[j].key \in cache'
      BY <2>1, <2>2, <2>5 DEF IInv, IndexConsistent, KeysOf
    <3>2. ASSUME NEW x \in cache' PROVE \E j \in 1..Len(ll') : ll'[j].key = x
      <4>1. PICK j \in 1..n : ll[j].key = x
        BY <2>2 DEF IInv, IndexConsistent, KeysOf
      <4>2. j \in 1..n-1
        BY <2>1, <2>2, <4>1
      <4> QED BY <2>1, <4>1, <4>2
    <3> QED
      BY <3>1, <3>2 DEF KeysOf
  <2>7. IndexConsistent'
    BY <2>1, <2>5, <2>6 DEF IInv, IndexConsistent
  <2>8. ASSUME NEW i \in 1..Len(ll'), NEW j \in 1..Len(ll'), i < j
        PROVE  <<ll'[i].key, ll'[j].key>> \in newer'
    BY <2>1, <2>5, <2>8 DEF IInv, RecencyOrder
  <2>9. ASSUME NEW a \in cache', NEW b \in Key \ cache' PROVE <<a, b>> \in newer'
    <3>1. a \in cache
      BY <2>2
    <3>2. CASE b = ll[n].key
      <4>1. PICK j \in 1..n : ll[j].key = a
        BY <3>1 DEF IInv, IndexConsistent, KeysOf
      <4>2. j < n
        BY <2>1, <2>2, <3>2, <4>1
      <4> QED
        BY <2>3, <3>2, <4>1, <4>2 DEF IInv, RecencyOrder
    <3>3. CASE b # ll[n].key
      BY <2>2, <3>1, <3>3 DEF IInv, RecencyOrder
    <3> QED BY <3>2, <3>3
  <2> QED
    BY <2>4, <2>7, <2>8, <2>9 DEF IInv, RecencyOrder
<1> QED BY <1>2, <1>3

\* Every step keeps them.
LEMMA NextKeepsIInv == IInv /\ [Next]_vars => IInv'
<1> SUFFICES ASSUME IInv, [Next]_vars PROVE IInv'
  OBVIOUS
<1>t. /\ nbytes \in Int /\ got \in Value \cup {Miss} /\ cache \subseteq Key
      /\ ll \in Seq(Entry)
  BY DEF IInv, TypeOK
<1>b. adding \in BOOLEAN
  BY DEF IInv, TypeOK
<1>p. \A k \in cache : ll[PosOf(k)] \in Entry
  BY <1>t, PosOfFacts, ElementOfSeq DEF IInv, IndexConsistent
<1>1. ASSUME NEW k \in Key, Get(k) PROVE IInv'
  <2>1. CASE k \in cache
    <3>1. got' \in Value \cup {Miss}
      BY <1>1, <1>p, <2>1 DEF Get, Entry
    <3>2. nbytes' \in Int
      BY <1>1, <1>t DEF Get
    <3>3. adding' \in BOOLEAN
      BY <1>1, <1>b DEF Get
    <3> QED
      BY <1>1, <2>1, <3>1, <3>2, <3>3, MoveKeepsIInv DEF Get
  <2>2. CASE k \notin cache
    <3>1. ll' = ll /\ cache' = cache /\ nbytes' = nbytes /\ newer' = newer
          /\ got' = Miss
      BY <1>1, <2>2 DEF Get
    <3>2. adding' = adding
      BY <1>1 DEF Get
    <3>3. TypeOK'
      BY <3>1, <3>2 DEF IInv, TypeOK
    <3> QED
      BY <3>1, <3>3 DEF IInv, IndexConsistent, RecencyOrder, KeysOf
  <2> QED BY <2>1, <2>2
<1>2. ASSUME NEW o \in Offers, AddCached(o[1], o[2]) PROVE IInv'
  <2>1. o[1] \in cache /\ o[2] \in Value
    BY <1>2, OffersAssumption DEF AddCached
  <2>2. nbytes' \in Int
    <3>1. ValueLen[o[2]] \in Nat /\ ValueLen[ll[PosOf(o[1])].value] \in Nat
      BY <1>p, <2>1, SizesAssumption DEF Entry
    <3>2. nbytes' = nbytes + (ValueLen[o[2]] - ValueLen[ll[PosOf(o[1])].value])
      BY <1>2 DEF AddCached
    <3> QED BY <1>t, <3>1, <3>2
  <2>3. adding' \in BOOLEAN
    BY <1>2 DEF AddCached
  <2>4. got' \in Value \cup {Miss}
    BY <1>2, <1>t DEF AddCached
  <2> QED
    BY <1>2, <2>1, <2>2, <2>3, <2>4, MoveKeepsIInv DEF AddCached
<1>3. ASSUME NEW o \in Offers, AddNew(o[1], o[2]) PROVE IInv'
  <2>1. o[1] \in Key \ cache /\ o[2] \in Value
    BY <1>3, OffersAssumption DEF AddNew
  <2>2. nbytes' \in Int
    <3>1. KeyLen[o[1]] \in Nat /\ ValueLen[o[2]] \in Nat
      BY <2>1, SizesAssumption
    <3>2. nbytes' = nbytes + (KeyLen[o[1]] + ValueLen[o[2]])
      BY <1>3 DEF AddNew
    <3> QED BY <1>t, <3>1, <3>2
  <2>3. adding' \in BOOLEAN
    BY <1>3 DEF AddNew
  <2> DEFINE e == [key |-> o[1], value |-> o[2]]
  <2>4. e \in Entry /\ e.key = o[1]
    BY <2>1 DEF Entry
  <2>5. ll' = PushFront(ll, e)
    BY <1>3 DEF AddNew
  <2> HIDE DEF e
  <2> QED
    BY <1>3, <2>1, <2>2, <2>3, <2>4, <2>5, PushKeepsIInv DEF AddNew
<1>4. CASE Evict
  <2>1. adding' \in BOOLEAN
    BY <1>4, <1>b DEF Evict
  <2> QED
    BY <1>4, <2>1, RemoveBackKeepsIInv DEF Evict
<1>5. CASE AddReturn \/ UNCHANGED vars
  <2>1. ll' = ll /\ cache' = cache /\ nbytes' = nbytes /\ newer' = newer /\ got' = got
    BY <1>5 DEF AddReturn, vars
  <2>2. adding' \in BOOLEAN
    BY <1>5, <1>b DEF AddReturn, vars
  <2>3. TypeOK'
    BY <2>1, <2>2 DEF IInv, TypeOK
  <2> QED
    BY <2>1, <2>3 DEF IInv, IndexConsistent, RecencyOrder, KeysOf
<1>6. CASE RemoveOldest
  <2>1. adding' \in BOOLEAN
    BY <1>6, <1>b DEF RemoveOldest
  <2> QED
    BY <1>6, <2>1, RemoveBackKeepsIInv DEF RemoveOldest
<1> QED
  BY <1>1, <1>2, <1>3, <1>4, <1>5, <1>6 DEF Next

\* They always hold.
LEMMA Invariance == Spec => []IInv
BY InitIInv, NextKeepsIInv, PTL DEF Spec

\* Every variable of the cache keeps its type.
THEOREM TypeCorrect == Spec => []TypeOK
<1>1. IInv => TypeOK
  BY DEF IInv
<1> QED BY <1>1, Invariance, PTL

\* The map and the list of lru.go always hold the same keys, each of them once.
THEOREM IndexAlwaysConsistent == Spec => []IndexConsistent
<1>1. IInv => IndexConsistent
  BY DEF IInv
<1> QED BY <1>1, Invariance, PTL

\* The list is always in order of last use and what was evicted is older than
\* what is kept: the cache is LRU.
THEOREM EvictsLeastRecent == Spec => []RecencyOrder
<1>1. IInv => RecencyOrder
  BY DEF IInv
<1> QED BY <1>1, Invariance, PTL

-----------------------------------------------------------------------------
(* The byte count, for values whose length goes with their key *)

\* A key is offered with values of one length.
FixedLengths == \A o \in Offers, p \in Offers : o[1] = p[1] => ValueLen[o[2]] = ValueLen[p[2]]

\* What the policy keeps: the values by key, and their bytes.
Store == [k \in cache |-> ll[PosOf(k)].value]
StoredBytes == UNION {{k} \X (1..KeyLen[k] + ValueLen[Store[k]]) : k \in cache}

\* Where the count stands; the loop of an Add leaves only when it is within the limit.
Offered == \A k \in cache : <<k, Store[k]>> \in Offers
Counted == IsFiniteSet(StoredBytes) /\ Cardinality(StoredBytes) = nbytes
Settled == ~adding => ~OverLimit

CInv == IInv /\ Offered /\ Counted /\ Settled

\* The store is the list without its order.
StoreIsList ==
    /\ DOMAIN Store = cache
    /\ \A i \in 1..Len(ll) : ll[i].key \in cache /\ Store[ll[i].key] = ll[i].value
    /\ \A k \in cache : Store[k] \in Value /\ \E i \in 1..Len(ll) : ll[i].key = k

\* It does, in every state of the cache
LEMMA StoreFacts == IInv => StoreIsList
<1> SUFFICES ASSUME IInv PROVE StoreIsList
  OBVIOUS
<1>1. /\ ll \in Seq(Entry) /\ cache = KeysOf(ll)
      /\ \A i, j \in 1..Len(ll) : ll[i].key = ll[j].key => i = j
  BY DEF IInv, TypeOK, IndexConsistent
<1>2. \A k \in cache : PosOf(k) \in 1..Len(ll) /\ ll[PosOf(k)].key = k
  BY <1>1, PosOfFacts
<1>3. \A k \in cache : Store[k] = ll[PosOf(k)].value
  BY DEF Store
<1>4. \A i \in 1..Len(ll) : ll[i].key \in cache
  BY <1>1 DEF KeysOf
<1>5. \A i \in 1..Len(ll) : PosOf(ll[i].key) = i
  BY <1>1, <1>2, <1>4
<1>6. \A k \in cache : ll[PosOf(k)] \in Entry
  BY <1>1, <1>2, ElementOfSeq
<1>7. \A k \in cache : Store[k] \in Value
  BY <1>3, <1>6 DEF Entry
<1>8. DOMAIN Store = cache
  BY DEF Store
<1> QED BY <1>2, <1>3, <1>4, <1>5, <1>7, <1>8 DEF StoreIsList

\* and so in the next.
LEMMA StoreFactsNext == IInv' => StoreIsList'
  BY StoreFacts, PTL

\* Moving an element of the list keeps the store.
LEMMA MoveKeepsStore ==
    ASSUME IInv, IInv', cache' = cache, NEW k \in cache, ll' = MoveToFront(ll, PosOf(k))
    PROVE  Store' = Store
<1>1. StoreIsList /\ StoreIsList'
  BY StoreFacts, StoreFactsNext
<1>2. ll \in Seq(Entry) /\ PosOf(k) \in 1..Len(ll) /\ Len(ll) \in Nat
  BY PosOfFacts, LenProperties DEF IInv, TypeOK, IndexConsistent
<1>3. \A j \in 1..Len(ll') : \E i \in 1..Len(ll) : ll'[j] = ll[i]
  <2> DEFINE p == PosOf(k)
             s == MoveToFront(ll, p)
  <2>1. ll \in Seq(Entry) /\ p \in 1..Len(ll) /\ Len(ll) \in Nat /\ ll' = s
    BY <1>2
  <2> HIDE DEF p
  <2>m. /\ Len(s) = Len(ll)
        /\ \A j \in 1..Len(ll) : s[j] = IF j = 1 THEN ll[p] ELSE IF j <= p THEN ll[j - 1] ELSE ll[j]
    BY <2>1, MoveToFrontFacts
  <2> HIDE DEF s
  <2>2. /\ Len(ll') = Len(ll)
        /\ \A j \in 1..Len(ll) :
             ll'[j] = IF j = 1 THEN ll[p] ELSE IF j <= p THEN ll[j - 1] ELSE ll[j]
    BY <2>1, <2>m
  <2>3. ASSUME NEW j \in 1..Len(ll) PROVE \E i \in 1..Len(ll) : ll'[j] = ll[i]
    <3>1. j = 1 => ll'[j] = ll[p]
      BY <2>2
    <3>2. j # 1 /\ j <= p => ll'[j] = ll[j - 1] /\ j - 1 \in 1..Len(ll)
      BY <2>1, <2>2
    <3>3. j # 1 /\ ~(j <= p) => ll'[j] = ll[j]
      BY <2>2
    <3> QED BY <2>1, <3>1, <3>2, <3>3
  <2> QED BY <2>2, <2>3
<1>4. ASSUME NEW x \in cache PROVE Store'[x] = Store[x]
  <2>1. PICK j \in 1..Len(ll') : ll'[j].key = x
    BY <1>1 DEF StoreIsList
  <2>2. PICK i \in 1..Len(ll) : ll'[j] = ll[i]
    BY <1>3
  <2> QED BY SMTT(20), <1>1, <2>1, <2>2 DEF StoreIsList
<1>5. Store' = [x \in cache' |-> Store'[x]] /\ Store = [x \in cache |-> Store[x]]
  BY <1>1 DEF Store
<1> QED BY <1>4, <1>5

\* Pushing an entry in front puts it into the store.
LEMMA PushAddsToStore ==
    ASSUME IInv, IInv', NEW e \in Entry, e.key \notin cache, cache' = cache \cup {e.key},
           ll' = PushFront(ll, e)
    PROVE  /\ Store'[e.key] = e.value
           /\ \A x \in cache : Store'[x] = Store[x]
<1>1. StoreIsList /\ StoreIsList'
  BY StoreFacts, StoreFactsNext
<1>2. ll \in Seq(Entry) /\ Len(ll) \in Nat
  BY LenProperties DEF IInv, TypeOK
<1>3. Len(ll') = Len(ll) + 1 /\ ll'[1] = e /\ \A j \in 2..Len(ll) + 1 : ll'[j] = ll[j - 1]
  BY <1>2 DEF PushFront
<1>4. Store'[e.key] = e.value
  <2>1. 1 \in 1..Len(ll')
    BY <1>2, <1>3
  <2> QED BY <1>1, <1>3, <2>1 DEF StoreIsList
<1>5. ASSUME NEW x \in cache PROVE Store'[x] = Store[x]
  <2>1. PICK i \in 1..Len(ll) : ll[i].key = x
    BY <1>1 DEF StoreIsList
  <2>2. i + 1 \in 2..Len(ll) + 1 /\ i + 1 \in 1..Len(ll') /\ (i + 1) - 1 = i
    BY <1>2, <1>3
  <2>3. ll'[i + 1] = ll[i]
    BY <1>3, <2>2
  <2> QED BY <1>1, <2>1, <2>2, <2>3 DEF StoreIsList
<1> QED BY <1>4, <1>5

\* Removing the back of the list takes its entry out of the store.
LEMMA RemoveTakesFromStore ==
    ASSUME IInv, IInv', RemoveBack, ll # << >>
    PROVE  /\ Len(ll) \in 1..Len(ll) /\ ll[Len(ll)].key \in cache
           /\ cache' = cache \ {ll[Len(ll)].key}
           /\ nbytes' = nbytes - EntryLen(ll[Len(ll)])
           /\ \A x \in cache' : Store'[x] = Store[x]
<1> DEFINE n == Len(ll)
<1>1. StoreIsList /\ StoreIsList'
  BY StoreFacts, StoreFactsNext
<1>2. ll \in Seq(Entry)
  BY DEF IInv, TypeOK
<1>3. /\ ll' = Front(ll) /\ cache' = cache \ {ll[n].key}
      /\ nbytes' = nbytes - EntryLen(ll[n])
  BY DEF RemoveBack
<1>4. /\ n \in Nat \ {0} /\ Len(ll') = n - 1
      /\ \A j \in 1..n - 1 : ll'[j] = ll[j]
  BY <1>2, <1>3, FrontFacts
<1>5. n \in 1..n
  BY <1>4
<1>6. ASSUME NEW x \in cache' PROVE Store'[x] = Store[x]
  <2>1. PICK j \in 1..Len(ll') : ll'[j].key = x
    BY <1>1 DEF StoreIsList
  <2>2. j \in 1..n /\ ll'[j] = ll[j]
    BY <1>4, <2>1
  <2> QED BY <1>1, <2>1, <2>2 DEF StoreIsList
<1> QED BY <1>1, <1>3, <1>5, <1>6 DEF StoreIsList

\* One entry more, and the bytes are so many more.
LEMMA BytesOfOneMore ==
    ASSUME NEW K, NEW k, k \notin K, NEW size, \A x \in K \cup {k} : size[x] \in Nat,
           NEW S, S = UNION {{x} \X (1..size[x]) : x \in K},
           NEW T, T = UNION {{x} \X (1..size[x]) : x \in K \cup {k}}
    PROVE  /\ IsFiniteSet(S) => IsFiniteSet(T) /\ Cardinality(T) = Cardinality(S) + size[k]
           /\ IsFiniteSet(T) => IsFiniteSet(S) /\ Cardinality(T) = Cardinality(S) + size[k]
<1> DEFINE n == size[k]
           new == {k} \X (1..n)
<1>1. T = S \cup new /\ S \cap new = {} /\ S \subseteq T
  OBVIOUS
<1>2. n \in Nat
  OBVIOUS
<1>3. IsFiniteSet(new) /\ Cardinality(new) = n
  <2> DEFINE f == [i \in 1..n |-> <<k, i>>]
  <2>1. f \in [1..n -> new]
    OBVIOUS
  <2>2. \A i, j \in 1..n : f[i] = f[j] => i = j
    OBVIOUS
  <2>3. \A t \in new : \E i \in 1..n : f[i] = t
    OBVIOUS
  <2>4. ExistsBijection(1..n, new)
    <3> HIDE DEF f, new
    <3>1. f \in Bijection(1..n, new)
      BY <2>1, <2>2, <2>3, Fun_IsBij
    <3> QED BY <3>1 DEF ExistsBijection
  <2>5. IsFiniteSet(1..n) /\ Cardinality(1..n) = n
    <3>1. 1 \in Int /\ n \in Int /\ (IF 1 > n THEN 0 ELSE n - 1 + 1) = n
      BY <1>2
    <3> QED BY <3>1, FS_Interval
  <2> QED BY <2>4, <2>5, FS_Bijection
<1> HIDE DEF new, n
<1>4. ASSUME IsFiniteSet(S) PROVE IsFiniteSet(T) /\ Cardinality(T) = Cardinality(S) + n
  <2>1. /\ IsFiniteSet(S \cup new)
        /\ Cardinality(S \cup new) = Cardinality(S) + Cardinality(new) - Cardinality(S \cap new)
    BY <1>3, <1>4, FS_Union
  <2>2. Cardinality(S) \in Nat
    BY <1>4, FS_CardinalityType
  <2>3. Cardinality(S \cap new) = 0
    BY <1>1, FS_EmptySet
  <2>4. Cardinality(S \cup new) = Cardinality(S) + n
    BY <1>2, <1>3, <2>1, <2>2, <2>3
  <2> QED BY <1>1, <2>1, <2>4
<1>5. IsFiniteSet(T) => IsFiniteSet(S)
  BY <1>1, FS_Subset
<1> QED BY <1>4, <1>5 DEF n

\* The bytes of the list are those of the store.
LEMMA UsedIsStored ==
    ASSUME IInv, IsFiniteSet(StoredBytes)
    PROVE  Used = Cardinality(StoredBytes)
<1> DEFINE B == UNION {{i} \X (1..EntryLen(ll[i])) : i \in 1..Len(ll)}
           f == [b \in B |-> <<ll[b[1]].key, b[2]>>]
<1>1. /\ \A i, j \in 1..Len(ll) : ll[i].key = ll[j].key => i = j
      /\ DOMAIN ll = 1..Len(ll)
  BY LenProperties DEF IInv, TypeOK, IndexConsistent
<1>2. /\ \A i \in 1..Len(ll) : ll[i].key \in cache /\ Store[ll[i].key] = ll[i].value
      /\ \A k \in cache : \E i \in 1..Len(ll) : ll[i].key = k
  BY StoreFacts DEF StoreIsList
<1>3. \A b \in B : b[1] \in 1..Len(ll) /\ b[2] \in 1..EntryLen(ll[b[1]]) /\ b = <<b[1], b[2]>>
  OBVIOUS
<1>4. \A i \in 1..Len(ll) : \A j \in 1..EntryLen(ll[i]) : <<i, j>> \in B
  OBVIOUS
<1>5. \A x : x \in StoredBytes <=> \E k \in cache : \E j \in 1..KeyLen[k] + ValueLen[Store[k]] : x = <<k, j>>
  BY DEF StoredBytes
<1>6. \A i \in 1..Len(ll) : EntryLen(ll[i]) = KeyLen[ll[i].key] + ValueLen[Store[ll[i].key]]
  BY <1>2 DEF EntryLen
<1> HIDE DEF B
<1>7. f \in [B -> StoredBytes]
  BY <1>2, <1>3, <1>5, <1>6
<1>8. \A b, c \in B : f[b] = f[c] => b = c
  BY <1>1, <1>3
<1>9. ASSUME NEW x \in StoredBytes PROVE \E b \in B : f[b] = x
  <2>1. PICK k \in cache : \E j \in 1..KeyLen[k] + ValueLen[Store[k]] : x = <<k, j>>
    BY <1>5
  <2>2. PICK i \in 1..Len(ll) : ll[i].key = k
    BY <1>2
  <2>3. PICK j \in 1..EntryLen(ll[i]) : x = <<k, j>>
    BY <1>6, <2>1, <2>2
  <2>4. <<i, j>> \in B
    BY <1>4
  <2> QED BY <2>2, <2>3, <2>4
<1>10. ExistsBijection(B, StoredBytes)
  <2> HIDE DEF f
  <2>1. f \in Bijection(B, StoredBytes)
    BY <1>7, <1>8, <1>9, Fun_IsBij
  <2> QED BY <2>1 DEF ExistsBijection
<1>11. ExistsBijection(StoredBytes, B)
  BY <1>10, Fun_ExistsBijSymmetric
<1>12. Cardinality(B) = Cardinality(StoredBytes)
  BY <1>11, FS_Bijection
<1> QED BY <1>1, <1>12 DEF Used, B

\* What an Add of a new key and the removal of the last entry do to the bytes.
LEMMA AddCounts ==
    ASSUME CInv, IInv', NEW k \in Key, NEW v \in Value, k \notin cache, cache' = cache \cup {k},
           Store'[k] = v, \A x \in cache : Store'[x] = Store[x],
           nbytes' = nbytes + (KeyLen[k] + ValueLen[v])
    PROVE  Counted'
<1> DEFINE size == [x \in cache \cup {k} |-> KeyLen[x] + ValueLen[Store'[x]]]
<1>1. \A x \in cache : x \in Key /\ Store[x] \in Value
  BY StoreFacts DEF CInv, IInv, TypeOK, StoreIsList
<1>2. /\ \A x \in cache \cup {k} : size[x] = KeyLen[x] + ValueLen[Store'[x]]
      /\ \A x \in cache : size[x] = KeyLen[x] + ValueLen[Store[x]]
      /\ size[k] = KeyLen[k] + ValueLen[v]
  OBVIOUS
<1>3. \A x \in cache \cup {k} : size[x] \in Nat
  BY <1>1, <1>2, SizesAssumption
<1> HIDE DEF size
<1>4. StoredBytes = UNION {{x} \X (1..size[x]) : x \in cache}
  BY <1>2 DEF StoredBytes
<1>5. StoredBytes' = UNION {{x} \X (1..size[x]) : x \in cache \cup {k}}
  BY <1>2 DEF StoredBytes
<1>6. IsFiniteSet(StoredBytes') /\ Cardinality(StoredBytes') = Cardinality(StoredBytes) + size[k]
  BY <1>3, <1>4, <1>5, BytesOfOneMore DEF CInv, Counted
<1> QED BY <1>2, <1>6 DEF CInv, Counted

\* RemoveOldest takes the bytes of one entry off the count.
LEMMA RemoveCounts ==
    ASSUME CInv, IInv', RemoveBack
    PROVE  /\ Counted' /\ Offered' /\ nbytes' <= nbytes
           /\ ll = << >> => UNCHANGED <<ll, cache, nbytes>>
<1>0. nbytes \in Int
  BY DEF CInv, IInv, TypeOK
<1>1. CASE ll = << >>
  <2>1. ll' = ll /\ cache' = cache /\ nbytes' = nbytes
    BY <1>1 DEF RemoveBack
  <2>2. Store' = Store /\ StoredBytes' = StoredBytes
    BY <2>1 DEF Store, StoredBytes, PosOf
  <2> QED BY <1>0, <2>1, <2>2 DEF CInv, Counted, Offered
<1>2. CASE ll # << >>
  <2> DEFINE k == ll[Len(ll)].key
             size == [x \in cache |-> KeyLen[x] + ValueLen[Store[x]]]
  <2>1. /\ Len(ll) \in 1..Len(ll) /\ k \in cache /\ cache' = cache \ {k}
        /\ nbytes' = nbytes - EntryLen(ll[Len(ll)])
        /\ \A x \in cache' : Store'[x] = Store[x]
    BY <1>2, RemoveTakesFromStore DEF CInv
  <2>2. Store[k] = ll[Len(ll)].value
    BY <2>1, StoreFacts DEF CInv, StoreIsList
  <2>3. \A x \in cache : x \in Key /\ Store[x] \in Value
    BY StoreFacts DEF CInv, IInv, TypeOK, StoreIsList
  <2>4. /\ \A x \in cache : size[x] = KeyLen[x] + ValueLen[Store[x]] /\ size[x] \in Nat
        /\ EntryLen(ll[Len(ll)]) = size[k]
    BY <2>1, <2>2, <2>3, SizesAssumption DEF EntryLen
  <2>5. k \notin cache \ {k} /\ size[k] \in Nat
    BY <2>1, <2>4
  <2>c. cache = (cache \ {k}) \cup {k}
    BY <2>1
  <2> HIDE DEF size, k
  <2>6. StoredBytes = UNION {{x} \X (1..size[x]) : x \in (cache \ {k}) \cup {k}}
    BY <2>4, <2>c DEF StoredBytes
  <2>7. StoredBytes' = UNION {{x} \X (1..size[x]) : x \in cache \ {k}}
    BY <2>1, <2>4 DEF StoredBytes
  <2>8. \A x \in (cache \ {k}) \cup {k} : size[x] \in Nat
    BY <2>4, <2>c
  <2>9. IsFiniteSet(StoredBytes') /\ Cardinality(StoredBytes) = Cardinality(StoredBytes') + size[k]
    <3>1. IsFiniteSet(StoredBytes)
      BY DEF CInv, Counted
    <3> DEFINE K == cache \ {k}
    <3>2. /\ k \notin K /\ \A x \in K \cup {k} : size[x] \in Nat
          /\ StoredBytes' = UNION {{x} \X (1..size[x]) : x \in K}
          /\ StoredBytes = UNION {{x} \X (1..size[x]) : x \in K \cup {k}}
      BY <2>5, <2>6, <2>7, <2>8
    <3> HIDE DEF K
    <3> QED BY <3>1, <3>2, BytesOfOneMore
  <2>10. /\ Cardinality(StoredBytes') \in Nat /\ nbytes = Cardinality(StoredBytes)
         /\ nbytes' = nbytes - size[k]
    BY <2>1, <2>4, <2>9, FS_CardinalityType DEF CInv, Counted
  <2>11. Counted' /\ nbytes' <= nbytes
    BY <1>0, <2>5, <2>9, <2>10 DEF Counted
  <2>12. Offered'
    BY <2>1 DEF CInv, Offered
  <2> QED BY <1>2, <2>11, <2>12
<1> QED BY <1>1, <1>2

\* A step of the cache with its count: what it does to the store.
LEMMA NextCounts ==
    ASSUME FixedLengths, CInv, IInv', [Next]_vars
    PROVE  CInv'
<1>1. ASSUME NEW k \in Key, Get(k) PROVE CInv'
  <2>1. ~adding /\ cache' = cache /\ nbytes' = nbytes /\ adding' = adding
    BY <1>1 DEF Get
  <2>2. Store' = Store
    <3>1. CASE k \in cache
      BY <1>1, <2>1, <3>1, MoveKeepsStore DEF Get, CInv
    <3>2. CASE k \notin cache
      <4>1. ll' = ll
        BY <1>1, <3>2 DEF Get
      <4> QED BY <2>1, <4>1 DEF Store, PosOf
    <3> QED BY <3>1, <3>2
  <2>3. StoredBytes' = StoredBytes
    BY <2>1, <2>2 DEF StoredBytes
  <2> QED BY <2>1, <2>2, <2>3 DEF CInv, Counted, Offered, Settled, OverLimit
<1>2. ASSUME NEW o \in Offers, AddCached(o[1], o[2]) PROVE CInv'
  <2> DEFINE k == o[1]
  <2>1. /\ k \in cache /\ cache' = cache /\ adding' = TRUE /\ ll' = MoveToFront(ll, PosOf(k))
        /\ nbytes' = nbytes + (ValueLen[o[2]] - ValueLen[Store[k]])
    BY <1>2 DEF AddCached, Store
  <2>2. o = <<k, o[2]>> /\ o[2] \in Value
    BY OffersAssumption
  <2>3. Store' = Store
    BY <2>1, MoveKeepsStore DEF CInv
  <2>4. <<k, Store[k]>> \in Offers /\ <<k, Store[k]>>[1] = k /\ <<k, Store[k]>>[2] = Store[k]
    BY <2>1 DEF CInv, Offered
  <2>5. ValueLen[o[2]] = ValueLen[Store[k]]
    BY <2>4 DEF FixedLengths
  <2>6. nbytes' = nbytes
    <3>1. ValueLen[o[2]] \in Nat /\ nbytes \in Int
      BY <2>2, SizesAssumption DEF CInv, IInv, TypeOK
    <3> QED BY <2>1, <2>5, <3>1
  <2>7. StoredBytes' = StoredBytes
    BY <2>1, <2>3 DEF StoredBytes
  <2> QED BY <2>1, <2>3, <2>6, <2>7 DEF CInv, Counted, Offered, Settled
<1>3. ASSUME NEW o \in Offers, AddNew(o[1], o[2]) PROVE CInv'
  <2> DEFINE e == [key |-> o[1], value |-> o[2]]
  <2>1. /\ e.key \notin cache /\ cache' = cache \cup {e.key} /\ adding' = TRUE
        /\ ll' = PushFront(ll, e) /\ nbytes' = nbytes + (KeyLen[e.key] + ValueLen[e.value])
    BY <1>3 DEF AddNew
  <2>2. o = <<e.key, e.value>> /\ e.key \in Key /\ e.value \in Value /\ e \in Entry
    BY OffersAssumption DEF Entry
  <2> HIDE DEF e
  <2>3. Store'[e.key] = e.value /\ \A x \in cache : Store'[x] = Store[x]
    BY <2>1, <2>2, PushAddsToStore DEF CInv
  <2>4. Counted'
    BY <2>1, <2>2, <2>3, AddCounts
  <2>5. Offered'
    BY <2>1, <2>2, <2>3 DEF CInv, Offered
  <2> QED BY <2>1, <2>4, <2>5 DEF CInv, Settled
<1>4. CASE Evict \/ RemoveOldest
  <2>1. RemoveBack /\ adding' = adding
    BY <1>4 DEF Evict, RemoveOldest
  <2>2. Counted' /\ Offered' /\ nbytes' <= nbytes
    BY <2>1, RemoveCounts
  <2>3. Settled'
    <3>1. nbytes \in Int /\ nbytes' \in Int /\ MaxBytes \in Nat
      BY SizesAssumption DEF CInv, IInv, TypeOK
    <3> QED BY <2>1, <2>2, <3>1 DEF CInv, Settled, OverLimit
  <2> QED BY <2>2, <2>3 DEF CInv
<1>5. CASE AddReturn \/ UNCHANGED vars
  <2>1. ll' = ll /\ cache' = cache /\ nbytes' = nbytes
    BY <1>5 DEF AddReturn, vars
  <2>2. Store' = Store /\ StoredBytes' = StoredBytes
    BY <2>1 DEF Store, StoredBytes, PosOf
  <2>3. Settled'
    BY <1>5, <2>1 DEF AddReturn, vars, CInv, Settled, OverLimit
  <2> QED BY <2>1, <2>2, <2>3 DEF CInv, Counted, Offered
<1> QED BY <1>1, <1>2, <1>3, <1>4, <1>5 DEF Next

\* An empty cache takes nothing.
LEMMA InitCounts ==
    ASSUME Init, IInv
    PROVE  CInv
<1>1. cache = {} /\ nbytes = 0
  BY DEF Init
<1>2. StoredBytes = {}
  BY <1>1 DEF StoredBytes
<1>3. Counted
  BY <1>1, <1>2, FS_EmptySet DEF Counted
<1>4. Settled
  BY <1>1, SizesAssumption DEF Settled, OverLimit
<1> QED BY <1>1, <1>3, <1>4 DEF CInv, Offered

\* The count is right in every state.
LEMMA Counting ==
    ASSUME FixedLengths
    PROVE  Spec => []CInv
<1>1. Init => CInv
  BY InitIInv, InitCounts
<1>2. CInv /\ [Next]_vars => CInv'
  BY NextKeepsIInv, NextCounts DEF CInv
<1> QED BY <1>1, <1>2, PTL DEF Spec

\* nbytes is what the entries take (lru.go:8), through every add and eviction.
THEOREM CountIsExact ==
    ASSUME FixedLengths
    PROVE  Spec => []Accounting
<1>1. CInv => Accounting
  BY UsedIsStored DEF CInv, Counted, Accounting
<1> QED BY <1>1, Counting, PTL

\* Between calls the entries held take at most maxBytes (lru.go:7).
THEOREM LimitIsKept ==
    ASSUME FixedLengths
    PROVE  Spec => []UsedWithinLimit
<1>1. CInv => UsedWithinLimit
  <2>1. SUFFICES ASSUME CInv PROVE UsedWithinLimit
    OBVIOUS
  <2>2. Used = nbytes /\ nbytes \in Int /\ MaxBytes \in Nat
    BY <2>1, UsedIsStored, SizesAssumption DEF CInv, Counted, IInv, TypeOK
  <2> QED BY <2>1, <2>2 DEF CInv, Settled, OverLimit, UsedWithinLimit
<1> QED BY <1>1, Counting, PTL

\* A step of the cache is one of the policy's or leaves the store as it is: the
\* entry at the back of the list is the one used longest ago, and the loop of Add goes on
\* as long as the bytes of the store are over the limit.
LEMMA StepsAreThePolicys ==
    ASSUME FixedLengths, CInv, CInv', [Next]_vars
    PROVE  [Policy!Next]_Policy!vars
<1>1. Policy!Cached = cache /\ Policy!Bytes = nbytes
  <2>1. Policy!Cached = cache
    BY DEF Policy!Cached
  <2>2. Policy!Bytes = Cardinality(StoredBytes)
    <3>1. \A k \in cache : [x \in cache |-> ll[PosOf(x)].value][k] = Store[k]
      BY DEF Store
    <3>2. Policy!Stored = StoredBytes
      BY <2>1, <3>1 DEF Policy!Stored, StoredBytes
    <3>3. Policy!Bytes = Policy!Cardinality(StoredBytes)
      BY <3>2 DEF Policy!Bytes
    <3>4. Policy!Cardinality(StoredBytes) = Cardinality(StoredBytes)
      BY DEF Policy!Cardinality, Cardinality
    <3> QED BY <3>3, <3>4
  <2> QED BY <2>1, <2>2 DEF CInv, Counted
<1>2. Policy!OverLimit <=> OverLimit
  <2>1. nbytes \in Int /\ MaxBytes \in Nat
    BY SizesAssumption DEF CInv, IInv, TypeOK
  <2> QED BY <1>1, <2>1 DEF Policy!OverLimit, OverLimit
<1>3. ASSUME NEW k \in Key, Get(k) PROVE Policy!Lookup(k)
  <2>1. ~adding /\ cache' = cache /\ adding' = adding
    BY <1>3 DEF Get
  <2>2. CASE k \in cache
    <3>1. Store' = Store
      BY <1>3, <2>1, <2>2, MoveKeepsStore DEF Get, CInv
    <3>2. got' = Store[k] /\ newer' = Touch(k)
      BY <1>3, <2>2 DEF Get, Store
    <3> QED BY <1>1, <2>1, <2>2, <3>1, <3>2 DEF Policy!Lookup, Policy!Touch, Touch, Store
  <2>3. CASE k \notin cache
    <3>1. Store' = Store
      <4>1. ll' = ll
        BY <1>3, <2>3 DEF Get
      <4> QED BY <2>1, <4>1 DEF Store, PosOf
    <3>2. got' = Miss /\ newer' = newer
      BY <1>3, <2>3 DEF Get
    <3> QED BY <1>1, <2>1, <2>3, <3>1, <3>2 DEF Policy!Lookup, Store
  <2> QED BY <2>2, <2>3
<1>4. ASSUME NEW o \in Offers, AddCached(o[1], o[2]) PROVE Policy!Put(o[1], o[2])
  <2> DEFINE k == o[1]
  <2>1. /\ ~adding /\ k \in cache /\ cache' = cache /\ adding' = TRUE /\ newer' = Touch(k)
        /\ got' = got /\ ll' = MoveToFront(ll, PosOf(k))
    BY <1>4 DEF AddCached
  <2>2. Store' = Store
    BY <2>1, MoveKeepsStore DEF CInv
  <2>3. Store' = [x \in cache \cup {k} |-> IF x \in cache THEN Store[x] ELSE o[2]]
    BY <2>1, <2>2 DEF Store
  <2> QED BY <1>1, <2>1, <2>3 DEF Policy!Put, Policy!Touch, Touch, Store
<1>5. ASSUME NEW o \in Offers, AddNew(o[1], o[2]) PROVE Policy!Put(o[1], o[2])
  <2> DEFINE e == [key |-> o[1], value |-> o[2]]
  <2>1. /\ ~adding /\ e.key \notin cache /\ cache' = cache \cup {e.key} /\ adding' = TRUE
        /\ ll' = PushFront(ll, e) /\ newer' = Touch(e.key) /\ got' = got
    BY <1>5 DEF AddNew
  <2>2. e \in Entry
    BY OffersAssumption DEF Entry
  <2>3. Store'[e.key] = e.value /\ \A x \in cache : Store'[x] = Store[x]
    BY <2>1, <2>2, PushAddsToStore DEF CInv
  <2>4. Store' = [x \in cache \cup {o[1]} |-> IF x \in cache THEN Store[x] ELSE o[2]]
    <3>1. Store' = [x \in cache' |-> Store'[x]]
      BY DEF Store
    <3> QED BY <2>1, <2>3, <3>1
  <2> QED BY <1>1, <2>1, <2>4 DEF Policy!Put, Policy!Touch, Touch, Store
<1>6. ASSUME RemoveBack, UNCHANGED <<adding, got, newer>>, adding => OverLimit
      PROVE  (\E k \in Key : Policy!Drop(k)) \/ UNCHANGED Policy!vars
  <2>1. CASE ll = << >>
    <3>1. ll' = ll /\ cache' = cache
      BY <1>6, <2>1 DEF RemoveBack
    <3> QED BY <1>6, <3>1 DEF Policy!vars, PosOf
  <2>2. CASE ll # << >>
    <3> DEFINE k == ll[Len(ll)].key
    <3>1. /\ Len(ll) \in 1..Len(ll) /\ k \in cache /\ cache' = cache \ {k}
          /\ \A x \in cache' : Store'[x] = Store[x]
      BY <1>6, <2>2, RemoveTakesFromStore DEF CInv
    <3>2. Store' = [x \in cache \ {k} |-> Store[x]]
      BY <3>1 DEF Store
    <3>3. ASSUME NEW x \in cache \ {k} PROVE <<x, k>> \in newer
      <4>1. PICK i \in 1..Len(ll) : ll[i].key = x
        BY StoreFacts DEF CInv, StoreIsList
      <4>2. i < Len(ll)
        BY <3>1, <3>3, <4>1
      <4> QED BY <3>1, <4>1, <4>2 DEF CInv, IInv, RecencyOrder
    <3>4. k \in Key
      BY <3>1 DEF CInv, IInv, TypeOK
    <3> HIDE DEF k
    <3>5. Policy!Drop(k)
      BY <1>1, <1>2, <1>6, <3>1, <3>2, <3>3 DEF Policy!Drop, Policy!Oldest, Store
    <3> QED BY <3>4, <3>5
  <2> QED BY <2>1, <2>2
<1>7. CASE AddReturn
  <2>1. /\ adding /\ ~OverLimit /\ adding' = FALSE
        /\ ll' = ll /\ cache' = cache /\ newer' = newer /\ got' = got
    BY <1>7 DEF AddReturn
  <2>2. Policy!Settle
    BY <1>2, <2>1 DEF Policy!Settle, PosOf
  <2> QED BY <2>2 DEF Policy!Next
<1>8. CASE UNCHANGED vars
  BY <1>8 DEF vars, Policy!vars, PosOf
<1>9. CASE Evict \/ RemoveOldest
  <2>1. RemoveBack /\ UNCHANGED <<adding, got, newer>> /\ (adding => OverLimit)
    BY <1>9 DEF Evict, RemoveOldest
  <2> QED BY <1>6, <2>1 DEF Policy!Next
<1> QED BY <1>3, <1>4, <1>5, <1>7, <1>8, <1>9 DEF Next, Policy!Next

\* The cache is the policy in LRUPolicy (safety).
THEOREM ImplementsPolicy ==
    ASSUME FixedLengths
    PROVE  Spec => Policy!SafeSpec
<1>1. Init => Policy!Init
  <2>1. SUFFICES ASSUME Init PROVE Policy!Init
    OBVIOUS
  <2>2. [k \in cache |-> ll[PosOf(k)].value] = << >>
    BY <2>1 DEF Init
  <2> QED BY <2>1, <2>2 DEF Init, Policy!Init
<1>2. CInv /\ CInv' /\ [Next]_vars => [Policy!Next]_Policy!vars
  BY StepsAreThePolicys
<1> QED BY <1>1, <1>2, Counting, PTL DEF Spec, Policy!SafeSpec
=============================================================================
