----------------------------- MODULE Gee_proofs -----------------------------
(***************************************************************************)
(* What the router and Gee promise, for every day: first the trie and its  *)
(* searches, for all patterns and paths, and then the handlers of a        *)
(* request, for every chain of them.                                       *)
(***************************************************************************)
EXTENDS WebDays, DataLemmas

-----------------------------------------------------------------------------
(* The trie, and how insert makes it grow *)

\* The places of children.
Index == Nat \ {0}

\* children and pattern make a trie: every node but the root is a child of a node.
Shape(c, pt) ==
    /\ DOMAIN pt = DOMAIN c /\ << >> \in DOMAIN c
    /\ \A n \in DOMAIN c : /\ n \in Seq(Index) /\ c[n] \in Seq(Part)
                           /\ pt[n] \in Pattern \cup {NoRoute}
                           /\ \A i \in 1..Len(c[n]) : Append(n, i) \in DOMAIN c
                           /\ \/ n = << >>
                              \/ \E m \in DOMAIN c : \E i \in 1..Len(c[m]) : n = Append(m, i)

\* trie is one that insert has come down in.
Trie(trie) == /\ trie = [at |-> trie.at, children |-> trie.children, pattern |-> trie.pattern]
              /\ Shape(trie.children, trie.pattern) /\ trie.at \in DOMAIN trie.children

\* trie has what c and pt had, at the same places, and new nodes without a route.
Extends(trie, c, pt) ==
    /\ DOMAIN c \subseteq DOMAIN trie.children
    /\ \A n \in DOMAIN c : /\ Len(c[n]) <= Len(trie.children[n])
                           /\ \A i \in 1..Len(c[n]) : trie.children[n][i] = c[n][i]
                           /\ trie.pattern[n] = pt[n]
    /\ \A n \in DOMAIN trie.children \ DOMAIN c : trie.pattern[n] = NoRoute

\* A child has one parent and one place there.
LEMMA ChildOnce ==
    ASSUME NEW m \in Seq(Index), NEW n \in Seq(Index), NEW i \in Index, NEW j \in Index,
           Append(m, i) = Append(n, j)
    PROVE  m = n /\ i = j
BY AppendInjective

\* What Front and Last make of a child, and its length.
LEMMA ChildIs ==
    ASSUME NEW m \in Seq(Index), NEW i \in Index
    PROVE  /\ Append(m, i) \in Seq(Index) /\ Append(m, i) # << >>
           /\ Len(Append(m, i)) = Len(m) + 1 /\ Len(m) \in Nat
           /\ Front(Append(m, i)) = m /\ Last(Append(m, i)) = i
<1> DEFINE n == Append(m, i)
<1>1. /\ n \in Seq(Index) /\ n # << >> /\ Len(n) = Len(m) + 1 /\ Len(m) \in Nat
      /\ \A k \in 1..Len(m) : n[k] = m[k]
      /\ n[Len(m) + 1] = i
  BY AppendProperties, LenProperties
<1> HIDE DEF n
<1>2. Last(n) = i
  BY <1>1 DEF Last
<1>3. Front(n) = m
  <2>1. \A k \in 1..Len(n) - 1 : n[k] \in Index
    BY <1>1, ElementOfSeq
  <2>2. Front(n) = SubSeq(n, 1, Len(n) - 1)
    BY DEF Front
  <2>3. Len(n) - 1 = Len(m)
    BY <1>1
  <2>4. /\ SubSeq(n, 1, Len(m)) \in Seq(Index)
        /\ Len(SubSeq(n, 1, Len(m))) = Len(m)
        /\ \A k \in 1..Len(m) : SubSeq(n, 1, Len(m))[k] = n[k]
    <3>1. \A k \in 1..Len(m) : n[k] \in Index
      BY <1>1, <2>1
    <3>2. /\ SubSeq(n, 1, Len(m)) \in Seq(Index)
          /\ Len(SubSeq(n, 1, Len(m))) = IF 1 <= Len(m) THEN Len(m) - 1 + 1 ELSE 0
          /\ \A k \in 1..Len(m) - 1 + 1 : SubSeq(n, 1, Len(m))[k] = n[1 + k - 1]
      BY <1>1, <3>1, SubSeqProperties
    <3> QED BY <1>1, <3>2
  <2>5. SubSeq(n, 1, Len(m)) = m
    BY <1>1, <2>4, SeqEqual
  <2> QED BY <2>2, <2>3, <2>5
<1> QED BY <1>1, <1>2, <1>3 DEF n

\* g is trie with new children of trie.at, the last of which insert goes on to.
Grows(g, trie, parts) ==
    LET len == Len(trie.children[trie.at])
        fresh == {Append(trie.at, i) : i \in len + 1..len + Len(parts)}
    IN /\ g.at = Append(trie.at, len + Len(parts))
       /\ DOMAIN g.children = fresh \cup DOMAIN trie.children
       /\ fresh \cap DOMAIN trie.children = {}
       /\ g.children[trie.at] = trie.children[trie.at] \o parts
       /\ \A n \in DOMAIN trie.children : n # trie.at => g.children[n] = trie.children[n]
       /\ \A n \in fresh : g.children[n] = << >> /\ g.pattern[n] = NoRoute

\* Grow makes a trie with all that was there, and the children it is to make.
LEMMA GrowKeeps ==
    ASSUME NEW trie, Trie(trie), NEW parts \in Seq(Part), Len(parts) # 0
    PROVE  LET g == Grow(trie, parts)
           IN Trie(g) /\ Extends(g, trie.children, trie.pattern) /\ Grows(g, trie, parts)
<1> DEFINE c == trie.children
           pt == trie.pattern
           at == trie.at
           len == Len(c[at])
           more == Len(parts)
           grown == c[at] \o parts
           fresh == {Append(at, i) : i \in len + 1..len + more}
           g == Grow(trie, parts)
<1>1. /\ Shape(c, pt) /\ at \in DOMAIN c /\ at \in Seq(Index) /\ c[at] \in Seq(Part)
      /\ len \in Nat /\ more \in Nat
  BY LenProperties DEF Trie, Shape
<1>2. /\ grown \in Seq(Part) /\ Len(grown) = len + more
      /\ \A i \in 1..len : grown[i] = c[at][i]
  <2>1. /\ grown \in Seq(Part) /\ Len(grown) = len + more
        /\ \A i \in 1..len + more : grown[i] = IF i <= len THEN c[at][i] ELSE parts[i - len]
    BY <1>1, ConcatProperties
  <2> QED BY <1>1, <2>1
<1> DEFINE freshG == {Append(at, i) : i \in Len(grown) - Len(parts) + 1..Len(grown)}
<1>3. freshG = fresh
  <2>1. Len(grown) - Len(parts) = len
    BY <1>1, <1>2
  <2> QED BY <1>2, <2>1
<1>4. g = [at |-> Append(at, Len(grown)),
           children |-> [n \in freshG \cup DOMAIN c |->
                            IF n \in freshG THEN << >> ELSE IF n = at THEN grown ELSE c[n]],
           pattern |-> [n \in freshG \cup DOMAIN pt |-> IF n \in freshG THEN NoRoute ELSE pt[n]]]
  BY DEF Grow
<1>5. ASSUME NEW n \in fresh
      PROVE  /\ n \in Seq(Index) /\ n \notin DOMAIN c
             /\ \E i \in len + 1..len + more : n = Append(at, i)
  <2>1. PICK i \in len + 1..len + more : n = Append(at, i)
    OBVIOUS
  <2>2. i \in Index
    BY <1>1 DEF Index
  <2>3. n \in Seq(Index) /\ n # << >>
    BY <1>1, <2>1, <2>2, ChildIs
  <2>4. ASSUME n \in DOMAIN c PROVE FALSE
    <3>1. PICK m \in DOMAIN c : \E j \in 1..Len(c[m]) : n = Append(m, j)
      BY <1>1, <2>3, <2>4 DEF Shape
    <3>2. PICK j \in 1..Len(c[m]) : n = Append(m, j)
      BY <3>1
    <3>3. m \in Seq(Index) /\ Len(c[m]) \in Nat
      BY <1>1, LenProperties DEF Shape
    <3>4. j \in Index
      BY <3>3 DEF Index
    <3>5. Append(m, j) = Append(at, i)
      BY <2>1, <3>2
    <3>6. m = at /\ j = i
      <4> HIDE DEF c, at
      <4> QED BY <1>1, <2>2, <3>3, <3>4, <3>5, ChildOnce
    <3> QED BY <1>1, <3>6
  <2> QED BY <2>1, <2>3, <2>4
<1> HIDE DEF g, grown, freshG, c, pt, at, len, more
<1>6. /\ g.at = Append(at, len + more)
      /\ g.children = [n \in fresh \cup DOMAIN c |->
                          IF n \in fresh THEN << >> ELSE IF n = at THEN grown ELSE c[n]]
      /\ g.pattern = [n \in fresh \cup DOMAIN pt |-> IF n \in fresh THEN NoRoute ELSE pt[n]]
      /\ g = [at |-> g.at, children |-> g.children, pattern |-> g.pattern]
  BY <1>2, <1>3, <1>4
<1> HIDE DEF fresh
<1>7. /\ DOMAIN g.children = fresh \cup DOMAIN c
      /\ DOMAIN g.pattern = fresh \cup DOMAIN pt /\ DOMAIN pt = DOMAIN c
  BY <1>1, <1>6 DEF Shape
<1>8. /\ \A n \in fresh : g.children[n] = << >> /\ g.pattern[n] = NoRoute
      /\ \A n \in DOMAIN c : /\ n \notin fresh /\ g.pattern[n] = pt[n]
                             /\ n # at => g.children[n] = c[n]
      /\ g.children[at] = grown
  <2>1. \A n \in DOMAIN c : n \notin fresh
    BY <1>5
  <2> QED BY <1>1, <1>6, <1>7, <2>1
<1>9. g.at \in fresh
  <2>1. len + more \in len + 1..len + more
    BY <1>1 DEF more
  <2> QED BY <1>6, <2>1 DEF fresh
<1>10. Shape(g.children, g.pattern)
  <2>1. << >> \in DOMAIN g.children
    BY <1>1, <1>7 DEF Shape
  <2>2. ASSUME NEW n \in DOMAIN g.children
        PROVE  /\ n \in Seq(Index) /\ g.children[n] \in Seq(Part)
               /\ g.pattern[n] \in Pattern \cup {NoRoute}
               /\ \A i \in 1..Len(g.children[n]) : Append(n, i) \in DOMAIN g.children
               /\ n = << >> \/ \E m \in DOMAIN g.children : \E i \in 1..Len(g.children[m]) : n = Append(m, i)
    <3>1. CASE n \in fresh
      <4>1. g.children[n] = << >> /\ g.pattern[n] = NoRoute /\ n \in Seq(Index)
        BY <1>5, <1>8, <3>1
      <4>2. << >> \in Seq(Part) /\ 1..Len(g.children[n]) = {}
        BY <4>1, EmptySeq
      <4>3. PICK i \in len + 1..len + more : n = Append(at, i)
        BY <1>5, <3>1
      <4>4. at \in DOMAIN g.children /\ i \in 1..Len(g.children[at])
        BY <1>1, <1>2, <1>7, <1>8
      <4> QED BY <4>1, <4>2, <4>3, <4>4
    <3>2. CASE n \in DOMAIN c
      <4>1. n \in Seq(Index) /\ g.children[n] \in Seq(Part) /\ g.pattern[n] \in Pattern \cup {NoRoute}
        BY <1>1, <1>2, <1>8, <3>2 DEF Shape
      <4>2. ASSUME NEW i \in 1..Len(g.children[n]) PROVE Append(n, i) \in DOMAIN g.children
        <5>1. CASE n = at
          <6>1. i \in 1..len \/ i \in len + 1..len + more
            BY <1>1, <1>2, <1>8, <5>1
          <6>2. i \in 1..len => Append(n, i) \in DOMAIN c
            BY <1>1, <5>1 DEF Shape, len
          <6>3. i \in len + 1..len + more => Append(n, i) \in fresh
            BY <5>1 DEF fresh
          <6> QED BY <1>7, <6>1, <6>2, <6>3
        <5>2. CASE n # at
          BY <1>1, <1>7, <1>8, <3>2, <5>2 DEF Shape
        <5> QED BY <5>1, <5>2
      <4>3. n = << >> \/ \E m \in DOMAIN g.children : \E i \in 1..Len(g.children[m]) : n = Append(m, i)
        <5>1. SUFFICES ASSUME n # << >>
                       PROVE  \E m \in DOMAIN g.children : \E i \in 1..Len(g.children[m]) : n = Append(m, i)
          OBVIOUS
        <5>2. PICK m \in DOMAIN c : \E i \in 1..Len(c[m]) : n = Append(m, i)
          BY <1>1, <3>2, <5>1 DEF Shape
        <5>3. PICK i \in 1..Len(c[m]) : n = Append(m, i)
          BY <5>2
        <5>4. i \in 1..Len(g.children[m])
          <6>1. CASE m = at
            BY <1>1, <1>2, <1>8, <6>1 DEF len
          <6>2. CASE m # at
            BY <1>8, <6>2
          <6> QED BY <6>1, <6>2
        <5> QED BY <1>7, <5>3, <5>4
      <4> QED BY <4>1, <4>2, <4>3
    <3> QED BY <1>7, <3>1, <3>2
  <2> QED BY <1>7, <2>1, <2>2 DEF Shape
<1>11. Extends(g, c, pt)
  <2>1. ASSUME NEW n \in DOMAIN c
        PROVE  /\ Len(c[n]) <= Len(g.children[n])
               /\ \A i \in 1..Len(c[n]) : g.children[n][i] = c[n][i]
    <3>1. CASE n = at
      BY <1>1, <1>2, <1>8, <3>1 DEF len
    <3>2. CASE n # at
      <4>1. Len(c[n]) \in Nat
        BY <1>1, LenProperties DEF Shape
      <4> QED BY <1>8, <3>2, <4>1
    <3> QED BY <3>1, <3>2
  <2> QED BY <1>7, <1>8, <2>1 DEF Extends
<1>12. Trie(g)
  BY <1>6, <1>7, <1>9, <1>10 DEF Trie
<1>13. fresh \cap DOMAIN c = {}
  BY <1>5
<1> QED BY <1>6, <1>7, <1>8, <1>11, <1>12, <1>13 DEF g, c, pt, at, len, more, fresh, grown, Grows

\* matchChild finds a child that matches, if there is one.
LEMMA FirstMatch ==
    ASSUME NEW s \in Seq(Part), NEW part
    PROVE  /\ MatchChild(s, part) \in 0..Len(s)
           /\ MatchChild(s, part) = 0 => \A k \in 1..Len(s) : ~Matches(s[k], part)
           /\ MatchChild(s, part) # 0 => Matches(s[MatchChild(s, part)], part)
<1> DEFINE I == MatchChildren(s, part)
           i == MatchChild(s, part)
<1>1. i = IF I = {} THEN 0 ELSE Min(I)
  BY DEF MatchChild
<1>2. Len(s) \in Nat /\ DOMAIN s = 1..Len(s)
  BY LenProperties
<1>3. I = {k \in 1..Len(s) : Matches(s[k], part)} /\ I \in SUBSET Nat
  BY <1>2 DEF MatchChildren
<1> HIDE DEF I, i
<1>4. CASE I = {}
  BY <1>1, <1>2, <1>3, <1>4 DEF i
<1>5. CASE I # {}
  <2>1. \E k \in I : \A j \in I : k <= j
    BY <1>3, <1>5, Least
  <2>2. i \in I
    BY <1>1, <1>5, <2>1 DEF Min
  <2> QED BY <1>2, <1>3, <2>2 DEF i
<1> QED BY <1>4, <1>5

\* One part of insert: on to a child that matches, or to a new one.
LEMMA DescendKeeps ==
    ASSUME NEW trie, Trie(trie), NEW part \in Part
    PROVE  LET d == Descend(trie, part)
               c == trie.children[trie.at]
           IN /\ Trie(d) /\ Extends(d, trie.children, trie.pattern)
              /\ \/ /\ \A i \in 1..Len(c) : ~Matches(c[i], part)
                    /\ Grows(d, trie, <<part>>)
                 \/ /\ d.children = trie.children /\ d.pattern = trie.pattern
                    /\ \E i \in 1..Len(c) : d.at = Append(trie.at, i) /\ Matches(c[i], part)
<1> DEFINE c == trie.children[trie.at]
           d == Descend(trie, part)
           i == MatchChild(c, part)
<1>1. c \in Seq(Part) /\ Len(c) \in Nat /\ trie.at \in DOMAIN trie.children
  BY LenProperties DEF Trie, Shape
<1>2. d = IF i = 0 THEN Grow(trie, <<part>>)
          ELSE [at |-> Append(trie.at, i), children |-> trie.children, pattern |-> trie.pattern]
  BY DEF Descend
<1>3. /\ i \in 0..Len(c)
      /\ i = 0 => \A k \in 1..Len(c) : ~Matches(c[k], part)
      /\ i # 0 => Matches(c[i], part)
  <2> HIDE DEF c
  <2> QED BY <1>1, FirstMatch
<1> HIDE DEF d, i
<1>4. CASE i = 0
  <2>1. <<part>> \in Seq(Part) /\ Len(<<part>>) # 0
    OBVIOUS
  <2>2. Trie(d) /\ Extends(d, trie.children, trie.pattern) /\ Grows(d, trie, <<part>>)
    BY <1>2, <1>4, <2>1, GrowKeeps
  <2> QED BY <1>3, <1>4, <2>2 DEF d
<1>5. CASE i # 0
  <2>1. d = [at |-> Append(trie.at, i), children |-> trie.children, pattern |-> trie.pattern]
    BY <1>2, <1>5
  <2>2. d.at = Append(trie.at, i) /\ d.children = trie.children /\ d.pattern = trie.pattern
    BY <2>1
  <2>3. i \in 1..Len(c)
    BY <1>1, <1>3, <1>5
  <2>4. d.at \in DOMAIN d.children
    BY <1>1, <2>2, <2>3 DEF Trie, Shape
  <2>5. Trie(d)
    BY <2>1, <2>2, <2>4 DEF Trie
  <2>6. Extends(d, trie.children, trie.pattern)
    <3>1. ASSUME NEW n \in DOMAIN trie.children PROVE Len(trie.children[n]) <= Len(trie.children[n])
      <4>1. Len(trie.children[n]) \in Nat
        BY LenProperties DEF Trie, Shape
      <4> QED BY <4>1
    <3> QED BY <2>2, <3>1 DEF Extends
  <2> QED BY <1>3, <1>5, <2>2, <2>3, <2>5, <2>6 DEF d
<1> QED BY <1>4, <1>5

\* On day 3 insert makes copies of a child, one where there are no children yet.
Copies(d, trie, part) ==
    \E parts \in Seq({part}) : /\ Len(parts) # 0 /\ Grows(d, trie, parts)
                               /\ trie.children[trie.at] = << >> => parts = <<part>>

\* The same on day 3: to the last of some copies.
LEMMA Descend3Keeps ==
    ASSUME NEW trie, Trie(trie), NEW part \in Part
    PROVE  LET d == Descend3(trie, part)
           IN /\ Trie(d) /\ Extends(d, trie.children, trie.pattern)
              /\ Copies(d, trie, part)
<1> DEFINE c == trie.children[trie.at]
           hits == MatchChildren(c, part)
           parts == [i \in 1..Cardinality(hits) + 1 |-> part]
           d == Descend3(trie, part)
<1>1. c \in Seq(Part) /\ DOMAIN c = 1..Len(c) /\ Len(c) \in Nat
  BY LenProperties DEF Trie, Shape
<1>2. d = Grow(trie, parts)
  BY DEF Descend3
<1>3. Cardinality(hits) \in Nat /\ (hits = {} => Cardinality(hits) = 0)
  <2>1. hits \subseteq 1..Len(c)
    BY <1>1 DEF MatchChildren
  <2>2. IsFiniteSet(1..Len(c))
    BY <1>1, FS_Interval
  <2> HIDE DEF hits
  <2> QED BY <2>1, <2>2, FS_Subset, FS_CardinalityType, FS_EmptySet
<1>4. parts \in Seq({part}) /\ parts \in Seq(Part) /\ Len(parts) = Cardinality(hits) + 1 /\ Len(parts) # 0
  <2> HIDE DEF hits
  <2> QED BY <1>3
<1>5. c = << >> => parts = <<part>>
  <2>1. SUFFICES ASSUME c = << >> PROVE parts = <<part>>
    OBVIOUS
  <2>2. hits = {}
    BY <2>1 DEF MatchChildren
  <2>3. Len(parts) = 1 /\ Len(<<part>>) = 1 /\ <<part>> \in Seq({part}) /\ <<part>>[1] = part
    BY <1>3, <1>4, <2>2
  <2> HIDE DEF parts
  <2>4. 1..Len(parts) = {1} /\ parts[1] \in {part}
    BY <1>4, <2>3, ElementOfSeq
  <2>5. \A i \in 1..Len(parts) : parts[i] = <<part>>[i]
    BY <2>3, <2>4
  <2> QED BY <1>4, <2>3, <2>5, SeqEqual
<1> HIDE DEF parts
<1>6. Trie(d) /\ Extends(d, trie.children, trie.pattern) /\ Grows(d, trie, parts)
  BY <1>2, <1>4, GrowKeeps
<1>7. Copies(d, trie, part)
  BY <1>4, <1>5, <1>6 DEF Copies
<1> QED BY <1>6, <1>7

\* Part after part insert loses nothing.
LEMMA ExtendsTransitive ==
    ASSUME NEW c, NEW pt, Shape(c, pt), NEW s, Trie(s), Extends(s, c, pt),
           NEW t, Trie(t), Extends(t, s.children, s.pattern)
    PROVE  Extends(t, c, pt)
<1>1. DOMAIN c \subseteq DOMAIN t.children
  BY DEF Extends
<1>2. ASSUME NEW n \in DOMAIN c
      PROVE  /\ Len(c[n]) <= Len(t.children[n]) /\ t.pattern[n] = pt[n]
             /\ \A i \in 1..Len(c[n]) : t.children[n][i] = c[n][i]
  <2>1. n \in DOMAIN s.children /\ n \in DOMAIN t.children
    BY <1>1 DEF Extends
  <2>2. Len(c[n]) \in Nat /\ Len(s.children[n]) \in Nat /\ Len(t.children[n]) \in Nat
    BY <2>1, LenProperties DEF Trie, Shape
  <2>3. Len(c[n]) <= Len(s.children[n]) /\ Len(s.children[n]) <= Len(t.children[n])
    BY <2>1 DEF Extends
  <2>4. t.pattern[n] = pt[n]
    BY <2>1 DEF Extends
  <2>5. ASSUME NEW i \in 1..Len(c[n]) PROVE t.children[n][i] = c[n][i]
    <3>1. i \in 1..Len(s.children[n])
      BY <2>2, <2>3
    <3> QED BY <2>1, <3>1 DEF Extends
  <2> QED BY <2>2, <2>3, <2>4, <2>5
<1>3. ASSUME NEW n \in DOMAIN t.children \ DOMAIN c PROVE t.pattern[n] = NoRoute
  BY <1>3 DEF Extends
<1> QED BY <1>1, <1>2, <1>3 DEF Extends

\* What parsePattern leaves: a beginning, in which an asterisk is last.
LEMMA ParsedIs ==
    ASSUME NEW s \in Seq(Part)
    PROVE  LET parts == ParsePattern(s)
           IN /\ parts \in Seq(Part) /\ Len(parts) \in Nat /\ Len(s) \in Nat /\ Len(parts) <= Len(s)
              /\ \A i \in 1..Len(parts) : parts[i] = s[i] /\ (parts[i] \in Star => i = Len(parts))
              /\ Len(parts) = Len(s) \/ (Len(parts) # 0 /\ parts[Len(parts)] \in Star)
<1> DEFINE parts == ParsePattern(s)
           stars == {i \in DOMAIN s : s[i] \in Star}
           m == Min(stars)
<1>1. Len(s) \in Nat /\ DOMAIN s = 1..Len(s)
  BY LenProperties
<1>2. parts = IF stars = {} THEN s ELSE SubSeq(s, 1, m)
  BY DEF ParsePattern
<1>3. CASE stars = {}
  <2>1. \A i \in 1..Len(s) : s[i] \notin Star
    BY <1>1, <1>3
  <2>2. ParsePattern(s) = s
    BY <1>2, <1>3
  <2> HIDE DEF parts, stars, m
  <2>3. Len(s) <= Len(s)
    BY <1>1
  <2> QED BY <1>1, <2>1, <2>2, <2>3
<1>4. CASE stars # {}
  <2>1. stars \in SUBSET Nat
    BY <1>1
  <2> HIDE DEF stars
  <2>2. \E k \in stars : \A j \in stars : k <= j
    BY <1>4, <2>1, Least
  <2>3. m \in stars /\ \A j \in stars : m <= j
    BY <2>2 DEF Min
  <2> HIDE DEF m
  <2>4. m \in 1..Len(s) /\ s[m] \in Star /\ \A i \in 1..Len(s) : s[i] \in Star => m <= i
    BY <1>1, <2>3 DEF stars
  <2>5. parts = SubSeq(s, 1, m)
    BY <1>2, <1>4
  <2>6. /\ SubSeq(s, 1, m) \in Seq(Part) /\ Len(SubSeq(s, 1, m)) = m
        /\ \A i \in 1..m : SubSeq(s, 1, m)[i] = s[i]
    <3>1. 1 \in Int /\ m \in Int /\ 1 <= m
      BY <1>1, <2>4
    <3>2. \A i \in 1..m : s[i] \in Part
      <4>1. \A i \in 1..m : i \in 1..Len(s)
        BY <1>1, <2>4
      <4> QED BY <4>1, ElementOfSeq
    <3>3. /\ SubSeq(s, 1, m) \in Seq(Part) /\ Len(SubSeq(s, 1, m)) = IF 1 <= m THEN m - 1 + 1 ELSE 0
          /\ \A i \in 1..m - 1 + 1 : SubSeq(s, 1, m)[i] = s[1 + i - 1]
      BY <3>1, <3>2, SubSeqProperties
    <3> QED BY <3>1, <3>3
  <2>7. \A i \in 1..m : s[i] \in Star => i = m
    BY <1>1, <2>4
  <2> HIDE DEF parts
  <2>8. /\ parts \in Seq(Part) /\ Len(parts) = m /\ \A i \in 1..m : parts[i] = s[i]
    BY <2>5, <2>6
  <2>9. m \in Nat /\ m # 0 /\ m <= Len(s) /\ m \in 1..m
    BY <1>1, <2>4
  <2>10. parts[m] \in Star
    BY <2>4, <2>8, <2>9
  <2> QED BY <1>1, <2>7, <2>8, <2>9, <2>10 DEF parts
<1> QED BY <1>3, <1>4

\* f is the recursive function of Insert, for the first n of the parts.
Inserts(f, parts, n) ==
    f = [height \in 0..n |->
            IF height = 0 THEN [at |-> << >>, children |-> children, pattern |-> pattern]
            ELSE IF day = 3 THEN Descend3(f[height - 1], parts[height])
                            ELSE Descend(f[height - 1], parts[height])]

\* The recursive function of insert exists,
LEMMA InsertExists ==
    ASSUME NEW parts, NEW n \in Nat
    PROVE  \E f : Inserts(f, parts, n)
<1> DEFINE start == [at |-> << >>, children |-> children, pattern |-> pattern]
           down(t, k) == IF day = 3 THEN Descend3(t, parts[k]) ELSE Descend(t, parts[k])
           T == {k \in Nat : \E f : Inserts(f, parts, k)}
<1>0. \A f, k : Inserts(f, parts, k) <=> f = [h \in 0..k |-> IF h = 0 THEN start ELSE down(f[h - 1], h)]
  BY DEF Inserts
<1> HIDE DEF start, down
<1>1. 0 \in T
  <2> DEFINE f == [h \in 0..0 |-> start]
  <2>1. f = [h \in 0..0 |-> IF h = 0 THEN start ELSE down(f[h - 1], h)]
    OBVIOUS
  <2>2. Inserts(f, parts, 0)
    <3> HIDE DEF f
    <3> QED BY <1>0, <2>1
  <2> QED BY <2>2
<1>2. ASSUME NEW k \in T PROVE k + 1 \in T
  <2>0. k \in Nat /\ k + 1 \in Nat
    OBVIOUS
  <2>1. PICK f : Inserts(f, parts, k)
    OBVIOUS
  <2> DEFINE g == [h \in 0..k + 1 |-> IF h = 0 THEN start ELSE down(f[h - 1], h)]
  <2>2. ASSUME NEW h \in 0..k PROVE g[h] = f[h]
    <3>1. f = [i \in 0..k |-> IF i = 0 THEN start ELSE down(f[i - 1], i)]
      BY <1>0, <2>1
    <3>2. f[h] = IF h = 0 THEN start ELSE down(f[h - 1], h)
      BY <3>1
    <3>3. g[h] = IF h = 0 THEN start ELSE down(f[h - 1], h)
      BY <2>0
    <3> QED BY <3>2, <3>3
  <2>3. g = [h \in 0..k + 1 |-> IF h = 0 THEN start ELSE down(g[h - 1], h)]
    <3>1. ASSUME NEW h \in 0..k + 1, h # 0 PROVE g[h - 1] = f[h - 1]
      <4> HIDE DEF g
      <4>1. h - 1 \in 0..k
        BY <2>0, <3>1
      <4> QED BY <2>2, <4>1
    <3> QED BY <3>1
  <2> HIDE DEF g
  <2>4. Inserts(g, parts, k + 1)
    BY <1>0, <2>3
  <2> QED BY <2>0, <2>4
<1>3. T \in SUBSET Nat
  OBVIOUS
<1> HIDE DEF T
<1>4. T = Nat
  BY <1>1, <1>2, <1>3, Induct
<1> QED BY <1>4 DEF T

\* and insert goes down by it, from the root.
LEMMA InsertIs ==
    ASSUME NEW p \in Seq(Part)
    PROVE  LET parts == ParsePattern(p)
           IN \E f : /\ Insert(p) = f[Len(parts)]
                     /\ f[0] = [at |-> << >>, children |-> children, pattern |-> pattern]
                     /\ \A h \in 1..Len(parts) : f[h] = IF day = 3 THEN Descend3(f[h - 1], parts[h])
                                                       ELSE Descend(f[h - 1], parts[h])
<1> DEFINE parts == ParsePattern(p)
           n == Len(parts)
           f == CHOOSE f : Inserts(f, parts, n)
<1>1. Insert(p) = f[n]
  BY DEF Insert, Inserts
<1>2. n \in Nat
  BY ParsedIs
<1>3. Inserts(f, parts, n)
  <2>1. \E g : Inserts(g, parts, n)
    <3> HIDE DEF n, parts
    <3> QED BY <1>2, InsertExists
  <2> QED BY <2>1
<1> HIDE DEF f, n
<1>4. 0 \in 0..n /\ \A h \in 1..n : h \in 0..n /\ h # 0
  BY <1>2
<1>5. /\ f[0] = [at |-> << >>, children |-> children, pattern |-> pattern]
      /\ \A h \in 1..n : f[h] = IF day = 3 THEN Descend3(f[h - 1], parts[h])
                                ELSE Descend(f[h - 1], parts[h])
  <2> HIDE DEF parts
  <2> QED BY <1>3, <1>4 DEF Inserts
<1> QED BY <1>1, <1>5 DEF n

\* The trie of the router.
Sound == Shape(children, pattern)

\* insert makes a trie with all that was there.
LEMMA InsertKeeps ==
    ASSUME Sound, NEW p \in Seq(Part)
    PROVE  Trie(Insert(p)) /\ Extends(Insert(p), children, pattern)
<1> DEFINE parts == ParsePattern(p)
           n == Len(parts)
<1>1. PICK f : /\ Insert(p) = f[n]
               /\ f[0] = [at |-> << >>, children |-> children, pattern |-> pattern]
               /\ \A h \in 1..n : f[h] = IF day = 3 THEN Descend3(f[h - 1], parts[h])
                                         ELSE Descend(f[h - 1], parts[h])
  BY InsertIs
<1>2. n \in Nat /\ parts \in Seq(Part)
  BY ParsedIs
<1> DEFINE Good(t) == Trie(t) /\ Extends(t, children, pattern)
           T == {k \in Nat : k <= n => Good(f[k])}
<1> HIDE DEF n, parts
<1>3. 0 \in T
  <2>1. /\ f[0].at = << >> /\ f[0].children = children /\ f[0].pattern = pattern
        /\ f[0] = [at |-> f[0].at, children |-> f[0].children, pattern |-> f[0].pattern]
    BY <1>1
  <2>2. Trie(f[0])
    BY <2>1 DEF Trie, Sound, Shape
  <2>3. Extends(f[0], children, pattern)
    <3>1. ASSUME NEW m \in DOMAIN children PROVE Len(children[m]) <= Len(children[m])
      <4>1. Len(children[m]) \in Nat
        BY LenProperties DEF Sound, Shape
      <4> QED BY <4>1
    <3> QED BY <2>1, <3>1 DEF Extends
  <2> HIDE DEF Good
  <2> QED BY <2>2, <2>3 DEF Good
<1>4. ASSUME NEW k \in T PROVE k + 1 \in T
  <2>0. k \in Nat /\ (k <= n => Good(f[k]))
    <3> HIDE DEF Good
    <3> QED OBVIOUS
  <2>1. SUFFICES ASSUME k + 1 <= n PROVE Good(f[k + 1])
    <3> HIDE DEF Good
    <3> QED BY <2>0
  <2>2. Trie(f[k]) /\ Extends(f[k], children, pattern)
    <3>1. k <= n
      BY <1>2, <2>0, <2>1
    <3> QED BY <2>0, <3>1
  <2>3. /\ parts[k + 1] \in Part
        /\ f[k + 1] = IF day = 3 THEN Descend3(f[k], parts[k + 1]) ELSE Descend(f[k], parts[k + 1])
    <3>1. k + 1 \in 1..n /\ (k + 1) - 1 = k
      BY <1>2, <2>0, <2>1
    <3>2. parts[k + 1] \in Part
      BY <1>2, <3>1, ElementOfSeq DEF n
    <3>3. f[k + 1] = IF day = 3 THEN Descend3(f[(k + 1) - 1], parts[k + 1])
                     ELSE Descend(f[(k + 1) - 1], parts[k + 1])
      BY <1>1, <3>1
    <3> QED BY <3>1, <3>2, <3>3
  <2>4. Trie(f[k + 1]) /\ Extends(f[k + 1], f[k].children, f[k].pattern)
    BY <2>2, <2>3, DescendKeeps, Descend3Keeps
  <2>5. Extends(f[k + 1], children, pattern)
    BY <2>2, <2>4, ExtendsTransitive DEF Sound
  <2> QED BY <2>4, <2>5
<1>5. T \in SUBSET Nat
  OBVIOUS
<1> HIDE DEF T, Good
<1>6. T = Nat
  BY <1>3, <1>4, <1>5, Induct
<1>7. Good(f[n])
  BY <1>2, <1>6 DEF T
<1> QED BY <1>1, <1>7 DEF Good, n

-----------------------------------------------------------------------------
(* search *)

\* search goes no further down than n.
Ends(n, parts) == Len(n) = Len(parts) \/ (n # << >> /\ PartOf(n) \in Star)

\* The children of n that search finds a route at, by f.
Hits(f, n, parts) ==
    {i \in MatchChildren(children[n], parts[Len(n) + 1]) : f[Append(n, i)] # NoRoute}

\* f says what search finds at each node.
Finds(f, parts) ==
    \A n \in Upto(Len(parts)) :
        /\ Ends(n, parts) => f[n] = pattern[n]
        /\ ~Ends(n, parts) /\ Hits(f, n, parts) = {} => f[n] = NoRoute
        /\ ~Ends(n, parts) /\ Hits(f, n, parts) # {} =>
              \E i \in Hits(f, n, parts) : f[n] = f[Append(n, i)] /\ \A k \in Hits(f, n, parts) : i <= k

\* f is the recursive function of Search, for the nodes in S.
Searches(f, S, parts) ==
    f = [n \in S |->
            IF Len(n) = Len(parts) \/ (n # << >> /\ PartOf(n) \in Star) THEN pattern[n]
            ELSE LET hits == {i \in MatchChildren(children[n], parts[Len(n) + 1]) :
                                 f[Append(n, i)] # NoRoute}
                 IN IF hits = {} THEN NoRoute ELSE f[Append(n, Min(hits))]]

\* The children of a node that has any are nodes one part further down.
LEMMA MatchingChild ==
    ASSUME Sound, NEW n \in DOMAIN children, NEW part, NEW i \in MatchChildren(children[n], part)
    PROVE  /\ i \in 1..Len(children[n]) /\ i \in Nat /\ Matches(children[n][i], part)
           /\ Append(n, i) \in DOMAIN children /\ Len(Append(n, i)) = Len(n) + 1 /\ Len(n) \in Nat
<1>1. /\ n \in Seq(Index) /\ Len(n) \in Nat /\ Len(children[n]) \in Nat
      /\ DOMAIN children[n] = 1..Len(children[n])
  BY LenProperties DEF Sound, Shape
<1>2. i \in 1..Len(children[n]) /\ Matches(children[n][i], part)
  BY <1>1 DEF MatchChildren
<1>3. i \in Index /\ i \in Nat
  BY <1>1, <1>2 DEF Index
<1> QED BY <1>1, <1>2, <1>3, ChildIs DEF Sound, Shape

\* The recursive function of search exists, for the nodes at most k parts from the end;
LEMMA SearchExists ==
    ASSUME Sound, NEW parts \in Seq(Part), NEW k \in Nat
    PROVE  \E f : Searches(f, {n \in Upto(Len(parts)) : Len(n) + k >= Len(parts)}, parts)
<1> DEFINE L == Len(parts)
           From(j) == {n \in Upto(L) : Len(n) + j >= L}
           T == {j \in Nat : \E f : Searches(f, From(j), parts)}
           next(f, n) == LET hits == {i \in MatchChildren(children[n], parts[Len(n) + 1]) :
                                         f[Append(n, i)] # NoRoute}
                         IN IF hits = {} THEN NoRoute ELSE f[Append(n, Min(hits))]
           body(f, n) == IF Ends(n, parts) THEN pattern[n] ELSE next(f, n)
<1>0. \A f, S : Searches(f, S, parts) <=> f = [n \in S |-> body(f, n)]
  BY DEF Searches, Ends
<1>1. L \in Nat /\ \A n \in Upto(L) : n \in DOMAIN children /\ Len(n) \in Nat /\ Len(n) <= L
  BY LenProperties DEF Upto, Sound, Shape
<1>2. \A n \in Upto(L) : \A f, g :
          (\A i \in MatchChildren(children[n], parts[Len(n) + 1]) : f[Append(n, i)] = g[Append(n, i)])
             => next(f, n) = next(g, n)
  <2> TAKE n \in Upto(L)
  <2> TAKE f, g
  <2> HAVE \A i \in MatchChildren(children[n], parts[Len(n) + 1]) : f[Append(n, i)] = g[Append(n, i)]
  <2> DEFINE F == {i \in MatchChildren(children[n], parts[Len(n) + 1]) : f[Append(n, i)] # NoRoute}
             G == {i \in MatchChildren(children[n], parts[Len(n) + 1]) : g[Append(n, i)] # NoRoute}
  <2>1. F = G
    OBVIOUS
  <2>2. F # {} => Min(F) \in MatchChildren(children[n], parts[Len(n) + 1])
    <3>1. F \in SUBSET Nat
      BY <1>1, MatchingChild
    <3>2. ASSUME F # {} PROVE Min(F) \in F
      <4> HIDE DEF F
      <4>1. \E x \in F : \A y \in F : x <= y
        BY <3>1, <3>2, Least
      <4> QED BY <4>1 DEF Min
    <3> QED BY <3>2
  <2>3. next(f, n) = IF F = {} THEN NoRoute ELSE f[Append(n, Min(F))]
    OBVIOUS
  <2>4. next(g, n) = IF G = {} THEN NoRoute ELSE g[Append(n, Min(G))]
    OBVIOUS
  <2> HIDE DEF F, G, next
  <2> QED BY <2>1, <2>2, <2>3, <2>4
<1> HIDE DEF next
<1>3. 0 \in T
  <2> DEFINE f == [n \in From(0) |-> pattern[n]]
  <2>1. ASSUME NEW n \in From(0) PROVE body(f, n) = pattern[n]
    <3>1. Len(n) = L
      BY <1>1
    <3> QED BY <3>1 DEF Ends
  <2>2. f = [n \in From(0) |-> body(f, n)]
    <3> HIDE DEF body
    <3> QED BY <2>1
  <2>3. Searches(f, From(0), parts)
    <3> HIDE DEF f, body, From
    <3> QED BY <1>0, <2>2
  <2> HIDE DEF f, From, body
  <2> QED BY <2>3
<1>4. ASSUME NEW j \in T PROVE j + 1 \in T
  <2>0. j \in Nat /\ j + 1 \in Nat
    OBVIOUS
  <2>1. PICK f : Searches(f, From(j), parts)
    OBVIOUS
  <2> DEFINE g == [n \in From(j + 1) |-> body(f, n)]
  <2>2. From(j) \subseteq From(j + 1)
    BY <1>1, <2>0
  <2>3. ASSUME NEW n \in From(j) PROVE g[n] = f[n]
    <3>1. f = [m \in From(j) |-> body(f, m)]
      <4> HIDE DEF body, From
      <4> QED BY <1>0, <2>1
    <3> HIDE DEF body, From
    <3>2. f[n] = body(f, n)
      BY <3>1
    <3> QED BY <2>2, <3>2
  <2>4. ASSUME NEW n \in From(j + 1) PROVE body(f, n) = body(g, n)
    <3>1. CASE Ends(n, parts)
      BY <3>1
    <3>2. CASE ~Ends(n, parts)
      <4>1. n \in Upto(L) /\ n \in DOMAIN children /\ Len(n) \in Nat /\ Len(n) < L
        <5>1. Len(n) # L
          BY <3>2 DEF Ends
        <5> QED BY <1>1, <5>1
      <4>2. ASSUME NEW i \in MatchChildren(children[n], parts[Len(n) + 1])
            PROVE  f[Append(n, i)] = g[Append(n, i)]
        <5>1. Append(n, i) \in DOMAIN children /\ Len(Append(n, i)) = Len(n) + 1
          BY <4>1, MatchingChild
        <5>2. Append(n, i) \in From(j)
          <6>1. Len(n) + (j + 1) >= L
            OBVIOUS
          <6> QED BY <1>1, <2>0, <4>1, <5>1, <6>1 DEF Upto
        <5> HIDE DEF g, From
        <5> QED BY <2>3, <5>2
      <4>3. next(f, n) = next(g, n)
        <5> HIDE DEF g, From
        <5> QED BY <1>2, <4>1, <4>2
      <4> HIDE DEF g
      <4> QED BY <4>3
    <3> QED BY <3>1, <3>2
  <2>5. Searches(g, From(j + 1), parts)
    <3>1. g = [n \in From(j + 1) |-> body(g, n)]
      <4>1. g = [n \in From(j + 1) |-> body(f, n)]
        OBVIOUS
      <4> HIDE DEF g, body, From
      <4> QED BY <2>4, <4>1
    <3> HIDE DEF g, body, From
    <3> QED BY <1>0, <3>1
  <2> HIDE DEF g, From, body
  <2> QED BY <2>0, <2>5
<1>5. T \in SUBSET Nat
  OBVIOUS
<1> HIDE DEF T, From
<1>6. T = Nat
  BY <1>3, <1>4, <1>5, Induct
<1> QED BY <1>6 DEF T, From

\* search is what it says of the root.
LEMMA SearchFinds ==
    ASSUME Sound, NEW parts \in Seq(Part)
    PROVE  \E f : Search(parts) = f[<< >>] /\ Finds(f, parts)
<1> DEFINE L == Len(parts)
           f == CHOOSE f : Searches(f, Upto(L), parts)
<1>0. L \in Nat /\ \A n \in Upto(L) : n \in DOMAIN children /\ Len(n) \in Nat /\ Len(n) <= L
  BY LenProperties DEF Upto, Sound, Shape
<1>1. Search(parts) = f[<< >>]
  BY DEF Search, Searches
<1>2. \E g : Searches(g, Upto(L), parts)
  <2>1. Upto(L) = {n \in Upto(L) : Len(n) + L >= L}
    BY <1>0
  <2>2. \E g : Searches(g, {n \in Upto(L) : Len(n) + L >= L}, parts)
    BY <1>0, SearchExists
  <2> HIDE DEF L
  <2> QED BY <2>1, <2>2
<1>3. Searches(f, Upto(L), parts)
  BY <1>2
<1> HIDE DEF f
<1>4. Finds(f, parts)
  <2>1. SUFFICES ASSUME NEW n \in Upto(L)
                 PROVE  /\ Ends(n, parts) => f[n] = pattern[n]
                        /\ ~Ends(n, parts) /\ Hits(f, n, parts) = {} => f[n] = NoRoute
                        /\ ~Ends(n, parts) /\ Hits(f, n, parts) # {} =>
                              \E i \in Hits(f, n, parts) :
                                  f[n] = f[Append(n, i)] /\ \A k \in Hits(f, n, parts) : i <= k
    BY DEF Finds
  <2>2. f[n] = IF Ends(n, parts) THEN pattern[n]
               ELSE IF Hits(f, n, parts) = {} THEN NoRoute
               ELSE f[Append(n, Min(Hits(f, n, parts)))]
    BY <1>3 DEF Searches, Hits, Ends
  <2>3. Hits(f, n, parts) \in SUBSET Nat
    BY <1>0, MatchingChild DEF Hits
  <2>4. ASSUME Hits(f, n, parts) # {}
        PROVE  /\ Min(Hits(f, n, parts)) \in Hits(f, n, parts)
               /\ \A k \in Hits(f, n, parts) : Min(Hits(f, n, parts)) <= k
    <3>1. \E x \in Hits(f, n, parts) : \A y \in Hits(f, n, parts) : x <= y
      BY <2>3, <2>4, Least
    <3> QED BY <3>1 DEF Min
  <2> QED BY <2>2, <2>4
<1> QED BY <1>1, <1>4

-----------------------------------------------------------------------------
(* No path loses its route *)

\* The trie has grown, or has p at a node where it had another pattern.
Kept(p) ==
    /\ DOMAIN children \subseteq DOMAIN children'
    /\ \A n \in DOMAIN children :
          /\ Len(children[n]) <= Len(children'[n])
          /\ \A i \in 1..Len(children[n]) : children'[n][i] = children[n][i]
          /\ pattern'[n] \in {pattern[n], p}

\* A route that is added leaves a trie with all that was there.
LEMMA AddKeeps ==
    ASSUME Sound, NEW p \in Pattern, AddRoute(p)
    PROVE  Sound' /\ Kept(p)
<1>1. CASE day < 3
  <2>1. UNCHANGED <<children, pattern>>
    BY <1>1 DEF AddRoute
  <2>2. \A n \in DOMAIN children : Len(children[n]) <= Len(children[n])
    <3>1. ASSUME NEW n \in DOMAIN children PROVE Len(children[n]) <= Len(children[n])
      <4>1. Len(children[n]) \in Nat
        BY LenProperties DEF Sound, Shape
      <4> QED BY <4>1
    <3> QED BY <3>1
  <2> QED BY <2>1, <2>2 DEF Sound, Kept
<1>2. CASE ~(day < 3)
  <2> DEFINE trie == Insert(p)
  <2>1. children' = trie.children /\ pattern' = [trie.pattern EXCEPT ![trie.at] = p]
    BY <1>2 DEF AddRoute
  <2>2. Trie(trie) /\ Extends(trie, children, pattern)
    BY PatternAssumption, InsertKeeps
  <2> HIDE DEF trie
  <2>3. /\ DOMAIN pattern' = DOMAIN trie.pattern
        /\ \A n \in DOMAIN trie.pattern : pattern'[n] \in {trie.pattern[n], p}
    BY <2>1
  <2>4. Shape(children', pattern')
    BY SMTT(20), <2>1, <2>2, <2>3 DEF Trie, Shape
  <2>5. Kept(p)
    BY <2>1, <2>2, <2>3 DEF Trie, Extends, Shape, Kept
  <2> QED BY <2>4, <2>5 DEF Sound
<1> QED BY <1>1, <1>2

\* The parts of the nodes that were there stay.
LEMMA PartStays ==
    ASSUME Sound, NEW p, Kept(p), NEW n \in DOMAIN children, n # << >>
    PROVE  PartOf(n)' = PartOf(n)
<1>1. PICK m \in DOMAIN children : \E i \in 1..Len(children[m]) : n = Append(m, i)
  BY DEF Sound, Shape
<1>2. PICK i \in 1..Len(children[m]) : n = Append(m, i)
  BY <1>1
<1>3. m \in Seq(Index) /\ i \in Index
  <2>1. Len(children[m]) \in Nat
    BY LenProperties DEF Sound, Shape
  <2> QED BY <2>1 DEF Sound, Shape, Index
<1>4. Front(n) = m /\ Last(n) = i
  BY <1>2, <1>3, ChildIs
<1>5. children'[m][i] = children[m][i]
  BY <1>2 DEF Kept
<1> QED BY <1>4, <1>5 DEF PartOf

\* A search that found a route still finds one.
LEMMA FoundStays ==
    ASSUME Sound, Sound', NEW p \in Pattern, Kept(p),
           NEW parts \in Seq(Part), NEW f, Finds(f, parts), NEW g, Finds(g, parts)'
    PROVE  f[<< >>] # NoRoute => g[<< >>] # NoRoute
<1> DEFINE L == Len(parts)
           T == {k \in Nat : \A n \in Upto(L) : Len(n) + k >= L /\ f[n] # NoRoute => g[n] # NoRoute}
<1>0. L \in Nat /\ \A n \in Upto(L) : n \in DOMAIN children /\ Len(n) \in Nat /\ Len(n) <= L
  BY LenProperties DEF Upto, Sound, Shape
<1>1. ASSUME NEW n \in Upto(L) PROVE n \in Upto(L)' /\ (Ends(n, parts)' <=> Ends(n, parts))
  <2>1. n \in DOMAIN children'
    BY <1>0 DEF Kept
  <2>2. n # << >> => PartOf(n)' = PartOf(n)
    BY <1>0, PartStays
  <2> QED BY <1>0, <2>1, <2>2 DEF Upto, Ends
<1>2. ASSUME NEW n \in Upto(L), Ends(n, parts), f[n] # NoRoute PROVE g[n] # NoRoute
  <2>1. f[n] = pattern[n] /\ g[n] = pattern'[n]
    BY <1>1, <1>2 DEF Finds
  <2>2. pattern'[n] \in {pattern[n], p}
    BY <1>0 DEF Kept
  <2> QED BY <1>2, <2>1, <2>2, PatternAssumption
<1>3. 0 \in T
  <2>1. ASSUME NEW n \in Upto(L), Len(n) + 0 >= L PROVE Ends(n, parts)
    BY <1>0, <2>1 DEF Ends
  <2> QED BY <1>2, <2>1
<1>4. ASSUME NEW k \in T PROVE k + 1 \in T
  <2>1. SUFFICES ASSUME NEW n \in Upto(L), Len(n) + (k + 1) >= L, f[n] # NoRoute, ~Ends(n, parts)
                 PROVE  g[n] # NoRoute
    BY <1>2
  <2>2. n \in DOMAIN children /\ Len(n) \in Nat /\ Len(n) < L
    <3>1. Len(n) # L
      BY <2>1 DEF Ends
    <3> QED BY <1>0, <3>1
  <2>3. PICK i \in Hits(f, n, parts) : TRUE
    BY <2>1 DEF Finds
  <2>4. i \in MatchChildren(children[n], parts[Len(n) + 1]) /\ f[Append(n, i)] # NoRoute
    BY DEF Hits
  <2>5. /\ i \in 1..Len(children[n]) /\ Matches(children[n][i], parts[Len(n) + 1])
        /\ Append(n, i) \in DOMAIN children /\ Len(Append(n, i)) = Len(n) + 1
    BY <2>2, <2>4, MatchingChild
  <2>6. g[Append(n, i)] # NoRoute
    <3>1. Append(n, i) \in Upto(L) /\ Len(Append(n, i)) + k >= L
      BY <1>0, <2>1, <2>2, <2>5 DEF Upto
    <3> QED BY <2>4, <3>1
  <2>7. i \in Hits(g, n, parts)'
    <3>1. n \in DOMAIN children' /\ i \in 1..Len(children'[n]) /\ children'[n][i] = children[n][i]
      <4>1. Len(children[n]) \in Nat /\ Len(children'[n]) \in Nat
        BY <2>2, LenProperties DEF Sound, Shape, Kept
      <4> QED BY <2>2, <2>5, <4>1 DEF Kept
    <3>2. i \in DOMAIN children'[n]
      BY <3>1, LenProperties DEF Sound, Shape
    <3> QED BY <2>5, <2>6, <3>1, <3>2 DEF Hits, MatchChildren, Matches
  <2>8. PICK j \in Hits(g, n, parts)' : g[n] = g[Append(n, j)]
    BY <1>1, <2>1, <2>7 DEF Finds
  <2> QED BY <2>8 DEF Hits
<1>5. T \in SUBSET Nat
  OBVIOUS
<1>6. << >> \in Upto(L)
  BY <1>0, EmptySeq DEF Upto, Sound, Shape
<1>7. T = Nat
  <2> HIDE DEF T
  <2> QED BY <1>3, <1>4, <1>5, Induct
<1>8. Len(<< >>) + L >= L
  BY <1>0
<1> QED BY <1>0, <1>6, <1>7, <1>8

\* What search finds, as of any state.
Found == \A parts \in Seq(Part) : \E f : Search(parts) = f[<< >>] /\ Finds(f, parts)

\* Search finds what it says.
LEMMA AlwaysFound == Sound => Found
BY SearchFinds DEF Found

\* A path that had a route still has one.
LEMMA NoneIsLost ==
    ASSUME Sound, NEW p \in Pattern, AddRoute(p), NEW asked \in Path,
           routes \in Seq(Pattern), day \in Nat,
           GetRoute(asked) # NoRoute
    PROVE  GetRoute(asked)' # NoRoute
<1>1. day' = day /\ routes' = Append(routes, p) /\ Sound' /\ Kept(p)
  BY AddKeeps DEF AddRoute
<1>2. CASE day < 3
  <2>1. GetRoute(asked) = IF asked \in Range(routes) THEN asked ELSE NoRoute
    BY <1>2 DEF GetRoute
  <2>2. GetRoute(asked)' = IF asked \in Range(routes') THEN asked ELSE NoRoute
    BY <1>1, <1>2 DEF GetRoute
  <2>3. Range(routes) \subseteq Range(routes')
    <3>1. /\ DOMAIN routes = 1..Len(routes) /\ DOMAIN routes' = 1..Len(routes') /\ Len(routes) \in Nat
          /\ Len(routes') = Len(routes) + 1 /\ \A i \in 1..Len(routes) : routes'[i] = routes[i]
      BY <1>1, AppendProperties, LenProperties
    <3> QED BY <3>1 DEF Range
  <2> QED BY <2>1, <2>2, <2>3
<1>3. CASE ~(day < 3)
  <2> DEFINE parts == ParsePattern(asked)
  <2>1. parts \in Seq(Part)
    BY PatternAssumption, ParsedIs
  <2>2. GetRoute(asked) = Search(parts) /\ GetRoute(asked)' = Search(parts)'
    BY <1>1, <1>3 DEF GetRoute
  <2> HIDE DEF parts
  <2>3. PICK f : Search(parts) = f[<< >>] /\ Finds(f, parts)
    BY <2>1, SearchFinds
  <2>4. Sound' => Found'
    BY AlwaysFound, PTL
  <2>5. PICK g : Search(parts)' = g[<< >>] /\ Finds(g, parts)'
    BY <1>1, <2>1, <2>4 DEF Found
  <2> QED BY <1>1, <2>1, <2>2, <2>3, <2>5, FoundStays
<1> QED BY <1>2, <1>3

-----------------------------------------------------------------------------
(* The parts on the way to a node *)

\* The parts p begin with those of w.
Begins(p, w) == Len(w) <= Len(p) /\ \A i \in 1..Len(w) : w[i] = p[i]

\* word has the parts on the way to each node, which is the only one they lead to; only
\* the last child of a node may be a wildcard.
Words(c, word) ==
    /\ word \in [DOMAIN c -> Seq(Part)] /\ word[<< >>] = << >>
    /\ \A n \in DOMAIN c :
          /\ Len(word[n]) = Len(n)
          /\ \A i \in 1..Len(c[n]) : word[Append(n, i)] = Append(word[n], c[n][i])
          /\ \A k \in 1..Len(c[n]) : \A i \in 1..k - 1 : c[n][i] \notin Wild
    /\ \A m, n \in DOMAIN c : word[m] = word[n] => m = n

\* m is child i of n.
Born(c, word, m, n, i) ==
    /\ m = Append(n, i) /\ Len(m) = Len(n) + 1 /\ Len(n) \in Nat
    /\ Front(m) = n /\ Last(m) = i
    /\ word[m] = Append(word[n], c[n][i]) /\ word[m][Len(m)] = c[n][i]
    /\ \A h \in 1..Len(n) : word[m][h] = word[n][h]

\* Every node other than the root is the child of one.
LEMMA ParentIs ==
    ASSUME NEW c, NEW pt, Shape(c, pt), NEW word, Words(c, word), NEW m \in DOMAIN c, m # << >>
    PROVE  \E n \in DOMAIN c : \E i \in 1..Len(c[n]) : Born(c, word, m, n, i)
<1>1. PICK n \in DOMAIN c : \E i \in 1..Len(c[n]) : m = Append(n, i)
  BY DEF Shape
<1>2. PICK i \in 1..Len(c[n]) : m = Append(n, i)
  BY <1>1
<1>3. n \in Seq(Index) /\ i \in Index /\ c[n][i] \in Part /\ word[n] \in Seq(Part)
  <2>1. Len(c[n]) \in Nat /\ c[n] \in Seq(Part)
    BY LenProperties DEF Shape
  <2>2. c[n][i] \in Part
    BY <2>1, ElementOfSeq
  <2>3. n \in Seq(Index)
    BY DEF Shape
  <2>4. word[n] \in Seq(Part)
    BY DEF Words
  <2>5. i \in Index
    BY <2>1 DEF Index
  <2> QED BY <2>2, <2>3, <2>4, <2>5
<1>4. Len(m) = Len(n) + 1 /\ Len(n) \in Nat /\ Front(m) = n /\ Last(m) = i
  BY <1>2, <1>3, ChildIs
<1>5. word[m] = Append(word[n], c[n][i]) /\ Len(word[n]) = Len(n)
  BY <1>2 DEF Words
<1>6. word[m][Len(n) + 1] = c[n][i] /\ \A h \in 1..Len(n) : word[m][h] = word[n][h]
  BY <1>3, <1>5, AppendProperties
<1>7. Born(c, word, m, n, i)
  BY <1>2, <1>4, <1>5, <1>6 DEF Born
<1> QED BY <1>7

\* Nodes of one depth on the way of the same parts are one.
LEMMA SameBeginning ==
    ASSUME NEW c, NEW pt, Shape(c, pt), NEW word, Words(c, word), NEW p,
           NEW m \in DOMAIN c, NEW n \in DOMAIN c,
           Len(m) = Len(n), Begins(p, word[m]), Begins(p, word[n])
    PROVE  m = n
<1>1. word[m] \in Seq(Part) /\ word[n] \in Seq(Part) /\ Len(word[m]) = Len(m) /\ Len(word[n]) = Len(n)
  BY DEF Words
<1>2. \A i \in 1..Len(word[m]) : word[m][i] = word[n][i]
  BY <1>1 DEF Begins
<1>3. word[m] = word[n]
  BY <1>1, <1>2, SeqEqual
<1> QED BY <1>3 DEF Words

\* Beginnings as long as the whole are the whole.
LEMMA WholeBeginning ==
    ASSUME NEW p \in Seq(Part), NEW w \in Seq(Part), Begins(p, w), Len(w) = Len(p)
    PROVE  p = w
BY SeqEqual DEF Begins

\* Where two patterns part.
LEMMA ForkIs ==
    ASSUME NEW p \in Seq(Part), NEW q \in Seq(Part), NEW d \in 1..Len(p), d \in 1..Len(q),
           p[d] # q[d],
           \A i \in 1..d - 1 : p[i] = q[i]
    PROVE  Fork(p, q) = d
<1> DEFINE I == {i \in DOMAIN p \cap DOMAIN q : p[i] # q[i]}
<1>1. DOMAIN p = 1..Len(p) /\ DOMAIN q = 1..Len(q) /\ Len(p) \in Nat /\ Len(q) \in Nat
  BY LenProperties
<1>2. d \in I /\ I \subseteq Nat
  BY <1>1
<1>3. \A j \in I : d <= j
  <2>1. ASSUME NEW j \in I, j < d PROVE FALSE
    <3>1. j \in 1..d - 1
      BY <1>1, <2>1
    <3> QED BY <2>1, <3>1
  <2> QED BY <1>2, <2>1
<1>4. Fork(p, q) = CHOOSE i \in I : \A j \in I : i <= j
  BY <1>2 DEF Fork
<1> HIDE DEF I
<1>5. Fork(p, q) \in I /\ \A j \in I : Fork(p, q) <= j
  BY <1>2, <1>3, <1>4
<1>6. Fork(p, q) <= d /\ d <= Fork(p, q) /\ Fork(p, q) \in Nat /\ d \in Nat
  BY <1>2, <1>3, <1>5
<1> QED BY <1>6

\* As the words of new nodes: what DescendWords says.
Deeper(d, trie, word, part, new) ==
    /\ Words(d.children, new)
    /\ \A n \in DOMAIN trie.children : new[n] = word[n]
    /\ \A n \in DOMAIN d.children \ DOMAIN trie.children : n = d.at
    /\ Len(d.at) = Len(trie.at) + 1
    /\ \E i \in 1..Len(d.children[trie.at]) :
          LET x == d.children[trie.at][i]
          IN /\ d.at = Append(trie.at, i) /\ new[d.at] = Append(word[trie.at], x)
             /\ x = part \/ (x \in Wild /\ d.at \in DOMAIN trie.children)

\* One part of insert gives a new node its word.
LEMMA DescendWords ==
    ASSUME NEW trie, Trie(trie), NEW word, Words(trie.children, word), NEW part \in Part
    PROVE  \E new : Deeper(Descend(trie, part), trie, word, part, new)
<1> DEFINE d == Descend(trie, part)
           at == trie.at
           c == trie.children
<1>1. /\ Trie(d) /\ Extends(d, c, trie.pattern)
      /\ \/ /\ \A i \in 1..Len(c[at]) : ~Matches(c[at][i], part)
            /\ Grows(d, trie, <<part>>)
         \/ /\ d.children = c /\ d.pattern = trie.pattern
            /\ \E i \in 1..Len(c[at]) : d.at = Append(at, i) /\ Matches(c[at][i], part)
  BY DescendKeeps
<1>2. /\ at \in DOMAIN c /\ at \in Seq(Index) /\ c[at] \in Seq(Part) /\ Len(c[at]) \in Nat
      /\ Shape(c, trie.pattern)
  BY LenProperties DEF Trie, Shape
<1> HIDE DEF d
<1>3. CASE d.children = c /\ \E i \in 1..Len(c[at]) : d.at = Append(at, i) /\ Matches(c[at][i], part)
  <2>1. PICK i \in 1..Len(c[at]) : d.at = Append(at, i) /\ Matches(c[at][i], part)
    BY <1>3
  <2>2. i \in Index
    BY <1>2 DEF Index
  <2>3. Len(d.at) = Len(at) + 1
    BY <1>2, <2>1, <2>2, ChildIs
  <2>4. d.at \in DOMAIN c
    BY <1>2, <2>1 DEF Shape
  <2>5. word[d.at] = Append(word[at], c[at][i])
    BY <1>2, <2>1 DEF Words
  <2>6. c[at][i] = part \/ (c[at][i] \in Wild /\ d.at \in DOMAIN c)
    BY <2>1, <2>4 DEF Matches
  <2>7. Deeper(d, trie, word, part, word)
    BY <1>3, <2>1, <2>3, <2>5, <2>6 DEF Deeper
  <2> QED BY <2>7 DEF d
<1>4. CASE Grows(d, trie, <<part>>) /\ \A i \in 1..Len(c[at]) : ~Matches(c[at][i], part)
  <2> DEFINE len == Len(c[at])
             fresh == {Append(at, i) : i \in len + 1..len + Len(<<part>>)}
             new == [n \in DOMAIN d.children |-> IF n \in DOMAIN c THEN word[n] ELSE Append(word[at], part)]
  <2>1. /\ d.at = Append(at, len + Len(<<part>>))
        /\ DOMAIN d.children = fresh \cup DOMAIN c
        /\ fresh \cap DOMAIN c = {}
        /\ d.children[at] = c[at] \o <<part>>
        /\ \A n \in DOMAIN c : n # at => d.children[n] = c[n]
        /\ \A n \in fresh : d.children[n] = << >>
    BY <1>4 DEF Grows
  <2>2. fresh = {d.at} /\ d.at = Append(at, len + 1) /\ len + 1 \in Index
    <3>1. Len(<<part>>) = 1 /\ len + 1..len + 1 = {len + 1}
      BY <1>2
    <3> QED BY <1>2, <2>1, <3>1 DEF Index
  <2> HIDE DEF fresh
  <2>3. /\ Len(d.at) = Len(at) + 1 /\ Len(at) \in Nat /\ d.at # << >> /\ d.at \in Seq(Index)
    BY SMTT(20), <1>2, <2>2, ChildIs
  <2>4. /\ Len(d.children[at]) = len + 1 /\ d.children[at][len + 1] = part
        /\ \A i \in 1..len : d.children[at][i] = c[at][i]
    <3>1. <<part>> \in Seq(Part) /\ Len(<<part>>) = 1 /\ <<part>>[1] = part
      OBVIOUS
    <3>2. /\ Len(c[at] \o <<part>>) = len + 1
          /\ \A i \in 1..len + 1 : (c[at] \o <<part>>)[i] = IF i <= len THEN c[at][i] ELSE <<part>>[i - len]
      BY <1>2, <3>1, ConcatProperties
    <3>3. (len + 1) - len = 1 /\ ~(len + 1 <= len) /\ len + 1 \in 1..len + 1
      BY <1>2
    <3>4. \A i \in 1..len : i \in 1..len + 1 /\ i <= len
      BY <1>2
    <3> QED BY <2>1, <3>1, <3>2, <3>3, <3>4
  <2>5. d.at \notin DOMAIN c /\ DOMAIN d.children = DOMAIN c \cup {d.at}
    BY <2>1, <2>2
  <2>6. (\A n \in DOMAIN c : new[n] = word[n]) /\ new[d.at] = Append(word[at], part)
    BY <2>5
  <2>7. word[at] \in Seq(Part) /\ Len(word[at]) = Len(at)
    BY <1>2 DEF Words
  <2>8. /\ Append(word[at], part) \in Seq(Part) /\ Len(Append(word[at], part)) = Len(at) + 1
    BY <2>7, AppendProperties
  <2>9. new \in [DOMAIN d.children -> Seq(Part)] /\ new[<< >>] = << >>
    <3>1. << >> \in DOMAIN c /\ word[<< >>] = << >>
      BY <1>2 DEF Shape, Words
    <3> QED BY <2>8, <3>1, <2>6 DEF Words
  <2> HIDE DEF new
  <2>10. ASSUME NEW n \in DOMAIN d.children
         PROVE  /\ Len(new[n]) = Len(n)
                /\ \A i \in 1..Len(d.children[n]) : new[Append(n, i)] = Append(new[n], d.children[n][i])
                /\ \A k \in 1..Len(d.children[n]) : \A i \in 1..k - 1 : d.children[n][i] \notin Wild
    <3>1. CASE n = d.at
      <4>1. 1..Len(d.children[n]) = {}
        <5>1. \A m \in fresh : d.children[m] = << >>
          BY <2>1
        <5>2. n \in fresh
          BY <2>2, <3>1
        <5>3. d.children[n] = << >>
          BY <5>1, <5>2
        <5> QED BY <5>3
      <4> QED BY <2>3, <2>6, <2>8, <3>1, <4>1
    <3>2. CASE n \in DOMAIN c /\ n # at
      <4>1. d.children[n] = c[n] /\ new[n] = word[n]
        BY <2>1, <2>6, <3>2
      <4>2. \A i \in 1..Len(c[n]) : Append(n, i) \in DOMAIN c
        BY <1>2, <3>2 DEF Shape
      <4> QED BY SMTT(20), <2>6, <3>2, <4>1, <4>2 DEF Words
    <3>3. CASE n = at
      <4>1. new[n] = word[at] /\ Len(new[n]) = Len(n)
        BY <1>2, <2>6, <2>7, <3>3
      <4>2. ASSUME NEW i \in 1..Len(d.children[n]) PROVE new[Append(n, i)] = Append(new[n], d.children[n][i])
        <5>1. CASE i = len + 1
          BY <2>2, <2>4, <2>6, <3>3, <4>1, <5>1
        <5>2. CASE i # len + 1
          <6>1. i \in 1..len
            BY <1>2, <2>4, <3>3, <5>2
          <6>2. Append(n, i) \in DOMAIN c /\ word[Append(n, i)] = Append(word[at], c[at][i])
            BY <1>2, <3>3, <6>1 DEF Shape, Words
          <6> QED BY <2>4, <2>6, <3>3, <4>1, <6>1, <6>2
        <5> QED BY <5>1, <5>2
      <4>3. ASSUME NEW k \in 1..Len(d.children[n]), NEW i \in 1..k - 1 PROVE d.children[n][i] \notin Wild
        <5>1. i \in 1..len
          BY <1>2, <2>4, <3>3
        <5> QED BY <1>4, <2>4, <3>3, <5>1 DEF Matches
      <4> QED BY <4>1, <4>2, <4>3
    <3> QED BY <2>5, <3>1, <3>2, <3>3
  <2>11. ASSUME NEW n \in DOMAIN c PROVE word[n] # Append(word[at], part)
    <3>1. SUFFICES ASSUME word[n] = Append(word[at], part) PROVE FALSE
      OBVIOUS
    <3>2. n # << >>
      <4>1. Len(n) = Len(at) + 1
        BY <2>8, <3>1 DEF Words
      <4> QED BY <2>3, <4>1
    <3>3. PICK m \in DOMAIN c : \E i \in 1..Len(c[m]) : word[n] = Append(word[m], c[m][i])
      <4>1. \E m \in DOMAIN c : \E i \in 1..Len(c[m]) : Born(c, word, n, m, i)
        <5> HIDE DEF c
        <5> QED BY <1>2, <3>2, ParentIs DEF c
      <4> QED BY <4>1 DEF Born
    <3>4. PICK i \in 1..Len(c[m]) : word[n] = Append(word[m], c[m][i])
      BY <3>3
    <3>5. word[m] \in Seq(Part) /\ c[m][i] \in Part
      <4>1. c[m] \in Seq(Part)
        BY <1>2 DEF Shape
      <4>2. c[m][i] \in Part
        BY <4>1, ElementOfSeq
      <4> QED BY <4>2 DEF Words
    <3>6. word[m] = word[at] /\ c[m][i] = part
      <4> DEFINE v == word[m]
                 w == word[at]
                 x == c[m][i]
      <4>1. Append(v, x) = Append(w, part) /\ v \in Seq(Part) /\ w \in Seq(Part) /\ x \in Part
        BY <2>7, <3>1, <3>4, <3>5
      <4> HIDE DEF v, w, x
      <4>2. v = w /\ x = part
        BY <4>1, AppendInjective
      <4> QED BY <4>2 DEF v, w, x
    <3>7. m = at
      BY <1>2, <3>6 DEF Words
    <3> QED BY <1>4, <3>6, <3>7 DEF Matches
  <2>12. ASSUME NEW m \in DOMAIN d.children, NEW n \in DOMAIN d.children, new[m] = new[n] PROVE m = n
    <3>1. CASE m \in DOMAIN c /\ n \in DOMAIN c
      BY <2>6, <2>12, <3>1 DEF Words
    <3> QED BY <2>5, <2>6, <2>11, <2>12, <3>1
  <2>13. Words(d.children, new)
    BY <2>9, <2>10, <2>12 DEF Words
  <2>14. len + 1 \in 1..Len(d.children[at])
    BY <1>2, <2>4
  <2>15. Deeper(d, trie, word, part, new)
    BY <2>2, <2>3, <2>4, <2>5, <2>6, <2>13, <2>14 DEF Deeper
  <2> QED BY <2>15 DEF d
<1> QED BY <1>1, <1>3, <1>4

\* No node that parts leaves the way to is at a wildcard.
Straight(word, parts) ==
    \A n \in DOMAIN children :
        /\ n # << >> /\ Len(n) <= Len(parts)
        /\ \A h \in 1..Len(n) - 1 : word[n][h] = parts[h]
        /\ word[n][Len(n)] # parts[Len(n)]
        => word[n][Len(n)] \notin Wild

\* t is the trie of insert after k parts, and new has its words.
Down(t, new, word, parts, k) ==
    /\ Words(t.children, new)
    /\ \A n \in DOMAIN children : new[n] = word[n]
    /\ Len(t.at) = k /\ Begins(parts, new[t.at])
    /\ \A n \in DOMAIN t.children \ DOMAIN children : Begins(parts, new[n])
    /\ \A h \in 0..k : \E n \in DOMAIN t.children : Len(n) = h /\ Begins(parts, new[n])

\* The next part of insert.
LEMMA DownStep ==
    ASSUME NEW t, Trie(t), DOMAIN children \subseteq DOMAIN t.children,
           NEW new, NEW word, NEW parts \in Seq(Part), NEW k \in Nat, k + 1 <= Len(parts),
           Down(t, new, word, parts, k), Straight(word, parts)
    PROVE  \E deeper : Down(Descend(t, parts[k + 1]), deeper, word, parts, k + 1)
<1> DEFINE part == parts[k + 1]
           d == Descend(t, part)
<1>1. Len(parts) \in Nat /\ k + 1 \in 1..Len(parts)
  BY LenProperties
<1>2. part \in Part
  BY <1>1, ElementOfSeq
<1>3. Words(t.children, new)
  BY DEF Down
<1>4. Trie(d) /\ Extends(d, t.children, t.pattern)
  <2> HIDE DEF part
  <2> QED BY <1>2, DescendKeeps
<1>5. PICK deeper : Deeper(d, t, new, part, deeper)
  <2> HIDE DEF part
  <2> QED BY <1>2, <1>3, DescendWords
<1> HIDE DEF d
<1>6. PICK x \in Part : /\ deeper[d.at] = Append(new[t.at], x)
                        /\ x = part \/ (x \in Wild /\ d.at \in DOMAIN t.children)
  <2>1. PICK i \in 1..Len(d.children[t.at]) :
           /\ deeper[d.at] = Append(new[t.at], d.children[t.at][i])
           /\ d.children[t.at][i] = part \/ (d.children[t.at][i] \in Wild /\ d.at \in DOMAIN t.children)
    BY <1>5 DEF Deeper
  <2>2. t.at \in DOMAIN d.children
    BY <1>4 DEF Trie, Extends
  <2>3. d.children[t.at] \in Seq(Part)
    BY <1>4, <2>2 DEF Trie, Shape
  <2>4. d.children[t.at][i] \in Part
    BY <2>3, ElementOfSeq
  <2> QED BY <2>1, <2>4
<1>7. /\ t.at \in DOMAIN t.children /\ new[t.at] \in Seq(Part) /\ Len(new[t.at]) = k
      /\ Len(t.at) = k
      /\ \A h \in 1..k : new[t.at][h] = parts[h]
  <2>1. t.at \in DOMAIN t.children /\ Len(t.at) = k /\ Begins(parts, new[t.at])
    BY DEF Trie, Down
  <2>2. new[t.at] \in Seq(Part) /\ Len(new[t.at]) = k
    BY <1>3, <2>1 DEF Words
  <2> QED BY <2>1, <2>2 DEF Begins
<1>8. /\ Len(deeper[d.at]) = k + 1 /\ deeper[d.at][k + 1] = x /\ Len(d.at) = k + 1
      /\ \A h \in 1..k : deeper[d.at][h] = parts[h]
  <2>1. /\ Len(Append(new[t.at], x)) = k + 1 /\ Append(new[t.at], x)[k + 1] = x
        /\ \A h \in 1..k : Append(new[t.at], x)[h] = new[t.at][h]
    BY <1>7, AppendProperties
  <2> QED BY <1>5, <1>6, <1>7, <2>1 DEF Deeper
<1>9. x = part
  <2>1. SUFFICES ASSUME x # part PROVE FALSE
    OBVIOUS
  <2>2. x \in Wild /\ d.at \in DOMAIN t.children /\ deeper[d.at] = new[d.at]
    BY <1>5, <1>6, <2>1 DEF Deeper
  <2>3. CASE d.at \in DOMAIN children
    <3>1. word[d.at] = deeper[d.at]
      BY <2>2, <2>3 DEF Down
    <3>2. d.at # << >> /\ Len(d.at) <= Len(parts) /\ Len(d.at) - 1 = k
      BY <1>1, <1>8
    <3> QED BY <1>8, <2>1, <2>2, <2>3, <3>1, <3>2 DEF Straight
  <2>4. CASE d.at \notin DOMAIN children
    <3>1. Begins(parts, deeper[d.at])
      BY <2>2, <2>4 DEF Down
    <3>2. k + 1 \in 1..k + 1
      OBVIOUS
    <3> QED BY <1>8, <2>1, <3>1, <3>2 DEF Begins
  <2> QED BY <2>3, <2>4
<1>10. Begins(parts, deeper[d.at])
  <2>1. ASSUME NEW h \in 1..k + 1 PROVE deeper[d.at][h] = parts[h]
    <3>1. h \in 1..k \/ h = k + 1
      OBVIOUS
    <3> QED BY <1>8, <1>9, <3>1
  <2> QED BY <1>8, <2>1 DEF Begins
<1>11. DOMAIN t.children \subseteq DOMAIN d.children /\ d.at \in DOMAIN d.children
  BY <1>4 DEF Trie, Extends
<1>12. \A n \in DOMAIN d.children \ DOMAIN t.children : n = d.at
  BY <1>5 DEF Deeper
<1>13. \A n \in DOMAIN t.children : deeper[n] = new[n]
  BY <1>5 DEF Deeper
<1>14. Words(d.children, deeper)
  BY <1>5 DEF Deeper
<1>15. \A n \in DOMAIN children : deeper[n] = word[n]
  BY <1>13 DEF Down
<1>16. \A n \in DOMAIN d.children \ DOMAIN children : Begins(parts, deeper[n])
  <2>1. ASSUME NEW n \in DOMAIN d.children \ DOMAIN children PROVE Begins(parts, deeper[n])
    <3>1. CASE n \in DOMAIN t.children
      BY <1>13, <3>1 DEF Down
    <3> QED BY <1>10, <1>12, <3>1
  <2> QED BY <2>1
<1>17. ASSUME NEW h \in 0..k + 1 PROVE \E n \in DOMAIN d.children : Len(n) = h /\ Begins(parts, deeper[n])
  <2>1. CASE h = k + 1
    BY <1>8, <1>10, <1>11, <2>1
  <2>2. CASE h # k + 1
    <3>1. h \in 0..k
      BY <2>2
    <3>2. PICK n \in DOMAIN t.children : Len(n) = h /\ Begins(parts, new[n])
      BY <3>1 DEF Down
    <3> QED BY <1>11, <1>13, <3>2
  <2> QED BY <2>1, <2>2
<1>18. Down(d, deeper, word, parts, k + 1)
  BY <1>8, <1>10, <1>14, <1>15, <1>16, <1>17 DEF Down
<1> QED BY <1>18 DEF d

\* insert gives the new nodes the parts on the way to them.
LEMMA InsertWords ==
    ASSUME Sound, NEW p \in Seq(Part), day # 3, NEW word, Words(children, word),
           Straight(word, ParsePattern(p))
    PROVE  \E new : Down(Insert(p), new, word, ParsePattern(p), Len(ParsePattern(p)))
<1> DEFINE parts == ParsePattern(p)
           n == Len(parts)
<1>1. PICK f : /\ Insert(p) = f[n]
               /\ f[0] = [at |-> << >>, children |-> children, pattern |-> pattern]
               /\ \A h \in 1..n : f[h] = Descend(f[h - 1], parts[h])
  BY InsertIs
<1>2. n \in Nat /\ parts \in Seq(Part)
  BY ParsedIs
<1>3. Straight(word, parts)
  OBVIOUS
<1> DEFINE Good(t, k) == /\ Trie(t) /\ Extends(t, children, pattern)
                         /\ \E new : Down(t, new, word, parts, k)
           T == {k \in Nat : k <= n => Good(f[k], k)}
<1> HIDE DEF parts
<1>4. 0 \in T
  <2>1. /\ f[0].at = << >> /\ f[0].children = children /\ f[0].pattern = pattern
        /\ f[0] = [at |-> f[0].at, children |-> f[0].children, pattern |-> f[0].pattern]
    BY <1>1
  <2>2. Trie(f[0])
    BY <2>1 DEF Trie, Sound, Shape
  <2>3. Extends(f[0], children, pattern)
    <3>1. ASSUME NEW m \in DOMAIN children PROVE Len(children[m]) <= Len(children[m])
      <4>1. Len(children[m]) \in Nat
        BY LenProperties DEF Sound, Shape
      <4> QED BY <4>1
    <3> QED BY <2>1, <3>1 DEF Extends
  <2>4. << >> \in DOMAIN children /\ word[<< >>] = << >> /\ Len(<< >>) = 0
    BY DEF Sound, Shape, Words
  <2>5. Begins(parts, << >>)
    BY <1>2 DEF Begins
  <2>6. Down(f[0], word, word, parts, 0)
    <3>1. \A h \in 0..0 : h = 0
      OBVIOUS
    <3> QED BY <2>1, <2>4, <2>5, <3>1 DEF Down
  <2>7. Good(f[0], 0)
    BY <2>2, <2>3, <2>6
  <2> HIDE DEF Good
  <2> QED BY <2>7
<1>5. ASSUME NEW k \in T PROVE k + 1 \in T
  <2>0. k \in Nat /\ (k <= n => Good(f[k], k))
    <3> HIDE DEF Good
    <3> QED OBVIOUS
  <2>1. SUFFICES ASSUME k + 1 <= n PROVE Good(f[k + 1], k + 1)
    <3> HIDE DEF Good
    <3> QED BY <2>0
  <2>2. Good(f[k], k)
    <3>1. k <= n
      BY <1>2, <2>0, <2>1
    <3> QED BY <2>0, <3>1
  <2>3. parts[k + 1] \in Part /\ f[k + 1] = Descend(f[k], parts[k + 1])
    <3>1. k + 1 \in 1..n /\ (k + 1) - 1 = k
      BY <1>2, <2>0, <2>1
    <3>2. parts[k + 1] \in Part
      BY <1>2, <3>1, ElementOfSeq
    <3>3. f[k + 1] = Descend(f[(k + 1) - 1], parts[k + 1])
      BY <1>1, <3>1
    <3> QED BY <3>1, <3>2, <3>3
  <2>4. Trie(f[k]) /\ Extends(f[k], children, pattern)
    BY <2>2
  <2>5. Trie(f[k + 1]) /\ Extends(f[k + 1], f[k].children, f[k].pattern)
    BY <2>3, <2>4, DescendKeeps
  <2>6. Extends(f[k + 1], children, pattern)
    BY <2>4, <2>5, ExtendsTransitive DEF Sound
  <2>7. PICK new : Down(f[k], new, word, parts, k)
    BY <2>2
  <2>8. DOMAIN children \subseteq DOMAIN f[k].children
    BY <2>4 DEF Extends
  <2>9. \E deeper : Down(f[k + 1], deeper, word, parts, k + 1)
    <3>1. k + 1 <= Len(parts)
      BY <2>1
    <3>2. \E deeper : Down(Descend(f[k], parts[k + 1]), deeper, word, parts, k + 1)
      BY <1>2, <1>3, <2>0, <2>4, <2>7, <2>8, <3>1, DownStep
    <3> QED BY <2>3, <3>2
  <2> QED BY <2>5, <2>6, <2>9
<1>6. T \in SUBSET Nat
  OBVIOUS
<1> HIDE DEF T, Good
<1>7. T = Nat
  BY <1>4, <1>5, <1>6, Induct
<1>8. Good(f[n], n)
  <2> HIDE DEF n
  <2>1. n \in T /\ n <= n
    BY <1>2, <1>7
  <2> QED BY <2>1 DEF T
<1> QED BY <1>1, <1>8 DEF Good, parts, n

-----------------------------------------------------------------------------
(* From day 4 on: routes are filed by their parts *)

\* The parts of route j.
Of(rs, j) == ParsePattern(rs[j])

\* n has no route, and no route has its parts; or the last that has.
Labelled(pt, rs, word, n) ==
    \/ pt[n] = NoRoute /\ \A j \in 1..Len(rs) : Of(rs, j) # word[n]
    \/ /\ pt[n] # NoRoute
       /\ \E j \in 1..Len(rs) : /\ pt[n] = rs[j] /\ Of(rs, j) = word[n]
                                /\ \A k \in j + 1..Len(rs) : Of(rs, k) # word[n]

\* A node for every beginning of a route, no other, and the routes at their ends.
Filed(c, pt, rs, word) ==
    /\ Words(c, word)
    /\ \A j \in 1..Len(rs) : \A k \in 0..Len(Of(rs, j)) :
          \E n \in DOMAIN c : Len(n) = k /\ Begins(Of(rs, j), word[n])
    /\ \A n \in DOMAIN c : n = << >> \/ \E j \in 1..Len(rs) : Begins(Of(rs, j), word[n])
    /\ \A n \in DOMAIN c : Labelled(pt, rs, word, n)

\* A route has parts, and is a pattern.
LEMMA OfIs ==
    ASSUME NEW rs \in Seq(Pattern), NEW j \in 1..Len(rs)
    PROVE  rs[j] \in Pattern /\ rs[j] \in Seq(Part) /\ Of(rs, j) \in Seq(Part) /\ rs[j] # NoRoute
<1>1. rs[j] \in Pattern
  BY ElementOfSeq
<1>2. rs[j] \in Seq(Part) /\ rs[j] # NoRoute
  BY <1>1, PatternAssumption
<1> QED BY <1>1, <1>2, ParsedIs DEF Of

\* Nothing is filed at first.
LEMMA FirstFiled ==
    ASSUME RouterInit
    PROVE  \E word : Filed(children, pattern, routes, word)
<1> DEFINE word == [n \in {<< >>} |-> << >>]
<1>1. /\ children = [n \in {<< >>} |-> << >>] /\ pattern = [n \in {<< >>} |-> NoRoute]
      /\ routes = << >>
  BY DEF RouterInit
<1>2. DOMAIN children = {<< >>} /\ pattern[<< >>] = NoRoute /\ 1..Len(routes) = {}
  BY <1>1
<1>3. word \in [DOMAIN children -> Seq(Part)] /\ word[<< >>] = << >>
  BY <1>2
<1>4. 1..Len(children[<< >>]) = {} /\ Len(<< >>) = 0
  BY <1>1
<1> HIDE DEF word
<1>5. Words(children, word)
  BY <1>2, <1>3, <1>4 DEF Words
<1>6. Filed(children, pattern, routes, word)
  BY <1>2, <1>5 DEF Filed, Labelled
<1> QED BY <1>6

\* A node has the parts q.
HasNode(c, word, q) == \E n \in DOMAIN c : word[n] = q

\* The node for the whole of a route.
LEMMA WholeNode ==
    ASSUME NEW c, NEW pt, NEW rs \in Seq(Pattern), NEW word, Filed(c, pt, rs, word),
           NEW j \in 1..Len(rs)
    PROVE  HasNode(c, word, Of(rs, j))
<1>1. Of(rs, j) \in Seq(Part) /\ Len(Of(rs, j)) \in 0..Len(Of(rs, j))
  <2>1. Of(rs, j) \in Seq(Part)
    BY OfIs
  <2>2. Len(Of(rs, j)) \in Nat
    BY <2>1, LenProperties
  <2> QED BY <2>1, <2>2
<1>2. PICK n \in DOMAIN c : Len(n) = Len(Of(rs, j)) /\ Begins(Of(rs, j), word[n])
  BY <1>1 DEF Filed
<1>3. word[n] \in Seq(Part) /\ Len(word[n]) = Len(n)
  BY DEF Filed, Words
<1>4. Of(rs, j) = word[n]
  BY <1>1, <1>2, <1>3, WholeBeginning
<1> QED BY <1>4 DEF HasNode

\* A route that goes into no wildcard finds its way straight.
LEMMA OrderlyIsStraight ==
    ASSUME Sound, routes \in Seq(Pattern), NEW p \in Pattern, routes' = Append(routes, p), Orderly',
           NEW word, Filed(children, pattern, routes, word)
    PROVE  Straight(word, ParsePattern(p))
<1> DEFINE parts == ParsePattern(p)
           len == Len(routes)
<1>1. parts \in Seq(Part) /\ Len(parts) \in Nat
  BY PatternAssumption, ParsedIs, LenProperties
<1>2. /\ len \in Nat /\ DOMAIN routes' = 1..len + 1 /\ routes'[len + 1] = p
      /\ \A j \in 1..len : routes'[j] = routes[j]
  BY AppendProperties, LenProperties
<1> HIDE DEF len
<1>3. ASSUME NEW n \in DOMAIN children, n # << >>, Len(n) <= Len(parts),
             \A h \in 1..Len(n) - 1 : word[n][h] = parts[h],
             word[n][Len(n)] # parts[Len(n)]
      PROVE  word[n][Len(n)] \notin Wild
  <2>1. PICK j \in 1..len : Begins(Of(routes, j), word[n])
    BY <1>3 DEF Filed, len
  <2> DEFINE q == Of(routes, j)
             d == Len(n)
  <2>2. q \in Seq(Part) /\ Len(q) \in Nat
    BY OfIs, LenProperties DEF len
  <2>3. d \in Nat /\ Len(word[n]) = d
    BY LenProperties DEF Filed, Words, Sound, Shape
  <2>4. d # 0
    <3>1. n \in Seq(Index)
      BY DEF Sound, Shape
    <3> QED BY <1>3, <3>1, EmptySeq
  <2>5. d <= Len(q) /\ \A h \in 1..d : word[n][h] = q[h]
    BY <2>1, <2>3 DEF Begins
  <2> HIDE DEF q
  <2>6. Parts'[j] = q /\ Parts'[len + 1] = parts
    <3>1. DOMAIN routes' = 1..len + 1 /\ j \in 1..len + 1 /\ len + 1 \in 1..len + 1
      BY <1>2
    <3>2. Parts' = [i \in DOMAIN routes' |-> ParsePattern(routes'[i])]
      BY DEF Parts
    <3> QED BY <1>2, <3>1, <3>2 DEF Of, q
  <2>7. Fork(q, parts) = d
    <3>1. d \in 1..Len(q) /\ d \in 1..Len(parts)
      BY <1>1, <1>3, <2>2, <2>3, <2>4, <2>5
    <3>2. q[d] # parts[d] /\ \A h \in 1..d - 1 : q[h] = parts[h]
      <4>1. d \in 1..d /\ \A h \in 1..d - 1 : h \in 1..d
        BY <2>3, <2>4
      <4> QED BY <1>3, <2>5, <4>1
    <3> HIDE DEF d, parts
    <3> QED BY <1>1, <2>2, <3>1, <3>2, ForkIs
  <2>8. j \in 1..(len + 1) - 1 /\ len + 1 \in DOMAIN routes'
    BY <1>2
  <2>9. LET e == Fork(Parts'[j], Parts'[len + 1]) IN e = 0 \/ Parts'[j][e] \notin Wild
    BY <2>8 DEF Orderly
  <2>10. q[d] \notin Wild
    <3> HIDE DEF d, parts
    <3> QED BY <2>4, <2>6, <2>7, <2>9
  <2>11. d \in 1..d
    BY <2>3, <2>4
  <2> QED BY <2>5, <2>10, <2>11
<1> QED BY <1>3 DEF Straight

\* A route registered in order is filed.
LEMMA AddFiles ==
    ASSUME Sound, routes \in Seq(Pattern), day \in Nat, day >= 4,
           NEW p \in Pattern, AddRoute(p), Orderly',
           NEW word, Filed(children, pattern, routes, word)
    PROVE  \E new : Filed(children', pattern', routes', new)
<1> DEFINE parts == ParsePattern(p)
           trie == Insert(p)
           len == Len(routes)
<1>1. /\ children' = trie.children /\ pattern' = [trie.pattern EXCEPT ![trie.at] = p]
      /\ routes' = Append(routes, p)
  BY DEF AddRoute
<1>2. parts \in Seq(Part) /\ Len(parts) \in Nat /\ p \in Seq(Part) /\ p # NoRoute
  BY PatternAssumption, ParsedIs, LenProperties
<1>3. /\ len \in Nat /\ Len(routes') = len + 1 /\ routes'[len + 1] = p
      /\ \A j \in 1..len : routes'[j] = routes[j]
  BY <1>1, AppendProperties, LenProperties
<1>4. Straight(word, parts)
  BY <1>1, OrderlyIsStraight
<1>5. PICK new : Down(trie, new, word, parts, Len(parts))
  BY <1>2, <1>4, InsertWords DEF Filed
<1>6. Trie(trie) /\ Extends(trie, children, pattern)
  BY <1>2, InsertKeeps
<1> HIDE DEF trie, len
<1>7. Words(children', new) /\ \A n \in DOMAIN children : new[n] = word[n]
  BY <1>1, <1>5 DEF Down
<1>8. trie.at \in DOMAIN children' /\ new[trie.at] = parts
  <2>1. trie.at \in DOMAIN children'
    BY <1>1, <1>6 DEF Trie
  <2>2. Len(trie.at) = Len(parts) /\ Begins(parts, new[trie.at])
    BY <1>5 DEF Down
  <2>3. new[trie.at] \in Seq(Part) /\ Len(new[trie.at]) = Len(parts)
    BY <1>7, <2>1, <2>2 DEF Words
  <2>4. parts = new[trie.at]
    <3> HIDE DEF parts
    <3> QED BY <1>2, <2>2, <2>3, WholeBeginning
  <2> QED BY <2>1, <2>4
<1>9. /\ DOMAIN children \subseteq DOMAIN children' /\ DOMAIN pattern' = DOMAIN children'
      /\ pattern'[trie.at] = p
      /\ \A n \in DOMAIN children : n # trie.at => pattern'[n] = pattern[n]
      /\ \A n \in DOMAIN children' \ DOMAIN children : n # trie.at => pattern'[n] = NoRoute
  BY <1>1, <1>6 DEF Trie, Shape, Extends
<1>10. Of(routes', len + 1) = parts /\ \A j \in 1..len : Of(routes', j) = Of(routes, j)
  BY <1>3 DEF Of
<1> HIDE DEF parts
<1>11. \A j \in 1..Len(routes') : j \in 1..len \/ j = len + 1
  BY <1>3
<1>12. len + 1 \in 1..Len(routes') /\ \A j \in 1..len : j \in 1..Len(routes')
  BY <1>3
<1>13. ASSUME NEW j \in 1..Len(routes'), NEW k \in 0..Len(Of(routes', j))
       PROVE  \E n \in DOMAIN children' : Len(n) = k /\ Begins(Of(routes', j), new[n])
  <2>1. CASE j \in 1..len
    <3>1. PICK n \in DOMAIN children : Len(n) = k /\ Begins(Of(routes, j), word[n])
      BY <1>10, <2>1 DEF Filed, len
    <3> QED BY <1>7, <1>9, <1>10, <2>1, <3>1
  <2>2. CASE j = len + 1
    BY <1>1, <1>5, <1>10, <2>2 DEF Down
  <2> QED BY <1>11, <2>1, <2>2
<1>14. ASSUME NEW n \in DOMAIN children', n # << >>
       PROVE  \E j \in 1..Len(routes') : Begins(Of(routes', j), new[n])
  <2>1. CASE n \in DOMAIN children
    <3>1. PICK j \in 1..len : Begins(Of(routes, j), word[n])
      BY <1>14, <2>1 DEF Filed, len
    <3> QED BY <1>7, <1>10, <1>12, <2>1, <3>1
  <2>2. CASE n \notin DOMAIN children
    <3>1. Begins(parts, new[n])
      BY <1>1, <1>5, <2>2 DEF Down
    <3> QED BY <1>10, <1>12, <3>1
  <2> QED BY <2>1, <2>2
<1>15. ASSUME NEW n \in DOMAIN children' PROVE Labelled(pattern', routes', new, n)
  <2>1. CASE n = trie.at
    <3>1. len + 1 + 1..Len(routes') = {}
      BY <1>3
    <3> QED BY <1>2, <1>3, <1>8, <1>9, <1>10, <1>12, <2>1, <3>1 DEF Labelled
  <2>2. CASE n # trie.at /\ n \in DOMAIN children
    <3>1. new[n] = word[n] /\ new[n] # parts /\ pattern'[n] = pattern[n]
      BY <1>7, <1>8, <1>9, <2>2 DEF Words
    <3>2. Labelled(pattern, routes, word, n)
      BY <2>2 DEF Filed
    <3>3. CASE pattern[n] = NoRoute
      <4>1. \A j \in 1..len : Of(routes, j) # word[n]
        BY <3>2, <3>3 DEF Labelled, len
      <4> QED BY <1>10, <1>11, <3>1, <3>3, <4>1 DEF Labelled
    <3>4. CASE pattern[n] # NoRoute
      <4>1. PICK j \in 1..len : /\ pattern[n] = routes[j] /\ Of(routes, j) = word[n]
                                /\ \A k \in j + 1..len : Of(routes, k) # word[n]
        BY <3>2, <3>4 DEF Labelled, len
      <4>2. \A k \in j + 1..Len(routes') : k = len + 1 \/ (k \in j + 1..len /\ k \in 1..len)
        BY <1>3
      <4>3. \A k \in j + 1..Len(routes') : Of(routes', k) # new[n]
        BY <1>10, <3>1, <4>1, <4>2
      <4> QED BY <1>3, <1>10, <1>12, <3>1, <3>4, <4>1, <4>3 DEF Labelled
    <3> QED BY <3>3, <3>4
  <2>3. CASE n # trie.at /\ n \notin DOMAIN children
    <3>1. pattern'[n] = NoRoute /\ new[n] # parts
      BY <1>7, <1>8, <1>9, <2>3 DEF Words
    <3>2. ASSUME NEW j \in 1..len, Of(routes, j) = new[n] PROVE FALSE
      <4>1. PICK m \in DOMAIN children : word[m] = Of(routes, j)
        <5>1. j \in 1..Len(routes)
          BY DEF len
        <5>2. HasNode(children, word, Of(routes, j))
          BY <5>1, WholeNode
        <5> QED BY <5>2 DEF HasNode
      <4>2. m \in DOMAIN children' /\ new[m] = new[n]
        BY <1>7, <1>9, <3>2, <4>1
      <4>3. m = n
        BY <1>7, <4>2 DEF Words
      <4> QED BY <2>3, <4>3
    <3> QED BY <1>10, <1>11, <3>1, <3>2 DEF Labelled
  <2> QED BY <2>1, <2>2, <2>3
<1>16. Filed(children', pattern', routes', new)
  BY <1>7, <1>13, <1>14, <1>15 DEF Filed
<1> QED BY <1>16

-----------------------------------------------------------------------------
(* From day 4 on: search finds the preferred route *)

\* Route j is preferred to route k, and not the other way round.
Prefers(j, k) == Beats(j, k) /\ ~Beats(k, j)

\* Of routes with the same parts the later is preferred,
LEMMA LaterIsPreferred ==
    ASSUME NEW j \in 1..Len(routes), NEW k \in 1..Len(routes), routes \in Seq(Pattern),
           Of(routes, j) = Of(routes, k), j > k
    PROVE  Prefers(j, k)
<1>1. /\ Len(routes) \in Nat /\ DOMAIN routes = 1..Len(routes)
      /\ j \in Int /\ k \in Int
  BY LenProperties
<1>2. Parts[j] = Of(routes, j) /\ Parts[k] = Of(routes, k)
  BY <1>1 DEF Parts, Of
<1> QED BY <1>1, <1>2 DEF Prefers, Beats

\* and a part to a wildcard.

\* The part of a node is the last of its word.
LEMMA PartIsPreferred ==
    ASSUME NEW j \in 1..Len(routes), NEW k \in 1..Len(routes), routes \in Seq(Pattern),
           NEW d \in 1..Len(Of(routes, j)), d \in 1..Len(Of(routes, k)),
           \A i \in 1..d - 1 : Of(routes, j)[i] = Of(routes, k)[i],
           Of(routes, j)[d] \notin Wild, Of(routes, k)[d] \in Wild
    PROVE  Prefers(j, k)
<1> DEFINE p == Of(routes, j)
           q == Of(routes, k)
<1>1. DOMAIN routes = 1..Len(routes)
  BY LenProperties
<1>2. Parts[j] = p /\ Parts[k] = q
  BY <1>1 DEF Parts, Of
<1>3. p \in Seq(Part) /\ q \in Seq(Part) /\ p[d] # q[d] /\ \A i \in 1..d - 1 : p[i] = q[i]
  BY OfIs
<1>4. d \in 1..Len(p) /\ d \in 1..Len(q) /\ p[d] \notin Wild /\ q[d] \in Wild
  OBVIOUS
<1> HIDE DEF p, q
<1>5. Fork(p, q) = d /\ Fork(q, p) = d
  BY <1>3, <1>4, ForkIs
<1>6. p # q
  BY <1>3
<1> QED BY <1>2, <1>4, <1>5, <1>6 DEF Prefers, Beats

\* The parts on the way to n are those of the path.
Fits(word, n, parts) == Len(n) <= Len(parts) /\ \A i \in 1..Len(n) : Matches(word[n][i], parts[i])

\* The routes of a path that are below n.
RoutesBelow(word, n, parts) ==
    {j \in 1..Len(routes) : Instance(Of(routes, j), parts) /\ Begins(Of(routes, j), word[n])}

\* r is the preferred one of the routes in S.
Chosen(r, S) == IF S = {} THEN r = NoRoute
                ELSE \E j \in S : r = routes[j] /\ \A k \in S \ {j} : Prefers(j, k)

\* An asterisk is the last part.
LEMMA StarIsLast ==
    ASSUME routes \in Seq(Pattern), NEW j \in 1..Len(routes), NEW i \in 1..Len(Of(routes, j)),
           Of(routes, j)[i] \in Star
    PROVE  i = Len(Of(routes, j))
<1>1. routes[j] \in Seq(Part)
  BY OfIs
<1> QED BY <1>1, ParsedIs DEF Of

\* The part of a node is the last of its word.
LEMMA PartIs ==
    ASSUME Sound, NEW word, Words(children, word), NEW n \in DOMAIN children, n # << >>
    PROVE  PartOf(n) = word[n][Len(n)]
<1>1. PICK m \in DOMAIN children : \E i \in 1..Len(children[m]) : Born(children, word, n, m, i)
  BY ParentIs DEF Sound
<1>2. PICK i \in 1..Len(children[m]) : Born(children, word, n, m, i)
  BY <1>1
<1> QED BY <1>2 DEF Born, PartOf

\* Where search ends, the routes of the path are those that have the parts of the node.
LEMMA BelowEnd ==
    ASSUME Sound, routes \in Seq(Pattern), NEW word, Filed(children, pattern, routes, word),
           NEW parts \in Seq(Part), NEW n \in DOMAIN children, Fits(word, n, parts), Ends(n, parts)
    PROVE  RoutesBelow(word, n, parts) = {j \in 1..Len(routes) : Of(routes, j) = word[n]}
<1>1. /\ Words(children, word) /\ word[n] \in Seq(Part) /\ Len(word[n]) = Len(n)
      /\ Len(n) \in Nat /\ Len(parts) \in Nat /\ Len(n) <= Len(parts)
      /\ DOMAIN word[n] = 1..Len(n) /\ DOMAIN parts = 1..Len(parts)
  BY LenProperties DEF Filed, Words, Fits
<1>2. ASSUME NEW j \in 1..Len(routes), Instance(Of(routes, j), parts), Begins(Of(routes, j), word[n])
      PROVE  Of(routes, j) = word[n]
  <2> DEFINE p == Of(routes, j)
  <2>1. p \in Seq(Part) /\ Len(p) \in Nat
    BY OfIs, LenProperties
  <2>2. Len(n) <= Len(p) /\ Len(p) <= Len(parts)
    BY <1>1, <1>2 DEF Begins, Instance
  <2>3. Len(p) = Len(n)
    <3>1. CASE Len(n) = Len(parts)
      <4> HIDE DEF p
      <4> QED BY <1>1, <2>1, <2>2, <3>1
    <3>2. CASE n # << >> /\ PartOf(n) \in Star
      <4>1. Len(n) # 0
        <5>1. n \in Seq(Index)
          BY DEF Sound, Shape
        <5> QED BY <3>2, <5>1, EmptySeq
      <4>2. Len(n) \in 1..Len(n) /\ Len(n) \in 1..Len(p)
        <5> HIDE DEF p
        <5> QED BY <1>1, <2>1, <2>2, <4>1
      <4>3. p[Len(n)] \in Star
        <5>1. word[n][Len(n)] \in Star
          BY <1>1, <3>2, PartIs
        <5> QED BY <1>1, <1>2, <4>2, <5>1 DEF Begins
      <4> QED BY <4>2, <4>3, StarIsLast
    <3> QED BY <3>1, <3>2 DEF Ends
  <2> QED BY <1>1, <1>2, <2>1, <2>3, WholeBeginning
<1>3. ASSUME NEW j \in 1..Len(routes), Of(routes, j) = word[n]
      PROVE  Instance(Of(routes, j), parts) /\ Begins(Of(routes, j), word[n])
  <2>1. Begins(word[n], word[n])
    BY <1>1 DEF Begins
  <2>2. Instance(word[n], parts)
    <3>1. \A i \in DOMAIN word[n] : Matches(word[n][i], parts[i])
      BY <1>1 DEF Fits
    <3>2. Len(word[n]) = Len(parts) \/ (word[n] # << >> /\ Last(word[n]) \in Star)
      <4>1. CASE Len(n) = Len(parts)
        BY <1>1, <4>1
      <4>2. CASE n # << >> /\ PartOf(n) \in Star
        <5>1. Len(n) # 0
          <6>1. n \in Seq(Index)
            BY DEF Sound, Shape
          <6> QED BY <4>2, <6>1, EmptySeq
        <5>2. word[n] # << >>
          BY <1>1, <5>1, EmptySeq
        <5>3. Last(word[n]) = word[n][Len(n)]
          BY <1>1 DEF Last
        <5> QED BY <1>1, <4>2, <5>2, <5>3, PartIs
      <4> QED BY <4>1, <4>2 DEF Ends
    <3> QED BY <1>1, <3>1, <3>2 DEF Instance
  <2> QED BY <1>3, <2>1, <2>2
<1> QED BY <1>2, <1>3 DEF RoutesBelow

\* Where search ends, it finds the last of them.
LEMMA EndIsChosen ==
    ASSUME Sound, routes \in Seq(Pattern), NEW word, Filed(children, pattern, routes, word),
           NEW parts \in Seq(Part), NEW n \in DOMAIN children, Fits(word, n, parts), Ends(n, parts)
    PROVE  Chosen(pattern[n], RoutesBelow(word, n, parts))
<1> DEFINE S == RoutesBelow(word, n, parts)
<1>1. S = {j \in 1..Len(routes) : Of(routes, j) = word[n]}
  BY BelowEnd
<1>2. Labelled(pattern, routes, word, n)
  BY DEF Filed
<1> HIDE DEF S
<1>3. CASE pattern[n] = NoRoute
  BY <1>1, <1>2, <1>3 DEF Labelled, Chosen, S
<1>4. CASE pattern[n] # NoRoute
  <2>1. PICK j \in 1..Len(routes) : /\ pattern[n] = routes[j] /\ Of(routes, j) = word[n]
                                    /\ \A k \in j + 1..Len(routes) : Of(routes, k) # word[n]
    BY <1>2, <1>4 DEF Labelled
  <2>2. j \in S
    BY <1>1, <2>1
  <2>3. ASSUME NEW k \in S \ {j} PROVE Prefers(j, k)
    <3>1. k \in 1..Len(routes) /\ Of(routes, k) = word[n] /\ k # j /\ Len(routes) \in Nat
      BY <1>1, LenProperties
    <3>2. k \notin j + 1..Len(routes)
      BY <2>1, <3>1
    <3>3. j > k
      BY <3>1, <3>2
    <3> QED BY <2>1, <3>1, <3>3, LaterIsPreferred
  <2> QED BY <2>1, <2>2, <2>3 DEF Chosen, S
<1> QED BY <1>3, <1>4

\* The routes below a child that matches have its part, and are below its parent.
LEMMA ChildBelow ==
    ASSUME Sound, routes \in Seq(Pattern), NEW word, Filed(children, pattern, routes, word),
           NEW parts \in Seq(Part), NEW n \in DOMAIN children,
           Fits(word, n, parts), Len(n) < Len(parts),
           NEW i \in MatchChildren(children[n], parts[Len(n) + 1])
    PROVE  /\ Fits(word, Append(n, i), parts)
           /\ word[Append(n, i)] = Append(word[n], children[n][i])
           /\ \A j \in RoutesBelow(word, Append(n, i), parts) :
                 /\ j \in RoutesBelow(word, n, parts)
                 /\ Len(n) + 1 \in 1..Len(Of(routes, j)) /\ Of(routes, j)[Len(n) + 1] = children[n][i]
                 /\ \A h \in 1..Len(n) : Of(routes, j)[h] = word[n][h]
<1> DEFINE m == Append(n, i)
           x == children[n][i]
           w == word[n]
           len == Len(n)
<1>1. /\ i \in 1..Len(children[n]) /\ Matches(x, parts[len + 1]) /\ m \in DOMAIN children
      /\ Len(m) = len + 1 /\ len \in Nat
  BY MatchingChild
<1>2. x \in Part
  <2>1. children[n] \in Seq(Part)
    BY DEF Sound, Shape
  <2> QED BY <1>1, <2>1, ElementOfSeq
<1>3. w \in Seq(Part) /\ Len(w) = len /\ Len(parts) \in Nat /\ word[m] = Append(w, x)
  BY <1>1, LenProperties DEF Filed, Words
<1> HIDE DEF m, x, w, len
<1>4. /\ Len(word[m]) = len + 1 /\ word[m][len + 1] = x
      /\ \A h \in 1..len : word[m][h] = w[h]
  BY <1>2, <1>3, AppendProperties
<1>5. Fits(word, m, parts)
  <2>1. len < Len(parts) /\ \A h \in 1..len : Matches(w[h], parts[h])
    BY DEF Fits, len, w
  <2>2. ASSUME NEW h \in 1..len + 1 PROVE Matches(word[m][h], parts[h])
    <3>1. h \in 1..len \/ h = len + 1
      BY <1>1
    <3> QED BY <1>1, <1>4, <2>1, <3>1
  <2> QED BY <1>1, <1>3, <2>1, <2>2 DEF Fits
<1>6. ASSUME NEW j \in 1..Len(routes), Instance(Of(routes, j), parts), Begins(Of(routes, j), word[m])
      PROVE  /\ Begins(Of(routes, j), w)
             /\ len + 1 \in 1..Len(Of(routes, j)) /\ Of(routes, j)[len + 1] = x
             /\ \A h \in 1..len : Of(routes, j)[h] = w[h]
  <2> DEFINE p == Of(routes, j)
  <2>1. p \in Seq(Part) /\ Len(p) \in Nat
    BY OfIs, LenProperties
  <2>2. len + 1 <= Len(p) /\ \A h \in 1..len + 1 : word[m][h] = p[h]
    BY <1>4, <1>6 DEF Begins
  <2> HIDE DEF p
  <2>3. len + 1 \in 1..len + 1 /\ \A h \in 1..len : h \in 1..len + 1
    BY <1>1
  <2>4. len <= Len(p) /\ len + 1 \in 1..Len(p)
    BY <1>1, <2>1, <2>2
  <2> QED BY <1>3, <1>4, <2>2, <2>3, <2>4 DEF Begins, p
<1> QED BY <1>3, <1>5, <1>6 DEF RoutesBelow, m, x, w, len

\* A route below a node where search goes on is below a child that matches.
LEMMA BelowChild ==
    ASSUME Sound, routes \in Seq(Pattern), NEW word, Filed(children, pattern, routes, word),
           NEW parts \in Seq(Part), NEW n \in DOMAIN children,
           Fits(word, n, parts), ~Ends(n, parts),
           NEW j \in RoutesBelow(word, n, parts)
    PROVE  \E i \in MatchChildren(children[n], parts[Len(n) + 1]) :
              j \in RoutesBelow(word, Append(n, i), parts)
<1> DEFINE p == Of(routes, j)
           len == Len(n)
<1>1. j \in 1..Len(routes) /\ Instance(p, parts) /\ Begins(p, word[n])
  BY DEF RoutesBelow
<1>2. p \in Seq(Part) /\ Len(p) \in Nat /\ DOMAIN p = 1..Len(p)
  BY <1>1, OfIs, LenProperties
<1>3. /\ Words(children, word) /\ Shape(children, pattern)
      /\ word[n] \in Seq(Part) /\ Len(word[n]) = len /\ len \in Nat /\ Len(parts) \in Nat
  BY LenProperties DEF Filed, Words, Sound
<1>4. len < Len(parts) /\ len <= Len(p)
  <2>1. len # Len(parts)
    BY DEF Ends
  <2> HIDE DEF p
  <2> QED BY <1>1, <1>3, <2>1 DEF Fits, Begins
<1>5. len < Len(p)
  <2>1. SUFFICES ASSUME len = Len(p) PROVE FALSE
    BY <1>2, <1>3, <1>4
  <2>2. p = word[n]
    <3> HIDE DEF p
    <3> QED BY <1>1, <1>2, <1>3, <2>1, WholeBeginning
  <2>3. p # << >> /\ Last(p) \in Star
    BY <1>1, <1>4, <2>1 DEF Instance
  <2>4. n # << >>
    BY <1>3, <2>2, <2>3 DEF Words
  <2>5. Last(p) = p[len]
    BY <2>1 DEF Last
  <2>6. PartOf(n) = p[len]
    BY <1>3, <2>2, <2>4, PartIs
  <2> QED BY <2>3, <2>4, <2>5, <2>6 DEF Ends
<1>6. PICK m \in DOMAIN children : Len(m) = len + 1 /\ Begins(p, word[m])
  <2>1. len + 1 \in 0..Len(p)
    BY <1>2, <1>3, <1>5
  <2> QED BY <1>1, <2>1 DEF Filed
<1>7. m # << >>
  <2>1. len + 1 # 0
    BY <1>3
  <2> QED BY <1>6, <2>1
<1>8. PICK o \in DOMAIN children : \E i \in 1..Len(children[o]) : Born(children, word, m, o, i)
  BY <1>3, <1>7, ParentIs
<1>9. PICK i \in 1..Len(children[o]) : Born(children, word, m, o, i)
  BY <1>8
<1> HIDE DEF p
<1>10. o = n
  <2>1. Len(o) = len
    BY <1>3, <1>6, <1>9 DEF Born
  <2>2. Begins(p, word[o])
    <3>1. Len(word[o]) = len /\ Len(word[m]) = len + 1
      BY <1>3, <1>6, <2>1 DEF Words
    <3>2. \A h \in 1..len : word[m][h] = word[o][h]
      BY <1>9, <2>1 DEF Born
    <3>3. \A h \in 1..len : h \in 1..len + 1
      BY <1>3
    <3> QED BY <1>4, <1>6, <3>1, <3>2, <3>3 DEF Begins
  <2> QED BY <1>1, <1>3, <2>1, <2>2, SameBeginning
<1>11. m = Append(n, i) /\ i \in 1..Len(children[n])
  BY <1>9, <1>10 DEF Born
<1>12. p[len + 1] = children[n][i]
  <2>1. word[m][len + 1] = children[n][i]
    BY <1>6, <1>9, <1>10 DEF Born
  <2>2. Len(word[m]) = len + 1 /\ len + 1 \in 1..len + 1
    BY <1>3, <1>6 DEF Words
  <2> QED BY <1>6, <2>1, <2>2 DEF Begins
<1>13. Matches(children[n][i], parts[len + 1])
  <2>1. len + 1 \in DOMAIN p
    BY <1>2, <1>3, <1>5
  <2> QED BY <1>1, <1>12, <2>1 DEF Instance
<1>14. i \in MatchChildren(children[n], parts[len + 1])
  <2>1. DOMAIN children[n] = 1..Len(children[n])
    BY LenProperties DEF Sound, Shape
  <2> QED BY <1>11, <1>13, <2>1 DEF MatchChildren
<1>15. j \in RoutesBelow(word, Append(n, i), parts)
  BY <1>1, <1>6, <1>11 DEF RoutesBelow, p
<1> QED BY <1>14, <1>15

\* Only the last of the children that match is a wildcard.
LEMMA FirstIsPreferred ==
    ASSUME Sound, routes \in Seq(Pattern), NEW word, Filed(children, pattern, routes, word),
           NEW parts \in Seq(Part), NEW n \in DOMAIN children,
           Fits(word, n, parts), Len(n) < Len(parts),
           NEW i \in MatchChildren(children[n], parts[Len(n) + 1]),
           NEW h \in MatchChildren(children[n], parts[Len(n) + 1]), i < h,
           NEW j \in RoutesBelow(word, Append(n, i), parts),
           NEW k \in RoutesBelow(word, Append(n, h), parts)
    PROVE  Prefers(j, k)
<1> DEFINE x == children[n][i]
           y == children[n][h]
           p == Of(routes, j)
           q == Of(routes, k)
           d == Len(n) + 1
<1>1. /\ i \in 1..Len(children[n]) /\ h \in 1..Len(children[n]) /\ i \in Nat /\ h \in Nat
      /\ Matches(x, parts[d]) /\ Matches(y, parts[d]) /\ Len(n) \in Nat
      /\ Append(n, i) \in DOMAIN children /\ Append(n, h) \in DOMAIN children
  BY MatchingChild
<1>2. x \notin Wild
  <2>1. i \in 1..h - 1
    BY <1>1
  <2> QED BY <1>1, <2>1 DEF Filed, Words
<1>3. /\ word[Append(n, i)] = Append(word[n], x) /\ word[Append(n, h)] = Append(word[n], y)
      /\ d \in 1..Len(p) /\ p[d] = x /\ d \in 1..Len(q) /\ q[d] = y
      /\ \A e \in 1..Len(n) : p[e] = word[n][e] /\ q[e] = word[n][e]
  BY ChildBelow
<1>4. x # y
  <2>1. SUFFICES ASSUME x = y PROVE FALSE
    OBVIOUS
  <2>2. Append(n, i) = Append(n, h)
    <3>1. word[Append(n, i)] = word[Append(n, h)]
      BY <1>3, <2>1
    <3>2. \A m, o \in DOMAIN children : word[m] = word[o] => m = o
      BY DEF Filed, Words
    <3> QED BY <1>1, <3>1, <3>2
  <2>3. n \in Seq(Index) /\ i \in Index /\ h \in Index
    BY <1>1 DEF Index, Sound, Shape
  <2>4. i = h
    BY <2>2, <2>3, ChildOnce
  <2> QED BY <1>1, <2>4
<1>5. y \in Wild
  BY <1>1, <1>2, <1>4 DEF Matches
<1>6. \A e \in 1..d - 1 : p[e] = q[e]
  <2>1. d - 1 = Len(n)
    BY <1>1
  <2> QED BY <1>3, <2>1
<1>7. j \in 1..Len(routes) /\ k \in 1..Len(routes)
  BY DEF RoutesBelow
<1> QED BY <1>2, <1>3, <1>5, <1>6, <1>7, PartIsPreferred

\* Where search goes on, it finds the preferred route of the first child that has any.
LEMMA MiddleIsChosen ==
    ASSUME Sound, routes \in Seq(Pattern), NEW word, Filed(children, pattern, routes, word),
           NEW parts \in Seq(Part), NEW n \in DOMAIN children,
           Fits(word, n, parts), ~Ends(n, parts),
           NEW f, Finds(f, parts),
           \A i \in MatchChildren(children[n], parts[Len(n) + 1]) :
              Chosen(f[Append(n, i)], RoutesBelow(word, Append(n, i), parts))
    PROVE  Chosen(f[n], RoutesBelow(word, n, parts))
<1> DEFINE I == MatchChildren(children[n], parts[Len(n) + 1])
           S(i) == RoutesBelow(word, Append(n, i), parts)
           H == Hits(f, n, parts)
<1>1. Len(n) < Len(parts) /\ n \in Upto(Len(parts))
  <2>1. Len(n) # Len(parts)
    BY DEF Ends
  <2>2. Len(n) \in Nat /\ Len(parts) \in Nat
    BY LenProperties DEF Sound, Shape
  <2> QED BY <2>1, <2>2 DEF Fits, Upto
<1>2. H = {i \in I : f[Append(n, i)] # NoRoute}
  BY DEF Hits
<1>3. ASSUME NEW i \in I PROVE i \in H <=> S(i) # {}
  <2>1. Chosen(f[Append(n, i)], S(i))
    OBVIOUS
  <2>2. \A j \in S(i) : j \in 1..Len(routes)
    BY DEF RoutesBelow
  <2>3. \A j \in S(i) : routes[j] # NoRoute
    BY <2>2, OfIs
  <2> HIDE DEF S, I, H
  <2> QED BY <1>2, <2>1, <2>3 DEF Chosen
<1>4. \A i \in I : S(i) \subseteq RoutesBelow(word, n, parts)
  BY <1>1, ChildBelow
<1>5. \A j \in RoutesBelow(word, n, parts) : \E i \in I : j \in S(i)
  BY BelowChild
<1>6. I \subseteq Nat
  BY MatchingChild
<1> HIDE DEF H, I, S
<1>7. CASE H = {}
  <2>1. f[n] = NoRoute
    BY <1>1, <1>7 DEF Finds, H
  <2>2. RoutesBelow(word, n, parts) = {}
    BY <1>3, <1>5, <1>7
  <2> QED BY <2>1, <2>2 DEF Chosen
<1>8. CASE H # {}
  <2>1. PICK i \in H : f[n] = f[Append(n, i)] /\ \A k \in H : i <= k
    BY <1>1, <1>8 DEF Finds, H
  <2>2. i \in I /\ S(i) # {}
    BY <1>2, <1>3
  <2>3. Chosen(f[Append(n, i)], S(i))
    BY <2>2 DEF I, S
  <2>4. PICK j \in S(i) : f[n] = routes[j] /\ \A k \in S(i) \ {j} : Prefers(j, k)
    BY <2>1, <2>2, <2>3 DEF Chosen
  <2>5. ASSUME NEW k \in RoutesBelow(word, n, parts) \ {j} PROVE Prefers(j, k)
    <3>1. PICK h \in I : k \in S(h)
      BY <1>5
    <3>2. h \in H /\ i <= h
      BY <1>3, <2>1, <3>1
    <3>3. CASE h = i
      BY <2>4, <3>1, <3>3
    <3>4. CASE h # i
      <4>1. i < h
        BY <1>6, <2>2, <3>2, <3>4
      <4> QED BY <1>1, <2>2, <3>1, <4>1, FirstIsPreferred DEF I, S
    <3> QED BY <3>3, <3>4
  <2>6. j \in RoutesBelow(word, n, parts)
    BY <1>4, <2>2
  <2> QED BY <2>4, <2>5, <2>6 DEF Chosen
<1> QED BY <1>7, <1>8

\* From day 4 on search finds the preferred of the routes the path is an instance of.
LEMMA SearchChooses ==
    ASSUME Sound, routes \in Seq(Pattern), NEW word, Filed(children, pattern, routes, word),
           NEW parts \in Seq(Part)
    PROVE  Chosen(Search(parts), {j \in 1..Len(routes) : Instance(Of(routes, j), parts)})
<1> DEFINE L == Len(parts)
           Good(n, f) == Fits(word, n, parts) => Chosen(f[n], RoutesBelow(word, n, parts))
<1>1. PICK f : Search(parts) = f[<< >>] /\ Finds(f, parts)
  BY SearchFinds
<1>2. L \in Nat /\ \A n \in Upto(L) : n \in DOMAIN children /\ Len(n) \in Nat /\ Len(n) <= L
  BY LenProperties DEF Upto, Sound, Shape
<1> DEFINE T == {k \in Nat : \A n \in Upto(L) : Len(n) + k >= L => Good(n, f)}
<1>3. ASSUME NEW n \in Upto(L), Ends(n, parts) PROVE Good(n, f)
  <2>1. f[n] = pattern[n]
    BY <1>1, <1>3 DEF Finds
  <2>2. Fits(word, n, parts) => Chosen(pattern[n], RoutesBelow(word, n, parts))
    BY <1>2, <1>3, EndIsChosen
  <2> QED BY <2>1, <2>2
<1> HIDE DEF Good
<1>4. 0 \in T
  <2>1. ASSUME NEW n \in Upto(L), Len(n) + 0 >= L PROVE Ends(n, parts)
    BY <1>2, <2>1 DEF Ends
  <2> QED BY <1>3, <2>1
<1>5. ASSUME NEW k \in T PROVE k + 1 \in T
  <2>1. SUFFICES ASSUME NEW n \in Upto(L), Len(n) + (k + 1) >= L, ~Ends(n, parts), Fits(word, n, parts)
                 PROVE  Chosen(f[n], RoutesBelow(word, n, parts))
    BY <1>3 DEF Good
  <2>2. n \in DOMAIN children /\ Len(n) \in Nat /\ Len(n) < L
    <3>1. Len(n) # L
      BY <2>1 DEF Ends
    <3> QED BY <1>2, <3>1
  <2>3. ASSUME NEW i \in MatchChildren(children[n], parts[Len(n) + 1])
        PROVE  Chosen(f[Append(n, i)], RoutesBelow(word, Append(n, i), parts))
    <3>1. Append(n, i) \in DOMAIN children /\ Len(Append(n, i)) = Len(n) + 1
      BY <2>2, MatchingChild
    <3>2. Append(n, i) \in Upto(L) /\ Len(Append(n, i)) + k >= L
      BY <1>2, <2>1, <2>2, <3>1 DEF Upto
    <3>3. Fits(word, Append(n, i), parts)
      BY <2>1, <2>2, ChildBelow
    <3>4. Good(Append(n, i), f)
      BY <3>2
    <3> QED BY <3>3, <3>4 DEF Good
  <2> QED BY <1>1, <2>1, <2>2, <2>3, MiddleIsChosen
<1>6. T \in SUBSET Nat
  OBVIOUS
<1>7. << >> \in Upto(L)
  BY <1>2, EmptySeq DEF Upto, Sound, Shape
<1>8. T = Nat
  <2> HIDE DEF T
  <2> QED BY <1>4, <1>5, <1>6, Induct
<1>9. Good(<< >>, f)
  <2>1. Len(<< >>) + L >= L
    BY <1>2
  <2> QED BY <1>2, <1>7, <1>8, <2>1
<1>10. word[<< >>] = << >> /\ Len(<< >>) = 0 /\ 1..0 = {}
  BY DEF Filed, Words
<1>11. Fits(word, << >>, parts)
  BY <1>2, <1>10 DEF Fits
<1>12. RoutesBelow(word, << >>, parts) = {j \in 1..Len(routes) : Instance(Of(routes, j), parts)}
  <2>1. ASSUME NEW j \in 1..Len(routes) PROVE Begins(Of(routes, j), << >>)
    <3>1. Len(Of(routes, j)) \in Nat
      <4>1. Of(routes, j) \in Seq(Part)
        BY OfIs
      <4> QED BY <4>1, LenProperties
    <3> QED BY <1>10, <3>1 DEF Begins
  <2> QED BY <1>10, <2>1 DEF RoutesBelow
<1> QED BY <1>1, <1>9, <1>11, <1>12 DEF Good

-----------------------------------------------------------------------------
(* The best route, and its parameters *)

\* The routes of a path, and what they are.
LEMMA FittingIs ==
    ASSUME routes \in Seq(Pattern), NEW parts
    PROVE  /\ Fitting(parts) = {j \in 1..Len(routes) : Instance(Of(routes, j), parts)}
           /\ \A j \in Fitting(parts) : routes[j] # NoRoute /\ Instance(ParsePattern(routes[j]), parts)
<1>1. DOMAIN routes = 1..Len(routes)
  BY LenProperties
<1>2. \A j \in 1..Len(routes) : Parts[j] = Of(routes, j)
  BY <1>1 DEF Parts, Of
<1>3. Fitting(parts) = {j \in 1..Len(routes) : Instance(Of(routes, j), parts)}
  BY <1>1, <1>2 DEF Fitting
<1>4. \A j \in 1..Len(routes) : routes[j] # NoRoute
  BY OfIs
<1> QED BY <1>3, <1>4 DEF Of

\* From day 4 on a path finds the best of its routes.
LEMMA BestIsFound ==
    ASSUME Sound, routes \in Seq(Pattern), NEW word, Filed(children, pattern, routes, word),
           NEW parts \in Seq(Part)
    PROVE  Search(parts) = Best(parts)
<1> DEFINE S == Fitting(parts)
           best == CHOOSE j \in S : \A k \in S \ {j} : Beats(j, k)
<1>1. Chosen(Search(parts), S)
  BY SearchChooses, FittingIs
<1>2. Best(parts) = IF S = {} THEN NoRoute ELSE routes[best]
  BY DEF Best
<1> HIDE DEF S
<1>3. CASE S = {}
  BY <1>1, <1>2, <1>3 DEF Chosen
<1>4. CASE S # {}
  <2>1. PICK j \in S : Search(parts) = routes[j] /\ \A k \in S \ {j} : Prefers(j, k)
    BY <1>1, <1>4 DEF Chosen
  <2>2. \A k \in S \ {j} : Beats(j, k) /\ ~Beats(k, j)
    BY <2>1 DEF Prefers
  <2>3. best \in S /\ \A k \in S \ {best} : Beats(best, k)
    BY <2>2
  <2> HIDE DEF best
  <2>4. best = j
    BY <2>2, <2>3
  <2> QED BY <1>2, <1>4, <2>1, <2>4
<1> QED BY <1>3, <1>4

\* The parameters make the path of the pattern.
LEMMA FillIsPath ==
    ASSUME NEW p \in Seq(Part), NEW asked \in Seq(Part),
           Instance(ParsePattern(p), ParsePattern(asked))
    PROVE  Fill(p, Params(p, asked)) = ParsePattern(asked)
<1> DEFINE q == ParsePattern(p)
           s == ParsePattern(asked)
           n == Len(q)
           params == Params(p, asked)
           ss == [i \in DOMAIN q |-> IF i \in DOMAIN params THEN params[i] ELSE <<q[i]>>]
<1>1. /\ q \in Seq(Part) /\ n \in Nat /\ DOMAIN q = 1..n
      /\ \A i \in 1..n : q[i] \in Star => i = n
      /\ s \in Seq(Part) /\ Len(s) \in Nat
  BY ParsedIs, LenProperties
<1>2. Fill(p, params) = FlattenSeq(ss)
  BY DEF Fill
<1>3. params = [i \in {i \in DOMAIN q : q[i] \in Wild} |->
                   IF q[i] \in Param THEN <<s[i]>> ELSE SubSeq(s, i, Len(s))]
  BY DEF Params
<1>4. Instance(q, s)
  OBVIOUS
<1> HIDE DEF q, s, params
<1>5. /\ n <= Len(s)
      /\ n = Len(s) \/ (q # << >> /\ Last(q) \in Star)
      /\ \A i \in 1..n : Matches(q[i], s[i])
  BY <1>1, <1>4 DEF Instance
<1> HIDE DEF n
<1>6. \A i \in 1..n : s[i] \in Part
  <2>1. \A i \in 1..n : i \in 1..Len(s)
    BY <1>1, <1>5
  <2> QED BY <1>1, <2>1, ElementOfSeq
<1>7. DOMAIN ss = 1..n
  BY <1>1
<1>8. ASSUME NEW i \in 1..n, q[i] \notin Star PROVE ss[i] = <<s[i]>>
  <2>1. CASE q[i] \in Param
    BY <1>1, <1>3, <1>8, <2>1 DEF Wild
  <2>2. CASE q[i] \notin Param
    <3>1. q[i] \notin Wild
      BY <1>8, <2>2 DEF Wild
    <3>2. q[i] = s[i] /\ i \notin DOMAIN params
      BY <1>3, <1>5, <3>1 DEF Matches
    <3> QED BY <1>1, <3>2
  <2> QED BY <2>1, <2>2
<1>9. ASSUME NEW i \in 1..n, q[i] \in Star PROVE ss[i] = SubSeq(s, i, Len(s))
  <2>1. q[i] \notin Param /\ q[i] \in Wild
    BY <1>9, PartAssumption DEF Wild
  <2> QED BY <1>1, <1>3, <2>1
<1> HIDE DEF ss
<1>10. ASSUME NEW i \in 1..n, q[i] \in Star
       PROVE  /\ i = n /\ ss[i] \in Seq(Part) /\ Len(ss[i]) = Len(s) - n + 1
              /\ \A h \in 1..Len(s) - n + 1 : ss[i][h] = s[n + h - 1]
  <2>1. i = n /\ n \in 1..Len(s)
    <3>1. i = n
      BY <1>1, <1>10
    <3> QED BY <1>1, <1>5, <3>1
  <2>2. \A h \in n..Len(s) : s[h] \in Part
    <3>1. \A h \in n..Len(s) : h \in 1..Len(s)
      BY <2>1
    <3> QED BY <1>1, <3>1, ElementOfSeq
  <2>3. /\ SubSeq(s, n, Len(s)) \in Seq(Part)
        /\ Len(SubSeq(s, n, Len(s))) = IF n <= Len(s) THEN Len(s) - n + 1 ELSE 0
        /\ \A h \in 1..Len(s) - n + 1 : SubSeq(s, n, Len(s))[h] = s[n + h - 1]
    BY <1>1, <2>1, <2>2, SubSeqProperties
  <2>4. ss[i] = SubSeq(s, n, Len(s))
    BY <1>9, <1>10, <2>1
  <2>5. n <= Len(s)
    BY <1>5
  <2> QED BY <2>1, <2>3, <2>4, <2>5
<1>11. ss \in [1..n -> Seq(Part)]
  <2>1. ASSUME NEW i \in 1..n PROVE ss[i] \in Seq(Part)
    <3>1. CASE q[i] \in Star
      BY <1>10, <3>1
    <3>2. CASE q[i] \notin Star
      <4>1. <<s[i]>> \in Seq(Part)
        BY <1>6
      <4> QED BY <1>8, <3>2, <4>1
    <3> QED BY <3>1, <3>2
  <2>2. ss = [i \in 1..n |-> ss[i]]
    BY <1>7 DEF ss
  <2> QED BY <2>1, <2>2
<1>12. ss \in Seq(Seq(Part)) /\ Len(ss) = n
  <2>1. ss \in Seq(Seq(Part))
    BY <1>1, <1>11, FunctionIsSeq
  <2>2. DOMAIN ss = 1..Len(ss) /\ Len(ss) \in Nat
    BY <2>1, LenProperties
  <2> QED BY <1>1, <1>7, <2>1, <2>2
<1>13. PICK g \in [0..n -> Seq(Part)] :
          g[0] = << >> /\ g[n] = FlattenSeq(ss) /\ \A i \in 1..n : g[i] = g[i - 1] \o ss[i]
  <2>1. \E g \in [0..Len(ss) -> Seq(Part)] :
           /\ g[0] = << >> /\ g[Len(ss)] = FlattenSeq(ss)
           /\ \A i \in 1..Len(ss) : g[i] = g[i - 1] \o ss[i]
    BY <1>12, FlattenSums
  <2> QED BY <1>12, <2>1
<1> DEFINE Is(k) == Len(g[k]) = k /\ \A h \in 1..k : g[k][h] = s[h]
           T == {k \in Nat : k <= n /\ (k = n /\ k # 0 => q[k] \notin Star) => Is(k)}
<1>14. 0 \in T
  BY <1>13
<1>15. ASSUME NEW k \in T PROVE k + 1 \in T
  <2>1. SUFFICES ASSUME k + 1 <= n, k + 1 = n => q[k + 1] \notin Star PROVE Is(k + 1)
    OBVIOUS
  <2>2. k \in Nat /\ k + 1 \in 1..n /\ k \in 0..n /\ (k + 1) - 1 = k /\ k # n
    BY <1>1, <2>1
  <2>3. Is(k)
    BY <2>1, <2>2
  <2>4. q[k + 1] \notin Star
    BY <1>1, <2>1, <2>2 DEF n
  <2>5. ss[k + 1] = <<s[k + 1]>> /\ s[k + 1] \in Part
    BY <1>6, <1>8, <2>2, <2>4
  <2>6. g[k] \in Seq(Part) /\ g[k + 1] = g[k] \o ss[k + 1]
    <3>1. g[k + 1] = g[(k + 1) - 1] \o ss[k + 1]
      BY <1>13, <2>2
    <3> QED BY <2>2, <3>1
  <2>7. <<s[k + 1]>> \in Seq(Part) /\ Len(<<s[k + 1]>>) = 1 /\ <<s[k + 1]>>[1] = s[k + 1]
    BY <2>5
  <2> HIDE DEF T
  <2>8. /\ Len(g[k + 1]) = k + 1
        /\ \A h \in 1..k + 1 : g[k + 1][h] = IF h <= k THEN g[k][h] ELSE <<s[k + 1]>>[h - k]
    BY <2>2, <2>3, <2>5, <2>6, <2>7, ConcatProperties
  <2>9. ASSUME NEW h \in 1..k + 1 PROVE g[k + 1][h] = s[h]
    <3>1. CASE h <= k
      <4>1. h \in 1..k
        BY <2>2, <3>1
      <4> QED BY <2>3, <2>8, <3>1, <4>1
    <3>2. CASE h = k + 1
      <4>1. h - k = 1 /\ ~(h <= k)
        BY <2>2, <3>2
      <4> QED BY <2>7, <2>8, <3>2, <4>1
    <3> QED BY <2>2, <3>1, <3>2
  <2> QED BY <2>8, <2>9
<1>16. T \in SUBSET Nat
  OBVIOUS
<1>17. T = Nat
  <2> HIDE DEF T
  <2> QED BY <1>14, <1>15, <1>16, Induct
<1>18. \A k \in Nat : k <= n /\ (k = n /\ k # 0 => q[k] \notin Star) => Is(k)
  BY <1>17
<1> HIDE DEF T
<1>19. g[n] \in Seq(Part)
  BY <1>1
<1>20. CASE n = 0 \/ q[n] \notin Star
  <2>1. Is(n)
    BY <1>1, <1>18, <1>20
  <2>2. n = Len(s)
    <3>1. n = 0 => q = << >>
      BY <1>1, EmptySeq DEF n
    <3>2. n # 0 => Last(q) = q[n]
      BY DEF Last, n
    <3> QED BY <1>5, <1>20, <3>1, <3>2
  <2>3. g[n] = s
    BY <1>1, <1>19, <2>1, <2>2, SeqEqual
  <2> QED BY <1>2, <1>13, <2>3 DEF s, params
<1>21. CASE n # 0 /\ q[n] \in Star
  <2>1. n \in 1..n /\ n - 1 \in Nat /\ n - 1 <= n /\ n - 1 # n /\ n - 1 \in 0..n
    BY <1>1, <1>21
  <2>2. Is(n - 1) /\ g[n - 1] \in Seq(Part) /\ g[n] = g[n - 1] \o ss[n]
    BY <1>13, <1>18, <2>1
  <2>3. /\ ss[n] \in Seq(Part) /\ Len(ss[n]) = Len(s) - n + 1
        /\ \A h \in 1..Len(s) - n + 1 : ss[n][h] = s[n + h - 1]
    BY <1>10, <1>21, <2>1
  <2> DEFINE a == g[n - 1]
             b == ss[n]
  <2> HIDE DEF a, b, Is
  <2>4. a \in Seq(Part) /\ b \in Seq(Part) /\ g[n] = a \o b
    BY <2>2, <2>3 DEF a, b
  <2>5. Len(a) = n - 1 /\ Len(b) = Len(s) - n + 1
    BY <2>2, <2>3 DEF a, b, Is
  <2>6. Len(g[n]) = Len(s) /\ \A h \in 1..Len(s) : g[n][h] = IF h <= n - 1 THEN a[h] ELSE b[h - (n - 1)]
    <3>1. /\ Len(a \o b) = Len(a) + Len(b)
          /\ \A h \in 1..Len(a) + Len(b) : (a \o b)[h] = IF h <= Len(a) THEN a[h] ELSE b[h - Len(a)]
      BY <2>4, ConcatProperties
    <3>2. Len(a) + Len(b) = Len(s)
      BY <1>1, <2>5
    <3> QED BY <2>4, <2>5, <3>1, <3>2
  <2>7. ASSUME NEW h \in 1..Len(s) PROVE g[n][h] = s[h]
    <3>1. CASE h <= n - 1
      <4>1. h \in 1..n - 1
        BY <1>1, <3>1
      <4> QED BY <2>2, <2>6, <3>1, <4>1 DEF a, Is
    <3>2. CASE ~(h <= n - 1)
      <4>1. h - (n - 1) \in 1..Len(s) - n + 1 /\ n + (h - (n - 1)) - 1 = h
        BY <1>1, <3>2
      <4> DEFINE e == h - (n - 1)
      <4> HIDE DEF e
      <4>2. b[e] = s[n + e - 1]
        BY <2>3, <4>1 DEF e, b
      <4> QED BY <2>6, <3>2, <4>1, <4>2 DEF e
    <3> QED BY <3>1, <3>2
  <2>8. g[n] = s
    BY <1>1, <1>19, <2>6, <2>7, SeqEqual
  <2> QED BY <1>2, <1>13, <2>8 DEF s, params
<1> QED BY <1>20, <1>21

-----------------------------------------------------------------------------
(* On day 3: every route has a way of its own *)

\* On day 3: the node k parts down from child i of the root.
Branch(i, k) == [h \in 1..k |-> IF h = 1 THEN i ELSE 1]

\* The nodes below a child of the root are as deep as they say, and no two are the same.
LEMMA BranchIs ==
    ASSUME NEW i \in Index, NEW k \in Index
    PROVE  /\ Branch(i, k) \in Seq(Index) /\ Len(Branch(i, k)) = k /\ Branch(i, k) # << >>
           /\ Append(Branch(i, k), 1) = Branch(i, k + 1)
           /\ Branch(i, 1) = Append(<< >>, i)
           /\ \A j \in Index, h \in Index : Branch(i, k) = Branch(j, h) => i = j /\ k = h
<1>1. ASSUME NEW j \in Index, NEW h \in Index
      PROVE  /\ Branch(j, h) \in Seq(Index) /\ Len(Branch(j, h)) = h
             /\ Branch(j, h)[1] = j /\ Branch(j, h) # << >>
  <2>1. h \in Nat /\ 1 \in 1..h /\ h # 0
    BY DEF Index
  <2>2. Branch(j, h) \in [1..h -> Index]
    BY DEF Branch, Index
  <2>3. Branch(j, h)[1] = j
    BY <2>1 DEF Branch
  <2>4. Branch(j, h) \in Seq(Index)
    BY <2>1, <2>2, FunctionIsSeq
  <2>5. Len(Branch(j, h)) = h
    <3>1. DOMAIN Branch(j, h) = 1..h
      BY DEF Branch
    <3> QED BY <2>1, <2>4, <3>1, LenProperties
  <2>6. Branch(j, h) # << >>
    BY <2>1, <2>5
  <2> QED BY <2>3, <2>4, <2>5, <2>6
<1>2. k \in Nat /\ k # 0 /\ 1 \in Index /\ k + 1 \in Index
  BY DEF Index
<1>3. Append(Branch(i, k), 1) = Branch(i, k + 1)
  <2> DEFINE a == Append(Branch(i, k), 1)
             b == Branch(i, k + 1)
  <2>1. /\ a \in Seq(Index) /\ Len(a) = k + 1 /\ a[k + 1] = 1
        /\ \A h \in 1..k : a[h] = Branch(i, k)[h]
    <3> DEFINE v == Branch(i, k)
    <3>1. v \in Seq(Index) /\ Len(v) = k
      BY <1>1
    <3> HIDE DEF v
    <3>2. /\ Append(v, 1) \in Seq(Index) /\ Len(Append(v, 1)) = k + 1 /\ Append(v, 1)[k + 1] = 1
          /\ \A h \in 1..k : Append(v, 1)[h] = v[h]
      BY <1>2, <3>1, AppendProperties
    <3> QED BY <3>2 DEF v
  <2>2. b \in Seq(Index) /\ Len(b) = k + 1
    BY <1>1, <1>2
  <2>3. ASSUME NEW h \in 1..k + 1 PROVE b[h] = IF h = 1 THEN i ELSE 1
    BY DEF Branch
  <2>4. ASSUME NEW h \in 1..k PROVE Branch(i, k)[h] = IF h = 1 THEN i ELSE 1
    BY DEF Branch
  <2> HIDE DEF a, b
  <2>5. ASSUME NEW h \in 1..k + 1 PROVE a[h] = b[h]
    <3>1. CASE h = k + 1
      <4>1. h # 1
        BY <1>2, <3>1
      <4> QED BY <2>1, <2>3, <3>1, <4>1
    <3>2. CASE h # k + 1
      <4>1. h \in 1..k
        BY <1>2, <3>2
      <4> QED BY <2>1, <2>3, <2>4, <4>1
    <3> QED BY <3>1, <3>2
  <2>6. a = b
    BY <2>1, <2>2, <2>5, SeqEqual
  <2> QED BY <2>6 DEF a, b
<1>4. Branch(i, 1) = Append(<< >>, i)
  <2>1. Branch(i, 1) \in Seq(Index) /\ Len(Branch(i, 1)) = 1 /\ Branch(i, 1)[1] = i
    BY <1>1, <1>2
  <2>2. Append(<< >>, i) \in Seq(Index) /\ Len(Append(<< >>, i)) = 1 /\ Append(<< >>, i)[1] = i
    OBVIOUS
  <2>3. \A h \in 1..1 : Branch(i, 1)[h] = Append(<< >>, i)[h]
    BY <2>1, <2>2
  <2> QED BY <2>1, <2>2, <2>3, SeqEqual
<1>5. \A j \in Index, h \in Index : Branch(i, k) = Branch(j, h) => i = j /\ k = h
  <2> TAKE j \in Index, h \in Index
  <2>1. Branch(i, k)[1] = i /\ Branch(j, h)[1] = j /\ Len(Branch(i, k)) = k /\ Len(Branch(j, h)) = h
    BY <1>1
  <2> QED BY <2>1
<1> QED BY <1>1, <1>3, <1>4, <1>5

\* Child i of the root leads to route j, and only to it, or to none.
Leads(c, pt, rs, i, j) ==
    \/ /\ j = 0 /\ Branch(i, 1) \in DOMAIN c
       /\ c[Branch(i, 1)] = << >> /\ pt[Branch(i, 1)] = NoRoute
    \/ /\ j # 0 /\ Len(Of(rs, j)) # 0 /\ c[<< >>][i] = Of(rs, j)[1]
       /\ \A k \in 1..Len(Of(rs, j)) :
             /\ Branch(i, k) \in DOMAIN c
             /\ k # Len(Of(rs, j)) =>
                   c[Branch(i, k)] = <<Of(rs, j)[k + 1]>> /\ pt[Branch(i, k)] = NoRoute
             /\ k = Len(Of(rs, j)) => c[Branch(i, k)] = << >> /\ pt[Branch(i, k)] = rs[j]

\* Every route has a child of the root to itself, in order.
Copied(c, pt, rs, own) ==
    LET root == 1..Len(c[<< >>])
    IN /\ own \in [root -> 0..Len(rs)]
       /\ \A i \in root : Leads(c, pt, rs, i, own[i])
       /\ \A j \in 1..Len(rs) : Len(Of(rs, j)) # 0 => \E i \in root : own[i] = j
       /\ \A i \in root : \A h \in root : i < h /\ own[i] # 0 /\ own[h] # 0 => own[i] < own[h]
       /\ \/ pt[<< >>] = NoRoute /\ \A j \in 1..Len(rs) : Len(Of(rs, j)) # 0
          \/ \E j \in 1..Len(rs) : Len(Of(rs, j)) = 0 /\ pt[<< >>] = rs[j]

\* There are no children at first.
LEMMA FirstCopied ==
    ASSUME RouterInit
    PROVE  \E own : Copied(children, pattern, routes, own)
<1> DEFINE own == [i \in 1..Len(children[<< >>]) |-> 0]
<1>1. /\ children = [n \in {<< >>} |-> << >>] /\ pattern = [n \in {<< >>} |-> NoRoute]
      /\ routes = << >>
  BY DEF RouterInit
<1>2. pattern[<< >>] = NoRoute /\ 1..Len(routes) = {} /\ 1..Len(children[<< >>]) = {} /\ Len(routes) = 0
  BY <1>1
<1>3. own \in [1..Len(children[<< >>]) -> 0..Len(routes)]
  BY <1>2
<1> HIDE DEF own
<1>4. Copied(children, pattern, routes, own)
  BY <1>2, <1>3 DEF Copied
<1> QED BY <1>4

\* t is the trie of insert after the first k parts, with x children of the root.
Below3(t, parts, k, x, more) ==
    LET len == Len(children[<< >>])
    IN /\ Trie(t) /\ Extends(t, children, pattern)
       /\ t.at = Branch(x, k) /\ x = len + Len(more)
       /\ t.children[<< >>] = children[<< >>] \o more
       /\ \A n \in DOMAIN children \ {<< >>} : t.children[n] = children[n]
       /\ \A i \in len + 1..x - 1 : /\ Branch(i, 1) \in DOMAIN t.children \ DOMAIN children
                                    /\ t.children[Branch(i, 1)] = << >>
       /\ \A h \in 1..k : /\ Branch(x, h) \in DOMAIN t.children \ DOMAIN children
                          /\ t.children[Branch(x, h)] = IF h = k THEN << >> ELSE <<parts[h + 1]>>

\* The first part of a route makes copies of it at the root,
LEMMA First3 ==
    ASSUME Sound, NEW parts \in Seq(Part), Len(parts) # 0,
           NEW t, t = [at |-> << >>, children |-> children, pattern |-> pattern]
    PROVE  \E more \in Seq({parts[1]}) :
              /\ Len(more) # 0
              /\ Below3(Descend3(t, parts[1]), parts, 1, Len(children[<< >>]) + Len(more), more)
<1> DEFINE part == parts[1]
           d == Descend3(t, part)
           len == Len(children[<< >>])
<1>1. t.at = << >> /\ t.children = children /\ t.pattern = pattern
      /\ t = [at |-> t.at, children |-> t.children, pattern |-> t.pattern]
  OBVIOUS
<1>2. Trie(t)
  BY <1>1 DEF Trie, Sound, Shape
<1>3. part \in Part
  <2>1. 1 \in 1..Len(parts)
    BY LenProperties
  <2> QED BY <2>1, ElementOfSeq
<1>4. PICK more \in Seq({part}) :
         /\ Trie(d) /\ Extends(d, t.children, t.pattern)
         /\ Len(more) # 0 /\ Grows(d, t, more)
  <2> HIDE DEF part
  <2>1. Trie(d) /\ Extends(d, t.children, t.pattern) /\ Copies(d, t, part)
    BY <1>2, <1>3, Descend3Keeps
  <2> QED BY <2>1 DEF Copies
<1> HIDE DEF d, part
<1>5. /\ len \in Nat /\ << >> \in DOMAIN children /\ Len(more) \in Nat
  BY LenProperties DEF Sound, Shape
<1> DEFINE x == len + Len(more)
           fresh == {Append(<< >>, i) : i \in len + 1..x}
<1>6. /\ d.at = Append(<< >>, x) /\ DOMAIN d.children = fresh \cup DOMAIN children
      /\ fresh \cap DOMAIN children = {}
      /\ d.children[<< >>] = children[<< >>] \o more
      /\ \A n \in DOMAIN children : n # << >> => d.children[n] = children[n]
      /\ \A n \in fresh : d.children[n] = << >>
  BY <1>1, <1>4 DEF Grows
<1>7. ASSUME NEW i \in len + 1..x PROVE Branch(i, 1) = Append(<< >>, i) /\ Append(<< >>, i) \in fresh
  <2>1. i \in Index /\ 1 \in Index
    BY <1>5 DEF Index
  <2>2. Branch(i, 1) = Append(<< >>, i)
    BY <2>1, BranchIs
  <2> QED BY <2>2
<1> HIDE DEF fresh
<1>8. x \in len + 1..x /\ \A i \in len + 1..x - 1 : i \in len + 1..x
  BY <1>4, <1>5
<1> HIDE DEF x
<1>9. \A h \in 1..1 : h = 1
  OBVIOUS
<1>10. Below3(d, parts, 1, x, more)
  <2>1. x = Len(children[<< >>]) + Len(more)
    BY DEF x
  <2>2. /\ d.at = Branch(x, 1) /\ Branch(x, 1) \in DOMAIN d.children \ DOMAIN children
        /\ d.children[Branch(x, 1)] = << >>
    BY <1>6, <1>7, <1>8
  <2>3. \A i \in len + 1..x - 1 : /\ Branch(i, 1) \in DOMAIN d.children \ DOMAIN children
                                 /\ d.children[Branch(i, 1)] = << >>
    BY <1>6, <1>7, <1>8
  <2> QED BY <1>1, <1>4, <1>6, <1>9, <2>1, <2>2, <2>3 DEF Below3
<1> QED BY <1>4, <1>10 DEF d, part, x

\* and the next one goes below the last copy.
LEMMA Next3 ==
    ASSUME Sound, NEW parts \in Seq(Part), NEW k \in Index, k + 1 <= Len(parts),
           NEW more \in Seq(Part), NEW x \in Index, NEW t, Below3(t, parts, k, x, more)
    PROVE  Below3(Descend3(t, parts[k + 1]), parts, k + 1, x, more)
<1> DEFINE part == parts[k + 1]
           d == Descend3(t, part)
           len == Len(children[<< >>])
           at == Branch(x, k)
           new == Branch(x, k + 1)
<1>1. Trie(t) /\ Extends(t, children, pattern) /\ t.at = at
  BY DEF Below3
<1>2. k \in Nat /\ k # 0 /\ k + 1 \in Index /\ k \in 1..k
  BY DEF Index
<1>3. part \in Part
  <2>1. k + 1 \in 1..Len(parts)
    BY <1>2, LenProperties
  <2> QED BY <2>1, ElementOfSeq
<1>4. t.children[at] = << >> /\ at \in DOMAIN t.children /\ at \notin DOMAIN children
  BY <1>2 DEF Below3
<1>5. /\ Trie(d) /\ Extends(d, t.children, t.pattern) /\ Grows(d, t, <<part>>)
  <2> HIDE DEF part, at
  <2>1. /\ Trie(d) /\ Extends(d, t.children, t.pattern)
        /\ Copies(d, t, part)
    BY <1>1, <1>3, Descend3Keeps
  <2> QED BY <1>1, <1>4, <2>1 DEF Copies
<1>6. Extends(d, children, pattern)
  BY <1>1, <1>5, ExtendsTransitive DEF Sound
<1>7. Append(at, 1) = new /\ new # << >> /\ at # << >>
  BY <1>2, BranchIs
<1> HIDE DEF d, part
<1>8. /\ d.at = new /\ DOMAIN d.children = DOMAIN t.children \cup {new}
      /\ new \notin DOMAIN t.children
      /\ d.children[at] = <<part>> /\ d.children[new] = << >>
      /\ \A n \in DOMAIN t.children : n # at => d.children[n] = t.children[n]
  <2> DEFINE fresh == {Append(at, i) : i \in 0 + 1..0 + 1}
  <2>1. Len(t.children[t.at]) = 0 /\ Len(<<part>>) = 1 /\ << >> \o <<part>> = <<part>>
    BY <1>1, <1>4
  <2>2. /\ d.at = Append(at, 0 + 1) /\ DOMAIN d.children = fresh \cup DOMAIN t.children
        /\ fresh \cap DOMAIN t.children = {}
        /\ d.children[at] = <<part>>
        /\ \A n \in DOMAIN t.children : n # at => d.children[n] = t.children[n]
        /\ \A n \in fresh : d.children[n] = << >>
    <3> DEFINE freshT == {Append(t.at, i) :
                             i \in Len(t.children[t.at]) + 1..Len(t.children[t.at]) + Len(<<part>>)}
    <3>1. /\ d.at = Append(t.at, Len(t.children[t.at]) + Len(<<part>>))
          /\ DOMAIN d.children = freshT \cup DOMAIN t.children
          /\ freshT \cap DOMAIN t.children = {}
          /\ d.children[t.at] = t.children[t.at] \o <<part>>
          /\ \A n \in DOMAIN t.children : n # t.at => d.children[n] = t.children[n]
          /\ \A n \in freshT : d.children[n] = << >>
      BY <1>5 DEF Grows
    <3>2. freshT = fresh
      BY <1>1, <2>1
    <3> HIDE DEF at, freshT, fresh
    <3> QED BY <1>1, <1>4, <2>1, <3>1, <3>2
  <2>3. fresh = {new} /\ 0 + 1 = 1
    <3>1. 0 + 1 = 1 /\ 1..1 = {1}
      OBVIOUS
    <3>2. fresh = {Append(at, 1)}
      <4> HIDE DEF at
      <4> QED BY <3>1
    <3> HIDE DEF fresh
    <3> QED BY <1>7, <3>1, <3>2
  <2> HIDE DEF fresh, at, new
  <2> QED BY <1>7, <2>2, <2>3
<1>9. /\ t.at = Branch(x, k) /\ x = len + Len(more)
      /\ t.children[<< >>] = children[<< >>] \o more
      /\ \A n \in DOMAIN children \ {<< >>} : t.children[n] = children[n]
      /\ \A i \in len + 1..x - 1 : /\ Branch(i, 1) \in DOMAIN t.children \ DOMAIN children
                                   /\ t.children[Branch(i, 1)] = << >>
      /\ \A h \in 1..k : /\ Branch(x, h) \in DOMAIN t.children \ DOMAIN children
                         /\ t.children[Branch(x, h)] = IF h = k THEN << >> ELSE <<parts[h + 1]>>
  BY DEF Below3
<1>10. << >> \in DOMAIN children /\ DOMAIN children \subseteq DOMAIN t.children /\ len \in Nat
  BY <1>1, LenProperties DEF Sound, Shape, Extends
<1>11. d.children[<< >>] = children[<< >>] \o more
  BY <1>7, <1>8, <1>9, <1>10
<1>12. \A n \in DOMAIN children \ {<< >>} : d.children[n] = children[n]
  BY <1>4, <1>8, <1>9, <1>10
<1>13. ASSUME NEW i \in len + 1..x - 1
       PROVE  Branch(i, 1) \in DOMAIN d.children \ DOMAIN children /\ d.children[Branch(i, 1)] = << >>
  <2>1. Branch(i, 1) # at
    <3>1. i \in Index /\ 1 \in Index /\ i # x
      BY <1>10 DEF Index
    <3> QED BY <3>1, BranchIs
  <2> QED BY <1>8, <1>9, <2>1
<1>14. ASSUME NEW h \in 1..k + 1
       PROVE  /\ Branch(x, h) \in DOMAIN d.children \ DOMAIN children
              /\ d.children[Branch(x, h)] = IF h = k + 1 THEN << >> ELSE <<parts[h + 1]>>
  <2>1. CASE h = k + 1
    <3>1. new \notin DOMAIN children
      BY <1>8, <1>10
    <3> QED BY <1>8, <2>1, <3>1
  <2>2. CASE h = k
    <3>1. h # k + 1
      BY <1>2, <2>2
    <3> QED BY <1>4, <1>8, <2>2, <3>1 DEF part
  <2>3. CASE h # k /\ h # k + 1
    <3>1. h \in 1..k /\ h \in Index
      BY <1>2, <2>3 DEF Index
    <3>2. Branch(x, h) # at
      BY <2>3, <3>1, BranchIs
    <3> QED BY <1>8, <1>9, <2>3, <3>1, <3>2
  <2> QED BY <2>1, <2>2, <2>3
<1>15. Below3(d, parts, k + 1, x, more)
  BY <1>5, <1>6, <1>8, <1>9, <1>11, <1>12, <1>13, <1>14 DEF Below3
<1> QED BY <1>15 DEF d, part

\* On day 3 insert makes a way of its own for the parts.
LEMMA Insert3 ==
    ASSUME Sound, NEW p \in Seq(Part), day = 3, Len(ParsePattern(p)) # 0
    PROVE  LET parts == ParsePattern(p)
           IN \E more \in Seq({parts[1]}) :
                 /\ Len(more) # 0
                 /\ Below3(Insert(p), parts, Len(parts), Len(children[<< >>]) + Len(more), more)
<1> DEFINE parts == ParsePattern(p)
           n == Len(parts)
           len == Len(children[<< >>])
<1>1. PICK f : /\ Insert(p) = f[n]
               /\ f[0] = [at |-> << >>, children |-> children, pattern |-> pattern]
               /\ \A h \in 1..n : f[h] = Descend3(f[h - 1], parts[h])
  BY InsertIs
<1>2. n \in Nat /\ n # 0 /\ parts \in Seq(Part) /\ parts[1] \in Part /\ len \in Nat
  <2>1. n \in Nat /\ parts \in Seq(Part)
    BY ParsedIs
  <2>0. n # 0
    OBVIOUS
  <2>2. parts[1] \in Part
    <3> HIDE DEF parts, n
    <3>1. 1 \in 1..n
      BY <2>0, <2>1
    <3> USE DEF n
    <3> QED BY <2>1, <3>1, ElementOfSeq
  <2> QED BY <2>0, <2>1, <2>2, LenProperties DEF Sound, Shape
<1> HIDE DEF parts
<1>3. PICK more \in Seq({parts[1]}) : Len(more) # 0 /\ Below3(f[1], parts, 1, len + Len(more), more)
  <2>1. f[1] = Descend3(f[0], parts[1])
    <3>1. 1 \in 1..n /\ 1 - 1 = 0
      BY <1>2
    <3> QED BY <1>1, <3>1
  <2> QED BY <1>1, <1>2, <2>1, First3
<1> DEFINE x == len + Len(more)
           T == {k \in Nat : k + 1 <= n => Below3(f[k + 1], parts, k + 1, x, more)}
<1> HIDE DEF n, len
<1>4. 0 \in T
  BY <1>3
<1>5. x \in Index /\ more \in Seq(Part)
  <2>1. Len(more) \in Nat
    BY LenProperties
  <2>2. x \in Index
    BY <1>2, <1>3, <2>1 DEF Index
  <2>3. more \in Seq(Part)
    <3>1. \A i \in 1..Len(more) : more[i] \in {parts[1]}
      BY ElementOfSeq
    <3>2. more \in [1..Len(more) -> Part]
      BY <1>2, <3>1, SeqDef
    <3> QED BY <2>1, <3>2, FunctionIsSeq
  <2> QED BY <2>2, <2>3
<1> HIDE DEF x
<1>6. ASSUME NEW k \in T PROVE k + 1 \in T
  <2>1. SUFFICES ASSUME k + 1 + 1 <= n PROVE Below3(f[k + 1 + 1], parts, k + 1 + 1, x, more)
    OBVIOUS
  <2> DEFINE h == k + 1
  <2>2. k \in Nat /\ h \in Index /\ h + 1 <= n /\ h + 1 \in 1..n /\ (h + 1) - 1 = h
    BY <1>2, <2>1 DEF Index
  <2>3. Below3(f[h], parts, h, x, more)
    BY <1>2, <2>1
  <2> HIDE DEF h, T
  <2>4. f[h + 1] = Descend3(f[h], parts[h + 1])
    <3>1. f[h + 1] = Descend3(f[(h + 1) - 1], parts[h + 1])
      BY <1>1, <2>2
    <3> QED BY <2>2, <3>1
  <2>5. Below3(f[h + 1], parts, h + 1, x, more)
    BY <1>2, <1>5, <2>2, <2>3, <2>4, Next3 DEF n
  <2> QED BY <2>5 DEF h
<1>7. T \in SUBSET Nat
  OBVIOUS
<1>8. T = Nat
  <2> HIDE DEF T
  <2> QED BY <1>4, <1>6, <1>7, Induct
<1>9. Below3(f[n], parts, n, x, more)
  <2>1. n - 1 \in Nat /\ (n - 1) + 1 = n /\ n <= n
    BY <1>2
  <2>2. n - 1 \in T
    BY <1>8, <2>1
  <2>3. (n - 1) + 1 <= n => Below3(f[(n - 1) + 1], parts, (n - 1) + 1, x, more)
    BY <2>2
  <2> HIDE DEF T
  <2> QED BY <2>1, <2>3
<1> QED BY <1>1, <1>3, <1>9 DEF n, parts, x, len

\* A route registered on day 3 has a child of the root to itself.
LEMMA AddCopies ==
    ASSUME Sound, routes \in Seq(Pattern), day = 3, NEW p \in Pattern, AddRoute(p),
           NEW own, Copied(children, pattern, routes, own)
    PROVE  \E new : Copied(children', pattern', routes', new)
<1> DEFINE parts == ParsePattern(p)
           n == Len(parts)
           trie == Insert(p)
           len == Len(routes)
           root == Len(children[<< >>])
<1>1. /\ children' = trie.children /\ pattern' = [trie.pattern EXCEPT ![trie.at] = p]
      /\ routes' = Append(routes, p)
  BY DEF AddRoute
<1>2. parts \in Seq(Part) /\ n \in Nat /\ p \in Seq(Part) /\ p # NoRoute
  BY PatternAssumption, ParsedIs
<1>3. /\ len \in Nat /\ Len(routes') = len + 1 /\ routes'[len + 1] = p
      /\ \A j \in 1..len : routes'[j] = routes[j]
  BY <1>1, AppendProperties, LenProperties
<1>4. Of(routes', len + 1) = parts /\ \A j \in 1..len : Of(routes', j) = Of(routes, j)
  BY <1>3 DEF Of
<1>5. /\ << >> \in DOMAIN children /\ root \in Nat
      /\ DOMAIN pattern = DOMAIN children
  BY LenProperties DEF Sound, Shape
<1> HIDE DEF parts, trie, len, root
<1>6. /\ own \in [1..root -> 0..len]
      /\ \A i \in 1..root : Leads(children, pattern, routes, i, own[i])
      /\ \A j \in 1..len : Len(Of(routes, j)) # 0 => \E i \in 1..root : own[i] = j
      /\ \A i \in 1..root : \A h \in 1..root : i < h /\ own[i] # 0 /\ own[h] # 0 => own[i] < own[h]
      /\ \/ pattern[<< >>] = NoRoute /\ \A j \in 1..len : Len(Of(routes, j)) # 0
         \/ \E j \in 1..len : Len(Of(routes, j)) = 0 /\ pattern[<< >>] = routes[j]
  BY DEF Copied, len, root
<1>7. len + 1 \in 1..len + 1 /\ \A j \in 1..len + 1 : j \in 1..len \/ j = len + 1
  BY <1>3
<1>8. \A j \in 1..len : j \in 1..len + 1 /\ j \in Nat /\ j <= len
  BY <1>3
<1>9. CASE n = 0
  <2>1. trie = [at |-> << >>, children |-> children, pattern |-> pattern]
    BY <1>2, <1>9, InsertIs DEF trie, parts
  <2>2. children' = children /\ pattern' = [pattern EXCEPT ![<< >>] = p]
    BY <1>1, <2>1
  <2>3. pattern'[<< >>] = p /\ \A m \in DOMAIN children : m # << >> => pattern'[m] = pattern[m]
    BY <1>5, <2>2
  <2>4. own \in [1..root -> 0..len + 1]
    BY <1>3, <1>6
  <2>5. ASSUME NEW i \in 1..root PROVE Leads(children', pattern', routes', i, own[i])
    <3>1. Leads(children, pattern, routes, i, own[i]) /\ own[i] \in 0..len
      BY <1>6
    <3>2. i \in Index
      BY <1>5 DEF Index
    <3>3. CASE own[i] = 0
      <4>1. Branch(i, 1) # << >>
        <5>1. 1 \in Index
          BY DEF Index
        <5> QED BY <3>2, <5>1, BranchIs
      <4> QED BY <2>2, <2>3, <3>1, <3>3, <4>1 DEF Leads
    <3>4. CASE own[i] # 0
      <4>1. own[i] \in 1..len
        BY <1>3, <3>1, <3>4
      <4> DEFINE j == own[i]
                 q == Of(routes, j)
      <4>2. Of(routes', j) = q /\ routes'[j] = routes[j] /\ q \in Seq(Part) /\ Len(q) \in Nat
        BY <1>3, <1>4, <4>1, OfIs, LenProperties DEF len
      <4>3. Len(q) # 0 /\ children[<< >>][i] = q[1]
        BY <3>1, <3>4 DEF Leads
      <4>4. ASSUME NEW k \in 1..Len(q)
            PROVE  /\ Branch(i, k) \in DOMAIN children
                   /\ k # Len(q) => children[Branch(i, k)] = <<q[k + 1]>> /\ pattern'[Branch(i, k)] = NoRoute
                   /\ k = Len(q) => children[Branch(i, k)] = << >> /\ pattern'[Branch(i, k)] = routes[j]
        <5>1. k \in Index
          BY <4>2 DEF Index
        <5>2. Branch(i, k) # << >>
          BY <3>2, <5>1, BranchIs
        <5>3. /\ Branch(i, k) \in DOMAIN children
              /\ k # Len(q) => children[Branch(i, k)] = <<q[k + 1]>> /\ pattern[Branch(i, k)] = NoRoute
              /\ k = Len(q) => children[Branch(i, k)] = << >> /\ pattern[Branch(i, k)] = routes[j]
          BY <3>1, <3>4 DEF Leads
        <5> QED BY <2>3, <5>2, <5>3
      <4>5. Leads(children', pattern', routes', i, j)
        <5> HIDE DEF q, j
        <5> QED BY <2>2, <3>4, <4>2, <4>3, <4>4 DEF Leads, j
      <4> QED BY <4>5
    <3> QED BY <3>3, <3>4
  <2>6. \A j \in 1..len + 1 : Len(Of(routes', j)) # 0 => \E i \in 1..root : own[i] = j
    BY <1>4, <1>6, <1>7, <1>9
  <2>7. \E j \in 1..len + 1 : Len(Of(routes', j)) = 0 /\ pattern'[<< >>] = routes'[j]
    BY <1>3, <1>4, <1>7, <1>9, <2>3
  <2>8. Copied(children', pattern', routes', own)
    BY <1>3, <1>6, <2>2, <2>4, <2>5, <2>6, <2>7 DEF Copied, root
  <2> QED BY <2>8
<1>10. CASE n # 0
  <2>1. PICK more \in Seq({parts[1]}) : Len(more) # 0 /\ Below3(trie, parts, n, root + Len(more), more)
    BY <1>2, <1>10, Insert3 DEF trie, parts, root
  <2> DEFINE x == root + Len(more)
             new == [i \in 1..x |-> IF i <= root THEN own[i] ELSE IF i = x THEN len + 1 ELSE 0]
  <2>2. /\ Trie(trie) /\ Extends(trie, children, pattern) /\ trie.at = Branch(x, n)
        /\ children'[<< >>] = children[<< >>] \o more
        /\ \A m \in DOMAIN children \ {<< >>} : children'[m] = children[m]
        /\ \A i \in root + 1..x - 1 : /\ Branch(i, 1) \in DOMAIN children' \ DOMAIN children
                                      /\ children'[Branch(i, 1)] = << >>
        /\ \A h \in 1..n : /\ Branch(x, h) \in DOMAIN children' \ DOMAIN children
                           /\ children'[Branch(x, h)] = IF h = n THEN << >> ELSE <<parts[h + 1]>>
    BY <1>1, <2>1 DEF Below3, root
  <2>3. /\ Len(more) \in Nat /\ x \in Nat /\ x > root /\ x \in Index /\ n \in Index /\ x \in 1..x
        /\ \A i \in 1..x : i \in 1..root \/ i \in root + 1..x - 1 \/ i = x
        /\ \A i \in 1..x : i \in Index
        /\ \A i \in 1..root : i # x /\ i \in 1..x
        /\ \A i \in root + 1..x - 1 : i # x /\ i \in Index
    <3>1. Len(more) \in Nat
      BY LenProperties
    <3> QED BY <1>2, <1>5, <1>10, <2>1, <3>1 DEF Index
  <2> HIDE DEF x
  <2>4. /\ \A i \in 1..root : new[i] = own[i]
        /\ \A i \in root + 1..x - 1 : new[i] = 0
        /\ new[x] = len + 1
    <3>1. \A i \in root + 1..x - 1 : i \in 1..x /\ ~(i <= root) /\ i # x
      BY <1>5, <2>3
    <3>2. ~(x <= root) /\ \A i \in 1..root : i <= root
      BY <1>5, <2>3
    <3> QED BY <2>3, <3>1, <3>2
  <2>5. /\ Len(children'[<< >>]) = x /\ children'[<< >>][x] = parts[1]
        /\ \A i \in 1..root : children'[<< >>][i] = children[<< >>][i]
    <3> DEFINE a == children[<< >>]
    <3>1. a \in Seq(Part) /\ more \in Seq(Part) /\ \A i \in 1..Len(more) : more[i] = parts[1]
      <4>1. parts[1] \in Part
        <5>1. 1 \in 1..n
          BY <1>2, <1>10
        <5> QED BY <1>2, <5>1, ElementOfSeq
      <4>2. \A i \in 1..Len(more) : more[i] \in {parts[1]}
        BY ElementOfSeq
      <4>3. more \in [1..Len(more) -> Part]
        BY <4>1, <4>2, SeqDef
      <4>4. more \in Seq(Part)
        BY <2>3, <4>3, FunctionIsSeq
      <4> QED BY <1>5, <4>2, <4>4 DEF Sound, Shape
    <3>2. Len(a) = root
      BY DEF root
    <3> HIDE DEF a
    <3>3. /\ Len(a \o more) = root + Len(more)
          /\ \A i \in 1..root + Len(more) : (a \o more)[i] = IF i <= root THEN a[i] ELSE more[i - root]
      BY <3>1, <3>2, ConcatProperties
    <3>4. x = root + Len(more) /\ ~(x <= root) /\ x - root = Len(more) /\ Len(more) \in 1..Len(more)
      BY <1>5, <2>3, <2>1 DEF x
    <3>5. \A i \in 1..root : i \in 1..x /\ i <= root
      BY <1>5, <2>3
    <3>6. children'[<< >>] = a \o more
      BY <2>2 DEF a
    <3> QED BY <2>3, <3>1, <3>3, <3>4, <3>5, <3>6 DEF a
  <2>6. /\ pattern'[Branch(x, n)] = p
        /\ \A m \in DOMAIN children : m # Branch(x, n) => pattern'[m] = pattern[m]
        /\ \A m \in DOMAIN children' \ DOMAIN children : m # Branch(x, n) => pattern'[m] = NoRoute
        /\ Branch(x, n) \notin DOMAIN children
        /\ DOMAIN children \subseteq DOMAIN children'
    <3>1. n \in 1..n
      BY <1>2, <1>10
    <3>2. Branch(x, n) \in DOMAIN trie.pattern /\ Branch(x, n) \notin DOMAIN children
      BY <1>1, <2>2, <3>1 DEF Trie, Shape
    <3>3. /\ pattern'[Branch(x, n)] = p
          /\ \A m \in DOMAIN trie.pattern : m # Branch(x, n) => pattern'[m] = trie.pattern[m]
      BY <1>1, <2>2, <3>2
    <3> QED BY <1>1, <1>5, <2>2, <3>2, <3>3 DEF Extends, Trie, Shape
  <2>7. new \in [1..x -> 0..len + 1]
    <3>1. ASSUME NEW i \in 1..x PROVE new[i] \in 0..len + 1
      <4>1. CASE i \in 1..root
        <5>1. new[i] \in 0..len
          BY <1>6, <2>4, <4>1
        <5> HIDE DEF new
        <5> QED BY <1>3, <5>1
      <4>2. CASE i \in root + 1..x - 1
        <5> HIDE DEF new
        <5> QED BY <1>3, <2>4, <4>2
      <4>3. CASE i = x
        BY <1>3, <2>4, <4>3
      <4> QED BY <2>3, <4>1, <4>2, <4>3
    <3> QED BY <3>1
  <2> HIDE DEF new
  <2>8. ASSUME NEW i \in 1..root PROVE Leads(children', pattern', routes', i, new[i])
    <3> DEFINE j == own[i]
               q == Of(routes, j)
    <3>1. Leads(children, pattern, routes, i, j) /\ j \in 0..len /\ new[i] = j
      BY <1>6, <2>4
    <3>2. i \in Index /\ 1 \in Index
      BY <1>5 DEF Index
    <3>3. ASSUME NEW k \in Index, Branch(i, k) \in DOMAIN children
          PROVE  /\ Branch(i, k) \in DOMAIN children'
                 /\ children'[Branch(i, k)] = children[Branch(i, k)]
                 /\ pattern'[Branch(i, k)] = pattern[Branch(i, k)]
      <4>1. Branch(i, k) # << >>
        BY <3>2, BranchIs
      <4> QED BY <2>2, <2>6, <3>3, <4>1
    <3>4. CASE j = 0
      BY <3>1, <3>2, <3>3, <3>4 DEF Leads
    <3>5. CASE j # 0
      <4>1. j \in 1..len
        BY <1>3, <3>1, <3>5
      <4>2. Of(routes', j) = q /\ routes'[j] = routes[j] /\ q \in Seq(Part) /\ Len(q) \in Nat
        BY <1>3, <1>4, <4>1, OfIs, LenProperties DEF len
      <4>3. Len(q) # 0 /\ children'[<< >>][i] = q[1]
        BY <2>5, <3>1, <3>5 DEF Leads
      <4>4. ASSUME NEW k \in 1..Len(q)
            PROVE  /\ Branch(i, k) \in DOMAIN children'
                   /\ k # Len(q) => children'[Branch(i, k)] = <<q[k + 1]>> /\ pattern'[Branch(i, k)] = NoRoute
                   /\ k = Len(q) => children'[Branch(i, k)] = << >> /\ pattern'[Branch(i, k)] = routes[j]
        <5>1. k \in Index
          BY <4>2 DEF Index
        <5>2. /\ Branch(i, k) \in DOMAIN children
              /\ k # Len(q) => children[Branch(i, k)] = <<q[k + 1]>> /\ pattern[Branch(i, k)] = NoRoute
              /\ k = Len(q) => children[Branch(i, k)] = << >> /\ pattern[Branch(i, k)] = routes[j]
          BY <3>1, <3>5 DEF Leads
        <5> QED BY <3>3, <5>1, <5>2
      <4>5. Leads(children', pattern', routes', i, j)
        <5> HIDE DEF q, j
        <5> QED BY <3>5, <4>2, <4>3, <4>4 DEF Leads, j
      <4> QED BY <3>1, <4>5
    <3> QED BY <3>4, <3>5
  <2>9. ASSUME NEW i \in root + 1..x - 1 PROVE Leads(children', pattern', routes', i, new[i])
    <3>1. Branch(i, 1) # Branch(x, n)
      <4>1. 1 \in Index
        BY DEF Index
      <4> QED BY <2>3, <4>1, BranchIs
    <3> QED BY <2>2, <2>4, <2>6, <3>1 DEF Leads
  <2>10. Leads(children', pattern', routes', x, new[x])
    <3>1. new[x] = len + 1 /\ len + 1 # 0
      BY <1>3, <2>4
    <3>2. ASSUME NEW k \in 1..n
          PROVE  /\ Branch(x, k) \in DOMAIN children'
                 /\ k # n => children'[Branch(x, k)] = <<parts[k + 1]>> /\ pattern'[Branch(x, k)] = NoRoute
                 /\ k = n => children'[Branch(x, k)] = << >> /\ pattern'[Branch(x, k)] = p
      <4>1. k \in Index
        BY <1>2 DEF Index
      <4>2. k # n => Branch(x, k) # Branch(x, n)
        BY <2>3, <4>1, BranchIs
      <4> QED BY <2>2, <2>6, <4>2
    <3> QED BY <1>3, <1>4, <1>10, <2>5, <3>1, <3>2 DEF Leads
  <2>11. \A i \in 1..x : Leads(children', pattern', routes', i, new[i])
    BY <2>3, <2>8, <2>9, <2>10
  <2>12. \A j \in 1..len + 1 : Len(Of(routes', j)) # 0 => \E i \in 1..x : new[i] = j
    BY <1>4, <1>6, <1>7, <2>3, <2>4
  <2>13. ASSUME NEW i \in 1..x, NEW h \in 1..x, i < h, new[i] # 0, new[h] # 0 PROVE new[i] < new[h]
    <3>1. (i \in 1..root \/ i = x) /\ (h \in 1..root \/ h = x)
      BY <2>3, <2>4, <2>13
    <3>2. i \in 1..root
      BY <1>5, <2>3, <2>13, <3>1
    <3>3. new[i] \in 0..len /\ new[i] = own[i]
      BY <1>6, <2>4, <3>2
    <3>4. CASE h \in 1..root
      BY <1>6, <2>4, <2>13, <3>2, <3>4
    <3>5. CASE h = x
      <4>1. new[h] = len + 1
        BY <2>4, <3>5
      <4> QED BY <1>3, <3>3, <4>1
    <3> QED BY <3>1, <3>4, <3>5
  <2>14. \/ pattern'[<< >>] = NoRoute /\ \A j \in 1..len + 1 : Len(Of(routes', j)) # 0
         \/ \E j \in 1..len + 1 : Len(Of(routes', j)) = 0 /\ pattern'[<< >>] = routes'[j]
    <3>1. pattern'[<< >>] = pattern[<< >>]
      BY <1>5, <2>3, <2>6, BranchIs
    <3>2. CASE pattern[<< >>] = NoRoute /\ \A j \in 1..len : Len(Of(routes, j)) # 0
      <4>1. \A j \in 1..len + 1 : Len(Of(routes', j)) # 0
        BY <1>4, <1>7, <1>10, <3>2
      <4> QED BY <3>1, <3>2, <4>1
    <3>3. CASE \E j \in 1..len : Len(Of(routes, j)) = 0 /\ pattern[<< >>] = routes[j]
      <4>1. PICK j \in 1..len : Len(Of(routes, j)) = 0 /\ pattern[<< >>] = routes[j]
        BY <3>3
      <4>2. j \in 1..len + 1 /\ Len(Of(routes', j)) = 0 /\ pattern'[<< >>] = routes'[j]
        BY <1>3, <1>4, <1>8, <3>1, <4>1
      <4> QED BY <4>2
    <3> QED BY <1>6, <3>2, <3>3
  <2>15. Copied(children', pattern', routes', new)
    BY <1>3, <2>5, <2>7, <2>11, <2>12, <2>13, <2>14 DEF Copied
  <2> QED BY <2>15
<1> QED BY <1>9, <1>10

-----------------------------------------------------------------------------
(* On day 3: search finds the first route *)

\* The parts below a child of the root are those of its route.
LEMMA BranchPart ==
    ASSUME Sound, routes \in Seq(Pattern), NEW i \in Index, NEW j \in 1..Len(routes),
           Leads(children, pattern, routes, i, j), NEW k \in 1..Len(Of(routes, j))
    PROVE  PartOf(Branch(i, k)) = Of(routes, j)[k]
<1> DEFINE q == Of(routes, j)
<1>1. q \in Seq(Part) /\ Len(q) \in Nat /\ j # 0
  BY OfIs, LenProperties
<1>2. /\ children[<< >>][i] = q[1]
      /\ \A h \in 1..Len(q) : h # Len(q) => children[Branch(i, h)] = <<q[h + 1]>>
  BY <1>1 DEF Leads
<1> HIDE DEF q
<1>3. CASE k = 1
  <2>1. Branch(i, 1) = Append(<< >>, i) /\ << >> \in Seq(Index)
    <3>1. 1 \in Index
      BY DEF Index
    <3> QED BY <3>1, BranchIs
  <2>2. Front(Append(<< >>, i)) = << >> /\ Last(Append(<< >>, i)) = i
    BY <2>1, ChildIs
  <2> QED BY <1>2, <1>3, <2>1, <2>2 DEF PartOf, q
<1>4. CASE k # 1
  <2> DEFINE h == k - 1
  <2>1. h \in Index /\ h + 1 = k /\ h \in 1..Len(q) /\ h # Len(q) /\ 1 \in Index
    BY <1>1, <1>4 DEF Index, q
  <2> HIDE DEF h
  <2>2. Branch(i, k) = Append(Branch(i, h), 1) /\ Branch(i, h) \in Seq(Index)
    BY <2>1, BranchIs
  <2>3. Front(Append(Branch(i, h), 1)) = Branch(i, h) /\ Last(Append(Branch(i, h), 1)) = 1
    BY <2>1, <2>2, ChildIs
  <2>4. children[Branch(i, h)] = <<q[k]>>
    BY <1>2, <2>1
  <2> QED BY <2>2, <2>3, <2>4 DEF PartOf, q
<1> QED BY <1>3, <1>4

\* A child that leads to a route finds it, for its instances and no others.
LEMMA BranchFinds ==
    ASSUME Sound, routes \in Seq(Pattern), NEW i \in Index, NEW j \in 1..Len(routes),
           Leads(children, pattern, routes, i, j),
           NEW parts \in Seq(Part), NEW f, Finds(f, parts), parts # << >>,
           Matches(Of(routes, j)[1], parts[1])
    PROVE  f[Branch(i, 1)] = IF Instance(Of(routes, j), parts) THEN routes[j] ELSE NoRoute
<1> DEFINE q == Of(routes, j)
           L == Len(parts)
           n == Len(q)
           r == IF Instance(q, parts) THEN routes[j] ELSE NoRoute
           Fit(k) == \A h \in 1..k : Matches(q[h], parts[h])
           Good(k) == k <= L /\ Fit(k) => f[Branch(i, k)] = r
           T == {d \in Nat : \A k \in 1..n : k + d >= n => Good(k)}
<1>1. /\ q \in Seq(Part) /\ n \in Nat /\ DOMAIN q = 1..n /\ j # 0 /\ n # 0 /\ L \in Nat /\ L # 0
      /\ \A k \in 1..n : q[k] \in Star => k = n
  <2>1. q \in Seq(Part) /\ L \in Nat /\ L # 0
    BY OfIs, LenProperties, EmptySeq
  <2>2. j # 0 /\ n # 0
    BY DEF Leads
  <2>3. \A k \in 1..n : q[k] \in Star => k = n
    BY StarIsLast
  <2> QED BY <2>1, <2>2, <2>3, LenProperties
<1>2. /\ \A k \in 1..n : Branch(i, k) \in DOMAIN children
      /\ \A k \in 1..n : k # n => children[Branch(i, k)] = <<q[k + 1]>> /\ pattern[Branch(i, k)] = NoRoute
      /\ children[Branch(i, n)] = << >> /\ pattern[Branch(i, n)] = routes[j]
  <2>1. n \in 1..n
    <3> HIDE DEF n
    <3> QED BY <1>1
  <2> QED BY <1>1, <2>1 DEF Leads
<1>3. \A k \in 1..n : PartOf(Branch(i, k)) = q[k]
  BY BranchPart
<1>4. Instance(q, parts) <=> /\ n <= L
                             /\ n = L \/ q[n] \in Star
                             /\ Fit(n)
  <2>1. q # << >> /\ Last(q) = q[n]
    <3>1. q # << >>
      <4>1. Len(q) # 0
        BY <1>1
      <4> HIDE DEF q
      <4> QED BY <4>1
    <3> QED BY <3>1 DEF Last
  <2> QED BY <1>1, <2>1 DEF Instance
<1>5. Matches(q[1], parts[1])
  OBVIOUS
<1> HIDE DEF q, n, L
<1>6. ASSUME NEW k \in 1..n
      PROVE  /\ k \in Index /\ Len(Branch(i, k)) = k /\ Branch(i, k) # << >>
             /\ Append(Branch(i, k), 1) = Branch(i, k + 1)
  <2>1. k \in Index
    BY <1>1 DEF Index
  <2> QED BY <2>1, BranchIs
<1>7. \A k \in 1..n : Ends(Branch(i, k), parts) <=> k = L \/ q[k] \in Star
  BY <1>3, <1>6 DEF Ends, L
<1>8. \A k \in 1..n : k <= L => Branch(i, k) \in Upto(L)
  BY <1>2, <1>6 DEF Upto
<1>9. ASSUME NEW k \in 1..n, k <= L, Fit(k), k = L \/ q[k] \in Star PROVE f[Branch(i, k)] = r
  <2>1. f[Branch(i, k)] = pattern[Branch(i, k)]
    BY <1>7, <1>8, <1>9 DEF Finds, L
  <2>2. CASE k = n
    BY <1>2, <1>4, <1>9, <2>1, <2>2
  <2>3. CASE k # n
    <3>1. k = L /\ pattern[Branch(i, k)] = NoRoute
      BY <1>1, <1>2, <1>9, <2>3
    <3>2. ~(n <= L)
      BY <1>1, <2>3, <3>1
    <3> QED BY <1>4, <2>1, <3>1, <3>2
  <2> QED BY <2>2, <2>3
<1>10. ASSUME NEW k \in 1..n, k <= L, Fit(k), k # L, q[k] \notin Star, k = n PROVE f[Branch(i, k)] = r
  <2>1. Hits(f, Branch(i, k), parts) = {}
    BY <1>2, <1>10 DEF Hits, MatchChildren
  <2>2. f[Branch(i, k)] = NoRoute
    BY <1>7, <1>8, <1>10, <2>1 DEF Finds, L
  <2> QED BY <1>4, <1>10, <2>2
<1>11. ASSUME NEW k \in 1..n, k <= L, Fit(k), k # L, q[k] \notin Star, k # n, Good(k + 1)
       PROVE  f[Branch(i, k)] = r
  <2>1. k + 1 \in 1..n /\ k + 1 <= L /\ k \in Nat
    BY <1>1, <1>11
  <2>2. children[Branch(i, k)] = <<q[k + 1]>> /\ Len(Branch(i, k)) = k
    BY <1>2, <1>6, <1>11
  <2>3. MatchChildren(children[Branch(i, k)], parts[k + 1]) =
           IF Matches(q[k + 1], parts[k + 1]) THEN {1} ELSE {}
    <3>1. DOMAIN <<q[k + 1]>> = {1} /\ <<q[k + 1]>>[1] = q[k + 1]
      OBVIOUS
    <3> QED BY <2>2, <3>1 DEF MatchChildren
  <2>4. Append(Branch(i, k), 1) = Branch(i, k + 1)
    BY <1>6
  <2>5. Hits(f, Branch(i, k), parts) =
           IF Matches(q[k + 1], parts[k + 1]) /\ f[Branch(i, k + 1)] # NoRoute THEN {1} ELSE {}
    BY <2>2, <2>3, <2>4 DEF Hits
  <2>6. /\ Hits(f, Branch(i, k), parts) = {} => f[Branch(i, k)] = NoRoute
        /\ Hits(f, Branch(i, k), parts) # {} =>
              \E h \in Hits(f, Branch(i, k), parts) : f[Branch(i, k)] = f[Append(Branch(i, k), h)]
    BY <1>7, <1>8, <1>11 DEF Finds, L
  <2>7. CASE Matches(q[k + 1], parts[k + 1])
    <3>1. Fit(k + 1)
      <4>1. \A h \in 1..k + 1 : h \in 1..k \/ h = k + 1
        BY <2>1
      <4> QED BY <1>11, <2>7, <4>1
    <3>2. f[Branch(i, k + 1)] = r
      BY <1>11, <2>1, <3>1
    <3>3. CASE r = NoRoute
      BY <2>5, <2>6, <3>2, <3>3
    <3>4. CASE r # NoRoute
      <4>1. Hits(f, Branch(i, k), parts) = {1}
        BY <2>5, <2>7, <3>2, <3>4
      <4> HIDE DEF r
      <4> QED BY <2>4, <2>6, <3>2, <4>1
    <3> QED BY <3>3, <3>4
  <2>8. CASE ~Matches(q[k + 1], parts[k + 1])
    <3>1. f[Branch(i, k)] = NoRoute
      BY <2>5, <2>6, <2>8
    <3>2. ~Fit(n)
      BY <2>1, <2>8
    <3> QED BY <1>4, <3>1, <3>2
  <2> QED BY <2>7, <2>8
<1> HIDE DEF r, Fit
<1>12. 0 \in T
  <2>1. ASSUME NEW k \in 1..n, k + 0 >= n PROVE Good(k)
    <3>1. k = n
      BY <1>1, <2>1
    <3> QED BY <1>9, <1>10, <3>1
  <2> QED BY <2>1
<1>13. ASSUME NEW d \in T PROVE d + 1 \in T
  <2>1. SUFFICES ASSUME NEW k \in 1..n, k + (d + 1) >= n PROVE Good(k)
    OBVIOUS
  <2>2. CASE k = n
    BY <1>9, <1>10, <2>2
  <2>3. CASE k # n
    <3>1. k + 1 \in 1..n /\ (k + 1) + d >= n
      BY <1>1, <2>1, <2>3
    <3>2. Good(k + 1)
      <4> HIDE DEF Good
      <4> QED BY <3>1
    <3> QED BY <1>9, <1>11, <2>3, <3>2
  <2> QED BY <2>2, <2>3
<1>14. T \in SUBSET Nat
  OBVIOUS
<1>15. T = Nat
  <2> HIDE DEF T
  <2> QED BY <1>12, <1>13, <1>14, Induct
<1>16. Good(1)
  <2>1. n \in T /\ 1 \in 1..n /\ 1 + n >= n
    <3>1. 1 \in 1..n /\ 1 + n >= n
      BY <1>1
    <3> HIDE DEF T
    <3> QED BY <1>1, <1>15, <3>1
  <2> HIDE DEF Good
  <2> QED BY <2>1
<1>17. Fit(1) /\ 1 <= L
  <2>1. \A h \in 1..1 : h = 1
    OBVIOUS
  <2>2. 1 <= L
    BY <1>1
  <2> QED BY <1>5, <2>1, <2>2 DEF Fit
<1> QED BY <1>16, <1>17 DEF r, q

\* A copy that leads to no route finds none.
LEMMA CopyFinds ==
    ASSUME Sound, NEW i \in Index, Leads(children, pattern, routes, i, 0),
           NEW parts \in Seq(Part), NEW f, Finds(f, parts), parts # << >>
    PROVE  f[Branch(i, 1)] = NoRoute
<1> DEFINE n == Branch(i, 1)
<1>1. n \in DOMAIN children /\ children[n] = << >> /\ pattern[n] = NoRoute
  BY DEF Leads
<1>2. Len(n) = 1 /\ Len(parts) \in Nat /\ Len(parts) # 0
  <2>1. 1 \in Index
    BY DEF Index
  <2> QED BY <2>1, BranchIs, LenProperties, EmptySeq
<1> HIDE DEF n
<1>3. n \in Upto(Len(parts))
  <2>1. 1 <= Len(parts)
    BY <1>2
  <2> QED BY <1>1, <1>2, <2>1 DEF Upto
<1>4. Hits(f, n, parts) = {}
  BY <1>1 DEF Hits, MatchChildren
<1>5. f[n] = NoRoute
  BY <1>1, <1>3, <1>4 DEF Finds
<1> QED BY <1>5 DEF n

\* On day 3 a path finds the first of its routes.
LEMMA FirstIsFound ==
    ASSUME Sound, routes \in Seq(Pattern), NEW own, Copied(children, pattern, routes, own),
           NEW parts \in Seq(Part)
    PROVE  Search(parts) = First(parts)
<1> DEFINE S == Fitting(parts)
           root == Len(children[<< >>])
           len == Len(routes)
<1>1. PICK f : Search(parts) = f[<< >>] /\ Finds(f, parts)
  BY SearchFinds
<1>2. /\ S = {j \in 1..len : Instance(Of(routes, j), parts)}
      /\ \A j \in S : routes[j] # NoRoute
  BY FittingIs
<1>3. First(parts) = IF S = {} THEN NoRoute ELSE routes[Min(S)]
  BY DEF First
<1>4. /\ len \in Nat /\ root \in Nat /\ Len(parts) \in Nat /\ << >> \in DOMAIN children
      /\ DOMAIN children[<< >>] = 1..root
  BY LenProperties DEF Sound, Shape
<1>5. S # {} => Min(S) \in S /\ \A j \in S : Min(S) <= j
  <2>1. SUFFICES ASSUME S # {} PROVE Min(S) \in S /\ \A j \in S : Min(S) <= j
    OBVIOUS
  <2>2. S \in SUBSET Nat
    BY <1>2, <1>4
  <2> HIDE DEF S
  <2>3. \E x \in S : \A y \in S : x <= y
    BY <2>1, <2>2, Least
  <2> QED BY <2>3 DEF Min
<1>6. << >> \in Upto(Len(parts)) /\ Len(<< >>) = 0
  BY <1>4, EmptySeq DEF Upto
<1> HIDE DEF S, len, root
<1>7. /\ own \in [1..root -> 0..len]
      /\ \A i \in 1..root : Leads(children, pattern, routes, i, own[i])
      /\ \A j \in 1..len : Len(Of(routes, j)) # 0 => \E i \in 1..root : own[i] = j
      /\ \A i \in 1..root : \A h \in 1..root : i < h /\ own[i] # 0 /\ own[h] # 0 => own[i] < own[h]
      /\ \/ pattern[<< >>] = NoRoute /\ \A j \in 1..len : Len(Of(routes, j)) # 0
         \/ \E j \in 1..len : Len(Of(routes, j)) = 0 /\ pattern[<< >>] = routes[j]
  BY DEF Copied, len, root
<1>8. CASE parts = << >>
  <2>1. f[<< >>] = pattern[<< >>]
    BY <1>1, <1>6, <1>8 DEF Finds, Ends
  <2>2. ASSUME NEW j \in 1..len
        PROVE  /\ j \in S <=> Len(Of(routes, j)) = 0
               /\ Len(Of(routes, j)) = 0 => routes[j] = << >>
    <3>1. routes[j] \in Seq(Part) /\ Of(routes, j) \in Seq(Part) /\ Len(Of(routes, j)) \in Nat
          /\ DOMAIN Of(routes, j) = 1..Len(Of(routes, j))
      BY OfIs, LenProperties DEF len
    <3>2. Instance(Of(routes, j), parts) <=> Len(Of(routes, j)) = 0
      BY <1>8, <3>1 DEF Instance
    <3>3. Len(Of(routes, j)) = 0 => Len(routes[j]) = 0
      BY <3>1, ParsedIs DEF Of
    <3> QED BY <1>2, <3>1, <3>2, <3>3, EmptySeq
  <2>3. CASE S = {}
    <3>1. pattern[<< >>] = NoRoute
      BY <1>7, <2>2, <2>3
    <3> QED BY <1>1, <1>3, <2>1, <2>3, <3>1
  <2>4. CASE S # {}
    <3>1. Min(S) \in S /\ Min(S) \in 1..len
      BY <1>2, <1>5, <2>4
    <3>2. routes[Min(S)] = << >> /\ Len(Of(routes, Min(S))) = 0
      BY <2>2, <3>1
    <3>3. pattern[<< >>] = << >>
      BY <1>7, <2>2, <3>1, <3>2
    <3> QED BY <1>1, <1>3, <2>1, <2>4, <3>2, <3>3
  <2> QED BY <2>3, <2>4
<1>9. CASE parts # << >>
  <2> DEFINE H == Hits(f, << >>, parts)
  <2>1. Len(parts) # 0 /\ ~Ends(<< >>, parts)
    BY <1>4, <1>6, <1>9, EmptySeq DEF Ends
  <2>2. ASSUME NEW i \in 1..root
        PROVE  i \in Index /\ Append(<< >>, i) = Branch(i, 1)
    <3>1. i \in Index /\ 1 \in Index
      BY <1>4 DEF Index
    <3> QED BY <3>1, BranchIs
  <2>3. H = {i \in 1..root : Matches(children[<< >>][i], parts[1]) /\ f[Branch(i, 1)] # NoRoute}
    <3>1. 0 + 1 = 1
      OBVIOUS
    <3>2. H = {i \in 1..root : Matches(children[<< >>][i], parts[1]) /\ f[Append(<< >>, i)] # NoRoute}
      BY <1>4, <1>6, <3>1 DEF Hits, MatchChildren
    <3> HIDE DEF H
    <3> QED BY <2>2, <3>2
  <2>4. /\ H = {} => f[<< >>] = NoRoute
        /\ H # {} => \E i \in H : f[<< >>] = f[Append(<< >>, i)] /\ \A h \in H : i <= h
    BY <1>1, <1>6, <2>1 DEF Finds
  <2> HIDE DEF H
  <2>5. ASSUME NEW i \in H
        PROVE  /\ i \in 1..root /\ own[i] \in S /\ own[i] # 0
               /\ f[Append(<< >>, i)] = routes[own[i]]
    <3>1. i \in 1..root /\ Matches(children[<< >>][i], parts[1]) /\ f[Branch(i, 1)] # NoRoute
      BY <2>3
    <3>2. Leads(children, pattern, routes, i, own[i]) /\ own[i] \in 0..len /\ i \in Index
      BY <1>7, <2>2, <3>1
    <3>3. own[i] # 0
      BY <1>1, <1>9, <3>1, <3>2, CopyFinds
    <3>4. own[i] \in 1..Len(routes)
      BY <1>4, <3>2, <3>3 DEF len
    <3>5. Matches(Of(routes, own[i])[1], parts[1])
      BY <3>1, <3>2, <3>3 DEF Leads
    <3>6. f[Branch(i, 1)] = IF Instance(Of(routes, own[i]), parts) THEN routes[own[i]] ELSE NoRoute
      BY <1>1, <1>9, <3>2, <3>4, <3>5, BranchFinds
    <3> QED BY <1>2, <2>2, <3>1, <3>3, <3>4, <3>6 DEF len
  <2>6. ASSUME NEW j \in S PROVE \E i \in H : own[i] = j
    <3> DEFINE q == Of(routes, j)
    <3>1. j \in 1..len /\ Instance(q, parts) /\ routes[j] # NoRoute
      BY <1>2
    <3>2. q \in Seq(Part) /\ Len(q) \in Nat /\ DOMAIN q = 1..Len(q)
      BY <3>1, OfIs, LenProperties DEF len
    <3> HIDE DEF q
    <3>3. Len(q) # 0
      <4>1. Len(q) = Len(parts) \/ q # << >>
        BY <3>1 DEF Instance
      <4> QED BY <2>1, <3>2, <4>1, EmptySeq
    <3>4. PICK i \in 1..root : own[i] = j
      BY <1>7, <3>1, <3>3 DEF q
    <3>5. Leads(children, pattern, routes, i, j) /\ j # 0 /\ i \in Index /\ j \in 1..Len(routes)
      BY <1>4, <1>7, <2>2, <3>1, <3>4 DEF len
    <3>6. Matches(q[1], parts[1]) /\ children[<< >>][i] = q[1]
      <4>1. 1 \in DOMAIN q
        BY <3>2, <3>3
      <4>2. Matches(q[1], parts[1])
        BY <3>1, <4>1 DEF Instance
      <4> QED BY <3>5, <4>2 DEF Leads, q
    <3>7. f[Branch(i, 1)] = routes[j]
      BY <1>1, <1>9, <3>1, <3>5, <3>6, BranchFinds DEF q
    <3> QED BY <2>3, <3>1, <3>4, <3>6, <3>7
  <2>7. CASE H = {}
    <3>1. S = {}
      BY <2>6, <2>7
    <3> QED BY <1>1, <1>3, <2>4, <2>7, <3>1
  <2>8. CASE H # {}
    <3>1. PICK i \in H : f[<< >>] = f[Append(<< >>, i)] /\ \A h \in H : i <= h
      BY <2>4, <2>8
    <3>2. i \in 1..root /\ own[i] \in S /\ own[i] # 0 /\ f[<< >>] = routes[own[i]]
      BY <2>5, <3>1
    <3>3. \A j \in S : own[i] <= j
      <4>1. ASSUME NEW j \in S PROVE own[i] <= j
        <5>1. PICK h \in H : own[h] = j
          BY <2>6
        <5>2. h \in 1..root /\ own[h] # 0 /\ i <= h
          BY <2>5, <3>1, <5>1
        <5>3. own[i] \in Nat /\ own[h] \in Nat
          BY <1>4, <1>7, <3>2, <5>2
        <5>4. CASE i = h
          BY <5>1, <5>3, <5>4
        <5>5. CASE i # h
          <6>1. i < h
            BY <1>4, <3>2, <5>2, <5>5
          <6>2. own[i] < own[h]
            BY <1>7, <3>2, <5>2, <6>1
          <6> QED BY <5>1, <5>3, <6>2
        <5> QED BY <5>4, <5>5
      <4> QED BY <4>1
    <3>4. Min(S) = own[i]
      <4>1. Min(S) \in S /\ Min(S) <= own[i] /\ own[i] <= Min(S)
        BY <1>5, <3>2, <3>3
      <4>2. Min(S) \in Nat /\ own[i] \in Nat
        BY <1>2, <1>4, <3>2, <4>1
      <4> QED BY <4>1, <4>2
    <3> QED BY <1>1, <1>3, <3>2, <3>4
  <2> QED BY <2>7, <2>8
<1> QED BY <1>8, <1>9

-----------------------------------------------------------------------------
(* The invariant of the router *)

\* The routes are filed, from day 4 on, or copied, on day 3.
FiledIn(c, pt, rs) == \E word : Filed(c, pt, rs, word)
CopiedIn(c, pt, rs) == \E own : Copied(c, pt, rs, own)

\* The trie is sound, and has every route at its place.
RouterInv ==
    /\ day \in Days /\ routes \in Seq(Pattern)
    /\ Sound
    /\ day >= 4 /\ Orderly => FiledIn(children, pattern, routes)
    /\ day = 3 => CopiedIn(children, pattern, routes)

\* The router starts with an empty trie.
LEMMA RouterInvInit ==
    ASSUME RouterInit
    PROVE  RouterInv
<1>1. /\ day \in Days /\ children = [n \in {<< >>} |-> << >>]
      /\ pattern = [n \in {<< >>} |-> NoRoute] /\ routes = << >>
  BY DEF RouterInit
<1>2. Sound
  <2>1. DOMAIN children = {<< >>} /\ DOMAIN pattern = {<< >>}
    BY <1>1
  <2>2. children[<< >>] = << >> /\ pattern[<< >>] = NoRoute /\ 1..Len(<< >>) = {}
    BY <1>1
  <2>3. << >> \in Seq(Index) /\ << >> \in Seq(Part)
    BY EmptySeq
  <2> QED BY <2>1, <2>2, <2>3 DEF Sound, Shape
<1>3. FiledIn(children, pattern, routes) /\ CopiedIn(children, pattern, routes)
  BY FirstFiled, FirstCopied DEF FiledIn, CopiedIn
<1>4. routes \in Seq(Pattern)
  BY <1>1, EmptySeq
<1> QED BY <1>1, <1>2, <1>3, <1>4 DEF RouterInv

\* Routes that were orderly with the last one were so before.
LEMMA OrderlyBefore ==
    ASSUME routes \in Seq(Pattern), NEW p \in Pattern, routes' = Append(routes, p), Orderly'
    PROVE  Orderly
<1>1. /\ Len(routes) \in Nat /\ DOMAIN routes = 1..Len(routes) /\ DOMAIN routes' = 1..Len(routes) + 1
      /\ \A j \in 1..Len(routes) : routes'[j] = routes[j]
  <2>1. /\ Len(routes) \in Nat /\ DOMAIN routes = 1..Len(routes)
    BY LenProperties
  <2>2. /\ routes' \in Seq(Pattern) /\ Len(routes') = Len(routes) + 1
        /\ \A j \in 1..Len(routes) : routes'[j] = routes[j]
    BY AppendProperties
  <2> QED BY <2>1, <2>2, LenProperties
<1>2. \A j \in 1..Len(routes) : j \in 1..Len(routes) + 1
  BY <1>1
<1>3. \A j \in 1..Len(routes) : Parts[j] = Parts'[j]
  BY <1>1, <1>2 DEF Parts
<1>4. SUFFICES ASSUME NEW j \in 1..Len(routes), NEW i \in 1..j - 1
               PROVE  Fork(Parts[i], Parts[j]) = 0 \/ Parts[i][Fork(Parts[i], Parts[j])] \notin Wild
  BY <1>1 DEF Orderly
<1>5. i \in 1..Len(routes)
  BY <1>1
<1>6. Fork(Parts'[i], Parts'[j]) = 0 \/ Parts'[i][Fork(Parts'[i], Parts'[j])] \notin Wild
  BY <1>1, <1>2 DEF Orderly
<1> QED BY <1>3, <1>5, <1>6

\* Every route that is added finds its place.
LEMMA RouterInvAdd ==
    ASSUME RouterInv, NEW p \in Pattern, AddRoute(p)
    PROVE  RouterInv'
<1>1. day' = day /\ routes' = Append(routes, p) /\ day \in Nat /\ routes \in Seq(Pattern) /\ Sound
  BY DaysAssumption DEF AddRoute, RouterInv
<1>2. routes' \in Seq(Pattern)
  BY <1>1, AppendProperties
<1>3. Sound'
  BY <1>1, AddKeeps
<1>4. ASSUME day >= 4, Orderly' PROVE FiledIn(children, pattern, routes)'
  <2>1. Orderly
    BY <1>1, <1>4, OrderlyBefore
  <2>2. PICK word : Filed(children, pattern, routes, word)
    BY <1>4, <2>1 DEF RouterInv, FiledIn
  <2>3. \E new : Filed(children', pattern', routes', new)
    BY <1>1, <1>4, <2>2, AddFiles
  <2> QED BY <2>3 DEF FiledIn
<1>5. ASSUME day = 3 PROVE CopiedIn(children, pattern, routes)'
  <2>1. PICK own : Copied(children, pattern, routes, own)
    BY <1>5 DEF RouterInv, CopiedIn
  <2>2. \E new : Copied(children', pattern', routes', new)
    BY <1>1, <1>5, <2>1, AddCopies
  <2> QED BY <2>2 DEF CopiedIn
<1> QED BY <1>1, <1>2, <1>3, <1>4, <1>5 DEF RouterInv

\* Steps that add none leave the router alone.
LEMMA RouterInvStays ==
    ASSUME RouterInv, UNCHANGED routerVars
    PROVE  RouterInv'
<1>1. day' = day /\ children' = children /\ pattern' = pattern /\ routes' = routes
  BY DEF routerVars
<1>2. Sound' /\ (Orderly' <=> Orderly)
  BY <1>1 DEF RouterInv, Sound, Orderly, Parts
<1> QED BY <1>1, <1>2 DEF RouterInv

\* A route that is found is one that fits.
LEMMA RouteFits ==
    ASSUME RouterInv, NEW asked \in Seq(Part), GetRoute(asked) # NoRoute,
           day = 3 \/ (day >= 4 /\ Orderly)
    PROVE  /\ GetRoute(asked) \in Pattern
           /\ Instance(ParsePattern(GetRoute(asked)), ParsePattern(asked))
<1> DEFINE parts == ParsePattern(asked)
           S == Fitting(parts)
<1>1. parts \in Seq(Part) /\ routes \in Seq(Pattern) /\ Sound /\ day \in Int
  BY ParsedIs, DaysAssumption DEF RouterInv
<1>2. GetRoute(asked) = Search(parts)
  BY <1>1 DEF GetRoute
<1>3. \A j \in S : routes[j] \in Pattern /\ Instance(ParsePattern(routes[j]), parts)
  <2> HIDE DEF parts
  <2>1. \A j \in S : j \in 1..Len(routes) /\ Instance(ParsePattern(routes[j]), parts)
    BY <1>1, FittingIs
  <2> QED BY <1>1, <2>1, OfIs
<1> SUFFICES \E j \in S : GetRoute(asked) = routes[j]
  BY <1>3
<1>4. CASE day >= 4 /\ Orderly
  <2>1. PICK word : Filed(children, pattern, routes, word)
    BY <1>4 DEF RouterInv, FiledIn
  <2>2. Chosen(Search(parts), S)
    <3> HIDE DEF parts
    <3> QED BY <1>1, <2>1, SearchChooses, FittingIs
  <2> QED BY <1>2, <2>2 DEF Chosen
<1>5. CASE day = 3
  <2>1. PICK own : Copied(children, pattern, routes, own)
    BY <1>5 DEF RouterInv, CopiedIn
  <2>2. Search(parts) = First(parts)
    <3> HIDE DEF parts
    <3> QED BY <1>1, <2>1, FirstIsFound
  <2>3. S # {} /\ Search(parts) = routes[Min(S)]
    BY <1>2, <2>2 DEF First
  <2>4. Min(S) \in S
    <3>1. S \in SUBSET Nat
      <4> HIDE DEF parts
      <4> QED BY <1>1, FittingIs, LenProperties
    <3> HIDE DEF S
    <3>2. \E x \in S : \A y \in S : x <= y
      BY <2>3, <3>1, Least
    <3> QED BY <3>2 DEF Min
  <2> QED BY <1>2, <2>3, <2>4
<1> QED BY <1>4, <1>5

\* What the router finds.
LEMMA BestIsRight ==
    ASSUME RouterInv
    PROVE  FindsBest
<1> SUFFICES ASSUME NEW asked \in Path
             PROVE  /\ day >= 4 /\ Orderly => GetRoute(asked) = Best(ParsePattern(asked))
                    /\ day = 3 => GetRoute(asked) = First(ParsePattern(asked))
                    /\ day < 3 => GetRoute(asked) = Same(asked)
                    /\ day >= 3 /\ Orderly /\ GetRoute(asked) # NoRoute =>
                          Fill(GetRoute(asked), Params(GetRoute(asked), asked)) = ParsePattern(asked)
  BY DEF FindsBest
<1>1. /\ asked \in Seq(Part) /\ ParsePattern(asked) \in Seq(Part) /\ routes \in Seq(Pattern) /\ Sound
      /\ day \in Nat
  BY PatternAssumption, ParsedIs, DaysAssumption DEF RouterInv
<1>2. ASSUME day >= 4, Orderly PROVE GetRoute(asked) = Best(ParsePattern(asked))
  <2>1. PICK word : Filed(children, pattern, routes, word)
    BY <1>2 DEF RouterInv, FiledIn
  <2>2. Search(ParsePattern(asked)) = Best(ParsePattern(asked))
    BY <1>1, <2>1, BestIsFound
  <2> QED BY <1>1, <1>2, <2>2 DEF GetRoute
<1>3. ASSUME day = 3 PROVE GetRoute(asked) = First(ParsePattern(asked))
  <2>1. PICK own : Copied(children, pattern, routes, own)
    BY <1>3 DEF RouterInv, CopiedIn
  <2>2. Search(ParsePattern(asked)) = First(ParsePattern(asked))
    BY <1>1, <2>1, FirstIsFound
  <2> QED BY <1>3, <2>2 DEF GetRoute
<1>4. ASSUME day < 3 PROVE GetRoute(asked) = Same(asked)
  BY <1>4 DEF GetRoute, Same, Range
<1>5. ASSUME day >= 3, Orderly, GetRoute(asked) # NoRoute
      PROVE  Fill(GetRoute(asked), Params(GetRoute(asked), asked)) = ParsePattern(asked)
  <2>1. day = 3 \/ (day >= 4 /\ Orderly)
    BY <1>1, <1>5
  <2>2. GetRoute(asked) \in Pattern /\ Instance(ParsePattern(GetRoute(asked)), ParsePattern(asked))
    BY <1>1, <1>5, <2>1, RouteFits
  <2>3. GetRoute(asked) \in Seq(Part)
    BY <2>2, PatternAssumption
  <2> QED BY <1>1, <2>2, <2>3, FillIsPath
<1> QED BY <1>2, <1>3, <1>4, <1>5

\* The types of the router.
LEMMA RouterTypes ==
    ASSUME RouterInv
    PROVE  RouterTypeOK
BY DEF RouterInv, Sound, Shape, Index, RouterTypeOK

-----------------------------------------------------------------------------
(* The handlers of a request *)

\* Groups, handlers and the frames of the stack.
Uses == {"user", "logger", "recovery"}
Group0 == [prefix : Seq(Part), use : Seq(Uses)]
Hand == [kind : Kinds, grp : Nat]
Frame == [at : Nat, nexts : Nat]

\* Types of the variables, as far as the order of the handlers needs them.
Types == /\ groups \in Seq(Group0)
         /\ phase \in {"setup", "serving", "over", "aborted"}
         /\ chain \in Seq(Hand)
         /\ index \in Int
         /\ stack \in Seq(Frame)
         /\ ran \in Seq(Nat)
         /\ sent \in Nat /\ failed \in Nat

\* The places of the chain with a Recovery.
RecoveryAt == {j \in 0..Len(chain) - 1 : chain[j + 1].kind = "recovery"}

\* Every Recovery before a handler that runs runs below it, and every one the loops have
\* come to runs, unless the chain is through; a handler whose c.Next has returned is one
\* that saw the whole chain through.
Stacked ==
    /\ phase \in {"serving", "aborted"} => Len(stack) # 0
    /\ phase # "setup" => Len(chain) # 0 /\ index >= 0
    /\ \A t \in 1..Len(stack) :
          /\ stack[t].at < Len(chain)
          /\ \A j \in RecoveryAt : j < stack[t].at => \E u \in 1..t - 1 : stack[u].at = j
    /\ phase = "serving" /\ index < Len(chain) =>
          \A j \in RecoveryAt : j <= index => \E u \in 1..Len(stack) : stack[u].at = j
    /\ phase = "serving" /\ stack[Len(stack)].nexts # 0 => index >= Len(chain)
    /\ phase = "aborted" => \A t \in 1..Len(stack) : stack[t].at \notin RecoveryAt

\* The handlers called so far are those up to the index, or up to where one failed.
Counted ==
    /\ \A i \in 1..Len(ran) : ran[i] = i - 1
    /\ phase = "setup" => failed = 0 /\ Len(ran) = 0 /\ Len(stack) = 0
    /\ phase # "setup" /\ failed = 0 => Len(ran) = IF index < Len(chain) THEN index + 1 ELSE Len(chain)
    /\ failed # 0 => index >= Len(chain) /\ Len(ran) = failed /\ sent # 0
    /\ phase = "over" => index >= Len(chain)

\* The invariant of the handlers.
Inv == Types /\ Stacked /\ Counted

-----------------------------------------------------------------------------
(* The chain of a request *)

\* Every path has a last handler, of no group.
LEMMA FinalIsHand ==
    ASSUME NEW q
    PROVE  Final(q) \in Hand /\ Final(q).grp = 0
<1> DEFINE route == GetRoute(q)
           kind == IF route = NoRoute THEN "notfound"
                   ELSE IF route \in static THEN "static" ELSE "route"
<1>1. Final(q) = Handler(kind, 0)
  BY DEF Final
<1>2. kind \in Kinds
  <2>1. kind = "notfound" \/ kind = "static" \/ kind = "route"
    BY Zenon
  <2> HIDE DEF kind
  <2> QED BY <2>1 DEF Kinds
<1> HIDE DEF kind
<1> QED BY <1>1, <1>2 DEF Handler, Hand

\* A chain is a sequence of handlers of the groups, with at least one.
LEMMA ChainIsSeq ==
    ASSUME Types, NEW q
    PROVE  /\ Chain(q) \in Seq([kind : Kinds, grp : 0..Len(groups)])
           /\ Chain(q) \in Seq(Hand) /\ Len(Chain(q)) # 0
<1> DEFINE H == [kind : Kinds, grp : 0..Len(groups)]
           part(g) == IF HasPrefix(q, groups[g].prefix)
                      THEN [i \in DOMAIN groups[g].use |-> Handler(groups[g].use[i], g)]
                      ELSE << >>
           parts == [g \in DOMAIN groups |-> part(g)]
<1>1. groups \in Seq(Group0) /\ DOMAIN groups = 1..Len(groups) /\ Len(groups) \in Nat
  BY LenProperties DEF Types
<1>2. ASSUME NEW g \in DOMAIN groups PROVE part(g) \in Seq(H)
  <2> DEFINE use == groups[g].use
  <2>1. use \in Seq(Uses) /\ g \in 0..Len(groups)
    <3>1. groups[g] \in Group0 /\ g \in 0..Len(groups)
      BY <1>1, ElementOfSeq
    <3> QED BY <3>1 DEF Group0
  <2>2. Len(use) \in Nat /\ DOMAIN use = 1..Len(use)
    BY <2>1, LenProperties
  <2>3. \A i \in 1..Len(use) : use[i] \in Kinds
    <3>1. \A i \in 1..Len(use) : use[i] \in Uses
      BY <2>1, ElementOfSeq
    <3> QED BY <3>1 DEF Uses, Kinds
  <2>4. [i \in DOMAIN use |-> Handler(use[i], g)] \in [1..Len(use) -> H]
    BY <2>1, <2>2, <2>3 DEF Handler
  <2>5. [i \in DOMAIN use |-> Handler(use[i], g)] \in Seq(H)
    BY <2>2, <2>4, FunctionIsSeq
  <2>6. << >> \in Seq(H)
    OBVIOUS
  <2> QED BY <2>5, <2>6
<1>3. parts \in [1..Len(groups) -> Seq(H)]
  BY <1>1, <1>2
<1>4. parts \in Seq(Seq(H))
  BY <1>1, <1>3, FunctionIsSeq
<1>5. FlattenSeq(parts) \in Seq(H)
  BY <1>4, Flatten
<1>6. Chain(q) = Append(FlattenSeq(parts), Final(q))
  BY DEF Chain
<1>7. Final(q) \in H
  BY <1>1, FinalIsHand DEF Hand
<1>8. H \subseteq Hand
  BY <1>1 DEF Hand
<1> HIDE DEF H, parts
<1>9. Chain(q) \in Seq(H) /\ Len(Chain(q)) # 0
  BY <1>5, <1>6, <1>7, AppendProperties, LenProperties
<1>10. Chain(q) \in Seq(Hand)
  BY <1>8, <1>9, SeqMonotonic
<1> QED BY <1>9, <1>10 DEF H

-----------------------------------------------------------------------------
(* The steps *)

\* A step that sets the engine up leaves the request alone.
LEMMA SetupKeeps ==
    ASSUME Inv, groups' \in Seq(Group0), UNCHANGED <<phase, requestVars>>
    PROVE  Inv'
<1>1. UNCHANGED <<phase, path, chain, index, stack, sent, ran, failed>>
  BY DEF requestVars
<1>2. RecoveryAt' = RecoveryAt
  BY <1>1 DEF RecoveryAt
<1>3. Types'
  BY <1>1 DEF Inv, Types
<1>4. Stacked'
  BY <1>1, <1>2 DEF Inv, Stacked
<1>5. Counted'
  BY <1>1 DEF Inv, Counted
<1> QED BY <1>3, <1>4, <1>5 DEF Inv

\* A request starts with the first handler of its chain.
LEMMA ServeKeeps ==
    ASSUME Inv, NEW q, NEW handlers \in Seq(Hand), Len(handlers) # 0, Serve(q, handlers)
    PROVE  Inv'
<1> DEFINE first == [at |-> 0, nexts |-> 0]
<1>1. /\ phase = "setup" /\ phase' = "serving"
      /\ chain' = handlers /\ index' = 0 /\ stack' = <<first>> /\ ran' = <<0>>
      /\ groups' = groups /\ sent' = sent /\ failed' = failed
  BY DEF Serve, engineVars
<1>2. Len(handlers) \in Nat
  BY LenProperties
<1>3. first \in Frame /\ first.at = 0 /\ first.nexts = 0
  BY DEF Frame
<1> HIDE DEF first
<1>4. stack' \in Seq(Frame) /\ Len(stack') = 1 /\ stack'[1] = first
  BY <1>1, <1>3
<1>5. ran' \in Seq(Nat) /\ Len(ran') = 1 /\ ran'[1] = 0
  BY <1>1
<1>6. RecoveryAt' \subseteq 0..Len(handlers) - 1
  BY <1>1 DEF RecoveryAt
<1>7. Types'
  BY <1>1, <1>4, <1>5 DEF Inv, Types
<1>8. Stacked'
  <2>1. ASSUME NEW t \in 1..Len(stack')
        PROVE  /\ stack'[t].at < Len(chain')
               /\ \A j \in RecoveryAt' : j < stack'[t].at => \E u \in 1..t - 1 : stack'[u].at = j
    BY <1>1, <1>2, <1>3, <1>4, <1>6
  <2>2. ASSUME NEW j \in RecoveryAt', j <= index'
        PROVE  \E u \in 1..Len(stack') : stack'[u].at = j
    BY <1>1, <1>2, <1>3, <1>4, <1>6, <2>2
  <2>3. stack'[Len(stack')].nexts = 0
    BY <1>3, <1>4
  <2>4. phase' = "serving" /\ Len(stack') # 0 /\ Len(chain') # 0 /\ index' >= 0
    BY <1>1, <1>4
  <2> QED BY <2>1, <2>2, <2>3, <2>4 DEF Stacked
<1>9. Counted'
  <2>1. failed = 0
    BY <1>1 DEF Inv, Counted
  <2>2. \A i \in 1..Len(ran') : ran'[i] = i - 1
    BY <1>5
  <2>3. Len(ran') = IF index' < Len(chain') THEN index' + 1 ELSE Len(chain')
    BY <1>1, <1>2, <1>5
  <2> QED BY <1>1, <2>1, <2>2, <2>3 DEF Counted
<1> QED BY <1>7, <1>8, <1>9 DEF Inv

\* Where the loop of a c.Next goes on, with what runs then: at the next place with the
\* Recoveries so far below, or through the chain.
LEMMA LoopKeeps ==
    ASSUME Inv, phase = "serving", UNCHANGED <<groups, chain>>,
           NEW i \in Nat, NEW below \in Seq(Frame), Loop(i, below),
           Len(below) <= Len(stack),
           \A t \in 1..Len(below) : below[t].at = stack[t].at,
           i < Len(chain) => /\ i = index + 1
                             /\ \A j \in RecoveryAt : j <= index =>
                                   \E u \in 1..Len(below) : below[u].at = j,
           sent' \in Nat, failed' \in Nat,
           \/ failed' = failed /\ (sent # 0 => sent' # 0) /\ i = index + 1
           \/ FailWith(500) /\ i > Len(chain)
    PROVE  Inv'
<1> DEFINE new == [at |-> i, nexts |-> 0]
           n == Len(chain)
<1>1. /\ index \in Int /\ index >= 0 /\ n \in Nat /\ n # 0
      /\ stack \in Seq(Frame) /\ Len(stack) \in Nat /\ Len(stack) # 0
      /\ ran \in Seq(Nat) /\ Len(ran) \in Nat
      /\ Len(below) \in Nat
  BY LenProperties DEF Inv, Types, Stacked
<1>2. new \in Frame /\ new.at = i /\ new.nexts = 0
  BY DEF Frame
<1> HIDE DEF new
<1>3. chain' = chain /\ groups' = groups /\ index' = i /\ RecoveryAt' = RecoveryAt
  BY DEF Loop, RecoveryAt
<1>4. RecoveryAt \subseteq 0..n - 1
  BY DEF RecoveryAt
<1>5. \A t \in 1..Len(below) :
         /\ below[t].at \in Nat /\ below[t].at < n
         /\ \A j \in RecoveryAt : j < below[t].at => \E u \in 1..t - 1 : below[u].at = j
  <2>1. ASSUME NEW t \in 1..Len(below)
        PROVE  /\ below[t].at \in Nat /\ below[t].at < n
               /\ \A j \in RecoveryAt : j < below[t].at => \E u \in 1..t - 1 : below[u].at = j
    <3>1. t \in 1..Len(stack) /\ below[t].at = stack[t].at
      BY <1>1, <2>1
    <3>2. below[t].at \in Nat
      <4>1. below[t] \in Frame
        BY ElementOfSeq
      <4> QED BY <4>1 DEF Frame
    <3>3. stack[t].at < n
      BY <3>1 DEF Inv, Stacked
    <3>4. ASSUME NEW j \in RecoveryAt, j < below[t].at
          PROVE  \E u \in 1..t - 1 : below[u].at = j
      <4>1. PICK u \in 1..t - 1 : stack[u].at = j
        BY <3>1, <3>4 DEF Inv, Stacked
      <4>2. u \in 1..Len(below)
        BY <1>1, <2>1, <4>1
      <4> QED BY <4>1, <4>2
    <3> QED BY <3>1, <3>2, <3>3, <3>4
  <2> QED BY <2>1
<1>6. \A k \in 1..Len(ran) : ran[k] = k - 1
  BY DEF Inv, Counted
<1>7. CASE i < n
  <2>0. failed' = failed /\ i = index + 1 /\ index < n
    BY <1>1, <1>7
  <2>1. failed = 0 /\ Len(ran) = i
    BY <1>1, <1>7, <2>0 DEF Inv, Counted
  <2>2. stack' = Append(below, new) /\ ran' = Append(ran, i) /\ phase' = "serving"
    BY <1>7 DEF Loop, new
  <2>3. /\ stack' \in Seq(Frame) /\ Len(stack') = Len(below) + 1
        /\ \A t \in 1..Len(below) : stack'[t] = below[t]
        /\ stack'[Len(below) + 1] = new
    BY <1>2, <2>2, AppendProperties
  <2>4. /\ ran' \in Seq(Nat) /\ Len(ran') = Len(ran) + 1
        /\ \A k \in 1..Len(ran) : ran'[k] = ran[k]
        /\ ran'[Len(ran) + 1] = i
    BY <1>1, <2>2, AppendProperties
  <2>5. Types'
    BY <1>1, <1>3, <2>2, <2>3, <2>4 DEF Inv, Types
  <2>6. Stacked'
    <3>1. \A j \in RecoveryAt : j <= index => \E u \in 1..Len(below) : below[u].at = j
      BY <1>7
    <3>2. ASSUME NEW t \in 1..Len(stack')
          PROVE  /\ stack'[t].at < n
                 /\ \A j \in RecoveryAt : j < stack'[t].at => \E u \in 1..t - 1 : stack'[u].at = j
      <4>1. CASE t \in 1..Len(below)
        <5>1. stack'[t] = below[t] /\ \A u \in 1..t - 1 : u \in 1..Len(below) /\ stack'[u] = below[u]
          BY SMTT(20), <1>1, <2>3, <4>1
        <5>2. ASSUME NEW j \in RecoveryAt, j < below[t].at
              PROVE  \E u \in 1..t - 1 : stack'[u].at = j
          <6>1. PICK u \in 1..t - 1 : below[u].at = j
            BY <1>5, <4>1, <5>2
          <6> QED BY <5>1, <6>1
        <5> QED BY <1>5, <4>1, <5>1, <5>2
      <4>2. CASE t = Len(below) + 1
        <5>1. stack'[t].at = i
          BY <1>2, <2>3, <4>2
        <5>2. ASSUME NEW j \in RecoveryAt, j < i
              PROVE  \E u \in 1..t - 1 : stack'[u].at = j
          <6>1. j <= index
            BY <1>1, <1>4, <2>0, <5>2
          <6>2. PICK u \in 1..Len(below) : below[u].at = j
            BY <3>1, <6>1
          <6>3. u \in 1..t - 1
            BY <1>1, <4>2
          <6> QED BY <2>3, <6>2, <6>3
        <5> QED BY <1>7, <5>1, <5>2
      <4> QED BY <1>1, <2>3, <4>1, <4>2
    <3>3. ASSUME NEW j \in RecoveryAt, j <= i
          PROVE  \E u \in 1..Len(stack') : stack'[u].at = j
      <4>1. CASE j = i
        <5>1. Len(below) + 1 \in 1..Len(stack')
          BY <1>1, <2>3
        <5> QED BY <1>2, <2>3, <4>1, <5>1
      <4>2. CASE j # i
        <5>1. j <= index
          BY <1>1, <1>4, <2>0, <3>3, <4>2
        <5>2. PICK u \in 1..Len(below) : below[u].at = j
          BY <3>1, <5>1
        <5>3. u \in 1..Len(stack')
          BY <1>1, <2>3
        <5> QED BY <2>3, <5>2, <5>3
      <4> QED BY <4>1, <4>2
    <3>4. stack'[Len(stack')].nexts = 0
      BY <1>2, <2>3
    <3>5. Len(stack') # 0
      BY <1>1, <2>3
    <3> QED BY <1>1, <1>3, <2>2, <3>2, <3>3, <3>4, <3>5 DEF Stacked
  <2>7. Counted'
    <3>1. ASSUME NEW k \in 1..Len(ran') PROVE ran'[k] = k - 1
      <4>1. k \in 1..Len(ran) \/ k = Len(ran) + 1
        BY <1>1, <2>4
      <4> QED BY <1>1, <1>6, <2>1, <2>4, <4>1
    <3>2. Len(ran') = index' + 1 /\ index' < Len(chain')
      BY <1>3, <1>7, <2>1, <2>4
    <3> QED BY <2>0, <2>1, <2>2, <3>1, <3>2 DEF Counted
  <2> QED BY <2>5, <2>6, <2>7 DEF Inv
<1>8. CASE ~(i < n)
  <2>1. stack' = below /\ ran' = ran /\ phase' = IF below = << >> THEN "over" ELSE phase
    BY <1>8 DEF Loop
  <2>2. index' >= Len(chain')
    BY <1>1, <1>3, <1>8
  <2>3. Types'
    BY <1>3, <2>1 DEF Inv, Types
  <2>4. phase' \in {"over", "serving"} /\ (phase' = "serving" => Len(stack') # 0)
    <3>1. below # << >> => Len(below) # 0
      BY EmptySeq
    <3> QED BY <2>1, <3>1
  <2>5. Stacked'
    <3>1. ~(index' < Len(chain'))
      BY <1>1, <1>3, <1>8
    <3> QED BY <1>1, <1>3, <1>5, <2>1, <2>2, <2>4, <3>1 DEF Stacked
  <2>6. Counted'
    <3>1. \A k \in 1..Len(ran') : ran'[k] = k - 1
      BY <1>6, <2>1
    <3>2. ~(index' < Len(chain'))
      BY <1>1, <1>3, <1>8
    <3>3. failed' = 0 => Len(ran') = Len(chain')
      <4>1. CASE failed' = failed /\ i = index + 1
        <5>1. failed = 0 => Len(ran) = IF index < n THEN index + 1 ELSE n
          BY DEF Inv, Counted
        <5> QED BY <1>1, <1>3, <1>8, <2>1, <4>1, <5>1
      <4>2. CASE FailWith(500) /\ i > n
        <5>1. failed = 0 => Len(ran) # 0
          BY <1>1 DEF Inv, Counted
        <5> QED BY <4>2, <5>1 DEF FailWith
      <4> QED BY <4>1, <4>2
    <3>4. failed' # 0 => Len(ran') = failed' /\ sent' # 0
      <4>1. failed # 0 => Len(ran) = failed /\ sent # 0
        BY DEF Inv, Counted
      <4> QED BY <2>1, <4>1 DEF FailWith, Send
    <3> QED BY <2>2, <2>4, <3>1, <3>2, <3>3, <3>4 DEF Counted
  <2> QED BY <2>3, <2>5, <2>6 DEF Inv
<1> QED BY <1>7, <1>8

\* The handler that runs: the last frame of the stack.
LEMMA TopRuns ==
    ASSUME Inv, NEW kinds, Running(kinds)
    PROVE  /\ phase = "serving" /\ Len(stack) \in Nat /\ Len(stack) # 0
           /\ stack \in Seq(Frame) /\ Len(chain) \in Nat /\ index \in Nat
           /\ Last(stack) = stack[Len(stack)] /\ stack[Len(stack)] \in Frame
           /\ stack[Len(stack)].at \in 0..Len(chain) - 1
           /\ chain[stack[Len(stack)].at + 1].kind \in kinds
<1> DEFINE top == stack[Len(stack)]
<1>1. phase = "serving" /\ chain[Last(stack).at + 1].kind \in kinds
  BY DEF Running
<1>2. stack \in Seq(Frame) /\ Len(stack) \in Nat /\ Len(stack) # 0 /\ Len(chain) \in Nat
  BY <1>1, LenProperties DEF Inv, Types, Stacked
<1>3. index \in Nat
  BY <1>1 DEF Inv, Types, Stacked
<1>4. Len(stack) \in 1..Len(stack)
  BY <1>2
<1>5. top \in Frame
  BY <1>2, <1>4, ElementOfSeq
<1>6. top.at \in Nat /\ top.at < Len(chain)
  BY <1>4, <1>5 DEF Inv, Stacked, Frame
<1>7. Last(stack) = top
  BY DEF Last
<1> QED BY <1>1, <1>2, <1>3, <1>5, <1>6, <1>7

\* A handler calls c.Next.
LEMMA CallKeeps ==
    ASSUME Inv, NEW kinds, Running(kinds), CallNext
    PROVE  Inv'
<1> DEFINE n == Len(stack)
           top == [stack[n] EXCEPT !.nexts = @ + 1]
           below == [stack EXCEPT ![n].nexts = @ + 1]
<1>1. /\ phase = "serving" /\ n \in Nat /\ n # 0 /\ index \in Nat
      /\ stack \in Seq(Frame) /\ stack[n] \in Frame
  BY TopRuns
<1>2. top \in Frame /\ top.at = stack[n].at
  BY <1>1 DEF Frame
<1>3. below = [stack EXCEPT ![n] = top]
  OBVIOUS
<1> HIDE DEF top
<1>4. /\ below \in Seq(Frame) /\ Len(below) = n
      /\ \A t \in 1..n : below[t] = IF t = n THEN top ELSE stack[t]
  BY <1>1, <1>2, <1>3, ExceptSeq
<1> HIDE DEF below
<1>5. \A t \in 1..n : below[t].at = stack[t].at
  BY <1>2, <1>4
<1>6. /\ Loop(index + 1, below) /\ chain' = chain /\ groups' = groups
      /\ sent' = sent /\ failed' = failed
  BY DEF CallNext, below, requestFixed, engineVars
<1>7. sent \in Nat /\ failed \in Nat
  BY DEF Inv, Types
<1>8. index + 1 < Len(chain) =>
         \A j \in RecoveryAt : j <= index => \E u \in 1..Len(below) : below[u].at = j
  <2>1. SUFFICES ASSUME index + 1 < Len(chain), NEW j \in RecoveryAt, j <= index
                 PROVE  \E u \in 1..n : below[u].at = j
    BY <1>4
  <2>2. index < Len(chain)
    BY <1>1, <2>1, LenProperties DEF Inv, Types
  <2>3. PICK u \in 1..n : stack[u].at = j
    BY <1>1, <2>1, <2>2 DEF Inv, Stacked
  <2> QED BY <1>5, <2>3
<1>9. index + 1 \in Nat /\ Len(below) <= Len(stack)
  BY <1>1, <1>4
<1> QED BY <1>1, <1>4, <1>5, <1>6, <1>7, <1>8, <1>9, LoopKeeps

\* The frames below the one at m, when it is gone.
LEMMA Below ==
    ASSUME Inv, NEW m \in 1..Len(stack)
    PROVE  /\ SubSeq(stack, 1, m - 1) \in Seq(Frame)
           /\ Len(SubSeq(stack, 1, m - 1)) = m - 1 /\ m - 1 <= Len(stack)
           /\ \A t \in 1..m - 1 : SubSeq(stack, 1, m - 1)[t] = stack[t]
<1>1. stack \in Seq(Frame) /\ Len(stack) \in Nat
  BY LenProperties DEF Inv, Types
<1>2. m \in Nat /\ m - 1 \in 0..Len(stack) /\ 1 \in 1..Len(stack) + 1
  BY <1>1
<1>3. \A t \in 1..m - 1 : t \in 1..Len(stack) /\ stack[t] \in Frame
  BY <1>1, <1>2, ElementOfSeq
<1> QED BY <1>1, <1>2, <1>3, SubSeqProperties

\* A handler returns: it is no Recovery, or its c.Next saw the chain through.
LEMMA ReturnKeeps ==
    ASSUME Inv, NEW kinds, Running(kinds),
           "recovery" \notin kinds \/ Last(stack).nexts # 0,
           Loop(index + 1, Front(stack)), UNCHANGED <<requestFixed, failed>>,
           sent' \in Nat, sent # 0 => sent' # 0
    PROVE  Inv'
<1> DEFINE n == Len(stack)
           below == SubSeq(stack, 1, n - 1)
<1>1. /\ phase = "serving" /\ n \in Nat /\ n # 0 /\ index \in Nat /\ Len(chain) \in Nat
      /\ Last(stack) = stack[n] /\ stack[n].at \in 0..Len(chain) - 1
      /\ chain[stack[n].at + 1].kind \in kinds
  BY TopRuns
<1>2. n \in 1..n
  BY <1>1
<1>3. below \in Seq(Frame) /\ Len(below) = n - 1 /\ \A t \in 1..n - 1 : below[t] = stack[t]
  BY <1>2, Below
<1>4. Loop(index + 1, below)
  BY DEF Front
<1> HIDE DEF below
<1>5. chain' = chain /\ groups' = groups /\ failed' = failed /\ failed \in Nat
  BY DEF requestFixed, engineVars, Inv, Types
<1>6. index + 1 < Len(chain) =>
         \A j \in RecoveryAt : j <= index => \E u \in 1..Len(below) : below[u].at = j
  <2>1. SUFFICES ASSUME index + 1 < Len(chain), NEW j \in RecoveryAt, j <= index
                 PROVE  \E u \in 1..Len(below) : below[u].at = j
    OBVIOUS
  <2>2. index < Len(chain)
    BY <1>1, <2>1
  <2>3. PICK u \in 1..n : stack[u].at = j
    BY <1>1, <2>1, <2>2 DEF Inv, Stacked
  <2>4. stack[n].nexts = 0
    BY <1>1, <2>2 DEF Inv, Stacked
  <2>5. "recovery" \notin kinds
    BY <1>1, <2>4
  <2>6. j # stack[n].at
    BY <1>1, <2>5 DEF RecoveryAt
  <2>7. u \in 1..n - 1
    BY <1>1, <2>3, <2>6
  <2> QED BY <1>3, <2>3, <2>7
<1>7. index + 1 \in Nat /\ Len(below) <= Len(stack)
  BY <1>1, <1>3
<1>8. \A t \in 1..Len(below) : below[t].at = stack[t].at
  BY <1>3
<1> QED BY <1>1, <1>3, <1>4, <1>5, <1>6, <1>7, <1>8, LoopKeeps

\* A panic unwinds to a handler that runs.
LEMMA LastRecovery ==
    ASSUME Inv, Recovered
    PROVE  Max(Recoveries) \in 1..Len(stack)
<1>1. Len(stack) \in Nat /\ stack \in Seq(Frame)
  BY TopRuns DEF Recovered
<1>2. Recoveries \in SUBSET (1..Len(stack)) /\ Recoveries # {}
  BY <1>1, LenProperties DEF Recoveries, Recovered
<1>3. IsFiniteSet(1..Len(stack)) /\ 1..Len(stack) \subseteq Int
  BY <1>1, FS_Interval
<1>4. IsFiniteSet(Recoveries) /\ Recoveries \subseteq Int
  BY <1>2, <1>3, FS_Subset
<1>5. \E x \in Recoveries : \A y \in Recoveries : y <= x
  BY <1>2, <1>4, Largest
<1>6. Max(Recoveries) \in Recoveries
  BY <1>5 DEF Max
<1> QED BY <1>2, <1>6

\* A panic that a Recovery catches ends the chain as c.Fail does.
LEMMA RecoveredKeeps ==
    ASSUME Inv, Recovered
    PROVE  Inv'
<1> DEFINE m == Max(Recoveries)
           below == SubSeq(stack, 1, m - 1)
<1>1. /\ phase = "serving" /\ Len(stack) \in Nat /\ Len(chain) \in Nat
      /\ stack \in Seq(Frame)
  BY TopRuns DEF Recovered
<1>2. m \in 1..Len(stack)
  BY LastRecovery
<1>3. below \in Seq(Frame) /\ Len(below) <= Len(stack)
      /\ \A t \in 1..Len(below) : below[t] = stack[t]
  BY <1>2, Below
<1>4. Loop(Len(chain) + 1, below) /\ FailWith(500)
      /\ chain' = chain /\ groups' = groups
  BY DEF Recovered, requestFixed, engineVars
<1> HIDE DEF below
<1>5. sent' \in Nat /\ failed' \in Nat
  <2>1. sent \in Nat /\ failed \in Nat /\ Len(ran) \in Nat
    BY LenProperties DEF Inv, Types
  <2> QED BY <1>4, <2>1 DEF FailWith, Send
<1>6. Len(chain) + 1 \in Nat /\ ~(Len(chain) + 1 < Len(chain)) /\ Len(chain) + 1 > Len(chain)
  BY <1>1
<1>7. \A t \in 1..Len(below) : below[t].at = stack[t].at
  BY <1>3
<1> QED BY <1>1, <1>3, <1>4, <1>5, <1>6, <1>7, LoopKeeps

\* c.Fail ends it.
LEMMA FailKeeps ==
    ASSUME Inv, Fail
    PROVE  Inv'
<1>1. /\ phase = "serving" /\ Len(chain) \in Nat
      /\ index' = Len(chain) /\ FailWith(500)
      /\ groups' = groups /\ chain' = chain /\ phase' = phase /\ stack' = stack /\ ran' = ran
  BY TopRuns DEF Fail, requestFixed, engineVars
<1>2. RecoveryAt' = RecoveryAt
  BY <1>1 DEF RecoveryAt
<1>3. sent \in Nat /\ failed \in Nat /\ Len(ran) \in Nat /\ index \in Nat /\ Len(chain) # 0
  BY <1>1, LenProperties DEF Inv, Types, Stacked
<1>4. Types'
  BY <1>1, <1>3 DEF Inv, Types, FailWith, Send
<1>5. Stacked'
  <2>1. index' >= 0 /\ ~(index' < Len(chain'))
    BY <1>1
  <2> QED BY <1>1, <1>2, <2>1 DEF Inv, Stacked
<1>6. Counted'
  <2>1. failed = 0 => Len(ran) # 0
    BY <1>1, <1>3 DEF Inv, Counted
  <2>2. failed' # 0 /\ Len(ran) = failed' /\ sent' # 0
    BY <1>1, <1>3, <2>1 DEF FailWith, Send, Inv, Counted
  <2>3. index' >= Len(chain')
    BY <1>1
  <2> QED BY <1>1, <2>2, <2>3 DEF Inv, Counted
<1> QED BY <1>4, <1>5, <1>6 DEF Inv

\* A response leaves the chain alone.
LEMMA WriteKeeps ==
    ASSUME Inv, Write
    PROVE  Inv'
<1>1. /\ sent' = Send(200)
      /\ groups' = groups /\ chain' = chain /\ phase' = phase /\ stack' = stack
      /\ ran' = ran /\ index' = index /\ failed' = failed
  BY DEF Write, requestFixed, engineVars
<1>2. RecoveryAt' = RecoveryAt
  BY <1>1 DEF RecoveryAt
<1>3. Types'
  BY <1>1 DEF Inv, Types, Send
<1>4. Stacked'
  BY <1>1, <1>2 DEF Inv, Stacked
<1>5. Counted'
  BY <1>1 DEF Inv, Counted, Send
<1> QED BY <1>3, <1>4, <1>5 DEF Inv

\* A panic with no Recovery below.
LEMMA AbortKeeps ==
    ASSUME Inv, Abort
    PROVE  Inv'
<1>1. /\ phase = "serving" /\ phase' = "aborted" /\ Len(stack) \in Nat /\ Len(stack) # 0
      /\ stack \in Seq(Frame)
      /\ groups' = groups /\ chain' = chain /\ sent' = sent /\ stack' = stack
      /\ ran' = ran /\ index' = index /\ failed' = failed
  BY TopRuns DEF Abort, requestFixed, engineVars
<1>2. RecoveryAt' = RecoveryAt
  BY <1>1 DEF RecoveryAt
<1>3. \A t \in 1..Len(stack) : stack[t].at \notin RecoveryAt
  BY <1>1, LenProperties DEF Abort, Recoveries, RecoveryAt
<1>4. Types'
  BY <1>1 DEF Inv, Types
<1>5. Stacked'
  BY <1>1, <1>2, <1>3 DEF Inv, Stacked
<1>6. Counted'
  BY <1>1 DEF Inv, Counted
<1> QED BY <1>4, <1>5, <1>6 DEF Inv

-----------------------------------------------------------------------------
(* Setting up *)

\* The groups after Use, Group and Default.
LEMMA UseTypes ==
    ASSUME Types, NEW g \in DOMAIN groups, NEW kind \in Uses,
           groups' = [groups EXCEPT ![g].use = Append(@, kind)]
    PROVE  groups' \in Seq(Group0)
<1> DEFINE new == [groups[g] EXCEPT !.use = Append(@, kind)]
<1>1. groups \in Seq(Group0) /\ g \in 1..Len(groups)
  BY LenProperties DEF Types
<1>2. groups[g] \in Group0
  BY <1>1, ElementOfSeq
<1>3. groups[g].use \in Seq(Uses)
  BY <1>2 DEF Group0
<1>4. Append(groups[g].use, kind) \in Seq(Uses)
  BY <1>3, AppendProperties
<1>5. new \in Group0
  BY <1>2, <1>4 DEF Group0
<1>6. groups' = [groups EXCEPT ![g] = new]
  OBVIOUS
<1> HIDE DEF new
<1>7. [groups EXCEPT ![g] = new] \in Seq(Group0)
  BY <1>1, <1>5, ExceptSeq
<1> QED BY <1>6, <1>7

\* After Group.
LEMMA GroupTypes ==
    ASSUME Types, NEW g \in DOMAIN groups, NEW prefix \in Prefix, Group(g, prefix)
    PROVE  groups' \in Seq(Group0)
<1> DEFINE new == [prefix |-> groups[g].prefix \o prefix, use |-> << >>]
<1>1. groups \in Seq(Group0) /\ g \in 1..Len(groups)
  BY LenProperties DEF Types
<1>2. groups[g] \in Group0
  BY <1>1, ElementOfSeq
<1>3. groups[g].prefix \in Seq(Part) /\ prefix \in Seq(Part)
  BY <1>2, PrefixAssumption DEF Group0
<1>4. groups[g].prefix \o prefix \in Seq(Part)
  BY <1>3, ConcatProperties
<1>5. << >> \in Seq(Uses)
  OBVIOUS
<1>6. new \in Group0
  BY <1>4, <1>5 DEF Group0
<1>7. groups' = Append(groups, new)
  BY DEF Group
<1> HIDE DEF new
<1> QED BY <1>1, <1>6, <1>7, AppendProperties

\* After Default.
LEMMA DefaultTypes ==
    ASSUME Default
    PROVE  groups' \in Seq(Group0)
<1> DEFINE new == [prefix |-> << >>, use |-> <<"logger", "recovery">>]
<1>1. << >> \in Seq(Part)
  OBVIOUS
<1>2. "logger" \in Uses /\ "recovery" \in Uses
  BY DEF Uses
<1>3. <<"logger", "recovery">> \in Seq(Uses)
  BY <1>2
<1>4. new \in Group0
  BY <1>1, <1>3 DEF Group0
<1>5. groups' = <<new>>
  BY DEF Default
<1> HIDE DEF new
<1> QED BY <1>4, <1>5

-----------------------------------------------------------------------------
(* The theorems *)

\* The invariant holds before any call,
LEMMA InitInv ==
    ASSUME Init
    PROVE  Inv
<1> DEFINE new == [prefix |-> << >>, use |-> << >>]
<1>1. /\ groups = <<new>> /\ phase = "setup" /\ chain = << >> /\ index = -1
      /\ stack = << >> /\ sent = 0 /\ ran = << >> /\ failed = 0
  BY DEF Init
<1>2. << >> \in Seq(Part) /\ << >> \in Seq(Uses)
  OBVIOUS
<1>3. new \in Group0
  BY <1>2 DEF Group0
<1> HIDE DEF new
<1>4. groups \in Seq(Group0)
  BY <1>1, <1>3
<1>5. chain \in Seq(Hand) /\ stack \in Seq(Frame) /\ ran \in Seq(Nat)
  BY <1>1
<1>6. Len(stack) = 0 /\ Len(ran) = 0
  BY <1>1
<1>7. Types
  BY <1>1, <1>4, <1>5 DEF Types
<1>8. Stacked
  BY <1>1, <1>6 DEF Stacked
<1>9. Counted
  BY <1>1, <1>6 DEF Counted
<1> QED BY <1>7, <1>8, <1>9 DEF Inv

\* What the steps of all days come to.
LEMMA Steps ==
    ASSUME Next
    PROVE  \/ \E g \in DOMAIN groups, prefix \in Prefix : Group(g, prefix)
           \/ \E g \in DOMAIN groups, kind \in {"user", "logger", "recovery"} : Use(g, kind)
           \/ Default
           \/ \E g : \E p \in Pattern : Get(g, p) \/ Static(g, p)
           \/ \E q \in Path : (day < 5 /\ Serve(q, <<Final(q)>>)) \/ Serve(q, Chain(q))
           \/ UserNext \/ UserReturn \/ Write \/ Fail \/ NotFound \/ ServeFile
           \/ \E kind \in {"logger", "recovery"} : WrapNext(kind) \/ WrapReturn(kind)
           \/ Recovered \/ Abort
<1>1. CASE Handlers
  BY <1>1 DEF Handlers
<1>2. CASE day = 1 /\ (Engine1 \/ ServeHTTP1 \/ Write1)
  BY <1>2 DEF Engine1, ServeHTTP1, Write1
<1>3. CASE day = 2 /\ (Engine2 \/ ServeHTTP2 \/ Write2)
  BY <1>3 DEF Engine2, ServeHTTP2, Write2, Engine1, ServeHTTP1, Write1
<1>4. CASE day = 3 /\ (Engine3 \/ ServeHTTP3 \/ Write3)
  BY <1>4 DEF Engine3, ServeHTTP3, Write3, Engine2, ServeHTTP2, Write2, Engine1, ServeHTTP1,
              Write1
<1>5. CASE day = 4 /\ (Engine4 \/ ServeHTTP4 \/ Write4)
  BY <1>5 DEF Engine4, ServeHTTP4, Write4, ServeHTTP3, Write3, ServeHTTP2, Write2, ServeHTTP1,
              Write1
<1> USE DEF Engine5, Engine4, Use5, ServeHTTP5, Write5, Write4, Write3, Write2, Write1, Control5,
            Logger5
<1>6. CASE day = 5 /\ (Engine5 \/ Use5 \/ ServeHTTP5 \/ Write5 \/ Control5 \/ Logger5)
  BY <1>6
<1> USE DEF Engine6, Use6, Static6, ServeHTTP6, Write6, Control6, Logger6
<1>7. CASE day = 6 /\ (Engine6 \/ Use6 \/ Static6 \/ ServeHTTP6 \/ Write6 \/ Control6 \/ Logger6)
  BY <1>7
<1>8. CASE day = 7 /\ (\/ Engine7 \/ Use7 \/ Static7 \/ ServeHTTP7 \/ Write7 \/ Control7
                       \/ Logger7 \/ Recovery7)
  BY <1>8 DEF Engine7, Use7, Static7, ServeHTTP7, Write7, Control7, Logger7, Recovery7
<1> QED BY <1>1, <1>2, <1>3, <1>4, <1>5, <1>6, <1>7, <1>8 DEF Next

\* every step keeps it,
LEMMA NextKeeps ==
    ASSUME Inv, [Next]_vars
    PROVE  Inv'
<1>1. CASE UNCHANGED vars
  BY <1>1, SetupKeeps DEF vars, engineVars, Inv, Types
<1>2. CASE Next
  <2>1. ASSUME NEW g \in DOMAIN groups, NEW prefix \in Prefix, Group(g, prefix) PROVE Inv'
    <3>1. UNCHANGED <<phase, requestVars>>
      BY <2>1 DEF Group
    <3> QED BY <2>1, <3>1, GroupTypes, SetupKeeps DEF Inv
  <2>2. ASSUME NEW g \in DOMAIN groups, NEW kind \in {"user", "logger", "recovery"}, Use(g, kind)
        PROVE  Inv'
    <3>1. UNCHANGED <<phase, requestVars>> /\ groups' = [groups EXCEPT ![g].use = Append(@, kind)]
      BY <2>2 DEF Use
    <3>2. kind \in Uses
      BY DEF Uses
    <3> QED BY <3>1, <3>2, UseTypes, SetupKeeps DEF Inv
  <2>3. CASE Default
    <3>1. UNCHANGED <<phase, requestVars>>
      BY <2>3 DEF Default
    <3> QED BY <2>3, <3>1, DefaultTypes, SetupKeeps
  <2>4. ASSUME NEW g, NEW p \in Pattern, Get(g, p) \/ Static(g, p) PROVE Inv'
    <3>1. UNCHANGED <<groups, phase, requestVars>>
      BY <2>4 DEF Get, Static
    <3> QED BY <3>1, SetupKeeps DEF Inv, Types
  <2>5. ASSUME NEW q \in Path, (day < 5 /\ Serve(q, <<Final(q)>>)) \/ Serve(q, Chain(q))
        PROVE  Inv'
    <3>1. <<Final(q)>> \in Seq(Hand) /\ Len(<<Final(q)>>) # 0
      BY FinalIsHand
    <3> QED BY <2>5, <3>1, ChainIsSeq, ServeKeeps DEF Inv
  <2>6. CASE UserNext
    BY <2>6, CallKeeps DEF UserNext
  <2>7. CASE UserReturn
    <3>1. /\ Running({"user", "route"}) /\ "recovery" \notin {"user", "route"}
          /\ Loop(index + 1, Front(stack)) /\ UNCHANGED <<requestFixed, failed>> /\ sent' = sent
      BY <2>7 DEF UserReturn, Return
    <3> QED BY <3>1, ReturnKeeps DEF Inv, Types
  <2>8. CASE Write
    BY <2>8, WriteKeeps
  <2>9. CASE Fail
    BY <2>9, FailKeeps
  <2>10. CASE NotFound
    <3>1. /\ Running({"notfound"}) /\ "recovery" \notin {"notfound"}
          /\ Loop(index + 1, Front(stack)) /\ UNCHANGED <<requestFixed, failed>>
          /\ sent' = Send(200) \/ sent' = Send(404)
      BY <2>10 DEF NotFound
    <3>2. sent' \in Nat /\ (sent # 0 => sent' # 0)
      BY <3>1 DEF Send, Inv, Types
    <3> QED BY <3>1, <3>2, ReturnKeeps
  <2>11. CASE ServeFile
    <3>1. /\ Running({"static"}) /\ "recovery" \notin {"static"}
          /\ Loop(index + 1, Front(stack)) /\ UNCHANGED <<requestFixed, failed>>
          /\ sent' = Send(200) \/ sent' = Send(404)
      BY <2>11 DEF ServeFile
    <3>2. sent' \in Nat /\ (sent # 0 => sent' # 0)
      BY <3>1 DEF Send, Inv, Types
    <3> QED BY <3>1, <3>2, ReturnKeeps
  <2>12. ASSUME NEW kind, WrapNext(kind) PROVE Inv'
    BY <2>12, CallKeeps DEF WrapNext
  <2>13. ASSUME NEW kind, WrapReturn(kind) PROVE Inv'
    <3>1. /\ Running({kind}) /\ Last(stack).nexts # 0
          /\ Loop(index + 1, Front(stack)) /\ UNCHANGED <<requestFixed, failed>> /\ sent' = sent
      BY <2>13 DEF WrapReturn, Return
    <3> QED BY <3>1, ReturnKeeps DEF Inv, Types
  <2>14. CASE Recovered
    BY <2>14, RecoveredKeeps
  <2>15. CASE Abort
    BY <2>15, AbortKeeps
  <2> QED BY <1>2, <2>1, <2>2, <2>3, <2>4, <2>5, <2>6, <2>7, <2>8, <2>9, <2>10, <2>11, <2>12,
             <2>13, <2>14, <2>15, Steps
<1> QED BY <1>1, <1>2

\* and so it always holds.
LEMMA Invariance == Spec => []Inv
<1>1. Init => Inv
  BY InitInv
<1>2. Inv /\ [Next]_vars => Inv'
  BY NextKeeps
<1> QED BY <1>1, <1>2, PTL DEF Spec

\* Whichever handlers call c.Next, not at all or more than once, every one is called
\* once, in order and none left out, until one fails or panics (context.go:41-47).
THEOREM CallsRunInOrder == Spec => []RunsInOrder
<1>1. Inv => RunsInOrder
  <2>1. SUFFICES ASSUME Inv PROVE RunsInOrder
    OBVIOUS
  <2>2. DOMAIN ran = 1..Len(ran)
    BY <2>1, LenProperties DEF Inv, Types
  <2>3. phase = "over" => ~(index < Len(chain))
    BY <2>1, LenProperties DEF Inv, Types, Counted
  <2> QED BY <2>1, <2>2, <2>3 DEF Inv, Counted, RunsInOrder
<1> QED BY <1>1, Invariance, PTL

\* After c.Fail, that of Recovery included, no handler is called, whoever still
\* returns to its loop or calls c.Next (context.go:50).
THEOREM FailEndsChain == Spec => []EndsAfterFail
<1>1. Inv => EndsAfterFail
  BY DEF Inv, Counted, EndsAfterFail
<1> QED BY <1>1, Invariance, PTL

\* A panic gets away only from a handler that comes before every Recovery of the
\* chain; any other is answered (recovery.go:13-24).
THEOREM PanicsAreAnswered == Spec => []PanicsAnswered
<1>1. Inv => PanicsAnswered
  <2>1. SUFFICES ASSUME Inv PROVE PanicsAnswered
    OBVIOUS
  <2>2. ASSUME phase = "aborted", NEW i \in DOMAIN chain, chain[i].kind = "recovery"
        PROVE  i > Last(stack).at + 1
    <3> DEFINE n == Len(stack)
    <3>1. i \in 1..Len(chain) /\ Len(chain) \in Nat
      BY <2>1, LenProperties DEF Inv, Types
    <3>2. stack \in Seq(Frame) /\ n \in Nat /\ n # 0
      BY <2>1, <2>2, LenProperties DEF Inv, Types, Stacked
    <3>3. n \in 1..n
      BY <3>2
    <3>4. stack[n] \in Frame
      BY <3>2, <3>3, ElementOfSeq
    <3>5. stack[n].at \in Nat
      BY <3>4 DEF Frame
    <3>6. i - 1 \in RecoveryAt
      <4>1. i - 1 \in 0..Len(chain) - 1 /\ (i - 1) + 1 = i
        BY <3>1
      <4> QED BY <2>2, <4>1 DEF RecoveryAt
    <3>7. \A t \in 1..n : stack[t].at # i - 1
      BY <2>1, <2>2, <3>6 DEF Inv, Stacked
    <3>8. ~(i - 1 < stack[n].at)
      <4>1. \A u \in 1..n - 1 : u \in 1..n
        BY <3>2
      <4> QED BY <2>1, <3>3, <3>6, <3>7, <4>1 DEF Inv, Stacked
    <3>9. Last(stack) = stack[n]
      BY DEF Last
    <3> QED BY <3>1, <3>3, <3>5, <3>7, <3>8, <3>9
  <2>3. phase = "over" /\ failed # 0 => sent # 0
    BY <2>1 DEF Inv, Counted
  <2> QED BY <2>2, <2>3 DEF PanicsAnswered
<1> QED BY <1>1, Invariance, PTL

-----------------------------------------------------------------------------
(* The router, as the engine uses it *)

\* A step of the engine registers a route, or leaves the router alone.
LEMMA RouterSteps ==
    ASSUME [Next]_vars
    PROVE  UNCHANGED routerVars \/ \E p \in Pattern : AddRoute(p)
<1>1. CASE UNCHANGED vars
  BY <1>1 DEF vars, engineVars
<1>2. CASE Next
  <2>1. ASSUME NEW g, NEW p \in Pattern, Get(g, p) \/ Static(g, p) PROVE AddRoute(p)
    BY <2>1 DEF Get, Static
  <2>2. CASE \E g \in DOMAIN groups, prefix \in Prefix : Group(g, prefix)
    BY <2>2 DEF Group
  <2>3. CASE \E g \in DOMAIN groups, kind \in {"user", "logger", "recovery"} : Use(g, kind)
    BY <2>3 DEF Use
  <2>4. CASE Default
    BY <2>4 DEF Default
  <2>5. CASE \E q \in Path : (day < 5 /\ Serve(q, <<Final(q)>>)) \/ Serve(q, Chain(q))
    BY <2>5 DEF Serve, engineVars
  <2>6. CASE UserNext \/ UserReturn \/ Write \/ Fail \/ NotFound \/ ServeFile
    BY <2>6 DEF UserNext, CallNext, UserReturn, Return, Write, Fail, NotFound, ServeFile,
                requestFixed, engineVars
  <2>7. CASE \E kind \in {"logger", "recovery"} : WrapNext(kind) \/ WrapReturn(kind)
    BY <2>7 DEF WrapNext, CallNext, WrapReturn, Return, requestFixed, engineVars
  <2>8. CASE Recovered \/ Abort
    BY <2>8 DEF Recovered, Abort, requestFixed, engineVars
  <2> QED BY <1>2, <2>1, <2>2, <2>3, <2>4, <2>5, <2>6, <2>7, <2>8, Steps
<1> QED BY <1>1, <1>2

\* So the router keeps its invariant.
LEMMA RouterInvariance == Spec => []RouterInv
<1>1. Init => RouterInv
  BY RouterInvInit DEF Init
<1>2. RouterInv /\ [Next]_vars => RouterInv'
  BY RouterSteps, RouterInvAdd, RouterInvStays
<1> QED BY <1>1, <1>2, PTL DEF Spec

\* From day 4 on, if no route was registered into a wildcard (trie.go:16), every path
\* finds the best of its routes, on day 3 the first, before the same, and none just when
\* it has none; and with the parameters the pattern is the path (router.go:76-91).
THEOREM RoutesAreBest == Spec => []FindsBest
<1>1. RouterInv => FindsBest
  BY BestIsRight
<1> QED BY <1>1, RouterInvariance, PTL

\* Registering a route, whatever there was before, leaves no path without a route
\* that had one (trie.go:47, 63).
THEOREM RoutesAreKept == Spec => NothingLost
<1>1. RouterInv /\ [Next]_vars =>
        [routes' # routes => \A q \in Path :
            GetRoute(q) # NoRoute => GetRoute(q)' # NoRoute]_routerVars
  <2>1. SUFFICES ASSUME RouterInv, [Next]_vars, NEW p \in Pattern, AddRoute(p),
                        NEW q \in Path, GetRoute(q) # NoRoute
                 PROVE  GetRoute(q)' # NoRoute
    BY RouterSteps
  <2>2. Sound /\ routes \in Seq(Pattern) /\ day \in Nat
    BY <2>1, DaysAssumption DEF RouterInv
  <2> QED BY <2>1, <2>2, NoneIsLost
<1> QED BY <1>1, RouterInvariance, PTL DEF Spec, NothingLost

-----------------------------------------------------------------------------
(* The middlewares of the groups of a route *)

\* s has the middlewares u of group g from place at + 1 on, and no others of the group.
Placed(s, u, g, at) ==
    /\ at \in 0..Len(s) - Len(u)
    /\ \A i \in 1..Len(s) : IF i - at \in 1..Len(u) THEN s[i] = Handler(u[i - at], g)
                                                    ELSE s[i].grp # g

\* More handlers of other groups leave them there.
LEMMA PlacedBefore ==
    ASSUME NEW S, NEW s \in Seq(S), NEW t \in Seq(S), NEW u \in Seq(Uses), NEW g, NEW at,
           Placed(s, u, g, at), \A i \in 1..Len(t) : t[i].grp # g
    PROVE  Placed(s \o t, u, g, at)
<1>1. /\ Len(s) \in Nat /\ Len(t) \in Nat /\ Len(u) \in Nat /\ Len(s \o t) = Len(s) + Len(t)
      /\ \A i \in 1..Len(s) + Len(t) : (s \o t)[i] = IF i <= Len(s) THEN s[i] ELSE t[i - Len(s)]
  BY ConcatProperties, LenProperties
<1>2. at \in 0..Len(s) - Len(u)
  BY DEF Placed
<1>3. ASSUME NEW i \in 1..Len(s) + Len(t)
      PROVE  IF i - at \in 1..Len(u) THEN (s \o t)[i] = Handler(u[i - at], g)
                                     ELSE (s \o t)[i].grp # g
  <2>1. CASE i <= Len(s)
    <3>1. i \in 1..Len(s) /\ (s \o t)[i] = s[i]
      BY <1>1, <2>1
    <3> QED BY <3>1 DEF Placed
  <2>2. CASE ~(i <= Len(s))
    <3>1. i - Len(s) \in 1..Len(t) /\ (s \o t)[i] = t[i - Len(s)] /\ i - at \notin 1..Len(u)
      BY <1>1, <1>2, <2>2
    <3> QED BY <3>1
  <2> QED BY <2>1, <2>2
<1>4. at \in 0..Len(s \o t) - Len(u)
  BY <1>1, <1>2
<1> QED BY <1>1, <1>3, <1>4 DEF Placed

\* They are put after the handlers of other groups.
LEMMA PlacedAfter ==
    ASSUME NEW S, NEW s \in Seq(S), NEW u \in Seq(Uses), NEW g, NEW t \in Seq(S),
           t = [i \in DOMAIN u |-> Handler(u[i], g)], \A i \in 1..Len(s) : s[i].grp # g
    PROVE  Placed(s \o t, u, g, Len(s))
<1>1. /\ Len(s) \in Nat /\ Len(t) \in Nat /\ Len(u) \in Nat /\ Len(s \o t) = Len(s) + Len(t)
      /\ \A i \in 1..Len(s) + Len(t) : (s \o t)[i] = IF i <= Len(s) THEN s[i] ELSE t[i - Len(s)]
      /\ DOMAIN t = 1..Len(t) /\ DOMAIN u = 1..Len(u)
  BY ConcatProperties, LenProperties
<1>2. Len(t) = Len(u)
  <2>1. DOMAIN t = DOMAIN u
    OBVIOUS
  <2>2. \A m, n \in Nat : 1..m = 1..n => m = n
    <3>1. SUFFICES ASSUME NEW m \in Nat, NEW n \in Nat, 1..m = 1..n PROVE m = n
      OBVIOUS
    <3>2. (m # 0 => m \in 1..n) /\ (n # 0 => n \in 1..m)
      BY <3>1
    <3> QED BY <3>1, <3>2
  <2> QED BY <1>1, <2>1, <2>2
<1>3. ASSUME NEW i \in 1..Len(s) + Len(t)
      PROVE  IF i - Len(s) \in 1..Len(u) THEN (s \o t)[i] = Handler(u[i - Len(s)], g)
                                         ELSE (s \o t)[i].grp # g
  <2>1. CASE i <= Len(s)
    <3>1. i \in 1..Len(s) /\ (s \o t)[i] = s[i] /\ i - Len(s) \notin 1..Len(u)
      BY <1>1, <2>1
    <3> QED BY <3>1
  <2>2. CASE ~(i <= Len(s))
    <3>1. i - Len(s) \in 1..Len(u) /\ (s \o t)[i] = t[i - Len(s)]
      BY <1>1, <1>2, <2>2
    <3>2. i - Len(s) \in DOMAIN u
      BY <1>1, <3>1
    <3> QED BY <3>1, <3>2
  <2> QED BY <2>1, <2>2
<1>4. Len(s) \in 0..Len(s \o t) - Len(u)
  BY <1>1, <1>2
<1> QED BY <1>1, <1>3, <1>4 DEF Placed

\* A group whose prefix the path has is in the chain.
LEMMA ChainHas ==
    ASSUME Types, NEW q, NEW g \in DOMAIN groups, HasPrefix(q, groups[g].prefix)
    PROVE  \E at : Placed(Chain(q), groups[g].use, g, at)
<1> DEFINE H == [kind : Kinds, grp : 0..Len(groups)]
           part(k) == IF HasPrefix(q, groups[k].prefix)
                      THEN [i \in DOMAIN groups[k].use |-> Handler(groups[k].use[i], k)]
                      ELSE << >>
           parts == [k \in DOMAIN groups |-> part(k)]
           n == Len(groups)
           u == groups[g].use
<1>1. groups \in Seq(Group0) /\ DOMAIN groups = 1..n /\ n \in Nat
  BY LenProperties DEF Types
<1>2. ASSUME NEW k \in DOMAIN groups
      PROVE  part(k) \in Seq(H) /\ \A i \in 1..Len(part(k)) : part(k)[i].grp = k
  <2> DEFINE use == groups[k].use
             t == [i \in DOMAIN use |-> Handler(use[i], k)]
  <2>1. use \in Seq(Uses) /\ k \in 0..n
    <3>1. groups[k] \in Group0 /\ k \in 0..n
      BY <1>1, ElementOfSeq
    <3> QED BY <3>1 DEF Group0
  <2>2. Len(use) \in Nat /\ DOMAIN use = 1..Len(use)
    BY <2>1, LenProperties
  <2>3. \A i \in 1..Len(use) : use[i] \in Kinds
    <3>1. \A i \in 1..Len(use) : use[i] \in Uses
      BY <2>1, ElementOfSeq
    <3> QED BY <3>1 DEF Uses, Kinds
  <2>4. t \in [1..Len(use) -> H] /\ \A i \in 1..Len(use) : t[i].grp = k
    BY <2>1, <2>2, <2>3 DEF Handler
  <2>5. t \in Seq(H) /\ Len(t) = Len(use)
    BY <2>2, <2>4, FunctionIsSeq
  <2>6. << >> \in Seq(H) /\ Len(<< >>) = 0
    OBVIOUS
  <2> HIDE DEF use
  <2>7. part(k) = t \/ part(k) = << >>
    BY DEF use
  <2> HIDE DEF t, part
  <2>8. CASE part(k) = t
    BY <2>2, <2>4, <2>5, <2>8
  <2>9. CASE part(k) = << >>
    <3>1. part(k) \in Seq(H) /\ Len(part(k)) = 0
      BY <2>6, <2>9
    <3> QED BY <3>1
  <2> QED BY <2>7, <2>8, <2>9
<1>3. parts \in [1..n -> Seq(H)] /\ \A k \in 1..n : parts[k] = part(k)
  BY <1>1, <1>2
<1>4. parts \in Seq(Seq(H)) /\ Len(parts) = n
  <2> HIDE DEF parts, H, n
  <2> QED BY <1>1, <1>3, FunctionIsSeq DEF n
<1>5. Chain(q) = Append(FlattenSeq(parts), Final(q))
  BY DEF Chain
<1>6. g \in 1..n /\ parts[g] = [i \in DOMAIN u |-> Handler(u[i], g)] /\ parts[g] \in Seq(H)
  BY <1>1, <1>3
<1>7. u \in Seq(Uses)
  <2>1. groups[g] \in Group0
    BY <1>1, <1>6, ElementOfSeq
  <2> QED BY <2>1 DEF Group0
<1>8. \A k \in 1..n : parts[k] \in Seq(H) /\ \A i \in 1..Len(parts[k]) : parts[k][i].grp = k
  BY <1>1, <1>2, <1>3
<1>9. Final(q) \in H /\ Final(q).grp = 0
  BY <1>1, FinalIsHand DEF Hand
<1> HIDE DEF H, parts, u, part, n
<1>10. PICK f \in [0..n -> Seq(H)] : /\ f[0] = << >> /\ f[n] = FlattenSeq(parts)
                                     /\ \A k \in 1..n : f[k] = f[k - 1] \o parts[k]
  BY <1>4, FlattenSums
<1> DEFINE at == Len(f[g - 1])
           Has(k) == IF k < g THEN \A i \in 1..Len(f[k]) : f[k][i].grp < g
                              ELSE Placed(f[k], u, g, at)
<1>11. ASSUME NEW k \in 1..n, Has(k - 1) PROVE Has(k)
  <2>1. /\ f[k - 1] \in Seq(H) /\ parts[k] \in Seq(H) /\ f[k] = f[k - 1] \o parts[k]
        /\ k \in Nat /\ k - 1 \in 0..n /\ n \in Nat /\ g \in Nat
    <3>1. n \in Nat /\ g \in Nat
      BY <1>1, <1>6 DEF n
    <3>2. k \in Nat /\ k - 1 \in 0..n
      BY <3>1
    <3>3. f[k - 1] \in Seq(H)
      BY <3>2, <1>10
    <3>4. parts[k] \in Seq(H) /\ f[k] = f[k - 1] \o parts[k]
      BY <1>8, <1>10
    <3> QED BY <3>1, <3>2, <3>3, <3>4
  <2> DEFINE a == f[k - 1]
             b == parts[k]
             c == f[k]
  <2>2. a \in Seq(H) /\ b \in Seq(H) /\ c = a \o b
    BY <2>1
  <2>3. CASE k < g
    <3>1. \A i \in 1..Len(a) : a[i].grp < g
      <4>1. k - 1 < g
        BY <2>1, <2>3
      <4> QED BY <1>11, <4>1
    <3>2. \A i \in 1..Len(b) : b[i].grp < g
      BY <1>8, <2>3
    <3> HIDE DEF a, b, c
    <3>3. /\ Len(a) \in Nat /\ Len(b) \in Nat /\ Len(c) = Len(a) + Len(b)
          /\ \A i \in 1..Len(a) + Len(b) : c[i] = IF i <= Len(a) THEN a[i] ELSE b[i - Len(a)]
      BY <2>2, ConcatProperties, LenProperties
    <3>4. ASSUME NEW i \in 1..Len(c) PROVE c[i].grp < g
      <4>1. CASE i <= Len(a)
        <5>1. i \in 1..Len(a) /\ c[i] = a[i]
          BY <3>3, <3>4, <4>1
        <5> QED BY <3>1, <5>1
      <4>2. CASE ~(i <= Len(a))
        <5>1. i - Len(a) \in 1..Len(b) /\ c[i] = b[i - Len(a)]
          BY <3>3, <3>4, <4>2
        <5> QED BY <3>2, <5>1
      <4> QED BY <4>1, <4>2
    <3>5. \A i \in 1..Len(f[k]) : f[k][i].grp < g
      BY <3>4 DEF c
    <3> QED BY <2>3, <3>5
  <2>4. CASE k = g
    <3>1. \A i \in 1..Len(f[g - 1]) : f[g - 1][i].grp # g
      <4>1. ASSUME NEW i \in 1..Len(f[g - 1]) PROVE f[g - 1][i].grp # g
        <5>1. g - 1 < g
          BY <2>1
        <5>2. f[g - 1][i].grp < g
          BY <1>11, <2>4, <5>1
        <5>3. f[g - 1][i] \in H
          BY <2>1, <2>4, ElementOfSeq
        <5>4. f[g - 1][i].grp \in 0..Len(groups)
          BY <5>3 DEF H
        <5> QED BY <2>1, <5>2, <5>4
      <4> QED BY <4>1
    <3>2. Placed(f[g - 1] \o parts[g], u, g, Len(f[g - 1]))
      BY <1>6, <1>7, <2>1, <2>4, <3>1, PlacedAfter
    <3>3. ~(k < g)
      BY <2>1, <2>4
    <3> QED BY <2>1, <2>4, <3>2, <3>3
  <2>5. CASE k > g
    <3>1. ~(k - 1 < g) /\ ~(k < g) /\ k # g
      BY <2>1, <2>5
    <3>2. \A i \in 1..Len(parts[k]) : parts[k][i].grp # g
      BY <1>8, <3>1
    <3>3. Placed(f[k - 1], u, g, at)
      BY <1>11, <3>1
    <3>4. Placed(f[k - 1] \o parts[k], u, g, at)
      BY <1>7, <2>1, <3>2, <3>3, PlacedBefore
    <3> QED BY <2>1, <3>1, <3>4
  <2> HIDE DEF Has, a, b, c
  <2>6. k < g \/ k = g \/ k > g
    BY <2>1
  <2> QED BY <2>3, <2>4, <2>5, <2>6
<1>12. Has(0)
  <2>1. 0 < g /\ Len(f[0]) = 0
    BY <1>6, <1>10
  <2> QED BY <2>1
<1>13. Has(n)
  <2> HIDE DEF Has
  <2> DEFINE S == {k \in Nat : k <= n => Has(k)}
  <2>1. 0 \in S
    BY <1>12
  <2>2. ASSUME NEW k \in S PROVE k + 1 \in S
    <3>1. SUFFICES ASSUME k + 1 <= n PROVE Has(k + 1)
      OBVIOUS
    <3>2. k + 1 \in 1..n /\ (k + 1) - 1 = k /\ k <= n
      BY <1>1, <3>1 DEF n
    <3> QED BY <1>11, <2>2, <3>2
  <2>3. S = Nat
    BY <2>1, <2>2, Induct
  <2>4. n \in Nat /\ n <= n
    BY <1>1 DEF n
  <2> QED BY <2>3, <2>4
<1>14. Placed(FlattenSeq(parts), u, g, at)
  <2>1. ~(n < g)
    BY <1>1, <1>6 DEF n
  <2> QED BY <1>10, <1>13, <2>1
<1> HIDE DEF at
<1>15. FlattenSeq(parts) \in Seq(H)
  BY <1>4, Flatten
<1>16. FlattenSeq(parts) \o <<Final(q)>> = Chain(q)
  BY <1>5, <1>9, <1>15, AppendIsConcat
<1>17. <<Final(q)>> \in Seq(H) /\ \A i \in 1..Len(<<Final(q)>>) : <<Final(q)>>[i].grp # g
  BY <1>6, <1>9
<1>18. Placed(Chain(q), u, g, at)
  BY <1>7, <1>14, <1>15, <1>16, <1>17, PlacedBefore
<1> QED BY <1>18 DEF u

\* The path has the prefix of every group the route it finds is in.
LEMMA RouteHasPrefix ==
    ASSUME RouterInv, Orderly, day >= 4, NEW q \in Path, GetRoute(q) # NoRoute,
           NEW prefix \in Seq(Part), IsPrefix(prefix, GetRoute(q)), Range(prefix) \cap Wild = {}
    PROVE  HasPrefix(q, prefix)
<1> DEFINE r == GetRoute(q)
           p == ParsePattern(r)
           s == ParsePattern(q)
           n == Len(prefix)
<1>1. q \in Seq(Part)
  BY PatternAssumption
<1>2. r \in Pattern /\ Instance(p, s)
  BY <1>1, RouteFits
<1>3. r \in Seq(Part)
  BY <1>2, PatternAssumption
<1>4. n \in Nat /\ Len(r) \in Nat /\ n <= Len(r) /\ SubSeq(prefix, 1, n) = SubSeq(r, 1, n)
  BY <1>3, LenProperties DEF IsPrefix
<1> HIDE DEF r
<1>5. \A i \in 1..n : prefix[i] = r[i] /\ prefix[i] \in Part /\ prefix[i] \notin Wild
  <2>1. SUFFICES ASSUME NEW i \in 1..n
                 PROVE  prefix[i] = r[i] /\ prefix[i] \in Part /\ prefix[i] \notin Wild
    OBVIOUS
  <2>2. \A j \in 1..n : prefix[j] \in Part
    BY ElementOfSeq
  <2>3. \A j \in 1..n : r[j] \in Part
    BY <1>3, <1>4, ElementOfSeq
  <2>4. i \in 1..n - 1 + 1 /\ 1 + i - 1 = i
    BY <1>4
  <2>5. SubSeq(prefix, 1, n)[i] = prefix[1 + i - 1]
    BY <1>4, <2>2, <2>4, SubSeqProperties
  <2>6. SubSeq(r, 1, n)[i] = r[1 + i - 1]
    BY <1>4, <2>3, <2>4, SubSeqProperties
  <2>7. prefix[i] \in Range(prefix)
    BY LenProperties DEF Range
  <2> QED BY <1>4, <2>2, <2>4, <2>5, <2>6, <2>7
<1>6. /\ Len(p) \in Nat /\ \A i \in 1..Len(p) : p[i] = r[i]
      /\ Len(p) = Len(r) \/ (Len(p) # 0 /\ p[Len(p)] \in Star)
  BY <1>3, ParsedIs
<1>7. /\ s \in Seq(Part) /\ Len(s) \in Nat /\ Len(q) \in Nat /\ Len(s) <= Len(q)
      /\ \A i \in 1..Len(s) : s[i] = q[i]
  BY <1>1, ParsedIs
<1>8. p \in Seq(Part)
  BY <1>3, ParsedIs
<1>9. Len(p) <= Len(s) /\ \A i \in 1..Len(p) : Matches(p[i], s[i])
  BY <1>2, <1>8, LenProperties DEF Instance
<1> HIDE DEF p, s, n
<1>10. n <= Len(p)
  <2>1. SUFFICES ASSUME ~(n <= Len(p)) PROVE FALSE
    OBVIOUS
  <2>2. Len(p) # 0 /\ p[Len(p)] \in Star
    BY <1>4, <1>6, <2>1
  <2>3. Len(p) \in 1..n /\ Len(p) \in 1..Len(p)
    BY <1>4, <1>6, <2>1, <2>2
  <2> QED BY <1>5, <1>6, <2>2, <2>3 DEF Wild
<1>11. n <= Len(q) /\ \A i \in 1..n : prefix[i] = q[i]
  <2>1. SUFFICES ASSUME NEW i \in 1..n PROVE prefix[i] = q[i]
    BY <1>4, <1>6, <1>7, <1>9, <1>10
  <2>2. i \in 1..Len(p) /\ i \in 1..Len(s)
    BY <1>4, <1>6, <1>7, <1>9, <1>10
  <2> QED BY <1>5, <1>6, <1>7, <1>9, <2>1, <2>2 DEF Matches
<1>12. CASE n = 0
  BY <1>12 DEF HasPrefix, n
<1>13. CASE n # 0
  <2>1. SubSeq(q, 1, n - 1) = SubSeq(prefix, 1, n - 1)
    <3>1. \A i \in 1..n - 1 : i \in 1..n /\ q[i] \in Part /\ prefix[i] \in Part /\ q[i] = prefix[i]
      BY <1>4, <1>5, <1>11
    <3>2. /\ SubSeq(q, 1, n - 1) \in Seq(Part) /\ SubSeq(prefix, 1, n - 1) \in Seq(Part)
          /\ Len(SubSeq(q, 1, n - 1)) = IF 1 <= n - 1 THEN n - 1 - 1 + 1 ELSE 0
          /\ Len(SubSeq(prefix, 1, n - 1)) = IF 1 <= n - 1 THEN n - 1 - 1 + 1 ELSE 0
          /\ \A i \in 1..n - 1 - 1 + 1 : SubSeq(q, 1, n - 1)[i] = q[1 + i - 1]
          /\ \A i \in 1..n - 1 - 1 + 1 : SubSeq(prefix, 1, n - 1)[i] = prefix[1 + i - 1]
      BY <1>4, <3>1, SubSeqProperties
    <3>3. /\ Len(SubSeq(q, 1, n - 1)) = n - 1 /\ Len(SubSeq(prefix, 1, n - 1)) = n - 1
          /\ \A i \in 1..n - 1 : i \in 1..n - 1 - 1 + 1 /\ 1 + i - 1 = i
      BY <1>4, <1>13, <3>2
    <3>4. \A i \in 1..n - 1 : SubSeq(q, 1, n - 1)[i] = SubSeq(prefix, 1, n - 1)[i]
      BY <3>1, <3>2, <3>3
    <3> QED BY <3>2, <3>3, <3>4, SeqEqual
  <2>2. n \in 1..n
    BY <1>4, <1>13
  <2>3. <<prefix[n], q[n]>> \in Starts
    BY <1>5, <1>11, <2>2, StartsAssumption
  <2> QED BY <1>11, <2>1, <2>3 DEF HasPrefix, n
<1> QED BY <1>12, <1>13

\* A step sets the engine up, starts to serve, or serves, which leaves the engine, the
\* path and the chain alone.
LEMMA Phases ==
    ASSUME [Next]_vars
    PROVE  \/ UNCHANGED vars
           \/ phase = "setup" /\ phase' = "setup" /\ UNCHANGED requestVars
           \/ \E q \in Path : (day < 5 /\ Serve(q, <<Final(q)>>)) \/ Serve(q, Chain(q))
           \/ phase = "serving" /\ UNCHANGED requestFixed
<1>1. CASE Next
  <2>1. CASE \E g \in DOMAIN groups, prefix \in Prefix : Group(g, prefix)
    BY <2>1 DEF Group
  <2>2. CASE \E g \in DOMAIN groups, kind \in {"user", "logger", "recovery"} : Use(g, kind)
    BY <2>2 DEF Use
  <2>3. CASE Default
    BY <2>3 DEF Default
  <2>4. CASE \E g : \E p \in Pattern : Get(g, p) \/ Static(g, p)
    BY <2>4 DEF Get, Static
  <2>5. CASE UserNext \/ UserReturn \/ Write \/ Fail \/ NotFound \/ ServeFile
    BY <2>5 DEF UserNext, CallNext, UserReturn, Return, Write, Fail, NotFound, ServeFile,
                requestFixed, Running
  <2>6. CASE \E kind \in {"logger", "recovery"} : WrapNext(kind) \/ WrapReturn(kind)
    BY <2>6 DEF WrapNext, CallNext, WrapReturn, Return, requestFixed, Running
  <2>7. CASE Recovered \/ Abort
    BY <2>7 DEF Recovered, Abort, requestFixed, Running
  <2> QED BY <1>1, <2>1, <2>2, <2>3, <2>4, <2>5, <2>6, <2>7, Steps
<1> QED BY <1>1

\* From day 5 on the chain has the middlewares of every group whose prefix the path has.
Chained ==
    phase # "setup" /\ day >= 5 =>
        /\ path \in Path
        /\ \A g \in DOMAIN groups : HasPrefix(path, groups[g].prefix) =>
              \E at : Placed(chain, groups[g].use, g, at)

\* It keeps them while it serves.
LEMMA ChainedKeeps ==
    ASSUME Inv, day \in Days, Chained, [Next]_vars
    PROVE  Chained'
<1>1. CASE UNCHANGED vars
  BY <1>1 DEF vars, engineVars, routerVars, requestVars, Chained
<1>2. CASE phase' = "setup"
  BY <1>2 DEF Chained
<1>3. ASSUME NEW q \in Path, day < 5, Serve(q, <<Final(q)>>) PROVE Chained'
  <2>1. day' = day /\ ~(day >= 5)
    <3>1. day' = day
      BY <1>3 DEF Serve, engineVars, routerVars
    <3>2. ~(day >= 5)
      BY <1>3, DaysAssumption
    <3> QED BY <3>1, <3>2
  <2> QED BY <2>1 DEF Chained
<1>4. ASSUME NEW q \in Path, Serve(q, Chain(q)) PROVE Chained'
  <2>1. groups' = groups /\ path' = q /\ chain' = Chain(q)
    BY <1>4 DEF Serve, engineVars
  <2>2. \A g \in DOMAIN groups : HasPrefix(q, groups[g].prefix) =>
           \E at : Placed(Chain(q), groups[g].use, g, at)
    BY ChainHas DEF Inv
  <2> QED BY <2>1, <2>2 DEF Chained
<1>5. CASE phase = "serving" /\ UNCHANGED requestFixed
  BY <1>5 DEF requestFixed, engineVars, routerVars, Chained
<1> QED BY <1>1, <1>2, <1>3, <1>4, <1>5, Phases

\* A request that goes to a route passes the middlewares of all groups the route is
\* in, unless the route or the group's prefix leaves it open what they match
\* (gee.go:91-98).
THEOREM MiddlewaresApply == Spec => []GroupsApply
<1>1. Inv /\ RouterInv /\ Chained => GroupsApply
  <2>1. SUFFICES ASSUME Inv, RouterInv, Chained, day >= 5, phase = "serving", Orderly,
                        GetRoute(path) # NoRoute, NEW g \in DOMAIN groups,
                        IsPrefix(groups[g].prefix, GetRoute(path)),
                        Range(groups[g].prefix) \cap Wild = {}
                 PROVE  \E at \in 0..Len(chain) - Len(groups[g].use) : \A i \in DOMAIN chain :
                           IF i - at \in DOMAIN groups[g].use
                           THEN chain[i] = Handler(groups[g].use[i - at], g) ELSE chain[i].grp # g
    BY DEF GroupsApply
  <2> DEFINE prefix == groups[g].prefix
             use == groups[g].use
  <2>2. prefix \in Seq(Part) /\ use \in Seq(Uses)
    <3>1. groups \in Seq(Group0) /\ g \in 1..Len(groups)
      BY <2>1, LenProperties DEF Inv, Types
    <3>2. groups[g] \in Group0
      BY <3>1, ElementOfSeq
    <3> QED BY <3>2 DEF Group0
  <2>3. path \in Path /\ day >= 4
    <3>1. day \in Int
      BY <2>1, DaysAssumption DEF RouterInv
    <3> QED BY <2>1, <3>1 DEF Chained
  <2>4. HasPrefix(path, prefix)
    BY <2>1, <2>2, <2>3, RouteHasPrefix
  <2>5. PICK at : Placed(chain, use, g, at)
    BY <2>1, <2>4 DEF Chained
  <2>6. DOMAIN chain = 1..Len(chain) /\ DOMAIN use = 1..Len(use)
    BY <2>1, <2>2, LenProperties DEF Inv, Types
  <2> QED BY <2>5, <2>6 DEF Placed
<1>2. Init => Chained
  BY DEF Init, Chained
<1>3. Inv /\ RouterInv /\ Chained /\ [Next]_vars => Chained'
  BY ChainedKeeps DEF RouterInv
<1> QED BY <1>1, <1>2, <1>3, Invariance, RouterInvariance, PTL DEF Spec

-----------------------------------------------------------------------------
(* The types of a request, and how far c.index goes *)

\* How often a loop can go on for one handler: its calls of c.Next, and its return.
Weight == MaxNext + 1

\* With l handlers in the chain, r of them called and s the stack, c.index is i at most:
\* each frame has a bound of its own, which those above it leave it room for.
Budget(l, r, s, i) ==
    \E f \in [0..Len(s) -> l..l + r * Weight] :
        /\ i <= f[Len(s)]
        /\ \A t \in 1..Len(s) : f[t] + Weight - s[t].nexts <= f[t - 1]

\* The weight is a positive number.
LEMMA WeightIs == MaxNext \in Nat /\ Weight \in Nat /\ Weight >= 2 /\ Weight = MaxNext + 1
BY BoundAssumption DEF Weight

\* What a frame leaves to the one below.
LEMMA Room ==
    ASSUME NEW lo \in Int, NEW hi \in Int, NEW a \in lo..hi, NEW b \in lo..hi,
           NEW x \in Nat, a + Weight - x <= b
    PROVE  /\ (a + Weight) + Weight - x <= b + Weight
           /\ x <= MaxNext => a + 1 <= b /\ a + 1 \in lo..hi /\ lo + 1 <= b
           /\ (a + 1) + Weight - (x + 1) <= b
BY WeightIs

\* One more handler may be called.
LEMMA BudgetCalls ==
    ASSUME NEW l \in Nat, NEW r \in Nat, NEW s \in Seq(Frame), NEW i \in Int, Budget(l, r, s, i),
           NEW new \in Frame, new.nexts = 0
    PROVE  Budget(l, r + 1, Append(s, new), i)
<1> DEFINE n == Len(s)
           max == l + r * Weight
<1>1. n \in Nat /\ max \in Int /\ l + (r + 1) * Weight = max + Weight /\ Weight \in Nat
  BY WeightIs, LenProperties
<1>2. PICK f \in [0..n -> l..max] : /\ i <= f[n]
                                    /\ \A t \in 1..n : f[t] + Weight - s[t].nexts <= f[t - 1]
  BY DEF Budget
<1>3. Len(Append(s, new)) = n + 1 /\ \A t \in 1..n + 1 : Append(s, new)[t] = IF t = n + 1 THEN new ELSE s[t]
  BY <1>1, AppendProperties
<1> HIDE DEF n, max
<1> DEFINE g == [t \in 0..n + 1 |-> IF t = n + 1 THEN f[n] ELSE f[t] + Weight]
<1>4. g \in [0..n + 1 -> l..max + Weight]
  <2>1. ASSUME NEW t \in 0..n + 1
        PROVE  (IF t = n + 1 THEN f[n] ELSE f[t] + Weight) \in l..max + Weight
    <3>1. CASE t = n + 1
      <4>1. f[n] \in l..max
        BY <1>1, <1>2
      <4> QED BY <1>1, <3>1, <4>1
    <3>2. CASE t # n + 1
      <4>1. f[t] \in l..max
        BY <1>1, <1>2, <2>1, <3>2
      <4> QED BY <1>1, <3>2, <4>1
    <3> QED BY <3>1, <3>2
  <2> QED BY <2>1
<1>5. i <= g[n + 1]
  BY <1>1, <1>2
<1>6. ASSUME NEW t \in 1..n + 1 PROVE g[t] + Weight - Append(s, new)[t].nexts <= g[t - 1]
  <2>1. CASE t = n + 1
    <3>1. g[t] = f[n] /\ g[t - 1] = f[n] + Weight /\ f[n] \in l..max /\ Append(s, new)[t].nexts = 0
      BY <1>1, <1>2, <1>3, <2>1
    <3>2. f[n] + Weight - 0 <= f[n] + Weight
      <4>1. f[n] \in Int /\ Weight \in Int
        BY <3>1, WeightIs
      <4> DEFINE a == f[n]
      <4> HIDE DEF a
      <4>2. a \in Int => a + Weight - 0 <= a + Weight
        BY WeightIs
      <4> QED BY <4>1, <4>2 DEF a
    <3> QED BY <3>1, <3>2
  <2>2. CASE t # n + 1
    <3>1. t \in 1..n /\ t - 1 \in 0..n /\ t \in 0..n
      BY <1>1, <1>6, <2>2
    <3>2. g[t] = f[t] + Weight /\ g[t - 1] = f[t - 1] + Weight /\ Append(s, new)[t] = s[t]
      BY <1>1, <1>3, <2>2, <3>1
    <3>3. f[t] \in l..max /\ f[t - 1] \in l..max /\ s[t].nexts \in Nat
      <4>1. s[t] \in Frame
        BY <3>1, ElementOfSeq DEF n
      <4> QED BY <1>2, <3>1, <4>1 DEF Frame
    <3>4. f[t] + Weight - s[t].nexts <= f[t - 1]
      BY <1>2, <3>1
    <3>5. (f[t] + Weight) + Weight - s[t].nexts <= f[t - 1] + Weight
      <4> DEFINE a == f[t]
                 b == f[t - 1]
                 x == s[t].nexts
      <4>1. a \in l..max /\ b \in l..max /\ x \in Nat /\ a + Weight - x <= b
        BY <3>3, <3>4
      <4> HIDE DEF a, b, x
      <4>2. l \in Int /\ max \in Int
        BY <1>1
      <4>3. (a + Weight) + Weight - x <= b + Weight
        BY <4>1, <4>2, Room
      <4> QED BY <4>3 DEF a, b, x
    <3> HIDE DEF g
    <3> QED BY <3>2, <3>5
  <2> QED BY <2>1, <2>2
<1> HIDE DEF g
<1>7. g \in [0..Len(Append(s, new)) -> l..l + (r + 1) * Weight]
  BY <1>1, <1>3, <1>4
<1> QED BY <1>3, <1>5, <1>6, <1>7 DEF Budget

\* When the handlers from m on are gone, a loop below goes on.
LEMMA BudgetReturns ==
    ASSUME NEW l \in Nat, NEW r \in Nat, NEW s \in Seq(Frame), NEW i \in Int, Budget(l, r, s, i),
           NEW m \in 1..Len(s), s[m].nexts <= MaxNext,
           NEW t \in Seq(Frame), Len(t) = m - 1, \A k \in 1..m - 1 : t[k] = s[k]
    PROVE  Budget(l, r, t, l + 1) /\ (m = Len(s) => Budget(l, r, t, i + 1))
<1> DEFINE n == Len(s)
           max == l + r * Weight
<1>1. n \in Nat /\ max \in Int /\ Weight \in Nat /\ MaxNext \in Nat /\ Weight = MaxNext + 1
  BY WeightIs, LenProperties
<1>2. PICK f \in [0..n -> l..max] : /\ i <= f[n]
                                    /\ \A k \in 1..n : f[k] + Weight - s[k].nexts <= f[k - 1]
  BY DEF Budget
<1>3. s[m].nexts \in Nat
  <2>1. s[m] \in Frame
    BY ElementOfSeq
  <2> QED BY <2>1 DEF Frame
<1>4. m \in 1..n /\ Len(t) = m - 1
  OBVIOUS
<1> HIDE DEF n, max
<1>5. f[m] \in l..max /\ f[m - 1] \in l..max /\ f[m] + 1 <= f[m - 1] /\ l + 1 <= f[m - 1]
  <2>1. m \in 0..n /\ m - 1 \in 0..n
    BY <1>1, <1>4
  <2>2. f[m] \in l..max /\ f[m - 1] \in l..max
    BY <1>2, <2>1
  <2>3. f[m] + Weight - s[m].nexts <= f[m - 1]
    BY <1>2, <1>4
  <2>4. s[m].nexts <= MaxNext
    OBVIOUS
  <2> DEFINE a == f[m]
             b == f[m - 1]
             x == s[m].nexts
  <2>5. a \in l..max /\ b \in l..max /\ x \in Nat /\ a + Weight - x <= b /\ x <= MaxNext
    BY <1>3, <2>2, <2>3, <2>4
  <2> HIDE DEF a, b, x
  <2>6. l \in Int /\ max \in Int
    BY <1>1
  <2>7. a + 1 <= b /\ l + 1 <= b
    BY <2>5, <2>6, Room
  <2> QED BY <2>5, <2>7 DEF a, b
<1> DEFINE g == [k \in 0..m - 1 |-> f[k]]
<1>6. g \in [0..m - 1 -> l..max]
  <2>1. \A k \in 0..m - 1 : k \in 0..n
    BY <1>1, <1>4
  <2>2. \A k \in 0..m - 1 : f[k] \in l..max
    BY <1>2, <2>1
  <2> QED BY <2>2
<1>7. l + 1 <= g[m - 1] /\ (m = n => i + 1 <= g[m - 1])
  <2>1. m - 1 \in 0..m - 1
    BY <1>1, <1>4
  <2>2. g[m - 1] = f[m - 1]
    BY <2>1
  <2>3. m = n => i + 1 <= f[m - 1]
    <3>1. SUFFICES ASSUME m = n PROVE i + 1 <= f[m - 1]
      OBVIOUS
    <3>2. i <= f[m]
      BY <1>2, <3>1
    <3> DEFINE a == f[m]
               b == f[m - 1]
    <3>3. i <= a /\ a \in l..max /\ b \in l..max /\ a + 1 <= b
      BY <1>5, <3>2
    <3> HIDE DEF a, b
    <3>4. i + 1 <= b
      BY <1>1, <3>3
    <3> QED BY <3>4 DEF b
  <2> QED BY <1>5, <2>2, <2>3
<1>8. ASSUME NEW k \in 1..m - 1 PROVE g[k] + Weight - t[k].nexts <= g[k - 1]
  <2>1. k \in 1..n /\ k \in 0..m - 1 /\ k - 1 \in 0..m - 1
    BY <1>1, <1>4, <1>8
  <2>2. g[k] = f[k] /\ g[k - 1] = f[k - 1] /\ t[k] = s[k]
    BY <1>8, <2>1
  <2> HIDE DEF g
  <2> QED BY <1>2, <2>1, <2>2
<1> HIDE DEF g
<1> QED BY <1>4, <1>6, <1>7, <1>8 DEF Budget, max, n

\* The handler that runs calls c.Next.
LEMMA BudgetNext ==
    ASSUME NEW l \in Nat, NEW r \in Nat, NEW s \in Seq(Frame), NEW i \in Int, Budget(l, r, s, i),
           Len(s) # 0, s[Len(s)].nexts < MaxNext,
           NEW t \in Seq(Frame), Len(t) = Len(s), \A k \in 1..Len(s) - 1 : t[k] = s[k],
           t[Len(s)].nexts = s[Len(s)].nexts + 1
    PROVE  Budget(l, r, t, i + 1)
<1> DEFINE n == Len(s)
           max == l + r * Weight
<1>1. /\ n \in Nat /\ n # 0 /\ n \in 1..n /\ n \in 0..n /\ n - 1 \in 0..n
      /\ max \in Int /\ Weight \in Nat /\ MaxNext \in Nat /\ Weight = MaxNext + 1
  BY WeightIs, LenProperties
<1>2. PICK f \in [0..n -> l..max] : /\ i <= f[n]
                                    /\ \A k \in 1..n : f[k] + Weight - s[k].nexts <= f[k - 1]
  BY DEF Budget
<1>3. s[n].nexts \in Nat /\ s[n].nexts < MaxNext /\ t[n].nexts = s[n].nexts + 1
  <2>1. s[n] \in Frame
    BY <1>1, ElementOfSeq
  <2> QED BY <2>1 DEF Frame
<1>4. Len(t) = n /\ \A k \in 1..n - 1 : t[k] = s[k]
  OBVIOUS
<1> HIDE DEF n, max
<1>5. f[n] \in l..max /\ f[n - 1] \in l..max /\ f[n] + Weight - s[n].nexts <= f[n - 1]
  BY <1>1, <1>2
<1>6. f[n] + 1 \in l..max /\ (f[n] + 1) + Weight - (s[n].nexts + 1) <= f[n - 1]
  <2> DEFINE a == f[n]
             b == f[n - 1]
             x == s[n].nexts
  <2>1. a \in l..max /\ b \in l..max /\ x \in Nat /\ a + Weight - x <= b /\ x < MaxNext
    BY <1>3, <1>5
  <2> HIDE DEF a, b, x
  <2>2. l \in Int /\ max \in Int /\ x <= MaxNext
    BY <1>1, <2>1
  <2>3. a + 1 \in l..max /\ (a + 1) + Weight - (x + 1) <= b
    BY <2>1, <2>2, Room
  <2> QED BY <2>3 DEF a, b, x
<1> DEFINE g == [f EXCEPT ![n] = f[n] + 1]
<1>7. g \in [0..n -> l..max] /\ \A k \in 0..n : g[k] = IF k = n THEN f[n] + 1 ELSE f[k]
  BY <1>1, <1>2, <1>6
<1> HIDE DEF g
<1>8. i + 1 <= g[n]
  BY <1>1, <1>2, <1>5, <1>7
<1>9. ASSUME NEW k \in 1..n PROVE g[k] + Weight - t[k].nexts <= g[k - 1]
  <2>1. CASE k = n
    <3>1. g[k] = f[n] + 1 /\ g[k - 1] = f[n - 1] /\ t[k].nexts = s[n].nexts + 1
      BY <1>1, <1>3, <1>7, <2>1
    <3> QED BY <1>6, <3>1
  <2>2. CASE k # n
    <3>1. k \in 1..n - 1 /\ k \in 0..n /\ k - 1 \in 0..n /\ k - 1 # n
      BY <1>1, <1>9, <2>2
    <3>2. g[k] = f[k] /\ g[k - 1] = f[k - 1] /\ t[k] = s[k]
      BY <1>4, <1>7, <2>2, <3>1
    <3> QED BY <1>2, <1>9, <3>2
  <2> QED BY <2>1, <2>2
<1> QED BY <1>4, <1>7, <1>8, <1>9 DEF Budget, max, n

\* After c.Fail the index is the length of the chain.
LEMMA BudgetFails ==
    ASSUME NEW l \in Nat, NEW r \in Nat, NEW s \in Seq(Frame), NEW i \in Int, Budget(l, r, s, i)
    PROVE  Budget(l, r, s, l)
<1> DEFINE n == Len(s)
           max == l + r * Weight
<1>1. n \in Nat /\ n \in 0..n
  BY LenProperties
<1>2. PICK f \in [0..n -> l..max] : \A k \in 1..n : f[k] + Weight - s[k].nexts <= f[k - 1]
  BY DEF Budget
<1> HIDE DEF n, max
<1>3. f[n] \in l..max
  BY <1>1, <1>2
<1>4. max \in Int
  BY WeightIs DEF max
<1>5. l <= f[n]
  BY <1>3, <1>4
<1> QED BY <1>2, <1>5 DEF Budget, n, max

\* There is a bound for the whole chain.
LEMMA BudgetIs ==
    ASSUME NEW l \in Nat, NEW r \in Nat, r <= l, l # 0, NEW s \in Seq(Frame), NEW i \in Int,
           Budget(l, r, s, i)
    PROVE  i <= 2 * l * Weight
<1> DEFINE n == Len(s)
           max == l + r * Weight
<1>1. n \in Nat /\ n \in 0..n /\ max \in Int /\ Weight \in Nat /\ Weight >= 2
  BY WeightIs, LenProperties
<1>2. PICK f \in [0..n -> l..max] : i <= f[n]
  BY DEF Budget
<1>3. i <= max
  <2> HIDE DEF n, max
  <2>1. f[n] \in l..max
    BY <1>1, <1>2
  <2> QED BY <1>1, <1>2, <2>1
<1>4. r * Weight <= l * Weight
  BY <1>1
<1>5. l <= l * Weight
  BY <1>1
<1>6. l * Weight \in Int /\ r * Weight \in Int
  BY <1>1
<1>7. 2 * l * Weight = l * Weight + l * Weight
  BY <1>1
<1> QED BY <1>3, <1>4, <1>5, <1>6, <1>7

\* What a client can get, or 0 before it does.
Statuses == {0, 200, 404, 500}

\* No handler is called again while it runs, and none calls c.Next more than MaxNext times.
Bounds ==
    /\ static \subseteq Range(routes)
    /\ path \in Path \cup {<< >>}
    /\ chain \in Seq([kind : Kinds, grp : 0..Len(groups)])
    /\ phase = "setup" => index = -1 /\ chain = << >>
    /\ phase # "setup" => Budget(Len(chain), Len(ran), stack, index)
    /\ \A t \in 1..Len(stack) : stack[t].nexts <= MaxNext
    /\ Len(stack) <= Len(ran) /\ Len(ran) <= Len(chain) /\ failed <= Len(chain)
    /\ sent \in Statuses

\* Static routes are routes, when one is added as well.
LEMMA StaticKeeps ==
    ASSUME routes \in Seq(Pattern), static \subseteq Range(routes), NEW p \in Pattern,
           routes' = Append(routes, p), static' \subseteq static \cup {p}
    PROVE  static' \subseteq Range(routes')
<1>1. /\ Len(routes) \in Nat /\ DOMAIN routes = 1..Len(routes)
      /\ routes' \in Seq(Pattern) /\ Len(routes') = Len(routes) + 1
      /\ \A i \in 1..Len(routes) : routes'[i] = routes[i]
      /\ routes'[Len(routes) + 1] = p
  BY AppendProperties, LenProperties
<1>2. DOMAIN routes' = 1..Len(routes) + 1
  BY <1>1, LenProperties
<1>3. ASSUME NEW x \in static' PROVE x \in Range(routes')
  <2>1. CASE x = p
    <3>1. Len(routes) + 1 \in DOMAIN routes'
      BY <1>1, <1>2
    <3> QED BY <1>1, <2>1, <3>1 DEF Range
  <2>2. CASE x \in static
    <3>1. PICK i \in 1..Len(routes) : x = routes[i]
      BY <1>1, <2>2 DEF Range
    <3>2. i \in DOMAIN routes'
      BY <1>1, <1>2
    <3> QED BY <1>1, <3>1, <3>2 DEF Range
  <2> QED BY <2>1, <2>2
<1> QED BY <1>3

\* Setting up.
LEMMA SetupBounds ==
    ASSUME Bounds, phase = "setup", phase' = "setup", UNCHANGED requestVars,
           static' \subseteq Range(routes')
    PROVE  Bounds'
<1>1. UNCHANGED <<path, chain, index, stack, sent, ran, failed>>
  BY DEF requestVars
<1>2. chain' = << >> /\ index' = -1
  BY <1>1 DEF Bounds
<1>3. chain' \in Seq([kind : Kinds, grp : 0..Len(groups')])
  BY <1>2
<1> QED BY <1>1, <1>2, <1>3 DEF Bounds

\* The first handler.
LEMMA ServeBounds ==
    ASSUME Inv, Bounds, NEW q \in Path,
           NEW handlers \in Seq([kind : Kinds, grp : 0..Len(groups)]), Len(handlers) # 0,
           Serve(q, handlers)
    PROVE  Bounds'
<1> DEFINE first == [at |-> 0, nexts |-> 0]
           none == << >>
<1>1. /\ phase = "setup" /\ phase' = "serving" /\ path' = q
      /\ chain' = handlers /\ index' = 0 /\ stack' = <<first>> /\ ran' = <<0>>
      /\ groups' = groups /\ routes' = routes /\ static' = static
      /\ sent' = sent /\ failed' = failed
  BY DEF Serve, engineVars, routerVars
<1>2. Len(handlers) \in Nat
  BY LenProperties
<1>3. first \in Frame /\ first.nexts = 0
  BY DEF Frame
<1>4. stack' = Append(none, first) /\ none \in Seq(Frame) /\ Len(none) = 0
  BY <1>1
<1> HIDE DEF first
<1>5. Len(ran') = 1 /\ Len(stack') = 1 /\ stack'[1] = first
  BY <1>1
<1>6. Budget(Len(handlers), 0, none, 0)
  <2> DEFINE l == Len(handlers)
             f == [t \in 0..0 |-> l]
  <2>1. l \in Nat /\ 0 * Weight = 0
    BY <1>2, WeightIs
  <2> HIDE DEF l, none
  <2>2. f \in [0..Len(none) -> l..l + 0 * Weight]
    BY <1>4, <2>1
  <2>3. 0 <= f[Len(none)] /\ 1..Len(none) = {}
    BY <1>4, <2>1
  <2> HIDE DEF f
  <2> QED BY <2>2, <2>3 DEF Budget, l
<1> HIDE DEF none
<1>7. Budget(Len(handlers), 1, stack', 0)
  <2> DEFINE l == Len(handlers)
             r == 0
             i == 0
  <2>1. l \in Nat /\ r \in Nat /\ i \in Int /\ Budget(l, r, none, i)
    BY <1>2, <1>6
  <2> HIDE DEF l, r, i
  <2>2. Budget(l, r + 1, Append(none, first), i)
    BY <1>3, <1>4, <2>1, BudgetCalls
  <2>3. r + 1 = 1
    BY DEF r
  <2> QED BY <1>4, <2>2, <2>3 DEF l, i
<1>8. Budget(Len(chain'), Len(ran'), stack', index')
  BY <1>1, <1>5, <1>7
<1>9. failed = 0
  BY <1>1 DEF Inv, Counted
<1>10. /\ Len(stack') <= Len(ran') /\ Len(ran') <= Len(chain') /\ failed' <= Len(chain')
       /\ \A t \in 1..Len(stack') : stack'[t].nexts <= MaxNext
  <2>1. 1 <= Len(handlers) /\ 0 <= Len(handlers) /\ 0 <= MaxNext
    BY <1>2, WeightIs
  <2> QED BY <1>1, <1>3, <1>5, <1>9, <2>1
<1> QED BY <1>1, <1>8, <1>10 DEF Bounds

\* A loop goes on.
LEMMA LoopBounds ==
    ASSUME Inv, Bounds, phase = "serving", UNCHANGED requestFixed,
           NEW i \in Nat, NEW below \in Seq(Frame), Loop(i, below), Len(below) <= Len(stack),
           i < Len(chain) => i = index + 1,
           \A t \in 1..Len(below) : below[t].nexts <= MaxNext,
           Budget(Len(chain), Len(ran), below, i),
           sent' \in Statuses, failed' <= Len(chain)
    PROVE  Bounds'
<1> DEFINE new == [at |-> i, nexts |-> 0]
           l == Len(chain)
           r == Len(ran)
<1>1. /\ UNCHANGED <<routes, static, groups, path, chain>> /\ index' = i
      /\ phase' # "setup"
  BY DEF requestFixed, engineVars, routerVars, Loop
<1>2. /\ l \in Nat /\ Len(stack) \in Nat /\ r \in Nat /\ Len(below) \in Nat /\ index \in Int
      /\ ran \in Seq(Nat) /\ Len(stack) <= r /\ r <= l
  BY LenProperties DEF Inv, Types, Bounds
<1>3. new \in Frame /\ new.nexts = 0
  BY DEF Frame
<1>4. CASE i < l
  <2>1. r = i
    <3>1. i = index + 1 /\ index < l
      BY <1>2, <1>4
    <3>2. failed = 0
      BY <1>2, <3>1 DEF Inv, Counted
    <3> QED BY <3>1, <3>2 DEF Inv, Counted
  <2>2. stack' = Append(below, new) /\ ran' = Append(ran, i)
    BY <1>4 DEF Loop
  <2> HIDE DEF new, l, r
  <2>3. /\ Len(stack') = Len(below) + 1 /\ stack'[Len(below) + 1] = new
        /\ \A t \in 1..Len(below) : stack'[t] = below[t]
    BY <1>3, <2>2, AppendProperties
  <2>4. Len(ran') = r + 1
    BY <1>2, <2>2, AppendProperties DEF r
  <2>5. Budget(l, r + 1, stack', i)
    BY <1>2, <1>3, <2>2, BudgetCalls DEF l, r
  <2>6. \A t \in 1..Len(stack') : stack'[t].nexts <= MaxNext
    <3>1. ASSUME NEW t \in 1..Len(stack') PROVE stack'[t].nexts <= MaxNext
      <4>1. t \in 1..Len(below) \/ t = Len(below) + 1
        BY <1>2, <2>3
      <4>2. 0 <= MaxNext
        BY WeightIs
      <4> QED BY <1>3, <2>3, <4>1, <4>2
    <3> QED BY <3>1
  <2>7. Len(stack') <= Len(ran') /\ Len(ran') <= l
    BY <1>2, <1>4, <2>1, <2>3, <2>4
  <2> QED BY <1>1, <2>4, <2>5, <2>6, <2>7 DEF Bounds, l
<1>5. CASE ~(i < l)
  <2>1. stack' = below /\ ran' = ran
    BY <1>5 DEF Loop
  <2>2. Len(below) <= r
    BY <1>2
  <2> QED BY <1>1, <1>2, <2>1, <2>2 DEF Bounds
<1> QED BY <1>4, <1>5

\* A handler calls c.Next.
LEMMA CallBounds ==
    ASSUME Inv, Bounds, NEW kinds, Running(kinds), Last(stack).nexts < MaxNext, CallNext
    PROVE  Bounds'
<1> DEFINE n == Len(stack)
           top == [stack[n] EXCEPT !.nexts = @ + 1]
           below == [stack EXCEPT ![n].nexts = @ + 1]
<1>1. /\ phase = "serving" /\ n \in Nat /\ n # 0 /\ index \in Nat
      /\ stack \in Seq(Frame) /\ stack[n] \in Frame /\ Last(stack) = stack[n]
      /\ Len(chain) \in Nat
  BY TopRuns
<1>2. top \in Frame /\ top.nexts = stack[n].nexts + 1 /\ stack[n].nexts \in Nat
  BY <1>1 DEF Frame
<1>3. below = [stack EXCEPT ![n] = top]
  OBVIOUS
<1> HIDE DEF top
<1>4. /\ below \in Seq(Frame) /\ Len(below) = n
      /\ \A t \in 1..n : below[t] = IF t = n THEN top ELSE stack[t]
  BY <1>1, <1>2, <1>3, ExceptSeq
<1> HIDE DEF below
<1>5. /\ Loop(index + 1, below) /\ UNCHANGED requestFixed /\ sent' = sent /\ failed' = failed
  BY DEF CallNext, below
<1>6. stack[n].nexts < MaxNext /\ top.nexts <= MaxNext
  BY <1>1, <1>2, WeightIs
<1>7. \A t \in 1..Len(below) : below[t].nexts <= MaxNext
  BY <1>4, <1>6 DEF Bounds
<1>8. Len(ran) \in Nat /\ Budget(Len(chain), Len(ran), stack, index)
  BY <1>1, LenProperties DEF Inv, Types, Bounds
<1>9. (\A k \in 1..n - 1 : below[k] = stack[k]) /\ below[n].nexts = stack[n].nexts + 1
  BY <1>1, <1>2, <1>4
<1>10. Budget(Len(chain), Len(ran), below, index + 1)
  BY <1>1, <1>4, <1>6, <1>8, <1>9, BudgetNext
<1>11. index + 1 \in Nat /\ Len(below) <= Len(stack)
  BY <1>1, <1>4
<1>12. sent' \in Statuses /\ failed' <= Len(chain)
  BY <1>5 DEF Bounds
<1> QED BY <1>1, <1>4, <1>5, <1>7, <1>10, <1>11, <1>12, LoopBounds

\* A handler returns.
LEMMA ReturnBounds ==
    ASSUME Inv, Bounds, NEW kinds, Running(kinds), Loop(index + 1, Front(stack)),
           UNCHANGED <<requestFixed, failed>>, sent' \in Statuses
    PROVE  Bounds'
<1> DEFINE n == Len(stack)
           below == SubSeq(stack, 1, n - 1)
<1>1. /\ phase = "serving" /\ n \in Nat /\ n # 0 /\ index \in Nat /\ Len(chain) \in Nat
      /\ stack \in Seq(Frame)
  BY TopRuns
<1>2. n \in 1..n
  BY <1>1
<1>3. below \in Seq(Frame) /\ Len(below) = n - 1 /\ \A t \in 1..n - 1 : below[t] = stack[t]
  BY <1>2, Below
<1>4. Loop(index + 1, below)
  BY DEF Front
<1> HIDE DEF below
<1>5. \A t \in 1..Len(stack) : stack[t].nexts <= MaxNext
  BY DEF Bounds
<1>6. \A t \in 1..Len(below) : below[t].nexts <= MaxNext
  BY <1>1, <1>3, <1>5
<1>7. Len(ran) \in Nat /\ Budget(Len(chain), Len(ran), stack, index) /\ failed' <= Len(chain)
  BY <1>1, LenProperties DEF Inv, Types, Bounds
<1>8. Budget(Len(chain), Len(ran), below, index + 1)
  <2>1. /\ n \in 1..Len(stack) /\ n = Len(stack) /\ stack[n].nexts <= MaxNext
        /\ below \in Seq(Frame) /\ Len(below) = n - 1 /\ \A t \in 1..n - 1 : below[t] = stack[t]
    BY <1>1, <1>2, <1>3, <1>5 DEF n
  <2>2. /\ Len(chain) \in Nat /\ Len(ran) \in Nat /\ stack \in Seq(Frame) /\ index \in Int
        /\ Budget(Len(chain), Len(ran), stack, index)
    BY <1>1, <1>7
  <2> HIDE DEF n
  <2> QED BY ZenonT(30), <2>1, <2>2, BudgetReturns
<1>9. index + 1 \in Nat /\ Len(below) <= Len(stack)
  BY <1>1, <1>3
<1> QED BY <1>1, <1>3, <1>4, <1>6, <1>7, <1>8, <1>9, LoopBounds

\* What c.Fail leaves.
LEMMA FailWithIs ==
    ASSUME Inv, Bounds, FailWith(500)
    PROVE  sent' \in Statuses /\ failed' <= Len(chain)
BY DEF FailWith, Send, Bounds, Statuses

\* A panic that a Recovery catches.
LEMMA RecoveredBounds ==
    ASSUME Inv, Bounds, Recovered
    PROVE  Bounds'
<1> DEFINE m == Max(Recoveries)
           below == SubSeq(stack, 1, m - 1)
<1>1. /\ phase = "serving" /\ Len(stack) \in Nat /\ Len(chain) \in Nat /\ index \in Nat
      /\ stack \in Seq(Frame)
  BY TopRuns DEF Recovered
<1>2. m \in 1..Len(stack)
  BY LastRecovery
<1>3. below \in Seq(Frame) /\ Len(below) = m - 1 /\ Len(below) <= Len(stack)
      /\ \A t \in 1..m - 1 : below[t] = stack[t]
  BY <1>2, Below
<1>4. Loop(Len(chain) + 1, below) /\ FailWith(500) /\ UNCHANGED requestFixed
  BY DEF Recovered
<1> HIDE DEF below, m
<1>5. \A t \in 1..Len(stack) : stack[t].nexts <= MaxNext
  BY DEF Bounds
<1>6. \A t \in 1..Len(below) : below[t].nexts <= MaxNext
  BY <1>1, <1>2, <1>3, <1>5
<1>7. Len(ran) \in Nat /\ Budget(Len(chain), Len(ran), stack, index)
  BY <1>1, LenProperties DEF Inv, Types, Bounds
<1>8. Budget(Len(chain), Len(ran), below, Len(chain) + 1)
  BY <1>1, <1>2, <1>3, <1>5, <1>7, BudgetReturns
<1>9. Len(chain) + 1 \in Nat /\ ~(Len(chain) + 1 < Len(chain))
  BY <1>1
<1> QED BY <1>1, <1>3, <1>4, <1>6, <1>8, <1>9, FailWithIs, LoopBounds

\* c.Fail, responses, and a panic nobody catches.
LEMMA StayBounds ==
    ASSUME Inv, Bounds, Fail \/ Write \/ Abort
    PROVE  Bounds'
<1>1. /\ UNCHANGED <<routes, static, groups, path, chain, stack, ran>>
      /\ phase' # "setup" /\ phase = "serving"
  BY DEF Fail, Write, Abort, requestFixed, engineVars, routerVars, Running
<1>2. sent' \in Statuses /\ failed' <= Len(chain)
  <2>1. CASE Fail
    BY <2>1, FailWithIs DEF Fail
  <2>2. CASE Write \/ Abort
    BY <2>2 DEF Write, Abort, Send, Bounds, Statuses
  <2> QED BY <2>1, <2>2
<1>3. index' = index \/ index' = Len(chain)
  BY DEF Fail, Write, Abort
<1>4. /\ Len(chain) \in Nat /\ Len(ran) \in Nat /\ stack \in Seq(Frame) /\ index \in Int
      /\ Budget(Len(chain), Len(ran), stack, index)
  BY <1>1, LenProperties DEF Inv, Types, Bounds
<1>5. Budget(Len(chain), Len(ran), stack, index')
  BY <1>3, <1>4, BudgetFails
<1> QED BY <1>1, <1>2, <1>5 DEF Bounds

\* No step goes beyond the bounds.
LEMMA NextBounds ==
    ASSUME Inv, RouterInv, Bounds, [Next]_vars
    PROVE  Bounds'
<1>1. CASE UNCHANGED vars
  BY <1>1 DEF vars, engineVars, routerVars, requestVars, Bounds
<1>2. CASE Next
  <2>1. ASSUME phase = "setup", UNCHANGED <<routes, static, phase, requestVars>> PROVE Bounds'
    <3>1. static' \subseteq Range(routes') /\ phase' = "setup"
      BY <2>1 DEF Bounds
    <3> QED BY <2>1, <3>1, SetupBounds
  <2>2. CASE \E g \in DOMAIN groups, prefix \in Prefix : Group(g, prefix)
    BY <2>1, <2>2 DEF Group, routerVars
  <2>3. CASE \E g \in DOMAIN groups, kind \in {"user", "logger", "recovery"} : Use(g, kind)
    BY <2>1, <2>3 DEF Use, routerVars
  <2>4. CASE Default
    BY <2>1, <2>4 DEF Default, routerVars
  <2>5. ASSUME NEW g, NEW p \in Pattern, Get(g, p) \/ Static(g, p) PROVE Bounds'
    <3>1. /\ routes' = Append(routes, p) /\ static' \subseteq static \cup {p}
          /\ phase = "setup" /\ phase' = "setup" /\ UNCHANGED requestVars
      BY <2>5 DEF Get, Static, AddRoute
    <3>2. static' \subseteq Range(routes')
      BY <3>1, StaticKeeps DEF RouterInv, Bounds
    <3> QED BY <3>1, <3>2, SetupBounds
  <2>6. ASSUME NEW q \in Path, (day < 5 /\ Serve(q, <<Final(q)>>)) \/ Serve(q, Chain(q))
        PROVE  Bounds'
    <3> DEFINE H == [kind : Kinds, grp : 0..Len(groups)]
    <3>1. Chain(q) \in Seq(H) /\ Len(Chain(q)) # 0
      BY ChainIsSeq DEF Inv
    <3>2. Final(q) \in H
      <4>1. Len(groups) \in Nat
        BY LenProperties DEF Inv, Types
      <4> QED BY <4>1, FinalIsHand DEF Hand
    <3> HIDE DEF H
    <3>3. <<Final(q)>> \in Seq(H) /\ Len(<<Final(q)>>) # 0
      BY <3>2
    <3> QED BY <2>6, <3>1, <3>3, ServeBounds DEF H
  <2>7. CASE UserNext
    <3>1. Running({"user", "route"}) /\ Last(stack).nexts < MaxNext /\ CallNext
      BY <2>7 DEF UserNext
    <3> QED BY <3>1, CallBounds
  <2>8. CASE UserReturn
    <3>1. /\ Running({"user", "route"}) /\ Loop(index + 1, Front(stack))
          /\ UNCHANGED <<requestFixed, failed>> /\ sent' \in Statuses
      BY <2>8 DEF UserReturn, Return, Bounds
    <3> QED BY <3>1, ReturnBounds
  <2>9. CASE NotFound
    <3>1. /\ Running({"notfound"}) /\ Loop(index + 1, Front(stack))
          /\ UNCHANGED <<requestFixed, failed>> /\ sent' \in Statuses
      BY <2>9 DEF NotFound, Send, Bounds, Statuses
    <3> QED BY <3>1, ReturnBounds
  <2>10. CASE ServeFile
    <3>1. /\ Running({"static"}) /\ Loop(index + 1, Front(stack))
          /\ UNCHANGED <<requestFixed, failed>> /\ sent' \in Statuses
      BY <2>10 DEF ServeFile, Send, Bounds, Statuses
    <3> QED BY <3>1, ReturnBounds
  <2>11. ASSUME NEW kind, WrapNext(kind) PROVE Bounds'
    <3>1. Running({kind}) /\ Last(stack).nexts = 0 /\ CallNext
      BY <2>11 DEF WrapNext
    <3>2. Last(stack).nexts < MaxNext
      BY <3>1, BoundAssumption
    <3> QED BY <3>1, <3>2, CallBounds
  <2>12. ASSUME NEW kind, WrapReturn(kind) PROVE Bounds'
    <3>1. /\ Running({kind}) /\ Loop(index + 1, Front(stack))
          /\ UNCHANGED <<requestFixed, failed>> /\ sent' \in Statuses
      BY <2>12 DEF WrapReturn, Return, Bounds
    <3> QED BY <3>1, ReturnBounds
  <2>13. CASE Fail \/ Write \/ Abort
    BY <2>13, StayBounds
  <2>14. CASE Recovered
    BY <2>14, RecoveredBounds
  <2> QED BY <1>2, <2>2, <2>3, <2>4, <2>5, <2>6, <2>7, <2>8, <2>9, <2>10, <2>11, <2>12, <2>13,
             <2>14, Steps
<1> QED BY <1>1, <1>2

\* The bounds hold before any call.
LEMMA InitBounds ==
    ASSUME Init
    PROVE  Bounds
<1>1. /\ phase = "setup" /\ static = {} /\ path = << >> /\ chain = << >> /\ index = -1
      /\ stack = << >> /\ sent = 0 /\ ran = << >> /\ failed = 0
  BY DEF Init
<1>2. chain \in Seq([kind : Kinds, grp : 0..Len(groups)])
  BY <1>1
<1>3. Len(stack) = 0 /\ Len(ran) = 0 /\ Len(chain) = 0
  BY <1>1
<1>4. /\ Len(stack) <= Len(ran) /\ Len(ran) <= Len(chain) /\ failed <= Len(chain)
      /\ \A t \in 1..Len(stack) : stack[t].nexts <= MaxNext
  BY <1>1, <1>3
<1> QED BY <1>1, <1>2, <1>4 DEF Bounds, Statuses

\* A request is of the types the bounds allow.
LEMMA BoundsAreTypes ==
    ASSUME Inv, RouterInv, Bounds
    PROVE  TypeOK
<1> DEFINE l == Len(chain)
           A == [at : 0..l - 1, nexts : 0..MaxNext]
<1>1. /\ l \in Nat /\ Len(ran) \in Nat /\ Len(stack) \in Nat /\ MaxNext \in Nat
      /\ stack \in Seq(Frame) /\ ran \in Seq(Nat) /\ index \in Int /\ failed \in Nat
  BY LenProperties, WeightIs DEF Inv, Types
<1>2. RouterTypeOK
  BY RouterTypes
<1>3. groups \in Seq([prefix : Seq(Part), use : Seq({"user", "logger", "recovery"})])
  BY DEF Inv, Types, Group0, Uses
<1>4. index \in -1..2 * l * (MaxNext + 1)
  <2>1. CASE phase = "setup"
    <3>1. index = -1 /\ chain = << >>
      BY <2>1 DEF Bounds
    <3>2. l = 0
      BY <3>1
    <3>3. 2 * 0 * (MaxNext + 1) = 0
      BY <1>1
    <3> HIDE DEF l
    <3> QED BY <3>1, <3>2, <3>3
  <2>2. CASE phase # "setup"
    <3>1. l # 0 /\ index >= 0 /\ Budget(l, Len(ran), stack, index) /\ Len(ran) <= l
      BY <2>2 DEF Inv, Stacked, Bounds
    <3> HIDE DEF l
    <3>2. index <= 2 * l * Weight
      BY <1>1, <3>1, BudgetIs
    <3>3. 2 * l * Weight = 2 * l * (MaxNext + 1) /\ 2 * l * (MaxNext + 1) \in Int
      BY <1>1 DEF Weight
    <3> QED BY <1>1, <3>1, <3>2, <3>3
  <2> QED BY <2>1, <2>2
<1>5. stack \in Seq(A)
  <2>1. \A t \in 1..Len(stack) : stack[t] \in A
    <3>1. SUFFICES ASSUME NEW t \in 1..Len(stack) PROVE stack[t] \in A
      OBVIOUS
    <3>2. stack[t] \in Frame
      BY <1>1, ElementOfSeq
    <3>3. stack[t].at < l /\ stack[t].nexts <= MaxNext
      BY DEF Inv, Stacked, Bounds
    <3> HIDE DEF l
    <3> QED BY <1>1, <3>2, <3>3 DEF Frame
  <2>2. stack \in [1..Len(stack) -> A]
    BY <1>1, <2>1, LenProperties, IsASeq
  <2> QED BY <1>1, <2>2, FunctionIsSeq
<1>6. ran \in Seq(0..l - 1)
  <2>1. \A t \in 1..Len(ran) : ran[t] \in 0..l - 1
    <3>1. (\A t \in 1..Len(ran) : ran[t] = t - 1) /\ Len(ran) <= l
      BY DEF Inv, Counted, Bounds
    <3> HIDE DEF l
    <3> QED BY <1>1, <3>1
  <2>2. ran \in [1..Len(ran) -> 0..l - 1]
    BY <1>1, <2>1, LenProperties
  <2> QED BY <1>1, <2>2, FunctionIsSeq
<1>7. Len(stack) <= l /\ failed \in 0..l
  <2>1. Len(stack) <= Len(ran) /\ Len(ran) <= l /\ failed <= l
    BY DEF Bounds
  <2> HIDE DEF l
  <2> QED BY <1>1, <2>1
<1>8. phase \in {"setup", "serving", "over", "aborted"}
  BY DEF Inv, Types
<1> QED BY <1>2, <1>3, <1>4, <1>5, <1>6, <1>7, <1>8 DEF TypeOK, Bounds, Statuses

\* The types of the variables; no handler is called again while it runs, and c.index stays
\* within what the calls of c.Next can make it.
THEOREM TypeCorrect == Spec => []TypeOK
<1>1. Init => Bounds
  BY InitBounds
<1>2. Inv /\ RouterInv /\ Bounds /\ [Next]_vars => Bounds'
  BY NextBounds
<1>3. Inv /\ RouterInv /\ Bounds => TypeOK
  BY BoundsAreTypes
<1> QED BY <1>1, <1>2, <1>3, Invariance, RouterInvariance, PTL DEF Spec
=============================================================================
