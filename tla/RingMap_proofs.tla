--------------------------- MODULE RingMap_proofs ---------------------------
(***************************************************************************)
(* A consistenthash.Map in use: what goroutines find under the lock.       *)
(***************************************************************************)
EXTENDS RingMap, HashRing_proofs

\* Between calls, the keys ascend and hashMap has no other hash.
Whole(r) ==
    /\ r.keys \in Seq(Int)
    /\ \A i, j \in 1..Len(r.keys) : i <= j => r.keys[i] <= r.keys[j]
    /\ DOMAIN r.nodeAt \subseteq ToSet(r.keys)
    /\ \A h \in DOMAIN r.nodeAt : r.nodeAt[h] \in Node

\* If hashes do not collide and no node was added twice, it is a ring of the members.
Good(r) == Whole(r) /\ (Clean => IsInjective(r.keys) /\ IsRing(r, members, hash))

\* The lock is held by the goroutine that is in a call, which is where it may be.
InCall(p) == pc[p] \in {"add", "remove", "get", "found"}
Locked ==
    \A p \in Proc :
        /\ mu = p <=> InCall(p)
        /\ pc[p] = "idle" => step[p] = 0
        /\ pc[p] = "add" => op[p] \in Adds /\ step[p] <= Len(Virtuals(op[p].arg, hash))
        /\ pc[p] = "remove" => op[p] \in Removes /\ step[p] <= Len(hash[op[p].arg])
        /\ pc[p] \in {"get", "found"} => op[p] \in Gets

\* In Add: r has the keys of old and then the first k hashes of v, and hashMap has these
\* for the nodes being added.
Added(r, old, v, k) ==
    LET b == Len(old.keys)
    IN /\ Len(r.keys) = b + k
       /\ \A i \in 1..b : r.keys[i] = old.keys[i]
       /\ \A j \in 1..k : r.keys[b + j] = v[j][1]
       /\ DOMAIN r.nodeAt = DOMAIN old.nodeAt \cup {v[j][1] : j \in 1..k}
       /\ \A h \in DOMAIN r.nodeAt :
             \/ \E j \in 1..k : v[j] = <<h, r.nodeAt[h]>>
             \/ /\ \A j \in 1..k : v[j][1] # h
                /\ r.nodeAt[h] = old.nodeAt[h]
AddedBy(p) == Added(ring, before, Virtuals(op[p].arg, hash), step[p])

\* In Remove: of a member, the hashes so far are gone; a stranger has none.
Removed(p) ==
    /\ Whole(ring)
    /\ Clean => \/ step[p] = 0 /\ ring = before
                \/ /\ op[p].arg \in members
                   /\ IsInjective(ring.keys)
                   /\ ToSet(ring.keys) = ToSet(before.keys) \ {hash[op[p].arg][j] : j \in 1..step[p]}
                   /\ \A h \in ToSet(ring.keys) : /\ h \in DOMAIN ring.nodeAt
                                                  /\ ring.nodeAt[h] = before.nodeAt[h]

\* In Get the ring stays as it was.
Got(p) ==
    /\ ring = before
    /\ pc[p] = "found" => ring.keys # << >> /\ step[p] = Search(ring.keys, op[p].arg)

\* What is true throughout.
RingInv ==
    /\ TypeOK
    /\ ring = [keys |-> ring.keys, nodeAt |-> ring.nodeAt]
    /\ Locked
    /\ mu = NoNode => Good(ring)
    /\ mu # NoNode => Good(before)
    /\ \A p \in Proc : /\ pc[p] = "add" => AddedBy(p)
                       /\ pc[p] = "remove" => Removed(p)
                       /\ pc[p] \in {"get", "found"} => Got(p)

-----------------------------------------------------------------------------
(* Calls and rings *)

\* What the calls' arguments are.
LEMMA CallsAre ==
    /\ \A c \in Adds : /\ c.kind = "add" /\ c.arg \in Seq(Node)
                       /\ c.arg # << >> /\ IsInjective(c.arg)
    /\ \A c \in Removes : c.kind = "remove" /\ c.arg \in Node
    /\ \A c \in Gets : c.kind = "get" /\ c.arg \in KeyHash
    /\ NoCall.kind = "none"
<1>1. ASSUME NEW t \in SeqOf(Node, 2) PROVE t \in Seq(Node)
  <2>1. PICK m \in 0..2 : t \in [1..m -> Node]
    BY DEF SeqOf
  <2> QED BY <2>1, FunctionIsSeq
<1> QED BY <1>1 DEF Adds, Removes, Gets, NoCall, Call

\* What the hashes are.
LEMMA HashesAre ==
    ASSUME hash \in Hashing
    PROVE  /\ hash \in [Node -> Seq(Int)]
           /\ \A n \in Node : /\ hash[n] # << >> /\ Len(hash[n]) \in Nat /\ Len(hash[n]) > 0
                              /\ DOMAIN hash[n] = 1..Len(hash[n])
                              /\ \A j \in 1..Len(hash[n]) : hash[n][j] \in Int
<1>1. hash \in [Node -> Seq(Int) \ {<< >>}]
  BY HashingAssumption
<1>2. hash \in [Node -> Seq(Int)] /\ \A n \in Node : hash[n] \in Seq(Int) /\ hash[n] # << >>
  BY <1>1
<1>3. \A s \in Seq(Int) : /\ Len(s) \in Nat /\ DOMAIN s = 1..Len(s) /\ (s # << >> => Len(s) > 0)
                          /\ \A j \in 1..Len(s) : s[j] \in Int
  BY LenProperties, EmptySeq, ElementOfSeq
<1> QED BY <1>2, <1>3

\* The calls that change the ring find their own virtual nodes.
LEMMA TodoIs ==
    ASSUME hash \in Hashing, NEW c \in Adds
    PROVE  LET v == Virtuals(c.arg, hash)
           IN /\ v \in Seq(Int \X Node) /\ Len(v) \in Nat
              /\ \A j \in 1..Len(v) : /\ v[j] = <<v[j][1], v[j][2]>> /\ v[j][1] \in Int
                                      /\ v[j][2] \in Range(c.arg) /\ v[j][2] \in Node
                                      /\ v[j][1] \in Range(hash[v[j][2]])
              /\ \A n \in Range(c.arg) : n \in Node /\ \A h \in Range(hash[n]) :
                    \E j \in 1..Len(v) : v[j] = <<h, n>>
<1> DEFINE v == Virtuals(c.arg, hash)
<1>1. c.arg \in Seq(Node) /\ hash \in [Node -> Seq(Int)]
  BY CallsAre, HashesAre
<1>2. /\ v \in Seq(Int \X Node)
      /\ \A x \in Range(v) : x[2] \in Range(c.arg) /\ x[1] \in Range(hash[x[2]])
      /\ \A n \in Range(c.arg) : \A h \in Range(hash[n]) : <<h, n>> \in Range(v)
  BY <1>1, VirtualsAreAll
<1> HIDE DEF v
<1>3. Len(v) \in Nat /\ DOMAIN v = 1..Len(v) /\ \A j \in 1..Len(v) : v[j] \in Int \X Node
  BY <1>2, LenProperties, ElementOfSeq
<1>4. \A w \in Int \X Node : w = <<w[1], w[2]>> /\ w[1] \in Int /\ w[2] \in Node
  OBVIOUS
<1>5. \A j \in 1..Len(v) : v[j] \in Range(v)
  BY <1>3 DEF Range
<1>6. Range(c.arg) \subseteq Node
  BY <1>1, RangeFinite
<1>7. \A x \in Range(v) : \E j \in 1..Len(v) : v[j] = x
  BY <1>3 DEF Range
<1> QED BY <1>2, <1>3, <1>4, <1>5, <1>6, <1>7 DEF v

\* While one goroutine is in a call no other is.
LEMMA OnlyOne ==
    ASSUME Locked, NEW p \in Proc, mu = p
    PROVE  /\ InCall(p) /\ p # NoNode
           /\ \A q \in Proc \ {p} : /\ mu # q /\ pc[q] # "add" /\ pc[q] # "remove"
                                    /\ pc[q] # "get" /\ pc[q] # "found"
BY ProcAssumption DEF Locked, InCall

\* The set of a sequence's elements has two names.
LEMMA SetOf ==
    ASSUME NEW s
    PROVE  ToSet(s) = Range(s)
BY DEF ToSet, Range


-----------------------------------------------------------------------------
(* Every step keeps what is true *)

\* A ring starts empty, with no call under way.
LEMMA RingInit == Init => RingInv
<1> SUFFICES ASSUME Init PROVE RingInv
  OBVIOUS
<1> USE DEF Init
<1>1. ring.keys = << >> /\ ring.nodeAt = << >> /\ ring = [keys |-> ring.keys, nodeAt |-> ring.nodeAt]
  BY DEF EmptyRing
<1>2. << >> \in Seq(Int) /\ Len(<< >>) = 0 /\ DOMAIN << >> = {}
  BY EmptySeq
<1>3. TypeOK
  BY <1>1, <1>2 DEF TypeOK
<1>4. Locked
  BY ProcAssumption DEF Locked, InCall
<1>5. Good(ring)
  <2>1. Whole(ring)
    BY <1>1, <1>2 DEF Whole
  <2>2. Range(ring.keys) = {}
    BY <1>1, <1>2 DEF Range
  <2>3. IsInjective(ring.keys) /\ IsRing(ring, members, hash)
    BY <1>1, <1>2, <2>2 DEF IsInjective, IsRing
  <2> QED BY <2>1, <2>3 DEF Good
<1> QED BY <1>1, <1>3, <1>4, <1>5 DEF RingInv

\* A call takes the lock on the ring the last one left.
LEMMA EnterKeeps ==
    ASSUME RingInv, NEW p \in Proc, NEW call \in Adds \cup Removes \cup Gets, Enter(p, call)
    PROVE  RingInv'
<1>1. /\ pc[p] = "idle" /\ mu = NoNode /\ mu' = p /\ p # NoNode
      /\ step[p] = 0 /\ step' = step /\ ring' = ring /\ before' = ring
      /\ UNCHANGED <<hash, ans, members, misused>>
  BY ProcAssumption DEF RingInv, Locked, Enter
<1>2. /\ call.kind \in {"add", "remove", "get"}
      /\ call.kind = "add" => call \in Adds
      /\ call.kind = "remove" => call \in Removes
      /\ call.kind = "get" => call \in Gets
  BY CallsAre
<1>3. /\ \A q \in Proc : q # p => pc'[q] = pc[q] /\ op'[q] = op[q]
      /\ pc'[p] = call.kind /\ op'[p] = call
      /\ pc' \in [Proc -> {"idle", "add", "remove", "get", "found", "done", "panicked"}]
      /\ op' \in [Proc -> {NoCall} \cup Adds \cup Removes \cup Gets]
  BY <1>2 DEF RingInv, TypeOK, Enter
<1>4. \A q \in Proc : pc[q] \notin {"add", "remove", "get", "found"}
  BY <1>1, ProcAssumption DEF RingInv, Locked, InCall
<1>5. TypeOK'
  BY <1>1, <1>3 DEF RingInv, TypeOK
<1>6. hash \in Hashing /\ Good(ring)
  BY <1>1 DEF RingInv, TypeOK
<1>7. Locked'
  <2>1. p \in Proc /\ InCall(p)'
    BY <1>2, <1>3 DEF InCall
  <2>2. \A q \in Proc : q # p => ~InCall(q)' /\ mu' # q /\ (pc'[q] = "idle" => step'[q] = 0)
    BY <1>1, <1>3, <1>4 DEF InCall, RingInv, Locked
  <2>3. ASSUME call.kind = "add" PROVE 0 <= Len(Virtuals(op'[p].arg, hash'))
    BY <1>1, <1>2, <1>3, <1>6, <2>3, TodoIs
  <2>4. ASSUME call.kind = "remove" PROVE 0 <= Len(hash'[op'[p].arg])
    <3>1. op'[p].arg \in Node
      BY <1>2, <1>3, <2>4, CallsAre
    <3> QED BY <1>1, <1>6, <3>1, HashesAre
  <2>5. pc'[p] \in {"add", "remove", "get"} /\ mu' = p /\ step'[p] = 0
    BY <1>1, <1>2, <1>3
  <2>6. ASSUME NEW q \in Proc, q # p
        PROVE pc'[q] \notin {"add", "remove", "get", "found"}
    BY <2>2, <2>6 DEF InCall
  <2> QED BY <1>1, <1>2, <1>3, <2>1, <2>2, <2>3, <2>4, <2>5, <2>6 DEF Locked
<1>8. Good(before)' /\ Whole(ring) /\ mu' # NoNode
  BY <1>1, <1>6 DEF Good, Clean
<1>9. ASSUME call.kind = "add" PROVE AddedBy(p)'
  <2>1. Len(before'.keys) = Len(ring'.keys) /\ Len(before'.keys) \in Nat
    BY <1>1, <1>6, LenProperties DEF Good, Whole
  <2>2. step'[p] = 0 /\ 1..0 = {}
    BY <1>1
  <2> QED BY <1>1, <2>1, <2>2 DEF AddedBy, Added
<1>10. Removed(p)'
  BY <1>1, <1>6 DEF Removed, Good, Whole
<1>11. ASSUME call.kind = "get" PROVE Got(p)'
  BY <1>1, <1>3, <1>11 DEF Got
<1>12. ASSUME NEW q \in Proc
       PROVE  /\ pc'[q] = "add" => AddedBy(q)'
              /\ pc'[q] = "remove" => Removed(q)'
              /\ pc'[q] \in {"get", "found"} => Got(q)'
  <2>1. CASE q = p
    BY <1>2, <1>3, <1>9, <1>10, <1>11, <2>1
  <2>2. CASE q # p
    BY <1>3, <1>4, <2>2
  <2> QED BY <2>1, <2>2
<1>13. (ring = [keys |-> ring.keys, nodeAt |-> ring.nodeAt])'
  BY <1>1 DEF RingInv
<1> QED BY <1>5, <1>7, <1>8, <1>12, <1>13 DEF RingInv

\* The call of p goes on.
LEMMA TurnKeeps ==
    ASSUME RingInv, NEW p \in Proc, InCall(p), UNCHANGED <<hash, mu, op, pc, ans, members, misused, before>>,
           NEW n \in Nat, step' = [step EXCEPT ![p] = n],
           pc[p] = "add" => n <= Len(Virtuals(op[p].arg, hash)),
           pc[p] = "remove" => n <= Len(hash[op[p].arg])
    PROVE  /\ Locked' /\ mu = p /\ mu' = p /\ p # NoNode /\ Good(before) /\ Good(before)'
           /\ step' \in [Proc -> Nat] /\ step[p] \in Nat /\ step'[p] = n
           /\ \A q \in Proc : pc'[q] \in {"add", "remove", "get", "found"} => q = p
<1>1. mu = p /\ p # NoNode /\ mu' = p
  BY ProcAssumption DEF RingInv, Locked
<1>2. \A q \in Proc : pc'[q] \in {"add", "remove", "get", "found"} => q = p
  BY <1>1 DEF RingInv, Locked, InCall
<1>3. step' \in [Proc -> Nat] /\ step[p] \in Nat /\ step'[p] = n /\ \A q \in Proc : q # p => step'[q] = step[q]
  BY DEF RingInv, TypeOK
<1>4. Good(before)'
  BY <1>1 DEF RingInv, Good, Clean
<1>5. Locked'
  <2>1. ASSUME NEW q \in Proc, q = p
        PROVE  /\ mu' = q <=> InCall(q)'
               /\ pc'[q] = "idle" => step'[q] = 0
               /\ pc'[q] = "add" => op'[q] \in Adds /\ step'[q] <= Len(Virtuals(op'[q].arg, hash'))
               /\ pc'[q] = "remove" => op'[q] \in Removes /\ step'[q] <= Len(hash'[op'[q].arg])
               /\ pc'[q] \in {"get", "found"} => op'[q] \in Gets
    BY <1>1, <1>3, <2>1 DEF RingInv, Locked, InCall
  <2>2. ASSUME NEW q \in Proc, q # p
        PROVE  /\ mu' = q <=> InCall(q)'
               /\ pc'[q] = "idle" => step'[q] = 0
               /\ pc'[q] = "add" => op'[q] \in Adds /\ step'[q] <= Len(Virtuals(op'[q].arg, hash'))
               /\ pc'[q] = "remove" => op'[q] \in Removes /\ step'[q] <= Len(hash'[op'[q].arg])
               /\ pc'[q] \in {"get", "found"} => op'[q] \in Gets
    BY <1>1, <1>3, <2>2 DEF RingInv, Locked, InCall
  <2> QED BY <2>1, <2>2 DEF Locked
<1>6. Good(before)
  BY <1>1 DEF RingInv
<1> QED BY <1>1, <1>2, <1>3, <1>4, <1>5, <1>6

\* The call of p ends.
LEMMA LeaveKeeps ==
    ASSUME RingInv, NEW p \in Proc, InCall(p), NEW point \in {"done", "panicked"}, Leave(p, point),
           UNCHANGED <<hash, op, step>>
    PROVE  /\ Locked' /\ mu = p /\ mu' = NoNode /\ p # NoNode /\ Good(before)
           /\ pc' \in [Proc -> {"idle", "add", "remove", "get", "found", "done", "panicked"}]
           /\ \A q \in Proc : pc'[q] \notin {"add", "remove", "get", "found"}
<1>1. mu = p /\ p # NoNode /\ mu' = NoNode
  BY ProcAssumption DEF RingInv, Locked, Leave
<1>2. pc'[p] = point /\ \A q \in Proc : q # p => pc'[q] = pc[q]
  BY DEF RingInv, TypeOK, Leave
<1>3. \A q \in Proc : pc'[q] \notin {"add", "remove", "get", "found"}
  BY <1>1, <1>2 DEF RingInv, Locked, InCall
<1>4. \A q \in Proc : pc'[q] = "idle" => step'[q] = 0
  BY <1>2 DEF RingInv, Locked
<1>5. \A q \in Proc : mu' # q /\ ~InCall(q)'
  BY <1>1, <1>3, ProcAssumption DEF InCall
<1>6. Locked'
  BY <1>3, <1>4, <1>5 DEF Locked
<1>7. pc' \in [Proc -> {"idle", "add", "remove", "get", "found", "done", "panicked"}]
  BY DEF RingInv, TypeOK, Leave
<1> QED BY <1>1, <1>3, <1>6, <1>7 DEF RingInv

\* A turn of Add's loops adds one virtual node to those it has added.
LEMMA AddTurnKeeps ==
    ASSUME RingInv, NEW p \in Proc, AddTurn(p)
    PROVE  RingInv'
<1> DEFINE v == Virtuals(op[p].arg, hash)
           k == step[p]
           b == Len(before.keys)
           h == v[k + 1][1]
           n == v[k + 1][2]
<1>1. /\ pc[p] = "add" /\ k < Len(v) /\ InCall(p)
      /\ ring' = AddVirtual(ring, h, n)
      /\ step' = [step EXCEPT ![p] = k + 1]
      /\ UNCHANGED <<hash, mu, op, pc, ans, members, misused, before>>
  BY DEF AddTurn, InCall
<1>2. op[p] \in Adds /\ k \in Nat /\ hash \in Hashing /\ AddedBy(p)
  BY <1>1 DEF RingInv, Locked, TypeOK
<1>3. /\ v \in Seq(Int \X Node) /\ Len(v) \in Nat
      /\ \A j \in 1..Len(v) : v[j] = <<v[j][1], v[j][2]>> /\ v[j][1] \in Int /\ v[j][2] \in Node
  BY <1>2, TodoIs
<1>4. /\ Locked' /\ mu = p /\ mu' = p /\ p # NoNode /\ Good(before) /\ Good(before)'
      /\ step' \in [Proc -> Nat] /\ step'[p] = k + 1
      /\ \A q \in Proc : pc'[q] \in {"add", "remove", "get", "found"} => q = p
  <2>1. k + 1 \in Nat /\ (pc[p] = "add" => k + 1 <= Len(v)) /\ pc[p] # "remove"
    BY <1>1, <1>2, <1>3
  <2> HIDE DEF v, k, b
  <2> QED BY <1>1, <2>1, TurnKeeps DEF v
<1>5. k + 1 \in 1..Len(v) /\ h \in Int /\ n \in Node /\ v[k + 1] = <<h, n>>
  <2>1. k + 1 \in 1..Len(v)
    <3> HIDE DEF v, k
    <3>1. k \in Nat
      BY <1>2
    <3>2. Len(v) \in Nat /\ k < Len(v)
      BY <1>1, <1>3
    <3> QED BY <3>1, <3>2
  <2> HIDE DEF v, k
  <2> QED BY <1>3, <2>1
<1>6. /\ ring.keys \in Seq(Int) /\ DOMAIN ring.nodeAt \subseteq ToSet(ring.keys)
      /\ \A x \in DOMAIN ring.nodeAt : ring.nodeAt[x] \in Node
      /\ before.keys \in Seq(Int) /\ b \in Nat
  BY <1>4, LenProperties DEF RingInv, TypeOK, Good, Whole
<1>7. /\ ring'.keys = Append(ring.keys, h)
      /\ ring'.nodeAt = [x \in {h} \cup DOMAIN ring.nodeAt |-> IF x = h THEN n ELSE ring.nodeAt[x]]
      /\ ring' = [keys |-> ring'.keys, nodeAt |-> ring'.nodeAt]
  BY <1>1 DEF AddVirtual
<1>8. /\ Len(ring.keys) = b + k
      /\ \A i \in 1..b : ring.keys[i] = before.keys[i]
      /\ \A j \in 1..k : ring.keys[b + j] = v[j][1]
      /\ DOMAIN ring.nodeAt = DOMAIN before.nodeAt \cup {v[j][1] : j \in 1..k}
      /\ \A x \in DOMAIN ring.nodeAt :
            \/ \E j \in 1..k : v[j] = <<x, ring.nodeAt[x]>>
            \/ /\ \A j \in 1..k : v[j][1] # x
               /\ ring.nodeAt[x] = before.nodeAt[x]
  BY <1>2 DEF AddedBy, Added, v, k, b
<1>9. before' = before /\ Virtuals(op'[p].arg, hash') = v
  BY <1>1
<1> HIDE DEF v, k, b, h, n
<1>10. /\ ring'.keys \in Seq(Int) /\ Len(ring'.keys) = b + (k + 1)
       /\ \A i \in 1..b+k : ring'.keys[i] = ring.keys[i]
       /\ ring'.keys[b + (k + 1)] = h
       /\ DOMAIN ring'.keys = 1..b+(k+1)
  <2>1. /\ ring'.keys \in Seq(Int) /\ Len(ring'.keys) = Len(ring.keys) + 1
        /\ \A i \in 1..Len(ring.keys) : ring'.keys[i] = ring.keys[i]
        /\ ring'.keys[Len(ring.keys) + 1] = h
    BY <1>5, <1>6, <1>7, AppendProperties
  <2>2. (b + k) + 1 = b + (k + 1)
    BY <1>2, <1>6
  <2>3. DOMAIN ring'.keys = 1..Len(ring'.keys)
    BY <2>1, LenProperties
  <2> QED BY <1>8, <2>1, <2>2, <2>3
<1>11. 1..k+1 = 1..k \cup {k + 1} /\ k + 1 \notin 1..k /\ (\A j \in 1..k : b + j \in 1..b+k) /\ 1..b \subseteq 1..b+k
  BY <1>2, <1>6
<1>12. ToSet(ring'.keys) = ToSet(ring.keys) \cup {h}
  <2>1. DOMAIN ring.keys = 1..b+k
    BY <1>6, <1>8, LenProperties
  <2>2. 1..b+(k+1) = 1..b+k \cup {b + (k + 1)}
    BY <1>2, <1>6
  <2> QED BY <1>10, <2>1, <2>2 DEF ToSet
<1>13. AddedBy(p)'
  <2>1. \A i \in 1..b : ring'.keys[i] = before.keys[i]
    BY <1>8, <1>10, <1>11
  <2>2. ASSUME NEW j \in 1..k+1 PROVE ring'.keys[b + j] = v[j][1]
    <3>1. CASE j \in 1..k
      BY <1>8, <1>10, <1>11, <3>1
    <3>2. CASE j = k + 1
      BY <1>10, <3>2 DEF h
    <3> QED BY <1>11, <3>1, <3>2
  <2>3. DOMAIN ring'.nodeAt = DOMAIN before.nodeAt \cup {v[j][1] : j \in 1..k+1}
    BY <1>7, <1>8, <1>11 DEF h
  <2>4. ASSUME NEW x \in DOMAIN ring'.nodeAt
        PROVE  \/ \E j \in 1..k+1 : v[j] = <<x, ring'.nodeAt[x]>>
               \/ (\A j \in 1..k+1 : v[j][1] # x) /\ ring'.nodeAt[x] = before.nodeAt[x]
    <3>1. CASE x = h
      <4>1. ring'.nodeAt[x] = n
        BY <1>7, <3>1
      <4>2. k + 1 \in 1..k+1 /\ v[k + 1] = <<x, ring'.nodeAt[x]>>
        BY <1>5, <1>11, <3>1, <4>1
      <4> QED BY <4>2
    <3>2. CASE x # h
      <4>1. x \in DOMAIN ring.nodeAt /\ ring'.nodeAt[x] = ring.nodeAt[x]
        BY <1>7, <3>2
      <4>2. CASE \E j \in 1..k : v[j] = <<x, ring.nodeAt[x]>>
        BY <1>11, <4>1, <4>2
      <4>3. CASE (\A j \in 1..k : v[j][1] # x) /\ ring.nodeAt[x] = before.nodeAt[x]
        <5>1. \A j \in 1..k+1 : v[j][1] # x
          BY <1>11, <3>2, <4>3 DEF h
        <5> QED BY <4>1, <4>3, <5>1
      <4> QED BY <1>8, <4>1, <4>2, <4>3
    <3> QED BY <3>1, <3>2
  <2>5. Len(ring'.keys) = b + step'[p]
    BY <1>4, <1>10
  <2> DEFINE m == step'[p]
  <2>6. m = k + 1
    BY <1>4
  <2> HIDE DEF m
  <2>7. /\ Len(ring'.keys) = b + m
        /\ \A i \in 1..b : ring'.keys[i] = before.keys[i]
        /\ \A j \in 1..m : ring'.keys[b + j] = v[j][1]
        /\ DOMAIN ring'.nodeAt = DOMAIN before.nodeAt \cup {v[j][1] : j \in 1..m}
        /\ \A x \in DOMAIN ring'.nodeAt :
              \/ \E j \in 1..m : v[j] = <<x, ring'.nodeAt[x]>>
              \/ (\A j \in 1..m : v[j][1] # x) /\ ring'.nodeAt[x] = before.nodeAt[x]
    BY <2>1, <2>2, <2>3, <2>4, <2>5, <2>6 DEF m
  <2>8. Added(ring', before, v, m)
    BY <2>7 DEF Added, b
  <2> QED BY <1>9, <2>8 DEF AddedBy, m
<1>14. TypeOK'
  <2>1. DOMAIN ring'.nodeAt \subseteq ToSet(ring'.keys) /\ \A x \in DOMAIN ring'.nodeAt : ring'.nodeAt[x] \in Node
    BY <1>5, <1>6, <1>7, <1>12
  <2> QED BY <1>1, <1>4, <1>10, <2>1 DEF RingInv, TypeOK
<1>15. \A q \in Proc : q = p \/ pc'[q] \notin {"add", "remove", "get", "found"}
  BY <1>4
<1> QED BY <1>1, <1>4, <1>7, <1>13, <1>14, <1>15 DEF RingInv

\* A ring s that Add has made of old: every hash added belongs to one of the nodes that
\* has it, and every other to whom it belonged.
RingAfterAdd(s, old, nodes) ==
    LET v == Virtuals(nodes, hash)
        H == {v[j][1] : j \in 1..Len(v)}
    IN /\ Whole(s) /\ s = [keys |-> s.keys, nodeAt |-> s.nodeAt]
       /\ Range(s.keys) = Range(old.keys) \cup H
       /\ DOMAIN s.nodeAt = DOMAIN old.nodeAt \cup H
       /\ \A h \in H : /\ h \in DOMAIN s.nodeAt /\ s.nodeAt[h] \in Range(nodes)
                       /\ h \in Range(hash[s.nodeAt[h]])
       /\ \A h \in DOMAIN s.nodeAt : h \notin H =>
             h \in DOMAIN old.nodeAt /\ s.nodeAt[h] = old.nodeAt[h]

\* Sorting what Add's loops have appended makes one.
LEMMA AddedIsWhole ==
    ASSUME hash \in Hashing, NEW c \in Adds, NEW old, Whole(old), NEW r, r.keys \in Seq(Int),
           r = [keys |-> r.keys, nodeAt |-> r.nodeAt],
           \A h \in DOMAIN r.nodeAt : r.nodeAt[h] \in Node,
           Added(r, old, Virtuals(c.arg, hash), Len(Virtuals(c.arg, hash)))
    PROVE  RingAfterAdd(SortKeys(r), old, c.arg) /\ SortKeys(r).keys = Sorted(r.keys)
<1> DEFINE s == SortKeys(r)
           v == Virtuals(c.arg, hash)
           H == {v[j][1] : j \in 1..Len(v)}
           b == Len(old.keys)
<1>1. /\ Len(v) \in Nat
      /\ \A j \in 1..Len(v) : /\ v[j] = <<v[j][1], v[j][2]>> /\ v[j][1] \in Int
                              /\ v[j][2] \in Range(c.arg)
                              /\ v[j][1] \in Range(hash[v[j][2]])
  BY TodoIs
<1> HIDE DEF v
<1>2. s = [keys |-> Sorted(r.keys), nodeAt |-> r.nodeAt]
  <2>1. s = [r EXCEPT !.keys = Sorted(@)]
    BY DEF SortKeys
  <2> HIDE DEF s
  <2> QED BY <2>1
<1> HIDE DEF s, H
<1>3. s.keys = Sorted(r.keys) /\ s.nodeAt = r.nodeAt /\ s = [keys |-> s.keys, nodeAt |-> s.nodeAt]
  BY <1>2
<1>4. /\ s.keys \in Seq(Int) /\ Range(s.keys) = Range(r.keys)
      /\ \A i, j \in 1..Len(s.keys) : i <= j => s.keys[i] <= s.keys[j]
  BY <1>3, SortedIsSorted
<1>5. /\ Len(r.keys) = b + Len(v)
      /\ \A i \in 1..b : r.keys[i] = old.keys[i]
      /\ \A j \in 1..Len(v) : r.keys[b + j] = v[j][1]
      /\ DOMAIN r.nodeAt = DOMAIN old.nodeAt \cup H
      /\ \A h \in DOMAIN r.nodeAt :
            \/ \E j \in 1..Len(v) : v[j] = <<h, r.nodeAt[h]>>
            \/ /\ \A j \in 1..Len(v) : v[j][1] # h
               /\ r.nodeAt[h] = old.nodeAt[h]
  BY DEF Added, v, H
<1>6. b \in Nat /\ DOMAIN old.keys = 1..b /\ DOMAIN r.keys = 1..b + Len(v)
  BY <1>5, LenProperties DEF Whole
<1> HIDE DEF b
<1>7. Range(r.keys) = Range(old.keys) \cup H
  <2>1. \A i \in 1..b + Len(v) : i \in 1..b \/ (i - b \in 1..Len(v) /\ b + (i - b) = i)
    BY <1>1, <1>6
  <2>2. \A i \in 1..b : i \in 1..b + Len(v)
    BY <1>1, <1>6
  <2>3. \A j \in 1..Len(v) : b + j \in 1..b + Len(v)
    BY <1>1, <1>6
  <2>4. ASSUME NEW x \in Range(r.keys) PROVE x \in Range(old.keys) \cup H
    <3>1. PICK i \in 1..b + Len(v) : r.keys[i] = x
      BY <1>6 DEF Range
    <3>2. CASE i \in 1..b
      <4>1. old.keys[i] = x
        BY <1>5, <3>1, <3>2
      <4> QED BY <1>6, <3>2, <4>1 DEF Range
    <3>3. CASE i - b \in 1..Len(v) /\ b + (i - b) = i
      <4>1. v[i - b][1] = x
        BY <1>5, <3>1, <3>3
      <4> QED BY <3>3, <4>1 DEF H
    <3> QED BY <2>1, <3>2, <3>3
  <2>5. ASSUME NEW x \in Range(old.keys) PROVE x \in Range(r.keys)
    <3>1. PICK i \in 1..b : old.keys[i] = x
      BY <1>6 DEF Range
    <3>2. r.keys[i] = x /\ i \in DOMAIN r.keys
      BY <1>5, <1>6, <2>2, <3>1
    <3> QED BY <3>2 DEF Range
  <2>6. ASSUME NEW x \in H PROVE x \in Range(r.keys)
    <3>1. PICK j \in 1..Len(v) : v[j][1] = x
      BY DEF H
    <3>2. r.keys[b + j] = x /\ b + j \in DOMAIN r.keys
      BY <1>5, <1>6, <2>3, <3>1
    <3> QED BY <3>2 DEF Range
  <2> QED BY <2>4, <2>5, <2>6
<1>8. ASSUME NEW h \in H
      PROVE  h \in DOMAIN s.nodeAt /\ s.nodeAt[h] \in Range(c.arg) /\ h \in Range(hash[s.nodeAt[h]])
  <2>1. PICK i \in 1..Len(v) : v[i][1] = h
    BY DEF H
  <2>2. h \in DOMAIN r.nodeAt
    BY <1>5
  <2>3. PICK j \in 1..Len(v) : v[j] = <<h, r.nodeAt[h]>>
    BY <1>5, <2>1, <2>2
  <2>4. v[j][1] = h /\ v[j][2] = r.nodeAt[h]
    BY <2>3
  <2> QED BY <1>1, <1>3, <2>2, <2>4
<1>9. ASSUME NEW h \in DOMAIN s.nodeAt, h \notin H
      PROVE  h \in DOMAIN old.nodeAt /\ s.nodeAt[h] = old.nodeAt[h]
  <2>1. h \in DOMAIN r.nodeAt /\ h \in DOMAIN old.nodeAt
    BY <1>3, <1>5, <1>9
  <2>2. ~\E j \in 1..Len(v) : v[j] = <<h, r.nodeAt[h]>>
    <3>1. SUFFICES ASSUME NEW j \in 1..Len(v), v[j] = <<h, r.nodeAt[h]>> PROVE FALSE
      OBVIOUS
    <3>2. v[j][1] = h
      BY <3>1
    <3> QED BY <1>9, <3>2 DEF H
  <2> QED BY <1>3, <1>5, <2>1, <2>2
<1>10. Whole(s)
  <2>1. DOMAIN s.nodeAt \subseteq ToSet(s.keys)
    <3>1. DOMAIN old.nodeAt \subseteq Range(old.keys)
      BY SetOf DEF Whole
    <3>2. ToSet(s.keys) = Range(old.keys) \cup H
      BY <1>4, <1>7, SetOf
    <3> QED BY <1>3, <1>5, <3>1, <3>2
  <2> QED BY <1>3, <1>4, <2>1 DEF Whole
<1> QED BY <1>3, <1>4, <1>5, <1>7, <1>8, <1>9, <1>10 DEF RingAfterAdd, s, v, H

\* AddReturn's ring.
LEMMA AddReturnRing ==
    ASSUME RingInv, NEW p \in Proc, AddReturn(p)
    PROVE  /\ op[p] \in Adds /\ hash \in Hashing /\ InCall(p) /\ Good(before)
           /\ RingAfterAdd(ring', before, op[p].arg)
           /\ ring'.keys = Sorted(ring.keys) /\ ring.keys \in Seq(Int)
           /\ Added(ring, before, Virtuals(op[p].arg, hash), Len(Virtuals(op[p].arg, hash)))
<1>1. /\ pc[p] = "add" /\ InCall(p) /\ step[p] = Len(Virtuals(op[p].arg, hash))
      /\ ring' = SortKeys(ring)
  BY DEF AddReturn, InCall
<1>2. /\ op[p] \in Adds /\ hash \in Hashing /\ AddedBy(p) /\ Good(before)
      /\ ring.keys \in Seq(Int) /\ ring = [keys |-> ring.keys, nodeAt |-> ring.nodeAt]
      /\ \A h \in DOMAIN ring.nodeAt : ring.nodeAt[h] \in Node
  BY <1>1, ProcAssumption DEF RingInv, Locked, TypeOK
<1>3. Added(ring, before, Virtuals(op[p].arg, hash), Len(Virtuals(op[p].arg, hash)))
  BY <1>1, <1>2 DEF AddedBy
<1>4. Whole(before)
  BY <1>2 DEF Good
<1> QED BY <1>1, <1>2, <1>3, <1>4, AddedIsWhole

\* Add returns with a ring of the members and its nodes.
LEMMA AddReturnKeeps ==
    ASSUME RingInv, NEW p \in Proc, AddReturn(p)
    PROVE  RingInv'
<1> DEFINE v == Virtuals(op[p].arg, hash)
           H == {v[j][1] : j \in 1..Len(v)}
           arg == op[p].arg
           b == Len(before.keys)
<1>0. RingAfterAdd(ring', before, arg)
  BY AddReturnRing
<1>1. /\ op[p] \in Adds /\ hash \in Hashing /\ InCall(p) /\ Good(before)
      /\ Whole(ring') /\ ring' = [keys |-> ring'.keys, nodeAt |-> ring'.nodeAt]
      /\ ring'.keys = Sorted(ring.keys) /\ ring.keys \in Seq(Int)
      /\ Added(ring, before, v, Len(v))
      /\ Range(ring'.keys) = Range(before.keys) \cup H
      /\ \A h \in H : /\ h \in DOMAIN ring'.nodeAt /\ ring'.nodeAt[h] \in Range(arg)
                      /\ h \in Range(hash[ring'.nodeAt[h]])
      /\ \A h \in DOMAIN ring'.nodeAt : h \notin H =>
            h \in DOMAIN before.nodeAt /\ ring'.nodeAt[h] = before.nodeAt[h]
      /\ DOMAIN ring'.nodeAt = DOMAIN before.nodeAt \cup H
  BY <1>0, AddReturnRing DEF RingAfterAdd
<1>2. /\ UNCHANGED <<hash, op, step, ans, before>>
      /\ members' = members \cup Range(arg)
      /\ misused' = (misused \/ members \cap Range(arg) # {})
      /\ Leave(p, "done")
  BY SetOf DEF AddReturn
<1>3. /\ Locked' /\ mu = p /\ mu' = NoNode /\ p # NoNode
      /\ pc' \in [Proc -> {"idle", "add", "remove", "get", "found", "done", "panicked"}]
      /\ \A q \in Proc : pc'[q] \notin {"add", "remove", "get", "found"}
  BY <1>1, <1>2, LeaveKeeps
<1>4. /\ Len(v) \in Nat
      /\ \A j \in 1..Len(v) : /\ v[j][1] \in Int
                              /\ v[j][2] \in Range(arg) /\ v[j][2] \in Node
                              /\ v[j][1] \in Range(hash[v[j][2]])
      /\ \A n \in Range(arg) : n \in Node /\ \A h \in Range(hash[n]) :
            \E j \in 1..Len(v) : v[j] = <<h, n>>
  BY <1>1, TodoIs
<1>5. arg \in Seq(Node) /\ IsInjective(arg) /\ hash \in [Node -> Seq(Int)]
  BY <1>1, CallsAre, HashesAre
<1>6. members \subseteq Node /\ misused \in BOOLEAN
  BY DEF RingInv, TypeOK
<1>7. ASSUME Clean' PROVE IsInjective(ring'.keys) /\ IsRing(ring', members', hash')
  <2>1. Clean /\ members \cap Range(arg) = {} /\ Distinct(Node, hash)
    BY <1>2, <1>7 DEF Clean
  <2>2. IsInjective(before.keys) /\ IsRing(before, members, hash)
    BY <1>1, <2>1 DEF Good
  <2>3. \A i, j \in 1..Len(v) : v[i][1] = v[j][1] => i = j
    BY <1>5, <2>1, VirtualsAreOne
  <2> HIDE DEF v, arg, H
  <2>4. /\ Len(ring.keys) = b + Len(v)
        /\ \A i \in 1..b : ring.keys[i] = before.keys[i]
        /\ \A j \in 1..Len(v) : ring.keys[b + j] = v[j][1]
    BY <1>1 DEF Added
  <2>5. b \in Nat /\ DOMAIN before.keys = 1..b /\ DOMAIN ring.keys = 1..b + Len(v)
    <3>1. before.keys \in Seq(Int)
      BY <2>2 DEF IsRing
    <3> QED BY <1>1, <2>4, <3>1, LenProperties
  <2> HIDE DEF b
  <2>6. ASSUME NEW i \in 1..b, NEW j \in 1..Len(v), before.keys[i] = v[j][1] PROVE FALSE
    <3> DEFINE x == v[j][1]
               n == v[j][2]
               m == before.nodeAt[x]
    <3>1. x \in Range(before.keys)
      BY <2>5, <2>6 DEF Range
    <3>2. m \in members /\ x \in Range(hash[m])
      BY <2>2, <3>1 DEF IsRing
    <3>3. n \in Range(arg) /\ n \in Node /\ x \in Range(hash[n]) /\ m \in Node
      BY <1>4, <1>6, <3>2
    <3> HIDE DEF x, n, m
    <3>4. n = m
      <4>1. PICK k \in DOMAIN hash[n] : x = hash[n][k]
        BY <3>3 DEF Range
      <4>2. PICK l \in DOMAIN hash[m] : x = hash[m][l]
        BY <3>2 DEF Range
      <4> QED BY <2>1, <3>3, <4>1, <4>2 DEF Distinct
    <3> QED BY <2>1, <3>2, <3>3, <3>4
  <2>7. IsInjective(ring.keys)
    <3>1. ASSUME NEW i \in 1..b + Len(v), NEW j \in 1..b + Len(v), ring.keys[i] = ring.keys[j] PROVE i = j
      <4>1. \A k \in 1..b + Len(v) :
              \/ k \in 1..b /\ ring.keys[k] = before.keys[k]
              \/ k - b \in 1..Len(v) /\ ring.keys[k] = v[k - b][1]
        <5> TAKE k \in 1..b + Len(v)
        <5>1. k \in 1..b \/ (k - b \in 1..Len(v) /\ b + (k - b) = k)
          BY <1>4, <2>5
        <5>2. CASE k \in 1..b
          BY <2>4, <5>2
        <5>3. CASE k - b \in 1..Len(v) /\ b + (k - b) = k
          <6>1. ring.keys[b + (k - b)] = v[k - b][1]
            BY <2>4, <5>3
          <6> QED BY <5>3, <6>1
        <5> QED BY <5>1, <5>2, <5>3
      <4>2. CASE i \in 1..b /\ ring.keys[i] = before.keys[i]
        <5>1. j \in 1..b /\ ring.keys[j] = before.keys[j]
          BY <2>6, <3>1, <4>1, <4>2
        <5> QED BY <2>2, <2>5, <3>1, <4>2, <5>1 DEF IsInjective
      <4>3. CASE i - b \in 1..Len(v) /\ ring.keys[i] = v[i - b][1]
        <5>1. j - b \in 1..Len(v) /\ ring.keys[j] = v[j - b][1]
          BY <2>6, <3>1, <4>1, <4>3
        <5>2. i - b = j - b
          BY <2>3, <3>1, <4>3, <5>1
        <5> QED BY <2>5, <5>2
      <4> QED BY <4>1, <4>2, <4>3
    <3> QED BY <2>5, <3>1 DEF IsInjective
  <2>8. IsInjective(ring'.keys)
    BY <1>1, <2>7, SortedIsInjective
  <2>9. ASSUME NEW n \in members \cup Range(arg) PROVE Range(hash[n]) \subseteq Range(ring'.keys)
    <3>1. CASE n \in members
      BY <1>1, <2>2, <3>1 DEF IsRing
    <3>2. CASE n \in Range(arg)
      <4>1. SUFFICES ASSUME NEW h \in Range(hash[n]) PROVE h \in H
        BY <1>1
      <4>2. PICK j \in 1..Len(v) : v[j] = <<h, n>>
        BY <1>4, <3>2
      <4>3. v[j][1] = h
        BY <4>2
      <4> QED BY <4>3 DEF H
    <3> QED BY <3>1, <3>2
  <2>10. ASSUME NEW h \in Range(ring'.keys)
         PROVE  /\ h \in DOMAIN ring'.nodeAt
                /\ ring'.nodeAt[h] \in members \cup Range(arg)
                /\ h \in Range(hash[ring'.nodeAt[h]])
    <3>1. CASE h \in H
      BY <1>1, <3>1
    <3>2. CASE h \notin H
      <4>1. h \in Range(before.keys)
        BY <1>1, <3>2
      <4>2. h \in DOMAIN before.nodeAt /\ before.nodeAt[h] \in members /\ h \in Range(hash[before.nodeAt[h]])
        BY <2>2, <4>1 DEF IsRing
      <4>3. h \in DOMAIN ring'.nodeAt /\ ring'.nodeAt[h] = before.nodeAt[h]
        BY <1>1, <3>2, <4>2
      <4> QED BY <4>2, <4>3
    <3> QED BY <3>1, <3>2
  <2>11. ring'.keys \in Seq(Int) /\ \A i, j \in 1..Len(ring'.keys) : i <= j => ring'.keys[i] <= ring'.keys[j]
    BY <1>1 DEF Whole
  <2> QED BY <1>2, <2>8, <2>9, <2>10, <2>11 DEF IsRing
<1>8. Good(ring)'
  BY <1>1, <1>7 DEF Good
<1>9. TypeOK'
  <2>1. members' \subseteq Node /\ misused' \in BOOLEAN
    <3>1. Range(arg) \subseteq Node
      BY <1>4
    <3> QED BY <1>2, <1>6, <3>1
  <2> QED BY <1>1, <1>2, <1>3, <2>1 DEF RingInv, TypeOK, Whole
<1> QED BY <1>1, <1>3, <1>8, <1>9 DEF RingInv

\* sort.Search finds a key that is there.
LEMMA SearchFound ==
    ASSUME NEW keys \in Seq(Int), \A i, j \in 1..Len(keys) : i <= j => keys[i] <= keys[j],
           NEW w \in Range(keys)
    PROVE  Search(keys, w) < Len(keys) /\ keys[Search(keys, w) + 1] = w
<1> DEFINE s == Search(keys, w)
           n == Len(keys)
<1>1. n \in Nat /\ DOMAIN keys = 1..n /\ \A i \in 1..n : keys[i] \in Int
  BY LenProperties, ElementOfSeq
<1>2. PICK j \in 1..n : keys[j] = w
  BY <1>1 DEF Range
<1>3. w \in Int
  BY <1>1, <1>2
<1>4. s \in 0..n /\ (s < n => keys[s + 1] >= w) /\ \A i \in 1..s : keys[i] < w
  BY <1>3, SearchFinds
<1>5. \A i, k \in 1..n : i <= k => keys[i] <= keys[k]
  OBVIOUS
<1> HIDE DEF s, n
<1>6. j > s
  BY <1>1, <1>2, <1>3, <1>4
<1>7. s + 1 \in 1..n /\ s + 1 <= j /\ s < n
  BY <1>1, <1>2, <1>4, <1>6
<1>8. keys[s + 1] <= w /\ keys[s + 1] \in Int
  BY <1>1, <1>2, <1>5, <1>7
<1> QED BY <1>3, <1>4, <1>7, <1>8 DEF s, n

\* In Remove of a member, what it has removed is gone; of a stranger, nothing is.
LEMMA RemovedSoFar ==
    ASSUME RingInv, NEW p \in Proc, pc[p] = "remove"
    PROVE  /\ InCall(p) /\ mu = p /\ hash \in Hashing /\ Good(before) /\ Removed(p)
           /\ op[p] \in Removes /\ op[p].arg \in Node /\ step[p] \in Nat
           /\ step[p] <= Len(hash[op[p].arg])
           /\ Clean /\ op[p].arg \notin members => step[p] = 0 /\ ring = before
           /\ Clean /\ op[p].arg \in members =>
                 /\ IsInjective(ring.keys)
                 /\ Range(ring.keys) = Range(before.keys) \ {hash[op[p].arg][j] : j \in 1..step[p]}
                 /\ \A h \in Range(ring.keys) : /\ h \in DOMAIN ring.nodeAt
                                                /\ ring.nodeAt[h] = before.nodeAt[h]
<1>1. /\ InCall(p) /\ mu = p /\ hash \in Hashing /\ Good(before) /\ Removed(p)
      /\ op[p] \in Removes /\ step[p] \in Nat /\ step[p] <= Len(hash[op[p].arg])
  BY ProcAssumption DEF RingInv, Locked, TypeOK, InCall
<1>2. op[p].arg \in Node
  BY <1>1, CallsAre
<1>3. Clean /\ op[p].arg \notin members => step[p] = 0 /\ ring = before
  BY <1>1 DEF Removed
<1>4. ASSUME Clean, op[p].arg \in members
      PROVE  /\ IsInjective(ring.keys)
             /\ Range(ring.keys) = Range(before.keys) \ {hash[op[p].arg][j] : j \in 1..step[p]}
             /\ \A h \in Range(ring.keys) : /\ h \in DOMAIN ring.nodeAt
                                            /\ ring.nodeAt[h] = before.nodeAt[h]
  <2>1. CASE step[p] = 0 /\ ring = before
    <3>1. IsInjective(before.keys) /\ IsRing(before, members, hash)
      BY <1>1, <1>4 DEF Good
    <3>2. {hash[op[p].arg][j] : j \in 1..step[p]} = {}
      BY <2>1
    <3> QED BY <2>1, <3>1, <3>2 DEF IsRing
  <2>2. CASE ~(step[p] = 0 /\ ring = before)
    BY <1>1, <1>4, <2>2, SetOf DEF Removed
  <2> QED BY <2>1, <2>2
<1> QED BY <1>1, <1>2, <1>3, <1>4

\* Whose hash is on a ring is a member and has it there, if hashes do not collide.
LEMMA HashOfMember ==
    ASSUME Distinct(Node, hash), members \subseteq Node, NEW r, IsRing(r, members, hash),
           NEW n, n \in Node, NEW x, x \in Range(hash[n]), x \in Range(r.keys)
    PROVE  n \in members /\ r.nodeAt[x] = n
<1> DEFINE m == r.nodeAt[x]
<1>1. m \in members /\ m \in Node /\ x \in Range(hash[m])
  BY DEF IsRing
<1> HIDE DEF m
<1>2. PICK i \in DOMAIN hash[n] : x = hash[n][i]
  BY DEF Range
<1>3. PICK j \in DOMAIN hash[m] : x = hash[m][j]
  BY <1>1 DEF Range
<1>4. n = m
  <2>1. hash[n][i] = hash[m][j] /\ n \in Node /\ m \in Node
    BY <1>1, <1>2, <1>3
  <2> QED BY <2>1 DEF Distinct
<1> QED BY <1>1, <1>4 DEF m

\* The hash that Remove of a member looks for is there, and not for a stranger.
LEMMA WantedFound ==
    ASSUME RingInv, NEW p \in Proc, Removing(p)
    PROVE  /\ pc[p] = "remove" /\ step[p] + 1 \in 1..Len(hash[op[p].arg])
           /\ Wanted(p) \in Int /\ Wanted(p) \in Range(hash[op[p].arg])
           /\ Clean /\ Wanted(p) \in Range(ring.keys) => op[p].arg \in members
           /\ Clean /\ op[p].arg \in members =>
                 /\ Search(ring.keys, Wanted(p)) < Len(ring.keys)
                 /\ ring.keys[Search(ring.keys, Wanted(p)) + 1] = Wanted(p)
<1> DEFINE a == op[p].arg
           k == step[p]
           w == Wanted(p)
<1>1. pc[p] = "remove" /\ k < Len(hash[a])
  BY DEF Removing
<1>2. /\ hash \in Hashing /\ Good(before) /\ Removed(p) /\ a \in Node /\ k \in Nat
      /\ Clean /\ a \notin members => k = 0 /\ ring = before
      /\ Clean /\ a \in members =>
                 /\ IsInjective(ring.keys)
                 /\ Range(ring.keys) = Range(before.keys) \ {hash[a][j] : j \in 1..k}
  BY <1>1, RemovedSoFar
<1>3. /\ hash \in [Node -> Seq(Int)] /\ Len(hash[a]) \in Nat /\ DOMAIN hash[a] = 1..Len(hash[a])
      /\ \A j \in 1..Len(hash[a]) : hash[a][j] \in Int
  BY <1>2, HashesAre
<1>4. w = hash[a][k + 1]
  BY DEF Wanted
<1>5. members \subseteq Node
  BY DEF RingInv, TypeOK
<1> HIDE DEF a, k, w
<1>6. k + 1 \in 1..Len(hash[a]) /\ k + 1 \notin 1..k
  BY <1>1, <1>2, <1>3
<1>7. w \in Int /\ w \in Range(hash[a])
  BY <1>3, <1>4, <1>6 DEF Range
<1>8. ASSUME Clean, w \in Range(ring.keys) PROVE a \in members
  <2>1. IsRing(before, members, hash) /\ Distinct(Node, hash)
    BY <1>2, <1>8 DEF Good, Clean
  <2>2. a \notin members => w \in Range(before.keys)
    BY <1>2, <1>8
  <2> QED BY <1>2, <1>3, <1>5, <1>7, <2>1, <2>2, HashOfMember
<1>9. ASSUME Clean, a \in members
      PROVE  Search(ring.keys, w) < Len(ring.keys) /\ ring.keys[Search(ring.keys, w) + 1] = w
  <2>1. IsRing(before, members, hash) /\ Distinct(Node, hash)
    BY <1>2, <1>9 DEF Good, Clean
  <2>2. w \in Range(before.keys)
    BY <1>7, <1>9, <2>1 DEF IsRing
  <2>3. w \notin {hash[a][j] : j \in 1..k}
    <3>1. SUFFICES ASSUME NEW j \in 1..k, w = hash[a][j] PROVE FALSE
      OBVIOUS
    <3>2. j \in 1..Len(hash[a]) /\ j # k + 1
      BY <1>2, <1>3, <1>6
    <3>3. /\ a \in Node /\ j \in DOMAIN hash[a] /\ k + 1 \in DOMAIN hash[a]
          /\ hash[a][j] = hash[a][k + 1]
      BY <1>2, <1>3, <1>4, <1>6, <3>1, <3>2
    <3>4. j = k + 1
      BY <2>1, <3>3 DEF Distinct
    <3> QED BY <3>2, <3>4
  <2>4. w \in Range(ring.keys)
    BY <1>2, <1>9, <2>2, <2>3
  <2> QED BY <1>2, <2>4, SearchFound DEF Removed, Whole
<1> QED BY <1>1, <1>6, <1>7, <1>8, <1>9 DEF a, k, w

\* A turn of Remove's loop takes one hash of its node.
LEMMA RemoveTurnKeeps ==
    ASSUME RingInv, NEW p \in Proc, RemoveTurn(p)
    PROVE  RingInv'
<1> DEFINE a == op[p].arg
           k == step[p]
           w == Wanted(p)
           i == Search(ring.keys, w) + 1
<1>1. /\ Removing(p) /\ i - 1 < Len(ring.keys) /\ ring.keys[i] = w
      /\ ring' = [keys |-> RemoveAt(ring.keys, i),
                  nodeAt |-> Restrict(ring.nodeAt, DOMAIN ring.nodeAt \ {w})]
      /\ step' = [step EXCEPT ![p] = k + 1]
      /\ UNCHANGED <<hash, mu, op, pc, ans, members, misused, before>>
  <2>1. Search(ring.keys, w) \in 0..Len(ring.keys)
    <3>1. w \in Int /\ ring.keys \in Seq(Int)
      BY WantedFound DEF RingInv, TypeOK, RemoveTurn
    <3> QED BY <3>1, SearchFinds
  <2>2. (Search(ring.keys, w) + 1) - 1 = Search(ring.keys, w)
    BY <2>1
  <2> QED BY <2>2 DEF RemoveTurn
<1>2. /\ pc[p] = "remove" /\ k + 1 \in 1..Len(hash[a]) /\ w \in Int /\ w \in Range(hash[a])
      /\ Clean /\ w \in Range(ring.keys) => a \in members
  BY <1>1, WantedFound
<1>3. /\ InCall(p) /\ mu = p /\ hash \in Hashing /\ Good(before) /\ Removed(p)
      /\ op[p] \in Removes /\ a \in Node /\ k \in Nat
      /\ Clean /\ a \in members =>
            /\ IsInjective(ring.keys)
            /\ Range(ring.keys) = Range(before.keys) \ {hash[a][j] : j \in 1..k}
            /\ \A h \in Range(ring.keys) : /\ h \in DOMAIN ring.nodeAt
                                           /\ ring.nodeAt[h] = before.nodeAt[h]
  BY <1>2, RemovedSoFar
<1>4. w = hash[a][k + 1]
  BY DEF Wanted
<1>5. Len(ring.keys) \in Nat /\ i \in 1..Len(ring.keys) /\ ring.keys \in Seq(Int) /\ Whole(ring)
  <2>1. ring.keys \in Seq(Int) /\ Whole(ring)
    BY <1>3 DEF Removed, Whole
  <2>2. Search(ring.keys, w) \in 0..Len(ring.keys) /\ Len(ring.keys) \in Nat
    BY <1>2, <2>1, SearchFinds, LenProperties
  <2>3. i - 1 < Len(ring.keys)
    BY <1>1
  <2> QED BY <2>1, <2>2, <2>3
<1>6. /\ Locked' /\ mu' = p /\ p # NoNode /\ Good(before)'
      /\ step' \in [Proc -> Nat] /\ step'[p] = k + 1
      /\ \A q \in Proc : pc'[q] \in {"add", "remove", "get", "found"} => q = p
  <2>1. k + 1 \in Nat /\ k + 1 <= Len(hash[op[p].arg]) /\ pc[p] # "add"
    BY <1>2, <1>3
  <2> HIDE DEF k
  <2> QED BY <1>1, <1>3, <2>1, TurnKeeps
<1> HIDE DEF a, k, w, i
<1> DEFINE t == RemoveAt(ring.keys, i)
<1>7. /\ t \in Seq(Int)
      /\ \A j, l \in 1..Len(t) : j <= l => t[j] <= t[l]
      /\ Range(ring.keys) = Range(t) \cup {w}
      /\ IsInjective(ring.keys) => IsInjective(t) /\ Range(t) = Range(ring.keys) \ {w}
  BY <1>1, <1>5, RemoveAtTakesOne DEF Whole
<1>8. /\ ring'.keys = t /\ DOMAIN ring'.nodeAt = DOMAIN ring.nodeAt \ {w}
      /\ \A h \in DOMAIN ring'.nodeAt : ring'.nodeAt[h] = ring.nodeAt[h]
      /\ ring' = [keys |-> ring'.keys, nodeAt |-> ring'.nodeAt]
  BY <1>1 DEF Restrict
<1> HIDE DEF t
<1>9. Whole(ring')
  <2>1. DOMAIN ring'.nodeAt \subseteq ToSet(ring'.keys)
    BY <1>5, <1>7, <1>8, SetOf DEF Whole
  <2>2. \A h \in DOMAIN ring'.nodeAt : ring'.nodeAt[h] \in Node
    BY <1>5, <1>8 DEF Whole
  <2> QED BY <1>7, <1>8, <2>1, <2>2 DEF Whole
<1>10. Removed(p)'
  <2>1. ASSUME Clean
        PROVE  /\ a \in members
               /\ IsInjective(ring'.keys)
               /\ Range(ring'.keys) = Range(before.keys) \ {hash[a][j] : j \in 1..k+1}
               /\ \A h \in Range(ring'.keys) : /\ h \in DOMAIN ring'.nodeAt
                                               /\ ring'.nodeAt[h] = before.nodeAt[h]
    <3>1. a \in members
      BY <1>2, <1>7, <2>1
    <3>2. 1..k+1 = 1..k \cup {k + 1}
      BY <1>3
    <3>3. {hash[a][j] : j \in 1..k+1} = {hash[a][j] : j \in 1..k} \cup {w}
      BY <1>4, <3>2
    <3> QED BY <1>3, <1>7, <1>8, <2>1, <3>1, <3>3
  <2>2. Clean' <=> Clean
    BY <1>1 DEF Clean
  <2>3. step'[p] = k + 1 /\ op'[p].arg = a /\ hash' = hash /\ members' = members /\ before' = before
    BY <1>1, <1>6 DEF a
  <2> QED BY <1>9, <2>1, <2>2, <2>3, SetOf DEF Removed
<1>11. TypeOK'
  <2>1. ring'.keys \in Seq(Int) /\ DOMAIN ring'.nodeAt \subseteq ToSet(ring'.keys)
        /\ \A h \in DOMAIN ring'.nodeAt : ring'.nodeAt[h] \in Node
    BY <1>9 DEF Whole
  <2> QED BY <1>1, <1>6, <2>1 DEF RingInv, TypeOK
<1>12. pc'[p] = "remove" /\ \A q \in Proc : q = p \/ pc'[q] \notin {"add", "remove", "get", "found"}
  BY <1>1, <1>2, <1>6
<1> QED BY <1>6, <1>8, <1>10, <1>11, <1>12 DEF RingInv

\* Remove ends with the rest of the ring as it was; of a member, it has all hashes.
LEMMA RemoveEndKeeps ==
    ASSUME RingInv, NEW p \in Proc, pc[p] = "remove", NEW point \in {"done", "panicked"}, RemoveEnd(p, point),
           Clean /\ op[p].arg \in members => step[p] = Len(hash[op[p].arg])
    PROVE  RingInv'
<1> DEFINE a == op[p].arg
           k == step[p]
<1>1. /\ InCall(p) /\ hash \in Hashing /\ Good(before) /\ Removed(p) /\ a \in Node /\ k \in Nat
      /\ Clean /\ a \notin members => k = 0 /\ ring = before
      /\ Clean /\ a \in members =>
            /\ IsInjective(ring.keys)
            /\ Range(ring.keys) = Range(before.keys) \ {hash[a][j] : j \in 1..k}
            /\ \A h \in Range(ring.keys) : /\ h \in DOMAIN ring.nodeAt
                                           /\ ring.nodeAt[h] = before.nodeAt[h]
  BY RemovedSoFar
<1>2. /\ members' = members \ {a} /\ Leave(p, point)
      /\ UNCHANGED <<hash, ring, op, step, ans, misused, before>>
  BY DEF RemoveEnd
<1>3. /\ Locked' /\ mu = p /\ mu' = NoNode /\ p # NoNode
      /\ pc' \in [Proc -> {"idle", "add", "remove", "get", "found", "done", "panicked"}]
      /\ \A q \in Proc : pc'[q] \notin {"add", "remove", "get", "found"}
  BY <1>1, <1>2, LeaveKeeps
<1>4. /\ hash \in [Node -> Seq(Int)] /\ DOMAIN hash[a] = 1..Len(hash[a])
      /\ members \subseteq Node
  BY <1>1, HashesAre DEF RingInv, TypeOK
<1>5. Clean /\ a \in members => k = Len(hash[a])
  OBVIOUS
<1> HIDE DEF a, k
<1>6. ASSUME Clean PROVE IsInjective(ring.keys) /\ IsRing(ring, members', hash)
  <2>1. IsInjective(before.keys) /\ IsRing(before, members, hash) /\ Distinct(Node, hash)
    BY <1>1, <1>6 DEF Good, Clean
  <2>2. CASE a \notin members
    <3>1. members' = members
      BY <1>2, <2>2
    <3> QED BY <1>1, <1>6, <2>1, <2>2, <3>1
  <2>3. CASE a \in members
    <3>1. {hash[a][j] : j \in 1..k} = Range(hash[a])
      BY <1>4, <1>5, <1>6, <2>3 DEF Range
    <3>2. Range(ring.keys) = Range(before.keys) \ Range(hash[a])
      BY <1>1, <1>6, <2>3, <3>1
    <3>3. ASSUME NEW n \in members \ {a} PROVE Range(hash[n]) \subseteq Range(ring.keys)
      <4>1. SUFFICES ASSUME NEW x \in Range(hash[n]), x \in Range(hash[a]) PROVE FALSE
        BY <2>1, <3>2 DEF IsRing
      <4>2. x \in Range(before.keys)
        BY <2>1 DEF IsRing
      <4>3. ASSUME NEW o \in Node, x \in Range(hash[o]) PROVE before.nodeAt[x] = o
        <5>1. /\ hash \in [Node -> Seq(Int)] /\ Distinct(Node, hash) /\ members \in SUBSET Node
              /\ IsRing(before, members, hash) /\ o \in Node /\ x \in Range(hash[o])
              /\ x \in Range(before.keys)
          BY <1>4, <2>1, <4>2, <4>3
        <5> QED BY <5>1, HashOfMember
      <4>4. n \in Node /\ n # a
        BY <1>4
      <4> QED BY <1>1, <4>1, <4>3, <4>4
    <3>4. ASSUME NEW h \in Range(ring.keys)
          PROVE  /\ h \in DOMAIN ring.nodeAt /\ ring.nodeAt[h] \in members \ {a}
                 /\ h \in Range(hash[ring.nodeAt[h]])
      <4>1. h \in Range(before.keys) /\ h \notin Range(hash[a])
        BY <3>2
      <4>2. before.nodeAt[h] \in members /\ h \in Range(hash[before.nodeAt[h]])
        BY <2>1, <4>1 DEF IsRing
      <4>3. h \in DOMAIN ring.nodeAt /\ ring.nodeAt[h] = before.nodeAt[h]
        BY <1>1, <1>6, <2>3
      <4> QED BY <4>1, <4>2, <4>3
    <3>5. ring.keys \in Seq(Int) /\ \A i, j \in 1..Len(ring.keys) : i <= j => ring.keys[i] <= ring.keys[j]
      BY <1>1 DEF Removed, Whole
    <3>6. IsRing(ring, members \ {a}, hash)
      BY <3>3, <3>4, <3>5 DEF IsRing
    <3> QED BY <1>1, <1>2, <1>6, <2>3, <3>6
  <2> QED BY <2>2, <2>3
<1>7. Good(ring)'
  <2>1. Clean' <=> Clean
    BY <1>2 DEF Clean
  <2>2. Whole(ring)
    BY <1>1 DEF Removed
  <2> QED BY <1>2, <1>6, <2>1, <2>2 DEF Good
<1>8. TypeOK'
  <2>1. members' \subseteq Node
    BY <1>2, <1>4
  <2> QED BY <1>2, <1>3, <2>1 DEF RingInv, TypeOK
<1>9. (ring = [keys |-> ring.keys, nodeAt |-> ring.nodeAt])'
  BY <1>2 DEF RingInv
<1> QED BY <1>3, <1>7, <1>8, <1>9 DEF RingInv

\* Remove of a stranger may return early.
LEMMA RemoveMissesKeeps ==
    ASSUME RingInv, NEW p \in Proc, RemoveMisses(p)
    PROVE  RingInv'
<1>1. Removing(p) /\ pc[p] = "remove" /\ RemoveEnd(p, "done")
  BY DEF RemoveMisses, Removing
<1>2. ~(Clean /\ op[p].arg \in members)
  BY <1>1, WantedFound DEF RemoveMisses
<1> QED BY <1>1, <1>2, RemoveEndKeeps

\* Remove of a stranger may index past the keys.
LEMMA RemovePanicsKeeps ==
    ASSUME RingInv, NEW p \in Proc, RemovePanics(p)
    PROVE  RingInv' /\ ~(Clean /\ op[p].arg \in members)
<1>1. Removing(p) /\ pc[p] = "remove" /\ RemoveEnd(p, "panicked")
  BY DEF RemovePanics, Removing
<1>2. ~(Clean /\ op[p].arg \in members)
  <2>1. SUFFICES ASSUME Clean, op[p].arg \in members PROVE FALSE
    OBVIOUS
  <2>2. Search(ring.keys, Wanted(p)) < Len(ring.keys) /\ Search(ring.keys, Wanted(p)) = Len(ring.keys)
    BY <1>1, <2>1, WantedFound DEF RemovePanics
  <2>3. Len(ring.keys) \in Nat
    BY LenProperties DEF RingInv, TypeOK
  <2> QED BY <2>2, <2>3
<1> QED BY <1>1, <1>2, RemoveEndKeeps

\* Remove returns with a ring of the other members.
LEMMA RemoveReturnKeeps ==
    ASSUME RingInv, NEW p \in Proc, RemoveReturn(p)
    PROVE  RingInv'
BY RemoveEndKeeps DEF RemoveReturn

\* What Get finds when it ends.
LEMMA GetStays ==
    ASSUME RingInv, NEW p \in Proc, pc[p] \in {"get", "found"}
    PROVE  /\ InCall(p) /\ mu = p /\ p # NoNode /\ hash \in Hashing /\ Good(ring) /\ ring = before /\ Got(p)
           /\ op[p] \in Gets /\ op[p].arg \in KeyHash /\ op[p].arg \in Int
<1>1. /\ InCall(p) /\ mu = p /\ p # NoNode /\ hash \in Hashing /\ Got(p) /\ op[p] \in Gets /\ Good(before)
  BY ProcAssumption DEF RingInv, Locked, TypeOK, InCall
<1>2. ring = before
  BY <1>1 DEF Got
<1>3. op[p].arg \in KeyHash /\ op[p].arg \in Int
  BY <1>1, CallsAre, HashingAssumption
<1> QED BY <1>1, <1>2, <1>3

\* Get ends and leaves the ring.
LEMMA GetEndKeeps ==
    ASSUME RingInv, NEW p \in Proc, pc[p] \in {"get", "found"}, Leave(p, "done"),
           UNCHANGED <<hash, ring, op, step, members, misused, before>>,
           ans' \in [Proc -> Node \cup {NoNode}]
    PROVE  RingInv'
<1>1. InCall(p) /\ Good(ring)
  BY GetStays
<1>2. /\ Locked' /\ mu = p /\ mu' = NoNode
      /\ pc' \in [Proc -> {"idle", "add", "remove", "get", "found", "done", "panicked"}]
      /\ \A q \in Proc : pc'[q] \notin {"add", "remove", "get", "found"}
  BY <1>1, LeaveKeeps
<1>3. Good(ring)'
  BY <1>1 DEF Good, Clean
<1>4. TypeOK'
  BY <1>2 DEF RingInv, TypeOK
<1>5. (ring = [keys |-> ring.keys, nodeAt |-> ring.nodeAt])'
  BY DEF RingInv
<1> QED BY <1>2, <1>3, <1>4, <1>5 DEF RingInv

\* Get of an empty ring answers at once.
LEMMA GetEmptyKeeps ==
    ASSUME RingInv, NEW p \in Proc, GetEmpty(p)
    PROVE  RingInv'
<1>1. pc[p] \in {"get", "found"} /\ Leave(p, "done") /\ ans' \in [Proc -> Node \cup {NoNode}]
  BY DEF GetEmpty, RingInv, TypeOK
<1> QED BY <1>1, GetEndKeeps DEF GetEmpty

\* A Get that finds the index of a key answers what Get would answer at once.
LEMMA FoundIsGet ==
    ASSUME RingInv, NEW p \in Proc, GetReturn(p)
    PROVE  /\ pc[p] = "found" /\ ring.keys # << >>
           /\ ans' = [ans EXCEPT ![p] = GetNode(ring, op[p].arg)]
<1>1. pc[p] = "found" /\ ring.keys # << >> /\ step[p] = Search(ring.keys, op[p].arg)
  BY GetStays DEF GetReturn, Got
<1>2. GetNode(ring, op[p].arg) = NodeOfIndex(ring, step[p])
  BY <1>1 DEF GetNode
<1> QED BY <1>1, <1>2 DEF GetReturn

\* Get answers from the index it found.
LEMMA GetReturnKeeps ==
    ASSUME RingInv, NEW p \in Proc, GetReturn(p)
    PROVE  RingInv'
<1>1. /\ pc[p] = "found" /\ ring.keys # << >>
      /\ ans' = [ans EXCEPT ![p] = GetNode(ring, op[p].arg)]
  BY FoundIsGet
<1>2. Whole(ring) /\ op[p].arg \in Int
  BY <1>1, GetStays DEF Good
<1>3. GetNode(ring, op[p].arg) \in Node \cup {NoNode}
  BY <1>1, <1>2, GetIsNext DEF Whole
<1>4. ans' \in [Proc -> Node \cup {NoNode}]
  BY <1>1, <1>3 DEF RingInv, TypeOK
<1> QED BY <1>1, <1>4, GetEndKeeps DEF GetReturn

\* Get finds an index, in the ring as it will be read.
LEMMA GetSearchKeeps ==
    ASSUME RingInv, NEW p \in Proc, GetSearch(p)
    PROVE  RingInv'
<1>1. /\ pc[p] = "get" /\ ring.keys # << >>
      /\ step' = [step EXCEPT ![p] = Search(ring.keys, op[p].arg)]
      /\ pc' = [pc EXCEPT ![p] = "found"]
      /\ UNCHANGED <<hash, ring, mu, op, ans, members, misused, before>>
  BY DEF GetSearch
<1>2. /\ mu = p /\ p # NoNode /\ Good(before) /\ ring = before /\ op[p] \in Gets /\ op[p].arg \in Int
      /\ Whole(ring)
  BY <1>1, GetStays DEF Good
<1>3. Search(ring.keys, op[p].arg) \in Nat
  <2>1. Search(ring.keys, op[p].arg) \in 0..Len(ring.keys) /\ Len(ring.keys) \in Nat
    BY <1>2, SearchFinds, LenProperties DEF Whole
  <2> QED BY <2>1
<1>4. /\ step' \in [Proc -> Nat] /\ step'[p] = Search(ring.keys, op[p].arg)
      /\ pc' \in [Proc -> {"idle", "add", "remove", "get", "found", "done", "panicked"}] /\ pc'[p] = "found"
      /\ \A q \in Proc : q # p => pc'[q] = pc[q] /\ step'[q] = step[q]
  BY <1>1, <1>3 DEF RingInv, TypeOK
<1>5. \A q \in Proc : q # p => /\ pc[q] \notin {"add", "remove", "get", "found"}
                                /\ mu # q /\ (pc[q] = "idle" => step[q] = 0)
  BY <1>2 DEF RingInv, Locked, InCall
<1>6. Locked'
  <2>1. \A q \in Proc : q # p => /\ pc'[q] \notin {"add", "remove", "get", "found"}
                                 /\ mu' # q /\ (pc'[q] = "idle" => step'[q] = 0)
    BY <1>1, <1>4, <1>5
  <2>2. mu' = p /\ op'[p] \in Gets
    BY <1>1, <1>2
  <2> QED BY <1>4, <2>1, <2>2 DEF Locked, InCall
<1>7. Got(p)'
  BY <1>1, <1>2, <1>4 DEF Got
<1>8. Good(before)'
  BY <1>1, <1>2 DEF Good, Clean
<1>9. TypeOK'
  BY <1>1, <1>4 DEF RingInv, TypeOK
<1>10. (ring = [keys |-> ring.keys, nodeAt |-> ring.nodeAt])' /\ mu' # NoNode
  BY <1>1, <1>2 DEF RingInv
<1>11. \A q \in Proc : pc'[q] \in {"add", "remove", "get", "found"} => q = p
  BY <1>4, <1>5
<1> QED BY <1>4, <1>6, <1>7, <1>8, <1>9, <1>10, <1>11 DEF RingInv

\* Every step keeps the invariant,
LEMMA RingKeeps == RingInv /\ [Next]_vars => RingInv'
<1> SUFFICES ASSUME RingInv, [Next]_vars PROVE RingInv'
  OBVIOUS
<1>1. CASE UNCHANGED vars
  BY <1>1 DEF vars, RingInv, TypeOK, Locked, InCall, Good, Clean, AddedBy, Removed, Got
<1>2. ASSUME NEW p \in Proc, NEW call \in Adds \cup Removes \cup Gets, Enter(p, call) PROVE RingInv'
  BY <1>2, EnterKeeps
<1>3. ASSUME NEW p \in Proc, AddTurn(p) \/ AddReturn(p) PROVE RingInv'
  BY <1>3, AddTurnKeeps, AddReturnKeeps
<1>4. ASSUME NEW p \in Proc, RemoveTurn(p) \/ RemoveMisses(p) \/ RemovePanics(p) \/ RemoveReturn(p) PROVE RingInv'
  BY <1>4, RemoveTurnKeeps, RemoveMissesKeeps, RemovePanicsKeeps, RemoveReturnKeeps
<1>5. ASSUME NEW p \in Proc, GetEmpty(p) \/ GetSearch(p) \/ GetReturn(p) PROVE RingInv'
  BY <1>5, GetEmptyKeeps, GetSearchKeeps, GetReturnKeeps
<1> QED BY <1>1, <1>2, <1>3, <1>4, <1>5 DEF Next

\* and so it always holds.
LEMMA RingInvariance == Spec => []RingInv
BY RingInit, RingKeeps, PTL DEF Spec

-----------------------------------------------------------------------------
(* What follows *)

\* The variables keep to their types, and hashMap holds no hash that is not on the ring:
\* for any number of nodes, virtual nodes and goroutines, and any hashes.
THEOREM RingTypeCorrect == Spec => []TypeOK
<1>1. RingInv => TypeOK
  BY DEF RingInv
<1> QED BY <1>1, RingInvariance, PTL

\* On a ring of the members, Get answers the owner.
LEMMA GoodHasOwners ==
    ASSUME TypeOK, Good(ring), Clean, NEW h \in KeyHash
    PROVE  IF members = {} THEN GetNode(ring, h) = NoNode /\ ring.keys = << >>
           ELSE /\ GetNode(ring, h) \in members /\ ring.keys # << >>
                /\ IsOwner(GetNode(ring, h), h, members, hash)
<1>1. /\ hash \in Hashing /\ members \subseteq Node /\ IsRing(ring, members, hash)
      /\ ring.keys \in Seq(Int) /\ h \in Int
  BY HashingAssumption DEF TypeOK, Good
<1>2. hash \in [Node -> Seq(Int)]
  BY <1>1, HashesAre
<1>3. DOMAIN ring.keys = 1..Len(ring.keys) /\ Len(ring.keys) \in Nat /\ (ring.keys = << >> <=> Len(ring.keys) = 0)
  BY <1>1, LenProperties, EmptySeq
<1>4. CASE members = {}
  <2>1. Range(ring.keys) = {}
    BY <1>1, <1>4 DEF IsRing
  <2>2. ring.keys = << >>
    <3>1. 1 \notin DOMAIN ring.keys
      BY <2>1 DEF Range
    <3> QED BY <1>3, <3>1
  <2> QED BY <1>4, <2>2 DEF GetNode
<1>5. CASE members # {}
  <2>1. PICK n \in members : TRUE
    BY <1>5
  <2>2. hash[n][1] \in Range(hash[n])
    <3>1. n \in Node /\ 1 \in DOMAIN hash[n]
      BY <1>1, <2>1, HashesAre
    <3> QED BY <3>1 DEF Range
  <2>3. Range(ring.keys) # {}
    BY <1>1, <2>1, <2>2 DEF IsRing
  <2>4. ring.keys # << >>
    <3>1. ring.keys = << >> => DOMAIN ring.keys = {}
      BY <1>3
    <3> QED BY <2>3, <3>1 DEF Range
  <2> QED BY <1>1, <1>2, <1>5, <2>4, GetFindsOwner
<1> QED BY <1>4, <1>5

\* However members came and went and in whatever order Add was given them, between calls
\* a key belongs to the member with the first virtual node at its hash or after it, if
\* hashes do not collide and no node was added twice.
THEOREM OwnersAreFollowed == Spec => []OwnersFollowMembers
<1>1. RingInv => OwnersFollowMembers
  <2> SUFFICES ASSUME RingInv, mu = NoNode, Clean, NEW h \in KeyHash
               PROVE  IF members = {} THEN GetNode(ring, h) = NoNode
                      ELSE /\ GetNode(ring, h) \in members
                           /\ IsOwner(GetNode(ring, h), h, members, hash)
    BY DEF OwnersFollowMembers
  <2>1. TypeOK /\ Good(ring)
    BY DEF RingInv
  <2> QED BY <2>1, GoodHasOwners
<1> QED BY <1>1, RingInvariance, PTL

\* A Get answers the owner among the nodes whose Add has returned: under the lock it sees
\* no half of an Add or Remove (http.go:95-107).
THEOREM GetsAreWhole == Spec => GetsSeeWholeRings
<1>1. RingInv /\ [Next]_vars =>
        [\A p \in Proc : pc[p] = "found" /\ pc'[p] = "done" /\ Clean =>
            ans'[p] \in members /\ IsOwner(ans'[p], op[p].arg, members, hash)]_vars
  <2> SUFFICES ASSUME RingInv, Next, NEW p \in Proc, pc[p] = "found", pc'[p] = "done", Clean
               PROVE  ans'[p] \in members /\ IsOwner(ans'[p], op[p].arg, members, hash)
    OBVIOUS
  <2>1. GetReturn(p)
    <3>1. mu = p /\ p # NoNode
      BY GetStays
    <3>2. pc \in [Proc -> {"idle", "add", "remove", "get", "found", "done", "panicked"}]
      BY DEF RingInv, TypeOK
    <3>3. \A q \in Proc : q # p => pc[q] \notin {"add", "remove", "get", "found"}
      BY <3>1 DEF RingInv, Locked, InCall
    <3>4. PICK q \in Proc :
             \/ \E call \in Adds \cup Removes \cup Gets : Enter(q, call)
             \/ AddTurn(q) \/ AddReturn(q)
             \/ RemoveTurn(q) \/ RemoveMisses(q) \/ RemovePanics(q) \/ RemoveReturn(q)
             \/ GetEmpty(q) \/ GetSearch(q) \/ GetReturn(q)
      BY DEF Next
    <3>5. ~\E call \in Adds \cup Removes \cup Gets : Enter(q, call)
      BY <3>1 DEF Enter
    <3>6. q = p
      BY <3>3, <3>4, <3>5 DEF AddTurn, AddReturn, RemoveTurn, RemoveMisses, RemovePanics,
           RemoveReturn, Removing, GetEmpty, GetSearch, GetReturn
    <3> QED BY <3>4, <3>5, <3>6 DEF AddTurn, AddReturn, RemoveTurn, RemoveMisses, RemovePanics,
           RemoveReturn, Removing, GetEmpty, GetSearch
  <2>2. /\ ring.keys # << >> /\ ans' = [ans EXCEPT ![p] = GetNode(ring, op[p].arg)]
    BY <2>1, FoundIsGet
  <2>3. Good(ring) /\ op[p].arg \in KeyHash /\ TypeOK
    BY GetStays DEF RingInv
  <2>4. ans'[p] = GetNode(ring, op[p].arg)
    BY <2>2, <2>3 DEF TypeOK
  <2> QED BY <2>2, <2>3, <2>4, GoodHasOwners
<1> QED BY <1>1, RingInvariance, PTL DEF Spec, GetsSeeWholeRings

\* Remove of a node that is on the ring does not index keys past their end.
THEOREM PanicsAreStrangers == Spec => PanicsOnlyForStrangers
<1>1. RingInv /\ [Next]_vars =>
        [\A p \in Proc : pc[p] = "remove" /\ pc'[p] = "panicked" /\ Clean => op[p].arg \notin members]_vars
  <2> SUFFICES ASSUME RingInv, Next, NEW p \in Proc, pc[p] = "remove", pc'[p] = "panicked", Clean
               PROVE  op[p].arg \notin members
    OBVIOUS
  <2>1. RemovePanics(p)
    <3>1. mu = p /\ p # NoNode
      BY RemovedSoFar, ProcAssumption DEF RingInv
    <3>2. pc \in [Proc -> {"idle", "add", "remove", "get", "found", "done", "panicked"}]
      BY DEF RingInv, TypeOK
    <3>3. \A q \in Proc : q # p => pc[q] \notin {"add", "remove", "get", "found"}
      BY <3>1 DEF RingInv, Locked, InCall
    <3>4. PICK q \in Proc :
             \/ \E call \in Adds \cup Removes \cup Gets : Enter(q, call)
             \/ AddTurn(q) \/ AddReturn(q)
             \/ RemoveTurn(q) \/ RemoveMisses(q) \/ RemovePanics(q) \/ RemoveReturn(q)
             \/ GetEmpty(q) \/ GetSearch(q) \/ GetReturn(q)
      BY DEF Next
    <3>5. ~\E call \in Adds \cup Removes \cup Gets : Enter(q, call)
      BY <3>1 DEF Enter
    <3>6. q = p
      BY <3>3, <3>4, <3>5 DEF AddTurn, AddReturn, RemoveTurn, RemoveMisses, RemovePanics,
           RemoveReturn, Removing, GetEmpty, GetSearch, GetReturn
    <3> QED BY <3>2, <3>4, <3>5, <3>6 DEF AddTurn, AddReturn, RemoveTurn, RemoveMisses, RemoveEnd,
           Leave, RemoveReturn, Removing, GetEmpty, GetSearch, GetReturn
  <2> QED BY <2>1, RemovePanicsKeeps
<1> QED BY <1>1, RingInvariance, PTL DEF Spec, PanicsOnlyForStrangers

\* Where a ring has the same next key for a hash, with the same node, it answers the same.
LEMMA SameNext ==
    ASSUME NEW r, Whole(r), NEW s, Whole(s), NEW h \in Int, NEW a,
           IsNext(a, h, Range(r.keys)), a \in Range(s.keys), Range(s.keys) \subseteq Range(r.keys),
           a \in DOMAIN r.nodeAt <=> a \in DOMAIN s.nodeAt,
           a \in DOMAIN r.nodeAt => r.nodeAt[a] = s.nodeAt[a]
    PROVE  GetNode(r, h) = GetNode(s, h)
<1>1. r.keys # << >> /\ s.keys # << >> /\ Range(r.keys) \subseteq Int
  <2>1. << >> = [i \in {} |-> i]
    OBVIOUS
  <2>2. \A k : Range(k) # {} => k # << >>
    BY DEF Range
  <2>3. Range(r.keys) # {} /\ Range(s.keys) # {}
    BY DEF IsNext
  <2>4. Range(r.keys) \subseteq Int
    BY RangeFinite DEF Whole
  <2> QED BY <2>2, <2>3, <2>4
<1>2. PICK b : /\ IsNext(b, h, Range(r.keys))
               /\ GetNode(r, h) = IF b \in DOMAIN r.nodeAt THEN r.nodeAt[b] ELSE NoNode
  BY <1>1, GetIsNext DEF Whole
<1>3. PICK c : /\ IsNext(c, h, Range(s.keys))
               /\ GetNode(s, h) = IF c \in DOMAIN s.nodeAt THEN s.nodeAt[c] ELSE NoNode
  BY <1>1, GetIsNext DEF Whole
<1>4. b = a
  BY <1>1, <1>2, NextIsOne
<1>5. IsNext(a, h, Range(s.keys))
  BY DEF IsNext
<1>6. c = a
  BY <1>1, <1>3, <1>5, NextIsOne
<1> QED BY <1>2, <1>3, <1>4, <1>6

\* A call that returns moves keys to nodes it adds or away from the node it removes.
LEMMA MovesInCall ==
    ASSUME RingInv, Next, NEW p \in Proc, mu = p, mu' = NoNode, NEW h \in KeyHash
    PROVE  LET old == GetNode(before, h)
               new == GetNode(ring, h)'
           IN \/ new = old
              \/ op[p].kind = "add" /\ new \in ToSet(op[p].arg)
              \/ op[p].kind = "remove" /\ (Clean => old = op[p].arg)
<1>0. h \in Int /\ p # NoNode /\ h' = h /\ GetNode(ring, h)' = GetNode(ring', h)
  BY HashingAssumption, ProcAssumption
<1>1. PICK q \in Proc :
             \/ \E call \in Adds \cup Removes \cup Gets : Enter(q, call)
             \/ AddTurn(q) \/ AddReturn(q)
             \/ RemoveTurn(q) \/ RemoveMisses(q) \/ RemovePanics(q) \/ RemoveReturn(q)
             \/ GetEmpty(q) \/ GetSearch(q) \/ GetReturn(q)
  BY DEF Next
<1>2. q = p \/ pc[q] \notin {"add", "remove", "get", "found"}
  BY <1>0 DEF RingInv, Locked, InCall
<1>3. CASE AddReturn(p)
  <2> DEFINE v == Virtuals(op[p].arg, hash)
             H == {v[j][1] : j \in 1..Len(v)}
  <2>1. RingAfterAdd(ring', before, op[p].arg) /\ op[p] \in Adds /\ Good(before) /\ hash \in Hashing
    BY <1>3, AddReturnRing
  <2>2. /\ Whole(ring') /\ Whole(before)
        /\ Range(ring'.keys) = Range(before.keys) \cup H
        /\ DOMAIN ring'.nodeAt = DOMAIN before.nodeAt \cup H
        /\ \A x \in H : x \in DOMAIN ring'.nodeAt /\ ring'.nodeAt[x] \in Range(op[p].arg)
        /\ \A x \in DOMAIN ring'.nodeAt : x \notin H =>
              x \in DOMAIN before.nodeAt /\ ring'.nodeAt[x] = before.nodeAt[x]
    BY <2>1 DEF RingAfterAdd, Good
  <2>3. ring'.keys # << >>
    <3>1. PICK n \in Range(op[p].arg) : TRUE
      <4>1. op[p].arg \in Seq(Node) /\ op[p].arg # << >>
        BY <2>1, CallsAre
      <4>2. 1 \in DOMAIN op[p].arg
        BY <4>1, LenProperties, EmptySeq
      <4> QED BY <4>2 DEF Range
    <3>2. n \in Node /\ \A x \in Range(hash[n]) : \E j \in 1..Len(v) : v[j] = <<x, n>>
      BY <2>1, TodoIs
    <3>3. hash[n][1] \in Range(hash[n])
      <4>1. 1 \in DOMAIN hash[n]
        BY <2>1, <3>2, HashesAre
      <4> QED BY <4>1 DEF Range
    <3>4. PICK j \in 1..Len(v) : v[j] = <<hash[n][1], n>>
      BY <3>2, <3>3
    <3>5. v[j][1] \in H
      OBVIOUS
    <3> HIDE DEF v, H
    <3>6. Range(ring'.keys) # {}
      BY <2>2, <3>5
    <3>7. \A k : Range(k) # {} => k # << >>
      BY DEF Range
    <3> QED BY <3>6, <3>7
  <2> HIDE DEF v, H
  <2>4. PICK a : /\ IsNext(a, h, Range(ring'.keys))
                 /\ GetNode(ring', h) = IF a \in DOMAIN ring'.nodeAt THEN ring'.nodeAt[a] ELSE NoNode
    BY <1>0, <2>2, <2>3, GetIsNext DEF Whole
  <2>5. CASE a \in H
    <3>1. GetNode(ring', h) \in Range(op[p].arg)
      BY <2>2, <2>4, <2>5
    <3>2. op[p].kind = "add"
      BY <2>1, CallsAre
    <3> QED BY <1>0, <3>1, <3>2, SetOf
  <2>6. CASE a \notin H
    <3>1. a \in Range(before.keys) /\ Range(before.keys) \subseteq Range(ring'.keys)
      BY <2>2, <2>4, <2>6 DEF IsNext
    <3>2. a \in DOMAIN ring'.nodeAt <=> a \in DOMAIN before.nodeAt
      BY <2>2, <2>6
    <3>3. a \in DOMAIN ring'.nodeAt => ring'.nodeAt[a] = before.nodeAt[a]
      BY <2>2, <2>6
    <3>4. GetNode(ring', h) = GetNode(before, h)
      BY <1>0, <2>2, <2>4, <3>1, <3>2, <3>3, SameNext
    <3> QED BY <1>0, <3>4
  <2> QED BY <2>5, <2>6
<1>4. CASE RemoveMisses(p) \/ RemovePanics(p) \/ RemoveReturn(p)
  <2>1. pc[p] = "remove" /\ ring' = ring
    BY <1>4 DEF RemoveMisses, RemovePanics, RemoveReturn, Removing, RemoveEnd
  <2>2. /\ hash \in Hashing /\ Good(before) /\ Removed(p) /\ op[p] \in Removes /\ op[p].arg \in Node
        /\ step[p] <= Len(hash[op[p].arg])
        /\ Clean /\ op[p].arg \notin members => step[p] = 0 /\ ring = before
        /\ Clean /\ op[p].arg \in members =>
              /\ Range(ring.keys) = Range(before.keys) \ {hash[op[p].arg][j] : j \in 1..step[p]}
              /\ \A x \in Range(ring.keys) : /\ x \in DOMAIN ring.nodeAt
                                             /\ ring.nodeAt[x] = before.nodeAt[x]
    BY <2>1, RemovedSoFar
  <2>3. op[p].kind = "remove"
    BY <2>2, CallsAre
  <2>4. ASSUME Clean, GetNode(ring', h) # GetNode(before, h) PROVE GetNode(before, h) = op[p].arg
    <3> DEFINE arg == op[p].arg
               R == {hash[arg][j] : j \in 1..step[p]}
    <3>1. arg \in members
      BY <2>1, <2>2, <2>4
    <3>2. /\ Range(ring.keys) = Range(before.keys) \ R
          /\ \A x \in Range(ring.keys) : x \in DOMAIN ring.nodeAt /\ ring.nodeAt[x] = before.nodeAt[x]
          /\ IsRing(before, members, hash) /\ Distinct(Node, hash) /\ Whole(before) /\ Whole(ring)
      BY <2>2, <2>4, <3>1 DEF Good, Clean, Removed
    <3>3. /\ hash \in [Node -> Seq(Int)] /\ members \subseteq Node /\ hash[arg] # << >>
          /\ DOMAIN hash[arg] = 1..Len(hash[arg]) /\ Len(hash[arg]) \in Nat /\ Len(hash[arg]) > 0
          /\ step[p] \in Nat
      BY <2>2, HashesAre DEF RingInv, TypeOK
    <3>4. R \subseteq Range(hash[arg])
      <4>1. 1..step[p] \subseteq DOMAIN hash[arg]
        BY <2>2, <3>3
      <4> QED BY <4>1 DEF Range
    <3>5. before.keys # << >>
      <4>1. 1 \in DOMAIN hash[arg]
        BY <3>3
      <4>2. Range(hash[arg]) # {}
        BY <4>1 DEF Range
      <4>3. Range(before.keys) # {}
        BY <3>1, <3>2, <4>2 DEF IsRing
      <4>4. \A k : Range(k) # {} => k # << >>
        BY DEF Range
      <4> QED BY <4>3, <4>4
    <3> HIDE DEF arg, R
    <3>6. PICK a : /\ IsNext(a, h, Range(before.keys))
                   /\ GetNode(before, h) = IF a \in DOMAIN before.nodeAt THEN before.nodeAt[a] ELSE NoNode
      BY <1>0, <3>2, <3>5, GetIsNext DEF Whole
    <3>7. a \in Range(before.keys) /\ a \in DOMAIN before.nodeAt
      BY <3>2, <3>6 DEF IsNext, IsRing
    <3>8. CASE a \in R
      <4>1. a \in Range(hash[arg]) /\ arg \in Node
        BY <3>1, <3>3, <3>4, <3>8
      <4>2. before.nodeAt[a] = arg
        <5>1. /\ hash \in [Node -> Seq(Int)] /\ Distinct(Node, hash) /\ members \in SUBSET Node
              /\ IsRing(before, members, hash) /\ arg \in Node /\ a \in Range(hash[arg])
              /\ a \in Range(before.keys)
          BY <3>2, <3>3, <3>7, <4>1
        <5> QED BY <5>1, HashOfMember
      <4> QED BY <3>6, <3>7, <4>2 DEF arg
    <3>9. CASE a \notin R
      <4>1. a \in Range(ring.keys) /\ Range(ring.keys) \subseteq Range(before.keys)
        BY <3>2, <3>7, <3>9
      <4>2. a \in DOMAIN ring.nodeAt /\ before.nodeAt[a] = ring.nodeAt[a]
        BY <3>2, <4>1
      <4>3. GetNode(before, h) = GetNode(ring, h)
        BY <1>0, <3>2, <3>6, <3>7, <4>1, <4>2, SameNext
      <4> QED BY <2>1, <2>4, <4>3
    <3> QED BY <3>8, <3>9
  <2> QED BY <1>0, <2>3, <2>4
<1>5. CASE GetEmpty(p) \/ GetReturn(p)
  <2>1. pc[p] \in {"get", "found"} /\ ring' = ring
    BY <1>5 DEF GetEmpty, GetReturn
  <2>2. ring = before
    BY <2>1, GetStays
  <2> QED BY <1>0, <2>1, <2>2
<1>6. CASE \E call \in Adds \cup Removes \cup Gets : Enter(q, call)
  BY <1>0, <1>6 DEF Enter
<1>7. q = p \/ \E call \in Adds \cup Removes \cup Gets : Enter(q, call)
  BY <1>1, <1>2 DEF AddTurn, AddReturn, RemoveTurn, RemoveMisses, RemovePanics,
     RemoveReturn, Removing, GetEmpty, GetSearch, GetReturn
<1>8. ~AddTurn(p) /\ ~RemoveTurn(p) /\ ~GetSearch(p)
  BY <1>0 DEF AddTurn, RemoveTurn, GetSearch
<1> QED BY <1>1, <1>3, <1>4, <1>5, <1>6, <1>7, <1>8

\* A call moves a key to another node only if that one is being added or the one it was
\* with is being removed: the point of consistent hashing.
THEOREM MovesAreNeeded == Spec => MovesOnlyWhereNeeded
<1>1. RingInv /\ [Next]_vars =>
        [\A p \in Proc : mu = p /\ mu' = NoNode =>
          \A h \in KeyHash :
              LET old == GetNode(before, h)
                  new == GetNode(ring, h)'
              IN \/ new = old
                 \/ op[p].kind = "add" /\ new \in ToSet(op[p].arg)
                 \/ op[p].kind = "remove" /\ (Clean => old = op[p].arg)]_vars
  BY MovesInCall
<1> QED BY <1>1, RingInvariance, PTL DEF Spec, MovesOnlyWhereNeeded
=============================================================================
