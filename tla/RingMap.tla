------------------------------- MODULE RingMap -------------------------------
(***************************************************************************)
(* A consistenthash.Map in use by goroutines, each of which makes one call *)
(* of Add, Get or Remove.  The Map of the last stage is written to be      *)
(* shared, but Add and Remove change the very keys and hashMap that Get    *)
(* reads; what keeps them apart is the lock around the calls, HTTPPool.mu  *)
(* in Set and in PickPeer.                                                 *)
(***************************************************************************)
EXTENDS HashRing, FiniteSets

CONSTANTS
    Node,
    Proc,       \* goroutines, one call each
    Hashing,    \* the functions hash to consider
    KeyHash     \* hashes of keys to ask for

\* A hash is a number; replicas is at least 1 (defaultReplicas is 50).
ASSUME HashingAssumption == Hashing \subseteq [Node -> Seq(Int) \ {<< >>}] /\ KeyHash \subseteq Int
ASSUME ProcAssumption == NoNode \notin Proc

VARIABLES
    hash,       \* hash of every virtual node (never changes)
    ring,       \* the values that m.values points to
    mu,         \* who holds the lock around the calls, or NoNode
    op,         \* the call of each goroutine: [kind, arg]
    pc,         \* where it is
    step,       \* how many virtual nodes its loop has done; the index Get has found
    ans,        \* what its Get answered
    members,    \* history: the nodes whose Add was the last call for them
    misused,    \* history: a node was added that was there
    before      \* history: the ring when the call that holds mu began

vars == <<hash, ring, mu, op, pc, step, ans, members, misused, before>>

Call(kind, arg) == [kind |-> kind, arg |-> arg]
NoCall == Call("none", NoNode)
Adds == {Call("add", s) : s \in {t \in SeqOf(Node, 2) : t # << >> /\ IsInjective(t)}}
Removes == {Call("remove", n) : n \in Node}
Gets == {Call("get", h) : h \in KeyHash}

Init == /\ hash \in Hashing
        /\ ring = EmptyRing
        /\ mu = NoNode
        /\ op = [p \in Proc |-> NoCall]
        /\ pc = [p \in Proc |-> "idle"]
        /\ step = [p \in Proc |-> 0]
        /\ ans = [p \in Proc |-> NoNode]
        /\ members = {}
        /\ misused = FALSE
        /\ before = EmptyRing

\* Mutant of Enter: PickPeer does not take the lock.
EnterUnlocked(p, call) ==
    /\ pc[p] = "idle"
    /\ call.kind # "get" => mu = NoNode
    /\ mu' = IF call.kind = "get" THEN mu ELSE p
    /\ op' = [op EXCEPT ![p] = call]
    /\ pc' = [pc EXCEPT ![p] = call.kind]
    /\ before' = IF call.kind = "get" THEN before ELSE ring
    /\ UNCHANGED <<hash, ring, step, ans, members, misused>>

\* The lock is taken, and the call begins.
Enter(p, call) ==
    /\ pc[p] = "idle"
    /\ mu = NoNode
    /\ mu' = p
    /\ op' = [op EXCEPT ![p] = call]
    /\ pc' = [pc EXCEPT ![p] = call.kind]
    /\ before' = ring
    /\ UNCHANGED <<hash, ring, step, ans, members, misused>>

\* The call returns, or panics, and the lock with it.
Leave(p, point) == /\ pc' = [pc EXCEPT ![p] = point]
                   /\ mu' = IF mu = p THEN NoNode ELSE mu

-----------------------------------------------------------------------------
(* Add *)

\* A turn of the loops: a hash is appended to keys and put into hashMap.
AddTurn(p) ==
    LET todo == Virtuals(op[p].arg, hash)
    IN /\ pc[p] = "add" /\ step[p] < Len(todo)
       /\ ring' = AddVirtual(ring, todo[step[p] + 1][1], todo[step[p] + 1][2])
       /\ step' = [step EXCEPT ![p] = @ + 1]
       /\ UNCHANGED <<hash, mu, op, pc, ans, members, misused, before>>

\* Mutant of AddReturn: the keys are not sorted.
AddReturnUnsorted(p) ==
    /\ pc[p] = "add" /\ step[p] = Len(Virtuals(op[p].arg, hash))
    /\ members' = members \cup ToSet(op[p].arg)
    /\ misused' = (misused \/ members \cap ToSet(op[p].arg) # {})
    /\ Leave(p, "done")
    /\ UNCHANGED <<hash, ring, op, step, ans, before>>

\* sort.Ints, and the values are stored where they were.
AddReturn(p) ==
    /\ pc[p] = "add" /\ step[p] = Len(Virtuals(op[p].arg, hash))
    /\ ring' = SortKeys(ring)
    /\ members' = members \cup ToSet(op[p].arg)
    /\ misused' = (misused \/ members \cap ToSet(op[p].arg) # {})
    /\ Leave(p, "done")
    /\ UNCHANGED <<hash, op, step, ans, before>>

-----------------------------------------------------------------------------
(* Remove *)

Wanted(p) == hash[op[p].arg][step[p] + 1]
Removing(p) == pc[p] = "remove" /\ step[p] < Len(hash[op[p].arg])
RemoveEnd(p, point) == /\ Leave(p, point)
                       /\ members' = members \ {op[p].arg}
                       /\ UNCHANGED <<hash, ring, op, step, ans, misused, before>>

\* Mutants of RemoveTurn: the key behind the hash is taken out; the hash stays in hashMap.
RemoveTurnNext(p) ==
    LET i == Search(ring.keys, Wanted(p))
    IN /\ Removing(p)
       /\ i < Len(ring.keys) /\ ring.keys[i + 1] = Wanted(p)
       /\ ring' = [keys |-> RemoveAt(ring.keys, IF i + 2 > Len(ring.keys) THEN i + 1 ELSE i + 2),
                   nodeAt |-> Restrict(ring.nodeAt, DOMAIN ring.nodeAt \ {Wanted(p)})]
       /\ step' = [step EXCEPT ![p] = @ + 1]
       /\ UNCHANGED <<hash, mu, op, pc, ans, members, misused, before>>
RemoveTurnKeyOnly(p) ==
    LET i == Search(ring.keys, Wanted(p))
    IN /\ Removing(p)
       /\ i < Len(ring.keys) /\ ring.keys[i + 1] = Wanted(p)
       /\ ring' = [ring EXCEPT !.keys = RemoveAt(@, i + 1)]
       /\ step' = [step EXCEPT ![p] = @ + 1]
       /\ UNCHANGED <<hash, mu, op, pc, ans, members, misused, before>>

\* A turn of the loop: the hash is found, and taken out of keys and hashMap.
RemoveTurn(p) ==
    LET i == Search(ring.keys, Wanted(p))
    IN /\ Removing(p)
       /\ i < Len(ring.keys) /\ ring.keys[i + 1] = Wanted(p)
       /\ ring' = [keys |-> RemoveAt(ring.keys, i + 1),
                   nodeAt |-> Restrict(ring.nodeAt, DOMAIN ring.nodeAt \ {Wanted(p)})]
       /\ step' = [step EXCEPT ![p] = @ + 1]
       /\ UNCHANGED <<hash, mu, op, pc, ans, members, misused, before>>

\* Another hash is where it should be: return, whatever has been removed so far.
RemoveMisses(p) ==
    LET i == Search(ring.keys, Wanted(p))
    IN /\ Removing(p)
       /\ i < Len(ring.keys) /\ ring.keys[i + 1] # Wanted(p)
       /\ RemoveEnd(p, "done")

\* No hash is as large: keys is indexed past its end.
RemovePanics(p) ==
    /\ Removing(p)
    /\ Search(ring.keys, Wanted(p)) = Len(ring.keys)
    /\ RemoveEnd(p, "panicked")

RemoveReturn(p) ==
    /\ pc[p] = "remove" /\ step[p] = Len(hash[op[p].arg])
    /\ RemoveEnd(p, "done")

-----------------------------------------------------------------------------
(* Get *)

GetEmpty(p) ==
    /\ pc[p] = "get" /\ ring.keys = << >>
    /\ Leave(p, "done")
    /\ UNCHANGED <<hash, ring, op, step, ans, members, misused, before>>

GetSearch(p) ==
    /\ pc[p] = "get" /\ ring.keys # << >>
    /\ step' = [step EXCEPT ![p] = Search(ring.keys, op[p].arg)]
    /\ pc' = [pc EXCEPT ![p] = "found"]
    /\ UNCHANGED <<hash, ring, mu, op, ans, members, misused, before>>

GetReturn(p) ==
    /\ pc[p] = "found"
    /\ ans' = [ans EXCEPT ![p] = NodeOfIndex(ring, step[p])]
    /\ Leave(p, "done")
    /\ UNCHANGED <<hash, ring, op, step, members, misused, before>>

Next == \E p \in Proc :
           \/ \E call \in Adds \cup Removes \cup Gets : Enter(p, call)
           \/ AddTurn(p) \/ AddReturn(p)
           \/ RemoveTurn(p) \/ RemoveMisses(p) \/ RemovePanics(p) \/ RemoveReturn(p)
           \/ GetEmpty(p) \/ GetSearch(p) \/ GetReturn(p)

Spec == Init /\ [][Next]_vars

-----------------------------------------------------------------------------
\* Types of the variables; hashMap holds no hash that is not on the ring.
TypeOK == /\ hash \in Hashing
          /\ ring.keys \in Seq(Int)
          /\ DOMAIN ring.nodeAt \subseteq ToSet(ring.keys)
          /\ \A h \in DOMAIN ring.nodeAt : ring.nodeAt[h] \in Node
          /\ mu \in Proc \cup {NoNode}
          /\ op \in [Proc -> {NoCall} \cup Adds \cup Removes \cup Gets]
          /\ pc \in [Proc -> {"idle", "add", "remove", "get", "found", "done", "panicked"}]
          /\ step \in [Proc -> Nat]
          /\ ans \in [Proc -> Node \cup {NoNode}]
          /\ members \subseteq Node
          /\ misused \in BOOLEAN

\* Hashes do not collide and no node was added twice.
Clean == Distinct(Node, hash) /\ ~misused

\* Between calls, if hashes do not collide and no node was added twice, a key belongs
\* to the member with the first virtual node at its hash or after it: whatever the
\* nodes' order in the calls of Add (which main.go takes from a map), and however
\* members came and went, two rings of the same members agree (http.go:91-92).
OwnersFollowMembers ==
    mu = NoNode /\ Clean =>
        \A h \in KeyHash :
            IF members = {} THEN GetNode(ring, h) = NoNode
            ELSE /\ GetNode(ring, h) \in members
                 /\ IsOwner(GetNode(ring, h), h, members, hash)

\* A call moves a key to another node only if that one is being added or the one it was
\* with is being removed; the first holds even if hashes collide
\* (consistenthash.go:102-117, 133-149).
MovesOnlyWhereNeeded ==
    [][\A p \in Proc : mu = p /\ mu' = NoNode =>
          \A h \in KeyHash :
              LET old == GetNode(before, h)
                  new == GetNode(ring, h)'
              IN \/ new = old
                 \/ op[p].kind = "add" /\ new \in ToSet(op[p].arg)
                 \/ op[p].kind = "remove" /\ (Clean => old = op[p].arg)]_vars

\* A Get answers the owner among the nodes whose Add has returned, never one it found
\* with the index of one ring in the keys of another or in a ring half added to
\* (consistenthash.go:77, 119-131).
GetsSeeWholeRings ==
    [][\A p \in Proc : pc[p] = "found" /\ pc'[p] = "done" /\ Clean =>
          ans'[p] \in members /\ IsOwner(ans'[p], op[p].arg, members, hash)]_vars

\* Remove runs past the end of the ring only for a node that is not on it, unless
\* hashes collide or a node was added twice (consistenthash.go:141).
PanicsOnlyForStrangers ==
    [][\A p \in Proc : pc[p] = "remove" /\ pc'[p] = "panicked" /\ Clean =>
          op[p].arg \notin members]_vars
=============================================================================
