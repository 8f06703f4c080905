------------------------------ MODULE HashRing ------------------------------
(***************************************************************************)
(* geecache/consistenthash: the ring on which virtual nodes sit at their   *)
(* hashes and a key belongs to the next one.                               *)
(*                                                                         *)
(* hash[n][i] is the hash of virtual node i of node n; a key is given by   *)
(* its hash.                                                               *)
(***************************************************************************)
EXTENDS Integers, SequencesExt

CONSTANT NoNode     \* the empty string, for no node

\* m.keys, and m.hashMap as a function on the hashes it holds.
EmptyRing == [keys |-> << >>, nodeAt |-> << >>]

AddVirtual(ring, h, n) == [keys |-> Append(ring.keys, h),
                           nodeAt |-> [x \in {h} \cup DOMAIN ring.nodeAt |->
                                           IF x = h THEN n ELSE ring.nodeAt[x]]]

\* sort.Ints: fewer than i keys are below the i-th, and no fewer than i are not above it.
Sorted(s) == [i \in DOMAIN s |-> CHOOSE x \in Range(s) :
                 /\ Cardinality({j \in DOMAIN s : s[j] < x}) < i
                 /\ Cardinality({j \in DOMAIN s : s[j] <= x}) >= i]

SortKeys(ring) == [ring EXCEPT !.keys = Sorted(@)]

\* <<hash, node>> of the virtual nodes, in the order in which Add's loops come to them.
Virtuals(nodes, hash) == FlattenSeq([i \in DOMAIN nodes |->
                             [j \in DOMAIN hash[nodes[i]] |-> <<hash[nodes[i]][j], nodes[i]>>]])

\* Add of a list of nodes to a new ring: the last of them that has a hash keeps it.
AddNodes(nodes, hash) ==
    LET v == Virtuals(nodes, hash)
        keys == [i \in DOMAIN v |-> v[i][1]]
    IN [keys |-> Sorted(keys),
        nodeAt |-> [h \in Range(keys) |-> v[Max({i \in DOMAIN v : v[i][1] = h})][2]]]

\* sort.Search for the first key that is h or more, counted from 0 and Len(keys) if
\* there is none.
Search(keys, h) == LET i == SelectInSeq(keys, LAMBDA x : x >= h)
                   IN IF i = 0 THEN Len(keys) ELSE i - 1

\* What Get finds at an index of keys.
NodeOfIndex(ring, i) ==
    LET h == ring.keys[(i % Len(ring.keys)) + 1]
    IN IF h \in DOMAIN ring.nodeAt THEN ring.nodeAt[h] ELSE NoNode

GetNode(ring, h) == IF ring.keys = << >> THEN NoNode
                    ELSE NodeOfIndex(ring, Search(ring.keys, h))

-----------------------------------------------------------------------------
(* What consistent hashing is, without keys and their order *)

\* No two virtual nodes of the nodes have the same hash.
Distinct(nodes, hash) ==
    \A n, o \in nodes : \A i \in DOMAIN hash[n], j \in DOMAIN hash[o] :
        hash[n][i] = hash[o][j] => n = o /\ i = j

\* Going round from h, b does not come before a.
NotBefore(h, a, b) == \/ h <= a /\ a <= b
                      \/ b < h /\ (h <= a \/ a <= b)

\* n has the first virtual node at h or after it.
IsOwner(n, h, nodes, hash) ==
    \E i \in DOMAIN hash[n] : \A o \in nodes : \A j \in DOMAIN hash[o] :
        NotBefore(h, hash[n][i], hash[o][j])
=============================================================================
