---------------------------- MODULE MCGeeCluster ----------------------------
(***************************************************************************)
(* Instances of the cluster: two nodes, each the owner of one key.         *)
(***************************************************************************)
EXTENDS CacheDays

CONSTANTS n1, n2, k1, k2, v1, v2

\* Two virtual nodes each, in turns.
MCHash == [n \in Node |-> IF n = n1 THEN <<6, 2>> ELSE <<4, 0>>]

\* k1 belongs to n1 and k2, after the last virtual node, to n2.
MCKeyHash == [k \in Key |-> CASE k = k1 -> 1 [] k = k2 -> 7 [] OTHER -> 3]

\* No key has a character that the URL changes.
PlainWire == [k \in Key |-> k]
\* k1 is "a b", which a peer reads as "a+b", that is k2.
SpaceWire == [k \in Key |-> k2]

\* k1 and k2 have values of their own, any other key is unknown.
MCSource == [k \in Key |-> CASE k = k1 -> v1 [] k = k2 -> v2 [] OTHER -> Err]
=============================================================================
