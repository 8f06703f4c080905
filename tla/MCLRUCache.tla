----------------------------- MODULE MCLRUCache -----------------------------
(***************************************************************************)
(* Instances of LRUCache.  Keys differ in length, one key is empty, and the *)
(* values reach from nothing to more than the whole cache holds.           *)
(***************************************************************************)
EXTENDS LRUCache

CONSTANTS k1, k2, k3, k4, v0, v2, w2, v5

MCKeyLen == [k \in Key |-> CASE k = k1 -> 0 [] k = k2 -> 1 [] OTHER -> 2]
MCValueLen == [v \in Value |-> CASE v = v0 -> 0 [] v \in {v2, w2} -> 2 [] OTHER -> 5]

\* A key's values all have one length.
FixedLength == {<<k1, v0>>, <<k2, v2>>, <<k2, w2>>, <<k3, v2>>, <<k4, v5>>}
\* Any value for any key.
AnyValue == Key \X Value
=============================================================================
