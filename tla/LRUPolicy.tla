----------------------------- MODULE LRUPolicy -----------------------------
(***************************************************************************)
(* What geecache's memory-bounded cache promises its callers, without the  *)
(* linked list, the index or the running byte count of lru.go:             *)
(*   - a Get answers with the value stored under the key, or a miss;       *)
(*   - an Add of an absent key stores it, an Add of a cached key keeps the *)
(*     value it has; both, and a hit, make the key the most recent one;    *)
(*   - only the key used longest ago is ever dropped;                      *)
(*   - an Add drops keys while, and only while, what is stored takes more  *)
(*     than MaxBytes, and returns after that.                              *)
(* LRUCache is shown to implement it.                                      *)
(***************************************************************************)
EXTENDS Integers, FiniteSets

CONSTANTS
    Key,        \* cache keys
    Value,      \* values
    KeyLen,     \* [Key -> Nat]: len(key)
    ValueLen,   \* [Value -> Nat]: value.Len()
    MaxBytes,   \* the limit; 0 stands for "no limit"
    Offers,     \* the <<key, value>> pairs callers may Add
    Miss        \* answer of a Get that found nothing

VARIABLES
    store,      \* the cached values: a function whose domain is the cached keys
    newer,      \* <<a, b>> \in newer: key a was used after key b
    adding,     \* an Add has stored its entry and not returned yet
    got         \* answer of the last Get

vars == <<store, newer, adding, got>>

Cached == DOMAIN store

\* Bytes the stored entries take, keys included, each counted at the key of its entry.
Stored == UNION {{k} \X (1..KeyLen[k] + ValueLen[store[k]]) : k \in Cached}
Bytes == Cardinality(Stored)
OverLimit == MaxBytes # 0 /\ Bytes > MaxBytes

\* The order of last use once k has just been used.
Touch(k) == (newer \ (Key \X {k})) \cup ({k} \X (Key \ {k}))

\* k is the cached key used longest ago.
Oldest(k) == /\ k \in Cached
             /\ \A x \in Cached \ {k} : <<x, k>> \in newer

Init == /\ store = << >>
        /\ newer = {}
        /\ adding = FALSE
        /\ got = Miss

Lookup(k) == /\ ~adding
             /\ got' = IF k \in Cached THEN store[k] ELSE Miss
             /\ newer' = IF k \in Cached THEN Touch(k) ELSE newer
             /\ UNCHANGED <<store, adding>>

Put(k, v) == /\ ~adding
             /\ store' = [x \in Cached \cup {k} |-> IF x \in Cached THEN store[x] ELSE v]
             /\ newer' = Touch(k)
             /\ adding' = TRUE
             /\ UNCHANGED got

Drop(k) == /\ Oldest(k)
           /\ adding => OverLimit
           /\ store' = [x \in Cached \ {k} |-> store[x]]
           /\ UNCHANGED <<newer, adding, got>>

Settle == /\ adding
          /\ ~OverLimit
          /\ adding' = FALSE
          /\ UNCHANGED <<store, newer, got>>

Next == \/ \E k \in Key : Lookup(k) \/ Drop(k)
        \/ \E o \in Offers : Put(o[1], o[2])
        \/ Settle

SafeSpec == Init /\ [][Next]_vars

Spec == SafeSpec /\ WF_vars(Settle \/ (adding /\ \E k \in Key : Drop(k)))
=============================================================================
