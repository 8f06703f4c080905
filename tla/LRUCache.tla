------------------------------ MODULE LRUCache ------------------------------
(***************************************************************************)
(* geecache/lru/lru.go, as geecache/cache.go drives it under its mutex: a   *)
(* doubly linked list with the most recently used entry in front, a map    *)
(* from keys to list elements, and the running count of bytes in use.      *)
(*                                                                         *)
(* Add is the one operation with a loop.  Its first part (store or touch   *)
(* the entry, adjust the count) is one action and every turn of the loop   *)
(* another, so that a loop that never ends is a behaviour of the model.    *)
(* The OnEvicted callback is left out: cache.go passes nil.                *)
(***************************************************************************)
EXTENDS Integers, Sequences, SequencesExt, FiniteSets

CONSTANTS
    Key,        \* cache keys
    Value,      \* values (ByteViews)
    KeyLen,     \* [Key -> Nat]: len(key)
    ValueLen,   \* [Value -> Nat]: value.Len()
    MaxBytes,   \* maxBytes; 0 switches the limit off
    Offers,     \* the <<key, value>> pairs callers may Add
    Miss,       \* answer of a Get that found nothing
    MaxDrift    \* bound: the count of bytes is not followed below -MaxDrift

ASSUME SizesAssumption == /\ KeyLen \in [Key -> Nat]
                          /\ ValueLen \in [Value -> Nat]
                          /\ MaxBytes \in Nat
                          /\ MaxDrift \in Nat
ASSUME OffersAssumption == Offers \subseteq Key \X Value
ASSUME MissAssumption == Miss \notin Value

VARIABLES
    ll,         \* the list, front first: entries [key, value]
    cache,      \* keys of the map; a key's element is the entry of ll with that key
    nbytes,     \* the running count of bytes
    adding,     \* an Add is in its eviction loop
    got,        \* answer of the last Get
    newer       \* history: <<a, b>> \in newer iff a was used after b

vars == <<ll, cache, nbytes, adding, got, newer>>

Entry == [key : Key, value : Value]
EntryLen(e) == KeyLen[e.key] + ValueLen[e.value]

KeysOf(s) == {s[i].key : i \in 1..Len(s)}

\* Position of k's element in the list.
PosOf(k) == CHOOSE i \in 1..Len(ll) : ll[i].key = k

\* container/list MoveToFront and PushFront.
MoveToFront(s, i) ==
    [j \in 1..Len(s) |-> IF j = 1 THEN s[i] ELSE IF j <= i THEN s[j-1] ELSE s[j]]
PushFront(s, e) == <<e>> \o s

\* The order of last use once k has just been used.
Touch(k) == (newer \ (Key \X {k})) \cup ({k} \X (Key \ {k}))

\* The condition of Add's loop.
OverLimit == MaxBytes # 0 /\ MaxBytes < nbytes

-----------------------------------------------------------------------------
Init == /\ ll = << >>
        /\ cache = {}
        /\ nbytes = 0
        /\ adding = FALSE
        /\ got = Miss
        /\ newer = {}

\* Mutant of Get: a hit hands out the list's entry, not the value in it.
GetEntry(k) ==
    /\ ~adding
    /\ k \in cache
    /\ ll' = MoveToFront(ll, PosOf(k))
    /\ got' = ll[PosOf(k)]
    /\ newer' = Touch(k)
    /\ UNCHANGED <<cache, nbytes, adding>>

Get(k) ==
    /\ ~adding
    /\ \/ /\ k \in cache
          /\ ll' = MoveToFront(ll, PosOf(k))
          /\ got' = ll[PosOf(k)].value
          /\ newer' = Touch(k)
       \/ /\ k \notin cache
          /\ got' = Miss
          /\ UNCHANGED <<ll, newer>>
    /\ UNCHANGED <<cache, nbytes, adding>>

\* Mutant of AddCached: the element stays where it is.
AddCachedInPlace(k, v) ==
    /\ ~adding
    /\ k \in cache
    /\ nbytes' = nbytes + (ValueLen[v] - ValueLen[ll[PosOf(k)].value])
    /\ nbytes' >= -MaxDrift
    /\ adding' = TRUE
    /\ newer' = Touch(k)
    /\ UNCHANGED <<ll, cache, got>>

\* Add's branch for a cached key: the element moves to the front and the count
\* changes by the difference of the lengths, but the element keeps its value.
AddCached(k, v) ==
    /\ ~adding
    /\ k \in cache
    /\ ll' = MoveToFront(ll, PosOf(k))
    /\ nbytes' = nbytes + (ValueLen[v] - ValueLen[ll[PosOf(k)].value])
    /\ nbytes' >= -MaxDrift
    /\ adding' = TRUE
    /\ newer' = Touch(k)
    /\ UNCHANGED <<cache, got>>

\* Mutants of AddNew: the element goes to the back of the list; the key's bytes are
\* not counted.
AddNewAtBack(k, v) ==
    /\ ~adding
    /\ k \notin cache
    /\ ll' = Append(ll, [key |-> k, value |-> v])
    /\ cache' = cache \cup {k}
    /\ nbytes' = nbytes + (KeyLen[k] + ValueLen[v])
    /\ adding' = TRUE
    /\ newer' = Touch(k)
    /\ UNCHANGED got
AddNewValueOnly(k, v) ==
    /\ ~adding
    /\ k \notin cache
    /\ ll' = PushFront(ll, [key |-> k, value |-> v])
    /\ cache' = cache \cup {k}
    /\ nbytes' = nbytes + ValueLen[v]
    /\ adding' = TRUE
    /\ newer' = Touch(k)
    /\ UNCHANGED got

AddNew(k, v) ==
    /\ ~adding
    /\ k \notin cache
    /\ ll' = PushFront(ll, [key |-> k, value |-> v])
    /\ cache' = cache \cup {k}
    /\ nbytes' = nbytes + (KeyLen[k] + ValueLen[v])
    /\ adding' = TRUE
    /\ newer' = Touch(k)
    /\ UNCHANGED got

\* Mutants of RemoveBack: the map keeps the key; the key's bytes stay counted;
\* all bytes stay counted.
RemoveBackKeepKey ==
    /\ ll' = IF ll = << >> THEN ll ELSE Front(ll)
    /\ nbytes' = IF ll = << >> THEN nbytes ELSE nbytes - EntryLen(ll[Len(ll)])
    /\ UNCHANGED cache
RemoveBackValueOnly ==
    /\ ll' = IF ll = << >> THEN ll ELSE Front(ll)
    /\ cache' = KeysOf(ll')
    /\ nbytes' = IF ll = << >> THEN nbytes ELSE nbytes - ValueLen[ll[Len(ll)].value]
RemoveBackUncounted ==
    /\ ll' = IF ll = << >> THEN ll ELSE Front(ll)
    /\ cache' = KeysOf(ll')
    /\ UNCHANGED nbytes

\* RemoveOldest: nothing happens on an empty list.
RemoveBack ==
    IF ll = << >>
    THEN UNCHANGED <<ll, cache, nbytes>>
    ELSE LET e == ll[Len(ll)]
         IN /\ ll' = Front(ll)
            /\ cache' = cache \ {e.key}
            /\ nbytes' = nbytes - EntryLen(e)

\* A turn of Add's loop.
Evict == /\ adding
         /\ OverLimit
         /\ RemoveBack
         /\ UNCHANGED <<adding, got, newer>>

\* The loop's exit, and Add's return.
AddReturn == /\ adding
             /\ ~OverLimit
             /\ adding' = FALSE
             /\ UNCHANGED <<ll, cache, nbytes, got, newer>>

\* RemoveOldest is exported: a caller may use it between the other calls.
RemoveOldest == /\ ~adding
                /\ RemoveBack
                /\ UNCHANGED <<adding, got, newer>>

Next == \/ \E k \in Key : Get(k)
        \/ \E o \in Offers : AddCached(o[1], o[2]) \/ AddNew(o[1], o[2])
        \/ Evict
        \/ AddReturn
        \/ RemoveOldest

Spec == Init /\ [][Next]_vars

\* A call that has started runs on: one thread owns the mutex and does not stop.
FairSpec == Spec /\ WF_vars(Evict \/ AddReturn)

-----------------------------------------------------------------------------
\* Types of the variables.
TypeOK == /\ ll \in Seq(Entry)
          /\ cache \subseteq Key
          /\ nbytes \in Int
          /\ adding \in BOOLEAN
          /\ got \in Value \cup {Miss}
          /\ newer \subseteq Key \X Key

\* The map and the list hold the same keys, and the list holds each of them
\* once: whatever mix of hits, updates, insertions and evictions has run, no
\* element is unreachable through the map and no map entry points at an element
\* that left the list (lru.go keeps the two by hand in Add and RemoveOldest).
IndexConsistent ==
    /\ cache = KeysOf(ll)
    /\ \A i, j \in 1..Len(ll) : ll[i].key = ll[j].key => i = j

\* The list is in order of last use, and every cached key was used after every
\* key that is not cached: eviction takes the least recently used key and no
\* other, hits count as uses, and updates of cached keys do too.
RecencyOrder ==
    /\ \A i, j \in 1..Len(ll) : i < j => <<ll[i].key, ll[j].key>> \in newer
    /\ \A a \in cache, b \in Key \ cache : <<a, b>> \in newer

\* Bytes the entries of the list take, each counted at the place of its entry.
Used == Cardinality(UNION {{i} \X (1..EntryLen(ll[i])) : i \in DOMAIN ll})

\* nbytes is what the entries take (lru.go:8), through every add and eviction.
Accounting == nbytes = Used

\* Between calls the entries held take at most maxBytes (lru.go:7).
UsedWithinLimit == ~adding /\ MaxBytes # 0 => Used <= MaxBytes

\* Add returns: its loop ends (lru.go:83).
AddTerminates == adding ~> ~adding

-----------------------------------------------------------------------------
\* The cache implements the policy: the list and the index together are the
\* abstract store, and every step is a step of LRUPolicy or changes nothing in it.
Policy == INSTANCE LRUPolicy
            WITH store <- [k \in cache |-> ll[PosOf(k)].value]
PolicySpec == Policy!Spec
=============================================================================
