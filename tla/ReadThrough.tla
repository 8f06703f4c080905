---------------------------- MODULE ReadThrough ----------------------------
(***************************************************************************)
(* What a group promises whoever calls Get, whichever node is asked and    *)
(* however the request travels: every Get is answered, and the answer is   *)
(* one the source has given for the key that was asked for -- a value it   *)
(* held, or an error if looking the key up was an error.  Values are never *)
(* invalidated, so the answer may be an old one.                           *)
(***************************************************************************)
CONSTANTS
    Client,     \* Gets, one per client
    Key,
    Answer,     \* values and the error
    Nil         \* nothing asked, nothing answered

VARIABLES
    asked,      \* key each client asked for
    answer,     \* what each client was told
    hist        \* for each key, the answers the source has had

vars == <<asked, answer, hist>>

Init == /\ asked = [c \in Client |-> Nil]
        /\ answer = [c \in Client |-> Nil]
        /\ hist \in [Key -> SUBSET Answer]

Ask(c, k) == /\ asked[c] = Nil
             /\ asked' = [asked EXCEPT ![c] = k]
             /\ UNCHANGED <<answer, hist>>

Reply(c, r) == /\ asked[c] # Nil
               /\ answer[c] = Nil
               /\ r \in hist[asked[c]]
               /\ answer' = [answer EXCEPT ![c] = r]
               /\ UNCHANGED <<asked, hist>>

\* The source changes.
Change(k, r) == /\ hist' = [hist EXCEPT ![k] = @ \cup {r}]
                /\ UNCHANGED <<asked, answer>>

Next == \/ \E c \in Client : \/ \E k \in Key : Ask(c, k)
                             \/ \E r \in Answer : Reply(c, r)
        \/ \E k \in Key, r \in Answer : Change(k, r)

SafeSpec == Init /\ [][Next]_vars

Spec == /\ SafeSpec
        /\ \A c \in Client : WF_vars(\E r \in Answer : Reply(c, r))
=============================================================================
