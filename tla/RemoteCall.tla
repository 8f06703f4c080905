----------------------------- MODULE RemoteCall -----------------------------
(***************************************************************************)
(* What geerpc promises the callers of one client: a call executes its     *)
(* method at most once and returns once, with the result of its own        *)
(* execution or with an error, which does not tell whether it was executed *)
(* or will be.                                                             *)
(***************************************************************************)
EXTENDS Naturals

CONSTANTS Call, Err, Nil

VARIABLES
    asked,      \* the calls made
    runs,       \* how often each was executed
    answer      \* what each returned: itself stands for its result

vars == <<asked, runs, answer>>

Init == /\ asked = {}
        /\ runs = [c \in Call |-> 0]
        /\ answer = [c \in Call |-> Nil]

Ask(c) == /\ c \notin asked
          /\ asked' = asked \cup {c}
          /\ UNCHANGED <<runs, answer>>

Execute(c) == /\ c \in asked
              /\ runs[c] = 0
              /\ runs' = [runs EXCEPT ![c] = 1]
              /\ UNCHANGED <<asked, answer>>

Return(c) == /\ c \in asked
             /\ answer[c] = Nil
             /\ \/ answer' = [answer EXCEPT ![c] = Err]
                \/ runs[c] = 1 /\ answer' = [answer EXCEPT ![c] = c]
             /\ UNCHANGED <<asked, runs>>

Next == \E c \in Call : Ask(c) \/ Execute(c) \/ Return(c)

SafeSpec == Init /\ [][Next]_vars

\* Every call returns.
Fairness == \A c \in Call : WF_vars(Return(c))

Spec == SafeSpec /\ Fairness
=============================================================================
