------------------------------ MODULE MCGeeRpc ------------------------------
(***************************************************************************)
(* Instances of GeeRpc.                                                    *)
(***************************************************************************)
EXTENDS RpcDays

CONSTANTS a, b, ch

\* One call asks for anything, beside one that is answered.
AnyBeside == [c \in Call |-> IF c = a THEN Whats ELSE {"answers"}]
Answered == [c \in Call |-> {"answers"}]

\* Callers share a channel that holds one call; a caller of Call has one alone.
Shared == [c \in Call |-> ch]
Own == [c \in Call |-> c]
One == [x \in Chan |-> 1]
=============================================================================
