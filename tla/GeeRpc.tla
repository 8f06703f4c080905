------------------------------- MODULE GeeRpc -------------------------------
(***************************************************************************)
(* A geerpc client and the server's side of its connection, together with  *)
(* the network between them.                                               *)
(***************************************************************************)
EXTENDS RpcMain, RpcServer

CONSTANTS
    Hasty,      \* whether callers of a Client call before the server has read the Option
    MayCut      \* whether the network may drop the connection

ASSUME SettingAssumption == Hasty \in BOOLEAN /\ MayCut \in BOOLEAN

vars == <<clientVars, serverVars, wireVars>>

Init == WireInit /\ ClientInit /\ ServerInit

Greeted == Hasty \/ sat # "option"
Dropping == MayCut /\ Cut /\ UNCHANGED <<clientVars, serverVars>>

-----------------------------------------------------------------------------
\* Types of the variables.
TypeOK == WireTypeOK /\ ClientTypeOK /\ ServerTypeOK

\* The server waits for a request that the Option's decoder has thrown away
\* (server.go:106): main of day 1 does not let it read the Option first.
Waits == garbled /\ sat = "header" /\ ~cut
Swallowed == day = 1 /\ <>[]Waits

\* Client and server are an at-most-once remote call in which every call returns, but
\* for those of day 1 that are Swallowed: responses in any order reach the caller they
\* are for, and errors of one side, crashes, Close and a lost connection end the calls
\* they concern.  An "error" is any outcome but the result, day 1's empty reply, too.
Remote == INSTANCE RemoteCall
            WITH asked <- {c \in Call : at[c] # "idle"},
                 Err <- "error",
                 answer <- [c \in Call |-> IF c \notin taken THEN Nil
                                           ELSE IF outcome[c] \in Call THEN outcome[c]
                                           ELSE "error"]
RemoteCallSpec == Remote!SafeSpec /\ (Swallowed \/ Remote!Fairness)

\* "Call invokes the named function, waits for it to complete, and returns its
\* error status" (client.go:271-272).
CallsReturn == \A c \in Call : at[c] = "called" ~> at[c] = "back"
=============================================================================
