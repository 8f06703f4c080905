------------------------------ MODULE RpcMain ------------------------------
(***************************************************************************)
(* main/main.go of geerpc's first day, "like a simple geerpc client": it   *)
(* sends the Option and makes one call after another with the codec alone, *)
(* passing over every error.                                               *)
(*                                                                         *)
(* It uses those of RpcClient's variables that it has: rat tells whether   *)
(* the header or the body of the answer is next.                           *)
(***************************************************************************)
EXTENDS RpcClient

unused == <<pending, shutdown, sending, hand, hdr, left, signalVars>>

\* A turn of the loop.
Turn(c) == /\ at[c] = "idle"
           /\ \A d \in Call : at[d] \in {"idle", "back"}
           /\ at' = [at EXCEPT ![c] = "header"]
           /\ num' = [num EXCEPT ![c] = seq]
           /\ seq' = seq + 1
           /\ UNCHANGED <<outcome, closing, rat, taken, unused, wireVars>>

\* cc.Write has written the body.
Written(c) == /\ at[c] = "body"
              /\ Write("client", Msg("body", num[c], c))
              /\ at' = [at EXCEPT ![c] = "asked"]
              /\ UNCHANGED <<num, seq, outcome, closing, rat, taken, unused>>

\* cc.Write has failed, and nobody looks.
PassOver(c) == /\ at[c] = "failed"
               /\ at' = [at EXCEPT ![c] = "asked"]
               /\ UNCHANGED <<num, seq, outcome, closing, rat, taken, unused, wireVars>>

\* cc.ReadHeader.
AnswerHeader(c) ==
    /\ at[c] = "asked" /\ rat = "header"
    /\ \/ Arrived("client", {"header"}) /\ Read("client")
       \/ ReadFails("client") /\ UNCHANGED wireVars
    /\ rat' = "body"
    /\ UNCHANGED <<at, num, seq, outcome, closing, taken, unused>>

\* cc.ReadBody; without an answer the reply is the empty string.
AnswerBody(c) ==
    /\ at[c] = "asked" /\ rat = "body"
    /\ \/ /\ Arrived("client", {"body"}) /\ Read("client")
          /\ outcome' = [outcome EXCEPT ![c] = Head(stream["client"]).call]
       \/ /\ ReadFails("client") /\ UNCHANGED wireVars
          /\ outcome' = [outcome EXCEPT ![c] = "empty"]
    /\ rat' = "header"
    /\ at' = [at EXCEPT ![c] = "back"]
    /\ taken' = taken \cup {c}
    /\ UNCHANGED <<num, seq, closing, unused>>

\* main returns, and closes the connection.
Leave == /\ \A c \in Call : at[c] = "back"
         /\ ~closing
         /\ closing' = TRUE
         /\ Close("client")
         /\ UNCHANGED <<at, num, seq, outcome, rat, taken, unused>>

MainTurn(c) == \/ WriteHeader(c) \/ Written(c) \/ WriteFails(c) \/ PassOver(c)
               \/ AnswerHeader(c) \/ AnswerBody(c)
=============================================================================
