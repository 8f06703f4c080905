------------------------------ MODULE RpcDays ------------------------------
(***************************************************************************)
(* The geerpc program of each day: which steps the functions of that day's *)
(* files take.  Where a day leaves a file as it was, its definition is the *)
(* one of the day before.                                                  *)
(***************************************************************************)
EXTENDS GeeRpc

\* main.go of day 1: the Option and the first request one right after the other.
Main1(c) == Turn(c)
Proceed1(c) == MainTurn(c)

\* client.go; the main programs of these days sleep between Dial and the first call.
Go2(c) == Greeted /\ Begin(c)
Send2(c) == Register(c) \/ Refuse(c) \/ Unsend(c) \/ SendSignal(c)
Call2(c) == Take(c)
Receive2 == ReadHeaderFails \/ ReadBodyFails \/ ReceiveSignal
TerminateCalls2 == Terminate \/ (\E c \in Call : TerminateCall(c)) \/ TerminateReturn
Close2 == UserClose
Go3(c) == Go2(c)
Send3(c) == Send2(c)
Call3(c) == Call2(c)
Receive3 == Receive2
TerminateCalls3 == TerminateCalls2
Close3 == Close2

\* gob.go: a client's Write, and what its ReadHeader and ReadBody bring.
Write2(c) == WriteHeader(c) \/ WriteBody(c) \/ WriteFails(c)
Read2 == ReadHeader \/ ReadBody
Write3(c) == Write2(c)
Read3 == Read2

\* server.go.
ServerConn1 == ReadOption \/ ReadOptionFails
ReadRequest1 == EchoRequest \/ ReadRequestFails \/ EchoArgs
ServerCodec1 == Drained
HandleRequest1(c) == Echo(c) \/ Respond(c)
ServerConn2 == ServerConn1
ReadRequest2 == ReadRequest1
ServerCodec2 == ServerCodec1
HandleRequest2(c) == HandleRequest1(c)
ServerConn3 == ServerConn2
FindService3 == ReadUnknown \/ ReadPanics
ReadRequest3 == ReadRequest \/ ReadRequestFails \/ ReadArgs \/ ReadArgsMisfit \/ ReadArgsFails
ServerCodec3 == Refused \/ Drained
HandleRequest3(c) == CallMethod(c) \/ MethodPanics(c) \/ Respond(c)

\* Who calls, and the goroutines: a caller, receive, a handler, the connection's.
Calling(c) == \/ day = 1 /\ Main1(c)
              \/ day = 2 /\ Go2(c)
              \/ day = 3 /\ Go3(c)
Caller(c) == \/ day = 1 /\ Proceed1(c)
             \/ day = 2 /\ (Send2(c) \/ Write2(c) \/ Call2(c))
             \/ day = 3 /\ (Send3(c) \/ Write3(c) \/ Call3(c))
Receiver == \/ day = 2 /\ (Receive2 \/ Read2 \/ TerminateCalls2)
            \/ day = 3 /\ (Receive3 \/ Read3 \/ TerminateCalls3)
Closing == \/ day = 1 /\ Leave
           \/ day = 2 /\ Close2
           \/ day = 3 /\ Close3
Reader == \/ day = 1 /\ (ServerConn1 \/ ReadRequest1 \/ ServerCodec1)
          \/ day = 2 /\ (ServerConn2 \/ ReadRequest2 \/ ServerCodec2)
          \/ day = 3 /\ (ServerConn3 \/ ReadRequest3 \/ FindService3 \/ ServerCodec3)
Handler(c) == \/ day = 1 /\ HandleRequest1(c)
              \/ day = 2 /\ HandleRequest2(c)
              \/ day = 3 /\ HandleRequest3(c)

\* What starts a call, ends the client or drops the connection,
Environment == \/ \E c \in Call : Calling(c) /\ UNCHANGED serverVars
               \/ Closing /\ UNCHANGED serverVars
               \/ Dropping
\* and what goes on by itself.
Program == \/ \E c \in Call : \/ Caller(c) /\ UNCHANGED serverVars
                              \/ Handler(c) /\ UNCHANGED clientVars
           \/ Receiver /\ UNCHANGED serverVars
           \/ Reader /\ UNCHANGED clientVars

Next == Environment \/ Program

Spec == Init /\ [][Next]_vars

\* As long as some goroutine can go on, one does: methods return or panic, and an
\* end learns at last that the connection is gone.  Nothing obliges anybody to
\* call, to close or the network to fail.
FairSpec == Spec /\ WF_vars(Program)
=============================================================================
