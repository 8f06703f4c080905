--------------------------- MODULE GeeRpc_proofs ---------------------------
(***************************************************************************)
(* What is proved of a client, whatever the server and the network do, and *)
(* of a client and its server together.                                    *)
(***************************************************************************)
EXTENDS RpcDays, SequenceTheorems, TLAPS

-----------------------------------------------------------------------------
(* A client on its own *)

\* Still to be completed by somebody: in the hands of receive, or pending where
\* receive, or terminateCalls, will find it.
Open(c) == \/ hand = c
           \/ c \in pending /\ (rat \notin {"terminate", "over"} \/ c \in left)

\* client.sending is held by the caller that is between registerCall and the end
\* of send, or by terminateCalls.
LockHeld == /\ \A c \in Call : sending = c <=> at[c] \in {"header", "body", "failed", "signal"}
            /\ sending = Receive <=> rat = "terminate"

\* Once receive has stopped, nobody is in the middle of sending a request, nor
\* will be.
NoLateCalls == rat \in {"terminate", "over"} =>
                  shutdown /\ \A c \in Call : at[c] \notin {"header", "body", "failed"}

ReceiverFacts == /\ hand # Nil => rat \in {"body", "signal", "signalStop"}
                 /\ rat \in {"signal", "signalStop"} => hand # Nil /\ outcome[hand] # Nil
                 /\ hand \notin pending
                 /\ left \subseteq pending
                 /\ left # {} => rat = "terminate"

\* A call that has started is completed just when it is no longer open.
CallFacts(c) ==
    /\ at[c] \in {"idle", "called", "signal"} => c \notin pending /\ hand # c /\ signals[c] = 0
    /\ at[c] \notin {"idle", "called", "signal"} => signals[c] = IF Open(c) THEN 0 ELSE 1
    /\ at[c] = "signal" => outcome[c] # Nil
    /\ signals[c] = 1 => outcome[c] # Nil

IInv == /\ ClientTypeOK
        /\ LockHeld
        /\ NoLateCalls
        /\ ReceiverFacts
        /\ \A c \in Call : CallFacts(c)

-----------------------------------------------------------------------------
\* A new client has the invariant.
LEMMA InitIInv == ClientInit => IInv
<1> SUFFICES ASSUME ClientInit PROVE IInv
  OBVIOUS
<1> USE NamesAssumption DEF ClientInit
<1>1. ClientTypeOK
  <2>1. << >> \in Seq(Call)
    OBVIOUS
  <2> QED BY <2>1 DEF ClientTypeOK, CallerPoints, ReceiverPoints
<1>2. LockHeld
  BY DEF LockHeld, Receive
<1>3. NoLateCalls /\ ReceiverFacts
  BY DEF NoLateCalls, ReceiverFacts
<1>4. \A c \in Call : CallFacts(c)
  BY DEF CallFacts, Open
<1> QED BY <1>1, <1>2, <1>3, <1>4 DEF IInv

\* done() appends a call to its channel and counts.
LEMMA SignalFacts ==
    ASSUME ClientTypeOK, NEW c \in Call, Signal(c)
    PROVE  /\ chan' \in [Chan -> Seq(Call)]
           /\ signals' \in [Call -> Nat]
           /\ signals'[c] = signals[c] + 1
           /\ \A d \in Call \ {c} : signals'[d] = signals[d]
<1>1. chan[Done[c]] \in Seq(Call)
  BY ChanAssumption DEF ClientTypeOK
<1>2. Append(chan[Done[c]], c) \in Seq(Call)
  BY <1>1, AppendProperties
<1>3. chan' \in [Chan -> Seq(Call)]
  BY <1>2, ChanAssumption DEF Signal, ClientTypeOK
<1>4. signals' = [signals EXCEPT ![c] = @ + 1] /\ signals \in [Call -> Nat]
  BY DEF Signal, ClientTypeOK
<1> QED BY <1>3, <1>4

-----------------------------------------------------------------------------
\* A step of a call between its send and its end keeps it, however the step goes.
LEMMA ProceedKeepsIInv ==
    ASSUME IInv, NEW c \in Call, Begin(c) \/ Proceed(c)
    PROVE  IInv'
<1> USE NamesAssumption
<1> USE DEF callerVars, receiverVars, signalVars
<1>t. ClientTypeOK
  BY DEF IInv
<1>1. CASE Begin(c)
  BY <1>1 DEF Begin, IInv, ClientTypeOK, LockHeld, NoLateCalls, ReceiverFacts, CallFacts, Open,
              CallerPoints
<1>2. CASE Register(c)
  BY <1>2 DEF Register, IInv, ClientTypeOK, LockHeld, NoLateCalls, ReceiverFacts, CallFacts, Open,
              CallerPoints, Receive
<1>3. CASE Refuse(c)
  BY <1>3 DEF Refuse, IInv, ClientTypeOK, LockHeld, NoLateCalls, ReceiverFacts, CallFacts, Open,
              CallerPoints, Receive, Errors
<1>4. CASE WriteHeader(c)
  BY <1>4 DEF WriteHeader, IInv, ClientTypeOK, LockHeld, NoLateCalls, ReceiverFacts, CallFacts,
     Open, CallerPoints
<1>5. CASE WriteBody(c)
  BY <1>5 DEF WriteBody, IInv, ClientTypeOK, LockHeld, NoLateCalls, ReceiverFacts, CallFacts, Open,
              CallerPoints, Receive
<1>6. CASE WriteFails(c)
  BY <1>6 DEF WriteFails, IInv, ClientTypeOK, LockHeld, NoLateCalls, ReceiverFacts, CallFacts, Open,
              CallerPoints
<1>7. CASE Unsend(c)
  <2>1. /\ at[c] = "failed"
        /\ UNCHANGED <<num, seq, closing, shutdown, rat, hand, hdr, left, chan, signals, taken>>
    BY <1>7 DEF Unsend
  <2>2. CASE /\ c \in pending /\ pending' = pending \ {c}
             /\ outcome' = [outcome EXCEPT ![c] = "write"]
             /\ at' = [at EXCEPT ![c] = "signal"]
             /\ sending' = sending
    BY <2>1, <2>2 DEF IInv, ClientTypeOK, LockHeld, NoLateCalls, ReceiverFacts, CallFacts, Open,
                      CallerPoints, Errors
  <2>3. CASE /\ c \notin pending /\ sending' = Nil
             /\ at' = [at EXCEPT ![c] = "wait"]
             /\ UNCHANGED <<pending, outcome>>
    BY <2>1, <2>3 DEF IInv, ClientTypeOK, LockHeld, NoLateCalls, ReceiverFacts, CallFacts, Open,
                      CallerPoints, Receive
  <2> QED BY <1>7, <2>2, <2>3 DEF Unsend, PendingAt
<1>8. CASE SendSignal(c)
  <2>1. Signal(c)
    BY <1>8 DEF SendSignal
  <2>2. ClientTypeOK'
    BY <1>8, <1>t, <2>1, SignalFacts DEF SendSignal, ClientTypeOK, CallerPoints
  <2>3. LockHeld' /\ NoLateCalls' /\ ReceiverFacts'
    BY <1>8 DEF SendSignal, IInv, ClientTypeOK, LockHeld, NoLateCalls, ReceiverFacts, Receive
  <2>4. ASSUME NEW d \in Call PROVE CallFacts(d)'
    BY <1>8, <1>t, <2>1, SignalFacts DEF SendSignal, IInv, ClientTypeOK, CallFacts, Open
  <2> QED BY <2>2, <2>3, <2>4 DEF IInv
<1>9. CASE Take(c)
  <2>1. chan[Done[c]] \in Seq(Call) /\ chan[Done[c]] # << >>
    BY <1>9, <1>t, ChanAssumption DEF Take, ClientTypeOK
  <2>2. Head(chan[Done[c]]) \in Call /\ Tail(chan[Done[c]]) \in Seq(Call)
    BY <2>1
  <2>3. ClientTypeOK'
    BY <1>9, <1>t, <2>2 DEF Take, ClientTypeOK, CallerPoints
  <2>4. LockHeld' /\ NoLateCalls' /\ ReceiverFacts' /\ \A d \in Call : CallFacts(d)'
    BY <1>9 DEF Take, IInv, ClientTypeOK, LockHeld, NoLateCalls, ReceiverFacts, CallFacts, Open
  <2> QED BY <2>3, <2>4 DEF IInv
<1> QED BY <1>1, <1>2, <1>3, <1>4, <1>5, <1>6, <1>7, <1>8, <1>9 DEF Proceed

\* A step of the receiver keeps it.
LEMMA ReceivingKeepsIInv ==
    ASSUME IInv, Receiving
    PROVE  IInv'
<1> USE NamesAssumption
<1> USE DEF callerVars, receiverVars, signalVars
<1>t. ClientTypeOK
  BY DEF IInv
<1>1. CASE ReadHeader
  <2>1. /\ rat = "header" /\ rat' = "body" /\ hand = Nil
        /\ hdr' \in {"header", "error"}
        /\ UNCHANGED <<at, num, seq, closing, taken, outcome, shutdown, sending, left, chan, signals>>
    BY <1>1 DEF ReadHeader, Arrived, IInv, ReceiverFacts
  <2>2. CASE \E c \in PendingAt(Head(stream["client"]).seq) : hand' = c /\ pending' = pending \ {c}
    <3>1. PICK c \in pending : hand' = c /\ pending' = pending \ {c}
      BY <2>2 DEF PendingAt
    <3> QED BY <2>1, <3>1 DEF IInv, ClientTypeOK, LockHeld, NoLateCalls, ReceiverFacts, CallFacts,
                              Open, ReceiverPoints, Receive
  <2>3. CASE hand' = Nil /\ UNCHANGED pending
    BY <2>1, <2>3 DEF IInv, ClientTypeOK, LockHeld, NoLateCalls, ReceiverFacts, CallFacts,
                      Open, ReceiverPoints
  <2> QED BY <1>1, <2>2, <2>3 DEF ReadHeader
<1>2. CASE ReadHeaderFails
  BY <1>2 DEF ReadHeaderFails, IInv, ClientTypeOK, LockHeld, NoLateCalls, ReceiverFacts, CallFacts,
              Open, ReceiverPoints
<1>3. CASE ReadBody
  <2>1. /\ rat = "body" /\ rat' \in {"header", "signal", "signalStop"}
        /\ UNCHANGED <<at, num, seq, closing, taken, pending, shutdown, sending, hand, hdr, left,
                       chan, signals>>
        /\ \/ hand = Nil /\ rat' = "header" /\ UNCHANGED outcome
           \/ /\ hand # Nil /\ rat' # "header"
              /\ \E o \in Errors \cup Call : outcome' = [outcome EXCEPT ![hand] = o]
    BY <1>3 DEF ReadBody, Fits, Errors
  <2>2. CASE hand = Nil
    BY <2>1, <2>2 DEF IInv, ClientTypeOK, LockHeld, NoLateCalls, ReceiverFacts, CallFacts,
                      Open, ReceiverPoints
  <2>3. CASE hand # Nil
    <3>1. PICK o \in Errors \cup Call : outcome' = [outcome EXCEPT ![hand] = o]
      BY <2>1, <2>3
    <3>2. o # Nil /\ hand \in Call
      BY <2>3, <1>t, NilAssumption DEF ClientTypeOK, Errors
    <3> QED BY <2>1, <2>3, <3>1, <3>2 DEF IInv, ClientTypeOK, LockHeld, NoLateCalls, ReceiverFacts,
                                          CallFacts, Open, ReceiverPoints
  <2> QED BY <2>2, <2>3
<1>4. CASE ReadBodyFails
  BY ZenonT(30), <1>4 DEF ReadBodyFails, IInv, ClientTypeOK, LockHeld, NoLateCalls, ReceiverFacts, CallFacts,
              Open, ReceiverPoints, Errors
<1>5. CASE ReceiveSignal
  <2>1. /\ hand \in Call /\ Signal(hand) /\ rat \in {"signal", "signalStop"}
        /\ rat' \in {"header", "stop"} /\ hand' = Nil /\ hdr' = "header"
        /\ UNCHANGED <<at, num, seq, closing, taken, pending, outcome, shutdown, sending, left>>
    BY <1>5, <1>t DEF ReceiveSignal, IInv, ReceiverFacts, ClientTypeOK
  <2>2. ClientTypeOK'
    BY <2>1, <1>t, SignalFacts DEF ClientTypeOK, ReceiverPoints
  <2>3. LockHeld' /\ NoLateCalls' /\ ReceiverFacts'
    BY <2>1 DEF IInv, ClientTypeOK, LockHeld, NoLateCalls, ReceiverFacts
  <2>4. ASSUME NEW d \in Call PROVE CallFacts(d)'
    BY <2>1, <1>t, SignalFacts DEF IInv, ClientTypeOK, CallFacts, Open, ReceiverFacts
  <2> QED BY <2>2, <2>3, <2>4 DEF IInv
<1>6. CASE Terminate
  BY <1>6 DEF Terminate, IInv, ClientTypeOK, LockHeld, NoLateCalls, ReceiverFacts, CallFacts,
              Open, ReceiverPoints, Receive
<1>7. ASSUME NEW c \in Call, TerminateCall(c) PROVE IInv'
  <2>1. /\ Signal(c) /\ c \in left /\ rat = "terminate" /\ left' = left \ {c}
        /\ outcome' = [outcome EXCEPT ![c] = "lost"]
        /\ UNCHANGED <<at, num, seq, closing, taken, pending, shutdown, sending, rat, hand, hdr>>
    BY <1>7 DEF TerminateCall
  <2>2. ClientTypeOK'
    BY <2>1, <1>t, SignalFacts DEF ClientTypeOK, Errors
  <2>3. LockHeld' /\ NoLateCalls' /\ ReceiverFacts'
    BY <2>1 DEF IInv, ClientTypeOK, LockHeld, NoLateCalls, ReceiverFacts
  <2>4. ASSUME NEW d \in Call PROVE CallFacts(d)'
    <3>1. "lost" # Nil /\ outcome' \in [Call -> Errors \cup Call \cup {Nil}]
      BY <2>2 DEF ClientTypeOK, Errors
    <3> QED BY <2>1, <3>1, <1>t, SignalFacts
            DEF IInv, ClientTypeOK, CallFacts, Open, ReceiverFacts
  <2> QED BY <2>2, <2>3, <2>4 DEF IInv
<1>8. CASE TerminateReturn
  BY <1>8 DEF TerminateReturn, IInv, ClientTypeOK, LockHeld, NoLateCalls, ReceiverFacts, CallFacts,
              Open, ReceiverPoints, Receive
<1> QED BY <1>1, <1>2, <1>3, <1>4, <1>5, <1>6, <1>7, <1>8 DEF Receiving

\* Every step of the client keeps it.
LEMMA NextKeepsIInv == IInv /\ [ClientNext]_clientVars => IInv'
<1> SUFFICES ASSUME IInv, [ClientNext]_clientVars PROVE IInv'
  OBVIOUS
<1> USE DEF receiverVars, signalVars
<1>1. ASSUME NEW c \in Call, Begin(c) \/ Proceed(c) PROVE IInv'
  BY <1>1, ProceedKeepsIInv
<1>2. CASE Receiving
  BY <1>2, ReceivingKeepsIInv
<1>3. CASE UserClose
  BY <1>3 DEF UserClose, IInv, ClientTypeOK, LockHeld, NoLateCalls, ReceiverFacts, CallFacts, Open
<1>4. CASE UNCHANGED clientVars
  BY <1>4 DEF clientVars, IInv, ClientTypeOK, LockHeld, NoLateCalls, ReceiverFacts, CallFacts, Open
<1> QED BY <1>1, <1>2, <1>3, <1>4 DEF ClientNext

-----------------------------------------------------------------------------
\* Every variable of the client keeps its type.
THEOREM ClientTypeCorrect == ClientSpec => []ClientTypeOK
<1>1. IInv => ClientTypeOK
  BY DEF IInv
<1> QED BY <1>1, InitIInv, NextKeepsIInv, PTL DEF ClientSpec

\* Each call of a client completes at most once, with its outcome set, whatever
\* the server sends and whenever the connection fails.
THEOREM EachCompletesOnce == ClientSpec => []CompletesOnce
<1>1. IInv => CompletesOnce
  BY DEF IInv, CallFacts, CompletesOnce
<1> QED BY <1>1, InitIInv, NextKeepsIInv, PTL DEF ClientSpec

\* No call of a client is forgotten, whatever the server sends and whenever the
\* connection fails.
THEOREM NoneIsForgotten == ClientSpec => []NoneForgotten
<1>1. IInv => NoneForgotten
  BY DEF IInv, ClientTypeOK, CallFacts, ReceiverFacts, Open, NoneForgotten
<1> QED BY <1>1, InitIInv, NextKeepsIInv, PTL DEF ClientSpec

-----------------------------------------------------------------------------
(* A client that has a server, of any day *)

\* From day 2 on the client is that of RpcClient; day 1 has no call to complete.
DayInv == IF day = 1 THEN \A c \in Call : signals[c] = 0 ELSE IInv

\* Nothing changes the day.
LEMMA DayStays ==
    ASSUME [Next]_vars
    PROVE  day' = day
<1> USE DEF fixed, wireVars, Write, Read, Close, Cut, Die
<1>1. ASSUME NEW c \in Call, Calling(c) \/ Caller(c) PROVE day' = day
  BY <1>1 DEF Calling, Caller, Main1, Proceed1, Go2, Go3, Send2, Send3, Write2, Write3, Call2,
     Call3, MainTurn, Turn, Written, PassOver, AnswerHeader, AnswerBody, Begin, Register, Refuse,
     WriteHeader, WriteBody, WriteFails, Unsend, SendSignal, Take
<1>2. CASE Receiver
  BY <1>2 DEF Receiver, Receive2, Receive3, Read2, Read3, TerminateCalls2, TerminateCalls3,
     ReadHeader, ReadHeaderFails, ReadBody, ReadBodyFails, ReceiveSignal, Terminate, TerminateCall,
     TerminateReturn
<1>3. CASE Closing
  BY <1>3 DEF Closing, Leave, Close2, Close3, UserClose
<1>4. ASSUME NEW c \in Call, Handler(c) PROVE day' = day
  BY <1>4 DEF Handler, HandleRequest1, HandleRequest2, HandleRequest3, Echo, Respond, CallMethod,
              MethodPanics, RespondHeader, RespondBody, RespondFails
<1>5. CASE Reader
  BY <1>5 DEF Reader, ServerConn1, ServerConn2, ServerConn3, ReadRequest1, ReadRequest2,
     ReadRequest3, FindService3, ServerCodec1, ServerCodec2, ServerCodec3, ReadOption,
     ReadOptionFails, EchoRequest, EchoArgs, ReadRequestFails, Drained, ReadRequest, ReadUnknown,
     ReadPanics, ReadArgs, ReadArgsMisfit, ReadArgsFails, Refused
<1> QED BY <1>1, <1>2, <1>3, <1>4, <1>5 DEF Next, Environment, Program, Dropping, vars

\* Steps of the server and the network leave the client's variables alone.
LEMMA KeepsDayInv ==
    ASSUME DayInv, [Next]_vars
    PROVE  DayInv'
<1>1. day' = day
  BY DayStays
<1>2. CASE day # 1
  <2>1. [ClientNext]_clientVars
    BY <1>2 DEF Next, vars, Environment, Program, Dropping, Calling, Caller, Receiver, Closing, Go2,
       Go3, Send2, Send3, Write2, Write3, Call2, Call3, Receive2, Receive3, Read2, Read3,
       TerminateCalls2, TerminateCalls3, Close2, Close3, ClientNext, Proceed, Receiving
  <2> QED BY <1>1, <1>2, <2>1, NextKeepsIInv DEF DayInv
<1>3. CASE day = 1
  <2>1. signals' = signals
    BY <1>3 DEF Next, vars, clientVars, Environment, Program, Dropping, Calling, Caller, Receiver,
       Closing, Main1, Proceed1, MainTurn, Turn, WriteHeader, Written, WriteFails, PassOver,
       AnswerHeader, AnswerBody, Leave, unused, signalVars
  <2> QED BY <1>1, <1>3, <2>1 DEF DayInv
<1> QED BY <1>2, <1>3

\* It holds before anything has run.
LEMMA InitDayInv == Init => DayInv
BY InitIInv DEF Init, DayInv, ClientInit

\* Each call completes at most once, with any number of callers and channels.
THEOREM CompletionsAreSingle == Spec => []CompletesOnce
<1>1. DayInv => CompletesOnce
  BY DEF DayInv, IInv, CallFacts, CompletesOnce
<1> QED BY <1>1, InitDayInv, KeepsDayInv, PTL DEF Spec

\* No call is forgotten, with any number of callers and channels.
THEOREM CallsAreKept == Spec => []NoneForgotten
<1>1. DayInv => NoneForgotten
  BY DEF DayInv, IInv, ClientTypeOK, CallFacts, ReceiverFacts, Open, NoneForgotten
<1> QED BY <1>1, InitDayInv, KeepsDayInv, PTL DEF Spec

-----------------------------------------------------------------------------
(* What the operations of the wire do to the messages on their way *)

\* t is s without its first k messages and without some of the last.
Slice(t, s, k) == /\ t \in Seq(Message)
                  /\ Len(t) + k <= Len(s)
                  /\ \A i \in 1..Len(t) : t[i] = s[i + k]

\* What is written now arrives.
Writable == up["client"] /\ up["server"] /\ ~cut

\* Both streams are sequences of messages.
LEMMA Streams ==
    ASSUME WireTypeOK, NEW e \in End
    PROVE  /\ stream[e] \in Seq(Message)
           /\ Len(stream[e]) \in Nat
           /\ Slice(stream[e], stream[e], 0)
           /\ \A i \in 1..Len(stream[e]) : /\ stream[e][i] \in Message
                                           /\ stream[e][i].kind \in {"option", "header", "error", "body"}
                                           /\ stream[e][i].seq \in Nat
                                           /\ stream[e][i].call \in Call \cup {Nil}
           /\ Other(e) \in End /\ Other(e) # e /\ End = {e, Other(e)}
<1>1. stream[e] \in Seq(Message)
  BY DEF WireTypeOK
<1>2. Len(stream[e]) \in Nat
  BY <1>1, LenProperties
<1>3. \A i \in 1..Len(stream[e]) : stream[e][i] \in Message
  BY <1>1, ElementOfSeq
<1>4. \A i \in 1..Len(stream[e]) : i + 0 = i
  BY <1>2
<1> QED BY <1>1, <1>2, <1>3, <1>4 DEF Message, End, Other, Slice

\* The first n elements of a sequence are a slice of it;
LEMMA PrefixIsSlice ==
    ASSUME NEW s \in Seq(Message), NEW n \in 0..Len(s)
    PROVE  Slice(SubSeq(s, 1, n), s, 0)
<1>1. Len(s) \in Nat /\ \A i \in 1..n : s[i] \in Message
  BY LenProperties, ElementOfSeq
<1>2. /\ SubSeq(s, 1, n) \in Seq(Message)
      /\ Len(SubSeq(s, 1, n)) = IF 1 <= n THEN n - 1 + 1 ELSE 0
      /\ \A i \in 1..n - 1 + 1 : SubSeq(s, 1, n)[i] = s[1 + i - 1]
  BY <1>1, SubSeqProperties
<1> QED BY <1>1, <1>2 DEF Slice

\* those from a place on are;
LEMMA SuffixIsSlice ==
    ASSUME NEW s \in Seq(Message), NEW n \in 1..Len(s)
    PROVE  Slice(SubSeq(s, n + 1, Len(s)), s, n)
<1>1. Len(s) \in Nat /\ \A i \in n + 1..Len(s) : s[i] \in Message
  BY LenProperties, ElementOfSeq
<1>2. /\ SubSeq(s, n + 1, Len(s)) \in Seq(Message)
      /\ Len(SubSeq(s, n + 1, Len(s))) = IF n + 1 <= Len(s) THEN Len(s) - (n + 1) + 1 ELSE 0
      /\ \A i \in 1..Len(s) - (n + 1) + 1 : SubSeq(s, n + 1, Len(s))[i] = s[(n + 1) + i - 1]
  BY <1>1, SubSeqProperties
<1> QED BY <1>1, <1>2 DEF Slice

\* and nothing is.
LEMMA EmptyIsSlice ==
    ASSUME NEW s \in Seq(Message)
    PROVE  Slice(<< >>, s, 0)
<1>1. << >> \in Seq(Message) /\ Len(<< >>) = 0
  BY EmptySeq
<1> QED BY <1>1, LenProperties DEF Slice

\* The first message is read,
LEMMA ReadWire ==
    ASSUME WireTypeOK, NEW e \in End, stream[e] # << >>, Read(e)
    PROVE  /\ WireTypeOK'
           /\ UNCHANGED <<up, cut, bad, fixed>>
           /\ stream'[Other(e)] = stream[Other(e)]
           /\ Slice(stream'[e], stream[e], 1)
           /\ Len(stream'[e]) = Len(stream[e]) - 1
           /\ Len(stream[e]) >= 1 /\ Head(stream[e]) = stream[e][1]
<1>1. /\ stream'[e] = Tail(stream[e])
      /\ stream'[Other(e)] = stream[Other(e)]
      /\ stream' = [stream EXCEPT ![e] = Tail(stream[e])]
  BY Streams DEF Read, WireTypeOK, End, Other
<1>2. /\ stream'[e] \in Seq(Message)
      /\ Len(stream'[e]) = Len(stream[e]) - 1
      /\ \A i \in 1..Len(stream'[e]) : stream'[e][i] = stream[e][i + 1]
  BY <1>1, Streams, HeadTailProperties
<1>3. WireTypeOK'
  BY <1>1, <1>2 DEF Read, WireTypeOK, fixed
<1>4. Len(stream[e]) >= 1 /\ Head(stream[e]) = stream[e][1]
  BY Streams, EmptySeq
<1> QED BY <1>1, <1>2, <1>3, <1>4, Streams DEF Read, Slice

\* one is written, and arrives if it can,
LEMMA WriteWire ==
    ASSUME WireTypeOK, NEW e \in End, NEW x \in Message, Write(e, x)
    PROVE  /\ WireTypeOK'
           /\ UNCHANGED <<up, cut, fixed>>
           /\ stream'[e] = stream[e]
           /\ IF Writable THEN stream'[Other(e)] = Append(stream[Other(e)], x)
                          ELSE stream'[Other(e)] = stream[Other(e)]
<1>1. Writable <=> up[e] /\ up[Other(e)] /\ ~cut
  BY DEF Writable, End, Other
<1>2. CASE Writable
  <2>1. /\ stream' = [stream EXCEPT ![Other(e)] = Append(stream[Other(e)], x)]
        /\ UNCHANGED <<up, cut, bad, fixed>>
    BY <1>1, <1>2 DEF Write
  <2>2. Append(stream[Other(e)], x) \in Seq(Message)
    BY Streams, AppendProperties
  <2>3. stream' \in [End -> Seq(Message)]
    BY <2>1, <2>2, Streams DEF WireTypeOK
  <2>4. stream'[e] = stream[e] /\ stream'[Other(e)] = Append(stream[Other(e)], x)
    BY <2>1, Streams DEF WireTypeOK
  <2> QED BY <1>2, <2>1, <2>3, <2>4 DEF WireTypeOK, fixed
<1>3. CASE ~Writable
  BY <1>1, <1>3, Streams DEF Write, WireTypeOK, fixed
<1> QED BY <1>2, <1>3

\* an end closes,
LEMMA CloseWire ==
    ASSUME WireTypeOK, NEW e \in End, Close(e)
    PROVE  /\ WireTypeOK'
           /\ UNCHANGED <<cut, bad, fixed>>
           /\ ~up'[e] /\ up'[Other(e)] = up[Other(e)]
           /\ stream'[e] = << >>
           /\ Slice(stream'[Other(e)], stream[Other(e)], 0)
<1>0. Len(stream[Other(e)]) \in Nat
  BY Streams
<1>a. (IF stream[e] = << >> THEN {Len(stream[Other(e)])} ELSE 0..Len(stream[Other(e)]))
         \subseteq 0..Len(stream[Other(e)])
  BY <1>0
<1>1. PICK n \in 0..Len(stream[Other(e)]) :
         stream' = [stream EXCEPT ![e] = << >>, ![Other(e)] = SubSeq(stream[Other(e)], 1, n)]
  BY <1>a, Zenon DEF Close
<1>2. Slice(SubSeq(stream[Other(e)], 1, n), stream[Other(e)], 0)
  BY Streams, PrefixIsSlice
<1>3. stream'[e] = << >> /\ stream'[Other(e)] = SubSeq(stream[Other(e)], 1, n)
  BY <1>1, Streams DEF WireTypeOK
<1>4. << >> \in Seq(Message)
  BY EmptySeq
<1>5. stream' \in [End -> Seq(Message)]
  BY <1>1, <1>2, <1>4, Streams DEF WireTypeOK, Slice
<1>6. up' \in [End -> BOOLEAN] /\ ~up'[e] /\ up'[Other(e)] = up[Other(e)]
  BY Streams DEF Close, WireTypeOK
<1> QED BY <1>2, <1>3, <1>5, <1>6 DEF Close, WireTypeOK, fixed

\* and the network drops the connection.
LEMMA CutWire ==
    ASSUME WireTypeOK, Cut
    PROVE  /\ WireTypeOK'
           /\ UNCHANGED <<up, bad, fixed>>
           /\ cut'
           /\ \A e \in End : Slice(stream'[e], stream[e], 0)
<1>1. PICK n \in 0..Len(stream["client"]), k \in 0..Len(stream["server"]) :
         stream' = [stream EXCEPT !["client"] = SubSeq(@, 1, n), !["server"] = SubSeq(@, 1, k)]
  BY DEF Cut
<1>2. stream["client"] \in Seq(Message) /\ stream["server"] \in Seq(Message)
  BY Streams DEF End
<1>3. /\ Slice(SubSeq(stream["client"], 1, n), stream["client"], 0)
      /\ Slice(SubSeq(stream["server"], 1, k), stream["server"], 0)
  BY <1>2, PrefixIsSlice
<1>4. /\ stream'["client"] = SubSeq(stream["client"], 1, n)
      /\ stream'["server"] = SubSeq(stream["server"], 1, k)
  BY <1>1 DEF WireTypeOK, End
<1>5. stream' \in [End -> Seq(Message)]
  BY <1>1, <1>3 DEF WireTypeOK, Slice, End
<1> QED BY <1>3, <1>4, <1>5 DEF Cut, WireTypeOK, fixed, End

-----------------------------------------------------------------------------
(* The connection *)

\* The calls whose request has not been written.
Fresh == {c \in Call : at[c] \in {"idle", "called", "header"}}

ClientMoves == (\E c \in Call : Calling(c) \/ Caller(c)) \/ Receiver \/ Closing
ServerMoves == Reader \/ \E c \in Call : Handler(c)

\* What a step of the client does to the connection.
ClientWire ==
    \/ UNCHANGED wireVars
    \/ stream["client"] # << >> /\ Read("client")
    \/ Close("client")
    \/ \E c \in Call : at[c] = "header" /\ at'[c] = "body" /\ Write("client", Msg("header", num[c], c))
    \/ \E c \in Call : Write("client", Msg("body", num[c], c))

\* A step is one side's, or takes from the connection alone.
LEMMA Movers ==
    ASSUME [Next]_vars
    PROVE  \/ ClientMoves /\ UNCHANGED serverVars
           \/ ServerMoves /\ UNCHANGED clientVars
           \/ Cut /\ UNCHANGED <<clientVars, serverVars>>
           \/ UNCHANGED vars
BY DEF Next, Environment, Program, Dropping, ClientMoves, ServerMoves

\* A step of the client reads, closes, or writes a message that may be written:
\* the header and then the body of a request, and nothing it has already sent.
LEMMA ClientEffects ==
    ASSUME ClientTypeOK, ClientMoves
    PROVE  ClientWire /\ Fresh' \subseteq Fresh
<1> USE DEF ClientWire, Fresh, callerVars
<1>1. ASSUME NEW c \in Call, Begin(c) \/ Proceed(c) PROVE ClientWire /\ Fresh' \subseteq Fresh
  <2>0. at \in [Call -> CallerPoints]
    BY DEF ClientTypeOK
  <2>1. CASE Begin(c) \/ Register(c) \/ Refuse(c) \/ SendSignal(c) \/ Unsend(c) \/ Take(c)
    BY <2>0, <2>1 DEF Begin, Register, Refuse, SendSignal, Unsend, Take
  <2>2. CASE WriteHeader(c) \/ WriteBody(c)
    BY <2>0, <2>2 DEF WriteHeader, WriteBody
  <2>3. CASE WriteFails(c)
    BY <2>0, <2>3 DEF WriteFails
  <2> QED BY <1>1, <2>1, <2>2, <2>3 DEF Proceed
<1>2. ASSUME NEW c \in Call, Turn(c) \/ MainTurn(c) PROVE ClientWire /\ Fresh' \subseteq Fresh
  <2>0. at \in [Call -> CallerPoints]
    BY DEF ClientTypeOK
  <2>1. CASE Turn(c) \/ PassOver(c) \/ Written(c) \/ WriteHeader(c) \/ WriteFails(c)
    BY <2>0, <2>1 DEF Turn, PassOver, Written, WriteHeader, WriteFails
  <2>2. CASE AnswerHeader(c) \/ AnswerBody(c)
    BY <2>0, <2>2 DEF AnswerHeader, AnswerBody, Arrived
  <2> QED BY <1>2, <2>1, <2>2 DEF MainTurn
<1>3. CASE Receiving \/ UserClose \/ Leave
  <2>1. UNCHANGED at
    BY <1>3 DEF Receiving, ReadHeader, ReadHeaderFails, ReadBody, ReadBodyFails, ReceiveSignal,
       Terminate, TerminateCall, TerminateReturn, UserClose, Leave
  <2>2. ClientWire
    BY <1>3 DEF Receiving, ReadHeader, ReadHeaderFails, ReadBody, ReadBodyFails, ReceiveSignal,
       Terminate, TerminateCall, TerminateReturn, UserClose, Leave, Arrived
  <2> QED BY <2>1, <2>2
<1> QED
  BY <1>1, <1>2, <1>3 DEF ClientMoves, Calling, Caller, Receiver, Closing, Main1, Proceed1, Go2,
     Go3, Send2, Send3, Write2, Write3, Call2, Call3, Receive2, Receive3, Read2, Read3,
     TerminateCalls2, TerminateCalls3, Close2, Close3, Proceed, Receiving

\* The calls whose request has been sent and which the server has not got to.
Unserved == {c \in Call \ Fresh : hat[c] = "none" /\ (sat = "body" => req # c)}

\* Each request is sent once, and handled once.
Requests ==
    LET s == stream["server"]
    IN /\ \A i \in 1..Len(s) : s[i].kind = "header" => s[i].call \in Unserved
       /\ \A i, j \in 1..Len(s) : s[i].kind = "header" /\ s[j].kind = "header" /\ s[i].call = s[j].call => i = j
       /\ sat \in {"body", "refusing"} => req \in Call
       /\ sat = "body" => hat[req] = "none" /\ req \notin Fresh
       /\ \A c \in Fresh : hat[c] = "none"

\* ResponsesWhole of any sequence.
Whole(s) ==
    \A i \in 1..Len(s) :
       /\ i < Len(s) /\ s[i].kind # "body" => s[i+1].kind = "body" /\ s[i+1].seq = s[i].seq
       /\ i > 1 /\ s[i].kind = "body" => s[i-1].kind # "body"

\* The handler with the lock is between the two messages of its response, the last
\* of which to have been sent is then the header.
Responses ==
    LET s == stream["client"]
    IN /\ Whole(s)
       /\ up["server"] => \A c \in Call : respLock = c <=> hat[c] \in {"resultBody", "errorBody"}
       /\ Writable /\ s # << >> =>
             IF respLock = Nil THEN s[Len(s)].kind = "body"
                               ELSE s[Len(s)].kind # "body" /\ s[Len(s)].seq = hseq[respLock]

WireInv == TypeOK /\ Requests /\ Responses

-----------------------------------------------------------------------------
(* Sequences of responses *)

\* What is left when messages are read, or when the last are lost, is still of
\* whole responses.
LEMMA SliceIsWhole ==
    ASSUME NEW s \in Seq(Message), NEW t, NEW k \in Nat, Slice(t, s, k), Whole(s)
    PROVE  Whole(t)
<1>1. Len(s) \in Nat /\ Len(t) \in Nat /\ Len(t) + k <= Len(s)
  BY LenProperties DEF Slice
<1> SUFFICES ASSUME NEW i \in 1..Len(t)
             PROVE  /\ i < Len(t) /\ t[i].kind # "body" => t[i+1].kind = "body" /\ t[i+1].seq = t[i].seq
                    /\ i > 1 /\ t[i].kind = "body" => t[i-1].kind # "body"
  BY DEF Whole
<1>2. i + k \in 1..Len(s) /\ t[i] = s[i + k]
  BY <1>1 DEF Slice
<1>3. CASE i < Len(t)
  <2>1. i + 1 \in 1..Len(t) /\ (i + k) + 1 = (i + 1) + k /\ i + k < Len(s)
    BY <1>1, <1>3
  <2>2. t[i + 1] = s[(i + k) + 1]
    BY <2>1 DEF Slice
  <2>3. /\ s[i+k].kind # "body" => s[(i+k)+1].kind = "body" /\ s[(i+k)+1].seq = s[i+k].seq
        /\ i + k > 1 /\ s[i+k].kind = "body" => s[(i+k)-1].kind # "body"
    BY <1>2, <2>1 DEF Whole
  <2>4. i > 1 => t[i - 1] = s[(i + k) - 1] /\ i + k > 1
    <3>1. i > 1 => i - 1 \in 1..Len(t) /\ (i + k) - 1 = (i - 1) + k
      BY <1>1
    <3> QED BY <1>1, <3>1 DEF Slice
  <2> QED BY <1>2, <2>2, <2>3, <2>4
<1>4. CASE ~(i < Len(t))
  <2>1. i > 1 => i - 1 \in 1..Len(t) /\ (i + k) - 1 = (i - 1) + k /\ i + k > 1
    BY <1>1
  <2>2. i > 1 => t[i - 1] = s[(i + k) - 1]
    BY <2>1 DEF Slice
  <2>3. i + k > 1 /\ s[i+k].kind = "body" => s[(i+k)-1].kind # "body"
    BY <1>2 DEF Whole
  <2> QED BY <1>2, <1>4, <2>1, <2>2, <2>3
<1> QED BY <1>3, <1>4

\* A header after a body, or the body of the last header, makes a whole sequence.
LEMMA AppendIsWhole ==
    ASSUME NEW s \in Seq(Message), NEW x \in Message, Whole(s),
           s # << >> => IF x.kind = "body" THEN s[Len(s)].kind # "body" /\ s[Len(s)].seq = x.seq
                                           ELSE s[Len(s)].kind = "body"
    PROVE  Whole(Append(s, x))
<1> DEFINE t == Append(s, x)
<1>1. /\ Len(s) \in Nat /\ Len(t) = Len(s) + 1
      /\ \A i \in 1..Len(s) : t[i] = s[i]
      /\ t[Len(s) + 1] = x
      /\ s # << >> => Len(s) >= 1
  BY LenProperties, AppendProperties, EmptySeq
<1>2. s = << >> => Len(s) = 0
  BY EmptySeq
<1> HIDE DEF t
<1> SUFFICES ASSUME NEW i \in 1..Len(t)
             PROVE  /\ i < Len(t) /\ t[i].kind # "body" => t[i+1].kind = "body" /\ t[i+1].seq = t[i].seq
                    /\ i > 1 /\ t[i].kind = "body" => t[i-1].kind # "body"
  BY DEF Whole, t
<1>3. CASE i < Len(s)
  <2>1. i \in 1..Len(s) /\ i + 1 \in 1..Len(s) /\ (i > 1 => i - 1 \in 1..Len(s))
    BY <1>1, <1>3
  <2>2. t[i] = s[i] /\ t[i+1] = s[i+1] /\ (i > 1 => t[i-1] = s[i-1])
    BY <1>1, <2>1
  <2> QED BY <1>3, <2>1, <2>2 DEF Whole
<1>4. CASE i = Len(s)
  <2>1. i \in 1..Len(s) /\ (i > 1 => i - 1 \in 1..Len(s)) /\ s # << >>
    BY <1>1, <1>2, <1>4
  <2>2. t[i] = s[i] /\ t[i+1] = x /\ (i > 1 => t[i-1] = s[i-1])
    BY <1>1, <1>4, <2>1
  <2> QED BY <1>4, <2>1, <2>2 DEF Whole
<1>5. CASE i = Len(s) + 1
  <2>1. t[i] = x /\ ~(i < Len(t)) /\ (i > 1 => i - 1 = Len(s) /\ Len(s) \in 1..Len(s) /\ s # << >>)
    BY <1>1, <1>2, <1>5
  <2> QED BY <1>1, <2>1
<1> QED BY <1>1, <1>3, <1>4, <1>5

\* Nothing has been sent at first.
LEMMA InitWireInv == Init => WireInv
<1> SUFFICES ASSUME Init PROVE WireInv
  OBVIOUS
<1> USE NamesAssumption, NilAssumption DEF Init
<1>0. /\ << >> \in Seq(Message) /\ Len(<< >>) = 0
      /\ Msg("option", 0, Nil) \in Message
  BY EmptySeq DEF Message, Msg
<1>1. /\ <<Msg("option", 0, Nil)>> \in Seq(Message)
      /\ Len(<<Msg("option", 0, Nil)>>) = 1
      /\ <<Msg("option", 0, Nil)>>[1] = Msg("option", 0, Nil)
  BY <1>0
<1>2. WireTypeOK
  <2>1. stream \in [End -> Seq(Message)]
    BY <1>0, <1>1 DEF WireInit
  <2> QED BY <2>1 DEF WireInit, WireTypeOK
<1>3. ClientTypeOK
  BY InitIInv DEF IInv
<1>4. ServerTypeOK
  BY DEF ServerInit, ServerTypeOK, ServerPoints, HandlerPoints
<1>5. stream["server"] = <<Msg("option", 0, Nil)>> /\ stream["client"] = << >>
  BY DEF WireInit, End
<1>6. Requests
  <2>1. \A i \in 1..Len(stream["server"]) : stream["server"][i].kind # "header"
    BY <1>1, <1>5 DEF Msg
  <2>2. \A c \in Fresh : hat[c] = "none"
    BY DEF Fresh, ServerInit
  <2> QED BY <2>1, <2>2 DEF Requests, ServerInit
<1>7. Responses
  <2>1. Whole(stream["client"])
    BY <1>0, <1>5 DEF Whole
  <2>2. \A c \in Call : ~(respLock = c)
    BY DEF ServerInit
  <2> QED BY <1>5, <2>1, <2>2 DEF Responses, ServerInit
<1> QED BY <1>2, <1>3, <1>4, <1>6, <1>7 DEF WireInv, TypeOK

\* What is left of a sequence was in it, in the same order.
LEMMA SliceElements ==
    ASSUME NEW s \in Seq(Message), NEW t, NEW k \in Nat, Slice(t, s, k)
    PROVE  \A i \in 1..Len(t) : i + k \in 1..Len(s) /\ t[i] = s[i + k]
<1>1. Len(s) \in Nat /\ Len(t) \in Nat
  BY LenProperties DEF Slice
<1> QED BY <1>1 DEF Slice

\* Requests are read or lost in their order; those that are left must still be unserved.
LEMMA KeepsRequests ==
    ASSUME WireTypeOK, Requests, NEW k \in Nat, Slice(stream'["server"], stream["server"], k),
           Fresh' \subseteq Fresh,
           \A i \in 1..Len(stream'["server"]) :
              stream'["server"][i].kind = "header" /\ stream'["server"][i].call \in Unserved
              => stream'["server"][i].call \in Unserved',
           sat' \in {"body", "refusing"} => req' \in Call,
           sat' = "body" => hat'[req'] = "none" /\ req' \notin Fresh,
           \A c \in Fresh : hat'[c] = "none"
    PROVE  Requests'
<1> DEFINE s == stream["server"]
           t == stream'["server"]
<1>1. \A i \in 1..Len(t) : i + k \in 1..Len(s) /\ t[i] = s[i + k]
  BY Streams, SliceElements DEF End
<1>2. \A i \in 1..Len(t) : t[i].kind = "header" => t[i].call \in Unserved'
  BY <1>1 DEF Requests
<1>3. \A i, j \in 1..Len(t) : t[i].kind = "header" /\ t[j].kind = "header" /\ t[i].call = t[j].call => i = j
  <2> TAKE i, j \in 1..Len(t)
  <2> HAVE t[i].kind = "header" /\ t[j].kind = "header" /\ t[i].call = t[j].call
  <2>1. i + k = j + k
    BY <1>1 DEF Requests
  <2>2. i \in Int /\ j \in Int
    OBVIOUS
  <2> QED BY <2>1, <2>2
<1> QED BY <1>2, <1>3 DEF Requests

\* The same, of the connection.
LEMMA SliceKeepsRequests ==
    ASSUME WireTypeOK, Requests, NEW k \in Nat, Slice(stream'["server"], stream["server"], k),
           UNCHANGED <<hat, req, sat>>, Fresh' \subseteq Fresh
    PROVE  Requests'
<1>1. Unserved \subseteq Unserved'
  BY DEF Unserved
<1>2. /\ sat \in {"body", "refusing"} => req \in Call
      /\ sat = "body" => hat[req] = "none" /\ req \notin Fresh
      /\ \A c \in Fresh : hat[c] = "none"
  BY DEF Requests
<1> QED BY <1>1, <1>2, KeepsRequests

\* A request that has not been sent may be.
LEMMA AppendKeepsRequests ==
    ASSUME WireTypeOK, Requests, NEW x \in Message, stream'["server"] = Append(stream["server"], x),
           UNCHANGED <<hat, req, sat>>, Fresh' \subseteq Fresh,
           x.kind = "header" => x.call \in Fresh /\ x.call \notin Fresh'
    PROVE  Requests'
<1> DEFINE s == stream["server"]
           t == stream'["server"]
<1>1. /\ s \in Seq(Message) /\ Len(s) \in Nat /\ Len(t) = Len(s) + 1
      /\ \A i \in 1..Len(s) : t[i] = s[i]
      /\ t[Len(s) + 1] = x
  BY Streams, AppendProperties DEF End
<1>2. Unserved \subseteq Unserved'
  BY DEF Unserved
<1>3. /\ \A i \in 1..Len(s) : s[i].kind = "header" => s[i].call \in Unserved
      /\ \A i, j \in 1..Len(s) : s[i].kind = "header" /\ s[j].kind = "header" /\ s[i].call = s[j].call => i = j
  BY DEF Requests
<1>4. x.kind = "header" => x.call \in Unserved' /\ x.call \notin Unserved
  <2> HAVE x.kind = "header"
  <2>1. x.call \in Fresh /\ x.call \notin Fresh' /\ x.call \in Call
    BY DEF Fresh
  <2>2. hat[x.call] = "none" /\ (sat = "body" => req # x.call)
    BY <2>1 DEF Requests
  <2> QED BY <2>1, <2>2 DEF Unserved
<1> HIDE DEF s, t
<1>5. \A i \in 1..Len(t) : i \in 1..Len(s) \/ i = Len(s) + 1
  BY <1>1
<1>6. \A i \in 1..Len(t) : t[i].kind = "header" => t[i].call \in Unserved'
  BY <1>1, <1>2, <1>3, <1>4, <1>5
<1>7. \A i, j \in 1..Len(t) : t[i].kind = "header" /\ t[j].kind = "header" /\ t[i].call = t[j].call => i = j
  BY <1>1, <1>3, <1>4, <1>5
<1> QED BY <1>6, <1>7 DEF t, Requests

\* The client sends the request of a call once.
LEMMA ClientKeepsRequests ==
    ASSUME WireInv, ClientMoves, UNCHANGED serverVars
    PROVE  WireTypeOK' /\ Requests'
<1>0. WireTypeOK /\ ClientTypeOK /\ Requests /\ UNCHANGED <<hat, req, sat>>
  BY DEF WireInv, TypeOK, serverVars
<1>1. ClientWire /\ Fresh' \subseteq Fresh
  BY <1>0, ClientEffects
<1>2. "client" \in End /\ Other("client") = "server" /\ stream["server"] \in Seq(Message)
  BY <1>0, Streams DEF End, Other
<1>3. CASE UNCHANGED wireVars
  <2>1. WireTypeOK'
    BY <1>0, <1>3 DEF WireTypeOK, wireVars, fixed
  <2>2. Slice(stream'["server"], stream["server"], 0)
    BY <1>0, <1>3, Streams DEF End, wireVars
  <2> QED BY <1>0, <1>1, <2>1, <2>2, SliceKeepsRequests
<1>4. CASE stream["client"] # << >> /\ Read("client")
  <2>1. WireTypeOK' /\ stream'["server"] = stream["server"]
    BY <1>0, <1>2, <1>4, ReadWire
  <2>2. Slice(stream'["server"], stream["server"], 0)
    BY <1>0, <2>1, Streams DEF End
  <2> QED BY <1>0, <1>1, <2>1, <2>2, SliceKeepsRequests
<1>5. CASE Close("client")
  <2>1. WireTypeOK' /\ Slice(stream'["server"], stream["server"], 0)
    BY <1>0, <1>2, <1>5, CloseWire
  <2> QED BY <1>0, <1>1, <2>1, SliceKeepsRequests
<1>6. ASSUME NEW c \in Call, NEW x \in Message, Write("client", x),
             x.kind = "header" => at[c] = "header" /\ at'[c] = "body" /\ x.call = c
      PROVE  WireTypeOK' /\ Requests'
  <2>1. /\ WireTypeOK'
        /\ IF Writable THEN stream'["server"] = Append(stream["server"], x)
                       ELSE stream'["server"] = stream["server"]
    BY <1>0, <1>2, <1>6, WriteWire
  <2>2. CASE Writable
    <3>1. x.kind = "header" => x.call \in Fresh /\ x.call \notin Fresh'
      BY <1>6 DEF Fresh
    <3>2. stream'["server"] = Append(stream["server"], x)
      BY <2>1, <2>2
    <3> QED BY <1>0, <1>1, <2>1, <3>1, <3>2, AppendKeepsRequests
  <2>3. CASE ~Writable
    <3>1. Slice(stream'["server"], stream["server"], 0)
      BY <1>0, <2>1, <2>3, Streams DEF End
    <3> QED BY <1>0, <1>1, <2>1, <3>1, SliceKeepsRequests
  <2> QED BY <2>2, <2>3
<1>7. ASSUME NEW c \in Call, at[c] = "header", at'[c] = "body", Write("client", Msg("header", num[c], c))
      PROVE  WireTypeOK' /\ Requests'
  <2>1. /\ Msg("header", num[c], c) \in Message
        /\ Msg("header", num[c], c).call = c
    BY <1>0 DEF Message, Msg, ClientTypeOK
  <2> QED BY <1>6, <1>7, <2>1
<1>8. ASSUME NEW c \in Call, Write("client", Msg("body", num[c], c))
      PROVE  WireTypeOK' /\ Requests'
  <2>1. /\ Msg("body", num[c], c) \in Message
        /\ Msg("body", num[c], c).kind # "header"
    BY <1>0 DEF Message, Msg, ClientTypeOK
  <2> QED BY <1>6, <1>8, <2>1
<1> QED BY <1>1, <1>3, <1>4, <1>5, <1>7, <1>8 DEF ClientWire

Writing == {"resultBody", "errorBody"}

\* Messages may be read, or lost for good, while no response is being written.
LEMMA SliceKeepsResponses ==
    ASSUME WireTypeOK, Responses, NEW k \in Nat, Slice(stream'["client"], stream["client"], k),
           Writable' => Writable /\ Len(stream'["client"]) + k = Len(stream["client"]),
           up'["server"] => /\ up["server"] /\ respLock' = respLock
                            /\ \A c \in Call : hat'[c] \in Writing <=> hat[c] \in Writing,
           Writable' /\ respLock # Nil => hseq'[respLock] = hseq[respLock]
    PROVE  Responses'
<1> DEFINE s == stream["client"]
           t == stream'["client"]
<1>1. /\ s \in Seq(Message) /\ Len(s) \in Nat
      /\ t \in Seq(Message) /\ Len(t) \in Nat
      /\ t # << >> => Len(t) \in 1..Len(t)
      /\ s = << >> => Len(s) = 0
  BY Streams, EmptySeq, LenProperties DEF End, Slice
<1>2. Whole(s)
  BY DEF Responses
<1>3. Whole(t)
  BY <1>1, <1>2, SliceIsWhole
<1>4. up'["server"] => \A c \in Call : respLock' = c <=> hat'[c] \in Writing
  BY DEF Responses, Writing
<1>5. ASSUME Writable', t # << >>
      PROVE  IF respLock' = Nil THEN t[Len(t)].kind = "body"
                                ELSE t[Len(t)].kind # "body" /\ t[Len(t)].seq = hseq'[respLock']
  <2>1. t[Len(t)] = s[Len(t) + k]
    BY <1>1, <1>5 DEF Slice
  <2>2. Len(t) + k = Len(s) /\ Writable /\ respLock' = respLock
    BY <1>5 DEF Writable
  <2>3. s # << >>
    BY <1>1, <1>5, <2>2
  <2>4. IF respLock = Nil THEN s[Len(s)].kind = "body"
                          ELSE s[Len(s)].kind # "body" /\ s[Len(s)].seq = hseq[respLock]
    BY <2>2, <2>3 DEF Responses
  <2> QED BY <1>5, <2>1, <2>2, <2>4
<1> QED BY <1>3, <1>4, <1>5 DEF Responses, Writing

\* What the client does reads the responses, or leaves them.
LEMMA ClientKeepsResponses ==
    ASSUME WireInv, ClientMoves, UNCHANGED serverVars
    PROVE  Responses'
<1>0. WireTypeOK /\ ClientTypeOK /\ Responses /\ UNCHANGED <<hat, hseq, respLock>>
  BY DEF WireInv, TypeOK, serverVars
<1>1. ClientWire
  BY <1>0, ClientEffects
<1>2. "client" \in End /\ Other("client") = "server" /\ stream["client"] \in Seq(Message)
  BY <1>0, Streams DEF End, Other
<1>3. ASSUME UNCHANGED <<up, cut>>, stream'["client"] = stream["client"] PROVE Responses'
  <2>1. Slice(stream'["client"], stream["client"], 0) /\ Len(stream["client"]) \in Nat
    BY <1>0, <1>3, Streams DEF End
  <2> QED BY <1>0, <1>3, <2>1, SliceKeepsResponses DEF Writable
<1>4. CASE UNCHANGED wireVars
  BY <1>3, <1>4 DEF wireVars
<1>5. CASE stream["client"] # << >> /\ Read("client")
  <2>1. /\ Slice(stream'["client"], stream["client"], 1)
        /\ Len(stream'["client"]) = Len(stream["client"]) - 1
        /\ UNCHANGED <<up, cut>>
    BY <1>0, <1>2, <1>5, ReadWire
  <2>2. Len(stream["client"]) \in Nat
    BY <1>0, <1>2, Streams
  <2>3. Len(stream'["client"]) + 1 = Len(stream["client"])
    BY <2>1, <2>2
  <2> QED BY <1>0, <2>1, <2>3, SliceKeepsResponses DEF Writable
<1>6. CASE Close("client")
  <2>1. ~up'["client"] /\ up'["server"] = up["server"] /\ stream'["client"] = << >>
    BY <1>0, <1>2, <1>6, CloseWire
  <2>2. Slice(stream'["client"], stream["client"], 0)
    BY <1>2, <2>1, EmptyIsSlice
  <2> QED BY <1>0, <2>1, <2>2, SliceKeepsResponses DEF Writable
<1>7. ASSUME NEW x \in Message, Write("client", x) PROVE Responses'
  <2>1. UNCHANGED <<up, cut>> /\ stream'["client"] = stream["client"]
    BY <1>0, <1>2, <1>7, WriteWire
  <2> QED BY <1>3, <2>1
<1>8. \A c \in Call : Msg("header", num[c], c) \in Message /\ Msg("body", num[c], c) \in Message
  BY <1>0 DEF Message, Msg, ClientTypeOK
<1> QED BY <1>1, <1>4, <1>5, <1>6, <1>7, <1>8 DEF ClientWire

\* The network loses the last messages, and the process its connection.
LEMMA NetworkKeepsWireInv ==
    ASSUME WireInv, Cut, UNCHANGED <<clientVars, serverVars>>
    PROVE  WireInv'
<1>0. WireTypeOK /\ ClientTypeOK /\ ServerTypeOK /\ Responses /\ Requests
  BY DEF WireInv, TypeOK
<1>1. WireTypeOK' /\ cut' /\ UNCHANGED up /\ \A e \in End : Slice(stream'[e], stream[e], 0)
  BY <1>0, CutWire
<1>2. "client" \in End /\ "server" \in End
  BY DEF End
<1>3. ClientTypeOK' /\ ServerTypeOK'
  BY <1>0 DEF ClientTypeOK, ServerTypeOK, clientVars, serverVars
<1>4. Requests'
  <2>1. Fresh' \subseteq Fresh /\ UNCHANGED <<hat, req, sat>>
    BY DEF Fresh, clientVars, serverVars
  <2> QED BY <1>0, <1>1, <1>2, <2>1, SliceKeepsRequests
<1>5. Responses'
  <2>1. UNCHANGED <<hat, respLock, hseq>> /\ ~Writable'
    BY <1>1 DEF serverVars, Writable
  <2> QED BY <1>0, <1>1, <1>2, <2>1, SliceKeepsResponses
<1> QED BY <1>1, <1>3, <1>4, <1>5 DEF WireInv, TypeOK

\* The header of a request is read: of no other request than the next, and one that
\* has not been handled.
LEMMA ReadsRequest ==
    ASSUME WireInv, Arrived("server", {"header"})
    PROVE  /\ Head1 \in Message
           /\ Head1.call \in Unserved /\ Head1.call \in Call /\ Head1.call \notin Fresh
           /\ hat[Head1.call] = "none"
           /\ respLock = Head1.call => ~up["server"]
           /\ Head1.seq \in Nat
           /\ Read("server") => \A i \in 1..Len(stream'["server"]) :
                 stream'["server"][i].kind = "header" => stream'["server"][i].call # Head1.call
<1>0. /\ WireTypeOK /\ Requests /\ stream["server"] # << >> /\ "server" \in End
      /\ Other("server") = "client"
  BY DEF WireInv, TypeOK, Arrived, End, Other
<1>1. Head1 = stream["server"][1] /\ 1 \in 1..Len(stream["server"])
  BY <1>0, Streams, EmptySeq DEF Head1
<1>2. Head1 \in Message /\ Head1.seq \in Nat /\ Head1.kind = "header"
  BY <1>0, <1>1, Streams DEF Arrived, Head1
<1>3. Head1.call \in Unserved
  BY <1>0, <1>1, <1>2 DEF Requests
<1>4. respLock = Head1.call => ~up["server"]
  BY <1>3 DEF Unserved, WireInv, Responses
<1>5. ASSUME Read("server"), NEW i \in 1..Len(stream'["server"]), stream'["server"][i].kind = "header"
      PROVE  stream'["server"][i].call # Head1.call
  <2>1. Slice(stream'["server"], stream["server"], 1)
    BY <1>0, <1>5, ReadWire
  <2>2. i + 1 \in 1..Len(stream["server"]) /\ stream'["server"][i] = stream["server"][i + 1]
    BY <1>0, <1>5, <2>1, Streams, SliceElements
  <2>3. i + 1 # 1
    BY <1>5
  <2> QED BY <1>0, <1>1, <1>2, <1>5, <2>2, <2>3 DEF Requests
<1> QED BY <1>2, <1>3, <1>4, <1>5 DEF Unserved

\* Steps that read, or do nothing to the connection.
LEMMA ReadingKeepsWireInv ==
    ASSUME WireInv, UNCHANGED clientVars,
           \/ ReadOption \/ ReadRequest \/ ReadUnknown \/ ReadRequestFails \/ ReadArgs \/ ReadArgsMisfit
           \/ ReadArgsFails \/ Refused \/ EchoRequest \/ EchoArgs
           \/ \E c \in Call : CallMethod(c) \/ Echo(c)
    PROVE  WireInv'
<1>0. /\ WireTypeOK /\ ServerTypeOK /\ ClientTypeOK /\ Requests /\ Responses
      /\ UNCHANGED at /\ "server" \in End /\ Other("server") = "client"
  BY DEF WireInv, TypeOK, clientVars, End, Other
<1>f. Fresh' \subseteq Fresh
  BY <1>0 DEF Fresh
<1>1. ClientTypeOK'
  BY <1>0 DEF ClientTypeOK, clientVars
<1>2. /\ WireTypeOK' /\ UNCHANGED <<up, cut>> /\ stream'["client"] = stream["client"]
      /\ \E k \in Nat : Slice(stream'["server"], stream["server"], k)
  <2>1. CASE ReadOption
    <3>1. PICK n \in 1..Len(stream["server"]) :
             stream' = [stream EXCEPT !["server"] = SubSeq(stream["server"], n + 1, Len(stream["server"]))]
      BY <2>1 DEF ReadOption
    <3>2. Slice(SubSeq(stream["server"], n + 1, Len(stream["server"])), stream["server"], n)
      BY <1>0, Streams, SuffixIsSlice
    <3>3. /\ stream'["server"] = SubSeq(stream["server"], n + 1, Len(stream["server"]))
          /\ stream'["client"] = stream["client"]
      BY <1>0, <3>1 DEF WireTypeOK, End
    <3>4. stream' \in [End -> Seq(Message)]
      BY <1>0, <3>1, <3>2 DEF WireTypeOK, Slice
    <3>5. n \in Nat
      BY <1>0, Streams
    <3> QED BY <1>0, <2>1, <3>2, <3>3, <3>4, <3>5 DEF ReadOption, WireTypeOK, fixed
  <2>2. ASSUME Read("server"), stream["server"] # << >>
        PROVE  /\ WireTypeOK' /\ UNCHANGED <<up, cut>> /\ stream'["client"] = stream["client"]
               /\ Slice(stream'["server"], stream["server"], 1)
    BY <1>0, <2>2, ReadWire
  <2>3. ASSUME UNCHANGED wireVars
        PROVE  /\ WireTypeOK' /\ UNCHANGED <<up, cut>> /\ stream'["client"] = stream["client"]
               /\ Slice(stream'["server"], stream["server"], 0)
    BY <1>0, <2>3, Streams DEF WireTypeOK, wireVars, fixed
  <2>4. ReadOption \/ (Read("server") /\ stream["server"] # << >>) \/ UNCHANGED wireVars
    BY DEF ReadRequest, ReadUnknown, ReadRequestFails, ReadArgs, ReadArgsMisfit,
           ReadArgsFails, Refused, EchoRequest, EchoArgs, CallMethod, Echo, Arrived
  <2> QED BY <2>1, <2>2, <2>3, <2>4
<1>3. PICK k \in Nat : Slice(stream'["server"], stream["server"], k)
  BY <1>2
<1>4. Slice(stream'["client"], stream["client"], 0) /\ Len(stream["client"]) \in Nat
  BY <1>0, <1>2, Streams DEF End
<1>5. (Writable' <=> Writable) /\ up'["server"] = up["server"]
  BY <1>2 DEF Writable
<1> DEFINE Rest ==
   /\ ServerTypeOK'
   /\ \A i \in 1..Len(stream'["server"]) :
            stream'["server"][i].kind = "header" /\ stream'["server"][i].call \in Unserved
            => stream'["server"][i].call \in Unserved'
   /\ sat' \in {"body", "refusing"} => req' \in Call
   /\ sat' = "body" => hat'[req'] = "none" /\ req' \notin Fresh
   /\ \A c \in Fresh : hat'[c] = "none"
   /\ \A c \in Call : hat'[c] \in Writing <=> hat[c] \in Writing
   /\ respLock' = respLock
   /\ respLock # Nil /\ up["server"] => hseq'[respLock] = hseq[respLock]
<1>6. SUFFICES Rest
  <2>1. Requests'
    BY <1>0, <1>3, <1>6, <1>f, KeepsRequests
  <2>2. Responses'
    <3>1. Len(stream'["client"]) + 0 = Len(stream["client"])
      BY <1>2, <1>4
    <3> QED BY <1>0, <1>4, <1>5, <1>6, <3>1, SliceKeepsResponses DEF Writable
  <2> QED BY <1>1, <1>2, <1>6, <2>1, <2>2 DEF WireInv, TypeOK
<1>t. /\ sat \in ServerPoints /\ req \in Call \cup {Nil} /\ garbled \in BOOLEAN
      /\ hat \in [Call -> HandlerPoints] /\ hseq \in [Call -> Nat]
      /\ respLock \in Call \cup {Nil} /\ runs \in [Call -> Nat]
  BY <1>0 DEF ServerTypeOK
<1>r. /\ sat \in {"body", "refusing"} => req \in Call
      /\ sat = "body" => hat[req] = "none" /\ req \notin Fresh
      /\ \A c \in Fresh : c \in Call /\ hat[c] = "none"
  BY <1>0 DEF Requests, Fresh
<1> USE DEF ServerPoints, HandlerPoints, Writing
<1>7. CASE ReadOption
  <2>1. /\ sat = "option" /\ sat' = "header" /\ garbled' \in BOOLEAN
        /\ UNCHANGED <<at, req, hat, hseq, respLock, runs>>
    BY <1>0, <1>7 DEF ReadOption
  <2> QED BY <1>t, <1>r, <2>1 DEF ServerTypeOK, Unserved, Fresh
<1>8. CASE ReadRequest \/ EchoRequest
  <2>1. /\ Arrived("server", {"header"}) /\ Read("server") /\ sat' = "body"
        /\ req' = Head1.call /\ hseq' = [hseq EXCEPT ![Head1.call] = Head1.seq]
        /\ UNCHANGED <<at, garbled, hat, respLock, runs>>
    BY <1>0, <1>8 DEF ReadRequest, EchoRequest
  <2>2. /\ Head1.call \in Call \ Fresh /\ hat[Head1.call] = "none" /\ Head1.seq \in Nat
        /\ respLock = Head1.call => ~up["server"]
        /\ \A i \in 1..Len(stream'["server"]) : stream'["server"][i].kind = "header" => stream'["server"][i].call # Head1.call
    BY <2>1, ReadsRequest
  <2>3. ServerTypeOK'
    BY <1>t, <2>1, <2>2 DEF ServerTypeOK
  <2>4. \A i \in 1..Len(stream'["server"]) :
           stream'["server"][i].kind = "header" /\ stream'["server"][i].call \in Unserved
           => stream'["server"][i].call \in Unserved'
    BY <2>1, <2>2 DEF Unserved, Fresh
  <2> QED BY <1>t, <1>r, <2>1, <2>2, <2>3, <2>4
<1>9. CASE ReadUnknown
  <2>1. /\ Arrived("server", {"header"}) /\ Read("server") /\ sat' = "refusing"
        /\ req' = Head1.call /\ hseq' = [hseq EXCEPT ![Head1.call] = Head1.seq]
        /\ hat' = [hat EXCEPT ![Head1.call] = "error"]
        /\ UNCHANGED <<at, garbled, respLock, runs>>
    BY <1>0, <1>9 DEF ReadUnknown
  <2>2. /\ Head1.call \in Call \ Fresh /\ hat[Head1.call] = "none" /\ Head1.seq \in Nat
        /\ respLock = Head1.call => ~up["server"]
        /\ \A i \in 1..Len(stream'["server"]) : stream'["server"][i].kind = "header" => stream'["server"][i].call # Head1.call
    BY <2>1, ReadsRequest
  <2>3. ServerTypeOK'
    BY <1>t, <2>1, <2>2 DEF ServerTypeOK
  <2>4. \A i \in 1..Len(stream'["server"]) :
           stream'["server"][i].kind = "header" /\ stream'["server"][i].call \in Unserved
           => stream'["server"][i].call \in Unserved'
    BY <1>t, <2>1, <2>2 DEF Unserved, Fresh
  <2> QED BY <1>t, <1>r, <2>1, <2>2, <2>3, <2>4
<1>10. CASE ReadRequestFails \/ Refused
  <2>1. /\ sat' \in {"drain", "header"} /\ req' \in {req, Nil}
        /\ UNCHANGED <<at, garbled, hat, hseq, respLock, runs>>
    BY <1>0, <1>10 DEF ReadRequestFails, Refused
  <2> QED BY <1>t, <1>r, <2>1 DEF ServerTypeOK, Unserved, Fresh
<1>11. CASE ReadArgs \/ ReadArgsMisfit \/ ReadArgsFails \/ EchoArgs
  <2>1. /\ sat = "body" /\ sat' \in {"header", "refusing"}
        /\ IF sat' = "header" THEN req' = Nil ELSE req' = req
        /\ UNCHANGED <<at, garbled, hseq, respLock, runs>>
        /\ \E h \in {"run", "error"} : hat' = [hat EXCEPT ![req] = h]
    BY <1>0, <1>11 DEF ReadArgs, ReadArgsMisfit, ReadArgsFails, EchoArgs
  <2>2. PICK h \in {"run", "error"} : hat' = [hat EXCEPT ![req] = h]
    BY <2>1
  <2>3. req \in Call \ Fresh /\ hat[req] = "none"
    BY <1>r, <2>1
  <2>4. ServerTypeOK'
    BY <1>t, <2>1, <2>2, <2>3 DEF ServerTypeOK
  <2>5. Unserved \subseteq Unserved'
    BY <1>t, <2>1, <2>2, <2>3 DEF Unserved, Fresh
  <2>6. \A c \in Call : c # req => hat'[c] = hat[c]
    BY <1>t, <2>2
  <2>7. hat'[req] \in {"run", "error"}
    BY <1>t, <2>2, <2>3
  <2> QED BY <1>t, <1>r, <2>1, <2>3, <2>4, <2>5, <2>6, <2>7
<1>12. ASSUME NEW c \in Call, CallMethod(c) \/ Echo(c)
       PROVE  Rest
  <2>1. /\ hat[c] = "run" /\ UNCHANGED <<at, sat, req, garbled, hseq, respLock>>
        /\ runs' = [runs EXCEPT ![c] = @ + 1]
        /\ \E h \in {"error", "result"} : hat' = [hat EXCEPT ![c] = h]
    BY <1>0, <1>12 DEF CallMethod, Echo
  <2>2. PICK h \in {"error", "result"} : hat' = [hat EXCEPT ![c] = h]
    BY <2>1
  <2>3. ServerTypeOK'
    BY <1>t, <2>1, <2>2 DEF ServerTypeOK
  <2>4. Unserved \subseteq Unserved'
    BY <1>t, <2>1, <2>2 DEF Unserved, Fresh
  <2>5. \A d \in Call : d # c => hat'[d] = hat[d]
    BY <1>t, <2>2
  <2>6. hat'[c] \in {"error", "result"}
    BY <1>t, <2>2
  <2>7. c \notin Fresh /\ (sat = "body" => req # c)
    BY <1>r, <2>1
  <2> QED BY <1>t, <1>r, <2>1, <2>3, <2>4, <2>5, <2>6, <2>7
<1> QED BY <1>7, <1>8, <1>9, <1>10, <1>11, <1>12

\* Steps that close the connection.
LEMMA ClosingKeepsWireInv ==
    ASSUME WireInv, UNCHANGED clientVars,
           \/ ReadOptionFails \/ ReadPanics \/ Drained
           \/ \E c \in Call : MethodPanics(c) \/ RespondFails(c)
    PROVE  WireInv'
<1>0. /\ WireTypeOK /\ ServerTypeOK /\ ClientTypeOK /\ Requests /\ Responses
      /\ UNCHANGED at /\ "server" \in End /\ Other("server") = "client"
  BY DEF WireInv, TypeOK, clientVars, End, Other
<1>f. Fresh' \subseteq Fresh
  BY <1>0 DEF Fresh
<1>1. ClientTypeOK'
  BY <1>0 DEF ClientTypeOK, clientVars
<1>2. Close("server")
  BY DEF ReadOptionFails, ReadPanics, Drained, MethodPanics, RespondFails, Die
<1>3. /\ WireTypeOK' /\ ~up'["server"] /\ stream'["server"] = << >>
      /\ Slice(stream'["client"], stream["client"], 0)
  BY <1>0, <1>2, CloseWire
<1>4. /\ Slice(stream'["server"], stream["server"], 0) /\ Len(stream'["server"]) = 0
  BY <1>0, <1>3, Streams, EmptyIsSlice, EmptySeq
<1>t. /\ sat \in ServerPoints /\ req \in Call \cup {Nil} /\ garbled \in BOOLEAN
      /\ hat \in [Call -> HandlerPoints] /\ hseq \in [Call -> Nat]
      /\ respLock \in Call \cup {Nil} /\ runs \in [Call -> Nat]
  BY <1>0 DEF ServerTypeOK
<1>r. /\ sat \in {"body", "refusing"} => req \in Call
      /\ sat = "body" => hat[req] = "none" /\ req \notin Fresh
      /\ \A c \in Fresh : c \in Call /\ hat[c] = "none"
  BY <1>0 DEF Requests, Fresh
<1> USE DEF ServerPoints, HandlerPoints
<1> DEFINE Rest == /\ ServerTypeOK'
                   /\ sat' \in {"body", "refusing"} => req' \in Call
                   /\ sat' = "body" => hat'[req'] = "none" /\ req' \notin Fresh
                   /\ \A c \in Fresh : hat'[c] = "none"
<1>5. Rest
  <2>1. CASE ReadOptionFails \/ Drained
    BY <1>t, <1>r, <2>1 DEF ReadOptionFails, Drained, ServerTypeOK
  <2>2. CASE ReadPanics
    BY <1>t, <1>r, <2>2 DEF ReadPanics, Die, ServerTypeOK, Fresh
  <2>3. ASSUME NEW c \in Call, MethodPanics(c) PROVE Rest
    BY <1>t, <1>r, <2>3 DEF MethodPanics, Die, ServerTypeOK, Fresh
  <2>4. ASSUME NEW c \in Call, RespondFails(c) PROVE Rest
    <3>1. /\ hat[c] # "none" /\ UNCHANGED <<sat, req, garbled, hseq, runs>>
          /\ hat' = [hat EXCEPT ![c] = "done"] /\ respLock' = Nil
      BY <2>4 DEF RespondFails
    <3>2. hat' \in [Call -> HandlerPoints] /\ \A d \in Call \ {c} : hat'[d] = hat[d]
      BY <1>t, <3>1
    <3> QED BY <1>t, <1>r, <3>1, <3>2 DEF ServerTypeOK
  <2> QED BY <2>1, <2>2, <2>3, <2>4
<1>6. Requests'
  <2>1. \A i \in 1..Len(stream'["server"]) : FALSE
    BY <1>4
  <2> QED BY <1>0, <1>4, <1>5, <2>1, <1>f, KeepsRequests
<1>7. Responses'
  BY <1>0, <1>3, SliceKeepsResponses DEF Writable
<1> QED BY <1>1, <1>3, <1>5, <1>6, <1>7 DEF WireInv, TypeOK

\* A message of a response is written, by the handler that may.
LEMMA WritingKeepsWireInv ==
    ASSUME WireInv, UNCHANGED clientVars, NEW c \in Call, RespondHeader(c) \/ RespondBody(c)
    PROVE  WireInv'
<1>0. /\ WireTypeOK /\ ServerTypeOK /\ ClientTypeOK /\ Requests /\ Responses
      /\ UNCHANGED at /\ "server" \in End /\ Other("server") = "client"
  BY DEF WireInv, TypeOK, clientVars, End, Other
<1>f. Fresh' \subseteq Fresh
  BY <1>0 DEF Fresh
<1>1. ClientTypeOK'
  BY <1>0 DEF ClientTypeOK, clientVars
<1>t. /\ sat \in ServerPoints /\ req \in Call \cup {Nil} /\ garbled \in BOOLEAN
      /\ hat \in [Call -> HandlerPoints] /\ hseq \in [Call -> Nat]
      /\ respLock \in Call \cup {Nil} /\ runs \in [Call -> Nat]
  BY <1>0 DEF ServerTypeOK
<1>2. PICK x \in Message :
         /\ Write("server", x) /\ x.seq = hseq[c]
         /\ \/ /\ hat[c] \in {"result", "error"} /\ respLock = Nil /\ respLock' = c /\ x.kind # "body"
               /\ \E h \in Writing : hat' = [hat EXCEPT ![c] = h]
            \/ /\ hat[c] \in Writing /\ respLock' = Nil /\ x.kind = "body"
               /\ hat' = [hat EXCEPT ![c] = "done"]
         /\ UNCHANGED <<sat, req, garbled, hseq, runs>>
  <2>1. CASE RespondHeader(c)
    <3>1. Msg(IF hat[c] = "result" THEN "header" ELSE "error", hseq[c], Nil) \in Message
      BY <1>t DEF Message, Msg
    <3> QED BY <2>1, <3>1 DEF RespondHeader, Msg, Writing
  <2>2. CASE RespondBody(c)
    <3>1. Msg("body", hseq[c], IF hat[c] = "resultBody" THEN c ELSE Nil) \in Message
      BY <1>t DEF Message, Msg
    <3> QED BY <2>2, <3>1 DEF RespondBody, Msg, Writing
  <2> QED BY <2>1, <2>2
<1>3. PICK h \in Writing \cup {"done"} : hat' = [hat EXCEPT ![c] = h]
              /\ (h \in Writing <=> respLock' = c) /\ respLock' \in {c, Nil}
  BY <1>2, NilAssumption DEF Writing
<1>4. /\ hat' \in [Call -> HandlerPoints] /\ hat'[c] = h /\ \A d \in Call \ {c} : hat'[d] = hat[d]
      /\ hat[c] # "none"
  BY <1>2, <1>3, <1>t DEF HandlerPoints, Writing
<1>5. ServerTypeOK'
  BY <1>2, <1>3, <1>4, <1>t DEF ServerTypeOK
<1>6. /\ WireTypeOK' /\ UNCHANGED <<up, cut>> /\ stream'["server"] = stream["server"]
      /\ IF Writable THEN stream'["client"] = Append(stream["client"], x)
                     ELSE stream'["client"] = stream["client"]
  BY <1>0, <1>2, WriteWire
<1>7. Requests'
  <2>1. Slice(stream'["server"], stream["server"], 0)
    BY <1>0, <1>6, Streams
  <2>2. Unserved \subseteq Unserved'
    BY <1>2, <1>4, <1>0 DEF Unserved, Fresh
  <2>3. /\ sat' \in {"body", "refusing"} => req' \in Call
        /\ sat' = "body" => hat'[req'] = "none" /\ req' \notin Fresh
        /\ \A d \in Fresh : hat'[d] = "none"
    BY <1>0, <1>2, <1>4 DEF Requests, Fresh
  <2> QED BY <1>0, <2>1, <2>2, <2>3, <1>f, KeepsRequests
<1>8. Responses'
  <2> DEFINE s == stream["client"]
             t == stream'["client"]
  <2>1. s \in Seq(Message) /\ t \in Seq(Message)
    BY <1>0, <1>6 DEF WireTypeOK, End
  <2>2. Whole(s) /\ (up["server"] => \A d \in Call : respLock = d <=> hat[d] \in Writing)
    BY <1>0 DEF Responses, Writing
  <2>3. up'["server"] => \A d \in Call : respLock' = d <=> hat'[d] \in Writing
    BY <1>2, <1>3, <1>4, <1>6, <2>2, NilAssumption DEF Writing
  <2>4. CASE ~Writable
    BY <1>6, <2>2, <2>3, <2>4 DEF Responses, Writable, Writing
  <2>5. CASE Writable
    <3>1. s # << >> => IF respLock = Nil THEN s[Len(s)].kind = "body"
                                         ELSE s[Len(s)].kind # "body" /\ s[Len(s)].seq = hseq[respLock]
      BY <1>0, <2>5 DEF Responses
    <3>2. hat[c] \in Writing => respLock = c
      BY <2>2, <2>5 DEF Writable
    <3>3. s # << >> => IF x.kind = "body" THEN s[Len(s)].kind # "body" /\ s[Len(s)].seq = x.seq
                                          ELSE s[Len(s)].kind = "body"
      BY <1>2, <3>1, <3>2, NilAssumption
    <3>4. t = Append(s, x)
      BY <1>6, <2>5
    <3>5. Whole(t)
      BY <2>1, <2>2, <3>3, <3>4, AppendIsWhole
    <3>6. t[Len(t)] = x
      BY <2>1, <3>4, AppendProperties, LenProperties
    <3>7. IF respLock' = Nil THEN x.kind = "body" ELSE x.kind # "body" /\ x.seq = hseq'[respLock']
      BY <1>2, NilAssumption
    <3> QED BY <2>3, <3>5, <3>6, <3>7 DEF Responses, Writing
  <2> QED BY <2>4, <2>5
<1> QED BY <1>1, <1>5, <1>6, <1>7, <1>8 DEF WireInv, TypeOK

\* The program of day 1 keeps to the types of the client.
LEMMA MainKeepsTypes ==
    ASSUME TypeOK, NEW c \in Call, Turn(c) \/ MainTurn(c) \/ Leave
    PROVE  ClientTypeOK'
<1>1. ClientTypeOK /\ WireTypeOK
  BY DEF TypeOK
<1> USE <1>1 DEF ClientTypeOK, unused, signalVars, CallerPoints, ReceiverPoints
<1>2. CASE Turn(c) \/ PassOver(c) \/ Written(c) \/ WriteHeader(c) \/ WriteFails(c) \/ AnswerHeader(c) \/ Leave
  <2>1. seq + 1 \in Nat
    OBVIOUS
  <2> QED BY ZenonT(30), <1>2, <2>1 DEF Turn, PassOver, Written, WriteHeader, WriteFails, AnswerHeader, Leave,
             receiverVars
<1>3. CASE AnswerBody(c)
  <2>1. PICK o \in Errors \cup Call \cup {Nil} : outcome' = [outcome EXCEPT ![c] = o]
    <3>1. CASE Arrived("client", {"body"}) /\ outcome' = [outcome EXCEPT ![c] = Head(stream["client"]).call]
      <4>1. Head(stream["client"]) = stream["client"][1] /\ 1 \in 1..Len(stream["client"])
        BY <3>1, Streams, EmptySeq DEF Arrived, End
      <4>2. Head(stream["client"]).call \in Call \cup {Nil}
        BY <4>1, Streams DEF End
      <4> QED BY <3>1, <4>2
    <3>2. CASE outcome' = [outcome EXCEPT ![c] = "empty"]
      BY <3>2 DEF Errors
    <3> QED BY <1>3, <3>1, <3>2 DEF AnswerBody
  <2>2. outcome' \in [Call -> Errors \cup Call \cup {Nil}]
    BY <2>1
  <2> QED BY <1>3, <2>2 DEF AnswerBody
<1> QED BY <1>2, <1>3 DEF MainTurn

\* WireInv is inductive.
LEMMA NextKeepsWireInv ==
    ASSUME WireInv, DayInv, [Next]_vars
    PROVE  WireInv'
<1>1. CASE ClientMoves /\ UNCHANGED serverVars
  <2>1. WireTypeOK' /\ Requests' /\ Responses'
    BY <1>1, ClientKeepsRequests, ClientKeepsResponses
  <2>2. ServerTypeOK'
    BY <1>1 DEF WireInv, TypeOK, ServerTypeOK, serverVars
  <2>3. ClientTypeOK'
    <3>1. CASE day = 1
      <4>1. (\E c \in Call : Turn(c) \/ MainTurn(c)) \/ Leave
        BY <1>1, <3>1 DEF ClientMoves, Calling, Caller, Receiver, Closing, Main1, Proceed1
      <4>2. CASE Leave
        BY <4>2 DEF Leave, unused, signalVars, ClientTypeOK, WireInv, TypeOK
      <4> QED BY <4>1, <4>2, MainKeepsTypes DEF WireInv
    <3>2. CASE day # 1
      <4>1. DayInv' /\ day' = day
        BY KeepsDayInv, DayStays
      <4> QED BY <3>2, <4>1 DEF DayInv, IInv
    <3> QED BY <3>1, <3>2
  <2> QED BY <2>1, <2>2, <2>3 DEF WireInv, TypeOK
<1>2. CASE ServerMoves /\ UNCHANGED clientVars
  <2>1. ASSUME NEW c \in Call, RespondHeader(c) \/ RespondBody(c) PROVE WireInv'
    BY <1>2, <2>1, WritingKeepsWireInv
  <2>2. CASE \/ ReadOptionFails \/ ReadPanics \/ Drained
             \/ \E c \in Call : MethodPanics(c) \/ RespondFails(c)
    BY <1>2, <2>2, ClosingKeepsWireInv
  <2>3. CASE \/ ReadOption \/ ReadRequest \/ ReadUnknown \/ ReadRequestFails \/ ReadArgs \/ ReadArgsMisfit
             \/ ReadArgsFails \/ Refused \/ EchoRequest \/ EchoArgs
             \/ \E c \in Call : CallMethod(c) \/ Echo(c)
    BY <1>2, <2>3, ReadingKeepsWireInv
  <2> QED BY <1>2, <2>1, <2>2, <2>3 DEF ServerMoves, Reader, Handler, ServerConn1, ServerConn2,
             ServerConn3, ReadRequest1, ReadRequest2, ReadRequest3, FindService3, ServerCodec1,
             ServerCodec2, ServerCodec3, HandleRequest1, HandleRequest2, HandleRequest3, Respond
<1>3. CASE Cut /\ UNCHANGED <<clientVars, serverVars>>
  BY <1>3, NetworkKeepsWireInv
<1>4. CASE UNCHANGED vars
  <2>1. UNCHANGED <<clientVars, serverVars, wireVars>>
    BY <1>4 DEF vars
  <2>2. TypeOK'
    BY ZenonT(30), <2>1 DEF clientVars, serverVars, wireVars, fixed, receiverVars, signalVars, WireInv, TypeOK,
       WireTypeOK, ClientTypeOK, ServerTypeOK
  <2>3. Fresh' = Fresh /\ Unserved' = Unserved /\ (Writable' <=> Writable)
    BY <2>1 DEF clientVars, serverVars, wireVars, Fresh, Unserved, Writable
  <2>4. UNCHANGED <<stream, up, hat, req, sat, hseq, respLock>>
    BY <2>1 DEF serverVars, wireVars
  <2>5. Requests'
    BY <2>3, <2>4 DEF WireInv, Requests
  <2>6. Responses'
    BY <2>3, <2>4 DEF WireInv, Responses, Whole
  <2> QED BY <2>2, <2>5, <2>6 DEF WireInv
<1> QED BY <1>1, <1>2, <1>3, <1>4, Movers

\* So it holds in every state that can be reached.
LEMMA WireInvariance == Spec => [](WireInv /\ DayInv)
BY InitWireInv, InitDayInv, NextKeepsWireInv, KeepsDayInv, PTL DEF Spec

\* The variables of client, server and connection keep to their types, with any number
\* of calls and on any of the three days.
THEOREM TypeCorrect == Spec => []TypeOK
<1>1. WireInv => TypeOK
  BY DEF WireInv
<1> QED BY <1>1, WireInvariance, PTL

\* Handlers that finish in any order write their responses one at a time: the header of
\* one is followed by its own body (sending, server.go).
THEOREM ResponsesAreWhole == Spec => []ResponsesWhole
<1>1. WireInv => ResponsesWhole
  BY DEF WireInv, Responses, Whole, ResponsesWhole
<1> QED BY <1>1, WireInvariance, PTL

-----------------------------------------------------------------------------
(* Client and server, as GeeRpc composes them, are RemoteCall's calls *)

\* Calls of one client have numbers of their own, and what the server has of a
\* request is the number of its call.
Numbers ==
    LET s == stream["server"]
    IN /\ \A c \in Call : num[c] < seq
       /\ \A c \in Call : at[c] = "header" \/ c \in pending \/ c = hand => num[c] # 0
       /\ \A c, d \in Call : num[c] # 0 /\ num[c] = num[d] => c = d
       /\ \A i \in 1..Len(s) : s[i].kind = "header" => s[i].seq = num[s[i].call] /\ s[i].seq # 0
       /\ \A c \in Call : hat[c] # "none" => hseq[c] = num[c] /\ num[c] # 0
       /\ sat = "body" => hseq[req] = num[req] /\ num[req] # 0

\* A method runs once, and before the result is there.
Executions ==
    /\ \A c \in Call : /\ runs[c] \in {0, 1}
                       /\ sat # "dead" /\ hat[c] \in {"none", "run"} => runs[c] = 0
                       /\ hat[c] \in {"result", "resultBody"} => runs[c] = 1
    /\ \A c \in Fresh : runs[c] = 0
    /\ sat = "dead" => \A c \in Call : hat[c] = "none"

\* A result is under the number of its call; the body that is next for receive is the
\* one of the call in its hands; no caller has another's result.
Results ==
    LET s == stream["client"]
    IN /\ \A i \in 1..Len(s) : s[i].kind = "body" /\ s[i].call \in Call =>
             runs[s[i].call] = 1 /\ s[i].seq = num[s[i].call] /\ s[i].seq # 0
       /\ rat = "body" /\ hand # Nil =>
             IF s # << >> THEN s[1].kind = "body" /\ s[1].seq = num[hand]
                          ELSE Writable => respLock # Nil /\ hseq[respLock] = num[hand]
       /\ \A c \in Call : outcome[c] \in Call => outcome[c] = c /\ runs[c] = 1

\* What is in a channel is there once, completed, and not taken yet.
Channels ==
    /\ \A d \in taken : IF day = 1 THEN at[d] = "back" ELSE signals[d] = 1
    /\ \A x \in Chan : \A i \in 1..Len(chan[x]) :
          /\ signals[chan[x][i]] = 1 /\ chan[x][i] \notin taken
          /\ \A y \in Chan : \A j \in 1..Len(chan[y]) : chan[y][j] = chan[x][i] => y = x /\ j = i

\* The program of day 1 makes one call after another: as long as it can read, what
\* there is on either way is of the call it waits for.
InTurn ==
    LET s == stream["client"]
        r == stream["server"]
    IN day = 1 =>
         /\ hand = Nil /\ sat # "dead"
         /\ \A c \in Call : hat[c] \notin {"error", "errorBody"}
         /\ \A c, d \in Call : at[c] \notin {"idle", "back"} /\ at[d] \notin {"idle", "back"} => c = d
         /\ up["client"] /\ (s # << >> \/ Writable) => \A c \in Call : at[c] = "back" =>
               /\ hat[c] \in {"none", "done"}
               /\ sat = "body" => req # c
               /\ \A i \in 1..Len(r) : r[i].kind = "header" => r[i].call # c
               /\ \A i \in 1..Len(s) : s[i].kind = "body" => s[i].call # c
         /\ \A i \in 1..Len(s) : s[i].kind = "body" => s[i].call \in Call /\ hat[s[i].call] = "done"
         /\ \A i, j \in 1..Len(s) : s[i].kind = "body" /\ s[j].kind = "body" /\ s[i].call = s[j].call => i = j

RemoteInv == Numbers /\ Executions /\ Results /\ Channels /\ InTurn

\* The steps of the server's side of the connection.
ReaderActions == \/ ReadOption \/ ReadRequest \/ ReadUnknown \/ ReadRequestFails \/ ReadArgs \/ ReadArgsMisfit
                 \/ ReadArgsFails \/ Refused \/ EchoRequest \/ EchoArgs
                 \/ ReadOptionFails \/ ReadPanics \/ Drained
HandlerActions(c) == \/ CallMethod(c) \/ Echo(c) \/ MethodPanics(c) \/ RespondFails(c)
                     \/ RespondHeader(c) \/ RespondBody(c)

-----------------------------------------------------------------------------
(* The steps of each side *)

\* The steps of the server are those of its functions,
LEMMA ServerActions ==
    ASSUME ServerMoves
    PROVE  ReaderActions \/ \E c \in Call : HandlerActions(c)
BY DEF ServerMoves, Reader, Handler, ServerConn1, ServerConn2, ServerConn3, ReadRequest1,
   ReadRequest2, ReadRequest3, FindService3, ServerCodec1, ServerCodec2, ServerCodec3,
   HandleRequest1, HandleRequest2, HandleRequest3, Respond, ReaderActions, HandlerActions

\* and so are those of the client: of the program of day 1, or of RpcClient's.
LEMMA ClientActions ==
    ASSUME ClientMoves
    PROVE  IF day = 1 THEN Leave \/ \E c \in Call : Turn(c) \/ MainTurn(c)
                      ELSE Receiving \/ UserClose \/ \E c \in Call : Begin(c) \/ Proceed(c)
BY DEF ClientMoves, Calling, Caller, Receiver, Closing, Main1, Proceed1, Go2, Go3, Send2, Send3,
   Write2, Write3, Call2, Call3, Receive2, Receive3, Read2, Read3, TerminateCalls2, TerminateCalls3,
   Close2, Close3, Proceed, Receiving

\* What the server's steps do to what is on its way.
LEMMA ServerStreams ==
    ASSUME WireInv, ServerMoves
    PROVE  /\ \E k \in Nat : Slice(stream'["server"], stream["server"], k)
           /\ \/ UNCHANGED <<up, cut>> /\ stream'["client"] = stream["client"]
              \/ ~up'["server"] /\ up'["client"] = up["client"] /\ stream'["server"] = << >>
                 /\ Slice(stream'["client"], stream["client"], 0)
              \/ \E c \in Call : /\ RespondHeader(c) \/ RespondBody(c)
                                 /\ UNCHANGED <<up, cut>> /\ stream'["server"] = stream["server"]
<1>0. /\ WireTypeOK /\ ServerTypeOK /\ "server" \in End /\ Other("server") = "client"
      /\ Nil \in Call \cup {Nil}
  BY DEF WireInv, TypeOK, End, Other
<1>1. CASE ReadOption
  <3>1. PICK n \in 1..Len(stream["server"]) :
           stream' = [stream EXCEPT !["server"] = SubSeq(stream["server"], n + 1, Len(stream["server"]))]
    BY <1>1 DEF ReadOption
  <3>2. Slice(SubSeq(stream["server"], n + 1, Len(stream["server"])), stream["server"], n)
    BY <1>0, Streams, SuffixIsSlice
  <3>3. /\ stream'["server"] = SubSeq(stream["server"], n + 1, Len(stream["server"]))
        /\ stream'["client"] = stream["client"]
    BY <1>0, <3>1 DEF WireTypeOK, End
  <3>5. n \in Nat
    BY <1>0, Streams
  <3> QED BY <1>1, <3>2, <3>3, <3>5 DEF ReadOption
<1>2. ASSUME Read("server"), stream["server"] # << >>
      PROVE  /\ UNCHANGED <<up, cut>> /\ stream'["client"] = stream["client"]
             /\ Slice(stream'["server"], stream["server"], 1)
  BY <1>0, <1>2, ReadWire
<1>3. ASSUME UNCHANGED wireVars
      PROVE  /\ UNCHANGED <<up, cut>> /\ stream'["client"] = stream["client"]
             /\ Slice(stream'["server"], stream["server"], 0)
  BY <1>0, <1>3, Streams DEF wireVars
<1>4. ASSUME Close("server")
      PROVE  /\ ~up'["server"] /\ up'["client"] = up["client"] /\ stream'["server"] = << >>
             /\ Slice(stream'["client"], stream["client"], 0) /\ Slice(stream'["server"], stream["server"], 0)
  <2>1. /\ ~up'["server"] /\ up'["client"] = up["client"] /\ stream'["server"] = << >>
        /\ Slice(stream'["client"], stream["client"], 0)
    BY <1>0, <1>4, CloseWire
  <2> QED BY <1>0, <2>1, Streams, EmptyIsSlice
<1>5. ASSUME NEW c \in Call, RespondHeader(c) \/ RespondBody(c)
      PROVE  /\ UNCHANGED <<up, cut>> /\ stream'["server"] = stream["server"]
             /\ Slice(stream'["server"], stream["server"], 0)
  <2>1. \E x \in Message : Write("server", x)
    <3>1. hseq[c] \in Nat
      BY <1>0 DEF ServerTypeOK
    <3>2. CASE RespondHeader(c)
      <4>1. Msg(IF hat[c] = "result" THEN "header" ELSE "error", hseq[c], Nil) \in Message
        BY <3>1 DEF Message, Msg
      <4> QED BY <3>2, <4>1 DEF RespondHeader
    <3>3. CASE RespondBody(c)
      <4>1. Msg("body", hseq[c], IF hat[c] = "resultBody" THEN c ELSE Nil) \in Message
        BY <3>1 DEF Message, Msg
      <4> QED BY <3>3, <4>1 DEF RespondBody
    <3> QED BY <1>5, <3>2, <3>3
  <2>2. UNCHANGED <<up, cut>> /\ stream'["server"] = stream["server"]
    BY <1>0, <2>1, WriteWire
  <2> QED BY <1>0, <2>2, Streams
<1>6. \/ ReadOption \/ (Read("server") /\ stream["server"] # << >>) \/ UNCHANGED wireVars \/ Close("server")
      \/ \E c \in Call : RespondHeader(c) \/ RespondBody(c)
  BY ServerActions DEF ReaderActions, HandlerActions,
     ReadRequest, ReadUnknown, ReadRequestFails, ReadArgs, ReadArgsMisfit,
     ReadArgsFails, Refused, EchoRequest, EchoArgs, CallMethod, Echo, Arrived,
     ReadOptionFails, ReadPanics, Drained, MethodPanics, RespondFails, Die
<1> QED BY <1>1, <1>2, <1>3, <1>4, <1>5, <1>6

-----------------------------------------------------------------------------
(* A call has a number of its own *)

\* The server takes the number of a request from its header.
LEMMA ServerKeepsNumbers ==
    ASSUME WireInv, Numbers, ServerMoves, UNCHANGED clientVars
    PROVE  Numbers'
<1>0. /\ WireTypeOK /\ ServerTypeOK /\ Requests /\ UNCHANGED <<num, seq, at, pending, hand>>
      /\ stream["server"] \in Seq(Message)
  BY Streams DEF WireInv, TypeOK, clientVars, receiverVars, End
<1>t. sat \in ServerPoints /\ hat \in [Call -> HandlerPoints] /\ hseq \in [Call -> Nat]
  BY <1>0 DEF ServerTypeOK
<1>1. \A i \in 1..Len(stream'["server"]) : stream'["server"][i].kind = "header" =>
         stream'["server"][i].seq = num[stream'["server"][i].call] /\ stream'["server"][i].seq # 0
  <2>1. PICK k \in Nat : Slice(stream'["server"], stream["server"], k)
    BY ServerStreams
  <2> QED BY SMTT(40), <1>0, <2>1, SliceElements DEF Numbers
<1>2. (\A c \in Call : hat'[c] # "none" => hseq'[c] = num[c] /\ num[c] # 0)
      /\ (sat' = "body" => hseq'[req'] = num[req'] /\ num[req'] # 0)
  <2>0. /\ \A c \in Call : hat[c] # "none" => hseq[c] = num[c] /\ num[c] # 0
        /\ sat = "body" => hseq[req] = num[req] /\ num[req] # 0 /\ req \in Call
    BY <1>0 DEF Numbers, Requests
  <2>1. CASE ReadRequest \/ EchoRequest \/ ReadUnknown
    <3>1. /\ Arrived("server", {"header"}) /\ sat' \in {"body", "refusing"}
          /\ req' = Head1.call /\ hseq' = [hseq EXCEPT ![Head1.call] = Head1.seq]
          /\ hat' = hat \/ hat' = [hat EXCEPT ![Head1.call] = "error"]
      BY <2>1 DEF ReadRequest, EchoRequest, ReadUnknown
    <3>2. Head1.call \in Call
      BY <3>1, ReadsRequest
    <3>3. Head1 = stream["server"][1] /\ 1 \in 1..Len(stream["server"]) /\ Head1.kind = "header"
      BY <1>0, <3>1, LenProperties, EmptySeq DEF Head1, Arrived
    <3>4. Head1.seq = num[Head1.call] /\ Head1.seq # 0
      BY <3>3 DEF Numbers
    <3> QED BY <1>t, <2>0, <3>1, <3>2, <3>4
  <2>2. CASE ReadArgs \/ ReadArgsMisfit \/ ReadArgsFails \/ EchoArgs
    <3>1. /\ sat = "body" /\ sat' # "body" /\ UNCHANGED hseq
          /\ \E h \in {"run", "error"} : hat' = [hat EXCEPT ![req] = h]
      BY <2>2 DEF ReadArgs, ReadArgsMisfit, ReadArgsFails, EchoArgs
    <3>2. \A c \in Call : hat'[c] # "none" => hat[c] # "none" \/ c = req
      BY <1>t, <3>1
    <3> QED BY <1>t, <2>0, <3>1, <3>2
  <2>3. CASE \/ ReadOption \/ ReadRequestFails \/ Refused \/ ReadOptionFails \/ ReadPanics \/ Drained
    BY <1>t, <2>0, <2>3 DEF ReadOption, ReadRequestFails, Refused, ReadOptionFails, ReadPanics,
       Drained, Die
  <2>4. ASSUME NEW c \in Call, HandlerActions(c)
        PROVE  (\A d \in Call : hat'[d] # "none" => hseq'[d] = num[d] /\ num[d] # 0)
               /\ (sat' = "body" => hseq'[req'] = num[req'] /\ num[req'] # 0)
    <3>1. /\ UNCHANGED <<hseq, req>> /\ sat' \in {sat, "dead"} /\ hat[c] # "none"
          /\ \/ hat' = [d \in Call |-> "none"]
             \/ \E h \in HandlerPoints : hat' = [hat EXCEPT ![c] = h]
      BY <2>4 DEF HandlerActions, CallMethod, Echo, MethodPanics, RespondFails, RespondHeader,
         RespondBody, Die, HandlerPoints
    <3>2. \A d \in Call : hat'[d] # "none" => hat[d] # "none"
      BY <1>t, <3>1
    <3> QED BY <2>0, <3>1, <3>2
  <2> QED BY <2>1, <2>2, <2>3, <2>4, ServerActions DEF ReaderActions
<1> QED BY <1>0, <1>1, <1>2 DEF Numbers

\* A call gets the next number, or no call gets a number.
NumberGiven(c) == /\ at[c] \in {"idle", "called"}
                  /\ at' = [at EXCEPT ![c] = "header"]
                  /\ num' = [num EXCEPT ![c] = seq] /\ seq' = seq + 1
                  /\ pending' \in {pending, pending \cup {c}}
                  /\ hand' = hand
                  /\ UNCHANGED wireVars
NumbersStay == /\ UNCHANGED <<num, seq>>
               /\ \A c \in Call : /\ at'[c] = "header" => at[c] = "header"
                                  /\ c \in pending' \/ c = hand' => c \in pending \/ c = hand

\* A step of the client gives one call the next number, or none.
LEMMA ClientNumbers ==
    ASSUME ClientTypeOK, ClientMoves
    PROVE  NumbersStay \/ \E c \in Call : NumberGiven(c)
<1>0. at \in [Call -> CallerPoints] /\ Nil \notin Call
  BY NilAssumption DEF ClientTypeOK
<1>1. ASSUME NEW c \in Call, Begin(c) \/ Proceed(c) PROVE NumbersStay \/ NumberGiven(c)
  <2>1. CASE Register(c)
    BY <2>1 DEF Register, NumberGiven, receiverVars
  <2>2. CASE Begin(c) \/ Refuse(c) \/ WriteHeader(c) \/ WriteBody(c) \/ WriteFails(c) \/ SendSignal(c) \/ Take(c)
    <3>1. UNCHANGED <<num, seq, pending, hand>>
      BY <2>2 DEF Begin, Refuse, WriteHeader, WriteBody, WriteFails, SendSignal, Take, receiverVars
    <3>2. \A d \in Call : at'[d] = "header" => at[d] = "header"
      BY <1>0, <2>2 DEF Begin, Refuse, WriteHeader, WriteBody, WriteFails, SendSignal, Take
    <3> QED BY <3>1, <3>2 DEF NumbersStay
  <2>3. CASE Unsend(c)
    BY <1>0, <2>3 DEF Unsend, NumbersStay, receiverVars
  <2> QED BY <1>1, <2>1, <2>2, <2>3 DEF Proceed
<1>2. ASSUME NEW c \in Call, Turn(c) \/ MainTurn(c) PROVE NumbersStay \/ NumberGiven(c)
  <2>1. CASE Turn(c)
    BY <2>1 DEF Turn, NumberGiven, unused
  <2>2. CASE MainTurn(c)
    <3>1. UNCHANGED <<num, seq, pending, hand>>
      BY <2>2 DEF MainTurn, WriteHeader, Written, WriteFails, PassOver, AnswerHeader, AnswerBody,
         unused, receiverVars
    <3>2. \A d \in Call : at'[d] = "header" => at[d] = "header"
      BY <1>0, <2>2 DEF MainTurn, WriteHeader, Written, WriteFails, PassOver, AnswerHeader,
         AnswerBody
    <3> QED BY <3>1, <3>2 DEF NumbersStay
  <2> QED BY <1>2, <2>1, <2>2
<1>3. CASE Receiving \/ UserClose \/ Leave
  <2>1. UNCHANGED <<num, seq, at>>
    BY <1>3 DEF Receiving, ReadHeader, ReadHeaderFails, ReadBody, ReadBodyFails, ReceiveSignal,
       Terminate, TerminateCall, TerminateReturn, UserClose, Leave, callerVars
  <2>2. \A c \in Call : c \in pending' \/ c = hand' => c \in pending \/ c = hand
    BY <1>0, <1>3 DEF Receiving, ReadHeader, ReadHeaderFails, ReadBody, ReadBodyFails,
       ReceiveSignal, Terminate, TerminateCall, TerminateReturn, UserClose, Leave, callerVars,
       receiverVars, unused, PendingAt
  <2> QED BY <2>1, <2>2 DEF NumbersStay
<1> QED
  BY <1>1, <1>2, <1>3, ClientActions DEF Receiving

\* The client numbers its calls upwards, and writes the number it has given.
LEMMA ClientKeepsNumbers ==
    ASSUME WireInv, Numbers, ClientMoves, UNCHANGED serverVars
    PROVE  Numbers'
<1> DEFINE s == stream["server"]
           t == stream'["server"]
<1>0. /\ WireTypeOK /\ ClientTypeOK /\ Requests /\ UNCHANGED <<sat, req, hat, hseq>>
      /\ num \in [Call -> Nat] /\ seq \in Nat /\ at \in [Call -> CallerPoints]
      /\ s \in Seq(Message)
  BY Streams DEF WireInv, TypeOK, ClientTypeOK, serverVars, End
<1>n. /\ \A c \in Call : num[c] < seq
      /\ \A c \in Call : at[c] = "header" \/ c \in pending \/ c = hand => num[c] # 0
      /\ \A c, d \in Call : num[c] # 0 /\ num[c] = num[d] => c = d
      /\ \A i \in 1..Len(s) : s[i].kind = "header" => s[i].seq = num[s[i].call] /\ s[i].seq # 0
      /\ \A c \in Call : hat[c] # "none" => hseq[c] = num[c] /\ num[c] # 0
      /\ sat = "body" => hseq[req] = num[req] /\ num[req] # 0
  BY DEF Numbers
<1>r. /\ \A i \in 1..Len(s) : s[i].kind = "header" => s[i].call \in Call \ Fresh
      /\ sat = "body" => req \in Call \ Fresh
      /\ \A c \in Fresh : hat[c] = "none"
  BY <1>0 DEF Requests, Unserved
<1>1. ASSUME NEW c \in Call, NumberGiven(c) PROVE Numbers'
  <2>1. /\ c \in Fresh /\ num' = [num EXCEPT ![c] = seq] /\ seq' = seq + 1 /\ t = s
        /\ at' = [at EXCEPT ![c] = "header"] /\ pending' \subseteq pending \cup {c} /\ hand' = hand
    BY <1>1 DEF NumberGiven, Fresh, wireVars
  <2>2. seq # 0 /\ num'[c] = seq /\ \A d \in Call \ {c} : num'[d] = num[d] /\ at'[d] = at[d]
    BY <1>0, <1>n, <2>1
  <2>3. \A d \in Call : num'[d] < seq'
    BY <1>0, <1>n, <2>1, <2>2
  <2>4. \A d, e \in Call : num'[d] # 0 /\ num'[d] = num'[e] => d = e
    BY <1>0, <1>n, <2>2
  <2>5. \A d \in Call : at'[d] = "header" \/ d \in pending' \/ d = hand' => num'[d] # 0
    BY <1>n, <2>1, <2>2
  <2>6. \A i \in 1..Len(t) : t[i].kind = "header" => t[i].seq = num'[t[i].call] /\ t[i].seq # 0
    BY <1>n, <1>r, <2>1, <2>2
  <2>7. /\ \A d \in Call : hat[d] # "none" => hseq[d] = num'[d] /\ num'[d] # 0
        /\ sat = "body" => hseq[req] = num'[req] /\ num'[req] # 0
    BY <1>n, <1>r, <2>1, <2>2
  <2> QED BY <1>0, <2>3, <2>4, <2>5, <2>6, <2>7 DEF Numbers
<1>2. CASE NumbersStay
  <2>1. \A i \in 1..Len(t) : t[i].kind = "header" => t[i].seq = num[t[i].call] /\ t[i].seq # 0
    <3>1. ASSUME NEW k \in Nat, Slice(t, s, k)
          PROVE  \A i \in 1..Len(t) : t[i].kind = "header" => t[i].seq = num[t[i].call] /\ t[i].seq # 0
      BY SMTT(20), <1>0, <1>n, <3>1, SliceElements
    <3>2. ASSUME NEW x \in Message, Write("client", x), x.kind = "header" => x.seq = num[x.call] /\ x.seq # 0
          PROVE  \A i \in 1..Len(t) : t[i].kind = "header" => t[i].seq = num[t[i].call] /\ t[i].seq # 0
      <4>1. "client" \in End /\ Other("client") = "server"
        BY DEF End, Other
      <4>2. t = Append(s, x) \/ t = s
        BY <1>0, <3>2, <4>1, WriteWire
      <4>3. CASE t = Append(s, x)
        <5>1. /\ Len(s) \in Nat /\ Len(t) = Len(s) + 1
              /\ \A i \in 1..Len(s) : t[i] = s[i]
              /\ t[Len(s) + 1] = x
          BY <1>0, <4>3, AppendProperties, LenProperties
        <5> HIDE DEF s, t
        <5>2. \A i \in 1..Len(t) : i \in 1..Len(s) \/ i = Len(s) + 1
          BY <5>1
        <5> QED BY <1>n, <3>2, <5>1, <5>2 DEF s, t
      <4> QED BY <1>n, <4>2, <4>3
    <3>3. ClientWire
      BY <1>0, ClientEffects
    <3>4. CASE UNCHANGED wireVars
      BY <1>n, <3>4 DEF wireVars
    <3>5. CASE stream["client"] # << >> /\ Read("client")
      BY <1>0, <1>n, <3>5, ReadWire DEF End, Other
    <3>6. CASE Close("client")
      <4>1. Slice(t, s, 0)
        BY <1>0, <3>6, CloseWire DEF End, Other
      <4> QED BY <3>1, <4>1
    <3>7. ASSUME NEW c \in Call, at[c] = "header", Write("client", Msg("header", num[c], c))
          PROVE  \A i \in 1..Len(t) : t[i].kind = "header" => t[i].seq = num[t[i].call] /\ t[i].seq # 0
      <4>1. /\ Msg("header", num[c], c) \in Message
            /\ Msg("header", num[c], c).seq = num[c] /\ Msg("header", num[c], c).call = c
            /\ num[c] # 0
        BY <1>0, <1>n, <3>7 DEF Msg, Message
      <4> QED BY <3>2, <3>7, <4>1
    <3>8. ASSUME NEW c \in Call, Write("client", Msg("body", num[c], c))
          PROVE  \A i \in 1..Len(t) : t[i].kind = "header" => t[i].seq = num[t[i].call] /\ t[i].seq # 0
      <4>1. /\ Msg("body", num[c], c) \in Message /\ Msg("body", num[c], c).kind # "header"
        BY <1>0 DEF Msg, Message
      <4> QED BY <3>2, <3>8, <4>1
    <3> QED BY <3>3, <3>4, <3>5, <3>6, <3>7, <3>8 DEF ClientWire
  <2> QED BY <1>0, <1>n, <1>2, <2>1 DEF Numbers, NumbersStay
<1> QED BY <1>0, <1>1, <1>2, ClientNumbers

\* Numbers is inductive.
LEMMA NextKeepsNumbers ==
    ASSUME WireInv, Numbers, [Next]_vars
    PROVE  Numbers'
<1>1. CASE ClientMoves /\ UNCHANGED serverVars
  BY <1>1, ClientKeepsNumbers
<1>2. CASE ServerMoves /\ UNCHANGED clientVars
  BY <1>2, ServerKeepsNumbers
<1>3. ASSUME UNCHANGED <<clientVars, serverVars>>, NEW k \in Nat, Slice(stream'["server"], stream["server"], k) PROVE Numbers'
  <2>1. UNCHANGED <<num, seq, at, pending, hand, sat, req, hat, hseq>>
    BY <1>3 DEF clientVars, serverVars
  <2>2. \A i \in 1..Len(stream'["server"]) : stream'["server"][i].kind = "header" =>
         stream'["server"][i].seq = num[stream'["server"][i].call] /\ stream'["server"][i].seq # 0
    BY SMTT(40), <1>3, Streams, SliceElements DEF Numbers, WireInv, TypeOK, End
  <2> QED BY <2>1, <2>2 DEF Numbers
<1>4. CASE Cut /\ UNCHANGED <<clientVars, serverVars>>
  BY <1>3, <1>4, CutWire DEF WireInv, TypeOK, End
<1>5. CASE UNCHANGED vars
  <2>1. Slice(stream'["server"], stream["server"], 0) /\ UNCHANGED <<clientVars, serverVars>>
    BY <1>5, Streams DEF WireInv, TypeOK, End, vars, wireVars
  <2> QED BY <1>3, <2>1
<1> QED BY <1>1, <1>2, <1>4, <1>5, Movers

-----------------------------------------------------------------------------
(* A call is executed once *)

\* Executions is inductive: a request that has not been handled has not been executed.
LEMMA NextKeepsExecutions ==
    ASSUME WireInv, Executions, [Next]_vars
    PROVE  Executions'
<1>0. /\ ServerTypeOK /\ ClientTypeOK /\ Requests
      /\ sat \in ServerPoints /\ hat \in [Call -> HandlerPoints] /\ runs \in [Call -> Nat]
  BY DEF WireInv, TypeOK, ServerTypeOK
<1>e. /\ \A c \in Call : /\ runs[c] \in {0, 1}
                         /\ sat # "dead" /\ hat[c] \in {"none", "run"} => runs[c] = 0
                         /\ hat[c] \in {"result", "resultBody"} => runs[c] = 1
      /\ \A c \in Fresh : runs[c] = 0 /\ hat[c] = "none"
      /\ sat = "dead" => \A c \in Call : hat[c] = "none"
      /\ sat = "body" => hat[req] = "none" /\ req \in Call
  BY <1>0 DEF Executions, Requests
<1>1. ASSUME UNCHANGED <<sat, hat, runs>>, Fresh' \subseteq Fresh PROVE Executions'
  BY <1>e, <1>1 DEF Executions
<1>2. CASE ClientMoves /\ UNCHANGED serverVars
  <2>1. Fresh' \subseteq Fresh /\ UNCHANGED <<sat, hat, runs>>
    BY <1>0, <1>2, ClientEffects DEF serverVars
  <2> QED BY <1>1, <2>1
<1>3. ASSUME UNCHANGED <<clientVars, serverVars>> PROVE Executions'
  BY <1>1, <1>3 DEF clientVars, serverVars, Fresh
<1>4. CASE ServerMoves /\ UNCHANGED clientVars
  <2>0. Fresh' = Fresh
    BY <1>4 DEF clientVars, Fresh
  <2>1. ASSUME UNCHANGED runs, NEW c \in Call, NEW h \in {"none", "run", "error"}, hat' = [hat EXCEPT ![c] = h],
               sat # "dead", sat' # "dead", hat[c] = "none"
        PROVE  Executions'
    <3>1. hat'[c] = h /\ \A d \in Call \ {c} : hat'[d] = hat[d]
      BY <1>0, <2>1
    <3> QED BY <1>e, <2>0, <2>1, <3>1 DEF Executions
  <2>2. CASE ReadRequest \/ EchoRequest \/ ReadOption \/ ReadRequestFails \/ Refused \/ ReadOptionFails \/ Drained
    <3>1. UNCHANGED <<hat, runs>> /\ sat # "dead" /\ sat' # "dead"
      BY <2>2 DEF ReadRequest, EchoRequest, ReadOption, ReadRequestFails, Refused, ReadOptionFails,
         Drained
    <3> QED BY <1>e, <2>0, <3>1 DEF Executions
  <2>3. CASE ReadUnknown
    <3>1. /\ Arrived("server", {"header"}) /\ sat = "header" /\ sat' = "refusing" /\ UNCHANGED runs
          /\ hat' = [hat EXCEPT ![Head1.call] = "error"]
      BY <2>3 DEF ReadUnknown
    <3>2. Head1.call \in Call /\ hat[Head1.call] = "none"
      BY <3>1, ReadsRequest
    <3> QED BY <2>1, <3>1, <3>2
  <2>4. CASE ReadArgs \/ ReadArgsMisfit \/ ReadArgsFails \/ EchoArgs
    <3>1. /\ sat = "body" /\ sat' # "dead" /\ UNCHANGED runs
          /\ \E h \in {"run", "error"} : hat' = [hat EXCEPT ![req] = h]
      BY <2>4 DEF ReadArgs, ReadArgsMisfit, ReadArgsFails, EchoArgs
    <3> QED BY <1>e, <2>1, <3>1
  <2>5. CASE ReadPanics
    BY <1>e, <2>0, <2>5 DEF Executions, ReadPanics, Die
  <2>6. ASSUME NEW c \in Call, CallMethod(c) \/ Echo(c) PROVE Executions'
    <3>1. /\ hat[c] = "run" /\ UNCHANGED sat /\ runs' = [runs EXCEPT ![c] = runs[c] + 1]
          /\ \E h \in {"error", "result"} : hat' = [hat EXCEPT ![c] = h]
      BY <2>6 DEF CallMethod, Echo
    <3>2. hat'[c] \in {"error", "result"} /\ \A d \in Call \ {c} : hat'[d] = hat[d]
      BY <1>0, <3>1
    <3>3. sat # "dead" /\ runs[c] = 0 /\ c \notin Fresh
      BY <1>e, <3>1
    <3>4. runs'[c] = 1 /\ \A d \in Call \ {c} : runs'[d] = runs[d]
      BY <1>0, <3>1, <3>3
    <3>5. \A d \in Fresh : d \in Call \ {c}
      BY <3>3 DEF Fresh
    <3> QED BY <1>e, <2>0, <3>1, <3>2, <3>3, <3>4, <3>5 DEF Executions
  <2>7. ASSUME NEW c \in Call, MethodPanics(c) PROVE Executions'
    <3>1. /\ hat[c] = "run" /\ sat' = "dead" /\ runs' = [runs EXCEPT ![c] = runs[c] + 1]
          /\ hat' = [d \in Call |-> "none"]
      BY <2>7 DEF MethodPanics, Die
    <3>3. runs[c] = 0 /\ c \notin Fresh
      BY <1>e, <3>1
    <3>4. runs'[c] = 1 /\ \A d \in Call \ {c} : runs'[d] = runs[d]
      BY <1>0, <3>1, <3>3
    <3>5. \A d \in Fresh : d \in Call \ {c}
      BY <3>3 DEF Fresh
    <3> QED BY <1>e, <2>0, <3>1, <3>4, <3>5 DEF Executions
  <2>8. ASSUME NEW c \in Call, RespondHeader(c) \/ RespondBody(c) \/ RespondFails(c) PROVE Executions'
    <3>1. /\ UNCHANGED <<sat, runs>> /\ hat[c] \notin {"none", "run"}
          /\ \/ hat[c] = "result" /\ hat' = [hat EXCEPT ![c] = "resultBody"]
             \/ \E h \in {"errorBody", "done"} : hat' = [hat EXCEPT ![c] = h]
      BY <2>8 DEF RespondHeader, RespondBody, RespondFails
    <3>2. \A d \in Call \ {c} : hat'[d] = hat[d]
      BY <1>0, <3>1
    <3>3. hat'[c] \in {"errorBody", "done"} \/ (hat'[c] = "resultBody" /\ hat[c] = "result")
      BY <1>0, <3>1
    <3>4. /\ sat # "dead" /\ hat'[c] \notin {"none", "run"}
          /\ (hat'[c] \in {"result", "resultBody"} => runs[c] = 1)
      BY <1>e, <3>1, <3>2, <3>3
    <3>5. \A d \in Call : /\ sat' # "dead" /\ hat'[d] \in {"none", "run"} => runs'[d] = 0
                          /\ hat'[d] \in {"result", "resultBody"} => runs'[d] = 1
      BY <1>e, <3>1, <3>2, <3>3, <3>4
    <3> QED BY <1>e, <2>0, <3>1, <3>4, <3>5 DEF Executions
  <2> QED BY <1>4, <2>2, <2>3, <2>4, <2>5, <2>6, <2>7, <2>8, ServerActions DEF ReaderActions,
             HandlerActions
<1>5. CASE Cut /\ UNCHANGED <<clientVars, serverVars>>
  BY <1>3, <1>5
<1>6. CASE UNCHANGED vars
  BY <1>3, <1>6 DEF vars
<1> QED BY <1>2, <1>4, <1>5, <1>6, Movers

\* A step of the server executes at most a call that was not, and keeps the lock
\* as it is unless it writes, or closes the connection.

-----------------------------------------------------------------------------
(* A result is that of its own call *)

\* No execution is undone.
LEMMA ServerKeepsRuns ==
    ASSUME WireInv, Executions, ServerMoves
    PROVE  \A c \in Call : runs[c] = 1 => runs'[c] = 1
<1>0. runs \in [Call -> Nat] /\ sat \in ServerPoints
  BY DEF WireInv, TypeOK, ServerTypeOK
<1>1. ASSUME NEW c \in Call, CallMethod(c) \/ Echo(c) \/ MethodPanics(c)
      PROVE  \A d \in Call : runs[d] = 1 => runs'[d] = 1
  <2>1. hat[c] = "run" /\ runs' = [runs EXCEPT ![c] = @ + 1]
    BY <1>1 DEF CallMethod, Echo, MethodPanics
  <2>2. runs[c] = 0
    BY <2>1 DEF Executions
  <2> QED BY <1>0, <2>1, <2>2
<1>2. \/ UNCHANGED runs
      \/ \E c \in Call : CallMethod(c) \/ Echo(c) \/ MethodPanics(c)
  BY ServerActions DEF ReaderActions, HandlerActions, ReadOption, ReadRequest, ReadUnknown,
     ReadRequestFails, ReadArgs, ReadArgsMisfit, ReadArgsFails, Refused, EchoRequest, EchoArgs,
     ReadOptionFails, ReadPanics, Drained, RespondHeader, RespondBody, RespondFails, Die
<1> QED BY <1>1, <1>2

\* While the connection stands the lock is passed on by those who write alone.
LEMMA ServerKeepsLock ==
    ASSUME WireInv, ServerMoves, Writable', respLock # Nil
    PROVE  \/ \E c \in Call : RespondHeader(c) \/ RespondBody(c)
           \/ respLock' = respLock /\ hseq'[respLock] = hseq[respLock]
<1>0. /\ WireTypeOK /\ ServerTypeOK /\ hseq \in [Call -> Nat] /\ respLock \in Call
      /\ "server" \in End /\ up'["server"]
  BY DEF WireInv, TypeOK, ServerTypeOK, End, Writable
<1>1. ~Close("server")
  BY <1>0, CloseWire
<1>2. CASE ReadRequest \/ EchoRequest \/ ReadUnknown
  <2>1. /\ Arrived("server", {"header"}) /\ hseq' = [hseq EXCEPT ![Head1.call] = Head1.seq] /\ UNCHANGED respLock
    BY <1>2 DEF ReadRequest, EchoRequest, ReadUnknown
  <2>2. Head1.call \in Call /\ up["server"] /\ respLock # Head1.call
    BY <2>1, ReadsRequest DEF Arrived
  <2> QED BY <1>0, <2>1, <2>2
<1>3. CASE \/ ReadOption \/ ReadRequestFails \/ ReadArgs \/ ReadArgsMisfit \/ ReadArgsFails \/ Refused \/ EchoArgs
           \/ \E c \in Call : CallMethod(c) \/ Echo(c)
  <2>1. UNCHANGED <<respLock, hseq>>
    BY <1>3 DEF ReadOption, ReadRequestFails, ReadArgs, ReadArgsMisfit, ReadArgsFails, Refused,
       EchoArgs, CallMethod, Echo
  <2> QED BY <2>1
<1>4. ~ReadOptionFails /\ ~ReadPanics /\ ~Drained /\ \A c \in Call : ~MethodPanics(c) /\ ~RespondFails(c)
  BY <1>1 DEF ReadOptionFails, ReadPanics, Drained, MethodPanics, RespondFails, Die
<1> QED BY <1>2, <1>3, <1>4, ServerActions DEF ReaderActions, HandlerActions

\* What the server writes is under the number of the call it is of.
LEMMA ServerKeepsResults ==
    ASSUME WireInv, Numbers, Executions, Results, ServerMoves, UNCHANGED clientVars
    PROVE  Results'
<1> DEFINE s == stream["client"]
           t == stream'["client"]
<1>0. /\ WireTypeOK /\ ServerTypeOK /\ ClientTypeOK /\ UNCHANGED <<num, rat, hand, outcome>>
      /\ s \in Seq(Message) /\ Len(s) \in Nat /\ "server" \in End /\ Other("server") = "client"
      /\ hat \in [Call -> HandlerPoints] /\ hseq \in [Call -> Nat] /\ hand \in Call \cup {Nil}
  BY Streams DEF WireInv, TypeOK, ServerTypeOK, ClientTypeOK, clientVars, receiverVars, End, Other
<1>k. \A c \in Call : runs[c] = 1 => runs'[c] = 1
  BY ServerKeepsRuns
<1>s. /\ \A i \in 1..Len(s) : s[i].kind = "body" /\ s[i].call \in Call =>
             runs[s[i].call] = 1 /\ s[i].seq = num[s[i].call] /\ s[i].seq # 0
      /\ rat = "body" /\ hand # Nil =>
             IF s # << >> THEN s[1].kind = "body" /\ s[1].seq = num[hand]
                          ELSE Writable => respLock # Nil /\ hseq[respLock] = num[hand]
  BY DEF Results
<1>o. \A c \in Call : outcome'[c] \in Call => outcome'[c] = c /\ runs'[c] = 1
  BY <1>0, <1>k DEF Results
<1> DEFINE Rest == /\ \A i \in 1..Len(t) : t[i].kind = "body" /\ t[i].call \in Call =>
                         runs'[t[i].call] = 1 /\ t[i].seq = num[t[i].call] /\ t[i].seq # 0
                   /\ rat = "body" /\ hand # Nil =>
                         IF t # << >> THEN t[1].kind = "body" /\ t[1].seq = num[hand]
                                      ELSE Writable' => respLock' # Nil /\ hseq'[respLock'] = num[hand]
<1>1. SUFFICES Rest
  BY <1>0, <1>o, <1>1 DEF Results
<1>2. ASSUME UNCHANGED <<up, cut>>, t = s, ~Writable \/ ~\E c \in Call : RespondHeader(c) \/ RespondBody(c)
      PROVE  Rest
  <2>1. Writable' => Writable
    BY <1>2 DEF Writable
  <2>2. Writable' /\ respLock # Nil => respLock' = respLock /\ hseq'[respLock] = hseq[respLock]
    BY <1>2, <2>1, ServerKeepsLock
  <2>3. \A i \in 1..Len(t) : t[i].kind = "body" /\ t[i].call \in Call =>
           runs'[t[i].call] = 1 /\ t[i].seq = num[t[i].call] /\ t[i].seq # 0
    BY <1>k, <1>s, <1>2
  <2> HIDE DEF s, t
  <2> QED BY <1>s, <1>2, <2>1, <2>2, <2>3
<1>3. ASSUME Slice(t, s, 0), ~up'["server"] PROVE Rest
  <2>1. \A i \in 1..Len(t) : i + 0 = i /\ i \in 1..Len(s) /\ t[i] = s[i]
    <3>1. \A i \in 1..Len(t) : i + 0 = i
      BY <1>3, LenProperties DEF Slice
    <3> QED BY <1>0, <1>3, <3>1, SliceElements
  <2>2. t # << >> => 1 \in 1..Len(t) /\ s # << >>
    BY <1>0, <1>3, <2>1, EmptySeq, LenProperties DEF Slice
  <2>3. ~Writable'
    BY <1>3 DEF Writable
  <2> HIDE DEF s, t
  <2> QED BY <1>k, <1>s, <2>1, <2>2, <2>3
<1>4. ASSUME NEW c \in Call, RespondHeader(c) \/ RespondBody(c), UNCHANGED <<up, cut>>, Writable PROVE Rest
  <2>0. /\ \A d \in Call : respLock = d <=> hat[d] \in Writing
        /\ hat[c] # "none" /\ hseq[c] = num[c] /\ num[c] # 0 /\ hseq[c] \in Nat
        /\ hat[c] = "resultBody" => runs[c] = 1
    <3>1. hat[c] # "none"
      BY <1>4 DEF RespondHeader, RespondBody
    <3> QED BY <1>0, <1>4, <3>1 DEF WireInv, Responses, Writing, Writable, Numbers, Executions
  <2>1. PICK x \in Message :
           /\ Write("server", x) /\ x.seq = hseq[c]
           /\ IF x.kind = "body" THEN respLock = c /\ x.call \in {c, Nil} /\ (x.call = c => hat[c] = "resultBody")
                                 ELSE respLock = Nil /\ respLock' = c
           /\ UNCHANGED hseq
    <3>1. CASE RespondHeader(c)
      <4>1. Msg(IF hat[c] = "result" THEN "header" ELSE "error", hseq[c], Nil) \in Message
        BY <2>0 DEF Message, Msg
      <4> QED BY <3>1, <4>1 DEF RespondHeader, Msg
    <3>2. CASE RespondBody(c)
      <4>1. Msg("body", hseq[c], IF hat[c] = "resultBody" THEN c ELSE Nil) \in Message
        BY <2>0 DEF Message, Msg
      <4>2. respLock = c
        BY <2>0, <3>2 DEF RespondBody, Writing
      <4> QED BY <3>2, <4>1, <4>2, NilAssumption DEF RespondBody, Msg
    <3> QED BY <1>4, <3>1, <3>2
  <2>2. t = Append(s, x)
    BY <1>0, <1>4, <2>1, WriteWire
  <2>3. /\ Len(t) = Len(s) + 1
        /\ \A i \in 1..Len(s) : t[i] = s[i]
        /\ t[Len(s) + 1] = x
        /\ t # << >>
    BY <1>0, <2>2, AppendProperties
  <2>4. /\ s = << >> => Len(s) = 0
        /\ s # << >> => 1 \in 1..Len(s)
    BY <1>0, EmptySeq
  <2> HIDE DEF s, t
  <2>5. \A i \in 1..Len(t) : i \in 1..Len(s) \/ i = Len(s) + 1
    BY <1>0, <2>3
  <2>6. \A i \in 1..Len(t) : t[i].kind = "body" /\ t[i].call \in Call =>
           runs'[t[i].call] = 1 /\ t[i].seq = num[t[i].call] /\ t[i].seq # 0
    <3>1. x.kind = "body" /\ x.call \in Call => runs'[x.call] = 1 /\ x.seq = num[x.call] /\ x.seq # 0
      BY <1>k, <2>0, <2>1, NilAssumption
    <3> QED BY <1>k, <1>s, <2>3, <2>5, <3>1
  <2>7. rat = "body" /\ hand # Nil => t[1].kind = "body" /\ t[1].seq = num[hand]
    <3>1. CASE s # << >>
      BY <1>s, <2>3, <2>4, <3>1
    <3>2. CASE s = << >>
      <4>1. t[1] = x
        BY <2>3, <2>4, <3>2
      <4> QED BY <1>s, <1>4, <2>1, <3>2, <4>1
    <3> QED BY <3>1, <3>2
  <2>8. rat = "body" /\ hand # Nil => IF t # << >> THEN t[1].kind = "body" /\ t[1].seq = num[hand]
                                      ELSE Writable' => respLock' # Nil /\ hseq'[respLock'] = num[hand]
    BY <2>3, <2>7
  <2> QED BY <2>6, <2>8
<1> HIDE DEF Rest
<1>5. ASSUME NEW c \in Call, RespondHeader(c) \/ RespondBody(c), ~Writable PROVE t = s
  <2>1. \E x \in Message : Write("server", x)
    <3>1. \A k \in {"header", "error", "body"}, d \in Call \cup {Nil} : Msg(k, hseq[c], d) \in Message
      BY <1>0 DEF Message, Msg
    <3>2. CASE RespondHeader(c)
      BY <3>1, <3>2 DEF RespondHeader
    <3>3. CASE RespondBody(c)
      BY <3>1, <3>3 DEF RespondBody
    <3> QED BY <1>5, <3>2, <3>3
  <2> QED BY <1>0, <1>5, <2>1, WriteWire
<1>6. \/ UNCHANGED <<up, cut>> /\ t = s
      \/ ~up'["server"] /\ Slice(t, s, 0)
      \/ UNCHANGED <<up, cut>> /\ \E c \in Call : RespondHeader(c) \/ RespondBody(c)
  BY ServerStreams
<1> QED BY <1>2, <1>3, <1>4, <1>5, <1>6

\* An outcome that is a result is read from the first of the messages.
LEMMA ClientOutcomes ==
    ASSUME ClientTypeOK, ClientMoves, NEW c \in Call, outcome'[c] \in Call
    PROVE  \/ outcome'[c] = outcome[c]
           \/ /\ Arrived("client", {"body"})
              /\ outcome'[c] = Head(stream["client"]).call
              /\ (rat = "body" /\ c = hand) \/ (at[c] = "asked" /\ day = 1)
<1>0. /\ outcome \in [Call -> Errors \cup Call \cup {Nil}] /\ hand \in Call \cup {Nil}
      /\ Errors \cap Call = {} /\ Nil \notin Call
      /\ \A e \in {"shutdown", "write", "lost", "server", "body", "empty"} : e \notin Call
  BY NamesAssumption, NilAssumption DEF ClientTypeOK, Errors
<1>1. ASSUME NEW d \in Call, Begin(d) \/ Proceed(d) PROVE outcome'[c] = outcome[c]
  <2>1. \/ UNCHANGED outcome
        \/ \E e \in {"shutdown", "write"} : outcome' = [outcome EXCEPT ![d] = e]
    BY <1>1 DEF Begin, Proceed, Register, Refuse, WriteHeader, WriteBody, WriteFails, Unsend,
       SendSignal, Take
  <2> QED BY <1>0, <2>1
<1>2. ASSUME NEW d \in Call, Turn(d) \/ MainTurn(d), day = 1
      PROVE  \/ outcome'[c] = outcome[c]
             \/ /\ Arrived("client", {"body"})
                /\ outcome'[c] = Head(stream["client"]).call
                /\ at[c] = "asked"
  <2>1. CASE AnswerBody(d)
    <3>1. CASE Arrived("client", {"body"}) /\ outcome' = [outcome EXCEPT ![d] = Head(stream["client"]).call]
      BY <1>0, <2>1, <3>1 DEF AnswerBody
    <3>2. CASE outcome' = [outcome EXCEPT ![d] = "empty"]
      BY <1>0, <3>2
    <3> QED BY <2>1, <3>1, <3>2 DEF AnswerBody
  <2>2. CASE ~AnswerBody(d)
    BY <1>2, <2>2 DEF Turn, MainTurn, PassOver, Written, WriteHeader, WriteFails, AnswerHeader
  <2> QED BY <2>1, <2>2
<1>3. CASE ReadBody
  <2>1. /\ rat = "body" /\ Arrived("client", {"body"})
        /\ \/ UNCHANGED outcome
           \/ /\ hand # Nil
              /\ \E e \in {"server", "body", Head(stream["client"]).call} : outcome' = [outcome EXCEPT ![hand] = e]
    BY <1>3 DEF ReadBody
  <2> QED BY <1>0, <2>1
<1>4. CASE Receiving /\ ~ReadBody
  <2>1. CASE ReadBodyFails
    BY <1>0, <2>1 DEF ReadBodyFails
  <2>2. ASSUME NEW d \in Call, TerminateCall(d) PROVE outcome'[c] = outcome[c]
    BY <1>0, <2>2 DEF TerminateCall
  <2> QED BY <1>4, <2>1, <2>2 DEF Receiving, ReadHeader, ReadHeaderFails, ReceiveSignal, Terminate,
             TerminateReturn
<1>5. CASE UserClose \/ Leave
  BY <1>5 DEF UserClose, Leave
<1> QED BY <1>1, <1>2, <1>3, <1>4, <1>5, ClientActions

\* receive gets to a body with the header of the call in its hands, or is where it was.
LEMMA ClientBodies ==
    ASSUME WireInv, ClientMoves, day = 1 => hand = Nil, rat' = "body" /\ hand' # Nil
    PROVE  \/ ReadHeader
           \/ /\ rat = "body" /\ hand' = hand
              /\ \/ UNCHANGED <<up, cut>> /\ stream'["client"] = stream["client"]
                 \/ ~up'["client"] /\ stream'["client"] = << >>
<1>0. WireTypeOK /\ ClientTypeOK /\ "client" \in End
  BY DEF WireInv, TypeOK, End
<1>c. \A d \in Call : Msg("header", num[d], d) \in Message /\ Msg("body", num[d], d) \in Message
  BY <1>0 DEF Message, Msg, ClientTypeOK
<1>w. ASSUME UNCHANGED wireVars \/ (\E x \in Message : Write("client", x)) \/ Close("client")
      PROVE  \/ UNCHANGED <<up, cut>> /\ stream'["client"] = stream["client"]
             \/ ~up'["client"] /\ stream'["client"] = << >>
  BY <1>0, <1>w, WriteWire, CloseWire DEF wireVars
<1>1. ASSUME NEW c \in Call, Begin(c) \/ Proceed(c)
      PROVE  rat = "body" /\ hand' = hand /\ (UNCHANGED wireVars \/ (\E x \in Message : Write("client", x)) \/ Close("client"))
  BY <1>1, <1>c DEF Begin, Proceed, Register, Refuse, WriteHeader, WriteBody, WriteFails, Unsend,
     SendSignal, Take, receiverVars
<1>2. day # 1
  <2>1. ASSUME NEW c \in Call, Turn(c) \/ MainTurn(c) PROVE UNCHANGED hand
    BY <2>1 DEF Turn, MainTurn, PassOver, Written, WriteHeader, WriteFails, AnswerHeader,
       AnswerBody, unused, receiverVars
  <2>2. CASE Leave
    BY <2>2 DEF Leave, unused
  <2> QED BY <2>1, <2>2, ClientActions DEF Leave, unused
<1>3. CASE UserClose
  BY <1>3, <1>w DEF UserClose, receiverVars
<1>4. CASE Receiving
  <2>1. ~ReadHeaderFails /\ ~ReadBodyFails /\ ~ReceiveSignal /\ ~Terminate /\ ~TerminateReturn
    BY DEF ReadHeaderFails, ReadBodyFails, ReceiveSignal, Terminate, TerminateReturn
  <2>2. ASSUME NEW c \in Call PROVE ~TerminateCall(c)
    BY DEF TerminateCall
  <2>3. ReadBody => rat' \in {"header", "signal", "signalStop"}
    BY DEF ReadBody
  <2> QED BY <1>4, <2>1, <2>2, <2>3 DEF Receiving
<1> QED BY <1>1, <1>2, <1>3, <1>4, <1>w, ClientActions

\* The client takes from what comes; it adds nothing.
LEMMA ClientStream ==
    ASSUME WireInv, ClientMoves
    PROVE  \E k \in Nat : Slice(stream'["client"], stream["client"], k)
<1> DEFINE s == stream["client"]
           t == stream'["client"]
<1>0. /\ WireTypeOK /\ ClientTypeOK /\ "client" \in End /\ s \in Seq(Message) /\ Slice(s, s, 0)
  BY Streams DEF WireInv, TypeOK, End
<1>1. ClientWire
  BY <1>0, ClientEffects
<1>2. \A d \in Call : Msg("header", num[d], d) \in Message /\ Msg("body", num[d], d) \in Message
  BY <1>0 DEF Message, Msg, ClientTypeOK
<1>3. CASE UNCHANGED wireVars
  BY <1>0, <1>3 DEF wireVars
<1>4. CASE s # << >> /\ Read("client")
  BY <1>0, <1>4, ReadWire
<1>5. CASE Close("client")
  BY <1>0, <1>5, CloseWire, EmptyIsSlice
<1>6. ASSUME NEW x \in Message, Write("client", x) PROVE t = s
  BY <1>0, <1>6, WriteWire
<1> QED BY <1>0, <1>1, <1>2, <1>3, <1>4, <1>5, <1>6 DEF ClientWire

\* receive gives a result to the call whose number it is under,
\* the program of day 1 to the one call there is.
LEMMA ClientKeepsResults ==
    ASSUME WireInv, DayInv, Numbers, Executions, Results, InTurn, ClientMoves, UNCHANGED serverVars
    PROVE  Results'
<1> DEFINE s == stream["client"]
           t == stream'["client"]
<1>0. /\ WireTypeOK /\ ClientTypeOK /\ Responses /\ UNCHANGED <<hat, hseq, respLock, runs>>
      /\ s \in Seq(Message) /\ Len(s) \in Nat /\ "client" \in End /\ Other("client") = "server"
      /\ hand \in Call \cup {Nil} /\ at \in [Call -> CallerPoints] /\ num \in [Call -> Nat]
  BY Streams DEF WireInv, TypeOK, ClientTypeOK, serverVars, End, Other
<1>s. /\ \A i \in 1..Len(s) : s[i].kind = "body" /\ s[i].call \in Call =>
             runs[s[i].call] = 1 /\ s[i].seq = num[s[i].call] /\ s[i].seq # 0
      /\ rat = "body" /\ hand # Nil =>
             IF s # << >> THEN s[1].kind = "body" /\ s[1].seq = num[hand]
                          ELSE Writable => respLock # Nil /\ hseq[respLock] = num[hand]
      /\ \A c \in Call : outcome[c] \in Call => outcome[c] = c /\ runs[c] = 1
  BY DEF Results
<1>n. \A c \in Call : c \notin Fresh \/ c = hand => num'[c] = num[c]
  <2>1. ASSUME NEW c \in Call, NumberGiven(c) PROVE \A d \in Call : d \notin Fresh \/ d = hand => num'[d] = num[d]
    <3>1. c \in Fresh /\ num' = [num EXCEPT ![c] = seq]
      BY <2>1 DEF NumberGiven, Fresh
    <3>2. hand # c
      BY <2>1, NilAssumption DEF NumberGiven, DayInv, IInv, CallFacts, InTurn
    <3> QED BY <1>0, <3>1, <3>2
  <2> QED BY <1>0, <2>1, ClientNumbers DEF NumbersStay
<1>h. s # << >> => Head(s) = s[1] /\ 1 \in 1..Len(s)
  BY <1>0, EmptySeq
<1>1. \A i \in 1..Len(t) : t[i].kind = "body" /\ t[i].call \in Call =>
         runs'[t[i].call] = 1 /\ t[i].seq = num'[t[i].call] /\ t[i].seq # 0
  <2>1. PICK k \in Nat : Slice(t, s, k)
    BY ClientStream
  <2>2. \A i \in 1..Len(t) : i + k \in 1..Len(s) /\ t[i] = s[i + k]
    BY SMTT(20), <1>0, <2>1, SliceElements
  <2>3. \A c \in Call : runs[c] = 1 => c \notin Fresh
    BY DEF Executions
  <2> TAKE i \in 1..Len(t)
  <2> HAVE t[i].kind = "body" /\ t[i].call \in Call
  <2>4. i + k \in 1..Len(s) /\ t[i] = s[i + k]
    BY <2>2
  <2>5. runs[t[i].call] = 1 /\ t[i].seq = num[t[i].call] /\ t[i].seq # 0
    BY <1>s, <2>4
  <2> QED BY <1>0, <1>n, <2>3, <2>5
<1>2. rat' = "body" /\ hand' # Nil =>
         IF t # << >> THEN t[1].kind = "body" /\ t[1].seq = num'[hand']
                      ELSE Writable' => respLock' # Nil /\ hseq'[respLock'] = num'[hand']
  <2> SUFFICES ASSUME rat' = "body", hand' # Nil
               PROVE  IF t # << >> THEN t[1].kind = "body" /\ t[1].seq = num'[hand']
                                   ELSE Writable' => respLock # Nil /\ hseq[respLock] = num'[hand']
    BY <1>0
  <2>1. CASE ReadHeader
    <3>1. /\ s # << >> /\ s[1].kind # "body" /\ num[hand'] = s[1].seq /\ hand' \in Call /\ UNCHANGED num
          /\ Read("client")
      <4>1. /\ s # << >> /\ Head(s).kind \in {"header", "error"} /\ Read("client") /\ UNCHANGED num
            /\ \E c \in PendingAt(Head(s).seq) : hand' = c
        BY <2>1 DEF ReadHeader, Arrived, callerVars
      <4>2. hand' \in Call /\ num[hand'] = Head(s).seq
        <5>1. pending \subseteq Call
          BY <1>0 DEF ClientTypeOK
        <5> QED BY <4>1, <5>1 DEF PendingAt
      <4>3. Head(s).kind # "body"
        BY <4>1
      <4>4. Head(s) = s[1]
        BY <1>h, <4>1
      <4> HIDE DEF s, t
      <4> QED BY <4>1, <4>2, <4>3, <4>4
    <3>2. /\ Slice(t, s, 1) /\ Len(t) = Len(s) - 1 /\ UNCHANGED <<up, cut>>
      BY <1>0, <3>1, ReadWire
    <3>3. CASE t # << >>
      <4>1. 1 \in 1..Len(t) /\ 1 < Len(s)
        BY <1>0, <3>2, <3>3, EmptySeq, LenProperties DEF Slice
      <4>2. t[1] = s[1 + 1]
        BY <3>2, <4>1 DEF Slice
      <4>3. s[1 + 1].kind = "body" /\ s[1 + 1].seq = s[1].seq
        BY <1>0, <1>h, <3>1, <4>1 DEF Responses, Whole
      <4> QED BY <3>1, <3>3, <4>2, <4>3
    <3>4. CASE t = << >>
      <4>1. Len(t) = 0
        BY <3>4, EmptySeq
      <4>2. Len(s) = 1
        <5>1. Len(s) \in Nat /\ Len(t) = Len(s) - 1
          BY <1>0, <3>2
        <5> HIDE DEF s, t
        <5> QED BY <4>1, <5>1
      <4>3. Writable => respLock # Nil /\ s[1].seq = hseq[respLock]
        BY <1>0, <3>1, <4>2 DEF Responses
      <4> QED BY <3>1, <3>2, <3>4, <4>3 DEF Writable
    <3> QED BY <3>3, <3>4
  <2>2. CASE ~ReadHeader
    <3>1. /\ rat = "body" /\ hand' = hand
          /\ \/ UNCHANGED <<up, cut>> /\ t = s
             \/ ~up'["client"] /\ t = << >>
      <4>1. day = 1 => hand = Nil
        BY DEF InTurn
      <4> QED BY <2>2, <4>1, ClientBodies
    <3>2. num'[hand] = num[hand]
      BY <1>0, <1>n, <3>1
    <3> HIDE DEF s, t
    <3>3. CASE UNCHANGED <<up, cut>> /\ t = s
      <4>1. Writable' => Writable
        BY <3>3 DEF Writable
      <4> QED BY <1>s, <3>1, <3>2, <3>3, <4>1
    <3>4. CASE ~up'["client"] /\ t = << >>
      BY <3>4 DEF Writable
    <3> QED BY <3>1, <3>3, <3>4
  <2> QED BY <2>1, <2>2
<1>3. \A c \in Call : outcome'[c] \in Call => outcome'[c] = c /\ runs'[c] = 1
  <2> SUFFICES ASSUME NEW c \in Call, outcome'[c] \in Call
               PROVE  outcome'[c] = c /\ runs[c] = 1
    BY <1>0
  <2>1. CASE outcome'[c] = outcome[c]
    BY <1>s, <2>1
  <2>2. CASE Arrived("client", {"body"}) /\ outcome'[c] = Head(s).call
    <3>1. /\ up["client"] /\ s # << >> /\ s[1].kind = "body" /\ 1 \in 1..Len(s)
          /\ s[1].call = outcome'[c] /\ runs[s[1].call] = 1
          /\ s[1].seq = num[s[1].call] /\ s[1].seq # 0
      BY <1>h, <1>s, <2>2 DEF Arrived
    <3>2. CASE rat = "body" /\ c = hand
      <4>1. s[1].seq = num[c]
        BY <1>s, <3>1, <3>2, NilAssumption
      <4>2. num[outcome'[c]] # 0 /\ num[outcome'[c]] = num[c]
        BY <3>1, <4>1
      <4>3. \A x, y \in Call : num[x] # 0 /\ num[x] = num[y] => x = y
        BY DEF Numbers
      <4>4. outcome'[c] = c
        BY <4>2, <4>3
      <4> QED BY <3>1, <4>4
    <3>3. CASE at[c] = "asked" /\ day = 1
      <4>1. s[1].call \notin Fresh
        BY <3>1 DEF Executions
      <4>2. at[s[1].call] # "back"
        BY <3>1, <3>3 DEF InTurn
      <4>3. at[c] \notin {"idle", "back"} /\ at[s[1].call] \notin {"idle", "back"}
        BY <3>1, <3>3, <4>1, <4>2 DEF Fresh
      <4>4. s[1].call = c
        BY <3>1, <3>3, <4>3 DEF InTurn
      <4> QED BY <3>1, <4>4
    <3>4. \/ outcome'[c] = outcome[c]
          \/ (rat = "body" /\ c = hand) \/ (at[c] = "asked" /\ day = 1)
      BY <1>0, ClientOutcomes
    <3> HIDE DEF s, t
    <3> QED BY <2>1, <3>2, <3>3, <3>4
  <2> QED BY <1>0, <2>1, <2>2, ClientOutcomes
<1> QED BY <1>1, <1>2, <1>3 DEF Results

-----------------------------------------------------------------------------
(* A completion is received once *)

\* done() puts a call into its channel that was in none;
LEMMA SignalKeepsChannels ==
    ASSUME ClientTypeOK, Channels, day # 1, day' = day, NEW c \in Call, signals[c] = 0, Signal(c), UNCHANGED taken
    PROVE  Channels'
<1> DEFINE q == Done[c]
<1>0. /\ q \in Chan /\ chan[q] \in Seq(Call) /\ chan \in [Chan -> Seq(Call)] /\ signals \in [Call -> Nat]
      /\ chan' = [chan EXCEPT ![q] = Append(chan[q], c)]
  BY ChanAssumption DEF ClientTypeOK, Signal
<1>1. /\ signals'[c] = 1 /\ \A d \in Call \ {c} : signals'[d] = signals[d]
  BY <1>0 DEF Signal
<1>2. /\ Len(chan[q]) \in Nat /\ Len(chan'[q]) = Len(chan[q]) + 1 /\ chan'[q][Len(chan[q]) + 1] = c
      /\ \A i \in 1..Len(chan[q]) : chan'[q][i] = chan[q][i]
      /\ \A x \in Chan \ {q} : chan'[x] = chan[x]
  BY <1>0, AppendProperties, LenProperties
<1>3. /\ \A d \in taken : signals[d] = 1
      /\ \A x \in Chan : \A i \in 1..Len(chan[x]) :
            /\ signals[chan[x][i]] = 1 /\ chan[x][i] \notin taken
            /\ \A y \in Chan : \A j \in 1..Len(chan[y]) : chan[y][j] = chan[x][i] => y = x /\ j = i
  BY DEF Channels
<1>4. \A x \in Chan : \A i \in 1..Len(chan[x]) : chan[x][i] \in Call \ {c}
  <2> TAKE x \in Chan
  <2> TAKE i \in 1..Len(chan[x])
  <2>1. chan[x] \in Seq(Call)
    BY <1>0
  <2> QED BY <1>3, <2>1, ElementOfSeq
<1>5. taken \subseteq Call \ {c}
  BY <1>3 DEF ClientTypeOK
<1> HIDE DEF q
<1>6. \A x \in Chan : \A i \in 1..Len(chan'[x]) :
         \/ i \in 1..Len(chan[x]) /\ chan'[x][i] = chan[x][i]
         \/ x = q /\ i = Len(chan[q]) + 1 /\ chan'[x][i] = c
  <2> TAKE x \in Chan
  <2>1. CASE x = q
    BY <1>2, <2>1
  <2>2. CASE x # q
    BY <1>2, <2>2
  <2> QED BY <2>1, <2>2
<1>7. \A x \in Chan : \A i \in 1..Len(chan'[x]) : signals'[chan'[x][i]] = 1 /\ chan'[x][i] \notin taken
  BY <1>1, <1>3, <1>4, <1>5, <1>6
<1>8. ASSUME NEW x \in Chan, NEW y \in Chan, NEW i \in 1..Len(chan'[x]), NEW j \in 1..Len(chan'[y]),
             chan'[y][j] = chan'[x][i]
      PROVE  y = x /\ j = i
  <2>1. \/ i \in 1..Len(chan[x]) /\ chan'[x][i] = chan[x][i] /\ chan[x][i] # c
        \/ x = q /\ i = Len(chan[q]) + 1 /\ chan'[x][i] = c
    BY <1>4, <1>6
  <2>2. \/ j \in 1..Len(chan[y]) /\ chan'[y][j] = chan[y][j] /\ chan[y][j] # c
        \/ y = q /\ j = Len(chan[q]) + 1 /\ chan'[y][j] = c
    BY <1>4, <1>6
  <2> QED BY <1>3, <1>8, <2>1, <2>2
<1>9. \A d \in taken : signals'[d] = 1
  BY <1>1, <1>3, <1>5
<1> QED BY <1>7, <1>8, <1>9 DEF Channels

\* a caller takes it out for good.
LEMMA TakeKeepsChannels ==
    ASSUME ClientTypeOK, Channels, day # 1, day' = day, NEW c \in Call, Take(c)
    PROVE  /\ Channels'
           /\ Head(chan[Done[c]]) \in Call /\ Head(chan[Done[c]]) \notin taken /\ signals[Head(chan[Done[c]])] = 1
<1> DEFINE q == Done[c]
           d == Head(chan[q])
<1>0. /\ q \in Chan /\ chan[q] \in Seq(Call) /\ chan[q] # << >> /\ chan \in [Chan -> Seq(Call)]
      /\ chan' = [chan EXCEPT ![q] = Tail(chan[q])]
      /\ taken' = taken \cup {d} /\ UNCHANGED signals
  BY ChanAssumption DEF ClientTypeOK, Take
<1>1. /\ d = chan[q][1] /\ Len(chan[q]) \in Nat /\ 1 \in 1..Len(chan[q]) /\ d \in Call
      /\ Len(Tail(chan[q])) = Len(chan[q]) - 1
      /\ \A i \in 1..Len(Tail(chan[q])) : Tail(chan[q])[i] = chan[q][i + 1]
  BY <1>0, HeadTailProperties, LenProperties, EmptySeq, ElementOfSeq
<1>2. chan'[q] = Tail(chan[q]) /\ \A x \in Chan \ {q} : chan'[x] = chan[x]
  BY <1>0
<1>3. /\ \A e \in taken : signals[e] = 1
      /\ \A x \in Chan : \A i \in 1..Len(chan[x]) :
            /\ signals[chan[x][i]] = 1 /\ chan[x][i] \notin taken
            /\ \A y \in Chan : \A j \in 1..Len(chan[y]) : chan[y][j] = chan[x][i] => y = x /\ j = i
  BY DEF Channels
<1>4. d \notin taken /\ signals[d] = 1
  BY <1>0, <1>1, <1>3
<1> HIDE DEF q, d
<1>5. \A x \in Chan : \A i \in 1..Len(chan'[x]) :
         \E k \in 1..Len(chan[x]) : chan'[x][i] = chan[x][k] /\ k = (IF x = q THEN i + 1 ELSE i)
  <2> TAKE x \in Chan
  <2>1. CASE x = q
    <3> TAKE i \in 1..Len(chan'[x])
    <3>0. i \in 1..Len(Tail(chan[q])) /\ chan'[q] = Tail(chan[q])
      BY <1>2, <2>1
    <3>1. i + 1 \in 1..Len(chan[q]) /\ chan'[q][i] = chan[q][i + 1]
      BY <1>1, <3>0
    <3> QED BY <2>1, <3>1
  <2>2. CASE x # q
    BY <1>2, <2>2
  <2> QED BY <2>1, <2>2
<1>6. \A x \in Chan : \A i \in 1..Len(chan'[x]) : chan'[x][i] # d
  <2> TAKE x \in Chan
  <2> TAKE i \in 1..Len(chan'[x])
  <2>1. PICK k \in 1..Len(chan[x]) : chan'[x][i] = chan[x][k] /\ k = (IF x = q THEN i + 1 ELSE i)
    BY <1>5
  <2>2. x = q => k # 1
    BY <2>1
  <2> QED BY <1>0, <1>1, <1>3, <2>1, <2>2
<1>7. \A x \in Chan : \A i \in 1..Len(chan'[x]) : signals[chan'[x][i]] = 1 /\ chan'[x][i] \notin taken'
  <2> TAKE x \in Chan
  <2> TAKE i \in 1..Len(chan'[x])
  <2>1. PICK k \in 1..Len(chan[x]) : chan'[x][i] = chan[x][k]
    BY <1>5
  <2>2. signals[chan[x][k]] = 1 /\ chan[x][k] \notin taken
    BY <1>3
  <2> QED BY <1>0, <1>6, <2>1, <2>2
<1>8. ASSUME NEW x \in Chan, NEW y \in Chan, NEW i \in 1..Len(chan'[x]), NEW j \in 1..Len(chan'[y]),
             chan'[y][j] = chan'[x][i]
      PROVE  y = x /\ j = i
  <2>1. PICK k \in 1..Len(chan[x]) : chan'[x][i] = chan[x][k] /\ k = (IF x = q THEN i + 1 ELSE i)
    BY <1>5
  <2>2. PICK m \in 1..Len(chan[y]) : chan'[y][j] = chan[y][m] /\ m = (IF y = q THEN j + 1 ELSE j)
    BY <1>5
  <2>3. y = x /\ m = k
    BY <1>3, <1>8, <2>1, <2>2
  <2>4. i \in Int /\ j \in Int
    OBVIOUS
  <2> QED BY <2>1, <2>2, <2>3, <2>4
<1>9. \A e \in taken' : signals[e] = 1
  BY <1>0, <1>3, <1>4
<1> QED BY SMTT(20), <1>0, <1>1, <1>4, <1>7, <1>8, <1>9 DEF Channels, q, d

\* Channels is inductive.
LEMMA NextKeepsChannels ==
    ASSUME TypeOK, DayInv, Channels, [Next]_vars
    PROVE  Channels'
<1>0. day' = day /\ ClientTypeOK
  BY DayStays DEF TypeOK
<1>1. ASSUME UNCHANGED <<chan, signals, taken>>, day # 1 PROVE Channels'
  BY <1>0, <1>1 DEF Channels
<1>2. CASE UNCHANGED clientVars
  BY <1>0, <1>2 DEF Channels, clientVars
<1>3. CASE day # 1 /\ ClientMoves
  <2>0. IInv
    BY <1>3 DEF DayInv
  <2>1. ASSUME NEW c \in Call, signals[c] = 0, Signal(c), UNCHANGED taken PROVE Channels'
    BY <1>0, <1>3, <2>1, SignalKeepsChannels
  <2>2. ASSUME NEW c \in Call, SendSignal(c) PROVE Channels'
    <3>1. at[c] = "signal" /\ Signal(c) /\ UNCHANGED taken
      BY <2>2 DEF SendSignal
    <3> QED BY <2>0, <2>1, <3>1 DEF IInv, CallFacts
  <2>3. ASSUME NEW c \in Call, Take(c) PROVE Channels'
    BY <1>0, <1>3, <2>3, TakeKeepsChannels
  <2>4. ASSUME NEW c \in Call, Begin(c) \/ (Proceed(c) /\ ~SendSignal(c) /\ ~Take(c)) PROVE Channels'
    <3>1. UNCHANGED <<chan, signals, taken>>
      BY <2>4 DEF Begin, Proceed, Register, Refuse, WriteHeader, WriteBody, WriteFails, Unsend,
         signalVars
    <3> QED BY <1>1, <1>3, <3>1
  <2>5. CASE ReceiveSignal
    <3>1. Signal(hand) /\ rat \in {"signal", "signalStop"} /\ UNCHANGED taken
      BY <2>5 DEF ReceiveSignal, callerVars
    <3>2. hand \in Call
      BY <1>0, <2>0, <3>1 DEF IInv, ReceiverFacts, ClientTypeOK
    <3>3. signals[hand] = 0
      BY <2>0, <3>2 DEF IInv, CallFacts, Open
    <3> QED BY <2>1, <3>1, <3>2, <3>3
  <2>6. ASSUME NEW c \in Call, TerminateCall(c) PROVE Channels'
    <3>1. Signal(c) /\ c \in left /\ UNCHANGED taken
      BY <2>6 DEF TerminateCall, callerVars
    <3>2. signals[c] = 0
      BY <2>0, <3>1 DEF IInv, CallFacts, Open, ReceiverFacts
    <3> QED BY <2>1, <3>1, <3>2
  <2>7. CASE UserClose \/ (Receiving /\ ~ReceiveSignal /\ ~\E c \in Call : TerminateCall(c))
    <3>1. UNCHANGED <<chan, signals, taken>>
      BY <2>7 DEF UserClose, Receiving, ReadHeader, ReadHeaderFails, ReadBody, ReadBodyFails,
         Terminate, TerminateReturn, signalVars, callerVars
    <3> QED BY <1>1, <1>3, <3>1
  <2> QED BY <1>3, <2>2, <2>3, <2>4, <2>5, <2>6, <2>7, ClientActions
<1>4. CASE day = 1 /\ ClientMoves
  <2>0. /\ (\A c \in Call : signals[c] = 0) /\ at \in [Call -> CallerPoints]
        /\ chan \in [Chan -> Seq(Call)]
    BY <1>0, <1>4 DEF DayInv, ClientTypeOK
  <2>1. \A x \in Chan : \A i \in 1..Len(chan[x]) : FALSE
    <3> SUFFICES ASSUME NEW x \in Chan, NEW i \in 1..Len(chan[x]) PROVE FALSE
      OBVIOUS
    <3>1. chan[x][i] \in Call
      BY <2>0, ElementOfSeq
    <3>2. signals[chan[x][i]] = 1
      BY DEF Channels
    <3> QED BY <2>0, <3>1, <3>2
  <2>2. chan' = chan /\ \A d \in taken' : at'[d] = "back"
    <3>1. ASSUME NEW c \in Call, Turn(c) \/ MainTurn(c)
          PROVE  chan' = chan /\ \A d \in taken' : at'[d] = "back"
      <4>1. chan' = chan
        BY <3>1 DEF Turn, MainTurn, WriteHeader, WriteFails, Written, PassOver, AnswerHeader,
           AnswerBody, unused, signalVars
      <4>2. \A d \in taken : d \in Call /\ at[d] = "back"
        BY <1>0, <1>4 DEF Channels, ClientTypeOK
      <4>3. CASE AnswerBody(c)
        BY <2>0, <4>2, <4>1, <4>3 DEF AnswerBody
      <4>4. CASE ~AnswerBody(c)
        <5>1. /\ at[c] # "back" /\ taken' = taken
              /\ at' = at \/ \E p \in CallerPoints : at' = [at EXCEPT ![c] = p]
          BY <3>1, <4>4 DEF Turn, MainTurn, WriteHeader, WriteFails, Written, PassOver,
             AnswerHeader, CallerPoints
        <5> QED BY <2>0, <4>1, <4>2, <5>1
      <4> QED BY <4>3, <4>4
    <3>2. CASE Leave
      BY <1>4, <3>2 DEF Leave, unused, signalVars, Channels
    <3> QED BY <1>4, <3>1, <3>2, ClientActions
  <2> QED BY <1>0, <1>4, <2>1, <2>2 DEF Channels
<1> QED BY <1>2, <1>3, <1>4, Movers DEF vars

\* While its end is open a client reads or writes; of the requests it adds the one of the
\* call that is about to write it.
LEMMA ClientWrites ==
    ASSUME WireInv, ClientMoves, up'["client"]
    PROVE  /\ UNCHANGED <<up, cut>>
           /\ stream["client"] = << >> => stream'["client"] = << >>
           /\ \A i \in 1..Len(stream'["server"]) : stream'["server"][i].kind = "header" =>
                 \/ i \in 1..Len(stream["server"]) /\ stream'["server"][i] = stream["server"][i]
                 \/ \E c \in Call : at[c] = "header" /\ stream'["server"][i].call = c
<1> DEFINE r == stream["server"]
           q == stream'["server"]
           Requested == \A i \in 1..Len(q) : q[i].kind = "header" =>
                           \/ i \in 1..Len(r) /\ q[i] = r[i]
                           \/ \E c \in Call : at[c] = "header" /\ q[i].call = c
<1>0. /\ WireTypeOK /\ ClientTypeOK /\ "client" \in End /\ Other("client") = "server" /\ num \in [Call -> Nat]
      /\ r \in Seq(Message) /\ Len(r) \in Nat
  BY Streams DEF WireInv, TypeOK, End, Other, ClientTypeOK
<1>1. ClientWire
  BY <1>0, ClientEffects
<1>2. CASE UNCHANGED wireVars
  BY <1>2 DEF wireVars
<1>3. CASE stream["client"] # << >> /\ Read("client")
  BY <1>0, <1>3, ReadWire
<1>4. ~Close("client")
  BY <1>0, CloseWire
<1>5. ASSUME NEW x \in Message, Write("client", x), NEW c \in Call, x.kind = "header" => at[c] = "header" /\ x.call = c
      PROVE  UNCHANGED <<up, cut>> /\ stream'["client"] = stream["client"] /\ Requested
  <2>1. UNCHANGED <<up, cut>> /\ stream'["client"] = stream["client"] /\ (q = Append(r, x) \/ q = r)
    BY <1>0, <1>5, WriteWire
  <2>2. CASE q = r
    BY <2>1, <2>2
  <2>3. CASE q = Append(r, x)
    <3>1. Len(q) = Len(r) + 1 /\ q[Len(r) + 1] = x /\ \A i \in 1..Len(r) : q[i] = r[i]
      BY <1>0, <2>3, AppendProperties
    <3> HIDE DEF q, r
    <3>2. \A i \in 1..Len(q) : i \in 1..Len(r) \/ i = Len(r) + 1
      BY <1>0, <3>1
    <3>3. Requested
      BY <1>5, <3>1, <3>2
    <3> QED BY <2>1, <3>3
  <2> QED BY <2>1, <2>2, <2>3
<1>6. ASSUME NEW c \in Call, at[c] = "header", Write("client", Msg("header", num[c], c))
      PROVE  UNCHANGED <<up, cut>> /\ stream'["client"] = stream["client"] /\ Requested
  <2>1. Msg("header", num[c], c) \in Message /\ Msg("header", num[c], c).call = c
    BY <1>0 DEF Message, Msg
  <2> QED BY <1>5, <1>6, <2>1
<1>7. ASSUME NEW c \in Call, Write("client", Msg("body", num[c], c))
      PROVE  UNCHANGED <<up, cut>> /\ stream'["client"] = stream["client"] /\ Requested
  <2>1. Msg("body", num[c], c) \in Message /\ Msg("body", num[c], c).kind # "header"
    BY <1>0 DEF Message, Msg
  <2> QED BY <1>5, <1>7, <2>1
<1> QED BY <1>1, <1>2, <1>3, <1>4, <1>6, <1>7 DEF ClientWire

\* The program of day 1 makes a call only when it has read the answer of the one before.
LEMMA ClientKeepsInTurn ==
    ASSUME WireInv, Executions, InTurn, day = 1, day' = day, ClientMoves, UNCHANGED serverVars
    PROVE  InTurn'
<1> DEFINE s == stream["client"]
           t == stream'["client"]
           r == stream["server"]
           q == stream'["server"]
<1>0. /\ WireTypeOK /\ ClientTypeOK /\ Requests /\ UNCHANGED <<hat, sat, req>>
      /\ at \in [Call -> CallerPoints] /\ s \in Seq(Message) /\ Len(s) \in Nat
  BY Streams DEF WireInv, TypeOK, ClientTypeOK, serverVars, End
<1>i. /\ hand = Nil /\ sat # "dead"
      /\ \A c \in Call : hat[c] \notin {"error", "errorBody"}
      /\ \A c, d \in Call : at[c] \notin {"idle", "back"} /\ at[d] \notin {"idle", "back"} => c = d
      /\ up["client"] /\ (s # << >> \/ Writable) => \A c \in Call : at[c] = "back" =>
            /\ hat[c] \in {"none", "done"}
            /\ sat = "body" => req # c
            /\ \A i \in 1..Len(r) : r[i].kind = "header" => r[i].call # c
            /\ \A i \in 1..Len(s) : s[i].kind = "body" => s[i].call # c
      /\ \A i \in 1..Len(s) : s[i].kind = "body" => s[i].call \in Call /\ hat[s[i].call] = "done"
      /\ \A i, j \in 1..Len(s) : s[i].kind = "body" /\ s[j].kind = "body" /\ s[i].call = s[j].call => i = j
  BY DEF InTurn
<1>k. PICK k \in Nat : Slice(t, s, k)
  BY ClientStream
<1>t. \A i \in 1..Len(t) : i + k \in 1..Len(s) /\ t[i] = s[i + k]
  BY <1>0, <1>k, SliceElements
<1>1. \A i \in 1..Len(t) : t[i].kind = "body" => t[i].call \in Call /\ hat[t[i].call] = "done"
  BY <1>i, <1>t
<1>2. \A i, j \in 1..Len(t) : t[i].kind = "body" /\ t[j].kind = "body" /\ t[i].call = t[j].call => i = j
  <2> TAKE i, j \in 1..Len(t)
  <2> HAVE t[i].kind = "body" /\ t[j].kind = "body" /\ t[i].call = t[j].call
  <2>0. /\ i + k \in 1..Len(s) /\ t[i] = s[i + k]
        /\ j + k \in 1..Len(s) /\ t[j] = s[j + k]
    BY <1>t
  <2>1. i + k = j + k
    BY <1>i, <2>0
  <2>2. i \in Int /\ j \in Int
    OBVIOUS
  <2> QED BY <2>1, <2>2
<1>3. hand' = Nil
  <2>1. ASSUME NEW c \in Call, Turn(c) \/ MainTurn(c) PROVE UNCHANGED hand
    BY <2>1 DEF Turn, MainTurn, PassOver, Written, WriteHeader, WriteFails, AnswerHeader,
       AnswerBody, unused, receiverVars
  <2>2. Leave => UNCHANGED hand
    BY DEF Leave, unused
  <2>3. UNCHANGED hand
    BY <2>1, <2>2, ClientActions
  <2>4. hand = Nil
    BY <1>i
  <2> QED BY <2>3, <2>4
<1>4. \A c, d \in Call : at'[c] \notin {"idle", "back"} /\ at'[d] \notin {"idle", "back"} => c = d
  <2>1. ASSUME NEW c \in Call, Turn(c) PROVE \A d \in Call : at'[d] \notin {"idle", "back"} => d = c
    BY <1>0, <2>1 DEF Turn
  <2>2. ASSUME NEW c \in Call, MainTurn(c) PROVE \A d \in Call : at'[d] \notin {"idle", "back"} => d = c
    <3>1. /\ at[c] \notin {"idle", "back"}
          /\ at' = at \/ \E p \in CallerPoints : at' = [at EXCEPT ![c] = p]
      BY <2>2 DEF MainTurn, PassOver, Written, WriteHeader, WriteFails, AnswerHeader, AnswerBody,
         CallerPoints
    <3> QED BY <1>0, <1>i, <3>1
  <2>3. Leave => at' = at
    BY DEF Leave
  <2> QED BY <1>i, <2>1, <2>2, <2>3, ClientActions
<1>5. ASSUME up'["client"], t # << >> \/ Writable', NEW c \in Call, at'[c] = "back"
      PROVE  /\ hat[c] \in {"none", "done"}
             /\ sat = "body" => req # c
             /\ \A i \in 1..Len(q) : q[i].kind = "header" => q[i].call # c
             /\ \A i \in 1..Len(t) : t[i].kind = "body" => t[i].call # c
  <2>1. /\ up["client"] /\ (s # << >> \/ Writable)
        /\ \A i \in 1..Len(q) : q[i].kind = "header" =>
              \/ i \in 1..Len(r) /\ q[i] = r[i]
              \/ \E d \in Call : at[d] = "header" /\ q[i].call = d
    BY <1>5, ClientWrites DEF Writable
  <2>2. CASE at[c] = "back"
    <3>1. /\ hat[c] \in {"none", "done"}
          /\ sat = "body" => req # c
          /\ \A i \in 1..Len(r) : r[i].kind = "header" => r[i].call # c
          /\ \A i \in 1..Len(s) : s[i].kind = "body" => s[i].call # c
      BY <1>i, <2>1, <2>2
    <3>2. \A i \in 1..Len(t) : t[i].kind = "body" => t[i].call # c
      BY <1>t, <3>1
    <3> HIDE DEF s, t, r, q
    <3> QED BY <2>1, <2>2, <3>1, <3>2
  <2>3. CASE at[c] # "back"
    <3>1. AnswerBody(c)
      <4>1. ASSUME NEW d \in Call, Turn(d) \/ MainTurn(d), ~AnswerBody(d) PROVE FALSE
        BY <1>0, <1>5, <2>3, <4>1 DEF Turn, MainTurn, PassOver, Written, WriteHeader, WriteFails,
           AnswerHeader
      <4>2. ~Leave
        BY <1>5, <2>3 DEF Leave
      <4>3. \A d \in Call : AnswerBody(d) => d = c
        BY <1>0, <1>5, <2>3 DEF AnswerBody
      <4> QED BY <4>1, <4>2, <4>3, ClientActions
    <3>2. ~(ReadFails("client") /\ UNCHANGED wireVars)
      BY <1>5 DEF ReadFails, wireVars, Writable, Other, End
    <3>3. Arrived("client", {"body"}) /\ Read("client") /\ at[c] = "asked"
      BY <3>1, <3>2 DEF AnswerBody
    <3>4. s # << >> /\ s[1].kind = "body" /\ 1 \in 1..Len(s)
      BY <1>0, <3>3, EmptySeq DEF Arrived
    <3>5. s[1].call \in Call /\ hat[s[1].call] = "done"
      BY <1>i, <3>4
    <3>6. s[1].call \notin Fresh /\ at[s[1].call] # "back"
      BY <1>0, <1>i, <2>1, <3>4, <3>5 DEF Requests
    <3>7. s[1].call = c
      BY <1>i, <3>3, <3>5, <3>6 DEF Fresh
    <3>8. hat[c] = "done" /\ (sat = "body" => req # c)
      BY <1>0, <3>5, <3>7 DEF Requests
    <3>9. Slice(t, s, 1)
      BY <1>0, <3>3, <3>4, ReadWire DEF End
    <3>10. \A i \in 1..Len(t) : i + 1 \in 1..Len(s) /\ t[i] = s[i + 1] /\ i + 1 # 1
      BY <1>0, <3>9, SliceElements
    <3>11. \A i \in 1..Len(t) : t[i].kind = "body" => t[i].call # c
      <4> TAKE i \in 1..Len(t)
      <4>1. i + 1 \in 1..Len(s) /\ t[i] = s[i + 1] /\ i + 1 # 1
        BY <3>10
      <4> QED BY <1>i, <3>4, <3>7, <4>1
    <3>12. \A i \in 1..Len(q) : q[i].kind = "header" => q[i].call # c
      <4>1. \A i \in 1..Len(r) : r[i].kind = "header" => r[i].call # c
        BY <1>0, <3>8 DEF Requests, Unserved
      <4> HIDE DEF r, q
      <4> QED BY <2>1, <3>3, <4>1
    <3> QED BY <3>8, <3>11, <3>12
  <2> QED BY <2>2, <2>3
<1> QED BY <1>0, <1>i, <1>1, <1>2, <1>3, <1>4, <1>5 DEF InTurn

\* The steps of the server of day 1.
LEMMA ServerOfDayOne ==
    ASSUME ServerMoves, day = 1
    PROVE  \/ ReadOption \/ ReadOptionFails \/ EchoRequest \/ ReadRequestFails \/ EchoArgs \/ Drained
           \/ \E c \in Call : Echo(c) \/ RespondHeader(c) \/ RespondBody(c) \/ RespondFails(c)
BY DEF ServerMoves, Reader, Handler, ServerConn1, ReadRequest1, ServerCodec1, HandleRequest1,
   Respond

\* On day 1 every request gets its result, and only a handler adds to the responses.
LEMMA ServerAnswers ==
    ASSUME WireInv, InTurn, day = 1, ServerMoves
    PROVE  /\ sat' # "dead"
           /\ sat' = "body" => \/ sat = "body" /\ req' = req
                               \/ \E i \in 1..Len(stream["server"]) : /\ stream["server"][i].kind = "header"
                                                                      /\ stream["server"][i].call = req'
           /\ \A c \in Call : /\ hat'[c] \notin {"error", "errorBody"}
                              /\ hat[c] = "done" => hat'[c] = "done"
                              /\ hat[c] = "none" /\ (sat = "body" => req # c) => hat'[c] = "none"
<1>0. /\ WireTypeOK /\ ServerTypeOK /\ Requests /\ sat # "dead" /\ hat \in [Call -> HandlerPoints]
      /\ \A c \in Call : hat[c] \notin {"error", "errorBody"}
      /\ sat = "body" => req \in Call /\ hat[req] = "none"
  BY DEF WireInv, TypeOK, ServerTypeOK, Requests, InTurn
<1>1. CASE ReadOption \/ ReadOptionFails \/ ReadRequestFails \/ Drained
  <2>1. UNCHANGED hat /\ sat' \notin {"dead", "body"}
    BY <1>1 DEF ReadOption, ReadOptionFails, ReadRequestFails, Drained
  <2> QED BY <1>0, <2>1
<1>2. CASE EchoRequest
  <2>1. Arrived("server", {"header"}) /\ req' = Head1.call /\ sat' = "body" /\ UNCHANGED hat
    BY <1>2 DEF EchoRequest
  <2>2. /\ 1 \in 1..Len(stream["server"]) /\ stream["server"][1].kind = "header"
        /\ stream["server"][1].call = req'
    BY <1>0, <2>1, Streams, EmptySeq DEF Arrived, Head1, End
  <2> QED BY <1>0, <2>1, <2>2
<1>3. CASE EchoArgs
  <2>1. sat = "body" /\ sat' = "header" /\ hat' = [hat EXCEPT ![req] = "run"]
    BY <1>3 DEF EchoArgs
  <2> QED BY <1>0, <2>1
<1>4. ASSUME NEW c \in Call, Echo(c) \/ RespondHeader(c) \/ RespondBody(c) \/ RespondFails(c)
      PROVE  /\ UNCHANGED <<sat, req>> /\ hat[c] \notin {"none", "done"}
             /\ \E h \in {"result", "resultBody", "done"} : hat' = [hat EXCEPT ![c] = h]
  <2>1. UNCHANGED <<sat, req>>
    BY <1>4 DEF Echo, RespondHeader, RespondBody, RespondFails
  <2>2. hat[c] \in {"run", "result", "resultBody"}
    BY <1>0, <1>4 DEF Echo, RespondHeader, RespondBody, RespondFails
  <2>3. Echo(c) => hat' = [hat EXCEPT ![c] = "result"]
    BY DEF Echo
  <2>4. RespondHeader(c) => hat' = [hat EXCEPT ![c] = "resultBody"]
    BY <1>0 DEF RespondHeader
  <2>5. RespondBody(c) \/ RespondFails(c) => hat' = [hat EXCEPT ![c] = "done"]
    BY DEF RespondBody, RespondFails
  <2> QED BY <1>4, <2>1, <2>2, <2>3, <2>4, <2>5
<1>5. ASSUME NEW c \in Call, Echo(c) \/ RespondHeader(c) \/ RespondBody(c) \/ RespondFails(c)
      PROVE  /\ sat' = sat /\ req' = req
             /\ \A d \in Call : /\ hat'[d] \notin {"error", "errorBody"}
                                /\ hat[d] \in {"none", "done"} => hat'[d] = hat[d]
  <2>1. PICK h \in {"result", "resultBody", "done"} : hat' = [hat EXCEPT ![c] = h]
    BY <1>4, <1>5
  <2>2. hat'[c] = h /\ \A d \in Call \ {c} : hat'[d] = hat[d]
    BY <1>0, <2>1
  <2> QED BY <1>0, <1>4, <1>5, <2>2
<1>6. CASE \E c \in Call : Echo(c) \/ RespondHeader(c) \/ RespondBody(c) \/ RespondFails(c)
  BY <1>0, <1>5, <1>6
<1> QED BY <1>1, <1>2, <1>3, <1>6, ServerOfDayOne

\* They add a body to the responses, of the call that is done with it.
LEMMA ServerAdds ==
    ASSUME WireInv, InTurn, day = 1, ServerMoves
    PROVE  \A i \in 1..Len(stream'["client"]) : stream'["client"][i].kind = "body" =>
              \/ i \in 1..Len(stream["client"]) /\ stream'["client"][i] = stream["client"][i]
              \/ /\ Writable /\ i = Len(stream["client"]) + 1
                 /\ \E c \in Call : stream'["client"][i].call = c /\ hat[c] = "resultBody" /\ hat'[c] = "done"
<1> DEFINE s == stream["client"]
           t == stream'["client"]
<1>0. /\ WireTypeOK /\ ServerTypeOK /\ hat \in [Call -> HandlerPoints] /\ s \in Seq(Message) /\ Len(s) \in Nat
      /\ \A c \in Call : hat[c] # "errorBody" /\ hseq[c] \in Nat
      /\ "server" \in End /\ Other("server") = "client"
  BY Streams DEF WireInv, TypeOK, ServerTypeOK, InTurn, End, Other
<1>1. CASE t = s
  BY <1>1
<1>2. CASE Slice(t, s, 0)
  <2>1. \A i \in 1..Len(t) : i + 0 = i
    BY <1>2, LenProperties DEF Slice
  <2> QED BY <1>0, <1>2, <2>1, SliceElements
<1>3. ASSUME NEW c \in Call, RespondHeader(c) \/ RespondBody(c), t # s
      PROVE  \A i \in 1..Len(t) : t[i].kind = "body" =>
              \/ i \in 1..Len(s) /\ t[i] = s[i]
              \/ Writable /\ i = Len(s) + 1 /\ t[i].call = c /\ hat[c] = "resultBody" /\ hat'[c] = "done"
  <2>1. \E x \in Message : /\ Write("server", x)
                           /\ x.kind = "body" => x.call = c /\ hat[c] = "resultBody" /\ hat'[c] = "done"
    <3>1. CASE RespondHeader(c)
      <4>1. /\ Msg(IF hat[c] = "result" THEN "header" ELSE "error", hseq[c], Nil) \in Message
            /\ Msg(IF hat[c] = "result" THEN "header" ELSE "error", hseq[c], Nil).kind # "body"
        BY <1>0 DEF Message, Msg
      <4> QED BY <3>1, <4>1 DEF RespondHeader
    <3>2. CASE RespondBody(c)
      <4>1. hat[c] = "resultBody" /\ hat'[c] = "done"
        BY <1>0, <3>2 DEF RespondBody
      <4>2. Msg("body", hseq[c], c) \in Message /\ Msg("body", hseq[c], c).call = c
        BY <1>0 DEF Message, Msg
      <4> QED BY <3>2, <4>1, <4>2 DEF RespondBody
    <3> QED BY <1>3, <3>1, <3>2
  <2>2. PICK x \in Message : /\ Write("server", x)
                             /\ x.kind = "body" => x.call = c /\ hat[c] = "resultBody" /\ hat'[c] = "done"
    BY <2>1
  <2>3. Writable /\ t = Append(s, x)
    BY <1>0, <1>3, <2>2, WriteWire
  <2>4. Len(t) = Len(s) + 1 /\ t[Len(s) + 1] = x /\ \A i \in 1..Len(s) : t[i] = s[i]
    BY <1>0, <2>3, AppendProperties
  <2> HIDE DEF s, t
  <2>5. \A i \in 1..Len(t) : i \in 1..Len(s) \/ i = Len(s) + 1
    BY <1>0, <2>4
  <2> QED BY <2>2, <2>3, <2>4, <2>5
<1>4. \/ t = s \/ Slice(t, s, 0)
      \/ \E c \in Call : RespondHeader(c) \/ RespondBody(c)
  BY ServerStreams
<1>5. (\E c \in Call : RespondHeader(c) \/ RespondBody(c)) /\ t # s =>
        \A i \in 1..Len(t) : t[i].kind = "body" =>
              \/ i \in 1..Len(s) /\ t[i] = s[i]
              \/ Writable /\ i = Len(s) + 1 /\ \E c \in Call : t[i].call = c /\ hat[c] = "resultBody" /\ hat'[c] = "done"
  BY <1>3
<1> QED BY <1>1, <1>2, <1>4, <1>5

\* The server of day 1 answers what it was asked.
LEMMA ServerKeepsInTurn ==
    ASSUME WireInv, InTurn, day = 1, day' = day, ServerMoves, UNCHANGED clientVars
    PROVE  InTurn'
<1> DEFINE s == stream["client"]
           t == stream'["client"]
           r == stream["server"]
           q == stream'["server"]
<1>0. /\ WireTypeOK /\ Requests /\ UNCHANGED <<at, hand>>
      /\ s \in Seq(Message) /\ Len(s) \in Nat /\ r \in Seq(Message)
  BY Streams DEF WireInv, TypeOK, clientVars, receiverVars, End
<1>i. /\ hand = Nil
      /\ \A c, d \in Call : at[c] \notin {"idle", "back"} /\ at[d] \notin {"idle", "back"} => c = d
      /\ up["client"] /\ (s # << >> \/ Writable) => \A c \in Call : at[c] = "back" =>
            /\ hat[c] \in {"none", "done"}
            /\ sat = "body" => req # c
            /\ \A i \in 1..Len(r) : r[i].kind = "header" => r[i].call # c
            /\ \A i \in 1..Len(s) : s[i].kind = "body" => s[i].call # c
      /\ \A i \in 1..Len(s) : s[i].kind = "body" => s[i].call \in Call /\ hat[s[i].call] = "done"
      /\ \A i, j \in 1..Len(s) : s[i].kind = "body" /\ s[j].kind = "body" /\ s[i].call = s[j].call => i = j
  BY DEF InTurn
<1>a. /\ sat' # "dead"
      /\ sat' = "body" => \/ sat = "body" /\ req' = req
                          \/ \E i \in 1..Len(r) : r[i].kind = "header" /\ r[i].call = req'
      /\ \A c \in Call : /\ hat'[c] \notin {"error", "errorBody"}
                         /\ hat[c] = "done" => hat'[c] = "done"
                         /\ hat[c] = "none" /\ (sat = "body" => req # c) => hat'[c] = "none"
  BY ServerAnswers
<1>b. \A i \in 1..Len(t) : t[i].kind = "body" =>
        \/ i \in 1..Len(s) /\ t[i] = s[i]
        \/ Writable /\ i = Len(s) + 1 /\ \E c \in Call : t[i].call = c /\ hat[c] = "resultBody" /\ hat'[c] = "done"
  BY ServerAdds
<1>k. PICK k \in Nat : Slice(q, r, k)
  BY ServerStreams
<1>q. \A i \in 1..Len(q) : i + k \in 1..Len(r) /\ q[i] = r[i + k]
  BY <1>0, <1>k, SliceElements
<1>1. up'["client"] /\ (t # << >> \/ Writable') => up["client"] /\ (s # << >> \/ Writable)
  <2>1. CASE UNCHANGED <<up, cut>> /\ t = s
    BY <2>1 DEF Writable
  <2>2. CASE ~up'["server"] /\ up'["client"] = up["client"] /\ Slice(t, s, 0)
    <3>1. t # << >> => s # << >>
      BY <1>0, <2>2, EmptySeq, LenProperties DEF Slice
    <3> QED BY <2>2, <3>1 DEF Writable
  <2>3. ASSUME NEW c \in Call, RespondHeader(c) \/ RespondBody(c), UNCHANGED <<up, cut>> PROVE ~Writable => t = s
    <3>1. \E x \in Message : Write("server", x)
      <4>1. \A d \in {"header", "error", "body"}, e \in Call \cup {Nil} : Msg(d, hseq[c], e) \in Message
        BY DEF Message, Msg, WireInv, TypeOK, ServerTypeOK
      <4>2. CASE RespondHeader(c)
        BY <4>1, <4>2 DEF RespondHeader
      <4>3. CASE RespondBody(c)
        BY <4>1, <4>3 DEF RespondBody
      <4> QED BY <2>3, <4>2, <4>3
    <3> QED BY <1>0, <3>1, WriteWire DEF End, Other
  <2>4. CASE (\E c \in Call : RespondHeader(c) \/ RespondBody(c)) /\ UNCHANGED <<up, cut>>
    BY <2>3, <2>4 DEF Writable
  <2> QED BY <2>1, <2>2, <2>4, ServerStreams
<1>2. ASSUME up'["client"], t # << >> \/ Writable', NEW c \in Call, at[c] = "back"
      PROVE  /\ hat'[c] \in {"none", "done"}
             /\ sat' = "body" => req' # c
             /\ \A i \in 1..Len(q) : q[i].kind = "header" => q[i].call # c
             /\ \A i \in 1..Len(t) : t[i].kind = "body" => t[i].call # c
  <2>1. /\ hat[c] \in {"none", "done"}
        /\ sat = "body" => req # c
        /\ \A i \in 1..Len(r) : r[i].kind = "header" => r[i].call # c
        /\ \A i \in 1..Len(s) : s[i].kind = "body" => s[i].call # c
    BY <1>i, <1>1, <1>2
  <2>2. hat'[c] \in {"none", "done"} /\ (sat' = "body" => req' # c)
    BY <1>a, <2>1
  <2>3. \A i \in 1..Len(q) : q[i].kind = "header" => q[i].call # c
    BY <1>q, <2>1
  <2>4. \A i \in 1..Len(t) : t[i].kind = "body" => t[i].call # c
    BY <1>b, <2>1
  <2> QED BY <2>2, <2>3, <2>4
<1>3. \A i \in 1..Len(t) : t[i].kind = "body" => t[i].call \in Call /\ hat'[t[i].call] = "done"
  BY <1>i, <1>a, <1>b
<1>4. ASSUME NEW i \in 1..Len(t), NEW j \in 1..Len(t), t[i].kind = "body", t[j].kind = "body", t[i].call = t[j].call
      PROVE  i = j
  <2>1. \/ i \in 1..Len(s) /\ t[i] = s[i]
        \/ i = Len(s) + 1 /\ hat[t[i].call] = "resultBody"
    BY <1>b, <1>4
  <2>2. \/ j \in 1..Len(s) /\ t[j] = s[j]
        \/ j = Len(s) + 1 /\ hat[t[j].call] = "resultBody"
    BY <1>b, <1>4
  <2> HIDE DEF s, t
  <2> QED BY <1>i, <1>4, <2>1, <2>2
<1> HIDE DEF s, t, r, q
<1> QED BY <1>0, <1>i, <1>a, <1>2, <1>3, <1>4 DEF InTurn, s, t, r, q

\* What the network takes away was the last.
LEMMA NetworkKeepsRemoteInv ==
    ASSUME WireInv, RemoteInv, day' = day, UNCHANGED <<clientVars, serverVars>>,
           \/ Cut
           \/ UNCHANGED wireVars
    PROVE  InTurn' /\ Results'
<1> DEFINE s == stream["client"]
           t == stream'["client"]
           r == stream["server"]
           q == stream'["server"]
<1>0. /\ UNCHANGED <<at, hand, hat, sat, req, runs, num, rat, respLock, hseq, outcome>>
      /\ WireTypeOK /\ s \in Seq(Message) /\ Len(s) \in Nat /\ r \in Seq(Message) /\ Len(r) \in Nat
  BY Streams DEF clientVars, serverVars, receiverVars, WireInv, TypeOK, End
<1>1. UNCHANGED up /\ Slice(t, s, 0) /\ Slice(q, r, 0) /\ (~Writable' \/ (t = s /\ Writable))
  <2>1. CASE Cut
    BY <1>0, <2>1, CutWire DEF End, Writable
  <2>2. CASE UNCHANGED wireVars
    BY <1>0, <2>2, Streams DEF End, Writable, wireVars
  <2> QED BY <2>1, <2>2
<1>2. /\ \A i \in 1..Len(t) : i \in 1..Len(s) /\ t[i] = s[i]
      /\ \A i \in 1..Len(q) : i \in 1..Len(r) /\ q[i] = r[i]
      /\ t # << >> => s # << >> /\ 1 \in 1..Len(t)
  <2>1. t \in Seq(Message) /\ Len(t) \in Nat /\ q \in Seq(Message) /\ Len(q) \in Nat
    BY <1>1, LenProperties DEF Slice
  <2>2. (\A i \in 1..Len(t) : i + 0 = i) /\ (\A i \in 1..Len(q) : i + 0 = i)
    BY <2>1
  <2>3. t # << >> => s # << >> /\ 1 \in 1..Len(t)
    BY <1>0, <1>1, <2>1, EmptySeq DEF Slice
  <2> QED BY <1>0, <1>1, <2>2, <2>3, SliceElements
<1>3. InTurn'
  <2>1. up'["client"] /\ (t # << >> \/ Writable') => up["client"] /\ (s # << >> \/ Writable)
    BY <1>1, <1>2
  <2> SUFFICES ASSUME day = 1 PROVE InTurn'
    BY DEF InTurn
  <2>2. /\ hand = Nil /\ sat # "dead"
        /\ \A c \in Call : hat[c] \notin {"error", "errorBody"}
        /\ \A c, d \in Call : at[c] \notin {"idle", "back"} /\ at[d] \notin {"idle", "back"} => c = d
        /\ up["client"] /\ (s # << >> \/ Writable) => \A c \in Call : at[c] = "back" =>
              /\ hat[c] \in {"none", "done"}
              /\ sat = "body" => req # c
              /\ \A i \in 1..Len(r) : r[i].kind = "header" => r[i].call # c
              /\ \A i \in 1..Len(s) : s[i].kind = "body" => s[i].call # c
        /\ \A i \in 1..Len(s) : s[i].kind = "body" => s[i].call \in Call /\ hat[s[i].call] = "done"
        /\ \A i, j \in 1..Len(s) : s[i].kind = "body" /\ s[j].kind = "body" /\ s[i].call = s[j].call => i = j
    BY DEF RemoteInv, InTurn
  <2> HIDE DEF s, t, r, q
  <2>3. \A i, j \in 1..Len(t) : t[i].kind = "body" /\ t[j].kind = "body" /\ t[i].call = t[j].call => i = j
    BY <1>2, <2>2
  <2>4. \A i \in 1..Len(t) : t[i].kind = "body" => t[i].call \in Call /\ hat[t[i].call] = "done"
    BY <1>2, <2>2
  <2>5. up'["client"] /\ (t # << >> \/ Writable') => \A c \in Call : at[c] = "back" =>
              /\ hat[c] \in {"none", "done"}
              /\ sat = "body" => req # c
              /\ \A i \in 1..Len(q) : q[i].kind = "header" => q[i].call # c
              /\ \A i \in 1..Len(t) : t[i].kind = "body" => t[i].call # c
    BY <1>2, <2>1, <2>2
  <2> QED BY <1>0, <2>2, <2>3, <2>4, <2>5 DEF InTurn, s, t, r, q
<1>4. Results'
  <2>1. /\ \A i \in 1..Len(s) : s[i].kind = "body" /\ s[i].call \in Call =>
               runs[s[i].call] = 1 /\ s[i].seq = num[s[i].call] /\ s[i].seq # 0
        /\ rat = "body" /\ hand # Nil =>
               IF s # << >> THEN s[1].kind = "body" /\ s[1].seq = num[hand]
                            ELSE Writable => respLock # Nil /\ hseq[respLock] = num[hand]
        /\ \A c \in Call : outcome[c] \in Call => outcome[c] = c /\ runs[c] = 1
    BY DEF RemoteInv, Results
  <2> HIDE DEF s, t, r, q
  <2>2. \A i \in 1..Len(t) : t[i].kind = "body" /\ t[i].call \in Call =>
               runs[t[i].call] = 1 /\ t[i].seq = num[t[i].call] /\ t[i].seq # 0
    BY <1>2, <2>1
  <2>3. rat = "body" /\ hand # Nil =>
               IF t # << >> THEN t[1].kind = "body" /\ t[1].seq = num[hand]
                            ELSE Writable' => respLock # Nil /\ hseq[respLock] = num[hand]
    <3>1. CASE t # << >>
      BY <1>2, <2>1, <3>1
    <3>2. CASE t = << >>
      BY <1>1, <2>1, <3>2
    <3> QED BY <3>1, <3>2
  <2> QED BY <1>0, <2>1, <2>2, <2>3 DEF Results, s, t
<1> QED BY <1>3, <1>4

-----------------------------------------------------------------------------
(* The refinement *)

\* RemoteInv holds at first,
LEMMA InitRemoteInv == Init => RemoteInv
<1> SUFFICES ASSUME Init PROVE RemoteInv
  OBVIOUS
<1> USE NamesAssumption, NilAssumption DEF Init, ClientInit, ServerInit
<1>1. stream["client"] = << >> /\ stream["server"] = <<Msg("option", 0, Nil)>>
  BY DEF WireInit, End
<1>2. /\ Len(<< >>) = 0 /\ Len(<<Msg("option", 0, Nil)>>) = 1
      /\ <<Msg("option", 0, Nil)>>[1] = Msg("option", 0, Nil)
  BY EmptySeq
<1>3. /\ \A i \in 1..Len(stream["client"]) : FALSE
      /\ \A i \in 1..Len(stream["server"]) : stream["server"][i].kind # "header"
  BY <1>1, <1>2 DEF Msg
<1>4. Numbers
  BY <1>3 DEF Numbers
<1>5. Executions
  BY DEF Executions, Fresh
<1>6. Results
  BY <1>3 DEF Results
<1>7. Channels
  <2>1. \A x \in Chan : \A i \in 1..Len(chan[x]) : FALSE
    BY <1>2
  <2> QED BY <2>1 DEF Channels
<1>8. InTurn
  BY <1>3 DEF InTurn
<1> QED BY <1>4, <1>5, <1>6, <1>7, <1>8 DEF RemoteInv

\* and every step keeps it.
LEMMA NextKeepsRemoteInv ==
    ASSUME WireInv, DayInv, RemoteInv, [Next]_vars
    PROVE  RemoteInv'
<1>0. day' = day /\ Numbers /\ Executions /\ Results /\ Channels /\ InTurn /\ TypeOK
  BY DayStays DEF RemoteInv, WireInv
<1>1. Numbers' /\ Executions' /\ Channels'
  BY <1>0, NextKeepsNumbers, NextKeepsExecutions, NextKeepsChannels
<1>2. CASE ClientMoves /\ UNCHANGED serverVars
  <2>1. Results'
    BY <1>0, <1>2, ClientKeepsResults
  <2>2. InTurn'
    BY <1>0, <1>2, ClientKeepsInTurn DEF InTurn
  <2> QED BY <1>1, <2>1, <2>2 DEF RemoteInv
<1>3. CASE ServerMoves /\ UNCHANGED clientVars
  <2>1. Results'
    BY <1>0, <1>3, ServerKeepsResults
  <2>2. InTurn'
    BY <1>0, <1>3, ServerKeepsInTurn DEF InTurn
  <2> QED BY <1>1, <2>1, <2>2 DEF RemoteInv
<1>4. CASE Cut /\ UNCHANGED <<clientVars, serverVars>>
  BY <1>0, <1>1, <1>4, NetworkKeepsRemoteInv DEF RemoteInv
<1>5. CASE UNCHANGED vars
  BY <1>0, <1>1, <1>5, NetworkKeepsRemoteInv DEF RemoteInv, vars
<1> QED BY <1>2, <1>3, <1>4, <1>5, Movers

\* The calls made and what each returned, as RemoteCall sees them.
Asked == {c \in Call : at[c] # "idle"}
Answer == [c \in Call |-> IF c \notin taken THEN Nil
                          ELSE IF outcome[c] \in Call THEN outcome[c]
                          ELSE "error"]

\* An answer stands once it is there.
LEMMA AnswerStays ==
    ASSUME UNCHANGED taken, \A d \in Call : d \in taken => outcome'[d] = outcome[d]
    PROVE  Answer' = Answer
BY DEF Answer

\* A call that is taken returns, its own result or an error.
LEMMA AnswerGiven ==
    ASSUME NEW c \in Call, c \notin taken, taken' = taken \cup {c},
           \A d \in Call : d \in taken => outcome'[d] = outcome[d],
           outcome'[c] \in Call => outcome'[c] = c /\ runs[c] = 1
    PROVE  /\ Answer[c] = Nil
           /\ \/ Answer' = [Answer EXCEPT ![c] = "error"]
              \/ runs[c] = 1 /\ Answer' = [Answer EXCEPT ![c] = c]
<1>1. Answer[c] = Nil
  BY DEF Answer
<1>2. Answer' = [Answer EXCEPT ![c] = IF outcome'[c] \in Call THEN outcome'[c] ELSE "error"]
  BY DEF Answer
<1> QED BY <1>1, <1>2

\* A call that has been taken is complete, and its outcome stands.
LEMMA OutcomeStays ==
    ASSUME WireInv, DayInv, Channels, ClientMoves, NEW d \in taken, outcome'[d] # outcome[d]
    PROVE  FALSE
<1>0. /\ ClientTypeOK /\ d \in Call /\ at \in [Call -> CallerPoints]
      /\ outcome \in [Call -> Errors \cup Call \cup {Nil}]
  BY DEF WireInv, TypeOK, ClientTypeOK
<1>1. ASSUME day = 1 PROVE FALSE
  <2>1. at[d] = "back"
    BY <1>1 DEF Channels
  <2>2. ASSUME NEW c \in Call, Turn(c) \/ MainTurn(c) PROVE outcome'[d] = outcome[d]
    BY <1>0, <2>1, <2>2 DEF Turn, MainTurn, WriteHeader, WriteFails, Written, PassOver,
       AnswerHeader, AnswerBody
  <2>3. Leave => outcome' = outcome
    BY DEF Leave
  <2> QED BY <1>1, <2>2, <2>3, ClientActions
<1>2. ASSUME day # 1 PROVE FALSE
  <2>1. IInv /\ signals[d] = 1
    BY <1>2 DEF Channels, DayInv
  <2>2. at[d] \notin {"idle", "called", "signal"} /\ hand # d /\ ~Open(d)
    BY <1>0, <2>1 DEF IInv, CallFacts, Open
  <2>3. ASSUME NEW c \in Call, Begin(c) \/ Proceed(c) PROVE outcome'[d] = outcome[d]
    <3>1. CASE Refuse(c)
      BY <1>0, <2>2, <3>1 DEF Refuse
    <3>2. CASE Unsend(c)
      BY <1>0, <2>1, <2>2, <3>2 DEF Unsend, Open, IInv, NoLateCalls, PendingAt
    <3> QED BY <2>3, <3>1, <3>2 DEF Begin, Proceed, Register, WriteHeader, WriteBody, WriteFails,
               SendSignal, Take
  <2>4. UserClose => outcome' = outcome
    BY DEF UserClose
  <2>5. CASE Receiving
    <3>1. \/ UNCHANGED outcome
          \/ hand # Nil /\ \E o \in Errors \cup {Head(stream["client"]).call} : outcome' = [outcome EXCEPT ![hand] = o]
          \/ \E c \in left : outcome' = [outcome EXCEPT ![c] = "lost"]
      BY <2>5 DEF Receiving, ReadHeader, ReadHeaderFails, ReadBody, ReadBodyFails, ReceiveSignal,
         Terminate, TerminateCall, TerminateReturn, Errors
    <3>2. d \notin left
      BY <2>1, <2>2 DEF Open, IInv, ReceiverFacts
    <3> QED BY <1>0, <2>2, <3>1, <3>2
  <2> QED BY <1>2, <2>3, <2>4, <2>5, ClientActions
<1> QED BY <1>1, <1>2

\* The steps of the client are those of its callers that ask and return.
LEMMA ClientImplements ==
    ASSUME WireInv, DayInv, RemoteInv, RemoteInv', ClientMoves, UNCHANGED serverVars
    PROVE  [Remote!Next]_(Remote!vars)
<1>0. /\ ClientTypeOK /\ Channels /\ UNCHANGED runs /\ at \in [Call -> CallerPoints]
      /\ \A c \in Call : outcome'[c] \in Call => outcome'[c] = c /\ runs[c] = 1
  BY DEF WireInv, TypeOK, RemoteInv, serverVars, Results, ClientTypeOK
<1>1. \A d \in Call : d \in taken => outcome'[d] = outcome[d]
  BY <1>0, OutcomeStays
<1>2. Remote!vars = <<Asked, runs, Answer>>
  BY DEF Remote!vars, Asked, Answer
<1>3. ASSUME NEW c \in Call, Begin(c) \/ Turn(c) PROVE Remote!Ask(c)
  <2>1. at[c] = "idle" /\ UNCHANGED taken /\ \E p \in {"called", "header"} : at' = [at EXCEPT ![c] = p]
    BY <1>3 DEF Begin, Turn
  <2>2. c \notin Asked /\ Asked' = Asked \cup {c}
    BY <1>0, <2>1 DEF Asked
  <2>3. Answer' = Answer
    BY <1>1, <2>1, AnswerStays
  <2> QED BY <1>0, <2>2, <2>3 DEF Remote!Ask, Asked, Answer
<1>4. ASSUME NEW c \in Call, c \in Asked, c \notin taken, taken' = taken \cup {c}, Asked' = Asked PROVE Remote!Return(c)
  <2>1. /\ Answer[c] = Nil
        /\ \/ Answer' = [Answer EXCEPT ![c] = "error"]
           \/ runs[c] = 1 /\ Answer' = [Answer EXCEPT ![c] = c]
    BY <1>0, <1>1, <1>4, AnswerGiven
  <2> QED BY <1>0, <1>4, <2>1 DEF Remote!Return, Asked, Answer
<1>5. ASSUME UNCHANGED taken, Asked' = Asked PROVE UNCHANGED Remote!vars
  <2>1. Answer' = Answer
    BY <1>1, <1>5, AnswerStays
  <2> QED BY <1>0, <1>2, <1>5, <2>1 DEF Remote!vars, Asked, Answer
<1>6. ASSUME NEW c \in Call, Proceed(c) \/ MainTurn(c) PROVE Asked' = Asked
  <2>1. /\ at[c] # "idle"
        /\ at' = at \/ \E p \in CallerPoints \ {"idle"} : at' = [at EXCEPT ![c] = p]
    BY <1>6 DEF Proceed, Register, Refuse, WriteHeader, WriteBody, WriteFails, Unsend, SendSignal,
       Take, MainTurn, Written, PassOver, AnswerHeader, AnswerBody, CallerPoints
  <2> QED BY <1>0, <2>1 DEF Asked
<1>7. ASSUME NEW c \in Call, Take(c), day # 1 PROVE Remote!Next
  <2>1. /\ Head(chan[Done[c]]) \in Call /\ Head(chan[Done[c]]) \notin taken /\ signals[Head(chan[Done[c]])] = 1
    <3>1. day' = day
      BY <1>7 DEF Take, wireVars, fixed
    <3> QED BY <1>0, <1>7, <3>1, TakeKeepsChannels
  <2>2. Head(chan[Done[c]]) \in Asked
    BY <1>7, <2>1 DEF Asked, DayInv, IInv, CallFacts
  <2>3. taken' = taken \cup {Head(chan[Done[c]])} /\ Asked' = Asked
    BY <1>6, <1>7 DEF Take, Proceed
  <2> QED BY <1>4, <2>1, <2>2, <2>3 DEF Remote!Next
<1>8. ASSUME NEW c \in Call, AnswerBody(c), day = 1 PROVE Remote!Next
  <2>1. c \in Asked /\ taken' = taken \cup {c} /\ Asked' = Asked
    BY <1>6, <1>8 DEF AnswerBody, MainTurn, Asked
  <2>2. c \notin taken
    BY <1>0, <1>8 DEF AnswerBody, Channels
  <2> QED BY <1>4, <2>1, <2>2 DEF Remote!Next
<1>9. CASE day = 1
  <2>1. ASSUME NEW c \in Call, MainTurn(c), ~AnswerBody(c) PROVE UNCHANGED taken
    BY <2>1 DEF MainTurn, WriteHeader, WriteFails, Written, PassOver, AnswerHeader
  <2>2. Leave => UNCHANGED taken /\ Asked' = Asked
    BY DEF Leave, Asked
  <2> QED BY <1>3, <1>5, <1>6, <1>8, <1>9, <2>1, <2>2, ClientActions DEF Remote!Next
<1>10. CASE day # 1
  <2>1. ASSUME NEW c \in Call, Proceed(c), ~Take(c) PROVE UNCHANGED taken
    BY <2>1 DEF Proceed, Register, Refuse, WriteHeader, WriteBody, WriteFails, Unsend, SendSignal
  <2>2. UserClose \/ Receiving => UNCHANGED taken /\ Asked' = Asked
    BY DEF UserClose, Receiving, ReadHeader, ReadHeaderFails, ReadBody, ReadBodyFails,
       ReceiveSignal, Terminate, TerminateCall, TerminateReturn, callerVars, Asked
  <2> QED BY <1>3, <1>5, <1>6, <1>7, <1>10, <2>1, <2>2, ClientActions DEF Remote!Next
<1> QED BY <1>9, <1>10

\* Those of the server are its executions.
LEMMA ServerImplements ==
    ASSUME WireInv, RemoteInv, ServerMoves, UNCHANGED clientVars
    PROVE  [Remote!Next]_(Remote!vars)
<1>0. Asked' = Asked /\ Answer' = Answer /\ Executions /\ Requests
  BY DEF Asked, Answer, clientVars, RemoteInv, WireInv
<1>1. ASSUME NEW c \in Call, CallMethod(c) \/ Echo(c) \/ MethodPanics(c) PROVE Remote!Execute(c)
  <2>1. hat[c] = "run" /\ runs' = [runs EXCEPT ![c] = runs[c] + 1]
    BY <1>1 DEF CallMethod, Echo, MethodPanics
  <2>2. runs[c] = 0
    BY <1>0, <2>1 DEF Executions
  <2>3. c \in Asked
    BY <1>0, <2>1 DEF Requests, Fresh, Asked
  <2>4. runs' = [runs EXCEPT ![c] = 1]
    BY <2>1, <2>2
  <2> QED BY <1>0, <2>2, <2>3, <2>4 DEF Remote!Execute, Asked, Answer
<1>2. \/ UNCHANGED runs
      \/ \E c \in Call : CallMethod(c) \/ Echo(c) \/ MethodPanics(c)
  BY ServerActions DEF ReaderActions, HandlerActions, ReadOption, ReadRequest, ReadUnknown,
     ReadRequestFails, ReadArgs, ReadArgsMisfit, ReadArgsFails, Refused, EchoRequest, EchoArgs,
     ReadOptionFails, ReadPanics, Drained, RespondHeader, RespondBody, RespondFails, Die
<1>3. UNCHANGED runs => UNCHANGED Remote!vars
  BY <1>0 DEF Remote!vars, Asked, Answer
<1> QED BY <1>1, <1>2, <1>3 DEF Remote!Next

\* A client and a server are an at-most-once remote call: a call executes its method at
\* most once, and what it returns, once, is the result of its own execution or an error,
\* with any number of calls on any channels, in whatever order responses come and
\* wherever the connection ends.
THEOREM CallsAtMostOnce == Spec => Remote!SafeSpec
<1>1. Init => Remote!Init
  BY DEF Init, ClientInit, ServerInit, Remote!Init
<1>2. ASSUME WireInv, DayInv, RemoteInv, RemoteInv', [Next]_vars
      PROVE  [Remote!Next]_(Remote!vars)
  <2>1. CASE ClientMoves /\ UNCHANGED serverVars
    BY <1>2, <2>1, ClientImplements
  <2>2. CASE ServerMoves /\ UNCHANGED clientVars
    BY <1>2, <2>2, ServerImplements
  <2>3. CASE UNCHANGED <<clientVars, serverVars>>
    BY <2>3 DEF clientVars, serverVars, Remote!vars
  <2> QED BY <1>2, <2>1, <2>2, <2>3, Movers DEF vars
<1>3. Spec => []RemoteInv
  BY InitRemoteInv, NextKeepsRemoteInv, WireInvariance, PTL DEF Spec
<1> QED BY <1>1, <1>2, <1>3, WireInvariance, PTL DEF Spec, Remote!SafeSpec
=============================================================================
