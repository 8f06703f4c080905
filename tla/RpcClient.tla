----------------------------- MODULE RpcClient -----------------------------
(***************************************************************************)
(* geerpc/client.go: goroutines call Go or Call on one Client, receive()   *)
(* reads the responses, anybody may Close.                                 *)
(*                                                                         *)
(* A step is what runs between two points where another goroutine can get  *)
(* in: client.sending is held from registerCall to the end of Write and by *)
(* terminateCalls, client.mu across steps by terminateCalls alone (done()  *)
(* blocks when the caller's channel is full).                              *)
(***************************************************************************)
EXTENDS RpcWire

CONSTANTS
    Chan,       \* channels that calls complete on
    Done,       \* [Call -> Chan]: the channel handed to Go
    Cap         \* [Chan -> Nat]: their capacities; Go refuses 0

ASSUME ChanAssumption == Done \in [Call -> Chan] /\ Cap \in [Chan -> Nat \ {0}]

VARIABLES
    at,         \* where each caller is
    num,        \* call.Seq
    outcome,    \* call.Error or, without one, whose result call.Reply holds
    seq,        \* client.seq
    pending,    \* the calls of client.pending, each under its num
    closing, shutdown,
    sending,    \* who holds client.sending
    rat,        \* where receive() is
    hand,       \* the call receive() has removed from pending
    hdr,        \* the kind of the header receive() has read
    left,       \* calls that terminateCalls has still to complete
    chan,       \* contents of the channels
    taken,      \* calls that a caller has received from a channel
    signals     \* history: how often done() has run for each call

clientVars == <<at, num, outcome, seq, pending, closing, shutdown, sending,
                rat, hand, hdr, left, chan, taken, signals>>

\* Before Go; wants client.sending; to write the header; to write the body;
\* Write has failed; to run done(); waits on the channel; has got a call.  The main
\* program of day 1 reads the answer itself.
CallerPoints == {"idle", "called", "header", "body", "failed", "signal", "wait", "back", "asked"}
\* Reads a header; reads a body; to run done(), then to go on or to stop; wants
\* client.sending; in terminateCalls; over.
ReceiverPoints == {"header", "body", "signal", "signalStop", "stop", "terminate", "over"}
Receive == "receive"
\* The errors of a call; on day 1 the empty reply of a call whose errors are passed over.
Errors == {"shutdown", "write", "lost", "server", "body", "empty"}

ASSUME NamesAssumption == (Errors \cup {Receive, Nil}) \cap Call = {} /\ Nil \notin Errors \cup {Receive}

ClientInit ==
    /\ at = [c \in Call |-> "idle"]
    /\ num = [c \in Call |-> 0]
    /\ outcome = [c \in Call |-> Nil]
    /\ seq = 1
    /\ pending = {}
    /\ closing = FALSE /\ shutdown = FALSE
    /\ sending = Nil
    /\ rat = "header" /\ hand = Nil /\ hdr = "header" /\ left = {}
    /\ chan = [ch \in Chan |-> << >>]
    /\ taken = {}
    /\ signals = [c \in Call |-> 0]

\* removeCall finds the call with number n, if any.
PendingAt(n) == {c \in pending : num[c] = n}

\* call.done(): blocks while the channel is full.
Signal(c) == /\ Len(chan[Done[c]]) < Cap[Done[c]]
             /\ chan' = [chan EXCEPT ![Done[c]] = Append(@, c)]
             /\ signals' = [signals EXCEPT ![c] = @ + 1]

receiverVars == <<rat, hand, hdr, left>>
signalVars == <<chan, signals>>

-----------------------------------------------------------------------------
(* Go and send, Call *)

Begin(c) == /\ at[c] = "idle"
            /\ at' = [at EXCEPT ![c] = "called"]
            /\ UNCHANGED <<num, outcome, seq, pending, closing, shutdown, sending,
                           receiverVars, signalVars, taken, wireVars>>

\* sending.Lock, registerCall.
Register(c) == /\ at[c] = "called"
               /\ sending = Nil
               /\ ~closing /\ ~shutdown
               /\ sending' = c
               /\ num' = [num EXCEPT ![c] = seq]
               /\ pending' = pending \cup {c}
               /\ seq' = seq + 1
               /\ at' = [at EXCEPT ![c] = "header"]
               /\ UNCHANGED <<outcome, closing, shutdown, receiverVars, signalVars, taken, wireVars>>

\* sending.Lock, and registerCall refuses.
Refuse(c) == /\ at[c] = "called"
             /\ sending = Nil
             /\ closing \/ shutdown
             /\ sending' = c
             /\ outcome' = [outcome EXCEPT ![c] = "shutdown"]
             /\ at' = [at EXCEPT ![c] = "signal"]
             /\ UNCHANGED <<num, seq, pending, closing, shutdown, receiverVars, signalVars, taken, wireVars>>

WriteHeader(c) == /\ at[c] = "header"
                  /\ Write("client", Msg("header", num[c], c))
                  /\ at' = [at EXCEPT ![c] = "body"]
                  /\ UNCHANGED <<num, outcome, seq, pending, closing, shutdown, sending,
                                 receiverVars, signalVars, taken>>

\* Write returns, and send with it.
WriteBody(c) == /\ at[c] = "body"
                /\ what[c] # "unencodable"
                /\ Write("client", Msg("body", num[c], c))
                /\ sending' = Nil
                /\ at' = [at EXCEPT ![c] = "wait"]
                /\ UNCHANGED <<num, outcome, seq, pending, closing, shutdown,
                               receiverVars, signalVars, taken>>

\* Encode fails, on an error of the buffer or of the arguments: Write closes the
\* connection and returns the error.
WriteFails(c) == /\ \/ at[c] \in {"header", "body"} /\ bad["client"]
                    \/ at[c] = "body" /\ what[c] = "unencodable"
                 /\ Close("client")
                 /\ at' = [at EXCEPT ![c] = "failed"]
                 /\ UNCHANGED <<num, outcome, seq, pending, closing, shutdown, sending,
                                receiverVars, signalVars, taken>>

\* After a failed Write: removeCall, and nothing more if receive has had the call.
Unsend(c) ==
    /\ at[c] = "failed"
    /\ \/ /\ c \in PendingAt(num[c])
          /\ pending' = pending \ {c}
          /\ outcome' = [outcome EXCEPT ![c] = "write"]
          /\ at' = [at EXCEPT ![c] = "signal"]
          /\ UNCHANGED sending
       \/ /\ PendingAt(num[c]) = {}
          /\ sending' = Nil
          /\ at' = [at EXCEPT ![c] = "wait"]
          /\ UNCHANGED <<pending, outcome>>
    /\ UNCHANGED <<num, seq, closing, shutdown, receiverVars, signalVars, taken, wireVars>>

\* done() in send, with client.sending held.
SendSignal(c) == /\ at[c] = "signal"
                 /\ Signal(c)
                 /\ sending' = Nil
                 /\ at' = [at EXCEPT ![c] = "wait"]
                 /\ UNCHANGED <<num, outcome, seq, pending, closing, shutdown, receiverVars, taken, wireVars>>

\* The caller receives a completed call: its own, unless callers share a channel.
Take(c) == /\ at[c] = "wait"
           /\ chan[Done[c]] # << >>
           /\ taken' = taken \cup {Head(chan[Done[c]])}
           /\ chan' = [chan EXCEPT ![Done[c]] = Tail(@)]
           /\ at' = [at EXCEPT ![c] = "back"]
           /\ UNCHANGED <<num, outcome, seq, pending, closing, shutdown, sending,
                          receiverVars, signals, wireVars>>

Proceed(c) == \/ Register(c) \/ Refuse(c)
              \/ WriteHeader(c) \/ WriteBody(c) \/ WriteFails(c)
              \/ Unsend(c) \/ SendSignal(c) \/ Take(c)

-----------------------------------------------------------------------------
(* receive and terminateCalls *)

callerVars == <<at, num, seq, closing, taken>>

\* ReadHeader and removeCall.
ReadHeader ==
    /\ rat = "header"
    /\ Arrived("client", {"header", "error"})
    /\ \/ \E c \in PendingAt(Head(stream["client"]).seq) :
             hand' = c /\ pending' = pending \ {c}
       \/ /\ PendingAt(Head(stream["client"]).seq) = {}
          /\ hand' = Nil /\ UNCHANGED pending
    /\ hdr' = Head(stream["client"]).kind
    /\ Read("client")
    /\ rat' = "body"
    /\ UNCHANGED <<callerVars, outcome, shutdown, sending, left, signalVars>>

ReadHeaderFails ==
    /\ rat = "header"
    /\ ReadFails("client") \/ Arrived("client", {"body", "option"})
    /\ rat' = "stop"
    /\ UNCHANGED <<callerVars, pending, outcome, shutdown, sending, hand, hdr, left, signalVars, wireVars>>

\* The body is a result, and of the type of call.Reply.
Fits == what[hand] # "badreply" /\ Head(stream["client"]).call \in Call

\* ReadBody into nothing, because there is no call or the header has an error, or
\* into call.Reply, which may be of another type than the result.
ReadBody ==
    /\ rat = "body"
    /\ Arrived("client", {"body"})
    /\ Read("client")
    /\ CASE hand = Nil -> rat' = "header" /\ UNCHANGED outcome
         [] hand # Nil /\ hdr = "error" ->
               rat' = "signal" /\ outcome' = [outcome EXCEPT ![hand] = "server"]
         [] hand # Nil /\ hdr # "error" /\ Fits ->
               rat' = "signal" /\ outcome' = [outcome EXCEPT ![hand] = Head(stream["client"]).call]
         [] hand # Nil /\ hdr # "error" /\ ~Fits ->
               rat' = "signalStop" /\ outcome' = [outcome EXCEPT ![hand] = "body"]
    /\ UNCHANGED <<callerVars, pending, shutdown, sending, hand, hdr, left, signalVars>>

ReadBodyFails ==
    /\ rat = "body"
    /\ ReadFails("client") \/ Arrived("client", {"header", "error", "option"})
    /\ IF hand = Nil
       THEN rat' = "stop" /\ UNCHANGED outcome
       ELSE /\ rat' = "signalStop"
            /\ outcome' = [outcome EXCEPT ![hand] = IF hdr = "error" THEN "server" ELSE "body"]
    /\ UNCHANGED <<callerVars, pending, shutdown, sending, hand, hdr, left, signalVars, wireVars>>

ReceiveSignal ==
    /\ rat \in {"signal", "signalStop"}
    /\ Signal(hand)
    /\ rat' = IF rat = "signal" THEN "header" ELSE "stop"
    /\ hand' = Nil /\ hdr' = "header"
    /\ UNCHANGED <<callerVars, pending, outcome, shutdown, sending, left, wireVars>>

\* Mutants of Terminate: client.sending is not taken; shutdown is not set; the loop
\* ranges over the numbers of the calls.
TerminateUnlocked ==
    /\ rat = "stop"
    /\ shutdown' = TRUE
    /\ left' = pending
    /\ rat' = "terminate"
    /\ UNCHANGED <<callerVars, pending, outcome, sending, hand, hdr, signalVars, wireVars>>
TerminateUnmarked ==
    /\ rat = "stop"
    /\ sending = Nil
    /\ sending' = Receive
    /\ left' = pending
    /\ rat' = "terminate"
    /\ UNCHANGED <<callerVars, pending, outcome, shutdown, hand, hdr, signalVars, wireVars>>

TerminateKeys ==
    /\ rat = "stop"
    /\ sending = Nil
    /\ sending' = Receive
    /\ shutdown' = TRUE
    /\ left' = {num[c] : c \in pending}
    /\ rat' = "terminate"
    /\ UNCHANGED <<callerVars, pending, outcome, hand, hdr, signalVars, wireVars>>

\* sending.Lock, mu.Lock.
Terminate ==
    /\ rat = "stop"
    /\ sending = Nil
    /\ sending' = Receive
    /\ shutdown' = TRUE
    /\ left' = pending
    /\ rat' = "terminate"
    /\ UNCHANGED <<callerVars, pending, outcome, hand, hdr, signalVars, wireVars>>

\* A turn of the loop over pending, which the map's order does not fix.
TerminateCall(c) ==
    /\ rat = "terminate"
    /\ c \in left
    /\ outcome' = [outcome EXCEPT ![c] = "lost"]
    /\ Signal(c)
    /\ left' = left \ {c}
    /\ UNCHANGED <<callerVars, pending, shutdown, sending, rat, hand, hdr, wireVars>>

TerminateReturn ==
    /\ rat = "terminate"
    /\ left = {}
    /\ sending' = Nil
    /\ rat' = "over"
    /\ UNCHANGED <<callerVars, pending, outcome, shutdown, hand, hdr, left, signalVars, wireVars>>

Receiving == \/ ReadHeader \/ ReadHeaderFails
             \/ ReadBody \/ ReadBodyFails
             \/ ReceiveSignal
             \/ Terminate \/ (\E c \in Call : TerminateCall(c)) \/ TerminateReturn

\* Client.Close; a second one returns ErrShutDown and changes nothing.
UserClose ==
    /\ ~closing
    /\ rat # "terminate"
    /\ closing' = TRUE
    /\ Close("client")
    /\ UNCHANGED <<at, num, outcome, seq, pending, shutdown, sending, receiverVars, signalVars, taken>>

ClientNext == (\E c \in Call : Begin(c) \/ Proceed(c)) \/ Receiving \/ UserClose

\* The client among any steps of the server and the network.
ClientSpec == ClientInit /\ [][ClientNext]_clientVars

-----------------------------------------------------------------------------
ClientTypeOK ==
    /\ at \in [Call -> CallerPoints]
    /\ num \in [Call -> Nat]
    /\ outcome \in [Call -> Errors \cup Call \cup {Nil}]
    /\ seq \in Nat
    /\ pending \subseteq Call
    /\ closing \in BOOLEAN /\ shutdown \in BOOLEAN
    /\ sending \in Call \cup {Receive, Nil}
    /\ rat \in ReceiverPoints
    /\ hand \in Call \cup {Nil}
    /\ hdr \in {"header", "error"}
    /\ left \subseteq Call
    /\ chan \in [Chan -> Seq(Call)]
    /\ taken \subseteq Call
    /\ signals \in [Call -> Nat]

\* done() runs at most once for a call, and after its outcome is set, whatever
\* responses, failed writes, a lost connection and Close do in whatever order
\* (client.go:243, 101-112): a second done() on Call's channel of one would block
\* for ever, with the client's locks held.
CompletesOnce ==
    \A c \in Call : signals[c] <= 1 /\ (signals[c] = 1 => outcome[c] # Nil)

\* No call is forgotten: one that was sent is pending under its number, or in the
\* hands of receive, or completed; and once receive is over, which nobody could
\* complete it after, it is completed.
NoneForgotten ==
    \A c \in Call : day # 1 /\ at[c] \in {"wait", "back"} =>
        \/ signals[c] = 1
        \/ hand = c
        \/ rat # "over" /\ c \in pending
=============================================================================
