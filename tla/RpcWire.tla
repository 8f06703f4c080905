------------------------------ MODULE RpcWire ------------------------------
(***************************************************************************)
(* geerpc/codec/gob.go on one TCP connection: what the two ends of geerpc  *)
(* write and read.                                                         *)
(*                                                                         *)
(* A stream is a sequence of gob messages: a header or a body.  TCP keeps  *)
(* their order and may lose the last ones when the connection ends.  A     *)
(* write that fails goes unnoticed (the codec ignores the error of Flush); *)
(* the buffer remembers it, and the next Write returns it.                 *)
(***************************************************************************)
EXTENDS Integers, Sequences, FiniteSets

CONSTANTS
    Days,       \* which of the days 1 to 3
    Call,       \* calls of the client, one goroutine each
    What,       \* [Call -> SUBSET Whats]: what each call may ask for
    Nil

\* The cases of a call the code tells apart: its method answers, returns an
\* error, panics; its service or method is not registered; its name has no dot, or
\* its method declares a reply that is no pointer; its arguments are not the
\* method's, or cannot be encoded; the method's reply is not what the caller
\* decodes into, or cannot be encoded.
Whats == {"answers", "fails", "panics", "unknown", "illformed",
          "misfit", "unencodable", "badreply", "unsendable"}

\* Before day 3 there are no services: each request is a string, and the answer
\* another; day 1 makes its own, which are.
Possible(d) == CASE d = 1 -> {"answers"}
                 [] d = 2 -> {"answers", "misfit", "unencodable", "badreply"}
                 [] d = 3 -> Whats

ASSUME DaysAssumption == Days \subseteq 1..3
ASSUME NilAssumption == Nil \notin Call
ASSUME WhatAssumption == What \in [Call -> SUBSET Whats]

VARIABLES
    day,        \* whose code runs (never changes)
    what,       \* what each call asks for (never changes)
    stream,     \* messages on their way to each end
    up,         \* whether each end is still open
    cut,        \* whether the network has dropped the connection
    bad         \* whether each end's write buffer holds an error

fixed == <<day, what>>
wireVars == <<fixed, stream, up, cut, bad>>

End == {"client", "server"}
Other(e) == IF e = "client" THEN "server" ELSE "client"

\* "header" and "error" are headers, without and with an error text; call says
\* which call a request is for, or of which call a response holds the result.
Message == [kind : {"option", "header", "error", "body"}, seq : Nat, call : Call \cup {Nil}]
Msg(kind, seq, call) == [kind |-> kind, seq |-> seq, call |-> call]

WireInit == /\ day \in Days
            /\ what \in {w \in [Call -> Whats] : \A c \in Call : w[c] \in What[c] \cap Possible(day)}
            /\ stream = [e \in End |-> IF e = "server" THEN <<Msg("option", 0, Nil)>> ELSE << >>]
            /\ up = [e \in End |-> TRUE]
            /\ cut = FALSE
            /\ bad = [e \in End |-> FALSE]

WireTypeOK == /\ day \in Days
              /\ what \in [Call -> Whats]
              /\ stream \in [End -> Seq(Message)]
              /\ up \in [End -> BOOLEAN]
              /\ cut \in BOOLEAN
              /\ bad \in [End -> BOOLEAN]

\* There is a message for end e to read, and it is of one of the kinds.
Arrived(e, kinds) == up[e] /\ stream[e] # << >> /\ Head(stream[e]).kind \in kinds

Read(e) == /\ stream' = [stream EXCEPT ![e] = Tail(@)]
           /\ UNCHANGED <<fixed, up, cut, bad>>

\* A read of end e fails: it has closed the connection itself, or all that will
\* ever come has been read.
ReadFails(e) == ~up[e] \/ (stream[e] = << >> /\ (cut \/ ~up[Other(e)]))

\* Encode and, at the latest when Write returns, Flush: an error of Flush stays
\* in the buffer.
Write(e, message) ==
    /\ ~bad[e]
    /\ IF up[e] /\ up[Other(e)] /\ ~cut
       THEN /\ stream' = [stream EXCEPT ![Other(e)] = Append(@, message)]
            /\ UNCHANGED bad
       ELSE /\ bad' \in {bad, [bad EXCEPT ![e] = TRUE]}
            /\ UNCHANGED stream
    /\ UNCHANGED <<fixed, up, cut>>

\* conn.Close.  The other end reads what was sent before; if this end had unread
\* data, TCP resets the connection and the last messages sent may be lost.
Close(e) ==
    /\ up' = [up EXCEPT ![e] = FALSE]
    /\ \E n \in IF stream[e] = << >> THEN {Len(stream[Other(e)])}
                                     ELSE 0..Len(stream[Other(e)]) :
          stream' = [stream EXCEPT ![e] = << >>, ![Other(e)] = SubSeq(@, 1, n)]
    /\ UNCHANGED <<fixed, cut, bad>>

\* The network drops the connection with the last messages of each direction.
Cut == /\ ~cut
       /\ cut' = TRUE
       /\ \E n \in 0..Len(stream["client"]), k \in 0..Len(stream["server"]) :
             stream' = [stream EXCEPT !["client"] = SubSeq(@, 1, n), !["server"] = SubSeq(@, 1, k)]
       /\ UNCHANGED <<fixed, up, bad>>
=============================================================================
