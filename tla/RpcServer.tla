----------------------------- MODULE RpcServer -----------------------------
(***************************************************************************)
(* geerpc/server.go and service.go: one connection.  ServerConn reads the  *)
(* Option and then one request after another; each request whose method    *)
(* and arguments it finds is handled by a goroutine of its own, and the    *)
(* responses share the codec under serverCodec's mutex `sending'.          *)
(***************************************************************************)
EXTENDS RpcWire

VARIABLES
    sat,        \* where ServerConn is
    req,        \* the call of the request in its hands
    garbled,    \* the Option's decoder has taken bytes of the requests as well
    hat,        \* where the answering of each request is
    hseq,       \* h.Seq of each request
    respLock,   \* the request whose response is being written, or Nil
    runs        \* history: how often the method was called for each call

serverVars == <<sat, req, garbled, hat, hseq, respLock, runs>>

\* Reads the Option; reads a header; reads a body; answers a refusal itself;
\* waits for the handlers; has closed the connection; the process has died.
ServerPoints == {"option", "header", "body", "refusing", "drain", "closed", "dead"}
\* No request yet; to call the method; to write the response, or that of an error;
\* the header of either is written; answered.
HandlerPoints == {"none", "run", "result", "error", "resultBody", "errorBody", "done"}

ServerInit == /\ sat = "option"
              /\ req = Nil
              /\ garbled = FALSE
              /\ hat = [c \in Call |-> "none"]
              /\ hseq = [c \in Call |-> 0]
              /\ respLock = Nil
              /\ runs = [c \in Call |-> 0]

Head1 == Head(stream["server"])

\* A panic that nobody recovers: the process dies, and the system closes its end.
Die == /\ Close("server")
       /\ sat' = "dead"
       /\ hat' = [c \in Call |-> "none"]

-----------------------------------------------------------------------------
(* ServerConn and serverCodec *)

\* The JSON decoder reads what has arrived, and keeps for itself what follows the
\* Option.
ReadOption ==
    /\ sat = "option"
    /\ Arrived("server", {"option"})
    /\ \E n \in 1..Len(stream["server"]) :
          /\ stream' = [stream EXCEPT !["server"] = SubSeq(@, n + 1, Len(@))]
          /\ garbled' = (n > 1)
    /\ sat' = "header"
    /\ UNCHANGED <<fixed, up, cut, bad, req, hat, hseq, respLock, runs>>

ReadOptionFails ==
    /\ sat = "option"
    /\ ReadFails("server")
    /\ Close("server")
    /\ sat' = "closed"
    /\ UNCHANGED <<req, garbled, hat, hseq, respLock, runs>>

\* readRequest: a header whose method findService finds.
ReadRequest ==
    /\ sat = "header"
    /\ Arrived("server", {"header"}) /\ ~garbled
    /\ what[Head1.call] \notin {"unknown", "illformed"}
    /\ req' = Head1.call
    /\ hseq' = [hseq EXCEPT ![Head1.call] = Head1.seq]
    /\ Read("server")
    /\ sat' = "body"
    /\ UNCHANGED <<garbled, hat, respLock, runs>>

\* findService finds no service or method; the body stays unread.
ReadUnknown ==
    /\ sat = "header"
    /\ Arrived("server", {"header"}) /\ ~garbled
    /\ what[Head1.call] = "unknown"
    /\ req' = Head1.call
    /\ hseq' = [hseq EXCEPT ![Head1.call] = Head1.seq]
    /\ hat' = [hat EXCEPT ![Head1.call] = "error"]
    /\ Read("server")
    /\ sat' = "refusing"
    /\ UNCHANGED <<garbled, respLock, runs>>

\* findService slices a name without a dot at -1; newReplyv asks for the element of a
\* type that is no pointer, which registerMethods has let pass.
ReadPanics ==
    /\ sat = "header"
    /\ Arrived("server", {"header"}) /\ ~garbled
    /\ what[Head1.call] = "illformed"
    /\ Die
    /\ UNCHANGED <<req, garbled, hseq, respLock, runs>>

\* ReadHeader fails: the connection is at its end, or what comes is no header.
ReadRequestFails ==
    /\ sat = "header"
    /\ \/ ReadFails("server")
       \/ Arrived("server", {"body"})
       \/ Arrived("server", {"header"}) /\ garbled
    /\ sat' = "drain"
    /\ UNCHANGED <<req, garbled, hat, hseq, respLock, runs, wireVars>>

\* ReadBody, wg.Add, and a goroutine for the request.
ReadArgs ==
    /\ sat = "body"
    /\ Arrived("server", {"body"})
    /\ what[req] # "misfit"
    /\ Read("server")
    /\ hat' = [hat EXCEPT ![req] = "run"]
    /\ sat' = "header" /\ req' = Nil
    /\ UNCHANGED <<garbled, hseq, respLock, runs>>

\* The arguments are not the method's.
ReadArgsMisfit ==
    /\ sat = "body"
    /\ Arrived("server", {"body"})
    /\ what[req] = "misfit"
    /\ Read("server")
    /\ hat' = [hat EXCEPT ![req] = "error"]
    /\ sat' = "refusing"
    /\ UNCHANGED <<req, garbled, hseq, respLock, runs>>

\* No body comes.
ReadArgsFails ==
    /\ sat = "body"
    /\ ReadFails("server")
    /\ hat' = [hat EXCEPT ![req] = "error"]
    /\ sat' = "refusing"
    /\ UNCHANGED <<req, garbled, hseq, respLock, runs, wireVars>>

\* sendResponse has returned, and the loop goes on.
Refused ==
    /\ sat = "refusing"
    /\ hat[req] = "done"
    /\ sat' = "header" /\ req' = Nil
    /\ UNCHANGED <<garbled, hat, hseq, respLock, runs, wireVars>>

\* wg.Wait, cc.Close.
Drained ==
    /\ sat = "drain"
    /\ \A c \in Call : hat[c] \in {"none", "done"}
    /\ Close("server")
    /\ sat' = "closed"
    /\ UNCHANGED <<req, garbled, hat, hseq, respLock, runs>>

\* Before day 3: readRequest takes any header,
EchoRequest ==
    /\ sat = "header"
    /\ Arrived("server", {"header"}) /\ ~garbled
    /\ req' = Head1.call
    /\ hseq' = [hseq EXCEPT ![Head1.call] = Head1.seq]
    /\ Read("server")
    /\ sat' = "body"
    /\ UNCHANGED <<garbled, hat, respLock, runs>>

\* and any body; an error, whether none comes or it is no string, is only logged.
EchoArgs ==
    /\ sat = "body"
    /\ \/ Arrived("server", {"body"}) /\ Read("server")
       \/ ReadFails("server") /\ UNCHANGED wireVars
    /\ hat' = [hat EXCEPT ![req] = "run"]
    /\ sat' = "header" /\ req' = Nil
    /\ UNCHANGED <<garbled, hseq, respLock, runs>>

-----------------------------------------------------------------------------
(* handleRequest and sendResponse *)

\* service.call: the method returns.
CallMethod(c) ==
    /\ hat[c] = "run"
    /\ what[c] # "panics"
    /\ runs' = [runs EXCEPT ![c] = @ + 1]
    /\ hat' = [hat EXCEPT ![c] = IF what[c] = "fails" THEN "error" ELSE "result"]
    /\ UNCHANGED <<sat, req, garbled, hseq, respLock, wireVars>>

\* The method panics.
MethodPanics(c) ==
    /\ hat[c] = "run"
    /\ what[c] = "panics"
    /\ runs' = [runs EXCEPT ![c] = @ + 1]
    /\ Die
    /\ UNCHANGED <<req, garbled, hseq, respLock>>

\* Before day 3 the request itself makes the answer.
Echo(c) ==
    /\ hat[c] = "run"
    /\ runs' = [runs EXCEPT ![c] = @ + 1]
    /\ hat' = [hat EXCEPT ![c] = "result"]
    /\ UNCHANGED <<sat, req, garbled, hseq, respLock, wireVars>>

\* Mutants of RespondHeader: the responses are not kept apart; requests share one
\* header, which holds the number of the last that was read.
RespondHeaderUnlocked(c) ==
    /\ hat[c] \in {"result", "error"}
    /\ Write("server", Msg(IF hat[c] = "result" THEN "header" ELSE "error", hseq[c], Nil))
    /\ respLock' = c
    /\ hat' = [hat EXCEPT ![c] = IF @ = "result" THEN "resultBody" ELSE "errorBody"]
    /\ UNCHANGED <<sat, req, garbled, hseq, runs>>

RespondHeaderShared(c) ==
    /\ hat[c] \in {"result", "error"}
    /\ respLock = Nil
    /\ \E d \in Call : /\ \A x \in Call : hseq[x] <= hseq[d]
                      /\ Write("server", Msg(IF hat[c] = "result" THEN "header" ELSE "error", hseq[d], Nil))
    /\ respLock' = c
    /\ hat' = [hat EXCEPT ![c] = IF @ = "result" THEN "resultBody" ELSE "errorBody"]
    /\ UNCHANGED <<sat, req, garbled, hseq, runs>>

\* sending.Lock, and Write's header.
RespondHeader(c) ==
    /\ hat[c] \in {"result", "error"}
    /\ respLock = Nil
    /\ Write("server", Msg(IF hat[c] = "result" THEN "header" ELSE "error", hseq[c], Nil))
    /\ respLock' = c
    /\ hat' = [hat EXCEPT ![c] = IF @ = "result" THEN "resultBody" ELSE "errorBody"]
    /\ UNCHANGED <<sat, req, garbled, hseq, runs>>

\* Write's body: the result, or the empty struct beside an error.
RespondBody(c) ==
    /\ \/ hat[c] = "errorBody"
       \/ hat[c] = "resultBody" /\ what[c] # "unsendable"
    /\ Write("server", Msg("body", hseq[c], IF hat[c] = "resultBody" THEN c ELSE Nil))
    /\ respLock' = Nil
    /\ hat' = [hat EXCEPT ![c] = "done"]
    /\ UNCHANGED <<sat, req, garbled, hseq, runs>>

\* Write returns an error, of the buffer or of the result, having closed the
\* connection.
RespondFails(c) ==
    /\ \/ hat[c] \in {"result", "error"} /\ respLock = Nil /\ bad["server"]
       \/ hat[c] \in {"resultBody", "errorBody"} /\ bad["server"]
       \/ hat[c] = "resultBody" /\ what[c] = "unsendable"
    /\ Close("server")
    /\ respLock' = Nil
    /\ hat' = [hat EXCEPT ![c] = "done"]
    /\ UNCHANGED <<sat, req, garbled, hseq, runs>>

\* sendResponse.
Respond(c) == RespondHeader(c) \/ RespondBody(c) \/ RespondFails(c)

-----------------------------------------------------------------------------
ServerTypeOK == /\ sat \in ServerPoints
                /\ req \in Call \cup {Nil}
                /\ garbled \in BOOLEAN
                /\ hat \in [Call -> HandlerPoints]
                /\ hseq \in [Call -> Nat]
                /\ respLock \in Call \cup {Nil}
                /\ runs \in [Call -> Nat]

\* Responses are written whole: on the way to the client every header is followed
\* by the body of the same response, whichever handlers answer at the same time
\* (server.go:126); only the last may be broken off.
ResponsesWhole ==
    LET s == stream["client"]
    IN \A i \in 1..Len(s) :
          /\ i < Len(s) /\ s[i].kind # "body" => s[i+1].kind = "body" /\ s[i+1].seq = s[i].seq
          /\ i > 1 /\ s[i].kind = "body" => s[i-1].kind # "body"
=============================================================================
