------------------------------- MODULE WebDays -------------------------------
(***************************************************************************)
(* The gee framework of each day: which steps of Gee the functions of that *)
(* day's files take.  Where a day leaves a file as it was, its definition  *)
(* is the one of the day before.                                           *)
(***************************************************************************)
EXTENDS Gee

\* gee.go: the constructor, groups and routes.
Engine1 == \E p \in Pattern : Get(1, p)
Engine2 == Engine1
Engine3 == Engine2
Engine4 == \E g \in DOMAIN groups : \/ \E prefix \in Prefix : Group(g, prefix)
                                    \/ \E p \in Pattern : Get(g, p)
Engine5 == Engine4
Engine6 == Engine5
Engine7 == Engine6 \/ Default

\* gee.go: middlewares and files.
Use5 == \E g \in DOMAIN groups, kind \in {"user", "logger"} : Use(g, kind)
Use6 == Use5
Use7 == \E g \in DOMAIN groups, kind \in {"user", "recovery"} : Use(g, kind)
Static6 == (\E g \in DOMAIN groups, p \in Pattern : Static(g, p)) \/ ServeFile
Static7 == Static6

\* ServeHTTP of gee.go, and handle: the chain of a request and its first handler.
ServeHTTP1 == \E q \in Path : Serve(q, <<Final(q)>>)
ServeHTTP2 == ServeHTTP1
ServeHTTP3 == ServeHTTP2
ServeHTTP4 == ServeHTTP3
ServeHTTP5 == \E q \in Path : Serve(q, Chain(q))
ServeHTTP6 == ServeHTTP5
ServeHTTP7 == ServeHTTP6

\* context.go: responses, and what moves the chain.
Write1 == Write
Write2 == Write1
Write3 == Write2
Write4 == Write3
Write5 == Write4
Write6 == Write5
Write7 == Write6
Control5 == UserNext \/ Fail
Control6 == Control5
Control7 == Control6

\* logger.go and recovery.go.
Logger5 == WrapNext("logger") \/ WrapReturn("logger")
Logger6 == Logger5
Logger7 == Logger6
Recovery7 == WrapNext("recovery") \/ WrapReturn("recovery") \/ Recovered

\* What the handlers of every day can do besides.
Handlers == UserReturn \/ NotFound \/ Abort

Next == \/ Handlers
        \/ day = 1 /\ (Engine1 \/ ServeHTTP1 \/ Write1)
        \/ day = 2 /\ (Engine2 \/ ServeHTTP2 \/ Write2)
        \/ day = 3 /\ (Engine3 \/ ServeHTTP3 \/ Write3)
        \/ day = 4 /\ (Engine4 \/ ServeHTTP4 \/ Write4)
        \/ day = 5 /\ (Engine5 \/ Use5 \/ ServeHTTP5 \/ Write5 \/ Control5 \/ Logger5)
        \/ day = 6 /\ (Engine6 \/ Use6 \/ Static6 \/ ServeHTTP6 \/ Write6 \/ Control6 \/ Logger6)
        \/ day = 7 /\ (\/ Engine7 \/ Use7 \/ Static7 \/ ServeHTTP7 \/ Write7 \/ Control7
                       \/ Logger7 \/ Recovery7)

Spec == Init /\ [][Next]_vars
=============================================================================
