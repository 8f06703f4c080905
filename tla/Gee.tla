-------------------------------- MODULE Gee --------------------------------
(***************************************************************************)
(* gee.go, context.go, logger.go and recovery.go: an engine is set up with *)
(* groups, their middlewares and routes, and then serves a request by a    *)
(* chain of handlers which call each other through c.Next.  Requests share *)
(* nothing but the engine, which they only read, so one is enough.         *)
(*                                                                         *)
(* What a handler of the user does is open: it may call c.Next, send a     *)
(* response, call c.Fail, panic and return, in any order.                  *)
(*                                                                         *)
(* Before day 5 the one handler that is called is a chain of one.  The     *)
(* steps are here; WebDays says which day's code takes which.              *)
(***************************************************************************)
EXTENDS Router

CONSTANTS
    Prefix,     \* prefixes of groups, relative to their parent
    Starts,     \* <<x, y>>: the part x is a string prefix of the part y
    MaxGroups,  \* calls of Group
    MaxCalls,   \* calls of GET and Use
    MaxNext     \* calls of c.Next by one handler

ASSUME BoundAssumption == {MaxGroups, MaxCalls} \subseteq Nat /\ MaxNext \in Nat \ {0}
ASSUME PrefixAssumption == Prefix \subseteq Seq(Part)
ASSUME StartsAssumption == \A part \in Part : <<part, part>> \in Starts

VARIABLES
    groups,     \* engine.groups: [prefix, use]
    static,     \* the patterns whose handler is that of Static
    phase,      \* the engine is set up; serves; the handlers are over; net/http caught a panic
    path,       \* c.Path
    chain,      \* c.handlers
    index,      \* c.index
    stack,      \* the handlers that run, the last called last, and how often each called Next
    sent,       \* the status the client gets, 0 before
    ran,        \* history: the index of every handler that was called
    failed      \* history: how many had been called when Fail was first called, or 0

requestVars == <<path, chain, index, stack, sent, ran, failed>>
engineVars == <<routerVars, groups, static>>
vars == <<engineVars, phase, requestVars>>

Kinds == {"user", "logger", "recovery", "route", "static", "notfound"}
Handler(kind, grp) == [kind |-> kind, grp |-> grp]

Init == /\ RouterInit
        /\ groups = <<[prefix |-> << >>, use |-> << >>]>>
        /\ static = {}
        /\ phase = "setup"
        /\ path = << >> /\ chain = << >> /\ index = -1 /\ stack = << >>
        /\ sent = 0 /\ ran = << >> /\ failed = 0

-----------------------------------------------------------------------------
(* Setting up *)

CallsMade == FoldLeft(LAMBDA n, group : n + Len(group.use), Len(routes), groups)

Group(g, prefix) ==
    /\ phase = "setup" /\ Len(groups) <= MaxGroups
    /\ groups' = Append(groups, [prefix |-> groups[g].prefix \o prefix, use |-> << >>])
    /\ UNCHANGED <<routerVars, static, phase, requestVars>>

Use(g, kind) ==
    /\ phase = "setup" /\ CallsMade < MaxCalls
    /\ groups' = [groups EXCEPT ![g].use = Append(@, kind)]
    /\ UNCHANGED <<routerVars, static, phase, requestVars>>

\* Default in the place of New.
Default ==
    /\ phase = "setup" /\ CallsMade = 0 /\ Len(groups) = 1
    /\ groups' = <<[prefix |-> << >>, use |-> <<"logger", "recovery">>]>>
    /\ UNCHANGED <<routerVars, static, phase, requestVars>>

\* GET of a group, with its prefix before what is given.
Get(g, p) ==
    /\ phase = "setup" /\ CallsMade < MaxCalls
    /\ IsPrefix(groups[g].prefix, p)
    /\ AddRoute(p)
    /\ static' = static \ {p}
    /\ UNCHANGED <<groups, phase, requestVars>>

\* Static of a group: a GET of the files below a place.
Static(g, p) ==
    /\ phase = "setup" /\ CallsMade < MaxCalls
    /\ IsPrefix(groups[g].prefix, p) /\ Len(p) > Len(groups[g].prefix)
    /\ Last(p) \in Star
    /\ AddRoute(p)
    /\ static' = static \cup {p}
    /\ UNCHANGED <<groups, phase, requestVars>>

-----------------------------------------------------------------------------
(* c.Next and the chain *)

\* The path begins with the prefix, as a string.
HasPrefix(q, prefix) ==
    LET n == Len(prefix)
    IN n = 0 \/ (/\ n <= Len(q)
                 /\ SubSeq(q, 1, n - 1) = SubSeq(prefix, 1, n - 1)
                 /\ <<prefix[n], q[n]>> \in Starts)

\* Next's loop at i calls the handler there, or Next returns to the one that called it.
Loop(i, below) ==
    /\ index' = i
    /\ IF i < Len(chain)
       THEN /\ stack' = Append(below, [at |-> i, nexts |-> 0])
            /\ ran' = Append(ran, i)
            /\ UNCHANGED phase
       ELSE /\ stack' = below
            /\ phase' = IF below = << >> THEN "over" ELSE phase
            /\ UNCHANGED ran

\* The handler of the route, or the one that answers that there is none.
Final(q) == Handler(IF GetRoute(q) = NoRoute THEN "notfound"
                    ELSE IF GetRoute(q) \in static THEN "static" ELSE "route", 0)

\* Mutant of Chain: the middlewares of the innermost group only.
ChainInnermost(q) ==
    LET last == SelectLastInSeq(groups, LAMBDA group : HasPrefix(q, group.prefix))
    IN Append([i \in DOMAIN groups[last].use |-> Handler(groups[last].use[i], last)], Final(q))

\* The middlewares of every group whose prefix the path has, and the last handler.
Chain(q) ==
    Append(FlattenSeq([g \in DOMAIN groups |->
                          IF HasPrefix(q, groups[g].prefix)
                          THEN [i \in DOMAIN groups[g].use |-> Handler(groups[g].use[i], g)]
                          ELSE << >>]),
           Final(q))

\* ServeHTTP, router.handle and the first c.Next.
Serve(q, handlers) ==
    /\ phase = "setup"
    /\ path' = q
    /\ chain' = handlers
    /\ phase' = "serving"
    /\ index' = 0 /\ stack' = <<[at |-> 0, nexts |-> 0]>> /\ ran' = <<0>>
    /\ UNCHANGED <<engineVars, sent, failed>>

-----------------------------------------------------------------------------
(* Handlers *)

Running(kinds) == phase = "serving" /\ chain[Last(stack).at + 1].kind \in kinds
Send(status) == IF sent = 0 THEN status ELSE sent

\* c.Fail, except for c.index.
FailWith(status) == /\ sent' = Send(status)
                    /\ failed' = IF failed = 0 THEN Len(ran) ELSE failed

requestFixed == <<engineVars, path, chain>>

\* Mutant of Next: the index stays.
NextStays == /\ Loop(index, [stack EXCEPT ![Len(stack)].nexts = @ + 1])
             /\ UNCHANGED <<requestFixed, sent, failed>>

\* c.Next, called by the handler that runs.
CallNext == /\ Loop(index + 1, [stack EXCEPT ![Len(stack)].nexts = @ + 1])
         /\ UNCHANGED <<requestFixed, sent, failed>>

\* Mutant of Return: the loop does not go on to the next handler.
ReturnStays == /\ Loop(index, Front(stack))
               /\ UNCHANGED <<requestFixed, sent, failed>>

\* The handler that runs returns to the loop that called it.
Return == /\ Loop(index + 1, Front(stack))
           /\ UNCHANGED <<requestFixed, sent, failed>>

UserNext == Running({"user", "route"}) /\ Last(stack).nexts < MaxNext /\ CallNext
UserReturn == Running({"user", "route"}) /\ Return

\* String, Data, JSON, or HTML.
Write == /\ Running({"user", "route"})
         /\ sent' = Send(200)
         /\ UNCHANGED <<requestFixed, phase, index, stack, ran, failed>>

\* Mutant of Fail: the index stays.
FailGoesOn == /\ Running({"user", "route"})
              /\ FailWith(500)
              /\ UNCHANGED <<requestFixed, phase, index, stack, ran>>

\* c.Fail; HTML calls it as well if its template does not execute, after Write.
Fail == /\ Running({"user", "route"})
        /\ FailWith(500)
        /\ index' = Len(chain)
        /\ UNCHANGED <<requestFixed, phase, stack, ran>>

\* The handler of a path without a route; on day 1 it only writes that it found none.
NotFound == /\ Running({"notfound"})
            /\ sent' = Send(IF day = 1 THEN 200 ELSE 404)
            /\ Loop(index + 1, Front(stack))
            /\ UNCHANGED <<requestFixed, failed>>

\* The handler of Static: the file is there, and where its pattern says, or not.
ServeFile == /\ Running({"static"})
             /\ \/ sent' = Send(404)
                \/ IsPrefix(Front(GetRoute(path)), path) /\ sent' = Send(200)
             /\ Loop(index + 1, Front(stack))
             /\ UNCHANGED <<requestFixed, failed>>

\* Mutant of WrapNext: Recovery defers and returns, and the loop goes on.
WrapReturns(kind) == Running({kind}) /\ Last(stack).nexts = 0 /\ Return

\* Logger and Recovery (which defers its function first) call c.Next, and return when
\* that does.
WrapNext(kind) == Running({kind}) /\ Last(stack).nexts = 0 /\ CallNext
WrapReturn(kind) == Running({kind}) /\ Last(stack).nexts = 1 /\ Return

Recoveries == {i \in DOMAIN stack : chain[stack[i].at + 1].kind = "recovery"}

\* A handler panics: the stack unwinds to the last Recovery, which calls c.Fail and
\* returns to the loop that called it.
Recovered == /\ Running({"user", "route"})
             /\ Recoveries # {}
             /\ FailWith(500)
             /\ Loop(Len(chain) + 1, SubSeq(stack, 1, Max(Recoveries) - 1))
             /\ UNCHANGED requestFixed

\* There is none: net/http's server catches the panic and drops the connection.
Abort == /\ Running({"user", "route"})
         /\ Recoveries = {}
         /\ phase' = "aborted"
         /\ UNCHANGED <<requestFixed, index, stack, sent, ran, failed>>

-----------------------------------------------------------------------------
\* Types of the variables.  No handler is called again while it runs.
TypeOK ==
    /\ RouterTypeOK
    /\ groups \in Seq([prefix : Seq(Part), use : Seq({"user", "logger", "recovery"})])
    /\ static \subseteq Range(routes)
    /\ phase \in {"setup", "serving", "over", "aborted"}
    /\ path \in Path \cup {<< >>}
    /\ chain \in Seq([kind : Kinds, grp : 0..Len(groups)])
    /\ index \in -1..2 * Len(chain) * (MaxNext + 1)
    /\ stack \in Seq([at : 0..Len(chain) - 1, nexts : 0..MaxNext])
    /\ Len(stack) <= Len(chain)
    /\ sent \in {0, 200, 404, 500}
    /\ ran \in Seq(0..Len(chain) - 1)
    /\ failed \in 0..Len(chain)

\* Whichever handlers call c.Next, not at all or more than once, every one is called
\* once, in order and none left out, until one fails or panics (context.go:41-47).
RunsInOrder ==
    /\ \A i \in DOMAIN ran : ran[i] = i - 1
    /\ phase = "over" /\ failed = 0 => Len(ran) = Len(chain)

\* After c.Fail, that of Recovery included, no handler is called, whoever still
\* returns to its loop or calls c.Next (context.go:50).
EndsAfterFail == failed # 0 => Len(ran) = failed

\* A panic gets away only from a handler that comes before every Recovery of the
\* chain; any other is answered (recovery.go:13-24).
PanicsAnswered ==
    /\ phase = "aborted" => \A i \in DOMAIN chain :
                               chain[i].kind = "recovery" => i > Last(stack).at + 1
    /\ phase = "over" /\ failed # 0 => sent # 0

\* A request that goes to a route passes the middlewares of all groups the route is
\* in, unless the route or the group's prefix leaves it open what they match
\* (gee.go:91-98).
GroupsApply ==
    day >= 5 /\ phase = "serving" /\ Orderly /\ GetRoute(path) # NoRoute =>
        \A g \in DOMAIN groups :
            LET prefix == groups[g].prefix
            IN IsPrefix(prefix, GetRoute(path)) /\ Range(prefix) \cap Wild = {} =>
                 \E at \in 0..Len(chain) - Len(groups[g].use) : \A i \in DOMAIN chain :
                     IF i - at \in DOMAIN groups[g].use
                     THEN chain[i] = Handler(groups[g].use[i - at], g) ELSE chain[i].grp # g
=============================================================================
