------------------------------- MODULE Router -------------------------------
(***************************************************************************)
(* gee's router.go and trie.go: routes are kept in a trie whose nodes are  *)
(* parts of patterns, wildcards among them, and requests find theirs by a  *)
(* search that goes back when it fails.                                    *)
(*                                                                         *)
(* A pattern or path is a sequence of parts, what parsePattern makes of    *)
(* it.  Each method has a trie of its own; this is one of them.            *)
(***************************************************************************)
EXTENDS Integers, SequencesExt

CONSTANTS
    Days,       \* which of the days 1 to 7
    Part,       \* parts of patterns and paths
    Param,      \* those that begin with a colon
    Star,       \* those that begin with an asterisk
    Pattern,    \* patterns to register
    Path,       \* paths of requests
    NoRoute     \* no pattern: the empty string, and a nil node

Wild == Param \cup Star
ASSUME PartAssumption == Wild \subseteq Part /\ Param \cap Star = {}
ASSUME DaysAssumption == Days \subseteq 1..7
ASSUME PatternAssumption == /\ Pattern \cup Path \subseteq Seq(Part)
                            /\ NoRoute \notin Pattern

VARIABLES
    day,        \* whose code runs (never changes)
    children,   \* the parts of each node's children; a node is the places of the
                \* children on the way to it
    pattern,    \* node.pattern
    routes      \* history: the registered patterns in order

routerVars == <<day, children, pattern, routes>>

RouterInit == /\ day \in Days
              /\ children = [n \in {<< >>} |-> << >>]
              /\ pattern = [n \in {<< >>} |-> NoRoute]
              /\ routes = << >>

\* What follows an asterisk is dropped.
ParsePattern(s) == LET stars == {i \in DOMAIN s : s[i] \in Star}
                   IN IF stars = {} THEN s ELSE SubSeq(s, 1, Min(stars))

\* A child for a part: the very part, or any wildcard; all of them, and the first.
Matches(child, part) == child = part \/ child \in Wild
MatchChildren(n, part) == {i \in DOMAIN n : Matches(n[i], part)}
MatchChild(n, part) == IF MatchChildren(n, part) = {} THEN 0 ELSE Min(MatchChildren(n, part))

PartOf(n) == children[Front(n)][Last(n)]

-----------------------------------------------------------------------------
(* addRoute and insert *)

\* The trie with new children of trie.at, the last of which insert goes on to.
Grow(trie, parts) ==
    LET grown == trie.children[trie.at] \o parts
        fresh == {Append(trie.at, i) : i \in Len(grown) - Len(parts) + 1..Len(grown)}
    IN [at |-> Append(trie.at, Len(grown)),
        children |-> [n \in fresh \cup DOMAIN trie.children |->
                         IF n \in fresh THEN << >>
                         ELSE IF n = trie.at THEN grown ELSE trie.children[n]],
        pattern |-> [n \in fresh \cup DOMAIN trie.pattern |->
                        IF n \in fresh THEN NoRoute ELSE trie.pattern[n]]]

\* insert goes down by matchChild, the first child that matches, and makes a child
\* where there is none.
Descend(trie, part) ==
    LET i == MatchChild(trie.children[trie.at], part)
    IN IF i = 0 THEN Grow(trie, <<part>>)
       ELSE [at |-> Append(trie.at, i), children |-> trie.children, pattern |-> trie.pattern]

\* On day 3 matchChild makes another child beside every one that matches and says that
\* none does: insert always makes a child.
Descend3(trie, part) ==
    LET hits == MatchChildren(trie.children[trie.at], part)
    IN Grow(trie, [i \in 1..Cardinality(hits) + 1 |-> part])

Insert(p) ==
    LET parts == ParsePattern(p)
        trie[height \in 0..Len(parts)] ==
            IF height = 0 THEN [at |-> << >>, children |-> children, pattern |-> pattern]
            ELSE IF day = 3 THEN Descend3(trie[height - 1], parts[height])
                            ELSE Descend(trie[height - 1], parts[height])
    IN trie[Len(parts)]

\* Mutant of AddRoute: a new route at a node replaces what is below it, too.
AddRouteReplace(p) ==
    LET trie == Insert(p)
        keep == {n \in DOMAIN trie.pattern : ~IsStrictPrefix(trie.at, n)}
    IN /\ children' = [[n \in keep |-> trie.children[n]] EXCEPT ![trie.at] = << >>]
       /\ pattern' = [[n \in keep |-> trie.pattern[n]] EXCEPT ![trie.at] = p]
       /\ routes' = Append(routes, p)
       /\ UNCHANGED day

\* A route is put into the trie, or before day 3 into a map of patterns (which routes
\* is, as far as its keys go).
AddRoute(p) ==
    LET trie == Insert(p)
    IN /\ IF day < 3
          THEN UNCHANGED <<children, pattern>>
          ELSE /\ children' = trie.children
               /\ pattern' = [trie.pattern EXCEPT ![trie.at] = p]
       /\ routes' = Append(routes, p)
       /\ UNCHANGED day

-----------------------------------------------------------------------------
(* getRoute *)

\* search goes down no further than the path has parts.
Upto(height) == {n \in DOMAIN children : Len(n) <= height}

\* Mutant of Search: it does not go back from the first child that matches.
SearchFirst(parts) ==
    LET found[n \in Upto(Len(parts))] ==
            IF Len(n) = Len(parts) \/ (n # << >> /\ PartOf(n) \in Star)
            THEN pattern[n]
            ELSE LET i == MatchChild(children[n], parts[Len(n) + 1])
                 IN IF i = 0 THEN NoRoute ELSE found[Append(n, i)]
    IN found[<< >>]

\* search: the first of the matching children that leads to a route.
Search(parts) ==
    LET found[n \in Upto(Len(parts))] ==
            IF Len(n) = Len(parts) \/ (n # << >> /\ PartOf(n) \in Star)
            THEN pattern[n]
            ELSE LET hits == {i \in MatchChildren(children[n], parts[Len(n) + 1]) :
                                 found[Append(n, i)] # NoRoute}
                 IN IF hits = {} THEN NoRoute ELSE found[Append(n, Min(hits))]
    IN found[<< >>]

\* Before day 3 a path finds the pattern that is the same.
GetRoute(path) == IF day < 3 THEN IF path \in Range(routes) THEN path ELSE NoRoute
                  ELSE Search(ParsePattern(path))

\* The parameters of a route that was found: each wildcard of its pattern with the
\* parts of the path it stands for.
Params(p, path) ==
    LET parts == ParsePattern(p)
        search == ParsePattern(path)
    IN [i \in {i \in DOMAIN parts : parts[i] \in Wild} |->
           IF parts[i] \in Param THEN <<search[i]>> ELSE SubSeq(search, i, Len(search))]

-----------------------------------------------------------------------------
(* What routing is to do *)

\* A path is an instance of a pattern.
Instance(p, path) ==
    /\ Len(p) <= Len(path)
    /\ Len(p) = Len(path) \/ (p # << >> /\ Last(p) \in Star)
    /\ \A i \in DOMAIN p : Matches(p[i], path[i])

\* The first place where two patterns part, or 0.
Fork(p, q) == LET I == {i \in DOMAIN p \cap DOMAIN q : p[i] # q[i]}
              IN IF I = {} THEN 0 ELSE CHOOSE i \in I : \A j \in I : i <= j

\* The parts of the routes.
Parts == [j \in DOMAIN routes |-> ParsePattern(routes[j])]

\* No route was registered into the wildcard of an earlier one.
Orderly == \A j \in DOMAIN routes : \A i \in 1..j-1 :
              LET d == Fork(Parts[i], Parts[j])
              IN d = 0 \/ Parts[i][d] \notin Wild

\* Route j is preferred to route k: it is a later one with the same parts, or has a part
\* where k has a wildcard.
Beats(j, k) == IF Parts[j] = Parts[k] THEN j > k
               ELSE Parts[k][Fork(Parts[j], Parts[k])] \in Wild

\* Of the routes a path is an instance of, the one that is preferred to the others; the
\* one that was registered first; the path itself.
Fitting(path) == {j \in DOMAIN routes : Instance(Parts[j], path)}
Best(path) == IF Fitting(path) = {} THEN NoRoute
              ELSE routes[CHOOSE j \in Fitting(path) : \A k \in Fitting(path) \ {j} : Beats(j, k)]
First(path) == IF Fitting(path) = {} THEN NoRoute ELSE routes[Min(Fitting(path))]
Same(path) == IF \E j \in DOMAIN routes : routes[j] = path THEN path ELSE NoRoute

\* What the parameters make of a pattern.
Fill(p, params) ==
    LET parts == ParsePattern(p)
    IN FlattenSeq([i \in DOMAIN parts |-> IF i \in DOMAIN params THEN params[i] ELSE <<parts[i]>>])

\* From day 4 on, if no route was registered into a wildcard (trie.go:16), every path
\* finds the best of its routes, on day 3 the first, before the same, and none just when
\* it has none; and with the parameters the pattern is the path (router.go:76-91).
FindsBest ==
    \A path \in Path :
        LET p == GetRoute(path)
            parts == ParsePattern(path)
        IN /\ day >= 4 /\ Orderly => p = Best(parts)
           /\ day = 3 => p = First(parts)
           /\ day < 3 => p = Same(path)
           /\ day >= 3 /\ Orderly /\ p # NoRoute => Fill(p, Params(p, path)) = parts

\* A path finds only a route it is an instance of: "n is not nil only if the trie has
\* this path" (router.go:73).
FindsInstance == \A path \in Path :
    GetRoute(path) # NoRoute => Instance(ParsePattern(GetRoute(path)), ParsePattern(path))

\* Registering a route, whatever there was before, leaves no path without a route
\* that had one (trie.go:47, 63).
NothingLost == [][routes' # routes =>
                    \A q \in Path : GetRoute(q) # NoRoute => GetRoute(q)' # NoRoute]_routerVars

RouterTypeOK == /\ routes \in Seq(Pattern)
                /\ DOMAIN pattern = DOMAIN children
                /\ \A n \in DOMAIN children :
                      /\ n \in Seq(Nat \ {0}) /\ children[n] \in Seq(Part)
                      /\ pattern[n] \in Pattern \cup {NoRoute}
=============================================================================
