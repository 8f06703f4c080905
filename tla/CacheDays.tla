------------------------------ MODULE CacheDays ------------------------------
(***************************************************************************)
(* The geecache program of each day: which steps of GeeCluster the         *)
(* functions of that day's files take.  Where a day leaves a file as it    *)
(* was, its definition is the one of the day before.                       *)
(***************************************************************************)
EXTENDS GeeCluster

\* geecache.go: Get, load and getLocally.
Group2(p) == GetEmpty(p) \/ LoadLocally(p) \/ FetchFails(p) \/ Fetch(p)
Group3(p) == Group2(p)
Group4(p) == Group3(p)

\* Now load asks PickPeer, and getFromPeer the peer.
Group5(p) == \/ GetEmpty(p) \/ LoadAlone(p)
             \/ PickLocal(p) \/ PeerAnswers(p) \/ PeerFails(p)
             \/ FetchFails(p) \/ Fetch(p)

\* Now load does that in Do.
Group6(p) == \/ GetEmpty(p)
             \/ PickLocal(p) \/ PeerAnswers(p) \/ PeerFails(p)
             \/ FetchFails(p) \/ Fetch(p)
Group7(p) == Group6(p)

\* cache.go: get and add, for Get and populateCache.
Cache2(p) == GetHit(p) \/ GetMiss(p) \/ Populate(p)
Cache3(p) == Cache2(p)
Cache4(p) == Cache3(p)
Cache5(p) == Cache4(p)
Cache6(p) == Cache5(p)
Cache7(p) == Cache6(p)

\* singleflight.go: Do.
Do6(p) == DoJoin(p) \/ DoLead(p) \/ DoWgDone(p) \/ DoReturn(p)
Do7(p) == Do6(p)

\* http.go: httpGetter.Get towards a peer, and the peer's ServeHTTP.
Pool5(p) == PickPeer(p) \/ PeerRefuses(p) \/ PeerLost(p)
Pool6(p) == Pool5(p)
Pool7(p) == Pool6(p)

\* The steps of a Get that follow once it has started.
Proceed(p) == /\ Alive(p)
              /\ \/ day = 2 /\ (Group2(p) \/ Cache2(p))
                 \/ day = 3 /\ (Group3(p) \/ Cache3(p))
                 \/ day = 4 /\ (Group4(p) \/ Cache4(p))
                 \/ day = 5 /\ (Group5(p) \/ Cache5(p) \/ Pool5(p))
                 \/ day = 6 /\ (Group6(p) \/ Cache6(p) \/ Pool6(p) \/ Do6(p))
                 \/ day = 7 /\ (Group7(p) \/ Cache7(p) \/ Pool7(p) \/ Do7(p))

\* Where Gets come from.  On day 2 the program calls Get.
Call2(c, n, k) == Start(c, n, k)

\* ServeHTTP, once the node listens.
Serve3(c, n, k) == life[n] = "up" /\ Start(c, n, k)
Serve4(c, n, k) == Serve3(c, n, k)
Serve5(c, n, k) == Serve4(c, n, k)
Serve6(c, n, k) == Serve5(c, n, k)
Serve7(c, n, k) == Serve6(c, n, k)

\* main.go's API server, which a node with one starts before all else.
Api5(c, n, k) == n \in Api /\ life[n] # "down" /\ Start(c, n, k)
Api6(c, n, k) == Api5(c, n, k)
Api7(c, n, k) == Api6(c, n, k)

Ask(c, n, k) == \/ day = 2 /\ Call2(c, n, k)
                \/ day = 3 /\ Serve3(c, n, k)
                \/ day = 4 /\ Serve4(c, n, k)
                \/ day = 5 /\ (Serve5(c, n, k) \/ Api5(c, n, k))
                \/ day = 6 /\ (Serve6(c, n, k) \/ Api6(c, n, k))
                \/ day = 7 /\ (Serve7(c, n, k) \/ Api7(c, n, k))

Next == \/ \E c \in Client, n \in Node, k \in Key : Ask(c, n, k)
        \/ \E p \in Proc : Proceed(p) \/ (Alive(p) /\ LinkFails(p))
        \/ \E n \in Node : StartCacheServer(n) \/ Crash(n) \/ Restart(n)
        \/ \E k \in Key, r \in Answer : Change(k, r)

Spec == Init /\ [][Next]_vars

\* A getter that is not going to return.
Hangs(p) == pc[p] = "local" /\ KeyOf(p) \in Hung

\* As long as a goroutine can move, a goroutine moves, and a getter returns unless the
\* key hangs; a link need not fail, nor a node crash or start (http.Get has no timeout).
\* That is less than fairness to each goroutine and is enough: a client makes one Get.
FairSpec == Spec /\ WF_vars(\E p \in Proc : ~Hangs(p) /\ Proceed(p))
=============================================================================
