----------------------------- MODULE GeeCluster -----------------------------
(***************************************************************************)
(* A geecache group on several nodes: geecache.go's Get, load, getFromPeer *)
(* and getLocally, http.go's Set, PickPeer, httpGetter.Get and ServeHTTP,  *)
(* each node with a cache, a ring and a single-flight group of its own,    *)
(* all of which a crash loses.                                             *)
(*                                                                         *)
(* A Get is a goroutine.  <<c, 0>> is the one a client c starts on a node; *)
(* <<c, h+1>> is the handler goroutine of the request that <<c, h>> sends  *)
(* to the owner of the key.  load's call of Do is SingleFlight's, with one *)
(* map per process, that is per node and boot.                             *)
(*                                                                         *)
(* The cache is taken at LRUPolicy's word: a lookup finds what is stored,  *)
(* an add keeps the value of a key that is there, and an add may drop      *)
(* keys.  Which ones is left open here.                                    *)
(*                                                                         *)
(* The repository keeps the program as it was after each day: until day 4  *)
(* a node answers alone, on day 5 it asks the owner, from day 6 on through *)
(* Do.  The steps are here; CacheDays says which day's code takes which.   *)
(***************************************************************************)
EXTENDS HashRing, FiniteSets

CONSTANTS
    Days,           \* which of the days 2 to 7
    Node,
    Client,
    Key,
    Value,
    Err,            \* an error answer
    Nil,            \* no value, no request
    EmptyKey,       \* the key "", which Get refuses
    Hash,           \* [Node -> a sequence of hashes]: each node's virtual nodes
    KeyHash,        \* [Key -> hash]
    Wire,           \* [Key -> Key]: the key a peer reads from the URL of a request
    Source,         \* [Key -> Value or Err]: what the getter answers at first
    Hung,           \* keys for which the getter may never return
    Booting,        \* nodes that have not come to serve their peers at first
    Api,            \* nodes with an API server, which serves while the node boots
    Crashing,       \* nodes that may crash
    Changing,       \* keys whose answer at the source may change
    MaxHop,         \* bound on the forwardings of one request
    MaxChanges,     \* bound on the changes of the source
    MaxCrashes,     \* bound on the crashes of a node
    Evictable,      \* keys that a cache, being too small for all, may drop
    MayFail         \* whether links between nodes fail

Answer == Value \cup {Err}
Proc == Client \X (0..MaxHop)
Peer(p) == <<p[1], p[2] + 1>>

\* A key on a process: a node counted by its boots.
Place == Node \X (0..MaxCrashes) \X Key

ASSUME MarksAssumption == /\ Err \notin Value
                          /\ Nil \notin Answer \cup Key \cup Proc \cup Place
                          /\ NoNode \notin Node
ASSUME FunctionsAssumption == /\ Wire \in [Key -> Key]
                              /\ Source \in [Key -> Answer]
                              /\ Hash \in [Node -> Seq(Int)]
                              /\ KeyHash \in [Key -> Int]
ASSUME NodeAssumption == IsFiniteSet(Node)
ASSUME BoundsAssumption == /\ Days \subseteq 2..7
                           /\ Changing \subseteq Key \ {EmptyKey}
                           /\ MaxHop \in Nat
                           /\ MaxChanges \in Nat
                           /\ MaxCrashes \in Nat
                           /\ MayFail \in BOOLEAN
                           /\ Evictable \subseteq Key

VARIABLES
    day,        \* whose code runs (never changes)
    life,       \* whether each node is down, booting or up, serving its peers
    boots,      \* how often each node has crashed
    ring,       \* the ring of each node: empty until its Set
    pc,         \* where each goroutine is
    req,        \* <<node, its boots, key>> of each Get
    view,       \* the value each goroutine has in hand, at the end its answer
    cache,      \* mainCache of each node: [Node -> [Key -> Value or Nil]]
    src,        \* what the getter answers now
    hist,       \* history: all it has answered
    m, wg, res, sf, key, call, ret  \* single-flight groups, see SingleFlight

sfVars == <<m, wg, res, sf, key, call, ret>>
nodeVars == <<day, life, boots, ring>>
vars == <<nodeVars, pc, req, view, cache, src, hist, sfVars>>

SF == INSTANCE SingleFlight WITH Key <- Place, Result <- Answer, MayPanic <- FALSE

\* Control points: not there yet; Get; load; load's Do (SingleFlight's sf says where);
\* PickPeer; waiting for the peer's response; getter.Get; populateCache; returned.
Points == {"none", "get", "load", "do", "pick", "remote", "local", "add", "done"}

Goto(p, point) == pc' = [pc EXCEPT ![p] = point]
NodeOf(p) == req[p][1]
KeyOf(p) == req[p][3]

\* The process p is a goroutine of is still there.
Alive(p) == req[p] # Nil /\ boots[NodeOf(p)] = req[p][2] /\ life[NodeOf(p)] # "down"

NoKeys == [k \in Key |-> Nil]

\* Set: a new ring, with the nodes in the order in which main.go's map gives them.
Rings == {AddNodes(order, Hash) : order \in SetToSeqs(Node)}

Init == /\ day \in Days
        /\ life = [n \in Node |-> IF n \in Booting THEN "booting" ELSE "up"]
        /\ boots = [n \in Node |-> 0]
        /\ ring \in {r \in [Node -> Rings \cup {EmptyRing}] :
                        \A n \in Node : r[n] = EmptyRing <=> n \in Booting \/ day < 5}
        /\ pc = [p \in Proc |-> "none"]
        /\ req = [p \in Proc |-> Nil]
        /\ view = [p \in Proc |-> Nil]
        /\ cache = [n \in Node |-> NoKeys]
        /\ src = Source
        /\ hist = [k \in Key |-> IF k = EmptyKey THEN {Err} ELSE {Source[k]}]
        /\ SF!Init

-----------------------------------------------------------------------------
(* Group.Get *)

Start(c, n, k) ==
    /\ pc[<<c, 0>>] = "none"
    /\ Goto(<<c, 0>>, "get")
    /\ req' = [req EXCEPT ![<<c, 0>>] = <<n, boots[n], k>>]
    /\ UNCHANGED <<nodeVars, view, cache, src, hist, sfVars>>

GetEmpty(p) ==
    /\ pc[p] = "get"
    /\ KeyOf(p) = EmptyKey
    /\ view' = [view EXCEPT ![p] = Err]
    /\ Goto(p, "done")
    /\ UNCHANGED <<nodeVars, req, cache, src, hist, sfVars>>

GetHit(p) ==
    /\ pc[p] = "get"
    /\ KeyOf(p) # EmptyKey
    /\ cache[NodeOf(p)][KeyOf(p)] # Nil
    /\ view' = [view EXCEPT ![p] = cache[NodeOf(p)][KeyOf(p)]]
    /\ Goto(p, "done")
    /\ UNCHANGED <<nodeVars, req, cache, src, hist, sfVars>>

GetMiss(p) ==
    /\ pc[p] = "get"
    /\ KeyOf(p) # EmptyKey
    /\ cache[NodeOf(p)][KeyOf(p)] = Nil
    /\ Goto(p, "load")
    /\ UNCHANGED <<nodeVars, req, view, cache, src, hist, sfVars>>

-----------------------------------------------------------------------------
(* load, and from day 6 on the function it hands to Do *)

\* Until day 4 load is getLocally.
LoadLocally(p) ==
    /\ pc[p] = "load" /\ day < 5
    /\ Goto(p, "local")
    /\ UNCHANGED <<nodeVars, req, view, cache, src, hist, sfVars>>

\* On day 5 every Get picks a peer for itself.
LoadAlone(p) ==
    /\ pc[p] = "load" /\ day = 5
    /\ Goto(p, "pick")
    /\ UNCHANGED <<nodeVars, req, view, cache, src, hist, sfVars>>

\* Mutant of DoJoin: whatever call this process has is joined.
JoinAny(p) ==
    /\ pc[p] = "load" /\ day > 5
    /\ \E k \in Key : SF!Join(p, <<NodeOf(p), boots[NodeOf(p)], k>>)
    /\ Goto(p, "do")
    /\ UNCHANGED <<nodeVars, req, view, cache, src, hist>>

DoJoin(p) ==
    /\ pc[p] = "load" /\ day > 5
    /\ SF!Join(p, req[p])
    /\ Goto(p, "do")
    /\ UNCHANGED <<nodeVars, req, view, cache, src, hist>>

DoLead(p) ==
    /\ pc[p] = "load" /\ day > 5
    /\ SF!Lead(p, req[p])
    /\ Goto(p, "pick")
    /\ UNCHANGED <<nodeVars, req, view, cache, src, hist>>

\* load's work ends with r: it is what Get answers, or what fn hands to Do.
Loaded(p, r) ==
    \/ /\ day <= 5
       /\ view' = [view EXCEPT ![p] = r]
       /\ Goto(p, "done")
       /\ UNCHANGED sfVars
    \/ /\ day > 5
       /\ SF!FnReturn(p, r)
       /\ Goto(p, "do")
       /\ UNCHANGED view

Owner(n, k) == GetNode(ring[n], KeyHash[k])

\* Mutants of Remote: a peer is never asked; the ring's answer is not compared
\* with the node itself.
NeverRemote(p) == FALSE
RemoteOrSelf(p) == life[NodeOf(p)] = "up"

\* PickPeer names a peer: peers are registered and the ring names another node.
Remote(p) == life[NodeOf(p)] = "up" /\ Owner(NodeOf(p), KeyOf(p)) \notin {NoNode, NodeOf(p)}

PickLocal(p) ==
    /\ pc[p] = "pick"
    /\ ~Remote(p)
    /\ Goto(p, "local")
    /\ UNCHANGED <<nodeVars, req, view, cache, src, hist, sfVars>>

\* httpGetter.Get: the peer's handler starts a Get for the key it reads from
\* the URL.
PickPeer(p) ==
    LET o == Owner(NodeOf(p), KeyOf(p))
    IN /\ pc[p] = "pick"
       /\ Remote(p)
       /\ life[o] = "up"
       /\ p[2] < MaxHop
       /\ pc' = [pc EXCEPT ![p] = "remote", ![Peer(p)] = "get"]
       /\ req' = [req EXCEPT ![Peer(p)] = <<o, boots[o], Wire[KeyOf(p)]>>]
       /\ UNCHANGED <<nodeVars, view, cache, src, hist, sfVars>>

\* Nobody listens at the peer: an error, and load turns to the getter.
PeerRefuses(p) ==
    /\ pc[p] = "pick"
    /\ Remote(p)
    /\ life[Owner(NodeOf(p), KeyOf(p))] # "up"
    /\ Goto(p, "local")
    /\ UNCHANGED <<nodeVars, req, view, cache, src, hist, sfVars>>

\* Mutant of PeerAnswers: the peer's value goes into this node's cache as well.
PeerAnswersCached(p) ==
    /\ pc[p] = "remote"
    /\ pc[Peer(p)] = "done"
    /\ view[Peer(p)] # Err
    /\ cache' = [cache EXCEPT ![NodeOf(p)][KeyOf(p)] = view[Peer(p)]]
    /\ Loaded(p, view[Peer(p)])
    /\ UNCHANGED <<nodeVars, req, src, hist>>

\* The response arrives with a value: load returns it and nothing is cached here.
PeerAnswers(p) ==
    /\ pc[p] = "remote"
    /\ pc[Peer(p)] = "done"
    /\ view[Peer(p)] # Err
    /\ Loaded(p, view[Peer(p)])
    /\ UNCHANGED <<nodeVars, req, cache, src, hist>>

\* The peer's Get failed: ServeHTTP answers 500, and load turns to the getter.
PeerFails(p) ==
    /\ pc[p] = "remote"
    /\ pc[Peer(p)] = "done"
    /\ view[Peer(p)] = Err
    /\ Goto(p, "local")
    /\ UNCHANGED <<nodeVars, req, view, cache, src, hist, sfVars>>

\* Mutant of PeerLost: the end of the connection goes unnoticed.
LossUnnoticed(p) == FALSE

\* The peer died with the request: its connections end, and http.Get with an error.
PeerLost(p) ==
    /\ pc[p] = "remote"
    /\ pc[Peer(p)] # "done" /\ ~Alive(Peer(p))
    /\ Goto(p, "local")
    /\ UNCHANGED <<nodeVars, req, view, cache, src, hist, sfVars>>

\* Mutant of LinkFails: the network's error is the Get's error.
LinkErrorReturned(p) ==
    /\ MayFail
    /\ pc[p] = "remote"
    /\ Loaded(p, Err)
    /\ UNCHANGED <<nodeVars, req, cache, src, hist>>

\* The peer is not reached, or its response is lost while its Get goes on.
LinkFails(p) ==
    /\ MayFail
    /\ \/ pc[p] = "pick" /\ Remote(p)
       \/ pc[p] = "remote"
    /\ Goto(p, "local")
    /\ UNCHANGED <<nodeVars, req, view, cache, src, hist, sfVars>>

\* getLocally calls the getter; an error is returned at once.
FetchFails(p) ==
    /\ pc[p] = "local"
    /\ src[KeyOf(p)] = Err
    /\ Loaded(p, Err)
    /\ UNCHANGED <<nodeVars, req, cache, src, hist>>

\* Mutant of Fetch: the getter's error is not looked at.
FetchUnchecked(p) ==
    /\ pc[p] = "local"
    /\ view' = [view EXCEPT ![p] = src[KeyOf(p)]]
    /\ Goto(p, "add")
    /\ UNCHANGED <<nodeVars, req, cache, src, hist, sfVars>>

Fetch(p) ==
    /\ pc[p] = "local"
    /\ src[KeyOf(p)] # Err
    /\ view' = [view EXCEPT ![p] = src[KeyOf(p)]]
    /\ Goto(p, "add")
    /\ UNCHANGED <<nodeVars, req, cache, src, hist, sfVars>>

\* What an add of v under k makes of cache c when it drops the keys of gone.
Added(c, k, v, gone) ==
    [x \in Key |-> IF x \in gone THEN Nil
                   ELSE IF x = k /\ c[k] = Nil THEN v ELSE c[x]]

\* populateCache, after which getLocally returns the value it read.
Populate(p) ==
    /\ pc[p] = "add"
    /\ \E gone \in SUBSET Evictable :
          cache' = [cache EXCEPT ![NodeOf(p)] = Added(@, KeyOf(p), view[p], gone)]
    /\ Loaded(p, view[p])
    /\ UNCHANGED <<nodeVars, req, src, hist>>

DoWgDone(p) ==
    /\ pc[p] = "do"
    /\ SF!WgDone(p)
    /\ UNCHANGED <<nodeVars, pc, req, view, cache, src, hist>>

\* Do returns, as leader or as waiter, and with it load and Get.
DoReturn(p) ==
    /\ pc[p] = "do"
    /\ SF!Forget(p) \/ SF!WaitReturn(p)
    /\ view' = [view EXCEPT ![p] = ret'[p]]
    /\ Goto(p, "done")
    /\ UNCHANGED <<nodeVars, req, cache, src, hist>>

-----------------------------------------------------------------------------
(* main.go *)

\* The node comes to serve its peers, from day 5 on with a ring of all nodes.
StartCacheServer(n) ==
    /\ life[n] = "booting"
    /\ life' = [life EXCEPT ![n] = "up"]
    /\ \E r \in IF day < 5 THEN {EmptyRing} ELSE Rings : ring' = [ring EXCEPT ![n] = r]
    /\ UNCHANGED <<day, boots, pc, req, view, cache, src, hist, sfVars>>

Crash(n) ==
    /\ life[n] # "down" /\ n \in Crashing /\ boots[n] < MaxCrashes
    /\ life' = [life EXCEPT ![n] = "down"]
    /\ boots' = [boots EXCEPT ![n] = @ + 1]
    /\ ring' = [ring EXCEPT ![n] = EmptyRing]
    /\ cache' = [cache EXCEPT ![n] = NoKeys]
    /\ UNCHANGED <<day, pc, req, view, src, hist, sfVars>>

\* The process is started again, and makes its group.
Restart(n) ==
    /\ life[n] = "down"
    /\ life' = [life EXCEPT ![n] = "booting"]
    /\ UNCHANGED <<day, boots, ring, pc, req, view, cache, src, hist, sfVars>>

\* The data source behind the getter changes its answer for a key.
Change(k, r) ==
    /\ Cardinality(UNION {{k2} \X hist[k2] : k2 \in Key}) < Cardinality(Key) + MaxChanges
    /\ k \in Changing
    /\ r \notin hist[k]
    /\ src' = [src EXCEPT ![k] = r]
    /\ hist' = [hist EXCEPT ![k] = @ \cup {r}]
    /\ UNCHANGED <<nodeVars, pc, req, view, cache, sfVars>>

-----------------------------------------------------------------------------
\* Types of the variables.
TypeOK == /\ day \in Days
          /\ life \in [Node -> {"down", "booting", "up"}]
          /\ boots \in [Node -> 0..MaxCrashes]
          /\ ring \in [Node -> Rings \cup {EmptyRing}]
          /\ pc \in [Proc -> Points]
          /\ req \in [Proc -> Place \cup {Nil}]
          /\ view \in [Proc -> Answer \cup {Nil}]
          /\ cache \in [Node -> [Key -> Value \cup {Nil}]]
          /\ src \in [Key -> Answer]
          /\ hist \in [Key -> SUBSET Answer]
          /\ SF!TypeOK

\* Answers and cached values come from the source, and from the key they stand
\* under: no interleaving of loads, shared flights, forwarded requests, failed
\* links, crashes, evictions and changes of the source gives a Get the value of
\* another key, an error the source never gave, or a value it never held.
AnswersGenuine ==
    /\ \A p \in Proc : pc[p] = "done" => view[p] \in hist[KeyOf(p)]
    /\ \A n \in Node, k \in Key : cache[n][k] # Nil => cache[n][k] \in hist[k]

\* The same of what clients get for the key they asked for, which differs from
\* the above if a request reaches the peer under another key.
ClientsGetTheirKey ==
    \A c \in Client : pc[<<c, 0>>] = "done" => view[<<c, 0>>] \in hist[KeyOf(<<c, 0>>)]

\* From day 5 on only the node with the key's place on the ring reads it from the
\* source and caches it, whatever the order in which each node was told the others.
OwnerOnly ==
    day >= 5 =>
        /\ \A p \in Proc : pc[p] \in {"local", "add"} =>
              IsOwner(NodeOf(p), KeyHash[KeyOf(p)], Node, Hash)
        /\ \A n \in Node, k \in Key : cache[n][k] # Nil => IsOwner(n, KeyHash[k], Node, Hash)

\* From day 6 on one Get at a time reads a key from the source, in the whole cluster.
OneLoader ==
    day >= 6 =>
        \A p, q \in Proc :
            /\ pc[p] \in {"local", "add"} /\ pc[q] \in {"local", "add"}
            /\ KeyOf(p) = KeyOf(q)
            => p = q

\* A forwarded request is not forwarded again.
ForwardOnce == \A p \in Proc : p[2] >= 1 => pc[p] # "remote"

\* Again and again the Gets of every node that did not crash under them have been
\* answered, although peers crash before or after they have taken a request, and
\* although Gets of other keys, which may share the node, the peer and the flights' map,
\* never end (http.go:130).
SurvivorsReturn ==
    []<>\A c \in Client : LET p == <<c, 0>>
                          IN Alive(p) /\ KeyOf(p) \notin Hung => pc[p] = "done"

\* The cluster is a read-through cache, and every Get returns.
RT == INSTANCE ReadThrough
        WITH asked <- [c \in Client |-> IF req[<<c, 0>>] = Nil THEN Nil ELSE KeyOf(<<c, 0>>)],
             answer <- [c \in Client |-> IF pc[<<c, 0>>] = "done" THEN view[<<c, 0>>] ELSE Nil]
ReadThroughSpec == RT!Spec
=============================================================================
