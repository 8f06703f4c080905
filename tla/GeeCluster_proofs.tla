------------------------- MODULE GeeCluster_proofs -------------------------
(***************************************************************************)
(* What is proved of a cluster of any size, with any ring and any getter:  *)
(* that answers are genuine, that the cluster is a read-through cache, and *)
(* that one node of an undisturbed cluster loads a key, one Get at a time. *)
(***************************************************************************)
EXTENDS CacheDays, HashRing_proofs

\* The single-flight groups keep their invariant here too.
SFP == INSTANCE SingleFlight_proofs WITH Key <- Place, Result <- Answer, MayPanic <- FALSE

-----------------------------------------------------------------------------
(* The inductive invariant *)

\* Types of the variables that are not of a single-flight group.
Types == /\ day \in Days
         /\ life \in [Node -> {"down", "booting", "up"}]
         /\ boots \in [Node -> 0..MaxCrashes]
         /\ ring \in [Node -> Rings \cup {EmptyRing}]
         /\ pc \in [Proc -> Points]
         /\ req \in [Proc -> Place \cup {Nil}]
         /\ view \in [Proc -> Answer \cup {Nil}]
         /\ cache \in [Node -> [Key -> Value \cup {Nil}]]
         /\ src \in [Key -> Answer]
         /\ hist \in [Key -> SUBSET Answer]

\* A goroutine that is there has a request, and works on no empty key.
Asked == /\ \A p \in Proc : pc[p] = "none" <=> req[p] = Nil
         /\ \A p \in Proc : pc[p] \notin {"none", "get", "done"} => KeyOf(p) # EmptyKey

\* Where Get is and where Do is: a goroutine's call is for what it was asked,
\* and its fn runs from PickPeer until load's work has ended.
Flights == /\ \A p \in Proc : pc[p] \in {"none", "get", "load"} => sf[p] = "idle"
           /\ \A p \in Proc : sf[p] = "idle" => res[p] = Nil
           /\ \A p \in Proc : sf[p] # "idle" => req[p] # Nil /\ key[p] = req[p]
           /\ \A p \in Proc : day > 5 /\ pc[p] \in {"pick", "remote", "local", "add"} => sf[p] = "fn"

\* A goroutine asks its peer once, and for the key that goes over the wire.
Peers == \A p \in Proc :
           /\ pc[p] \in {"none", "get", "load", "pick"} /\ p[2] < MaxHop => pc[Peer(p)] = "none"
           /\ pc[p] = "remote" => /\ p[2] < MaxHop
                                  /\ pc[Peer(p)] # "none"
                                  /\ KeyOf(Peer(p)) = Wire[KeyOf(p)]

\* The source gives what it is on record to have given.
Sources == \A k \in Key : IF k = EmptyKey THEN hist[k] = {Err} ELSE src[k] \in hist[k]

\* The keys as which peers may read k from the URLs, k itself included.
ReadAs == [k \in Key |-> {x \in Key : \A T \in SUBSET Key :
                                         k \in T /\ (\A y \in T : Wire[y] \in T) => x \in T}]

\* What the source has given for one of these.
Held == [k \in Key |-> UNION {hist[x] : x \in ReadAs[k]}]

\* Where values come from: what a node caches, from the key itself.
Genuine == /\ \A p \in Proc : pc[p] = "add" => view[p] \in Value \cap hist[KeyOf(p)]
           /\ \A p \in Proc : pc[p] = "done" => view[p] \in Held[KeyOf(p)]
           /\ \A p \in Proc : res[p] # Nil => res[p] \in Held[key[p][3]]
           /\ \A n \in Node, k \in Key : cache[n][k] # Nil => cache[n][k] \in hist[k]

\* What holds of every cluster in every reachable state.
Inv == Types /\ SFP!IInv /\ Asked /\ Flights /\ Peers /\ Sources /\ Genuine

-----------------------------------------------------------------------------
(* Flights, rings and places *)

\* SingleFlight's assumptions on its constants hold here.
LEMMA SFAssumptions == SFP!NilAssumption /\ SFP!MayPanicAssumption
BY MarksAssumption DEF SFP!NilAssumption, SFP!MayPanicAssumption

\* A group starts in SingleFlight's invariant,
LEMMA SFInit == SF!Init => SFP!IInv
<1>1. SFP!Init => SFP!IInv
  BY SFAssumptions, SFP!InitIInv
<1>2. SF!Init => SFP!Init
  BY DEF SF!Init, SFP!Init
<1> QED BY <1>1, <1>2

\* and a step that is one of SingleFlight's, or none, keeps it.
LEMMA SFStep == SFP!IInv /\ [SF!Next]_sfVars => SFP!IInv'
<1>1. SFP!IInv /\ [SFP!Next]_(SFP!vars) => SFP!IInv'
  BY SFAssumptions, SFP!NextKeepsIInv
<1>2. SF!Next => SFP!Next
  BY DEF SF!Next, SFP!Next, SF!Fly, SFP!Fly, SF!Join, SFP!Join, SF!Lead, SFP!Lead,
         SF!FnReturn, SFP!FnReturn, SF!FnPanic, SFP!FnPanic, SF!WgDone, SFP!WgDone,
         SF!Forget, SFP!Forget, SF!WaitReturn, SFP!WaitReturn
<1>3. UNCHANGED sfVars => UNCHANGED SFP!vars
  BY DEF sfVars, SFP!vars
<1> QED BY <1>1, <1>2, <1>3

\* Whichever order Set gives the nodes, it makes a ring of all.
LEMMA RingsAreRings ==
    ASSUME NEW r \in Rings PROVE IsRing(r, Node, Hash)
<1>1. PICK order \in SetToSeqs(Node) : r = AddNodes(order, Hash)
  BY DEF Rings
<1>2. order \in Seq(Node) /\ Range(order) = Node
  BY <1>1, NodeAssumption, OrdersAreWhole
<1>3. IsRing(AddNodes(order, Hash), Range(order), Hash)
  BY <1>2, FunctionsAssumption, AddMakesRing
<1> QED BY <1>1, <1>2, <1>3

\* Whatever ring a node has, PickPeer finds a node or none.
LEMMA OwnerIsNode ==
    ASSUME NEW r \in Rings \cup {EmptyRing}, NEW h \in Int
    PROVE  GetNode(r, h) \in Node \cup {NoNode}
<1>1. CASE r = EmptyRing
  BY <1>1 DEF GetNode, EmptyRing
<1>2. CASE r \in Rings
  <2>1. IsRing(r, Node, Hash)
    BY <1>2, RingsAreRings
  <2>2. Hash \in [Node -> Seq(Int)] /\ Node \in SUBSET Node
    BY FunctionsAssumption
  <2>3. r.keys = << >> => GetNode(r, h) = NoNode
    BY <2>1, <2>2, GetFindsOwner
  <2>4. r.keys # << >> => GetNode(r, h) \in Node
    BY <2>1, <2>2, GetFindsOwner
  <2> QED BY <2>3, <2>4
<1> QED BY <1>1, <1>2

\* A goroutine's peer is another, and no client's, and nobody else's peer.
LEMMA PeerFacts ==
    ASSUME NEW p \in Proc, p[2] < MaxHop
    PROVE  /\ Peer(p) \in Proc /\ Peer(p) # p
           /\ \A c \in Client : Peer(p) # <<c, 0>>
           /\ \A q \in Proc : Peer(q) = Peer(p) => q = p
<1>1. MaxHop \in Nat
  BY BoundsAssumption
<1>2. PICK c \in Client, h \in 0..MaxHop : p = <<c, h>>
  BY DEF Proc
<1>3. Peer(p) = <<c, h + 1>> /\ h + 1 \in 0..MaxHop
  BY <1>1, <1>2 DEF Peer
<1>4. ASSUME NEW q \in Proc, Peer(q) = Peer(p) PROVE q = p
  <2>1. PICK d \in Client, i \in 0..MaxHop : q = <<d, i>>
    BY DEF Proc
  <2>2. d = c /\ i + 1 = h + 1
    BY <1>3, <1>4, <2>1 DEF Peer
  <2>3. i = h
    BY <1>1, <2>2
  <2> QED BY <1>2, <2>1, <2>2, <2>3
<1>5. Peer(p) # p /\ \A d \in Client : Peer(p) # <<d, 0>>
  <2>1. h + 1 # h /\ h + 1 # 0
    BY <1>1
  <2> QED BY <1>2, <1>3, <2>1
<1> QED BY <1>3, <1>4, <1>5 DEF Proc

\* Held changes only when the source does.
LEMMA HeldStays == UNCHANGED hist => UNCHANGED Held
BY DEF Held

\* What a key's source gave is held for it, and what is held for the key a peer reads.
LEMMA HeldKeys ==
    ASSUME Types, NEW k \in Key
    PROVE  hist[k] \subseteq Held[k] /\ Held[k] \subseteq Answer /\ Held[Wire[k]] \subseteq Held[k]
<1>1. ReadAs[k] \subseteq Key /\ k \in ReadAs[k] /\ Wire[k] \in Key
  BY FunctionsAssumption DEF ReadAs
<1>2. /\ Held[k] = UNION {hist[x] : x \in ReadAs[k]}
      /\ Held[Wire[k]] = UNION {hist[x] : x \in ReadAs[Wire[k]]}
  BY <1>1 DEF Held
<1>3. ReadAs[Wire[k]] \subseteq ReadAs[k]
  BY <1>1 DEF ReadAs
<1>4. Held[k] \subseteq Answer
  <2>1. \A x \in ReadAs[k] : hist[x] \subseteq Answer
    BY <1>1 DEF Types
  <2> QED BY <1>2, <2>1
<1> QED BY <1>1, <1>2, <1>3, <1>4

\* A request names a node and a key.
LEMMA PlaceParts ==
    ASSUME NEW p \in Proc, Types, req[p] # Nil
    PROVE  /\ req[p] \in Place /\ NodeOf(p) \in Node /\ KeyOf(p) \in Key
BY DEF Types, Place, NodeOf, KeyOf

-----------------------------------------------------------------------------
(* The steps keep the invariant *)

\* A step that only goes on in the code.
LEMMA MoveKeeps ==
    ASSUME Inv, NEW p \in Proc, NEW to,
           Goto(p, to), UNCHANGED <<nodeVars, req, view, cache, src, hist, sfVars>>,
           \/ pc[p] = "get" /\ to = "load" /\ KeyOf(p) # EmptyKey
           \/ pc[p] = "load" /\ day < 5 /\ to = "local"
           \/ pc[p] = "load" /\ day = 5 /\ to = "pick"
           \/ pc[p] \in {"pick", "remote"} /\ to = "local"
    PROVE  Inv'
<1> USE DEF nodeVars, Goto
<1>0. day \in Int
  BY BoundsAssumption DEF Inv, Types
<1>1. Types'
  BY DEF Inv, Types, Points
<1>2. SFP!IInv'
  <2>1. UNCHANGED sfVars
    OBVIOUS
  <2> QED BY <2>1, SFStep DEF Inv
<1>3. Asked'
  BY DEF Inv, Types, Asked, KeyOf
<1>4. Flights'
  BY <1>0 DEF Inv, Types, Flights, sfVars
<1>5. Peers'
  BY PeerFacts DEF Inv, Types, Peers, KeyOf
<1>6. Sources'
  BY DEF Inv, Sources
<1>7. Genuine'
  BY HeldStays DEF Inv, Types, Genuine, KeyOf, sfVars
<1> QED BY <1>1, <1>2, <1>3, <1>4, <1>5, <1>6, <1>7 DEF Inv

\* Get begins.
LEMMA StartKeeps ==
    ASSUME Inv, NEW c \in Client, NEW n \in Node, NEW k \in Key, Start(c, n, k)
    PROVE  Inv'
<1> DEFINE p == <<c, 0>>
<1> USE DEF Start, nodeVars, Goto
<1>0. p \in Proc /\ MaxHop \in Nat
  BY BoundsAssumption DEF Proc
<1>a. \A q \in Proc : q[2] < MaxHop => Peer(q) # p
  BY PeerFacts
<1>b. <<n, boots[n], k>> \in Place /\ <<n, boots[n], k>> # Nil /\ sf[p] = "idle"
  <2>1. <<n, boots[n], k>> \in Place
    BY DEF Inv, Types, Place
  <2> QED BY <1>0, <2>1, MarksAssumption DEF Inv, Flights
<1>1. Types'
  BY <1>0, <1>b DEF Inv, Types, Points
<1>2. SFP!IInv'
  BY SFStep DEF Inv
<1> HIDE DEF p
<1>3. Asked'
  BY <1>0, <1>b DEF Inv, Types, Asked, KeyOf, p
<1>4. Flights'
  BY <1>0, <1>b DEF Inv, Types, Flights, sfVars, p
<1>c. /\ pc' = [pc EXCEPT ![p] = "get"] /\ pc[p] = "none"
      /\ req' = [req EXCEPT ![p] = <<n, boots[n], k>>]
  BY DEF p
<1>5. Peers'
  <2> SUFFICES ASSUME NEW q \in Proc
               PROVE  /\ pc'[q] \in {"none", "get", "load", "pick"} /\ q[2] < MaxHop
                         => pc'[Peer(q)] = "none"
                      /\ pc'[q] = "remote" => /\ q[2] < MaxHop
                                              /\ pc'[Peer(q)] # "none"
                                              /\ KeyOf(Peer(q))' = Wire[KeyOf(q)']
    BY DEF Peers
  <2>1. q[2] < MaxHop => Peer(q) # p /\ Peer(q) \in Proc
    BY <1>a, PeerFacts
  <2>2. pc'[q] = "remote" => q # p /\ pc[q] = "remote"
    BY <1>0, <1>c DEF Inv, Types
  <2>3. pc'[q] \in {"none", "get", "load", "pick"} => pc[q] \in {"none", "get", "load", "pick"}
    BY <1>0, <1>c DEF Inv, Types
  <2> QED BY <1>c, <2>1, <2>2, <2>3 DEF Inv, Types, Peers, KeyOf
<1>6. Sources'
  BY DEF Inv, Sources
<1>7. Genuine'
  BY HeldStays, <1>0, <1>b DEF Inv, Types, Genuine, KeyOf, sfVars, p
<1> QED BY <1>1, <1>2, <1>3, <1>4, <1>5, <1>6, <1>7 DEF Inv

\* Get returns r without having called load.
LEMMA ReturnKeeps ==
    ASSUME Inv, NEW p \in Proc, NEW r \in Answer, pc[p] = "get", r \in Held[KeyOf(p)],
           view' = [view EXCEPT ![p] = r], Goto(p, "done"),
           UNCHANGED <<nodeVars, req, cache, src, hist, sfVars>>
    PROVE  Inv'
<1> USE DEF nodeVars, Goto
<1>1. Types'
  BY DEF Inv, Types, Points
<1>2. SFP!IInv'
  <2>1. UNCHANGED sfVars
    OBVIOUS
  <2> QED BY <2>1, SFStep DEF Inv
<1>3. Asked'
  BY DEF Inv, Types, Asked, KeyOf
<1>4. Flights'
  BY DEF Inv, Types, Flights, sfVars
<1>5. Peers'
  BY PeerFacts DEF Inv, Types, Peers, KeyOf
<1>6. Sources'
  BY DEF Inv, Sources
<1>7. Genuine'
  BY HeldStays DEF Inv, Types, Genuine, KeyOf, sfVars
<1> QED BY <1>1, <1>2, <1>3, <1>4, <1>5, <1>6, <1>7 DEF Inv

\* load calls Do, and there is a call to join.
LEMMA JoinKeeps ==
    ASSUME Inv, NEW p \in Proc, DoJoin(p)
    PROVE  Inv'
<1> USE DEF nodeVars, Goto, DoJoin
<1>0. req[p] \in Place /\ req[p] # Nil /\ res[p] = Nil
  BY DEF Inv, Types, Asked, SF!Join, Flights
<1>1. Types'
  BY DEF Inv, Types, Points
<1>2. SFP!IInv'
  <2>1. SF!Next
    BY <1>0 DEF SF!Next
  <2> QED BY <2>1, SFStep DEF Inv
<1>3. Asked'
  BY DEF Inv, Types, Asked, KeyOf
<1>9. /\ key' = [key EXCEPT ![p] = req[p]] /\ sf' = [sf EXCEPT ![p] = "wait"] /\ res' = res
      /\ key \in [Proc -> Place \cup {Nil}] /\ sf \in [Proc -> SF!Points]
  BY DEF SF!Join, SFP!IInv, SFP!TypeOK, Inv, SFP!Points, SF!Points
<1>4. Flights'
  BY <1>0, <1>9 DEF Inv, Types, Flights
<1>5. Peers'
  BY PeerFacts DEF Inv, Types, Peers, KeyOf
<1>6. Sources'
  BY DEF Inv, Sources
<1>7. Genuine'
  BY HeldStays, <1>0, <1>9 DEF Inv, Types, Genuine, KeyOf
<1> QED BY <1>1, <1>2, <1>3, <1>4, <1>5, <1>6, <1>7 DEF Inv

\* The same, if there is none.
LEMMA LeadKeeps ==
    ASSUME Inv, NEW p \in Proc, DoLead(p)
    PROVE  Inv'
<1> USE DEF nodeVars, Goto, DoLead
<1>0. req[p] \in Place /\ req[p] # Nil /\ res[p] = Nil
  BY DEF Inv, Types, Asked, SF!Lead, Flights
<1>1. Types'
  BY DEF Inv, Types, Points
<1>2. SFP!IInv'
  <2>1. SF!Next
    BY <1>0 DEF SF!Next
  <2> QED BY <2>1, SFStep DEF Inv
<1>3. Asked'
  BY DEF Inv, Types, Asked, KeyOf
<1>9. /\ key' = [key EXCEPT ![p] = req[p]] /\ sf' = [sf EXCEPT ![p] = "fn"] /\ res' = res
      /\ key \in [Proc -> Place \cup {Nil}] /\ sf \in [Proc -> SF!Points]
  BY DEF SF!Lead, SFP!IInv, SFP!TypeOK, Inv, SFP!Points, SF!Points
<1>4. Flights'
  BY <1>0, <1>9 DEF Inv, Types, Flights
<1>5. Peers'
  BY PeerFacts DEF Inv, Types, Peers, KeyOf
<1>6. Sources'
  BY DEF Inv, Sources
<1>7. Genuine'
  BY HeldStays, <1>0, <1>9 DEF Inv, Types, Genuine, KeyOf
<1> QED BY <1>1, <1>2, <1>3, <1>4, <1>5, <1>6, <1>7 DEF Inv

\* load's work ends with an answer of the source.
LEMMA LoadedKeeps ==
    ASSUME Inv, NEW p \in Proc, NEW r \in Answer, Loaded(p, r), r \in Held[KeyOf(p)],
           pc[p] \in {"remote", "local", "add"}, UNCHANGED <<nodeVars, req, src, hist>>,
           cache' \in [Node -> [Key -> Value \cup {Nil}]],
           \A n \in Node, k \in Key : cache'[n][k] # Nil => cache'[n][k] \in hist[k]
    PROVE  Inv'
<1> USE DEF nodeVars, Goto, Loaded
<1>0. day \in Int
  BY BoundsAssumption DEF Inv, Types
<1>1. Types'
  BY DEF Inv, Types, Points
<1>2. SFP!IInv'
  <2>1. UNCHANGED sfVars \/ SF!Next
    BY DEF SF!Next, SF!Fly
  <2> QED BY <2>1, SFStep DEF Inv
<1>3. Asked'
  BY DEF Inv, Types, Asked, KeyOf
<1>9. /\ key' = key
      /\ key \in [Proc -> Place \cup {Nil}] /\ sf \in [Proc -> SF!Points]
      /\ res \in [Proc -> Answer \cup {Nil}]
  BY DEF SF!FnReturn, SFP!IInv, SFP!TypeOK, Inv, SFP!Points, SF!Points, sfVars
<1>10. \/ sf' = sf /\ res' = res /\ day <= 5
       \/ /\ sf[p] = "fn" /\ sf' = [sf EXCEPT ![p] = "landed"] /\ res' = [res EXCEPT ![p] = r]
          /\ pc' = [pc EXCEPT ![p] = "do"]
  BY DEF SF!FnReturn, sfVars
<1>a. /\ pc' = [pc EXCEPT ![p] = "done"] \/ pc' = [pc EXCEPT ![p] = "do"]
      /\ req[p] # Nil /\ pc \in [Proc -> Points] /\ UNCHANGED <<day, req>>
  BY DEF Inv, Types, Asked
<1>4. Flights'
  <2>1. CASE sf' = sf /\ res' = res
    BY <1>9, <1>a, <2>1 DEF Inv, Flights
  <2>2. CASE sf[p] = "fn" /\ sf' = [sf EXCEPT ![p] = "landed"] /\ res' = [res EXCEPT ![p] = r]
    BY <1>9, <1>a, <2>2 DEF Inv, Flights
  <2> QED BY <1>10, <2>1, <2>2
<1>5. Peers'
  BY PeerFacts DEF Inv, Types, Peers, KeyOf
<1>6. Sources'
  BY DEF Inv, Sources
<1>b. \A q \in Proc : res'[q] # Nil => res'[q] \in Held[key[q][3]]
  BY <1>9, <1>10 DEF Inv, Genuine, KeyOf, Flights
<1>c. UNCHANGED <<req, hist, key, Held>>
  BY <1>9, HeldStays
<1>7. Genuine'
  <2>1. \A q \in Proc : (pc'[q] = "add" => q # p /\ pc[q] = "add" /\ view'[q] = view[q])
    BY DEF Inv, Types
  <2>2. \A q \in Proc : (pc'[q] = "done" => view'[q] \in Held[KeyOf(q)])
    BY DEF Inv, Types, Genuine
  <2> QED BY <1>b, <1>c, <2>1, <2>2 DEF Inv, Genuine, KeyOf
<1> QED BY <1>1, <1>2, <1>3, <1>4, <1>5, <1>6, <1>7 DEF Inv

\* The getter returns a value.
LEMMA FetchKeeps ==
    ASSUME Inv, NEW p \in Proc, Fetch(p)
    PROVE  Inv'
<1> USE DEF nodeVars, Goto, Fetch
<1>0. /\ KeyOf(p) \in Key /\ KeyOf(p) # EmptyKey /\ src[KeyOf(p)] \in hist[KeyOf(p)]
      /\ src[KeyOf(p)] \in Value
  BY PlaceParts DEF Inv, Asked, Sources, Types, Answer
<1>1. Types'
  BY <1>0 DEF Inv, Types, Points, Answer
<1>2. SFP!IInv'
  <2>1. UNCHANGED sfVars
    OBVIOUS
  <2> QED BY <2>1, SFStep DEF Inv
<1>3. Asked'
  BY DEF Inv, Types, Asked, KeyOf
<1>4. Flights'
  BY DEF Inv, Types, Flights, sfVars
<1>5. Peers'
  BY PeerFacts DEF Inv, Types, Peers, KeyOf
<1>6. Sources'
  BY DEF Inv, Sources
<1>7. Genuine'
  BY HeldStays, <1>0 DEF Inv, Types, Genuine, KeyOf, sfVars
<1> QED BY <1>1, <1>2, <1>3, <1>4, <1>5, <1>6, <1>7 DEF Inv

\* The leader wakes the waiters.
LEMMA WgDoneKeeps ==
    ASSUME Inv, NEW p \in Proc, DoWgDone(p)
    PROVE  Inv'
<1> USE DEF nodeVars, DoWgDone
<1>2. SFP!IInv'
  <2>1. SF!Next
    BY DEF SF!Next, SF!Fly
  <2> QED BY <2>1, SFStep DEF Inv
<1>9. /\ key' = key /\ res' = res /\ sf[p] = "landed" /\ sf' = [sf EXCEPT ![p] = "open"]
      /\ sf \in [Proc -> SF!Points]
  BY DEF SF!WgDone, SFP!IInv, SFP!TypeOK, Inv, SFP!Points, SF!Points
<1>1. Types' /\ Asked' /\ Peers' /\ Sources'
  BY DEF Inv, Types, Asked, Peers, Sources, KeyOf
<1>4. Flights'
  BY <1>9 DEF Inv, Types, Flights
<1>7. Genuine'
  BY HeldStays, <1>9 DEF Inv, Types, Genuine, KeyOf
<1> QED BY <1>1, <1>2, <1>4, <1>7 DEF Inv

\* Do returns, with the result of a call for the same key.
LEMMA DoReturnKeeps ==
    ASSUME Inv, NEW p \in Proc, DoReturn(p)
    PROVE  Inv' /\ view' = [view EXCEPT ![p] = ret'[p]] /\ ret'[p] \in Held[KeyOf(p)]
<1> USE DEF nodeVars, DoReturn, Goto
<1>2. SFP!IInv'
  <2>1. SF!Next
    BY DEF SF!Next, SF!Fly
  <2> QED BY <2>1, SFStep DEF Inv
<1>9. /\ key' = key /\ res' = res /\ sf[p] # "idle" /\ sf' = [sf EXCEPT ![p] = "out"]
      /\ sf \in [Proc -> SF!Points]
  BY DEF SF!Forget, SF!WaitReturn, SFP!IInv, SFP!TypeOK, Inv, SFP!Points, SF!Points
<1>10. \E c \in Proc : /\ ret' = [ret EXCEPT ![p] = res[c]]
                       /\ res[c] # Nil /\ key[c] = key[p]
  <2>1. CASE SF!Forget(p)
    <3>1. sf[p] = "open" /\ ret' = [ret EXCEPT ![p] = res[p]]
      BY <2>1 DEF SF!Forget
    <3>2. call[p] = p
      BY <3>1 DEF Inv, SFP!IInv, SFP!CallFacts, SFP!Leading
    <3>3. res[p] # Nil
      BY <3>1, <3>2 DEF Inv, SFP!IInv, SFP!CallFacts
    <3> QED BY <3>1, <3>3
  <2>2. CASE SF!WaitReturn(p)
    <3>1. sf[p] = "wait" /\ wg[call[p]] = 0 /\ ret' = [ret EXCEPT ![p] = res[call[p]]]
      BY <2>2 DEF SF!WaitReturn
    <3>2. /\ call[p] \in Proc /\ key[call[p]] = key[p] /\ call[call[p]] = call[p]
          /\ sf[call[p]] \in {"fn", "landed", "open", "out", "dead"}
      BY <3>1 DEF Inv, SFP!IInv, SFP!CallFacts
    <3>3. sf[call[p]] \in {"landed", "open", "out"}
      BY <3>1, <3>2 DEF Inv, SFP!IInv, SFP!CallFacts
    <3>4. res[call[p]] # Nil
      BY <3>2, <3>3 DEF Inv, SFP!IInv, SFP!CallFacts
    <3> QED BY <3>1, <3>2, <3>4
  <2> QED BY <2>1, <2>2
<1>11. ret'[p] \in Held[KeyOf(p)] /\ req[p] \in Place /\ req[p] # Nil
  <2>1. PICK c \in Proc : ret' = [ret EXCEPT ![p] = res[c]] /\ res[c] # Nil /\ key[c] = key[p]
    BY <1>10
  <2>2. ret'[p] = res[c]
    BY <2>1 DEF Inv, SFP!IInv, SFP!TypeOK
  <2>3. key[p] = req[p] /\ req[p] # Nil
    BY <1>9 DEF Inv, Flights
  <2> QED BY <2>1, <2>2, <2>3 DEF Inv, Genuine, KeyOf, Types
<1>12. ret'[p] \in Answer
  BY <1>11, PlaceParts, HeldKeys DEF Inv
<1>1. Types'
  BY <1>12 DEF Inv, Types, Points
<1>3. Asked'
  BY DEF Inv, Types, Asked, KeyOf
<1>4. Flights'
  BY <1>9 DEF Inv, Types, Flights
<1>5. Peers'
  BY PeerFacts DEF Inv, Types, Peers, KeyOf
<1>6. Sources'
  BY DEF Inv, Sources
<1>7. Genuine'
  BY HeldStays, <1>9, <1>11 DEF Inv, Types, Genuine, KeyOf
<1> QED BY <1>1, <1>2, <1>3, <1>4, <1>5, <1>6, <1>7, <1>11 DEF Inv

\* The peer begins a Get: of a key of its own, for the goroutine that asked.
LEMMA PickPeerKeeps ==
    ASSUME Inv, NEW p \in Proc, PickPeer(p)
    PROVE  Inv'
<1> DEFINE o == Owner(NodeOf(p), KeyOf(p))
           q == Peer(p)
           k == Wire[KeyOf(p)]
<1> USE DEF nodeVars, PickPeer, Goto, Remote
<1>0. NodeOf(p) \in Node /\ KeyOf(p) \in Key /\ p[2] < MaxHop
  BY PlaceParts DEF Inv, Asked
<1>1. o \in Node
  <2>1. ring[NodeOf(p)] \in Rings \cup {EmptyRing} /\ KeyHash[KeyOf(p)] \in Int
    BY <1>0, FunctionsAssumption DEF Inv, Types
  <2>2. o \in Node \cup {NoNode}
    BY <2>1, OwnerIsNode DEF Owner
  <2> QED BY <2>2
<1>2. k \in Key
  BY <1>0, FunctionsAssumption
<1> DEFINE place == <<o, boots[o], k>>
<1>3. place \in Place /\ place # Nil /\ place[3] = k
  <2>1. boots[o] \in 0..MaxCrashes
    BY <1>1 DEF Inv, Types
  <2>2. place \in Place
    BY <1>1, <1>2, <2>1 DEF Place
  <2> QED BY <2>2, MarksAssumption
<1>4. /\ q \in Proc /\ q # p /\ \A c \in Client : q # <<c, 0>>
      /\ \A x \in Proc : Peer(x) = q => x = p
      /\ pc[q] = "none" /\ pc[p] = "pick" /\ sf[q] = "idle"
  BY <1>0, PeerFacts DEF Inv, Peers, Flights
<1>5. /\ pc' = [pc EXCEPT ![p] = "remote", ![q] = "get"]
      /\ req' = [req EXCEPT ![q] = place]
      /\ UNCHANGED <<day, life, boots, ring, view, cache, src, hist>> /\ UNCHANGED sfVars
      /\ pc \in [Proc -> Points] /\ req \in [Proc -> Place \cup {Nil}]
  BY DEF Inv, Types
<1> HIDE DEF o, q, k, place, PickPeer
<1>6. Types'
  BY <1>3, <1>4, <1>5 DEF Inv, Types, Points
<1>7. SFP!IInv'
  BY <1>5, SFStep DEF Inv
<1>8. Asked'
  BY <1>3, <1>4, <1>5 DEF Inv, Asked, KeyOf
<1>9. Flights'
  BY <1>3, <1>4, <1>5 DEF Inv, Flights, sfVars
<1>10. Peers'
  <2> SUFFICES ASSUME NEW x \in Proc
               PROVE  /\ pc'[x] \in {"none", "get", "load", "pick"} /\ x[2] < MaxHop
                         => pc'[Peer(x)] = "none"
                      /\ pc'[x] = "remote" => /\ x[2] < MaxHop
                                              /\ pc'[Peer(x)] # "none"
                                              /\ KeyOf(Peer(x))' = Wire[KeyOf(x)']
    BY DEF Peers
  <2>0. x[2] < MaxHop => Peer(x) \in Proc /\ Peer(x) # x /\ \A y \in Proc : Peer(y) = Peer(x) => y = x
    BY PeerFacts
  <2>1. CASE x = p
    <3>1. pc'[p] = "remote" /\ pc'[q] = "get" /\ req'[q] = place /\ req'[p] = req[p]
      BY <1>4, <1>5
    <3>2. KeyOf(q)' = k /\ KeyOf(p)' = KeyOf(p)
      BY <1>3, <3>1 DEF KeyOf
    <3> QED BY <1>0, <2>1, <3>1, <3>2 DEF q, k
  <2>2. CASE x = q
    <3>1. pc'[q] = "get"
      BY <1>4, <1>5
    <3>2. x[2] < MaxHop => Peer(x) # p
      <4> SUFFICES ASSUME x[2] < MaxHop, Peer(x) = p PROVE FALSE
        OBVIOUS
      <4>1. pc[q] = "none" => pc[Peer(q)] = "none"
        BY <2>2 DEF Inv, Peers
      <4> QED BY <1>4, <2>2, <4>1
    <3>3. x[2] < MaxHop => pc'[Peer(x)] = "none"
      BY <1>4, <1>5, <2>0, <2>2, <3>2 DEF Inv, Peers
    <3> QED BY <2>2, <3>1, <3>3
  <2>3. CASE x # p /\ x # q
    <3>1. pc'[x] = pc[x] /\ req'[x] = req[x]
      BY <1>5, <2>3
    <3>2. x[2] < MaxHop => Peer(x) # q
      BY <1>4, <2>3
    <3>3. x[2] < MaxHop => \/ pc'[Peer(x)] = pc[Peer(x)] /\ req'[Peer(x)] = req[Peer(x)]
                           \/ Peer(x) = p /\ pc'[p] = "remote" /\ req'[p] = req[p]
      BY <1>4, <1>5, <2>0, <3>2
    <3>4. pc[x] \in {"none", "get", "load", "pick"} /\ x[2] < MaxHop => Peer(x) # p
      BY <1>4 DEF Inv, Peers
    <3>5. pc'[x] \in {"none", "get", "load", "pick"} /\ x[2] < MaxHop => pc'[Peer(x)] = "none"
      BY <3>1, <3>3, <3>4 DEF Inv, Peers
    <3>6. pc'[x] = "remote" => /\ x[2] < MaxHop
                               /\ pc'[Peer(x)] # "none"
                               /\ KeyOf(Peer(x))' = Wire[KeyOf(x)']
      BY <3>1, <3>3 DEF Inv, Peers, KeyOf
    <3> QED BY <3>5, <3>6
  <2> QED BY <2>1, <2>2, <2>3
<1>11. Sources'
  BY <1>5 DEF Inv, Sources
<1>12. Genuine'
  BY HeldStays, <1>3, <1>4, <1>5 DEF Inv, Types, Genuine, KeyOf, sfVars
<1> QED BY <1>6, <1>7, <1>8, <1>9, <1>10, <1>11, <1>12 DEF Inv

\* Nodes come and go, and with them caches and rings.
LEMMA NodesKeep ==
    ASSUME Inv, NEW n \in Node, StartCacheServer(n) \/ Crash(n) \/ Restart(n)
    PROVE  Inv'
<1>0. /\ UNCHANGED <<day, pc, req, view, src, hist>> /\ UNCHANGED sfVars
      /\ cache' = cache \/ cache' = [cache EXCEPT ![n] = NoKeys]
      /\ boots' = boots \/ (boots[n] < MaxCrashes /\ boots' = [boots EXCEPT ![n] = @ + 1])
      /\ ring' = ring \/ \E r \in Rings \cup {EmptyRing} : ring' = [ring EXCEPT ![n] = r]
      /\ \E l \in {"down", "booting", "up"} : life' = [life EXCEPT ![n] = l]
  <2>1. CASE StartCacheServer(n)
    <3>1. PICK r \in IF day < 5 THEN {EmptyRing} ELSE Rings : ring' = [ring EXCEPT ![n] = r]
      BY <2>1 DEF StartCacheServer
    <3>2. r \in Rings \cup {EmptyRing}
      OBVIOUS
    <3> QED BY <2>1, <3>1, <3>2 DEF StartCacheServer
  <2>2. CASE Crash(n)
    BY <2>2 DEF Crash
  <2>3. CASE Restart(n)
    BY <2>3 DEF Restart
  <2> QED BY <2>1, <2>2, <2>3
<1>1. SFP!IInv'
  BY <1>0, SFStep DEF Inv
<1>2. Types'
  <2>1. cache' \in [Node -> [Key -> Value \cup {Nil}]]
    BY <1>0 DEF Inv, Types, NoKeys
  <2>2. boots' \in [Node -> 0..MaxCrashes]
    <3>1. MaxCrashes \in Nat /\ boots \in [Node -> 0..MaxCrashes]
      BY BoundsAssumption DEF Inv, Types
    <3>2. CASE boots' = boots
      BY <3>1, <3>2
    <3>3. CASE boots[n] < MaxCrashes /\ boots' = [boots EXCEPT ![n] = @ + 1]
      <4>1. boots[n] + 1 \in 0..MaxCrashes
        BY <3>1, <3>3
      <4> QED BY <3>1, <3>3, <4>1
    <3> QED BY <1>0, <3>2, <3>3
  <2>3. ring' \in [Node -> Rings \cup {EmptyRing}]
    BY <1>0 DEF Inv, Types
  <2>4. life' \in [Node -> {"down", "booting", "up"}]
    BY <1>0 DEF Inv, Types
  <2> QED BY <1>0, <2>1, <2>2, <2>3, <2>4 DEF Inv, Types
<1>3. Asked' /\ Peers' /\ Sources'
  BY <1>0 DEF Inv, Asked, Peers, Sources, KeyOf
<1>4. Flights'
  BY <1>0 DEF Inv, Flights, sfVars
<1>5. Genuine'
  <2>1. \A x \in Node, k \in Key : cache'[x][k] # Nil => cache'[x][k] \in hist[k]
    <3>1. CASE cache' = cache
      BY <3>1 DEF Inv, Genuine
    <3>2. CASE cache' = [cache EXCEPT ![n] = NoKeys]
      <4>1. \A x \in Node : cache'[x] = IF x = n THEN NoKeys ELSE cache[x]
        BY <3>2 DEF Inv, Types
      <4> QED BY <4>1 DEF Inv, Genuine, NoKeys
    <3> QED BY <1>0, <3>1, <3>2
  <2>2. UNCHANGED <<pc, req, view, hist, Held, res, key>>
    BY <1>0, HeldStays DEF sfVars
  <2> QED BY <2>1, <2>2 DEF Inv, Genuine, KeyOf
<1> QED BY <1>1, <1>2, <1>3, <1>4, <1>5 DEF Inv

\* The source changes its answer; what it gave stays on record.
LEMMA ChangeKeeps ==
    ASSUME Inv, NEW k \in Key, NEW r \in Answer, Change(k, r)
    PROVE  Inv'
<1> USE DEF nodeVars, Change
<1>0. UNCHANGED <<day, life, boots, ring, pc, req, view, cache>> /\ UNCHANGED sfVars
  OBVIOUS
<1>1. /\ k # EmptyKey /\ src' = [src EXCEPT ![k] = r] /\ hist' = [hist EXCEPT ![k] = @ \cup {r}]
  BY BoundsAssumption
<1>2. \A x \in Key : hist[x] \subseteq hist'[x]
  BY <1>1 DEF Inv, Types
<1> HIDE DEF Change
<1>3. Types'
  BY <1>0, <1>1 DEF Inv, Types
<1>4. SFP!IInv'
  BY <1>0, SFStep DEF Inv
<1>5. Asked' /\ Peers'
  BY <1>0 DEF Inv, Asked, Peers, KeyOf
<1>6. Flights'
  BY <1>0 DEF Inv, Flights, sfVars
<1>7. Sources'
  BY <1>1, <1>2 DEF Inv, Sources, Types
<1>8. \A x \in Key : Held[x] \subseteq Held'[x]
  <2>1. \A x \in Key : ReadAs[x] \subseteq Key
    BY DEF ReadAs
  <2> QED BY <1>2, <2>1 DEF Held
<1>9. Genuine'
  <2>1. ASSUME NEW p \in Proc, req[p] # Nil
        PROVE  /\ view[p] \in Held[KeyOf(p)] => view[p] \in Held'[KeyOf(p)]
               /\ view[p] \in hist[KeyOf(p)] => view[p] \in hist'[KeyOf(p)]
    BY <1>2, <1>8, <2>1, PlaceParts DEF Inv
  <2>2. ASSUME NEW p \in Proc, res[p] # Nil PROVE res[p] \in Held'[key[p][3]]
    <3>1. sf[p] # "idle"
      BY <2>2 DEF Inv, Flights
    <3>2. key[p] = req[p] /\ req[p] # Nil
      BY <3>1 DEF Inv, Flights
    <3>3. key[p][3] \in Key
      BY <3>2, PlaceParts DEF Inv, KeyOf
    <3> QED BY <1>8, <2>2, <3>3 DEF Inv, Genuine
  <2>3. UNCHANGED <<pc, req, view, cache, res, key>>
    BY <1>0 DEF sfVars
  <2>4. \A p \in Proc : pc[p] \in {"add", "done"} => req[p] # Nil
    BY DEF Inv, Asked
  <2> QED BY <1>2, <2>1, <2>2, <2>3, <2>4 DEF Inv, Genuine, KeyOf
<1> QED BY <1>3, <1>4, <1>5, <1>6, <1>7, <1>9 DEF Inv

\* The steps of a Get, by what they do: they only go on in the code; Get returns without
\* load; load's work ends; Do.
Move(p) == GetMiss(p) \/ LoadLocally(p) \/ LoadAlone(p) \/ PickLocal(p) \/ PeerRefuses(p)
              \/ PeerFails(p) \/ PeerLost(p) \/ LinkFails(p)
Answers(p) == GetEmpty(p) \/ GetHit(p)
Ends(p) == PeerAnswers(p) \/ FetchFails(p) \/ Populate(p)
Does(p) == DoJoin(p) \/ DoLead(p) \/ DoWgDone(p) \/ DoReturn(p)

Act(p) == Move(p) \/ Answers(p) \/ Does(p) \/ PickPeer(p) \/ Fetch(p) \/ Ends(p)

\* The steps of any day's code, less the day.
LEMMA Steps ==
    ASSUME Next
    PROVE  \/ \E c \in Client, n \in Node, k \in Key : Start(c, n, k)
           \/ \E p \in Proc : Alive(p) /\ Act(p)
           \/ \E n \in Node : StartCacheServer(n) \/ Crash(n) \/ Restart(n)
           \/ \E k \in Key, r \in Answer : Change(k, r)
<1>1. ASSUME NEW c \in Client, NEW n \in Node, NEW k \in Key, Ask(c, n, k) PROVE Start(c, n, k)
  BY <1>1 DEF Ask, Call2, Serve3, Serve4, Serve5, Serve6, Serve7, Api5, Api6, Api7
<1>2. ASSUME NEW p \in Proc, Proceed(p) PROVE Alive(p) /\ Act(p)
  BY <1>2 DEF Proceed, Group2, Group3, Group4, Group5, Group6, Group7, Cache2, Cache3, Cache4,
     Cache5, Cache6, Cache7, Pool5, Pool6, Pool7, Do6, Do7, Act, Move, Answers, Ends, Does
<1>3. ASSUME NEW p \in Proc, LinkFails(p) PROVE Act(p)
  BY <1>3 DEF Act, Move
<1> QED BY <1>1, <1>2, <1>3 DEF Next

\* Every step of a Get keeps the invariant.
LEMMA ActKeeps ==
    ASSUME Inv, NEW p \in Proc, Act(p)
    PROVE  Inv'
<1>0. req[p] # Nil => KeyOf(p) \in Key /\ NodeOf(p) \in Node
  BY PlaceParts DEF Inv
<1>1. CASE Move(p)
  <2>1. \E to \in Points :
          /\ Goto(p, to)
          /\ \/ pc[p] = "get" /\ to = "load" /\ KeyOf(p) # EmptyKey
             \/ pc[p] = "load" /\ day < 5 /\ to = "local"
             \/ pc[p] = "load" /\ day = 5 /\ to = "pick"
             \/ pc[p] \in {"pick", "remote"} /\ to = "local"
    BY <1>1 DEF Move, GetMiss, LoadLocally, LoadAlone, PickLocal, PeerRefuses, PeerFails, PeerLost,
       LinkFails, Points
  <2>2. UNCHANGED <<nodeVars, req, view, cache, src, hist, sfVars>>
    BY <1>1 DEF Move, GetMiss, LoadLocally, LoadAlone, PickLocal, PeerRefuses, PeerFails, PeerLost,
       LinkFails
  <2> QED BY <2>1, <2>2, MoveKeeps
<1>2. CASE Answers(p)
  <2>1. \E r \in Answer : /\ r \in Held[KeyOf(p)] /\ view' = [view EXCEPT ![p] = r]
                          /\ pc[p] = "get" /\ Goto(p, "done")
                          /\ UNCHANGED <<nodeVars, req, cache, src, hist, sfVars>>
    <3>1. CASE GetEmpty(p)
      <4>1. KeyOf(p) \in Key /\ KeyOf(p) = EmptyKey
        BY <1>0, <3>1 DEF GetEmpty, Inv, Asked
      <4>2. Err \in Held[KeyOf(p)] /\ Err \in Answer
        BY <4>1, HeldKeys DEF Inv, Sources, Answer
      <4> QED BY <3>1, <4>2 DEF GetEmpty
    <3>2. CASE GetHit(p)
      <4>1. KeyOf(p) \in Key /\ NodeOf(p) \in Node
        BY <1>0, <3>2 DEF GetHit, Inv, Asked
      <4>2. cache[NodeOf(p)][KeyOf(p)] \in Held[KeyOf(p)] /\ cache[NodeOf(p)][KeyOf(p)] \in Answer
        BY <3>2, <4>1, HeldKeys DEF Inv, Genuine, GetHit
      <4> QED BY <3>2, <4>2 DEF GetHit
    <3> QED BY <1>2, <3>1, <3>2 DEF Answers
  <2> QED BY <2>1, ReturnKeeps
<1>3. CASE Ends(p)
  <2>1. /\ pc[p] \in {"remote", "local", "add"} /\ UNCHANGED <<nodeVars, req, src, hist>>
        /\ req[p] # Nil /\ KeyOf(p) # EmptyKey /\ KeyOf(p) \in Key /\ NodeOf(p) \in Node
    <3>1. pc[p] \in {"remote", "local", "add"} /\ UNCHANGED <<nodeVars, req, src, hist>>
      BY <1>3 DEF Ends, PeerAnswers, FetchFails, Populate
    <3> QED BY <1>0, <3>1 DEF Inv, Asked
  <2>2. \E r \in Answer : r \in Held[KeyOf(p)] /\ Loaded(p, r)
    <3>1. CASE PeerAnswers(p)
      <4>1. /\ Peer(p) \in Proc /\ KeyOf(Peer(p)) = Wire[KeyOf(p)]
            /\ pc[Peer(p)] = "done" /\ Loaded(p, view[Peer(p)])
        BY <3>1, PeerFacts DEF PeerAnswers, Inv, Peers
      <4>2. view[Peer(p)] \in Held[Wire[KeyOf(p)]]
        BY <4>1 DEF Inv, Genuine
      <4>3. view[Peer(p)] \in Held[KeyOf(p)] /\ view[Peer(p)] \in Answer
        BY <2>1, <4>2, HeldKeys DEF Inv
      <4> QED BY <4>1, <4>3
    <3>2. CASE FetchFails(p)
      <4>1. Err \in Held[KeyOf(p)] /\ Err \in Answer
        BY <2>1, <3>2, HeldKeys DEF Inv, Sources, FetchFails, Answer
      <4> QED BY <3>2, <4>1 DEF FetchFails
    <3>3. CASE Populate(p)
      <4>1. view[p] \in Held[KeyOf(p)] /\ view[p] \in Answer
        BY <2>1, <3>3, HeldKeys DEF Inv, Genuine, Populate
      <4> QED BY <3>3, <4>1 DEF Populate
    <3> QED BY <1>3, <3>1, <3>2, <3>3 DEF Ends
  <2>3. /\ cache' \in [Node -> [Key -> Value \cup {Nil}]]
        /\ \A n \in Node, k \in Key : cache'[n][k] # Nil => cache'[n][k] \in hist[k]
    <3>1. CASE PeerAnswers(p) \/ FetchFails(p)
      <4>1. cache' = cache
        BY <3>1 DEF PeerAnswers, FetchFails
      <4> QED BY <4>1 DEF Inv, Types, Genuine
    <3>2. CASE Populate(p)
      <4> DEFINE n == NodeOf(p)
      <4>1. PICK gone \in SUBSET Evictable :
                cache' = [cache EXCEPT ![n] = Added(@, KeyOf(p), view[p], gone)]
        BY <3>2 DEF Populate
      <4>2. view[p] \in Value /\ view[p] \in hist[KeyOf(p)]
        BY <3>2 DEF Populate, Inv, Genuine
      <4> DEFINE new == Added(cache[n], KeyOf(p), view[p], gone)
      <4>3. /\ new \in [Key -> Value \cup {Nil}]
            /\ \A k \in Key : new[k] # Nil => new[k] \in hist[k]
        <5>1. new = [x \in Key |-> IF x \in gone THEN Nil
                                   ELSE IF x = KeyOf(p) /\ cache[n][KeyOf(p)] = Nil THEN view[p]
                                   ELSE cache[n][x]]
          BY DEF Added
        <5>2. \A x \in Key : /\ cache[n][x] \in Value \cup {Nil}
                             /\ cache[n][x] # Nil => cache[n][x] \in hist[x]
          BY <2>1 DEF Inv, Types, Genuine
        <5> HIDE DEF new, n
        <5> QED BY <2>1, <4>2, <5>1, <5>2
      <4>4. cache' = [cache EXCEPT ![n] = new] /\ n \in Node
        BY <2>1, <4>1
      <4> HIDE DEF new, n
      <4> QED BY <4>3, <4>4 DEF Inv, Types, Genuine
    <3> QED BY <1>3, <3>1, <3>2 DEF Ends
  <2> QED BY <2>1, <2>2, <2>3, LoadedKeeps
<1>4. CASE Does(p)
  BY <1>4, JoinKeeps, LeadKeeps, WgDoneKeeps, DoReturnKeeps DEF Does
<1> QED BY <1>1, <1>2, <1>3, <1>4, PickPeerKeeps, FetchKeeps DEF Act

\* The invariant holds at first,
LEMMA InitInv == Init => Inv
<1> SUFFICES ASSUME Init PROVE Inv
  OBVIOUS
<1>0. MaxCrashes \in Nat /\ MaxHop \in Nat /\ Nil \notin Answer /\ Nil \notin Place
  BY BoundsAssumption, MarksAssumption
<1>1. SFP!IInv
  BY SFInit DEF Init
<1>2. sf = [p \in Proc |-> "idle"] /\ res = [p \in Proc |-> Nil]
  BY DEF Init, SF!Init
<1>3. Types
  <2>1. hist \in [Key -> SUBSET Answer]
    BY FunctionsAssumption DEF Init, Answer
  <2>2. ring \in [Node -> Rings \cup {EmptyRing}]
    BY DEF Init
  <2> QED BY <1>0, <2>1, <2>2, FunctionsAssumption DEF Init, Types, Points, NoKeys
<1>4. Asked /\ Sources
  BY DEF Init, Asked, Sources
<1>5. Flights
  BY <1>2 DEF Init, Flights
<1>6. Peers
  BY PeerFacts DEF Init, Peers
<1>7. Genuine
  BY <1>2 DEF Init, Genuine, NoKeys
<1> QED BY <1>1, <1>3, <1>4, <1>5, <1>6, <1>7 DEF Inv

\* after every step,
LEMMA NextKeepsInv == Inv /\ [Next]_vars => Inv'
<1> SUFFICES ASSUME Inv, [Next]_vars PROVE Inv'
  OBVIOUS
<1>1. CASE Next
  BY <1>1, Steps, StartKeeps, ActKeeps, NodesKeep, ChangeKeeps
<1>2. CASE UNCHANGED vars
  <2>1. SFP!IInv'
    BY <1>2, SFStep DEF Inv, vars
  <2>2. UNCHANGED Held
    BY <1>2, HeldStays DEF vars
  <2> QED BY <1>2, <2>1, <2>2 DEF vars, nodeVars, sfVars, Inv, Types, Asked, Flights, Peers,
             Sources, Genuine, KeyOf
<1> QED BY <1>1, <1>2

\* and always.
LEMMA Invariance == Spec => []Inv
BY InitInv, NextKeepsInv, PTL DEF Spec

-----------------------------------------------------------------------------
(* What follows of it *)

\* Every variable keeps its type, whatever the wire makes of keys: in particular PickPeer
\* only ever finds a node of the cluster, and a goroutine of the cluster answers.
THEOREM TypeCorrect == Spec => []TypeOK
<1>1. Inv => TypeOK
  BY DEF Inv, Types, TypeOK, SFP!IInv, SFP!TypeOK, SF!TypeOK, SFP!Points, SF!Points
<1> QED BY <1>1, Invariance, PTL

\* Answers come from keys as which the asked one may be read, cached values from their own.
AnswersHeld == /\ \A p \in Proc : pc[p] = "done" => view[p] \in Held[KeyOf(p)]
               /\ \A n \in Node, k \in Key : cache[n][k] # Nil => cache[n][k] \in hist[k]

\* Whatever happens, an answer is one that the source gave for the key asked for or for one
\* that peers read in its place from URLs; and a cache holds a key's own values only.
THEOREM AnswersAreHeld == Spec => []AnswersHeld
<1>1. Inv => AnswersHeld
  BY DEF Inv, Genuine, AnswersHeld
<1> QED BY <1>1, Invariance, PTL

\* The wire changes no key.
Plain == \A k \in Key : Wire[k] = k

\* If the wire changes no key, there are no others.
LEMMA PlainHeld ==
    ASSUME Plain, NEW k \in Key
    PROVE  Held[k] = hist[k]
<1>1. {k} \in SUBSET Key /\ (\A y \in {k} : Wire[y] \in {k})
  BY DEF Plain
<1>2. ReadAs[k] = {k}
  BY <1>1 DEF ReadAs
<1> QED BY <1>2 DEF Held

\* If the wire changes no key, an answer is one that the source gave for that key: no value of
\* another key, no made-up error, through any loads, flights, peers, crashes and failed links.
THEOREM AnswersAreGenuine == ASSUME Plain PROVE Spec => []AnswersGenuine
<1>1. Inv => AnswersGenuine
  <2> SUFFICES ASSUME Inv PROVE AnswersGenuine
    OBVIOUS
  <2>1. ASSUME NEW p \in Proc, pc[p] = "done" PROVE view[p] \in hist[KeyOf(p)]
    <3>1. KeyOf(p) \in Key
      BY <2>1, PlaceParts DEF Inv, Asked
    <3> QED BY <2>1, <3>1, PlainHeld DEF Inv, Genuine
  <2> QED BY <2>1 DEF Inv, Genuine, AnswersGenuine
<1> QED BY <1>1, Invariance, PTL

-----------------------------------------------------------------------------
(* The cluster is a read-through cache *)

\* What a step of p's leaves alone: it is p's own, unless it asks a peer.
LEMMA ActShape ==
    ASSUME Inv, NEW p \in Proc, Act(p)
    PROVE  /\ UNCHANGED nodeVars /\ UNCHANGED hist
           /\ pc[p] \notin {"none", "done"}
           /\ Populate(p) \/ UNCHANGED cache
           /\ \A q \in Proc : q # p => view'[q] = view[q] /\ (pc'[q] = "done" <=> pc[q] = "done")
           /\ \A c \in Client : req'[<<c, 0>>] = req[<<c, 0>>]
           /\ PickPeer(p) \/ (UNCHANGED req /\ \A q \in Proc : q # p => pc'[q] = pc[q])
<1>1. CASE PickPeer(p)
  <2>1. /\ Peer(p) \in Proc /\ \A c \in Client : Peer(p) # <<c, 0>>
        /\ pc[Peer(p)] = "none" /\ pc[p] = "pick"
    BY <1>1, PeerFacts DEF PickPeer, Inv, Peers
  <2>2. /\ pc' = [pc EXCEPT ![p] = "remote", ![Peer(p)] = "get"]
        /\ \E r : req' = [req EXCEPT ![Peer(p)] = r]
        /\ UNCHANGED nodeVars /\ UNCHANGED <<view, cache, hist>>
        /\ pc \in [Proc -> Points] /\ req \in [Proc -> Place \cup {Nil}]
    BY <1>1 DEF PickPeer, Inv, Types
  <2>3. \A c \in Client : <<c, 0>> \in Proc
    BY BoundsAssumption DEF Proc
  <2> QED BY <1>1, <2>1, <2>2, <2>3
<1>2. CASE Move(p) \/ Answers(p) \/ Does(p) \/ Fetch(p) \/ Ends(p)
  <2>1. /\ UNCHANGED nodeVars /\ UNCHANGED <<hist, req>>
        /\ pc[p] \in {"get", "load", "do", "pick", "remote", "local", "add"}
        /\ pc' = pc \/ \E to : pc' = [pc EXCEPT ![p] = to]
        /\ view' = view \/ \E r : view' = [view EXCEPT ![p] = r]
        /\ Populate(p) \/ UNCHANGED cache
    <3> USE DEF Goto
    <3>1. CASE Move(p)
      BY <3>1 DEF Move, GetMiss, LoadLocally, LoadAlone, PickLocal, PeerRefuses, PeerFails,
         PeerLost, LinkFails
    <3>2. CASE Answers(p) \/ Fetch(p)
      BY <3>2 DEF Answers, GetEmpty, GetHit, Fetch
    <3>3. CASE Does(p)
      BY <3>3 DEF Does, DoJoin, DoLead, DoWgDone, DoReturn
    <3>4. CASE Ends(p)
      BY <3>4 DEF Ends, PeerAnswers, FetchFails, Populate, Loaded
    <3> QED BY <1>2, <3>1, <3>2, <3>3, <3>4
  <2> QED BY <2>1 DEF Inv, Types
<1> QED BY <1>1, <1>2 DEF Act

\* ReadThrough's variables.
Asks == [c \in Client |-> IF req[<<c, 0>>] = Nil THEN Nil ELSE KeyOf(<<c, 0>>)]
Gets == [c \in Client |-> IF pc[<<c, 0>>] = "done" THEN view[<<c, 0>>] ELSE Nil]

\* A step of the cluster asks, answers, changes the source, or is not seen by clients.
LEMMA StepsReadThrough ==
    ASSUME Plain, Inv, Inv', [Next]_vars
    PROVE  \/ UNCHANGED <<Asks, Gets, hist>>
           \/ \E c \in Client, k \in Key : /\ Asks[c] = Nil /\ Asks' = [Asks EXCEPT ![c] = k]
                                           /\ UNCHANGED <<Gets, hist>>
           \/ \E c \in Client, r \in Answer : /\ Asks[c] # Nil /\ Gets[c] = Nil /\ r \in hist[Asks[c]]
                                              /\ Gets' = [Gets EXCEPT ![c] = r]
                                              /\ UNCHANGED <<Asks, hist>>
           \/ \E k \in Key, r \in Answer : /\ hist' = [hist EXCEPT ![k] = @ \cup {r}]
                                           /\ UNCHANGED <<Asks, Gets>>
<1>0. \A c \in Client : <<c, 0>> \in Proc /\ \A d \in Client : <<c, 0>> = <<d, 0>> => c = d
  BY BoundsAssumption DEF Proc
<1>1. ASSUME NEW c \in Client, NEW n \in Node, NEW k \in Key, Start(c, n, k)
      PROVE  /\ Asks[c] = Nil /\ Asks' = [Asks EXCEPT ![c] = k]
             /\ UNCHANGED <<Gets, hist>>
  <2> DEFINE p == <<c, 0>>
  <2>1. /\ pc[p] = "none" /\ pc' = [pc EXCEPT ![p] = "get"]
        /\ req' = [req EXCEPT ![p] = <<n, boots[n], k>>] /\ UNCHANGED <<view, hist>> /\ p \in Proc
    BY <1>0, <1>1 DEF Start, Goto
  <2>2. <<n, boots[n], k>> # Nil /\ <<n, boots[n], k>>[3] = k
    <3>1. <<n, boots[n], k>> \in Place
      BY DEF Inv, Types, Place
    <3> QED BY <3>1, MarksAssumption
  <2>3. req[p] = Nil
    BY <2>1 DEF Inv, Asked
  <2>4. \A d \in Client : d # c => req'[<<d, 0>>] = req[<<d, 0>>] /\ pc'[<<d, 0>>] = pc[<<d, 0>>]
    BY <1>0, <2>1 DEF Inv, Types
  <2>5. pc'[p] = "get" /\ req'[p] = <<n, boots[n], k>>
    BY <2>1 DEF Inv, Types
  <2>6. Asks'[c] = k /\ Asks[c] = Nil
    BY <2>2, <2>3, <2>5 DEF Asks, KeyOf
  <2>7. \A d \in Client : d # c => Asks'[d] = Asks[d]
    BY <2>4 DEF Asks, KeyOf
  <2>8. Asks' = [Asks EXCEPT ![c] = k]
    <3>1. Asks' = [d \in Client |-> Asks'[d]] /\ Asks = [d \in Client |-> Asks[d]]
      BY DEF Asks
    <3> QED BY <2>6, <2>7, <3>1
  <2>9. Gets' = Gets
    BY <2>1, <2>4, <2>5 DEF Gets
  <2> QED BY <2>1, <2>6, <2>8, <2>9
<1>2. ASSUME NEW p \in Proc, Act(p)
      PROVE  \/ UNCHANGED <<Asks, Gets, hist>>
             \/ \E c \in Client, r \in Answer : /\ Asks[c] # Nil /\ Gets[c] = Nil /\ r \in hist[Asks[c]]
                                                /\ Gets' = [Gets EXCEPT ![c] = r]
                                                /\ UNCHANGED <<Asks, hist>>
  <2>1. /\ UNCHANGED hist
        /\ \A c \in Client : req'[<<c, 0>>] = req[<<c, 0>>]
        /\ pc[p] \notin {"none", "done"}
        /\ \A q \in Proc : q # p => view'[q] = view[q] /\ (pc'[q] = "done" <=> pc[q] = "done")
    BY <1>2, ActShape
  <2>2. UNCHANGED Asks
    BY <2>1 DEF Asks, KeyOf
  <2>3. CASE pc'[p] # "done"
    BY <1>0, <2>1, <2>2, <2>3 DEF Gets
  <2>4. CASE pc'[p] = "done"
    <3>1. CASE \A c \in Client : p # <<c, 0>>
      BY <1>0, <2>1, <2>2, <3>1 DEF Gets
    <3>2. ASSUME NEW c \in Client, p = <<c, 0>>
          PROVE  \E r \in Answer : /\ Asks[c] # Nil /\ Gets[c] = Nil /\ r \in hist[Asks[c]]
                                   /\ Gets' = [Gets EXCEPT ![c] = r]
      <4>1. req'[p] # Nil /\ req'[p] = req[p]
        BY <2>1, <2>4, <3>2 DEF Inv, Asked
      <4>2. KeyOf(p) \in Key /\ KeyOf(p)' = KeyOf(p) /\ KeyOf(p) # Nil
        BY <4>1, PlaceParts, MarksAssumption DEF Inv, KeyOf
      <4>3. Asks[c] = KeyOf(p) /\ Asks[c] # Nil /\ Gets[c] = Nil
        BY <2>1, <3>2, <4>1, <4>2 DEF Asks, Gets
      <4>4. view'[p] \in hist[KeyOf(p)] /\ view'[p] \in Answer
        <5>1. view'[p] \in Held'[KeyOf(p)]
          BY <2>4, <4>2 DEF Inv, Genuine
        <5>2. Held' = Held
          BY <2>1, HeldStays
        <5> QED BY <4>2, <5>1, <5>2, PlainHeld, HeldKeys DEF Inv
      <4>5. Gets'[c] = view'[p] /\ \A d \in Client : d # c => Gets'[d] = Gets[d]
        BY <1>0, <2>1, <2>4, <3>2 DEF Gets
      <4>6. Gets' = [Gets EXCEPT ![c] = view'[p]]
        <5>1. Gets' = [d \in Client |-> Gets'[d]] /\ Gets = [d \in Client |-> Gets[d]]
          BY DEF Gets
        <5> QED BY <4>5, <5>1
      <4> QED BY <4>3, <4>4, <4>6
    <3> QED BY <2>1, <2>2, <3>1, <3>2
  <2> QED BY <2>3, <2>4
<1>3. ASSUME NEW n \in Node, StartCacheServer(n) \/ Crash(n) \/ Restart(n)
      PROVE  UNCHANGED <<Asks, Gets, hist>>
  <2>1. UNCHANGED <<req, pc, view, hist>>
    BY <1>3 DEF StartCacheServer, Crash, Restart
  <2> QED BY <2>1 DEF Asks, Gets, KeyOf
<1>4. ASSUME NEW k \in Key, NEW r \in Answer, Change(k, r)
      PROVE  hist' = [hist EXCEPT ![k] = @ \cup {r}] /\ UNCHANGED <<Asks, Gets>>
  <2>1. UNCHANGED <<req, pc, view>> /\ hist' = [hist EXCEPT ![k] = @ \cup {r}]
    BY <1>4 DEF Change
  <2> QED BY <2>1 DEF Asks, Gets, KeyOf
<1>5. CASE UNCHANGED vars
  BY <1>5 DEF vars, Asks, Gets, KeyOf
<1>6. CASE Next
  BY <1>1, <1>2, <1>3, <1>4, <1>6, Steps
<1> QED BY <1>5, <1>6

\* If the wire changes no key, the cluster is, to its clients, the read-through cache of
\* ReadThrough, of which every Get is answered once, and with an answer of the source.
THEOREM ReadsThrough == ASSUME Plain PROVE Spec => RT!SafeSpec
<1>1. Init => RT!Init
  <2> SUFFICES ASSUME Init PROVE RT!Init
    OBVIOUS
  <2>1. \A c \in Client : <<c, 0>> \in Proc
    BY BoundsAssumption DEF Proc
  <2>2. hist \in [Key -> SUBSET Answer]
    BY InitInv DEF Inv, Types
  <2>3. \A c \in Client : req[<<c, 0>>] = Nil /\ pc[<<c, 0>>] # "done"
    BY <2>1 DEF Init
  <2> QED BY <2>2, <2>3 DEF RT!Init
<1>2. Inv /\ Inv' /\ [Next]_vars => [RT!Next]_RT!vars
  <2> SUFFICES ASSUME Inv, Inv', [Next]_vars PROVE [RT!Next]_RT!vars
    OBVIOUS
  <2>1. CASE UNCHANGED <<Asks, Gets, hist>>
    BY <2>1 DEF Asks, Gets, RT!vars
  <2>2. CASE \E c \in Client, k \in Key : /\ Asks[c] = Nil /\ Asks' = [Asks EXCEPT ![c] = k]
                                          /\ UNCHANGED <<Gets, hist>>
    BY <2>2 DEF Asks, Gets, RT!Next, RT!Ask
  <2>3. CASE \E c \in Client, r \in Answer : /\ Asks[c] # Nil /\ Gets[c] = Nil /\ r \in hist[Asks[c]]
                                             /\ Gets' = [Gets EXCEPT ![c] = r]
                                             /\ UNCHANGED <<Asks, hist>>
    BY <2>3 DEF Asks, Gets, RT!Next, RT!Reply
  <2>4. CASE \E k \in Key, r \in Answer : /\ hist' = [hist EXCEPT ![k] = @ \cup {r}]
                                          /\ UNCHANGED <<Asks, Gets>>
    BY <2>4 DEF Asks, Gets, RT!Next, RT!Change
  <2> QED BY <2>1, <2>2, <2>3, <2>4, StepsReadThrough
<1> QED BY <1>1, <1>2, Invariance, PTL DEF Spec, RT!SafeSpec

-----------------------------------------------------------------------------
(* An undisturbed cluster *)

\* The cluster goes undisturbed: nodes and links are up, the source knows every key, the wire
\* changes none, and virtual nodes do not collide.
Calm == /\ Booting = {} /\ Crashing = {} /\ Changing = {} /\ MayFail = FALSE
        /\ Plain
        /\ \A k \in Key \ {EmptyKey} : Source[k] # Err
        /\ Distinct(Node, Hash)
        /\ \E n \in Node : Hash[n] # << >>

\* Every ring of an undisturbed cluster names an owner of the key,
LEMMA OwnerOwns ==
    ASSUME Calm, NEW r \in Rings, NEW h \in Int
    PROVE  GetNode(r, h) \in Node /\ IsOwner(GetNode(r, h), h, Node, Hash)
<1>1. IsRing(r, Node, Hash)
  BY RingsAreRings
<1>2. Hash \in [Node -> Seq(Int)] /\ Node \in SUBSET Node
  BY FunctionsAssumption
<1>3. r.keys # << >>
  <2>1. PICK n \in Node : Hash[n] # << >>
    BY DEF Calm
  <2>2. /\ Hash[n] \in Seq(Int) /\ Len(Hash[n]) \in Nat /\ Len(Hash[n]) # 0
        /\ DOMAIN Hash[n] = 1..Len(Hash[n])
    BY <1>2, <2>1, EmptySeq, LenProperties
  <2>3. Hash[n][1] \in Range(Hash[n])
    BY <2>2 DEF Range
  <2>4. Range(r.keys) # {}
    BY <1>1, <2>3 DEF IsRing
  <2>5. Range(<< >>) = {}
    BY DEF Range
  <2> QED BY <2>4, <2>5
<1> QED BY <1>1, <1>2, <1>3, GetFindsOwner

\* and all name the same.
LEMMA OneOwner ==
    ASSUME Calm, NEW h \in Int, NEW a \in Node, NEW b \in Node,
           IsOwner(a, h, Node, Hash), IsOwner(b, h, Node, Hash)
    PROVE  a = b
<1>1. Hash \in [Node -> Seq(Int)] /\ Node \in SUBSET Node /\ Distinct(Node, Hash)
  BY FunctionsAssumption DEF Calm
<1> QED BY <1>1, OwnerIsOne

\* n has the key's place on the ring.
Owns(n, k) == IsOwner(n, KeyHash[k], Node, Hash)

\* All nodes serve, with a ring, since the start, and no key is unknown to the source.
CalmNodes == /\ \A n \in Node : life[n] = "up" /\ boots[n] = 0
             /\ day >= 5 => \A n \in Node : ring[n] \in Rings
             /\ \A k \in Key \ {EmptyKey} : Err \notin hist[k]
             /\ \A p \in Proc : req[p] # Nil => req[p][2] = 0

\* Only owners of a key are asked for it, work on it and cache it.
Owners == /\ day < 5 => \A p \in Proc : pc[p] \notin {"pick", "remote"}
          /\ \A p \in Proc : p[2] >= 1 /\ req[p] # Nil => Owns(NodeOf(p), KeyOf(p))
          /\ day >= 5 => \A p \in Proc : pc[p] \in {"local", "add"} => Owns(NodeOf(p), KeyOf(p))
          /\ day >= 5 => \A n \in Node, k \in Key : cache[n][k] # Nil => Owns(n, k)

\* What holds in an undisturbed cluster besides.
CalmInv == CalmNodes /\ Owners /\ ForwardOnce

\* Who is asked owns the key, and has it.
LEMMA CalmOwner ==
    ASSUME Calm, Inv, CalmInv, NEW p \in Proc, day >= 5, req[p] # Nil
    PROVE  /\ Owner(NodeOf(p), KeyOf(p)) \in Node
           /\ Owns(Owner(NodeOf(p), KeyOf(p)), KeyOf(p))
           /\ Owns(NodeOf(p), KeyOf(p)) <=> ~Remote(p)
<1>1. NodeOf(p) \in Node /\ KeyOf(p) \in Key /\ KeyHash[KeyOf(p)] \in Int
  BY PlaceParts, FunctionsAssumption DEF Inv
<1>2. Owner(NodeOf(p), KeyOf(p)) \in Node /\ Owns(Owner(NodeOf(p), KeyOf(p)), KeyOf(p))
  BY <1>1, OwnerOwns DEF CalmInv, CalmNodes, Owner, Owns
<1>3. life[NodeOf(p)] = "up" /\ Owner(NodeOf(p), KeyOf(p)) # NoNode
  BY <1>1, <1>2, MarksAssumption DEF CalmInv, CalmNodes
<1>4. Owns(NodeOf(p), KeyOf(p)) => Owner(NodeOf(p), KeyOf(p)) = NodeOf(p)
  BY <1>1, <1>2, OneOwner DEF Owns
<1> QED BY <1>2, <1>3, <1>4 DEF Remote

\* It begins that way,
LEMMA CalmInit == ASSUME Calm, Init PROVE CalmInv
<1>1. CalmNodes
  <2>1. \A k \in Key \ {EmptyKey} : hist[k] = {Source[k]}
    BY DEF Init
  <2>2. \A n \in Node : life[n] = "up" /\ boots[n] = 0
    BY DEF Init, Calm
  <2>3. day >= 5 => \A n \in Node : ring[n] \in Rings
    <3> SUFFICES ASSUME day >= 5, NEW n \in Node PROVE ring[n] \in Rings
      OBVIOUS
    <3>1. ~(day < 5)
      BY BoundsAssumption DEF Init
    <3>2. ring[n] # EmptyRing /\ ring[n] \in Rings \cup {EmptyRing}
      BY <3>1 DEF Init, Calm
    <3> QED BY <3>2
  <2>4. \A p \in Proc : req[p] = Nil
    BY DEF Init
  <2> QED BY <2>1, <2>2, <2>3, <2>4 DEF CalmNodes, Calm
<1>2. Owners /\ ForwardOnce
  BY DEF Init, Owners, ForwardOnce, NoKeys
<1> QED BY <1>1, <1>2 DEF CalmInv

\* goes on that way in every step of a Get
LEMMA CalmAct ==
    ASSUME Calm, Inv, CalmInv, NEW p \in Proc, Act(p), Inv'
    PROVE  CalmInv'
<1>0. /\ UNCHANGED <<day, life, boots, ring, hist>>
      /\ day \in Int
      /\ pc \in [Proc -> Points] /\ req \in [Proc -> Place \cup {Nil}]
  BY BoundsAssumption, ActShape DEF nodeVars, Inv, Types
<1>1. CASE PickPeer(p)
  <2> DEFINE o == Owner(NodeOf(p), KeyOf(p))
             q == Peer(p)
             k == KeyOf(p)
  <2>1. /\ pc[p] = "pick" /\ req[p] # Nil /\ k \in Key /\ Remote(p) /\ p[2] < MaxHop /\ NodeOf(p) \in Node
        /\ q \in Proc /\ q # p /\ Wire[k] = k
    <3>1. pc[p] = "pick" /\ Remote(p) /\ p[2] < MaxHop
      BY <1>1 DEF PickPeer
    <3>2. req[p] # Nil
      BY <3>1 DEF Inv, Asked
    <3>3. k \in Key /\ NodeOf(p) \in Node
      BY <3>2, PlaceParts DEF Inv
    <3> QED BY <3>1, <3>2, <3>3, PeerFacts DEF Calm, Plain
  <2>2. day >= 5
    BY <1>0, <2>1 DEF CalmInv, Owners
  <2>3. o \in Node /\ Owns(o, k) /\ ~Owns(NodeOf(p), k)
    BY <2>1, <2>2, CalmOwner
  <2>4. ~(p[2] >= 1)
    BY <2>1, <2>3 DEF CalmInv, Owners
  <2>5. /\ pc' = [pc EXCEPT ![p] = "remote", ![q] = "get"]
        /\ req' = [req EXCEPT ![q] = <<o, boots[o], k>>]
        /\ UNCHANGED cache
    BY <1>1, <2>1 DEF PickPeer
  <2>6. boots[o] = 0 /\ pc[q] = "none"
    BY <2>1, <2>3 DEF CalmInv, CalmNodes, Inv, Peers
  <2> HIDE DEF o, q, k
  <2>7. CalmNodes'
    BY <1>0, <2>1, <2>5, <2>6 DEF CalmInv, CalmNodes
  <2>8. ForwardOnce'
    BY <1>0, <2>1, <2>4, <2>5 DEF CalmInv, ForwardOnce
  <2>9. Owners'
    <3>1. NodeOf(q)' = o /\ KeyOf(q)' = k
      BY <1>0, <2>1, <2>5 DEF NodeOf, KeyOf
    <3>2. \A x \in Proc : x # q => req'[x] = req[x] /\ NodeOf(x)' = NodeOf(x) /\ KeyOf(x)' = KeyOf(x)
      BY <1>0, <2>5 DEF NodeOf, KeyOf
    <3>3. \A x \in Proc : x # q /\ x # p => pc'[x] = pc[x]
      BY <1>0, <2>5
    <3>4. pc'[p] = "remote" /\ pc'[q] = "get"
      BY <1>0, <2>1, <2>5
    <3>5. ~(day < 5)
      BY <1>0, <2>2
    <3> QED BY <1>0, <2>2, <2>3, <2>5, <3>1, <3>2, <3>3, <3>4, <3>5 DEF CalmInv, Owners
  <2> QED BY <2>7, <2>8, <2>9 DEF CalmInv
<1>2. CASE ~PickPeer(p)
  <2>1. UNCHANGED req
    BY <1>2, ActShape
  <2>2. \A x \in Proc : x # p => pc'[x] = pc[x]
    BY <1>2, ActShape
  <2>3. pc'[p] # "remote" /\ (pc'[p] = "pick" => day >= 5)
    <3> USE <1>0 DEF Goto
    <3>1. CASE Move(p)
      BY <3>1 DEF Move, GetMiss, LoadLocally, LoadAlone, PickLocal, PeerRefuses, PeerFails,
         PeerLost, LinkFails
    <3>2. CASE Answers(p) \/ Fetch(p)
      BY <3>2 DEF Answers, GetEmpty, GetHit, Fetch
    <3>3. CASE Does(p)
      BY <3>3 DEF Does, DoJoin, DoLead, DoWgDone, DoReturn
    <3>4. CASE Ends(p)
      BY <3>4 DEF Ends, PeerAnswers, FetchFails, Populate, Loaded
    <3> QED BY <1>2, <3>1, <3>2, <3>3, <3>4 DEF Act
  <2>4. pc'[p] \in {"local", "add"} /\ day >= 5 => Owns(NodeOf(p), KeyOf(p))
    <3> SUFFICES ASSUME pc'[p] \in {"local", "add"}, day >= 5 PROVE Owns(NodeOf(p), KeyOf(p))
      OBVIOUS
    <3>1. req[p] # Nil
      BY <2>1 DEF Inv, Asked
    <3>2. CASE PickLocal(p)
      BY <3>1, <3>2, CalmOwner DEF PickLocal
    <3>3. CASE Fetch(p)
      BY <3>3 DEF Fetch, CalmInv, Owners
    <3>4. CASE PeerRefuses(p)
      <4>1. Owner(NodeOf(p), KeyOf(p)) \in Node
        BY <3>1, CalmOwner
      <4> QED BY <3>4, <4>1 DEF PeerRefuses, CalmInv, CalmNodes
    <3>5. CASE PeerFails(p) \/ PeerLost(p)
      <4>1. /\ Peer(p) \in Proc /\ pc[Peer(p)] # "none" /\ KeyOf(Peer(p)) = Wire[KeyOf(p)]
            /\ KeyOf(p) \in Key /\ KeyOf(p) # EmptyKey
        BY <3>1, <3>5, PeerFacts, PlaceParts DEF PeerFails, PeerLost, Inv, Peers, Asked
      <4>2. KeyOf(Peer(p)) = KeyOf(p) /\ req[Peer(p)] # Nil /\ NodeOf(Peer(p)) \in Node
        BY <4>1, PlaceParts DEF Calm, Plain, Inv, Asked
      <4>3. Alive(Peer(p))
        BY <4>1, <4>2 DEF Alive, CalmInv, CalmNodes
      <4>4. pc[Peer(p)] = "done" => view[Peer(p)] # Err
        BY <4>1, <4>2, PlainHeld DEF Calm, Inv, Genuine, CalmInv, CalmNodes
      <4> QED BY <3>5, <4>3, <4>4 DEF PeerFails, PeerLost
    <3>6. CASE ~(PickLocal(p) \/ Fetch(p) \/ PeerRefuses(p) \/ PeerFails(p) \/ PeerLost(p))
      <4>1. ~LoadLocally(p) /\ ~LinkFails(p)
        BY <1>0 DEF LoadLocally, LinkFails, Calm
      <4> QED BY <1>0, <1>2, <3>6, <4>1 DEF Act, Move, Answers, Does, Ends, GetMiss, LoadAlone,
                 GetEmpty, GetHit, DoJoin, DoLead, DoWgDone, DoReturn, PeerAnswers, FetchFails,
                 Populate, Goto, Loaded
    <3> QED BY <3>2, <3>3, <3>4, <3>5, <3>6
  <2>5. ASSUME day >= 5, NEW n \in Node, NEW k \in Key, cache'[n][k] # Nil PROVE Owns(n, k)
    <3>1. CASE Populate(p)
      <4>1. PICK gone \in SUBSET Evictable :
                cache' = [cache EXCEPT ![NodeOf(p)] = Added(@, KeyOf(p), view[p], gone)]
        BY <3>1 DEF Populate
      <4>2. (n = NodeOf(p) /\ k = KeyOf(p)) \/ cache[n][k] # Nil
        BY <2>5, <4>1 DEF Added, Inv, Types
      <4>3. Owns(NodeOf(p), KeyOf(p))
        BY <2>5, <3>1 DEF Populate, CalmInv, Owners
      <4> QED BY <2>5, <4>2, <4>3 DEF CalmInv, Owners
    <3>2. CASE ~Populate(p)
      <4>1. UNCHANGED cache
        BY <3>2, ActShape
      <4> QED BY <2>5, <4>1 DEF CalmInv, Owners
    <3> QED BY <3>1, <3>2
  <2>6. CalmNodes'
    BY <1>0, <2>1 DEF CalmInv, CalmNodes
  <2>7. ForwardOnce'
    BY <2>2, <2>3 DEF CalmInv, ForwardOnce
  <2>8. Owners'
    <3>1. \A x \in Proc : NodeOf(x)' = NodeOf(x) /\ KeyOf(x)' = KeyOf(x)
      BY <2>1 DEF NodeOf, KeyOf
    <3>2. day < 5 => \A x \in Proc : pc'[x] \notin {"pick", "remote"}
      BY <1>0, <2>2, <2>3 DEF CalmInv, Owners
    <3>3. day >= 5 => \A x \in Proc : pc'[x] \in {"local", "add"} => Owns(NodeOf(x), KeyOf(x))
      BY <2>2, <2>4 DEF CalmInv, Owners
    <3> QED BY <1>0, <2>1, <2>5, <3>1, <3>2, <3>3 DEF CalmInv, Owners
  <2> QED BY <2>6, <2>7, <2>8 DEF CalmInv
<1> QED BY <1>1, <1>2

\* and with every new one.
LEMMA CalmStart ==
    ASSUME Calm, Inv, CalmInv, NEW c \in Client, NEW n \in Node, NEW k \in Key, Start(c, n, k)
    PROVE  CalmInv'
<1> DEFINE p == <<c, 0>>
<1>1. /\ p \in Proc /\ p[2] = 0 /\ boots[n] = 0
      /\ pc' = [pc EXCEPT ![p] = "get"] /\ req' = [req EXCEPT ![p] = <<n, boots[n], k>>]
      /\ UNCHANGED <<day, life, boots, ring, cache, hist>>
      /\ pc \in [Proc -> Points] /\ req \in [Proc -> Place \cup {Nil}]
  BY BoundsAssumption DEF Proc, Start, Goto, nodeVars, Inv, Types, CalmInv, CalmNodes
<1>0. ~(p[2] >= 1)
  BY <1>1
<1> HIDE DEF p
<1>2. CalmNodes'
  BY <1>1 DEF CalmInv, CalmNodes
<1>3. ForwardOnce'
  BY <1>1 DEF CalmInv, ForwardOnce
<1>4. Owners'
  <2>1. \A x \in Proc : x # p => /\ NodeOf(x)' = NodeOf(x) /\ KeyOf(x)' = KeyOf(x)
                                 /\ req'[x] = req[x] /\ pc'[x] = pc[x]
    BY <1>1 DEF NodeOf, KeyOf
  <2>2. pc'[p] = "get"
    BY <1>1
  <2> QED BY <1>0, <1>1, <2>1, <2>2 DEF CalmInv, Owners
<1> QED BY <1>2, <1>3, <1>4 DEF CalmInv

\* Nothing else happens to it,
LEMMA CalmNext == ASSUME Calm, Inv, CalmInv, [Next]_vars PROVE CalmInv'
<1>1. Inv'
  BY NextKeepsInv
<1>2. CASE Next
  <2>1. ASSUME NEW n \in Node, StartCacheServer(n) \/ Crash(n) \/ Restart(n) PROVE FALSE
    BY <2>1 DEF Calm, CalmInv, CalmNodes, StartCacheServer, Crash, Restart
  <2>2. ASSUME NEW k \in Key, NEW r \in Answer, Change(k, r) PROVE FALSE
    BY <2>2 DEF Calm, Change
  <2> QED BY <1>1, <1>2, <2>1, <2>2, Steps, CalmStart, CalmAct
<1>3. CASE UNCHANGED vars
  BY <1>3 DEF vars, nodeVars, CalmInv, CalmNodes, Owners, ForwardOnce, NodeOf, KeyOf
<1> QED BY <1>2, <1>3

\* so that it is so always.
LEMMA CalmInvariance == ASSUME Calm PROVE Spec => [](Inv /\ CalmInv)
BY InitInv, CalmInit, NextKeepsInv, CalmNext, PTL DEF Spec

\* In an undisturbed cluster, and from day 5 on, only the owner of a key on the ring reads it
\* from the source and caches it, whatever the order in which each node was told the others.
THEOREM OnlyOwnersLoad == ASSUME Calm PROVE Spec => []OwnerOnly
<1>1. CalmInv => OwnerOnly
  BY DEF CalmInv, Owners, OwnerOnly, Owns
<1> QED BY <1>1, CalmInvariance, PTL

\* In an undisturbed cluster no request is forwarded twice.
THEOREM ForwardedOnce == ASSUME Calm PROVE Spec => []ForwardOnce
<1>1. CalmInv => ForwardOnce
  BY DEF CalmInv
<1> QED BY <1>1, CalmInvariance, PTL

\* In an undisturbed cluster, and from day 6 on, one Get at a time reads a key from the source.
THEOREM OneLoaderInCluster == ASSUME Calm PROVE Spec => []OneLoader
<1>1. Inv /\ CalmInv => OneLoader
  <2> SUFFICES ASSUME Inv, CalmInv, day >= 6, NEW p \in Proc, NEW q \in Proc,
                      pc[p] \in {"local", "add"}, pc[q] \in {"local", "add"}, KeyOf(p) = KeyOf(q)
               PROVE  p = q
    BY DEF OneLoader
  <2>0. day \in Int
    BY BoundsAssumption DEF Inv, Types
  <2>1. req[p] \in Place /\ req[q] \in Place /\ req[p] # Nil /\ req[q] # Nil
    BY DEF Inv, Types, Asked
  <2>2. NodeOf(p) \in Node /\ NodeOf(q) \in Node /\ KeyOf(p) \in Key /\ KeyHash[KeyOf(p)] \in Int
    BY <2>1, PlaceParts, FunctionsAssumption DEF Inv
  <2>3. Owns(NodeOf(p), KeyOf(p)) /\ Owns(NodeOf(q), KeyOf(p))
    BY <2>0 DEF CalmInv, Owners
  <2>4. NodeOf(p) = NodeOf(q)
    BY <2>2, <2>3, OneOwner DEF Owns
  <2>5. req[p] = req[q]
    BY <2>1, <2>4 DEF CalmInv, CalmNodes, NodeOf, KeyOf, Place
  <2>6. sf[p] = "fn" /\ sf[q] = "fn" /\ key[p] = req[p] /\ key[q] = req[q]
    BY <2>0 DEF Inv, Flights
  <2>7. m[req[p]] = p /\ m[req[q]] = q
    BY <2>1, <2>6 DEF Inv, SFP!IInv, SFP!OneFlightPerKey, SFP!Leading
  <2> QED BY <2>5, <2>7
<1> QED BY <1>1, CalmInvariance, PTL
=============================================================================
