# TLA+ models of geecache, geerpc and gee

The repository holds three programs, each kept as a series of directories, one
per day of writing it. The models are written from the last day's code; where
an earlier day does something else, that is in the model as well, and the tables
`CacheDays`, `RpcDays` and `WebDays` put each day's program together from the
steps it takes:

| program | last day | what it is |
|---|---|---|
| geecache | `src/gee-cache/day7-protobuf` | a distributed read-through cache |
| geerpc | `src/gee-rpc/day3-service` | an RPC client and server over one connection |
| gee | `src/gee-web/day7-panic-recover/gee` | a web framework: router, groups, middlewares |

Paths below are relative to `src/gee-cache/day7-protobuf/geecache` for geecache,
and to the last days' directories for the others. What the days add:

| | geecache | geerpc | gee |
|---|---|---|---|
| 1 | the LRU cache | codec; a server that echoes; a client in `main` | a map of routes |
| 2 | Group: read-through on one node | the client | Context |
| 3 | HTTP server | services | the trie |
| 4 | the ring (not used yet) | | groups |
| 5 | several nodes: ring, PickPeer, requests to peers | | middlewares, Next, Fail, Logger |
| 6 | single flight | | templates, static files |
| 7 | protobuf; a ring of another design | | Recovery, Default |

## 1. Inventory

### geecache

| component | state | operations | who calls it |
|---|---|---|---|
| `lru/lru.go` Cache | `ll` (list of entries), `cache` (map from key to element), `nbytes`, `maxBytes` | `Get`, `Add` with its eviction loop, `RemoveOldest` | `cache.go` |
| `cache.go` cache, `byteview.go` | the LRU cache behind `mu`, created at the first `add` | `add`, `get` | Group |
| `singleflight/singleflight.go` | `m` (map from key to call), each call's WaitGroup and result | `Do` | Group.load |
| `geecache.go` Group | `mainCache`, `peers`, `loader`, `getter` | `Get`, `load`, `getFromPeer`, `getLocally`, `populateCache`, `RegisterPeer` | the API server, ServeHTTP |
| `http.go` HTTPPool, `peers.go` | the ring, one getter per peer | `Set`, `PickPeer`, `ServeHTTP`, `httpGetter.Get` | Group, net/http |
| `consistenthash/consistenthash.go` | sorted hashes, the map from hash to node | `Add`, `Get`; on day 7 also `Remove` | HTTPPool, under its `mu` |
| `main.go` | flags, the order of serving and `RegisterPeer` | `startCacheServer`, `startAPIServer` | |

A `Get` looks into `mainCache`; on a miss it enters `loader.Do`, which lets one
goroutine per key run the load while others wait for its result. The load asks
the ring for the key's owner: another node is asked over HTTP, where `ServeHTTP`
runs a `Get` of its own; the node itself, or a node whose peer failed, calls the
getter and populates its cache. So the hard behaviour is concurrent: the window
between a miss and `Do`, between `wg.Done` and the delete of the key, handlers
on one node waiting for flights on another, peers that fail after having done
the work or die with a request, a restarted process that answers its API before its
`RegisterPeer`, a getter that hangs.

What makes it right: the LRU's two structures agree, its count is what the
entries take, eviction goes by last use and ends; flights of a key never
overlap, nobody is left waiting and everybody gets the result of the flight it
joined; a `Get` returns what the source gave for its key; only the owner loads
and caches a key, and every node names the same one; a change of the ring moves
only the keys it must.

### geerpc

| component | state | operations |
|---|---|---|
| `client.go` Client | `seq`, `pending`, `closing`, `shutdown`, the mutexes `sending` and `mu`, each call's `Error` and `Done` | `Go`/`Call`/`send`, `registerCall`, `removeCall`, `terminateCalls`, `receive` (a goroutine), `Close`, `IsAvailable`, `Dial` |
| `server.go` Server | `serviceMap`; per connection the codec, `sending`, the WaitGroup | `RegisterService`, `ServerConn`, `serverCodec`, `readRequest`, `findService`, `handleRequest` (a goroutine each), `sendResponse` |
| `service.go` | the methods of a service, call counts | `newService`, `call` |
| `codec/gob.go` | buffered writer, encoder, decoder on the connection | `ReadHeader`, `ReadBody`, `Write`, `Close` |

A client numbers its calls, keeps them in `pending` and completes each when the
response with its number arrives, when sending it fails or when the connection
ends. The server reads one request after another and answers each from a
goroutine of its own, in any order. Hard: senders, the receiver, `terminateCalls`
and `Close` touch `pending` in any order, and each call must complete exactly
once; `done()` blocks while locks are held; an error in the middle of a request
leaves unread bytes in the stream.

### gee

| component | state | operations |
|---|---|---|
| `router.go`, `trie.go` | one trie per method, handlers per pattern | `addRoute`, `getRoute`, `handle` |
| `gee.go` Engine, RouterGroup | groups, middlewares per group | `Group`, `Use`, `GET`/`POST`, `ServeHTTP` |
| `context.go`, `recovery.go`, `logger.go` | the chain of handlers, its index, what has been written | `Next`, `Fail`, `JSON`, `HTML`, ... |

Routing is a search over wildcards whose result must not depend on the order of
registration more than the rules say; the chain is run by handlers that call
`Next` themselves, and a panic unwinds it to `Recovery`.

`PROJECT.json` lists every component and, under `hazards`, what each is exposed
to, at its line.

## 2. Modules

| module | what it is |
|---|---|
| `LRUPolicy` | abstract: what `cache.go` promises. A store of values; an add keeps the value of a key that is present, and drops least recently used keys |
| `LRUCache` | `lru.go`: list, map and byte count, the eviction loop of `Add` turn by turn |
| `MCLRUCache` | four keys, four values and their lengths for TLC |
| `LRUCache_proofs` | theorems about LRUCache |
| `SingleFlight` | `singleflight.go`: each `Do` as the steps between its critical sections |
| `SingleFlight_proofs` | theorems about SingleFlight |
| `HashRing` | the ring of days 4 to 6: virtual nodes, sorted hashes, the node for a key; and, without a list or a search, what a ring is to do |
| `DataLemmas` | induction over sets of numbers, and what it gives for the sequences the models build: where the elements of a flattened sequence are, sums of lengths |
| `HashRing_proofs` | theorems about rings: sorting, `Add`, `Get`, the order of `Add` |
| `RingMap` | day 7's `consistenthash.go`: `Add`, `Get` and `Remove` step by step on the slice and the map they share, under the pool's lock |
| `RingMap_proofs` | theorems about RingMap, on those of HashRing_proofs |
| `MCRingMap` | two nodes, places and hashings for TLC |
| `ReadThrough` | abstract: what a cluster promises its clients. A request is answered, with something the source gave for its key |
| `GeeCluster` | `geecache.go`, `http.go` and `main.go` on several nodes that crash and start again; uses HashRing and instantiates SingleFlight |
| `CacheDays` | the programs of days 2 to 7 as steps of GeeCluster; the specification |
| `GeeCluster_proofs` | theorems about the cluster of any day, and that it implements ReadThrough |
| `MCGeeCluster` | nodes, their hashes, wire keys and sources for TLC |
| `RpcWire` | `codec/gob.go` and the connection: messages both ways, writes that fail unnoticed, closing, losing the connection |
| `RpcClient` | `client.go`: callers, `receive`, `terminateCalls`, `Close` |
| `RpcMain` | day 1's `main/main.go`, a client without a Client |
| `RpcServer` | `server.go`, `service.go`: one connection, its handlers, the death of the process; the server of days 1 and 2 as well |
| `RemoteCall` | abstract: a call executes at most once and returns once, with its own result or an error |
| `GeeRpc` | client, server and wire together, and that they implement RemoteCall |
| `RpcDays` | the programs of days 1 to 3 as steps of those; the specification |
| `MCGeeRpc` | calls and channels for TLC |
| `GeeRpc_proofs` | theorems about the client, whatever the server and the network do, and about client, server and wire, and that these implement RemoteCall |
| `Router` | `router.go`, `trie.go`: registration into a trie and the search of it, with what routing ought to do as a reference |
| `Gee` | `gee.go`, `context.go`, `recovery.go`: setting up an engine, and one request through its chain of handlers |
| `WebDays` | the frameworks of days 1 to 7 as steps of Gee; the specification |
| `Gee_proofs` | theorems about the router, groups and the chain of handlers |
| `MCGee` | patterns, paths and prefixes for TLC |

### How state and actions correspond to the code

**LRUCache.** `ll` is the list, front first, as a sequence of entries; `cache`
maps a key to the entry its element holds; `nbytes` is the field. `Add` of a
cached key is `AddCached` (lines 70-75), of a new key `AddNew` (76-81); both
begin the loop of line 83, whose turns are `Evict` and whose end is `AddReturn`.
`Get` and `RemoveOldest` are one action each. The calls are made under
`cache.mu`, so none begins while an `Add` is in its loop; that is the variable
`adding`. Sizes are in bytes of key and value, as `int64` the code's count is
far from wrapping at any size memory can hold; the bound `MaxDrift` only keeps
the state space finite in the run about drift. `OnEvicted` is nil in geecache.

A cached key's `Add` adds the difference of lengths but leaves the stored value
alone. That is in `AddCached` as it stands in the code, and `LRUPolicy` says
accordingly that an add keeps the old value. Group never adds a value for a key
that is present except when two loads of it overlapped with an eviction, which
is why this is hard to meet in a test.

**SingleFlight.** A goroutine leads at most one call, so a call is named by its
leader: `m[k] = p` is "the map holds p's call". `Join` and `Lead` are the
critical section of lines 22-38, as far as the wait or the start of `fn`;
`FnReturn`/`FnPanic` line 40, `WgDone` line 41, `Forget` the second critical
section and the return, `WaitReturn` the end of `wg.Wait`. Between any two of
these every other goroutine may act.

**HashRing.** A ring is the sorted sequence `keys` and the function `nodeAt`
(`hashMap` in the code).
`Virtuals` are the virtual nodes in the order in which the two loops of `Add`
come to them; `Set` makes a new ring and adds all nodes at once, so `AddNodes`
says what the loops and the sort leave: the hashes in order, and of nodes that
share a hash the one that came last. `AddVirtual` is one turn, for RingMap.
`AddNodes` and `GetNode` are `Add` and `Get`; the hash of a node's i-th virtual
node is the constant `Hash`, so nothing is assumed of CRC-32, and two virtual
nodes may collide. `IsOwner` says what a ring is to do: a key belongs to the
node with the first virtual node at or after it. The cluster uses this ring on
day 7 as well: what its `Map` answers between calls is the same
(`OwnersFollowMembers`).

**RingMap.** Day 7's `Map` holds its slice and map in an `atomic.Value`, but
`Add` and `Remove` take the very `*values` that `Get` reads and change them in
place before they store the same pointer, so the value in `values` is one
variable, `ring`. `AddTurn` is a turn of the inner loop, `AddReturn` the sort
and the store, `RemoveTurn` a turn of `Remove`; `RemoveMisses` its early return,
which leaves what was removed so far removed, and `RemovePanics` the index past
the end. `GetSearch` and `GetReturn` are two steps, between which the ring may
change. `Enter` and `Leave` are `HTTPPool.mu`, under which the program makes
every call. `http.go` calls `New`, which is commented out in this day's file; it
is taken to be `NewMap`. The program never calls `Remove`.

**GeeCluster.** A `Get` is a goroutine: `<<c, 0>>` is the one client c starts,
`<<c, h+1>>` the handler goroutine serving the request `<<c, h>>` sent.
`req` is the process (node and boot) and key it works on, `pc` where it is,
`view` the value in hand. `load`'s `Do` is SingleFlight's, with a map per
process: the map's entry is `<<node, boot, key>>`, and the function passed to
`Do` is the path from `DoLead` to the action that contains `SF!FnReturn`. The
cache is LRUPolicy's store; which keys an add drops is left open (`Evictable`),
so the result holds for any policy. `ring` is each node's own, made from the
nodes in whatever order `main.go`'s map of addresses gives them. `life` follows
`startCacheServer`: a process that boots has no peers and does not serve them,
but its API server, which is started first, already calls `Get`; such Gets load
locally. `Crash` loses the cache, the ring, the flights and every goroutine of
the process (`Alive`); `PeerLost` is the end that its peers' connections then
come to, `PeerRefuses` a peer that does not listen, `LinkFails` an unreachable
peer, a broken connection and a lost response, at any time, with the peer's
`Get` going on. `Hung` are keys whose getter need not return. `Wire` is the key
that a peer reads from a request's URL, `Source` and `Change` are the data
behind the getter.

**The tables of days.** `CacheDays`, `RpcDays` and `WebDays` have a definition
per function or file and day, named for both (`Group5`, `Receive3`, `Static6`).
Where the code is that of the day before, but for layout and logging, it is
defined as that of the day before; a difference that is more than the choice of
steps is a step of its own (`LoadAlone`, `Descend3`, `Echo`), and where it is
a part of an expression the step asks for `day`, which never changes.

**RpcWire.** A stream holds whole gob messages, headers and bodies. The codec
ignores what `Flush` returns; a write on a dead connection therefore succeeds,
and the buffer's sticky error (`bad`) makes a later one fail. Closing with
unread data resets a TCP connection, so the last messages sent may be lost;
`Cut` loses the last messages of both directions. What a call asks for (`what`)
stands for the nine cases the code tells apart, from a method that answers to
arguments that cannot be encoded; `illformed` is a request that makes the server
panic, a service method without a dot or, from day 3 on, one whose reply was
registered as a non-pointer (`newReplyv`). `Possible(d)` are the cases day `d`
has.

**RpcClient.** A step is what runs between two points where another goroutine
can get in. `client.sending` is held by a caller from `registerCall` to the end
of `send` and by `terminateCalls`; `client.mu` is held across steps only by
`terminateCalls`, which is the guard of `UserClose`. `pending` holds calls and
is looked up by their number, as `removeCall` does. `Signal` is `done()`, and
blocks while the caller's channel is full. In
`receive`, `signalStop` follows a body that could not be read: complete this
call, then leave the loop.

**RpcMain.** Day 1's `main` writes and reads through the codec itself, one call
at a time, and passes over every error; what a call gets when reading failed is
the empty reply (`"empty"`), which `RemoteCall` counts among the errors. It writes
the Option and the first request one right after the other (`Main1`), so the
server's Option decoder may have thrown the request away.

**RpcServer.** `RpcDays!Reader` is the goroutine of `ServerConn`, `Handler(c)` that of
each request; a refusal (`ReadUnknown`, `ReadArgsMisfit`, `ReadArgsFails`) is
answered by the reader itself, through the same steps of writing. A method that
panics, and a request that makes the reader panic, kill the process (`Die`), which closes the
connection and ends every handler. The body of a request for an unknown method
stays in the stream and is then taken for a header, which ends the connection.
The JSON decoder of the Option may have read on into the gob stream; what it
read is lost (`garbled`), and no later read succeeds. That it loses whole
messages only, and that arguments share no field with `Header`, are
simplifications: both lead to an error one read earlier or later. The server of
days 1 and 2 answers every request with its number (`EchoRequest`, `EchoArgs`,
`Echo`); an error of `ReadBody` is only logged there, so a request whose body
never came is answered as well.

**Router.** A node is the sequence of the places of children on the way to it;
its children are in the order of creation, as `matchChild` and `search` depend
on it. Tries of
different methods share nothing, so one stands for all; a pattern is what
`parsePattern` makes of it, so `/a` and `/a/` are one. `FindsBest` compares
`GetRoute` with `Best`, a definition over the list of registered patterns that
knows no trie: of two routes that fit the later one with the same parts is
preferred, or else the one that has a part where the other has a wildcard. On day 3 `matchChild` appends a child whenever one matches and
then says that none did, so `insert` always makes a new branch: n routes below
a part make 2^n children, the first registered of several routes wins, and
nothing is ever overwritten. Days 1 and 2 look the path up in a map.

**Gee.** `stack` holds the handlers that are running; between one and the next
there is always one loop of `Next`, so `Loop` describes what becomes of the top
after any change of `index`. What a user's handler does is chosen step by step
(`UserNext`, `Write`, `Fail`, `UserReturn`, a panic), so every handler there
could be is covered. `Logger` and `Recovery` call Next once
(`WrapNext`, `WrapReturn`); the handler of `Static` serves a file or answers 404
(`ServeFile`), always 404 if the group's prefix has a wildcard, because the
prefix is stripped as it was written. Day 1 answers an unknown path with
status 200 (it only writes a text); until day 4 the chain is the route's handler.
`HTML` with a template that fails is `Write` and then `Fail`. Requests run in
goroutines of their own, but only read the engine, and `ServeHTTP` builds a new
slice of handlers for each.

## 3. Runs

Every property has a mutant, a plausible slip in the code written beside the
definition it replaces, which breaks it.

| run | question | instance and why it is enough |
|---|---|---|
| `lru` | do list and map agree, in order of use; is the count exact; is the limit kept between calls; does `Add` return; is it the policy? | four keys, one with a value larger than the cache alone, one that evicts two others at once, values of one length per key; every mix of calls. A fifth key adds no new relation of sizes |
| `lru_limit` | *violated*: is the limit kept when an `Add` brings a value of another length? | the same keys, any value for any key; the drift of the count is bounded by `MaxDrift` |
| `singleflight` | overlap, sharing, stranded waiters, return, forgetting | four goroutines on two keys, `fn` may panic: leader, waiter on it, late arrival between `wg.Done` and delete, and a flight on another key |
| `singleflight_panic` | *violated*: do waiters return if `fn` panics? | the same |
| `cluster` | who loads, who caches, is a request forwarded twice, does every `Get` return, with the right answer? | days 2 to 6; two nodes of two virtual nodes each, told each other in any order, three clients, two keys with different owners and the empty key, one of them evictable. Three clients put a leader, a waiter and a remote request on one key |
| `cluster_faults` | are answers and cached values genuine, whatever fails; do the Gets that no crash took return, though another key's getter hangs? | day 7; failing links, a node that crashes once and boots with its API open, a source that changes its answer once, a key that hangs; two clients, so that one's Get can outlive a crash that hits the other's |
| `cluster_space` | *violated*: do clients get the value of their key? | a key whose URL form reaches the peer as another key |
| `ring` | does the owner depend on the members alone; what moves; are rings read whole; when does `Remove` panic? | three calls at a time, each an Add, Remove or Get of two nodes with two virtual nodes each, under all 256 ways to hash the four virtual nodes to four places, collisions included |
| `rpc` | does every call complete exactly once, none forgotten; are responses whole; is it an at-most-once call; does every call return, on day 1 unless the Option's decoder threw a request away (`Swallowed`)? | days 1 to 3, a pause after `Dial` on days 2 and 3 only; one call of any of the kinds beside one that is answered, on a shared channel of capacity 1, so that `done()` blocks; Close by the user and loss of the connection at any step. Two calls put a sender, the receiver and a pending call in each other's way; the third party is `terminateCalls` |
| `rpc_hasty` | *violated*: does `Call` return if the program does not pause between `Dial` and the first call? | days 2 and 3, two ordinary calls, a network that never fails |
| `gee` | is a path routed to the best of its routes; does registering a route lose another's paths; does the chain run in order, end at a failure, answer panics; do groups apply? | days 1 to 7; every order of three calls of GET, Static and Use over six patterns (the root, static, parameter, asterisk in the same and in different places), one group, six paths; handlers call Next at most twice |
| `gee_order` | *violated*: is a path routed only to a route it is an instance of? | two of the same routes |

`MaxCalls` bounds GET, Static and Use together: three routes are enough for a
static part, a parameter and an asterisk to meet at one node. `MaxNext` is 2 because a
second `Next` of a handler is where the index could go wrong, and a third is in
the place of the second.

`MaxHop` bounds how often one request is forwarded: 2, one more than the rings
that agree ever need, so that a second forwarding would be seen (`ForwardOnce`); 1 in
`cluster_faults`, which rests on that. `MaxCrashes` is 1: what a process leaves
behind is what a boot of another number finds, and a second crash finds no more.
The two cluster runs together fire every step.

The five passing runs with large state spaces (`cluster`, `cluster_faults`,
`ring`, `rpc`, `gee`) visit 0.27, 0.48, 0.66, 0.70 and 1.1 million states, in one
to four minutes each.

### Fairness

`SingleFlight!FairSpec` is weak fairness of each goroutine's own steps: the Go
scheduler runs a runnable goroutine at last, a mutex held without blocking
calls is got at last, and `fn` is assumed to end. Calling `Do` is up to the
caller and has no fairness. In `LRUCache` fairness is on the turns of the loop
of an `Add`.

`CacheDays!FairSpec` asks for less: as long as some `Get` can go on, one does
(`WF_vars(\E p : ~Hangs(p) /\ Proceed(p))`). Each client makes one `Get`, so
there are only so many steps to take, and a scheduler that starves one goroutine
cannot do so for ever; the getter returns unless its key is in `Hung`, and a
response that was sent arrives or its connection ends. Nothing makes a link
fail, a node crash or start. `http.Get` has no timeout, so a peer that accepts a
request and never answers holds the flight for ever: `SurvivorsReturn` says that
it holds no other.

`RpcDays!FairSpec` is the same for client and server: as long as one of the
program's goroutines can go on, one does (`WF_vars(Program)`). Methods return or
panic, an end of a connection learns at last that it is gone; a caller that has
sent its call receives one from its channel. Nobody has to call or close.
`Hasty = FALSE` stands for the second that the main programs of days 2 and 3 sleep
between `Dial` and the first call; there every call returns. Day 1's does not pause,
and its calls may be thrown away with the Option's decoder; `RemoteCallSpec` asks for
the return of every call but in a behaviour where, on day 1, the server waits for
ever for a request that the decoder dropped (`Swallowed`). A
method that never returns, and a connection that is silently dead for ever, are
outside the promise: `Call` has no timeout. `Gee` and `RingMap` need no
fairness, their properties are about safety.

## 4. Disagreements with the repository's own words

* `lru_limit`: lines 7-8 of `lru.go` call `maxBytes` the most memory that may be
  used and `nbytes` the memory in use. The count takes the length of a value
  that is not stored, so it falls behind and the entries exceed the limit. In
  the other direction the count exceeds what the list holds, and then the loop
  of line 83 never ends once the list is empty, with `cache.mu` held.
* `singleflight_panic`: line 19 of `singleflight.go` says `Do` waits for the end
  of `fn` and returns its result. A panic of `fn` skips `wg.Done` and the
  delete; waiters, and everyone who asks for the key later, block.
* `cluster_space`: the URL is built with the escaping of a query and read as a
  path, so `a b` arrives as `a+b`.
* `rpc_hasty`: lines 271-272 of `client.go` say that `Call` waits for the
  function to complete and returns its error. The server decodes the Option with
  a JSON decoder and the requests from the bare connection, so requests that
  arrive together with the Option are swallowed by the decoder's buffer and
  neither side notices: the call never returns. The main programs of days 2 and 3
  sleep for a second after `Dial`, which the run leaves out. Day 1's never pauses
  there; it is in the run `rpc` as it is, where `RemoteCallSpec` excepts the calls
  that were dropped, and without the exception is violated.
* `gee_order`: line 73 of `router.go` says a node is found only if the trie has
  the path. A route registered after one with a wildcard in the same place
  overwrites the wildcard's node (`trie.go:56`): after `/hello/:name`,
  `/hello/b` matches `/hello/x`. `FindsBest` therefore assumes `Orderly`, that
  no route was registered into an earlier wildcard; `NothingLost` does not.

Not a run, as it takes a use the program does not make: line 77 of
`consistenthash.go` says that `keys` and `hashMap` are stored and loaded
atomically, while `Add` and `Remove` change the loaded ones in place. Only
`HTTPPool.mu` keeps a `Get` from half a ring; the mutant of `GetsSeeWholeRings`
takes that lock away.

## 5. Proofs

The theorems hold for every set of nodes, keys, values, calls and goroutines and
every size and bound. What they rest on are the named `ASSUME`s of the modules,
which the runs evaluate, and, where a property needs more, a condition in the
statement of the theorem: `FixedLengths`, `Plain`, `Calm`. Each of these is true of
the run that checks the property, and for each the reason it is needed is below.

**The LRU cache** (`LRUCache_proofs`).
`TypeCorrect`, `IndexAlwaysConsistent` (list and map hold the same keys, no key
twice) and `EvictsLeastRecent` (`RecencyOrder`: the list is in order of last use,
and what was evicted was used before all that is kept). The inductive invariant
`IInv` is the type invariant with the two others: consistency alone says nothing
of where a key's element is, so that `MoveToFront` preserves it needs that
positions are unique.

`CountIsExact` (`Accounting`), `LimitIsKept` (`UsedWithinLimit`) and
`ImplementsPolicy`, that every step is one of `LRUPolicy` or a stutter, assume
`FixedLengths`: values offered for one key have one length. Without it they are
false, as `lru_limit` shows. The sum of the entries' lengths is written as the size
of a set that has one element per byte, at the place of its entry
(`Used`), so that it takes no induction: `StoredBytes` is the same
set with keys for places, and an add or an eviction adds or takes the bytes of one
key. `CInv` adds to `IInv` that what is stored was offered (`Offered`), that the
count is the number of bytes (`Counted`), and that no call has returned with the
limit exceeded (`Settled`).

**Single flight** (`SingleFlight_proofs`).
`TypeCorrect`, `NeverTwoFlights`, `ResultsAreShared`, `NoStrandedWaiter`.
`OneFlightPerKey` is stated as an equivalence between the map and the goroutines'
positions just so that it is inductive together with the fields of a call: what a
call's counter and result are is a function of where its leader is, and a
waiter's call is one with its own key. From that, sharing and the absence of
stranded waiters follow.

**The ring** (`DataLemmas`, `HashRing_proofs`).
The provers cannot instantiate the library's induction theorems, which take an
operator; that the natural numbers are well-founded, in `WellFoundedInduction`, is a
statement about sets, and `Induct` makes of it an induction for any set of
numbers. By that, `Flatten` says where the elements of `FlattenSeq` are, and
finite sets of numbers have a largest and a smallest. `SortedIsSorted` says that
`Sorted` is a sort, `AddMakesRing` that what `Add` leaves is a ring of the given
nodes (`IsRing`), hashes that collide included, `GetFindsOwner` that `Get` answers
an owner in the sense of `IsOwner`, which knows no list and no search.
`OrderDoesNotMatter`: nodes that were told of each other in different orders agree
on every key, provided no two nodes share a hash; where two do, the last one told
keeps it, and then the order does matter.

**Day 7's ring in use** (`RingMap_proofs`), for any number of goroutines and any
hashes, collisions included; all that is assumed is that hashes are numbers and
that every node has a virtual node. `RingTypeCorrect`; `OwnersAreFollowed`
(`OwnersFollowMembers`), `MovesAreNeeded` (`MovesOnlyWhereNeeded`),
`GetsAreWhole` (`GetsSeeWholeRings`) and `PanicsAreStrangers`
(`PanicsOnlyForStrangers`).
The invariant is about the ring in the middle of a call, which no property speaks
of. `RingInv` says who has the lock (`Locked`), and that when nobody has it the
ring is `Good`: its keys ascend, and if hashes do not collide it is a ring of the
members. The call that has the lock knows what the ring was `before`: in an `Add`
it is that with the first `step` virtual nodes behind it (`Added`), in a `Remove`
it has lost the hashes of the first `step` (`Removed`), in a `Get` it is the same,
and a `Get` that has searched has an index of it (`Got`). Then the sort that ends
an `Add` makes it good again by the lemmas about `Sorted`. Without
collisions a `Remove` that misses took nothing, as a member's hashes are all there
and a stranger's first one is not; hence a node that makes `Remove` panic is a stranger, too.

**The cluster** (`GeeCluster_proofs`), all of `CacheDays!Spec`.
`Inv` has the flights' own invariant, taken from SingleFlight_proofs by an
INSTANCE with a key and a process for the key (`SFP`), where each goroutine is
with its request (`Asked`), what it means for its flight (`Flights`), that a
goroutine of a peer works on the key that the wire makes of its caller's
(`Peers`), and that every value in hand or in a cache was at some time the
source's (`Genuine`).
Nothing in it is assumed of `Wire`: `ReadAs[k]` are the keys that peers, peers of
peers and so on may read when asked for `k`, and `AnswersAreHeld` says that an
answer belongs to one of them, while a cache only ever holds a key's own values.
`AnswersAreGenuine` (`AnswersGenuine`) and `ReadsThrough`, that every step of the
cluster is a step of `ReadThrough` or a stutter, assume `Plain`, that the wire
changes no key; `cluster_space` shows that they need it. They hold through
crashes, restarts, failing links and any evictions.

`OnlyOwnersLoad` (`OwnerOnly`), `ForwardedOnce` (`ForwardOnce`) and
`OneLoaderInCluster` (`OneLoader`) assume `Calm`. A peer that is down, cannot be
reached or does not know the key has the asking node load it as well (`load`,
lines 93-104 of `geecache.go`), a node that boots loads whatever it is asked, and
rings with collisions may disagree. `CalmInv` says that all rings are rings of all
nodes and that who is asked, works on a key or caches it is its owner; then
the ring lemmas make the owner one.

**RPC** (`GeeRpc_proofs`).
For `ClientSpec`, the client's steps with an arbitrary environment from day 2 on:
`ClientTypeCorrect`, `EachCompletesOnce` (`CompletesOnce`) and `NoneIsForgotten`
(`NoneForgotten`). The invariant counts each call: one that has started has
completed just when it is no longer open (`CallFacts`), and it is open while in
the hands of `receive` or pending where somebody will still look (`Open`). That
needs to know who holds `sending` (`LockHeld`), and that once `terminateCalls` has
begun nobody is, or will be, between `registerCall` and the end of `send`
(`NoLateCalls`).

For `RpcDays!Spec`, the programs of all three days: `CompletionsAreSingle` and
`CallsAreKept`, as the server and the network never touch the client's variables,
no step changes the day, and day 1's client never completes a call;
`TypeCorrect` and `ResponsesAreWhole` (`ResponsesWhole`). For the latter, `WireInv`
describes the two streams: a header of a request is there once, and of a call that
nobody serves yet (`Requests`), and each header of a response is followed by
the body with its number, or is the last of the stream and its writer has the
lock (`Responses`). A stream only ever loses a part of either end or gains
a message at the back (`Slice`), whatever the network does.

`CallsAtMostOnce`: every step is a step of `RemoteCall` or a stutter. `RemoteInv`
says that calls have numbers of their own, under which the server works and
answers (`Numbers`), that a method runs once and before its result is there
(`Executions`), that the body next to be read is the one of the call in the hands
of `receive`, and an outcome is a call's own (`Results`), that a completed call is
in one channel once until it is taken (`Channels`), and, for day 1, whose client
does not look at the numbers, that whatever is on the way is of the one call it
waits for (`InTurn`).

**The router** (`Gee_proofs`), all of `WebDays!Spec`, for any parts, patterns and paths.
`RoutesAreBest` (`FindsBest`): on every day the search finds exactly the route
that `Best` (from day 4 on, if the routes are `Orderly`), `First` (day 3) or `Same`
picks from the list of the registered patterns, and filling its parameters in
gives the path; `RoutesAreKept` (`NothingLost`).
`RouterInv` has that `children` and `pattern` make a trie (`Sound`), which is
enough for `NothingLost`: no node is lost or loses its route, and a search that
succeeds in a trie succeeds in a larger one, by induction over what is left of
the path.
For `FindsBest` it adds where each route is.
From day 4 on, if no route was registered into a wildcard (`Orderly`), the routes
are `Filed`: every beginning of a route has just one node, each node is one, a
node has the latest of the routes that end there, and a wildcard is the last of its
parent's children. So the order in which `search` takes the children is the order
of preference, and the first child that leads to a route leads to the best one.
On day 3 they are `Copied`: `insert` never goes down a child that was there, so
each route has a branch from the root to itself, in the order of registration,
besides the children without a route; the first to succeed is the first
registered. The search is a function on the nodes no deeper than the path; the
claims about it are inductions over the height, by `Induct`.

**Groups** (`Gee_proofs`).
`MiddlewaresApply` (`GroupsApply`): from day 5 on the chain of a request has the
middlewares of every group whose prefix the path has, as one block in the order
of `Use` (`Chained`). The code appends them group by group; the block's place is
the sum of the lengths before it (`FlattenSums`). That a path which finds a route
has the prefix of the route's group follows from what the router finds: the path
is an instance of the route, and where the prefix has no wildcard the two agree. Of `Starts`, which
stands for the prefixes of strings, it is assumed only that every part begins with
itself.

**The chain of handlers** (`Gee_proofs`).
`CallsRunInOrder` (`RunsInOrder`), `FailEndsChain` (`EndsAfterFail`) and
`PanicsAreAnswered` (`PanicsAnswered`), for any engine, any request, handlers that do
anything they can, and any number of calls of `Next`. Two facts carry the proof:
every Recovery that comes before a running handler is running itself, below it on
the stack, and so is every one the loops have come to until the chain is through
(`Stacked`); and as long as nothing failed the handlers called are those up to
`index`, while a failure moves `index` past the chain and fixes them (`Counted`).
What routing answers is not used, only that there is one handler to end the chain
with.

`TypeCorrect` (`TypeOK`) bounds `index`, which loops above and below advance
independently: a loop that was left may go on after one that called as many
handlers. `Budget` gives each frame of the stack a bound of its own for `index`,
lower than that of the frame below by as many advances as the frame has left, at
most `MaxNext + 1`; a handler that is called raises the bound of all. As each
handler is called at most once, `index` stays below the length of the chain and
`MaxNext + 1` for each handler.

Every invariant that a passing run checks is a theorem, and so are the action
properties. The assumptions on the constants, each one a fact about the code's
data or about how the models name things:

| assumption | of |
|---|---|
| lengths of keys and values are numbers; the byte limit is one | `LRUCache` |
| a hash is a number; every node has a virtual node | `RingMap` |
| a hash is a number; there are finitely many nodes | `GeeCluster` |
| wildcards are parts, and no part is both a parameter and an asterisk; patterns and paths are sequences of parts | `Router` |
| a part begins with itself; a handler may call Next at all | `Gee` |
| channels have a capacity of at least one (as `Go` demands) | `RpcClient` |
| the marks for "none" and "error" are no node, call, value or route | all |

### What stays with TLC

* Liveness: `AddTerminates`, `DoReturns`, `KeysForgotten`, `SurvivorsReturn`, and the
  fairness in `PolicySpec`, `ReadThroughSpec` and `RemoteCallSpec`, of which the
  theorems show the safety part (`SafeSpec`). Liveness under fairness needs
  ENABLED, which the prover does not have.
* That the code's words are wrong, in the five runs that find a violation: a
  counterexample needs no proof.

## 6. Not modelled

* `Accept`, `Dial` and the choice of a codec: one connection is modelled, with
  the Options both sides agree on. `RegisterService` and the reflection of
  `newService` run before serving.
* The registry of groups, and requests that `ServeHTTP` answers without a `Get`
  (a bad path, an unknown group).
* `geecachepb`: generated code.
* The bytes of HTTP, protobuf, gob and JSON; rendering; logging. That a template
  that fails leaves the status at 200 follows from `Write` and `Fail`, but the
  code promises nothing else, so no property says so.
* `lru.go`, `byteview.go` and `consistenthash.go` of the days before are the same
  code as the ones modelled. The `main.go` of gee and of geerpc's days 2 and 3
  are examples of use; `encode_decode` tries out a package.

## 7. Plan

Done: the cache and its policy, single flight, the ring in both designs, the
cluster with crashes and restarts, the RPC client, server and wire, the router,
the groups and the chain, each over all days; every safety property of the passing
runs as a theorem; the safety part of the three refinements. What is left:

1. Several connections to one server, and the counts its methods share.
2. Several methods' tries and requests that run while routes are still being
   registered, which the program's `main` never does.
3. Liveness by hand: a measure for the loop of `Add` and for a flight, whose
   decrease would be an action property the prover can reach.
