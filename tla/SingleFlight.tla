---------------------------- MODULE SingleFlight ----------------------------
(***************************************************************************)
(* geecache/singleflight/singleflight.go: concurrent Do calls for one key  *)
(* share one execution of fn.                                              *)
(*                                                                         *)
(* Every Do call is a goroutine of its own and leads at most one call, so  *)
(* a *call object is named by the goroutine that allocated it: m[k] = p is *)
(* "the map holds p's call under k", and wg[p] and res[p] are the fields   *)
(* of p's call.  The two critical sections (look up or insert; delete) run *)
(* under g.mu without blocking and are one action each.                    *)
(***************************************************************************)
EXTENDS Integers, FiniteSets

CONSTANTS
    Key,
    Proc,       \* goroutines, one Do call each
    Result,     \* what fn can return: values and errors
    MayPanic,   \* whether fn may panic
    Nil         \* no call; no result yet

ASSUME NilAssumption == Nil \notin Proc \cup Result \cup Key
ASSUME MayPanicAssumption == MayPanic \in BOOLEAN

VARIABLES
    m,          \* the map: [Key -> Proc or Nil]
    wg,         \* counter of each call's WaitGroup
    res,        \* val and err of each call
    sf,         \* where each goroutine is in Do
    key,        \* the key each goroutine passed to Do
    call,       \* the call each goroutine holds in c
    ret         \* what each Do returned

vars == <<m, wg, res, sf, key, call, ret>>

\* Control points: before Do; blocked in wg.Wait; running fn; after fn; after
\* wg.Done; returned; unwound by a panic of fn.
Points == {"idle", "wait", "fn", "landed", "open", "out", "dead"}
Leading(p) == sf[p] \in {"fn", "landed", "open"}

Init == /\ m = [k \in Key |-> Nil]
        /\ wg = [p \in Proc |-> 0]
        /\ res = [p \in Proc |-> Nil]
        /\ sf = [p \in Proc |-> "idle"]
        /\ key = [p \in Proc |-> Nil]
        /\ call = [p \in Proc |-> Nil]
        /\ ret = [p \in Proc |-> Nil]

\* Do(k), a call for the key being in the map: wait for it.
Join(p, k) == /\ sf[p] = "idle"
              /\ m[k] # Nil
              /\ sf' = [sf EXCEPT ![p] = "wait"]
              /\ key' = [key EXCEPT ![p] = k]
              /\ call' = [call EXCEPT ![p] = m[k]]
              /\ UNCHANGED <<m, wg, res, ret>>

\* Mutants of Lead: the map is not asked again; wg.Add is forgotten.
LeadUnchecked(p, k) ==
    /\ sf[p] = "idle"
    /\ m' = [m EXCEPT ![k] = p]
    /\ wg' = [wg EXCEPT ![p] = 1]
    /\ sf' = [sf EXCEPT ![p] = "fn"]
    /\ key' = [key EXCEPT ![p] = k]
    /\ call' = [call EXCEPT ![p] = p]
    /\ UNCHANGED <<res, ret>>
LeadWithoutAdd(p, k) ==
    /\ sf[p] = "idle"
    /\ m[k] = Nil
    /\ m' = [m EXCEPT ![k] = p]
    /\ sf' = [sf EXCEPT ![p] = "fn"]
    /\ key' = [key EXCEPT ![p] = k]
    /\ call' = [call EXCEPT ![p] = p]
    /\ UNCHANGED <<wg, res, ret>>

\* Do(k), none being there: publish a call of one's own and run fn.
Lead(p, k) == /\ sf[p] = "idle"
              /\ m[k] = Nil
              /\ m' = [m EXCEPT ![k] = p]
              /\ wg' = [wg EXCEPT ![p] = 1]
              /\ sf' = [sf EXCEPT ![p] = "fn"]
              /\ key' = [key EXCEPT ![p] = k]
              /\ call' = [call EXCEPT ![p] = p]
              /\ UNCHANGED <<res, ret>>

FnReturn(p, r) == /\ sf[p] = "fn"
                  /\ res' = [res EXCEPT ![p] = r]
                  /\ sf' = [sf EXCEPT ![p] = "landed"]
                  /\ UNCHANGED <<m, wg, key, call, ret>>

\* fn panics: Do has no deferred call, so neither wg.Done nor delete runs.
FnPanic(p) == /\ MayPanic
              /\ sf[p] = "fn"
              /\ sf' = [sf EXCEPT ![p] = "dead"]
              /\ UNCHANGED <<m, wg, res, key, call, ret>>

\* Mutant of WgDone: wg.Done is forgotten.
NoWgDone(p) == /\ sf[p] = "landed"
               /\ sf' = [sf EXCEPT ![p] = "open"]
               /\ UNCHANGED <<m, wg, res, key, call, ret>>

WgDone(p) == /\ sf[p] = "landed"
             /\ wg' = [wg EXCEPT ![p] = @ - 1]
             /\ sf' = [sf EXCEPT ![p] = "open"]
             /\ UNCHANGED <<m, res, key, call, ret>>

\* Mutant of Forget: the delete is forgotten.
NoForget(p) == /\ sf[p] = "open"
               /\ ret' = [ret EXCEPT ![p] = res[p]]
               /\ sf' = [sf EXCEPT ![p] = "out"]
               /\ UNCHANGED <<m, wg, res, key, call>>

\* The key is deleted, whichever call it holds, and the leader returns.
Forget(p) == /\ sf[p] = "open"
             /\ m' = [m EXCEPT ![key[p]] = Nil]
             /\ ret' = [ret EXCEPT ![p] = res[p]]
             /\ sf' = [sf EXCEPT ![p] = "out"]
             /\ UNCHANGED <<wg, res, key, call>>

\* Mutant of WaitReturn: the fields are read without waiting.
ReturnAtOnce(p) == /\ sf[p] = "wait"
                   /\ ret' = [ret EXCEPT ![p] = res[call[p]]]
                   /\ sf' = [sf EXCEPT ![p] = "out"]
                   /\ UNCHANGED <<m, wg, res, key, call>>

\* wg.Wait returns and the waiter reads the call's fields.
WaitReturn(p) == /\ sf[p] = "wait"
                 /\ wg[call[p]] = 0
                 /\ ret' = [ret EXCEPT ![p] = res[call[p]]]
                 /\ sf' = [sf EXCEPT ![p] = "out"]
                 /\ UNCHANGED <<m, wg, res, key, call>>

Fly(p) == \/ \E r \in Result : FnReturn(p, r)
          \/ FnPanic(p)
          \/ WgDone(p)
          \/ Forget(p)
          \/ WaitReturn(p)

Next == \E p \in Proc : \/ \E k \in Key : Join(p, k) \/ Lead(p, k)
                        \/ Fly(p)

Spec == Init /\ [][Next]_vars

\* A goroutine that has entered Do is scheduled again and again, and fn ends.
\* Nothing obliges a goroutine to call Do.
FairSpec == Spec /\ \A p \in Proc : WF_vars(Fly(p))

-----------------------------------------------------------------------------
\* Types of the variables.
TypeOK == /\ m \in [Key -> Proc \cup {Nil}]
          /\ wg \in [Proc -> {0, 1}]
          /\ res \in [Proc -> Result \cup {Nil}]
          /\ sf \in [Proc -> Points]
          /\ key \in [Proc -> Key \cup {Nil}]
          /\ call \in [Proc -> Proc \cup {Nil}]
          /\ ret \in [Proc -> Result \cup {Nil}]

\* The map names, for each key, the one goroutine that is between publishing
\* its call and deleting it: an entry never outlives its flight, a flight never
\* loses its entry to the delete of another (line 45 deletes by key), and so no
\* two executions of fn for one key ever overlap.
OneFlightPerKey ==
    \A k \in Key : \A p \in Proc :
        m[k] = p <=> key[p] = k /\ (Leading(p) \/ sf[p] = "dead")

\* Whoever returned from Do got what the execution of fn it led or joined
\* returned, never the zero value of a call whose fn is still running, and that
\* execution was for its own key.
SharedResult ==
    \A p \in Proc : sf[p] = "out" =>
        /\ call[p] # Nil
        /\ key[call[p]] = key[p]
        /\ ret[p] # Nil
        /\ ret[p] = res[call[p]]

\* A goroutine that waits has somebody to wait for: a call whose fn is running
\* in another goroutine that does not wait itself, or a call that has landed --
\* unless the call's fn panicked.
WaitsForAFlight ==
    \A p \in Proc : sf[p] = "wait" =>
        \/ Leading(call[p])
        \/ wg[call[p]] = 0 /\ res[call[p]] # Nil
        \/ sf[call[p]] = "dead"

NoPanic == \A p \in Proc : sf[p] # "dead"

\* If no fn panics, every Do returns, whether it led or joined.
DoReturns == []NoPanic => \A p \in Proc : sf[p] # "idle" ~> sf[p] = "out"

\* Whoever joined a call gets its value or error once fn has ended, as the
\* comment of line 19 has it.
WaitersReturn == \A p \in Proc : sf[p] = "wait" ~> sf[p] = "out"

\* If no fn panics, the map is emptied again (line 43): no key keeps an entry
\* for ever.
KeysForgotten == []NoPanic => \A k \in Key : []<>(m[k] = Nil)
=============================================================================
