------------------------- MODULE SingleFlight_proofs -------------------------
(***************************************************************************)
(* Do's guarantees for any number of keys and goroutines, and whatever fn  *)
(* returns and whether or not it panics.                                   *)
(***************************************************************************)
EXTENDS SingleFlight, TLAPS

\* What the control point of a goroutine says of the call it holds and of the
\* fields of its own call.
CallFacts ==
    \A p \in Proc :
        /\ Leading(p) \/ sf[p] = "dead" => call[p] = p
        /\ sf[p] # "idle" =>
             /\ key[p] \in Key
             /\ call[p] \in Proc
             /\ call[call[p]] = call[p]
             /\ key[call[p]] = key[p]
             /\ sf[call[p]] \in {"fn", "landed", "open", "out", "dead"}
        /\ sf[p] \in {"idle", "fn", "dead"} => res[p] = Nil
        /\ call[p] = p /\ sf[p] \in {"landed", "open", "out"} => res[p] # Nil
        /\ call[p] = p /\ sf[p] \in {"fn", "landed", "dead"} => wg[p] = 1
        /\ call[p] = p /\ sf[p] \in {"open", "out"} => wg[p] = 0
        /\ sf[p] = "dead" => MayPanic

IInv == TypeOK /\ OneFlightPerKey /\ CallFacts /\ SharedResult

\* No call, no flight.
LEMMA InitIInv == Init => IInv
BY NilAssumption
   DEF Init, IInv, TypeOK, OneFlightPerKey, CallFacts, SharedResult, Leading, Points

\* Every step of a call keeps the invariant.
LEMMA NextKeepsIInv == IInv /\ [Next]_vars => IInv'
<1> SUFFICES ASSUME IInv, [Next]_vars PROVE IInv'
  OBVIOUS
<1> USE NilAssumption DEF IInv, TypeOK, Points
<1>1. ASSUME NEW p \in Proc, NEW k \in Key, Join(p, k) PROVE IInv'
  <2>1. m[k] \in Proc
    BY <1>1 DEF Join
  <2>2. /\ key[m[k]] = k
        /\ Leading(m[k]) \/ sf[m[k]] = "dead"
    BY <2>1 DEF OneFlightPerKey
  <2>3. m[k] # p
    BY <1>1, <2>2 DEF Join, Leading
  <2>4. TypeOK'
    BY <1>1, <2>1 DEF Join
  <2>5. OneFlightPerKey'
    BY <1>1 DEF Join, OneFlightPerKey, Leading
  <2>6. CallFacts'
    BY <1>1, <2>1, <2>2, <2>3 DEF Join, CallFacts, Leading
  <2>7. SharedResult'
    BY <1>1 DEF Join, SharedResult, CallFacts
  <2> QED BY <2>4, <2>5, <2>6, <2>7
<1>2. ASSUME NEW p \in Proc, NEW k \in Key, Lead(p, k) PROVE IInv'
  <2>1. TypeOK'
    BY <1>2 DEF Lead
  <2>2. OneFlightPerKey'
    BY <1>2 DEF Lead, OneFlightPerKey, Leading
  <2>3. CallFacts'
    BY <1>2 DEF Lead, CallFacts, Leading
  <2>4. SharedResult'
    BY <1>2 DEF Lead, SharedResult, CallFacts
  <2> QED BY <2>1, <2>2, <2>3, <2>4
<1>3. ASSUME NEW p \in Proc, NEW r \in Result, FnReturn(p, r) PROVE IInv'
  <2>1. TypeOK'
    BY <1>3 DEF FnReturn
  <2>2. OneFlightPerKey'
    BY <1>3 DEF FnReturn, OneFlightPerKey, Leading
  <2>3. CallFacts'
    BY <1>3 DEF FnReturn, CallFacts, Leading
  <2>4. SharedResult'
    BY <1>3 DEF FnReturn, SharedResult, CallFacts
  <2> QED BY <2>1, <2>2, <2>3, <2>4
<1>4. ASSUME NEW p \in Proc, FnPanic(p) PROVE IInv'
  <2>1. TypeOK'
    BY <1>4 DEF FnPanic
  <2>2. OneFlightPerKey'
    BY <1>4 DEF FnPanic, OneFlightPerKey, Leading
  <2>3. CallFacts'
    BY <1>4 DEF FnPanic, CallFacts, Leading
  <2>4. SharedResult'
    BY <1>4 DEF FnPanic, SharedResult
  <2> QED BY <2>1, <2>2, <2>3, <2>4
<1>5. ASSUME NEW p \in Proc, WgDone(p) PROVE IInv'
  <2>0. wg[p] = 1 /\ call[p] = p
    BY <1>5 DEF WgDone, CallFacts, Leading
  <2>1. TypeOK'
    BY <1>5, <2>0 DEF WgDone
  <2>2. OneFlightPerKey'
    BY <1>5 DEF WgDone, OneFlightPerKey, Leading
  <2>3. CallFacts'
    BY <1>5, <2>0 DEF WgDone, CallFacts, Leading
  <2>4. SharedResult'
    BY <1>5 DEF WgDone, SharedResult
  <2> QED BY <2>1, <2>2, <2>3, <2>4
<1>6. ASSUME NEW p \in Proc, Forget(p) PROVE IInv'
  <2>0. call[p] = p /\ res[p] # Nil
    BY <1>6 DEF Forget, CallFacts, Leading
  <2>1. TypeOK'
    BY <1>6 DEF Forget
  <2>2. OneFlightPerKey'
    BY <1>6 DEF Forget, OneFlightPerKey, Leading
  <2>3. CallFacts'
    BY <1>6 DEF Forget, CallFacts, Leading
  <2>4. SharedResult'
    BY <1>6, <2>0 DEF Forget, SharedResult
  <2> QED BY <2>1, <2>2, <2>3, <2>4
<1>7. ASSUME NEW p \in Proc, WaitReturn(p) PROVE IInv'
  <2>0. /\ call[p] \in Proc /\ key[call[p]] = key[p]
        /\ res[call[p]] # Nil
    BY <1>7 DEF WaitReturn, CallFacts
  <2>9. call[p] # p
    BY <1>7 DEF WaitReturn, CallFacts
  <2>1. TypeOK'
    BY <1>7, <2>0 DEF WaitReturn
  <2>2. OneFlightPerKey'
    BY <1>7 DEF WaitReturn, OneFlightPerKey, Leading
  <2>3. CallFacts'
    BY <1>7, <2>9 DEF WaitReturn, CallFacts, Leading
  <2>4. SharedResult'
    BY <1>7, <2>0 DEF WaitReturn, SharedResult
  <2> QED BY <2>1, <2>2, <2>3, <2>4
<1>8. CASE UNCHANGED vars
  BY <1>8 DEF vars, OneFlightPerKey, CallFacts, SharedResult, Leading
<1> QED
  BY <1>1, <1>2, <1>3, <1>4, <1>5, <1>6, <1>7, <1>8 DEF Next, Fly

\* It always holds.
LEMMA Invariance == Spec => []IInv
BY InitIInv, NextKeepsIInv, PTL DEF Spec

\* Every variable keeps its type; in particular the WaitGroup's counter never
\* goes below zero, which would panic.
THEOREM TypeCorrect == Spec => []TypeOK
<1>1. IInv => TypeOK
  BY DEF IInv
<1> QED BY <1>1, Invariance, PTL

\* No two executions of fn for one key overlap, and the map holds exactly the
\* calls in flight.
THEOREM NeverTwoFlights == Spec => []OneFlightPerKey
<1>1. IInv => OneFlightPerKey
  BY DEF IInv
<1> QED BY <1>1, Invariance, PTL

\* Every Do that returned has the result of an execution for its own key.
THEOREM ResultsAreShared == Spec => []SharedResult
<1>1. IInv => SharedResult
  BY DEF IInv
<1> QED BY <1>1, Invariance, PTL

\* Nobody waits for a call that cannot land any more, unless its fn panicked.
THEOREM NoStrandedWaiter == Spec => []WaitsForAFlight
<1>1. IInv => WaitsForAFlight
  BY DEF IInv, CallFacts, WaitsForAFlight, Leading
<1> QED BY <1>1, Invariance, PTL
=============================================================================
