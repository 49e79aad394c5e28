------------------------- MODULE CircuitBreakerProofs -------------------------
(***************************************************************************)
(* Proofs about CircuitBreaker for every finite set of calls and every     *)
(* configuration: its invariants, and that it implements CircuitContract;  *)
(* and the same for LockedBreaker, whatever OnStateChange does.            *)
(***************************************************************************)
EXTENDS LockedBreaker, FiniteSetTheorems, TLAPS

(* The counters of a breaker record, each confined to its own phase.       *)
Clean(b) ==
  /\ b.failureCount < FailureThreshold
  /\ b.successCount < SuccessThreshold
  /\ b.state # "closed" => b.failureCount = 0
  /\ b.state # "half-open" => b.successCount = 0

(* The inductive invariant.  The two clauses of ProbeAccounting need the   *)
(* types, and RestNeverShortened is what the refinement rests on.          *)
IInv == TypeOK /\ CountersInRange /\ ProbeAccounting /\ RestNeverShortened

(* New leaves every threshold strictly positive.                           *)
LEMMA ConfigType ==
  /\ FailureThreshold \in Nat \ {0}
  /\ SuccessThreshold \in Nat \ {0}
  /\ Timeout \in Nat \ {0}
  /\ MaxHalfOpenRequests \in Nat \ {0}
BY ConfigAssumption
   DEF FailureThreshold, SuccessThreshold, Timeout, MaxHalfOpenRequests, Sanitize

(* transitionTo yields a clean breaker of the new phase and leaves the     *)
(* failure time alone; it is the identity on the same state.               *)
LEMMA TransitionToFacts ==
  ASSUME NEW b \in Breakers, NEW s \in States, Clean(b)
  PROVE  /\ transitionTo(b, s) \in Breakers
         /\ Clean(transitionTo(b, s))
         /\ transitionTo(b, s).state = s
         /\ transitionTo(b, s).sinceFailure = b.sinceFailure
         /\ b.state = s => transitionTo(b, s) = b
         /\ b.state # s => transitionTo(b, s).halfOpenRequests = 0
<1> USE ConfigType
<1>1. CASE b.state = s
  BY <1>1 DEF transitionTo
<1>2. CASE b.state # s
  <2> DEFINE r == [state |-> s, failureCount |-> 0, successCount |-> 0,
                   halfOpenRequests |-> 0, sinceFailure |-> b.sinceFailure]
  <2>1. transitionTo(b, s) = r
    BY <1>2 DEF transitionTo, Breakers
  <2>2. r \in Breakers
    BY DEF Breakers
  <2>3. Clean(r)
    BY DEF Clean
  <2> QED BY <1>2, <2>1, <2>2, <2>3
<1> QED BY <1>1, <1>2

(* currentState only moves an open breaker whose rest is over.             *)
LEMMA CurrentStateFacts ==
  ASSUME NEW b \in Breakers, Clean(b)
  PROVE  /\ currentState(b) \in Breakers
         /\ Clean(currentState(b))
         /\ currentState(b).sinceFailure = b.sinceFailure
         /\ currentState(b).state = b.state => currentState(b) = b
         /\ currentState(b).state # b.state =>
              /\ b.state = "open" /\ b.sinceFailure = Timeout
              /\ currentState(b).state = "half-open"
              /\ currentState(b).halfOpenRequests = 0
<1>1. "half-open" \in States BY DEF States
<1>2. b.sinceFailure \in 0 .. Timeout /\ b.state \in States BY DEF Breakers
<1> QED BY <1>1, <1>2, ConfigType, TransitionToFacts DEF currentState

(* recordSuccess: at most half-open -> closed.                             *)
LEMMA RecordSuccessFacts ==
  ASSUME NEW b \in Breakers, Clean(b)
  PROVE  /\ recordSuccess(b) \in Breakers
         /\ Clean(recordSuccess(b))
         /\ recordSuccess(b).sinceFailure = b.sinceFailure
         /\ recordSuccess(b).state = b.state =>
              recordSuccess(b).halfOpenRequests = b.halfOpenRequests
         /\ recordSuccess(b).state # b.state =>
              /\ b.state = "half-open" /\ recordSuccess(b).state = "closed"
              /\ recordSuccess(b).halfOpenRequests = 0
<1>0. "closed" \in States BY DEF States
<1>1. CASE b.state = "closed"
  BY <1>1, ConfigType DEF recordSuccess, Clean, Breakers
<1>2. CASE b.state = "open"
  BY <1>2 DEF recordSuccess
<1>3. CASE b.state = "half-open"
  <2>1. CASE b.successCount + 1 >= SuccessThreshold
    BY <1>0, <1>3, <2>1, TransitionToFacts DEF recordSuccess
  <2>2. CASE ~(b.successCount + 1 >= SuccessThreshold)
    <3>1. recordSuccess(b) = [b EXCEPT !.successCount = b.successCount + 1]
      BY <1>3, <2>2 DEF recordSuccess
    <3> QED BY <1>3, <2>2, <3>1, ConfigType DEF Clean, Breakers
  <2> QED BY <2>1, <2>2
<1> QED BY <1>1, <1>2, <1>3 DEF Breakers, States

(* recordFailure: any state -> open, and the failure is fresh.             *)
LEMMA RecordFailureFacts ==
  ASSUME NEW b \in Breakers, Clean(b)
  PROVE  /\ recordFailure(b) \in Breakers
         /\ Clean(recordFailure(b))
         /\ recordFailure(b).sinceFailure = 0
         /\ recordFailure(b).state = b.state =>
              recordFailure(b).halfOpenRequests = b.halfOpenRequests
         /\ recordFailure(b).state # b.state =>
              /\ b.state # "open" /\ recordFailure(b).state = "open"
              /\ recordFailure(b).halfOpenRequests = 0
<1> DEFINE f == [b EXCEPT !.sinceFailure = 0]
<1>0. "open" \in States BY DEF States
<1>1. /\ f \in Breakers /\ Clean(f)
      /\ f.state = b.state /\ f.sinceFailure = 0
      /\ f.halfOpenRequests = b.halfOpenRequests
      /\ f.failureCount = b.failureCount
  BY ConfigType DEF Clean, Breakers
<1>2. CASE b.state = "open"
  BY <1>1, <1>2 DEF recordFailure
<1>3. CASE b.state = "half-open"
  BY <1>0, <1>1, <1>3, TransitionToFacts DEF recordFailure
<1>4. CASE b.state = "closed"
  <2>1. CASE b.failureCount + 1 >= FailureThreshold
    <3>1. recordFailure(b) = transitionTo(f, "open")
      BY <1>4, <2>1 DEF recordFailure
    <3> HIDE DEF f
    <3> QED BY <1>0, <1>1, <1>4, <3>1, TransitionToFacts
  <2>2. CASE ~(b.failureCount + 1 >= FailureThreshold)
    <3>1. recordFailure(b) = [f EXCEPT !.failureCount = b.failureCount + 1]
      BY <1>4, <2>2 DEF recordFailure
    <3> HIDE DEF f
    <3> QED BY <1>1, <1>4, <2>2, <3>1, ConfigType DEF Clean, Breakers
  <2> QED BY <2>1, <2>2
<1> QED BY <1>2, <1>3, <1>4 DEF Breakers, States

(* The deferred function gives back one slot if the call is a probe, and   *)
(* a change of state resets the count.                                     *)
LEMMA CompleteFacts ==
  ASSUME NEW b \in Breakers, Clean(b), NEW probe \in BOOLEAN,
         NEW o \in Outcomes, NEW ce \in CtxErrs
  PROVE  LET r == complete(b, probe, o, ce) IN
         /\ r \in Breakers
         /\ Clean(r)
         /\ r.state = b.state =>
              r.halfOpenRequests = b.halfOpenRequests - (IF probe THEN 1 ELSE 0)
         /\ r.state # b.state => r.halfOpenRequests = 0
         /\ r.sinceFailure = b.sinceFailure \/ r.sinceFailure = 0
         /\ b.state = "open" => r.state = "open"
         /\ r.state = "open" /\ b.state # "open" => r.sinceFailure = 0
         /\ r.state = "half-open" => b.state = "half-open"
         /\ r.state = "closed" => b.state \in {"closed", "half-open"}
<1> DEFINE d == IF probe THEN [b EXCEPT !.halfOpenRequests = @ - 1] ELSE b
<1>1. /\ d \in Breakers /\ Clean(d)
      /\ d.state = b.state /\ d.sinceFailure = b.sinceFailure
      /\ d.halfOpenRequests = b.halfOpenRequests - (IF probe THEN 1 ELSE 0)
  BY DEF Clean, Breakers
<1>2. complete(b, probe, o, ce) \in {d, recordSuccess(d), recordFailure(d)}
  BY DEF complete
<1> HIDE DEF d
<1>3. d.state \in States BY <1>1 DEF Breakers
<1>4. CASE complete(b, probe, o, ce) = d
  BY <1>1, <1>3, <1>4 DEF States
<1>5. CASE complete(b, probe, o, ce) = recordSuccess(d)
  BY <1>1, <1>3, <1>5, RecordSuccessFacts DEF States
<1>6. CASE complete(b, probe, o, ce) = recordFailure(d)
  BY <1>1, <1>3, <1>6, RecordFailureFacts DEF States
<1> QED BY <1>2, <1>4, <1>5, <1>6

(* A change of the breaker with its history, as every handler makes it.    *)
LEMMA CardinalityProbes ==
  ASSUME TypeOK
  PROVE  /\ IsFiniteSet(probes)
         /\ Cardinality(probes) \in Nat
         /\ Cardinality({}) = 0
         /\ \A c : Cardinality({c}) = 1
         /\ \A c : Cardinality(probes \ {c}) =
                   IF c \in probes THEN Cardinality(probes) - 1
                                  ELSE Cardinality(probes)
         /\ \A c : Cardinality(probes \cup {c}) =
                   IF c \in probes THEN Cardinality(probes)
                                  ELSE Cardinality(probes) + 1
<1>1. probes \in SUBSET Calls BY DEF TypeOK, running
<1>2. IsFiniteSet(probes) BY <1>1, CallsFinite, FS_Subset
<1> QED BY <1>2, FS_CardinalityType, FS_EmptySet, FS_Singleton,
           FS_RemoveElement, FS_AddElement

LEMMA InitIInv == Init => IInv
<1> SUFFICES ASSUME Init PROVE IInv OBVIOUS
<1>1. NewBreaker \in Breakers
  BY ConfigType DEF NewBreaker, Breakers, States
<1>2. TypeOK
  BY <1>1, ConfigType DEF Init, TypeOK, CtxErrs, running
<1>3. CountersInRange /\ RestNeverShortened
  BY ConfigType DEF Init, CountersInRange, RestNeverShortened, NewBreaker
<1>4. ProbeAccounting
  BY ConfigType, FS_EmptySet DEF Init, ProbeAccounting, NewBreaker
<1> QED BY <1>2, <1>3, <1>4 DEF IInv

(* The breaker steps that keep a call where it is.                         *)
LEMMA BecomeIInv ==
  ASSUME IInv, NEW b \in Breakers, Clean(b),
         b.state = breaker.state => b = breaker,
         b.state # breaker.state => b.halfOpenRequests = 0,
         b.state = "open" => b = breaker,
         Become(b, probes, staleProbes, staleReturns),
         running' = running,
         pc' \in [Calls -> {"idle", "checked", "running"}],
         ctxErr' \in [Calls -> CtxErrs]
  PROVE  IInv'
<1>1. TypeOK'
  BY ConfigType DEF IInv, TypeOK, Become
<1>2. CountersInRange'
  BY DEF IInv, CountersInRange, Become, Clean
<1>3. ProbeAccounting'
  <2>1. CASE b.state = breaker.state
    BY <2>1 DEF IInv, ProbeAccounting, Become
  <2>2. CASE b.state # breaker.state
    <3>1. probes' = {} /\ staleReturns' = 0 /\ breaker'.halfOpenRequests = 0
      BY <2>2 DEF Become
    <3> QED BY <3>1, ConfigType, FS_EmptySet DEF ProbeAccounting
  <2> QED BY <2>1, <2>2
<1>4. RestNeverShortened'
  BY DEF IInv, RestNeverShortened, Become
<1> QED BY <1>1, <1>2, <1>3, <1>4 DEF IInv

(* Every step of the specification preserves the invariant.                *)
LEMMA NextIInv == IInv /\ [Next]_vars => IInv'
<1> SUFFICES ASSUME IInv, [Next]_vars PROVE IInv' OBVIOUS
<1> USE DEF IInv
<1>b. /\ breaker \in Breakers /\ Clean(breaker)
      /\ breaker.state \in States /\ breaker.halfOpenRequests \in Int
  BY DEF TypeOK, CountersInRange, Clean, Breakers
<1>p. TypeOK => /\ IsFiniteSet(probes)
                /\ Cardinality(probes) \in Nat
                /\ staleReturns \in Nat
  BY CardinalityProbes DEF TypeOK
<1>1. ASSUME NEW c \in Calls, NEW e \in CtxErrs \ {"nil"}, Cancel(c, e)
      PROVE  IInv'
  <2>1. running' = running BY <1>1 DEF Cancel, running
  <2>2. TypeOK' BY <1>1, <2>1 DEF Cancel, TypeOK
  <2>3. (CountersInRange /\ ProbeAccounting /\ RestNeverShortened)'
    BY <1>1 DEF Cancel, CountersInRange, ProbeAccounting, RestNeverShortened
  <2> QED BY <2>2, <2>3
<1>2. ASSUME NEW c \in Calls, RejectDone(c) PROVE IInv'
  <2>1. running' = running BY <1>2 DEF RejectDone, running
  <2>2. TypeOK' BY <1>2, <2>1 DEF RejectDone, TypeOK, CtxErrs
  <2>3. (CountersInRange /\ ProbeAccounting /\ RestNeverShortened)'
    BY <1>2 DEF RejectDone, CountersInRange, ProbeAccounting, RestNeverShortened
  <2> QED BY <2>2, <2>3
<1>3. ASSUME NEW c \in Calls, Enter(c) PROVE IInv'
  <2>1. running' = running BY <1>3 DEF Enter, running, TypeOK
  <2>2. TypeOK' BY <1>3, <2>1 DEF Enter, TypeOK
  <2>3. (CountersInRange /\ ProbeAccounting /\ RestNeverShortened)'
    BY <1>3 DEF Enter, CountersInRange, ProbeAccounting, RestNeverShortened
  <2> QED BY <2>2, <2>3
<1>4. ASSUME NEW c \in Calls, AdmitClosed(c) PROVE IInv'
  <2>1. running' = running \cup {c} BY <1>4 DEF AdmitClosed, running, TypeOK
  <2>2. TypeOK' BY <1>4, <2>1 DEF AdmitClosed, TypeOK
  <2>3. (CountersInRange /\ ProbeAccounting /\ RestNeverShortened)'
    BY <1>4 DEF AdmitClosed, CountersInRange, ProbeAccounting, RestNeverShortened
  <2> QED BY <2>2, <2>3
<1>5. ASSUME NEW c \in Calls, AdmitProbe(c) PROVE IInv'
  <2> DEFINE b == currentState(breaker)
  <2>1. running' = running \cup {c} BY <1>5 DEF AdmitProbe, running, TypeOK
  <2>2. /\ b \in Breakers /\ Clean(b) /\ b.state = "half-open"
        /\ b.halfOpenRequests < MaxHalfOpenRequests
        /\ b.halfOpenRequests \in Int
        /\ b.state = breaker.state => b = breaker
        /\ b.state # breaker.state =>
             b.halfOpenRequests = 0 /\ breaker.state = "open"
        /\ breaker' = [b EXCEPT !.halfOpenRequests = @ + 1]
    BY <1>5, <1>b, CurrentStateFacts DEF AdmitProbe, Breakers
  <2>3. /\ probes' = IF b.state # breaker.state THEN {c} ELSE probes \cup {c}
        /\ staleProbes' = IF b.state # breaker.state
                          THEN staleProbes \cup probes ELSE staleProbes
        /\ staleReturns' = IF b.state # breaker.state THEN 0 ELSE staleReturns
        /\ c \notin running
    BY <1>5 DEF AdmitProbe, running
  <2> HIDE DEF b
  <2>4. /\ breaker' \in Breakers /\ Clean(breaker')
        /\ breaker'.state = "half-open"
        /\ breaker'.halfOpenRequests = b.halfOpenRequests + 1
    BY <2>2 DEF Breakers, Clean
  <2>5. TypeOK'
    BY <1>5, <2>1, <2>2, <2>3, <2>4 DEF AdmitProbe, TypeOK, CountersInRange
  <2>6. CountersInRange' /\ RestNeverShortened'
    BY <2>4 DEF CountersInRange, RestNeverShortened, Clean
  <2>7. c \notin probes BY <2>3 DEF TypeOK
  <2>8. ProbeAccounting'
    <3>1. CASE b.state = breaker.state
      <4>1. Cardinality(probes') = Cardinality(probes) + 1
        BY <2>3, <2>7, <3>1, CardinalityProbes
      <4> QED BY <1>p, <2>2, <2>3, <2>4, <3>1, <4>1, ConfigType
              DEF ProbeAccounting
    <3>2. CASE b.state # breaker.state
      <4>1. Cardinality(probes') = 1 BY <2>3, <3>2, CardinalityProbes
      <4> QED BY <2>2, <2>3, <2>4, <3>2, <4>1, ConfigType DEF ProbeAccounting
    <3> QED BY <3>1, <3>2
  <2> QED BY <2>5, <2>6, <2>8
<1>6. ASSUME NEW c \in Calls, RejectOpen(c) PROVE IInv'
  <2>1. running' = running BY <1>6 DEF RejectOpen, Leave, running, TypeOK
  <2>2. TypeOK' BY <1>6, <2>1 DEF RejectOpen, Leave, TypeOK, CtxErrs
  <2>3. (CountersInRange /\ ProbeAccounting /\ RestNeverShortened)'
    BY <1>6 DEF RejectOpen, CountersInRange, ProbeAccounting, RestNeverShortened
  <2> QED BY <2>2, <2>3
<1>7. ASSUME NEW c \in Calls, RejectTooMany(c) PROVE IInv'
  <2>1. running' = running BY <1>7 DEF RejectTooMany, Leave, running, TypeOK
  <2>2. /\ pc' \in [Calls -> {"idle", "checked", "running"}]
        /\ ctxErr' \in [Calls -> CtxErrs]
    BY <1>7 DEF RejectTooMany, Leave, TypeOK, CtxErrs
  <2>3. Become(currentState(breaker), probes, staleProbes, staleReturns)
    BY <1>7 DEF RejectTooMany
  <2> QED BY <1>b, <2>1, <2>2, <2>3, CurrentStateFacts, BecomeIInv
<1>8. ASSUME NEW c \in Calls, NEW o \in Outcomes, Finish(c, o) PROVE IInv'
  <2> DEFINE b == complete(breaker, isHalfOpenProbe(c), o, ctxErr[c])
             r == staleReturns + IF c \in staleProbes THEN 1 ELSE 0
  <2>1. /\ isHalfOpenProbe(c) \in BOOLEAN
        /\ isHalfOpenProbe(c) <=> c \in probes \/ c \in staleProbes
        /\ ctxErr[c] \in CtxErrs
    BY DEF isHalfOpenProbe, TypeOK
  <2>2. /\ b \in Breakers /\ Clean(b)
        /\ b.state = breaker.state =>
             b.halfOpenRequests = breaker.halfOpenRequests
                                  - (IF isHalfOpenProbe(c) THEN 1 ELSE 0)
        /\ b.state # breaker.state => b.halfOpenRequests = 0
        /\ b.sinceFailure = breaker.sinceFailure \/ b.sinceFailure = 0
        /\ b.state = "open" /\ breaker.state # "open" => b.sinceFailure = 0
        /\ b.state = "half-open" => breaker.state = "half-open"
    BY <1>b, <2>1, CompleteFacts
  <2>3. Become(b, probes \ {c}, staleProbes \ {c}, r) /\ Leave(c)
    BY <1>8 DEF Finish
  <2> HIDE DEF b
  <2>4. /\ running' = running \ {c} /\ breaker' = b /\ r \in Nat
        /\ pc' \in [Calls -> {"idle", "checked", "running"}]
        /\ ctxErr' \in [Calls -> CtxErrs]
    BY <2>3 DEF Leave, Become, running, TypeOK, CtxErrs
  <2>5. TypeOK'
    BY <2>2, <2>3, <2>4, ConfigType DEF Become, TypeOK
  <2>6. CountersInRange'
    BY <2>2, <2>3, <2>4 DEF Become, CountersInRange, Clean
  <2>7. RestNeverShortened'
    BY <1>b, <2>2, <2>3, <2>4, ConfigType
    DEF Become, RestNeverShortened, TypeOK, Breakers
  <2>8. ProbeAccounting'
    <3>1. CASE b.state = breaker.state
      <4>1. Cardinality(probes') = IF c \in probes THEN Cardinality(probes) - 1
                                                  ELSE Cardinality(probes)
        BY <2>3, <3>1, CardinalityProbes DEF Become
      <4>2. staleReturns' = r /\ (c \in probes => c \notin staleProbes)
        BY <2>3, <3>1 DEF Become, TypeOK
      <4> QED BY <1>b, <1>p, <2>1, <2>2, <2>4, <3>1, <4>1, <4>2, ConfigType
              DEF ProbeAccounting
    <3>2. CASE b.state # breaker.state
      <4>1. probes' = {} /\ staleReturns' = 0
        BY <2>3, <3>2 DEF Become
      <4> QED BY <2>2, <2>4, <3>2, <4>1, ConfigType, FS_EmptySet
              DEF ProbeAccounting
    <3> QED BY <3>1, <3>2
  <2> QED BY <2>5, <2>6, <2>7, <2>8
<1>9. ASSUME State PROVE IInv'
  <2>1. running' = running BY <1>9 DEF State, running
  <2>2. /\ pc' \in [Calls -> {"idle", "checked", "running"}]
        /\ ctxErr' \in [Calls -> CtxErrs]
    BY <1>9 DEF State, TypeOK
  <2>3. Become(currentState(breaker), probes, staleProbes, staleReturns)
    BY <1>9 DEF State
  <2> QED BY <1>b, <2>1, <2>2, <2>3, CurrentStateFacts, BecomeIInv
<1>10. ASSUME Reset PROVE IInv'
  <2>0. "closed" \in States BY DEF States
  <2>1. running' = running BY <1>10 DEF Reset, running
  <2>2. /\ pc' \in [Calls -> {"idle", "checked", "running"}]
        /\ ctxErr' \in [Calls -> CtxErrs]
    BY <1>10 DEF Reset, TypeOK
  <2>3. Become(transitionTo(breaker, "closed"), probes, staleProbes, staleReturns)
    BY <1>10 DEF Reset
  <2> QED BY <1>b, <2>0, <2>1, <2>2, <2>3, TransitionToFacts, BecomeIInv
<1>11. ASSUME Tick PROVE IInv'
  <2>1. /\ breaker' = [breaker EXCEPT !.sinceFailure = Older(breaker.sinceFailure)]
        /\ sinceTrip' = Older(sinceTrip)
        /\ UNCHANGED <<pc, ctxErr, probes, staleProbes, staleReturns>>
    BY <1>11 DEF Tick
  <2>2. /\ breaker.sinceFailure \in 0 .. Timeout
        /\ sinceTrip \in 0 .. Timeout
    BY DEF TypeOK, Breakers
  <2>3. Older(breaker.sinceFailure) \in 0 .. Timeout /\ sinceTrip' \in 0 .. Timeout
    BY <2>1, <2>2, ConfigType DEF Older
  <2>4. /\ breaker' \in Breakers
        /\ breaker'.state = breaker.state
        /\ breaker'.failureCount = breaker.failureCount
        /\ breaker'.successCount = breaker.successCount
        /\ breaker'.halfOpenRequests = breaker.halfOpenRequests
        /\ breaker'.sinceFailure = Older(breaker.sinceFailure)
    BY <1>b, <2>1, <2>3 DEF Breakers
  <2>5. TypeOK'
    BY <2>1, <2>3, <2>4 DEF TypeOK, running
  <2>6. CountersInRange' /\ ProbeAccounting'
    BY <2>1, <2>4 DEF CountersInRange, ProbeAccounting
  <2>7. RestNeverShortened'
    BY <2>1, <2>2, <2>4, ConfigType DEF RestNeverShortened, Older
  <2> QED BY <2>5, <2>6, <2>7
<1>12. CASE UNCHANGED vars
  BY <1>12 DEF vars, TypeOK, CountersInRange, ProbeAccounting,
               RestNeverShortened, running
<1> QED
  BY <1>1, <1>2, <1>3, <1>4, <1>5, <1>6, <1>7, <1>8, <1>9, <1>10, <1>11, <1>12
  DEF Next, Admission

(* The breaker's state is always well-formed; a probe is a running call.   *)
THEOREM TypeCorrect == Spec => []TypeOK
<1>1. IInv => TypeOK BY DEF IInv
<1> QED BY InitIInv, NextIInv, <1>1, PTL DEF Spec

(* Thresholds are never overrun and no phase sees another one's counters,  *)
(* for any number of concurrent calls and any configuration.               *)
THEOREM CountersStayInRange == Spec => []CountersInRange
<1>1. IInv => CountersInRange BY DEF IInv
<1> QED BY InitIInv, NextIInv, <1>1, PTL DEF Spec

(* The half-open slot counter is exactly the current probes less the stale *)
(* returns, and the excess over MaxHalfOpenRequests is bounded by them.    *)
THEOREM ProbesAccounted == Spec => []ProbeAccounting
<1>1. IInv => ProbeAccounting BY DEF IInv
<1> QED BY InitIInv, NextIInv, <1>1, PTL DEF Spec

(* Under the inductive invariant each step of the breaker is a step of the *)
(* contract or leaves phase, rest and inFlight alone.                      *)
LEMMA StepImplementsContract ==
  IInv /\ [Next]_vars => [Contract!Next]_(Contract!vars)
<1> SUFFICES ASSUME IInv, [Next]_vars PROVE [Contract!Next]_(Contract!vars)
  OBVIOUS
<1> USE DEF Contract!Next, Contract!vars
<1>b. /\ breaker \in Breakers /\ Clean(breaker) /\ TypeOK
      /\ breaker.state \in States
      /\ breaker.sinceFailure \in 0 .. Timeout /\ sinceTrip \in 0 .. Timeout
  BY DEF IInv, TypeOK, CountersInRange, Clean, Breakers
<1>r. breaker.state = "open" /\ breaker.sinceFailure = Timeout => sinceTrip = Timeout
  BY <1>b, ConfigType DEF IInv, RestNeverShortened
<1>1. ASSUME NEW c \in Calls, NEW e \in CtxErrs \ {"nil"}, Cancel(c, e)
      PROVE  UNCHANGED Contract!vars
  BY <1>1 DEF Cancel, running
<1>2. ASSUME NEW c \in Calls, RejectDone(c) PROVE UNCHANGED Contract!vars
  BY <1>2 DEF RejectDone, running
<1>3. ASSUME NEW c \in Calls, Enter(c) PROVE UNCHANGED Contract!vars
  BY <1>3, <1>b DEF Enter, running, TypeOK
<1>4. ASSUME NEW c \in Calls, AdmitClosed(c) PROVE Contract!Admit(c)
  <2>1. /\ running' = running \cup {c} /\ c \notin running
        /\ breaker' = breaker /\ sinceTrip' = sinceTrip
    BY <1>4, <1>b DEF AdmitClosed, running, TypeOK
  <2>2. breaker.state = "closed"
    BY <1>4, <1>b, CurrentStateFacts DEF AdmitClosed
  <2> QED BY <2>1, <2>2 DEF Contract!Admit
<1>5. ASSUME NEW c \in Calls, AdmitProbe(c) PROVE Contract!Admit(c)
  <2> DEFINE b == currentState(breaker)
  <2>1. /\ running' = running \cup {c} /\ c \notin running
        /\ sinceTrip' = sinceTrip
    BY <1>5, <1>b DEF AdmitProbe, running, TypeOK
  <2>2. /\ b \in Breakers /\ b.state = "half-open"
        /\ b.state # breaker.state =>
             breaker.state = "open" /\ breaker.sinceFailure = Timeout
        /\ breaker' = [b EXCEPT !.halfOpenRequests = @ + 1]
    BY <1>5, <1>b, CurrentStateFacts DEF AdmitProbe
  <2> HIDE DEF b
  <2>3. breaker'.state = "half-open" BY <2>2 DEF Breakers
  <2> QED BY <1>r, <2>1, <2>2, <2>3 DEF Contract!Admit, Contract!Rested
<1>6. ASSUME NEW c \in Calls, RejectOpen(c) PROVE UNCHANGED Contract!vars
  BY <1>6, <1>b DEF RejectOpen, Leave, running, TypeOK
<1>7. ASSUME Become(currentState(breaker), probes, staleProbes, staleReturns),
             running' = running
      PROVE  Contract!EndRest \/ UNCHANGED Contract!vars
  BY <1>7, <1>b, <1>r, CurrentStateFacts
  DEF Become, Contract!EndRest, Contract!Rested
<1>8. ASSUME NEW c \in Calls, RejectTooMany(c) PROVE running' = running
  BY <1>8, <1>b DEF RejectTooMany, Leave, running, TypeOK
<1>9. ASSUME NEW c \in Calls, NEW o \in Outcomes, Finish(c, o)
      PROVE  Contract!Return(c)
  <2> DEFINE b == complete(breaker, isHalfOpenProbe(c), o, ctxErr[c])
  <2>1. /\ isHalfOpenProbe(c) \in BOOLEAN /\ ctxErr[c] \in CtxErrs
    BY <1>b DEF isHalfOpenProbe, TypeOK
  <2>2. /\ b \in Breakers
        /\ breaker.state = "open" => b.state = "open"
        /\ b.state = "half-open" => breaker.state = "half-open"
        /\ b.state = "closed" => breaker.state \in {"closed", "half-open"}
    BY <1>b, <2>1, CompleteFacts
  <2>3. /\ breaker' = b
        /\ sinceTrip' = IF b.state = "open" /\ breaker.state # "open" THEN 0
                                                                    ELSE sinceTrip
    BY <1>9 DEF Finish, Become
  <2>4. running' = running \ {c} /\ c \in running
    BY <1>9, <1>b DEF Finish, Leave, running, TypeOK
  <2> HIDE DEF b
  <2>5. b.state \in States BY <2>2 DEF Breakers
  <2> QED BY <1>b, <2>2, <2>3, <2>4, <2>5 DEF Contract!Return, States
<1>10. ASSUME State PROVE running' = running
  BY <1>10 DEF State, running
<1>11. ASSUME Reset PROVE Contract!Reset
  <2>0. "closed" \in States BY DEF States
  <2>1. running' = running BY <1>11 DEF Reset, running
  <2>2. breaker'.state = "closed" /\ sinceTrip' = sinceTrip
    BY <1>11, <1>b, <2>0, TransitionToFacts DEF Reset, Become
  <2> QED BY <2>1, <2>2 DEF Contract!Reset
<1>12. ASSUME Tick PROVE Contract!Tick
  <2>1. running' = running BY <1>12 DEF Tick, running
  <2>2. breaker'.state = breaker.state BY <1>12, <1>b DEF Tick, Breakers
  <2> QED BY <1>12, <2>1, <2>2 DEF Tick, Contract!Tick, Older
<1>13. CASE UNCHANGED vars BY <1>13 DEF vars, running
<1> QED
  BY <1>1, <1>2, <1>3, <1>4, <1>5, <1>6, <1>7, <1>8, <1>9, <1>10, <1>11,
     <1>12, <1>13
  DEF Next, Admission, RejectTooMany, State

(* The breaker implements the contract: whatever the calls do and however  *)
(* late they return, nothing passes before the rest period is over.        *)
THEOREM ImplementsContract == Spec => ContractSpec
<1>1. Init => Contract!Init
  BY DEF Init, Contract!Init, NewBreaker, running
<1> QED BY <1>1, InitIInv, NextIInv, StepImplementsContract, PTL
        DEF Spec, ContractSpec, Contract!Spec

-----------------------------------------------------------------------------
(* LockedBreaker.  Its sections are the steps above, cut in two where      *)
(* OnStateChange is called, and one step more: an admission whose callback *)
(* panics is abandoned.                                                    *)
Abandon(c) ==
  /\ pc[c] = "checked"
  /\ Leave(c)
  /\ UNCHANGED <<breaker, probes, staleProbes, staleReturns, sinceTrip>>

(* Who holds the mutex.  The call whose admission is inside the callback   *)
(* has passed the context check and has not been let in; and the mutex is  *)
(* left behind by a panic only there.                                      *)
MutexInv ==
  /\ mutex \in [by : Calls \cup {Observer, "nobody"},
                section : {"none", "admission", "completion", "State", "Reset"},
                at : {"free", "callback", "panicked", "reentered"}]
  /\ mutex.at = "free" => mutex = Unlocked
  /\ mutex.at = "callback" /\ mutex.section = "admission" =>
       mutex.by \in Calls /\ pc[mutex.by] = "checked"
  /\ mutex.at = "panicked" => mutex.section = "admission"

(* The inductive invariant of LockedBreaker.                               *)
LIInv == IInv /\ MutexInv

(* A section is a step of CircuitBreaker, or an abandoned admission.       *)
LEMMA SectionIsStep ==
  LIInv /\ [LNext]_lvars => [Next]_vars \/ \E c \in Calls : Abandon(c)
<1> SUFFICES ASSUME LIInv, [LNext]_lvars
             PROVE  [Next]_vars \/ \E c \in Calls : Abandon(c)
  OBVIOUS
<1>1. ASSUME NEW c \in Calls, Outside(c) PROVE Next
  BY <1>1 DEF Outside, Next
<1>2. ASSUME NEW c \in Calls, Admit(c) PROVE Next
  BY <1>2 DEF Admit, Next
<1>3. ASSUME NEW c \in Calls, AdmitTurning(c) PROVE Next
  BY <1>3 DEF AdmitTurning, Next
<1>4. ASSUME NEW c \in Calls, NEW o \in Outcomes, FinishAsServed(c, o) PROVE Next
  BY <1>4 DEF FinishAsServed, Next
<1>5. ASSUME Observe PROVE Next
  BY <1>5 DEF Observe, Next
<1>6. ASSUME CallbackReturns PROVE Next \/ UNCHANGED vars
  BY <1>6 DEF CallbackReturns, InCallback, LIInv, MutexInv, Next
<1>7. ASSUME CallbackPanics PROVE (\E c \in Calls : Abandon(c)) \/ UNCHANGED vars
  BY <1>7 DEF CallbackPanics, InCallback, LIInv, MutexInv, Abandon, vars
<1>8. ASSUME CallbackReenters \/ Heal \/ UNCHANGED lvars PROVE UNCHANGED vars
  BY <1>8 DEF CallbackReenters, Heal, lvars
<1>9. ASSUME Environment PROVE Next
  BY <1>9 DEF Environment, Next
<1> QED
  BY <1>1, <1>2, <1>3, <1>4, <1>5, <1>6, <1>7, <1>8, <1>9 DEF LNext, Callback

(* An abandoned admission leaves the invariant and the contract alone.     *)
LEMMA AbandonFacts ==
  ASSUME IInv, NEW c \in Calls, Abandon(c)
  PROVE  IInv' /\ UNCHANGED Contract!vars
<1>1. running' = running
  BY DEF IInv, Abandon, Leave, running, TypeOK
<1>2. TypeOK'
  BY <1>1 DEF IInv, Abandon, Leave, TypeOK, CtxErrs
<1>3. (CountersInRange /\ ProbeAccounting /\ RestNeverShortened)'
  BY DEF IInv, Abandon, CountersInRange, ProbeAccounting, RestNeverShortened
<1> QED BY <1>1, <1>2, <1>3 DEF IInv, Abandon, Contract!vars

LEMMA LInitLIInv == LInit => LIInv
BY InitIInv DEF LInit, LIInv, MutexInv, Unlocked

(* The mutex clauses: a waiting admission stays where it is, since nobody  *)
(* else moves it and every other section needs the mutex to be free.       *)
LEMMA LNextMutexInv == LIInv /\ [LNext]_lvars => MutexInv'
<1> SUFFICES ASSUME LIInv, [LNext]_lvars PROVE MutexInv' OBVIOUS
<1> USE DEF LIInv, MutexInv, Unlocked, Held, Observer
<1>1. ASSUME NEW c \in Calls, Outside(c) PROVE MutexInv'
  BY <1>1 DEF Outside, RejectDone, Enter, IInv, TypeOK
<1>2. ASSUME NEW c \in Calls, Admit(c) PROVE MutexInv'
  BY <1>2 DEF Admit
<1>3. ASSUME NEW c \in Calls, AdmitTurning(c) PROVE MutexInv'
  BY <1>3 DEF AdmitTurning, Notify, State
<1>4. ASSUME NEW c \in Calls, NEW o \in Outcomes, FinishAsServed(c, o)
      PROVE  MutexInv'
  BY <1>4 DEF FinishAsServed, Notify
<1>5. ASSUME Observe PROVE MutexInv'
  BY <1>5 DEF Observe, Notify
<1>6. ASSUME CallbackReturns PROVE MutexInv'
  BY <1>6 DEF CallbackReturns
<1>7. ASSUME CallbackPanics PROVE MutexInv'
  BY <1>7 DEF CallbackPanics, InCallback
<1>8. ASSUME CallbackReenters PROVE MutexInv'
  BY <1>8 DEF CallbackReenters, InCallback
<1>9. ASSUME Heal \/ UNCHANGED lvars PROVE MutexInv'
  BY <1>9 DEF Heal, lvars, vars
<1>10. ASSUME Environment PROVE MutexInv'
  BY <1>10 DEF Environment, Cancel, Tick
<1> QED
  BY <1>1, <1>2, <1>3, <1>4, <1>5, <1>6, <1>7, <1>8, <1>9, <1>10
  DEF LNext, Callback

LEMMA LNextLIInv == LIInv /\ [LNext]_lvars => LIInv'
BY SectionIsStep, NextIInv, AbandonFacts, LNextMutexInv DEF LIInv

(* The counters survive callbacks that panic or deadlock half-way through  *)
(* a section: what CountersStayInRange and ProbesAccounted say of sections *)
(* taken as a whole holds of the breaker with its callback, too.           *)
THEOREM LockedCounters == LSpec => [](CountersInRange /\ ProbeAccounting)
<1>1. LIInv => CountersInRange /\ ProbeAccounting BY DEF LIInv, IInv
<1> QED BY <1>1, LInitLIInv, LNextLIInv, PTL DEF LSpec

(* And so does the contract: a callback cannot make the breaker let a call *)
(* through before the rest is over.                                        *)
THEOREM LockedImplementsContract == LSpec => ContractSpec
<1>1. LInit => Contract!Init
  BY DEF LInit, Init, Contract!Init, NewBreaker, running
<1>2. LIInv /\ [LNext]_lvars => [Contract!Next]_(Contract!vars)
  BY SectionIsStep, StepImplementsContract, AbandonFacts DEF LIInv
<1> QED BY <1>1, <1>2, LInitLIInv, LNextLIInv, PTL
        DEF LSpec, ContractSpec, Contract!Spec

-----------------------------------------------------------------------------
(* The safety half of CallersGetAnswer and Recovers: a mutex that is taken *)
(* is with a callback or was locked for ever by one; and a half-open       *)
(* breaker that refuses calls for want of a slot has a probe still         *)
(* running, whose deferred function will give a slot back.                 *)
SomebodyMoves ==
  /\ mutex # Unlocked => InCallback \/ Wedged
  /\ breaker.state = "half-open"
     /\ breaker.halfOpenRequests >= MaxHalfOpenRequests =>
       \E c \in probes : pc[c] = "running"

(* No slot leaks and no section is left half-way, whatever callbacks do    *)
(* and however many cancelled or stale probes return in between.           *)
THEOREM NoSlotLeaks == LSpec => []SomebodyMoves
<1>1. LIInv => SomebodyMoves
  <2> SUFFICES ASSUME LIInv PROVE SomebodyMoves OBVIOUS
  <2>1. mutex # Unlocked => InCallback \/ Wedged
    BY DEF LIInv, MutexInv, InCallback, Wedged
  <2>2. /\ breaker.halfOpenRequests \in Int
        /\ probes \subseteq running /\ staleReturns \in Nat
    BY DEF LIInv, IInv, TypeOK, Breakers
  <2>3. breaker.halfOpenRequests = Cardinality(probes) - staleReturns
    BY DEF LIInv, IInv, ProbeAccounting
  <2>4. breaker.halfOpenRequests >= MaxHalfOpenRequests => probes # {}
    <3>1. probes = {} => Cardinality(probes) = 0 BY FS_EmptySet
    <3> QED BY <2>2, <2>3, <3>1, ConfigType
  <2> QED BY <2>1, <2>2, <2>4 DEF SomebodyMoves, running
<1> QED BY <1>1, LInitLIInv, LNextLIInv, PTL DEF LSpec

(* The safety half of Recovers.  Open, half-open, closed is the way back;  *)
(* a step of a healed service never goes back on it: the phase moves on or *)
(* stays with the successes it has counted, and no failure restarts the    *)
(* rest.                                                                   *)
WayBack(s) == CASE s = "open" -> 0 [] s = "half-open" -> 1 [] s = "closed" -> 2

Onwards(b, d) ==
  /\ d.sinceFailure >= b.sinceFailure
  /\ \/ WayBack(d.state) > WayBack(b.state)
     \/ d.state = b.state /\ d.successCount >= b.successCount

NeverWorse == healed => healed' /\ Onwards(breaker, breaker')

(* ... and a call that completes while half-open closes the circuit or is  *)
(* one more success, so SuccessThreshold of them are enough.               *)
SuccessCounts ==
  \A c \in Calls :
    FinishAsServed(c, "nil") /\ breaker.state = "half-open" =>
      \/ breaker'.state = "closed"
      \/ breaker'.state = "half-open"
         /\ breaker'.successCount = breaker.successCount + 1

(* currentState and Reset move on, and so does the deferred function when  *)
(* there is no failure to record.                                          *)
LEMMA OnwardsFacts ==
  ASSUME NEW b \in Breakers, Clean(b)
  PROVE  /\ Onwards(b, b)
         /\ Onwards(b, currentState(b))
         /\ Onwards(b, transitionTo(b, "closed"))
         /\ \A p \in BOOLEAN, o \in {"nil", "canceled"}, e \in CtxErrs :
              Onwards(b, complete(b, p, o, e))
<1>t. /\ b.state \in States /\ b.sinceFailure \in 0 .. Timeout
      /\ b.successCount \in Nat /\ "closed" \in States
  BY DEF Breakers, States
<1>r. \A s \in States : WayBack(s) \in 0 .. 2
  BY DEF WayBack, States
<1>0. \A d \in Breakers : d.sinceFailure = b.sinceFailure
        /\ ( \/ d.state = b.state /\ d.successCount >= b.successCount
             \/ b.state = "open" /\ d.state = "half-open"
             \/ d.state = "closed" /\ b.state # "closed") => Onwards(b, d)
  BY <1>t, ConfigType DEF Onwards, WayBack, States, Breakers
<1>1. Onwards(b, b)
  BY <1>t, <1>0
<1>2. Onwards(b, currentState(b))
  BY <1>0, <1>1, CurrentStateFacts
<1>3. Onwards(b, transitionTo(b, "closed"))
  BY <1>t, <1>0, <1>1, TransitionToFacts
<1>4. ASSUME NEW p \in BOOLEAN, NEW o \in {"nil", "canceled"}, NEW e \in CtxErrs
      PROVE  Onwards(b, complete(b, p, o, e))
  <2> DEFINE d == IF p THEN [b EXCEPT !.halfOpenRequests = @ - 1] ELSE b
  <2>1. /\ d \in Breakers /\ Clean(d) /\ d.state = b.state
        /\ d.successCount = b.successCount /\ d.sinceFailure = b.sinceFailure
    BY DEF Breakers, Clean
  <2>2. complete(b, p, o, e) \in {d, recordSuccess(d)}
    BY DEF complete
  <2> HIDE DEF d
  <2>3. Onwards(b, d) BY <1>t, <1>0, <2>1
  <2>4. Onwards(b, recordSuccess(d))
    <3>1. recordSuccess(d).state = d.state =>
            recordSuccess(d).successCount >= d.successCount
      BY <1>t, <2>1, TransitionToFacts DEF recordSuccess, States, Breakers
    <3> QED BY <1>0, <2>1, <3>1, RecordSuccessFacts
  <2> QED BY <2>2, <2>3, <2>4
<1> QED BY <1>1, <1>2, <1>3, <1>4

(* Once the service has healed the circuit only ever moves towards closed, *)
(* for any interleaving of cancelled, late and stale calls and whatever    *)
(* the callback does; and each completed probe counts.                     *)
THEOREM HealedNeverWorse == LSpec => [][NeverWorse /\ SuccessCounts]_lvars
<1>1. LIInv /\ [LNext]_lvars => [NeverWorse /\ SuccessCounts]_lvars
  <2> SUFFICES ASSUME LIInv, LNext PROVE NeverWorse /\ SuccessCounts
    OBVIOUS
  <2>b. /\ breaker \in Breakers /\ Clean(breaker)
        /\ breaker.state \in States /\ breaker.successCount \in Nat
        /\ \A c \in Calls : ctxErr[c] \in CtxErrs /\ isHalfOpenProbe(c) \in BOOLEAN
    BY DEF LIInv, IInv, TypeOK, CountersInRange, Clean, Breakers, isHalfOpenProbe
  <2>1. SuccessCounts
    <3> SUFFICES ASSUME NEW c \in Calls, FinishAsServed(c, "nil"),
                        breaker.state = "half-open"
                 PROVE  \/ breaker'.state = "closed"
                        \/ /\ breaker'.state = "half-open"
                           /\ breaker'.successCount = breaker.successCount + 1
      BY DEF SuccessCounts
    <3> DEFINE d == IF isHalfOpenProbe(c)
                    THEN [breaker EXCEPT !.halfOpenRequests = @ - 1] ELSE breaker
    <3>1. breaker' = recordSuccess(d)
      BY DEF FinishAsServed, Finish, Become, complete
    <3>2. /\ d \in Breakers /\ Clean(d) /\ d.state = "half-open"
          /\ d.successCount = breaker.successCount
      BY <2>b DEF Breakers, Clean
    <3> HIDE DEF d
    <3>3. "closed" \in States BY DEF States
    <3> QED BY <3>1, <3>2, <3>3, TransitionToFacts DEF recordSuccess, Breakers
  <2>2. ASSUME healed PROVE healed' /\ Onwards(breaker, breaker')
    <3>0. ASSUME breaker' = breaker PROVE Onwards(breaker, breaker')
      BY <2>b, <3>0, OnwardsFacts
    <3>1. ASSUME NEW c \in Calls, Outside(c) PROVE breaker' = breaker /\ healed'
      BY <2>2, <3>1 DEF Outside, RejectDone, Enter
    <3>2. ASSUME NEW c \in Calls, Admission(c) PROVE Onwards(breaker, breaker')
      <4> DEFINE b == currentState(breaker)
      <4>1. /\ b \in Breakers /\ Onwards(breaker, b)
        BY <2>b, CurrentStateFacts, OnwardsFacts
      <4>2. CASE AdmitProbe(c)
        <5>1. breaker' = [b EXCEPT !.halfOpenRequests = @ + 1]
          BY <4>2 DEF AdmitProbe
        <5> HIDE DEF b
        <5>2. /\ breaker'.state = b.state /\ breaker'.sinceFailure = b.sinceFailure
              /\ breaker'.successCount = b.successCount
          BY <4>1, <5>1 DEF Breakers
        <5> QED BY <4>1, <5>2 DEF Onwards
      <4>3. CASE AdmitClosed(c) \/ RejectOpen(c)
        BY <3>0, <4>3 DEF AdmitClosed, RejectOpen
      <4>4. CASE RejectTooMany(c)
        BY <4>1, <4>4 DEF RejectTooMany, Become
      <4> QED BY <3>2, <4>2, <4>3, <4>4 DEF Admission
    <3>3. ASSUME NEW c \in Calls, Admit(c) \/ AdmitTurning(c)
          PROVE  Onwards(breaker, breaker') /\ healed'
      BY <2>2, <2>b, <3>2, <3>3, OnwardsFacts DEF Admit, AdmitTurning, State, Become
    <3>4. ASSUME NEW c \in Calls, NEW o \in Outcomes, FinishAsServed(c, o)
          PROVE  Onwards(breaker, breaker') /\ healed'
      BY <2>2, <2>b, <3>4, OnwardsFacts DEF FinishAsServed, Finish, Become
    <3>5. ASSUME Observe PROVE Onwards(breaker, breaker') /\ healed'
      BY <2>2, <2>b, <3>5, OnwardsFacts DEF Observe, State, Reset, Become
    <3>6. ASSUME Callback PROVE Onwards(breaker, breaker') /\ healed'
      <4>1. CASE CallbackReturns
        BY <2>2, <3>0, <3>2, <4>1
        DEF CallbackReturns, InCallback, LIInv, MutexInv, vars
      <4>2. CASE CallbackPanics \/ CallbackReenters
        BY <2>2, <3>0, <4>2 DEF CallbackPanics, CallbackReenters, vars
      <4> QED BY <3>6, <4>1, <4>2 DEF Callback
    <3>7. ASSUME Environment PROVE Onwards(breaker, breaker') /\ healed'
      <4>1. CASE Tick
        <5>1. breaker.sinceFailure \in 0 .. Timeout BY <2>b DEF Breakers
        <5>2. /\ breaker'.state = breaker.state
              /\ breaker'.successCount = breaker.successCount
              /\ breaker'.sinceFailure = Older(breaker.sinceFailure)
          BY <2>b, <4>1 DEF Tick, Breakers
        <5>3. Onwards(breaker, breaker')
          BY <2>b, <5>1, <5>2, ConfigType DEF Onwards, Older
        <5> QED BY <2>2, <3>7, <5>3 DEF Environment
      <4> QED BY <2>2, <3>0, <3>7, <4>1 DEF Environment, Cancel
    <3>8. ASSUME Heal PROVE Onwards(breaker, breaker') /\ healed'
      BY <2>2, <3>8 DEF Heal
    <3> QED
      BY <3>0, <3>1, <3>3, <3>4, <3>5, <3>6, <3>7, <3>8 DEF LNext
  <2> QED BY <2>1, <2>2 DEF NeverWorse
<1> QED BY <1>1, LInitLIInv, LNextLIInv, PTL DEF LSpec
=============================================================================
