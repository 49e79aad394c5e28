---------------------------- MODULE CircuitBreaker ----------------------------
(***************************************************************************)
(* circuitbreaker.Breaker: a mutex-guarded three-state machine that calls  *)
(* of ExecuteContext pass on the way in (admission) and on the way out     *)
(* (the deferred recording of the outcome).  The mutex is released while   *)
(* fn runs, so the critical sections of different calls interleave; each   *)
(* critical section is one action here.                                    *)
(*                                                                         *)
(* Time: lastFailureTime is kept as its age, in ticks, saturating at       *)
(* Timeout, because currentState only ever asks whether the age has        *)
(* reached Timeout.  The zero time.Time of a new breaker is Timeout old.   *)
(***************************************************************************)
EXTENDS Integers, FiniteSets

CONSTANTS Calls,                   \* concurrent invocations of ExecuteContext
          CfgFailureThreshold,     \* the four numeric fields of Config, as
          CfgSuccessThreshold,     \* the caller passes them to New: any
          CfgTimeout,              \* integers (CfgTimeout in ticks, one tick
          CfgMaxHalfOpenRequests   \* standing for one second)

ASSUME CallsFinite == IsFiniteSet(Calls)

ASSUME ConfigAssumption ==
  /\ CfgFailureThreshold \in Int
  /\ CfgSuccessThreshold \in Int
  /\ CfgTimeout \in Int
  /\ CfgMaxHalfOpenRequests \in Int

(* New replaces every field that is not strictly positive.                 *)
Sanitize(v, default) == IF v <= 0 THEN default ELSE v

FailureThreshold    == Sanitize(CfgFailureThreshold, 5)
SuccessThreshold    == Sanitize(CfgSuccessThreshold, 2)
Timeout             == Sanitize(CfgTimeout, 30)
MaxHalfOpenRequests == Sanitize(CfgMaxHalfOpenRequests, 1)

States == {"closed", "open", "half-open"}

(* What ctx.Err() can answer.                                              *)
CtxErrs == {"nil", "Canceled", "DeadlineExceeded"}

(* How fn can end: nil, an error, an error that wraps context.Canceled, or *)
(* a panic (runtime.Goexit leaves `panicked' set too).                     *)
Outcomes == {"nil", "error", "canceled", "panic"}

VARIABLES
  breaker,       \* the fields of Breaker
  pc,            \* where each call is: "idle", "checked" (ctx.Err() was nil,
                 \* lock not yet taken), "running" (inside fn)
  ctxErr,        \* ctx.Err() of the context each call was given
  probes,        \* running calls with isHalfOpenProbe, admitted since the
                 \* breaker last changed state
  staleProbes,   \* running calls with isHalfOpenProbe, admitted before that
  staleReturns,  \* stale probes that returned since the last state change
  sinceTrip      \* ticks since the circuit last opened, saturating

vars == <<breaker, pc, ctxErr, probes, staleProbes, staleReturns, sinceTrip>>

(* probes and staleProbes together are the calls whose local variable      *)
(* isHalfOpenProbe is true; telling them apart, staleReturns and sinceTrip *)
(* are history.                                                            *)
isHalfOpenProbe(c) == c \in probes \cup staleProbes

-----------------------------------------------------------------------------
(* The methods that require the mutex, as functions of the breaker.        *)

(* Variant: a change of state that keeps the failure count.                *)
transitionToKeepingFailures(b, newState) ==
  IF b.state = newState THEN b
  ELSE [b EXCEPT !.state = newState, !.successCount = 0,
                 !.halfOpenRequests = 0]

transitionTo(b, newState) ==
  IF b.state = newState THEN b
  ELSE [b EXCEPT !.state = newState, !.failureCount = 0, !.successCount = 0,
                 !.halfOpenRequests = 0]

(* Variant: the timeout comparison off by one tick.                        *)
currentStateEarly(b) ==
  IF b.state = "open" /\ b.sinceFailure >= Timeout - 1
  THEN transitionTo(b, "half-open") ELSE b

(* The lazy open -> half-open transition.                                  *)
currentState(b) ==
  IF b.state = "open" /\ b.sinceFailure >= Timeout
  THEN transitionTo(b, "half-open") ELSE b

recordSuccess(b) ==
  LET n == b.successCount + 1 IN
  CASE b.state = "closed"    -> [b EXCEPT !.failureCount = 0]
    [] b.state = "half-open" ->
         IF n >= SuccessThreshold THEN transitionTo(b, "closed")
                                  ELSE [b EXCEPT !.successCount = n]
    [] b.state = "open"      -> b

(* The failure time is refreshed in every state, open included.            *)
recordFailure(b) ==
  LET f == [b EXCEPT !.sinceFailure = 0]
      n == b.failureCount + 1 IN
  CASE b.state = "closed"    ->
         IF n >= FailureThreshold THEN transitionTo(f, "open")
                                  ELSE [f EXCEPT !.failureCount = n]
    [] b.state = "half-open" -> transitionTo(f, "open")
    [] b.state = "open"      -> f

(* Variant: the slot is given back only when the outcome is recorded.      *)
completeKeepingSlot(b, probe, o, ce) ==
  LET d == IF probe THEN [b EXCEPT !.halfOpenRequests = @ - 1] ELSE b IN
  IF o = "panic" THEN recordFailure(d)
  ELSE IF o = "nil" THEN recordSuccess(d)
  ELSE IF o = "canceled" \/ ce = "Canceled" THEN b
  ELSE recordFailure(d)

(* The deferred function of ExecuteContext: release the probe slot, then   *)
(* record the outcome; client cancellations are not recorded.              *)
complete(b, probe, o, ce) ==
  LET d == IF probe THEN [b EXCEPT !.halfOpenRequests = @ - 1] ELSE b IN
  IF o = "panic" THEN recordFailure(d)
  ELSE IF o = "nil" THEN recordSuccess(d)
  ELSE IF o = "canceled" \/ ce = "Canceled" THEN d
  ELSE recordFailure(d)

-----------------------------------------------------------------------------
(* New: the breaker starts closed with all counters at zero.               *)
NewBreaker == [state |-> "closed", failureCount |-> 0, successCount |-> 0,
               halfOpenRequests |-> 0, sinceFailure |-> Timeout]

Init ==
  /\ breaker = NewBreaker
  /\ pc = [c \in Calls |-> "idle"]
  /\ ctxErr = [c \in Calls |-> "nil"]
  /\ probes = {}
  /\ staleProbes = {}
  /\ staleReturns = 0
  /\ sinceTrip = Timeout

(* Bookkeeping of the history: the breaker becomes b; unless that is a     *)
(* change of state, p, s and r are the new probes, staleProbes and         *)
(* staleReturns; a change of state makes every probe stale.                *)
Become(b, p, s, r) ==
  /\ breaker' = b
  /\ sinceTrip' = IF b.state = "open" /\ breaker.state # "open" THEN 0
                                                                ELSE sinceTrip
  /\ IF b.state = breaker.state
     THEN probes' = p /\ staleProbes' = s /\ staleReturns' = r
     ELSE probes' = {} /\ staleProbes' = s \cup p /\ staleReturns' = 0

(* The caller's context is cancelled or its deadline passes: at any time.  *)
Cancel(c, e) ==
  /\ ctxErr[c] = "nil"
  /\ ctxErr' = [ctxErr EXCEPT ![c] = e]
  /\ UNCHANGED <<breaker, pc, probes, staleProbes, staleReturns, sinceTrip>>

(* ExecuteContext with a context that is already done returns its error    *)
(* without touching the breaker; the next call brings another context.     *)
RejectDone(c) ==
  /\ pc[c] = "idle" /\ ctxErr[c] # "nil"
  /\ ctxErr' = [ctxErr EXCEPT ![c] = "nil"]
  /\ UNCHANGED <<breaker, pc, probes, staleProbes, staleReturns, sinceTrip>>

(* ctx.Err() is nil: the call goes on to take the lock.  The context is    *)
(* not looked at again before fn runs.                                     *)
Enter(c) ==
  /\ pc[c] = "idle" /\ ctxErr[c] = "nil"
  /\ pc' = [pc EXCEPT ![c] = "checked"]
  /\ UNCHANGED <<breaker, ctxErr, probes, staleProbes, staleReturns, sinceTrip>>

AdmitClosed(c) ==
  /\ pc[c] = "checked"
  /\ currentState(breaker).state = "closed"
  /\ pc' = [pc EXCEPT ![c] = "running"]
  /\ UNCHANGED <<breaker, ctxErr, probes, staleProbes, staleReturns, sinceTrip>>

(* Variant: the slot is taken before the limit is compared, off by one.    *)
AdmitProbeOverLimit(c) ==
  LET b == currentState(breaker)
      fresh == b.state # breaker.state IN
  /\ pc[c] = "checked"
  /\ b.state = "half-open" /\ b.halfOpenRequests <= MaxHalfOpenRequests
  /\ breaker' = [b EXCEPT !.halfOpenRequests = @ + 1]
  /\ pc' = [pc EXCEPT ![c] = "running"]
  /\ probes' = IF fresh THEN {c} ELSE probes \cup {c}
  /\ staleProbes' = IF fresh THEN staleProbes \cup probes ELSE staleProbes
  /\ staleReturns' = IF fresh THEN 0 ELSE staleReturns
  /\ UNCHANGED <<ctxErr, sinceTrip>>

AdmitProbe(c) ==
  LET b == currentState(breaker)
      fresh == b.state # breaker.state IN
  /\ pc[c] = "checked"
  /\ b.state = "half-open" /\ b.halfOpenRequests < MaxHalfOpenRequests
  /\ breaker' = [b EXCEPT !.halfOpenRequests = @ + 1]
  /\ pc' = [pc EXCEPT ![c] = "running"]
  /\ probes' = IF fresh THEN {c} ELSE probes \cup {c}
  /\ staleProbes' = IF fresh THEN staleProbes \cup probes ELSE staleProbes
  /\ staleReturns' = IF fresh THEN 0 ELSE staleReturns
  /\ UNCHANGED <<ctxErr, sinceTrip>>

(* The call returns: its context is gone with it.                          *)
Leave(c) ==
  /\ pc' = [pc EXCEPT ![c] = "idle"]
  /\ ctxErr' = [ctxErr EXCEPT ![c] = "nil"]

(* Variant: a rejected call counts as one more failure.                    *)
RejectOpenRefreshing(c) ==
  /\ pc[c] = "checked"
  /\ currentState(breaker).state = "open"
  /\ Leave(c)
  /\ breaker' = recordFailure(breaker)
  /\ UNCHANGED <<probes, staleProbes, staleReturns, sinceTrip>>

(* ErrCircuitOpen.                                                         *)
RejectOpen(c) ==
  /\ pc[c] = "checked"
  /\ currentState(breaker).state = "open"
  /\ Leave(c)
  /\ UNCHANGED <<breaker, probes, staleProbes, staleReturns, sinceTrip>>

(* ErrTooManyRequests.  A half-open state entered by this very call has    *)
(* all its slots free, so the breaker is not changed here.                 *)
RejectTooMany(c) ==
  LET b == currentState(breaker) IN
  /\ pc[c] = "checked"
  /\ b.state = "half-open" /\ b.halfOpenRequests >= MaxHalfOpenRequests
  /\ Leave(c)
  /\ Become(b, probes, staleProbes, staleReturns)

(* fn ends with outcome o and the deferred function runs under the lock.   *)
Finish(c, o) ==
  /\ pc[c] = "running"
  /\ Become(complete(breaker, isHalfOpenProbe(c), o, ctxErr[c]),
            probes \ {c}, staleProbes \ {c},
            staleReturns + IF c \in staleProbes THEN 1 ELSE 0)
  /\ Leave(c)

(* State(): reading the state may move an open breaker to half-open.       *)
State ==
  /\ Become(currentState(breaker), probes, staleProbes, staleReturns)
  /\ UNCHANGED <<pc, ctxErr>>

Reset ==
  /\ Become(transitionTo(breaker, "closed"), probes, staleProbes, staleReturns)
  /\ UNCHANGED <<pc, ctxErr>>

Older(age) == IF age < Timeout THEN age + 1 ELSE age

(* Time passes.                                                            *)
Tick ==
  /\ breaker' = [breaker EXCEPT !.sinceFailure = Older(@)]
  /\ sinceTrip' = Older(sinceTrip)
  /\ UNCHANGED <<pc, ctxErr, probes, staleProbes, staleReturns>>

Admission(c) == AdmitClosed(c) \/ AdmitProbe(c) \/ RejectOpen(c) \/ RejectTooMany(c)

Next ==
  \/ \E c \in Calls, e \in CtxErrs \ {"nil"} : Cancel(c, e)
  \/ \E c \in Calls : RejectDone(c) \/ Enter(c) \/ Admission(c)
  \/ \E c \in Calls, o \in Outcomes : Finish(c, o)
  \/ State
  \/ Reset
  \/ Tick

Spec == Init /\ [][Next]_vars

-----------------------------------------------------------------------------
running == {c \in Calls : pc[c] = "running"}

Breakers ==
  [state : States, failureCount : Nat, successCount : Nat,
   halfOpenRequests : Int, sinceFailure : 0 .. Timeout]

(* Types.  halfOpenRequests is an Int: see ProbeAccounting.  A probe is a  *)
(* call that is inside fn, and is either of this half-open period or not.  *)
TypeOK ==
  /\ breaker \in Breakers
  /\ pc \in [Calls -> {"idle", "checked", "running"}]
  /\ ctxErr \in [Calls -> CtxErrs]
  /\ probes \subseteq running
  /\ staleProbes \subseteq running
  /\ probes \cap staleProbes = {}
  /\ staleReturns \in Nat
  /\ sinceTrip \in 0 .. Timeout

(* Every phase starts with clean counters and keeps only its own: in       *)
(* closed the failures stay below FailureThreshold (the one that reaches   *)
(* it trips), in half-open the successes below SuccessThreshold, and an    *)
(* open breaker holds neither, whatever late returns of calls from earlier *)
(* phases were recorded in between (recordSuccess, recordFailure,          *)
(* transitionTo).                                                          *)
CountersInRange ==
  /\ breaker.failureCount < FailureThreshold
  /\ breaker.successCount < SuccessThreshold
  /\ breaker.state # "closed" => breaker.failureCount = 0
  /\ breaker.state # "half-open" => breaker.successCount = 0 /\ probes = {}

(* The probe counter: transitionTo zeroes it while probes of the period    *)
(* that ends are still running, and their deferred decrement comes later.  *)
(* So halfOpenRequests is the number of probes of this period less the     *)
(* stale ones that returned during it: it goes below zero, and a half-open *)
(* period lets at most that many extra probes in.  It also never keeps a   *)
(* slot that no running probe holds, so a slot cannot leak.                *)
ProbeAccounting ==
  /\ breaker.halfOpenRequests = Cardinality(probes) - staleReturns
  /\ Cardinality(probes) <= MaxHalfOpenRequests + staleReturns

(* The documented limit on concurrent probes of a half-open period, which  *)
(* the stale decrements break (Config.MaxHalfOpenRequests, ExecuteContext) *)
HalfOpenLimit ==
  breaker.state = "half-open" => Cardinality(probes) <= MaxHalfOpenRequests

(* An open circuit has been open for at least as long as its last recorded *)
(* failure: recordFailure of late calls only ever prolongs the rest.       *)
RestNeverShortened ==
  breaker.state = "open" => breaker.sinceFailure <= sinceTrip

Contract == INSTANCE CircuitContract WITH
  phase <- breaker.state, rest <- sinceTrip, inFlight <- running

(* The breaker keeps the contract of CircuitContract: in particular no     *)
(* call is let through before Timeout has passed since the trip.           *)
ContractSpec == Contract!Spec
=============================================================================
