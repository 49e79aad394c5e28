---------------------------- MODULE LockedBreaker ----------------------------
(***************************************************************************)
(* CircuitBreaker with its mutex, its OnStateChange callback and the       *)
(* service behind it.                                                      *)
(*                                                                         *)
(* transitionTo calls OnStateChange synchronously, so the critical section *)
(* that changes the state stays open while the callback runs.  A section   *)
(* without a change of state is one step, since nobody can look inside it. *)
(* The callback is the user's: it returns, panics, or calls a method of    *)
(* the same breaker and waits for the mutex its own goroutine holds.       *)
(*                                                                         *)
(* The service may fail at will until it heals; from then on fn no longer  *)
(* fails, although callers may still cancel.                               *)
(***************************************************************************)
EXTENDS CircuitBreaker

CONSTANT CallbackEnds   \* what OnStateChange may do

ASSUME CallbackAssumption == CallbackEnds \subseteq {"return", "panic", "reenter"}

VARIABLES
  mutex,    \* b.mu: who holds it, in which section, and where that stands
  healed    \* the service has recovered

lvars == <<vars, mutex, healed>>

Observer == "observer"   \* a goroutine that calls State or Reset

Unlocked == [by |-> "nobody", section |-> "none", at |-> "free"]

Held(who, section, at) == [by |-> who, section |-> section, at |-> at]

LInit == Init /\ mutex = Unlocked /\ healed = FALSE

(* The end of a section that ran to transitionTo: on a change of state     *)
(* OnStateChange is called with the mutex held.                            *)
Notify(who, section) ==
  mutex' = IF breaker'.state # breaker.state THEN Held(who, section, "callback")
                                             ELSE Unlocked

-----------------------------------------------------------------------------
(* Steps that do not need the mutex.  A call whose deferred function is    *)
(* still inside the callback has not returned.                             *)
Outside(c) ==
  /\ RejectDone(c) \/ Enter(c)
  /\ mutex.by # c
  /\ UNCHANGED <<mutex, healed>>

(* Variant: the early return of ErrCircuitOpen forgets to unlock.          *)
AdmitForgettingUnlock(c) ==
  /\ mutex = Unlocked /\ currentState(breaker) = breaker
  /\ Admission(c)
  /\ mutex' = IF pc'[c] = "idle" THEN Held(c, "admission", "returned") ELSE mutex
  /\ UNCHANGED healed

(* An admission that finds no transition to make.                          *)
Admit(c) ==
  /\ mutex = Unlocked /\ currentState(breaker) = breaker
  /\ Admission(c)
  /\ UNCHANGED <<mutex, healed>>

(* An admission that moves the breaker to half-open: the callback runs     *)
(* before the probe slot is taken.                                         *)
AdmitTurning(c) ==
  /\ pc[c] = "checked" /\ mutex = Unlocked
  /\ currentState(breaker) # breaker
  /\ State
  /\ Notify(c, "admission")
  /\ UNCHANGED healed

FinishAsServed(c, o) ==
  /\ mutex = Unlocked
  /\ healed => o \in {"nil", "canceled"}
  /\ Finish(c, o)
  /\ Notify(c, "completion")
  /\ UNCHANGED healed

Observe ==
  /\ mutex = Unlocked
  /\ \/ State /\ Notify(Observer, "State")
     \/ Reset /\ Notify(Observer, "Reset")
  /\ UNCHANGED healed

-----------------------------------------------------------------------------
InCallback == mutex.at = "callback"

(* An admission goes on with the switch on the state; the other sections   *)
(* have nothing left to do but to unlock.                                  *)
CallbackReturns ==
  /\ InCallback /\ "return" \in CallbackEnds
  /\ IF mutex.section = "admission" THEN Admission(mutex.by) ELSE UNCHANGED vars
  /\ mutex' = Unlocked
  /\ UNCHANGED healed

(* Variant: no section defers its Unlock.                                  *)
CallbackPanicsUndeferred ==
  /\ InCallback /\ "panic" \in CallbackEnds
  /\ IF mutex.section = "admission" THEN Leave(mutex.by) ELSE UNCHANGED <<pc, ctxErr>>
  /\ mutex' = [mutex EXCEPT !.at = "panicked"]
  /\ UNCHANGED <<breaker, probes, staleProbes, staleReturns, sinceTrip, healed>>

(* State, Reset and the deferred function of ExecuteContext unlock by      *)
(* defer; the admission part of ExecuteContext does not.                   *)
CallbackPanics ==
  /\ InCallback /\ "panic" \in CallbackEnds
  /\ IF mutex.section = "admission"
     THEN Leave(mutex.by) /\ mutex' = [mutex EXCEPT !.at = "panicked"]
     ELSE UNCHANGED <<pc, ctxErr>> /\ mutex' = Unlocked
  /\ UNCHANGED <<breaker, probes, staleProbes, staleReturns, sinceTrip, healed>>

(* sync.Mutex is not reentrant.                                            *)
CallbackReenters ==
  /\ InCallback /\ "reenter" \in CallbackEnds
  /\ mutex' = [mutex EXCEPT !.at = "reentered"]
  /\ UNCHANGED <<vars, healed>>

Callback == CallbackReturns \/ CallbackPanics \/ CallbackReenters

-----------------------------------------------------------------------------
Heal == ~healed /\ healed' = TRUE /\ UNCHANGED <<vars, mutex>>

Environment ==
  /\ \/ \E c \in Calls, e \in CtxErrs \ {"nil"} : Cancel(c, e)
     \/ Tick
  /\ UNCHANGED <<mutex, healed>>

LNext ==
  \/ \E c \in Calls : Outside(c) \/ Admit(c) \/ AdmitTurning(c)
  \/ \E c \in Calls, o \in Outcomes : FinishAsServed(c, o)
  \/ Observe
  \/ Callback
  \/ Heal
  \/ Environment

(* Fairness.  Time passes; sync.Mutex does not starve its waiters, so a    *)
(* goroutine that wants it whenever it is free gets it; fn returns; the    *)
(* callback does one of the three things it may do; calls whose context is *)
(* alive keep arriving (the breaker has no timer of its own and stays open *)
(* for ever without traffic); and of the calls the service is given some   *)
(* complete, not all are cancelled by their callers.                       *)
LSpec ==
  /\ LInit /\ [][LNext]_lvars
  /\ WF_lvars(Tick /\ UNCHANGED <<mutex, healed>>)
  /\ WF_lvars(Callback)
  /\ \A c \in Calls :
       /\ WF_lvars(Outside(c) /\ RejectDone(c))
       /\ SF_lvars(Admit(c) \/ AdmitTurning(c))
       /\ SF_lvars(\E o \in Outcomes : FinishAsServed(c, o))
  /\ SF_lvars(\E c \in Calls : Outside(c) /\ Enter(c))
  /\ SF_lvars(\E c \in Calls : FinishAsServed(c, "nil"))

-----------------------------------------------------------------------------
(* Locked for ever, as the code allows: by a callback that waits for its   *)
(* own mutex, or by one that panics during an admission, where             *)
(* ExecuteContext unlocks by hand and not by defer.                        *)
Wedged ==
  \/ mutex.at = "reentered"
  \/ mutex.at = "panicked" /\ mutex.section = "admission"

(* Unless the mutex is wedged, a call that passed the context check is     *)
(* admitted or rejected: every other path out of ExecuteContext, State and *)
(* Reset unlocks, panicking callbacks included, and the callbacks that run *)
(* inside the section are finitely many between two admissions.            *)
CallersGetAnswer == \A c \in Calls : pc[c] = "checked" ~> (pc[c] # "checked" \/ Wedged)

(* Once the service has healed the breaker closes and stays closed: no     *)
(* interleaving of cancelled probes, stale probes, failures recorded late  *)
(* and rejected calls wedges it in half-open with its slots taken or keeps *)
(* re-opening it.  Only a wedged mutex can prevent it.                     *)
Recovers == healed ~> (Wedged \/ [](breaker.state = "closed"))

(* While there is traffic an open circuit does not stay open: late         *)
(* failures refresh the failure time, but only finitely many calls can be  *)
(* in flight, and a rejected call records nothing.                         *)
OpenEventuallyProbed == []<>(breaker.state # "open" \/ Wedged)
=============================================================================
