-------------------------------- MODULE GoErr --------------------------------
(***************************************************************************)
(* async.Go and async.GoErr: goroutines that are not waited for.  Go hands *)
(* a recovered panic to onPanic (taken to return: a panic in it is not     *)
(* recovered and ends the process).  GoErr sends the outcome of fn into a  *)
(* channel, from which the caller may receive, at once, later or never.    *)
(***************************************************************************)
EXTENDS TaskGroup

CONSTANT Promises   \* the tasks handed to Go or to GoErr

ASSUME PromisesAssumption == Promises \subseteq Tasks

VARIABLES
  chan,     \* [Tasks -> what is in the channel that GoErr returned]
  caller    \* [Tasks -> the caller: "busy", "waiting", "left", or what it got]

detachedVars == <<pc, outcome, wg, errs, chan, caller>>

ChanCapacity == 1    \* make(chan error, 1)

CanSend(t) == Len(chan[t]) < ChanCapacity

DetachedInit ==
  /\ chan = [t \in Tasks |-> <<>>]
  /\ caller = [t \in Tasks |-> "busy"]

Detached(t, from, to) ==
  /\ pc[t] = from
  /\ pc' = [pc EXCEPT ![t] = to]
  /\ UNCHANGED <<wg, errs>>

(* The go statement of Go, and of GoErr.                                   *)
GoCall(t) ==
  /\ Detached(t, "idle", "detached")
  /\ caller' = [caller EXCEPT ![t] = "left"]
  /\ UNCHANGED <<outcome, chan>>

GoErrCall(t) == Detached(t, "idle", "promised") /\ UNCHANGED <<outcome, chan, caller>>

(* Go: fn has no result; onPanic, when there is one, is called by the      *)
(* deferred function with a recovered panic.                               *)
GoFnEnds(t, o) ==
  /\ Detached(t, "detached", IF o = "panic" THEN "reporting" ELSE "gone")
  /\ outcome' = [outcome EXCEPT ![t] = o]
  /\ UNCHANGED <<chan, caller>>

OnPanic(t) ==
  /\ Detached(t, "reporting", "gone")
  /\ UNCHANGED <<outcome, chan, caller>>

(* Variant: the deferred function recovers a panic and sends nothing.      *)
GoErrFnEndsDroppingPanic(t, o) ==
  /\ Detached(t, "promised", IF o \in {"goexit", "panic"} THEN "gone" ELSE "sending")
  /\ outcome' = [outcome EXCEPT ![t] = o]
  /\ UNCHANGED <<chan, caller>>

(* GoErr: fn's result, or the panic the deferred function recovered, is to *)
(* be sent; runtime.Goexit runs the deferred function, but recover() gives *)
(* nil there and nothing is sent.                                          *)
GoErrFnEnds(t, o) ==
  /\ Detached(t, "promised", IF o = "goexit" THEN "gone" ELSE "sending")
  /\ outcome' = [outcome EXCEPT ![t] = o]
  /\ UNCHANGED <<chan, caller>>

Send(t) ==
  /\ CanSend(t)
  /\ Detached(t, "sending", "gone")
  /\ chan' = [chan EXCEPT ![t] = Append(@, outcome[t])]
  /\ UNCHANGED <<outcome, caller>>

(* The caller of GoErr starts to receive; it may give up (a select with    *)
(* another case), before it asked or later.                                *)
Ask(t) ==
  /\ pc[t] \in {"promised", "sending", "gone"} /\ caller[t] = "busy"
  /\ caller' = [caller EXCEPT ![t] = "waiting"]
  /\ UNCHANGED <<pc, outcome, wg, errs, chan>>

GiveUp(t) ==
  /\ pc[t] \in {"promised", "sending"} /\ caller[t] \in {"busy", "waiting"}
  /\ caller' = [caller EXCEPT ![t] = "left"]
  /\ UNCHANGED <<pc, outcome, wg, errs, chan>>

Receive(t) ==
  /\ caller[t] = "waiting" /\ chan[t] # <<>>
  /\ caller' = [caller EXCEPT ![t] = Head(chan[t])]
  /\ chan' = [chan EXCEPT ![t] = Tail(@)]
  /\ UNCHANGED <<pc, outcome, wg, errs>>

DetachedStep(t) ==
  \/ \E o \in Outcomes : GoFnEnds(t, o) \/ GoErrFnEnds(t, o)
  \/ OnPanic(t)
  \/ Send(t)

(* The program ends: main does not wait for these goroutines.              *)
Over == (\A t \in Promises : pc[t] = "gone") /\ UNCHANGED detachedVars

DetachedNext ==
  \/ \E t \in Promises : \/ GoCall(t) \/ GoErrCall(t) \/ DetachedStep(t)
                      \/ Ask(t) \/ GiveUp(t) \/ Receive(t)
  \/ Over

DetachedSpec == TaskInit /\ DetachedInit /\ [][DetachedNext]_detachedVars

(* Every fn ends, the goroutine is scheduled, and so is its caller.        *)
DetachedFairness ==
  \A t \in Promises : WF_detachedVars(DetachedStep(t)) /\ WF_detachedVars(Receive(t))

-----------------------------------------------------------------------------
(* No goroutine is leaked, whether or not anybody receives, and whoever    *)
(* receives gets the outcome of its fn.  The one exception is a fn that    *)
(* ends its goroutine with runtime.Goexit (t.FailNow in a test, say): its  *)
(* caller waits for ever.                                                  *)
OutcomeDelivered ==
  \A t \in Promises :
    /\ pc[t] \in {"detached", "promised"} ~> pc[t] = "gone"
    /\ caller[t] = "waiting" ~> \/ caller[t] = "left"
                                \/ outcome[t] \in {caller[t], "goexit"}
=============================================================================
