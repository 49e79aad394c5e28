-------------------------------- MODULE Group --------------------------------
(***************************************************************************)
(* async.Group: Go from outside and from running tasks, and Wait from      *)
(* several goroutines, also again after an earlier Wait has returned.      *)
(***************************************************************************)
EXTENDS TaskGroup

CONSTANT Waiters

VARIABLE wait   \* [Waiters -> the goroutine's call of Wait: where it is, the
                \* tasks launched when it was released, what it returned]

groupVars == <<pc, outcome, wg, errs, wait>>

NotWaiting == [at |-> "out", covers |-> {}, result |-> <<>>]

GroupInit == TaskInit /\ wait = [w \in Waiters |-> NotWaiting]

Inside == {w \in Waiters : wait[w].at \in {"blocked", "released"}}

(* Group.Go.  Raising the counter from zero while somebody is in Wait is a *)
(* misuse that sync.WaitGroup forbids; a running task may always do it.    *)
Go(t) ==
  /\ wg > 0 \/ Inside = {}
  /\ Spawn(t)
  /\ UNCHANGED wait

Task(t) == TaskStep(t) /\ UNCHANGED wait

WaitCall(w) ==
  /\ wait[w].at = "out"
  /\ wait' = [wait EXCEPT ![w].at = "blocked"]
  /\ UNCHANGED taskVars

(* Variant: Wait does not wait for goroutines that already recorded.       *)
WaitReleaseEarly(w) ==
  /\ wait[w].at = "blocked" /\ \A t \in Tasks : pc[t] # "running"
  /\ wait' = [wait EXCEPT ![w].at = "released", ![w].covers = Launched]
  /\ UNCHANGED taskVars

(* The counter was zero: wg.Wait() returns.                                *)
WaitRelease(w) ==
  /\ wait[w].at = "blocked" /\ wg = 0
  /\ wait' = [wait EXCEPT ![w].at = "released", ![w].covers = Launched]
  /\ UNCHANGED taskVars

(* The slice is read under the mutex and returned.                         *)
WaitReturn(w) ==
  /\ wait[w].at = "released"
  /\ wait' = [wait EXCEPT ![w].at = "returned", ![w].result = errs]
  /\ UNCHANGED taskVars

(* The goroutine may wait again, for instance for a second batch.          *)
WaitAgain(w) ==
  /\ wait[w].at = "returned"
  /\ wait' = [wait EXCEPT ![w] = NotWaiting]
  /\ UNCHANGED taskVars

GroupNext ==
  \/ \E t \in Tasks : Go(t) \/ Task(t)
  \/ \E w \in Waiters :
       WaitCall(w) \/ WaitRelease(w) \/ WaitReturn(w) \/ WaitAgain(w)

GroupSpec == GroupInit /\ [][GroupNext]_groupVars

(* Every fn ends, and released waiters run on.                             *)
GroupFairness ==
  /\ \A t \in Tasks : WF_taskVars(TaskStep(t))
  /\ \A w \in Waiters : WF_groupVars(WaitRelease(w)) /\ WF_groupVars(WaitReturn(w))

-----------------------------------------------------------------------------
(* When Wait lets go, no goroutine of the group is alive, neither those    *)
(* launched before the call nor those that tasks launched meanwhile.       *)
Barrier ==
  \A w \in Waiters : wait[w].at = "released" => Launched = Gone

(* What Wait returned names failed tasks only, each once, and none of those*)
(* launched by the time the counter was zero is missing.  Errors of an     *)
(* earlier batch come again: Wait does not clear the slice.                *)
ReportExact ==
  \A w \in Waiters : wait[w].at = "returned" =>
    /\ FailedTasks \cap wait[w].covers \subseteq ToSet(wait[w].result)
    /\ ToSet(wait[w].result) \subseteq FailedTasks
    /\ IsInjective(wait[w].result)

(* Wait returns although tasks may launch more tasks.                      *)
WaitReturns ==
  \A w \in Waiters : wait[w].at = "blocked" ~> wait[w].at = "returned"
=============================================================================
