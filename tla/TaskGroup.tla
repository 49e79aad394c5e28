------------------------------ MODULE TaskGroup ------------------------------
(***************************************************************************)
(* What async.Group and async.Fan have in common: one goroutine per task,  *)
(* a WaitGroup that counts them, and a slice of errors behind a mutex.  A  *)
(* goroutine runs fn, appends its error or its recovered panic, and only   *)
(* then, in the outer deferred call, reports Done.                         *)
(***************************************************************************)
EXTENDS Integers, Sequences, FiniteSets, SequencesExt

CONSTANTS Tasks,      \* the functions handed to Go, or the items of Fan
          Outcomes    \* how fn may end

AllOutcomes == {"nil", "err", "panic", "goexit"}

ASSUME TaskAssumption == IsFiniteSet(Tasks) /\ Outcomes \subseteq AllOutcomes

VARIABLES
  pc,       \* [Tasks -> where the goroutine of the task is]
  outcome,  \* [Tasks -> how fn ended, or "none"]
  wg,       \* the WaitGroup's counter
  errs      \* the error slice: the tasks the errors come from

taskVars == <<pc, outcome, wg, errs>>

TaskInit ==
  /\ pc = [t \in Tasks |-> "idle"]
  /\ outcome = [t \in Tasks |-> "none"]
  /\ wg = 0
  /\ errs = <<>>

(* wg.Add(1) and the go statement.                                         *)
Spawn(t) ==
  /\ pc[t] = "idle"
  /\ pc' = [pc EXCEPT ![t] = "running"]
  /\ wg' = wg + 1
  /\ UNCHANGED <<outcome, errs>>

Failed(o) == o \in {"err", "panic"}

(* fn returns, panics, or ends the goroutine with runtime.Goexit, for which*)
(* recover() returns nil.                                                  *)
FnEnds(t, o) ==
  /\ pc[t] = "running"
  /\ outcome' = [outcome EXCEPT ![t] = o]
  /\ pc' = [pc EXCEPT ![t] = IF Failed(o) THEN "failed" ELSE "leaving"]
  /\ UNCHANGED <<wg, errs>>

(* Variant: append without the mutex may lose a concurrent append.         *)
RecordUnlocked(t) ==
  /\ pc[t] = "failed"
  /\ \/ errs' = Append(errs, t)
     \/ errs # <<>> /\ errs' = Append(Front(errs), t)
  /\ pc' = [pc EXCEPT ![t] = "leaving"]
  /\ UNCHANGED <<outcome, wg>>

(* The append, under the mutex.                                            *)
Record(t) ==
  /\ pc[t] = "failed"
  /\ errs' = Append(errs, t)
  /\ pc' = [pc EXCEPT ![t] = "leaving"]
  /\ UNCHANGED <<outcome, wg>>

(* Variant: a panicking fn skips the Done, which is no deferred call.      *)
DoneSkipped(t) ==
  /\ pc[t] = "leaving"
  /\ pc' = [pc EXCEPT ![t] = "gone"]
  /\ wg' = IF outcome[t] = "panic" THEN wg ELSE wg - 1
  /\ UNCHANGED <<outcome, errs>>

(* wg.Done(), the last deferred call.                                      *)
Done(t) ==
  /\ pc[t] = "leaving"
  /\ pc' = [pc EXCEPT ![t] = "gone"]
  /\ wg' = wg - 1
  /\ UNCHANGED <<outcome, errs>>

TaskStep(t) ==
  \/ \E o \in Outcomes : FnEnds(t, o)
  \/ Record(t)
  \/ Done(t)

-----------------------------------------------------------------------------
Launched == {t \in Tasks : pc[t] # "idle"}

Gone == {t \in Tasks : pc[t] = "gone"}

FailedTasks == {t \in Tasks : Failed(outcome[t])}

(* The slice s names each task of F exactly once, and no other task.       *)
NamesOnce(s, F) == ToSet(s) = F /\ Len(s) = Cardinality(F)
=============================================================================
