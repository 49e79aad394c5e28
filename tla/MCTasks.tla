------------------------------- MODULE MCTasks -------------------------------
(* A program that uses a Group, a Fan, or Go and GoErr, on three tasks.    *)
EXTENDS Group, Fan, GoErr

VARIABLE program

vars == <<pc, outcome, wg, errs, wait, ctx, at, i, chan, caller, program>>

Init ==
  /\ GroupInit /\ DetachedInit
  /\ \/ program = "Fan" /\ LoopInit
     \/ /\ program \in {"Group", "GoErr"}
        /\ ctx = "live" /\ at = "off" /\ i = 1

Next ==
  /\ \/ program = "Group" /\ GroupNext /\ UNCHANGED <<loopVars, chan, caller>>
     \/ program = "Fan" /\ FanNext /\ UNCHANGED <<wait, chan, caller>>
     \/ program = "GoErr" /\ DetachedNext /\ UNCHANGED <<loopVars, wait>>
  /\ UNCHANGED program

Spec == Init /\ [][Next]_vars /\ GroupFairness /\ FanFairness /\ DetachedFairness

(* Whoever waits for a Group returns, although tasks may launch more tasks,*)
(* and Fan returns.                                                        *)
EverybodyReturns == WaitReturns /\ FanReturns
=============================================================================
