--------------------------------- MODULE Fan ---------------------------------
(***************************************************************************)
(* async.Fan: a loop that launches one goroutine per item until the context*)
(* is done, and the wait for all of them.                                  *)
(***************************************************************************)
EXTENDS TaskGroup

CONSTANT N      \* number of items

ASSUME FanAssumption == N \in Nat /\ Tasks = 1 .. N

VARIABLES
  ctx,      \* "live" or "done"
  at,       \* Fan itself: "loop", "launch", "wait", "returned"
  i         \* the item the loop is at

loopVars == <<ctx, at, i>>
fanVars == <<pc, outcome, wg, errs, ctx, at, i>>

CtxErr == 0     \* ctx.Err() in the slice of errors

LoopInit ==
  /\ ctx = "live" /\ at = "loop" /\ i = 1

Cancel ==
  /\ ctx = "live"
  /\ ctx' = "done"
  /\ UNCHANGED <<pc, outcome, wg, errs, at, i>>

LoopCheck ==
  /\ at = "loop" /\ i <= N /\ ctx = "live"
  /\ at' = "launch"
  /\ UNCHANGED <<pc, outcome, wg, errs, ctx, i>>

(* Variant: the loop stops without a word.                                 *)
LoopBreakSilently ==
  /\ at = "loop" /\ i <= N /\ ctx = "done"
  /\ at' = "wait"
  /\ UNCHANGED <<pc, outcome, wg, errs, ctx, i>>

(* The context is done: its error joins the slice, under the mutex.        *)
LoopBreak ==
  /\ at = "loop" /\ i <= N /\ ctx = "done"
  /\ errs' = Append(errs, CtxErr)
  /\ at' = "wait"
  /\ UNCHANGED <<pc, outcome, wg, ctx, i>>

Launch ==
  /\ at = "launch"
  /\ Spawn(i)
  /\ at' = "loop" /\ i' = i + 1
  /\ UNCHANGED ctx

LoopEnd ==
  /\ at = "loop" /\ i > N
  /\ at' = "wait"
  /\ UNCHANGED <<pc, outcome, wg, errs, ctx, i>>

(* wg.Wait() returns, and Fan returns errs.                                *)
Return ==
  /\ at = "wait" /\ wg = 0
  /\ at' = "returned"
  /\ UNCHANGED <<pc, outcome, wg, errs, ctx, i>>

Worker(t) == TaskStep(t) /\ UNCHANGED loopVars

Terminated == at = "returned" /\ UNCHANGED fanVars

Launcher == LoopCheck \/ LoopBreak \/ Launch \/ LoopEnd \/ Return

FanNext == Cancel \/ Launcher \/ (\E t \in Tasks : Worker(t)) \/ Terminated

FanSpec == TaskInit /\ LoopInit /\ [][FanNext]_fanVars

(* Every fn ends, and the launching goroutine is scheduled.                *)
FanFairness ==
  WF_fanVars(Launcher) /\ \A t \in Tasks : WF_taskVars(TaskStep(t))

-----------------------------------------------------------------------------
(* What Fan returns accounts for every item: it ran to its end, with its   *)
(* failure named once, or it was never launched and the context's error is *)
(* in the slice, once.  A context cancelled after the last launch is not   *)
(* an error, and no goroutine is alive.                                    *)
EveryItemAccounted ==
  at = "returned" =>
    /\ Launched = Gone
    /\ NamesOnce(errs, FailedTasks \cup (IF Launched = Tasks THEN {} ELSE {CtxErr}))

(* Fan returns.                                                            *)
FanReturns == (at = "loop") ~> (at = "returned")
=============================================================================
