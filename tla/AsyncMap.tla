------------------------------- MODULE AsyncMap -------------------------------
(***************************************************************************)
(* async.Map: a launcher walks over the items and starts one goroutine per *)
(* item, throttled by a buffered channel used as a semaphore; a WaitGroup  *)
(* is the barrier at the end, after which the error to return is chosen.   *)
(* The context may be cancelled at any moment.                             *)
(***************************************************************************)
EXTENDS Integers, FiniteSets

CONSTANTS N,               \* len(items)
          CfgConcurrency,  \* the concurrency argument: any integer
          Outcomes         \* how fn may end, a subset of AllOutcomes

(* "ctx" is the bare context.Canceled or context.DeadlineExceeded, "err"   *)
(* any other error (one that wraps them included), "goexit" a call of      *)
(* runtime.Goexit, which runs the deferred functions but recovers nothing. *)
AllOutcomes == {"nil", "err", "ctx", "panic", "goexit"}

ASSUME MapAssumption ==
  N \in Nat /\ CfgConcurrency \in Int /\ Outcomes \subseteq AllOutcomes

concurrency == IF CfgConcurrency <= 0 THEN 1 ELSE CfgConcurrency

Items == 1 .. N

VARIABLES
  canceled,  \* ctx.Err() # nil
  at,        \* the launcher: "check", "select", "add", "go", "wait" or "returned"
  i,         \* the item it is at
  sem,       \* number of tokens in the channel sem
  wg,        \* the WaitGroup counter
  worker,    \* the goroutine of each item
  errs,      \* errs[idx]: "nil" or the kind of error
  results,   \* results[idx]: "zero" until fn's result is stored
  ret        \* the error Map returns, "none" before it does

vars == <<canceled, at, i, sem, wg, worker, errs, results, ret>>

(* A goroutine is started, calls fn, then runs its deferred functions:     *)
(* "leaving" is after recover, "released" after the token was given back.  *)
Places == {"none", "started", "fn", "leaving", "released", "done"}

Init ==
  /\ canceled = FALSE
  /\ at = "check" /\ i = 1
  /\ sem = 0 /\ wg = 0
  /\ worker = [x \in Items |-> "none"]
  /\ errs = [x \in Items |-> "nil"]
  /\ results = [x \in Items |-> "zero"]
  /\ ret = "none"

Cancel ==
  /\ ~canceled
  /\ canceled' = TRUE
  /\ UNCHANGED <<at, i, sem, wg, worker, errs, results, ret>>

-----------------------------------------------------------------------------
(* The top of the loop: out of items, or the context is done.              *)
LoopCheck ==
  /\ at = "check"
  /\ at' = IF i > N \/ canceled THEN "wait" ELSE "select"
  /\ UNCHANGED <<canceled, i, sem, wg, worker, errs, results, ret>>

(* The select: with both cases ready Go takes either.                      *)
SelectDone ==
  /\ at = "select" /\ canceled
  /\ at' = "wait"
  /\ UNCHANGED <<canceled, i, sem, wg, worker, errs, results, ret>>

(* Variant: room for one token more than the channel's capacity.           *)
SelectTokenOver ==
  /\ at = "select" /\ sem <= concurrency
  /\ sem' = sem + 1
  /\ at' = "add"
  /\ UNCHANGED <<canceled, i, wg, worker, errs, results, ret>>

SelectToken ==
  /\ at = "select" /\ sem < concurrency
  /\ sem' = sem + 1
  /\ at' = "add"
  /\ UNCHANGED <<canceled, i, wg, worker, errs, results, ret>>

(* Variant: wg.Add left to the goroutine itself.                           *)
AddForgotten ==
  /\ at = "add"
  /\ at' = "go"
  /\ UNCHANGED <<canceled, i, sem, wg, worker, errs, results, ret>>

Add ==
  /\ at = "add"
  /\ wg' = wg + 1
  /\ at' = "go"
  /\ UNCHANGED <<canceled, i, sem, worker, errs, results, ret>>

Launch ==
  /\ at = "go"
  /\ worker' = [worker EXCEPT ![i] = "started"]
  /\ i' = i + 1
  /\ at' = "check"
  /\ UNCHANGED <<canceled, sem, wg, errs, results, ret>>

Specific == {"err", "panic"}

(* Variant: the context is not consulted again after the barrier.          *)
ReturnForgettingContext ==
  /\ at = "wait" /\ wg = 0
  /\ at' = "returned"
  /\ ret' = IF \E x \in Items : errs[x] \in Specific THEN "err"
            ELSE IF \E x \in Items : errs[x] # "nil" THEN "ctx"
            ELSE "nil"
  /\ UNCHANGED <<canceled, i, sem, wg, worker, errs, results>>

(* Variant: the context's error goes first.                                *)
ReturnContextFirst ==
  /\ at = "wait" /\ wg = 0
  /\ at' = "returned"
  /\ ret' = IF canceled THEN "ctx"
            ELSE IF \E x \in Items : errs[x] \in Specific THEN "err"
            ELSE IF \E x \in Items : errs[x] # "nil" THEN "ctx"
            ELSE "nil"
  /\ UNCHANGED <<canceled, i, sem, wg, worker, errs, results>>

(* wg.Wait(), then the choice of the error: a specific one of the workers  *)
(* first, then the context's, then a context error of a worker.            *)
Return ==
  /\ at = "wait" /\ wg = 0
  /\ at' = "returned"
  /\ ret' = IF \E x \in Items : errs[x] \in Specific THEN "err"
            ELSE IF canceled THEN "ctx"
            ELSE IF \E x \in Items : errs[x] # "nil" THEN "ctx"
            ELSE "nil"
  /\ UNCHANGED <<canceled, i, sem, wg, worker, errs, results>>

-----------------------------------------------------------------------------
WorkerGoto(x, p) == worker' = [worker EXCEPT ![x] = p]

(* The goroutine looks at the context before it calls fn.                  *)
WorkerBegin(x) ==
  /\ worker[x] = "started"
  /\ IF canceled
     THEN WorkerGoto(x, "leaving") /\ errs' = [errs EXCEPT ![x] = "ctx"]
     ELSE WorkerGoto(x, "fn") /\ UNCHANGED errs
  /\ UNCHANGED <<canceled, at, i, sem, wg, results, ret>>

(* Variant: a panic unwinds past the release of the token.                 *)
WorkerEndLeaking(x, o) ==
  /\ worker[x] = "fn"
  /\ WorkerGoto(x, IF o = "panic" THEN "released" ELSE "leaving")
  /\ errs' = [errs EXCEPT ![x] = IF o = "goexit" THEN @ ELSE o]
  /\ results' = [results EXCEPT ![x] = IF o \in {"panic", "goexit"} THEN @ ELSE o]
  /\ UNCHANGED <<canceled, at, i, sem, wg, ret>>

(* fn ends; its result and error are stored, or the panic is recovered.    *)
(* results[x] keeps which return it came from.                             *)
WorkerEnd(x, o) ==
  /\ worker[x] = "fn"
  /\ WorkerGoto(x, "leaving")
  /\ errs' = [errs EXCEPT ![x] = IF o = "goexit" THEN @ ELSE o]
  /\ results' = [results EXCEPT ![x] = IF o \in {"panic", "goexit"} THEN @ ELSE o]
  /\ UNCHANGED <<canceled, at, i, sem, wg, ret>>

(* The deferred <-sem ...                                                  *)
WorkerRelease(x) ==
  /\ worker[x] = "leaving" /\ sem > 0
  /\ sem' = sem - 1
  /\ WorkerGoto(x, "released")
  /\ UNCHANGED <<canceled, at, i, wg, errs, results, ret>>

(* ... and the deferred wg.Done().                                         *)
WorkerDone(x) ==
  /\ worker[x] = "released"
  /\ wg' = wg - 1
  /\ WorkerGoto(x, "done")
  /\ UNCHANGED <<canceled, at, i, sem, errs, results, ret>>

Launcher ==
  LoopCheck \/ SelectDone \/ SelectToken \/ Add \/ Launch \/ Return

Worker(x) ==
  \/ WorkerBegin(x)
  \/ \E o \in Outcomes : WorkerEnd(x, o)
  \/ WorkerRelease(x) \/ WorkerDone(x)

(* The caller has the answer; the context has been cancelled after that,   *)
(* as `defer cancel()' does, if not before.                                *)
Terminated ==
  /\ at = "returned" /\ canceled
  /\ UNCHANGED vars

Next ==
  \/ Cancel
  \/ Launcher
  \/ \E x \in Items : Worker(x)
  \/ Terminated

Spec == Init /\ [][Next]_vars

(* Runnable goroutines run, and fn returns.                                *)
FairSpec ==
  /\ Spec
  /\ WF_vars(Launcher)
  /\ \A x \in Items : WF_vars(Worker(x))

-----------------------------------------------------------------------------
TypeOK ==
  /\ canceled \in BOOLEAN
  /\ at \in {"check", "select", "add", "go", "wait", "returned"}
  /\ i \in 1 .. N + 1
  /\ sem \in Int /\ wg \in Int
  /\ worker \in [Items -> Places]
  /\ errs \in [Items -> {"nil", "err", "ctx", "panic"}]
  /\ results \in [Items -> {"zero", "nil", "err", "ctx"}]
  /\ ret \in {"none", "nil", "err", "ctx"}

Holding == {x \in Items : worker[x] \in {"started", "fn", "leaving"}}
Alive   == {x \in Items : worker[x] \in {"started", "fn", "leaving", "released"}}

(* At most `concurrency' items are inside fn at any time: the semaphore    *)
(* counts the goroutines that may still run fn, whatever way they leave.   *)
BoundedConcurrency ==
  Cardinality({x \in Items : worker[x] = "fn"}) <= concurrency

(* Map does not return while a goroutine it started is alive, so nothing   *)
(* is written into results after the caller has them (wg.Add before go,    *)
(* wg.Wait).                                                               *)
NoneOutlivesMap ==
  at = "returned" => Alive = {}

(* A nil error means that every item went through fn without error, even   *)
(* when the context is cancelled while the launcher is between its checks. *)
NilMeansMapped ==
  ret = "nil" => \A x \in Items : results[x] = "nil"

(* No failure of a worker is swallowed or hidden behind the cancellation.  *)
FailureReported ==
  at = "returned" /\ (\E x \in Items : errs[x] \in Specific) => ret = "err"

(* Map always returns: neither a panic nor a cancellation leaves the       *)
(* launcher waiting for a token or for the barrier.                        *)
MapReturns == <>(at = "returned")
=============================================================================
