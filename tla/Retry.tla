-------------------------------- MODULE Retry --------------------------------
(***************************************************************************)
(* retry.Do and retry.DoWithValue: the attempt loop with its backoff sleep,*)
(* against a context that may be cancelled at any moment.  calculateDelay  *)
(* is modelled with its integer width and the rounding of float64, both    *)
(* scaled down: int64 durations become WordBits-bit integers, the 53-bit   *)
(* mantissa MantissaBits bits, and the cap of 62 on the exponent WordBits-2*)
(***************************************************************************)
EXTENDS Integers, FiniteSetsExt

CONSTANTS WordBits, MantissaBits,
          Configs       \* the configurations callers end up with

MaxInt == 2^(WordBits - 1) - 1
MinInt == -(2^(WordBits - 1))

Strategies == {"constant", "exponential"}

(* What the options can make of a Config; n is the argument of             *)
(* WithMaxAttempts.  A RetryIf that is a function shows in the choice      *)
(* between FnEnds and FnFails; WithRetryIf(nil) leaves nothing to call.    *)
Config ==
  [n : Int, InitialDelay : MinInt .. MaxInt, MaxDelay : MinInt .. MaxInt,
   Strategy : Strategies, Jitter : BOOLEAN, RetryIf : {"func", "nil"}]

ASSUME RetryAssumption ==
  /\ WordBits \in Nat /\ MantissaBits \in 1 .. WordBits
  /\ Configs \subseteq Config

VARIABLES
  cfg,      \* the configuration of this call
  ctx,      \* "live" or "done"
  at,       \* "top" of the loop, "checked" the context, in "fn", in "sleep",
            \* "returned"
  attempt,  \* the loop counter
  calls,    \* number of times fn was called
  delay,    \* the delay of the last sleep, -1 before the first
  ret,      \* "none", "nil", "fnErr" (RetryIf said no), "ctxErr",
            \* "exhausted" (ErrMaxAttemptsReached joined with the last error),
            \* "panic" (of fn or of a nil RetryIf, which nothing recovers)
  late      \* history: how often fn was started with the context done

retryVars == <<cfg, ctx, at, attempt, calls, delay, ret, late>>

(* WithMaxAttempts ignores an n that is not positive: the default stays.   *)
MaxAttempts(c) == IF c.n > 0 THEN c.n ELSE 3

-----------------------------------------------------------------------------
Abs(x) == IF x < 0 THEN -x ELSE x

BitLength(x) == Min({k \in 0 .. 2 * WordBits : Abs(x) < 2^k})

(* Conversion to float64: round to nearest, ties to even.                  *)
Float64(x) ==
  LET u == 2^Max({0, BitLength(x) - MantissaBits})
      q == Abs(x) \div u
      r == Abs(x) % u
      up == 2 * r > u \/ (2 * r = u /\ q % 2 = 1)
      y == u * (IF up THEN q + 1 ELSE q)
  IN IF x < 0 THEN -y ELSE y

(* Conversion back: out of range the result depends on the platform, the   *)
(* smallest integer on amd64, saturation on arm64.                         *)
Duration(f) ==
  IF f \in MinInt .. MaxInt THEN {f}
  ELSE {MinInt, IF f < 0 THEN MinInt ELSE MaxInt}

(* Variant: the exponent is not capped and the product wraps.              *)
exponentialWrapping(c, a) ==
  LET calc == Float64(c.InitialDelay) * 2^a IN
  {((calc - MinInt) % 2^WordBits) + MinInt}

exponential(c, a) ==
  LET safeAttempt == Min({a, WordBits - 2})
      calc == Float64(c.InitialDelay) * 2^safeAttempt
  IN IF calc > Float64(c.MaxDelay) THEN {c.MaxDelay} ELSE Duration(calc)

(* The delays calculateDelay may return.  Full jitter draws from 0 .. d-1; *)
(* d itself is kept when the random source fails.                          *)
calculateDelay(c, a) ==
  LET base == IF c.Strategy = "exponential" THEN exponential(c, a)
                                            ELSE {c.InitialDelay}
      capped == {Min({d, c.MaxDelay}) : d \in base}
  IN UNION {IF c.Jitter /\ d > 0 THEN 0 .. d ELSE {d} : d \in capped}

-----------------------------------------------------------------------------
RetryInit ==
  /\ cfg \in Configs
  /\ ctx \in {"live", "done"}
  /\ at = "top" /\ attempt = 0 /\ calls = 0 /\ delay = -1
  /\ ret = "none" /\ late = 0

Cancel ==
  /\ ctx = "live" /\ at # "returned"
  /\ ctx' = "done"
  /\ UNCHANGED <<cfg, at, attempt, calls, delay, ret, late>>

ReturnWith(r) == at' = "returned" /\ ret' = r

(* Variant: the context is only looked at while sleeping.                  *)
CheckNothing ==
  /\ at = "top" /\ attempt < MaxAttempts(cfg)
  /\ at' = "checked"
  /\ UNCHANGED <<cfg, ctx, attempt, calls, delay, ret, late>>

(* The top of the loop: ctx.Err() is nil ...                               *)
Check ==
  /\ at = "top" /\ attempt < MaxAttempts(cfg) /\ ctx = "live"
  /\ at' = "checked"
  /\ UNCHANGED <<cfg, ctx, attempt, calls, delay, ret, late>>

(* ... and fn is called, whatever happened to the context meanwhile;       *)
Attempt ==
  /\ at = "checked"
  /\ at' = "fn" /\ calls' = calls + 1
  /\ late' = IF ctx = "done" THEN late + 1 ELSE late
  /\ UNCHANGED <<cfg, ctx, attempt, delay, ret>>

(* or the context is done, ...                                             *)
GiveUp ==
  /\ at = "top" /\ attempt < MaxAttempts(cfg) /\ ctx = "done"
  /\ ReturnWith("ctxErr")
  /\ UNCHANGED <<cfg, ctx, attempt, calls, delay, late>>

(* ... or the attempts are used up.                                        *)
Exhausted ==
  /\ at = "top" /\ attempt >= MaxAttempts(cfg)
  /\ ReturnWith("exhausted")
  /\ UNCHANGED <<cfg, ctx, attempt, calls, delay, late>>

(* fn succeeds or panics, or it fails: then the error is one that RetryIf  *)
(* rejects, or there is no RetryIf and its call panics.                    *)
FnEnds(r) ==
  /\ at = "fn"
  /\ r = "fnErr" => cfg.RetryIf = "func"
  /\ ReturnWith(r)
  /\ UNCHANGED <<cfg, ctx, attempt, calls, delay, late>>

(* Variant: one sleep, and so one attempt, too few.                        *)
FnFailsEarly ==
  /\ at = "fn" /\ cfg.RetryIf = "func"
  /\ IF attempt < MaxAttempts(cfg) - 2
     THEN /\ at' = "sleep" /\ attempt' = attempt
          /\ delay' \in calculateDelay(cfg, attempt)
     ELSE at' = "top" /\ attempt' = MaxAttempts(cfg) /\ UNCHANGED delay
  /\ UNCHANGED <<cfg, ctx, calls, ret, late>>

(* fn fails with an error worth another attempt: sleep, unless it was the  *)
(* last one.                                                               *)
FnFails ==
  /\ at = "fn" /\ cfg.RetryIf = "func"
  /\ IF attempt < MaxAttempts(cfg) - 1
     THEN /\ at' = "sleep" /\ attempt' = attempt
          /\ delay' \in calculateDelay(cfg, attempt)
     ELSE at' = "top" /\ attempt' = attempt + 1 /\ UNCHANGED delay
  /\ UNCHANGED <<cfg, ctx, calls, ret, late>>

(* The select between the timer and the context: with both ready either.   *)
TimerFires ==
  /\ at = "sleep"
  /\ at' = "top" /\ attempt' = attempt + 1
  /\ UNCHANGED <<cfg, ctx, calls, delay, ret, late>>

(* Variant: a plain time.Sleep that nothing interrupts, for a long delay.  *)
SleepNotInterrupted ==
  /\ at = "sleep" /\ ctx = "done" /\ delay < 0
  /\ ReturnWith("ctxErr")
  /\ UNCHANGED <<cfg, ctx, attempt, calls, delay, late>>

SleepCanceled ==
  /\ at = "sleep" /\ ctx = "done"
  /\ ReturnWith("ctxErr")
  /\ UNCHANGED <<cfg, ctx, attempt, calls, delay, late>>

Terminated == at = "returned" /\ UNCHANGED retryVars

Step ==
  \/ Check \/ Attempt \/ GiveUp \/ Exhausted
  \/ \E r \in {"nil", "fnErr", "panic"} : FnEnds(r)
  \/ FnFails
  \/ SleepCanceled

RetryNext == Cancel \/ Step \/ TimerFires \/ Terminated

RetrySpec == RetryInit /\ [][RetryNext]_retryVars

(* fn returns and the loop runs on.  The timer has no fairness: a delay    *)
(* may be longer than anyone waits.                                        *)
RetryFairness == WF_retryVars(Step)

-----------------------------------------------------------------------------
(* fn is called at most MaxAttempts times, and ErrMaxAttemptsReached means *)
(* exactly that many failures: no attempt is lost or counted twice over    *)
(* sleeps and cancellations (doWithConfig).                                *)
AttemptsExact ==
  /\ calls <= MaxAttempts(cfg)
  /\ ret = "exhausted" => calls = MaxAttempts(cfg)

(* However the select wakes up, fn is started at most once after the       *)
(* context has ended: only if it ended between the check at the top of the *)
(* loop and the call (doWithConfig).                                       *)
AtMostOneLateCall == late <= 1

(* Ordinary durations: positive, and a MaxDelay that float64 does not      *)
(* round up beyond the largest duration.                                   *)
Ordinary(c) ==
  c.InitialDelay > 0 /\ c.MaxDelay > 0 /\ Float64(c.MaxDelay) <= MaxInt

(* What calculateDelay returns never exceeds MaxDelay, in whatever way a   *)
(* conversion overflows.  For ordinary durations no rounding, cap or       *)
(* overflow makes it negative either, and without jitter it never gets     *)
(* shorter from one attempt to the next.                                   *)
SoundDelay ==
  /\ delay' # delay => delay' <= cfg.MaxDelay
  /\ delay' # delay /\ Ordinary(cfg) => delay' >= 0
  /\ ~cfg.Jitter /\ Ordinary(cfg) => delay' >= delay

BackoffSound == [][SoundDelay]_retryVars

(* A cancelled call returns without waiting for the timer.                 *)
CancelReturns == (ctx = "done") ~> (at = "returned")
=============================================================================
