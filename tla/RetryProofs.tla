----------------------------- MODULE RetryProofs -----------------------------
(***************************************************************************)
(* Proofs about the retry loop for every set of configurations: how often  *)
(* fn is called whatever calculateDelay returns, and what it does return,  *)
(* for every word and mantissa width.                                      *)
(***************************************************************************)
EXTENDS Retry, FiniteSetTheorems, WellFoundedInduction, TLAPS

(* Where the loop is, how many attempts are behind it.                     *)
Counting ==
  /\ cfg \in Configs
  /\ attempt \in Nat /\ calls \in Nat
  /\ at \in {"top", "checked", "fn", "sleep", "returned"}
  /\ at = "top" => calls = attempt /\ attempt <= MaxAttempts(cfg)
  /\ at = "checked" => calls = attempt /\ attempt < MaxAttempts(cfg)
  /\ at \in {"fn", "sleep"} => calls = attempt + 1 /\ attempt < MaxAttempts(cfg)
  /\ calls <= MaxAttempts(cfg)
  /\ at # "returned" => ret = "none"
  /\ ret = "exhausted" => calls = MaxAttempts(cfg)

(* The history variable: after a late call no check succeeds any more, so  *)
(* that there is no second one.                                            *)
Late ==
  /\ late \in {0, 1}
  /\ late = 1 => ctx = "done" /\ at # "checked"

(* The inductive invariant.                                                *)
IInv == Counting /\ Late

LEMMA MaxAttemptsType ==
  ASSUME NEW c \in Configs PROVE MaxAttempts(c) \in Nat \ {0}
<1>1. c.n \in Int BY RetryAssumption DEF Config
<1> QED BY <1>1 DEF MaxAttempts

LEMMA InitIInv == RetryInit => IInv
<1> SUFFICES ASSUME RetryInit PROVE IInv OBVIOUS
<1>1. MaxAttempts(cfg) \in Nat \ {0} BY MaxAttemptsType DEF RetryInit
<1>2. Counting BY <1>1 DEF RetryInit, Counting
<1>3. Late BY DEF RetryInit, Late
<1> QED BY <1>2, <1>3 DEF IInv

LEMMA NextIInv == IInv /\ [RetryNext]_retryVars => IInv'
<1> SUFFICES ASSUME IInv, [RetryNext]_retryVars PROVE IInv' OBVIOUS
<1> USE DEF IInv
<1>m. MaxAttempts(cfg) \in Nat \ {0} /\ attempt \in Nat
  BY MaxAttemptsType DEF Counting
<1>1. CASE Cancel BY <1>1, <1>m DEF Cancel, Counting, Late
<1>c. CASE Check BY <1>c, <1>m DEF Check, Counting, Late
<1>2. CASE Attempt BY <1>2, <1>m DEF Attempt, Counting, Late
<1>3. CASE GiveUp BY <1>3, <1>m DEF GiveUp, ReturnWith, Counting, Late
<1>4. CASE Exhausted BY <1>4, <1>m DEF Exhausted, ReturnWith, Counting, Late
<1>5. ASSUME NEW r \in {"nil", "fnErr", "panic"}, FnEnds(r) PROVE IInv'
  BY <1>5, <1>m DEF FnEnds, ReturnWith, Counting, Late
<1>6. CASE FnFails
  <2>1. at = "fn" /\ cfg' = cfg /\ calls' = calls /\ ret' = ret
    BY <1>6 DEF FnFails
  <2>2. \/ at' = "sleep" /\ attempt' = attempt
        \/ at' = "top" /\ attempt' = attempt + 1
    BY <1>6 DEF FnFails
  <2>3. Counting' BY <1>m, <2>1, <2>2 DEF Counting
  <2>4. Late' BY <1>6, <2>2 DEF FnFails, Late
  <2> QED BY <2>3, <2>4
<1>7. CASE TimerFires BY <1>7, <1>m DEF TimerFires, Counting, Late
<1>8. CASE SleepCanceled
  BY <1>8, <1>m DEF SleepCanceled, ReturnWith, Counting, Late
<1>9. CASE Terminated \/ UNCHANGED retryVars
  BY <1>9 DEF Terminated, retryVars, Counting, Late
<1> QED BY <1>c, <1>1, <1>2, <1>3, <1>4, <1>5, <1>6, <1>7, <1>8, <1>9 DEF RetryNext, Step

(* For every configuration fn is called at most MaxAttempts times, and     *)
(* exactly that often before ErrMaxAttemptsReached.                        *)
THEOREM AttemptsAreExact == RetrySpec => []AttemptsExact
<1>1. IInv => AttemptsExact BY DEF IInv, Counting, AttemptsExact
<1> QED BY InitIInv, NextIInv, <1>1, PTL DEF RetrySpec

(* After the context has ended fn is started at most once more, although   *)
(* check and call are two steps and timers may keep winning the select.    *)
THEOREM OneLateCall == RetrySpec => []AtMostOneLateCall
<1>1. IInv => AtMostOneLateCall BY DEF IInv, Late, AtMostOneLateCall
<1> QED BY InitIInv, NextIInv, <1>1, PTL DEF RetrySpec

(* How far the loop has come, four positions to an attempt ...             *)
LoopRank ==
  CASE at = "top"      -> 4 * attempt
    [] at = "checked"  -> 4 * attempt + 1
    [] at = "fn"       -> 4 * attempt + 2
    [] at = "sleep"    -> 4 * attempt + 3
    [] at = "returned" -> 4 * MaxAttempts(cfg) + 1

Ranked == LoopRank \in 0 .. 4 * MaxAttempts(cfg) + 1

(* ... and how many steps are left once the context is done, whichever     *)
(* case of the select wakes the sleeper.                                   *)
Left == CASE at = "checked" -> 4 [] at = "fn" -> 3 [] at = "sleep" -> 2
          [] at = "top" -> 1 [] at = "returned" -> 0

(* A step brings the loop forward, but for the cancellation, which happens *)
(* once; and one after the cancellation brings it closer to the return.    *)
LoopAdvance ==
  /\ cfg' = cfg
  /\ LoopRank' > LoopRank \/ (ctx # "done" /\ ctx' = "done" /\ at' = at)
  /\ ctx = "done" => ctx' = "done" /\ Left' < Left

LEMMA IInvRanked == IInv => Ranked
<1> SUFFICES ASSUME IInv PROVE Ranked OBVIOUS
<1>1. /\ MaxAttempts(cfg) \in Nat \ {0} /\ attempt \in Nat
      /\ at \in {"top", "checked", "fn", "sleep", "returned"}
      /\ at = "top" => attempt <= MaxAttempts(cfg)
      /\ at \in {"checked", "fn", "sleep"} => attempt < MaxAttempts(cfg)
  BY MaxAttemptsType DEF IInv, Counting
<1> QED BY <1>1 DEF Ranked, LoopRank

(* The safety half of CancelReturns, and more: but for the cancellation    *)
(* the loop makes at most 4 * MaxAttempts + 1 steps; and it returns        *)
(* within four steps of the cancellation even if timers keep winning the  *)
(* select.                                                                 *)
THEOREM LoopAdvances == RetrySpec => []Ranked /\ [][LoopAdvance]_retryVars
<1>1. IInv /\ [RetryNext]_retryVars => [LoopAdvance]_retryVars
  <2> SUFFICES ASSUME IInv, RetryNext, retryVars' # retryVars PROVE LoopAdvance
    OBVIOUS
  <2>m. /\ MaxAttempts(cfg) \in Nat \ {0} /\ attempt \in Nat
        /\ at = "top" => attempt <= MaxAttempts(cfg)
        /\ at \in {"checked", "fn", "sleep"} => attempt < MaxAttempts(cfg)
    BY MaxAttemptsType DEF IInv, Counting
  <2> USE DEF LoopAdvance, LoopRank, Left, ReturnWith
  <2>1. CASE Cancel BY <2>1 DEF Cancel
  <2>c. CASE Check BY <2>c, <2>m DEF Check
  <2>2. CASE Attempt BY <2>2, <2>m DEF Attempt
  <2>3. CASE GiveUp BY <2>3, <2>m DEF GiveUp
  <2>4. CASE Exhausted BY <2>4, <2>m DEF Exhausted
  <2>5. ASSUME NEW r \in {"nil", "fnErr", "panic"}, FnEnds(r) PROVE LoopAdvance
    BY <2>5, <2>m DEF FnEnds
  <2>6. CASE FnFails
    <3>1. at = "fn" /\ cfg' = cfg /\ ctx' = ctx BY <2>6 DEF FnFails
    <3>2. \/ at' = "sleep" /\ attempt' = attempt
          \/ at' = "top" /\ attempt' = attempt + 1
      BY <2>6 DEF FnFails
    <3> QED BY <2>m, <3>1, <3>2
  <2>7. CASE TimerFires BY <2>7, <2>m DEF TimerFires
  <2>8. CASE SleepCanceled BY <2>8, <2>m DEF SleepCanceled
  <2>9. CASE Terminated BY <2>9 DEF Terminated
  <2> QED BY <2>c, <2>1, <2>2, <2>3, <2>4, <2>5, <2>6, <2>7, <2>8, <2>9 DEF RetryNext, Step
<1> QED BY <1>1, IInvRanked, InitIInv, NextIInv, PTL DEF RetrySpec

-----------------------------------------------------------------------------
(* The delays.  A power of two counts the subsets of a finite set, which   *)
(* is how its sign and its growth are known without an induction.          *)
LEMMA Powers ==
  /\ \A m \in Nat : 2^m \in Nat \ {0}
  /\ \A m, n \in Nat : m <= n => 2^m <= 2^n
<1>1. ASSUME NEW m \in Nat
      PROVE  /\ IsFiniteSet(SUBSET (1 .. m)) /\ Cardinality(SUBSET (1 .. m)) \in Nat
             /\ 2^m = Cardinality(SUBSET (1 .. m))
  <2>1. IsFiniteSet(1 .. m) /\ Cardinality(1 .. m) = m
    BY FS_Interval
  <2> QED BY <2>1, FS_SUBSET, FS_CardinalityType
<1>2. ASSUME NEW m \in Nat PROVE 2^m # 0
  <2>1. SUBSET (1 .. m) # {} OBVIOUS
  <2> QED BY <1>1, <2>1, FS_EmptySet
<1>3. ASSUME NEW m \in Nat, NEW n \in Nat, m <= n PROVE 2^m <= 2^n
  <2>1. SUBSET (1 .. m) \subseteq SUBSET (1 .. n) BY <1>3
  <2>2. Cardinality(SUBSET (1 .. m)) <= Cardinality(SUBSET (1 .. n))
    BY <1>1, <2>1, FS_Subset
  <2> QED BY <1>1, <2>2
<1> QED BY <1>1, <1>2, <1>3

(* The smallest member of a set of naturals.                               *)
LEMMA MinOfNats ==
  ASSUME NEW S \in SUBSET Nat, S # {}
  PROVE  Min(S) \in S
<1> DEFINE R == OpToRel(<, Nat)
<1>1. PICK x \in S : \A y \in S : <<y, x>> \notin R
  <2> HIDE DEF R
  <2>1. IsWellFoundedOn(R, Nat) BY NatLessThanWellFounded DEF R
  <2> QED BY <2>1, WFMin
<1>2. R = {ss \in Nat \X Nat : ss[1] < ss[2]} BY DEF OpToRel
<1> HIDE DEF R
<1>3. \A y \in S : y < x => <<y, x>> \in R BY <1>2
<1>4. ASSUME NEW y \in S PROVE x <= y
  <2>1. x \in Nat /\ y \in Nat OBVIOUS
  <2>2. ~(y < x) BY <1>1, <1>3
  <2> QED BY <2>1, <2>2
<1> QED BY <1>4 DEF Min

(* The smaller and the larger of two numbers.                              *)
LEMMA MinMaxOfTwo ==
  ASSUME NEW a \in Int, NEW b \in Int
  PROVE  /\ Min({a, b}) = IF a <= b THEN a ELSE b
         /\ Max({a, b}) = IF a >= b THEN a ELSE b
<1>1. CASE a <= b BY <1>1 DEF Min, Max
<1>2. CASE ~(a <= b) BY <1>2 DEF Min, Max
<1> QED BY <1>1, <1>2

(* Rounding a positive duration does not make it negative.                 *)
LEMMA FloatOfPositive ==
  ASSUME NEW x \in 1 .. MaxInt PROVE Float64(x) \in Nat /\ WordBits >= 2
<1>0. WordBits \in Nat \ {0} /\ MantissaBits \in Nat BY RetryAssumption
<1>1. WordBits - 1 \in Nat /\ 2 * WordBits \in Nat /\ WordBits - 1 <= 2 * WordBits
  BY <1>0
<1>2. 2^(WordBits - 1) \in Nat /\ 2^(2 * WordBits) \in Nat
      /\ 2^(WordBits - 1) <= 2^(2 * WordBits)
  BY <1>1, Powers
<1>3. x \in Nat /\ x >= 1 /\ x < 2^(WordBits - 1) BY <1>2 DEF MaxInt
<1>4. WordBits >= 2
  <2>1. WordBits = 1 => 2^(WordBits - 1) = 1 OBVIOUS
  <2> QED BY <1>0, <1>3, <2>1
<1>5. Abs(x) = x BY <1>3 DEF Abs
<1>6. BitLength(x) \in Nat
  <2> DEFINE S == {k \in 0 .. 2 * WordBits : Abs(x) < 2^k}
  <2>1. S \in SUBSET Nat BY <1>1
  <2>2. 2 * WordBits \in S BY <1>1, <1>2, <1>3, <1>5
  <2>3. Min(S) \in S BY <2>1, <2>2, MinOfNats
  <2> QED BY <2>1, <2>3 DEF BitLength
<1> DEFINE u == 2^Max({0, BitLength(x) - MantissaBits})
           q == x \div u
           up == 2 * (x % u) > u \/ (2 * (x % u) = u /\ q % 2 = 1)
<1>7. u \in Nat \ {0}
  <2>1. Max({0, BitLength(x) - MantissaBits}) \in Nat
    <3>1. BitLength(x) - MantissaBits \in Int BY <1>0, <1>6
    <3>2. Max({0, BitLength(x) - MantissaBits}) =
            IF 0 >= BitLength(x) - MantissaBits THEN 0 ELSE BitLength(x) - MantissaBits
      <4>1. 0 \in Int OBVIOUS
      <4> QED BY <3>1, <4>1, MinMaxOfTwo, Zenon
    <3> QED BY <3>1, <3>2
  <2> QED BY <2>1, Powers
<1>8. Float64(x) = u * (IF up THEN q + 1 ELSE q)
  BY <1>3, <1>5 DEF Float64
<1> HIDE DEF u
<1>9. q \in Nat BY <1>3, <1>7
<1> HIDE DEF q, up
<1>10. u * (IF up THEN q + 1 ELSE q) \in Nat BY <1>7, <1>9
<1> QED BY <1>4, <1>8, <1>10

(* The delay before jitter, where no conversion leaves the range.          *)
Growing(c, a) ==
  Float64(c.InitialDelay) * 2^(IF a <= WordBits - 2 THEN a ELSE WordBits - 2)

Smaller(a, b) == IF a <= b THEN a ELSE b

Backoff(c, a) ==
  IF c.Strategy = "exponential"
  THEN IF Growing(c, a) > Float64(c.MaxDelay) THEN c.MaxDelay
       ELSE Smaller(Growing(c, a), c.MaxDelay)
  ELSE Smaller(c.InitialDelay, c.MaxDelay)

LEMMA OrdinaryType ==
  ASSUME NEW c \in Config, Ordinary(c)
  PROVE  /\ c.InitialDelay \in 1 .. MaxInt /\ c.MaxDelay \in 1 .. MaxInt
         /\ MaxInt \in Nat /\ MinInt \in Int /\ MinInt <= 0
         /\ Float64(c.InitialDelay) \in Nat /\ Float64(c.MaxDelay) \in Nat
         /\ WordBits \in Nat /\ WordBits >= 2
<1>0. WordBits - 1 \in Nat /\ WordBits \in Nat BY RetryAssumption
<1>1. 2^(WordBits - 1) \in Nat \ {0} BY <1>0, Powers
<1>2. MaxInt \in Nat /\ MinInt \in Int /\ MinInt <= 0 BY <1>1 DEF MaxInt, MinInt
<1>3. c.InitialDelay \in 1 .. MaxInt /\ c.MaxDelay \in 1 .. MaxInt
  BY <1>2 DEF Config, Ordinary
<1> QED BY <1>0, <1>2, <1>3, FloatOfPositive

(* The backoff grows with the attempt and stays within 0 .. MaxDelay.      *)
LEMMA BackoffFacts ==
  ASSUME NEW c \in Config, Ordinary(c)
  PROVE  /\ \A a \in Nat : Growing(c, a) \in Nat /\ Backoff(c, a) \in 0 .. c.MaxDelay
         /\ \A a, b \in Nat : a <= b => Backoff(c, a) <= Backoff(c, b)
<1>0. /\ c.InitialDelay \in Nat /\ c.MaxDelay \in Nat
      /\ Float64(c.InitialDelay) \in Nat /\ Float64(c.MaxDelay) \in Nat
      /\ WordBits - 2 \in Nat
  BY OrdinaryType
<1> DEFINE e(a) == IF a <= WordBits - 2 THEN a ELSE WordBits - 2
<1>1. \A a \in Nat : e(a) \in Nat /\ 2^e(a) \in Nat BY <1>0, Powers
<1>2. \A a, b \in Nat : a <= b => e(a) <= e(b) BY <1>0
<1>3. \A a, b \in Nat : a <= b => 2^e(a) <= 2^e(b) BY <1>1, <1>2, Powers
<1>4. \A a : Growing(c, a) = Float64(c.InitialDelay) * 2^e(a) BY DEF Growing
<1> HIDE DEF e
<1>5. \A f, x, y \in Nat : f * x \in Nat /\ (x <= y => f * x <= f * y) OBVIOUS
<1>6. \A a \in Nat : Growing(c, a) \in Nat BY <1>0, <1>1, <1>4, <1>5
<1>7. \A a, b \in Nat : a <= b => Growing(c, a) <= Growing(c, b)
  BY <1>0, <1>1, <1>3, <1>4, <1>5
<1>8. \A a \in Nat : Backoff(c, a) \in 0 .. c.MaxDelay
  BY <1>0, <1>6 DEF Backoff, Smaller
<1>9. \A a, b \in Nat : a <= b => Backoff(c, a) <= Backoff(c, b)
  BY <1>0, <1>6, <1>7 DEF Backoff, Smaller
<1> QED BY <1>6, <1>8, <1>9

(* What calculateDelay may return.                                         *)
LEMMA Delays ==
  ASSUME NEW c \in Config, Ordinary(c), NEW a \in Nat, NEW d \in calculateDelay(c, a)
  PROVE  d \in 0 .. c.MaxDelay /\ (~c.Jitter => d = Backoff(c, a))
<1>0. /\ c.InitialDelay \in Nat /\ c.MaxDelay \in Nat /\ MaxInt \in Nat
      /\ MinInt \in Int /\ MinInt <= 0 /\ c.MaxDelay <= MaxInt
      /\ Float64(c.MaxDelay) \in Nat /\ Float64(c.MaxDelay) <= MaxInt
      /\ WordBits - 2 \in Int
  BY OrdinaryType DEF Ordinary
<1>1. Growing(c, a) \in Nat /\ Backoff(c, a) \in 0 .. c.MaxDelay BY BackoffFacts
<1>2. Float64(c.InitialDelay) * 2^Min({a, WordBits - 2}) = Growing(c, a)
  <2>1. Min({a, WordBits - 2}) = IF a <= WordBits - 2 THEN a ELSE WordBits - 2
    <3>1. a \in Int OBVIOUS
    <3> QED BY <1>0, <3>1, MinMaxOfTwo, Zenon
  <2> QED BY <2>1 DEF Growing
<1>3. exponential(c, a) =
        {IF Growing(c, a) > Float64(c.MaxDelay) THEN c.MaxDelay ELSE Growing(c, a)}
  <2>1. Growing(c, a) <= Float64(c.MaxDelay) => Growing(c, a) \in MinInt .. MaxInt
    BY <1>0, <1>1
  <2> QED BY <1>0, <1>1, <1>2, <2>1 DEF exponential, Duration
<1> DEFINE base == IF c.Strategy = "exponential" THEN exponential(c, a)
                                                 ELSE {c.InitialDelay}
           capped == {Min({x, c.MaxDelay}) : x \in base}
<1>4. base = {IF c.Strategy = "exponential"
              THEN IF Growing(c, a) > Float64(c.MaxDelay) THEN c.MaxDelay
                   ELSE Growing(c, a)
              ELSE c.InitialDelay}
  BY <1>3
<1>5. \A x \in Nat : Min({x, c.MaxDelay}) = Smaller(x, c.MaxDelay)
  <2>1. \A x \in Nat : x \in Int OBVIOUS
  <2>2. c.MaxDelay \in Int BY <1>0
  <2> QED BY <2>1, <2>2, MinMaxOfTwo, Zenon DEF Smaller
<1>6. capped = {Backoff(c, a)}
  <2> HIDE DEF base
  <2> QED BY <1>0, <1>1, <1>4, <1>5 DEF Backoff, Smaller
<1>7. calculateDelay(c, a) =
        UNION {IF c.Jitter /\ x > 0 THEN 0 .. x ELSE {x} : x \in capped}
  BY DEF calculateDelay
<1> HIDE DEF capped
<1>8. d \in IF c.Jitter /\ Backoff(c, a) > 0 THEN 0 .. Backoff(c, a) ELSE {Backoff(c, a)}
  BY <1>6, <1>7
<1> QED BY <1>0, <1>1, <1>8

(* The last delay is in range, and without jitter the backoff of an        *)
(* attempt that was made.                                                  *)
LastDelay ==
  Ordinary(cfg) =>
    /\ (delay = -1 /\ at # "sleep") \/ delay \in 0 .. cfg.MaxDelay
    /\ ~cfg.Jitter => delay = -1 \/ \E a \in 0 .. attempt : delay = Backoff(cfg, a)

DelayInv == IInv /\ LastDelay

LEMMA InitDelayInv == RetryInit => DelayInv
BY InitIInv DEF RetryInit, DelayInv, LastDelay

(* The delay of a failed attempt.                                          *)
LEMMA NewDelay ==
  ASSUME DelayInv, Ordinary(cfg), FnFails, at' = "sleep"
  PROVE  /\ attempt' = attempt
         /\ delay' \in 0 .. cfg.MaxDelay
         /\ ~cfg.Jitter => delay' = Backoff(cfg, attempt)
<1>1. cfg \in Config /\ attempt \in Nat
  BY RetryAssumption DEF DelayInv, IInv, Counting
<1>2. attempt' = attempt /\ delay' \in calculateDelay(cfg, attempt)
  BY DEF FnFails
<1> QED BY <1>1, <1>2, Delays

LEMMA NextDelayInv == DelayInv /\ [RetryNext]_retryVars => DelayInv'
<1> SUFFICES ASSUME DelayInv, [RetryNext]_retryVars PROVE DelayInv' OBVIOUS
<1>0. IInv' BY NextIInv DEF DelayInv
<1>1. cfg' = cfg /\ attempt \in Nat /\ attempt' \in Nat /\ attempt <= attempt'
  BY DEF DelayInv, IInv, Counting, RetryNext, Step, Cancel, Check, Attempt, GiveUp, Exhausted, FnEnds,
         FnFails, TimerFires, SleepCanceled, Terminated, ReturnWith, retryVars
<1>2. CASE FnFails
  <2> SUFFICES ASSUME Ordinary(cfg) PROVE LastDelay'
    BY <1>0, <1>1 DEF DelayInv, LastDelay
  <2>1. CASE at' = "sleep"
    <3>1. /\ attempt' = attempt /\ delay' \in 0 .. cfg.MaxDelay
          /\ ~cfg.Jitter => delay' = Backoff(cfg, attempt)
      BY <1>2, <2>1, NewDelay
    <3> QED BY <1>1, <3>1 DEF LastDelay
  <2>2. CASE at' # "sleep"
    <3>1. delay' = delay /\ attempt' = attempt + 1 BY <1>2, <2>2 DEF FnFails
    <3> QED BY <1>1, <2>2, <3>1 DEF DelayInv, LastDelay
  <2> QED BY <2>1, <2>2
<1>3. CASE ~FnFails
  <2>1. delay' = delay /\ (at' = "sleep" => at = "sleep")
    BY <1>3
    DEF RetryNext, Step, Cancel, Check, Attempt, GiveUp, Exhausted, FnEnds, TimerFires,
        SleepCanceled, Terminated, ReturnWith, retryVars
  <2> QED BY <1>0, <1>1, <2>1 DEF DelayInv, LastDelay
<1> QED BY <1>2, <1>3

(* A delay changes in one way only.                                        *)
LEMMA DelayChanges ==
  ASSUME DelayInv, [RetryNext]_retryVars, delay' # delay
  PROVE  FnFails /\ at' = "sleep" /\ delay' \in calculateDelay(cfg, attempt)
BY DEF RetryNext, Step, Cancel, Check, Attempt, GiveUp, Exhausted, FnEnds, FnFails,
       TimerFires, SleepCanceled, Terminated, ReturnWith, retryVars

(* calculateDelay never exceeds MaxDelay, whatever the configuration and   *)
(* whatever a conversion out of range yields.                              *)
LEMMA DelaysCapped ==
  ASSUME NEW c \in Config, NEW a \in Nat, NEW d \in calculateDelay(c, a)
  PROVE  d \in Int /\ d <= c.MaxDelay
<1>1. MaxInt \in Int /\ MinInt \in Int
  <2>1. WordBits - 1 \in Nat BY RetryAssumption
  <2>2. 2^(WordBits - 1) \in Nat BY <2>1, Powers
  <2> QED BY <2>2 DEF MaxInt, MinInt
<1>2. c.InitialDelay \in Int /\ c.MaxDelay \in Int BY <1>1 DEF Config
<1> DEFINE calc == Float64(c.InitialDelay) * 2^Min({a, WordBits - 2})
           base == IF c.Strategy = "exponential" THEN exponential(c, a)
                                                 ELSE {c.InitialDelay}
           capped == {Min({x, c.MaxDelay}) : x \in base}
<1>3. exponential(c, a) \subseteq Int
  <2>1. exponential(c, a) =
          IF calc > Float64(c.MaxDelay) THEN {c.MaxDelay} ELSE Duration(calc)
    BY DEF exponential
  <2>2. Duration(calc) \subseteq Int
    <3> HIDE DEF calc
    <3> QED BY <1>1 DEF Duration
  <2> HIDE DEF calc
  <2> QED BY <1>2, <2>1, <2>2
<1>4. \A x \in base : Min({x, c.MaxDelay}) \in Int /\ Min({x, c.MaxDelay}) <= c.MaxDelay
  <2>1. \A x \in base : x \in Int BY <1>2, <1>3
  <2>2. \A x \in Int : Min({x, c.MaxDelay}) = Smaller(x, c.MaxDelay)
    BY <1>2, MinMaxOfTwo, Zenon DEF Smaller
  <2> HIDE DEF base
  <2> QED BY <1>2, <2>1, <2>2 DEF Smaller
<1>5. calculateDelay(c, a) =
        UNION {IF c.Jitter /\ x > 0 THEN 0 .. x ELSE {x} : x \in capped}
  BY DEF calculateDelay
<1>6. \A x \in capped : x \in Int /\ x <= c.MaxDelay BY <1>4
<1> HIDE DEF capped
<1>7. PICK x \in capped : d \in IF c.Jitter /\ x > 0 THEN 0 .. x ELSE {x} BY <1>5
<1> QED BY <1>2, <1>6, <1>7

(* Every sleep is at most MaxDelay, for every configuration, attempt       *)
(* number, word width and mantissa; where the durations are ordinary it is *)
(* not negative, and without jitter the backoff never gets shorter         *)
(* (calculateDelay).                                                       *)
THEOREM BackoffIsSound == RetrySpec => BackoffSound
<1>1. DelayInv /\ [RetryNext]_retryVars => [SoundDelay]_retryVars
  <2> SUFFICES ASSUME DelayInv, [RetryNext]_retryVars PROVE SoundDelay
    OBVIOUS
  <2>0. cfg \in Config /\ attempt \in Nat
    BY RetryAssumption DEF DelayInv, IInv, Counting
  <2>1. delay' # delay => delay' <= cfg.MaxDelay
    BY <2>0, DelayChanges, DelaysCapped
  <2>2. delay' # delay /\ Ordinary(cfg) => delay' >= 0
    <3> SUFFICES ASSUME delay' # delay, Ordinary(cfg) PROVE delay' >= 0 OBVIOUS
    <3>1. delay' \in 0 .. cfg.MaxDelay BY DelayChanges, NewDelay
    <3> QED BY <3>1
  <2>3. ASSUME ~cfg.Jitter, Ordinary(cfg) PROVE delay' >= delay
    <3> USE <2>3
    <3>1. delay = -1 \/ \E a \in 0 .. attempt : delay = Backoff(cfg, a)
      BY DEF DelayInv, LastDelay
    <3>2. delay \in Int BY <2>0, <3>1, BackoffFacts
    <3>3. CASE delay' = delay BY <3>2, <3>3
    <3>4. CASE delay' # delay
      <4>1. delay' = Backoff(cfg, attempt) BY <3>4, DelayChanges, NewDelay
      <4>2. \A a \in 0 .. attempt : Backoff(cfg, a) <= Backoff(cfg, attempt)
        BY <2>0, BackoffFacts
      <4>3. Backoff(cfg, attempt) \in Nat BY <2>0, BackoffFacts, OrdinaryType
      <4> QED BY <3>1, <4>1, <4>2, <4>3
    <3> QED BY <3>3, <3>4
  <2> QED BY <2>1, <2>2, <2>3 DEF SoundDelay
<1> QED BY <1>1, InitDelayInv, NextDelayInv, PTL DEF RetrySpec, BackoffSound
=============================================================================
