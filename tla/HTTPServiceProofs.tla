-------------------------- MODULE HTTPServiceProofs --------------------------
(***************************************************************************)
(* Proofs about the HTTP service, for any number of requests and any       *)
(* options: the return of GracefulShutdown, the middleware chain, and the  *)
(* two together.                                                           *)
(***************************************************************************)
EXTENDS HTTPService, FiniteSetTheorems, SequenceTheorems, TLAPS

-----------------------------------------------------------------------------
(* GracefulShutdown.                                                       *)

ShutdownType ==
  /\ at \in {"start", "select", "chosen", "shutdown", "returned", "killed"}
  /\ ret \in {"none", "nil", "err", "deadline"}
  /\ serverErr \in {<<>>, <<"err">>, <<"closed">>}
  /\ listener \in {"none", "open", "closed"}
  /\ inShutdown \in BOOLEAN
  /\ signalled \in BOOLEAN /\ foreign \in BOOLEAN /\ crashed \in BOOLEAN
  /\ request \in [Requests -> {"none", "new", "active", "done"}]
  /\ idle \in Nat

(* Before the return: the server's end is buffered once, and it is         *)
(* http.ErrServerClosed only if a Shutdown was called, which this call     *)
(* does only after a signal.                                               *)
BeforeReturn ==
  /\ ret # "none" => at = "returned"
  /\ serverErr # <<>> => listener = "closed"
  /\ serverErr = <<"closed">> => inShutdown /\ ~crashed
  /\ serverErr = <<"err">> => crashed
  /\ crashed => listener = "closed"
  /\ quit # <<>> \/ at \in {"chosen", "shutdown"} => signalled
  /\ at = "shutdown" => inShutdown
  /\ inShutdown => foreign \/ at \in {"shutdown", "returned"}

(* After it: the server accepts nothing any more, whichever way the call   *)
(* returned.  Without a signal it was the end of the server, so it cannot  *)
(* fail later; and an own Shutdown leaves no connection idle.              *)
AfterReturn ==
  at = "returned" =>
    /\ inShutdown \/ listener = "closed"
    /\ ret = "nil" => inShutdown
    /\ ret = "deadline" => inShutdown /\ idle = 0
    /\ ~signalled => listener = "closed"

ShutdownInv == ShutdownType /\ BeforeReturn /\ AfterReturn /\ ReturnTruthful

LEMMA ShutdownInitInv == Init => ShutdownInv
<1> SUFFICES ASSUME Init PROVE ShutdownInv OBVIOUS
<1>1. ShutdownType BY DEF Init, ShutdownType
<1>2. serverErr # <<"closed">> /\ serverErr # <<"err">> BY DEF Init
<1>3. BeforeReturn /\ AfterReturn /\ ReturnTruthful
  BY <1>2
  DEF Init, BeforeReturn, AfterReturn, ReturnTruthful, NilMeansDrained, CrashReported
<1> QED BY <1>1, <1>3 DEF ShutdownInv

LEMMA ShutdownNextInv == ShutdownInv /\ [Next]_vars => ShutdownInv'
<1> SUFFICES ASSUME ShutdownInv, [Next]_vars PROVE ShutdownInv' OBVIOUS
<1> USE DEF ShutdownInv, ShutdownType, BeforeReturn, AfterReturn,
            ReturnTruthful, NilMeansDrained, CrashReported, Pending, history, conns
<1>1. CASE ServeStart BY <1>1 DEF ServeStart
<1>2. ASSUME NEW e \in {"err", "closed"}, ServeEnd(e) PROVE ShutdownInv'
  <2>1. serverErr = <<>> /\ Append(<<>>, e) = <<e>> BY <1>2 DEF ServeEnd
  <2>2. serverErr' = <<e>> BY <1>2, <2>1 DEF ServeEnd
  <2>3. <<"err">> # <<"closed">> /\ <<e>> # <<>> OBVIOUS
  <2>4. /\ ShutdownType' /\ crashed' = (e = "err") /\ listener' = "closed"
        /\ listener # "closed" /\ ~crashed
        /\ e = "closed" => inShutdown
        /\ UNCHANGED <<at, ret, quit, inShutdown, request, idle, signalled, foreign>>
    BY <1>2, <2>2 DEF ServeEnd
  <2>5. BeforeReturn'
    <3>1. CASE e = "err" BY <2>2, <2>3, <2>4, <3>1
    <3>2. CASE e = "closed" BY <2>2, <2>3, <2>4, <3>2
    <3> QED BY <3>1, <3>2
  <2>6. AfterReturn' /\ NilMeansDrained' BY <2>4
  <2>7. CrashReported' BY <2>4
  <2> QED BY <2>4, <2>5, <2>6, <2>7
<1>3. ASSUME NEW r \in Requests, Accept(r) PROVE ShutdownInv'
  BY <1>3 DEF Accept
<1>4. ASSUME NEW r \in Requests, Arrive(r) PROVE ShutdownInv'
  BY <1>4 DEF Arrive
<1>5. ASSUME NEW r \in Requests, Reuse(r) PROVE ShutdownInv'
  BY <1>5 DEF Reuse
<1>6. CASE Drop BY <1>6 DEF Drop
<1>7. ASSUME NEW r \in Requests, Finish(r) PROVE ShutdownInv'
  BY <1>7 DEF Finish
<1>8. CASE OtherShutdown BY <1>8 DEF OtherShutdown
<1>9. CASE Signal BY <1>9 DEF Signal, Running
<1>10. CASE Deadline BY <1>10 DEF Deadline
<1>11. CASE Notify BY <1>11 DEF Notify
<1>12. CASE SelectServerErr
  <2>1. PICK e \in {"err", "closed"} : serverErr = <<e>>
    BY <1>12 DEF SelectServerErr
  <2>2. Tail(serverErr) = <<>> /\ Head(serverErr) = e
    BY <2>1
  <2>3. <<"err">> # <<"closed">> /\ <<e>> # <<>> OBVIOUS
  <2>4. /\ at = "select" /\ at' = "returned" /\ ret = "none"
        /\ ret' = IF e = "closed" THEN "nil" ELSE "err"
        /\ serverErr' = <<>> /\ listener = "closed"
        /\ UNCHANGED <<quit, listener, inShutdown, request, idle, signalled, foreign, crashed>>
    BY <1>12, <2>1, <2>2, <2>3 DEF SelectServerErr
  <2>5. IF e = "closed" THEN inShutdown /\ foreign /\ ~crashed ELSE crashed
    BY <2>1, <2>4
  <2>6. serverErr' # <<"err">> /\ serverErr' # <<"closed">> BY <2>4
  <2>7. ShutdownType' BY <2>4
  <2>8. BeforeReturn' /\ AfterReturn' BY <2>4, <2>5, <2>6
  <2>9. NilMeansDrained' /\ CrashReported' BY <2>4, <2>5
  <2> QED BY <2>7, <2>8, <2>9
<1>13. CASE SelectQuit BY <1>13 DEF SelectQuit
<1>14. CASE Shutdown BY <1>14 DEF Shutdown
<1>15. CASE ShutdownReturns
  <2>1. /\ at = "shutdown" /\ at' = "returned" /\ ret' \in {"nil", "deadline"}
        /\ ret' = "nil" => Pending = {}
        /\ idle' = 0 /\ inShutdown /\ signalled
        /\ UNCHANGED <<quit, serverErr, listener, inShutdown, request, signalled, foreign,
                       crashed>>
    BY <1>15 DEF ShutdownReturns
  <2>2. ShutdownType' /\ AfterReturn' BY <2>1
  <2>3. BeforeReturn' BY <2>1
  <2>4. NilMeansDrained' /\ CrashReported' BY <2>1
  <2> QED BY <2>2, <2>3, <2>4
<1>16. CASE UNCHANGED vars BY <1>16 DEF vars
<1> QED
  BY <1>1, <1>2, <1>3, <1>4, <1>5, <1>6, <1>7, <1>8, <1>9, <1>10, <1>11,
     <1>12, <1>13, <1>14, <1>15, <1>16
  DEF Next, Caller

(* What the call returns is true of the server: a nil of its own Shutdown  *)
(* means drained, for any number of requests and connections; the server's *)
(* error means that it failed; and a failure is returned if no signal came.*)
THEOREM ReturnsTruthful == Spec => []ReturnTruthful
<1>1. ShutdownInv => ReturnTruthful BY DEF ShutdownInv
<1> QED BY <1>1, ShutdownInitInv, ShutdownNextInv, PTL DEF Spec

(* After the return no connection is accepted, after the deadline no idle  *)
(* connection is used again, and after a nil no request moves.             *)
THEOREM NothingTaken == Spec => NothingTakenAfterReturn
<1>1. ShutdownInv /\ [Next]_vars => [AfterwardsStep]_vars
  <2> SUFFICES ASSUME ShutdownInv, Next, at = "returned" PROVE AfterwardsStep
    BY DEF AfterwardsStep
  <2> USE DEF AfterwardsStep, ShutdownInv, ShutdownType
  <2>1. ASSUME NEW r \in Requests, Accept(r) PROVE AfterwardsStep
    BY <2>1 DEF AfterReturn, Accept
  <2>2. ASSUME NEW r \in Requests, Arrive(r) PROVE AfterwardsStep
    BY <2>2 DEF ReturnTruthful, NilMeansDrained, Pending, Arrive
  <2>3. ASSUME NEW r \in Requests, Reuse(r) PROVE AfterwardsStep
    BY <2>3 DEF AfterReturn, ReturnTruthful, NilMeansDrained, Reuse
  <2>4. ASSUME NEW r \in Requests, Finish(r) PROVE AfterwardsStep
    BY <2>4 DEF ReturnTruthful, NilMeansDrained, Pending, Finish
  <2>5. CASE Drop
    BY <2>5 DEF ReturnTruthful, NilMeansDrained, Pending, Drop
  <2> QED
    BY <2>1, <2>2, <2>3, <2>4, <2>5
    DEF Next, Caller, ServeStart, ServeEnd, OtherShutdown, Signal, Deadline, conns,
        Notify, SelectServerErr, SelectQuit, Shutdown, ShutdownReturns
<1> QED BY <1>1, ShutdownInitInv, ShutdownNextInv, PTL
        DEF Spec, NothingTakenAfterReturn

(* The safety half of SignalEndsCall.  A signal that was delivered has     *)
(* been acted on, or is still in the channel's buffer for the select.      *)
SignalHeard ==
  signalled => \/ at = "select" /\ quit # <<>>
               \/ at \in {"chosen", "shutdown", "returned"}

SignalInv ==
  /\ SignalHeard
  /\ at = "start" => ~signalled
  /\ at \in {"start", "select", "chosen", "shutdown", "returned", "killed"}
  /\ expired \in BOOLEAN /\ (expired => at \in {"shutdown", "returned"})

(* How far the caller has come; the deadline is one of its steps.          *)
CallerRank ==
  CASE at = "start"    -> 0
    [] at = "select"   -> 1
    [] at = "chosen"   -> 2
    [] at = "shutdown" -> IF expired THEN 4 ELSE 3
    [] at \in {"returned", "killed"} -> 5

(* Every step of the caller and the expiry of its context take it forward, *)
(* and nothing that the server, its requests or further signals do takes   *)
(* it back.                                                                *)
CallerAdvance ==
  IF <<at, expired>>' = <<at, expired>> THEN CallerRank' = CallerRank
                                        ELSE CallerRank' > CallerRank

LEMMA SignalInitInv == Init => SignalInv
BY DEF Init, SignalInv, SignalHeard

LEMMA SignalNextInv == SignalInv /\ [Next]_vars => SignalInv' /\ CallerAdvance
<1> SUFFICES ASSUME SignalInv, [Next]_vars PROVE SignalInv' /\ CallerAdvance
  OBVIOUS
<1> USE DEF SignalInv, SignalHeard, CallerAdvance, CallerRank, history
<1>1. ASSUME ServeStart \/ OtherShutdown \/ (\E e \in {"err", "closed"} : ServeEnd(e))
                        \/ (\E r \in Requests :
                               Accept(r) \/ Arrive(r) \/ Reuse(r) \/ Finish(r))
                        \/ Drop
      PROVE  UNCHANGED <<at, quit, expired, signalled>>
  BY <1>1 DEF ServeStart, OtherShutdown, ServeEnd, Accept, Arrive, Reuse, Finish, Drop
<1>2. CASE UNCHANGED <<at, quit, expired, signalled>> BY <1>2
<1>3. CASE Signal
  <2>1. <<"signal">> # <<>> OBVIOUS
  <2> QED BY <1>3, <2>1 DEF Signal, Running
<1>4. CASE Deadline BY <1>4 DEF Deadline
<1>5. CASE Notify BY <1>5 DEF Notify
<1>6. CASE SelectServerErr BY <1>6 DEF SelectServerErr
<1>7. CASE SelectQuit BY <1>7 DEF SelectQuit
<1>8. CASE Shutdown BY <1>8 DEF Shutdown
<1>9. CASE ShutdownReturns BY <1>9 DEF ShutdownReturns
<1>10. CASE UNCHANGED vars BY <1>2, <1>10 DEF vars
<1> QED BY <1>1, <1>2, <1>3, <1>4, <1>5, <1>6, <1>7, <1>8, <1>9, <1>10
        DEF Next, Caller

(* No delivered signal is lost, wherever it finds the caller and however   *)
(* many others are dropped because the channel is full; and the caller is  *)
(* at most five steps from its return.                                     *)
THEOREM SignalNotLost == Spec => []SignalHeard /\ [][CallerAdvance]_vars
<1>1. SignalInv => SignalHeard BY DEF SignalInv
<1> QED BY <1>1, SignalInitInv, SignalNextInv, PTL DEF Spec

-----------------------------------------------------------------------------
(* The chain that NewRouter builds.                                        *)

(* There is a limiter, built-in or custom.                                 *)
Limited == cfg.RateLimiter # "nil" \/ cfg.RateLimit > 0

(* The index of the first frame that is a step of its own.                 *)
First == Len(Outer) + 1

Frames == {"otel", "requestID", "realIP", "recoverer", "logger"} \cup Stops

(* r.Use puts one more frame at the end, or none.                          *)
LEMMA UseOne ==
  ASSUME NEW s \in Seq(Frames), NEW x \in Frames
  PROVE  LET t == s \o <<x>> IN
         /\ t \in Seq(Frames) /\ Len(s) \in Nat /\ Len(t) = Len(s) + 1
         /\ \A k \in 1 .. Len(s) : t[k] = s[k]
         /\ t[Len(s) + 1] = x
<1>1. <<x>> \in Seq(Frames) /\ Len(<<x>>) = 1 /\ <<x>>[1] = x OBVIOUS
<1>2. Len(s) \in Nat OBVIOUS
<1> QED BY <1>1, <1>2, ConcatProperties

LEMMA UseNone == \A s \in Seq(Frames) : s \o <<>> = s
BY ConcatEmptySeq

LEMMA OuterFacts ==
  /\ Outer \in Seq(Frames) /\ Len(Outer) \in {4, 5}
  /\ \A k \in 1 .. Len(Outer) : Outer[k] \notin Stops
  /\ Outer[4] = "recoverer"
<1> DEFINE a == <<"otel", "requestID", "realIP", "recoverer">>
<1>1. a \in Seq(Frames) BY DEF Frames
<1>2. Len(a) = 4 /\ a[4] = "recoverer" OBVIOUS
<1>3. \A k \in 1 .. 4 : a[k] \notin Stops
  BY DEF Stops
<1>4. Outer = a \o (IF cfg.EnableLogger THEN <<"logger">> ELSE <<>>) BY DEF Outer
<1> HIDE DEF a
<1>5. CASE cfg.EnableLogger
  <2>1. Outer = a \o <<"logger">> BY <1>4, <1>5
  <2>2. "logger" \in Frames /\ "logger" \notin Stops BY DEF Frames, Stops
  <2>3. /\ Outer \in Seq(Frames) /\ Len(Outer) = 5 /\ Outer[5] = "logger"
        /\ \A k \in 1 .. 4 : Outer[k] = a[k]
    <3>1. /\ Outer \in Seq(Frames) /\ Len(Outer) = Len(a) + 1 /\ Outer[Len(a) + 1] = "logger"
          /\ \A k \in 1 .. Len(a) : Outer[k] = a[k]
      BY <1>1, <2>1, <2>2, UseOne
    <3> QED BY <1>2, <3>1
  <2> QED BY <1>2, <1>3, <2>2, <2>3
<1>6. CASE ~cfg.EnableLogger
  <2>1. Outer = a BY <1>1, <1>4, <1>6, UseNone
  <2> QED BY <1>1, <1>2, <1>3, <2>1
<1> QED BY <1>5, <1>6

(* The order of the frames: what comes before First only reacts to panics, *)
(* among it the Recoverer; then the security headers, the limiter, CORS    *)
(* and the routes, of which the middle two may be absent.                  *)
LEMMA ChainFacts ==
  /\ First \in {5, 6} /\ Len(Chain) \in Nat /\ First < Len(Chain)
  /\ Chain[First] = "secure"
  /\ \A k \in 1 .. First - 1 : Chain[k] \notin Stops
  /\ Chain[4] = "recoverer"
  /\ \A k \in First + 1 .. Len(Chain) - 1 :
       \/ Chain[k] = "limit" /\ k = First + 1
       \/ Chain[k] = "cors" /\ k = Len(Chain) - 1
  /\ Limited => First + 1 < Len(Chain) /\ Chain[First + 1] = "limit"
  /\ Chain[Len(Chain)] = "mux"
<1> DEFINE c1 == Outer \o <<"secure">>
           c2 == c1 \o Limit
           c3 == c2 \o Cors
<1>0. {"secure", "limit", "cors", "mux"} \subseteq Frames BY DEF Frames, Stops
<1>1. /\ c1 \in Seq(Frames) /\ Len(c1) = First
      /\ c1[First] = "secure" /\ \A k \in 1 .. First - 1 : c1[k] = Outer[k]
  BY <1>0, OuterFacts, UseOne DEF First
<1>f. First \in {5, 6} BY OuterFacts DEF First
<1>c. Chain = c3 \o <<"mux">> BY DEF Chain
<1> HIDE DEF c1
<1>2. /\ c2 \in Seq(Frames) /\ Len(c2) = First + IF Limited THEN 1 ELSE 0
      /\ \A k \in 1 .. First : c2[k] = c1[k]
      /\ Limited => c2[First + 1] = "limit"
  <2>1. CASE Limited
    <3>1. c2 = c1 \o <<"limit">> BY <2>1 DEF Limit, Limited
    <3> HIDE DEF c2
    <3> QED BY <1>0, <1>1, <2>1, <3>1, UseOne
  <2>2. CASE ~Limited
    <3>1. c2 = c1 BY <1>1, <2>2, UseNone DEF Limit, Limited
    <3> HIDE DEF c2
    <3> QED BY <1>1, <1>f, <2>2, <3>1
  <2> QED BY <2>1, <2>2
<1> HIDE DEF c2
<1>3. /\ c3 \in Seq(Frames) /\ Len(c3) \in {Len(c2), Len(c2) + 1}
      /\ \A k \in 1 .. Len(c2) : c3[k] = c2[k]
      /\ Len(c3) = Len(c2) + 1 => c3[Len(c2) + 1] = "cors"
  <2>0. Len(c2) \in Nat BY <1>2
  <2>1. CASE cfg.AllowedOrigins # {}
    <3>1. c3 = c2 \o <<"cors">> BY <2>1 DEF Cors
    <3> HIDE DEF c3
    <3> QED BY <1>0, <1>2, <3>1, UseOne
  <2>2. CASE cfg.AllowedOrigins = {}
    <3>1. c3 = c2 BY <1>2, <2>2, UseNone DEF Cors
    <3> HIDE DEF c3
    <3> QED BY <1>2, <2>0, <3>1
  <2> QED BY <2>1, <2>2
<1> HIDE DEF c3
<1>4. /\ Len(Chain) = Len(c3) + 1
      /\ \A k \in 1 .. Len(c3) : Chain[k] = c3[k]
      /\ Chain[Len(Chain)] = "mux"
  BY <1>0, <1>3, <1>c, UseOne
<1>5. /\ Len(c2) \in {First, First + 1} /\ Len(c3) \in Nat
      /\ \A k \in 1 .. First : Chain[k] = c1[k]
      /\ \A k \in 1 .. Len(c2) : Chain[k] = c2[k]
  BY <1>f, <1>2, <1>3, <1>4
<1>6. \A k \in 1 .. First - 1 : Chain[k] \notin Stops
  BY <1>f, <1>1, <1>5, OuterFacts DEF First
<1>7. Chain[First] = "secure" /\ Chain[4] = "recoverer"
  BY <1>f, <1>1, <1>5, OuterFacts DEF First
<1>8. Limited => First + 1 < Len(Chain) /\ Chain[First + 1] = "limit"
  BY <1>f, <1>2, <1>3, <1>4, <1>5
<1>9. ASSUME NEW k \in First + 1 .. Len(Chain) - 1
      PROVE  \/ Chain[k] = "limit" /\ k = First + 1
             \/ Chain[k] = "cors" /\ k = Len(Chain) - 1
  BY <1>f, <1>2, <1>3, <1>4, <1>5
<1> QED BY <1>f, <1>2, <1>3, <1>4, <1>5, <1>6, <1>7, <1>8, <1>9

(* From there on the frames are passed one by one.                         *)
LEMMA NextFrameFacts ==
  /\ NextFrame(0) = First
  /\ \A n \in First .. Len(Chain) - 1 : NextFrame(n) = n + 1
<1>1. \A k \in First .. Len(Chain) : Chain[k] \in Stops
  BY ChainFacts DEF Stops
<1>2. NextFrame(0) = First
  <2>1. \A j \in 1 .. Len(Chain) :
          (Chain[j] \in Stops /\ \A k \in 1 .. j - 1 : Chain[k] \notin Stops) <=> j = First
    BY <1>1, ChainFacts
  <2> QED BY <2>1, ChainFacts DEF NextFrame
<1>3. ASSUME NEW n \in First .. Len(Chain) - 1 PROVE NextFrame(n) = n + 1
  <2>1. \A j \in n + 1 .. Len(Chain) :
          (Chain[j] \in Stops /\ \A k \in n + 1 .. j - 1 : Chain[k] \notin Stops) <=> j = n + 1
    BY <1>1, ChainFacts
  <2> QED BY <2>1, ChainFacts DEF NextFrame
<1> QED BY <1>2, <1>3

-----------------------------------------------------------------------------
(* Requests in the chain.                                                  *)

HeaderNames == {"security", "retryAfter", "allowAny", "allowOrigin",
                "credentials", "vary", "json"}

RouterType ==
  /\ cfg.RateLimit \in Int /\ cfg.RateBurst \in Int
  /\ tokens \in Nat /\ refills \in Nat
  /\ frame \in [Requests -> {0} \cup First .. Len(Chain)]
  /\ kind \in [Requests -> Kinds]
  /\ status \in [Requests -> Int]
  /\ headers \in [Requests -> SUBSET HeaderNames]
  /\ beyond \in SUBSET Requests

(* A request has no answer while it is in the chain, past the first frame  *)
(* it carries the headers, and past the limiter it is known to be so.      *)
Underway ==
  \A r \in Requests :
    /\ frame[r] > 0 => status[r] = 0
    /\ frame[r] > First => "security" \in headers[r]
    /\ frame[r] = 0 /\ status[r] = 0 => r \notin beyond
    /\ Bucket /\ frame[r] > First + 1 => r \in beyond

(* Tokens are not made up: a request that passes takes one away.           *)
TokensSpent == Bucket => Cardinality(Passed) + tokens <= Burst + refills

RouterInv == RouterType /\ Underway /\ AnswersGuarded /\ TokensSpent

(* The frames by their index.                                              *)
LEMMA Positions ==
  ASSUME RouterType, NEW r \in Requests
  PROVE  /\ At(r, "secure") <=> frame[r] = First
         /\ At(r, "limit") => frame[r] = First + 1 /\ frame[r] < Len(Chain)
         /\ At(r, "cors") => frame[r] > First /\ frame[r] = Len(Chain) - 1
         /\ At(r, "mux") <=> frame[r] = Len(Chain)
         /\ Limited => (At(r, "limit") <=> frame[r] = First + 1)
         /\ Limited => (At(r, "cors") \/ At(r, "mux") <=> frame[r] > First + 1)
<1>1. frame[r] \in {0} \cup First .. Len(Chain) /\ First \in {5, 6} /\ Len(Chain) \in Nat
  BY ChainFacts DEF RouterType
<1>2. CASE frame[r] = 0
  BY <1>1, <1>2, ChainFacts DEF At
<1>3. CASE frame[r] = First
  BY <1>1, <1>3, ChainFacts DEF At
<1>4. CASE frame[r] = Len(Chain)
  BY <1>1, <1>4, ChainFacts DEF At
<1>5. CASE frame[r] \in First + 1 .. Len(Chain) - 1
  BY <1>1, <1>5, ChainFacts DEF At
<1> QED BY <1>1, <1>2, <1>3, <1>4, <1>5

LEMMA BucketFacts ==
  ASSUME RouterType
  PROVE  Bucket => Limited /\ Burst \in Nat
BY DEF RouterType, Bucket, Limited, Burst

PassedFinite ==
  /\ Passed \subseteq Requests
  /\ IsFiniteSet(Passed) /\ Cardinality(Passed) \in Nat

LEMMA PassedFacts == RouterType => PassedFinite
<1> SUFFICES ASSUME RouterType PROVE PassedFinite OBVIOUS
<1>1. Passed \in SUBSET Requests BY DEF Passed, RouterType
<1>2. IsFiniteSet(Passed) BY <1>1, RequestsFinite, FS_Subset
<1> QED BY <1>1, <1>2, FS_CardinalityType DEF PassedFinite

-----------------------------------------------------------------------------
(* What a step may do to the request that takes it.                        *)

Others(r) ==
  \A q \in Requests : q # r =>
    /\ frame'[q] = frame[q] /\ kind'[q] = kind[q]
    /\ status'[q] = status[q] /\ headers'[q] = headers[q]
    /\ q \in beyond' <=> q \in beyond

(* It comes in;                                                            *)
Entered(r) ==
  /\ frame[r] = 0 /\ status[r] = 0
  /\ frame'[r] = First /\ status'[r] = 0
  /\ tokens' = tokens /\ beyond' = beyond

(* it goes on to the next frame, past the limiter with a token;            *)
Passes(r) ==
  /\ frame[r] \in First .. Len(Chain) - 1
  /\ frame'[r] = frame[r] + 1 /\ status'[r] = status[r] /\ kind'[r] = kind[r]
  /\ headers[r] \subseteq headers'[r]
  /\ frame[r] = First => "security" \in headers'[r]
  /\ IF Bucket /\ frame[r] = First + 1 /\ kind[r].path # "/metrics"
     THEN tokens > 0 /\ tokens' = tokens - 1
     ELSE tokens' = tokens
  /\ Bucket => (r \in beyond' <=> r \in beyond \/ frame[r] > First)

(* or it is answered.                                                      *)
Answered(r) ==
  /\ frame[r] >= First
  /\ frame'[r] = 0 /\ kind'[r] = kind[r] /\ status'[r] # 0
  /\ tokens' = tokens /\ beyond' = beyond
  /\ headers[r] \subseteq headers'[r]
  /\ frame[r] = First => status'[r] = 499

Moved(r) == Others(r) /\ (Entered(r) \/ Passes(r) \/ Answered(r))

(* The parts of the chain depend on the configuration alone.               *)
LEMMA ConfigFixed ==
  ASSUME cfg' = cfg
  PROVE  /\ Chain' = Chain /\ First' = First
         /\ Bucket' = Bucket /\ Burst' = Burst
BY DEF Chain, Outer, Limit, Cors, First, Bucket, Burst

(* Those steps preserve the invariant.                                     *)
LEMMA MovedInv ==
  ASSUME RouterInv, RouterType', cfg' = cfg, refills' = refills,
         NEW r \in Requests, Moved(r)
  PROVE  RouterInv'
<1> USE DEF RouterInv
<1>0. /\ First' = First /\ Bucket' = Bucket /\ Burst' = Burst
      /\ First \in {5, 6} /\ Len(Chain) \in Nat
  BY ConfigFixed, ChainFacts
<1>1. Underway'
  BY <1>0 DEF Underway, Moved, Others, Entered, Passes, Answered, RouterType
<1>2. AnswersGuarded'
  <2> SUFFICES ASSUME NEW q \in Requests, status'[q] > 0, status'[q] # 499
               PROVE  "security" \in headers'[q]
    BY DEF AnswersGuarded
  <2>1. CASE q # r
    BY <2>1 DEF AnswersGuarded, Moved, Others
  <2>2. CASE q = r /\ Entered(r)
    BY <2>2 DEF Entered
  <2>3. CASE q = r /\ Passes(r)
    BY <1>0, <2>3 DEF Passes, Underway
  <2>4. CASE q = r /\ Answered(r)
    <3>1. frame[r] # First BY <2>4 DEF Answered
    <3>2. frame[r] > First BY <1>0, <2>4, <3>1 DEF Answered, RouterType
    <3> QED BY <2>4, <3>2 DEF Answered, Underway
  <2> QED BY <2>1, <2>2, <2>3, <2>4 DEF Moved
<1>3. TokensSpent'
  <2> SUFFICES ASSUME Bucket
               PROVE  Cardinality(Passed') + tokens' <= Burst + refills
    BY <1>0 DEF TokensSpent
  <2>1. /\ Passed \subseteq Requests
        /\ IsFiniteSet(Passed) /\ Cardinality(Passed) \in Nat
    BY PassedFacts DEF PassedFinite
  <2>2. /\ Passed' \subseteq Requests
        /\ IsFiniteSet(Passed') /\ Cardinality(Passed') \in Nat
    <3>1. PassedFinite' BY PassedFacts, PTL
    <3> QED BY <3>1 DEF PassedFinite
  <2>3. \A q \in Requests : q # r => (q \in Passed' <=> q \in Passed)
    BY DEF Moved, Others, Passed
  <2>5. Burst \in Nat /\ tokens \in Nat /\ refills \in Nat
    BY BucketFacts DEF RouterType
  <2>6. CASE r \in Passed' => r \in Passed
    <3>1. Passed' \subseteq Passed BY <2>2, <2>3, <2>6
    <3>2. Cardinality(Passed') <= Cardinality(Passed) BY <2>1, <3>1, FS_Subset
    <3>3. tokens' \in Nat /\ tokens' <= tokens
      BY <2>5 DEF Moved, Entered, Passes, Answered
    <3> QED BY <2>1, <2>2, <2>5, <3>2, <3>3 DEF TokensSpent
  <2>7. CASE r \in Passed' /\ r \notin Passed
    <3>1. Passed' = Passed \cup {r} BY <2>1, <2>2, <2>3, <2>7
    <3>2. Cardinality(Passed') = Cardinality(Passed) + 1
      <4>1. IsFiniteSet(Passed) /\ r \notin Passed BY <2>1, <2>7
      <4>2. Cardinality(Passed \cup {r}) = Cardinality(Passed) + 1
        BY <4>1, FS_AddElement
      <4> QED BY <3>1, <4>2
    <3>3. tokens > 0 /\ tokens' = tokens - 1
      <4>1. ASSUME Entered(r) PROVE FALSE
        BY <2>7, <4>1 DEF Entered, Underway, Passed
      <4>2. ASSUME Answered(r) PROVE FALSE
        BY <2>7, <4>2 DEF Answered, Passed
      <4>3. ASSUME Passes(r)
            PROVE  frame[r] = First + 1 /\ kind[r].path # "/metrics"
        <5>1. kind[r].path # "/metrics" /\ r \in beyond' /\ r \notin beyond
          BY <2>7, <4>3 DEF Passes, Passed
        <5>2. frame[r] > First /\ ~(frame[r] > First + 1)
          BY <4>3, <5>1 DEF Passes, Underway
        <5>3. frame[r] \in Nat BY <1>0, <4>3 DEF Passes
        <5> QED BY <1>0, <5>1, <5>2, <5>3
      <4> QED BY <4>1, <4>2, <4>3 DEF Moved, Passes
    <3> QED BY <2>1, <2>5, <3>2, <3>3 DEF TokensSpent
  <2> QED BY <2>6, <2>7
<1> QED BY <1>1, <1>2, <1>3

-----------------------------------------------------------------------------
(* And every middleware takes such steps.                                  *)

(* What MovedInv asks for.                                                 *)
RouterMove(r) == RouterType' /\ cfg' = cfg /\ refills' = refills /\ Moved(r)

(* next.ServeHTTP: the frame after this one.                               *)
LEMMA CallMoves ==
  ASSUME RouterType, NEW r \in Requests, NEW hs \in SUBSET HeaderNames,
         Call(r, hs), UNCHANGED <<cfg, refills, kind>>,
         frame[r] \in First .. Len(Chain) - 1,
         frame[r] = First => "security" \in hs,
         IF Bucket /\ frame[r] = First + 1 /\ kind[r].path # "/metrics"
         THEN tokens > 0 /\ tokens' = tokens - 1
         ELSE tokens' = tokens
  PROVE  RouterMove(r)
<1>0. First' = First /\ Chain' = Chain /\ First \in Nat /\ Len(Chain) \in Nat
  BY ConfigFixed, ChainFacts
<1>1. NextFrame(frame[r]) = frame[r] + 1 BY NextFrameFacts
<1>2. /\ frame' = [frame EXCEPT ![r] = frame[r] + 1]
      /\ headers' = [headers EXCEPT ![r] = headers[r] \cup hs]
      /\ status' = status /\ beyond' \in {beyond, beyond \cup {r}}
  BY <1>1 DEF Call
<1>3. frame[r] + 1 \in First .. Len(Chain) BY <1>0
<1>4. tokens' \in Nat BY DEF RouterType
<1>5. RouterType' BY <1>0, <1>2, <1>3, <1>4 DEF RouterType
<1>6. Others(r) BY <1>2 DEF RouterType, Others
<1>7. Bucket => (r \in beyond' <=> r \in beyond \/ frame[r] > First)
  <2> SUFFICES ASSUME Bucket PROVE r \in beyond' <=> r \in beyond \/ frame[r] > First
    OBVIOUS
  <2>1. Limited BY BucketFacts
  <2>2. Chain[frame[r] + 1] \in {"cors", "mux"} <=> frame[r] > First
    <3>1. CASE frame[r] = First BY <1>0, <2>1, <3>1, ChainFacts
    <3>2. CASE frame[r] + 1 = Len(Chain) BY <1>0, <2>1, <3>2, ChainFacts
    <3>3. CASE frame[r] # First /\ frame[r] + 1 # Len(Chain)
      <4>1. frame[r] + 1 \in First + 1 .. Len(Chain) - 1 /\ frame[r] + 1 # First + 1
        BY <1>0, <3>3
      <4>2. Chain[frame[r] + 1] = "cors" BY <4>1, ChainFacts
      <4> QED BY <1>0, <3>3, <4>2
    <3> QED BY <3>1, <3>2, <3>3
  <2> QED BY <1>1, <2>2 DEF Call
<1>8. Passes(r) BY <1>0, <1>2, <1>7 DEF RouterType, Passes
<1> QED BY <1>5, <1>6, <1>8 DEF RouterMove, Moved

(* The answer.                                                             *)
LEMMA ReplyMoves ==
  ASSUME RouterType, NEW r \in Requests, NEW hs \in SUBSET HeaderNames,
         NEW code \in Int \ {0}, Reply(r, code, hs),
         UNCHANGED <<cfg, refills, kind, tokens>>,
         frame[r] >= First,
         frame[r] = First => code = 499
  PROVE  RouterMove(r)
<1>0. First' = First /\ Chain' = Chain BY ConfigFixed
<1>1. /\ frame' = [frame EXCEPT ![r] = 0] /\ status' = [status EXCEPT ![r] = code]
      /\ headers' = [headers EXCEPT ![r] = headers[r] \cup hs] /\ beyond' = beyond
  BY DEF Reply
<1>2. RouterType' BY <1>0, <1>1 DEF RouterType
<1>3. Others(r) BY <1>1 DEF RouterType, Others
<1>4. Answered(r) BY <1>1 DEF RouterType, Answered
<1> QED BY <1>2, <1>3, <1>4 DEF RouterMove, Moved

LEMMA GrantFacts == \A o : Grant(o) \in SUBSET HeaderNames
BY DEF Grant, HeaderNames

LEMMA UnwindCode ==
  ASSUME NEW r, NEW abort, Unwind(r, abort)
  PROVE  \E code \in Int \ {0} : Reply(r, code, {})
BY DEF Unwind

LEMMA EnterMoves ==
  ASSUME RouterType, NEW r \in Requests, Enter(r)
  PROVE  RouterMove(r)
<1>0. /\ First' = First /\ Chain' = Chain /\ NextFrame(0) = First
      /\ First \in First .. Len(Chain)
  BY ConfigFixed, ChainFacts, NextFrameFacts DEF Enter
<1>1. PICK k \in Kinds : kind' = [kind EXCEPT ![r] = k] BY DEF Enter
<1>2. /\ frame' = [frame EXCEPT ![r] = First]
      /\ UNCHANGED <<cfg, tokens, refills, status, headers, beyond>>
      /\ frame[r] = 0 /\ status[r] = 0
  BY <1>0 DEF Enter
<1>3. RouterType' BY <1>0, <1>1, <1>2 DEF RouterType
<1>4. Others(r) /\ Entered(r)
  BY <1>1, <1>2 DEF RouterType, Others, Entered
<1> QED BY <1>2, <1>3, <1>4 DEF RouterMove, Moved

LEMMA SecureMoves ==
  ASSUME RouterType, NEW r \in Requests, SecurityHeadersMiddleware(r)
  PROVE  RouterMove(r)
<1>0. /\ UNCHANGED <<cfg, tokens, refills, kind>>
      /\ frame[r] = First /\ First \in {5, 6} /\ Len(Chain) \in Nat
      /\ First < Len(Chain)
  BY Positions, ChainFacts DEF SecurityHeadersMiddleware
<1>1. {"security"} \in SUBSET HeaderNames /\ {} \in SUBSET HeaderNames
  BY DEF HeaderNames
<1>2. CASE Reply(r, 499, {})
  BY <1>0, <1>1, <1>2, ReplyMoves
<1>3. CASE Call(r, {"security"})
  BY <1>0, <1>1, <1>3, CallMoves
<1> QED BY <1>2, <1>3 DEF SecurityHeadersMiddleware

LEMMA LimitMoves ==
  ASSUME RouterType, NEW r \in Requests, RateLimitMiddleware(r)
  PROVE  RouterMove(r)
<1>0. /\ UNCHANGED <<cfg, refills, kind>>
      /\ frame[r] = First + 1 /\ First \in {5, 6} /\ Len(Chain) \in Nat
      /\ First + 1 < Len(Chain)
  BY Positions, ChainFacts DEF RateLimitMiddleware
<1>1. {"retryAfter"} \in SUBSET HeaderNames /\ {} \in SUBSET HeaderNames
  BY DEF HeaderNames
<1>2. ASSUME NEW code \in Int \ {0}, NEW hs \in SUBSET HeaderNames, Reply(r, code, hs),
             tokens' = tokens
      PROVE  RouterMove(r)
  BY <1>0, <1>2, ReplyMoves
<1>3. ASSUME Call(r, {}), IF Bucket /\ kind[r].path # "/metrics"
                          THEN tokens > 0 /\ tokens' = tokens - 1
                          ELSE tokens' = tokens
      PROVE  RouterMove(r)
  BY <1>0, <1>1, <1>3, CallMoves
<1>4. CASE r \in gone
  <2>1. Reply(r, 499, {}) /\ tokens' = tokens BY <1>4 DEF RateLimitMiddleware
  <2> QED BY <1>1, <1>2, <2>1
<1>5. CASE r \notin gone /\ kind[r].path = "/metrics"
  BY <1>3, <1>5 DEF RateLimitMiddleware
<1>6. CASE r \notin gone /\ kind[r].path # "/metrics"
  <2>1. CASE Allow /\ Call(r, {})
    BY <1>3, <1>6, <2>1 DEF Allow
  <2>2. CASE Deny /\ Reply(r, 429, {"retryAfter"})
    <3>1. tokens' = tokens BY <2>2 DEF Deny
    <3> QED BY <1>1, <1>2, <2>2, <3>1
  <2>3. CASE ~Bucket /\ Unwind(r, FALSE) /\ UNCHANGED tokens
    <3>1. PICK code \in Int \ {0} : Reply(r, code, {}) BY <2>3, UnwindCode
    <3> QED BY <1>1, <1>2, <2>3, <3>1
  <2> QED BY <1>6, <2>1, <2>2, <2>3 DEF RateLimitMiddleware
<1> QED BY <1>4, <1>5, <1>6

LEMMA CorsMoves ==
  ASSUME RouterType, NEW r \in Requests, CORSMiddleware(r)
  PROVE  RouterMove(r)
<1>0. /\ UNCHANGED <<cfg, refills, kind, tokens>>
      /\ frame[r] > First /\ frame[r] = Len(Chain) - 1
      /\ First \in {5, 6} /\ Len(Chain) \in Nat
      /\ Bucket => frame[r] > First + 1
  BY Positions, ChainFacts, BucketFacts DEF CORSMiddleware
<1>1. ASSUME NEW code \in Int \ {0}, NEW hs \in SUBSET HeaderNames, Reply(r, code, hs)
      PROVE  RouterMove(r)
  BY <1>0, <1>1, ReplyMoves
<1>2. ASSUME NEW hs \in SUBSET HeaderNames, Call(r, hs) PROVE RouterMove(r)
  BY <1>0, <1>2, CallMoves
<1>3. {} \in SUBSET HeaderNames /\ Grant(kind[r].origin) \in SUBSET HeaderNames
  BY GrantFacts
<1> QED BY <1>1, <1>2, <1>3 DEF CORSMiddleware

LEMMA MuxMoves ==
  ASSUME RouterType, NEW r \in Requests, Mux(r)
  PROVE  RouterMove(r)
<1>0. /\ UNCHANGED <<cfg, refills, kind, tokens>>
      /\ frame[r] = Len(Chain) /\ First < Len(Chain)
      /\ First \in {5, 6} /\ Len(Chain) \in Nat
      /\ Bucket => First + 1 < Len(Chain)
  BY Positions, ChainFacts, BucketFacts DEF Mux
<1>1. ASSUME NEW code \in Int \ {0}, NEW hs \in SUBSET HeaderNames, Reply(r, code, hs)
      PROVE  RouterMove(r)
  BY <1>0, <1>1, ReplyMoves
<1>2. {} \in SUBSET HeaderNames /\ {"json"} \in SUBSET HeaderNames
  BY DEF HeaderNames
<1>3. \E code \in Int \ {0}, hs \in {{}, {"json"}} : Reply(r, code, hs)
  BY UnwindCode DEF Mux, Ok, Created, Error, NoContent, JSON
<1> QED BY <1>1, <1>2, <1>3

-----------------------------------------------------------------------------
(* The service.                                                            *)

(* The server counts a request as active exactly while it is in the chain. *)
InChain == \A r \in Requests : request[r] = "active" <=> frame[r] > 0

SInv == ShutdownInv /\ RouterInv /\ InChain

(* The router does not get in the way of the server.                       *)
LEMMA ServerStep == [SNext]_svars => [Next]_vars
<1> SUFFICES ASSUME [SNext]_svars PROVE [Next]_vars OBVIOUS
<1>1. CASE Server BY <1>1 DEF Server, Next
<1>2. ASSUME NEW r \in Requests, ServeHTTP(r) PROVE [Next]_vars
  BY <1>2 DEF ServeHTTP, Next
<1> QED BY <1>1, <1>2 DEF SNext, svars

LEMMA RouterInitInv == RouterInit => RouterInv
<1> SUFFICES ASSUME RouterInit PROVE RouterInv OBVIOUS
<1>1. cfg.RateLimit \in Int /\ cfg.RateBurst \in Int
  BY OptionsAssumption DEF RouterInit
<1>2. (IF Bucket THEN Burst ELSE 0) \in Nat
  BY <1>1 DEF Bucket, Burst
<1>3. (CHOOSE k \in Kinds : TRUE) \in Kinds BY KindsAssumption
<1>4. RouterType BY <1>1, <1>2, <1>3 DEF RouterInit, RouterType
<1>5. Underway /\ AnswersGuarded
  BY ChainFacts DEF RouterInit, Underway, AnswersGuarded
<1>6. Passed = {} BY DEF RouterInit, Passed
<1>7. TokensSpent
  BY <1>2, <1>6, FS_EmptySet DEF RouterInit, TokensSpent
<1> QED BY <1>4, <1>5, <1>7 DEF RouterInv

LEMMA SInitInv == SInit => SInv
BY ShutdownInitInv, RouterInitInv DEF SInit, SInv, InChain, Init, RouterInit

(* Steps of the server leave the router alone, and the other way round.    *)
LEMMA RouterUnchanged ==
  ASSUME RouterInv, UNCHANGED rvars
  PROVE  RouterInv'
BY ConfigFixed
DEF RouterInv, rvars, RouterType, Underway, AnswersGuarded, TokensSpent, Passed

(* The request of a step that moves it is in the chain before or after.    *)
LEMMA ServeHTTPMoves ==
  ASSUME SInv, NEW r \in Requests, ServeHTTP(r)
  PROVE  RouterMove(r) /\ InChain'
<1>0. RouterType /\ ShutdownType BY DEF SInv, RouterInv, ShutdownInv
<1>f. First \in {5, 6} BY ChainFacts
<1>1. CASE (Arrive(r) \/ Reuse(r)) /\ Enter(r)
  <2>1. RouterMove(r) BY <1>0, <1>1, EnterMoves
  <2>2. /\ \A q \in Requests : q # r => frame'[q] = frame[q]
        /\ frame'[r] = First
    BY <1>0, <1>1, NextFrameFacts DEF Enter, RouterType
  <2>3. request'[r] = "active" /\ \A q \in Requests : q # r => request'[q] = request[q]
    BY <1>0, <1>1 DEF Arrive, Reuse, ShutdownType
  <2> QED BY <1>f, <2>1, <2>2, <2>3 DEF SInv, InChain
<1>2. CASE Step(r) /\ IF frame'[r] = 0 THEN Finish(r) ELSE at # "killed" /\ UNCHANGED vars
  <2>1. RouterMove(r)
    BY <1>0, <1>2, SecureMoves, LimitMoves, CorsMoves, MuxMoves DEF Step
  <2>2. frame[r] > 0 /\ frame'[r] \in Nat
    <3>1. frame[r] > 0
      BY <1>2 DEF Step, At, SecurityHeadersMiddleware, RateLimitMiddleware,
                  CORSMiddleware, Mux
    <3>2. frame'[r] \in Nat
      BY <1>0, <1>f, <2>1 DEF RouterMove, Moved, Entered, Passes, Answered, RouterType
    <3> QED BY <3>1, <3>2
  <2>3. \A q \in Requests : q # r => frame'[q] = frame[q]
    BY <2>1 DEF RouterMove, Moved, Others
  <2>4. CASE frame'[r] = 0
    <3>1. request'[r] = "done" /\ \A q \in Requests : q # r => request'[q] = request[q]
      BY <1>0, <1>2, <2>4 DEF Finish, ShutdownType
    <3> QED BY <2>1, <2>3, <2>4, <3>1 DEF SInv, InChain
  <2>5. CASE frame'[r] # 0
    <3>1. request' = request BY <1>2, <2>5 DEF vars
    <3> QED BY <2>1, <2>2, <2>3, <2>5, <3>1 DEF SInv, InChain
  <2> QED BY <2>4, <2>5
<1> QED BY <1>1, <1>2 DEF ServeHTTP

LEMMA SNextInv == SInv /\ [SNext]_svars => SInv'
<1> SUFFICES ASSUME SInv, [SNext]_svars PROVE SInv' OBVIOUS
<1>0. ShutdownInv' BY ServerStep, ShutdownNextInv DEF SInv
<1>1. ASSUME Server, UNCHANGED rvars PROVE RouterInv' /\ InChain'
  <2>1. RouterInv' BY <1>1, RouterUnchanged DEF SInv
  <2>2. \A r \in Requests : request'[r] = "active" <=> request[r] = "active"
    <3>1. request \in [Requests -> {"none", "new", "active", "done"}]
      BY DEF SInv, ShutdownInv, ShutdownType
    <3>2. CASE (\E r \in Requests : Accept(r)) \/ Drop
      BY <3>1, <3>2 DEF Accept, Drop
    <3>3. CASE request' = request BY <3>3
    <3> QED
      BY <1>1, <3>2, <3>3
      DEF Server, Caller, ServeStart, ServeEnd, OtherShutdown, Signal, Deadline,
          Notify, SelectServerErr, SelectQuit, Shutdown, ShutdownReturns, conns
  <2> QED BY <1>1, <2>1, <2>2 DEF SInv, InChain, rvars
<1>2. ASSUME NEW r \in Requests, ServeHTTP(r) PROVE RouterInv' /\ InChain'
  BY <1>2, ServeHTTPMoves, MovedInv DEF SInv, RouterMove
<1>3. ASSUME Refill, UNCHANGED vars PROVE RouterInv' /\ InChain'
  <2>1. /\ UNCHANGED <<cfg, frame, kind, status, headers, beyond, request>>
        /\ tokens' = tokens + 1 /\ refills' = refills + 1
    BY <1>3 DEF Refill, vars
  <2>2. RouterType BY DEF SInv, RouterInv
  <2>3. RouterType' BY <2>1, <2>2, ConfigFixed DEF RouterType
  <2>4. Passed' = Passed BY <2>1 DEF Passed
  <2>5. TokensSpent'
    <3>1. Bucket => Burst \in Nat /\ Cardinality(Passed) \in Nat
      BY <2>2, BucketFacts, PassedFacts DEF PassedFinite
    <3>2. tokens \in Nat /\ refills \in Nat BY <2>2 DEF RouterType
    <3>3. Bucket' = Bucket /\ Burst' = Burst BY <2>1, ConfigFixed
    <3>4. Bucket => Cardinality(Passed) + tokens <= Burst + refills
      BY DEF SInv, RouterInv, TokensSpent
    <3>5. Bucket => Cardinality(Passed) + (tokens + 1) <= Burst + (refills + 1)
      BY <3>1, <3>2, <3>4
    <3> QED BY <2>1, <2>4, <3>3, <3>5 DEF TokensSpent
  <2>6. Underway' /\ AnswersGuarded'
    BY <2>1, ConfigFixed DEF SInv, RouterInv, Underway, AnswersGuarded
  <2> QED BY <2>1, <2>3, <2>5, <2>6 DEF SInv, RouterInv, InChain
<1>4. ASSUME NEW r \in Requests, Disconnect(r), UNCHANGED vars
      PROVE  RouterInv' /\ InChain'
  BY <1>4, ConfigFixed
  DEF Disconnect, vars, SInv, InChain, RouterInv, RouterType, Underway,
      AnswersGuarded, TokensSpent, Passed
<1>5. ASSUME UNCHANGED svars PROVE RouterInv' /\ InChain'
  <2>1. UNCHANGED rvars /\ request' = request BY <1>5 DEF svars, vars
  <2>2. RouterInv' BY <2>1, RouterUnchanged DEF SInv
  <2> QED BY <2>1, <2>2 DEF SInv, InChain, rvars
<1>6. RouterInv' /\ InChain'
  <2>1. CASE SNext BY <2>1, <1>1, <1>2, <1>3, <1>4 DEF SNext
  <2> QED BY <2>1, <1>5
<1> QED BY <1>0, <1>6 DEF SInv

(* GracefulShutdown around the router keeps its promises: what it returns  *)
(* is true of the server, what moves afterwards is what that allows, and   *)
(* no signal is lost.                                                      *)
THEOREM ServiceShutdown ==
  SSpec => []ReturnTruthful /\ NothingTakenAfterReturn /\ []SignalHeard
<1>1. SInit => Init BY DEF SInit
<1>2. SSpec => Spec BY <1>1, ServerStep, PTL DEF SSpec, Spec
<1> QED BY <1>2, ReturnsTruthful, NothingTaken, SignalNotLost, PTL

(* Every answer carries the security headers, whatever options the router  *)
(* was built with.                                                         *)
THEOREM ServiceGuarded == SSpec => []AnswersGuarded
<1>1. SInv => AnswersGuarded BY DEF SInv, RouterInv
<1> QED BY <1>1, SInitInv, SNextInv, PTL DEF SSpec

(* The built-in limiter stays within its budget, however the requests      *)
(* interleave at the bucket.                                               *)
THEOREM ServiceWithinBudget == SSpec => []WithinBudget
<1>1. SInv => WithinBudget
  <2> SUFFICES ASSUME SInv, Bucket PROVE Cardinality(Passed) <= Burst + refills
    BY DEF WithinBudget
  <2>1. RouterType BY DEF SInv, RouterInv
  <2>2. Burst \in Nat /\ Cardinality(Passed) \in Nat /\ tokens \in Nat /\ refills \in Nat
    BY <2>1, BucketFacts, PassedFacts DEF PassedFinite, RouterType
  <2> QED BY <2>2 DEF SInv, RouterInv, TokensSpent
<1> QED BY <1>1, SInitInv, SNextInv, PTL DEF SSpec

(* A nil from GracefulShutdown means that no middleware and no handler     *)
(* is running: the server's count of active requests is the chain's.       *)
ChainDrained == ret = "nil" /\ ~foreign => \A r \in Requests : frame[r] = 0

(* GracefulShutdown's nil is a promise about the router's handlers, too.   *)
THEOREM ServiceDrainsChain == SSpec => []ChainDrained
<1>1. SInv => ChainDrained
  <2> SUFFICES ASSUME SInv, ret = "nil", ~foreign, NEW r \in Requests
               PROVE  frame[r] = 0
    BY DEF ChainDrained
  <2>1. request[r] # "active"
    BY DEF SInv, ShutdownInv, ReturnTruthful, NilMeansDrained, Pending
  <2>2. frame[r] \in {0} \cup First .. Len(Chain) /\ First \in {5, 6}
    BY ChainFacts DEF SInv, RouterInv, RouterType
  <2> QED BY <2>1, <2>2, ChainFacts DEF SInv, InChain
<1> QED BY <1>1, SInitInv, SNextInv, PTL DEF SSpec
=============================================================================
