----------------------------- MODULE HTTPRouter ------------------------------
(***************************************************************************)
(* The middleware chain that httpkit.NewRouter builds, and requests on     *)
(* their way through it, sharing one token bucket.  A frame of the chain   *)
(* is a step of its own if it does something before it calls the next one; *)
(* the others act, if at all, on a panic.  chi, its middleware, the token  *)
(* bucket and net/http are external.                                       *)
(***************************************************************************)
EXTENDS HTTPRequests, Integers, Sequences, FiniteSets, SequencesExt

CONSTANTS
  Kinds,        \* what they may be: records [path, method, origin]
  OptionLists,  \* the arguments of NewRouter tried: sequences of options
  MaxRefills    \* bound: how many tokens the clock may add to the bucket

ASSUME KindsAssumption == Kinds # {}

-----------------------------------------------------------------------------
(* RouterConfig.  RateLimit is in tenths of a request per second.          *)
DefaultRouterConfig ==
  [RateLimiter |-> "nil", AllowedOrigins |-> {}, RateLimit |-> 1000,
   RateBurst |-> 200, EnableLogger |-> TRUE, MetricsPath |-> "/metrics"]

(* An option is the set of fields it assigns, with their values, or "nil". *)
WithCORS(origins)              == [AllowedOrigins |-> origins]
WithCustomRateLimiter(limiter) == [RateLimiter |-> limiter]
WithRateLimit(rps, burst)      == [RateLimit |-> rps, RateBurst |-> burst]
WithLogger(enabled)            == [EnableLogger |-> enabled]
WithMetricsPath(path)          == [MetricsPath |-> path]
NilOption                      == <<>>

(* Options apply in order: the last one to assign a field wins.            *)
ParseOptions(opts) ==
  LET Apply(c, opt) ==
        [f \in DOMAIN c |-> IF f \in DOMAIN opt THEN opt[f] ELSE c[f]]
  IN  FoldLeft(Apply, DefaultRouterConfig, opts)

(* The fields keep their types.                                            *)
ASSUME OptionsAssumption ==
  \A opts \in OptionLists :
    ParseOptions(opts).RateLimit \in Int /\ ParseOptions(opts).RateBurst \in Int

VARIABLES
  cfg,      \* the configuration the router was built from
  tokens,   \* what is left in the bucket of the built-in limiter
  refills,  \* tokens the clock has added
  frame,    \* [Requests -> index in the chain], 0 outside of it
  kind,     \* [Requests -> Kinds]
  gone,     \* the requests in the chain whose context is done
  status,   \* [Requests -> 0 before the answer, the code, or -1 if the
            \* connection is closed without one]
  headers,  \* [Requests -> the headers set on the response]
  beyond    \* history: the requests that have got beyond the limiter

rvars == <<cfg, tokens, refills, frame, kind, gone, status, headers, beyond>>

(* NewRouter makes a bucket of its own.                                    *)
Bucket == cfg.RateLimiter = "nil" /\ cfg.RateLimit > 0

(* NewRouter: a burst that is not set becomes int(cfg.RateLimit).          *)
Burst ==
  IF cfg.RateBurst > 0 THEN cfg.RateBurst ELSE cfg.RateLimit \div 10

-----------------------------------------------------------------------------
(* NewRouter: the order of the r.Use calls.                                *)
Outer == <<"otel", "requestID", "realIP", "recoverer">>
         \o (IF cfg.EnableLogger THEN <<"logger">> ELSE <<>>)

Limit == IF cfg.RateLimiter # "nil" \/ cfg.RateLimit > 0
         THEN <<"limit">> ELSE <<>>

Cors == IF cfg.AllowedOrigins # {} THEN <<"cors">> ELSE <<>>

(* Variant: preflights are answered before the limiter sees them.          *)
ChainCorsFirst == Outer \o <<"secure">> \o Cors \o Limit \o <<"mux">>

(* Variant: the limiter sheds load before anything else is done.           *)
ChainLimitFirst == Outer \o Limit \o <<"secure">> \o Cors \o <<"mux">>

Chain == Outer \o <<"secure">> \o Limit \o Cors \o <<"mux">>

Stops == {"secure", "limit", "cors", "mux"}

NextFrame(n) ==
  CHOOSE j \in n + 1 .. Len(Chain) :
    /\ Chain[j] \in Stops
    /\ \A k \in n + 1 .. j - 1 : Chain[k] \notin Stops

At(r, f) == frame[r] > 0 /\ Chain[frame[r]] = f

RouterInit ==
  /\ cfg \in {ParseOptions(opts) : opts \in OptionLists}
  /\ tokens = (IF Bucket THEN Burst ELSE 0) /\ refills = 0
  /\ frame = [r \in Requests |-> 0]
  /\ kind = [r \in Requests |-> CHOOSE k \in Kinds : TRUE]
  /\ gone = {}
  /\ status = [r \in Requests |-> 0]
  /\ headers = [r \in Requests |-> {}]
  /\ beyond = {}

-----------------------------------------------------------------------------
Enter(r) ==
  /\ frame[r] = 0 /\ status[r] = 0
  /\ kind' \in {[kind EXCEPT ![r] = k] : k \in Kinds}
  /\ frame' = [frame EXCEPT ![r] = NextFrame(0)]
  /\ UNCHANGED <<cfg, tokens, refills, gone, status, headers, beyond>>

(* The client goes away.                                                   *)
Disconnect(r) ==
  /\ frame[r] > 0 /\ r \notin gone
  /\ gone' = gone \cup {r}
  /\ UNCHANGED <<cfg, tokens, refills, frame, kind, status, headers, beyond>>

(* The clock adds a token, up to the burst.                                *)
Refill ==
  /\ Bucket /\ tokens < Burst /\ refills < MaxRefills
  /\ tokens' = tokens + 1 /\ refills' = refills + 1
  /\ UNCHANGED <<cfg, frame, kind, gone, status, headers, beyond>>

Call(r, hs) ==
  /\ frame' = [frame EXCEPT ![r] = NextFrame(@)]
  /\ headers' = [headers EXCEPT ![r] = @ \cup hs]
  /\ beyond' = IF Chain[NextFrame(frame[r])] \in {"cors", "mux"}
               THEN beyond \cup {r} ELSE beyond
  /\ UNCHANGED <<status, gone>>

(* The answer, which is also the end of the request and of its context.    *)
Reply(r, code, hs) ==
  /\ frame' = [frame EXCEPT ![r] = 0]
  /\ status' = [status EXCEPT ![r] = code]
  /\ headers' = [headers EXCEPT ![r] = @ \cup hs]
  /\ gone' = gone \ {r}
  /\ UNCHANGED beyond

(* A panic unwinds the chain.  chi's Recoverer answers 500, or panics again*)
(* for http.ErrAbortHandler; net/http then closes the connection.          *)
Unwind(r, abort) ==
  LET caught == \E j \in 1 .. frame[r] - 1 : Chain[j] = "recoverer"
  IN  Reply(r, IF caught /\ ~abort THEN 500 ELSE -1, {})

SecurityHeadersMiddleware(r) ==
  /\ At(r, "secure")
  /\ IF r \in gone THEN Reply(r, 499, {}) ELSE Call(r, {"security"})
  /\ UNCHANGED <<cfg, tokens, refills, kind>>

(* limiter.Allow(): the bucket holds a token, or the custom limiter agrees.*)
Allow ==
  IF Bucket THEN tokens > 0 /\ tokens' = tokens - 1 ELSE UNCHANGED tokens

Deny == (Bucket => tokens = 0) /\ UNCHANGED tokens

RateLimitMiddleware(r) ==
  /\ At(r, "limit")
  /\ \/ r \in gone /\ Reply(r, 499, {}) /\ UNCHANGED tokens
     \/ /\ r \notin gone /\ kind[r].path = "/metrics"
        /\ Call(r, {}) /\ UNCHANGED tokens
     \/ /\ r \notin gone /\ kind[r].path # "/metrics"
        /\ \/ Allow /\ Call(r, {})
           \/ Deny /\ Reply(r, 429, {"retryAfter"})
           \/ ~Bucket /\ Unwind(r, FALSE) /\ UNCHANGED tokens
  /\ UNCHANGED <<cfg, refills, kind>>

(* The headers that grant the origin access.                               *)
Grant(origin) ==
  CASE origin = "" -> {}
    [] origin # "" /\ "*" \in cfg.AllowedOrigins -> {"allowAny"}
    [] origin \in cfg.AllowedOrigins -> {"allowOrigin", "credentials", "vary"}
    [] OTHER -> {}

CORSMiddleware(r) ==
  /\ At(r, "cors")
  /\ IF r \in gone THEN Reply(r, 499, {})
     ELSE IF kind[r].method = "OPTIONS"
     THEN Reply(r, 204, Grant(kind[r].origin))
     ELSE Call(r, Grant(kind[r].origin))
  /\ UNCHANGED <<cfg, tokens, refills, kind>>

(* The helpers a handler answers with: a payload that cannot be marshalled *)
(* becomes a fixed 500, whatever the status was to be.                     *)
JSON(r, code, marshals) == Reply(r, IF marshals THEN code ELSE 500, {"json"})

Error(r, code) == JSON(r, code, TRUE)
Ok(r, marshals) == JSON(r, 200, marshals)
Created(r, marshals) == JSON(r, 201, marshals)
NoContent(r) == Reply(r, 204, {})

(* chi's routing: the metrics handler, or a route of the application, which*)
(* may answer, panic before or after it has sent its header, or abort.     *)
Mux(r) ==
  /\ At(r, "mux")
  /\ IF kind[r].path = cfg.MetricsPath THEN Reply(r, 200, {})
     ELSE \/ \E m \in BOOLEAN : Ok(r, m) \/ Created(r, m)
          \/ Error(r, 404) \/ NoContent(r)
          \/ \E abort \in BOOLEAN : Unwind(r, abort)
  /\ UNCHANGED <<cfg, tokens, refills, kind>>

Step(r) ==
  \/ SecurityHeadersMiddleware(r) \/ RateLimitMiddleware(r)
  \/ CORSMiddleware(r) \/ Mux(r)

-----------------------------------------------------------------------------
(* Every answer carries the security headers, also a refusal of the        *)
(* limiter, a preflight and a panic's 500; but not the 499, which nobody   *)
(* reads, nor a connection closed without an answer.                       *)
AnswersGuarded ==
  \A r \in Requests : status[r] > 0 /\ status[r] # 499 => "security" \in headers[r]

(* The requests that the limiter let pass, whatever became of them later.  *)
Passed == {r \in beyond : kind[r].path # "/metrics"}

(* The built-in limiter lets no more requests pass than the burst and what *)
(* the clock has added (RateLimitMiddleware, NewRouter).                   *)
WithinBudget == Bucket => Cardinality(Passed) <= Burst + refills
=============================================================================
