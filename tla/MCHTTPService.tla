---------------------------- MODULE MCHTTPService ----------------------------
(* Two requests, and routers that differ in every part of the chain.       *)
EXTENDS HTTPService

MCKinds ==
  {[path |-> "/metrics", method |-> "GET", origin |-> ""],
   [path |-> "/admin", method |-> "GET", origin |-> "app"],
   [path |-> "/admin", method |-> "OPTIONS", origin |-> "other"]}

(* One token and CORS; half a request per second and no burst, which is a  *)
(* bucket of no token; a custom limiter and the metrics elsewhere; neither *)
(* limiter nor metrics.                                                    *)
MCOptionLists ==
  {<<WithRateLimit(5, 1), NilOption, WithCORS({"app"})>>,
   <<WithRateLimit(5, 0)>>,
   <<WithRateLimit(20, -1), WithCORS({"*"}), WithCustomRateLimiter("custom"),
     WithLogger(FALSE), WithMetricsPath("/admin")>>,
   <<WithRateLimit(0, 0), WithMetricsPath("")>>}
=============================================================================
