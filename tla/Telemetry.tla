------------------------------ MODULE Telemetry ------------------------------
(***************************************************************************)
(* otelkit.InitSDK, called at launch and perhaps again (after a failure,   *)
(* or to reload), one call after the other, and the shutdown functions it  *)
(* returns.  The providers and their exporters are external: what counts   *)
(* is whether they run (a batcher goroutine and a connection, a reader).   *)
(***************************************************************************)
CONSTANT Inits      \* the calls of InitSDK

VARIABLES
  sdk,      \* [Inits -> the call: where it is, its two providers, and the
            \* errors its shutdown function returned]
  global    \* the process-wide propagator, tracer and meter provider

telVars == <<sdk, global>>

NotCalled == [at |-> "new", trace |-> "none", metric |-> "none", errs |-> {}]

TelemetryInit ==
  /\ sdk = [k \in Inits |-> NotCalled]
  /\ global = [propagator |-> FALSE, tracer |-> "noop", meter |-> "noop"]

Quiet == \A k \in Inits : sdk[k].at # "traces"

(* The context is done, or the resources do not merge.                     *)
InitRefused(k) ==
  /\ sdk[k].at = "new" /\ Quiet
  /\ sdk' = [sdk EXCEPT ![k].at = "failed"]
  /\ UNCHANGED global

InitTraceFails(k) ==
  /\ sdk[k].at = "new" /\ Quiet
  /\ sdk' = [sdk EXCEPT ![k].at = "failed"]
  /\ global' = [global EXCEPT !.propagator = TRUE]

InitTrace(k) ==
  /\ sdk[k].at = "new" /\ Quiet
  /\ sdk' = [sdk EXCEPT ![k].at = "traces", ![k].trace = "live"]
  /\ global' = [global EXCEPT !.propagator = TRUE, !.tracer = k]

(* Variant: the tracer provider is left running.                           *)
InitMetricFailsLeaking(k) ==
  /\ sdk[k].at = "traces"
  /\ sdk' = [sdk EXCEPT ![k].at = "failed"]
  /\ UNCHANGED global

(* The tracer provider is shut down; it stays the global one.              *)
InitMetricFails(k) ==
  /\ sdk[k].at = "traces"
  /\ sdk' = [sdk EXCEPT ![k].at = "failed", ![k].trace = "down"]
  /\ UNCHANGED global

InitMetric(k) ==
  /\ sdk[k].at = "traces"
  /\ sdk' = [sdk EXCEPT ![k].at = "ready", ![k].metric = "live"]
  /\ global' = [global EXCEPT !.meter = k]

(* Variant: the meter provider is shut down only if the first went well.   *)
ShutdownFirstError(k, errs) ==
  /\ sdk[k].at \in {"ready", "stopped"} /\ Quiet
  /\ sdk' = [sdk EXCEPT ![k] = [at |-> "stopped", trace |-> "down", errs |-> errs,
                metric |-> IF "traceErr" \in errs THEN @.metric ELSE "down"]]
  /\ UNCHANGED global

(* The shutdown function, once or again: errors.Join evaluates both        *)
(* Shutdowns, each of which stops its provider even when its flush fails.  *)
Shutdown(k, errs) ==
  /\ sdk[k].at \in {"ready", "stopped"} /\ Quiet
  /\ sdk' = [sdk EXCEPT ![k] = [at |-> "stopped", trace |-> "down", errs |-> errs,
                                metric |-> "down"]]
  /\ UNCHANGED global

(* The service runs on without another InitSDK.                            *)
NoMoreInits == (\A k \in Inits : sdk[k].at = "failed") /\ UNCHANGED telVars

TelemetryNext ==
  \/ \E k \in Inits :
       \/ InitRefused(k) \/ InitTraceFails(k) \/ InitTrace(k)
       \/ InitMetricFails(k) \/ InitMetric(k)
       \/ \E errs \in SUBSET {"traceErr", "metricErr"} : Shutdown(k, errs)
  \/ NoMoreInits

TelemetrySpec == TelemetryInit /\ [][TelemetryNext]_telVars

-----------------------------------------------------------------------------
(* No exporter runs that nobody can stop: one is live only while its       *)
(* InitSDK is under way or has handed out a shutdown function that was not *)
(* called.  And the global providers tell what happened: they are a live   *)
(* pair unless a shutdown function was called or an InitSDK failed at its  *)
(* metrics, which leaves a stopped tracer provider as the global one, next *)
(* to the live meter of an earlier call.                                   *)
NoOrphanExporter ==
  /\ \A k \in Inits : "live" \in {sdk[k].trace, sdk[k].metric} =>
                        sdk[k].at \in {"traces", "ready"}
  /\ \A k \in Inits : sdk[k].at = "ready" /\ global.tracer = k => sdk[k].trace = "live"
  /\ Quiet /\ global.tracer # global.meter =>
       \E k \in Inits : global.tracer = k /\ sdk[k].at = "failed"
=============================================================================
