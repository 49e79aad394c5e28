------------------------------- MODULE MCParts -------------------------------
(* The parts that are called on their own: what a service uses while it    *)
(* starts and stops, the retry loop, and the interceptors around one RPC.  *)
(* They share no state, so a behaviour exercises one of them: `program'.   *)
EXTENDS Migrations, Telemetry, JobQueue, MCConfig, MCRetry, RPCChain

VARIABLE program

partVars == <<migVars, telVars, queueVars, configVars, retryVars, rpcVars, program>>

(* The states of the parts that a behaviour does not exercise: their calls *)
(* are over, so that nothing is owed to them.                              *)
NoQueue ==
  /\ mu = "free" /\ started = TRUE /\ handlers = {} /\ server = "active"
  /\ reg = [g \in Registrars |-> [at |-> "registered", pattern |-> "none"]]
  /\ starter = "ok" /\ stopper = "idle"

NoConfig ==
  /\ environ = [k \in Keys |-> Unset] /\ shape = <<>>
  /\ preset = <<>> /\ config = <<>> /\ cursor = 0 /\ loadErr = "none"

NoRetry ==
  /\ cfg = NoCall /\ ctx = "live" /\ at = "returned"
  /\ attempt = 0 /\ calls = 0 /\ delay = -1 /\ ret = "none" /\ late = 0

Init ==
  /\ MigrationsInit /\ TelemetryInit /\ RPCInit
  /\ \/ program = "Config" /\ ConfigInit /\ NoRetry /\ NoQueue
     \/ program = "Retry" /\ RetryInit /\ NoConfig /\ NoQueue
     \/ program = "JobQueue" /\ JobQueueInit /\ NoConfig /\ NoRetry
     \/ /\ program \in {"Migrations", "Telemetry", "RPC"}
        /\ NoConfig /\ NoRetry /\ NoQueue

Next ==
  /\ \/ /\ program = "Migrations" /\ MigrationsNext
        /\ UNCHANGED <<telVars, queueVars, configVars, retryVars, rpcVars>>
     \/ /\ program = "Telemetry" /\ TelemetryNext
        /\ UNCHANGED <<migVars, queueVars, configVars, retryVars, rpcVars>>
     \/ /\ program = "JobQueue" /\ JobQueueNext
        /\ UNCHANGED <<migVars, telVars, configVars, retryVars, rpcVars>>
     \/ /\ program = "Config" /\ ConfigNext
        /\ UNCHANGED <<migVars, telVars, queueVars, retryVars, rpcVars>>
     \/ /\ program = "Retry" /\ RetryNext
        /\ UNCHANGED <<migVars, telVars, queueVars, configVars, rpcVars>>
     \/ /\ program = "RPC" /\ RPCNext
        /\ UNCHANGED <<migVars, telVars, queueVars, configVars, retryVars>>
  /\ UNCHANGED program

Spec ==
  /\ Init /\ [][Next]_partVars
  /\ MigrationsFairness /\ JobQueueFairness /\ RetryFairness

(* Every migration call returns, also if another process died with the     *)
(* lock, and so do Start and every HandleFunc, late ones included.         *)
StartupCallsReturn == MigrationsReturn /\ QueueCallsReturn
=============================================================================
