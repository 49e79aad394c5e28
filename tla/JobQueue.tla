------------------------------- MODULE JobQueue -------------------------------
(***************************************************************************)
(* async.QueueServer: handlers are registered by several goroutines, one   *)
(* goroutine calls Start (the README does so in a goroutine of its own),   *)
(* perhaps more than once, and one calls Stop.  asynq.Server and its       *)
(* ServeMux are external.                                                  *)
(***************************************************************************)
CONSTANTS Registrars, Patterns

ASSUME RegistrarsAssumption == "free" \notin Registrars

VARIABLES
  mu,         \* q.mu: the goroutine that holds it, or "free"
  started,    \* q.started
  handlers,   \* the patterns in the mux
  server,     \* asynq's server: "new", "active" or "closed"
  reg,        \* [Registrars -> its HandleFunc: where, and for which pattern]
  starter,    \* the goroutine that calls Start
  stopper     \* the goroutine that calls Stop

queueVars == <<mu, started, handlers, server, reg, starter, stopper>>

JobQueueInit ==
  /\ mu = "free" /\ started = FALSE /\ handlers = {} /\ server = "new"
  /\ reg = [g \in Registrars |-> [at |-> "idle", pattern |-> "none"]]
  /\ starter = "idle" /\ stopper = "idle"

(* Variant: the flag is read before the lock is taken.                     *)
HandleFuncUnlocked(g, pattern) ==
  /\ reg[g].at = "idle"
  /\ reg' = [reg EXCEPT ![g] = [at |-> IF started THEN "refuse" ELSE "register",
                                pattern |-> pattern]]
  /\ UNCHANGED <<mu, started, handlers, server, starter, stopper>>

(* HandleFunc takes the lock and looks at the flag.                        *)
HandleFunc(g, pattern) ==
  /\ reg[g].at = "idle" /\ mu = "free"
  /\ mu' = g
  /\ reg' = [reg EXCEPT ![g] = [at |-> IF started THEN "refuse" ELSE "register",
                                pattern |-> pattern]]
  /\ UNCHANGED <<started, handlers, server, starter, stopper>>

(* Variant: the lock is released by hand, at the end.                      *)
RefuseLocked(g) ==
  /\ reg[g].at = "refuse"
  /\ reg' = [reg EXCEPT ![g].at = "panicked"]
  /\ UNCHANGED <<mu, started, handlers, server, starter, stopper>>

(* The panic of a registration that comes too late; the lock is released   *)
(* by defer.                                                               *)
Refuse(g) ==
  /\ reg[g].at = "refuse"
  /\ reg' = [reg EXCEPT ![g].at = "panicked"]
  /\ mu' = "free"
  /\ UNCHANGED <<started, handlers, server, starter, stopper>>

(* mux.HandleFunc with the handler wrapped in a recover; the mux panics    *)
(* when the pattern is taken.                                              *)
Register(g) ==
  LET taken == reg[g].pattern \in handlers IN
  /\ reg[g].at = "register"
  /\ reg' = [reg EXCEPT ![g].at = IF taken THEN "panicked" ELSE "registered"]
  /\ handlers' = handlers \cup {reg[g].pattern}
  /\ mu' = "free"
  /\ UNCHANGED <<started, server, starter, stopper>>

(* Start sets the flag under the lock, and starts the server without it.   *)
Start ==
  /\ starter # "starting" /\ mu = "free"
  /\ started' = TRUE /\ starter' = "starting"
  /\ UNCHANGED <<mu, handlers, server, reg, stopper>>

StartServer ==
  /\ starter = "starting"
  /\ starter' = IF server = "new" THEN "ok" ELSE "err"
  /\ server' = IF server = "new" THEN "active" ELSE server
  /\ UNCHANGED <<mu, started, handlers, reg, stopper>>

(* Stop calls Shutdown, which does nothing unless the server is active,    *)
(* and otherwise returns when the active tasks are done.                   *)
Stop ==
  /\ stopper = "idle"
  /\ stopper' = "stopped"
  /\ server' = IF server = "active" THEN "closed" ELSE server
  /\ UNCHANGED <<mu, started, handlers, reg, starter>>

(* The process lives on when Start has returned.                           *)
LiveOn == starter \in {"ok", "err"} /\ UNCHANGED queueVars

JobQueueNext ==
  \/ \E g \in Registrars :
       (\E pattern \in Patterns : HandleFunc(g, pattern)) \/ Refuse(g) \/ Register(g)
  \/ Start \/ StartServer \/ Stop
  \/ LiveOn

JobQueueSpec == JobQueueInit /\ [][JobQueueNext]_queueVars

(* Goroutines are scheduled, and sync.Mutex does not starve its waiters.   *)
JobQueueFairness ==
  /\ \A g \in Registrars : /\ SF_queueVars(\E x \in Patterns : HandleFunc(g, x))
                           /\ WF_queueVars(Refuse(g) \/ Register(g))
  /\ SF_queueVars(starter = "idle" /\ Start) /\ WF_queueVars(StartServer)

-----------------------------------------------------------------------------
(* Once Start has set the flag the mux is never written again, neither     *)
(* before the server has it nor while its workers look handlers up: a      *)
(* registration that passed the check finishes before Start gets the lock. *)
HandlersFrozen == [][server # "new" \/ starter = "starting" => handlers' = handlers]_queueVars

(* Start and every HandleFunc return or panic: a late registration that    *)
(* panics, or one that the mux refuses, leaves the lock free.              *)
QueueCallsReturn ==
  /\ <>(starter \in {"ok", "err"})
  /\ \A g \in Registrars : <>(reg[g].at \in {"registered", "panicked"})
=============================================================================
