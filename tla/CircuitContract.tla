--------------------------- MODULE CircuitContract ---------------------------
(***************************************************************************)
(* What a circuit breaker promises to its callers and to the service it    *)
(* protects, with no counters, thresholds or probe slots:                  *)
(*                                                                         *)
(*   - once tripped, nothing is let through until Timeout has passed since *)
(*     the trip (or an operator resets the breaker);                       *)
(*   - the circuit never goes from open straight back to closed by itself, *)
(*     it passes through half-open;                                        *)
(*   - only the return of a call that was let through can trip it or close *)
(*     it.                                                                 *)
(*                                                                         *)
(* CircuitBreaker.tla is shown to implement this specification.            *)
(***************************************************************************)
EXTENDS Integers

CONSTANTS Calls,     \* the calls that may be in progress at the same time
          Timeout    \* rest owed to the service after a trip, in ticks

VARIABLES phase,     \* "closed", "open" or "half-open"
          rest,      \* ticks since the last trip, saturating at Timeout
          inFlight   \* calls that were let through and have not returned

vars == <<phase, rest, inFlight>>

Init == phase = "closed" /\ rest = Timeout /\ inFlight = {}

Rested == rest = Timeout

(* A half-open circuit, or an open one that has rested, accepts a trial.   *)
Admit(c) ==
  /\ c \notin inFlight
  /\ inFlight' = inFlight \cup {c}
  /\ \/ phase \in {"closed", "half-open"} /\ phase' = phase
     \/ phase = "open" /\ Rested /\ phase' = "half-open"
  /\ rest' = rest

(* Asking for the state may also end the rest period.                      *)
EndRest ==
  /\ phase = "open" /\ Rested
  /\ phase' = "half-open"
  /\ UNCHANGED <<rest, inFlight>>

(* The return of a call let through may trip or, from half-open, close.    *)
Return(c) ==
  /\ c \in inFlight
  /\ inFlight' = inFlight \ {c}
  /\ \/ phase' = phase /\ rest' = rest
     \/ phase # "open" /\ phase' = "open" /\ rest' = 0
     \/ phase = "half-open" /\ phase' = "closed" /\ rest' = rest

Reset == phase' = "closed" /\ UNCHANGED <<rest, inFlight>>

Tick ==
  /\ rest' = IF rest < Timeout THEN rest + 1 ELSE rest
  /\ UNCHANGED <<phase, inFlight>>

Next ==
  \/ \E c \in Calls : Admit(c) \/ Return(c)
  \/ EndRest
  \/ Reset
  \/ Tick

Spec == Init /\ [][Next]_vars
=============================================================================
