----------------------------- MODULE HTTPService -----------------------------
(***************************************************************************)
(* The router behind the server that GracefulShutdown runs and drains: a   *)
(* request is active while it is in the chain.                             *)
(***************************************************************************)
EXTENDS GracefulShutdown, HTTPRouter

svars == <<vars, rvars>>

SInit == Init /\ RouterInit

(* net/http calls the handler, and takes its return for the request's end. *)
ServeHTTP(r) ==
  \/ (Arrive(r) \/ Reuse(r)) /\ Enter(r)
  \/ Step(r) /\ IF frame'[r] = 0 THEN Finish(r) ELSE at # "killed" /\ UNCHANGED vars

Server ==
  \/ ServeStart \/ (\E e \in {"err", "closed"} : ServeEnd(e))
  \/ (\E r \in Requests : Accept(r)) \/ Drop
  \/ OtherShutdown \/ Signal \/ Deadline \/ Caller

SNext ==
  \/ Server /\ UNCHANGED rvars
  \/ \E r \in Requests : ServeHTTP(r)
  \/ at # "killed" /\ (Refill \/ \E r \in Requests : Disconnect(r)) /\ UNCHANGED vars

(* The caller runs and timers fire.  Requests need not finish.             *)
SSpec ==
  /\ SInit /\ [][SNext]_svars
  /\ WF_svars(Caller /\ UNCHANGED rvars)
  /\ WF_svars(Deadline /\ UNCHANGED rvars)
=============================================================================
