-------------------------- MODULE GracefulShutdown ---------------------------
(***************************************************************************)
(* httpkit.GracefulShutdown: the goroutine that serves, the caller that    *)
(* waits for a signal or for the server's end, and the drain.  http.Server *)
(* is external and does what net/http documents: Shutdown closes the       *)
(* listener at once and idle connections whenever it looks, waits for the  *)
(* new and the active ones, and gives up, without closing them, when its   *)
(* context is done.  An end of Accept closes no connection at all.         *)
(***************************************************************************)
EXTENDS HTTPRequests, Naturals, Sequences

CONSTANT HasTimeout  \* timeout > 0

ASSUME TimeoutAssumption == HasTimeout \in BOOLEAN

VARIABLES
  at,          \* the caller: "start", "select", "chosen", "shutdown",
               \* "returned", or "killed" by a signal nobody catches yet
  ret,         \* "none", "nil", "err" of the server, "deadline"
  quit,        \* the signals buffered in the channel
  serverErr,   \* the buffered result of ListenAndServe
  listener,    \* "none", "open", "closed"
  inShutdown,  \* the server's own flag
  request,     \* [Requests -> "none", "new" on a connection that was
               \* accepted for it, "active", "done"]
  idle,        \* the connections kept alive after an answer
  expired,     \* the context of Shutdown is done
  signalled,   \* history: a signal was delivered to the channel
  foreign,     \* history: some other goroutine has called srv.Shutdown
  crashed      \* history: ListenAndServe failed on its own

vars == <<at, ret, quit, serverErr, listener, inShutdown, request, idle, expired,
          signalled, foreign, crashed>>

conns == <<request, idle>>
history == <<signalled, foreign, crashed>>

(* The requests that Shutdown waits for.                                   *)
Pending == {r \in Requests : request[r] \in {"new", "active"}}
Active == {r \in Requests : request[r] = "active"}

Running == at \notin {"returned", "killed"}

Init ==
  /\ at = "start" /\ ret = "none"
  /\ quit = <<>> /\ serverErr = <<>>
  /\ listener = "none" /\ inShutdown = FALSE
  /\ request = [r \in Requests |-> "none"] /\ idle = 0
  /\ expired = FALSE /\ signalled = FALSE /\ foreign = FALSE /\ crashed = FALSE

-----------------------------------------------------------------------------
(* The serving goroutine.  It may get to run only after the Shutdown.      *)

ServeStart ==
  /\ listener = "none" /\ ~inShutdown /\ at # "killed"
  /\ listener' = "open"
  /\ UNCHANGED <<at, ret, quit, serverErr, inShutdown, conns, expired, history>>

(* ListenAndServe returns: the address is taken or Accept fails for good   *)
(* ("err"), or the server was shut down ("closed").                        *)
ServeEnd(e) ==
  /\ listener # "closed" /\ at # "killed"
  /\ \/ e = "closed" /\ inShutdown
     \/ e = "err" /\ (inShutdown => listener = "none")
  /\ listener' = "closed"
  /\ serverErr' = Append(serverErr, e)
  /\ crashed' = (e = "err")
  /\ UNCHANGED <<at, ret, quit, inShutdown, conns, expired, signalled, foreign>>

(* A connection is accepted,                                               *)
Accept(r) ==
  /\ listener = "open" /\ ~inShutdown /\ at # "killed"
  /\ request[r] = "none"
  /\ request' = [request EXCEPT ![r] = "new"]
  /\ UNCHANGED <<at, ret, quit, serverErr, listener, inShutdown, idle, expired, history>>

(* and its first request is read: at any time, also when the server has    *)
(* ended or Shutdown has given up.                                         *)
Arrive(r) ==
  /\ request[r] = "new" /\ at # "killed"
  /\ request' = [request EXCEPT ![r] = "active"]
  /\ UNCHANGED <<at, ret, quit, serverErr, listener, inShutdown, idle, expired, history>>

(* A further request comes in on a connection that was kept alive.         *)
Reuse(r) ==
  /\ idle > 0 /\ request[r] = "none" /\ at # "killed"
  /\ request' = [request EXCEPT ![r] = "active"]
  /\ idle' = idle - 1
  /\ UNCHANGED <<at, ret, quit, serverErr, listener, inShutdown, expired, history>>

(* The handler has returned.  A server in shutdown keeps no connection.    *)
Finish(r) ==
  /\ request[r] = "active" /\ at # "killed"
  /\ request' = [request EXCEPT ![r] = "done"]
  /\ idle' \in IF inShutdown THEN {idle} ELSE {idle, idle + 1}
  /\ UNCHANGED <<at, ret, quit, serverErr, listener, inShutdown, expired, history>>

(* A connection that no request is read from goes away: the client closes  *)
(* it, a timeout of the server ends it, or Shutdown closes it as idle, or  *)
(* as new and silent for too long.                                         *)
Drop ==
  /\ at # "killed"
  /\ \/ /\ \E r \in Requests :
             request[r] = "new" /\ request' = [request EXCEPT ![r] = "done"]
        /\ UNCHANGED idle
     \/ idle > 0 /\ idle' = idle - 1 /\ UNCHANGED request
  /\ UNCHANGED <<at, ret, quit, serverErr, listener, inShutdown, expired, history>>

OtherShutdown ==
  /\ ~foreign /\ at # "killed"
  /\ inShutdown' = TRUE /\ foreign' = TRUE
  /\ UNCHANGED <<at, ret, quit, serverErr, listener, conns, expired, signalled, crashed>>

(* SIGINT or SIGTERM.  The runtime does not wait for room in the channel.  *)
Signal ==
  /\ Running
  /\ IF at = "start"
     THEN at' = "killed" /\ UNCHANGED <<quit, signalled>>
     ELSE /\ quit' = IF quit = <<>> THEN <<"signal">> ELSE quit
          /\ signalled' = TRUE
          /\ UNCHANGED at
  /\ UNCHANGED <<ret, serverErr, listener, inShutdown, conns, expired, foreign, crashed>>

-----------------------------------------------------------------------------
Notify ==
  /\ at = "start"
  /\ at' = "select"
  /\ UNCHANGED <<ret, quit, serverErr, listener, inShutdown, conns, expired, history>>

(* Variant: the end of the server is never an error.                       *)
SelectServerErrIgnored ==
  /\ at = "select" /\ serverErr # <<>>
  /\ at' = "returned" /\ ret' = "nil"
  /\ serverErr' = Tail(serverErr)
  /\ UNCHANGED <<quit, listener, inShutdown, conns, expired, history>>

(* case err := <-serverErr                                                 *)
SelectServerErr ==
  /\ at = "select" /\ serverErr # <<>>
  /\ at' = "returned"
  /\ ret' = IF Head(serverErr) = "closed" THEN "nil" ELSE "err"
  /\ serverErr' = Tail(serverErr)
  /\ UNCHANGED <<quit, listener, inShutdown, conns, expired, history>>

(* case <-quit                                                             *)
SelectQuit ==
  /\ at = "select" /\ quit # <<>>
  /\ at' = "chosen" /\ quit' = Tail(quit)
  /\ UNCHANGED <<ret, serverErr, listener, inShutdown, conns, expired, history>>

(* Variant: the signal ends the call without a Shutdown.                   *)
ShutdownSkipped ==
  /\ at = "chosen"
  /\ at' = "returned" /\ ret' = "nil"
  /\ UNCHANGED <<quit, serverErr, listener, inShutdown, conns, expired, history>>

Shutdown ==
  /\ at = "chosen"
  /\ at' = "shutdown" /\ inShutdown' = TRUE
  /\ UNCHANGED <<ret, quit, serverErr, listener, conns, expired, history>>

(* Variant: the deadline is only armed for a server without requests.      *)
DeadlineUnarmed ==
  /\ at = "shutdown" /\ HasTimeout /\ ~expired /\ Pending = {}
  /\ expired' = TRUE
  /\ UNCHANGED <<at, ret, quit, serverErr, listener, inShutdown, conns, history>>

(* context.WithTimeout; without a timeout the context never ends.          *)
Deadline ==
  /\ at = "shutdown" /\ HasTimeout /\ ~expired
  /\ expired' = TRUE
  /\ UNCHANGED <<at, ret, quit, serverErr, listener, inShutdown, conns, history>>

(* srv.Shutdown returns: drained, or its context is done.  It has closed   *)
(* the idle connections either way.                                        *)
ShutdownReturns ==
  /\ at = "shutdown"
  /\ \/ Pending = {} /\ ret' = "nil"
     \/ expired /\ ret' = "deadline"
  /\ at' = "returned" /\ idle' = 0
  /\ UNCHANGED <<quit, serverErr, listener, inShutdown, request, expired, history>>

Caller == Notify \/ SelectServerErr \/ SelectQuit \/ Shutdown \/ ShutdownReturns

Next ==
  \/ ServeStart \/ (\E e \in {"err", "closed"} : ServeEnd(e))
  \/ \E r \in Requests : Accept(r) \/ Arrive(r) \/ Reuse(r) \/ Finish(r)
  \/ Drop \/ OtherShutdown \/ Signal \/ Deadline \/ Caller

Spec == Init /\ [][Next]_vars

-----------------------------------------------------------------------------
(* A nil means that the server is drained: no request is in process and no *)
(* connection is left that could carry one.  This takes that nobody else   *)
(* calls srv.Shutdown: ListenAndServe returns http.ErrServerClosed at once *)
(* then, and so does GracefulShutdown, with a nil, however many requests   *)
(* that other Shutdown still waits for.                                    *)
NilMeansDrained == ret = "nil" /\ ~foreign => Pending = {} /\ idle = 0

(* The error of the server is returned only if it failed, and always then, *)
(* unless a signal was delivered, too: the select may take either.         *)
CrashReported ==
  at = "returned" => /\ ret = "err" => crashed
                     /\ crashed /\ ~signalled => ret = "err"

(* What GracefulShutdown returns is true of the server.                    *)
ReturnTruthful == NilMeansDrained /\ CrashReported

(* A step after the return.  No connection is accepted any more, also when *)
(* the goroutine that listens gets to run only then.  A connection that is *)
(* there may still carry a request: any of them after the server failed,   *)
(* and one that was new when Shutdown gave up, but no idle one then.  After*)
(* a nil nothing moves any more, if nobody else shuts the server down.     *)
AfterwardsStep ==
  at = "returned" =>
    /\ \A r \in Requests : request'[r] = "new" => request[r] = "new"
    /\ ret = "deadline" =>
         \A r \in Requests : request[r] = "none" => request'[r] = "none"
    /\ ret = "nil" /\ ~foreign => request' = request

NothingTakenAfterReturn == [][AfterwardsStep]_vars

(* A delivered signal ends the call within the timeout, even if requests   *)
(* never finish.                                                           *)
SignalEndsCall == signalled ~> ~Running

(* When the deadline passes, requests still in process are cut off.        *)
DeadlineCutsOff == ret = "deadline" => Active = {}
=============================================================================
