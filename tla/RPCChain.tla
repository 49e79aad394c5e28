------------------------------ MODULE RPCChain -------------------------------
(***************************************************************************)
(* One RPC on its way through the interceptors that grpckit.NewServer puts *)
(* in front of the handler: recovery, logging, then the caller's own.  The *)
(* unary and the stream interceptors have the same control flow.           *)
(*                                                                         *)
(* An error is either a status error, carrying a code, or an ordinary one: *)
(* "plain", or the raw error of the context.                               *)
(***************************************************************************)
EXTENDS Integers, Sequences

CONSTANT Users      \* how many interceptors the caller adds

ASSUME UsersAssumption == Users \in Nat

StatusErrs == {"NotFound", "Canceled", "DeadlineExceeded", "Internal"}
RawErrs    == {"plain", "rawCanceled", "rawDeadline"}
AppErrs    == {"nil", "NotFound"} \cup RawErrs   \* what application code returns

(* status.Code: what is not a status error is Unknown.                     *)
Code(err) ==
  CASE err = "nil" -> "OK" [] err \in StatusErrs -> err [] OTHER -> "Unknown"

(* status.FromContextError                                                 *)
FromContextError(err) ==
  CASE err = "rawCanceled" -> "Canceled"
    [] err = "rawDeadline" -> "DeadlineExceeded"
    [] OTHER -> "Unknown"

(* The code the server sends: context errors are recognised there.         *)
SentCode(err) ==
  IF err \in RawErrs THEN FromContextError(err) ELSE Code(err)

UserFrames == [u \in 1 .. Users |-> "user"]

Chain == <<"recovery", "logging">> \o UserFrames \o <<"handler">>

VARIABLES
  ctxErr,  \* ctx.Err() of the RPC's context, "nil" while it is live
  depth,   \* the frame that has control, 0 is the server itself
  mode,    \* "down" calling, "up" returning, "panic" unwinding
  err,     \* the error on its way up
  logs,    \* the records written: [level, code]
  sent,    \* the code the client gets, "none" before, "crash" of the process
  escaped, \* history: a panic has left the application's code
  refused  \* history: the context was over before the call was handed on

rpcVars == <<ctxErr, depth, mode, err, logs, sent, escaped, refused>>

RPCInit ==
  /\ ctxErr = "nil" /\ depth = 1 /\ mode = "down" /\ err = "nil"
  /\ logs = <<>> /\ sent = "none" /\ escaped = FALSE /\ refused = FALSE

Frame(f) == depth \in 1 .. Len(Chain) /\ Chain[depth] = f

Call == depth' = depth + 1 /\ UNCHANGED <<mode, err>>

ReturnErr(e) == depth' = depth - 1 /\ mode' = "up" /\ err' = e

Panic == depth' = depth - 1 /\ mode' = "panic" /\ UNCHANGED err

Log(level, code) == logs' = Append(logs, [level |-> level, code |-> code])

(* The client disconnects or its deadline passes.                          *)
ContextEnds(e) ==
  /\ ctxErr = "nil" /\ sent = "none"
  /\ ctxErr' = e
  /\ UNCHANGED <<depth, mode, err, logs, sent, escaped, refused>>

RecoveryEnter ==
  /\ Frame("recovery") /\ mode = "down"
  /\ IF ctxErr = "nil" THEN Call ELSE ReturnErr(FromContextError(ctxErr))
  /\ refused' = (ctxErr # "nil")
  /\ UNCHANGED <<ctxErr, logs, sent, escaped>>

(* Variant: the deferred function logs, but leaves the named result alone. *)
RecoveryLeaveForgetful ==
  /\ Frame("recovery") /\ mode # "down"
  /\ IF mode = "panic"
     THEN Log("ERROR", "none") /\ ReturnErr("nil")
     ELSE UNCHANGED logs /\ ReturnErr(err)
  /\ UNCHANGED <<ctxErr, sent, escaped, refused>>

(* The deferred function.                                                  *)
RecoveryLeave ==
  /\ Frame("recovery") /\ mode # "down"
  /\ IF mode = "panic"
     THEN Log("ERROR", "none") /\ ReturnErr("Internal")
     ELSE UNCHANGED logs /\ ReturnErr(err)
  /\ UNCHANGED <<ctxErr, sent, escaped, refused>>

LoggingEnter ==
  /\ Frame("logging") /\ mode = "down"
  /\ Call
  /\ UNCHANGED <<ctxErr, logs, sent, escaped, refused>>

(* Variant: the level follows the code, and Unknown is not worth a warning.*)
LoggingLeaveByCode ==
  /\ Frame("logging") /\ mode = "up"
  /\ Log(IF Code(err) \in {"OK", "Unknown"} THEN "INFO" ELSE "WARN", Code(err))
  /\ ReturnErr(err)
  /\ UNCHANGED <<ctxErr, sent, escaped, refused>>

LoggingLeave ==
  /\ Frame("logging") /\ mode = "up"
  /\ Log(IF err = "nil" THEN "INFO" ELSE "WARN", Code(err))
  /\ ReturnErr(err)
  /\ UNCHANGED <<ctxErr, sent, escaped, refused>>

(* Nothing is deferred here: a panic passes through.                       *)
LoggingUnwind ==
  /\ Frame("logging") /\ mode = "panic"
  /\ Panic
  /\ UNCHANGED <<ctxErr, logs, sent, escaped, refused>>

(* An interceptor of the application calls on, answers by itself, passes on*)
(* or replaces what comes back, recovers from a panic, or panics.          *)
User ==
  /\ Frame("user")
  /\ \/ mode = "down" /\ Call
     \/ \E e \in AppErrs : ReturnErr(e)
     \/ mode = "up" /\ ReturnErr(err)
     \/ Panic
  /\ escaped' = (mode' = "panic" /\ (depth > 1 => Chain[depth - 1] # "user"))
  /\ UNCHANGED <<ctxErr, logs, sent, refused>>

Handler ==
  /\ Frame("handler")
  /\ (\E e \in AppErrs : ReturnErr(e)) \/ Panic
  /\ escaped' = (mode' = "panic" /\ (depth > 1 => Chain[depth - 1] # "user"))
  /\ UNCHANGED <<ctxErr, logs, sent, refused>>

(* The server writes the status, or the goroutine dies of the panic.       *)
Answer ==
  /\ depth = 0 /\ sent = "none"
  /\ sent' = IF mode = "panic" THEN "crash" ELSE SentCode(err)
  /\ UNCHANGED <<ctxErr, depth, mode, err, logs, escaped, refused>>

Answered == sent # "none" /\ UNCHANGED rpcVars

RPCNext ==
  \/ \E e \in {"rawCanceled", "rawDeadline"} : ContextEnds(e)
  \/ RecoveryEnter \/ RecoveryLeave
  \/ LoggingEnter \/ LoggingLeave \/ LoggingUnwind
  \/ User \/ Handler \/ Answer \/ Answered

RPCSpec == RPCInit /\ [][RPCNext]_rpcVars

-----------------------------------------------------------------------------
(* A panic of the handler or of an interceptor that the application does   *)
(* not catch itself never reaches the server; the client sees Internal and *)
(* the log has the one ERROR record.                                       *)
PanicBecomesInternal ==
  sent # "none" =>
    /\ sent # "crash"
    /\ escaped => sent = "Internal" /\ logs = <<[level |-> "ERROR", code |-> "none"]>>

(* What the application returns as it is: the error of the context.        *)
RawContextErr == err \in {"rawCanceled", "rawDeadline"}

(* A call that passed the recovery's look at the context and did not panic *)
(* leaves exactly one record: the code the client is sent, at INFO for OK  *)
(* and at WARN for anything else.  Not so for a raw context error, which   *)
(* status.Code records as Unknown and the server translates when sending.  *)
RecordAgrees ==
  sent # "none" /\ ~refused /\ ~escaped /\ ~RawContextErr =>
    logs = <<[level |-> IF sent = "OK" THEN "INFO" ELSE "WARN", code |-> sent]>>

(* Structured request logging on every call (NewServer): whatever the      *)
(* client is told, there is a record.                                      *)
EveryCallLogged == sent # "none" => logs # <<>>

Finished == SelectSeq(logs, LAMBDA l : l.level # "ERROR")

(* A panic is translated before the status code is recorded: the record of *)
(* the call says Internal.                                                 *)
PanicsAreRecorded ==
  sent # "none" /\ escaped => Finished = <<[level |-> "WARN", code |-> "Internal"]>>
=============================================================================
