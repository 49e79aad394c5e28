------------------------------ MODULE KitProofs ------------------------------
(***************************************************************************)
(* Proofs about the parts a service is put together from: the telemetry    *)
(* SDK, the job queue, the migrations, the interceptors of a gRPC server   *)
(* and the configuration loader, for any number of callers, versions and   *)
(* interceptors and any struct type and environment.                       *)
(***************************************************************************)
EXTENDS Migrations, Telemetry, JobQueue, RPCChain, ConfigLoader, SequenceTheorems, TLAPS

-----------------------------------------------------------------------------
(* Telemetry.  Calls of InitSDK do not overlap, so that the one that has   *)
(* its tracer provider and no meter provider yet owns the global tracer.   *)
SDK ==
  [at : {"new", "failed", "traces", "ready", "stopped"},
   trace : {"none", "live", "down"}, metric : {"none", "live", "down"},
   errs : SUBSET {"traceErr", "metricErr"}]

TelType ==
  /\ sdk \in [Inits -> SDK]
  /\ global \in [propagator : BOOLEAN,
                 tracer : Inits \cup {"noop"}, meter : Inits \cup {"noop"}]

Providers ==
  \A k \in Inits :
    /\ sdk[k].trace = "live" <=> sdk[k].at \in {"traces", "ready"}
    /\ sdk[k].metric = "live" <=> sdk[k].at = "ready"
    /\ sdk[k].at = "traces" =>
         global.tracer = k /\ \A j \in Inits : sdk[j].at = "traces" => j = k

GlobalPair ==
  Quiet /\ global.tracer # global.meter =>
    \E k \in Inits : global.tracer = k /\ sdk[k].at = "failed"

TelInv == TelType /\ Providers /\ GlobalPair

LEMMA TelInitInv == TelemetryInit => TelInv
BY DEF TelemetryInit, TelInv, TelType, Providers, GlobalPair, SDK, NotCalled

LEMMA TelNextInv == TelInv /\ [TelemetryNext]_telVars => TelInv'
<1> SUFFICES ASSUME TelInv, [TelemetryNext]_telVars PROVE TelInv' OBVIOUS
<1> USE DEF TelInv, TelType, Providers, GlobalPair, SDK, Quiet
<1>1. ASSUME NEW k \in Inits, InitRefused(k) PROVE TelInv'
  BY <1>1 DEF InitRefused
<1>2. ASSUME NEW k \in Inits, InitTraceFails(k) PROVE TelInv'
  <2>1. global'.tracer = global.tracer /\ global'.meter = global.meter
    BY <1>2 DEF InitTraceFails
  <2>2. TelType'
    <3>1. global' = [propagator |-> TRUE, tracer |-> global.tracer, meter |-> global.meter]
      BY <1>2 DEF InitTraceFails
    <3>2. sdk' \in [Inits -> SDK] BY <1>2 DEF InitTraceFails
    <3> QED BY <3>1, <3>2
  <2>3. Providers' BY <1>2, <2>1 DEF InitTraceFails
  <2>4. GlobalPair' BY <1>2, <2>1 DEF InitTraceFails
  <2> QED BY <2>2, <2>3, <2>4
<1>3. ASSUME NEW k \in Inits, InitTrace(k) PROVE TelInv'
  BY <1>3 DEF InitTrace
<1>4. ASSUME NEW k \in Inits, InitMetricFails(k) PROVE TelInv'
  BY <1>4 DEF InitMetricFails
<1>5. ASSUME NEW k \in Inits, InitMetric(k) PROVE TelInv'
  BY <1>5 DEF InitMetric
<1>6. ASSUME NEW k \in Inits, NEW errs \in SUBSET {"traceErr", "metricErr"},
             Shutdown(k, errs)
      PROVE  TelInv'
  BY <1>6 DEF Shutdown
<1>7. CASE UNCHANGED telVars
  BY <1>7 DEF telVars
<1> QED
  BY <1>1, <1>2, <1>3, <1>4, <1>5, <1>6, <1>7 DEF TelemetryNext, NoMoreInits

(* No exporter runs that nobody can stop, and the global providers are a   *)
(* live pair unless an InitSDK failed at its metrics (InitSDK and the      *)
(* function it returns).                                                   *)
THEOREM ExportersStoppable == TelemetrySpec => []NoOrphanExporter
<1>1. TelInv => NoOrphanExporter
  BY DEF TelInv, Providers, GlobalPair, NoOrphanExporter
<1> QED BY <1>1, TelInitInv, TelNextInv, PTL DEF TelemetrySpec

-----------------------------------------------------------------------------
(* Job queue.  Whoever has looked at the flag and not yet registered or    *)
(* panicked holds the lock, and nobody else does; Start needs it.          *)
Inside(g) == reg[g].at \in {"register", "refuse"}

QueueType ==
  /\ reg \in [Registrars -> [at : {"idle", "register", "refuse", "registered", "panicked"},
                             pattern : Patterns \cup {"none"}]]
  /\ started \in BOOLEAN
  /\ mu = "free" \/ mu \in Registrars
  /\ \A g \in Registrars : mu = g <=> Inside(g)

FlagFirst ==
  /\ starter = "starting" \/ server # "new" => started
  /\ started => \A g \in Registrars : reg[g].at # "register"

QueueInv == QueueType /\ FlagFirst

LEMMA QueueInitInv == JobQueueInit => QueueInv
<1> SUFFICES ASSUME JobQueueInit PROVE QueueInv OBVIOUS
<1>1. \A g \in Registrars : reg[g] = [at |-> "idle", pattern |-> "none"]
  BY DEF JobQueueInit
<1>2. QueueType
  BY <1>1, RegistrarsAssumption DEF JobQueueInit, QueueType, Inside
<1>3. FlagFirst
  BY <1>1 DEF JobQueueInit, FlagFirst
<1> QED BY <1>2, <1>3 DEF QueueInv

LEMMA QueueNextInv == QueueInv /\ [JobQueueNext]_queueVars => QueueInv'
<1> SUFFICES ASSUME QueueInv, [JobQueueNext]_queueVars PROVE QueueInv' OBVIOUS
<1> USE RegistrarsAssumption DEF QueueInv, QueueType, FlagFirst, Inside
<1>1. ASSUME NEW g \in Registrars, NEW pattern \in Patterns, HandleFunc(g, pattern)
      PROVE  QueueInv'
  BY <1>1 DEF HandleFunc
<1>2. ASSUME NEW g \in Registrars, Refuse(g) PROVE QueueInv'
  BY <1>2 DEF Refuse
<1>3. ASSUME NEW g \in Registrars, Register(g) PROVE QueueInv'
  BY <1>3 DEF Register
<1>4. CASE Start BY <1>4 DEF Start
<1>5. CASE StartServer BY <1>5 DEF StartServer
<1>6. CASE Stop BY <1>6 DEF Stop
<1>7. CASE UNCHANGED queueVars BY <1>7 DEF queueVars
<1> QED
  BY <1>1, <1>2, <1>3, <1>4, <1>5, <1>6, <1>7 DEF JobQueueNext, LiveOn

(* After Start has set the flag no registration changes the mux that the   *)
(* workers read (HandleFunc, Start).                                       *)
THEOREM MuxFrozen == JobQueueSpec => HandlersFrozen
<1>1. QueueInv /\ [JobQueueNext]_queueVars =>
        [server # "new" \/ starter = "starting" => handlers' = handlers]_queueVars
  BY DEF QueueInv, FlagFirst, JobQueueNext, HandleFunc, Refuse, Register, Start,
         StartServer, Stop, LiveOn, queueVars
<1> QED BY <1>1, QueueInitInv, QueueNextInv, PTL DEF JobQueueSpec, HandlersFrozen

(* The lock is free whenever no HandleFunc is between its check and its    *)
(* end: a registration that panicked, late or twice, has released it.      *)
QueueLockFree == (\A g \in Registrars : ~Inside(g)) => mu = "free"

(* HandleFunc never leaves the lock behind (its deferred Unlock).          *)
THEOREM QueueLockReleased == JobQueueSpec => []QueueLockFree
<1>1. QueueInv => QueueLockFree BY DEF QueueInv, QueueType, QueueLockFree
<1> QED BY <1>1, QueueInitInv, QueueNextInv, PTL DEF JobQueueSpec

-----------------------------------------------------------------------------
(* gRPC interceptors.  The frames of a call, for any number of the         *)
(* application's own interceptors.                                         *)
LEMMA Frames ==
  /\ Len(Chain) = Users + 3
  /\ Chain[1] = "recovery" /\ Chain[2] = "logging" /\ Chain[Users + 3] = "handler"
  /\ \A i \in 3 .. Users + 2 : Chain[i] = "user"
<1>1. UserFrames \in Seq({"user"}) /\ Len(UserFrames) = Users
  BY UsersAssumption DEF UserFrames
<1>2. \A u \in 1 .. Users : UserFrames[u] = "user"
  BY DEF UserFrames
<1> QED BY <1>1, <1>2, UsersAssumption DEF Chain

(* The record that LoggingInterceptor writes of an error.                  *)
Record(e) == [level |-> IF e = "nil" THEN "INFO" ELSE "WARN", code |-> Code(e)]

PanicRecord == [level |-> "ERROR", code |-> "none"]

RPCType ==
  /\ ctxErr \in {"nil", "rawCanceled", "rawDeadline"}
  /\ depth \in 0 .. Users + 3
  /\ mode \in {"down", "up", "panic"}
  /\ err \in {"nil"} \cup StatusErrs \cup RawErrs
  /\ escaped \in BOOLEAN /\ refused \in BOOLEAN

(* What has been written and has escaped, by the frame that has control.   *)
Inner == depth >= 2 => logs = <<>> /\ (escaped <=> depth = 2 /\ mode = "panic")

AtRecovery ==
  depth = 1 =>
    /\ logs = IF mode = "up" THEN <<Record(err)>> ELSE <<>>
    /\ escaped <=> mode = "panic"

AtServer ==
  depth = 0 =>
    /\ mode = "up"
    /\ \/ escaped /\ err = "Internal" /\ logs = <<PanicRecord>>
       \/ ~escaped /\ logs = <<Record(err)>>
       \/ ~escaped /\ refused /\ logs = <<>> /\ err \in {"Canceled", "DeadlineExceeded"}

SentIsErr == sent # "none" => depth = 0 /\ sent = SentCode(err)

RPCInv == RPCType /\ Inner /\ AtRecovery /\ AtServer /\ SentIsErr

LEMMA RPCInitInv == RPCInit => RPCInv
<1> SUFFICES ASSUME RPCInit PROVE RPCInv OBVIOUS
<1>1. RPCType
  <2>1. depth \in 0 .. Users + 3 BY UsersAssumption DEF RPCInit
  <2> QED BY <2>1, Zenon DEF RPCInit, RPCType
<1>2. Inner BY DEF RPCInit, Inner
<1>3. AtRecovery BY DEF RPCInit, AtRecovery
<1>4. AtServer BY DEF RPCInit, AtServer
<1>5. SentIsErr BY DEF RPCInit, SentIsErr
<1> QED BY <1>1, <1>2, <1>3, <1>4, <1>5 DEF RPCInv

LEMMA RPCNextInv == RPCInv /\ [RPCNext]_rpcVars => RPCInv'
<1> SUFFICES ASSUME RPCInv, [RPCNext]_rpcVars PROVE RPCInv' OBVIOUS
<1> USE UsersAssumption DEF RPCInv, RPCType
<1>f. /\ Frame("recovery") => depth = 1
      /\ Frame("logging") => depth = 2
      /\ Frame("user") => depth \in 3 .. Users + 2
      /\ Frame("handler") => depth = Users + 3
  BY Frames DEF Frame
<1>1. ASSUME NEW e \in {"rawCanceled", "rawDeadline"}, ContextEnds(e) PROVE RPCInv'
  BY <1>1 DEF ContextEnds, Inner, AtRecovery, AtServer, SentIsErr
<1>2. CASE RecoveryEnter
  <2>1. FromContextError(ctxErr) \in {"Canceled", "DeadlineExceeded"} \/ ctxErr = "nil"
    BY DEF FromContextError
  <2>2. depth = 1 /\ mode = "down" /\ UNCHANGED <<ctxErr, logs, sent, escaped>>
    BY <1>2, <1>f DEF RecoveryEnter
  <2>3. refused' \in BOOLEAN /\ (ctxErr # "nil" => refused')
    BY <1>2, Zenon DEF RecoveryEnter
  <2>4. \/ ctxErr = "nil" /\ depth' = 2 /\ mode' = mode /\ err' = err
        \/ /\ ctxErr # "nil" /\ depth' = 0 /\ mode' = "up"
           /\ err' = FromContextError(ctxErr)
    BY <1>2, <2>2 DEF RecoveryEnter, Call, ReturnErr
  <2> QED BY <2>1, <2>2, <2>3, <2>4
    DEF Inner, AtRecovery, AtServer, SentIsErr, StatusErrs
<1>3. CASE RecoveryLeave
  <2>1. depth = 1 /\ depth' = 0 /\ mode' = "up" /\ mode # "down"
    BY <1>3, <1>f DEF RecoveryLeave, ReturnErr
  <2>2. mode = "panic" => logs' = <<PanicRecord>> /\ err' = "Internal"
    BY <1>3, <2>1 DEF RecoveryLeave, Log, ReturnErr, AtRecovery, PanicRecord
  <2>3. mode = "up" => logs' = <<Record(err)>> /\ err' = err
    BY <1>3, <2>1 DEF RecoveryLeave, ReturnErr, AtRecovery
  <2>4. UNCHANGED <<ctxErr, sent, escaped, refused>> BY <1>3 DEF RecoveryLeave
  <2>5. RPCType' BY <2>1, <2>2, <2>3, <2>4 DEF StatusErrs
  <2>6. AtServer' BY <2>1, <2>2, <2>3, <2>4 DEF AtRecovery, AtServer
  <2> QED BY <2>1, <2>4, <2>5, <2>6 DEF Inner, AtRecovery, SentIsErr
<1>4. CASE LoggingEnter
  BY <1>4, <1>f DEF LoggingEnter, Call, Inner, AtRecovery, AtServer, SentIsErr
<1>5. CASE LoggingLeave
  BY <1>5, <1>f
  DEF LoggingLeave, Log, ReturnErr, Inner, AtRecovery, AtServer, SentIsErr, Record
<1>6. CASE LoggingUnwind
  BY <1>6, <1>f DEF LoggingUnwind, Panic, Inner, AtRecovery, AtServer, SentIsErr
<1>e. depth \in 3 .. Users + 3 => (Chain[depth - 1] # "user" <=> depth = 3)
  BY Frames
<1>7. ASSUME User \/ Handler PROVE RPCInv'
  <2>0. depth \in 3 .. Users + 3 BY <1>7, <1>f DEF User, Handler
  <2>1. escaped' = (mode' = "panic" /\ depth = 3)
    BY <1>7, <2>0, <1>e DEF User, Handler
  <2>2. /\ depth' \in {depth - 1, depth + 1} /\ depth' <= Users + 3
        /\ mode' \in {"down", "up", "panic"}
        /\ depth' = depth + 1 => mode' = "down"
        /\ err' \in {"nil"} \cup StatusErrs \cup RawErrs
    BY <1>7, <1>f
    DEF User, Handler, Call, ReturnErr, Panic, AppErrs, StatusErrs
  <2>3. UNCHANGED <<ctxErr, logs, sent, refused>> /\ escaped' \in BOOLEAN
    BY <1>7 DEF User, Handler
  <2>4. RPCType' BY <2>0, <2>2, <2>3
  <2>5. Inner'
    <3>1. logs' = <<>> BY <2>0, <2>3 DEF Inner
    <3>2. depth' = 2 /\ mode' = "panic" <=> mode' = "panic" /\ depth = 3
      BY <2>0, <2>2
    <3> QED BY <2>1, <3>1, <3>2 DEF Inner
  <2>6. AtRecovery' /\ AtServer' BY <2>0, <2>2 DEF AtRecovery, AtServer
  <2>7. SentIsErr' BY <2>0, <2>3 DEF SentIsErr
  <2> QED BY <2>4, <2>5, <2>6, <2>7
<1>8. CASE Answer
  BY <1>8 DEF Answer, Inner, AtRecovery, AtServer, SentIsErr
<1>9. CASE UNCHANGED rpcVars
  BY <1>9 DEF rpcVars, Inner, AtRecovery, AtServer, SentIsErr
<1> QED
  BY <1>1, <1>2, <1>3, <1>4, <1>5, <1>6, <1>7, <1>8, <1>9 DEF RPCNext, Answered

(* A panic that leaves the application's code is Internal to the client    *)
(* and has its ERROR record, and the server never sees it                  *)
(* (RecoveryInterceptor), however many interceptors there are.             *)
THEOREM PanicsBecomeInternal == RPCSpec => []PanicBecomesInternal
<1>1. RPCInv => PanicBecomesInternal
  BY DEF RPCInv, RPCType, AtServer, SentIsErr, PanicBecomesInternal, PanicRecord,
         SentCode, Code, FromContextError, StatusErrs, RawErrs
<1> QED BY <1>1, RPCInitInv, RPCNextInv, PTL DEF RPCSpec

(* A call that is handed on, does not panic and does not return a raw      *)
(* context error has one record, with the status that the client is sent   *)
(* (LoggingInterceptor), however many interceptors there are.              *)
THEOREM RecordsAgree == RPCSpec => []RecordAgrees
<1>1. RPCInv => RecordAgrees
  BY DEF RPCInv, RPCType, AtServer, SentIsErr, RecordAgrees, RawContextErr, Record,
         SentCode, Code, FromContextError, StatusErrs, RawErrs
<1> QED BY <1>1, RPCInitInv, RPCNextInv, PTL DEF RPCSpec

-----------------------------------------------------------------------------
(* Migrations.  s goes from version v to version g, one by one.            *)
Follows(s, v, g) ==
  \/ v <= g /\ Len(s) = g - v /\ \A i \in 1 .. Len(s) : s[i] = v + i
  \/ g <= v /\ Len(s) = v - g /\ \A i \in 1 .. Len(s) : s[i] = v - i

Versions == 0 .. Latest

(* The rest of a path is a path from its first step on.                    *)
LEMMA FollowsOn ==
  ASSUME NEW s \in Seq(Versions), NEW v \in Versions, NEW g \in Int,
         Follows(s, v, g), s # <<>>
  PROVE  Head(s) \in Versions /\ Tail(s) \in Seq(Versions) /\ Follows(Tail(s), Head(s), g)
<1>1. Len(s) \in Nat \ {0} /\ Head(s) = s[1] /\ Head(s) \in Versions
  OBVIOUS
<1>2. Tail(s) \in Seq(Versions) /\ Len(Tail(s)) = Len(s) - 1
  OBVIOUS
<1>3. \A i \in 1 .. Len(Tail(s)) : Tail(s)[i] = s[i + 1]
  BY <1>2
<1>4. v \in Int BY MigrationsAssumption DEF Versions
<1>5. CASE v <= g /\ Len(s) = g - v /\ \A i \in 1 .. Len(s) : s[i] = v + i
  <2>1. Head(s) = v + 1 BY <1>1, <1>5
  <2>2. \A i \in 1 .. Len(Tail(s)) : Tail(s)[i] = (v + 1) + i
    BY <1>1, <1>2, <1>3, <1>4, <1>5
  <2>3. v + 1 <= g /\ Len(Tail(s)) = g - (v + 1) BY <1>1, <1>2, <1>4, <1>5
  <2> QED BY <1>1, <1>2, <2>1, <2>2, <2>3 DEF Follows
<1>6. CASE g <= v /\ Len(s) = v - g /\ \A i \in 1 .. Len(s) : s[i] = v - i
  <2>1. Head(s) = v - 1 BY <1>1, <1>6
  <2>2. \A i \in 1 .. Len(Tail(s)) : Tail(s)[i] = (v - 1) - i
    BY <1>1, <1>2, <1>3, <1>4, <1>6
  <2>3. g <= v - 1 /\ Len(Tail(s)) = (v - 1) - g BY <1>1, <1>2, <1>4, <1>6
  <2> QED BY <1>1, <1>2, <2>1, <2>2, <2>3 DEF Follows
<1> QED BY <1>5, <1>6 DEF Follows

Calls == {"none", "Up", "Down", "Steps", "Version"}

(* What Up, Down and Steps set out to do leads to the version asked for,   *)
(* unless there is an error to return afterwards.                          *)
LEMMA PlanFacts ==
  ASSUME NEW m, m.call \in {"Up", "Down", "Steps"}, m.n \in Int,
         m.call = "Down" => m.n <= 0, m.call = "Steps" => m.n > 0,
         m.from \in Versions
  PROVE  LET plan == Plan(m.call, m.n, m.from) IN
         /\ plan.todo \in Seq(Versions)
         /\ plan.err \in {"nil", "ErrNoChange", "ErrNotExist", "ErrShortLimit"}
         /\ plan.err \in {"nil", "ErrNoChange"} =>
              Goal(m) \in Int /\ Follows(plan.todo, m.from, Goal(m))
<1> DEFINE v == m.from
           up == [i \in 1 .. Latest - v |-> v + i]
           down(k) == [i \in 1 .. k |-> v - i]
<1>0. Latest \in Nat /\ v \in 0 .. Latest
  BY MigrationsAssumption DEF Versions
<1>1. up \in Seq(Versions) /\ Follows(up, v, Latest)
  BY <1>0 DEF Follows, Versions
<1>2. ASSUME NEW k \in 0 .. v PROVE down(k) \in Seq(Versions) /\ Follows(down(k), v, v - k)
  BY <1>0, <1>2 DEF Follows, Versions
<1>3. CASE m.call = "Up"
  <2>1. Plan(m.call, m.n, v) =
          [todo |-> up, err |-> IF v = Latest THEN "ErrNoChange" ELSE "nil"]
    BY <1>3 DEF Plan
  <2>2. Goal(m) = Latest BY <1>3 DEF Goal
  <2> QED BY <1>0, <1>1, <2>1, <2>2
<1>4. CASE m.call = "Down"
  <2>1. Plan(m.call, m.n, v) =
          [todo |-> down(v), err |-> IF v = 0 THEN "ErrNoChange" ELSE "nil"]
    BY <1>4 DEF Plan
  <2>2. Goal(m) = v - v BY <1>0, <1>4 DEF Goal
  <2>3. v \in 0 .. v /\ v - v \in Int BY <1>0
  <2>4. down(v) \in Seq(Versions) /\ Follows(down(v), v, v - v) BY <1>2, <2>3
  <2> HIDE DEF down
  <2> QED BY <2>1, <2>2, <2>3, <2>4
<1>5. CASE m.call = "Steps"
  <2>1. CASE v = 0
    <3>1. Plan(m.call, m.n, v) = [todo |-> <<>>, err |-> "ErrNotExist"]
      BY <1>5, <2>1 DEF Plan
    <3> QED BY <3>1
  <2>2. CASE v # 0
    <3>1. Plan(m.call, m.n, v) =
            [todo |-> down(IF m.n <= v THEN m.n ELSE v),
             err |-> IF m.n <= v THEN "nil" ELSE "ErrShortLimit"]
      BY <1>0, <1>5, <2>2 DEF Plan
    <3>2. m.n <= v => Goal(m) = v - m.n /\ m.n \in 0 .. v
      BY <1>0, <1>5 DEF Goal
    <3>3. v \in 0 .. v BY <1>0
    <3>4. CASE m.n <= v
      <4>1. down(m.n) \in Seq(Versions) /\ Follows(down(m.n), v, v - m.n)
        BY <1>2, <3>2, <3>4
      <4>2. v - m.n \in Int BY <1>0
      <4> HIDE DEF down
      <4> QED BY <3>1, <3>2, <3>4, <4>1, <4>2
    <3>5. CASE ~(m.n <= v) BY <1>2, <3>1, <3>3, <3>5
    <3> QED BY <3>4, <3>5
  <2> QED BY <2>1, <2>2
<1> QED BY <1>3, <1>4, <1>5

Holding == {"locked", "mark", "body", "clean", "unlock"}

MigErrs ==
  {"nil", "ErrNoChange", "ErrNotExist", "ErrShortLimit", "ErrDirty", "openErr",
   "lockErr", "stepErr", "unlockErr", "versionErr", "sourceErr", "dbErr"}

Migration ==
  [call : Calls, n : Int, at : {"idle", "open", "close", "returned"} \cup Holding,
   from : Versions, todo : Seq(Versions), err : MigErrs,
   seen : [version : Versions, dirty : BOOLEAN]]

MigType ==
  /\ version \in Versions /\ dirty \in BOOLEAN
  /\ advisory \in Migrators \cup {"nobody"}
  /\ mig \in [Migrators -> Migration]
  /\ db \in [Migrators -> {"none", "open", "closed"}]

Fine(m) == m.err \in {"nil", "ErrNoChange"}

(* The call m of process p, its pool, the table and the lock.              *)
(* Who works on the schema holds the lock, and who holds the lock is at    *)
(* work or about to close its session after a failed unlock.               *)
Locked(p, m, pool, holder) ==
  /\ m.at \in Holding => holder = p
  /\ holder = p => m.at \in Holding \cup {"close"}
  /\ m.at \in Holding \cup {"open", "close"} => pool = "open"
  /\ m.at # "returned" => m.err # "openErr"

Asked(m) ==
  /\ m.call = "Down" => m.n <= 0
  /\ m.call = "Steps" => m.n > 0
  /\ m.at \in Holding \cup {"open"} => m.call # "none"
  /\ m.call = "Version" => m.at \notin Holding

(* What is left to do leads from the version of the table to the goal, and *)
(* the table is clean between two migrations.                              *)
OnTheWay(m, v, d) ==
  /\ m.at \in {"idle", "open", "locked"} => m.todo = <<>> /\ m.err = "nil"
  /\ m.at = "mark" => ~d /\ (Fine(m) => Follows(m.todo, v, Goal(m)))
  /\ m.at \in {"body", "clean"} =>
       m.todo # <<>> /\ (Fine(m) => Follows(Tail(m.todo), v, Goal(m)))
  /\ m.at = "unlock" => (Fine(m) => ~d /\ v = Goal(m))

Outcome(m) ==
  /\ m.at \in {"unlock", "close", "returned"} /\ m.todo # <<>> => m.err = "stepErr"
  /\ m.at \in {"close", "returned"} /\ m.call # "Version" /\ Fine(m) =>
       m.seen = [version |-> Goal(m), dirty |-> FALSE]

Returned(m, pool) ==
  m.at = "returned" => (pool = "open" <=> m.err = "openErr") /\ m.err # "ErrNoChange"

CallOK(p, m, v, d, holder, pool) ==
  /\ Locked(p, m, pool, holder) /\ Asked(m)
  /\ OnTheWay(m, v, d) /\ Outcome(m) /\ Returned(m, pool)

MigInv ==
  /\ MigType
  /\ \A p \in Migrators : CallOK(p, mig[p], version, dirty, advisory, db[p])

(* A step of p leaves everything alone that another process counts on.     *)
MigMove(p) ==
  \A q \in Migrators \ {p} :
    /\ mig'[q] = mig[q] /\ db'[q] = db[q]
    /\ advisory' = q <=> advisory = q
    /\ advisory = q => version' = version /\ dirty' = dirty

LEMMA MigMoveInv ==
  ASSUME MigInv, MigType', NEW p \in Migrators, MigMove(p),
         CallOK(p, mig'[p], version', dirty', advisory', db'[p])
  PROVE  MigInv'
<1>1. ASSUME NEW q \in Migrators \ {p}
      PROVE  CallOK(q, mig'[q], version', dirty', advisory', db'[q])
  <2>1. CallOK(q, mig[q], version, dirty, advisory, db[q]) BY DEF MigInv
  <2>2. mig'[q] = mig[q] /\ db'[q] = db[q] /\ (advisory' = q <=> advisory = q)
    BY DEF MigMove
  <2>3. CASE advisory = q
    BY <2>1, <2>2, <2>3 DEF MigMove
  <2>4. CASE advisory # q
    <3>1. mig[q].at \notin Holding BY <2>1, <2>4 DEF CallOK, Locked
    <3>2. OnTheWay(mig[q], version', dirty')
      BY <2>1, <3>1 DEF CallOK, OnTheWay, Holding
    <3>3. Locked(q, mig[q], db[q], advisory')
      BY <2>1, <2>2, <2>4, <3>1 DEF CallOK, Locked
    <3> QED BY <2>1, <2>2, <3>2, <3>3 DEF CallOK
  <2> QED BY <2>3, <2>4
<1> QED BY <1>1 DEF MigInv

LEMMA MigInitInv == MigrationsInit => MigInv
<1> SUFFICES ASSUME MigrationsInit PROVE MigInv OBVIOUS
<1>1. 0 \in Versions BY MigrationsAssumption DEF Versions
<1>2. NoMigration \in Migration
  BY <1>1 DEF NoMigration, Migration, Calls, Holding, MigErrs
<1>3. MigType BY <1>1, <1>2 DEF MigrationsInit, MigType
<1>4. ASSUME NEW p \in Migrators
      PROVE  CallOK(p, mig[p], version, dirty, advisory, db[p])
  <2>1. mig[p] = NoMigration /\ advisory # p
    BY MigrationsAssumption DEF MigrationsInit
  <2> QED BY <2>1
    DEF NoMigration, CallOK, Locked, Asked, OnTheWay, Outcome, Returned, Holding
<1> QED BY <1>3, <1>4 DEF MigInv

(* The goal of a call is a number.                                         *)
LEMMA GoalType == ASSUME NEW m \in Migration PROVE Goal(m) \in Int
BY MigrationsAssumption DEF Goal, Migration, Versions

(* The steps of a call that do not touch the table.                        *)
LEMMA CallMoves ==
  ASSUME MigInv, NEW p \in Migrators,
         \/ Connect(p) \/ MoveOn(p) \/ Crash(p)
         \/ \E call \in Calls \ {"none"}, n \in Int :
              Open(p, call, n) /\ (call = "Down" => n <= 0) /\ (call = "Steps" => n > 0)
  PROVE  MigInv'
<1>0. /\ mig[p] \in Migration /\ MigType
      /\ CallOK(p, mig[p], version, dirty, advisory, db[p])
  BY DEF MigInv, MigType
<1>1. NoMigration \in Migration /\ \A v, d :
        /\ Asked(NoMigration) /\ OnTheWay(NoMigration, v, d)
        /\ Outcome(NoMigration)
        /\ \A pool : Returned(NoMigration, pool)
        /\ \A holder, pool : holder # p => Locked(p, NoMigration, pool, holder)
  BY MigrationsAssumption
  DEF NoMigration, Migration, Versions, Calls, Holding, MigErrs, Locked, Asked,
      OnTheWay, Outcome, Returned
<1>2. CASE Connect(p)
  <2>1. MigType' /\ MigMove(p) BY <1>0, <1>2 DEF Connect, MigType, MigMove, table
  <2>2. mig' = mig /\ advisory' = advisory /\ version' = version /\ dirty' = dirty
    BY <1>2 DEF Connect, table
  <2>3. CallOK(p, mig[p], version, dirty, advisory, db'[p])
    BY <1>0, <1>2 DEF Connect, MigType, CallOK, Locked, Returned, Holding
  <2> QED BY <2>1, <2>2, <2>3, MigMoveInv
<1>3. CASE MoveOn(p)
  <2>1. mig' = [mig EXCEPT ![p] = NoMigration] /\ mig'[p] = NoMigration
    BY <1>0, <1>3 DEF MoveOn, Move, MigType
  <2>2. MigType' /\ MigMove(p) /\ advisory # p /\ UNCHANGED <<version, dirty, advisory, db>>
    BY <1>0, <1>1, <1>3, <2>1
    DEF MoveOn, Move, MigType, MigMove, table, CallOK, Locked, Holding
  <2> QED BY <1>1, <2>1, <2>2, MigMoveInv DEF CallOK
<1>4. CASE Crash(p)
  <2>1. mig' = [mig EXCEPT ![p] = NoMigration] /\ mig'[p] = NoMigration
    BY <1>0, <1>4 DEF Crash, MigType
  <2>2. MigType' /\ MigMove(p) /\ advisory' # p
    BY <1>0, <1>1, <1>4, <2>1, MigrationsAssumption DEF Crash, MigType, MigMove, table
  <2> QED BY <1>1, <2>1, <2>2, MigMoveInv DEF CallOK
<1>5. ASSUME NEW call \in Calls \ {"none"}, NEW n \in Int,
             call = "Down" => n <= 0, call = "Steps" => n > 0, Open(p, call, n)
      PROVE  MigInv'
  <2>1. PICK where \in {"open", "returned"} :
          mig' = [mig EXCEPT ![p] =
                    [NoMigration EXCEPT !.call = call, !.n = n, !.at = where,
                       !.err = IF where = "open" THEN "nil" ELSE "openErr"]]
    BY <1>5 DEF Open
  <2> DEFINE m == [NoMigration EXCEPT !.call = call, !.n = n, !.at = where,
                     !.err = IF where = "open" THEN "nil" ELSE "openErr"]
  <2>2. mig'[p] = m /\ m \in Migration
    BY <1>0, <1>1, <2>1 DEF MigType, NoMigration, Migration, MigErrs
  <2>3. MigType' /\ MigMove(p) /\ UNCHANGED <<version, dirty, advisory, db>>
    BY <1>0, <1>5, <2>1, <2>2 DEF Open, MigType, MigMove, table
  <2>4. advisory # p /\ db[p] = "open"
    BY <1>0, <1>5 DEF Open, CallOK, Locked, Holding
  <2>5. CallOK(p, m, version, dirty, advisory, db[p])
    BY <1>5, <2>4
    DEF NoMigration, CallOK, Locked, Asked, OnTheWay, Outcome, Returned, Holding, Fine
  <2> QED BY <2>2, <2>3, <2>5, MigMoveInv
<1> QED BY <1>2, <1>3, <1>4, <1>5

(* The steps of the library: the lock, the plan, the table, and the end.   *)
LEMMA LockMoves ==
  ASSUME MigInv, NEW p \in Migrators,
         \/ Lock(p) \/ LockFails(p) \/ \E e \in {"nil", "versionErr"} : ReadVersion(p, e)
  PROVE  MigInv'
<1>0. /\ mig[p] \in Migration /\ MigType
      /\ CallOK(p, mig[p], version, dirty, advisory, db[p])
  BY DEF MigInv, MigType
<1>1. CASE Lock(p)
  <2> DEFINE m == [mig[p] EXCEPT !.at = "locked"]
  <2>1. mig' = [mig EXCEPT ![p] = m] /\ mig'[p] = m /\ m \in Migration /\ mig[p].at = "open"
    BY <1>0, <1>1 DEF Lock, Move, MigType, Migration, Holding
  <2>2. MigType' /\ MigMove(p) /\ UNCHANGED <<version, dirty, db>> /\ advisory' = p
    BY <1>0, <1>1, <2>1, MigrationsAssumption DEF Lock, MigType, MigMove, table
  <2>3. CallOK(p, m, version, dirty, p, db[p])
    BY <1>0, <1>1, <2>1
    DEF Lock, CallOK, Locked, Asked, OnTheWay, Outcome, Returned, Holding, Migration
  <2> QED BY <2>1, <2>2, <2>3, MigMoveInv
<1>2. CASE LockFails(p)
  <2> DEFINE m == [mig[p] EXCEPT !.at = "close", !.err = "lockErr"]
  <2>1. mig' = [mig EXCEPT ![p] = m] /\ mig'[p] = m /\ m \in Migration /\ mig[p].at = "open"
    BY <1>0, <1>2 DEF LockFails, Move, MigType, Migration, MigErrs
  <2>2. MigType' /\ MigMove(p) /\ UNCHANGED <<version, dirty, advisory, db>>
    BY <1>0, <1>2, <2>1 DEF LockFails, MigType, MigMove, table
  <2>3. CallOK(p, m, version, dirty, advisory, db[p])
    BY <1>0, <2>1
    DEF CallOK, Locked, Asked, OnTheWay, Outcome, Returned, Holding, Migration, Fine
  <2> QED BY <2>1, <2>2, <2>3, MigMoveInv
<1>3. ASSUME NEW e \in {"nil", "versionErr"}, ReadVersion(p, e) PROVE MigInv'
  <2> DEFINE m == [mig[p] EXCEPT !.at = "close", !.err = e,
                                 !.seen = IF version = 0 THEN @ ELSE Table]
  <2>0. Table \in [version : Versions, dirty : BOOLEAN] BY <1>0 DEF Table, MigType
  <2>1. mig' = [mig EXCEPT ![p] = m] /\ mig'[p] = m /\ mig[p].at = "open"
    BY <1>0, <1>3 DEF ReadVersion, Move, MigType
  <2>a. m \in Migration BY <1>0, <2>0 DEF Migration, MigErrs
  <2>b. m.at = "close" /\ m.call = "Version" /\ m.err = e /\ m.todo = <<>> /\ m.n = mig[p].n
    BY <1>0, <1>3, <2>1 DEF ReadVersion, Migration, CallOK, OnTheWay
  <2>2. MigType' /\ MigMove(p) /\ UNCHANGED <<version, dirty, advisory, db>>
    BY <1>0, <1>3, <2>1, <2>a DEF ReadVersion, MigType, MigMove, table
  <2> HIDE DEF m
  <2>3. CallOK(p, m, version, dirty, advisory, db[p])
    BY <1>0, <2>1, <2>b
    DEF CallOK, Locked, Asked, OnTheWay, Outcome, Returned, Holding
  <2> QED BY <2>1, <2>2, <2>3, MigMoveInv
<1> QED BY <1>1, <1>2, <1>3

LEMMA BeginMoves ==
  ASSUME MigInv, NEW p \in Migrators, Begin(p) PROVE MigInv'
<1>0. /\ mig[p] \in Migration /\ MigType /\ mig[p].at = "locked"
      /\ CallOK(p, mig[p], version, dirty, advisory, db[p])
  BY DEF MigInv, MigType, Begin, Move
<1>1. UNCHANGED <<version, dirty, advisory, db>> BY DEF Begin, table
<1>2. ASSUME NEW m \in Migration, mig' = [mig EXCEPT ![p] = m]
      PROVE  MigType' /\ MigMove(p) /\ mig'[p] = m
  BY <1>0, <1>1, <1>2 DEF MigType, MigMove
<1>3. CASE dirty
  <2> DEFINE m == [mig[p] EXCEPT !.at = "unlock", !.err = "ErrDirty"]
  <2>1. mig' = [mig EXCEPT ![p] = m] BY <1>3 DEF Begin, Move
  <2>2. m \in Migration BY <1>0 DEF Migration, Holding, MigErrs
  <2>3. CallOK(p, m, version, dirty, advisory, db[p])
    BY <1>0
    DEF CallOK, Locked, Asked, OnTheWay, Outcome, Returned, Holding, Migration, Fine
  <2> QED BY <1>1, <1>2, <2>1, <2>2, <2>3, MigMoveInv
<1>4. CASE ~dirty
  <2> DEFINE plan == Plan(mig[p].call, mig[p].n, version)
             m == [mig[p] EXCEPT !.at = "mark", !.from = version,
                                 !.todo = plan.todo, !.err = plan.err]
  <2>1. mig' = [mig EXCEPT ![p] = m] BY <1>4 DEF Begin, Move
  <2>2. /\ m.call = mig[p].call /\ m.n = mig[p].n /\ m.from = version
        /\ m.todo = plan.todo /\ m.err = plan.err /\ m.at = "mark"
    BY <1>0 DEF Migration
  <2>3. /\ m.call \in {"Up", "Down", "Steps"} /\ m.n \in Int /\ version \in Versions
        /\ m.call = "Down" => m.n <= 0
        /\ m.call = "Steps" => m.n > 0
    BY <1>0, <2>2 DEF CallOK, Asked, Migration, Calls, MigType, Holding
  <2>4. /\ plan.todo \in Seq(Versions)
        /\ plan.err \in {"nil", "ErrNoChange", "ErrNotExist", "ErrShortLimit"}
        /\ plan.err \in {"nil", "ErrNoChange"} => Follows(plan.todo, version, Goal(m))
    <3> HIDE DEF m
    <3> QED BY <2>2, <2>3, PlanFacts
  <2> HIDE DEF plan
  <2>5. m \in Migration BY <1>0, <2>3, <2>4 DEF Migration, Holding, MigErrs
  <2> HIDE DEF m
  <2>6. CallOK(p, m, version, dirty, advisory, db[p])
    BY <1>0, <1>4, <2>2, <2>3, <2>4
    DEF CallOK, Locked, Asked, OnTheWay, Outcome, Returned, Holding, Fine
  <2> QED BY <1>1, <1>2, <2>1, <2>5, <2>6, MigMoveInv
<1> QED BY <1>3, <1>4

LEMMA StepMoves ==
  ASSUME MigInv, NEW p \in Migrators,
         MarkDirty(p) \/ RunBody(p) \/ MarkClean(p) \/ StepFails(p) \/ NoMore(p)
  PROVE  MigInv'
<1>0. /\ mig[p] \in Migration /\ MigType
      /\ CallOK(p, mig[p], version, dirty, advisory, db[p])
  BY DEF MigInv, MigType
<1>h. mig[p].at \in Holding => advisory = p BY <1>0 DEF CallOK, Locked
<1>t. mig[p].todo \in Seq(Versions) /\ Goal(mig[p]) \in Int /\ version \in Versions
  BY <1>0, GoalType DEF Migration, MigType
(* Nothing moves but the call of p, which holds the lock, and the table.   *)
<1>2. ASSUME NEW m \in Migration, mig' = [mig EXCEPT ![p] = m], advisory = p,
             UNCHANGED <<advisory, db>>, version' \in Versions, dirty' \in BOOLEAN,
             CallOK(p, m, version', dirty', advisory, db[p])
      PROVE  MigInv'
  <2>1. MigType' /\ MigMove(p) /\ mig'[p] = m
    BY <1>0, <1>2 DEF MigType, MigMove
  <2> QED BY <1>2, <2>1, MigMoveInv
<1>3. CASE MarkDirty(p)
  <2> DEFINE m == [mig[p] EXCEPT !.at = "body"]
  <2>1. /\ mig' = [mig EXCEPT ![p] = m] /\ UNCHANGED <<advisory, db>>
        /\ mig[p].at = "mark" /\ mig[p].todo # <<>>
        /\ version' = Head(mig[p].todo) /\ dirty' = TRUE
    BY <1>3 DEF MarkDirty, Move
  <2>2. /\ m \in Migration /\ m.at = "body" /\ m.todo = mig[p].todo /\ m.err = mig[p].err
        /\ m.call = mig[p].call /\ m.n = mig[p].n /\ Goal(m) = Goal(mig[p])
    BY <1>0 DEF Migration, Holding, Goal
  <2> HIDE DEF m
  <2>3. Fine(m) => Follows(Tail(m.todo), version', Goal(m))
    BY <1>0, <1>t, <2>1, <2>2, FollowsOn DEF CallOK, OnTheWay, Fine
  <2>4. version' \in Versions BY <1>t, <2>1
  <2>5. CallOK(p, m, version', dirty', advisory, db[p])
    BY <1>0, <2>1, <2>2, <2>3
    DEF CallOK, Locked, Asked, OnTheWay, Outcome, Returned, Holding
  <2>6. advisory = p BY <1>h, <2>1 DEF Holding
  <2> QED BY <1>2, <2>1, <2>2, <2>4, <2>5, <2>6
<1>4. CASE RunBody(p)
  <2> DEFINE m == [mig[p] EXCEPT !.at = "clean"]
  <2>1. /\ mig' = [mig EXCEPT ![p] = m] /\ UNCHANGED <<version, dirty, advisory, db>>
        /\ mig[p].at = "body"
    BY <1>4 DEF RunBody, Move, table
  <2>2. /\ m \in Migration /\ m.at = "clean" /\ m.todo = mig[p].todo /\ m.err = mig[p].err
        /\ m.call = mig[p].call /\ m.n = mig[p].n /\ Goal(m) = Goal(mig[p])
    BY <1>0 DEF Migration, Holding, Goal
  <2> HIDE DEF m
  <2>3. CallOK(p, m, version, dirty, advisory, db[p])
    BY <1>0, <2>1, <2>2
    DEF CallOK, Locked, Asked, OnTheWay, Outcome, Returned, Holding, Fine
  <2>4. advisory = p BY <1>h, <2>1 DEF Holding
  <2> QED BY <1>0, <1>2, <2>1, <2>2, <2>3, <2>4 DEF MigType
<1>5. CASE MarkClean(p)
  <2> DEFINE m == [mig[p] EXCEPT !.at = "mark", !.todo = Tail(@)]
  <2>1. /\ mig' = [mig EXCEPT ![p] = m] /\ UNCHANGED <<version, advisory, db>>
        /\ mig[p].at = "clean" /\ dirty' = FALSE
    BY <1>5 DEF MarkClean, Move
  <2>2. mig[p].todo # <<>> BY <1>0, <2>1 DEF CallOK, OnTheWay
  <2>3. Tail(mig[p].todo) \in Seq(Versions) BY <1>t, <2>2
  <2>4. /\ m \in Migration /\ m.at = "mark" /\ m.todo = Tail(mig[p].todo)
        /\ m.err = mig[p].err
        /\ m.call = mig[p].call /\ m.n = mig[p].n /\ Goal(m) = Goal(mig[p])
    BY <1>0, <2>3 DEF Migration, Holding, Goal
  <2> HIDE DEF m
  <2>5. CallOK(p, m, version', dirty', advisory, db[p])
    BY <1>0, <2>1, <2>4
    DEF CallOK, Locked, Asked, OnTheWay, Outcome, Returned, Holding, Fine
  <2>6. advisory = p BY <1>h, <2>1 DEF Holding
  <2> QED BY <1>2, <1>t, <2>1, <2>4, <2>5, <2>6
<1>6. CASE StepFails(p)
  <2> DEFINE m == [mig[p] EXCEPT !.at = "unlock", !.err = "stepErr"]
  <2>1. /\ mig' = [mig EXCEPT ![p] = m] /\ UNCHANGED <<version, dirty, advisory, db>>
        /\ mig[p].at \in {"mark", "body", "clean"}
    BY <1>0, <1>6 DEF StepFails, table, MigType
  <2>2. m \in Migration BY <1>0 DEF Migration, Holding, MigErrs
  <2>3. CallOK(p, m, version, dirty, advisory, db[p])
    BY <1>0, <2>1
    DEF CallOK, Locked, Asked, OnTheWay, Outcome, Returned, Holding, Fine, Migration
  <2>4. advisory = p BY <1>h, <2>1 DEF Holding
  <2> QED BY <1>0, <1>2, <2>1, <2>2, <2>3, <2>4 DEF MigType
<1>7. CASE NoMore(p)
  <2> DEFINE m == [mig[p] EXCEPT !.at = "unlock"]
  <2>1. /\ mig' = [mig EXCEPT ![p] = m] /\ UNCHANGED <<version, dirty, advisory, db>>
        /\ mig[p].at = "mark" /\ mig[p].todo = <<>>
    BY <1>7 DEF NoMore, Move, table
  <2>2. /\ m \in Migration /\ m.at = "unlock" /\ m.todo = mig[p].todo /\ m.err = mig[p].err
        /\ m.call = mig[p].call /\ m.n = mig[p].n /\ Goal(m) = Goal(mig[p])
    BY <1>0 DEF Migration, Holding, Goal
  <2> HIDE DEF m
  <2>3. Follows(<<>>, version, Goal(m)) => version = Goal(m)
    BY <1>t, <2>2, MigrationsAssumption DEF Follows, Versions
  <2>4. CallOK(p, m, version, dirty, advisory, db[p])
    BY <1>0, <2>1, <2>2, <2>3
    DEF CallOK, Locked, Asked, OnTheWay, Outcome, Returned, Holding, Fine
  <2>5. advisory = p BY <1>h, <2>1 DEF Holding
  <2> QED BY <1>0, <1>2, <2>1, <2>2, <2>4, <2>5 DEF MigType
<1> QED BY <1>3, <1>4, <1>5, <1>6, <1>7

LEMMA EndMoves ==
  ASSUME MigInv, NEW p \in Migrators,
         (\E ok \in BOOLEAN : Unlock(p, ok)) \/ (\E s, d \in BOOLEAN : Close(p, s, d))
  PROVE  MigInv'
<1>0. /\ mig[p] \in Migration /\ MigType
      /\ CallOK(p, mig[p], version, dirty, advisory, db[p])
  BY DEF MigInv, MigType
<1>1. ASSUME NEW ok \in BOOLEAN, Unlock(p, ok) PROVE MigInv'
  <2> DEFINE m == [mig[p] EXCEPT !.at = "close", !.seen = Table,
                     !.err = IF ~ok /\ @ = "nil" THEN "unlockErr" ELSE @]
  <2>1. /\ mig' = [mig EXCEPT ![p] = m] /\ UNCHANGED <<version, dirty, db>>
        /\ mig[p].at = "unlock" /\ advisory' = IF ok THEN "nobody" ELSE advisory
    BY <1>1 DEF Unlock, Move, table
  <2>2. Table \in [version : Versions, dirty : BOOLEAN] BY <1>0 DEF Table, MigType
  <2>3. /\ m \in Migration /\ m.at = "close" /\ m.todo = mig[p].todo
        /\ m.err = IF ~ok /\ mig[p].err = "nil" THEN "unlockErr" ELSE mig[p].err
        /\ m.call = mig[p].call /\ m.n = mig[p].n /\ Goal(m) = Goal(mig[p])
        /\ m.seen = Table
    BY <1>0, <2>2 DEF Migration, MigErrs, Goal
  <2> HIDE DEF m
  <2>4. advisory = p BY <1>0, <2>1 DEF CallOK, Locked, Holding
  <2>5. MigType' /\ MigMove(p) /\ mig'[p] = m
    BY <1>0, <2>1, <2>3, <2>4, MigrationsAssumption DEF MigType, MigMove
  <2>6. Fine(m) => m.seen = [version |-> Goal(m), dirty |-> FALSE]
    BY <1>0, <2>1, <2>3 DEF CallOK, OnTheWay, Fine, Table, MigType
  <2>7. CallOK(p, m, version, dirty, advisory', db[p])
    BY <1>0, <2>1, <2>3, <2>6, MigrationsAssumption
    DEF CallOK, Locked, Asked, OnTheWay, Outcome, Returned, Holding
  <2> QED BY <2>1, <2>5, <2>7, MigMoveInv
<1>2. ASSUME NEW s \in BOOLEAN, NEW d \in BOOLEAN, Close(p, s, d) PROVE MigInv'
  <2> DEFINE m == [mig[p] EXCEPT !.at = "returned",
                     !.err = WithCloseErrs(Result(@), s, d)]
             e == WithCloseErrs(Result(mig[p].err), s, d)
  <2>1. /\ mig' = [mig EXCEPT ![p] = m] /\ UNCHANGED <<version, dirty>>
        /\ mig[p].at = "close"
        /\ advisory' = IF advisory = p THEN "nobody" ELSE advisory
        /\ db' = [db EXCEPT ![p] = "closed"]
    BY <1>2 DEF Close, Move, table
  <2>2. /\ e \in MigErrs /\ e # "ErrNoChange"
        /\ e = "nil" => Fine(mig[p])
        /\ mig[p].err = "stepErr" => e = "stepErr"
        /\ mig[p].err # "openErr" => e # "openErr"
    BY <1>0 DEF WithCloseErrs, Result, Migration, MigErrs, Fine
  <2> HIDE DEF e
  <2>3. /\ m \in Migration /\ m.at = "returned" /\ m.todo = mig[p].todo /\ m.err = e
        /\ m.call = mig[p].call /\ m.n = mig[p].n /\ Goal(m) = Goal(mig[p])
        /\ m.seen = mig[p].seen
    BY <1>0, <2>2 DEF Migration, Goal, e
  <2> HIDE DEF m
  <2>4. MigType' /\ MigMove(p) /\ mig'[p] = m /\ advisory' # p /\ db'[p] = "closed"
    BY <1>0, <2>1, <2>3, MigrationsAssumption DEF MigType, MigMove
  <2>5. CallOK(p, m, version, dirty, advisory', "closed")
    BY <1>0, <2>1, <2>2, <2>3, <2>4
    DEF CallOK, Locked, Asked, OnTheWay, Outcome, Returned, Holding, Fine
  <2> QED BY <2>1, <2>4, <2>5, MigMoveInv
<1> QED BY <1>1, <1>2

LEMMA MigNextInv == MigInv /\ [MigrationsNext]_migVars => MigInv'
<1> SUFFICES ASSUME MigInv, [MigrationsNext]_migVars PROVE MigInv' OBVIOUS
<1>1. ASSUME NEW p \in Migrators, Migrate(p) PROVE MigInv'
  BY <1>1, LockMoves, BeginMoves, StepMoves, EndMoves DEF Migrate
<1>2. ASSUME NEW p \in Migrators,
             RunMigrations(p) \/ GetMigrationVersion(p)
               \/ \E n \in StepCounts : RollbackMigrations(p, n)
      PROVE  MigInv'
  <2>1. StepCounts \subseteq Int BY MigrationsAssumption
  <2>2. \E call \in Calls \ {"none"}, n \in Int :
          Open(p, call, n) /\ (call = "Down" => n <= 0) /\ (call = "Steps" => n > 0)
    BY <1>2, <2>1
    DEF RunMigrations, GetMigrationVersion, RollbackMigrations, RollbackCall, Calls
  <2> QED BY <2>2, CallMoves
<1>3. ASSUME NEW p \in Migrators, Connect(p) \/ MoveOn(p) \/ Crash(p) PROVE MigInv'
  BY <1>3, CallMoves
<1>4. CASE UNCHANGED migVars
  BY <1>4 DEF migVars, MigInv, MigType
<1> QED BY <1>1, <1>2, <1>3, <1>4 DEF MigrationsNext

(* What RunMigrations and RollbackMigrations return is true, and they give *)
(* up the lock, for any number of processes, versions and crashes.         *)
THEOREM OutcomesTrue == MigrationsSpec => []OutcomeTrue
<1>1. MigInv => OutcomeTrue
  BY DEF MigInv, CallOK, Locked, Outcome, Returned, OutcomeTrue, Holding, Fine
<1> QED BY <1>1, MigInitInv, MigNextInv, PTL DEF MigrationsSpec

(* Processes never work on the schema at the same time, and none migrates  *)
(* on top of a migration that was cut off: after a crash between MarkDirty *)
(* and MarkClean every RunMigrations and RollbackMigrations leaves the     *)
(* schema as it is, for an operator to repair.                             *)
THEOREM SchemaGuarded == MigrationsSpec => SchemaUnderLock
<1>1. MigInv /\ [MigrationsNext]_migVars => [SchemaStep]_migVars
  <2> SUFFICES ASSUME MigInv, NEW p \in Migrators,
                      \/ Connect(p) \/ RunMigrations(p) \/ GetMigrationVersion(p)
                      \/ (\E n \in StepCounts : RollbackMigrations(p, n))
                      \/ Migrate(p) \/ MoveOn(p) \/ Crash(p)
               PROVE  SchemaStep
    BY DEF MigrationsNext
  <2>t. /\ MigType /\ mig[p] \in Migration /\ dirty \in BOOLEAN
        /\ mig[p].at \in Holding => advisory = p
        /\ mig[p].at = "mark" => ~dirty
    BY DEF MigInv, MigType, CallOK, Locked, OnTheWay
  <2>1. ASSUME UNCHANGED <<version, dirty>>,
               \A q \in Migrators \ {p} : mig'[q] = mig[q],
               mig'[p].at \in {"body", "clean"} => mig[p].at = "body"
        PROVE  SchemaStep
    BY <2>1, <2>t DEF SchemaStep, LeftDirty, table
  <2>2. CASE MarkDirty(p)
    BY <2>2, <2>t DEF MarkDirty, Move, SchemaStep, LeftDirty, Holding, Migration, MigType, table
  <2>3. CASE MarkClean(p)
    BY <2>3, <2>t DEF MarkClean, Move, SchemaStep, LeftDirty, Holding, Migration, MigType, table
  <2>4. CASE RunBody(p)
    BY <2>1, <2>4, <2>t DEF RunBody, Move, Migration, MigType, table
  <2>5. CASE Connect(p)
    BY <2>5 DEF Connect, SchemaStep, LeftDirty, table
  <2>6. ASSUME NEW call, NEW n, Open(p, call, n) PROVE SchemaStep
    <3>1. PICK a \in {"open", "returned"} :
            mig' = [mig EXCEPT ![p] = [NoMigration EXCEPT !.call = call, !.n = n, !.at = a,
                      !.err = IF a = "open" THEN "nil" ELSE "openErr"]]
      BY <2>6 DEF Open
    <3>2. mig'[p].at = a /\ \A q \in Migrators \ {p} : mig'[q] = mig[q]
      BY <3>1, <2>t DEF NoMigration, MigType
    <3> QED BY <2>1, <2>6, <3>2 DEF Open, table
  <2>7. CASE Lock(p) \/ LockFails(p)
    <3>1. CASE Lock(p)
      BY <2>1, <2>t, <3>1 DEF Lock, Move, Migration, MigType, table
    <3>2. CASE LockFails(p)
      BY <2>1, <2>t, <3>2 DEF LockFails, Move, Migration, MigType, table
    <3> QED BY <2>7, <3>1, <3>2
  <2>8. CASE Begin(p)
    BY <2>1, <2>8, <2>t DEF Begin, Move, Migration, MigType, table
  <2>9. CASE StepFails(p)
    <3>1. mig' = [mig EXCEPT ![p] = [mig[p] EXCEPT !.at = "unlock", !.err = "stepErr"]]
      BY <2>9, <2>t DEF StepFails, MigType
    <3> QED BY <2>1, <2>9, <2>t, <3>1 DEF StepFails, Migration, MigType, table
  <2>10. CASE NoMore(p)
    BY <2>1, <2>10, <2>t DEF NoMore, Move, Migration, MigType, table
  <2>11. ASSUME NEW ok \in BOOLEAN, Unlock(p, ok) PROVE SchemaStep
    BY <2>1, <2>11, <2>t DEF Unlock, Move, Migration, MigType, table
  <2>12. ASSUME NEW e \in {"nil", "versionErr"}, ReadVersion(p, e) PROVE SchemaStep
    BY <2>1, <2>12, <2>t DEF ReadVersion, Move, Migration, MigType, table
  <2>13. ASSUME NEW a \in BOOLEAN, NEW b \in BOOLEAN, Close(p, a, b) PROVE SchemaStep
    BY <2>1, <2>13, <2>t DEF Close, Move, Migration, MigType, table
  <2>14. CASE MoveOn(p) \/ Crash(p)
    BY <2>1, <2>14, <2>t DEF MoveOn, Crash, Move, NoMigration, MigType, table
  <2> QED
    BY <2>2, <2>3, <2>4, <2>5, <2>6, <2>7, <2>8, <2>9, <2>10, <2>11, <2>12, <2>13, <2>14
    DEF Migrate, RunMigrations, GetMigrationVersion, RollbackMigrations
<1> QED BY <1>1, MigInitInv, MigNextInv, PTL DEF MigrationsSpec, SchemaUnderLock

-----------------------------------------------------------------------------
(* Configuration.  Where the walk stands: never inside a field that cannot *)
(* be set, no field wrong so far, everything before it as the definition   *)
(* without the walk has it, and everything from it on untouched.           *)
WalkType ==
  /\ shape \in Shapes
  /\ config = [i \in DOMAIN shape |-> config[i]]
  /\ cursor \in 0 .. Len(shape) + 1
  /\ loadErr \in {"none", "kindErr", "setErr", "nil", "validateErr"}

OutsideUnsettable == \A j \in 1 .. cursor - 1 : ~shape[j].settable => End(shape, j) < cursor

NoneWrong == \A i \in 1 .. cursor - 1 : ~Wrong(i)

DoneSoFar ==
  \A i \in DOMAIN shape : config[i] = IF i < cursor THEN Expected(i) ELSE preset[i]

WalkEnded ==
  /\ loadErr = "setErr" => cursor \in DOMAIN shape /\ Wrong(cursor)
  /\ loadErr \in {"nil", "validateErr"} => cursor = Len(shape) + 1

WalkInv == WalkType /\ OutsideUnsettable /\ NoneWrong /\ DoneSoFar /\ WalkEnded

(* What the shapes are good for: the fields inside field i follow it.      *)
LEMMA ShapeFacts ==
  ASSUME shape \in Shapes
  PROVE  /\ Len(shape) \in Nat /\ DOMAIN shape = 1 .. Len(shape)
         /\ \A i \in DOMAIN shape :
              /\ shape[i].settable \in BOOLEAN
              /\ End(shape, i) \in i .. Len(shape)
              /\ \A j \in i .. End(shape, i) : End(shape, j) <= End(shape, i)
<1>1. shape \in Seq(Fields) BY ShapesAssumption
<1>2. Len(shape) \in Nat /\ DOMAIN shape = 1 .. Len(shape) BY <1>1
<1> SUFFICES ASSUME NEW i \in DOMAIN shape
             PROVE  /\ shape[i].settable \in BOOLEAN
                    /\ End(shape, i) \in i .. Len(shape)
                    /\ \A j \in i .. End(shape, i) : End(shape, j) <= End(shape, i)
  BY <1>2
<1>3. shape[i] \in Fields BY <1>1, <1>2
<1>4. shape[i].settable \in BOOLEAN /\ shape[i].inside \in Nat BY <1>3 DEF Fields
<1>5. End(shape, i) <= Len(shape)
      /\ \A j \in i .. End(shape, i) : End(shape, j) <= End(shape, i)
  BY ShapesAssumption
<1> QED BY <1>2, <1>4, <1>5 DEF End

(* Outside all that cannot be set, the walk may write what is settable.    *)
LEMMA AtReachable ==
  ASSUME WalkInv, cursor \in DOMAIN shape
  PROVE  Reachable(cursor) <=> shape[cursor].settable
BY ShapeFacts DEF WalkInv, WalkType, OutsideUnsettable, Reachable

LEMMA ExpectedStable ==
  ASSUME UNCHANGED <<environ, shape, preset>>, NEW i
  PROVE  Expected(i)' = Expected(i) /\ Wrong(i)' = Wrong(i)
BY DEF Expected, Wrong, Wanted, Bound, Reachable, End

LEMMA WalkInit == ConfigInit => WalkInv
BY ShapeFacts DEF ConfigInit, WalkInv, WalkType, OutsideUnsettable, NoneWrong, DoneSoFar,
                  WalkEnded, Contents

LEMMA WalkNext == WalkInv /\ [ConfigNext]_configVars => WalkInv'
<1> SUFFICES ASSUME WalkInv, [ConfigNext]_configVars PROVE WalkInv' OBVIOUS
<1>1. CASE UNCHANGED configVars
  BY <1>1, ExpectedStable DEF configVars, WalkInv, WalkType, OutsideUnsettable, NoneWrong, DoneSoFar, WalkEnded
<1>2. CASE Load
  BY <1>2, ExpectedStable, ShapeFacts DEF Load, WalkInv, WalkType, OutsideUnsettable, NoneWrong, DoneSoFar, WalkEnded
<1>3. CASE LoadRefused
  BY <1>3, ExpectedStable, ShapeFacts DEF LoadRefused, WalkInv, WalkType, OutsideUnsettable, NoneWrong, DoneSoFar, WalkEnded
<1>4. CASE Validate
  BY <1>4, ExpectedStable, ShapeFacts DEF Validate, WalkInv, WalkType, OutsideUnsettable, NoneWrong, DoneSoFar, WalkEnded
<1>5. CASE SkipUnsettable
  <2>1. cursor \in DOMAIN shape /\ ~shape[cursor].settable
        /\ cursor' = End(shape, cursor) + 1 /\ UNCHANGED <<environ, shape, preset, config, loadErr>>
    BY <1>5, ShapeFacts DEF SkipUnsettable, AtField, field, WalkInv, WalkType
  <2>2. \A i \in cursor .. cursor' - 1 : ~Reachable(i)
    BY <2>1, ShapeFacts DEF Reachable, WalkInv, WalkType
  <2>3. \A i \in cursor .. cursor' - 1 : ~Wrong(i) /\ Expected(i) = preset[i]
    BY <2>2 DEF Wrong, Bound, Expected
  <2>4. WalkType' /\ WalkEnded'
    BY <1>5, <2>1, ShapeFacts DEF WalkInv, WalkType, WalkEnded, SkipUnsettable, AtField
  <2>5. OutsideUnsettable'
    BY <2>1, ShapeFacts DEF WalkInv, WalkType, OutsideUnsettable
  <2>6. NoneWrong' /\ DoneSoFar'
    BY <2>1, <2>3, ShapeFacts, ExpectedStable DEF WalkInv, WalkType, NoneWrong, DoneSoFar
  <2> QED BY <2>4, <2>5, <2>6 DEF WalkInv
<1>6. ASSUME AtField(TRUE), cursor' = cursor + 1, loadErr' = loadErr, ~Wrong(cursor),
             config' = [config EXCEPT ![cursor] = Expected(cursor)]
      PROVE  WalkInv'
  <2>1. cursor \in DOMAIN shape /\ shape[cursor].settable /\ loadErr = "none"
        /\ UNCHANGED <<environ, shape, preset>>
    BY <1>6, ShapeFacts DEF AtField, field, WalkInv, WalkType
  <2>2. WalkType' /\ WalkEnded'
    <3>1. config = [i \in DOMAIN shape |-> config[i]] BY DEF WalkInv, WalkType
    <3>2. config' = [i \in DOMAIN shape |-> IF i = cursor THEN Expected(cursor) ELSE config[i]]
      BY <1>6, <3>1
    <3>3. config' = [i \in DOMAIN shape |-> config'[i]] BY <3>2
    <3> QED BY <1>6, <2>1, <3>3, ShapeFacts DEF WalkInv, WalkType, WalkEnded
  <2>3. OutsideUnsettable'
    BY <1>6, <2>1, ShapeFacts DEF WalkInv, WalkType, OutsideUnsettable
  <2>4. NoneWrong' /\ DoneSoFar'
    BY <1>6, <2>1, ShapeFacts, ExpectedStable DEF WalkInv, WalkType, NoneWrong, DoneSoFar
  <2> QED BY <2>2, <2>3, <2>4 DEF WalkInv
<1>7. ASSUME AtField(TRUE)
      PROVE  /\ cursor \in DOMAIN shape /\ config[cursor] = preset[cursor]
             /\ Bound(cursor) <=> field.kind \notin Structs /\ HasValue
             /\ HasValue => Wanted(cursor) = setField(field.kind, Raw(field))
             /\ ~Wrong(cursor) =>
                  Expected(cursor) = IF field.kind = "ptr" THEN [preset[cursor] EXCEPT !.allocated = TRUE]
                                     ELSE IF Bound(cursor) THEN Wanted(cursor).v ELSE preset[cursor]
  <2>1. cursor \in DOMAIN shape /\ shape[cursor].settable
    BY <1>7, ShapeFacts DEF AtField, field, WalkInv, WalkType
  <2>2. Reachable(cursor) BY <2>1, AtReachable
  <2>3. ~Wrong(cursor) => \A j \in 1 .. cursor : ~Wrong(j)
    BY <2>1, ShapeFacts DEF WalkInv, WalkType, NoneWrong
  <2>4. Bound(cursor) <=> field.kind \notin Structs /\ HasValue
    BY <2>2 DEF Bound, HasValue, Raw, field
  <2>5. HasValue => Wanted(cursor) = setField(field.kind, Raw(field))
    BY DEF HasValue, Wanted, Raw, field
  <2>6. config[cursor] = preset[cursor] BY <2>1, ShapeFacts DEF WalkInv, WalkType, DoneSoFar
  <2>7. ~Wrong(cursor) =>
          Expected(cursor) = IF field.kind = "ptr" THEN [preset[cursor] EXCEPT !.allocated = TRUE]
                             ELSE IF Bound(cursor) THEN Wanted(cursor).v ELSE preset[cursor]
    BY <2>2, <2>3 DEF Expected, field
  <2> QED BY <2>1, <2>4, <2>5, <2>6, <2>7
<1>8. CASE Descend
  <2>1. ~Wrong(cursor) BY <1>7, <1>8 DEF Descend, Wrong
  <2>2. config' = [config EXCEPT ![cursor] = Expected(cursor)]
    BY <1>7, <1>8, <2>1 DEF Descend, Structs, WalkInv, WalkType
  <2> QED BY <1>6, <1>8, <2>1, <2>2 DEF Descend
<1>9. CASE SkipUnbound
  <2>1. ~Wrong(cursor) BY <1>7, <1>9 DEF SkipUnbound, Bindable, Wrong
  <2>2. config' = [config EXCEPT ![cursor] = Expected(cursor)]
    BY <1>7, <1>9, <2>1 DEF SkipUnbound, Bindable, Structs, WalkInv, WalkType
  <2> QED BY <1>6, <1>9, <2>1, <2>2 DEF SkipUnbound, Bindable
<1>10. CASE Assign
  <2> DEFINE s == setField(field.kind, Raw(field))
  <2>1. AtField(TRUE) /\ Bound(cursor) /\ Wanted(cursor) = s /\ field.kind # "ptr"
    BY <1>7, <1>10 DEF Assign, Bindable, Structs
  <2>2. CASE s.ok /\ config' = [config EXCEPT ![cursor] = s.v]
             /\ cursor' = cursor + 1 /\ UNCHANGED loadErr
    BY <1>6, <1>7, <2>1, <2>2 DEF Wrong
  <2>3. CASE ~s.ok /\ loadErr' = "setErr" /\ UNCHANGED <<config, cursor>>
    <3>1. Wrong(cursor) /\ cursor \in DOMAIN shape BY <1>7, <2>1, <2>3 DEF Wrong
    <3>2. UNCHANGED <<environ, shape, preset>> BY <2>1 DEF AtField
    <3> QED BY <2>3, <3>1, <3>2, ExpectedStable
            DEF WalkInv, WalkType, OutsideUnsettable, NoneWrong, DoneSoFar, WalkEnded
  <2> QED BY <1>10, <2>2, <2>3 DEF Assign
<1> QED
  BY <1>1, <1>2, <1>3, <1>4, <1>5, <1>8, <1>9, <1>10 DEF ConfigNext, populate, Used

(* What Load leaves in the struct, and whether it fails, is what the       *)
(* definition without the walk says, for every struct type and every       *)
(* environment (Load, populate, setField).                                 *)
THEOREM LoadCorrect == ConfigSpec => []LoadIsReference
<1>1. WalkInv => LoadIsReference
  <2> SUFFICES ASSUME WalkInv, loadErr \in {"nil", "validateErr", "setErr"}
               PROVE  /\ config = [i \in DOMAIN shape |-> Expected(i)]
                      /\ loadErr = "setErr" <=> \E i \in DOMAIN shape : Wrong(i)
    BY DEF LoadIsReference
  <2>1. CASE loadErr = "setErr"
    <3>1. cursor \in DOMAIN shape /\ Wrong(cursor) BY <2>1 DEF WalkInv, WalkEnded
    <3>2. \A i \in DOMAIN shape : i >= cursor => Expected(i) = preset[i]
      BY <3>1, ShapeFacts DEF Expected, WalkInv, WalkType
    <3>3. \A i \in DOMAIN shape : config[i] = Expected(i)
      BY <3>1, <3>2, ShapeFacts DEF WalkInv, WalkType, DoneSoFar
    <3> QED BY <2>1, <3>1, <3>3 DEF WalkInv, WalkType
  <2>2. CASE loadErr # "setErr"
    <3>1. cursor = Len(shape) + 1 BY <2>2 DEF WalkInv, WalkEnded
    <3>2. \A i \in DOMAIN shape : config[i] = Expected(i) /\ ~Wrong(i)
      BY <3>1, ShapeFacts DEF WalkInv, WalkType, DoneSoFar, NoneWrong
    <3> QED BY <2>2, <3>2 DEF WalkInv, WalkType
  <2> QED BY <2>1, <2>2
<1> QED BY <1>1, WalkInit, WalkNext, PTL DEF ConfigSpec
=============================================================================
