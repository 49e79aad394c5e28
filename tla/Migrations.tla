----------------------------- MODULE Migrations -----------------------------
(***************************************************************************)
(* dbkit.RunMigrations, RollbackMigrations and GetMigrationVersion, called *)
(* by several processes on one database, any of which may crash.           *)
(*                                                                         *)
(* golang-migrate is external: its Up, Down and Steps take the database's  *)
(* advisory lock, refuse a dirty schema, and for every migration mark the  *)
(* target version dirty, run the body and mark it clean.  The lock is one  *)
(* of the session: it is gone when the process or its connection is.       *)
(***************************************************************************)
EXTENDS Integers, Sequences

CONSTANTS Migrators,    \* the processes
          Latest,       \* versions are 1 .. Latest; 0 is the empty schema
          StepCounts    \* arguments of RollbackMigrations, any integers

ASSUME MigrationsAssumption ==
  Latest \in Nat /\ StepCounts \subseteq Int /\ "nobody" \notin Migrators

VARIABLES
  version, dirty,   \* the schema_migrations table (no row: version 0, clean)
  advisory,         \* the process whose session holds the lock, or "nobody"
  mig,              \* [Migrators -> the process's call]
  db                \* [Migrators -> its connection pool: "none", "open", "closed"]

table == <<version, dirty>>
migVars == <<version, dirty, advisory, mig, db>>

Table == [version |-> version, dirty |-> dirty]

NoMigration ==
  [call |-> "none", n |-> 0, at |-> "idle", from |-> 0, todo |-> <<>>,
   err |-> "nil", seen |-> [version |-> 0, dirty |-> FALSE]]

MigrationsInit ==
  /\ version = 0 /\ dirty = FALSE /\ advisory = "nobody"
  /\ mig = [p \in Migrators |-> NoMigration]
  /\ db = [p \in Migrators |-> "none"]

(* Connect returns a pool only after a ping; the driver that the migrations*)
(* use is made from it.  Where it returns an error there is no pool, and   *)
(* the process (or the panic of MustConnect) leaves this state as it is.   *)
Connect(p) ==
  /\ mig[p].at = "idle" /\ db[p] # "open"
  /\ db' = [db EXCEPT ![p] = "open"]
  /\ UNCHANGED <<table, advisory, mig>>

-----------------------------------------------------------------------------
(* What m.Up, m.Down and m.Steps(-n) do on version v: the versions to step *)
(* through, and the error that follows them.                               *)
Plan(call, n, v) ==
  LET down(k) == [i \in 1 .. k |-> v - i] IN
  CASE call = "Up" ->
         [todo |-> [i \in 1 .. Latest - v |-> v + i],
          err |-> IF v = Latest THEN "ErrNoChange" ELSE "nil"]
    [] call = "Down" ->
         [todo |-> down(v), err |-> IF v = 0 THEN "ErrNoChange" ELSE "nil"]
    [] call = "Steps" /\ n = 0 -> [todo |-> <<>>, err |-> "ErrNoChange"]
    [] call = "Steps" /\ n > 0 /\ v = 0 -> [todo |-> <<>>, err |-> "ErrNotExist"]
    [] OTHER -> [todo |-> down(IF n <= v THEN n ELSE v),
                 err |-> IF n <= v THEN "nil" ELSE "ErrShortLimit"]

(* Variant: only negative step counts mean a full rollback.                *)
RollbackCallNegative(steps) == IF steps < 0 THEN "Down" ELSE "Steps"

RollbackCall(steps) == IF steps <= 0 THEN "Down" ELSE "Steps"

(* Variant: a dirty schema is forced clean before it is migrated.          *)
OpenForcing(p, call, n) ==
  /\ mig[p].at = "idle" /\ db[p] = "open"
  /\ mig' = [mig EXCEPT ![p] = [NoMigration EXCEPT !.call = call, !.n = n, !.at = "open"]]
  /\ dirty' = FALSE
  /\ UNCHANGED <<version, advisory, db>>

(* NewWithDatabaseInstance succeeds, or its error is returned and there is *)
(* nothing to close.                                                       *)
Open(p, call, n) ==
  /\ mig[p].at = "idle" /\ db[p] = "open"
  /\ \E at \in {"open", "returned"} :
       mig' = [mig EXCEPT ![p] =
                 [NoMigration EXCEPT !.call = call, !.n = n, !.at = at,
                    !.err = IF at = "open" THEN "nil" ELSE "openErr"]]
  /\ UNCHANGED <<table, advisory, db>>

RunMigrations(p) == Open(p, "Up", 0)
RollbackMigrations(p, steps) == Open(p, RollbackCall(steps), steps)
GetMigrationVersion(p) == Open(p, "Version", 0)

-----------------------------------------------------------------------------
(* Steps of the library.                                                   *)
Move(p, from, to) == mig[p].at = from /\ mig' = [mig EXCEPT ![p] = to]

Lock(p) ==
  /\ mig[p].call # "Version" /\ advisory = "nobody"
  /\ advisory' = p
  /\ Move(p, "open", [mig[p] EXCEPT !.at = "locked"])
  /\ UNCHANGED <<table, db>>

(* The lock is not to be had before LockTimeout, or the database fails.    *)
LockFails(p) ==
  /\ mig[p].call # "Version"
  /\ Move(p, "open", [mig[p] EXCEPT !.at = "close", !.err = "lockErr"])
  /\ UNCHANGED <<table, advisory, db>>

Begin(p) ==
  LET plan == Plan(mig[p].call, mig[p].n, version) IN
  /\ Move(p, "locked",
          IF dirty THEN [mig[p] EXCEPT !.at = "unlock", !.err = "ErrDirty"]
          ELSE [mig[p] EXCEPT !.at = "mark", !.from = version,
                              !.todo = plan.todo, !.err = plan.err])
  /\ UNCHANGED <<table, advisory, db>>

MarkDirty(p) ==
  /\ mig[p].todo # <<>>
  /\ Move(p, "mark", [mig[p] EXCEPT !.at = "body"])
  /\ version' = Head(mig[p].todo) /\ dirty' = TRUE
  /\ UNCHANGED <<advisory, db>>

RunBody(p) ==
  /\ Move(p, "body", [mig[p] EXCEPT !.at = "clean"])
  /\ UNCHANGED <<table, advisory, db>>

MarkClean(p) ==
  /\ Move(p, "clean", [mig[p] EXCEPT !.at = "mark", !.todo = Tail(@)])
  /\ dirty' = FALSE
  /\ UNCHANGED <<version, advisory, db>>

StepFails(p) ==
  /\ mig[p].at \in {"mark", "body", "clean"} /\ mig[p].todo # <<>>
  /\ mig' = [mig EXCEPT ![p].at = "unlock", ![p].err = "stepErr"]
  /\ UNCHANGED <<table, advisory, db>>

NoMore(p) ==
  /\ mig[p].todo = <<>>
  /\ Move(p, "mark", [mig[p] EXCEPT !.at = "unlock"])
  /\ UNCHANGED <<table, advisory, db>>

(* A failed unlock is joined to the error there is; errors.Is still finds  *)
(* that one, ErrNoChange included.                                         *)
Unlock(p, ok) ==
  /\ Move(p, "unlock",
          [mig[p] EXCEPT !.at = "close", !.seen = Table,
             !.err = IF ~ok /\ @ = "nil" THEN "unlockErr" ELSE @])
  /\ advisory' = IF ok THEN "nobody" ELSE advisory
  /\ UNCHANGED <<table, db>>

(* m.Version() takes no lock; ErrNilVersion is reported as version 0 and   *)
(* clean, also when a rollback of the first migration left it dirty.       *)
ReadVersion(p, e) ==
  /\ mig[p].call = "Version"
  /\ Move(p, "open", [mig[p] EXCEPT !.at = "close", !.err = e,
                           !.seen = IF version = 0 THEN @ ELSE Table])
  /\ UNCHANGED <<table, advisory, db>>

-----------------------------------------------------------------------------
Result(e) == IF e = "ErrNoChange" THEN "nil" ELSE e

(* Variant: an error of Close replaces the one there is.                   *)
WithCloseErrsLast(e, sourceErr, dbErr) ==
  IF dbErr THEN "dbErr" ELSE IF sourceErr THEN "sourceErr" ELSE e

(* The errors of m.Close() count only when there was none before.          *)
WithCloseErrs(e, sourceErr, dbErr) ==
  IF e # "nil" THEN e
  ELSE IF sourceErr THEN "sourceErr"
  ELSE IF dbErr THEN "dbErr" ELSE "nil"

(* Variant: the deferred Close is forgotten.                               *)
CloseForgotten(p, sourceErr, dbErr) ==
  /\ Move(p, "close", [mig[p] EXCEPT !.at = "returned", !.err = Result(@)])
  /\ UNCHANGED <<table, advisory, db>>

(* The deferred function: m.Close() closes the pool the driver was made    *)
(* from, and ends the session and with it a lock that is still held.       *)
Close(p, sourceErr, dbErr) ==
  /\ Move(p, "close", [mig[p] EXCEPT !.at = "returned",
                         !.err = WithCloseErrs(Result(@), sourceErr, dbErr)])
  /\ advisory' = IF advisory = p THEN "nobody" ELSE advisory
  /\ db' = [db EXCEPT ![p] = "closed"]
  /\ UNCHANGED table

MoveOn(p) == Move(p, "returned", NoMigration) /\ UNCHANGED <<table, advisory, db>>

(* The process dies, and is started again some time.                       *)
Crash(p) ==
  /\ mig[p].at # "idle"
  /\ mig' = [mig EXCEPT ![p] = NoMigration]
  /\ db' = [db EXCEPT ![p] = "none"]
  /\ advisory' = IF advisory = p THEN "nobody" ELSE advisory
  /\ UNCHANGED table

Migrate(p) ==
  \/ Lock(p) \/ LockFails(p) \/ Begin(p)
  \/ MarkDirty(p) \/ RunBody(p) \/ MarkClean(p) \/ StepFails(p) \/ NoMore(p)
  \/ \E ok \in BOOLEAN : Unlock(p, ok)
  \/ \E e \in {"nil", "versionErr"} : ReadVersion(p, e)
  \/ \E s, d \in BOOLEAN : Close(p, s, d)

MigrationsNext ==
  \E p \in Migrators :
    \/ Connect(p)
    \/ RunMigrations(p) \/ GetMigrationVersion(p)
    \/ \E n \in StepCounts : RollbackMigrations(p, n)
    \/ Migrate(p) \/ MoveOn(p) \/ Crash(p)

MigrationsSpec == MigrationsInit /\ [][MigrationsNext]_migVars

(* The database answers, one way or another.                               *)
MigrationsFairness == \A p \in Migrators : WF_migVars(Migrate(p))

-----------------------------------------------------------------------------
(* The version that a call is asked to leave behind.                       *)
Goal(m) ==
  CASE m.call = "Up" -> Latest
    [] m.call # "Up" /\ m.n <= 0 -> 0
    [] OTHER -> m.from - m.n

(* What RunMigrations and RollbackMigrations return is true: nil means     *)
(* that the schema was clean and at the version asked for when the lock    *)
(* was given up, whoever else migrates and wherever others crashed, and    *)
(* the error of a step that failed is not covered up by one of Close.  And *)
(* whoever returned holds the lock no longer, even if unlocking failed,    *)
(* but its pool is closed as well, unless the call failed at its start.    *)
OutcomeTrue ==
  \A p \in Migrators :
    LET m == mig[p] IN
    m.at = "returned" =>
      /\ m.err = "nil" /\ m.call # "Version" => m.seen = [version |-> Goal(m), dirty |-> FALSE]
      /\ m.todo # <<>> => m.err = "stepErr"
      /\ advisory # p
      /\ (db[p] = "open") <=> (m.err = "openErr")

(* A migration died, or its session did, and left the table dirty.         *)
LeftDirty == dirty /\ \A p \in Migrators : mig[p].at \notin {"body", "clean"}

SchemaStep ==
  /\ table' # table =>
       \E p \in Migrators : /\ advisory = p /\ advisory' = p
                            /\ version' # version => ~dirty /\ dirty'
  /\ LeftDirty => LeftDirty' /\ version' = version

(* The table changes only by a process that holds the lock before and      *)
(* after; it gets to another version only when it is clean, and is dirty   *)
(* then; and one that a crash or a failed step left dirty is touched by no *)
(* RunMigrations and no RollbackMigrations any more.                       *)
SchemaUnderLock == [][SchemaStep]_migVars

(* Every call returns, also if another process died while it held the lock.*)
MigrationsReturn ==
  \A p \in Migrators : mig[p].at = "open" ~> mig[p].at \in {"returned", "idle"}
=============================================================================
