------------------------------ MODULE TaskProofs ------------------------------
(***************************************************************************)
(* Proofs about async.Group, async.Fan and async.GoErr, for any number of  *)
(* tasks, of waiters, and of goroutines nobody waits for.                  *)
(***************************************************************************)
EXTENDS Group, Fan, GoErr, FiniteSetTheorems, TLAPS

-----------------------------------------------------------------------------
(* Appending to a slice of errors.                                         *)
LEMMA AppendFacts ==
  ASSUME NEW S, NEW s \in Seq(S), NEW x \in S
  PROVE  /\ Append(s, x) \in Seq(S)
         /\ ToSet(Append(s, x)) = ToSet(s) \cup {x}
         /\ IsInjective(s) /\ x \notin ToSet(s) => IsInjective(Append(s, x))
<1> DEFINE t == Append(s, x)
<1>1. /\ t \in Seq(S) /\ Len(s) \in Nat /\ Len(t) = Len(s) + 1
      /\ DOMAIN s = 1 .. Len(s) /\ DOMAIN t = 1 .. Len(s) + 1
      /\ \A j \in 1 .. Len(s) : t[j] = s[j]
      /\ t[Len(s) + 1] = x
  OBVIOUS
<1> HIDE DEF t
<1>2. ToSet(t) = ToSet(s) \cup {x}
  <2>1. ToSet(s) \cup {x} \subseteq ToSet(t)
    BY <1>1 DEF ToSet
  <2>2. ToSet(t) \subseteq ToSet(s) \cup {x}
    BY <1>1 DEF ToSet
  <2> QED BY <2>1, <2>2
<1>3. IsInjective(s) /\ x \notin ToSet(s) => IsInjective(t)
  BY <1>1 DEF ToSet, IsInjective
<1> QED BY <1>1, <1>2, <1>3 DEF t

(* A slice without duplicates is as long as the set of its entries.        *)
LEMMA InjectiveLen ==
  ASSUME NEW S, NEW s \in Seq(S), IsInjective(s)
  PROVE  Cardinality(ToSet(s)) = Len(s)
<1>1. Len(s) \in Nat /\ DOMAIN s = 1 .. Len(s) /\ s \in [1 .. Len(s) -> ToSet(s)]
  BY DEF ToSet
<1>2. s \in Bijection(1 .. Len(s), ToSet(s))
  BY <1>1 DEF ToSet, IsInjective, Bijection, Injection, Surjection
<1>3. ExistsBijection(1 .. Len(s), ToSet(s))
  BY <1>2 DEF ExistsBijection
<1> QED BY <1>1, <1>3, FS_CountingElements

LEMMA EmptySlice ==
  ToSet(<<>>) = {} /\ IsInjective(<<>>) /\ \A S : <<>> \in Seq(S)
BY DEF ToSet, IsInjective

-----------------------------------------------------------------------------
(* What Group and Fan share.  X stands for the entries of the slice that   *)
(* come from elsewhere: nothing in a Group, the context's error in a Fan.  *)

Places == {"idle", "running", "failed", "leaving", "gone"}

Alive == {t \in Tasks : pc[t] \in {"running", "failed", "leaving"}}

Recorded == {t \in Tasks : pc[t] \in {"leaving", "gone"} /\ Failed(outcome[t])}

TaskType ==
  /\ pc \in [Tasks -> Places]
  /\ outcome \in [Tasks -> AllOutcomes \cup {"none"}]

(* The counter is the number of goroutines that have not reached Done; a   *)
(* task has an outcome once fn has ended; and the slice holds the failures *)
(* that have been appended, each once.                                     *)
TaskInv(X) ==
  /\ TaskType
  /\ wg = Cardinality(Alive)
  /\ \A t \in Tasks : /\ pc[t] \in {"idle", "running"} <=> outcome[t] = "none"
                      /\ pc[t] = "failed" => Failed(outcome[t])
  /\ errs \in Seq(Tasks \cup X) /\ IsInjective(errs)
  /\ ToSet(errs) = Recorded \cup X

LEMMA AliveFacts ==
  ASSUME TaskType
  PROVE  /\ IsFiniteSet(Alive) /\ Cardinality(Alive) \in Nat
         /\ Cardinality(Alive) = 0 <=> Alive = {}
         /\ Alive = {} <=> Launched = Gone
<1>1. Alive \in SUBSET Tasks BY DEF Alive
<1>2. IsFiniteSet(Alive) BY <1>1, TaskAssumption, FS_Subset
<1>3. Alive = {} <=> Launched = Gone
  BY DEF TaskType, Places, Alive, Launched, Gone
<1> QED BY <1>2, <1>3, FS_CardinalityType, FS_EmptySet

LEMMA TaskInitInv == TaskInit => TaskInv({})
<1> SUFFICES ASSUME TaskInit PROVE TaskInv({}) OBVIOUS
<1>1. TaskType
  BY DEF TaskInit, TaskType, Places, AllOutcomes
<1>2. Alive = {} /\ Recorded = {}
  BY DEF TaskInit, Alive, Recorded
<1> QED BY <1>1, <1>2, FS_EmptySet, EmptySlice DEF TaskInit, TaskInv

(* wg.Add comes before the go statement, so the counter is never behind.   *)
LEMMA SpawnInv ==
  ASSUME NEW X, TaskInv(X), NEW t \in Tasks, Spawn(t)
  PROVE  TaskInv(X)'
<1>1. TaskType'
  BY DEF TaskInv, TaskType, Spawn, Places
<1>2. Alive' = Alive \cup {t} /\ t \notin Alive /\ Recorded' = Recorded
  BY DEF TaskInv, TaskType, Spawn, Alive, Recorded
<1>3. wg' = Cardinality(Alive)'
  BY <1>2, AliveFacts, FS_AddElement DEF TaskInv, Spawn
<1>4. \A u \in Tasks : /\ pc'[u] \in {"idle", "running"} <=> outcome'[u] = "none"
                       /\ pc'[u] = "failed" => Failed(outcome'[u])
  BY DEF TaskInv, TaskType, Spawn
<1> QED BY <1>1, <1>2, <1>3, <1>4 DEF TaskInv, Spawn

(* The three steps of a goroutine.  Only Done lowers the counter, and by   *)
(* then the failure is in the slice.                                       *)
LEMMA TaskStepInv ==
  ASSUME NEW X, X \cap Tasks = {}, TaskInv(X), NEW t \in Tasks, TaskStep(t)
  PROVE  /\ TaskInv(X)'
         /\ t \in Alive
         /\ \A u \in Tasks : pc[u] = "idle" <=> pc'[u] = "idle"
         /\ \A u \in Tasks : pc[u] = "gone" => pc'[u] = "gone" /\ outcome'[u] = outcome[u]
         /\ Recorded \subseteq Recorded'
<1> USE DEF TaskInv
<1>1. ASSUME NEW o \in Outcomes, FnEnds(t, o)
      PROVE  /\ TaskType' /\ Alive' = Alive /\ Recorded' = Recorded /\ t \in Alive
             /\ wg' = wg /\ errs' = errs
             /\ \A u \in Tasks : u # t => pc'[u] = pc[u] /\ outcome'[u] = outcome[u]
             /\ pc[t] = "running" /\ pc'[t] \in {"failed", "leaving"}
             /\ outcome'[t] # "none" /\ (pc'[t] = "failed" => Failed(outcome'[t]))
  <2>1. o \in AllOutcomes BY TaskAssumption
  <2>2. TaskType' /\ pc[t] = "running" /\ pc'[t] = (IF Failed(o) THEN "failed" ELSE "leaving")
        /\ outcome'[t] = o
        /\ \A u \in Tasks : u # t => pc'[u] = pc[u] /\ outcome'[u] = outcome[u]
    BY <1>1, <2>1 DEF FnEnds, TaskType, Places
  <2>3. Alive' = Alive /\ t \in Alive
    BY <2>2 DEF Alive
  <2>4. Recorded' = Recorded
    BY <2>2 DEF Recorded
  <2> QED BY <1>1, <2>1, <2>2, <2>3, <2>4 DEF FnEnds, AllOutcomes
<1>2. ASSUME Record(t)
      PROVE  /\ TaskType' /\ Alive' = Alive /\ t \in Alive
             /\ Recorded' = Recorded \cup {t} /\ t \notin Recorded
             /\ wg' = wg /\ errs' = Append(errs, t) /\ outcome' = outcome
             /\ \A u \in Tasks : u # t => pc'[u] = pc[u]
             /\ pc[t] = "failed" /\ pc'[t] = "leaving"
  BY <1>2 DEF Record, TaskType, Places, Alive, Recorded
<1>3. ASSUME Done(t)
      PROVE  /\ TaskType' /\ Alive' = Alive \ {t} /\ t \in Alive
             /\ Recorded' = Recorded
             /\ wg' = wg - 1 /\ errs' = errs /\ outcome' = outcome
             /\ \A u \in Tasks : u # t => pc'[u] = pc[u]
             /\ pc[t] = "leaving" /\ pc'[t] = "gone"
  BY <1>3 DEF Done, TaskType, Places, Alive, Recorded
<1>4. ASSUME Record(t) PROVE TaskInv(X)'
  <2>1. t \notin ToSet(errs) /\ t \in Tasks \cup X BY <1>2, <1>4
  <2>a. errs' = Append(errs, t) BY <1>2, <1>4
  <2>2. /\ errs' \in Seq(Tasks \cup X) /\ IsInjective(errs')
        /\ ToSet(errs') = ToSet(errs) \cup {t}
    BY <2>1, <2>a, AppendFacts
  <2>3. ToSet(errs') = Recorded' \cup X
    BY <1>2, <1>4, <2>2
  <2>4. \A u \in Tasks : /\ pc'[u] \in {"idle", "running"} <=> outcome'[u] = "none"
                         /\ pc'[u] = "failed" => Failed(outcome'[u])
    BY <1>2, <1>4
  <2> QED BY <1>2, <1>4, <2>2, <2>3, <2>4
<1>5. ASSUME Done(t) PROVE TaskInv(X)'
  <2>1. wg' = Cardinality(Alive')
    BY <1>3, <1>5, AliveFacts, FS_RemoveElement
  <2>2. \A u \in Tasks : /\ pc'[u] \in {"idle", "running"} <=> outcome'[u] = "none"
                         /\ pc'[u] = "failed" => Failed(outcome'[u])
    BY <1>3, <1>5
  <2> QED BY <1>3, <1>5, <2>1, <2>2
<1>6. ASSUME NEW o \in Outcomes, FnEnds(t, o) PROVE TaskInv(X)'
  <2>1. \A u \in Tasks : /\ pc'[u] \in {"idle", "running"} <=> outcome'[u] = "none"
                         /\ pc'[u] = "failed" => Failed(outcome'[u])
    BY <1>1, <1>6
  <2> QED BY <1>1, <1>6, <2>1
<1> QED BY <1>1, <1>2, <1>3, <1>4, <1>5, <1>6 DEF TaskStep

-----------------------------------------------------------------------------
(* Group.                                                                  *)

Waits == [at : {"out", "blocked", "released", "returned"},
          covers : SUBSET Tasks, result : Seq(Tasks)]

(* What a call of Wait knows.  Between the release and the return nothing  *)
(* is alive: the counter cannot leave zero while somebody is inside Wait.  *)
(* The tasks covered are gone for good, so that their failures, read after *)
(* the release, stay what they were.                                       *)
WaitInv(w) ==
  /\ wait[w].at = "released" => Alive = {}
  /\ wait[w].at \in {"released", "returned"} =>
       \A t \in wait[w].covers : pc[t] = "gone"
  /\ wait[w].at = "returned" =>
       /\ FailedTasks \cap wait[w].covers \subseteq ToSet(wait[w].result)
       /\ ToSet(wait[w].result) \subseteq Recorded
       /\ IsInjective(wait[w].result)

GroupInv ==
  /\ TaskInv({})
  /\ wait \in [Waiters -> Waits]
  /\ \A w \in Waiters : WaitInv(w)

LEMMA GroupInitInv == GroupInit => GroupInv
<1> SUFFICES ASSUME GroupInit PROVE GroupInv OBVIOUS
<1>1. TaskInv({}) BY TaskInitInv DEF GroupInit
<1>2. wait \in [Waiters -> Waits] BY EmptySlice DEF GroupInit, NotWaiting, Waits
<1>3. \A w \in Waiters : wait[w].at = "out"
  BY DEF GroupInit, NotWaiting
<1> QED BY <1>1, <1>2, <1>3 DEF GroupInv, WaitInv

LEMMA GroupNextInv == GroupInv /\ [GroupNext]_groupVars => GroupInv'
<1> SUFFICES ASSUME GroupInv, [GroupNext]_groupVars PROVE GroupInv' OBVIOUS
<1> USE DEF GroupInv
<1>0. TaskType BY DEF TaskInv
<1>1. ASSUME NEW t \in Tasks, Go(t) PROVE GroupInv'
  <2>1. TaskInv({})' BY <1>1, SpawnInv DEF Go
  <2>2. wait' = wait /\ outcome' = outcome /\ pc[t] = "idle"
        /\ \A u \in Tasks : u # t => pc'[u] = pc[u]
    BY <1>0, <1>1 DEF Go, Spawn, TaskType
  <2>3. ASSUME NEW w \in Waiters PROVE WaitInv(w)'
    <3>1. wait[w].at # "released"
      BY <1>0, <1>1, AliveFacts DEF Go, Inside, WaitInv, TaskInv
    <3>2. wait[w] \in Waits OBVIOUS
    <3>3. FailedTasks' = FailedTasks BY <2>2 DEF FailedTasks
    <3>4. Recorded \subseteq Recorded' BY <2>2 DEF Recorded
    <3> QED BY <2>2, <3>1, <3>2, <3>3, <3>4 DEF WaitInv, Waits
  <2> QED BY <2>1, <2>2, <2>3
<1>2. ASSUME NEW t \in Tasks, Task(t) PROVE GroupInv'
  <2>1. /\ TaskInv({})' /\ t \in Alive /\ Recorded \subseteq Recorded'
        /\ \A u \in Tasks : pc[u] = "gone" => pc'[u] = "gone" /\ outcome'[u] = outcome[u]
    BY <1>2, TaskStepInv DEF Task
  <2>2. wait' = wait BY <1>2 DEF Task
  <2>3. ASSUME NEW w \in Waiters PROVE WaitInv(w)'
    <3>1. wait[w].at # "released" BY <2>1 DEF WaitInv
    <3>2. wait[w] \in Waits OBVIOUS
    <3>3. CASE wait[w].at = "returned"
      <4>1. \A u \in wait[w].covers : u \in Tasks /\ pc'[u] = "gone" /\ outcome'[u] = outcome[u]
        BY <2>1, <3>2, <3>3 DEF WaitInv, Waits
      <4>2. FailedTasks' \cap wait[w].covers \subseteq FailedTasks
        BY <4>1 DEF FailedTasks
      <4> QED BY <2>1, <2>2, <3>3, <4>1, <4>2 DEF WaitInv
    <3> QED BY <2>2, <3>1, <3>3 DEF WaitInv
  <2> QED BY <2>1, <2>2, <2>3
<1>w. ASSUME UNCHANGED taskVars
      PROVE  /\ TaskInv({})'
             /\ Alive' = Alive /\ Recorded' = Recorded /\ FailedTasks' = FailedTasks
             /\ \A w \in Waiters : wait'[w] = wait[w] => WaitInv(w)'
  <2>1. UNCHANGED <<pc, outcome, wg, errs>> BY <1>w DEF taskVars
  <2>2. Alive' = Alive /\ Recorded' = Recorded /\ FailedTasks' = FailedTasks
    BY <2>1 DEF Alive, Recorded, FailedTasks
  <2>3. TaskInv({})' BY <2>1, <2>2 DEF TaskInv, TaskType
  <2>4. ASSUME NEW w \in Waiters, wait'[w] = wait[w] PROVE WaitInv(w)'
    BY <2>1, <2>2, <2>4 DEF WaitInv
  <2> QED BY <2>2, <2>3, <2>4
<1>3. ASSUME NEW w \in Waiters, WaitCall(w) PROVE GroupInv'
  <2>1. /\ wait' \in [Waiters -> Waits] /\ wait'[w].at = "blocked"
        /\ \A v \in Waiters : v # w => wait'[v] = wait[v]
    BY <1>3 DEF WaitCall, Waits
  <2>2. WaitInv(w)' BY <2>1 DEF WaitInv
  <2> QED BY <1>3, <1>w, <2>1, <2>2 DEF WaitCall
<1>4. ASSUME NEW w \in Waiters, WaitRelease(w) PROVE GroupInv'
  <2>1. /\ wait' \in [Waiters -> Waits]
        /\ wait'[w].at = "released" /\ wait'[w].covers = Launched
        /\ \A v \in Waiters : v # w => wait'[v] = wait[v]
    BY <1>4 DEF WaitRelease, Waits, Launched
  <2>2. Alive = {} /\ Launched = Gone
    BY <1>0, <1>4, AliveFacts DEF WaitRelease, TaskInv
  <2>3. WaitInv(w)'
    BY <1>4, <1>w, <2>1, <2>2 DEF WaitRelease, WaitInv, Gone, taskVars
  <2> QED BY <1>4, <1>w, <2>1, <2>3 DEF WaitRelease
<1>5. ASSUME NEW w \in Waiters, WaitReturn(w) PROVE GroupInv'
  <2>0. wait[w].at = "released" /\ Alive = {} /\ errs \in Seq(Tasks)
        /\ \A t \in wait[w].covers : pc[t] = "gone"
        /\ wait[w].covers \subseteq Tasks
    BY <1>5 DEF WaitReturn, WaitInv, TaskInv, Waits
  <2>1. /\ wait' \in [Waiters -> Waits]
        /\ wait'[w].at = "returned" /\ wait'[w].result = errs
        /\ wait'[w].covers = wait[w].covers
        /\ \A v \in Waiters : v # w => wait'[v] = wait[v]
    BY <1>5, <2>0 DEF WaitReturn, Waits
  <2>2. ToSet(errs) = Recorded /\ IsInjective(errs) BY DEF TaskInv
  <2>3. FailedTasks \cap wait[w].covers \subseteq Recorded
    BY <2>0 DEF FailedTasks, Recorded
  <2>4. WaitInv(w)'
    BY <1>5, <1>w, <2>0, <2>1, <2>2, <2>3 DEF WaitReturn, WaitInv, taskVars
  <2> QED BY <1>5, <1>w, <2>1, <2>4 DEF WaitReturn
<1>6. ASSUME NEW w \in Waiters, WaitAgain(w) PROVE GroupInv'
  <2>1. /\ wait' \in [Waiters -> Waits] /\ wait'[w].at = "out"
        /\ \A v \in Waiters : v # w => wait'[v] = wait[v]
    BY <1>6, EmptySlice DEF WaitAgain, NotWaiting, Waits
  <2>2. WaitInv(w)' BY <2>1 DEF WaitInv
  <2> QED BY <1>6, <1>w, <2>1, <2>2 DEF WaitAgain
<1>7. CASE UNCHANGED groupVars
  BY <1>7, <1>w DEF groupVars, taskVars
<1> QED BY <1>1, <1>2, <1>3, <1>4, <1>5, <1>6, <1>7 DEF GroupNext

(* When Wait lets go nothing of the group is alive, whoever launched it    *)
(* and when.                                                               *)
THEOREM GroupBarrier == GroupSpec => []Barrier
<1>1. GroupInv => Barrier
  BY AliveFacts DEF GroupInv, TaskInv, WaitInv, Barrier
<1> QED BY <1>1, GroupInitInv, GroupNextInv, PTL DEF GroupSpec

(* What Wait returns is exact: failures only, each once, none missing.     *)
THEOREM GroupReport == GroupSpec => []ReportExact
<1>1. GroupInv => ReportExact
  BY DEF GroupInv, WaitInv, ReportExact, Recorded, FailedTasks
<1> QED BY <1>1, GroupInitInv, GroupNextInv, PTL DEF GroupSpec

(* How far a goroutine is.                                                 *)
TaskRank(t) ==
  CASE pc[t] = "idle" -> 0 [] pc[t] = "running" -> 1 [] pc[t] = "failed" -> 2
    [] pc[t] = "leaving" -> 3 [] pc[t] = "gone" -> 4

NoneFallsBack == \A t \in Tasks : TaskRank(t)' >= TaskRank(t)

(* Launching a goroutine and each of its steps gets it further, and leaves *)
(* the others where they are.                                              *)
LEMMA TaskRanks ==
  ASSUME TaskType, NEW t \in Tasks, Spawn(t) \/ TaskStep(t)
  PROVE  NoneFallsBack /\ TaskRank(t)' > TaskRank(t)
<1>1. \/ /\ pc[t] = "idle" /\ pc' = [pc EXCEPT ![t] = "running"]
      \/ /\ pc[t] = "running" /\ pc' = [pc EXCEPT ![t] = "failed"]
      \/ /\ pc[t] = "running" /\ pc' = [pc EXCEPT ![t] = "leaving"]
      \/ /\ pc[t] = "failed" /\ pc' = [pc EXCEPT ![t] = "leaving"]
      \/ /\ pc[t] = "leaving" /\ pc' = [pc EXCEPT ![t] = "gone"]
  BY DEF Spawn, TaskStep, FnEnds, Record, Done
<1>2. \A u \in Tasks : TaskRank(u) \in Int BY DEF TaskType, Places, TaskRank
<1>3. TaskRank(t)' > TaskRank(t) /\ TaskRank(t)' \in Int BY <1>1 DEF TaskType, TaskRank
<1>4. \A u \in Tasks : u # t => TaskRank(u)' = TaskRank(u)
  BY <1>1 DEF TaskType, TaskRank
<1> QED BY <1>2, <1>3, <1>4 DEF NoneFallsBack

LEMMA RanksStay == ASSUME TaskType, UNCHANGED pc PROVE NoneFallsBack
<1>1. \A u \in Tasks : TaskRank(u) \in Int BY DEF TaskType, Places, TaskRank
<1>2. \A u \in Tasks : TaskRank(u)' = TaskRank(u) BY DEF TaskRank
<1> QED BY <1>1, <1>2 DEF NoneFallsBack

(* Somebody in Wait is let go or waits for a goroutine that is alive, and  *)
(* none of those ever blocks.                                              *)
WaitsForSomebody == \A w \in Waiters : wait[w].at = "blocked" => wg = 0 \/ Alive # {}

(* Once the counter is at zero it stays there for whoever is in Wait.      *)
DoorStaysOpen == Inside # {} /\ wg = 0 => wg' = 0

(* The safety half of WaitReturns, for any number of tasks and waiters:    *)
(* Wait never waits for nothing, goroutines only get further, also when    *)
(* they launch others, and the counter cannot leave zero behind the back   *)
(* of a waiter that has not run yet (Group.Wait).                          *)
THEOREM GroupWaitEnds ==
  GroupSpec => []WaitsForSomebody /\ [][NoneFallsBack /\ DoorStaysOpen]_groupVars
<1>1. GroupInv => WaitsForSomebody
  BY AliveFacts DEF GroupInv, TaskInv, WaitsForSomebody
<1>2. GroupInv /\ [GroupNext]_groupVars => [NoneFallsBack /\ DoorStaysOpen]_groupVars
  <2> SUFFICES ASSUME GroupInv, GroupNext PROVE NoneFallsBack /\ DoorStaysOpen OBVIOUS
  <2>1. TaskType /\ TaskInv({}) /\ {} \cap Tasks = {} BY DEF GroupInv, TaskInv
  <2>2. ASSUME NEW t \in Tasks, Go(t) PROVE NoneFallsBack /\ DoorStaysOpen
    <3>1. wg > 0 \/ Inside = {} BY <2>2 DEF Go
    <3>2. Spawn(t) BY <2>2 DEF Go
    <3>3. DoorStaysOpen BY <3>1 DEF DoorStaysOpen
    <3> QED BY <2>1, <3>2, <3>3, TaskRanks
  <2>3. ASSUME NEW t \in Tasks, Task(t) PROVE NoneFallsBack /\ DoorStaysOpen
    <3>1. TaskStep(t) BY <2>3 DEF Task
    <3>2. wg # 0 BY <2>1, <3>1, TaskStepInv, AliveFacts DEF TaskInv
    <3> QED BY <2>1, <3>1, <3>2, TaskRanks DEF DoorStaysOpen
  <2>4. ASSUME UNCHANGED taskVars PROVE NoneFallsBack /\ DoorStaysOpen
    BY <2>1, <2>4, RanksStay DEF taskVars, DoorStaysOpen
  <2> QED BY <2>2, <2>3, <2>4 DEF GroupNext, WaitCall, WaitRelease, WaitReturn, WaitAgain
<1> QED BY <1>1, <1>2, GroupInitInv, GroupNextInv, PTL DEF GroupSpec

-----------------------------------------------------------------------------
(* Fan.                                                                    *)

(* The loop was left early: the context's error is in the slice.           *)
BrokeOff == at \in {"wait", "returned"} /\ i <= N

(* The loop has launched exactly the items before i, and Fan returns only  *)
(* once the counter is at zero.                                            *)
LoopInv ==
  /\ ctx \in {"live", "done"}
  /\ at \in {"loop", "launch", "wait", "returned"} /\ i \in 1 .. N + 1
  /\ at = "launch" => i <= N
  /\ \A t \in Tasks : pc[t] = "idle" <=> t >= i
  /\ at = "returned" => wg = 0

FanInv ==
  /\ LoopInv
  /\ BrokeOff => TaskInv({CtxErr})
  /\ ~BrokeOff => TaskInv({})

LEMMA FanInitInv == TaskInit /\ LoopInit => FanInv
BY TaskInitInv, FanAssumption DEF TaskInit, LoopInit, FanInv, LoopInv, BrokeOff

LEMMA FanNextInv == FanInv /\ [FanNext]_fanVars => FanInv'
<1> SUFFICES ASSUME FanInv, [FanNext]_fanVars PROVE FanInv' OBVIOUS
<1> USE FanAssumption DEF FanInv
<1>t. TaskType BY DEF TaskInv
<1>u. ASSUME UNCHANGED <<pc, outcome, wg, errs>>, NEW X, TaskInv(X) PROVE TaskInv(X)'
  BY <1>u DEF TaskInv, TaskType, Alive, Recorded
<1>1. CASE Cancel
  BY <1>1, <1>u DEF Cancel, LoopInv, BrokeOff
<1>2. CASE LoopCheck
  BY <1>2, <1>u DEF LoopCheck, LoopInv, BrokeOff
<1>3. CASE LoopBreak
  <2>1. TaskInv({}) /\ BrokeOff' BY <1>3 DEF LoopBreak, BrokeOff
  <2>2. LoopInv' BY <1>3 DEF LoopBreak, LoopInv
  <2>3. CtxErr \notin Tasks BY DEF CtxErr
  <2>4. /\ errs \in Seq(Tasks \cup {CtxErr}) /\ CtxErr \notin ToSet(errs)
        /\ IsInjective(errs) /\ ToSet(errs) = Recorded
    BY <2>1, <2>3 DEF TaskInv, Recorded
  <2>5. errs' = Append(errs, CtxErr) /\ UNCHANGED <<pc, outcome, wg>>
    BY <1>3 DEF LoopBreak
  <2>6. /\ errs' \in Seq(Tasks \cup {CtxErr}) /\ IsInjective(errs')
        /\ ToSet(errs') = Recorded \cup {CtxErr}
    BY <2>4, <2>5, AppendFacts
  <2>7. TaskInv({CtxErr})'
    BY <2>1, <2>5, <2>6 DEF TaskInv, TaskType, Alive, Recorded
  <2> QED BY <2>1, <2>2, <2>7
<1>4. CASE Launch
  <2>1. i \in Tasks /\ Spawn(i) /\ ~BrokeOff /\ ~BrokeOff'
    BY <1>4 DEF Launch, LoopInv, BrokeOff
  <2>2. TaskInv({})' BY <2>1, SpawnInv
  <2>3. LoopInv' BY <1>4, <1>t, <2>1 DEF Launch, LoopInv, Spawn, TaskType
  <2> QED BY <2>1, <2>2, <2>3
<1>5. CASE LoopEnd
  BY <1>5, <1>u DEF LoopEnd, LoopInv, BrokeOff
<1>6. CASE Return
  BY <1>6, <1>u DEF Return, LoopInv, BrokeOff
<1>7. ASSUME NEW t \in Tasks, Worker(t) PROVE FanInv'
  <2>1. TaskStep(t) /\ UNCHANGED <<ctx, at, i>> /\ BrokeOff' = BrokeOff
    BY <1>7 DEF Worker, loopVars, BrokeOff
  <2>2. ASSUME NEW X, X \cap Tasks = {}, TaskInv(X)
        PROVE  TaskInv(X)' /\ LoopInv'
    <3>1. /\ TaskInv(X)' /\ t \in Alive
          /\ \A u \in Tasks : pc[u] = "idle" <=> pc'[u] = "idle"
      BY <2>1, <2>2, TaskStepInv
    <3>2. wg # 0 BY <1>t, <2>2, <3>1, AliveFacts DEF TaskInv
    <3> QED BY <2>1, <3>1, <3>2 DEF LoopInv
  <2>3. CASE BrokeOff
    <3>1. {CtxErr} \cap Tasks = {} BY DEF CtxErr
    <3>2. TaskInv({CtxErr})' /\ LoopInv' BY <2>2, <2>3, <3>1
    <3> QED BY <2>1, <2>3, <3>2
  <2>4. CASE ~BrokeOff
    <3>1. {} \cap Tasks = {} OBVIOUS
    <3>2. TaskInv({})' /\ LoopInv' BY <2>2, <2>4, <3>1
    <3> QED BY <2>1, <2>4, <3>2
  <2> QED BY <2>3, <2>4
<1>8. CASE Terminated \/ UNCHANGED fanVars
  BY <1>8, <1>u DEF Terminated, fanVars, LoopInv, BrokeOff
<1> QED BY <1>1, <1>2, <1>3, <1>4, <1>5, <1>6, <1>7, <1>8 DEF FanNext, Launcher

(* Every item is accounted for when Fan returns, for any number of items,  *)
(* whenever the context ends.                                              *)
THEOREM FanAccounts == FanSpec => []EveryItemAccounted
<1>1. FanInv => EveryItemAccounted
  <2> SUFFICES ASSUME FanInv, at = "returned"
               PROVE  /\ Launched = Gone
                      /\ NamesOnce(errs, FailedTasks \cup
                                     (IF Launched = Tasks THEN {} ELSE {CtxErr}))
    BY DEF EveryItemAccounted
  <2> DEFINE X == IF BrokeOff THEN {CtxErr} ELSE {}
  <2>1. TaskInv(X) /\ wg = 0 BY DEF FanInv, LoopInv
  <2>2. Launched = Gone BY <2>1, AliveFacts DEF TaskInv
  <2>3. X = IF Launched = Tasks THEN {} ELSE {CtxErr}
    <3>1. Launched = {t \in Tasks : t < i}
      BY FanAssumption DEF FanInv, LoopInv, Launched
    <3>2. i > N => Launched = Tasks
      BY <3>1, FanAssumption DEF FanInv, LoopInv
    <3>3. i <= N => i \in Tasks /\ i \notin Launched
      BY <3>1, FanAssumption DEF FanInv, LoopInv
    <3> QED BY <3>2, <3>3, FanAssumption DEF FanInv, LoopInv, BrokeOff
  <2>4. Recorded = FailedTasks
    BY <2>1, <2>2 DEF TaskInv, Recorded, FailedTasks, Failed, Launched, Gone
  <2> HIDE DEF X
  <2>5. errs \in Seq(Tasks \cup X) /\ IsInjective(errs) /\ ToSet(errs) = FailedTasks \cup X
    BY <2>1, <2>4 DEF TaskInv
  <2>6. NamesOnce(errs, FailedTasks \cup X)
    BY <2>5, InjectiveLen DEF NamesOnce
  <2> QED BY <2>2, <2>3, <2>6
<1> QED BY <1>1, FanInitInv, FanNextInv, PTL DEF FanSpec

(* The guards of Fan's own steps, and how far Fan is.                      *)
FanReady == at \in {"loop", "launch"} \/ (at = "wait" /\ wg = 0)

FanRank ==
  CASE at = "loop" -> 2 * i [] at = "launch" -> 2 * i + 1
    [] at = "wait" -> 2 * N + 4 [] at = "returned" -> 2 * N + 5

FanNeverStuck == at = "returned" \/ FanReady \/ Alive # {}

FanAdvance ==
  /\ FanRank' >= FanRank /\ NoneFallsBack /\ (ctx = "done" => ctx' = "done")
  /\ \/ FanRank' > FanRank \/ ctx' # ctx
     \/ \E t \in Tasks : TaskRank(t)' > TaskRank(t)

(* The safety half of FanReturns, for any number of items: until Fan has   *)
(* returned somebody can run, and every step gets Fan, a goroutine or the  *)
(* context further, none of which ever falls back (Fan).                   *)
THEOREM FanEnds == FanSpec => []FanNeverStuck /\ [][FanAdvance]_fanVars
<1> USE FanAssumption
<1>0. FanInv => TaskType BY DEF FanInv, TaskInv
<1>1. FanInv => FanNeverStuck
  BY AliveFacts DEF FanInv, LoopInv, TaskInv, FanNeverStuck, FanReady
<1>2. FanInv /\ [FanNext]_fanVars => [FanAdvance]_fanVars
  <2> SUFFICES ASSUME FanInv, FanNext, ~UNCHANGED fanVars PROVE FanAdvance OBVIOUS
  <2>t. TaskType BY <1>0
  <2>i. FanRank \in Int BY DEF FanInv, LoopInv, FanRank
  <2>1. CASE Cancel
    <3>1. FanRank' = FanRank BY <2>1 DEF Cancel, FanRank
    <3>2. NoneFallsBack BY <2>t, <2>1, RanksStay DEF Cancel
    <3> QED BY <2>1, <2>i, <3>1, <3>2 DEF Cancel, FanAdvance
  <2>2. ASSUME Launcher PROVE FanRank' \in Int /\ FanRank' > FanRank /\ ctx' = ctx
    BY <2>2 DEF Launcher, LoopCheck, LoopBreak, Launch, LoopEnd, Return, FanRank, FanInv, LoopInv
  <2>3. CASE LoopCheck \/ LoopBreak \/ LoopEnd \/ Return
    <3>1. NoneFallsBack BY <2>t, <2>3, RanksStay DEF LoopCheck, LoopBreak, LoopEnd, Return
    <3>2. FanRank' >= FanRank /\ FanRank' > FanRank /\ ctx' = ctx BY <2>2, <2>3, <2>i DEF Launcher
    <3> QED BY <3>1, <3>2 DEF FanAdvance
  <2>4. CASE Launch
    <3>1. i \in Tasks /\ Spawn(i) BY <2>4 DEF Launch, FanInv, LoopInv
    <3>2. NoneFallsBack BY <2>t, <3>1, TaskRanks
    <3>3. FanRank' >= FanRank /\ FanRank' > FanRank /\ ctx' = ctx BY <2>2, <2>4, <2>i DEF Launcher
    <3> QED BY <3>2, <3>3 DEF FanAdvance
  <2>5. ASSUME NEW t \in Tasks, Worker(t) PROVE FanAdvance
    <3>1. TaskStep(t) /\ UNCHANGED <<ctx, at, i>> BY <2>5 DEF Worker, loopVars
    <3>2. NoneFallsBack /\ TaskRank(t)' > TaskRank(t) BY <2>t, <3>1, TaskRanks
    <3>3. FanRank' = FanRank BY <3>1 DEF FanRank
    <3>4. FanRank' >= FanRank BY <2>i, <3>3
    <3> QED BY <3>1, <3>2, <3>4 DEF FanAdvance
  <2> QED BY <2>1, <2>3, <2>4, <2>5 DEF FanNext, Launcher, Terminated
<1> QED BY <1>1, <1>2, FanInitInv, FanNextInv, PTL DEF FanSpec

-----------------------------------------------------------------------------
(* GoErr.                                                                  *)

(* A goroutine that has something to send finds room, whoever receives and *)
(* whether anybody does; what a caller got is the outcome of its fn; and   *)
(* until it is received the outcome of a goroutine that has ended is in    *)
(* the channel, unless fn called runtime.Goexit (GoErr's buffered channel).*)
PromiseKept ==
  \A t \in Promises :
    /\ pc[t] = "sending" => CanSend(t)
    /\ caller[t] \in {"busy", "waiting", "left", outcome[t]}
    /\ pc[t] = "gone" /\ caller[t] \in {"busy", "waiting"} =>
         chan[t] = <<outcome[t]>> \/ outcome[t] = "goexit"

Asking == {"busy", "waiting"}
Values == AllOutcomes \cup {"none"}

DetachedType ==
  /\ pc \in [Tasks -> {"idle", "detached", "reporting", "promised", "sending", "gone"}]
  /\ outcome \in [Tasks -> Values]
  /\ chan \in [Tasks -> Seq(Values)]
  /\ caller \in [Tasks -> Asking \cup {"left"} \cup Values]

(* Before the goroutine ends the channel is empty and nobody has received; *)
(* afterwards it holds the outcome, or that has been received.             *)
PromiseInv(t) ==
  /\ pc[t] \in {"detached", "reporting"} => caller[t] = "left"
  /\ pc[t] # "gone" => chan[t] = <<>> /\ caller[t] \in Asking \cup {"left"}
  /\ chan[t] \in {<<>>, <<outcome[t]>>}
  /\ caller[t] \in {"busy", "waiting", "left", outcome[t]}
  /\ pc[t] = "gone" /\ caller[t] \in Asking =>
       chan[t] = <<outcome[t]>> \/ outcome[t] = "goexit"

DetachedInv == DetachedType /\ \A t \in Promises : PromiseInv(t)

LEMMA DetachedInitInv == TaskInit /\ DetachedInit => DetachedInv
BY PromisesAssumption, EmptySlice
DEF TaskInit, DetachedInit, DetachedInv, DetachedType, PromiseInv, Asking, Values

LEMMA DetachedNextInv == DetachedInv /\ [DetachedNext]_detachedVars => DetachedInv'
<1> SUFFICES ASSUME DetachedInv, [DetachedNext]_detachedVars PROVE DetachedInv'
  OBVIOUS
<1> USE PromisesAssumption DEF DetachedInv
<1>1. ASSUME NEW t \in Promises, GoCall(t) PROVE DetachedInv'
  <2>1. DetachedType' BY <1>1 DEF GoCall, Detached, DetachedType
  <2>2. \A u \in Promises : PromiseInv(u)'
    BY <1>1 DEF GoCall, Detached, DetachedType, PromiseInv, Asking
  <2> QED BY <2>1, <2>2
<1>2. ASSUME NEW t \in Promises, GoErrCall(t) PROVE DetachedInv'
  <2>1. DetachedType' BY <1>2 DEF GoErrCall, Detached, DetachedType
  <2>2. \A u \in Promises : PromiseInv(u)'
    BY <1>2 DEF GoErrCall, Detached, DetachedType, PromiseInv, Asking
  <2> QED BY <2>1, <2>2
<1>3. ASSUME NEW t \in Promises, NEW o \in Outcomes, GoFnEnds(t, o) PROVE DetachedInv'
  <2>0. o \in Values BY TaskAssumption DEF Values
  <2>1. DetachedType' BY <1>3, <2>0 DEF GoFnEnds, Detached, DetachedType
  <2>2. \A u \in Promises : PromiseInv(u)'
    BY <1>3 DEF GoFnEnds, Detached, DetachedType, PromiseInv, Asking
  <2> QED BY <2>1, <2>2
<1>4. ASSUME NEW t \in Promises, NEW o \in Outcomes, GoErrFnEnds(t, o) PROVE DetachedInv'
  <2>0. o \in Values BY TaskAssumption DEF Values
  <2>1. DetachedType' BY <1>4, <2>0 DEF GoErrFnEnds, Detached, DetachedType
  <2>2. \A u \in Promises : PromiseInv(u)'
    BY <1>4 DEF GoErrFnEnds, Detached, DetachedType, PromiseInv, Asking
  <2> QED BY <2>1, <2>2
<1>5. ASSUME NEW t \in Promises, OnPanic(t) PROVE DetachedInv'
  <2>1. DetachedType' BY <1>5 DEF OnPanic, Detached, DetachedType
  <2>2. \A u \in Promises : PromiseInv(u)'
    BY <1>5 DEF OnPanic, Detached, DetachedType, PromiseInv, Asking
  <2> QED BY <2>1, <2>2
<1>6. ASSUME NEW t \in Promises, Send(t) PROVE DetachedInv'
  <2>a. chan[t] = <<>> /\ chan' = [chan EXCEPT ![t] = Append(chan[t], outcome[t])]
    BY <1>6 DEF Send, Detached, PromiseInv
  <2>b. Append(<<>>, outcome[t]) = <<outcome[t]>> OBVIOUS
  <2>1. chan' = [chan EXCEPT ![t] = <<outcome[t]>>]
    BY <2>a, <2>b
  <2>2. DetachedType' BY <1>6, <2>1 DEF Send, Detached, DetachedType
  <2>3. \A u \in Promises : PromiseInv(u)'
    BY <1>6, <2>1 DEF Send, Detached, DetachedType, PromiseInv, Asking
  <2> QED BY <2>2, <2>3
<1>7. ASSUME NEW t \in Promises, Ask(t) \/ GiveUp(t) PROVE DetachedInv'
  <2>1. DetachedType' BY <1>7 DEF Ask, GiveUp, DetachedType, Asking
  <2>2. \A u \in Promises : PromiseInv(u)'
    BY <1>7 DEF Ask, GiveUp, DetachedType, PromiseInv, Asking
  <2> QED BY <2>1, <2>2
<1>8. ASSUME NEW t \in Promises, Receive(t) PROVE DetachedInv'
  <2>0. /\ chan[t] = <<outcome[t]>> /\ pc[t] = "gone"
        /\ Head(chan[t]) = outcome[t] /\ Tail(chan[t]) = <<>>
        /\ outcome[t] \in Values
    BY <1>8 DEF Receive, PromiseInv, DetachedType
  <2>1. /\ chan' = [chan EXCEPT ![t] = <<>>]
        /\ caller' = [caller EXCEPT ![t] = outcome[t]]
        /\ UNCHANGED <<pc, outcome>>
    BY <1>8, <2>0 DEF Receive
  <2>2. DetachedType' BY <2>0, <2>1 DEF DetachedType
  <2>3. outcome[t] \notin Asking BY <2>0 DEF Values, AllOutcomes, Asking
  <2>4. \A u \in Promises : PromiseInv(u)'
    BY <2>0, <2>1, <2>3 DEF DetachedType, PromiseInv
  <2> QED BY <2>2, <2>4
<1>9. CASE Over \/ UNCHANGED detachedVars
  BY <1>9 DEF Over, detachedVars, DetachedType, PromiseInv
<1> QED BY <1>1, <1>2, <1>3, <1>4, <1>5, <1>6, <1>7, <1>8, <1>9
        DEF DetachedNext, DetachedStep

(* GoErr leaks no goroutine at its channel and loses no outcome: the       *)
(* safety half of OutcomeDelivered, for any number of calls.               *)
THEOREM PromisesKept == DetachedSpec => []PromiseKept
<1>1. DetachedInv => PromiseKept
  BY DEF DetachedInv, PromiseInv, PromiseKept, Asking, CanSend, ChanCapacity
<1> QED BY <1>1, DetachedInitInv, DetachedNextInv, PTL DEF DetachedSpec
=============================================================================
