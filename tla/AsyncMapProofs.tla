---------------------------- MODULE AsyncMapProofs ----------------------------
(***************************************************************************)
(* Proofs about AsyncMap for any number of items and any concurrency.      *)
(***************************************************************************)
EXTENDS AsyncMap, FiniteSetTheorems, TLAPS

(* The token the launcher has taken for a goroutine it has not started yet,*)
(* and the same for the WaitGroup.                                         *)
TokenInHand == IF at \in {"add", "go"} THEN 1 ELSE 0
AddInHand   == IF at = "go" THEN 1 ELSE 0

(* The semaphore counts the goroutines that have not released it, and the  *)
(* WaitGroup the ones that are alive.                                      *)
Counting ==
  /\ sem = Cardinality(Holding) + TokenInHand
  /\ sem <= concurrency
  /\ wg = Cardinality(Alive) + AddInHand

(* The launcher starts the items in order, each once.                      *)
InOrder ==
  /\ at \in {"select", "add", "go"} => i <= N
  /\ at \in {"wait", "returned"} => i = N + 1 \/ canceled
  /\ \A x \in Items : worker[x] = "none" <=> x >= i

(* What a goroutine leaves behind, and what Map makes of it.               *)
Outcome ==
  /\ \A x \in Items :
       /\ worker[x] \in {"none", "started", "fn"} => errs[x] = "nil"
       /\ worker[x] \in {"leaving", "released", "done"} /\ errs[x] = "nil"
            => results[x] = "nil" \/ "goexit" \in Outcomes
  /\ at # "returned" => ret = "none"
  /\ at = "returned" /\ (\E x \in Items : errs[x] \in Specific) => ret = "err"
  /\ ret = "nil" => \A x \in Items : errs[x] = "nil" /\ worker[x] # "none"

(* The inductive invariant.                                                *)
IInv == TypeOK /\ Counting /\ InOrder /\ Outcome /\ NoneOutlivesMap

LEMMA ConcurrencyType == concurrency \in Nat \ {0}
BY MapAssumption DEF concurrency

(* The two sets that are counted are finite; entering and leaving them     *)
(* changes their size by one.                                              *)
LEMMA Counts ==
  ASSUME NEW S \in SUBSET Items
  PROVE  /\ IsFiniteSet(S)
         /\ Cardinality(S) \in Nat
         /\ Cardinality(S) = 0 => S = {}
         /\ \A x : x \in S => Cardinality(S \ {x}) = Cardinality(S) - 1
         /\ \A x : x \notin S => Cardinality(S \cup {x}) = Cardinality(S) + 1
<1>1. IsFiniteSet(Items) BY MapAssumption, FS_Interval DEF Items
<1>2. IsFiniteSet(S) BY <1>1, FS_Subset
<1> QED BY <1>2, FS_CardinalityType, FS_EmptySet, FS_RemoveElement, FS_AddElement

LEMMA InitIInv == Init => IInv
<1> SUFFICES ASSUME Init PROVE IInv OBVIOUS
<1> USE MapAssumption, ConcurrencyType DEF Init
<1>0. i \in 1 .. N + 1 /\ sem \in Int /\ wg \in Int OBVIOUS
<1>1. TypeOK
  <2>1. /\ worker \in [Items -> Places]
        /\ errs \in [Items -> {"nil", "err", "ctx", "panic"}]
        /\ results \in [Items -> {"zero", "nil", "err", "ctx"}]
    BY DEF Places
  <2> QED BY <1>0, <2>1 DEF TypeOK
<1>2. Holding = {} /\ Alive = {} BY DEF Holding, Alive
<1>3. Counting BY <1>2, FS_EmptySet DEF Counting, TokenInHand, AddInHand
<1>4. InOrder BY DEF InOrder, Items
<1>5. Outcome BY DEF Outcome, Specific
<1>6. NoneOutlivesMap BY DEF NoneOutlivesMap
<1> QED BY <1>1, <1>3, <1>4, <1>5, <1>6 DEF IInv

LEMMA NextIInv == IInv /\ [Next]_vars => IInv'
<1> SUFFICES ASSUME IInv, [Next]_vars PROVE IInv' OBVIOUS
<1> USE MapAssumption, ConcurrencyType DEF IInv
<1>h. /\ Holding \in SUBSET Items /\ Alive \in SUBSET Items
      /\ Cardinality(Holding) \in Nat /\ Cardinality(Alive) \in Nat
  BY Counts DEF Holding, Alive
<1>t. i \in Nat /\ N \in Nat BY DEF TypeOK
(* Steps that leave the workers and what they wrote alone.                 *)
<1>s. ASSUME UNCHANGED <<worker, errs, results, ret>>,
             at' # "returned", at # "returned"
      PROVE  Outcome' /\ NoneOutlivesMap' /\ Holding' = Holding /\ Alive' = Alive
  BY <1>s DEF Outcome, NoneOutlivesMap, Holding, Alive
<1>1. CASE Cancel
  <2>1. TypeOK' /\ InOrder' BY <1>1 DEF Cancel, TypeOK, InOrder
  <2>2. Holding' = Holding /\ Alive' = Alive BY <1>1 DEF Cancel, Holding, Alive
  <2>3. Counting' BY <1>1, <2>2 DEF Cancel, Counting, TokenInHand, AddInHand
  <2>4. Outcome' BY <1>1 DEF Cancel, Outcome
  <2>5. NoneOutlivesMap' BY <1>1, <2>2 DEF Cancel, NoneOutlivesMap
  <2> QED BY <2>1, <2>3, <2>4, <2>5
<1>2. CASE LoopCheck
  <2>1. TypeOK' /\ InOrder'
    BY <1>2, <1>t DEF LoopCheck, TypeOK, InOrder
  <2>2. Outcome' /\ NoneOutlivesMap' /\ Holding' = Holding /\ Alive' = Alive
    BY <1>2, <1>s DEF LoopCheck
  <2>3. Counting'
    BY <1>2, <2>2 DEF LoopCheck, Counting, TokenInHand, AddInHand
  <2> QED BY <2>1, <2>2, <2>3
<1>3. CASE SelectDone
  <2>1. TypeOK' /\ InOrder' BY <1>3 DEF SelectDone, TypeOK, InOrder
  <2>2. Outcome' /\ NoneOutlivesMap' /\ Holding' = Holding /\ Alive' = Alive
    BY <1>3, <1>s DEF SelectDone
  <2>3. Counting'
    BY <1>3, <2>2 DEF SelectDone, Counting, TokenInHand, AddInHand
  <2> QED BY <2>1, <2>2, <2>3
<1>4. CASE SelectToken
  <2>1. TypeOK' /\ InOrder' BY <1>4 DEF SelectToken, TypeOK, InOrder
  <2>2. Outcome' /\ NoneOutlivesMap' /\ Holding' = Holding /\ Alive' = Alive
    BY <1>4, <1>s DEF SelectToken
  <2>3. Counting'
    BY <1>4, <1>h, <2>2 DEF SelectToken, Counting, TokenInHand, AddInHand, TypeOK
  <2> QED BY <2>1, <2>2, <2>3
<1>5. CASE Add
  <2>1. TypeOK' /\ InOrder' BY <1>5 DEF Add, TypeOK, InOrder
  <2>2. Outcome' /\ NoneOutlivesMap' /\ Holding' = Holding /\ Alive' = Alive
    BY <1>5, <1>s DEF Add
  <2>3. Counting'
    BY <1>5, <1>h, <2>2 DEF Add, Counting, TokenInHand, AddInHand, TypeOK
  <2> QED BY <2>1, <2>2, <2>3
<1>6. CASE Launch
  <2>0. i \in Items /\ worker[i] = "none"
    BY <1>6, <1>t DEF Launch, InOrder, Items, TypeOK
  <2>1. TypeOK' BY <1>6, <1>t, <2>0 DEF Launch, TypeOK, Places, Items
  <2>2. InOrder' BY <1>6, <1>t, <2>0 DEF Launch, InOrder, TypeOK, Items
  <2>3. Outcome' BY <1>6, <2>0 DEF Launch, Outcome, TypeOK
  <2>4. NoneOutlivesMap' BY <1>6 DEF Launch, NoneOutlivesMap
  <2>5. /\ Holding' = Holding \cup {i} /\ i \notin Holding
        /\ Alive' = Alive \cup {i} /\ i \notin Alive
    BY <1>6, <2>0 DEF Launch, Holding, Alive, TypeOK
  <2>6. /\ Cardinality(Holding') = Cardinality(Holding) + 1
        /\ Cardinality(Alive') = Cardinality(Alive) + 1
    BY <1>h, <2>5, Counts
  <2>7. Counting'
    BY <1>6, <1>h, <2>6 DEF Launch, Counting, TokenInHand, AddInHand, TypeOK
  <2> QED BY <2>1, <2>2, <2>3, <2>4, <2>7
<1>7. CASE Return
  <2>1. TypeOK' /\ InOrder' BY <1>7 DEF Return, TypeOK, InOrder
  <2>2. Holding' = Holding /\ Alive' = Alive BY <1>7 DEF Return, Holding, Alive
  <2>3. Cardinality(Alive) = 0
    BY <1>7, <1>h DEF Return, Counting, AddInHand
  <2>4. Alive = {} BY <1>h, <2>3, Counts
  <2>5. NoneOutlivesMap' BY <2>2, <2>4 DEF NoneOutlivesMap
  <2>6. Counting' BY <1>7, <2>2 DEF Return, Counting, TokenInHand, AddInHand
  <2>7. UNCHANGED <<worker, errs, results, canceled>> /\ at' = "returned"
    BY <1>7 DEF Return
  <2>8. ret' = "nil" => \A x \in Items : errs[x] = "nil" /\ worker[x] # "none"
    <3> SUFFICES ASSUME ret' = "nil", NEW x \in Items
                 PROVE  errs[x] = "nil" /\ worker[x] # "none"
      OBVIOUS
    <3>1. errs[x] = "nil" /\ ~canceled BY <1>7 DEF Return
    <3>2. i = N + 1 BY <1>7, <3>1 DEF Return, InOrder
    <3> QED BY <1>t, <3>1, <3>2 DEF InOrder, Items
  <2>9. (\E x \in Items : errs[x] \in Specific) => ret' = "err"
    BY <1>7 DEF Return
  <2>10. Outcome' BY <2>7, <2>8, <2>9 DEF Outcome
  <2> QED BY <2>1, <2>5, <2>6, <2>10
(* A step of the goroutine of x.                                           *)
<1>w. ASSUME NEW x \in Items, worker[x] \in Places \ {"none", "done"},
             UNCHANGED <<canceled, at, i, ret>>,
             NEW p \in Places \ {"none"}, worker' = [worker EXCEPT ![x] = p],
             errs' \in [Items -> {"nil", "err", "ctx", "panic"}],
             results' \in [Items -> {"zero", "nil", "err", "ctx"}],
             \A y \in Items \ {x} : errs'[y] = errs[y] /\ results'[y] = results[y],
             p = "fn" => errs'[x] = "nil",
             p \in {"leaving", "released", "done"} /\ errs'[x] = "nil"
               => results'[x] = "nil" \/ "goexit" \in Outcomes,
             sem' \in Int, wg' \in Int, p # "started",
             Counting'
      PROVE  IInv'
  <2>1. TypeOK' BY <1>w DEF TypeOK, Places
  <2>2. InOrder' BY <1>w DEF InOrder, TypeOK
  <2>3. at # "returned" BY <1>w DEF NoneOutlivesMap, Alive, Places
  <2>4. NoneOutlivesMap' BY <1>w, <2>3 DEF NoneOutlivesMap
  <2>5. ret # "nil" BY <2>3 DEF Outcome
  <2>6. Outcome' BY <1>w, <2>3, <2>5 DEF Outcome, TypeOK, Places
  <2> QED BY <1>w, <2>1, <2>2, <2>4, <2>6
<1>8. ASSUME NEW x \in Items, WorkerBegin(x) PROVE IInv'
  <2>1. worker[x] = "started" /\ errs[x] = "nil"
    BY <1>8 DEF WorkerBegin, Outcome
  <2>2. Holding' = Holding /\ Alive' = Alive
    BY <1>8 DEF WorkerBegin, WorkerGoto, Holding, Alive, TypeOK
  <2>3. Counting'
    BY <1>8, <2>2 DEF WorkerBegin, Counting, TokenInHand, AddInHand
  <2>4. CASE canceled
    <3>1. /\ worker' = [worker EXCEPT ![x] = "leaving"]
          /\ errs' = [errs EXCEPT ![x] = "ctx"] /\ results' = results
          /\ UNCHANGED <<canceled, at, i, sem, wg, ret>>
      BY <1>8, <2>4 DEF WorkerBegin, WorkerGoto
    <3> QED BY <1>w, <2>1, <2>3, <3>1 DEF TypeOK, Places
  <2>5. CASE ~canceled
    <3>1. /\ worker' = [worker EXCEPT ![x] = "fn"]
          /\ UNCHANGED <<errs, results, canceled, at, i, sem, wg, ret>>
      BY <1>8, <2>5 DEF WorkerBegin, WorkerGoto
    <3> QED BY <1>w, <2>1, <2>3, <3>1 DEF TypeOK, Places
  <2> QED BY <2>4, <2>5
<1>9. ASSUME NEW x \in Items, NEW o \in Outcomes, WorkerEnd(x, o) PROVE IInv'
  <2>1. worker[x] = "fn" /\ errs[x] = "nil" BY <1>9 DEF WorkerEnd, Outcome
  <2>2. Holding' = Holding /\ Alive' = Alive
    BY <1>9 DEF WorkerEnd, WorkerGoto, Holding, Alive, TypeOK
  <2>3. Counting'
    BY <1>9, <2>2 DEF WorkerEnd, Counting, TokenInHand, AddInHand
  <2>4. o \in AllOutcomes OBVIOUS
  <2>5. /\ worker' = [worker EXCEPT ![x] = "leaving"]
        /\ errs' = [errs EXCEPT ![x] = IF o = "goexit" THEN errs[x] ELSE o]
        /\ results' = [results EXCEPT ![x] =
                         IF o \in {"panic", "goexit"} THEN results[x] ELSE o]
        /\ UNCHANGED <<canceled, at, i, sem, wg, ret>>
    BY <1>9 DEF WorkerEnd, WorkerGoto
  <2>6. /\ errs' \in [Items -> {"nil", "err", "ctx", "panic"}]
        /\ results' \in [Items -> {"zero", "nil", "err", "ctx"}]
        /\ \A y \in Items \ {x} : errs'[y] = errs[y] /\ results'[y] = results[y]
        /\ errs'[x] = "nil" => results'[x] = "nil" \/ "goexit" \in Outcomes
    BY <2>1, <2>4, <2>5 DEF TypeOK, AllOutcomes
  <2> QED BY <1>w, <2>1, <2>3, <2>5, <2>6 DEF TypeOK, Places
<1>10. ASSUME NEW x \in Items, WorkerRelease(x) PROVE IInv'
  <2>1. /\ worker[x] = "leaving" /\ worker' = [worker EXCEPT ![x] = "released"]
        /\ sem' = sem - 1
        /\ UNCHANGED <<canceled, at, i, wg, errs, results, ret>>
    BY <1>10 DEF WorkerRelease, WorkerGoto
  <2>2. Holding' = Holding \ {x} /\ x \in Holding /\ Alive' = Alive
    BY <2>1 DEF Holding, Alive, TypeOK
  <2>3. Cardinality(Holding') = Cardinality(Holding) - 1
    BY <1>h, <2>2, Counts
  <2>4. Counting'
    BY <1>h, <2>1, <2>2, <2>3 DEF Counting, TokenInHand, AddInHand, TypeOK
  <2>5. errs[x] = "nil" => results[x] = "nil" \/ "goexit" \in Outcomes
    BY <2>1 DEF Outcome
  <2>6. /\ sem' \in Int /\ wg' \in Int
        /\ errs' \in [Items -> {"nil", "err", "ctx", "panic"}]
        /\ results' \in [Items -> {"zero", "nil", "err", "ctx"}]
    BY <2>1 DEF TypeOK
  <2> QED BY <1>w, <2>1, <2>4, <2>5, <2>6 DEF Places
<1>11. ASSUME NEW x \in Items, WorkerDone(x) PROVE IInv'
  <2>1. /\ worker[x] = "released" /\ worker' = [worker EXCEPT ![x] = "done"]
        /\ wg' = wg - 1
        /\ UNCHANGED <<canceled, at, i, sem, errs, results, ret>>
    BY <1>11 DEF WorkerDone, WorkerGoto
  <2>2. Holding' = Holding /\ Alive' = Alive \ {x} /\ x \in Alive
    BY <2>1 DEF Holding, Alive, TypeOK
  <2>3. Cardinality(Alive') = Cardinality(Alive) - 1
    BY <1>h, <2>2, Counts
  <2>4. Counting'
    BY <1>h, <2>1, <2>2, <2>3 DEF Counting, TokenInHand, AddInHand, TypeOK
  <2>5. errs[x] = "nil" => results[x] = "nil" \/ "goexit" \in Outcomes
    BY <2>1 DEF Outcome
  <2>6. /\ sem' \in Int /\ wg' \in Int
        /\ errs' \in [Items -> {"nil", "err", "ctx", "panic"}]
        /\ results' \in [Items -> {"zero", "nil", "err", "ctx"}]
    BY <2>1 DEF TypeOK
  <2> QED BY <1>w, <2>1, <2>4, <2>5, <2>6 DEF Places
<1>12. CASE Terminated \/ UNCHANGED vars
  <2>1. UNCHANGED vars BY <1>12 DEF Terminated
  <2>2. TypeOK' /\ InOrder' /\ Outcome'
    BY <2>1 DEF vars, TypeOK, InOrder, Outcome
  <2>3. Holding' = Holding /\ Alive' = Alive BY <2>1 DEF vars, Holding, Alive
  <2>4. Counting' /\ NoneOutlivesMap'
    BY <2>1, <2>3 DEF vars, Counting, TokenInHand, AddInHand, NoneOutlivesMap
  <2> QED BY <2>2, <2>4
<1> QED
  BY <1>1, <1>2, <1>3, <1>4, <1>5, <1>6, <1>7, <1>8, <1>9, <1>10, <1>11, <1>12
  DEF Next, Launcher, Worker

(* The counters, the slices and the goroutines stay well-formed.           *)
THEOREM TypeCorrect == Spec => []TypeOK
<1>1. IInv => TypeOK BY DEF IInv
<1> QED BY InitIInv, NextIInv, <1>1, PTL DEF Spec

(* For any number of items, never more than `concurrency' are inside fn.   *)
THEOREM ConcurrencyBounded == Spec => []BoundedConcurrency
<1>1. IInv => BoundedConcurrency
  <2> SUFFICES ASSUME IInv PROVE BoundedConcurrency OBVIOUS
  <2> DEFINE InFn == {x \in Items : worker[x] = "fn"}
  <2>1. InFn \in SUBSET Holding /\ Holding \in SUBSET Items
    BY DEF Holding
  <2>2. IsFiniteSet(Holding) /\ Cardinality(Holding) \in Nat BY <2>1, Counts
  <2>3. Cardinality(InFn) <= Cardinality(Holding) BY <2>1, <2>2, FS_Subset
  <2>4. Cardinality(InFn) \in Nat
    <3>1. InFn \in SUBSET Items OBVIOUS
    <3> HIDE DEF InFn
    <3> QED BY <3>1, Counts
  <2>5. Cardinality(Holding) <= concurrency
    BY <2>2, ConcurrencyType DEF IInv, Counting, TokenInHand
  <2> QED BY <2>2, <2>3, <2>4, <2>5, ConcurrencyType DEF BoundedConcurrency
<1> QED BY InitIInv, NextIInv, <1>1, PTL DEF Spec

(* No goroutine outlives the call that started it.                         *)
THEOREM NoGoroutineOutlivesMap == Spec => []NoneOutlivesMap
<1>1. IInv => NoneOutlivesMap BY DEF IInv
<1> QED BY InitIInv, NextIInv, <1>1, PTL DEF Spec

(* A nil error is the truth, unless fn can end its goroutine.              *)
THEOREM NilIsMapped ==
  ASSUME "goexit" \notin Outcomes
  PROVE  Spec => []NilMeansMapped
<1>1. IInv => NilMeansMapped
  <2> SUFFICES ASSUME IInv, ret = "nil", NEW x \in Items PROVE results[x] = "nil"
    BY DEF NilMeansMapped
  <2>1. at = "returned" /\ errs[x] = "nil" /\ worker[x] # "none"
    BY DEF IInv, Outcome
  <2>2. worker[x] = "done"
    BY <2>1 DEF IInv, NoneOutlivesMap, Alive, TypeOK, Places
  <2> QED BY <2>1, <2>2 DEF IInv, Outcome
<1> QED BY InitIInv, NextIInv, <1>1, PTL DEF Spec

(* A worker's failure is what Map returns, cancelled or not.               *)
THEOREM FailuresReported == Spec => []FailureReported
<1>1. IInv => FailureReported BY DEF IInv, Outcome, FailureReported
<1> QED BY InitIInv, NextIInv, <1>1, PTL DEF Spec

-----------------------------------------------------------------------------
(* Termination, as far as it is safety: the guards of the steps that Map   *)
(* and its goroutines take by themselves, and how far each of them is.     *)
LauncherReady ==
  \/ at \in {"check", "add", "go"}
  \/ at = "select" /\ (canceled \/ sem < concurrency)
  \/ at = "wait" /\ wg = 0

WorkerReady(x) ==
  worker[x] \in {"started", "fn", "released"} \/ (worker[x] = "leaving" /\ sem > 0)

(* No goroutine ever blocks, the receive that gives its token back         *)
(* included, and the launcher waits only while one is alive.               *)
NeverStuck ==
  /\ \A x \in Alive : WorkerReady(x)
  /\ at = "returned" \/ LauncherReady \/ Alive # {}

LauncherRank ==
  CASE at = "check" -> 4 * i [] at = "select" -> 4 * i + 1
    [] at = "add" -> 4 * i + 2 [] at = "go" -> 4 * i + 3
    [] at = "wait" -> 4 * N + 8 [] at = "returned" -> 4 * N + 9

WorkerRank(x) ==
  CASE worker[x] = "none" -> 0 [] worker[x] = "started" -> 1 [] worker[x] = "fn" -> 2
    [] worker[x] = "leaving" -> 3 [] worker[x] = "released" -> 4 [] worker[x] = "done" -> 5

Ranked ==
  LauncherRank \in 4 .. 4 * N + 9 /\ \A x \in Items : WorkerRank(x) \in 0 .. 5

(* One of the launcher, the goroutines and the context gets further and    *)
(* none falls back.                                                        *)
Advance ==
  /\ LauncherRank' >= LauncherRank /\ (canceled => canceled')
  /\ \A x \in Items : WorkerRank(x)' >= WorkerRank(x)
  /\ \/ LauncherRank' > LauncherRank \/ canceled' # canceled
     \/ \E x \in Items : WorkerRank(x)' > WorkerRank(x)

(* Until Map has returned somebody can run, for any number of items and    *)
(* any concurrency: no cycle of waiting between the semaphore, the         *)
(* WaitGroup and the launcher (Map).                                       *)
THEOREM MapNeverStuck == Spec => []NeverStuck
<1>1. IInv => NeverStuck
  <2> SUFFICES ASSUME IInv PROVE NeverStuck OBVIOUS
  <2> USE ConcurrencyType DEF IInv
  <2>1. Holding \in SUBSET Items /\ Alive \in SUBSET Items /\ Holding \subseteq Alive
    BY DEF Holding, Alive
  <2>2. Cardinality(Holding) \in Nat /\ Cardinality({}) = 0
        /\ \A x : x \in Holding => Cardinality(Holding) # 0
    <3>1. \A x : x \in Holding =>
            Cardinality(Holding \ {x}) \in Nat /\ Cardinality(Holding \ {x}) = Cardinality(Holding) - 1
      BY <2>1, Counts
    <3> QED BY <2>1, <3>1, Counts, FS_EmptySet
  <2>3. ASSUME NEW x \in Alive PROVE WorkerReady(x)
    <3>1. worker[x] = "leaving" => x \in Holding BY <2>3 DEF Alive, Holding
    <3>2. worker[x] = "leaving" => sem > 0
      BY <2>2, <3>1 DEF Counting, TokenInHand
    <3> QED BY <2>3, <3>2 DEF Alive, WorkerReady
  <2>4. ASSUME at # "returned", ~LauncherReady PROVE Alive # {}
    <3>1. CASE at = "select"
      <4>1. sem >= concurrency /\ sem = Cardinality(Holding)
        BY <2>2, <2>4, <3>1 DEF LauncherReady, Counting, TokenInHand, TypeOK
      <4>2. Holding # {} BY <2>2, <4>1
      <4> QED BY <2>1, <4>2
    <3>2. CASE at = "wait"
      <4>1. wg # 0 /\ wg = Cardinality(Alive)
        BY <2>1, <2>4, <3>2, Counts DEF LauncherReady, Counting, AddInHand
      <4> QED BY <2>2, <4>1
    <3> QED BY <2>4, <3>1, <3>2 DEF LauncherReady, TypeOK
  <2> QED BY <2>3, <2>4 DEF NeverStuck
<1> QED BY InitIInv, NextIInv, <1>1, PTL DEF Spec

(* Every step gets Map closer to its end, and the ranks are bounded: a     *)
(* call takes at most 9N + 6 steps, whatever the context and fn do.        *)
THEOREM MapAdvances == Spec => [][Advance]_vars /\ []Ranked
<1> USE MapAssumption DEF IInv
<1>1. IInv => Ranked
  BY DEF Ranked, TypeOK, InOrder, LauncherRank, WorkerRank, Places
<1>2. IInv' => Ranked' BY <1>1, PTL
<1>3. IInv /\ [Next]_vars => [Advance]_vars
  <2> SUFFICES ASSUME IInv, Next, ~UNCHANGED vars PROVE Advance OBVIOUS
  <2>1. /\ LauncherRank \in Int /\ \A x \in Items : WorkerRank(x) \in Int
        /\ LauncherRank' \in Int /\ \A x \in Items : WorkerRank(x)' \in Int
    BY <1>1, <1>2, NextIInv DEF Ranked
  <2>2. ASSUME UNCHANGED worker, LauncherRank' > LauncherRank, canceled' = canceled
        PROVE  Advance
    <3>1. \A x \in Items : WorkerRank(x)' = WorkerRank(x) BY <2>2 DEF WorkerRank
    <3>2. \A x \in Items : WorkerRank(x)' >= WorkerRank(x) BY <2>1, <3>1
    <3>3. LauncherRank' >= LauncherRank BY <2>1, <2>2
    <3> QED BY <2>2, <3>2, <3>3 DEF Advance
  <2>3. ASSUME NEW x \in Items, NEW p \in Places, WorkerGoto(x, p), UNCHANGED <<at, i, canceled>>,
               WorkerRank(x)' > WorkerRank(x)
        PROVE  Advance
    <3>1. \A y \in Items : y # x => WorkerRank(y)' = WorkerRank(y)
      BY <2>3 DEF WorkerGoto, WorkerRank, TypeOK
    <3>2. LauncherRank' = LauncherRank BY <2>3 DEF LauncherRank
    <3>3. LauncherRank' >= LauncherRank BY <2>1, <3>2
    <3>4. \A y \in Items : WorkerRank(y)' >= WorkerRank(y) BY <2>1, <2>3, <3>1
    <3> QED BY <2>3, <3>3, <3>4 DEF Advance
  <2>4. CASE Cancel
    <3>1. LauncherRank' = LauncherRank /\ \A x \in Items : WorkerRank(x)' = WorkerRank(x)
      BY <2>4 DEF Cancel, LauncherRank, WorkerRank
    <3>2. LauncherRank' >= LauncherRank /\ \A x \in Items : WorkerRank(x)' >= WorkerRank(x)
      BY <2>1, <3>1
    <3> QED BY <2>4, <3>2 DEF Cancel, Advance
  <2>5. CASE LoopCheck \/ SelectDone \/ SelectToken \/ Add \/ Return
    <3>1. LauncherRank' > LauncherRank
      BY <2>5 DEF LoopCheck, SelectDone, SelectToken, Add, Return, LauncherRank, TypeOK
    <3> QED BY <2>2, <2>5, <3>1 DEF LoopCheck, SelectDone, SelectToken, Add, Return
  <2>6. CASE Launch
    <3>1. LauncherRank' > LauncherRank BY <2>6 DEF Launch, LauncherRank, TypeOK
    <3>2. i \in Items /\ worker[i] = "none" BY <2>6 DEF Launch, InOrder, TypeOK, Items
    <3>3. \A x \in Items : x # i => WorkerRank(x)' = WorkerRank(x)
      BY <2>6, <3>2 DEF Launch, WorkerRank, TypeOK
    <3>4. WorkerRank(i) = 0 BY <3>2 DEF WorkerRank
    <3>5. worker'[i] = "started" BY <2>6, <3>2 DEF Launch, TypeOK
    <3>6. \A x \in Items : WorkerRank(x)' >= WorkerRank(x)
      <4> SUFFICES ASSUME NEW x \in Items PROVE WorkerRank(x)' >= WorkerRank(x) OBVIOUS
      <4>1. CASE x = i
        <5>1. WorkerRank(x)' = 1 BY <3>5, <4>1, <2>6 DEF WorkerRank
        <5> QED BY <3>4, <4>1, <5>1
      <4> QED BY <2>1, <3>3, <4>1
    <3>7. LauncherRank' >= LauncherRank BY <2>1, <3>1
    <3> QED BY <2>6, <3>1, <3>6, <3>7 DEF Launch, Advance
  <2>7. ASSUME NEW x \in Items, Worker(x) PROVE Advance
    <3> DEFINE To(p) == WorkerGoto(x, p) /\ UNCHANGED <<at, i, canceled>>
    <3>1. CASE WorkerBegin(x)
      <4>1. (To("fn") \/ To("leaving")) /\ worker[x] = "started" BY <3>1 DEF WorkerBegin
      <4>2. WorkerRank(x)' > WorkerRank(x) BY <4>1 DEF WorkerGoto, WorkerRank, TypeOK
      <4> QED BY <2>3, <4>1, <4>2 DEF Places
    <3>2. CASE (\E o \in Outcomes : WorkerEnd(x, o)) \/ WorkerRelease(x) \/ WorkerDone(x)
      <4>1. \/ To("leaving") /\ worker[x] = "fn"
            \/ To("released") /\ worker[x] = "leaving"
            \/ To("done") /\ worker[x] = "released"
        BY <3>2 DEF WorkerEnd, WorkerRelease, WorkerDone
      <4>2. WorkerRank(x)' > WorkerRank(x) BY <4>1 DEF WorkerGoto, WorkerRank, TypeOK
      <4> QED BY <2>3, <4>1, <4>2 DEF Places
    <3> QED BY <2>7, <3>1, <3>2 DEF Worker
  <2> QED BY <2>4, <2>5, <2>6, <2>7 DEF Next, Launcher, Terminated
<1> QED BY InitIInv, NextIInv, <1>1, <1>3, PTL DEF Spec
=============================================================================
