------------------------- MODULE InMemoryCacheProofs -------------------------
(***************************************************************************)
(* Proofs about InMemoryCache, for any keys, values, clients, durations    *)
(* and time bound: its invariants, and that it implements ExpiringMap.     *)
(***************************************************************************)
EXTENDS InMemoryCache, TLAPS

(* A client is at a place of the method it called; a Set waiting for the   *)
(* lock holds an item whose deadline lies ttl after some moment since it   *)
(* was called, a Get past its read holds an item; the sweeper's clock is   *)
(* not ahead.                                                              *)
LocalsOK ==
  /\ \A p \in Procs :
       /\ loc[p] = "idle" <=> call[p] = NoCall
       /\ loc[p] = "set" =>
            /\ call[p].op = "set"
            /\ held[p] # NoItem /\ held[p].val = call[p].val
            /\ held[p].exp \in IF call[p].ttl = 0 THEN {Never}
                               ELSE (call[p].at + call[p].ttl) .. (now + call[p].ttl)
       /\ loc[p] \in {"got", "expired"} =>
            call[p].op = "get" /\ held[p] # NoItem
       /\ loc[p] = "waiting" => call[p].op = "close"
       /\ loc[p] # "idle" /\ call[p].op = "set" => call[p].at <= now
  /\ StartTime <= sweeper.now /\ sweeper.now <= now

(* The history of a running Get includes what its key shows right now.     *)
SeenOK ==
  \A p \in Procs : loc[p] # "idle" /\ call[p].op = "get" =>
    Shown(items[call[p].key], now) \in seen[p]

(* While a Get holds an unexpired copy, its value is in the history.       *)
CopyWasLive ==
  \A p \in Procs :
    loc[p] = "got" /\ ~Expired(held[p], now) => held[p].val \in seen[p]

(* The inductive invariant.                                                *)
IInv == TypeOK /\ LocalsOK /\ PickedAreExpired

LEMMA InitIInv == Init => IInv /\ SeenOK /\ CopyWasLive
<1> SUFFICES ASSUME Init PROVE IInv /\ SeenOK /\ CopyWasLive OBVIOUS
<1> USE CacheAssumption DEF Init, IdleSweeper
<1>1. TypeOK BY DEF TypeOK, CallsAt
<1>2. LocalsOK BY DEF LocalsOK
<1>3. PickedAreExpired BY DEF PickedAreExpired
<1>4. SeenOK /\ CopyWasLive BY DEF SeenOK, CopyWasLive
<1> QED BY <1>1, <1>2, <1>3, <1>4 DEF IInv

(* What is known of a client's request, by its kind.                       *)
LEMMA CallFacts ==
  ASSUME TypeOK, LocalsOK, NEW p \in Procs, loc[p] # "idle"
  PROVE  /\ call[p] \in CallsAt(Nat)
         /\ call[p] # NoCall
         /\ call[p].op \in {"set", "get", "delete", "close"}
         /\ call[p].op \in {"set", "get", "delete"} => call[p].key \in Keys
         /\ call[p].op = "set" =>
              /\ call[p].val \in Values /\ call[p].ttl \in TTLs
              /\ call[p].at \in Nat /\ call[p].at <= now
<1>1. call[p] # NoCall BY DEF LocalsOK
<1>2. call[p] \in CallsAt(Nat) BY <1>1 DEF TypeOK
<1> QED BY <1>1, <1>2 DEF CallsAt, LocalsOK

(* The history stays within its type.                                      *)
LEMMA WatchType ==
  ASSUME Watch, TypeOK, now' \in Nat,
         items' \in [Keys -> Items \cup {NoItem}],
         call' \in [Procs -> CallsAt(Nat) \cup {NoCall}]
  PROVE  seen' \in [Procs -> SUBSET (Values \cup {NoItem})]
<1> SUFFICES ASSUME NEW p \in Procs, call'[p] # NoCall, call'[p].op = "get"
             PROVE  Shown(items'[call'[p].key], now') \in Values \cup {NoItem}
  BY DEF Watch, TypeOK
<1>1. call'[p].key \in Keys
  <2>1. call'[p] \in CallsAt(Nat) OBVIOUS
  <2> QED BY <2>1 DEF CallsAt
<1> QED BY <1>1 DEF Shown, Live, Items

LEMMA NextIInv == IInv /\ [Next]_vars => IInv'
<1> SUFFICES ASSUME IInv, [Next]_vars PROVE IInv' OBVIOUS
<1> USE CacheAssumption DEF IInv
<1>1. ASSUME NEW p \in Procs, NEW r \in CallsAt({now}), Invoke(p, r) PROVE IInv'
  <2>1. r \in CallsAt(Nat) /\ r # NoCall /\ (r.op = "set" => r.at = now)
    BY DEF CallsAt, TypeOK
  <2>2. call' \in [Procs -> CallsAt(Nat) \cup {NoCall}]
    BY <1>1, <2>1 DEF Invoke, TypeOK
  <2>3. TypeOK' BY <1>1, <2>2, WatchType DEF Invoke, Goto, TypeOK
  <2>4. LocalsOK' BY <1>1, <2>1 DEF Invoke, Goto, LocalsOK, TypeOK
  <2>5. PickedAreExpired' BY <1>1 DEF Invoke, Goto, PickedAreExpired, TypeOK
  <2> QED BY <2>3, <2>4, <2>5
<1>f. ASSUME NEW p \in Procs, Finish(p), UNCHANGED <<now, sweeper, stopped>>,
             items' \in [Keys -> Items \cup {NoItem}],
             Watch \/ UNCHANGED seen
      PROVE  IInv'
  <2>1. call' \in [Procs -> CallsAt(Nat) \cup {NoCall}]
    BY <1>f DEF Finish, TypeOK
  <2>2. TypeOK' BY <1>f, <2>1, WatchType DEF Finish, Goto, TypeOK
  <2>3. LocalsOK' BY <1>f DEF Finish, Goto, LocalsOK, TypeOK
  <2>4. PickedAreExpired' BY <1>f DEF Finish, Goto, PickedAreExpired, TypeOK
  <2> QED BY <2>2, <2>3, <2>4
<1>2. ASSUME NEW p \in Procs, ContextDone(p) PROVE IInv'
  BY <1>2, <1>f DEF ContextDone, TypeOK
<1>3. ASSUME NEW p \in Procs, SetPrepare(p) PROVE IInv'
  <2> DEFINE h == [val |-> call[p].val,
                   exp |-> IF call[p].ttl # 0 THEN now + call[p].ttl ELSE Never]
  <2>1. /\ call[p].val \in Values /\ call[p].ttl \in Int
        /\ call[p].at \in Nat /\ call[p].at <= now /\ now \in Nat
    BY <1>3, CallFacts DEF SetPrepare, TypeOK
  <2>2. h \in Items /\ h # NoItem BY <2>1 DEF Items, Never
  <2>3. /\ held' = [held EXCEPT ![p] = h]
        /\ loc' = [loc EXCEPT ![p] = "set"]
        /\ UNCHANGED <<items, now, call, sweeper, stopped, seen>>
        /\ call[p].op = "set" /\ loc[p] = "called"
    BY <1>3 DEF SetPrepare, Goto
  <2>4. TypeOK' BY <2>2, <2>3 DEF TypeOK
  <2>5. h.val = call[p].val
        /\ h.exp \in IF call[p].ttl = 0 THEN {Never}
                     ELSE (call[p].at + call[p].ttl) .. (now + call[p].ttl)
    BY <2>1
  <2> HIDE DEF h
  <2>6. LocalsOK' BY <2>2, <2>3, <2>5 DEF LocalsOK, TypeOK
  <2>7. PickedAreExpired' BY <2>3 DEF PickedAreExpired, TypeOK
  <2> QED BY <2>4, <2>6, <2>7
<1>4. ASSUME NEW p \in Procs, SetWrite(p) PROVE IInv'
  <2>1. call[p].key \in Keys /\ held[p] \in Items
    BY <1>4, CallFacts DEF SetWrite, LocalsOK, TypeOK
  <2>2. items' \in [Keys -> Items \cup {NoItem}]
    BY <1>4, <2>1 DEF SetWrite, TypeOK
  <2> QED BY <1>4, <1>f, <2>2 DEF SetWrite
<1>5. ASSUME NEW p \in Procs, GetRead(p) PROVE IInv'
  <2>0. call[p].key \in Keys /\ UNCHANGED <<items, now, sweeper, stopped>> /\ Watch
    BY <1>5, CallFacts DEF GetRead
  <2>1. CASE items[call[p].key] = NoItem
    BY <1>5, <1>f, <2>0, <2>1 DEF GetRead, TypeOK
  <2>2. CASE items[call[p].key] # NoItem
    <3>1. /\ held' = [held EXCEPT ![p] = items[call[p].key]]
          /\ loc' = [loc EXCEPT ![p] = "got"] /\ call' = call
          /\ call[p].op = "get" /\ loc[p] = "called"
      BY <1>5, <2>2 DEF GetRead, Goto
    <3>2. TypeOK' BY <2>0, <3>1, WatchType DEF TypeOK
    <3>3. LocalsOK' BY <2>0, <2>2, <3>1 DEF LocalsOK, TypeOK
    <3>4. PickedAreExpired' BY <2>0, <3>1 DEF PickedAreExpired, TypeOK
    <3> QED BY <3>2, <3>3, <3>4
  <2> QED BY <2>1, <2>2
<1>6. ASSUME NEW p \in Procs, GetCheck(p) PROVE IInv'
  <2>0. UNCHANGED <<items, now, sweeper, stopped>> /\ Watch
    BY <1>6 DEF GetCheck
  <2>1. CASE ~Expired(held[p], now)
    BY <1>6, <1>f, <2>0, <2>1 DEF GetCheck, TypeOK
  <2>2. CASE Expired(held[p], now)
    <3>1. /\ loc' = [loc EXCEPT ![p] = "expired"] /\ UNCHANGED <<call, held>>
          /\ loc[p] = "got"
      BY <1>6, <2>2 DEF GetCheck, Goto
    <3>2. TypeOK' BY <2>0, <3>1, WatchType DEF TypeOK
    <3>3. LocalsOK' BY <2>0, <3>1 DEF LocalsOK, TypeOK
    <3>4. PickedAreExpired'
      BY <2>0, <2>2, <3>1 DEF PickedAreExpired, LocalsOK, TypeOK
    <3> QED BY <3>2, <3>3, <3>4
  <2> QED BY <2>1, <2>2
<1>7. ASSUME NEW p \in Procs, GetPurge(p) PROVE IInv'
  <2>1. items' \in [Keys -> Items \cup {NoItem}]
    BY <1>7 DEF GetPurge, TypeOK
  <2> QED BY <1>7, <1>f, <2>1 DEF GetPurge
<1>8. ASSUME NEW p \in Procs, Delete(p) PROVE IInv'
  <2>1. items' \in [Keys -> Items \cup {NoItem}]
    BY <1>8 DEF Delete, TypeOK
  <2> QED BY <1>8, <1>f, <2>1 DEF Delete
<1>9. ASSUME NEW p \in Procs, CloseSignal(p) PROVE IInv'
  <2>1. TypeOK' BY <1>9 DEF CloseSignal, Goto, TypeOK
  <2>2. LocalsOK' BY <1>9 DEF CloseSignal, Goto, LocalsOK, TypeOK
  <2>3. PickedAreExpired' BY <1>9 DEF CloseSignal, Goto, PickedAreExpired, TypeOK
  <2> QED BY <2>1, <2>2, <2>3
<1>10. ASSUME NEW p \in Procs, CloseReturn(p) PROVE IInv'
  BY <1>10, <1>f DEF CloseReturn, TypeOK
<1>11. CASE SweepStart
  <2>1. TypeOK' BY <1>11 DEF SweepStart, TypeOK
  <2>2. LocalsOK' BY <1>11 DEF SweepStart, LocalsOK, TypeOK
  <2>3. PickedAreExpired' BY <1>11 DEF SweepStart, PickedAreExpired, TypeOK
  <2> QED BY <2>1, <2>2, <2>3
<1>12. CASE SweepScan
  <2>1. /\ ExpiredKeys(sweeper.now) \in SUBSET (Keys \X Int)
        /\ \A x \in ExpiredKeys(sweeper.now) : x[2] # Never /\ now > x[2]
    BY DEF ExpiredKeys, Expired, TypeOK, LocalsOK, Items
  <2>2. /\ sweeper'.expiredKeys \in {{}, ExpiredKeys(sweeper.now)}
        /\ sweeper' \in [at : {"select", "scan", "purge", "exited"}, now : Nat,
                         expiredKeys : SUBSET (Keys \X Int)]
        /\ StartTime <= sweeper'.now /\ sweeper'.now <= now
        /\ UNCHANGED <<items, now, call, loc, held, stopped, seen>>
    <3> DEFINE x == ExpiredKeys(sweeper.now)
    <3>1. StartTime <= now BY DEF LocalsOK, TypeOK
    <3>2. \/ sweeper' = IdleSweeper
          \/ sweeper' = [sweeper EXCEPT !.at = "purge", !.expiredKeys = x]
      BY <1>12 DEF SweepScan
    <3>3. UNCHANGED <<items, now, call, loc, held, stopped, seen>>
      BY <1>12 DEF SweepScan
    <3> HIDE DEF x
    <3>4. x \in SUBSET (Keys \X Int) BY <2>1 DEF x
    <3>5. CASE sweeper' = IdleSweeper BY <3>1, <3>3, <3>5 DEF IdleSweeper
    <3>6. CASE sweeper' = [sweeper EXCEPT !.at = "purge", !.expiredKeys = x]
      <4>1. sweeper'.expiredKeys = x /\ sweeper'.now = sweeper.now
        BY <3>6 DEF TypeOK
      <4> QED BY <3>3, <3>4, <3>6, <4>1 DEF TypeOK, LocalsOK, x
    <3> QED BY <3>2, <3>5, <3>6
  <2>3. TypeOK' BY <2>2 DEF TypeOK
  <2>4. LocalsOK' BY <2>2 DEF LocalsOK, TypeOK
  <2>5. PickedAreExpired' BY <2>1, <2>2 DEF PickedAreExpired, TypeOK
  <2> QED BY <2>3, <2>4, <2>5
<1>13. CASE SweepPurge
  <2>1. items' \in [Keys -> Items \cup {NoItem}]
    BY <1>13 DEF SweepPurge, TypeOK
  <2>2. TypeOK' BY <1>13, <2>1, WatchType DEF SweepPurge, IdleSweeper, TypeOK
  <2>3. StartTime <= now BY DEF LocalsOK, TypeOK
  <2>4. LocalsOK' BY <1>13, <2>3 DEF SweepPurge, IdleSweeper, LocalsOK, TypeOK
  <2>5. PickedAreExpired'
    BY <1>13 DEF SweepPurge, IdleSweeper, PickedAreExpired, TypeOK
  <2> QED BY <2>2, <2>4, <2>5
<1>14. CASE SweepStop
  <2>1. TypeOK' BY <1>14 DEF SweepStop, TypeOK
  <2>2. LocalsOK' BY <1>14 DEF SweepStop, LocalsOK, TypeOK
  <2>3. PickedAreExpired' BY <1>14 DEF SweepStop, PickedAreExpired, TypeOK
  <2> QED BY <2>1, <2>2, <2>3
<1>15. CASE Tick
  <2>1. now' = now + 1 /\ now \in Nat
    BY <1>15 DEF Tick, TypeOK
  <2>2. TypeOK' BY <1>15, <2>1, WatchType DEF Tick, TypeOK
  <2>3. LocalsOK'
    <3>1. \A p \in Procs : loc[p] = "set" \/ (loc[p] # "idle" /\ call[p].op = "set") =>
            call[p].ttl \in Int /\ call[p].at \in Nat
      BY CallFacts DEF LocalsOK
    <3>2. sweeper.now \in Nat BY DEF TypeOK
    <3>3. \A p \in Procs : held[p] # NoItem => held[p].exp \in Int
      BY DEF TypeOK, Items
    <3> QED BY <1>15, <2>1, <3>1, <3>2, <3>3 DEF Tick, LocalsOK
  <2>4. PickedAreExpired'
    BY <1>15, <2>1 DEF Tick, PickedAreExpired, Expired, TypeOK, Items
  <2> QED BY <2>2, <2>3, <2>4
<1>16. CASE UNCHANGED vars
  BY <1>16 DEF vars, TypeOK, LocalsOK, PickedAreExpired
<1> QED
  BY <1>1, <1>2, <1>3, <1>4, <1>5, <1>6, <1>7, <1>8, <1>9, <1>10, <1>11,
     <1>12, <1>13, <1>14, <1>15, <1>16
  DEF Next, ClientStep, Sweep

(* The history variable and the copy a Get works on.  The copy is as old   *)
(* as the read; if it has not expired yet it had not expired then.         *)
LEMMA NextHit == IInv /\ SeenOK /\ CopyWasLive /\ [Next]_vars => SeenOK' /\ CopyWasLive'
<1> SUFFICES ASSUME IInv, SeenOK, CopyWasLive, [Next]_vars
             PROVE  SeenOK' /\ CopyWasLive'
  OBVIOUS
<1> USE CacheAssumption DEF IInv
<1>i. IInv' BY NextIInv
<1>1. ASSUME Watch PROVE SeenOK'
  <2> SUFFICES ASSUME NEW p \in Procs, loc'[p] # "idle", call'[p].op = "get"
               PROVE  Shown(items'[call'[p].key], now') \in seen'[p]
    BY DEF SeenOK
  <2>1. call'[p] # NoCall BY <1>i DEF LocalsOK
  <2> QED BY <1>1, <2>1 DEF Watch
(* A Get that keeps its copy.                                              *)
<1>2. ASSUME NEW p \in Procs, loc[p] = "got", loc'[p] = "got",
             held'[p] = held[p], call'[p] = call[p],
             now' \in {now, now + 1}, Watch \/ seen' = seen,
             ~Expired(held'[p], now')
      PROVE  held'[p].val \in seen'[p]
  <2>1. held[p] \in Items /\ now \in Nat BY <1>2 DEF LocalsOK, TypeOK
  <2>2. ~Expired(held[p], now) BY <1>2, <2>1 DEF Expired, Items
  <2>3. held[p].val \in seen[p] BY <1>2, <2>2 DEF CopyWasLive
  <2>4. call'[p] # NoCall /\ call'[p].op = "get" BY <1>2, <1>i DEF LocalsOK
  <2> QED BY <1>2, <2>3, <2>4 DEF Watch
(* Nothing that a Get sees changes.                                        *)
<1>3. ASSUME UNCHANGED <<items, now, call, seen>>,
             \A p \in Procs : loc'[p] = "idle" <=> loc[p] = "idle"
      PROVE  SeenOK'
  BY <1>3 DEF SeenOK
<1>4. ASSUME NEW p \in Procs, NEW r \in CallsAt({now}), Invoke(p, r)
      PROVE  SeenOK' /\ CopyWasLive'
  <2>1. SeenOK' BY <1>1, <1>4 DEF Invoke
  <2>2. \A q \in Procs : loc'[q] = "got" =>
          loc[q] = "got" /\ held'[q] = held[q] /\ call'[q] = call[q]
    BY <1>4 DEF Invoke, Goto, TypeOK
  <2>3. now' = now /\ Watch BY <1>4 DEF Invoke
  <2> QED BY <1>2, <2>1, <2>2, <2>3 DEF CopyWasLive
<1>f. ASSUME NEW p \in Procs, Finish(p), now' = now, Watch
      PROVE  SeenOK' /\ CopyWasLive'
  <2>1. \A q \in Procs : loc'[q] = "got" =>
          loc[q] = "got" /\ held'[q] = held[q] /\ call'[q] = call[q]
    BY <1>f DEF Finish, Goto, TypeOK
  <2> QED BY <1>1, <1>2, <1>f, <2>1 DEF CopyWasLive
<1>5. ASSUME NEW p \in Procs,
             ContextDone(p) \/ SetWrite(p) \/ GetPurge(p) \/ Delete(p)
      PROVE  SeenOK' /\ CopyWasLive'
  BY <1>5, <1>f DEF ContextDone, SetWrite, GetPurge, Delete
<1>6. ASSUME NEW p \in Procs, SetPrepare(p) PROVE SeenOK' /\ CopyWasLive'
  <2>1. SeenOK'
    BY <1>6 DEF SetPrepare, Goto, SeenOK, TypeOK
  <2>2. \A q \in Procs : loc'[q] = "got" =>
          loc[q] = "got" /\ held'[q] = held[q] /\ call'[q] = call[q]
    BY <1>6 DEF SetPrepare, Goto, TypeOK
  <2>3. now' = now /\ seen' = seen BY <1>6 DEF SetPrepare
  <2> QED BY <1>2, <2>1, <2>2, <2>3 DEF CopyWasLive
<1>7. ASSUME NEW p \in Procs, GetRead(p) PROVE SeenOK' /\ CopyWasLive'
  <2>0. UNCHANGED <<items, now>> /\ Watch BY <1>7 DEF GetRead
  <2>1. CASE items[call[p].key] = NoItem
    BY <1>7, <1>f, <2>0, <2>1 DEF GetRead
  <2>2. CASE items[call[p].key] # NoItem
    <3>1. /\ held' = [held EXCEPT ![p] = items[call[p].key]]
          /\ loc' = [loc EXCEPT ![p] = "got"] /\ call' = call
          /\ call[p].op = "get" /\ loc[p] = "called"
      BY <1>7, <2>2 DEF GetRead, Goto
    <3>2. ASSUME ~Expired(held'[p], now') PROVE held'[p].val \in seen'[p]
      <4>1. held'[p] = items'[call'[p].key] /\ held'[p] # NoItem
        BY <2>0, <2>2, <3>1 DEF TypeOK
      <4>2. Shown(items'[call'[p].key], now') = held'[p].val
        BY <3>2, <4>1 DEF Shown, Live
      <4>3. Shown(items'[call'[p].key], now') \in seen'[p]
        BY <1>1, <2>0, <3>1 DEF SeenOK, TypeOK
      <4> QED BY <4>2, <4>3
    <3>3. \A q \in Procs \ {p} : loc'[q] = "got" =>
            loc[q] = "got" /\ held'[q] = held[q] /\ call'[q] = call[q]
      BY <3>1 DEF TypeOK
    <3> QED BY <1>1, <1>2, <2>0, <3>2, <3>3 DEF CopyWasLive
  <2> QED BY <2>1, <2>2
<1>8. ASSUME NEW p \in Procs, GetCheck(p) PROVE SeenOK' /\ CopyWasLive'
  <2>0. now' = now /\ Watch BY <1>8 DEF GetCheck
  <2>1. CASE ~Expired(held[p], now) BY <1>8, <1>f, <2>0, <2>1 DEF GetCheck
  <2>2. CASE Expired(held[p], now)
    <3>1. \A q \in Procs : loc'[q] = "got" =>
            loc[q] = "got" /\ held'[q] = held[q] /\ call'[q] = call[q]
      BY <1>8, <2>2 DEF GetCheck, Goto, TypeOK
    <3> QED BY <1>1, <1>2, <2>0, <3>1 DEF CopyWasLive
  <2> QED BY <2>1, <2>2
<1>9. ASSUME NEW p \in Procs, CloseSignal(p) \/ CloseReturn(p)
      PROVE  SeenOK' /\ CopyWasLive'
  <2>1. SeenOK'
    BY <1>9 DEF CloseSignal, CloseReturn, Finish, Goto, SeenOK, TypeOK
  <2>2. \A q \in Procs : loc'[q] = "got" =>
          loc[q] = "got" /\ held'[q] = held[q] /\ call'[q] = call[q]
    BY <1>9 DEF CloseSignal, CloseReturn, Finish, Goto, TypeOK
  <2>3. now' = now /\ seen' = seen BY <1>9 DEF CloseSignal, CloseReturn
  <2> QED BY <1>2, <2>1, <2>2, <2>3 DEF CopyWasLive
<1>10. CASE SweepStart \/ SweepScan \/ SweepStop \/ UNCHANGED vars
  BY <1>10, <1>2, <1>3
  DEF SweepStart, SweepScan, SweepStop, vars, CopyWasLive
<1>11. CASE SweepPurge \/ Tick
  BY <1>11, <1>1, <1>2 DEF SweepPurge, Tick, CopyWasLive
<1> QED BY <1>4, <1>5, <1>6, <1>7, <1>8, <1>9, <1>10, <1>11
        DEF Next, ClientStep, Sweep

(* The state of the cache is well-formed in every behaviour.               *)
THEOREM TypeCorrect == Spec => []TypeOK
<1>1. IInv => TypeOK BY DEF IInv
<1> QED BY InitIInv, NextIInv, <1>1, PTL DEF Spec

(* Whatever was picked for deletion outside the write lock has expired.    *)
THEOREM PickedExpired == Spec => []PickedAreExpired
<1>1. IInv => PickedAreExpired BY DEF IInv
<1> QED BY InitIInv, NextIInv, <1>1, PTL DEF Spec

(* A hit was live at some moment of the Get, for any number of clients.    *)
THEOREM HitsWereLive == Spec => HitWasLive
<1> DEFINE A == \A p \in Procs :
                  loc[p] = "got" /\ loc'[p] = "idle" => held[p].val \in seen[p]
<1>1. IInv /\ CopyWasLive /\ [Next]_vars => [A]_vars
  <2> SUFFICES ASSUME IInv, CopyWasLive, [Next]_vars, NEW p \in Procs,
                      loc[p] = "got", loc'[p] = "idle"
               PROVE  held[p].val \in seen[p]
    OBVIOUS
  <2>1. PICK q \in Procs : ClientStep(q)
    BY DEF Next, Invoke, Goto, Sweep, SweepStart, SweepScan, SweepPurge, SweepStop,
           Tick, vars, IInv, TypeOK
  <2>2. q = p
    BY <2>1 DEF ClientStep, ContextDone, SetPrepare, SetWrite, GetRead, GetCheck,
                GetPurge, Delete, CloseSignal, CloseReturn, Finish, Goto, IInv, TypeOK
  <2>3. GetCheck(p)
    BY <2>1, <2>2 DEF ClientStep, ContextDone, SetPrepare, SetWrite, GetRead,
                      GetPurge, Delete, CloseSignal, CloseReturn
  <2>4. ~Expired(held[p], now)
    BY <2>3 DEF GetCheck, Goto, IInv, TypeOK
  <2> QED BY <2>4 DEF CopyWasLive
<1> QED BY InitIInv, NextIInv, NextHit, <1>1, PTL DEF Spec, HitWasLive

(* Each step of the cache is a step of the map or leaves what a client can *)
(* see unchanged.                                                          *)
LEMMA StepImplementsMap == IInv /\ [Next]_vars => [Map!Next]_(Map!vars)
<1> SUFFICES ASSUME IInv, [Next]_vars PROVE [Map!Next]_(Map!vars) OBVIOUS
<1> USE CacheAssumption DEF IInv
<1> DEFINE view == [k \in Keys |-> Live(items[k], now)]
<1>l. \A i, t : Map!Live(i, t) = Live(i, t)
  BY DEF Map!Live, Live, Expired, Map!Never, Never
<1>1. ASSUME NEW p \in Procs, NEW r \in CallsAt({now}), Invoke(p, r)
      PROVE  Map!Invoke(p, r)
  BY <1>1 DEF Invoke, Map!Invoke, LocalsOK
<1>2. ASSUME NEW p \in Procs, Finish(p), loc[p] # "idle", UNCHANGED <<items, now>>
      PROVE  Map!Return(p)
  BY <1>2 DEF Finish, Map!Return, LocalsOK
<1>3. ASSUME UNCHANGED <<view, now, call>> PROVE UNCHANGED Map!vars
  BY <1>3 DEF Map!vars
<1>4. ASSUME NEW p \in Procs, SetWrite(p) PROVE Map!Set(p)
  <2>1. /\ call[p] # NoCall /\ call[p].op = "set" /\ call[p].key \in Keys
        /\ held[p] \in Items /\ held[p].val = call[p].val
    BY <1>4, CallFacts DEF SetWrite, LocalsOK, TypeOK
  <2>2. held[p] = [val |-> call[p].val, exp |-> held[p].exp]
    BY <2>1 DEF Items
  <2>3. held[p].exp \in Map!Deadlines(call[p])
    BY <1>4 DEF SetWrite, LocalsOK, Map!Deadlines, Map!Never, Never
  <2>4. view' = [view EXCEPT ![call[p].key] =
                   Map!Live([val |-> call[p].val, exp |-> held[p].exp], now)]
    BY <1>4, <1>l, <2>1, <2>2 DEF SetWrite, TypeOK
  <2>5. call' = [call EXCEPT ![p] = NoCall] /\ now' = now
    BY <1>4 DEF SetWrite, Finish
  <2> HIDE DEF view
  <2>6. \E d \in Map!Deadlines(call[p]) :
          view' = [view EXCEPT ![call[p].key] =
                    Map!Live([val |-> call[p].val, exp |-> d], now)]
    BY <2>3, <2>4
  <2> QED BY <2>1, <2>5, <2>6 DEF Map!Set, view
<1>5. ASSUME NEW p \in Procs, Delete(p) PROVE Map!Delete(p)
  <2>1. call[p] # NoCall /\ call[p].op = "delete" /\ call[p].key \in Keys
    BY <1>5, CallFacts DEF Delete
  <2>2. view' = [view EXCEPT ![call[p].key] = NoItem]
    BY <1>5, <2>1 DEF Delete, Live, TypeOK
  <2> QED BY <1>5, <2>1, <2>2 DEF Delete, Finish, Map!Delete
<1>6. ASSUME NEW p \in Procs, GetRead(p)
      PROVE  Map!Return(p) \/ UNCHANGED Map!vars
  BY <1>2, <1>3, <1>6 DEF GetRead
<1>7. ASSUME NEW p \in Procs, GetCheck(p)
      PROVE  Map!Return(p) \/ UNCHANGED Map!vars
  BY <1>2, <1>3, <1>7 DEF GetCheck
<1>8. ASSUME NEW p \in Procs, GetPurge(p) PROVE Map!Return(p)
  <2>1. call[p].key \in Keys /\ held[p] # NoItem /\ Expired(held[p], now)
    BY <1>8, CallFacts DEF GetPurge, PickedAreExpired, LocalsOK
  <2>2. \A k \in Keys : Live(items'[k], now) = Live(items[k], now)
    BY <1>8, <2>1 DEF GetPurge, Live, Expired, TypeOK
  <2>3. view' = view /\ now' = now BY <1>8, <2>2 DEF GetPurge
  <2>4. call[p] # NoCall /\ call' = [call EXCEPT ![p] = NoCall]
    BY <1>8 DEF GetPurge, Finish, LocalsOK
  <2> QED BY <2>3, <2>4 DEF Map!Return
<1>9. CASE SweepPurge
  <2>1. \A k \in Keys : Live(items'[k], now) = Live(items[k], now)
    BY <1>9 DEF SweepPurge, PickedAreExpired, Live, Expired, TypeOK
  <2>2. UNCHANGED <<view, now, call>> BY <1>9, <2>1 DEF SweepPurge
  <2> QED BY <1>3, <2>2
<1>10. CASE Tick
  <2>1. now' = now + 1 /\ items' = items /\ call' = call /\ now \in Nat
    BY <1>10 DEF Tick, TypeOK
  <2>2. \A k \in Keys : Live(items[k], now') = Map!Live(Live(items[k], now), now')
    BY <1>l, <2>1 DEF Live, Expired, TypeOK, Items
  <2>3. view' = [k \in Keys |-> Map!Live(view[k], now')]
    BY <2>1, <2>2
  <2> QED BY <2>1, <2>3 DEF Map!Next, Map!Tick
<1>11. ASSUME NEW p \in Procs, ContextDone(p) \/ CloseReturn(p) PROVE Map!Return(p)
  BY <1>2, <1>11 DEF ContextDone, CloseReturn
<1>12. ASSUME NEW p \in Procs, SetPrepare(p) \/ CloseSignal(p)
       PROVE  UNCHANGED Map!vars
  BY <1>3, <1>12 DEF SetPrepare, CloseSignal
<1>13. CASE SweepStart \/ SweepScan \/ SweepStop \/ UNCHANGED vars
  BY <1>3, <1>13 DEF SweepStart, SweepScan, SweepStop, vars
<1>14. CallsAt({now}) = Map!Requests BY DEF CallsAt, Map!Requests
<1> QED
  BY <1>1, <1>4, <1>5, <1>6, <1>7, <1>8, <1>9, <1>10, <1>11, <1>12, <1>13, <1>14
  DEF Next, ClientStep, Sweep, Map!Next

(* The cache implements the expiring map: evictions are invisible, and no  *)
(* entry outlives or falls short of its duration by more than its Set took.*)
THEOREM ImplementsMap == Spec => MapSpec
<1>1. Init => Map!Init
  BY DEF Init, Map!Init, Live
<1> QED BY <1>1, InitIInv, NextIInv, StepImplementsMap, PTL
        DEF Spec, MapSpec, Map!Spec

-----------------------------------------------------------------------------
(* When Get gives up although its key was never seen absent or expired,    *)
(* the map holds a live item under that key, not the one Get has read.     *)
FalseMissOverwritten ==
  \A p \in Procs : loc[p] = "expired" /\ NoItem \notin seen[p] =>
    LET item == items[call[p].key] IN
    item # NoItem /\ ~Expired(item, now) /\ item # held[p]

(* How far MissMeansAbsent can fail: only for a key that another client's  *)
(* Set has replaced by a live item during the call (Get).                  *)
THEOREM MissesExplained == Spec => []FalseMissOverwritten
<1>1. IInv /\ SeenOK => FalseMissOverwritten
  <2> SUFFICES ASSUME IInv, SeenOK, NEW p \in Procs, loc[p] = "expired", NoItem \notin seen[p]
               PROVE  /\ items[call[p].key] # NoItem /\ ~Expired(items[call[p].key], now)
                      /\ items[call[p].key] # held[p]
    BY DEF FalseMissOverwritten
  <2>1. call[p].op = "get" /\ Expired(held[p], now)
    BY DEF IInv, LocalsOK, PickedAreExpired
  <2>2. Shown(items[call[p].key], now) # NoItem BY <2>1 DEF SeenOK
  <2>3. Live(items[call[p].key], now) # NoItem BY <2>2 DEF Shown
  <2> QED BY <2>1, <2>3 DEF Live
<1> QED BY InitIInv, NextIInv, NextHit, <1>1, PTL DEF Spec

(* Whoever waits in Close has closed stopCh, and a sweeper that was started*)
(* ends for no other reason.                                               *)
CloseHeard ==
  /\ \A p \in Procs : loc[p] = "waiting" => stopped
  /\ Cleanup /\ ~stopped => sweeper.at # "exited"

CloseIsFinal == (stopped => stopped') /\ (sweeper.at = "exited" => sweeper'.at = "exited")

(* The safety half of CloseReturns and ExpiredEvicted: neither the closed  *)
(* channel nor the end of the sweeper is ever undone, so nobody waits in   *)
(* Close for a signal that was not given, and until Close items are swept  *)
(* (Close, cleanupLoop).                                                   *)
THEOREM ClosesHeard == Spec => []CloseHeard /\ [][CloseIsFinal]_vars
<1>1. Init => CloseHeard BY DEF Init, CloseHeard, IdleSweeper
<1>2. IInv /\ CloseHeard /\ [Next]_vars => CloseHeard' /\ [CloseIsFinal]_vars
  <2> SUFFICES ASSUME IInv, CloseHeard, Next PROVE CloseHeard' /\ CloseIsFinal
    BY DEF vars, CloseHeard
  <2> USE DEF IInv, TypeOK, CloseHeard, CloseIsFinal
  <2>1. ASSUME NEW p \in Procs, NEW r \in CallsAt({now}), Invoke(p, r)
        PROVE  CloseHeard' /\ CloseIsFinal
    BY <2>1 DEF Invoke, Goto
  <2>2. ASSUME NEW p \in Procs, ClientStep(p) PROVE CloseHeard' /\ CloseIsFinal
    <3>1. CASE CloseSignal(p)
      BY <3>1 DEF CloseSignal, Goto
    <3>2. CASE ~CloseSignal(p)
      <4>1. UNCHANGED <<sweeper, stopped>> /\ \E l : l # "waiting" /\ Goto(p, l)
        BY <2>2, <3>2 DEF ClientStep, ContextDone, SetPrepare, SetWrite, GetRead, GetCheck,
                          GetPurge, Delete, CloseReturn, Finish
      <4> QED BY <4>1 DEF Goto
    <3> QED BY <3>1, <3>2
  <2>3. CASE Sweep \/ SweepStop \/ Tick
    <3>1. loc' = loc /\ stopped' = stopped
      BY <2>3 DEF Sweep, SweepStart, SweepScan, SweepPurge, SweepStop, Tick
    <3>2. CASE SweepStop BY <3>1, <3>2 DEF SweepStop
    <3>3. CASE Tick BY <3>1, <3>3 DEF Tick
    <3>4. CASE Sweep
      <4>1. sweeper.at # "exited" /\ sweeper'.at # "exited"
        <5>1. IdleSweeper.at # "exited" BY DEF IdleSweeper
        <5>2. CASE SweepStart BY <5>2 DEF SweepStart
        <5>3. CASE SweepScan BY <5>1, <5>3 DEF SweepScan
        <5>4. CASE SweepPurge BY <5>1, <5>4 DEF SweepPurge
        <5> QED BY <3>4, <5>2, <5>3, <5>4 DEF Sweep
      <4> QED BY <3>1, <4>1
    <3> QED BY <2>3, <3>2, <3>3, <3>4
  <2> QED BY <2>1, <2>2, <2>3 DEF Next
<1> QED BY <1>1, <1>2, InitIInv, NextIInv, PTL DEF Spec
=============================================================================
