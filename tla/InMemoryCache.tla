---------------------------- MODULE InMemoryCache ----------------------------
(***************************************************************************)
(* cachekit.InMemoryCache: a map under a sync.RWMutex, with deadlines      *)
(* enforced lazily by Get and in the background by a sweeper goroutine.    *)
(* Each critical section is one action; what a goroutine computes outside  *)
(* the lock (the deadline of a Set, the expiry test of a Get, the sweeper's*)
(* `now') is a step of its own, so another goroutine can come in between.  *)
(* Copying of the byte slices in and out is what lets values be opaque.    *)
(***************************************************************************)
EXTENDS Integers

CONSTANTS Keys, Values, Procs,
          TTLs,         \* the expiration arguments clients use: 0 is none,
                        \* negative ones are accepted by the code
          StartTime,    \* the clock when the cache is made
          MaxTime,      \* bound on the clock
          Cleanup,      \* cleanupInterval > 0: there is a sweeper
          NoItem, NoCall

(* The zero time.Time, which marks an item without deadline, is long past. *)
Never == 0

Items == [val : Values, exp : Int]

ASSUME CacheAssumption ==
  /\ TTLs \subseteq Int
  /\ StartTime \in Nat /\ MaxTime \in Nat
  /\ \A d \in TTLs : StartTime + d > Never
  /\ Cleanup \in BOOLEAN
  /\ NoItem \notin Items
  /\ NoCall \notin [op : {"set"}, key : Keys, val : Values, ttl : TTLs, at : Nat]
  /\ NoCall \notin [op : {"get", "delete"}, key : Keys]
  /\ NoCall \notin [op : {"close"}]

VARIABLES
  items,      \* c.items; NoItem where the key is absent
  now,        \* time.Now()
  call,       \* the request each client is executing, or NoCall
  loc,        \* how far it is
  held,       \* its local item: built by Set, read by Get
  sweeper,    \* the cleanupLoop goroutine: where it is, the `now' of
              \* evictExpired and its list expiredKeys
  stopped,    \* stopCh is closed
  seen        \* history: what the key of a running Get showed during the call

vars == <<items, now, call, loc, held, sweeper, stopped, seen>>

(* The calls a client may make at one of the given times.                  *)
CallsAt(times) ==
  [op : {"set"}, key : Keys, val : Values, ttl : TTLs, at : times]
    \cup [op : {"get", "delete"}, key : Keys]
    \cup [op : {"close"}]

(* !exp.IsZero() && t.After(exp)                                           *)
Expired(item, t) == item.exp # Never /\ t > item.exp

(* What a client can see of an item at time t.                             *)
Live(item, t) == IF item # NoItem /\ Expired(item, t) THEN NoItem ELSE item

(* Between two passes the sweeper's local variables are gone.              *)
IdleSweeper == [at |-> "select", now |-> StartTime, expiredKeys |-> {}]

Init ==
  /\ items = [k \in Keys |-> NoItem]
  /\ now = StartTime
  /\ call = [p \in Procs |-> NoCall]
  /\ loc = [p \in Procs |-> "idle"]
  /\ held = [p \in Procs |-> NoItem]
  /\ sweeper = [IdleSweeper EXCEPT !.at = IF Cleanup THEN "select" ELSE "exited"]
  /\ stopped = FALSE
  /\ seen = [p \in Procs |-> {}]

(* What the key shows a client at time t: a value, or NoItem.              *)
Shown(item, t) == IF Live(item, t) = NoItem THEN NoItem ELSE item.val

(* Every step that changes the map or the clock shows in the history.      *)
Watch ==
  seen' = [p \in Procs |->
             IF call'[p] # NoCall /\ call'[p].op = "get"
             THEN seen[p] \cup {Shown(items'[call'[p].key], now')}
             ELSE {}]

Goto(p, l) == loc' = [loc EXCEPT ![p] = l]

Finish(p) ==
  /\ Goto(p, "idle")
  /\ call' = [call EXCEPT ![p] = NoCall]
  /\ held' = [held EXCEPT ![p] = NoItem]

-----------------------------------------------------------------------------
(* A client makes a call; it may find its context already done.            *)
Invoke(p, r) ==
  /\ loc[p] = "idle"
  /\ call' = [call EXCEPT ![p] = r]
  /\ Goto(p, "called")
  /\ UNCHANGED <<items, now, held, sweeper, stopped>>
  /\ Watch

ContextDone(p) ==
  /\ loc[p] = "called" /\ call[p].op # "close"
  /\ Finish(p)
  /\ UNCHANGED <<items, now, sweeper, stopped>>
  /\ Watch

(* Set computes the deadline and only then waits for the lock.             *)
SetPrepare(p) ==
  /\ loc[p] = "called" /\ call[p].op = "set"
  /\ held' = [held EXCEPT ![p] =
       [val |-> call[p].val,
        exp |-> IF call[p].ttl # 0 THEN now + call[p].ttl ELSE Never]]
  /\ Goto(p, "set")
  /\ UNCHANGED <<items, now, call, sweeper, stopped, seen>>

SetWrite(p) ==
  /\ loc[p] = "set"
  /\ items' = [items EXCEPT ![call[p].key] = held[p]]
  /\ Finish(p)
  /\ UNCHANGED <<now, sweeper, stopped>>
  /\ Watch

(* Get reads the item under the read lock ...                              *)
GetRead(p) ==
  /\ loc[p] = "called" /\ call[p].op = "get"
  /\ IF items[call[p].key] = NoItem
     THEN Finish(p)                                       \* ErrCacheMiss
     ELSE /\ held' = [held EXCEPT ![p] = items[call[p].key]]
          /\ Goto(p, "got")
          /\ UNCHANGED call
  /\ UNCHANGED <<items, now, sweeper, stopped>>
  /\ Watch

(* Variant: an item is served until the sweeper has taken it away.         *)
GetCheckTrusting(p) ==
  /\ loc[p] = "got"
  /\ Finish(p)
  /\ UNCHANGED <<items, now, sweeper, stopped>>
  /\ Watch

(* ... and tests its deadline after releasing it: a hit, or a stale copy.  *)
GetCheck(p) ==
  /\ loc[p] = "got"
  /\ IF Expired(held[p], now)
     THEN Goto(p, "expired") /\ UNCHANGED <<call, held>>
     ELSE Finish(p)
  /\ UNCHANGED <<items, now, sweeper, stopped>>
  /\ Watch

(* The lazy delete under the write lock, then ErrCacheMiss.                *)
GetPurge(p) ==
  LET k == call[p].key IN
  /\ loc[p] = "expired"
  /\ items' = IF items[k] # NoItem /\ items[k].exp = held[p].exp
              THEN [items EXCEPT ![k] = NoItem] ELSE items
  /\ Finish(p)
  /\ UNCHANGED <<now, sweeper, stopped>>
  /\ Watch

Delete(p) ==
  /\ loc[p] = "called" /\ call[p].op = "delete"
  /\ items' = [items EXCEPT ![call[p].key] = NoItem]
  /\ Finish(p)
  /\ UNCHANGED <<now, sweeper, stopped>>
  /\ Watch

(* Variant: Close leaves without telling the sweeper.                      *)
CloseSignalLost(p) ==
  /\ loc[p] = "called" /\ call[p].op = "close"
  /\ Goto(p, "waiting")
  /\ UNCHANGED <<items, now, call, held, sweeper, stopped, seen>>

(* Close closes stopCh, once, and waits for the sweeper.                   *)
CloseSignal(p) ==
  /\ loc[p] = "called" /\ call[p].op = "close"
  /\ stopped' = TRUE
  /\ Goto(p, "waiting")
  /\ UNCHANGED <<items, now, call, held, sweeper, seen>>

CloseReturn(p) ==
  /\ loc[p] = "waiting" /\ sweeper.at = "exited"
  /\ Finish(p)
  /\ UNCHANGED <<items, now, sweeper, stopped, seen>>

-----------------------------------------------------------------------------
(* Variant: the time the goroutine was started is used by every pass.      *)
SweepStartStale ==
  /\ sweeper.at = "select"
  /\ sweeper' = [sweeper EXCEPT !.at = "scan"]
  /\ UNCHANGED <<items, now, call, loc, held, stopped, seen>>

(* The ticker fires: evictExpired notes the time, ...                      *)
SweepStart ==
  /\ sweeper.at = "select"
  /\ sweeper' = [sweeper EXCEPT !.at = "scan", !.now = now]
  /\ UNCHANGED <<items, now, call, loc, held, stopped, seen>>

(* Variant: an item counts as expired at its deadline already.             *)
ExpiredKeysEarly(t) ==
  {<<k, items[k].exp>> : k \in {x \in Keys :
     items[x] # NoItem /\ items[x].exp # Never /\ t >= items[x].exp}}

ExpiredKeys(t) ==
  {<<k, items[k].exp>> : k \in {x \in Keys : items[x] # NoItem /\ Expired(items[x], t)}}

(* ... scans under the read lock, ...                                      *)
SweepScan ==
  /\ sweeper.at = "scan"
  /\ sweeper' = IF ExpiredKeys(sweeper.now) = {} THEN IdleSweeper
                ELSE [sweeper EXCEPT !.at = "purge",
                                     !.expiredKeys = ExpiredKeys(sweeper.now)]
  /\ UNCHANGED <<items, now, call, loc, held, stopped, seen>>

(* Variant: deletes what was found expired without looking again.          *)
SweepPurgeBlind ==
  /\ sweeper.at = "purge"
  /\ items' = [k \in Keys |->
       IF \E x \in sweeper.expiredKeys : x[1] = k THEN NoItem ELSE items[k]]
  /\ sweeper' = IdleSweeper
  /\ UNCHANGED <<now, call, loc, held, stopped>>
  /\ Watch

(* ... and deletes under the write lock the items that are still the ones  *)
(* it saw.                                                                 *)
SweepPurge ==
  /\ sweeper.at = "purge"
  /\ items' = [k \in Keys |->
       IF items[k] # NoItem /\ <<k, items[k].exp>> \in sweeper.expiredKeys
       THEN NoItem ELSE items[k]]
  /\ sweeper' = IdleSweeper
  /\ UNCHANGED <<now, call, loc, held, stopped>>
  /\ Watch

(* The other branch of the select.                                         *)
SweepStop ==
  /\ sweeper.at = "select" /\ stopped
  /\ sweeper' = [sweeper EXCEPT !.at = "exited"]
  /\ UNCHANGED <<items, now, call, loc, held, stopped, seen>>

Tick ==
  /\ now < MaxTime
  /\ now' = now + 1
  /\ UNCHANGED <<items, call, loc, held, sweeper, stopped>>
  /\ Watch

ClientStep(p) ==
  \/ ContextDone(p)
  \/ SetPrepare(p) \/ SetWrite(p)
  \/ GetRead(p) \/ GetCheck(p) \/ GetPurge(p)
  \/ Delete(p)
  \/ CloseSignal(p) \/ CloseReturn(p)

Sweep == SweepStart \/ SweepScan \/ SweepPurge

Next ==
  \/ \E p \in Procs, r \in CallsAt({now}) : Invoke(p, r)
  \/ \E p \in Procs : ClientStep(p)
  \/ Sweep \/ SweepStop
  \/ Tick

Spec == Init /\ [][Next]_vars

(* Goroutines that can run do.  The stop branch is strongly fair: a select *)
(* with several ready cases picks among them uniformly at random, so a     *)
(* ticker that is always ready cannot hide a closed stopCh for ever.       *)
FairSpec ==
  /\ Spec
  /\ \A p \in Procs : WF_vars(ClientStep(p))
  /\ WF_vars(Sweep)
  /\ SF_vars(SweepStop)

-----------------------------------------------------------------------------
TypeOK ==
  /\ items \in [Keys -> Items \cup {NoItem}]
  /\ now \in Nat
  /\ call \in [Procs -> CallsAt(Nat) \cup {NoCall}]
  /\ loc \in [Procs -> {"idle", "called", "set", "got", "expired", "waiting"}]
  /\ held \in [Procs -> Items \cup {NoItem}]
  /\ sweeper \in [at : {"select", "scan", "purge", "exited"}, now : Nat,
                  expiredKeys : SUBSET (Keys \X Int)]
  /\ stopped \in BOOLEAN
  /\ seen \in [Procs -> SUBSET (Values \cup {NoItem})]

(* A value that Get returns was the live value of its key at some moment   *)
(* of the call, although the deadline is tested on a copy after the lock   *)
(* is released (Get).                                                      *)
HitWasLive ==
  [][\A p \in Procs :
       loc[p] = "got" /\ loc'[p] = "idle" => held[p].val \in seen[p]]_vars

(* The documented meaning of ErrCacheMiss: when Get gives up on an expired *)
(* copy, its key was absent or expired at some moment of the call (Get).   *)
MissMeansAbsent ==
  \A p \in Procs : loc[p] = "expired" => NoItem \in seen[p]

(* What the sweeper and the lazy delete have picked for deletion outside   *)
(* the write lock is past its deadline for good, so that deleting an item  *)
(* with that very deadline never takes a live one (evictExpired, Get).     *)
PickedAreExpired ==
  /\ \A x \in sweeper.expiredKeys : x[2] # Never /\ now > x[2]
  /\ \A p \in Procs : loc[p] = "expired" =>
       held[p] # NoItem /\ Expired(held[p], now)

Map == INSTANCE ExpiringMap WITH
  store <- [k \in Keys |-> Live(items[k], now)], clock <- now

(* The cache is an expiring map: no eviction, by Get or by the sweeper, is *)
(* visible to a client, whatever Sets and Deletes come in between its      *)
(* phases, and a deadline is ttl after some moment of the Set.             *)
MapSpec == Map!Spec

(* Close ends, although the sweeper may be in the middle of a pass and its *)
(* ticker keeps firing, and however many clients close at the same time.   *)
CloseReturns ==
  \A p \in Procs : loc[p] = "waiting" ~> loc[p] = "idle"

(* An expired item does not stay in memory while the sweeper is running.   *)
ExpiredEvicted ==
  Cleanup => \A k \in Keys :
    (items[k] # NoItem /\ Expired(items[k], now))
      ~> (items[k] = NoItem \/ ~Expired(items[k], now) \/ stopped)
=============================================================================
