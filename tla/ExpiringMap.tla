----------------------------- MODULE ExpiringMap -----------------------------
(***************************************************************************)
(* What cachekit.Cache promises: a map whose entries vanish when their     *)
(* deadline passes, and otherwise change only because a client asked for   *)
(* it.  There is no eviction here: reclaiming memory must not be visible.  *)
(***************************************************************************)
EXTENDS Integers

CONSTANTS Keys, Values, TTLs, Procs, StartTime,
          NoItem,    \* the key is absent
          NoCall     \* the client has no call in progress

Never == 0           \* deadline of an entry without one

VARIABLES store,     \* the live entries
          clock,
          call       \* what each client is waiting for

vars == <<store, clock, call>>

(* Reads made at time t do not see an entry once its deadline has passed.  *)
Live(item, t) ==
  IF item # NoItem /\ item.exp # Never /\ t > item.exp THEN NoItem ELSE item

Init ==
  /\ store = [k \in Keys |-> NoItem]
  /\ clock = StartTime
  /\ call = [p \in Procs |-> NoCall]

Requests ==
  [op : {"set"}, key : Keys, val : Values, ttl : TTLs, at : {clock}]
    \cup [op : {"get", "delete"}, key : Keys]
    \cup [op : {"close"}]

Invoke(p, r) ==
  /\ call[p] = NoCall
  /\ call' = [call EXCEPT ![p] = r]
  /\ UNCHANGED <<store, clock>>

(* Without effect: any answer to a get, close, a context that is done.     *)
Return(p) ==
  /\ call[p] # NoCall
  /\ call' = [call EXCEPT ![p] = NoCall]
  /\ UNCHANGED <<store, clock>>

(* The deadline lies ttl after some moment of the call.                    *)
Deadlines(r) == IF r.ttl = 0 THEN {Never} ELSE (r.at + r.ttl) .. (clock + r.ttl)

Set(p) ==
  /\ call[p] # NoCall /\ call[p].op = "set"
  /\ \E d \in Deadlines(call[p]) :
       store' = [store EXCEPT ![call[p].key] =
                   Live([val |-> call[p].val, exp |-> d], clock)]
  /\ call' = [call EXCEPT ![p] = NoCall]
  /\ UNCHANGED clock

Delete(p) ==
  /\ call[p] # NoCall /\ call[p].op = "delete"
  /\ store' = [store EXCEPT ![call[p].key] = NoItem]
  /\ call' = [call EXCEPT ![p] = NoCall]
  /\ UNCHANGED clock

Tick ==
  /\ clock' = clock + 1
  /\ store' = [k \in Keys |-> Live(store[k], clock')]
  /\ UNCHANGED call

Next ==
  \/ \E p \in Procs, r \in Requests : Invoke(p, r)
  \/ \E p \in Procs : Set(p) \/ Delete(p) \/ Return(p)
  \/ Tick

Spec == Init /\ [][Next]_vars
=============================================================================
