-------------------------------- MODULE Result --------------------------------
(***************************************************************************)
(* result.Result: a value or an error, with a flag that says which.  The   *)
(* operations are pure; the theorems are the laws that callers rely on     *)
(* when they chain them.  A Go function is a TLA+ function here.           *)
(***************************************************************************)
EXTENDS TLAPS

CONSTANTS Nil,    \* the nil error
          Zero    \* the zero value of a type

Ok(value) == [value |-> value, err |-> Nil, ok |-> TRUE]

Err(err) == [value |-> Zero, err |-> err, ok |-> FALSE]

Of(value, err) == IF err # Nil THEN Err(err) ELSE Ok(value)

Unwrap(r) == <<r.value, r.err>>

UnwrapOr(r, fallback) == IF r.ok THEN r.value ELSE fallback

UnwrapOrElse(r, fn) == IF r.ok THEN r.value ELSE fn[r.err]

Map(r, fn) == IF r.ok THEN Ok(fn[r.value]) ELSE Err(r.err)

FlatMap(r, fn) == IF r.ok THEN fn[r.value] ELSE Err(r.err)

(* The results over T that the constructors make, with errors in E.        *)
Results(T, E) == {Ok(v) : v \in T} \cup {Err(e) : e \in E}

-----------------------------------------------------------------------------
(* How the fields of a result read.                                        *)
LEMMA Fields ==
  /\ \A v : Ok(v).ok = TRUE /\ Ok(v).value = v /\ Ok(v).err = Nil
  /\ \A e : Err(e).ok = FALSE /\ Err(e).err = e
  BY DEF Ok, Err

(* Map and FlatMap on the two kinds of result.                             *)
LEMMA Steps ==
  /\ \A v, f : Map(Ok(v), f) = Ok(f[v]) /\ FlatMap(Ok(v), f) = f[v]
  /\ \A e, f : Map(Err(e), f) = Err(e) /\ FlatMap(Err(e), f) = Err(e)
  BY Fields DEF Map, FlatMap

(* Every result is one of the two kinds.                                   *)
LEMMA Kinds ==
  ASSUME NEW T, NEW E, NEW r \in Results(T, E)
  PROVE  (\E v \in T : r = Ok(v)) \/ (\E e \in E : r = Err(e))
  BY DEF Results

(* What the operations return are results again, so that chains stay       *)
(* within the laws below.                                                  *)
LEMMA Closed ==
  ASSUME NEW T, NEW U, NEW E, NEW r \in Results(T, E)
  PROVE  /\ \A f \in [T -> U] : Map(r, f) \in Results(U, E)
         /\ \A f \in [T -> Results(U, E)] : FlatMap(r, f) \in Results(U, E)
  <1>0. /\ \A u \in U : Ok(u) \in Results(U, E)
        /\ \A e \in E : Err(e) \in Results(U, E)
    BY DEF Results
  <1>1. CASE \E v \in T : r = Ok(v)
    BY <1>0, <1>1, Steps
  <1>2. CASE \E e \in E : r = Err(e)
    BY <1>0, <1>2, Steps
  <1> QED BY <1>1, <1>2, Kinds

(* How a chain of calls is nested does not matter: the first error ends    *)
(* it, and is the error of the chain (FlatMap).                            *)
THEOREM Associativity ==
  ASSUME NEW T, NEW U, NEW W, NEW E,
         NEW r \in Results(T, E),
         NEW f \in [T -> Results(U, E)], NEW g \in [U -> Results(W, E)]
  PROVE  FlatMap(FlatMap(r, f), g) = FlatMap(r, [v \in T |-> FlatMap(f[v], g)])
  <1> DEFINE fg == [v \in T |-> FlatMap(f[v], g)]
  <1>1. ASSUME NEW v \in T, r = Ok(v)
        PROVE  FlatMap(FlatMap(r, f), g) = FlatMap(r, fg)
    <2>1. FlatMap(r, f) = f[v] /\ FlatMap(r, fg) = fg[v]
      BY <1>1, Steps
    <2>2. fg[v] = FlatMap(f[v], g)
      OBVIOUS
    <2> QED BY <2>1, <2>2
  <1>2. ASSUME NEW e \in E, r = Err(e)
        PROVE  FlatMap(FlatMap(r, f), g) = FlatMap(r, fg)
    BY <1>2, Steps
  <1> QED BY <1>1, <1>2, Kinds

(* Two maps in a row are one map of the composition (Map).                 *)
THEOREM MapFusion ==
  ASSUME NEW T, NEW U, NEW W, NEW E, NEW r \in Results(T, E),
         NEW f \in [T -> U], NEW g \in [U -> W]
  PROVE  Map(Map(r, f), g) = Map(r, [v \in T |-> g[f[v]]])
  <1> DEFINE gf == [v \in T |-> g[f[v]]]
  <1>1. ASSUME NEW v \in T, r = Ok(v)
        PROVE  Map(Map(r, f), g) = Map(r, gf)
    <2>1. Map(r, f) = Ok(f[v]) /\ Map(r, gf) = Ok(gf[v])
      BY <1>1, Steps
    <2>2. gf[v] = g[f[v]]
      OBVIOUS
    <2> QED BY <2>1, <2>2, Steps
  <1>2. ASSUME NEW e \in E, r = Err(e)
        PROVE  Map(Map(r, f), g) = Map(r, gf)
    BY <1>2, Steps
  <1> QED BY <1>1, <1>2, Kinds

(* A caller that tests the error of Unwrap or Error, as Go code does, and  *)
(* one that tests IsOk agree along every chain, provided that no Err was   *)
(* made from a nil error: Err(nil) unwraps to a zero value and no error.   *)
THEOREM ErrorIffNotOk ==
  ASSUME NEW T, NEW U, NEW E, Nil \notin E,
         NEW r \in Results(T, E), NEW f \in [T -> Results(U, E)]
  PROVE  FlatMap(r, f).ok <=> Unwrap(FlatMap(r, f))[2] = Nil
  <1>1. FlatMap(r, f) \in Results(U, E)
    BY Closed
  <1>2. \A u \in U : Ok(u).ok <=> Unwrap(Ok(u))[2] = Nil
    BY Fields DEF Unwrap
  <1>3. \A e \in E : Err(e).ok <=> Unwrap(Err(e))[2] = Nil
    BY Fields DEF Unwrap
  <1> QED BY <1>1, <1>2, <1>3, Kinds

(* A Result made from a Go call gives that call back: the error if there   *)
(* was one, else the value (Of, Unwrap); UnwrapOrElse asks its function    *)
(* exactly when there was an error, and hands it that error.               *)
THEOREM RoundTrip ==
  ASSUME NEW v, NEW e, NEW fn
  PROVE  /\ Unwrap(Of(v, e)) = IF e = Nil THEN <<v, Nil>> ELSE <<Zero, e>>
         /\ UnwrapOrElse(Of(v, e), fn) = IF e = Nil THEN v ELSE fn[e]
         /\ UnwrapOr(Of(v, e), Zero) = Unwrap(Of(v, e))[1]
  BY DEF Unwrap, Of, UnwrapOrElse, UnwrapOr, Ok, Err
=============================================================================
