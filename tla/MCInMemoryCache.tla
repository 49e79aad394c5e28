--------------------------- MODULE MCInMemoryCache ---------------------------
(* InMemoryCache on a small instance.  Clients and values are              *)
(* interchangeable.                                                        *)
EXTENDS InMemoryCache, TLC

CONSTANTS p1, p2, v1, v2

MCProcs == {p1, p2}
MCValues == {v1, v2}
Symmetry == Permutations(MCProcs) \cup Permutations(MCValues)

(* No deadline, a short one, and one that has passed when it is set.       *)
MCTTLs == {0, 1, -1}
=============================================================================
