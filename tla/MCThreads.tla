----------------------------- MODULE MCThreads ------------------------------
(***************************************************************************)
(* Two objects that several threads call under locks, side by side for     *)
(* TLC: the circuit breakers of a worker and the store of a cache server.  *)
(* They share no state.  The initial state says which of them moves, and   *)
(* the other stays in its initial state.                                   *)
(***************************************************************************)
EXTENDS CircuitBreaker, LRUCache

VARIABLE part

ThreadsInit == part \in {"breaker", "cache"} /\ Init /\ CacheInit

ThreadsNext ==
    \/ part = "breaker" /\ Next /\ UNCHANGED <<part, cacheVars>>
    \/ part = "cache" /\ CacheNext /\ UNCHANGED <<part, vars>>

ThreadsSpec == ThreadsInit /\ [][ThreadsNext]_<<part, vars, cacheVars>>

\* Connections, and values, are interchangeable.
Symmetry == Permutations(Clients) \cup Permutations(Values)
=============================================================================
