------------------------------ MODULE MCParts ------------------------------
(***************************************************************************)
(* Three parts of the system around the coordinator, side by side for TLC: *)
(* the record of a task, the gateway's submissions, and a connection to    *)
(* the cache.  They share no state in the models.  The initial state says  *)
(* which of them moves, and the others stay in their initial states, where *)
(* none of their fair actions is enabled.                                  *)
(***************************************************************************)
EXTENDS TaskRepository

CONSTANTS
    Requests, Long, Odd, InitialSize, MaxSize, NoConnection, MaxTroubles,
    Keys, Values, None, MaxCommands

VARIABLES
    part,
    up, pool, conn, peer, wire, buffer, acks, pc, using, answer, published, dropped,
    lost, long, ends, gone,
    command, sent, stream, unparsed, store, replies, acked, torn

gateway == <<up, pool, conn, peer, wire, buffer, acks, pc, using, answer, published,
             dropped, lost, long, ends, gone>>
cache == <<command, sent, stream, unparsed, store, replies, acked, torn>>

G == INSTANCE Gateway
C == INSTANCE RespConnection

ASSUME PartAssumptions == Assumptions /\ G!Assumptions /\ C!Assumptions

PartsInit == part \in {"repository", "gateway", "cache"} /\ Init /\ G!Init /\ C!Init

PartsNext ==
    \/ part = "repository" /\ Next /\ UNCHANGED <<part, gateway, cache>>
    \/ part = "gateway"    /\ G!Next /\ UNCHANGED <<part, vars, cache>>
    \/ part = "cache"      /\ C!Next /\ UNCHANGED <<part, vars, gateway>>

PartsSpec ==
    /\ PartsInit /\ [][PartsNext]_<<part, vars, gateway, cache>>
    /\ Fairness /\ G!Fairness /\ C!Fairness

-----------------------------------------------------------------------------
\* The variables of every part have their types.
PartsTypeOK == TypeOK /\ G!TypeOK /\ C!TypeOK

\* A pooled connection has one owner (connection_pool.py).
OneOwner == G!OneOwner

\* The fate of a task is settled before its client reads 202, on a connection that
\* carried no body in two pieces (router.py:231-241).
AnsweredWhenSettled == G!AnsweredWhenSettled

\* Every thread of the gateway answers (router.py:224-245).
EveryRequestAnswered == G!EveryRequestAnswered

\* A task answered 202 is settled in the end (event_bus.py:155-180).
AcceptedIsSettled == G!AcceptedIsSettled

\* The cache stores what it has acknowledged, unless the command was cut
\* (cache_manager.py:66-74).
AcknowledgedIsStored == C!AcknowledgedIsStored

\* Every call of the cache client returns (cache_manager.py:138-149).
CallsReturn == C!CallsReturn
=============================================================================
