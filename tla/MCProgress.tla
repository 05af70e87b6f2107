----------------------------- MODULE MCProgress -----------------------------
(***************************************************************************)
(* The event bus and a coordinator without lost workers, side by side for  *)
(* TLC, to see that what was sent is handled and what was accepted is      *)
(* settled.  They share no state.  The initial state says which of them    *)
(* moves, and whose threads keep running; the other stays as it begins.    *)
(***************************************************************************)
EXTENDS EventBus

CONSTANTS Worker, Job, None, Threshold

VARIABLES part,
    inbox, stage, queue, registered, before, load, fresh, breaker, assigner, requeue,
    online, workerRows, row, holder, tracker, dlq, alive, tasks, beats, unsent,
    finished, failovers, lost, silences

serviceVars ==
    <<inbox, stage, queue, registered, before, load, fresh, breaker, assigner, requeue,
      online, workerRows, row, holder, tracker, dlq, alive, tasks, beats, unsent,
      finished, failovers, lost, silences>>

\* Jobs that fail each time, and have two retries.
Service == INSTANCE Coordinator WITH
    Capacity <- [w \in Worker |-> 1], Priority <- [j \in Job |-> 1],
    IntPriority <- Job, Poison <- Job, NeedsPayload <- Job, MaxRetries <- 2,
    ForeignKeys <- FALSE, OnlineAtStart <- TRUE,
    MaxCrashes <- 0, MaxSilences <- 0, MaxSuspicions <- 1, MaxHeartbeats <- 0,
    crashes <- lost

ProgressInit ==
    part \in {"bus", "coordinator"} /\ Init /\ Service!Init

ProgressNext ==
    \/ part = "bus" /\ Next /\ UNCHANGED <<part, serviceVars>>
    \/ part = "coordinator" /\ Service!Next /\ UNCHANGED <<part, vars>>

ProgressSpec ==
    /\ ProgressInit /\ [][ProgressNext]_<<part, vars, serviceVars>>
    /\ part = "bus" => Fairness
    /\ part = "coordinator" => Service!SchedulingFairness

\* While the broker stays up, every subscriber that was dropped or cut off comes back
\* and handles all it was sent (event_bus.py:52-67).
BusReturns == part = "bus" => SubscribersReturn

\* Without lost workers every submitted job is completed by a worker or ends in the
\* dead letter queue, whatever the breakers do meanwhile (scheduler.py:12-42,
\* circuit_breaker.py:42-81, retry_queue.py:12-24).
JobsSettle == Service!EveryJobSettles
=============================================================================
