------------------------------ MODULE Breaker ------------------------------
(***************************************************************************)
(* The circuit breaker of one worker (coordinator/circuit_breaker.py,      *)
(* class WorkerCircuitBreaker) as a value, and what each of its three      *)
(* methods does to that value.  Every method runs under the breaker's own  *)
(* lock, so each is one function on breakers.                              *)
(*                                                                         *)
(* The clock is abstracted to one Boolean: cooled says that                *)
(* recovery_timeout has passed since last_failure_time.  Only an OPEN      *)
(* breaker reads the clock, so cooled is kept FALSE in the other states.   *)
(***************************************************************************)
EXTENDS Naturals

CONSTANT Threshold      \* failure_threshold: failures that open a breaker

ASSUME ThresholdAssumption == Threshold \in Nat \ {0}

BreakerState == {"CLOSED", "OPEN", "HALF_OPEN"}

BreakerType == [state    : BreakerState,
                failures : Nat,          \* consecutive_failures
                trial    : BOOLEAN,      \* trial_task_assigned
                cooled   : BOOLEAN]

NewBreaker == [state |-> "CLOSED", failures |-> 0, trial |-> FALSE,
               cooled |-> FALSE]

\* Mutant: a success closes any breaker.
RecordSuccessClosesOpen(b) ==
    IF b.state = "CLOSED" THEN [b EXCEPT !.failures = 0] ELSE NewBreaker

\* record_success: an OPEN breaker ignores it.
RecordSuccess(b) ==
    CASE b.state = "HALF_OPEN" -> NewBreaker
      [] b.state = "CLOSED"    -> [b EXCEPT !.failures = 0]
      [] OTHER                 -> b

\* Mutant: a failed trial reopens the breaker and keeps the trial flag.
RecordFailureKeepsTrial(b) ==
    LET n     == b.failures + 1
        opens == b.state = "HALF_OPEN" \/ (b.state = "CLOSED" /\ n >= Threshold)
    IN  [state    |-> IF opens THEN "OPEN" ELSE b.state,
         failures |-> n, trial |-> b.trial, cooled |-> FALSE]

\* record_failure: the count grows and the cooldown restarts in every state; a
\* failed trial reopens the breaker and gives the trial back.
RecordFailure(b) ==
    LET n     == b.failures + 1
        opens == b.state = "HALF_OPEN" \/ (b.state = "CLOSED" /\ n >= Threshold)
    IN  [state    |-> IF opens THEN "OPEN" ELSE b.state,
         failures |-> n,
         trial    |-> b.trial /\ b.state # "HALF_OPEN",
         cooled   |-> FALSE]

\* Mutant: an open breaker never allows a trial.
MayAssignNoRecovery(b) ==
    \/ b.state = "CLOSED"
    \/ b.state = "HALF_OPEN" /\ ~b.trial

\* can_assign_task: its return value ...
MayAssign(b) ==
    \/ b.state = "CLOSED"
    \/ b.state = "OPEN" /\ b.cooled
    \/ b.state = "HALF_OPEN" /\ ~b.trial

\* Mutant: an OPEN breaker that has cooled does not note that the trial is out.
AfterAskingLeavesTrial(b) ==
    CASE b.state = "OPEN" /\ b.cooled       -> [b EXCEPT !.state = "HALF_OPEN",
                                                         !.cooled = FALSE]
      [] b.state = "HALF_OPEN" /\ ~b.trial -> [b EXCEPT !.trial = TRUE]
      [] OTHER                             -> b

\* ... and its effect: asking an OPEN breaker that has cooled, or a HALF_OPEN
\* one whose trial is free, takes the trial.
AfterAsking(b) ==
    IF MayAssign(b) /\ b.state # "CLOSED"
    THEN [b EXCEPT !.state = "HALF_OPEN", !.trial = TRUE, !.cooled = FALSE]
    ELSE b

\* recovery_timeout passes without another failure.
CanCool(b) == b.state = "OPEN" /\ ~b.cooled
Cooled(b)  == [b EXCEPT !.cooled = TRUE]

\* What the three methods keep true of a breaker they are applied to one at a
\* time: the trial flag is set exactly in HALF_OPEN (so the second half of
\* can_assign_task's HALF_OPEN branch is never taken), a CLOSED breaker is
\* below the threshold and the others have reached it.
WellFormed(b) ==
    /\ b.trial <=> b.state = "HALF_OPEN"
    /\ b.state = "CLOSED" <=> b.failures < Threshold
    /\ b.cooled => b.state = "OPEN"
=============================================================================
