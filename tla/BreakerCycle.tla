---------------------------- MODULE BreakerCycle ----------------------------
(***************************************************************************)
(* What the circuit breaker of one worker promises, whoever calls it: it   *)
(* trips at the Threshold-th failure since the last success, it is left by *)
(* a single trial whose outcome decides between closed and open, and only  *)
(* losing the worker makes it forget.  CircuitBreaker implements this.     *)
(***************************************************************************)
EXTENDS Naturals

CONSTANT Threshold

VARIABLES phase,        \* "CLOSED", "OPEN" or "HALF_OPEN"
          streak,       \* failures since the last success while closed
          forgotten     \* times the worker was lost

Init == phase = "CLOSED" /\ streak = 0 /\ forgotten = 0

Succeed ==
    /\ phase # "OPEN"
    /\ phase' = "CLOSED" /\ streak' = 0
    /\ UNCHANGED forgotten

Fail ==
    /\ phase = "CLOSED" /\ streak + 1 < Threshold
    /\ streak' = streak + 1
    /\ UNCHANGED <<phase, forgotten>>

Trip ==
    /\ phase = "HALF_OPEN" \/ (phase = "CLOSED" /\ streak + 1 = Threshold)
    /\ phase' = "OPEN" /\ streak' = 0
    /\ UNCHANGED forgotten

Probe ==
    /\ phase = "OPEN"
    /\ phase' = "HALF_OPEN"
    /\ UNCHANGED <<streak, forgotten>>

Forget ==
    /\ phase' = "CLOSED" /\ streak' = 0
    /\ forgotten' = forgotten + 1

Next == Succeed \/ Fail \/ Trip \/ Probe \/ Forget

Spec == Init /\ [][Next]_<<phase, streak, forgotten>>
=============================================================================
