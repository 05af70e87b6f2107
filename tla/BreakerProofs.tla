--------------------------- MODULE BreakerProofs ---------------------------
(***************************************************************************)
(* What the methods of one breaker keep true, for every threshold.         *)
(***************************************************************************)
EXTENDS Breaker, TLAPS

\* The methods of a breaker and the passing of time map breakers to breakers
\* and keep them well formed (coordinator/circuit_breaker.py).
LEMMA BreakerSteps ==
    ASSUME NEW b \in BreakerType, WellFormed(b)
    PROVE  /\ RecordSuccess(b) \in BreakerType /\ WellFormed(RecordSuccess(b))
           /\ RecordFailure(b) \in BreakerType /\ WellFormed(RecordFailure(b))
           /\ AfterAsking(b) \in BreakerType   /\ WellFormed(AfterAsking(b))
           /\ CanCool(b) => Cooled(b) \in BreakerType /\ WellFormed(Cooled(b))
           /\ NewBreaker \in BreakerType       /\ WellFormed(NewBreaker)
<1> USE ThresholdAssumption DEF BreakerType, BreakerState, WellFormed, NewBreaker
<1>1. NewBreaker \in BreakerType /\ WellFormed(NewBreaker)
  OBVIOUS
<1>2. RecordSuccess(b) \in BreakerType /\ WellFormed(RecordSuccess(b))
  BY DEF RecordSuccess
<1>3. RecordFailure(b) \in BreakerType /\ WellFormed(RecordFailure(b))
  BY DEF RecordFailure
<1>4. AfterAsking(b) \in BreakerType /\ WellFormed(AfterAsking(b))
  BY DEF AfterAsking, MayAssign
<1>5. CanCool(b) => Cooled(b) \in BreakerType /\ WellFormed(Cooled(b))
  BY DEF CanCool, Cooled
<1> QED
  BY <1>1, <1>2, <1>3, <1>4, <1>5
=============================================================================
