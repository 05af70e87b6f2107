---------------------------- MODULE JobLifecycle ----------------------------
(***************************************************************************)
(* What the system promises about one job while no worker is lost: it is   *)
(* in one place at a time, it is handed out again only after the previous  *)
(* attempt has failed, it is buried after MaxRetries + 1 failures and not  *)
(* before, and once it is done or buried nothing happens to it any more.   *)
(* Coordinator implements this specification.                              *)
(***************************************************************************)
EXTENDS Naturals

CONSTANTS Job, MaxRetries

VARIABLES phase,        \* where each job is
          failed        \* the attempts of each job that have failed

Phase == {"new", "waiting", "running", "done", "dead"}

Init ==
    /\ phase = [j \in Job |-> "new"]
    /\ failed = [j \in Job |-> 0]

Move(j, from, to) ==
    /\ phase[j] = from
    /\ phase' = [phase EXCEPT ![j] = to]

Submit(j)   == Move(j, "new", "waiting")     /\ UNCHANGED failed
Assign(j)   == Move(j, "waiting", "running") /\ UNCHANGED failed
Complete(j) == Move(j, "running", "done")    /\ UNCHANGED failed

Retry(j) ==
    /\ Move(j, "running", "waiting")
    /\ failed[j] < MaxRetries
    /\ failed' = [failed EXCEPT ![j] = @ + 1]

Bury(j) ==
    /\ Move(j, "running", "dead")
    /\ failed[j] = MaxRetries
    /\ failed' = [failed EXCEPT ![j] = @ + 1]

Next == \E j \in Job :
            Submit(j) \/ Assign(j) \/ Complete(j) \/ Retry(j) \/ Bury(j)

Spec == Init /\ [][Next]_<<phase, failed>>
=============================================================================
