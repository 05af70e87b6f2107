--------------------------- MODULE CircuitBreaker ---------------------------
(***************************************************************************)
(* CircuitBreakerManager for one worker.  Each of its three methods is     *)
(* called by one thread of the coordinator: record_success by the thread   *)
(* of JOB_COMPLETED, record_failure by that of TASK_FAILED and             *)
(* can_assign_task by the assigner.  A call takes the breaker out of the   *)
(* dictionary under the manager's lock, reads its state without a lock,    *)
(* applies the breaker's method under the breaker's lock, reads the state  *)
(* again without a lock and reports a difference as an alert.  Meanwhile   *)
(* the thread of WORKER_FAILED may remove the breaker.                     *)
(***************************************************************************)
EXTENDS Breaker, Sequences

CONSTANTS
    LongCalls,      \* recovery_timeout may pass during a call
    MaxCalls,       \* bound: calls of the three methods
    MaxRemovals     \* bound: removals

ASSUME LongCallsAssumption == LongCalls \in BOOLEAN
ASSUME BoundAssumption     == MaxCalls \in Nat /\ MaxRemovals \in Nat

Method == {"record_success", "record_failure", "can_assign_task"}

VARIABLES
    heap,           \* the WorkerCircuitBreaker objects created so far
    current,        \* the one in CircuitBreakerManager.breakers, 0 if none
    call,           \* the call each method's thread is in
    transitions,    \* history: what the locked methods did
    told,           \* history: what the alerts said
    permits,        \* history: trials each object has given since it opened
    calls, removals \* history, for the bounds

vars == <<heap, current, call, transitions, told, permits, calls, removals>>

\* before, after and mixed are history: the states around the locked method,
\* and whether another call changed the same object since old was read.
NoCall == [pc |-> "idle", object |-> 0, old |-> "CLOSED", new |-> "CLOSED",
           before |-> "CLOSED", after |-> "CLOSED", mixed |-> FALSE]

Init ==
    /\ heap = <<>>
    /\ current = 0
    /\ call = [m \in Method |-> NoCall]
    /\ transitions = {}
    /\ told = {}
    /\ permits = <<>>
    /\ calls = 0
    /\ removals = 0

At(m, pc) == call[m].pc = pc
Object(m) == call[m].object
Step(m, c) == call' = [call EXCEPT ![m] = c]

\* Mutant: returns what the dictionary held before the breaker was made.
GetBreakerBeforeMade(m) ==
    /\ At(m, "idle")
    /\ calls < MaxCalls
    /\ calls' = calls + 1
    /\ IF current = 0
       THEN /\ heap' = Append(heap, NewBreaker)
            /\ permits' = Append(permits, 0)
            /\ current' = Len(heap) + 1
       ELSE UNCHANGED <<heap, permits, current>>
    /\ Step(m, [NoCall EXCEPT !.pc = "old", !.object = current])
    /\ UNCHANGED <<transitions, told, removals>>

\* get_breaker: the worker's breaker, made if there is none.
GetBreaker(m) ==
    /\ At(m, "idle")
    /\ calls < MaxCalls
    /\ calls' = calls + 1
    /\ IF current = 0
       THEN /\ heap' = Append(heap, NewBreaker)
            /\ permits' = Append(permits, 0)
            /\ current' = Len(heap) + 1
       ELSE UNCHANGED <<heap, permits, current>>
    /\ Step(m, [NoCall EXCEPT !.pc = "old", !.object = current'])
    /\ UNCHANGED <<transitions, told, removals>>

ReadOld(m) ==
    /\ At(m, "old")
    /\ Step(m, [call[m] EXCEPT !.pc = "apply", !.old = heap[Object(m)].state])
    /\ UNCHANGED <<heap, current, transitions, told, permits, calls, removals>>

\* What method m makes of breaker b.
Effect(m, b) ==
    CASE m = "record_success" -> RecordSuccess(b)
      [] m = "record_failure" -> RecordFailure(b)
      [] OTHER                -> AfterAsking(b)

\* A permission that is a trial: given by a breaker that is not CLOSED.
GivesTrial(m, b) ==
    m = "can_assign_task" /\ MayAssign(b) /\ b.state # "CLOSED"

\* The method of the breaker, under its lock.
Apply(m) ==
    /\ At(m, "apply")
    /\ LET o == Object(m)
           b == heap[o]
           c == Effect(m, b)
       IN  /\ heap' = [heap EXCEPT ![o] = c]
           /\ permits' = [permits EXCEPT ![o] =
                             IF c.state # "HALF_OPEN" THEN 0
                             ELSE @ + (IF GivesTrial(m, b) THEN 1 ELSE 0)]
           /\ transitions' = transitions \cup
                 {[object |-> o, old |-> b.state, new |-> c.state]}
           /\ call' = [n \in Method |->
                 IF n = m
                 THEN [call[m] EXCEPT !.pc = "new", !.before = b.state,
                                      !.after = c.state]
                 ELSE [call[n] EXCEPT !.mixed = @ \/
                          (Object(n) = o /\ call[n].pc \in {"apply", "new"})]]
    /\ UNCHANGED <<current, told, calls, removals>>

\* Mutant: the state is read from the breaker the dictionary holds now.
ReadNewOfCurrent(m) ==
    /\ At(m, "new")
    /\ LET s == IF current = 0 THEN "CLOSED" ELSE heap[current].state
       IN  Step(m, IF s # call[m].old
                   THEN [call[m] EXCEPT !.pc = "alert", !.new = s] ELSE NoCall)
    /\ UNCHANGED <<heap, current, transitions, told, permits, calls, removals>>

\* The state is read again; equal states end the call.
ReadNew(m) ==
    /\ At(m, "new")
    /\ LET s == heap[Object(m)].state
       IN  Step(m, IF s # call[m].old
                   THEN [call[m] EXCEPT !.pc = "alert", !.new = s] ELSE NoCall)
    /\ UNCHANGED <<heap, current, transitions, told, permits, calls, removals>>

PublishAlert(m) ==
    /\ At(m, "alert")
    /\ told' = told \cup {[object |-> Object(m), old |-> call[m].old,
                           new |-> call[m].new]}
    /\ Step(m, NoCall)
    /\ UNCHANGED <<heap, current, transitions, permits, calls, removals>>

\* remove_worker, called for a failed worker.
RemoveWorker ==
    /\ current # 0
    /\ removals < MaxRemovals
    /\ removals' = removals + 1
    /\ current' = 0
    /\ UNCHANGED <<heap, call, transitions, told, permits, calls>>

\* The recovery timeout of an open breaker passes; unless calls may be
\* long, not while one is under way.
CoolDown(o) ==
    /\ CanCool(heap[o])
    /\ LongCalls \/ \A m \in Method : Object(m) # o
    /\ heap' = [heap EXCEPT ![o] = Cooled(@)]
    /\ UNCHANGED <<current, call, transitions, told, permits, calls, removals>>

Next ==
    \/ \E m \in Method : GetBreaker(m)
    \/ \E m \in Method : ReadOld(m)
    \/ \E m \in Method : Apply(m)
    \/ \E m \in Method : ReadNew(m)
    \/ \E m \in Method : PublishAlert(m)
    \/ RemoveWorker
    \/ \E o \in DOMAIN heap : CoolDown(o)

Spec == Init /\ [][Next]_vars

-----------------------------------------------------------------------------
Report == [object : Nat, old : BreakerState, new : BreakerState]

CallType == [pc : {"idle", "old", "apply", "new", "alert"}, object : Nat,
             old : BreakerState, new : BreakerState,
             before : BreakerState, after : BreakerState, mixed : BOOLEAN]

\* Every variable has its type, and a thread inside a call holds an object
\* that exists.
TypeOK ==
    /\ heap \in Seq(BreakerType)
    /\ current \in 0 .. Len(heap)
    /\ call \in [Method -> CallType]
    /\ \A m \in Method : ~At(m, "idle") => Object(m) \in DOMAIN heap
    /\ transitions \subseteq Report
    /\ told \subseteq Report
    /\ permits \in Seq(Nat)
    /\ Len(permits) = Len(heap)
    /\ calls \in Nat
    /\ removals \in Nat

\* A breaker gives one trial each time it leaves OPEN and no second one until
\* the outcome of a task has moved it on, whichever threads call it and
\* whether or not it has been removed (circuit_breaker.py:46-58).
OneTrial ==
    \A o \in DOMAIN heap :
        permits[o] = IF heap[o].state = "HALF_OPEN" THEN 1 ELSE 0

\* A call that no other call disturbed reports what it did and nothing else: an
\* alert exactly when the locked method changed the state, with the states
\* before and after it (circuit_breaker.py:75-98).
UndisturbedAlertsExact ==
    \A m \in Method :
        LET c == call[m]
        IN  ~c.mixed =>
              /\ At(m, "new") => /\ c.old = c.before
                                 /\ heap[c.object].state = c.after
              /\ At(m, "alert") => /\ c.old = c.before /\ c.new = c.after
                                   /\ c.old # c.new

\* Every alert names a transition its breaker made ("Circuit breaker for worker
\* ... transitioned from {old_state} to {new_state}", circuit_breaker.py:114).
AlertsNameTransitions == told \subseteq transitions

\* The breaker the manager answers for: the current one, or a new one.
Shown == IF current = 0 THEN NewBreaker ELSE heap[current]

Cycle == INSTANCE BreakerCycle
           WITH phase     <- Shown.state,
                streak    <- IF Shown.state = "CLOSED" THEN Shown.failures ELSE 0,
                forgotten <- removals

\* Whatever the interleaving, a worker's breaker goes through the cycle of
\* BreakerCycle, and late calls on a removed breaker leave no trace.
CycleSpec == Cycle!Spec
=============================================================================
