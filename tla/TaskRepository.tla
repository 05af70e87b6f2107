--------------------------- MODULE TaskRepository ---------------------------
(***************************************************************************)
(* What is recorded of one task: the copy in the task cache, which a       *)
(* client's GET /status shows, and the row in the database.  Five handlers *)
(* of the coordinator write both, each in a thread of its own that takes   *)
(* the events of one topic in order.  A call of TaskRepository reads the   *)
(* copy, writes it back, and then changes the row, in three steps between  *)
(* which the calls of other handlers may fall.                             *)
(*                                                                         *)
(* The rest of the system is reduced to the fate of the task: it waits, is *)
(* assigned, and completes, fails, or loses its worker.  Coordinator has   *)
(* those parts in full, and the row without the copy.                      *)
(***************************************************************************)
EXTENDS Naturals, Sequences

CONSTANTS
    Workers,
    NoTask,         \* no copy, or no row
    NoWorker,
    MaxRetries,     \* config: retries before the dead letter queue
    MaxFaults       \* bound: WORKER_FAILED events, failed cache operations and
                    \* transactions, evictions

Handlers == {"persist_task", "persist_task_assigned", "persist_task_completed",
             "handle_task_failed", "handle_worker_failed"}
Status == {"PENDING", "ASSIGNED", "RETRYING", "COMPLETED", "DLQ"}
Final  == {"COMPLETED", "DLQ"}

\* task_data and TaskDB, without the columns that never change
Record == [status : Status, worker : Workers \cup {NoWorker}, retries : Nat]

\* What is assumed of the constants.
Assumptions ==
    /\ NoWorker \notin Workers /\ NoTask \notin Record
    /\ MaxRetries \in Nat /\ MaxFaults \in Nat

\* A call of the repository.
Saving          == [op |-> "save"]
Updating(st, w) == [op |-> "update", status |-> st, worker |-> w]
Incrementing    == [op |-> "increment"]
Listing(w)      == [op |-> "list", worker |-> w]
Call == {Saving, Incrementing} \cup {Listing(w) : w \in Workers}
        \cup {Updating(st, w) : st \in Status, w \in Workers \cup {NoWorker}}

VARIABLES
    online,         \* PostgresStore.online
    copy, row,      \* the task in the cache and in the database
    calls,          \* the calls each handler has to make; the first is under way
    step,             \* the next step of it: "get", "set" or "row"
    held,           \* cached_data: the copy each handler has read
    failures,       \* RetryQueue.retries_tracker of the task
    submitted,      \* JOB_SUBMITTED was published
    waiting,        \* how often the task is in the job queue
    running,        \* how often each worker runs it
    completed,      \* history: TASK_COMPLETED was published
    disturbed,      \* history: calls overlapped, failed or found the store offline
    late,           \* history: an outcome overtook the record of an earlier step
    failovers, faults   \* histories, for the bounds

job     == <<failures, submitted, waiting, running>>
history == <<completed, disturbed, late, failovers, faults>>
vars == <<online, copy, row, calls, step, held, job, history>>

Init ==
    /\ online = FALSE
    /\ copy = NoTask /\ row = NoTask
    /\ calls = [h \in Handlers |-> <<>>]
    /\ step = [h \in Handlers |-> "get"]
    /\ held = [h \in Handlers |-> NoTask]
    /\ failures = 0 /\ submitted = FALSE
    /\ waiting = 0 /\ running = [w \in Workers |-> 0]
    /\ completed = FALSE /\ disturbed = FALSE /\ late = FALSE
    /\ failovers = 0 /\ faults = 0

-----------------------------------------------------------------------------
(* One call: task_cache.get, task_cache.set, and the session.              *)

Busy(h)      == calls[h] # <<>>
Current(h)   == Head(calls[h])
Overlaps(h)  == \E g \in Handlers \ {h} : step[g] # "get"

\* A step in which a cache operation or a transaction fails, or none does.
Fault == failovers + faults < MaxFaults /\ faults' = faults + 1
Works == faults' = faults

\* The record a call leaves.  worker_id=None means: as it was.
Changed(c, t) ==
    CASE c.op = "save" ->
            [status |-> "PENDING", worker |-> NoWorker, retries |-> 0]
      [] c.op = "update" ->
            [t EXCEPT !.status = c.status,
                      !.worker = IF c.worker = NoWorker THEN @ ELSE c.worker]
      [] c.op = "increment" -> [t EXCEPT !.retries = @ + 1]

\* Mutant: the row's worker is written even when none is given.
ChangedRowResets(h) ==
    IF Current(h).op = "update" THEN [row EXCEPT !.status = Current(h).status,
                                                 !.worker = Current(h).worker]
                                ELSE Changed(Current(h), row)

\* Mutant: the row takes the count of the cached copy.
ChangedRowFromCopy(h) ==
    IF Current(h).op = "increment" /\ copy # NoTask
    THEN [row EXCEPT !.retries = copy.retries]
    ELSE Changed(Current(h), row)

\* The row after the session of the call: save_task adds it where there is none,
\* the others do nothing then.
ChangedRow(h) == Changed(Current(h), row)
Writes(h) == Current(h).op = "save" \/ row # NoTask

\* json.loads(task_cache.get(...)): CacheClient.get answers None on an error.
ReadCopy(h) ==
    /\ Busy(h) /\ step[h] = "get" /\ Current(h).op \in {"update", "increment"}
    /\ \/ Works /\ held' = [held EXCEPT ![h] = copy]
       \/ Fault /\ held' = [held EXCEPT ![h] = NoTask]
    /\ step' = [step EXCEPT ![h] = IF held'[h] = NoTask THEN "row" ELSE "set"]
    /\ disturbed' = (disturbed \/ Overlaps(h) \/ faults' # faults)
    /\ UNCHANGED <<online, copy, row, calls, job, completed, late, failovers>>

\* task_cache.set(...): CacheClient.set answers False on an error.
WriteCopy(h) ==
    /\ Busy(h)
    /\ step[h] = "set" \/ (step[h] = "get" /\ Current(h).op = "save")
    /\ \/ Works /\ copy' = Changed(Current(h), held[h])
       \/ Fault /\ copy' = copy
    /\ step' = [step EXCEPT ![h] = "row"]
    /\ held' = [held EXCEPT ![h] = NoTask]
    /\ disturbed' = (disturbed \/ Overlaps(h) \/ faults' # faults)
    /\ UNCHANGED <<online, row, calls, job, completed, late, failovers>>

\* What follows the last step of a call: the rest of the handler.  A task that
\* was set back is queued again (scheduler.queue_job).
Requeues(c) == c.op = "update" /\ c.status \in {"PENDING", "RETRYING"}

\* The session, when the store is online.
WriteRow(h) ==
    /\ Busy(h) /\ step[h] = "row"
    /\ \/ Works /\ row' = IF online /\ Writes(h) THEN ChangedRow(h) ELSE row
       \/ online /\ Fault /\ row' = row
    /\ calls' = [calls EXCEPT ![h] = Tail(@)]
    /\ step' = [step EXCEPT ![h] = "get"]
    /\ waiting' = IF Requeues(Current(h)) THEN waiting + 1 ELSE waiting
    /\ disturbed' = (disturbed \/ ~online \/ faults' # faults)
    /\ UNCHANGED <<online, copy, held, failures, submitted, running, completed, late,
                   failovers>>

\* handle_worker_failed: get_assigned_tasks_for_worker, and the call it leads to.
ListAssigned(h) ==
    /\ Busy(h) /\ Current(h).op = "list"
    /\ \/ Works /\ calls' = [calls EXCEPT ![h] =
             IF online /\ row # NoTask /\ row.status = "ASSIGNED"
                       /\ row.worker = Current(h).worker
             THEN <<Updating("PENDING", NoWorker)>> \o Tail(@) ELSE Tail(@)]
       \/ online /\ Fault /\ calls' = [calls EXCEPT ![h] = Tail(@)]
    /\ UNCHANGED <<online, copy, row, step, held, job, completed, disturbed, late, failovers>>

-----------------------------------------------------------------------------
(* The task, and the events its handlers take.                             *)

\* An outcome whose task is still being recorded as submitted or assigned.
Overtakes == Busy("persist_task") \/ Busy("persist_task_assigned")

\* JOB_SUBMITTED: persist_task, and handle_job_submitted queues the job.
Submit ==
    /\ ~submitted
    /\ submitted' = TRUE /\ waiting' = 1
    /\ calls' = [calls EXCEPT !["persist_task"] = Append(@, Saving)]
    /\ UNCHANGED <<online, copy, row, step, held, failures, running, history>>

\* TASK_ASSIGNED: persist_task_assigned, and the worker starts.
Assign(w) ==
    /\ waiting > 0
    /\ waiting' = waiting - 1
    /\ running' = [running EXCEPT ![w] = @ + 1]
    /\ calls' = [calls EXCEPT !["persist_task_assigned"] =
                    Append(@, Updating("ASSIGNED", w))]
    /\ UNCHANGED <<online, copy, row, step, held, failures, submitted, history>>

\* TASK_COMPLETED: persist_task_completed.
Complete(w) ==
    /\ running[w] > 0
    /\ running' = [running EXCEPT ![w] = @ - 1]
    /\ completed' = TRUE
    /\ late' = (late \/ Overtakes)
    /\ calls' = [calls EXCEPT !["persist_task_completed"] =
                    Append(@, Updating("COMPLETED", NoWorker))]
    /\ UNCHANGED <<online, copy, row, step, held, failures, submitted, waiting, disturbed,
                   failovers, faults>>

\* Mutant: the dead letter queue does not record the task.
RetryCallsUnburied(n) ==
    <<Incrementing>> \o (IF n <= MaxRetries THEN <<Updating("RETRYING", NoWorker)>>
                                            ELSE <<>>)

\* RetryQueue.handle_task_failed on the n-th failure, and add_to_dlq.
RetryCalls(n) ==
    <<Incrementing, Updating(IF n <= MaxRetries THEN "RETRYING" ELSE "DLQ", NoWorker)>>

\* TASK_FAILED: handle_task_failed.
Fail(w) ==
    /\ running[w] > 0
    /\ running' = [running EXCEPT ![w] = @ - 1]
    /\ failures' = failures + 1
    /\ late' = (late \/ Overtakes)
    /\ calls' = [calls EXCEPT !["handle_task_failed"] = @ \o RetryCalls(failures')]
    /\ UNCHANGED <<online, copy, row, step, held, submitted, waiting, completed, disturbed,
                   failovers, faults>>

\* WORKER_FAILED, of a worker that died or of one that was only silent.
LoseWorker(w) ==
    /\ failovers + faults < MaxFaults
    /\ failovers' = failovers + 1
    /\ running' \in {running, [running EXCEPT ![w] = 0]}
    /\ calls' = [calls EXCEPT !["handle_worker_failed"] = Append(@, Listing(w))]
    /\ UNCHANGED <<online, copy, row, step, held, failures, submitted, waiting, completed,
                   disturbed, late, faults>>

\* init_db, which may be slow, or fail.
StoreReady ==
    /\ ~online
    /\ online' = TRUE
    /\ UNCHANGED <<copy, row, calls, step, held, job, history>>

\* The cache evicts the task, or loses its contents.
Evict ==
    /\ copy # NoTask /\ Fault
    /\ copy' = NoTask
    /\ disturbed' = TRUE
    /\ UNCHANGED <<online, row, calls, step, held, job, completed, late, failovers>>

Step(h) == ReadCopy(h) \/ WriteCopy(h) \/ WriteRow(h) \/ ListAssigned(h)

Next ==
    \/ \E h \in Handlers : Step(h)
    \/ Submit \/ StoreReady \/ Evict
    \/ \E w \in Workers : Assign(w) \/ Complete(w) \/ Fail(w) \/ LoseWorker(w)

Spec == Init /\ [][Next]_vars

\* The threads of the handlers keep running.
Fairness == \A h \in Handlers : WF_vars(Step(h))
FairSpec == Spec /\ Fairness

-----------------------------------------------------------------------------
\* process_client_socket on GET /status: the status a client is shown.
Shown == IF copy = NoTask THEN "PENDING" ELSE copy.status

TypeOK ==
    /\ online \in BOOLEAN
    /\ copy \in Record \cup {NoTask} /\ row \in Record \cup {NoTask}
    /\ calls \in [Handlers -> Seq(Call)]
    /\ step \in [Handlers -> {"get", "set", "row"}]
    /\ held \in [Handlers -> Record \cup {NoTask}]
    /\ failures \in Nat /\ submitted \in BOOLEAN
    /\ waiting \in Nat /\ running \in [Workers -> Nat]
    /\ completed \in BOOLEAN /\ disturbed \in BOOLEAN /\ late \in BOOLEAN
    /\ failovers \in Nat /\ faults \in Nat /\ failovers + faults <= MaxFaults

\* While no two calls overlap, no operation fails and the store is online, the copy
\* a client is shown and the row agree between calls: on status, worker and retries,
\* whatever the order in which the five threads make their calls.  The converse is
\* the hazard: a call that reads the copy before another's write puts back what it
\* has read (task_repository.py:48-59), and the two differ from then on.
UndisturbedCopyIsRow ==
    (~disturbed /\ \A h \in Handlers : step[h] = "get") => copy = row

\* The row counts every failure even when calls overlap, though the copy may lose
\* some: the increment is made inside a session (task_repository.py:88-91).
FailuresCounted ==
    (row # NoTask /\ faults = 0 /\ ~late /\ ~Busy("handle_task_failed")) =>
        row.retries = failures

\* A finished task is shown as finished in the end, and its row says the same, unless
\* an outcome overtook the record of an earlier step, a worker was reported failed,
\* or an operation failed.
Finished == completed \/ failures > MaxRetries
FinalStatusShown ==
    <>[]((Finished /\ ~late /\ failovers = 0 /\ faults = 0) =>
             Shown \in Final /\ (row # NoTask => row.status = Shown))
=============================================================================
