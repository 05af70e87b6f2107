---------------------------- MODULE Coordinator ----------------------------
(***************************************************************************)
(* The coordinator process with the workers it drives: scheduling,         *)
(* retries, the dead letter queue, heartbeat failure detection, failover   *)
(* and the task rows in the database.                                      *)
(*                                                                         *)
(* Every bus.subscribe call starts a thread with a broker connection of    *)
(* its own, and publish returns after the broker has written the event to  *)
(* every subscriber of its topic.  So the bus is one FIFO inbox per        *)
(* subscribed handler, publishing appends to the inboxes of a topic in one *)
(* step, and each handler consumes its own inbox at its own pace.          *)
(***************************************************************************)
EXTENDS Breaker, Sequences, SequencesExt, FiniteSets

CONSTANTS
    Worker,         \* worker ids
    Job,            \* job ids
    None,           \* no worker / no job
    Capacity,       \* [Worker -> Nat]: the capacity a worker registers
    Priority,       \* [Job -> Nat]: queue key of a submitted job, least first
    IntPriority,    \* the jobs submitted with a number as priority
    Poison,         \* the jobs whose execution always fails
    NeedsPayload,   \* the jobs whose handler reads the payload
    MaxRetries,     \* RetryQueue.max_retries
    ForeignKeys,    \* the database checks tasks.worker_id (PostgreSQL does)
    OnlineAtStart,  \* the store may already be connected at the start
    MaxCrashes,     \* bound: worker processes that die
    MaxSilences,    \* bound: live workers whose heartbeats stay away too long
    MaxSuspicions,  \* bound: WORKER_FAILED events under way
    MaxHeartbeats   \* bound: heartbeats of a worker under way

ASSUME CapacityAssumption   == Capacity \in [Worker -> Nat \ {0}]
ASSUME PriorityAssumption   == Priority \in [Job -> Nat]
ASSUME MaxRetriesAssumption == MaxRetries \in Nat
ASSUME NoneAssumption       == None \notin Worker
ASSUME StoreAssumption      == ForeignKeys \in BOOLEAN /\ OnlineAtStart \in BOOLEAN

\* A job as the events carry it.  full is FALSE in a copy rebuilt from its
\* database row, which has no payload and keeps the priority as text.
Copy == [id : Job, full : BOOLEAN]

Subscriptions ==
    [REGISTER      |-> {"handle_register", "persist_worker"},
     JOB_SUBMITTED |-> {"handle_job_submitted", "persist_task"},
     TASK_ASSIGNED |-> {"send_to_worker", "persist_task_assigned"},
     JOB_COMPLETED |-> {"handle_job_completed", "persist_task_completed"},
     TASK_FAILED   |-> {"handle_task_failed"},
     WORKER_FAILED |-> {"handle_worker_failure", "handle_worker_failed"}]

Handler == UNION {Subscriptions[t] : t \in DOMAIN Subscriptions}

\* The fields of an event that some handler reads.
JobEvents    == Subscriptions.JOB_SUBMITTED
WorkerEvents == Subscriptions.REGISTER \cup Subscriptions.WORKER_FAILED

EventFor(h) == [worker : IF h \in JobEvents THEN {None} ELSE Worker,
                job    : IF h \in WorkerEvents THEN {None} ELSE Copy]

RowStatus == {"ABSENT", "PENDING", "ASSIGNED", "RETRYING", "COMPLETED", "DLQ"}

VARIABLES
    inbox,        \* the events each handler has not returned from
    stage,        \* calls the two accounting handlers made for their first event
    queue,        \* JobPriorityQueue: the copies in the order they were added
    registered,   \* WorkerRegistry: the ids it holds ...
    before,       \* ... the pairs of them in the order of its dictionary ...
    load,         \* ... their current_load ...
    fresh,        \* ... and whether their last_heartbeat is within the timeout
    breaker,      \* the breaker of each worker
    assigner,     \* the thread of TaskAssigner: where it is and what it holds
    requeue,      \* failed-over jobs that handle_worker_failed still holds
    online,       \* PostgresStore.online
    workerRows,   \* the workers that have a row
    row,          \* status of each task row
    holder,       \* worker_id of each task row
    tracker,      \* RetryQueue.retries_tracker
    dlq,          \* DeadLetterQueue.dlq: how often it holds each job
    alive,        \* the worker processes that run
    tasks,        \* the copies each worker has received and not finished
    beats,        \* heartbeats of each worker that wait in the inbox of
                  \* handle_heartbeat; only their number matters
    unsent,       \* jobs no client has submitted yet
    finished,     \* history: JOB_COMPLETED events sent for each job
    failovers,    \* history: times failover put each job back in the queue
    crashes, silences     \* history, for the bounds

busVars   == <<inbox, stage>>
regVars   == <<registered, before, load, fresh>>
dbVars    == <<online, workerRows, row, holder>>
retryVars == <<tracker, dlq>>
nodeVars  == <<alive, tasks, beats>>
envVars   == <<unsent, crashes, silences>>
histVars  == <<finished, failovers>>

vars == <<busVars, queue, regVars, breaker, assigner, requeue, dbVars,
          retryVars, nodeVars, envVars, histVars>>

Idle == [pc |-> "idle", todo |-> {}, cand |-> {}, before |-> {}, worker |-> None,
         job |-> None]

Init ==
    /\ inbox = [h \in Handler |-> <<>>]
    /\ stage = [h \in Handler |-> 0]
    /\ queue = <<>>
    /\ registered = {}
    /\ before = {}
    /\ load = [w \in Worker |-> 0]
    /\ fresh = [w \in Worker |-> FALSE]
    /\ breaker = [w \in Worker |-> NewBreaker]
    /\ assigner = Idle
    /\ requeue = {}
    /\ online = OnlineAtStart
    /\ workerRows = {}
    /\ row = [j \in Job |-> "ABSENT"]
    /\ holder = [j \in Job |-> None]
    /\ tracker = [j \in Job |-> 0]
    /\ dlq = [j \in Job |-> 0]
    /\ alive = {}
    /\ tasks = [w \in Worker |-> <<>>]
    /\ beats = [w \in Worker |-> 0]
    /\ unsent = Job
    /\ finished = [j \in Job |-> 0]
    /\ failovers = [j \in Job |-> 0]
    /\ crashes = 0
    /\ silences = 0

-----------------------------------------------------------------------------
(* The event bus *)

\* bus.publish: the inboxes after the broker has fanned e out.
Publish(topic, e) ==
    inbox' = [h \in Handler |-> IF h \in Subscriptions[topic]
                                THEN Append(inbox[h], e) ELSE inbox[h]]

\* Handler h is called with e, the first event of its inbox, and returns.
Consume(h) ==
    /\ inbox[h] # <<>>
    /\ inbox' = [inbox EXCEPT ![h] = Tail(@)]
    /\ UNCHANGED stage

\* Handler h makes the n-th of the calls it makes for its first event.
Call(h, n) ==
    /\ inbox[h] # <<>>
    /\ stage[h] = n

\* A call of h that is not the last one for its event ...
StayIn(h) ==
    /\ stage' = [stage EXCEPT ![h] = @ + 1]
    /\ UNCHANGED inbox

\* ... and the last one.
LeaveFrom(h) ==
    /\ inbox' = [inbox EXCEPT ![h] = Tail(@)]
    /\ stage' = [stage EXCEPT ![h] = 0]

First(h) == Head(inbox[h])

-----------------------------------------------------------------------------
(* Clients, worker processes and time *)

\* The gateway publishes a job.
Submit(j) ==
    /\ j \in unsent
    /\ unsent' = unsent \ {j}
    /\ Publish("JOB_SUBMITTED",
               [worker |-> None, job |-> [id |-> j, full |-> TRUE]])
    /\ UNCHANGED <<stage, queue, regVars, breaker, assigner, requeue, dbVars,
                   retryVars, nodeVars, crashes, silences, histVars>>

\* A worker process starts, or starts again under the same id: it connects,
\* and the coordinator's event loop publishes the REGISTER it sends.
Start(w) ==
    /\ w \notin alive
    /\ alive' = alive \cup {w}
    /\ Publish("REGISTER", [worker |-> w, job |-> None])
    /\ UNCHANGED <<stage, queue, regVars, breaker, assigner, requeue, dbVars,
                   retryVars, tasks, beats, envVars, histVars>>

\* A worker process dies with everything it has not reported.  Its heartbeats
\* that wait in the coordinator stay there.
Crash(w) ==
    /\ w \in alive
    /\ crashes < MaxCrashes
    /\ crashes' = crashes + 1
    /\ alive' = alive \ {w}
    /\ tasks' = [tasks EXCEPT ![w] = <<>>]
    /\ UNCHANGED <<busVars, queue, regVars, breaker, assigner, requeue, dbVars,
                   retryVars, beats, unsent, silences, histVars>>

\* A copy without the payload its handler reads raises and is reported failed.
Fails(c) == c.id \in Poison \/ (c.id \in NeedsPayload /\ ~c.full)

\* The pool of worker w has a thread for each of its first Capacity[w] copies;
\* one of them finishes the i-th copy and reports its outcome.
ExecuteTask(w, i) ==
    /\ i \in 1 .. Len(tasks[w])
    /\ i <= Capacity[w]
    /\ LET c == tasks[w][i]
           e == [worker |-> w, job |-> c]
       IN  \/ /\ Fails(c)
              /\ Publish("TASK_FAILED", e)
              /\ UNCHANGED finished
           \/ /\ ~Fails(c)
              /\ Publish("JOB_COMPLETED", e)
              /\ finished' = [finished EXCEPT ![c.id] = @ + 1]
    /\ tasks' = [tasks EXCEPT ![w] = RemoveAt(@, i)]
    /\ UNCHANGED <<stage, queue, regVars, breaker, assigner, requeue, dbVars,
                   retryVars, alive, beats, envVars, failovers>>

\* _heartbeat_loop of a worker: the event loop publishes what it sends.
SendHeartbeat(w) ==
    /\ w \in alive
    /\ beats[w] < MaxHeartbeats
    /\ beats' = [beats EXCEPT ![w] = @ + 1]
    /\ UNCHANGED <<busVars, queue, regVars, breaker, assigner, requeue, dbVars,
                   retryVars, alive, tasks, envVars, histVars>>

\* The timeout passes since the last heartbeat of w that was handled.  A dead
\* worker sends no more of them; those of a live one may be late.
GoSilent(w) ==
    /\ w \in registered
    /\ fresh[w]
    /\ w \in alive => silences < MaxSilences
    /\ silences' = silences + (IF w \in alive THEN 1 ELSE 0)
    /\ fresh' = [fresh EXCEPT ![w] = FALSE]
    /\ UNCHANGED <<busVars, queue, registered, before, load, breaker, assigner,
                   requeue, dbVars, retryVars, nodeVars, unsent, crashes,
                   histVars>>

\* The recovery timeout of an open breaker passes.
CoolDown(w) ==
    /\ CanCool(breaker[w])
    /\ breaker' = [breaker EXCEPT ![w] = Cooled(@)]
    /\ UNCHANGED <<busVars, queue, regVars, assigner, requeue, dbVars,
                   retryVars, nodeVars, envVars, histVars>>

\* init_db finishes in its thread; until then every repository call returns
\* without touching the database.
StoreReady ==
    /\ ~online
    /\ online' = TRUE
    /\ UNCHANGED <<busVars, queue, regVars, breaker, assigner, requeue,
                   workerRows, row, holder, retryVars, nodeVars, envVars,
                   histVars>>

-----------------------------------------------------------------------------
(* Registration, heartbeats, failure detection and failover *)

\* register_worker replaces the entry, whatever the old one counted.  A new id
\* comes last in the dictionary, one that is there keeps its place.
HandleRegister ==
    /\ Consume("handle_register")
    /\ LET w == First("handle_register").worker
       IN  /\ registered' = registered \cup {w}
           /\ before' = IF w \in registered THEN before
                        ELSE before \cup (registered \X {w})
           /\ load' = [load EXCEPT ![w] = 0]
           /\ fresh' = [fresh EXCEPT ![w] = TRUE]
    /\ UNCHANGED <<queue, breaker, assigner, requeue, dbVars, retryVars,
                   nodeVars, envVars, histVars>>

PersistWorker ==
    /\ Consume("persist_worker")
    /\ workerRows' = IF online THEN workerRows \cup {First("persist_worker").worker}
                                ELSE workerRows
    /\ UNCHANGED <<queue, regVars, breaker, assigner, requeue, online, row,
                   holder, retryVars, nodeVars, envVars, histVars>>

\* handle_heartbeat: the time of the registered worker is the time it is handled,
\* whether or not the worker still runs; an unregistered one is ignored.
HandleHeartbeat(w) ==
    /\ beats[w] > 0
    /\ beats' = [beats EXCEPT ![w] = @ - 1]
    /\ fresh' = IF w \in registered THEN [fresh EXCEPT ![w] = TRUE] ELSE fresh
    /\ UNCHANGED <<busVars, queue, registered, before, load, breaker, assigner,
                   requeue, dbVars, retryVars, alive, tasks, envVars, histVars>>

\* Mutant: the monitor calls the failure detector itself.
MonitorReportsDirectly(w) ==
    /\ w \in registered
    /\ ~fresh[w]
    /\ Len(inbox["handle_worker_failure"]) < MaxSuspicions
    /\ inbox' = [inbox EXCEPT !["handle_worker_failure"] =
                    Append(@, [worker |-> w, job |-> None])]
    /\ UNCHANGED <<stage, queue, regVars, breaker, assigner, requeue, dbVars,
                   retryVars, nodeVars, envVars, histVars>>

\* One round of the monitor reports w; rounds repeat until w is evicted.
MonitorReports(w) ==
    /\ w \in registered
    /\ ~fresh[w]
    /\ \A h \in Subscriptions.WORKER_FAILED : Len(inbox[h]) < MaxSuspicions
    /\ Publish("WORKER_FAILED", [worker |-> w, job |-> None])
    /\ UNCHANGED <<stage, queue, regVars, breaker, assigner, requeue, dbVars,
                   retryVars, nodeVars, envVars, histVars>>

\* Mutant: the worker stays in the registry.
HandleWorkerFailureKeeps ==
    /\ Consume("handle_worker_failure")
    /\ UNCHANGED <<queue, regVars, breaker, assigner, requeue, dbVars,
                   retryVars, nodeVars, envVars, histVars>>

\* FailureDetector.handle_worker_failure evicts the worker.  Its load stays as
\* it was, as in the entry a scheduling pass under way may still hold.
HandleWorkerFailure ==
    /\ Consume("handle_worker_failure")
    /\ LET w == First("handle_worker_failure").worker
       IN  /\ registered' = registered \ {w}
           /\ before' = {p \in before : p[1] # w /\ p[2] # w}
    /\ UNCHANGED <<queue, load, fresh, breaker, assigner, requeue, dbVars,
                   retryVars, nodeVars, envVars, histVars>>

\* get_assigned_tasks_for_worker, and its mutant, which looks for the status
\* tasks have before they are assigned.
PendingTasks(w)  == {j \in Job : online /\ row[j] = "PENDING" /\ holder[j] = w}
AssignedTasks(w) == {j \in Job : online /\ row[j] = "ASSIGNED" /\ holder[j] = w}

\* CoordinatorService.handle_worker_failed, in a thread of its own: forget the
\* breaker, read the tasks the database holds for the worker ...
FailoverScan ==
    /\ requeue = {}
    /\ Consume("handle_worker_failed")
    /\ LET w == First("handle_worker_failed").worker
       IN  /\ breaker' = [breaker EXCEPT ![w] = NewBreaker]
           /\ requeue' = AssignedTasks(w)
    /\ UNCHANGED <<queue, regVars, assigner, dbVars, retryVars, nodeVars,
                   envVars, histVars>>

\* ... then mark each of them PENDING (worker_id=None leaves the holder as it
\* is) and queue the copy read from its row.
FailoverRequeue(j) ==
    /\ j \in requeue
    /\ requeue' = requeue \ {j}
    /\ row' = [row EXCEPT ![j] = "PENDING"]
    /\ queue' = Append(queue, [id |-> j, full |-> FALSE])
    /\ failovers' = [failovers EXCEPT ![j] = @ + 1]
    /\ UNCHANGED <<busVars, regVars, breaker, assigner, online, workerRows,
                   holder, retryVars, nodeVars, envVars, finished>>

-----------------------------------------------------------------------------
(* Submission and assignment *)

\* Mutant: queues the bus event instead of the job in it.
HandleJobSubmittedQueuesEvent ==
    /\ Consume("handle_job_submitted")
    /\ queue' = Append(queue, First("handle_job_submitted"))
    /\ UNCHANGED <<regVars, breaker, assigner, requeue, dbVars, retryVars,
                   nodeVars, envVars, histVars>>

\* Mutant: queues the job as its row will keep it, without the payload.
HandleJobSubmittedFromRow ==
    /\ Consume("handle_job_submitted")
    /\ queue' = Append(queue, [First("handle_job_submitted").job EXCEPT !.full = FALSE])
    /\ UNCHANGED <<regVars, breaker, assigner, requeue, dbVars, retryVars,
                   nodeVars, envVars, histVars>>

HandleJobSubmitted ==
    /\ Consume("handle_job_submitted")
    /\ queue' = Append(queue, First("handle_job_submitted").job)
    /\ UNCHANGED <<regVars, breaker, assigner, requeue, dbVars, retryVars,
                   nodeVars, envVars, histVars>>

\* save_task inserts the row or resets the one that is there.
PersistTask ==
    /\ Consume("persist_task")
    /\ LET j == First("persist_task").job.id
       IN  IF online
           THEN /\ row' = [row EXCEPT ![j] = "PENDING"]
                /\ holder' = [holder EXCEPT ![j] = None]
           ELSE UNCHANGED <<row, holder>>
    /\ UNCHANGED <<queue, regVars, breaker, assigner, requeue, online,
                   workerRows, retryVars, nodeVars, envVars, histVars>>

\* update_status without a worker: no row, no change.
RowAfter(j, status) ==
    IF online /\ row[j] # "ABSENT" THEN [row EXCEPT ![j] = status] ELSE row

\* The queue key of a copy.  A number becomes text in the database, and text
\* that is not HIGH, MEDIUM or LOW counts as MEDIUM.
Medium == 5
Key(c) == IF ~c.full /\ c.id \in IntPriority THEN Medium ELSE Priority[c.id]

\* The entry the heap holds on top: the oldest of those with the least key.
Top == CHOOSE i \in DOMAIN queue :
          \A k \in DOMAIN queue :
             \/ Key(queue[i]) < Key(queue[k])
             \/ Key(queue[i]) = Key(queue[k]) /\ i <= k

\* Mutant: a queue is taken for nonempty.
NeverEmpty == FALSE

IsEmpty == queue = <<>>

\* get_next_job: the queue without the copy on top, and its mutant, which reads
\* the copy and does not take it.
Peeked == queue
Popped == RemoveAt(queue, Top)

\* get_available_workers, and its mutant, for which a full worker is available.
AvailableWhenFull == {w \in registered : Capacity[w] >= load[w]}
AvailableWorkers  == {w \in registered : Capacity[w] > load[w]}

\* get_next_job_and_worker begins: it returns at once on an empty queue, and
\* otherwise takes the workers with capacity left, in the order of the registry.
PickWorkers ==
    /\ assigner.pc = "idle"
    /\ ~IsEmpty
    /\ AvailableWorkers # {}
    /\ assigner' = [assigner EXCEPT !.pc = "check", !.todo = AvailableWorkers,
                                    !.before = before]
    /\ UNCHANGED <<busVars, queue, regVars, breaker, requeue, dbVars, retryVars,
                   nodeVars, envVars, histVars>>

\* No worker of S came before w when the pass began.
IsFirst(w, S) == \A v \in S : <<v, w>> \notin assigner.before

\* The breaker of every available worker is asked, one after the other.
CheckWorker(w) ==
    /\ assigner.pc = "check"
    /\ w \in assigner.todo
    /\ IsFirst(w, assigner.todo)
    /\ breaker' = [breaker EXCEPT ![w] = AfterAsking(@)]
    /\ assigner' = [assigner EXCEPT
                       !.todo = @ \ {w},
                       !.cand = IF MayAssign(breaker[w]) THEN @ \cup {w} ELSE @]
    /\ UNCHANGED <<busVars, queue, regVars, requeue, dbVars, retryVars,
                   nodeVars, envVars, histVars>>

\* No breaker allows a task: the loop sleeps and starts over.
PickNothing ==
    /\ assigner.pc = "check"
    /\ assigner.todo = {}
    /\ assigner.cand = {}
    /\ assigner' = Idle
    /\ UNCHANGED <<busVars, queue, regVars, breaker, requeue, dbVars, retryVars,
                   nodeVars, envVars, histVars>>

\* The capacity w has left, read now.
Free(w) == Capacity[w] - load[w]

\* The loop replaces its choice only by a worker with more capacity left.
MostFree(S) == {w \in S : \A v \in S : Free(w) >= Free(v)}

\* The first job goes to the first of the workers with the most capacity left.
ChooseWorker(w) ==
    /\ assigner.pc = "check"
    /\ assigner.todo = {}
    /\ w \in MostFree(assigner.cand)
    /\ IsFirst(w, MostFree(assigner.cand))
    /\ assigner' = [Idle EXCEPT !.pc = "increment", !.worker = w,
                                !.job = queue[Top]]
    /\ queue' = Popped
    /\ UNCHANGED <<busVars, regVars, breaker, requeue, dbVars, retryVars,
                   nodeVars, envVars, histVars>>

IncrementLoad ==
    /\ assigner.pc = "increment"
    /\ load' = IF assigner.worker \in registered
               THEN [load EXCEPT ![assigner.worker] = @ + 1] ELSE load
    /\ assigner' = [assigner EXCEPT !.pc = "publish"]
    /\ UNCHANGED <<busVars, queue, registered, before, fresh, breaker, requeue,
                   dbVars, retryVars, nodeVars, envVars, histVars>>

PublishAssignment ==
    /\ assigner.pc = "publish"
    /\ Publish("TASK_ASSIGNED", [worker |-> assigner.worker, job |-> assigner.job])
    /\ assigner' = Idle
    /\ UNCHANGED <<stage, queue, regVars, breaker, requeue, dbVars, retryVars,
                   nodeVars, envVars, histVars>>

\* EventLoop.send_to_worker: what is sent to a dead worker is gone.
SendToWorker ==
    /\ Consume("send_to_worker")
    /\ LET e == First("send_to_worker")
       IN  tasks' = IF e.worker \in alive
                    THEN [tasks EXCEPT ![e.worker] = Append(@, e.job)] ELSE tasks
    /\ UNCHANGED <<queue, regVars, breaker, assigner, requeue, dbVars, retryVars,
                   alive, beats, envVars, histVars>>

\* update_status with a worker; a worker without a row fails the transaction
\* where foreign keys are checked.
PersistTaskAssigned ==
    /\ Consume("persist_task_assigned")
    /\ LET e == First("persist_task_assigned")
           j == e.job.id
       IN  IF /\ online
              /\ row[j] # "ABSENT"
              /\ ForeignKeys => e.worker \in workerRows
           THEN /\ row' = [row EXCEPT ![j] = "ASSIGNED"]
                /\ holder' = [holder EXCEPT ![j] = e.worker]
           ELSE UNCHANGED <<row, holder>>
    /\ UNCHANGED <<queue, regVars, breaker, assigner, requeue, online,
                   workerRows, retryVars, nodeVars, envVars, histVars>>

-----------------------------------------------------------------------------
(* Outcomes: accounting, retries and the dead letter queue *)

\* decrement_load, and its mutant, which stops one too early.
DecrementedToOne(w) == [load EXCEPT ![w] = IF @ > 1 THEN @ - 1 ELSE @]
Decremented(w)      == [load EXCEPT ![w] = IF @ > 0 THEN @ - 1 ELSE @]

\* The first call of both accounting handlers.
FreeCapacity(h) ==
    /\ h \in {"handle_job_completed", "handle_task_failed"}
    /\ Call(h, 0)
    /\ StayIn(h)
    /\ LET w == First(h).worker
       IN  load' = IF w \in registered THEN Decremented(w) ELSE load
    /\ UNCHANGED <<queue, registered, before, fresh, breaker, assigner, requeue,
                   dbVars, retryVars, nodeVars, envVars, histVars>>

NoteSuccess ==
    /\ Call("handle_job_completed", 1)
    /\ LeaveFrom("handle_job_completed")
    /\ breaker' = [breaker EXCEPT
                     ![First("handle_job_completed").worker] = RecordSuccess(@)]
    /\ UNCHANGED <<queue, regVars, assigner, requeue, dbVars, retryVars,
                   nodeVars, envVars, histVars>>

PersistTaskCompleted ==
    /\ Consume("persist_task_completed")
    /\ row' = RowAfter(First("persist_task_completed").job.id, "COMPLETED")
    /\ UNCHANGED <<queue, regVars, breaker, assigner, requeue, online,
                   workerRows, holder, retryVars, nodeVars, envVars, histVars>>

NoteFailure ==
    /\ Call("handle_task_failed", 1)
    /\ StayIn("handle_task_failed")
    /\ breaker' = [breaker EXCEPT
                     ![First("handle_task_failed").worker] = RecordFailure(@)]
    /\ UNCHANGED <<queue, regVars, assigner, requeue, dbVars, retryVars,
                   nodeVars, envVars, histVars>>

\* Whether the failure being counted still leaves a retry, and the mutant that
\* compares the count before it is incremented.
RetriesLeftLate(j) == tracker[j] <= MaxRetries
RetriesLeft(j)     == tracker[j] + 1 <= MaxRetries

\* RetryQueue.handle_task_failed: back to the queue with the same copy while
\* retries are left, otherwise to the dead letter queue.
RetryOrBury ==
    /\ Call("handle_task_failed", 2)
    /\ LeaveFrom("handle_task_failed")
    /\ LET c == First("handle_task_failed").job
           j == c.id
       IN  /\ tracker' = [tracker EXCEPT ![j] = @ + 1]
           /\ \/ /\ RetriesLeft(j)
                 /\ row' = RowAfter(j, "RETRYING")
                 /\ queue' = Append(queue, c)
                 /\ UNCHANGED dlq
              \/ /\ ~RetriesLeft(j)
                 /\ row' = RowAfter(j, "DLQ")
                 /\ dlq' = [dlq EXCEPT ![j] = @ + 1]
                 /\ UNCHANGED queue
    /\ UNCHANGED <<regVars, breaker, assigner, requeue, online, workerRows,
                   holder, nodeVars, envVars, histVars>>

-----------------------------------------------------------------------------

Assigner ==
    \/ PickWorkers
    \/ \E w \in Worker : CheckWorker(w)
    \/ PickNothing
    \/ \E w \in Worker : ChooseWorker(w)
    \/ IncrementLoad
    \/ PublishAssignment

Failover == FailoverScan \/ \E j \in Job : FailoverRequeue(j)

TaskFailedHandler ==
    FreeCapacity("handle_task_failed") \/ NoteFailure \/ RetryOrBury

JobCompletedHandler == FreeCapacity("handle_job_completed") \/ NoteSuccess

Next ==
    \/ \E j \in Job : Submit(j)
    \/ \E w \in Worker : Start(w)
    \/ \E w \in Worker : Crash(w)
    \/ \E w \in Worker : \E i \in 1 .. Len(tasks[w]) : ExecuteTask(w, i)
    \/ \E w \in Worker : GoSilent(w)
    \/ \E w \in Worker : CoolDown(w)
    \/ StoreReady
    \/ HandleRegister
    \/ PersistWorker
    \/ \E w \in Worker : SendHeartbeat(w)
    \/ \E w \in Worker : HandleHeartbeat(w)
    \/ \E w \in Worker : MonitorReports(w)
    \/ HandleWorkerFailure
    \/ Failover
    \/ HandleJobSubmitted
    \/ PersistTask
    \/ Assigner
    \/ SendToWorker
    \/ PersistTaskAssigned
    \/ JobCompletedHandler
    \/ PersistTaskCompleted
    \/ TaskFailedHandler

Spec == Init /\ [][Next]_vars

\* The threads of the coordinator that pass jobs on keep running, the workers are
\* started once and finish what they execute, and breakers cool down.  Nobody has
\* to submit a job or to restart a worker.
SchedulingFairness ==
    /\ WF_vars(Assigner)
    /\ WF_vars(TaskFailedHandler)
    /\ WF_vars(JobCompletedHandler)
    /\ WF_vars(HandleRegister)
    /\ WF_vars(HandleJobSubmitted)
    /\ WF_vars(SendToWorker)
    /\ \A w \in Worker :
          /\ WF_vars(Start(w) /\ crashes = 0)
          /\ WF_vars(\E i \in 1 .. Len(tasks[w]) : ExecuteTask(w, i))
          /\ WF_vars(CoolDown(w))

\* So do the others, and time passes since the last heartbeat of a dead worker.
\* Nobody has to crash, and no heartbeat need be sent or be late.
DetectionFairness ==
    /\ WF_vars(Failover)
    /\ WF_vars(PersistWorker)
    /\ WF_vars(HandleWorkerFailure)
    /\ WF_vars(PersistTask)
    /\ WF_vars(PersistTaskAssigned)
    /\ WF_vars(PersistTaskCompleted)
    /\ WF_vars(StoreReady)
    /\ \A w \in Worker :
          /\ WF_vars(HandleHeartbeat(w))
          /\ WF_vars(GoSilent(w) /\ w \notin alive)
          /\ WF_vars(MonitorReports(w))

SchedulingSpec == Spec /\ SchedulingFairness

FairSpec == SchedulingSpec /\ DetectionFairness

-----------------------------------------------------------------------------
(* Where the copies of a job are *)

IndicesOf(s, P(_)) == {i \in DOMAIN s : P(s[i])}

CountIn(h, P(_)) == Cardinality(IndicesOf(inbox[h], P))

Holding == assigner.pc \in {"increment", "publish"}

\* Copies of j not handed to the bus for a worker yet, and those that are.
Waiting(j) ==
    LET IsJ(e) == e.job.id = j
        Is(c)  == c.id = j
    IN  CountIn("handle_job_submitted", IsJ) + Cardinality(IndicesOf(queue, Is))
          + (IF Holding /\ assigner.job.id = j THEN 1 ELSE 0)

Running(j) ==
    LET IsJ(e) == e.job.id = j
        Is(c)  == c.id = j
        slots  == UNION {{w} \X IndicesOf(tasks[w], Is) : w \in Worker}
    IN  CountIn("send_to_worker", IsJ) + Cardinality(slots)
          + CountIn("handle_task_failed", IsJ)

\* Tasks counted by increment_load for w and not yet by decrement_load.
InFlight(w) ==
    LET Of(e) == e.worker = w
        Uncounted(h) == CountIn(h, Of) -
            (IF stage[h] > 0 /\ Of(First(h)) THEN 1 ELSE 0)
    IN  (IF assigner.pc = "publish" /\ assigner.worker = w THEN 1 ELSE 0)
          + CountIn("send_to_worker", Of) + Len(tasks[w])
          + Uncounted("handle_job_completed") + Uncounted("handle_task_failed")

\* No worker was lost or taken for lost.
NoFaults == crashes = 0 /\ silences = 0

-----------------------------------------------------------------------------
(* Properties *)

\* Every variable has its type: each inbox holds events with the fields its
\* handler reads, the handlers are at one of their calls, the queue and the
\* workers hold copies of jobs.
TypeOK ==
    /\ inbox \in [Handler -> UNION {Seq(EventFor(h)) : h \in Handler}]
    /\ \A h \in Handler : inbox[h] \in Seq(EventFor(h))
    /\ stage \in [Handler -> 0 .. 2]
    /\ queue \in Seq(Copy)
    /\ registered \subseteq Worker
    /\ before \subseteq Worker \X Worker
    /\ load \in [Worker -> Nat]
    /\ fresh \in [Worker -> BOOLEAN]
    /\ breaker \in [Worker -> BreakerType]
    /\ assigner \in [pc : {"idle", "check", "increment", "publish"},
                     todo : SUBSET Worker, cand : SUBSET Worker,
                     before : SUBSET (Worker \X Worker),
                     worker : Worker \cup {None}, job : Copy \cup {None}]
    /\ requeue \subseteq Job
    /\ online \in BOOLEAN
    /\ workerRows \subseteq Worker
    /\ row \in [Job -> RowStatus]
    /\ holder \in [Job -> Worker \cup {None}]
    /\ tracker \in [Job -> Nat]
    /\ dlq \in [Job -> Nat]
    /\ alive \subseteq Worker
    /\ tasks \in [Worker -> Seq(Copy)]
    /\ beats \in [Worker -> Nat]
    /\ unsent \subseteq Job
    /\ finished \in [Job -> Nat]
    /\ failovers \in [Job -> Nat]
    /\ crashes \in Nat
    /\ silences \in Nat

\* The registry never counts more tasks on a worker than its capacity, although
\* a pass looks at the loads, asks the breakers one by one and increments the
\* load only after it has chosen (scheduler.py:17-42, task_assigner.py:20-23).
LoadWithinCapacity == \A w \in Worker : load[w] <= Capacity[w]

\* A pass that has found the queue nonempty still finds a job in it when it has
\* asked every breaker, so get_next_job never returns None for a worker whose
\* trial was just taken (scheduler.py:14, 41).
PickFindsJob == assigner.pc = "check" => queue # <<>>

\* While no worker is lost the load of a worker is exactly the number of tasks
\* on their way to it, on it, or whose outcome is not accounted for yet: no
\* capacity leaks (worker_registry.py:22-30).
LoadIsInFlight == NoFaults => \A w \in Worker : load[w] = InFlight(w)

\* A job exists once for its submission and once more for every failover that
\* put it back: no retry, assignment or handler duplicates it.
OnlyFailoverDuplicates ==
    \A j \in Job : Waiting(j) + Running(j) + finished[j] + dlq[j] <=
                     (IF j \in unsent THEN 0 ELSE 1) + failovers[j]

\* A job that a worker can do ends in the dead letter queue at most once for each
\* time failover queued it again from its row, which has no payload, whichever
\* copies of the job run beside each other and share its count of retries
\* (coordinator.py:102-106, retry_queue.py:13-24).
OnlyFailoverBuries ==
    \A j \in Job \ Poison : dlq[j] <= failovers[j]

\* The breakers of the scheduler stay well formed.
BreakersWellFormed == \A w \in Worker : WellFormed(breaker[w])

\* A worker in HALF_OPEN has its trial task: a pass is asking about it or the
\* task is in flight (circuit_breaker.py:51 says "assigned trial task").
HalfOpenHasTrial ==
    \A w \in Worker : breaker[w].state = "HALF_OPEN" =>
        \/ w \in assigner.cand
        \/ Holding /\ assigner.worker = w
        \/ InFlight(w) > 0
        \/ \E h \in {"handle_job_completed", "handle_task_failed"} :
               stage[h] > 0 /\ First(h).worker = w

\* Without lost workers every submitted job is completed by a worker or ends in
\* the dead letter queue, whatever the breakers do meanwhile.
EveryJobSettles ==
    \A j \in Job : j \notin unsent ~> finished[j] > 0 \/ dlq[j] > 0

\* A registered worker that dies is evicted, unless it is started again first,
\* although heartbeats it has sent may be handled after its death and make its
\* entry look alive once more (coordinator.py:93-96, heartbeat_monitor.py:20-26).
DeadWorkerEvicted ==
    \A w \in Worker : w \in registered \ alive ~> w \notin registered \ alive

\* When a WORKER_FAILED event for w is waiting, every task the database holds
\* as assigned to w is taken away from it.
FailoverTakesTasks ==
    \A j \in Job, w \in Worker :
        (/\ row[j] = "ASSIGNED" /\ holder[j] = w /\ online
         /\ \E i \in DOMAIN inbox["handle_worker_failed"] :
               inbox["handle_worker_failed"][i].worker = w)
        ~> (row[j] # "ASSIGNED" \/ holder[j] # w)

\* A task the database holds as assigned to a dead worker that is still registered,
\* and that no eviction under way will make the monitor forget, is taken away from
\* it unless the worker is started again: detection, eviction and failover are four
\* threads (heartbeat_monitor.py, failure_detector.py, coordinator.py:98-106).  An
\* assignment recorded after the eviction, or after a restart under the same id, is
\* outside of it: nobody looks for that one again.
RecordedTaskRecovered ==
    \A j \in Job, w \in Worker :
        (/\ row[j] = "ASSIGNED" /\ holder[j] = w /\ online
         /\ w \in registered \ alive
         /\ \A i \in DOMAIN inbox["handle_worker_failure"] :
               inbox["handle_worker_failure"][i].worker # w)
        ~> (row[j] # "ASSIGNED" \/ holder[j] # w \/ w \in alive)

\* The job lifecycle the coordinator implements while no worker is lost.
PhaseOf(j) ==
    CASE j \in unsent    -> "new"
      [] finished[j] > 0 -> "done"
      [] dlq[j] > 0      -> "dead"
      [] Running(j) > 0  -> "running"
      [] OTHER           -> "waiting"

Lifecycle == INSTANCE JobLifecycle WITH phase  <- [j \in Job |-> PhaseOf(j)],
                                        failed <- tracker

\* Every step of the coordinator and its workers is a step of the lifecycle of
\* one job, or changes no job.
LifecycleSpec == Lifecycle!Spec
=============================================================================
