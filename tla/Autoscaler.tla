----------------------------- MODULE Autoscaler -----------------------------
(***************************************************************************)
(* The autoscaler loop of CoordinatorService with the subprocesses it      *)
(* starts and stops.  The loop samples the queue and the registry, and     *)
(* acts on the samples while jobs are submitted, assigned and completed,   *)
(* workers register and processes die.  A dynamic worker is known to the   *)
(* rest of the system by its name only, worker-dynamic-n, which the        *)
(* autoscaler makes from the number of processes it tracks.                *)
(*                                                                         *)
(* An assignment goes through three threads: the assigner pops the job,    *)
(* then increments the load and publishes TASK_ASSIGNED, which the network *)
(* loop sends to the worker and persist_task_assigned records.  A          *)
(* completion and a failure are taken in by two threads each, one for the  *)
(* registry and one for the store.                                         *)
(*                                                                         *)
(* Breakers, retries and late heartbeats of a live worker are left to      *)
(* Coordinator; a worker that is not started here finishes the job it gets.*)
(***************************************************************************)
EXTENDS Integers, Sequences, FiniteSets

CONSTANTS
    MinWorkers, MaxWorkers,         \* min_workers, max_workers
    DynamicCapacity,                \* the capacity a worker registers with
    MaxProcesses,                   \* bound: processes started
    MaxJobs,                        \* bound: jobs submitted
    MaxDeaths                       \* bound: processes that die by themselves

ASSUME ScaleAssumption ==
    /\ MinWorkers \in Nat /\ MaxWorkers \in Nat /\ MinWorkers <= MaxWorkers
    /\ DynamicCapacity \in Nat \ {0}
ASSUME BoundAssumption ==
    MaxProcesses \in Nat /\ MaxJobs \in Nat /\ MaxDeaths \in Nat

Name    == 1..MaxWorkers            \* the n of worker-dynamic-n
Process == 1..MaxProcesses
Job     == 1..MaxJobs
Absent  == -1                       \* a name without an entry in the registry
Nobody  == 0                        \* the worker of a row that is not ASSIGNED

VARIABLES
    active,         \* active_subprocesses: [id, proc], oldest first
    status,         \* each process: "new", "starting", "running" or "dead"
    nameOf,         \* the name each process was started with
    queue,          \* job_queue
    hand,           \* the job the assigner has popped, and its worker
    load,           \* current_load of each name
    socket,         \* worker_sockets: the process that connected last, or 0
    toRegister,     \* the names whose REGISTER handle_register has still to take
    toSend,         \* jobs the network loop has still to send to each name
    toRecord,       \* TASK_ASSIGNED events of persist_task_assigned
    toFree,         \* JOB_COMPLETED events of each name that
                    \* handle_job_completed has still to take
    toComplete,     \* the jobs that persist_task_completed has still to take
    failed,         \* who has still to take the WORKER_FAILED of each name:
                    \* handle_worker_failure, to evict, and
                    \* handle_worker_failed, to requeue
    saved,          \* the jobs that have a row are the first ones
    row,            \* the name each job is ASSIGNED to in the store, or Nobody
    executing,      \* the jobs each process has
    loop,           \* what the loop has found in its round so far; unseen is
                    \* history: it found no job in the queue, but there was one
                    \* on its way to a worker, or one has come since
    submitted, finished, deaths, \* history
    gap,            \* history: a tracked process other than the newest has died
    inherited,      \* history: a process connected when work or a failure of an
                    \* earlier one of its name was under way, or work or a
                    \* failure of the name came before handle_register took it
    late            \* history: TASK_ASSIGNED was taken before the job had a row, or
                    \* after failover had looked for the tasks of its worker

process  == <<status, nameOf, socket>>
bus      == <<toRegister, toSend, toRecord, toFree, toComplete>>
workload == <<queue, hand, load, bus, failed, saved, row, executing>>
history  == <<submitted, finished, deaths, gap, inherited, late>>
vars     == <<active, process, workload, loop, history>>

Sleeping == [pc |-> "asleep", unseen |-> FALSE]
NoPick   == [job |-> 0, to |-> 0]

Init ==
    /\ active = <<>>
    /\ status = [p \in Process |-> "new"]
    /\ nameOf = [p \in Process |-> 0]
    /\ queue = <<>>
    /\ hand = NoPick
    /\ load = [n \in Name |-> Absent]
    /\ socket = [n \in Name |-> 0]
    /\ toRegister = <<>>
    /\ toSend = [n \in Name |-> <<>>]
    /\ toRecord = <<>>
    /\ toFree = [n \in Name |-> <<>>]
    /\ toComplete = <<>>
    /\ failed = [n \in Name |-> {}]
    /\ saved = 0
    /\ row = [j \in Job |-> Nobody]
    /\ executing = [p \in Process |-> <<>>]
    /\ loop = Sleeping
    /\ submitted = 0 /\ finished = {} /\ deaths = 0
    /\ gap = FALSE /\ inherited = FALSE /\ late = FALSE

Live(p)  == status[p] \in {"starting", "running"}
Tracked  == {active[i].proc : i \in 1..Len(active)}

\* get_available_workers: the dynamic ones.
Available == {n \in Name : load[n] # Absent /\ load[n] < DynamicCapacity}

Decremented(l) == IF l > 0 THEN l - 1 ELSE l

-----------------------------------------------------------------------------
(* The jobs and the workers.                                               *)

JobArrives ==
    loop' = [loop EXCEPT !.unseen = @ \/ loop.pc \in {"empty", "down", "stop"}]

\* handle_job_submitted
Submit ==
    /\ submitted < MaxJobs
    /\ submitted' = submitted + 1
    /\ queue' = Append(queue, submitted')
    /\ JobArrives
    /\ UNCHANGED <<active, process, failed, saved, hand, load, toRegister,
                   toSend, toRecord, toFree, toComplete, row, executing,
                   finished, deaths, gap, inherited, late>>

\* persist_task
Save ==
    /\ saved < submitted
    /\ saved' = saved + 1
    /\ UNCHANGED <<active, process, queue, hand, load, bus, failed, row,
                   executing, loop, history>>

\* get_next_job_and_worker: one of the workers with the most free capacity.
Pick(n) ==
    /\ queue # <<>> /\ hand = NoPick
    /\ n \in Available /\ \A m \in Available : load[n] <= load[m]
    /\ queue' = Tail(queue)
    /\ hand' = [job |-> Head(queue), to |-> n]
    /\ UNCHANGED <<active, process, load, bus, failed, saved, row, executing,
                   loop, history>>

\* The job goes to a worker that is not started here.
PickStatic ==
    /\ queue # <<>> /\ hand = NoPick
    /\ queue' = Tail(queue)
    /\ finished' = finished \cup {Head(queue)}
    /\ UNCHANGED <<active, process, hand, load, bus, failed, saved, row,
                   executing, loop, submitted, deaths, gap, inherited, late>>

\* Names with a process that has connected and is still to be registered.
Unregistered == {toRegister[i] : i \in 1..Len(toRegister)}

\* increment_load, and TASK_ASSIGNED is published.
Assign ==
    LET n == hand.to IN
    /\ hand # NoPick
    /\ hand' = NoPick
    /\ load' = IF load[n] = Absent THEN load ELSE [load EXCEPT ![n] = @ + 1]
    /\ toSend' = [toSend EXCEPT ![n] = Append(@, hand.job)]
    /\ toRecord' = Append(toRecord, hand)
    /\ inherited' = (inherited \/ n \in Unregistered)
    /\ UNCHANGED <<active, process, failed, saved, queue, toRegister, toFree,
                   toComplete, row, executing, loop, submitted, finished,
                   deaths, gap, late>>

\* send_to_worker: the job goes to the process that connected last under the
\* name, and is lost if that one is dead.
Send(n) ==
    LET p == socket[n] IN
    /\ toSend[n] # <<>>
    /\ toSend' = [toSend EXCEPT ![n] = Tail(@)]
    /\ executing' = IF p # 0 /\ Live(p)
                    THEN [executing EXCEPT ![p] = Append(@, Head(toSend[n]))]
                    ELSE executing
    /\ UNCHANGED <<active, process, failed, saved, queue, hand, load,
                   toRegister, toRecord, toFree, toComplete, row, loop,
                   history>>

\* persist_task_assigned
Record ==
    LET a == Head(toRecord) IN
    /\ toRecord # <<>>
    /\ toRecord' = Tail(toRecord)
    /\ row' = IF a.job <= saved THEN [row EXCEPT ![a.job] = a.to] ELSE row
    /\ late' = \/ late \/ a.job > saved
                \/ load[a.to] = Absent \/ failed[a.to] = {"evict"}
    /\ UNCHANGED <<active, process, failed, saved, queue, hand, load,
                   toRegister, toSend, toFree, toComplete, executing, loop,
                   submitted, finished, deaths, gap, inherited>>

Without(s, i) == SubSeq(s, 1, i - 1) \o SubSeq(s, i + 1, Len(s))

\* A process has executed its i-th job and reports it.
Finish(p, i) ==
    LET j == executing[p][i] IN
    /\ status[p] = "running" /\ i \in 1..Len(executing[p])
    /\ executing' = [executing EXCEPT ![p] = Without(@, i)]
    /\ toFree' = [toFree EXCEPT ![nameOf[p]] = Append(@, j)]
    /\ toComplete' = Append(toComplete, j)
    /\ finished' = finished \cup {j}
    /\ UNCHANGED <<active, process, failed, saved, queue, hand, load,
                   toRegister, toSend, toRecord, row, loop, submitted, deaths,
                   gap, inherited, late>>

\* handle_job_completed
Free(n) ==
    /\ toFree[n] # <<>>
    /\ toFree' = [toFree EXCEPT ![n] = Tail(@)]
    /\ load' = [load EXCEPT ![n] = Decremented(@)]
    /\ UNCHANGED <<active, process, failed, saved, queue, hand, toRegister,
                   toSend, toRecord, toComplete, row, executing, loop,
                   history>>

\* persist_task_completed
Complete ==
    /\ toComplete # <<>>
    /\ toComplete' = Tail(toComplete)
    /\ row' = [row EXCEPT ![Head(toComplete)] = Nobody]
    /\ UNCHANGED <<active, process, failed, saved, queue, hand, load,
                   toRegister, toSend, toRecord, toFree, executing, loop,
                   history>>

\* A process connects and sends REGISTER, by which the network loop knows its socket.
Connect(p) ==
    LET n == nameOf[p] IN
    /\ status[p] = "starting"
    /\ status' = [status EXCEPT ![p] = "running"]
    /\ socket' = [socket EXCEPT ![n] = p]
    /\ toRegister' = Append(toRegister, n)
    /\ inherited' = \/ inherited \/ failed[n] # {}
                     \/ toSend[n] # <<>> \/ toFree[n] # <<>>
    /\ UNCHANGED <<active, nameOf, failed, saved, queue, hand, load, toSend,
                   toRecord, toFree, toComplete, row, executing, loop,
                   submitted, finished, deaths, gap, late>>

\* handle_register
Register ==
    /\ toRegister # <<>>
    /\ toRegister' = Tail(toRegister)
    /\ load' = [load EXCEPT ![Head(toRegister)] = 0]
    /\ UNCHANGED <<active, process, failed, saved, queue, hand, toSend,
                   toRecord, toFree, toComplete, row, executing, loop,
                   history>>

Dies(p) ==
    /\ status' = [status EXCEPT ![p] = "dead"]
    /\ executing' = [executing EXCEPT ![p] = <<>>]

\* A process ends by itself: it crashes, or it never reaches the coordinator.
ProcessDies(p) ==
    /\ Live(p) /\ deaths < MaxDeaths
    /\ Dies(p)
    /\ deaths' = deaths + 1
    /\ gap' = (gap \/ (p \in Tracked /\ p # active[Len(active)].proc))
    /\ UNCHANGED <<active, nameOf, socket, queue, hand, load, bus, failed,
                   saved, row, loop, submitted, finished, inherited, late>>


\* The tasks failover finds for a name.
Owed(n) == {j \in Job : row[j] = n}

\* A sequence of the members of a set of jobs, in ascending order.
InOrderOf(S) ==
    [k \in 1..Cardinality(S) |->
        CHOOSE j \in S : Cardinality({i \in S : i < j}) = k - 1]

\* HeartbeatMonitor: the heartbeats of a name have ceased, or its new process is
\* still to be registered.  Bound: one WORKER_FAILED of a name at a time.
Report(n) ==
    /\ load[n] # Absent /\ failed[n] = {}
    /\ \/ n \in Unregistered
       \/ \A p \in Process : nameOf[p] = n => status[p] # "running"
    /\ failed' = [failed EXCEPT ![n] = {"evict", "requeue"}]
    /\ inherited' = (inherited \/ n \in Unregistered)
    /\ UNCHANGED <<active, process, queue, hand, load, bus, saved, row,
                   executing, loop, submitted, finished, deaths, gap, late>>

\* handle_worker_failure
Evict(n) ==
    /\ "evict" \in failed[n]
    /\ failed' = [failed EXCEPT ![n] = @ \ {"evict"}]
    /\ load' = [load EXCEPT ![n] = Absent]
    /\ UNCHANGED <<active, process, queue, hand, bus, saved, row, executing,
                   loop, history>>

\* handle_worker_failed: the tasks of the name are queued again.
Requeue(n) ==
    /\ "requeue" \in failed[n]
    /\ failed' = [failed EXCEPT ![n] = @ \ {"requeue"}]
    /\ queue' = queue \o InOrderOf(Owed(n))
    /\ row' = [j \in Job |-> IF j \in Owed(n) THEN Nobody ELSE row[j]]
    /\ IF Owed(n) # {} THEN JobArrives ELSE UNCHANGED loop
    /\ UNCHANGED <<active, process, hand, load, bus, saved, executing,
                   history>>

-----------------------------------------------------------------------------
(* The loop.                                                               *)

\* clean_dead_processes: the entries of live processes, the k-th of them being the
\* one with k - 1 before it.
Kept == {i \in 1..Len(active) : Live(active[i].proc)}
KeptBefore(i) == Cardinality({j \in Kept : j < i})
Cleaned ==
    [k \in 1..Cardinality(Kept) |->
        active[CHOOSE i \in Kept : KeptBefore(i) = k - 1]]

\* qsize = job_queue.qsize()
SampleQueue ==
    /\ loop.pc = "asleep"
    /\ loop' = IF queue # <<>> THEN [pc |-> "backlog", unseen |-> FALSE]
                               ELSE [pc |-> "empty", unseen |-> hand # NoPick]
    /\ UNCHANGED <<active, process, workload, history>>

Asleep == loop' = Sleeping

\* qsize > 0 and len(available_workers) == 0
WantsMore == loop.pc = "backlog" /\ Available = {}

\* Mutant: the last process is kept.
MayStopButLast == loop.pc = "empty" /\ Len(active) > 1

\* qsize == 0 and active_dynamic > 0
MayStop == loop.pc = "empty" /\ Len(active) > 0

\* The samples of the registry, where a worker not started here may be available,
\* and of active_subprocesses, which is then cleaned, and the branch of the loop
\* that they lead to.
SampleWorkers ==
    /\ loop.pc \in {"backlog", "empty"}
    /\ \/ WantsMore /\ loop' = [loop EXCEPT !.pc = "up"]
       \/ MayStop /\ loop' = [loop EXCEPT !.pc = "down"]
       \/ ~MayStop /\ Asleep
    /\ active' = Cleaned
    /\ UNCHANGED <<process, workload, history>>

\* active_subprocesses[worker_id] = proc: a name that is there keeps its place.
Stored(entries, n, p) ==
    IF \E i \in 1..Len(entries) : entries[i].id = n
    THEN [i \in 1..Len(entries) |->
             IF entries[i].id = n THEN [id |-> n, proc |-> p] ELSE entries[i]]
    ELSE Append(entries, [id |-> n, proc |-> p])

\* Mutant: the name is made from the dictionary before it was cleaned.
NextNameUncleaned == Len(active) + 1

\* worker-dynamic-{len(active_subprocesses) + 1}
NextName == Len(Cleaned) + 1

\* Mutant: one process too many.
AtMaximumLate == Len(Cleaned) > MaxWorkers

AtMaximum == Len(Cleaned) >= MaxWorkers

AtBound == \A p \in Process : status[p] # "new"

\* scale_up below the maximum: a process is started.
ScaleUp(p) ==
    /\ loop.pc = "up" /\ ~AtMaximum /\ ~AtBound
    /\ status[p] = "new" /\ \A q \in Process : status[q] = "new" => p <= q
    /\ active' = Stored(Cleaned, NextName, p)
    /\ status' = [status EXCEPT ![p] = "starting"]
    /\ nameOf' = [nameOf EXCEPT ![p] = NextName]
    /\ Asleep
    /\ UNCHANGED <<socket, workload, history>>

\* scale_up at the maximum (or at the bound).
ScaleUpAtMaximum ==
    /\ loop.pc = "up"
    /\ AtMaximum \/ AtBound
    /\ active' = Cleaned
    /\ Asleep
    /\ UNCHANGED <<process, workload, history>>

\* Mutant: only the oldest worker is looked at.
OldestIdle == load[1] <= 0

\* No dynamic worker of the registry has a task.
AllIdle == \A n \in Name : load[n] <= 0

\* get_all_workers() and the test of dynamic_idle.
CheckIdle ==
    /\ loop.pc = "down"
    /\ IF AllIdle THEN loop' = [loop EXCEPT !.pc = "stop"] ELSE Asleep
    /\ UNCHANGED <<active, process, workload, history>>

\* scale_down: the newest process is stopped.
ScaleDown ==
    /\ loop.pc = "stop" /\ Len(Cleaned) > MinWorkers
    /\ active' = SubSeq(Cleaned, 1, Len(Cleaned) - 1)
    /\ Dies(Cleaned[Len(Cleaned)].proc)
    /\ Asleep
    /\ UNCHANGED <<nameOf, socket, queue, hand, load, bus, failed, saved, row,
                   history>>

ScaleDownAtMinimum ==
    /\ loop.pc = "stop" /\ Len(Cleaned) <= MinWorkers
    /\ active' = Cleaned
    /\ Asleep
    /\ UNCHANGED <<process, workload, history>>

Loop ==
    \/ SampleQueue \/ SampleWorkers
    \/ \E p \in Process : ScaleUp(p)
    \/ ScaleUpAtMaximum \/ CheckIdle \/ ScaleDown \/ ScaleDownAtMinimum

Assigner == PickStatic \/ Assign \/ \E n \in Name : Pick(n)

\* What goes on by itself: the threads of the coordinator other than the loop, and
\* the processes.
Work ==
    \/ Assigner \/ Save \/ Record \/ Complete \/ Register
    \/ \E n \in Name : Send(n) \/ Free(n)
    \/ \E n \in Name : Report(n) \/ Evict(n) \/ Requeue(n)
    \/ \E p \in Process : Connect(p)
    \/ \E p \in Process : \E i \in 1..Len(executing[p]) : Finish(p, i)

Next == Submit \/ Work \/ Loop \/ \E p \in Process : ProcessDies(p)

Spec == Init /\ [][Next]_vars

\* The loop goes round, and the rest goes on: its threads run, started processes
\* connect, jobs are executed, and a worker that is not started here gets free.
\* There is finitely much of it, so that the fairness of the whole is enough.
FairSpec == Spec /\ WF_vars(Loop) /\ WF_vars(Work)

-----------------------------------------------------------------------------
Pending == [job : Job, to : Name]

\* Types; the dictionary holds a name once.
TypeOK ==
    /\ active \in Seq([id : Name, proc : Process])
    /\ \A i, j \in 1..Len(active) : i # j => active[i].id # active[j].id
    /\ status \in [Process -> {"new", "starting", "running", "dead"}]
    /\ nameOf \in [Process -> Name \cup {0}]
    /\ socket \in [Name -> Process \cup {0}]
    /\ queue \in Seq(Job)
    /\ hand \in Pending \cup {NoPick}
    /\ load \in [Name -> {Absent} \cup Nat]
    /\ toRegister \in Seq(Name)
    /\ toSend \in [Name -> Seq(Job)]
    /\ toRecord \in Seq(Pending)
    /\ toFree \in [Name -> Seq(Job)]
    /\ toComplete \in Seq(Job)
    /\ failed \in [Name -> SUBSET {"evict", "requeue"}]
    /\ saved \in 0..MaxJobs
    /\ row \in [Job -> Name \cup {Nobody}]
    /\ executing \in [Process -> Seq(Job)]
    /\ loop \in [pc : {"asleep", "backlog", "empty", "up", "down", "stop"},
                 unseen : BOOLEAN]
    /\ submitted \in 0..MaxJobs /\ finished \subseteq Job /\ deaths \in 0..MaxDeaths
    /\ gap \in BOOLEAN /\ inherited \in BOOLEAN /\ late \in BOOLEAN

\* A running process that the autoscaler no longer tracks, and so never stops,
\* can only come from a name that was made twice, and that takes the death of a
\* process that was not the newest (autoscaler.py:24, 31).
OrphansNeedGap ==
    gap \/ \A p \in Process : Live(p) => p \in Tracked

\* Without such a death no more than max_workers dynamic processes are alive,
\* whenever they die, register or are stopped (autoscaler.py:19).
LiveWithinMaximum ==
    gap \/ Cardinality({p \in Process : Live(p)}) <= MaxWorkers

Newest == Cleaned[Len(Cleaned)].proc

\* A process that has tasks is stopped only after such a death; when a job was
\* between the queue and the registry when the loop read the length of the one, or
\* came to the queue before it acted on the other; or when work of an earlier
\* process of the same name reached it (coordinator.py:142, 156-165,
\* task_assigner.py:19-22, worker_registry.py:9-15).
StopsBusyOnlyUnseen ==
    [][ScaleDown => \/ gap \/ loop.unseen \/ inherited
                    \/ executing[Newest] = <<>>]_vars

\* Without such a death the dynamic workers go down to min_workers once no more
\* jobs come, whichever tasks died with their process and were queued again.
\* With it a forgotten process may send heartbeats under the name of a dead one,
\* whose load then never becomes zero (coordinator.py:156-162).
EventuallyScaledDown == <>[](gap \/ Len(active) <= MinWorkers)


\* README.md:65 says that dynamic workers are gently terminated "once tasks are
\* drained and idle": a process that has a task is never stopped.
StopsOnlyIdle == [][ScaleDown => executing[Newest] = <<>>]_vars
=============================================================================
